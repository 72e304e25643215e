-------------------------- MODULE DiscoveryProofs --------------------------
(***************************************************************************)
(* Proofs that the announcement cache of every runtime keeps to its limit  *)
(* and to one entry per feed, and that no runtime sends an announcement    *)
(* that has expired, for every limit, topology and lifetime.               *)
(***************************************************************************)
EXTENDS Discovery, FiniteSetTheorems, WellFoundedInduction, TLAPS

\* What the cache of one runtime looks like.
Kept(known) ==
    /\ IsFiniteSet(known) /\ Cardinality(known) <= MaxFeeds
    /\ \A a, b \in known : a.feed = b.feed => a = b

CacheInv ==
    /\ cache = [r \in Runtime |-> cache[r]]
    /\ \A r \in Runtime : Kept(cache[r])

\* Pruning only removes.
LEMMA UnexpiredKept ==
    ASSUME NEW known, Kept(known)
    PROVE  Kept(Unexpired(known))
<1>1. Unexpired(known) \in SUBSET known
  BY DEF Unexpired
<1>2. IsFiniteSet(Unexpired(known)) /\ Cardinality(Unexpired(known)) <= Cardinality(known)
  BY <1>1, FS_Subset DEF Kept
<1>3. Cardinality(known) \in Nat /\ Cardinality(Unexpired(known)) \in Nat
  BY <1>2, FS_CardinalityType DEF Kept
<1> QED
  BY <1>1, <1>2, <1>3, DiscoveryConstants DEF Kept

\* An announcement of a feed with an entry takes the place of that entry; one of another
\* feed is added only below the limit.
LEMMA RememberKept ==
    ASSUME NEW known, NEW a, Kept(known), Remembers(known, a)
    PROVE  Kept(Remember(known, a))
<1> DEFINE rest == {b \in known : b.feed # a.feed}
<1>1. Remember(known, a) = rest \cup {a} /\ a \notin rest
  BY DEF Remember
<1>2. rest \in SUBSET known /\ IsFiniteSet(known)
  BY DEF Kept
<1>3. /\ IsFiniteSet(rest) /\ Cardinality(rest) <= Cardinality(known)
      /\ Cardinality(known) = Cardinality(rest) => known = rest
  BY <1>2, FS_Subset
<1>4. Cardinality(rest) \in Nat /\ Cardinality(known) \in Nat
  BY <1>2, <1>3, FS_CardinalityType
<1>5. IsFiniteSet(rest \cup {a}) /\ Cardinality(rest \cup {a}) = Cardinality(rest) + 1
  BY <1>1, <1>3, FS_AddElement
<1>6. Cardinality(rest) < MaxFeeds
  <2>1. CASE a.feed \in KnownFeeds(known)
    <3>1. known # rest
      BY <2>1 DEF KnownFeeds
    <3> QED
      BY <3>1, <1>3, <1>4, DiscoveryConstants DEF Kept
  <2>2. CASE Cardinality(known) < MaxFeeds
    BY <2>2, <1>3, <1>4, DiscoveryConstants
  <2> QED
    BY <2>1, <2>2 DEF Remembers
<1>7. Cardinality(rest \cup {a}) <= MaxFeeds
  BY <1>4, <1>5, <1>6, DiscoveryConstants
<1>8. \A b, c \in rest \cup {a} : b.feed = c.feed => b = c
  BY DEF Kept
<1> QED
  BY <1>1, <1>5, <1>7, <1>8 DEF Kept

\* A step that changes the caches of some runtimes to kept ones keeps all.
LEMMA OneCacheChanged ==
    ASSUME CacheInv, NEW r \in Runtime, NEW known, Kept(known),
           cache' = [cache EXCEPT ![r] = known]
    PROVE  CacheInv'
<1>1. cache' = [q \in Runtime |-> IF q = r THEN known ELSE cache[q]]
  BY DEF CacheInv
<1>2. \A q \in Runtime : cache'[q] = IF q = r THEN known ELSE cache[q]
  BY <1>1
<1>3. \A q \in Runtime : Kept(cache'[q])
  BY <1>2 DEF CacheInv
<1>4. cache' = [q \in Runtime |-> cache'[q]]
  BY <1>1
<1> QED
  BY <1>3, <1>4 DEF CacheInv, Kept

LEMMA CacheStep ==
    ASSUME CacheInv, [Next]_vars
    PROVE  CacheInv'
<1>1. ASSUME NEW f \in Feed, Publish(f)
      PROVE  CacheInv'
  <2> DEFINE r == Owner[f]
             a == [feed |-> f, at |-> now]
             known == IF Remembers(cache[r], a) THEN Remember(cache[r], a) ELSE cache[r]
  <2>1. r \in Runtime
    BY DiscoveryConstants
  <2>2. Kept(cache[r])
    BY <2>1 DEF CacheInv
  <2>3. Kept(known)
    BY <2>2, RememberKept
  <2>4. Kept(Unexpired(known))
    BY <2>3, UnexpiredKept
  <2>5. cache' = [cache EXCEPT ![r] = Unexpired(known)]
    BY <1>1 DEF Publish, Broadcast
  <2> HIDE DEF r, known
  <2> QED
    BY <2>1, <2>4, <2>5, OneCacheChanged
<1>2. ASSUME NEW r \in Runtime, NEW q \in Runtime, Receive(r, q)
      PROVE  CacheInv'
  <2> DEFINE a == Head(wire[<<r, q>>])
  <2>1. CASE Valid(a) /\ Remembers(cache[q], a)
    <3>1. cache' = [cache EXCEPT ![q] = Remember(cache[q], a)]
      BY <1>2, <2>1 DEF Receive
    <3>2. Kept(Remember(cache[q], a))
      BY <2>1, RememberKept DEF CacheInv
    <3> QED
      BY <3>1, <3>2, OneCacheChanged
  <2>2. CASE ~(Valid(a) /\ Remembers(cache[q], a))
    <3>1. cache' = cache
      BY <1>2, <2>2 DEF Receive
    <3> QED
      BY <3>1 DEF CacheInv, Kept
  <2> QED
    BY <2>1, <2>2
<1>3. ASSUME NEW r \in Runtime, NEW a, Opened(r, a)
      PROVE  CacheInv'
  <2>1. Kept(Unexpired(cache[r]))
    BY UnexpiredKept DEF CacheInv
  <2>2. cache' = [cache EXCEPT ![r] = Unexpired(cache[r])]
    BY <1>3 DEF Opened, Broadcast
  <2> QED
    BY <2>1, <2>2, OneCacheChanged
<1>4. ASSUME NEW r \in Runtime, Status(r)
      PROVE  CacheInv'
  <2>1. Kept(Unexpired(cache[r]))
    BY UnexpiredKept DEF CacheInv
  <2>2. cache' = [cache EXCEPT ![r] = Unexpired(cache[r])]
    BY <1>4 DEF Status
  <2> QED
    BY <2>1, <2>2, OneCacheChanged
<1>5. ASSUME NEW r \in Runtime, NEW q \in Runtime, Link(r, q)
      PROVE  CacheInv'
  <2>1. cache' = [cache EXCEPT ![r] = Unexpired(@), ![q] = Unexpired(@)]
    BY <1>5 DEF Link
  <2>2. \A known : Unexpired(Unexpired(known)) = Unexpired(known)
    BY DEF Unexpired
  <2>3. \A p \in Runtime : cache'[p] = IF p \in {r, q} THEN Unexpired(cache[p]) ELSE cache[p]
    BY <2>1, <2>2 DEF CacheInv
  <2>4. \A p \in Runtime : Kept(cache'[p])
    BY <2>3, UnexpiredKept DEF CacheInv
  <2>5. cache' = [p \in Runtime |-> cache'[p]]
    BY <2>1 DEF CacheInv
  <2> QED
    BY <2>4, <2>5 DEF CacheInv, Kept
<1>6. ASSUME NEW r \in Runtime, Restart(r)
      PROVE  CacheInv'
  <2>1. Kept({})
    BY FS_EmptySet, DiscoveryConstants DEF Kept
  <2>2. cache' = [cache EXCEPT ![r] = {}]
    BY <1>6 DEF Restart
  <2> QED
    BY <2>1, <2>2, OneCacheChanged
<1>7. ASSUME cache' = cache
      PROVE  CacheInv'
  BY <1>7 DEF CacheInv, Kept
<1>8. ASSUME NEW r \in Runtime, NEW q \in Runtime, Unlink(r, q)
      PROVE  CacheInv'
  BY <1>7, <1>8 DEF Unlink
<1>9. ASSUME NEW r \in Runtime, NEW a, OpenFails(r, a)
      PROVE  CacheInv'
  BY <1>7, <1>9 DEF OpenFails
<1>10. ASSUME Tick \/ UNCHANGED vars
       PROVE  CacheInv'
  BY <1>7, <1>10 DEF Tick, vars
<1> QED
  BY <1>1, <1>2, <1>3, <1>4, <1>5, <1>6, <1>8, <1>9, <1>10 DEF Next

\* Every runtime keeps its cache to the limit, with one entry for a feed.
LEMMA CacheInvariant == Spec => []CacheInv
<1>1. Init => CacheInv
  <2> SUFFICES ASSUME Init PROVE CacheInv
    OBVIOUS
  <2>1. Kept({})
    BY FS_EmptySet, DiscoveryConstants DEF Kept
  <2> QED
    BY <2>1 DEF Init, CacheInv
<1>2. CacheInv /\ [Next]_vars => CacheInv'
  BY CacheStep
<1> QED
  BY <1>1, <1>2, PTL DEF Spec

\* Whatever is published, received, relinked or restarted, a runtime never holds more than
\* MAX_DISCOVERED_MEMBER_FEEDS announcements, nor two of one feed.
THEOREM CacheAlwaysBounded == Spec => []CacheBounded
<1>1. CacheInv => CacheBounded
  BY DEF CacheInv, Kept, CacheBounded
<1> QED
  BY <1>1, CacheInvariant, PTL

----------------------------------------------------------------------------
(***************************************************************************)
(* What the recursive helpers of a broadcast return: Without keeps         *)
(* messages of the sequence, SetToSeq lists the elements of a finite set.  *)
(***************************************************************************)

\* A non-empty set of natural numbers has a least member.
LEMMA LeastNumber ==
    ASSUME NEW C, C \subseteq Nat, C # {}
    PROVE  \E n \in C : \A m \in C : n <= m
<1>1. PICK n \in C : \A m \in C : ~ (<<m, n>> \in OpToRel(<, Nat))
  BY NatLessThanWellFounded, WFMin
<1>2. \A p \in Nat \X Nat : p[1] < p[2] => p \in OpToRel(<, Nat)
  BY DEF OpToRel
<1>3. \A m \in C : <<m, n>> \in Nat \X Nat /\ <<m, n>>[1] = m /\ <<m, n>>[2] = n
  BY <1>1
<1>4. \A m \in C : ~ (m < n)
  BY <1>1, <1>2, <1>3
<1> QED
  BY <1>4

\* F gives what Without keeps of the first messages, up to n of them.
KeepsTo(F, s, known, n) ==
    F = [i \in 0 .. n |->
            IF i = 0 THEN <<>>
            ELSE IF s[i] \in known THEN F[i - 1] ELSE Append(F[i - 1], s[i])]

\* The recursion of Without has a solution.
LEMMA KeepsExist ==
    ASSUME NEW s, NEW known
    PROVE  \A n \in Nat : \E F : KeepsTo(F, s, known, n)
<1> DEFINE Has(n) == \E F : KeepsTo(F, s, known, n)
           Bad == {n \in Nat : ~ Has(n)}
           Longer(kept, i) == IF s[i] \in known THEN kept ELSE Append(kept, s[i])
<1>1. Has(0)
  <2>1. KeepsTo([i \in 0 .. 0 |-> <<>>], s, known, 0)
    BY DEF KeepsTo
  <2> QED
    BY <2>1
<1>2. ASSUME NEW n \in Nat, Has(n) PROVE Has(n + 1)
  <2>1. PICK F : F = [i \in 0 .. n |-> IF i = 0 THEN <<>> ELSE Longer(F[i - 1], i)]
    BY <1>2 DEF KeepsTo
  <2> HIDE DEF Longer
  <2> DEFINE G == [i \in 0 .. n + 1 |-> IF i = 0 THEN <<>> ELSE Longer(F[i - 1], i)]
             H == [i \in 0 .. n + 1 |-> IF i = 0 THEN <<>> ELSE Longer(G[i - 1], i)]
  <2>2. \A i \in 0 .. n : G[i] = F[i]
    BY <2>1
  <2>3. \A i \in 1 .. n + 1 : G[i - 1] = F[i - 1]
    <3>1. \A i \in 1 .. n + 1 : i - 1 \in 0 .. n
      OBVIOUS
    <3> HIDE DEF G
    <3> QED
      BY <2>2, <3>1
  <2>4. \A i \in 0 .. n + 1 : G[i] = H[i]
    <3>1. \A i \in 0 .. n + 1 : i # 0 => i \in 1 .. n + 1
      OBVIOUS
    <3>2. \A i \in 0 .. n + 1 : G[i] = IF i = 0 THEN <<>> ELSE Longer(F[i - 1], i)
      OBVIOUS
    <3>3. \A i \in 0 .. n + 1 : H[i] = IF i = 0 THEN <<>> ELSE Longer(G[i - 1], i)
      OBVIOUS
    <3> HIDE DEF G, H
    <3> QED
      BY <2>3, <3>1, <3>2, <3>3
  <2>5. G = H
    BY <2>4
  <2>6. KeepsTo(G, s, known, n + 1)
    BY <2>5 DEF KeepsTo, Longer
  <2> QED
    BY <2>6
<1> HIDE DEF Has
<1>3. Bad = {}
  <2> SUFFICES ASSUME Bad # {} PROVE FALSE
    OBVIOUS
  <2>1. PICK n \in Bad : \A k \in Bad : n <= k
    BY LeastNumber
  <2>2. n # 0 /\ n \in Nat
    BY <1>1, <2>1
  <2>3. n - 1 \in Nat /\ Has(n - 1)
    BY <2>1, <2>2
  <2>4. Has((n - 1) + 1) /\ (n - 1) + 1 = n
    BY <1>2, <2>2, <2>3
  <2> QED
    BY <2>1, <2>4
<1> QED
  BY <1>3 DEF Has

\* What Without keeps are messages of the sequence.
LEMMA WithoutKeeps ==
    ASSUME NEW S, NEW s \in Seq(S), NEW known
    PROVE  Without(s, known) \in Seq(ToSet(s))
<1> DEFINE N == Len(s)
           R == ToSet(s)
           G == CHOOSE F : KeepsTo(F, s, known, N)
           Bad == {i \in 0 .. N : G[i] \notin Seq(R)}
<1>1. N \in Nat /\ \A i \in 1 .. N : s[i] \in R
  BY DEF ToSet
<1>2. \E F : KeepsTo(F, s, known, N)
  BY <1>1, KeepsExist
<1>3. KeepsTo(G, s, known, N)
  BY <1>2
<1>4. Without(s, known) = G[N]
  BY DEF Without, KeepsTo
<1> HIDE DEF G, R
<1>5. G[0] \in Seq(R)
  BY <1>1, <1>3 DEF KeepsTo
<1>6. ASSUME NEW i \in 0 .. N, i # 0, G[i - 1] \in Seq(R) PROVE G[i] \in Seq(R)
  <2>1. G[i] = IF s[i] \in known THEN G[i - 1] ELSE Append(G[i - 1], s[i])
    BY <1>3, <1>6 DEF KeepsTo
  <2>2. s[i] \in R
    BY <1>1, <1>6
  <2> QED
    BY <1>6, <2>1, <2>2
<1>7. Bad = {}
  <2> SUFFICES ASSUME Bad # {} PROVE FALSE
    OBVIOUS
  <2>1. Bad \subseteq Nat
    BY <1>1
  <2>2. PICK n \in Bad : \A k \in Bad : n <= k
    <3> HIDE DEF Bad
    <3> QED
      BY <2>1, LeastNumber
  <2>3. n # 0 /\ n \in 0 .. N
    BY <1>5, <2>2
  <2>4. n - 1 \in 0 .. N /\ n - 1 \notin Bad
    BY <1>1, <2>2, <2>3
  <2> QED
    BY <1>6, <2>2, <2>3, <2>4
<1>8. G[N] \in Seq(R)
  BY <1>1, <1>7
<1> QED
  BY <1>4, <1>8 DEF R

\* A finite set can be sent one element after another.
LEMMA SetSequence ==
    ASSUME NEW S, IsFiniteSet(S)
    PROVE  SetToSeq(S) \in Seq(S)
<1> DEFINE n == Cardinality(S)
<1>1. n \in Nat /\ ExistsBijection(1 .. n, S)
  BY FS_CardinalityType
<1>2. \E f \in [1 .. n -> S] : IsInjective(f)
  BY <1>1 DEF ExistsBijection, Bijection, Injection, IsInjective
<1>3. SetToSeq(S) \in [1 .. n -> S]
  BY <1>2 DEF SetToSeq
<1> QED
  BY <1>1, <1>3

----------------------------------------------------------------------------
(***************************************************************************)
(* Types, and what a runtime sends.                                        *)
(***************************************************************************)

\* Types, and with them the finite caches without which nothing is known of a broadcast.
DiscoveryInv == TypeOK /\ CacheInv

\* The links, as TypeOK has them.
Wires == [Runtime \X Runtime -> Seq(Announcement)]

\* A broadcast leaves sequences of announcements, and puts nothing on them but the
\* announcements it was given.
LEMMA SentOnly ==
    ASSUME NEW w \in Wires, NEW r, NEW known, IsFiniteSet(known), known \subseteq Announcement,
           NEW on
    PROVE  /\ Sent(w, r, known, on) \in Wires
           /\ \A p \in Runtime \X Runtime :
                ToSet(Sent(w, r, known, on)[p]) \subseteq ToSet(w[p]) \cup known
<1>1. SetToSeq(known) \in Seq(known)
  BY SetSequence
<1>2. ASSUME NEW p \in Runtime \X Runtime
      PROVE  /\ Without(w[p], known) \o SetToSeq(known) \in Seq(Announcement)
             /\ ToSet(Without(w[p], known) \o SetToSeq(known)) \subseteq ToSet(w[p]) \cup known
  <2>1. w[p] \in Seq(Announcement)
    BY DEF Wires
  <2>2. Without(w[p], known) \in Seq(ToSet(w[p]))
    BY <2>1, WithoutKeeps
  <2>3. ToSet(w[p]) \subseteq Announcement
    BY <2>1 DEF ToSet
  <2> DEFINE R == ToSet(w[p]) \cup known
             s == Without(w[p], known)
             t == SetToSeq(known)
  <2>4. s \in Seq(R) /\ t \in Seq(R) /\ R \subseteq Announcement
    BY <1>1, <2>2, <2>3
  <2> HIDE DEF R, s, t
  <2>5. s \o t \in Seq(R)
    BY <2>4
  <2>6. s \o t \in Seq(Announcement) /\ ToSet(s \o t) \subseteq R
    BY <2>4, <2>5 DEF ToSet
  <2> QED
    BY <2>6 DEF R, s, t
<1>3. Sent(w, r, known, on) =
        [p \in Runtime \X Runtime |->
            IF p[1] = r /\ {r, p[2]} \in on
            THEN Without(w[p], known) \o SetToSeq(known) ELSE w[p]]
  BY DEF Sent
<1>4. \A p \in Runtime \X Runtime : w[p] \in Seq(Announcement)
  BY DEF Wires
<1> QED
  BY <1>2, <1>3, <1>4 DEF Wires

\* What a runtime sends: nothing of it has expired.
SendsOnlyValid ==
    \A p \in Runtime \X Runtime :
        \A a \in ToSet(wire'[p]) \ ToSet(wire[p]) : now < a.at + Lifetime

\* What a runtime may keep in its cache.
Entries(known) == known \subseteq Announcement /\ Kept(known)

\* A broadcast prunes what it is given before it sends.
LEMMA BroadcastSends ==
    ASSUME DiscoveryInv, NEW r \in Runtime, NEW known, Entries(known), Broadcast(r, known)
    PROVE  /\ cache' \in [Runtime -> SUBSET Announcement] /\ wire' \in Wires
           /\ SendsOnlyValid
<1> DEFINE valid == Unexpired(known)
<1>1. valid \subseteq known /\ \A a \in valid : now < a.at + Lifetime
  BY DEF Unexpired, Valid
<1>2. IsFiniteSet(valid) /\ valid \subseteq Announcement
  BY <1>1, FS_Subset DEF Entries, Kept
<1>3. cache' = [cache EXCEPT ![r] = valid] /\ wire' = Sent(wire, r, valid, links)
  BY DEF Broadcast
<1> HIDE DEF valid
<1>4. wire \in Wires /\ cache \in [Runtime -> SUBSET Announcement]
  BY DEF DiscoveryInv, TypeOK, Wires
<1>5. /\ wire' \in Wires
      /\ \A p \in Runtime \X Runtime : ToSet(wire'[p]) \subseteq ToSet(wire[p]) \cup valid
  BY <1>2, <1>3, <1>4, SentOnly
<1>6. SendsOnlyValid
  BY <1>1, <1>5 DEF SendsOnlyValid
<1>7. cache' \in [Runtime -> SUBSET Announcement]
  BY <1>2, <1>3, <1>4
<1> QED
  BY <1>5, <1>6, <1>7

\* The cache of a runtime stays a cache of announcements when one more is remembered.
LEMMA RememberedEntries ==
    ASSUME DiscoveryInv, NEW r \in Runtime, NEW a \in Announcement
    PROVE  /\ Entries(cache[r])
           /\ Remembers(cache[r], a) => Entries(Remember(cache[r], a))
<1>1. Entries(cache[r])
  BY DEF DiscoveryInv, TypeOK, CacheInv, Entries
<1>2. Remember(cache[r], a) \subseteq Announcement
  BY <1>1 DEF Remember, Entries
<1> QED
  BY <1>1, <1>2, RememberKept DEF Entries

\* Every step keeps the types and sends nothing that has expired.
LEMMA DiscoveryStep ==
    ASSUME DiscoveryInv, [Next]_vars
    PROVE  TypeOK' /\ SendsOnlyValid
<1>1. /\ now \in 0 .. MaxTime /\ cache \in [Runtime -> SUBSET Announcement]
      /\ opening \in [Runtime -> SUBSET Announcement] /\ own \in [Runtime -> SUBSET Announcement]
      /\ links \subseteq Topology /\ wire \in Wires
  BY DEF DiscoveryInv, TypeOK, Wires
<1>2. ASSUME NEW f \in Feed, Publish(f)
      PROVE  TypeOK' /\ SendsOnlyValid
  <2> DEFINE r == Owner[f]
             a == [feed |-> f, at |-> now]
             known == IF Remembers(cache[r], a) THEN Remember(cache[r], a) ELSE cache[r]
  <2>1. r \in Runtime /\ a \in Announcement
    BY <1>1, DiscoveryConstants DEF Announcement
  <2>2. /\ own' = [own EXCEPT ![r] = @ \cup {a}] /\ Broadcast(r, known)
        /\ UNCHANGED <<now, opening, links>>
    BY <1>2 DEF Publish
  <2> HIDE DEF r, a
  <2>3. Entries(known)
    BY <2>1, RememberedEntries
  <2> HIDE DEF known
  <2>4. own' \in [Runtime -> SUBSET Announcement]
    BY <1>1, <2>1, <2>2
  <2>5. /\ cache' \in [Runtime -> SUBSET Announcement] /\ wire' \in Wires
        /\ SendsOnlyValid
    BY <2>1, <2>2, <2>3, BroadcastSends
  <2> QED
    BY <1>1, <2>2, <2>4, <2>5 DEF TypeOK, Wires
<1>3. ASSUME NEW r \in Runtime, NEW q \in Runtime, Receive(r, q)
      PROVE  TypeOK' /\ SendsOnlyValid
  <2> DEFINE a == Head(wire[<<r, q>>])
             p == <<r, q>>
  <2>1. p \in Runtime \X Runtime /\ wire[p] \in Seq(Announcement) /\ wire[p] # <<>>
    BY <1>1, <1>3 DEF Receive, Wires
  <2>2. /\ a \in Announcement /\ Tail(wire[p]) \in Seq(Announcement)
        /\ ToSet(Tail(wire[p])) \subseteq ToSet(wire[p])
    BY <2>1 DEF ToSet
  <2>3. wire' = [wire EXCEPT ![p] = Tail(wire[p])] /\ UNCHANGED <<now, own, links>>
    BY <1>3 DEF Receive
  <2>4. \/ UNCHANGED <<cache, opening>>
        \/ /\ Remembers(cache[q], a)
           /\ cache' = [cache EXCEPT ![q] = Remember(cache[q], a)]
           /\ opening' = [opening EXCEPT ![q] = @ \cup {a}]
    BY <1>3 DEF Receive
  <2> HIDE DEF a, p
  <2>5. Remembers(cache[q], a) => Remember(cache[q], a) \subseteq Announcement
    BY <2>2, RememberedEntries DEF Entries
  <2>6. wire' \in Wires /\ \A o \in Runtime \X Runtime : ToSet(wire'[o]) \subseteq ToSet(wire[o])
    BY <1>1, <2>1, <2>2, <2>3 DEF Wires
  <2>7. /\ cache' \in [Runtime -> SUBSET Announcement]
        /\ opening' \in [Runtime -> SUBSET Announcement]
    BY <1>1, <2>2, <2>4, <2>5
  <2> QED
    BY <1>1, <2>3, <2>6, <2>7 DEF TypeOK, Wires, SendsOnlyValid
<1>4. ASSUME NEW r \in Runtime, NEW a \in Announcement, Opened(r, a)
      PROVE  TypeOK' /\ SendsOnlyValid
  <2>1. /\ opening' = [opening EXCEPT ![r] = @ \ {a}] /\ Broadcast(r, cache[r])
        /\ UNCHANGED <<now, own, links>>
    BY <1>4 DEF Opened
  <2>2. opening' \in [Runtime -> SUBSET Announcement]
    BY <1>1, <2>1
  <2>3. /\ cache' \in [Runtime -> SUBSET Announcement] /\ wire' \in Wires
        /\ SendsOnlyValid
    BY <2>1, RememberedEntries, BroadcastSends
  <2> QED
    BY <1>1, <2>1, <2>2, <2>3 DEF TypeOK, Wires
<1>5. ASSUME NEW r \in Runtime, NEW q \in Runtime, Link(r, q)
      PROVE  TypeOK' /\ SendsOnlyValid
  <2>1. /\ links' = links \cup {{r, q}} /\ {r, q} \in Topology
        /\ cache' = [cache EXCEPT ![r] = Unexpired(@), ![q] = Unexpired(@)]
        /\ wire' = Sent(Sent(wire, r, cache'[r], links'), q, cache'[q], links')
        /\ UNCHANGED <<now, opening, own>>
    BY <1>5 DEF Link
  <2>2. \A known : Unexpired(Unexpired(known)) = Unexpired(known) /\ Unexpired(known) \subseteq known
    BY DEF Unexpired
  <2>3. /\ cache' \in [Runtime -> SUBSET Announcement]
        /\ cache'[r] = Unexpired(cache[r]) /\ cache'[q] = Unexpired(cache[q])
    BY <1>1, <2>1, <2>2
  <2> DEFINE R == cache'[r]
             Q == cache'[q]
             on == links'
             half == Sent(wire, r, R, on)
  <2>4. /\ R \subseteq Announcement /\ Q \subseteq Announcement
        /\ \A a \in R \cup Q : now < a.at + Lifetime
    BY <2>3 DEF Unexpired, Valid
  <2>5. IsFiniteSet(R) /\ IsFiniteSet(Q)
    BY <2>2, <2>3, FS_Subset DEF DiscoveryInv, CacheInv, Kept
  <2>6. wire' = Sent(half, q, Q, on)
    BY <2>1
  <2> HIDE DEF R, Q, on
  <2>7. /\ half \in Wires
        /\ \A p \in Runtime \X Runtime : ToSet(half[p]) \subseteq ToSet(wire[p]) \cup R
    BY <1>1, <2>4, <2>5, SentOnly
  <2> HIDE DEF half
  <2>8. /\ wire' \in Wires
        /\ \A p \in Runtime \X Runtime : ToSet(wire'[p]) \subseteq ToSet(half[p]) \cup Q
    BY <2>4, <2>5, <2>6, <2>7, SentOnly
  <2>9. \A p \in Runtime \X Runtime : ToSet(wire'[p]) \subseteq ToSet(wire[p]) \cup (R \cup Q)
    BY <2>7, <2>8
  <2>10. SendsOnlyValid
    BY <2>4, <2>9 DEF SendsOnlyValid
  <2> QED
    BY <1>1, <2>1, <2>3, <2>8, <2>10 DEF TypeOK, Wires
<1>6. ASSUME NEW r \in Runtime, NEW q \in Runtime, Unlink(r, q)
      PROVE  TypeOK' /\ SendsOnlyValid
  <2>1. /\ wire' = [wire EXCEPT ![<<r, q>>] = <<>>, ![<<q, r>>] = <<>>]
        /\ links' \subseteq links /\ UNCHANGED <<now, cache, opening, own>>
    BY <1>6 DEF Unlink
  <2>2. <<>> \in Seq(Announcement) /\ ToSet(<<>>) = {}
    BY DEF ToSet
  <2>3. \A p \in Runtime \X Runtime : wire'[p] \in {wire[p], <<>>}
    BY <1>1, <2>1 DEF Wires
  <2>4. wire' \in Wires
    BY <1>1, <2>1, <2>2 DEF Wires
  <2>5. SendsOnlyValid
    BY <2>2, <2>3 DEF SendsOnlyValid
  <2> QED
    BY <1>1, <2>1, <2>4, <2>5 DEF TypeOK, Wires
<1>7. ASSUME NEW r \in Runtime, Restart(r)
      PROVE  TypeOK' /\ SendsOnlyValid
  <2>1. /\ wire' = [p \in Runtime \X Runtime |-> IF r \in {p[1], p[2]} THEN <<>> ELSE wire[p]]
        /\ links' \subseteq links /\ UNCHANGED now
    BY <1>7 DEF Restart
  <2>2. <<>> \in Seq(Announcement) /\ ToSet(<<>>) = {}
    BY DEF ToSet
  <2>3. \A p \in Runtime \X Runtime : wire'[p] \in {wire[p], <<>>}
    BY <2>1
  <2>4. wire' \in Wires
    BY <1>1, <2>1, <2>2 DEF Wires
  <2>5. SendsOnlyValid
    BY <2>2, <2>3 DEF SendsOnlyValid
  <2>6. /\ cache' \in [Runtime -> SUBSET Announcement]
        /\ opening' \in [Runtime -> SUBSET Announcement]
        /\ own' \in [Runtime -> SUBSET Announcement]
    BY <1>1, <1>7 DEF Restart
  <2> QED
    BY <1>1, <2>1, <2>4, <2>5, <2>6 DEF TypeOK, Wires
<1>8. ASSUME NEW r \in Runtime, NEW a \in Announcement, OpenFails(r, a)
      PROVE  TypeOK' /\ SendsOnlyValid
  <2>1. /\ opening' \in [Runtime -> SUBSET Announcement]
        /\ UNCHANGED <<now, cache, own, links, wire>>
    BY <1>1, <1>8 DEF OpenFails
  <2> QED
    BY <1>1, <2>1 DEF TypeOK, Wires, SendsOnlyValid
<1>9. ASSUME NEW r \in Runtime, Status(r)
      PROVE  TypeOK' /\ SendsOnlyValid
  <2>1. /\ cache' = [cache EXCEPT ![r] = Unexpired(@)]
        /\ UNCHANGED <<now, opening, own, links, wire>>
    BY <1>9 DEF Status
  <2>2. cache' \in [Runtime -> SUBSET Announcement]
    BY <1>1, <2>1 DEF Unexpired
  <2> QED
    BY <1>1, <2>1, <2>2 DEF TypeOK, Wires, SendsOnlyValid
<1>10. CASE Tick \/ UNCHANGED vars
  <2>1. now' \in 0 .. MaxTime /\ UNCHANGED <<cache, opening, own, links, wire>>
    BY <1>1, <1>10, DiscoveryConstants DEF Tick, vars
  <2> QED
    BY <1>1, <2>1 DEF TypeOK, Wires, SendsOnlyValid
<1> QED
  BY <1>2, <1>3, <1>4, <1>5, <1>6, <1>7, <1>8, <1>9, <1>10 DEF Next

\* The caches, the openings and the messages of every runtime keep their types.
THEOREM DiscoveryTypeCorrect == Spec => []TypeOK
<1>1. Init => TypeOK
  <2> SUFFICES ASSUME Init PROVE TypeOK
    OBVIOUS
  <2>1. <<>> \in Seq(Announcement) /\ 0 \in 0 .. MaxTime
    BY DiscoveryConstants
  <2> QED
    BY <2>1 DEF Init, TypeOK
<1>2. TypeOK /\ CacheInv /\ [Next]_vars => TypeOK'
  BY DiscoveryStep DEF DiscoveryInv
<1> QED
  BY <1>1, <1>2, CacheInvariant, PTL DEF Spec

\* Whatever a runtime has cached, and for however long, what it puts on a link has not expired:
\* pruneExpiredMemberFeedAnnouncements runs before every broadcast.
THEOREM NothingExpiredIsSent == Spec => NothingExpiredSent
<1>1. TypeOK /\ CacheInv /\ [Next]_vars => SendsOnlyValid
  BY DiscoveryStep DEF DiscoveryInv
<1>2. [][SendsOnlyValid]_vars => NothingExpiredSent
  BY DEF SendsOnlyValid, NothingExpiredSent
<1> QED
  BY <1>1, <1>2, DiscoveryTypeCorrect, CacheInvariant, PTL DEF Spec
=============================================================================
