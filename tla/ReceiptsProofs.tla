--------------------------- MODULE ReceiptsProofs ---------------------------
(***************************************************************************)
(* Theorems about Receipts, for any number of nodes, whatever they sign    *)
(* and answer, and any number of workers.                                  *)
(***************************************************************************)
EXTENDS Receipts, FiniteSetTheorems, WellFoundedInduction, TLAPS

Signers(t) == {n \in Pin : Expected(n, t) \in signed}

Shapes ==
    /\ index = [w \in Worker |-> index[w]]
    /\ answer \in [Worker -> [Pin -> Pin \cup {None, "pending"}]]
    /\ results = [i \in DOMAIN results |-> results[i]]
    /\ \A r \in signed : r = Receipt(r.node, r.community, r.transfer, r.digest)

\* While a transfer is looked up, a node is counted for its own receipt of the transfer.
AnswersSigned ==
    \A w \in Worker : Looking(w) =>
        \A n \in Pin : answer[w][n] \notin {None, "pending"} =>
            answer[w][n] = n /\ n \in Signers(Asked(w))

ResultsSigned ==
    \A i \in DOMAIN results : results[i] # None =>
        /\ results[i].count \in Nat
        /\ results[i].count <= Cardinality(Signers(results[i].transfer))

CountInv == Shapes /\ AnswersSigned /\ ResultsSigned

----------------------------------------------------------------------------

LEMMA SignersGrow ==
    ASSUME signed \subseteq signed', NEW t
    PROVE  /\ Signers(t) \subseteq Signers(t)'
           /\ Cardinality(Signers(t)) \in Nat /\ Cardinality(Signers(t))' \in Nat
           /\ Cardinality(Signers(t)) <= Cardinality(Signers(t)')
<1> DEFINE S == Signers(t)
           T == {n \in Pin : Expected(n, t) \in signed'}
<1>1. S \subseteq T /\ T \subseteq Pin
  BY DEF Signers
<1>2. Signers(t)' = T
  BY DEF Signers, Expected, Receipt
<1> HIDE DEF S, T
<1>3. IsFiniteSet(Pin)
  BY ReceiptConstants
<1>4. IsFiniteSet(T)
  BY <1>1, <1>3, FS_Subset
<1>5. IsFiniteSet(S) /\ Cardinality(S) <= Cardinality(T)
  BY <1>1, <1>4, FS_Subset
<1>6. Cardinality(S) \in Nat /\ Cardinality(T) \in Nat
  BY <1>4, <1>5, FS_CardinalityType
<1> QED  BY <1>1, <1>2, <1>5, <1>6 DEF S

LEMMA ResultsKept ==
    ASSUME CountInv, results' = results, signed \subseteq signed'
    PROVE  ResultsSigned'
<1> SUFFICES ASSUME NEW i \in DOMAIN results, results[i] # None
             PROVE  /\ results[i].count \in Nat
                    /\ results[i].count <= Cardinality(Signers(results[i].transfer)')
  BY DEF ResultsSigned, Signers, Expected, Receipt
<1>1. /\ results[i].count \in Nat
      /\ results[i].count <= Cardinality(Signers(results[i].transfer))
  BY DEF CountInv, ResultsSigned
<1> DEFINE S == Signers(results[i].transfer)
<1>2. /\ Cardinality(S) \in Nat /\ Cardinality(S)' \in Nat
      /\ Cardinality(S) <= Cardinality(S')
  BY SignersGrow
<1> QED  BY <1>1, <1>2

\* An answer is recorded for a node that has signed what is expected, or counts nothing.
LEMMA AnswerKeeps ==
    ASSUME CountInv, NEW w \in Worker, Looking(w), NEW n \in Pin, NEW a \in {n, None},
           Answered(w, n, a), signed \subseteq signed',
           \A r \in signed' : r = Receipt(r.node, r.community, r.transfer, r.digest),
           a = n => Expected(n, Asked(w)) \in signed'
    PROVE  CountInv'
<1>1. /\ answer \in [Worker -> [Pin -> Pin \cup {None, "pending"}]]
      /\ answer' = [answer EXCEPT ![w][n] = a]
      /\ UNCHANGED <<phase, nextIndex, index, results>>
  BY DEF CountInv, Shapes, Answered
<1>2. /\ answer' \in [Worker -> [Pin -> Pin \cup {None, "pending"}]]
      /\ answer'[w][n] = a
      /\ \A v \in Worker, m \in Pin : v # w \/ m # n => answer'[v][m] = answer[v][m]
  BY <1>1
<1>3. Shapes'
  BY <1>1, <1>2 DEF CountInv, Shapes
<1>4. AnswersSigned'
  <2> SUFFICES ASSUME NEW v \in Worker, Looking(v), NEW m \in Pin,
                      answer'[v][m] \notin {None, "pending"}
               PROVE  answer'[v][m] = m /\ Expected(m, Asked(v)) \in signed'
    BY <1>1 DEF AnswersSigned, Looking, Signers, Asked, Expected, Receipt
  <2>1. CASE v = w /\ m = n
    BY <1>2, <2>1
  <2>2. CASE v # w \/ m # n
    BY <1>2, <2>2 DEF CountInv, AnswersSigned, Signers
  <2> QED  BY <2>1, <2>2
<1>5. ResultsSigned'
  BY <1>1, ResultsKept
<1> QED  BY <1>3, <1>4, <1>5 DEF CountInv

\* A receipt that is counted for a node is the expected one, signed by its key.
LEMMA CountedIsExpected ==
    ASSUME NEW n \in Pin, NEW t, NEW by, NEW m, NEW c, NEW u, NEW d,
           Counted(Receipt(m, c, u, d), by, n, t) # None
    PROVE  /\ Counted(Receipt(m, c, u, d), by, n, t) = n
           /\ Receipt(m, c, u, d) = Expected(n, t) /\ by = m /\ m = n
BY DEF Counted, ClaimsPinnedNode, VerifyReceipt, Receipt, Expected

LEMMA ServerKeeps ==
    ASSUME CountInv, NEW w \in Worker, Looking(w), NEW n \in Pin, ServerAnswers(w, n)
    PROVE  CountInv'
<1> DEFINE t == Asked(w)
<1>1. PICK admitted \in Digests \cup {None} :
         LET r == ReceiptFor(n, t, admitted) IN
         IF r = None
         THEN Answered(w, n, None) /\ UNCHANGED signed
         ELSE Answered(w, n, Counted(r, n, n, t)) /\ signed' = signed \cup {r}
  BY DEF ServerAnswers
<1> DEFINE r == ReceiptFor(n, t, admitted)
           a == Counted(r, n, n, t)
<1>2. CASE r = None
  <2>1. Answered(w, n, None) /\ signed' = signed
    BY <1>1, <1>2
  <2> QED  BY <2>1, AnswerKeeps, ReceiptConstants DEF CountInv, Shapes
<1>3. CASE r # None
  <2>1. Answered(w, n, a) /\ signed' = signed \cup {r}
    BY <1>1, <1>3
  <2>2. r = Receipt(n, Community, t, admitted)
    BY <1>3 DEF ReceiptFor
  <2>3. a # None => a = n /\ r = Expected(n, t)
    BY <2>2, CountedIsExpected
  <2>4. r = Receipt(r.node, r.community, r.transfer, r.digest)
    BY <2>2 DEF Receipt
  <2> HIDE DEF r, a
  <2> QED  BY <2>1, <2>3, <2>4, AnswerKeeps, ReceiptConstants DEF CountInv, Shapes
<1> QED  BY <1>2, <1>3

LEMMA OtherKeeps ==
    ASSUME CountInv, NEW w \in Worker, Looking(w), NEW n \in Pin, OtherAnswers(w, n)
    PROVE  CountInv'
<1> DEFINE t == Asked(w)
<1>0. \A m \in Pin : \A r \in SignedBy(m) :
         r = Receipt(r.node, r.community, r.transfer, r.digest) /\ r.node = m
  BY DEF SignedBy, Receipt
<1>1. ASSUME NEW r \in SignedBy(n), Answered(w, n, Counted(r, n, n, t)), signed' = signed \cup {r}
      PROVE  CountInv'
  <2> DEFINE a == Counted(r, n, n, t)
  <2>1. a # None => a = n /\ r = Expected(n, t)
    BY <1>0, CountedIsExpected
  <2>2. r = Receipt(r.node, r.community, r.transfer, r.digest)
    BY <1>0
  <2> HIDE DEF a
  <2> QED  BY <1>1, <2>1, <2>2, AnswerKeeps, ReceiptConstants DEF CountInv, Shapes, a
<1>2. ASSUME NEW r \in signed, Answered(w, n, Counted(r, r.node, n, t)), signed' = signed
      PROVE  CountInv'
  <2> DEFINE a == Counted(r, r.node, n, t)
  <2>1. r = Receipt(r.node, r.community, r.transfer, r.digest)
    BY DEF CountInv, Shapes
  <2>2. a # None => a = n /\ r = Expected(n, t)
    BY <2>1, CountedIsExpected
  <2> HIDE DEF a
  <2> QED  BY <1>2, <2>2, AnswerKeeps, ReceiptConstants DEF CountInv, Shapes, a
<1>3. ASSUME NEW m \in Pin \ {n}, NEW r \in SignedBy(m),
             Answered(w, n, Counted(r, n, n, t)), signed' = signed
      PROVE  CountInv'
  <2>1. Counted(r, n, n, t) = None
    BY <1>0 DEF Counted, ClaimsPinnedNode
  <2> QED  BY <1>3, <2>1, AnswerKeeps, ReceiptConstants DEF CountInv, Shapes
<1> QED  BY <1>1, <1>2, <1>3 DEF OtherAnswers

\* The next lookup starts without answers, so that nothing of the last one counts for it.
LEMMA TakeKeeps ==
    ASSUME CountInv, NEW w \in Worker, Take(w), UNCHANGED <<signed, phase>>
    PROVE  /\ index' = [v \in Worker |-> index'[v]]
           /\ answer' \in [Worker -> [Pin -> Pin \cup {None, "pending"}]]
           /\ AnswersSigned'
<1>1. /\ answer \in [Worker -> [Pin -> Pin \cup {None, "pending"}]]
      /\ index = [v \in Worker |-> index[v]]
  BY DEF CountInv, Shapes
<1>2. /\ Pending \in [Pin -> Pin \cup {None, "pending"}]
      /\ NoAnswers \in [Pin -> Pin \cup {None, "pending"}]
      /\ \A n \in Pin : Pending[n] = "pending" /\ NoAnswers[n] = None
  BY DEF Pending, NoAnswers
<1>3. PICK i \in {nextIndex, None}, p \in {Pending, NoAnswers} :
         index' = [index EXCEPT ![w] = i] /\ answer' = [answer EXCEPT ![w] = p]
  BY DEF Take, Taken
<1>4. /\ index' = [v \in Worker |-> index'[v]]
      /\ \A v \in Worker \ {w} : index'[v] = index[v] /\ answer'[v] = answer[v]
      /\ answer'[w] = p /\ answer' \in [Worker -> [Pin -> Pin \cup {None, "pending"}]]
  BY <1>1, <1>2, <1>3
<1>5. AnswersSigned'
  <2> SUFFICES ASSUME NEW v \in Worker, Looking(v)', NEW n \in Pin,
                      answer'[v][n] \notin {None, "pending"}
               PROVE  answer'[v][n] = n /\ (n \in Signers(Asked(v)))'
    BY DEF AnswersSigned
  <2>1. v # w
    BY <1>2, <1>4
  <2>2. Looking(v) /\ index'[v] = index[v] /\ answer'[v] = answer[v]
    BY <1>4, <2>1 DEF Looking
  <2>3. answer[v][n] = n /\ n \in Signers(Asked(v))
    BY <2>2 DEF CountInv, AnswersSigned
  <2> QED  BY <2>2, <2>3 DEF Signers, Asked, Expected, Receipt
<1> QED  BY <1>4, <1>5

LEMMA FinishKeeps ==
    ASSUME CountInv, NEW w \in Worker, FinishLookup(w)
    PROVE  CountInv'
<1> DEFINE t == Asked(w)
           x == [transfer |-> t, count |-> Count(w)]
<1>1. /\ Looking(w) /\ Take(w) /\ UNCHANGED <<signed, phase>>
      /\ \A n \in Pin : answer[w][n] # "pending"
      /\ results' = [results EXCEPT ![index[w]] = x]
  BY DEF FinishLookup, Looking
<1>2. results = [i \in DOMAIN results |-> results[i]]
  BY DEF CountInv, Shapes
<1>3. /\ results' = [i \in DOMAIN results' |-> results'[i]] /\ DOMAIN results' = DOMAIN results
      /\ \A i \in DOMAIN results : results'[i] = x \/ results'[i] = results[i]
  <2> HIDE DEF x
  <2> QED  BY <1>1, <1>2
<1>4. {answer[w][n] : n \in Pin} \ {None} \subseteq Signers(t)
  BY <1>1 DEF CountInv, AnswersSigned
<1>5. Count(w) \in Nat /\ Count(w) <= Cardinality(Signers(t))
  <2> DEFINE A == {answer[w][n] : n \in Pin} \ {None}
             S == Signers(t)
  <2>1. A \subseteq S /\ S \subseteq Pin /\ IsFiniteSet(Pin) /\ Count(w) = Cardinality(A)
    BY <1>4, ReceiptConstants DEF Signers, Count
  <2> HIDE DEF A, S
  <2>2. IsFiniteSet(S)
    BY <2>1, FS_Subset
  <2>3. IsFiniteSet(A) /\ Cardinality(A) <= Cardinality(S)
    BY <2>1, <2>2, FS_Subset
  <2>4. Cardinality(A) \in Nat
    BY <2>3, FS_CardinalityType
  <2> QED  BY <2>1, <2>3, <2>4 DEF S
<1>6. x.transfer = t /\ x.count = Count(w)
  OBVIOUS
<1>7. ResultsSigned'
  <2> SUFFICES ASSUME NEW i \in DOMAIN results, results'[i] # None
               PROVE  /\ results'[i].count \in Nat
                      /\ results'[i].count <= Cardinality(Signers(results'[i].transfer))
    BY <1>1, <1>3 DEF ResultsSigned, Signers, Expected, Receipt
  <2> HIDE DEF x, t
  <2>1. CASE results'[i] = x
    BY <1>5, <1>6, <2>1
  <2>2. CASE results'[i] = results[i]
    BY <2>2 DEF CountInv, ResultsSigned
  <2> QED  BY <1>3, <2>1, <2>2
<1>8. /\ index' = [v \in Worker |-> index'[v]]
      /\ answer' \in [Worker -> [Pin -> Pin \cup {None, "pending"}]]
      /\ AnswersSigned'
  BY <1>1, TakeKeeps
<1>9. Shapes'
  BY <1>1, <1>3, <1>8 DEF CountInv, Shapes
<1> QED  BY <1>7, <1>8, <1>9 DEF CountInv

LEMMA CountInvInit == Init => CountInv
BY DEF Init, CountInv, Shapes, AnswersSigned, ResultsSigned, Looking, NoAnswers, NoResults

LEMMA CountInvNext == CountInv /\ [Next]_vars => CountInv'
<1> SUFFICES ASSUME CountInv, [Next]_vars PROVE CountInv'
  OBVIOUS
<1>1. ASSUME NEW n \in ThisServer, NEW t \in Transfer, AskNode(n, t) PROVE CountInv'
  <2>1. PICK admitted \in Digests \cup {None} :
           /\ ReceiptFor(n, t, admitted) # None
           /\ signed' = signed \cup {ReceiptFor(n, t, admitted)}
    BY <1>1 DEF AskNode
  <2> DEFINE r == ReceiptFor(n, t, admitted)
  <2>2. r = Receipt(r.node, r.community, r.transfer, r.digest)
    BY <2>1 DEF ReceiptFor, Receipt
  <2> HIDE DEF r
  <2>3. UNCHANGED <<phase, index, answer, results>> /\ signed' = signed \cup {r}
    BY <1>1, <2>1 DEF AskNode, r
  <2>4. Shapes'
    BY <2>2, <2>3 DEF CountInv, Shapes
  <2>5. AnswersSigned'
    BY <2>3 DEF CountInv, AnswersSigned, Looking, Signers, Asked, Expected, Receipt
  <2>6. ResultsSigned'
    BY <2>3, ResultsKept
  <2> QED  BY <2>4, <2>5, <2>6 DEF CountInv
<1>2. CASE Collect
  <2>1. Shapes'
    BY <1>2 DEF Collect, CountInv, Shapes, NoAnswers, NoResults
  <2>2. AnswersSigned'
    BY <1>2 DEF Collect, AnswersSigned, Looking
  <2>3. ResultsSigned'
    BY <1>2 DEF Collect, ResultsSigned, NoResults
  <2> QED  BY <2>1, <2>2, <2>3 DEF CountInv
<1>3. CASE Return
  <2>1. UNCHANGED <<signed, index, answer, results>> /\ phase' = "done"
    BY <1>3 DEF Return
  <2>2. Shapes' /\ AnswersSigned'
    BY <2>1 DEF CountInv, Shapes, AnswersSigned, Looking
  <2> QED  BY <2>1, <2>2, ResultsKept DEF CountInv
<1>4. ASSUME NEW w \in Worker, StartWorker(w) PROVE CountInv'
  <2>1. Take(w) /\ UNCHANGED <<signed, phase, results>>
    BY <1>4 DEF StartWorker
  <2>2. /\ index' = [v \in Worker |-> index'[v]]
        /\ answer' \in [Worker -> [Pin -> Pin \cup {None, "pending"}]]
        /\ AnswersSigned'
    BY <2>1, TakeKeeps
  <2>3. Shapes'
    BY <2>1, <2>2 DEF CountInv, Shapes
  <2> QED  BY <2>1, <2>2, <2>3, ResultsKept DEF CountInv
<1>5. ASSUME NEW w \in Worker, Looking(w), NEW n \in Pin,
             ServerAnswers(w, n) \/ OtherAnswers(w, n) \/ LookupFails(w, n)
      PROVE  CountInv'
  <2>1. CASE LookupFails(w, n)
    BY <1>5, <2>1, AnswerKeeps, ReceiptConstants DEF LookupFails, CountInv, Shapes
  <2> QED  BY <1>5, <2>1, ServerKeeps, OtherKeeps
<1>6. CASE UNCHANGED vars
  BY <1>6 DEF vars, CountInv, Shapes, AnswersSigned, ResultsSigned, Looking, Signers, Asked
<1> QED  BY <1>1, <1>2, <1>3, <1>4, <1>5, <1>6, FinishKeeps DEF Next

\* However late, replayed or made up the answers are, the count of a settlement is at most
\* the number of pinned nodes that signed a receipt for it as the desktop holds it.
THEOREM CountedAlwaysSigned == Spec => []CountedWereSigned
<1>1. CountInv => CountedWereSigned
  BY DEF CountInv, ResultsSigned, CountedWereSigned, Signers
<1> QED  BY <1>1, CountInvInit, CountInvNext, PTL DEF Spec

----------------------------------------------------------------------------
(* The nodes of this repository, and the lookups. *)

\* A non-empty set of natural numbers has a least member.
LEMMA LeastNumber ==
    ASSUME NEW C, C \subseteq Nat, C # {}
    PROVE  \E n \in C : \A m \in C : n <= m
<1>1. PICK n \in C : \A m \in C : ~ (<<m, n>> \in OpToRel(<, Nat))
  BY NatLessThanWellFounded, WFMin
<1>2. \A p \in Nat \X Nat : p[1] < p[2] => p \in OpToRel(<, Nat)
  BY DEF OpToRel
<1>3. \A m \in C : <<m, n>> \in Nat \X Nat /\ <<m, n>>[1] = m /\ <<m, n>>[2] = n
  BY <1>1
<1>4. \A m \in C : ~ (m < n)
  BY <1>1, <1>2, <1>3
<1> QED
  BY <1>4

\* F gives the settlements among the first transfers, up to n of them.
KeepsTo(F, s, n) ==
    F = [i \in 0 .. n |->
            IF i = 0 THEN <<>>
            ELSE IF s[i] \in Settlements THEN Append(F[i - 1], s[i]) ELSE F[i - 1]]

\* The recursion of SettlementsOf has a solution.
LEMMA KeepsExist ==
    ASSUME NEW s
    PROVE  \A n \in Nat : \E F : KeepsTo(F, s, n)
<1> DEFINE Has(n) == \E F : KeepsTo(F, s, n)
           Bad == {n \in Nat : ~ Has(n)}
           Longer(kept, i) == IF s[i] \in Settlements THEN Append(kept, s[i]) ELSE kept
<1>1. Has(0)
  <2>1. KeepsTo([i \in 0 .. 0 |-> <<>>], s, 0)
    BY DEF KeepsTo
  <2> QED
    BY <2>1
<1>2. ASSUME NEW n \in Nat, Has(n) PROVE Has(n + 1)
  <2>1. PICK F : F = [i \in 0 .. n |-> IF i = 0 THEN <<>> ELSE Longer(F[i - 1], i)]
    BY <1>2 DEF KeepsTo
  <2> HIDE DEF Longer
  <2> DEFINE G == [i \in 0 .. n + 1 |-> IF i = 0 THEN <<>> ELSE Longer(F[i - 1], i)]
             H == [i \in 0 .. n + 1 |-> IF i = 0 THEN <<>> ELSE Longer(G[i - 1], i)]
  <2>2. \A i \in 0 .. n : G[i] = F[i]
    BY <2>1
  <2>3. \A i \in 1 .. n + 1 : G[i - 1] = F[i - 1]
    <3>1. \A i \in 1 .. n + 1 : i - 1 \in 0 .. n
      OBVIOUS
    <3> HIDE DEF G
    <3> QED
      BY <2>2, <3>1
  <2>4. \A i \in 0 .. n + 1 : G[i] = H[i]
    <3>1. \A i \in 0 .. n + 1 : i # 0 => i \in 1 .. n + 1
      OBVIOUS
    <3>2. \A i \in 0 .. n + 1 : G[i] = IF i = 0 THEN <<>> ELSE Longer(F[i - 1], i)
      OBVIOUS
    <3>3. \A i \in 0 .. n + 1 : H[i] = IF i = 0 THEN <<>> ELSE Longer(G[i - 1], i)
      OBVIOUS
    <3> HIDE DEF G, H
    <3> QED
      BY <2>3, <3>1, <3>2, <3>3
  <2>5. G = H
    BY <2>4
  <2>6. KeepsTo(G, s, n + 1)
    BY <2>5 DEF KeepsTo, Longer
  <2> QED
    BY <2>6
<1> HIDE DEF Has
<1>3. Bad = {}
  <2> SUFFICES ASSUME Bad # {} PROVE FALSE
    OBVIOUS
  <2>1. PICK n \in Bad : \A k \in Bad : n <= k
    BY LeastNumber
  <2>2. n # 0 /\ n \in Nat
    BY <1>1, <2>1
  <2>3. n - 1 \in Nat /\ Has(n - 1)
    BY <2>1, <2>2
  <2>4. Has((n - 1) + 1) /\ (n - 1) + 1 = n
    BY <1>2, <2>2, <2>3
  <2> QED
    BY <2>1, <2>4
<1> QED
  BY <1>3 DEF Has

\* What the filter keeps are settlements.
LEMMA FilterKeeps ==
    ASSUME NEW S, NEW s \in Seq(S)
    PROVE  SettlementsOf(s) \in Seq(Settlements)
<1> DEFINE M == Len(s)
           G == CHOOSE F : KeepsTo(F, s, M)
           Bad == {i \in 0 .. M : G[i] \notin Seq(Settlements)}
<1>1. M \in Nat
  OBVIOUS
<1>2. \E F : KeepsTo(F, s, M)
  BY <1>1, KeepsExist
<1>3. KeepsTo(G, s, M)
  BY <1>2
<1>4. SettlementsOf(s) = G[M]
  BY DEF SettlementsOf, KeepsTo
<1> HIDE DEF G
<1>5. G[0] \in Seq(Settlements)
  BY <1>1, <1>3 DEF KeepsTo
<1>6. ASSUME NEW i \in 0 .. M, i # 0, G[i - 1] \in Seq(Settlements) PROVE G[i] \in Seq(Settlements)
  <2>1. G[i] = IF s[i] \in Settlements THEN Append(G[i - 1], s[i]) ELSE G[i - 1]
    BY <1>3, <1>6 DEF KeepsTo
  <2> QED
    BY <1>6, <2>1
<1>7. Bad = {}
  <2> SUFFICES ASSUME Bad # {} PROVE FALSE
    OBVIOUS
  <2>1. Bad \subseteq Nat
    BY <1>1
  <2>2. PICK n \in Bad : \A k \in Bad : n <= k
    <3> HIDE DEF Bad
    <3> QED
      BY <2>1, LeastNumber
  <2>3. n # 0 /\ n \in 0 .. M
    BY <1>5, <2>2
  <2>4. n - 1 \in 0 .. M /\ n - 1 \notin Bad
    BY <1>1, <2>2, <2>3
  <2> QED
    BY <1>6, <2>2, <2>3, <2>4
<1>8. G[M] \in Seq(Settlements)
  BY <1>1, <1>7
<1> QED
  BY <1>4, <1>8

\* The lookups of a collection are settlements (what filter and slice return).
LEMMA LookupsTyped == Lookups \in Seq(Settlements)
<1> DEFINE all == SettlementsOf(History)
           last == IF Len(all) < MaxLookups THEN Len(all) ELSE MaxLookups
<1>1. all \in Seq(Settlements) /\ MaxLookups \in Nat
  BY FilterKeeps, ReceiptConstants
<1>2. Lookups = SubSeq(all, 1, last)
  BY DEF Lookups
<1> HIDE DEF all
<1>3. Len(all) \in Nat /\ last \in 0 .. Len(all)
  BY <1>1
<1> HIDE DEF last
<1>4. SubSeq(all, 1, last) \in Seq(Settlements)
  BY <1>1, <1>3
<1> QED
  BY <1>2, <1>4

\* How many transfers a collection looks up.
N == Len(Lookups)

ServersSilent ==
    \A w \in Worker : Looking(w) =>
        \A n \in ThisServer : answer[w][n] \in {None, "pending"}

ResultsOfOthers ==
    \A i \in DOMAIN results : results[i] # None =>
        results[i].count <= Cardinality(Pin \ ThisServer)

\* A lookup that is taken is below nextIndex, taken once, and has no result yet.
LookupsTaken ==
    /\ nextIndex \in Nat \ {0} /\ DOMAIN results = 1 .. N
    /\ \A w \in Worker : Looking(w) =>
          index[w] \in 1 .. N /\ index[w] < nextIndex /\ results[index[w]] = None
    /\ \A v, w \in Worker : Looking(v) /\ Looking(w) /\ index[v] = index[w] => v = w

\* A lookup below nextIndex has its result or is being looked up; a worker only stops when
\* there is none left.
LookupsDone ==
    /\ phase = "running" =>
          /\ \A i \in 1 .. N : i < nextIndex =>
                \/ results[i] # None /\ results[i].transfer = Lookups[i]
                \/ \E w \in Worker : index[w] = i
          /\ \A i \in 1 .. N : i >= nextIndex => results[i] = None
          /\ \A w \in Worker : index[w] = None => nextIndex > N
    /\ phase = "done" =>
          \/ results = NoResults
          \/ \A i \in 1 .. N : results[i] # None /\ results[i].transfer = Lookups[i]

LookupInv == CountInv /\ ServersSilent /\ ResultsOfOthers /\ LookupsTaken /\ LookupsDone

LEMMA LookupsBounded ==
    N \in Nat /\ \A i \in 1 .. N : Lookups[i] \in Settlements /\ Lookups[i] \in Transfer
BY LookupsTyped, ReceiptConstants DEF N

\* A step of a lookup that leaves indexes and results alone.
LEMMA AnsweredKeeps ==
    ASSUME LookupInv, UNCHANGED <<phase, nextIndex, index, results>>,
           \A w \in Worker, n \in ThisServer :
              answer[w][n] \in {None, "pending"} => answer'[w][n] \in {None, "pending"}
    PROVE  ServersSilent' /\ ResultsOfOthers' /\ LookupsTaken' /\ LookupsDone'
<1>1. ServersSilent'
  BY DEF LookupInv, ServersSilent, Looking
<1>2. ResultsOfOthers'
  BY DEF LookupInv, ResultsOfOthers
<1>3. LookupsTaken'
  BY DEF LookupInv, LookupsTaken, Looking, N
<1>4. LookupsDone'
  BY DEF LookupInv, LookupsDone, N
<1> QED  BY <1>1, <1>2, <1>3, <1>4

LEMMA AnswersKeepLookups ==
    ASSUME LookupInv, NEW w \in Worker, Looking(w), NEW n \in Pin,
           ServerAnswers(w, n) \/ OtherAnswers(w, n) \/ LookupFails(w, n)
    PROVE  ServersSilent' /\ ResultsOfOthers' /\ LookupsTaken' /\ LookupsDone'
<1>1. Lookups[index[w]] \in Settlements
  BY LookupsBounded DEF LookupInv, LookupsTaken
<1>2. \A d \in Digests \cup {None} : ReceiptFor(n, Asked(w), d) = None
  BY <1>1 DEF ReceiptFor, ValidTransferId, HasSlash, Asked
<1>3. PICK a : Answered(w, n, a) /\ (n \in ThisServer => a = None)
  BY <1>2 DEF ServerAnswers, OtherAnswers, LookupFails
<1>4. /\ answer \in [Worker -> [Pin -> Pin \cup {None, "pending"}]]
      /\ answer' = [answer EXCEPT ![w][n] = a]
      /\ UNCHANGED <<phase, nextIndex, index, results>>
  BY <1>3 DEF LookupInv, CountInv, Shapes, Answered
<1>5. \A v \in Worker, m \in ThisServer :
         answer'[v][m] = answer[v][m] \/ answer'[v][m] = None
  <2>1. ThisServer \subseteq Pin
    BY ReceiptConstants
  <2> QED  BY <1>3, <1>4, <2>1
<1> QED  BY <1>4, <1>5, AnsweredKeeps

\* What a worker takes: the next lookup while there is one.
LEMMA TakenNext ==
    ASSUME LookupInv, NEW w \in Worker, Take(w)
    PROVE  /\ nextIndex' = nextIndex + 1
           /\ index'[w] = IF nextIndex <= N THEN nextIndex ELSE None
           /\ \A n \in Pin : answer'[w][n] \in {None, "pending"}
           /\ \A v \in Worker \ {w} : index'[v] = index[v] /\ answer'[v] = answer[v]
<1>1. /\ answer \in [Worker -> [Pin -> Pin \cup {None, "pending"}]]
      /\ index = [v \in Worker |-> index[v]]
  BY DEF LookupInv, CountInv, Shapes
<1>2. \A n \in Pin : Pending[n] = "pending" /\ NoAnswers[n] = None
  BY DEF Pending, NoAnswers
<1> DEFINE i == IF nextIndex <= N THEN nextIndex ELSE None
<1>3. /\ nextIndex' = nextIndex + 1 /\ index' = [index EXCEPT ![w] = i]
      /\ answer' = [answer EXCEPT ![w] = Pending] \/ answer' = [answer EXCEPT ![w] = NoAnswers]
  BY DEF Take, Taken, N
<1> HIDE DEF i
<1>4. index'[w] = i /\ \A v \in Worker \ {w} : index'[v] = index[v] /\ answer'[v] = answer[v]
  BY <1>1, <1>3
<1>5. answer'[w] = Pending \/ answer'[w] = NoAnswers
  BY <1>1, <1>3
<1> QED  BY <1>2, <1>3, <1>4, <1>5 DEF i

\* A worker takes its next lookup, after it has stored the result of its last one, if any.
LEMMA TakeKeepsLookups ==
    ASSUME LookupInv, NEW w \in Worker, Take(w), phase = "running", phase' = phase,
           DOMAIN results' = 1 .. N,
           \A i \in 1 .. N : i # index[w] => results'[i] = results[i],
           \/ index[w] = 0
           \/ /\ Looking(w) /\ results'[index[w]] # None
              /\ results'[index[w]].transfer = Lookups[index[w]]
              /\ results'[index[w]].count <= Cardinality(Pin \ ThisServer)
    PROVE  ServersSilent' /\ ResultsOfOthers' /\ LookupsTaken' /\ LookupsDone'
<1>1. /\ nextIndex' = nextIndex + 1
      /\ index'[w] = IF nextIndex <= N THEN nextIndex ELSE None
      /\ \A n \in Pin : answer'[w][n] \in {None, "pending"}
      /\ \A v \in Worker \ {w} : index'[v] = index[v] /\ answer'[v] = answer[v]
  BY TakenNext
<1>2. /\ nextIndex \in Nat \ {0} /\ N \in Nat /\ DOMAIN results = 1 .. N
      /\ ThisServer \subseteq Pin /\ None \notin Nat
  BY LookupsBounded, ReceiptConstants DEF LookupInv, LookupsTaken
<1>3. \A v \in Worker \ {w} : Looking(v)' <=> Looking(v)
  BY <1>1 DEF Looking
<1>4. \A v \in Worker : Looking(v) =>
         index[v] \in 1 .. N /\ index[v] < nextIndex /\ results[index[v]] = None
  BY DEF LookupInv, LookupsTaken
<1>5. \A v \in Worker \ {w} : Looking(v) => index[v] # index[w]
  <2>1. CASE index[w] = 0
    BY <2>1, <1>4
  <2>2. CASE Looking(w)
    BY <2>2 DEF LookupInv, LookupsTaken
  <2> QED  BY <2>1, <2>2
<1>6. ServersSilent'
  BY <1>1, <1>2, <1>3 DEF LookupInv, ServersSilent
<1>7. ResultsOfOthers'
  <2>1. ASSUME NEW i \in 1 .. N, results'[i] # None
        PROVE  results'[i].count <= Cardinality(Pin \ ThisServer)
    <3>1. CASE i # index[w]
      <4>1. results'[i] = results[i] /\ i \in DOMAIN results
        BY <1>2, <2>1, <3>1
      <4> QED  BY <2>1, <4>1 DEF LookupInv, ResultsOfOthers
    <3>2. CASE i = index[w]
      BY <1>2, <2>1, <3>2
    <3> QED  BY <3>1, <3>2
  <2> QED  BY <2>1 DEF ResultsOfOthers
<1>8. LookupsTaken'
  <2>1. ASSUME NEW v \in Worker, Looking(v)'
        PROVE  index'[v] \in 1 .. N /\ index'[v] < nextIndex' /\ results'[index'[v]] = None
    <3>1. CASE v # w
      <4>1. Looking(v) /\ index'[v] = index[v] /\ index[v] # index[w]
        BY <1>1, <1>3, <1>5, <2>1, <3>1
      <4> QED  BY <1>1, <1>2, <1>4, <4>1
    <3>2. CASE v = w
      <4>1. index'[w] = nextIndex /\ nextIndex \in 1 .. N
        BY <1>1, <1>2, <2>1, <3>2 DEF Looking
      <4>2. nextIndex # index[w]
        BY <1>2, <1>4
      <4>3. results[nextIndex] = None
        BY <1>2, <4>1 DEF LookupInv, LookupsDone
      <4> QED  BY <1>1, <1>2, <3>2, <4>1, <4>2, <4>3
    <3> QED  BY <3>1, <3>2
  <2>2. ASSUME NEW u \in Worker, NEW v \in Worker, Looking(u)', Looking(v)', index'[u] = index'[v]
        PROVE  u = v
    <3>1. CASE u # w /\ v # w
      BY <1>1, <1>3, <2>2, <3>1 DEF LookupInv, LookupsTaken
    <3>2. ASSUME NEW x \in Worker \ {w}, Looking(x)', Looking(w)' PROVE index'[x] # index'[w]
      <4>1. index'[w] = nextIndex
        BY <1>1, <3>2 DEF Looking
      <4>2. index'[x] = index[x] /\ Looking(x)
        BY <1>1, <1>3, <3>2
      <4> QED  BY <1>2, <1>4, <4>1, <4>2
    <3> QED  BY <2>2, <3>1, <3>2
  <2>3. nextIndex' \in Nat \ {0}
    BY <1>1, <1>2
  <2> QED  BY <2>1, <2>2, <2>3 DEF LookupsTaken, N
<1>9. LookupsDone'
  <2>1. ASSUME NEW i \in 1 .. N, i < nextIndex'
        PROVE  \/ results'[i] # None /\ results'[i].transfer = Lookups[i]
               \/ \E v \in Worker : index'[v] = i
    <3>1. CASE i = nextIndex
      BY <1>1, <1>2, <3>1
    <3>2. CASE i < nextIndex /\ i # index[w]
      <4>1. \/ results[i] # None /\ results[i].transfer = Lookups[i]
            \/ \E v \in Worker : index[v] = i
        BY <3>2 DEF LookupInv, LookupsDone
      <4> QED  BY <1>1, <3>2, <4>1
    <3>3. CASE i = index[w]
      BY <3>3
    <3> QED  BY <1>1, <1>2, <2>1, <3>1, <3>2, <3>3
  <2>2. ASSUME NEW i \in 1 .. N, i >= nextIndex' PROVE results'[i] = None
    <3>1. i >= nextIndex
      BY <1>1, <1>2, <2>2
    <3>2. i # index[w]
      BY <1>2, <1>4, <3>1
    <3> QED  BY <3>1, <3>2 DEF LookupInv, LookupsDone
  <2>3. ASSUME NEW v \in Worker, index'[v] = None PROVE nextIndex' > N
    <3>1. nextIndex > N
      BY <1>1, <1>2, <2>3 DEF LookupInv, LookupsDone
    <3> QED  BY <1>1, <1>2, <3>1
  <2> QED  BY <2>1, <2>2, <2>3 DEF LookupsDone, N
<1> QED  BY <1>6, <1>7, <1>8, <1>9

LEMMA FinishKeepsLookups ==
    ASSUME LookupInv, NEW w \in Worker, FinishLookup(w)
    PROVE  ServersSilent' /\ ResultsOfOthers' /\ LookupsTaken' /\ LookupsDone'
<1> DEFINE x == [transfer |-> Asked(w), count |-> Count(w)]
           A == {answer[w][n] : n \in Pin} \ {None}
           B == Pin \ ThisServer
<1>1. /\ Looking(w) /\ Take(w) /\ phase = "running" /\ phase' = phase
      /\ \A n \in Pin : answer[w][n] # "pending"
      /\ results' = [results EXCEPT ![index[w]] = x]
  BY DEF FinishLookup, Looking
<1>2. index[w] \in 1 .. N /\ DOMAIN results = 1 .. N /\ Lookups[index[w]] \in Transfer
  BY <1>1, LookupsBounded DEF LookupInv, LookupsTaken
<1>3. A \subseteq B
  BY <1>1 DEF LookupInv, ServersSilent, CountInv, AnswersSigned
<1>4. Count(w) = Cardinality(A) /\ IsFiniteSet(Pin) /\ B \subseteq Pin
  BY ReceiptConstants DEF Count
<1> HIDE DEF A, B
<1>5. Count(w) \in Nat /\ Count(w) <= Cardinality(B)
  <2>1. IsFiniteSet(B)
    BY <1>4, FS_Subset
  <2>2. IsFiniteSet(A) /\ Cardinality(A) <= Cardinality(B)
    BY <1>3, <2>1, FS_Subset
  <2> QED  BY <1>4, <2>2, FS_CardinalityType
<1>6. x # None /\ x.transfer = Lookups[index[w]] /\ x.count = Count(w)
  <2>1. x \in [transfer : Transfer, count : Nat]
    BY <1>2, <1>5 DEF Asked
  <2> QED  BY <2>1, ReceiptConstants DEF Asked
<1> HIDE DEF x
<1>7. results = [i \in DOMAIN results |-> results[i]]
  BY DEF LookupInv, CountInv, Shapes
<1>8. /\ DOMAIN results' = 1 .. N /\ results'[index[w]] = x
      /\ \A i \in 1 .. N : i # index[w] => results'[i] = results[i]
  BY <1>1, <1>2, <1>7
<1> QED  BY <1>1, <1>5, <1>6, <1>8, TakeKeepsLookups DEF B

LEMMA LookupInvInit == Init => LookupInv
<1> SUFFICES ASSUME Init PROVE LookupInv
  OBVIOUS
<1>1. phase = "idle" /\ nextIndex = 1 /\ results = NoResults
  BY DEF Init
<1>2. DOMAIN results = 1 .. N /\ \A i \in DOMAIN results : results[i] = None
  BY <1>1 DEF NoResults, N
<1> QED
  BY <1>1, <1>2, CountInvInit DEF LookupInv, ServersSilent, ResultsOfOthers, LookupsTaken,
     LookupsDone, Looking

LEMMA LookupInvNext == LookupInv /\ [Next]_vars => LookupInv'
<1> SUFFICES ASSUME LookupInv, [Next]_vars
             PROVE  ServersSilent' /\ ResultsOfOthers' /\ LookupsTaken' /\ LookupsDone'
  BY CountInvNext DEF LookupInv
<1>0. N \in Nat /\ DOMAIN results = 1 .. N /\ None \notin Nat
  BY LookupsBounded, ReceiptConstants DEF LookupInv, LookupsTaken
<1>1. ASSUME NEW n \in ThisServer, NEW t \in Transfer, AskNode(n, t)
      PROVE  ServersSilent' /\ ResultsOfOthers' /\ LookupsTaken' /\ LookupsDone'
  BY <1>1, AnsweredKeeps DEF AskNode
<1>2. CASE Collect
  <2>1. /\ phase' \in {"running", "done"} /\ nextIndex' = 1 /\ results' = NoResults
        /\ \A w \in Worker : index'[w] = IF phase' = "running" THEN 0 ELSE None
    BY <1>2 DEF Collect
  <2>2. DOMAIN results' = 1 .. N /\ \A i \in 1 .. N : results'[i] = None
    BY <2>1 DEF NoResults, N
  <2>3. \A w \in Worker : ~ Looking(w)'
    BY <2>1 DEF Looking
  <2>4. ServersSilent' /\ ResultsOfOthers' /\ LookupsTaken'
    BY <2>1, <2>2, <2>3 DEF ServersSilent, ResultsOfOthers, LookupsTaken, N
  <2>5. LookupsDone'
    BY <1>0, <2>1, <2>2 DEF LookupsDone, N, NoResults
  <2> QED  BY <2>4, <2>5
<1>3. CASE Return
  <2>1. /\ phase = "running" /\ phase' = "done" /\ \A w \in Worker : index[w] = None
        /\ UNCHANGED <<nextIndex, index, answer, results>>
    BY <1>3 DEF Return
  <2>2. \A w \in Worker : ~ Looking(w)'
    BY <2>1 DEF Looking
  <2>3. nextIndex > N /\ nextIndex \in Nat
    BY <2>1, ReceiptConstants DEF LookupInv, LookupsDone, LookupsTaken
  <2>4. \A i \in 1 .. N : results[i] # None /\ results[i].transfer = Lookups[i]
    BY <1>0, <2>1, <2>3 DEF LookupInv, LookupsDone
  <2>5. ServersSilent' /\ ResultsOfOthers' /\ LookupsTaken'
    BY <2>1, <2>2 DEF LookupInv, ServersSilent, ResultsOfOthers, LookupsTaken, N
  <2>6. LookupsDone'
    BY <2>1, <2>4 DEF LookupsDone, N
  <2> QED  BY <2>5, <2>6
<1>4. ASSUME NEW w \in Worker, StartWorker(w)
      PROVE  ServersSilent' /\ ResultsOfOthers' /\ LookupsTaken' /\ LookupsDone'
  <2>1. Take(w) /\ phase = "running" /\ phase' = phase /\ results' = results /\ index[w] = 0
    BY <1>4 DEF StartWorker
  <2> QED  BY <1>0, <2>1, TakeKeepsLookups
<1>5. CASE UNCHANGED vars
  BY <1>5, AnsweredKeeps DEF vars
<1> QED
  BY <1>1, <1>2, <1>3, <1>4, <1>5, AnswersKeepLookups, FinishKeepsLookups DEF Next

\* However many workers share the lookups, each is taken once and ends with its own result
\* (mapWithConcurrency).
THEOREM EachAlwaysLookedUpOnce == Spec => []EachLookedUpOnce
<1>1. LookupInv => EachLookedUpOnce
  BY DEF LookupInv, LookupsTaken, LookupsDone, EachLookedUpOnce
<1>2. Init => LookupInv
  BY LookupInvInit
<1>3. LookupInv /\ [Next]_vars => LookupInv'
  BY LookupInvNext
<1> QED  BY <1>1, <1>2, <1>3, PTL DEF Spec

\* What refusing the ids of settlements comes to: the label of a settlement rests on the
\* other nodes alone.
ThisServerNeverCounts ==
    \A i \in DOMAIN results : results[i] # None =>
        results[i].count <= Cardinality(Pin \ ThisServer)

\* No node that runs this repository's server is ever counted for a settlement, whatever it
\* has admitted and however it is asked (validTransferId, receipt-issuer.ts:58-61).  It is
\* the extent, in every instance, of what AdmittedIsReceipted refutes in a small one.
THEOREM ThisServerIsNeverCounted == Spec => []ThisServerNeverCounts
<1>1. LookupInv => ThisServerNeverCounts
  BY DEF LookupInv, ResultsOfOthers, ThisServerNeverCounts
<1>2. Init => LookupInv
  BY LookupInvInit
<1>3. LookupInv /\ [Next]_vars => LookupInv'
  BY LookupInvNext
<1> QED  BY <1>1, <1>2, <1>3, PTL DEF Spec

=============================================================================
