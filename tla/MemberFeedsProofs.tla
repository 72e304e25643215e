------------------------- MODULE MemberFeedsProofs -------------------------
(***************************************************************************)
(* Theorems about MemberFeeds, for every number of members, feeds, keys    *)
(* and records.  The invariant says where the original of a record is (the *)
(* feed of its author, to which copies refer), that originals are unique   *)
(* as far as resolution asks for it, and what comes earlier in a feed.     *)
(***************************************************************************)
EXTENDS MemberFeeds, TLAPS

\* The feed holds the record, and its writer is the author.
Home(f, r) == r \in Written(f) /\ r.author = Holder[f]

DeclarationsOwn ==
    \A f \in Feed : \A r \in Written(f) : r.kind = "declare" =>
        /\ r.subject \in Feed /\ Holder[r.subject] = r.author
        /\ r.author = Holder[f] => r.subject = f

DeclaredOnce ==
    \A f \in Feed : \A r, s \in Written(f) :
        Home(f, r) /\ Home(f, s) /\ r.kind = "declare" /\ s.kind = "declare" => r = s

StatementsOwn ==
    \A f \in Feed : \A r \in Written(f) : r.kind \in Lifecycle =>
        r.subject \in DeviceKey /\ \E g \in Feed : Home(g, r)

\* The statements about a key have one author and one home, and differ in time.
KeysOwned ==
    \A f, g \in Feed : \A r \in Written(f), s \in Written(g) :
        r.kind \in Lifecycle /\ s.kind \in Lifecycle /\ r.subject = s.subject =>
            /\ r.author = s.author
            /\ Home(f, r) /\ Home(g, s) => f = g
            /\ r.kind = "activate" /\ s.kind = "activate" => r = s
            /\ r.at = s.at => r = s

ListingsUnique ==
    \A f, g \in Feed : \A r \in Written(f), s \in Written(g) :
        r.kind = "listing" /\ s.kind = "listing" /\ r.subject = s.subject =>
            r = s /\ (Home(f, r) /\ Home(g, s) => f = g)

ClosedOnce ==
    \A f \in Feed : \A r, s \in Written(f) :
        /\ Home(f, r) /\ Home(f, s)
        /\ r.kind = "closure" /\ s.kind = "closure" /\ r.subject = s.subject
        => r = s

\* A device key is activated in the feed before it signs there.
SignerEarlier ==
    \A f \in Feed : \A i \in DOMAIN log[f] :
        log[f][i].author = Holder[f] /\ log[f][i].kind \in Domain
        /\ log[f][i].key # Holder[f] =>
            /\ log[f][i].key \in DeviceKey
            /\ \E j \in 1 .. i - 1 :
                  /\ log[f][j].kind = "activate" /\ log[f][j].author = Holder[f]
                  /\ log[f][j].subject = log[f][i].key

\* A listing is closed by its author, and in its own feed after it was published.
ListingEarlier ==
    \A f \in Feed : \A i \in DOMAIN log[f] :
        log[f][i].author = Holder[f] /\ log[f][i].kind = "closure" =>
            /\ \E g \in Feed : \E l \in Written(g) :
                  l.kind = "listing" /\ l.subject = log[f][i].subject /\ l.author = Holder[f]
            /\ \A j \in DOMAIN log[f] :
                  /\ log[f][j].kind = "listing" /\ log[f][j].author = Holder[f]
                  /\ log[f][j].subject = log[f][i].subject
                  => j < i

FeedInv ==
    /\ TypeOK
    /\ DeclarationsOwn /\ DeclaredOnce
    /\ StatementsOwn /\ KeysOwned
    /\ ListingsUnique /\ ClosedOnce
    /\ SignerEarlier /\ ListingEarlier

----------------------------------------------------------------------------
(* Records and views. *)

\* What is written has the fields of a record.
LEMMA WrittenTyped ==
    ASSUME TypeOK, NEW f \in Feed, NEW r \in Written(f)
    PROVE  /\ r \in Record
           /\ r.kind \in {"declare", "activate", "revoke", "listing", "closure"}
           /\ r.author \in Member /\ r.at \in Nat
           /\ r.key \in Member \cup DeviceKey
<1>1. r \in Record
  BY DEF TypeOK, Written
<1> QED  BY <1>1 DEF Record, Lifecycle, Domain

\* A record of a view is in the feed it was read from, at a position of the cut.
LEMMA ViewWritten ==
    ASSUME TypeOK, NEW c \in Cuts, NEW p \in View(c)
    PROVE  /\ p = <<p[1], p[2]>> /\ p[1] \in Feed /\ p[2] \in Written(p[1])
           /\ \E i \in 1 .. c[p[1]] : i \in DOMAIN log[p[1]] /\ p[2] = log[p[1]][i]
<1>1. PICK f \in Feed : p \in {<<f, log[f][i]>> : i \in 1 .. c[f]}
  BY DEF View
<1>2. PICK i \in 1 .. c[f] : p = <<f, log[f][i]>>
  BY <1>1
<1>3. i \in DOMAIN log[f]
  BY <1>2 DEF Cuts, TypeOK
<1> QED  BY <1>2, <1>3 DEF Written

\* The records of a view are those of its pairs.
LEMMA RecordInView ==
    ASSUME TypeOK, NEW c \in Cuts, NEW r \in RecordsOf(View(c))
    PROVE  \E f \in Feed : <<f, r>> \in View(c) /\ r \in Written(f)
<1>1. PICK p \in View(c) : r = p[2]
  BY DEF RecordsOf
<1> QED  BY <1>1, ViewWritten

\* What is at a position of the cut is in the view.
LEMMA PositionInView ==
    ASSUME NEW c \in Cuts, NEW f \in Feed, NEW i \in 1 .. c[f]
    PROVE  <<f, log[f][i]>> \in View(c) /\ log[f][i] \in RecordsOf(View(c))
<1>1. <<f, log[f][i]>> \in View(c)
  BY DEF View
<1> QED  BY <1>1 DEF RecordsOf

\* A reader that has the whole of a feed has all its records.
LEMMA WholeFeedRead ==
    ASSUME TypeOK, NEW c \in Cuts, NEW f \in Feed, c[f] = Len(log[f]), NEW r \in Written(f)
    PROVE  r \in RecordsOf(View(c))
<1>1. PICK i \in DOMAIN log[f] : r = log[f][i]
  BY DEF Written
<1>2. i \in 1 .. c[f]
  BY <1>1 DEF TypeOK
<1> QED  BY <1>1, <1>2, PositionInView

\* A reader that reads on keeps what it has read.
LEMMA ViewGrows ==
    ASSUME NEW c \in Cuts, NEW d \in Cuts, \A f \in Feed : c[f] <= d[f]
    PROVE  View(c) \subseteq View(d) /\ RecordsOf(View(c)) \subseteq RecordsOf(View(d))
<1>1. ASSUME NEW p \in View(c) PROVE p \in View(d)
  <2>1. PICK f \in Feed : p \in {<<f, log[f][i]>> : i \in 1 .. c[f]}
    BY DEF View
  <2>2. PICK i \in 1 .. c[f] : p = <<f, log[f][i]>>
    BY <2>1
  <2>3. i \in 1 .. d[f]
    BY <2>2 DEF Cuts
  <2> QED  BY <2>2, <2>3 DEF View
<1> QED  BY <1>1 DEF RecordsOf

----------------------------------------------------------------------------
(* An append. *)

\* What an append changes.
LEMMA Appended ==
    ASSUME TypeOK, NEW f \in Feed, NEW r \in Record, AppendRecord(f, r)
    PROVE  /\ TypeOK'
           /\ \A g \in Feed \ {f} : log'[g] = log[g]
           /\ DOMAIN log[f] = 1 .. Len(log[f]) /\ Len(log[f]) \in Nat
           /\ DOMAIN log'[f] = 1 .. Len(log[f]) + 1
           /\ \A i \in 1 .. Len(log[f]) : log'[f][i] = log[f][i]
           /\ log'[f][Len(log[f]) + 1] = r
<1>1. log[f] \in Seq(Record) /\ log \in [Feed -> Seq(Record)]
  BY DEF TypeOK
<1>2. log' = [log EXCEPT ![f] = Append(log[f], r)]
  BY DEF AppendRecord
<1>3. Append(log[f], r) \in Seq(Record)
  BY <1>1
<1> QED  BY <1>1, <1>2, <1>3 DEF TypeOK

\* One record is added to one feed.
LEMMA AppendedWritten ==
    ASSUME TypeOK, NEW f \in Feed, NEW r \in Record, AppendRecord(f, r)
    PROVE  /\ Written(f)' = Written(f) \cup {r}
           /\ \A g \in Feed \ {f} : Written(g)' = Written(g)
<1>1. ASSUME NEW x \in Written(f)' PROVE x \in Written(f) \cup {r}
  <2>1. PICK i \in DOMAIN log'[f] : x = log'[f][i]
    BY <1>1 DEF Written
  <2>2. CASE i \in 1 .. Len(log[f])
    <3>1. x = log[f][i] /\ i \in DOMAIN log[f]
      BY <2>1, <2>2, Appended
    <3> QED  BY <3>1 DEF Written
  <2>3. CASE i = Len(log[f]) + 1
    BY <2>1, <2>3, Appended
  <2> QED  BY <2>1, <2>2, <2>3, Appended
<1>2. ASSUME NEW x \in Written(f) \cup {r} PROVE x \in Written(f)'
  <2>1. CASE x = r
    <3>1. Len(log[f]) + 1 \in DOMAIN log'[f]
      BY Appended
    <3> QED  BY <2>1, <3>1, Appended DEF Written
  <2>2. CASE x \in Written(f)
    <3>1. PICK i \in DOMAIN log[f] : x = log[f][i]
      BY <2>2 DEF Written
    <3>2. i \in DOMAIN log'[f] /\ log'[f][i] = x
      BY <3>1, Appended
    <3> QED  BY <3>2 DEF Written
  <2> QED  BY <1>2, <2>1, <2>2
<1>3. ASSUME NEW g \in Feed \ {f} PROVE Written(g)' = Written(g)
  BY <1>3, Appended DEF Written
<1> QED  BY <1>1, <1>2, <1>3

\* What a record must satisfy for an append of it to keep the invariant.
Sound(f, r) ==
    /\ r \in Record
    /\ r.kind = "declare" =>
          /\ r.subject \in Feed /\ Holder[r.subject] = r.author
          /\ r.author = Holder[f] =>
                r.subject = f /\ \A s \in Written(f) : ~ (Home(f, s) /\ s.kind = "declare")
    /\ r.kind \in Lifecycle =>
          /\ r.subject \in DeviceKey
          /\ r.author = Holder[f] \/ \E g \in Feed : Home(g, r)
    /\ \A g \in Feed : \A s \in Written(g) :
          r.kind \in Lifecycle /\ s.kind \in Lifecycle /\ r.subject = s.subject =>
              /\ r.author = s.author
              /\ r.author = Holder[f] /\ Home(g, s) => f = g
              /\ r.kind = "activate" /\ s.kind = "activate" => r = s
              /\ r.at = s.at => r = s
    /\ \A g \in Feed : \A s \in Written(g) :
          r.kind = "listing" /\ s.kind = "listing" /\ r.subject = s.subject =>
              r = s /\ (r.author = Holder[f] /\ Home(g, s) => f = g)
    /\ r.kind = "closure" /\ r.author = Holder[f] =>
          /\ \A s \in Written(f) :
                ~ (Home(f, s) /\ s.kind = "closure" /\ s.subject = r.subject)
          /\ \E g \in Feed : \E l \in Written(g) :
                l.kind = "listing" /\ l.subject = r.subject /\ l.author = Holder[f]
    /\ r.kind = "listing" /\ r.author = Holder[f] =>
          \A s \in Written(f) : ~ (s.kind = "closure" /\ s.subject = r.subject)
    /\ r.kind \in Domain /\ r.author = Holder[f] /\ r.key # Holder[f] =>
          /\ r.key \in DeviceKey
          /\ \E a \in Written(f) :
                a.kind = "activate" /\ a.author = Holder[f] /\ a.subject = r.key

\* Appending a sound record keeps the invariant.
LEMMA SoundAppend ==
    ASSUME FeedInv, NEW f \in Feed, NEW r, Sound(f, r), AppendRecord(f, r)
    PROVE  FeedInv'
<1>1. TypeOK /\ r \in Record
  BY DEF FeedInv, Sound
<1>2. TypeOK'
  BY <1>1, Appended
<1>3. /\ Written(f)' = Written(f) \cup {r}
      /\ \A g \in Feed \ {f} : Written(g)' = Written(g)
  BY <1>1, AppendedWritten
<1>4. \A g \in Feed : Written(g) \subseteq Written(g)'
  BY <1>3
<1>5. \A g \in Feed : \A s \in Written(g)' : s \in Written(g) \/ (g = f /\ s = r)
  BY <1>3
<1>6. DeclarationsOwn'
  BY <1>5 DEF FeedInv, Sound, DeclarationsOwn
<1>7. DeclaredOnce'
  <2> SUFFICES ASSUME NEW g \in Feed, NEW s \in Written(g)', NEW t \in Written(g)',
                      s.author = Holder[g], t.author = Holder[g],
                      s.kind = "declare", t.kind = "declare"
               PROVE  s = t
    BY DEF DeclaredOnce, Home
  <2> QED  BY <1>5 DEF FeedInv, Sound, DeclaredOnce, Home
<1>8. StatementsOwn'
  <2> SUFFICES ASSUME NEW g \in Feed, NEW s \in Written(g)', s.kind \in Lifecycle
               PROVE  s.subject \in DeviceKey
                      /\ \E h \in Feed : s \in Written(h)' /\ s.author = Holder[h]
    BY DEF StatementsOwn, Home
  <2>1. CASE s \in Written(g)
    BY <2>1, <1>4 DEF FeedInv, StatementsOwn, Home
  <2>2. CASE g = f /\ s = r
    BY <2>2, <1>3, <1>4 DEF Sound, Home
  <2> QED  BY <2>1, <2>2, <1>5
<1>9. KeysOwned'
  <2> SUFFICES ASSUME NEW g \in Feed, NEW h \in Feed,
                      NEW s \in Written(g)', NEW t \in Written(h)',
                      s.kind \in Lifecycle, t.kind \in Lifecycle, s.subject = t.subject
               PROVE  /\ s.author = t.author
                      /\ s.author = Holder[g] /\ t.author = Holder[h] => g = h
                      /\ s.kind = "activate" /\ t.kind = "activate" => s = t
                      /\ s.at = t.at => s = t
    BY DEF KeysOwned, Home
  <2>1. CASE s \in Written(g) /\ t \in Written(h)
    BY <2>1 DEF FeedInv, KeysOwned, Home
  <2>2. CASE s \in Written(g) /\ h = f /\ t = r
    BY <2>2 DEF Sound, Home
  <2>3. CASE t \in Written(h) /\ g = f /\ s = r
    BY <2>3 DEF Sound, Home
  <2>4. CASE g = f /\ s = r /\ h = f /\ t = r
    BY <2>4
  <2> QED  BY <2>1, <2>2, <2>3, <2>4, <1>5
<1>10. ListingsUnique'
  <2> SUFFICES ASSUME NEW g \in Feed, NEW h \in Feed,
                      NEW s \in Written(g)', NEW t \in Written(h)',
                      s.kind = "listing", t.kind = "listing", s.subject = t.subject
               PROVE  /\ s = t
                      /\ s.author = Holder[g] /\ t.author = Holder[h] => g = h
    BY DEF ListingsUnique, Home
  <2>1. CASE s \in Written(g) /\ t \in Written(h)
    BY <2>1 DEF FeedInv, ListingsUnique, Home
  <2>2. CASE s \in Written(g) /\ h = f /\ t = r
    BY <2>2 DEF Sound, Home
  <2>3. CASE t \in Written(h) /\ g = f /\ s = r
    BY <2>3 DEF Sound, Home
  <2>4. CASE g = f /\ s = r /\ h = f /\ t = r
    BY <2>4
  <2> QED  BY <2>1, <2>2, <2>3, <2>4, <1>5
<1>11. ClosedOnce'
  <2> SUFFICES ASSUME NEW g \in Feed, NEW s \in Written(g)', NEW t \in Written(g)',
                      s.author = Holder[g], t.author = Holder[g],
                      s.kind = "closure", t.kind = "closure", s.subject = t.subject
               PROVE  s = t
    BY DEF ClosedOnce, Home
  <2> QED  BY <1>5 DEF FeedInv, Sound, ClosedOnce, Home
<1>12. SignerEarlier'
  <2> SUFFICES ASSUME NEW g \in Feed, NEW i \in DOMAIN log'[g],
                      log'[g][i].author = Holder[g], log'[g][i].kind \in Domain,
                      log'[g][i].key # Holder[g]
               PROVE  /\ log'[g][i].key \in DeviceKey
                      /\ \E j \in 1 .. i - 1 :
                            /\ log'[g][j].kind = "activate"
                            /\ log'[g][j].author = Holder[g]
                            /\ log'[g][j].subject = log'[g][i].key
    BY DEF SignerEarlier
  <2>1. CASE g # f
    BY <2>1, <1>1, Appended DEF FeedInv, SignerEarlier
  <2>2. CASE g = f /\ i \in 1 .. Len(log[f])
    <3>1. i \in DOMAIN log[f] /\ log'[f][i] = log[f][i]
      BY <2>2, <1>1, Appended
    <3>2. PICK j \in 1 .. i - 1 :
                log[f][j].kind = "activate" /\ log[f][j].author = Holder[f]
                /\ log[f][j].subject = log[f][i].key
      BY <3>1, <2>2 DEF FeedInv, SignerEarlier
    <3>3. j \in 1 .. Len(log[f])
      BY <2>2, <3>2, <1>1, Appended
    <3>4. log'[f][j] = log[f][j]
      BY <3>3, <1>1, Appended
    <3>5. log[f][i].key \in DeviceKey
      BY <3>1, <2>2 DEF FeedInv, SignerEarlier
    <3> QED  BY <2>2, <3>1, <3>2, <3>4, <3>5
  <2>3. CASE g = f /\ i = Len(log[f]) + 1
    <3>1. log'[f][i] = r
      BY <2>3, <1>1, Appended
    <3>2. PICK a \in Written(f) :
                a.kind = "activate" /\ a.author = Holder[f] /\ a.subject = r.key
      BY <2>3, <3>1 DEF Sound
    <3>3. PICK j \in DOMAIN log[f] : a = log[f][j]
      BY <3>2 DEF Written
    <3>4. j \in 1 .. i - 1 /\ log'[f][j] = a
      BY <2>3, <3>3, <1>1, Appended
    <3> QED  BY <2>3, <3>1, <3>2, <3>4 DEF Sound
  <2> QED  BY <2>1, <2>2, <2>3, <1>1, Appended
<1>13. ListingEarlier'
  <2> SUFFICES ASSUME NEW g \in Feed, NEW i \in DOMAIN log'[g],
                      log'[g][i].author = Holder[g], log'[g][i].kind = "closure"
               PROVE  /\ \E h \in Feed : \E l \in Written(h)' :
                            /\ l.kind = "listing" /\ l.subject = log'[g][i].subject
                            /\ l.author = Holder[g]
                      /\ \A j \in DOMAIN log'[g] :
                            /\ log'[g][j].kind = "listing" /\ log'[g][j].author = Holder[g]
                            /\ log'[g][j].subject = log'[g][i].subject
                            => j < i
    BY DEF ListingEarlier
  <2>1. CASE g # f
    <3>1. log'[g] = log[g]
      BY <2>1, <1>1, Appended
    <3> QED  BY <3>1, <1>4 DEF FeedInv, ListingEarlier
  <2>2. CASE g = f /\ i \in 1 .. Len(log[f])
    <3>1. i \in DOMAIN log[f] /\ log'[f][i] = log[f][i] /\ log[f][i] \in Written(f)
      BY <2>2, <1>1, Appended DEF Written
    <3>2. \E h \in Feed : \E l \in Written(h)' :
             l.kind = "listing" /\ l.subject = log'[f][i].subject /\ l.author = Holder[f]
      BY <2>2, <3>1, <1>4 DEF FeedInv, ListingEarlier
    <3>3. ASSUME NEW j \in DOMAIN log'[f],
                 log'[f][j].kind = "listing", log'[f][j].author = Holder[f],
                 log'[f][j].subject = log'[f][i].subject
          PROVE  j < i
      <4>1. CASE j \in 1 .. Len(log[f])
        <5>1. j \in DOMAIN log[f] /\ log'[f][j] = log[f][j]
          BY <4>1, <1>1, Appended
        <5> QED  BY <5>1, <3>1, <3>3, <2>2 DEF FeedInv, ListingEarlier
      <4>2. CASE j = Len(log[f]) + 1
        <5>1. log'[f][j] = r
          BY <4>2, <1>1, Appended
        <5> QED  BY <5>1, <3>1, <3>3, <2>2 DEF Sound
      <4> QED  BY <4>1, <4>2, <3>3, <1>1, Appended
    <3> QED  BY <2>2, <3>2, <3>3
  <2>3. CASE g = f /\ i = Len(log[f]) + 1
    <3>1. log'[f][i] = r
      BY <2>3, <1>1, Appended
    <3>2. PICK h \in Feed : \E l \in Written(h) :
             l.kind = "listing" /\ l.subject = r.subject /\ l.author = Holder[f]
      BY <2>3, <3>1 DEF Sound
    <3>3. ASSUME NEW j \in DOMAIN log'[f], log'[f][j].kind = "listing" PROVE j < i
      BY <2>3, <3>1, <3>3, <1>1, Appended
    <3> QED  BY <2>3, <3>1, <3>2, <3>3, <1>4
  <2> QED  BY <2>1, <2>2, <2>3, <1>1, Appended
<1> QED
  BY <1>2, <1>6, <1>7, <1>8, <1>9, <1>10, <1>11, <1>12, <1>13 DEF FeedInv

----------------------------------------------------------------------------
(* Every step keeps the invariant. *)

\* What a writer reads of its own feed is what is written there.
LEMMA OwnRecords == ASSUME NEW f PROVE RecordsOf(Own(f)) = Written(f)
<1>1. ASSUME NEW r \in Written(f) PROVE r \in RecordsOf(Own(f))
  <2>1. <<f, r>> \in Own(f) /\ <<f, r>>[2] = r
    BY <1>1 DEF Own
  <2> QED  BY <2>1 DEF RecordsOf
<1>2. ASSUME NEW r \in RecordsOf(Own(f)) PROVE r \in Written(f)
  <2>1. PICK p \in Own(f) : r = p[2]
    BY <1>2 DEF RecordsOf
  <2>2. PICK s \in Written(f) : p = <<f, s>>
    BY <2>1 DEF Own
  <2> QED  BY <2>1, <2>2
<1> QED  BY <1>1, <1>2

\* createAndAnnounceOnce appends a sound record.
LEMMA DeclareFeedKeeps ==
    ASSUME FeedInv, NEW f \in Feed, DeclareFeed(f)
    PROVE  FeedInv'
<1> DEFINE r == Declaration(f)
<1>1. log[f] \in Seq(Record) /\ Holder[f] \in Member
  BY FeedConstants DEF FeedInv, TypeOK
<1>2. Position(f) \in Nat
  BY <1>1 DEF Position
<1>3. /\ r.kind = "declare" /\ r.author = Holder[f] /\ r.subject = f
      /\ r.key = Holder[f] /\ r \in Record
  BY <1>1, <1>2 DEF Declaration, Record
<1>4. ASSUME NEW s \in Written(f), Home(f, s), s.kind = "declare" PROVE FALSE
  <2>1. s.subject = f
    BY <1>4 DEF Home, FeedInv, DeclarationsOwn
  <2>2. s \in Declarations(Own(f))
    BY <1>4, OwnRecords DEF Declarations
  <2>3. f \in DeclaredFeeds(Own(f), Holder[f])
    BY <1>4, <2>1, <2>2 DEF DeclaredFeeds, Home
  <2> QED  BY <2>3 DEF DeclareFeed
<1>5. Sound(f, r)
  BY <1>3, <1>4 DEF Sound, Lifecycle, Domain
<1>6. AppendRecord(f, r)
  BY DEF DeclareFeed
<1> HIDE DEF r
<1> QED  BY <1>5, <1>6, SoundAppend

\* activateDeviceSigningKeyOnce: no record is about a key that has just been generated.
LEMMA ActivateKeeps ==
    ASSUME FeedInv, NEW f \in Feed, NEW k \in DeviceKey, ActivateDeviceSigningKey(f, k)
    PROVE  FeedInv'
<1>1. PICK t \in 1 .. MaxTime : AppendRecord(f, KeyStatement(f, "activate", k, t))
  BY DEF ActivateDeviceSigningKey
<1> DEFINE r == KeyStatement(f, "activate", k, t)
<1>2. Holder[f] \in Member /\ t \in Nat
  BY FeedConstants
<1>3. /\ r.kind = "activate" /\ r.author = Holder[f] /\ r.subject = k
      /\ r.key = Holder[f] /\ r \in Record
  BY <1>2 DEF KeyStatement, Record, Lifecycle
<1>4. \A g \in Feed : \A s \in Written(g) : s.subject # k
  BY DEF ActivateDeviceSigningKey
<1>5. Sound(f, r)
  BY <1>3, <1>4 DEF Sound, Domain
<1> HIDE DEF r
<1> QED  BY <1>1, <1>5, SoundAppend DEF r

\* revokeDeviceSigningKey: the activation is in the same feed.
LEMMA RevokeKeeps ==
    ASSUME FeedInv, NEW f \in Feed, NEW k \in DeviceKey, RevokeDeviceSigningKey(f, k)
    PROVE  FeedInv'
<1>1. PICK t \in 1 .. MaxTime :
         NextTime(f, t) /\ AppendRecord(f, KeyStatement(f, "revoke", k, t))
  BY DEF RevokeDeviceSigningKey
<1> DEFINE r == KeyStatement(f, "revoke", k, t)
<1>2. Holder[f] \in Member /\ t \in Nat
  BY FeedConstants
<1>3. /\ r.kind = "revoke" /\ r.author = Holder[f] /\ r.subject = k
      /\ r.key = Holder[f] /\ r.at = t /\ r \in Record
  BY <1>2 DEF KeyStatement, Record, Lifecycle
<1>4. PICK a \in Statements(Own(f), Holder[f], k) : a.kind = "activate"
  BY DEF RevokeDeviceSigningKey, KeyActive
<1>5. a \in Written(f) /\ a.author = Holder[f] /\ a.subject = k /\ Home(f, a)
  BY <1>4, OwnRecords DEF Statements, Home
<1>6. ASSUME NEW g \in Feed, NEW s \in Written(g), s.kind \in Lifecycle, s.subject = k
      PROVE  s.author = Holder[f] /\ (Home(g, s) => f = g) /\ s.at # t
  <2>1. s.author = Holder[f] /\ (Home(g, s) => f = g)
    BY <1>4, <1>5, <1>6 DEF FeedInv, KeysOwned, Lifecycle
  <2>2. PICK h \in Feed : Home(h, s)
    BY <1>6 DEF FeedInv, StatementsOwn
  <2>3. s \in Written(f)
    <3>1. h = f
      BY <2>2, <1>4, <1>5, <1>6 DEF FeedInv, KeysOwned, Lifecycle, Home
    <3> QED  BY <3>1, <2>2 DEF Home
  <2>4. s.at \in Nat
    BY <2>3, WrittenTyped DEF FeedInv
  <2>5. IF ClockForward THEN s.at < t ELSE s.at # t
    BY <1>1, <1>6, <2>3 DEF NextTime
  <2> QED  BY <2>1, <2>4, <2>5, <1>2
<1>7. Sound(f, r)
  BY <1>3, <1>6 DEF Sound, Lifecycle, Domain
<1> HIDE DEF r
<1> QED  BY <1>1, <1>7, SoundAppend DEF r

\* A key that signs for a feed is its holder's root key, or was activated in it.
LEMMA SignerActivated ==
    ASSUME FeedInv, NEW f \in Feed, NEW k \in {Holder[f]} \cup DeviceKey,
           k = Holder[f] \/ KeyActive(Own(f), Holder[f], k)
    PROVE  k # Holder[f] =>
             /\ k \in DeviceKey
             /\ \E a \in Written(f) :
                   a.kind = "activate" /\ a.author = Holder[f] /\ a.subject = k
<1>1. CASE k # Holder[f]
  <2>1. PICK a \in Statements(Own(f), Holder[f], k) : a.kind = "activate"
    BY <1>1 DEF KeyActive
  <2>2. a \in Written(f) /\ a.author = Holder[f] /\ a.subject = k
    BY <2>1, OwnRecords DEF Statements
  <2> QED  BY <1>1, <2>1, <2>2
<1> QED  BY <1>1

\* publishListing: no record is about the new listing.
LEMMA PublishKeeps ==
    ASSUME FeedInv, NEW f \in Feed, NEW l \in ListingId, NEW k \in {Holder[f]} \cup DeviceKey,
           PublishListing(f, l, k)
    PROVE  FeedInv'
<1> DEFINE r == MemberSignedRecord(f, "listing", l, k)
<1>1. log[f] \in Seq(Record) /\ Holder[f] \in Member
  BY FeedConstants DEF FeedInv, TypeOK
<1>2. Position(f) \in Nat
  BY <1>1 DEF Position
<1>3. /\ r.kind = "listing" /\ r.author = Holder[f] /\ r.subject = l
      /\ r.key = k /\ r \in Record
  BY <1>1, <1>2 DEF MemberSignedRecord, Record, Domain
<1>4. \A g \in Feed : \A s \in Written(g) : s.subject # l
  BY DEF PublishListing
<1>5. k # Holder[f] =>
         /\ k \in DeviceKey
         /\ \E a \in Written(f) :
               a.kind = "activate" /\ a.author = Holder[f] /\ a.subject = k
  BY SignerActivated DEF PublishListing
<1>6. Sound(f, r)
  BY <1>3, <1>4, <1>5 DEF Sound, Lifecycle, Domain
<1>7. AppendRecord(f, r)
  BY DEF PublishListing
<1> HIDE DEF r
<1> QED  BY <1>6, <1>7, SoundAppend

\* closeListing: the desktop has read its whole feed and found the listing open.
LEMMA CloseKeeps ==
    ASSUME FeedInv, NEW f \in Feed, NEW l \in ListingId, NEW k \in {Holder[f]} \cup DeviceKey,
           CloseListing(f, l, k)
    PROVE  FeedInv'
<1> DEFINE r == MemberSignedRecord(f, "closure", l, k)
<1>1. log[f] \in Seq(Record) /\ Holder[f] \in Member
  BY FeedConstants DEF FeedInv, TypeOK
<1>2. Position(f) \in Nat
  BY <1>1 DEF Position
<1>3. /\ r.kind = "closure" /\ r.author = Holder[f] /\ r.subject = l
      /\ r.key = k /\ r \in Record
  BY <1>1, <1>2 DEF MemberSignedRecord, Record, Domain
<1>4. PICK c \in Cuts : c[f] = Len(log[f]) /\ Open(View(c), l)
  BY DEF CloseListing
<1>5. ASSUME NEW s \in Written(f), s.kind = "closure", s.subject = l PROVE FALSE
  <2>1. s \in RecordsOf(View(c))
    BY <1>4, WholeFeedRead DEF FeedInv
  <2> QED  BY <1>4, <1>5, <2>1 DEF Open
<1>6. \E g \in Feed : \E x \in Written(g) :
         x.kind = "listing" /\ x.subject = l /\ x.author = Holder[f]
  BY DEF CloseListing
<1>7. k # Holder[f] =>
         /\ k \in DeviceKey
         /\ \E a \in Written(f) :
               a.kind = "activate" /\ a.author = Holder[f] /\ a.subject = k
  BY SignerActivated DEF CloseListing
<1>8. Sound(f, r)
  BY <1>3, <1>5, <1>6, <1>7 DEF Sound, Lifecycle
<1>9. AppendRecord(f, r)
  BY DEF CloseListing
<1> HIDE DEF r
<1> QED  BY <1>8, <1>9, SoundAppend

\* A copy is of a record whose home is elsewhere.
LEMMA CopyKeeps ==
    ASSUME FeedInv, NEW f \in Feed, NEW g \in Feed, CopyRecord(f, g)
    PROVE  FeedInv'
<1>1. PICK r \in Written(g) : r.author = Holder[g] /\ AppendRecord(f, r)
  BY DEF CopyRecord
<1>2. r \in Record /\ r.author # Holder[f] /\ Home(g, r)
  BY <1>1, WrittenTyped DEF CopyRecord, Home, FeedInv
<1>3. r.kind = "declare" => r.subject \in Feed /\ Holder[r.subject] = r.author
  BY <1>1 DEF FeedInv, DeclarationsOwn
<1>4. r.kind \in Lifecycle => r.subject \in DeviceKey
  BY <1>1 DEF FeedInv, StatementsOwn
<1>5. ASSUME NEW h \in Feed, NEW s \in Written(h),
             r.kind \in Lifecycle, s.kind \in Lifecycle, r.subject = s.subject
      PROVE  /\ r.author = s.author
             /\ r.kind = "activate" /\ s.kind = "activate" => r = s
             /\ r.at = s.at => r = s
  BY <1>1, <1>5 DEF FeedInv, KeysOwned
<1>6. ASSUME NEW h \in Feed, NEW s \in Written(h),
             r.kind = "listing", s.kind = "listing", r.subject = s.subject
      PROVE  r = s
  BY <1>1, <1>6 DEF FeedInv, ListingsUnique
<1>7. Sound(f, r)
  BY <1>2, <1>3, <1>4, <1>5, <1>6 DEF Sound
<1> QED  BY <1>1, <1>7, SoundAppend

LEMMA InitFeedInv == Init => FeedInv
<1> SUFFICES ASSUME Init PROVE FeedInv
  OBVIOUS
<1>1. TypeOK
  BY DEF Init, TypeOK
<1>2. \A f \in Feed : log[f] = <<>> /\ DOMAIN log[f] = {}
  BY DEF Init
<1>3. \A f \in Feed : Written(f) = {}
  BY <1>2 DEF Written
<1> QED
  BY <1>1, <1>2, <1>3 DEF FeedInv, DeclarationsOwn, DeclaredOnce, StatementsOwn, KeysOwned,
     ListingsUnique, ClosedOnce, SignerEarlier, ListingEarlier

LEMMA NextFeedInv == FeedInv /\ [Next]_vars => FeedInv'
<1> SUFFICES ASSUME FeedInv, [Next]_vars PROVE FeedInv'
  OBVIOUS
<1>1. ASSUME NEW f \in Feed, DeclareFeed(f) PROVE FeedInv'
  BY <1>1, DeclareFeedKeeps
<1>2. ASSUME NEW f \in Feed, NEW k \in DeviceKey, ActivateDeviceSigningKey(f, k) PROVE FeedInv'
  BY <1>2, ActivateKeeps
<1>3. ASSUME NEW f \in Feed, NEW k \in DeviceKey, RevokeDeviceSigningKey(f, k) PROVE FeedInv'
  BY <1>3, RevokeKeeps
<1>4. ASSUME NEW f \in Feed, NEW l \in ListingId, NEW k \in {Holder[f]} \cup DeviceKey,
             PublishListing(f, l, k) \/ CloseListing(f, l, k)
      PROVE  FeedInv'
  BY <1>4, PublishKeeps, CloseKeeps
<1>5. ASSUME NEW f \in Feed, NEW g \in Feed, CopyRecord(f, g) PROVE FeedInv'
  BY <1>5, CopyKeeps
<1>6. CASE UNCHANGED vars
  BY <1>6 DEF vars, FeedInv, TypeOK, DeclarationsOwn, DeclaredOnce, StatementsOwn, KeysOwned,
     ListingsUnique, ClosedOnce, SignerEarlier, ListingEarlier, Home, Written
<1> QED  BY <1>1, <1>2, <1>3, <1>4, <1>5, <1>6 DEF Next

\* The invariant of the feeds: records have one home, in the feed of their author.
THEOREM FeedInvariant == Spec => []FeedInv
BY InitFeedInv, NextFeedInv, PTL DEF Spec

\* Feeds are sequences of records, in every state.
THEOREM FeedsTypeCorrect == Spec => []TypeOK
<1>1. FeedInv => TypeOK
  BY DEF FeedInv
<1> QED  BY <1>1, FeedInvariant, PTL

----------------------------------------------------------------------------
(* What a reader resolves. *)

\* A declaration of a view names a feed of its author.
LEMMA DeclaredHeld ==
    ASSUME FeedInv, NEW c \in Cuts, NEW m, NEW f \in DeclaredFeeds(View(c), m)
    PROVE  f \in Feed /\ Holder[f] = m
<1>1. PICK d \in Declarations(View(c)) : d.author = m /\ d.subject = f
  BY DEF DeclaredFeeds
<1>2. d.kind = "declare" /\ d \in RecordsOf(View(c))
  BY <1>1 DEF Declarations
<1>3. PICK g \in Feed : d \in Written(g)
  BY <1>2, RecordInView DEF FeedInv
<1> QED  BY <1>1, <1>2, <1>3 DEF FeedInv, DeclarationsOwn

\* Whatever members copy, a record that resolves was read from a feed whose writer holds
\* its author's root key (the source check of feed-resolution.ts).
THEOREM AuthorsAlwaysSpeakForThemselves == Spec => []AuthorsSpeakForThemselves
<1>1. FeedInv => AuthorsSpeakForThemselves
  <2> SUFFICES ASSUME FeedInv, NEW c \in Cuts, Resolves(View(c)),
                      NEW p \in View(c), SourceChecked(p[2])
               PROVE  Holder[p[1]] = p[2].author
    BY DEF AuthorsSpeakForThemselves
  <2>1. p[1] \in DeclaredFeeds(View(c), p[2].author)
    BY DEF Resolves, FromDeclaredFeeds
  <2> QED  BY <2>1, DeclaredHeld
<1> QED  BY <1>1, FeedInvariant, PTL

\* Statements about a key in a view are the statements of one member.
LEMMA StatementsOfKey ==
    ASSUME FeedInv, NEW c \in Cuts,
           NEW r \in RecordsOf(View(c)), NEW s \in RecordsOf(View(c)),
           r.kind \in Lifecycle, s.kind \in Lifecycle, r.subject = s.subject
    PROVE  /\ r.author \in Member /\ r.subject \in DeviceKey /\ r.author = s.author
           /\ r.kind = "activate" /\ s.kind = "activate" => r = s
           /\ r.at = s.at => r = s
           /\ r.at \in Nat /\ s.at \in Nat
           /\ r \in Statements(View(c), r.author, r.subject)
           /\ s \in Statements(View(c), r.author, r.subject)
<1>1. PICK f \in Feed : r \in Written(f)
  BY RecordInView DEF FeedInv
<1>2. PICK g \in Feed : s \in Written(g)
  BY RecordInView DEF FeedInv
<1>3. r.author \in Member /\ r.at \in Nat /\ s.at \in Nat
  BY <1>1, <1>2, WrittenTyped DEF FeedInv
<1>4. r.subject \in DeviceKey
  BY <1>1 DEF FeedInv, StatementsOwn
<1>5. /\ r.author = s.author
      /\ r.kind = "activate" /\ s.kind = "activate" => r = s
      /\ r.at = s.at => r = s
  BY <1>1, <1>2 DEF FeedInv, KeysOwned
<1> QED  BY <1>3, <1>4, <1>5 DEF Statements

\* A revocation dated before its activation stops every reader that has both.
LEMMA BackdatedBlocks ==
    ASSUME FeedInv, NEW c \in Cuts, BackdatedIn(View(c))
    PROVE  ~ Resolves(View(c))
<1>1. PICK r \in RecordsOf(View(c)), s \in RecordsOf(View(c)) :
         r.kind = "revoke" /\ s.kind = "activate" /\ r.subject = s.subject /\ r.at < s.at
  BY DEF BackdatedIn
<1>2. /\ r.author \in Member /\ r.subject \in DeviceKey /\ r.at \in Nat /\ s.at \in Nat
      /\ r \in Statements(View(c), r.author, r.subject)
      /\ s \in Statements(View(c), r.author, r.subject)
  BY <1>1, StatementsOfKey DEF Lifecycle
<1>3. ASSUME NoReactivation(View(c)) PROVE FALSE
  <2>1. s.at < r.at
    BY <1>1, <1>2, <1>3 DEF NoReactivation
  <2> QED  BY <2>1, <1>1, <1>2
<1> QED  BY <1>3 DEF Resolves

\* Two declared feeds authorize a root key twice.
LEMMA TwoFeedsBlock ==
    ASSUME NEW v, TwoFeedsIn(v)
    PROVE  ~ Resolves(v)
<1>1. PICK m \in Member : \E f, g \in DeclaredFeeds(v, m) : f # g
  BY DEF TwoFeedsIn
<1>2. PICK f \in DeclaredFeeds(v, m), g \in DeclaredFeeds(v, m) : f # g
  BY <1>1
<1>3. PICK d \in Declarations(v) : d.author = m /\ d.subject = f
  BY <1>2 DEF DeclaredFeeds
<1>4. PICK e \in Declarations(v) : e.author = m /\ e.subject = g
  BY <1>2 DEF DeclaredFeeds
<1> DEFINE a == [member |-> m, key |-> m, source |-> f, active |-> TRUE]
           b == [member |-> m, key |-> m, source |-> g, active |-> TRUE]
<1>5. a \in Authorizations(v)
  BY <1>3 DEF Authorizations
<1>6. b \in Authorizations(v)
  BY <1>4 DEF Authorizations
<1>7. a.key = b.key /\ a.source = f /\ b.source = g
  OBVIOUS
<1> HIDE DEF a, b
<1> QED  BY <1>2, <1>5, <1>6, <1>7 DEF Resolves, AuthorizedOnce

\* An active entry is a declared root key, or a key whose last statement activates it.
LEMMA ActiveEntry ==
    ASSUME NEW v, NEW m, NEW k, ActiveKey(v, m, k)
    PROVE  \/ k = m
           \/ /\ KeyActive(v, m, k)
              /\ \E s \in RecordsOf(v) : s.kind = "activate" /\ s.author = m /\ s.subject = k
<1>1. PICK a \in Authorizations(v) : a.active /\ a.member = m /\ a.key = k
  BY DEF ActiveKey
<1>2. CASE \E d \in Declarations(v) :
              a = [member |-> d.author, key |-> d.author, source |-> d.subject, active |-> TRUE]
  BY <1>1, <1>2
<1>3. CASE \E s \in {r \in RecordsOf(v) : r.kind = "activate"} :
              a = [member |-> s.author, key |-> s.subject, source |-> s.subject,
                   active |-> KeyActive(v, s.author, s.subject)]
  <2>1. PICK s \in RecordsOf(v) :
           /\ s.kind = "activate"
           /\ a = [member |-> s.author, key |-> s.subject, source |-> s.subject,
                   active |-> KeyActive(v, s.author, s.subject)]
    BY <1>3
  <2>2. s.author = m /\ s.subject = k
    BY <1>1, <2>1
  <2>3. KeyActive(v, m, k)
    BY <1>1, <2>1, <2>2
  <2> QED  BY <2>1, <2>2, <2>3
<1> QED  BY <1>1, <1>2, <1>3 DEF Authorizations

\* A record signed by a key that is revoked stops every reader that has both.
LEMMA RetiredSignerBlocks ==
    ASSUME FeedInv, NEW c \in Cuts, RetiredSignerIn(View(c))
    PROVE  ~ Resolves(View(c))
<1> DEFINE v == View(c)
<1>1. PICK r \in RecordsOf(v), s \in RecordsOf(v) :
         r.kind \in Domain /\ s.kind = "revoke" /\ r.key = s.subject
  BY DEF RetiredSignerIn
<1>2. PICK f \in Feed : r \in Written(f)
  BY RecordInView DEF FeedInv
<1>3. s.subject \in DeviceKey /\ s.author \in Member /\ s.at \in Nat
  BY <1>1, StatementsOfKey DEF Lifecycle
<1>4. r.author \in Member /\ r.key # r.author
  <2>1. r.author \in Member
    BY <1>2, WrittenTyped DEF FeedInv
  <2> QED  BY <2>1, <1>1, <1>3, FeedConstants
<1>5. ASSUME Resolves(v) PROVE FALSE
  <2>1. ActiveKey(v, r.author, r.key)
    BY <1>1, <1>5 DEF Resolves, SignedByActiveKey, Verifies
  <2>2. KeyActive(v, r.author, r.key)
    BY <2>1, <1>4, ActiveEntry
  <2>3. PICK a \in Statements(v, r.author, r.key) :
           a.kind = "activate" /\ \A t \in Statements(v, r.author, r.key) : t.at <= a.at
    BY <2>2 DEF KeyActive
  <2>4. a \in RecordsOf(v) /\ a.author = r.author /\ a.subject = r.key
    BY <2>3 DEF Statements
  <2>5. /\ s.author = a.author /\ s \in Statements(v, s.author, s.subject)
        /\ a \in Statements(v, s.author, s.subject) /\ a.at \in Nat
    BY <1>1, <2>3, <2>4, StatementsOfKey DEF Lifecycle
  <2>6. s.at <= a.at
    BY <1>1, <2>3, <2>4, <2>5
  <2>7. a.at < s.at
    BY <1>1, <1>3, <1>5, <2>3, <2>5 DEF Resolves, NoReactivation
  <2> QED  BY <2>5, <2>6, <2>7, <1>3
<1> QED  BY <1>5

\* A backdated revocation, a second declared feed and a record of a retired key stop a
\* reader for good: what it reads later never helps (resolution throws, feeds only grow).
THEOREM BlocksAreFinal == Spec => []FinalBlocks
<1>1. FeedInv => FinalBlocks
  <2> SUFFICES ASSUME FeedInv, NEW c \in Cuts,
                      BackdatedIn(View(c)) \/ TwoFeedsIn(View(c)) \/ RetiredSignerIn(View(c)),
                      NEW d \in Cuts, \A f \in Feed : c[f] <= d[f]
               PROVE  ~ Resolves(View(d))
    BY DEF FinalBlocks
  <2>1. RecordsOf(View(c)) \subseteq RecordsOf(View(d))
    BY ViewGrows
  <2>2. CASE BackdatedIn(View(c))
    <3>1. BackdatedIn(View(d))
      BY <2>1, <2>2 DEF BackdatedIn
    <3> QED  BY <3>1, BackdatedBlocks
  <2>3. CASE TwoFeedsIn(View(c))
    <3>1. Declarations(View(c)) \subseteq Declarations(View(d))
      BY <2>1 DEF Declarations
    <3>2. \A m : DeclaredFeeds(View(c), m) \subseteq DeclaredFeeds(View(d), m)
      BY <3>1 DEF DeclaredFeeds
    <3>3. TwoFeedsIn(View(d))
      BY <2>3, <3>2 DEF TwoFeedsIn
    <3> QED  BY <3>3, TwoFeedsBlock
  <2>4. CASE RetiredSignerIn(View(c))
    <3>1. RetiredSignerIn(View(d))
      BY <2>1, <2>4 DEF RetiredSignerIn
    <3> QED  BY <3>1, RetiredSignerBlocks
  <2> QED  BY <2>2, <2>3, <2>4
<1> QED  BY <1>1, FeedInvariant, PTL

----------------------------------------------------------------------------
(* A view that holds none of the six obstacles resolves. *)

Unobstructed(v) ==
    /\ ~ UndeclaredIn(v) /\ ~ CopiedIn(v) /\ ~ BackdatedIn(v)
    /\ ~ TwoFeedsIn(v) /\ ~ RetiredSignerIn(v) /\ ~ ForeignClosureIn(v)

\* Without copies every record is read at home.
LEMMA ReadAtHome ==
    ASSUME FeedInv, NEW c \in Cuts, ~ CopiedIn(View(c)), NEW r \in RecordsOf(View(c))
    PROVE  \E f \in Feed :
              /\ <<f, r>> \in View(c) /\ Home(f, r)
              /\ \E i \in 1 .. c[f] : i \in DOMAIN log[f] /\ r = log[f][i]
<1>1. PICK f \in Feed : <<f, r>> \in View(c)
  BY RecordInView DEF FeedInv
<1> DEFINE p == <<f, r>>
<1>2. p[1] = f /\ p[2] = r /\ p \in View(c)
  BY <1>1
<1> HIDE DEF p
<1>3. /\ r \in Written(f)
      /\ \E i \in 1 .. c[f] : i \in DOMAIN log[f] /\ r = log[f][i]
  BY <1>2, ViewWritten DEF FeedInv
<1>4. r.author = Holder[f]
  BY <1>2 DEF CopiedIn
<1> QED  BY <1>1, <1>3, <1>4 DEF Home

\* A member whose checked records are read has declared the feed they are read from.
LEMMA HomeDeclared ==
    ASSUME FeedInv, NEW c \in Cuts, ~ UndeclaredIn(View(c)), NEW f \in Feed, NEW r,
           <<f, r>> \in View(c), SourceChecked(r), Holder[f] = r.author
    PROVE  f \in DeclaredFeeds(View(c), r.author)
<1> DEFINE p == <<f, r>>
<1>1. p[1] = f /\ p[2] = r /\ p \in View(c)
  OBVIOUS
<1> HIDE DEF p
<1> QED  BY <1>1 DEF UndeclaredIn

\* A closure that is read where its listing was written comes after the listing.
LEMMA ClosureAfterListing ==
    ASSUME FeedInv, NEW c \in Cuts, ~ ForeignClosureIn(View(c)),
           NEW f \in Feed, NEW i \in 1 .. c[f], i \in DOMAIN log[f],
           log[f][i].kind = "closure", log[f][i].author = Holder[f]
    PROVE  \E j \in 1 .. c[f] :
              /\ j \in DOMAIN log[f] /\ log[f][j].kind = "listing"
              /\ log[f][j].author = Holder[f] /\ log[f][j].subject = log[f][i].subject
<1> DEFINE r == log[f][i]
           p == <<f, r>>
<1>1. p[1] = f /\ p[2] = r /\ p \in View(c) /\ r.kind = "closure" /\ r.author = Holder[f]
  BY PositionInView
<1>2. r = log[f][i]
  OBVIOUS
<1> HIDE DEF p, r
<1>3. PICK l \in Written(f) : l.kind = "listing" /\ l.subject = r.subject
  BY <1>1 DEF ForeignClosureIn
<1>4. PICK g \in Feed : \E x \in Written(g) :
         x.kind = "listing" /\ x.subject = r.subject /\ x.author = Holder[f]
  BY <1>1, <1>2 DEF FeedInv, ListingEarlier
<1>5. l.author = Holder[f]
  BY <1>3, <1>4 DEF FeedInv, ListingsUnique
<1>6. PICK j \in DOMAIN log[f] : l = log[f][j]
  BY <1>3 DEF Written
<1>7. j < i
  BY <1>1, <1>2, <1>3, <1>5, <1>6 DEF FeedInv, ListingEarlier
<1>8. log[f] \in Seq(Record) /\ c[f] \in Nat
  BY DEF FeedInv, TypeOK, Cuts
<1>9. j \in 1 .. c[f]
  BY <1>6, <1>7, <1>8
<1> QED  BY <1>2, <1>3, <1>5, <1>6, <1>9

\* Records of one id are one record.
LEMMA NoConflictHolds ==
    ASSUME FeedInv, NEW c \in Cuts, Unobstructed(View(c))
    PROVE  NoConflict(View(c))
<1> SUFFICES ASSUME NEW r \in RecordsOf(View(c)), NEW s \in RecordsOf(View(c)),
                    RecordId(r) = RecordId(s)
             PROVE  r = s
  BY DEF NoConflict
<1>1. PICK f \in Feed :
         Home(f, r) /\ \E i \in 1 .. c[f] : i \in DOMAIN log[f] /\ r = log[f][i]
  BY ReadAtHome DEF Unobstructed
<1>2. PICK g \in Feed :
         Home(g, s) /\ \E i \in 1 .. c[g] : i \in DOMAIN log[g] /\ s = log[g][i]
  BY ReadAtHome DEF Unobstructed
<1>3. r \in Written(f) /\ r.author = Holder[f] /\ s \in Written(g) /\ s.author = Holder[g]
  BY <1>1, <1>2 DEF Home
<1>4. /\ r.kind \in {"declare", "activate", "revoke", "listing", "closure"}
      /\ s.kind \in {"declare", "activate", "revoke", "listing", "closure"}
  BY <1>3, WrittenTyped DEF FeedInv
<1>5. r.kind = s.kind
  <2>1. RecordId(r)[1] = r.kind
    BY <1>4 DEF RecordId, Lifecycle
  <2>2. RecordId(s)[1] = s.kind
    BY <1>4 DEF RecordId, Lifecycle
  <2> QED  BY <2>1, <2>2
<1>6. CASE r.kind = "declare"
  <2>1. r.subject = f /\ s.subject = g
    BY <1>3, <1>5, <1>6 DEF FeedInv, DeclarationsOwn
  <2>2. r.subject = s.subject
    BY <1>5, <1>6 DEF RecordId, Lifecycle
  <2> QED  BY <1>1, <1>2, <1>3, <1>5, <1>6, <2>1, <2>2 DEF FeedInv, DeclaredOnce
<1>7. CASE r.kind \in Lifecycle
  <2>1. r.subject = s.subject /\ r.at = s.at
    BY <1>5, <1>7 DEF RecordId, Lifecycle
  <2> QED  BY <1>3, <1>5, <1>7, <2>1 DEF FeedInv, KeysOwned
<1>8. CASE r.kind = "listing"
  <2>1. r.subject = s.subject
    BY <1>5, <1>8 DEF RecordId, Lifecycle
  <2> QED  BY <1>3, <1>5, <1>8, <2>1 DEF FeedInv, ListingsUnique
<1>9. CASE r.kind = "closure"
  <2>1. r.subject = s.subject
    BY <1>5, <1>9 DEF RecordId, Lifecycle
  <2>2. PICK j \in DOMAIN log[f] :
           /\ log[f][j].kind = "listing" /\ log[f][j].author = Holder[f]
           /\ log[f][j].subject = r.subject
    BY <1>1, <1>3, <1>9, ClosureAfterListing DEF Unobstructed
  <2>3. PICK k \in DOMAIN log[g] :
           /\ log[g][k].kind = "listing" /\ log[g][k].author = Holder[g]
           /\ log[g][k].subject = s.subject
    <3>1. PICK i \in 1 .. c[g] : i \in DOMAIN log[g] /\ s = log[g][i]
      BY <1>2
    <3>2. s.kind = "closure" /\ s.author = Holder[g]
      BY <1>3, <1>5, <1>9
    <3> QED  BY <3>1, <3>2, ClosureAfterListing DEF Unobstructed
  <2>4. Home(f, log[f][j]) /\ Home(g, log[g][k])
    BY <2>2, <2>3 DEF Home, Written
  <2>5. f = g
    BY <2>1, <2>2, <2>3, <2>4 DEF FeedInv, ListingsUnique, Home
  <2> QED  BY <1>1, <1>2, <1>3, <1>5, <1>9, <2>1, <2>5 DEF FeedInv, ClosedOnce
<1> QED  BY <1>4, <1>6, <1>7, <1>8, <1>9 DEF Lifecycle

\* A key id is authorized once.
LEMMA AuthorizedOnceHolds ==
    ASSUME FeedInv, NEW c \in Cuts, Unobstructed(View(c))
    PROVE  AuthorizedOnce(View(c))
<1> DEFINE v == View(c)
           Root(d) == [member |-> d.author, key |-> d.author, source |-> d.subject,
                       active |-> TRUE]
           Device(s) == [member |-> s.author, key |-> s.subject, source |-> s.subject,
                         active |-> KeyActive(v, s.author, s.subject)]
           Activations == {r \in RecordsOf(v) : r.kind = "activate"}
<1> SUFFICES ASSUME NEW a \in Authorizations(v), NEW b \in Authorizations(v), a.key = b.key
             PROVE  a = b
  BY DEF AuthorizedOnce
<1>1. \A x \in Authorizations(v) :
         (\E d \in Declarations(v) : x = Root(d)) \/ (\E s \in Activations : x = Device(s))
  BY DEF Authorizations
<1>2. \A d \in Declarations(v) : d.author \in Member /\ d.subject \in DeclaredFeeds(v, d.author)
  <2> TAKE d \in Declarations(v)
  <2>1. d \in RecordsOf(v)
    BY DEF Declarations
  <2>2. d.author \in Member
    BY <2>1, RecordInView, WrittenTyped DEF FeedInv
  <2> QED  BY <2>2 DEF DeclaredFeeds
<1>3. \A s \in Activations : s.subject \in DeviceKey /\ s \in RecordsOf(v)
  BY StatementsOfKey DEF Lifecycle
<1>4. ASSUME NEW d \in Declarations(v), NEW e \in Declarations(v), d.author = e.author
      PROVE  Root(d) = Root(e)
  <2>1. d.subject = e.subject
    BY <1>2, <1>4 DEF Unobstructed, TwoFeedsIn
  <2> QED  BY <1>4, <2>1
<1>5. ASSUME NEW s \in Activations, NEW t \in Activations, s.subject = t.subject
      PROVE  s = t
  BY <1>3, <1>5, StatementsOfKey DEF Lifecycle
<1>6. ASSUME NEW d \in Declarations(v), NEW s \in Activations
      PROVE  d.author # s.subject
  BY <1>2, <1>3, FeedConstants
<1> QED  BY <1>1, <1>4, <1>5, <1>6

\* A domain record verifies: its key is the declared root key, or active in the view.
LEMMA SignedByActiveKeyHolds ==
    ASSUME FeedInv, NEW c \in Cuts, Unobstructed(View(c))
    PROVE  SignedByActiveKey(View(c))
<1> DEFINE v == View(c)
<1> SUFFICES ASSUME NEW r \in RecordsOf(v), r.kind \in Domain
             PROVE  ActiveKey(v, r.author, r.key)
  BY DEF SignedByActiveKey, Verifies
<1>1. PICK f \in Feed :
         /\ <<f, r>> \in v /\ Home(f, r)
         /\ \E i \in 1 .. c[f] : i \in DOMAIN log[f] /\ r = log[f][i]
  BY ReadAtHome DEF Unobstructed
<1>2. PICK i \in 1 .. c[f] : i \in DOMAIN log[f] /\ r = log[f][i]
  BY <1>1
<1>3. r.author = Holder[f]
  BY <1>1 DEF Home
<1>4. CASE r.key = Holder[f]
  <2>1. \E l : <<f, l>> \in v /\ l.kind = "listing" /\ l.author = Holder[f]
    <3>1. CASE r.kind = "listing"
      BY <1>1, <1>3, <3>1
    <3>2. CASE r.kind = "closure"
      <4>1. PICK j \in 1 .. c[f] : log[f][j].kind = "listing" /\ log[f][j].author = Holder[f]
        BY <1>2, <1>3, <3>2, ClosureAfterListing DEF Unobstructed
      <4> QED  BY <4>1, PositionInView
    <3> QED  BY <3>1, <3>2 DEF Domain
  <2>2. f \in DeclaredFeeds(v, Holder[f])
    BY <2>1, HomeDeclared DEF Unobstructed, SourceChecked
  <2>3. PICK d \in Declarations(v) : d.author = Holder[f]
    BY <2>2 DEF DeclaredFeeds
  <2> DEFINE a == [member |-> d.author, key |-> d.author, source |-> d.subject,
                   active |-> TRUE]
  <2>4. a \in Authorizations(v)
    BY DEF Authorizations
  <2>5. a.active /\ a.member = r.author /\ a.key = r.key
    BY <1>3, <1>4, <2>3
  <2> HIDE DEF a
  <2> QED  BY <2>4, <2>5 DEF ActiveKey
<1>5. CASE r.key # Holder[f]
  <2>1. PICK j \in 1 .. i - 1 :
           log[f][j].kind = "activate" /\ log[f][j].author = Holder[f]
           /\ log[f][j].subject = r.key
    BY <1>2, <1>3, <1>5 DEF FeedInv, SignerEarlier
  <2>2. c[f] \in Nat
    BY DEF Cuts
  <2>3. j \in 1 .. c[f]
    BY <1>2, <2>1, <2>2
  <2>4. log[f][j] \in RecordsOf(v)
    BY <2>3, PositionInView
  <2> DEFINE s == log[f][j]
  <2>5. s \in Statements(v, r.author, r.key)
    BY <1>3, <2>1, <2>4 DEF Statements, Lifecycle
  <2>6. ASSUME NEW t \in Statements(v, r.author, r.key) PROVE t.at <= s.at
    <3>1. t \in RecordsOf(v) /\ t.kind \in Lifecycle /\ t.subject = r.key
      BY <2>6 DEF Statements
    <3>2. t.kind # "revoke"
      BY <3>1 DEF Unobstructed, RetiredSignerIn
    <3>3. t = s /\ s.at \in Nat
      BY <2>1, <2>4, <3>1, <3>2, StatementsOfKey DEF Lifecycle
    <3> QED  BY <3>3
  <2>7. KeyActive(v, r.author, r.key)
    BY <2>1, <2>5, <2>6 DEF KeyActive
  <2> DEFINE a == [member |-> s.author, key |-> s.subject, source |-> s.subject,
                   active |-> KeyActive(v, s.author, s.subject)]
  <2>8. a \in Authorizations(v)
    BY <2>1, <2>4 DEF Authorizations
  <2>9. a.active /\ a.member = r.author /\ a.key = r.key
    BY <1>3, <2>1, <2>7
  <2> HIDE DEF a
  <2> QED  BY <2>8, <2>9 DEF ActiveKey
<1> QED  BY <1>4, <1>5

\* Whatever members do in whatever order, a reader of any prefixes resolves unless one of
\* the six obstacles is in what it reads: no other check of the resolver stops it.
THEOREM NothingElseBlocks == Spec => []OnlyTheseBlock
<1>1. ASSUME FeedInv, NEW c \in Cuts, Unobstructed(View(c)) PROVE Resolves(View(c))
  <2> DEFINE v == View(c)
  <2>1. OneMemberPerFeed(v)
    <3>1. ASSUME NEW r \in Declarations(v) PROVE Holder[r.subject] = r.author
      <4>1. r \in RecordsOf(v) /\ r.kind = "declare"
        BY <3>1 DEF Declarations
      <4> QED  BY <1>1, <4>1, RecordInView DEF FeedInv, DeclarationsOwn
    <3> QED  BY <3>1 DEF OneMemberPerFeed
  <2>2. FromDeclaredFeeds(v)
    BY <1>1 DEF FromDeclaredFeeds, Unobstructed, UndeclaredIn, CopiedIn
  <2>3. NoConflict(v)
    BY <1>1, NoConflictHolds
  <2>4. RootsDeclared(v)
    <3> SUFFICES ASSUME NEW r \in RecordsOf(v), r.kind \in Lifecycle
                 PROVE  DeclaredFeeds(v, r.author) # {}
      BY DEF RootsDeclared
    <3>1. PICK f \in Feed : <<f, r>> \in v /\ Home(f, r)
      BY <1>1, ReadAtHome DEF Unobstructed
    <3> QED  BY <1>1, <3>1, HomeDeclared DEF Unobstructed, SourceChecked, Home
  <2>5. NoReactivation(v)
    <3> SUFFICES ASSUME NEW m \in Member, NEW k \in DeviceKey,
                        NEW r \in Statements(v, m, k), NEW s \in Statements(v, m, k),
                        r.kind = "revoke", s.kind = "activate"
                 PROVE  s.at < r.at
      BY DEF NoReactivation
    <3>1. r \in RecordsOf(v) /\ s \in RecordsOf(v) /\ r.subject = s.subject
      BY DEF Statements
    <3>2. r.at \in Nat /\ s.at \in Nat /\ r.at # s.at
      BY <1>1, <3>1, StatementsOfKey DEF Lifecycle
    <3>3. ~ (r.at < s.at)
      BY <1>1, <3>1 DEF Unobstructed, BackdatedIn
    <3> QED  BY <3>2, <3>3
  <2>6. AuthorizedOnce(v)
    BY <1>1, AuthorizedOnceHolds
  <2>7. SignedByActiveKey(v)
    BY <1>1, SignedByActiveKeyHolds
  <2>8. ClosuresLinked(v)
    <3> SUFFICES ASSUME NEW r \in RecordsOf(v), r.kind = "closure"
                 PROVE  \E l \in RecordsOf(v) :
                           l.kind = "listing" /\ l.subject = r.subject /\ l.author = r.author
      BY DEF ClosuresLinked
    <3>1. PICK f \in Feed :
             Home(f, r) /\ \E i \in 1 .. c[f] : i \in DOMAIN log[f] /\ r = log[f][i]
      BY <1>1, ReadAtHome DEF Unobstructed
    <3>2. PICK j \in 1 .. c[f] :
             /\ log[f][j].kind = "listing" /\ log[f][j].author = Holder[f]
             /\ log[f][j].subject = r.subject
      BY <1>1, <3>1, ClosureAfterListing DEF Unobstructed, Home
    <3> QED  BY <3>1, <3>2, PositionInView DEF Home
  <2> QED  BY <2>1, <2>2, <2>3, <2>4, <2>5, <2>6, <2>7, <2>8 DEF Resolves
<1>2. FeedInv => OnlyTheseBlock
  BY <1>1 DEF OnlyTheseBlock, Unobstructed
<1> QED  BY <1>2, FeedInvariant, PTL

=============================================================================
