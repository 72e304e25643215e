--------------------------- MODULE ExchangeProofs ---------------------------
(***************************************************************************)
(* Proofs about the calls of Exchange, for every set of members, every     *)
(* catalogue, every number of calls in flight and every history: types,    *)
(* the in-progress guards and the appends that happen once.  Then about    *)
(* the records: the published history always carries its evidence, and the *)
(* desktops implement Agreement.                                           *)
(***************************************************************************)
EXTENDS Exchange, FiniteSetTheorems, TLAPS

----------------------------------------------------------------------------
(***************************************************************************)
(* Type correctness.  A handler copies the terms of a record it read into  *)
(* its call and from there into the record it appends, so the type of a    *)
(* call depends on the kinds of the records in the feeds.                  *)
(***************************************************************************)

WellKinded(r) ==
    CASE r.kind = "listing" -> r.subject \in Listing /\ r.terms \in ListingTerms
      [] r.kind = "closure" -> r.subject \in Listing /\ r.terms = NoTerms
      [] OTHER -> r.subject \in Proposal /\ r.terms \in ProposalTerms

WellShaped(c) ==
    /\ IF c.op = "close"
       THEN c.subject \in Listing /\ c.terms = NoTerms
       ELSE c.subject \in Proposal /\ c.terms \in ProposalTerms
    /\ c.op \in {"propose", "accept"} => c.step = "append"
    /\ c.op = "close" => c.step \in {"enter", "append"}
    /\ c.op = "ack" => c.step \in {"enter", "recheck", "append"}

TypeInv ==
    /\ TypeOK
    /\ \A r \in AllRecords : WellKinded(r)
    /\ \A c \in calls : WellShaped(c)

\* The record AppendRecord appends.
NewRecord(m, kind, x, terms, by) ==
    [kind |-> kind, subject |-> x, author |-> m, at |-> Len(feed[m]) + 1,
     terms |-> terms, by |-> by]

\* An append adds its record to the feed of the appending member and to no other feed.
LEMMA AppendAddsOwn ==
    ASSUME TypeOK, NEW m \in Member, NEW kind, NEW x, NEW terms, NEW by,
           NewRecord(m, kind, x, terms, by) \in Record,
           AppendRecord(m, kind, x, terms, by)
    PROVE  /\ feed' \in [Member -> Seq(Record)]
           /\ \A n \in Member : Len(feed'[n]) >= Len(feed[n])
           /\ OwnRecords(m)' = OwnRecords(m) \cup {NewRecord(m, kind, x, terms, by)}
           /\ \A n \in Member : n # m => OwnRecords(n)' = OwnRecords(n)
<1> DEFINE r == NewRecord(m, kind, x, terms, by)
<1>1. feed' = [feed EXCEPT ![m] = Append(feed[m], r)]
  BY DEF AppendRecord, NewRecord
<1>2. feed \in [Member -> Seq(Record)] /\ r \in Record
  BY DEF TypeOK
<1> HIDE DEF r
<1>3. feed'[m] = Append(feed[m], r) /\ \A n \in Member : n # m => feed'[n] = feed[n]
  BY <1>1, <1>2
<1>4. feed' \in [Member -> Seq(Record)]
  BY <1>1, <1>2
<1>5. /\ Len(feed'[m]) = Len(feed[m]) + 1
      /\ Len(feed[m]) \in Nat
      /\ feed'[m][Len(feed[m]) + 1] = r
      /\ \A i \in 1 .. Len(feed[m]) : feed'[m][i] = feed[m][i]
  BY <1>2, <1>3
<1>6. OwnRecords(m)' = OwnRecords(m) \cup {r}
  <2>1. OwnRecords(m)' = {feed'[m][i] : i \in 1 .. Len(feed'[m])}
    BY DEF OwnRecords, Prefix
  <2>2. OwnRecords(m) = {feed[m][i] : i \in 1 .. Len(feed[m])}
    BY DEF OwnRecords, Prefix
  <2>3. 1 .. Len(feed'[m]) = (1 .. Len(feed[m])) \cup {Len(feed[m]) + 1}
    BY <1>5
  <2>4. QED
    BY <2>1, <2>2, <2>3, <1>5
<1>7. \A n \in Member : n # m => OwnRecords(n)' = OwnRecords(n)
  BY <1>3 DEF OwnRecords, Prefix
<1>8. \A n \in Member : Len(feed'[n]) >= Len(feed[n])
  BY <1>2, <1>3, <1>5
<1> QED
  BY <1>4, <1>6, <1>7, <1>8 DEF r

\* An append adds its record to the records of the community.
LEMMA AppendAddsAll ==
    ASSUME TypeOK, NEW m \in Member, NEW kind, NEW x, NEW terms, NEW by,
           NewRecord(m, kind, x, terms, by) \in Record,
           AppendRecord(m, kind, x, terms, by)
    PROVE  AllRecords' = AllRecords \cup {NewRecord(m, kind, x, terms, by)}
<1>1. /\ OwnRecords(m)' = OwnRecords(m) \cup {NewRecord(m, kind, x, terms, by)}
      /\ \A n \in Member : n # m => OwnRecords(n)' = OwnRecords(n)
  BY AppendAddsOwn
<1>2. AllRecords' = UNION {OwnRecords(n)' : n \in Member}
  BY DEF AllRecords
<1> QED
  BY <1>1, <1>2 DEF AllRecords

\* A step that leaves the feeds alone leaves the records alone.
LEMMA SameFeedsSameRecords ==
    ASSUME UNCHANGED feed
    PROVE  AllRecords' = AllRecords /\ \A m \in Member : OwnRecords(m)' = OwnRecords(m)
  BY DEF AllRecords, OwnRecords, Prefix

\* What a desktop reads has been appended by someone.
LEMMA ViewPublished ==
    ASSUME TypeOK, NEW v \in Member
    PROVE  View(v) \subseteq AllRecords
<1>1. \A m \in Member : Prefix(m, replica[v][m]) \subseteq OwnRecords(m)
  <2> SUFFICES ASSUME NEW m \in Member PROVE Prefix(m, replica[v][m]) \subseteq OwnRecords(m)
    OBVIOUS
  <2>1. replica[v][m] \in Nat /\ Len(feed[m]) \in Nat /\ replica[v][m] <= Len(feed[m])
    BY DEF TypeOK
  <2> QED
    BY <2>1 DEF Prefix, OwnRecords
<1> QED
  BY <1>1 DEF View, AllRecords

\* Records are of type Record.
LEMMA RecordsTyped ==
    ASSUME TypeOK
    PROVE  AllRecords \subseteq Record
  BY DEF TypeOK, AllRecords, OwnRecords, Prefix

\* A handler that finds what it wants starts one call of its own desktop, at its first
\* await, and changes nothing else.
LEMMA HandleStarts ==
    ASSUME TypeInv, NEW m \in Member, NEW s \in Lane, Handle(m, s)
    PROVE  \E c \in Call :
              /\ c.member = m
              /\ WellShaped(c)
              /\ c.op \in {"propose", "accept"} \/ c.step = "enter"
              /\ calls' = calls \cup {c}
              /\ UNCHANGED <<feed, replica, known, busy>>
<1> DEFINE rs == View(m)
<1>1. rs \subseteq AllRecords /\ rs \subseteq Record /\ \A r \in rs : WellKinded(r)
  BY ViewPublished, RecordsTyped DEF TypeInv
<1>2. \A p : Attested(rs, p) \subseteq Member
  BY <1>1 DEF Attested, About, Record
<1> HIDE DEF rs
<1>3. ASSUME NEW op \in {"close", "propose", "accept", "ack", "advance"},
             NEW x \in Listing \cup Proposal, NEW terms \in ProposalTerms \cup {NoTerms},
             NEW att \in SUBSET Member, NEW step \in {"enter", "append"},
             IF op = "close" THEN x \in Listing /\ terms = NoTerms
                             ELSE x \in Proposal /\ terms \in ProposalTerms,
             IF op \in {"propose", "accept"} THEN step = "append" ELSE step = "enter",
             StartCall(m, s, op, x, terms, att, step)
      PROVE  \E c \in Call :
                /\ c.member = m
                /\ WellShaped(c)
                /\ c.op \in {"propose", "accept"} \/ c.step = "enter"
                /\ calls' = calls \cup {c}
                /\ UNCHANGED <<feed, replica, known, busy>>
  <2> DEFINE c == [member |-> m, slot |-> s, op |-> op, subject |-> x, terms |-> terms,
                   attested |-> att, step |-> step]
  <2>1. c \in Call
    BY DEF Call, Guarded
  <2>2. WellShaped(c)
    BY <1>3 DEF WellShaped
  <2>3. calls' = calls \cup {c} /\ UNCHANGED <<feed, replica, known, busy>>
    BY <1>3 DEF StartCall
  <2> QED
    BY <2>1, <2>2, <2>3, <1>3
<1>4. CASE CloseListing(m, s, rs)
  <2>1. PICK l \in PublishedListings(rs) : StartCall(m, s, "close", l.subject, NoTerms, {}, "enter")
    BY <1>4 DEF CloseListing
  <2>2. l.subject \in Listing
    BY <1>1 DEF PublishedListings, OfKind, WellKinded
  <2> QED
    BY <2>1, <2>2, <1>3
<1>5. CASE CreateProposal(m, s, rs)
  <2>1. PICK p \in Proposal, o \in PublishedListings(rs), q \in PublishedListings(rs) :
             \E minutes \in 1 .. o.terms.minutes :
                /\ m \in {o.author, q.author}
                /\ StartCall(m, s, "propose", p,
                     [offer |-> o.subject, request |-> q.subject, provider |-> o.author,
                      recipient |-> q.author, creator |-> m, minutes |-> minutes],
                     {}, "append")
    BY <1>5 DEF CreateProposal
  <2>2. /\ o \in Record /\ o.subject \in Listing /\ o.terms \in ListingTerms
        /\ q \in Record /\ q.subject \in Listing
    BY <1>1 DEF PublishedListings, OfKind, WellKinded
  <2>3. o.terms.minutes \in Nat /\ o.author \in Member /\ q.author \in Member
    BY <2>2 DEF ListingTerms, Record
  <2>4. PICK minutes \in 1 .. o.terms.minutes :
                StartCall(m, s, "propose", p,
                     [offer |-> o.subject, request |-> q.subject, provider |-> o.author,
                      recipient |-> q.author, creator |-> m, minutes |-> minutes],
                     {}, "append")
    BY <2>1
  <2>5. [offer |-> o.subject, request |-> q.subject, provider |-> o.author,
         recipient |-> q.author, creator |-> m, minutes |-> minutes] \in ProposalTerms
    BY <2>2, <2>3 DEF ProposalTerms
  <2> QED
    BY <2>4, <2>5, <1>3
<1>6. CASE AcceptProposal(m, s, rs)
  <2>1. PICK r \in OfKind(rs, "proposed") : StartCall(m, s, "accept", r.subject, r.terms, {}, "append")
    BY <1>6 DEF AcceptProposal
  <2>2. r.subject \in Proposal /\ r.terms \in ProposalTerms
    BY <1>1 DEF OfKind, WellKinded
  <2> QED
    BY <2>1, <2>2, <1>3
<1>7. CASE AcknowledgeSettlement(m, s, rs)
  <2>1. PICK a \in OfKind(rs, "accepted") : StartCall(m, s, "ack", a.subject, a.terms, {}, "enter")
    BY <1>7 DEF AcknowledgeSettlement
  <2>2. a.subject \in Proposal /\ a.terms \in ProposalTerms
    BY <1>1 DEF OfKind, WellKinded
  <2> QED
    BY <2>1, <2>2, <1>3
<1>8. CASE AdvanceSettlement(m, s, rs)
  <2>1. PICK a \in OfKind(rs, "accepted") :
            StartCall(m, s, "advance", a.subject, a.terms, Attested(rs, a.subject), "enter")
    BY <1>8 DEF AdvanceSettlement
  <2>2. a.subject \in Proposal /\ a.terms \in ProposalTerms
    BY <1>1 DEF OfKind, WellKinded
  <2>3. Attested(rs, a.subject) \in SUBSET Member
    BY <1>2
  <2> QED
    BY <2>1, <2>2, <2>3, <1>3
<1> QED
  BY <1>4, <1>5, <1>6, <1>7, <1>8 DEF Handle, rs

\* What a call appends has the type its kind calls for.
LEMMA AppendedTyped ==
    ASSUME TypeInv, NEW c \in calls
    PROVE  /\ c.member \in Member
           /\ c.step = "append" =>
                LET r == NewRecord(c.member, Written(c.op), c.subject, c.terms, Carried(c))
                IN  r \in Record /\ WellKinded(r)
           /\ c.step = "attest" =>
                LET r == NewRecord(c.member, "attestation", c.subject, c.terms, {})
                IN  r \in Record /\ WellKinded(r)
<1>1. c \in Call /\ WellShaped(c) /\ feed \in [Member -> Seq(Record)]
  BY DEF TypeInv, TypeOK
<1>2. c.member \in Member /\ c.attested \subseteq Member /\ Len(feed[c.member]) + 1 \in Nat
  BY <1>1 DEF Call
<1>3. Carried(c) \subseteq Member
  BY <1>2 DEF Carried
<1>4. c.op \in {"close", "ack", "advance", "propose", "accept"} /\ c.subject \in Listing \cup Proposal
      /\ c.terms \in ProposalTerms \cup {NoTerms}
  BY <1>1 DEF Call, Guarded
<1>5. Written(c.op) \in Kinds \ {"listing"} /\ (Written(c.op) = "closure" <=> c.op = "close")
  BY <1>4 DEF Written, Kinds
<1>6. NewRecord(c.member, Written(c.op), c.subject, c.terms, Carried(c)) \in Record
  BY <1>2, <1>3, <1>4, <1>5 DEF NewRecord, Record
<1>7. WellKinded(NewRecord(c.member, Written(c.op), c.subject, c.terms, Carried(c)))
  BY <1>1, <1>4, <1>5 DEF NewRecord, WellKinded, WellShaped
<1>8. c.step = "attest" => NewRecord(c.member, "attestation", c.subject, c.terms, {}) \in Record
  BY <1>2, <1>4 DEF NewRecord, Record, Kinds
<1>9. c.step = "attest" => WellKinded(NewRecord(c.member, "attestation", c.subject, c.terms, {}))
  BY <1>1, <1>4 DEF NewRecord, WellKinded, WellShaped
<1> QED
  BY <1>2, <1>6, <1>7, <1>8, <1>9

\* Moving a call to a later step keeps it a well-shaped call.
LEMMA GoToTyped ==
    ASSUME TypeInv, NEW c \in calls, NEW step \in {"attest", "recheck", "append"},
           c.op \in {"propose", "accept"} => step = "append",
           c.op = "close" => step = "append",
           c.op = "ack" => step \in {"recheck", "append"},
           GoTo(c, step)
    PROVE  calls' \subseteq Call /\ \A d \in calls' : WellShaped(d)
<1>1. c \in Call /\ WellShaped(c) /\ calls \subseteq Call
  BY DEF TypeInv, TypeOK
<1>2. [c EXCEPT !.step = step] \in Call
  BY <1>1 DEF Call
<1>3. WellShaped([c EXCEPT !.step = step])
  BY <1>1 DEF WellShaped, Call
<1> QED
  BY <1>1, <1>2, <1>3 DEF GoTo, TypeInv

\* Guards of well-shaped guarded calls are guards.
LEMMA GuardTyped ==
    ASSUME TypeInv, NEW c \in calls, c.op \in Guarded
    PROVE  GuardOf(c) \in Guard
<1>1. c \in Call /\ WellShaped(c)
  BY DEF TypeInv, TypeOK
<1> QED
  BY <1>1 DEF Call, WellShaped, Guard, GuardOf, Guarded

\* Every step of a desktop, of the network and of a restart keeps the types.
LEMMA TypeStep == TypeInv /\ [Next]_vars => TypeInv'
<1> SUFFICES ASSUME TypeInv, [Next]_vars PROVE TypeInv'
  OBVIOUS
<1>0. /\ feed \in [Member -> Seq(Record)]
      /\ replica \in [Member -> [Member -> Nat]]
      /\ \A v, m \in Member : replica[v][m] <= Len(feed[m])
      /\ known \subseteq Member \X Member
      /\ calls \subseteq Call
      /\ busy \subseteq Guard
      /\ \A r \in AllRecords : WellKinded(r)
      /\ \A c \in calls : WellShaped(c)
      /\ TypeOK
  BY DEF TypeInv, TypeOK
<1>1. ASSUME UNCHANGED feed, UNCHANGED replica, known' \subseteq Member \X Member,
             calls' \subseteq Call, \A c \in calls' : WellShaped(c), busy' \subseteq Guard
      PROVE  TypeInv'
  <2>1. AllRecords' = AllRecords
    BY <1>1, SameFeedsSameRecords
  <2> QED
    BY <1>0, <1>1, <2>1 DEF TypeInv, TypeOK, WellKinded
<1>2. ASSUME NEW m \in Member, NEW kind, NEW x, NEW terms, NEW by,
             NewRecord(m, kind, x, terms, by) \in Record,
             WellKinded(NewRecord(m, kind, x, terms, by)),
             AppendRecord(m, kind, x, terms, by),
             UNCHANGED replica, UNCHANGED known,
             calls' \subseteq Call, \A c \in calls' : WellShaped(c), busy' \subseteq Guard
      PROVE  TypeInv'
  <2>1. /\ feed' \in [Member -> Seq(Record)]
        /\ \A n \in Member : Len(feed'[n]) >= Len(feed[n])
    BY <1>0, <1>2, AppendAddsOwn
  <2>2. AllRecords' = AllRecords \cup {NewRecord(m, kind, x, terms, by)}
    BY <1>0, <1>2, AppendAddsAll
  <2>3. \A v, n \in Member : replica'[v][n] <= Len(feed'[n])
    <3> SUFFICES ASSUME NEW v \in Member, NEW n \in Member PROVE replica'[v][n] <= Len(feed'[n])
      OBVIOUS
    <3>1. replica[v][n] \in Nat /\ Len(feed[n]) \in Nat /\ Len(feed'[n]) \in Nat
      BY <1>0, <2>1
    <3> QED
      BY <1>0, <1>2, <2>1, <3>1
  <2>4. TypeOK'
    BY <1>0, <1>2, <2>1, <2>3 DEF TypeOK
  <2>5. \A r \in AllRecords' : WellKinded(r)
    BY <1>0, <1>2, <2>2
  <2> QED
    BY <1>2, <2>4, <2>5 DEF TypeInv
<1>3. ASSUME NEW c \in calls, Finish(c)
      PROVE  /\ calls' \subseteq Call
             /\ \A d \in calls' : WellShaped(d)
             /\ busy' \subseteq Guard
  BY <1>0, <1>3 DEF Finish
<1>4. ASSUME NEW m \in Member, PublishListing(m) PROVE TypeInv'
  <2>1. PICK input \in Catalogue :
            /\ AppendRecord(m, "listing", input.id, [side |-> input.side, minutes |-> input.minutes], {})
            /\ UNCHANGED <<replica, known, calls, busy>>
    BY <1>4 DEF PublishListing
  <2> DEFINE terms == [side |-> input.side, minutes |-> input.minutes]
  <2>2. terms \in ListingTerms /\ input.id \in Listing
    BY CatalogueType DEF ListingTerms
  <2>3. Len(feed[m]) + 1 \in Nat
    BY <1>0
  <2> HIDE DEF terms
  <2>4. NewRecord(m, "listing", input.id, terms, {}) \in Record
    BY <2>2, <2>3 DEF NewRecord, Record, Kinds
  <2>5. WellKinded(NewRecord(m, "listing", input.id, terms, {}))
    BY <2>2 DEF NewRecord, WellKinded
  <2> QED
    BY <1>0, <1>2, <2>1, <2>4, <2>5 DEF terms
<1>5. ASSUME NEW m \in Member, Restart(m) PROVE TypeInv'
  BY <1>0, <1>1, <1>5 DEF Restart
<1>6. ASSUME NEW slot \in Slot, Handle(slot[1], slot[2]) PROVE TypeInv'
  <2>1. slot[1] \in Member /\ slot[2] \in Lane
    BY SlotType
  <2>2. PICK c \in Call : /\ WellShaped(c)
                          /\ calls' = calls \cup {c}
                          /\ UNCHANGED <<feed, replica, known, busy>>
    BY <1>6, <2>1, HandleStarts
  <2> QED
    BY <1>0, <1>1, <2>2
<1>7. ASSUME NEW c \in calls, LeaveAtOnce(c) PROVE TypeInv'
  BY <1>0, <1>1, <1>7 DEF LeaveAtOnce
<1>8. ASSUME NEW c \in calls, Enter(c) PROVE TypeInv'
  <2>1. c \in Call /\ WellShaped(c) /\ c.step = "enter"
    BY <1>0, <1>8 DEF Enter
  <2>2. c.op \in Guarded
    BY <2>1 DEF Call, WellShaped
  <2>3. /\ AfterEnter(c) \in {"attest", "recheck", "append"}
        /\ c.op = "close" => AfterEnter(c) = "append"
        /\ c.op = "ack" => AfterEnter(c) \in {"recheck", "append"}
    BY <2>2 DEF Guarded, AfterEnter
  <2>4. calls' \subseteq Call /\ \A d \in calls' : WellShaped(d)
    BY <1>8, <2>2, <2>3, GoToTyped DEF Enter, Guarded
  <2>5. busy' \subseteq Guard
    BY <1>0, <1>8, <2>2, GuardTyped DEF Enter
  <2> QED
    BY <1>0, <1>1, <1>8, <2>4, <2>5 DEF Enter
<1>9. ASSUME NEW c \in calls, Attest(c) PROVE TypeInv'
  <2>1. c \in Call /\ WellShaped(c) /\ c.step = "attest"
    BY <1>0, <1>9 DEF Attest
  <2>2. c.op = "advance"
    BY <2>1 DEF Call, WellShaped, Guarded
  <2>3. /\ calls' \subseteq Call
        /\ \A d \in calls' : WellShaped(d)
        /\ busy' \subseteq Guard
    <3>1. CASE DualAttested(c)
      BY <1>0, <1>9, <2>2, <3>1, GoToTyped DEF Attest
    <3>2. CASE ~DualAttested(c)
      BY <1>3, <1>9, <3>2 DEF Attest
    <3> QED
      BY <3>1, <3>2
  <2> QED
    BY <1>2, <1>9, <2>1, <2>3, AppendedTyped DEF Attest
<1>10. ASSUME NEW c \in calls, Recheck(c) PROVE TypeInv'
  <2>1. /\ calls' \subseteq Call
        /\ \A d \in calls' : WellShaped(d)
        /\ busy' \subseteq Guard
    <3>1. CASE AlreadyWritten(c)
      BY <1>3, <1>10, <3>1 DEF Recheck
    <3>2. CASE ~AlreadyWritten(c)
      BY <1>0, <1>10, <3>2, GoToTyped DEF Recheck
    <3> QED
      BY <3>1, <3>2
  <2> QED
    BY <1>0, <1>1, <1>10, <2>1 DEF Recheck
<1>11. ASSUME NEW c \in calls, AppendFinal(c) PROVE TypeInv'
  <2>1. c.step = "append" /\ Finish(c) /\ UNCHANGED <<replica, known>>
        /\ AppendRecord(c.member, Written(c.op), c.subject, c.terms, Carried(c))
    BY <1>11 DEF AppendFinal
  <2> QED
    BY <1>2, <1>3, <2>1, AppendedTyped
<1>12. ASSUME NEW c \in calls, FeedFails(c) PROVE TypeInv'
  BY <1>0, <1>1, <1>3, <1>12 DEF FeedFails
<1>13. ASSUME NEW v \in Member, NEW m \in Member, Replicate(v, m) PROVE TypeInv'
  <2>1. replica[v][m] < Len(feed[m]) /\ replica' = [replica EXCEPT ![v][m] = replica[v][m] + 1]
        /\ UNCHANGED <<feed, known, calls, busy>>
    BY <1>13 DEF Replicate
  <2>2. replica' \in [Member -> [Member -> Nat]]
    BY <1>0, <2>1
  <2>3. ASSUME NEW w \in Member, NEW n \in Member PROVE replica'[w][n] <= Len(feed'[n])
    <3>1. replica[w][n] \in Nat /\ Len(feed[n]) \in Nat /\ replica[w][n] <= Len(feed[n])
      BY <1>0
    <3> QED
      BY <1>0, <2>1, <3>1
  <2>4. AllRecords' = AllRecords
    BY <2>1, SameFeedsSameRecords
  <2> QED
    BY <1>0, <2>1, <2>2, <2>3, <2>4 DEF TypeInv, TypeOK
<1>14. ASSUME NEW v \in Member, NEW m \in Member, Learn(v, m) PROVE TypeInv'
  <2>1. known' = known \cup {<<v, m>>} /\ UNCHANGED <<feed, replica, calls, busy>>
    BY <1>14 DEF Learn
  <2>2. known' \subseteq Member \X Member
    BY <1>0, <2>1
  <2> QED
    BY <1>0, <1>1, <2>1, <2>2
<1>15. ASSUME NEW v \in Member, NEW m \in Member, Expire(v, m) PROVE TypeInv'
  BY <1>0, <1>1, <1>15 DEF Expire
<1>16. CASE UNCHANGED vars
  BY <1>0, <1>1, <1>16 DEF vars
<1> QED
  BY <1>4, <1>5, <1>6, <1>7, <1>8, <1>9, <1>10, <1>11, <1>12, <1>13, <1>14, <1>15, <1>16
  DEF Next, ContinueCall

\* TypeInv is an invariant of Exchange.
LEMMA TypeInvariant == Spec => []TypeInv
<1>1. Init => TypeInv
  <2> SUFFICES ASSUME Init PROVE TypeInv
    OBVIOUS
  <2>1. \A m \in Member : feed[m] = <<>>
    BY DEF Init
  <2>2. AllRecords = {}
    BY <2>1 DEF AllRecords, OwnRecords, Prefix
  <2>3. TypeOK
    BY <2>1 DEF Init, TypeOK
  <2> QED
    BY <2>2, <2>3 DEF Init, TypeInv
<1> QED
  BY <1>1, TypeStep, PTL DEF Spec

\* Type correctness: whatever the desktops, the network and restarts do, feeds hold
\* records, calls and guards have their shapes, and no desktop has replicated a record
\* that has not been appended.
THEOREM ExchangeTypeCorrect == Spec => []TypeOK
  BY TypeInvariant, PTL DEF TypeInv

----------------------------------------------------------------------------
(***************************************************************************)
(* The in-progress sets.                                                   *)
(***************************************************************************)

Running(c) == c.op \in Guarded /\ c.step # "enter"

\* Every step keeps the guards exact.  A step is one of four kinds: it leaves running
\* calls and guards alone, starts to run a call whose guard is free, moves a running call
\* on, or ends calls together with their guards.
LEMMA GuardStep == TypeInv /\ InProgressExact /\ [Next]_vars => InProgressExact'
<1> SUFFICES ASSUME TypeInv, InProgressExact, [Next]_vars PROVE InProgressExact'
  OBVIOUS
<1>0. /\ calls \subseteq Call
      /\ \A c \in calls : WellShaped(c)
      /\ busy = {GuardOf(c) : c \in {d \in calls : Running(d)}}
      /\ \A c, d \in calls : Running(c) /\ Running(d) /\ GuardOf(c) = GuardOf(d) => c = d
  BY DEF TypeInv, TypeOK, InProgressExact, Running
<1>1. ASSUME busy' = {GuardOf(c) : c \in {d \in calls' : Running(d)}},
             \A c, d \in calls' : Running(c) /\ Running(d) /\ GuardOf(c) = GuardOf(d) => c = d
      PROVE  InProgressExact'
  BY <1>1 DEF InProgressExact, Running, GuardOf
<1>2. ASSUME UNCHANGED busy, {d \in calls' : Running(d)} = {d \in calls : Running(d)}
      PROVE  InProgressExact'
  BY <1>0, <1>1, <1>2
<1>3. ASSUME NEW c \in calls, Finish(c), c.step # "enter"
      PROVE  InProgressExact'
  <2>1. calls' = calls \ {c} /\ busy' = busy \ {GuardOf(c)}
    BY <1>3 DEF Finish
  <2>2. \A d \in calls : Running(d) /\ GuardOf(d) = GuardOf(c) => Running(c) /\ d = c
    BY <1>0, <1>3 DEF Running, GuardOf
  <2> QED
    BY <1>0, <1>1, <2>1, <2>2
<1>4. ASSUME NEW c \in calls, NEW step, step # "enter", GoTo(c, step), Running(c), UNCHANGED busy
      PROVE  InProgressExact'
  <2> DEFINE e == [c EXCEPT !.step = step]
  <2>1. calls' = (calls \ {c}) \cup {e}
    BY <1>4 DEF GoTo
  <2>2. Running(e) /\ GuardOf(e) = GuardOf(c)
    BY <1>0, <1>4 DEF Running, GuardOf, Call
  <2> HIDE DEF e
  <2>3. busy' = {GuardOf(d) : d \in {d \in calls' : Running(d)}}
    BY <1>0, <1>4, <2>1, <2>2
  <2>4. \A a, b \in calls' : Running(a) /\ Running(b) /\ GuardOf(a) = GuardOf(b) => a = b
    BY <1>0, <1>4, <2>1, <2>2
  <2> QED
    BY <1>1, <2>3, <2>4
<1>5. ASSUME NEW m \in Member, PublishListing(m) PROVE InProgressExact'
  BY <1>2, <1>5 DEF PublishListing
<1>6. ASSUME NEW m \in Member, Restart(m) PROVE InProgressExact'
  <2>1. calls' = {c \in calls : c.member # m} /\ busy' = {g \in busy : g.member # m}
    BY <1>6 DEF Restart
  <2>2. \A c \in calls : GuardOf(c).member = c.member
    BY DEF GuardOf
  <2> QED
    BY <1>0, <1>1, <2>1, <2>2
<1>7. ASSUME NEW slot \in Slot, Handle(slot[1], slot[2]) PROVE InProgressExact'
  <2>1. slot[1] \in Member /\ slot[2] \in Lane
    BY SlotType
  <2>2. PICK c \in Call : /\ c.op \in {"propose", "accept"} \/ c.step = "enter"
                          /\ calls' = calls \cup {c}
                          /\ UNCHANGED <<feed, replica, known, busy>>
    BY <1>7, <2>1, HandleStarts
  <2>3. ~Running(c)
    BY <2>2 DEF Running, Guarded
  <2> QED
    BY <1>2, <2>2, <2>3
<1>8. ASSUME NEW c \in calls, LeaveAtOnce(c) PROVE InProgressExact'
  <2>1. ~Running(c) /\ calls' = calls \ {c} /\ UNCHANGED busy
    BY <1>8 DEF LeaveAtOnce, Running
  <2> QED
    BY <1>2, <2>1
<1>9. ASSUME NEW c \in calls, Enter(c) PROVE InProgressExact'
  <2>1. /\ c \in Call /\ WellShaped(c) /\ c.step = "enter" /\ GuardOf(c) \notin busy
        /\ busy' = busy \cup {GuardOf(c)}
        /\ GoTo(c, AfterEnter(c))
    BY <1>0, <1>9 DEF Enter
  <2>2. c.op \in Guarded
    BY <2>1 DEF Call, WellShaped
  <2>3. AfterEnter(c) # "enter"
    BY <2>2 DEF Guarded, AfterEnter
  <2> DEFINE e == [c EXCEPT !.step = AfterEnter(c)]
  <2>4. calls' = (calls \ {c}) \cup {e}
    BY <2>1 DEF GoTo
  <2>5. Running(e) /\ GuardOf(e) = GuardOf(c) /\ ~Running(c)
    BY <2>1, <2>2, <2>3 DEF Running, GuardOf, Call
  <2> HIDE DEF e
  <2>6. \A d \in calls : Running(d) => GuardOf(d) # GuardOf(e)
    BY <1>0, <2>1, <2>5
  <2>7. busy' = {GuardOf(d) : d \in {d \in calls' : Running(d)}}
    BY <1>0, <2>1, <2>4, <2>5
  <2>8. \A a, b \in calls' : Running(a) /\ Running(b) /\ GuardOf(a) = GuardOf(b) => a = b
    BY <1>0, <2>4, <2>5, <2>6
  <2> QED
    BY <1>1, <2>7, <2>8
<1>10. ASSUME NEW c \in calls, Attest(c) PROVE InProgressExact'
  <2>1. c.step = "attest" /\ c.op = "advance"
    BY <1>0, <1>10 DEF Attest, Call, WellShaped, Guarded
  <2>2. CASE DualAttested(c)
    BY <1>4, <1>10, <2>1, <2>2 DEF Attest, Running, Guarded
  <2>3. CASE ~DualAttested(c)
    BY <1>3, <1>10, <2>1, <2>3 DEF Attest
  <2> QED
    BY <2>2, <2>3
<1>11. ASSUME NEW c \in calls, Recheck(c) PROVE InProgressExact'
  <2>1. c.step = "recheck" /\ Running(c)
    BY <1>0, <1>11 DEF Recheck, Call, WellShaped, Guarded, Running
  <2>2. CASE AlreadyWritten(c)
    BY <1>3, <1>11, <2>1, <2>2 DEF Recheck
  <2>3. CASE ~AlreadyWritten(c)
    BY <1>4, <1>11, <2>1, <2>3 DEF Recheck
  <2> QED
    BY <2>2, <2>3
<1>12. ASSUME NEW c \in calls, AppendFinal(c) PROVE InProgressExact'
  BY <1>3, <1>12 DEF AppendFinal
<1>13. ASSUME NEW c \in calls, FeedFails(c) PROVE InProgressExact'
  BY <1>3, <1>13 DEF FeedFails
<1>14. ASSUME NEW v \in Member, NEW m \in Member, Replicate(v, m) \/ Learn(v, m) \/ Expire(v, m)
       PROVE  InProgressExact'
  BY <1>2, <1>14 DEF Replicate, Learn, Expire
<1>15. CASE UNCHANGED vars
  BY <1>2, <1>15 DEF vars
<1> QED
  BY <1>5, <1>6, <1>7, <1>8, <1>9, <1>10, <1>11, <1>12, <1>13, <1>14, <1>15
  DEF Next, ContinueCall

\* The in-progress sets of every desktop hold exactly the guarded calls that are running:
\* for any number of concurrent calls, failing appends and restarts included.
THEOREM GuardsAlwaysExact == Spec => []InProgressExact
<1>1. Init => InProgressExact
  BY DEF Init, InProgressExact
<1> QED
  BY <1>1, TypeInvariant, GuardStep, PTL DEF Spec

----------------------------------------------------------------------------
(***************************************************************************)
(* Acknowledgements and transfers are appended once per feed.  A call that *)
(* has read its feed again and is about to append holds the only guard of  *)
(* its proposal, so what it read is still so when it appends.              *)
(***************************************************************************)

OnceKind == {"ack", "transfer"}

OncePerFeed ==
    \A m \in Member, p \in Proposal, kind \in OnceKind :
        \A r, s \in About(OwnRecords(m), kind, p) : r = s

RecheckStillTrue ==
    \A c \in calls : c.op \in {"ack", "advance"} /\ c.step = "append" => ~AlreadyWritten(c)

OnceInv == OncePerFeed /\ RecheckStillTrue

\* A step that leaves the feeds alone and lets no call reach its append keeps OnceInv.
LEMMA OnceUnlessAppended ==
    ASSUME TypeInv, OnceInv, UNCHANGED feed, calls' \subseteq Call,
           \A c \in calls' : \/ c \in calls
                             \/ c.op \notin {"ack", "advance"}
                             \/ c.step # "append"
                             \/ ~AlreadyWritten(c)
    PROVE  OnceInv'
<1>1. \A m \in Member : OwnRecords(m)' = OwnRecords(m)
  BY SameFeedsSameRecords
<1>2. OncePerFeed'
  BY <1>1 DEF OnceInv, OncePerFeed, About
<1>3. \A c \in calls' : AlreadyWritten(c)' <=> AlreadyWritten(c)
  BY <1>1 DEF AlreadyWritten, About, Call
<1>4. RecheckStillTrue'
  BY <1>3 DEF OnceInv, RecheckStillTrue
<1> QED
  BY <1>2, <1>4 DEF OnceInv

\* An append keeps OnceInv when no record of its kind and subject is in the feed yet and
\* no other call of the desktop is about to append the same.
LEMMA OnceAppended ==
    ASSUME TypeInv, OnceInv, NEW m \in Member, NEW kind, NEW x, NEW terms, NEW by,
           NewRecord(m, kind, x, terms, by) \in Record,
           AppendRecord(m, kind, x, terms, by),
           kind \in OnceKind => About(OwnRecords(m), kind, x) = {},
           calls' \subseteq Call,
           \A c \in calls' :
              c.op \in {"ack", "advance"} /\ c.step = "append" =>
                 /\ c \in calls
                 /\ ~(c.member = m /\ c.subject = x /\ Written(c.op) = kind)
    PROVE  OnceInv'
<1> DEFINE r == NewRecord(m, kind, x, terms, by)
<1>1. /\ OwnRecords(m)' = OwnRecords(m) \cup {r}
      /\ \A n \in Member : n # m => OwnRecords(n)' = OwnRecords(n)
  BY AppendAddsOwn DEF TypeInv
<1>2. r.kind = kind /\ r.subject = x
  BY DEF NewRecord
<1> HIDE DEF r
<1>3. ASSUME NEW n \in Member, NEW k, NEW p, ~(n = m /\ k = kind /\ p = x)
      PROVE  About(OwnRecords(n)', k, p) = About(OwnRecords(n), k, p)
  BY <1>1, <1>2, <1>3 DEF About
<1>4. kind \in OnceKind => About(OwnRecords(m)', kind, x) = {r}
  BY <1>1, <1>2 DEF About
<1>5. OncePerFeed'
  <2> SUFFICES ASSUME NEW n \in Member, NEW p \in Proposal, NEW k \in OnceKind
               PROVE  \A a, b \in About(OwnRecords(n)', k, p) : a = b
    BY DEF OncePerFeed, About
  <2>1. CASE n = m /\ k = kind /\ p = x
    BY <1>4, <2>1
  <2>2. CASE ~(n = m /\ k = kind /\ p = x)
    BY <1>3, <2>2 DEF OnceInv, OncePerFeed
  <2> QED
    BY <2>1, <2>2
<1>6. RecheckStillTrue'
  <2> SUFFICES ASSUME NEW c \in calls', c.op \in {"ack", "advance"}, c.step = "append"
               PROVE  ~AlreadyWritten(c)'
    BY DEF RecheckStillTrue
  <2>1. c.member \in Member /\ c \in calls /\ ~AlreadyWritten(c)
    BY DEF Call, OnceInv, RecheckStillTrue
  <2>2. About(OwnRecords(c.member)', Written(c.op), c.subject)
           = About(OwnRecords(c.member), Written(c.op), c.subject)
    BY <1>3, <2>1
  <2> QED
    BY <2>1, <2>2 DEF AlreadyWritten, About
<1> QED
  BY <1>5, <1>6 DEF OnceInv

\* Every step keeps OnceInv.
LEMMA OnceStep == TypeInv /\ TypeInv' /\ InProgressExact /\ OnceInv /\ [Next]_vars => OnceInv'
<1> SUFFICES ASSUME TypeInv, TypeInv', InProgressExact, OnceInv, [Next]_vars PROVE OnceInv'
  OBVIOUS
<1>0. /\ calls \subseteq Call
      /\ calls' \subseteq Call
      /\ \A c \in calls : WellShaped(c)
      /\ \A c, d \in calls : Running(c) /\ Running(d) /\ GuardOf(c) = GuardOf(d) => c = d
  BY DEF TypeInv, TypeOK, InProgressExact, Running
<1>1. ASSUME UNCHANGED feed, calls' \subseteq calls PROVE OnceInv'
  BY <1>0, <1>1, OnceUnlessAppended
<1>2. ASSUME NEW c \in calls, GoTo(c, "recheck") \/ GoTo(c, "attest") \/ c.op = "close",
             NEW step, GoTo(c, step), UNCHANGED feed
      PROVE  OnceInv'
  <2>1. calls' = (calls \ {c}) \cup {[c EXCEPT !.step = step]} /\ c \in Call
    BY <1>0, <1>2 DEF GoTo
  <2>2. [c EXCEPT !.step = step].op = c.op /\ [c EXCEPT !.step = step].step = step
    BY <2>1 DEF Call
  <2>3. CASE step # "append"
    BY <1>0, <1>2, <2>1, <2>2, <2>3, OnceUnlessAppended
  <2>4. CASE c.op = "close"
    BY <1>0, <1>2, <2>1, <2>2, <2>4, OnceUnlessAppended
  <2>5. CASE step = "append" /\ c.op # "close"
    <3>1. PICK other \in {"recheck", "attest"} : GoTo(c, other)
      BY <1>2, <2>5
    <3>2. [c EXCEPT !.step = step].step = "append" /\ [c EXCEPT !.step = other].step = other
      BY <2>1, <2>5 DEF Call
    <3>3. [c EXCEPT !.step = step] \in calls
      BY <2>1, <3>1, <3>2 DEF GoTo
    <3> QED
      BY <1>0, <1>2, <2>1, <3>3, OnceUnlessAppended
  <2> QED
    BY <2>3, <2>4, <2>5
<1>3. ASSUME NEW m \in Member, PublishListing(m) PROVE OnceInv'
  <2>1. PICK input \in Catalogue :
            /\ AppendRecord(m, "listing", input.id, [side |-> input.side, minutes |-> input.minutes], {})
            /\ UNCHANGED <<replica, known, calls, busy>>
    BY <1>3 DEF PublishListing
  <2> DEFINE terms == [side |-> input.side, minutes |-> input.minutes]
  <2>2. terms \in ListingTerms /\ input.id \in Listing
    BY CatalogueType DEF ListingTerms
  <2>3. Len(feed[m]) + 1 \in Nat
    BY DEF TypeInv, TypeOK
  <2> HIDE DEF terms
  <2>4. NewRecord(m, "listing", input.id, terms, {}) \in Record
    BY <2>2, <2>3 DEF NewRecord, Record, Kinds
  <2>5. \A c \in calls : c.op \in {"ack", "advance"} => Written(c.op) # "listing"
    BY DEF Written
  <2> QED
    BY <1>0, <2>1, <2>4, <2>5, OnceAppended DEF terms, OnceKind
<1>4. ASSUME NEW m \in Member, Restart(m) PROVE OnceInv'
  BY <1>1, <1>4 DEF Restart
<1>5. ASSUME NEW slot \in Slot, Handle(slot[1], slot[2]) PROVE OnceInv'
  <2>1. slot[1] \in Member /\ slot[2] \in Lane
    BY SlotType
  <2>2. PICK c \in Call : /\ c.op \in {"propose", "accept"} \/ c.step = "enter"
                          /\ calls' = calls \cup {c}
                          /\ UNCHANGED <<feed, replica, known, busy>>
    BY <1>5, <2>1, HandleStarts
  <2> QED
    BY <1>0, <2>2, OnceUnlessAppended
<1>6. ASSUME NEW c \in calls, LeaveAtOnce(c) PROVE OnceInv'
  BY <1>1, <1>6 DEF LeaveAtOnce
<1>7. ASSUME NEW c \in calls, Enter(c) PROVE OnceInv'
  <2>1. c \in Call /\ WellShaped(c) /\ c.step = "enter" /\ GoTo(c, AfterEnter(c)) /\ UNCHANGED feed
    BY <1>0, <1>7 DEF Enter
  <2>2. c.op \in Guarded
    BY <2>1 DEF Call, WellShaped
  <2>3. AfterEnter(c) \in {"recheck", "attest"} \/ c.op = "close"
    BY <2>2 DEF Guarded, AfterEnter
  <2> QED
    BY <1>2, <2>1, <2>3
<1>8. ASSUME NEW c \in calls, Attest(c) PROVE OnceInv'
  <2>1. /\ AppendRecord(c.member, "attestation", c.subject, c.terms, {})
        /\ c.step = "attest" /\ c \in Call
    BY <1>0, <1>8 DEF Attest
  <2>2. c.member \in Member /\ NewRecord(c.member, "attestation", c.subject, c.terms, {}) \in Record
    BY <2>1, AppendedTyped
  <2>3. \A d \in calls' : d.op \in {"ack", "advance"} /\ d.step = "append" => d \in calls
    BY <1>8, <2>1 DEF Attest, GoTo, Finish, Call
  <2>4. \A d \in calls' : d.op \in {"ack", "advance"} => Written(d.op) # "attestation"
    BY DEF Written
  <2> QED
    BY <1>0, <2>1, <2>2, <2>3, <2>4, OnceAppended DEF OnceKind
<1>9. ASSUME NEW c \in calls, Recheck(c) PROVE OnceInv'
  <2>1. CASE AlreadyWritten(c)
    BY <1>1, <1>9, <2>1 DEF Recheck, Finish
  <2>2. CASE ~AlreadyWritten(c)
    <3>1. calls' = (calls \ {c}) \cup {[c EXCEPT !.step = "append"]} /\ UNCHANGED feed /\ c \in Call
      BY <1>0, <1>9, <2>2 DEF Recheck, GoTo
    <3>2. ~AlreadyWritten([c EXCEPT !.step = "append"])
      BY <2>2, <3>1 DEF AlreadyWritten, Call
    <3> QED
      BY <1>0, <3>1, <3>2, OnceUnlessAppended
  <2> QED
    BY <2>1, <2>2
<1>10. ASSUME NEW c \in calls, AppendFinal(c) PROVE OnceInv'
  <2>1. /\ c.step = "append" /\ calls' = calls \ {c}
        /\ AppendRecord(c.member, Written(c.op), c.subject, c.terms, Carried(c))
        /\ c \in Call
    BY <1>0, <1>10 DEF AppendFinal, Finish
  <2>2. /\ c.member \in Member
        /\ NewRecord(c.member, Written(c.op), c.subject, c.terms, Carried(c)) \in Record
    BY <2>1, AppendedTyped
  <2>3. c.op \in {"close", "ack", "advance", "propose", "accept"}
    BY <2>1 DEF Call, Guarded
  <2>4. Written(c.op) \in OnceKind => c.op \in {"ack", "advance"}
    BY <2>3 DEF Written, OnceKind
  <2>5. Written(c.op) \in OnceKind => About(OwnRecords(c.member), Written(c.op), c.subject) = {}
    BY <2>1, <2>4 DEF OnceInv, RecheckStillTrue, AlreadyWritten
  <2>6. ASSUME NEW d \in calls', d.op \in {"ack", "advance"}, d.step = "append",
               d.member = c.member, d.subject = c.subject, Written(d.op) = Written(c.op)
        PROVE  FALSE
    <3>1. d.op = c.op
      BY <2>3, <2>6 DEF Written
    <3>2. Running(c) /\ Running(d) /\ GuardOf(c) = GuardOf(d)
      BY <2>1, <2>6, <3>1 DEF Running, GuardOf, Guarded
    <3> QED
      BY <1>0, <2>1, <3>2
  <2>7. \A d \in calls' :
              d.op \in {"ack", "advance"} /\ d.step = "append" =>
                 /\ d \in calls
                 /\ ~(d.member = c.member /\ d.subject = c.subject /\ Written(d.op) = Written(c.op))
    BY <2>1, <2>6
  <2> QED
    BY <1>0, <2>1, <2>2, <2>5, <2>7, OnceAppended
<1>11. ASSUME NEW c \in calls, FeedFails(c) PROVE OnceInv'
  BY <1>1, <1>11 DEF FeedFails, Finish
<1>12. ASSUME NEW v \in Member, NEW m \in Member, Replicate(v, m) \/ Learn(v, m) \/ Expire(v, m)
       PROVE  OnceInv'
  BY <1>1, <1>12 DEF Replicate, Learn, Expire
<1>13. CASE UNCHANGED vars
  BY <1>1, <1>13 DEF vars
<1> QED
  BY <1>3, <1>4, <1>5, <1>6, <1>7, <1>8, <1>9, <1>10, <1>11, <1>12, <1>13 DEF Next, ContinueCall

\* However stale the snapshots its calls started from, and however many of them run at
\* once, fail or are cut off by a restart, a desktop appends at most one acknowledgement
\* and at most one settlement transfer per proposal.
THEOREM SettlementAppendsOnce == Spec => []RecheckedAppendsOnce
<1>1. Init => OnceInv
  <2> SUFFICES ASSUME Init PROVE OnceInv
    OBVIOUS
  <2>1. \A m \in Member : OwnRecords(m) = {}
    BY DEF Init, OwnRecords, Prefix
  <2> QED
    BY <2>1 DEF Init, OnceInv, OncePerFeed, RecheckStillTrue, About
<1>2. OnceInv => RecheckedAppendsOnce
  <2> SUFFICES ASSUME OnceInv, NEW m \in Member, NEW p \in Proposal, NEW kind \in {"ack", "transfer"}
               PROVE  Cardinality(About(OwnRecords(m), kind, p)) <= 1
    BY DEF RecheckedAppendsOnce
  <2> DEFINE S == About(OwnRecords(m), kind, p)
  <2>1. \A r, s \in S : r = s
    BY DEF OnceInv, OncePerFeed, OnceKind
  <2> HIDE DEF S
  <2>2. S = {} => Cardinality(S) <= 1
    BY FS_EmptySet
  <2>3. S # {} => \E r : S = {r}
    BY <2>1
  <2>4. (\E r : S = {r}) => Cardinality(S) <= 1
    BY FS_Singleton
  <2> QED
    BY <2>2, <2>3, <2>4 DEF S
<1> QED
  BY <1>1, <1>2, TypeInvariant, GuardsAlwaysExact, OnceStep, PTL DEF Spec

----------------------------------------------------------------------------
(***************************************************************************)
(* Evidence.  Evidence(R) is EvidenceComplete, strengthened by the facts   *)
(* that make it inductive: a proposal id has one set of terms, whatever is *)
(* accepted was proposed on these terms, and minutes stay in bounds.  It   *)
(* is about a set of records alone; a record may be added to the set when  *)
(* it is Justified by what is there.                                       *)
(***************************************************************************)

Proposed(R, p, terms) == \E q \in About(R, "proposed", p) : q.terms = terms

HasAttested(R, p, terms, n) ==
    \E k \in About(R, "attestation", p) : k.author = n /\ k.terms = terms

WellFormed(terms) ==
    /\ terms.minutes \in 1 .. MaxMinutes
    /\ terms.provider # terms.recipient
    /\ terms.creator \in Participants(terms)

Evidence(R) ==
    /\ ClosuresLinked(R)
    /\ ProposalsWellFormed(R)
    /\ TermsPreserved(R)
    /\ AcknowledgementsBacked(R)
    /\ AttestationsBacked(R)
    /\ TransfersBacked(R)
    /\ \A l \in OfKind(R, "listing") : l.terms.minutes \in 1 .. MaxMinutes
    /\ \A q \in OfKind(R, "proposed") : WellFormed(q.terms)
    /\ \A q, r \in OfKind(R, "proposed") : q.subject = r.subject => q.terms = r.terms
    /\ \A a \in OfKind(R, "accepted") : Proposed(R, a.subject, a.terms)

Justified(r, R) ==
    /\ r.kind = "listing" => r.terms.minutes \in 1 .. MaxMinutes
    /\ r.kind = "closure" => \E l \in About(R, "listing", r.subject) : l.author = r.author
    /\ r.kind = "proposed" => /\ WellFormed(r.terms)
                              /\ r.author = r.terms.creator
                              /\ About(R, "proposed", r.subject) = {}
    /\ r.kind = "accepted" => /\ Proposed(R, r.subject, r.terms)
                              /\ r.author = Counterparty(r.terms)
    /\ r.kind \in {"ack", "attestation", "transfer"} => BackedByAcceptance(R, r)
    /\ r.kind \in {"attestation", "transfer"} => DualConfirmed(R, r.subject, r.terms)
    /\ r.kind = "transfer" =>
         /\ r.by = Participants(r.terms)
         /\ \A n \in r.by : HasAttested(R, r.subject, r.terms, n)

\* What a set of records shows, a larger one shows.
LEMMA EvidenceMonotone ==
    ASSUME NEW R, NEW S, R \subseteq S
    PROVE  /\ \A k, x : About(R, k, x) \subseteq About(S, k, x)
           /\ \A p, terms : Proposed(R, p, terms) => Proposed(S, p, terms)
           /\ \A r : BackedByAcceptance(R, r) => BackedByAcceptance(S, r)
           /\ \A p, terms : DualConfirmed(R, p, terms) => DualConfirmed(S, p, terms)
<1>1. \A k, x : About(R, k, x) \subseteq About(S, k, x)
  BY DEF About
<1>2. \A p, terms : Proposed(R, p, terms) => Proposed(S, p, terms)
  BY <1>1 DEF Proposed
<1>3. \A r : BackedByAcceptance(R, r) => BackedByAcceptance(S, r)
  BY <1>1 DEF BackedByAcceptance
<1>4. \A p, terms : DualConfirmed(R, p, terms) => DualConfirmed(S, p, terms)
  BY <1>1 DEF DualConfirmed, Acknowledged
<1> QED
  BY <1>1, <1>2, <1>3, <1>4

\* Adding a justified record to a set with its evidence gives a set with its evidence.
LEMMA JustifiedKeepsEvidence ==
    ASSUME NEW R, NEW r, Evidence(R), Justified(r, R)
    PROVE  Evidence(R \cup {r})
<1> DEFINE S == R \cup {r}
<1>1. R \subseteq S /\ r \in S /\ \A s \in S : s \in R \/ s = r
  OBVIOUS
<1> HIDE DEF S
<1>2. /\ \A k, x : About(R, k, x) \subseteq About(S, k, x)
      /\ \A p, terms : Proposed(R, p, terms) => Proposed(S, p, terms)
      /\ \A s : BackedByAcceptance(R, s) => BackedByAcceptance(S, s)
      /\ \A p, terms : DualConfirmed(R, p, terms) => DualConfirmed(S, p, terms)
  BY <1>1, EvidenceMonotone
<1>3. ClosuresLinked(S)
  BY <1>1, <1>2 DEF Evidence, Justified, ClosuresLinked, OfKind
<1>4. \A q, s \in OfKind(S, "proposed") : q.subject = s.subject => q.terms = s.terms
  BY <1>1 DEF Evidence, Justified, OfKind, About
<1>5. \A q \in OfKind(S, "proposed") : WellFormed(q.terms)
  BY <1>1 DEF Evidence, Justified, OfKind
<1>6. \A a \in OfKind(S, "accepted") : Proposed(S, a.subject, a.terms)
  BY <1>1, <1>2 DEF Evidence, Justified, OfKind
<1>7. TermsPreserved(S)
  <2> SUFFICES ASSUME NEW a \in OfKind(S, "accepted"), NEW q \in About(S, "proposed", a.subject)
               PROVE  q.terms = a.terms
    BY DEF TermsPreserved
  <2>1. PICK s \in About(S, "proposed", a.subject) : s.terms = a.terms
    BY <1>6 DEF Proposed
  <2> QED
    BY <1>4, <2>1 DEF About, OfKind
<1>8. ProposalsWellFormed(S)
  <2>1. \A a \in OfKind(S, "accepted") : WellFormed(a.terms)
    BY <1>5, <1>6 DEF Proposed, About, OfKind
  <2>2. \A terms : WellFormed(terms) => /\ terms.minutes > 0
                                        /\ terms.provider # terms.recipient
                                        /\ terms.creator \in Participants(terms)
    BY CatalogueType DEF WellFormed
  <2>3. \A q \in OfKind(S, "proposed") : q.author = q.terms.creator
    BY <1>1 DEF Evidence, ProposalsWellFormed, Justified, OfKind
  <2>4. \A a \in OfKind(S, "accepted") : a.author = Counterparty(a.terms)
    BY <1>1 DEF Evidence, ProposalsWellFormed, Justified, OfKind
  <2> QED
    BY <1>5, <2>1, <2>2, <2>3, <2>4 DEF ProposalsWellFormed
<1>9. AcknowledgementsBacked(S)
  BY <1>1, <1>2 DEF Evidence, AcknowledgementsBacked, Justified, OfKind
<1>10. AttestationsBacked(S)
  BY <1>1, <1>2 DEF Evidence, AttestationsBacked, Justified, OfKind
<1>11. TransfersBacked(S)
  BY <1>1, <1>2 DEF Evidence, TransfersBacked, Justified, OfKind
<1>12. \A l \in OfKind(S, "listing") : l.terms.minutes \in 1 .. MaxMinutes
  BY <1>1 DEF Evidence, Justified, OfKind
<1> QED
  BY <1>3, <1>4, <1>5, <1>6, <1>7, <1>8, <1>9, <1>10, <1>11, <1>12 DEF Evidence, S

\* A proposal has the same terms wherever a record of it was accepted.
LEMMA OneSetOfTerms ==
    ASSUME NEW R, Evidence(R), NEW p, NEW a \in About(R, "accepted", p), NEW b \in About(R, "accepted", p)
    PROVE  a.terms = b.terms
<1>1. a \in OfKind(R, "accepted") /\ b \in OfKind(R, "accepted") /\ a.subject = p /\ b.subject = p
  BY DEF About, OfKind
<1>2. PICK q \in About(R, "proposed", p) : q.terms = a.terms
  BY <1>1 DEF Evidence, Proposed
<1>3. PICK s \in About(R, "proposed", p) : s.terms = b.terms
  BY <1>1 DEF Evidence, Proposed
<1> QED
  BY <1>2, <1>3 DEF Evidence, About, OfKind

\* What the records show for a call in flight: a snapshot was partial, but every record a
\* call relies on is still in some feed.
Grounded(c, R) ==
    /\ c.op = "close" => \E l \in About(R, "listing", c.subject) : l.author = c.member
    /\ c.op = "propose" => WellFormed(c.terms) /\ c.terms.creator = c.member
    /\ c.op = "accept" => Proposed(R, c.subject, c.terms) /\ c.member = Counterparty(c.terms)
    /\ c.op \in {"ack", "advance"} =>
         /\ \E a \in About(R, "accepted", c.subject) : a.terms = c.terms
         /\ c.member \in Participants(c.terms)
    /\ c.op = "advance" =>
         /\ DualConfirmed(R, c.subject, c.terms)
         /\ \A n \in c.attested : HasAttested(R, c.subject, c.terms, n)
    /\ c.op = "advance" /\ c.step \in {"recheck", "append"} =>
         /\ DualAttested(c)
         /\ HasAttested(R, c.subject, c.terms, c.member)

FreshProposals ==
    \A c \in calls : c.op = "propose" =>
        /\ About(AllRecords, "proposed", c.subject) = {}
        /\ \A d \in calls : d.op = "propose" /\ d.subject = c.subject => d = c

EvidenceInv ==
    /\ Evidence(AllRecords)
    /\ \A c \in calls : Grounded(c, AllRecords)
    /\ FreshProposals

\* A call stays grounded as records are added.
LEMMA GroundedMonotone ==
    ASSUME NEW R, NEW S, R \subseteq S, NEW c, Grounded(c, R)
    PROVE  Grounded(c, S)
<1>1. /\ \A k, x : About(R, k, x) \subseteq About(S, k, x)
      /\ \A p, terms : Proposed(R, p, terms) => Proposed(S, p, terms)
      /\ \A p, terms : DualConfirmed(R, p, terms) => DualConfirmed(S, p, terms)
  BY EvidenceMonotone
<1>2. \A p, terms, n : HasAttested(R, p, terms, n) => HasAttested(S, p, terms, n)
  BY <1>1 DEF HasAttested
<1> QED
  BY <1>1, <1>2 DEF Grounded

\* The call a handler starts is grounded in the published records, and a proposal gets an
\* id that no record and no call has.
LEMMA HandleGrounded ==
    ASSUME TypeInv, EvidenceInv, NEW m \in Member, NEW s \in Lane, Handle(m, s)
    PROVE  \E c : /\ calls' = calls \cup {c}
                  /\ UNCHANGED feed
                  /\ Grounded(c, AllRecords)
                  /\ c.op = "propose" => Fresh(c.subject)
<1> DEFINE rs == View(m)
<1>1. rs \subseteq AllRecords /\ \A r \in rs : WellKinded(r)
  BY ViewPublished DEF TypeInv
<1>2. Resolves(rs)
  BY DEF Handle
<1> HIDE DEF rs
<1>3. Evidence(AllRecords)
  BY DEF EvidenceInv
<1>4. CASE CloseListing(m, s, rs)
  <2>1. PICK l \in PublishedListings(rs) :
            /\ l.author = m
            /\ StartCall(m, s, "close", l.subject, NoTerms, {}, "enter")
    BY <1>4 DEF CloseListing
  <2> DEFINE c == [member |-> m, slot |-> s, op |-> "close", subject |-> l.subject,
                   terms |-> NoTerms, attested |-> {}, step |-> "enter"]
  <2>2. calls' = calls \cup {c} /\ UNCHANGED feed
    BY <2>1 DEF StartCall
  <2>3. l \in About(AllRecords, "listing", l.subject)
    BY <1>1 DEF PublishedListings, OfKind, About
  <2>4. Grounded(c, AllRecords)
    BY <2>1, <2>3 DEF Grounded
  <2>5. c.op # "propose"
    OBVIOUS
  <2> HIDE DEF c
  <2> QED
    BY <2>2, <2>4, <2>5
<1>5. CASE CreateProposal(m, s, rs)
  <2>1. PICK p \in Proposal, o \in PublishedListings(rs), q \in PublishedListings(rs) :
          \E minutes \in 1 .. o.terms.minutes :
             /\ Fresh(p)
             /\ Matchable(o, q, minutes)
             /\ m \in {o.author, q.author}
             /\ StartCall(m, s, "propose", p,
                     [offer |-> o.subject, request |-> q.subject, provider |-> o.author,
                      recipient |-> q.author, creator |-> m, minutes |-> minutes],
                     {}, "append")
    BY <1>5 DEF CreateProposal
  <2>2. PICK minutes \in 1 .. o.terms.minutes :
             /\ Fresh(p)
             /\ Matchable(o, q, minutes)
             /\ m \in {o.author, q.author}
             /\ StartCall(m, s, "propose", p,
                     [offer |-> o.subject, request |-> q.subject, provider |-> o.author,
                      recipient |-> q.author, creator |-> m, minutes |-> minutes],
                     {}, "append")
    BY <2>1
  <2> DEFINE terms == [offer |-> o.subject, request |-> q.subject, provider |-> o.author,
                       recipient |-> q.author, creator |-> m, minutes |-> minutes]
             c == [member |-> m, slot |-> s, op |-> "propose", subject |-> p,
                   terms |-> terms, attested |-> {}, step |-> "append"]
  <2>3. calls' = calls \cup {c} /\ UNCHANGED feed
    BY <2>2 DEF StartCall
  <2>4. o.terms.minutes \in 1 .. MaxMinutes
    BY <1>1, <1>3 DEF PublishedListings, OfKind, Evidence
  <2>5. minutes \in 1 .. MaxMinutes
    BY <2>4, CatalogueType
  <2>6. o.author # q.author
    BY <2>2 DEF Matchable
  <2>7. WellFormed(terms) /\ terms.creator = m
    BY <2>2, <2>5, <2>6 DEF WellFormed, Participants
  <2> HIDE DEF terms
  <2>8. Grounded(c, AllRecords)
    BY <2>7 DEF Grounded
  <2>9. c.subject = p
    OBVIOUS
  <2> HIDE DEF c
  <2> QED
    BY <2>2, <2>3, <2>8, <2>9
<1>6. CASE AcceptProposal(m, s, rs)
  <2>1. PICK r \in OfKind(rs, "proposed") :
            /\ m = Counterparty(r.terms)
            /\ StartCall(m, s, "accept", r.subject, r.terms, {}, "append")
    BY <1>6 DEF AcceptProposal
  <2> DEFINE c == [member |-> m, slot |-> s, op |-> "accept", subject |-> r.subject,
                   terms |-> r.terms, attested |-> {}, step |-> "append"]
  <2>2. calls' = calls \cup {c} /\ UNCHANGED feed
    BY <2>1 DEF StartCall
  <2>3. Proposed(AllRecords, r.subject, r.terms)
    BY <1>1 DEF Proposed, OfKind, About
  <2>4. Grounded(c, AllRecords)
    BY <2>1, <2>3 DEF Grounded
  <2>5. c.op # "propose"
    OBVIOUS
  <2> HIDE DEF c
  <2> QED
    BY <2>2, <2>4, <2>5
<1>7. CASE AcknowledgeSettlement(m, s, rs)
  <2>1. PICK a \in OfKind(rs, "accepted") :
            /\ m \in Participants(a.terms)
            /\ StartCall(m, s, "ack", a.subject, a.terms, {}, "enter")
    BY <1>7 DEF AcknowledgeSettlement
  <2> DEFINE c == [member |-> m, slot |-> s, op |-> "ack", subject |-> a.subject,
                   terms |-> a.terms, attested |-> {}, step |-> "enter"]
  <2>2. calls' = calls \cup {c} /\ UNCHANGED feed
    BY <2>1 DEF StartCall
  <2>3. a \in About(AllRecords, "accepted", a.subject)
    BY <1>1 DEF OfKind, About
  <2>4. Grounded(c, AllRecords)
    BY <2>1, <2>3 DEF Grounded
  <2>5. c.op # "propose"
    OBVIOUS
  <2> HIDE DEF c
  <2> QED
    BY <2>2, <2>4, <2>5
<1>8. CASE AdvanceSettlement(m, s, rs)
  <2>1. PICK a \in OfKind(rs, "accepted") :
            /\ DualConfirmed(rs, a.subject, a.terms)
            /\ m \in Participants(a.terms)
            /\ StartCall(m, s, "advance", a.subject, a.terms, Attested(rs, a.subject), "enter")
    BY <1>8 DEF AdvanceSettlement
  <2> DEFINE c == [member |-> m, slot |-> s, op |-> "advance", subject |-> a.subject,
                   terms |-> a.terms, attested |-> Attested(rs, a.subject), step |-> "enter"]
  <2>2. calls' = calls \cup {c} /\ UNCHANGED feed
    BY <2>1 DEF StartCall
  <2>3. a \in About(AllRecords, "accepted", a.subject)
    BY <1>1 DEF OfKind, About
  <2>4. DualConfirmed(AllRecords, a.subject, a.terms)
    BY <1>1, <2>1, EvidenceMonotone
  <2>5. ASSUME NEW n \in Attested(rs, a.subject)
        PROVE  HasAttested(AllRecords, a.subject, a.terms, n)
    <3>1. PICK k \in About(AllRecords, "attestation", a.subject) : k.author = n
      BY <1>1, <2>5 DEF Attested, About
    <3>2. k.subject = a.subject /\ k \in OfKind(AllRecords, "attestation")
      BY <3>1 DEF About, OfKind
    <3>3. PICK b \in About(AllRecords, "accepted", a.subject) : k.terms = b.terms
      BY <1>3, <3>2 DEF Evidence, AttestationsBacked, BackedByAcceptance
    <3>4. a.terms = b.terms
      BY <1>3, <2>3, <3>3, OneSetOfTerms
    <3> QED
      BY <3>1, <3>3, <3>4 DEF HasAttested
  <2>6. Grounded(c, AllRecords)
    BY <2>1, <2>3, <2>4, <2>5 DEF Grounded
  <2>7. c.op # "propose"
    OBVIOUS
  <2> HIDE DEF c
  <2> QED
    BY <2>2, <2>6, <2>7
<1> QED
  BY <1>4, <1>5, <1>6, <1>7, <1>8 DEF Handle, rs

\* The record a grounded call appends is justified by the records there are.
LEMMA GroundedAppends ==
    ASSUME TypeInv, EvidenceInv, NEW c \in calls
    PROVE  /\ c.step = "append" =>
                Justified(NewRecord(c.member, Written(c.op), c.subject, c.terms, Carried(c)), AllRecords)
           /\ c.step = "attest" =>
                Justified(NewRecord(c.member, "attestation", c.subject, c.terms, {}), AllRecords)
<1>1. c \in Call /\ WellShaped(c) /\ Grounded(c, AllRecords) /\ Evidence(AllRecords)
  BY DEF TypeInv, TypeOK, EvidenceInv
<1>2. c.op \in {"close", "ack", "advance", "propose", "accept"}
  BY <1>1 DEF Call, Guarded
<1>3. ASSUME c.op \in {"ack", "advance"}, NEW kind, NEW by
      PROVE  BackedByAcceptance(AllRecords, NewRecord(c.member, kind, c.subject, c.terms, by))
  BY <1>1, <1>3 DEF Grounded, BackedByAcceptance, NewRecord
<1>4. ASSUME c.step = "append"
      PROVE  Justified(NewRecord(c.member, Written(c.op), c.subject, c.terms, Carried(c)), AllRecords)
  <2> DEFINE r == NewRecord(c.member, Written(c.op), c.subject, c.terms, Carried(c))
  <2>1. /\ r.kind = Written(c.op) /\ r.subject = c.subject /\ r.author = c.member
        /\ r.terms = c.terms /\ r.by = Carried(c)
    BY DEF NewRecord
  <2>2. (c.op \in {"ack", "advance"}) => BackedByAcceptance(AllRecords, r)
    BY <1>3
  <2> HIDE DEF r
  <2>3. CASE c.op = "close"
    <3>1. r.kind = "closure"
      BY <2>1, <2>3 DEF Written
    <3> QED
      BY <1>1, <2>1, <2>3, <3>1 DEF Grounded, Justified, r
  <2>4. CASE c.op = "propose"
    <3>1. r.kind = "proposed"
      BY <2>1, <2>4 DEF Written
    <3>2. About(AllRecords, "proposed", c.subject) = {}
      BY <2>4 DEF EvidenceInv, FreshProposals
    <3> QED
      BY <1>1, <2>1, <2>4, <3>1, <3>2 DEF Grounded, Justified, r
  <2>5. CASE c.op = "accept"
    <3>1. r.kind = "accepted"
      BY <2>1, <2>5 DEF Written
    <3> QED
      BY <1>1, <2>1, <2>5, <3>1 DEF Grounded, Justified, r
  <2>6. CASE c.op = "ack"
    <3>1. r.kind = "ack"
      BY <2>1, <2>6 DEF Written
    <3> QED
      BY <2>2, <2>6, <3>1 DEF Justified, r
  <2>7. CASE c.op = "advance"
    <3>1. r.kind = "transfer"
      BY <2>1, <2>7 DEF Written
    <3>2. /\ DualConfirmed(AllRecords, c.subject, c.terms)
          /\ c.member \in Participants(c.terms)
          /\ \A n \in c.attested \cup {c.member} : HasAttested(AllRecords, c.subject, c.terms, n)
          /\ Participants(c.terms) \subseteq c.attested \cup {c.member}
      BY <1>1, <1>4, <2>7 DEF Grounded, DualAttested
    <3>3. ASSUME NEW n \in c.attested PROVE n \in Participants(c.terms)
      <4>1. PICK k \in About(AllRecords, "attestation", c.subject) : k.author = n /\ k.terms = c.terms
        BY <3>2 DEF HasAttested
      <4>2. BackedByAcceptance(AllRecords, k)
        BY <1>1, <4>1 DEF Evidence, AttestationsBacked, About, OfKind
      <4> QED
        BY <4>1, <4>2 DEF BackedByAcceptance
    <3>4. r.by = Participants(c.terms) /\ r.by = c.attested \cup {c.member}
      BY <2>1, <2>7, <3>2, <3>3 DEF Carried
    <3> QED
      BY <2>1, <2>2, <2>7, <3>1, <3>2, <3>4 DEF Justified, r
  <2> QED
    BY <1>2, <2>3, <2>4, <2>5, <2>6, <2>7 DEF r
<1>5. ASSUME c.step = "attest"
      PROVE  Justified(NewRecord(c.member, "attestation", c.subject, c.terms, {}), AllRecords)
  <2> DEFINE r == NewRecord(c.member, "attestation", c.subject, c.terms, {})
  <2>1. c.op = "advance"
    BY <1>1, <1>5 DEF Call, WellShaped, Guarded
  <2>2. BackedByAcceptance(AllRecords, r) /\ DualConfirmed(AllRecords, c.subject, c.terms)
    BY <1>1, <1>3, <2>1 DEF Grounded
  <2>3. r.kind = "attestation" /\ r.subject = c.subject /\ r.terms = c.terms
    BY DEF NewRecord
  <2> HIDE DEF r
  <2> QED
    BY <2>2, <2>3 DEF Justified, r
<1> QED
  BY <1>4, <1>5

\* A listing published from the catalogue is a justified record.
LEMMA ListingAppends ==
    ASSUME TypeInv, NEW m \in Member, PublishListing(m)
    PROVE  \E x, terms :
              LET r == NewRecord(m, "listing", x, terms, {})
              IN  /\ r \in Record
                  /\ WellKinded(r)
                  /\ Justified(r, AllRecords)
                  /\ AllRecords' = AllRecords \cup {r}
                  /\ UNCHANGED calls
<1>1. PICK input \in Catalogue :
          /\ AppendRecord(m, "listing", input.id, [side |-> input.side, minutes |-> input.minutes], {})
          /\ UNCHANGED <<replica, known, calls, busy>>
  BY DEF PublishListing
<1> DEFINE terms == [side |-> input.side, minutes |-> input.minutes]
           r == NewRecord(m, "listing", input.id, terms, {})
<1>2. terms \in ListingTerms /\ input.id \in Listing /\ terms.minutes \in 1 .. MaxMinutes
  BY CatalogueType DEF ListingTerms
<1>3. Len(feed[m]) + 1 \in Nat
  BY DEF TypeInv, TypeOK
<1>4. AppendRecord(m, "listing", input.id, terms, {})
  BY <1>1
<1> HIDE DEF terms
<1>5. r \in Record
  BY <1>2, <1>3 DEF NewRecord, Record, Kinds
<1>6. WellKinded(r)
  BY <1>2 DEF NewRecord, WellKinded
<1>7. r.kind = "listing" /\ r.terms = terms
  BY DEF NewRecord
<1>8. AllRecords' = AllRecords \cup {r}
  BY <1>4, <1>5, AppendAddsAll DEF TypeInv
<1>9. Justified(r, AllRecords)
  <2> HIDE DEF r
  <2> QED
    BY <1>2, <1>7 DEF Justified
<1> QED
  BY <1>1, <1>5, <1>6, <1>8, <1>9

\* What the appending steps of a call add.
LEMMA CallAppends ==
    ASSUME TypeInv, EvidenceInv, NEW c \in calls
    PROVE  /\ AppendFinal(c) =>
                LET r == NewRecord(c.member, Written(c.op), c.subject, c.terms, Carried(c))
                IN  /\ r \in Record
                    /\ WellKinded(r)
                    /\ Justified(r, AllRecords)
                    /\ AllRecords' = AllRecords \cup {r}
           /\ Attest(c) =>
                LET r == NewRecord(c.member, "attestation", c.subject, c.terms, {})
                IN  /\ r \in Record
                    /\ WellKinded(r)
                    /\ Justified(r, AllRecords)
                    /\ AllRecords' = AllRecords \cup {r}
<1>1. ASSUME AppendFinal(c)
      PROVE  LET r == NewRecord(c.member, Written(c.op), c.subject, c.terms, Carried(c))
             IN  /\ r \in Record
                 /\ WellKinded(r)
                 /\ Justified(r, AllRecords)
                 /\ AllRecords' = AllRecords \cup {r}
  <2>1. c.step = "append" /\ AppendRecord(c.member, Written(c.op), c.subject, c.terms, Carried(c))
    BY <1>1 DEF AppendFinal
  <2>2. /\ c.member \in Member
        /\ NewRecord(c.member, Written(c.op), c.subject, c.terms, Carried(c)) \in Record
        /\ WellKinded(NewRecord(c.member, Written(c.op), c.subject, c.terms, Carried(c)))
    BY <2>1, AppendedTyped
  <2>3. AllRecords' = AllRecords \cup {NewRecord(c.member, Written(c.op), c.subject, c.terms, Carried(c))}
    BY <2>1, <2>2, AppendAddsAll DEF TypeInv
  <2> QED
    BY <2>1, <2>2, <2>3, GroundedAppends
<1>2. ASSUME Attest(c)
      PROVE  LET r == NewRecord(c.member, "attestation", c.subject, c.terms, {})
             IN  /\ r \in Record
                 /\ WellKinded(r)
                 /\ Justified(r, AllRecords)
                 /\ AllRecords' = AllRecords \cup {r}
  <2>1. c.step = "attest" /\ AppendRecord(c.member, "attestation", c.subject, c.terms, {})
    BY <1>2 DEF Attest
  <2>2. /\ c.member \in Member
        /\ NewRecord(c.member, "attestation", c.subject, c.terms, {}) \in Record
        /\ WellKinded(NewRecord(c.member, "attestation", c.subject, c.terms, {}))
    BY <2>1, AppendedTyped
  <2>3. AllRecords' = AllRecords \cup {NewRecord(c.member, "attestation", c.subject, c.terms, {})}
    BY <2>1, <2>2, AppendAddsAll DEF TypeInv
  <2> QED
    BY <2>1, <2>2, <2>3, GroundedAppends
<1> QED
  BY <1>1, <1>2

\* A step either leaves the published records alone or adds one justified record.
LEMMA StepAdds ==
    ASSUME TypeInv, EvidenceInv, [Next]_vars
    PROVE  \/ AllRecords' = AllRecords
           \/ \E r \in Record : /\ WellKinded(r)
                                /\ Justified(r, AllRecords)
                                /\ AllRecords' = AllRecords \cup {r}
<1>1. CASE UNCHANGED feed
  BY <1>1, SameFeedsSameRecords
<1>2. ASSUME NEW m \in Member, PublishListing(m)
      PROVE  \E r \in Record : WellKinded(r) /\ Justified(r, AllRecords) /\ AllRecords' = AllRecords \cup {r}
  BY <1>2, ListingAppends
<1>3. ASSUME NEW c \in calls, AppendFinal(c) \/ Attest(c)
      PROVE  \E r \in Record : WellKinded(r) /\ Justified(r, AllRecords) /\ AllRecords' = AllRecords \cup {r}
  BY <1>3, CallAppends
<1>4. ASSUME NEW slot \in Slot, Handle(slot[1], slot[2]) PROVE UNCHANGED feed
  BY <1>4, SlotType, HandleStarts
<1>5. ASSUME NEW c \in calls, LeaveAtOnce(c) \/ Enter(c) \/ Recheck(c) \/ FeedFails(c)
      PROVE  UNCHANGED feed
  BY <1>5 DEF LeaveAtOnce, Enter, Recheck, FeedFails
<1>6. ASSUME NEW m \in Member, Restart(m) PROVE UNCHANGED feed
  BY <1>6 DEF Restart
<1>7. ASSUME NEW v \in Member, NEW m \in Member, Replicate(v, m) \/ Learn(v, m) \/ Expire(v, m)
      PROVE  UNCHANGED feed
  BY <1>7 DEF Replicate, Learn, Expire
<1>8. UNCHANGED vars => UNCHANGED feed
  BY DEF vars
<1> QED
  BY <1>1, <1>2, <1>3, <1>4, <1>5, <1>6, <1>7, <1>8 DEF Next, ContinueCall

\* Every step keeps the evidence complete and the calls grounded.
LEMMA EvidenceStep == TypeInv /\ EvidenceInv /\ [Next]_vars => EvidenceInv'
<1> SUFFICES ASSUME TypeInv, EvidenceInv, [Next]_vars PROVE EvidenceInv'
  OBVIOUS
<1> DEFINE R == AllRecords
           S == AllRecords'
<1>0. calls \subseteq Call /\ (\A c \in calls : WellShaped(c)) /\ (\A c \in calls : Grounded(c, R))
      /\ Evidence(R) /\ FreshProposals
  BY DEF TypeInv, TypeOK, EvidenceInv
<1>1. R \subseteq S /\ Evidence(S)
  BY <1>0, StepAdds, JustifiedKeepsEvidence
<1>2. \A c \in calls : Grounded(c, S)
  BY <1>0, <1>1, GroundedMonotone
<1> HIDE DEF R, S
<1>3. ASSUME \A c \in calls' : c \in calls \/ Grounded(c, S),
             \A c \in calls' : c.op = "propose" =>
                /\ About(S, "proposed", c.subject) = {}
                /\ \A d \in calls' : d.op = "propose" /\ d.subject = c.subject => d = c
      PROVE  EvidenceInv'
  <2>1. \A c \in calls' : Grounded(c, S)
    BY <1>2, <1>3
  <2> QED
    BY <1>1, <1>3, <2>1 DEF EvidenceInv, FreshProposals, S
<1>4. ASSUME \A c \in calls' : c \in calls \/ (Grounded(c, S) /\ c.op # "propose"),
             \A c \in calls' : c.op = "propose" => About(S, "proposed", c.subject) = About(R, "proposed", c.subject)
      PROVE  EvidenceInv'
  BY <1>0, <1>3, <1>4 DEF FreshProposals, R
<1>5. UNCHANGED feed => S = R
  BY SameFeedsSameRecords DEF R, S
<1>6. ASSUME NEW m \in Member, PublishListing(m) PROVE EvidenceInv'
  <2>1. PICK r : r.kind = "listing" /\ S = R \cup {r} /\ UNCHANGED calls
    BY <1>6, ListingAppends DEF R, S, NewRecord
  <2>2. \A x : About(S, "proposed", x) = About(R, "proposed", x)
    BY <2>1 DEF About
  <2> QED
    BY <1>4, <2>1, <2>2
<1>7. ASSUME NEW m \in Member, Restart(m) PROVE EvidenceInv'
  BY <1>4, <1>5, <1>7 DEF Restart
<1>8. ASSUME NEW slot \in Slot, Handle(slot[1], slot[2]) PROVE EvidenceInv'
  <2>1. slot[1] \in Member /\ slot[2] \in Lane
    BY SlotType
  <2>2. PICK c : /\ calls' = calls \cup {c}
                 /\ UNCHANGED feed
                 /\ Grounded(c, R)
                 /\ c.op = "propose" => Fresh(c.subject)
    BY <1>8, <2>1, HandleGrounded DEF R
  <2>3. S = R
    BY <1>5, <2>2
  <2>4. c.op = "propose" => About(R, "proposed", c.subject) = {} /\ \A d \in calls : d.subject # c.subject
    BY <2>2 DEF Fresh, About, R
  <2> QED
    BY <1>0, <1>3, <2>2, <2>3, <2>4 DEF FreshProposals, R
<1>9. ASSUME NEW c \in calls, NEW step, GoTo(c, step), Grounded([c EXCEPT !.step = step], S),
             c.op # "propose", \A x : About(S, "proposed", x) = About(R, "proposed", x)
      PROVE  EvidenceInv'
  <2>1. calls' = (calls \ {c}) \cup {[c EXCEPT !.step = step]} /\ [c EXCEPT !.step = step].op = c.op
    BY <1>0, <1>9 DEF GoTo, Call
  <2> QED
    BY <1>4, <1>9, <2>1
<1>10. ASSUME NEW c \in calls, LeaveAtOnce(c) \/ FeedFails(c) PROVE EvidenceInv'
  BY <1>4, <1>5, <1>10 DEF LeaveAtOnce, FeedFails, Finish
<1>11. ASSUME NEW c \in calls, Enter(c) PROVE EvidenceInv'
  <2>1. c \in Call /\ WellShaped(c) /\ c.step = "enter" /\ ~AwaitsOther(c) /\ UNCHANGED feed
        /\ GoTo(c, AfterEnter(c)) /\ Grounded(c, S)
    BY <1>0, <1>2, <1>11 DEF Enter
  <2>2. c.op \in Guarded
    BY <2>1 DEF Call, WellShaped
  <2> DEFINE d == [c EXCEPT !.step = AfterEnter(c)]
  <2>3. /\ d.op = c.op /\ d.subject = c.subject /\ d.member = c.member /\ d.terms = c.terms
        /\ d.attested = c.attested /\ d.step = AfterEnter(c)
    BY <2>1 DEF Call
  <2>4. c.op = "advance" /\ AfterEnter(c) \in {"recheck", "append"} =>
            DualAttested(c) /\ c.member \in c.attested
    BY <2>1 DEF AfterEnter, AwaitsOther
  <2> HIDE DEF d
  <2>5. Grounded(d, S)
    BY <2>1, <2>3, <2>4 DEF Grounded, DualAttested
  <2> QED
    BY <1>5, <1>9, <2>1, <2>2, <2>5 DEF d, Guarded
<1>12. ASSUME NEW c \in calls, Recheck(c) PROVE EvidenceInv'
  <2>1. CASE AlreadyWritten(c)
    BY <1>4, <1>5, <1>12, <2>1 DEF Recheck, Finish
  <2>2. CASE ~AlreadyWritten(c)
    <3>1. c \in Call /\ WellShaped(c) /\ c.step = "recheck" /\ UNCHANGED feed /\ GoTo(c, "append")
          /\ Grounded(c, S)
      BY <1>0, <1>2, <1>12, <2>2 DEF Recheck
    <3> DEFINE d == [c EXCEPT !.step = "append"]
    <3>2. /\ d.op = c.op /\ d.subject = c.subject /\ d.member = c.member /\ d.terms = c.terms
          /\ d.attested = c.attested /\ d.step = "append"
      BY <3>1 DEF Call
    <3>3. c.op # "propose"
      BY <3>1 DEF WellShaped
    <3> HIDE DEF d
    <3>4. Grounded(d, S)
      BY <3>1, <3>2 DEF Grounded, DualAttested
    <3> QED
      BY <1>5, <1>9, <3>1, <3>3, <3>4 DEF d
  <2> QED
    BY <2>1, <2>2
<1>13. ASSUME NEW c \in calls, Attest(c) PROVE EvidenceInv'
  <2>1. c \in Call /\ c.step = "attest" /\ c.op = "advance" /\ Grounded(c, S)
    BY <1>0, <1>2, <1>13 DEF Attest, Call, WellShaped, Guarded
  <2>2. PICK r : /\ S = R \cup {r}
                 /\ r.kind = "attestation" /\ r.subject = c.subject
                 /\ r.author = c.member /\ r.terms = c.terms
    <3> DEFINE r == NewRecord(c.member, "attestation", c.subject, c.terms, {})
    <3>1. S = R \cup {r}
      BY <1>13, CallAppends DEF R, S
    <3>2. r.kind = "attestation" /\ r.subject = c.subject /\ r.author = c.member /\ r.terms = c.terms
      BY DEF NewRecord
    <3> QED
      BY <3>1, <3>2
  <2>3. \A x : About(S, "proposed", x) = About(R, "proposed", x)
    BY <2>2 DEF About
  <2>4. HasAttested(S, c.subject, c.terms, c.member)
    BY <2>2 DEF HasAttested, About
  <2>5. CASE DualAttested(c)
    <3> DEFINE d == [c EXCEPT !.step = "recheck"]
    <3>1. /\ d.op = c.op /\ d.subject = c.subject /\ d.member = c.member /\ d.terms = c.terms
          /\ d.attested = c.attested /\ d.step = "recheck"
      BY <2>1 DEF Call
    <3> HIDE DEF d
    <3>2. Grounded(d, S)
      BY <2>1, <2>4, <2>5, <3>1 DEF Grounded, DualAttested
    <3>3. GoTo(c, "recheck")
      BY <1>13, <2>5 DEF Attest
    <3> QED
      BY <1>9, <2>1, <2>3, <3>2, <3>3 DEF d
  <2>6. CASE ~DualAttested(c)
    BY <1>4, <1>13, <2>3, <2>6 DEF Attest, Finish
  <2> QED
    BY <2>5, <2>6
<1>14. ASSUME NEW c \in calls, AppendFinal(c) PROVE EvidenceInv'
  <2>1. c \in Call /\ calls' = calls \ {c}
    BY <1>0, <1>14 DEF AppendFinal, Finish
  <2>2. PICK r : S = R \cup {r} /\ r.kind = Written(c.op) /\ r.subject = c.subject
    <3> DEFINE r == NewRecord(c.member, Written(c.op), c.subject, c.terms, Carried(c))
    <3>1. S = R \cup {r}
      BY <1>14, CallAppends DEF R, S
    <3>2. r.kind = Written(c.op) /\ r.subject = c.subject
      BY DEF NewRecord
    <3> QED
      BY <3>1, <3>2
  <2>3. Written(c.op) = "proposed" => c.op = "propose"
    BY <2>1 DEF Written, Call, Guarded
  <2>4. ASSUME NEW d \in calls', d.op = "propose"
        PROVE  About(S, "proposed", d.subject) = About(R, "proposed", d.subject)
    <3>1. r.kind = "proposed" => d.subject # c.subject
      BY <1>0, <2>1, <2>2, <2>3, <2>4 DEF FreshProposals
    <3> QED
      BY <2>2, <3>1 DEF About
  <2> QED
    BY <1>4, <2>1, <2>4
<1>15. ASSUME NEW v \in Member, NEW m \in Member, Replicate(v, m) \/ Learn(v, m) \/ Expire(v, m)
       PROVE  EvidenceInv'
  BY <1>4, <1>5, <1>15 DEF Replicate, Learn, Expire
<1>16. CASE UNCHANGED vars
  BY <1>4, <1>5, <1>16 DEF vars
<1> QED
  BY <1>6, <1>7, <1>8, <1>10, <1>11, <1>12, <1>13, <1>14, <1>15, <1>16 DEF Next, ContinueCall

\* EvidenceInv is an invariant of Exchange.
LEMMA EvidenceInvariant == Spec => []EvidenceInv
<1>1. Init => EvidenceInv
  <2> SUFFICES ASSUME Init PROVE EvidenceInv
    OBVIOUS
  <2>1. AllRecords = {}
    BY DEF Init, AllRecords, OwnRecords, Prefix
  <2>2. Evidence({})
    BY DEF Evidence, ClosuresLinked, ProposalsWellFormed, TermsPreserved, AcknowledgementsBacked,
           AttestationsBacked, TransfersBacked, OfKind
  <2> QED
    BY <2>1, <2>2 DEF Init, EvidenceInv, FreshProposals
<1> QED
  BY <1>1, TypeInvariant, EvidenceStep, PTL DEF Spec

\* Each record of the feeds has its evidence in the feeds, for any number of members,
\* deals and calls, although each was written from a partial and stale view: only two
\* records of one id can make a complete history unresolvable.
THEOREM EvidenceAlwaysComplete == Spec => []EvidenceComplete
  BY EvidenceInvariant, PTL DEF EvidenceInv, Evidence, EvidenceComplete

\* The settlement records of one proposal state one settlement.
SettlementsAgree ==
    \A t, u \in OfKind(AllRecords, "transfer") :
        t.subject = u.subject => LedgerTransfer(t) = LedgerTransfer(u)

\* Both parties may append a settlement record of one proposal, each from its own view, and
\* the two have one id and different contents.  They never differ in what they settle: the
\* ledger would post the same minutes between the same members for either of them.
THEOREM SettlementsAlwaysAgree == Spec => []SettlementsAgree
<1>1. EvidenceInv => SettlementsAgree
  <2> SUFFICES ASSUME EvidenceInv, NEW t \in OfKind(AllRecords, "transfer"),
                      NEW u \in OfKind(AllRecords, "transfer"), t.subject = u.subject
               PROVE  LedgerTransfer(t) = LedgerTransfer(u)
    BY DEF SettlementsAgree
  <2>1. Evidence(AllRecords)
    BY DEF EvidenceInv
  <2>2. PICK a \in About(AllRecords, "accepted", t.subject) : t.terms = a.terms
    BY <2>1 DEF Evidence, TransfersBacked, BackedByAcceptance
  <2>3. PICK b \in About(AllRecords, "accepted", t.subject) : u.terms = b.terms
    BY <2>1 DEF Evidence, TransfersBacked, BackedByAcceptance
  <2>4. t.terms = u.terms
    BY <2>1, <2>2, <2>3, OneSetOfTerms
  <2>5. t.by = Participants(t.terms) /\ u.by = Participants(u.terms)
    BY <2>1 DEF Evidence, TransfersBacked
  <2> QED
    BY <2>4, <2>5 DEF LedgerTransfer
<1> QED
  BY <1>1, EvidenceInvariant, PTL

----------------------------------------------------------------------------
(***************************************************************************)
(* The desktops implement Agreement.                                       *)
(***************************************************************************)

DoneIn(R, kind) == {<<DealOf(r), r.author>> : r \in OfKind(R, kind)}

DealsOf(R) == {DealOf(r) : r \in OfKind(R, "proposed")}

\* A justified record is one step of Agreement, or none if it is about a listing.
LEMMA JustifiedIsAgreed ==
    ASSUME TypeInv, EvidenceInv,
           NEW r \in Record, WellKinded(r), Justified(r, AllRecords),
           AllRecords' = AllRecords \cup {r}
    PROVE  A!Next \/ UNCHANGED A!vars
<1> DEFINE R == AllRecords
           S == AllRecords'
           d == DealOf(r)
<1>1. Evidence(R) /\ S = R \cup {r} /\ Justified(r, R)
  BY DEF EvidenceInv
<1>2. /\ Deals = DealsOf(R) /\ Deals' = DealsOf(S)
      /\ \A kind \in {"accepted", "ack", "attestation", "transfer"} :
            Done(kind) = DoneIn(R, kind) /\ Done(kind)' = DoneIn(S, kind)
  BY DEF Deals, DealsOf, Done, DoneIn, OfKind, DealOf
<1>3. \A kind : DoneIn(S, kind) = IF r.kind = kind THEN DoneIn(R, kind) \cup {<<d, r.author>>}
                                                     ELSE DoneIn(R, kind)
  BY <1>1 DEF DoneIn, OfKind
<1>4. DealsOf(S) = IF r.kind = "proposed" THEN DealsOf(R) \cup {d} ELSE DealsOf(R)
  BY <1>1 DEF DealsOf, OfKind
<1>5. r.kind \in {"listing", "closure", "proposed", "accepted", "ack", "attestation", "transfer"}
      /\ r.author \in Member
  BY DEF Record, Kinds
<1>6. CASE r.kind \in {"listing", "closure"}
  BY <1>2, <1>3, <1>4, <1>6 DEF A!vars
<1>7. CASE r.kind = "proposed"
  <2>1. r.subject \in Proposal /\ r.terms \in ProposalTerms
    BY <1>7 DEF WellKinded
  <2>2. WellFormed(r.terms) /\ About(R, "proposed", r.subject) = {}
    BY <1>1, <1>7 DEF Justified
  <2>3. d \in A!Deal
    BY <2>1, <2>2 DEF A!Deal, DealOf, WellFormed, ProposalTerms
  <2>4. d.provider # d.recipient /\ d.creator \in A!Parties(d)
    BY <2>2 DEF DealOf, WellFormed, Participants, A!Parties
  <2>5. \A e \in DealsOf(R) : e.id # d.id
    BY <2>2 DEF DealsOf, DealOf, OfKind, About
  <2>6. A!Propose(d)
    BY <1>2, <1>3, <1>4, <1>7, <2>4, <2>5 DEF A!Propose
  <2> QED
    BY <2>3, <2>6 DEF A!Next
<1>8. \A x, terms : Proposed(R, x, terms) =>
          \E q \in OfKind(R, "proposed") : q.subject = x /\ q.terms = terms
  BY DEF Proposed, About, OfKind
<1>9. \A q \in OfKind(R, "proposed") : DealOf(q) \in A!Deal /\ DealOf(q) \in DealsOf(R)
  <2> SUFFICES ASSUME NEW q \in OfKind(R, "proposed")
               PROVE  DealOf(q) \in A!Deal /\ DealOf(q) \in DealsOf(R)
    OBVIOUS
  <2>1. WellFormed(q.terms)
    BY <1>1 DEF Evidence
  <2>2. q.subject \in Proposal /\ q.terms \in ProposalTerms
    BY DEF OfKind, TypeInv, WellKinded
  <2> QED
    BY <2>1, <2>2 DEF A!Deal, DealOf, WellFormed, ProposalTerms, DealsOf
<1>10. ASSUME NEW a \in About(R, "accepted", r.subject), a.terms = r.terms
       PROVE  /\ d \in A!Deal /\ d \in DealsOf(R)
              /\ \E m \in A!Parties(d) : <<d, m>> \in DoneIn(R, "accepted")
  <2>1. a \in OfKind(R, "accepted") /\ a.subject = r.subject
    BY <1>10 DEF About, OfKind
  <2>2. PICK q \in OfKind(R, "proposed") : q.subject = r.subject /\ q.terms = r.terms
    BY <1>1, <1>8, <1>10, <2>1 DEF Evidence
  <2>3. DealOf(q) = d /\ DealOf(a) = d
    BY <1>10, <2>1, <2>2 DEF DealOf
  <2>4. a.author = Counterparty(r.terms) /\ r.terms.creator \in Participants(r.terms)
    BY <1>1, <1>10, <2>1 DEF Evidence, ProposalsWellFormed
  <2>5. a.author \in A!Parties(d)
    BY <2>4 DEF Counterparty, A!Parties, DealOf
  <2>6. <<d, a.author>> \in DoneIn(R, "accepted")
    BY <2>1, <2>3 DEF DoneIn
  <2> QED
    BY <1>9, <2>2, <2>3, <2>5, <2>6
<1>11. A!Parties(d) = Participants(r.terms)
  BY DEF A!Parties, Participants, DealOf
<1>12. CASE r.kind = "accepted"
  <2>1. Proposed(R, r.subject, r.terms) /\ r.author = Counterparty(r.terms)
    BY <1>1, <1>12 DEF Justified
  <2>2. PICK q \in OfKind(R, "proposed") : q.subject = r.subject /\ q.terms = r.terms
    BY <1>8, <2>1
  <2>3. DealOf(q) = d
    BY <2>2 DEF DealOf
  <2>4. d \in A!Deal /\ d \in DealsOf(R)
    BY <1>9, <2>2, <2>3
  <2>5. r.terms.provider # r.terms.recipient /\ r.terms.creator \in Participants(r.terms)
    BY <1>1, <2>2 DEF Evidence, WellFormed
  <2>6. r.author \in A!Parties(d) \ {d.creator}
    BY <2>1, <2>5 DEF Counterparty, Participants, A!Parties, DealOf
  <2>7. A!Accept(d, r.author)
    BY <1>2, <1>3, <1>4, <1>12, <2>4, <2>6 DEF A!Accept
  <2> QED
    BY <1>5, <2>4, <2>7 DEF A!Next
<1>13. ASSUME r.kind \in {"ack", "attestation", "transfer"}
       PROVE  /\ d \in A!Deal /\ r.author \in A!Parties(d)
              /\ \E m \in A!Parties(d) : <<d, m>> \in DoneIn(R, "accepted")
  <2>1. PICK a \in About(R, "accepted", r.subject) : r.terms = a.terms /\ r.author \in Participants(a.terms)
    BY <1>1, <1>13 DEF Justified, BackedByAcceptance
  <2> QED
    BY <1>10, <1>11, <2>1
<1>14. CASE r.kind = "ack"
  <2>1. A!Acknowledge(d, r.author)
    BY <1>2, <1>3, <1>4, <1>13, <1>14 DEF A!Acknowledge
  <2> QED
    BY <1>5, <1>13, <1>14, <2>1 DEF A!Next
<1>15. CASE r.kind = "attestation"
  <2>1. ASSUME NEW m \in A!Parties(d) PROVE <<d, m>> \in DoneIn(R, "ack")
    <3>1. m \in Acknowledged(R, r.subject)
      BY <1>1, <1>11, <1>15 DEF Justified, DualConfirmed
    <3>2. PICK k \in OfKind(R, "ack") : k.subject = r.subject /\ k.author = m
      BY <3>1 DEF Acknowledged, About, OfKind
    <3>3. PICK a \in About(R, "accepted", r.subject) : k.terms = a.terms
      BY <1>1, <3>2 DEF Evidence, AcknowledgementsBacked, BackedByAcceptance
    <3>4. PICK b \in About(R, "accepted", r.subject) : r.terms = b.terms
      BY <1>1, <1>15 DEF Justified, BackedByAcceptance
    <3>5. a.terms = b.terms
      BY <1>1, <3>3, <3>4, OneSetOfTerms
    <3>6. DealOf(k) = d
      BY <3>2, <3>3, <3>4, <3>5 DEF DealOf
    <3> QED
      BY <3>2, <3>6 DEF DoneIn
  <2>2. A!Attest(d, r.author)
    BY <1>2, <1>3, <1>4, <1>13, <1>15, <2>1 DEF A!Attest, A!Both
  <2> QED
    BY <1>5, <1>13, <1>15, <2>2 DEF A!Next
<1>16. CASE r.kind = "transfer"
  <2>1. ASSUME NEW m \in A!Parties(d) PROVE <<d, m>> \in DoneIn(R, "attestation")
    <3>1. HasAttested(R, r.subject, r.terms, m)
      BY <1>1, <1>11, <1>16 DEF Justified
    <3>2. PICK k \in OfKind(R, "attestation") : k.subject = r.subject /\ k.terms = r.terms /\ k.author = m
      BY <3>1 DEF HasAttested, About, OfKind
    <3>3. DealOf(k) = d
      BY <3>2 DEF DealOf
    <3> QED
      BY <3>2, <3>3 DEF DoneIn
  <2>2. A!Transfer(d, r.author)
    BY <1>2, <1>3, <1>4, <1>13, <1>16, <2>1 DEF A!Transfer, A!Both
  <2> QED
    BY <1>5, <1>13, <1>16, <2>2 DEF A!Next
<1> QED
  BY <1>5, <1>6, <1>7, <1>12, <1>14, <1>15, <1>16

\* Exchange implements Agreement: whatever partial views the desktops act on, and however
\* calls, failures and restarts interleave, a settlement takes its steps in order, each by
\* an entitled party and on the terms that were proposed.
THEOREM ExchangeImplementsAgreement == Spec => AgreementKept
<1>1. Init => A!Init
  <2> SUFFICES ASSUME Init PROVE A!Init
    OBVIOUS
  <2>1. AllRecords = {}
    BY DEF Init, AllRecords, OwnRecords, Prefix
  <2> QED
    BY <2>1 DEF A!Init, Deals, Done, OfKind
<1>2. TypeInv /\ EvidenceInv /\ [Next]_vars => [A!Next]_(A!vars)
  <2> SUFFICES ASSUME TypeInv, EvidenceInv, [Next]_vars PROVE A!Next \/ UNCHANGED A!vars
    OBVIOUS
  <2>1. CASE AllRecords' = AllRecords
    BY <2>1 DEF A!vars, Deals, Done, OfKind, DealOf
  <2>2. CASE AllRecords' # AllRecords
    BY <2>2, StepAdds, JustifiedIsAgreed
  <2> QED
    BY <2>1, <2>2
<1> QED
  BY <1>1, <1>2, TypeInvariant, EvidenceInvariant, PTL DEF Spec, AgreementKept, A!Spec

=============================================================================
