------------------------------ MODULE Agreement ------------------------------
(***************************************************************************)
(* What the exchange protocol promises the two parties of a deal, without  *)
(* feeds, replicas, calls or retries: a deal is proposed by one party,     *)
(* accepted by the other, acknowledged by both once it is accepted, its    *)
(* settlement terms are attested by both once both acknowledged, and a     *)
(* transfer of exactly the agreed minutes is published only once both have *)
(* attested.  No step is ever taken back.                                  *)
(***************************************************************************)
CONSTANTS Id, Party, Minutes

VARIABLES deals, accepted, acknowledged, attested, transferred

vars == <<deals, accepted, acknowledged, attested, transferred>>

Deal == [id : Id, provider : Party, recipient : Party, creator : Party, minutes : Minutes]

Parties(d) == {d.provider, d.recipient}

\* Everyone has done their part: every party of d is in the relation R.
Both(R, d) == \A m \in Parties(d) : <<d, m>> \in R

Init ==
    /\ deals = {}
    /\ accepted = {}
    /\ acknowledged = {}
    /\ attested = {}
    /\ transferred = {}

Propose(d) ==
    /\ d.provider # d.recipient
    /\ d.creator \in Parties(d)
    /\ \A e \in deals : e.id # d.id
    /\ deals' = deals \cup {d}
    /\ UNCHANGED <<accepted, acknowledged, attested, transferred>>

Accept(d, m) ==
    /\ d \in deals
    /\ m \in Parties(d) \ {d.creator}
    /\ accepted' = accepted \cup {<<d, m>>}
    /\ UNCHANGED <<deals, acknowledged, attested, transferred>>

Acknowledge(d, m) ==
    /\ m \in Parties(d)
    /\ \E a \in Parties(d) : <<d, a>> \in accepted
    /\ acknowledged' = acknowledged \cup {<<d, m>>}
    /\ UNCHANGED <<deals, accepted, attested, transferred>>

Attest(d, m) ==
    /\ m \in Parties(d)
    /\ Both(acknowledged, d)
    /\ attested' = attested \cup {<<d, m>>}
    /\ UNCHANGED <<deals, accepted, acknowledged, transferred>>

Transfer(d, m) ==
    /\ m \in Parties(d)
    /\ Both(attested, d)
    /\ transferred' = transferred \cup {<<d, m>>}
    /\ UNCHANGED <<deals, accepted, acknowledged, attested>>

Next ==
    \E d \in Deal :
        \/ Propose(d)
        \/ \E m \in Party : Accept(d, m) \/ Acknowledge(d, m) \/ Attest(d, m) \/ Transfer(d, m)

Spec == Init /\ [][Next]_vars
=============================================================================
