----------------------------- MODULE MCReceipts -----------------------------
(* Three settlements, of which two are looked up, and a correction among    *)
(* them; one pinned node runs this repository's server, two do not.         *)
EXTENDS Receipts

CONSTANTS own, alice, bob, here, there, s1, s2, s3, c1

Ledger == <<s1, c1, s2, s3>>

DigestOf == [t \in Transfer |-> 1]

Claims ==
    [n \in Pin |->
        {[community |-> here, transfer |-> t, digest |-> 1] : t \in {s1, s2}}
        \cup {IF n = alice THEN [community |-> here, transfer |-> s1, digest |-> 2]
                           ELSE [community |-> there, transfer |-> s1, digest |-> 1]}]

=============================================================================
