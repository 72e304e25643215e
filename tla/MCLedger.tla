------------------------------ MODULE MCLedger ------------------------------
(***************************************************************************)
(* A small history for Ledger: three members and a boundary of -2.  The    *)
(* candidates contain settlements whose admission depends on one another,  *)
(* a correction that sorts before the correction it undoes, two            *)
(* corrections of one settlement, two corrections of each other, and one   *)
(* transfer for each way a batch is refused.                               *)
(***************************************************************************)
EXTENDS Ledger

T(id, source, provider, recipient, minutes, reverses) ==
    [id |-> id, community |-> Community, source |-> source, provider |-> provider,
     recipient |-> recipient, minutes |-> minutes, reverses |-> reverses,
     attestedBy |-> {provider, recipient}]

MCMinimumBalance == -2
MCTransferId == 0 .. 10

MCCandidates ==
    LET s1 == T(1, "p1", "a", "b", 2, NoId)
        s2 == T(2, "p2", "c", "b", 1, NoId)
        s3 == T(3, "p3", "b", "a", 3, NoId)
    IN  {s1, s2, s3,
         T(4, NoId, "b", "a", 2, 1),      \* corrects s1
         T(0, NoId, "a", "b", 2, 4),      \* corrects that correction, smaller id
         T(5, NoId, "b", "a", 2, 1),      \* corrects s1 once more
         T(6, NoId, "b", "c", 1, 2),      \* corrects s2, which may be refused
         T(7, NoId, "a", "c", 1, 8),      \* corrects 8, which corrects 7
         T(8, NoId, "c", "a", 1, 7),
         T(9, "p1", "a", "b", 2, NoId),   \* a second settlement of p1
         [s2 EXCEPT !.minutes = 2],       \* id 2 with other terms
         [s3 EXCEPT !.id = 10, !.source = "p4", !.attestedBy = {"b"}]}

=============================================================================
