---------------------------- MODULE MCNodeVolume ----------------------------
(* A data directory, a backup and a place to restore to; two nodes share    *)
(* one receipt identity, and two commands run at the same time.             *)
EXTENDS NodeVolume, TLC

CONSTANTS home, guest, data, backup, restored

DataDirOf == [n \in Node |-> IF n = home THEN {data, restored} ELSE {data}]

LaneSymmetry == Permutations(Lane)

=============================================================================
