------------------------------ MODULE MCShelf ------------------------------
(* Shelf with the uploads and the symmetry of its run.                       *)
EXTENDS Shelf, TLC

Uploads == [v \in Vids |-> v]
(* Too early to keep, part of the way and of unknown length, past the end of
   it, and ended without a position. *)
R(pos, dur, state) == [pos |-> pos, dur |-> dur, state |-> state]
PlayerReports == {R(30, 6000, "playing"), R(1500, None, "playing"), R(5500, 6000, "playing"),
                  R(0, None, "ended")}

(* A channel, which has the least to say, is followed through one operation more. *)
OpsOn == [x \in Titles \cup Channels |-> IF x \in Channels THEN 4 ELSE 3]

Symmetry == Permutations(Devices)
=============================================================================
