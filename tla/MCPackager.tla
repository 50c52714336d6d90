---------------------------- MODULE MCPackager ----------------------------
(* Packager with the bounds and the symmetry of its runs.                  *)
EXTENDS Packager, TLC

Symmetry == Permutations(Requests) \cup Permutations(Tokens)

(* Nothing is claimed of what follows a crossing or a miss (Scrubs.cfg looks
   there).  One session is followed through three runs of ffmpeg, two
   sessions through two. *)
Begun == {t \in Tokens : ~At(t, "fresh")}
Bounded == Orderly /\ Len(runs) + Cardinality(Begun) <= 4
=============================================================================
