--------------------------- MODULE MCConversions ---------------------------
(* Conversions with the symmetry of its runs.                                *)
EXTENDS Conversions, TLC

Symmetry == Permutations(Titles)
=============================================================================
