----------------------------- MODULE MCPlayJobs -----------------------------
(* Instances of PlayJobs for TLC. *)
EXTENDS PlayJobs, TLC

(* No title has a next episode. *)
FilmsOnly == [t \in Titles |-> None]

(* A series: some one title is followed by another. *)
Series == LET first == CHOOSE t \in Titles : TRUE IN
          [t \in Titles |-> IF t = first THEN CHOOSE u \in Titles : u # first ELSE None]

(* One record grows old at a time: a job's or the browser session's. *)
OneAged ==
  LET jobs == {t \in Titles : job[t].stage \in JobActive /\ ~job[t].fresh}
  IN Cardinality(jobs) + (IF bx.token = None \/ bx.fresh THEN 0 ELSE 1) <= 1

Symmetry == Permutations(Titles) \cup Permutations(Requests) \cup Permutations(Controls)
=============================================================================
