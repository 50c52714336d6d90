----------------------------- MODULE PlayClaims -----------------------------
(***************************************************************************)
(* What the play-job protocol promises about the player: claims are made   *)
(* one after another, a newer claim or a revocation (a stop, a cancel)     *)
(* makes the older one lapse, and only a play whose claim was still the    *)
(* current one at its last check may put its film on a player.             *)
(***************************************************************************)
CONSTANT Plays

VARIABLE status
  \* of each play: waiting (no claim yet), current (holds the newest claim),
  \* lapsed (a newer claim was made before its last check), committed (passed
  \* its last check while current), shown (its film is on a player), over

Status == {"waiting", "current", "lapsed", "committed", "shown", "over"}

TypeOK == status \in [Plays -> Status]

Init == status = [p \in Plays |-> "waiting"]

Lapse(s) == IF s = "current" THEN "lapsed" ELSE s

(* A new claim: every other claim that has not committed lapses. *)
Claim(p) ==
  /\ status[p] = "waiting"
  /\ status' = [q \in Plays |-> IF q = p THEN "current" ELSE Lapse(status[q])]

Revoke == status' = [q \in Plays |-> Lapse(status[q])]

Commit(p) == status[p] = "current" /\ status' = [status EXCEPT ![p] = "committed"]
Show(p)   == status[p] = "committed" /\ status' = [status EXCEPT ![p] = "shown"]
Finish(p) == /\ status[p] \in {"current", "lapsed", "committed"}
             /\ status' = [status EXCEPT ![p] = "over"]

Next ==
  /\ status' # status
  /\ Revoke \/ \E p \in Plays : Claim(p) \/ Commit(p) \/ Show(p) \/ Finish(p)

Spec == Init /\ [][Next]_status
=============================================================================
