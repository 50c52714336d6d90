-------------------------- MODULE PlayJobsRemarks --------------------------
(***************************************************************************)
(* What comments and documents of the server say of play jobs and the code *)
(* does not do.  Each property quotes its remark; TLC finds the run that   *)
(* contradicts it.                                                         *)
(***************************************************************************)
EXTENDS MCPlayJobs

(* The pcs of a worker that holds or prepares a film and may yet show it. *)
Preparing == WkPc \ {"none", "unseen", "unwind", "unwinding", "played", "failed"}
Live(r)   == wk[r].pc \in Preparing /\ ~Superseded(r)

(* One play is started, and prepared to its end, before the next begins. *)
Busy == {r \in Requests : \/ req[r].pc \notin {"idle", "attached", "refused", "accepted"}
                          \/ wk[r].pc \notin {"none", "played", "failed"}}
NextInTurn == Next /\ Cardinality(Busy') <= 1
InTurnSpec == Init /\ [][NextInTurn]_vars

(***************************************************************************)
(* The remarks.                                                            *)
(***************************************************************************)

(* "Cross-device is refused rather than superseded on purpose" (claim_owner):
   a play claim never makes the play of another kind of device lapse. *)
NoTakeover ==
  [][\A r, s \in Requests :
       /\ req[r].pc = "claim" /\ req'[r].pc = "register" /\ Live(s)
       => req[s].owner = req[r].owner]_vars

(* "a competing request is refused while the other device is playing": after
   a refusal by claim_owner() there is another player to be found, a live
   browser session or TV playback, or a play being prepared for another
   device or browser. *)
RefusedForOther ==
  [][\A r \in Requests :
       /\ req[r].pc \in {"claim1", "claim2"} /\ req'[r].pc \in {"refused", "retire"}
       => \/ BrowserPlaying \/ TvBusy
          \/ \E s \in Requests \ {r} :
               \/ req[s].pc \notin {"idle", "attached", "refused", "accepted"}
               \/ wk[s].pc \notin {"none", "played", "failed"}]_vars

(* "a cancel landing in that window has to reach it some other way"
   (_cancel_gen): a play that was met by a cancel answered "cancelled" does
   not hold the current claim afterwards.  For a single request. *)
CancelReachesPlay ==
  \A c \in Controls, r \in Requests :
    ctl[c].pc = "cancelled" /\ req[r].gen # 0 => Superseded(r)

(* "a job id gets reused by a later replay of the same title, but a token is
   minted fresh per attempt" (_post_bx_stop): the job a token stands down is
   a browser's. *)
TokenFindsItsPlay ==
  [][\A c \in Controls :
       ctl[c].pc = "bxFind" /\ ctl'[c].pc = "bxClaim" => job[ctl'[c].amid].owner = "browser"]_vars
=============================================================================
