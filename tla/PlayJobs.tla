------------------------------ MODULE PlayJobs ------------------------------
(***************************************************************************)
(* The play-job protocol of the server: how a request to play a title      *)
(* becomes a job, how one job supersedes another, and how a worker hands   *)
(* its film to the TV app or publishes it to a browser (jobs.py, the play, *)
(* cancel, stop and browser-session routes of routes.py, the job side of   *)
(* tvlink.py and browser_session.py).                                      *)
(*                                                                         *)
(* Every HTTP request runs on a thread of its own and every accepted play  *)
(* starts one worker thread.  They share the job table, two counters and   *)
(* the player state, all under one re-entrant lock; but a handler takes    *)
(* and releases that lock many times, so one action below is one critical  *)
(* section, and everything between two of them interleaves.                *)
(***************************************************************************)
EXTENDS Integers, FiniteSets

CONSTANTS
  Titles,       \* job ids: a film, or one episode of a series
  Requests,     \* play requests; a browser play's token is minted per request
  Controls,     \* control requests: stop, cancel, browser-stop, browser-beat
  Kinds,        \* the kinds of control request that may arrive
  None,         \* the absent value (Python's None)
  NextOf,       \* the episode after each title, or None
  Attempts,     \* most candidates a worker tries (config.ATTEMPTS)
  JobsGoStale   \* whether a job may go JOB_STALE seconds without an update

ASSUME NoneAssumption == None \notin Titles /\ None \notin Requests
ASSUME NextOfAssumption == NextOf \in [Titles -> Titles \cup {None}]
ASSUME AttemptsAssumption == Attempts \in Nat \ {0}
ASSUME FiniteAssumption == IsFiniteSet(Titles) /\ IsFiniteSet(Requests)
ASSUME KindsAssumption == Kinds \subseteq {"stop", "cancel", "bxStop", "beat"}
ASSUME StaleAssumption == JobsGoStale \in BOOLEAN

VARIABLES
  job,        \* _jobs: title -> its progress record (merged, never replaced)
  born,       \* insertion order of _jobs, 0 for a title not in it
  playGen,    \* _play_gen: bumped by play_claim()
  cancelGen,  \* _cancel_gen: bumped by an accepted cancel
  inflight,   \* _play_inflight: start_play() calls not yet returned
  cmd,        \* _app_cmd: the one order the TV app has not taken, or NoCmd
  seq,        \* _app_seq
  tv,         \* what the TV app last reported: job, state and acked order
  bx,         \* _bx: the one browser session
  req,        \* request threads
  wk,         \* worker threads, one per accepted request
  ctl         \* control-request threads

vars == <<job, born, playGen, cancelGen, inflight, cmd, seq, tv, bx, req, wk, ctl>>

JobActive == {"starting", "buffering", "encoding", "launching"}
Stages    == JobActive \cup {"absent", "playing", "error"}
Owners    == {"tv", "browser"}

JobRecord == [stage : Stages, gen : Nat, owner : Owners \cup {None},
              otoken : Requests \cup {None}, fresh : BOOLEAN]
NoJob     == [stage |-> "absent", gen |-> 0, owner |-> None, otoken |-> None,
              fresh |-> FALSE]

NoCmd   == [type |-> "none", job |-> None, seq |-> 0]
Command == [type : {"none", "play", "stop"}, job : Titles \cup {None}, seq : Nat]

NoSession == [token |-> None, job |-> None, gen |-> 0, state |-> "idle", fresh |-> FALSE]
Session   == [token : Requests \cup {None}, job : Titles \cup {None}, gen : Nat,
              state : {"idle", "starting", "playing", "ended"}, fresh : BOOLEAN]

TvReport == [job : Titles \cup {None}, state : {"idle", "playing", "error"}, acked : Nat]

ReqPc == {"idle", "entering", "resolving", "claim1", "claim2", "supersede", "mark",
          "claim", "register", "finish", "retire", "attached", "refused", "accepted"}
Request == [pc : ReqPc, title : Titles \cup {None}, owner : Owners, c0 : Nat,
            gen : Nat, amid : Titles \cup {None}, auto : BOOLEAN]
IdleRequest == [pc |-> "idle", title |-> None, owner |-> "tv", c0 |-> 0, gen |-> 0,
                amid |-> None, auto |-> FALSE]

WkPc == {"none", "top", "buffer", "buffering", "out", "prepared", "encoding",
         "launching", "sending", "handoff", "watching", "seen", "unseen",
         "direct", "hls", "last", "lastHls", "unwind", "unwinding", "publish",
         "published", "played", "failed"}
Worker   == [pc : WkPc, left : Nat, order : Nat]
NoWorker == [pc |-> "none", left |-> 0, order |-> 0]

CtlPc == {"idle", "stopClaim", "stopFind", "stopMark", "stopSession",
          "cancelNone", "cancelBump", "cancelClaim", "cancelMark",
          "bxTeardown", "bxFind", "bxClaim", "bxMark", "beatWrite",
          "done", "cancelled"}
Control == [pc : CtlPc, tok : Requests \cup {None}, amid : Titles \cup {None},
            state : {"idle", "playing", "ended"}]
IdleControl == [pc |-> "idle", tok |-> None, amid |-> None, state |-> "idle"]

(***************************************************************************)
(* The shared helpers.                                                     *)
(***************************************************************************)

(* The jobs active_job() may report, and the one it does: the first in the
   table's insertion order, or None. *)
Active == {t \in Titles : job[t].stage \in JobActive /\ job[t].fresh}
ActiveJob(m) ==
  IF Active = {} THEN m = None
  ELSE m \in Active /\ \A t \in Active : born[m] <= born[t]

(* job_set: merge the given record, stamp it fresh, and give a new title its
   place in the table. *)
JobSet(t, rec) ==
  /\ job' = [job EXCEPT ![t] = [rec EXCEPT !.fresh = TRUE]]
  /\ born' = IF born[t] # 0 THEN born
             ELSE [born EXCEPT ![t] = 1 + Cardinality({u \in Titles : born[u] # 0})]
SetStage(t, s) == JobSet(t, [job[t] EXCEPT !.stage = s])

Superseded(r) == req[r].gen # playGen

BrowserPlaying == bx.token # None /\ bx.state # "ended" /\ bx.fresh
TvBusy         == tv.state = "playing"

(* app_cmd replaces whatever the app has not taken; app_cmd_clear drops the
   order only while it is still the one `n` numbered. *)
AppCmd(type, t) == /\ seq' = seq + 1
                   /\ cmd' = [type |-> type, job |-> t, seq |-> seq + 1]
AppCmdClear(n)  == cmd' = IF cmd.seq = n THEN NoCmd ELSE cmd

ReqAt(r, pc) == req' = [req EXCEPT ![r].pc = pc]
WkAt(r, pc)  == wk' = [wk EXCEPT ![r].pc = pc]
CtlAt(c, pc) == ctl' = [ctl EXCEPT ![c].pc = pc]

(* A thread that has ended keeps none of its locals. *)
WkEnd(r, pc)  == wk' = [wk EXCEPT ![r] = [NoWorker EXCEPT !.pc = pc]]
CtlEnd(c, pc) == ctl' = [ctl EXCEPT ![c] = [IdleControl EXCEPT !.pc = pc]]

Init ==
  /\ job = [t \in Titles |-> NoJob]
  /\ born = [t \in Titles |-> 0]
  /\ playGen = 0 /\ cancelGen = 0 /\ inflight = 0
  /\ cmd = NoCmd /\ seq = 0
  /\ tv = [job |-> None, state |-> "idle", acked |-> 0]
  /\ bx = NoSession
  /\ req = [r \in Requests |-> IdleRequest]
  /\ wk = [r \in Requests |-> NoWorker]
  /\ ctl = [c \in Controls |-> IdleControl]

(***************************************************************************)
(* A play request: the route's dedupe, then start_play().                  *)
(***************************************************************************)

table   == <<job, born>>
slot    == <<cmd, seq>>
players == <<cmd, seq, tv, bx>>

(* A double-tap on the title already being started attaches to that job. *)
Attach(r, t) ==
  /\ req[r].pc = "idle" /\ ActiveJob(t)
  /\ \E o \in Owners :
       req' = [req EXCEPT ![r] = [IdleRequest EXCEPT !.pc = "attached", !.title = t,
                                                     !.owner = o]]
  /\ UNCHANGED <<table, playGen, cancelGen, inflight, players, wk, ctl>>

Arrive(r, t, o) ==
  /\ req[r].pc = "idle" /\ ~ActiveJob(t)
  /\ req' = [req EXCEPT ![r] = [IdleRequest EXCEPT !.pc = "entering", !.title = t,
                                                   !.owner = o]]
  /\ UNCHANGED <<table, playGen, cancelGen, inflight, players, wk, ctl>>

(* The heartbeat that reports the end of an episode started with autoplay:
   the next one is registered as a placeholder job, and a thread goes on to
   start_play() it.  The placeholder is a merge: whatever an earlier play of
   that episode left in the record stays there. *)
AutoplayNext(r) ==
  LET t == tv.job IN
  /\ req[r].pc = "idle" /\ TvBusy /\ t # None
  /\ job[t].owner = "tv" /\ NextOf[t] # None
  /\ tv' = [tv EXCEPT !.state = "idle"]
  /\ SetStage(NextOf[t], "starting")
  /\ req' = [req EXCEPT ![r] = [IdleRequest EXCEPT !.pc = "entering",
                                   !.title = NextOf[t], !.auto = TRUE]]
  /\ UNCHANGED <<playGen, cancelGen, inflight, slot, bx, wk, ctl>>

Enter(r) ==
  /\ req[r].pc = "entering"
  /\ req' = [req EXCEPT ![r] = [@ EXCEPT !.pc = "resolving", !.c0 = cancelGen]]
  /\ inflight' = inflight + 1
  /\ UNCHANGED <<table, playGen, cancelGen, players, wk, ctl>>

(* A refusal: the finally clause gives the in-flight count back, and an
   autoplay then retires its placeholder. *)
Leave(r) ==
  /\ inflight' = inflight - 1
  /\ req' = [req EXCEPT ![r] = [@ EXCEPT !.pc = IF req[r].auto THEN "retire" ELSE "refused", !.c0 = 0]]
  /\ UNCHANGED <<table, playGen, cancelGen, players, wk, ctl>>

(* resolve() found no stream, the TV could not be reached, or a cancel
   arrived since the snapshot. *)
ResolveRefused(r) == req[r].pc = "resolving" /\ Leave(r)
Resolved(r) ==
  /\ req[r].pc = "resolving" /\ cancelGen = req[r].c0
  /\ req' = [req EXCEPT ![r] = [@ EXCEPT !.pc = "claim1", !.c0 = 0]]
  /\ UNCHANGED <<table, playGen, cancelGen, inflight, players, wk, ctl>>

(* claim_owner() for the TV reads the browser session, then the job table;
   for a browser it reads the table, then both players. *)
RefusesFirst(r) ==
  IF req[r].owner = "tv" THEN BrowserPlaying
  ELSE \E m \in Titles : /\ ActiveJob(m)
                         /\ (job[m].owner # "browser" \/ job[m].otoken # r)
RefusesSecond(r) ==
  IF req[r].owner = "tv" THEN \E m \in Titles : ActiveJob(m) /\ job[m].owner = "browser"
  ELSE TvBusy \/ (BrowserPlaying /\ bx.token # r)
ClaimFirst(r) ==
  /\ req[r].pc = "claim1" /\ ~RefusesFirst(r)
  /\ ReqAt(r, "claim2")
  /\ UNCHANGED <<table, playGen, cancelGen, inflight, players, wk, ctl>>
ClaimSecond(r) ==
  /\ req[r].pc = "claim2" /\ ~RefusesSecond(r)
  /\ ReqAt(r, "supersede")
  /\ UNCHANGED <<table, playGen, cancelGen, inflight, players, wk, ctl>>
ClaimRefused(r) ==
  /\ \/ req[r].pc = "claim1" /\ RefusesFirst(r)
     \/ req[r].pc = "claim2" /\ RefusesSecond(r)
  /\ Leave(r)

(* The older job, if it is another title, is marked as superseded. *)
FindOlder(r) ==
  /\ req[r].pc = "supersede"
  /\ \E m \in Titles \cup {None} :
       /\ ActiveJob(m)
       /\ IF m \in {None, req[r].title} THEN ReqAt(r, "claim")
          ELSE req' = [req EXCEPT ![r] = [@ EXCEPT !.pc = "mark", !.amid = m]]
  /\ UNCHANGED <<table, playGen, cancelGen, inflight, players, wk, ctl>>
MarkOlder(r) ==
  /\ req[r].pc = "mark"
  /\ SetStage(req[r].amid, "error")
  /\ req' = [req EXCEPT ![r] = [@ EXCEPT !.pc = "claim", !.amid = None]]
  /\ UNCHANGED <<playGen, cancelGen, inflight, players, wk, ctl>>

(* As if the counter were not bumped under the lock. *)
PlayClaimUnbumped(r) ==
  /\ req[r].pc = "claim"
  /\ req' = [req EXCEPT ![r] = [@ EXCEPT !.gen = playGen + 1, !.pc = "register"]]
  /\ UNCHANGED <<table, playGen, cancelGen, inflight, players, wk, ctl>>

PlayClaim(r) ==
  /\ req[r].pc = "claim"
  /\ playGen' = playGen + 1
  /\ req' = [req EXCEPT ![r] = [@ EXCEPT !.gen = playGen + 1, !.pc = "register"]]
  /\ UNCHANGED <<table, cancelGen, inflight, players, wk, ctl>>

(* The job is registered and its worker started.  The token is only written
   for a browser play; a TV play leaves the one already there. *)
Registration(r) ==
  [job[req[r].title] EXCEPT !.stage = "starting", !.gen = req[r].gen,
      !.owner = req[r].owner,
      !.otoken = IF req[r].owner = "browser" THEN r ELSE @]
Register(r) ==
  /\ req[r].pc = "register"
  /\ JobSet(req[r].title, Registration(r))
  /\ \E n \in 0..Attempts : wk' = [wk EXCEPT ![r] = [pc |-> "top", left |-> n, order |-> 0]]
  /\ ReqAt(r, "finish")
  /\ UNCHANGED <<playGen, cancelGen, inflight, players, ctl>>

(* The shelf fields are merged in (which freshens the record), the count is
   given back and the 202 sent. *)
Finish(r) ==
  /\ req[r].pc = "finish"
  /\ JobSet(req[r].title, job[req[r].title])
  /\ inflight' = inflight - 1
  /\ ReqAt(r, "accepted")
  /\ UNCHANGED <<playGen, cancelGen, players, wk, ctl>>

(* As if the placeholder were left as it is. *)
RetireSilently(r) ==
  /\ req[r].pc = "retire"
  /\ ReqAt(r, "refused")
  /\ UNCHANGED <<table, playGen, cancelGen, inflight, players, wk, ctl>>

(* _autoplay_start(): a placeholder that never moved is told so. *)
Retire(r) ==
  /\ req[r].pc = "retire"
  /\ IF job[req[r].title].stage = "starting" THEN SetStage(req[r].title, "error")
     ELSE UNCHANGED table
  /\ ReqAt(r, "refused")
  /\ UNCHANGED <<playGen, cancelGen, inflight, players, wk, ctl>>

(***************************************************************************)
(* A worker: prepare candidates until one plays, checking between steps    *)
(* that no newer claim has been made.                                      *)
(***************************************************************************)

shared == <<playGen, cancelGen, inflight, req, ctl>>
Title(r) == req[r].title

(* _stand_down(): a superseded worker marks the job and ends. *)
StandDown(r) == Superseded(r) /\ SetStage(Title(r), "error") /\ WkEnd(r, "failed")

(* As if the worker claimed the player anew for each candidate. *)
WTopReclaims(r) ==
  /\ wk[r].pc = "top" /\ wk[r].left > 0
  /\ playGen' = playGen + 1
  /\ req' = [req EXCEPT ![r].gen = playGen + 1]
  /\ wk' = [wk EXCEPT ![r] = [@ EXCEPT !.pc = "buffer", !.left = wk[r].left - 1]]
  /\ UNCHANGED <<table, players, cancelGen, inflight, ctl>>

WTop(r) ==
  /\ wk[r].pc = "top"
  /\ \/ wk[r].left = 0 /\ SetStage(Title(r), "error") /\ WkEnd(r, "failed")
     \/ wk[r].left > 0 /\ StandDown(r)
     \/ /\ wk[r].left > 0 /\ ~Superseded(r)
        /\ wk' = [wk EXCEPT ![r] = [@ EXCEPT !.pc = "buffer", !.left = wk[r].left - 1]]
        /\ UNCHANGED table
  /\ UNCHANGED <<players, shared>>
WBuffer(r) ==
  /\ wk[r].pc = "buffer"
  /\ SetStage(Title(r), "buffering") /\ WkAt(r, "buffering")
  /\ UNCHANGED <<players, shared>>
WProgress(r) ==
  /\ wk[r].pc \in {"buffering", "prepared", "encoding", "sending", "direct", "hls"}
  /\ ~job[Title(r)].fresh
  /\ JobSet(Title(r), job[Title(r)])
  /\ UNCHANGED <<players, wk, shared>>

(* prepare_candidate(): the candidate is out (dud or superseded), or it is
   buffered and probed with no newer claim seen. *)
WOut(r) ==
  /\ wk[r].pc = "buffering" /\ WkAt(r, "out")
  /\ UNCHANGED <<table, players, shared>>
WPrepared(r) ==
  /\ wk[r].pc = "buffering" /\ ~Superseded(r) /\ WkAt(r, "prepared")
  /\ UNCHANGED <<table, players, shared>>

NextCandidate(r) == WkAt(r, "top") /\ UNCHANGED table
WNext(r) ==
  /\ wk[r].pc = "out"
  /\ StandDown(r) \/ (~Superseded(r) /\ NextCandidate(r))
  /\ UNCHANGED <<players, shared>>

(* The TV path: convert the audio if it must be and the disk has room for the
   copy (only the last candidate plays unconverted instead), then hand over. *)
WEncode(r) ==
  /\ wk[r].pc = "prepared" /\ req[r].owner = "tv"
  /\ SetStage(Title(r), "encoding") /\ WkAt(r, "encoding")
  /\ UNCHANGED <<players, shared>>
WNoRoom(r) ==
  /\ wk[r].pc = "prepared" /\ req[r].owner = "tv" /\ wk[r].left > 0 /\ NextCandidate(r)
  /\ UNCHANGED <<players, shared>>
WLaunching(r) ==
  /\ wk[r].pc \in {"prepared", "encoding"} /\ req[r].owner = "tv"
  /\ SetStage(Title(r), "launching") /\ WkAt(r, "launching")
  /\ UNCHANGED <<players, shared>>
WLastCheck(r) ==
  /\ wk[r].pc = "launching"
  /\ \/ StandDown(r)
     \/ ~Superseded(r) /\ WkAt(r, "sending") /\ UNCHANGED table
  /\ UNCHANGED <<players, shared>>

(* launch(): queue the order and wait for the app to take it. *)
WSend(r) ==
  /\ wk[r].pc = "sending"
  /\ AppCmd("play", Title(r))
  /\ wk' = [wk EXCEPT ![r] = [@ EXCEPT !.pc = "handoff", !.order = seq + 1]]
  /\ UNCHANGED <<table, tv, bx, shared>>
WNoApp(r) ==
  /\ wk[r].pc = "sending" /\ WkAt(r, "unseen")
  /\ UNCHANGED <<table, players, shared>>
WCheckOrder(r) ==
  /\ wk[r].pc = "handoff"
  /\ \/ /\ Superseded(r)
        /\ AppCmdClear(wk[r].order) /\ WkAt(r, "unseen")
     \/ /\ ~Superseded(r)
        /\ WkAt(r, "watching") /\ UNCHANGED cmd
  /\ UNCHANGED <<table, seq, tv, bx, shared>>
Taken(r) == tv.job = Title(r) /\ tv.acked >= wk[r].order
WSeen(r) ==
  /\ wk[r].pc = "watching"
  /\ WkAt(r, IF Taken(r) /\ tv.state = "playing" THEN "seen"
             ELSE IF Taken(r) /\ tv.state = "error" THEN "unseen" ELSE "handoff")
  /\ UNCHANGED <<table, players, shared>>
(* As if launch() gave up without taking its order back, or never gave up. *)
WDeadlineLeavesOrder(r) ==
  /\ wk[r].pc = "handoff" /\ WkAt(r, "unseen")
  /\ UNCHANGED <<table, players, shared>>
WNoDeadline(r) == wk[r].pc = "handoff" /\ FALSE

WDeadline(r) ==
  /\ wk[r].pc = "handoff"
  /\ AppCmdClear(wk[r].order) /\ WkAt(r, "unseen")
  /\ UNCHANGED <<table, seq, tv, bx, shared>>
WHandedOver(r) ==
  /\ wk[r].pc = "seen"
  /\ SetStage(Title(r), "playing") /\ WkEnd(r, "played")
  /\ UNCHANGED <<players, shared>>
WNotHandedOver(r) ==
  /\ wk[r].pc = "unseen"
  /\ SetStage(Title(r), "error") /\ WkEnd(r, "failed")
  /\ UNCHANGED <<players, shared>>

(* The browser path: decide how to serve the candidate, start the packager
   if it needs one, check once more and publish. *)
WDecide(r) ==
  /\ wk[r].pc = "prepared" /\ req[r].owner = "browser"
  /\ \/ NextCandidate(r)
     \/ StandDown(r)
     \/ /\ ~Superseded(r)
        /\ \E mode \in {"direct", "hls"} : WkAt(r, mode)
        /\ UNCHANGED table
  /\ UNCHANGED <<players, shared>>
WVerify(r) ==
  /\ wk[r].pc = "direct"
  /\ NextCandidate(r) \/ (WkAt(r, "last") /\ UNCHANGED table)
  /\ UNCHANGED <<players, shared>>
WBegin(r) ==
  /\ wk[r].pc = "hls"
  /\ \/ NextCandidate(r) /\ UNCHANGED bx
     \/ /\ bx' = [token |-> r, job |-> Title(r), gen |-> req[r].gen, state |-> "starting",
                  fresh |-> TRUE]
        /\ NextCandidate(r) \/ (WkAt(r, "lastHls") /\ UNCHANGED table)
  /\ UNCHANGED <<slot, tv, shared>>
WLastWord(r) ==
  /\ wk[r].pc \in {"last", "lastHls"}
  /\ \/ ~Superseded(r) /\ WkAt(r, "publish") /\ UNCHANGED table
     \/ wk[r].pc = "last" /\ StandDown(r)
     \/ /\ wk[r].pc = "lastHls" /\ Superseded(r)
        /\ SetStage(Title(r), "error") /\ WkAt(r, "unwind")
  /\ UNCHANGED <<players, shared>>
WUnwind(r) ==
  /\ wk[r].pc = "unwind"
  /\ IF bx.token = r THEN WkAt(r, "unwinding") ELSE WkEnd(r, "failed")
  /\ UNCHANGED <<table, players, shared>>
WUnwound(r) ==
  /\ wk[r].pc = "unwinding"
  /\ bx' = NoSession /\ WkEnd(r, "failed")
  /\ UNCHANGED <<table, slot, tv, shared>>
WPublishSession(r) ==
  /\ wk[r].pc = "publish"
  /\ bx' = [token |-> r, job |-> Title(r), gen |-> req[r].gen, state |-> "playing",
            fresh |-> TRUE]
  /\ WkAt(r, "published")
  /\ UNCHANGED <<table, slot, tv, shared>>
WPublishJob(r) ==
  /\ wk[r].pc = "published"
  /\ JobSet(Title(r), [job[Title(r)] EXCEPT !.stage = "playing", !.owner = "browser",
                                            !.otoken = r])
  /\ WkEnd(r, "played")
  /\ UNCHANGED <<players, shared>>

(* An uncaught error in a step that calls out of the process. *)
WRaise(r) ==
  /\ wk[r].pc \in {"buffering", "prepared", "encoding", "sending", "direct", "hls"}
  /\ SetStage(Title(r), "error") /\ WkEnd(r, "failed")
  /\ UNCHANGED <<players, shared>>

(***************************************************************************)
(* Control requests.                                                       *)
(***************************************************************************)

(* The tokens a page can hold: those of accepted browser plays. *)
Tokens == {r \in Requests : req[r].owner = "browser" /\ req[r].pc = "accepted"}

(* POST /api/stop *)
Stop(c) ==
  /\ ctl[c].pc = "idle" /\ "stop" \in Kinds
  /\ AppCmd("stop", None) /\ CtlAt(c, "stopClaim")
  /\ UNCHANGED <<table, playGen, cancelGen, inflight, tv, bx, req, wk>>
StopClaim(c) ==
  /\ ctl[c].pc = "stopClaim"
  /\ playGen' = playGen + 1 /\ CtlAt(c, "stopFind")
  /\ UNCHANGED <<table, cancelGen, inflight, players, req, wk>>
StopFind(c) ==
  /\ ctl[c].pc = "stopFind"
  /\ \E m \in Titles \cup {None} :
       /\ ActiveJob(m)
       /\ ctl' = [ctl EXCEPT ![c] = [@ EXCEPT !.amid = m,
                                     !.pc = IF m = None THEN "stopSession" ELSE "stopMark"]]
  /\ UNCHANGED <<table, playGen, cancelGen, inflight, players, req, wk>>
StopMark(c) ==
  /\ ctl[c].pc = "stopMark"
  /\ SetStage(ctl[c].amid, "error") /\ CtlAt(c, "stopSession")
  /\ UNCHANGED <<playGen, cancelGen, inflight, players, req, wk>>
StopSession(c) ==
  /\ ctl[c].pc = "stopSession"
  /\ bx' = NoSession /\ CtlEnd(c, "done")
  /\ UNCHANGED <<table, playGen, cancelGen, inflight, slot, tv, req, wk>>

(* POST /api/cancel: a browser's job is only cancelled by its own token. *)
NotYours(m, k) == job[m].owner = "browser" /\ job[m].otoken # k
Cancel(c) ==
  /\ ctl[c].pc = "idle" /\ "cancel" \in Kinds
  /\ \E m \in Titles \cup {None}, k \in Tokens \cup {None} :
       /\ ActiveJob(m)
       /\ \/ m = None /\ CtlAt(c, "cancelNone")
          \/ m # None /\ NotYours(m, k) /\ CtlEnd(c, "done")
          \/ /\ m # None /\ ~NotYours(m, k)
             /\ ctl' = [ctl EXCEPT ![c] = [@ EXCEPT !.pc = "cancelBump", !.amid = m]]
  /\ UNCHANGED <<table, playGen, cancelGen, inflight, players, req, wk>>
CancelInflight(c) ==
  /\ ctl[c].pc = "cancelNone"
  /\ \/ /\ inflight > 0
        /\ cancelGen' = cancelGen + 1 /\ CtlEnd(c, "cancelled")
     \/ /\ inflight = 0
        /\ CtlEnd(c, "done") /\ UNCHANGED cancelGen
  /\ UNCHANGED <<table, playGen, inflight, players, req, wk>>
CancelBump(c) ==
  /\ ctl[c].pc = "cancelBump"
  /\ cancelGen' = cancelGen + 1 /\ CtlAt(c, "cancelClaim")
  /\ UNCHANGED <<table, playGen, inflight, players, req, wk>>
CancelClaim(c) ==
  /\ ctl[c].pc = "cancelClaim"
  /\ playGen' = playGen + 1 /\ CtlAt(c, "cancelMark")
  /\ UNCHANGED <<table, cancelGen, inflight, players, req, wk>>
CancelMark(c) ==
  /\ ctl[c].pc = "cancelMark"
  /\ SetStage(ctl[c].amid, "error") /\ CtlEnd(c, "cancelled")
  /\ UNCHANGED <<playGen, cancelGen, inflight, players, req, wk>>

(* POST /api/bx/stop: the session and the job are matched on the token,
   independently of each other. *)
BxStop(c) ==
  /\ ctl[c].pc = "idle" /\ "bxStop" \in Kinds
  /\ \E k \in Tokens :
       ctl' = [ctl EXCEPT ![c].tok = k,
                          ![c].pc = IF bx.token = k THEN "bxTeardown" ELSE "bxFind"]
  /\ UNCHANGED <<table, playGen, cancelGen, inflight, players, req, wk>>
BxTeardown(c) ==
  /\ ctl[c].pc = "bxTeardown"
  /\ bx' = NoSession /\ CtlAt(c, "bxFind")
  /\ UNCHANGED <<table, playGen, cancelGen, inflight, slot, tv, req, wk>>
(* The jobs whose record carries the token, in the table's order. *)
Mine(k) == {t \in Titles : job[t].otoken = k /\ job[t].stage \in JobActive}
BxFind(c) ==
  LET mine == Mine(ctl[c].tok) IN
  /\ ctl[c].pc = "bxFind"
  /\ \/ mine = {} /\ CtlEnd(c, "done")
     \/ \E m \in mine : /\ \A t \in mine : born[m] <= born[t]
                        /\ ctl' = [ctl EXCEPT ![c] = [@ EXCEPT !.amid = m, !.pc = "bxClaim"]]
  /\ UNCHANGED <<table, playGen, cancelGen, inflight, players, req, wk>>
BxClaim(c) ==
  /\ ctl[c].pc = "bxClaim"
  /\ playGen' = playGen + 1 /\ CtlAt(c, "bxMark")
  /\ UNCHANGED <<table, cancelGen, inflight, players, req, wk>>
BxMark(c) ==
  /\ ctl[c].pc = "bxMark"
  /\ SetStage(ctl[c].amid, "error") /\ CtlEnd(c, "done")
  /\ UNCHANGED <<playGen, cancelGen, inflight, players, req, wk>>

(* POST /api/bx/beat: matched against the session in one critical section,
   written in the next. *)
Beat(c) ==
  /\ ctl[c].pc = "idle" /\ "beat" \in Kinds
  /\ \E k \in Tokens, s \in {"playing", "ended"} :
       IF bx.token = k /\ bx.gen = req[k].gen
       THEN ctl' = [ctl EXCEPT ![c] = [@ EXCEPT !.pc = "beatWrite", !.tok = k, !.state = s]]
       ELSE CtlEnd(c, "done")
  /\ UNCHANGED <<table, playGen, cancelGen, inflight, players, req, wk>>
BeatWrite(c) ==
  /\ ctl[c].pc = "beatWrite"
  /\ bx' = [bx EXCEPT !.state = ctl[c].state, !.fresh = TRUE]
  /\ CtlEnd(c, "done")
  /\ UNCHANGED <<table, playGen, cancelGen, inflight, slot, tv, req, wk>>

(***************************************************************************)
(* The players and the clock.                                              *)
(***************************************************************************)

(* The TV app's next heartbeat takes the order in the slot and acks it. *)
TvTake ==
  /\ cmd # NoCmd
  /\ \E s \in IF cmd.type = "play" THEN {"playing", "error"} ELSE {"idle"} :
       tv' = [job |-> cmd.job, state |-> s, acked |-> cmd.seq]
  /\ cmd' = NoCmd
  /\ UNCHANGED <<table, playGen, cancelGen, inflight, seq, bx, req, wk, ctl>>
(* A heartbeat reporting error marks the job it names. *)
TvError ==
  /\ tv.state = "error" /\ tv.job # None
  /\ SetStage(tv.job, "error")
  /\ tv' = [tv EXCEPT !.state = "idle"]
  /\ UNCHANGED <<playGen, cancelGen, inflight, slot, bx, req, wk, ctl>>
TvEnds ==
  /\ TvBusy
  /\ tv' = [tv EXCEPT !.state = "idle"]
  /\ UNCHANGED <<table, playGen, cancelGen, inflight, slot, bx, req, wk, ctl>>

(* BX_IDLE seconds without a beat, JOB_STALE seconds without a job_set. *)
BxIdle ==
  /\ bx.token # None /\ bx.fresh
  /\ bx' = [bx EXCEPT !.fresh = FALSE]
  /\ UNCHANGED <<table, playGen, cancelGen, inflight, slot, tv, req, wk, ctl>>
JobStale(t) ==
  /\ JobsGoStale /\ job[t].stage \in JobActive /\ job[t].fresh
  /\ job' = [job EXCEPT ![t].fresh = FALSE]
  /\ UNCHANGED <<born, playGen, cancelGen, inflight, players, req, wk, ctl>>

(***************************************************************************)
(* The specification.                                                      *)
(***************************************************************************)

RequestStep(r) ==
  \/ Enter(r) \/ ResolveRefused(r) \/ Resolved(r)
  \/ ClaimFirst(r) \/ ClaimSecond(r) \/ ClaimRefused(r)
  \/ FindOlder(r) \/ MarkOlder(r) \/ PlayClaim(r) \/ Register(r) \/ Finish(r) \/ Retire(r)
WorkerStep(r) ==
  \/ WTop(r) \/ WBuffer(r) \/ WOut(r) \/ WPrepared(r) \/ WNext(r)
  \/ WEncode(r) \/ WNoRoom(r) \/ WLaunching(r) \/ WLastCheck(r) \/ WSend(r) \/ WNoApp(r)
  \/ WCheckOrder(r) \/ WSeen(r) \/ WDeadline(r) \/ WHandedOver(r) \/ WNotHandedOver(r)
  \/ WDecide(r) \/ WVerify(r) \/ WBegin(r) \/ WLastWord(r) \/ WUnwind(r) \/ WUnwound(r)
  \/ WPublishSession(r) \/ WPublishJob(r) \/ WRaise(r)
ControlStep(c) ==
  \/ StopClaim(c) \/ StopFind(c) \/ StopMark(c) \/ StopSession(c)
  \/ CancelInflight(c) \/ CancelBump(c) \/ CancelClaim(c) \/ CancelMark(c)
  \/ BxTeardown(c) \/ BxFind(c) \/ BxClaim(c) \/ BxMark(c) \/ BeatWrite(c)

Next ==
  \/ \E r \in Requests : \/ \E t \in Titles : Attach(r, t)
                         \/ \E t \in Titles, o \in Owners : Arrive(r, t, o)
                         \/ AutoplayNext(r)
                         \/ RequestStep(r)
                         \/ WorkerStep(r) \/ WProgress(r)
  \/ \E c \in Controls : \/ Stop(c) \/ Cancel(c) \/ BxStop(c) \/ Beat(c)
                         \/ ControlStep(c)
  \/ TvTake \/ TvError \/ TvEnds \/ BxIdle
  \/ \E t \in Titles : JobStale(t)

Spec == Init /\ [][Next]_vars

(* Threads run: a request, a worker or a control handler that can take a
   step takes one, and launch()'s deadline ends the wait for the app. *)
Fairness ==
  /\ \A r \in Requests : /\ WF_vars(RequestStep(r)) /\ WF_vars(WorkerStep(r))
                         /\ SF_vars(WDeadline(r))
  /\ \A c \in Controls : WF_vars(ControlStep(c))
FairSpec == Spec /\ Fairness

(***************************************************************************)
(* Properties.                                                             *)
(***************************************************************************)

(* Every variable has its type. *)
TypeOK ==
  /\ job \in [Titles -> JobRecord] /\ born \in [Titles -> Nat]
  /\ playGen \in Nat /\ cancelGen \in Nat /\ inflight \in Int
  /\ cmd \in Command /\ seq \in Nat
  /\ tv \in TvReport /\ bx \in Session
  /\ req \in [Requests -> Request] /\ wk \in [Requests -> Worker]
  /\ ctl \in [Controls -> Control]

(* One play at a time: no two requests ever hold the same claim and none a
   claim that was not made yet, so of all the workers running at most one is
   not superseded (play_claim, superseded). *)
SoleClaimant ==
  \A r \in Requests :
    /\ req[r].gen <= playGen
    /\ \A s \in Requests : req[r].gen # 0 /\ req[s].gen = req[r].gen => r = s

(* A play order stays in the app's slot only while the worker that queued it
   is waiting for it: launch() takes it back on a timeout and when superseded,
   so an app that comes back later never starts a film nobody waits for. *)
Waiting == {"handoff", "watching"}
OrderHasWaiter ==
  cmd.type = "play" =>
    \E r \in Requests : /\ wk[r].pc \in Waiting /\ wk[r].order = cmd.seq
                        /\ Title(r) = cmd.job

(* The count of requests inside start_play(), which a cancel with no job to
   act on relies on, is exact on every path out of it, refusals included. *)
InPlay == {"resolving", "claim1", "claim2", "supersede", "mark", "claim", "register", "finish"}
InflightExact == inflight = Cardinality({r \in Requests : req[r].pc \in InPlay})

(* Once every thread has ended no job is left in an active stage, to be taken
   for a play still being prepared: whichever way a request, a worker, a stop
   and a cancel interleave, the last of them to write leaves it settled. *)
AtRest ==
  /\ \A r \in Requests : /\ req[r].pc \in {"idle", "attached", "refused", "accepted"}
                         /\ wk[r].pc \in {"none", "played", "failed"}
  /\ \A c \in Controls : ctl[c].pc \in {"idle", "done", "cancelled"}
RestIsSettled ==
  AtRest => \A t \in Titles : job[t].stage \notin JobActive

(* A worker whose claim has lapsed passes no further checkpoint: it is never
   seen moving from preparing a film to handing one over or publishing it. *)
Beyond == {"sending", "handoff", "watching", "seen", "publish", "published", "played"}
LapsedStaysBehind ==
  [][\A r \in Requests : Superseded(r) /\ wk[r].pc \notin Beyond => wk'[r].pc \notin Beyond]_vars

(* A job in an active stage leaves it, even when its worker is superseded,
   raises, or the TV app never answers. *)
JobsSettle ==
  \A t \in Titles : job[t].stage \in JobActive ~> job[t].stage \notin JobActive

(* Requests, workers and control handlers together implement PlayClaims. *)
Committed == {"sending", "handoff", "watching", "seen", "unseen", "publish", "published"}
Unwinding == {"unwind", "unwinding"}
StatusOf(r) ==
  CASE wk[r].pc \in Committed -> "committed"
    [] wk[r].pc = "none" /\ req[r].gen = 0 -> "waiting"
    [] wk[r].pc = "played" -> "shown"
    [] wk[r].pc = "failed" -> "over"
    [] wk[r].pc \in Unwinding -> "lapsed"
    [] OTHER -> IF Superseded(r) THEN "lapsed" ELSE "current"
Claims == INSTANCE PlayClaims WITH Plays <- Requests,
                                   status <- [r \in Requests |-> StatusOf(r)]
ClaimsSpec == Claims!Spec
=============================================================================
