------------------------------ MODULE Packager ------------------------------
(***************************************************************************)
(* The on-demand HLS packager of a browser session (bx_begin, bx_spawn,    *)
(* bx_restart and bx_stop_all of browser_session.py, the segment route of  *)
(* routes.py, transcode_start of transcode.py).                            *)
(*                                                                         *)
(* One ffmpeg at a time, a run, writes the segments of the film from its   *)
(* anchor on.  A request for a segment far from what is written is a seek: *)
(* after a debounce the thread that serves it kills the run, clears the    *)
(* directory and starts another run at the segment asked for.  A run's     *)
(* clock begins at zero, so that every segment served is stamped with the  *)
(* anchor in _bx.  Nothing in the bytes says which run wrote them.         *)
(*                                                                         *)
(* Locks are held for single reads and writes of _bx and the registry: all *)
(* else, the kills by name above all, interleaves.  A run is visible to a  *)
(* kill by name only some time after it was started.                       *)
(*                                                                         *)
(* The anchor stands for anchor and run_anchor, which are written together *)
(* (the second is a function of the first).  Left out: the regulator and   *)
(* its trim, init.mp4, and what a run writes beyond the last segment.      *)
(***************************************************************************)
EXTENDS Integers, Sequences, FiniteSets, FiniteSetsExt

CONSTANTS
  Tokens,       \* the sessions; one worker, a thread named as the session, begins each
  Requests,     \* request handler threads
  NoToken,
  Last,         \* the film's segments are 0..Last
  Lookahead,    \* BX_LOOKAHEAD
  MaxRequests   \* bound: segment requests in all

ASSUME ThreadsAssumption == Tokens \cap Requests = {} /\ NoToken \notin Tokens
ASSUME NumbersAssumption == Last \in Nat /\ Lookahead \in Nat /\ MaxRequests \in Nat

VARIABLES
  bx,           \* _bx
  dirs,         \* the sessions whose directory exists
  files,        \* the segment files in it
  registry,     \* _transcodes: the run registered for each session, or 0
  runs,         \* every ffmpeg started, in turn
  threads,      \* the threads in the packager
  stop,         \* the thread in bx_stop_all()
  asked,        \* bound: requests that arrived
  published,    \* history: how often bx_spawn() wrote the anchor of a session
  crossed,      \* history: two seeks met where no check separates them
  missed        \* history: a kill by name came before its process was visible

session == <<bx, dirs, files>>
history == <<published, crossed, missed>>
vars == <<session, registry, runs, threads, stop, asked, history>>

Segs    == 0..Last
NoSeg   == -1
Threads == Tokens \cup Requests

(* A segment file: the run that wrote it, and whether that run closed it. *)
File   == [run : Nat, whole : BOOLEAN]
NoFile == [run |-> 0, whole |-> FALSE]

Session == [token : Tokens \cup {NoToken}, anchor : Segs,
            seekGen : Nat, pending : Segs \cup {NoSeg}]
Idle    == [token |-> NoToken, anchor |-> 0, seekGen |-> 0, pending |-> NoSeg]

(* client is the docker-exec process of the server, state the ffmpeg in the
   container. *)
Run == [token : Tokens, anchor : Segs, at : Segs,
        state : {"starting", "running", "ended", "killed"}, client : BOOLEAN]

Spawning == {"clear", "publish", "start", "stopOld"}
Stages   == {"fresh", "look", "seek", "debounce", "settled", "kill", "recheck",
             "poll", "read", "stamp", "served", "done"} \cup Spawning
Thread   == [pc : Stages, token : Tokens \cup {NoToken}, k : Segs,
             gen : Nat, run : Nat, data : File, seen : Nat, stamp : Segs]
Fresh    == [pc |-> "fresh", token |-> NoToken, k |-> 0, gen |-> 0, run |-> 0,
             data |-> NoFile, seen |-> 0, stamp |-> 0]

Init ==
  /\ bx = Idle /\ dirs = {}
  /\ files = [t \in Tokens |-> [k \in Segs |-> NoFile]]
  /\ registry = [t \in Tokens |-> 0]
  /\ runs = <<>>
  /\ threads = [th \in Threads |-> Fresh]
  /\ stop = [pc |-> "ready", token |-> NoToken, run |-> 0]
  /\ asked = 0
  /\ published = [t \in Tokens |-> 0]
  /\ crossed = FALSE /\ missed = FALSE

-----------------------------------------------------------------------------
At(th, pc) == threads[th].pc = pc
Goto(th, pc) == threads' = [threads EXCEPT ![th].pc = pc]
(* Where a thread goes from bx_spawn() and bx_restart(): the request handler
   to its long poll, the worker back to its job. *)
Returns(th) == threads' = [threads EXCEPT ![th] =
  [@ EXCEPT !.pc = IF th \in Tokens THEN "done" ELSE "poll", !.gen = 0, !.run = 0]]
Mine(th) == bx.token = threads[th].token

Exists(t, k) == files[t][k] # NoFile
(* transcode_alive() knows the docker-exec client of the registered run. *)
Alive(t) == registry[t] # 0 /\ runs[registry[t]].client
(* Mutant: a file that exists is taken for complete. *)
CompleteExists(t, k) == Exists(t, k)
Complete(t, k) ==
  /\ Exists(t, k)
  /\ \/ k # Last /\ Exists(t, k + 1)
     \/ ~Alive(t)
Frontier(t) ==
  Max({bx.anchor - 1}
      \cup {k \in bx.anchor..(Last - 1) : Exists(t, k) /\ Exists(t, k + 1)})
Near(t, k) == Frontier(t) <= k /\ k <= Frontier(t) + Lookahead

(* _kill_ctr() finds the oldest visible process of the session's name, once
   or again for the entry `run` of the registry, and _stop() kills that
   entry's client, visible or not. *)
Visible(t) == {r \in DOMAIN runs : runs[r].token = t /\ runs[r].state = "running"}
Oldest(S) == IF S = {} THEN {} ELSE {Min(S)}
Killed(t, n) == LET first == Oldest(Visible(t))
                IN  IF n = 1 THEN first ELSE first \cup Oldest(Visible(t) \ first)
(* Mutant: only the docker-exec client is killed. *)
AfterKillClient(t, n, run) ==
  [r \in DOMAIN runs |-> [runs[r] EXCEPT !.client = @ /\ r # run]]
AfterKill(t, n, run) ==
  [r \in DOMAIN runs |->
     [runs[r] EXCEPT !.state  = IF r \in Killed(t, n) THEN "killed" ELSE @,
                     !.client = @ /\ r # run /\ r \notin Killed(t, n)]]

(* The steps between the last look a thread takes at pending_anchor or
   seek_gen and its process are checked by nothing. *)
Unchecked(th) ==
  At(th, "settled") \/ threads[th].pc \in Spawning
Rivals(th) == {o \in Threads \ {th} : threads[o].token = threads[th].token}

-----------------------------------------------------------------------------
(* bx_begin() by the worker of the job.  An earlier session that is idle, not
   stopped, is replaced as it stands. *)
BxBegin(t) ==
  /\ At(t, "fresh")
  /\ dirs' = dirs \cup {t}
  /\ bx' = [Idle EXCEPT !.token = t]
  /\ threads' = [threads EXCEPT ![t] = [@ EXCEPT !.pc = "clear", !.token = t]]
  /\ UNCHANGED <<files, registry, runs, stop, asked, history>>

(* Mutant: the files of the run before are left. *)
SpawnUncleared(th) ==
  /\ At(th, "clear")
  /\ IF Mine(th) THEN Goto(th, "publish") ELSE Returns(th)
  /\ UNCHANGED <<session, registry, runs, stop, asked, history>>

(* bx_spawn() reads the session and clears its segment files ... *)
SpawnClear(th) ==
  /\ At(th, "clear")
  /\ IF Mine(th)
     THEN /\ files' = [files EXCEPT ![threads[th].token] = [k \in Segs |-> NoFile]]
          /\ Goto(th, "publish")
     ELSE UNCHANGED files /\ Returns(th)
  /\ UNCHANGED <<bx, dirs, registry, runs, stop, asked, history>>

(* ... probes for the keyframe and publishes the anchor ... *)
SpawnPublish(th) ==
  /\ At(th, "publish")
  /\ IF Mine(th)
     THEN /\ bx' = [bx EXCEPT !.anchor = threads[th].k]
          /\ published' = [published EXCEPT ![bx.token] = @ + 1]
          /\ Goto(th, "start")
     ELSE UNCHANGED <<bx, published>> /\ Returns(th)
  /\ UNCHANGED <<dirs, files, registry, runs, stop, asked, crossed, missed>>

(* ... and starts the run: transcode_start() replaces the entry of the
   registry, drops those that have exited, and after the lock stops the run
   it replaced. *)
SpawnStart(th) ==
  LET t == threads[th].token
      new == Len(runs) + 1
  IN  /\ At(th, "start")
      /\ runs' = Append(runs, [token |-> t, anchor |-> threads[th].k,
                               at |-> threads[th].k, state |-> "starting",
                               client |-> TRUE])
      /\ registry' = [s \in Tokens |-> IF s = t THEN new
                                       ELSE IF Alive(s) THEN registry[s] ELSE 0]
      /\ IF registry[t] = 0
         THEN Returns(th)
         ELSE threads' = [threads EXCEPT ![th] =
                            [@ EXCEPT !.pc = "stopOld", !.run = registry[t]]]
      /\ UNCHANGED <<session, stop, asked, history>>

StopOld(th) ==
  /\ At(th, "stopOld")
  /\ runs' = AfterKill(threads[th].token, 1, threads[th].run)
  /\ missed' = (missed \/ runs[threads[th].run].state = "starting")
  /\ Returns(th)
  /\ UNCHANGED <<session, registry, stop, asked, published, crossed>>

-----------------------------------------------------------------------------
(* The segment route.  The page learns the url from the job that bx_begin()
   served; a token other than the session's is answered 404. *)
Arrive(q, k) ==
  /\ asked < MaxRequests
  /\ threads[q].pc \in {"fresh", "served"}
  /\ bx.token # NoToken /\ At(bx.token, "done")
  /\ asked' = asked + 1
  /\ threads' = [threads EXCEPT ![q] = [Fresh EXCEPT !.pc = "look", !.token = bx.token,
                                                     !.k = k]]
  /\ UNCHANGED <<session, registry, runs, stop, history>>

Found(q) == threads' = [threads EXCEPT ![q] =
              [@ EXCEPT !.pc = "read", !.seen = published[threads[q].token]]]
Answered(q) == threads' = [threads EXCEPT ![q] = Fresh]

Look(q) ==
  LET t == threads[q].token
      k == threads[q].k
  IN  /\ At(q, "look")
      /\ \/ Complete(t, k) /\ Found(q)
         \/ ~Complete(t, k) /\ ~Mine(q) /\ Answered(q)
         \/ ~Complete(t, k) /\ Mine(q) /\ Goto(q, IF Near(t, k) THEN "poll" ELSE "seek")
      /\ UNCHANGED <<session, registry, runs, stop, asked, history>>

Seek(q) ==
  /\ At(q, "seek")
  /\ IF Mine(q)
     THEN /\ bx' = [bx EXCEPT !.pending = threads[q].k, !.seekGen = @ + 1]
          /\ crossed' = (crossed \/ \E o \in Rivals(q) : Unchecked(o))
          /\ Goto(q, "debounce")
     ELSE UNCHANGED <<bx, crossed>> /\ Answered(q)
  /\ UNCHANGED <<dirs, files, registry, runs, stop, asked, published, missed>>

(* After BX_SEEK_DEBOUNCE: only the seek that is still pending restarts. *)
Settle(q) ==
  /\ At(q, "debounce")
  /\ Goto(q, IF Mine(q) /\ bx.pending = threads[q].k THEN "settled" ELSE "poll")
  /\ UNCHANGED <<session, registry, runs, stop, asked, history>>

(* bx_restart(): note seek_gen and the entry of the registry, ... *)
Restart(q) ==
  /\ At(q, "settled")
  /\ IF Mine(q)
     THEN /\ threads' = [threads EXCEPT ![q] =
                           [@ EXCEPT !.pc = "kill", !.gen = bx.seekGen,
                                     !.run = registry[bx.token]]]
          /\ crossed' = (crossed \/ \E o \in Rivals(q) :
                           \/ Unchecked(o)
                           \/ threads[o].pc \in {"kill", "recheck"}
                              /\ threads[o].gen = bx.seekGen)
     ELSE Returns(q) /\ UNCHANGED crossed
  /\ UNCHANGED <<session, registry, runs, stop, asked, published, missed>>

(* ... kill the run, ... *)
RestartKill(q) ==
  LET t == threads[q].token
  IN  /\ At(q, "kill")
      /\ runs' = AfterKill(t, IF threads[q].run = 0 THEN 1 ELSE 2, threads[q].run)
      /\ missed' = (missed \/ \E r \in DOMAIN runs :
                      runs[r].token = t /\ runs[r].state = "starting")
      /\ Goto(q, "recheck")
      /\ UNCHANGED <<session, registry, stop, asked, published, crossed>>

(* Mutant: seek_gen is not looked at again. *)
RecheckToken(q) ==
  /\ At(q, "recheck")
  /\ IF Mine(q) THEN Goto(q, "clear") ELSE Returns(q)
  /\ UNCHANGED <<session, registry, runs, stop, asked, history>>

(* ... and leave the rest to a newer seek, if there is one. *)
Recheck(q) ==
  /\ At(q, "recheck")
  /\ IF Mine(q) /\ bx.seekGen = threads[q].gen THEN Goto(q, "clear") ELSE Returns(q)
  /\ UNCHANGED <<session, registry, runs, stop, asked, history>>

Poll(q) ==
  /\ At(q, "poll")
  /\ Complete(threads[q].token, threads[q].k)
  /\ Found(q)
  /\ UNCHANGED <<session, registry, runs, stop, asked, history>>

(* The session or the play is gone, or BX_SEG_WAIT has passed. *)
PollEnds(q) ==
  /\ At(q, "poll")
  /\ Answered(q)
  /\ UNCHANGED <<session, registry, runs, stop, asked, history>>

Read(q) ==
  LET file == files[threads[q].token][threads[q].k]
  IN  /\ At(q, "read")
      /\ IF file = NoFile
         THEN Answered(q)
         ELSE threads' = [threads EXCEPT ![q] = [@ EXCEPT !.pc = "stamp", !.data = file]]
      /\ UNCHANGED <<session, registry, runs, stop, asked, history>>

(* Mutant: the token is not looked at again. *)
StampAnyway(q) ==
  /\ At(q, "stamp")
  /\ threads' = [threads EXCEPT ![q] = [Fresh EXCEPT !.pc = "served", !.stamp = bx.anchor]]
  /\ UNCHANGED <<session, registry, runs, stop, asked, history>>

Stamp(q) ==
  /\ At(q, "stamp")
  /\ IF Mine(q)
     THEN threads' = [threads EXCEPT ![q] =
                        [Fresh EXCEPT !.pc = "served", !.stamp = bx.anchor]]
     ELSE Answered(q)
  /\ UNCHANGED <<session, registry, runs, stop, asked, history>>

-----------------------------------------------------------------------------
(* bx_stop_all(): reset _bx, take the run out of the registry, kill it,
   remove the directory. *)
StopReset ==
  /\ stop.pc = "ready" /\ bx.token # NoToken
  /\ stop' = [stop EXCEPT !.pc = "pop", !.token = bx.token]
  /\ bx' = Idle
  /\ UNCHANGED <<dirs, files, registry, runs, threads, asked, history>>

StopPop ==
  /\ stop.pc = "pop"
  /\ stop' = [stop EXCEPT !.pc = "kill", !.run = registry[stop.token]]
  /\ registry' = [registry EXCEPT ![stop.token] = 0]
  /\ UNCHANGED <<session, runs, threads, asked, history>>

StopKill ==
  /\ stop.pc = "kill"
  /\ runs' = AfterKill(stop.token, IF stop.run = 0 THEN 1 ELSE 2, stop.run)
  /\ stop' = [stop EXCEPT !.pc = "remove"]
  /\ UNCHANGED <<session, registry, threads, asked, history>>

StopRemove ==
  /\ stop.pc = "remove"
  /\ dirs' = dirs \ {stop.token}
  /\ files' = [files EXCEPT ![stop.token] = [k \in Segs |-> NoFile]]
  /\ stop' = [stop EXCEPT !.pc = "over"]
  /\ UNCHANGED <<bx, registry, runs, threads, asked, history>>

-----------------------------------------------------------------------------
(* ffmpeg.  It opens a segment, and closes it when it opens the next; the
   files of a directory that is gone cannot be opened, and a file that was
   deleted or replaced is closed where nobody sees it. *)
Ends(r) == [runs EXCEPT ![r].state = "ended", ![r].client = FALSE]

Appear(r) ==
  LET t == runs[r].token
  IN  /\ runs[r].state = "starting"
      /\ IF t \in dirs
         THEN /\ files' = [files EXCEPT ![t][runs[r].anchor] = [run |-> r, whole |-> FALSE]]
              /\ runs' = [runs EXCEPT ![r].state = "running"]
         ELSE UNCHANGED files /\ runs' = Ends(r)
      /\ UNCHANGED <<bx, dirs, registry, threads, stop, asked, history>>

(* Its client was killed before docker started it. *)
NeverStarts(r) ==
  /\ runs[r].state = "starting" /\ ~runs[r].client
  /\ runs' = [runs EXCEPT ![r].state = "killed"]
  /\ UNCHANGED <<session, registry, threads, stop, asked, history>>

Write(r) ==
  LET t == runs[r].token
      k == runs[r].at
      closed == IF files[t][k].run = r
                THEN [files[t] EXCEPT ![k].whole = TRUE] ELSE files[t]
  IN  /\ runs[r].state = "running"
      /\ IF t \in dirs /\ k < Last
         THEN /\ files' = [files EXCEPT ![t] =
                             [closed EXCEPT ![k + 1] = [run |-> r, whole |-> FALSE]]]
              /\ runs' = [runs EXCEPT ![r].at = k + 1]
         ELSE /\ files' = [files EXCEPT ![t] = closed]
              /\ runs' = Ends(r)
      /\ UNCHANGED <<bx, dirs, registry, threads, stop, asked, history>>

-----------------------------------------------------------------------------
Spawn(th) == SpawnClear(th) \/ SpawnPublish(th) \/ SpawnStart(th) \/ StopOld(th)
Request(q) ==
  \/ \E k \in Segs : Arrive(q, k)
  \/ Look(q) \/ Seek(q) \/ Settle(q)
  \/ Restart(q) \/ RestartKill(q) \/ Recheck(q)
  \/ Poll(q) \/ PollEnds(q) \/ Read(q) \/ Stamp(q)
StopAll == StopReset \/ StopPop \/ StopKill \/ StopRemove
Ffmpeg(r) == Appear(r) \/ NeverStarts(r) \/ Write(r)

Next ==
  \/ \E t \in Tokens : BxBegin(t)
  \/ \E th \in Threads : Spawn(th)
  \/ \E q \in Requests : Request(q)
  \/ StopAll
  \/ \E r \in DOMAIN runs : Ffmpeg(r)

Spec == Init /\ [][Next]_vars

-----------------------------------------------------------------------------
TypeOK ==
  /\ bx \in Session
  /\ dirs \in SUBSET Tokens
  /\ files \in [Tokens -> [Segs -> File]]
  /\ registry \in [Tokens -> 0..Len(runs)]
  /\ runs \in Seq(Run)
  /\ threads \in [Threads -> Thread]
  /\ stop \in [pc : {"ready", "pop", "kill", "remove", "over"},
               token : Tokens \cup {NoToken}, run : 0..Len(runs)]
  /\ asked \in 0..MaxRequests
  /\ published \in [Tokens -> Nat]
  /\ crossed \in BOOLEAN /\ missed \in BOOLEAN

(* What bx_spawn() clears the directory for: every segment file of the live
   session belongs to a run whose anchor is the one published. *)
OfTheRun(t) == \A k \in Segs :
  Exists(t, k) => runs[files[t][k].run].anchor = bx.anchor
FilesOfTheRun == bx.token # NoToken => OfTheRun(bx.token)

(* As long as every kill by name sees the run it is meant for. *)
FilesUnlessMissed == ~missed => FilesOfTheRun

(* Unless two seeks met in a window that no check closes, the files of the
   live session are the current run's: through every seek, however the kills,
   the clearing, the publication and the writing of ffmpeg fall. *)
Orderly == ~crossed /\ ~missed
CleanUnlessCrossed == Orderly => FilesOfTheRun

(* Once no seek is under way the packager is at the last place asked for,
   whatever the order in which a burst of seeks settled, restarted and gave
   up: the one seek_gen and pending_anchor exist to let through. *)
Underway == {"debounce", "settled", "kill", "recheck"} \cup Spawning
LastSeekWins ==
  /\ Orderly
  /\ \A q \in Requests : ~(Mine(q) /\ threads[q].pc \in Underway)
  => bx.pending \in {NoSeg, bx.anchor}

(* A segment served carries the anchor of the run that wrote it, also when
   its session was stopped or replaced meanwhile, unless another run of that
   session was published after the segment was found complete. *)
Overtaken(q) == ~Orderly \/ published[threads[q].token] # threads[q].seen
Serves(q) == At(q, "stamp") /\ threads'[q].pc = "served"
StampOfItsRun == [][\A q \in Requests : Serves(q) /\ ~Overtaken(q) =>
  runs[threads[q].data.run].anchor = threads'[q].stamp]_vars

(* Nor is a file handed out that ffmpeg is still writing, with the same
   exception: a file without its end is one whose run is over. *)
NeverHalfWritten == [][\A q \in Requests : Serves(q) /\ ~Overtaken(q) =>
  \/ threads[q].data.whole
  \/ runs[threads[q].data.run].state # "running"]_vars

(* No ffmpeg writes that the registry has lost: it is registered, about to be
   stopped by the thread that took it out, or without a directory. *)
NoStrayRun == Orderly => \A r \in DOMAIN runs :
  runs[r].state = "running" =>
    \/ registry[runs[r].token] = r
    \/ \E th \in Threads : At(th, "stopOld") /\ threads[th].run = r
    \/ stop.token = runs[r].token

(* The run a restart starts is not the one it kills: transcode_start() stops
   "old", the run it replaced. *)
StopsOnlyTheOld == [][\A th \in Threads :
  At(th, "stopOld") /\ threads'[th].pc # "stopOld" =>
    \A r \in DOMAIN runs :
      runs[r].state # runs'[r].state => r = threads[th].run]_vars
=============================================================================
