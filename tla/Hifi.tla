-------------------------------- MODULE Hifi --------------------------------
(***************************************************************************)
(* Hi-fi audio: a film's soundtrack is played by a network player in step  *)
(* with the TV.  Three parties:                                            *)
(*   - the heartbeat handler of the server, which decides from what the TV *)
(*     reports (tvlink.py, app_heartbeat), and the play job that names the *)
(*     film (jobs.py).  They only change _hifi and queue;                  *)
(*   - the server's worker (sendspin.py, _ss_worker), one thread that works*)
(*     the queue off, one call to the bridge at a time, and polls /status; *)
(*   - the bridge (sendspin_bridge.py), another process, that holds the    *)
(*     player, the decoder with its cache file and the push of the one to  *)
(*     the other.  Its lock is what a start holds from "locked" on.        *)
(* Generations tie them: every change of mind of the server is a new one.  *)
(*                                                                         *)
(* t0_us is the generation of the push it was read from, 0 for None; it is *)
(* set exactly when "streaming" is.  Left out: the trim, the volume, which *)
(* player and track, clock offsets, and a timeline that slips.  A restart  *)
(* gap is over at the next /status.                                        *)
(***************************************************************************)
EXTENDS Integers, Sequences, SequencesExt

CONSTANTS
  Films, None,
  MaxMoves,     \* what the viewer does with the film on screen
  MaxPlays,     \* plays that commit to a film
  MaxFaults,    \* replies lost; decoders, players, bridges and servers that die
  MaxGen        \* generations: starts beyond it are not made; not reached

ASSUME NoneAssumption == None \notin Films
ASSUME BoundsAssumption == {MaxMoves, MaxPlays, MaxFaults, MaxGen} \subseteq Nat

VARIABLES
  tv,           \* what the TV last reported: state, film and whether its track is at the end
  prep,         \* the film a job prepares, or None
  saved,        \* nowplaying's hifi_src
  hifi,         \* _hifi
  ssq,          \* _ss_q
  worker,       \* the call the worker makes, and the reply
  bridge,       \* STATE of the bridge, and its player
  starts,       \* the calls of /start the bridge works on, in order of arrival
  watch,        \* cache_watch() has seen something playing
  spent,        \* bounds
  forgotten     \* history: the newest generation whose push the server may have let run

vars == <<tv, prep, saved, hifi, ssq, worker, bridge, starts, watch, spent, forgotten>>
served == <<hifi, ssq>>

Idle == [act |-> "none", film |-> None, gen |-> 0, late |-> FALSE, step |-> "none", reply |-> None,
         body |-> None]
Off  == [gen |-> 0, push |-> 0, live |-> FALSE, film |-> None, decoder |-> "none",
         conn |-> FALSE, late |-> FALSE, track |-> None]

Init ==
  /\ tv = [state |-> "idle", film |-> None, late |-> FALSE]
  /\ prep = None /\ saved = None
  /\ hifi = [on |-> TRUE, gen |-> 1, t0 |-> 0, pending |-> FALSE, connected |-> FALSE,
             src |-> None, done |-> FALSE, cache |-> None, gap |-> FALSE]
  /\ ssq = <<>> /\ worker = Idle /\ bridge = Off /\ starts = <<>>
  /\ watch = FALSE
  /\ spent = [moves |-> 0, plays |-> 0, faults |-> 0]
  /\ forgotten = 0

Spend(what, max) == /\ spent[what] < max
                    /\ spent' = [spent EXCEPT ![what] = @ + 1]
Fault == Spend("faults", MaxFaults)

(***************************************************************************)
(* The server's record.                                                    *)
(***************************************************************************)
Invalidated(h) == [h EXCEPT !.gen = @ + 1, !.t0 = 0, !.pending = FALSE, !.done = FALSE]
Released(h)    == [Invalidated(h) EXCEPT !.connected = FALSE, !.src = None, !.cache = None]
Failed(h)      == [h EXCEPT !.pending = FALSE, !.t0 = 0]
Went(h, g)     == [h EXCEPT !.t0 = g, !.pending = FALSE]

Live(h)   == h.t0 # 0
Active(h) == Live(h) \/ h.pending
TrackOver(h, t) == h.cache = h.src /\ t.late

Order(act)   == [act |-> act, film |-> None, gen |-> 0, late |-> FALSE]
Queue(order) == ssq' = Append(ssq, order)

(***************************************************************************)
(* The play job and the end of playback.                                   *)
(***************************************************************************)

PushAbout == bridge.push # 0 \/ starts # <<>>
(* A prepare for that film lets a push of it be, and what is started for it. *)
PushOf(f) == (bridge.push # 0 /\ bridge.track = f) \/ \E i \in DOMAIN starts : starts[i].film = f

(* A job commits to a film.  The film before it may still be on screen. *)
NewSource(f) ==
  /\ Spend("plays", MaxPlays)
  /\ prep' = f
  /\ hifi' = [Invalidated(hifi) EXCEPT !.src = IF hifi.on THEN f ELSE None]
  /\ IF hifi.on THEN Queue([Order("prepare") EXCEPT !.film = f, !.gen = hifi.gen + 1])
     ELSE UNCHANGED ssq
  /\ forgotten' = IF PushOf(f) THEN hifi.gen ELSE forgotten
  /\ UNCHANGED <<tv, saved, worker, bridge, starts, watch>>

(* The job ends: the TV shows its film, or not. *)
Launched ==
  /\ prep # None /\ tv.film = prep
  /\ saved' = IF hifi.on THEN prep ELSE None
  /\ prep' = None
  /\ UNCHANGED <<tv, served, worker, bridge, starts, watch, spent, forgotten>>
PlayFails ==
  /\ prep # None /\ tv.film # prep
  /\ prep' = None
  /\ UNCHANGED <<tv, saved, served, worker, bridge, starts, watch, spent, forgotten>>

Release(h) == hifi' = Released(h) /\ Queue(Order("release"))

(* The stop of /api/stop and of a superseding play: tv_stop(). *)
TvStop ==
  /\ Spend("moves", MaxMoves)
  /\ tv' = [tv EXCEPT !.state = "idle", !.film = None]
  /\ prep' = None
  /\ Release(hifi)
  /\ UNCHANGED <<saved, worker, bridge, starts, watch, forgotten>>

OnScreen(t) == t.state \in {"playing", "paused"}
WatchReleases ==
  /\ watch /\ ~OnScreen(tv) /\ prep = None
  /\ watch' = FALSE
  /\ Release(hifi)
  /\ UNCHANGED <<tv, prep, saved, worker, bridge, starts, spent, forgotten>>

(***************************************************************************)
(* The heartbeat.  "ended" stands for an error too, "paused" for buffering,*)
(* "off" for a film that plays with hi-fi turned off.                      *)
(***************************************************************************)
Moves(t) ==
  CASE t.state = "playing" -> {[t EXCEPT !.state = s] : s \in {"paused", "ended", "off"}}
                              \cup {[t EXCEPT !.late = TRUE]}
    [] t.state = "paused"  -> {[t EXCEPT !.state = "playing"]}
    [] t.state = "off"     -> {[t EXCEPT !.state = "playing"]}
    [] OTHER               -> {}
Exits(t) == IF t.state = "idle" THEN {}
            ELSE {[state |-> "idle", film |-> None, late |-> FALSE]}
Shows == IF prep = None \/ tv.film = prep THEN {}
         ELSE {[state |-> "playing", film |-> prep, late |-> FALSE]}

(* One beat more, with news or without.  The watch sees every film: one that
   is left before it has been by is not modelled.  What the viewer does comes after
   launch() has seen the film on the TV. *)
Reports(t) == \/ t = tv /\ UNCHANGED <<tv, spent>>
              \/ tv' = t /\ t \in Shows /\ UNCHANGED spent
              \/ /\ tv' = t /\ t \in Moves(tv) \cup Exits(tv) /\ tv.film # prep
                 /\ Spend("moves", MaxMoves)
Heard(t) == [hifi EXCEPT !.on = t.state # "off"]

BeatIdle(t) ==
  /\ t.state \in {"idle", "ended", "off"}
  /\ \/ t.state = "idle" /\ hifi.src # None /\ ~Active(hifi)
        /\ hifi' = Heard(t) /\ UNCHANGED ssq
     \/ ~(t.state = "idle" /\ hifi.src # None /\ ~Active(hifi))
        /\ IF Active(hifi) \/ hifi.connected
           THEN hifi' = [Invalidated(Heard(t)) EXCEPT !.connected = FALSE]
                /\ Queue(Order("release"))
           ELSE hifi' = Heard(t) /\ UNCHANGED ssq

BeatPausedUntold(t) ==
  /\ t.state = "paused"
  /\ hifi' = (IF Active(hifi) THEN Invalidated(Heard(t)) ELSE Heard(t)) /\ UNCHANGED ssq
BeatPaused(t) ==
  /\ t.state = "paused"
  /\ IF Active(hifi) THEN hifi' = Invalidated(Heard(t)) /\ Queue(Order("stop"))
     ELSE hifi' = Heard(t) /\ UNCHANGED ssq

Begin(h, t) ==
  /\ h.gen < MaxGen
  /\ hifi' = [Invalidated(h) EXCEPT !.pending = TRUE, !.gap = TRUE]
  /\ Queue([act |-> "start", film |-> h.src, gen |-> h.gen + 1, late |-> t.late])

(* The state of a film that plays, h being the record the beat found, or made
   of it for a seek. *)
BeatAudio(h, t, seek) ==
  \/ (h.done \/ Active(h)) /\ hifi' = h /\ UNCHANGED ssq
  \/ /\ ~h.done /\ ~Active(h)
     /\ \/ /\ TrackOver(h, t)
           /\ hifi' = [Invalidated(h) EXCEPT !.done = TRUE, !.connected = FALSE]
           /\ Queue(Order("release"))
        \/ ~TrackOver(h, t) /\ (seek \/ ~h.gap) /\ Begin(h, t)
        \/ ~TrackOver(h, t) /\ ~seek /\ h.gap /\ hifi' = h /\ UNCHANGED ssq

BeatPlaying(t) ==
  /\ t.state = "playing"
  /\ IF t.film # hifi.src THEN hifi' = Heard(t) /\ UNCHANGED ssq
     ELSE BeatAudio(Heard(t), t, FALSE)

Beat(t) ==
  /\ Reports(t)
  /\ BeatIdle(t) \/ BeatPaused(t) \/ BeatPlaying(t)
  /\ watch' = (watch \/ OnScreen(t))
  /\ UNCHANGED <<prep, saved, worker, bridge, starts, forgotten>>

(* A beat whose seek_seq is new. *)
SeekTo(late) ==
  /\ Spend("moves", MaxMoves)
  /\ tv.state = "playing" /\ tv.film = hifi.src /\ tv.film # prep
  /\ tv' = [tv EXCEPT !.late = late]
  /\ BeatAudio(Invalidated(hifi), tv', TRUE)
  /\ UNCHANGED <<prep, saved, worker, bridge, starts, watch, forgotten>>

(* HIFI_START_TIMEOUT_S is longer than a start takes, and polls are made all
   along: it passes for a start the bridge never had, or, as a fault, for a
   slow one. *)
UnderWay(g) == \/ \E i \in DOMAIN ssq : ssq[i].gen = g
               \/ worker.gen = g
               \/ \E i \in DOMAIN starts : starts[i].gen = g
               \/ bridge.gen = g
StartTimesOut ==
  /\ tv.state = "playing" /\ tv.film = hifi.src /\ hifi.pending
  /\ IF UnderWay(hifi.gen) THEN Fault ELSE UNCHANGED spent
  /\ BeatAudio([Failed(hifi) EXCEPT !.gap = FALSE], tv, FALSE)
  /\ UNCHANGED <<tv, prep, saved, worker, bridge, starts, watch, forgotten>>

(***************************************************************************)
(* The worker.  Its step is the call it makes; its reply is None until the *)
(* bridge has answered, and what a call that was lost leaves is "lost".    *)
(***************************************************************************)
Stale(order) == \/ order.act = "start" /\ order.gen # hifi.gen
                \/ order.act = "prepare" /\ (order.gen # hifi.gen \/ order.film # hifi.src)
Call(order, step) ==
  worker' = [act |-> order.act, film |-> order.film, gen |-> order.gen, late |-> order.late,
             step |-> step, reply |-> None, body |-> None]
Rest == worker' = Idle

Take ==
  /\ worker.act = "none" /\ ssq # <<>>
  /\ ssq' = Tail(ssq)
  /\ LET order == Head(ssq) IN
       IF Stale(order) THEN UNCHANGED worker
       ELSE Call(order, IF order.act \in {"start", "prepare"} THEN "connect" ELSE order.act)
  /\ UNCHANGED <<tv, prep, saved, hifi, bridge, starts, watch, spent, forgotten>>

Poll ==
  /\ worker.act = "none" /\ ssq = <<>>
  /\ hifi.on /\ (hifi.pending \/ OnScreen(tv))
  /\ Call(Order("status"), "status")
  /\ UNCHANGED <<tv, prep, saved, served, bridge, starts, watch, spent, forgotten>>

(* The call is made, and is at the bridge. *)
StartArrives(order) ==
  starts' = Append(starts, [gen |-> order.gen, film |-> order.film,
                            late |-> order.late, at |-> "queued"])

Hears(step) == worker.step = step /\ worker.reply # None
Connected == worker.reply = "ok"

HearConnect ==
  /\ Hears("connect")
  /\ \/ /\ worker.act = "prepare"
        /\ hifi' = [hifi EXCEPT !.connected = Connected]
        /\ IF Stale(worker) THEN Rest ELSE Call(worker, "prepare")
        /\ UNCHANGED starts
     \/ /\ worker.act = "start"
        /\ LET h == [hifi EXCEPT !.connected = @ \/ Connected] IN
             IF Stale(worker) THEN hifi' = h /\ Rest /\ UNCHANGED starts
             ELSE IF Connected
             THEN hifi' = h /\ Call(worker, "start") /\ StartArrives(worker)
             ELSE /\ hifi' = (IF worker.reply = "error" THEN Failed(h) ELSE h)
                  /\ Rest /\ UNCHANGED starts
  /\ UNCHANGED <<tv, prep, saved, ssq, bridge, watch, spent, forgotten>>

HearStart ==
  /\ Hears("start")
  /\ hifi' = IF Stale(worker) THEN hifi
             ELSE CASE worker.reply = "live"  -> [Went(hifi, worker.gen) EXCEPT !.connected = TRUE]
                    [] worker.reply = "error" -> Failed(hifi)
                    [] OTHER                  -> hifi      \* pending, or lost
  /\ Rest
  /\ UNCHANGED <<tv, prep, saved, ssq, bridge, starts, watch, spent, forgotten>>

HearRelease ==
  /\ Hears("release")
  /\ hifi' = [hifi EXCEPT !.connected = FALSE]
  /\ Rest
  /\ UNCHANGED <<tv, prep, saved, ssq, bridge, starts, watch, spent, forgotten>>

(* _hifi_apply_status(). *)
Silent(h, body) ==
  IF Live(h) THEN Invalidated(h)
  ELSE IF h.pending /\ ~body.pending THEN Failed(h)
  ELSE h
FoldedUnlost(body) ==
  LET h == [hifi EXCEPT !.connected = body.conn, !.cache = body.complete, !.gap = FALSE] IN
  IF body.gen # h.gen THEN h ELSE IF body.t0 # 0 THEN Went(h, body.t0) ELSE Silent(h, body)
FoldedAnyGen(body) ==
  LET h == [hifi EXCEPT !.connected = body.conn, !.cache = body.complete, !.gap = FALSE] IN
  IF body.t0 # 0 THEN Went(h, body.t0) ELSE Silent(h, body)
StatusFolded(body) ==
  LET h == [hifi EXCEPT !.connected = body.conn, !.cache = body.complete, !.gap = FALSE] IN
  IF body.gen # h.gen THEN (IF Live(h) THEN Invalidated(h) ELSE h)
  ELSE IF body.t0 # 0 THEN Went(h, body.t0)
  ELSE Silent(h, body)
HearStatus ==
  /\ Hears("status")
  /\ hifi' = IF worker.reply = "lost" THEN hifi ELSE StatusFolded(worker.body)
  /\ Rest
  /\ UNCHANGED <<tv, prep, saved, ssq, bridge, starts, watch, spent, forgotten>>

(* The reply to a call is lost, or does not come in time: /start is the one
   that can outlast its caller. *)
LoseReply ==
  /\ worker.act # "none"
  /\ \/ worker.reply \notin {None, "lost"}
     \/ worker.reply = None /\ worker.step = "start"
  /\ Fault
  /\ worker' = [worker EXCEPT !.reply = "lost"]
  /\ UNCHANGED <<tv, prep, saved, served, bridge, starts, watch, forgotten>>

(***************************************************************************)
(* The bridge.                                                             *)
(***************************************************************************)
Answer(reply) == worker' = [worker EXCEPT !.reply = reply]
Asked(step)   == worker.step = step /\ worker.reply = None

(* The lock is handed on in order of arrival: a call made now comes after the
   starts that are there. *)
LockFree == \A i \in DOMAIN starts : starts[i].at = "waiting"

NoPush(b)    == [b EXCEPT !.push = 0, !.live = FALSE, !.track = None]
NoDecoder(b) == [b EXCEPT !.film = None, !.decoder = "none"]
StaysConnected(b, keep_cache) == IF keep_cache THEN NoPush(b) ELSE NoDecoder(NoPush(b))
Disconnected(b, keep_cache) ==
  LET c == [NoPush(b) EXCEPT !.conn = FALSE] IN IF keep_cache THEN c ELSE NoDecoder(c)

NewDecoderUnder(b, f) == [NoDecoder(b) EXCEPT !.film = f, !.decoder = "running"]

(* _ensure_decoder(): Decoder.has() holds of what is decoded or will be soon. *)
MayHave(b, f)  == b.film = f /\ b.decoder # "behind"
NewDecoder(b, f) == [NoDecoder(NoPush(b)) EXCEPT !.film = f, !.decoder = "running"]
EnsureDecoder(b, f) == (IF MayHave(b, f) THEN {b} ELSE {}) \cup {NewDecoder(b, f)}

BridgeOnly == UNCHANGED <<tv, prep, saved, served, watch, forgotten>>

AnswerConnect ==
  /\ Asked("connect")
  /\ \/ bridge.conn /\ Answer("ok") /\ UNCHANGED <<bridge, spent>>
     \/ /\ ~bridge.conn /\ LockFree
        /\ \/ bridge' = [Disconnected(bridge, TRUE) EXCEPT !.conn = TRUE]
              /\ Answer("ok") /\ UNCHANGED spent
           \/ bridge' = Disconnected(bridge, TRUE) /\ Answer("error") /\ Fault
  /\ BridgeOnly /\ UNCHANGED starts

(* Nobody looks at the answers to /prepare and /stop. *)
AnswerPrepare ==
  /\ Asked("prepare") /\ LockFree
  /\ \/ bridge' \in EnsureDecoder(bridge, worker.film) /\ UNCHANGED spent
     \/ bridge' = NoDecoder(NoPush(bridge)) /\ Fault                  \* no ffmpeg
  /\ Rest
  /\ BridgeOnly /\ UNCHANGED starts

AnswerStop ==
  /\ Asked("stop") /\ LockFree
  /\ bridge' = NoPush(bridge)
  /\ Rest
  /\ BridgeOnly /\ UNCHANGED <<starts, spent>>

AnswerRelease ==
  /\ Asked("release") /\ LockFree
  /\ bridge' = Disconnected(bridge, FALSE)
  /\ Answer("ok")
  /\ BridgeOnly /\ UNCHANGED <<starts, spent>>

Streaming == bridge.conn /\ bridge.push # 0 /\ bridge.live
AnswerStatus ==
  /\ Asked("status")
  /\ worker' = [worker EXCEPT !.reply = "ok", !.body =
       [conn     |-> bridge.conn,
        gen      |-> IF bridge.push # 0 THEN bridge.push ELSE bridge.gen,
        t0       |-> IF Streaming THEN bridge.push ELSE 0,
        pending  |-> bridge.push # 0 /\ ~bridge.live,
        complete |-> IF bridge.decoder = "complete" THEN bridge.film ELSE None]]
  /\ BridgeOnly /\ UNCHANGED <<bridge, starts, spent>>

(* handle_start(): it takes the lock, retires the push and looks
   for the player; it has its decoder and pushes; it waits for the first
   audio, without the lock, and answers. *)
(* The handler's answer, to a caller that may have given up. *)
Returns(i, reply) ==
  /\ starts' = RemoveAt(starts, i)
  /\ IF Asked("start") /\ worker.gen = starts[i].gen THEN Answer(reply) ELSE UNCHANGED worker

StartLocks(i) ==
  /\ starts[i].at = "queued"
  /\ \A j \in 1..i-1 : starts[j].at = "waiting"
  /\ \A j \in DOMAIN starts : starts[j].at # "locked"
  /\ bridge' = [NoPush(bridge) EXCEPT !.gen = starts[i].gen]
  /\ IF bridge.conn THEN starts' = [starts EXCEPT ![i].at = "locked"] /\ UNCHANGED worker
     ELSE Returns(i, "error")
  /\ BridgeOnly /\ UNCHANGED spent

StartPushes(i) ==
  /\ starts[i].at = "locked"
  /\ \/ /\ \E b \in EnsureDecoder(bridge, starts[i].film) :
             bridge' = [b EXCEPT !.push = starts[i].gen, !.late = starts[i].late,
                               !.track = starts[i].film]
        /\ starts' = [starts EXCEPT ![i].at = "waiting"]
        /\ UNCHANGED <<worker, spent>>
     \/ bridge' = NoDecoder(bridge) /\ Returns(i, "error") /\ Fault   \* no ffmpeg
  /\ BridgeOnly

StartAnswers(i) ==
  /\ starts[i].at = "waiting"
  /\ \/ bridge.push = starts[i].gen
        /\ Returns(i, IF bridge.live THEN "live" ELSE "pending") /\ UNCHANGED bridge
     \/ bridge.push # starts[i].gen /\ LockFree
        /\ bridge' = (IF bridge.gen = starts[i].gen THEN NoPush(bridge) ELSE bridge)
        /\ Returns(i, "error")
  /\ BridgeOnly /\ UNCHANGED spent

(* _push_loop() and _decode_loop(). *)
GoesLive ==
  /\ bridge.push # 0 /\ ~bridge.live /\ bridge.decoder \in {"running", "complete"}
  /\ bridge.late => bridge.decoder = "running"
  /\ bridge' = [bridge EXCEPT !.live = TRUE]
  /\ BridgeOnly /\ UNCHANGED <<worker, starts, spent>>

DecoderEnds ==
  /\ bridge.decoder = "running"
  /\ tv.late \/ bridge.late
  /\ bridge' = [bridge EXCEPT !.decoder = "complete"]
  /\ BridgeOnly /\ UNCHANGED <<worker, starts, spent>>

DecoderFails ==
  /\ bridge.decoder = "running" /\ Fault
  /\ bridge' = [bridge EXCEPT !.decoder = "failed"]
  /\ BridgeOnly /\ UNCHANGED <<worker, starts>>

(* The push ends of itself: the track is over, or its decoder failed. *)
PushEnds ==
  /\ bridge.push # 0
  /\ \/ /\ bridge.decoder = "complete" /\ (tv.late \/ bridge.late)
        /\ bridge' = NoPush(bridge)
     \/ /\ bridge.decoder = "failed"
        /\ bridge' = [NoPush(bridge) EXCEPT !.decoder = "behind"]
  /\ BridgeOnly /\ UNCHANGED <<worker, starts, spent>>

(* It comes back through /connect only. *)
PlayerDrops ==
  /\ bridge.conn /\ Fault
  /\ bridge' = [bridge EXCEPT !.conn = FALSE]
  /\ BridgeOnly /\ UNCHANGED <<worker, starts>>

BridgeRestarts ==
  /\ Fault
  /\ bridge' = Off /\ starts' = <<>>
  /\ worker' = IF worker.step \in {"prepare", "stop"} THEN Idle
               ELSE IF worker.act # "none" /\ worker.reply = None
               THEN [worker EXCEPT !.reply = "lost"] ELSE worker
  /\ BridgeOnly

ServerRestarts ==
  /\ Fault
  /\ hifi' = [on |-> FALSE, gen |-> hifi.gen + 1, t0 |-> 0, pending |-> FALSE,
              connected |-> FALSE, src |-> saved, done |-> FALSE, cache |-> None, gap |-> FALSE]
  /\ ssq' = <<>> /\ worker' = Idle /\ prep' = None /\ watch' = FALSE
  /\ forgotten' = IF PushAbout THEN hifi.gen ELSE forgotten
  /\ UNCHANGED <<tv, saved, bridge, starts>>

(***************************************************************************)
(* The specification.                                                      *)
(***************************************************************************)
SomeBeat == \E t \in {tv} \cup Moves(tv) \cup Exits(tv) \cup Shows : Beat(t)
JobSteps == (\E f \in Films : NewSource(f)) \/ Launched \/ PlayFails \/ TvStop
WorkerSteps == Take \/ Poll \/ HearConnect \/ HearStart \/ HearRelease \/ HearStatus
Answers == AnswerConnect \/ AnswerPrepare \/ AnswerStop \/ AnswerRelease \/ AnswerStatus
StartSteps == \E i \in DOMAIN starts : StartLocks(i) \/ StartPushes(i) \/ StartAnswers(i)
PushSteps == GoesLive \/ DecoderEnds \/ PushEnds
Faults == LoseReply \/ DecoderFails \/ PlayerDrops \/ BridgeRestarts \/ ServerRestarts

Next == \/ SomeBeat \/ (\E late \in BOOLEAN : SeekTo(late)) \/ StartTimesOut
        \/ JobSteps \/ WatchReleases \/ WorkerSteps \/ Answers \/ StartSteps
        \/ PushSteps \/ Faults

Fairness ==
  /\ WF_vars(Beat(tv)) /\ WF_vars(StartTimesOut /\ UNCHANGED spent)
  /\ WF_vars(Launched \/ PlayFails)
  /\ WF_vars(WatchReleases)
  /\ WF_vars(WorkerSteps) /\ WF_vars(Answers) /\ WF_vars(StartSteps)
  /\ WF_vars(GoesLive) /\ WF_vars(DecoderEnds) /\ WF_vars(PushEnds)

Spec == Init /\ [][Next]_vars /\ Fairness

(***************************************************************************)
(* Properties.                                                             *)
(***************************************************************************)
Sources == Films \cup {None}
TvStates == [state : {"idle", "playing", "paused", "ended", "off"}, film : Sources, late : BOOLEAN]
Records == [on : BOOLEAN, gen : Nat, t0 : Nat, pending : BOOLEAN, connected : BOOLEAN,
            src : Sources, done : BOOLEAN, cache : Sources, gap : BOOLEAN]
Orders  == [act : {"prepare", "start", "stop", "release"}, film : Sources, gen : Nat, late : BOOLEAN]
Bodies  == [conn : BOOLEAN, gen : Nat, t0 : Nat, pending : BOOLEAN, complete : Sources]
Calls   == [act : {"none", "prepare", "start", "stop", "release", "status"}, film : Sources,
            gen : Nat, late : BOOLEAN,
            step : {"none", "connect", "prepare", "start", "stop", "release", "status"},
            reply : {None, "ok", "error", "live", "pending", "lost"}, body : {None} \cup Bodies]
Bridges == [gen : Nat, push : Nat, live : BOOLEAN, film : Sources,
            decoder : {"none", "running", "complete", "failed", "behind"},
            conn : BOOLEAN, late : BOOLEAN, track : Sources]
Starts  == [gen : Nat, film : Sources, late : BOOLEAN, at : {"queued", "locked", "waiting"}]

(* Every variable has its type (_hifi, the queue, the bridge's STATE). *)
TypeOK ==
  /\ tv \in TvStates /\ {prep, saved} \subseteq Sources
  /\ hifi \in Records /\ ssq \in Seq(Orders) /\ worker \in Calls
  /\ bridge \in Bridges /\ starts \in Seq(Starts)
  /\ watch \in BOOLEAN /\ forgotten \in Nat
  /\ spent \in [moves : 0..MaxMoves, plays : 0..MaxPlays, faults : 0..MaxFaults]

(* What err_s is computed from is the timeline of the generation the server
   asked for last: no late reply or status brings an older one back
   (_hifi_invalidate: "including in-flight old replies"). *)
OwnTimeline == Live(hifi) => hifi.t0 = hifi.gen /\ ~hifi.pending

(* A push reads the cache of a decoder that is there, of the film it was
   started for: a decoder is never dropped or replaced under it
   (_ensure_decoder, _disconnect_active, /release). *)
PushHasItsCache == bridge.push # 0 => bridge.decoder # "none" /\ bridge.film = bridge.track

(* Nothing is heard of a film that is not playing: once the TV plays nothing
   for good, the bridge pushes nothing to a player it has, but for a push no
   newer than the last one the server gave up and let run.  It does that in two
   places (forgotten): a restart, after which it knows of no push, and a job
   that commits to the film the push is of (jobs.py:425), whose prepare finds
   its decoder and touches nothing.  What is started later is in no exemption,
   nor is the push of another film, which the prepare retires or the start of
   the new one. *)
QuietWhenStopped ==
  <>[](tv.state # "playing") => <>[](bridge.push <= forgotten \/ ~bridge.conn)

(* The same without the exemption, which no run checks: the comments of /stop
   ("pause: the push stops") and of the job ("retires the old timeline now"). *)
QuietOnceLeft ==
  <>[](tv.state # "playing") => <>[](bridge.push = 0 \/ ~bridge.conn)

(* The sound comes back: while the TV plays the film for good, short of its
   end, the bridge pushes it live under the server's generation, again and
   again, whatever died or was lost on the way. *)
SoundComesBack ==
  <>[](tv.state = "playing" /\ tv.film = hifi.src /\ ~tv.late)
    => []<>(Streaming /\ bridge.push = hifi.t0)

(* A track that has played out is let go of: while the TV shows the last
   frames, the player is released and not taken again (_hifi_track_over:
   "the Sendspin client still playing in Music Assistant"). *)
LetGoAtTheEnd ==
  <>[](tv.state = "playing" /\ tv.film = hifi.src /\ tv.late)
    => <>[](~bridge.conn /\ bridge.push = 0)
=============================================================================
