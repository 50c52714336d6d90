---------------------------- MODULE TorrentCache ----------------------------
(***************************************************************************)
(* The torrent cache (torrents.py): the thread that watches for the end of *)
(* playback, sweeps what is old and frees a full disk, the thread of every *)
(* play that reached its player (keep_only), and the clear they share.     *)
(*                                                                         *)
(* A clear reads who uses what, asks Stremio which engines are open, lists *)
(* the directories, and then releases and deletes one after the other: the *)
(* plays go on meanwhile.  Nothing locks the cache.                        *)
(*                                                                         *)
(* One player stands for the TV and the browser.  What the server believes *)
(* of it is its latest report; a report too old to believe is that of a    *)
(* player that is gone.  A play's thread reads who uses what as soon as it *)
(* starts.  Left out: the cap on Stremio's own cache, a job that is stale, *)
(* and the arithmetic of the disk's room.                                  *)
(***************************************************************************)
EXTENDS Integers

CONSTANTS
  Hashes,       \* the torrents
  Direct,       \* a source that is no torrent
  None,
  MaxPlays, MaxRestarts, MaxFaults \* bounds

ASSUME NumbersAssumption == MaxPlays \in Nat /\ MaxRestarts \in Nat /\ MaxFaults \in Nat
ASSUME NoneAssumption ==
  Direct \notin Hashes /\ None \notin Hashes \cup {Direct} /\ \A S \in SUBSET Hashes : S # None

VARIABLES
  source,       \* of each play, what it plays; None before it is made
  stage,        \* of each play's job: "none", "working", "playing" or "over"
  screen,       \* the play on screen, 0 for none
  believed,     \* whether the server takes something to be playing: playing_now()
  nowHash,      \* the torrent nowplaying.json names, or None
  cached, open, fresh, \* torrents on disk, with an open engine, lately written to
  watch,        \* cache_watch(): where it is, and was and idle_count
  clears,       \* the clears under way: of the watch (0) and of each play
  restarts, faults, \* bounds
  harmed        \* history: something in use all along was deleted

players == <<source, stage, screen, believed, nowHash>>
stremio == <<cached, open, fresh>>
bounds == <<restarts, faults>>
vars == <<players, stremio, watch, clears, bounds, harmed>>

Plays   == 1..MaxPlays
Watcher == 0
Threads == 0..MaxPlays

Working == {source[p] : p \in {q \in Plays : stage[q] = "working"}} \cap Hashes
(* jobs.hashes_in_use(): of the plays that reached a player, the newest. *)
Reached == {p \in Plays : stage[p] = "playing" /\ source[p] \in Hashes}
Newest  == {source[p] : p \in {q \in Reached : \A r \in Reached : r <= q}}
HashesInUse == Working \cup Newest \cup ({nowHash} \cap Hashes)

(* What is really in use. *)
OnScreen == IF screen = 0 THEN {} ELSE {source[screen]} \cap Hashes
InUse == Working \cup OnScreen

Asleep == [at |-> "asleep", was |-> FALSE, idle |-> 0]
Init ==
  /\ source = [p \in Plays |-> None] /\ stage = [p \in Plays |-> "none"]
  /\ screen = 0 /\ believed = FALSE /\ nowHash = None
  /\ cached = {} /\ open = {} /\ fresh = {}
  /\ watch = Asleep
  /\ clears = [t \in Threads |-> None]
  /\ restarts = 0 /\ faults = 0 /\ harmed = FALSE

-----------------------------------------------------------------------------
(* A clear.  keep is None for a plain one; used is what was in use when its thread
   looked, and has been ever since, but for what another clear has taken by then.  A
   sweep of what is old looks at no job. *)
Clear(old, keep) ==
  [step |-> "look", old |-> old, keep |-> keep, active |-> {}, dirs |-> {},
   used |-> IF old THEN OnScreen ELSE InUse]
Clearing(t, step) == clears[t] # None /\ clears[t].step = step
(* Whatever ends a use, ends it for every clear under way. *)
UsedBy(st, sc, old) == Hashes \cap
  ((IF sc = 0 THEN {} ELSE {source[sc]})
   \cup (IF old THEN {} ELSE {source[p] : p \in {q \in Plays : st[q] = "working"}}))
Forget(st, sc) ==
  [t \in Threads |-> IF clears[t] = None THEN None
                     ELSE [clears[t] EXCEPT !.used = @ \cap UsedBy(st, sc, clears[t].old)]]
Goes(t, c) == clears' = [clears EXCEPT ![t] = c]
Fault == faults < MaxFaults /\ faults' = faults + 1
NoFault == UNCHANGED faults

(* Mutant: a sweep leaves what has an engine. *)
OldAndClosed == cached \ (fresh \cup open)
Old == cached \ fresh
(* Stremio is asked what is open, docker what there is.  A listing that fails ends
   the clear. *)
Look(t) ==
  /\ Clearing(t, "look")
  /\ \/ NoFault /\ Goes(t, [clears[t] EXCEPT !.step = "next", !.active = open,
                        !.dirs = IF clears[t].old THEN Old ELSE cached])
     \/ Fault /\ Goes(t, None)
  /\ UNCHANGED <<players, stremio, watch, restarts, harmed>>

(* Mutant: what is kept is kept only while its engine is closed. *)
KeptIfClosed(c, h) == c.keep # None /\ h \in c.keep /\ h \notin c.active
Kept(c, h) == c.keep # None /\ h \in c.keep
Streaming(c, h) == h \in c.active /\ c.keep = None /\ believed
Leave(t) ==
  /\ Clearing(t, "next")
  /\ \E h \in clears[t].dirs :
     /\ Kept(clears[t], h) \/ Streaming(clears[t], h)
     /\ Goes(t, [clears[t] EXCEPT !.dirs = @ \ {h}])
  /\ UNCHANGED <<players, stremio, watch, bounds, harmed>>
(* An engine that is open is asked to close, and then the directory deleted; either
   may fail, and the directory stays. *)
Take(t) ==
  /\ Clearing(t, "next")
  /\ \E h \in clears[t].dirs :
     /\ ~Kept(clears[t], h) /\ ~Streaming(clears[t], h)
     /\ clears' = [u \in Threads |->
          IF u = t THEN [clears[t] EXCEPT !.dirs = @ \ {h}]
          ELSE IF clears[u] = None THEN None ELSE [clears[u] EXCEPT !.used = @ \ {h}]]
     /\ \/ /\ NoFault
           /\ open' = open \ (clears[t].active \cap {h})
           /\ cached' = cached \ {h} /\ fresh' = fresh \ {h}
           /\ harmed' = (harmed \/ h \in clears[t].used)
        \/ /\ Fault
           /\ open' \in {open, open \ (clears[t].active \cap {h})}
           /\ UNCHANGED <<cached, fresh, harmed>>
  /\ UNCHANGED <<players, watch, restarts>>
Through(t) ==
  /\ Clearing(t, "next") /\ clears[t].dirs = {}
  /\ Goes(t, None)
  /\ UNCHANGED <<players, stremio, watch, bounds, harmed>>

-----------------------------------------------------------------------------
(* cache_watch(): every twenty seconds the sweep if it is due, the disk, a sample. *)
WatchAt(a) == watch.at = a /\ clears[Watcher] = None
Moves(a) == watch' = [watch EXCEPT !.at = a]
Apart == <<players, stremio, bounds, harmed>>

(* The first sweep comes two minutes after a start: a player has reported by then,
   and has read. *)
SweepDue ==
  /\ WatchAt("asleep") /\ (screen # 0 => believed) /\ OnScreen \subseteq open
  /\ Moves("disk") /\ Goes(Watcher, Clear(TRUE, None))
  /\ UNCHANGED Apart
NoSweep ==
  /\ WatchAt("asleep")
  /\ Moves("disk")
  /\ UNCHANGED <<clears, Apart>>
(* disk_pressure(), which measures the disk; without a name for what plays, the plain clear's rule. *)
DiskPressure ==
  /\ WatchAt("disk")
  /\ Moves("sample")
  /\ \/ UNCHANGED clears
     \/ Goes(Watcher, Clear(FALSE, IF HashesInUse # {} \/ ~believed THEN HashesInUse ELSE None))
  /\ UNCHANGED Apart

Quiet == \A p \in Plays : stage[p] # "working"
IdleCount ==
  IF believed THEN 0 ELSE IF watch.was \/ watch.idle > 0 THEN watch.idle + 1 ELSE watch.idle
(* The third idle sample after playing ends the film, unless a job is working. *)
Sample ==
  /\ WatchAt("sample")
  /\ watch' = [at |-> "asleep", was |-> believed,
               idle |-> IF IdleCount < 3 THEN IdleCount ELSE IF Quiet THEN 0 ELSE 2]
  /\ IF IdleCount = 3 /\ Quiet
     THEN Goes(Watcher, [Clear(FALSE, None) EXCEPT !.step = "stop"]) ELSE UNCHANGED clears
  /\ UNCHANGED Apart
(* transcode_stop_all() and _hifi_release() come first, and take their time. *)
StopFirst ==
  /\ Clearing(Watcher, "stop")
  /\ Goes(Watcher, [clears[Watcher] EXCEPT !.step = "look"])
  /\ UNCHANGED <<watch, Apart>>

-----------------------------------------------------------------------------
(* The plays. *)
Begin(p) == \E s \in Hashes \cup {Direct} :
  /\ stage[p] = "none" /\ \A q \in 1..(p - 1) : stage[q] # "none"
  /\ source' = [source EXCEPT ![p] = s] /\ stage' = [stage EXCEPT ![p] = "working"]
  /\ UNCHANGED <<screen, believed, nowHash, stremio, watch, clears, bounds, harmed>>
(* Whoever reads from Stremio opens the engine, which writes. *)
Fetch == \E h \in InUse :
  /\ cached' = cached \cup {h} /\ open' = open \cup {h} /\ fresh' = fresh \cup {h}
  /\ UNCHANGED <<players, watch, clears, bounds, harmed>>
Fails(p) == LET after == [stage EXCEPT ![p] = "over"] IN
  /\ stage[p] = "working"
  /\ stage' = after
  /\ clears' = Forget(after, screen)
  /\ UNCHANGED <<source, screen, believed, nowHash, stremio, watch, bounds, harmed>>
NowHash(p) == IF source[p] = Direct THEN None ELSE source[p]
(* The player has it: keep_only() lets everything else go. *)
Launched(p) == LET after == [stage EXCEPT ![p] = "playing"]
                   others == {source[q] : q \in {r \in Plays : after[r] = "working"}} IN
  /\ stage[p] = "working" /\ source[p] \in open \cup {Direct}
  /\ stage' = after /\ screen' = p /\ believed' = TRUE
  /\ nowHash' = NowHash(p)
  /\ clears' = [Forget(after, p) EXCEPT ![p] =
       [Clear(FALSE, (others \cup {source[p]}) \cap Hashes) EXCEPT !.used = UsedBy(after, p, FALSE)]]
  /\ UNCHANGED <<source, stremio, watch, bounds, harmed>>
FilmEnds ==
  /\ screen # 0
  /\ screen' = 0
  /\ clears' = Forget(stage, 0)
  /\ UNCHANGED <<source, stage, believed, nowHash, stremio, watch, bounds, harmed>>
Reports ==
  /\ believed # (screen # 0)
  /\ believed' = (screen # 0)
  /\ UNCHANGED <<source, stage, screen, nowHash, stremio, watch, clears, bounds, harmed>>

(* Nothing has written to it for CACHE_SWEEP_HOURS, next to which a clear is short,
   and a film on screen has been read from. *)
Ages == \E h \in fresh \ Working :
  /\ \A t \in Threads : clears[t] = None
  /\ h \in OnScreen => h \in open
  /\ fresh' = fresh \ {h}
  /\ UNCHANGED <<players, cached, open, watch, clears, bounds, harmed>>
(* The table of jobs is gone, and what is believed of the player. *)
Restart ==
  /\ restarts < MaxRestarts
  /\ restarts' = restarts + 1
  /\ stage' = [p \in Plays |-> IF stage[p] = "none" THEN "none" ELSE "over"]
  /\ believed' = FALSE
  /\ watch' = Asleep
  /\ clears' = [t \in Threads |-> None]
  /\ UNCHANGED <<source, screen, nowHash, stremio, faults, harmed>>

-----------------------------------------------------------------------------
ClearStep(t) == Look(t) \/ Leave(t) \/ Take(t) \/ Through(t)
WatchStep == SweepDue \/ NoSweep \/ DiskPressure \/ Sample \/ StopFirst

Next ==
  \/ \E t \in Threads : ClearStep(t)
  \/ WatchStep
  \/ \E p \in Plays : Begin(p) \/ Fails(p) \/ Launched(p)
  \/ Fetch \/ FilmEnds \/ Reports \/ Ages \/ Restart

(* The watch and the clears go on, the timer of the sweep comes round, plays and
   films end, and what nobody writes to ages. *)
Fairness ==
  /\ \A t \in Threads : WF_vars(ClearStep(t))
  /\ WF_vars(WatchStep) /\ SF_vars(SweepDue)
  /\ \A p \in Plays : WF_vars(Fails(p) \/ Launched(p))
  /\ WF_vars(FilmEnds) /\ WF_vars(Reports)
  /\ SF_vars(Ages)
Spec == Init /\ [][Next]_vars /\ Fairness

-----------------------------------------------------------------------------
Clears == [step : {"stop", "look", "next"}, old : BOOLEAN, keep : {None} \cup SUBSET Hashes,
           active : SUBSET Hashes, dirs : SUBSET Hashes, used : SUBSET Hashes]
TypeOK ==
  /\ source \in [Plays -> Hashes \cup {Direct, None}]
  /\ stage \in [Plays -> {"none", "working", "playing", "over"}]
  /\ screen \in 0..MaxPlays /\ believed \in BOOLEAN /\ nowHash \in Hashes \cup {None}
  /\ cached \subseteq Hashes /\ open \subseteq Hashes /\ fresh \subseteq cached
  /\ watch \in [at : {"asleep", "disk", "sample"}, was : BOOLEAN, idle : 0..2]
  /\ clears \in [Threads -> {None} \cup Clears]
  /\ restarts \in 0..MaxRestarts /\ faults \in 0..MaxFaults /\ harmed \in BOOLEAN

(* No clear deletes a torrent that a job works on or a player plays, if it was so
   when the clear's thread looked who uses what and has been ever since. *)
InUseKept == ~harmed

(* A torrent nobody uses is deleted in the end, or used again: the end of playback
   may have been missed by a restart, the deletion may fail, the engine may be open. *)
EventuallyFreed == \A h \in Hashes : (h \in cached) ~> (h \notin cached)
=============================================================================
