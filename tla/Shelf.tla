------------------------------- MODULE Shelf -------------------------------
(***************************************************************************)
(* The shelf of a household: the table of shelf.py, its file, and all that *)
(* writes it: the viewer's marks and drops, plays, the reports of the      *)
(* players (shelf_note of watching.py), the acts on channels, and the      *)
(* refresh of followed channels (channels.py, the channel routes).         *)
(*                                                                         *)
(* Each call takes shelf.py's lock for itself, so that a handler is a few  *)
(* steps others come between: read the job, change the record, save.  A    *)
(* save is one step: the lock is held while the file is written, and the   *)
(* new file replaces the old one whole.  A save may fail and says nothing. *)
(* A title or channel without a record stands for one of which nothing is  *)
(* known: every call makes the record it does not find.                    *)
(*                                                                         *)
(* Left out: the listing of what is stored, and the polling interval.      *)
(***************************************************************************)
EXTENDS ShelfRules

CONSTANTS
  Films, Series,  \* titles
  Channels,
  Devices,        \* the players that report
  Callers,        \* request handlers of the viewer's acts
  Posters,
  Runtimes,       \* true lengths a provider may give, None among them
  Reports,      \* what a player may report: position, length and state
  Starts,         \* offsets a play may be given, None for the beginning
  FlushTime,      \* FLUSH_S, in ticks
  MaxTime, MaxRestarts, \* bounds
  MaxOps,         \* bound: operations on each subject, a title or a channel
  MaxSubjects, MaxHandlers \* bounds: subjects in all, operations under way at once

ASSUME TitlesAssumption == Films \cap Series = {}
ASSUME TimeAssumption == FlushTime \in Nat \ {0} /\ MaxTime \in Nat
ASSUME PlayersAssumption ==
  /\ \A r \in Reports : r.pos \in Nat /\ r.dur \in Nat \cup {None}
  /\ Starts \cup Runtimes \subseteq Nat \cup {None}
ASSUME BoundsAssumption ==
  \A x \in Films \cup Series \cup Channels : MaxOps[x] \in Nat

VARIABLES
  mem, dirty, lastSave, \* _state, _dirty, _last_save
  disk,         \* the file, and the table that init() makes of it
  jobs,         \* what the job records carry for the shelf
  beats,        \* per device, the report being handled
  calls,        \* per caller, the act whose save is to come
  fetches,      \* answers of the provider on their way to the shelf
  now, ops, restarts,
  kept,         \* history: every change an answer vouched for was in the file then
  watchedAt     \* history: when something of a title was last watched

vars == <<mem, dirty, lastSave, disk, jobs, beats, calls, fetches,
          now, ops, restarts, kept, watchedAt>>
table == <<mem, dirty>>
file == <<disk, lastSave>>
players == <<jobs, beats>>
clock == <<now, restarts>>


Titles   == Films \cup Series
JobSet   == {<<t, 0>> : t \in Films} \cup (Series \X Episodes)
Fetchers == {"sweep", "prime", "page"}
Empty    == [titles |-> [t \in Titles |-> NewRec], channels |-> [c \in Channels |-> NewChannel]]
Missing  == [is |-> "missing", table |-> Empty]
Damaged  == [is |-> "damaged", table |-> Empty]
File(tab) == [is |-> "whole", table |-> tab]

Nothing == [kind |-> None, runtime |-> None, poster |-> None, aired |-> None, hasNext |-> None]
Unplayed == [start |-> None, begun |-> TRUE, about |-> Nothing]

Init ==
  /\ mem = Empty /\ disk = Missing /\ dirty = FALSE /\ lastSave = 0
  /\ jobs = [j \in JobSet |-> Unplayed]
  /\ beats = [d \in Devices |-> None]
  /\ calls = [c \in Callers |-> None]
  /\ fetches = [f \in Fetchers |-> None]
  /\ now = FlushTime /\ ops = [x \in Titles \cup Channels |-> 0] /\ restarts = 0
  /\ kept = TRUE
  /\ watchedAt = [t \in Titles |-> 0]

-----------------------------------------------------------------------------
Title(t) == mem.titles[t]
Channel(c) == mem.channels[c]

Handling ==
  Cardinality({d \in Devices : beats[d] # None}) + Cardinality({c \in Callers : calls[c] # None})
  + Cardinality({j \in JobSet : ~jobs[j].begun}) + Cardinality({f \in Fetchers : fetches[f] # None})
Op(x) ==
  /\ ops[x] < MaxOps[x] /\ Handling < MaxHandlers
  /\ Cardinality({y \in DOMAIN ops : ops[y] > 0} \cup {x}) <= MaxSubjects
  /\ ops' = [ops EXCEPT ![x] = @ + 1]

Changed == dirty' = TRUE
SetTitle(t, rec) ==
  /\ mem' = [mem EXCEPT !.titles[t] = rec]
  /\ watchedAt' = [watchedAt EXCEPT ![t] =
       IF WatchedStamps(rec) \ WatchedStamps(Title(t)) # {} THEN now ELSE @]
SetChannel(c, ch) == mem' = [mem EXCEPT !.channels[c] = ch] /\ UNCHANGED watchedAt

(* Mutant: the throttle holds for a forced save as well. *)
ThrottledAlways(force) == now - lastSave < FlushTime
Throttled(force) == ~force /\ now - lastSave < FlushTime
Written ==
  /\ disk' = File(mem)
  /\ dirty' = FALSE /\ lastSave' = now
(* Mutant: a write that failed counts as done. *)
FailedClean == UNCHANGED file /\ dirty' = FALSE
Failed == UNCHANGED <<file, dirty>>
(* save(): a failure is reported to nobody.  A call whose change is in the file
   is "saved" from then on. *)
AfterSave ==
  [c \in Callers |-> IF dirty /\ ~dirty' /\ calls[c] # None THEN "saved" ELSE calls[c]]
Save(force) ==
  /\ UNCHANGED mem
  /\ \/ /\ ~dirty \/ Throttled(force)
        /\ UNCHANGED <<file, dirty>>
     \/ /\ dirty /\ ~Throttled(force)
        /\ Written \/ Failed

-----------------------------------------------------------------------------
(* The viewer's acts: a change of the table, a save, an answer. *)
Act(c, x, changing) ==
  /\ Op(x)
  /\ calls[c] = None
  /\ changing /\ Changed
  /\ calls' = [calls EXCEPT ![c] = "unsaved"]
  /\ UNCHANGED <<file, players, fetches, clock, kept>>
TitleAct(c, t, rec) == Act(c, t, SetTitle(t, rec))
ChannelAct(c, ch, rec) == Act(c, ch, SetChannel(ch, rec))

Kind(t) == IF t \in Films THEN "movie" ELSE "tv"
PostFav(c) == \E t \in Titles, on \in BOOLEAN, p \in Posters : \E k \in {None, Kind(t)} :
  TitleAct(c, t, SetFav(Title(t), on, p, k, now))
PostWatched(c) == \E t \in Titles, n \in Numbers, on \in BOOLEAN :
  /\ t \in Films => n = 0
  /\ TitleAct(c, t, SetWatched(Title(t), n, on, now))
PostDrop(c) ==
  \/ \E t \in Titles : TitleAct(c, t, Drop(Title(t), {0, Star}, now))
  \/ \E j \in JobSet : TitleAct(c, j[1], Drop(Title(j[1]), {j[2]}, now))

PostSeen(c) == \E ch \in Channels : ChannelAct(c, ch, Seen(Channel(ch), now))
PostOpened(c) == \E ch \in Channels, v \in Vids, on \in BOOLEAN :
  ChannelAct(c, ch, VideoOpened(Channel(ch), v, on, now))
(* Following starts a thread that fetches the uploads once. *)
PostFollow(c) == \E ch \in Channels, on \in BOOLEAN :
  ChannelAct(c, ch, Follow(Channel(ch), on, IF on THEN "snap" ELSE None, now))

AnswerCall(c) ==
  /\ calls[c] # None
  /\ Save(TRUE)
  /\ calls' = [AfterSave EXCEPT ![c] = None]
  /\ kept' = (kept /\ (AfterSave[c] = "saved" \/ (Failed /\ dirty /\ ~Throttled(TRUE))))
  /\ UNCHANGED <<players, fetches, clock, ops, watchedAt>>

-----------------------------------------------------------------------------
(* A play: start_play() puts the offset on the job, then _shelf_begin() lifts
   the mute and puts what it found out on the job too. *)
Play == \E j \in JobSet, s \in Starts :
  /\ Op(j[1])
  /\ jobs' = [jobs EXCEPT ![j].start = s, ![j].begun = FALSE]
  /\ beats' = [d \in Devices |->
       IF beats[d] = None THEN None
       ELSE [beats[d] EXCEPT !.crossed = @ \/ beats[d].job = j]]
  /\ UNCHANGED <<table, file, calls, fetches, clock, kept, watchedAt>>

About(j, runtime, poster) ==
  IF j[1] \in Films
  THEN [Nothing EXCEPT !.kind = "movie", !.runtime = runtime, !.poster = poster]
  ELSE [kind |-> "tv", runtime |-> runtime, poster |-> poster,
        aired |-> Cardinality(Episodes), hasNext |-> j[2] + 1 \in Episodes]
ShelfBegin == \E j \in JobSet, r \in Runtimes, p \in Posters :
  /\ ~jobs[j].begun
  /\ LET rec == Title(j[1])
         begun == Begin(rec, j[2])
     IN  IF begun # rec
         THEN SetTitle(j[1], begun) /\ Changed
         ELSE UNCHANGED <<mem, dirty, watchedAt>>
  /\ jobs' = [jobs EXCEPT ![j].begun = TRUE, ![j].about = About(j, r, p)]
  /\ UNCHANGED <<file, beats, calls, fetches, clock, ops, kept>>

(* A report of a player: a heartbeat of the TV, a beat of the page.  Its save is
   forced when the player's state is not what it last reported. *)
(* Mutant: no resume guard. *)
HeldNever(pos, start) == FALSE
Held(pos, start) == start # None /\ pos < start - 10
Beat(d) == \E j \in JobSet, r \in Reports :
  /\ Op(j[1])
  /\ beats[d] = None
  /\ ~Held(r.pos, jobs[j].start)
  /\ beats' = [beats EXCEPT ![d] =
       [pc |-> "note", job |-> j, report |-> r, about |-> jobs[j].about,
        crossed |-> FALSE]]
  /\ UNCHANGED <<table, file, jobs, calls, fetches, clock, kept, watchedAt>>
(* Stopped without an ending: nothing to record, but what is unsaved is saved.
   post_stop() does the same. *)
Idle ==
  /\ Save(TRUE) /\ calls' = AfterSave
  /\ UNCHANGED <<players, fetches, clock, ops, kept, watchedAt>>

Note(d) ==
  /\ beats[d] # None /\ beats[d].pc = "note"
  /\ LET b == beats[d]
         t == b.job[1]
         n == NoteProgress(Title(t), b.job[2], b.report, b.about, now)
     IN  /\ SetTitle(t, n.rec)
         /\ IF n.dirty THEN Changed ELSE UNCHANGED dirty
  /\ beats' = [beats EXCEPT ![d].pc = "save"]
  /\ UNCHANGED <<file, jobs, calls, fetches, clock, ops, kept>>
NoteSave(d) ==
  /\ beats[d] # None /\ beats[d].pc = "save"
  /\ \E force \in BOOLEAN : Save(force)
  /\ calls' = AfterSave
  /\ beats' = [beats EXCEPT ![d] = None]
  /\ UNCHANGED <<jobs, fetches, clock, ops, kept, watchedAt>>

-----------------------------------------------------------------------------
(* The uploads of a channel: asked of the provider by the sweep, by the thread
   a follow starts and by a channel's page, and put on the shelf some time
   later, whatever became of the channel since.  A page does not save. *)
Fetch(f) == \E c \in Channels :
  /\ Op(c)
  /\ fetches[f] = None
  /\ Channel(c).follow # None
  /\ fetches' = [fetches EXCEPT ![f] =
       [pc |-> "apply", channel |-> c, videos |-> {v \in Vids : Published[v] <= now}]]
  /\ UNCHANGED <<table, file, players, calls, clock, kept, watchedAt>>
(* The sweep also refreshes the snapshot, once a day (after the uploads, with
   which it has nothing in common); a page fetches it for a channel without one. *)
PrimeApplies(c, videos) == SetChannel(c, SetLatest(Channel(c), videos, now))
SweepApplies(c, videos) ==
  LET ch == SetLatest(Channel(c), videos, now)
  IN  SetChannel(c, ch) \/ SetChannel(c, SetSnap(ch, "snap"))
PageApplies(c, videos) ==
  \/ SetChannel(c, SetLatest(Channel(c), videos, now))
  \/ SetChannel(c, SetSnap(Channel(c), "snap"))
Latest(f) ==
  /\ fetches[f] # None /\ fetches[f].pc = "apply"
  /\ LET c == fetches[f].channel
         videos == fetches[f].videos
     IN  CASE f = "prime" -> PrimeApplies(c, videos)
           [] f = "sweep" -> SweepApplies(c, videos)
           [] f = "page"  -> PageApplies(c, videos)
  /\ Changed
  /\ fetches' = [fetches EXCEPT ![f] = IF f = "page" THEN None ELSE [@ EXCEPT !.pc = "save"]]
  /\ UNCHANGED <<file, players, calls, clock, ops, kept>>
FetchSave(f) ==
  /\ fetches[f] # None /\ fetches[f].pc = "save"
  /\ Save(TRUE) /\ calls' = AfterSave
  /\ fetches' = [fetches EXCEPT ![f] = None]
  /\ UNCHANGED <<players, clock, ops, kept, watchedAt>>

-----------------------------------------------------------------------------
(* init(), in a new process: a file it cannot read is moved aside, or left if
   that fails; either way the table starts empty. *)
Restart == \E f \in {disk} \cup IF disk.is = "missing" THEN {} ELSE {Damaged} :
  /\ restarts < MaxRestarts /\ restarts' = restarts + 1
  /\ mem' = f.table /\ dirty' = FALSE /\ lastSave' = 0
  /\ IF f.is = "damaged"
     THEN disk' \in {Missing, Damaged} ELSE UNCHANGED disk
  /\ jobs' = [j \in JobSet |-> Unplayed]
  /\ beats' = [d \in Devices |-> None]
  /\ calls' = [c \in Callers |-> None] /\ fetches' = [f2 \in Fetchers |-> None]
  /\ UNCHANGED <<now, ops, kept, watchedAt>>

Tick ==
  /\ now < MaxTime /\ now' = now + 1
  /\ UNCHANGED <<table, file, players, calls, fetches, ops, restarts, kept, watchedAt>>

Next ==
  \/ \E c \in Callers : \/ PostFav(c) \/ PostWatched(c) \/ PostDrop(c)
                        \/ PostFollow(c) \/ PostSeen(c) \/ PostOpened(c)
                        \/ AnswerCall(c)
  \/ Play \/ ShelfBegin \/ Idle
  \/ \E d \in Devices : Beat(d) \/ Note(d) \/ NoteSave(d)
  \/ \E f \in Fetchers : Fetch(f) \/ Latest(f) \/ FetchSave(f)
  \/ Restart \/ Tick

Spec == Init /\ [][Next]_vars

-----------------------------------------------------------------------------
OptNat   == Nat \cup {None}
Position == [s : OptNat, dur : OptNat, at : OptNat]
EpRec    == [s : OptNat, dur : OptNat, at : OptNat, watched : OptNat]
EpsOK(eps) == DOMAIN eps \subseteq Episodes /\ eps \in [DOMAIN eps -> EpRec]
TitleRec(r) ==
  /\ r \in [kind : {None, "movie", "tv"}, poster : Posters \cup {None}, fav : OptNat,
            watched : OptNat, dropped : OptNat, touched : OptNat, pos : Position,
            aired : OptNat, hasNext : BOOLEAN \cup {None}, eps : {r.eps},
            muted : SUBSET (Numbers \cup {Star})]
  /\ EpsOK(r.eps)
Opening  == [vid : Vids, at : Nat]
ChannelSet == [snap : {None, "snap"}, follow : OptNat, seen : OptNat, latest : SUBSET Vids,
               checked : OptNat, opened : Seq(Opening)]
ChannelRec(r) == r \in ChannelSet /\ Len(r.opened) <= OpenedCap
TableOK(tab) ==
  /\ tab = [titles |-> tab.titles, channels |-> tab.channels]
  /\ DOMAIN tab.titles = Titles /\ \A t \in Titles : TitleRec(tab.titles[t])
  /\ DOMAIN tab.channels = Channels /\ \A c \in Channels : ChannelRec(tab.channels[c])
Abouts == [kind : {None, "movie", "tv"}, runtime : OptNat, poster : Posters \cup {None},
           aired : OptNat, hasNext : BOOLEAN \cup {None}]
Plays  == [start : OptNat, begun : BOOLEAN, about : Abouts]
Beats  == [pc : {"note", "save"}, job : JobSet, report : Reports, about : Abouts,
           crossed : BOOLEAN]
Fetches == [pc : {"apply", "save"}, channel : Channels, videos : SUBSET Vids]

(* Every record keeps its shape, in memory and in the file, and the table of
   opened videos its cap. *)
TypeOK ==
  /\ TableOK(mem) /\ dirty \in BOOLEAN /\ lastSave \in Nat
  /\ disk = [is |-> disk.is, table |-> disk.table] /\ TableOK(disk.table)
  /\ jobs \in [JobSet -> Plays]
  /\ beats \in [Devices -> Beats \cup {None}]
  /\ calls \in [Callers -> {None, "unsaved", "saved"}]
  /\ fetches \in [Fetchers -> Fetches \cup {None}]
  /\ now \in Nat /\ ops \in [Titles \cup Channels -> Nat] /\ restarts \in Nat
  /\ kept \in BOOLEAN /\ watchedAt \in [Titles -> Nat]

(* The record of an episode of which nothing is known is as good as none: a
   report too early to keep leaves one behind. *)
Meaning(r) ==
  [r EXCEPT !.eps = [e \in {x \in DOMAIN r.eps : r.eps[x] # NewEp} |-> r.eps[e]]]
SameShelf(a, b) ==
  /\ \A t \in Titles : Meaning(a.titles[t]) = Meaning(b.titles[t])
  /\ a.channels = b.channels

(* save() does nothing while _dirty is unset: so long as it is, the file says
   what memory says.  No call of shelf.py may change the one and forget the
   other, whatever comes between a change and its save. *)
UnsavedIsDirty == dirty \/ SameShelf(mem, disk.table)

(* The acts of the viewer force a save "and a restart losing the last one would
   be plainly wrong" (routes.py): what an answer vouched for is in the file,
   whatever other handlers did meanwhile, unless its own save failed. *)
AckedOnDisk == kept

(* favourites(): a title saved stays on the watchlist until something of it is
   watched after it was saved, whatever the order of saves, marks, reports,
   episode counts that become known, and restarts. *)
WatchlistKeepsSaved == \A t \in Titles :
  Title(t).fav # None /\ ~OnWatchlist(Title(t), now) => watchedAt[t] >= Title(t).fav

Recorded(t, n) == IF n = 0 THEN Title(t).pos.s ELSE Ep(Title(t), n).s

Barred(t, n) == n \in Title(t).muted \/ (n # 0 /\ Star \in Title(t).muted)

(* drop() mutes what was dropped: no report brings a position back, not one that
   was being handled when it was dropped nor one of another player, until a
   play of it begins. *)
DropHolds ==
  [][restarts' = restarts => \A t \in Titles, n \in Numbers :
       Barred(t, n) /\ Barred(t, n)' /\ Recorded(t, n) = None
         => Recorded(t, n)' = None]_vars

(* The resume guard of shelf_note() carries over to the note it lets through, whatever
   drops, marks, saves, plays of other titles and reports of the other player come
   between: a report of a title with an offset does not set its resume point before
   it.  A play of the same title that is begun in between (crossed) is set apart: its
   offset is not the one the guard looked at, and see ResumePointAlways. *)
NotBefore(d) ==
  LET j == beats[d].job
      s == Recorded(j[1], j[2])
      s2 == Recorded(j[1], j[2])'
  IN  s2 # s /\ s2 # None /\ jobs[j].start # None => s2 >= jobs[j].start - 10
ResumePointKept == [][\A d \in Devices : Note(d) /\ ~beats[d].crossed => NotBefore(d)]_vars

(* Of every report, as the comment of the guard has it ("recording those would
   overwrite the very resume point the viewer just used").  No passing run has it: a
   play begun between guard and note is given an offset that the report is before. *)
ResumePointAlways == [][\A d \in Devices : Note(d) => NotBefore(d)]_vars

(* video_opened() drops no video that was opened later than one it keeps, nor
   the one just opened. *)
OpenedNewest ==
  [][restarts' = restarts => \A ch \in Channels :
       LET was == Channel(ch).opened
           is  == Channel(ch)'.opened
       IN  /\ Len(was) = OpenedCap /\ Len(is) = OpenedCap =>
                \A i \in DOMAIN was :
                  (\A k \in DOMAIN is : is[k].vid # was[i].vid) =>
                    \A k \in DOMAIN is : was[i].at <= is[k].at
           /\ \A c \in Callers, v \in Vids :
                ChannelAct(c, ch, VideoOpened(Channel(ch), v, TRUE, now))
                  => v \in OpenedSet(Channel(ch)')]_vars
=============================================================================
