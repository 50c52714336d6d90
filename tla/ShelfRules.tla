---------------------------- MODULE ShelfRules ----------------------------
(***************************************************************************)
(* What shelf.py keeps of a title and of a channel, and what each of its   *)
(* calls makes of the record: operators from a record to a record, without *)
(* the lock, the file or the callers, which are in Shelf.                  *)
(*                                                                         *)
(* A title's job is the title itself (a film, number 0) or one of its      *)
(* episodes (number >= 1); Star is the mute of the whole series.  A        *)
(* snapshot is one field, its poster.  Seconds are the code's own.         *)
(***************************************************************************)
EXTENDS Integers, Sequences, FiniteSets, FiniteSetsExt

CONSTANTS
  None,
  Episodes,     \* episode numbers of a series, in order of airing
  Vids,         \* videos of a channel
  Published,    \* when each was published
  OpenedCap     \* CHANNEL_OPENED_CAP

ASSUME EpisodesAssumption ==
  Episodes \subseteq Nat \ {0} /\ IsFiniteSet(Episodes) /\ None \notin Nat
ASSUME ChannelAssumption == Published \in [Vids -> Nat] /\ OpenedCap \in Nat \ {0}

Star       == -1
Numbers    == {0} \cup Episodes
ResumeMin  == 60
DoneRatio(pos, dur) == 100 * pos >= 90 * dur

NoPos  == [s |-> None, dur |-> None, at |-> None]
NewEp  == [s |-> None, dur |-> None, at |-> None, watched |-> None]
NewRec == [kind |-> None, poster |-> None, fav |-> None, watched |-> None,
           dropped |-> None, touched |-> None, pos |-> NoPos, aired |-> None,
           hasNext |-> None, eps |-> [e \in {} |-> NewEp], muted |-> {}]

Ep(rec, e) == IF e \in DOMAIN rec.eps THEN rec.eps[e] ELSE NewEp
WithEp(rec, e, ep) ==
  [rec EXCEPT !.eps = [x \in DOMAIN rec.eps \cup {e} |->
                         IF x = e THEN ep ELSE rec.eps[x]]]

-----------------------------------------------------------------------------
(* Mutes and drops. *)
(* Mutant: the mute of the series is not looked at. *)
IsMutedJob(rec, n) == n \in rec.muted
IsMuted(rec, n) == n \in rec.muted \/ (n # 0 /\ Star \in rec.muted)
Begin(rec, n) ==
  [rec EXCEPT !.muted = @ \ (IF n = 0 THEN {0} ELSE {n, Star})]

ClearUnwatchedPositions(rec) ==
  [rec EXCEPT !.pos = NoPos,
     !.eps = [e \in DOMAIN rec.eps |->
       IF rec.eps[e].watched # None THEN rec.eps[e] ELSE NewEp]]
Drop(rec, mutes, now) ==
  [ClearUnwatchedPositions(rec) EXCEPT !.dropped = now, !.muted = @ \cup mutes]

-----------------------------------------------------------------------------
(* A report of progress.  about is what the play put on the job: the true
   runtime and what the shelf should know of the title. *)
OrElse(x, y) == IF x # None THEN x ELSE y
MergeAbout(rec, about) ==
  [rec EXCEPT !.kind = OrElse(about.kind, @), !.aired = OrElse(about.aired, @),
              !.hasNext = OrElse(about.hasNext, @), !.poster = OrElse(@, about.poster)]

EffectiveDuration(dur, runtime) ==
  IF runtime # None /\ (dur = None \/ 10 * dur < 8 * runtime) THEN runtime ELSE dur

PutPosition(rec, n, pos, dur, now) ==
  LET at == [s |-> pos, dur |-> dur, at |-> now]
      r  == [rec EXCEPT !.touched = now, !.dropped = None]
  IN  IF n = 0 THEN [r EXCEPT !.pos = at]
      ELSE WithEp(r, n, [s |-> pos, dur |-> dur, at |-> now, watched |-> Ep(rec, n).watched])
PutWatched(rec, n, now) ==
  LET r == [rec EXCEPT !.touched = now]
  IN  IF n = 0 THEN [r EXCEPT !.watched = now, !.pos = NoPos]
      ELSE WithEp(r, n, [NewEp EXCEPT !.watched = now])

(* The record after the report, and whether the file is now behind it. *)
NoteProgress(rec, n, report, about, now) ==
  LET pos == report.pos
      merged == MergeAbout(rec, about)
      r      == IF n = 0 THEN merged ELSE WithEp(merged, n, Ep(merged, n))
      eff    == EffectiveDuration(report.dur, about.runtime)
      usable == eff # None /\ eff # 0
  IN  IF IsMuted(rec, n) THEN [rec |-> rec, dirty |-> FALSE]
      ELSE IF report.state = "ended" \/ (usable /\ DoneRatio(pos, eff))
      THEN [rec |-> PutWatched(r, n, now), dirty |-> TRUE]
      ELSE IF ~usable
      THEN [rec |-> PutPosition(r, n, pos, 0, now), dirty |-> TRUE]
      ELSE IF pos < ResumeMin
      THEN [rec |-> r, dirty |-> merged # rec]
      ELSE [rec |-> PutPosition(r, n, pos, eff, now), dirty |-> TRUE]

-----------------------------------------------------------------------------
(* The viewer's own marks. *)
SetFav(rec, on, poster, kind, now) ==
  [rec EXCEPT !.fav = IF on THEN now ELSE None,
              !.poster = OrElse(@, poster), !.kind = OrElse(@, kind)]
(* n is an episode, or 0 for the whole title. *)
SetWatched(rec, n, on, now) ==
  LET seen == [NewEp EXCEPT !.watched = now]
  IN  IF n # 0
      THEN WithEp(rec, n, IF on THEN seen ELSE [Ep(rec, n) EXCEPT !.watched = None])
      ELSE IF on
      THEN [rec EXCEPT !.watched = now, !.pos = NoPos,
                       !.eps = [e \in DOMAIN rec.eps |-> seen]]
      ELSE [rec EXCEPT !.watched = None]

-----------------------------------------------------------------------------
(* What the clients are shown.  Of a title's view only the question whether it is
   watched decides what else is shown. *)
WatchedEps(rec) == {e \in DOMAIN rec.eps : rec.eps[e].watched # None}
IsSeries(rec) == rec.kind = "tv" \/ DOMAIN rec.eps # {}
Watched(rec) ==
  \/ rec.watched # None
  \/ IsSeries(rec) /\ rec.aired # None /\ rec.aired > 0 /\ Cardinality(WatchedEps(rec)) >= rec.aired
WatchedStamps(rec) == ({rec.watched} \cup {rec.eps[e].watched : e \in DOMAIN rec.eps}) \ {None}
(* Mutant: a title watched at any time is off. *)
UnlessWatched(rec, now) == rec.fav # None /\ ~Watched(rec)
(* A title saved is on the watchlist until something of it is watched. *)
OnWatchlist(rec, now) ==
  /\ rec.fav # None
  /\ ~(Watched(rec) /\ \E at \in WatchedStamps(rec) : at >= rec.fav)

-----------------------------------------------------------------------------
(* Channels.  opened is the table of opened videos in the order in which the
   dictionary keeps them. *)
NewChannel == [snap |-> None, follow |-> None, seen |-> None, latest |-> {},
               checked |-> None, opened |-> <<>>]

Follow(ch, on, snap, now) ==
  [ch EXCEPT !.follow = IF on THEN now ELSE None,
             !.seen = IF on THEN now ELSE @, !.snap = OrElse(snap, @)]
SetLatest(ch, videos, now) == [ch EXCEPT !.latest = videos, !.checked = now]
SetSnap(ch, snap) == [ch EXCEPT !.snap = OrElse(snap, @)]
Seen(ch, now) == [ch EXCEPT !.seen = now]

OpenedSet(ch) == {ch.opened[i].vid : i \in DOMAIN ch.opened}
Without(s, i) == SubSeq(s, 1, i - 1) \o SubSeq(s, i + 1, Len(s))
OldestEntry(s) ==
  Min({i \in DOMAIN s : \A k \in DOMAIN s : s[i].at <= s[k].at})
(* Mutant: the cap drops the entry that was added last. *)
CapTheLast(s) == IF Len(s) > OpenedCap THEN Without(s, Len(s)) ELSE s
Capped(s) == IF Len(s) > OpenedCap THEN Without(s, OldestEntry(s)) ELSE s
VideoOpened(ch, vid, on, now) ==
  LET at == {i \in DOMAIN ch.opened : ch.opened[i].vid = vid}
      e  == [vid |-> vid, at |-> now]
  IN  [ch EXCEPT !.opened =
        IF on THEN IF at = {} THEN Capped(Append(@, e))
                   ELSE [i \in DOMAIN @ |-> IF i \in at THEN e ELSE @[i]]
        ELSE IF at = {} THEN @ ELSE Without(@, CHOOSE i \in at : TRUE)]

===========================================================================
