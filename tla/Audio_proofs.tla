---------------------------- MODULE Audio_proofs ----------------------------
(***************************************************************************)
(* Proofs about the two ways sound leaves the film: Hifi, which sends it   *)
(* to a player of its own, and Conversions, which makes a second copy of   *)
(* it that the TV can play.                                                *)
(***************************************************************************)
EXTENDS Conversions, Hifi, SequenceTheorems, FiniteSetTheorems, WellFoundedInduction, TLAPS

(***************************************************************************)
(* HIFI, for every set of films and any number of moves, plays, faults and *)
(* generations.                                                            *)
(*                                                                         *)
(* One inductive invariant, HifiInv, carries the types and both safety     *)
(* properties.  It restricts each type to the values that may stand in the *)
(* state at generation g, so that a larger generation only allows more:    *)
(* whatever the server does to its record, what is queued, asked for and   *)
(* held by the bridge stays allowed.                                       *)
(***************************************************************************)

LEMMA Bounds == MaxMoves \in Nat /\ MaxPlays \in Nat /\ MaxFaults \in Nat /\ MaxGen \in Nat
BY BoundsAssumption
LEMMA NoFilm == None \in Sources /\ None \notin Films /\ Films \subseteq Sources
BY NoneAssumption DEF Sources

(***************************************************************************)
(* Sequences.                                                              *)
(***************************************************************************)
LEMMA SeqGrows ==
  ASSUME NEW S, NEW T, S \subseteq T, NEW s \in Seq(S)
  PROVE  s \in Seq(T)
OBVIOUS

LEMMA RemoveAtIs ==
  ASSUME NEW S, NEW s \in Seq(S), NEW i \in 1..Len(s)
  PROVE  /\ RemoveAt(s, i) \in Seq(S)
         /\ Len(RemoveAt(s, i)) = Len(s) - 1
         /\ \A j \in 1..Len(s) - 1 : RemoveAt(s, i)[j] = IF j < i THEN s[j] ELSE s[j + 1]
<1> DEFINE a == SubSeq(s, 1, i - 1)
           b == SubSeq(s, i + 1, Len(s))
<1>1. a \in Seq(S) /\ Len(a) = i - 1 /\ \A j \in 1..i - 1 : a[j] = s[j]
  OBVIOUS
<1>2. b \in Seq(S) /\ Len(b) = Len(s) - i /\ \A j \in 1..Len(s) - i : b[j] = s[i + j]
  OBVIOUS
<1>3. RemoveAt(s, i) = a \o b
  BY DEF RemoveAt
<1> HIDE DEF a, b
<1>4. /\ a \o b \in Seq(S) /\ Len(a \o b) = Len(s) - 1
      /\ \A j \in 1..Len(s) - 1 : (a \o b)[j] = IF j < i THEN a[j] ELSE b[j - Len(a)]
  <2>1. a \o b \in Seq(S) /\ Len(a \o b) = Len(a) + Len(b)
    BY <1>1, <1>2, ConcatProperties
  <2>2. \A j \in 1..Len(a) + Len(b) : (a \o b)[j] = IF j <= Len(a) THEN a[j] ELSE b[j - Len(a)]
    BY <1>1, <1>2, ConcatProperties
  <2> QED BY <1>1, <1>2, <2>1, <2>2
<1> QED BY <1>1, <1>2, <1>3, <1>4

(***************************************************************************)
(* What may stand in the state at generation g.                            *)
(***************************************************************************)

(* The timeline the server has is that of its generation. *)
OwnRecords == {h \in Records : h.t0 # 0 => h.t0 = h.gen /\ ~h.pending}

NeedsFilm(act) == act \in {"prepare", "start"}
OrdersTo(g) == {o \in Orders : o.gen <= g /\ (NeedsFilm(o.act) => o.film # None)}

(* What /status says of a timeline is of the generation it names. *)
OwnBodies == {b \in Bodies : b.t0 \in {0, b.gen}}
CallsTo(g) ==
  {w \in Calls : /\ w.gen <= g
                 /\ NeedsFilm(w.act) => w.film # None
                 /\ w.step = "start" => w.act = "start"
                 /\ w.step \in {"connect", "prepare"} => NeedsFilm(w.act)
                 /\ w.step = "status" /\ w.reply \notin {None, "lost"} => w.body \in OwnBodies}

BridgesTo(g) ==
  {b \in Bridges : /\ b.gen <= g /\ b.push <= g
                   /\ b.film = None <=> b.decoder = "none"
                   /\ b.push # 0 => b.film = b.track /\ b.film # None}
StartsTo(g) == {c \in Starts : c.gen <= g /\ c.film # None}

(* A TV that shows a film has one. *)
ShownStates == {t \in TvStates : t.state \in {"playing", "paused", "off"} => t.film # None}

LEMMA Grows ==
  ASSUME NEW g \in Nat, NEW h \in Nat, g <= h
  PROVE  /\ OrdersTo(g) \subseteq OrdersTo(h) /\ CallsTo(g) \subseteq CallsTo(h)
         /\ BridgesTo(g) \subseteq BridgesTo(h) /\ StartsTo(g) \subseteq StartsTo(h)
<1>1. OrdersTo(g) \subseteq OrdersTo(h)
  BY DEF OrdersTo, Orders
<1>2. CallsTo(g) \subseteq CallsTo(h)
  BY DEF CallsTo, Calls
<1>3. BridgesTo(g) \subseteq BridgesTo(h)
  BY DEF BridgesTo, Bridges
<1>4. StartsTo(g) \subseteq StartsTo(h)
  BY DEF StartsTo, Starts
<1> QED BY <1>1, <1>2, <1>3, <1>4

(* A start that holds the bridge's lock holds it alone, and has retired the push. *)
LockInv ==
  \A i \in DOMAIN starts : starts[i].at = "locked" =>
    bridge.push = 0 /\ \A j \in DOMAIN starts : starts[j].at = "locked" => j = i

Spendings == [moves : 0..MaxMoves, plays : 0..MaxPlays, faults : 0..MaxFaults]
SidesOK ==
  /\ tv \in ShownStates /\ prep \in Sources /\ saved \in Sources
  /\ watch \in BOOLEAN /\ forgotten \in Nat /\ spent \in Spendings

HifiInv ==
  /\ SidesOK
  /\ hifi \in OwnRecords
  /\ ssq \in Seq(OrdersTo(hifi.gen))
  /\ worker \in CallsTo(hifi.gen)
  /\ bridge \in BridgesTo(hifi.gen)
  /\ starts \in Seq(StartsTo(hifi.gen))
  /\ LockInv

LEMMA FaultTyped == ASSUME spent \in Spendings, Fault PROVE spent' \in Spendings
BY Bounds DEF Fault, Spend, Spendings
LEMMA MoveTyped == ASSUME spent \in Spendings, Spend("moves", MaxMoves) PROVE spent' \in Spendings
BY Bounds DEF Spend, Spendings
LEMMA PlayTyped == ASSUME spent \in Spendings, Spend("plays", MaxPlays) PROVE spent' \in Spendings
BY Bounds DEF Spend, Spendings

(***************************************************************************)
(* The server's record.                                                    *)
(***************************************************************************)
LEMMA InvalidatedOwn ==
  ASSUME NEW h \in OwnRecords
  PROVE  /\ Invalidated(h) \in OwnRecords /\ Invalidated(h).gen = h.gen + 1
         /\ Invalidated(h).src = h.src /\ Invalidated(h).t0 = 0
         /\ h.gen \in Nat /\ h.src \in Sources
<1>1. h \in Records
  BY DEF OwnRecords
<1>2. /\ Invalidated(h) \in Records /\ Invalidated(h).t0 = 0
      /\ Invalidated(h).gen = h.gen + 1 /\ Invalidated(h).src = h.src
  <2>1. h.gen + 1 \in Nat /\ 0 \in Nat /\ FALSE \in BOOLEAN
    BY <1>1 DEF Records
  <2>2. Invalidated(h) \in Records
    BY <1>1, <2>1 DEF Invalidated, Records
  <2> QED BY <1>1, <2>2 DEF Invalidated, Records
<1> QED BY <1>1, <1>2 DEF OwnRecords, Records
LEMMA ReleasedOwn ==
  ASSUME NEW h \in OwnRecords
  PROVE  Released(h) \in OwnRecords /\ Released(h).gen = h.gen + 1
<1>1. PICK i \in OwnRecords : i = Invalidated(h) /\ i.gen = h.gen + 1 /\ i.t0 = 0
  BY InvalidatedOwn
<1> QED BY <1>1, NoFilm DEF Released, OwnRecords, Records
LEMMA FailedOwn ==
  ASSUME NEW h \in OwnRecords
  PROVE  Failed(h) \in OwnRecords /\ Failed(h).gen = h.gen /\ Failed(h).src = h.src
BY DEF Failed, OwnRecords, Records
LEMMA WentOwn ==
  ASSUME NEW h \in OwnRecords
  PROVE  Went(h, h.gen) \in OwnRecords /\ Went(h, h.gen).gen = h.gen
BY DEF Went, OwnRecords, Records
LEMMA HeardOwn ==
  ASSUME NEW t, hifi \in OwnRecords
  PROVE  Heard(t) \in OwnRecords /\ Heard(t).gen = hifi.gen /\ Heard(t).src = hifi.src
BY DEF Heard, OwnRecords, Records

(***************************************************************************)
(* The steps of the server: its record and its queue.                      *)
(***************************************************************************)
ServerMove == /\ hifi' \in OwnRecords /\ hifi.gen <= hifi'.gen
              /\ ssq' \in Seq(OrdersTo(hifi'.gen))

LEMMA ServerKeeps ==
  ASSUME HifiInv, ServerMove, SidesOK', UNCHANGED <<worker, bridge, starts>>
  PROVE  HifiInv'
<1>1. hifi.gen \in Nat /\ hifi'.gen \in Nat /\ hifi.gen <= hifi'.gen
  BY DEF HifiInv, ServerMove, OwnRecords, Records
<1>2. worker' \in CallsTo(hifi'.gen) /\ bridge' \in BridgesTo(hifi'.gen)
  BY <1>1, Grows DEF HifiInv
<1>3. starts' \in Seq(StartsTo(hifi'.gen))
  BY <1>1, Grows, SeqGrows DEF HifiInv
<1>4. LockInv'
  BY DEF HifiInv, LockInv
<1> QED BY <1>2, <1>3, <1>4 DEF HifiInv, ServerMove

LEMMA QueueKept ==
  ASSUME HifiInv, hifi' \in OwnRecords, hifi.gen <= hifi'.gen, UNCHANGED ssq
  PROVE  ServerMove
<1>1. hifi.gen \in Nat /\ hifi'.gen \in Nat
  BY DEF HifiInv, OwnRecords, Records
<1>2. ssq' \in Seq(OrdersTo(hifi'.gen))
  BY <1>1, Grows, SeqGrows DEF HifiInv
<1> QED BY <1>2 DEF ServerMove

LEMMA Queued ==
  ASSUME HifiInv, hifi' \in OwnRecords, hifi.gen <= hifi'.gen,
         NEW order \in OrdersTo(hifi'.gen), Queue(order)
  PROVE  ServerMove
<1>1. hifi.gen \in Nat /\ hifi'.gen \in Nat
  BY DEF HifiInv, OwnRecords, Records
<1>2. ssq \in Seq(OrdersTo(hifi'.gen))
  BY <1>1, Grows, SeqGrows DEF HifiInv
<1>3. ssq' \in Seq(OrdersTo(hifi'.gen))
  BY <1>2, AppendProperties DEF Queue
<1> QED BY <1>3 DEF ServerMove

LEMMA OrderTyped ==
  ASSUME NEW g \in Nat, NEW act \in {"stop", "release"}
  PROVE  Order(act) \in OrdersTo(g)
BY NoFilm DEF Order, OrdersTo, Orders, NeedsFilm

(* The record invalidated, or let go of, with the order that goes with it. *)
LEMMA ReleaseMoves ==
  ASSUME HifiInv, NEW h \in OwnRecords, h.gen = hifi.gen, Release(h)
  PROVE  ServerMove
<1>1. hifi' \in OwnRecords /\ hifi'.gen = h.gen + 1 /\ h.gen \in Nat
  BY ReleasedOwn, InvalidatedOwn DEF Release
<1>2. hifi.gen <= hifi'.gen /\ Order("release") \in OrdersTo(hifi'.gen)
  BY <1>1, OrderTyped
<1> QED BY <1>1, <1>2, Queued DEF Release

LEMMA LetGo ==
  ASSUME HifiInv, NEW h \in OwnRecords, hifi.gen <= h.gen,
         \/ hifi' = [Invalidated(h) EXCEPT !.connected = FALSE]
         \/ hifi' = [Invalidated(h) EXCEPT !.done = TRUE, !.connected = FALSE],
         Queue(Order("release"))
  PROVE  ServerMove
<1>1. Invalidated(h) \in OwnRecords /\ Invalidated(h).gen = h.gen + 1 /\ h.gen \in Nat
      /\ hifi.gen \in Nat
  BY InvalidatedOwn DEF HifiInv
<1>2. hifi' \in OwnRecords /\ hifi'.gen = h.gen + 1
  BY <1>1 DEF OwnRecords, Records
<1>3. hifi.gen <= hifi'.gen /\ Order("release") \in OrdersTo(hifi'.gen)
  BY <1>1, <1>2, OrderTyped
<1> QED BY <1>2, <1>3, Queued

(* Begin(): a start is queued for the film on screen. *)
LEMMA BeginMoves ==
  ASSUME HifiInv, NEW h \in OwnRecords, hifi.gen <= h.gen, h.src # None,
         NEW t \in ShownStates, Begin(h, t)
  PROVE  ServerMove
<1>1. /\ Invalidated(h) \in OwnRecords /\ Invalidated(h).gen = h.gen + 1 /\ Invalidated(h).t0 = 0
      /\ h.gen \in Nat /\ h.src \in Sources /\ hifi.gen \in Nat
  BY InvalidatedOwn DEF HifiInv
<1>2. hifi' \in OwnRecords /\ hifi'.gen = h.gen + 1
  BY <1>1 DEF Begin, OwnRecords, Records
<1>3. [act |-> "start", film |-> h.src, gen |-> h.gen + 1, late |-> t.late] \in OrdersTo(hifi'.gen)
  <2>1. t.late \in BOOLEAN
    BY DEF ShownStates, TvStates
  <2> QED BY <1>1, <1>2, <2>1 DEF OrdersTo, Orders
<1>4. hifi.gen <= hifi'.gen
  BY <1>1, <1>2
<1> QED BY <1>2, <1>3, <1>4, Queued DEF Begin

LEMMA AudioMoves ==
  ASSUME HifiInv, NEW h \in OwnRecords, hifi.gen <= h.gen, h.src # None,
         NEW t \in ShownStates, NEW seek \in BOOLEAN, BeatAudio(h, t, seek)
  PROVE  ServerMove
<1>1. CASE hifi' = h /\ UNCHANGED ssq
  BY <1>1, QueueKept
<1>2. CASE hifi' = [Invalidated(h) EXCEPT !.done = TRUE, !.connected = FALSE]
           /\ Queue(Order("release"))
  BY <1>2, LetGo
<1>3. CASE Begin(h, t)
  BY <1>3, BeginMoves
<1> QED BY <1>1, <1>2, <1>3 DEF BeatAudio

(* What the TV may show next. *)
LEMMA Reported ==
  ASSUME SidesOK, NEW t, Reports(t), t \in {tv} \cup Moves(tv) \cup Exits(tv) \cup Shows
  PROVE  tv' = t /\ t \in ShownStates /\ spent' \in Spendings
<1>1. ASSUME NEW u \in Moves(tv) PROVE u \in ShownStates
  <2>1. tv \in ShownStates
    BY DEF SidesOK
  <2>2. CASE tv.state = "playing"
    <3>1. u = [tv EXCEPT !.late = TRUE] \/ \E s \in {"paused", "ended", "off"} : u = [tv EXCEPT !.state = s]
      BY <1>1, <2>2 DEF Moves
    <3> QED BY <2>1, <2>2, <3>1 DEF ShownStates, TvStates
  <2>3. CASE tv.state \in {"paused", "off"}
    <3>1. u = [tv EXCEPT !.state = "playing"]
      BY <1>1, <2>3 DEF Moves
    <3> QED BY <2>1, <2>3, <3>1 DEF ShownStates, TvStates
  <2>4. CASE tv.state \notin {"playing", "paused", "off"}
    BY <1>1, <2>4 DEF Moves
  <2> QED BY <2>2, <2>3, <2>4
<1>2. ASSUME NEW u \in Exits(tv) PROVE u \in ShownStates
  <2>1. u = [state |-> "idle", film |-> None, late |-> FALSE]
    BY <1>2 DEF Exits
  <2> QED BY <2>1, NoFilm DEF ShownStates, TvStates
<1>3. ASSUME NEW u \in Shows PROVE u \in ShownStates
  <2>1. u = [state |-> "playing", film |-> prep, late |-> FALSE] /\ prep # None
    BY <1>3 DEF Shows
  <2> QED BY <2>1 DEF ShownStates, TvStates, SidesOK
<1>4. tv' = t
  BY DEF Reports
<1>5. spent' \in Spendings
  BY MoveTyped DEF Reports, SidesOK
<1> QED BY <1>1, <1>2, <1>3, <1>4, <1>5 DEF SidesOK

LEMMA BeatMoves ==
  ASSUME HifiInv, NEW t \in ShownStates, BeatIdle(t) \/ BeatPaused(t) \/ BeatPlaying(t)
  PROVE  ServerMove
<1>0. /\ hifi \in OwnRecords /\ hifi.gen \in Nat
      /\ Heard(t) \in OwnRecords /\ Heard(t).gen = hifi.gen /\ Heard(t).src = hifi.src
  BY HeardOwn DEF HifiInv, OwnRecords, Records
<1>1. /\ Invalidated(Heard(t)) \in OwnRecords /\ Invalidated(Heard(t)).gen = hifi.gen + 1
  BY <1>0, InvalidatedOwn
<1>2. CASE hifi' = Heard(t) /\ UNCHANGED ssq
  BY <1>0, <1>2, QueueKept
<1>3. CASE BeatIdle(t)
  <2>1. CASE hifi' = [Invalidated(Heard(t)) EXCEPT !.connected = FALSE]
             /\ Queue(Order("release"))
    <3>1. PICK h \in OwnRecords : h = Heard(t) /\ hifi.gen <= h.gen
      BY <1>0
    <3> QED BY <2>1, <3>1, LetGo
  <2> QED BY <1>2, <1>3, <2>1 DEF BeatIdle
<1>4. CASE BeatPaused(t)
  <2>1. CASE hifi' = Invalidated(Heard(t)) /\ Queue(Order("stop"))
    <3>1. Order("stop") \in OrdersTo(hifi'.gen) /\ hifi.gen <= hifi'.gen
      BY <1>0, <1>1, <2>1, OrderTyped
    <3> QED BY <1>1, <2>1, <3>1, Queued
  <2> QED BY <1>2, <1>4, <2>1 DEF BeatPaused
<1>5. CASE BeatPlaying(t)
  <2>1. CASE t.film = hifi.src /\ BeatAudio(Heard(t), t, FALSE)
    <3>1. t.film # None
      BY <1>5 DEF BeatPlaying, ShownStates
    <3>2. PICK h \in OwnRecords : h = Heard(t) /\ hifi.gen <= h.gen /\ h.src # None
      BY <1>0, <2>1, <3>1
    <3> QED BY <2>1, <3>2, AudioMoves
  <2> QED BY <1>2, <1>5, <2>1 DEF BeatPlaying
<1> QED BY <1>3, <1>4, <1>5

LEMMA ServerStep ==
  ASSUME HifiInv, SomeBeat \/ (\E late \in BOOLEAN : SeekTo(late)) \/ StartTimesOut
                  \/ JobSteps \/ WatchReleases
  PROVE  HifiInv'
<1>0. /\ SidesOK /\ tv \in ShownStates /\ hifi \in OwnRecords /\ hifi.gen \in Nat
      /\ OnScreen(tv) \in BOOLEAN
  BY DEF HifiInv, SidesOK, OwnRecords, Records, OnScreen
<1>1. CASE SomeBeat
  <2>1. PICK t \in {tv} \cup Moves(tv) \cup Exits(tv) \cup Shows : Beat(t)
    BY <1>1 DEF SomeBeat
  <2>2. tv' = t /\ t \in ShownStates /\ spent' \in Spendings
    BY <1>0, <2>1, Reported DEF Beat
  <2>3. ServerMove
    BY <2>1, <2>2, BeatMoves DEF Beat
  <2>4. SidesOK'
    BY <1>0, <2>1, <2>2 DEF Beat, SidesOK, OnScreen
  <2> QED BY <2>1, <2>3, <2>4, ServerKeeps DEF Beat
<1>2. ASSUME NEW late \in BOOLEAN, SeekTo(late) PROVE HifiInv'
  <2>1. hifi.src # None /\ tv' \in ShownStates
    BY <1>0, <1>2 DEF SeekTo, ShownStates, TvStates
  <2>2. PICK h \in OwnRecords : h = Invalidated(hifi) /\ hifi.gen <= h.gen /\ h.src # None
    BY <1>0, <2>1, InvalidatedOwn
  <2>3. PICK t \in ShownStates : t = tv'
    BY <2>1
  <2>4. BeatAudio(h, t, TRUE)
    BY <1>2, <2>2, <2>3 DEF SeekTo
  <2>5. ServerMove
    BY <2>2, <2>4, AudioMoves
  <2>6. SidesOK'
    BY <1>0, <1>2, <2>1, MoveTyped DEF SeekTo, SidesOK
  <2> QED BY <1>2, <2>5, <2>6, ServerKeeps DEF SeekTo
<1>3. CASE StartTimesOut
  <2>1. hifi.src # None
    BY <1>0, <1>3 DEF StartTimesOut, ShownStates, TvStates
  <2> DEFINE h == [Failed(hifi) EXCEPT !.gap = FALSE]
  <2>2. h \in OwnRecords /\ h.gen = hifi.gen /\ h.src = hifi.src
    <3>1. Failed(hifi) \in OwnRecords /\ Failed(hifi).gen = hifi.gen /\ Failed(hifi).src = hifi.src
      BY <1>0, FailedOwn
    <3> QED BY <3>1 DEF OwnRecords, Records
  <2>3. BeatAudio(h, tv, FALSE)
    BY <1>3 DEF StartTimesOut
  <2> HIDE DEF h
  <2>4. ServerMove
    <3>1. hifi.gen <= h.gen /\ h.src # None
      BY <1>0, <2>1, <2>2
    <3> QED BY <1>0, <2>2, <2>3, <3>1, AudioMoves
  <2>5. SidesOK'
    BY <1>0, <1>3, FaultTyped DEF StartTimesOut, SidesOK
  <2> QED BY <1>3, <2>4, <2>5, ServerKeeps DEF StartTimesOut
<1>4. ASSUME NEW f \in Films, NewSource(f) PROVE HifiInv'
  <2> DEFINE order == [Order("prepare") EXCEPT !.film = f, !.gen = hifi.gen + 1]
  <2>1. hifi' \in OwnRecords /\ hifi'.gen = hifi.gen + 1
    <3>1. /\ Invalidated(hifi) \in OwnRecords /\ Invalidated(hifi).gen = hifi.gen + 1
      BY <1>0, InvalidatedOwn
    <3> QED BY <1>4, <3>1, NoFilm DEF NewSource, OwnRecords, Records
  <2>2. order \in OrdersTo(hifi'.gen)
    <3>1. order \in Orders /\ order.film = f /\ order.gen = hifi.gen + 1
      <4>1. PICK o \in Orders : o = Order("prepare")
        BY NoFilm DEF Order, Orders
      <4>2. order = [o EXCEPT !.film = f, !.gen = hifi.gen + 1]
        BY <4>1
      <4>3. f \in Sources /\ hifi.gen + 1 \in Nat
        BY <1>0, NoFilm
      <4> HIDE DEF order
      <4> QED BY <4>1, <4>2, <4>3 DEF Orders
    <3> HIDE DEF order
    <3> QED BY <1>0, <2>1, <3>1, NoFilm DEF OrdersTo
  <2>3. Queue(order) \/ UNCHANGED ssq
    BY <1>4 DEF NewSource
  <2> HIDE DEF order
  <2>4. ServerMove
    BY <1>0, <2>1, <2>2, <2>3, Queued, QueueKept
  <2>5. SidesOK'
    BY <1>0, <1>4, PlayTyped, NoFilm DEF NewSource, SidesOK
  <2> QED BY <1>4, <2>4, <2>5, ServerKeeps DEF NewSource
<1>5. CASE Launched \/ PlayFails
  <2>1. SidesOK'
    BY <1>0, <1>5, NoFilm DEF Launched, PlayFails, SidesOK
  <2>2. UNCHANGED <<served, worker, bridge, starts>>
    BY <1>5 DEF Launched, PlayFails
  <2>3. ServerMove
    BY <1>0, <2>2, QueueKept DEF served
  <2> QED BY <2>1, <2>2, <2>3, ServerKeeps
<1>6. CASE TvStop
  <2>1. SidesOK'
    BY <1>0, <1>6, NoFilm, MoveTyped DEF TvStop, SidesOK, ShownStates, TvStates
  <2>2. ServerMove
    BY <1>0, <1>6, ReleaseMoves DEF TvStop
  <2> QED BY <1>6, <2>1, <2>2, ServerKeeps DEF TvStop
<1>7. CASE WatchReleases
  <2>1. SidesOK'
    BY <1>0, <1>7 DEF WatchReleases, SidesOK
  <2>2. ServerMove
    BY <1>0, <1>7, ReleaseMoves DEF WatchReleases
  <2> QED BY <1>7, <2>1, <2>2, ServerKeeps DEF WatchReleases
<1> QED BY <1>1, <1>2, <1>3, <1>4, <1>5, <1>6, <1>7 DEF JobSteps

(***************************************************************************)
(* The steps of the worker.                                                *)
(***************************************************************************)
LEMMA IdleTyped == ASSUME NEW g \in Nat PROVE Idle \in CallsTo(g)
BY NoFilm DEF Idle, CallsTo, Calls, NeedsFilm

LEMMA CallTyped ==
  ASSUME NEW g \in Nat,
         NEW order \in [act : {"prepare", "start", "stop", "release", "status"}, film : Sources,
                        gen : Nat, late : BOOLEAN],
         order.gen <= g, NeedsFilm(order.act) => order.film # None,
         NEW step \in {"connect", "prepare", "start", "stop", "release", "status"},
         step = "start" => order.act = "start",
         step \in {"connect", "prepare"} => NeedsFilm(order.act),
         Call(order, step)
  PROVE  worker' \in CallsTo(g)
<1>1. worker' = [act |-> order.act, film |-> order.film, gen |-> order.gen, late |-> order.late,
                 step |-> step, reply |-> None, body |-> None]
  BY DEF Call
<1>2. worker' \in Calls
  BY <1>1 DEF Calls
<1> QED BY <1>1, <1>2 DEF CallsTo

LEMMA WorkerKeeps ==
  ASSUME HifiInv, hifi' \in OwnRecords, hifi'.gen = hifi.gen \/ hifi'.gen = hifi.gen + 1,
         ssq' \in Seq(OrdersTo(hifi.gen)), worker' \in CallsTo(hifi.gen),
         starts' \in Seq(StartsTo(hifi.gen)), LockInv',
         UNCHANGED <<tv, prep, saved, bridge, watch, spent, forgotten>>
  PROVE  HifiInv'
<1>1. hifi.gen \in Nat /\ hifi'.gen \in Nat /\ hifi.gen <= hifi'.gen
  BY DEF HifiInv, OwnRecords, Records
<1>2. /\ ssq' \in Seq(OrdersTo(hifi'.gen)) /\ worker' \in CallsTo(hifi'.gen)
      /\ starts' \in Seq(StartsTo(hifi'.gen)) /\ bridge' \in BridgesTo(hifi'.gen)
  BY <1>1, Grows, SeqGrows DEF HifiInv
<1>3. SidesOK'
  BY DEF HifiInv, SidesOK
<1> QED BY <1>2, <1>3 DEF HifiInv

LEMMA FoldedOwn ==
  ASSUME HifiInv, NEW body \in OwnBodies
  PROVE  /\ StatusFolded(body) \in OwnRecords
         /\ \/ StatusFolded(body).gen = hifi.gen
            \/ StatusFolded(body).gen = hifi.gen + 1
<1> DEFINE h == [hifi EXCEPT !.connected = body.conn, !.cache = body.complete, !.gap = FALSE]
<1>1. h \in OwnRecords /\ h.gen = hifi.gen
  BY DEF HifiInv, OwnRecords, Records, OwnBodies, Bodies
<1>2. StatusFolded(body) =
        IF body.gen # h.gen THEN (IF Live(h) THEN Invalidated(h) ELSE h)
        ELSE IF body.t0 # 0 THEN Went(h, body.t0) ELSE Silent(h, body)
  BY DEF StatusFolded
<1> HIDE DEF h
<1>3. body.t0 \in {0, body.gen}
  BY DEF OwnBodies
<1> QED BY <1>1, <1>2, <1>3, InvalidatedOwn, WentOwn, FailedOwn DEF Silent

LEMMA WorkerStep ==
  ASSUME HifiInv, WorkerSteps
  PROVE  HifiInv'
<1>0. /\ hifi \in OwnRecords /\ hifi.gen \in Nat /\ worker \in CallsTo(hifi.gen)
      /\ worker \in Calls /\ ssq \in Seq(OrdersTo(hifi.gen)) /\ starts \in Seq(StartsTo(hifi.gen))
      /\ LockInv /\ Idle \in CallsTo(hifi.gen)
  BY IdleTyped DEF HifiInv, OwnRecords, Records, CallsTo
<1>l. ASSUME UNCHANGED <<bridge, starts>> PROVE LockInv'
  BY <1>0, <1>l DEF LockInv
<1>1. CASE Take
  <2>1. Head(ssq) \in OrdersTo(hifi.gen) /\ ssq' \in Seq(OrdersTo(hifi.gen))
    BY <1>0, <1>1, HeadTailProperties DEF Take
  <2>2. worker' \in CallsTo(hifi.gen)
    <3> DEFINE order == Head(ssq)
               step == IF order.act \in {"start", "prepare"} THEN "connect" ELSE order.act
    <3>1. UNCHANGED worker \/ Call(order, step)
      BY <1>1 DEF Take
    <3>2. /\ order \in Orders /\ order.gen <= hifi.gen
          /\ NeedsFilm(order.act) => order.film # None
      BY <2>1 DEF OrdersTo
    <3>3. /\ step \in {"connect", "stop", "release"}
          /\ step = "connect" => NeedsFilm(order.act)
      BY <3>2 DEF Orders, NeedsFilm
    <3> HIDE DEF order, step
    <3> QED BY <1>0, <3>1, <3>2, <3>3, CallTyped DEF Orders
  <2> QED BY <1>0, <1>1, <1>l, <2>1, <2>2, WorkerKeeps DEF Take
<1>2. CASE Poll
  <2>1. Order("status") \in [act : {"prepare", "start", "stop", "release", "status"}, film : Sources,
                             gen : Nat, late : BOOLEAN]
        /\ Order("status").gen = 0 /\ Order("status").act = "status"
    BY NoFilm DEF Order
  <2>2. worker' \in CallsTo(hifi.gen)
    BY <1>0, <1>2, <2>1, CallTyped DEF Poll, NeedsFilm
  <2> QED BY <1>0, <1>2, <1>l, <2>2, WorkerKeeps DEF Poll, served
<1>3. CASE HearConnect
  <2>1. NeedsFilm(worker.act) /\ worker.film # None /\ worker.gen <= hifi.gen
    BY <1>0, <1>3 DEF HearConnect, Hears, CallsTo
  <2> DEFINE order == [act |-> worker.act, film |-> worker.film, gen |-> worker.gen,
                       late |-> worker.late]
  <2>3. order \in [act : {"prepare", "start", "stop", "release", "status"}, film : Sources,
                   gen : Nat, late : BOOLEAN]
        /\ order.gen <= hifi.gen /\ order.act = worker.act /\ order.film = worker.film
    BY <1>0, <2>1 DEF Calls, NeedsFilm
  <2>4. ASSUME NEW step, Call(worker, step) PROVE Call(order, step)
    BY <2>4 DEF Call
  <2>h. ASSUME NEW b \in BOOLEAN
        PROVE  [hifi EXCEPT !.connected = b] \in OwnRecords
               /\ [hifi EXCEPT !.connected = b].gen = hifi.gen
    BY <1>0 DEF OwnRecords, Records
  <2>5. CASE worker.act = "prepare"
    <3>1. hifi' = [hifi EXCEPT !.connected = Connected] /\ UNCHANGED starts
          /\ (worker' = Idle \/ Call(worker, "prepare"))
      BY <1>3, <2>5 DEF HearConnect, Rest
    <3>2. worker' \in CallsTo(hifi.gen)
      <4> HIDE DEF order
      <4> QED BY <1>0, <2>1, <2>3, <2>4, <2>5, <3>1, CallTyped
    <3>3. hifi' \in OwnRecords /\ hifi'.gen = hifi.gen
      BY <2>h, <3>1 DEF Connected
    <3> QED BY <1>0, <1>3, <1>l, <3>1, <3>2, <3>3, WorkerKeeps DEF HearConnect
  <2>6. CASE worker.act = "start"
    <3> DEFINE h == [hifi EXCEPT !.connected = @ \/ Connected]
    <3>1. h \in OwnRecords /\ h.gen = hifi.gen
      <4>1. hifi.connected \/ Connected \in BOOLEAN
        BY <1>0 DEF OwnRecords, Records, Connected
      <4> QED BY <1>0, <4>1 DEF OwnRecords, Records
    <3>2. /\ hifi' = h \/ hifi' = Failed(h)
          /\ \/ worker' = Idle /\ UNCHANGED starts
             \/ Call(worker, "start") /\ StartArrives(worker)
      BY <1>3, <2>6 DEF HearConnect, Rest
    <3> HIDE DEF h
    <3>3. hifi' \in OwnRecords /\ hifi'.gen = hifi.gen
      BY <3>1, <3>2, FailedOwn
    <3>4. CASE worker' = Idle /\ UNCHANGED starts
      BY <1>0, <1>3, <1>l, <3>3, <3>4, WorkerKeeps DEF HearConnect
    <3>5. CASE Call(worker, "start") /\ StartArrives(worker)
      <4> DEFINE new == [gen |-> worker.gen, film |-> worker.film, late |-> worker.late,
                         at |-> "queued"]
      <4>1. worker' \in CallsTo(hifi.gen)
        <5> HIDE DEF order
        <5> QED BY <1>0, <2>1, <2>3, <2>4, <2>6, <3>5, CallTyped
      <4>2. new \in StartsTo(hifi.gen) /\ new.at = "queued"
        BY <1>0, <2>1 DEF StartsTo, Starts, Calls
      <4>3. starts' = Append(starts, new)
        BY <3>5 DEF StartArrives
      <4> HIDE DEF new
      <4>4. /\ starts' \in Seq(StartsTo(hifi.gen)) /\ Len(starts') = Len(starts) + 1
            /\ starts'[Len(starts) + 1] = new
            /\ \A i \in 1..Len(starts) : starts'[i] = starts[i]
        BY <1>0, <4>2, <4>3, AppendProperties
      <4>5. LockInv'
        <5>1. UNCHANGED bridge
          BY <1>3 DEF HearConnect
        <5>2. DOMAIN starts = 1..Len(starts) /\ DOMAIN starts' = 1..(Len(starts) + 1)
              /\ Len(starts) \in Nat
          BY <1>0, <4>4
        <5> QED BY <1>0, <4>2, <4>4, <5>1, <5>2 DEF LockInv
      <4> QED BY <1>0, <1>3, <3>3, <4>1, <4>4, <4>5, WorkerKeeps DEF HearConnect
    <3> QED BY <3>2, <3>4, <3>5
  <2> QED BY <1>3, <2>5, <2>6 DEF HearConnect
<1>4. CASE HearStart
  <2>1. worker.act = "start"
    BY <1>0, <1>4 DEF HearStart, Hears, CallsTo
  <2>2. hifi' \in OwnRecords /\ hifi'.gen = hifi.gen
    <3>1. CASE Stale(worker)
      BY <1>0, <1>4, <3>1 DEF HearStart
    <3>2. CASE ~Stale(worker) /\ worker.reply = "live"
      <4>1. worker.gen = hifi.gen
        BY <2>1, <3>2 DEF Stale
      <4>2. PICK w \in OwnRecords : w = Went(hifi, hifi.gen) /\ w.gen = hifi.gen
        BY <1>0, WentOwn
      <4>3. hifi' = [w EXCEPT !.connected = TRUE]
        BY <1>4, <3>2, <4>1, <4>2 DEF HearStart
      <4> QED BY <4>2, <4>3 DEF OwnRecords, Records
    <3>3. CASE ~Stale(worker) /\ worker.reply = "error"
      BY <1>0, <1>4, <3>3, FailedOwn DEF HearStart
    <3>4. CASE ~Stale(worker) /\ worker.reply \notin {"live", "error"}
      BY <1>0, <1>4, <3>4 DEF HearStart
    <3> QED BY <3>1, <3>2, <3>3, <3>4
  <2> QED BY <1>0, <1>4, <1>l, <2>2, WorkerKeeps DEF HearStart, Rest
<1>5. CASE HearRelease
  <2>1. hifi' \in OwnRecords /\ hifi'.gen = hifi.gen
    BY <1>0, <1>5 DEF HearRelease, OwnRecords, Records
  <2> QED BY <1>0, <1>5, <1>l, <2>1, WorkerKeeps DEF HearRelease, Rest
<1>6. CASE HearStatus
  <2>1. worker.reply = "lost" \/ worker.body \in OwnBodies
    BY <1>0, <1>6 DEF HearStatus, Hears, CallsTo
  <2>2. hifi' \in OwnRecords /\ (hifi'.gen = hifi.gen \/ hifi'.gen = hifi.gen + 1)
    BY <1>0, <1>6, <2>1, FoldedOwn DEF HearStatus
  <2> QED BY <1>0, <1>6, <1>l, <2>2, WorkerKeeps DEF HearStatus, Rest
<1> QED BY <1>1, <1>2, <1>3, <1>4, <1>5, <1>6 DEF WorkerSteps

(***************************************************************************)
(* The steps of the bridge.                                                *)
(***************************************************************************)
LEMMA NoPushTyped ==
  ASSUME NEW g \in Nat, NEW b \in BridgesTo(g)
  PROVE  NoPush(b) \in BridgesTo(g) /\ NoPush(b).push = 0 /\ NoPush(b).gen = b.gen
<1>1. NoPush(b) \in Bridges
  BY NoFilm DEF NoPush, BridgesTo, Bridges
<1>2. /\ NoPush(b).push = 0 /\ NoPush(b).gen = b.gen
      /\ NoPush(b).film = b.film /\ NoPush(b).decoder = b.decoder
  BY DEF NoPush, BridgesTo, Bridges
<1>3. /\ b.gen <= g /\ b.push <= g /\ (b.film = None <=> b.decoder = "none") /\ 0 <= g
  BY DEF BridgesTo
<1> QED BY <1>1, <1>2, <1>3 DEF BridgesTo

LEMMA NoDecoderTyped ==
  ASSUME NEW g \in Nat, NEW b \in BridgesTo(g), b.push = 0
  PROVE  NoDecoder(b) \in BridgesTo(g) /\ NoDecoder(b).push = 0
<1>1. NoDecoder(b) \in Bridges
  BY NoFilm DEF NoDecoder, BridgesTo, Bridges
<1> QED BY <1>1 DEF NoDecoder, BridgesTo, Bridges

LEMMA ConnTyped ==
  ASSUME NEW g \in Nat, NEW b \in BridgesTo(g), NEW on \in BOOLEAN
  PROVE  [b EXCEPT !.conn = on] \in BridgesTo(g) /\ [b EXCEPT !.conn = on].push = b.push
BY DEF BridgesTo, Bridges

LEMMA DisconnectedTyped ==
  ASSUME NEW g \in Nat, NEW b \in BridgesTo(g), NEW keep \in BOOLEAN
  PROVE  Disconnected(b, keep) \in BridgesTo(g) /\ Disconnected(b, keep).push = 0
<1> DEFINE c == [NoPush(b) EXCEPT !.conn = FALSE]
<1>1. c \in BridgesTo(g) /\ c.push = 0
  BY NoPushTyped, ConnTyped
<1>2. Disconnected(b, keep) = IF keep THEN c ELSE NoDecoder(c)
  BY DEF Disconnected
<1> HIDE DEF c
<1> QED BY <1>1, <1>2, NoDecoderTyped

LEMMA DecoderTyped ==
  ASSUME NEW g \in Nat, NEW b \in BridgesTo(g), NEW f \in Films, NEW d \in EnsureDecoder(b, f)
  PROVE  d \in BridgesTo(g) /\ d.film = f /\ (b.push = 0 => d.push = 0)
<1>1. CASE d = b /\ MayHave(b, f)
  BY <1>1 DEF MayHave
<1>2. CASE d = NewDecoder(b, f)
  <2>1. PICK c \in BridgesTo(g) : c = NoDecoder(NoPush(b)) /\ c.push = 0
    BY NoPushTyped, NoDecoderTyped
  <2>2. d = [c EXCEPT !.film = f, !.decoder = "running"]
    BY <1>2, <2>1 DEF NewDecoder
  <2>3. d \in Bridges
    BY <2>1, <2>2, NoFilm DEF BridgesTo, Bridges
  <2> QED BY <2>1, <2>2, <2>3, NoFilm DEF BridgesTo, Bridges
<1> QED BY <1>1, <1>2 DEF EnsureDecoder

LEMMA BridgeKeeps ==
  ASSUME HifiInv, BridgeOnly, bridge' \in BridgesTo(hifi.gen), worker' \in CallsTo(hifi.gen),
         starts' \in Seq(StartsTo(hifi.gen)), LockInv', spent' \in Spendings
  PROVE  HifiInv'
BY DEF HifiInv, BridgeOnly, SidesOK, served

LEMMA AnswerTyped ==
  ASSUME NEW g \in Nat, worker \in CallsTo(g), worker.step # "status",
         NEW reply \in {"ok", "error", "live", "pending", "lost"}, Answer(reply)
  PROVE  worker' \in CallsTo(g)
<1>1. worker' \in Calls /\ worker'.step = worker.step /\ worker'.act = worker.act
      /\ worker'.gen = worker.gen /\ worker'.film = worker.film
  BY DEF Answer, CallsTo, Calls
<1> QED BY <1>1 DEF CallsTo

(* A reply that is lost: what the status said is not looked at. *)
LEMMA LostTyped ==
  ASSUME NEW g \in Nat, worker \in CallsTo(g), worker' = [worker EXCEPT !.reply = "lost"]
  PROVE  worker' \in CallsTo(g)
<1>1. worker' \in Calls /\ worker'.step = worker.step /\ worker'.act = worker.act
      /\ worker'.gen = worker.gen /\ worker'.film = worker.film /\ worker'.reply = "lost"
  BY DEF CallsTo, Calls
<1> QED BY <1>1 DEF CallsTo

(* The lock: it stays as it was while nobody takes it and no push begins. *)
LEMMA LockKept ==
  ASSUME LockInv, UNCHANGED starts, bridge'.push \in {0, bridge.push}
  PROVE  LockInv'
BY DEF LockInv

LEMMA LockReturns ==
  ASSUME LockInv, NEW S, starts \in Seq(S), NEW i \in 1..Len(starts),
         starts' = RemoveAt(starts, i),
         \/ bridge'.push \in {0, bridge.push}
         \/ \A j \in DOMAIN starts : starts[j].at = "locked" => j = i
  PROVE  LockInv' /\ starts' \in Seq(S)
<1>1. /\ starts' \in Seq(S) /\ Len(starts') = Len(starts) - 1 /\ Len(starts) \in Nat
      /\ \A j \in 1..Len(starts) - 1 : starts'[j] = IF j < i THEN starts[j] ELSE starts[j + 1]
  BY RemoveAtIs
<1>2. DOMAIN starts = 1..Len(starts) /\ DOMAIN starts' = 1..Len(starts) - 1
  BY <1>1
<1> DEFINE old(j) == IF j < i THEN j ELSE j + 1
<1>3. \A j \in DOMAIN starts' : old(j) \in DOMAIN starts /\ old(j) # i /\ starts'[j] = starts[old(j)]
  BY <1>1, <1>2
<1>4. \A j, k \in DOMAIN starts' : old(j) = old(k) => j = k
  BY <1>1, <1>2
<1> HIDE DEF old
<1>5. ASSUME NEW j \in DOMAIN starts', starts'[j].at = "locked"
      PROVE  bridge'.push = 0 /\ \A k \in DOMAIN starts' : starts'[k].at = "locked" => k = j
  BY <1>3, <1>4, <1>5 DEF LockInv
<1> QED BY <1>1, <1>5 DEF LockInv

LEMMA BridgeStep ==
  ASSUME HifiInv, Answers \/ StartSteps \/ PushSteps
  PROVE  HifiInv'
<1>0. /\ hifi.gen \in Nat /\ worker \in CallsTo(hifi.gen) /\ bridge \in BridgesTo(hifi.gen)
      /\ starts \in Seq(StartsTo(hifi.gen)) /\ LockInv /\ spent \in Spendings
      /\ Idle \in CallsTo(hifi.gen) /\ SidesOK
  BY IdleTyped DEF HifiInv, SidesOK, OwnRecords, Records
<1>b. /\ NoPush(bridge) \in BridgesTo(hifi.gen) /\ NoPush(bridge).push = 0
      /\ NoPush(bridge).gen = bridge.gen
      /\ \A keep \in BOOLEAN : Disconnected(bridge, keep) \in BridgesTo(hifi.gen)
                               /\ Disconnected(bridge, keep).push = 0
  BY <1>0, NoPushTyped, DisconnectedTyped
<1>1. CASE AnswerConnect
  <2>1. worker' \in CallsTo(hifi.gen)
    BY <1>0, <1>1, AnswerTyped DEF AnswerConnect, Asked
  <2>2. bridge' \in BridgesTo(hifi.gen) /\ bridge'.push \in {0, bridge.push}
    <3>1. PICK b \in BridgesTo(hifi.gen) : b = Disconnected(bridge, TRUE) /\ b.push = 0
      BY <1>b
    <3>2. [b EXCEPT !.conn = TRUE] \in BridgesTo(hifi.gen) /\ [b EXCEPT !.conn = TRUE].push = 0
      BY <1>0, <3>1, ConnTyped
    <3> QED BY <1>0, <1>1, <3>1, <3>2 DEF AnswerConnect
  <2> QED BY <1>0, <1>1, <2>1, <2>2, LockKept, FaultTyped, BridgeKeeps DEF AnswerConnect
<1>2. CASE AnswerPrepare
  <2>1. worker.film \in Films
    BY <1>0, <1>2 DEF AnswerPrepare, Asked, CallsTo, Calls, NeedsFilm, Sources
  <2>2. bridge' \in BridgesTo(hifi.gen) /\ (bridge.push = 0 => bridge'.push = 0)
    <3>1. CASE bridge' \in EnsureDecoder(bridge, worker.film)
      BY <1>0, <2>1, <3>1, DecoderTyped
    <3>2. CASE bridge' = NoDecoder(NoPush(bridge))
      <4>1. PICK b \in BridgesTo(hifi.gen) : b = NoPush(bridge) /\ b.push = 0
        BY <1>b
      <4> QED BY <1>0, <3>2, <4>1, NoDecoderTyped
    <3> QED BY <1>2, <3>1, <3>2 DEF AnswerPrepare
  <2>3. LockInv'
    BY <1>0, <1>2, <2>2 DEF AnswerPrepare, LockInv
  <2>4. spent' \in Spendings
    BY <1>0, <1>2, FaultTyped DEF AnswerPrepare
  <2> QED BY <1>0, <1>2, <2>2, <2>3, <2>4, BridgeKeeps DEF AnswerPrepare, Rest
<1>3. CASE AnswerStop
  BY <1>0, <1>b, <1>3, LockKept, BridgeKeeps DEF AnswerStop, Rest
<1>4. CASE AnswerRelease
  <2>1. worker' \in CallsTo(hifi.gen)
    BY <1>0, <1>4, AnswerTyped DEF AnswerRelease, Asked
  <2> QED BY <1>0, <1>b, <1>4, <2>1, LockKept, BridgeKeeps DEF AnswerRelease
<1>5. CASE AnswerStatus
  <2> DEFINE body == [conn     |-> bridge.conn,
                      gen      |-> IF bridge.push # 0 THEN bridge.push ELSE bridge.gen,
                      t0       |-> IF Streaming THEN bridge.push ELSE 0,
                      pending  |-> bridge.push # 0 /\ ~bridge.live,
                      complete |-> IF bridge.decoder = "complete" THEN bridge.film ELSE None]
  <2>1. body \in OwnBodies
    <3>1. bridge \in Bridges /\ Streaming \in BOOLEAN /\ (Streaming => bridge.push # 0)
      BY <1>0 DEF BridgesTo, Streaming, Bridges
    <3> QED BY <3>1, NoFilm DEF OwnBodies, Bodies, Bridges
  <2>2. worker' = [worker EXCEPT !.reply = "ok", !.body = body] /\ worker.step = "status"
    BY <1>5 DEF AnswerStatus, Asked
  <2> HIDE DEF body
  <2>3. worker' \in CallsTo(hifi.gen)
    <3>1. /\ worker' \in Calls /\ worker'.step = worker.step /\ worker'.act = worker.act
          /\ worker'.gen = worker.gen /\ worker'.film = worker.film /\ worker'.body = body
      BY <1>0, <2>1, <2>2 DEF CallsTo, Calls, OwnBodies
    <3> QED BY <1>0, <2>1, <3>1 DEF CallsTo
  <2> QED BY <1>0, <1>5, <2>3, LockKept, BridgeKeeps DEF AnswerStatus
<1>6. ASSUME NEW i \in DOMAIN starts, StartLocks(i) PROVE HifiInv'
  <2>0. i \in 1..Len(starts) /\ starts[i] \in StartsTo(hifi.gen)
    BY <1>0
  <2>1. bridge' \in BridgesTo(hifi.gen) /\ bridge'.push = 0
    <3>1. PICK b \in BridgesTo(hifi.gen) : b = NoPush(bridge) /\ b.push = 0
      BY <1>b
    <3>2. bridge' = [b EXCEPT !.gen = starts[i].gen]
      BY <1>6, <3>1 DEF StartLocks
    <3> QED BY <2>0, <3>1, <3>2 DEF BridgesTo, Bridges, StartsTo, Starts
  <2>2. CASE starts' = [starts EXCEPT ![i].at = "locked"] /\ UNCHANGED worker
    <3>1. starts' \in Seq(StartsTo(hifi.gen))
      <4>1. [starts[i] EXCEPT !.at = "locked"] \in StartsTo(hifi.gen)
        BY <2>0 DEF StartsTo, Starts
      <4> QED BY <1>0, <2>0, <2>2, <4>1
    <3>2. LockInv'
      <4>1. \A j \in DOMAIN starts : starts[j].at # "locked"
        BY <1>6 DEF StartLocks
      <4>2. DOMAIN starts' = DOMAIN starts /\ \A j \in DOMAIN starts : j # i => starts'[j] = starts[j]
        BY <2>2
      <4> QED BY <2>1, <4>1, <4>2 DEF LockInv
    <3> QED BY <1>0, <1>6, <2>1, <2>2, <3>1, <3>2, BridgeKeeps DEF StartLocks
  <2>3. CASE Returns(i, "error")
    <3>1. worker' \in CallsTo(hifi.gen)
      BY <1>0, <2>3, AnswerTyped DEF Returns, Asked
    <3>2. LockInv' /\ starts' \in Seq(StartsTo(hifi.gen))
      BY <1>0, <2>0, <2>1, <2>3, LockReturns DEF Returns
    <3> QED BY <1>0, <1>6, <2>1, <3>1, <3>2, BridgeKeeps DEF StartLocks
  <2> QED BY <1>6, <2>2, <2>3 DEF StartLocks
<1>7. ASSUME NEW i \in DOMAIN starts, StartPushes(i) PROVE HifiInv'
  <2>0. i \in 1..Len(starts) /\ starts[i] \in StartsTo(hifi.gen) /\ starts[i].film \in Films
    BY <1>0 DEF StartsTo, Starts, Sources
  <2>1. bridge.push = 0 /\ \A j \in DOMAIN starts : starts[j].at = "locked" => j = i
    BY <1>0, <1>7 DEF StartPushes, LockInv
  <2>2. CASE /\ \E b \in EnsureDecoder(bridge, starts[i].film) :
                  bridge' = [b EXCEPT !.push = starts[i].gen, !.late = starts[i].late,
                                      !.track = starts[i].film]
             /\ starts' = [starts EXCEPT ![i].at = "waiting"]
             /\ UNCHANGED <<worker, spent>>
    <3>1. bridge' \in BridgesTo(hifi.gen)
      <4>1. PICK b \in EnsureDecoder(bridge, starts[i].film) :
              bridge' = [b EXCEPT !.push = starts[i].gen, !.late = starts[i].late,
                                  !.track = starts[i].film]
        BY <2>2
      <4>2. b \in BridgesTo(hifi.gen) /\ b.film = starts[i].film
        BY <1>0, <2>0, DecoderTyped
      <4>3. bridge' \in Bridges
        BY <2>0, <4>1, <4>2 DEF BridgesTo, Bridges, StartsTo, Starts
      <4> QED BY <2>0, <4>1, <4>2, <4>3, NoFilm DEF BridgesTo, Bridges, StartsTo, Starts
    <3>2. starts' \in Seq(StartsTo(hifi.gen))
      <4>1. [starts[i] EXCEPT !.at = "waiting"] \in StartsTo(hifi.gen)
        BY <2>0 DEF StartsTo, Starts
      <4> QED BY <1>0, <2>0, <2>2, <4>1
    <3>3. LockInv'
      <4>1. /\ DOMAIN starts' = DOMAIN starts /\ starts'[i].at = "waiting"
            /\ \A j \in DOMAIN starts : j # i => starts'[j] = starts[j]
        BY <2>0, <2>2 DEF StartsTo, Starts
      <4> QED BY <2>1, <4>1 DEF LockInv
    <3> QED BY <1>0, <1>7, <2>2, <3>1, <3>2, <3>3, BridgeKeeps DEF StartPushes
  <2>3. CASE bridge' = NoDecoder(bridge) /\ Returns(i, "error") /\ Fault
    <3>1. bridge' \in BridgesTo(hifi.gen) /\ bridge'.push = 0
      BY <1>0, <2>1, <2>3, NoDecoderTyped
    <3>2. worker' \in CallsTo(hifi.gen)
      BY <1>0, <2>3, AnswerTyped DEF Returns, Asked
    <3>3. LockInv' /\ starts' \in Seq(StartsTo(hifi.gen))
      BY <1>0, <2>0, <2>3, <3>1, LockReturns DEF Returns
    <3> QED BY <1>0, <1>7, <2>3, <3>1, <3>2, <3>3, FaultTyped, BridgeKeeps DEF StartPushes
  <2> QED BY <1>7, <2>2, <2>3 DEF StartPushes
<1>8. ASSUME NEW i \in DOMAIN starts, StartAnswers(i) PROVE HifiInv'
  <2>0. i \in 1..Len(starts)
    BY <1>0
  <2>1. PICK reply \in {"live", "pending", "error"} : Returns(i, reply)
    BY <1>8 DEF StartAnswers
  <2>2. bridge' \in BridgesTo(hifi.gen) /\ bridge'.push \in {0, bridge.push}
    BY <1>0, <1>b, <1>8 DEF StartAnswers
  <2>3. worker' \in CallsTo(hifi.gen)
    BY <1>0, <2>1, AnswerTyped DEF Returns, Asked
  <2>4. LockInv' /\ starts' \in Seq(StartsTo(hifi.gen))
    BY <1>0, <2>0, <2>1, <2>2, LockReturns DEF Returns
  <2> QED BY <1>0, <1>8, <2>2, <2>3, <2>4, BridgeKeeps DEF StartAnswers
<1>9. CASE PushSteps
  <2>1. bridge' \in BridgesTo(hifi.gen) /\ bridge'.push \in {0, bridge.push}
    <3>1. CASE GoesLive
      BY <1>0, <3>1 DEF GoesLive, BridgesTo, Bridges
    <3>2. CASE DecoderEnds
      BY <1>0, <3>2 DEF DecoderEnds, BridgesTo, Bridges
    <3>3. CASE PushEnds
      <4>1. CASE bridge' = NoPush(bridge)
        BY <1>b, <4>1
      <4>2. CASE bridge.decoder = "failed" /\ bridge' = [NoPush(bridge) EXCEPT !.decoder = "behind"]
        <5>1. PICK b \in BridgesTo(hifi.gen) : b = NoPush(bridge) /\ b.push = 0
                                                /\ b.decoder = bridge.decoder
          <6>1. NoPush(bridge).decoder = bridge.decoder
            BY <1>0 DEF NoPush, BridgesTo, Bridges
          <6> QED BY <1>b, <6>1
        <5>2. bridge' = [b EXCEPT !.decoder = "behind"]
          BY <4>2, <5>1
        <5> QED BY <4>2, <5>1, <5>2 DEF BridgesTo, Bridges
      <4> QED BY <3>3, <4>1, <4>2 DEF PushEnds
    <3> QED BY <1>9, <3>1, <3>2, <3>3 DEF PushSteps
  <2>2. UNCHANGED <<worker, starts, spent>> /\ BridgeOnly
    BY <1>9 DEF PushSteps, GoesLive, DecoderEnds, PushEnds
  <2> QED BY <1>0, <2>1, <2>2, LockKept, BridgeKeeps
<1> QED BY <1>1, <1>2, <1>3, <1>4, <1>5, <1>6, <1>7, <1>8, <1>9 DEF Answers, StartSteps

(***************************************************************************)
(* What dies or is lost.                                                   *)
(***************************************************************************)
LEMMA FaultStep ==
  ASSUME HifiInv, Faults
  PROVE  HifiInv'
<1>0. /\ hifi.gen \in Nat /\ worker \in CallsTo(hifi.gen) /\ bridge \in BridgesTo(hifi.gen)
      /\ starts \in Seq(StartsTo(hifi.gen)) /\ LockInv /\ spent \in Spendings
      /\ Idle \in CallsTo(hifi.gen) /\ SidesOK /\ hifi \in OwnRecords
  BY IdleTyped DEF HifiInv, SidesOK, OwnRecords, Records
<1>1. CASE LoseReply
  <2>1. worker' \in CallsTo(hifi.gen)
    BY <1>0, <1>1, LostTyped DEF LoseReply
  <2>2. BridgeOnly /\ UNCHANGED <<bridge, starts>> /\ spent' \in Spendings
    BY <1>0, <1>1, FaultTyped DEF LoseReply, BridgeOnly
  <2> QED BY <1>0, <2>1, <2>2, LockKept, BridgeKeeps
<1>2. CASE DecoderFails
  <2>1. bridge' \in BridgesTo(hifi.gen) /\ bridge'.push = bridge.push
    BY <1>0, <1>2 DEF DecoderFails, BridgesTo, Bridges
  <2> QED BY <1>0, <1>2, <2>1, LockKept, FaultTyped, BridgeKeeps DEF DecoderFails
<1>3. CASE PlayerDrops
  <2>1. bridge' \in BridgesTo(hifi.gen) /\ bridge'.push = bridge.push
    BY <1>0, <1>3, ConnTyped DEF PlayerDrops
  <2> QED BY <1>0, <1>3, <2>1, LockKept, FaultTyped, BridgeKeeps DEF PlayerDrops
<1>4. CASE BridgeRestarts
  <2>1. bridge' \in BridgesTo(hifi.gen)
    BY <1>0, <1>4, NoFilm DEF BridgeRestarts, Off, BridgesTo, Bridges
  <2>2. starts' \in Seq(StartsTo(hifi.gen)) /\ LockInv'
    <3>1. starts' = <<>>
      BY <1>4 DEF BridgeRestarts
    <3>2. <<>> \in Seq(StartsTo(hifi.gen)) /\ DOMAIN <<>> = {}
      OBVIOUS
    <3> QED BY <3>1, <3>2 DEF LockInv
  <2>3. worker' \in CallsTo(hifi.gen)
    BY <1>0, <1>4, LostTyped DEF BridgeRestarts
  <2> QED BY <1>0, <1>4, <2>1, <2>2, <2>3, FaultTyped, BridgeKeeps DEF BridgeRestarts
<1>5. CASE ServerRestarts
  <2>1. hifi' \in OwnRecords /\ hifi'.gen = hifi.gen + 1
    BY <1>0, <1>5, NoFilm DEF ServerRestarts, OwnRecords, Records, SidesOK
  <2>2. hifi'.gen \in Nat /\ hifi.gen <= hifi'.gen
    BY <1>0, <2>1
  <2>3. worker' \in CallsTo(hifi'.gen) /\ bridge' \in BridgesTo(hifi'.gen)
    BY <1>0, <1>5, <2>2, Grows, IdleTyped DEF ServerRestarts
  <2>4. starts' \in Seq(StartsTo(hifi'.gen))
    BY <1>0, <1>5, <2>2, Grows, SeqGrows DEF ServerRestarts
  <2>5. ssq' \in Seq(OrdersTo(hifi'.gen))
    <3>1. <<>> \in Seq(OrdersTo(hifi'.gen))
      OBVIOUS
    <3> QED BY <1>5, <3>1 DEF ServerRestarts
  <2>6. LockInv'
    BY <1>0, <1>5 DEF ServerRestarts, LockInv
  <2>7. SidesOK'
    BY <1>0, <1>5, NoFilm, FaultTyped DEF ServerRestarts, SidesOK, OwnRecords, Records
  <2> QED BY <2>1, <2>3, <2>4, <2>5, <2>6, <2>7 DEF HifiInv
<1> QED BY <1>1, <1>2, <1>3, <1>4, <1>5 DEF Faults

(***************************************************************************)
(* The invariant is inductive.                                             *)
(***************************************************************************)
LEMMA HifiInvInit == Init => HifiInv
<1> SUFFICES ASSUME Init PROVE HifiInv
  OBVIOUS
<1>1. hifi \in OwnRecords /\ hifi.gen = 1
  BY NoFilm DEF Init, OwnRecords, Records
<1>2. worker \in CallsTo(hifi.gen)
  BY <1>1, IdleTyped DEF Init
<1>3. bridge \in BridgesTo(hifi.gen)
  BY <1>1, NoFilm DEF Init, Off, BridgesTo, Bridges
<1>4. ssq \in Seq(OrdersTo(hifi.gen)) /\ starts \in Seq(StartsTo(hifi.gen)) /\ LockInv
  <2>1. <<>> \in Seq(OrdersTo(hifi.gen)) /\ <<>> \in Seq(StartsTo(hifi.gen)) /\ DOMAIN <<>> = {}
    OBVIOUS
  <2> QED BY <2>1 DEF Init, LockInv
<1>5. SidesOK
  <2>1. tv \in ShownStates /\ prep \in Sources /\ saved \in Sources
    BY NoFilm DEF Init, ShownStates, TvStates
  <2>2. spent \in Spendings
    BY Bounds DEF Init, Spendings
  <2> QED BY <2>1, <2>2 DEF Init, SidesOK
<1> QED BY <1>1, <1>2, <1>3, <1>4, <1>5 DEF HifiInv

LEMMA HifiInvStep == HifiInv /\ [Next]_vars => HifiInv'
<1> SUFFICES ASSUME HifiInv, [Next]_vars PROVE HifiInv'
  OBVIOUS
<1>1. CASE SomeBeat \/ (\E late \in BOOLEAN : SeekTo(late)) \/ StartTimesOut
           \/ JobSteps \/ WatchReleases
  BY <1>1, ServerStep
<1>2. CASE WorkerSteps
  BY <1>2, WorkerStep
<1>3. CASE Answers \/ StartSteps \/ PushSteps
  BY <1>3, BridgeStep
<1>4. CASE Faults
  BY <1>4, FaultStep
<1>5. CASE UNCHANGED vars
  BY <1>5 DEF vars, HifiInv, SidesOK, LockInv
<1> QED BY <1>1, <1>2, <1>3, <1>4, <1>5 DEF Next

(* Nothing the server, the worker, the bridge or a fault does leaves it. *)
THEOREM HifiInvariant == Spec => []HifiInv
<1> QED BY HifiInvInit, HifiInvStep, PTL DEF Spec

(* _hifi, the queue, the worker's call and the bridge's STATE are what they
   are meant to be, whatever is lost, restarted or late. *)
THEOREM HifiTypeCorrect == Spec => []TypeOK
<1>1. HifiInv => TypeOK
  <2> SUFFICES ASSUME HifiInv PROVE TypeOK
    OBVIOUS
  <2>1. OrdersTo(hifi.gen) \subseteq Orders /\ StartsTo(hifi.gen) \subseteq Starts
    BY DEF OrdersTo, StartsTo
  <2>2. ssq \in Seq(Orders) /\ starts \in Seq(Starts)
    BY <2>1, SeqGrows DEF HifiInv
  <2>3. hifi \in Records /\ worker \in Calls /\ bridge \in Bridges
    BY DEF HifiInv, OwnRecords, CallsTo, BridgesTo
  <2> QED BY <2>2, <2>3 DEF HifiInv, SidesOK, ShownStates, Spendings, TypeOK
<1> QED BY <1>1, HifiInvariant, PTL

(* The timeline the heartbeat measures against is the one of the generation
   the server asked for last: a late reply or an old status brings none back. *)
THEOREM TimelineIsOwn == Spec => []OwnTimeline
<1>1. HifiInv => OwnTimeline
  BY DEF HifiInv, OwnRecords, OwnTimeline, Live
<1> QED BY <1>1, HifiInvariant, PTL

(* A push reads the cache of a decoder that is there, of its own film: no
   decoder is dropped or replaced under a push. *)
THEOREM PushReadsItsCache == Spec => []PushHasItsCache
<1>1. HifiInv => PushHasItsCache
  BY DEF HifiInv, BridgesTo, PushHasItsCache
<1> QED BY <1>1, HifiInvariant, PTL

LEMMA Numbers == MaxTranscodes \in Nat \ {0} /\ MaxClaims \in Nat /\ MaxStops \in Nat /\ MaxRestarts \in Nat
BY NumbersAssumption
LEMMA NilIs == Nil \notin Titles /\ Nil \notin [pid : Nat, held : BOOLEAN]
BY NilAssumption

(***************************************************************************)
(* Least elements, and the order of a finite set of numbers.               *)
(***************************************************************************)
LEMMA LessIsFounded == IsWellFoundedOn({p \in Nat \X Nat : p[1] < p[2]}, Nat)
<1> DEFINE R == OpToRel(<, Nat)
<1>1. R = {p \in Nat \X Nat : p[1] < p[2]}
  BY DEF OpToRel
<1> QED BY <1>1, NatLessThanWellFounded

LEMMA Least ==
  ASSUME NEW T, T \subseteq Nat, T # {}
  PROVE  \E x \in T : \A y \in T : x <= y
<1> DEFINE R == {p \in Nat \X Nat : p[1] < p[2]}
<1>1. IsWellFoundedOn(R, Nat)
  BY LessIsFounded
<1>2. \A x, y \in Nat : x < y => <<x, y>> \in R
  OBVIOUS
<1> HIDE DEF R
<1>3. PICK x \in T : \A y \in T : ~ (<<y, x>> \in R)
  BY <1>1, WFMin
<1>4. \A y \in T : ~ (y < x)
  BY <1>3, <1>2
<1> QED BY <1>3, <1>4

LEMMA MinIsIn ==
  ASSUME NEW T, T \subseteq Nat, T # {}
  PROVE  Min(T) \in T
BY Least DEF Min

Rises(e, n) == \A i, j \in 1..n : i < j => e[i] < e[j]
Sortable(S) == \E e \in [1..Cardinality(S) -> S] : Rises(e, Cardinality(S))

(* A set with a least element is in order when the rest is. *)
LEMMA LeastFirst ==
  ASSUME NEW S, S \subseteq Nat, IsFiniteSet(S), S # {},
         \A T \in SUBSET Nat : IsFiniteSet(T) /\ Cardinality(T) < Cardinality(S) => Sortable(T)
  PROVE  Sortable(S)
<1>1. PICK m \in S : \A y \in S : m <= y
  BY Least
<1> DEFINE T == S \ {m}
           n == Cardinality(S)
<1>2. n \in Nat /\ IsFiniteSet(T) /\ Cardinality(T) = n - 1 /\ T \in SUBSET Nat
  BY FS_RemoveElement, FS_CardinalityType
<1>3. n \in Nat /\ n >= 1
  <2>1. n # 0
    BY FS_EmptySet
  <2> HIDE DEF n
  <2> QED BY <1>2, <2>1
<1>4. Sortable(T)
  <2>1. Cardinality(T) < Cardinality(S)
    BY <1>2, <1>3
  <2> QED BY <2>1, <1>2
<1>5. PICK e \in [1..(n - 1) -> T] : Rises(e, n - 1)
  BY <1>4, <1>2 DEF Sortable
<1> DEFINE d == [i \in 1..n |-> IF i = 1 THEN m ELSE e[i - 1]]
<1>6. \A y \in T : m < y /\ y \in Nat /\ y \in S
  BY <1>1
<1> HIDE DEF T, n
<1>7. \A i \in 2..n : i - 1 \in 1..(n - 1) /\ e[i - 1] \in T
  BY <1>3, <1>5
<1>8. d \in [1..n -> S]
  BY <1>1, <1>3, <1>6, <1>7
<1>9. Rises(d, n)
  <2> SUFFICES ASSUME NEW i \in 1..n, NEW j \in 1..n, i < j PROVE d[i] < d[j]
    BY DEF Rises
  <2>1. j \in 2..n /\ d[j] = e[j - 1]
    BY <1>3
  <2>2. CASE i = 1
    BY <2>1, <2>2, <1>6, <1>7
  <2>3. CASE i # 1
    <3>1. i \in 2..n /\ d[i] = e[i - 1] /\ i - 1 < j - 1
      BY <2>3, <1>3
    <3>2. i - 1 \in 1..(n - 1) /\ j - 1 \in 1..(n - 1)
      BY <2>1, <3>1, <1>7
    <3> HIDE DEF d
    <3> QED BY <2>1, <3>1, <3>2, <1>5 DEF Rises
  <2> QED BY <2>2, <2>3
<1> QED BY <1>8, <1>9 DEF Sortable, n

LEMMA AllSortable == \A S \in SUBSET Nat : IsFiniteSet(S) => Sortable(S)
<1> DEFINE Bad == {n \in Nat : \E S \in SUBSET Nat : IsFiniteSet(S) /\ Cardinality(S) = n /\ ~Sortable(S)}
<1>1. ASSUME Bad # {} PROVE FALSE
  <2>1. PICK n \in Bad : \A k \in Bad : n <= k
    BY <1>1, Least
  <2>2. PICK S \in SUBSET Nat : IsFiniteSet(S) /\ Cardinality(S) = n /\ ~Sortable(S)
    BY <2>1
  <2>3. \A T \in SUBSET Nat : IsFiniteSet(T) /\ Cardinality(T) < n => Sortable(T)
    <3> SUFFICES ASSUME NEW T \in SUBSET Nat, IsFiniteSet(T), Cardinality(T) < n, ~Sortable(T)
                 PROVE  FALSE
      OBVIOUS
    <3>1. Cardinality(T) \in Nat
      BY FS_CardinalityType
    <3>2. Cardinality(T) \in Bad
      BY <3>1
    <3> QED BY <2>1, <3>1, <3>2
  <2>4. S = {}
    BY <2>2, <2>3, LeastFirst
  <2>5. Cardinality(S) = 0
    BY <2>4, FS_EmptySet
  <2>6. [i \in 1..0 |-> 0] \in [1..0 -> S] /\ Rises([i \in 1..0 |-> 0], 0)
    BY DEF Rises
  <2> QED BY <2>2, <2>5, <2>6 DEF Sortable
<1> QED
  <2> SUFFICES ASSUME NEW S \in SUBSET Nat, IsFiniteSet(S), ~Sortable(S) PROVE FALSE
    OBVIOUS
  <2>1. Cardinality(S) \in Nat
    BY FS_CardinalityType
  <2>2. Cardinality(S) \in Bad
    BY <2>1
  <2> QED BY <1>1, <2>2

(* Sorted(S) is a sequence of the elements of S, each once, smaller before larger. *)
LEMMA SortedIs ==
  ASSUME NEW S \in SUBSET Nat, IsFiniteSet(S)
  PROVE  /\ Sorted(S) \in Seq(S)
         /\ Len(Sorted(S)) = Cardinality(S)
         /\ \A x \in S : \E i \in 1..Cardinality(S) : Sorted(S)[i] = x
<1> DEFINE n == Cardinality(S)
           e == Sorted(S)
<1>1. n \in Nat
  BY FS_CardinalityType
<1>2. e \in [1..n -> S] /\ Rises(e, n)
  <2>1. \E d \in [1..n -> S] : \A i, j \in 1..n : i < j => d[i] < d[j]
    BY AllSortable DEF Sortable, Rises
  <2> QED BY <2>1 DEF Sorted, Rises
<1>3. IsFiniteSet(1..n) /\ Cardinality(1..n) = n
  <2> HIDE DEF n
  <2> QED BY <1>1, FS_Interval
<1> HIDE DEF e
<1>4. e \in Seq(S) /\ Len(e) = n
  <2> HIDE DEF n
  <2> QED BY <1>1, <1>2
<1>5. \A i, j \in 1..n : i # j => e[i] # e[j]
  <2> HIDE DEF n
  <2> SUFFICES ASSUME NEW i \in 1..n, NEW j \in 1..n, i # j PROVE e[i] # e[j]
    OBVIOUS
  <2>1. e[i] \in Nat /\ e[j] \in Nat
    BY <1>2
  <2>2. i < j \/ j < i
    BY <1>1
  <2>3. e[i] < e[j] \/ e[j] < e[i]
    BY <2>2, <1>2 DEF Rises
  <2> QED BY <2>1, <2>3
<1>6. e \in Injection(1..n, S)
  BY <1>2, <1>5 DEF Injection, IsInjective
<1>7. e \in Surjection(1..n, S)
  BY <1>3, <1>6, FS_Injection
<1>8. \A x \in S : \E i \in 1..n : e[i] = x
  BY <1>7 DEF Surjection
<1> QED BY <1>4, <1>8 DEF e

(***************************************************************************)
(* The registry without some of its entries.                               *)
(***************************************************************************)
RegistryOK(r) == r \in Seq(Plays) /\ Len(r) <= MaxTranscodes

LEMMA EntriesArePlays == ASSUME registry \in Seq(Plays) PROVE Entries \subseteq Plays
BY DEF Entries

LEMMA WithoutIs ==
  ASSUME registry \in Seq(Plays), Len(registry) <= MaxTranscodes, NEW ps
  PROVE  /\ Without(ps) \in Seq(Plays) /\ Len(Without(ps)) <= MaxTranscodes
         /\ {Without(ps)[i] : i \in 1..Len(Without(ps))} \subseteq Entries
<1> DEFINE S == {i \in 1..Len(registry) : registry[i] \notin ps}
           e == Sorted(S)
<1>1. S \in SUBSET Nat /\ IsFiniteSet(S) /\ Cardinality(S) <= Len(registry)
  <2>1. Len(registry) \in Nat
    OBVIOUS
  <2>2. IsFiniteSet(1..Len(registry)) /\ Cardinality(1..Len(registry)) = Len(registry)
    <3> DEFINE n == Len(registry)
    <3>1. n \in Nat
      BY <2>1
    <3> HIDE DEF n
    <3>2. IsFiniteSet(1..n) /\ Cardinality(1..n) = n
      BY <3>1, FS_Interval
    <3> QED BY <3>2 DEF n
  <2>3. S \in SUBSET (1..Len(registry))
    OBVIOUS
  <2>4. IsFiniteSet(S) /\ Cardinality(S) <= Cardinality(1..Len(registry))
    BY <2>2, <2>3, FS_Subset
  <2> QED BY <2>2, <2>3, <2>4
<1>2. S \subseteq 1..Len(registry)
  OBVIOUS
<1>3. Without(ps) = [i \in DOMAIN e |-> registry[e[i]]]
  BY DEF Without
<1> HIDE DEF S
<1>4. e \in Seq(S) /\ Len(e) = Cardinality(S)
  BY <1>1, SortedIs
<1> HIDE DEF e
<1>5. Len(e) \in Nat /\ DOMAIN e = 1..Len(e) /\ Len(e) <= MaxTranscodes
  <2>1. Len(e) \in Nat /\ DOMAIN e = 1..Len(e)
    BY <1>4
  <2>2. Len(registry) \in Nat
    OBVIOUS
  <2> QED BY <2>1, <2>2, <1>1, <1>4, Numbers
<1>6. \A i \in 1..Len(e) : e[i] \in 1..Len(registry)
  BY <1>2, <1>4, ElementOfSeq
<1>7. \A i \in 1..Len(e) : registry[e[i]] \in Plays /\ registry[e[i]] \in Entries
  BY <1>6, ElementOfSeq DEF Entries
<1> DEFINE w == [i \in 1..Len(e) |-> registry[e[i]]]
<1>8. w \in Seq(Plays) /\ Len(w) = Len(e) /\ \A i \in 1..Len(e) : w[i] \in Entries
  BY <1>5, <1>7
<1>9. Without(ps) = w
  BY <1>3, <1>5
<1> HIDE DEF w
<1> QED BY <1>5, <1>8, <1>9

(***************************************************************************)
(* Steps, and sequences of them.                                           *)
(***************************************************************************)
(* What kills a process and its client. *)
Killings == [op : {"find"}, of : Titles] \cup [op : {"cont", "term", "wait", "client"}, of : Plays]

LEMMA KillingsAre ==
  /\ Killings \subseteq Steps
  /\ \A x \in Killings : x.op \in {"find", "cont", "term", "wait", "client"}
BY DEF Killings, Steps

LEMMA PairIs == ASSUME NEW a, NEW b PROVE <<a>> \o <<b>> = <<a, b>>
<1> DEFINE s == <<a>> \o <<b>>
           S == {a, b}
<1>1. <<a>> \in Seq(S) /\ Len(<<a>>) = 1 /\ <<a>>[1] = a
  OBVIOUS
<1>2. <<b>> \in Seq(S) /\ Len(<<b>>) = 1 /\ <<b>>[1] = b
  OBVIOUS
<1>3. s \in Seq(S) /\ Len(s) = 2 /\ s[1] = a /\ s[2] = b
  BY <1>1, <1>2, ConcatProperties
<1>4. <<a, b>> \in Seq(S) /\ Len(<<a, b>>) = 2 /\ <<a, b>>[1] = a /\ <<a, b>>[2] = b
  OBVIOUS
<1> HIDE DEF s, S
<1>5. DOMAIN s = 1..2 /\ s = [i \in 1..2 |-> s[i]]
  BY <1>3
<1>6. <<a, b>> = [i \in 1..2 |-> <<a, b>>[i]]
  BY <1>4
<1>7. \A i \in 1..2 : s[i] = <<a, b>>[i]
  BY <1>3, <1>4
<1>8. s = <<a, b>>
  BY <1>5, <1>6, <1>7
<1> QED BY <1>8 DEF s

LEMMA StopIs ==
  ASSUME NEW p \in Plays, title \in [Plays -> Titles \cup {Nil}], title[p] # Nil
  PROVE  Stop(p) = <<Step("find", title[p]), Step("client", p)>> /\ Stop(p) \in Seq(Killings)
<1>1. Stop(p) = <<Step("find", title[p]), Step("client", p)>>
  <2>1. Stop(p) = <<Step("find", title[p])>> \o <<Step("client", p)>>
    BY DEF Stop, KillCtr
  <2> QED BY <2>1, PairIs
<1>2. Step("find", title[p]) \in Killings /\ Step("client", p) \in Killings
  BY DEF Step, Killings
<1> QED BY <1>1, <1>2

LEMMA KillPidIs ==
  ASSUME NEW p \in Plays
  PROVE  /\ KillPid(p) = <<Step("cont", p), Step("term", p), Step("wait", p)>>
         /\ KillPid(p) \in Seq(Killings) /\ Tail(KillPid(p)) \in Seq(Killings)
<1>1. KillPid(p) = <<Step("cont", p), Step("term", p), Step("wait", p)>>
  BY DEF KillPid
<1>2. Step("cont", p) \in Killings /\ Step("term", p) \in Killings /\ Step("wait", p) \in Killings
  BY DEF Step, Killings
<1>3. KillPid(p) \in Seq(Killings)
  BY <1>1, <1>2
<1>4. KillPid(p) # <<>>
  BY <1>1
<1> QED BY <1>1, <1>3, <1>4, HeadTailProperties

LEMMA StopEachIs ==
  ASSUME NEW ps \in Seq(Plays), title \in [Plays -> Titles \cup {Nil}],
         \A i \in 1..Len(ps) : title[ps[i]] # Nil
  PROVE  StopEach(ps) \in Seq(Killings) /\ Len(StopEach(ps)) = 2 * Len(ps)
<1> DEFINE n == Len(ps)
<1>1. n \in Nat
  OBVIOUS
<1>2. ASSUME NEW i \in 1..(2 * n)
      PROVE  Stop(ps[(i + 1) \div 2])[2 - (i % 2)] \in Killings
  <2> DEFINE k == (i + 1) \div 2
             j == 2 - (i % 2)
  <2>1. k \in 1..n /\ j \in {1, 2}
    <3> HIDE DEF n
    <3> QED BY <1>1
  <2> HIDE DEF k, j
  <2>2. ps[k] \in Plays /\ title[ps[k]] # Nil
    BY <2>1
  <2>3. Stop(ps[k]) \in Seq(Killings) /\ Len(Stop(ps[k])) = 2
    BY <2>2, StopIs
  <2>4. Stop(ps[k])[j] \in Killings
    BY <2>1, <2>3, ElementOfSeq
  <2> QED BY <2>4 DEF k, j
<1>3. StopEach(ps) = [i \in 1..(2 * n) |-> Stop(ps[(i + 1) \div 2])[2 - (i % 2)]]
  BY DEF StopEach
<1> HIDE DEF n
<1>4. StopEach(ps) \in [1..(2 * n) -> Killings] /\ 2 * n \in Nat
  BY <1>1, <1>2, <1>3
<1> HIDE <1>3
<1>5. StopEach(ps) \in Seq(Killings) /\ Len(StopEach(ps)) = 2 * n
  BY <1>4
<1> QED BY <1>5 DEF n

LEMMA KillEachIs ==
  ASSUME NEW ps \in Seq(Plays)
  PROVE  /\ KillEach(ps) \in Seq(Killings) /\ Len(KillEach(ps)) = 3 * Len(ps)
         /\ \A k \in 1..Len(ps) : KillEach(ps)[3 * k] = Step("wait", ps[k])
<1> DEFINE n == Len(ps)
<1>1. n \in Nat
  OBVIOUS
<1>2. ASSUME NEW i \in 1..(3 * n)
      PROVE  KillPid(ps[(i + 2) \div 3])[1 + ((i + 2) % 3)] \in Killings
  <2> DEFINE k == (i + 2) \div 3
             j == 1 + ((i + 2) % 3)
  <2>1. k \in 1..n /\ j \in {1, 2, 3}
    <3> HIDE DEF n
    <3> QED BY <1>1
  <2> HIDE DEF k, j
  <2>2. ps[k] \in Plays
    BY <2>1
  <2>3. KillPid(ps[k]) \in Seq(Killings) /\ Len(KillPid(ps[k])) = 3
    BY <2>2, KillPidIs
  <2>4. KillPid(ps[k])[j] \in Killings
    BY <2>1, <2>3, ElementOfSeq
  <2> QED BY <2>4 DEF k, j
<1>3. KillEach(ps) = [i \in 1..(3 * n) |-> KillPid(ps[(i + 2) \div 3])[1 + ((i + 2) % 3)]]
  BY DEF KillEach
<1>4. ASSUME NEW k \in 1..n PROVE KillEach(ps)[3 * k] = Step("wait", ps[k])
  <2>1. KillPid(ps[k])[3] = Step("wait", ps[k])
    BY KillPidIs
  <2> DEFINE F(i) == KillPid(ps[(i + 2) \div 3])[1 + ((i + 2) % 3)]
  <2>2. 3 * k \in 1..(3 * n) /\ (3 * k + 2) \div 3 = k /\ 1 + ((3 * k + 2) % 3) = 3
    <3> HIDE DEF n
    <3> QED BY <1>1
  <2>3. F(3 * k) = KillPid(ps[k])[3]
    BY <2>2
  <2>4. KillEach(ps) = [i \in 1..(3 * n) |-> F(i)]
    BY <1>3
  <2> HIDE DEF F, n
  <2>5. KillEach(ps)[3 * k] = F(3 * k)
    BY <2>2, <2>4
  <2> QED BY <2>1, <2>3, <2>5
<1> HIDE DEF n
<1>5. KillEach(ps) \in [1..(3 * n) -> Killings] /\ 3 * n \in Nat
  BY <1>1, <1>2, <1>3
<1> HIDE <1>3
<1>6. KillEach(ps) \in Seq(Killings) /\ Len(KillEach(ps)) = 3 * n
  BY <1>5
<1> QED BY <1>4, <1>6 DEF n

(***************************************************************************)
(* The inductive invariant.                                                *)
(***************************************************************************)

(* A play that is not made has nothing. *)
Unmade == \A p \in Plays : title[p] = Nil =>
  /\ state[p] = "none" /\ regulator[p] = Nil /\ todo[p] = <<>>
  /\ p \notin Entries /\ p \notin clients /\ p \notin own

(* A worker commits with nothing else to do, launches with only its wait after it,
   and waits last; its play has no process before the one and no regulator before
   the other. *)
Launches == {"commit", "start", "evict"}
Marks == Launches \cup {"head"}
InOrder(s) == \A i \in 1..Len(s) :
  /\ s[i].op = "commit" => Len(s) = 1
  /\ s[i].op \in {"start", "evict"} => Len(s) = i + 1
  /\ s[i].op = "head" => Len(s) = i
Ahead(s, ops) == \E i \in 1..Len(s) : s[i].op \in ops
Workers == \A p \in Plays :
  /\ InOrder(todo[p])
  /\ Ahead(todo[p], Launches) => state[p] = "none"
  /\ Ahead(todo[p], Marks) => regulator[p] = Nil

(* The stop of everything begins with the registry, and ends with the orphans, the
   mark that it is through and the outputs. *)
StopMarks == {"pop", "known", "orphans", "stopped"}
StopInOrder(s) == \A i \in 1..Len(s) :
  /\ s[i].op = "pop" => s = StopAll
  /\ s[i].op \in {"known", "orphans"} => Len(s) = i + 2
  /\ s[i].op = "stopped" => Len(s) = i + 1
(* Where p, which converts k, was to be stopped and still runs, it will be found to
   be an orphan, or it has been and its KILL is on its way. *)
WillStop(s, p, k, names) == \E i \in 1..Len(s) :
  \/ s[i].op = "known" /\ k \notin names
  \/ s[i].op = "orphans" /\ k \notin s[i].of
  \/ s[i] = Step("wait", p) /\ i < Len(s) - 1
Stops ==
  /\ StopInOrder(todo[Stopper])
  /\ \A p \in due : state[p] \in {"running", "held", "gone"}
  /\ \A p \in due \cap Visible : WillStop(todo[Stopper], p, title[p], Names)

ConvInv == ConvTypeOK /\ Unmade /\ Workers /\ Stops /\ HeldIsReleased

(***************************************************************************)
(* A thread's steps when its first makes way for others: what is left of   *)
(* them is as far from the end as it was.                                  *)
(***************************************************************************)
LEMMA ThenIs ==
  ASSUME NEW S, NEW s \in Seq(S), s # <<>>, NEW q \in Seq(S), NEW r, r = q \o Tail(s)
  PROVE  /\ r \in Seq(S) /\ Len(r) = Len(q) + Len(s) - 1
         /\ Len(s) \in Nat /\ Len(s) >= 1 /\ Len(q) \in Nat
         /\ \A i \in 1..Len(q) : i \in 1..Len(r) /\ r[i] = q[i]
         /\ \A i \in 2..Len(s) : Len(q) + i - 1 \in 1..Len(r) /\ r[Len(q) + i - 1] = s[i]
         /\ \A i \in 1..Len(r) : i > Len(q) => i - Len(q) + 1 \in 2..Len(s) /\ r[i] = s[i - Len(q) + 1]
<1>1. /\ Tail(s) \in Seq(S) /\ Len(Tail(s)) = Len(s) - 1
      /\ \A i \in 1..Len(Tail(s)) : Tail(s)[i] = s[i + 1]
  BY HeadTailProperties
<1> DEFINE u == Tail(s)
<1>2. /\ q \o u \in Seq(S) /\ Len(q \o u) = Len(q) + Len(u)
      /\ \A i \in 1..(Len(q) + Len(u)) : (q \o u)[i] = IF i <= Len(q) THEN q[i] ELSE u[i - Len(q)]
  <2>1. u \in Seq(S)
    BY <1>1
  <2> HIDE DEF u
  <2> QED BY <2>1, ConcatProperties
<1>3. Len(s) \in Nat /\ Len(s) >= 1 /\ Len(q) \in Nat
  OBVIOUS
<1> HIDE DEF u
<1>4. Len(u) = Len(s) - 1 /\ \A i \in 1..Len(u) : u[i] = s[i + 1]
  BY <1>1 DEF u
<1>5. r = q \o u
  BY DEF u
<1>6. Len(r) = Len(q) + Len(s) - 1 /\ r \in Seq(S)
  BY <1>2, <1>3, <1>4, <1>5
<1>7. \A i \in 1..Len(q) : i \in 1..Len(r) /\ r[i] = q[i]
  BY <1>2, <1>3, <1>4, <1>5, <1>6
<1>8. ASSUME NEW i \in 2..Len(s)
      PROVE  Len(q) + i - 1 \in 1..Len(r) /\ r[Len(q) + i - 1] = s[i]
  <2>1. Len(q) + i - 1 \in 1..(Len(q) + Len(u)) /\ Len(q) + i - 1 > Len(q) /\ i - 1 \in 1..Len(u)
    BY <1>3, <1>4
  <2>2. r[Len(q) + i - 1] = u[(Len(q) + i - 1) - Len(q)]
    BY <1>2, <1>3, <1>5, <2>1
  <2>3. (Len(q) + i - 1) - Len(q) = i - 1 /\ (i - 1) + 1 = i
    BY <1>3
  <2>4. u[i - 1] = s[i]
    BY <1>4, <2>1, <2>3
  <2> QED BY <1>3, <1>4, <1>6, <2>1, <2>2, <2>3, <2>4
<1>9. ASSUME NEW i \in 1..Len(r), i > Len(q)
      PROVE  i - Len(q) + 1 \in 2..Len(s) /\ r[i] = s[i - Len(q) + 1]
  <2>1. i - Len(q) \in 1..Len(u) /\ i \in 1..(Len(q) + Len(u)) /\ ~(i <= Len(q))
    BY <1>3, <1>4, <1>6, <1>9
  <2>2. r[i] = u[i - Len(q)]
    BY <1>2, <1>5, <2>1
  <2>3. u[i - Len(q)] = s[i - Len(q) + 1]
    BY <1>4, <2>1
  <2> QED BY <1>3, <1>4, <2>1, <2>2, <2>3
<1> QED BY <1>3, <1>6, <1>7, <1>8, <1>9

LEMMA ThenInOrder ==
  ASSUME NEW S, NEW s \in Seq(S), s # <<>>, NEW q \in Seq(S), NEW r, r = q \o Tail(s),
         InOrder(s), \A i \in 1..Len(q) : q[i].op \notin Marks
  PROVE  /\ InOrder(r)
         /\ \A ops \in SUBSET Marks : Ahead(r, ops) => Ahead(s, ops)
<1>1. InOrder(r)
  <2> SUFFICES ASSUME NEW i \in 1..Len(r)
               PROVE  /\ r[i].op = "commit" => Len(r) = 1
                      /\ r[i].op \in {"start", "evict"} => Len(r) = i + 1
                      /\ r[i].op = "head" => Len(r) = i
    BY DEF InOrder
  <2>1. CASE i <= Len(q)
    <3>1. i \in 1..Len(q) /\ r[i] = q[i]
      BY <2>1, ThenIs
    <3> QED BY <3>1 DEF Marks, Launches
  <2>2. CASE i > Len(q)
    <3> DEFINE j == i - Len(q) + 1
    <3>1. j \in 2..Len(s) /\ r[i] = s[j] /\ Len(s) \in Nat /\ Len(q) \in Nat
          /\ Len(r) = Len(q) + Len(s) - 1 /\ i \in Nat
      BY <2>2, ThenIs
    <3>2. j = i - Len(q) + 1
      OBVIOUS
    <3> HIDE DEF j
    <3>3. j \in 1..Len(s)
      BY <3>1
    <3>4. /\ s[j].op = "commit" => Len(s) = 1
          /\ s[j].op \in {"start", "evict"} => Len(s) = j + 1
          /\ s[j].op = "head" => Len(s) = j
      BY <3>3 DEF InOrder
    <3>5. r[i].op # "commit"
      BY <3>1, <3>4
    <3> QED BY <3>1, <3>2, <3>4, <3>5
  <2>3. i <= Len(q) \/ i > Len(q)
    OBVIOUS
  <2> QED BY <2>1, <2>2, <2>3
<1>2. ASSUME NEW ops \in SUBSET Marks, Ahead(r, ops) PROVE Ahead(s, ops)
  <2>1. PICK i \in 1..Len(r) : r[i].op \in ops
    BY <1>2 DEF Ahead
  <2>2. ~(i <= Len(q))
    <3> SUFFICES ASSUME i <= Len(q) PROVE FALSE
      OBVIOUS
    <3>1. i \in 1..Len(q) /\ r[i] = q[i]
      BY ThenIs
    <3> QED BY <2>1, <3>1
  <2>3. i > Len(q)
    BY <2>2
  <2>4. i - Len(q) + 1 \in 2..Len(s) /\ r[i] = s[i - Len(q) + 1] /\ Len(s) \in Nat
    BY <2>3, ThenIs
  <2>5. i - Len(q) + 1 \in 1..Len(s)
    BY <2>4
  <2> QED BY <2>1, <2>4, <2>5 DEF Ahead
<1> QED BY <1>1, <1>2

LEMMA StopAllIs ==
  /\ StopAll \in Seq(Steps) /\ Len(StopAll) = 4
  /\ StopAll[1] = Step("pop", Nil) /\ StopAll[2] = Step("known", Nil)
  /\ StopAll[3] = Step("stopped", Nil) /\ StopAll[4] = Step("list", Nil)
<1>1. \A op \in {"pop", "known", "stopped", "list"} : Step(op, Nil) \in Steps
  BY DEF Step, Steps
<1> QED BY <1>1 DEF StopAll

LEMMA NoSecondPop ==
  ASSUME NEW s, StopInOrder(s)
  PROVE  \A i \in 2..Len(s) : s[i].op # "pop"
<1> SUFFICES ASSUME NEW i \in 2..Len(s), s[i].op = "pop" PROVE FALSE
  OBVIOUS
<1>1. i \in 1..Len(s)
  OBVIOUS
<1>2. s = StopAll
  BY <1>1 DEF StopInOrder
<1>3. i \in 2..4
  BY <1>2, StopAllIs
<1>4. s[i].op \in {"known", "stopped", "list"}
  BY <1>2, <1>3, StopAllIs DEF Step
<1> QED BY <1>4

LEMMA ThenStopInOrder ==
  ASSUME NEW S, NEW s \in Seq(S), s # <<>>, NEW q \in Seq(S), NEW r, r = q \o Tail(s),
         StopInOrder(s), \A i \in 1..Len(q) : q[i].op \notin StopMarks
  PROVE  StopInOrder(r)
<1> SUFFICES ASSUME NEW i \in 1..Len(r)
             PROVE  /\ r[i].op # "pop"
                    /\ r[i].op \in {"known", "orphans"} => Len(r) = i + 2
                    /\ r[i].op = "stopped" => Len(r) = i + 1
  BY DEF StopInOrder
<1>1. CASE i <= Len(q)
  <2>1. i \in 1..Len(q) /\ r[i] = q[i]
    BY <1>1, ThenIs
  <2> QED BY <2>1 DEF StopMarks
<1>2. CASE i > Len(q)
  <2> DEFINE j == i - Len(q) + 1
  <2>1. j \in 2..Len(s) /\ r[i] = s[j] /\ Len(s) \in Nat /\ Len(q) \in Nat
        /\ Len(r) = Len(q) + Len(s) - 1 /\ i \in Nat
    BY <1>2, ThenIs
  <2>2. j = i - Len(q) + 1
    OBVIOUS
  <2> HIDE DEF j
  <2>3. j \in 1..Len(s)
    BY <2>1
  <2>4. /\ s[j].op \in {"known", "orphans"} => Len(s) = j + 2
        /\ s[j].op = "stopped" => Len(s) = j + 1
    BY <2>3 DEF StopInOrder
  <2>5. s[j].op # "pop"
    BY <2>1, NoSecondPop
  <2> QED BY <2>1, <2>2, <2>4, <2>5
<1>3. i <= Len(q) \/ i > Len(q)
  OBVIOUS
<1> QED BY <1>1, <1>2, <1>3

LEMMA ThenWillStop ==
  ASSUME NEW S, NEW s \in Seq(S), s # <<>>, NEW q \in Seq(S), NEW r, r = q \o Tail(s),
         NEW p, NEW k, NEW names, NEW fewer, fewer \subseteq names,
         WillStop(s, p, k, names), s[1].op \notin {"known", "orphans"}, s[1] # Step("wait", p)
  PROVE  WillStop(r, p, k, fewer)
<1>1. PICK i \in 1..Len(s) : \/ s[i].op = "known" /\ k \notin names
                             \/ s[i].op = "orphans" /\ k \notin s[i].of
                             \/ s[i] = Step("wait", p) /\ i < Len(s) - 1
  BY DEF WillStop
<1>2. i # 1
  BY <1>1
<1>3. Len(s) \in Nat /\ Len(q) \in Nat /\ Len(r) = Len(q) + Len(s) - 1
  BY ThenIs
<1>4. i \in 2..Len(s)
  BY <1>2, <1>3
<1> DEFINE j == Len(q) + i - 1
<1>5. j \in 1..Len(r) /\ r[j] = s[i]
  BY <1>4, ThenIs
<1>6. i < Len(s) - 1 => j < Len(r) - 1
  BY <1>3
<1> HIDE DEF j
<1>7. k \notin names => k \notin fewer
  OBVIOUS
<1> QED BY <1>1, <1>5, <1>6, <1>7 DEF WillStop

(***************************************************************************)
(* What the container does of itself or when a thread tells it: processes  *)
(* resume and end.                                                         *)
(***************************************************************************)
States == {"none", "booting", "running", "held", "gone"}
Regulators == [pid : Threads, held : BOOLEAN] \cup {Nil}
Easing ==
  /\ state' \in [Plays -> States] /\ doomed' \subseteq Held' /\ clients' \subseteq clients
  /\ \A p \in Plays : state'[p] = state[p] \/ (p \in Visible /\ state'[p] \in {"running", "gone"})

LEMMA VisibleIs ==
  /\ Held = {p \in Plays : state[p] = "held"}
  /\ Visible = {p \in Plays : state[p] \in {"running", "held"}}
BY DEF Held, Visible

LEMMA VisibleNext ==
  /\ Held' = {p \in Plays : state'[p] = "held"}
  /\ Visible' = {p \in Plays : state'[p] \in {"running", "held"}}
BY DEF Held, Visible

LEMMA EasingIs ==
  ASSUME Easing
  PROVE  /\ Held' \subseteq Held /\ Visible' \subseteq Visible
         /\ \A p \in Plays : state[p] = "none" => state'[p] = "none"
         /\ \A p \in Plays : state[p] \in {"running", "held", "gone"} => state'[p] \in {"running", "held", "gone"}
BY VisibleIs, VisibleNext DEF Easing

LEMMA DieEases ==
  ASSUME ConvTypeOK, NEW p \in Visible, Die(p)
  PROVE  Easing /\ p \notin Visible'
<1>1. state \in [Plays -> States] /\ doomed \subseteq Held /\ p \in Plays
  BY VisibleIs DEF ConvTypeOK, States
<1>2. /\ state' = [state EXCEPT ![p] = "gone"] /\ doomed' = doomed \ {p} /\ clients' = clients \ {p}
  BY DEF Die, Set
<1>3. state' \in [Plays -> States]
  BY <1>1, <1>2 DEF States
<1>4. \A q \in Plays : state'[q] = IF q = p THEN "gone" ELSE state[q]
  BY <1>1, <1>2
<1>5. doomed' \subseteq Held'
  BY <1>1, <1>2, <1>4, VisibleIs, VisibleNext
<1> QED BY <1>1, <1>2, <1>3, <1>4, <1>5, VisibleNext DEF Easing

LEMMA KeptEases ==
  ASSUME ConvTypeOK, UNCHANGED processes
  PROVE  Easing
<1>1. state \in [Plays -> States] /\ doomed \subseteq Held
  BY DEF ConvTypeOK, States
<1>2. state' = state /\ doomed' = doomed /\ clients' = clients
  BY DEF processes
<1>3. Held' = Held
  BY <1>2 DEF Held
<1> QED BY <1>1, <1>2, <1>3 DEF Easing

LEMMA ContinueEases ==
  ASSUME ConvTypeOK, NEW p, Continue(p)
  PROVE  Easing /\ p \notin Held'
<1>1. state \in [Plays -> States] /\ doomed \subseteq Held
  BY DEF ConvTypeOK, States
<1>2. CASE p \in doomed
  <2>1. p \in Visible /\ Die(p)
    BY <1>1, <1>2, VisibleIs DEF Continue
  <2> QED BY <2>1, DieEases, VisibleNext
<1>3. CASE p \notin doomed /\ p \in Held
  <2>1. p \in Plays /\ p \in Visible
    BY <1>3, VisibleIs
  <2>2. state' = [state EXCEPT ![p] = "running"] /\ doomed' = doomed /\ clients' = clients
    BY <1>3 DEF Continue, Set
  <2>3. state' \in [Plays -> States]
    BY <1>1, <2>2 DEF States
  <2>4. \A q \in Plays : state'[q] = IF q = p THEN "running" ELSE state[q]
    BY <1>1, <2>2
  <2>5. doomed' \subseteq Held' /\ p \notin Held'
    BY <1>1, <1>3, <2>1, <2>2, <2>4, VisibleIs, VisibleNext
  <2> QED BY <2>1, <2>2, <2>3, <2>4, <2>5 DEF Easing
<1>4. CASE p \notin doomed /\ p \notin Held
  <2>1. UNCHANGED processes
    BY <1>4 DEF Continue
  <2>2. p \notin Held'
    BY <1>4, <2>1 DEF Held, processes
  <2> QED BY <2>1, <2>2, KeptEases
<1> QED BY <1>2, <1>3, <1>4

(***************************************************************************)
(* A quiet step: it starts and suspends no process and registers none.     *)
(***************************************************************************)
Quiet ==
  /\ Easing
  /\ RegistryOK(registry') /\ Entries' \subseteq Entries /\ lock' \in Threads
  /\ files' \subseteq Titles
  /\ UNCHANGED <<plays, bounds>>

LEMMA StepsKept == ASSUME title' = title PROVE Steps' = Steps
BY DEF Steps, Made

LEMMA NamesAre == Names = {title[p] : p \in Entries}
BY DEF Names

LEMMA QuietTypes ==
  ASSUME ConvTypeOK, Quiet, todo' \in [Threads -> Seq(Steps)], regulator' \in [Plays -> Regulators],
         due' \subseteq Plays
  PROVE  ConvTypeOK'
<1>1. title' = title /\ gen' = gen /\ own' = own
      /\ stops' = stops /\ restarts' = restarts
  BY DEF Quiet, plays, bounds
<1>2. title' \in [Plays -> Titles \cup {Nil}] /\ gen' \in Threads /\ own' \subseteq Plays
  BY <1>1 DEF ConvTypeOK
<1>4. stops' \in 0..MaxStops /\ restarts' \in 0..MaxRestarts
  BY <1>1 DEF ConvTypeOK
<1>5. state' \in [Plays -> States] /\ doomed' \subseteq Held' /\ clients' \subseteq Plays
  BY DEF Quiet, Easing, ConvTypeOK
<1>6. registry' \in Seq(Plays) /\ Len(registry') <= MaxTranscodes /\ lock' \in Threads
      /\ files' \subseteq Titles
  BY DEF Quiet, RegistryOK
<1>7. todo' \in [Threads -> Seq(Steps')]
  BY <1>1, StepsKept
<1> QED BY <1>2, <1>4, <1>5, <1>6, <1>7 DEF ConvTypeOK, States, Regulators

LEMMA QuietUnmade ==
  ASSUME ConvTypeOK, Unmade, Quiet,
         \A p \in Plays : title[p] = Nil => todo'[p] = <<>> /\ regulator'[p] = Nil
  PROVE  Unmade'
<1>1. title' = title /\ own' = own /\ Entries' \subseteq Entries /\ clients' \subseteq clients
  BY DEF Quiet, Easing, plays
<1>2. \A p \in Plays : state[p] = "none" => state'[p] = "none"
  BY EasingIs DEF Quiet
<1> QED BY <1>1, <1>2 DEF Unmade

LEMMA QuietWorkers ==
  ASSUME Workers, Quiet,
         \A p \in Plays : InOrder(todo'[p]),
         \A p \in Plays : Ahead(todo'[p], Launches) => Ahead(todo[p], Launches),
         \A p \in Plays : Ahead(todo'[p], Marks) => Ahead(todo[p], Marks),
         \A p \in Plays : regulator[p] = Nil => regulator'[p] = Nil
  PROVE  Workers'
<1>1. \A p \in Plays : state[p] = "none" => state'[p] = "none"
  BY EasingIs DEF Quiet
<1> QED BY <1>1 DEF Workers

LEMMA QuietHeld ==
  ASSUME HeldIsReleased, Quiet, ConvTypeOK, regulator' = regulator
  PROVE  HeldIsReleased'
<1>1. own' = own /\ own \subseteq Plays
  BY DEF Quiet, plays, ConvTypeOK
<1>2. \A p \in own : state'[p] = "held" => state[p] = "held"
  BY <1>1, EasingIs, VisibleIs, VisibleNext DEF Quiet
<1> QED BY <1>1, <1>2 DEF HeldIsReleased

(* What is due to be stopped stays so, where what the stop has to do covers it. *)
LEMMA QuietDue ==
  ASSUME ConvTypeOK, Stops, Quiet, due' = due, StopInOrder(todo'[Stopper]),
         \A p \in due \cap Visible' :
           WillStop(todo[Stopper], p, title[p], Names) => WillStop(todo'[Stopper], p, title[p], Names')
  PROVE  Stops'
<1>1. title' = title /\ Visible' \subseteq Visible /\ due \subseteq Plays
  BY EasingIs DEF Quiet, plays, ConvTypeOK
<1>2. \A p \in due : state'[p] \in {"running", "held", "gone"}
  BY <1>1, EasingIs DEF Quiet, Stops
<1>3. \A p \in due \cap Visible' : WillStop(todo[Stopper], p, title[p], Names)
  BY <1>1 DEF Stops
<1>4. \A p \in due \cap Visible' : WillStop(todo'[Stopper], p, title[p], Names')
  BY <1>3
<1> HIDE DEF Stopper
<1>5. (todo[Stopper])' = todo'[Stopper]
  BY DEF Stopper
<1> QED BY <1>1, <1>2, <1>4, <1>5 DEF Stops

LEMMA WillStopFewer ==
  ASSUME NEW s, NEW p, NEW k, NEW names, NEW fewer, fewer \subseteq names, WillStop(s, p, k, names)
  PROVE  WillStop(s, p, k, fewer)
BY DEF WillStop

LEMMA NamesFewer ==
  ASSUME Quiet
  PROVE  Names' \subseteq Names
BY DEF Quiet, Names, plays

LEMMA ThreadsAre == /\ Stopper \in Threads /\ Stopper \notin Plays /\ Plays \subseteq Threads
                    /\ \A t \in Threads : t = Stopper \/ t \in Plays
                    /\ Threads \subseteq Nat /\ Plays \subseteq Nat
BY Numbers DEF Threads, Stopper, Plays

(***************************************************************************)
(* A quiet step of a thread.                                               *)
(***************************************************************************)
LEMMA StepIs ==
  /\ \A op, x : Step(op, x).op = op /\ Step(op, x).of = x
  /\ \A op, x, y : Step(op, x) = Step(op, y) => x = y
BY DEF Step

LEMMA StepTypes ==
  ASSUME NEW x \in Steps
  PROVE  /\ x.op \in {"find", "unlink", "start", "head", "commit"} => x.of \in Titles
         /\ x.op \in {"cont", "term", "wait", "client"} => x.of \in Plays
         /\ x.op \in {"orphans", "remove"} => x.of \in SUBSET Titles
         /\ x.op = "list" => x.of \in Titles \cup {Nil}
         /\ x.op = "evict" => x.of \in {0} \cup Made
         /\ x = Step(x.op, x.of)
<1>1. CASE x \in [op : {"find", "unlink", "start", "head", "commit"}, of : Titles]
  BY <1>1 DEF Step
<1>2. CASE x \in [op : {"cont", "term", "wait", "client"}, of : Plays]
  BY <1>2 DEF Step
<1>3. CASE x \in [op : {"orphans", "remove"}, of : SUBSET Titles]
  BY <1>3 DEF Step
<1>4. CASE x \in [op : {"list"}, of : Titles \cup {Nil}]
  BY <1>4 DEF Step
<1>5. CASE x \in [op : {"evict"}, of : {0} \cup Made]
  BY <1>5 DEF Step
<1>6. CASE x \in [op : {"pop", "known", "stopped"}, of : {Nil}]
  BY <1>6 DEF Step
<1> QED BY <1>1, <1>2, <1>3, <1>4, <1>5, <1>6 DEF Steps

LEMMA AtIs ==
  ASSUME ConvTypeOK, NEW t \in Threads, NEW op, At(t, op)
  PROVE  /\ todo[t] \in Seq(Steps) /\ todo[t] # <<>> /\ 1 \in 1..Len(todo[t])
         /\ todo[t][1] = Head(todo[t]) /\ todo[t][1] \in Steps
         /\ todo[t][1].op = op /\ todo[t][1].of = Of(t)
<1>1. todo[t] \in Seq(Steps) /\ todo[t] # <<>>
  BY DEF At, ConvTypeOK
<1> DEFINE s == todo[t]
<1> HIDE DEF s
<1>2. s \in Seq(Steps) /\ s # <<>>
  BY <1>1 DEF s
<1>3. 1 \in 1..Len(s) /\ s[1] = Head(s) /\ s[1] \in Steps
  BY <1>2, ElementOfSeq
<1> QED BY <1>2, <1>3 DEF s, At, Of

LEMMA ThenTypes ==
  ASSUME todo \in [Threads -> Seq(Steps)], NEW t \in Threads, todo[t] # <<>>,
         NEW q \in Seq(Steps), Then(t, q)
  PROVE  /\ todo' \in [Threads -> Seq(Steps)]
         /\ todo'[t] = q \o Tail(todo[t])
         /\ \A u \in Threads : u # t => todo'[u] = todo[u]
<1>1. todo' = [todo EXCEPT ![t] = q \o Tail(todo[t])]
  BY DEF Then
<1>2. todo[t] \in Seq(Steps)
  OBVIOUS
<1>3. q \o Tail(todo[t]) \in Seq(Steps)
  BY <1>2, ThenIs
<1> QED BY <1>1, <1>3

LEMMA MovesButDue ==
  ASSUME ConvInv, Quiet, NEW t \in Threads, todo[t] # <<>>, NEW q \in Seq(Steps), Then(t, q),
         t # Stopper => /\ InOrder(todo'[t])
                        /\ Ahead(todo'[t], Launches) => Ahead(todo[t], Launches)
                        /\ Ahead(todo'[t], Marks) => Ahead(todo[t], Marks),
         regulator' = regulator, due' \subseteq Plays
  PROVE  ConvTypeOK' /\ Unmade' /\ Workers' /\ HeldIsReleased'
<1>1. ConvTypeOK /\ Unmade /\ Workers /\ HeldIsReleased
  BY DEF ConvInv
<1>2. todo \in [Threads -> Seq(Steps)] /\ regulator \in [Plays -> Regulators]
  BY <1>1 DEF ConvTypeOK, Regulators
<1>3. /\ todo' \in [Threads -> Seq(Steps)] /\ todo'[t] = q \o Tail(todo[t])
      /\ \A u \in Threads : u # t => todo'[u] = todo[u]
  BY <1>2, ThenTypes
<1>4. ConvTypeOK'
  BY <1>1, <1>2, <1>3, QuietTypes
<1>5. Unmade'
  <2>1. \A p \in Plays : title[p] = Nil => todo'[p] = <<>> /\ regulator'[p] = Nil
    BY <1>1, <1>3, ThreadsAre DEF Unmade
  <2> QED BY <1>1, <2>1, QuietUnmade
<1>6. Workers'
  <2>1. ASSUME NEW p \in Plays
        PROVE  /\ InOrder(todo'[p])
               /\ Ahead(todo'[p], Launches) => Ahead(todo[p], Launches)
               /\ Ahead(todo'[p], Marks) => Ahead(todo[p], Marks)
    <3>1. InOrder(todo[p]) /\ p \in Threads
      BY <1>1, ThreadsAre DEF Workers
    <3>2. CASE p # t
      BY <1>3, <3>1, <3>2
    <3>3. CASE p = t
      BY <3>3, ThreadsAre
    <3> QED BY <3>2, <3>3
  <2> QED BY <1>1, <2>1, QuietWorkers
<1>7. HeldIsReleased'
  BY <1>1, QuietHeld
<1> QED BY <1>4, <1>5, <1>6, <1>7

LEMMA DueKept ==
  ASSUME ConvTypeOK, Stops, Quiet, due' = due, todo'[Stopper] = todo[Stopper]
  PROVE  Stops'
<1>1. StopInOrder(todo'[Stopper])
  BY DEF Stops
<1>2. \A p \in due \cap Visible' :
        WillStop(todo[Stopper], p, title[p], Names) => WillStop(todo'[Stopper], p, title[p], Names')
  BY NamesFewer, WillStopFewer
<1> QED BY <1>1, <1>2, QuietDue

LEMMA WorkerMoves ==
  ASSUME ConvInv, Quiet, NEW t \in Plays, todo[t] # <<>>, NEW q \in Seq(Steps), Then(t, q),
         InOrder(todo'[t]),
         Ahead(todo'[t], Launches) => Ahead(todo[t], Launches),
         Ahead(todo'[t], Marks) => Ahead(todo[t], Marks),
         UNCHANGED <<regulator, due>>
  PROVE  ConvInv'
<1>1. ConvTypeOK /\ Stops /\ t \in Threads /\ due' \subseteq Plays
  BY ThreadsAre DEF ConvInv, ConvTypeOK
<1>2. todo'[Stopper] = todo[Stopper]
  BY <1>1, ThenTypes, ThreadsAre DEF ConvTypeOK
<1>3. Stops'
  BY <1>1, <1>2, DueKept
<1> QED BY <1>1, <1>3, MovesButDue DEF ConvInv

LEMMA TodoMoves ==
  ASSUME ConvInv, Quiet, NEW t \in Threads, todo[t] # <<>>, NEW q \in Seq(Steps), Then(t, q),
         t # Stopper => \A i \in 1..Len(q) : q[i].op \notin Marks,
         t = Stopper => \A i \in 1..Len(q) : q[i].op \notin StopMarks,
         t = Stopper => /\ todo[t][1].op \notin {"known", "orphans"}
                        /\ \A p \in Visible' : todo[t][1] # Step("wait", p),
         UNCHANGED <<regulator, due>>
  PROVE  ConvInv'
<1>1. ConvTypeOK /\ Stops /\ Workers /\ due' \subseteq Plays
  BY DEF ConvInv, ConvTypeOK
<1>2. todo[t] \in Seq(Steps) /\ todo'[t] = q \o Tail(todo[t])
  BY <1>1, ThenTypes DEF ConvTypeOK
<1> DEFINE s == todo[t]
           r == todo'[t]
<1>3. s \in Seq(Steps) /\ s # <<>> /\ r = q \o Tail(s)
  BY <1>2
<1>4. CASE t # Stopper
  <2>1. t \in Plays /\ InOrder(s)
    BY <1>1, <1>4, ThreadsAre DEF Workers
  <2> HIDE DEF s, r
  <2>2. InOrder(r) /\ \A ops \in SUBSET Marks : Ahead(r, ops) => Ahead(s, ops)
    BY <1>3, <1>4, <2>1, ThenInOrder
  <2>3. Launches \in SUBSET Marks /\ Marks \in SUBSET Marks
    BY DEF Marks
  <2>4. /\ InOrder(todo'[t])
        /\ Ahead(todo'[t], Launches) => Ahead(todo[t], Launches)
        /\ Ahead(todo'[t], Marks) => Ahead(todo[t], Marks)
    BY <2>2, <2>3 DEF r, s
  <2> QED BY <2>1, <2>4, WorkerMoves
<1>5. CASE t = Stopper
  <2>1. StopInOrder(s) /\ \A i \in 1..Len(q) : q[i].op \notin StopMarks
    BY <1>1, <1>5 DEF Stops
  <2>2. s[1].op \notin {"known", "orphans"} /\ \A p \in Visible' : s[1] # Step("wait", p)
    BY <1>5
  <2> HIDE DEF s, r
  <2>3. StopInOrder(r)
    BY <1>3, <2>1, ThenStopInOrder
  <2>4. Names' \subseteq Names
    BY NamesFewer
  <2>5. ASSUME NEW p \in due \cap Visible', WillStop(s, p, title[p], Names)
        PROVE  WillStop(r, p, title[p], Names')
    BY <1>3, <2>2, <2>4, <2>5, ThenWillStop
  <2>6. StopInOrder(todo'[Stopper])
    BY <1>5, <2>3 DEF r
  <2>7. \A p \in due \cap Visible' :
          WillStop(todo[Stopper], p, title[p], Names) => WillStop(todo'[Stopper], p, title[p], Names')
    BY <1>5, <2>5 DEF r, s
  <2>8. Stops'
    BY <1>1, <2>6, <2>7, QuietDue
  <2>9. ConvTypeOK' /\ Unmade' /\ Workers' /\ HeldIsReleased'
    BY <1>1, <1>5, MovesButDue
  <2> QED BY <2>8, <2>9 DEF ConvInv
<1> QED BY <1>4, <1>5

LEMMA QuietKept ==
  ASSUME ConvTypeOK, Easing, UNCHANGED <<plays, server, bounds>>, files' \subseteq Titles
  PROVE  Quiet
<1>1. registry' = registry /\ lock' = lock
  BY DEF server
<1>2. RegistryOK(registry') /\ lock' \in Threads
  BY <1>1 DEF RegistryOK, ConvTypeOK
<1>3. Entries' = Entries
  BY <1>1 DEF Entries
<1> QED BY <1>2, <1>3 DEF Quiet

LEMMA KillingsPlain ==
  ASSUME NEW q \in Seq(Killings)
  PROVE  /\ q \in Seq(Steps)
         /\ \A i \in 1..Len(q) : q[i].op \notin Marks /\ q[i].op \notin StopMarks
<1>1. q \in Seq(Steps)
  BY KillingsAre
<1>2. \A i \in 1..Len(q) : q[i] \in Killings
  BY ElementOfSeq
<1> QED BY <1>1, <1>2, KillingsAre DEF Marks, Launches, StopMarks

LEMMA NothingIs == <<>> \in Seq(Killings)
OBVIOUS

(***************************************************************************)
(* The kills.                                                              *)
(***************************************************************************)
LEMMA KillingStep ==
  ASSUME ConvInv, NEW t \in Threads, Easing, NEW op, At(t, op), op \notin {"known", "orphans"},
         op = "wait" => Of(t) \notin Visible',
         NEW q \in Seq(Killings), Then(t, q), files' \subseteq Titles,
         UNCHANGED <<plays, server, bounds, due>>
  PROVE  ConvInv'
<1>1. ConvTypeOK
  BY DEF ConvInv
<1>2. Quiet
  BY <1>1, QuietKept
<1>3. todo[t] # <<>> /\ todo[t][1].op = op /\ todo[t][1].of = Of(t)
  BY <1>1, AtIs
<1>4. \A p \in Visible' : todo[t][1] # Step("wait", p)
  <2> SUFFICES ASSUME NEW p \in Visible', todo[t][1] = Step("wait", p) PROVE FALSE
    OBVIOUS
  <2>1. op = "wait" /\ Of(t) = p
    BY <1>3, StepIs
  <2> QED BY <2>1
<1>5. q \in Seq(Steps) /\ \A i \in 1..Len(q) : q[i].op \notin Marks /\ q[i].op \notin StopMarks
  BY KillingsPlain
<1>6. UNCHANGED <<regulator, due>>
  BY DEF server
<1> QED BY <1>2, <1>3, <1>4, <1>5, <1>6, TodoMoves

LEMMA DoneIs == ASSUME NEW t, Done(t) PROVE Then(t, <<>>)
BY DEF Done

LEMMA WritersAre == \A k : Writers(k) \subseteq Visible /\ Writers(k) \subseteq Plays
BY VisibleIs DEF Writers

LEMMA CtrPidIs ==
  ASSUME NEW k
  PROVE  CtrPid(k) \in Threads /\ (CtrPid(k) # 0 => CtrPid(k) \in Writers(k))
<1>1. CASE Writers(k) = {}
  BY <1>1, Numbers DEF CtrPid, Threads
<1>2. CASE Writers(k) # {}
  <2>1. Writers(k) \subseteq Nat
    BY WritersAre, ThreadsAre
  <2>2. Min(Writers(k)) \in Writers(k)
    BY <1>2, <2>1, MinIsIn
  <2>3. Writers(k) \subseteq Threads
    BY WritersAre, ThreadsAre
  <2> QED BY <1>2, <2>2, <2>3 DEF CtrPid
<1> QED BY <1>1, <1>2

LEMMA FindStep == ASSUME ConvInv, NEW t \in Threads, Find(t) PROVE ConvInv'
<1> DEFINE p == CtrPid(Of(t))
<1>1. ConvTypeOK
  BY DEF ConvInv
<1>2. At(t, "find") /\ Continue(p) /\ (IF p = 0 THEN Done(t) ELSE Then(t, Tail(KillPid(p))))
      /\ UNCHANGED <<plays, server, files, bounds, due>>
  BY DEF Find
<1>3. p = 0 \/ p \in Plays
  BY CtrPidIs, WritersAre
<1> HIDE DEF p
<1>4. Easing
  BY <1>1, <1>2, ContinueEases
<1>5. files' \subseteq Titles
  BY <1>1, <1>2 DEF ConvTypeOK
<1>6. \E q \in Seq(Killings) : Then(t, q)
  <2>1. CASE p = 0
    BY <1>2, <2>1, DoneIs, NothingIs
  <2>2. CASE p # 0
    BY <1>2, <1>3, <2>2, KillPidIs
  <2> QED BY <2>1, <2>2
<1> QED BY <1>2, <1>4, <1>5, <1>6, KillingStep

LEMMA ContStep == ASSUME ConvInv, NEW t \in Threads, Cont(t) PROVE ConvInv'
<1>1. ConvTypeOK
  BY DEF ConvInv
<1>2. At(t, "cont") /\ Continue(Of(t)) /\ Then(t, <<>>)
      /\ UNCHANGED <<plays, server, files, bounds, due>>
  BY DEF Cont, Done
<1>3. Easing
  BY <1>1, <1>2, ContinueEases
<1>4. files' \subseteq Titles
  BY <1>1, <1>2 DEF ConvTypeOK
<1> QED BY <1>2, <1>3, <1>4, NothingIs, KillingStep

LEMMA TermStep == ASSUME ConvInv, NEW t \in Threads, Term(t) PROVE ConvInv'
<1>1. ConvTypeOK
  BY DEF ConvInv
<1> DEFINE p == Of(t)
<1>2. At(t, "term") /\ Then(t, <<>>) /\ UNCHANGED <<plays, server, files, bounds, due>>
      /\ (IF p \in Visible \ Held THEN Die(p)
          ELSE doomed' = doomed \cup ({p} \cap Held) /\ UNCHANGED <<state, clients>>)
  BY DEF Term, Done
<1> HIDE DEF p
<1>3. Easing
  <2>1. CASE p \in Visible \ Held
    BY <1>1, <1>2, <2>1, DieEases
  <2>2. CASE p \notin Visible \ Held
    <3>1. state' = state /\ clients' = clients /\ doomed' = doomed \cup ({p} \cap Held)
      BY <1>2, <2>2
    <3>2. Held' = Held /\ doomed \subseteq Held /\ state \in [Plays -> States]
      BY <1>1, <3>1 DEF Held, ConvTypeOK, States
    <3>3. doomed' \subseteq Held'
      BY <3>1, <3>2
    <3> QED BY <3>1, <3>2, <3>3 DEF Easing
  <2> QED BY <2>1, <2>2
<1>4. files' \subseteq Titles
  BY <1>1, <1>2 DEF ConvTypeOK
<1> QED BY <1>2, <1>3, <1>4, NothingIs, KillingStep

LEMMA WaitStep == ASSUME ConvInv, NEW t \in Threads, Wait(t) PROVE ConvInv'
<1>1. ConvTypeOK
  BY DEF ConvInv
<1> DEFINE p == Of(t)
<1>2. At(t, "wait") /\ Then(t, <<>>) /\ UNCHANGED <<plays, server, files, bounds, due>>
      /\ (IF p \in Visible THEN Die(p) ELSE UNCHANGED processes)
  BY DEF Wait, Done
<1> HIDE DEF p
<1>3. Easing /\ p \notin Visible'
  <2>1. CASE p \in Visible
    BY <1>1, <1>2, <2>1, DieEases
  <2>2. CASE p \notin Visible
    <3>1. Easing
      BY <1>1, <1>2, <2>2, KeptEases
    <3>2. Visible' \subseteq Visible
      BY <3>1, EasingIs
    <3> QED BY <3>1, <3>2, <2>2
  <2> QED BY <2>1, <2>2
<1>4. files' \subseteq Titles
  BY <1>1, <1>2 DEF ConvTypeOK
<1>5. Of(t) \notin Visible'
  BY <1>3 DEF p
<1> QED BY <1>2, <1>3, <1>4, <1>5, NothingIs, KillingStep

LEMMA ClientEases ==
  ASSUME ConvTypeOK, UNCHANGED <<state, doomed>>, clients' \subseteq clients
  PROVE  Easing
<1>1. Held' = Held /\ doomed \subseteq Held /\ state \in [Plays -> States]
  BY DEF Held, ConvTypeOK, States
<1> QED BY <1>1 DEF Easing

LEMMA KillClientStep == ASSUME ConvInv, NEW t \in Threads, KillClient(t) PROVE ConvInv'
<1>1. ConvTypeOK
  BY DEF ConvInv
<1>2. At(t, "client") /\ Then(t, <<>>) /\ UNCHANGED <<plays, server, files, bounds, due>>
      /\ clients' = clients \ {Of(t)} /\ UNCHANGED <<state, doomed>>
  BY DEF KillClient, Done
<1>3. Easing
  BY <1>1, <1>2, ClientEases
<1>4. files' \subseteq Titles
  BY <1>1, <1>2 DEF ConvTypeOK
<1> QED BY <1>2, <1>3, <1>4, NothingIs, KillingStep

LEMMA KillingSteps == ASSUME ConvInv, NEW t \in Threads, Killing(t) PROVE ConvInv'
BY FindStep, ContStep, TermStep, WaitStep, KillClientStep DEF Killing

(***************************************************************************)
(* Steps of a thread on no process: outputs, and a wait that is over.      *)
(***************************************************************************)
LEMMA RemoveStep == ASSUME ConvInv, NEW t \in Threads, RemoveListed(t) PROVE ConvInv'
<1>1. ConvTypeOK
  BY DEF ConvInv
<1>2. At(t, "remove") /\ Then(t, <<>>) /\ UNCHANGED <<plays, processes, server, bounds, due>>
      /\ files' = files \ Of(t)
  BY DEF RemoveListed, Done
<1>3. Easing
  BY <1>1, <1>2, KeptEases
<1>4. files' \subseteq Titles
  BY <1>1, <1>2 DEF ConvTypeOK
<1> QED BY <1>2, <1>3, <1>4, NothingIs, KillingStep

LEMMA UnlinkStep == ASSUME ConvInv, NEW t \in Threads, Unlink(t) PROVE ConvInv'
<1>1. ConvTypeOK
  BY DEF ConvInv
<1>2. At(t, "unlink") /\ Then(t, <<>>) /\ UNCHANGED <<plays, processes, server, bounds, due>>
      /\ files' = files \ {Of(t)}
  BY DEF Unlink, Done
<1>3. Easing
  BY <1>1, <1>2, KeptEases
<1>4. files' \subseteq Titles
  BY <1>1, <1>2 DEF ConvTypeOK
<1> QED BY <1>2, <1>3, <1>4, NothingIs, KillingStep

LEMMA FinishedStep == ASSUME ConvInv, NEW t \in Plays, Finished(t) PROVE ConvInv'
<1>1. ConvTypeOK /\ t \in Threads
  BY ThreadsAre DEF ConvInv
<1>2. At(t, "head") /\ Then(t, <<>>) /\ UNCHANGED <<plays, processes, server, files, bounds, due>>
  BY DEF Finished, Done
<1>3. Easing
  BY <1>1, <1>2, KeptEases
<1>4. files' \subseteq Titles
  BY <1>1, <1>2 DEF ConvTypeOK
<1> QED BY <1>1, <1>2, <1>3, <1>4, NothingIs, KillingStep

(* A play with something to do is made. *)
LEMMA BusyIsMade ==
  ASSUME ConvInv, NEW t \in Plays, todo[t] # <<>>
  PROVE  title[t] # Nil /\ title[t] \in Titles
BY DEF ConvInv, Unmade, ConvTypeOK

LEMMA SupersededStep == ASSUME ConvInv, NEW t \in Plays, Superseded(t) PROVE ConvInv'
<1>1. ConvTypeOK /\ t \in Threads
  BY ThreadsAre DEF ConvInv
<1>2. At(t, "head") /\ Then(t, Stop(t)) /\ UNCHANGED <<plays, processes, server, files, bounds, due>>
  BY DEF Superseded
<1>3. Easing
  BY <1>1, <1>2, KeptEases
<1>4. files' \subseteq Titles
  BY <1>1, <1>2 DEF ConvTypeOK
<1>5. Stop(t) \in Seq(Killings)
  <2>1. title[t] # Nil /\ title \in [Plays -> Titles \cup {Nil}]
    BY <1>1, <1>2, AtIs, BusyIsMade DEF ConvTypeOK
  <2> QED BY <2>1, StopIs
<1> QED BY <1>1, <1>2, <1>3, <1>4, <1>5, KillingStep

(***************************************************************************)
(* transcode_stop_all(), step by step.                                     *)
(***************************************************************************)
LEMMA EntriesAreMade ==
  ASSUME ConvInv
  PROVE  /\ \A p \in Entries : p \in Plays /\ title[p] # Nil /\ title[p] \in Titles
         /\ Names \subseteq Titles
<1>1. ConvTypeOK /\ Unmade
  BY DEF ConvInv
<1>2. Entries \subseteq Plays
  BY <1>1, EntriesArePlays DEF ConvTypeOK
<1>3. \A p \in Entries : p \in Plays /\ title[p] # Nil /\ title[p] \in Titles
  BY <1>1, <1>2 DEF Unmade, ConvTypeOK
<1> QED BY <1>3, NamesAre

LEMMA OneStep ==
  ASSUME NEW S, NEW x \in S
  PROVE  <<x>> \in Seq(S) /\ Len(<<x>>) = 1 /\ <<x>>[1] = x /\ \A i \in 1..Len(<<x>>) : <<x>>[i] = x
OBVIOUS

LEMMA EmptiesQuiet ==
  ASSUME ConvTypeOK, registry' = <<>>, UNCHANGED <<plays, processes, lock, files, bounds>>
  PROVE  Quiet /\ Names' = {}
<1>1. Easing
  BY KeptEases
<1>2. Len(<<>>) = 0 /\ <<>> \in Seq(Plays)
  OBVIOUS
<1>3. RegistryOK(registry')
  BY <1>2, Numbers DEF RegistryOK
<1>4. Entries' = {}
  BY <1>2 DEF Entries
<1>5. Names' = {}
  BY <1>4 DEF Names
<1> QED BY <1>1, <1>3, <1>4, <1>5 DEF Quiet, ConvTypeOK

LEMMA PopStep == ASSUME ConvInv, NEW t \in Threads, Pop(t) PROVE ConvInv'
<1>1. ConvTypeOK /\ Workers /\ Stops
  BY DEF ConvInv
<1>2. /\ At(t, "pop") /\ registry' = <<>> /\ Then(t, StopEach(registry))
      /\ due' = (IF t = Stopper THEN Visible ELSE due)
      /\ UNCHANGED <<plays, processes, lock, regulator, files, bounds>>
  BY DEF Pop
<1>3. Quiet /\ Names' = {}
  BY <1>1, <1>2, EmptiesQuiet
<1>4. StopEach(registry) \in Seq(Killings)
  <2>1. registry \in Seq(Plays) /\ title \in [Plays -> Titles \cup {Nil}]
    BY <1>1 DEF ConvTypeOK
  <2>2. \A i \in 1..Len(registry) : title[registry[i]] # Nil
    BY EntriesAreMade DEF Entries
  <2> QED BY <2>1, <2>2, StopEachIs
<1> DEFINE q == StopEach(registry)
<1>5. q \in Seq(Killings) /\ Then(t, q)
  BY <1>2, <1>4
<1> HIDE DEF q
<1>6. q \in Seq(Steps) /\ \A i \in 1..Len(q) : q[i].op \notin Marks /\ q[i].op \notin StopMarks
  BY <1>5, KillingsPlain
<1>7. /\ todo[t] \in Seq(Steps) /\ todo[t] # <<>> /\ 1 \in 1..Len(todo[t])
      /\ todo[t][1].op = "pop"
  BY <1>1, <1>2, AtIs
<1>8. CASE t # Stopper
  BY <1>2, <1>3, <1>5, <1>6, <1>7, <1>8, TodoMoves
<1>9. CASE t = Stopper
  <2>1. due' = Visible /\ due' \subseteq Plays /\ regulator' = regulator /\ title' = title /\ state' = state
    BY <1>2, <1>9, VisibleIs DEF plays, processes
  <2>2. ConvTypeOK' /\ Unmade' /\ Workers' /\ HeldIsReleased'
    BY <1>3, <1>5, <1>6, <1>7, <1>9, <2>1, MovesButDue
  <2> DEFINE r == todo'[Stopper]
  <2>3. todo[Stopper] = StopAll /\ r = q \o Tail(StopAll) /\ StopInOrder(StopAll)
    <3>1. todo[Stopper] = StopAll
      BY <1>1, <1>7, <1>9 DEF Stops, StopInOrder
    <3>2. todo'[t] = q \o Tail(todo[t])
      BY <1>1, <1>5, <1>6, <1>7, ThenTypes DEF ConvTypeOK
    <3>3. StopInOrder(todo[Stopper])
      BY <1>1 DEF Stops
    <3> QED BY <1>9, <3>1, <3>2, <3>3
  <2> HIDE DEF r
  <2>4. StopAll \in Seq(Steps) /\ StopAll # <<>>
    BY StopAllIs
  <2>5. StopInOrder(r)
    BY <1>6, <2>3, <2>4, ThenStopInOrder
  <2>6. Len(q) + 2 - 1 \in 1..Len(r) /\ r[Len(q) + 2 - 1] = StopAll[2]
    <3>1. 2 \in 2..Len(StopAll)
      BY StopAllIs
    <3> QED BY <1>6, <2>3, <2>4, <3>1, ThenIs
  <2>7. r[Len(q) + 2 - 1].op = "known"
    BY <2>6, StopAllIs, StepIs
  <2>8. \A p \in Plays : WillStop(r, p, title'[p], Names')
    BY <1>3, <2>6, <2>7 DEF WillStop
  <2>9. Stops'
    <3>1. Visible' \subseteq Plays /\ \A p \in due' : state'[p] \in {"running", "held", "gone"}
      BY <2>1, VisibleIs, VisibleNext
    <3> QED BY <2>5, <2>8, <3>1 DEF Stops, r
  <2> QED BY <2>2, <2>9 DEF ConvInv
<1> QED BY <1>8, <1>9

LEMMA QuietThread ==
  ASSUME ConvInv, UNCHANGED <<plays, processes, server, files, bounds>>
  PROVE  Quiet /\ Names' = Names
<1>1. ConvTypeOK /\ Easing
  BY KeptEases DEF ConvInv
<1>2. files' \subseteq Titles
  BY <1>1 DEF ConvTypeOK
<1>3. Names' = Names
  BY DEF Names, Entries, server, plays
<1> QED BY <1>1, <1>2, <1>3, QuietKept

LEMMA LastThree ==
  ASSUME NEW s, StopInOrder(s), 1 \in 1..Len(s), s[1].op \in {"known", "orphans"}
  PROVE  Len(s) = 3
<1>1. Len(s) = 1 + 2
  BY DEF StopInOrder
<1> QED BY <1>1

LEMMA KnownStep == ASSUME ConvInv, NEW t \in Threads, Known(t) PROVE ConvInv'
<1>1. ConvTypeOK /\ Workers /\ Stops /\ due' \subseteq Plays /\ Quiet /\ Names' = Names
  BY QuietThread DEF ConvInv, Known, ConvTypeOK
<1> DEFINE x == Step("orphans", Names)
           q == <<x>>
<1>2. At(t, "known") /\ Then(t, q) /\ regulator' = regulator /\ due' = due
  BY DEF Known, server
<1>3. x \in Steps /\ x.op = "orphans" /\ x.of = Names
  BY EntriesAreMade DEF Step, Steps
<1> HIDE DEF x
<1>4. q \in Seq(Steps) /\ Len(q) = 1 /\ q[1] = x /\ \A i \in 1..Len(q) : q[i] = x
  BY <1>3, OneStep
<1> HIDE DEF q
<1>5. /\ todo[t] \in Seq(Steps) /\ todo[t] # <<>> /\ 1 \in 1..Len(todo[t])
      /\ todo[t][1].op = "known"
  BY <1>1, <1>2, AtIs
<1>6. CASE t # Stopper
  <2>1. \A i \in 1..Len(q) : q[i].op \notin Marks
    BY <1>3, <1>4 DEF Marks, Launches
  <2> QED BY <1>1, <1>2, <1>4, <1>5, <1>6, <2>1, TodoMoves
<1>7. CASE t = Stopper
  <2>1. ConvTypeOK' /\ Unmade' /\ Workers' /\ HeldIsReleased'
    BY <1>1, <1>2, <1>4, <1>5, <1>7, MovesButDue
  <2> DEFINE s == todo[Stopper]
             r == todo'[Stopper]
  <2>2. s \in Seq(Steps) /\ s # <<>> /\ r = q \o Tail(s) /\ StopInOrder(s) /\ s[1].op = "known" /\ 1 \in 1..Len(s)
    BY <1>1, <1>2, <1>4, <1>5, <1>7, ThenTypes DEF Stops, ConvTypeOK
  <2> HIDE DEF s, r
  <2>3. Len(s) = 3
    BY <2>2, LastThree
  <2>4. Len(r) = 3 /\ r[1] = x /\ \A i \in 2..3 : r[i] = s[i]
    <3>1. q \in Seq(Steps) /\ s \in Seq(Steps) /\ s # <<>> /\ r = q \o Tail(s)
      BY <1>4, <2>2
    <3>2. /\ Len(r) = Len(q) + Len(s) - 1
          /\ \A i \in 1..Len(q) : i \in 1..Len(r) /\ r[i] = q[i]
          /\ \A i \in 2..Len(s) : Len(q) + i - 1 \in 1..Len(r) /\ r[Len(q) + i - 1] = s[i]
      BY <3>1, ThenIs
    <3>3. Len(q) = 1 /\ q[1] = x
      BY <1>4
    <3>4. Len(r) = 3 /\ r[1] = x
      BY <2>3, <3>2, <3>3
    <3>5. ASSUME NEW i \in 2..3 PROVE r[i] = s[i]
      BY <2>3, <3>2, <3>3
    <3> QED BY <3>4, <3>5
  <2>5. StopInOrder(r)
    <3>1. \A i \in 2..3 : /\ s[i].op # "pop"
                          /\ s[i].op \in {"known", "orphans"} => Len(s) = i + 2
                          /\ s[i].op = "stopped" => Len(s) = i + 1
      <4>1. StopInOrder(s)
        BY <2>2
      <4>2. \A i \in 2..3 : i \in 1..Len(s) /\ i \in 2..Len(s)
        BY <2>3
      <4> QED BY <4>1, <4>2, NoSecondPop DEF StopInOrder
    <3>2. \A i \in 1..Len(r) : i = 1 \/ i \in 2..3
      BY <2>4
    <3> QED BY <1>3, <2>3, <2>4, <3>1, <3>2 DEF StopInOrder
  <2>6. ASSUME NEW p, NEW k, WillStop(s, p, k, Names) PROVE WillStop(r, p, k, Names')
    <3>1. PICK i \in 1..3 : \/ s[i].op = "known" /\ k \notin Names
                            \/ s[i].op = "orphans" /\ k \notin s[i].of
                            \/ s[i] = Step("wait", p) /\ i < Len(s) - 1
      BY <2>3, <2>6 DEF WillStop
    <3>2. CASE i = 1
      <4>1. s[1] # Step("wait", p)
        BY <2>2, StepIs
      <4>2. k \notin Names
        BY <2>2, <3>1, <3>2, <4>1
      <4>3. r[1].op = "orphans" /\ k \notin r[1].of /\ 1 \in 1..Len(r)
        BY <1>3, <2>4, <4>2
      <4> QED BY <4>3 DEF WillStop
    <3>3. CASE i \in 2..3
      <4>1. r[i] = s[i] /\ i \in 1..Len(r) /\ Len(r) = Len(s)
        BY <2>3, <2>4, <3>3
      <4> QED BY <1>1, <3>1, <4>1 DEF WillStop
    <3> QED BY <3>2, <3>3
  <2>7. StopInOrder(todo'[Stopper])
    BY <2>5 DEF r
  <2>8. \A p \in due \cap Visible' :
          WillStop(todo[Stopper], p, title[p], Names) => WillStop(todo'[Stopper], p, title[p], Names')
    BY <2>6 DEF r, s
  <2>9. Stops'
    BY <1>1, <1>2, <2>7, <2>8, QuietDue
  <2> QED BY <2>1, <2>9 DEF ConvInv
<1> QED BY <1>6, <1>7

LEMMA OrphansAre ==
  ASSUME NEW names
  PROVE  /\ Orphans(names) \in SUBSET Nat /\ Orphans(names) \subseteq Plays
         /\ IsFiniteSet(Orphans(names))
         /\ \A p \in Visible : title[p] \notin names => p \in Orphans(names)
<1>1. Orphans(names) = {p \in Visible : title[p] \notin names}
  BY DEF Orphans
<1>2. Orphans(names) \in SUBSET Plays
  BY <1>1, VisibleIs
<1>3. IsFiniteSet(Plays)
  BY Numbers, FS_Interval DEF Plays
<1> QED BY <1>1, <1>2, <1>3, FS_Subset, ThreadsAre

LEMMA KillOrphansStep == ASSUME ConvInv, NEW t \in Threads, KillOrphans(t) PROVE ConvInv'
<1>1. ConvTypeOK /\ Workers /\ Stops /\ due' \subseteq Plays /\ Quiet /\ Names' = Names /\ Visible' \subseteq Visible
  <2>1. Quiet /\ Names' = Names /\ ConvTypeOK
    BY QuietThread DEF ConvInv, KillOrphans
  <2>2. Visible' \subseteq Visible
    BY <2>1, EasingIs DEF Quiet
  <2> QED BY <2>1, <2>2 DEF ConvInv, KillOrphans, ConvTypeOK
<1> DEFINE o == Orphans(Of(t))
           e == Sorted(o)
           q == KillEach(e)
<1>2. At(t, "orphans") /\ Then(t, q) /\ regulator' = regulator /\ due' = due
  BY DEF KillOrphans, server
<1>3. /\ o \in SUBSET Nat /\ o \subseteq Plays /\ IsFiniteSet(o)
      /\ \A p \in Visible : title[p] \notin Of(t) => p \in o
  BY OrphansAre
<1> HIDE DEF o
<1>4. e \in Seq(o) /\ \A p \in o : \E i \in 1..Len(e) : e[i] = p
  BY <1>3, SortedIs
<1> HIDE DEF e
<1>5. e \in Seq(Plays) /\ Len(e) \in Nat
  <2>1. e \in Seq(o) /\ o \subseteq Plays
    BY <1>3, <1>4
  <2> QED BY <2>1
<1>6. q \in Seq(Killings) /\ Len(q) = 3 * Len(e) /\ \A i \in 1..Len(e) : q[3 * i] = Step("wait", e[i])
  BY <1>5, KillEachIs
<1> HIDE DEF q
<1>7. q \in Seq(Steps) /\ \A i \in 1..Len(q) : q[i].op \notin Marks /\ q[i].op \notin StopMarks
  BY <1>6, KillingsPlain
<1>8. /\ todo[t] \in Seq(Steps) /\ todo[t] # <<>> /\ 1 \in 1..Len(todo[t])
      /\ todo[t][1].op = "orphans" /\ todo[t][1].of = Of(t)
  BY <1>1, <1>2, AtIs
<1>9. CASE t # Stopper
  BY <1>1, <1>2, <1>7, <1>8, <1>9, TodoMoves
<1>10. CASE t = Stopper
  <2>1. ConvTypeOK' /\ Unmade' /\ Workers' /\ HeldIsReleased'
    BY <1>1, <1>2, <1>7, <1>8, <1>10, MovesButDue
  <2> DEFINE s == todo[Stopper]
             r == todo'[Stopper]
  <2>2. /\ s \in Seq(Steps) /\ s # <<>> /\ r = q \o Tail(s) /\ StopInOrder(s)
        /\ s[1].op = "orphans" /\ s[1].of = Of(t) /\ 1 \in 1..Len(s)
    BY <1>1, <1>2, <1>7, <1>8, <1>10, ThenTypes DEF Stops, ConvTypeOK
  <2> HIDE DEF s, r
  <2>3. Len(s) = 3
    BY <2>2, LastThree
  <2>4. StopInOrder(r)
    BY <1>7, <2>2, ThenStopInOrder
  <2>5. /\ Len(q) \in Nat /\ Len(r) = Len(q) + 2
        /\ \A i \in 1..Len(q) : i \in 1..Len(r) /\ r[i] = q[i]
        /\ \A i \in 2..3 : Len(q) + i - 1 \in 1..Len(r) /\ r[Len(q) + i - 1] = s[i]
    <3>1. /\ Len(r) = Len(q) + Len(s) - 1 /\ Len(q) \in Nat
          /\ \A i \in 1..Len(q) : i \in 1..Len(r) /\ r[i] = q[i]
          /\ \A i \in 2..Len(s) : Len(q) + i - 1 \in 1..Len(r) /\ r[Len(q) + i - 1] = s[i]
      BY <1>7, <2>2, ThenIs
    <3> QED BY <2>3, <3>1
  <2>6. ASSUME NEW p \in Visible, WillStop(s, p, title[p], Names)
        PROVE  WillStop(r, p, title[p], Names')
    <3> DEFINE k == title[p]
    <3>1. PICK i \in 1..3 : \/ s[i].op = "known" /\ k \notin Names
                            \/ s[i].op = "orphans" /\ k \notin s[i].of
                            \/ s[i] = Step("wait", p) /\ i < Len(s) - 1
      BY <2>3, <2>6 DEF WillStop
    <3>2. CASE i = 1
      <4>1. s[1] # Step("wait", p)
        BY <2>2, StepIs
      <4>2. k \notin Of(t)
        BY <2>2, <3>1, <3>2, <4>1
      <4>3. PICK j \in 1..Len(e) : e[j] = p
        BY <1>3, <1>4, <4>2
      <4>4. 3 * j \in 1..Len(q) /\ 3 * j < Len(r) - 1
        BY <1>5, <1>6, <2>5
      <4>5. 3 * j \in 1..Len(r) /\ r[3 * j] = Step("wait", p)
        BY <1>6, <2>5, <4>3, <4>4
      <4> HIDE DEF k
      <4> DEFINE m == 3 * j
      <4>6. m \in 1..Len(r) /\ r[m] = Step("wait", p) /\ m < Len(r) - 1
        BY <4>4, <4>5
      <4> HIDE DEF m
      <4> QED BY <4>6 DEF WillStop
    <3>3. CASE i \in 2..3
      <4> DEFINE m == Len(q) + i - 1
      <4>1. m \in 1..Len(r) /\ r[m] = s[i]
        BY <2>5, <3>3
      <4>2. i < Len(s) - 1 => m < Len(r) - 1
        BY <2>3, <2>5
      <4> HIDE DEF m
      <4> QED BY <1>1, <3>1, <4>1, <4>2 DEF WillStop
    <3> QED BY <3>2, <3>3
  <2>7. StopInOrder(todo'[Stopper])
    BY <2>4 DEF r
  <2>8. \A p \in due \cap Visible' :
          WillStop(todo[Stopper], p, title[p], Names) => WillStop(todo'[Stopper], p, title[p], Names')
    BY <1>1, <2>6 DEF r, s
  <2>9. Stops'
    BY <1>1, <1>2, <2>7, <2>8, QuietDue
  <2> QED BY <2>1, <2>9 DEF ConvInv
<1> QED BY <1>9, <1>10

LEMMA StoppedStep == ASSUME ConvInv, NEW t \in Threads, Stopped(t) PROVE ConvInv'
<1>1. ConvTypeOK /\ Workers /\ Stops /\ Quiet
  BY QuietThread DEF ConvInv, Stopped
<1>2. /\ At(t, "stopped") /\ Then(t, <<>>) /\ regulator' = regulator
      /\ due' = (IF t = Stopper THEN {} ELSE due)
  BY DEF Stopped, Done, server
<1> DEFINE q == <<>>
<1>3. q \in Seq(Killings) /\ Then(t, q)
  BY <1>2, NothingIs
<1> HIDE DEF q
<1>4. q \in Seq(Steps) /\ \A i \in 1..Len(q) : q[i].op \notin Marks /\ q[i].op \notin StopMarks
  BY <1>3, KillingsPlain
<1>5. /\ todo[t] \in Seq(Steps) /\ todo[t] # <<>> /\ todo[t][1].op = "stopped"
  BY <1>1, <1>2, AtIs
<1>6. CASE t # Stopper
  BY <1>1, <1>2, <1>3, <1>4, <1>5, <1>6, TodoMoves
<1>7. CASE t = Stopper
  <2>1. due' = {} /\ due' \subseteq Plays
    BY <1>2, <1>7
  <2>2. ConvTypeOK' /\ Unmade' /\ Workers' /\ HeldIsReleased'
    BY <1>1, <1>2, <1>3, <1>4, <1>5, <1>7, <2>1, MovesButDue
  <2>3. /\ todo[Stopper] \in Seq(Steps) /\ todo'[Stopper] = q \o Tail(todo[Stopper])
        /\ StopInOrder(todo[Stopper]) /\ todo[Stopper] # <<>>
    BY <1>1, <1>3, <1>4, <1>5, <1>7, ThenTypes DEF Stops, ConvTypeOK
  <2>4. StopInOrder(todo'[Stopper])
    BY <1>4, <2>3, ThenStopInOrder
  <2>5. Stops'
    BY <2>1, <2>4 DEF Stops
  <2> QED BY <2>2, <2>5 DEF ConvInv
<1> QED BY <1>6, <1>7

LEMMA ListStep == ASSUME ConvInv, NEW t \in Threads, List(t) PROVE ConvInv'
<1>1. ConvTypeOK /\ Quiet
  BY QuietThread DEF ConvInv, List
<1> DEFINE x == Step("remove", files \ (Names \cup {Of(t)}))
           q == <<x>>
<1>2. At(t, "list") /\ Then(t, q) /\ UNCHANGED <<regulator, due>>
  BY DEF List, server
<1>3. x \in Steps /\ x.op = "remove"
  BY <1>1 DEF Step, Steps, ConvTypeOK
<1> HIDE DEF x
<1>4. q \in Seq(Steps) /\ \A i \in 1..Len(q) : q[i] = x
  BY <1>3, OneStep
<1> HIDE DEF q
<1>5. \A i \in 1..Len(q) : q[i].op \notin Marks /\ q[i].op \notin StopMarks
  BY <1>3, <1>4 DEF Marks, Launches, StopMarks
<1>6. todo[t] # <<>> /\ todo[t][1].op = "list"
  BY <1>1, <1>2, AtIs
<1>7. \A p : todo[t][1] # Step("wait", p)
  BY <1>6, StepIs
<1> QED BY <1>1, <1>2, <1>4, <1>5, <1>6, <1>7, TodoMoves

LEMMA StoppingSteps == ASSUME ConvInv, NEW t \in Threads, Stopping(t) PROVE ConvInv'
BY PopStep, KnownStep, KillOrphansStep, StoppedStep, ListStep, RemoveStep DEF Stopping

(***************************************************************************)
(* A worker commits, launches and waits.                                   *)
(***************************************************************************)
LEMMA BeginIs ==
  ASSUME NEW k \in Titles
  PROVE  /\ StopAll \o BeginSteps(k) \in Seq(Steps) /\ Len(StopAll \o BeginSteps(k)) = 9
         /\ \A i \in 1..7 : (StopAll \o BeginSteps(k))[i].op \notin Marks
         /\ (StopAll \o BeginSteps(k))[8].op = "start" /\ (StopAll \o BeginSteps(k))[9].op = "head"
         /\ (StopAll \o BeginSteps(k))[8].of = k
<1> DEFINE a == <<Step("list", k)>>
           b == <<Step("find", k)>>
           c == <<Step("unlink", k), Step("start", k), Step("head", k)>>
           d == b \o c
           e == a \o b
           f == e \o c
           g == StopAll \o f
<1>1. /\ Step("list", k) \in Steps /\ Step("find", k) \in Steps /\ Step("unlink", k) \in Steps
      /\ Step("start", k) \in Steps /\ Step("head", k) \in Steps
  BY DEF Step, Steps
<1>2. BeginSteps(k) = f
  BY DEF BeginSteps, KillCtr
<1>3. a \in Seq(Steps) /\ Len(a) = 1 /\ a[1].op = "list"
  BY <1>1, StepIs
<1>4. b \in Seq(Steps) /\ Len(b) = 1 /\ b[1].op = "find"
  BY <1>1, StepIs
<1>5. c \in Seq(Steps) /\ Len(c) = 3 /\ c[1].op = "unlink" /\ c[2].op = "start" /\ c[3].op = "head"
      /\ c[2].of = k
  BY <1>1, StepIs
<1> HIDE DEF a, b, c
<1>6. e \in Seq(Steps) /\ Len(e) = 2 /\ e[1].op = "list" /\ e[2].op = "find"
  <2>1. a \in Seq(Steps) /\ b \in Seq(Steps)
    BY <1>3, <1>4
  <2>2. /\ e \in Seq(Steps) /\ Len(e) = Len(a) + Len(b)
        /\ \A i \in 1..Len(a) + Len(b) : e[i] = IF i <= Len(a) THEN a[i] ELSE b[i - Len(a)]
    BY <2>1, ConcatProperties
  <2> HIDE DEF e
  <2>3. e[1] = a[1] /\ e[2] = b[1]
    BY <2>2, <1>3, <1>4
  <2> QED BY <2>2, <2>3, <1>3, <1>4
<1> HIDE DEF e
<1>7. /\ f \in Seq(Steps) /\ Len(f) = 5 /\ f[1].op = "list" /\ f[2].op = "find"
      /\ f[3].op = "unlink" /\ f[4].op = "start" /\ f[5].op = "head" /\ f[4].of = k
  <2>1. f \in Seq(Steps) /\ Len(f) = 5 /\ \A i \in 1..5 : f[i] = IF i <= 2 THEN e[i] ELSE c[i - 2]
    BY <1>5, <1>6, ConcatProperties
  <2>2. f[1] = e[1] /\ f[2] = e[2] /\ f[3] = c[1] /\ f[4] = c[2] /\ f[5] = c[3]
    BY <2>1
  <2> QED BY <2>1, <2>2, <1>5, <1>6
<1> HIDE DEF f
<1>8. g \in Seq(Steps) /\ Len(g) = 9 /\ \A i \in 1..9 : g[i] = IF i <= 4 THEN StopAll[i] ELSE f[i - 4]
  <2>1. StopAll \in Seq(Steps) /\ f \in Seq(Steps)
    BY <1>7, StopAllIs
  <2>2. /\ g \in Seq(Steps) /\ Len(g) = Len(StopAll) + Len(f)
        /\ \A i \in 1..Len(StopAll) + Len(f) :
             g[i] = IF i <= Len(StopAll) THEN StopAll[i] ELSE f[i - Len(StopAll)]
    BY <2>1, ConcatProperties
  <2> HIDE DEF g
  <2>3. Len(StopAll) = 4 /\ Len(f) = 5
    BY <1>7, StopAllIs
  <2> QED BY <2>2, <2>3
<1> HIDE DEF g
<1>9. g[8] = f[4] /\ g[9] = f[5]
  BY <1>8
<1>10. ASSUME NEW i \in 1..7 PROVE g[i].op \notin Marks
  <2>1. CASE i \in 1..4
    <3>1. g[i] = StopAll[i]
      BY <1>8, <2>1
    <3>2. StopAll[i].op \in {"pop", "known", "stopped", "list"}
      BY <2>1, StopAllIs, StepIs
    <3> QED BY <3>1, <3>2 DEF Marks, Launches
  <2>2. CASE i \in 5..7
    <3>1. g[i] = f[i - 4] /\ i - 4 \in 1..3
      BY <1>8, <2>2
    <3>2. f[i - 4].op \in {"list", "find", "unlink"}
      BY <1>7, <3>1
    <3> QED BY <3>1, <3>2 DEF Marks, Launches
  <2> QED BY <2>1, <2>2
<1> QED BY <1>2, <1>7, <1>8, <1>9, <1>10 DEF g

LEMMA StopAllPlain == \A i \in 1..Len(StopAll) : StopAll[i].op \notin Marks
<1> SUFFICES ASSUME NEW i \in 1..4 PROVE StopAll[i].op \notin Marks
  BY StopAllIs
<1>1. StopAll[i].op \in {"pop", "known", "stopped", "list"}
  BY StopAllIs, StepIs
<1> QED BY <1>1 DEF Marks, Launches

LEMMA CommitStep == ASSUME ConvInv, NEW t \in Plays, Commit(t) PROVE ConvInv'
<1>1. ConvTypeOK /\ Workers /\ Quiet /\ t \in Threads
  BY QuietThread, ThreadsAre DEF ConvInv, Commit
<1>2. /\ At(t, "commit") /\ UNCHANGED <<regulator, due>>
      /\ Then(t, <<>>) \/ Then(t, StopAll \o BeginSteps(Of(t))) \/ Then(t, StopAll)
  BY DEF Commit, Done, server
<1> DEFINE s == todo[t]
<1>3. s \in Seq(Steps) /\ s # <<>> /\ 1 \in 1..Len(s) /\ s[1].op = "commit" /\ s[1].of = Of(t) /\ s[1] \in Steps
  BY <1>1, <1>2, AtIs
<1>4. InOrder(s)
  BY <1>1 DEF Workers
<1>5. ASSUME NEW p PROVE s[1] # Step("wait", p)
  BY <1>3, StepIs
<1>6. CASE Then(t, <<>>)
  <2>1. <<>> \in Seq(Steps) /\ \A i \in 1..Len(<<>>) : FALSE
    OBVIOUS
  <2> QED BY <1>1, <1>2, <1>3, <1>5, <1>6, <2>1, TodoMoves, ThreadsAre
<1>7. CASE Then(t, StopAll)
  BY <1>1, <1>2, <1>3, <1>5, <1>7, StopAllIs, StopAllPlain, TodoMoves, ThreadsAre
<1>8. CASE Then(t, StopAll \o BeginSteps(Of(t)))
  <2> DEFINE q == StopAll \o BeginSteps(Of(t))
             r == todo'[t]
  <2>1. Of(t) \in Titles
    BY <1>3, StepTypes
  <2>2. q \in Seq(Steps) /\ Len(q) = 9 /\ (\A i \in 1..7 : q[i].op \notin Marks)
        /\ q[8].op = "start" /\ q[9].op = "head"
    BY <2>1, BeginIs
  <2>3. Then(t, q)
    BY <1>8
  <2> HIDE DEF q
  <2>4. r = q \o Tail(s)
    BY <1>1, <1>3, <2>2, <2>3, ThenTypes DEF ConvTypeOK
  <2> HIDE DEF r, s
  <2>5. Len(s) = 1
    BY <1>3, <1>4 DEF InOrder
  <2>6. Len(r) = 9 /\ \A i \in 1..9 : r[i] = q[i]
    <3>1. q \in Seq(Steps) /\ s \in Seq(Steps) /\ s # <<>>
      BY <1>3, <2>2
    <3>2. Len(r) = Len(q) + Len(s) - 1 /\ \A i \in 1..Len(q) : r[i] = q[i]
      BY <2>4, <3>1, ThenIs
    <3> QED BY <2>2, <2>5, <3>2
  <2>7. InOrder(r)
    <3> SUFFICES ASSUME NEW i \in 1..9
                 PROVE  /\ r[i].op # "commit"
                        /\ r[i].op \in {"start", "evict"} => i = 8
                        /\ r[i].op = "head" => i = 9
      BY <2>6 DEF InOrder
    <3>1. CASE i \in 1..7
      BY <2>2, <2>6, <3>1 DEF Marks, Launches
    <3>2. CASE i \in 8..9
      BY <2>2, <2>6, <3>2
    <3> QED BY <3>1, <3>2
  <2>8. Ahead(s, Launches) /\ Ahead(s, Marks)
    BY <1>3 DEF Ahead, Launches, Marks
  <2>9. InOrder(todo'[t]) /\ Ahead(todo[t], Launches) /\ Ahead(todo[t], Marks) /\ todo[t] # <<>>
    BY <1>3, <2>7, <2>8 DEF r, s
  <2> QED BY <1>1, <1>2, <2>2, <2>3, <2>9, WorkerMoves
<1> QED BY <1>2, <1>6, <1>7, <1>8

LEMMA EntryIs ==
  ASSUME NEW k
  PROVE  Entry(k) = 0 \/ Entry(k) \in Entries
BY DEF Entry

LEMMA StartStep == ASSUME ConvInv, NEW t \in Plays, Start(t) PROVE ConvInv'
<1>1. ConvTypeOK /\ Workers /\ t \in Threads
  BY ThreadsAre DEF ConvInv
<1> DEFINE gone == {p \in Plays : title[p] = Of(t) \/ p \notin clients}
           x == Step("evict", Entry(Of(t)))
           q == <<x>>
           s == todo[t]
           r == todo'[t]
<1>2. /\ At(t, "start") /\ lock' = t /\ registry' = Without(gone) /\ Then(t, q)
      /\ UNCHANGED <<plays, processes, regulator, files, bounds, due>>
  BY DEF Start
<1> HIDE DEF gone
<1>3. Quiet
  <2>1. registry \in Seq(Plays) /\ Len(registry) <= MaxTranscodes /\ files' \subseteq Titles
    BY <1>1, <1>2 DEF ConvTypeOK
  <2>2. RegistryOK(registry') /\ Entries' \subseteq Entries
    BY <1>2, <2>1, WithoutIs DEF RegistryOK, Entries
  <2> QED BY <1>1, <1>2, <2>1, <2>2, KeptEases DEF Quiet
<1>4. x \in Steps /\ x.op = "evict"
  <2>1. Entry(Of(t)) \in {0} \cup Made
    BY EntryIs, EntriesAreMade DEF Made
  <2> QED BY <2>1 DEF Step, Steps
<1> HIDE DEF x
<1>5. q \in Seq(Steps) /\ Len(q) = 1 /\ q[1] = x
  BY <1>4, OneStep
<1> HIDE DEF q
<1>6. /\ s \in Seq(Steps) /\ s # <<>> /\ 1 \in 1..Len(s) /\ s[1].op = "start"
      /\ InOrder(s) /\ r = q \o Tail(s)
  BY <1>1, <1>2, <1>5, AtIs, ThenTypes DEF Workers, ConvTypeOK
<1> HIDE DEF s, r
<1>7. Len(s) = 2
  <2>1. Len(s) = 1 + 1
    BY <1>6 DEF InOrder
  <2> QED BY <2>1
<1>8. Len(r) = 2 /\ r[1] = x /\ r[2] = s[2]
  <2>1. /\ Len(r) = Len(q) + Len(s) - 1
        /\ \A i \in 1..Len(q) : i \in 1..Len(r) /\ r[i] = q[i]
        /\ \A i \in 2..Len(s) : Len(q) + i - 1 \in 1..Len(r) /\ r[Len(q) + i - 1] = s[i]
    <3>1. q \in Seq(Steps) /\ s \in Seq(Steps) /\ s # <<>> /\ r = q \o Tail(s)
      BY <1>5, <1>6
    <3> QED BY <3>1, ThenIs
  <2>2. r[1 + 2 - 1] = s[2]
    BY <1>5, <1>7, <2>1
  <2> QED BY <1>5, <1>7, <2>1, <2>2
<1>9. InOrder(r)
  <2>1. /\ s[2].op = "commit" => Len(s) = 1
        /\ s[2].op \in {"start", "evict"} => Len(s) = 2 + 1
        /\ s[2].op = "head" => Len(s) = 2
    <3>1. 2 \in 1..Len(s)
      BY <1>7
    <3> QED BY <1>6, <3>1 DEF InOrder
  <2>2. \A i \in 1..Len(r) : i = 1 \/ i = 2
    BY <1>8
  <2> QED BY <1>4, <1>7, <1>8, <2>1, <2>2 DEF InOrder
<1>10. Ahead(s, Launches) /\ Ahead(s, Marks)
  BY <1>6 DEF Ahead, Launches, Marks
<1>11. InOrder(todo'[t]) /\ Ahead(todo[t], Launches) /\ Ahead(todo[t], Marks) /\ todo[t] # <<>>
  BY <1>6, <1>9, <1>10 DEF r, s
<1> QED BY <1>2, <1>3, <1>5, <1>11, WorkerMoves

(* The oldest entry is a play that is made, where there is one. *)
LEMMA OldestIs ==
  ASSUME ConvInv, Full
  PROVE  /\ registry # <<>> /\ Head(registry) \in Entries
         /\ Tail(registry) \in Seq(Plays) /\ Len(Tail(registry)) <= MaxTranscodes
         /\ {Tail(registry)[i] : i \in 1..Len(Tail(registry))} \subseteq Entries
<1>1. registry \in Seq(Plays) /\ Len(registry) <= MaxTranscodes /\ Len(registry) >= MaxTranscodes
  BY DEF ConvInv, ConvTypeOK, Full
<1>2. Len(registry) \in Nat /\ Len(registry) >= 1 /\ registry # <<>>
  BY <1>1, Numbers
<1>3. /\ Tail(registry) \in Seq(Plays) /\ Len(Tail(registry)) = Len(registry) - 1
      /\ \A i \in 1..Len(Tail(registry)) : Tail(registry)[i] = registry[i + 1]
  BY <1>1, <1>2, HeadTailProperties
<1>4. Head(registry) = registry[1] /\ 1 \in 1..Len(registry)
  BY <1>1, <1>2
<1>5. Len(Tail(registry)) <= MaxTranscodes
  BY <1>1, <1>2, <1>3, Numbers
<1> DEFINE u == Tail(registry)
<1>6. \A i \in 1..Len(u) : u[i] = registry[i + 1] /\ i + 1 \in 1..Len(registry)
  <2>1. Len(u) = Len(registry) - 1 /\ \A i \in 1..Len(u) : u[i] = registry[i + 1]
    BY <1>3
  <2> HIDE DEF u
  <2> QED BY <1>2, <2>1
<1> HIDE DEF u
<1>7. {u[i] : i \in 1..Len(u)} \subseteq Entries
  BY <1>6 DEF Entries
<1> QED BY <1>2, <1>3, <1>4, <1>5, <1>7 DEF Entries, u

LEMMA EvictStep == ASSUME ConvInv, NEW t \in Plays, Evict(t) PROVE ConvInv'
<1>1. ConvTypeOK /\ Workers /\ t \in Threads
  BY ThreadsAre DEF ConvInv
<1> DEFINE o == Head(registry)
           a == Stop(o)
           x == Head(todo[t])
           q == a \o <<x>>
           s == todo[t]
           r == todo'[t]
<1>2. /\ At(t, "evict") /\ Full /\ registry' = Tail(registry) /\ Then(t, q)
      /\ UNCHANGED <<plays, processes, lock, regulator, files, bounds, due>>
  BY DEF Evict
<1>3. Quiet
  <2>1. RegistryOK(registry') /\ Entries' \subseteq Entries
    BY <1>2, OldestIs DEF RegistryOK, Entries
  <2>2. files' \subseteq Titles /\ lock' \in Threads
    BY <1>1, <1>2 DEF ConvTypeOK
  <2> QED BY <1>1, <1>2, <2>1, <2>2, KeptEases DEF Quiet
<1>4. a \in Seq(Killings) /\ Len(a) = 2
  <2>1. o \in Plays /\ title[o] # Nil /\ title \in [Plays -> Titles \cup {Nil}]
    BY <1>1, <1>2, OldestIs, EntriesAreMade DEF ConvTypeOK
  <2> HIDE DEF o
  <2> QED BY <2>1, StopIs
<1> HIDE DEF a, o
<1>5. s \in Seq(Steps) /\ s # <<>> /\ 1 \in 1..Len(s) /\ s[1] = x /\ x.op = "evict" /\ x \in Steps /\ InOrder(s)
  BY <1>1, <1>2, AtIs DEF Workers
<1>6. a \in Seq(Steps) /\ \A i \in 1..Len(a) : a[i].op \notin Marks
  BY <1>4, KillingsPlain
<1> HIDE DEF s, x
<1>7. q \in Seq(Steps) /\ Len(q) = 3 /\ q[1] = a[1] /\ q[2] = a[2] /\ q[3] = x
  <2>1. <<x>> \in Seq(Steps) /\ Len(<<x>>) = 1 /\ <<x>>[1] = x
    BY <1>5, OneStep
  <2> DEFINE b == <<x>>
  <2> HIDE DEF b
  <2>2. /\ a \o b \in Seq(Steps) /\ Len(a \o b) = Len(a) + Len(b)
        /\ \A i \in 1..Len(a) + Len(b) : (a \o b)[i] = IF i <= Len(a) THEN a[i] ELSE b[i - Len(a)]
    BY <1>6, <2>1, ConcatProperties DEF b
  <2>3. Len(b) = 1 /\ b[1] = x
    BY <2>1 DEF b
  <2>4. /\ a \o b \in Seq(Steps) /\ Len(a \o b) = 3
        /\ (a \o b)[1] = a[1] /\ (a \o b)[2] = a[2] /\ (a \o b)[3] = b[1]
    BY <1>4, <2>2, <2>3
  <2> QED BY <2>3, <2>4 DEF b
<1> HIDE DEF q
<1>8. r = q \o Tail(s)
  BY <1>1, <1>2, <1>5, <1>7, ThenTypes DEF s, ConvTypeOK
<1> HIDE DEF r
<1>9. Len(s) = 2
  <2>1. Len(s) = 1 + 1
    BY <1>5 DEF InOrder
  <2> QED BY <2>1
<1>10. Len(r) = 4 /\ r[1] = a[1] /\ r[2] = a[2] /\ r[3] = x /\ r[4] = s[2]
  <2>1. /\ Len(r) = Len(q) + Len(s) - 1
        /\ \A i \in 1..Len(q) : i \in 1..Len(r) /\ r[i] = q[i]
        /\ \A i \in 2..Len(s) : Len(q) + i - 1 \in 1..Len(r) /\ r[Len(q) + i - 1] = s[i]
    <3>1. q \in Seq(Steps) /\ s \in Seq(Steps) /\ s # <<>> /\ r = q \o Tail(s)
      BY <1>5, <1>7, <1>8
    <3> QED BY <3>1, ThenIs
  <2>2. r[3 + 2 - 1] = s[2]
    BY <1>7, <1>9, <2>1
  <2> QED BY <1>7, <1>9, <2>1, <2>2
<1>11. InOrder(r)
  <2>1. /\ s[2].op = "commit" => Len(s) = 1
        /\ s[2].op \in {"start", "evict"} => Len(s) = 2 + 1
        /\ s[2].op = "head" => Len(s) = 2
    <3>1. 2 \in 1..Len(s)
      BY <1>9
    <3> QED BY <1>5, <3>1 DEF InOrder
  <2>2. s[2].op \notin {"commit", "start", "evict"}
    BY <1>9, <2>1
  <2>3. r[1].op \notin Marks /\ r[2].op \notin Marks
    BY <1>4, <1>6, <1>10
  <2>4. \A i \in 1..Len(r) : i \in {1, 2, 3, 4}
    BY <1>10
  <2>5. \A i \in {1, 2} : r[i].op \notin {"commit", "start", "evict", "head"}
    BY <2>3 DEF Marks, Launches
  <2> QED BY <1>5, <1>10, <2>2, <2>4, <2>5 DEF InOrder
<1>12. Ahead(s, Launches) /\ Ahead(s, Marks)
  BY <1>5 DEF Ahead, Launches, Marks
<1>13. InOrder(todo'[t]) /\ Ahead(todo[t], Launches) /\ Ahead(todo[t], Marks) /\ todo[t] # <<>>
  BY <1>5, <1>11, <1>12 DEF r, s
<1> QED BY <1>2, <1>3, <1>7, <1>13, WorkerMoves

LEMMA GiveUpStep == ASSUME ConvInv, NEW t \in Plays, GiveUp(t) PROVE ConvInv'
<1>1. ConvTypeOK /\ t \in Threads
  BY ThreadsAre DEF ConvInv
<1> DEFINE e == Entry(title[t])
           v == IF e = 0 THEN t ELSE e
           q == Stop(v)
<1>2. /\ At(t, "head") /\ registry' = Without({e}) /\ Then(t, q)
      /\ UNCHANGED <<plays, processes, lock, regulator, files, bounds, due>>
  BY DEF GiveUp
<1>3. Quiet
  <2>1. registry \in Seq(Plays) /\ Len(registry) <= MaxTranscodes /\ files' \subseteq Titles /\ lock' \in Threads
    BY <1>1, <1>2 DEF ConvTypeOK
  <2> HIDE DEF e
  <2>2. RegistryOK(registry') /\ Entries' \subseteq Entries
    BY <1>2, <2>1, WithoutIs DEF RegistryOK, Entries
  <2> QED BY <1>1, <1>2, <2>1, <2>2, KeptEases DEF Quiet
<1>4. todo[t] # <<>> /\ todo[t][1].op = "head"
  BY <1>1, <1>2, AtIs
<1>5. q \in Seq(Killings)
  <2>1. title[t] # Nil /\ title \in [Plays -> Titles \cup {Nil}]
    BY <1>1, <1>4, BusyIsMade DEF ConvTypeOK
  <2>2. v \in Plays /\ title[v] # Nil
    BY <2>1, EntryIs, EntriesAreMade
  <2> HIDE DEF v
  <2> QED BY <2>1, <2>2, StopIs
<1> HIDE DEF q
<1>6. q \in Seq(Steps) /\ \A i \in 1..Len(q) : q[i].op \notin Marks
  BY <1>5, KillingsPlain
<1> QED BY <1>1, <1>2, <1>3, <1>4, <1>6, TodoMoves, ThreadsAre

(* A launch: the one step that makes a process, and the one that adds an entry. *)
LEMMA LaunchStep == ASSUME ConvInv, NEW t \in Plays, Launch(t) PROVE ConvInv'
<1>1. ConvTypeOK /\ Unmade /\ Workers /\ Stops /\ HeldIsReleased /\ t \in Threads
  BY ThreadsAre DEF ConvInv
<1> DEFINE q == IF Of(t) = 0 THEN <<>> ELSE Stop(Of(t))
           s == todo[t]
           r == todo'[t]
<1>2. /\ At(t, "evict") /\ ~Full /\ state' = [state EXCEPT ![t] = "booting"] /\ clients' = clients \cup {t}
      /\ registry' = Append(registry, t) /\ lock' = 0 /\ Then(t, q)
      /\ due' = {p \in due : title[p] # title[t]}
      /\ UNCHANGED <<plays, doomed, regulator, files, bounds>>
  BY DEF Launch, Set
<1>3. /\ s \in Seq(Steps) /\ s # <<>> /\ 1 \in 1..Len(s) /\ s[1].op = "evict" /\ s[1].of = Of(t)
      /\ s[1] \in Steps /\ InOrder(s)
  BY <1>1, <1>2, AtIs DEF Workers
<1>4. q \in Seq(Killings)
  <2>1. Of(t) \in {0} \cup Made /\ title \in [Plays -> Titles \cup {Nil}]
    BY <1>1, <1>3, StepTypes DEF ConvTypeOK
  <2>2. CASE Of(t) = 0
    BY <2>2, NothingIs
  <2>3. CASE Of(t) # 0
    <3>1. Of(t) \in Plays /\ title[Of(t)] # Nil
      BY <2>1, <2>3 DEF Made
    <3> QED BY <2>1, <2>3, <3>1, StopIs
  <2> QED BY <2>2, <2>3
<1> HIDE DEF q
<1>5. q \in Seq(Steps) /\ \A i \in 1..Len(q) : q[i].op \notin Marks
  BY <1>4, KillingsPlain
<1>6. /\ todo' \in [Threads -> Seq(Steps)] /\ r = q \o Tail(s)
      /\ \A u \in Threads : u # t => todo'[u] = todo[u]
  BY <1>1, <1>2, <1>3, <1>5, ThenTypes DEF ConvTypeOK
<1> HIDE DEF s, r
<1>7. Ahead(s, Launches) /\ Ahead(s, Marks)
  BY <1>3 DEF Ahead, Launches, Marks
<1>8. state[t] = "none" /\ regulator[t] = Nil /\ title[t] # Nil
  <2>1. state[t] = "none" /\ regulator[t] = Nil
    BY <1>1, <1>7 DEF Workers, s
  <2>2. todo[t] # <<>>
    BY <1>3 DEF s
  <2> QED BY <2>1, <2>2, BusyIsMade
<1>9. /\ title' = title /\ gen' = gen /\ own' = own /\ doomed' = doomed /\ regulator' = regulator
      /\ files' = files /\ stops' = stops /\ restarts' = restarts
  BY <1>2 DEF plays, bounds
<1>10. \A p \in Plays : state'[p] = IF p = t THEN "booting" ELSE state[p]
  BY <1>1, <1>2 DEF ConvTypeOK
<1>11. Held' = Held /\ Visible' = Visible
  BY <1>8, <1>10, VisibleIs, VisibleNext
<1>12. registry' \in Seq(Plays) /\ Len(registry') <= MaxTranscodes /\ Entries' = Entries \cup {t}
  <2>1. registry \in Seq(Plays) /\ Len(registry) \in Nat /\ ~(Len(registry) >= MaxTranscodes)
    BY <1>1, <1>2 DEF ConvTypeOK, Full
  <2> DEFINE n == Append(registry, t)
  <2>2. /\ n \in Seq(Plays) /\ Len(n) = Len(registry) + 1
        /\ \A i \in 1..Len(registry) : n[i] = registry[i]
        /\ n[Len(registry) + 1] = t
    BY <2>1, AppendProperties
  <2> HIDE DEF n
  <2>3. Len(n) <= MaxTranscodes
    BY <2>1, <2>2, Numbers
  <2>4. {n[i] : i \in 1..Len(n)} = {registry[i] : i \in 1..Len(registry)} \cup {t}
    <3>1. ASSUME NEW i \in 1..Len(n) PROVE i \in 1..Len(registry) \/ i = Len(registry) + 1
      BY <2>1, <2>2
    <3>2. Len(registry) + 1 \in 1..Len(n) /\ \A i \in 1..Len(registry) : i \in 1..Len(n)
      BY <2>1, <2>2
    <3> QED BY <2>2, <3>1, <3>2
  <2>5. registry' = n
    BY <1>2 DEF n
  <2> QED BY <2>2, <2>3, <2>4, <2>5 DEF Entries
<1>13. ConvTypeOK'
  <2>1. title' \in [Plays -> Titles \cup {Nil}] /\ gen' \in Threads /\ own' \subseteq Plays
    BY <1>1, <1>9 DEF ConvTypeOK
  <2>2. stops' \in 0..MaxStops /\ restarts' \in 0..MaxRestarts
    BY <1>1, <1>9 DEF ConvTypeOK
  <2>3. state' \in [Plays -> {"none", "booting", "running", "held", "gone"}]
    BY <1>1, <1>2 DEF ConvTypeOK
  <2>4. doomed' \subseteq Held' /\ clients' \subseteq Plays /\ files' \subseteq Titles /\ due' \subseteq Plays
    BY <1>1, <1>2, <1>9, <1>11 DEF ConvTypeOK
  <2>5. lock' \in Threads
    BY <1>2, Numbers DEF Threads
  <2>6. regulator' \in [Plays -> [pid : Threads, held : BOOLEAN] \cup {Nil}]
    BY <1>1, <1>9 DEF ConvTypeOK
  <2>7. todo' \in [Threads -> Seq(Steps')]
    BY <1>6, <1>9, StepsKept
  <2> QED BY <1>12, <2>1, <2>2, <2>3, <2>4, <2>5, <2>6, <2>7 DEF ConvTypeOK
<1>14. Unmade'
  BY <1>1, <1>2, <1>6, <1>8, <1>9, <1>10, <1>12, ThreadsAre DEF Unmade
<1>15. Len(s) = 2
  <2>1. Len(s) = 1 + 1
    BY <1>3 DEF InOrder
  <2> QED BY <2>1
<1>16. InOrder(r) /\ ~Ahead(r, Launches)
  <2>1. q \in Seq(Steps) /\ s \in Seq(Steps) /\ s # <<>> /\ r = q \o Tail(s)
    BY <1>3, <1>5, <1>6
  <2>2. InOrder(r)
    BY <1>3, <1>5, <2>1, ThenInOrder
  <2>3. /\ Len(r) = Len(q) + Len(s) - 1 /\ Len(q) \in Nat
        /\ \A i \in 1..Len(q) : i \in 1..Len(r) /\ r[i] = q[i]
        /\ \A i \in 1..Len(r) : i > Len(q) => i - Len(q) + 1 \in 2..Len(s) /\ r[i] = s[i - Len(q) + 1]
    BY <2>1, ThenIs
  <2>4. s[2].op \notin Launches
    <3>1. 2 \in 1..Len(s)
      BY <1>15
    <3>2. /\ s[2].op = "commit" => Len(s) = 1
          /\ s[2].op \in {"start", "evict"} => Len(s) = 2 + 1
      BY <1>3, <3>1 DEF InOrder
    <3> QED BY <1>15, <3>2 DEF Launches
  <2>5. ASSUME NEW i \in 1..Len(r) PROVE r[i].op \notin Launches
    <3>1. CASE i <= Len(q)
      <4>1. i \in 1..Len(q)
        BY <2>3, <3>1
      <4> QED BY <1>5, <2>3, <4>1 DEF Marks
    <3>2. CASE i > Len(q)
      <4>1. i - Len(q) + 1 = 2 /\ r[i] = s[i - Len(q) + 1]
        BY <1>15, <2>3, <3>2
      <4> QED BY <2>4, <4>1
    <3> QED BY <2>3, <3>1, <3>2
  <2> QED BY <2>2, <2>5 DEF Ahead
<1>17. Workers'
  <2> SUFFICES ASSUME NEW p \in Plays
               PROVE  /\ InOrder(todo'[p])
                      /\ Ahead(todo'[p], Launches) => state'[p] = "none"
                      /\ Ahead(todo'[p], Marks) => regulator'[p] = Nil
    BY DEF Workers
  <2>1. CASE p = t
    BY <1>8, <1>9, <1>16, <2>1 DEF r
  <2>2. CASE p # t
    <3>1. todo'[p] = todo[p] /\ state'[p] = state[p] /\ regulator'[p] = regulator[p]
      BY <1>6, <1>9, <1>10, <2>2, ThreadsAre
    <3> QED BY <1>1, <3>1 DEF Workers
  <2> QED BY <2>1, <2>2
<1>18. HeldIsReleased'
  <2>1. \A p \in own : state'[p] = "held" => state[p] = "held"
    BY <1>1, <1>10 DEF ConvTypeOK
  <2> QED BY <1>1, <1>9, <2>1 DEF HeldIsReleased
<1>19. Stops'
  <2>1. todo'[Stopper] = todo[Stopper]
    BY <1>6, ThreadsAre
  <2>2. Names' = Names \cup {title[t]}
    BY <1>9, <1>12 DEF Names
  <2>3. ASSUME NEW p \in due' PROVE state'[p] \in {"running", "held", "gone"}
    <3>1. p \in due /\ p # t /\ p \in Plays
      BY <1>1, <1>2 DEF ConvTypeOK
    <3> QED BY <1>1, <1>10, <3>1 DEF Stops
  <2>4. ASSUME NEW p \in due' \cap Visible' PROVE WillStop(todo[Stopper], p, title[p], Names')
    <3>1. p \in due \cap Visible /\ title[p] # title[t]
      BY <1>2, <1>11
    <3>2. WillStop(todo[Stopper], p, title[p], Names)
      BY <1>1, <3>1 DEF Stops
    <3>3. title[p] \in Names' => title[p] \in Names
      BY <2>2, <3>1
    <3> HIDE DEF Stopper
    <3> QED BY <3>2, <3>3 DEF WillStop
  <2>5. StopInOrder(todo'[Stopper])
    BY <1>1, <2>1 DEF Stops
  <2> QED BY <1>9, <2>1, <2>3, <2>4, <2>5 DEF Stops
<1> QED BY <1>13, <1>14, <1>17, <1>18, <1>19 DEF ConvInv

(* The film begins: its regulator starts, where there was none. *)
LEMMA ReadyStep == ASSUME ConvInv, NEW t \in Plays, Ready(t) PROVE ConvInv'
<1>1. ConvTypeOK /\ Unmade /\ Workers /\ Stops /\ HeldIsReleased /\ t \in Threads
  BY ThreadsAre DEF ConvInv
<1>2. /\ At(t, "head") /\ regulator' = [regulator EXCEPT ![t] = Fresh] /\ Then(t, <<>>)
      /\ UNCHANGED <<plays, processes, registry, lock, files, bounds, due>>
  BY DEF Ready, Done
<1>3. Quiet
  <2>1. RegistryOK(registry') /\ Entries' = Entries /\ lock' \in Threads /\ files' \subseteq Titles
    BY <1>1, <1>2 DEF RegistryOK, Entries, ConvTypeOK
  <2> QED BY <1>1, <1>2, <2>1, KeptEases DEF Quiet
<1> DEFINE s == todo[t]
           r == todo'[t]
           q == <<>>
<1>4. s \in Seq(Steps) /\ s # <<>> /\ 1 \in 1..Len(s) /\ s[1].op = "head" /\ InOrder(s)
  BY <1>1, <1>2, AtIs DEF Workers
<1>5. q \in Seq(Steps) /\ Len(q) = 0 /\ Then(t, q)
  BY <1>2
<1> HIDE DEF q
<1>6. /\ todo' \in [Threads -> Seq(Steps)] /\ r = q \o Tail(s)
      /\ \A u \in Threads : u # t => todo'[u] = todo[u]
  BY <1>1, <1>4, <1>5, ThenTypes DEF ConvTypeOK
<1> HIDE DEF s, r
<1>7. regulator[t] = Nil /\ title[t] # Nil
  <2>1. Ahead(s, Marks)
    BY <1>4 DEF Ahead, Marks
  <2>2. regulator[t] = Nil
    BY <1>1, <2>1 DEF Workers, s
  <2>3. todo[t] # <<>>
    BY <1>4 DEF s
  <2> QED BY <2>2, <2>3, BusyIsMade
<1>8. \A p \in Plays : regulator'[p] = IF p = t THEN Fresh ELSE regulator[p]
  BY <1>1, <1>2 DEF ConvTypeOK
<1>9. Fresh \in Regulators /\ Fresh.held = FALSE
  BY Numbers DEF Fresh, Regulators, Threads
<1>10. regulator' \in [Plays -> Regulators]
  BY <1>1, <1>2, <1>9 DEF ConvTypeOK, Regulators
<1>11. due' = due /\ due' \subseteq Plays
  BY <1>1, <1>2 DEF ConvTypeOK
<1>12. ConvTypeOK'
  BY <1>1, <1>3, <1>6, <1>10, <1>11, QuietTypes
<1>13. Unmade'
  <2>1. \A p \in Plays : title[p] = Nil => todo'[p] = <<>> /\ regulator'[p] = Nil
    BY <1>1, <1>6, <1>7, <1>8, ThreadsAre DEF Unmade
  <2> QED BY <1>1, <1>3, <2>1, QuietUnmade
<1>14. Len(r) = 0
  <2>1. Len(s) = 1
    BY <1>4 DEF InOrder
  <2>2. q \in Seq(Steps) /\ s \in Seq(Steps) /\ s # <<>>
    BY <1>4, <1>5
  <2>3. Len(r) = Len(q) + Len(s) - 1
    BY <1>6, <2>2, ThenIs
  <2> QED BY <1>5, <2>1, <2>3
<1>15. Workers'
  <2> SUFFICES ASSUME NEW p \in Plays
               PROVE  /\ InOrder(todo'[p])
                      /\ Ahead(todo'[p], Launches) => state'[p] = "none"
                      /\ Ahead(todo'[p], Marks) => regulator'[p] = Nil
    BY DEF Workers
  <2>1. CASE p = t
    <3>1. InOrder(r) /\ ~Ahead(r, Launches) /\ ~Ahead(r, Marks)
      BY <1>14 DEF InOrder, Ahead
    <3> QED BY <2>1, <3>1 DEF r
  <2>2. CASE p # t
    <3>1. todo'[p] = todo[p] /\ state' = state /\ regulator'[p] = regulator[p]
      BY <1>2, <1>6, <1>8, <2>2, ThreadsAre DEF processes
    <3> QED BY <1>1, <3>1 DEF Workers
  <2> QED BY <2>1, <2>2
<1>16. HeldIsReleased'
  <2>1. own' = own /\ state' = state
    BY <1>2 DEF plays, processes
  <2>2. \A p \in Plays : regulator[p] # Nil => regulator'[p] = regulator[p]
    BY <1>7, <1>8
  <2> QED BY <1>1, <2>1, <2>2 DEF HeldIsReleased
<1>17. Stops'
  <2>1. todo'[Stopper] = todo[Stopper]
    BY <1>6, ThreadsAre
  <2> QED BY <1>1, <1>3, <1>11, <2>1, DueKept
<1> QED BY <1>12, <1>13, <1>15, <1>16, <1>17 DEF ConvInv

LEMMA WorkingSteps ==
  ASSUME ConvInv, NEW t \in Plays, Beginning(t) \/ Heading(t)
  PROVE  ConvInv'
<1>1. t \in Threads
  BY ThreadsAre
<1> QED BY <1>1, CommitStep, UnlinkStep, StartStep, EvictStep, LaunchStep, SupersededStep, ReadyStep,
           FinishedStep, GiveUpStep DEF Beginning, Heading

(***************************************************************************)
(* The container, and the regulators.                                      *)
(***************************************************************************)
LEMMA QuietIdle ==
  ASSUME ConvInv, Quiet, UNCHANGED <<todo, regulator, due>>
  PROVE  ConvInv'
<1>1. ConvTypeOK /\ Unmade /\ Workers /\ Stops /\ HeldIsReleased
  BY DEF ConvInv
<1>2. todo' = todo /\ regulator' = regulator /\ due' = due
  OBVIOUS
<1>3. todo \in [Threads -> Seq(Steps)] /\ regulator \in [Plays -> Regulators] /\ due \subseteq Plays
  BY <1>1 DEF ConvTypeOK, Regulators
<1>4. ConvTypeOK'
  BY <1>1, <1>2, <1>3, QuietTypes
<1>5. Unmade'
  BY <1>1, <1>2, QuietUnmade DEF Unmade
<1>6. Workers'
  BY <1>1, <1>2, QuietWorkers DEF Workers
<1>7. HeldIsReleased'
  BY <1>1, <1>2, QuietHeld
<1>8. Stops'
  BY <1>1, <1>2, DueKept
<1> QED BY <1>4, <1>5, <1>6, <1>7, <1>8 DEF ConvInv

LEMMA ExitStep == ASSUME ConvInv, NEW p \in Plays, Exit(p) PROVE ConvInv'
<1>1. ConvTypeOK /\ p \in Visible /\ Die(p) /\ UNCHANGED <<files, Outside>>
  BY VisibleIs DEF ConvInv, Exit
<1>2. Easing
  BY <1>1, DieEases
<1>3. files' \subseteq Titles /\ UNCHANGED <<plays, server, bounds>> /\ UNCHANGED <<todo, regulator, due>>
  BY <1>1 DEF ConvTypeOK, Outside, server
<1> QED BY <1>1, <1>2, <1>3, QuietKept, QuietIdle

LEMMA LoseClientStep == ASSUME ConvInv, NEW p \in Plays, LoseClient(p) PROVE ConvInv'
<1>1. ConvTypeOK /\ clients' \subseteq clients /\ UNCHANGED <<state, doomed, files, Outside>>
  BY DEF ConvInv, LoseClient
<1>2. Easing
  BY <1>1, ClientEases
<1>3. files' \subseteq Titles /\ UNCHANGED <<plays, server, bounds>> /\ UNCHANGED <<todo, regulator, due>>
  BY <1>1 DEF ConvTypeOK, Outside, server
<1> QED BY <1>1, <1>2, <1>3, QuietKept, QuietIdle

(* A process is visible, or has ended before it was. *)
LEMMA BootStep == ASSUME ConvInv, NEW p \in Plays, Boot(p) PROVE ConvInv'
<1>1. ConvTypeOK /\ Unmade /\ Workers /\ Stops /\ HeldIsReleased
  BY DEF ConvInv
<1>2. state[p] = "booting" /\ UNCHANGED Outside
  BY DEF Boot
<1>3. /\ title' = title /\ gen' = gen /\ own' = own /\ registry' = registry /\ lock' = lock
      /\ regulator' = regulator /\ todo' = todo
      /\ stops' = stops /\ restarts' = restarts /\ due' = due
  BY <1>2 DEF Outside, plays, server, bounds
<1>4. PICK v \in {"running", "gone"} : state' = [state EXCEPT ![p] = v]
  BY DEF Boot, Set, Die
<1>5. \A q \in Plays : state'[q] = IF q = p THEN v ELSE state[q]
  BY <1>1, <1>4 DEF ConvTypeOK
<1>6. Held' = Held /\ Visible' \subseteq Visible \cup {p}
  BY <1>2, <1>5, VisibleIs, VisibleNext
<1>7. title[p] \in Titles
  BY <1>1, <1>2 DEF Unmade, ConvTypeOK
<1>8. doomed' \subseteq doomed /\ clients' \subseteq clients /\ files' \subseteq files \cup {title[p]}
  BY DEF Boot, Die
<1>9. ConvTypeOK'
  <2>1. title' \in [Plays -> Titles \cup {Nil}] /\ gen' \in Threads /\ own' \subseteq Plays
    BY <1>1, <1>3 DEF ConvTypeOK
  <2>2. stops' \in 0..MaxStops /\ restarts' \in 0..MaxRestarts
    BY <1>1, <1>3 DEF ConvTypeOK
  <2>3. state' \in [Plays -> {"none", "booting", "running", "held", "gone"}]
    BY <1>1, <1>4 DEF ConvTypeOK
  <2>4. doomed' \subseteq Held' /\ clients' \subseteq Plays /\ files' \subseteq Titles /\ due' \subseteq Plays
    BY <1>1, <1>3, <1>6, <1>7, <1>8 DEF ConvTypeOK
  <2>5. registry' \in Seq(Plays) /\ Len(registry') <= MaxTranscodes /\ lock' \in Threads
    BY <1>1, <1>3 DEF ConvTypeOK
  <2>6. regulator' \in [Plays -> [pid : Threads, held : BOOLEAN] \cup {Nil}]
    BY <1>1, <1>3 DEF ConvTypeOK
  <2>7. todo' \in [Threads -> Seq(Steps')]
    BY <1>1, <1>3, StepsKept DEF ConvTypeOK
  <2> QED BY <2>1, <2>2, <2>3, <2>4, <2>5, <2>6, <2>7 DEF ConvTypeOK
<1>10. Entries' = Entries /\ Names' = Names
  BY <1>3 DEF Entries, Names
<1>11. Unmade'
  BY <1>1, <1>2, <1>3, <1>5, <1>8, <1>10 DEF Unmade
<1>12. Workers'
  BY <1>1, <1>2, <1>3, <1>5 DEF Workers
<1>13. HeldIsReleased'
  <2>1. \A q \in own : state'[q] = "held" => state[q] = "held"
    BY <1>1, <1>5 DEF ConvTypeOK
  <2> QED BY <1>1, <1>3, <2>1 DEF HeldIsReleased
<1>14. Stops'
  <2>1. p \notin due
    BY <1>1, <1>2 DEF Stops
  <2>2. \A q \in due : state'[q] = state[q]
    BY <1>1, <1>5, <2>1 DEF ConvTypeOK
  <2>3. due \cap Visible' \subseteq due \cap Visible
    BY <1>6, <2>1
  <2> QED BY <1>1, <1>3, <1>10, <2>2, <2>3 DEF Stops
<1> QED BY <1>9, <1>11, <1>12, <1>13, <1>14 DEF ConvInv

LEMMA ContainerSteps == ASSUME ConvInv, NEW p \in Plays, Container(p) PROVE ConvInv'
BY BootStep, ExitStep, LoseClientStep DEF Container

(* A regulator that is there changes what it holds to, or ends. *)
LEMMA RegulatorMoves ==
  ASSUME ConvInv, Quiet, NEW p \in Plays, regulator[p] # Nil, NEW v \in Regulators,
         regulator' = [regulator EXCEPT ![p] = v], UNCHANGED <<todo, due>>,
         \A y \in own : state'[y] = "held" /\ regulator[p].pid = y /\ regulator[p].held
                        => v # Nil /\ v.pid = y /\ v.held
  PROVE  ConvInv'
<1>1. ConvTypeOK /\ Unmade /\ Workers /\ Stops /\ HeldIsReleased
  BY DEF ConvInv
<1>2. todo' = todo /\ due' = due
  OBVIOUS
<1>3. todo \in [Threads -> Seq(Steps)] /\ regulator \in [Plays -> Regulators] /\ due \subseteq Plays
  BY <1>1 DEF ConvTypeOK, Regulators
<1>4. regulator' \in [Plays -> Regulators] /\ \A q \in Plays : regulator'[q] = IF q = p THEN v ELSE regulator[q]
  BY <1>3
<1>5. ConvTypeOK'
  BY <1>1, <1>2, <1>3, <1>4, QuietTypes
<1>6. \A q \in Plays : regulator[q] = Nil => regulator'[q] = Nil
  BY <1>4
<1>7. Unmade'
  BY <1>1, <1>2, <1>6, QuietUnmade DEF Unmade
<1>8. Workers'
  BY <1>1, <1>2, <1>6, QuietWorkers DEF Workers
<1>9. HeldIsReleased'
  <2>1. own' = own /\ own \subseteq Plays
    BY <1>1 DEF Quiet, plays, ConvTypeOK
  <2> SUFFICES ASSUME NEW y \in own, state'[y] = "held"
               PROVE  \E q \in Plays : regulator'[q] # Nil /\ regulator'[q].pid = y /\ regulator'[q].held
    BY <2>1 DEF HeldIsReleased
  <2>2. state[y] = "held"
    BY <2>1, EasingIs, VisibleIs, VisibleNext DEF Quiet
  <2>3. PICK q \in Plays : regulator[q] # Nil /\ regulator[q].pid = y /\ regulator[q].held
    BY <1>1, <2>2 DEF HeldIsReleased
  <2>4. CASE q = p
    BY <1>4, <2>3, <2>4
  <2>5. CASE q # p
    BY <1>4, <2>3, <2>5
  <2> QED BY <2>4, <2>5
<1>10. Stops'
  BY <1>1, <1>2, DueKept
<1> QED BY <1>5, <1>7, <1>8, <1>9, <1>10 DEF ConvInv

LEMMA InsideQuiet ==
  ASSUME ConvTypeOK, Easing, UNCHANGED Inside
  PROVE  Quiet /\ UNCHANGED <<todo, due>>
<1>1. /\ UNCHANGED <<plays, bounds>> /\ registry' = registry /\ lock' = lock /\ files' = files
      /\ todo' = todo /\ due' = due
  BY DEF Inside
<1>2. RegistryOK(registry') /\ Entries' = Entries /\ lock' \in Threads /\ files' \subseteq Titles
  BY <1>1 DEF RegistryOK, Entries, ConvTypeOK
<1> QED BY <1>1, <1>2 DEF Quiet

LEMMA RegulatorTyped ==
  ASSUME ConvTypeOK, NEW p \in Plays, regulator[p] # Nil
  PROVE  regulator[p] \in [pid : Threads, held : BOOLEAN]
BY DEF ConvTypeOK

LEMMA RegulatorStartsStep == ASSUME ConvInv, NEW p \in Plays, RegulatorStarts(p) PROVE ConvInv'
<1> DEFINE k == CtrPid(title[p])
           v == IF Writers(title[p]) = {} THEN Nil ELSE [Fresh EXCEPT !.pid = k]
<1>1. /\ ConvTypeOK /\ regulator[p] = Fresh /\ regulator' = [regulator EXCEPT ![p] = v]
      /\ UNCHANGED processes /\ UNCHANGED Inside
  BY DEF ConvInv, RegulatorStarts
<1>2. Quiet /\ UNCHANGED <<todo, due>>
  BY <1>1, KeptEases, InsideQuiet
<1>3. v \in Regulators
  <2>1. k \in Threads
    BY CtrPidIs
  <2> HIDE DEF k
  <2>2. [Fresh EXCEPT !.pid = k] \in [pid : Threads, held : BOOLEAN]
    BY <2>1 DEF Fresh
  <2> QED BY <2>2 DEF Regulators
<1>4. regulator[p] # Nil
  <2>1. Fresh \in [pid : Nat, held : BOOLEAN]
    BY DEF Fresh
  <2> QED BY <1>1, <2>1, NilIs
<1>5. regulator[p].held = FALSE
  BY <1>1 DEF Fresh
<1> HIDE DEF v
<1> QED BY <1>1, <1>2, <1>3, <1>4, <1>5, RegulatorMoves

LEMMA NoteIs ==
  ASSUME ConvTypeOK, NEW p \in Plays, regulator[p] # Nil, NEW h \in BOOLEAN, Note(p, h)
  PROVE  \E v \in Regulators : /\ regulator' = [regulator EXCEPT ![p] = v]
                               /\ v # Nil /\ v.pid = regulator[p].pid /\ v.held = h
<1> DEFINE v == [regulator[p] EXCEPT !.held = h]
<1>1. regulator[p] \in [pid : Threads, held : BOOLEAN]
  BY RegulatorTyped
<1>2. v \in [pid : Threads, held : BOOLEAN] /\ v.pid = regulator[p].pid
  BY <1>1
<1>3. v.held = h
  BY <1>1
<1>4. regulator' = [regulator EXCEPT ![p] = v]
  BY DEF Note
<1>5. v # Nil
  <2>1. v \in [pid : Nat, held : BOOLEAN]
    BY <1>2, ThreadsAre
  <2> QED BY <2>1, NilIs
<1> HIDE DEF v
<1>6. v \in Regulators
  BY <1>2 DEF Regulators
<1> QED BY <1>2, <1>3, <1>4, <1>5, <1>6

LEMMA ResumeStep == ASSUME ConvInv, NEW p \in Plays, Resume(p) PROVE ConvInv'
<1>1. /\ ConvTypeOK /\ regulator[p] # Nil /\ Continue(regulator[p].pid) /\ Note(p, FALSE)
      /\ UNCHANGED Inside
  BY DEF ConvInv, Resume, Regulates
<1>2. Easing /\ regulator[p].pid \notin Held'
  BY <1>1, ContinueEases
<1>3. Quiet /\ UNCHANGED <<todo, due>>
  BY <1>1, <1>2, InsideQuiet
<1>4. PICK v \in Regulators : regulator' = [regulator EXCEPT ![p] = v]
  BY <1>1, NoteIs
<1>5. \A y \in own : state'[y] = "held" => regulator[p].pid # y
  BY <1>1, <1>2, VisibleNext DEF ConvTypeOK
<1> QED BY <1>1, <1>3, <1>4, <1>5, RegulatorMoves

LEMMA ResyncStep == ASSUME ConvInv, NEW p \in Plays, Resync(p) PROVE ConvInv'
<1> DEFINE h == regulator[p].pid \in Held
<1>1. /\ ConvTypeOK /\ regulator[p] # Nil /\ Note(p, h) /\ UNCHANGED processes /\ UNCHANGED Inside
  BY DEF ConvInv, Resync, Regulates
<1>2. Quiet /\ UNCHANGED <<todo, due>>
  BY <1>1, KeptEases, InsideQuiet
<1>3. h \in BOOLEAN
  OBVIOUS
<1> HIDE DEF h
<1>4. PICK v \in Regulators : /\ regulator' = [regulator EXCEPT ![p] = v]
                              /\ v # Nil /\ v.pid = regulator[p].pid /\ v.held = h
  BY <1>1, <1>3, NoteIs
<1>5. ASSUME NEW y \in own, state'[y] = "held", regulator[p].pid = y
      PROVE  v # Nil /\ v.pid = y /\ v.held
  <2>1. state' = state /\ y \in Plays
    BY <1>1 DEF processes, ConvTypeOK
  <2>2. y \in Held
    BY <1>5, <2>1, VisibleIs
  <2>3. h
    BY <1>5, <2>2 DEF h
  <2>4. v.held
    BY <1>4, <2>3
  <2> QED BY <1>4, <1>5, <2>4
<1> QED BY <1>1, <1>2, <1>4, <1>5, RegulatorMoves

(* A regulator suspends a process, which it then notes. *)
LEMMA SuspendStep == ASSUME ConvInv, NEW p \in Plays, Suspend(p) PROVE ConvInv'
<1>1. ConvTypeOK /\ Unmade /\ Workers /\ Stops /\ HeldIsReleased
  BY DEF ConvInv
<1> DEFINE x == regulator[p].pid
<1>2. /\ regulator[p] # Nil /\ ~regulator[p].held /\ Note(p, TRUE) /\ UNCHANGED Inside
      /\ doomed' = doomed /\ clients' = clients
      /\ state' = IF state[x] = "running" THEN [state EXCEPT ![x] = "held"] ELSE state
  BY DEF Suspend, SendStop, Regulates
<1>3. PICK v \in Regulators : /\ regulator' = [regulator EXCEPT ![p] = v]
                              /\ v # Nil /\ v.pid = x /\ v.held = TRUE
  BY <1>1, <1>2, NoteIs
<1>4. /\ title' = title /\ gen' = gen /\ own' = own /\ registry' = registry /\ lock' = lock
      /\ todo' = todo /\ files' = files
      /\ stops' = stops /\ restarts' = restarts /\ due' = due
  BY <1>2 DEF Inside, plays, bounds
<1> HIDE DEF x
<1>5. /\ state' \in [Plays -> States]
      /\ \A q \in Plays : state'[q] = IF q = x /\ state[x] = "running" THEN "held" ELSE state[q]
  <2>1. state \in [Plays -> States]
    BY <1>1 DEF ConvTypeOK, States
  <2>2. CASE state[x] = "running"
    <3>1. state' = [state EXCEPT ![x] = "held"]
      BY <1>2, <2>2
    <3> QED BY <2>1, <2>2, <3>1 DEF States
  <2>3. CASE state[x] # "running"
    BY <1>2, <2>1, <2>3
  <2> QED BY <2>2, <2>3
<1>6. Held \subseteq Held' /\ Visible' = Visible
  BY <1>5, VisibleIs, VisibleNext
<1>7. \A q \in Plays : regulator'[q] = IF q = p THEN v ELSE regulator[q]
  BY <1>1, <1>3 DEF ConvTypeOK
<1>8. Entries' = Entries /\ Names' = Names
  BY <1>4 DEF Entries, Names
<1>9. ConvTypeOK'
  <2>1. title' \in [Plays -> Titles \cup {Nil}] /\ gen' \in Threads /\ own' \subseteq Plays
    BY <1>1, <1>4 DEF ConvTypeOK
  <2>2. stops' \in 0..MaxStops /\ restarts' \in 0..MaxRestarts
    BY <1>1, <1>4 DEF ConvTypeOK
  <2>3. state' \in [Plays -> {"none", "booting", "running", "held", "gone"}]
    BY <1>5 DEF States
  <2>4. doomed' \subseteq Held' /\ clients' \subseteq Plays /\ files' \subseteq Titles /\ due' \subseteq Plays
    BY <1>1, <1>2, <1>4, <1>6 DEF ConvTypeOK
  <2>5. registry' \in Seq(Plays) /\ Len(registry') <= MaxTranscodes /\ lock' \in Threads
    BY <1>1, <1>4 DEF ConvTypeOK
  <2>6. regulator' \in [Plays -> [pid : Threads, held : BOOLEAN] \cup {Nil}]
    BY <1>1, <1>3 DEF ConvTypeOK, Regulators
  <2>7. todo' \in [Threads -> Seq(Steps')]
    BY <1>1, <1>4, StepsKept DEF ConvTypeOK
  <2> QED BY <2>1, <2>2, <2>3, <2>4, <2>5, <2>6, <2>7 DEF ConvTypeOK
<1>10. Unmade'
  BY <1>1, <1>2, <1>4, <1>5, <1>7, <1>8 DEF Unmade
<1>11. Workers'
  BY <1>1, <1>2, <1>4, <1>5, <1>7 DEF Workers
<1>12. HeldIsReleased'
  <2> SUFFICES ASSUME NEW y \in own, state'[y] = "held"
               PROVE  \E q \in Plays : regulator'[q] # Nil /\ regulator'[q].pid = y /\ regulator'[q].held
    BY <1>4 DEF HeldIsReleased
  <2>1. y \in Plays
    BY <1>1 DEF ConvTypeOK
  <2>2. CASE y = x
    <3>1. v.held
      BY <1>3
    <3> QED BY <1>3, <1>7, <2>2, <3>1
  <2>3. CASE y # x
    <3>1. state[y] = "held"
      BY <1>5, <2>1, <2>3
    <3>2. PICK q \in Plays : regulator[q] # Nil /\ regulator[q].pid = y /\ regulator[q].held
      BY <1>1, <3>1 DEF HeldIsReleased
    <3>3. q # p
      BY <1>2, <3>2
    <3> QED BY <1>7, <3>2, <3>3
  <2> QED BY <2>2, <2>3
<1>13. Stops'
  <2>1. \A q \in due : state'[q] \in {"running", "held", "gone"}
    BY <1>1, <1>5 DEF Stops, ConvTypeOK
  <2> QED BY <1>1, <1>4, <1>6, <1>8, <2>1 DEF Stops
<1> QED BY <1>9, <1>10, <1>11, <1>12, <1>13 DEF ConvInv

(* A regulator that ends resumes what it held; the end of its client may end the
   conversion too, which its thread then stops. *)
LEMMA LetsGo ==
  ASSUME ConvTypeOK, NEW p \in Plays, regulator[p] # Nil, ResumeHeld(p)
  PROVE  Easing /\ (regulator[p].held => regulator[p].pid \notin Held')
<1>1. CASE regulator[p].held
  <2>1. Continue(regulator[p].pid)
    BY <1>1 DEF ResumeHeld
  <2> QED BY <2>1, ContinueEases
<1>2. CASE ~regulator[p].held
  <2>1. UNCHANGED processes
    BY <1>2 DEF ResumeHeld
  <2> QED BY <1>2, <2>1, KeptEases
<1> QED BY <1>1, <1>2

LEMMA AppendedIs ==
  ASSUME NEW s \in Seq(Steps), NEW q \in Seq(Killings), InOrder(s), ~Ahead(s, Marks), NEW r, r = s \o q
  PROVE  r \in Seq(Steps) /\ InOrder(r) /\ ~Ahead(r, Launches) /\ ~Ahead(r, Marks)
<1>1. q \in Seq(Steps) /\ \A i \in 1..Len(q) : q[i].op \notin Marks
  BY KillingsPlain
<1>2. /\ r \in Seq(Steps) /\ Len(r) = Len(s) + Len(q)
      /\ \A i \in 1..Len(s) + Len(q) : r[i] = IF i <= Len(s) THEN s[i] ELSE q[i - Len(s)]
  BY <1>1, ConcatProperties
<1>3. Len(s) \in Nat /\ Len(q) \in Nat
  OBVIOUS
<1>4. ASSUME NEW i \in 1..Len(r) PROVE r[i].op \notin Marks
  <2>1. CASE i <= Len(s)
    <3>1. i \in 1..Len(s) /\ r[i] = s[i]
      BY <1>2, <1>3, <2>1
    <3> QED BY <3>1 DEF Ahead
  <2>2. CASE ~(i <= Len(s))
    <3>1. i - Len(s) \in 1..Len(q) /\ r[i] = q[i - Len(s)]
      BY <1>2, <1>3, <2>2
    <3> QED BY <1>1, <3>1
  <2> QED BY <2>1, <2>2
<1> QED BY <1>2, <1>4 DEF InOrder, Ahead, Marks, Launches

LEMMA RegulatorEndsStep == ASSUME ConvInv, NEW p \in Plays, RegulatorEnds(p) PROVE ConvInv'
<1>1. ConvTypeOK /\ Unmade /\ Workers /\ Stops /\ HeldIsReleased
  BY DEF ConvInv
<1>2. /\ regulator[p] # Nil /\ ResumeHeld(p) /\ regulator' = [regulator EXCEPT ![p] = Nil]
      /\ UNCHANGED <<plays, lock, files, bounds, due>>
      /\ (IF p \in Entries \ clients
          THEN registry' = Without({p}) /\ todo' = [todo EXCEPT ![p] = @ \o Stop(p)]
          ELSE UNCHANGED <<registry, todo>>)
  BY DEF RegulatorEnds, Regulates
<1>3. Easing /\ (regulator[p].held => regulator[p].pid \notin Held')
  BY <1>1, <1>2, LetsGo
<1>4. RegistryOK(registry') /\ Entries' \subseteq Entries
  <2>1. registry \in Seq(Plays) /\ Len(registry) <= MaxTranscodes
    BY <1>1 DEF ConvTypeOK
  <2>2. CASE p \in Entries \ clients
    <3>1. registry' = Without({p})
      BY <1>2, <2>2
    <3> QED BY <2>1, <3>1, WithoutIs DEF RegistryOK, Entries
  <2>3. CASE p \notin Entries \ clients
    BY <1>2, <2>1, <2>3 DEF RegistryOK, Entries
  <2> QED BY <2>2, <2>3
<1>5. Quiet
  <2>1. lock' \in Threads /\ files' \subseteq Titles
    BY <1>1, <1>2 DEF ConvTypeOK
  <2> QED BY <1>2, <1>3, <1>4, <2>1 DEF Quiet
<1>6. \A q \in Plays : regulator'[q] = IF q = p THEN Nil ELSE regulator[q]
  BY <1>1, <1>2 DEF ConvTypeOK
<1>7. CASE p \notin Entries \ clients
  <2>1. UNCHANGED <<todo, due>> /\ Nil \in Regulators
    BY <1>2, <1>7 DEF Regulators
  <2>2. \A y \in own : state'[y] = "held" /\ regulator[p].pid = y => ~regulator[p].held
    BY <1>1, <1>3, VisibleNext DEF ConvTypeOK
  <2> QED BY <1>2, <1>5, <2>1, <2>2, RegulatorMoves
<1>8. CASE p \in Entries \ clients
  <2> DEFINE s == todo[p]
             r == todo'[p]
             q == Stop(p)
  <2>1. /\ todo \in [Threads -> Seq(Steps)] /\ p \in Threads /\ s \in Seq(Steps) /\ InOrder(s)
        /\ ~Ahead(s, Marks)
    <3>1. todo \in [Threads -> Seq(Steps)] /\ p \in Threads
      BY <1>1, ThreadsAre DEF ConvTypeOK
    <3> QED BY <1>1, <1>2, <3>1 DEF Workers
  <2>2. q \in Seq(Killings)
    <3>1. title[p] # Nil /\ title \in [Plays -> Titles \cup {Nil}]
      BY <1>1, <1>8, EntriesAreMade DEF ConvTypeOK
    <3> QED BY <3>1, StopIs
  <2>3. todo' = [todo EXCEPT ![p] = s \o q]
    BY <1>2, <1>8
  <2> HIDE DEF q
  <2>4. r = s \o q
    BY <2>1, <2>3
  <2>5. r \in Seq(Steps) /\ InOrder(r) /\ ~Ahead(r, Launches) /\ ~Ahead(r, Marks)
    BY <2>1, <2>2, <2>4, AppendedIs
  <2> HIDE DEF s
  <2>6. todo' \in [Threads -> Seq(Steps)] /\ \A u \in Threads : u # p => todo'[u] = todo[u]
    BY <2>1, <2>3, <2>4, <2>5
  <2> HIDE DEF r
  <2>7. regulator' \in [Plays -> Regulators] /\ due' = due /\ due' \subseteq Plays
    BY <1>1, <1>2 DEF ConvTypeOK, Regulators
  <2>8. ConvTypeOK'
    BY <1>1, <1>5, <2>6, <2>7, QuietTypes
  <2>9. Unmade'
    <3>1. \A x \in Plays : title[x] = Nil => todo'[x] = <<>> /\ regulator'[x] = Nil
      BY <1>1, <1>2, <1>6, <2>6, ThreadsAre DEF Unmade
    <3> QED BY <1>1, <1>5, <3>1, QuietUnmade
  <2>10. Workers'
    <3>1. ASSUME NEW x \in Plays
          PROVE  /\ InOrder(todo'[x])
                 /\ Ahead(todo'[x], Launches) => Ahead(todo[x], Launches)
                 /\ Ahead(todo'[x], Marks) => Ahead(todo[x], Marks)
      <4>1. CASE x = p
        BY <2>5, <4>1 DEF r
      <4>2. CASE x # p
        BY <1>1, <2>6, <4>2, ThreadsAre DEF Workers
      <4> QED BY <4>1, <4>2
    <3>2. \A x \in Plays : regulator[x] = Nil => regulator'[x] = Nil
      BY <1>6
    <3> QED BY <1>1, <1>5, <3>1, <3>2, QuietWorkers
  <2>11. HeldIsReleased'
    <3>1. own' = own /\ own \subseteq Plays
      BY <1>1, <1>2 DEF plays, ConvTypeOK
    <3> SUFFICES ASSUME NEW y \in own, state'[y] = "held"
                 PROVE  \E x \in Plays : regulator'[x] # Nil /\ regulator'[x].pid = y /\ regulator'[x].held
      BY <3>1 DEF HeldIsReleased
    <3>2. y \in Held' /\ state[y] = "held"
      BY <1>3, <3>1, EasingIs, VisibleIs, VisibleNext
    <3>3. PICK x \in Plays : regulator[x] # Nil /\ regulator[x].pid = y /\ regulator[x].held
      BY <1>1, <3>2 DEF HeldIsReleased
    <3>4. x # p
      BY <1>3, <3>2, <3>3
    <3> QED BY <1>6, <3>3, <3>4
  <2>12. Stops'
    <3>1. todo'[Stopper] = todo[Stopper]
      BY <2>6, ThreadsAre
    <3> QED BY <1>1, <1>5, <2>7, <3>1, DueKept
  <2> QED BY <2>8, <2>9, <2>10, <2>11, <2>12 DEF ConvInv
<1> QED BY <1>7, <1>8

LEMMA RegulatingSteps == ASSUME ConvInv, NEW p \in Plays, Regulating(p) PROVE ConvInv'
BY RegulatorStartsStep, SuspendStep, ResumeStep, ResyncStep, RegulatorEndsStep DEF Regulating

(***************************************************************************)
(* Claims, stops, restarts and answers.                                    *)
(***************************************************************************)
LEMMA ClaimStep == ASSUME ConvInv, NEW p \in Plays, Claim(p) PROVE ConvInv'
<1>1. ConvTypeOK /\ Unmade /\ Workers /\ Stops /\ HeldIsReleased
  BY DEF ConvInv
<1>2. PICK k \in Titles :
        /\ title[p] = Nil /\ title' = [title EXCEPT ![p] = k] /\ gen' = p /\ own' = own \cup {p}
        /\ todo' = [todo EXCEPT ![p] = <<Step("commit", k)>>]
        /\ UNCHANGED <<processes, server, files, bounds, due>>
  BY DEF Claim
<1> DEFINE x == Step("commit", k)
           q == <<x>>
<1>3. /\ state' = state /\ doomed' = doomed /\ clients' = clients /\ registry' = registry /\ lock' = lock
      /\ regulator' = regulator /\ files' = files
      /\ stops' = stops /\ restarts' = restarts /\ due' = due
  BY <1>2 DEF processes, server, bounds
<1>4. state[p] = "none" /\ regulator[p] = Nil /\ p \notin Entries
  BY <1>1, <1>2 DEF Unmade
<1>5. /\ title' \in [Plays -> Titles \cup {Nil}]
      /\ \A u \in Plays : title'[u] = IF u = p THEN k ELSE title[u]
      /\ k # Nil
  BY <1>1, <1>2, NilIs DEF ConvTypeOK
<1>6. Entries' = Entries /\ Names' = Names
  <2>1. Entries' = Entries /\ Entries \subseteq Plays
    BY <1>1, <1>3, EntriesArePlays DEF Entries, ConvTypeOK
  <2>2. \A u \in Entries : title'[u] = title[u]
    BY <1>4, <1>5, <2>1
  <2> QED BY <2>1, <2>2 DEF Names
<1>7. Steps \subseteq Steps'
  <2>1. Made \subseteq Made'
    BY <1>2, <1>5 DEF Made
  <2> QED BY <2>1 DEF Steps
<1>8. x \in Steps' /\ x.op = "commit"
  BY DEF Step, Steps
<1> HIDE DEF x
<1>9. q \in Seq(Steps') /\ Len(q) = 1 /\ q[1] = x
  BY <1>8
<1>10. /\ todo' \in [Threads -> Seq(Steps')] /\ todo'[p] = q
       /\ \A u \in Threads : u # p => todo'[u] = todo[u]
  <2>1. todo \in [Threads -> Seq(Steps)] /\ p \in Threads /\ todo' = [todo EXCEPT ![p] = q]
    BY <1>1, <1>2, ThreadsAre DEF ConvTypeOK, x
  <2>2. Seq(Steps) \subseteq Seq(Steps')
    BY <1>7
  <2> HIDE DEF q
  <2> QED BY <1>9, <2>1, <2>2
<1> HIDE DEF q
<1>11. ConvTypeOK'
  <2>1. gen' \in Threads /\ own' \subseteq Plays
    BY <1>1, <1>2, ThreadsAre DEF ConvTypeOK
  <2>2. stops' \in 0..MaxStops /\ restarts' \in 0..MaxRestarts
    BY <1>1, <1>3 DEF ConvTypeOK
  <2>3. state' \in [Plays -> {"none", "booting", "running", "held", "gone"}]
    BY <1>1, <1>3 DEF ConvTypeOK
  <2>4. doomed' \subseteq Held' /\ clients' \subseteq Plays /\ files' \subseteq Titles /\ due' \subseteq Plays
    BY <1>1, <1>3 DEF ConvTypeOK, Held
  <2>5. registry' \in Seq(Plays) /\ Len(registry') <= MaxTranscodes /\ lock' \in Threads
    BY <1>1, <1>3 DEF ConvTypeOK
  <2>6. regulator' \in [Plays -> [pid : Threads, held : BOOLEAN] \cup {Nil}]
    BY <1>1, <1>3 DEF ConvTypeOK
  <2> QED BY <1>5, <1>10, <2>1, <2>2, <2>3, <2>4, <2>5, <2>6 DEF ConvTypeOK
<1>12. Unmade'
  BY <1>1, <1>2, <1>3, <1>5, <1>6, <1>10, ThreadsAre DEF Unmade
<1>13. Workers'
  <2> SUFFICES ASSUME NEW u \in Plays
               PROVE  /\ InOrder(todo'[u])
                      /\ Ahead(todo'[u], Launches) => state'[u] = "none"
                      /\ Ahead(todo'[u], Marks) => regulator'[u] = Nil
    BY DEF Workers
  <2>1. CASE u = p
    <3>1. InOrder(q)
      BY <1>8, <1>9 DEF InOrder
    <3> QED BY <1>3, <1>4, <1>10, <2>1, <3>1
  <2>2. CASE u # p
    <3>1. todo'[u] = todo[u]
      BY <1>10, <2>2, ThreadsAre
    <3> QED BY <1>1, <1>3, <3>1 DEF Workers
  <2> QED BY <2>1, <2>2
<1>14. HeldIsReleased'
  BY <1>1, <1>2, <1>3, <1>4 DEF HeldIsReleased
<1>15. Stops'
  <2>1. todo'[Stopper] = todo[Stopper]
    BY <1>10, ThreadsAre
  <2>2. Visible' = Visible
    BY <1>3 DEF Visible, Held
  <2>3. \A u \in due : title'[u] = title[u]
    <3>1. p \notin due
      BY <1>1, <1>4 DEF Stops
    <3> QED BY <1>1, <1>5, <3>1 DEF ConvTypeOK
  <2> QED BY <1>1, <1>3, <1>6, <2>1, <2>2, <2>3 DEF Stops
<1> QED BY <1>11, <1>12, <1>13, <1>14, <1>15 DEF ConvInv

LEMMA StopAllInOrder == StopInOrder(StopAll)
<1> SUFFICES ASSUME NEW i \in 1..4
             PROVE  /\ StopAll[i].op \in {"known", "orphans"} => i = 2
                    /\ StopAll[i].op = "stopped" => i = 3
  BY StopAllIs DEF StopInOrder
<1>1. i = 1 \/ i = 2 \/ i = 3 \/ i = 4
  OBVIOUS
<1> QED BY <1>1, StopAllIs, StepIs

LEMMA StopEverythingStep == ASSUME ConvInv, StopEverything PROVE ConvInv'
<1>1. ConvTypeOK /\ Unmade /\ Workers /\ Stops /\ HeldIsReleased
  BY DEF ConvInv
<1>2. /\ todo[Stopper] = <<>> /\ stops < MaxStops /\ stops' = stops + 1 /\ (gen' = 0 \/ gen' = gen)
      /\ todo' = [todo EXCEPT ![Stopper] = StopAll]
      /\ UNCHANGED <<title, own, processes, server, files, restarts, due>>
  BY DEF StopEverything
<1>3. /\ title' = title /\ own' = own /\ state' = state /\ doomed' = doomed /\ clients' = clients
      /\ registry' = registry /\ lock' = lock /\ regulator' = regulator /\ files' = files
      /\ restarts' = restarts /\ due' = due
  BY <1>2 DEF processes, server
<1>4. /\ todo' \in [Threads -> Seq(Steps)] /\ todo'[Stopper] = StopAll
      /\ \A u \in Threads : u # Stopper => todo'[u] = todo[u]
  <2>1. todo \in [Threads -> Seq(Steps)] /\ Stopper \in Threads /\ StopAll \in Seq(Steps)
    BY <1>1, StopAllIs, ThreadsAre DEF ConvTypeOK
  <2> QED BY <1>2, <2>1
<1>5. ConvTypeOK'
  <2>1. title' \in [Plays -> Titles \cup {Nil}] /\ own' \subseteq Plays
    BY <1>1, <1>3 DEF ConvTypeOK
  <2>2. gen' \in Threads
    BY <1>1, <1>2, ThreadsAre DEF ConvTypeOK, Stopper
  <2>3. restarts' \in 0..MaxRestarts
    BY <1>1, <1>3 DEF ConvTypeOK
  <2>4. stops' \in 0..MaxStops
    BY <1>1, <1>2, Numbers DEF ConvTypeOK
  <2>5. state' \in [Plays -> {"none", "booting", "running", "held", "gone"}]
    BY <1>1, <1>3 DEF ConvTypeOK
  <2>6. doomed' \subseteq Held' /\ clients' \subseteq Plays /\ files' \subseteq Titles /\ due' \subseteq Plays
    BY <1>1, <1>3 DEF ConvTypeOK, Held
  <2>7. registry' \in Seq(Plays) /\ Len(registry') <= MaxTranscodes /\ lock' \in Threads
    BY <1>1, <1>3 DEF ConvTypeOK
  <2>8. regulator' \in [Plays -> [pid : Threads, held : BOOLEAN] \cup {Nil}]
    BY <1>1, <1>3 DEF ConvTypeOK
  <2>9. todo' \in [Threads -> Seq(Steps')]
    BY <1>3, <1>4, StepsKept
  <2> QED BY <2>1, <2>2, <2>3, <2>4, <2>5, <2>6, <2>7, <2>8, <2>9 DEF ConvTypeOK
<1>6. Entries' = Entries /\ Names' = Names /\ Visible' = Visible
  BY <1>3 DEF Entries, Names, Visible, Held
<1>7. Unmade'
  BY <1>1, <1>3, <1>4, <1>6, ThreadsAre DEF Unmade
<1>8. Workers'
  <2>1. \A u \in Plays : todo'[u] = todo[u]
    BY <1>4, ThreadsAre
  <2> QED BY <1>1, <1>3, <2>1 DEF Workers
<1>9. HeldIsReleased'
  BY <1>1, <1>3 DEF HeldIsReleased
<1>10. Stops'
  <2>1. ASSUME NEW p \in due \cap Visible PROVE FALSE
    <3>1. WillStop(todo[Stopper], p, title[p], Names)
      BY <1>1 DEF Stops
    <3>2. \A i \in 1..Len(todo[Stopper]) : FALSE
      BY <1>2
    <3> HIDE DEF Stopper
    <3> QED BY <3>1, <3>2 DEF WillStop
  <2> QED BY <1>1, <1>3, <1>4, <1>6, <2>1, StopAllInOrder DEF Stops
<1> QED BY <1>5, <1>7, <1>8, <1>9, <1>10 DEF ConvInv

LEMMA RestartStep == ASSUME ConvInv, Restart PROVE ConvInv'
<1>1. ConvTypeOK /\ Unmade /\ Workers /\ Stops /\ HeldIsReleased
  BY DEF ConvInv
<1>2. /\ restarts < MaxRestarts /\ restarts' = restarts + 1
      /\ gen' = 0 /\ own' = {} /\ clients' = {}
      /\ registry' = <<>> /\ lock' = 0 /\ regulator' = [p \in Plays |-> Nil]
      /\ todo' = [t \in Threads |-> IF t = Stopper THEN StopAll ELSE <<>>]
      /\ due' = {}
      /\ title' = title /\ state' = state /\ doomed' = doomed /\ files' = files
      /\ stops' = stops
  BY DEF Restart
<1>3. Stopper \in Threads /\ StopAll \in Seq(Steps) /\ <<>> \in Seq(Steps)
  BY StopAllIs, ThreadsAre
<1>4. /\ todo' \in [Threads -> Seq(Steps)] /\ todo'[Stopper] = StopAll
      /\ \A u \in Plays : todo'[u] = <<>>
  <2>1. todo' \in [Threads -> Seq(Steps)] /\ todo'[Stopper] = StopAll
    BY <1>2, <1>3
  <2> QED BY <1>2, <2>1, ThreadsAre
<1>5. ConvTypeOK'
  <2>1. title' \in [Plays -> Titles \cup {Nil}] /\ own' \subseteq Plays /\ gen' \in Threads
    BY <1>1, <1>2, ThreadsAre DEF ConvTypeOK, Stopper
  <2>3. stops' \in 0..MaxStops /\ restarts' \in 0..MaxRestarts
    BY <1>1, <1>2, Numbers DEF ConvTypeOK
  <2>4. state' \in [Plays -> {"none", "booting", "running", "held", "gone"}]
    BY <1>1, <1>2 DEF ConvTypeOK
  <2>5. doomed' \subseteq Held' /\ clients' \subseteq Plays /\ files' \subseteq Titles /\ due' \subseteq Plays
    BY <1>1, <1>2 DEF ConvTypeOK, Held
  <2>6. registry' \in Seq(Plays) /\ Len(registry') <= MaxTranscodes /\ lock' \in Threads
    <3>1. <<>> \in Seq(Plays) /\ Len(<<>>) = 0
      OBVIOUS
    <3> QED BY <1>2, <3>1, Numbers DEF Threads
  <2>7. regulator' \in [Plays -> [pid : Threads, held : BOOLEAN] \cup {Nil}]
    BY <1>2
  <2>8. todo' \in [Threads -> Seq(Steps')]
    BY <1>2, <1>4, StepsKept
  <2> QED BY <2>1, <2>3, <2>4, <2>5, <2>6, <2>7, <2>8 DEF ConvTypeOK
<1>6. Entries' = {}
  <2>1. Len(<<>>) = 0
    OBVIOUS
  <2> QED BY <1>2, <2>1 DEF Entries
<1>7. Unmade'
  BY <1>1, <1>2, <1>4, <1>6 DEF Unmade
<1>8. Workers'
  <2>1. InOrder(<<>>) /\ ~Ahead(<<>>, Launches) /\ ~Ahead(<<>>, Marks)
    BY DEF InOrder, Ahead
  <2> QED BY <1>4, <2>1 DEF Workers
<1>9. HeldIsReleased'
  BY <1>2 DEF HeldIsReleased
<1>10. Stops'
  BY <1>2, <1>4, StopAllInOrder DEF Stops
<1> QED BY <1>5, <1>7, <1>8, <1>9, <1>10 DEF ConvInv

LEMMA ConvStutter == ASSUME ConvInv, UNCHANGED convVars PROVE ConvInv'
<1>1. /\ title' = title /\ gen' = gen /\ own' = own /\ state' = state /\ doomed' = doomed
      /\ clients' = clients /\ registry' = registry /\ lock' = lock /\ regulator' = regulator
      /\ files' = files /\ todo' = todo /\ stops' = stops /\ restarts' = restarts /\ due' = due
  BY DEF convVars, plays, processes, server, bounds
<1>2. Held' = Held /\ Visible' = Visible /\ Entries' = Entries /\ Names' = Names /\ Steps' = Steps
  BY <1>1, StepsKept DEF Held, Visible, Entries, Names
<1>3. ConvTypeOK'
  BY <1>1, <1>2 DEF ConvInv, ConvTypeOK
<1>4. Unmade' /\ Workers'
  BY <1>1, <1>2 DEF ConvInv, Unmade, Workers
<1>5. HeldIsReleased'
  BY <1>1 DEF ConvInv, HeldIsReleased
<1>6. Stops'
  BY <1>1, <1>2 DEF ConvInv, Stops
<1> QED BY <1>3, <1>4, <1>5, <1>6 DEF ConvInv

(***************************************************************************)
(* Every step keeps the invariant.                                         *)
(***************************************************************************)
LEMMA ConvInvInit == ConvInit => ConvInv
<1> SUFFICES ASSUME ConvInit PROVE ConvInv
  OBVIOUS
<1>1. /\ title = [p \in Plays |-> Nil] /\ gen = 0 /\ own = {}
      /\ state = [p \in Plays |-> "none"] /\ doomed = {} /\ clients = {}
      /\ registry = <<>> /\ lock = 0 /\ regulator = [p \in Plays |-> Nil]
      /\ files = {} /\ todo = [t \in Threads |-> <<>>]
      /\ stops = 0 /\ restarts = 0 /\ due = {}
  BY DEF ConvInit
<1>2. <<>> \in Seq(Plays) /\ Len(<<>>) = 0
  OBVIOUS
<1>3. <<>> \in Seq(Steps)
  OBVIOUS
<1>4. ConvTypeOK
  <2>1. registry \in Seq(Plays) /\ Len(registry) <= MaxTranscodes /\ lock \in Threads /\ gen \in Threads
    BY <1>1, <1>2, Numbers DEF Threads
  <2>2. stops \in 0..MaxStops /\ restarts \in 0..MaxRestarts
    BY <1>1, Numbers
  <2>3. todo \in [Threads -> Seq(Steps)]
    BY <1>1, <1>3
  <2> QED BY <1>1, <2>1, <2>2, <2>3 DEF ConvTypeOK
<1>5. Entries = {}
  BY <1>1, <1>2 DEF Entries
<1>6. Unmade
  BY <1>1, <1>5, ThreadsAre DEF Unmade
<1>7. Workers
  <2>1. InOrder(<<>>) /\ ~Ahead(<<>>, Launches) /\ ~Ahead(<<>>, Marks)
    BY DEF InOrder, Ahead
  <2>2. \A p \in Plays : todo[p] = <<>>
    BY <1>1, ThreadsAre
  <2> QED BY <2>1, <2>2 DEF Workers
<1>8. Stops
  <2>1. StopInOrder(<<>>)
    BY DEF StopInOrder
  <2>2. todo[Stopper] = <<>>
    BY <1>1, ThreadsAre
  <2> QED BY <1>1, <2>1, <2>2 DEF Stops
<1>9. HeldIsReleased
  BY <1>1 DEF HeldIsReleased
<1> QED BY <1>4, <1>6, <1>7, <1>8, <1>9 DEF ConvInv

LEMMA ConvInvStep == ConvInv /\ [ConvNext]_convVars => ConvInv'
<1> SUFFICES ASSUME ConvInv, [ConvNext]_convVars PROVE ConvInv'
  OBVIOUS
<1>1. ASSUME NEW p \in Plays, Claim(p) \/ Container(p) \/ Regulating(p) \/ Beginning(p) \/ Heading(p)
      PROVE  ConvInv'
  BY <1>1, ClaimStep, ContainerSteps, RegulatingSteps, WorkingSteps
<1>2. ASSUME NEW t \in Threads, Killing(t) \/ Stopping(t) PROVE ConvInv'
  BY <1>2, KillingSteps, StoppingSteps
<1> QED BY <1>1, <1>2, StopEverythingStep, RestartStep, ConvStutter DEF ConvNext

LEMMA ConvInvariant == ConvSpec => []ConvInv
BY ConvInvInit, ConvInvStep, PTL DEF ConvSpec

(* The audio conversions' state keeps its types, the steps that each thread of
   transcode.py has before it among them: however many titles, plays, stops and restarts. *)
THEOREM ConversionsTypeCorrect == ConvSpec => []ConvTypeOK
<1>1. ConvInv => ConvTypeOK
  BY DEF ConvInv
<1> QED BY <1>1, ConvInvariant, PTL

(* When transcode_stop_all() of the stopping thread is through, nothing that ran in the
   container as it emptied the registry runs any more, unless a play has launched the
   same title since. *)
THEOREM StopsAreThrough == ConvSpec => []StopAllStops
<1>1. ConvInv => StopAllStops
  <2> SUFFICES ASSUME ConvInv, At(Stopper, "stopped"), NEW p \in due \cap Visible PROVE FALSE
    BY DEF StopAllStops
  <2>1. ConvTypeOK /\ Stops /\ Stopper \in Threads
    BY ThreadsAre DEF ConvInv
  <2> DEFINE s == todo[Stopper]
  <2>2. 1 \in 1..Len(s) /\ s[1].op = "stopped" /\ StopInOrder(s) /\ WillStop(s, p, title[p], Names)
    BY <2>1, AtIs DEF Stops
  <2> HIDE DEF s
  <2>3. Len(s) = 2
    <3>1. Len(s) = 1 + 1
      BY <2>2 DEF StopInOrder
    <3> QED BY <3>1
  <2>4. PICK i \in 1..Len(s) : \/ s[i].op \in {"known", "orphans"}
                               \/ s[i] = Step("wait", p) /\ i < Len(s) - 1
    BY <2>2 DEF WillStop
  <2>5. s[i].op \in {"known", "orphans"} => Len(s) = i + 2
    BY <2>2 DEF StopInOrder
  <2> QED BY <2>3, <2>4, <2>5
<1> QED BY <1>1, ConvInvariant, PTL

(* No conversion that this run of the server started stays suspended without a
   regulate_lead() that knows it has suspended it, where no docker command stalls. *)
THEOREM HeldConversionsHaveARegulator == ConvSpec => []HeldIsReleased
<1>1. ConvInv => HeldIsReleased
  BY DEF ConvInv
<1> QED BY <1>1, ConvInvariant, PTL

(***************************************************************************)
(* What the registry lets go of is stopped.                                *)
(*                                                                         *)
(* A stop that a thread has before it stays before it until it is its      *)
(* turn, and then ends the client; so the argument is about what leaves    *)
(* the registry.  A start takes out, of the clients that are alive, only   *)
(* the one its later stop is of, because no two entries have one title     *)
(* (OneEach): while a start makes room nobody else enters anything, and    *)
(* its own title is not in the registry any more (Holding).                *)
(***************************************************************************)
StopsOf(p) == {Step("client", p), Step("evict", p)}
OneEach == \A p, q \in Entries : title[p] = title[q] => p = q
Holding == \A t \in Plays : Ahead(todo[t], {"evict"}) =>
  lock = t /\ \A p \in Entries : title[p] # title[t]
Named == \A t \in Plays : \A i \in 1..Len(todo[t]) :
  todo[t][i].op \in {"commit", "start"} => todo[t][i].of = title[t]
Orderly == OneEach /\ Holding /\ Named
LetGoInv == ConvInv /\ Orderly /\ LetGoIsStopped

(* The sequences in their parts: what is before a thread after a step. *)
LEMMA ThenParts ==
  ASSUME ConvTypeOK, NEW t \in Threads, todo[t] # <<>>, NEW q \in Seq(Steps), Then(t, q)
  PROVE  /\ \A u \in Threads : u # t => todo'[u] = todo[u]
         /\ \A i \in 1..Len(q) : i \in 1..Len(todo'[t]) /\ todo'[t][i] = q[i]
         /\ \A i \in 1..Len(todo[t]) : i = 1 \/ \E j \in 1..Len(todo'[t]) : todo'[t][j] = todo[t][i]
         /\ \A i \in 1..Len(todo'[t]) : \/ \E j \in 1..Len(q) : todo'[t][i] = q[j]
                                        \/ \E j \in 2..Len(todo[t]) : todo'[t][i] = todo[t][j]
<1> DEFINE s == todo[t]
           r == todo'[t]
<1>1. s \in Seq(Steps) /\ s # <<>> /\ todo \in [Threads -> Seq(Steps)]
  BY DEF ConvTypeOK
<1>2. r = q \o Tail(s) /\ \A u \in Threads : u # t => todo'[u] = todo[u]
  BY <1>1, ThenTypes
<1> HIDE DEF s, r
<1>3. /\ Len(s) \in Nat /\ Len(q) \in Nat
      /\ \A i \in 1..Len(q) : i \in 1..Len(r) /\ r[i] = q[i]
      /\ \A i \in 2..Len(s) : Len(q) + i - 1 \in 1..Len(r) /\ r[Len(q) + i - 1] = s[i]
      /\ \A i \in 1..Len(r) : i > Len(q) => i - Len(q) + 1 \in 2..Len(s) /\ r[i] = s[i - Len(q) + 1]
      /\ Len(r) \in Nat
  BY <1>1, <1>2, ThenIs
<1>4. ASSUME NEW i \in 1..Len(s) PROVE i = 1 \/ \E j \in 1..Len(r) : r[j] = s[i]
  <2>1. i = 1 \/ i \in 2..Len(s)
    BY <1>3
  <2> QED BY <1>3, <2>1
<1>5. ASSUME NEW i \in 1..Len(r)
      PROVE  (\E j \in 1..Len(q) : r[i] = q[j]) \/ (\E j \in 2..Len(s) : r[i] = s[j])
  <2>1. i \in 1..Len(q) \/ i > Len(q)
    BY <1>3
  <2> QED BY <1>3, <2>1
<1> QED BY <1>2, <1>3, <1>4, <1>5 DEF s, r

LEMMA StopAheadIs ==
  /\ \A t, p : StopAhead(t, p) <=> \E i \in 1..Len(todo[t]) : todo[t][i] \in StopsOf(p)
  /\ \A t, p : StopAhead(t, p)' <=> \E i \in 1..Len(todo'[t]) : todo'[t][i] \in StopsOf(p)
BY DEF StopAhead, StopsOf

(* A thread's step keeps the property: if its first step was a stop of a client that
   is still there, that stop is before it again, and so is one of every client that
   is not in the registry any more. *)
LEMMA StopsAreKept ==
  ASSUME LetGoInv, NEW t \in Threads, todo[t] # <<>>, NEW q \in Seq(Steps), Then(t, q),
         \A p \in clients' : todo[t][1] \in StopsOf(p) => \E i \in 1..Len(q) : q[i] \in StopsOf(p),
         \A p \in clients' \ Entries' :
           p \in clients \ Entries \/ \E i \in 1..Len(q) : q[i] \in StopsOf(p)
  PROVE  LetGoIsStopped'
<1>1. ConvTypeOK /\ LetGoIsStopped
  BY DEF LetGoInv, ConvInv
<1>2. /\ \A u \in Threads : u # t => todo'[u] = todo[u]
      /\ \A i \in 1..Len(q) : i \in 1..Len(todo'[t]) /\ todo'[t][i] = q[i]
      /\ \A i \in 1..Len(todo[t]) : i = 1 \/ \E j \in 1..Len(todo'[t]) : todo'[t][j] = todo[t][i]
  BY <1>1, ThenParts
<1> SUFFICES ASSUME NEW p \in clients' \ Entries'
             PROVE  \E u \in Threads : \E i \in 1..Len(todo'[u]) : todo'[u][i] \in StopsOf(p)
  BY StopAheadIs DEF LetGoIsStopped, Threads
<1>3. CASE \E i \in 1..Len(q) : q[i] \in StopsOf(p)
  BY <1>2, <1>3
<1>4. CASE ~ \E i \in 1..Len(q) : q[i] \in StopsOf(p)
  <2>1. p \in clients \ Entries /\ todo[t][1] \notin StopsOf(p)
    BY <1>4
  <2>2. PICK u \in Threads : \E i \in 1..Len(todo[u]) : todo[u][i] \in StopsOf(p)
    BY <1>1, <2>1, StopAheadIs DEF LetGoIsStopped
  <2>3. PICK i \in 1..Len(todo[u]) : todo[u][i] \in StopsOf(p)
    BY <2>2
  <2>4. CASE u = t
    <3>1. i # 1
      BY <2>1, <2>3, <2>4
    <3> QED BY <1>2, <2>3, <2>4, <3>1
  <2>5. CASE u # t
    BY <1>2, <2>3, <2>5
  <2> QED BY <2>4, <2>5
<1> QED BY <1>3, <1>4

(* It keeps the order of the registry if it makes no entry, leaves the lock alone
   and has no launch before it that it did not have. *)
LEMMA OrderIsKept ==
  ASSUME ConvTypeOK, Orderly, NEW t \in Threads, todo[t] # <<>>, NEW q \in Seq(Steps), Then(t, q),
         title' = title, lock' = lock, Entries' \subseteq Entries,
         \A i \in 1..Len(q) : /\ q[i].op = "evict" => todo[t][1].op = "evict"
                              /\ q[i].op \in {"commit", "start"} => q[i].of = title[t]
  PROVE  Orderly'
<1>1. /\ \A u \in Threads : u # t => todo'[u] = todo[u]
      /\ \A i \in 1..Len(todo'[t]) : \/ \E j \in 1..Len(q) : todo'[t][i] = q[j]
                                     \/ \E j \in 2..Len(todo[t]) : todo'[t][i] = todo[t][j]
  BY ThenParts
<1>2. todo[t] \in Seq(Steps) /\ 1 \in 1..Len(todo[t]) /\ 2..Len(todo[t]) \subseteq 1..Len(todo[t])
  <2> DEFINE s == todo[t]
  <2>1. s \in Seq(Steps) /\ s # <<>>
    BY DEF ConvTypeOK
  <2> HIDE DEF s
  <2>2. 1 \in 1..Len(s) /\ 2..Len(s) \subseteq 1..Len(s)
    BY <2>1
  <2> QED BY <2>1, <2>2 DEF s
<1>3. OneEach'
  BY DEF Orderly, OneEach
<1>4. Holding'
  <2> SUFFICES ASSUME NEW u \in Plays, Ahead(todo'[u], {"evict"})
               PROVE  lock' = u /\ \A p \in Entries' : title'[p] # title'[u]
    BY DEF Holding, Plays
  <2>1. PICK i \in 1..Len(todo'[u]) : todo'[u][i].op = "evict"
    BY DEF Ahead
  <2>2. ASSUME u # t PROVE Ahead(todo[u], {"evict"})
    <3>1. todo'[u] = todo[u]
      BY <1>1, <2>2, ThreadsAre
    <3> QED BY <2>1, <3>1 DEF Ahead
  <2>3. ASSUME u = t PROVE Ahead(todo[t], {"evict"})
    <3>1. ASSUME \E j \in 1..Len(q) : todo'[t][i] = q[j] PROVE Ahead(todo[t], {"evict"})
      <4>1. todo[t][1].op = "evict"
        BY <2>1, <2>3, <3>1
      <4> QED BY <1>2, <4>1 DEF Ahead
    <3>2. ASSUME \E j \in 2..Len(todo[t]) : todo'[t][i] = todo[t][j]
          PROVE  Ahead(todo[t], {"evict"})
      <4>1. PICK j \in 2..Len(todo[t]) : todo[t][j].op = "evict"
        BY <2>1, <2>3, <3>2
      <4>2. j \in 1..Len(todo[t])
        BY <1>2, <4>1
      <4> QED BY <4>1, <4>2 DEF Ahead
    <3> QED BY <1>1, <2>1, <2>3, <3>1, <3>2
  <2>4. Ahead(todo[u], {"evict"})
    BY <2>2, <2>3
  <2> QED BY <2>4 DEF Orderly, Holding
<1>5. Named'
  <2> SUFFICES ASSUME NEW u \in Plays, NEW i \in 1..Len(todo'[u]),
                      todo'[u][i].op \in {"commit", "start"}
               PROVE  todo'[u][i].of = title'[u]
    BY DEF Named, Plays
  <2>1. u \in Threads
    BY ThreadsAre
  <2>2. CASE u = t /\ \E j \in 1..Len(q) : todo'[u][i] = q[j]
    BY <2>2
  <2>3. CASE u # t \/ \E j \in 2..Len(todo[t]) : todo'[u][i] = todo[t][j]
    BY <1>1, <1>2, <2>1, <2>3 DEF Orderly, Named
  <2> QED BY <1>1, <2>2, <2>3
<1> QED BY <1>3, <1>4, <1>5 DEF Orderly

(* A step that takes nothing out of the registry. *)
LEMMA PlainKeeps ==
  ASSUME LetGoInv, NEW t \in Threads, todo[t] # <<>>, NEW q \in Seq(Steps), Then(t, q),
         todo[t][1].op \notin {"client", "evict"},
         \A i \in 1..Len(q) : /\ q[i].op # "evict"
                              /\ q[i].op \in {"commit", "start"} => q[i].of = title[t],
         UNCHANGED <<plays, registry, lock>>, clients' \subseteq clients
  PROVE  Orderly' /\ LetGoIsStopped'
<1>1. ConvTypeOK /\ Orderly /\ title' = title /\ lock' = lock /\ Entries' = Entries
  BY DEF LetGoInv, ConvInv, plays, Entries
<1>2. Orderly'
  BY <1>1, OrderIsKept
<1>3. \A p : todo[t][1] \notin StopsOf(p)
  BY StepIs DEF StopsOf
<1>4. \A p \in clients' \ Entries' : p \in clients \ Entries
  BY <1>1
<1> QED BY <1>2, <1>3, <1>4, StopsAreKept

(* One that kills what a process's client is not. *)
LEMMA KillingKeeps ==
  ASSUME LetGoInv, NEW t \in Threads, NEW op \in {"find", "cont", "term", "wait", "head"}, At(t, op),
         NEW q \in Seq(Killings), Then(t, q),
         UNCHANGED <<plays, registry, lock>>, clients' \subseteq clients
  PROVE  Orderly' /\ LetGoIsStopped'
<1>1. todo[t] # <<>> /\ todo[t][1].op = op
  BY AtIs DEF LetGoInv, ConvInv
<1>2. q \in Seq(Steps) /\ \A i \in 1..Len(q) : q[i].op \notin Marks
  BY KillingsPlain
<1> QED BY <1>1, <1>2, PlainKeeps DEF Marks, Launches

LEMMA KillingsLetGo == ASSUME LetGoInv, NEW t \in Threads, Killing(t) PROVE Orderly' /\ LetGoIsStopped'
<1>0. ConvTypeOK
  BY DEF LetGoInv, ConvInv
<1>1. CASE Find(t)
  <2> DEFINE p == CtrPid(Of(t))
  <2>1. At(t, "find") /\ Continue(p) /\ (IF p = 0 THEN Done(t) ELSE Then(t, Tail(KillPid(p))))
        /\ UNCHANGED <<plays, registry, lock>>
    BY <1>1 DEF Find, server
  <2>2. p = 0 \/ p \in Plays
    BY CtrPidIs, WritersAre
  <2> HIDE DEF p
  <2>3. \E q \in Seq(Killings) : Then(t, q)
    BY <2>1, <2>2, DoneIs, NothingIs, KillPidIs
  <2>4. clients' \subseteq clients
    BY <2>1 DEF Continue, Die, Set, processes
  <2> QED BY <2>1, <2>3, <2>4, KillingKeeps
<1>2. CASE Cont(t)
  <2>1. At(t, "cont") /\ Continue(Of(t)) /\ Then(t, <<>>) /\ UNCHANGED <<plays, registry, lock>>
    BY <1>2, DoneIs DEF Cont, server
  <2>2. clients' \subseteq clients
    BY <2>1 DEF Continue, Die, Set, processes
  <2> QED BY <2>1, <2>2, NothingIs, KillingKeeps
<1>3. CASE Term(t)
  <2>1. At(t, "term") /\ Then(t, <<>>) /\ UNCHANGED <<plays, registry, lock>>
    BY <1>3, DoneIs DEF Term, server
  <2>2. clients' \subseteq clients
    BY <1>3 DEF Term, Die, Set
  <2> QED BY <2>1, <2>2, NothingIs, KillingKeeps
<1>4. CASE Wait(t)
  <2>1. At(t, "wait") /\ Then(t, <<>>) /\ UNCHANGED <<plays, registry, lock>>
    BY <1>4, DoneIs DEF Wait, server
  <2>2. clients' \subseteq clients
    BY <1>4 DEF Wait, Die, Set, processes
  <2> QED BY <2>1, <2>2, NothingIs, KillingKeeps
<1>5. CASE KillClient(t)
  <2>1. At(t, "client") /\ Then(t, <<>>) /\ clients' = clients \ {Of(t)}
        /\ title' = title /\ registry' = registry /\ lock' = lock
    BY <1>5, DoneIs DEF KillClient, server, plays
  <2>2. todo[t] # <<>> /\ todo[t][1].op = "client" /\ todo[t][1].of = Of(t)
    BY <1>0, <2>1, AtIs
  <2>3. <<>> \in Seq(Steps) /\ \A i \in 1..Len(<<>>) : FALSE
    OBVIOUS
  <2>4. Entries' = Entries /\ Orderly
    BY <2>1 DEF Entries, LetGoInv
  <2>5. Orderly'
    BY <1>0, <2>1, <2>2, <2>3, <2>4, OrderIsKept
  <2>6. \A p \in clients' : todo[t][1] \notin StopsOf(p)
    <3>1. \A p : todo[t][1] \in StopsOf(p) => p = Of(t)
      BY <2>2, StepIs DEF StopsOf
    <3> QED BY <2>1, <3>1
  <2>7. \A p \in clients' \ Entries' : p \in clients \ Entries
    BY <2>1, <2>4
  <2> QED BY <2>1, <2>2, <2>3, <2>5, <2>6, <2>7, StopsAreKept
<1> QED BY <1>1, <1>2, <1>3, <1>4, <1>5 DEF Killing

(* What Without leaves is what was not to go. *)
LEMMA WithoutLeaves ==
  ASSUME registry \in Seq(Plays), NEW ps, registry' = Without(ps)
  PROVE  Entries' = Entries \ ps
<1> DEFINE n == Len(registry)
           S == {i \in 1..Len(registry) : registry[i] \notin ps}
           e == Sorted(S)
<1>1. n \in Nat /\ S \in SUBSET Nat /\ S \subseteq 1..n
  OBVIOUS
<1>2. IsFiniteSet(S)
  <2>1. IsFiniteSet(1..n)
    <3> HIDE DEF n
    <3> QED BY <1>1, FS_Interval
  <2> QED BY <1>1, <2>1, FS_Subset
<1>3. Without(ps) = [i \in DOMAIN e |-> registry[e[i]]]
  BY DEF Without
<1>4. \A j \in S : j \in 1..n /\ registry[j] \notin ps
  OBVIOUS
<1>5. \A j \in 1..n : registry[j] \notin ps => j \in S
  OBVIOUS
<1> HIDE DEF S
<1>6. e \in Seq(S) /\ Len(e) = Cardinality(S) /\ \A x \in S : \E i \in 1..Cardinality(S) : e[i] = x
  BY <1>1, <1>2, SortedIs
<1> HIDE DEF e, n
<1>7. Len(e) \in Nat /\ DOMAIN e = 1..Len(e) /\ \A i \in 1..Len(e) : e[i] \in S
  BY <1>6, ElementOfSeq
<1> DEFINE w == [i \in 1..Len(e) |-> registry[e[i]]]
<1>8. Len(w) = Len(e) /\ \A i \in 1..Len(e) : w[i] = registry[e[i]]
  BY <1>7
<1>9. registry' = w
  BY <1>3, <1>7
<1> HIDE DEF w
<1>10. {w[i] : i \in 1..Len(w)} = {registry[j] : j \in S}
  BY <1>6, <1>7, <1>8
<1>11. {registry[j] : j \in S} = {registry[j] : j \in 1..n} \ ps
  BY <1>4, <1>5
<1> QED BY <1>9, <1>10, <1>11 DEF Entries, n

(* A stop of everything stops each entry's client. *)
LEMMA StopEachStops ==
  ASSUME NEW ps \in Seq(Plays), title \in [Plays -> Titles \cup {Nil}],
         \A i \in 1..Len(ps) : title[ps[i]] # Nil
  PROVE  \A k \in 1..Len(ps) : 2 * k \in 1..Len(StopEach(ps)) /\ StopEach(ps)[2 * k] = Step("client", ps[k])
<1> DEFINE n == Len(ps)
<1>1. n \in Nat
  OBVIOUS
<1>2. Len(StopEach(ps)) = 2 * n
  BY StopEachIs
<1> SUFFICES ASSUME NEW k \in 1..n
             PROVE  2 * k \in 1..Len(StopEach(ps)) /\ StopEach(ps)[2 * k] = Step("client", ps[k])
  OBVIOUS
<1>3. StopEach(ps) = [i \in 1..(2 * n) |-> Stop(ps[(i + 1) \div 2])[2 - (i % 2)]]
  BY DEF StopEach
<1> HIDE DEF n
<1>4. 2 * k \in 1..(2 * n) /\ (2 * k + 1) \div 2 = k /\ 2 - ((2 * k) % 2) = 2
  BY <1>1
<1>5. StopEach(ps)[2 * k] = Stop(ps[k])[2]
  BY <1>3, <1>4
<1>6. ps[k] \in Plays /\ title[ps[k]] # Nil
  BY DEF n
<1>7. Stop(ps[k]) = <<Step("find", title[ps[k]]), Step("client", ps[k])>>
  BY <1>6, StopIs
<1> QED BY <1>2, <1>4, <1>5, <1>7

LEMMA StoppingLetGo == ASSUME LetGoInv, NEW t \in Threads, Stopping(t) PROVE Orderly' /\ LetGoIsStopped'
<1>0. ConvTypeOK /\ ConvInv /\ Orderly
  BY DEF LetGoInv, ConvInv
<1>1. CASE Pop(t)
  <2> DEFINE q == StopEach(registry)
  <2>1. /\ At(t, "pop") /\ registry' = <<>> /\ Then(t, q)
        /\ title' = title /\ lock' = lock /\ clients' = clients
    BY <1>1 DEF Pop, plays, processes
  <2>2. registry \in Seq(Plays) /\ title \in [Plays -> Titles \cup {Nil}]
        /\ \A i \in 1..Len(registry) : title[registry[i]] # Nil
    BY <1>0, EntriesAreMade DEF ConvTypeOK, Entries
  <2>3. q \in Seq(Killings)
    BY <2>2, StopEachIs
  <2>4. \A k \in 1..Len(registry) : 2 * k \in 1..Len(q) /\ q[2 * k] = Step("client", registry[k])
    BY <2>2, StopEachStops
  <2> HIDE DEF q
  <2>5. q \in Seq(Steps) /\ \A i \in 1..Len(q) : q[i].op \notin Marks
    BY <2>3, KillingsPlain
  <2>6. todo[t] # <<>> /\ todo[t][1].op = "pop"
    BY <1>0, <2>1, AtIs
  <2>7. Entries' = {}
    <3>1. Len(<<>>) = 0
      OBVIOUS
    <3> QED BY <2>1, <3>1 DEF Entries
  <2>8. Orderly'
    BY <1>0, <2>1, <2>5, <2>6, <2>7, OrderIsKept DEF Marks, Launches
  <2>9. \A p : todo[t][1] \notin StopsOf(p)
    BY <2>6, StepIs DEF StopsOf
  <2>10. \A p \in Entries : \E i \in 1..Len(q) : q[i] \in StopsOf(p)
    BY <2>4 DEF Entries, StopsOf
  <2> QED BY <2>1, <2>5, <2>6, <2>8, <2>9, <2>10, StopsAreKept
<1>2. ASSUME NEW op \in {"known", "stopped", "list", "remove"}, At(t, op),
             \/ \E x \in Steps : x.op \in {"orphans", "remove"} /\ Then(t, <<x>>)
             \/ Then(t, <<>>),
             UNCHANGED <<plays, processes, server>>
      PROVE  Orderly' /\ LetGoIsStopped'
  <2>1. todo[t] # <<>> /\ todo[t][1].op = op
    BY <1>0, <1>2, AtIs
  <2>2. UNCHANGED <<plays, registry, lock>> /\ clients' \subseteq clients
    BY <1>2 DEF server, processes
  <2>3. CASE Then(t, <<>>)
    <3>1. <<>> \in Seq(Steps) /\ \A i \in 1..Len(<<>>) : FALSE
      OBVIOUS
    <3> QED BY <2>1, <2>2, <2>3, <3>1, PlainKeeps
  <2>4. ASSUME NEW x \in Steps, x.op \in {"orphans", "remove"}, Then(t, <<x>>)
        PROVE  Orderly' /\ LetGoIsStopped'
    <3> DEFINE q == <<x>>
    <3>1. q \in Seq(Steps) /\ \A i \in 1..Len(q) : q[i] = x
      BY OneStep
    <3>2. Then(t, q)
      BY <2>4
    <3> HIDE DEF q
    <3> QED BY <2>1, <2>2, <2>4, <3>1, <3>2, PlainKeeps
  <2> QED BY <1>2, <2>3, <2>4
<1>3. CASE Known(t)
  <2>1. Step("orphans", Names) \in Steps /\ Step("orphans", Names).op = "orphans"
    BY <1>0, EntriesAreMade DEF Step, Steps
  <2> QED BY <1>2, <1>3, <2>1 DEF Known
<1>4. CASE KillOrphans(t)
  <2> DEFINE o == Orphans(Of(t))
             e == Sorted(o)
             q == KillEach(e)
  <2>1. At(t, "orphans") /\ Then(t, q) /\ UNCHANGED <<plays, registry, lock>> /\ clients' = clients
    BY <1>4 DEF KillOrphans, server, processes
  <2>2. o \in SUBSET Nat /\ o \subseteq Plays /\ IsFiniteSet(o)
    BY <1>0, OrphansAre
  <2> HIDE DEF o
  <2>3. e \in Seq(o)
    BY <2>2, SortedIs
  <2> HIDE DEF e
  <2>4. e \in Seq(Plays)
    <3>1. e \in Seq(o) /\ o \subseteq Plays
      BY <2>2, <2>3
    <3> QED BY <3>1
  <2>5. q \in Seq(Killings)
    BY <2>4, KillEachIs
  <2> HIDE DEF q
  <2>6. q \in Seq(Steps) /\ \A i \in 1..Len(q) : q[i].op \notin Marks
    BY <2>5, KillingsPlain
  <2>7. todo[t] # <<>> /\ todo[t][1].op = "orphans"
    BY <1>0, <2>1, AtIs
  <2> QED BY <2>1, <2>6, <2>7, PlainKeeps DEF Marks, Launches
<1>5. CASE Stopped(t)
  <2>1. Step("orphans", {}) \in Steps
    BY DEF Step, Steps
  <2> QED BY <1>2, <1>5, <2>1, DoneIs DEF Stopped
<1>6. CASE List(t)
  <2> DEFINE x == Step("remove", files \ (Names \cup {Of(t)}))
  <2>1. x \in Steps /\ x.op = "remove"
    BY <1>0 DEF Step, Steps, ConvTypeOK
  <2> QED BY <1>2, <1>6, <2>1 DEF List
<1>7. CASE RemoveListed(t)
  <2>1. Step("orphans", {}) \in Steps
    BY DEF Step, Steps
  <2> QED BY <1>2, <1>7, <2>1, DoneIs DEF RemoveListed
<1> QED BY <1>1, <1>3, <1>4, <1>5, <1>6, <1>7 DEF Stopping

LEMMA CommitLetGo == ASSUME LetGoInv, NEW t \in Plays, Commit(t) PROVE Orderly' /\ LetGoIsStopped'
<1>0. ConvTypeOK /\ Orderly /\ t \in Threads
  BY ThreadsAre DEF LetGoInv, ConvInv
<1>1. /\ At(t, "commit") /\ UNCHANGED <<plays, registry, lock>> /\ clients' = clients
      /\ Then(t, <<>>) \/ Then(t, StopAll \o BeginSteps(Of(t))) \/ Then(t, StopAll)
  BY DEF Commit, Done, server, processes
<1>2. todo[t] # <<>> /\ 1 \in 1..Len(todo[t]) /\ todo[t][1].op = "commit" /\ todo[t][1].of = Of(t)
      /\ todo[t][1] \in Steps
  BY <1>0, <1>1, AtIs
<1>3. Of(t) \in Titles /\ Of(t) = title[t]
  BY <1>0, <1>2, StepTypes DEF Orderly, Named
<1>4. CASE Then(t, <<>>)
  <2>1. <<>> \in Seq(Steps) /\ \A i \in 1..Len(<<>>) : FALSE
    OBVIOUS
  <2> QED BY <1>0, <1>1, <1>2, <1>4, <2>1, PlainKeeps
<1>5. CASE Then(t, StopAll)
  BY <1>0, <1>1, <1>2, <1>5, StopAllIs, StopAllPlain, PlainKeeps DEF Marks, Launches
<1>6. CASE Then(t, StopAll \o BeginSteps(Of(t)))
  <2> DEFINE q == StopAll \o BeginSteps(Of(t))
  <2>1. q \in Seq(Steps) /\ Len(q) = 9 /\ (\A i \in 1..7 : q[i].op \notin Marks)
        /\ q[8].op = "start" /\ q[8].of = Of(t) /\ q[9].op = "head"
    BY <1>3, BeginIs
  <2>2. Then(t, q)
    BY <1>6
  <2> HIDE DEF q
  <2>3. ASSUME NEW i \in 1..Len(q)
        PROVE  q[i].op # "evict" /\ (q[i].op \in {"commit", "start"} => q[i].of = title[t])
    <3>1. i \in 1..7 \/ i = 8 \/ i = 9
      BY <2>1
    <3> QED BY <1>3, <2>1, <3>1 DEF Marks, Launches
  <2> QED BY <1>0, <1>1, <1>2, <2>1, <2>2, <2>3, PlainKeeps
<1> QED BY <1>1, <1>4, <1>5, <1>6

(* transcode_start() begins: the entry of its own title is the one it will stop. *)
LEMMA StartLetGo == ASSUME LetGoInv, NEW t \in Plays, Start(t) PROVE Orderly' /\ LetGoIsStopped'
<1>0. ConvTypeOK /\ Orderly /\ t \in Threads /\ t # 0
  BY ThreadsAre DEF LetGoInv, ConvInv, Stopper
<1> DEFINE gone == {p \in Plays : title[p] = Of(t) \/ p \notin clients}
           x == Step("evict", Entry(Of(t)))
           q == <<x>>
<1>1. /\ At(t, "start") /\ lock = 0 /\ lock' = t /\ registry' = Without(gone) /\ Then(t, q)
      /\ title' = title /\ clients' = clients
  BY DEF Start, plays, processes
<1>2. todo[t] # <<>> /\ 1 \in 1..Len(todo[t]) /\ todo[t][1].op = "start" /\ todo[t][1].of = Of(t)
  BY <1>0, <1>1, AtIs
<1>3. Of(t) = title[t]
  BY <1>0, <1>2 DEF Orderly, Named
<1>4. Entries' = Entries \ gone
  BY <1>0, <1>1, WithoutLeaves DEF ConvTypeOK
<1>5. x \in Steps /\ x.op = "evict"
  <2>1. Entry(Of(t)) \in {0} \cup Made
    BY EntryIs, EntriesAreMade DEF Made, LetGoInv
  <2> QED BY <2>1 DEF Step, Steps
<1>6. \A p \in Entries : title[p] = Of(t) => x = Step("evict", p)
  <2> SUFFICES ASSUME NEW p \in Entries, title[p] = Of(t) PROVE Entry(Of(t)) = p
    OBVIOUS
  <2>1. Entry(Of(t)) \in Entries /\ title[Entry(Of(t))] = Of(t)
    BY DEF Entry
  <2> QED BY <1>0, <2>1 DEF Orderly, OneEach
<1> HIDE DEF x
<1>7. q \in Seq(Steps) /\ 1 \in 1..Len(q) /\ q[1] = x /\ \A i \in 1..Len(q) : q[i] = x
  BY <1>5, OneStep
<1> HIDE DEF q
<1>8. LetGoIsStopped'
  <2>1. \A p : todo[t][1] \notin StopsOf(p)
    BY <1>2, StepIs DEF StopsOf
  <2>2. ASSUME NEW p \in clients' \ Entries'
        PROVE  p \in clients \ Entries \/ \E i \in 1..Len(q) : q[i] \in StopsOf(p)
    <3>1. p \in Entries => title[p] = Of(t)
      BY <1>1, <1>4, <2>2 DEF gone
    <3> QED BY <1>1, <1>6, <1>7, <2>2, <3>1 DEF StopsOf
  <2> QED BY <1>0, <1>1, <1>2, <1>7, <2>1, <2>2, StopsAreKept
<1>9. OneEach'
  BY <1>0, <1>1, <1>4 DEF Orderly, OneEach
<1>10. \A u \in Plays : u # t => todo'[u] = todo[u] /\ ~Ahead(todo[u], {"evict"})
  <2>1. \A u \in Threads : u # t => todo'[u] = todo[u]
    BY <1>0, <1>1, <1>2, <1>7, ThenParts
  <2>2. \A u \in Plays : lock # u
    BY <1>1, ThreadsAre DEF Stopper
  <2> QED BY <1>0, <2>1, <2>2, ThreadsAre DEF Orderly, Holding
<1>11. Holding'
  <2>1. \A p \in Entries' : p \in Plays /\ title[p] # title[t]
    BY <1>3, <1>4, EntriesAreMade DEF gone, LetGoInv
  <2> QED BY <1>1, <1>10, <2>1 DEF Holding, Plays
<1>12. Named'
  <2> SUFFICES ASSUME NEW u \in Plays, NEW i \in 1..Len(todo'[u]),
                      todo'[u][i].op \in {"commit", "start"}
               PROVE  todo'[u][i].of = title'[u]
    BY DEF Named, Plays
  <2>1. CASE u # t
    BY <1>0, <1>1, <1>10, <2>1 DEF Orderly, Named
  <2>2. CASE u = t
    <3>1. (\E j \in 1..Len(q) : todo'[t][i] = q[j]) \/ (\E j \in 2..Len(todo[t]) : todo'[t][i] = todo[t][j])
      BY <1>0, <1>1, <1>2, <1>7, <2>2, ThenParts
    <3>2. PICK j \in 2..Len(todo[t]) : todo'[t][i] = todo[t][j]
      BY <1>5, <1>7, <2>2, <3>1
    <3>3. Len(todo[t]) \in Nat
      BY <1>0 DEF ConvTypeOK
    <3>4. j \in 1..Len(todo[t])
      BY <3>3
    <3> QED BY <1>0, <1>1, <2>2, <3>2, <3>4 DEF Orderly, Named
  <2> QED BY <2>1, <2>2
<1> QED BY <1>8, <1>9, <1>11, <1>12 DEF Orderly

(* It makes room: the oldest leaves, and is stopped before anything else. *)
LEMMA EvictLetGo == ASSUME LetGoInv, NEW t \in Plays, Evict(t) PROVE Orderly' /\ LetGoIsStopped'
<1>0. ConvTypeOK /\ ConvInv /\ Orderly /\ t \in Threads
  BY ThreadsAre DEF LetGoInv, ConvInv
<1> DEFINE o == Head(registry)
           a == Stop(o)
           x == Head(todo[t])
           b == <<x>>
           q == a \o b
<1>1. /\ At(t, "evict") /\ Full /\ registry' = Tail(registry) /\ Then(t, q)
      /\ title' = title /\ lock' = lock /\ clients' = clients
  BY DEF Evict, plays, processes
<1>2. todo[t] # <<>> /\ todo[t][1] = x /\ x \in Steps /\ x.op = "evict"
  BY <1>0, <1>1, AtIs
<1>3. o \in Entries /\ Entries' \subseteq Entries /\ (\A p \in Entries : p = o \/ p \in Entries')
  <2>1. o \in Entries /\ Entries' \subseteq Entries
    BY <1>0, <1>1, OldestIs DEF Entries
  <2>2. registry \in Seq(Plays) /\ registry # <<>>
    BY <1>0, <1>1, OldestIs DEF ConvTypeOK
  <2>3. /\ Len(Tail(registry)) = Len(registry) - 1 /\ Len(registry) \in Nat /\ o = registry[1]
        /\ \A i \in 1..Len(Tail(registry)) : Tail(registry)[i] = registry[i + 1]
    BY <2>2, HeadTailProperties
  <2> DEFINE u == Tail(registry)
             n == Len(registry)
  <2>4. /\ Len(u) = n - 1 /\ n \in Nat /\ \A i \in 1..Len(u) : u[i] = registry[i + 1]
        /\ registry' = u
    BY <1>1, <2>3
  <2> HIDE DEF u, o, n
  <2>5. ASSUME NEW i \in 1..n, i # 1 PROVE registry[i] \in Entries'
    <3>1. i - 1 \in 1..Len(u) /\ (i - 1) + 1 = i
      BY <2>4, <2>5
    <3>2. u[i - 1] = registry[i]
      BY <2>4, <3>1
    <3>3. Entries' = {u[j] : j \in 1..Len(u)}
      BY <2>4 DEF Entries
    <3> QED BY <3>1, <3>2, <3>3
  <2>6. o = registry[1] /\ n \in Nat /\ Entries = {registry[i] : i \in 1..n}
    BY <2>3 DEF Entries, n
  <2>7. \A p \in Entries : p = o \/ p \in Entries'
    BY <2>5, <2>6
  <2> QED BY <2>1, <2>7
<1>4. a = <<Step("find", title[o]), Step("client", o)>> /\ a \in Seq(Killings)
  <2>1. o \in Plays /\ title[o] # Nil /\ title \in [Plays -> Titles \cup {Nil}]
    BY <1>0, <1>3, EntriesAreMade DEF ConvTypeOK
  <2> HIDE DEF o
  <2> QED BY <2>1, StopIs
<1>5. Len(a) = 2 /\ a[2] = Step("client", o)
  BY <1>4
<1> HIDE DEF a, o, x
<1>6. a \in Seq(Steps) /\ \A i \in 1..Len(a) : a[i].op \notin Marks
  BY <1>4, KillingsPlain
<1>7. b \in Seq(Steps) /\ Len(b) = 1 /\ b[1] = x
  BY <1>2, OneStep
<1> HIDE DEF b
<1>8. /\ q \in Seq(Steps) /\ Len(q) = 3 /\ q[2] = a[2] /\ q[3] = x
      /\ \A i \in 1..2 : q[i] = a[i]
  <2>1. /\ q \in Seq(Steps) /\ Len(q) = Len(a) + Len(b)
        /\ \A i \in 1..Len(a) + Len(b) : q[i] = IF i <= Len(a) THEN a[i] ELSE b[i - Len(a)]
    BY <1>6, <1>7, ConcatProperties
  <2> HIDE DEF q
  <2> QED BY <1>5, <1>7, <2>1
<1> HIDE DEF q
<1>9. ASSUME NEW i \in 1..Len(q)
      PROVE  (q[i].op = "evict" => todo[t][1].op = "evict") /\ q[i].op \notin {"commit", "start"}
  <2>1. i \in 1..2 \/ i = 3
    BY <1>8
  <2>2. CASE i \in 1..2
    <3>1. i \in 1..Len(a) /\ q[i] = a[i]
      BY <1>5, <1>8, <2>2
    <3> QED BY <1>6, <3>1 DEF Marks, Launches
  <2> QED BY <1>2, <1>8, <2>1, <2>2
<1>10. Orderly'
  BY <1>0, <1>1, <1>2, <1>3, <1>8, <1>9, OrderIsKept
<1>11. 2 \in 1..Len(q) /\ 3 \in 1..Len(q)
  BY <1>8
<1>12. \A p \in clients' : todo[t][1] \in StopsOf(p) => \E i \in 1..Len(q) : q[i] \in StopsOf(p)
  BY <1>2, <1>8, <1>11
<1>13. \A p \in clients' \ Entries' : p \in clients \ Entries \/ \E i \in 1..Len(q) : q[i] \in StopsOf(p)
  BY <1>1, <1>3, <1>5, <1>8, <1>11 DEF StopsOf
<1> QED BY <1>0, <1>1, <1>2, <1>8, <1>10, <1>12, <1>13, StopsAreKept

(* It launches: the stop it has held back is before it. *)
LEMMA LaunchLetGo == ASSUME LetGoInv, NEW t \in Plays, Launch(t) PROVE Orderly' /\ LetGoIsStopped'
<1>0. /\ ConvTypeOK /\ Orderly /\ t \in Threads /\ InOrder(todo[t])
      /\ title \in [Plays -> Titles \cup {Nil}] /\ registry \in Seq(Plays)
  BY ThreadsAre DEF LetGoInv, ConvInv, Workers, ConvTypeOK
<1> DEFINE q == IF Of(t) = 0 THEN <<>> ELSE Stop(Of(t))
           s == todo[t]
           r == todo'[t]
<1>1. /\ At(t, "evict") /\ clients' = clients \cup {t} /\ registry' = Append(registry, t)
      /\ lock' = 0 /\ Then(t, q) /\ title' = title
  BY DEF Launch, plays
<1>2. s # <<>> /\ 1 \in 1..Len(s) /\ s[1].op = "evict" /\ s[1].of = Of(t) /\ s[1] \in Steps /\ Len(s) \in Nat
      /\ s \in Seq(Steps)
  BY <1>0, <1>1, AtIs
<1>3. q \in Seq(Killings) /\ (Of(t) # 0 => \E i \in 1..Len(q) : q[i] = Step("client", Of(t)))
  <2>1. Of(t) \in {0} \cup Made
    BY <1>0, <1>2, StepTypes
  <2>2. CASE Of(t) = 0
    BY <2>2, NothingIs
  <2>3. CASE Of(t) # 0
    <3>1. Of(t) \in Plays /\ title[Of(t)] # Nil
      BY <2>1, <2>3 DEF Made
    <3> DEFINE p == Of(t)
               a == Stop(p)
    <3>2. a = <<Step("find", title[p]), Step("client", p)>> /\ a \in Seq(Killings)
      BY <1>0, <3>1, StopIs
    <3>3. q = a
      BY <2>3
    <3> HIDE DEF a, p, q
    <3>4. 2 \in 1..Len(a) /\ a[2] = Step("client", p)
      BY <3>2
    <3> QED BY <3>2, <3>3, <3>4 DEF p
  <2> QED BY <2>2, <2>3
<1> HIDE DEF q
<1>4. q \in Seq(Steps) /\ \A i \in 1..Len(q) : q[i].op \notin Marks
  BY <1>3, KillingsPlain
<1>5. Entries' = Entries \cup {t}
  <2> DEFINE n == Append(registry, t)
  <2>1. /\ Len(n) = Len(registry) + 1 /\ Len(registry) \in Nat
        /\ \A i \in 1..Len(registry) : n[i] = registry[i]
        /\ n[Len(registry) + 1] = t
    BY <1>0, AppendProperties
  <2> HIDE DEF n
  <2>2. 1..Len(n) = (1..Len(registry)) \cup {Len(registry) + 1}
    BY <2>1
  <2>3. {n[i] : i \in 1..Len(n)} = {registry[i] : i \in 1..Len(registry)} \cup {t}
    BY <2>1, <2>2
  <2>4. registry' = n
    BY <1>1 DEF n
  <2> QED BY <2>3, <2>4 DEF Entries
<1>6. LetGoIsStopped'
  <2>1. \A p \in clients' : todo[t][1] \in StopsOf(p) => \E i \in 1..Len(q) : q[i] \in StopsOf(p)
    <3> SUFFICES ASSUME NEW p \in clients', todo[t][1] \in StopsOf(p)
                 PROVE  \E i \in 1..Len(q) : q[i] \in StopsOf(p)
      OBVIOUS
    <3>1. p = Of(t)
      BY <1>2, StepIs DEF StopsOf
    <3>2. p # 0
      BY <1>0, <1>1, ThreadsAre DEF ConvTypeOK, Stopper
    <3> QED BY <1>3, <3>1, <3>2 DEF StopsOf
  <2>2. \A p \in clients' \ Entries' : p \in clients \ Entries
    BY <1>1, <1>5
  <2> QED BY <1>0, <1>1, <1>2, <1>4, <2>1, <2>2, StopsAreKept
<1>7. lock = t /\ \A p \in Entries : title[p] # title[t]
  BY <1>0, <1>2 DEF Orderly, Holding, Ahead
<1>8. OneEach'
  BY <1>0, <1>1, <1>5, <1>7 DEF Orderly, OneEach
<1>9. /\ \A u \in Threads : u # t => todo'[u] = todo[u]
      /\ \A i \in 1..Len(r) : (\E j \in 1..Len(q) : r[i] = q[j]) \/ (\E j \in 2..Len(s) : r[i] = s[j])
  BY <1>0, <1>1, <1>2, <1>4, ThenParts
<1> HIDE DEF s, r
<1>10. \A j \in 2..Len(s) : s[j].op \notin {"commit", "start", "evict"}
  <2> SUFFICES ASSUME NEW j \in 2..Len(s), s[j].op \in {"commit", "start", "evict"} PROVE FALSE
    OBVIOUS
  <2>1. j \in 1..Len(s) /\ j # 1
    BY <1>2
  <2>2. InOrder(s)
    BY <1>0 DEF s
  <2>3. Len(s) = 1 \/ Len(s) = j + 1
    BY <2>1, <2>2 DEF InOrder
  <2>4. Len(s) = 1 + 1
    BY <1>2, <2>2 DEF InOrder
  <2> QED BY <1>2, <2>1, <2>3, <2>4
<1>11. \A i \in 1..Len(r) : r[i].op \notin {"commit", "start", "evict"}
  BY <1>4, <1>9, <1>10 DEF Marks, Launches
<1>12. Holding'
  <2>1. \A u \in Plays : ~Ahead(todo'[u], {"evict"})
    <3>1. ~Ahead(r, {"evict"})
      BY <1>11 DEF Ahead
    <3>2. \A u \in Plays : u # t => ~Ahead(todo[u], {"evict"}) /\ todo'[u] = todo[u]
      BY <1>0, <1>7, <1>9, ThreadsAre DEF Orderly, Holding
    <3> QED BY <3>1, <3>2 DEF r
  <2> QED BY <2>1 DEF Holding, Plays
<1>13. Named'
  <2> SUFFICES ASSUME NEW u \in Plays, NEW i \in 1..Len(todo'[u]),
                      todo'[u][i].op \in {"commit", "start"}
               PROVE  todo'[u][i].of = title'[u]
    BY DEF Named, Plays
  <2>1. u # t /\ todo'[u] = todo[u]
    BY <1>9, <1>11, ThreadsAre DEF r
  <2> QED BY <1>0, <1>1, <2>1 DEF Orderly, Named
<1> QED BY <1>6, <1>8, <1>12, <1>13 DEF Orderly

LEMMA BeginningLetGo == ASSUME LetGoInv, NEW t \in Plays, Beginning(t) PROVE Orderly' /\ LetGoIsStopped'
<1>1. CASE Unlink(t)
  <2>1. At(t, "unlink") /\ Then(t, <<>>) /\ UNCHANGED <<plays, registry, lock>> /\ clients' = clients
    BY <1>1, DoneIs DEF Unlink, server, processes
  <2>2. t \in Threads /\ ConvTypeOK
    BY ThreadsAre DEF LetGoInv, ConvInv
  <2>3. todo[t] # <<>> /\ todo[t][1].op = "unlink"
    BY <2>1, <2>2, AtIs
  <2>4. <<>> \in Seq(Steps) /\ \A i \in 1..Len(<<>>) : FALSE
    OBVIOUS
  <2> QED BY <2>1, <2>2, <2>3, <2>4, PlainKeeps
<1> QED BY <1>1, CommitLetGo, StartLetGo, EvictLetGo, LaunchLetGo DEF Beginning

LEMMA HeadingLetGo == ASSUME LetGoInv, NEW t \in Plays, Heading(t) PROVE Orderly' /\ LetGoIsStopped'
<1>0. ConvTypeOK /\ ConvInv /\ Orderly /\ t \in Threads
  BY ThreadsAre DEF LetGoInv, ConvInv
<1>1. ASSUME At(t, "head") PROVE todo[t] # <<>> /\ todo[t][1].op = "head" /\ title[t] # Nil
  BY <1>0, <1>1, AtIs, BusyIsMade
<1>2. CASE Superseded(t)
  <2>1. At(t, "head") /\ Then(t, Stop(t)) /\ UNCHANGED <<plays, registry, lock>> /\ clients' = clients
    BY <1>2 DEF Superseded, server, processes
  <2>2. Stop(t) \in Seq(Killings)
    BY <1>0, <1>1, <2>1, StopIs DEF ConvTypeOK
  <2> QED BY <1>0, <2>1, <2>2, KillingKeeps
<1>3. CASE Ready(t) \/ Finished(t)
  <2>1. At(t, "head") /\ Then(t, <<>>) /\ UNCHANGED <<plays, registry, lock>> /\ clients' = clients
    BY <1>3, DoneIs DEF Ready, Finished, server, processes
  <2> QED BY <1>0, <2>1, NothingIs, KillingKeeps
<1>4. CASE GiveUp(t)
  <2> DEFINE e == Entry(title[t])
             v == IF e = 0 THEN t ELSE e
             q == Stop(v)
  <2>1. /\ At(t, "head") /\ registry' = Without({e}) /\ Then(t, q)
        /\ title' = title /\ lock' = lock /\ clients' = clients
    BY <1>4 DEF GiveUp, plays, processes
  <2>2. todo[t] # <<>> /\ todo[t][1].op = "head" /\ title[t] # Nil
    BY <1>1, <2>1
  <2>3. v \in Plays /\ title[v] # Nil /\ title \in [Plays -> Titles \cup {Nil}]
    BY <1>0, <2>2, EntryIs, EntriesAreMade DEF ConvTypeOK
  <2>4. Entries' = Entries \ {e}
    <3> HIDE DEF e
    <3> QED BY <1>0, <2>1, WithoutLeaves DEF ConvTypeOK
  <2>5. 0 \notin Entries
    BY <1>0, EntriesAreMade, ThreadsAre DEF Stopper
  <2>6. \A p \in Entries \ Entries' : p = v
    BY <2>4, <2>5
  <2> HIDE DEF e, v
  <2>7. q \in Seq(Killings) /\ 2 \in 1..Len(q) /\ q[2] = Step("client", v)
    <3>1. q = <<Step("find", title[v]), Step("client", v)>> /\ q \in Seq(Killings)
      BY <2>3, StopIs
    <3> QED BY <3>1
  <2> HIDE DEF q
  <2>8. q \in Seq(Steps) /\ \A i \in 1..Len(q) : q[i].op \notin Marks
    BY <2>7, KillingsPlain
  <2>9. Orderly'
    BY <1>0, <2>1, <2>2, <2>4, <2>8, OrderIsKept DEF Marks, Launches
  <2>10. \A p : todo[t][1] \notin StopsOf(p)
    BY <2>2, StepIs DEF StopsOf
  <2>11. \A p \in clients' \ Entries' : p \in clients \ Entries \/ \E i \in 1..Len(q) : q[i] \in StopsOf(p)
    BY <2>1, <2>6, <2>7 DEF StopsOf
  <2> QED BY <1>0, <2>1, <2>2, <2>8, <2>9, <2>10, <2>11, StopsAreKept
<1> QED BY <1>2, <1>3, <1>4 DEF Heading

(* Nobody's sequence grows a launch or loses a stop, and nothing that is alive
   leaves the registry. *)
LEMMA QuietLetGo ==
  ASSUME LetGoInv, title' = title, lock' = lock, clients' \subseteq clients,
         Entries' \subseteq Entries, Entries \ Entries' \subseteq Plays \ clients',
         \A u \in Threads : \A i \in 1..Len(todo[u]) : \E j \in 1..Len(todo'[u]) : todo'[u][j] = todo[u][i],
         \A u \in Threads : \A i \in 1..Len(todo'[u]) :
           todo'[u][i].op \notin Launches \/ (i \in 1..Len(todo[u]) /\ todo'[u][i] = todo[u][i])
  PROVE  Orderly' /\ LetGoIsStopped'
<1>0. Orderly /\ LetGoIsStopped
  BY DEF LetGoInv
<1>1. OneEach'
  BY <1>0 DEF Orderly, OneEach
<1>2. Holding'
  <2> SUFFICES ASSUME NEW u \in Plays, Ahead(todo'[u], {"evict"})
               PROVE  lock' = u /\ \A p \in Entries' : title'[p] # title'[u]
    BY DEF Holding, Plays
  <2>1. Ahead(todo[u], {"evict"})
    BY ThreadsAre DEF Ahead, Launches
  <2> QED BY <1>0, <2>1 DEF Orderly, Holding
<1>3. Named'
  <2> SUFFICES ASSUME NEW u \in Plays, NEW i \in 1..Len(todo'[u]),
                      todo'[u][i].op \in {"commit", "start"}
               PROVE  todo'[u][i].of = title'[u]
    BY DEF Named, Plays
  <2>1. i \in 1..Len(todo[u]) /\ todo'[u][i] = todo[u][i]
    BY ThreadsAre DEF Launches
  <2> QED BY <1>0, <2>1 DEF Orderly, Named
<1>4. LetGoIsStopped'
  <2> SUFFICES ASSUME NEW p \in clients' \ Entries'
               PROVE  \E u \in Threads : \E i \in 1..Len(todo'[u]) : todo'[u][i] \in StopsOf(p)
    BY StopAheadIs DEF LetGoIsStopped, Threads
  <2>1. p \in clients \ Entries
    OBVIOUS
  <2>2. PICK u \in Threads : \E i \in 1..Len(todo[u]) : todo[u][i] \in StopsOf(p)
    BY <1>0, <2>1, StopAheadIs DEF LetGoIsStopped
  <2>3. PICK i \in 1..Len(todo[u]) : todo[u][i] \in StopsOf(p)
    BY <2>2
  <2> QED BY <2>2, <2>3
<1> QED BY <1>1, <1>2, <1>3, <1>4 DEF Orderly

LEMMA StillLetGo ==
  ASSUME LetGoInv, title' = title, lock' = lock, registry' = registry, todo' = todo, clients' \subseteq clients
  PROVE  Orderly' /\ LetGoIsStopped'
<1>1. Entries' = Entries
  BY DEF Entries
<1> QED BY <1>1, QuietLetGo

LEMMA ContainerLetGo == ASSUME LetGoInv, NEW p \in Plays, Container(p) PROVE Orderly' /\ LetGoIsStopped'
<1>1. title' = title /\ lock' = lock /\ registry' = registry /\ todo' = todo /\ clients' \subseteq clients
  BY DEF Container, Boot, Exit, LoseClient, Die, Set, Outside, plays, server
<1> QED BY <1>1, StillLetGo

LEMMA RegulatingLetGo == ASSUME LetGoInv, NEW p \in Plays, Regulating(p) PROVE Orderly' /\ LetGoIsStopped'
<1>0. ConvTypeOK /\ ConvInv
  BY DEF LetGoInv, ConvInv
<1>1. CASE ~RegulatorEnds(p)
  <2>1. title' = title /\ lock' = lock /\ registry' = registry /\ todo' = todo
    BY <1>1 DEF Regulating, RegulatorStarts, Suspend, SendStop, Resume, Resync, Inside, plays
  <2>2. clients' \subseteq clients
    BY <1>1 DEF Regulating, RegulatorStarts, Suspend, SendStop, Resume, Resync, Continue, Die, Set, processes
  <2> QED BY <2>1, <2>2, StillLetGo
<1>2. CASE RegulatorEnds(p)
  <2>1. /\ title' = title /\ lock' = lock
        /\ (IF p \in Entries \ clients
            THEN registry' = Without({p}) /\ todo' = [todo EXCEPT ![p] = @ \o Stop(p)]
            ELSE UNCHANGED <<registry, todo>>)
    BY <1>2 DEF RegulatorEnds, plays
  <2>2. clients' \subseteq clients
    BY <1>2 DEF RegulatorEnds, ResumeHeld, Continue, Die, Set, processes
  <2>3. CASE p \notin Entries \ clients
    BY <2>1, <2>2, <2>3, StillLetGo
  <2>4. CASE p \in Entries \ clients
    <3> DEFINE s == todo[p]
               q == Stop(p)
               r == todo'[p]
    <3>1. todo \in [Threads -> Seq(Steps)] /\ p \in Threads /\ registry \in Seq(Plays)
      BY <1>0, ThreadsAre DEF ConvTypeOK
    <3>2. q \in Seq(Killings)
      <4>1. title[p] # Nil /\ title \in [Plays -> Titles \cup {Nil}]
        BY <1>0, <2>4, EntriesAreMade DEF ConvTypeOK
      <4> QED BY <4>1, StopIs
    <3>3. todo' = [todo EXCEPT ![p] = s \o q]
      BY <2>1, <2>4
    <3> HIDE DEF q
    <3>4. r = s \o q /\ s \in Seq(Steps) /\ \A u \in Threads : u # p => todo'[u] = todo[u]
      BY <3>1, <3>3
    <3> HIDE DEF s, r
    <3>5. q \in Seq(Steps) /\ \A i \in 1..Len(q) : q[i].op \notin Marks
      BY <3>2, KillingsPlain
    <3>6. /\ Len(r) = Len(s) + Len(q)
          /\ \A i \in 1..Len(s) + Len(q) : r[i] = IF i <= Len(s) THEN s[i] ELSE q[i - Len(s)]
      BY <3>4, <3>5, ConcatProperties
    <3>7. Len(s) \in Nat /\ Len(q) \in Nat
      BY <3>4, <3>5
    <3>8. \A i \in 1..Len(s) : i \in 1..Len(r) /\ r[i] = s[i]
      BY <3>6, <3>7
    <3>9. ASSUME NEW i \in 1..Len(r) PROVE r[i].op \notin Launches \/ (i \in 1..Len(s) /\ r[i] = s[i])
      <4>1. CASE i <= Len(s)
        BY <3>6, <3>7, <4>1
      <4>2. CASE ~(i <= Len(s))
        <5>1. i - Len(s) \in 1..Len(q) /\ r[i] = q[i - Len(s)]
          BY <3>6, <3>7, <4>2
        <5>2. q[i - Len(s)].op \notin Marks
          BY <3>5, <5>1
        <5>3. r[i].op \notin Launches
          BY <5>1, <5>2 DEF Marks
        <5> QED BY <5>3
      <4> QED BY <4>1, <4>2
    <3>10. ASSUME NEW u \in Threads, NEW i \in 1..Len(todo[u])
           PROVE  i \in 1..Len(todo'[u]) /\ todo'[u][i] = todo[u][i]
      <4>1. CASE u = p
        BY <3>8, <3>10, <4>1 DEF s, r
      <4>2. CASE u # p
        BY <3>4, <3>10, <4>2
      <4> QED BY <4>1, <4>2
    <3>11. ASSUME NEW u \in Threads, NEW i \in 1..Len(todo'[u])
           PROVE  todo'[u][i].op \notin Launches \/ (i \in 1..Len(todo[u]) /\ todo'[u][i] = todo[u][i])
      <4>1. CASE u = p
        BY <3>9, <3>11, <4>1 DEF s, r
      <4>2. CASE u # p
        BY <3>4, <3>11, <4>2
      <4> QED BY <4>1, <4>2
    <3>12. Entries' = Entries \ {p}
      BY <2>1, <2>4, <3>1, WithoutLeaves
    <3>13. Entries' \subseteq Entries /\ Entries \ Entries' \subseteq Plays \ clients'
      BY <2>2, <2>4, <3>12
    <3> QED BY <2>1, <2>2, <3>10, <3>11, <3>13, QuietLetGo
  <2> QED BY <2>3, <2>4
<1> QED BY <1>1, <1>2

LEMMA ClaimLetGo == ASSUME LetGoInv, NEW p \in Plays, Claim(p) PROVE Orderly' /\ LetGoIsStopped'
<1>0. ConvTypeOK /\ ConvInv /\ Unmade /\ Orderly /\ LetGoIsStopped
  BY DEF LetGoInv, ConvInv
<1>1. PICK k \in Titles :
        /\ title[p] = Nil /\ title' = [title EXCEPT ![p] = k]
        /\ todo' = [todo EXCEPT ![p] = <<Step("commit", k)>>]
        /\ UNCHANGED <<processes, server>>
  BY DEF Claim
<1> DEFINE q == <<Step("commit", k)>>
<1>2. clients' = clients /\ Entries' = Entries /\ lock' = lock
  BY <1>1 DEF processes, server, Entries
<1>3. /\ \A u \in Plays : title'[u] = IF u = p THEN k ELSE title[u]
      /\ p \in Threads /\ todo'[p] = q /\ (\A u \in Threads : u # p => todo'[u] = todo[u])
  BY <1>0, <1>1, ThreadsAre DEF ConvTypeOK
<1>4. Len(q) = 1 /\ (\A i \in 1..Len(q) : q[i].op = "commit" /\ q[i].of = k)
  BY StepIs
<1> HIDE DEF q
<1>5. todo[p] = <<>> /\ p \notin Entries /\ Entries \subseteq Plays
  BY <1>0, <1>1, EntriesAreMade DEF Unmade
<1>6. OneEach'
  BY <1>0, <1>2, <1>3, <1>5 DEF Orderly, OneEach
<1>7. Holding'
  <2> SUFFICES ASSUME NEW u \in Plays, Ahead(todo'[u], {"evict"})
               PROVE  lock' = u /\ \A e \in Entries' : title'[e] # title'[u]
    BY DEF Holding, Plays
  <2>1. u # p
    BY <1>3, <1>4 DEF Ahead
  <2>2. Ahead(todo[u], {"evict"})
    BY <1>3, <2>1, ThreadsAre
  <2> QED BY <1>0, <1>2, <1>3, <1>5, <2>1, <2>2 DEF Orderly, Holding
<1>8. Named'
  <2> SUFFICES ASSUME NEW u \in Plays, NEW i \in 1..Len(todo'[u]),
                      todo'[u][i].op \in {"commit", "start"}
               PROVE  todo'[u][i].of = title'[u]
    BY DEF Named, Plays
  <2>1. CASE u = p
    BY <1>3, <1>4, <2>1
  <2>2. CASE u # p
    BY <1>0, <1>3, <2>2, ThreadsAre DEF Orderly, Named
  <2> QED BY <2>1, <2>2
<1>9. LetGoIsStopped'
  <2> SUFFICES ASSUME NEW c \in clients' \ Entries'
               PROVE  \E u \in Threads : \E i \in 1..Len(todo'[u]) : todo'[u][i] \in StopsOf(c)
    BY StopAheadIs DEF LetGoIsStopped, Threads
  <2>1. PICK u \in Threads : \E i \in 1..Len(todo[u]) : todo[u][i] \in StopsOf(c)
    BY <1>0, <1>2, StopAheadIs DEF LetGoIsStopped
  <2>2. u # p
    <3>1. \A i \in 1..Len(<<>>) : FALSE
      OBVIOUS
    <3> QED BY <1>5, <2>1, <3>1
  <2> QED BY <1>3, <2>1, <2>2
<1> QED BY <1>6, <1>7, <1>8, <1>9 DEF Orderly

LEMMA StopEverythingLetGo == ASSUME LetGoInv, StopEverything PROVE Orderly' /\ LetGoIsStopped'
<1>0. ConvTypeOK
  BY DEF LetGoInv, ConvInv
<1>1. /\ title' = title /\ lock' = lock /\ registry' = registry /\ clients' = clients
      /\ todo[Stopper] = <<>> /\ todo' = [todo EXCEPT ![Stopper] = StopAll]
  BY DEF StopEverything, processes, server
<1>2. Entries' = Entries
  BY <1>1 DEF Entries
<1>3. todo'[Stopper] = StopAll /\ \A u \in Threads : u # Stopper => todo'[u] = todo[u]
  BY <1>0, <1>1, ThreadsAre DEF ConvTypeOK
<1>4. \A i \in 1..Len(<<>>) : FALSE
  OBVIOUS
<1>5. \A u \in Threads : \A i \in 1..Len(todo[u]) : \E j \in 1..Len(todo'[u]) : todo'[u][j] = todo[u][i]
  BY <1>1, <1>3, <1>4
<1>6. \A u \in Threads : \A i \in 1..Len(todo'[u]) :
        todo'[u][i].op \notin Launches \/ (i \in 1..Len(todo[u]) /\ todo'[u][i] = todo[u][i])
  <2>1. \A i \in 1..Len(StopAll) : StopAll[i].op \notin Launches
    BY StopAllPlain DEF Marks
  <2> HIDE DEF StopAll, Launches, Stopper
  <2> QED BY <1>3, <2>1
<1> QED BY <1>1, <1>2, <1>5, <1>6, QuietLetGo

LEMMA RestartLetGo == ASSUME LetGoInv, Restart PROVE Orderly' /\ LetGoIsStopped'
<1>1. /\ clients' = {} /\ registry' = <<>>
      /\ todo' = [t \in Threads |-> IF t = Stopper THEN StopAll ELSE <<>>]
  BY DEF Restart
<1>2. Len(<<>>) = 0
  OBVIOUS
<1>3. Entries' = {}
  BY <1>1, <1>2 DEF Entries
<1>4. \A u \in Plays : todo'[u] = <<>>
  BY <1>1, ThreadsAre
<1>5. OneEach'
  BY <1>3 DEF OneEach
<1>6. Holding'
  BY <1>2, <1>4 DEF Holding, Ahead, Plays
<1>7. Named'
  BY <1>2, <1>4 DEF Named, Plays
<1> QED BY <1>1, <1>5, <1>6, <1>7 DEF Orderly, LetGoIsStopped

LEMMA LetGoInit == ConvInit => LetGoInv
<1> SUFFICES ASSUME ConvInit PROVE LetGoInv
  OBVIOUS
<1>1. clients = {} /\ registry = <<>> /\ todo = [t \in Threads |-> <<>>]
  BY DEF ConvInit
<1>2. Len(<<>>) = 0
  OBVIOUS
<1>3. Entries = {}
  BY <1>1, <1>2 DEF Entries
<1>4. \A u \in Plays : todo[u] = <<>>
  BY <1>1, ThreadsAre
<1>5. OneEach /\ Holding /\ Named
  BY <1>2, <1>3, <1>4 DEF OneEach, Holding, Named, Ahead
<1> QED BY <1>1, <1>5, ConvInvInit DEF LetGoInv, Orderly, LetGoIsStopped

LEMMA LetGoStep == LetGoInv /\ [ConvNext]_convVars => LetGoInv'
<1> SUFFICES ASSUME LetGoInv, [ConvNext]_convVars PROVE LetGoInv'
  OBVIOUS
<1>1. ConvInv'
  BY ConvInvStep DEF LetGoInv
<1>2. ASSUME NEW p \in Plays, Claim(p) \/ Container(p) \/ Regulating(p) \/ Beginning(p) \/ Heading(p)
      PROVE  Orderly' /\ LetGoIsStopped'
  BY <1>2, ClaimLetGo, ContainerLetGo, RegulatingLetGo, BeginningLetGo, HeadingLetGo
<1>3. ASSUME NEW t \in Threads, Killing(t) \/ Stopping(t) PROVE Orderly' /\ LetGoIsStopped'
  BY <1>3, KillingsLetGo, StoppingLetGo
<1>4. ASSUME UNCHANGED convVars PROVE Orderly' /\ LetGoIsStopped'
  <2>1. title' = title /\ lock' = lock /\ registry' = registry /\ todo' = todo /\ clients' \subseteq clients
    BY <1>4 DEF convVars, plays, processes, server
  <2> QED BY <2>1, StillLetGo
<1>5. Orderly' /\ LetGoIsStopped'
  BY <1>2, <1>3, <1>4, StopEverythingLetGo, RestartLetGo DEF ConvNext
<1> QED BY <1>1, <1>5 DEF LetGoInv

(* No conversion is lost between the registry and the threads: whatever takes an entry
   out of _transcodes while its client is alive (a stop of everything, a start that makes
   room or replaces its own title, the end of a begin) has that client's stop before it
   still, through every interleaving of claims, launches, kills, regulators and restarts. *)
THEOREM WhatIsLetGoIsStopped == ConvSpec => []LetGoIsStopped
<1>1. LetGoInv => LetGoIsStopped
  BY DEF LetGoInv
<1> QED BY <1>1, LetGoInit, LetGoStep, PTL DEF ConvSpec
=============================================================================
