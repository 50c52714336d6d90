------------------------ MODULE TorrentCache_proofs ------------------------
(***************************************************************************)
(* Proofs about TorrentCache, for every set of torrents and any number of  *)
(* plays, restarts and faults.                                             *)
(***************************************************************************)
EXTENDS TorrentCache, TLAPS

LEMMA Bounds == MaxPlays \in Nat /\ MaxRestarts \in Nat /\ MaxFaults \in Nat
BY NumbersAssumption

LEMMA NoneIsNone == None \notin Hashes /\ Direct \notin Hashes /\ Direct # None
BY NoneAssumption

(***************************************************************************)
(* Types.                                                                  *)
(***************************************************************************)
ClearsOK == clears \in [Threads -> {None} \cup Clears]

LEMMA InUseTyped ==
  InUse \subseteq Hashes /\ OnScreen \subseteq Hashes /\ Working \subseteq Hashes
  /\ HashesInUse \subseteq Hashes
BY DEF InUse, OnScreen, Working, HashesInUse, Newest, Reached

LEMMA ClearTyped ==
  ASSUME NEW old \in BOOLEAN, NEW keep \in {None} \cup SUBSET Hashes
  PROVE  Clear(old, keep) \in Clears
BY InUseTyped DEF Clear, Clears

LEMMA GoesTyped ==
  ASSUME ClearsOK, NEW t \in Threads, NEW c \in {None} \cup Clears, Goes(t, c)
  PROVE  ClearsOK'
BY DEF ClearsOK, Goes

LEMMA UsedByTyped ==
  ASSUME NEW st, NEW sc, NEW old
  PROVE  UsedBy(st, sc, old) \subseteq Hashes
BY DEF UsedBy

LEMMA ForgetTyped ==
  ASSUME ClearsOK, NEW st, NEW sc
  PROVE  Forget(st, sc) \in [Threads -> {None} \cup Clears]
BY UsedByTyped DEF Forget, ClearsOK, Clears

LEMMA AsleepTyped == Asleep \in [at : {"asleep", "disk", "sample"}, was : BOOLEAN, idle : 0..2]
BY DEF Asleep

(* Every variable has its type. *)
THEOREM CacheTypeCorrect == Spec => []TypeOK
<1> USE Bounds, NoneIsNone
<1>1. Init => TypeOK
  <2> SUFFICES ASSUME Init PROVE TypeOK
    OBVIOUS
  <2>1. restarts \in 0..MaxRestarts /\ faults \in 0..MaxFaults /\ screen \in 0..MaxPlays
    BY DEF Init
  <2>2. clears \in [Threads -> {None} \cup Clears]
    BY DEF Init
  <2>3. source \in [Plays -> Hashes \cup {Direct, None}]
    BY DEF Init
  <2>4. stage \in [Plays -> {"none", "working", "playing", "over"}]
    BY DEF Init
  <2> QED BY <2>1, <2>2, <2>3, <2>4, AsleepTyped DEF Init, TypeOK
<1>2. ASSUME TypeOK, [Next]_vars PROVE TypeOK'
  <2>0. ClearsOK
    BY <1>2 DEF TypeOK, ClearsOK
  <2>1. ASSUME NEW t \in Threads, Look(t) PROVE TypeOK'
    <3>1. clears[t] \in Clears
      BY <2>0, <2>1 DEF ClearsOK, Look, Clearing
    <3>2. ClearsOK'
      <4>1. [clears[t] EXCEPT !.step = "next", !.active = open,
                              !.dirs = IF clears[t].old THEN Old ELSE cached] \in Clears
        BY <1>2, <3>1 DEF TypeOK, Clears, Old
      <4> QED BY <2>0, <2>1, <4>1, GoesTyped DEF Look
    <3> QED BY <1>2, <2>1, <3>2 DEF Look, TypeOK, ClearsOK, players, stremio, Fault, NoFault
  <2>2. ASSUME NEW t \in Threads, Leave(t) PROVE TypeOK'
    <3>1. clears[t] \in Clears
      BY <2>0, <2>2 DEF ClearsOK, Leave, Clearing
    <3>2. ClearsOK'
      <4>1. ASSUME NEW h PROVE [clears[t] EXCEPT !.dirs = @ \ {h}] \in Clears
        BY <3>1 DEF Clears
      <4> QED BY <2>0, <2>2, <4>1, GoesTyped DEF Leave
    <3> QED BY <1>2, <2>2, <3>2 DEF Leave, TypeOK, ClearsOK, players, stremio, bounds
  <2>3. ASSUME NEW t \in Threads, Take(t) PROVE TypeOK'
    <3>1. clears[t] \in Clears
      BY <2>0, <2>3 DEF ClearsOK, Take, Clearing
    <3>2. ClearsOK'
      <4>1. PICK h \in clears[t].dirs :
               clears' = [u \in Threads |->
                 IF u = t THEN [clears[t] EXCEPT !.dirs = @ \ {h}]
                 ELSE IF clears[u] = None THEN None ELSE [clears[u] EXCEPT !.used = @ \ {h}]]
        BY <2>3 DEF Take
      <4>2. [clears[t] EXCEPT !.dirs = @ \ {h}] \in Clears
        BY <3>1 DEF Clears
      <4>3. ASSUME NEW u \in Threads, clears[u] # None
            PROVE  [clears[u] EXCEPT !.used = @ \ {h}] \in Clears
        <5>1. clears[u] \in Clears
          BY <2>0, <4>3 DEF ClearsOK
        <5> QED BY <5>1 DEF Clears
      <4> QED BY <4>1, <4>2, <4>3 DEF ClearsOK
    <3>3. /\ open' \subseteq Hashes /\ cached' \subseteq Hashes /\ fresh' \subseteq cached'
          /\ faults' \in 0..MaxFaults /\ harmed' \in BOOLEAN
      <4>1. PICK h \in clears[t].dirs :
              \/ /\ NoFault
                 /\ open' = open \ (clears[t].active \cap {h})
                 /\ cached' = cached \ {h} /\ fresh' = fresh \ {h}
                 /\ harmed' = (harmed \/ h \in clears[t].used)
              \/ /\ Fault
                 /\ open' \in {open, open \ (clears[t].active \cap {h})}
                 /\ UNCHANGED <<cached, fresh, harmed>>
        BY <2>3 DEF Take
      <4>2. open' \subseteq open /\ cached' \subseteq Hashes /\ fresh' \subseteq cached'
        BY <1>2, <4>1 DEF TypeOK
      <4>3. harmed' \in BOOLEAN
        BY <1>2, <4>1 DEF TypeOK
      <4>4. faults' \in 0..MaxFaults
        BY <1>2, <4>1 DEF TypeOK, Fault, NoFault
      <4> QED BY <1>2, <4>2, <4>3, <4>4 DEF TypeOK
    <3> QED BY <1>2, <2>3, <3>2, <3>3 DEF Take, TypeOK, ClearsOK, players
  <2>4. ASSUME NEW t \in Threads, Through(t) PROVE TypeOK'
    BY <1>2, <2>0, <2>4, GoesTyped DEF Through, TypeOK, ClearsOK, players, stremio, bounds
  <2>5. CASE WatchStep
    <3> USE DEF Apart, players, stremio, bounds, Moves
    <3>0. Watcher \in Threads
      BY DEF Watcher, Threads
    <3>1. ASSUME SweepDue PROVE TypeOK'
      <4>1. ClearsOK'
        BY <2>0, <3>0, <3>1, GoesTyped, ClearTyped DEF SweepDue
      <4> QED BY <1>2, <3>1, <4>1 DEF SweepDue, TypeOK, ClearsOK
    <3>2. ASSUME NoSweep PROVE TypeOK'
      BY <1>2, <3>2 DEF NoSweep, TypeOK
    <3>3. ASSUME DiskPressure PROVE TypeOK'
      <4>1. (IF HashesInUse # {} \/ ~believed THEN HashesInUse ELSE None)
              \in {None} \cup SUBSET Hashes
        BY InUseTyped
      <4>2. ClearsOK'
        BY <2>0, <3>0, <3>3, <4>1, GoesTyped, ClearTyped DEF DiskPressure, ClearsOK
      <4> QED BY <1>2, <3>3, <4>2 DEF DiskPressure, TypeOK, ClearsOK
    <3>4. ASSUME Sample PROVE TypeOK'
      <4>1. [Clear(FALSE, None) EXCEPT !.step = "stop"] \in Clears
        <5>1. Clear(FALSE, None) \in Clears
          BY ClearTyped
        <5> QED BY <5>1 DEF Clears
      <4>2. ClearsOK'
        BY <2>0, <3>0, <3>4, <4>1, GoesTyped DEF Sample, ClearsOK
      <4>3. IdleCount \in 0..3
        BY <1>2 DEF TypeOK, IdleCount
      <4> QED BY <1>2, <3>4, <4>2, <4>3 DEF Sample, TypeOK, ClearsOK
    <3>5. ASSUME StopFirst PROVE TypeOK'
      <4>1. clears[Watcher] \in Clears
        BY <2>0, <3>0, <3>5 DEF ClearsOK, StopFirst, Clearing
      <4>2. ClearsOK'
        <5>1. [clears[Watcher] EXCEPT !.step = "look"] \in Clears
          BY <4>1 DEF Clears
        <5> QED BY <2>0, <3>0, <3>5, <5>1, GoesTyped DEF StopFirst
      <4> QED BY <1>2, <3>5, <4>2 DEF StopFirst, TypeOK, ClearsOK
    <3> QED BY <2>5, <3>1, <3>2, <3>3, <3>4, <3>5 DEF WatchStep
  <2>6. ASSUME NEW p \in Plays, Begin(p) PROVE TypeOK'
    BY <1>2, <2>6 DEF Begin, TypeOK, stremio, bounds
  <2>7. ASSUME NEW p \in Plays, Fails(p) PROVE TypeOK'
    BY <1>2, <2>0, <2>7, ForgetTyped DEF Fails, TypeOK, stremio, bounds
  <2>8. ASSUME NEW p \in Plays, Launched(p) PROVE TypeOK'
    <3> DEFINE after == [stage EXCEPT ![p] = "playing"]
               others == {source[q] : q \in {r \in Plays : after[r] = "working"}}
               c == [Clear(FALSE, (others \cup {source[p]}) \cap Hashes)
                       EXCEPT !.used = UsedBy(after, p, FALSE)]
    <3>1. c \in Clears
      <4>1. Clear(FALSE, (others \cup {source[p]}) \cap Hashes) \in Clears
        BY ClearTyped
      <4> QED BY <4>1, UsedByTyped DEF Clears
    <3>2. p \in Threads /\ p \in 0..MaxPlays
      BY DEF Plays, Threads
    <3>3. clears' = [Forget(after, p) EXCEPT ![p] = c]
      BY <2>8 DEF Launched
    <3>4. ClearsOK'
      BY <2>0, <3>1, <3>2, <3>3, ForgetTyped DEF ClearsOK
    <3>5. nowHash' \in Hashes \cup {None}
      BY <1>2, <2>8 DEF Launched, NowHash, TypeOK
    <3> QED BY <1>2, <2>8, <3>2, <3>4, <3>5 DEF Launched, TypeOK, ClearsOK, stremio, bounds
  <2>9. CASE Fetch
    BY <1>2, <2>9, InUseTyped DEF Fetch, TypeOK, players, bounds
  <2>10. CASE FilmEnds
    BY <1>2, <2>0, <2>10, ForgetTyped DEF FilmEnds, TypeOK, stremio, bounds
  <2>11. CASE Reports
    BY <1>2, <2>11 DEF Reports, TypeOK, stremio, bounds
  <2>12. CASE Ages
    BY <1>2, <2>12 DEF Ages, TypeOK, players, bounds
  <2>13. CASE Restart
    <3>1. restarts' \in 0..MaxRestarts
      BY <1>2, <2>13 DEF Restart, TypeOK
    <3>2. stage' \in [Plays -> {"none", "working", "playing", "over"}]
      BY <1>2, <2>13 DEF Restart, TypeOK
    <3>3. clears' \in [Threads -> {None} \cup Clears]
      BY <2>13 DEF Restart
    <3> QED BY <1>2, <2>13, <3>1, <3>2, <3>3, AsleepTyped DEF Restart, TypeOK, stremio
  <2>14. CASE UNCHANGED vars
    BY <1>2, <2>14 DEF TypeOK, vars, players, stremio, bounds
  <2> QED BY <1>2, <2>1, <2>2, <2>3, <2>4, <2>5, <2>6, <2>7, <2>8, <2>9, <2>10, <2>11, <2>12,
             <2>13, <2>14 DEF Next, ClearStep
<1> QED BY <1>1, <1>2, PTL DEF Spec

(***************************************************************************)
(* What is in use is kept.                                                 *)
(***************************************************************************)

(* nowplaying.json names what is on screen; and while something is on screen
   that the server does not believe in (it has restarted), the watch has seen
   nothing yet that could come to an end. *)
ScreenInv ==
  screen # 0 => /\ stage[screen] # "none"
                /\ source[screen] \in Hashes => nowHash = source[screen]
                /\ ~believed => ~watch.was /\ watch.idle = 0

(* Why a clear c takes nothing it may not: what was in use when its thread looked
   and has been since is nothing, or is among what it keeps, or - a sweep - is on
   screen, believed in, with an engine open or listed as such. *)
Spares(c, sc, bel, op) ==
  \/ c.used = {}
  \/ c.keep # None /\ c.used \subseteq c.keep
  \/ /\ c.old /\ c.keep = None /\ sc # 0 /\ bel
     /\ \/ c.step = "look" /\ c.used \subseteq op
        \/ c.step = "next" /\ c.used \subseteq c.active

CacheInv ==
  /\ ScreenInv
  /\ \A t \in Threads : clears[t] # None => Spares(clears[t], screen, believed, open)
  /\ InUseKept

LEMMA InUseIsNamed == ASSUME ScreenInv PROVE InUse \subseteq HashesInUse
BY NoneIsNone DEF ScreenInv, InUse, HashesInUse, OnScreen

(* A use that ends leaves a clear less to spare. *)
LEMMA SparesLess ==
  ASSUME NEW c \in Clears, NEW sc, NEW bel, NEW op, NEW sc2, NEW bel2, NEW gone,
         Spares(c, sc, bel, op),
         c.old => gone = {} \/ (sc2 # 0 /\ bel2) \/ ~(sc # 0 /\ bel)
  PROVE  Spares([c EXCEPT !.used = @ \cap gone], sc2, bel2, op)
<1> DEFINE d == [c EXCEPT !.used = @ \cap gone]
<1>1. /\ d.used = c.used \cap gone /\ d.keep = c.keep /\ d.old = c.old
      /\ d.step = c.step /\ d.active = c.active
  BY DEF Clears
<1> HIDE DEF d
<1> QED BY <1>1 DEF Spares

LEMMA CacheInvInit == Init => CacheInv
BY DEF Init, CacheInv, ScreenInv, InUseKept

LEMMA CacheInvStep == ASSUME TypeOK, CacheInv, [Next]_vars PROVE CacheInv'
<1> USE Bounds, NoneIsNone
<1>0. \A t \in Threads : clears[t] # None => clears[t] \in Clears
  BY DEF TypeOK
<1> DEFINE Sparing == \A t \in Threads : clears[t] # None => Spares(clears[t], screen, believed, open)
(* One clear is replaced, and nothing it depends on. *)
<1>a. ASSUME NEW t \in Threads, NEW c, Goes(t, c), c # None => Spares(c, screen, believed, open),
             UNCHANGED <<screen, believed, open>>
      PROVE  Sparing'
  BY <1>a DEF CacheInv, Goes, TypeOK
(* Uses end, and what is on screen may change. *)
<1>b. ASSUME NEW st, NEW sc, NEW bel, NEW t \in Threads, clears[t] # None,
             UsedBy(st, sc, TRUE) = {} \/ (sc # 0 /\ bel) \/ ~(screen # 0 /\ believed)
      PROVE  Spares(Forget(st, sc)[t], sc, bel, open)
  <2>1. clears[t] \in Clears /\ Spares(clears[t], screen, believed, open)
    BY <1>0, <1>b DEF CacheInv
  <2> DEFINE c == clears[t]
             gone == UsedBy(st, sc, c.old)
  <2>2. c.old => gone = {} \/ (sc # 0 /\ bel) \/ ~(screen # 0 /\ believed)
    <3>1. c.old => c.old = TRUE
      BY <2>1 DEF Clears
    <3> QED BY <1>b, <3>1
  <2>3. Forget(st, sc)[t] = [c EXCEPT !.used = @ \cap gone]
    BY <1>b DEF Forget
  <2> HIDE DEF gone, c
  <2>4. Spares([c EXCEPT !.used = @ \cap gone], sc, bel, open)
    <3>1. c \in Clears /\ Spares(c, screen, believed, open)
      BY <2>1 DEF c
    <3> QED BY <2>2, <3>1, SparesLess
  <2> QED BY <2>3, <2>4
<1>1. ASSUME NEW t \in Threads, Look(t) PROVE CacheInv'
  <2>1. clears[t] \in Clears /\ clears[t].step = "look" /\ Spares(clears[t], screen, believed, open)
    BY <1>0, <1>1 DEF Look, Clearing, CacheInv
  <2>2. ASSUME NEW dirs PROVE Spares([clears[t] EXCEPT !.step = "next", !.active = open, !.dirs = dirs],
                                     screen, believed, open)
    BY <2>1 DEF Spares, Clears
  <2>3. Sparing'
    BY <1>1, <1>a, <2>2 DEF Look, players, stremio
  <2> QED BY <1>1, <2>3 DEF Look, CacheInv, ScreenInv, InUseKept, players, stremio
<1>2. ASSUME NEW t \in Threads, Leave(t) PROVE CacheInv'
  <2>1. clears[t] \in Clears /\ Spares(clears[t], screen, believed, open)
    BY <1>0, <1>2 DEF Leave, Clearing, CacheInv
  <2>2. ASSUME NEW h PROVE Spares([clears[t] EXCEPT !.dirs = @ \ {h}], screen, believed, open)
    BY <2>1 DEF Spares, Clears
  <2>3. Sparing'
    BY <1>2, <1>a, <2>2 DEF Leave, players, stremio
  <2> QED BY <1>2, <2>3 DEF Leave, CacheInv, ScreenInv, InUseKept, players, stremio
<1>3. ASSUME NEW t \in Threads, Take(t) PROVE CacheInv'
  <2>1. clears[t] \in Clears /\ clears[t].step = "next" /\ Spares(clears[t], screen, believed, open)
    BY <1>0, <1>3 DEF Take, Clearing, CacheInv
  <2>2. PICK h \in clears[t].dirs :
          /\ ~Kept(clears[t], h) /\ ~Streaming(clears[t], h)
          /\ clears' = [u \in Threads |->
               IF u = t THEN [clears[t] EXCEPT !.dirs = @ \ {h}]
               ELSE IF clears[u] = None THEN None ELSE [clears[u] EXCEPT !.used = @ \ {h}]]
          /\ open' \in {open, open \ (clears[t].active \cap {h})}
          /\ harmed' = harmed \/ harmed' = (harmed \/ h \in clears[t].used)
    BY <1>3 DEF Take
  <2>3. h \notin clears[t].used
    BY <2>1, <2>2 DEF Spares, Kept, Streaming
  <2>4. UNCHANGED <<screen, believed>>
    BY <1>3 DEF Take, players
  <2>5. ASSUME NEW u \in Threads, clears'[u] # None PROVE Spares(clears'[u], screen, believed, open')
    <3>1. CASE u = t
      BY <2>1, <2>2, <3>1 DEF Spares, Clears
    <3>2. CASE u # t
      <4>1. clears[u] # None /\ clears[u] \in Clears /\ Spares(clears[u], screen, believed, open)
        BY <1>0, <2>2, <2>5, <3>2 DEF CacheInv
      <4>2. clears'[u] = [clears[u] EXCEPT !.used = @ \ {h}]
        BY <2>2, <3>2, <4>1
      <4>3. open \ {h} \subseteq open'
        BY <2>2
      <4> QED BY <4>1, <4>2, <4>3 DEF Spares, Clears
    <3> QED BY <3>1, <3>2
  <2>6. Sparing'
    BY <2>4, <2>5
  <2>7. InUseKept'
    BY <2>2, <2>3 DEF CacheInv, InUseKept
  <2> QED BY <1>3, <2>6, <2>7 DEF Take, CacheInv, ScreenInv, players
<1>4. ASSUME NEW t \in Threads, Through(t) PROVE CacheInv'
  <2>1. Sparing'
    BY <1>4, <1>a DEF Through, players, stremio
  <2> QED BY <1>4, <2>1 DEF Through, CacheInv, ScreenInv, InUseKept, players, stremio
<1>5. CASE WatchStep
  <2>0. Watcher \in Threads
    BY DEF Watcher, Threads
  <2> USE DEF Apart, players, stremio, bounds, Moves
  <2>a. ASSUME NEW c, Goes(Watcher, c), c # None => Spares(c, screen, believed, open),
               UNCHANGED Apart, screen # 0 /\ ~believed => ~watch'.was /\ watch'.idle = 0
        PROVE  CacheInv'
    <3>1. Sparing'
      BY <1>a, <2>0, <2>a
    <3> QED BY <2>a, <3>1 DEF CacheInv, ScreenInv, InUseKept
  <2>b. ASSUME NEW a, Moves(a) PROVE watch'.was = watch.was /\ watch'.idle = watch.idle
    BY <2>b DEF TypeOK
  <2>c. screen # 0 /\ ~believed => ~watch.was /\ watch.idle = 0
    BY DEF CacheInv, ScreenInv
  <2>1. ASSUME SweepDue PROVE CacheInv'
    <3>1. Spares(Clear(TRUE, None), screen, believed, open)
      BY <2>1 DEF SweepDue, Clear, Spares, OnScreen
    <3> QED BY <2>1, <2>a, <2>b, <2>c, <3>1 DEF SweepDue
  <2>2. ASSUME NoSweep PROVE CacheInv'
    BY <2>2, <2>b, <2>c DEF NoSweep, CacheInv, ScreenInv, InUseKept
  <2>3. ASSUME DiskPressure PROVE CacheInv'
    <3> DEFINE keep == IF HashesInUse # {} \/ ~believed THEN HashesInUse ELSE None
    <3>1. HashesInUse # None /\ InUse \subseteq HashesInUse
      BY NoneAssumption, InUseTyped, InUseIsNamed DEF CacheInv
    <3>2. Spares(Clear(FALSE, keep), screen, believed, open)
      BY <3>1 DEF Clear, Spares
    <3>3. CASE UNCHANGED clears
      BY <2>3, <2>b, <2>c, <3>3 DEF DiskPressure, CacheInv, ScreenInv, InUseKept
    <3>4. CASE Goes(Watcher, Clear(FALSE, keep))
      BY <2>3, <2>a, <2>b, <2>c, <3>2, <3>4 DEF DiskPressure
    <3> QED BY <2>3, <3>3, <3>4 DEF DiskPressure
  <2>4. ASSUME Sample PROVE CacheInv'
    <3>1. watch.idle \in 0..2 /\ watch.was \in BOOLEAN /\ believed \in BOOLEAN
      BY DEF TypeOK
    <3>2. screen # 0 /\ ~believed => ~watch'.was /\ watch'.idle = 0
      BY <2>4, <2>c, <3>1 DEF Sample, IdleCount
    <3>3. CASE IdleCount = 3 /\ Quiet
      <4>1. screen = 0
        BY <2>c, <3>1, <3>3 DEF IdleCount
      <4>2. InUse = {}
        BY <3>3, <4>1 DEF InUse, OnScreen, Working, Quiet
      <4>3. Spares([Clear(FALSE, None) EXCEPT !.step = "stop"], screen, believed, open)
        BY <4>2 DEF Clear, Spares
      <4> QED BY <2>4, <2>a, <3>2, <3>3, <4>3 DEF Sample
    <3>4. CASE ~(IdleCount = 3 /\ Quiet)
      BY <2>4, <3>2, <3>4 DEF Sample, CacheInv, ScreenInv, InUseKept
    <3> QED BY <3>3, <3>4
  <2>5. ASSUME StopFirst PROVE CacheInv'
    <3>1. clears[Watcher] \in Clears /\ clears[Watcher].step = "stop"
          /\ Spares(clears[Watcher], screen, believed, open)
      BY <1>0, <2>0, <2>5 DEF StopFirst, Clearing, CacheInv
    <3>2. Spares([clears[Watcher] EXCEPT !.step = "look"], screen, believed, open)
      BY <3>1 DEF Spares, Clears
    <3> QED BY <2>5, <2>a, <2>c, <3>2 DEF StopFirst
  <2> QED BY <1>5, <2>1, <2>2, <2>3, <2>4, <2>5 DEF WatchStep
<1>6. ASSUME NEW p \in Plays, Begin(p) PROVE CacheInv'
  <2>1. screen # p
    BY <1>6 DEF Begin, CacheInv, ScreenInv, Plays
  <2>2. screen # 0 => screen \in Plays
    BY DEF TypeOK, Plays
  <2> QED BY <1>6, <2>1, <2>2 DEF Begin, CacheInv, ScreenInv, InUseKept, TypeOK, stremio
<1>7. ASSUME NEW p \in Plays, Fails(p) PROVE CacheInv'
  <2>1. Sparing'
    BY <1>7, <1>b DEF Fails, Forget, stremio
  <2>2. ScreenInv'
    <3>1. stage'[screen] # "none" \/ stage[screen] = "none"
      BY <1>7 DEF Fails, TypeOK
    <3> QED BY <1>7, <3>1 DEF Fails, CacheInv, ScreenInv
  <2> QED BY <1>7, <2>1, <2>2 DEF Fails, CacheInv, InUseKept
<1>8. ASSUME NEW p \in Plays, Launched(p) PROVE CacheInv'
  <2> DEFINE after == [stage EXCEPT ![p] = "playing"]
             others == {source[q] : q \in {r \in Plays : after[r] = "working"}}
             keep == (others \cup {source[p]}) \cap Hashes
             c == [Clear(FALSE, keep) EXCEPT !.used = UsedBy(after, p, FALSE)]
  <2>0. p # 0 /\ p \in Threads
    BY DEF Plays, Threads
  <2>1. keep # None /\ UsedBy(after, p, FALSE) = keep
    <3>1. keep # None
      BY NoneAssumption
    <3> QED BY <2>0, <3>1 DEF UsedBy
  <2>2. ASSUME NEW bel, NEW op PROVE Spares(c, p, bel, op)
    BY <2>1 DEF Spares, Clear
  <2>3. clears' = [Forget(after, p) EXCEPT ![p] = c] /\ screen' = p /\ believed' = TRUE
        /\ open' = open
    BY <1>8 DEF Launched, stremio
  <2>4. Sparing'
    BY <1>b, <2>0, <2>2, <2>3 DEF Forget
  <2>5. ScreenInv'
    BY <1>8, <2>0 DEF Launched, ScreenInv, NowHash, TypeOK
  <2> QED BY <1>8, <2>4, <2>5 DEF Launched, CacheInv, InUseKept
<1>9. CASE Fetch
  <2>1. open \subseteq open' /\ UNCHANGED <<clears, screen, believed, harmed, stage, source, nowHash, watch>>
    BY <1>9 DEF Fetch, players
  <2>2. Sparing'
    BY <1>0, <2>1 DEF CacheInv, Spares
  <2> QED BY <2>1, <2>2 DEF CacheInv, ScreenInv, InUseKept
<1>10. CASE FilmEnds
  <2>1. UsedBy(stage, 0, TRUE) = {}
    BY DEF UsedBy
  <2>2. Sparing'
    BY <1>10, <1>b, <2>1 DEF FilmEnds, Forget, stremio
  <2> QED BY <1>10, <2>2 DEF FilmEnds, CacheInv, ScreenInv, InUseKept
<1>11. CASE Reports
  <2>1. Sparing'
    BY <1>11 DEF Reports, CacheInv, Spares, stremio
  <2> QED BY <1>11, <2>1 DEF Reports, CacheInv, ScreenInv, InUseKept
<1>12. CASE Ages
  BY <1>12 DEF Ages, CacheInv, ScreenInv, InUseKept, players
<1>13. CASE Restart
  <2>1. Sparing'
    BY <1>13 DEF Restart
  <2>2. ScreenInv'
    BY <1>13 DEF Restart, CacheInv, ScreenInv, Asleep, TypeOK, Plays
  <2> QED BY <1>13, <2>1, <2>2 DEF Restart, CacheInv, InUseKept
<1>14. CASE UNCHANGED vars
  BY <1>14 DEF CacheInv, ScreenInv, InUseKept, vars, players, stremio
<1> QED BY <1>1, <1>2, <1>3, <1>4, <1>5, <1>6, <1>7, <1>8, <1>9, <1>10, <1>11, <1>12,
           <1>13, <1>14 DEF Next, ClearStep

(* No clear - the sweep, the one under disk pressure, the one at the end of
   playback, the one of a play that launched - deletes what was in use when it
   looked and has been since (cache_clear, keep_only, cache_watch). *)
THEOREM InUseIsKept == Spec => []InUseKept
<1>1. CacheInv => InUseKept
  BY DEF CacheInv
<1> QED BY <1>1, CacheInvInit, CacheInvStep, CacheTypeCorrect, PTL DEF Spec
=============================================================================
