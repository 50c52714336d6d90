-------------------------- MODULE Packager_proofs --------------------------
(***************************************************************************)
(* Theorems about Packager, for any sessions, requests, film and bounds.   *)
(***************************************************************************)
EXTENDS Packager, SequenceTheorems, TLAPS

USE ThreadsAssumption, NumbersAssumption

(***************************************************************************)
(* Types, and what a step can do to the runs.                              *)
(***************************************************************************)

LEMMA Numbers == 0 \in Segs /\ Last \in Segs /\ NoSeg \in Int /\ Segs \subseteq Nat
BY DEF Segs, NoSeg

LEMMA FreshType == Fresh \in Thread /\ NoFile \in File /\ Idle \in Session
<1>1. NoFile \in File
  BY DEF NoFile, File
<1>2. Fresh \in Thread
  BY <1>1, Numbers DEF Fresh, Thread, Stages
<1>3. Idle \in Session
  BY Numbers DEF Idle, Session
<1> QED BY <1>1, <1>2, <1>3

LEMMA GotoType ==
  ASSUME TypeOK, NEW th \in Threads, NEW pc \in Stages, Goto(th, pc)
  PROVE  threads' \in [Threads -> Thread]
<1>a. threads[th] \in Thread
  BY DEF TypeOK
<1>1. [threads[th] EXCEPT !.pc = pc] \in Thread
  BY <1>a DEF Thread
<1> QED BY <1>1 DEF TypeOK, Goto

LEMMA ReturnsType ==
  ASSUME TypeOK, NEW th \in Threads, Returns(th)
  PROVE  threads' \in [Threads -> Thread]
<1> DEFINE pc == IF th \in Tokens THEN "done" ELSE "poll"
<1>1. pc \in Stages
  BY DEF Stages
<1>a. threads[th] \in Thread
  BY DEF TypeOK
<1> HIDE DEF pc
<1>2. [threads[th] EXCEPT !.pc = pc, !.gen = 0, !.run = 0] \in Thread
  BY <1>1, <1>a DEF Thread
<1> USE DEF pc
<1> QED BY <1>2 DEF TypeOK, Returns

LEMMA AnsweredType ==
  ASSUME TypeOK, NEW th \in Threads, Answered(th)
  PROVE  threads' \in [Threads -> Thread]
BY FreshType DEF TypeOK, Answered

LEMMA FoundType ==
  ASSUME TypeOK, NEW th \in Threads, threads[th].token \in Tokens, Found(th)
  PROVE  threads' \in [Threads -> Thread]
<1>1. published[threads[th].token] \in Nat /\ "read" \in Stages
  BY DEF TypeOK, Stages
<1>a. threads[th] \in Thread
  BY DEF TypeOK
<1>2. [threads[th] EXCEPT !.pc = "read", !.seen = published[threads[th].token]] \in Thread
  BY <1>1, <1>a DEF Thread
<1> QED BY <1>2 DEF TypeOK, Found

LEMMA RequestsAreThreads == Requests \subseteq Threads /\ Tokens \subseteq Threads
BY DEF Threads

(* What a step other than SpawnStart does to the runs: no run is new, none
   changes its session or its anchor, none comes back to life. *)
Living == {"starting", "running"}
OnlyDies ==
  /\ runs' \in Seq(Run) /\ Len(runs') = Len(runs)
  /\ \A r \in 1..Len(runs) :
       /\ runs'[r].token = runs[r].token /\ runs'[r].anchor = runs[r].anchor
       /\ runs'[r].state \in Living => runs[r].state \in Living

LEMMA RunFacts ==
  ASSUME TypeOK
  PROVE  /\ DOMAIN runs = 1..Len(runs) /\ Len(runs) \in Nat
         /\ \A r \in 1..Len(runs) : runs[r] \in Run
<1>1. DOMAIN runs = 1..Len(runs) /\ Len(runs) \in Nat
  BY LenProperties DEF TypeOK
<1>2. ASSUME NEW r \in 1..Len(runs) PROVE runs[r] \in Run
  BY ElementOfSeq DEF TypeOK
<1> QED BY <1>1, <1>2

LEMMA MappedRuns ==
  ASSUME TypeOK, NEW F \in [1..Len(runs) -> Run]
  PROVE  F \in Seq(Run) /\ Len(F) = Len(runs)
<1>1. Len(runs) \in Nat
  BY RunFacts
<1>2. F \in Seq(Run)
  BY <1>1, SeqDef
<1>3. DOMAIN F = 1..Len(F) /\ Len(F) \in Nat
  BY <1>2, LenProperties
<1> QED BY <1>1, <1>2, <1>3

LEMMA UnchangedRuns == TypeOK /\ UNCHANGED runs => OnlyDies
BY RunFacts DEF TypeOK, OnlyDies

LEMMA AfterKillDies ==
  ASSUME TypeOK, NEW t, NEW n, NEW run, runs' = AfterKill(t, n, run)
  PROVE  /\ OnlyDies
         /\ \A r \in 1..Len(runs) : runs'[r].state \in Living =>
              r \notin Killed(t, n)
<1> DEFINE New(r) == [runs[r] EXCEPT !.state  = IF r \in Killed(t, n) THEN "killed" ELSE @,
                                     !.client = @ /\ r # run /\ r \notin Killed(t, n)]
           F == [r \in 1..Len(runs) |-> New(r)]
<1>1. runs' = F
  BY RunFacts DEF AfterKill
<1>2. ASSUME NEW r \in 1..Len(runs)
      PROVE  /\ New(r) \in Run
             /\ New(r).token = runs[r].token /\ New(r).anchor = runs[r].anchor
             /\ New(r).state = IF r \in Killed(t, n) THEN "killed" ELSE runs[r].state
  <2>1. runs[r] \in Run
    BY RunFacts
  <2>2. (runs[r].client /\ r # run /\ r \notin Killed(t, n)) \in BOOLEAN
    OBVIOUS
  <2> QED BY <2>1, <2>2 DEF Run
<1>3. F \in [1..Len(runs) -> Run]
  BY <1>2
<1>4. F \in Seq(Run) /\ Len(F) = Len(runs)
  BY <1>3, MappedRuns
<1>5. \A r \in 1..Len(runs) : F[r] = New(r)
  OBVIOUS
<1> HIDE DEF F, New
<1> QED BY <1>1, <1>2, <1>4, <1>5 DEF OnlyDies, Living

LEMMA ChangedRun ==
  ASSUME TypeOK, NEW r \in 1..Len(runs), NEW x \in Run,
         x.token = runs[r].token, x.anchor = runs[r].anchor,
         x.state \in Living => runs[r].state \in Living,
         runs' = [runs EXCEPT ![r] = x]
  PROVE  OnlyDies
<1>1. runs' \in Seq(Run) /\ Len(runs') = Len(runs)
  BY ExceptSeq DEF TypeOK
<1>2. \A s \in 1..Len(runs) : runs'[s] = IF s = r THEN x ELSE runs[s]
  BY ExceptSeq DEF TypeOK
<1> QED BY <1>1, <1>2 DEF OnlyDies

(* A thread out of its first and last state has a session, and so has a stop
   under way. *)
Tokened ==
  /\ \A th \in Threads : threads[th].pc \notin {"fresh", "served"} => threads[th].token \in Tokens
  /\ stop.pc # "ready" => stop.token \in Tokens
TypeInv == TypeOK /\ Tokened

LEMMA TypeInit == Init => TypeInv
<1> SUFFICES ASSUME Init PROVE TypeInv
  OBVIOUS
<1> USE FreshType, Numbers
<1>1. runs \in Seq(Run) /\ Len(runs) = 0
  BY EmptySeq DEF Init
<1>2. files \in [Tokens -> [Segs -> File]]
  BY DEF Init
<1>3. threads \in [Threads -> Thread]
  BY DEF Init
<1>4. stop \in [pc : {"ready", "pop", "kill", "remove", "over"},
                token : Tokens \cup {NoToken}, run : 0..Len(runs)]
  BY <1>1 DEF Init
<1>5. TypeOK
  <2>1. registry \in [Tokens -> 0..Len(runs)]
    BY <1>1 DEF Init
  <2>2. published \in [Tokens -> Nat] /\ asked \in 0..MaxRequests
    BY DEF Init
  <2>3. bx \in Session /\ dirs \in SUBSET Tokens /\ crossed \in BOOLEAN /\ missed \in BOOLEAN
    BY DEF Init
  <2> QED BY <1>1, <1>2, <1>3, <1>4, <2>1, <2>2, <2>3 DEF TypeOK
<1>6. Tokened
  BY DEF Init, Tokened, Fresh
<1> QED BY <1>5, <1>6 DEF TypeInv

(* The steps that leave the runs, the registry, the stop and the disk. *)
LEMMA QuietTypes ==
  ASSUME TypeOK, UNCHANGED <<dirs, files, registry, runs, stop>>,
         bx' \in Session, threads' \in [Threads -> Thread], asked' \in 0..MaxRequests,
         published' \in [Tokens -> Nat], crossed' \in BOOLEAN, missed' \in BOOLEAN
  PROVE  TypeOK'
BY DEF TypeOK

LEMMA BeginType == ASSUME TypeInv, NEW t \in Tokens, BxBegin(t) PROVE TypeInv'
<1>1. [threads[t] EXCEPT !.pc = "clear", !.token = t] \in Thread
  <2>1. threads[t] \in Thread
    BY RequestsAreThreads DEF TypeInv, TypeOK
  <2> QED BY <2>1 DEF Thread, Stages, Spawning
<1>2. threads' \in [Threads -> Thread]
  BY <1>1, RequestsAreThreads DEF TypeInv, TypeOK, BxBegin
<1>3. bx' \in Session
  BY FreshType DEF BxBegin, Session
<1>4. TypeOK'
  BY <1>2, <1>3 DEF TypeInv, TypeOK, BxBegin, history
<1>5. Tokened'
  <2>1. threads'[t].token = t
    BY RequestsAreThreads, <1>1 DEF TypeInv, TypeOK, BxBegin, Thread
  <2>2. \A th \in Threads : th # t => threads'[th] = threads[th]
    BY RequestsAreThreads DEF TypeInv, TypeOK, BxBegin
  <2> QED BY <2>1, <2>2 DEF TypeInv, Tokened, BxBegin
<1> QED BY <1>4, <1>5 DEF TypeInv

(* How threads move: one at a time, and only BxBegin, Arrive, Answered and
   Stamp change the session of one. *)
OneMoves(th) ==
  /\ \A o \in Threads : o # th => threads'[o] = threads[o]
  /\ threads'[th].token = threads[th].token /\ threads'[th].k = threads[th].k

LEMMA GotoMoves ==
  ASSUME TypeOK, NEW th \in Threads, NEW pc, Goto(th, pc)
  PROVE  /\ OneMoves(th) /\ threads'[th].pc = pc
         /\ threads'[th].gen = threads[th].gen /\ threads'[th].run = threads[th].run
         /\ threads'[th].data = threads[th].data /\ threads'[th].seen = threads[th].seen
<1>1. threads[th] \in Thread
  BY DEF TypeOK
<1>2. threads' = [threads EXCEPT ![th] = [threads[th] EXCEPT !.pc = pc]]
  BY DEF Goto
<1> QED BY <1>1, <1>2 DEF TypeOK, Thread, OneMoves

LEMMA ReturnsMoves ==
  ASSUME TypeOK, NEW th \in Threads, Returns(th)
  PROVE  OneMoves(th) /\ threads'[th].pc \in {"done", "poll"}
<1>1. threads[th] \in Thread
  BY DEF TypeOK
<1>2. threads' = [threads EXCEPT ![th] = [threads[th] EXCEPT
         !.pc = IF th \in Tokens THEN "done" ELSE "poll", !.gen = 0, !.run = 0]]
  BY DEF Returns
<1> QED BY <1>1, <1>2 DEF TypeOK, Thread, OneMoves

LEMMA AnsweredMoves ==
  ASSUME TypeOK, NEW th \in Threads, Answered(th)
  PROVE  /\ \A o \in Threads : o # th => threads'[o] = threads[o]
         /\ threads'[th] = Fresh
BY DEF TypeOK, Answered

LEMMA FoundMoves ==
  ASSUME TypeOK, NEW th \in Threads, Found(th)
  PROVE  /\ OneMoves(th) /\ threads'[th].pc = "read"
         /\ threads'[th].seen = published[threads[th].token]
<1>1. threads[th] \in Thread
  BY DEF TypeOK
<1>2. threads' = [threads EXCEPT ![th] = [threads[th] EXCEPT
                    !.pc = "read", !.seen = published[threads[th].token]]]
  BY DEF Found
<1> QED BY <1>1, <1>2 DEF TypeOK, Thread, OneMoves

LEMMA TokenedMoves ==
  ASSUME Tokened, NEW th \in Threads, OneMoves(th), UNCHANGED stop,
         threads[th].pc \notin {"fresh", "served"}
  PROVE  Tokened'
BY DEF Tokened, OneMoves

LEMMA TokenedAnswered ==
  ASSUME TypeInv, NEW th \in Threads, Answered(th), UNCHANGED stop
  PROVE  Tokened'
<1>1. threads'[th].pc = "fresh"
  BY AnsweredMoves DEF TypeInv, Fresh
<1> QED BY <1>1, AnsweredMoves DEF TypeInv, Tokened

(* The steps of bx_spawn(). *)
LEMMA SpawnTypes ==
  ASSUME TypeInv, NEW th \in Threads, Spawn(th)
  PROVE  TypeInv'
<1> USE DEF TypeInv, At
<1>t. threads[th].token \in Tokens
  BY DEF Spawn, SpawnClear, SpawnPublish, SpawnStart, StopOld, Tokened
<1>p. {"publish", "start", "stopOld"} \subseteq Stages
  BY DEF Stages, Spawning
<1>1. CASE SpawnClear(th)
  <2>1. threads' \in [Threads -> Thread] /\ Tokened'
    BY <1>1, <1>p, GotoType, ReturnsType, GotoMoves, ReturnsMoves, TokenedMoves DEF SpawnClear
  <2>2. files' \in [Tokens -> [Segs -> File]]
    <3>1. [k \in Segs |-> NoFile] \in [Segs -> File]
      BY FreshType
    <3> QED BY <1>1, <3>1 DEF SpawnClear, TypeOK
  <2>3. TypeOK'
    BY <1>1, <2>1, <2>2 DEF SpawnClear, TypeOK, history
  <2> QED BY <2>1, <2>3
<1>2. CASE SpawnPublish(th)
  <2>1. threads' \in [Threads -> Thread] /\ Tokened'
    BY <1>2, <1>p, GotoType, ReturnsType, GotoMoves, ReturnsMoves, TokenedMoves DEF SpawnPublish
  <2>2. threads[th].k \in Segs
    BY DEF TypeOK, Thread
  <2>3. bx' \in Session
    BY <1>2, <2>2 DEF SpawnPublish, TypeOK, Session
  <2>4. published' \in [Tokens -> Nat]
    BY <1>2, <1>t DEF SpawnPublish, TypeOK, Mine
  <2>5. TypeOK'
    BY <1>2, <2>1, <2>3, <2>4, QuietTypes DEF SpawnPublish, TypeOK
  <2> QED BY <2>1, <2>5
<1>3. CASE SpawnStart(th)
  <2> DEFINE t == threads[th].token
             x == [token |-> t, anchor |-> threads[th].k, at |-> threads[th].k,
                   state |-> "starting", client |-> TRUE]
  <2>1. x \in Run
    BY <1>t DEF TypeOK, Thread, Run
  <2>2. runs' \in Seq(Run) /\ Len(runs') = Len(runs) + 1 /\ Len(runs) \in Nat
    BY <1>3, <2>1, AppendProperties, RunFacts DEF SpawnStart, TypeOK
  <2>3. registry' \in [Tokens -> 0..Len(runs')]
    <3>1. \A s \in Tokens : registry[s] \in 0..Len(runs)
      BY DEF TypeOK
    <3>2. \A s \in Tokens : (IF s = t THEN Len(runs) + 1
                             ELSE IF Alive(s) THEN registry[s] ELSE 0) \in 0..Len(runs')
      BY <2>2, <3>1
    <3> QED BY <1>3, <3>2 DEF SpawnStart
  <2>4. stop \in [pc : {"ready", "pop", "kill", "remove", "over"},
                  token : Tokens \cup {NoToken}, run : 0..Len(runs')]
    BY <2>2 DEF TypeOK
  <2>5. CASE registry[t] = 0
    <3>1. Returns(th)
      BY <1>3, <2>5 DEF SpawnStart
    <3>2. threads' \in [Threads -> Thread] /\ Tokened'
      BY <1>3, <3>1, ReturnsType, ReturnsMoves, TokenedMoves DEF SpawnStart
    <3>3. TypeOK'
      BY <1>3, <2>2, <2>3, <2>4, <3>2 DEF SpawnStart, TypeOK, session, history
    <3> QED BY <3>2, <3>3
  <2>6. CASE registry[t] # 0
    <3>1. threads' = [threads EXCEPT ![th] = [threads[th] EXCEPT !.pc = "stopOld", !.run = registry[t]]]
      BY <1>3, <2>6 DEF SpawnStart
    <3>2. threads[th] \in Thread /\ registry[t] \in Nat
      BY <1>t, RunFacts DEF TypeOK
    <3>3. [threads[th] EXCEPT !.pc = "stopOld", !.run = registry[t]] \in Thread
      BY <1>p, <3>2 DEF Thread
    <3>4. threads' \in [Threads -> Thread]
      BY <3>1, <3>3 DEF TypeOK
    <3>5. OneMoves(th)
      BY <3>1, <3>2 DEF TypeOK, Thread, OneMoves
    <3>6. Tokened'
      BY <1>3, <3>5, TokenedMoves DEF SpawnStart
    <3>7. TypeOK'
      BY <1>3, <2>2, <2>3, <2>4, <3>4 DEF SpawnStart, TypeOK, session, history
    <3> QED BY <3>6, <3>7
  <2> QED BY <2>5, <2>6
<1>4. CASE StopOld(th)
  <2>1. threads' \in [Threads -> Thread] /\ Tokened'
    BY <1>4, ReturnsType, ReturnsMoves, TokenedMoves DEF StopOld
  <2>2. OnlyDies
    BY <1>4, AfterKillDies DEF StopOld
  <2>3. missed' \in BOOLEAN
    BY <1>4 DEF StopOld, TypeOK
  <2>4. TypeOK'
    BY <1>4, <2>1, <2>2, <2>3 DEF StopOld, TypeOK, session, OnlyDies
  <2> QED BY <2>1, <2>4
<1> QED BY <1>1, <1>2, <1>3, <1>4 DEF Spawn

LEMMA ArriveTypes ==
  ASSUME TypeInv, NEW q \in Requests, NEW k \in Segs, Arrive(q, k)
  PROVE  TypeInv'
<1> USE DEF TypeInv
<1> DEFINE x == [Fresh EXCEPT !.pc = "look", !.token = bx.token, !.k = k]
<1>1. bx.token \in Tokens
  BY DEF Arrive, TypeOK, Session
<1>2. x \in Thread
  BY <1>1, FreshType DEF Thread, Stages
<1>3. threads' = [threads EXCEPT ![q] = x]
  BY DEF Arrive
<1>4. threads' \in [Threads -> Thread]
  BY <1>2, <1>3 DEF TypeOK
<1>5. TypeOK'
  BY <1>4 DEF Arrive, TypeOK, session, history
<1>6. x.token = bx.token
  BY DEF Fresh
<1>7. threads'[q].token = bx.token /\ \A o \in Threads : o # q => threads'[o] = threads[o]
  BY <1>3, <1>6, RequestsAreThreads DEF TypeOK
<1>8. Tokened'
  BY <1>1, <1>7 DEF Tokened, Arrive
<1> QED BY <1>5, <1>8

LEMMA RequestTypes ==
  ASSUME TypeInv, NEW q \in Requests, Request(q)
  PROVE  TypeInv'
<1> USE DEF TypeInv, At
<1>q. q \in Threads /\ threads[q] \in Thread
  BY RequestsAreThreads DEF TypeOK
<1>0. CASE \E k \in Segs : Arrive(q, k)
  BY <1>0, ArriveTypes
<1>p. {"poll", "seek", "debounce", "settled", "kill", "recheck", "clear", "stamp", "served"} \subseteq Stages
  BY DEF Stages, Spawning
<1>1. CASE Look(q)
  <2>1. threads[q].token \in Tokens
    BY <1>1, <1>q DEF Look, Tokened
  <2>2. threads' \in [Threads -> Thread] /\ Tokened'
    <3>1. CASE Found(q)
      BY <1>1, <1>q, <2>1, <3>1, FoundType, FoundMoves, TokenedMoves DEF Look
    <3>2. CASE Answered(q)
      BY <1>1, <1>q, <3>2, AnsweredType, TokenedAnswered DEF Look
    <3>3. CASE \E pc \in {"poll", "seek"} : Goto(q, pc)
      BY <1>1, <1>q, <1>p, <3>3, GotoType, GotoMoves, TokenedMoves DEF Look
    <3> QED BY <1>1, <3>1, <3>2, <3>3 DEF Look
  <2> QED BY <1>1, <2>2 DEF Look, TypeOK, session, history
<1>2. CASE Seek(q)
  <2>1. threads' \in [Threads -> Thread] /\ Tokened'
    BY <1>2, <1>q, <1>p, GotoType, GotoMoves, TokenedMoves, AnsweredType, TokenedAnswered DEF Seek
  <2>k. threads[q].k \in Segs /\ bx \in Session
    BY <1>q DEF TypeOK, Thread
  <2>2. bx' \in Session
    <3>1. CASE Mine(q)
      <4>1. bx' = [bx EXCEPT !.pending = threads[q].k, !.seekGen = bx.seekGen + 1]
        BY <1>2, <3>1 DEF Seek
      <4>2. bx.seekGen + 1 \in Nat
        BY <2>k DEF Session
      <4> QED BY <4>1, <4>2, <2>k DEF Session
    <3>2. CASE ~Mine(q)
      BY <1>2, <2>k, <3>2 DEF Seek
    <3> QED BY <3>1, <3>2
  <2>3. crossed' \in BOOLEAN
    BY <1>2 DEF Seek, TypeOK
  <2> QED BY <1>2, <2>1, <2>2, <2>3 DEF Seek, TypeOK
<1>3. CASE Settle(q)
  <2>1. threads' \in [Threads -> Thread] /\ Tokened'
    BY <1>3, <1>q, <1>p, GotoType, GotoMoves, TokenedMoves DEF Settle
  <2> QED BY <1>3, <2>1 DEF Settle, TypeOK, session, history
<1>4. CASE Restart(q)
  <2>1. threads' \in [Threads -> Thread] /\ Tokened'
    <3>1. CASE Mine(q)
      <4> DEFINE x == [threads[q] EXCEPT !.pc = "kill", !.gen = bx.seekGen, !.run = registry[bx.token]]
      <4>1. bx.token \in Tokens
        BY <1>4, <1>q, <3>1 DEF Restart, Tokened, Mine
      <4>2. bx.seekGen \in Nat /\ registry[bx.token] \in Nat
        BY <4>1, RunFacts DEF TypeOK, Session
      <4>3. x \in Thread /\ x.token = threads[q].token /\ x.k = threads[q].k
        BY <4>2, <1>p, <1>q DEF Thread
      <4>4. threads' = [threads EXCEPT ![q] = x]
        BY <1>4, <3>1 DEF Restart
      <4>5. OneMoves(q)
        BY <4>3, <4>4, <1>q DEF TypeOK, OneMoves
      <4> HIDE DEF x
      <4> QED BY <1>4, <1>q, <4>3, <4>4, <4>5, TokenedMoves DEF Restart, TypeOK
    <3>2. CASE ~Mine(q)
      BY <1>4, <1>q, <3>2, ReturnsType, ReturnsMoves, TokenedMoves DEF Restart
    <3> QED BY <3>1, <3>2
  <2>2. crossed' \in BOOLEAN
    BY <1>4 DEF Restart, TypeOK
  <2> QED BY <1>4, <2>1, <2>2 DEF Restart, TypeOK, session
<1>5. CASE RestartKill(q)
  <2>1. threads' \in [Threads -> Thread] /\ Tokened'
    BY <1>5, <1>q, <1>p, GotoType, GotoMoves, TokenedMoves DEF RestartKill
  <2>2. OnlyDies
    BY <1>5, AfterKillDies DEF RestartKill
  <2>3. missed' \in BOOLEAN
    BY <1>5 DEF RestartKill, TypeOK
  <2> QED BY <1>5, <2>1, <2>2, <2>3 DEF RestartKill, TypeOK, session, OnlyDies
<1>6. CASE Recheck(q)
  <2>1. threads' \in [Threads -> Thread] /\ Tokened'
    BY <1>6, <1>q, <1>p, GotoType, GotoMoves, ReturnsType, ReturnsMoves, TokenedMoves DEF Recheck
  <2> QED BY <1>6, <2>1 DEF Recheck, TypeOK, session, history
<1>7. CASE Poll(q)
  <2>1. threads' \in [Threads -> Thread] /\ Tokened'
    BY <1>7, <1>q, FoundType, FoundMoves, TokenedMoves DEF Poll, Tokened
  <2> QED BY <1>7, <2>1 DEF Poll, TypeOK, session, history
<1>8. CASE PollEnds(q)
  BY <1>8, <1>q, AnsweredType, TokenedAnswered DEF PollEnds, TypeOK, session, history
<1>9. CASE Read(q)
  <2> DEFINE file == files[threads[q].token][threads[q].k]
             x == [threads[q] EXCEPT !.pc = "stamp", !.data = file]
  <2>t. threads[q].token \in Tokens
    BY <1>9, <1>q DEF Read, Tokened
  <2>k. threads[q].k \in Segs
    BY <1>q DEF Thread
  <2>1. file \in File
    BY <2>t, <2>k DEF TypeOK
  <2>2. x \in Thread /\ x.token = threads[q].token /\ x.k = threads[q].k
    BY <2>1, <1>p, <1>q DEF Thread
  <2>3. CASE threads' = [threads EXCEPT ![q] = x]
    <3>1. OneMoves(q)
      BY <2>2, <2>3, <1>q DEF TypeOK, OneMoves
    <3>2. threads' \in [Threads -> Thread]
      BY <2>2, <2>3 DEF TypeOK
    <3>3. Tokened'
      BY <1>9, <1>q, <3>1, TokenedMoves DEF Read
    <3> QED BY <1>9, <3>2, <3>3 DEF Read, TypeOK, session, history
  <2>4. CASE Answered(q)
    BY <1>9, <1>q, <2>4, AnsweredType, TokenedAnswered DEF Read, TypeOK, session, history
  <2> QED BY <1>9, <2>3, <2>4 DEF Read
<1>10. CASE Stamp(q)
  <2>1. CASE Mine(q)
    <3> DEFINE x == [Fresh EXCEPT !.pc = "served", !.stamp = bx.anchor]
    <3>1. bx.anchor \in Segs
      BY DEF TypeOK, Session
    <3>2. x \in Thread
      BY <3>1, <1>p, FreshType DEF Thread
    <3>3. threads' = [threads EXCEPT ![q] = x]
      BY <1>10, <2>1 DEF Stamp
    <3>4. threads' \in [Threads -> Thread]
      BY <3>2, <3>3 DEF TypeOK
    <3>5. x.pc = "served"
      BY DEF Fresh
    <3>6. Tokened'
      BY <1>10, <1>q, <3>3, <3>5 DEF Stamp, Tokened, TypeOK
    <3> QED BY <1>10, <3>4, <3>6 DEF Stamp, TypeOK, session, history
  <2>2. CASE ~Mine(q)
    BY <1>10, <1>q, <2>2, AnsweredType, TokenedAnswered DEF Stamp, TypeOK, session, history
  <2> QED BY <2>1, <2>2
<1> QED BY <1>0, <1>1, <1>2, <1>3, <1>4, <1>5, <1>6, <1>7, <1>8, <1>9, <1>10 DEF Request

LEMMA StopTypes ==
  ASSUME TypeInv, StopAll
  PROVE  TypeInv'
<1> USE DEF TypeInv
<1>1. CASE StopReset
  <2>1. bx.token \in Tokens
    BY <1>1 DEF StopReset, TypeOK, Session
  <2> QED BY <1>1, <2>1, FreshType DEF StopReset, TypeOK, Tokened, history
<1>2. CASE StopPop
  <2>1. stop.token \in Tokens /\ 0 \in 0..Len(runs)
    BY <1>2, RunFacts DEF StopPop, Tokened
  <2> QED BY <1>2, <2>1 DEF StopPop, TypeOK, Tokened, session, history
<1>3. CASE StopKill
  <2>1. OnlyDies
    BY <1>3, AfterKillDies DEF StopKill
  <2> QED BY <1>3, <2>1 DEF StopKill, TypeOK, Tokened, OnlyDies, session, history
<1>4. CASE StopRemove
  <2>1. [k \in Segs |-> NoFile] \in [Segs -> File]
    BY FreshType
  <2> QED BY <1>4, <2>1 DEF StopRemove, TypeOK, Tokened, history
<1> QED BY <1>1, <1>2, <1>3, <1>4 DEF StopAll

(* ffmpeg keeps its session and anchor, and opens files of its own. *)
LEMMA EndsDies ==
  ASSUME TypeOK, NEW r \in 1..Len(runs), runs' = Ends(r)
  PROVE  OnlyDies
<1>1. runs[r] \in Run
  BY RunFacts
<1>2. runs' = [runs EXCEPT ![r] = [runs[r] EXCEPT !.state = "ended", !.client = FALSE]]
  BY RunFacts DEF Ends
<1>3. [runs[r] EXCEPT !.state = "ended", !.client = FALSE] \in Run
  BY <1>1 DEF Run
<1> QED BY <1>1, <1>2, <1>3, ChangedRun DEF Run, Living

LEMMA FfmpegMoves ==
  ASSUME TypeOK, NEW r \in DOMAIN runs, Ffmpeg(r)
  PROVE  /\ OnlyDies
         /\ files' \in [Tokens -> [Segs -> File]]
         /\ runs[r].state \in Living /\ runs[r].token \in Tokens
         /\ \A t \in Tokens, k \in Segs :
              \/ files'[t][k] = files[t][k]
              \/ t = runs[r].token /\ files'[t][k].run = r
         /\ UNCHANGED <<bx, dirs, registry, threads, stop, asked, history>>
<1>r. r \in 1..Len(runs) /\ runs[r] \in Run /\ r \in Nat
  BY RunFacts
<1>t. runs[r].token \in Tokens /\ runs[r].at \in Segs /\ runs[r].anchor \in Segs
  BY <1>r DEF Run
<1> DEFINE t == runs[r].token
<1>f. files[t] \in [Segs -> File] /\ [run |-> r, whole |-> FALSE] \in File
  BY <1>r, <1>t DEF TypeOK, File
<1>1. CASE Appear(r)
  <2>1. CASE t \in dirs
    <3>1. runs' = [runs EXCEPT ![r] = [runs[r] EXCEPT !.state = "running"]]
      BY <1>1, <2>1 DEF Appear
    <3>2. [runs[r] EXCEPT !.state = "running"] \in Run
      BY <1>r DEF Run
    <3>3. OnlyDies
      BY <1>1, <1>r, <3>1, <3>2, ChangedRun DEF Appear, Run, Living
    <3>4. files' = [files EXCEPT ![t] = [files[t] EXCEPT ![runs[r].anchor] = [run |-> r, whole |-> FALSE]]]
      BY <1>1, <2>1 DEF Appear
    <3> QED BY <1>1, <1>t, <1>f, <3>3, <3>4 DEF Appear, Living, TypeOK, history
  <2>2. CASE t \notin dirs
    BY <1>1, <1>r, <1>t, <2>2, EndsDies DEF Appear, Living, TypeOK, history
  <2> QED BY <2>1, <2>2
<1>2. CASE NeverStarts(r)
  <2>1. [runs[r] EXCEPT !.state = "killed"] \in Run
    BY <1>r DEF Run
  <2>2. OnlyDies
    BY <1>2, <1>r, <2>1, ChangedRun DEF NeverStarts, Run, Living
  <2> QED BY <1>2, <1>t, <2>2 DEF NeverStarts, Living, TypeOK, session, history
<1>3. CASE Write(r)
  <2> DEFINE k == runs[r].at
             closed == IF files[t][k].run = r
                       THEN [files[t] EXCEPT ![k].whole = TRUE] ELSE files[t]
  <2>1. files[t][k] \in File
    BY <1>f, <1>t
  <2>2. [files[t][k] EXCEPT !.whole = TRUE] \in File
        /\ [files[t][k] EXCEPT !.whole = TRUE].run = files[t][k].run
    BY <2>1 DEF File
  <2>3. closed \in [Segs -> File] /\ \A j \in Segs : closed[j] = files[t][j] \/ closed[j].run = r
    BY <2>2, <1>f, <1>t
  <2>4. CASE t \in dirs /\ k < Last
    <3>1. k + 1 \in Segs
      BY <2>4, <1>t DEF Segs
    <3>2. runs' = [runs EXCEPT ![r] = [runs[r] EXCEPT !.at = k + 1]]
      BY <1>3, <2>4 DEF Write
    <3>3. [runs[r] EXCEPT !.at = k + 1] \in Run
      BY <1>r, <3>1 DEF Run
    <3>4. OnlyDies
      BY <1>3, <1>r, <3>2, <3>3, ChangedRun DEF Write, Run, Living
    <3>5. files' = [files EXCEPT ![t] = [closed EXCEPT ![k + 1] = [run |-> r, whole |-> FALSE]]]
      BY <1>3, <2>4 DEF Write
    <3> HIDE DEF closed
    <3> QED BY <1>3, <1>t, <1>f, <2>3, <3>4, <3>5 DEF Write, Living, TypeOK, history
  <2>5. CASE ~(t \in dirs /\ k < Last)
    <3>1. OnlyDies
      BY <1>3, <2>5, <1>r, EndsDies DEF Write
    <3>2. files' = [files EXCEPT ![t] = closed]
      BY <1>3, <2>5 DEF Write
    <3> HIDE DEF closed
    <3> QED BY <1>3, <1>t, <2>3, <3>1, <3>2 DEF Write, Living, TypeOK, history
  <2> QED BY <2>4, <2>5
<1> QED BY <1>1, <1>2, <1>3 DEF Ffmpeg

LEMMA TypeStep == TypeInv /\ [Next]_vars => TypeInv'
<1> SUFFICES ASSUME TypeInv, [Next]_vars PROVE TypeInv'
  OBVIOUS
<1>1. ASSUME NEW r \in DOMAIN runs, Ffmpeg(r) PROVE TypeInv'
  BY <1>1, FfmpegMoves DEF TypeInv, TypeOK, Tokened, OnlyDies, history
<1>2. CASE UNCHANGED vars
  BY <1>2 DEF TypeInv, TypeOK, Tokened, vars, session, history
<1> QED BY <1>1, <1>2, BeginType, SpawnTypes, RequestTypes, StopTypes DEF Next

(* Every variable of the packager keeps its type, and every number of a run
   that is kept in the registry or by the stop is that of a run started. *)
THEOREM PackagerTypeCorrect == Spec => []TypeOK
<1>1. Spec => []TypeInv
  BY TypeInit, TypeStep, PTL DEF Spec
<1> QED BY <1>1, PTL DEF TypeInv

(***************************************************************************)
(* The files of the live session.                                          *)
(***************************************************************************)

(* A session that has not begun left no trace. *)
Unborn == \A t \in Tokens : At(t, "fresh") =>
  /\ bx.token # t
  /\ \A th \in Threads : threads[th].token # t
  /\ \A r \in 1..Len(runs) : runs[r].token # t
  /\ \A k \in Segs : ~Exists(t, k)
(* Every file, on disk or read, is that of a run that was started. *)
KnownRuns ==
  /\ \A t \in Tokens, k \in Segs : Exists(t, k) => files[t][k].run \in 1..Len(runs)
  /\ \A th \in Threads : At(th, "stamp") => threads[th].data.run \in 1..Len(runs)

(* A thread of the live session, and one that may be about to spawn in it. *)
Live(th) == bx.token \in Tokens /\ Mine(th)
Hot(th) ==
  /\ Live(th)
  /\ \/ threads[th].pc \in Spawning
     \/ threads[th].pc \in {"kill", "recheck"} /\ threads[th].gen = bx.seekGen
(* The numbers a thread has taken note of are no newer than the session's. *)
Noted == \A th \in Threads :
  /\ Live(th) /\ threads[th].pc \in {"kill", "recheck"} => threads[th].gen <= bx.seekGen
  /\ threads[th].pc \in {"read", "stamp"} => threads[th].seen <= published[threads[th].token]
Past == Unborn /\ KnownRuns /\ Noted

(* A run of the live session that is, or will be, writing. *)
Busy(r) == bx.token \in Tokens /\ runs[r].token = bx.token /\ runs[r].state \in Living
NoneBusy == \A r \in 1..Len(runs) : ~Busy(r)
Empty == \A k \in Segs : ~Exists(bx.token, k)

Exclusion == \A th, o \in Threads : Hot(th) /\ Hot(o) => th = o
Single == \A r, s \in 1..Len(runs) : Busy(r) /\ Busy(s) => r = s
Anchored ==
  /\ FilesOfTheRun
  /\ \A r \in 1..Len(runs) : Busy(r) => runs[r].anchor = bx.anchor
(* What a thread has got done on its way to the new run. *)
Ready == \A th \in Threads : Hot(th) =>
  /\ threads[th].pc \in {"recheck", "clear", "publish", "start"} => NoneBusy
  /\ threads[th].pc \in {"publish", "start"} => Empty
  /\ threads[th].pc = "start" => bx.anchor = threads[th].k
Stamped == \A th \in Threads :
  Live(th) /\ At(th, "stamp") /\ threads[th].seen = published[bx.token] =>
    runs[threads[th].data.run].anchor = bx.anchor
Clean == Exclusion /\ Single /\ Anchored /\ Ready /\ Stamped

CleanInv == TypeInv /\ Past /\ (Orderly => Clean)

LEMMA CleanInit == Init => CleanInv
<1> SUFFICES ASSUME Init PROVE CleanInv
  OBVIOUS
<1>1. TypeInv /\ runs = <<>> /\ Len(runs) = 0 /\ bx.token = NoToken
  BY TypeInit, EmptySeq DEF Init, Idle
<1>2. \A th \in Threads : threads[th].pc = "fresh" /\ threads[th].token = NoToken
  BY DEF Init, Fresh
<1>3. \A t \in Tokens, k \in Segs : ~Exists(t, k)
  BY DEF Init, Exists
<1>4. Past
  BY <1>1, <1>2, <1>3 DEF Past, Unborn, KnownRuns, Noted, At, Live
<1>5. Clean
  BY <1>1, <1>2, <1>3 DEF Clean, Exclusion, Single, Anchored, FilesOfTheRun, Ready,
    Stamped, Hot, Live, Busy, At
<1> QED BY <1>1, <1>4, <1>5 DEF CleanInv

(* A thread that is about to touch neither the disk nor the processes. *)
Calm(th) ==
  /\ threads'[th].pc \in {"fresh", "look", "seek", "debounce", "settled", "poll",
                          "read", "served", "done"}
  /\ threads'[th].token \in {threads[th].token, bx.token, NoToken}
  /\ threads'[th].pc = "read" => /\ threads'[th].token \in Tokens
                                 /\ threads'[th].seen = published[threads'[th].token]
  /\ th \in Tokens => threads'[th].pc # "fresh"

(* Where a file after the step comes from. *)
NoNews(t, k) ==
  \/ files'[t][k] = NoFile
  \/ files'[t][k] = files[t][k]
  \/ \E r \in 1..Len(runs) :
       runs[r].token = t /\ runs[r].state \in Living /\ files'[t][k].run = r

(* The steps that change neither the session nor what the threads that may
   spawn have got done. *)
Harmless ==
  /\ OnlyDies
  /\ bx'.token = bx.token /\ bx'.anchor = bx.anchor
  /\ bx'.seekGen \in Nat /\ bx'.seekGen >= bx.seekGen
  /\ UNCHANGED published
  /\ \A t \in Tokens, k \in Segs : NoNews(t, k)
  /\ \A th \in Threads : threads'[th] = threads[th] \/ Calm(th)
  /\ Orderly' => Orderly

LEMMA HarmlessKeeps ==
  ASSUME CleanInv, Harmless
  PROVE  Past' /\ (Orderly' => Clean')
<1>l. Len(runs') = Len(runs) /\ Len(runs) \in Nat
  BY RunFacts DEF Harmless, OnlyDies, CleanInv, TypeInv
<1>r. \A r \in 1..Len(runs) :
        /\ runs'[r].token = runs[r].token /\ runs'[r].anchor = runs[r].anchor
        /\ runs'[r].state \in Living => runs[r].state \in Living
  BY DEF Harmless, OnlyDies
<1>b. bx'.token = bx.token /\ bx'.anchor = bx.anchor
  BY DEF Harmless
<1>1. Unborn'
  <2> SUFFICES ASSUME NEW t \in Tokens, At(t, "fresh")'
      PROVE  /\ bx'.token # t
             /\ \A th \in Threads : threads'[th].token # t
             /\ \A r \in 1..Len(runs') : runs'[r].token # t
             /\ \A k \in Segs : ~Exists(t, k)'
    BY DEF Unborn
  <2>1. At(t, "fresh")
    BY RequestsAreThreads DEF At, Harmless, Calm
  <2>2. /\ bx.token # t
        /\ \A th \in Threads : threads[th].token # t
        /\ \A r \in 1..Len(runs) : runs[r].token # t
        /\ \A k \in Segs : ~Exists(t, k)
    BY <2>1 DEF CleanInv, Past, Unborn
  <2>3. \A th \in Threads : threads'[th].token # t
    BY <2>2 DEF Harmless, Calm
  <2>4. \A k \in Segs : ~Exists(t, k)'
    BY <2>2 DEF Harmless, NoNews, Exists
  <2> QED BY <1>l, <1>r, <1>b, <2>2, <2>3, <2>4
<1>2. KnownRuns'
  <2>1. \A t \in Tokens, k \in Segs : Exists(t, k)' => files'[t][k].run \in 1..Len(runs)
    BY DEF CleanInv, Past, KnownRuns, Harmless, NoNews, Exists
  <2>2. \A th \in Threads : At(th, "stamp")' => threads'[th].data.run \in 1..Len(runs)
    BY DEF CleanInv, Past, KnownRuns, Harmless, Calm, At
  <2> QED BY <1>l, <2>1, <2>2 DEF KnownRuns
<1>3. Noted'
  <2>1. ASSUME NEW th \in Threads, Live(th)', threads'[th].pc \in {"kill", "recheck"}
        PROVE  threads'[th].gen <= bx'.seekGen
    <3>1. threads'[th] = threads[th]
      BY <2>1 DEF Harmless, Calm
    <3>2. Live(th)
      BY <1>b, <2>1, <3>1 DEF Live, Mine
    <3>3. threads[th].gen <= bx.seekGen
      BY <2>1, <3>1, <3>2 DEF CleanInv, Past, Noted
    <3>4. threads[th].gen \in Nat /\ bx.seekGen \in Nat
      BY DEF CleanInv, TypeInv, TypeOK, Thread, Session
    <3> QED BY <3>1, <3>3, <3>4 DEF Harmless
  <2>2. ASSUME NEW th \in Threads, threads'[th].pc \in {"read", "stamp"}
        PROVE  threads'[th].seen <= published'[threads'[th].token]
    <3>1. CASE threads'[th] = threads[th]
      BY <2>2, <3>1 DEF CleanInv, Past, Noted, Harmless
    <3>2. CASE Calm(th)
      <4>1. threads'[th].token \in Tokens
            /\ threads'[th].seen = published[threads'[th].token]
        BY <2>2, <3>2 DEF Calm
      <4>2. published[threads'[th].token] \in Nat
        BY <4>1 DEF CleanInv, TypeInv, TypeOK
      <4> QED BY <4>1, <4>2 DEF Harmless
    <3> QED BY <3>1, <3>2 DEF Harmless
  <2> QED BY <2>1, <2>2 DEF Noted
<1>4. ASSUME Orderly' PROVE Clean'
  <2>c. Clean
    BY <1>4 DEF CleanInv, Harmless
  <2>h. ASSUME NEW th \in Threads, Hot(th)'
        PROVE  Hot(th) /\ threads'[th] = threads[th]
    <3>1. threads'[th] = threads[th]
      BY <2>h DEF Harmless, Calm, Hot, Spawning
    <3>2. Live(th)
      BY <1>b, <2>h, <3>1 DEF Hot, Live, Mine
    <3>3. CASE threads[th].pc \in Spawning
      BY <3>1, <3>2, <3>3 DEF Hot
    <3>4. CASE threads[th].pc \in {"kill", "recheck"} /\ threads[th].gen = bx'.seekGen
      <4>1. threads[th].gen <= bx.seekGen
        BY <3>2, <3>4 DEF CleanInv, Past, Noted
      <4>2. threads[th].gen \in Nat /\ bx.seekGen \in Nat
        BY DEF CleanInv, TypeInv, TypeOK, Thread, Session
      <4>3. threads[th].gen = bx.seekGen
        BY <3>4, <4>1, <4>2 DEF Harmless
      <4> QED BY <3>1, <3>2, <3>4, <4>3 DEF Hot
    <3> QED BY <2>h, <3>1, <3>3, <3>4 DEF Hot
  <2>s. \A r \in 1..Len(runs) : Busy(r)' => Busy(r)
    BY <1>r, <1>b DEF Busy
  <2>1. Exclusion'
    BY <2>c, <2>h DEF Clean, Exclusion
  <2>2. Single'
    BY <2>c, <2>s, <1>l DEF Clean, Single
  <2>e. \A t \in Tokens, k \in Segs : Exists(t, k) => files[t][k].run \in 1..Len(runs)
    BY DEF CleanInv, Past, KnownRuns
  <2>3. Anchored'
    <3>1. \A r \in 1..Len(runs) : Busy(r)' => runs'[r].anchor = bx'.anchor
      BY <1>r, <1>b, <2>c, <2>s DEF Clean, Anchored
    <3>2. ASSUME bx'.token # NoToken, NEW k \in Segs, Exists(bx.token, k)'
          PROVE  runs'[files'[bx'.token][k].run].anchor = bx'.anchor
      <4> DEFINE t == bx.token
      <4>1. t \in Tokens
        BY <1>b, <3>2 DEF CleanInv, TypeInv, TypeOK, Session
      <4>2. CASE files'[t][k] = files[t][k]
        <5>1. Exists(t, k)
          BY <1>b, <3>2, <4>2 DEF Exists
        <5>2. runs[files[t][k].run].anchor = bx.anchor
          BY <2>c, <4>1, <5>1 DEF Clean, Anchored, FilesOfTheRun, OfTheRun
        <5> QED BY <1>r, <1>b, <2>e, <4>1, <4>2, <5>1, <5>2
      <4>3. CASE \E r \in 1..Len(runs) :
                   runs[r].token = t /\ runs[r].state \in Living /\ files'[t][k].run = r
        <5>1. PICK r \in 1..Len(runs) :
                runs[r].token = t /\ runs[r].state \in Living /\ files'[t][k].run = r
          BY <4>3
        <5>2. runs[r].anchor = bx.anchor
          BY <2>c, <4>1, <5>1 DEF Clean, Anchored, Busy
        <5> QED BY <1>r, <1>b, <5>1, <5>2
      <4> QED BY <1>b, <3>2, <4>1, <4>2, <4>3 DEF Harmless, NoNews, Exists
    <3> QED BY <1>l, <3>1, <3>2 DEF Anchored, FilesOfTheRun, OfTheRun
  <2>4. Ready'
    <3> SUFFICES ASSUME NEW th \in Threads, Hot(th)'
        PROVE  /\ threads'[th].pc \in {"recheck", "clear", "publish", "start"} => NoneBusy'
               /\ threads'[th].pc \in {"publish", "start"} => Empty'
               /\ threads'[th].pc = "start" => bx'.anchor = threads'[th].k
      BY DEF Ready
    <3>1. Hot(th) /\ threads'[th] = threads[th]
      BY <2>h
    <3>2. NoneBusy => NoneBusy'
      BY <1>l, <2>s DEF NoneBusy
    <3>3. ASSUME NoneBusy, Empty PROVE Empty'
      <4>1. bx.token \in Tokens
        BY <3>1 DEF Hot, Live
      <4>2. \A k \in Segs : ~Exists(bx.token, k)'
        BY <3>3, <4>1 DEF Harmless, NoNews, NoneBusy, Empty, Busy, Exists
      <4> QED BY <1>b, <4>2 DEF Empty, Exists
    <3> QED BY <1>b, <2>c, <3>1, <3>2, <3>3 DEF Clean, Ready
  <2>5. Stamped'
    <3> SUFFICES ASSUME NEW th \in Threads, Live(th)', At(th, "stamp")',
                        threads'[th].seen = published'[bx'.token]
        PROVE  runs'[threads'[th].data.run].anchor = bx'.anchor
      BY DEF Stamped
    <3>1. threads'[th] = threads[th]
      BY DEF Harmless, Calm, At
    <3>2. Live(th) /\ At(th, "stamp") /\ threads[th].seen = published[bx.token]
      BY <1>b, <3>1 DEF Live, Mine, At, Harmless
    <3>3. threads[th].data.run \in 1..Len(runs)
      BY <3>2 DEF CleanInv, Past, KnownRuns
    <3> QED BY <1>r, <1>b, <2>c, <3>1, <3>2, <3>3 DEF Clean, Stamped
  <2> QED BY <2>1, <2>2, <2>3, <2>4, <2>5 DEF Clean
<1> QED BY <1>1, <1>2, <1>3, <1>4 DEF Past

(* What was noted of a meeting or a miss stays noted. *)
LEMMA OrderlyBefore == TypeOK /\ [Next]_vars => (Orderly' => Orderly)
<1> SUFFICES ASSUME TypeOK, [Next]_vars, Orderly' PROVE Orderly
  OBVIOUS
<1>1. ASSUME NEW th \in Threads, Spawn(th) PROVE Orderly
  BY <1>1 DEF Spawn, SpawnClear, SpawnPublish, SpawnStart, StopOld, Orderly, TypeOK, history
<1>2. ASSUME NEW q \in Requests, Request(q) PROVE Orderly
  BY <1>2 DEF Request, Arrive, Look, Seek, Settle, Restart, RestartKill, Recheck, Poll,
    PollEnds, Read, Stamp, Orderly, TypeOK, history
<1>3. ASSUME StopAll PROVE Orderly
  BY <1>3 DEF StopAll, StopReset, StopPop, StopKill, StopRemove, Orderly, history
<1>4. ASSUME NEW r \in DOMAIN runs, Ffmpeg(r) PROVE Orderly
  BY <1>4, FfmpegMoves DEF Orderly, history
<1>5. ASSUME NEW t \in Tokens, BxBegin(t) PROVE Orderly
  BY <1>5 DEF BxBegin, Orderly, history
<1> QED BY <1>1, <1>2, <1>3, <1>4, <1>5 DEF Next, Orderly, vars, history

LEMMA CalmGoto ==
  ASSUME TypeInv, NEW th \in Threads, Goto(th, threads'[th].pc),
         threads'[th].pc \in {"look", "seek", "debounce", "settled", "poll", "served", "done"}
  PROVE  \A o \in Threads : threads'[o] = threads[o] \/ Calm(o)
<1>1. OneMoves(th)
  BY GotoMoves DEF TypeInv
<1> QED BY <1>1 DEF OneMoves, Calm

LEMMA CalmReturns ==
  ASSUME TypeInv, NEW th \in Threads, Returns(th)
  PROVE  \A o \in Threads : threads'[o] = threads[o] \/ Calm(o)
<1>1. OneMoves(th) /\ threads'[th].pc \in {"done", "poll"}
  BY ReturnsMoves DEF TypeInv
<1> QED BY <1>1 DEF OneMoves, Calm

LEMMA CalmAnswered ==
  ASSUME TypeInv, NEW q \in Requests, Answered(q)
  PROVE  \A o \in Threads : threads'[o] = threads[o] \/ Calm(o)
<1>1. (\A o \in Threads : o # q => threads'[o] = threads[o]) /\ threads'[q] = Fresh
  BY AnsweredMoves, RequestsAreThreads DEF TypeInv
<1> QED BY <1>1 DEF Calm, Fresh

LEMMA CalmFound ==
  ASSUME TypeInv, NEW q \in Requests, Found(q), threads[q].token \in Tokens
  PROVE  \A o \in Threads : threads'[o] = threads[o] \/ Calm(o)
<1>1. OneMoves(q) /\ threads'[q].pc = "read"
      /\ threads'[q].seen = published[threads[q].token]
  BY FoundMoves, RequestsAreThreads DEF TypeInv
<1> QED BY <1>1 DEF OneMoves, Calm

(* A step of a calm thread. *)
LEMMA CalmKeeps ==
  ASSUME CleanInv, [Next]_vars, UNCHANGED <<bx, files, runs, published>>,
         \A o \in Threads : threads'[o] = threads[o] \/ Calm(o)
  PROVE  Past' /\ (Orderly' => Clean')
<1>1. OnlyDies
  BY UnchangedRuns DEF CleanInv, TypeInv
<1>2. bx.seekGen \in Nat
  BY DEF CleanInv, TypeInv, TypeOK, Session
<1>3. Orderly' => Orderly
  BY OrderlyBefore DEF CleanInv, TypeInv
<1>4. Harmless
  BY <1>1, <1>2, <1>3 DEF Harmless, NoNews
<1> QED BY <1>4, HarmlessKeeps

(* A step of one thread on its way to a new run, that starts none. *)
Advance(th) ==
  /\ OneMoves(th) /\ threads[th].pc # "fresh" /\ threads'[th].pc # "fresh"
  /\ OnlyDies
  /\ bx'.token = bx.token /\ bx'.seekGen = bx.seekGen
  /\ \A t \in Tokens : published'[t] \in Nat /\ published'[t] >= published[t]
  /\ \A t \in Tokens, k \in Segs : files'[t][k] = NoFile \/ files'[t][k] = files[t][k]
  /\ Live(th) /\ threads'[th].pc \in {"kill", "recheck"} => threads'[th].gen <= bx.seekGen
  /\ threads'[th].pc \in {"read", "stamp"} => threads'[th].seen <= published'[threads[th].token]
  /\ threads'[th].pc = "stamp" => threads'[th].data.run \in 1..Len(runs)

LEMMA AdvanceKeepsPast ==
  ASSUME CleanInv, NEW th \in Threads, Advance(th)
  PROVE  /\ Past'
         /\ \A o \in Threads : Live(o)' <=> Live(o)
         /\ \A o \in Threads : o # th => (Hot(o)' <=> Hot(o))
         /\ \A r \in 1..Len(runs) : Busy(r)' => Busy(r)
         /\ Len(runs') = Len(runs)
<1>l. Len(runs') = Len(runs)
  BY DEF Advance, OnlyDies
<1>r. \A r \in 1..Len(runs) :
        /\ runs'[r].token = runs[r].token /\ runs'[r].anchor = runs[r].anchor
        /\ runs'[r].state \in Living => runs[r].state \in Living
  BY DEF Advance, OnlyDies
<1>b. bx'.token = bx.token /\ bx'.seekGen = bx.seekGen
  BY DEF Advance
<1>t. \A o \in Threads : threads'[o].token = threads[o].token /\ (o # th => threads'[o] = threads[o])
  BY DEF Advance, OneMoves
<1>1. \A o \in Threads : Live(o)' <=> Live(o)
  BY <1>b, <1>t DEF Live, Mine
<1>2. \A o \in Threads : o # th => (Hot(o)' <=> Hot(o))
  BY <1>b, <1>t, <1>1 DEF Hot
<1>3. \A r \in 1..Len(runs) : Busy(r)' => Busy(r)
  BY <1>r, <1>b DEF Busy
<1>4. Unborn'
  <2>1. \A t \in Tokens : At(t, "fresh")' => At(t, "fresh")
    BY <1>t, RequestsAreThreads DEF At, Advance
  <2>2. \A t \in Tokens, k \in Segs : ~Exists(t, k) => ~Exists(t, k)'
    BY DEF Advance, Exists
  <2> QED BY <1>l, <1>r, <1>b, <1>t, <2>1, <2>2 DEF CleanInv, Past, Unborn
<1>5. KnownRuns'
  <2>1. \A t \in Tokens, k \in Segs : Exists(t, k)' => files'[t][k].run \in 1..Len(runs)
    BY DEF CleanInv, Past, KnownRuns, Advance, Exists
  <2>2. \A o \in Threads : At(o, "stamp")' => threads'[o].data.run \in 1..Len(runs)
    BY <1>t DEF CleanInv, Past, KnownRuns, Advance, At
  <2> QED BY <1>l, <2>1, <2>2 DEF KnownRuns
<1>6. Noted'
  <2>1. ASSUME NEW o \in Threads, Live(o)', threads'[o].pc \in {"kill", "recheck"}
        PROVE  threads'[o].gen <= bx'.seekGen
    BY <1>b, <1>t, <1>1, <2>1 DEF CleanInv, Past, Noted, Advance
  <2>2. ASSUME NEW o \in Threads, threads'[o].pc \in {"read", "stamp"}
        PROVE  threads'[o].seen <= published'[threads'[o].token]
    <3>1. CASE o = th
      BY <1>t, <2>2, <3>1 DEF Advance
    <3>2. CASE o # th
      <4>1. threads'[o] = threads[o] /\ threads[o].seen <= published[threads[o].token]
        BY <1>t, <2>2, <3>2 DEF CleanInv, Past, Noted
      <4>2. threads[o].token \in Tokens
        BY <2>2, <4>1 DEF CleanInv, TypeInv, Tokened
      <4>3. threads[o].seen \in Nat /\ published[threads[o].token] \in Nat
        BY <4>2 DEF CleanInv, TypeInv, TypeOK, Thread
      <4>4. /\ published'[threads[o].token] \in Nat
            /\ published'[threads[o].token] >= published[threads[o].token]
        BY <4>2 DEF Advance
      <4> QED BY <4>1, <4>3, <4>4
    <3> QED BY <3>1, <3>2
  <2> QED BY <2>1, <2>2 DEF Noted
<1> QED BY <1>l, <1>1, <1>2, <1>3, <1>4, <1>5, <1>6 DEF Past

(* A session begins: nothing of it exists yet. *)
LEMMA BeginKeeps ==
  ASSUME CleanInv, NEW t \in Tokens, BxBegin(t)
  PROVE  Past' /\ (Orderly' => Clean')
<1>1. /\ bx.token # t
      /\ \A th \in Threads : threads[th].token # t
      /\ \A r \in 1..Len(runs) : runs[r].token # t
      /\ \A k \in Segs : ~Exists(t, k)
  BY DEF BxBegin, CleanInv, Past, Unborn
<1>2. bx'.token = t /\ bx'.seekGen = 0
  BY DEF BxBegin, Idle
<1>3. threads[t] \in Thread /\ t \in Threads /\ t # NoToken
  BY RequestsAreThreads DEF CleanInv, TypeInv, TypeOK
<1>4. threads'[t].token = t /\ threads'[t].pc = "clear"
  BY <1>3 DEF BxBegin, CleanInv, TypeInv, TypeOK, Thread
<1>5. \A th \in Threads : th # t => threads'[th] = threads[th]
  BY DEF BxBegin, CleanInv, TypeInv, TypeOK
<1>6. UNCHANGED <<files, runs, published>>
  BY DEF BxBegin, history
<1>7. \A th \in Threads : Live(th)' => th = t
  BY <1>1, <1>2, <1>5 DEF Live, Mine
<1>8. Unborn'
  <2> SUFFICES ASSUME NEW s \in Tokens, At(s, "fresh")'
      PROVE  /\ bx'.token # s
             /\ \A th \in Threads : threads'[th].token # s
             /\ \A r \in 1..Len(runs') : runs'[r].token # s
             /\ \A k \in Segs : ~Exists(s, k)'
    BY DEF Unborn
  <2>1. s # t /\ At(s, "fresh")
    BY <1>4, <1>5, RequestsAreThreads DEF At
  <2>2. /\ \A th \in Threads : threads[th].token # s
        /\ \A r \in 1..Len(runs) : runs[r].token # s
        /\ \A k \in Segs : ~Exists(s, k)
    BY <2>1 DEF CleanInv, Past, Unborn
  <2> QED BY <1>2, <1>4, <1>5, <1>6, <2>1, <2>2 DEF Exists
<1>9. KnownRuns'
  BY <1>4, <1>5, <1>6 DEF KnownRuns, At, Exists, CleanInv, Past
<1>10. Noted'
  BY <1>4, <1>5, <1>6, <1>7 DEF Noted, CleanInv, Past
<1>11. \A r \in 1..Len(runs') : ~Busy(r)'
  BY <1>1, <1>2, <1>6 DEF Busy
<1>12. Clean'
  <2>1. Exclusion' /\ Single'
    BY <1>7, <1>11 DEF Exclusion, Single, Hot
  <2>2. Anchored'
    BY <1>1, <1>2, <1>6, <1>11 DEF Anchored, FilesOfTheRun, OfTheRun, Exists
  <2>3. Ready' /\ Stamped'
    BY <1>4, <1>7, <1>11 DEF Ready, Stamped, Hot, NoneBusy, At
  <2> QED BY <2>1, <2>2, <2>3 DEF Clean
<1> QED BY <1>8, <1>9, <1>10, <1>12 DEF Past

(* Without a session there is nothing to keep. *)
LEMMA ResetKeeps ==
  ASSUME CleanInv, StopReset
  PROVE  Past' /\ (Orderly' => Clean')
<1>1. bx'.token = NoToken /\ NoToken \notin Tokens
  BY DEF StopReset, Idle
<1>2. UNCHANGED <<files, runs, threads, published>>
  BY DEF StopReset, history
<1>3. \A th \in Threads : ~Live(th)'
  BY <1>1 DEF Live
<1>4. \A r \in 1..Len(runs') : ~Busy(r)'
  BY <1>1 DEF Busy
<1>5. Past'
  BY <1>1, <1>2, <1>3 DEF CleanInv, Past, Unborn, KnownRuns, Noted, At, Exists
<1>6. Clean'
  BY <1>1, <1>3, <1>4 DEF Clean, Exclusion, Single, Anchored, FilesOfTheRun, Ready, Stamped, Hot
<1> QED BY <1>5, <1>6

(* The directory is cleared when no run writes into it. *)
LEMMA ClearKeeps ==
  ASSUME CleanInv, [Next]_vars, NEW th \in Threads, SpawnClear(th)
  PROVE  Past' /\ (Orderly' => Clean')
<1> USE DEF At
<1>1. CASE ~Mine(th)
  BY <1>1, CalmReturns, CalmKeeps DEF SpawnClear, CleanInv, history
<1>2. CASE Mine(th)
  <2> DEFINE t == threads[th].token
  <2>1. OneMoves(th) /\ threads'[th].pc = "publish" /\ threads[th].pc = "clear"
    BY <1>2, GotoMoves DEF SpawnClear, CleanInv, TypeInv
  <2>2. t \in Tokens /\ bx.token = t
    BY <1>2, <2>1 DEF CleanInv, TypeInv, Tokened, Mine
  <2>3. UNCHANGED <<bx, runs, published>>
    BY DEF SpawnClear, history
  <2>4. OnlyDies
    BY <2>3, UnchangedRuns DEF CleanInv, TypeInv
  <2>5. files' = [files EXCEPT ![t] = [k \in Segs |-> NoFile]]
    BY <1>2 DEF SpawnClear
  <2>6. \A s \in Tokens, k \in Segs : files'[s][k] = IF s = t THEN NoFile ELSE files[s][k]
    BY <2>2, <2>5 DEF CleanInv, TypeInv, TypeOK
  <2>7. \A s \in Tokens : published[s] \in Nat
    BY DEF CleanInv, TypeInv, TypeOK
  <2>8. Advance(th)
    BY <2>1, <2>3, <2>4, <2>6, <2>7 DEF Advance
  <2> HIDE DEF t
  <2>9. /\ Past'
        /\ \A o \in Threads : Live(o)' <=> Live(o)
        /\ \A o \in Threads : o # th => (Hot(o)' <=> Hot(o))
        /\ \A r \in 1..Len(runs) : Busy(r)' => Busy(r)
        /\ Len(runs') = Len(runs)
    BY <2>8, AdvanceKeepsPast
  <2>10. Hot(th)
    BY <2>1, <2>2, <1>2 DEF Hot, Live, Spawning
  <2>11. ASSUME Orderly' PROVE Clean'
    <3>1. Clean
      BY <2>11, OrderlyBefore DEF CleanInv, TypeInv
    <3>2. NoneBusy
      BY <2>1, <2>10, <3>1 DEF Clean, Ready
    <3>3. \A o \in Threads : Hot(o)' => o = th
      BY <2>9, <2>10, <3>1 DEF Clean, Exclusion
    <3>4. \A r \in 1..Len(runs') : ~Busy(r)'
      BY <2>9, <3>2 DEF NoneBusy
    <3>5. \A k \in Segs : ~Exists(bx.token, k)'
      BY <2>2, <2>3, <2>6 DEF Exists
    <3>6. Exclusion' /\ Single'
      BY <3>3, <3>4 DEF Exclusion, Single
    <3>7. Anchored'
      BY <2>3, <3>4, <3>5 DEF Anchored, FilesOfTheRun, OfTheRun
    <3>8. Ready'
      BY <2>1, <2>3, <3>3, <3>4, <3>5 DEF Ready, NoneBusy, Empty, Exists
    <3>9. Stamped'
      BY <2>1, <2>3, <2>9, <3>1 DEF Clean, Stamped, OneMoves
    <3> QED BY <3>6, <3>7, <3>8, <3>9 DEF Clean
  <2> QED BY <2>9, <2>11
<1> QED BY <1>1, <1>2

(* The anchor is published over an empty directory. *)
LEMMA PublishKeeps ==
  ASSUME CleanInv, [Next]_vars, NEW th \in Threads, SpawnPublish(th)
  PROVE  Past' /\ (Orderly' => Clean')
<1> USE DEF At
<1>1. CASE ~Mine(th)
  BY <1>1, CalmReturns, CalmKeeps DEF SpawnPublish, CleanInv, history
<1>2. CASE Mine(th)
  <2> DEFINE t == bx.token
  <2>1. OneMoves(th) /\ threads'[th].pc = "start" /\ threads[th].pc = "publish"
    BY <1>2, GotoMoves DEF SpawnPublish, CleanInv, TypeInv
  <2>2. t \in Tokens
    BY <1>2, <2>1 DEF CleanInv, TypeInv, Tokened, Mine
  <2>3. UNCHANGED <<runs, files>>
    BY DEF SpawnPublish
  <2>4. OnlyDies
    BY <2>3, UnchangedRuns DEF CleanInv, TypeInv
  <2>5. bx' = [bx EXCEPT !.anchor = threads[th].k]
    BY <1>2 DEF SpawnPublish
  <2>6. bx'.token = t /\ bx'.seekGen = bx.seekGen /\ bx'.anchor = threads[th].k
    BY <2>5 DEF CleanInv, TypeInv, TypeOK, Session
  <2>7. \A s \in Tokens : /\ published[s] \in Nat
                          /\ published'[s] = IF s = t THEN published[s] + 1 ELSE published[s]
    BY <1>2, <2>2 DEF SpawnPublish, CleanInv, TypeInv, TypeOK
  <2>8. \A s \in Tokens : published'[s] \in Nat /\ published'[s] >= published[s]
    BY <2>7
  <2>9. Advance(th)
    BY <2>1, <2>3, <2>4, <2>6, <2>8 DEF Advance
  <2>10. /\ Past'
         /\ \A o \in Threads : Live(o)' <=> Live(o)
         /\ \A o \in Threads : o # th => (Hot(o)' <=> Hot(o))
         /\ \A r \in 1..Len(runs) : Busy(r)' => Busy(r)
         /\ Len(runs') = Len(runs)
    BY <2>9, AdvanceKeepsPast
  <2>11. Hot(th)
    BY <2>1, <2>2, <1>2 DEF Hot, Live, Spawning
  <2>12. ASSUME Orderly' PROVE Clean'
    <3>1. Clean
      BY <2>12, OrderlyBefore DEF CleanInv, TypeInv
    <3>2. NoneBusy /\ Empty
      BY <2>1, <2>11, <3>1 DEF Clean, Ready
    <3>3. \A o \in Threads : Hot(o)' => o = th
      BY <2>10, <2>11, <3>1 DEF Clean, Exclusion
    <3>4. \A r \in 1..Len(runs') : ~Busy(r)'
      BY <2>10, <3>2 DEF NoneBusy
    <3>5. \A k \in Segs : ~Exists(bx.token, k)'
      BY <2>3, <2>6, <3>2 DEF Exists, Empty
    <3>6. Exclusion' /\ Single'
      BY <3>3, <3>4 DEF Exclusion, Single
    <3>7. Anchored'
      BY <2>6, <3>4, <3>5 DEF Anchored, FilesOfTheRun, OfTheRun, Exists
    <3>8. Ready'
      BY <2>1, <2>6, <3>3, <3>4, <3>5 DEF Ready, NoneBusy, Empty, Exists, OneMoves
    <3>9. ASSUME NEW o \in Threads, Live(o)', At(o, "stamp")' PROVE threads'[o].seen # published'[t]
      <4>1. threads'[o] = threads[o] /\ threads[o].pc = "stamp"
        BY <2>1, <3>9 DEF OneMoves
      <4>2. threads[o].token = t
        BY <2>10, <3>9 DEF Live, Mine
      <4>3. threads[o].seen <= published[t]
        BY <4>1, <4>2 DEF CleanInv, Past, Noted
      <4>4. threads[o].seen \in Nat /\ published[t] \in Nat /\ published'[t] = published[t] + 1
        BY <2>2, <2>7 DEF CleanInv, TypeInv, TypeOK, Thread
      <4> QED BY <4>1, <4>3, <4>4
    <3>10. Stamped'
      BY <2>6, <3>9 DEF Stamped
    <3> QED BY <3>6, <3>7, <3>8, <3>10 DEF Clean
  <2> QED BY <2>10, <2>12
<1> QED BY <1>1, <1>2

(* The new run is the only one, and writes under the anchor published. *)
LEMMA StartKeeps ==
  ASSUME CleanInv, [Next]_vars, NEW th \in Threads, SpawnStart(th)
  PROVE  Past' /\ (Orderly' => Clean')
<1> DEFINE t == threads[th].token
           x == [token |-> t, anchor |-> threads[th].k, at |-> threads[th].k,
                 state |-> "starting", client |-> TRUE]
           n == Len(runs) + 1
<1>1. threads[th].pc = "start" /\ t \in Tokens /\ threads[th] \in Thread
  BY DEF SpawnStart, CleanInv, TypeInv, TypeOK, Tokened, At
<1>2. UNCHANGED <<bx, files, published>>
  BY DEF SpawnStart, session, history
<1>3. x \in Run
  BY <1>1 DEF Thread, Run
<1>4. Len(runs) \in Nat /\ \A r \in 1..Len(runs) : runs[r] \in Run
  BY RunFacts DEF CleanInv, TypeInv
<1>5. /\ Len(runs') = n /\ runs'[n] = x
      /\ \A r \in 1..Len(runs) : runs'[r] = runs[r]
  BY <1>3, AppendProperties DEF SpawnStart, CleanInv, TypeInv, TypeOK
<1>6. OneMoves(th) /\ threads'[th].pc \in {"done", "poll", "stopOld"}
  <2>1. CASE registry[t] = 0
    BY <2>1, ReturnsMoves DEF SpawnStart, CleanInv, TypeInv
  <2>2. CASE registry[t] # 0
    <3>1. threads' = [threads EXCEPT ![th] = [threads[th] EXCEPT !.pc = "stopOld", !.run = registry[t]]]
      BY <2>2 DEF SpawnStart
    <3> QED BY <3>1, <1>1 DEF CleanInv, TypeInv, TypeOK, Thread, OneMoves
  <2> QED BY <2>1, <2>2
<1> HIDE DEF t, x
<1>x. x.token = t /\ x.anchor = threads[th].k /\ t = threads[th].token
  BY DEF x, t
<1>7. Unborn'
  <2> SUFFICES ASSUME NEW s \in Tokens, At(s, "fresh")'
      PROVE  /\ bx'.token # s
             /\ \A o \in Threads : threads'[o].token # s
             /\ \A r \in 1..Len(runs') : runs'[r].token # s
             /\ \A k \in Segs : ~Exists(s, k)'
    BY DEF Unborn
  <2>1. At(s, "fresh")
    BY <1>6, RequestsAreThreads DEF At, OneMoves
  <2>2. /\ bx.token # s
        /\ \A o \in Threads : threads[o].token # s
        /\ \A r \in 1..Len(runs) : runs[r].token # s
        /\ \A k \in Segs : ~Exists(s, k)
    BY <2>1 DEF CleanInv, Past, Unborn
  <2>3. \A r \in 1..Len(runs') : runs'[r].token # s
    BY <1>4, <1>5, <1>x, <2>2
  <2>4. \A o \in Threads : threads'[o].token # s
    BY <1>6, <2>2 DEF OneMoves
  <2> QED BY <1>2, <2>2, <2>3, <2>4 DEF Exists
<1>8. KnownRuns'
  <2>1. \A s \in Tokens, k \in Segs : Exists(s, k)' => files'[s][k].run \in 1..Len(runs)
    BY <1>2 DEF CleanInv, Past, KnownRuns, Exists
  <2>2. \A o \in Threads : At(o, "stamp")' => threads'[o].data.run \in 1..Len(runs)
    BY <1>6 DEF CleanInv, Past, KnownRuns, At, OneMoves
  <2>3. \A r \in 1..Len(runs) : r \in 1..Len(runs')
    BY <1>4, <1>5
  <2> QED BY <2>1, <2>2, <2>3 DEF KnownRuns
<1>9. \A o \in Threads : Live(o)' <=> Live(o)
  BY <1>2, <1>6 DEF Live, Mine, OneMoves
<1>10. Noted'
  BY <1>2, <1>6, <1>9 DEF CleanInv, Past, Noted, OneMoves
<1>11. \A r \in 1..Len(runs) : Busy(r)' => Busy(r)
  BY <1>2, <1>5 DEF Busy
<1>12. ASSUME Orderly' PROVE Clean'
  <2>1. Clean
    BY <1>12, OrderlyBefore DEF CleanInv, TypeInv
  <2>2. \A o \in Threads : Hot(o)' => Hot(o)
    BY <1>1, <1>2, <1>6, <1>9 DEF Hot, OneMoves, Spawning
  <2>3. Exclusion'
    BY <2>1, <2>2 DEF Clean, Exclusion
  <2>4. \A o \in Threads : Hot(o)' /\ o # th => threads'[o] = threads[o]
    BY <1>6 DEF OneMoves
  <2>5. \A k \in Segs : bx.token \in Tokens /\ Exists(bx.token, k) =>
          files[bx.token][k].run \in 1..Len(runs)
    BY DEF CleanInv, Past, KnownRuns
  <2>6. Stamped'
    <3> SUFFICES ASSUME NEW o \in Threads, Live(o)', At(o, "stamp")',
                        threads'[o].seen = published'[bx'.token]
        PROVE  runs'[threads'[o].data.run].anchor = bx'.anchor
      BY DEF Stamped
    <3>1. threads'[o] = threads[o]
      BY <1>6 DEF OneMoves, At
    <3>2. Live(o) /\ At(o, "stamp") /\ threads[o].seen = published[bx.token]
      BY <1>2, <1>9, <3>1 DEF At
    <3>3. threads[o].data.run \in 1..Len(runs)
      BY <3>2 DEF CleanInv, Past, KnownRuns
    <3> QED BY <1>2, <1>5, <2>1, <3>1, <3>2, <3>3 DEF Clean, Stamped
  <2>7. \A k \in Segs : bx.token \in Tokens /\ Exists(bx.token, k) =>
          runs'[files[bx.token][k].run].anchor = bx.anchor
    <3> SUFFICES ASSUME NEW k \in Segs, bx.token \in Tokens, Exists(bx.token, k)
        PROVE  runs'[files[bx.token][k].run].anchor = bx.anchor
      OBVIOUS
    <3>1. runs[files[bx.token][k].run].anchor = bx.anchor
      BY <2>1 DEF Clean, Anchored, FilesOfTheRun, OfTheRun
    <3> QED BY <1>5, <2>5, <3>1
  <2>8. FilesOfTheRun'
    BY <1>2, <2>7 DEF FilesOfTheRun, OfTheRun, Exists, CleanInv, TypeInv, TypeOK, Session
  <2>9. CASE Live(th)
    <3>1. Hot(th) /\ bx.token = t
      BY <1>1, <1>x, <2>9 DEF Hot, Spawning, Live, Mine
    <3>2. NoneBusy /\ bx.anchor = threads[th].k
      BY <1>1, <2>1, <3>1 DEF Clean, Ready
    <3>3. \A r \in 1..Len(runs') : Busy(r)' => r = n
      BY <1>4, <1>5, <1>11, <3>2 DEF NoneBusy
    <3>4. Single'
      BY <3>3 DEF Single
    <3>5. Anchored'
      BY <1>2, <1>5, <1>x, <2>8, <3>2, <3>3 DEF Anchored
    <3>6. Ready'
      BY <1>6, <2>1, <2>2, <3>1 DEF Ready, Clean, Exclusion
    <3> QED BY <2>3, <2>6, <3>4, <3>5, <3>6 DEF Clean
  <2>10. CASE ~Live(th)
    <3>1. t # bx.token
      BY <1>1, <1>x, <2>10 DEF Live, Mine
    <3>2. \A r \in 1..Len(runs') : Busy(r)' => r \in 1..Len(runs) /\ Busy(r)
      BY <1>2, <1>4, <1>5, <1>11, <1>x, <3>1 DEF Busy
    <3>3. Single'
      BY <2>1, <3>2 DEF Clean, Single
    <3>4. Anchored'
      BY <1>2, <1>5, <2>1, <2>8, <3>2 DEF Anchored, Clean
    <3>5. NoneBusy => NoneBusy'
      BY <3>2 DEF NoneBusy
    <3>6. Empty => Empty'
      BY <1>2 DEF Empty, Exists
    <3>7. \A o \in Threads : Hot(o)' => Hot(o) /\ threads'[o] = threads[o]
      BY <2>2, <2>4, <2>10 DEF Hot
    <3>8. Ready'
      BY <1>2, <2>1, <3>5, <3>6, <3>7 DEF Clean, Ready
    <3> QED BY <2>3, <2>6, <3>3, <3>4, <3>8 DEF Clean
  <2> QED BY <2>9, <2>10
<1> QED BY <1>7, <1>8, <1>10, <1>12 DEF Past

LEMMA StopOldKeeps ==
  ASSUME CleanInv, [Next]_vars, NEW th \in Threads, StopOld(th)
  PROVE  Past' /\ (Orderly' => Clean')
<1>1. OnlyDies
  BY AfterKillDies DEF StopOld, CleanInv, TypeInv
<1>2. bx.seekGen \in Nat /\ (Orderly' => Orderly)
  BY OrderlyBefore DEF CleanInv, TypeInv, TypeOK, Session
<1>3. \A o \in Threads : threads'[o] = threads[o] \/ Calm(o)
  BY CalmReturns DEF StopOld, CleanInv
<1>4. Harmless
  BY <1>1, <1>2, <1>3 DEF StopOld, Harmless, NoNews, session
<1> QED BY <1>4, HarmlessKeeps

LEMMA SpawnKeeps ==
  ASSUME CleanInv, [Next]_vars, NEW th \in Threads, Spawn(th)
  PROVE  Past' /\ (Orderly' => Clean')
BY ClearKeeps, PublishKeeps, StartKeeps, StopOldKeeps DEF Spawn

(* A newer seek makes the numbers noted before it old. *)
LEMMA SeekKeeps ==
  ASSUME CleanInv, [Next]_vars, NEW q \in Requests, Seek(q)
  PROVE  Past' /\ (Orderly' => Clean')
<1> USE DEF At
<1>1. CASE ~Mine(q)
  BY <1>1, CalmAnswered, CalmKeeps DEF Seek, CleanInv
<1>2. CASE Mine(q)
  <2>1. OneMoves(q) /\ threads'[q].pc = "debounce"
    BY <1>2, GotoMoves, RequestsAreThreads DEF Seek, CleanInv, TypeInv
  <2>2. bx \in Session /\ bx.seekGen \in Nat
    BY DEF CleanInv, TypeInv, TypeOK, Session
  <2>3. bx' = [bx EXCEPT !.pending = threads[q].k, !.seekGen = bx.seekGen + 1]
    BY <1>2 DEF Seek
  <2>4. bx'.token = bx.token /\ bx'.anchor = bx.anchor /\ bx'.seekGen = bx.seekGen + 1
    BY <2>2, <2>3 DEF Session
  <2>5. UNCHANGED <<files, runs, published>>
    BY DEF Seek
  <2>6. OnlyDies /\ (Orderly' => Orderly)
    BY <2>5, UnchangedRuns, OrderlyBefore DEF CleanInv, TypeInv
  <2>7. \A o \in Threads : threads'[o] = threads[o] \/ Calm(o)
    BY <2>1 DEF OneMoves, Calm
  <2>8. Harmless
    BY <2>2, <2>4, <2>5, <2>6, <2>7 DEF Harmless, NoNews
  <2> QED BY <2>8, HarmlessKeeps
<1> QED BY <1>1, <1>2

(* The steps of a seek that leave the session, the disk and the counts. *)
LEMMA StepKeepsPast ==
  ASSUME CleanInv, NEW q \in Requests, OneMoves(q), OnlyDies,
         threads[q].pc # "fresh", threads'[q].pc \in {"kill", "recheck", "clear"},
         UNCHANGED <<bx, files, published>>,
         Live(q) /\ threads'[q].pc # "clear" => threads'[q].gen <= bx.seekGen
  PROVE  /\ Past'
         /\ \A o \in Threads : Live(o)' <=> Live(o)
         /\ \A o \in Threads : o # q => (Hot(o)' <=> Hot(o))
         /\ \A r \in 1..Len(runs) : Busy(r)' => Busy(r)
         /\ Len(runs') = Len(runs)
<1>1. \A s \in Tokens : published[s] \in Nat
  BY DEF CleanInv, TypeInv, TypeOK
<1>2. Advance(q)
  BY <1>1 DEF Advance
<1> QED BY <1>2, AdvanceKeepsPast, RequestsAreThreads

(* Of what such a step owes to the files and to the segments read. *)
LEMMA StepKeepsFiles ==
  ASSUME CleanInv, NEW q \in Requests, OneMoves(q), OnlyDies, Clean,
         threads'[q].pc \in {"kill", "recheck", "clear"},
         UNCHANGED <<bx, files, published>>
  PROVE  Single' /\ Anchored' /\ Stamped'
<1>1. /\ Len(runs') = Len(runs)
      /\ \A r \in 1..Len(runs) : /\ runs'[r].anchor = runs[r].anchor
                                 /\ Busy(r)' => Busy(r)
  BY DEF OnlyDies, Busy
<1>2. Single'
  BY <1>1 DEF Clean, Single
<1>3. \A r \in 1..Len(runs) : Busy(r)' => runs'[r].anchor = bx'.anchor
  BY <1>1 DEF Clean, Anchored
<1>4. ASSUME NEW k \in Segs, bx.token # NoToken, Exists(bx.token, k)
      PROVE  runs'[files[bx.token][k].run].anchor = bx.anchor
  <2>1. files[bx.token][k].run \in 1..Len(runs)
    BY <1>4 DEF CleanInv, Past, KnownRuns, TypeInv, TypeOK, Session
  <2>2. runs[files[bx.token][k].run].anchor = bx.anchor
    BY <1>4 DEF Clean, Anchored, FilesOfTheRun, OfTheRun
  <2> QED BY <1>1, <2>1, <2>2
<1>5. Anchored'
  BY <1>1, <1>3, <1>4 DEF Anchored, FilesOfTheRun, OfTheRun, Exists
<1>6. Stamped'
  <2> SUFFICES ASSUME NEW o \in Threads, Live(o)', At(o, "stamp")',
                      threads'[o].seen = published'[bx'.token]
      PROVE  runs'[threads'[o].data.run].anchor = bx'.anchor
    BY DEF Stamped
  <2>1. threads'[o] = threads[o]
    BY DEF OneMoves, At
  <2>2. Live(o) /\ At(o, "stamp") /\ threads[o].seen = published[bx.token]
    BY <2>1 DEF Live, Mine, At
  <2>3. threads[o].data.run \in 1..Len(runs)
    BY <2>2 DEF CleanInv, Past, KnownRuns
  <2> QED BY <1>1, <2>1, <2>2, <2>3 DEF Clean, Stamped
<1> QED BY <1>2, <1>5, <1>6

(* A restart that meets another on its way is a crossing. *)
LEMMA RestartKeeps ==
  ASSUME CleanInv, [Next]_vars, NEW q \in Requests, Restart(q)
  PROVE  Past' /\ (Orderly' => Clean')
<1> USE DEF At
<1>q. q \in Threads /\ threads[q] \in Thread /\ q \notin Tokens
  BY RequestsAreThreads DEF CleanInv, TypeInv, TypeOK
<1>1. CASE ~Mine(q)
  <2>1. \A o \in Threads : threads'[o] = threads[o] \/ Calm(o)
    BY <1>1, <1>q, CalmReturns DEF Restart, CleanInv
  <2> QED BY <2>1, CalmKeeps DEF Restart, session
<1>2. CASE Mine(q)
  <2>1. threads' = [threads EXCEPT ![q] =
          [threads[q] EXCEPT !.pc = "kill", !.gen = bx.seekGen, !.run = registry[bx.token]]]
    BY <1>2 DEF Restart
  <2>2. OneMoves(q) /\ threads'[q].pc = "kill" /\ threads'[q].gen = bx.seekGen
    BY <2>1, <1>q DEF CleanInv, TypeInv, TypeOK, Thread, OneMoves
  <2>3. UNCHANGED <<bx, files, runs, published>> /\ threads[q].pc = "settled"
    BY DEF Restart, session
  <2>4. OnlyDies /\ bx.seekGen \in Nat
    BY <2>3, UnchangedRuns DEF CleanInv, TypeInv, TypeOK, Session
  <2>5. /\ Past'
        /\ \A o \in Threads : Live(o)' <=> Live(o)
        /\ \A o \in Threads : o # q => (Hot(o)' <=> Hot(o))
        /\ \A r \in 1..Len(runs) : Busy(r)' => Busy(r)
        /\ Len(runs') = Len(runs)
    BY <2>2, <2>3, <2>4, StepKeepsPast
  <2>6. ASSUME Orderly' PROVE Clean'
    <3>1. Clean
      BY <2>6, OrderlyBefore DEF CleanInv, TypeInv
    <3>2. Single' /\ Anchored' /\ Stamped'
      BY <2>2, <2>3, <2>4, <3>1, StepKeepsFiles
    <3>3. \A o \in Rivals(q) : /\ ~Unchecked(o)
                               /\ ~(threads[o].pc \in {"kill", "recheck"}
                                    /\ threads[o].gen = bx.seekGen)
      BY <1>2, <2>6 DEF Restart, Orderly
    <3>4. \A o \in Threads : Hot(o) /\ o # q => o \in Rivals(q)
      BY <1>2 DEF Hot, Live, Mine, Rivals
    <3>5. \A o \in Threads : Hot(o)' => o = q
      BY <2>5, <3>3, <3>4 DEF Hot, Unchecked
    <3>6. Exclusion' /\ Ready'
      BY <2>2, <3>5 DEF Exclusion, Ready
    <3> QED BY <3>2, <3>6 DEF Clean
  <2> QED BY <2>5, <2>6
<1> QED BY <1>1, <1>2

LEMMA OneIsOldest == \A r \in Nat : Oldest({r}) = {r}
BY DEF Oldest, Min

(* The kill sees the one run there is. *)
LEMMA KillKeeps ==
  ASSUME CleanInv, [Next]_vars, NEW q \in Requests, RestartKill(q)
  PROVE  Past' /\ (Orderly' => Clean')
<1> DEFINE t == threads[q].token
           n == IF threads[q].run = 0 THEN 1 ELSE 2
<1>q. q \in Threads /\ threads[q] \in Thread
  BY RequestsAreThreads DEF CleanInv, TypeInv, TypeOK
<1>1. /\ OneMoves(q) /\ threads[q].pc = "kill" /\ threads'[q].pc = "recheck"
      /\ threads'[q].gen = threads[q].gen
  BY <1>q, GotoMoves DEF RestartKill, CleanInv, TypeInv, At
<1>2. /\ OnlyDies
      /\ \A r \in 1..Len(runs) : runs'[r].state \in Living => r \notin Killed(t, n)
  BY AfterKillDies DEF RestartKill, CleanInv, TypeInv
<1>3. UNCHANGED <<bx, files, published>>
  BY DEF RestartKill, session
<1>4. Live(q) => threads'[q].gen <= bx.seekGen
  BY <1>1, <1>q DEF CleanInv, Past, Noted
<1>5. /\ Past'
      /\ \A o \in Threads : Live(o)' <=> Live(o)
      /\ \A o \in Threads : o # q => (Hot(o)' <=> Hot(o))
      /\ \A r \in 1..Len(runs) : Busy(r)' => Busy(r)
      /\ Len(runs') = Len(runs)
  BY <1>1, <1>2, <1>3, <1>4, StepKeepsPast
<1>6. ASSUME Orderly' PROVE Clean'
  <2>1. Clean
    BY <1>6, OrderlyBefore DEF CleanInv, TypeInv
  <2>2. Single' /\ Anchored' /\ Stamped'
    BY <1>1, <1>2, <1>3, <2>1, StepKeepsFiles
  <2>3. Hot(q)' => Hot(q)
    BY <1>q, <1>1, <1>3, <1>5 DEF Hot, Spawning
  <2>4. Exclusion'
    BY <1>5, <2>1, <2>3 DEF Clean, Exclusion
  <2>5. ASSUME Live(q), NEW r \in 1..Len(runs), Busy(r)' PROVE FALSE
    <3>1. Busy(r) /\ runs[r].token = t /\ bx.token = t
      BY <1>5, <2>5 DEF Live, Mine, Busy
    <3>2. DOMAIN runs = 1..Len(runs) /\ r \in Nat
      BY RunFacts DEF CleanInv, TypeInv
    <3>3. runs[r].state = "running"
      BY <1>6, <3>1, <3>2 DEF RestartKill, Orderly, Busy, Living
    <3>4. r \in Visible(t)
      BY <3>1, <3>2, <3>3 DEF Visible
    <3>5. \A s \in Visible(t) : s = r
      BY <2>1, <3>1, <3>2 DEF Visible, Clean, Single, Busy, Living
    <3>6. Visible(t) = {r}
      BY <3>4, <3>5
    <3>7. r \in Killed(t, n)
      BY <3>2, <3>6, OneIsOldest DEF Killed
    <3>8. runs'[r].state \in Living
      BY <2>5 DEF Busy
    <3> QED BY <1>2, <3>7, <3>8
  <2>6. Ready'
    <3> SUFFICES ASSUME NEW o \in Threads, Hot(o)'
        PROVE  /\ threads'[o].pc \in {"recheck", "clear", "publish", "start"} => NoneBusy'
               /\ threads'[o].pc \in {"publish", "start"} => Empty'
               /\ threads'[o].pc = "start" => bx'.anchor = threads'[o].k
      BY DEF Ready
    <3>1. CASE o = q
      <4>1. Live(q)
        BY <2>3, <3>1 DEF Hot
      <4>2. NoneBusy'
        BY <1>5, <2>5, <4>1 DEF NoneBusy
      <4> QED BY <1>1, <3>1, <4>2
    <3>2. CASE o # q
      <4>1. Hot(o) /\ threads'[o] = threads[o]
        BY <1>1, <1>5, <3>2 DEF OneMoves
      <4>2. (NoneBusy => NoneBusy') /\ (Empty => Empty')
        BY <1>3, <1>5 DEF NoneBusy, Empty, Exists
      <4> QED BY <1>3, <2>1, <4>1, <4>2 DEF Clean, Ready
    <3> QED BY <3>1, <3>2
  <2> QED BY <2>2, <2>4, <2>6 DEF Clean
<1> QED BY <1>5, <1>6

(* The restart that is still the newest goes on to spawn. *)
LEMMA RecheckKeeps ==
  ASSUME CleanInv, [Next]_vars, NEW q \in Requests, Recheck(q)
  PROVE  Past' /\ (Orderly' => Clean')
<1> USE DEF At
<1>q. q \in Threads /\ threads[q] \in Thread
  BY RequestsAreThreads DEF CleanInv, TypeInv, TypeOK
<1>3. UNCHANGED <<bx, files, runs, published>> /\ threads[q].pc = "recheck"
  BY DEF Recheck, session, history
<1>1. CASE ~(Mine(q) /\ bx.seekGen = threads[q].gen)
  <2>1. \A o \in Threads : threads'[o] = threads[o] \/ Calm(o)
    BY <1>1, <1>q, CalmReturns DEF Recheck, CleanInv
  <2> QED BY <2>1, <1>3, CalmKeeps
<1>2. CASE Mine(q) /\ bx.seekGen = threads[q].gen
  <2>1. OneMoves(q) /\ threads'[q].pc = "clear"
    BY <1>2, <1>q, GotoMoves DEF Recheck, CleanInv, TypeInv
  <2>2. OnlyDies
    BY <1>3, UnchangedRuns DEF CleanInv, TypeInv
  <2>3. /\ Past'
        /\ \A o \in Threads : Live(o)' <=> Live(o)
        /\ \A o \in Threads : o # q => (Hot(o)' <=> Hot(o))
        /\ \A r \in 1..Len(runs) : Busy(r)' => Busy(r)
        /\ Len(runs') = Len(runs)
    BY <1>3, <2>1, <2>2, StepKeepsPast
  <2>4. ASSUME Orderly' PROVE Clean'
    <3>1. Clean
      BY <2>4, OrderlyBefore DEF CleanInv, TypeInv
    <3>2. Single' /\ Anchored' /\ Stamped'
      BY <1>3, <2>1, <2>2, <3>1, StepKeepsFiles
    <3>3. Hot(q)' => Hot(q)
      BY <1>q, <1>2, <1>3, <2>3 DEF Hot
    <3>4. Exclusion'
      BY <2>3, <3>1, <3>3 DEF Clean, Exclusion
    <3>5. (NoneBusy => NoneBusy') /\ (Empty => Empty')
      BY <1>3, <2>3 DEF NoneBusy, Empty, Exists
    <3>6. \A o \in Threads : o # q => threads'[o] = threads[o]
      BY <2>1 DEF OneMoves
    <3>7. Ready'
      BY <1>q, <1>3, <2>1, <2>3, <3>1, <3>3, <3>5, <3>6 DEF Clean, Ready
    <3> QED BY <3>2, <3>4, <3>7 DEF Clean
  <2> QED BY <2>3, <2>4
<1> QED BY <1>1, <1>2

(* The file read is the current run's. *)
LEMMA ReadKeeps ==
  ASSUME CleanInv, [Next]_vars, NEW q \in Requests, Read(q)
  PROVE  Past' /\ (Orderly' => Clean')
<1> DEFINE file == files[threads[q].token][threads[q].k]
           x == [threads[q] EXCEPT !.pc = "stamp", !.data = file]
<1>q. q \in Threads /\ threads[q] \in Thread
  BY RequestsAreThreads DEF CleanInv, TypeInv, TypeOK
<1>u. UNCHANGED <<bx, files, runs, published>> /\ threads[q].pc = "read"
  BY DEF Read, At, session, history
<1>t. threads[q].token \in Tokens /\ threads[q].k \in Segs
  BY <1>q, <1>u DEF CleanInv, TypeInv, Tokened, Thread
<1>1. CASE Answered(q)
  BY <1>1, <1>u, CalmAnswered, CalmKeeps DEF CleanInv
<1>2. CASE file # NoFile /\ threads' = [threads EXCEPT ![q] = x]
  <2>1. /\ x.token = threads[q].token /\ x.k = threads[q].k /\ x.pc = "stamp"
        /\ x.data = file /\ x.seen = threads[q].seen
    BY <1>q DEF Thread
  <2>2. /\ OneMoves(q) /\ threads'[q].pc = "stamp" /\ threads'[q].data = file
        /\ threads'[q].seen = threads[q].seen
    BY <1>2, <1>q, <2>1 DEF CleanInv, TypeInv, TypeOK, OneMoves
  <2> HIDE DEF x
  <2>3. OnlyDies
    BY <1>u, UnchangedRuns DEF CleanInv, TypeInv
  <2>4. file.run \in 1..Len(runs) /\ Exists(threads[q].token, threads[q].k)
    BY <1>2, <1>t DEF CleanInv, Past, KnownRuns, Exists
  <2>5. threads[q].seen <= published[threads[q].token]
    BY <1>q, <1>u DEF CleanInv, Past, Noted
  <2>6. \A s \in Tokens : published[s] \in Nat
    BY DEF CleanInv, TypeInv, TypeOK
  <2>7. Advance(q)
    BY <1>u, <1>t, <2>2, <2>3, <2>4, <2>5, <2>6 DEF Advance
  <2>8. /\ Past'
        /\ \A o \in Threads : Live(o)' <=> Live(o)
        /\ \A o \in Threads : o # q => (Hot(o)' <=> Hot(o))
        /\ \A r \in 1..Len(runs) : Busy(r)' => Busy(r)
        /\ Len(runs') = Len(runs)
    BY <1>q, <2>7, AdvanceKeepsPast
  <2>9. ASSUME Orderly' PROVE Clean'
    <3>1. Clean
      BY <2>9, OrderlyBefore DEF CleanInv, TypeInv
    <3>2. ~Hot(q)'
      BY <2>2 DEF Hot, Spawning
    <3>3. Exclusion' /\ Single'
      BY <2>8, <3>1, <3>2 DEF Clean, Exclusion, Single
    <3>4. Anchored'
      BY <1>u, <2>8, <3>1 DEF Clean, Anchored, FilesOfTheRun, OfTheRun, Exists
    <3>5. (NoneBusy => NoneBusy') /\ (Empty => Empty')
      BY <1>u, <2>8 DEF NoneBusy, Empty, Exists
    <3>6. Ready'
      BY <1>u, <2>2, <2>8, <3>1, <3>2, <3>5 DEF Clean, Ready, OneMoves
    <3>7. ASSUME Live(q) PROVE runs[file.run].anchor = bx.anchor
      <4>1. bx.token = threads[q].token /\ bx.token # NoToken
        BY <3>7 DEF Live, Mine
      <4> QED BY <1>t, <2>4, <3>1, <4>1 DEF Clean, Anchored, FilesOfTheRun, OfTheRun
    <3>8. Stamped'
      BY <1>u, <2>2, <2>8, <3>1, <3>7 DEF Clean, Stamped, OneMoves, At
    <3> QED BY <3>3, <3>4, <3>6, <3>8 DEF Clean
  <2> QED BY <2>8, <2>9
<1> QED BY <1>1, <1>2 DEF Read

LEMMA RequestKeeps ==
  ASSUME CleanInv, [Next]_vars, NEW q \in Requests, Request(q)
  PROVE  Past' /\ (Orderly' => Clean')
<1> USE DEF At
<1>q. q \in Threads /\ q \notin Tokens /\ threads[q] \in Thread
  BY RequestsAreThreads DEF CleanInv, TypeInv, TypeOK
<1>i. TypeInv
  BY DEF CleanInv
<1>1. ASSUME NEW k \in Segs, Arrive(q, k) PROVE Past' /\ (Orderly' => Clean')
  <2> DEFINE x == [Fresh EXCEPT !.pc = "look", !.token = bx.token, !.k = k]
  <2>1. threads' = [threads EXCEPT ![q] = x] /\ x.pc = "look" /\ x.token = bx.token
    BY <1>1 DEF Arrive, Fresh
  <2> HIDE DEF x
  <2>2. \A o \in Threads : threads'[o] = threads[o] \/ Calm(o)
    BY <1>q, <1>i, <2>1 DEF TypeInv, TypeOK, Calm
  <2> QED BY <1>1, <2>2, CalmKeeps DEF Arrive, session, history
<1>2. CASE Look(q)
  <2>1. UNCHANGED <<bx, files, runs, published>> /\ threads[q].token \in Tokens
    BY <1>2, <1>q, <1>i DEF Look, TypeInv, Tokened, session, history
  <2>2. CASE Found(q)
    BY <1>i, <2>1, <2>2, CalmFound, CalmKeeps
  <2>3. CASE Answered(q)
    BY <1>i, <2>1, <2>3, CalmAnswered, CalmKeeps
  <2>4. ASSUME NEW pc \in {"poll", "seek"}, Goto(q, pc)
        PROVE Past' /\ (Orderly' => Clean')
    <3>1. threads'[q].pc = pc
      BY <1>i, <1>q, <2>4, GotoMoves DEF TypeInv
    <3> QED BY <1>i, <1>q, <2>1, <2>4, <3>1, CalmGoto, CalmKeeps
  <2> QED BY <1>2, <2>2, <2>3, <2>4 DEF Look
<1>3. CASE Settle(q)
  <2>1. PICK pc \in {"settled", "poll"} : Goto(q, pc)
    BY <1>3 DEF Settle
  <2>2. threads'[q].pc = pc
    BY <1>i, <1>q, <2>1, GotoMoves DEF TypeInv
  <2> QED BY <1>3, <1>i, <1>q, <2>1, <2>2, CalmGoto, CalmKeeps DEF Settle, session, history
<1>4. CASE Poll(q)
  BY <1>4, <1>i, <1>q, CalmFound, CalmKeeps DEF Poll, TypeInv, Tokened, session, history
<1>5. CASE PollEnds(q)
  BY <1>5, <1>i, CalmAnswered, CalmKeeps DEF PollEnds, session, history
<1>6. CASE Stamp(q)
  <2>1. UNCHANGED <<bx, files, runs, published>>
    BY <1>6 DEF Stamp, session, history
  <2>2. CASE Answered(q)
    BY <1>i, <2>1, <2>2, CalmAnswered, CalmKeeps
  <2>3. CASE threads' = [threads EXCEPT ![q] = [Fresh EXCEPT !.pc = "served", !.stamp = bx.anchor]]
    <3> DEFINE x == [Fresh EXCEPT !.pc = "served", !.stamp = bx.anchor]
    <3>1. x.pc = "served" /\ x.token = NoToken /\ threads' = [threads EXCEPT ![q] = x]
      BY <2>3 DEF Fresh
    <3> HIDE DEF x
    <3>2. \A o \in Threads : threads'[o] = threads[o] \/ Calm(o)
      BY <1>q, <1>i, <3>1 DEF TypeInv, TypeOK, Calm
    <3> QED BY <2>1, <3>2, CalmKeeps
  <2> QED BY <1>6, <2>2, <2>3 DEF Stamp
<1> QED BY <1>1, <1>2, <1>3, <1>4, <1>5, <1>6, SeekKeeps, RestartKeeps, KillKeeps,
           RecheckKeeps, ReadKeeps DEF Request

(* What bx_stop_all() and ffmpeg do harms no session. *)
LEMMA StopKeeps ==
  ASSUME CleanInv, [Next]_vars, StopAll
  PROVE  Past' /\ (Orderly' => Clean')
<1>1. bx.seekGen \in Nat /\ (Orderly' => Orderly)
  BY OrderlyBefore DEF CleanInv, TypeInv, TypeOK, Session
<1>2. CASE StopPop
  <2>1. OnlyDies
    BY <1>2, UnchangedRuns DEF StopPop, CleanInv, TypeInv
  <2>2. Harmless
    BY <1>1, <1>2, <2>1 DEF Harmless, NoNews, StopPop, session, history
  <2> QED BY <2>2, HarmlessKeeps
<1>3. CASE StopKill
  <2>1. OnlyDies
    BY <1>3, AfterKillDies DEF StopKill, CleanInv, TypeInv
  <2>2. Harmless
    BY <1>1, <1>3, <2>1 DEF Harmless, NoNews, StopKill, session, history
  <2> QED BY <2>2, HarmlessKeeps
<1>4. CASE StopRemove
  <2>1. OnlyDies
    BY <1>4, UnchangedRuns DEF StopRemove, CleanInv, TypeInv
  <2>2. files' = [files EXCEPT ![stop.token] = [k \in Segs |-> NoFile]]
    BY <1>4 DEF StopRemove
  <2>3. \A t \in Tokens, k \in Segs : files'[t][k] = NoFile \/ files'[t][k] = files[t][k]
    BY <2>2 DEF CleanInv, TypeInv, TypeOK
  <2>4. Harmless
    BY <1>1, <1>4, <2>1, <2>3 DEF Harmless, NoNews, StopRemove, history
  <2> QED BY <2>4, HarmlessKeeps
<1> QED BY <1>2, <1>3, <1>4, ResetKeeps DEF StopAll

LEMMA FfmpegKeeps ==
  ASSUME CleanInv, [Next]_vars, NEW r \in DOMAIN runs, Ffmpeg(r)
  PROVE  Past' /\ (Orderly' => Clean')
<1>1. /\ OnlyDies
      /\ runs[r].state \in Living
      /\ \A t \in Tokens, k \in Segs :
           \/ files'[t][k] = files[t][k]
           \/ t = runs[r].token /\ files'[t][k].run = r
      /\ UNCHANGED <<bx, threads, history>>
  BY FfmpegMoves DEF CleanInv, TypeInv
<1>2. bx.seekGen \in Nat /\ (Orderly' => Orderly) /\ r \in 1..Len(runs)
  BY OrderlyBefore, RunFacts DEF CleanInv, TypeInv, TypeOK, Session
<1>3. \A t \in Tokens, k \in Segs : NoNews(t, k)
  BY <1>1, <1>2 DEF NoNews
<1>4. Harmless
  BY <1>1, <1>2, <1>3 DEF Harmless, history
<1> QED BY <1>4, HarmlessKeeps

LEMMA CleanStep == CleanInv /\ [Next]_vars => CleanInv'
<1> SUFFICES ASSUME CleanInv, [Next]_vars PROVE CleanInv'
  OBVIOUS
<1>1. TypeInv'
  BY TypeStep DEF CleanInv
<1>2. CASE UNCHANGED vars
  <2>1. OnlyDies
    BY <1>2, UnchangedRuns DEF CleanInv, TypeInv, vars
  <2>2. Harmless
    BY <1>2, <2>1 DEF Harmless, NoNews, Orderly, CleanInv, TypeInv, TypeOK, Session,
      vars, session, history
  <2> QED BY <1>1, <2>2, HarmlessKeeps DEF CleanInv
<1>3. CASE Next
  <2>1. Past' /\ (Orderly' => Clean')
    BY <1>3, BeginKeeps, SpawnKeeps, RequestKeeps, StopKeeps, FfmpegKeeps DEF Next
  <2> QED BY <1>1, <2>1 DEF CleanInv
<1> QED BY <1>2, <1>3

LEMMA CleanAlways == Spec => []CleanInv
BY CleanInit, CleanStep, PTL DEF Spec

(* The files on disk are the published run's, through any number of seeks,
   restarts, sessions and stops, unless two seeks met where bx_restart() and
   bx_spawn() check nothing or a kill came too early. *)
THEOREM FilesStayOfTheRun == Spec => []CleanUnlessCrossed
<1>1. CleanInv => CleanUnlessCrossed
  BY DEF CleanInv, CleanUnlessCrossed, Clean, Anchored
<1> QED BY <1>1, CleanAlways, PTL

(* Only its own last step serves a segment. *)
LEMMA OnlyStampServes ==
  ASSUME TypeInv, Next, NEW q \in Requests, Serves(q)
  PROVE  Stamp(q) /\ Mine(q)
<1> USE DEF At
<1>q. q \in Threads /\ q \notin Tokens
  BY RequestsAreThreads
<1>s. threads[q].pc = "stamp" /\ threads'[q].pc = "served"
  BY DEF Serves
<1>1. ~ \E t \in Tokens : BxBegin(t)
  BY <1>q, <1>s DEF BxBegin, TypeInv, TypeOK
<1>2. ASSUME NEW th \in Threads, Spawn(th) PROVE FALSE
  <2>1. th # q
    BY <1>2, <1>s DEF Spawn, SpawnClear, SpawnPublish, SpawnStart, StopOld
  <2>2. threads'[q] = threads[q]
    BY <1>2, <1>q, <2>1 DEF Spawn, SpawnClear, SpawnPublish, SpawnStart, StopOld, Goto,
      Returns, TypeInv, TypeOK
  <2> QED BY <1>s, <2>2
<1>3. ASSUME NEW o \in Requests, Request(o), o # q PROVE FALSE
  <2>1. threads'[q] = threads[q]
    BY <1>3, <1>q, RequestsAreThreads DEF Request, Arrive, Look, Seek, Settle, Restart, RestartKill,
      Recheck, Poll, PollEnds, Read, Stamp, Goto, Returns, Found, Answered, TypeInv, TypeOK
  <2> QED BY <1>s, <2>1
<1>4. ~StopAll
  BY <1>s DEF StopAll, StopReset, StopPop, StopKill, StopRemove
<1>5. ASSUME NEW r \in DOMAIN runs, Ffmpeg(r) PROVE FALSE
  BY <1>s, <1>5, FfmpegMoves DEF TypeInv
<1>6. Request(q)
  BY <1>1, <1>2, <1>3, <1>4, <1>5 DEF Next
<1>7. Stamp(q)
  BY <1>s, <1>6 DEF Request, Arrive, Look, Seek, Settle, Restart, RestartKill, Recheck,
    Poll, PollEnds, Read
<1>8. Mine(q)
  <2>1. ~Answered(q)
    BY <1>q, <1>s, AnsweredMoves DEF TypeInv, Fresh
  <2> QED BY <1>7, <2>1 DEF Stamp
<1> QED BY <1>7, <1>8

(* The stamp a segment is served with is the anchor of the run that wrote it,
   though it is read from _bx after the file: for the session asked about,
   unless a run was published or a crossing happened meanwhile. *)
THEOREM StampIsTheRuns == Spec => StampOfItsRun
<1>1. CleanInv /\ [Next]_vars =>
        [\A q \in Requests : Serves(q) /\ ~Overtaken(q) =>
           runs[threads[q].data.run].anchor = threads'[q].stamp]_vars
  <2> SUFFICES ASSUME CleanInv, Next, NEW q \in Requests, Serves(q), ~Overtaken(q)
      PROVE  runs[threads[q].data.run].anchor = threads'[q].stamp
    OBVIOUS
  <2>q. q \in Threads
    BY RequestsAreThreads
  <2>1. Stamp(q) /\ Mine(q) /\ At(q, "stamp")
    BY OnlyStampServes DEF CleanInv, Serves
  <2>2. threads'[q].stamp = bx.anchor
    <3> DEFINE x == [Fresh EXCEPT !.pc = "served", !.stamp = bx.anchor]
    <3>1. threads' = [threads EXCEPT ![q] = x] /\ x.stamp = bx.anchor
      BY <2>1 DEF Stamp, Fresh
    <3> HIDE DEF x
    <3> QED BY <2>q, <3>1 DEF CleanInv, TypeInv, TypeOK
  <2>3. Live(q)
    BY <2>q, <2>1 DEF CleanInv, TypeInv, Tokened, At, Live, Mine
  <2>4. Orderly /\ threads[q].seen = published[bx.token]
    BY <2>1 DEF Overtaken, Mine
  <2> QED BY <2>q, <2>1, <2>2, <2>3, <2>4 DEF CleanInv, Clean, Stamped
<1> QED BY <1>1, CleanAlways, PTL DEF StampOfItsRun, Spec

(***************************************************************************)
(* The last seek.                                                          *)
(***************************************************************************)

(* A thread that will spawn, for all it knows. *)
Heading(th) ==
  \/ threads[th].pc \in Spawning \cup {"settled"}
  \/ threads[th].pc \in {"kill", "recheck"} /\ threads[th].gen = bx.seekGen
(* It spawns for the seek that is pending; a worker before there was any. *)
OnCourse == \A th \in Threads : Live(th) /\ Heading(th) =>
  bx.pending = IF th \in Requests THEN threads[th].k ELSE NoSeg
(* A request that has yet to publish the place it was asked for, the pending one. *)
Pursues(q) ==
  /\ Live(q) /\ threads[q].k = bx.pending
  /\ \/ At(q, "debounce")
     \/ Heading(q) /\ threads[q].pc \notin {"start", "stopOld"}
Sought == bx.pending \in {NoSeg, bx.anchor} \/ \E q \in Requests : Pursues(q)
SeekInv == Orderly => OnCourse /\ Sought

(* A step of one thread that keeps it on its course and in its pursuit. *)
LEMMA OneTurns ==
  ASSUME SeekInv, NEW th \in Threads, UNCHANGED bx, Orderly' => Orderly,
         \A o \in Threads : o # th => threads'[o] = threads[o],
         OnCourse => (Live(th)' /\ Heading(th)' =>
                        bx.pending = IF th \in Requests THEN threads'[th].k ELSE NoSeg),
         Pursues(th) => Pursues(th)'
  PROVE  SeekInv'
<1> SUFFICES ASSUME Orderly' PROVE OnCourse' /\ Sought'
  BY DEF SeekInv
<1>1. OnCourse /\ Sought
  BY DEF SeekInv
<1>2. \A o \in Threads : o # th => /\ Live(o)' <=> Live(o)
                                   /\ Heading(o)' <=> Heading(o)
                                   /\ Pursues(o)' <=> Pursues(o)
  BY DEF Live, Mine, Heading, Pursues, At
<1>3. OnCourse'
  BY <1>1, <1>2 DEF OnCourse
<1>4. Sought'
  <2>1. CASE bx.pending \in {NoSeg, bx.anchor}
    BY <2>1 DEF Sought
  <2>2. CASE \E q \in Requests : Pursues(q)
    <3>1. PICK q \in Requests : Pursues(q)
      BY <2>2
    <3>2. Pursues(q)'
      BY <1>2, <3>1, RequestsAreThreads
    <3> QED BY <3>2 DEF Sought
  <2> QED BY <1>1, <2>1, <2>2 DEF Sought
<1> QED BY <1>3, <1>4

LEMMA SeekInit == Init => SeekInv
BY DEF Init, SeekInv, OnCourse, Sought, Live, Mine, Idle, Fresh

LEMMA SeekSpawn ==
  ASSUME CleanInv, SeekInv, [Next]_vars, NEW th \in Threads, Spawn(th)
  PROVE  SeekInv'
<1> USE DEF At
<1>o. Orderly' => Orderly
  BY OrderlyBefore DEF CleanInv, TypeInv
<1>t. TypeOK /\ threads[th] \in Thread
  BY DEF CleanInv, TypeInv, TypeOK
<1>r. ASSUME Returns(th), UNCHANGED bx, ~Pursues(th) PROVE SeekInv'
  <2>1. OneMoves(th) /\ threads'[th].pc \in {"done", "poll"}
    BY <1>r, <1>t, ReturnsMoves
  <2>2. ~Heading(th)'
    BY <2>1 DEF Heading, Spawning
  <2> QED BY <1>o, <1>r, <2>1, <2>2, OneTurns DEF OneMoves
<1>1. CASE SpawnClear(th)
  <2>1. threads[th].pc = "clear" /\ UNCHANGED bx
    BY <1>1 DEF SpawnClear
  <2>2. CASE Mine(th)
    <3>1. OneMoves(th) /\ threads'[th].pc = "publish"
      BY <1>1, <1>t, <2>2, GotoMoves DEF SpawnClear
    <3>2. (Live(th)' <=> Live(th)) /\ Heading(th) /\ Heading(th)'
      BY <2>1, <3>1 DEF Heading, Live, Mine, OneMoves, Spawning
    <3>3. Pursues(th) => Pursues(th)'
      BY <2>1, <3>1, <3>2 DEF Pursues, OneMoves
    <3> QED BY <1>o, <2>1, <3>1, <3>2, <3>3, OneTurns DEF OneMoves, OnCourse
  <2>3. CASE ~Mine(th)
    BY <1>1, <1>r, <2>1, <2>3 DEF SpawnClear, Pursues, Live
  <2> QED BY <2>2, <2>3
<1>2. CASE SpawnPublish(th)
  <2>1. threads[th].pc = "publish"
    BY <1>2 DEF SpawnPublish
  <2>2. CASE Mine(th)
    <3>1. OneMoves(th) /\ threads'[th].pc = "start"
      BY <1>2, <1>t, <2>2, GotoMoves DEF SpawnPublish
    <3>2. /\ bx'.token = bx.token /\ bx'.pending = bx.pending /\ bx'.seekGen = bx.seekGen
          /\ bx'.anchor = threads[th].k
      BY <1>2, <1>t, <2>2 DEF SpawnPublish, TypeOK, Session
    <3>3. Live(th) /\ Heading(th)
      BY <2>1, <2>2 DEF Live, Mine, Heading, Spawning, CleanInv, TypeInv, Tokened
    <3> SUFFICES ASSUME Orderly' PROVE OnCourse' /\ Sought'
      BY DEF SeekInv
    <3>4. OnCourse
      BY <1>o DEF SeekInv
    <3>5. \A o \in Threads : (Live(o)' <=> Live(o)) /\ (Heading(o)' => Heading(o))
                             /\ threads'[o].k = threads[o].k
      BY <2>1, <3>1, <3>2 DEF Live, Mine, Heading, OneMoves, Spawning
    <3>6. OnCourse'
      BY <3>2, <3>4, <3>5 DEF OnCourse
    <3>7. bx.pending \in {NoSeg, threads[th].k}
      BY <3>3, <3>4 DEF OnCourse
    <3> QED BY <3>2, <3>6, <3>7 DEF Sought
  <2>3. CASE ~Mine(th)
    BY <1>2, <1>r, <2>3 DEF SpawnPublish, Pursues, Live
  <2> QED BY <2>2, <2>3
<1>3. CASE SpawnStart(th)
  <2>1. threads[th].pc = "start" /\ UNCHANGED bx /\ ~Pursues(th) /\ Heading(th)
    BY <1>3 DEF SpawnStart, session, Pursues, Heading, Spawning
  <2>2. CASE registry[threads[th].token] = 0
    BY <1>3, <1>r, <2>1, <2>2 DEF SpawnStart
  <2>3. CASE registry[threads[th].token] # 0
    <3>1. threads' = [threads EXCEPT ![th] = [threads[th] EXCEPT
                        !.pc = "stopOld", !.run = registry[threads[th].token]]]
      BY <1>3, <2>3 DEF SpawnStart
    <3>2. OneMoves(th)
      BY <1>t, <3>1 DEF TypeOK, Thread, OneMoves
    <3> QED BY <1>o, <2>1, <3>2, OneTurns DEF OneMoves, OnCourse, Live, Mine
  <2> QED BY <2>2, <2>3
<1>4. CASE StopOld(th)
  BY <1>4, <1>r DEF StopOld, session, Pursues, Heading
<1> QED BY <1>1, <1>2, <1>3, <1>4 DEF Spawn

LEMMA SeekRequest ==
  ASSUME CleanInv, SeekInv, [Next]_vars, NEW q \in Requests, Request(q)
  PROVE  SeekInv'
<1> USE DEF At
<1>o. Orderly' => Orderly
  BY OrderlyBefore DEF CleanInv, TypeInv
<1>t. TypeOK /\ q \in Threads /\ threads[q] \in Thread
  BY RequestsAreThreads DEF CleanInv, TypeInv, TypeOK
<1> DEFINE Off == {"fresh", "look", "seek", "poll", "read", "stamp", "served", "done"}
<1>a. ASSUME \A o \in Threads : o # q => threads'[o] = threads[o], UNCHANGED bx,
             threads'[q].pc \in Off, ~Pursues(q)
      PROVE  SeekInv'
  <2>1. ~Heading(q)'
    BY <1>a DEF Heading, Spawning
  <2> QED BY <1>o, <1>t, <1>a, <2>1, OneTurns
<1>n. threads[q].pc \in Off => ~Pursues(q)
  BY DEF Pursues, Heading, Spawning
<1>g. ASSUME NEW pc, Goto(q, pc), UNCHANGED bx, Live(q) /\ Heading(q),
             pc \in {"kill", "recheck", "clear"}, pc # "clear" => threads[q].gen = bx.seekGen
      PROVE  SeekInv'
  <2>1. OneMoves(q) /\ threads'[q].pc = pc /\ threads'[q].gen = threads[q].gen
    BY <1>g, <1>t, GotoMoves
  <2>2. Live(q)' /\ Heading(q)'
    BY <1>g, <2>1 DEF Live, Mine, OneMoves, Heading, Spawning
  <2>3. Pursues(q) => Pursues(q)'
    BY <1>g, <2>1, <2>2 DEF Pursues, OneMoves
  <2> QED BY <1>o, <1>t, <1>g, <2>1, <2>2, <2>3, OneTurns DEF OneMoves, OnCourse
<1>1. ASSUME NEW k \in Segs, Arrive(q, k) PROVE SeekInv'
  <2>1. threads'[q].pc = "look"
    <3> DEFINE x == [Fresh EXCEPT !.pc = "look", !.token = bx.token, !.k = k]
    <3>1. threads' = [threads EXCEPT ![q] = x] /\ x.pc = "look"
      BY <1>1 DEF Arrive, Fresh
    <3> HIDE DEF x
    <3> QED BY <1>t, <3>1 DEF TypeOK
  <2> QED BY <1>1, <1>t, <1>a, <1>n, <2>1 DEF Arrive, session, TypeOK
<1>2. CASE Look(q) \/ Poll(q) \/ PollEnds(q) \/ Read(q) \/ Stamp(q)
  <2>1. UNCHANGED bx /\ threads[q].pc \in Off
    BY <1>2 DEF Look, Poll, PollEnds, Read, Stamp, session
  <2>2. CASE Goto(q, "poll") \/ Goto(q, "seek")
    BY <1>a, <1>n, <1>t, <2>1, <2>2, GotoMoves DEF OneMoves
  <2>3. CASE Found(q)
    BY <1>a, <1>n, <1>t, <2>1, <2>3, FoundMoves DEF OneMoves
  <2>4. CASE Answered(q)
    BY <1>a, <1>n, <1>t, <2>1, <2>4, AnsweredMoves DEF Fresh
  <2>5. CASE \E x \in Thread : threads' = [threads EXCEPT ![q] = x] /\ x.pc \in Off
    BY <1>a, <1>n, <1>t, <2>1, <2>5 DEF TypeOK
  <2>6. ASSUME Read(q), ~Answered(q)
        PROVE  \E x \in Thread : threads' = [threads EXCEPT ![q] = x] /\ x.pc \in Off
    <3> DEFINE file == files[threads[q].token][threads[q].k]
               x == [threads[q] EXCEPT !.pc = "stamp", !.data = file]
    <3>1. file \in File
      <4>1. threads[q].token \in Tokens
        BY <1>t, <2>6 DEF CleanInv, TypeInv, Tokened, Read
      <4>2. threads[q].k \in Segs /\ files \in [Tokens -> [Segs -> File]]
        BY <1>t DEF TypeOK, Thread
      <4> QED BY <4>1, <4>2
    <3>2. threads' = [threads EXCEPT ![q] = x]
      BY <2>6 DEF Read
    <3> HIDE DEF file
    <3>3. x \in Thread /\ x.pc \in Off
      BY <1>t, <3>1 DEF Thread, Stages
    <3> QED BY <3>2, <3>3
  <2>7. ASSUME Stamp(q), ~Answered(q)
        PROVE  \E x \in Thread : threads' = [threads EXCEPT ![q] = x] /\ x.pc \in Off
    <3> DEFINE x == [Fresh EXCEPT !.pc = "served", !.stamp = bx.anchor]
    <3>1. threads' = [threads EXCEPT ![q] = x]
      BY <2>7 DEF Stamp
    <3>2. bx.anchor \in Segs
      BY <1>t DEF TypeOK, Session
    <3>3. x \in Thread /\ x.pc \in Off
      BY <3>2, FreshType DEF Fresh, Thread, Stages
    <3> QED BY <3>1, <3>3
  <2> QED BY <1>2, <2>2, <2>3, <2>4, <2>5, <2>6, <2>7 DEF Look, Poll, PollEnds
<1>3. CASE Seek(q)
  <2>1. CASE Mine(q)
    <3>1. OneMoves(q) /\ threads'[q].pc = "debounce"
      BY <1>3, <1>t, <2>1, GotoMoves DEF Seek
    <3>2. /\ bx'.token = bx.token /\ bx'.pending = threads[q].k /\ bx'.seekGen = bx.seekGen + 1
          /\ bx'.anchor = bx.anchor /\ bx.seekGen \in Nat
      BY <1>3, <1>t, <2>1 DEF Seek, TypeOK, Session
    <3>3. Live(q) /\ Live(q)'
      BY <1>3, <1>t, <2>1, <3>1, <3>2 DEF Seek, Live, Mine, OneMoves, CleanInv, TypeInv, Tokened
    <3> SUFFICES ASSUME Orderly' PROVE OnCourse' /\ Sought'
      BY DEF SeekInv
    <3>4. Pursues(q)'
      BY <3>1, <3>2, <3>3 DEF Pursues, OneMoves
    <3>5. ASSUME NEW o \in Threads, Live(o)', Heading(o)' PROVE FALSE
      <4>1. o # q
        BY <3>1, <3>5 DEF Heading, Spawning
      <4>2. threads'[o] = threads[o] /\ Live(o)
        BY <3>1, <3>2, <3>5, <4>1 DEF OneMoves, Live, Mine
      <4>3. ~Unchecked(o)
        <5>1. threads[o].token = threads[q].token
          BY <3>3, <4>2 DEF Live, Mine
        <5> QED BY <1>3, <2>1, <4>1, <5>1 DEF Seek, Orderly, Rivals
      <4>4. threads[o].pc \in {"kill", "recheck"} /\ threads[o].gen = bx.seekGen + 1
        BY <3>2, <3>5, <4>2, <4>3 DEF Heading, Unchecked
      <4>5. threads[o].gen <= bx.seekGen
        BY <4>2, <4>4 DEF CleanInv, Past, Noted
      <4> QED BY <3>2, <4>4, <4>5
    <3> QED BY <3>4, <3>5 DEF OnCourse, Sought
  <2>2. CASE ~Mine(q)
    BY <1>3, <1>a, <1>n, <1>t, <2>2, AnsweredMoves DEF Seek, Fresh
  <2> QED BY <2>1, <2>2
<1>4. CASE Settle(q)
  <2>1. UNCHANGED bx /\ threads[q].pc = "debounce"
    BY <1>4 DEF Settle, session
  <2>2. CASE Mine(q) /\ bx.pending = threads[q].k
    <3>1. OneMoves(q) /\ threads'[q].pc = "settled"
      BY <1>4, <1>t, <2>2, GotoMoves DEF Settle
    <3>2. Live(q) /\ Live(q)' /\ Heading(q)'
      BY <1>t, <2>1, <2>2, <3>1 DEF Live, Mine, OneMoves, Heading, CleanInv, TypeInv, Tokened
    <3>3. Pursues(q)'
      BY <2>1, <2>2, <3>1, <3>2 DEF Pursues, OneMoves
    <3> QED BY <1>o, <1>t, <2>1, <2>2, <3>1, <3>3, OneTurns DEF OneMoves
  <2>3. CASE ~(Mine(q) /\ bx.pending = threads[q].k)
    <3>1. Goto(q, "poll")
      BY <1>4, <2>3 DEF Settle
    <3>2. ~Pursues(q)
      BY <2>3 DEF Pursues, Live
    <3> QED BY <1>a, <1>t, <2>1, <3>1, <3>2, GotoMoves DEF OneMoves
  <2> QED BY <2>2, <2>3
<1>5. CASE Restart(q)
  <2>1. UNCHANGED bx /\ threads[q].pc = "settled"
    BY <1>5 DEF Restart, session
  <2>2. CASE Mine(q)
    <3>1. threads' = [threads EXCEPT ![q] = [threads[q] EXCEPT
                        !.pc = "kill", !.gen = bx.seekGen, !.run = registry[bx.token]]]
      BY <1>5, <2>2 DEF Restart
    <3>2. OneMoves(q) /\ threads'[q].pc = "kill" /\ threads'[q].gen = bx.seekGen
      BY <1>t, <3>1 DEF TypeOK, Thread, OneMoves
    <3>3. Live(q) /\ Heading(q) /\ Live(q)' /\ Heading(q)'
      BY <1>t, <2>1, <2>2, <3>2 DEF Live, Mine, OneMoves, Heading, CleanInv, TypeInv, Tokened
    <3>4. Pursues(q) => Pursues(q)'
      BY <2>1, <3>2, <3>3 DEF Pursues, OneMoves
    <3> QED BY <1>o, <1>t, <2>1, <3>2, <3>3, <3>4, OneTurns DEF OneMoves, OnCourse
  <2>3. CASE ~Mine(q)
    BY <1>5, <1>a, <1>t, <2>1, <2>3, ReturnsMoves DEF Restart, OneMoves, Pursues, Live
  <2> QED BY <2>2, <2>3
<1>6. CASE RestartKill(q)
  <2>1. UNCHANGED bx /\ threads[q].pc = "kill" /\ Goto(q, "recheck")
    BY <1>6 DEF RestartKill, session
  <2>2. OneMoves(q) /\ threads'[q].pc = "recheck" /\ threads'[q].gen = threads[q].gen
    BY <1>t, <2>1, GotoMoves
  <2>3. (Live(q)' <=> Live(q)) /\ (Heading(q)' <=> Heading(q)) /\ (Pursues(q) => Pursues(q)')
    BY <2>1, <2>2 DEF Live, Mine, Heading, Pursues, OneMoves, Spawning
  <2> QED BY <1>o, <1>t, <2>1, <2>2, <2>3, OneTurns DEF OneMoves, OnCourse
<1>7. CASE Recheck(q)
  <2>1. UNCHANGED bx /\ threads[q].pc = "recheck"
    BY <1>7 DEF Recheck, session
  <2>2. CASE Mine(q) /\ bx.seekGen = threads[q].gen
    <3>1. Live(q) /\ Heading(q)
      BY <1>t, <2>1, <2>2 DEF Live, Mine, Heading, CleanInv, TypeInv, Tokened
    <3> QED BY <1>7, <1>g, <2>1, <2>2, <3>1 DEF Recheck
  <2>3. CASE ~(Mine(q) /\ bx.seekGen = threads[q].gen)
    <3>1. ~Pursues(q)
      BY <2>1, <2>3 DEF Pursues, Live, Heading, Spawning
    <3> QED BY <1>7, <1>a, <1>t, <2>1, <2>3, <3>1, ReturnsMoves DEF Recheck, OneMoves
  <2> QED BY <2>2, <2>3
<1> QED BY <1>1, <1>2, <1>3, <1>4, <1>5, <1>6, <1>7 DEF Request

LEMMA SeekStep == CleanInv /\ SeekInv /\ [Next]_vars => SeekInv'
<1> SUFFICES ASSUME CleanInv, SeekInv, [Next]_vars PROVE SeekInv'
  OBVIOUS
<1>o. Orderly' => Orderly
  BY OrderlyBefore DEF CleanInv, TypeInv
<1>1. ASSUME NEW t \in Tokens, BxBegin(t) PROVE SeekInv'
  <2>1. bx'.token = t /\ bx'.pending = NoSeg
    BY <1>1 DEF BxBegin, Idle
  <2>2. \A th \in Threads : th # t => threads'[th] = threads[th] /\ threads[th].token # t
    BY <1>1 DEF BxBegin, CleanInv, Past, Unborn
  <2>3. t \notin Requests
    OBVIOUS
  <2>4. OnCourse'
    BY <2>1, <2>2, <2>3 DEF OnCourse, Live, Mine
  <2> QED BY <2>1, <2>4 DEF SeekInv, Sought
<1>2. CASE StopReset
  <2>1. bx'.token = NoToken /\ bx'.pending = NoSeg
    BY <1>2 DEF StopReset, Idle
  <2> QED BY <2>1 DEF SeekInv, OnCourse, Sought, Live
<1>3. ASSUME UNCHANGED <<bx, threads>> PROVE SeekInv'
  <2>1. \A th \in Threads : /\ Live(th)' <=> Live(th)
                            /\ Heading(th)' <=> Heading(th)
                            /\ Pursues(th)' <=> Pursues(th)
    BY <1>3 DEF Live, Mine, Heading, Pursues, At
  <2> QED BY <1>o, <1>3, <2>1, RequestsAreThreads DEF SeekInv, OnCourse, Sought
<1>4. CASE StopPop \/ StopKill \/ StopRemove \/ UNCHANGED vars
  BY <1>3, <1>4 DEF StopPop, StopKill, StopRemove, vars, session
<1>5. ASSUME NEW r \in DOMAIN runs, Ffmpeg(r) PROVE SeekInv'
  BY <1>3, <1>5, FfmpegMoves DEF CleanInv, TypeInv
<1> QED BY <1>1, <1>2, <1>4, <1>5, SeekSpawn, SeekRequest DEF Next, StopAll

(* Whatever order a burst of seeks settles, restarts and gives up in, the
   packager ends at the place asked for last: seek_gen and pending_anchor let
   only its thread through (bx_restart). *)
THEOREM LastSeekIsServed == Spec => []LastSeekWins
<1>1. CleanInv /\ SeekInv => LastSeekWins
  <2> SUFFICES ASSUME CleanInv, SeekInv, Orderly,
                      \A q \in Requests : ~(Mine(q) /\ threads[q].pc \in Underway)
      PROVE  bx.pending \in {NoSeg, bx.anchor}
    BY DEF LastSeekWins
  <2>1. \A q \in Requests : ~Pursues(q)
    BY DEF Pursues, Live, Heading, At, Underway
  <2> QED BY <2>1 DEF SeekInv, Sought
<1>2. Spec => []SeekInv
  BY SeekInit, SeekStep, CleanAlways, PTL DEF Spec
<1> QED BY <1>1, <1>2, CleanAlways, PTL

(***************************************************************************)
(* No process is lost.                                                     *)
(***************************************************************************)

(* A run that is kept somewhere is one of the session it is kept for. *)
RunOf(r, t) == r \in 1..Len(runs) /\ runs[r].token = t
Owned ==
  /\ \A t \in Tokens : registry[t] = 0 \/ RunOf(registry[t], t)
  /\ \A th \in Threads :
       /\ At(th, "kill") => threads[th].run = 0 \/ RunOf(threads[th].run, threads[th].token)
       /\ At(th, "stopOld") => RunOf(threads[th].run, threads[th].token)
  /\ stop.run = 0 \/ RunOf(stop.run, stop.token)
  /\ stop.pc = "ready" => stop.token = NoToken
  /\ stop.pc \in {"ready", "pop"} => stop.run = 0

(* Also of a session that was replaced at most one thread is in bx_spawn(). *)
OneSpawner == \A th, o \in Threads :
  threads[th].pc \in Spawning /\ threads[o].pc \in Spawning
  /\ threads[th].token = threads[o].token => th = o
(* The run a thread has still to stop is older than the one registered. *)
OlderFirst == \A th \in Threads : At(th, "stopOld") =>
  registry[threads[th].token] = 0 \/ threads[th].run < registry[threads[th].token]
(* A run that has not ended is known to somebody, who knows that it lives. *)
Known(r) ==
  \/ registry[runs[r].token] = r
  \/ \E th \in Threads : At(th, "stopOld") /\ threads[th].run = r
AllKnown == \A r \in 1..Len(runs) :
  runs[r].state \in Living /\ runs[r].token # stop.token => Known(r) /\ runs[r].client

StrayInv == Owned /\ (Orderly => OneSpawner /\ OlderFirst /\ AllKnown)

(* A thread's move that starts no run and forgets none that lives. *)
Forgets(th) ==
  /\ threads'[th].pc = "stopOld" => threads'[th] = threads[th]
  /\ threads'[th].pc = "kill" => threads'[th].run = 0 \/ RunOf(threads'[th].run, threads'[th].token)
  /\ Orderly' =>
       /\ threads'[th].pc \in Spawning =>
            \A o \in Threads \ {th} : threads[o].pc \in Spawning =>
              threads[o].token # threads'[th].token
       /\ threads[th].pc = "stopOld" /\ threads'[th].pc # "stopOld" =>
            \/ runs'[threads[th].run].state \notin Living
            \/ runs[threads[th].run].token = stop.token
ThreadMoves(th) == Forgets(th) /\ \A o \in Threads \ {th} : threads'[o] = threads[o]

LEMMA StrayFrame ==
  ASSUME TypeInv, StrayInv, OnlyDies, Orderly' => Orderly,
         UNCHANGED registry, stop'.token = stop.token, stop'.run = stop.run,
         stop'.pc \in {"ready", "pop"} => stop'.pc = stop.pc,
         \A th \in Threads : threads'[th] = threads[th] \/ ThreadMoves(th),
         Orderly' => \A r \in 1..Len(runs) :
           runs'[r].state \in Living /\ runs[r].token # stop.token => runs'[r].client = runs[r].client
  PROVE  StrayInv'
<1>l. Len(runs') = Len(runs) /\ Len(runs) \in Nat
  BY RunFacts DEF OnlyDies, TypeInv
<1>r. \A r \in 1..Len(runs) :
        /\ runs'[r].token = runs[r].token
        /\ runs'[r].state \in Living => runs[r].state \in Living
  BY DEF OnlyDies
<1>m. \A r, t : RunOf(r, t) => r \in 1..Len(runs') /\ runs'[r].token = t
  BY <1>l, <1>r DEF RunOf
<1>1. Owned'
  <2>1. \A t \in Tokens : registry'[t] = 0 \/ (registry'[t] \in 1..Len(runs') /\ runs'[registry'[t]].token = t)
    BY <1>m DEF StrayInv, Owned
  <2>2. ASSUME NEW th \in Threads
        PROVE  /\ threads'[th].pc = "kill" => \/ threads'[th].run = 0
                                              \/ /\ threads'[th].run \in 1..Len(runs')
                                                 /\ runs'[threads'[th].run].token = threads'[th].token
               /\ threads'[th].pc = "stopOld" => /\ threads'[th].run \in 1..Len(runs')
                                                 /\ runs'[threads'[th].run].token = threads'[th].token
    <3>1. CASE threads'[th] = threads[th]
      BY <1>m, <3>1 DEF StrayInv, Owned, At
    <3>2. CASE Forgets(th)
      BY <1>m, <3>1, <3>2 DEF Forgets
    <3> QED BY <3>1, <3>2 DEF ThreadMoves
  <2>3. stop'.run = 0 \/ (stop'.run \in 1..Len(runs') /\ runs'[stop'.run].token = stop'.token)
    BY <1>m DEF StrayInv, Owned
  <2>4. (stop'.pc = "ready" => stop'.token = NoToken) /\ (stop'.pc \in {"ready", "pop"} => stop'.run = 0)
    BY DEF StrayInv, Owned
  <2> QED BY <2>1, <2>2, <2>3, <2>4 DEF Owned, RunOf, At
<1>2. ASSUME Orderly' PROVE OneSpawner' /\ OlderFirst' /\ AllKnown'
  <2>1. OneSpawner /\ OlderFirst /\ AllKnown
    BY <1>2 DEF StrayInv
  <2>2. OneSpawner'
    <3> SUFFICES ASSUME NEW th \in Threads, NEW o \in Threads,
                        threads'[th].pc \in Spawning, threads'[o].pc \in Spawning,
                        threads'[th].token = threads'[o].token, th # o
        PROVE  FALSE
      BY DEF OneSpawner
    <3>1. CASE threads'[th] = threads[th] /\ threads'[o] = threads[o]
      BY <2>1, <3>1 DEF OneSpawner
    <3>2. CASE ThreadMoves(th)
      BY <1>2, <3>2 DEF ThreadMoves, Forgets
    <3>3. CASE ThreadMoves(o)
      BY <1>2, <3>3 DEF ThreadMoves, Forgets
    <3> QED BY <3>1, <3>2, <3>3
  <2>3. OlderFirst'
    BY <2>1 DEF OlderFirst, ThreadMoves, Forgets, At
  <2>4. AllKnown'
    <3> SUFFICES ASSUME NEW r \in 1..Len(runs), runs'[r].state \in Living,
                        runs'[r].token # stop'.token
        PROVE  Known(r)' /\ runs'[r].client
      BY <1>l DEF AllKnown
    <3>1. Known(r) /\ runs[r].client /\ runs'[r].client = runs[r].client
      BY <1>2, <1>r, <2>1 DEF AllKnown
    <3>2. CASE registry[runs[r].token] = r
      BY <1>r, <3>1, <3>2 DEF Known
    <3>3. ASSUME NEW th \in Threads, At(th, "stopOld"), threads[th].run = r
          PROVE  threads'[th] = threads[th]
      BY <1>2, <1>r, <3>3 DEF ThreadMoves, Forgets, At
    <3> QED BY <3>1, <3>2, <3>3 DEF Known, At
  <2> QED BY <2>2, <2>3, <2>4
<1> QED BY <1>1, <1>2 DEF StrayInv

(* The oldest of them, and of two both. *)
LEMMA LeastIsOldest ==
  ASSUME NEW S \in SUBSET Nat, NEW m \in S, \A r \in S : m <= r
  PROVE  Oldest(S) = {m}
<1>1. \A x \in S : (\A y \in S : x <= y) => x = m
  OBVIOUS
<1>2. Min(S) = m
  BY <1>1 DEF Min
<1> QED BY <1>2 DEF Oldest

LEMMA OldestOfTwo ==
  ASSUME NEW a \in Nat, NEW b \in Nat, NEW S, S \subseteq {a, b}, NEW r \in S
  PROVE  r \in Oldest(S) \cup Oldest(S \ Oldest(S))
<1>0. S \in SUBSET Nat
  OBVIOUS
<1>1. PICK m \in S : \A x \in S : m <= x
  BY <1>0
<1>2. Oldest(S) = {m}
  BY <1>0, <1>1, LeastIsOldest
<1>3. CASE r # m
  <2>1. S \ {m} = {r} /\ r \in Nat
    BY <1>3
  <2>2. Oldest(S \ {m}) = {r}
    BY <2>1, OneIsOldest
  <2> QED BY <1>2, <2>2
<1> QED BY <1>2, <1>3

LEMMA AfterKillSpares ==
  ASSUME TypeOK, NEW t, NEW n, NEW run, runs' = AfterKill(t, n, run)
  PROVE  \A r \in 1..Len(runs) :
           /\ runs'[r].state = IF r \in Killed(t, n) THEN "killed" ELSE runs[r].state
           /\ r # run /\ r \notin Killed(t, n) => runs'[r].client = runs[r].client
<1> SUFFICES ASSUME NEW r \in 1..Len(runs)
    PROVE  /\ runs'[r].state = IF r \in Killed(t, n) THEN "killed" ELSE runs[r].state
           /\ r # run /\ r \notin Killed(t, n) => runs'[r].client = runs[r].client
  OBVIOUS
<1>1. runs'[r] = [runs[r] EXCEPT !.state  = IF r \in Killed(t, n) THEN "killed" ELSE @,
                                 !.client = @ /\ r # run /\ r \notin Killed(t, n)]
  BY RunFacts DEF AfterKill
<1>2. runs[r] \in Run
  BY RunFacts
<1>3. runs[r].client \in BOOLEAN
  BY <1>2 DEF Run
<1>4. runs'[r].state = IF r \in Killed(t, n) THEN "killed" ELSE runs[r].state
  BY <1>1, <1>2 DEF Run
<1>5. ASSUME r # run, r \notin Killed(t, n) PROVE runs'[r].client = runs[r].client
  <2>1. runs'[r].client = (runs[r].client /\ r # run /\ r \notin Killed(t, n))
    BY <1>1, <1>2 DEF Run
  <2> QED BY <1>3, <1>5, <2>1
<1> QED BY <1>4, <1>5

(* The runs a kill by name can meet: the registered one, and that of the one
   thread which has still to stop it. *)
LEMMA VisibleKnown ==
  ASSUME TypeInv, StrayInv, Orderly, NEW t \in Tokens, t # stop.token
  PROVE  /\ Visible(t) \subseteq 1..Len(runs)
         /\ \A r \in Visible(t) :
              \/ registry[t] = r
              \/ \E th \in Threads : /\ At(th, "stopOld") /\ threads[th].token = t
                                     /\ threads[th].run = r
<1>1. Visible(t) \subseteq 1..Len(runs)
  BY RunFacts DEF Visible, TypeInv
<1>2. ASSUME NEW r \in Visible(t) PROVE Known(r) /\ runs[r].token = t
  BY <1>1 DEF StrayInv, AllKnown, Visible, Living
<1>3. \A th \in Threads : At(th, "stopOld") => runs[threads[th].run].token = threads[th].token
  BY DEF StrayInv, Owned, RunOf
<1> QED BY <1>1, <1>2, <1>3 DEF Known

LEMMA StrayStopOld ==
  ASSUME TypeInv, StrayInv, NEW th \in Threads, StopOld(th), Orderly' => Orderly
  PROVE  StrayInv'
<1> DEFINE t == threads[th].token
           old == threads[th].run
<1>1. threads[th].pc = "stopOld" /\ RunOf(old, t) /\ t \in Tokens
  BY DEF StopOld, At, StrayInv, Owned, TypeInv, Tokened
<1>2. /\ OnlyDies
      /\ \A r \in 1..Len(runs) :
           /\ runs'[r].state = IF r \in Killed(t, 1) THEN "killed" ELSE runs[r].state
           /\ r # old /\ r \notin Killed(t, 1) => runs'[r].client = runs[r].client
  <2>1. TypeOK /\ runs' = AfterKill(t, 1, old)
    BY DEF StopOld, TypeInv
  <2> HIDE DEF t, old
  <2>2. OnlyDies
    BY <2>1, AfterKillDies
  <2>3. \A r \in 1..Len(runs) :
          /\ runs'[r].state = IF r \in Killed(t, 1) THEN "killed" ELSE runs[r].state
          /\ r # old /\ r \notin Killed(t, 1) => runs'[r].client = runs[r].client
    BY <2>1, AfterKillSpares
  <2> QED BY <2>2, <2>3
<1>3. ASSUME Orderly' PROVE runs'[old].state \notin Living \/ t = stop.token
  <2>0. SUFFICES ASSUME runs'[old].state \in Living, t # stop.token PROVE FALSE
    OBVIOUS
  <2>1. old \in 1..Len(runs) /\ runs[old].token = t /\ runs[old] \in Run
    BY <1>1, RunFacts DEF RunOf, TypeInv
  <2>2. old \in Visible(t)
    <3>1. runs[old].state # "starting"
      BY <1>3 DEF StopOld, Orderly, TypeInv, TypeOK
    <3>2. runs[old].state \in Living
      BY <1>2, <2>0, <2>1 DEF Living
    <3> QED BY <2>1, <3>1, <3>2, RunFacts DEF Living, Visible, TypeInv
  <2>3. Orderly /\ OneSpawner /\ OlderFirst
    BY <1>3 DEF StrayInv
  <2>4. ASSUME NEW r \in Visible(t) PROVE r \in Nat /\ old <= r
    <3>1. r \in 1..Len(runs)
      BY <1>1, <2>0, <2>3, VisibleKnown
    <3>2. CASE registry[t] = r
      BY <1>1, <2>1, <2>3, <3>1, <3>2 DEF OlderFirst, At
    <3>3. ASSUME NEW o \in Threads, At(o, "stopOld"), threads[o].token = t, threads[o].run = r
          PROVE  r = old
      BY <1>1, <2>3, <3>3 DEF OneSpawner, Spawning, At
    <3> QED BY <1>1, <2>0, <2>1, <2>3, <3>1, <3>2, <3>3, VisibleKnown
  <2>5. Killed(t, 1) = {old}
    <3>1. Visible(t) \in SUBSET Nat
      BY <2>4
    <3> QED BY <2>2, <2>4, <3>1, LeastIsOldest DEF Killed
  <2> QED BY <1>2, <2>0, <2>1, <2>5 DEF Living
<1>4. ASSUME Orderly', NEW r \in 1..Len(runs), runs'[r].state \in Living, runs[r].token # stop.token
      PROVE  runs'[r].client = runs[r].client
  <2>1. r # old
    BY <1>1, <1>3, <1>4 DEF RunOf
  <2>2. r \notin Killed(t, 1)
    BY <1>2, <1>4 DEF Living
  <2> QED BY <1>2, <2>1, <2>2
<1>5. OneMoves(th) /\ threads'[th].pc \in {"done", "poll"}
  BY ReturnsMoves DEF StopOld, TypeInv
<1> QED BY <1>1, <1>2, <1>3, <1>4, <1>5, StrayFrame DEF StopOld, ThreadMoves, Forgets, OneMoves, Spawning, RunOf

LEMMA StrayRestartKill ==
  ASSUME TypeInv, StrayInv, NEW q \in Requests, RestartKill(q), Orderly' => Orderly
  PROVE  StrayInv'
<1> DEFINE t == threads[q].token
           run == threads[q].run
           n == IF run = 0 THEN 1 ELSE 2
<1>1. threads[q].pc = "kill" /\ t \in Tokens /\ q \in Threads /\ (run = 0 \/ RunOf(run, t))
  BY RequestsAreThreads DEF RestartKill, At, StrayInv, Owned, TypeInv, Tokened
<1>2. /\ OnlyDies
      /\ \A r \in 1..Len(runs) :
           /\ runs'[r].state = IF r \in Killed(t, n) THEN "killed" ELSE runs[r].state
           /\ r # run /\ r \notin Killed(t, n) => runs'[r].client = runs[r].client
  <2>1. TypeOK /\ runs' = AfterKill(t, n, run)
    BY DEF RestartKill, TypeInv
  <2> HIDE DEF t, run, n
  <2> QED BY <2>1, AfterKillDies, AfterKillSpares
<1>3. ASSUME Orderly', NEW r \in 1..Len(runs), runs'[r].state \in Living, runs[r].token # stop.token
      PROVE  runs'[r].client = runs[r].client
  <2>1. r \notin Killed(t, n)
    BY <1>2, <1>3 DEF Living
  <2>2. ASSUME r = run PROVE FALSE
    <3>1. run # 0 /\ runs[r].token = t /\ t # stop.token /\ runs[r].state \in Living
      BY <1>1, <1>2, <1>3, <2>2 DEF RunOf, OnlyDies
    <3>2. r \in Visible(t)
      <4>1. runs[r].state # "starting"
        BY <1>3, <3>1, RunFacts DEF RestartKill, Orderly, TypeInv, TypeOK
      <4> QED BY <3>1, <4>1, RunFacts DEF Living, Visible, TypeInv
    <3>3. Orderly /\ OneSpawner
      BY <1>3 DEF StrayInv
    <3>4. PICK b \in Nat : Visible(t) \subseteq {registry[t], b}
      <4>1. CASE \E th \in Threads : At(th, "stopOld") /\ threads[th].token = t
        <5>1. PICK th \in Threads : At(th, "stopOld") /\ threads[th].token = t
          BY <4>1
        <5>2. \A o \in Threads : At(o, "stopOld") /\ threads[o].token = t => o = th
          BY <3>3, <5>1 DEF OneSpawner, Spawning, At
        <5>3. Visible(t) \subseteq {registry[t], threads[th].run}
          BY <1>1, <3>1, <3>3, <5>2, VisibleKnown
        <5>4. threads[th].run \in Nat
          BY DEF TypeInv, TypeOK, Thread
        <5> QED BY <5>3, <5>4
      <4>2. CASE ~ \E th \in Threads : At(th, "stopOld") /\ threads[th].token = t
        <5>1. Visible(t) \subseteq {registry[t], 0}
          BY <1>1, <3>1, <3>3, <4>2, VisibleKnown
        <5> QED BY <5>1
      <4> QED BY <4>1, <4>2
    <3>5. registry[t] \in Nat
      BY <1>1, RunFacts DEF TypeInv, TypeOK
    <3>6. r \in Oldest(Visible(t)) \cup Oldest(Visible(t) \ Oldest(Visible(t)))
      BY <3>2, <3>4, <3>5, OldestOfTwo
    <3> QED BY <2>1, <3>1, <3>6 DEF Killed
  <2> QED BY <1>2, <2>1, <2>2
<1>4. OneMoves(q) /\ threads'[q].pc = "recheck"
  BY <1>1, GotoMoves DEF RestartKill, TypeInv
<1> QED BY <1>1, <1>2, <1>3, <1>4, StrayFrame DEF RestartKill, ThreadMoves, Forgets, OneMoves, Spawning

(* The registered run goes to the thread that replaces it; entries of other
   sessions that are dropped are those of runs that have ended. *)
LEMMA StrayStart ==
  ASSUME TypeInv, StrayInv, NEW th \in Threads, SpawnStart(th), Orderly' => Orderly
  PROVE  StrayInv'
<1> DEFINE t == threads[th].token
           n == Len(runs) + 1
           x == [token |-> t, anchor |-> threads[th].k, at |-> threads[th].k,
                 state |-> "starting", client |-> TRUE]
<1>1. threads[th].pc = "start" /\ t \in Tokens /\ threads[th] \in Thread
  BY DEF SpawnStart, TypeInv, TypeOK, Tokened, At
<1>2. x \in Run /\ x.token = t /\ x.client = TRUE
  BY <1>1 DEF Thread, Run
<1>3. Len(runs) \in Nat /\ \A r \in 1..Len(runs) : runs[r] \in Run
  BY RunFacts DEF TypeInv
<1>4. /\ Len(runs') = n /\ runs'[n] = x
      /\ \A r \in 1..Len(runs) : runs'[r] = runs[r]
  BY <1>2, AppendProperties DEF SpawnStart, TypeInv, TypeOK
<1>5. /\ UNCHANGED <<stop, crossed, missed>>
      /\ \A s \in Tokens : registry'[s] = IF s = t THEN n ELSE IF Alive(s) THEN registry[s] ELSE 0
  BY DEF SpawnStart, history
<1>6. /\ OneMoves(th) /\ threads'[th].pc \in {"done", "poll", "stopOld"}
      /\ threads'[th].pc = "stopOld" => threads'[th].run = registry[t] /\ registry[t] # 0
      /\ threads'[th].pc # "stopOld" => registry[t] = 0
  <2>1. CASE registry[t] = 0
    BY <2>1, ReturnsMoves DEF SpawnStart, TypeInv
  <2>2. CASE registry[t] # 0
    <3>1. threads' = [threads EXCEPT ![th] = [threads[th] EXCEPT !.pc = "stopOld", !.run = registry[t]]]
      BY <2>2 DEF SpawnStart
    <3> QED BY <2>2, <3>1, <1>1 DEF TypeInv, TypeOK, Thread, OneMoves
  <2> QED BY <2>1, <2>2
<1>7. /\ \A o \in Threads \ {th} : threads'[o] = threads[o]
      /\ threads'[th].token = t
  BY <1>6 DEF OneMoves
<1>8. \A s \in Tokens : registry[s] = 0 \/ RunOf(registry[s], s)
  BY DEF StrayInv, Owned
<1> HIDE DEF t, x
<1>m. \A r, s : RunOf(r, s) => r \in 1..Len(runs') /\ runs'[r].token = s
  BY <1>3, <1>4 DEF RunOf
<1>9. Owned'
  <2>1. \A s \in Tokens : registry'[s] = 0 \/ (registry'[s] \in 1..Len(runs') /\ runs'[registry'[s]].token = s)
    BY <1>2, <1>3, <1>4, <1>5, <1>8, <1>m
  <2>2. ASSUME NEW o \in Threads
        PROVE  /\ threads'[o].pc = "kill" => \/ threads'[o].run = 0
                                             \/ /\ threads'[o].run \in 1..Len(runs')
                                                /\ runs'[threads'[o].run].token = threads'[o].token
               /\ threads'[o].pc = "stopOld" => /\ threads'[o].run \in 1..Len(runs')
                                                /\ runs'[threads'[o].run].token = threads'[o].token
    <3>1. CASE o # th
      BY <1>7, <1>m, <3>1 DEF StrayInv, Owned, At
    <3>2. CASE o = th
      BY <1>1, <1>6, <1>7, <1>8, <1>m, <3>2
    <3> QED BY <3>1, <3>2
  <2>3. stop'.run = 0 \/ (stop'.run \in 1..Len(runs') /\ runs'[stop'.run].token = stop'.token)
    BY <1>5, <1>m DEF StrayInv, Owned
  <2> QED BY <1>5, <2>1, <2>2, <2>3 DEF StrayInv, Owned, RunOf, At
<1>10. ASSUME Orderly' PROVE OneSpawner' /\ OlderFirst' /\ AllKnown'
  <2>1. OneSpawner /\ OlderFirst /\ AllKnown
    BY <1>10 DEF StrayInv
  <2>2. \A o \in Threads : /\ threads'[o].pc \in Spawning => threads[o].pc \in Spawning
                           /\ threads'[o].token = threads[o].token
    BY <1>1, <1>6, <1>7 DEF Spawning, t
  <2>3. OneSpawner'
    BY <2>1, <2>2 DEF OneSpawner
  <2>4. OlderFirst'
    <3> SUFFICES ASSUME NEW o \in Threads, threads'[o].pc = "stopOld"
        PROVE  registry'[threads'[o].token] = 0 \/ threads'[o].run < registry'[threads'[o].token]
      BY DEF OlderFirst, At
    <3>1. CASE o = th
      BY <1>1, <1>3, <1>5, <1>6, <1>7, <1>8, <3>1 DEF RunOf
    <3>2. CASE o # th
      <4>1. threads[o].pc = "stopOld" /\ threads'[o] = threads[o] /\ threads[o].token \in Tokens
        BY <1>7, <3>2 DEF TypeInv, Tokened
      <4>2. threads[o].token # t
        BY <1>1, <2>1, <3>2, <4>1 DEF OneSpawner, Spawning, t
      <4> QED BY <1>5, <2>1, <4>1, <4>2 DEF OlderFirst, At
    <3> QED BY <3>1, <3>2
  <2>5. AllKnown'
    <3> SUFFICES ASSUME NEW r \in 1..n, runs'[r].state \in Living, runs'[r].token # stop'.token
        PROVE  Known(r)' /\ runs'[r].client
      BY <1>4 DEF AllKnown
    <3>1. CASE r = n
      BY <1>1, <1>2, <1>4, <1>5, <3>1 DEF Known
    <3>2. CASE r \in 1..Len(runs)
      <4>1. runs'[r] = runs[r] /\ Known(r) /\ runs[r].client /\ runs[r].token \in Tokens
        BY <1>3, <1>4, <1>5, <2>1, <3>2 DEF AllKnown, Run
      <4>2. CASE registry[runs[r].token] = r
        <5>1. CASE runs[r].token = t
          <6>1. threads'[th].pc = "stopOld" /\ threads'[th].run = r
            BY <1>3, <1>6, <3>2, <4>2, <5>1
          <6> QED BY <4>1, <6>1 DEF Known, At
        <5>2. CASE runs[r].token # t
          <6>1. Alive(runs[r].token)
            BY <1>3, <3>2, <4>1, <4>2 DEF Alive
          <6> QED BY <1>5, <4>1, <4>2, <5>2, <6>1 DEF Known
        <5> QED BY <5>1, <5>2
      <4>3. CASE \E o \in Threads : At(o, "stopOld") /\ threads[o].run = r
        BY <1>1, <1>7, <4>1, <4>3 DEF Known, At
      <4> QED BY <4>1, <4>2, <4>3 DEF Known
    <3> QED BY <1>3, <3>1, <3>2
  <2> QED BY <2>3, <2>4, <2>5
<1> QED BY <1>9, <1>10 DEF StrayInv

(* The steps that touch neither the runs nor where they are kept. *)
LEMMA StrayQuiet ==
  ASSUME TypeInv, StrayInv, Orderly' => Orderly, UNCHANGED <<registry, stop, runs>>,
         NEW th \in Threads, \A o \in Threads \ {th} : threads'[o] = threads[o],
         threads[th].pc # "stopOld", threads'[th].pc # "stopOld",
         threads'[th].pc = "kill" =>
           threads'[th].run = 0 \/ RunOf(threads'[th].run, threads'[th].token),
         Orderly' /\ threads'[th].pc \in Spawning =>
           \A o \in Threads \ {th} : threads[o].pc \in Spawning =>
             threads[o].token # threads'[th].token
  PROVE  StrayInv'
<1>1. OnlyDies
  BY UnchangedRuns DEF TypeInv
<1>2. ThreadMoves(th)
  BY DEF ThreadMoves, Forgets
<1>3. \A o \in Threads : threads'[o] = threads[o] \/ ThreadMoves(o)
  BY <1>2 DEF ThreadMoves
<1> QED BY <1>1, <1>3, StrayFrame

LEMMA StrayReturns ==
  ASSUME TypeInv, StrayInv, Orderly' => Orderly, UNCHANGED <<registry, stop, runs>>,
         NEW th \in Threads, Returns(th), threads[th].pc # "stopOld"
  PROVE  StrayInv'
<1>1. OneMoves(th) /\ threads'[th].pc \in {"done", "poll"}
  BY ReturnsMoves DEF TypeInv
<1> QED BY <1>1, StrayQuiet DEF OneMoves, Spawning

LEMMA StraySpawn ==
  ASSUME TypeInv, StrayInv, NEW th \in Threads, Spawn(th), Orderly' => Orderly
  PROVE  StrayInv'
<1>1. ASSUME NEW pc \in {"publish", "start"}, Goto(th, pc), threads[th].pc \in {"clear", "publish"},
             UNCHANGED <<registry, stop, runs>>
      PROVE  StrayInv'
  <2>1. OneMoves(th) /\ threads'[th].pc = pc
    BY <1>1, GotoMoves DEF TypeInv
  <2>2. ASSUME Orderly', NEW o \in Threads \ {th}, threads[o].pc \in Spawning
        PROVE  threads[o].token # threads'[th].token
    BY <1>1, <2>1, <2>2 DEF StrayInv, OneSpawner, OneMoves, Spawning
  <2> QED BY <1>1, <2>1, <2>2, StrayQuiet DEF OneMoves
<1>2. CASE SpawnClear(th) \/ SpawnPublish(th)
  <2>1. threads[th].pc \in {"clear", "publish"} /\ UNCHANGED <<registry, stop, runs>>
    BY <1>2 DEF SpawnClear, SpawnPublish, At
  <2>2. Returns(th) \/ Goto(th, "publish") \/ Goto(th, "start")
    BY <1>2 DEF SpawnClear, SpawnPublish
  <2>3. CASE Returns(th)
    BY <2>1, <2>3, StrayReturns
  <2> QED BY <1>1, <2>1, <2>2, <2>3
<1> QED BY <1>2, StrayStart, StrayStopOld DEF Spawn

(* A session begins: nobody else is in it. *)
LEMMA StrayBegin ==
  ASSUME CleanInv, StrayInv, NEW t \in Tokens, BxBegin(t), Orderly' => Orderly
  PROVE  StrayInv'
<1>1. t \in Threads /\ threads[t] \in Thread /\ threads[t].pc = "fresh"
  BY RequestsAreThreads DEF CleanInv, TypeInv, TypeOK, BxBegin, At
<1>2. threads'[t].pc = "clear" /\ threads'[t].token = t
  BY <1>1 DEF BxBegin, CleanInv, TypeInv, TypeOK, Thread
<1>3. \A o \in Threads \ {t} : threads'[o] = threads[o]
  BY DEF BxBegin, CleanInv, TypeInv, TypeOK
<1>4. \A o \in Threads : threads[o].token # t
  BY DEF BxBegin, CleanInv, Past, Unborn
<1> QED BY <1>1, <1>2, <1>3, <1>4, StrayQuiet DEF BxBegin, CleanInv

LEMMA StrayRequest ==
  ASSUME CleanInv, StrayInv, NEW q \in Requests, Request(q), Orderly' => Orderly
  PROVE  StrayInv'
<1>q. q \in Threads /\ threads[q] \in Thread /\ TypeInv
  BY RequestsAreThreads DEF CleanInv, TypeInv, TypeOK
<1> DEFINE Quiet == {"fresh", "look", "seek", "debounce", "settled", "poll", "read", "stamp",
                     "served", "done"}
<1>1. ASSUME UNCHANGED <<registry, stop, runs>>, threads[q].pc # "stopOld",
             \A o \in Threads \ {q} : threads'[o] = threads[o], threads'[q].pc \in Quiet
      PROVE  StrayInv'
  BY <1>1, <1>q, StrayQuiet DEF Spawning
<1> HIDE DEF Quiet
<1>2. ASSUME NEW pc, Goto(q, pc), pc \in Quiet, threads[q].pc # "stopOld",
             UNCHANGED <<registry, stop, runs>>
      PROVE  StrayInv'
  BY <1>1, <1>2, <1>q, GotoMoves DEF OneMoves, TypeInv
<1>3. ASSUME Answered(q) \/ Found(q), threads[q].pc # "stopOld",
             UNCHANGED <<registry, stop, runs>>
      PROVE  StrayInv'
  <2>1. \A o \in Threads \ {q} : threads'[o] = threads[o]
    BY <1>3, <1>q, AnsweredMoves, FoundMoves DEF OneMoves, TypeInv
  <2>2. threads'[q].pc \in Quiet
    BY <1>3, <1>q, AnsweredMoves, FoundMoves DEF TypeInv, Fresh, Quiet
  <2> QED BY <1>1, <1>3, <2>1, <2>2
<1>4. CASE \E k \in Segs : Arrive(q, k)
  <2>1. PICK k \in Segs : Arrive(q, k)
    BY <1>4
  <2> DEFINE x == [Fresh EXCEPT !.pc = "look", !.token = bx.token, !.k = k]
  <2>2. x.pc \in Quiet
    BY DEF Fresh, Quiet
  <2> HIDE DEF x
  <2>3. threads' = [threads EXCEPT ![q] = x]
    BY <2>1 DEF Arrive, x
  <2> QED BY <1>1, <1>q, <2>1, <2>2, <2>3 DEF Arrive, TypeInv, TypeOK
<1>5. CASE Look(q) \/ Seek(q) \/ Settle(q)
  <2>1. /\ UNCHANGED <<registry, stop, runs>> /\ threads[q].pc # "stopOld"
        /\ \/ Answered(q) \/ Found(q)
           \/ \E pc \in {"poll", "seek", "debounce", "settled"} : Goto(q, pc)
    BY <1>5 DEF Look, Seek, Settle, session, At
  <2>2. {"poll", "seek", "debounce", "settled"} \subseteq Quiet
    BY DEF Quiet
  <2> QED BY <1>2, <1>3, <2>1, <2>2
<1>6. CASE Restart(q)
  <2>1. UNCHANGED <<registry, stop, runs>> /\ threads[q].pc = "settled"
    BY <1>6 DEF Restart, At
  <2>2. CASE Mine(q)
    <3>1. threads' = [threads EXCEPT ![q] =
            [threads[q] EXCEPT !.pc = "kill", !.gen = bx.seekGen, !.run = registry[bx.token]]]
      BY <1>6, <2>2 DEF Restart
    <3>2. /\ \A o \in Threads \ {q} : threads'[o] = threads[o]
          /\ threads'[q].pc = "kill" /\ threads'[q].token = threads[q].token
          /\ threads'[q].run = registry[bx.token]
      BY <1>q, <3>1 DEF TypeInv, TypeOK, Thread
    <3>3. bx.token = threads[q].token /\ bx.token \in Tokens
      BY <1>q, <2>1, <2>2 DEF Mine, TypeInv, Tokened
    <3>4. threads'[q].run = 0 \/ RunOf(threads'[q].run, threads'[q].token)
      BY <3>2, <3>3 DEF StrayInv, Owned
    <3> QED BY <1>q, <2>1, <3>2, <3>4, StrayQuiet DEF Spawning
  <2>3. CASE ~Mine(q)
    BY <1>6, <1>q, <2>1, <2>3, StrayReturns DEF Restart
  <2> QED BY <2>2, <2>3
<1>7. CASE Recheck(q)
  <2>1. UNCHANGED <<registry, stop, runs>> /\ threads[q].pc = "recheck"
    BY <1>7 DEF Recheck, At
  <2>2. CASE Mine(q) /\ bx.seekGen = threads[q].gen
    <3>1. OneMoves(q) /\ threads'[q].pc = "clear"
      BY <1>7, <1>q, <2>2, GotoMoves DEF Recheck, TypeInv
    <3>2. Live(q) /\ Hot(q)
      BY <1>q, <2>1, <2>2 DEF Live, Hot, Mine, TypeInv, Tokened
    <3>3. ASSUME Orderly', NEW o \in Threads \ {q}, threads[o].pc \in Spawning
          PROVE  threads[o].token # threads'[q].token
      <4>1. Exclusion
        BY <3>3 DEF CleanInv, Clean
      <4> QED BY <1>q, <3>1, <3>2, <3>3, <4>1 DEF Exclusion, Hot, Live, Mine, OneMoves
    <3> QED BY <1>q, <2>1, <3>1, <3>3, StrayQuiet DEF OneMoves
  <2>3. CASE ~(Mine(q) /\ bx.seekGen = threads[q].gen)
    BY <1>7, <1>q, <2>1, <2>3, StrayReturns DEF Recheck
  <2> QED BY <2>2, <2>3
<1>8. CASE Poll(q) \/ PollEnds(q)
  BY <1>3, <1>8 DEF Poll, PollEnds, At
<1>9. CASE Read(q)
  <2> DEFINE f == files[threads[q].token][threads[q].k]
  <2>1. UNCHANGED <<registry, stop, runs>> /\ threads[q].pc = "read"
    BY <1>9 DEF Read, At
  <2>2. CASE f = NoFile
    BY <1>3, <1>9, <2>1, <2>2 DEF Read
  <2>3. CASE f # NoFile
    <3>1. threads' = [threads EXCEPT ![q] = [threads[q] EXCEPT !.pc = "stamp", !.data = f]]
      BY <1>9, <2>3 DEF Read
    <3> HIDE DEF f
    <3>2. (\A o \in Threads \ {q} : threads'[o] = threads[o]) /\ threads'[q].pc = "stamp"
      BY <1>q, <3>1 DEF TypeInv, TypeOK, Thread
    <3> QED BY <1>1, <2>1, <3>2 DEF Quiet
  <2> QED BY <2>2, <2>3
<1>10. CASE Stamp(q)
  <2>1. UNCHANGED <<registry, stop, runs>> /\ threads[q].pc = "stamp"
    BY <1>10 DEF Stamp, At
  <2>2. CASE Mine(q)
    <3> DEFINE x == [Fresh EXCEPT !.pc = "served", !.stamp = bx.anchor]
    <3>1. x.pc \in Quiet
      BY DEF Fresh, Quiet
    <3> HIDE DEF x
    <3>2. threads' = [threads EXCEPT ![q] = x]
      BY <1>10, <2>2 DEF Stamp, x
    <3> QED BY <1>1, <1>q, <2>1, <3>1, <3>2 DEF TypeInv, TypeOK
  <2>3. CASE ~Mine(q)
    BY <1>3, <1>10, <2>1, <2>3 DEF Stamp
  <2> QED BY <2>2, <2>3
<1>11. CASE RestartKill(q)
  BY <1>11, <1>q, StrayRestartKill
<1> QED BY <1>4, <1>5, <1>6, <1>7, <1>8, <1>9, <1>10, <1>11 DEF Request

(* The stop takes the run of its session out of the registry: from then on it
   is the stop that answers for it. *)
LEMMA StrayStop ==
  ASSUME TypeInv, StrayInv, StopAll, Orderly' => Orderly
  PROVE  StrayInv'
<1>1. /\ UNCHANGED threads /\ Len(runs) \in Nat
      /\ \A r \in 1..Len(runs) : runs[r].token \in Tokens
  BY RunFacts DEF StopAll, StopReset, StopPop, StopKill, StopRemove, TypeInv, Run
<1>2. CASE StopReset
  <2>1. /\ stop' = [stop EXCEPT !.pc = "pop", !.token = bx.token]
        /\ UNCHANGED <<registry, runs>>
        /\ stop.pc = "ready" /\ stop.token = NoToken /\ stop.run = 0
    BY <1>2 DEF StopReset, StrayInv, Owned
  <2>2. stop'.pc = "pop" /\ stop'.run = 0
    BY <2>1 DEF TypeInv, TypeOK
  <2>3. Owned'
    BY <1>1, <2>1, <2>2 DEF StrayInv, Owned, RunOf, At
  <2>4. Orderly' => OneSpawner' /\ OlderFirst' /\ AllKnown'
    BY <1>1, <2>1 DEF StrayInv, OneSpawner, OlderFirst, AllKnown, Known, At
  <2> QED BY <2>3, <2>4 DEF StrayInv
<1>3. CASE StopPop
  <2>1. /\ stop' = [stop EXCEPT !.pc = "kill", !.run = registry[stop.token]]
        /\ registry' = [registry EXCEPT ![stop.token] = 0]
        /\ UNCHANGED runs /\ stop.token \in Tokens
    BY <1>3 DEF StopPop, TypeInv, Tokened
  <2>2. stop'.pc = "kill" /\ stop'.run = registry[stop.token] /\ stop'.token = stop.token
    BY <2>1 DEF TypeInv, TypeOK
  <2>3. \A s \in Tokens : registry'[s] = IF s = stop.token THEN 0 ELSE registry[s]
    BY <2>1 DEF TypeInv, TypeOK
  <2>4. Owned'
    BY <1>1, <2>1, <2>2, <2>3 DEF StrayInv, Owned, RunOf, At
  <2>5. ASSUME Orderly' PROVE OneSpawner' /\ OlderFirst' /\ AllKnown'
    <3>1. OneSpawner /\ OlderFirst /\ AllKnown
      BY <2>5 DEF StrayInv
    <3>2. OneSpawner'
      BY <1>1, <3>1 DEF OneSpawner
    <3>3. OlderFirst'
      BY <1>1, <2>3, <3>1 DEF OlderFirst, At, TypeInv, Tokened
    <3>4. AllKnown'
      BY <1>1, <2>1, <2>2, <2>3, <3>1 DEF AllKnown, Known, At
    <3> QED BY <3>2, <3>3, <3>4
  <2> QED BY <2>4, <2>5 DEF StrayInv
<1>4. CASE StopKill
  <2> DEFINE n == IF stop.run = 0 THEN 1 ELSE 2
  <2>1. /\ stop' = [stop EXCEPT !.pc = "remove"] /\ UNCHANGED registry
        /\ runs' = AfterKill(stop.token, n, stop.run)
    BY <1>4 DEF StopKill
  <2>2. stop'.pc = "remove" /\ stop'.token = stop.token /\ stop'.run = stop.run
    BY <2>1 DEF TypeInv, TypeOK
  <2> HIDE DEF n
  <2>3. OnlyDies
    BY <2>1, AfterKillDies DEF TypeInv
  <2>4. ASSUME NEW r \in 1..Len(runs), runs'[r].state \in Living, runs[r].token # stop.token
        PROVE  runs'[r].client = runs[r].client
    <3>1. r # stop.run
      BY <1>1, <2>4 DEF StrayInv, Owned, RunOf
    <3>2. r \notin Killed(stop.token, n)
      BY <2>1, <2>4, AfterKillDies DEF TypeInv
    <3> QED BY <2>1, <3>1, <3>2, AfterKillSpares DEF TypeInv
  <2> QED BY <1>1, <2>1, <2>2, <2>3, <2>4, StrayFrame
<1>5. CASE StopRemove
  <2>1. stop' = [stop EXCEPT !.pc = "over"] /\ UNCHANGED <<registry, runs>>
    BY <1>5 DEF StopRemove
  <2>2. stop'.pc = "over" /\ stop'.token = stop.token /\ stop'.run = stop.run
    BY <2>1 DEF TypeInv, TypeOK
  <2>3. OnlyDies
    BY <2>1, UnchangedRuns DEF TypeInv
  <2> QED BY <1>1, <2>1, <2>2, <2>3, StrayFrame
<1> QED BY <1>2, <1>3, <1>4, <1>5 DEF StopAll

(* Only the end of an ffmpeg, or a kill, ends its client. *)
LEMMA StrayFfmpeg ==
  ASSUME TypeInv, StrayInv, NEW r \in DOMAIN runs, Ffmpeg(r), Orderly' => Orderly
  PROVE  StrayInv'
<1>1. OnlyDies /\ UNCHANGED <<registry, stop, threads>>
  BY FfmpegMoves DEF TypeInv
<1>r. r \in 1..Len(runs) /\ DOMAIN runs = 1..Len(runs) /\ runs[r] \in Run
  BY RunFacts DEF TypeInv
<1>2. ASSUME NEW s \in 1..Len(runs), runs'[s].state \in Living
      PROVE  runs'[s].client = runs[s].client
  <2>1. CASE s # r
    BY <1>r, <2>1 DEF Ffmpeg, Appear, NeverStarts, Write, Ends
  <2>2. CASE s = r
    <3>1. \/ runs' = [runs EXCEPT ![r] = [runs[r] EXCEPT !.state = "ended", !.client = FALSE]]
          \/ runs' = [runs EXCEPT ![r] = [runs[r] EXCEPT !.state = "running"]]
          \/ runs' = [runs EXCEPT ![r] = [runs[r] EXCEPT !.state = "killed"]]
          \/ runs' = [runs EXCEPT ![r] = [runs[r] EXCEPT !.at = runs[r].at + 1]]
      BY <1>r DEF Ffmpeg, Appear, NeverStarts, Write, Ends
    <3> QED BY <1>2, <1>r, <2>2, <3>1 DEF Run, Living
  <2> QED BY <2>1, <2>2
<1> QED BY <1>1, <1>2, StrayFrame

LEMMA StrayInit == Init => StrayInv
<1> SUFFICES ASSUME Init PROVE StrayInv
  OBVIOUS
<1>1. \A th \in Threads : threads[th].pc = "fresh"
  BY DEF Init, Fresh
<1>2. Len(runs) = 0
  BY EmptySeq DEF Init
<1>3. Owned
  BY <1>1 DEF Init, Owned, At
<1> QED BY <1>1, <1>2, <1>3 DEF StrayInv, OneSpawner, OlderFirst, AllKnown, Spawning, At

LEMMA StrayStep == CleanInv /\ StrayInv /\ [Next]_vars => StrayInv'
<1> SUFFICES ASSUME CleanInv, StrayInv, [Next]_vars PROVE StrayInv'
  OBVIOUS
<1>1. TypeInv /\ (Orderly' => Orderly)
  BY OrderlyBefore DEF CleanInv, TypeInv
<1>2. CASE UNCHANGED vars
  <2>1. OnlyDies
    BY <1>1, <1>2, UnchangedRuns DEF TypeInv, vars
  <2> QED BY <1>1, <1>2, <2>1, StrayFrame DEF vars
<1>3. CASE Next
  BY <1>1, <1>3, StrayBegin, StraySpawn, StrayRequest, StrayStop, StrayFfmpeg DEF Next
<1> QED BY <1>2, <1>3

(* No ffmpeg writes on that nobody would ever stop: a replaced run is in the
   registry or with the one thread that has to stop it, and the kill by name,
   which finds the oldest process, finds that one (transcode_start). *)
THEOREM NoRunIsLost == Spec => []NoStrayRun
<1>1. CleanInv /\ StrayInv => NoStrayRun
  BY RunFacts DEF NoStrayRun, StrayInv, AllKnown, Known, Living, CleanInv, TypeInv
<1>2. Spec => []StrayInv
  BY StrayInit, StrayStep, CleanAlways, PTL DEF Spec
<1> QED BY <1>1, <1>2, CleanAlways, PTL

(***************************************************************************)
(* No segment is served half-written.                                      *)
(***************************************************************************)

(* A session that is being stopped is not the live one, and will not be. *)
StopGone == stop.token \in Tokens => bx.token # stop.token /\ ~At(stop.token, "fresh")
FilesInPlace == \A t \in Tokens, k \in Segs :
  Exists(t, k) => runs[files[t][k].run].token = t
(* In the live session the run that was replaced had ended before. *)
OldIsDead == \A th \in Threads : Live(th) /\ At(th, "stopOld") =>
  runs[threads[th].run].state \notin Living
(* The run that is writing writes alone and in order, each segment closed but
   the last. *)
Written == \A r \in 1..Len(runs) : Busy(r) =>
  /\ runs[r].state = "starting" => Empty /\ runs[r].at = runs[r].anchor
  /\ \A k \in Segs : Exists(bx.token, k) =>
       /\ files[bx.token][k].run = r /\ k <= runs[r].at
       /\ k = runs[r].at \/ files[bx.token][k].whole
(* Nobody is going to write on. *)
Sound(f) == f.whole \/ runs[f.run].state \notin Living
(* A file found complete stays so until it is deleted, by a thread that will
   publish next. *)
FoundSound == \A q \in Threads :
  Live(q) /\ At(q, "read") /\ threads[q].seen = published[bx.token] =>
    \/ Exists(bx.token, threads[q].k) /\ Sound(files[bx.token][threads[q].k])
    \/ \E th \in Threads : Live(th) /\ At(th, "publish")
ReadSound == \A q \in Threads :
  Live(q) /\ At(q, "stamp") /\ threads[q].seen = published[bx.token] => Sound(threads[q].data)
HalfInv == /\ StopGone /\ FilesInPlace
           /\ Orderly => OldIsDead /\ Written /\ FoundSound /\ ReadSound

(* What HalfInv is preserved with. *)
Base == CleanInv /\ StrayInv /\ HalfInv /\ (Orderly' => Orderly)

(* No run moves on; one may end. *)
StaysPut == OnlyDies /\ \A r \in 1..Len(runs) :
  /\ runs'[r].at = runs[r].at
  /\ runs'[r].state \in Living => runs'[r].state = runs[r].state
(* A thread's move that nothing of HalfInv hangs on. *)
Aside(o) ==
  /\ threads'[o].pc \notin {"stopOld", "read", "stamp"}
  /\ o \in Tokens => threads'[o].pc # "fresh"
  /\ At(o, "publish") => ~Live(o)

LEMMA UnchangedPuts == TypeOK /\ UNCHANGED runs => StaysPut
BY UnchangedRuns DEF StaysPut

LEMMA AfterKillPuts ==
  ASSUME TypeOK, NEW t, NEW n, NEW run, runs' = AfterKill(t, n, run)
  PROVE  StaysPut
<1>1. OnlyDies
  BY AfterKillDies
<1>2. ASSUME NEW r \in 1..Len(runs)
      PROVE  /\ runs'[r].at = runs[r].at
             /\ runs'[r].state \in Living => runs'[r].state = runs[r].state
  <2>1. runs'[r] = [runs[r] EXCEPT !.state  = IF r \in Killed(t, n) THEN "killed" ELSE @,
                                   !.client = @ /\ r # run /\ r \notin Killed(t, n)]
    BY <1>2, RunFacts DEF AfterKill
  <2>2. runs[r] \in Run
    BY <1>2, RunFacts
  <2> QED BY <2>1, <2>2 DEF Run, Living
<1> QED BY <1>1, <1>2 DEF StaysPut

LEMMA HalfFrame ==
  ASSUME Base, StaysPut, UNCHANGED <<files, published>>,
         bx'.token = bx.token, stop'.token = stop.token,
         \A o \in Threads : threads'[o] = threads[o] \/ Aside(o)
  PROVE  HalfInv'
<1>l. Len(runs') = Len(runs)
  BY DEF StaysPut, OnlyDies
<1>r. \A r \in 1..Len(runs) :
        /\ runs'[r].token = runs[r].token /\ runs'[r].anchor = runs[r].anchor
        /\ runs'[r].at = runs[r].at
        /\ runs'[r].state \in Living => runs'[r].state = runs[r].state
  BY DEF StaysPut, OnlyDies
<1>t. Tokens \subseteq Threads
  BY RequestsAreThreads
<1>v. \A o \in Threads : threads'[o] = threads[o] => (Live(o)' <=> Live(o))
  BY DEF Live, Mine
<1>k. /\ \A t \in Tokens, k \in Segs : Exists(t, k) => files[t][k].run \in 1..Len(runs)
      /\ \A o \in Threads : At(o, "stamp") => threads[o].data.run \in 1..Len(runs)
      /\ \A o \in Threads : At(o, "stopOld") => threads[o].run \in 1..Len(runs)
  BY DEF Base, CleanInv, Past, KnownRuns, StrayInv, Owned, RunOf
<1>1. StopGone' /\ FilesInPlace'
  BY <1>r, <1>t, <1>k DEF Base, HalfInv, StopGone, FilesInPlace, Exists, At, Aside
<1>2. ASSUME Orderly' PROVE OldIsDead' /\ Written' /\ FoundSound' /\ ReadSound'
  <2>1. OldIsDead /\ Written /\ FoundSound /\ ReadSound
    BY <1>2 DEF Base, HalfInv
  <2>2. OldIsDead'
    BY <1>r, <1>v, <1>k, <2>1 DEF OldIsDead, At, Aside
  <2>3. Written'
    BY <1>l, <1>r, <2>1 DEF Written, Busy, Empty, Exists
  <2>4. FoundSound'
    <3> SUFFICES ASSUME NEW q \in Threads, Live(q)', At(q, "read")',
                        threads'[q].seen = published'[bx'.token]
        PROVE  \/ Exists(bx.token, threads[q].k)' /\ Sound(files[bx.token][threads[q].k])'
               \/ \E th \in Threads : Live(th)' /\ At(th, "publish")'
      BY DEF FoundSound
    <3>1. threads'[q] = threads[q] /\ Live(q) /\ At(q, "read")
          /\ threads[q].seen = published[bx.token]
      BY <1>v DEF At, Aside
    <3>2. CASE Exists(bx.token, threads[q].k) /\ Sound(files[bx.token][threads[q].k])
      <4>1. bx.token \in Tokens /\ threads[q].k \in Segs
        BY <3>1 DEF Live, Base, CleanInv, TypeInv, TypeOK, Thread
      <4> QED BY <1>r, <1>k, <3>1, <3>2, <4>1 DEF Exists, Sound
    <3>3. ASSUME NEW th \in Threads, Live(th), At(th, "publish")
          PROVE  Live(th)' /\ At(th, "publish")'
      BY <1>v, <3>3 DEF Aside, At
    <3> QED BY <2>1, <3>1, <3>2, <3>3 DEF FoundSound
  <2>5. ReadSound'
    BY <1>r, <1>v, <1>k, <2>1 DEF ReadSound, Sound, At, Aside
  <2> QED BY <2>2, <2>3, <2>4, <2>5
<1> QED BY <1>1, <1>2 DEF HalfInv

(* A thread that returns, answers or goes on where nothing is read. *)
LEMMA HalfQuiet ==
  ASSUME Base, UNCHANGED <<files, published, runs>>,
         bx'.token = bx.token, stop'.token = stop.token, NEW th \in Threads,
         \A o \in Threads \ {th} : threads'[o] = threads[o],
         threads'[th].pc \notin {"fresh", "stopOld", "read", "stamp"} \/ (th \notin Tokens /\ threads'[th].pc = "fresh"),
         At(th, "publish") => ~Live(th)
  PROVE  HalfInv'
<1>1. StaysPut
  BY UnchangedPuts DEF Base, CleanInv, TypeInv
<1>2. \A o \in Threads : threads'[o] = threads[o] \/ Aside(o)
  BY DEF Aside
<1> QED BY <1>1, <1>2, HalfFrame

LEMMA HalfReturns ==
  ASSUME Base, UNCHANGED <<files, published, runs, bx, stop>>, NEW th \in Threads,
         Returns(th), At(th, "publish") => ~Live(th)
  PROVE  HalfInv'
<1>1. OneMoves(th) /\ threads'[th].pc \in {"done", "poll"}
  BY ReturnsMoves DEF Base, CleanInv, TypeInv
<1> QED BY <1>1, HalfQuiet DEF OneMoves

LEMMA HalfClear ==
  ASSUME Base, NEW th \in Threads, SpawnClear(th)
  PROVE  HalfInv'
<1>1. /\ threads[th].pc = "clear" /\ threads[th].token \in Tokens
      /\ UNCHANGED <<bx, registry, runs, stop, published>>
  BY DEF SpawnClear, At, Base, CleanInv, TypeInv, Tokened, history
<1>2. CASE ~Mine(th)
  BY <1>1, <1>2, HalfReturns DEF SpawnClear, At
<1>3. CASE Mine(th)
  <2>1. OneMoves(th) /\ threads'[th].pc = "publish"
    BY <1>3, GotoMoves DEF SpawnClear, Base, CleanInv, TypeInv
  <2>2. /\ bx.token = threads[th].token
        /\ files' = [files EXCEPT ![bx.token] = [k \in Segs |-> NoFile]]
    BY <1>3 DEF SpawnClear, Mine
  <2>3. /\ \A k \in Segs : files'[bx.token][k] = NoFile
        /\ \A t \in Tokens, k \in Segs : files'[t][k] = NoFile \/ files'[t][k] = files[t][k]
    BY <1>1, <2>2 DEF Base, CleanInv, TypeInv, TypeOK
  <2>4. \A o \in Threads : o # th => threads'[o] = threads[o]
    BY <2>1 DEF OneMoves
  <2>5. StopGone'
    BY <1>1, <2>1, <2>4, RequestsAreThreads DEF Base, HalfInv, StopGone, At
  <2>6. FilesInPlace'
    BY <1>1, <2>3 DEF Base, HalfInv, FilesInPlace, Exists
  <2>7. ASSUME Orderly' PROVE OldIsDead' /\ Written' /\ FoundSound' /\ ReadSound'
    <3>1. OldIsDead /\ Written /\ ReadSound
      BY <2>7 DEF Base, HalfInv
    <3>2. OldIsDead'
      BY <1>1, <2>1, <2>4, <3>1 DEF OldIsDead, Live, Mine, At
    <3>3. Written'
      BY <1>1, <2>3, <3>1 DEF Written, Busy, Empty, Exists
    <3>4. FoundSound'
      BY <1>1, <2>1, <2>2 DEF FoundSound, Live, Mine, At, OneMoves
    <3>5. ReadSound'
      BY <1>1, <2>1, <2>4, <3>1 DEF ReadSound, Live, Mine, At, Sound
    <3> QED BY <3>2, <3>3, <3>4, <3>5
  <2> QED BY <2>5, <2>6, <2>7 DEF HalfInv
<1> QED BY <1>2, <1>3

(* What was found before a publication is overtaken by it. *)
LEMMA HalfPublish ==
  ASSUME Base, NEW th \in Threads, SpawnPublish(th)
  PROVE  HalfInv'
<1>1. /\ threads[th].pc = "publish" /\ threads[th].token \in Tokens
      /\ UNCHANGED <<files, registry, runs, stop>>
  BY DEF SpawnPublish, At, Base, CleanInv, TypeInv, Tokened
<1>2. CASE ~Mine(th)
  BY <1>1, <1>2, HalfReturns DEF SpawnPublish, Live
<1>3. CASE Mine(th)
  <2>1. OneMoves(th) /\ threads'[th].pc = "start"
    BY <1>3, GotoMoves DEF SpawnPublish, Base, CleanInv, TypeInv
  <2>2. /\ bx.token = threads[th].token /\ bx'.token = bx.token
        /\ published'[bx.token] = published[bx.token] + 1
    BY <1>1, <1>3 DEF SpawnPublish, Mine, Base, CleanInv, TypeInv, TypeOK, Session
  <2>3. published[bx.token] \in Nat
    BY <1>1, <2>2 DEF Base, CleanInv, TypeInv, TypeOK
  <2>4. \A o \in Threads : o # th => threads'[o] = threads[o]
    BY <2>1 DEF OneMoves
  <2>5. ASSUME NEW o \in Threads, Live(o)', threads'[o].pc \in {"read", "stamp"}
        PROVE  threads'[o].seen # published'[bx.token]
    <3>1. threads'[o] = threads[o] /\ threads[o].token = bx.token
      BY <2>1, <2>2, <2>4, <2>5 DEF Live, Mine
    <3>2. threads[o].seen <= published[bx.token] /\ threads[o].seen \in Nat
      BY <2>5, <3>1 DEF Base, CleanInv, Past, Noted, TypeInv, TypeOK, Thread
    <3> QED BY <2>2, <2>3, <3>1, <3>2
  <2>6. StopGone' /\ FilesInPlace'
    BY <1>1, <2>1, <2>2, <2>4, RequestsAreThreads
    DEF Base, HalfInv, StopGone, FilesInPlace, Exists, At
  <2>7. ASSUME Orderly' PROVE OldIsDead' /\ Written' /\ FoundSound' /\ ReadSound'
    <3>1. OldIsDead /\ Written
      BY <2>7 DEF Base, HalfInv
    <3>2. OldIsDead'
      BY <1>1, <2>1, <2>2, <2>4, <3>1 DEF OldIsDead, Live, Mine, At
    <3>3. Written'
      BY <1>1, <2>2, <3>1 DEF Written, Busy, Empty, Exists
    <3> QED BY <2>2, <2>5, <3>2, <3>3 DEF FoundSound, ReadSound, At
  <2> QED BY <2>6, <2>7 DEF HalfInv
<1> QED BY <1>2, <1>3

(* The new run finds the directory empty and no other at work. *)
LEMMA HalfStart ==
  ASSUME Base, NEW th \in Threads, SpawnStart(th)
  PROVE  HalfInv'
<1> DEFINE t == threads[th].token
           n == Len(runs) + 1
           x == [token |-> t, anchor |-> threads[th].k, at |-> threads[th].k,
                 state |-> "starting", client |-> TRUE]
<1>1. /\ threads[th].pc = "start" /\ t \in Tokens /\ threads[th] \in Thread
      /\ UNCHANGED <<bx, files, stop, published>>
  BY DEF SpawnStart, Base, CleanInv, TypeInv, TypeOK, Tokened, At, session, history
<1>2. x \in Run
  BY <1>1 DEF Thread, Run
<1>3. x.token = t /\ x.at = x.anchor /\ Len(runs) \in Nat
  BY RunFacts DEF Base, CleanInv, TypeInv
<1>4. /\ Len(runs') = n /\ runs'[n] = x
      /\ \A r \in 1..Len(runs) : runs'[r] = runs[r]
  BY <1>2, AppendProperties DEF SpawnStart, Base, CleanInv, TypeInv, TypeOK
<1>6. /\ OneMoves(th) /\ threads'[th].pc \in {"done", "poll", "stopOld"}
      /\ threads'[th].pc = "stopOld" => threads'[th].run = registry[t] /\ registry[t] # 0
  <2>1. CASE registry[t] = 0
    BY <2>1, ReturnsMoves DEF SpawnStart, Base, CleanInv, TypeInv
  <2>2. CASE registry[t] # 0
    <3>1. threads' = [threads EXCEPT ![th] = [threads[th] EXCEPT !.pc = "stopOld", !.run = registry[t]]]
      BY <2>2 DEF SpawnStart
    <3> QED BY <2>2, <3>1, <1>1 DEF Base, CleanInv, TypeInv, TypeOK, Thread, OneMoves
  <2> QED BY <2>1, <2>2
<1>7. /\ \A o \in Threads : o # th => threads'[o] = threads[o]
      /\ threads'[th].token = t
  BY <1>6 DEF OneMoves
<1>8. registry[t] = 0 \/ RunOf(registry[t], t)
  BY <1>1 DEF Base, StrayInv, Owned
<1>9. /\ \A s \in Tokens, k \in Segs : Exists(s, k) => files[s][k].run \in 1..Len(runs)
      /\ \A o \in Threads : At(o, "stamp") => threads[o].data.run \in 1..Len(runs)
      /\ \A o \in Threads : At(o, "stopOld") => threads[o].run \in 1..Len(runs)
  BY DEF Base, CleanInv, Past, KnownRuns, StrayInv, Owned, RunOf
<1>10. StopGone' /\ FilesInPlace'
  BY <1>1, <1>4, <1>6, <1>7, <1>9, RequestsAreThreads
  DEF Base, HalfInv, StopGone, FilesInPlace, Exists, At
<1>11. ASSUME Orderly' PROVE OldIsDead' /\ Written' /\ FoundSound' /\ ReadSound'
  <2>1. OldIsDead /\ Written /\ FoundSound /\ ReadSound /\ Ready
    BY <1>11 DEF Base, HalfInv, CleanInv, Clean
  <2>2. Live(th) => NoneBusy /\ Empty /\ bx.token = t
    BY <1>1, <2>1 DEF Ready, Hot, Live, Mine, Spawning
  <2>3. OldIsDead'
    <3> SUFFICES ASSUME NEW o \in Threads, Live(o)', At(o, "stopOld")'
        PROVE  runs'[threads'[o].run].state \notin Living
      BY DEF OldIsDead
    <3>1. CASE o = th
      <4>1. Live(th)
        BY <1>1, <1>7, <3>1 DEF Live, Mine
      <4>2. threads'[th].run = registry[t] /\ RunOf(registry[t], t)
        BY <1>6, <1>8, <3>1 DEF At
      <4>3. runs[registry[t]].state \notin Living
        BY <2>2, <4>1, <4>2 DEF NoneBusy, Busy, RunOf, Live
      <4> QED BY <1>4, <3>1, <4>2, <4>3 DEF RunOf
    <3>2. CASE o # th
      BY <1>1, <1>4, <1>7, <1>9, <2>1, <3>2 DEF OldIsDead, Live, Mine, At
    <3> QED BY <3>1, <3>2
  <2> HIDE DEF x, t
  <2>4. Written'
    <3> SUFFICES ASSUME NEW r \in 1..n, Busy(r)'
        PROVE  /\ runs'[r].state = "starting" => Empty' /\ runs'[r].at = runs'[r].anchor
               /\ \A k \in Segs : Exists(bx.token, k)' =>
                    /\ files'[bx'.token][k].run = r /\ k <= runs'[r].at
                    /\ k = runs'[r].at \/ files'[bx'.token][k].whole
      BY <1>4 DEF Written
    <3>1. CASE r = n
      <4>1. bx.token = t /\ bx.token \in Tokens
        BY <1>1, <1>3, <1>4, <3>1 DEF Busy
      <4>2. Empty
        BY <2>2, <4>1 DEF Live, Mine, t
      <4> QED BY <1>1, <1>3, <1>4, <3>1, <4>2 DEF Empty, Exists
    <3>2. CASE r \in 1..Len(runs)
      <4>1. runs'[r] = runs[r] /\ Busy(r)
        BY <1>1, <1>4, <3>2 DEF Busy
      <4> QED BY <1>1, <2>1, <3>2, <4>1 DEF Written, Empty, Exists
    <3> QED BY <1>3, <3>1, <3>2
  <2>5. FoundSound'
    <3> SUFFICES ASSUME NEW q \in Threads, Live(q)', At(q, "read")',
                        threads'[q].seen = published'[bx'.token]
        PROVE  \/ Exists(bx.token, threads[q].k)' /\ Sound(files[bx.token][threads[q].k])'
               \/ \E o \in Threads : Live(o)' /\ At(o, "publish")'
      BY DEF FoundSound
    <3>1. threads'[q] = threads[q] /\ Live(q) /\ At(q, "read")
          /\ threads[q].seen = published[bx.token]
      BY <1>1, <1>6, <1>7 DEF Live, Mine, At
    <3>2. CASE Exists(bx.token, threads[q].k) /\ Sound(files[bx.token][threads[q].k])
      <4>1. bx.token \in Tokens /\ threads[q].k \in Segs
        BY <3>1 DEF Live, Base, CleanInv, TypeInv, TypeOK, Thread
      <4> QED BY <1>1, <1>4, <1>9, <3>1, <3>2, <4>1 DEF Exists, Sound
    <3>3. ASSUME NEW o \in Threads, Live(o), At(o, "publish")
          PROVE  Live(o)' /\ At(o, "publish")'
      BY <1>1, <1>7, <3>3 DEF Live, Mine, At
    <3> QED BY <2>1, <3>1, <3>2, <3>3 DEF FoundSound
  <2>6. ReadSound'
    BY <1>1, <1>4, <1>6, <1>7, <1>9, <2>1 DEF ReadSound, Sound, Live, Mine, At
  <2> QED BY <2>3, <2>4, <2>5, <2>6
<1> QED BY <1>10, <1>11 DEF HalfInv

LEMMA HalfSpawn ==
  ASSUME Base, NEW th \in Threads, Spawn(th)
  PROVE  HalfInv'
<1>1. CASE StopOld(th)
  <2>1. OneMoves(th) /\ threads'[th].pc \in {"done", "poll"}
    BY <1>1, ReturnsMoves DEF StopOld, Base, CleanInv, TypeInv
  <2> DEFINE t == threads[th].token
             run == threads[th].run
  <2>2. TypeOK /\ runs' = AfterKill(t, 1, run)
    BY <1>1 DEF StopOld, Base, CleanInv, TypeInv
  <2> HIDE DEF t, run
  <2>3. StaysPut
    BY <2>2, AfterKillPuts
  <2>4. \A o \in Threads : threads'[o] = threads[o] \/ Aside(o)
    BY <1>1, <2>1 DEF StopOld, OneMoves, Aside, At
  <2> QED BY <1>1, <2>3, <2>4, HalfFrame DEF StopOld, session
<1> QED BY <1>1, HalfClear, HalfPublish, HalfStart DEF Spawn

LEMMA HalfBegin ==
  ASSUME Base, NEW t \in Tokens, BxBegin(t)
  PROVE  HalfInv'
<1>1. /\ At(t, "fresh")
      /\ \A th \in Threads : threads[th].token # t
      /\ \A r \in 1..Len(runs) : runs[r].token # t
      /\ \A k \in Segs : ~Exists(t, k)
  BY DEF BxBegin, Base, CleanInv, Past, Unborn
<1>2. bx'.token = t /\ UNCHANGED <<files, runs, stop, published>>
  BY DEF BxBegin, Idle, history
<1>3. threads'[t].pc = "clear" /\ t \in Threads
  <2>1. threads[t] \in Thread /\ t \in Threads
    BY RequestsAreThreads DEF Base, CleanInv, TypeInv, TypeOK
  <2> QED BY <2>1 DEF BxBegin, Base, CleanInv, TypeInv, TypeOK, Thread
<1>4. \A th \in Threads : th # t => threads'[th] = threads[th]
  BY DEF BxBegin, Base, CleanInv, TypeInv, TypeOK
<1>5. StopGone' /\ FilesInPlace'
  BY <1>1, <1>2, <1>3, <1>4, RequestsAreThreads
  DEF Base, HalfInv, StopGone, FilesInPlace, Exists, At
<1>6. \A th \in Threads : Live(th)' => th = t
  BY <1>1, <1>2, <1>4 DEF Live, Mine
<1>7. OldIsDead' /\ Written' /\ FoundSound' /\ ReadSound'
  BY <1>1, <1>2, <1>3, <1>6 DEF OldIsDead, Written, FoundSound, ReadSound, Busy, At
<1> QED BY <1>5, <1>7 DEF HalfInv

LEMMA HalfStop ==
  ASSUME Base, StopAll
  PROVE  HalfInv'
<1>1. CASE StopReset
  <2>1. /\ UNCHANGED <<files, runs, threads, published>> /\ bx'.token = NoToken
        /\ bx.token \in Tokens /\ stop'.token = bx.token
    BY <1>1 DEF StopReset, Idle, history, Base, CleanInv, TypeInv, TypeOK, Session
  <2>2. StopGone' /\ FilesInPlace'
    BY <2>1 DEF Base, HalfInv, StopGone, FilesInPlace, Exists, CleanInv, Past, Unborn, At
  <2>3. OldIsDead' /\ Written' /\ FoundSound' /\ ReadSound'
    BY <2>1 DEF OldIsDead, Written, FoundSound, ReadSound, Live, Busy
  <2> QED BY <2>2, <2>3 DEF HalfInv
<1>2. CASE StopPop
  <2>1. StaysPut /\ stop'.token = stop.token
    BY <1>2, UnchangedPuts DEF StopPop, Base, CleanInv, TypeInv, TypeOK
  <2> QED BY <1>2, <2>1, HalfFrame DEF StopPop, session, history
<1>3. CASE StopKill
  <2> DEFINE n == IF stop.run = 0 THEN 1 ELSE 2
  <2>1. TypeOK /\ runs' = AfterKill(stop.token, n, stop.run) /\ stop'.token = stop.token
    BY <1>3 DEF StopKill, Base, CleanInv, TypeInv, TypeOK
  <2> HIDE DEF n
  <2>2. StaysPut
    BY <2>1, AfterKillPuts
  <2> QED BY <1>3, <2>1, <2>2, HalfFrame DEF StopKill, session, history
<1>4. CASE StopRemove
  <2>1. /\ UNCHANGED <<bx, runs, threads, published>> /\ stop'.token = stop.token
        /\ stop.token \in Tokens
        /\ files' = [files EXCEPT ![stop.token] = [k \in Segs |-> NoFile]]
    BY <1>4 DEF StopRemove, history, Base, CleanInv, TypeInv, TypeOK, Tokened
  <2>2. /\ \A t \in Tokens, k \in Segs : files'[t][k] = NoFile \/ files'[t][k] = files[t][k]
        /\ \A t \in Tokens \ {stop.token} : files'[t] = files[t]
    BY <2>1 DEF Base, CleanInv, TypeInv, TypeOK
  <2>3. bx.token \in Tokens => files'[bx.token] = files[bx.token]
    BY <2>1, <2>2 DEF Base, HalfInv, StopGone
  <2>4. StopGone' /\ FilesInPlace'
    BY <2>1, <2>2 DEF Base, HalfInv, StopGone, FilesInPlace, Exists, At
  <2>5. ASSUME Orderly' PROVE OldIsDead' /\ Written' /\ FoundSound' /\ ReadSound'
    <3>1. OldIsDead /\ Written /\ FoundSound /\ ReadSound
      BY <2>5 DEF Base, HalfInv
    <3>2. OldIsDead' /\ ReadSound'
      BY <2>1, <3>1 DEF OldIsDead, ReadSound, Live, Mine, At, Sound
    <3>3. Written'
      BY <2>1, <2>3, <3>1 DEF Written, Busy, Empty, Exists
    <3>4. FoundSound'
      BY <2>1, <2>3, <3>1 DEF FoundSound, Live, Mine, At, Exists, Sound
    <3> QED BY <3>2, <3>3, <3>4
  <2> QED BY <2>4, <2>5 DEF HalfInv
<1> QED BY <1>1, <1>2, <1>3, <1>4 DEF StopAll

(* A segment found complete in the live session is one nobody writes on: the
   next segment exists only when it was closed, and transcode_alive() is asked
   of the one run that writes. *)
LEMMA CompleteIsSound ==
  ASSUME CleanInv, StrayInv, HalfInv, Orderly, bx.token \in Tokens,
         NEW k \in Segs, Complete(bx.token, k)
  PROVE  Exists(bx.token, k) /\ Sound(files[bx.token][k])
<1> DEFINE s == files[bx.token][k].run
<1>1. Exists(bx.token, k) /\ s \in 1..Len(runs) /\ runs[s].token = bx.token
  BY DEF Complete, CleanInv, Past, KnownRuns, HalfInv, FilesInPlace
<1>2. Written /\ OldIsDead /\ AllKnown
  BY DEF HalfInv, StrayInv
<1> SUFFICES ASSUME runs[s].state \in Living PROVE files[bx.token][k].whole
  BY <1>1 DEF Sound
<1>3. Busy(s) /\ runs[s].at \in Segs
  BY <1>1, RunFacts DEF Busy, CleanInv, TypeInv, Run
<1>4. CASE k # Last /\ Exists(bx.token, k + 1)
  <2>1. k + 1 \in Segs /\ k \in Nat
    BY <1>4 DEF Segs
  <2>2. k + 1 <= runs[s].at /\ runs[s].at \in Nat
    BY <1>1, <1>2, <1>3, <1>4, <2>1 DEF Written, Segs
  <2>3. k # runs[s].at
    BY <2>1, <2>2
  <2> QED BY <1>1, <1>2, <1>3, <2>3 DEF Written
<1>5. CASE ~Alive(bx.token)
  <2>1. stop.token # bx.token
    BY DEF HalfInv, StopGone
  <2>2. Known(s) /\ runs[s].client
    BY <1>1, <1>2, <2>1 DEF AllKnown
  <2>3. registry[bx.token] # s
    BY <1>1, <1>5, <2>2, RunFacts DEF Alive, CleanInv, TypeInv
  <2>4. PICK th \in Threads : At(th, "stopOld") /\ threads[th].run = s
    BY <1>1, <2>2, <2>3 DEF Known
  <2>5. threads[th].token = bx.token
    BY <1>1, <2>4 DEF StrayInv, Owned, RunOf
  <2> QED BY <1>2, <2>4, <2>5 DEF OldIsDead, Live, Mine
<1> QED BY <1>4, <1>5 DEF Complete

LEMMA HalfFound ==
  ASSUME Base, NEW q \in Requests, Found(q), threads[q].pc \in {"look", "poll"},
         Complete(threads[q].token, threads[q].k), UNCHANGED <<session, runs, stop, published>>
  PROVE  HalfInv'
<1>q. q \in Threads /\ q \notin Tokens
  BY RequestsAreThreads
<1>1. OneMoves(q) /\ threads'[q].pc = "read"
  BY <1>q, FoundMoves DEF Base, CleanInv, TypeInv
<1>2. \A o \in Threads : o # q => threads'[o] = threads[o]
  BY <1>1 DEF OneMoves
<1>3. UNCHANGED <<bx, files>>
  BY DEF session
<1>4. StopGone' /\ FilesInPlace'
  BY <1>q, <1>2, <1>3, RequestsAreThreads DEF Base, HalfInv, StopGone, FilesInPlace, Exists, At
<1>5. ASSUME Orderly' PROVE OldIsDead' /\ Written' /\ FoundSound' /\ ReadSound'
  <2>1. OldIsDead /\ Written /\ FoundSound /\ ReadSound /\ Orderly
    BY <1>5 DEF Base, HalfInv
  <2>2. OldIsDead' /\ ReadSound'
    BY <1>1, <1>2, <1>3, <2>1 DEF OldIsDead, ReadSound, Live, Mine, At, Sound
  <2>3. Written'
    BY <1>3, <2>1 DEF Written, Busy, Empty, Exists
  <2>4. Live(q) => Exists(bx.token, threads[q].k) /\ Sound(files[bx.token][threads[q].k])
    BY <1>q, <2>1, CompleteIsSound DEF Live, Mine, Base, CleanInv, TypeInv, TypeOK, Thread
  <2>5. FoundSound'
    <3> SUFFICES ASSUME NEW o \in Threads, Live(o)', At(o, "read")',
                        threads'[o].seen = published'[bx'.token]
        PROVE  \/ Exists(bx.token, threads[o].k)' /\ Sound(files[bx.token][threads[o].k])'
               \/ \E th \in Threads : Live(th)' /\ At(th, "publish")'
      BY DEF FoundSound
    <3>1. CASE o = q
      <4>1. Live(q) /\ threads'[q].k = threads[q].k
        BY <1>1, <1>3, <3>1 DEF Live, Mine, OneMoves
      <4> QED BY <1>3, <2>4, <3>1, <4>1 DEF Exists, Sound
    <3>2. CASE o # q
      <4>1. threads'[o] = threads[o] /\ Live(o) /\ At(o, "read") /\ threads[o].seen = published[bx.token]
        BY <1>2, <1>3, <3>2 DEF Live, Mine, At
      <4>2. CASE Exists(bx.token, threads[o].k) /\ Sound(files[bx.token][threads[o].k])
        BY <1>3, <4>1, <4>2 DEF Exists, Sound
      <4>3. ASSUME NEW th \in Threads, Live(th), At(th, "publish")
            PROVE  Live(th)' /\ At(th, "publish")'
        BY <1>2, <1>3, <4>3 DEF Live, Mine, At
      <4> QED BY <2>1, <4>1, <4>2, <4>3 DEF FoundSound
    <3> QED BY <3>1, <3>2
  <2> QED BY <2>2, <2>3, <2>5
<1> QED BY <1>4, <1>5 DEF HalfInv

LEMMA HalfRead ==
  ASSUME Base, NEW q \in Requests, Read(q)
  PROVE  HalfInv'
<1> DEFINE f == files[threads[q].token][threads[q].k]
<1>q. q \in Threads /\ q \notin Tokens /\ threads[q] \in Thread
  BY RequestsAreThreads DEF Base, CleanInv, TypeInv, TypeOK
<1>0. UNCHANGED <<bx, files, runs, stop, published>> /\ threads[q].pc = "read"
  BY DEF Read, session, history, At
<1>1. CASE f = NoFile
  <2>1. Answered(q)
    BY <1>1 DEF Read
  <2> QED BY <1>q, <1>0, <2>1, AnsweredMoves, HalfQuiet
      DEF Base, CleanInv, TypeInv, Fresh, At
<1>2. CASE f # NoFile
  <2>1. threads' = [threads EXCEPT ![q] = [threads[q] EXCEPT !.pc = "stamp", !.data = f]]
    BY <1>2 DEF Read
  <2>f. f = files[threads[q].token][threads[q].k]
    OBVIOUS
  <2> HIDE DEF f
  <2>2. /\ \A o \in Threads : o # q => threads'[o] = threads[o]
        /\ threads'[q].pc = "stamp" /\ threads'[q].data = f
        /\ threads'[q].token = threads[q].token /\ threads'[q].seen = threads[q].seen
    BY <1>q, <2>1 DEF Base, CleanInv, TypeInv, TypeOK, Thread
  <2>3. StopGone' /\ FilesInPlace'
    BY <1>q, <1>0, <2>2, RequestsAreThreads DEF Base, HalfInv, StopGone, FilesInPlace, Exists, At
  <2>4. ASSUME Orderly' PROVE OldIsDead' /\ Written' /\ FoundSound' /\ ReadSound'
    <3>1. OldIsDead /\ Written /\ FoundSound /\ ReadSound /\ Ready
      BY <2>4 DEF Base, HalfInv, CleanInv, Clean
    <3>2. OldIsDead'
      BY <1>0, <2>2, <3>1 DEF OldIsDead, Live, Mine, At
    <3>3. Written'
      BY <1>0, <3>1 DEF Written, Busy, Empty, Exists
    <3>4. FoundSound'
      <4> SUFFICES ASSUME NEW o \in Threads, Live(o)', At(o, "read")',
                          threads'[o].seen = published'[bx'.token]
          PROVE  \/ Exists(bx.token, threads[o].k)' /\ Sound(files[bx.token][threads[o].k])'
                 \/ \E th \in Threads : Live(th)' /\ At(th, "publish")'
        BY DEF FoundSound
      <4>1. threads'[o] = threads[o] /\ Live(o) /\ At(o, "read") /\ threads[o].seen = published[bx.token]
        BY <1>0, <2>2 DEF Live, Mine, At
      <4>2. CASE Exists(bx.token, threads[o].k) /\ Sound(files[bx.token][threads[o].k])
        BY <1>0, <4>1, <4>2 DEF Exists, Sound
      <4>3. ASSUME NEW th \in Threads, Live(th), At(th, "publish")
            PROVE  Live(th)' /\ At(th, "publish")'
        BY <1>0, <2>2, <4>3 DEF Live, Mine, At
      <4> QED BY <3>1, <4>1, <4>2, <4>3 DEF FoundSound
    <3>5. ASSUME Live(q), threads[q].seen = published[bx.token] PROVE Sound(f)
      <4>1. Exists(bx.token, threads[q].k) /\ f = files[bx.token][threads[q].k]
        BY <1>2, <2>f, <3>5 DEF Exists, Live, Mine
      <4>2. threads[q].k \in Segs
        BY <1>q DEF Thread
      <4>3. ~ \E th \in Threads : Live(th) /\ At(th, "publish")
        BY <3>1, <4>1, <4>2 DEF Ready, Hot, Spawning, At, Empty
      <4> QED BY <1>q, <1>0, <3>1, <3>5, <4>1, <4>3 DEF FoundSound, At
    <3>6. ReadSound'
      BY <1>0, <2>2, <3>1, <3>5 DEF ReadSound, Live, Mine, At, Sound
    <3> QED BY <3>2, <3>3, <3>4, <3>6
  <2> QED BY <2>3, <2>4 DEF HalfInv
<1> QED BY <1>1, <1>2

LEMMA HalfRequest ==
  ASSUME Base, NEW q \in Requests, Request(q)
  PROVE  HalfInv'
<1>q. q \in Threads /\ q \notin Tokens /\ threads[q] \in Thread /\ TypeInv
  BY RequestsAreThreads DEF Base, CleanInv, TypeInv, TypeOK
<1> DEFINE Away == {"fresh", "look", "seek", "debounce", "settled", "kill", "recheck", "clear",
                    "poll", "served", "done"}
<1>1. ASSUME UNCHANGED <<files, published, runs>>, bx'.token = bx.token, stop'.token = stop.token,
             threads[q].pc # "publish", \A o \in Threads \ {q} : threads'[o] = threads[o],
             threads'[q].pc \in Away
      PROVE  HalfInv'
  BY <1>1, <1>q, HalfQuiet DEF At
<1> HIDE DEF Away
<1>2. ASSUME UNCHANGED <<files, published, runs>>, bx'.token = bx.token, stop'.token = stop.token,
             threads[q].pc # "publish",
             Answered(q) \/ Returns(q) \/ \E pc \in Away : Goto(q, pc)
      PROVE  HalfInv'
  <2>1. \A o \in Threads \ {q} : threads'[o] = threads[o]
    BY <1>2, <1>q, AnsweredMoves, ReturnsMoves, GotoMoves DEF OneMoves, TypeInv
  <2>2. threads'[q].pc \in Away
    BY <1>2, <1>q, AnsweredMoves, ReturnsMoves, GotoMoves DEF TypeInv, Fresh, Away
  <2> QED BY <1>1, <1>2, <2>1, <2>2
<1>a. {"seek", "debounce", "settled", "poll", "recheck", "clear"} \subseteq Away
  BY DEF Away
<1>3. CASE \E k \in Segs : Arrive(q, k)
  <2>1. PICK k \in Segs : Arrive(q, k)
    BY <1>3
  <2> DEFINE x == [Fresh EXCEPT !.pc = "look", !.token = bx.token, !.k = k]
  <2>2. x.pc \in Away
    BY DEF Fresh, Away
  <2> HIDE DEF x
  <2>3. threads' = [threads EXCEPT ![q] = x]
    BY <2>1 DEF Arrive, x
  <2> QED BY <1>1, <1>q, <2>1, <2>2, <2>3 DEF Arrive, TypeInv, TypeOK, session, history
<1>4. CASE Look(q) \/ Poll(q)
  <2>1. UNCHANGED <<session, runs, stop, published>> /\ threads[q].pc \in {"look", "poll"}
    BY <1>4 DEF Look, Poll, At, history
  <2>2. CASE Complete(threads[q].token, threads[q].k) /\ Found(q)
    BY <2>1, <2>2, HalfFound
  <2>3. CASE Answered(q) \/ \E pc \in Away : Goto(q, pc)
    BY <1>2, <2>1, <2>3 DEF session
  <2> QED BY <1>a, <1>4, <2>2, <2>3 DEF Look, Poll
<1>5. CASE Seek(q)
  <2>1. bx'.token = bx.token
    BY <1>5 DEF Seek, Base, CleanInv, TypeInv, TypeOK, Session
  <2> QED BY <1>2, <1>a, <1>5, <2>1 DEF Seek, At
<1>6. CASE Settle(q) \/ Recheck(q) \/ PollEnds(q)
  BY <1>2, <1>a, <1>6 DEF Settle, Recheck, PollEnds, At, session, history
<1>7. CASE Restart(q)
  <2>1. UNCHANGED <<session, runs, stop, published>> /\ threads[q].pc = "settled"
    BY <1>7 DEF Restart, At
  <2>2. CASE Mine(q)
    <3>1. threads' = [threads EXCEPT ![q] =
            [threads[q] EXCEPT !.pc = "kill", !.gen = bx.seekGen, !.run = registry[bx.token]]]
      BY <1>7, <2>2 DEF Restart
    <3>2. (\A o \in Threads \ {q} : threads'[o] = threads[o]) /\ threads'[q].pc = "kill"
      BY <1>q, <3>1 DEF TypeInv, TypeOK, Thread
    <3> QED BY <1>1, <2>1, <3>2 DEF session, Away
  <2>3. CASE ~Mine(q)
    BY <1>2, <1>7, <2>1, <2>3 DEF Restart, session
  <2> QED BY <2>2, <2>3
<1>8. CASE RestartKill(q)
  <2> DEFINE t == threads[q].token
             run == threads[q].run
             n == IF run = 0 THEN 1 ELSE 2
  <2>1. TypeOK /\ runs' = AfterKill(t, n, run)
    BY <1>8, <1>q DEF RestartKill, TypeInv
  <2> HIDE DEF t, n, run
  <2>2. StaysPut
    BY <2>1, AfterKillPuts
  <2>3. OneMoves(q) /\ threads'[q].pc = "recheck" /\ threads[q].pc = "kill"
    BY <1>8, <1>q, GotoMoves DEF RestartKill, At, TypeInv
  <2>4. \A o \in Threads : threads'[o] = threads[o] \/ Aside(o)
    BY <1>q, <2>3 DEF OneMoves, Aside, At
  <2> QED BY <1>8, <2>2, <2>4, HalfFrame DEF RestartKill, session
<1>9. CASE Stamp(q)
  <2>1. UNCHANGED <<session, runs, stop, published>> /\ threads[q].pc = "stamp"
    BY <1>9 DEF Stamp, At, history
  <2>2. CASE Mine(q)
    <3> DEFINE x == [Fresh EXCEPT !.pc = "served", !.stamp = bx.anchor]
    <3>1. x.pc \in Away
      BY DEF Fresh, Away
    <3> HIDE DEF x
    <3>2. threads' = [threads EXCEPT ![q] = x]
      BY <1>9, <2>2 DEF Stamp, x
    <3> QED BY <1>1, <1>q, <2>1, <3>1, <3>2 DEF TypeInv, TypeOK, session
  <2>3. CASE ~Mine(q)
    BY <1>2, <1>9, <2>1, <2>3 DEF Stamp, session
  <2> QED BY <2>2, <2>3
<1> QED BY <1>3, <1>4, <1>5, <1>6, <1>7, <1>8, <1>9, HalfRead DEF Request

(* ffmpeg in the live session: it closes what it leaves, opens what was not
   there, and disturbs no file that was closed. *)
Writes(r) ==
  /\ \A j \in Segs : Exists(bx.token, j) =>
       /\ files'[bx.token][j] # NoFile /\ files'[bx.token][j].run = files[bx.token][j].run
       /\ files[bx.token][j].whole => files'[bx.token][j].whole
  /\ runs'[r].state \in Living =>
       /\ runs'[r].state = "running"
       /\ \A j \in Segs : files'[bx.token][j] # NoFile =>
            /\ files'[bx.token][j].run = r /\ j <= runs'[r].at
            /\ j = runs'[r].at \/ files'[bx.token][j].whole

LEMMA LiveWrites ==
  ASSUME CleanInv, Written, NEW r \in 1..Len(runs), Busy(r), Appear(r) \/ Write(r)
  PROVE  Writes(r)
<1> DEFINE t == bx.token
           new == [run |-> r, whole |-> FALSE]
<1>1. /\ t \in Tokens /\ runs[r].token = t /\ runs[r] \in Run /\ r \in Nat
      /\ runs[r].at \in Segs /\ runs[r].anchor \in Segs /\ Segs \subseteq Nat
  BY RunFacts, Numbers DEF Busy, CleanInv, TypeInv, Run
<1>2. files[t] \in [Segs -> File] /\ new \in File /\ new # NoFile /\ new.run = r
  BY <1>1, RunFacts DEF CleanInv, TypeInv, TypeOK, File, NoFile
<1>3. /\ runs[r].state = "starting" => Empty /\ runs[r].at = runs[r].anchor
      /\ \A k \in Segs : Exists(t, k) =>
           /\ files[t][k].run = r /\ k <= runs[r].at
           /\ k = runs[r].at \/ files[t][k].whole
  BY DEF Written
<1>e. ASSUME UNCHANGED files, runs' = Ends(r) PROVE Writes(r)
  <2>1. runs' = [runs EXCEPT ![r] = [runs[r] EXCEPT !.state = "ended", !.client = FALSE]]
    BY <1>1, <1>e, RunFacts DEF Ends, CleanInv, TypeInv
  <2>2. runs'[r].state = "ended"
    BY <1>1, <2>1, RunFacts DEF Run, CleanInv, TypeInv
  <2> QED BY <1>e, <2>2 DEF Writes, Exists, Living
<1>4. CASE Appear(r)
  <2>1. CASE t \in dirs
    <3>1. /\ files' = [files EXCEPT ![t] = [files[t] EXCEPT ![runs[r].anchor] = new]]
          /\ runs' = [runs EXCEPT ![r] = [runs[r] EXCEPT !.state = "running"]]
      BY <1>1, <1>4, <2>1 DEF Appear
    <3>2. runs'[r].state = "running" /\ runs'[r].at = runs[r].anchor /\ Empty
      BY <1>1, <1>3, <1>4, <3>1, RunFacts DEF Appear, Run, CleanInv, TypeInv
    <3> HIDE DEF new, t
    <3>3. \A j \in Segs : files'[t][j] = IF j = runs[r].anchor THEN new ELSE files[t][j]
      BY <1>1, <1>2, <3>1 DEF CleanInv, TypeInv, TypeOK
    <3>4. \A j \in Segs : files[t][j] = NoFile
      BY <3>2 DEF Empty, Exists, t
    <3>5. ASSUME NEW j \in Segs, files'[t][j] # NoFile
          PROVE  files'[t][j].run = r /\ j <= runs'[r].at /\ j = runs'[r].at
      <4>1. j = runs[r].anchor /\ files'[t][j] = new
        BY <3>3, <3>4, <3>5
      <4>2. j \in Nat /\ j = runs'[r].at
        BY <1>1, <3>2, <4>1
      <4> QED BY <1>2, <4>1, <4>2
    <3> QED BY <3>2, <3>4, <3>5 DEF Writes, Exists, t
  <2>2. CASE t \notin dirs
    BY <1>1, <1>4, <1>e, <2>2 DEF Appear
  <2> QED BY <2>1, <2>2
<1>5. CASE Write(r)
  <2> DEFINE k == runs[r].at
             closed == IF files[t][k].run = r
                       THEN [files[t] EXCEPT ![k].whole = TRUE] ELSE files[t]
  <2>1. closed \in [Segs -> File]
    <3>1. files[t][k] \in File
      BY <1>1, <1>2
    <3>2. [files[t][k] EXCEPT !.whole = TRUE] \in File
      BY <3>1 DEF File
    <3> QED BY <1>2, <3>2
  <2>2. \A j \in Segs : /\ j # k => closed[j] = files[t][j]
                        /\ files[t][j] = NoFile => closed[j] = NoFile
                        /\ files[t][j] # NoFile =>
                             /\ closed[j] # NoFile /\ closed[j].run = files[t][j].run
                             /\ files[t][j].whole \/ j = k => closed[j].whole
    <3>1. \A j \in Segs : j # k => closed[j] = files[t][j]
      BY <1>1, <1>2
    <3>2. files[t][k] \in File
      BY <1>1, <1>2
    <3>3. CASE files[t][k].run = r
      <4>1. closed[k] = [files[t][k] EXCEPT !.whole = TRUE]
        BY <1>1, <1>2, <3>3
      <4>2. closed[k].run = r /\ closed[k].whole = TRUE
        BY <3>2, <3>3, <4>1 DEF File
      <4>3. files[t][k] # NoFile /\ closed[k] # NoFile
        BY <1>1, <3>3, <4>2 DEF NoFile
      <4> HIDE DEF closed
      <4> QED BY <3>1, <3>3, <4>2, <4>3
    <3>4. CASE files[t][k].run # r
      <4>1. files[t][k] = NoFile
        BY <1>1, <1>3, <3>4 DEF Exists
      <4> QED BY <1>1, <3>1, <3>4, <4>1
    <3> QED BY <3>3, <3>4
  <2>3. CASE t \in dirs /\ k < Last
    <3>1. /\ files' = [files EXCEPT ![t] = [closed EXCEPT ![k + 1] = new]]
          /\ runs' = [runs EXCEPT ![r] = [runs[r] EXCEPT !.at = k + 1]]
          /\ runs[r].state = "running"
      BY <1>1, <1>5, <2>3 DEF Write
    <3>2. k + 1 \in Segs /\ k \in Nat
      BY <1>1, <2>3 DEF Segs
    <3>3. runs'[r].state = "running" /\ runs'[r].at = k + 1
      BY <1>1, <3>1, RunFacts DEF Run, CleanInv, TypeInv
    <3> HIDE DEF new, t, closed, k
    <3>4. \A j \in Segs : files'[t][j] = IF j = k + 1 THEN new ELSE closed[j]
      BY <1>1, <2>1, <3>1, <3>2 DEF CleanInv, TypeInv, TypeOK
    <3>5. files[t][k + 1] = NoFile
      <4>1. ~(k + 1 <= k)
        BY <3>2
      <4> QED BY <1>3, <3>2, <4>1 DEF Exists, k
    <3>6. \A j \in Segs : files[t][j] # NoFile =>
            /\ files'[t][j] # NoFile /\ files'[t][j].run = files[t][j].run
            /\ files[t][j].whole => files'[t][j].whole
      BY <2>2, <3>4, <3>5
    <3>7. ASSUME NEW j \in Segs, files'[t][j] # NoFile
          PROVE  /\ files'[t][j].run = r /\ j <= k + 1
                 /\ j = k + 1 \/ files'[t][j].whole
      <4>1. CASE j = k + 1
        BY <1>2, <3>2, <3>4, <4>1
      <4>2. CASE j # k + 1
        <5>1. files'[t][j] = closed[j] /\ files[t][j] # NoFile
          BY <2>2, <3>4, <3>7, <4>2
        <5>2. files[t][j].run = r /\ j <= k /\ (j = k \/ files[t][j].whole) /\ j \in Nat
          BY <1>1, <1>3, <5>1 DEF Exists, k
        <5> QED BY <2>2, <3>2, <5>1, <5>2
      <4> QED BY <4>1, <4>2
    <3> QED BY <3>3, <3>6, <3>7 DEF Writes, Exists, t
  <2>4. CASE ~(t \in dirs /\ k < Last)
    <3>1. files' = [files EXCEPT ![t] = closed] /\ runs' = Ends(r)
      BY <1>1, <1>5, <2>4 DEF Write
    <3>2. runs' = [runs EXCEPT ![r] = [runs[r] EXCEPT !.state = "ended", !.client = FALSE]]
      BY <1>1, <3>1, RunFacts DEF Ends, CleanInv, TypeInv
    <3>3. runs'[r].state = "ended"
      BY <1>1, <3>2, RunFacts DEF Run, CleanInv, TypeInv
    <3> HIDE DEF closed, t
    <3>4. files'[t] = closed
      BY <1>1, <3>1 DEF CleanInv, TypeInv, TypeOK
    <3> QED BY <2>2, <3>3, <3>4 DEF Writes, Exists, Living, t
  <2> QED BY <2>3, <2>4
<1> QED BY <1>4, <1>5

LEMMA HalfFfmpeg ==
  ASSUME Base, NEW r \in DOMAIN runs, Ffmpeg(r)
  PROVE  HalfInv'
<1>r. r \in 1..Len(runs) /\ DOMAIN runs = 1..Len(runs) /\ runs[r] \in Run /\ TypeOK
  BY RunFacts DEF Base, CleanInv, TypeInv
<1>1. /\ OnlyDies
      /\ runs[r].state \in Living /\ runs[r].token \in Tokens
      /\ \A t \in Tokens, k \in Segs :
           \/ files'[t][k] = files[t][k]
           \/ t = runs[r].token /\ files'[t][k].run = r
      /\ UNCHANGED <<bx, threads, stop, published>>
  BY <1>r, FfmpegMoves DEF history
<1>2. \A s \in 1..Len(runs) : s # r => runs'[s] = runs[s]
  BY <1>r DEF Ffmpeg, Appear, NeverStarts, Write, Ends
<1>3. CASE NeverStarts(r)
  <2>1. runs' = [runs EXCEPT ![r] = [runs[r] EXCEPT !.state = "killed"]]
    BY <1>3 DEF NeverStarts
  <2>2. runs'[r].state = "killed" /\ runs'[r].at = runs[r].at
    BY <1>r, <2>1 DEF Run
  <2>3. StaysPut
    BY <1>1, <1>2, <2>2 DEF StaysPut, Living
  <2> QED BY <1>1, <1>3, <2>3, HalfFrame DEF NeverStarts, session
<1>4. CASE Appear(r) \/ Write(r)
  <2>l. Len(runs') = Len(runs)
    BY <1>1 DEF OnlyDies
  <2>r. \A s \in 1..Len(runs) :
          /\ runs'[s].token = runs[s].token
          /\ runs'[s].state \in Living => runs[s].state \in Living
    BY <1>1 DEF OnlyDies
  <2>k. /\ \A t \in Tokens, k \in Segs : Exists(t, k) => files[t][k].run \in 1..Len(runs)
        /\ \A o \in Threads : At(o, "stamp") => threads[o].data.run \in 1..Len(runs)
        /\ \A o \in Threads : At(o, "stopOld") => threads[o].run \in 1..Len(runs)
    BY DEF Base, CleanInv, Past, KnownRuns, StrayInv, Owned, RunOf
  <2>1. StopGone'
    BY <1>1 DEF Base, HalfInv, StopGone, At
  <2>2. FilesInPlace'
    <3> SUFFICES ASSUME NEW t \in Tokens, NEW k \in Segs, files'[t][k] # NoFile
        PROVE  runs'[files'[t][k].run].token = t
      BY DEF FilesInPlace, Exists
    <3>1. CASE files'[t][k] = files[t][k]
      BY <2>r, <2>k, <3>1 DEF Base, HalfInv, FilesInPlace, Exists
    <3>2. CASE t = runs[r].token /\ files'[t][k].run = r
      BY <1>r, <2>r, <3>2
    <3> QED BY <1>1, <3>1, <3>2
  <2>3. ASSUME Orderly' PROVE OldIsDead' /\ Written' /\ FoundSound' /\ ReadSound'
    <3>1. OldIsDead /\ Written /\ FoundSound /\ ReadSound /\ Single /\ Ready
      BY <2>3 DEF Base, HalfInv, CleanInv, Clean
    <3>2. OldIsDead' /\ ReadSound'
      BY <1>1, <2>r, <2>k, <3>1 DEF OldIsDead, ReadSound, Live, Mine, At, Sound
    <3>b. \A s \in 1..Len(runs) : Busy(s)' => Busy(s)
      BY <1>1, <2>r DEF Busy
    <3>3. CASE Busy(r)
      <4>1. Writes(r)
        BY <1>r, <1>4, <3>1, <3>3, LiveWrites DEF Base
      <4>2. Written'
        <5> SUFFICES ASSUME NEW s \in 1..Len(runs), Busy(s)'
            PROVE  /\ runs'[s].state # "starting"
                   /\ \A k \in Segs : files'[bx.token][k] # NoFile =>
                        /\ files'[bx.token][k].run = s /\ k <= runs'[s].at
                        /\ k = runs'[s].at \/ files'[bx.token][k].whole
          BY <1>1, <2>l DEF Written, Exists
        <5>1. s = r /\ runs'[r].state \in Living
          BY <1>r, <3>b, <3>1, <3>3 DEF Single, Busy
        <5> QED BY <4>1, <5>1 DEF Writes
      <4>3. FoundSound'
        <5> SUFFICES ASSUME NEW q \in Threads, Live(q)', At(q, "read")',
                            threads'[q].seen = published'[bx'.token]
            PROVE  Exists(bx.token, threads[q].k)' /\ Sound(files[bx.token][threads[q].k])'
          BY DEF FoundSound
        <5>1. Live(q) /\ At(q, "read") /\ threads[q].seen = published[bx.token]
          BY <1>1 DEF Live, Mine, At
        <5>2. ~ \E th \in Threads : Live(th) /\ At(th, "publish")
          BY <1>r, <3>1, <3>3 DEF Ready, Hot, Spawning, At, NoneBusy
        <5>3. Exists(bx.token, threads[q].k) /\ Sound(files[bx.token][threads[q].k])
          BY <3>1, <5>1, <5>2 DEF FoundSound
        <5>4. threads[q].k \in Segs /\ bx.token \in Tokens
          BY <1>r, <5>1 DEF TypeOK, Thread, Live
        <5>5. /\ files'[bx.token][threads[q].k] # NoFile
              /\ files'[bx.token][threads[q].k].run = files[bx.token][threads[q].k].run
              /\ files[bx.token][threads[q].k].whole => files'[bx.token][threads[q].k].whole
          BY <4>1, <5>3, <5>4 DEF Writes
        <5> QED BY <1>1, <2>r, <2>k, <5>3, <5>4, <5>5 DEF Exists, Sound
      <4> QED BY <3>2, <4>2, <4>3
    <3>4. CASE ~Busy(r)
      <4>1. \A s \in 1..Len(runs) : Busy(s)' => s # r /\ runs'[s] = runs[s] /\ Busy(s)
        BY <1>2, <3>b, <3>4
      <4>2. bx.token \in Tokens => \A k \in Segs : files'[bx.token][k] = files[bx.token][k]
        BY <1>1, <3>4 DEF Busy
      <4>3. Written'
        BY <1>1, <2>l, <3>1, <4>1, <4>2 DEF Written, Busy, Empty, Exists
      <4>4. FoundSound'
        <5> SUFFICES ASSUME NEW q \in Threads, Live(q)', At(q, "read")',
                            threads'[q].seen = published'[bx'.token]
            PROVE  \/ Exists(bx.token, threads[q].k)' /\ Sound(files[bx.token][threads[q].k])'
                   \/ \E th \in Threads : Live(th)' /\ At(th, "publish")'
          BY DEF FoundSound
        <5>1. Live(q) /\ At(q, "read") /\ threads[q].seen = published[bx.token]
          BY <1>1 DEF Live, Mine, At
        <5>2. threads[q].k \in Segs /\ bx.token \in Tokens
          BY <1>r, <5>1 DEF TypeOK, Thread, Live
        <5>3. CASE Exists(bx.token, threads[q].k) /\ Sound(files[bx.token][threads[q].k])
          BY <1>1, <2>r, <2>k, <4>2, <5>2, <5>3 DEF Exists, Sound
        <5>4. ASSUME NEW th \in Threads, Live(th), At(th, "publish")
              PROVE  Live(th)' /\ At(th, "publish")'
          BY <1>1, <5>4 DEF Live, Mine, At
        <5> QED BY <3>1, <5>1, <5>3, <5>4 DEF FoundSound
      <4> QED BY <3>2, <4>3, <4>4
    <3> QED BY <3>3, <3>4
  <2> QED BY <2>1, <2>2, <2>3 DEF HalfInv
<1> QED BY <1>3, <1>4 DEF Ffmpeg

LEMMA HalfInit == Init => HalfInv
<1> SUFFICES ASSUME Init PROVE HalfInv
  OBVIOUS
<1>1. bx.token = NoToken /\ stop.token = NoToken /\ NoToken \notin Tokens
  BY DEF Init, Idle
<1>2. \A t \in Tokens, k \in Segs : ~Exists(t, k)
  BY DEF Init, Exists
<1> QED BY <1>1, <1>2 DEF HalfInv, StopGone, FilesInPlace, OldIsDead, Written, FoundSound,
        ReadSound, Live, Busy

LEMMA HalfStep == CleanInv /\ StrayInv /\ HalfInv /\ [Next]_vars => HalfInv'
<1> SUFFICES ASSUME CleanInv, StrayInv, HalfInv, [Next]_vars PROVE HalfInv'
  OBVIOUS
<1>1. Base
  BY OrderlyBefore DEF Base, CleanInv, TypeInv
<1>2. CASE UNCHANGED vars
  <2>1. StaysPut
    BY <1>1, <1>2, UnchangedPuts DEF Base, CleanInv, TypeInv, vars
  <2> QED BY <1>1, <1>2, <2>1, HalfFrame DEF vars, session, history
<1>3. CASE Next
  BY <1>1, <1>3, HalfBegin, HalfSpawn, HalfRequest, HalfStop, HalfFfmpeg DEF Next
<1> QED BY <1>2, <1>3

(* No segment is handed out while ffmpeg is writing it: what seg_complete()
   says of the next file and of the process holds when the bytes are read,
   unless another run was published, or a crossing happened, in between. *)
THEOREM WholeWhenServed == Spec => NeverHalfWritten
<1>1. CleanInv /\ HalfInv /\ [Next]_vars =>
        [\A q \in Requests : Serves(q) /\ ~Overtaken(q) =>
           \/ threads[q].data.whole
           \/ runs[threads[q].data.run].state # "running"]_vars
  <2> SUFFICES ASSUME CleanInv, HalfInv, Next, NEW q \in Requests, Serves(q), ~Overtaken(q)
      PROVE  threads[q].data.whole \/ runs[threads[q].data.run].state # "running"
    OBVIOUS
  <2>q. q \in Threads
    BY RequestsAreThreads
  <2>1. Stamp(q) /\ Mine(q) /\ At(q, "stamp")
    BY OnlyStampServes DEF CleanInv, Serves
  <2>2. Live(q)
    BY <2>q, <2>1 DEF CleanInv, TypeInv, Tokened, At, Live, Mine
  <2>3. Orderly /\ threads[q].seen = published[bx.token]
    BY <2>1 DEF Overtaken, Mine
  <2> QED BY <2>q, <2>1, <2>2, <2>3 DEF HalfInv, ReadSound, Sound, Living
<1>2. Spec => []StrayInv
  BY StrayInit, StrayStep, CleanAlways, PTL DEF Spec
<1>3. Spec => []HalfInv
  BY <1>2, HalfInit, HalfStep, CleanAlways, PTL DEF Spec
<1> QED BY <1>1, <1>3, CleanAlways, PTL DEF NeverHalfWritten, Spec
=============================================================================
