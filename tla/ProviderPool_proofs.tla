------------------------ MODULE ProviderPool_proofs ------------------------
(***************************************************************************)
(* Proofs about ProviderPool, for every finite set of callers, every set   *)
(* of savers, every size of the pool and any number of saves and faults.   *)
(***************************************************************************)
EXTENDS ProviderPool, FiniteSetTheorems, SequenceTheorems, TLAPS

(***************************************************************************)
(* What a step does to one pool, one caller or one saver.                  *)
(***************************************************************************)
LEMMA PoolSet ==
  ASSUME TypeOK, NEW i \in DOMAIN pools, NEW new \in Pools, pools' = [pools EXCEPT ![i] = new]
  PROVE  /\ pools' \in Seq(Pools) /\ DOMAIN pools' = DOMAIN pools
         /\ \A j \in DOMAIN pools : pools'[j] = IF j = i THEN new ELSE pools[j]
<1>1. pools \in Seq(Pools)
  BY DEF TypeOK, PoolsOK
<1>2. i \in 1..Len(pools)
  BY <1>1, LenProperties
<1>3. pools' \in Seq(Pools) /\ Len(pools') = Len(pools)
  BY <1>1, <1>2, ExceptSeq
<1> QED
  BY <1>1, <1>3, LenProperties

LEMMA PoolTyped ==
  ASSUME TypeOK, NEW i \in DOMAIN pools
  PROVE  pools[i] \in Pools
BY LenProperties DEF TypeOK, PoolsOK

LEMMA Typed ==
  ASSUME TypeOK
  PROVE  /\ \A c \in Callers : caller[c] \in Caller
         /\ \A s \in Savers : saver[s] \in Saver
BY DEF TypeOK, CallersOK, SaversOK

LEMMA CallerSet ==
  ASSUME TypeOK, NEW c \in Callers, NEW new, Step(c, new)
  PROVE  /\ caller' = [d \in Callers |-> IF d = c THEN new ELSE caller[d]]
         /\ DOMAIN caller' = Callers
BY DEF TypeOK, CallersOK, Step

LEMMA RestingTyped == Resting \in Caller /\ Resting.at = "idle"
BY DEF Resting, Caller, Looking, InPool

LEMMA WorkerTyped ==
  ASSUME NEW p \in Pools
  PROVE  Worker(p) \in Workers
BY DEF Worker, Workers, Pools

(* A new pool is full. *)
LEMMA NewPoolIs ==
  ASSUME NEW cfg \in Nat, NEW rev \in Nat
  PROVE  LET p == NewPool(cfg, rev)
         IN /\ p \in Pools /\ Len(p.idle) = Size /\ p.fresh = <<>> /\ p.relaunch = 0
            /\ p.cfg = cfg /\ p.rev = rev /\ ~p.closed
            /\ p.idle \in Seq({[cfg |-> cfg, rev |-> rev, up |-> TRUE]})
<1> DEFINE w == [cfg |-> cfg, rev |-> rev, up |-> TRUE]
<1> DEFINE q == [i \in 1..Size |-> w]
<1>1. Size \in Nat
  BY SizeAssumption
<1>2. q \in Seq({w}) /\ q \in Seq(Workers) /\ Len(q) = Size
  <2>1. w \in Workers
    BY DEF Workers
  <2> HIDE DEF w
  <2> QED
    BY <1>1, <2>1
<1>3. NewPool(cfg, rev) = [cfg |-> cfg, rev |-> rev, closed |-> FALSE, relaunch |-> 0,
                           fresh |-> <<>>, short |-> FALSE, idle |-> q]
  <2> DEFINE p == [cfg |-> cfg, rev |-> rev, closed |-> FALSE, relaunch |-> 0, fresh |-> <<>>,
                   short |-> FALSE, idle |-> <<>>]
  <2>1. Worker(p) = w
    BY DEF Worker
  <2>2. NewPool(cfg, rev) = [p EXCEPT !.idle = [i \in 1..Size |-> Worker(p)]]
    BY DEF NewPool
  <2>3. [i \in 1..Size |-> Worker(p)] = q
    BY <2>1
  <2>4. NewPool(cfg, rev) = [p EXCEPT !.idle = q]
    BY <2>2, <2>3
  <2> HIDE DEF q
  <2> QED
    BY <2>4
<1>4. <<>> \in Seq(Workers)
  BY EmptySeq
<1> HIDE DEF q
<1> QED
  BY <1>2, <1>3, <1>4 DEF Pools

(***************************************************************************)
(* Types.                                                                  *)
(***************************************************************************)
LEMMA StepTyped ==
  ASSUME TypeOK, NEW c \in Callers, NEW new \in Caller, Step(c, new),
         new.at \in InPool => new.pool \in DOMAIN pools',
         new.at = "asked" => new.worker \in Workers,
         DOMAIN pools \subseteq DOMAIN pools'
  PROVE  CallersOK'
<1>1. caller' = [d \in Callers |-> IF d = c THEN new ELSE caller[d]]
  BY CallerSet
<1>2. \A d \in Callers : caller[d] \in Caller
  BY Typed
<1> QED
  BY <1>1, <1>2 DEF TypeOK, CallersOK

LEMMA ReturnsTyped ==
  ASSUME TypeOK, NEW c \in Callers, Returns(c), DOMAIN pools \subseteq DOMAIN pools'
  PROVE  CallersOK'
<1>1. Resting.at \notin InPool /\ Resting.at # "asked"
  BY DEF Resting, InPool
<1> QED
  BY <1>1, RestingTyped, StepTyped DEF Returns

LEMMA TakeTyped ==
  ASSUME TypeOK, NEW i \in DOMAIN pools, NEW new \in Pools, pools' = [pools EXCEPT ![i] = new],
         UNCHANGED <<instance, managed>>
  PROVE  PoolsOK'
BY PoolSet DEF TypeOK, PoolsOK

LEMMA SaverTyped ==
  ASSUME TypeOK, NEW s \in Savers, NEW new \in Saver, saver' = [saver EXCEPT ![s] = new],
         new.at = "closes" => new.pool \in DOMAIN pools',
         DOMAIN pools \subseteq DOMAIN pools'
  PROVE  SaversOK'
BY DEF TypeOK, SaversOK

LEMMA CountTyped ==
  ASSUME TypeOK, Fault
  PROVE  spent' \in [saves : Nat, faults : Nat]
BY DEF TypeOK, Fault

(* The pool of a caller that is in one. *)
LEMMA PoolIs ==
  ASSUME TypeOK, NEW c \in Callers, caller[c].at \in InPool
  PROVE  /\ caller[c].pool \in DOMAIN pools
         /\ Pool(c) \in Pools /\ Pool(c) = pools[caller[c].pool]
         /\ Pool(c).idle \in Seq(Workers) /\ Pool(c).fresh \in Seq(Workers)
         /\ Pool(c).relaunch \in Nat
<1>1. caller[c].pool \in DOMAIN pools
  BY DEF TypeOK, CallersOK
<1> QED
  BY <1>1, PoolTyped DEF Pool, Pools

LEMMA QueueEnds ==
  ASSUME NEW q \in Seq(Workers), q # <<>>
  PROVE  /\ Head(q) \in Workers /\ Tail(q) \in Seq(Workers)
         /\ Len(Tail(q)) = Len(q) - 1
BY HeadTailProperties

LEMMA QueueGrows ==
  ASSUME NEW q \in Seq(Workers), NEW w \in Workers
  PROVE  Append(q, w) \in Seq(Workers) /\ Len(Append(q, w)) = Len(q) + 1
OBVIOUS

LEMMA DiscardedTyped ==
  ASSUME TypeOK, NEW c \in Callers, caller[c].at \in InPool, Discarded(c),
         UNCHANGED <<instance, managed>>
  PROVE  PoolsOK' /\ DOMAIN pools' = DOMAIN pools
<1> DEFINE new == [Pool(c) EXCEPT !.relaunch = @ + 1]
<1>1. new \in Pools
  BY PoolIs DEF Pools
<1>2. pools' = [pools EXCEPT ![caller[c].pool] = new]
  BY DEF Discarded, Take
<1> HIDE DEF new
<1>3. DOMAIN pools' = DOMAIN pools
  BY <1>1, <1>2, PoolIs, PoolSet
<1> QED
  BY <1>1, <1>2, <1>3, PoolIs, TakeTyped

LEMMA OverlapTyped ==
  ASSUME TypeOK, caller' = Overlap, UNCHANGED pools
  PROVE  CallersOK'
<1>1. \A c \in Callers : caller[c] \in Caller
  BY Typed
<1>2. \A c \in Callers : [caller[c] EXCEPT !.alone = FALSE] \in Caller
  BY <1>1 DEF Caller
<1> QED
  BY <1>1, <1>2 DEF TypeOK, CallersOK, Overlap, Caller

LEMMA TypeInit == Init => TypeOK
<1> SUFFICES ASSUME Init PROVE TypeOK
  OBVIOUS
<1>1. PoolsOK
  BY EmptySeq DEF Init, PoolsOK
<1>2. CallersOK
  BY RestingTyped DEF Init, CallersOK, Resting, InPool
<1>3. SaversOK
  BY DEF Init, SaversOK, Saver
<1> QED
  BY <1>1, <1>2, <1>3 DEF Init, TypeOK

LEMMA LookupTyped ==
  ASSUME TypeOK, NEW c \in Callers, ReadRecord(c) \/ ReadRevision(c)
  PROVE  TypeOK'
<1>1. caller[c] \in Caller
  BY Typed
<1>2. CASE ReadRecord(c)
  <2> DEFINE new == [Resting EXCEPT !.at = "record", !.cfg = saved, !.least = told,
                                    !.alone = Quiet]
  <2>1. Quiet \in BOOLEAN
    BY DEF Quiet
  <2>2. new \in Caller /\ new.at = "record"
    BY <2>1, RestingTyped DEF TypeOK, Caller, Looking
  <2>3. Step(c, new) /\ UNCHANGED pools
    BY <1>2 DEF ReadRecord
  <2> HIDE DEF new
  <2>4. CallersOK'
    BY <2>2, <2>3, StepTyped DEF InPool
  <2> QED
    BY <1>2, <2>4 DEF ReadRecord, TypeOK, PoolsOK, SaversOK, registry, histories
<1>3. CASE ReadRevision(c)
  <2> DEFINE new == [caller[c] EXCEPT !.at = "revision", !.rev = saved]
  <2>1. new \in Caller /\ new.at = "revision"
    BY <1>1 DEF TypeOK, Caller, Looking
  <2>2. Step(c, new) /\ UNCHANGED pools
    BY <1>3 DEF ReadRevision
  <2> HIDE DEF new
  <2>3. CallersOK'
    BY <2>1, <2>2, StepTyped DEF InPool
  <2> QED
    BY <1>3, <2>3 DEF ReadRevision, TypeOK, PoolsOK, SaversOK, registry, histories
<1> QED
  BY <1>2, <1>3

(* The three ways of _get_instance(). *)
CachedPool(c) ==
  /\ Cached(caller[c].rev)
  /\ Step(c, Has(c, instance.pool))
  /\ UNCHANGED <<instance, managed, pools>>
MadePool(c) ==
  /\ managed = 0
  /\ pools' = Append(pools, NewPool(caller[c].cfg, caller[c].rev))
  /\ managed' = Len(pools')
  /\ instance' = [rev |-> caller[c].rev, pool |-> managed']
  /\ Step(c, Has(c, managed'))
KeptPool(c) ==
  /\ managed # 0
  /\ pools' = [pools EXCEPT ![managed] = Reconfigured(pools[managed], caller[c].cfg,
                                                      caller[c].rev)]
  /\ managed' = managed
  /\ instance' = [rev |-> caller[c].rev, pool |-> managed]
  /\ Step(c, Has(c, managed))

LEMMA GetInstanceIs ==
  ASSUME NEW c \in Callers, GetInstance(c)
  PROVE  /\ CachedPool(c) \/ MadePool(c) \/ KeptPool(c)
         /\ At(c, "revision") /\ crossed' = (crossed \/ Late(c))
         /\ UNCHANGED <<saved, saver, spent, told, missed>>
BY DEF GetInstance, CachedPool, MadePool, KeptPool

LEMMA MadePoolIs ==
  ASSUME TypeOK, NEW c \in Callers, MadePool(c)
  PROVE  LET p == NewPool(caller[c].cfg, caller[c].rev)
         IN /\ p \in Pools /\ pools' \in Seq(Pools)
            /\ managed' \in Nat \ {0} /\ managed' \notin DOMAIN pools
            /\ DOMAIN pools' = DOMAIN pools \cup {managed'}
            /\ \A i \in DOMAIN pools : pools'[i] = pools[i]
            /\ pools'[managed'] = p
<1> DEFINE p == NewPool(caller[c].cfg, caller[c].rev)
<1>1. p \in Pools
  BY Typed, NewPoolIs DEF Caller
<1>2. pools \in Seq(Pools)
  BY DEF TypeOK, PoolsOK
<1>3. pools' = Append(pools, p) /\ managed' = Len(pools')
  BY DEF MadePool
<1> HIDE DEF p
<1>4. /\ pools' \in Seq(Pools) /\ Len(pools') = Len(pools) + 1
      /\ pools'[Len(pools) + 1] = p
      /\ \A i \in 1..Len(pools) : pools'[i] = pools[i]
  BY <1>1, <1>2, <1>3
<1>5. DOMAIN pools = 1..Len(pools) /\ DOMAIN pools' = 1..Len(pools') /\ Len(pools) \in Nat
  BY <1>2, <1>4, LenProperties
<1> QED
  BY <1>1, <1>3, <1>4, <1>5 DEF p

LEMMA KeptPoolIs ==
  ASSUME TypeOK, NEW c \in Callers, KeptPool(c)
  PROVE  LET new == Reconfigured(pools[managed], caller[c].cfg, caller[c].rev)
         IN /\ managed \in DOMAIN pools /\ new \in Pools
            /\ new = [pools[managed] EXCEPT !.cfg = caller[c].cfg, !.rev = caller[c].rev]
            /\ pools' \in Seq(Pools) /\ DOMAIN pools' = DOMAIN pools
            /\ \A i \in DOMAIN pools : pools'[i] = IF i = managed THEN new ELSE pools[i]
<1> DEFINE new == Reconfigured(pools[managed], caller[c].cfg, caller[c].rev)
<1>1. managed \in DOMAIN pools
  BY DEF KeptPool, TypeOK, PoolsOK
<1>2. new = [pools[managed] EXCEPT !.cfg = caller[c].cfg, !.rev = caller[c].rev]
  BY DEF Reconfigured
<1>3. new \in Pools
  BY <1>1, <1>2, PoolTyped, Typed DEF Pools, Caller
<1>4. pools' = [pools EXCEPT ![managed] = new]
  BY DEF KeptPool
<1> HIDE DEF new
<1>5. /\ pools' \in Seq(Pools) /\ DOMAIN pools' = DOMAIN pools
      /\ \A i \in DOMAIN pools : pools'[i] = IF i = managed THEN new ELSE pools[i]
  BY <1>1, <1>3, <1>4, PoolSet
<1> QED
  BY <1>1, <1>2, <1>3, <1>5 DEF new

LEMMA HasTyped ==
  ASSUME TypeOK, NEW c \in Callers, NEW i \in Nat
  PROVE  /\ Has(c, i) \in Caller /\ Has(c, i).at = "has" /\ Has(c, i).pool = i
         /\ Has(c, i).least = caller[c].least /\ Has(c, i).alone = caller[c].alone
<1>1. caller[c] \in Caller
  BY Typed
<1> QED
  BY <1>1, RestingTyped DEF Has, Resting, Caller, InPool

LEMMA GetInstanceTyped ==
  ASSUME TypeOK, NEW c \in Callers, GetInstance(c)
  PROVE  TypeOK'
<1>1. /\ crossed' = (crossed \/ Late(c))
      /\ UNCHANGED <<saved, saver, spent, told, missed>>
  BY GetInstanceIs
<1>2. Late(c) \in BOOLEAN
  BY DEF Late
<1>3. \A i \in DOMAIN pools : i \in Nat
  BY LenProperties DEF TypeOK, PoolsOK
<1>4. CASE CachedPool(c)
  <2>1. instance.pool \in DOMAIN pools
    BY <1>4 DEF CachedPool, Cached, TypeOK, PoolsOK
  <2>2. CallersOK'
    BY <1>3, <1>4, <2>1, HasTyped, StepTyped DEF CachedPool
  <2>3. PoolsOK'
    BY <1>4 DEF CachedPool, TypeOK, PoolsOK
  <2> QED
    BY <1>1, <1>2, <1>4, <2>2, <2>3 DEF TypeOK, SaversOK, CachedPool
<1>5. CASE MadePool(c)
  <2>1. /\ pools' \in Seq(Pools) /\ DOMAIN pools' = DOMAIN pools \cup {managed'}
        /\ managed' \in Nat
    BY <1>5, MadePoolIs
  <2>2. CallersOK'
    BY <1>5, <2>1, HasTyped, StepTyped DEF MadePool
  <2>3. PoolsOK'
    BY <1>5, <2>1, Typed DEF MadePool, PoolsOK, Caller
  <2> QED
    BY <1>1, <1>2, <2>1, <2>2, <2>3 DEF TypeOK, SaversOK
<1>6. CASE KeptPool(c)
  <2>1. /\ pools' \in Seq(Pools) /\ DOMAIN pools' = DOMAIN pools
        /\ managed \in DOMAIN pools
    BY <1>6, KeptPoolIs
  <2>2. CallersOK'
    BY <1>3, <1>6, <2>1, HasTyped, StepTyped DEF KeptPool
  <2>3. PoolsOK'
    BY <1>6, <2>1, Typed DEF KeptPool, PoolsOK, Caller
  <2> QED
    BY <1>1, <1>2, <2>1, <2>2, <2>3 DEF TypeOK, SaversOK
<1> QED
  BY <1>4, <1>5, <1>6, GetInstanceIs

LEMMA EnterTyped ==
  ASSUME TypeOK, NEW c \in Callers, Enter(c)
  PROVE  TypeOK'
<1>1. caller[c] \in Caller /\ caller[c].pool \in DOMAIN pools
  BY Typed DEF Enter, At, TypeOK, CallersOK, InPool
<1>2. UNCHANGED <<registry, pools, saver, spent, told, crossed>> /\ missed' \in BOOLEAN
  BY <1>1 DEF Enter, TypeOK, Caller
<1>3. CallersOK'
  <2>1. CASE Returns(c)
    BY <1>2, <2>1, ReturnsTyped
  <2>2. CASE Step(c, [caller[c] EXCEPT !.at = "waits", !.alone = TRUE])
    <3> DEFINE new == [caller[c] EXCEPT !.at = "waits", !.alone = TRUE]
    <3>1. new \in Caller /\ new.at = "waits" /\ new.pool \in DOMAIN pools
      BY <1>1 DEF Caller, InPool
    <3> HIDE DEF new
    <3> QED
      BY <1>2, <2>2, <3>1, StepTyped DEF new
  <2> QED
    BY <2>1, <2>2 DEF Enter
<1> QED
  BY <1>2, <1>3 DEF TypeOK, PoolsOK, SaversOK, registry

(* What a caller asks is a worker. *)
LEMMA AskedTyped ==
  ASSUME TypeOK, NEW c \in Callers, caller[c].at \in InPool, NEW w \in Workers, Asked(c, w),
         DOMAIN pools' = DOMAIN pools
  PROVE  CallersOK'
<1> DEFINE new == [caller[c] EXCEPT !.at = "asked", !.worker = w]
<1>1. new \in Caller /\ new.pool \in DOMAIN pools /\ new.worker = w
  BY Typed, PoolIs DEF Caller, InPool
<1>2. Step(c, new)
  BY DEF Asked
<1> HIDE DEF new
<1> QED
  BY <1>1, <1>2, StepTyped

(* The three outcomes of a checkout: the first worker, another in its place,
   or none. *)
Rest(c) == [Pool(c) EXCEPT !.idle = Tail(@)]
LEMMA CheckoutIs ==
  ASSUME TypeOK, NEW c \in Callers, Checkout(c)
  PROVE  LET p == Pool(c)
             w == Head(p.idle)
         IN /\ At(c, "waits") /\ p.idle # <<>>
            /\ UNCHANGED <<registry, saver, histories>>
            /\ \/ w.rev = p.rev /\ Take(c, Rest(c)) /\ Asked(c, w) /\ UNCHANGED spent
               \/ Take(c, Rest(c)) /\ Asked(c, Worker(p)) /\ UNCHANGED spent
               \/ Take(c, [Rest(c) EXCEPT !.short = TRUE]) /\ Returns(c) /\ Fault
BY DEF Checkout, Rest

LEMMA RestIs ==
  ASSUME TypeOK, NEW c \in Callers, caller[c].at \in InPool, Pool(c).idle # <<>>
  PROVE  /\ Rest(c) \in Pools /\ [Rest(c) EXCEPT !.short = TRUE] \in Pools
         /\ Head(Pool(c).idle) \in Workers /\ Worker(Pool(c)) \in Workers
<1>1. Head(Pool(c).idle) \in Workers /\ Tail(Pool(c).idle) \in Seq(Workers)
  BY PoolIs, QueueEnds
<1> QED
  BY <1>1, PoolIs, WorkerTyped DEF Rest, Pools

LEMMA CheckoutTyped ==
  ASSUME TypeOK, NEW c \in Callers, Checkout(c)
  PROVE  TypeOK'
<1>1. caller[c].at \in InPool /\ Pool(c).idle # <<>>
  BY DEF Checkout, At, InPool
<1>2. ASSUME NEW new \in Pools, Take(c, new), UNCHANGED <<instance, managed>>
      PROVE  PoolsOK' /\ DOMAIN pools' = DOMAIN pools
  BY <1>1, <1>2, PoolIs, PoolSet, TakeTyped DEF Take
<1>3. UNCHANGED <<registry, saver, histories>>
  BY CheckoutIs
<1>4. PoolsOK' /\ CallersOK' /\ spent' \in [saves : Nat, faults : Nat] /\ DOMAIN pools' = DOMAIN pools
  <2>1. CASE Take(c, Rest(c)) /\ Asked(c, Head(Pool(c).idle)) /\ UNCHANGED spent
    BY <1>1, <1>2, <1>3, <2>1, RestIs, AskedTyped DEF registry, TypeOK
  <2>2. CASE Take(c, Rest(c)) /\ Asked(c, Worker(Pool(c))) /\ UNCHANGED spent
    BY <1>1, <1>2, <1>3, <2>2, RestIs, AskedTyped DEF registry, TypeOK
  <2>3. CASE Take(c, [Rest(c) EXCEPT !.short = TRUE]) /\ Returns(c) /\ Fault
    BY <1>1, <1>2, <1>3, <2>3, RestIs, ReturnsTyped, CountTyped DEF registry
  <2> QED
    BY <2>1, <2>2, <2>3, CheckoutIs
<1> QED
  BY <1>3, <1>4 DEF TypeOK, SaversOK, registry, histories

LEMMA AnsweredTyped ==
  ASSUME TypeOK, NEW c \in Callers, Answered(c)
  PROVE  TypeOK'
<1> DEFINE new == [Pool(c) EXCEPT !.idle = Append(Pool(c).idle, caller[c].worker)]
<1>1. caller[c].at \in InPool /\ caller[c].worker \in Workers
  BY DEF Answered, At, InPool, TypeOK, CallersOK
<1>2. new \in Pools
  BY <1>1, PoolIs, QueueGrows DEF Pools
<1>3. /\ pools' = [pools EXCEPT ![caller[c].pool] = new]
      /\ UNCHANGED <<registry, saver, spent, told, crossed>> /\ missed' \in BOOLEAN
      /\ Returns(c)
  BY DEF Answered, Take, TypeOK
<1> HIDE DEF new
<1>4. PoolsOK' /\ DOMAIN pools' = DOMAIN pools
  BY <1>1, <1>2, <1>3, PoolIs, PoolSet, TakeTyped DEF registry
<1>5. CallersOK'
  BY <1>3, <1>4, ReturnsTyped
<1> QED
  BY <1>3, <1>4, <1>5 DEF TypeOK, SaversOK, registry

LEMMA FailedTyped ==
  ASSUME TypeOK, NEW c \in Callers, Crashes(c) \/ Misbehaves(c)
  PROVE  TypeOK'
<1>1. caller[c].at \in InPool /\ Discarded(c) /\ Returns(c)
  BY DEF Crashes, Misbehaves, At, InPool
<1>2. /\ UNCHANGED <<registry, saver, histories>>
      /\ spent' \in [saves : Nat, faults : Nat]
  BY CountTyped DEF Crashes, Misbehaves, TypeOK
<1>3. PoolsOK' /\ DOMAIN pools' = DOMAIN pools
  BY <1>1, <1>2, DiscardedTyped DEF registry
<1>4. CallersOK'
  BY <1>1, <1>3, ReturnsTyped
<1> QED
  BY <1>2, <1>3, <1>4 DEF TypeOK, SaversOK, registry, histories

(* What the threads of a pool make of it. *)
Ended(p)      == [p EXCEPT !.relaunch = @ - 1]
Started(p)    == [Ended(p) EXCEPT !.fresh = Append(@, Worker(Ended(p)))]
NotStarted(p) == [Ended(p) EXCEPT !.short = TRUE]
Queued(p)     == [p EXCEPT !.idle = Append(@, Head(p.fresh)), !.fresh = Tail(@)]
Lost(p, k)    == [p EXCEPT !.idle[k].up = FALSE]

LEMMA EndedIs ==
  ASSUME NEW p \in Pools, p.relaunch > 0
  PROVE  /\ Ended(p) \in Pools /\ Ended(p) = [p EXCEPT !.relaunch = p.relaunch - 1]
         /\ NotStarted(p) \in Pools
         /\ NotStarted(p) = [p EXCEPT !.relaunch = p.relaunch - 1, !.short = TRUE]
         /\ Worker(p) \in Workers
         /\ Started(p) \in Pools /\ Len(Started(p).fresh) = Len(p.fresh) + 1
         /\ Started(p) = [p EXCEPT !.relaunch = p.relaunch - 1,
                                   !.fresh = Append(p.fresh, Worker(p))]
<1>1. Ended(p) \in Pools /\ Ended(p) = [p EXCEPT !.relaunch = p.relaunch - 1]
  BY DEF Ended, Pools
<1>2. /\ NotStarted(p) = [p EXCEPT !.relaunch = p.relaunch - 1, !.short = TRUE]
      /\ NotStarted(p) \in Pools
  BY <1>1 DEF NotStarted, Pools
<1>3. Worker(Ended(p)) = Worker(p) /\ Worker(p) \in Workers
  BY <1>1, WorkerTyped DEF Worker, Pools
<1>4. /\ p.fresh \in Seq(Workers) /\ Append(p.fresh, Worker(p)) \in Seq(Workers)
      /\ Len(Append(p.fresh, Worker(p))) = Len(p.fresh) + 1
  BY <1>3, QueueGrows DEF Pools
<1>5. Started(p) = [p EXCEPT !.relaunch = p.relaunch - 1, !.fresh = Append(p.fresh, Worker(p))]
  BY <1>1, <1>3 DEF Started, Pools
<1> QED
  BY <1>1, <1>2, <1>3, <1>4, <1>5 DEF Pools

LEMMA QueuedIs ==
  ASSUME NEW p \in Pools, p.fresh # <<>>
  PROVE  /\ Queued(p) \in Pools
         /\ Queued(p) = [p EXCEPT !.idle = Append(p.idle, Head(p.fresh)), !.fresh = Tail(p.fresh)]
         /\ Len(Queued(p).idle) = Len(p.idle) + 1 /\ Len(Queued(p).fresh) = Len(p.fresh) - 1
<1>1. /\ Head(p.fresh) \in Workers /\ Tail(p.fresh) \in Seq(Workers)
      /\ Len(Tail(p.fresh)) = Len(p.fresh) - 1
  BY QueueEnds DEF Pools
<1>2. /\ Append(p.idle, Head(p.fresh)) \in Seq(Workers)
      /\ Len(Append(p.idle, Head(p.fresh))) = Len(p.idle) + 1
  BY <1>1, QueueGrows DEF Pools
<1>3. Queued(p) = [p EXCEPT !.idle = Append(p.idle, Head(p.fresh)), !.fresh = Tail(p.fresh)]
  BY DEF Queued, Pools
<1> QED
  BY <1>1, <1>2, <1>3 DEF Pools

LEMMA LostIs ==
  ASSUME NEW p \in Pools, NEW k \in DOMAIN p.idle
  PROVE  LET w == [p.idle[k] EXCEPT !.up = FALSE]
         IN /\ w \in Workers /\ p.idle[k] \in Workers
            /\ Lost(p, k) = [p EXCEPT !.idle = [p.idle EXCEPT ![k] = w]]
            /\ Lost(p, k) \in Pools /\ Len(Lost(p, k).idle) = Len(p.idle)
<1> DEFINE w == [p.idle[k] EXCEPT !.up = FALSE]
<1>1. p.idle \in Seq(Workers)
  BY DEF Pools
<1>2. k \in 1..Len(p.idle) /\ p.idle[k] \in Workers
  BY <1>1, LenProperties
<1>3. w \in Workers
  BY <1>2 DEF Workers
<1>4. Lost(p, k) = [p EXCEPT !.idle = [p.idle EXCEPT ![k] = w]]
  BY DEF Lost, Pools
<1> HIDE DEF w
<1>5. [p.idle EXCEPT ![k] = w] \in Seq(Workers) /\ Len([p.idle EXCEPT ![k] = w]) = Len(p.idle)
  BY <1>1, <1>2, <1>3, ExceptSeq
<1>6. Lost(p, k) \in Pools /\ Len(Lost(p, k).idle) = Len(p.idle)
  BY <1>4, <1>5 DEF Pools
<1> QED
  BY <1>2, <1>3, <1>4, <1>6 DEF w

LEMMA PoolStepIs ==
  ASSUME TypeOK, NEW i \in DOMAIN pools, PoolSteps(i)
  PROVE  /\ UNCHANGED <<registry, caller, saver, histories>>
         /\ spent' \in [saves : Nat, faults : Nat]
         /\ \/ /\ pools[i].relaunch > 0
               /\ \/ pools[i].closed /\ pools' = [pools EXCEPT ![i] = Ended(pools[i])]
                  \/ ~pools[i].closed /\ pools' = [pools EXCEPT ![i] = Started(pools[i])]
                  \/ ~pools[i].closed /\ pools' = [pools EXCEPT ![i] = NotStarted(pools[i])]
            \/ pools[i].fresh # <<>> /\ pools' = [pools EXCEPT ![i] = Queued(pools[i])]
            \/ \E k \in DOMAIN pools[i].idle : pools' = [pools EXCEPT ![i] = Lost(pools[i], k)]
<1>1. CASE Relaunch(i)
  <2>1. Ended(pools[i]).closed = pools[i].closed
    BY PoolTyped DEF Ended, Pools
  <2> QED
    BY <1>1, <2>1 DEF Relaunch, Wanted, Ended, Started, NotStarted, TypeOK
<1>2. CASE PutFresh(i)
  <2>1. pools' = [pools EXCEPT ![i] = Queued(pools[i])]
    BY <1>2, PoolTyped DEF PutFresh, Queued, Pools, TypeOK, PoolsOK
  <2> QED
    BY <1>2, <2>1 DEF PutFresh, TypeOK
<1>3. CASE Dies(i)
  <2>1. PICK k \in DOMAIN pools[i].idle : pools' = [pools EXCEPT ![i].idle[k].up = FALSE]
    BY <1>3 DEF Dies
  <2>2. pools' = [pools EXCEPT ![i] = Lost(pools[i], k)]
    BY <2>1 DEF Lost
  <2> QED
    BY <1>3, <2>2, CountTyped DEF Dies
<1> QED
  BY <1>1, <1>2, <1>3 DEF PoolSteps

LEMMA PoolStepTyped ==
  ASSUME TypeOK, NEW i \in DOMAIN pools, PoolSteps(i)
  PROVE  TypeOK'
<1>1. pools[i] \in Pools
  BY PoolTyped
<1>2. \E new \in Pools : pools' = [pools EXCEPT ![i] = new]
  BY <1>1, PoolStepIs, EndedIs, QueuedIs, LostIs
<1>3. UNCHANGED <<registry, caller, saver, histories>> /\ spent' \in [saves : Nat, faults : Nat]
  BY PoolStepIs
<1>4. PoolsOK' /\ DOMAIN pools' = DOMAIN pools
  BY <1>2, <1>3, PoolSet, TakeTyped DEF registry
<1> QED
  BY <1>3, <1>4 DEF TypeOK, CallersOK, SaversOK, registry, histories

(***************************************************************************)
(* The settings page.                                                      *)
(***************************************************************************)
Gone(p) == [NewPool(0, 0) EXCEPT !.closed = TRUE, !.idle = <<>>, !.relaunch = p.relaunch]
LEMMA GoneIs ==
  ASSUME NEW p \in Pools
  PROVE  /\ Gone(p) \in Pools /\ Gone(p).closed /\ Gone(p).idle = <<>> /\ Gone(p).fresh = <<>>
<1>1. NewPool(0, 0) \in Pools /\ NewPool(0, 0).fresh = <<>>
  <2> DEFINE z == 0
  <2>1. z \in Nat
    OBVIOUS
  <2> HIDE DEF z
  <2>2. NewPool(z, z) \in Pools /\ NewPool(z, z).fresh = <<>>
    BY <2>1, NewPoolIs
  <2> QED
    BY <2>2 DEF z
<1>2. <<>> \in Seq(Workers)
  BY EmptySeq
<1> QED
  BY <1>1, <1>2 DEF Gone, Pools

LEMMA DoneTyped ==
  ASSUME TypeOK, NEW s \in Savers, Done(s), DOMAIN pools' = DOMAIN pools
  PROVE  SaversOK' /\ told' \in Nat
<1>1. saver[s] \in Saver
  BY Typed
<1>2. [at |-> "idle", pool |-> 0, cfg |-> 0] \in Saver
  BY DEF Saver
<1>3. SaversOK'
  BY <1>2, SaverTyped DEF Done
<1> QED
  BY <1>1, <1>3 DEF Done, TypeOK, Saver

LEMMA ClosedCallers ==
  ASSUME TypeOK, NEW s \in Savers, ClosePool(s)
  PROVE  /\ CallersOK'
         /\ \A c \in Callers :
              /\ caller'[c] = IF caller[c].at = "asked" /\ caller[c].pool = saver[s].pool
                              THEN [caller[c] EXCEPT !.worker = [caller[c].worker EXCEPT !.up = FALSE]]
                              ELSE caller[c]
              /\ caller[c].at = "asked" => caller[c].worker \in Workers
         /\ saver[s].pool \in DOMAIN pools /\ saver[s].at = "closes"
         /\ pools' = [pools EXCEPT ![saver[s].pool] = Gone(pools[saver[s].pool])]
         /\ DOMAIN pools' = DOMAIN pools
<1> DEFINE i == saver[s].pool
<1>1. i \in DOMAIN pools /\ saver[s].at = "closes"
  BY DEF ClosePool, TypeOK, SaversOK
<1>2. pools' = [pools EXCEPT ![i] = Gone(pools[i])]
  BY DEF ClosePool, Gone
<1>3. DOMAIN pools' = DOMAIN pools
  BY <1>1, <1>2, PoolTyped, GoneIs, PoolSet
<1>4. \A c \in Callers :
        caller'[c] = IF caller[c].at = "asked" /\ caller[c].pool = i
                     THEN [caller[c] EXCEPT !.worker = [caller[c].worker EXCEPT !.up = FALSE]]
                     ELSE caller[c]
  BY Typed DEF ClosePool, At, Caller
<1>5. \A c \in Callers : caller[c] \in Caller /\ (caller[c].at = "asked" => caller[c].worker \in Workers)
  BY Typed DEF TypeOK, CallersOK
<1>6. \A w \in Workers : [w EXCEPT !.up = FALSE] \in Workers
  BY DEF Workers
<1>7. \A c \in Callers : /\ caller'[c] \in Caller /\ caller'[c].at = caller[c].at
                         /\ caller'[c].pool = caller[c].pool
                         /\ caller[c].at = "asked" => caller'[c].worker \in Workers
  BY <1>4, <1>5, <1>6 DEF Caller
<1>8. CallersOK'
  BY <1>3, <1>7 DEF ClosePool, TypeOK, CallersOK
<1> QED
  BY <1>1, <1>2, <1>3, <1>4, <1>5, <1>8

LEMMA SaveTyped ==
  ASSUME TypeOK, NEW s \in Savers, Saves(s)
  PROVE  TypeOK'
<1>1. saver[s] \in Saver
  BY Typed
<1>2. CASE Save(s)
  <2>1. saved' \in Nat
    BY <1>2 DEF Save, TypeOK
  <2>2. [at |-> "saved", pool |-> 0, cfg |-> saved'] \in Saver
    BY <2>1 DEF Saver
  <2>3. SaversOK'
    BY <1>2, <2>2, SaverTyped DEF Save
  <2>4. CallersOK'
    BY <1>2, OverlapTyped DEF Save
  <2>5. spent' \in [saves : Nat, faults : Nat]
    BY <1>2 DEF Save, TypeOK
  <2> QED
    BY <1>2, <2>1, <2>3, <2>4, <2>5 DEF Save, TypeOK, PoolsOK, histories
<1>3. CASE PopInstance(s)
  <2> DEFINE new == [saver[s] EXCEPT !.at = "popped"]
  <2>1. new \in Saver /\ new.at = "popped"
    BY <1>1 DEF Saver
  <2>2. saver' = [saver EXCEPT ![s] = new]
    BY <1>3 DEF PopInstance
  <2> HIDE DEF new
  <2>3. SaversOK'
    BY <1>3, <2>1, <2>2, SaverTyped DEF PopInstance
  <2> QED
    BY <1>3, <2>3 DEF PopInstance, TypeOK, PoolsOK, CallersOK, histories
<1>4. CASE RemovePool(s)
  <2>1. SaversOK' /\ told' \in Nat
    <3>1. CASE managed = 0
      BY <1>4, <3>1, DoneTyped DEF RemovePool
    <3>2. CASE managed # 0
      <4> DEFINE new == [saver[s] EXCEPT !.at = "closes", !.pool = managed]
      <4>1. managed \in DOMAIN pools /\ managed \in Nat
        BY <3>2, LenProperties DEF TypeOK, PoolsOK
      <4>2. new \in Saver /\ new.pool = managed
        BY <1>1, <4>1 DEF Saver
      <4>3. saver' = [saver EXCEPT ![s] = new] /\ UNCHANGED told
        BY <1>4, <3>2 DEF RemovePool
      <4> HIDE DEF new
      <4> QED
        BY <1>4, <4>1, <4>2, <4>3, SaverTyped DEF RemovePool, TypeOK
    <3> QED
      BY <3>1, <3>2
  <2> QED
    BY <1>4, <2>1 DEF RemovePool, TypeOK, PoolsOK, CallersOK
<1>5. CASE ClosePool(s)
  <2>1. CallersOK' /\ DOMAIN pools' = DOMAIN pools
    BY <1>5, ClosedCallers
  <2>2. PoolsOK'
    BY <1>5, ClosedCallers, PoolTyped, GoneIs, TakeTyped DEF ClosePool, registry
  <2>3. SaversOK' /\ told' \in Nat
    BY <1>5, <2>1, DoneTyped DEF ClosePool
  <2> QED
    BY <1>5, <2>1, <2>2, <2>3 DEF ClosePool, TypeOK, registry
<1> QED
  BY <1>2, <1>3, <1>4, <1>5 DEF Saves

LEMMA TypeNext == TypeOK /\ [Next]_vars => TypeOK'
<1> SUFFICES ASSUME TypeOK, [Next]_vars PROVE TypeOK'
  OBVIOUS
<1>1. CASE \E c \in Callers : Calls(c)
  BY <1>1, LookupTyped, GetInstanceTyped, EnterTyped, CheckoutTyped, AnsweredTyped, FailedTyped
     DEF Calls
<1>2. CASE \E s \in Savers : Saves(s)
  BY <1>2, SaveTyped
<1>3. CASE \E i \in DOMAIN pools : PoolSteps(i)
  BY <1>3, PoolStepTyped
<1>4. CASE UNCHANGED vars
  BY <1>4 DEF TypeOK, PoolsOK, CallersOK, SaversOK, vars
<1> QED
  BY <1>1, <1>2, <1>3, <1>4 DEF Next

(* Every variable has its type, however calls, saves and failures interleave. *)
THEOREM PoolTypeCorrect == Spec => []TypeOK
BY TypeInit, TypeNext, PTL DEF Spec

(***************************************************************************)
(* The size of a pool: what it holds, what is busy and what is to be       *)
(* started again add up.                                                   *)
(***************************************************************************)
Load == [i \in Nat |-> Cardinality(BusyIn(i))]
Total(p, busy) == Len(p.idle) + Len(p.fresh) + busy + p.relaunch
Bounded(p, busy) ==
  p.closed \/ (Total(p, busy) <= Size /\ (Total(p, busy) = Size \/ p.short))

LEMMA Positions ==
  ASSUME TypeOK
  PROVE  /\ \A i \in DOMAIN pools : i \in Nat
         /\ \A c \in Callers : caller[c].pool \in Nat
BY Typed, LenProperties DEF TypeOK, PoolsOK, Caller

LEMMA BusyFinite ==
  ASSUME NEW i
  PROVE  IsFiniteSet(BusyIn(i)) /\ Cardinality(BusyIn(i)) \in Nat
<1>1. BusyIn(i) \in SUBSET Callers
  BY DEF BusyIn
<1> QED
  BY <1>1, CallersAssumption, FS_Subset, FS_CardinalityType

LEMMA LoadTyped == Load \in [Nat -> Nat]
BY BusyFinite DEF Load

LEMMA BoundIs ==
  ASSUME TypeOK
  PROVE  WorkersBound <=> \A i \in DOMAIN pools : Bounded(pools[i], Load[i])
BY Positions DEF WorkersBound, Bounded, Total, Load

LEMMA TotalTyped ==
  ASSUME NEW p \in Pools, NEW n \in Nat
  PROVE  /\ Total(p, n) \in Nat
         /\ Len(p.idle) \in Nat /\ Len(p.fresh) \in Nat /\ p.relaunch \in Nat
<1>1. p.idle \in Seq(Workers) /\ p.fresh \in Seq(Workers) /\ p.relaunch \in Nat
  BY DEF Pools
<1>2. Len(p.idle) \in Nat /\ Len(p.fresh) \in Nat
  BY <1>1, LenProperties
<1> DEFINE a == Len(p.idle)
           b == Len(p.fresh)
           r == p.relaunch
<1>3. a \in Nat /\ b \in Nat /\ r \in Nat /\ Total(p, n) = a + b + n + r
  BY <1>1, <1>2 DEF Total
<1> HIDE DEF a, b, r
<1>4. Total(p, n) \in Nat
  BY <1>3
<1> QED
  BY <1>1, <1>2, <1>4

(* The bound holds still when the sum is what it was, or when it is less and
   the pool is known to be short. *)
LEMMA BoundMoves ==
  ASSUME NEW p \in Pools, NEW q \in Pools, NEW n \in Nat, NEW m \in Nat, Bounded(p, n),
         q.closed = p.closed,
         \/ Total(q, m) = Total(p, n) /\ q.short = p.short
         \/ Total(q, m) <= Total(p, n) /\ q.short = TRUE
  PROVE  Bounded(q, m)
<1> DEFINE tp == Total(p, n)
           tq == Total(q, m)
<1>1. tp \in Nat /\ tq \in Nat /\ Size \in Nat
  BY TotalTyped, SizeAssumption
<1>2. p.closed \/ (tp <= Size /\ (tp = Size \/ p.short))
  BY DEF Bounded
<1>3. (tq = tp /\ q.short = p.short) \/ (tq <= tp /\ q.short = TRUE)
  OBVIOUS
<1> HIDE DEF tp, tq
<1>4. q.closed \/ (tq <= Size /\ (tq = Size \/ q.short))
  <2>1. CASE p.closed
    BY <2>1
  <2>2. CASE ~p.closed /\ tq = tp /\ q.short = p.short
    BY <1>2, <2>2
  <2>3. CASE ~p.closed /\ tq <= tp /\ q.short = TRUE
    <3>1. tq <= Size
      BY <1>1, <1>2, <2>3
    <3> QED
      BY <2>3, <3>1
  <2> QED
    BY <1>3, <2>1, <2>2, <2>3
<1> QED
  BY <1>4 DEF tq, Bounded

(* A caller goes on, takes a worker, or gives it up. *)
LEMMA LoadKept ==
  ASSUME TypeOK, NEW c \in Callers, NEW new, Step(c, new),
         caller[c].at # "asked", new.at # "asked"
  PROVE  Load' = Load
<1>1. caller' = [d \in Callers |-> IF d = c THEN new ELSE caller[d]]
  BY CallerSet
<1>2. \A i : {d \in Callers : caller'[d].at = "asked" /\ caller'[d].pool = i} = BusyIn(i)
  BY <1>1 DEF BusyIn, At
<1> QED
  BY <1>2 DEF Load, BusyIn, At

LEMMA LoadSame ==
  ASSUME \A c \in Callers : caller'[c].at = caller[c].at /\ caller'[c].pool = caller[c].pool
  PROVE  Load' = Load
<1>1. \A i : {d \in Callers : caller'[d].at = "asked" /\ caller'[d].pool = i} = BusyIn(i)
  BY DEF BusyIn, At
<1> QED
  BY <1>1 DEF Load, BusyIn, At

LEMMA LoadJoins ==
  ASSUME TypeOK, NEW c \in Callers, NEW w, Asked(c, w), caller[c].at # "asked",
         NEW j \in Nat, j = caller[c].pool
  PROVE  Load' = [Load EXCEPT ![j] = Load[j] + 1]
<1> DEFINE new == [caller[c] EXCEPT !.at = "asked", !.worker = w]
           Next1(i) == {d \in Callers : caller'[d].at = "asked" /\ caller'[d].pool = i}
<1>1. new.at = "asked" /\ new.pool = j
  BY Typed DEF Caller
<1>2. caller' = [d \in Callers |-> IF d = c THEN new ELSE caller[d]]
  BY CallerSet DEF Asked
<1> HIDE DEF new
<1>3. \A i : i # j => Next1(i) = BusyIn(i)
  BY <1>1, <1>2 DEF BusyIn, At
<1>4. Next1(j) = BusyIn(j) \cup {c}
  BY <1>1, <1>2 DEF BusyIn, At
<1>5. c \notin BusyIn(j) /\ IsFiniteSet(BusyIn(j))
  BY BusyFinite DEF BusyIn, At
<1>6. Cardinality(Next1(j)) = Cardinality(BusyIn(j)) + 1
  BY <1>4, <1>5, FS_AddElement
<1>7. Load' = [i \in Nat |-> Cardinality(Next1(i))]
  BY DEF Load, BusyIn, At
<1> HIDE DEF Next1
<1> QED
  BY <1>3, <1>6, <1>7 DEF Load

LEMMA LoadLeaves ==
  ASSUME TypeOK, NEW c \in Callers, Returns(c), caller[c].at = "asked",
         NEW j \in Nat, j = caller[c].pool
  PROVE  Load' = [Load EXCEPT ![j] = Load[j] - 1]
<1> DEFINE Next1(i) == {d \in Callers : caller'[d].at = "asked" /\ caller'[d].pool = i}
<1>1. caller' = [d \in Callers |-> IF d = c THEN Resting ELSE caller[d]] /\ Resting.at = "idle"
  BY CallerSet, RestingTyped DEF Returns
<1>2. \A i : i # j => Next1(i) = BusyIn(i)
  BY <1>1 DEF BusyIn, At
<1>3. Next1(j) = BusyIn(j) \ {c}
  BY <1>1 DEF BusyIn, At
<1>4. c \in BusyIn(j) /\ IsFiniteSet(BusyIn(j))
  BY BusyFinite DEF BusyIn, At
<1>5. Cardinality(Next1(j)) = Cardinality(BusyIn(j)) - 1
  BY <1>3, <1>4, FS_RemoveElement
<1>6. Load' = [i \in Nat |-> Cardinality(Next1(i))]
  BY DEF Load, BusyIn, At
<1> HIDE DEF Next1
<1> QED
  BY <1>2, <1>5, <1>6 DEF Load

LEMMA BoundKept ==
  ASSUME TypeOK, WorkersBound, UNCHANGED pools, Load' = Load
  PROVE  WorkersBound'
<1>1. \A i \in DOMAIN pools : Bounded(pools[i], Load[i])
  BY BoundIs
<1>2. DOMAIN pools' = DOMAIN pools /\ \A i \in DOMAIN pools : i \in Nat
  BY Positions
<1>3. \A i \in DOMAIN pools' : Bounded(pools'[i], Load'[i])
  BY <1>1, <1>2
<1> QED
  BY <1>2, <1>3 DEF WorkersBound, Bounded, Total, Load

LEMMA BoundStep ==
  ASSUME TypeOK, WorkersBound, NEW i \in DOMAIN pools, NEW new \in Pools, NEW n \in Nat,
         pools' = [pools EXCEPT ![i] = new], Load' = [Load EXCEPT ![i] = n],
         new.closed = pools[i].closed \/ new.closed = TRUE,
         \/ new.closed = TRUE
         \/ Total(new, n) = Total(pools[i], Load[i]) /\ new.short = pools[i].short
         \/ Total(new, n) <= Total(pools[i], Load[i]) /\ new.short = TRUE
  PROVE  WorkersBound'
<1>1. /\ DOMAIN pools' = DOMAIN pools
      /\ \A j \in DOMAIN pools : pools'[j] = IF j = i THEN new ELSE pools[j]
  BY PoolSet
<1>2. \A j \in DOMAIN pools : /\ j \in Nat /\ pools[j] \in Pools /\ Load[j] \in Nat
                              /\ Bounded(pools[j], Load[j])
  BY BoundIs, Positions, PoolTyped, LoadTyped
<1>3. \A j \in DOMAIN pools : Load'[j] = IF j = i THEN n ELSE Load[j]
  BY <1>2, LoadTyped
<1>4. Bounded(new, n)
  <2>1. CASE new.closed = TRUE
    BY <2>1 DEF Bounded
  <2>2. CASE new.closed # TRUE
    BY <1>2, <2>2, BoundMoves
  <2> QED
    BY <2>1, <2>2
<1>5. \A j \in DOMAIN pools' : Bounded(pools'[j], Load'[j])
  BY <1>1, <1>2, <1>3, <1>4
<1> QED
  BY <1>1, <1>2, <1>5 DEF WorkersBound, Bounded, Total, Load

LEMMA LoadUpdated ==
  ASSUME NEW i \in Nat, Load' = Load
  PROVE  Load' = [Load EXCEPT ![i] = Load[i]] /\ Load[i] \in Nat
BY LoadTyped

LEMMA BoundGetInstance ==
  ASSUME TypeOK, WorkersBound, NEW c \in Callers, GetInstance(c)
  PROVE  WorkersBound'
<1>1. caller[c].at # "asked"
  BY DEF GetInstance, At
<1>2. ASSUME NEW i \in Nat, Step(c, Has(c, i)) PROVE Load' = Load
  BY <1>1, <1>2, HasTyped, LoadKept
<1>3. CASE CachedPool(c)
  <2>1. instance.pool \in Nat
    BY <1>3, Positions DEF CachedPool, Cached, TypeOK, PoolsOK
  <2> QED
    BY <1>2, <1>3, <2>1, BoundKept DEF CachedPool
<1>4. CASE MadePool(c)
  <2> DEFINE p == NewPool(caller[c].cfg, caller[c].rev)
             m == managed'
  <2>1. /\ m \in Nat /\ m \notin DOMAIN pools /\ DOMAIN pools' = DOMAIN pools \cup {m}
        /\ \A i \in DOMAIN pools : pools'[i] = pools[i]
        /\ pools'[m] = p
    BY <1>4, MadePoolIs
  <2>2. Len(p.idle) = Size /\ p.fresh = <<>> /\ p.relaunch = 0
    BY Typed, NewPoolIs DEF Caller
  <2>3. BusyIn(m) = {}
    BY <2>1 DEF BusyIn, At, TypeOK, CallersOK, InPool
  <2>4. Load[m] = 0
    BY <2>1, <2>3, FS_EmptySet DEF Load
  <2>5. Load' = Load
    BY <1>2, <1>4, <2>1 DEF MadePool
  <2> HIDE DEF p, m
  <2>6. Total(p, 0) = Size /\ Size \in Nat
    <3>1. Len(p.fresh) = 0
      BY <2>2, EmptySeq
    <3>2. Total(p, 0) = Size + 0 + 0 + 0
      BY <2>2, <3>1 DEF Total
    <3> QED
      BY <3>2, SizeAssumption
  <2>7. Bounded(p, 0)
    BY <2>6 DEF Bounded
  <2>8. \A i \in DOMAIN pools : Bounded(pools[i], Load[i])
    BY BoundIs
  <2>9. \A i \in DOMAIN pools' : Bounded(pools'[i], Load'[i]) /\ i \in Nat
    BY <2>1, <2>4, <2>5, <2>7, <2>8, Positions
  <2> QED
    BY <2>9 DEF WorkersBound, Bounded, Total, Load
<1>5. CASE KeptPool(c)
  <2> DEFINE new == Reconfigured(pools[managed], caller[c].cfg, caller[c].rev)
  <2>1. /\ managed \in DOMAIN pools /\ new \in Pools
        /\ new = [pools[managed] EXCEPT !.cfg = caller[c].cfg, !.rev = caller[c].rev]
        /\ pools' = [pools EXCEPT ![managed] = new]
    BY <1>5, KeptPoolIs DEF KeptPool
  <2>2. managed \in Nat
    BY <2>1, Positions
  <2>3. Load' = [Load EXCEPT ![managed] = Load[managed]] /\ Load[managed] \in Nat
    BY <1>2, <1>5, <2>2, LoadUpdated DEF KeptPool
  <2> HIDE DEF new
  <2>4. /\ new.closed = pools[managed].closed /\ new.short = pools[managed].short
        /\ new.idle = pools[managed].idle /\ new.fresh = pools[managed].fresh
        /\ new.relaunch = pools[managed].relaunch
    BY <2>1, PoolTyped DEF Pools
  <2>5. Total(new, Load[managed]) = Total(pools[managed], Load[managed])
    BY <2>4 DEF Total
  <2> QED
    BY <2>1, <2>3, <2>4, <2>5, BoundStep
<1> QED
  BY <1>3, <1>4, <1>5, GetInstanceIs

(* The sums: a worker leaves the queue, joins it, or is to be started again. *)
LEMMA Sums ==
  ASSUME NEW p \in Pools, NEW q \in Pools, NEW n \in Nat, NEW m \in Nat
  PROVE  /\ Len(q.idle) = Len(p.idle) - 1 /\ q.fresh = p.fresh /\ q.relaunch = p.relaunch
              => /\ m = n + 1 => Total(q, m) = Total(p, n)
                 /\ m = n => Total(q, m) <= Total(p, n)
         /\ Len(q.idle) = Len(p.idle) + 1 /\ q.fresh = p.fresh /\ q.relaunch = p.relaunch
              => (m = n - 1 => Total(q, m) = Total(p, n))
         /\ q.idle = p.idle /\ q.fresh = p.fresh /\ q.relaunch = p.relaunch + 1
              => (m = n - 1 => Total(q, m) = Total(p, n))
         /\ q.idle = p.idle /\ q.relaunch = p.relaunch - 1 /\ m = n
              => /\ q.fresh = p.fresh => Total(q, m) <= Total(p, n)
                 /\ Len(q.fresh) = Len(p.fresh) + 1 => Total(q, m) = Total(p, n)
         /\ Len(q.idle) = Len(p.idle) + 1 /\ Len(q.fresh) = Len(p.fresh) - 1
              => (q.relaunch = p.relaunch /\ m = n => Total(q, m) = Total(p, n))
         /\ Len(q.idle) = Len(p.idle) /\ q.fresh = p.fresh
              => (q.relaunch = p.relaunch /\ m = n => Total(q, m) = Total(p, n))
<1> DEFINE pi == Len(p.idle)
           pf == Len(p.fresh)
           pr == p.relaunch
           qi == Len(q.idle)
           qf == Len(q.fresh)
           qr == q.relaunch
<1>1. /\ pi \in Nat /\ pf \in Nat /\ pr \in Nat /\ qi \in Nat /\ qf \in Nat /\ qr \in Nat
  BY TotalTyped
<1>2. Total(p, n) = pi + pf + n + pr /\ Total(q, m) = qi + qf + m + qr
  BY DEF Total
<1>3. /\ q.fresh = p.fresh => qf = pf
      /\ q.idle = p.idle => qi = pi
  OBVIOUS
<1> HIDE DEF pi, pf, pr, qi, qf, qr
<1>4. /\ qi = pi - 1 /\ qf = pf /\ qr = pr
           => /\ m = n + 1 => Total(q, m) = Total(p, n)
              /\ m = n => Total(q, m) <= Total(p, n)
      /\ qi = pi + 1 /\ qf = pf /\ qr = pr
           => (m = n - 1 => Total(q, m) = Total(p, n))
      /\ qi = pi /\ qf = pf /\ qr = pr + 1
           => (m = n - 1 => Total(q, m) = Total(p, n))
      /\ qi = pi /\ qr = pr - 1 /\ m = n
           => /\ qf = pf => Total(q, m) <= Total(p, n)
              /\ qf = pf + 1 => Total(q, m) = Total(p, n)
      /\ qi = pi + 1 /\ qf = pf - 1
           => (qr = pr /\ m = n => Total(q, m) = Total(p, n))
      /\ qi = pi /\ qf = pf
           => (qr = pr /\ m = n => Total(q, m) = Total(p, n))
  BY <1>1, <1>2
<1> QED
  BY <1>3, <1>4 DEF pi, pf, pr, qi, qf, qr

LEMMA BoundCheckout ==
  ASSUME TypeOK, WorkersBound, NEW c \in Callers, Checkout(c)
  PROVE  WorkersBound'
<1> DEFINE j == caller[c].pool
<1>1. /\ caller[c].at \in InPool /\ caller[c].at # "asked" /\ Pool(c).idle # <<>>
      /\ j \in DOMAIN pools /\ Pool(c) = pools[j] /\ j \in Nat /\ pools[j] \in Pools
  BY PoolIs, Positions DEF Checkout, InPool, At
<1>2. Rest(c) \in Pools /\ [Rest(c) EXCEPT !.short = TRUE] \in Pools
  BY <1>1, RestIs
<1>3. /\ Rest(c).closed = pools[j].closed /\ Rest(c).short = pools[j].short
      /\ Rest(c).fresh = pools[j].fresh /\ Rest(c).relaunch = pools[j].relaunch
      /\ Len(Rest(c).idle) = Len(pools[j].idle) - 1
  BY <1>1, PoolIs, QueueEnds DEF Rest, Pools
<1>4. /\ Load[j] \in Nat /\ Len(pools[j].idle) \in Nat /\ Len(pools[j].fresh) \in Nat
      /\ pools[j].relaunch \in Nat
  BY <1>1, LoadTyped, TotalTyped
<1>5. CASE \E w : Take(c, Rest(c)) /\ Asked(c, w)
  <2>1. Load' = [Load EXCEPT ![j] = Load[j] + 1] /\ Load[j] + 1 \in Nat
    BY <1>1, <1>4, <1>5, LoadJoins
  <2>2. Total(Rest(c), Load[j] + 1) = Total(pools[j], Load[j])
    BY <1>1, <1>2, <1>3, <1>4, <2>1, Sums
  <2>3. pools' = [pools EXCEPT ![j] = Rest(c)]
    BY <1>5 DEF Take
  <2> QED
    BY <1>1, <1>2, <1>3, <2>1, <2>2, <2>3, BoundStep
<1>6. CASE Take(c, [Rest(c) EXCEPT !.short = TRUE]) /\ Returns(c)
  <2> DEFINE new == [Rest(c) EXCEPT !.short = TRUE]
  <2>1. Load' = [Load EXCEPT ![j] = Load[j]]
    BY <1>1, <1>6, RestingTyped, LoadKept, LoadUpdated DEF Returns
  <2>2. /\ new.short = TRUE /\ new.closed = pools[j].closed /\ new.fresh = pools[j].fresh
        /\ new.relaunch = pools[j].relaunch /\ Len(new.idle) = Len(pools[j].idle) - 1
    BY <1>2, <1>3 DEF Pools
  <2>3. pools' = [pools EXCEPT ![j] = new] /\ new \in Pools
    BY <1>2, <1>6 DEF Take
  <2> HIDE DEF new
  <2>4. Total(new, Load[j]) <= Total(pools[j], Load[j])
    BY <1>1, <1>4, <2>2, <2>3, Sums
  <2> QED
    BY <1>1, <1>4, <2>1, <2>2, <2>3, <2>4, BoundStep
<1> QED
  BY <1>5, <1>6, CheckoutIs

LEMMA BoundReturns ==
  ASSUME TypeOK, WorkersBound, NEW c \in Callers, Answered(c) \/ Crashes(c) \/ Misbehaves(c)
  PROVE  WorkersBound'
<1> DEFINE j == caller[c].pool
           n == Load[j] - 1
<1>1. caller[c].at \in InPool /\ caller[c].at = "asked" /\ Returns(c)
  BY DEF Answered, Crashes, Misbehaves, InPool, At
<1>2. /\ j \in DOMAIN pools /\ Pool(c) = pools[j] /\ j \in Nat /\ pools[j] \in Pools
      /\ Load[j] \in Nat
  BY <1>1, PoolIs, Positions, LoadTyped
<1>3. Load' = [Load EXCEPT ![j] = n]
  BY <1>1, <1>2, LoadLeaves
<1>4. n \in Nat
  <2>1. c \in BusyIn(j) /\ IsFiniteSet(BusyIn(j)) /\ Cardinality(BusyIn(j)) \in Nat
    BY <1>1, BusyFinite DEF BusyIn, At
  <2>2. Load[j] = Cardinality(BusyIn(j))
    BY <1>2 DEF Load
  <2>3. Cardinality(BusyIn(j)) # 0
    BY <2>1, FS_EmptySet
  <2> QED
    BY <2>1, <2>2, <2>3
<1>5. CASE Answered(c)
  <2> DEFINE new == [Pool(c) EXCEPT !.idle = Append(Pool(c).idle, caller[c].worker)]
  <2>1. caller[c].worker \in Workers /\ pools' = [pools EXCEPT ![j] = new]
    BY <1>1, <1>5 DEF Answered, Take, TypeOK, CallersOK
  <2>2. /\ new \in Pools /\ new.closed = pools[j].closed /\ new.short = pools[j].short
        /\ new.fresh = pools[j].fresh /\ new.relaunch = pools[j].relaunch
        /\ Len(new.idle) = Len(pools[j].idle) + 1
    BY <1>1, <1>2, <2>1, PoolIs, QueueGrows DEF Pools
  <2> HIDE DEF new
  <2>3. Total(new, n) = Total(pools[j], Load[j])
    BY <1>2, <1>4, <2>2, Sums
  <2> QED
    BY <1>2, <1>3, <1>4, <2>1, <2>2, <2>3, BoundStep
<1>6. CASE Crashes(c) \/ Misbehaves(c)
  <2> DEFINE new == [Pool(c) EXCEPT !.relaunch = Pool(c).relaunch + 1]
  <2>1. pools' = [pools EXCEPT ![j] = new]
    BY <1>1, <1>2, <1>6, PoolTyped DEF Crashes, Misbehaves, Discarded, Take, Pools
  <2>2. /\ new \in Pools /\ new.closed = pools[j].closed /\ new.short = pools[j].short
        /\ new.fresh = pools[j].fresh /\ new.relaunch = pools[j].relaunch + 1
        /\ new.idle = pools[j].idle
    BY <1>2, PoolTyped DEF Pools
  <2> HIDE DEF new
  <2>3. Total(new, n) = Total(pools[j], Load[j])
    BY <1>2, <1>4, <2>2, Sums
  <2> QED
    BY <1>2, <1>3, <1>4, <2>1, <2>2, <2>3, BoundStep
<1> QED
  BY <1>5, <1>6

LEMMA BoundSaves ==
  ASSUME TypeOK, WorkersBound, NEW s \in Savers, Saves(s)
  PROVE  WorkersBound'
<1>1. CASE ClosePool(s)
  <2> DEFINE j == saver[s].pool
  <2>1. /\ j \in DOMAIN pools /\ pools' = [pools EXCEPT ![j] = Gone(pools[j])]
        /\ Gone(pools[j]) \in Pools /\ Gone(pools[j]).closed
    BY <1>1, ClosedCallers, PoolTyped, GoneIs
  <2>2. \A c \in Callers : caller'[c].at = caller[c].at /\ caller'[c].pool = caller[c].pool
    BY <1>1, ClosedCallers, Typed DEF Caller
  <2>3. Load' = [Load EXCEPT ![j] = Load[j]] /\ Load[j] \in Nat
    BY <2>1, <2>2, Positions, LoadSame, LoadUpdated
  <2>4. Gone(pools[j]).closed = TRUE
    BY <2>1 DEF Pools
  <2> QED
    BY <2>1, <2>3, <2>4, BoundStep
<1>2. CASE Save(s)
  <2>1. \A c \in Callers : caller'[c].at = caller[c].at /\ caller'[c].pool = caller[c].pool
    BY <1>2, Typed DEF Save, Overlap, Caller
  <2> QED
    BY <1>2, <2>1, LoadSame, BoundKept DEF Save
<1>3. CASE PopInstance(s) \/ RemovePool(s)
  <2>1. UNCHANGED <<caller, pools>>
    BY <1>3 DEF PopInstance, RemovePool
  <2> QED
    BY <2>1, LoadSame, BoundKept
<1> QED
  BY <1>1, <1>2, <1>3 DEF Saves

LEMMA BoundPoolSteps ==
  ASSUME TypeOK, WorkersBound, NEW i \in DOMAIN pools, PoolSteps(i)
  PROVE  WorkersBound'
<1> DEFINE p == pools[i]
           n == Load[i]
<1>1. i \in Nat /\ p \in Pools /\ n \in Nat
  BY Positions, PoolTyped, LoadTyped
<1>2. Load' = [Load EXCEPT ![i] = n]
  BY <1>1, PoolStepIs, LoadSame, LoadUpdated
<1>3. ASSUME NEW new \in Pools, pools' = [pools EXCEPT ![i] = new],
             new.closed = p.closed \/ new.closed = TRUE,
             \/ new.closed = TRUE
             \/ Total(new, n) = Total(p, n) /\ new.short = p.short
             \/ Total(new, n) <= Total(p, n) /\ new.short = TRUE
      PROVE  WorkersBound'
  BY <1>1, <1>2, <1>3, BoundStep
<1>4. \/ /\ p.relaunch > 0
         /\ \/ p.closed /\ pools' = [pools EXCEPT ![i] = Ended(p)]
            \/ pools' = [pools EXCEPT ![i] = Started(p)]
            \/ pools' = [pools EXCEPT ![i] = NotStarted(p)]
      \/ p.fresh # <<>> /\ pools' = [pools EXCEPT ![i] = Queued(p)]
      \/ \E k \in DOMAIN p.idle : pools' = [pools EXCEPT ![i] = Lost(p, k)]
  BY PoolStepIs
<1> HIDE DEF n, p
<1>5. CASE p.relaunch > 0 /\ p.closed /\ pools' = [pools EXCEPT ![i] = Ended(p)]
  <2>1. Ended(p) \in Pools /\ Ended(p) = [p EXCEPT !.relaunch = p.relaunch - 1]
    BY <1>1, <1>5, EndedIs
  <2>2. Ended(p).closed = TRUE
    BY <1>1, <1>5, <2>1 DEF Pools
  <2> QED
    BY <1>3, <1>5, <2>1, <2>2
<1>6. CASE p.relaunch > 0 /\ pools' = [pools EXCEPT ![i] = Started(p)]
  <2>1. /\ Started(p) \in Pools /\ Len(Started(p).fresh) = Len(p.fresh) + 1
        /\ Started(p) = [p EXCEPT !.relaunch = p.relaunch - 1, !.fresh = Append(p.fresh, Worker(p))]
    BY <1>1, <1>6, EndedIs
  <2>2. /\ Started(p).closed = p.closed /\ Started(p).short = p.short
        /\ Started(p).relaunch = p.relaunch - 1 /\ Started(p).idle = p.idle
    BY <1>1, <2>1 DEF Pools
  <2>3. Total(Started(p), n) = Total(p, n)
    BY <1>1, <2>1, <2>2, Sums
  <2> QED
    BY <1>3, <1>6, <2>1, <2>2, <2>3
<1>7. CASE p.relaunch > 0 /\ pools' = [pools EXCEPT ![i] = NotStarted(p)]
  <2>1. /\ NotStarted(p) \in Pools
        /\ NotStarted(p) = [p EXCEPT !.relaunch = p.relaunch - 1, !.short = TRUE]
    BY <1>1, <1>7, EndedIs
  <2>2. /\ NotStarted(p).closed = p.closed /\ NotStarted(p).short = TRUE
        /\ NotStarted(p).relaunch = p.relaunch - 1 /\ NotStarted(p).idle = p.idle
        /\ NotStarted(p).fresh = p.fresh
    BY <1>1, <2>1 DEF Pools
  <2>3. Total(NotStarted(p), n) <= Total(p, n)
    BY <1>1, <2>1, <2>2, Sums
  <2> QED
    BY <1>3, <1>7, <2>1, <2>2, <2>3
<1>8. CASE p.fresh # <<>> /\ pools' = [pools EXCEPT ![i] = Queued(p)]
  <2>1. /\ Queued(p) \in Pools
        /\ Queued(p) = [p EXCEPT !.idle = Append(p.idle, Head(p.fresh)), !.fresh = Tail(p.fresh)]
        /\ Len(Queued(p).idle) = Len(p.idle) + 1 /\ Len(Queued(p).fresh) = Len(p.fresh) - 1
    BY <1>1, <1>8, QueuedIs
  <2>2. /\ Queued(p).closed = p.closed /\ Queued(p).short = p.short
        /\ Queued(p).relaunch = p.relaunch
    BY <1>1, <2>1 DEF Pools
  <2>3. Total(Queued(p), n) = Total(p, n)
    BY <1>1, <2>1, <2>2, Sums
  <2> QED
    BY <1>3, <1>8, <2>1, <2>2, <2>3
<1>9. CASE \E k \in DOMAIN p.idle : pools' = [pools EXCEPT ![i] = Lost(p, k)]
  <2>1. PICK k \in DOMAIN p.idle : pools' = [pools EXCEPT ![i] = Lost(p, k)]
    BY <1>9
  <2>2. /\ Lost(p, k) \in Pools /\ Len(Lost(p, k).idle) = Len(p.idle)
        /\ \E q : Lost(p, k) = [p EXCEPT !.idle = q]
        /\ Lost(p, k).closed = p.closed /\ Lost(p, k).short = p.short
        /\ Lost(p, k).relaunch = p.relaunch /\ Lost(p, k).fresh = p.fresh
    <3>1. /\ Lost(p, k) \in Pools /\ Len(Lost(p, k).idle) = Len(p.idle)
          /\ \E q : Lost(p, k) = [p EXCEPT !.idle = q]
      BY <1>1, LostIs
    <3> QED
      BY <1>1, <3>1 DEF Pools
  <2>3. Total(Lost(p, k), n) = Total(p, n)
    BY <1>1, <2>2, Sums
  <2> QED
    BY <1>3, <2>1, <2>2, <2>3
<1> QED
  BY <1>4, <1>5, <1>6, <1>7, <1>8, <1>9

LEMMA BoundNext == TypeOK /\ WorkersBound /\ [Next]_vars => WorkersBound'
<1> SUFFICES ASSUME TypeOK, WorkersBound, [Next]_vars PROVE WorkersBound'
  OBVIOUS
<1>1. ASSUME NEW c \in Callers, ReadRecord(c) \/ ReadRevision(c) \/ Enter(c)
      PROVE  WorkersBound'
  <2>1. caller[c].at # "asked" /\ UNCHANGED pools
    BY <1>1 DEF ReadRecord, ReadRevision, Enter, At
  <2>2. ASSUME NEW new, Step(c, new), new.at # "asked" PROVE WorkersBound'
    BY <2>1, <2>2, LoadKept, BoundKept
  <2>3. CASE ReadRecord(c)
    BY <2>2, <2>3, RestingTyped DEF ReadRecord, Caller
  <2>4. CASE ReadRevision(c)
    BY <2>2, <2>4, Typed DEF ReadRevision, Caller
  <2>5. CASE Enter(c)
    BY <2>2, <2>5, Typed, RestingTyped DEF Enter, Returns, Caller
  <2> QED
    BY <1>1, <2>3, <2>4, <2>5
<1>2. CASE UNCHANGED vars
  BY <1>2, LoadSame, BoundKept DEF vars
<1> QED
  BY <1>1, <1>2, BoundGetInstance, BoundCheckout, BoundReturns, BoundSaves, BoundPoolSteps
     DEF Next, Calls

(* A pool never has more processes than its size, and as many unless one could not be started,
   whatever dies, hangs, is replaced or reconfigured in between. *)
THEOREM PoolNeverOverspawns == Spec => []WorkersBound
<1>1. Init => WorkersBound
  BY DEF Init, WorkersBound
<1> QED
  BY <1>1, BoundNext, PoolTypeCorrect, PTL DEF Spec

(***************************************************************************)
(* Closed pools.  Nothing is queued, and who is still in one holds a       *)
(* worker that was killed.                                                 *)
(***************************************************************************)
Emptied(p) == p.closed => p.idle = <<>> /\ p.fresh = <<>>
ClosedInv ==
  /\ \A i \in DOMAIN pools : Emptied(pools[i])
  /\ \A c \in Callers :
       caller[c].at = "asked" /\ pools[caller[c].pool].closed => ~caller[c].worker.up

LEMMA ClosedStep ==
  ASSUME TypeOK, ClosedInv, NEW c \in Callers, NEW new, Step(c, new),
         NEW i \in DOMAIN pools, NEW p \in Pools, pools' = [pools EXCEPT ![i] = p],
         p.closed = pools[i].closed, Emptied(p),
         new.at = "asked" => new.pool \in DOMAIN pools /\ ~pools[new.pool].closed
  PROVE  ClosedInv'
<1>1. /\ DOMAIN pools' = DOMAIN pools
      /\ \A j \in DOMAIN pools : pools'[j] = IF j = i THEN p ELSE pools[j]
  BY PoolSet
<1>2. \A d \in Callers : caller'[d] = IF d = c THEN new ELSE caller[d]
  BY CallerSet
<1>3. \A j \in DOMAIN pools : pools'[j].closed = pools[j].closed
  BY <1>1
<1>4. \A d \in Callers : caller[d].at = "asked" => caller[d].pool \in DOMAIN pools
  BY DEF TypeOK, CallersOK, InPool
<1>5. \A j \in DOMAIN pools' : Emptied(pools'[j])
  BY <1>1 DEF ClosedInv
<1>6. ASSUME NEW d \in Callers, caller'[d].at = "asked", pools'[caller'[d].pool].closed
      PROVE  ~caller'[d].worker.up
  <2>1. CASE d = c
    BY <1>2, <1>3, <1>6, <2>1
  <2>2. CASE d # c
    BY <1>2, <1>3, <1>4, <1>6, <2>2 DEF ClosedInv
  <2> QED
    BY <2>1, <2>2
<1> QED
  BY <1>5, <1>6 DEF ClosedInv, Emptied

LEMMA ClosedMoves ==
  ASSUME TypeOK, ClosedInv, NEW c \in Callers, NEW new, Step(c, new), new.at # "asked",
         UNCHANGED pools
  PROVE  ClosedInv'
<1>1. \A d \in Callers : caller'[d] = IF d = c THEN new ELSE caller[d]
  BY CallerSet
<1> QED
  BY <1>1 DEF ClosedInv, Emptied

LEMMA ClosedGetInstance ==
  ASSUME TypeOK, ClosedInv, NEW c \in Callers, GetInstance(c)
  PROVE  ClosedInv'
<1>1. \A i \in DOMAIN pools : i \in Nat
  BY Positions
<1>2. CASE CachedPool(c)
  <2>1. instance.pool \in Nat
    BY <1>1, <1>2 DEF CachedPool, Cached, TypeOK, PoolsOK
  <2>2. Has(c, instance.pool).at # "asked"
    BY <2>1, HasTyped
  <2> QED
    BY <1>2, <2>2, ClosedMoves DEF CachedPool
<1>3. CASE MadePool(c)
  <2> DEFINE p == NewPool(caller[c].cfg, caller[c].rev)
             m == managed'
  <2>1. /\ m \in Nat /\ DOMAIN pools' = DOMAIN pools \cup {m}
        /\ \A i \in DOMAIN pools : pools'[i] = pools[i]
        /\ pools'[m] = p
    BY <1>3, MadePoolIs
  <2>2. ~p.closed
    BY Typed, NewPoolIs DEF Caller
  <2>3. Has(c, m).at # "asked"
    BY <2>1, HasTyped
  <2>4. \A d \in Callers : caller'[d] = IF d = c THEN Has(c, m) ELSE caller[d]
    BY <1>3, CallerSet DEF MadePool
  <2>5. \A d \in Callers : caller[d].at = "asked" => caller[d].pool \in DOMAIN pools
    BY DEF TypeOK, CallersOK, InPool
  <2> HIDE DEF p, m
  <2> QED
    BY <2>1, <2>2, <2>3, <2>4, <2>5 DEF ClosedInv, Emptied
<1>4. CASE KeptPool(c)
  <2> DEFINE new == Reconfigured(pools[managed], caller[c].cfg, caller[c].rev)
  <2>1. /\ managed \in DOMAIN pools /\ new \in Pools
        /\ new = [pools[managed] EXCEPT !.cfg = caller[c].cfg, !.rev = caller[c].rev]
        /\ pools' = [pools EXCEPT ![managed] = new]
    BY <1>4, KeptPoolIs DEF KeptPool
  <2> HIDE DEF new
  <2>2. /\ new.closed = pools[managed].closed /\ new.idle = pools[managed].idle
        /\ new.fresh = pools[managed].fresh
    BY <2>1, PoolTyped DEF Pools
  <2>3. Emptied(new)
    BY <2>1, <2>2 DEF ClosedInv, Emptied
  <2>4. Has(c, managed).at # "asked"
    BY <1>1, <2>1, HasTyped
  <2> QED
    BY <1>4, <2>1, <2>2, <2>3, <2>4, ClosedStep DEF KeptPool
<1> QED
  BY <1>2, <1>3, <1>4, GetInstanceIs

LEMMA ClosedCheckout ==
  ASSUME TypeOK, ClosedInv, NEW c \in Callers, Checkout(c)
  PROVE  ClosedInv' /\ ~Pool(c).closed
<1> DEFINE j == caller[c].pool
<1>1. /\ caller[c].at \in InPool /\ Pool(c).idle # <<>>
      /\ j \in DOMAIN pools /\ Pool(c) = pools[j] /\ pools[j] \in Pools
  BY PoolIs DEF Checkout, InPool, At
<1>2. ~pools[j].closed
  BY <1>1 DEF ClosedInv, Emptied
<1>3. /\ Rest(c) \in Pools /\ [Rest(c) EXCEPT !.short = TRUE] \in Pools
      /\ Head(Pool(c).idle) \in Workers /\ Worker(Pool(c)) \in Workers
  BY <1>1, RestIs
<1>4. Rest(c).closed = pools[j].closed /\ [Rest(c) EXCEPT !.short = TRUE].closed = pools[j].closed
  BY <1>1, <1>3 DEF Rest, Pools
<1>5. Emptied(Rest(c)) /\ Emptied([Rest(c) EXCEPT !.short = TRUE])
  BY <1>2, <1>4 DEF Emptied
<1>6. ASSUME NEW w \in Workers, Take(c, Rest(c)), Asked(c, w)
      PROVE  ClosedInv'
  <2> DEFINE new == [caller[c] EXCEPT !.at = "asked", !.worker = w]
  <2>1. new.pool = j /\ Step(c, new) /\ pools' = [pools EXCEPT ![j] = Rest(c)]
    BY <1>6, Typed DEF Caller, Asked, Take
  <2> HIDE DEF new
  <2> QED
    BY <1>1, <1>2, <1>3, <1>4, <1>5, <2>1, ClosedStep
<1>7. ASSUME Take(c, [Rest(c) EXCEPT !.short = TRUE]), Returns(c) PROVE ClosedInv'
  <2> DEFINE p == [Rest(c) EXCEPT !.short = TRUE]
  <2>1. p \in Pools /\ p.closed = pools[j].closed /\ Emptied(p) /\ pools' = [pools EXCEPT ![j] = p]
    BY <1>3, <1>4, <1>5, <1>7 DEF Take
  <2>2. Step(c, Resting) /\ Resting.at = "idle"
    BY <1>7, RestingTyped DEF Returns
  <2> HIDE DEF p
  <2> QED
    BY <1>1, <2>1, <2>2, ClosedStep
<1> QED
  BY <1>1, <1>2, <1>3, <1>6, <1>7, CheckoutIs

LEMMA ClosedReturns ==
  ASSUME TypeOK, ClosedInv, NEW c \in Callers, Answered(c) \/ Crashes(c) \/ Misbehaves(c)
  PROVE  ClosedInv'
<1> DEFINE j == caller[c].pool
<1>1. caller[c].at \in InPool /\ caller[c].at = "asked" /\ Step(c, Resting) /\ Resting.at = "idle"
  BY RestingTyped DEF Answered, Crashes, Misbehaves, InPool, At, Returns
<1>2. j \in DOMAIN pools /\ Pool(c) = pools[j] /\ pools[j] \in Pools
  BY <1>1, PoolIs
<1>3. CASE Answered(c)
  <2> DEFINE new == [Pool(c) EXCEPT !.idle = Append(Pool(c).idle, caller[c].worker)]
  <2>1. caller[c].worker \in Workers /\ pools' = [pools EXCEPT ![j] = new] /\ ~pools[j].closed
    BY <1>1, <1>3 DEF Answered, Take, TypeOK, CallersOK, ClosedInv
  <2>2. new \in Pools /\ new.closed = pools[j].closed
    BY <1>1, <1>2, <2>1, PoolIs, QueueGrows DEF Pools
  <2> HIDE DEF new
  <2>3. Emptied(new)
    BY <2>1, <2>2 DEF Emptied
  <2> QED
    BY <1>1, <1>2, <2>1, <2>2, <2>3, ClosedStep
<1>4. CASE Crashes(c) \/ Misbehaves(c)
  <2> DEFINE new == [Pool(c) EXCEPT !.relaunch = Pool(c).relaunch + 1]
  <2>1. pools' = [pools EXCEPT ![j] = new]
    BY <1>1, <1>2, <1>4, PoolTyped DEF Crashes, Misbehaves, Discarded, Take, Pools
  <2>2. /\ new \in Pools /\ new.closed = pools[j].closed /\ new.fresh = pools[j].fresh
        /\ new.idle = pools[j].idle
    BY <1>2 DEF Pools
  <2> HIDE DEF new
  <2>3. Emptied(new)
    BY <1>2, <2>2 DEF Emptied, ClosedInv
  <2> QED
    BY <1>1, <1>2, <2>1, <2>2, <2>3, ClosedStep
<1> QED
  BY <1>3, <1>4

LEMMA ClosedPoolSteps ==
  ASSUME TypeOK, ClosedInv, NEW i \in DOMAIN pools, PoolSteps(i)
  PROVE  ClosedInv'
<1> DEFINE p == pools[i]
<1>1. p \in Pools /\ Emptied(p)
  BY PoolTyped DEF ClosedInv
<1>2. ASSUME NEW new \in Pools, pools' = [pools EXCEPT ![i] = new],
             new.closed = p.closed, Emptied(new)
      PROVE  ClosedInv'
  <2>1. /\ DOMAIN pools' = DOMAIN pools
        /\ \A j \in DOMAIN pools : pools'[j] = IF j = i THEN new ELSE pools[j]
    BY <1>2, PoolSet
  <2>2. \A d \in Callers : caller[d].at = "asked" => caller[d].pool \in DOMAIN pools
    BY DEF TypeOK, CallersOK, InPool
  <2>3. caller' = caller /\ \A j \in DOMAIN pools : pools'[j].closed = pools[j].closed
    BY <1>2, <2>1, PoolStepIs
  <2> QED
    BY <1>2, <2>1, <2>2, <2>3 DEF ClosedInv, Emptied
<1>3. \/ /\ p.relaunch > 0
         /\ \/ p.closed /\ pools' = [pools EXCEPT ![i] = Ended(p)]
            \/ ~p.closed /\ pools' = [pools EXCEPT ![i] = Started(p)]
            \/ ~p.closed /\ pools' = [pools EXCEPT ![i] = NotStarted(p)]
      \/ p.fresh # <<>> /\ pools' = [pools EXCEPT ![i] = Queued(p)]
      \/ \E k \in DOMAIN p.idle : pools' = [pools EXCEPT ![i] = Lost(p, k)]
  BY PoolStepIs
<1> HIDE DEF p
<1>4. CASE p.relaunch > 0 /\ pools' = [pools EXCEPT ![i] = Ended(p)]
  <2>1. /\ Ended(p) \in Pools /\ Ended(p) = [p EXCEPT !.relaunch = p.relaunch - 1]
    BY <1>1, <1>4, EndedIs
  <2>2. Ended(p).closed = p.closed /\ Emptied(Ended(p))
    BY <1>1, <2>1 DEF Pools, Emptied
  <2> QED
    BY <1>2, <1>4, <2>1, <2>2
<1>5. CASE p.relaunch > 0 /\ ~p.closed /\ pools' = [pools EXCEPT ![i] = Started(p)]
  <2>1. /\ Started(p) \in Pools
        /\ Started(p) = [p EXCEPT !.relaunch = p.relaunch - 1, !.fresh = Append(p.fresh, Worker(p))]
    BY <1>1, <1>5, EndedIs
  <2>2. Started(p).closed = p.closed
    BY <1>1, <2>1 DEF Pools
  <2> QED
    BY <1>2, <1>5, <2>1, <2>2 DEF Emptied
<1>6. CASE p.relaunch > 0 /\ ~p.closed /\ pools' = [pools EXCEPT ![i] = NotStarted(p)]
  <2>1. /\ NotStarted(p) \in Pools
        /\ NotStarted(p) = [p EXCEPT !.relaunch = p.relaunch - 1, !.short = TRUE]
    BY <1>1, <1>6, EndedIs
  <2>2. NotStarted(p).closed = p.closed
    BY <1>1, <2>1 DEF Pools
  <2> QED
    BY <1>2, <1>6, <2>1, <2>2 DEF Emptied
<1>7. CASE p.fresh # <<>> /\ pools' = [pools EXCEPT ![i] = Queued(p)]
  <2>1. /\ Queued(p) \in Pools
        /\ Queued(p) = [p EXCEPT !.idle = Append(p.idle, Head(p.fresh)), !.fresh = Tail(p.fresh)]
    BY <1>1, <1>7, QueuedIs
  <2>2. Queued(p).closed = p.closed /\ ~p.closed
    BY <1>1, <1>7, <2>1 DEF Pools, Emptied
  <2> QED
    BY <1>2, <1>7, <2>1, <2>2 DEF Emptied
<1>8. CASE \E k \in DOMAIN p.idle : pools' = [pools EXCEPT ![i] = Lost(p, k)]
  <2>1. PICK k \in DOMAIN p.idle : pools' = [pools EXCEPT ![i] = Lost(p, k)]
    BY <1>8
  <2>2. Lost(p, k) \in Pools /\ \E q : Lost(p, k) = [p EXCEPT !.idle = q]
    BY <1>1, LostIs
  <2>3. Lost(p, k).closed = p.closed
    BY <1>1, <2>2 DEF Pools
  <2>4. ~p.closed
    BY <1>1, <2>1, EmptySeq DEF Emptied
  <2> QED
    BY <1>2, <2>1, <2>2, <2>3, <2>4 DEF Emptied
<1> QED
  BY <1>3, <1>4, <1>5, <1>6, <1>7, <1>8

LEMMA ClosedSaves ==
  ASSUME TypeOK, ClosedInv, NEW s \in Savers, Saves(s)
  PROVE  ClosedInv'
<1>1. CASE ClosePool(s)
  <2> DEFINE i == saver[s].pool
  <2>1. /\ \A c \in Callers :
             /\ caller'[c] = IF caller[c].at = "asked" /\ caller[c].pool = i
                             THEN [caller[c] EXCEPT !.worker = [caller[c].worker EXCEPT !.up = FALSE]]
                             ELSE caller[c]
             /\ caller[c].at = "asked" => caller[c].worker \in Workers
        /\ i \in DOMAIN pools /\ pools' = [pools EXCEPT ![i] = Gone(pools[i])]
    BY <1>1, ClosedCallers
  <2>2. /\ DOMAIN pools' = DOMAIN pools
        /\ \A j \in DOMAIN pools : pools'[j] = IF j = i THEN Gone(pools[i]) ELSE pools[j]
    BY <2>1, PoolTyped, GoneIs, PoolSet
  <2>3. \A j \in DOMAIN pools' : Emptied(pools'[j])
    BY <2>1, <2>2, PoolTyped, GoneIs DEF ClosedInv, Emptied
  <2>4. ASSUME NEW c \in Callers, caller'[c].at = "asked", pools'[caller'[c].pool].closed
        PROVE  ~caller'[c].worker.up
    <3>1. caller[c] \in Caller
      BY Typed
    <3>2. caller'[c].at = caller[c].at /\ caller'[c].pool = caller[c].pool
      BY <2>1, <3>1 DEF Caller
    <3>3. caller[c].pool \in DOMAIN pools
      BY <2>4, <3>2 DEF TypeOK, CallersOK, InPool
    <3>4. CASE caller[c].pool = i
      <4>1. caller'[c].worker = [caller[c].worker EXCEPT !.up = FALSE]
        BY <2>1, <2>4, <3>1, <3>2, <3>4 DEF Caller
      <4> QED
        BY <2>1, <2>4, <3>2, <4>1 DEF Workers
    <3>5. CASE caller[c].pool # i
      BY <2>1, <2>2, <2>4, <3>2, <3>3, <3>5 DEF ClosedInv
    <3> QED
      BY <3>4, <3>5
  <2> QED
    BY <2>3, <2>4 DEF ClosedInv, Emptied
<1>2. CASE Save(s)
  <2>1. \A c \in Callers : /\ caller'[c].at = caller[c].at /\ caller'[c].pool = caller[c].pool
                           /\ caller'[c].worker = caller[c].worker
    BY <1>2, Typed DEF Save, Overlap, Caller
  <2> QED
    BY <1>2, <2>1 DEF Save, ClosedInv, Emptied
<1>3. CASE PopInstance(s) \/ RemovePool(s)
  BY <1>3 DEF PopInstance, RemovePool, ClosedInv, Emptied
<1> QED
  BY <1>1, <1>2, <1>3 DEF Saves

LEMMA ClosedNext == TypeOK /\ ClosedInv /\ [Next]_vars => ClosedInv'
<1> SUFFICES ASSUME TypeOK, ClosedInv, [Next]_vars PROVE ClosedInv'
  OBVIOUS
<1>1. ASSUME NEW c \in Callers, ReadRecord(c) \/ ReadRevision(c) \/ Enter(c)
      PROVE  ClosedInv'
  <2>1. UNCHANGED pools
    BY <1>1 DEF ReadRecord, ReadRevision, Enter
  <2>2. ASSUME NEW new, Step(c, new), new.at # "asked" PROVE ClosedInv'
    BY <2>1, <2>2, ClosedMoves
  <2>3. CASE ReadRecord(c)
    BY <2>2, <2>3, RestingTyped DEF ReadRecord, Caller
  <2>4. CASE ReadRevision(c)
    BY <2>2, <2>4, Typed DEF ReadRevision, Caller
  <2>5. CASE Enter(c)
    BY <2>2, <2>5, Typed, RestingTyped DEF Enter, Returns, Caller
  <2> QED
    BY <1>1, <2>3, <2>4, <2>5
<1>2. CASE UNCHANGED vars
  BY <1>2 DEF vars, ClosedInv, Emptied
<1> QED
  BY <1>1, <1>2, ClosedGetInstance, ClosedCheckout, ClosedReturns, ClosedSaves, ClosedPoolSteps
     DEF Next, Calls

LEMMA ClosedAlways == Spec => []ClosedInv
<1>1. Init => ClosedInv
  BY RestingTyped DEF Init, ClosedInv, Emptied
<1> QED
  BY <1>1, ClosedNext, PoolTypeCorrect, PTL DEF Spec

(* No process of a closed pool is left running, whenever it was closed: not a busy one, and not one
   that was being started. *)
THEOREM ClosedPoolsAreDead == Spec => []ClosedIsDead
<1>1. ClosedInv => ClosedIsDead
  BY EmptySeq DEF ClosedInv, Emptied, ClosedIsDead, BusyIn, At
<1> QED
  BY <1>1, ClosedAlways, PTL

(***************************************************************************)
(* Calls and saves.  Revisions only grow, and what a call has read is no   *)
(* newer than what is saved; a call that is still alone has no save beside *)
(* it.                                                                     *)
(***************************************************************************)
InOrder ==
  /\ told <= saved /\ \A s \in Savers : saver[s].cfg <= saved
  /\ \A c \in Callers :
       /\ caller[c].least <= told
       /\ caller[c].at = "record" => caller[c].cfg <= saved
       /\ caller[c].at = "revision" => caller[c].cfg <= caller[c].rev /\ caller[c].rev <= saved
AloneIsQuiet ==
  \A c \in Callers :
    caller[c].at \in Looking \cup {"has"} /\ caller[c].alone => Quiet

(* Unless a lookup crossed a save: the pool of the manager is open, and no saver
   is about to close it; an open pool and its workers are of one configuration;
   the instance is the manager's pool and of its revision, none is left where a
   saver has dropped it; and a call is in a pool, and asks a worker, of a
   configuration no older than it must be. *)
Even == {w \in Workers : w.cfg = w.rev}
EvenPool(p) == p.cfg = p.rev /\ p.idle \in Seq(Even) /\ p.fresh \in Seq(Even)
Fits(r, ps) ==
  /\ r.at = "has" /\ r.alone => ~ps[r.pool].closed
  /\ r.at \in {"has", "waits"} => ps[r.pool].closed \/ ps[r.pool].cfg >= r.least
  /\ r.at = "asked" => r.worker \in Even
  /\ r.at = "asked" /\ r.worker.up => r.worker.cfg >= r.least
Matched ==
  /\ ~missed
  /\ managed # 0 => /\ ~pools[managed].closed
                    /\ \A s \in Savers : saver[s].at = "closes" => saver[s].pool # managed
  /\ \A i \in DOMAIN pools : ~pools[i].closed => EvenPool(pools[i])
  /\ instance # None => /\ managed # 0 /\ instance.pool = managed
                        /\ instance.rev = pools[managed].rev
  /\ \A s \in Savers : saver[s].at = "popped" => instance = None
  /\ \A c \in Callers : Fits(caller[c], pools)
FollowInv == InOrder /\ AloneIsQuiet /\ (crossed \/ Matched)

(* What a step of a call makes of the caller. *)
LEMMA CallIs ==
  ASSUME TypeOK, NEW c \in Callers, Calls(c)
  PROVE  /\ UNCHANGED <<saved, saver, told>>
         /\ \E new \in Caller :
              /\ Step(c, new)
              /\ \/ new = Resting
                 \/ new.at = "record" /\ new.cfg = saved /\ new.least = told /\ new.alone = Quiet
                 \/ /\ new.at = "revision" /\ new.rev = saved /\ caller[c].at = "record"
                    /\ new.cfg = caller[c].cfg /\ new.least = caller[c].least
                    /\ new.alone = caller[c].alone
                 \/ /\ new.at = "has" /\ caller[c].at = "revision"
                    /\ new.least = caller[c].least /\ new.alone = caller[c].alone
                 \/ new.at \in {"waits", "asked"} /\ new.least = caller[c].least
<1>1. caller[c] \in Caller
  BY Typed
<1>2. CASE ReadRecord(c)
  <2> DEFINE new == [Resting EXCEPT !.at = "record", !.cfg = saved, !.least = told,
                                    !.alone = Quiet]
  <2>1. Quiet \in BOOLEAN
    BY DEF Quiet
  <2>2. /\ new \in Caller /\ new.at = "record" /\ new.cfg = saved /\ new.least = told
        /\ new.alone = Quiet
    BY <2>1, RestingTyped DEF TypeOK, Caller, Looking
  <2>3. Step(c, new) /\ UNCHANGED <<saved, saver, told>>
    BY <1>2 DEF ReadRecord, registry, histories
  <2> HIDE DEF new
  <2> QED
    BY <2>2, <2>3
<1>3. CASE ReadRevision(c)
  <2> DEFINE new == [caller[c] EXCEPT !.at = "revision", !.rev = saved]
  <2>1. /\ new \in Caller /\ new.at = "revision" /\ new.rev = saved
        /\ new.cfg = caller[c].cfg /\ new.least = caller[c].least /\ new.alone = caller[c].alone
    BY <1>1 DEF TypeOK, Caller, Looking
  <2>2. Step(c, new) /\ caller[c].at = "record" /\ UNCHANGED <<saved, saver, told>>
    BY <1>3 DEF ReadRevision, At, registry, histories
  <2> HIDE DEF new
  <2> QED
    BY <2>1, <2>2
<1>4. CASE GetInstance(c)
  <2>1. \E i \in Nat : Step(c, Has(c, i))
    <3>1. CASE CachedPool(c)
      BY <3>1, Positions DEF CachedPool, Cached, TypeOK, PoolsOK
    <3>2. CASE MadePool(c)
      BY <3>2, MadePoolIs DEF MadePool
    <3>3. CASE KeptPool(c)
      BY <3>3, KeptPoolIs, Positions DEF KeptPool
    <3> QED
      BY <1>4, <3>1, <3>2, <3>3, GetInstanceIs
  <2>2. caller[c].at = "revision" /\ UNCHANGED <<saved, saver, told>>
    BY <1>4 DEF GetInstance, At
  <2>3. PICK i \in Nat : Step(c, Has(c, i))
    BY <2>1
  <2>4. /\ Has(c, i) \in Caller /\ Has(c, i).at = "has"
        /\ Has(c, i).least = caller[c].least /\ Has(c, i).alone = caller[c].alone
    BY HasTyped
  <2> QED
    BY <2>2, <2>3, <2>4
<1>5. ASSUME Returns(c), UNCHANGED <<saved, saver, told>>
      PROVE  /\ UNCHANGED <<saved, saver, told>>
             /\ \E new \in Caller : Step(c, new) /\ new = Resting
  BY <1>5, RestingTyped DEF Returns
<1>6. CASE Enter(c)
  <2>1. UNCHANGED <<saved, saver, told>>
    BY <1>6 DEF Enter, registry
  <2>2. CASE Returns(c)
    BY <1>5, <2>1, <2>2
  <2>3. CASE Step(c, [caller[c] EXCEPT !.at = "waits", !.alone = TRUE])
    <3> DEFINE new == [caller[c] EXCEPT !.at = "waits", !.alone = TRUE]
    <3>1. new \in Caller /\ new.at = "waits" /\ new.least = caller[c].least
      BY <1>1 DEF Caller, InPool
    <3>2. Step(c, new)
      BY <2>3
    <3> HIDE DEF new
    <3> QED
      BY <2>1, <3>1, <3>2
  <2> QED
    BY <1>6, <2>2, <2>3 DEF Enter
<1>7. CASE Checkout(c)
  <2>1. caller[c].at \in InPool /\ Pool(c).idle # <<>> /\ UNCHANGED <<saved, saver, told>>
    BY <1>7 DEF Checkout, At, InPool, registry, histories
  <2>2. CASE Returns(c)
    BY <1>5, <2>1, <2>2
  <2>3. ASSUME NEW w \in Workers, Asked(c, w)
        PROVE  \E new \in Caller : Step(c, new) /\ new.at = "asked" /\ new.least = caller[c].least
    <3> DEFINE new == [caller[c] EXCEPT !.at = "asked", !.worker = w]
    <3>1. new \in Caller /\ new.at = "asked" /\ new.least = caller[c].least
      BY <1>1 DEF Caller, InPool
    <3>2. Step(c, new)
      BY <2>3 DEF Asked
    <3> HIDE DEF new
    <3> QED
      BY <3>1, <3>2
  <2>4. Returns(c) \/ \E w \in Workers : Asked(c, w)
    BY <1>7, <2>1, CheckoutIs, RestIs
  <2> QED
    BY <2>1, <2>2, <2>3, <2>4
<1>8. CASE Answered(c) \/ Crashes(c) \/ Misbehaves(c)
  <2>1. Returns(c) /\ UNCHANGED <<saved, saver, told>>
    BY <1>8 DEF Answered, Crashes, Misbehaves, registry, histories
  <2> QED
    BY <1>5, <2>1
<1> QED
  BY <1>2, <1>3, <1>4, <1>6, <1>7, <1>8 DEF Calls

(* A save, what becomes of the callers meanwhile, and of the saver. *)
LEMMA SaveCallers ==
  ASSUME TypeOK, NEW s \in Savers, Saves(s), NEW c \in Callers
  PROVE  /\ caller'[c].at = caller[c].at /\ caller'[c].cfg = caller[c].cfg
         /\ caller'[c].rev = caller[c].rev /\ caller'[c].least = caller[c].least
         /\ caller'[c].pool = caller[c].pool
         /\ caller'[c].alone = caller[c].alone \/ caller'[c].alone = FALSE
         /\ Save(s) /\ caller[c].at \in Looking \cup {"has"} => caller'[c].alone = FALSE
         /\ ~ClosePool(s) => caller'[c].worker = caller[c].worker
<1>1. caller[c] \in Caller
  BY Typed
<1>2. CASE Save(s)
  BY <1>1, <1>2 DEF Save, Overlap, Caller, Looking
<1>3. CASE PopInstance(s) \/ RemovePool(s)
  <2>1. UNCHANGED caller /\ ~Save(s)
    BY <1>3 DEF PopInstance, RemovePool, Save
  <2> QED
    BY <2>1
<1>4. CASE ClosePool(s)
  <2>1. ~Save(s)
    BY <1>4 DEF ClosePool, Save
  <2> QED
    BY <1>1, <1>4, <2>1, ClosedCallers DEF Caller
<1> QED
  BY <1>2, <1>3, <1>4 DEF Saves

SaverTo(s, new) ==
  /\ saver' = [saver EXCEPT ![s] = new]
  /\ \/ new.cfg = saved' /\ UNCHANGED told
     \/ new.cfg = saver[s].cfg /\ UNCHANGED told
     \/ new.cfg = 0 /\ told' = IF saver[s].cfg > told THEN saver[s].cfg ELSE told

LEMMA SavedGrows ==
  ASSUME TypeOK, NEW s \in Savers, Saves(s)
  PROVE  saved' \in Nat /\ saved' >= saved
<1>1. saved \in Nat
  BY DEF TypeOK
<1>2. CASE Save(s)
  BY <1>1, <1>2 DEF Save
<1>3. CASE ~Save(s)
  <2>1. UNCHANGED saved
    BY <1>3 DEF Saves, PopInstance, RemovePool, ClosePool, registry
  <2> QED
    BY <1>1, <2>1
<1> QED
  BY <1>2, <1>3

LEMMA BusySaver ==
  ASSUME NEW s \in Savers, Saves(s), ~Save(s)
  PROVE  saver[s].at # "idle"
BY DEF Saves, PopInstance, RemovePool, ClosePool

LEMMA SaverIs ==
  ASSUME TypeOK, NEW s \in Savers, Saves(s)
  PROVE  \E new : SaverTo(s, new)
<1>1. saver[s] \in Saver
  BY Typed
<1>2. CASE Save(s)
  <2> DEFINE new == [at |-> "saved", pool |-> 0, cfg |-> saved']
  <2>1. SaverTo(s, new)
    BY <1>2 DEF Save, SaverTo, histories
  <2> QED
    BY <2>1
<1>3. CASE PopInstance(s)
  <2> DEFINE new == [saver[s] EXCEPT !.at = "popped"]
  <2>1. SaverTo(s, new)
    BY <1>1, <1>3 DEF PopInstance, SaverTo, Saver, histories
  <2> QED
    BY <2>1
<1>4. ASSUME Done(s) PROVE \E new : SaverTo(s, new)
  <2> DEFINE new == [at |-> "idle", pool |-> 0, cfg |-> 0]
  <2>1. SaverTo(s, new)
    BY <1>4 DEF Done, SaverTo
  <2> QED
    BY <2>1
<1>5. CASE RemovePool(s)
  <2>1. CASE managed = 0
    BY <1>4, <1>5, <2>1 DEF RemovePool
  <2>2. CASE managed # 0
    <3> DEFINE new == [saver[s] EXCEPT !.at = "closes", !.pool = managed]
    <3>1. saver' = [saver EXCEPT ![s] = new] /\ UNCHANGED told
      BY <1>5, <2>2 DEF RemovePool
    <3>2. new.cfg = saver[s].cfg
      BY <1>1 DEF Saver
    <3> HIDE DEF new
    <3>3. SaverTo(s, new)
      BY <3>1, <3>2 DEF SaverTo
    <3> QED
      BY <3>3
  <2> QED
    BY <2>1, <2>2
<1>6. CASE ClosePool(s)
  BY <1>4, <1>6 DEF ClosePool
<1> QED
  BY <1>2, <1>3, <1>5, <1>6 DEF Saves

LEMMA OrderNext == TypeOK /\ InOrder /\ [Next]_vars => InOrder'
<1> SUFFICES ASSUME TypeOK, InOrder, [Next]_vars PROVE InOrder'
  OBVIOUS
<1>1. saved \in Nat /\ told \in Nat /\ told <= saved
  BY DEF TypeOK, InOrder
<1>2. \A c \in Callers : /\ caller[c] \in Caller /\ caller[c].least \in Nat /\ caller[c].least <= told
                         /\ caller[c].cfg \in Nat /\ caller[c].rev \in Nat
  BY Typed DEF InOrder, Caller
<1>3. \A s \in Savers : saver[s] \in Saver /\ saver[s].cfg \in Nat /\ saver[s].cfg <= saved
  BY Typed DEF InOrder, Saver
<1>4. ASSUME NEW c \in Callers, Calls(c) PROVE InOrder'
  <2>1. PICK new \in Caller :
          /\ Step(c, new)
          /\ \/ new = Resting
             \/ new.at = "record" /\ new.cfg = saved /\ new.least = told
             \/ /\ new.at = "revision" /\ new.rev = saved /\ caller[c].at = "record"
                /\ new.cfg = caller[c].cfg /\ new.least = caller[c].least
             \/ new.at \in {"has", "waits", "asked"} /\ new.least = caller[c].least
    BY <1>4, CallIs
  <2>2. UNCHANGED <<saved, saver, told>>
    BY <1>4, CallIs
  <2>3. caller' = [d \in Callers |-> IF d = c THEN new ELSE caller[d]]
    BY <2>1, CallerSet
  <2>4. Resting.least = 0 /\ Resting.at = "idle"
    BY DEF Resting
  <2>5. /\ new.least <= told
        /\ new.at = "record" => new.cfg <= saved
        /\ new.at = "revision" => new.cfg <= new.rev /\ new.rev <= saved
    BY <1>1, <1>2, <2>1, <2>4 DEF InOrder
  <2> QED
    BY <2>2, <2>3, <2>5 DEF InOrder
<1>5. ASSUME NEW s \in Savers, Saves(s) PROVE InOrder'
  <2>1. saved' \in Nat /\ saved' >= saved
    BY <1>5, SavedGrows
  <2>2. PICK new : /\ saver' = [saver EXCEPT ![s] = new]
                   /\ \/ new.cfg = saved' /\ UNCHANGED told
                      \/ new.cfg = saver[s].cfg /\ UNCHANGED told
                      \/ new.cfg = 0 /\ told' = IF saver[s].cfg > told THEN saver[s].cfg ELSE told
    BY <1>5, SaverIs DEF SaverTo
  <2>3. told' \in Nat /\ told' >= told /\ told' <= saved' /\ new.cfg <= saved'
    BY <1>1, <1>3, <2>1, <2>2
  <2>4. \A r \in Savers : saver'[r].cfg <= saved'
    <3>1. \A r \in Savers : saver'[r] = IF r = s THEN new ELSE saver[r]
      BY <2>2 DEF TypeOK, SaversOK
    <3>2. \A r \in Savers \ {s} : saver'[r].cfg \in Nat /\ saver'[r].cfg <= saved
      BY <1>3, <3>1
    <3> QED
      BY <1>1, <2>1, <2>3, <3>1, <3>2
  <2>5. \A c \in Callers :
          /\ caller'[c].at = caller[c].at /\ caller'[c].cfg = caller[c].cfg
          /\ caller'[c].rev = caller[c].rev /\ caller'[c].least = caller[c].least
    BY <1>5, SaveCallers
  <2>6. \A c \in Callers :
          /\ caller'[c].least <= told'
          /\ caller'[c].at = "record" => caller'[c].cfg <= saved'
          /\ caller'[c].at = "revision" => caller'[c].cfg <= caller'[c].rev /\ caller'[c].rev <= saved'
    BY <1>1, <1>2, <2>1, <2>3, <2>5 DEF InOrder
  <2> QED
    BY <2>3, <2>4, <2>6 DEF InOrder
<1>6. ASSUME NEW i \in DOMAIN pools, PoolSteps(i) PROVE InOrder'
  BY <1>6, PoolStepIs DEF InOrder, registry, histories
<1>7. CASE UNCHANGED vars
  BY <1>7 DEF InOrder, vars
<1> QED
  BY <1>4, <1>5, <1>6, <1>7 DEF Next

LEMMA AloneNext == TypeOK /\ AloneIsQuiet /\ [Next]_vars => AloneIsQuiet'
<1> SUFFICES ASSUME TypeOK, AloneIsQuiet, [Next]_vars PROVE AloneIsQuiet'
  OBVIOUS
<1>1. ASSUME NEW c \in Callers, Calls(c) PROVE AloneIsQuiet'
  <2>1. PICK new \in Caller :
          /\ Step(c, new)
          /\ \/ new = Resting
             \/ new.at = "record" /\ new.alone = Quiet
             \/ new.at = "revision" /\ caller[c].at = "record" /\ new.alone = caller[c].alone
             \/ new.at = "has" /\ caller[c].at = "revision" /\ new.alone = caller[c].alone
             \/ new.at \in {"waits", "asked"}
    BY <1>1, CallIs
  <2>2. UNCHANGED saver
    BY <1>1, CallIs
  <2>3. caller' = [d \in Callers |-> IF d = c THEN new ELSE caller[d]]
    BY <2>1, CallerSet
  <2>4. Resting.at = "idle"
    BY RestingTyped
  <2>5. new.at \in Looking \cup {"has"} /\ new.alone => Quiet
    BY <2>1, <2>4 DEF AloneIsQuiet, Looking
  <2> QED
    BY <2>2, <2>3, <2>5 DEF AloneIsQuiet, Quiet
<1>2. ASSUME NEW s \in Savers, Saves(s) PROVE AloneIsQuiet'
  <2>1. CASE Save(s)
    BY <1>2, <2>1, SaveCallers DEF AloneIsQuiet
  <2>2. CASE ~Save(s)
    <3>1. ~Quiet
      BY <1>2, <2>2, BusySaver DEF Quiet
    <3> QED
      BY <1>2, <2>2, <3>1, SaveCallers DEF AloneIsQuiet
  <2> QED
    BY <2>1, <2>2
<1>3. ASSUME NEW i \in DOMAIN pools, PoolSteps(i) PROVE AloneIsQuiet'
  BY <1>3, PoolStepIs DEF AloneIsQuiet, Quiet
<1>4. CASE UNCHANGED vars
  BY <1>4 DEF AloneIsQuiet, Quiet, vars
<1> QED
  BY <1>1, <1>2, <1>3, <1>4 DEF Next

(***************************************************************************)
(* Pools of one configuration.                                             *)
(***************************************************************************)
LEMMA EvenIs ==
  /\ \A w \in Even : w \in Workers /\ w.cfg = w.rev
  /\ \A p \in Pools : p.cfg = p.rev =>
       Worker(p) \in Even /\ Worker(p).cfg = p.cfg /\ Worker(p).rev = p.rev
BY WorkerTyped DEF Even, Worker, Pools

LEMMA EvenQueue ==
  ASSUME NEW q \in Seq(Even)
  PROVE  /\ q # <<>> => Head(q) \in Even /\ Tail(q) \in Seq(Even)
         /\ \A w \in Even : Append(q, w) \in Seq(Even)
         /\ \A k \in DOMAIN q : q[k] \in Even /\ \A w \in Even : [q EXCEPT ![k] = w] \in Seq(Even)
<1>1. q # <<>> => Head(q) \in Even /\ Tail(q) \in Seq(Even)
  BY HeadTailProperties
<1>2. \A w \in Even : Append(q, w) \in Seq(Even)
  BY AppendProperties
<1>3. \A k \in DOMAIN q : q[k] \in Even /\ \A w \in Even : [q EXCEPT ![k] = w] \in Seq(Even)
  BY LenProperties, ElementOfSeq, ExceptSeq
<1> QED
  BY <1>1, <1>2, <1>3

PoolsAlike ==
  /\ DOMAIN pools' = DOMAIN pools
  /\ \A i \in DOMAIN pools :
       /\ pools'[i].closed = pools[i].closed /\ pools'[i].cfg = pools[i].cfg
       /\ pools'[i].rev = pools[i].rev
       /\ ~pools[i].closed => EvenPool(pools'[i])

LEMMA AlikeKept ==
  ASSUME Matched, UNCHANGED pools
  PROVE  PoolsAlike
BY DEF Matched, PoolsAlike

LEMMA AlikeSet ==
  ASSUME TypeOK, Matched, NEW i \in DOMAIN pools, NEW p \in Pools, pools' = [pools EXCEPT ![i] = p],
         p.closed = pools[i].closed, p.cfg = pools[i].cfg, p.rev = pools[i].rev,
         ~p.closed => EvenPool(p)
  PROVE  PoolsAlike
<1>1. /\ DOMAIN pools' = DOMAIN pools
      /\ \A j \in DOMAIN pools : pools'[j] = IF j = i THEN p ELSE pools[j]
  BY PoolSet
<1> QED
  BY <1>1 DEF Matched, PoolsAlike

LEMMA InDomain ==
  ASSUME TypeOK
  PROVE  /\ managed # 0 => managed \in DOMAIN pools
         /\ \A c \in Callers :
              caller[c].at \in {"has", "waits", "asked"} => caller[c].pool \in DOMAIN pools
         /\ \A s \in Savers : saver[s].at = "closes" => saver[s].pool \in DOMAIN pools
BY DEF TypeOK, PoolsOK, CallersOK, SaversOK, InPool

LEMMA FitsKept ==
  ASSUME NEW r, NEW ps, NEW qs, Fits(r, ps),
         r.at \in {"has", "waits"} => /\ qs[r.pool].closed = ps[r.pool].closed
                                      /\ qs[r.pool].cfg = ps[r.pool].cfg
  PROVE  Fits(r, qs)
BY DEF Fits

(* A step that moves callers and changes pools only in their queues. *)
LEMMA MatchedMoves ==
  ASSUME TypeOK, Matched, PoolsAlike,
         \A d \in Callers : caller'[d] = caller[d] \/ Fits(caller'[d], pools'),
         UNCHANGED <<instance, managed, saver>>, ~missed'
  PROVE  Matched'
<1>1. ASSUME NEW d \in Callers PROVE Fits(caller'[d], pools')
  <2>1. CASE caller'[d] = caller[d]
    <3>1. Fits(caller[d], pools)
      BY DEF Matched
    <3>2. caller[d].at \in {"has", "waits"} => caller[d].pool \in DOMAIN pools
      BY InDomain
    <3> QED
      BY <2>1, <3>1, <3>2, FitsKept DEF PoolsAlike
  <2> QED
    BY <2>1
<1>2. /\ managed' # 0 => /\ ~pools'[managed'].closed
                         /\ \A s \in Savers : saver'[s].at = "closes" => saver'[s].pool # managed'
      /\ instance' # None => /\ managed' # 0 /\ instance'.pool = managed'
                             /\ instance'.rev = pools'[managed'].rev
      /\ \A s \in Savers : saver'[s].at = "popped" => instance' = None
  BY InDomain DEF Matched, PoolsAlike
<1>3. \A i \in DOMAIN pools' : ~pools'[i].closed => EvenPool(pools'[i])
  BY DEF PoolsAlike
<1> QED
  BY <1>1, <1>2, <1>3 DEF Matched, Fits, EvenPool

LEMMA MatchedStep ==
  ASSUME TypeOK, Matched, PoolsAlike, NEW c \in Callers, NEW new, Step(c, new), Fits(new, pools'),
         UNCHANGED <<instance, managed, saver>>, ~missed'
  PROVE  Matched'
<1>1. \A d \in Callers : caller'[d] = IF d = c THEN new ELSE caller[d]
  BY CallerSet
<1> QED
  BY <1>1, MatchedMoves

LEMMA MatchedReturns ==
  ASSUME TypeOK, Matched, PoolsAlike, NEW c \in Callers, Returns(c),
         UNCHANGED <<instance, managed, saver>>, ~missed'
  PROVE  Matched'
<1>1. Fits(Resting, pools')
  BY RestingTyped DEF Fits
<1> QED
  BY <1>1, MatchedStep DEF Returns

LEMMA MatchedLookup ==
  ASSUME TypeOK, Matched, NEW c \in Callers, ReadRecord(c) \/ ReadRevision(c) \/ Enter(c)
  PROVE  Matched'
<1>1. /\ PoolsAlike /\ UNCHANGED <<instance, managed, saver>>
      /\ Fits(caller[c], pools) /\ ~missed /\ caller[c] \in Caller
  BY Typed, AlikeKept DEF ReadRecord, ReadRevision, Enter, registry, Matched
<1>2. CASE ReadRecord(c)
  <2> DEFINE new == [Resting EXCEPT !.at = "record", !.cfg = saved, !.least = told, !.alone = Quiet]
  <2>1. new.at = "record" /\ Step(c, new) /\ ~missed'
    BY <1>1, <1>2, RestingTyped DEF ReadRecord, Caller, histories
  <2> HIDE DEF new
  <2>2. Fits(new, pools')
    BY <2>1 DEF Fits
  <2> QED
    BY <1>1, <2>1, <2>2, MatchedStep
<1>3. CASE ReadRevision(c)
  <2> DEFINE new == [caller[c] EXCEPT !.at = "revision", !.rev = saved]
  <2>1. new.at = "revision" /\ Step(c, new) /\ ~missed'
    BY <1>1, <1>3 DEF ReadRevision, Caller, histories
  <2> HIDE DEF new
  <2>2. Fits(new, pools')
    BY <2>1 DEF Fits
  <2> QED
    BY <1>1, <2>1, <2>2, MatchedStep
<1>4. CASE Enter(c)
  <2>1. caller[c].at = "has" /\ UNCHANGED pools
    BY <1>4 DEF Enter, At
  <2>2. CASE pools[caller[c].pool].closed
    <3>1. ~caller[c].alone
      BY <1>1, <2>1, <2>2 DEF Fits
    <3>2. Returns(c) /\ ~missed'
      BY <1>1, <1>4, <2>2, <3>1 DEF Enter
    <3> QED
      BY <1>1, <3>2, MatchedReturns
  <2>3. CASE ~pools[caller[c].pool].closed
    <3> DEFINE new == [caller[c] EXCEPT !.at = "waits", !.alone = TRUE]
    <3>1. /\ new.at = "waits" /\ new.pool = caller[c].pool /\ new.least = caller[c].least
          /\ Step(c, new) /\ ~missed'
      BY <1>1, <1>4, <2>3 DEF Enter, Caller
    <3> HIDE DEF new
    <3>2. Fits(new, pools')
      BY <1>1, <2>1, <2>3, <3>1 DEF Fits
    <3> QED
      BY <1>1, <3>1, <3>2, MatchedStep
  <2> QED
    BY <2>2, <2>3
<1> QED
  BY <1>2, <1>3, <1>4

LEMMA MatchedCheckout ==
  ASSUME TypeOK, ClosedInv, Matched, NEW c \in Callers, Checkout(c)
  PROVE  Matched'
<1> DEFINE j == caller[c].pool
           w == Head(Pool(c).idle)
<1>1. /\ caller[c].at = "waits" /\ caller[c].at \in InPool /\ Pool(c).idle # <<>>
      /\ UNCHANGED <<instance, managed, saver>> /\ ~missed /\ ~missed'
      /\ Fits(caller[c], pools) /\ caller[c] \in Caller
  BY Typed DEF Checkout, At, InPool, registry, histories, Matched
<1>2. /\ j \in DOMAIN pools /\ Pool(c) = pools[j] /\ pools[j] \in Pools /\ ~pools[j].closed
      /\ EvenPool(pools[j])
  BY <1>1, PoolIs, ClosedCheckout DEF Matched
<1>3. pools[j].cfg = pools[j].rev /\ pools[j].cfg >= caller[c].least
  BY <1>1, <1>2 DEF Fits, EvenPool
<1>4. /\ w \in Even /\ Tail(Pool(c).idle) \in Seq(Even) /\ pools[j].fresh \in Seq(Even)
  BY <1>1, <1>2, EvenQueue DEF EvenPool
<1>5. ASSUME NEW p \in Pools, p.closed = pools[j].closed, p.cfg = pools[j].cfg,
             p.rev = pools[j].rev, p.idle = Tail(Pool(c).idle), p.fresh = pools[j].fresh,
             Take(c, p)
      PROVE  PoolsAlike
  <2>1. EvenPool(p)
    BY <1>3, <1>4, <1>5 DEF EvenPool
  <2> QED
    BY <1>2, <1>5, <2>1, AlikeSet DEF Take
<1>6. ASSUME NEW p, p = Rest(c) \/ p = [Rest(c) EXCEPT !.short = TRUE], Take(c, p)
      PROVE  PoolsAlike
  <2>1. p \in Pools
    BY <1>1, <1>6, RestIs
  <2>2. /\ p.closed = pools[j].closed /\ p.cfg = pools[j].cfg /\ p.rev = pools[j].rev
        /\ p.idle = Tail(Pool(c).idle) /\ p.fresh = pools[j].fresh
    BY <1>2, <1>6 DEF Rest, Pools
  <2> QED
    BY <1>5, <1>6, <2>1, <2>2
<1>7. ASSUME NEW v \in Even, v.cfg = pools[j].cfg, Asked(c, v), PoolsAlike
      PROVE  Matched'
  <2> DEFINE new == [caller[c] EXCEPT !.at = "asked", !.worker = v]
  <2>1. /\ new.at = "asked" /\ new.worker = v /\ new.least = caller[c].least
        /\ Step(c, new)
    BY <1>1, <1>7 DEF Asked, Caller
  <2> HIDE DEF new
  <2>2. Fits(new, pools')
    BY <1>3, <1>7, <2>1 DEF Fits
  <2> QED
    BY <1>1, <1>7, <2>1, <2>2, MatchedStep
<1>8. CASE w.rev = Pool(c).rev /\ Take(c, Rest(c)) /\ Asked(c, w)
  <2>1. w.cfg = pools[j].cfg
    BY <1>2, <1>3, <1>4, <1>8, EvenIs
  <2>2. PoolsAlike
    BY <1>6, <1>8
  <2> HIDE DEF w
  <2> QED
    BY <1>4, <1>7, <1>8, <2>1, <2>2
<1>9. CASE Take(c, Rest(c)) /\ Asked(c, Worker(Pool(c)))
  <2>1. Worker(Pool(c)) \in Even /\ Worker(Pool(c)).cfg = pools[j].cfg
    BY <1>2, <1>3, EvenIs
  <2>2. PoolsAlike
    BY <1>6, <1>9
  <2> QED
    BY <1>7, <1>9, <2>1, <2>2
<1>10. CASE Take(c, [Rest(c) EXCEPT !.short = TRUE]) /\ Returns(c)
  BY <1>1, <1>6, <1>10, MatchedReturns
<1> QED
  BY <1>8, <1>9, <1>10, CheckoutIs

LEMMA MatchedReplies ==
  ASSUME TypeOK, Matched, NEW c \in Callers, Answered(c) \/ Crashes(c) \/ Misbehaves(c)
  PROVE  Matched'
<1> DEFINE j == caller[c].pool
<1>1. /\ caller[c].at = "asked" /\ caller[c].at \in InPool /\ Returns(c)
      /\ UNCHANGED <<instance, managed, saver>> /\ ~missed
      /\ Fits(caller[c], pools) /\ caller[c] \in Caller
  BY Typed DEF Answered, Crashes, Misbehaves, At, InPool, registry, Matched
<1>2. /\ j \in DOMAIN pools /\ Pool(c) = pools[j] /\ pools[j] \in Pools
      /\ ~pools[j].closed => EvenPool(pools[j])
  BY <1>1, PoolIs DEF Matched
<1>3. caller[c].worker \in Even /\ caller[c].worker \in Workers
  BY <1>1, EvenIs DEF Fits
<1>4. CASE Answered(c)
  <2> DEFINE new == [Pool(c) EXCEPT !.idle = Append(Pool(c).idle, caller[c].worker)]
  <2>1. pools' = [pools EXCEPT ![j] = new] /\ caller[c].worker.up
    BY <1>4, <1>2, PoolTyped DEF Answered, Take, Pools
  <2>2. ~missed'
    <3>1. caller[c].worker.cfg >= caller[c].least
      BY <1>1, <2>1 DEF Fits
    <3>2. caller[c].worker.cfg \in Nat /\ caller[c].least \in Nat
      BY <1>1, <1>3 DEF Caller, Workers
    <3>3. ~(caller[c].worker.cfg < caller[c].least)
      BY <3>1, <3>2
    <3> QED
      BY <1>1, <1>4, <3>3 DEF Answered
  <2>3. /\ new \in Pools /\ new.closed = pools[j].closed /\ new.cfg = pools[j].cfg
        /\ new.rev = pools[j].rev /\ new.fresh = pools[j].fresh
        /\ new.idle = Append(pools[j].idle, caller[c].worker)
    BY <1>1, <1>2, <1>3, PoolIs, QueueGrows DEF Pools
  <2> HIDE DEF new
  <2>4. ~new.closed => EvenPool(new)
    BY <1>2, <1>3, <2>3, EvenQueue DEF EvenPool
  <2>5. PoolsAlike
    BY <1>2, <2>1, <2>3, <2>4, AlikeSet
  <2> QED
    BY <1>1, <2>2, <2>5, MatchedReturns
<1>5. CASE Crashes(c) \/ Misbehaves(c)
  <2> DEFINE new == [Pool(c) EXCEPT !.relaunch = Pool(c).relaunch + 1]
  <2>1. pools' = [pools EXCEPT ![j] = new]
    BY <1>1, <1>2, <1>5, PoolTyped DEF Crashes, Misbehaves, Discarded, Take, Pools
  <2>2. /\ new \in Pools /\ new.closed = pools[j].closed /\ new.cfg = pools[j].cfg
        /\ new.rev = pools[j].rev /\ new.fresh = pools[j].fresh /\ new.idle = pools[j].idle
    BY <1>2 DEF Pools
  <2> HIDE DEF new
  <2>3. ~new.closed => EvenPool(new)
    BY <1>2, <2>2 DEF EvenPool
  <2>4. PoolsAlike
    BY <1>2, <2>1, <2>2, <2>3, AlikeSet
  <2>5. ~missed'
    BY <1>1, <1>5 DEF Crashes, Misbehaves, histories
  <2> QED
    BY <1>1, <2>4, <2>5, MatchedReturns
<1> QED
  BY <1>4, <1>5

LEMMA MatchedPoolSteps ==
  ASSUME TypeOK, ClosedInv, Matched, NEW i \in DOMAIN pools, PoolSteps(i)
  PROVE  Matched'
<1> DEFINE p == pools[i]
<1>1. /\ p \in Pools /\ ~missed'
      /\ ~p.closed => EvenPool(p)
      /\ p.closed => p.idle = <<>> /\ p.fresh = <<>>
      /\ UNCHANGED <<instance, managed, saver, caller>>
  BY PoolTyped, PoolStepIs DEF Matched, ClosedInv, Emptied, registry, histories
<1>2. ASSUME NEW new \in Pools, pools' = [pools EXCEPT ![i] = new],
             new.closed = p.closed, new.cfg = p.cfg, new.rev = p.rev, ~new.closed => EvenPool(new)
      PROVE  Matched'
  <2>1. PoolsAlike
    BY <1>2, AlikeSet
  <2> QED
    BY <1>1, <2>1, MatchedMoves
<1>3. \/ /\ p.relaunch > 0
         /\ \/ p.closed /\ pools' = [pools EXCEPT ![i] = Ended(p)]
            \/ ~p.closed /\ pools' = [pools EXCEPT ![i] = Started(p)]
            \/ ~p.closed /\ pools' = [pools EXCEPT ![i] = NotStarted(p)]
      \/ p.fresh # <<>> /\ pools' = [pools EXCEPT ![i] = Queued(p)]
      \/ \E k \in DOMAIN p.idle : pools' = [pools EXCEPT ![i] = Lost(p, k)]
  BY PoolStepIs
<1> HIDE DEF p
<1>4. CASE p.relaunch > 0 /\ p.closed /\ pools' = [pools EXCEPT ![i] = Ended(p)]
  <2>1. /\ Ended(p) \in Pools /\ Ended(p) = [p EXCEPT !.relaunch = p.relaunch - 1]
    BY <1>1, <1>4, EndedIs
  <2>2. Ended(p).closed = p.closed /\ Ended(p).cfg = p.cfg /\ Ended(p).rev = p.rev
    BY <1>1, <2>1 DEF Pools
  <2> QED
    BY <1>2, <1>4, <2>1, <2>2
<1>5. CASE p.relaunch > 0 /\ ~p.closed /\ pools' = [pools EXCEPT ![i] = Started(p)]
  <2>1. /\ Started(p) \in Pools
        /\ Started(p) = [p EXCEPT !.relaunch = p.relaunch - 1, !.fresh = Append(p.fresh, Worker(p))]
    BY <1>1, <1>5, EndedIs
  <2>2. /\ Started(p).closed = p.closed /\ Started(p).cfg = p.cfg /\ Started(p).rev = p.rev
        /\ Started(p).idle = p.idle /\ Started(p).fresh = Append(p.fresh, Worker(p))
    BY <1>1, <2>1 DEF Pools
  <2>3. Append(p.fresh, Worker(p)) \in Seq(Even)
    BY <1>1, <1>5, EvenIs, EvenQueue DEF EvenPool
  <2>4. EvenPool(Started(p))
    BY <1>1, <1>5, <2>2, <2>3 DEF EvenPool
  <2> QED
    BY <1>2, <1>5, <2>1, <2>2, <2>4
<1>6. CASE p.relaunch > 0 /\ ~p.closed /\ pools' = [pools EXCEPT ![i] = NotStarted(p)]
  <2>1. /\ NotStarted(p) \in Pools
        /\ NotStarted(p) = [p EXCEPT !.relaunch = p.relaunch - 1, !.short = TRUE]
    BY <1>1, <1>6, EndedIs
  <2>2. /\ NotStarted(p).closed = p.closed /\ NotStarted(p).cfg = p.cfg
        /\ NotStarted(p).rev = p.rev /\ NotStarted(p).idle = p.idle
        /\ NotStarted(p).fresh = p.fresh
    BY <1>1, <2>1 DEF Pools
  <2>3. EvenPool(NotStarted(p))
    BY <1>1, <1>6, <2>2 DEF EvenPool
  <2> QED
    BY <1>2, <1>6, <2>1, <2>2, <2>3
<1>7. CASE p.fresh # <<>> /\ pools' = [pools EXCEPT ![i] = Queued(p)]
  <2>1. /\ Queued(p) \in Pools
        /\ Queued(p) = [p EXCEPT !.idle = Append(p.idle, Head(p.fresh)), !.fresh = Tail(p.fresh)]
    BY <1>1, <1>7, QueuedIs
  <2>2. /\ Queued(p).closed = p.closed /\ Queued(p).cfg = p.cfg /\ Queued(p).rev = p.rev
        /\ Queued(p).idle = Append(p.idle, Head(p.fresh)) /\ Queued(p).fresh = Tail(p.fresh)
    BY <1>1, <2>1 DEF Pools
  <2>3. p.cfg = p.rev /\ p.idle \in Seq(Even) /\ p.fresh \in Seq(Even)
    BY <1>1, <1>7 DEF EvenPool
  <2>4. Append(p.idle, Head(p.fresh)) \in Seq(Even) /\ Tail(p.fresh) \in Seq(Even)
    BY <1>7, <2>3, EvenQueue
  <2>5. EvenPool(Queued(p))
    BY <2>2, <2>3, <2>4 DEF EvenPool
  <2> QED
    BY <1>2, <1>7, <2>1, <2>2, <2>5
<1>8. CASE \E k \in DOMAIN p.idle : pools' = [pools EXCEPT ![i] = Lost(p, k)]
  <2>1. PICK k \in DOMAIN p.idle : pools' = [pools EXCEPT ![i] = Lost(p, k)]
    BY <1>8
  <2> DEFINE w == [p.idle[k] EXCEPT !.up = FALSE]
  <2>2. /\ w \in Workers /\ p.idle[k] \in Workers /\ Lost(p, k) \in Pools
        /\ Lost(p, k) = [p EXCEPT !.idle = [p.idle EXCEPT ![k] = w]]
    BY <1>1, LostIs
  <2>3. w.cfg = p.idle[k].cfg /\ w.rev = p.idle[k].rev
    BY <2>2 DEF Workers
  <2> HIDE DEF w
  <2>4. /\ Lost(p, k).closed = p.closed /\ Lost(p, k).cfg = p.cfg /\ Lost(p, k).rev = p.rev
        /\ Lost(p, k).idle = [p.idle EXCEPT ![k] = w] /\ Lost(p, k).fresh = p.fresh
    BY <1>1, <2>2 DEF Pools
  <2>5. p.cfg = p.rev /\ p.idle \in Seq(Even) /\ p.fresh \in Seq(Even)
    BY <1>1, <2>1, EmptySeq DEF EvenPool
  <2>6. w \in Even
    BY <2>2, <2>3, <2>5, EvenQueue DEF Even
  <2>7. [p.idle EXCEPT ![k] = w] \in Seq(Even)
    BY <2>5, <2>6, EvenQueue
  <2>8. EvenPool(Lost(p, k))
    BY <2>4, <2>5, <2>7 DEF EvenPool
  <2> QED
    BY <1>2, <2>1, <2>2, <2>4, <2>8
<1> QED
  BY <1>3, <1>4, <1>5, <1>6, <1>7, <1>8

(* A lookup that no save crossed has read what is saved. *)
LEMMA MatchedGetInstance ==
  ASSUME TypeOK, InOrder, Matched, NEW c \in Callers, GetInstance(c), ~crossed'
  PROVE  Matched'
<1> DEFINE cfg == caller[c].cfg
           rev == caller[c].rev
<1>1. /\ caller[c].at = "revision" /\ UNCHANGED <<saved, saver, told, missed>> /\ ~missed
      /\ ~Late(c) /\ caller[c] \in Caller
  BY GetInstanceIs, Typed DEF At, Matched
<1>2. cfg = saved /\ \A s \in Savers : saver[s].at # "popped"
  BY <1>1 DEF Late
<1>3. /\ cfg \in Nat /\ rev \in Nat /\ saved \in Nat /\ told \in Nat
      /\ cfg <= rev /\ rev <= saved /\ told <= saved
  BY <1>1 DEF Caller, TypeOK, InOrder
<1>4. cfg = saved /\ rev = saved
  BY <1>2, <1>3
<1>5. \A d \in Callers : caller[d].least \in Nat /\ saved >= caller[d].least
  BY <1>3, Typed DEF InOrder, Caller
<1>6. \A i \in DOMAIN pools : i \in Nat
  BY Positions
<1>7. ASSUME NEW i \in Nat, NEW ps, ~ps[i].closed, ps[i].cfg = saved
      PROVE  Fits(Has(c, i), ps)
  BY <1>5, <1>7, HasTyped DEF Fits
<1>8. \A i \in DOMAIN pools : pools[i] \in Pools
  BY PoolTyped
<1> HIDE DEF cfg, rev
<1>9. CASE CachedPool(c)
  <2>1. /\ instance # None /\ instance.rev = rev /\ Step(c, Has(c, instance.pool))
        /\ UNCHANGED <<instance, managed, pools>>
    BY <1>9 DEF CachedPool, Cached, rev
  <2>2. /\ managed # 0 /\ instance.pool = managed /\ pools[managed].rev = rev
        /\ ~pools[managed].closed /\ managed \in DOMAIN pools
    BY <2>1, InDomain DEF Matched
  <2>3. pools[managed].cfg = saved
    BY <1>4, <2>2 DEF Matched, EvenPool
  <2>4. managed \in Nat
    BY <1>6, <2>2
  <2>5. Fits(Has(c, managed), pools')
    BY <1>7, <2>1, <2>2, <2>3, <2>4
  <2> QED
    BY <1>1, <2>1, <2>2, <2>5, AlikeKept, MatchedStep
<1>10. ASSUME NEW m \in Nat \ {0}, m = managed', Step(c, Has(c, m)),
              instance' = [rev |-> rev, pool |-> m],
              ~pools'[m].closed, pools'[m].cfg = saved, pools'[m].rev = saved, EvenPool(pools'[m]),
              DOMAIN pools' = DOMAIN pools \cup {m},
              \A i \in DOMAIN pools \ {m} : pools'[i] = pools[i],
              m \in DOMAIN pools => ~pools[m].closed,
              \A s \in Savers : saver[s].at = "closes" => saver[s].pool # m
       PROVE  Matched'
  <2>1. ASSUME NEW d \in Callers PROVE Fits(caller'[d], pools')
    <3>1. caller'[d] = IF d = c THEN Has(c, m) ELSE caller[d]
      BY <1>10, CallerSet
    <3>2. CASE d = c
      BY <1>7, <1>10, <3>1, <3>2
    <3>3. CASE d # c
      <4>1. caller'[d] = caller[d] /\ Fits(caller[d], pools)
        BY <3>1, <3>3 DEF Matched
      <4>2. caller[d].at \in {"has", "waits"} => caller[d].pool \in DOMAIN pools
        BY InDomain
      <4>3. CASE caller[d].pool = m
        BY <1>5, <1>10, <4>1, <4>2, <4>3 DEF Fits
      <4>4. CASE caller[d].pool # m
        BY <1>10, <4>1, <4>2, <4>4, FitsKept
      <4> QED
        BY <4>3, <4>4
    <3> QED
      BY <3>2, <3>3
  <2>2. ASSUME NEW i \in DOMAIN pools', ~pools'[i].closed PROVE EvenPool(pools'[i])
    <3>1. CASE i = m
      BY <1>10, <3>1
    <3>2. CASE i # m
      BY <1>10, <2>2, <3>2 DEF Matched
    <3> QED
      BY <3>1, <3>2
  <2>3. /\ managed' # 0 => /\ ~pools'[managed'].closed
                           /\ \A s \in Savers : saver'[s].at = "closes" => saver'[s].pool # managed'
        /\ instance' # None => /\ managed' # 0 /\ instance'.pool = managed'
                               /\ instance'.rev = pools'[managed'].rev
        /\ \A s \in Savers : saver'[s].at = "popped" => instance' = None
    BY <1>1, <1>2, <1>4, <1>10
  <2> QED
    BY <1>1, <2>1, <2>2, <2>3 DEF Matched, Fits, EvenPool
<1>11. CASE MadePool(c)
  <2> DEFINE m == managed'
             p == NewPool(caller[c].cfg, caller[c].rev)
             w == [cfg |-> saved, rev |-> saved, up |-> TRUE]
  <2>1. /\ m \in Nat \ {0} /\ m \notin DOMAIN pools /\ DOMAIN pools' = DOMAIN pools \cup {m}
        /\ \A i \in DOMAIN pools : pools'[i] = pools[i]
        /\ pools'[m] = p
    BY <1>11, MadePoolIs
  <2>2. /\ p.cfg = saved /\ p.rev = saved /\ ~p.closed /\ p.fresh = <<>> /\ p.idle \in Seq({w})
    BY <1>3, <1>4, NewPoolIs DEF cfg, rev
  <2>3. Step(c, Has(c, m)) /\ instance' = [rev |-> rev, pool |-> m]
    BY <1>11 DEF MadePool, rev
  <2>4. {w} \subseteq Even
    BY <1>3 DEF Even, Workers
  <2> HIDE DEF w, p
  <2>5. p.idle \in Seq(Even) /\ p.fresh \in Seq(Even)
    BY <2>2, <2>4, SeqMonotonic, EmptySeq
  <2>6. EvenPool(p)
    BY <2>2, <2>5 DEF EvenPool
  <2>7. \A s \in Savers : saver[s].at = "closes" => saver[s].pool # m
    BY <2>1, InDomain
  <2> HIDE DEF m
  <2>8. m = managed'
    BY DEF m
  <2> QED
    BY <1>10, <2>1, <2>2, <2>3, <2>6, <2>7, <2>8
<1>12. CASE KeptPool(c)
  <2> DEFINE new == Reconfigured(pools[managed], caller[c].cfg, caller[c].rev)
  <2>1. /\ managed \in DOMAIN pools /\ new \in Pools
        /\ new = [pools[managed] EXCEPT !.cfg = caller[c].cfg, !.rev = caller[c].rev]
        /\ DOMAIN pools' = DOMAIN pools
        /\ \A i \in DOMAIN pools : pools'[i] = IF i = managed THEN new ELSE pools[i]
    BY <1>12, KeptPoolIs
  <2> HIDE DEF new
  <2>2. /\ new.cfg = saved /\ new.rev = saved /\ new.closed = pools[managed].closed
        /\ new.idle = pools[managed].idle /\ new.fresh = pools[managed].fresh
    BY <1>4, <1>8, <2>1 DEF Pools, cfg, rev
  <2>3. /\ managed # 0 /\ managed' = managed /\ instance' = [rev |-> rev, pool |-> managed]
        /\ Step(c, Has(c, managed))
    BY <1>12 DEF KeptPool, rev
  <2>4. /\ ~pools[managed].closed /\ EvenPool(pools[managed])
        /\ \A s \in Savers : saver[s].at = "closes" => saver[s].pool # managed
    BY <2>1, <2>3 DEF Matched
  <2>5. EvenPool(new)
    BY <2>2, <2>4 DEF EvenPool
  <2>6. managed \in Nat \ {0} /\ DOMAIN pools' = DOMAIN pools \cup {managed}
    BY <1>6, <2>1, <2>3
  <2>7. pools'[managed] = new /\ \A i \in DOMAIN pools \ {managed} : pools'[i] = pools[i]
    BY <2>1
  <2>8. ~new.closed
    BY <2>2, <2>4
  <2> QED
    BY <1>10, <2>2, <2>3, <2>4, <2>5, <2>6, <2>7, <2>8
<1> QED
  BY <1>9, <1>11, <1>12, GetInstanceIs

LEMMA MatchedSaves ==
  ASSUME TypeOK, AloneIsQuiet, Matched, NEW s \in Savers, Saves(s)
  PROVE  Matched'
<1>1. \A c \in Callers :
        /\ caller'[c].at = caller[c].at /\ caller'[c].least = caller[c].least
        /\ caller'[c].pool = caller[c].pool
        /\ caller'[c].alone = caller[c].alone \/ caller'[c].alone = FALSE
        /\ ~ClosePool(s) => caller'[c].worker = caller[c].worker
  BY SaveCallers
<1>2. /\ \A c \in Callers : Fits(caller[c], pools)
      /\ \A i \in DOMAIN pools : ~pools[i].closed => EvenPool(pools[i])
      /\ ~missed /\ saver \in [Savers -> Saver]
  BY DEF Matched, TypeOK, SaversOK
<1>3. CASE ~ClosePool(s)
  <2>1. UNCHANGED <<pools, missed>> /\ \A c \in Callers : Fits(caller'[c], pools)
    <3>1. UNCHANGED <<pools, missed>>
      BY <1>3 DEF Saves, Save, PopInstance, RemovePool, histories
    <3>2. ASSUME NEW c \in Callers PROVE Fits(caller'[c], pools)
      BY <1>1, <1>2, <1>3 DEF Fits
    <3> QED
      BY <3>1, <3>2
  <2>2. ASSUME /\ managed' # 0 =>
                    /\ managed' = managed
                    /\ \A r \in Savers : saver'[r].at = "closes" =>
                                           saver[r].at = "closes" /\ saver'[r].pool = saver[r].pool
               /\ instance' # None => instance' = instance /\ managed' = managed
               /\ \A r \in Savers : saver'[r].at = "popped" => instance' = None
        PROVE  Matched'
    BY <1>2, <2>1, <2>2 DEF Matched, Fits, EvenPool
  <2>3. CASE Save(s)
    <3>1. \A r \in Savers : /\ r # s => saver'[r] = saver[r]
                            /\ r = s => saver'[r].at = "saved"
      BY <1>2, <2>3 DEF Save
    <3>2. UNCHANGED <<instance, managed>>
      BY <2>3 DEF Save
    <3> QED
      BY <2>2, <3>1, <3>2 DEF Matched
  <2>4. CASE PopInstance(s)
    <3>1. saver' = [saver EXCEPT ![s] = [saver[s] EXCEPT !.at = "popped"]]
      BY <2>4 DEF PopInstance
    <3>2. \A r \in Savers : /\ r # s => saver'[r] = saver[r]
                            /\ r = s => saver'[r].at = "popped"
      BY <1>2, <3>1 DEF Saver
    <3>3. UNCHANGED managed /\ instance' = None
      BY <2>4 DEF PopInstance
    <3> QED
      BY <2>2, <3>2, <3>3
  <2>5. CASE RemovePool(s)
    <3>1. managed' = 0 /\ instance' = instance /\ saver[s].at = "popped"
      BY <2>5 DEF RemovePool
    <3>2. instance' = None
      BY <3>1 DEF Matched
    <3> QED
      BY <2>2, <3>1, <3>2
  <2> QED
    BY <1>3, <2>3, <2>4, <2>5 DEF Saves
<1>4. CASE ClosePool(s)
  <2> DEFINE i == saver[s].pool
  <2>1. /\ \A c \in Callers :
             /\ caller'[c] = IF caller[c].at = "asked" /\ caller[c].pool = i
                             THEN [caller[c] EXCEPT !.worker = [caller[c].worker EXCEPT !.up = FALSE]]
                             ELSE caller[c]
             /\ caller[c].at = "asked" => caller[c].worker \in Workers
        /\ i \in DOMAIN pools /\ saver[s].at = "closes"
        /\ pools' = [pools EXCEPT ![i] = Gone(pools[i])]
    BY <1>4, ClosedCallers
  <2>2. /\ DOMAIN pools' = DOMAIN pools
        /\ \A j \in DOMAIN pools : pools'[j] = IF j = i THEN Gone(pools[i]) ELSE pools[j]
        /\ pools'[i].closed
    BY <2>1, PoolTyped, GoneIs, PoolSet
  <2>3. ASSUME NEW c \in Callers PROVE Fits(caller'[c], pools')
    <3>1. ~(caller[c].at = "has" /\ caller[c].alone)
      BY <2>1 DEF AloneIsQuiet, Quiet
    <3>2. caller[c] \in Caller /\ Fits(caller[c], pools)
      BY <1>2, Typed
    <3>3. caller[c].at \in {"has", "waits"} => caller[c].pool \in DOMAIN pools
      BY InDomain
    <3>4. CASE caller[c].at = "asked" /\ caller[c].pool = i
      <4>1. caller'[c].at = "asked" /\ caller'[c].worker = [caller[c].worker EXCEPT !.up = FALSE]
        BY <2>1, <3>2, <3>4 DEF Caller
      <4>2. caller[c].worker \in Even
        BY <3>2, <3>4 DEF Fits
      <4>3. caller'[c].worker \in Even /\ ~caller'[c].worker.up
        BY <4>1, <4>2 DEF Even, Workers
      <4> QED
        BY <4>1, <4>3 DEF Fits
    <3>5. CASE ~(caller[c].at = "asked" /\ caller[c].pool = i)
      <4>1. caller'[c] = caller[c]
        BY <2>1, <3>5
      <4>2. CASE caller[c].pool = i
        BY <2>2, <3>1, <3>2, <3>5, <4>1, <4>2 DEF Fits
      <4>3. CASE caller[c].pool # i
        BY <2>2, <3>2, <3>3, <4>1, <4>3, FitsKept
      <4> QED
        BY <4>2, <4>3
    <3> QED
      BY <3>4, <3>5
  <2>4. \A j \in DOMAIN pools' : ~pools'[j].closed => EvenPool(pools'[j])
    BY <1>2, <2>2
  <2>5. /\ UNCHANGED <<instance, managed, missed>>
        /\ \A r \in Savers : /\ r # s => saver'[r] = saver[r]
                             /\ r = s => saver'[r].at = "idle"
    BY <1>2, <1>4 DEF ClosePool, Done, registry
  <2>6. managed # 0 => managed # i /\ managed \in DOMAIN pools
    BY <2>1, InDomain DEF Matched
  <2>7. managed # 0 => pools'[managed] = pools[managed]
    BY <2>2, <2>6
  <2>8. /\ managed' # 0 =>
             /\ ~pools'[managed'].closed
             /\ \A r \in Savers : saver'[r].at = "closes" => saver'[r].pool # managed'
        /\ instance' # None => /\ managed' # 0 /\ instance'.pool = managed'
                               /\ instance'.rev = pools'[managed'].rev
        /\ \A r \in Savers : saver'[r].at = "popped" => instance' = None
    BY <2>5, <2>7 DEF Matched
  <2> QED
    BY <1>2, <2>3, <2>4, <2>5, <2>8 DEF Matched, Fits, EvenPool
<1> QED
  BY <1>3, <1>4

LEMMA FollowNext == TypeOK /\ ClosedInv /\ FollowInv /\ [Next]_vars => FollowInv'
<1> SUFFICES ASSUME TypeOK, ClosedInv, FollowInv, [Next]_vars PROVE FollowInv'
  OBVIOUS
<1>1. InOrder' /\ AloneIsQuiet'
  BY OrderNext, AloneNext DEF FollowInv
<1>2. crossed => crossed'
  <2>1. ASSUME NEW c \in Callers, Calls(c) PROVE crossed => crossed'
    BY <2>1 DEF Calls, ReadRecord, ReadRevision, GetInstance, Enter, Checkout, Answered, Crashes,
                Misbehaves, histories
  <2>2. ASSUME NEW s \in Savers, Saves(s) PROVE crossed => crossed'
    BY <2>2 DEF Saves, Save, PopInstance, RemovePool, ClosePool, histories
  <2>3. ASSUME NEW i \in DOMAIN pools, PoolSteps(i) PROVE crossed => crossed'
    BY <2>3, PoolStepIs DEF histories
  <2> QED
    BY <2>1, <2>2, <2>3 DEF Next, vars
<1>3. ASSUME ~crossed' PROVE Matched'
  <2>1. InOrder /\ AloneIsQuiet /\ Matched
    BY <1>2, <1>3 DEF FollowInv
  <2>2. ASSUME NEW c \in Callers, Calls(c) PROVE Matched'
    BY <1>3, <2>1, <2>2, MatchedLookup, MatchedGetInstance, MatchedCheckout, MatchedReplies
       DEF Calls
  <2>3. ASSUME NEW s \in Savers, Saves(s) PROVE Matched'
    BY <2>1, <2>3, MatchedSaves
  <2>4. ASSUME NEW i \in DOMAIN pools, PoolSteps(i) PROVE Matched'
    BY <2>1, <2>4, MatchedPoolSteps
  <2>5. CASE UNCHANGED vars
    BY <2>1, <2>5 DEF vars, Matched, Fits, EvenPool
  <2> QED
    BY <2>2, <2>3, <2>4, <2>5 DEF Next
<1> QED
  BY <1>1, <1>3 DEF FollowInv

(* A call is answered under a configuration no older than the last whose save had returned when
   it began, and finds an open pool, unless a lookup crossed a save. *)
THEOREM AnswersAreCurrent == Spec => []CallsFollowSaves
<1>1. Init => FollowInv
  <2>1. \A c \in Callers : Resting.at = "idle" /\ Resting.least = 0
    BY RestingTyped DEF Resting
  <2>2. ASSUME Init PROVE InOrder /\ AloneIsQuiet /\ Matched
    BY <2>1, <2>2 DEF Init, InOrder, AloneIsQuiet, Matched, Fits, Looking
  <2> QED
    BY <2>2 DEF FollowInv
<1>2. FollowInv => CallsFollowSaves
  BY DEF FollowInv, Matched, CallsFollowSaves
<1> QED
  BY <1>1, <1>2, FollowNext, PoolTypeCorrect, ClosedAlways, PTL DEF Spec
=============================================================================
