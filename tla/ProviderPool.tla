---------------------------- MODULE ProviderPool ----------------------------
(***************************************************************************)
(* A provider that runs as a package: the threads that ask it something    *)
(* (gateway.py, _invoke and _get_instance), the pool of subprocesses that  *)
(* answer (runner.py, Pool and PoolManager; host.py in each subprocess),   *)
(* and the settings page, which saves a configuration or changes a role    *)
(* and then calls invalidate().                                            *)
(*                                                                         *)
(* A configuration is its revision.  _get_instance() reads the record and  *)
(* the revision one after the other, without the lock of the instances;    *)
(* invalidate() drops the instance under that lock and closes the pool     *)
(* after it.  A worker is what the pool knows of it: the configuration and *)
(* revision it was made for, and whether its process runs.  A closed pool  *)
(* forgets its workers: what is put into its queue afterwards a caller     *)
(* passes over, and is left out.  An error the provider reports is an      *)
(* answer.  set_throttle() is called by nobody.                            *)
(***************************************************************************)
EXTENDS Integers, Sequences, FiniteSets

CONSTANTS
  Callers,      \* threads that call the provider
  Savers,       \* threads of the settings page
  Size,         \* workers of a pool
  MaxSaves,     \* saves in all
  MaxFaults,    \* workers that die, hang or talk nonsense, or cannot be replaced
  None

ASSUME SizeAssumption == Size \in Nat \ {0}
ASSUME CallersAssumption == IsFiniteSet(Callers)
ASSUME BoundsAssumption == MaxSaves \in Nat /\ MaxFaults \in Nat

VARIABLES
  saved,        \* the configuration in the registry
  instance,     \* _instances, for the provider: revision and pool, or None
  managed,      \* PoolManager._pools, for the provider
  pools,        \* the pools made so far
  caller,       \* what each caller does
  saver,        \* what each saver does
  spent,        \* bounds
  told,         \* history: the newest configuration whose save has returned
  crossed,      \* history: a lookup that began before a save ended after it
  missed        \* history: a call was answered under a configuration older than told when
                \* it began, or found a closed pool though no save went on

vars == <<saved, instance, managed, pools, caller, saver, spent, told, crossed, missed>>
registry == <<saved, instance, managed>>
histories == <<told, crossed, missed>>

Worker(p) == [cfg |-> p.cfg, rev |-> p.rev, up |-> TRUE]
NewPool(cfg, rev) ==
  LET p == [cfg |-> cfg, rev |-> rev, closed |-> FALSE, relaunch |-> 0, fresh |-> <<>>,
            short |-> FALSE, idle |-> <<>>]
  IN [p EXCEPT !.idle = [i \in 1..Size |-> Worker(p)]]

Resting == [at |-> "idle", cfg |-> 0, rev |-> 0, pool |-> 0, worker |-> None, least |-> 0,
            alone |-> TRUE]
Quiet == \A s \in Savers : saver[s].at = "idle"

Init ==
  /\ saved = 0 /\ instance = None /\ managed = 0 /\ pools = <<>>
  /\ caller = [c \in Callers |-> Resting]
  /\ saver = [s \in Savers |-> [at |-> "idle", pool |-> 0, cfg |-> 0]]
  /\ spent = [saves |-> 0, faults |-> 0]
  /\ told = 0 /\ crossed = FALSE /\ missed = FALSE

Fault == /\ spent.faults < MaxFaults
         /\ spent' = [spent EXCEPT !.faults = @ + 1]

(***************************************************************************)
(* A call, from the lookup to the answer.                                  *)
(***************************************************************************)
At(c, where) == caller[c].at = where
Step(c, new) == caller' = [caller EXCEPT ![c] = new]
Returns(c) == Step(c, Resting)

ReadRecord(c) ==
  /\ At(c, "idle")
  /\ Step(c, [Resting EXCEPT !.at = "record", !.cfg = saved, !.least = told, !.alone = Quiet])
  /\ UNCHANGED <<registry, pools, saver, spent, histories>>

ReadRevision(c) ==
  /\ At(c, "record")
  /\ Step(c, [caller[c] EXCEPT !.at = "revision", !.rev = saved])
  /\ UNCHANGED <<registry, pools, saver, spent, histories>>

Has(c, p) == [Resting EXCEPT !.at = "has", !.pool = p, !.least = caller[c].least,
                            !.alone = caller[c].alone]
Cached(rev) == instance # None /\ instance.rev = rev
Reconfigured(p, cfg, rev) == [p EXCEPT !.cfg = cfg, !.rev = rev]   \* retire_on_idle()
Late(c) == caller[c].cfg # saved \/ \E s \in Savers : saver[s].at = "popped"

(* The pool of the cached instance, or the manager's, told of the
   configuration, or a new one. *)
GetInstance(c) ==
  /\ At(c, "revision")
  /\ LET cfg == caller[c].cfg
         rev == caller[c].rev
     IN \/ /\ Cached(rev)
           /\ Step(c, Has(c, instance.pool))
           /\ UNCHANGED <<instance, managed, pools>>
        \/ /\ ~Cached(rev)
           /\ IF managed = 0
              THEN /\ pools' = Append(pools, NewPool(cfg, rev))
                   /\ managed' = Len(pools')
              ELSE /\ pools' = [pools EXCEPT ![managed] = Reconfigured(@, cfg, rev)]
                   /\ UNCHANGED managed
           /\ instance' = [rev |-> rev, pool |-> managed']
           /\ Step(c, Has(c, managed'))
  /\ crossed' = (crossed \/ Late(c))
  /\ UNCHANGED <<saved, saver, spent, told, missed>>

Enter(c) ==
  /\ At(c, "has")
  /\ IF pools[caller[c].pool].closed THEN Returns(c) /\ missed' = (missed \/ caller[c].alone)
     ELSE Step(c, [caller[c] EXCEPT !.at = "waits", !.alone = TRUE]) /\ UNCHANGED missed
  /\ UNCHANGED <<registry, pools, saver, spent, told, crossed>>

Pool(c) == pools[caller[c].pool]
Take(c, new) == pools' = [pools EXCEPT ![caller[c].pool] = new]
Asked(c, w) == Step(c, [caller[c] EXCEPT !.at = "asked", !.worker = w])

(* A worker of another revision is replaced before it is used. *)
Checkout(c) ==
  /\ At(c, "waits") /\ Pool(c).idle # <<>>
  /\ LET p == Pool(c)
         w == Head(p.idle)
         q == [p EXCEPT !.idle = Tail(@)]
     IN \/ w.rev = p.rev /\ Take(c, q) /\ Asked(c, w) /\ UNCHANGED spent
        \/ w.rev # p.rev /\ Take(c, q) /\ Asked(c, Worker(p)) /\ UNCHANGED spent
        \/ w.rev # p.rev /\ Take(c, [q EXCEPT !.short = TRUE])
           /\ Returns(c) /\ Fault
  /\ UNCHANGED <<registry, saver, histories>>

Answered(c) ==
  /\ At(c, "asked") /\ caller[c].worker.up
  /\ Take(c, [Pool(c) EXCEPT !.idle = Append(@, caller[c].worker)])
  /\ Returns(c)
  /\ missed' = (missed \/ caller[c].worker.cfg < caller[c].least)
  /\ UNCHANGED <<registry, saver, spent, told, crossed>>

(* The worker is discarded, and a thread starts another. *)
DiscardedAlone(c) == UNCHANGED pools
DiscardedKept(c) ==
  Take(c, [Pool(c) EXCEPT !.relaunch = @ + 1, !.idle = Append(@, caller[c].worker)])
Discarded(c) == Take(c, [Pool(c) EXCEPT !.relaunch = @ + 1])

(* Its pipe is broken, or it is at its end. *)
Crashes(c) ==
  /\ At(c, "asked") /\ ~caller[c].worker.up
  /\ Discarded(c) /\ Returns(c)
  /\ UNCHANGED <<registry, saver, spent, histories>>

(* It dies or hangs past the deadline, or its reply is too long, no JSON or another's:
   it is killed. *)
Misbehaves(c) ==
  /\ At(c, "asked") /\ caller[c].worker.up
  /\ Discarded(c) /\ Returns(c) /\ Fault
  /\ UNCHANGED <<registry, saver, histories>>

(***************************************************************************)
(* The subprocesses.                                                       *)
(***************************************************************************)
WantedAnyway(p) == TRUE
Wanted(p) == ~p.closed
Relaunch(i) ==
  /\ pools[i].relaunch > 0
  /\ LET p == [pools[i] EXCEPT !.relaunch = @ - 1] IN
       \/ ~Wanted(p) /\ pools' = [pools EXCEPT ![i] = p]
       \/ /\ Wanted(p)
          /\ pools' = [pools EXCEPT ![i] = [p EXCEPT !.fresh = Append(@, Worker(p))]]
       \/ Wanted(p) /\ pools' = [pools EXCEPT ![i] = [p EXCEPT !.short = TRUE]]
  /\ UNCHANGED <<registry, caller, saver, spent, histories>>

PutFresh(i) ==
  /\ pools[i].fresh # <<>>
  /\ pools' = [pools EXCEPT ![i].idle = Append(@, Head(pools[i].fresh)), ![i].fresh = Tail(@)]
  /\ UNCHANGED <<registry, caller, saver, spent, histories>>

Dies(i) ==
  /\ \E k \in DOMAIN pools[i].idle :
       pools[i].idle[k].up /\ pools' = [pools EXCEPT ![i].idle[k].up = FALSE]
  /\ Fault
  /\ UNCHANGED <<registry, caller, saver, histories>>

(***************************************************************************)
(* The settings page: a save, of another configuration or not, and then    *)
(* invalidate().                                                           *)
(***************************************************************************)
Overlap == [c \in Callers |-> IF caller[c].at \in {"record", "revision", "has"}
                               THEN [caller[c] EXCEPT !.alone = FALSE] ELSE caller[c]]

Save(s) ==
  /\ saver[s].at = "idle" /\ spent.saves < MaxSaves
  /\ saved' \in {saved, saved + 1}
  /\ saver' = [saver EXCEPT ![s] = [at |-> "saved", pool |-> 0, cfg |-> saved']]
  /\ caller' = Overlap
  /\ spent' = [spent EXCEPT !.saves = @ + 1]
  /\ UNCHANGED <<instance, managed, pools, histories>>

PopNothing(s) ==
  /\ saver[s].at = "saved"
  /\ saver' = [saver EXCEPT ![s].at = "popped"]
  /\ UNCHANGED <<registry, pools, caller, spent, histories>>
PopInstance(s) ==
  /\ saver[s].at = "saved"
  /\ instance' = None
  /\ saver' = [saver EXCEPT ![s].at = "popped"]
  /\ UNCHANGED <<saved, managed, pools, caller, spent, histories>>

Done(s) == /\ saver' = [saver EXCEPT ![s] = [at |-> "idle", pool |-> 0, cfg |-> 0]]
           /\ told' = IF saver[s].cfg > told THEN saver[s].cfg ELSE told

RemovePool(s) ==
  /\ saver[s].at = "popped"
  /\ managed' = 0
  /\ IF managed = 0 THEN Done(s)
     ELSE saver' = [saver EXCEPT ![s].at = "closes", ![s].pool = managed] /\ UNCHANGED told
  /\ UNCHANGED <<saved, instance, pools, caller, spent, crossed, missed>>

ClosePool(s) ==
  /\ saver[s].at = "closes"
  /\ LET i == saver[s].pool IN
       /\ pools' = [pools EXCEPT ![i] = [NewPool(0, 0) EXCEPT !.closed = TRUE,
                                           !.idle = <<>>, !.relaunch = pools[i].relaunch]]
       /\ caller' = [c \in Callers |->
            IF At(c, "asked") /\ caller[c].pool = i
            THEN [caller[c] EXCEPT !.worker.up = FALSE] ELSE caller[c]]
  /\ Done(s)
  /\ UNCHANGED <<registry, spent, crossed, missed>>

(***************************************************************************)
(* The specification.                                                      *)
(***************************************************************************)
Calls(c) == \/ ReadRecord(c) \/ ReadRevision(c) \/ GetInstance(c) \/ Enter(c) \/ Checkout(c)
            \/ Answered(c) \/ Crashes(c) \/ Misbehaves(c)
Saves(s) == Save(s) \/ PopInstance(s) \/ RemovePool(s) \/ ClosePool(s)
PoolSteps(i) == Relaunch(i) \/ PutFresh(i) \/ Dies(i)

Next == \/ \E c \in Callers : Calls(c)
        \/ \E s \in Savers : Saves(s)
        \/ \E i \in DOMAIN pools : PoolSteps(i)

(* A worker answers within the deadline or is killed; a queue hands a worker to
   the thread that has waited longest. *)
Fairness ==
  /\ \A c \in Callers :
       /\ WF_vars(ReadRevision(c)) /\ WF_vars(GetInstance(c)) /\ WF_vars(Enter(c))
       /\ SF_vars(Checkout(c)) /\ WF_vars(Answered(c)) /\ WF_vars(Crashes(c))
  /\ \A i \in 1..MaxSaves + 1 :
       WF_vars(i \in DOMAIN pools /\ Relaunch(i)) /\ WF_vars(i \in DOMAIN pools /\ PutFresh(i))
  /\ \A s \in Savers :
       WF_vars(PopInstance(s)) /\ WF_vars(RemovePool(s)) /\ WF_vars(ClosePool(s))

Spec == Init /\ [][Next]_vars /\ Fairness

(***************************************************************************)
(* Properties.                                                             *)
(***************************************************************************)
Workers == [cfg : Nat, rev : Nat, up : BOOLEAN]
Pools   == [cfg : Nat, rev : Nat, closed : BOOLEAN, relaunch : Nat, fresh : Seq(Workers),
            short : BOOLEAN, idle : Seq(Workers)]
Looking == {"record", "revision"}
InPool  == {"has", "waits", "asked"}
Caller  == [at : {"idle"} \cup Looking \cup InPool, cfg : Nat, rev : Nat, pool : Nat,
            worker : Workers \cup {None}, least : Nat, alone : BOOLEAN]
Saver   == [at : {"idle", "saved", "popped", "closes"}, pool : Nat, cfg : Nat]

PoolsOK ==
  /\ pools \in Seq(Pools) /\ managed \in {0} \cup DOMAIN pools
  /\ instance \in [rev : Nat, pool : DOMAIN pools] \cup {None}
CallersOK ==
  /\ caller \in [Callers -> Caller]
  /\ \A c \in Callers : /\ caller[c].at \in InPool => caller[c].pool \in DOMAIN pools
                        /\ caller[c].at = "asked" => caller[c].worker \in Workers
SaversOK ==
  /\ saver \in [Savers -> Saver]
  /\ \A s \in Savers : saver[s].at = "closes" => saver[s].pool \in DOMAIN pools

(* Every variable has its type (_instances, the pools with their queues, and
   the calls). *)
TypeOK ==
  /\ PoolsOK /\ CallersOK /\ SaversOK
  /\ saved \in Nat /\ told \in Nat /\ {crossed, missed} \subseteq BOOLEAN
  /\ spent \in [saves : Nat, faults : Nat]

BusyIn(i) == {c \in Callers : At(c, "asked") /\ caller[c].pool = i}

(* A pool never has more processes than its size, the ones that a thread is
   about to start included, and as many as that unless one could not be
   started (Pool: "this never spawns a worker beyond workers"). *)
WorkersBound ==
  \A i \in DOMAIN pools : ~pools[i].closed =>
    LET n == Len(pools[i].idle) + Len(pools[i].fresh) + Cardinality(BusyIn(i))
             + pools[i].relaunch
    IN n <= Size /\ (n = Size \/ pools[i].short)

(* No process of a closed pool is left running: not one that was busy, not
   one that was being started (_spawn_replacement_async, close). *)
ClosedIsDead ==
  \A i \in DOMAIN pools : pools[i].closed =>
    /\ \A c \in BusyIn(i) : ~caller[c].worker.up
    /\ \A k \in DOMAIN pools[i].idle : ~pools[i].idle[k].up
    /\ pools[i].fresh = <<>>

(* A call is answered under a configuration at least as new as the last whose
   save had returned when it began, and finds a pool that is open, unless a
   lookup crossed a save (_get_instance, invalidate). *)
CallsFollowSaves == missed => crossed

(* A caller that waits for a worker gets one or an error, unless the pool is
   closed while it waits, or has lost a worker it could not replace.  The
   callers are alike: it is stated of one. *)
One == CHOOSE c \in Callers : TRUE
CallersReturn ==
  At(One, "waits") ~> (~At(One, "waits") \/ Pool(One).closed \/ Pool(One).short)

(* A save is picked up on the next call, "rather than needing an explicit
   restart" (gateway.py, instance cache). *)
NextCallFollows == ~missed
=============================================================================
