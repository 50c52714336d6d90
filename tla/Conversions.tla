---------------------------- MODULE Conversions ----------------------------
(***************************************************************************)
(* The audio conversions of transcode.py: the ffmpeg processes inside the  *)
(* container, the registry of them in the server, the threads that begin   *)
(* and stop them, and the regulators that suspend and resume them.         *)
(*                                                                         *)
(* Every step of a thread on the container is a command of its own, so     *)
(* that all of it interleaves but what _tc_lock holds together.  What a    *)
(* thread has still to do is a sequence of steps, and a step may put more  *)
(* steps before the rest: a stop of three conversions is three kills.      *)
(*                                                                         *)
(* A client (the Popen, a docker-exec) and its process live apart: the     *)
(* process is visible in the container some time after the client starts,  *)
(* a client may be lost while its process runs on, and the end of the      *)
(* process ends the client.  One play starts at most one conversion, the   *)
(* play's number is its name here, and a title is the name of its output.  *)
(*                                                                         *)
(* Left out: the arithmetic of the lead and of the head (a regulator may   *)
(* suspend or resume at any time), the log files, several files of one     *)
(* torrent, the browser's conversions (see Packager), and a container that *)
(* does not answer, but for ConvSpecStalls.                                *)
(***************************************************************************)
EXTENDS Integers, Sequences, FiniteSets, FiniteSetsExt

CONSTANTS
  Titles,
  Nil,
  MaxTranscodes, \* MAX_TRANSCODES
  MaxClaims, MaxStops, MaxRestarts \* bounds

ASSUME NumbersAssumption ==
  MaxTranscodes \in Nat \ {0} /\ MaxClaims \in Nat /\ MaxStops \in Nat /\ MaxRestarts \in Nat
ASSUME NilAssumption == Nil \notin Titles /\ Nil \notin [pid : Nat, held : BOOLEAN]

VARIABLES
  title,        \* of each play, what it plays; Nil before it is made
  gen,          \* the play that owns the TV, 0 for none
  state,        \* of each play's process: "none", "booting", "running", "held" or "gone"
  doomed,       \* the suspended processes that have a TERM coming
  clients,      \* the plays whose client is alive
  registry,     \* _transcodes, in order of entry
  lock,         \* the play that holds _tc_lock over several steps, or 0
  files,        \* the titles whose output exists
  todo,         \* the steps each thread has before it
  regulator,    \* of each play: what regulate_lead() holds to, or Nil
  stops, restarts, \* bounds
  own,          \* the plays this run of the server started
  due           \* history: what ran when the latest stop of everything began

processes == <<state, doomed, clients>>
server == <<registry, lock, regulator>>
plays == <<title, gen, own>>
bounds == <<stops, restarts>>
convVars == <<plays, processes, server, files, todo, bounds, due>>

Plays   == 1..MaxClaims
Stopper == 0               \* the thread of whoever stops everything
Threads == 0..MaxClaims

Held == {p \in Plays : state[p] = "held"}
Visible == {p \in Plays : state[p] = "running"} \cup Held
Writers(k) == {p \in Visible : title[p] = k}
(* _ctr_pid(): the oldest of the processes with that output, if any. *)
CtrPid(k) == IF Writers(k) = {} THEN 0 ELSE Min(Writers(k))

Entries == {registry[i] : i \in 1..Len(registry)}
Names   == {title[p] : p \in Entries}
Entry(k) == IF \E p \in Entries : title[p] = k
            THEN CHOOSE p \in Entries : title[p] = k ELSE 0
(* A finite set of numbers in its order. *)
Sorted(S) == CHOOSE e \in [1..Cardinality(S) -> S] :
  \A i, j \in 1..Cardinality(S) : i < j => e[i] < e[j]
Without(ps) == LET kept == Sorted({i \in 1..Len(registry) : registry[i] \notin ps})
               IN [i \in DOMAIN kept |-> registry[kept[i]]]

ConvInit ==
  /\ title = [p \in Plays |-> Nil] /\ gen = 0 /\ own = {}
  /\ state = [p \in Plays |-> "none"] /\ doomed = {} /\ clients = {}
  /\ registry = <<>> /\ lock = 0 /\ regulator = [p \in Plays |-> Nil]
  /\ files = {}
  /\ todo = [t \in Threads |-> <<>>]
  /\ stops = 0 /\ restarts = 0
  /\ due = {}

-----------------------------------------------------------------------------
(* The container. *)
Set(p, s) == state' = [state EXCEPT ![p] = s]
Die(p) == Set(p, "gone") /\ doomed' = doomed \ {p} /\ clients' = clients \ {p}
(* A CONT: a TERM that came while the process was suspended is heeded now. *)
Continue(p) ==
  IF p \in doomed THEN Die(p)
  ELSE IF p \in Held THEN Set(p, "running") /\ UNCHANGED <<doomed, clients>>
  ELSE UNCHANGED processes

Outside == <<plays, server, todo, bounds, due>>

(* ffmpeg opens its output (-y) when it gets to run. *)
Boot(p) ==
  /\ state[p] = "booting"
  /\ \/ Set(p, "running") /\ files' = files \cup {title[p]} /\ UNCHANGED <<doomed, clients>>
     \/ p \notin clients /\ Die(p) /\ UNCHANGED files
  /\ UNCHANGED Outside
(* It has converted the film, or has failed. *)
Exit(p) ==
  /\ state[p] = "running"
  /\ Die(p) /\ UNCHANGED <<files, Outside>>
LoseClient(p) ==
  /\ p \in clients /\ state[p] \in {"running", "held"}
  /\ clients' = clients \ {p}
  /\ UNCHANGED <<state, doomed, files, Outside>>

-----------------------------------------------------------------------------
(* The steps of threads. *)
Step(op, x) == [op |-> op, of |-> x]
At(t, op) == todo[t] # <<>> /\ Head(todo[t]).op = op
Of(t) == Head(todo[t]).of
Then(t, steps) == todo' = [todo EXCEPT ![t] = steps \o Tail(@)]
Done(t) == Then(t, <<>>)

KillPid(p) == <<Step("cont", p), Step("term", p), Step("wait", p)>>
KillCtr(k) == <<Step("find", k)>>
Stop(p) == KillCtr(title[p]) \o <<Step("client", p)>>
(* Those two for one play after another: two steps of each, and three of each. *)
StopEach(ps) == [i \in 1..(2 * Len(ps)) |-> Stop(ps[(i + 1) \div 2])[2 - (i % 2)]]
KillEach(ps) == [i \in 1..(3 * Len(ps)) |-> KillPid(ps[(i + 2) \div 3])[1 + ((i + 2) % 3)]]
(* transcode_stop_all(), tc_cleanup() and transcode_begin(). *)
StopAll == <<Step("pop", Nil), Step("known", Nil), Step("stopped", Nil), Step("list", Nil)>>
BeginSteps(k) ==
  <<Step("list", k)>> \o KillCtr(k) \o <<Step("unlink", k), Step("start", k), Step("head", k)>>

(* _kill_ctr(): whatever writes that output, and nothing if it is not visible.  The
   kill's CONT comes with it. *)
Find(t) ==
  /\ At(t, "find")
  /\ LET p == CtrPid(Of(t)) IN
     /\ Continue(p)
     /\ IF p = 0 THEN Done(t) ELSE Then(t, Tail(KillPid(p)))
  /\ UNCHANGED <<plays, server, files, bounds, due>>
(* _kill_pid(): CONT; TERM, which a suspended process keeps for later; up to two
   seconds of looking whether it is gone; KILL. *)
Cont(t) ==
  /\ At(t, "cont")
  /\ Continue(Of(t)) /\ Done(t)
  /\ UNCHANGED <<plays, server, files, bounds, due>>
Term(t) ==
  /\ At(t, "term")
  /\ IF Of(t) \in Visible \ Held THEN Die(Of(t))
     ELSE doomed' = doomed \cup ({Of(t)} \cap Held) /\ UNCHANGED <<state, clients>>
  /\ Done(t)
  /\ UNCHANGED <<plays, server, files, bounds, due>>
Wait(t) ==
  /\ At(t, "wait")
  /\ IF Of(t) \in Visible THEN Die(Of(t)) ELSE UNCHANGED processes
  /\ Done(t)
  /\ UNCHANGED <<plays, server, files, bounds, due>>
KillClient(t) ==
  /\ At(t, "client")
  /\ clients' = clients \ {Of(t)} /\ Done(t)
  /\ UNCHANGED <<plays, state, doomed, server, files, bounds, due>>

(* transcode_stop_all(): everything leaves the registry at once, is stopped after. *)
Pop(t) ==
  /\ At(t, "pop") /\ lock = 0
  /\ registry' = <<>>
  /\ Then(t, StopEach(registry))
  /\ due' = IF t = Stopper THEN Visible ELSE due
  /\ UNCHANGED <<plays, processes, lock, regulator, files, bounds>>
(* _kill_orphans(): the names the registry knows, then what the container runs. *)
Known(t) ==
  /\ At(t, "known") /\ lock = 0
  /\ Then(t, <<Step("orphans", Names)>>)
  /\ UNCHANGED <<plays, processes, server, files, bounds, due>>
(* Mutant: what is not in the registry is left alone. *)
OrphansLeft(names) == {}
Orphans(names) == {p \in Visible : title[p] \notin names}
KillOrphans(t) ==
  /\ At(t, "orphans")
  /\ Then(t, KillEach(Sorted(Orphans(Of(t)))))
  /\ UNCHANGED <<plays, processes, server, files, bounds, due>>
Stopped(t) ==
  /\ At(t, "stopped")
  /\ due' = IF t = Stopper THEN {} ELSE due
  /\ Done(t)
  /\ UNCHANGED <<plays, processes, server, files, bounds>>

(* tc_cleanup(): the outputs nobody is busy with are listed, then removed. *)
List(t) ==
  /\ At(t, "list") /\ lock = 0
  /\ Then(t, <<Step("remove", files \ (Names \cup {Of(t)}))>>)
  /\ UNCHANGED <<plays, processes, server, files, bounds, due>>
RemoveListed(t) ==
  /\ At(t, "remove")
  /\ files' = files \ Of(t) /\ Done(t)
  /\ UNCHANGED <<plays, processes, server, bounds, due>>
Unlink(t) ==
  /\ At(t, "unlink")
  /\ files' = files \ {Of(t)} /\ Done(t)
  /\ UNCHANGED <<plays, processes, server, bounds, due>>

(* transcode_start(): under _tc_lock, the entry of the same title and those whose
   client has exited go, and the oldest make room; the kills are under it too. *)
Start(t) ==
  /\ At(t, "start") /\ lock = 0
  /\ lock' = t
  /\ registry' = Without({p \in Plays : title[p] = Of(t) \/ p \notin clients})
  /\ Then(t, <<Step("evict", Entry(Of(t)))>>)
  /\ UNCHANGED <<plays, processes, regulator, files, bounds, due>>
Full == Len(registry) >= MaxTranscodes
Evict(t) ==
  /\ At(t, "evict") /\ Full
  /\ registry' = Tail(registry)
  /\ Then(t, Stop(Head(registry)) \o <<Head(todo[t])>>)
  /\ UNCHANGED <<plays, processes, lock, regulator, files, bounds, due>>
(* The client starts and is registered; the entry it replaces is stopped after. *)
Launch(t) ==
  /\ At(t, "evict") /\ ~Full
  /\ Set(t, "booting") /\ clients' = clients \cup {t}
  /\ registry' = Append(registry, t) /\ lock' = 0
  /\ Then(t, IF Of(t) = 0 THEN <<>> ELSE Stop(Of(t)))
  /\ due' = {p \in due : title[p] # title[t]}
  /\ UNCHANGED <<plays, doomed, regulator, files, bounds>>

(* transcode_begin()'s wait.  A head in the file, or half of one when the time is
   up, starts the regulator and the film. *)
Superseded(t) ==
  /\ At(t, "head") /\ gen # t
  /\ Then(t, Stop(t))
  /\ UNCHANGED <<plays, processes, server, files, bounds, due>>
Fresh == [pid |-> 0, held |-> FALSE]
Ready(t) ==
  /\ At(t, "head") /\ gen = t /\ title[t] \in files
  /\ regulator' = [regulator EXCEPT ![t] = Fresh] /\ Done(t)
  /\ UNCHANGED <<plays, processes, registry, lock, files, bounds, due>>
Finished(t) ==
  /\ At(t, "head") /\ gen = t /\ t \notin clients
  /\ Done(t)
  /\ UNCHANGED <<plays, processes, server, files, bounds, due>>
(* Mutant: it stops its own, whichever entry it has taken out. *)
GiveUpOwn(t) ==
  /\ At(t, "head") /\ gen = t /\ t \in clients /\ lock = 0
  /\ registry' = Without({Entry(title[t])})
  /\ Then(t, Stop(t))
  /\ UNCHANGED <<plays, processes, lock, regulator, files, bounds, due>>
GiveUp(t) ==
  /\ At(t, "head") /\ gen = t /\ t \in clients /\ lock = 0
  /\ LET e == Entry(title[t]) IN
     /\ registry' = Without({e})
     /\ Then(t, Stop(IF e = 0 THEN t ELSE e))
  /\ UNCHANGED <<plays, processes, lock, regulator, files, bounds, due>>

-----------------------------------------------------------------------------
(* regulate_lead(), a thread of its own, two seconds between its looks. *)
Regulates(p) == regulator[p] # Nil /\ regulator[p].pid # 0
Note(p, h) == regulator' = [regulator EXCEPT ![p].held = h]
Inside == <<plays, registry, lock, files, todo, bounds, due>>

RegulatorStarts(p) ==
  /\ regulator[p] = Fresh
  /\ regulator' = [regulator EXCEPT ![p] =
       IF Writers(title[p]) = {} THEN Nil ELSE [Fresh EXCEPT !.pid = CtrPid(title[p])]]
  /\ UNCHANGED <<processes, Inside>>
(* A STOP, and the note of it; or a STOP that takes effect and then times out, which
   ends the regulator before it notes anything. *)
SendStop(p) ==
  /\ Regulates(p) /\ p \in clients /\ ~regulator[p].held
  /\ state' = IF state[regulator[p].pid] = "running"
              THEN [state EXCEPT ![regulator[p].pid] = "held"] ELSE state
  /\ UNCHANGED <<doomed, clients, Inside>>
Suspend(p) == SendStop(p) /\ Note(p, TRUE)
SuspendStalls(p) == SendStop(p) /\ regulator' = [regulator EXCEPT ![p] = Nil]
Resume(p) ==
  /\ Regulates(p) /\ p \in clients /\ regulator[p].held
  /\ Continue(regulator[p].pid) /\ Note(p, FALSE)
  /\ UNCHANGED Inside
(* What the process table says goes before what was remembered. *)
Resync(p) ==
  /\ Regulates(p) /\ p \in clients /\ regulator[p].pid \in Visible
  /\ Note(p, regulator[p].pid \in Held)
  /\ UNCHANGED <<processes, Inside>>
(* Mutant: a regulator that ends leaves the process as it is. *)
ResumeNot(p) == UNCHANGED processes
ResumeHeld(p) == IF regulator[p].held THEN Continue(regulator[p].pid) ELSE UNCHANGED processes
(* The client has exited, or a command failed; transcode_end() in the first case. *)
RegulatorEnds(p) ==
  /\ Regulates(p) /\ lock = 0
  /\ ResumeHeld(p)
  /\ regulator' = [regulator EXCEPT ![p] = Nil]
  /\ IF p \in Entries \ clients
     THEN registry' = Without({p}) /\ todo' = [todo EXCEPT ![p] = @ \o Stop(p)]
     ELSE UNCHANGED <<registry, todo>>
  /\ UNCHANGED <<plays, lock, files, bounds, due>>

-----------------------------------------------------------------------------
(* A play claims the TV; much later its worker, if the TV is still its own, commits
   to a source: everything is stopped, and a source with the wrong sound converted. *)
Claim(p) == \E k \in Titles :
  /\ title[p] = Nil /\ \A q \in 1..(p - 1) : title[q] # Nil
  /\ title' = [title EXCEPT ![p] = k] /\ gen' = p /\ own' = own \cup {p}
  /\ todo' = [todo EXCEPT ![p] = <<Step("commit", k)>>]
  /\ UNCHANGED <<processes, server, files, bounds, due>>
Commit(p) ==
  /\ At(p, "commit")
  /\ IF gen # p THEN Done(p)
     ELSE Then(p, StopAll \o BeginSteps(Of(p))) \/ Then(p, StopAll)
  /\ UNCHANGED <<plays, processes, server, files, bounds, due>>

(* A stop, which claims the TV; or the end of playback and a launch that failed,
   which do not, and come when the newest play's worker is through. *)
StopEverything ==
  /\ todo[Stopper] = <<>> /\ stops < MaxStops
  /\ stops' = stops + 1
  /\ gen' = 0 \/ (gen # 0 /\ todo[gen] = <<>> /\ UNCHANGED gen)
  /\ todo' = [todo EXCEPT ![Stopper] = StopAll]
  /\ UNCHANGED <<title, own, processes, server, files, restarts, due>>

(* Clients and threads go down with the server, which begins by a stop.  A restart
   takes longer than a process that is to come does. *)
Restart ==
  /\ restarts < MaxRestarts
  /\ \A p \in Plays : state[p] # "booting"
  /\ restarts' = restarts + 1
  /\ gen' = 0 /\ own' = {} /\ clients' = {}
  /\ registry' = <<>> /\ lock' = 0 /\ regulator' = [p \in Plays |-> Nil]
  /\ todo' = [t \in Threads |-> IF t = Stopper THEN StopAll ELSE <<>>]
  /\ due' = {}
  /\ UNCHANGED <<title, state, doomed, files, stops>>

-----------------------------------------------------------------------------
Container(p) == Boot(p) \/ Exit(p) \/ LoseClient(p)
Killing(t) == Find(t) \/ Cont(t) \/ Term(t) \/ Wait(t) \/ KillClient(t)
Stopping(t) == Pop(t) \/ Known(t) \/ KillOrphans(t) \/ Stopped(t) \/ List(t) \/ RemoveListed(t)
Beginning(t) == Commit(t) \/ Unlink(t) \/ Start(t) \/ Evict(t) \/ Launch(t)
Heading(t) == Superseded(t) \/ Ready(t) \/ Finished(t) \/ GiveUp(t)
Regulating(p) ==
  RegulatorStarts(p) \/ Suspend(p) \/ Resume(p) \/ Resync(p) \/ RegulatorEnds(p)

ConvNext ==
  \/ \E p \in Plays : Claim(p) \/ Container(p) \/ Regulating(p) \/ Beginning(p) \/ Heading(p)
  \/ \E t \in Threads : Killing(t) \/ Stopping(t)
  \/ StopEverything \/ Restart

ConvSpec == ConvInit /\ [][ConvNext]_convVars
(* The same where a docker command may stall. *)
ConvSpecStalls == ConvInit /\ [][ConvNext \/ \E p \in Plays : SuspendStalls(p)]_convVars

-----------------------------------------------------------------------------
Made == {p \in Plays : title[p] # Nil}
Steps ==
  [op : {"find", "unlink", "start", "head", "commit"}, of : Titles]
  \cup [op : {"cont", "term", "wait", "client"}, of : Plays]
  \cup [op : {"orphans", "remove"}, of : SUBSET Titles]
  \cup [op : {"list"}, of : Titles \cup {Nil}]
  \cup [op : {"evict"}, of : {0} \cup Made]
  \cup [op : {"pop", "known", "stopped"}, of : {Nil}]
ConvTypeOK ==
  /\ title \in [Plays -> Titles \cup {Nil}] /\ gen \in Threads /\ own \subseteq Plays
  /\ state \in [Plays -> {"none", "booting", "running", "held", "gone"}]
  /\ doomed \subseteq Held /\ clients \subseteq Plays
  /\ registry \in Seq(Plays) /\ Len(registry) <= MaxTranscodes /\ lock \in Threads
  /\ files \subseteq Titles
  /\ todo \in [Threads -> Seq(Steps)]
  /\ regulator \in [Plays -> [pid : Threads, held : BOOLEAN] \cup {Nil}]
  /\ stops \in 0..MaxStops /\ restarts \in 0..MaxRestarts
  /\ due \subseteq Plays

(* A stop of everything stops everything: of what ran in the container when it
   emptied the registry, nothing runs when it is through, a suspended process and
   one that an earlier server started included. *)
StopAllStops == At(Stopper, "stopped") => due \cap Visible = {}

(* No conversion of this server is suspended but by a regulator that is there to
   resume it, or to resume it when it ends. *)
HeldIsReleased == \A p \in own : state[p] = "held" =>
  \E q \in Plays : regulator[q] # Nil /\ regulator[q].pid = p /\ regulator[q].held

(* What the registry lets go of is stopped: a client that is alive and not in it has
   its stop before some thread, whichever of the six paths took its entry out
   (transcode_stop_all, transcode_start, transcode_end, the end of transcode_begin). *)
StopAhead(t, p) == \E i \in 1..Len(todo[t]) : todo[t][i] \in {Step("client", p), Step("evict", p)}
LetGoIsStopped == \A p \in clients \ Entries : \E t \in Threads : StopAhead(t, p)
=============================================================================
