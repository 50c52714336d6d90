------------------------------ MODULE Registry ------------------------------
(***************************************************************************)
(* The installed set of providers, as one package sees it: its record in   *)
(* providers.json, the pointer of one role, its credentials in             *)
(* secrets.json and its files (registry.py, store.py; update_provider and  *)
(* record_test of gateway.py), under the requests of the admin page, each  *)
(* in a thread of its own, and crashes.                                    *)
(*                                                                         *)
(* write_json() is atomic, and so is a request that holds the lock and     *)
(* writes one file.  The trees are providers/<id>, <id>.incoming and       *)
(* <id>.previous: a version, no tree, or a torn one.  A configuration is   *)
(* one plain field and one secret, each the number of the edit that wrote  *)
(* it, 0 for none.  An add-on has no files: its install is the last step.  *)
(***************************************************************************)
EXTENDS Integers, FiniteSets

CONSTANTS
  Threads,
  Versions,     \* of the package; 1 declares the role
  MaxOps,       \* requests in all
  MaxFaults,    \* copies and renames that fail, packages that are refused
  MaxCrashes,
  None

ASSUME VersionsAssumption == Versions \subseteq Nat \ {0}
ASSUME BoundsAssumption == {MaxOps, MaxFaults, MaxCrashes} \subseteq Nat

Edit    == 0..MaxOps     \* the number of the edit a field is from
Tests   == [plain : Edit, secret : Edit, late : BOOLEAN]
Records == [ver : Versions, on : BOOLEAN, plain : Edit, test : Tests \cup {None}]

ASSUME NoneAssumption == None \notin Threads \cup Records \cup Tests

VARIABLES
  disk,         \* the three trees
  record,       \* installed[pid]: version, enabled, plain field and test; or None
  secret,       \* the provider's entry of secrets.json
  active,       \* the pointer of the role names the provider
  lock,         \* registry._lock: its holder, or None
  thread,       \* what each request does
  spent,        \* bounds
  want,         \* history: the edits whose save has returned
  crossed,      \* history: two requests on the files or the credentials overlapped
  crashed,      \* history: a crash or a write that failed fell between two writes of a request,
                \* and no install has followed
  puzzled       \* history: a swap failed and nothing had gone wrong

vars == <<disk, record, secret, active, lock, thread, spent, want, crossed, crashed, puzzled>>
entry == <<record, secret, active>>
histories == <<want, crossed, crashed, puzzled>>

Torn == 0
NoTree == -1
Trees == Versions \cup {Torn, NoTree}
HasRole(v) == v = 1

Resting == [op |-> "none", at |-> "idle", ver |-> 0, had |-> FALSE, fields |-> {}, val |-> 0,
            plain |-> 0, secret |-> 0, clean |-> TRUE]

Init ==
  /\ disk = [dest |-> NoTree, incoming |-> NoTree, previous |-> NoTree]
  /\ record = None /\ secret = 0 /\ active = FALSE /\ lock = None
  /\ thread = [t \in Threads |-> Resting]
  /\ spent = [ops |-> 0, faults |-> 0, crashes |-> 0]
  /\ want = [plain |-> 0, secret |-> 0]
  /\ crossed = FALSE /\ crashed = FALSE /\ puzzled = FALSE

Fault == /\ spent.faults < MaxFaults
         /\ spent' = [spent EXCEPT !.faults = @ + 1]

At(t, where) == thread[t].at = where
Goes(t, where) == thread' = [thread EXCEPT ![t].at = where]
Ends(t) == thread' = [thread EXCEPT ![t] = Resting]
Free == lock = None

(* A request begins.  Two overlap badly when both are about the files, or one
   removes the provider that the other configures. *)
Clash(a, b) == \/ {a, b} \subseteq {"install", "update", "remove"}
               \/ {a, b} = {"remove", "config"}
Clashing(t, op) == {u \in Threads \ {t} : Clash(op, thread[u].op)}

Count == /\ spent.ops < MaxOps
         /\ spent' = [spent EXCEPT !.ops = @ + 1]
Begins(t, new) ==
  /\ At(t, "idle") /\ Count
  /\ LET us == Clashing(t, new.op) IN
       /\ thread' = [u \in Threads |->
            IF u = t THEN [new EXCEPT !.clean = us = {}]
            ELSE IF u \in us THEN [thread[u] EXCEPT !.clean = FALSE] ELSE thread[u]]
       /\ crossed' = (crossed \/ us # {})
AtOnce(t) == At(t, "idle") /\ Count /\ UNCHANGED thread

(***************************************************************************)
(* install() and update_provider(): swap_in_files(), then the record.  An  *)
(* update holds the lock all along, an install takes it for the record.    *)
(***************************************************************************)
Install(t, v) ==
  /\ Begins(t, [Resting EXCEPT !.op = "install", !.at = "clean", !.ver = v])
  /\ UNCHANGED <<disk, entry, lock, want, crashed, puzzled>>

Update(t, v) ==
  /\ Free
  /\ IF record = None
     THEN AtOnce(t) /\ UNCHANGED <<lock, crossed>>
     ELSE /\ Begins(t, [Resting EXCEPT !.op = "update", !.at = "clean", !.ver = v])
          /\ lock' = t
  /\ UNCHANGED <<disk, entry, want, crashed, puzzled>>

Unlock(t) == lock' = IF lock = t THEN None ELSE lock
Moves(t, where) == Goes(t, where) /\ UNCHANGED <<entry, lock, want, crossed, crashed>>
(* The request raises.  Nothing but a fault or another request explains it. *)
Raises(t) ==
  /\ Ends(t) /\ Unlock(t)
  /\ UNCHANGED <<entry, want, crossed, crashed>>
Puzzled == puzzled' = (puzzled \/ ~crossed)

LeaveLeftovers(t) ==
  /\ At(t, "clean")
  /\ Moves(t, "copy")
  /\ UNCHANGED <<disk, spent, puzzled>>
ClearLeftovers(t) ==
  /\ At(t, "clean")
  /\ disk' = [disk EXCEPT !.incoming = NoTree, !.previous = NoTree]
  /\ Moves(t, "copy")
  /\ UNCHANGED <<spent, puzzled>>

BeginCopy(t) ==
  /\ At(t, "copy")
  /\ IF disk.incoming # NoTree
     THEN Raises(t) /\ Puzzled /\ UNCHANGED <<disk, spent>>
     ELSE /\ disk' = [disk EXCEPT !.incoming = Torn]
          /\ Moves(t, "copying")
          /\ UNCHANGED <<spent, puzzled>>

(* A copy over another's, or one that another has cleared under it, is torn or
   fails; so does one that meets a full disk. *)
EndCopy(t) ==
  /\ At(t, "copying")
  /\ \/ /\ disk.incoming # NoTree
        /\ disk' = [disk EXCEPT !.incoming = IF @ = Torn THEN thread[t].ver ELSE Torn]
        /\ Moves(t, "check")
        /\ UNCHANGED <<spent, puzzled>>
     \/ disk.incoming = NoTree /\ Raises(t) /\ Puzzled /\ UNCHANGED <<disk, spent>>
     \/ disk.incoming # NoTree /\ Raises(t) /\ Fault /\ UNCHANGED <<disk, puzzled>>

(* The copy has its entry file, or is refused. *)
CheckCopy(t) ==
  /\ At(t, "check")
  /\ \/ disk.incoming # NoTree /\ Moves(t, "aside") /\ UNCHANGED <<disk, spent, puzzled>>
     \/ disk.incoming = NoTree /\ Raises(t) /\ Puzzled /\ UNCHANGED <<disk, spent>>
     \/ /\ disk' = [disk EXCEPT !.incoming = NoTree]
        /\ Raises(t) /\ Fault /\ UNCHANGED puzzled

(* os.replace() does not replace a tree that is there; and it may fail. *)
Aside(t) ==
  /\ At(t, "aside")
  /\ \/ /\ disk.dest # NoTree /\ disk.previous # NoTree
        /\ Raises(t) /\ Puzzled /\ UNCHANGED <<disk, spent>>
     \/ /\ disk.dest = NoTree \/ disk.previous = NoTree
        /\ disk' = IF disk.dest = NoTree THEN disk
                   ELSE [disk EXCEPT !.previous = disk.dest, !.dest = NoTree]
        /\ thread' = [thread EXCEPT ![t].at = "in", ![t].had = disk.dest # NoTree]
        /\ UNCHANGED <<entry, lock, want, crossed, crashed, puzzled, spent>>
     \/ /\ disk.dest # NoTree /\ disk.previous = NoTree
        /\ Raises(t) /\ Fault /\ UNCHANGED <<disk, puzzled>>

NotRestored(had) == [disk EXCEPT !.incoming = NoTree]
Restored(had) ==
  IF ~had THEN [disk EXCEPT !.incoming = NoTree]
  ELSE IF disk.previous # NoTree /\ disk.dest = NoTree
  THEN [disk EXCEPT !.dest = disk.previous, !.previous = NoTree, !.incoming = NoTree]
  ELSE disk
SwapIn(t) ==
  /\ At(t, "in")
  /\ \/ /\ disk.incoming # NoTree /\ disk.dest = NoTree
        /\ disk' = [disk EXCEPT !.dest = disk.incoming, !.incoming = NoTree]
        /\ Moves(t, "drop")
        /\ UNCHANGED <<spent, puzzled>>
     \/ /\ disk.incoming = NoTree \/ disk.dest # NoTree
        /\ disk' = Restored(thread[t].had)
        /\ Raises(t) /\ Puzzled /\ UNCHANGED spent
     \/ /\ disk.incoming # NoTree /\ disk.dest = NoTree
        /\ disk' = Restored(thread[t].had)
        /\ Raises(t) /\ Fault /\ UNCHANGED puzzled

DropPrevious(t) ==
  /\ At(t, "drop")
  /\ disk' = [disk EXCEPT !.previous = NoTree]
  /\ Moves(t, "record")
  /\ UNCHANGED <<spent, puzzled>>

Installed(v) == [ver |-> v, on |-> TRUE, plain |-> 0, test |-> None]
SaveInstall(t) ==
  /\ At(t, "record") /\ thread[t].op = "install" /\ Free
  /\ record' = Installed(thread[t].ver)
  /\ want' = [plain |-> 0, secret |-> secret]      \* what secrets.json has is used again
  /\ crossed' = (crossed /\ ~thread[t].clean) /\ crashed' = (crashed /\ ~thread[t].clean)
  /\ Ends(t)
  /\ UNCHANGED <<disk, secret, active, lock, spent, puzzled>>

SaveUpdate(t) ==
  /\ At(t, "record") /\ thread[t].op = "update"
  /\ record' = [record EXCEPT !.ver = thread[t].ver]
  /\ Ends(t) /\ Unlock(t)
  /\ UNCHANGED <<disk, secret, active, spent, histories>>

(***************************************************************************)
(* remove(): the record and the pointer, then the credentials, then the    *)
(* files.                                                                  *)
(***************************************************************************)
RemoveRecord(t) ==
  /\ Free
  /\ IF record = None
     THEN AtOnce(t) /\ UNCHANGED <<record, active, want, crossed>>
     ELSE /\ Begins(t, [Resting EXCEPT !.op = "remove", !.at = "secrets"])
          /\ record' = None /\ active' = FALSE
          /\ want' = [plain |-> 0, secret |-> 0]
  /\ UNCHANGED <<disk, secret, lock, crashed, puzzled>>

DropSecrets(t) ==
  /\ At(t, "secrets")
  /\ secret' = 0
  /\ Goes(t, "files")
  /\ UNCHANGED <<disk, record, active, lock, spent, histories>>

RemoveFiles(t) ==
  /\ At(t, "files")
  /\ disk' = [disk EXCEPT !.dest = NoTree]
  /\ Ends(t)
  /\ UNCHANGED <<entry, lock, spent, histories>>

(***************************************************************************)
(* set_config(): what was saved is read, the edit is merged into it, the   *)
(* credentials are written, then the record.  0 clears a field.            *)
(***************************************************************************)
Edits == {[fields |-> {"plain"}, clears |-> FALSE], [fields |-> {"secret"}, clears |-> FALSE],
          [fields |-> {"plain", "secret"}, clears |-> FALSE],
          [fields |-> {"secret"}, clears |-> TRUE]}

LockFree == lock = None
ReadConfig(t) ==
  /\ LockFree /\ record # None
  /\ \E e \in Edits :
       LET n == IF e.clears THEN 0 ELSE spent.ops + 1 IN
       Begins(t, [Resting EXCEPT !.op = "config", !.at = "write", !.fields = e.fields, !.val = n,
                    !.plain  = IF "plain" \in e.fields THEN n ELSE record.plain,
                    !.secret = IF "secret" \in e.fields THEN n ELSE secret])
  /\ lock' = t
  /\ UNCHANGED <<disk, entry, want, crashed, puzzled>>

WriteSecrets(t) ==
  /\ At(t, "write")
  /\ secret' = thread[t].secret
  /\ Goes(t, "save")
  /\ UNCHANGED <<disk, record, active, lock, spent, histories>>

SavedNotMerged(t) ==
  [record EXCEPT !.plain = IF "plain" \in thread[t].fields THEN thread[t].val ELSE 0, !.test = None]
SavedTestKept(t) == [record EXCEPT !.plain = thread[t].plain]
Saved(t)         == [record EXCEPT !.plain = thread[t].plain, !.test = None]
SaveConfig(t) ==
  /\ At(t, "save")
  /\ record' = Saved(t)
  /\ want' = [plain  |-> IF "plain" \in thread[t].fields THEN thread[t].val ELSE want.plain,
              secret |-> IF "secret" \in thread[t].fields THEN thread[t].val ELSE want.secret]
  /\ Ends(t) /\ Unlock(t)
  /\ UNCHANGED <<disk, secret, active, spent, crossed, crashed, puzzled>>

(***************************************************************************)
(* The rest: one write each.                                               *)
(***************************************************************************)
SetEnabled(t, on) ==
  /\ Free /\ record # None
  /\ AtOnce(t)
  /\ record' = [record EXCEPT !.on = on]
  /\ UNCHANGED <<disk, secret, active, lock, histories>>

MayServeIfDeclared == record # None => HasRole(record.ver)
MayServe == record # None /\ record.on /\ HasRole(record.ver)
SetActive(t) ==
  /\ Free /\ MayServe
  /\ AtOnce(t)
  /\ active' = TRUE
  /\ UNCHANGED <<disk, record, secret, lock, histories>>
ClearActive(t) ==
  /\ Free /\ AtOnce(t)
  /\ active' = FALSE
  /\ UNCHANGED <<disk, record, secret, lock, histories>>

(* A test reads the configuration, asks the provider, and writes what came of
   it; "late" is that the configuration is another by then. *)
BeginTest(t) ==
  /\ record # None
  /\ Begins(t, [Resting EXCEPT !.op = "test", !.at = "tested",
                               !.plain = record.plain, !.secret = secret])
  /\ UNCHANGED <<disk, entry, lock, want, crashed, puzzled>>
EndTest(t) ==
  /\ At(t, "tested") /\ Free
  /\ record' = IF record = None THEN None
               ELSE [record EXCEPT !.test = [plain |-> thread[t].plain,
                                             secret |-> thread[t].secret,
                                             late |-> thread[t].plain # record.plain
                                                      \/ thread[t].secret # secret]]
  /\ Ends(t)
  /\ UNCHANGED <<disk, secret, active, lock, spent, histories>>

(***************************************************************************)
(* A file cannot be written, and the request raises; or the server dies,   *)
(* and starts again with what is on disk.                                  *)
(***************************************************************************)
AtRisk == {"in", "drop", "record", "secrets", "files", "save"}
WriteFails(t) ==
  /\ thread[t].at \in {"record", "secrets", "write", "save"}
  /\ Fault
  /\ crashed' = (crashed \/ thread[t].at \in AtRisk)
  /\ Ends(t) /\ Unlock(t)
  /\ UNCHANGED <<disk, entry, want, crossed, puzzled>>
Crash ==
  /\ spent.crashes < MaxCrashes
  /\ spent' = [spent EXCEPT !.crashes = @ + 1]
  /\ crashed' = (crashed \/ \E t \in Threads : thread[t].at \in AtRisk)
  /\ thread' = [t \in Threads |-> Resting] /\ lock' = None
  /\ UNCHANGED <<disk, entry, want, crossed, puzzled>>

(***************************************************************************)
(* The specification.                                                      *)
(***************************************************************************)
Files(t) == \/ \E v \in Versions : Install(t, v) \/ Update(t, v)
            \/ ClearLeftovers(t) \/ BeginCopy(t) \/ EndCopy(t) \/ CheckCopy(t) \/ Aside(t)
            \/ SwapIn(t) \/ DropPrevious(t) \/ SaveInstall(t) \/ SaveUpdate(t)
            \/ RemoveRecord(t) \/ DropSecrets(t) \/ RemoveFiles(t)
Settings(t) == \/ ReadConfig(t) \/ WriteSecrets(t) \/ SaveConfig(t)
               \/ (\E on \in BOOLEAN : SetEnabled(t, on)) \/ SetActive(t) \/ ClearActive(t)
               \/ BeginTest(t) \/ EndTest(t)

Next == (\E t \in Threads : Files(t) \/ Settings(t) \/ WriteFails(t)) \/ Crash
Spec == Init /\ [][Next]_vars

(***************************************************************************)
(* Properties.                                                             *)
(***************************************************************************)
Swapping == {"clean", "copy", "copying", "check", "aside", "in", "drop", "record"}
Stages(op) ==
  CASE op = "none"                  -> {"idle"}
    [] op \in {"install", "update"} -> Swapping
    [] op = "remove"                -> {"secrets", "files"}
    [] op = "config"                -> {"write", "save"}
    [] op = "test"                  -> {"tested"}
Ops    == {"none", "install", "update", "remove", "config", "test"}
Fields == {"plain", "secret"}
Tasks  == [op : Ops, at : Swapping \cup {"idle", "secrets", "files", "write", "save", "tested"},
           ver : Versions \cup {0}, had : BOOLEAN,
           fields : SUBSET Fields, val : Edit, plain : Edit, secret : Edit, clean : BOOLEAN]

ThreadsOK ==
  /\ thread \in [Threads -> Tasks]
  /\ \A t \in Threads : /\ thread[t].at \in Stages(thread[t].op)
                        /\ thread[t].op \in {"install", "update"} => thread[t].ver \in Versions

(* Every variable has its type (providers.json, secrets.json, the trees). *)
TypeOK ==
  /\ disk \in [dest : Trees, incoming : Trees, previous : Trees]
  /\ record \in Records \cup {None}
  /\ secret \in Edit
  /\ active \in BOOLEAN
  /\ lock \in Threads \cup {None}
  /\ ThreadsOK
  /\ spent \in [ops : Edit, faults : 0..MaxFaults, crashes : 0..MaxCrashes]
  /\ want \in [plain : Edit, secret : Edit]
  /\ {crossed, crashed, puzzled} \subseteq BOOLEAN

Busy(ops) == \E t \in Threads : thread[t].op \in ops

(* What is installed has its files, the whole of the version its record names,
   and nothing else has: an update or install that fails, wherever it does,
   leaves the previous version (swap_in_files: "an update that fails must leave
   the previous version serving").  But for requests that overlapped and for a
   crash or a failed write in one; the next install mends both. *)
FilesOfRecord ==
  ~Busy({"install", "update", "remove"}) /\ ~crossed /\ ~crashed
    => disk.dest = IF record = None THEN NoTree ELSE record.ver

(* No edit that was saved is lost to another save, and a field left out keeps
   what it had ("two settings-page saves racing ... would otherwise let the
   second silently discard the first's edit"). *)
EditsKept ==
  record # None /\ ~Busy({"config"}) /\ ~crossed /\ ~crashed
    => record.plain = want.plain /\ secret = want.secret

(* The role never points at what is not installed, crash or not
   (set_active, remove). *)
PointerInstalled == active => record # None

(* A test result belongs to the configuration it was taken under, or was late:
   taken while the configuration was saved (set_config, record_test). *)
TestOfItsConfig ==
  record # None /\ ~Busy({"config"}) /\ ~crossed /\ ~crashed =>
    (record.test # None => \/ record.test.late
                           \/ record.test.plain = record.plain /\ record.test.secret = secret)

(* A swap fails for a reason: what an earlier one has left behind is never in
   its way (swap_in_files: "leftovers from an earlier run that died"). *)
SwapsExplained == ~puzzled

(* The provider is never left with no files at all (swap_in_files). *)
NeverWithoutFiles ==
  record # None /\ ~Busy({"install", "update", "remove"}) => disk.dest # NoTree
=============================================================================
