--------------------------- MODULE Registry_proofs ---------------------------
(***************************************************************************)
(* Proofs about Registry, for every set of threads and versions and any    *)
(* number of requests, faults and crashes.                                 *)
(***************************************************************************)
EXTENDS Registry, TLAPS

LEMMA StagesAre ==
  /\ Stages("none") = {"idle"}
  /\ Stages("install") = Swapping /\ Stages("update") = Swapping
  /\ Stages("remove") = {"secrets", "files"}
  /\ Stages("config") = {"write", "save"}
  /\ Stages("test") = {"tested"}
BY DEF Stages

(* A stage tells the kind of the request. *)
Places == Swapping \cup {"idle", "secrets", "files", "write", "save", "tested"}
LEMMA OpAt ==
  ASSUME NEW op \in Ops, NEW at \in Stages(op)
  PROVE  /\ at \in Places
         /\ at = "idle" <=> op = "none"
         /\ at \in Swapping <=> op \in {"install", "update"}
         /\ at \in {"secrets", "files"} <=> op = "remove"
         /\ at \in {"write", "save"} <=> op = "config"
         /\ at = "tested" <=> op = "test"
BY StagesAre DEF Ops, Swapping, Places

(***************************************************************************)
(* Types.                                                                  *)
(***************************************************************************)
LEMMA Bounds == MaxOps \in Nat /\ MaxFaults \in Nat /\ MaxCrashes \in Nat /\ 0 \in Edit
BY BoundsAssumption DEF Edit

LEMMA RestingTyped == Resting \in Tasks /\ Resting.at \in Stages(Resting.op)
<1>1. Resting \in Tasks
  BY Bounds DEF Resting, Tasks, Ops, Fields
<1> QED
  BY <1>1, StagesAre DEF Resting

LEMMA GoesTyped ==
  ASSUME ThreadsOK, NEW t \in Threads, NEW where \in Places, where \in Stages(thread[t].op),
         Goes(t, where)
  PROVE  ThreadsOK'
BY DEF ThreadsOK, Goes, Tasks, Places

LEMMA EndsTyped ==
  ASSUME ThreadsOK, NEW t \in Threads, Ends(t)
  PROVE  ThreadsOK'
BY RestingTyped DEF ThreadsOK, Ends, Resting

LEMMA BeginsTyped ==
  ASSUME ThreadsOK, NEW t \in Threads, NEW new \in Tasks, new.at \in Stages(new.op),
         new.op \in {"install", "update"} => new.ver \in Versions,
         Begins(t, new)
  PROVE  /\ ThreadsOK'
         /\ crossed' = (crossed \/ Clashing(t, new.op) # {})
<1> DEFINE us == Clashing(t, new.op)
<1>1. /\ thread' = [u \in Threads |->
            IF u = t THEN [new EXCEPT !.clean = us = {}]
            ELSE IF u \in us THEN [thread[u] EXCEPT !.clean = FALSE] ELSE thread[u]]
      /\ crossed' = (crossed \/ us # {})
  BY DEF Begins
<1>2. (us = {}) \in BOOLEAN
  OBVIOUS
<1> HIDE DEF us
<1>3. [new EXCEPT !.clean = us = {}] \in Tasks
  BY <1>2 DEF Tasks
<1>4. \A u \in Threads : thread[u] \in Tasks /\ [thread[u] EXCEPT !.clean = FALSE] \in Tasks
  BY DEF ThreadsOK, Tasks
<1>5. thread' \in [Threads -> Tasks]
  BY <1>1, <1>3, <1>4
<1>6. \A u \in Threads : /\ thread'[u].at \in Stages(thread'[u].op)
                         /\ thread'[u].op \in {"install", "update"} => thread'[u].ver \in Versions
  BY <1>1, <1>4 DEF ThreadsOK, Tasks
<1> QED
  BY <1>1, <1>5, <1>6 DEF ThreadsOK, us

LEMMA CountTyped ==
  ASSUME TypeOK, Count
  PROVE  spent' \in [ops : Edit, faults : 0..MaxFaults, crashes : 0..MaxCrashes]
         /\ spent.ops + 1 \in Edit
BY Bounds DEF TypeOK, Count, Edit

LEMMA FaultTyped ==
  ASSUME TypeOK, Fault
  PROVE  spent' \in [ops : Edit, faults : 0..MaxFaults, crashes : 0..MaxCrashes]
BY Bounds DEF TypeOK, Fault

LEMMA TreesAre == NoTree \in Trees /\ Torn \in Trees /\ Versions \subseteq Trees
                  /\ NoTree \notin Versions /\ Torn \notin Versions /\ NoTree # Torn
BY VersionsAssumption DEF Trees, NoTree, Torn

LEMMA SwapMoves ==
  ASSUME TypeOK, NEW t \in Threads, thread[t].at \in Swapping,
         NEW where \in Swapping, Goes(t, where)
  PROVE  ThreadsOK'
<1>1. thread[t].op \in {"install", "update"}
  BY OpAt DEF TypeOK, ThreadsOK, Tasks
<1> QED
  BY <1>1, GoesTyped, StagesAre DEF TypeOK, Places

LEMMA VersionOf ==
  ASSUME TypeOK, NEW t \in Threads, thread[t].at \in Swapping
  PROVE  thread[t].ver \in Versions
BY OpAt DEF TypeOK, ThreadsOK, Tasks

(* An update and a change of the configuration hold the lock, and the record is
   there as long as they do: it goes under the lock. *)
LockInv == \A t \in Threads : thread[t].op \in {"update", "config"} => lock = t /\ record # None

LEMMA LockedRecord ==
  ASSUME LockInv, NEW t \in Threads, SaveUpdate(t) \/ SaveConfig(t), TypeOK
  PROVE  record # None
BY OpAt DEF LockInv, SaveUpdate, SaveConfig, At, TypeOK, ThreadsOK, Tasks

(* Every variable keeps its type. *)
LEMMA TypeStep == TypeOK /\ LockInv /\ [Next]_vars => TypeOK'
<1> SUFFICES ASSUME TypeOK, LockInv, [Next]_vars PROVE TypeOK'
  OBVIOUS
<1> USE DEF entry, histories
<1>1. ASSUME NEW t \in Threads, NEW v \in Versions, Install(t, v) PROVE TypeOK'
  <2> DEFINE new == [Resting EXCEPT !.op = "install", !.at = "clean", !.ver = v]
  <2>1. new \in Tasks /\ new.at \in Stages(new.op) /\ new.op = "install" /\ new.ver = v
    BY RestingTyped, StagesAre DEF Tasks, Ops, Swapping
  <2>2. Begins(t, new)
    BY <1>1 DEF Install
  <2> HIDE DEF new
  <2>3. ThreadsOK' /\ crossed' \in BOOLEAN
    BY <2>1, <2>2, BeginsTyped DEF TypeOK
  <2> QED
    BY <1>1, <2>2, <2>3, CountTyped DEF Install, Begins, TypeOK
<1>2. ASSUME NEW t \in Threads, NEW v \in Versions, Update(t, v) PROVE TypeOK'
  <2> DEFINE new == [Resting EXCEPT !.op = "update", !.at = "clean", !.ver = v]
  <2>1. new \in Tasks /\ new.at \in Stages(new.op) /\ new.op = "update" /\ new.ver = v
    BY RestingTyped, StagesAre DEF Tasks, Ops, Swapping
  <2>2. CASE record = None
    BY <1>2, <2>2, CountTyped DEF Update, AtOnce, TypeOK, ThreadsOK
  <2>3. CASE record # None
    <3>1. Begins(t, new) /\ lock' = t
      BY <1>2, <2>3 DEF Update
    <3> HIDE DEF new
    <3>2. ThreadsOK' /\ crossed' \in BOOLEAN
      BY <2>1, <3>1, BeginsTyped DEF TypeOK
    <3> QED
      BY <1>2, <3>1, <3>2, CountTyped DEF Update, Begins, TypeOK
  <2> QED
    BY <2>2, <2>3
<1>3. ASSUME NEW t \in Threads, ClearLeftovers(t) PROVE TypeOK'
  <2>1. ThreadsOK'
    BY <1>3, SwapMoves DEF ClearLeftovers, Moves, At, Swapping
  <2> QED
    BY <1>3, <2>1, TreesAre DEF ClearLeftovers, Moves, TypeOK
<1>4. ASSUME NEW t \in Threads, BeginCopy(t) PROVE TypeOK'
  <2>1. ThreadsOK'
    BY <1>4, SwapMoves, EndsTyped DEF BeginCopy, Moves, Raises, At, Swapping, TypeOK
  <2>2. lock' \in Threads \cup {None} /\ disk' \in [dest : Trees, incoming : Trees, previous : Trees]
    BY <1>4, TreesAre DEF BeginCopy, Moves, Raises, Unlock, TypeOK
  <2> QED
    BY <1>4, <2>1, <2>2 DEF BeginCopy, Moves, Raises, Puzzled, TypeOK
<1>5. ASSUME NEW t \in Threads, EndCopy(t) PROVE TypeOK'
  <2>1. ThreadsOK'
    BY <1>5, SwapMoves, EndsTyped DEF EndCopy, Moves, Raises, At, Swapping, TypeOK
  <2>2. lock' \in Threads \cup {None}
    BY <1>5 DEF EndCopy, Moves, Raises, Unlock, TypeOK
  <2>3. disk' \in [dest : Trees, incoming : Trees, previous : Trees]
    BY <1>5, VersionOf, TreesAre DEF EndCopy, At, Swapping, TypeOK
  <2>4. spent' \in [ops : Edit, faults : 0..MaxFaults, crashes : 0..MaxCrashes]
    BY <1>5, FaultTyped DEF EndCopy, TypeOK
  <2> QED
    BY <1>5, <2>1, <2>2, <2>3, <2>4 DEF EndCopy, Moves, Raises, Puzzled, TypeOK
<1>6. ASSUME NEW t \in Threads, CheckCopy(t) PROVE TypeOK'
  <2>1. ThreadsOK'
    BY <1>6, SwapMoves, EndsTyped DEF CheckCopy, Moves, Raises, At, Swapping, TypeOK
  <2>2. lock' \in Threads \cup {None}
    BY <1>6 DEF CheckCopy, Moves, Raises, Unlock, TypeOK
  <2>3. disk' \in [dest : Trees, incoming : Trees, previous : Trees]
    BY <1>6, TreesAre DEF CheckCopy, TypeOK
  <2>4. spent' \in [ops : Edit, faults : 0..MaxFaults, crashes : 0..MaxCrashes]
    BY <1>6, FaultTyped DEF CheckCopy, TypeOK
  <2> QED
    BY <1>6, <2>1, <2>2, <2>3, <2>4 DEF CheckCopy, Moves, Raises, Puzzled, TypeOK
<1>7. ASSUME NEW t \in Threads, Aside(t) PROVE TypeOK'
  <2>1. ThreadsOK'
    <3>1. CASE Ends(t)
      BY <3>1, EndsTyped DEF TypeOK
    <3>2. CASE thread' = [thread EXCEPT ![t].at = "in", ![t].had = disk.dest # NoTree]
      <4>1. thread[t] \in Tasks /\ thread[t].op \in {"install", "update"}
        BY <1>7, OpAt DEF Aside, At, TypeOK, ThreadsOK, Tasks, Swapping
      <4>2. (disk.dest # NoTree) \in BOOLEAN
        OBVIOUS
      <4>3. [thread[t] EXCEPT !.at = "in", !.had = disk.dest # NoTree] \in Tasks
        BY <4>1, <4>2 DEF Tasks, Swapping
      <4>4. "in" \in Stages(thread[t].op)
        BY <4>1, StagesAre DEF Swapping
      <4> QED
        BY <3>2, <4>1, <4>3, <4>4 DEF TypeOK, ThreadsOK, Tasks
    <3> QED
      BY <1>7, <3>1, <3>2 DEF Aside, Raises
  <2>2. lock' \in Threads \cup {None}
    BY <1>7 DEF Aside, Raises, Unlock, TypeOK
  <2>3. disk' \in [dest : Trees, incoming : Trees, previous : Trees]
    BY <1>7, TreesAre DEF Aside, TypeOK
  <2>4. spent' \in [ops : Edit, faults : 0..MaxFaults, crashes : 0..MaxCrashes]
    BY <1>7, FaultTyped DEF Aside, TypeOK
  <2> QED
    BY <1>7, <2>1, <2>2, <2>3, <2>4 DEF Aside, Raises, Puzzled, TypeOK
<1>8. ASSUME NEW t \in Threads, SwapIn(t) PROVE TypeOK'
  <2>1. ThreadsOK'
    BY <1>8, SwapMoves, EndsTyped DEF SwapIn, Moves, Raises, At, Swapping, TypeOK
  <2>2. lock' \in Threads \cup {None}
    BY <1>8 DEF SwapIn, Moves, Raises, Unlock, TypeOK
  <2>3. disk' \in [dest : Trees, incoming : Trees, previous : Trees]
    BY <1>8, TreesAre DEF SwapIn, Restored, TypeOK
  <2>4. spent' \in [ops : Edit, faults : 0..MaxFaults, crashes : 0..MaxCrashes]
    BY <1>8, FaultTyped DEF SwapIn, TypeOK
  <2> QED
    BY <1>8, <2>1, <2>2, <2>3, <2>4 DEF SwapIn, Moves, Raises, Puzzled, TypeOK
<1>9. ASSUME NEW t \in Threads, DropPrevious(t) PROVE TypeOK'
  <2>1. ThreadsOK'
    BY <1>9, SwapMoves DEF DropPrevious, Moves, At, Swapping
  <2> QED
    BY <1>9, <2>1, TreesAre DEF DropPrevious, Moves, TypeOK
<1>10. ASSUME NEW t \in Threads, SaveInstall(t) PROVE TypeOK'
  <2>1. ThreadsOK'
    BY <1>10, EndsTyped DEF SaveInstall, TypeOK
  <2>2. thread[t].ver \in Versions
    BY <1>10, VersionOf DEF SaveInstall, At, Swapping
  <2>3. record' \in Records
    BY <1>10, <2>2, Bounds DEF SaveInstall, Installed, Records
  <2>4. want' \in [plain : Edit, secret : Edit]
    BY <1>10, Bounds DEF SaveInstall, TypeOK
  <2> QED
    BY <1>10, <2>1, <2>3, <2>4 DEF SaveInstall, TypeOK
<1>11. ASSUME NEW t \in Threads, SaveUpdate(t), record # None PROVE TypeOK'
  <2>1. ThreadsOK'
    BY <1>11, EndsTyped DEF SaveUpdate, TypeOK
  <2>2. thread[t].ver \in Versions
    BY <1>11, VersionOf DEF SaveUpdate, At, Swapping
  <2>3. record' \in Records
    BY <1>11, <2>2 DEF SaveUpdate, Records, TypeOK
  <2> QED
    BY <1>11, <2>1, <2>3 DEF SaveUpdate, Unlock, TypeOK
<1>12. ASSUME NEW t \in Threads, RemoveRecord(t) PROVE TypeOK'
  <2> DEFINE new == [Resting EXCEPT !.op = "remove", !.at = "secrets"]
  <2>1. new \in Tasks /\ new.at \in Stages(new.op) /\ new.op = "remove"
    BY RestingTyped, StagesAre DEF Tasks, Ops
  <2>2. CASE record = None
    BY <1>12, <2>2, CountTyped DEF RemoveRecord, AtOnce, TypeOK, ThreadsOK
  <2>3. CASE record # None
    <3>1. Begins(t, new)
      BY <1>12, <2>3 DEF RemoveRecord
    <3> HIDE DEF new
    <3>2. ThreadsOK' /\ crossed' \in BOOLEAN
      BY <2>1, <3>1, BeginsTyped DEF TypeOK
    <3>3. want' \in [plain : Edit, secret : Edit]
      BY <1>12, <2>3, Bounds DEF RemoveRecord
    <3> QED
      BY <1>12, <2>3, <3>1, <3>2, <3>3, CountTyped DEF RemoveRecord, Begins, TypeOK
  <2> QED
    BY <2>2, <2>3
<1>13. ASSUME NEW t \in Threads, DropSecrets(t) PROVE TypeOK'
  <2>1. thread[t].op = "remove"
    BY <1>13, OpAt DEF DropSecrets, At, TypeOK, ThreadsOK, Tasks
  <2>2. ThreadsOK'
    BY <1>13, <2>1, GoesTyped, StagesAre DEF DropSecrets, Places, TypeOK
  <2> QED
    BY <1>13, <2>2, Bounds DEF DropSecrets, TypeOK
<1>14. ASSUME NEW t \in Threads, RemoveFiles(t) PROVE TypeOK'
  <2>1. ThreadsOK'
    BY <1>14, EndsTyped DEF RemoveFiles, TypeOK
  <2> QED
    BY <1>14, <2>1, TreesAre DEF RemoveFiles, TypeOK
<1>15. ASSUME NEW t \in Threads, ReadConfig(t) PROVE TypeOK'
  <2>1. PICK e \in Edits :
       LET n == IF e.clears THEN 0 ELSE spent.ops + 1 IN
       Begins(t, [Resting EXCEPT !.op = "config", !.at = "write", !.fields = e.fields, !.val = n,
                    !.plain  = IF "plain" \in e.fields THEN n ELSE record.plain,
                    !.secret = IF "secret" \in e.fields THEN n ELSE secret])
    BY <1>15 DEF ReadConfig
  <2> DEFINE n == IF e.clears THEN 0 ELSE spent.ops + 1
             new == [Resting EXCEPT !.op = "config", !.at = "write", !.fields = e.fields, !.val = n,
                    !.plain  = IF "plain" \in e.fields THEN n ELSE record.plain,
                    !.secret = IF "secret" \in e.fields THEN n ELSE secret]
  <2>2. Begins(t, new)
    BY <2>1
  <2>3. n \in Edit
    BY <2>2, CountTyped, Bounds DEF Begins
  <2>4. e.fields \subseteq Fields
    BY DEF Edits, Fields
  <2>5. record.plain \in Edit /\ secret \in Edit
    BY <1>15 DEF ReadConfig, TypeOK, Records
  <2> HIDE DEF n
  <2>6. new \in Tasks /\ new.at \in Stages(new.op) /\ new.op = "config"
    BY <2>3, <2>4, <2>5, RestingTyped, StagesAre DEF Tasks, Ops
  <2> HIDE DEF new
  <2>7. ThreadsOK' /\ crossed' \in BOOLEAN
    BY <2>2, <2>6, BeginsTyped DEF TypeOK
  <2> QED
    BY <1>15, <2>2, <2>7, CountTyped DEF ReadConfig, Begins, TypeOK
<1>16. ASSUME NEW t \in Threads, WriteSecrets(t) PROVE TypeOK'
  <2>1. thread[t].op = "config" /\ thread[t].secret \in Edit
    BY <1>16, OpAt DEF WriteSecrets, At, TypeOK, ThreadsOK, Tasks
  <2>2. ThreadsOK'
    BY <1>16, <2>1, GoesTyped, StagesAre DEF WriteSecrets, Places, TypeOK
  <2> QED
    BY <1>16, <2>1, <2>2 DEF WriteSecrets, TypeOK
<1>17. ASSUME NEW t \in Threads, SaveConfig(t), record # None PROVE TypeOK'
  <2>1. thread[t].plain \in Edit /\ thread[t].val \in Edit
    BY DEF TypeOK, ThreadsOK, Tasks
  <2>2. ThreadsOK'
    BY <1>17, EndsTyped DEF SaveConfig, TypeOK
  <2>3. record' \in Records
    BY <1>17, <2>1 DEF SaveConfig, Saved, Records, TypeOK
  <2>4. want' \in [plain : Edit, secret : Edit]
    BY <1>17, <2>1 DEF SaveConfig, TypeOK
  <2> QED
    BY <1>17, <2>2, <2>3, <2>4 DEF SaveConfig, Unlock, TypeOK
<1>18. ASSUME NEW t \in Threads, NEW on \in BOOLEAN, SetEnabled(t, on) PROVE TypeOK'
  BY <1>18, CountTyped DEF SetEnabled, AtOnce, TypeOK, Records, ThreadsOK
<1>19. ASSUME NEW t \in Threads, SetActive(t) \/ ClearActive(t) PROVE TypeOK'
  BY <1>19, CountTyped DEF SetActive, ClearActive, AtOnce, TypeOK, ThreadsOK
<1>20. ASSUME NEW t \in Threads, BeginTest(t) PROVE TypeOK'
  <2> DEFINE new == [Resting EXCEPT !.op = "test", !.at = "tested",
                               !.plain = record.plain, !.secret = secret]
  <2>1. record.plain \in Edit /\ secret \in Edit
    BY <1>20 DEF BeginTest, TypeOK, Records
  <2>2. new \in Tasks /\ new.at \in Stages(new.op) /\ new.op = "test"
    BY <2>1, RestingTyped, StagesAre DEF Tasks, Ops
  <2>3. Begins(t, new)
    BY <1>20 DEF BeginTest
  <2> HIDE DEF new
  <2>4. ThreadsOK' /\ crossed' \in BOOLEAN
    BY <2>2, <2>3, BeginsTyped DEF TypeOK
  <2> QED
    BY <1>20, <2>3, <2>4, CountTyped DEF BeginTest, Begins, TypeOK
<1>21. ASSUME NEW t \in Threads, EndTest(t) PROVE TypeOK'
  <2>1. ThreadsOK'
    BY <1>21, EndsTyped DEF EndTest, TypeOK
  <2>2. record' \in Records \cup {None}
    <3>1. CASE record = None
      BY <1>21, <3>1 DEF EndTest
    <3>2. CASE record # None
      <4> DEFINE late == thread[t].plain # record.plain \/ thread[t].secret # secret
                 test == [plain |-> thread[t].plain, secret |-> thread[t].secret, late |-> late]
      <4>1. record' = [record EXCEPT !.test = test]
        BY <1>21, <3>2 DEF EndTest
      <4>2. late \in BOOLEAN
        OBVIOUS
      <4> HIDE DEF late
      <4>3. test \in Tests
        BY <4>2 DEF Tests, TypeOK, ThreadsOK, Tasks
      <4> HIDE DEF test
      <4> QED
        BY <3>2, <4>1, <4>3 DEF TypeOK, Records
    <3> QED
      BY <3>1, <3>2
  <2> QED
    BY <1>21, <2>1, <2>2 DEF EndTest, TypeOK
<1>22. ASSUME NEW t \in Threads, WriteFails(t) PROVE TypeOK'
  <2>1. ThreadsOK'
    BY <1>22, EndsTyped DEF WriteFails, TypeOK
  <2>2. spent' \in [ops : Edit, faults : 0..MaxFaults, crashes : 0..MaxCrashes]
    BY <1>22, FaultTyped DEF WriteFails
  <2> QED
    BY <1>22, <2>1, <2>2 DEF WriteFails, Unlock, TypeOK
<1>23. CASE Crash
  <2>1. ThreadsOK'
    BY <1>23, RestingTyped DEF Crash, ThreadsOK, Resting
  <2>2. spent' \in [ops : Edit, faults : 0..MaxFaults, crashes : 0..MaxCrashes]
    BY <1>23, Bounds DEF Crash, TypeOK
  <2> QED
    BY <1>23, <2>1, <2>2 DEF Crash, TypeOK
<1>24. CASE UNCHANGED vars
  BY <1>24 DEF vars, TypeOK, ThreadsOK
<1> QED
  BY <1>1, <1>2, <1>3, <1>4, <1>5, <1>6, <1>7, <1>8, <1>9, <1>10, <1>11, <1>12, <1>13, <1>14, <1>15,
     <1>16, <1>17, <1>18, <1>19, <1>20, <1>21, <1>22, <1>23, <1>24, LockedRecord
     DEF Next, Files, Settings

(***************************************************************************)
(* Who is in the way of whom.                                              *)
(***************************************************************************)
FileOps == {"install", "update", "remove"}

(* A thread that does not act only learns that it has company. *)
Same(u) ==
  /\ thread'[u].op = thread[u].op /\ thread'[u].at = thread[u].at
  /\ thread'[u].ver = thread[u].ver /\ thread'[u].had = thread[u].had
  /\ thread'[u].fields = thread[u].fields /\ thread'[u].val = thread[u].val
  /\ thread'[u].plain = thread[u].plain /\ thread'[u].secret = thread[u].secret
  /\ thread'[u].clean => thread[u].clean
OthersSame(t) == \A u \in Threads \ {t} : Same(u)

LEMMA BeginsThreads ==
  ASSUME TypeOK, NEW t \in Threads, NEW new \in Tasks, Begins(t, new)
  PROVE  /\ OthersSame(t)
         /\ thread'[t] = [new EXCEPT !.clean = Clashing(t, new.op) = {}]
         /\ thread[t].at = "idle" /\ thread[t].op = "none"
         /\ \A u \in Threads \ {t} :
              thread'[u].clean = (thread[u].clean /\ ~Clash(new.op, thread[u].op))
         /\ crossed' = (crossed \/ Clashing(t, new.op) # {})
<1> DEFINE us == Clashing(t, new.op)
<1>1. /\ thread' = [u \in Threads |->
            IF u = t THEN [new EXCEPT !.clean = us = {}]
            ELSE IF u \in us THEN [thread[u] EXCEPT !.clean = FALSE] ELSE thread[u]]
      /\ crossed' = (crossed \/ us # {})
  BY DEF Begins
<1>2. \A u \in Threads \ {t} : u \in us <=> Clash(new.op, thread[u].op)
  BY DEF Clashing
<1>3. thread[t].at = "idle" /\ thread[t].op = "none"
  BY OpAt DEF Begins, At, TypeOK, ThreadsOK, Tasks
<1> HIDE DEF us
<1>4. ASSUME NEW u \in Threads \ {t}
      PROVE  /\ Same(u)
             /\ thread'[u].clean = (thread[u].clean /\ ~Clash(new.op, thread[u].op))
  <2>1. thread[u] \in Tasks
    BY DEF TypeOK, ThreadsOK
  <2>2. CASE u \in us
    BY <1>1, <1>2, <2>1, <2>2 DEF Same, Tasks
  <2>3. CASE u \notin us
    BY <1>1, <1>2, <2>1, <2>3 DEF Same, Tasks
  <2> QED
    BY <2>2, <2>3
<1> QED
  BY <1>1, <1>3, <1>4 DEF OthersSame, us

LEMMA EndsThreads ==
  ASSUME TypeOK, NEW t \in Threads, Ends(t)
  PROVE  /\ OthersSame(t) /\ thread'[t] = Resting
         /\ \A u \in Threads \ {t} : thread'[u] = thread[u]
BY DEF Ends, OthersSame, Same, TypeOK, ThreadsOK

LEMMA GoesThreads ==
  ASSUME TypeOK, NEW t \in Threads, NEW where, Goes(t, where)
  PROVE  /\ OthersSame(t) /\ thread'[t] = [thread[t] EXCEPT !.at = where]
         /\ \A u \in Threads \ {t} : thread'[u] = thread[u]
BY DEF Goes, OthersSame, Same, TypeOK, ThreadsOK

(* What each request begins with. *)
Fresh(t, op) ==
  \E new \in Tasks : /\ Begins(t, new) /\ new.op = op /\ new.at \in Stages(op)
                     /\ op \in {"install", "update"} => new.at = "clean"
                     /\ op = "config" => new.at = "write" /\ record # None
                     /\ op = "remove" => new.at = "secrets"
LEMMA InstallBegins ==
  ASSUME NEW t \in Threads, NEW v \in Versions, Install(t, v)
  PROVE  Fresh(t, "install")
<1> DEFINE new == [Resting EXCEPT !.op = "install", !.at = "clean", !.ver = v]
<1>1. new \in Tasks /\ new.at \in Stages(new.op) /\ new.op = "install" /\ new.at = "clean"
  BY RestingTyped, StagesAre DEF Tasks, Ops, Swapping
<1>2. Begins(t, new)
  BY DEF Install
<1> HIDE DEF new
<1> QED
  BY <1>1, <1>2 DEF Fresh
LEMMA UpdateBegins ==
  ASSUME NEW t \in Threads, NEW v \in Versions, Update(t, v), record # None
  PROVE  Fresh(t, "update") /\ lock' = t /\ record' = record
<1> DEFINE new == [Resting EXCEPT !.op = "update", !.at = "clean", !.ver = v]
<1>1. new \in Tasks /\ new.at \in Stages(new.op) /\ new.op = "update" /\ new.at = "clean"
  BY RestingTyped, StagesAre DEF Tasks, Ops, Swapping
<1>2. Begins(t, new) /\ lock' = t /\ record' = record
  BY DEF Update, entry
<1> HIDE DEF new
<1> QED
  BY <1>1, <1>2 DEF Fresh
LEMMA RemoveBegins ==
  ASSUME NEW t \in Threads, RemoveRecord(t), record # None
  PROVE  Fresh(t, "remove")
<1> DEFINE new == [Resting EXCEPT !.op = "remove", !.at = "secrets"]
<1>1. new \in Tasks /\ new.at \in Stages(new.op) /\ new.op = "remove" /\ new.at = "secrets"
  BY RestingTyped, StagesAre DEF Tasks, Ops
<1>2. Begins(t, new)
  BY DEF RemoveRecord
<1> HIDE DEF new
<1> QED
  BY <1>1, <1>2 DEF Fresh
(* An edit reads what it leaves out. *)
Reads(new, e, n) ==
  /\ new.op = "config" /\ new.at = "write" /\ new.fields = e.fields /\ new.val = n
  /\ new.plain  = IF "plain" \in e.fields THEN n ELSE record.plain
  /\ new.secret = IF "secret" \in e.fields THEN n ELSE secret
LEMMA ConfigReads ==
  ASSUME TypeOK, NEW t \in Threads, ReadConfig(t)
  PROVE  \E new \in Tasks, e \in Edits, n \in Edit : Begins(t, new) /\ Reads(new, e, n)
<1>1. PICK e \in Edits :
       LET n == IF e.clears THEN 0 ELSE spent.ops + 1 IN
       Begins(t, [Resting EXCEPT !.op = "config", !.at = "write", !.fields = e.fields, !.val = n,
                    !.plain  = IF "plain" \in e.fields THEN n ELSE record.plain,
                    !.secret = IF "secret" \in e.fields THEN n ELSE secret])
  BY DEF ReadConfig
<1> DEFINE n == IF e.clears THEN 0 ELSE spent.ops + 1
           new == [Resting EXCEPT !.op = "config", !.at = "write", !.fields = e.fields, !.val = n,
                    !.plain  = IF "plain" \in e.fields THEN n ELSE record.plain,
                    !.secret = IF "secret" \in e.fields THEN n ELSE secret]
<1>2. Begins(t, new)
  BY <1>1
<1>3. n \in Edit
  BY <1>2, CountTyped, Bounds DEF Begins
<1>4. e.fields \subseteq Fields
  BY DEF Edits, Fields
<1>5. record.plain \in Edit /\ secret \in Edit
  BY DEF ReadConfig, TypeOK, Records
<1> HIDE DEF n
<1>6. new \in Tasks /\ Reads(new, e, n)
  BY <1>3, <1>4, <1>5, RestingTyped DEF Tasks, Ops, Reads
<1> HIDE DEF new
<1> QED
  BY <1>2, <1>3, <1>6
LEMMA ConfigBegins ==
  ASSUME TypeOK, NEW t \in Threads, ReadConfig(t)
  PROVE  Fresh(t, "config")
BY ConfigReads, StagesAre DEF Fresh, Reads, ReadConfig
LEMMA TestBegins ==
  ASSUME TypeOK, NEW t \in Threads, BeginTest(t)
  PROVE  Fresh(t, "test")
<1> DEFINE new == [Resting EXCEPT !.op = "test", !.at = "tested",
                             !.plain = record.plain, !.secret = secret]
<1>1. record.plain \in Edit /\ secret \in Edit
  BY DEF BeginTest, TypeOK, Records
<1>2. new \in Tasks /\ new.at \in Stages(new.op) /\ new.op = "test"
  BY <1>1, RestingTyped, StagesAre DEF Tasks, Ops
<1>3. Begins(t, new)
  BY DEF BeginTest
<1> HIDE DEF new
<1> QED
  BY <1>2, <1>3 DEF Fresh

(* Where a thread's step leads: it begins a request, goes on, ends, or the
   process dies. *)
LEMMA Progress ==
  ASSUME TypeOK, LockInv, NEW t \in Threads, Files(t) \/ Settings(t) \/ WriteFails(t)
  PROVE  \/ \E op \in Ops \ {"none"} : Fresh(t, op)
         \/ UNCHANGED thread
         \/ /\ OthersSame(t)
            /\ \A u \in Threads \ {t} : thread'[u] = thread[u]
            /\ thread[t].op # "none"
            /\ \/ thread'[t] = Resting
               \/ /\ thread'[t].op = thread[t].op /\ thread'[t].clean = thread[t].clean
                  /\ thread'[t].ver = thread[t].ver
<1> DEFINE Done == \/ \E op \in Ops \ {"none"} : Fresh(t, op)
                   \/ UNCHANGED thread
                   \/ /\ OthersSame(t)
                      /\ \A u \in Threads \ {t} : thread'[u] = thread[u]
                      /\ thread[t].op # "none"
                      /\ \/ thread'[t] = Resting
                         \/ /\ thread'[t].op = thread[t].op /\ thread'[t].clean = thread[t].clean
                            /\ thread'[t].ver = thread[t].ver
<1>0. thread[t] \in Tasks /\ (thread[t].at = "idle" <=> thread[t].op = "none")
  BY OpAt DEF TypeOK, ThreadsOK, Tasks
<1>1. ASSUME Ends(t), thread[t].at # "idle" PROVE Done
  BY <1>0, <1>1, EndsThreads
<1>2. ASSUME NEW where, Goes(t, where), thread[t].at # "idle" PROVE Done
  <2>1. thread'[t] = [thread[t] EXCEPT !.at = where]
    BY <1>2, GoesThreads
  <2>2. thread'[t].op = thread[t].op /\ thread'[t].clean = thread[t].clean
        /\ thread'[t].ver = thread[t].ver
    BY <1>0, <2>1 DEF Tasks
  <2> QED
    BY <1>0, <1>2, <2>2, GoesThreads
<1>3. CASE Files(t)
  <2>1. CASE \E v \in Versions : Install(t, v) \/ Update(t, v)
    BY <2>1, InstallBegins, UpdateBegins DEF Update, AtOnce, Ops
  <2>2. CASE RemoveRecord(t)
    BY <2>2, RemoveBegins DEF RemoveRecord, AtOnce, Ops
  <2>3. CASE Aside(t)
    <3>1. CASE Raises(t)
      BY <1>1, <2>3, <3>1 DEF Raises, Aside, At
    <3>2. CASE thread' = [thread EXCEPT ![t].at = "in", ![t].had = disk.dest # NoTree]
      <4>1. thread'[t] = [thread[t] EXCEPT !.at = "in", !.had = disk.dest # NoTree]
        BY <3>2 DEF TypeOK, ThreadsOK
      <4>2. thread'[t].op = thread[t].op /\ thread'[t].clean = thread[t].clean
            /\ thread'[t].ver = thread[t].ver
        BY <1>0, <4>1 DEF Tasks
      <4>3. \A u \in Threads \ {t} : thread'[u] = thread[u]
        BY <3>2 DEF TypeOK, ThreadsOK
      <4> QED
        BY <1>0, <2>3, <4>2, <4>3 DEF Aside, At, OthersSame, Same
    <3> QED
      BY <2>3, <3>1, <3>2 DEF Aside
  <2>4. CASE ClearLeftovers(t) \/ BeginCopy(t) \/ EndCopy(t) \/ CheckCopy(t) \/ SwapIn(t)
             \/ DropPrevious(t) \/ SaveInstall(t) \/ SaveUpdate(t) \/ DropSecrets(t)
             \/ RemoveFiles(t)
    <3>1. thread[t].at # "idle"
      BY <2>4 DEF ClearLeftovers, BeginCopy, EndCopy, CheckCopy, SwapIn, DropPrevious,
                  SaveInstall, SaveUpdate, DropSecrets, RemoveFiles, At
    <3>2. Ends(t) \/ \E where \in Places : Goes(t, where)
      BY <2>4 DEF ClearLeftovers, BeginCopy, EndCopy, CheckCopy, SwapIn, DropPrevious,
                  SaveInstall, SaveUpdate, DropSecrets, RemoveFiles, Moves, Raises, Places, Swapping
    <3> QED
      BY <1>1, <1>2, <3>1, <3>2
  <2> QED
    BY <1>3, <2>1, <2>2, <2>3, <2>4 DEF Files
<1>4. CASE Settings(t)
  <2>1. CASE ReadConfig(t) \/ BeginTest(t)
    BY <2>1, ConfigBegins, TestBegins DEF Ops
  <2>2. CASE WriteSecrets(t) \/ SaveConfig(t) \/ EndTest(t)
    <3>1. thread[t].at # "idle"
      BY <2>2 DEF WriteSecrets, SaveConfig, EndTest, At
    <3>2. Ends(t) \/ \E where \in Places : Goes(t, where)
      BY <2>2 DEF WriteSecrets, SaveConfig, EndTest, Places
    <3> QED
      BY <1>1, <1>2, <3>1, <3>2
  <2> QED
    BY <1>4, <2>1, <2>2 DEF Settings, SetEnabled, SetActive, ClearActive, AtOnce
<1>5. CASE WriteFails(t)
  BY <1>1, <1>5 DEF WriteFails
<1> QED
  BY <1>3, <1>4, <1>5

LEMMA Bystander ==
  ASSUME TypeOK, LockInv, NEW t \in Threads, Files(t) \/ Settings(t) \/ WriteFails(t),
         NEW u \in Threads \ {t}
  PROVE  Same(u)
<1>1. CASE \E op \in Ops \ {"none"} : Fresh(t, op)
  BY <1>1, BeginsThreads DEF Fresh, OthersSame
<1>2. CASE UNCHANGED thread
  BY <1>2 DEF Same
<1> QED
  BY <1>1, <1>2, Progress DEF OthersSame

(* One that begins has the kind it begins with; one that goes on keeps it. *)
LEMMA OwnOp ==
  ASSUME TypeOK, LockInv, NEW t \in Threads, Files(t) \/ Settings(t) \/ WriteFails(t),
         thread'[t].op # "none"
  PROVE  \/ Fresh(t, thread'[t].op)
         \/ thread'[t].op = thread[t].op /\ thread'[t].clean = thread[t].clean
            /\ thread'[t].ver = thread[t].ver
<1>1. CASE \E op \in Ops \ {"none"} : Fresh(t, op)
  <2>1. PICK op \in Ops \ {"none"}, new \in Tasks : Fresh(t, op) /\ Begins(t, new) /\ new.op = op
    BY <1>1 DEF Fresh
  <2>2. thread'[t] = [new EXCEPT !.clean = Clashing(t, new.op) = {}]
    BY <2>1, BeginsThreads
  <2> QED
    BY <2>1, <2>2 DEF Tasks
<1>2. CASE UNCHANGED thread
  BY <1>2
<1> QED
  BY <1>1, <1>2, Progress DEF Resting

LEMMA FreshOp ==
  ASSUME TypeOK, NEW t \in Threads, NEW op, Fresh(t, op)
  PROVE  /\ thread'[t].op = op /\ thread[t].op = "none"
         /\ thread'[t].clean = (Clashing(t, op) = {})
         /\ crossed' = (crossed \/ Clashing(t, op) # {})
         /\ \A u \in Threads \ {t} : /\ Same(u)
              /\ thread'[u].clean = (thread[u].clean /\ ~Clash(op, thread[u].op))
<1>1. PICK new \in Tasks : Begins(t, new) /\ new.op = op
  BY DEF Fresh
<1>2. thread'[t] = [new EXCEPT !.clean = Clashing(t, new.op) = {}]
  BY <1>1, BeginsThreads
<1>3. thread'[t].op = op
  BY <1>1, <1>2 DEF Tasks
<1>4. thread'[t].clean = (Clashing(t, op) = {})
  BY <1>1, <1>2 DEF Tasks
<1>5. thread[t].op = "none" /\ crossed' = (crossed \/ Clashing(t, op) # {})
  BY <1>1, BeginsThreads
<1>6. \A u \in Threads \ {t} : /\ Same(u)
              /\ thread'[u].clean = (thread[u].clean /\ ~Clash(op, thread[u].op))
  BY <1>1, BeginsThreads DEF OthersSame
<1> QED
  BY <1>3, <1>4, <1>5, <1>6

LEMMA LockStep == TypeOK /\ LockInv /\ [Next]_vars => LockInv'
<1> SUFFICES ASSUME TypeOK, LockInv, [Next]_vars,
                    NEW u \in Threads, thread'[u].op \in {"update", "config"}
             PROVE  lock' = u /\ record' # None
  BY DEF LockInv
<1> USE DEF entry
<1>n. None \notin Threads /\ None \notin Records
  BY NoneAssumption
<1>t. TypeOK'
  BY TypeStep
<1>1. ASSUME NEW t \in Threads, Files(t) \/ Settings(t) \/ WriteFails(t), t # u
      PROVE  lock' = u /\ record' # None
  <2>1. thread[u].op \in {"update", "config"}
    BY <1>1, Bystander DEF Same
  <2>2. lock = u /\ record # None /\ u # None
    BY <2>1, <1>n DEF LockInv
  <2>3. thread[t].op \notin {"update", "config"}
    BY <1>1, <2>2 DEF LockInv
  <2>4. ~SaveUpdate(t) /\ ~SaveConfig(t) /\ ~WriteSecrets(t)
    <3>1. thread[t].at \notin {"write", "save"}
      BY <2>3, OpAt DEF TypeOK, ThreadsOK, Tasks
    <3> QED
      BY <2>3, <3>1 DEF SaveUpdate, SaveConfig, WriteSecrets, At
  <2>5. lock' = u
    BY <1>1, <2>2, <2>4 DEF Files, Settings, WriteFails, Install, Update, ClearLeftovers, BeginCopy,
       EndCopy, CheckCopy, Aside, SwapIn, DropPrevious, SaveInstall, RemoveRecord, DropSecrets,
       RemoveFiles, ReadConfig, SetEnabled, SetActive, ClearActive, BeginTest, EndTest,
       Moves, Raises, Unlock, Free, LockFree
  <2>6. record' = record
    BY <1>1, <2>2, <2>4 DEF Files, Settings, WriteFails, Install, Update, ClearLeftovers, BeginCopy,
       EndCopy, CheckCopy, Aside, SwapIn, DropPrevious, SaveInstall, RemoveRecord, DropSecrets,
       RemoveFiles, ReadConfig, SetEnabled, SetActive, ClearActive, BeginTest, EndTest,
       Moves, Raises, Unlock, Free, LockFree
  <2> QED
    BY <2>2, <2>5, <2>6
<1>2. ASSUME Files(u) \/ Settings(u) \/ WriteFails(u) PROVE lock' = u /\ record' # None
  <2>1. CASE \E v \in Versions : Install(u, v)
    BY <2>1, InstallBegins, FreshOp
  <2>2. CASE \E v \in Versions : Update(u, v)
    <3>1. CASE record = None
      BY <2>2, <3>1, OpAt DEF Update, AtOnce, At, TypeOK, ThreadsOK, Tasks
    <3> QED
      BY <2>2, <3>1, UpdateBegins
  <2>3. CASE RemoveRecord(u)
    <3>1. CASE record = None
      BY <2>3, <3>1, OpAt DEF RemoveRecord, AtOnce, At, TypeOK, ThreadsOK, Tasks
    <3> QED
      BY <2>3, <3>1, RemoveBegins, FreshOp
  <2>4. CASE ReadConfig(u)
    BY <2>4 DEF ReadConfig
  <2>5. CASE BeginTest(u)
    BY <2>5, TestBegins, FreshOp
  <2>6. CASE Ends(u)
    BY <2>6, EndsThreads DEF Resting
  <2>7. CASE /\ thread'[u].op = thread[u].op
             /\ record' = record /\ lock' = lock
    BY <2>7 DEF LockInv
  <2>8. thread[u] \in Tasks
    BY DEF TypeOK, ThreadsOK
  <2>9. ASSUME NEW where, Goes(u, where) PROVE thread'[u].op = thread[u].op
    BY <2>8, <2>9, GoesThreads DEF Tasks
  <2>10. CASE Aside(u)
    BY <2>6, <2>7, <2>8, <2>10 DEF Aside, Raises, TypeOK, ThreadsOK, Tasks
  <2>11. CASE SetEnabled(u, TRUE) \/ SetEnabled(u, FALSE) \/ SetActive(u) \/ ClearActive(u)
    BY <2>11, OpAt DEF SetEnabled, SetActive, ClearActive, AtOnce, At, TypeOK, ThreadsOK, Tasks
  <2>12. CASE ClearLeftovers(u) \/ BeginCopy(u) \/ EndCopy(u) \/ CheckCopy(u) \/ SwapIn(u)
              \/ DropPrevious(u) \/ SaveInstall(u) \/ SaveUpdate(u) \/ DropSecrets(u) \/ RemoveFiles(u)
    BY <2>6, <2>7, <2>9, <2>12
       DEF ClearLeftovers, BeginCopy, EndCopy, CheckCopy, SwapIn, DropPrevious, SaveInstall,
           SaveUpdate, DropSecrets, RemoveFiles, Moves, Raises
  <2>13. CASE WriteSecrets(u) \/ SaveConfig(u) \/ EndTest(u) \/ WriteFails(u)
    BY <2>6, <2>7, <2>9, <2>13 DEF WriteSecrets, SaveConfig, EndTest, WriteFails
  <2> QED
    BY <1>2, <2>1, <2>2, <2>3, <2>4, <2>5, <2>10, <2>11, <2>12, <2>13 DEF Files, Settings
<1>3. CASE Crash
  BY <1>3 DEF Crash, Resting
<1>4. CASE UNCHANGED vars
  BY <1>4 DEF vars, LockInv
<1> QED
  BY <1>1, <1>2, <1>3, <1>4 DEF Next

(***************************************************************************)
(* Company: a clean request has the files, and the provider it configures  *)
(* or removes, to itself.                                                  *)
(***************************************************************************)
Alone == \A t, u \in Threads : t # u /\ thread[t].clean => ~Clash(thread[t].op, thread[u].op)
Innocent == \A t \in Threads : thread[t].op \in {"none", "test"} => thread[t].clean
Uncrossed == ~crossed => \A t \in Threads : thread[t].clean
Company == Alone /\ Innocent /\ Uncrossed

LEMMA ClashSymmetric == \A a, b : Clash(a, b) <=> Clash(b, a)
BY DEF Clash
LEMMA NoClash == \A a : ~Clash("none", a) /\ ~Clash("test", a)
BY DEF Clash

LEMMA ClashingAre ==
  ASSUME NEW t \in Threads, NEW op, Clashing(t, op) = {}
  PROVE  \A u \in Threads \ {t} : ~Clash(op, thread[u].op)
BY DEF Clashing

Acts(t) == Files(t) \/ Settings(t) \/ WriteFails(t)

(* One installs for good with nobody else on the files, so nobody is left whom
   another has crossed. *)
LEMMA SaveInstallUncrosses ==
  ASSUME TypeOK, LockInv, Company, NEW t \in Threads, SaveInstall(t), thread[t].clean
  PROVE  \A u \in Threads : thread[u].clean
<1> SUFFICES ASSUME NEW u \in Threads, u # t PROVE thread[u].clean
  OBVIOUS
<1>1. thread[u].op \notin FileOps
  BY DEF Company, Alone, Clash, FileOps, SaveInstall
<1>2. thread[u].op # "config"
  BY NoneAssumption DEF LockInv, SaveInstall, Free
<1>3. thread[u].op \in Ops
  BY DEF TypeOK, ThreadsOK, Tasks
<1> QED
  BY <1>1, <1>2, <1>3 DEF Company, Innocent, FileOps, Ops

LEMMA CompanyStep == TypeOK /\ LockInv /\ Company /\ [Next]_vars => Company'
<1> SUFFICES ASSUME TypeOK, LockInv, Company, [Next]_vars PROVE Company'
  OBVIOUS
<1>1. ASSUME NEW t \in Threads, Acts(t) PROVE Company'
  <2>1. ASSUME NEW op \in Ops \ {"none"}, Fresh(t, op) PROVE Company'
    <3>0. /\ thread'[t].op = op
          /\ thread'[t].clean => \A u \in Threads \ {t} : ~Clash(op, thread[u].op)
          /\ ~crossed' => ~crossed /\ \A u \in Threads \ {t} : ~Clash(op, thread[u].op)
          /\ op = "test" => thread'[t].clean
          /\ ~crossed' => thread'[t].clean
      BY <2>1, FreshOp, NoClash DEF Clashing
    <3>n. \A u \in Threads \ {t} :
            /\ thread'[u].op = thread[u].op
            /\ thread'[u].clean = (thread[u].clean /\ ~Clash(op, thread[u].op))
      BY <2>1, FreshOp DEF Same
    <3>1. Alone'
      <4> SUFFICES ASSUME NEW u \in Threads, NEW w \in Threads, u # w, thread'[u].clean
                   PROVE  ~Clash(thread'[u].op, thread'[w].op)
        BY DEF Alone
      <4>1. CASE u = t
        BY <3>0, <3>n, <4>1
      <4>2. CASE w = t
        BY <3>0, <3>n, <4>2, ClashSymmetric
      <4>3. CASE u # t /\ w # t
        BY <3>n, <4>3 DEF Alone, Company
      <4> QED
        BY <4>1, <4>2, <4>3
    <3>2. Innocent'
      <4> SUFFICES ASSUME NEW u \in Threads, thread'[u].op \in {"none", "test"}
                   PROVE  thread'[u].clean
        BY DEF Innocent
      <4>1. CASE u = t
        BY <2>1, <3>0, <4>1
      <4>2. CASE u # t
        BY <3>n, <4>2, NoClash, ClashSymmetric DEF Innocent, Company
      <4> QED
        BY <4>1, <4>2
    <3>3. Uncrossed'
      BY <3>0, <3>n DEF Uncrossed, Company
    <3> QED
      BY <3>1, <3>2, <3>3 DEF Company
  <2>2. ASSUME UNCHANGED thread, crossed' = crossed PROVE Company'
    BY <2>2 DEF Company, Alone, Innocent, Uncrossed
  <2>3. ASSUME \A u \in Threads \ {t} : thread'[u] = thread[u],
               \/ thread'[t] = Resting
               \/ thread'[t].op = thread[t].op /\ thread'[t].clean = thread[t].clean,
               ~crossed' => \A u \in Threads : thread[u].clean
        PROVE  Company'
    <3>0. Resting.op = "none" /\ Resting.clean
      BY DEF Resting
    <3>1. Alone'
      BY <2>3, <3>0, NoClash, ClashSymmetric DEF Alone, Company
    <3>2. Innocent' /\ Uncrossed'
      BY <2>3, <3>0 DEF Innocent, Uncrossed, Company
    <3> QED
      BY <3>1, <3>2 DEF Company
  <2>4. \/ \E op \in Ops \ {"none"} : Fresh(t, op)
        \/ ~crossed' => \A u \in Threads : thread[u].clean
    <3>1. CASE SaveInstall(t)
      BY <3>1, SaveInstallUncrosses DEF SaveInstall, Company, Uncrossed
    <3>2. CASE crossed' = crossed
      BY <3>2 DEF Company, Uncrossed
    <3>3. CASE \E v \in Versions : Install(t, v) \/ Update(t, v)
      BY <3>2, <3>3, InstallBegins, UpdateBegins DEF Update, Ops
    <3>4. CASE RemoveRecord(t)
      BY <3>2, <3>4, RemoveBegins DEF RemoveRecord, Ops
    <3>5. CASE ReadConfig(t) \/ BeginTest(t)
      BY <3>5, ConfigBegins, TestBegins DEF Ops
    <3>6. CASE ClearLeftovers(t) \/ BeginCopy(t) \/ EndCopy(t) \/ CheckCopy(t) \/ Aside(t)
             \/ SwapIn(t) \/ DropPrevious(t) \/ SaveUpdate(t) \/ DropSecrets(t)
             \/ RemoveFiles(t)
      <4>1. crossed' = crossed
        BY <3>6 DEF ClearLeftovers, BeginCopy, EndCopy, CheckCopy, Aside, SwapIn, DropPrevious,
                    SaveUpdate, DropSecrets, RemoveFiles, Moves, Raises, histories
      <4> QED
        BY <3>2, <4>1
    <3>7. CASE WriteSecrets(t) \/ SaveConfig(t) \/ SetActive(t) \/ ClearActive(t) \/ EndTest(t)
               \/ WriteFails(t) \/ SetEnabled(t, TRUE) \/ SetEnabled(t, FALSE)
      <4>1. crossed' = crossed
        BY <3>7 DEF WriteSecrets, SaveConfig, SetActive, ClearActive, EndTest, WriteFails,
                    SetEnabled, histories
      <4> QED
        BY <3>2, <4>1
    <3> QED
      BY <1>1, <3>1, <3>3, <3>4, <3>5, <3>6, <3>7 DEF Acts, Files, Settings
  <2>5. \/ \E op \in Ops \ {"none"} : Fresh(t, op)
        \/ UNCHANGED thread
        \/ /\ \A u \in Threads \ {t} : thread'[u] = thread[u]
           /\ \/ thread'[t] = Resting
              \/ thread'[t].op = thread[t].op /\ thread'[t].clean = thread[t].clean
    BY <1>1, Progress DEF Acts
  <2>6. CASE UNCHANGED thread
    BY <2>1, <2>3, <2>4, <2>6
  <2> QED
    BY <2>1, <2>3, <2>4, <2>5, <2>6
<1>2. CASE Crash
  <2>1. \A t \in Threads : thread'[t] = Resting
    BY <1>2 DEF Crash
  <2> QED
    BY <2>1, NoClash DEF Company, Alone, Innocent, Uncrossed, Resting
<1>3. CASE UNCHANGED vars
  BY <1>3 DEF vars, Company, Alone, Innocent, Uncrossed
<1> QED
  BY <1>1, <1>2, <1>3 DEF Next, Acts

(***************************************************************************)
(* The role's pointer.                                                     *)
(***************************************************************************)
LEMMA PointerStep ==
  TypeOK /\ LockInv /\ PointerInstalled /\ [Next]_vars => PointerInstalled'
<1> SUFFICES ASSUME TypeOK, LockInv, PointerInstalled, [Next]_vars, active'
             PROVE  record' # None
  BY DEF PointerInstalled
<1> USE DEF entry
<1>t. record' \in Records \cup {None}
  BY TypeStep DEF TypeOK
<1>n. None \notin Records
  BY NoneAssumption
<1>1. ASSUME NEW t \in Threads, Files(t) \/ Settings(t) \/ WriteFails(t) PROVE record' # None
  <2>1. CASE SaveInstall(t)
    <3>1. thread[t].ver \in Versions
      BY <2>1, VersionOf DEF SaveInstall, At, Swapping
    <3>2. record' \in Records
      BY <2>1, <3>1, Bounds DEF SaveInstall, Installed, Records
    <3> QED
      BY <1>n, <3>2
  <2>3. CASE SaveUpdate(t) \/ SaveConfig(t)
    <3>1. record \in Records
      BY <2>3, LockedRecord DEF TypeOK
    <3>2. record' \in Records
      <4>1. thread[t].ver \in Versions \/ SaveConfig(t)
        BY <2>3, VersionOf DEF SaveUpdate, At, Swapping
      <4>2. thread[t].plain \in Edit
        BY DEF TypeOK, ThreadsOK, Tasks
      <4> QED
        BY <2>3, <3>1, <4>1, <4>2 DEF SaveUpdate, SaveConfig, Saved, Records
    <3> QED
      BY <1>n, <3>2
  <2>4. CASE RemoveRecord(t)
    BY <2>4 DEF RemoveRecord, PointerInstalled
  <2>5. CASE SetActive(t)
    BY <2>5 DEF SetActive, MayServe
  <2>6. CASE EndTest(t)
    <3>1. record # None
      BY <2>6 DEF EndTest, PointerInstalled
    <3> DEFINE test == [plain |-> thread[t].plain, secret |-> thread[t].secret,
                        late |-> thread[t].plain # record.plain \/ thread[t].secret # secret]
    <3>2. record' = [record EXCEPT !.test = test]
      BY <2>6, <3>1 DEF EndTest
    <3>3. test \in Tests
      <4>1. (thread[t].plain # record.plain \/ thread[t].secret # secret) \in BOOLEAN
        OBVIOUS
      <4>2. thread[t].plain \in Edit /\ thread[t].secret \in Edit
        BY DEF TypeOK, ThreadsOK, Tasks
      <4> QED
        BY <4>1, <4>2 DEF Tests
    <3> HIDE DEF test
    <3>4. record' \in Records
      BY <3>1, <3>2, <3>3 DEF TypeOK, Records
    <3> QED
      BY <1>n, <3>4
  <2>7. CASE \E on \in BOOLEAN : SetEnabled(t, on)
    <3>1. PICK on \in BOOLEAN : SetEnabled(t, on)
      BY <2>7
    <3>2. record' \in Records
      BY <3>1 DEF SetEnabled, Records, TypeOK
    <3> QED
      BY <1>n, <3>2
  <2>8. CASE record' = record /\ (active' => active)
    BY <2>8 DEF PointerInstalled
  <2> QED
    BY <1>1, <2>1, <2>3, <2>4, <2>5, <2>6, <2>7, <2>8
       DEF Files, Settings, WriteFails, Install, Update, ClearLeftovers, BeginCopy, EndCopy,
           CheckCopy, Aside, SwapIn, DropPrevious, DropSecrets, RemoveFiles, ReadConfig,
           WriteSecrets, ClearActive, BeginTest, Moves, Raises
<1>2. CASE Crash
  BY <1>2 DEF Crash, PointerInstalled
<1>3. CASE UNCHANGED vars
  BY <1>3 DEF vars, PointerInstalled
<1> QED
  BY <1>1, <1>2, <1>3 DEF Next

(***************************************************************************)
(* The swap.                                                               *)
(***************************************************************************)
Laid(t) ==
  LET at == thread[t].at  ver == thread[t].ver IN
  /\ at = "copy" => disk.incoming = NoTree /\ disk.previous = NoTree
  /\ at = "copying" => disk.incoming = Torn /\ disk.previous = NoTree
  /\ at \in {"check", "aside"} => disk.incoming = ver /\ disk.previous = NoTree
  /\ at = "in" => disk.incoming = ver /\ disk.dest = NoTree
  /\ at \in {"drop", "record"} => disk.dest = ver
Staged == \A t \in Threads : thread[t].clean => Laid(t)

(* Only a request on the files changes them. *)
LEMMA DiskFrame ==
  ASSUME TypeOK, NEW t \in Threads, Acts(t), thread[t].op \notin FileOps
  PROVE  disk' = disk
<1>1. thread[t].at \notin Swapping \cup {"secrets", "files"}
  BY OpAt DEF TypeOK, ThreadsOK, Tasks, FileOps
<1> QED
  BY <1>1 DEF Acts, Files, Settings, WriteFails, Install, Update, ClearLeftovers, BeginCopy, EndCopy,
     CheckCopy, Aside, SwapIn, DropPrevious, SaveInstall, SaveUpdate, RemoveRecord, DropSecrets,
     RemoveFiles, ReadConfig, WriteSecrets, SaveConfig, SetEnabled, SetActive, ClearActive,
     BeginTest, EndTest, At, Swapping

LEMMA OwnLaid ==
  ASSUME TypeOK, LockInv, Company, Staged, NEW t \in Threads, Acts(t), thread'[t].clean
  PROVE  Laid(t)'
<1>0. thread[t] \in Tasks
  BY DEF TypeOK, ThreadsOK
<1>1. CASE thread'[t].at \notin {"copy", "copying", "check", "aside", "in", "drop", "record"}
  BY <1>1 DEF Laid
<1>2. ASSUME NEW where, Goes(t, where)
      PROVE  thread'[t].at = where /\ thread'[t].ver = thread[t].ver
             /\ thread'[t].clean = thread[t].clean
  <2>1. thread'[t] = [thread[t] EXCEPT !.at = where]
    BY <1>2, GoesThreads
  <2> QED
    BY <1>0, <2>1 DEF Tasks
<1>3. ASSUME Ends(t) PROVE Laid(t)'
  BY <1>1, <1>3, EndsThreads DEF Resting
<1>4. ASSUME NEW op, Fresh(t, op) PROVE Laid(t)'
  <2>1. PICK new \in Tasks : Begins(t, new) /\ new.op = op /\ new.at \in Stages(op)
                              /\ (op \in {"install", "update"} => new.at = "clean")
    BY <1>4 DEF Fresh
  <2>0. thread'[t] = [new EXCEPT !.clean = Clashing(t, new.op) = {}]
    BY <2>1, BeginsThreads
  <2>2. thread'[t].at = new.at
    BY <2>0 DEF Tasks
  <2>3. new.at \notin Swapping \ {"clean"}
    BY <2>1, OpAt DEF Tasks, Swapping
  <2> QED
    BY <1>1, <2>2, <2>3 DEF Swapping
<1>5. CASE UNCHANGED thread /\ At(t, "idle")
  BY <1>1, <1>5 DEF At
<1>6. ASSUME thread[t].at \in Swapping, thread[t].clean PROVE Laid(t) /\ thread[t].ver \in Versions
  BY <1>6, VersionOf DEF Staged
<1>7. CASE \E v \in Versions : Install(t, v) \/ Update(t, v)
  BY <1>4, <1>5, <1>7, InstallBegins, UpdateBegins DEF Update, AtOnce
<1>8. CASE ClearLeftovers(t)
  <2>1. thread'[t].at = "copy"
    BY <1>2, <1>8 DEF ClearLeftovers, Moves
  <2>2. disk'.incoming = NoTree /\ disk'.previous = NoTree
    BY <1>8 DEF ClearLeftovers, TypeOK
  <2> QED
    BY <2>1, <2>2 DEF Laid
<1>9. CASE BeginCopy(t)
  <2>1. CASE Raises(t)
    BY <1>3, <2>1 DEF Raises
  <2>2. CASE ~Raises(t)
    <3>1. Goes(t, "copying")
      BY <1>9, <2>2 DEF BeginCopy, Moves
    <3>2. thread'[t].at = "copying" /\ thread'[t].ver = thread[t].ver /\ thread[t].clean
      BY <1>2, <3>1
    <3>3. Laid(t) /\ thread[t].ver \in Versions /\ thread[t].at = "copy"
      BY <1>6, <1>9, <3>2 DEF BeginCopy, At, Swapping
    <3>4. disk'.incoming = Torn /\ disk'.previous = NoTree
      BY <1>9, <2>2, <3>3, TreesAre DEF BeginCopy, Laid, TypeOK
    <3> QED
      BY <3>2, <3>4 DEF Laid
  <2> QED
    BY <2>1, <2>2
<1>10. CASE EndCopy(t)
  <2>1. CASE Raises(t)
    BY <1>3, <2>1 DEF Raises
  <2>2. CASE ~Raises(t)
    <3>1. Goes(t, "check")
      BY <1>10, <2>2 DEF EndCopy, Moves
    <3>2. thread'[t].at = "check" /\ thread'[t].ver = thread[t].ver /\ thread[t].clean
      BY <1>2, <3>1
    <3>3. Laid(t) /\ thread[t].ver \in Versions /\ thread[t].at = "copying"
      BY <1>6, <1>10, <3>2 DEF EndCopy, At, Swapping
    <3>4. disk'.incoming = thread[t].ver /\ disk'.previous = NoTree
      BY <1>10, <2>2, <3>3, TreesAre DEF EndCopy, Laid, TypeOK
    <3> QED
      BY <3>2, <3>4 DEF Laid
  <2> QED
    BY <2>1, <2>2
<1>11. CASE CheckCopy(t)
  <2>1. CASE Raises(t)
    BY <1>3, <2>1 DEF Raises
  <2>2. CASE ~Raises(t)
    <3>1. Goes(t, "aside")
      BY <1>11, <2>2 DEF CheckCopy, Moves
    <3>2. thread'[t].at = "aside" /\ thread'[t].ver = thread[t].ver /\ thread[t].clean
      BY <1>2, <3>1
    <3>3. Laid(t) /\ thread[t].ver \in Versions /\ thread[t].at = "check"
      BY <1>6, <1>11, <3>2 DEF CheckCopy, At, Swapping
    <3>4. disk'.incoming = thread[t].ver /\ disk'.previous = NoTree
      BY <1>11, <2>2, <3>3, TreesAre DEF CheckCopy, Laid, TypeOK
    <3> QED
      BY <3>2, <3>4 DEF Laid
  <2> QED
    BY <2>1, <2>2
<1>12. CASE Aside(t)
  <2>1. CASE Raises(t)
    BY <1>3, <2>1 DEF Raises
  <2>2. CASE ~Raises(t)
    <3>1. thread' = [thread EXCEPT ![t].at = "in", ![t].had = disk.dest # NoTree]
      BY <1>12, <2>2 DEF Aside
    <3>2. thread'[t] = [thread[t] EXCEPT !.at = "in", !.had = disk.dest # NoTree]
      BY <3>1 DEF TypeOK, ThreadsOK
    <3>3. thread'[t].at = "in" /\ thread'[t].ver = thread[t].ver /\ thread'[t].clean = thread[t].clean
      BY <1>0, <3>2 DEF Tasks
    <3>4. disk.incoming = thread[t].ver
      BY <1>6, <1>12, <3>3 DEF Aside, At, Laid, Swapping
    <3>5. disk'.incoming = thread[t].ver /\ disk'.dest = NoTree
      BY <1>12, <2>2, <3>4 DEF Aside, TypeOK
    <3> QED
      BY <3>3, <3>5 DEF Laid
  <2> QED
    BY <2>1, <2>2
<1>13. CASE SwapIn(t)
  <2>1. CASE Raises(t)
    BY <1>3, <2>1 DEF Raises
  <2>2. CASE ~Raises(t)
    <3>1. Goes(t, "drop")
      BY <1>13, <2>2 DEF SwapIn, Moves
    <3>2. thread'[t].at = "drop" /\ thread'[t].ver = thread[t].ver /\ thread[t].clean
      BY <1>2, <3>1
    <3>3. Laid(t) /\ thread[t].ver \in Versions /\ thread[t].at = "in"
      BY <1>6, <1>13, <3>2 DEF SwapIn, At, Swapping
    <3>4. disk'.dest = thread[t].ver
      BY <1>13, <2>2, <3>3, TreesAre DEF SwapIn, Laid, TypeOK
    <3> QED
      BY <3>2, <3>4 DEF Laid
  <2> QED
    BY <2>1, <2>2
<1>14. CASE DropPrevious(t)
  <2>1. thread'[t].at = "record" /\ thread'[t].ver = thread[t].ver /\ thread[t].clean
    BY <1>2, <1>14 DEF DropPrevious, Moves
  <2>2. disk'.dest = thread[t].ver
    BY <1>6, <1>14, <2>1 DEF DropPrevious, At, Swapping, Laid, TypeOK
  <2> QED
    BY <2>1, <2>2 DEF Laid
<1>15. CASE SaveInstall(t) \/ SaveUpdate(t) \/ RemoveFiles(t) \/ SaveConfig(t) \/ EndTest(t)
            \/ WriteFails(t)
  BY <1>3, <1>15 DEF SaveInstall, SaveUpdate, RemoveFiles, SaveConfig, EndTest, WriteFails
<1>16. CASE RemoveRecord(t)
  BY <1>4, <1>5, <1>16, RemoveBegins DEF RemoveRecord, AtOnce
<1>17. CASE DropSecrets(t) \/ WriteSecrets(t)
  <2>1. thread'[t].at \in {"files", "save"}
    BY <1>2, <1>17 DEF DropSecrets, WriteSecrets
  <2> QED
    BY <1>1, <2>1
<1>18. CASE ReadConfig(t) \/ BeginTest(t)
  BY <1>4, <1>18, ConfigBegins, TestBegins
<1>19. CASE SetActive(t) \/ ClearActive(t) \/ \E on \in BOOLEAN : SetEnabled(t, on)
  BY <1>5, <1>19 DEF SetActive, ClearActive, SetEnabled, AtOnce
<1> QED
  BY <1>7, <1>8, <1>9, <1>10, <1>11, <1>12, <1>13, <1>14, <1>15, <1>16, <1>17, <1>18, <1>19
     DEF Acts, Files, Settings

LEMMA StagedStep == TypeOK /\ LockInv /\ Company /\ Staged /\ [Next]_vars => Staged'
<1> SUFFICES ASSUME TypeOK, LockInv, Company, Staged, [Next]_vars,
                    NEW u \in Threads, thread'[u].clean
             PROVE  Laid(u)'
  BY DEF Staged
<1>1. ASSUME NEW t \in Threads, Acts(t) PROVE Laid(u)'
  <2>1. CASE u = t
    BY <1>1, <2>1, OwnLaid
  <2>2. CASE u # t
    <3>1. Same(u)
      BY <1>1, <2>2, Bystander DEF Acts
    <3>2. Laid(u)
      BY <3>1 DEF Staged, Same
    <3>3. CASE thread[u].op \in FileOps
      <4>1. thread[t].op \notin FileOps
        BY <2>2, <3>1, <3>3 DEF Company, Alone, Clash, FileOps, Same
      <4> QED
        BY <1>1, <3>1, <3>2, <4>1, DiskFrame DEF Laid, Same
    <3>4. CASE thread[u].op \notin FileOps
      <4>1. thread'[u].at \notin Swapping
        BY <3>1, <3>4, OpAt DEF Same, FileOps, TypeOK, ThreadsOK, Tasks
      <4> QED
        BY <4>1 DEF Laid, Swapping
    <3> QED
      BY <3>3, <3>4
  <2> QED
    BY <2>1, <2>2
<1>2. CASE Crash
  BY <1>2 DEF Crash, Resting, Laid
<1>3. CASE UNCHANGED vars
  BY <1>3 DEF vars, Laid, Staged
<1> QED
  BY <1>1, <1>2, <1>3 DEF Next, Acts

LEMMA ExplainedStep ==
  TypeOK /\ Company /\ Staged /\ SwapsExplained /\ [Next]_vars => SwapsExplained'
<1> SUFFICES ASSUME TypeOK, Company, Staged, SwapsExplained, [Next]_vars, puzzled' PROVE FALSE
  BY DEF SwapsExplained
<1>1. PICK t \in Threads : Puzzled /\ (BeginCopy(t) \/ EndCopy(t) \/ CheckCopy(t) \/ Aside(t) \/ SwapIn(t))
  BY DEF Next, Files, Settings, Install, Update, ClearLeftovers, BeginCopy, EndCopy,
     CheckCopy, Aside, SwapIn, DropPrevious, SaveInstall, SaveUpdate, RemoveRecord, DropSecrets,
     RemoveFiles, ReadConfig, WriteSecrets, SaveConfig, SetEnabled, SetActive, ClearActive,
     BeginTest, EndTest, WriteFails, Crash, vars, histories, SwapsExplained, Moves
<1>2. thread[t].clean
  BY <1>1 DEF Puzzled, SwapsExplained, Company, Uncrossed
<1>3. Laid(t) /\ thread[t].ver # NoTree
  BY <1>1, <1>2, VersionOf, TreesAre
     DEF Staged, BeginCopy, EndCopy, CheckCopy, Aside, SwapIn, At, Swapping
<1> QED
  BY <1>1, <1>3, TreesAre DEF Laid, BeginCopy, EndCopy, CheckCopy, Aside, SwapIn, At, Moves, SwapsExplained

(***************************************************************************)
(* The files and the record.                                               *)
(***************************************************************************)
LEMMA FreshAt ==
  ASSUME TypeOK, NEW t \in Threads, NEW op \in Ops \ {"none"}, Fresh(t, op)
  PROVE  /\ op = "remove" => thread'[t].at = "secrets"
         /\ op # "remove" => thread'[t].at \in {"clean", "write", "tested"}
<1>1. PICK new \in Tasks :
        /\ Begins(t, new) /\ new.op = op /\ new.at \in Stages(op)
        /\ op \in {"install", "update"} => new.at = "clean"
        /\ op = "config" => new.at = "write"
        /\ op = "remove" => new.at = "secrets"
  BY DEF Fresh
<1>2. thread'[t] = [new EXCEPT !.clean = Clashing(t, new.op) = {}]
  BY <1>1, BeginsThreads
<1>3. thread'[t].at = new.at
  BY <1>2 DEF Tasks
<1> QED
  BY <1>1, <1>3, StagesAre DEF Ops

(* Between a request's first change and its last one the two may differ; a thread
   that has put the old tree aside knows what it was. *)
Moving == {"in", "drop", "record", "secrets", "files"}
Held == IF record = None THEN NoTree ELSE record.ver
FilesKept ==
  /\ (\A t \in Threads : thread[t].at \notin Moving) => disk.dest = Held
  /\ \A t \in Threads : thread[t].at = "in" =>
       IF thread[t].had THEN record # None /\ disk.previous = record.ver ELSE record = None
  /\ \A t \in Threads : thread[t].at \in {"secrets", "files"} => record = None
Kept == ~crossed /\ ~crashed => FilesKept

LEMMA MovingOps ==
  ASSUME TypeOK, NEW t \in Threads, thread[t].op \notin FileOps
  PROVE  thread[t].at \notin Moving /\ thread[t].at \notin Swapping
BY OpAt DEF TypeOK, ThreadsOK, Tasks, FileOps, Moving, Swapping

(* Nothing mends a crossing or a crash but an install. *)
LEMMA Blemishes ==
  ASSUME NEW t \in Threads, Acts(t), ~SaveInstall(t), ~crossed', ~crashed'
  PROVE  ~crossed /\ ~crashed
<1>1. CASE Files(t)
  <2>1. CASE \E v \in Versions : Install(t, v) \/ Update(t, v)
    <3>1. ASSUME NEW v \in Versions, Install(t, v) PROVE ~crossed /\ ~crashed
      BY <3>1 DEF Install, Begins
    <3>2. ASSUME NEW v \in Versions, Update(t, v), record # None PROVE ~crossed /\ ~crashed
      BY <3>2 DEF Update, Begins
    <3>3. ASSUME NEW v \in Versions, Update(t, v), record = None PROVE ~crossed /\ ~crashed
      BY <3>3 DEF Update
    <3> QED
      BY <2>1, <3>1, <3>2, <3>3
  <2>2. CASE RemoveRecord(t)
    BY <2>2 DEF RemoveRecord, Begins
  <2>3. CASE ClearLeftovers(t) \/ BeginCopy(t) \/ EndCopy(t) \/ CheckCopy(t) \/ Aside(t)
             \/ SwapIn(t) \/ DropPrevious(t)
    BY <2>3 DEF ClearLeftovers, BeginCopy, EndCopy, CheckCopy, Aside, SwapIn, DropPrevious,
                Moves, Raises
  <2>4. CASE SaveUpdate(t) \/ DropSecrets(t) \/ RemoveFiles(t)
    BY <2>4 DEF SaveUpdate, DropSecrets, RemoveFiles, histories
  <2> QED
    BY <1>1, <2>1, <2>2, <2>3, <2>4 DEF Files
<1>2. CASE Settings(t)
  <2>1. CASE ReadConfig(t)
    BY <2>1 DEF ReadConfig, Begins
  <2>2. CASE BeginTest(t)
    BY <2>2 DEF BeginTest, Begins
  <2>3. CASE WriteSecrets(t) \/ SaveConfig(t) \/ SetActive(t) \/ ClearActive(t) \/ EndTest(t)
             \/ \E on \in BOOLEAN : SetEnabled(t, on)
    BY <2>3 DEF WriteSecrets, SaveConfig, SetEnabled, SetActive, ClearActive, EndTest, histories
  <2> QED
    BY <1>2, <2>1, <2>2, <2>3 DEF Settings
<1>3. CASE WriteFails(t)
  BY <1>3 DEF WriteFails
<1> QED
  BY <1>1, <1>2, <1>3 DEF Acts

(* Only an install, an update or a removal changes what is installed. *)
LEMMA SameVersion ==
  ASSUME TypeOK, LockInv, NEW t \in Threads, Acts(t), thread[t].op \notin FileOps,
         RemoveRecord(t) => record = None
  PROVE  Held' = Held /\ (record' = None <=> record = None)
<1>1. thread[t].at \notin Moving /\ thread[t].at \notin Swapping
  BY MovingOps
<1>n. None \notin Records
  BY NoneAssumption
<1>2. CASE record' = record
  BY <1>2 DEF Held
<1>3. ASSUME record \in Records, record' \in Records, record'.ver = record.ver
      PROVE  Held' = Held /\ (record' = None <=> record = None)
  BY <1>n, <1>3 DEF Held
<1>4. CASE SaveConfig(t)
  <2>1. record \in Records /\ thread[t].plain \in Edit
    BY <1>4, LockedRecord DEF TypeOK, ThreadsOK, Tasks
  <2>2. record' \in Records /\ record'.ver = record.ver
    BY <1>4, <2>1 DEF SaveConfig, Saved, Records
  <2> QED
    BY <1>3, <2>1, <2>2
<1>5. CASE EndTest(t)
  <2>1. CASE record = None
    BY <1>2, <1>5, <2>1 DEF EndTest
  <2>2. CASE record # None
    <3> DEFINE test == [plain |-> thread[t].plain, secret |-> thread[t].secret,
                        late |-> thread[t].plain # record.plain \/ thread[t].secret # secret]
    <3>2. record' = [record EXCEPT !.test = test]
      BY <1>5, <2>2 DEF EndTest
    <3>3. test \in Tests
      <4>1. (thread[t].plain # record.plain \/ thread[t].secret # secret) \in BOOLEAN
        OBVIOUS
      <4>2. thread[t].plain \in Edit /\ thread[t].secret \in Edit
        BY DEF TypeOK, ThreadsOK, Tasks
      <4> QED
        BY <4>1, <4>2 DEF Tests
    <3> HIDE DEF test
    <3>4. record \in Records
      BY <2>2 DEF TypeOK
    <3>5. record' \in Records /\ record'.ver = record.ver
      BY <3>2, <3>3, <3>4 DEF Records
    <3> QED
      BY <1>3, <3>4, <3>5
  <2> QED
    BY <2>1, <2>2
<1>6. CASE \E on \in BOOLEAN : SetEnabled(t, on)
  <2>1. PICK on \in BOOLEAN : SetEnabled(t, on)
    BY <1>6
  <2>2. record \in Records
    BY <2>1 DEF SetEnabled, TypeOK
  <2>3. record' \in Records /\ record'.ver = record.ver
    BY <2>1, <2>2 DEF SetEnabled, Records
  <2> QED
    BY <1>3, <2>2, <2>3
<1>7. CASE Install(t, 1) \/ RemoveRecord(t) \/ WriteFails(t) \/ ReadConfig(t) \/ WriteSecrets(t)
           \/ SetActive(t) \/ ClearActive(t) \/ BeginTest(t)
           \/ \E v \in Versions : Install(t, v) \/ Update(t, v)
  BY <1>2, <1>7 DEF Install, Update, RemoveRecord, WriteFails, ReadConfig, WriteSecrets, SetActive,
     ClearActive, BeginTest, entry
<1> QED
  BY <1>1, <1>4, <1>5, <1>6, <1>7
     DEF Acts, Files, Settings, ClearLeftovers, BeginCopy, EndCopy, CheckCopy, Aside, SwapIn,
         DropPrevious, SaveInstall, SaveUpdate, DropSecrets, RemoveFiles, At, Swapping, Moving

(* A thread's own step on the files. *)
LEMMA OwnFiles ==
  ASSUME TypeOK, LockInv, Company, Staged, FilesKept, ~crossed, ~crashed', [Next]_vars,
         NEW t \in Threads, Acts(t), ~SaveInstall(t), thread[t].op \in FileOps
  PROVE  FilesKept'
<1> USE DEF entry
<1>0. thread[t] \in Tasks /\ thread[t].clean
  BY DEF TypeOK, ThreadsOK, Company, Uncrossed
<1>1. \A u \in Threads \ {t} : thread[u].at \notin Moving /\ thread'[u] = thread[u]
  <2>1. \A u \in Threads \ {t} : thread[u].op \notin FileOps
    BY <1>0 DEF Company, Alone, Clash, FileOps
  <2>2. ~\E op \in Ops \ {"none"} : Fresh(t, op)
    BY FreshOp DEF FileOps
  <2> QED
    BY <2>1, <2>2, MovingOps, Progress DEF Acts
<1>2. ASSUME NEW where, Goes(t, where) PROVE thread'[t].at = where
  <2>1. thread'[t] = [thread[t] EXCEPT !.at = where]
    BY <1>2, GoesThreads
  <2> QED
    BY <1>0, <2>1 DEF Tasks
<1>3. Ends(t) => thread'[t].at = "idle"
  BY EndsThreads DEF Resting
<1>4. ASSUME thread[t].at \notin Moving, thread'[t].at \notin Moving,
             disk'.dest = disk.dest, record' = record
      PROVE  FilesKept'
  BY <1>1, <1>4 DEF FilesKept, Held, Moving
<1>5. ASSUME thread'[t].at \notin Moving, disk'.dest = Held' PROVE FilesKept'
  BY <1>1, <1>5 DEF FilesKept, Moving
<1>6. thread[t].at \in Swapping => Laid(t) /\ thread[t].ver \in Versions
  BY <1>0, VersionOf DEF Staged
<1>7. CASE ClearLeftovers(t)
  <2>1. thread'[t].at = "copy"
    BY <1>2, <1>7 DEF ClearLeftovers, Moves
  <2> QED
    BY <1>4, <1>7, <2>1 DEF ClearLeftovers, Moves, At, Moving, TypeOK
<1>8. CASE BeginCopy(t)
  <2>1. thread'[t].at \in {"idle", "copying"}
    BY <1>2, <1>3, <1>8 DEF BeginCopy, Moves, Raises
  <2> QED
    BY <1>4, <1>8, <2>1 DEF BeginCopy, Moves, Raises, At, Moving, TypeOK
<1>9. CASE EndCopy(t)
  <2>1. thread'[t].at \in {"idle", "check"}
    BY <1>2, <1>3, <1>9 DEF EndCopy, Moves, Raises
  <2> QED
    BY <1>4, <1>9, <2>1 DEF EndCopy, Moves, Raises, At, Moving, TypeOK
<1>10. CASE CheckCopy(t)
  <2>1. thread'[t].at \in {"idle", "aside"}
    BY <1>2, <1>3, <1>10 DEF CheckCopy, Moves, Raises
  <2> QED
    BY <1>4, <1>10, <2>1 DEF CheckCopy, Moves, Raises, At, Moving, TypeOK
<1>11. CASE Aside(t)
  <2>1. CASE Raises(t)
    <3>1. thread'[t].at = "idle"
      BY <1>3, <2>1 DEF Raises
    <3>2. disk' = disk
      <4>1. ASSUME thread' = [thread EXCEPT ![t].at = "in", ![t].had = disk.dest # NoTree]
            PROVE  FALSE
        <5>1. thread'[t] = [thread[t] EXCEPT !.at = "in", !.had = disk.dest # NoTree]
          BY <4>1 DEF TypeOK, ThreadsOK
        <5>2. thread'[t].at = "in"
          BY <1>0, <5>1 DEF Tasks
        <5> QED
          BY <3>1, <5>2
      <4> QED
        BY <1>11, <4>1 DEF Aside
    <3>3. thread[t].at \notin Moving /\ thread'[t].at \notin Moving
      BY <1>11, <3>1 DEF Aside, At, Moving
    <3> QED
      BY <1>4, <2>1, <3>2, <3>3 DEF Raises
  <2>2. CASE ~Raises(t)
    <3>1. thread' = [thread EXCEPT ![t].at = "in", ![t].had = disk.dest # NoTree]
      BY <1>11, <2>2 DEF Aside
    <3>2. thread'[t] = [thread[t] EXCEPT !.at = "in", !.had = disk.dest # NoTree]
      BY <3>1 DEF TypeOK, ThreadsOK
    <3>3. thread'[t].at = "in" /\ thread'[t].had = (disk.dest # NoTree)
      BY <1>0, <3>2 DEF Tasks
    <3>4. disk.dest = Held
      BY <1>1, <1>11 DEF FilesKept, Aside, At, Moving
    <3>5. record' = record
      BY <1>11, <2>2 DEF Aside
    <3>6. record # None => record.ver # NoTree
      BY TreesAre DEF TypeOK, Records
    <3>7. IF thread'[t].had THEN record' # None /\ disk'.previous = record'.ver ELSE record' = None
      <4>1. CASE record = None
        BY <3>3, <3>4, <3>5, <4>1 DEF Held
      <4>2. CASE record # None
        <5>1. disk.dest = record.ver /\ disk.dest # NoTree
          BY <3>4, <3>6, <4>2 DEF Held
        <5>2. disk'.previous = disk.dest
          BY <1>11, <2>2, <5>1 DEF Aside, TypeOK
        <5> QED
          BY <3>3, <3>5, <4>2, <5>1, <5>2
      <4> QED
        BY <4>1, <4>2
    <3> QED
      BY <1>1, <3>3, <3>7 DEF FilesKept, Moving
  <2> QED
    BY <2>1, <2>2
<1>12. CASE SwapIn(t)
  <2>0. thread[t].at = "in" /\ Laid(t) /\ thread[t].ver # NoTree
    BY <1>6, <1>12, TreesAre DEF SwapIn, At, Swapping
  <2>1. CASE Goes(t, "drop")
    BY <1>1, <1>2, <2>1 DEF FilesKept, Moving
  <2>2. CASE ~Goes(t, "drop")
    <3>1. disk' = Restored(thread[t].had) /\ Ends(t) /\ record' = record
      BY <1>12, <2>2 DEF SwapIn, Moves, Raises
    <3>2. disk.dest = NoTree
      BY <2>0 DEF Laid
    <3>3. disk'.dest = Held
      <4>1. CASE ~thread[t].had
        BY <2>0, <3>1, <3>2, <4>1 DEF FilesKept, Restored, Held, TypeOK
      <4>2. CASE thread[t].had
        <5>1. record # None /\ disk.previous = record.ver
          BY <2>0, <4>2 DEF FilesKept
        <5>2. disk.previous # NoTree
          BY <5>1, TreesAre DEF TypeOK, Records
        <5> QED
          BY <3>1, <3>2, <4>2, <5>1, <5>2 DEF Restored, Held, TypeOK
      <4> QED
        BY <4>1, <4>2
    <3> QED
      BY <1>3, <1>5, <3>1, <3>3 DEF Held, Moving
  <2> QED
    BY <2>1, <2>2
<1>13. CASE DropPrevious(t)
  BY <1>1, <1>2, <1>13 DEF DropPrevious, Moves, FilesKept, Moving
<1>14. CASE SaveUpdate(t)
  <2>1. record \in Records /\ thread[t].ver \in Versions
    BY <1>6, <1>14, LockedRecord DEF SaveUpdate, At, Swapping, TypeOK
  <2>2. record' \in Records /\ record'.ver = thread[t].ver
    BY <1>14, <2>1 DEF SaveUpdate, Records
  <2>3. Held' = thread[t].ver
    BY <2>2, NoneAssumption DEF Held
  <2>4. disk'.dest = thread[t].ver
    BY <1>6, <1>14 DEF SaveUpdate, At, Swapping, Laid
  <2> QED
    BY <1>3, <1>5, <1>14, <2>3, <2>4 DEF SaveUpdate, Moving
<1>15. CASE DropSecrets(t)
  <2>1. thread'[t].at = "files"
    BY <1>2, <1>15 DEF DropSecrets
  <2> QED
    BY <1>1, <1>15, <2>1 DEF DropSecrets, At, FilesKept, Moving
<1>16. CASE RemoveFiles(t)
  <2>1. record = None /\ record' = record
    BY <1>16 DEF RemoveFiles, At, FilesKept
  <2>2. disk'.dest = NoTree
    BY <1>16 DEF RemoveFiles, TypeOK
  <2> QED
    BY <1>3, <1>5, <1>16, <2>1, <2>2 DEF RemoveFiles, Held, Moving
<1>17. thread[t].at \in Swapping \cup {"secrets", "files"}
  <2>1. thread[t].at \in Stages(thread[t].op)
    BY DEF TypeOK, ThreadsOK
  <2> QED
    BY <2>1, StagesAre DEF FileOps
<1>18. CASE WriteFails(t)
  BY <1>17, <1>18 DEF WriteFails, AtRisk, Swapping
<1> QED
  BY <1>7, <1>8, <1>9, <1>10, <1>11, <1>12, <1>13, <1>14, <1>15, <1>16, <1>17, <1>18
     DEF Acts, Files, Settings, Install, Update, RemoveRecord, ReadConfig, WriteSecrets, SaveConfig,
         SetEnabled, SetActive, ClearActive, BeginTest, EndTest, Begins, AtOnce, At, Swapping

LEMMA KeptStep ==
  TypeOK /\ LockInv /\ Company /\ Staged /\ Kept /\ [Next]_vars => Kept'
<1> SUFFICES ASSUME TypeOK, LockInv, Company, Staged, Kept, [Next]_vars, ~crossed', ~crashed'
             PROVE  FilesKept'
  BY DEF Kept
<1>1. ASSUME NEW t \in Threads, SaveInstall(t) PROVE FilesKept'
  <2>1. thread[t].clean
    BY <1>1 DEF SaveInstall, Company, Uncrossed
  <2>2. \A u \in Threads \ {t} : thread[u].op \notin FileOps
    BY <1>1, <2>1 DEF SaveInstall, Company, Alone, Clash, FileOps
  <2>3. \A u \in Threads : thread'[u].at \notin Moving
    BY <1>1, <2>2, MovingOps, EndsThreads DEF SaveInstall, Resting, Moving
  <2>4. thread[t].ver \in Versions /\ Laid(t)
    BY <1>1, <2>1, VersionOf DEF SaveInstall, At, Swapping, Staged
  <2>5. record' \in Records /\ record'.ver = thread[t].ver
    BY <1>1, <2>4, Bounds DEF SaveInstall, Installed, Records
  <2>6. disk'.dest = Held'
    BY <1>1, <2>4, <2>5, NoneAssumption DEF SaveInstall, At, Laid, Held
  <2> QED
    BY <2>3, <2>6 DEF FilesKept, Moving
<1>2. ASSUME NEW t \in Threads, Acts(t), ~SaveInstall(t) PROVE FilesKept'
  <2>1. ~crossed /\ ~crashed /\ FilesKept
    BY <1>2, Blemishes DEF Kept
  <2>2. CASE thread[t].op \in FileOps
    BY <1>2, <2>1, <2>2, OwnFiles
  <2>3. CASE thread[t].op \notin FileOps
    <3>1. disk' = disk /\ thread[t].at \notin Moving
      BY <1>2, <2>3, DiskFrame, MovingOps
    <3>2. \A u \in Threads \ {t} : thread'[u].at = thread[u].at /\ thread'[u].had = thread[u].had
      BY <1>2, Bystander DEF Acts, Same
    <3>3. CASE RemoveRecord(t) /\ record # None
      <4>1. Fresh(t, "remove")
        BY <3>3, RemoveBegins
      <4>2. thread'[t].at = "secrets" /\ record' = None
        BY <3>3, <4>1, FreshAt DEF RemoveRecord, Ops
      <4>3. Clashing(t, "remove") = {}
        BY <4>1, FreshOp
      <4>4. \A u \in Threads \ {t} : thread[u].op \notin FileOps
        BY <4>3, ClashingAre DEF Clash, FileOps
      <4> QED
        BY <3>2, <4>2, <4>4, MovingOps DEF FilesKept, Moving
    <3>4. CASE RemoveRecord(t) => record = None
      <4>1. Held' = Held /\ (record' = None <=> record = None)
        BY <1>2, <2>3, <3>4, SameVersion
      <4>2. thread'[t].at \notin Moving
        <5>1. CASE UNCHANGED thread
          BY <3>1, <5>1
        <5>2. ASSUME NEW op \in Ops \ {"none", "remove"}, Fresh(t, op) PROVE thread'[t].at \notin Moving
          BY <5>2, FreshAt DEF Moving
        <5>3. CASE Ends(t)
          BY <5>3, EndsThreads DEF Resting, Moving
        <5>4. CASE WriteSecrets(t)
          <6>1. thread'[t] = [thread[t] EXCEPT !.at = "save"]
            BY <5>4, GoesThreads DEF WriteSecrets
          <6>2. thread'[t].at = "save"
            BY <6>1 DEF TypeOK, ThreadsOK, Tasks
          <6> QED
            BY <6>2 DEF Moving
        <5>5. CASE \E v \in Versions : Install(t, v) \/ Update(t, v)
          BY <5>1, <5>2, <5>5, InstallBegins, UpdateBegins DEF Update, AtOnce, Ops
        <5>6. CASE ReadConfig(t) \/ BeginTest(t)
          BY <5>2, <5>6, ConfigBegins, TestBegins DEF Ops
        <5>7. CASE RemoveRecord(t) \/ SetActive(t) \/ ClearActive(t)
                   \/ \E on \in BOOLEAN : SetEnabled(t, on)
          BY <3>4, <5>1, <5>7 DEF RemoveRecord, SetActive, ClearActive, SetEnabled, AtOnce
        <5>8. CASE SaveConfig(t) \/ EndTest(t) \/ WriteFails(t)
          BY <5>3, <5>8 DEF SaveConfig, EndTest, WriteFails
        <5>9. thread[t].at \notin Moving /\ thread[t].at \notin Swapping
          BY <2>3, MovingOps
        <5> QED
          BY <1>2, <5>4, <5>5, <5>6, <5>7, <5>8, <5>9
             DEF Acts, Files, Settings, ClearLeftovers, BeginCopy, EndCopy, CheckCopy, Aside, SwapIn,
                 DropPrevious, SaveInstall, SaveUpdate, DropSecrets, RemoveFiles, At, Swapping, Moving
      <4>3. record # None => record'.ver = record.ver
        BY <4>1 DEF Held
      <4> QED
        BY <2>1, <3>1, <3>2, <4>1, <4>2, <4>3 DEF FilesKept, Moving
    <3> QED
      BY <3>3, <3>4
  <2> QED
    BY <2>2, <2>3
<1>3. CASE Crash
  <2>1. \A t \in Threads : thread[t].at \notin Moving
    BY <1>3 DEF Crash, AtRisk, Moving
  <2>2. disk' = disk /\ record' = record /\ FilesKept
    BY <1>3 DEF Crash, entry, Kept
  <2>3. \A t \in Threads : thread'[t].at \notin Moving
    BY <1>3 DEF Crash, Resting, Moving
  <2> QED
    BY <2>1, <2>2, <2>3 DEF FilesKept, Held, Moving
<1>4. CASE UNCHANGED vars
  BY <1>4 DEF vars, entry, histories, Kept, FilesKept, Held
<1> QED
  BY <1>1, <1>2, <1>3, <1>4 DEF Next, Acts

(***************************************************************************)
(* The configuration.                                                      *)
(***************************************************************************)
TestFits == record.test # None => \/ record.test.late
                                  \/ record.test.plain = record.plain /\ record.test.secret = secret
Merged(t) ==
  /\ thread[t].plain  = IF "plain" \in thread[t].fields THEN thread[t].val ELSE want.plain
  /\ thread[t].secret = IF "secret" \in thread[t].fields THEN thread[t].val ELSE want.secret
EditsFit ==
  /\ record # None /\ (\A t \in Threads : thread[t].at # "save") =>
       record.plain = want.plain /\ secret = want.secret /\ TestFits
  /\ \A t \in Threads : thread[t].op = "config" => Merged(t)
  /\ \A t \in Threads : thread[t].at = "save" => secret = thread[t].secret
Edited == ~crossed /\ ~crashed => EditsFit

LEMMA SaveIsConfig ==
  ASSUME TypeOK, NEW t \in Threads, thread[t].at \in {"write", "save"}
  PROVE  thread[t].op = "config"
BY OpAt DEF TypeOK, ThreadsOK, Tasks

(* One change of the configuration at a time. *)
LEMMA OneConfig ==
  ASSUME LockInv, NEW t \in Threads \cup {None}, lock = t, NEW u \in Threads, u # t
  PROVE  thread[u].op # "config"
BY DEF LockInv

(* A step that has nothing to do with the configuration. *)
LEMMA Elsewhere ==
  ASSUME TypeOK, LockInv, EditsFit, NEW t \in Threads, Acts(t),
         thread'[t].op # "config", thread[t].at # "save",
         want' = want, secret' = secret, record' # None => record # None,
         record' # None => record'.plain = record.plain /\ (TestFits => TestFits')
  PROVE  EditsFit'
<1>1. \A u \in Threads \ {t} : Same(u)
  BY Bystander DEF Acts
<1>2. thread'[t].at # "save"
  <2>1. TypeOK'
    BY TypeStep DEF Next, Acts
  <2> QED
    BY <2>1, OpAt DEF TypeOK, ThreadsOK, Tasks
<1>3. (\A u \in Threads : thread'[u].at # "save") => \A u \in Threads : thread[u].at # "save"
  BY <1>1 DEF Same
<1>4. \A u \in Threads : thread'[u].op = "config" => Merged(u)'
  BY <1>1 DEF Same, Merged, EditsFit
<1>5. \A u \in Threads : thread'[u].at = "save" => secret' = thread'[u].secret
  BY <1>1, <1>2 DEF Same, EditsFit
<1> QED
  BY <1>3, <1>4, <1>5 DEF EditsFit

LEMMA EditedStep ==
  TypeOK /\ LockInv /\ Company /\ Kept /\ Edited /\ [Next]_vars => Edited'
<1> SUFFICES ASSUME TypeOK, LockInv, Company, Kept, Edited, [Next]_vars, ~crossed', ~crashed'
             PROVE  EditsFit'
  BY DEF Edited
<1> USE DEF entry, histories
<1>n. None \notin Records /\ None \notin Threads /\ None \notin Tests
  BY NoneAssumption
<1>t. TypeOK' /\ LockInv'
  BY TypeStep, LockStep
<1>1. ASSUME NEW t \in Threads, SaveInstall(t) PROVE EditsFit'
  <2>1. \A u \in Threads : thread'[u].op # "config"
    <3>1. \A u \in Threads : thread[u].op # "config"
      BY <1>1, <1>n DEF SaveInstall, Free, LockInv
    <3> QED
      BY <1>1, <3>1, EndsThreads DEF SaveInstall, Resting
  <2>2. \A u \in Threads : thread'[u].at # "save"
    BY <1>t, <2>1, OpAt DEF TypeOK, ThreadsOK, Tasks
  <2>3. record'.plain = want'.plain /\ secret' = want'.secret /\ record'.test = None
    BY <1>1 DEF SaveInstall, Installed
  <2> QED
    BY <2>1, <2>2, <2>3 DEF EditsFit, TestFits
<1>2. ASSUME NEW t \in Threads, Acts(t), ~SaveInstall(t) PROVE EditsFit'
  <2>1. ~crossed /\ ~crashed /\ FilesKept /\ EditsFit
    BY <1>2, Blemishes DEF Kept, Edited
  <2>2. \A u \in Threads \ {t} : Same(u)
    BY <1>2, Bystander DEF Acts
  <2>0. thread[t] \in Tasks
    BY DEF TypeOK, ThreadsOK
  <2>3. ASSUME Ends(t), thread[t].at # "save",
               want' = want, secret' = secret, record' # None => record # None,
               record' # None => record'.plain = record.plain /\ (TestFits => TestFits')
        PROVE  EditsFit'
    BY <1>2, <2>1, <2>3, Elsewhere, EndsThreads DEF Resting
  <2>4. ASSUME NEW where, Goes(t, where)
        PROVE  thread'[t] = [thread[t] EXCEPT !.at = where]
    BY <2>4, GoesThreads
  <2>5. CASE \E v \in Versions : Install(t, v) \/ Update(t, v)
    <3>1. record' = record /\ secret' = secret /\ want' = want
      BY <2>5 DEF Install, Update
    <3>2. thread[t].at = "idle" /\ thread'[t].op # "config"
      <4>1. thread[t].at = "idle"
        BY <2>5 DEF Install, Update, Begins, AtOnce, At
      <4>2. thread[t].op = "none"
        BY <2>0, <4>1, OpAt DEF TypeOK, ThreadsOK, Tasks
      <4>3. Fresh(t, "install") \/ Fresh(t, "update") \/ thread' = thread
        BY <2>5, InstallBegins, UpdateBegins DEF Update, AtOnce
      <4>4. thread'[t].op # "config"
        BY <4>2, <4>3, FreshOp
      <4> QED
        BY <4>1, <4>4
    <3> QED
      BY <1>2, <2>1, <3>1, <3>2, Elsewhere DEF TestFits
  <2>6. CASE ClearLeftovers(t) \/ BeginCopy(t) \/ EndCopy(t) \/ CheckCopy(t) \/ SwapIn(t)
             \/ DropPrevious(t) \/ Aside(t)
    <3>1. thread[t].at \in Swapping
      BY <2>6 DEF ClearLeftovers, BeginCopy, EndCopy, CheckCopy, SwapIn, DropPrevious, Aside,
                  At, Swapping
    <3>2. record' = record /\ secret' = secret /\ want' = want
      BY <2>6 DEF ClearLeftovers, BeginCopy, EndCopy, CheckCopy, SwapIn, DropPrevious, Aside,
                  Moves, Raises
    <3>3. thread[t].op \in {"install", "update"} /\ thread[t].at # "save"
      BY <2>0, <3>1, OpAt DEF TypeOK, ThreadsOK, Tasks, Swapping
    <3>4. thread'[t].op # "config"
      BY <1>2, <3>3, OwnOp, FreshOp DEF Acts
    <3> QED
      BY <1>2, <2>1, <3>2, <3>3, <3>4, Elsewhere DEF TestFits
  <2>7. CASE SaveUpdate(t)
    <3>1. record \in Records /\ thread[t].ver \in Versions
      BY <2>7, LockedRecord, VersionOf DEF SaveUpdate, At, Swapping, TypeOK
    <3>2. record'.plain = record.plain /\ record'.test = record.test
      BY <2>7, <3>1 DEF SaveUpdate, Records
    <3> QED
      BY <1>n, <2>3, <2>7, <3>1, <3>2 DEF SaveUpdate, At, TestFits
  <2>8. CASE RemoveRecord(t)
    <3>1. CASE record = None
      <4>1. thread[t].at = "idle" /\ thread' = thread
        BY <2>8, <3>1 DEF RemoveRecord, AtOnce, At
      <4>2. thread'[t].op # "config"
        BY <2>0, <4>1, OpAt DEF TypeOK, ThreadsOK, Tasks
      <4> QED
        BY <1>2, <2>1, <2>8, <3>1, <4>1, <4>2, Elsewhere DEF RemoveRecord
    <3>2. CASE record # None
      <4>1. Fresh(t, "remove") /\ record' = None
        BY <2>8, <3>2, RemoveBegins DEF RemoveRecord
      <4>2. \A u \in Threads : thread'[u].op # "config"
        BY <1>t, <4>1 DEF LockInv
      <4>3. \A u \in Threads : thread'[u].at # "save"
        BY <1>t, <4>2, OpAt DEF TypeOK, ThreadsOK, Tasks
      <4> QED
        BY <4>1, <4>2, <4>3 DEF EditsFit
    <3> QED
      BY <3>1, <3>2
  <2>9. CASE DropSecrets(t)
    <3>1. record' = None
      BY <2>1, <2>9 DEF DropSecrets, At, FilesKept
    <3>2. \A u \in Threads : thread'[u].op # "config"
      BY <1>t, <3>1 DEF LockInv
    <3>3. \A u \in Threads : thread'[u].at # "save"
      BY <1>t, <3>2, OpAt DEF TypeOK, ThreadsOK, Tasks
    <3> QED
      BY <3>1, <3>2, <3>3 DEF EditsFit
  <2>10. CASE RemoveFiles(t)
    BY <2>3, <2>10 DEF RemoveFiles, At, TestFits
  <2>11. CASE ReadConfig(t)
    <3>1. PICK new \in Tasks, e \in Edits, n \in Edit : Begins(t, new) /\ Reads(new, e, n)
      BY <2>11, ConfigReads
    <3>2. thread'[t] = [new EXCEPT !.clean = Clashing(t, new.op) = {}]
      BY <3>1, BeginsThreads
    <3>3. /\ thread'[t].op = "config" /\ thread'[t].at = "write" /\ thread'[t].fields = new.fields
          /\ thread'[t].val = new.val /\ thread'[t].plain = new.plain
          /\ thread'[t].secret = new.secret
      BY <3>1, <3>2 DEF Tasks, Reads
    <3>4. \A u \in Threads : thread[u].op # "config"
      BY <2>11, <1>n, OneConfig DEF ReadConfig, LockFree
    <3>5. \A u \in Threads : thread[u].at # "save"
      BY <3>4, SaveIsConfig
    <3>6. record # None /\ record' = record /\ secret' = secret /\ want' = want
      BY <2>11 DEF ReadConfig
    <3>7. record.plain = want.plain /\ secret = want.secret /\ TestFits
      BY <2>1, <3>5, <3>6 DEF EditsFit
    <3>8. Merged(t)'
      BY <3>1, <3>3, <3>6, <3>7 DEF Merged, Reads
    <3>9. \A u \in Threads \ {t} : thread'[u].op # "config" /\ thread'[u].at # "save"
      BY <2>2, <3>4, <3>5 DEF Same
    <3> QED
      BY <3>3, <3>6, <3>7, <3>8, <3>9 DEF EditsFit, TestFits
  <2>12. CASE WriteSecrets(t)
    <3>1. thread[t].op = "config"
      BY <2>12, SaveIsConfig DEF WriteSecrets, At
    <3>2. \A u \in Threads \ {t} : thread[u].op # "config"
      BY <3>1, OneConfig DEF LockInv
    <3>3. \A u \in Threads \ {t} : thread'[u].op # "config" /\ thread'[u].at # "save"
      BY <2>2, <3>2, SaveIsConfig DEF Same
    <3>4. thread'[t] = [thread[t] EXCEPT !.at = "save"]
      BY <2>4, <2>12 DEF WriteSecrets
    <3>5. /\ thread'[t].at = "save" /\ thread'[t].fields = thread[t].fields
          /\ thread'[t].val = thread[t].val /\ thread'[t].plain = thread[t].plain
          /\ thread'[t].secret = thread[t].secret
      BY <2>0, <3>4 DEF Tasks
    <3>6. Merged(t)' /\ secret' = thread'[t].secret
      BY <2>1, <2>12, <3>1, <3>5 DEF WriteSecrets, EditsFit, Merged
    <3> QED
      BY <3>3, <3>5, <3>6 DEF EditsFit
  <2>13. CASE SaveConfig(t)
    <3>1. thread[t].op = "config" /\ thread[t].at = "save"
      BY <2>13, SaveIsConfig DEF SaveConfig, At
    <3>2. \A u \in Threads \ {t} : thread[u].op # "config"
      BY <3>1, OneConfig DEF LockInv
    <3>3. \A u \in Threads : thread'[u].op # "config" /\ thread'[u].at # "save"
      BY <2>2, <2>13, <3>2, SaveIsConfig, EndsThreads DEF Same, SaveConfig, Resting
    <3>4. record \in Records
      BY <2>13, LockedRecord DEF TypeOK
    <3>5. record'.plain = thread[t].plain /\ record'.test = None
      BY <2>13, <3>4 DEF SaveConfig, Saved, Records
    <3>6. Merged(t) /\ secret = thread[t].secret
      BY <2>1, <3>1 DEF EditsFit
    <3>7. thread[t].plain = want'.plain /\ secret' = want'.secret
      BY <2>13, <3>6 DEF SaveConfig, Merged
    <3> QED
      BY <3>3, <3>5, <3>7 DEF EditsFit, TestFits
  <2>14. CASE \E on \in BOOLEAN : SetEnabled(t, on)
    <3>1. PICK on \in BOOLEAN : SetEnabled(t, on)
      BY <2>14
    <3>2. record \in Records /\ record'.plain = record.plain /\ record'.test = record.test
      BY <3>1 DEF SetEnabled, Records, TypeOK
    <3>3. thread[t].at = "idle" /\ thread' = thread
      BY <3>1 DEF SetEnabled, AtOnce, At
    <3>4. thread'[t].op # "config"
      BY <2>0, <3>3, OpAt DEF TypeOK, ThreadsOK, Tasks
    <3> QED
      BY <1>2, <1>n, <2>1, <3>1, <3>2, <3>3, <3>4, Elsewhere DEF SetEnabled, TestFits
  <2>15. CASE SetActive(t) \/ ClearActive(t)
    <3>3. thread[t].at = "idle" /\ thread' = thread
      BY <2>15 DEF SetActive, ClearActive, AtOnce, At
    <3>4. thread'[t].op # "config"
      BY <2>0, <3>3, OpAt DEF TypeOK, ThreadsOK, Tasks
    <3> QED
      BY <1>2, <2>1, <2>15, <3>3, <3>4, Elsewhere DEF SetActive, ClearActive, TestFits
  <2>16. CASE BeginTest(t)
    <3>1. Fresh(t, "test")
      BY <2>16, TestBegins
    <3>2. thread'[t].op # "config" /\ thread[t].op = "none"
      BY <3>1, FreshOp
    <3>3. thread[t].at # "save"
      BY <3>2, SaveIsConfig
    <3> QED
      BY <1>2, <2>1, <2>16, <3>2, <3>3, Elsewhere DEF BeginTest, TestFits
  <2>17. CASE EndTest(t)
    <3>1. CASE record = None
      BY <2>3, <2>17, <3>1 DEF EndTest, At
    <3>2. CASE record # None
      <4> DEFINE test == [plain |-> thread[t].plain, secret |-> thread[t].secret,
                          late |-> thread[t].plain # record.plain \/ thread[t].secret # secret]
      <4>1. record' = [record EXCEPT !.test = test]
        BY <2>17, <3>2 DEF EndTest
      <4>2. record \in Records
        BY <3>2 DEF TypeOK
      <4>3. record'.plain = record.plain /\ record'.test = test
        BY <4>1, <4>2 DEF Records
      <4>4. secret' = secret
        BY <2>17 DEF EndTest
      <4>5. test.late \/ (test.plain = record.plain /\ test.secret = secret)
        <5>1. test.late <=> (thread[t].plain # record.plain \/ thread[t].secret # secret)
          OBVIOUS
        <5>2. test.plain = thread[t].plain /\ test.secret = thread[t].secret
          OBVIOUS
        <5> HIDE DEF test
        <5> QED
          BY <5>1, <5>2
      <4> HIDE DEF test
      <4>6. TestFits'
        BY <4>3, <4>4, <4>5 DEF TestFits
      <4> QED
        BY <2>3, <2>17, <3>2, <4>3, <4>6 DEF EndTest, At
    <3> QED
      BY <3>1, <3>2
  <2>18. CASE WriteFails(t)
    BY <2>3, <2>18 DEF WriteFails, AtRisk, TestFits
  <2> QED
    BY <1>2, <2>5, <2>6, <2>7, <2>8, <2>9, <2>10, <2>11, <2>12, <2>13, <2>14, <2>15, <2>16, <2>17, <2>18
       DEF Acts, Files, Settings
<1>3. CASE Crash
  <2>1. \A t \in Threads : thread[t].at # "save" /\ thread'[t] = Resting
    BY <1>3 DEF Crash, AtRisk
  <2>2. record' = record /\ secret' = secret /\ want' = want /\ EditsFit
    BY <1>3 DEF Crash, Edited
  <2> QED
    BY <2>1, <2>2 DEF EditsFit, TestFits, Resting
<1>4. CASE UNCHANGED vars
  BY <1>4 DEF vars, Edited, EditsFit, TestFits, Merged
<1> QED
  BY <1>1, <1>2, <1>3, <1>4 DEF Next, Acts

(***************************************************************************)
(* The theorems.                                                           *)
(***************************************************************************)
Inv == /\ TypeOK /\ LockInv /\ Company /\ PointerInstalled
       /\ Staged /\ SwapsExplained /\ Kept /\ Edited

LEMMA InvInit == Init => Inv
<1> SUFFICES ASSUME Init PROVE Inv
  OBVIOUS
<1>1. \A t \in Threads : thread[t] = Resting
  BY DEF Init
<1>2. TypeOK
  <2>1. ThreadsOK
    BY RestingTyped DEF Init, ThreadsOK, Resting
  <2>2. disk \in [dest : Trees, incoming : Trees, previous : Trees]
    BY TreesAre DEF Init
  <2>3. spent \in [ops : Edit, faults : 0..MaxFaults, crashes : 0..MaxCrashes]
    BY Bounds DEF Init
  <2>4. want \in [plain : Edit, secret : Edit] /\ secret \in Edit
    BY Bounds DEF Init
  <2>5. {crossed, crashed, puzzled} \subseteq BOOLEAN /\ active \in BOOLEAN
    BY DEF Init
  <2>6. record \in Records \cup {None} /\ lock \in Threads \cup {None}
    BY DEF Init
  <2> QED
    BY <2>1, <2>2, <2>3, <2>4, <2>5, <2>6 DEF TypeOK
<1>3. LockInv /\ Staged
  BY <1>1 DEF LockInv, Staged, Laid, Resting
<1>4. Company
  BY <1>1, NoClash DEF Company, Alone, Innocent, Uncrossed, Resting
<1>5. PointerInstalled /\ SwapsExplained
  BY DEF Init, PointerInstalled, SwapsExplained
<1>6. Kept /\ Edited
  BY <1>1 DEF Init, Kept, FilesKept, Held, Edited, EditsFit, Resting
<1> QED
  BY <1>2, <1>3, <1>4, <1>5, <1>6 DEF Inv

LEMMA InvStep == Inv /\ [Next]_vars => Inv'
BY TypeStep, LockStep, CompanyStep, PointerStep, StagedStep, ExplainedStep, KeptStep, EditedStep
   DEF Inv

LEMMA Invariant == Spec => []Inv
BY InvInit, InvStep, PTL DEF Spec

(* Every variable keeps its type (registry.py, store.py). *)
THEOREM RegistryTypeCorrect == Spec => []TypeOK
BY Invariant, PTL DEF Inv

(* The role's pointer is never at what is not installed (set_active, remove). *)
THEOREM PointerStaysInstalled == Spec => []PointerInstalled
BY Invariant, PTL DEF Inv

(* A swap fails for a reason (swap_in_files). *)
THEOREM NoSwapPuzzles == Spec => []SwapsExplained
BY Invariant, PTL DEF Inv

(* Installed files are those of the record (swap_in_files, install, remove). *)
THEOREM FilesMatchRecord == Spec => []FilesOfRecord
<1>1. Inv => FilesOfRecord
  <2> SUFFICES ASSUME Inv, ~Busy({"install", "update", "remove"}), ~crossed, ~crashed
               PROVE  disk.dest = IF record = None THEN NoTree ELSE record.ver
    BY DEF FilesOfRecord
  <2>1. \A t \in Threads : thread[t].at \notin Moving
    BY MovingOps DEF Inv, Busy, FileOps
  <2> QED
    BY <2>1 DEF Inv, Kept, FilesKept, Held
<1> QED
  BY <1>1, Invariant, PTL

(* No edit is lost to another save (set_config). *)
THEOREM NoEditIsLost == Spec => []EditsKept
<1>1. Inv => EditsKept
  <2>1. Inv /\ ~Busy({"config"}) => \A t \in Threads : thread[t].at # "save"
    BY SaveIsConfig DEF Inv, Busy
  <2> QED
    BY <2>1 DEF Inv, Edited, EditsFit, EditsKept
<1> QED
  BY <1>1, Invariant, PTL

(* A test result that is not late is of the configuration that is saved
   (set_config, record_test). *)
THEOREM TestsFitTheConfig == Spec => []TestOfItsConfig
<1>1. Inv => TestOfItsConfig
  <2>1. Inv /\ ~Busy({"config"}) => \A t \in Threads : thread[t].at # "save"
    BY SaveIsConfig DEF Inv, Busy
  <2> QED
    BY <2>1 DEF Inv, Edited, EditsFit, TestFits, TestOfItsConfig
<1> QED
  BY <1>1, Invariant, PTL
=============================================================================
