--------------------------- MODULE PlayJobs_proofs ---------------------------
(***************************************************************************)
(* Theorems about PlayJobs, for any titles, requests and control requests. *)
(***************************************************************************)
EXTENDS PlayJobs, FiniteSetTheorems, TLAPS

USE NoneAssumption, NextOfAssumption, AttemptsAssumption

(***************************************************************************)
(* Types.                                                                  *)
(***************************************************************************)

(* job_set keeps the table's types, whatever title it is called for. *)
LEMMA JobSetType ==
  ASSUME TypeOK, NEW t, NEW rec, t \in Titles => rec \in JobRecord, JobSet(t, rec)
  PROVE  job' \in [Titles -> JobRecord] /\ born' \in [Titles -> Nat]
<1>1. t \in Titles => [rec EXCEPT !.fresh = TRUE] \in JobRecord
  BY DEF JobRecord
<1>2. job' \in [Titles -> JobRecord]
  BY <1>1 DEF TypeOK, JobSet
<1>3. Cardinality({u \in Titles : born[u] # 0}) \in Nat
  BY FiniteAssumption, FS_Subset, FS_CardinalityType
<1> DEFINE n == 1 + Cardinality({u \in Titles : born[u] # 0})
<1>4. n \in Nat
  BY <1>3
<1>5. born' = born \/ born' = [born EXCEPT ![t] = n]
  BY DEF JobSet
<1> HIDE DEF n
<1>6. born' \in [Titles -> Nat]
  BY <1>4, <1>5 DEF TypeOK
<1> QED BY <1>2, <1>6

LEMMA SetStageType ==
  ASSUME TypeOK, NEW t, NEW s \in Stages, SetStage(t, s)
  PROVE  job' \in [Titles -> JobRecord] /\ born' \in [Titles -> Nat]
<1>1. t \in Titles => [job[t] EXCEPT !.stage = s] \in JobRecord
  BY DEF TypeOK, JobRecord
<1> QED BY <1>1, JobSetType DEF SetStage

(* Moving a thread on, or ending it, keeps its type. *)
LEMMA ReqAtType ==
  ASSUME TypeOK, NEW r \in Requests, NEW pc \in ReqPc, ReqAt(r, pc)
  PROVE  req' \in [Requests -> Request]
BY DEF TypeOK, Request, ReqAt

LEMMA WkAtType ==
  ASSUME TypeOK, NEW r \in Requests, NEW pc \in WkPc, WkAt(r, pc)
  PROVE  wk' \in [Requests -> Worker]
BY DEF TypeOK, Worker, WkAt

LEMMA WkEndType ==
  ASSUME TypeOK, NEW r \in Requests, NEW pc \in WkPc, WkEnd(r, pc)
  PROVE  wk' \in [Requests -> Worker]
<1>1. [NoWorker EXCEPT !.pc = pc] \in Worker
  BY DEF Worker, NoWorker
<1> QED BY <1>1 DEF TypeOK, WkEnd

LEMMA CtlAtType ==
  ASSUME TypeOK, NEW c \in Controls, NEW pc \in CtlPc, CtlAt(c, pc)
  PROVE  ctl' \in [Controls -> Control]
BY DEF TypeOK, Control, CtlAt

LEMMA CtlEndType ==
  ASSUME TypeOK, NEW c \in Controls, NEW pc \in CtlPc, CtlEnd(c, pc)
  PROVE  ctl' \in [Controls -> Control]
<1>1. [IdleControl EXCEPT !.pc = pc] \in Control
  BY DEF Control, IdleControl
<1> QED BY <1>1 DEF TypeOK, CtlEnd

(* The app's slot: a new order, and an order taken back. *)
LEMMA AppCmdType ==
  ASSUME TypeOK, NEW type \in {"play", "stop"}, NEW t \in Titles \cup {None}, AppCmd(type, t)
  PROVE  cmd' \in Command /\ seq' \in Nat
BY DEF TypeOK, Command, AppCmd

LEMMA AppCmdClearType ==
  ASSUME TypeOK, NEW n, AppCmdClear(n)
  PROVE  cmd' \in Command
BY DEF TypeOK, Command, NoCmd, AppCmdClear

(* A worker that stands down, or goes on to its next candidate. *)
LEMMA StandDownType ==
  ASSUME TypeOK, NEW r \in Requests, StandDown(r)
  PROVE  /\ job' \in [Titles -> JobRecord] /\ born' \in [Titles -> Nat]
         /\ wk' \in [Requests -> Worker]
BY SetStageType, WkEndType DEF StandDown, Stages, WkPc

LEMMA NextCandidateType ==
  ASSUME TypeOK, NEW r \in Requests, NextCandidate(r)
  PROVE  /\ job' \in [Titles -> JobRecord] /\ born' \in [Titles -> Nat]
         /\ wk' \in [Requests -> Worker]
BY WkAtType DEF NextCandidate, table, WkPc, TypeOK

USE DEF table, slot, players, shared

(* Every variable keeps its type, whichever requests, workers and control
   handlers interleave: in particular no worker counts its candidates below
   zero and no merge leaves a job record with a stage that does not exist. *)
THEOREM TypeCorrect == Spec => []TypeOK
<1>1. Init => TypeOK
  BY DEF Init, TypeOK, JobRecord, NoJob, NoCmd, Command, TvReport, NoSession, Session,
         Request, IdleRequest, Worker, NoWorker, Control, IdleControl, Stages, Owners,
         ReqPc, WkPc, CtlPc
<1>2. TypeOK /\ [Next]_vars => TypeOK'
  <2> SUFFICES ASSUME TypeOK, [Next]_vars PROVE TypeOK'
    OBVIOUS
  <2> USE DEF Stages, JobActive, ReqPc, WkPc, CtlPc, Owners
  <2>1. ASSUME NEW r \in Requests, NEW t \in Titles, Attach(r, t) PROVE TypeOK'
    <3>1. \A o \in Owners : [IdleRequest EXCEPT !.pc = "attached", !.title = t, !.owner = o] \in Request
      BY <2>1 DEF Attach, IdleRequest, Request
    <3>2. req' \in [Requests -> Request]
      BY <2>1, <3>1 DEF Attach, TypeOK
    <3> QED BY <2>1, <3>1, <3>2 DEF Attach, TypeOK
  <2>2. ASSUME NEW r \in Requests, NEW t \in Titles, NEW o \in Owners, Arrive(r, t, o) PROVE TypeOK'
    <3>1. req' \in [Requests -> Request]
      BY <2>2 DEF Arrive, IdleRequest, Request, TypeOK
    <3> QED BY <2>2, <3>1 DEF Arrive, TypeOK
  <2>3. ASSUME NEW r \in Requests, Enter(r) PROVE TypeOK'
    <3>1. [req[r] EXCEPT !.pc = "resolving", !.c0 = cancelGen] \in Request
      BY <2>3 DEF Enter, Request, TypeOK
    <3>2. req' \in [Requests -> Request]
      BY <2>3, <3>1 DEF Enter, TypeOK
    <3> QED BY <2>3, <3>1, <3>2 DEF Enter, TypeOK
  <2>4. ASSUME NEW r \in Requests, ResolveRefused(r) PROVE TypeOK'
    <3>1. [req[r] EXCEPT !.pc = IF req[r].auto THEN "retire" ELSE "refused", !.c0 = 0] \in Request
      BY <2>4 DEF ResolveRefused, Request, TypeOK
    <3>2. req' \in [Requests -> Request]
      BY <2>4, <3>1 DEF ResolveRefused, Leave, TypeOK
    <3>3. inflight' \in Int
      BY <2>4 DEF ResolveRefused, Leave, TypeOK
    <3> QED BY <2>4, <3>1, <3>2, <3>3 DEF ResolveRefused, TypeOK, Leave
  <2>5. ASSUME NEW r \in Requests, Resolved(r) PROVE TypeOK'
    <3>1. [req[r] EXCEPT !.pc = "claim1", !.c0 = 0] \in Request
      BY <2>5 DEF Resolved, Request, TypeOK
    <3>2. req' \in [Requests -> Request]
      BY <2>5, <3>1 DEF Resolved, TypeOK
    <3> QED BY <2>5, <3>1, <3>2 DEF Resolved, TypeOK
  <2>6. ASSUME NEW r \in Requests, ClaimFirst(r) PROVE TypeOK'
    BY <2>6, ReqAtType DEF ClaimFirst, TypeOK
  <2>7. ASSUME NEW r \in Requests, ClaimSecond(r) PROVE TypeOK'
    BY <2>7, ReqAtType DEF ClaimSecond, TypeOK
  <2>8. ASSUME NEW r \in Requests, ClaimRefused(r) PROVE TypeOK'
    <3>1. [req[r] EXCEPT !.pc = IF req[r].auto THEN "retire" ELSE "refused", !.c0 = 0] \in Request
      BY <2>8 DEF ClaimRefused, Request, TypeOK
    <3>2. req' \in [Requests -> Request]
      BY <2>8, <3>1 DEF ClaimRefused, Leave, TypeOK
    <3>3. inflight' \in Int
      BY <2>8 DEF ClaimRefused, Leave, TypeOK
    <3> QED BY <2>8, <3>1, <3>2, <3>3 DEF ClaimRefused, TypeOK, Leave
  <2>9. ASSUME NEW r \in Requests, FindOlder(r) PROVE TypeOK'
    <3>1. req[r] \in Request
      BY DEF TypeOK
    <3>2. \A m \in Titles \cup {None} : [req[r] EXCEPT !.pc = "mark", !.amid = m] \in Request
      BY <3>1 DEF Request
    <3>3. PICK m \in Titles \cup {None} :
            ReqAt(r, "claim") \/ req' = [req EXCEPT ![r] = [req[r] EXCEPT !.pc = "mark", !.amid = m]]
      BY <2>9 DEF FindOlder
    <3>4. CASE ReqAt(r, "claim")
      BY <2>9, <3>4, ReqAtType DEF FindOlder, TypeOK
    <3>5. CASE req' = [req EXCEPT ![r] = [req[r] EXCEPT !.pc = "mark", !.amid = m]]
      <4>1. req' \in [Requests -> Request]
        BY <3>2, <3>5 DEF TypeOK
      <4> QED BY <2>9, <4>1 DEF FindOlder, TypeOK
    <3> QED BY <3>3, <3>4, <3>5
  <2>10. ASSUME NEW r \in Requests, MarkOlder(r) PROVE TypeOK'
    <3>1. [req[r] EXCEPT !.pc = "claim", !.amid = None] \in Request
      BY <2>10 DEF MarkOlder, Request, TypeOK
    <3>2. req' \in [Requests -> Request]
      BY <2>10, <3>1 DEF MarkOlder, TypeOK
    <3>3. job' \in [Titles -> JobRecord] /\ born' \in [Titles -> Nat]
      BY <2>10, SetStageType DEF MarkOlder
    <3> QED BY <2>10, <3>1, <3>2, <3>3 DEF MarkOlder, TypeOK
  <2>11. ASSUME NEW r \in Requests, PlayClaim(r) PROVE TypeOK'
    <3>1. req[r] \in Request /\ playGen + 1 \in Nat
      BY DEF TypeOK
    <3>2. [req[r] EXCEPT !.gen = playGen + 1, !.pc = "register"] \in Request
      BY <3>1 DEF Request
    <3>3. req' = [req EXCEPT ![r] = [req[r] EXCEPT !.gen = playGen + 1, !.pc = "register"]]
      BY <2>11 DEF PlayClaim
    <3>4. req' \in [Requests -> Request]
      BY <3>2, <3>3 DEF TypeOK
    <3> QED BY <2>11, <3>1, <3>4 DEF PlayClaim, TypeOK
  <2>12. ASSUME NEW r \in Requests, Register(r) PROVE TypeOK'
    <3>1. \A n \in 0..Attempts : [pc |-> "top", left |-> n, order |-> 0] \in Worker
      BY <2>12 DEF Register, Worker
    <3>2. wk' \in [Requests -> Worker]
      BY <2>12, <3>1 DEF Register, TypeOK
    <3>3. req[r] \in Request
      BY <2>12 DEF Register, TypeOK
    <3>4. req[r].title \in Titles => job[req[r].title] \in JobRecord
      BY <2>12 DEF Register, TypeOK
    <3>5. req[r].title \in Titles => Registration(r) \in JobRecord
      BY <2>12, <3>3, <3>4 DEF Register, Registration, JobRecord, Request
    <3>6. job' \in [Titles -> JobRecord] /\ born' \in [Titles -> Nat]
      BY <2>12, <3>5, JobSetType DEF Register
    <3> QED BY <2>12, <3>1, <3>2, <3>3, <3>4, <3>5, <3>6, ReqAtType DEF Register, TypeOK
  <2>13. ASSUME NEW r \in Requests, Finish(r) PROVE TypeOK'
    BY <2>13, JobSetType, ReqAtType DEF Finish, TypeOK
  <2>14. ASSUME NEW r \in Requests, Retire(r) PROVE TypeOK'
    BY <2>14, SetStageType, ReqAtType DEF Retire, TypeOK
  <2>15. ASSUME NEW r \in Requests, AutoplayNext(r) PROVE TypeOK'
    <3>1. NextOf[tv.job] \in Titles
      BY <2>15 DEF AutoplayNext, TvReport, TypeOK
    <3>2. [IdleRequest EXCEPT !.pc = "entering", !.title = NextOf[tv.job], !.auto = TRUE] \in Request
      BY <2>15, <3>1 DEF AutoplayNext, IdleRequest, Request
    <3>3. req' \in [Requests -> Request]
      BY <2>15, <3>2 DEF AutoplayNext, TypeOK
    <3>4. tv' \in TvReport
      BY <2>15 DEF AutoplayNext, TvReport, TypeOK
    <3>5. job' \in [Titles -> JobRecord] /\ born' \in [Titles -> Nat]
      BY <2>15, SetStageType DEF AutoplayNext
    <3> QED BY <2>15, <3>1, <3>2, <3>3, <3>4, <3>5 DEF AutoplayNext, TypeOK
  <2>16. ASSUME NEW r \in Requests, WProgress(r) PROVE TypeOK'
    BY <2>16, JobSetType DEF WProgress, TypeOK
  <2>17. ASSUME NEW r \in Requests, WTop(r) PROVE TypeOK'
    <3>1. CASE SetStage(Title(r), "error") /\ WkEnd(r, "failed")
      BY <2>17, <3>1, SetStageType, WkEndType DEF WTop, TypeOK
    <3>2. CASE StandDown(r)
      BY <2>17, <3>2, StandDownType DEF WTop, TypeOK
    <3>3. CASE /\ wk[r].left > 0
               /\ wk' = [wk EXCEPT ![r] = [@ EXCEPT !.pc = "buffer", !.left = wk[r].left - 1]]
               /\ UNCHANGED table
      <4>1. wk[r] \in Worker /\ wk[r].left \in Nat
        BY DEF TypeOK, Worker
      <4>2. wk[r].left - 1 \in Nat
        BY <3>3, <4>1
      <4>3. [wk[r] EXCEPT !.pc = "buffer", !.left = wk[r].left - 1] \in Worker
        BY <4>1, <4>2 DEF Worker
      <4>4. wk' \in [Requests -> Worker]
        BY <3>3, <4>1, <4>3 DEF TypeOK
      <4> QED BY <2>17, <3>3, <4>4 DEF WTop, TypeOK
    <3> QED BY <2>17, <3>1, <3>2, <3>3 DEF WTop
  <2>18. ASSUME NEW r \in Requests, WBuffer(r) PROVE TypeOK'
    BY <2>18, SetStageType, WkAtType DEF WBuffer, TypeOK
  <2>19. ASSUME NEW r \in Requests, WOut(r) PROVE TypeOK'
    BY <2>19, WkAtType DEF WOut, TypeOK
  <2>20. ASSUME NEW r \in Requests, WPrepared(r) PROVE TypeOK'
    BY <2>20, WkAtType DEF WPrepared, TypeOK
  <2>21. ASSUME NEW r \in Requests, WNext(r) PROVE TypeOK'
    BY <2>21, StandDownType, NextCandidateType DEF WNext, TypeOK
  <2>22. ASSUME NEW r \in Requests, WEncode(r) PROVE TypeOK'
    BY <2>22, SetStageType, WkAtType DEF WEncode, TypeOK
  <2>23. ASSUME NEW r \in Requests, WNoRoom(r) PROVE TypeOK'
    BY <2>23, NextCandidateType DEF WNoRoom, TypeOK
  <2>24. ASSUME NEW r \in Requests, WLaunching(r) PROVE TypeOK'
    BY <2>24, SetStageType, WkAtType DEF WLaunching, TypeOK
  <2>25. ASSUME NEW r \in Requests, WLastCheck(r) PROVE TypeOK'
    BY <2>25, WkAtType, StandDownType DEF WLastCheck, TypeOK
  <2>26. ASSUME NEW r \in Requests, WSend(r) PROVE TypeOK'
    <3>1. seq + 1 \in Nat
      BY <2>26 DEF WSend, TypeOK
    <3>2. wk[r] \in Worker
      BY <2>26 DEF WSend, TypeOK
    <3>3. [wk[r] EXCEPT !.pc = "handoff", !.order = seq + 1] \in Worker
      BY <2>26, <3>1, <3>2 DEF WSend, Worker
    <3>4. wk' \in [Requests -> Worker]
      BY <2>26, <3>3 DEF WSend, TypeOK
    <3>5. Title(r) \in Titles \cup {None}
      BY <2>26 DEF WSend, Title, Request, TypeOK
    <3>6. cmd' \in Command /\ seq' \in Nat
      BY <2>26, <3>5, AppCmdType DEF WSend
    <3> QED BY <2>26, <3>1, <3>2, <3>3, <3>4, <3>5, <3>6, AppCmdType DEF WSend, TypeOK
  <2>27. ASSUME NEW r \in Requests, WNoApp(r) PROVE TypeOK'
    BY <2>27, WkAtType DEF WNoApp, TypeOK
  <2>28. ASSUME NEW r \in Requests, WCheckOrder(r) PROVE TypeOK'
    BY <2>28, WkAtType, AppCmdClearType DEF WCheckOrder, TypeOK
  <2>29. ASSUME NEW r \in Requests, WSeen(r) PROVE TypeOK'
    BY <2>29, WkAtType DEF WSeen, TypeOK
  <2>30. ASSUME NEW r \in Requests, WDeadline(r) PROVE TypeOK'
    BY <2>30, WkAtType, AppCmdClearType DEF WDeadline, TypeOK
  <2>31. ASSUME NEW r \in Requests, WHandedOver(r) PROVE TypeOK'
    BY <2>31, SetStageType, WkEndType DEF WHandedOver, TypeOK
  <2>32. ASSUME NEW r \in Requests, WNotHandedOver(r) PROVE TypeOK'
    BY <2>32, SetStageType, WkEndType DEF WNotHandedOver, TypeOK
  <2>33. ASSUME NEW r \in Requests, WDecide(r) PROVE TypeOK'
    BY <2>33, WkAtType, StandDownType, NextCandidateType DEF WDecide, TypeOK
  <2>34. ASSUME NEW r \in Requests, WVerify(r) PROVE TypeOK'
    BY <2>34, WkAtType, NextCandidateType DEF WVerify, TypeOK
  <2>35. ASSUME NEW r \in Requests, WBegin(r) PROVE TypeOK'
    <3>1. Title(r) \in Titles \cup {None} /\ req[r].gen \in Nat
      BY <2>35 DEF WBegin, Title, Request, TypeOK
    <3>2. [token |-> r, job |-> Title(r), gen |-> req[r].gen, state |-> "starting", fresh |-> TRUE] \in Session
      BY <2>35, <3>1 DEF WBegin, Session
    <3>3. bx' \in Session
      BY <2>35, <3>2 DEF WBegin, TypeOK
    <3> QED BY <2>35, <3>1, <3>2, <3>3, WkAtType, NextCandidateType DEF WBegin, TypeOK
  <2>36. ASSUME NEW r \in Requests, WLastWord(r) PROVE TypeOK'
    BY <2>36, SetStageType, WkAtType, StandDownType DEF WLastWord, TypeOK
  <2>37. ASSUME NEW r \in Requests, WUnwind(r) PROVE TypeOK'
    BY <2>37, WkAtType, WkEndType DEF WUnwind, TypeOK
  <2>38. ASSUME NEW r \in Requests, WUnwound(r) PROVE TypeOK'
    <3>1. bx' \in Session
      BY <2>38 DEF WUnwound, Session, NoSession
    <3> QED BY <2>38, <3>1, WkEndType DEF WUnwound, TypeOK
  <2>39. ASSUME NEW r \in Requests, WPublishSession(r) PROVE TypeOK'
    <3>1. bx' \in Session
      BY <2>39 DEF WPublishSession, Session, Request, TypeOK, Title
    <3> QED BY <2>39, <3>1, WkAtType DEF WPublishSession, TypeOK
  <2>40. ASSUME NEW r \in Requests, WPublishJob(r) PROVE TypeOK'
    <3>1. Title(r) \in Titles => job[Title(r)] \in JobRecord
      BY <2>40 DEF WPublishJob, TypeOK
    <3>2. Title(r) \in Titles => [job[Title(r)] EXCEPT !.stage = "playing", !.owner = "browser", !.otoken = r] \in JobRecord
      BY <2>40, <3>1 DEF WPublishJob, JobRecord
    <3>3. job' \in [Titles -> JobRecord] /\ born' \in [Titles -> Nat]
      BY <2>40, <3>2, JobSetType DEF WPublishJob
    <3> QED BY <2>40, <3>1, <3>2, <3>3, WkEndType DEF WPublishJob, TypeOK
  <2>41. ASSUME NEW r \in Requests, WRaise(r) PROVE TypeOK'
    BY <2>41, SetStageType, WkEndType DEF WRaise, TypeOK
  <2>42. ASSUME NEW c \in Controls, Stop(c) PROVE TypeOK'
    BY <2>42, CtlAtType, AppCmdType DEF Stop, TypeOK
  <2>43. ASSUME NEW c \in Controls, StopClaim(c) PROVE TypeOK'
    BY <2>43, CtlAtType DEF StopClaim, TypeOK
  <2>44. ASSUME NEW c \in Controls, StopFind(c) PROVE TypeOK'
    <3>1. ctl[c] \in Control
      BY DEF TypeOK
    <3>2. \A m \in Titles \cup {None}, pc \in {"stopSession", "stopMark"} :
            [ctl[c] EXCEPT !.amid = m, !.pc = pc] \in Control
      BY <3>1 DEF Control
    <3>3. PICK m \in Titles \cup {None}, pc \in {"stopSession", "stopMark"} :
            ctl' = [ctl EXCEPT ![c] = [ctl[c] EXCEPT !.amid = m, !.pc = pc]]
      BY <2>44 DEF StopFind
    <3>4. ctl' \in [Controls -> Control]
      BY <3>2, <3>3 DEF TypeOK
    <3> QED BY <2>44, <3>4 DEF StopFind, TypeOK
  <2>45. ASSUME NEW c \in Controls, StopMark(c) PROVE TypeOK'
    BY <2>45, SetStageType, CtlAtType DEF StopMark, TypeOK
  <2>46. ASSUME NEW c \in Controls, StopSession(c) PROVE TypeOK'
    <3>1. bx' \in Session
      BY <2>46 DEF StopSession, Session, NoSession
    <3> QED BY <2>46, <3>1, CtlEndType DEF StopSession, TypeOK
  <2>47. ASSUME NEW c \in Controls, Cancel(c) PROVE TypeOK'
    <3>1. \A m \in Titles : [ctl[c] EXCEPT !.pc = "cancelBump", !.amid = m] \in Control
      BY DEF Control, TypeOK
    <3>2. CASE CtlAt(c, "cancelNone") \/ CtlEnd(c, "done")
      BY <2>47, <3>2, CtlAtType, CtlEndType DEF Cancel, TypeOK
    <3>3. CASE \E m \in Titles : ctl' = [ctl EXCEPT ![c] = [ctl[c] EXCEPT !.pc = "cancelBump", !.amid = m]]
      <4>1. ctl' \in [Controls -> Control]
        BY <3>1, <3>3 DEF TypeOK
      <4> QED BY <2>47, <4>1 DEF Cancel, TypeOK
    <3> QED BY <2>47, <3>2, <3>3 DEF Cancel
  <2>48. ASSUME NEW c \in Controls, CancelInflight(c) PROVE TypeOK'
    BY <2>48, CtlEndType DEF CancelInflight, TypeOK
  <2>49. ASSUME NEW c \in Controls, CancelBump(c) PROVE TypeOK'
    BY <2>49, CtlAtType DEF CancelBump, TypeOK
  <2>50. ASSUME NEW c \in Controls, CancelClaim(c) PROVE TypeOK'
    BY <2>50, CtlAtType DEF CancelClaim, TypeOK
  <2>51. ASSUME NEW c \in Controls, CancelMark(c) PROVE TypeOK'
    BY <2>51, SetStageType, CtlEndType DEF CancelMark, TypeOK
  <2>52. ASSUME NEW c \in Controls, BxStop(c) PROVE TypeOK'
    <3>1. ctl' \in [Controls -> Control]
      BY <2>52 DEF BxStop, Control, Tokens, TypeOK
    <3> QED BY <2>52, <3>1 DEF BxStop, TypeOK
  <2>53. ASSUME NEW c \in Controls, BxTeardown(c) PROVE TypeOK'
    <3>1. bx' \in Session
      BY <2>53 DEF BxTeardown, Session, NoSession
    <3> QED BY <2>53, <3>1, CtlAtType DEF BxTeardown, TypeOK
  <2>54. ASSUME NEW c \in Controls, BxFind(c) PROVE TypeOK'
    <3>1. ctl[c] \in Control
      BY <2>54 DEF BxFind, TypeOK
    <3>2. \A m \in Titles : [ctl[c] EXCEPT !.amid = m, !.pc = "bxClaim"] \in Control
      BY <2>54, <3>1 DEF BxFind, Control
    <3>3. ctl' \in [Controls -> Control]
      BY <2>54, <3>2, CtlEndType DEF BxFind, Mine, TypeOK
    <3> QED BY <2>54, <3>1, <3>2, <3>3, CtlEndType DEF BxFind, TypeOK
  <2>55. ASSUME NEW c \in Controls, BxClaim(c) PROVE TypeOK'
    BY <2>55, CtlAtType DEF BxClaim, TypeOK
  <2>56. ASSUME NEW c \in Controls, BxMark(c) PROVE TypeOK'
    BY <2>56, SetStageType, CtlEndType DEF BxMark, TypeOK
  <2>57. ASSUME NEW c \in Controls, Beat(c) PROVE TypeOK'
    <3>1. \A k \in Requests, s \in {"playing", "ended"} :
            [ctl[c] EXCEPT !.pc = "beatWrite", !.tok = k, !.state = s] \in Control
      BY DEF Control, TypeOK
    <3>2. CASE CtlEnd(c, "done")
      BY <2>57, <3>2, CtlEndType DEF Beat, TypeOK
    <3>3. CASE \E k \in Requests, s \in {"playing", "ended"} :
                 ctl' = [ctl EXCEPT ![c] = [ctl[c] EXCEPT !.pc = "beatWrite", !.tok = k, !.state = s]]
      <4>1. ctl' \in [Controls -> Control]
        <5>1. PICK k \in Requests, s \in {"playing", "ended"} :
                ctl' = [ctl EXCEPT ![c] = [ctl[c] EXCEPT !.pc = "beatWrite", !.tok = k, !.state = s]]
          BY <3>3
        <5>2. [ctl[c] EXCEPT !.pc = "beatWrite", !.tok = k, !.state = s] \in Control
          BY <3>1
        <5> QED BY <5>1, <5>2 DEF TypeOK
      <4> QED BY <2>57, <4>1 DEF Beat, TypeOK
    <3> QED BY <2>57, <3>2, <3>3 DEF Beat, Tokens
  <2>58. ASSUME NEW c \in Controls, BeatWrite(c) PROVE TypeOK'
    <3>1. bx' \in Session
      BY <2>58 DEF BeatWrite, Session, Control, TypeOK
    <3> QED BY <2>58, <3>1, CtlEndType DEF BeatWrite, TypeOK
  <2>59. ASSUME TvTake PROVE TypeOK'
    <3>1. tv' \in TvReport
      BY <2>59 DEF TvTake, TvReport, Command, TypeOK
    <3>2. cmd' \in Command
      BY <2>59 DEF TvTake, Command, NoCmd
    <3> QED BY <2>59, <3>1, <3>2 DEF TvTake, TypeOK
  <2>60. ASSUME TvError PROVE TypeOK'
    <3>1. tv' \in TvReport
      BY <2>60 DEF TvError, TvReport, TypeOK
    <3>2. job' \in [Titles -> JobRecord] /\ born' \in [Titles -> Nat]
      BY <2>60, SetStageType DEF TvError
    <3> QED BY <2>60, <3>1, <3>2 DEF TvError, TypeOK
  <2>61. ASSUME TvEnds PROVE TypeOK'
    <3>1. tv' \in TvReport
      BY <2>61 DEF TvEnds, TvReport, TypeOK
    <3> QED BY <2>61, <3>1 DEF TvEnds, TypeOK
  <2>62. ASSUME BxIdle PROVE TypeOK'
    <3>1. bx' \in Session
      BY <2>62 DEF BxIdle, Session, TypeOK
    <3> QED BY <2>62, <3>1 DEF BxIdle, TypeOK
  <2>63. ASSUME NEW t \in Titles, JobStale(t) PROVE TypeOK'
    <3>1. [job[t] EXCEPT !.fresh = FALSE] \in JobRecord
      BY <2>63 DEF JobStale, JobRecord, TypeOK
    <3>2. job' \in [Titles -> JobRecord]
      BY <2>63, <3>1 DEF JobStale, TypeOK
    <3> QED BY <2>63, <3>1, <3>2 DEF JobStale, TypeOK
  <2>64. CASE UNCHANGED vars
    BY <2>64 DEF vars, TypeOK
  <2> QED
    BY <2>1, <2>2, <2>3, <2>4, <2>5, <2>6, <2>7, <2>8, <2>9, <2>10, <2>11, <2>12, <2>13,
       <2>14, <2>15, <2>16, <2>17, <2>18, <2>19, <2>20, <2>21, <2>22, <2>23, <2>24, <2>25, <2>26,
       <2>27, <2>28, <2>29, <2>30, <2>31, <2>32, <2>33, <2>34, <2>35, <2>36, <2>37, <2>38, <2>39,
       <2>40, <2>41, <2>42, <2>43, <2>44, <2>45, <2>46, <2>47, <2>48, <2>49, <2>50, <2>51, <2>52,
       <2>53, <2>54, <2>55, <2>56, <2>57, <2>58, <2>59, <2>60, <2>61, <2>62, <2>63, <2>64
       DEF Next, RequestStep, WorkerStep, ControlStep
<1> QED BY <1>1, <1>2, PTL DEF Spec

(***************************************************************************)
(* What the steps of each kind of thread leave alone.                      *)
(***************************************************************************)

(* Where a worker may go: from preparing a film to its player only while its
   claim stands, and to an end from anywhere. *)
Early     == {"top", "buffer", "buffering", "out", "prepared", "encoding", "launching",
              "direct", "hls", "last", "lastHls"}
WorkerMoved(r) ==
  /\ UNCHANGED shared
  /\ \A s \in Requests \ {r} : wk'[s] = wk[s]
  /\ \/ wk[r].pc \in Early /\ wk'[r].pc \in Early \cup {"failed"}
     \/ wk[r].pc \in Early /\ ~Superseded(r) /\ wk'[r].pc \in Committed
     \/ wk[r].pc \in Early /\ Superseded(r) /\ wk'[r].pc \in Unwinding
     \/ wk[r].pc \in Unwinding /\ wk'[r].pc \in Unwinding \cup {"failed"}
     \/ wk[r].pc = "unseen" /\ wk'[r].pc = "failed"
     \/ wk[r].pc \in Committed \ {"unseen"} /\ wk'[r].pc \in Committed \cup {"played", "failed"}

(* A worker moves itself only. *)
LEMMA WorkerMoves ==
  ASSUME TypeOK, NEW r \in Requests, WorkerStep(r)
  PROVE  WorkerMoved(r)
<1> USE DEF WorkerMoved, Early, Unwinding, Committed, WkAt, WkEnd, NoWorker, StandDown, NextCandidate
<1>0. wk \in [Requests -> Worker] /\ wk[r] \in Worker
  BY DEF TypeOK
<1> USE <1>0 DEF Worker
<1>1. CASE WTop(r)
  <2>1. CASE wk' = [wk EXCEPT ![r] = [wk[r] EXCEPT !.pc = "buffer", !.left = wk[r].left - 1]]
    BY <1>1, <2>1 DEF WTop
  <2>2. CASE WkEnd(r, "failed")
    BY <1>1, <2>2 DEF WTop
  <2> QED BY <1>1, <2>1, <2>2 DEF WTop
<1>2. CASE WBuffer(r)
  BY <1>2 DEF WBuffer
<1>3. CASE WOut(r)
  BY <1>3 DEF WOut
<1>4. CASE WPrepared(r)
  BY <1>4 DEF WPrepared
<1>5. CASE WNext(r)
  BY <1>5 DEF WNext
<1>6. CASE WEncode(r)
  BY <1>6 DEF WEncode
<1>7. CASE WNoRoom(r)
  BY <1>7 DEF WNoRoom
<1>8. CASE WLaunching(r)
  BY <1>8 DEF WLaunching
<1>9. CASE WLastCheck(r)
  BY <1>9 DEF WLastCheck
<1>10. CASE WSend(r)
  BY <1>10 DEF WSend
<1>11. CASE WNoApp(r)
  BY <1>11 DEF WNoApp
<1>12. CASE WCheckOrder(r)
  BY <1>12 DEF WCheckOrder
<1>13. CASE WSeen(r)
  BY <1>13 DEF WSeen
<1>14. CASE WDeadline(r)
  BY <1>14 DEF WDeadline
<1>15. CASE WHandedOver(r)
  BY <1>15 DEF WHandedOver
<1>16. CASE WNotHandedOver(r)
  BY <1>16 DEF WNotHandedOver
<1>17. CASE WDecide(r)
  BY <1>17 DEF WDecide
<1>18. CASE WVerify(r)
  BY <1>18 DEF WVerify
<1>19. CASE WBegin(r)
  BY <1>19 DEF WBegin
<1>20. CASE WLastWord(r)
  BY <1>20 DEF WLastWord
<1>21. CASE WUnwind(r)
  BY <1>21 DEF WUnwind
<1>22. CASE WUnwound(r)
  BY <1>22 DEF WUnwound
<1>23. CASE WPublishSession(r)
  BY <1>23 DEF WPublishSession
<1>24. CASE WPublishJob(r)
  BY <1>24 DEF WPublishJob
<1>25. CASE WRaise(r)
  BY <1>25 DEF WRaise
<1> QED
  BY <1>1, <1>2, <1>3, <1>4, <1>5, <1>6, <1>7, <1>8, <1>9, <1>10, <1>11, <1>12, <1>13, <1>14,
     <1>15, <1>16, <1>17, <1>18, <1>19, <1>20, <1>21, <1>22, <1>23, <1>24, <1>25 DEF WorkerStep

(* A control handler may revoke the current claim and moves no play. *)
LEMMA ControlMoves ==
  ASSUME TypeOK, NEW c \in Controls, Stop(c) \/ Cancel(c) \/ BxStop(c) \/ Beat(c) \/ ControlStep(c)
  PROVE  UNCHANGED <<req, wk, inflight>> /\ playGen' \in {playGen, playGen + 1}
BY DEF Stop, Cancel, BxStop, Beat, ControlStep, StopClaim, StopFind, StopMark, StopSession,
       CancelInflight, CancelBump, CancelClaim, CancelMark, BxTeardown, BxFind, BxClaim,
       BxMark, BeatWrite

(* The players and the clock move neither. *)
LEMMA OthersMove ==
  ASSUME TvTake \/ TvError \/ TvEnds \/ BxIdle \/ (\E t \in Titles : JobStale(t))
         \/ (\E r \in Requests : WProgress(r)) \/ UNCHANGED vars
  PROVE  UNCHANGED <<req, wk, inflight, playGen>>
BY DEF TvTake, TvError, TvEnds, BxIdle, JobStale, WProgress, vars

(* A request that is neither claiming nor registering moves itself only, and
   keeps its claim, which is none until it has made one. *)
PlainRequestStep(r) ==
  \/ \E t \in Titles : Attach(r, t) \/ \E o \in Owners : Arrive(r, t, o)
  \/ AutoplayNext(r) \/ Enter(r) \/ ResolveRefused(r) \/ Resolved(r)
  \/ ClaimFirst(r) \/ ClaimSecond(r) \/ ClaimRefused(r) \/ FindOlder(r) \/ MarkOlder(r)
  \/ Finish(r) \/ Retire(r)

Counted(r) ==
  \/ req[r].pc \notin InPlay /\ req'[r].pc \in InPlay /\ inflight' = inflight + 1
  \/ req[r].pc \in InPlay /\ req'[r].pc \notin InPlay /\ inflight' = inflight - 1
  \/ (req[r].pc \in InPlay <=> req'[r].pc \in InPlay) /\ inflight' = inflight
RequestMoved(r) ==
  /\ UNCHANGED <<wk, playGen>>
  /\ \A s \in Requests \ {r} : req'[s] = req[s]
  /\ req[r].pc \notin {"register", "accepted"} /\ req'[r].pc \notin {"register", "finish"}
  /\ req[r].pc = "finish" <=> req'[r].pc = "accepted"
  /\ req'[r].gen = req[r].gen \/ (req[r].pc = "idle" /\ req'[r].gen = 0)
  /\ req'[r].title = req[r].title \/ req[r].pc = "idle"
  /\ Counted(r)
  /\ UNCHANGED slot /\ tv'.acked = tv.acked

LEMMA RequestMoves ==
  ASSUME TypeOK, NEW r \in Requests, PlainRequestStep(r)
  PROVE  RequestMoved(r)
<1> USE DEF IdleRequest, ReqAt, Leave, RequestMoved, Counted, InPlay
<1>0. req \in [Requests -> Request] /\ req[r] \in Request /\ tv \in TvReport
  BY DEF TypeOK
<1> USE <1>0 DEF Request, TvReport
<1>1. CASE AutoplayNext(r)
  BY <1>1 DEF AutoplayNext
<1>2. CASE Enter(r)
  BY <1>2 DEF Enter
<1>3. CASE ResolveRefused(r)
  BY <1>3 DEF ResolveRefused
<1>4. CASE Resolved(r)
  BY <1>4 DEF Resolved
<1>5. CASE ClaimFirst(r)
  BY <1>5 DEF ClaimFirst
<1>6. CASE ClaimSecond(r)
  BY <1>6 DEF ClaimSecond
<1>7. CASE ClaimRefused(r)
  BY <1>7 DEF ClaimRefused
<1>8. CASE FindOlder(r)
  <2>1. CASE ReqAt(r, "claim")
    BY <1>8, <2>1 DEF FindOlder
  <2>2. CASE \E m \in Titles : req' = [req EXCEPT ![r] = [req[r] EXCEPT !.pc = "mark", !.amid = m]]
    <3>1. PICK m \in Titles : req' = [req EXCEPT ![r] = [req[r] EXCEPT !.pc = "mark", !.amid = m]]
      BY <2>2
    <3> QED BY <1>8, <3>1 DEF FindOlder
  <2> QED BY <1>8, <2>1, <2>2 DEF FindOlder
<1>9. CASE MarkOlder(r)
  BY <1>9 DEF MarkOlder
<1>10. CASE Finish(r)
  BY <1>10 DEF Finish
<1>11. CASE Retire(r)
  BY <1>11 DEF Retire
<1>12. ASSUME NEW t \in Titles, Attach(r, t) PROVE RequestMoved(r)
  BY <1>12 DEF Attach
<1>13. ASSUME NEW t \in Titles, NEW o \in Owners, Arrive(r, t, o) PROVE RequestMoved(r)
  BY <1>13 DEF Arrive
<1> QED
  BY <1>12, <1>13, <1>1, <1>2, <1>3, <1>4, <1>5, <1>6, <1>7, <1>8, <1>9, <1>10, <1>11 DEF PlainRequestStep

(***************************************************************************)
(* Claims.                                                                 *)
(***************************************************************************)

(* Every step is of one of these kinds. *)
LEMMA Steps ==
  ASSUME [Next]_vars
  PROVE  \/ \E r \in Requests : \/ PlainRequestStep(r)
                                \/ PlayClaim(r) \/ Register(r)
                                \/ WorkerStep(r)
         \/ \E c \in Controls : Stop(c) \/ Cancel(c) \/ BxStop(c) \/ Beat(c) \/ ControlStep(c)
         \/ TvTake \/ TvError \/ TvEnds \/ BxIdle \/ (\E t \in Titles : JobStale(t))
            \/ (\E r \in Requests : WProgress(r)) \/ UNCHANGED vars
BY DEF Next, RequestStep, PlainRequestStep

(* The two steps that make a claim and give it to a worker. *)
LEMMA PlayClaimMoves ==
  ASSUME TypeOK, NEW r \in Requests, PlayClaim(r)
  PROVE  /\ UNCHANGED <<wk, inflight, players>> /\ playGen' = playGen + 1
         /\ \A s \in Requests \ {r} : req'[s] = req[s]
         /\ req[r].pc = "claim" /\ req'[r].pc = "register" /\ req'[r].gen = playGen + 1
         /\ req'[r].title = req[r].title
<1>1. req[r] \in Request /\ req \in [Requests -> Request]
  BY DEF TypeOK
<1> QED BY <1>1 DEF PlayClaim, Request

LEMMA RegisterMoves ==
  ASSUME TypeOK, NEW r \in Requests, Register(r)
  PROVE  /\ UNCHANGED <<playGen, inflight, players>>
         /\ \A s \in Requests \ {r} : req'[s] = req[s] /\ wk'[s] = wk[s]
         /\ req[r].pc = "register" /\ req'[r].pc = "finish" /\ req'[r].gen = req[r].gen
         /\ req'[r].title = req[r].title /\ wk'[r].pc = "top"
<1>1. req[r] \in Request /\ req \in [Requests -> Request] /\ wk \in [Requests -> Worker]
  BY DEF TypeOK
<1> QED BY <1>1 DEF Register, ReqAt, Request, Worker

(* A request holds a claim only from play_claim() on, and has a worker only
   once it holds one. *)
ClaimsHeld ==
  \A r \in Requests :
    /\ req[r].gen # 0 => req[r].pc \in {"register", "finish", "accepted"}
    /\ wk[r].pc # "none" => req[r].gen # 0 /\ req[r].pc \in {"finish", "accepted"}
    /\ req[r].pc \in {"register", "finish", "accepted"} => req[r].gen # 0

ClaimInv == SoleClaimant /\ ClaimsHeld

LEMMA ClaimInvInit == Init => ClaimInv
BY DEF Init, ClaimInv, SoleClaimant, ClaimsHeld, IdleRequest, NoWorker

LEMMA ClaimInvStep == TypeOK /\ ClaimInv /\ [Next]_vars => ClaimInv'
<1> SUFFICES ASSUME TypeOK, ClaimInv, [Next]_vars PROVE ClaimInv'
  OBVIOUS
<1>0. playGen \in Nat /\ \A r \in Requests : req[r].gen \in Nat
  BY DEF TypeOK, Request
<1>1. ASSUME NEW r \in Requests, PlainRequestStep(r) PROVE ClaimInv'
  BY <1>0, <1>1, RequestMoves DEF RequestMoved, ClaimInv, SoleClaimant, ClaimsHeld
<1>2. ASSUME NEW r \in Requests, PlayClaim(r) PROVE ClaimInv'
  BY <1>0, <1>2, PlayClaimMoves DEF ClaimInv, SoleClaimant, ClaimsHeld
<1>3. ASSUME NEW r \in Requests, Register(r) PROVE ClaimInv'
  BY <1>0, <1>3, RegisterMoves DEF ClaimInv, SoleClaimant, ClaimsHeld
<1>4. ASSUME NEW r \in Requests, WorkerStep(r) PROVE ClaimInv'
  BY <1>0, <1>4, WorkerMoves DEF WorkerMoved, Early, Unwinding, Committed, ClaimInv, SoleClaimant, ClaimsHeld
<1>5. ASSUME NEW c \in Controls, Stop(c) \/ Cancel(c) \/ BxStop(c) \/ Beat(c) \/ ControlStep(c)
      PROVE ClaimInv'
  BY <1>0, <1>5, ControlMoves DEF ClaimInv, SoleClaimant, ClaimsHeld
<1>6. CASE UNCHANGED <<req, wk, playGen>>
  BY <1>6 DEF ClaimInv, SoleClaimant, ClaimsHeld
<1> QED BY <1>1, <1>2, <1>3, <1>4, <1>5, <1>6, Steps, OthersMove

(* No two requests ever hold the same claim, and none a claim that was not
   made yet: play_claim() bumps the counter and reads it under one lock, so
   of any number of plays, stops and cancels at most one play is current. *)
THEOREM ClaimsAreExclusive == Spec => []SoleClaimant
<1>1. TypeOK /\ ClaimInv /\ [Next]_vars => ClaimInv'
  BY ClaimInvStep
<1>2. ClaimInv => SoleClaimant
  BY DEF ClaimInv
<1> QED BY <1>1, <1>2, ClaimInvInit, TypeCorrect, PTL DEF Spec

(* A worker whose claim has lapsed is never seen moving from preparing a film
   to handing it over or publishing it: both paths check superseded() last
   thing before they commit, in one critical section with committing. *)
THEOREM LapsedNeverCommits == Spec => LapsedStaysBehind
<1> DEFINE Stays == \A r \in Requests :
                      Superseded(r) /\ wk[r].pc \notin Beyond => wk'[r].pc \notin Beyond
<1>1. TypeOK /\ ClaimInv /\ [Next]_vars => [Stays]_vars
  <2> SUFFICES ASSUME TypeOK, ClaimInv, [Next]_vars, NEW r \in Requests,
                      Superseded(r), wk[r].pc \notin Beyond
               PROVE  wk'[r].pc \notin Beyond
    OBVIOUS
  <2>1. ASSUME NEW s \in Requests, WorkerStep(s) PROVE wk'[r].pc \notin Beyond
    BY <2>1, WorkerMoves DEF WorkerMoved, Early, Unwinding, Committed, Beyond
  <2>2. ASSUME NEW s \in Requests, Register(s) PROVE wk'[r].pc \notin Beyond
    BY <2>2, RegisterMoves DEF Beyond
  <2>3. CASE UNCHANGED wk
    BY <2>3
  <2> QED BY <2>1, <2>2, <2>3, Steps, RequestMoves, PlayClaimMoves, ControlMoves, OthersMove
          DEF RequestMoved
<1> QED BY <1>1, ClaimInvInit, ClaimInvStep, TypeCorrect, PTL DEF Spec, LapsedStaysBehind

(***************************************************************************)
(* The refinement of PlayClaims.                                           *)
(***************************************************************************)

Statuses == [r \in Requests |-> StatusOf(r)]

(* A bump of the counter makes every claim that has not committed lapse. *)
LEMMA BumpLapses ==
  ASSUME TypeOK, ClaimInv, playGen' = playGen + 1, NEW r \in Requests,
         req'[r] = req[r], wk'[r] = wk[r]
  PROVE  StatusOf(r)' = Claims!Lapse(StatusOf(r))
<1>1. playGen \in Nat /\ req[r].gen \in Nat /\ req[r].gen <= playGen
  BY DEF TypeOK, Request, ClaimInv, SoleClaimant
<1> QED BY <1>1 DEF StatusOf, Committed, Unwinding, Superseded, Claims!Lapse

LEMMA ClaimsStep ==
  ASSUME TypeOK, ClaimInv, [Next]_vars
  PROVE  [Claims!Next]_Statuses
<1>0. playGen \in Nat /\ \A r \in Requests : req[r].gen \in Nat
  BY DEF TypeOK, Request
<1>1. ASSUME NEW r \in Requests, PlainRequestStep(r) PROVE UNCHANGED Statuses
  <2>1. \A s \in Requests : StatusOf(s)' = StatusOf(s)
    BY <1>0, <1>1, RequestMoves DEF RequestMoved, ClaimInv, ClaimsHeld, StatusOf, Committed, Unwinding,
        Superseded
  <2> QED BY <2>1 DEF Statuses
<1>2. ASSUME NEW r \in Requests, PlayClaim(r) PROVE Claims!Claim(r)
  <2>1. StatusOf(r) = "waiting"
    BY <1>0, <1>2, PlayClaimMoves DEF ClaimInv, ClaimsHeld, StatusOf, Committed, Unwinding
  <2>2. StatusOf(r)' = "current"
    BY <1>0, <1>2, PlayClaimMoves DEF ClaimInv, ClaimsHeld, StatusOf, Committed, Unwinding,
        Superseded
  <2>3. \A s \in Requests \ {r} : StatusOf(s)' = Claims!Lapse(StatusOf(s))
    BY <1>2, PlayClaimMoves, BumpLapses
  <2> QED BY <2>1, <2>2, <2>3 DEF Claims!Claim
<1>3. ASSUME NEW r \in Requests, Register(r) PROVE UNCHANGED Statuses
  <2>1. \A s \in Requests : StatusOf(s)' = StatusOf(s)
    BY <1>0, <1>3, RegisterMoves DEF ClaimInv, ClaimsHeld, StatusOf, Committed, Unwinding,
        Superseded
  <2> QED BY <2>1 DEF Statuses
<1>4. ASSUME NEW r \in Requests, WorkerStep(r)
      PROVE  Claims!Commit(r) \/ Claims!Show(r) \/ Claims!Finish(r) \/ UNCHANGED Statuses
  <2>1. \A s \in Requests \ {r} : StatusOf(s)' = StatusOf(s)
    BY <1>4, WorkerMoves DEF WorkerMoved, StatusOf, Committed, Unwinding, Superseded
  <2>2. \/ StatusOf(r) = "current" /\ StatusOf(r)' = "committed"
        \/ StatusOf(r) = "committed" /\ StatusOf(r)' = "shown"
        \/ StatusOf(r) \in {"current", "lapsed", "committed"} /\ StatusOf(r)' = "over"
        \/ StatusOf(r)' = StatusOf(r)
    BY <1>0, <1>4, WorkerMoves DEF WorkerMoved, Early, Unwinding, Committed, ClaimInv, ClaimsHeld,
                                   StatusOf, Superseded
  <2> QED BY <2>1, <2>2 DEF Claims!Commit, Claims!Show, Claims!Finish, Statuses
<1>5. ASSUME NEW c \in Controls, Stop(c) \/ Cancel(c) \/ BxStop(c) \/ Beat(c) \/ ControlStep(c)
      PROVE  Claims!Revoke \/ UNCHANGED Statuses
  <2>1. CASE playGen' = playGen + 1
    <3>1. \A s \in Requests : StatusOf(s)' = Claims!Lapse(StatusOf(s))
      BY <1>5, <2>1, ControlMoves, BumpLapses
    <3> QED BY <3>1 DEF Claims!Revoke
  <2>2. CASE playGen' = playGen
    BY <1>5, <2>2, ControlMoves DEF Statuses, StatusOf, Committed, Unwinding, Superseded
  <2> QED BY <1>5, <2>1, <2>2, ControlMoves
<1>6. ASSUME UNCHANGED <<req, wk, playGen>> PROVE UNCHANGED Statuses
  BY <1>6 DEF Statuses, StatusOf, Committed, Unwinding, Superseded
<1> QED
  <2> DEFINE Advance(r) == \/ Claims!Claim(r) \/ Claims!Commit(r)
                           \/ Claims!Show(r) \/ Claims!Finish(r)
  <2>1. UNCHANGED Statuses \/ Claims!Revoke \/ \E r \in Requests : Advance(r)
    <3>1. CASE \E r \in Requests : \/ PlainRequestStep(r) \/ PlayClaim(r)
                                  \/ Register(r) \/ WorkerStep(r)
      BY <3>1, <1>1, <1>2, <1>3, <1>4
    <3>2. CASE \E c \in Controls : Stop(c) \/ Cancel(c) \/ BxStop(c) \/ Beat(c) \/ ControlStep(c)
      BY <3>2, <1>5
    <3>3. CASE \/ TvTake \/ TvError \/ TvEnds \/ BxIdle \/ (\E t \in Titles : JobStale(t))
               \/ (\E r \in Requests : WProgress(r)) \/ UNCHANGED vars
      BY <3>3, <1>6, OthersMove
    <3> QED BY <3>1, <3>2, <3>3, Steps
  <2> QED BY <2>1 DEF Claims!Next, Statuses

(* The protocol implements PlayClaims: a film is put on a player only by a
   play whose claim was the newest one when it made its last check. *)
THEOREM ImplementsClaims == Spec => ClaimsSpec
<1>1. Init => Claims!Init
  BY DEF Init, Claims!Init, StatusOf, Committed, Unwinding, IdleRequest, NoWorker
<1>2. TypeOK /\ ClaimInv /\ [Next]_vars => [Claims!Next]_Statuses
  BY ClaimsStep
<1> QED BY <1>1, <1>2, ClaimInvInit, ClaimInvStep, TypeCorrect, PTL
        DEF Spec, ClaimsSpec, Claims!Spec, Statuses

(***************************************************************************)
(* The count of requests inside start_play().                              *)
(***************************************************************************)

InPlaySet == {r \in Requests : req[r].pc \in InPlay}

(* The count follows the set through the step of any one request. *)
LEMMA CountStep ==
  ASSUME TypeOK, InflightExact, NEW r \in Requests, Counted(r),
         \A s \in Requests \ {r} : req'[s] = req[s]
  PROVE  InflightExact'
<1>1. IsFiniteSet(InPlaySet) /\ IsFiniteSet(InPlaySet')
  BY FiniteAssumption, FS_Subset DEF InPlaySet
<1>2. inflight = Cardinality(InPlaySet)
  BY DEF InflightExact, InPlaySet
<1>3. CASE req[r].pc \notin InPlay /\ req'[r].pc \in InPlay /\ inflight' = inflight + 1
  <2>1. InPlaySet' = InPlaySet \cup {r} /\ r \notin InPlaySet
    BY <1>3 DEF InPlaySet
  <2>2. Cardinality(InPlaySet') = Cardinality(InPlaySet) + 1
    BY <1>1, <2>1, FS_AddElement
  <2> QED BY <1>2, <1>3, <2>2 DEF InflightExact, InPlaySet
<1>4. CASE req[r].pc \in InPlay /\ req'[r].pc \notin InPlay /\ inflight' = inflight - 1
  <2>1. InPlaySet' = InPlaySet \ {r} /\ r \in InPlaySet
    BY <1>4 DEF InPlaySet
  <2>2. Cardinality(InPlaySet') = Cardinality(InPlaySet) - 1
    BY <1>1, <2>1, FS_RemoveElement
  <2> QED BY <1>2, <1>4, <2>2 DEF InflightExact, InPlaySet
<1>5. CASE (req[r].pc \in InPlay <=> req'[r].pc \in InPlay) /\ inflight' = inflight
  <2>1. InPlaySet' = InPlaySet
    BY <1>5 DEF InPlaySet
  <2> QED BY <1>2, <1>5, <2>1 DEF InflightExact, InPlaySet
<1> QED BY <1>3, <1>4, <1>5 DEF Counted

(* The count of start_play() calls not yet returned is exact, whichever way
   each of them leaves: a cancel that finds no job relies on it to tell a play
   still being resolved from no play at all. *)
THEOREM CountIsExact == Spec => []InflightExact
<1>1. Init => InflightExact
  <2> SUFFICES ASSUME Init PROVE InflightExact
    OBVIOUS
  <2>1. InPlaySet = {}
    BY DEF Init, InPlaySet, InPlay, IdleRequest
  <2> QED BY <2>1, FS_EmptySet DEF Init, InflightExact, InPlaySet
<1>2. TypeOK /\ InflightExact /\ [Next]_vars => InflightExact'
  <2> SUFFICES ASSUME TypeOK, InflightExact, [Next]_vars PROVE InflightExact'
    OBVIOUS
  <2>1. ASSUME NEW r \in Requests, PlainRequestStep(r) PROVE InflightExact'
    BY <2>1, RequestMoves, CountStep DEF RequestMoved
  <2>2. ASSUME NEW r \in Requests, PlayClaim(r) PROVE InflightExact'
    BY <2>2, PlayClaimMoves, CountStep DEF Counted, InPlay
  <2>3. ASSUME NEW r \in Requests, Register(r) PROVE InflightExact'
    BY <2>3, RegisterMoves, CountStep DEF Counted, InPlay
  <2>4. CASE UNCHANGED <<req, inflight>>
    BY <2>4 DEF InflightExact
  <2> QED BY <2>1, <2>2, <2>3, <2>4, Steps, WorkerMoves, ControlMoves, OthersMove
          DEF WorkerMoved
<1> QED BY <1>1, <1>2, TypeCorrect, PTL DEF Spec

(***************************************************************************)
(* The order in the TV app's slot.                                         *)
(***************************************************************************)

(* What one step of a worker does to the order it waits for. *)
OrderMoved(r) ==
  /\ UNCHANGED tv
  /\ \/ UNCHANGED slot /\ wk[r].pc \notin Waiting
     \/ UNCHANGED slot /\ wk[r].pc \in Waiting /\ wk'[r].pc \in Waiting
        /\ wk'[r].order = wk[r].order
     \/ UNCHANGED slot /\ Taken(r)
     \/ UNCHANGED seq /\ AppCmdClear(wk[r].order) /\ wk[r].pc \in Waiting
     \/ AppCmd("play", Title(r)) /\ wk'[r].pc \in Waiting /\ wk'[r].order = seq + 1

LEMMA WorkerOrders ==
  ASSUME TypeOK, NEW r \in Requests, WorkerStep(r)
  PROVE  OrderMoved(r)
<1> USE DEF OrderMoved, Waiting, WkAt, WkEnd, NoWorker, StandDown, NextCandidate
<1>0. wk \in [Requests -> Worker] /\ wk[r] \in Worker
  BY DEF TypeOK
<1> USE <1>0 DEF Worker
<1>1. CASE WTop(r)
  BY <1>1 DEF WTop
<1>2. CASE WBuffer(r)
  BY <1>2 DEF WBuffer
<1>3. CASE WOut(r)
  BY <1>3 DEF WOut
<1>4. CASE WPrepared(r)
  BY <1>4 DEF WPrepared
<1>5. CASE WNext(r)
  BY <1>5 DEF WNext
<1>6. CASE WEncode(r)
  BY <1>6 DEF WEncode
<1>7. CASE WNoRoom(r)
  BY <1>7 DEF WNoRoom
<1>8. CASE WLaunching(r)
  BY <1>8 DEF WLaunching
<1>9. CASE WLastCheck(r)
  BY <1>9 DEF WLastCheck
<1>10. CASE WSend(r)
  BY <1>10 DEF WSend
<1>11. CASE WNoApp(r)
  BY <1>11 DEF WNoApp
<1>12. CASE WCheckOrder(r)
  BY <1>12 DEF WCheckOrder
<1>13. CASE WSeen(r)
  BY <1>13 DEF WSeen
<1>14. CASE WDeadline(r)
  BY <1>14 DEF WDeadline
<1>15. CASE WHandedOver(r)
  BY <1>15 DEF WHandedOver
<1>16. CASE WNotHandedOver(r)
  BY <1>16 DEF WNotHandedOver
<1>17. CASE WDecide(r)
  BY <1>17 DEF WDecide
<1>18. CASE WVerify(r)
  BY <1>18 DEF WVerify
<1>19. CASE WBegin(r)
  BY <1>19 DEF WBegin
<1>20. CASE WLastWord(r)
  BY <1>20 DEF WLastWord
<1>21. CASE WUnwind(r)
  BY <1>21 DEF WUnwind
<1>22. CASE WUnwound(r)
  BY <1>22 DEF WUnwound
<1>23. CASE WPublishSession(r)
  BY <1>23 DEF WPublishSession
<1>24. CASE WPublishJob(r)
  BY <1>24 DEF WPublishJob
<1>25. CASE WRaise(r)
  BY <1>25 DEF WRaise
<1> QED
  BY <1>1, <1>2, <1>3, <1>4, <1>5, <1>6, <1>7, <1>8, <1>9, <1>10, <1>11, <1>12, <1>13, <1>14,
     <1>15, <1>16, <1>17, <1>18, <1>19, <1>20, <1>21, <1>22, <1>23, <1>24, <1>25 DEF WorkerStep

(* Control requests only ever queue a stop; the TV app takes what is there,
   and nothing else touches the slot or what the app has acknowledged. *)
LEMMA ControlOrders ==
  ASSUME NEW c \in Controls, Stop(c) \/ Cancel(c) \/ BxStop(c) \/ Beat(c) \/ ControlStep(c)
  PROVE  UNCHANGED tv /\ (UNCHANGED slot \/ AppCmd("stop", None))
BY DEF Stop, Cancel, BxStop, Beat, ControlStep, StopClaim, StopFind, StopMark, StopSession,
       CancelInflight, CancelBump, CancelClaim, CancelMark, BxTeardown, BxFind, BxClaim,
       BxMark, BeatWrite

LEMMA OthersOrder ==
  ASSUME TypeOK,
         TvTake \/ TvError \/ TvEnds \/ BxIdle \/ (\E t \in Titles : JobStale(t))
         \/ (\E r \in Requests : WProgress(r)) \/ UNCHANGED vars
  PROVE  \/ UNCHANGED slot /\ tv'.acked = tv.acked
         \/ UNCHANGED seq /\ cmd # NoCmd /\ cmd' = NoCmd /\ tv'.acked = cmd.seq
BY DEF TypeOK, TvReport, TvTake, TvError, TvEnds, BxIdle, JobStale, WProgress, vars

(* An order in the slot was numbered from the counter and is newer than any
   the app has acknowledged. *)
SlotInv ==
  /\ cmd.seq <= seq /\ tv.acked <= seq
  /\ cmd.type # "none" => tv.acked < cmd.seq
  /\ cmd.type = "none" => cmd = NoCmd

LEMMA OrderInvStep ==
  ASSUME TypeOK, ClaimInv, SlotInv, OrderHasWaiter, [Next]_vars
  PROVE  SlotInv' /\ OrderHasWaiter'
<1> USE DEF ClaimInv
<1>0. /\ seq \in Nat /\ cmd \in Command /\ tv.acked \in Nat
      /\ \A r \in Requests : wk[r].order \in Nat
  BY DEF TypeOK, TvReport, Worker
<1> USE <1>0 DEF Command
<1>1. ASSUME NEW r \in Requests, PlainRequestStep(r) PROVE SlotInv' /\ OrderHasWaiter'
  <2>1. UNCHANGED <<slot, wk>> /\ tv'.acked = tv.acked
    BY <1>1, RequestMoves DEF RequestMoved
  <2>2. \A s \in Requests : wk[s].pc \in Waiting => Title(s)' = Title(s)
    BY <1>1, RequestMoves DEF RequestMoved, ClaimsHeld, Title, Waiting
  <2> QED BY <2>1, <2>2 DEF SlotInv, OrderHasWaiter
<1>2. ASSUME NEW r \in Requests, PlayClaim(r) PROVE SlotInv' /\ OrderHasWaiter'
  BY <1>2, PlayClaimMoves DEF SlotInv, OrderHasWaiter, Title
<1>3. ASSUME NEW r \in Requests, Register(r) PROVE SlotInv' /\ OrderHasWaiter'
  <2>1. wk[r].pc \notin Waiting
    BY <1>3, RegisterMoves DEF ClaimsHeld, Waiting
  <2> QED BY <1>3, <2>1, RegisterMoves DEF SlotInv, OrderHasWaiter, Title
<1>4. ASSUME NEW r \in Requests, WorkerStep(r) PROVE SlotInv' /\ OrderHasWaiter'
  <2>1. UNCHANGED req /\ \A s \in Requests \ {r} : wk'[s] = wk[s]
    BY <1>4, WorkerMoves DEF WorkerMoved
  <2>2. UNCHANGED tv
    BY <1>4, WorkerOrders DEF OrderMoved
  <2>3. CASE UNCHANGED slot /\ (wk[r].pc \notin Waiting \/ Taken(r))
    <3>1. cmd.type = "play" => ~(wk[r].pc \in Waiting /\ wk[r].order = cmd.seq)
      BY <2>3 DEF SlotInv, Taken
    <3> QED BY <2>1, <2>2, <2>3, <3>1 DEF SlotInv, OrderHasWaiter, Title
  <2>4. CASE UNCHANGED slot /\ wk'[r].pc \in Waiting /\ wk'[r].order = wk[r].order
    BY <2>1, <2>2, <2>4 DEF SlotInv, OrderHasWaiter, Title
  <2>5. CASE UNCHANGED seq /\ AppCmdClear(wk[r].order)
    BY <2>1, <2>2, <2>5 DEF SlotInv, OrderHasWaiter, Title, AppCmdClear, NoCmd
  <2>6. CASE AppCmd("play", Title(r)) /\ wk'[r].pc \in Waiting /\ wk'[r].order = seq + 1
    BY <2>1, <2>2, <2>6 DEF SlotInv, OrderHasWaiter, Title, AppCmd
  <2> QED BY <1>4, <2>3, <2>4, <2>5, <2>6, WorkerOrders DEF OrderMoved
<1>5. ASSUME NEW c \in Controls, Stop(c) \/ Cancel(c) \/ BxStop(c) \/ Beat(c) \/ ControlStep(c)
      PROVE  SlotInv' /\ OrderHasWaiter'
  BY <1>5, ControlMoves, ControlOrders DEF SlotInv, OrderHasWaiter, Title, AppCmd
<1>6. ASSUME TvTake \/ TvError \/ TvEnds \/ BxIdle \/ (\E t \in Titles : JobStale(t))
             \/ (\E r \in Requests : WProgress(r)) \/ UNCHANGED vars
      PROVE  SlotInv' /\ OrderHasWaiter'
  BY <1>6, OthersMove, OthersOrder DEF SlotInv, OrderHasWaiter, Title, NoCmd
<1> QED BY <1>1, <1>2, <1>3, <1>4, <1>5, <1>6, Steps

(* A play order is in the app's slot only while the worker that queued it
   waits for it: launch() takes its own order back when it gives up, and never
   a newer one, so no film is started that nobody is waiting for. *)
THEOREM NoOrphanOrder == Spec => []OrderHasWaiter
<1>1. Init => SlotInv /\ OrderHasWaiter
  BY DEF Init, SlotInv, OrderHasWaiter, NoCmd
<1>2. TypeOK /\ ClaimInv /\ SlotInv /\ OrderHasWaiter /\ [Next]_vars => (SlotInv /\ OrderHasWaiter)'
  BY OrderInvStep
<1> QED BY <1>1, <1>2, ClaimInvInit, ClaimInvStep, TypeCorrect, PTL DEF Spec

(***************************************************************************)
(* Jobs settle once everything has ended.                                  *)
(***************************************************************************)

(* A worker that will still write its job's last stage, and an autoplay that
   will still register its placeholder or retire it. *)
Running(r) == wk[r].pc \notin {"none", "unwind", "unwinding", "played", "failed"}
Pending(r) == /\ req[r].auto
              /\ req[r].pc \notin {"idle", "attached", "refused", "accepted", "finish"}

(* Every active job has such a thread to settle it; a placeholder's is an
   autoplay only while nobody has moved it from "starting". *)
Attended(t) ==
  \/ \E r \in Requests : Running(r) /\ Title(r) = t
  \/ job[t].stage = "starting" /\ \E r \in Requests : Pending(r) /\ Title(r) = t
ActiveAttended == \A t \in Titles : job[t].stage \in JobActive => Attended(t)

Settled == {"playing", "error"}

(* job_set on the stage, and what it does to the table. *)
LEMMA StageSet ==
  ASSUME TypeOK, NEW t, NEW s, SetStage(t, s)
  PROVE  \A u \in Titles : job'[u].stage = IF u = t THEN s ELSE job[u].stage
<1>1. \A u \in Titles : job[u] \in JobRecord
  BY DEF TypeOK
<1>2. job' = [job EXCEPT ![t] = [[job[t] EXCEPT !.stage = s] EXCEPT !.fresh = TRUE]]
  BY DEF SetStage, JobSet
<1>3. \A u \in Titles : job'[u] = IF u = t THEN [[job[t] EXCEPT !.stage = s] EXCEPT !.fresh = TRUE]
                                           ELSE job[u]
  BY <1>2 DEF TypeOK
<1>4. t \in Titles => [[job[t] EXCEPT !.stage = s] EXCEPT !.fresh = TRUE].stage = s
  BY <1>1 DEF JobRecord
<1> QED BY <1>3, <1>4

(* A worker's step touches the stage of its own title at most; while it runs
   it may make it active, and when it ends it leaves it settled. *)
WorkerStages(r) ==
  /\ \A u \in Titles : job'[u].stage = job[u].stage \/ (u = Title(r) /\ Running(r))
  /\ Running(r) /\ ~Running(r)' => \A u \in Titles : u = Title(r) => job'[u].stage \in Settled
  /\ ~Running(r) => ~Running(r)'

LEMMA WorkerSettles ==
  ASSUME TypeOK, NEW r \in Requests, WorkerStep(r)
  PROVE  WorkerStages(r)
<1> USE DEF WorkerStages, Running, Settled, WkAt, WkEnd, NoWorker, StandDown, NextCandidate
<1>0. wk \in [Requests -> Worker] /\ wk[r] \in Worker
  BY DEF TypeOK
<1> USE StageSet DEF Worker
<1>1. CASE WTop(r)
  <2>1. CASE wk' = [wk EXCEPT ![r] = [wk[r] EXCEPT !.pc = "buffer", !.left = wk[r].left - 1]]
             /\ UNCHANGED table
    BY <1>0, <1>1, <2>1 DEF WTop
  <2>2. CASE SetStage(Title(r), "error") /\ WkEnd(r, "failed")
    BY <1>0, <1>1, <2>2 DEF WTop
  <2> QED BY <1>1, <2>1, <2>2 DEF WTop
<1>2. CASE WBuffer(r)
  BY <1>2, <1>0 DEF WBuffer
<1>3. CASE WOut(r)
  BY <1>3, <1>0 DEF WOut
<1>4. CASE WPrepared(r)
  BY <1>4, <1>0 DEF WPrepared
<1>5. CASE WNext(r)
  BY <1>5, <1>0 DEF WNext
<1>6. CASE WEncode(r)
  BY <1>6, <1>0 DEF WEncode
<1>7. CASE WNoRoom(r)
  BY <1>7, <1>0 DEF WNoRoom
<1>8. CASE WLaunching(r)
  BY <1>8, <1>0 DEF WLaunching
<1>9. CASE WLastCheck(r)
  BY <1>9, <1>0 DEF WLastCheck
<1>10. CASE WSend(r)
  BY <1>10, <1>0 DEF WSend
<1>11. CASE WNoApp(r)
  BY <1>11, <1>0 DEF WNoApp
<1>12. CASE WCheckOrder(r)
  BY <1>12, <1>0 DEF WCheckOrder
<1>13. CASE WSeen(r)
  BY <1>13, <1>0 DEF WSeen
<1>14. CASE WDeadline(r)
  BY <1>14, <1>0 DEF WDeadline
<1>15. CASE WHandedOver(r)
  BY <1>15, <1>0 DEF WHandedOver
<1>16. CASE WNotHandedOver(r)
  BY <1>16, <1>0 DEF WNotHandedOver
<1>17. CASE WDecide(r)
  BY <1>17, <1>0 DEF WDecide
<1>18. CASE WVerify(r)
  BY <1>18, <1>0 DEF WVerify
<1>19. CASE WBegin(r)
  BY <1>19, <1>0 DEF WBegin
<1>20. CASE WLastWord(r)
  BY <1>20, <1>0 DEF WLastWord
<1>21. CASE WUnwind(r)
  BY <1>21, <1>0 DEF WUnwind
<1>22. CASE WUnwound(r)
  BY <1>22, <1>0 DEF WUnwound
<1>23. CASE WPublishSession(r)
  BY <1>23, <1>0 DEF WPublishSession
<1>24. CASE WPublishJob(r)
  <2>1. \A u \in Titles : job[u] \in JobRecord
    BY DEF TypeOK
  <2>2. \A u \in Titles : job'[u].stage = IF u = Title(r) THEN "playing" ELSE job[u].stage
    BY <1>24, <2>1 DEF WPublishJob, JobSet, JobRecord, TypeOK
  <2> QED BY <1>24, <1>0, <2>2 DEF WPublishJob
<1>25. CASE WRaise(r)
  BY <1>25, <1>0 DEF WRaise
<1> QED
  BY <1>1, <1>2, <1>3, <1>4, <1>5, <1>6, <1>7, <1>8, <1>9, <1>10, <1>11, <1>12, <1>13, <1>14,
     <1>15, <1>16, <1>17, <1>18, <1>19, <1>20, <1>21, <1>22, <1>23, <1>24, <1>25 DEF WorkerStep

(* A request's step: an autoplay makes its placeholder active and is pending
   from then on, until it registers it or retires it. *)
RequestStages(r) ==
  /\ \A u \in Titles : job'[u].stage \in {job[u].stage, "error"}
                       \/ (job'[u].stage = "starting" /\ Pending(r)' /\ Title(r)' = u)
  /\ Pending(r) => \/ Pending(r)'
                   \/ \A u \in Titles : u = Title(r) => job'[u].stage # "starting"

LEMMA RequestSettles ==
  ASSUME TypeOK, NEW r \in Requests, PlainRequestStep(r)
  PROVE  RequestStages(r)
<1> USE DEF RequestStages, Pending, IdleRequest, ReqAt, Title
<1>0. req \in [Requests -> Request] /\ req[r] \in Request /\ \A u \in Titles : job[u] \in JobRecord
  BY DEF TypeOK
<1> USE <1>0, StageSet DEF Request
<1>1. CASE AutoplayNext(r)
  BY <1>1 DEF AutoplayNext
<1>2. CASE Enter(r)
  BY <1>2 DEF Enter
<1>11. CASE Resolved(r)
  BY <1>11 DEF Resolved
<1>3. CASE ClaimFirst(r) \/ ClaimSecond(r)
  BY <1>3 DEF ClaimFirst, ClaimSecond
<1>10. CASE Leave(r)
  <2>1. Pending(r) => req'[r].pc = "retire" /\ req'[r].auto
    BY <1>10 DEF Leave
  <2>2. UNCHANGED job
    BY <1>10 DEF Leave
  <2> QED BY <2>1, <2>2
<1>4. CASE FindOlder(r)
  <2>1. CASE ReqAt(r, "claim")
    BY <1>4, <2>1 DEF FindOlder
  <2>2. CASE \E m \in Titles : req' = [req EXCEPT ![r] = [req[r] EXCEPT !.pc = "mark", !.amid = m]]
    <3>1. PICK m \in Titles : req' = [req EXCEPT ![r] = [req[r] EXCEPT !.pc = "mark", !.amid = m]]
      BY <2>2
    <3> QED BY <1>4, <3>1 DEF FindOlder
  <2> QED BY <1>4, <2>1, <2>2 DEF FindOlder
<1>5. CASE MarkOlder(r)
  BY <1>5 DEF MarkOlder
<1>6. CASE Finish(r)
  <2>1. \A u \in Titles : job'[u].stage = job[u].stage
    BY <1>6 DEF Finish, JobSet, JobRecord, TypeOK
  <2> QED BY <1>6, <2>1 DEF Finish
<1>7. CASE Retire(r)
  BY <1>7 DEF Retire
<1>8. ASSUME NEW t \in Titles, Attach(r, t) PROVE RequestStages(r)
  BY <1>8 DEF Attach
<1>9. ASSUME NEW t \in Titles, NEW o \in Owners, Arrive(r, t, o) PROVE RequestStages(r)
  BY <1>9 DEF Arrive
<1> QED BY <1>1, <1>2, <1>3, <1>4, <1>5, <1>6, <1>7, <1>8, <1>9, <1>10, <1>11
        DEF PlainRequestStep, ResolveRefused, ClaimRefused

(* Nobody else makes a job active. *)
LEMMA OthersSettle ==
  ASSUME TypeOK,
         \/ \E c \in Controls : Stop(c) \/ Cancel(c) \/ BxStop(c) \/ Beat(c) \/ ControlStep(c)
         \/ TvTake \/ TvError \/ TvEnds \/ BxIdle \/ (\E t \in Titles : JobStale(t))
            \/ (\E r \in Requests : WProgress(r) \/ PlayClaim(r)) \/ UNCHANGED vars
  PROVE  \A u \in Titles : job'[u].stage \in {job[u].stage, "error"}
<1>0. \A u \in Titles : job[u] \in JobRecord
  BY DEF TypeOK
<1>1. ASSUME NEW c \in Controls, Stop(c) \/ Cancel(c) \/ BxStop(c) \/ Beat(c) \/ ControlStep(c)
      PROVE  UNCHANGED table \/ \E t \in Titles \cup {None} : SetStage(t, "error")
  BY <1>1 DEF Stop, Cancel, BxStop, Beat, ControlStep, StopClaim, StopFind, StopMark, StopSession,
       CancelInflight, CancelBump, CancelClaim, CancelMark, BxTeardown, BxFind, BxClaim,
       BxMark, BeatWrite, TypeOK, Control
<1>2. CASE TvTake \/ TvEnds \/ BxIdle \/ (\E r \in Requests : PlayClaim(r)) \/ UNCHANGED vars
  BY <1>2 DEF TvTake, TvEnds, BxIdle, PlayClaim, vars
<1>3. CASE TvError
  BY <1>3, StageSet DEF TvError
<1>4. ASSUME NEW t \in Titles, JobStale(t) PROVE \A u \in Titles : job'[u].stage = job[u].stage
  BY <1>0, <1>4 DEF JobStale, JobRecord, TypeOK
<1>5. ASSUME NEW r \in Requests, WProgress(r) PROVE \A u \in Titles : job'[u].stage = job[u].stage
  BY <1>0, <1>5 DEF WProgress, JobSet, JobRecord, TypeOK
<1> QED BY <1>1, <1>2, <1>3, <1>4, <1>5, StageSet

LEMMA AttendedStep ==
  ASSUME TypeOK, ClaimInv, ActiveAttended, [Next]_vars
  PROVE  ActiveAttended'
<1> SUFFICES ASSUME NEW t \in Titles, job'[t].stage \in JobActive
             PROVE  Attended(t)'
  BY DEF ActiveAttended
<1> USE DEF JobActive
<1>0. \A r \in Requests : Running(r) => req[r].pc \in {"finish", "accepted"}
  BY DEF ClaimInv, ClaimsHeld, Running
<1>1. ASSUME NEW r \in Requests, PlainRequestStep(r) PROVE Attended(t)'
  <2>1. /\ UNCHANGED wk
        /\ \A s \in Requests \ {r} : req'[s] = req[s]
        /\ req[r].pc # "idle" => Title(r)' = Title(r)
    BY <1>1, RequestMoves DEF RequestMoved, Title
  <2>2. RequestStages(r)
    BY <1>1, RequestSettles
  <2>3. CASE job'[t].stage = "starting" /\ Pending(r)' /\ Title(r)' = t
    BY <2>3 DEF Attended
  <2>4. CASE job'[t].stage = job[t].stage
    <3>1. CASE \E s \in Requests : Running(s) /\ Title(s) = t
      BY <1>0, <2>1, <3>1 DEF Attended, Running, Title
    <3>2. ASSUME job[t].stage = "starting", NEW s \in Requests, Pending(s), Title(s) = t
          PROVE  Attended(t)'
      <4>1. CASE s = r
        BY <2>1, <2>2, <2>4, <3>2, <4>1 DEF Attended, RequestStages, Pending
      <4>2. CASE s # r
        BY <2>1, <2>4, <3>2, <4>2 DEF Attended, Pending, Title
      <4> QED BY <4>1, <4>2
    <3> QED BY <2>4, <3>1, <3>2 DEF ActiveAttended, Attended
  <2> QED BY <2>2, <2>3, <2>4 DEF RequestStages
<1>2. ASSUME NEW r \in Requests, Register(r) PROVE Attended(t)'
  <2>1. Running(r)' /\ Title(r)' = Title(r) /\ ~Running(r)
    BY <1>2, <1>0, RegisterMoves DEF Running, Title
  <2>2. \A s \in Requests \ {r} : (Running(s)' <=> Running(s)) /\ (Pending(s)' <=> Pending(s))
                                  /\ Title(s)' = Title(s)
    BY <1>2, RegisterMoves DEF Running, Pending, Title
  <2>3. CASE Title(r) = t
    BY <2>1, <2>3 DEF Attended
  <2>4. CASE Title(r) # t
    <3>1. job'[t] = job[t]
      BY <1>2, <2>4 DEF Register, JobSet, Title, TypeOK
    <3> QED BY <2>1, <2>2, <2>4, <3>1 DEF ActiveAttended, Attended
  <2> QED BY <2>3, <2>4
<1>3. ASSUME NEW r \in Requests, WorkerStep(r) PROVE Attended(t)'
  <2>1. UNCHANGED req /\ \A s \in Requests \ {r} : wk'[s] = wk[s]
    BY <1>3, WorkerMoves DEF WorkerMoved
  <2>2. WorkerStages(r)
    BY <1>3, WorkerSettles
  <2>3. CASE Title(r) = t /\ Running(r)
    BY <2>1, <2>2, <2>3 DEF Attended, WorkerStages, Settled, Title
  <2>4. CASE ~(Title(r) = t /\ Running(r))
    BY <2>1, <2>2, <2>4 DEF ActiveAttended, Attended, WorkerStages, Running, Pending, Title
  <2> QED BY <2>3, <2>4
<1>4. ASSUME UNCHANGED wk, \A u \in Titles : job'[u].stage \in {job[u].stage, "error"},
             \A s \in Requests : (Pending(s) => Pending(s)') /\ Title(s)' = Title(s)
      PROVE  Attended(t)'
  BY <1>4 DEF ActiveAttended, Attended, Running
<1>5. ASSUME NEW r \in Requests, PlayClaim(r) PROVE Attended(t)'
  <2>1. \A s \in Requests : (Pending(s) => Pending(s)') /\ Title(s)' = Title(s)
    <3>1. req[r] \in Request /\ req \in [Requests -> Request]
      BY DEF TypeOK
    <3> QED BY <1>5, <3>1 DEF PlayClaim, Pending, Title, Request
  <2> QED BY <1>4, <1>5, <2>1, PlayClaimMoves, OthersSettle
<1>6. ASSUME UNCHANGED req PROVE \A s \in Requests : (Pending(s) => Pending(s)') /\ Title(s)' = Title(s)
  BY <1>6 DEF Pending, Title
<1>7. ASSUME NEW c \in Controls, Stop(c) \/ Cancel(c) \/ BxStop(c) \/ Beat(c) \/ ControlStep(c)
      PROVE  Attended(t)'
  BY <1>4, <1>6, <1>7, ControlMoves, OthersSettle
<1>8. ASSUME TvTake \/ TvError \/ TvEnds \/ BxIdle \/ (\E u \in Titles : JobStale(u))
             \/ (\E r \in Requests : WProgress(r)) \/ UNCHANGED vars
      PROVE  Attended(t)'
  BY <1>4, <1>6, <1>8, OthersMove, OthersSettle
<1> QED BY <1>1, <1>2, <1>3, <1>5, <1>7, <1>8, Steps

(* Once every thread has ended no job is left in an active stage: whoever
   writes an active stage is, from then on, a running worker that will write a
   last one or an autoplay that will register its placeholder or retire it,
   and no cancel, stop or superseded worker takes that duty away. *)
THEOREM NothingLeftActive == Spec => []RestIsSettled
<1>1. Init => ActiveAttended
  BY DEF Init, ActiveAttended, NoJob, JobActive
<1>2. TypeOK /\ ClaimInv /\ ActiveAttended /\ [Next]_vars => ActiveAttended'
  BY AttendedStep
<1>3. ActiveAttended => RestIsSettled
  BY DEF ActiveAttended, Attended, RestIsSettled, AtRest, Running, Pending
<1> QED BY <1>1, <1>2, <1>3, ClaimInvInit, ClaimInvStep, TypeCorrect, PTL DEF Spec

==============================================================================
