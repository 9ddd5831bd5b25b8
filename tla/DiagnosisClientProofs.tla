----------------------- MODULE DiagnosisClientProofs -----------------------
(***************************************************************************)
(* Proofs about DiagnosisClient, for any number of items, starts and       *)
(* faults.                                                                 *)
(***************************************************************************)
EXTENDS DiagnosisClient, TLAPS

(* Types.                                                                  *)

LEMMA InitTypeOK == Init => TypeOK
<1> SUFFICES ASSUME Init PROVE TypeOK
  OBVIOUS
<1>1. /\ job \in [Jobs -> {"absent", "open", "done", "failed"}]
      /\ report = {}
  BY DEF Init, Server!Init
<1>2. attempts \in 0..MaxAttempts /\ faults \in 0..MaxFaults
  BY AttemptsAssumption, FaultsAssumption DEF Init
<1>3. QED
  BY <1>1, <1>2 DEF Init, TypeOK, Ids, Phases, CallStates, ItemStates, Flows

(* What the operators shared by several actions leave in the queue and in  *)
(* the hook.                                                               *)
LEMMA SetStatusType ==
    ASSUME TypeOK, NEW is \in SUBSET Items, NEW st \in ItemStates,
           SetStatus(is, st)
    PROVE  queue' \in [Items -> ItemStates]
BY DEF TypeOK, SetStatus, Listed

HookTypeOK ==
    /\ phase' \in Phases /\ jobId' \in Ids /\ terminal' \in BOOLEAN
    /\ closer' \in Ids

QueueTypeOK ==
    /\ queue' \in [Items -> ItemStates]
    /\ qjob' \in [Items -> Ids] /\ incident' \in [Items -> Ids]

LEMMA HandleType ==
    ASSUME TypeOK, NEW j \in Ids, NEW outcome, Handle(outcome, j)
    PROVE  HookTypeOK /\ QueueTypeOK
<1>1. ASSUME HandleDone(j) PROVE HookTypeOK /\ QueueTypeOK
  <2>1. queue' \in [Items -> ItemStates]
    BY <1>1, SetStatusType DEF HandleDone, Followers, ItemStates
  <2>2. QED
    BY <1>1, <2>1
       DEF HandleDone, EndWith, TypeOK, HookTypeOK, QueueTypeOK, Ids, Phases
<1>2. ASSUME HandleFailed(j) PROVE HookTypeOK /\ QueueTypeOK
  <2>1. queue' \in [Items -> ItemStates]
    BY <1>2, SetStatusType DEF HandleFailed, Followers, ItemStates
  <2>2. QED
    BY <1>2, <2>1
       DEF HandleFailed, EndWith, TypeOK, HookTypeOK, QueueTypeOK, Ids, Phases
<1>3. QED
  BY <1>1, <1>2 DEF Handle

LEMMA CloseStreamType ==
    ASSUME TypeOK, CloseStream
    PROVE  /\ sources' \subseteq Jobs
           /\ inbox' \in [Jobs -> {"none", "done", "failed"}]
BY DEF TypeOK, CloseStream, Close

LEMMA ResetType ==
    ASSUME TypeOK, NEW ph \in Phases, ResetTo(ph)
    PROVE  /\ HookTypeOK
           /\ stale' \subseteq Jobs
           /\ sources' \subseteq Jobs
           /\ inbox' \in [Jobs -> {"none", "done", "failed"}]
BY CloseStreamType DEF TypeOK, ResetTo, HookTypeOK, Ids

LEMMA BeginType ==
    ASSUME TypeOK, NEW j \in Jobs, NEW is \in SUBSET Items, Begin(j, is)
    PROVE  /\ HookTypeOK /\ QueueTypeOK
           /\ stale' \subseteq Jobs
           /\ sources' \subseteq Jobs
           /\ inbox' \in [Jobs -> {"none", "done", "failed"}]
           /\ call' \in [Jobs -> CallStates]
           /\ pending' \subseteq Items
<1>1. queue' \in [Items -> ItemStates]
  BY SetStatusType DEF Begin, ItemStates
<1>2. QED
  BY <1>1, ResetType DEF TypeOK, Begin, QueueTypeOK, Ids, Phases, CallStates

LEMMA ClearQueueType ==
    ASSUME TypeOK, ClearQueue
    PROVE  QueueTypeOK
BY DEF TypeOK, ClearQueue, QueueTypeOK, ItemStates, Ids

LEMMA EndType ==
    ASSUME TypeOK, NEW j \in Jobs, End(j)
    PROVE  /\ call' \in [Jobs -> CallStates]
           /\ stale' \subseteq Jobs
           /\ victim' \in [Jobs -> Ids]
BY DEF TypeOK, End, CallStates, Ids

LEMMA ServerType ==
    ASSUME TypeOK, NEW j \in Ids,
           \/ Server!Submit(j) \/ Server!Save(j) \/ Server!Finish(j)
           \/ Server!Fail(j) \/ Server!Reopen(j)
    PROVE  job' \in [Jobs -> {"absent", "open", "done", "failed"}]
BY DEF TypeOK, Server!Submit, Server!Save, Server!Finish, Server!Fail,
       Server!Reopen

LEMMA FaultType ==
    ASSUME TypeOK, Fault \/ UNCHANGED faults
    PROVE  faults' \in 0..MaxFaults
BY FaultsAssumption DEF TypeOK, Fault

LEMMA TypeOKStep ==
    ASSUME TypeOK, [Next]_vars
    PROVE  TypeOK'
<1> USE DEF serverVars, callVars, hookVars, pollVars, queueVars
<1>1. ASSUME NEW i \in Items, Trigger(i) PROVE TypeOK'
  BY <1>1 DEF Trigger, TypeOK, ItemStates
<1>2. ASSUME NEW i \in Items, Reconcile(i) PROVE TypeOK'
  <2>1. queue' \in [Items -> ItemStates]
    BY <1>2, SetStatusType DEF Reconcile, ItemStates, TypeOK
  <2>2. recs' \subseteq Answers
    <3>1. CASE UNCHANGED recs
      BY <3>1 DEF TypeOK
    <3>2. CASE ~UNCHANGED recs
      BY <1>2, <3>2 DEF Reconcile, Answers, TypeOK, Ids
    <3>3. QED
      BY <3>1, <3>2
  <2>3. QED
    BY <1>2, <2>1, <2>2 DEF Reconcile, TypeOK
<1>3. ASSUME NEW i \in Items, NEW j \in Jobs, Click(i, j) PROVE TypeOK'
  <2>1. CASE queue[i] = "diagnosing" /\ qjob[i] # NoJob
    BY <1>3, <2>1, ResetType, AttemptsAssumption
       DEF Click, Unmounted, TypeOK, HookTypeOK, Ids, Phases, CallStates
  <2>2. CASE ~(queue[i] = "diagnosing" /\ qjob[i] # NoJob)
    BY <1>3, <2>2, BeginType, AttemptsAssumption
       DEF Click, Unmounted, TypeOK, HookTypeOK, QueueTypeOK, Ids
  <2>3. QED
    BY <2>1, <2>2
<1>4. ASSUME NEW j \in Jobs, CallStep(j) \/ CancelError(j) \/ CreateError(j)
      PROVE  TypeOK'
  <2>1. CASE CancelArrives(j)
    BY <2>1, ServerType DEF CancelArrives, Server!Fail, TypeOK
  <2>2. CASE CancelOk(j)
    BY <2>2, BeginType DEF CancelOk, TypeOK, HookTypeOK, QueueTypeOK, Ids
  <2>3. CASE CreateArrives(j)
    BY <2>3, ServerType DEF CreateArrives, Server!Submit, TypeOK, CallStates, Ids
  <2>4. CASE call[j] = "created" /\ ReturnJob(j) /\ CreateReturns(j)
    BY <2>4, EndType DEF CreateReturns, ReturnJob, Subscribe, TypeOK, Ids
  <2>5. ASSUME ReturnNull(j) PROVE queue' \in [Items -> ItemStates]
    BY <2>5, SetStatusType DEF ReturnNull, ItemStates, TypeOK
  <2>6. CASE ReturnNull(j) /\ CreateReturns(j) /\ UNCHANGED hookVars
    BY <2>5, <2>6, EndType DEF CreateReturns, ReturnNull, TypeOK
  <2>7. CASE CreateError(j)
    <3>1. faults' \in 0..MaxFaults
      BY <2>7, FaultType DEF CreateError
    <3>2. QED
      BY <2>5, <2>7, <3>1, EndType DEF CreateError, ReturnNull, TypeOK, Phases
  <2>8. CASE CancelError(j)
    <3>1. faults' \in 0..MaxFaults
      BY <2>8, FaultType DEF CancelError
    <3>2. queue' \in [Items -> ItemStates]
      BY <2>8, SetStatusType DEF CancelError, ItemStates, TypeOK
    <3>3. QED
      BY <2>8, <3>1, <3>2, EndType DEF CancelError, TypeOK
  <2>9. QED
    BY <1>4, <2>1, <2>2, <2>3, <2>4, <2>6, <2>7, <2>8 DEF CallStep, CreateReturns
<1>5. ASSUME NEW j \in Jobs, SendEvent(j) PROVE TypeOK'
  BY <1>5 DEF SendEvent, Ended, TypeOK
<1>6. ASSUME NEW j \in Jobs, ReceiveEvent(j) PROVE TypeOK'
  <2>1. HookTypeOK /\ QueueTypeOK
    <3>1. CASE jobId = j
      BY <1>6, <3>1, HandleType DEF ReceiveEvent, Ids
    <3>2. CASE jobId # j
      BY <1>6, <3>2 DEF ReceiveEvent, TypeOK, HookTypeOK, QueueTypeOK
    <3>3. QED
      BY <3>1, <3>2
  <2>2. QED
    BY <1>6, <2>1 DEF ReceiveEvent, Close, TypeOK, HookTypeOK, QueueTypeOK
<1>7. ASSUME NEW j \in Jobs, StreamError(j) PROVE TypeOK'
  <2>1. faults' \in 0..MaxFaults
    BY <1>7, FaultType DEF StreamError
  <2>2. QED
    BY <1>7, <2>1 DEF StreamError, TypeOK, Phases
<1>8. ASSUME NEW j \in Jobs, JobRuns(j) PROVE TypeOK'
  <2>1. faults' \in 0..MaxFaults
    BY <1>8, FaultType DEF JobRuns
  <2>2. job' \in [Jobs -> {"absent", "open", "done", "failed"}]
    BY <1>8, ServerType DEF JobRuns, Ids
  <2>3. report' \subseteq Jobs
    BY <1>8 DEF JobRuns, Server!Save, Server!Finish, Server!Fail, Server!Reopen,
                TypeOK
  <2>4. QED
    BY <1>8, <2>1, <2>2, <2>3 DEF JobRuns, TypeOK
<1>9. ASSUME NEW j \in Jobs, Evict(j) PROVE TypeOK'
  BY <1>9, FaultType DEF Evict, TypeOK
<1>10. CASE Render
  BY <1>10, AttemptsAssumption DEF Render, Wanted, TypeOK, Ids
<1>11. CASE PollSend
  <2>1. faults' \in 0..MaxFaults
    BY <1>11, FaultType DEF PollSend
  <2>2. attempts' \in 0..MaxAttempts
    BY <1>11, AttemptsAssumption DEF PollSend, TypeOK
  <2>3. polls' \subseteq {"done", "failed", "other"}
    BY <1>11 DEF PollSend, TypeOK
  <2>4. QED
    BY <1>11, <2>1, <2>2, <2>3 DEF PollSend, TypeOK
<1>12. ASSUME NEW a \in polls, PollReturn(a) PROVE TypeOK'
  <2>1. CASE Handle(a, effect) /\ CloseStream
    BY <1>12, <2>1, HandleType, CloseStreamType
       DEF PollReturn, TypeOK, HookTypeOK, QueueTypeOK
  <2>2. CASE HandleFailed(effect) /\ CloseStream
    <3>1. Handle("failed", effect)
      BY <2>2 DEF Handle
    <3>2. QED
      BY <1>12, <2>2, <3>1, HandleType, CloseStreamType
         DEF PollReturn, TypeOK, HookTypeOK, QueueTypeOK
  <2>3. CASE UNCHANGED <<hookVars, queueVars>>
    BY <1>12, <2>3 DEF PollReturn, TypeOK
  <2>4. QED
    BY <1>12, <2>1, <2>2, <2>3 DEF PollReturn
<1>13. ASSUME NEW r \in recs, Reconciled(r) PROVE TypeOK'
  <2>1. r.item \in Items /\ r.job \in Jobs
    BY DEF TypeOK, Answers
  <2>2. queue' \in [Items -> ItemStates]
    BY <1>13, <2>1, SetStatusType DEF Reconciled, ItemStates
  <2>3. incident' \in [Items -> Ids]
    BY <1>13, <2>1 DEF Reconciled, TypeOK, Ids
  <2>4. QED
    BY <1>13, <2>2, <2>3 DEF Reconciled, TypeOK
<1>14. CASE FlowStep
  <2>1. ASSUME NEW f \in Flows, StartFlow(f) PROVE TypeOK'
    BY <2>1 DEF StartFlow, TypeOK
  <2>2. ASSUME NEW j \in Jobs, FlowCancels(j) PROVE TypeOK'
    BY <2>2, ServerType DEF FlowCancels, Server!Fail, TypeOK, Ids
  <2>3. CASE FlowCancelled
    BY <2>3 DEF FlowCancelled, TypeOK, Flows
  <2>4. CASE FlowFails
    BY <2>4, FaultType DEF FlowFails, TypeOK, Flows
  <2>5. CASE FlowEnds
    <3>1. QueueTypeOK
      <4>1. CASE SetStatus(Items, "fixed") /\ UNCHANGED <<qjob, incident>>
        BY <4>1, SetStatusType DEF TypeOK, QueueTypeOK, ItemStates
      <4>2. QED
        BY <2>5, <4>1, ClearQueueType DEF FlowEnds
    <3>2. QED
      BY <2>5, <3>1, ResetType
         DEF FlowEnds, TypeOK, HookTypeOK, QueueTypeOK, Flows, Phases
  <2>6. QED
    BY <1>14, <2>1, <2>2, <2>3, <2>4, <2>5 DEF FlowStep
<1>15. CASE ClearHistory
  BY <1>15, ClearQueueType, ResetType, AttemptsAssumption
     DEF ClearHistory, Unmounted, TypeOK, HookTypeOK, QueueTypeOK, Ids, Phases
<1>16. CASE Reload
  <2>1. faults' \in 0..MaxFaults /\ attempts' \in 0..MaxAttempts
    BY <1>16, FaultType, AttemptsAssumption DEF Reload, Unmounted
  <2>2. call' \in [Jobs -> CallStates] /\ victim' \in [Jobs -> Ids]
    BY <1>16 DEF Reload, CallStates, Ids
  <2>3. inbox' \in [Jobs -> {"none", "done", "failed"}]
    BY <1>16 DEF Reload
  <2>4. QED
    BY <1>16, <2>1, <2>2, <2>3
       DEF Reload, Unmounted, TypeOK, Ids, Phases, Flows
<1>17. ASSUME NEW j \in Jobs, AbandonedArrives(j) PROVE TypeOK'
  <2>1. job' \in [Jobs -> {"absent", "open", "done", "failed"}]
        /\ UNCHANGED report
    BY <1>17, ServerType DEF AbandonedArrives, Server!Submit, Ids
  <2>2. QED
    BY <1>17, <2>1 DEF AbandonedArrives, TypeOK, CallStates
<1>18. CASE UNCHANGED vars
  BY <1>18 DEF vars, TypeOK
<1>19. QED
  BY <1>1, <1>2, <1>3, <1>4, <1>5, <1>6, <1>7, <1>8, <1>9, <1>10, <1>11, <1>12,
     <1>13, <1>14, <1>15, <1>16, <1>17, <1>18
     DEF Next

(* Every variable keeps its type: whatever answers arrive, an item has one *)
(* of the statuses of the queue and the hook one of its phases.            *)
THEOREM TypeCorrect == Spec => []TypeOK
BY InitTypeOK, TypeOKStep, PTL DEF Spec

-----------------------------------------------------------------------------
(* The hook follows its latest start.                                      *)

UnderWay(j) == call[j] \in {"creating", "created"}

(* The strengthening: it holds of the stream's closer, which outlives the  *)
(* stream itself, and at most one start under way was not superseded.      *)
HookInv ==
    /\ sources \subseteq {closer}
    /\ closer # NoJob =>
          /\ jobId = closer /\ ~terminal
          /\ \A k \in Jobs : UnderWay(k) => k \in stale
    /\ \A j, k \in Jobs :
          UnderWay(j) /\ UnderWay(k) /\ j \notin stale /\ k \notin stale => j = k

LEMMA ResetHook ==
    ASSUME TypeOK, HookInv, NEW ph, ResetTo(ph)
    PROVE  /\ sources' = {} /\ closer' = NoJob
           /\ \A k \in Jobs : UnderWay(k) => k \in stale'
BY DEF TypeOK, HookInv, ResetTo, CloseStream, Close, UnderWay

LEMMA HookStep ==
    ASSUME TypeOK, HookInv, [Next]_vars
    PROVE  HookInv'
<1> USE DEF serverVars, callVars, hookVars, pollVars, queueVars
<1>1. ASSUME UNCHANGED <<jobId, terminal, sources, closer, call, stale>>
      PROVE  HookInv'
  BY <1>1 DEF HookInv, UnderWay
<1>2. ASSUME NEW ph, ResetTo(ph), UNCHANGED call
      PROVE  HookInv'
  BY <1>2, ResetHook DEF HookInv, UnderWay
<1>3. ASSUME NEW j \in Jobs, ResetTo("idle") \/ ResetTo("running"),
             call' = [call EXCEPT ![j] = "cancelling"] \/
             call' = [call EXCEPT ![j] = "creating"]
      PROVE  HookInv'
  BY <1>3, ResetHook DEF HookInv, UnderWay, TypeOK
<1>4. ASSUME NEW j \in Jobs, End(j), UNCHANGED <<jobId, terminal, sources, closer>>
      PROVE  HookInv'
  BY <1>4 DEF HookInv, UnderWay, End, TypeOK
<1>5. ASSUME NEW j \in Jobs, UnderWay(j), j \notin stale, ReturnJob(j)
      PROVE  HookInv'
  BY <1>5 DEF HookInv, UnderWay, ReturnJob, Subscribe, End, TypeOK
<1>6. ASSUME closer' = NoJob, sources' = {}, UNCHANGED <<call, stale>>
      PROVE  HookInv'
  BY <1>6 DEF HookInv, UnderWay
<1>7. ASSUME NEW j \in Jobs, SendEvent(j) \/ JobRuns(j) \/ Evict(j) \/ FlowCancels(j)
                            \/ CancelArrives(j)
      PROVE  HookInv'
  BY <1>1, <1>7 DEF SendEvent, JobRuns, Evict, FlowCancels, CancelArrives
<1>8. ASSUME NEW i \in Items, Trigger(i) \/ Reconcile(i)
      PROVE  HookInv'
  BY <1>1, <1>8 DEF Trigger, Reconcile
<1>9. CASE Render \/ PollSend \/ FlowCancelled \/ FlowFails \/ UNCHANGED vars
  BY <1>1, <1>9 DEF Render, PollSend, FlowCancelled, FlowFails, vars
<1>10. ASSUME NEW f \in Flows, StartFlow(f)
       PROVE  HookInv'
  BY <1>1, <1>10 DEF StartFlow
<1>11. ASSUME NEW r \in recs, Reconciled(r)
       PROVE  HookInv'
  BY <1>1, <1>11 DEF Reconciled
<1>12. CASE FlowEnds \/ ClearHistory
  BY <1>2, <1>12 DEF FlowEnds, ClearHistory
<1>13. ASSUME NEW i \in Items, NEW j \in Jobs, Click(i, j)
       PROVE  HookInv'
  BY <1>3, <1>13 DEF Click, Begin
<1>14. ASSUME NEW j \in Jobs, CancelOk(j) PROVE HookInv'
  BY <1>3, <1>14 DEF CancelOk, Begin
<1>15. ASSUME NEW j \in Jobs, CreateArrives(j) \/ AbandonedArrives(j)
       PROVE  HookInv'
  BY <1>15 DEF CreateArrives, AbandonedArrives, HookInv, UnderWay, TypeOK
<1>16. ASSUME NEW j \in Jobs, CreateReturns(j) \/ CancelError(j) \/ CreateError(j)
       PROVE  HookInv'
  BY <1>4, <1>5, <1>16
     DEF CreateReturns, CancelError, CreateError, ReturnNull, UnderWay
<1>17. ASSUME NEW j \in Jobs, ReceiveEvent(j) PROVE HookInv'
  <2>1. sources = {j} /\ closer = j /\ jobId = j
    <3>1. j \in sources /\ j # NoJob
      BY <1>17, JobsAssumption DEF ReceiveEvent
    <3>2. QED
      BY <3>1 DEF HookInv
  <2>2. closer' = NoJob /\ sources' = {}
    BY <1>17, <2>1 DEF ReceiveEvent, Close, Handle, HandleDone, HandleFailed, EndWith
  <2>3. QED
    BY <1>6, <1>17, <2>2 DEF ReceiveEvent
<1>18. ASSUME NEW j \in Jobs, StreamError(j) PROVE HookInv'
  BY <1>18 DEF StreamError, HookInv, UnderWay
<1>19. ASSUME NEW a \in polls, PollReturn(a) PROVE HookInv'
  <2>1. ASSUME Handle(a, effect) \/ HandleFailed(effect), CloseStream
        PROVE  closer' = NoJob /\ sources' = {}
    BY <2>1 DEF Handle, HandleDone, HandleFailed, EndWith, CloseStream, Close, HookInv
  <2>2. QED
    BY <1>1, <1>6, <1>19, <2>1 DEF PollReturn
<1>20. CASE Reload
  BY <1>20 DEF Reload, HookInv, UnderWay
<1>21. QED
  BY <1>7, <1>8, <1>9, <1>10, <1>11, <1>12, <1>13, <1>14, <1>15, <1>16, <1>17,
     <1>18, <1>19, <1>20
     DEF Next, CallStep, FlowStep

LEMMA HookInvariant == Spec => []HookInv
<1>1. Init => HookInv
  BY DEF Init, HookInv, UnderWay
<1>2. QED
  BY <1>1, HookStep, TypeCorrect, PTL DEF Spec

(* However starts, cancellations and resets overlap, the stream that is    *)
(* open is that of the latest start.                                       *)
THEOREM StreamIsLatest == Spec => []FollowsLatest
<1>1. TypeOK /\ HookInv => FollowsLatest
  BY JobsAssumption DEF HookInv, FollowsLatest, TypeOK, UnderWay
<1>2. QED
  BY <1>1, HookInvariant, TypeCorrect, PTL

-----------------------------------------------------------------------------
(* Diagnosed items.                                                        *)

(* What no step takes back: whom a start was made for, that its call       *)
(* ended, and a stored report.                                             *)
LEMMA Stable ==
    ASSUME TypeOK, [Next]_vars
    PROVE  /\ \A j \in Jobs : call[j] # "unused" =>
                  owner'[j] = owner[j] /\ call'[j] # "unused"
           /\ \A j \in Jobs : call[j] = "ended" => call'[j] = "ended"
           /\ report \subseteq report'
<1> DEFINE Goal ==
               /\ \A j \in Jobs : call[j] # "unused" =>
                      owner'[j] = owner[j] /\ call'[j] # "unused"
               /\ \A j \in Jobs : call[j] = "ended" => call'[j] = "ended"
               /\ report \subseteq report'
<1> USE DEF serverVars, callVars
<1>1. ASSUME UNCHANGED <<call, owner>>, report \subseteq report'
      PROVE  Goal
  BY <1>1
<1>2. ASSUME NEW j \in Jobs, NEW c, c # "unused", UNCHANGED <<owner, report>>,
             call[j] # "ended", call' = [call EXCEPT ![j] = c]
      PROVE  Goal
  BY <1>2 DEF TypeOK
<1>3. ASSUME NEW i \in Items, NEW j \in Jobs, Click(i, j) PROVE Goal
  BY <1>3 DEF Click, Begin, TypeOK
<1>4. ASSUME NEW j \in Jobs, CallStep(j) \/ CancelError(j) \/ CreateError(j)
      PROVE  Goal
  <2>1. CASE CancelArrives(j)
    BY <1>1, <2>1 DEF CancelArrives, Server!Fail
  <2>2. CASE CreateArrives(j)
    BY <1>2, <2>2 DEF CreateArrives, Server!Submit
  <2>3. QED
    BY <1>2, <1>4, <2>1, <2>2
       DEF CallStep, CancelOk, Begin, CancelError, CreateReturns, CreateError,
           ReturnJob, ReturnNull, End
<1>5. ASSUME NEW j \in Jobs,
             SendEvent(j) \/ ReceiveEvent(j) \/ StreamError(j) \/ Evict(j)
                \/ AbandonedArrives(j)
      PROVE  Goal
  BY <1>1, <1>2, <1>5
     DEF SendEvent, ReceiveEvent, StreamError, Evict, AbandonedArrives,
         Server!Submit
<1>6. ASSUME NEW j \in Jobs, JobRuns(j) \/ FlowCancels(j) PROVE Goal
  BY <1>1, <1>6
     DEF JobRuns, FlowCancels, Server!Save, Server!Finish, Server!Fail,
         Server!Reopen
<1>7. ASSUME NEW i \in Items, Trigger(i) \/ Reconcile(i) PROVE Goal
  BY <1>1, <1>7 DEF Trigger, Reconcile
<1>8. CASE Render \/ PollSend \/ FlowCancelled \/ FlowFails \/ FlowEnds
           \/ ClearHistory \/ UNCHANGED vars
  BY <1>1, <1>8
     DEF Render, PollSend, FlowCancelled, FlowFails, FlowEnds, ClearHistory, vars
<1>9. ASSUME NEW f \in Flows, StartFlow(f) PROVE Goal
  BY <1>1, <1>9 DEF StartFlow
<1>10. ASSUME NEW a \in polls, PollReturn(a) PROVE Goal
  BY <1>1, <1>10 DEF PollReturn
<1>11. ASSUME NEW r \in recs, Reconciled(r) PROVE Goal
  BY <1>1, <1>11 DEF Reconciled
<1>12. CASE Reload
  BY <1>12 DEF Reload, TypeOK
<1>13. QED
  BY <1>3, <1>4, <1>5, <1>6, <1>7, <1>8, <1>9, <1>10, <1>11, <1>12
     DEF Next, FlowStep

(* A job exists only once its start was sent, which was for one item; it   *)
(* is done only with its report stored.                                    *)
ServerInv ==
    \A j \in Jobs :
        /\ job[j] # "absent" => call[j] \in {"created", "ended"}
        /\ j \in report => job[j] # "absent"
        /\ job[j] = "done" => j \in report
        /\ call[j] # "unused" => \E i \in Items : owner[j] = {i}

LEMMA ServerStep ==
    ASSUME TypeOK, ServerInv, [Next]_vars
    PROVE  ServerInv'
<1> USE DEF serverVars, callVars
<1>0. ASSUME NEW j \in Jobs, NEW c \in {"created", "ended"},
             Server!Submit(j), call[j] # "unused",
             call' = [call EXCEPT ![j] = c], UNCHANGED owner
      PROVE  ServerInv'
  BY <1>0 DEF Server!Submit, ServerInv, TypeOK
<1>1. ASSUME UNCHANGED <<call, owner, job, report>> PROVE ServerInv'
  BY <1>1 DEF ServerInv
<1>2. ASSUME NEW j \in Jobs, NEW c, call[j] # "unused",
             c # "unused", call' = [call EXCEPT ![j] = c],
             call[j] = "created" => c = "ended",
             call[j] # "ended", UNCHANGED <<owner, job, report>>,
             c \in {"created", "ended"} \/ call[j] = "cancelling"
      PROVE  ServerInv'
  BY <1>2 DEF ServerInv, TypeOK
<1>3. ASSUME NEW j, UNCHANGED <<call, owner>>, job[j] # "absent" \/ j \notin Jobs,
             Server!Save(j) \/ Server!Finish(j) \/ Server!Fail(j) \/ Server!Reopen(j)
      PROVE  ServerInv'
  BY <1>3 DEF ServerInv, TypeOK, Server!Save, Server!Finish, Server!Fail,
              Server!Reopen
<1>4. ASSUME NEW i \in Items, NEW j \in Jobs, Click(i, j) PROVE ServerInv'
  <2>1. \/ call' = [call EXCEPT ![j] = "cancelling"]
        \/ call' = [call EXCEPT ![j] = "creating"]
    BY <1>4 DEF Click, Begin
  <2>2. call[j] = "unused" /\ owner' = [owner EXCEPT ![j] = {i}]
        /\ UNCHANGED <<job, report>>
    BY <1>4 DEF Click
  <2>3. QED
    BY <2>1, <2>2 DEF ServerInv, TypeOK
<1>5. ASSUME NEW j \in Jobs, CallStep(j) \/ CancelError(j) \/ CreateError(j)
      PROVE  ServerInv'
  <2>1. CASE CancelArrives(j)
    BY <1>3, <2>1 DEF CancelArrives, Server!Fail
  <2>2. CASE CreateArrives(j)
    BY <1>0, <2>2 DEF CreateArrives
  <2>3. CASE CancelOk(j)
    BY <1>2, <2>3 DEF CancelOk, Begin
  <2>4. CASE CancelError(j)
    BY <1>2, <2>4 DEF CancelError, End
  <2>5. CASE CreateReturns(j)
    BY <1>2, <2>5 DEF CreateReturns, ReturnJob, ReturnNull, End
  <2>6. CASE CreateError(j)
    BY <1>2, <2>6 DEF CreateError, ReturnNull, End
  <2>7. QED
    BY <1>5, <2>1, <2>2, <2>3, <2>4, <2>5, <2>6 DEF CallStep
<1>6. ASSUME NEW j \in Jobs, JobRuns(j) \/ FlowCancels(j) PROVE ServerInv'
  BY <1>3, <1>6
     DEF JobRuns, FlowCancels, Server!Finish, Server!Fail, Server!Reopen
<1>7. ASSUME NEW j \in Jobs,
             SendEvent(j) \/ ReceiveEvent(j) \/ StreamError(j) \/ Evict(j)
      PROVE  ServerInv'
  BY <1>1, <1>7 DEF SendEvent, ReceiveEvent, StreamError, Evict
<1>8. ASSUME NEW i \in Items, Trigger(i) \/ Reconcile(i) PROVE ServerInv'
  BY <1>1, <1>8 DEF Trigger, Reconcile
<1>9. CASE Render \/ PollSend \/ FlowCancelled \/ FlowFails \/ FlowEnds
           \/ ClearHistory \/ UNCHANGED vars
  BY <1>1, <1>9
     DEF Render, PollSend, FlowCancelled, FlowFails, FlowEnds, ClearHistory, vars
<1>10. ASSUME NEW f \in Flows, StartFlow(f) PROVE ServerInv'
  BY <1>1, <1>10 DEF StartFlow
<1>11. ASSUME NEW a \in polls, PollReturn(a) PROVE ServerInv'
  BY <1>1, <1>11 DEF PollReturn
<1>12. ASSUME NEW r \in recs, Reconciled(r) PROVE ServerInv'
  BY <1>1, <1>12 DEF Reconciled
<1>13. CASE Reload
  BY <1>13 DEF Reload, ServerInv, TypeOK
<1>14. ASSUME NEW j \in Jobs, AbandonedArrives(j) PROVE ServerInv'
  BY <1>0, <1>14 DEF AbandonedArrives
<1>15. QED
  BY <1>4, <1>5, <1>6, <1>7, <1>8, <1>9, <1>10, <1>11, <1>12, <1>13, <1>14
     DEF Next, FlowStep

(* An item's job was started for it; what is on its way to the page is     *)
(* true of a job that is stored.                                           *)
LinkInv ==
    \A i \in Items : qjob[i] # NoJob =>
        owner[qjob[i]] = {i} /\ call[qjob[i]] = "ended"

AnswersInv ==
    /\ \A j \in Jobs : inbox[j] = "done" => j \in report
    /\ polls # {} => effect # NoJob
    /\ "done" \in polls => effect \in report
    /\ \A r \in recs : owner[r.job] = {r.item} /\ call[r.job] = "ended"
    /\ \A r \in recs : r.answer = "done" => r.job \in report

LEMMA LinkStep ==
    ASSUME TypeOK, ServerInv, LinkInv, [Next]_vars
    PROVE  LinkInv'
<1> USE DEF serverVars, callVars, hookVars, pollVars, queueVars
<1>1. ASSUME \A i \in Items : qjob'[i] \in {qjob[i], NoJob} PROVE LinkInv'
  BY <1>1, Stable DEF LinkInv, TypeOK, Ids
<1>2. ASSUME NEW j \in Jobs, call[j] = "created", ReturnJob(j), UNCHANGED owner
      PROVE  LinkInv'
  <2>1. \E i \in Items : owner[j] = {i}
    BY <1>2 DEF ServerInv
  <2>2. call'[j] = "ended"
    BY <1>2 DEF ReturnJob, End, TypeOK
  <2>3. QED
    BY <1>2, <2>1, <2>2, Stable DEF LinkInv, ReturnJob, TypeOK, Ids
<1>3. ASSUME NEW j \in Jobs, NEW is \in SUBSET Items, Begin(j, is)
      PROVE  LinkInv'
  BY <1>1, <1>3 DEF Begin, TypeOK
<1>4. ASSUME NEW i \in Items, NEW j \in Jobs, Click(i, j) PROVE LinkInv'
  BY <1>1, <1>3, <1>4 DEF Click
<1>5. ASSUME NEW j \in Jobs, CallStep(j) \/ CancelError(j) \/ CreateError(j)
      PROVE  LinkInv'
  BY <1>1, <1>2, <1>3, <1>5
     DEF CallStep, CancelArrives, CancelOk, CreateArrives, CreateReturns,
         CancelError, CreateError, ReturnNull, TypeOK
<1>6. ASSUME ClearQueue PROVE LinkInv'
  BY <1>1, <1>6 DEF ClearQueue
<1>7. ASSUME UNCHANGED qjob PROVE LinkInv'
  BY <1>1, <1>7
<1>8. ASSUME NEW j, NEW o, Handle(o, j) \/ HandleFailed(j) PROVE UNCHANGED qjob
  BY <1>8 DEF Handle, HandleDone, HandleFailed
<1>9. ASSUME NEW j \in Jobs,
             SendEvent(j) \/ ReceiveEvent(j) \/ StreamError(j) \/ Evict(j)
                \/ JobRuns(j) \/ FlowCancels(j) \/ AbandonedArrives(j)
      PROVE  LinkInv'
  BY <1>7, <1>8, <1>9
     DEF SendEvent, ReceiveEvent, StreamError, Evict, JobRuns, FlowCancels,
         AbandonedArrives
<1>10. ASSUME NEW i \in Items, Trigger(i) \/ Reconcile(i) PROVE LinkInv'
  BY <1>7, <1>10 DEF Trigger, Reconcile
<1>11. CASE Render \/ PollSend \/ FlowCancelled \/ FlowFails \/ FlowEnds
            \/ ClearHistory \/ Reload \/ UNCHANGED vars
  BY <1>6, <1>7, <1>11
     DEF Render, PollSend, FlowCancelled, FlowFails, FlowEnds, ClearHistory,
         Reload, vars
<1>12. ASSUME NEW f \in Flows, StartFlow(f) PROVE LinkInv'
  BY <1>7, <1>12 DEF StartFlow
<1>13. ASSUME NEW a \in polls, PollReturn(a) PROVE LinkInv'
  BY <1>7, <1>8, <1>13 DEF PollReturn
<1>14. ASSUME NEW r \in recs, Reconciled(r) PROVE LinkInv'
  BY <1>7, <1>14 DEF Reconciled
<1>15. QED
  BY <1>4, <1>5, <1>9, <1>10, <1>11, <1>12, <1>13, <1>14 DEF Next, FlowStep

LEMMA AnswersStep ==
    ASSUME TypeOK, ServerInv, LinkInv, AnswersInv, [Next]_vars
    PROVE  AnswersInv'
<1> USE DEF serverVars, callVars, hookVars, pollVars, queueVars
<1> DEFINE SameInbox == \A j \in Jobs : inbox'[j] \in {inbox[j], "none"}
           SamePolls == polls' = {} \/ (polls' \subseteq polls /\ effect' = effect)
<1>0. ASSUME recs' \subseteq recs, SameInbox, SamePolls
      PROVE  AnswersInv'
  <2>1. \A j \in Jobs : inbox'[j] = "done" => j \in report'
    BY <1>0, Stable DEF AnswersInv
  <2>2. /\ polls' # {} => effect' # NoJob
        /\ "done" \in polls' => effect' \in report'
    BY <1>0, Stable DEF AnswersInv
  <2>3. ASSUME NEW r \in recs'
        PROVE  /\ owner'[r.job] = {r.item} /\ call'[r.job] = "ended"
               /\ r.answer = "done" => r.job \in report'
    <3>1. r \in recs /\ r.job \in Jobs
      BY <1>0 DEF TypeOK, Answers
    <3>2. owner[r.job] = {r.item} /\ call[r.job] = "ended"
          /\ (r.answer = "done" => r.job \in report)
      BY <3>1 DEF AnswersInv
    <3>3. QED
      BY <3>1, <3>2, Stable
  <2>4. QED
    BY <2>1, <2>2, <2>3 DEF AnswersInv
<1>1. ASSUME CloseStream \/ UNCHANGED inbox PROVE SameInbox
  BY <1>1 DEF CloseStream, Close, TypeOK
<1>2. ASSUME NEW ph, ResetTo(ph) PROVE SameInbox
  BY <1>1, <1>2 DEF ResetTo
<1>3. ASSUME NEW i \in Items, NEW j \in Jobs, Click(i, j) PROVE AnswersInv'
  BY <1>0, <1>2, <1>3 DEF Click, Begin, Unmounted
<1>4. ASSUME NEW j \in Jobs, CallStep(j) \/ CancelError(j) \/ CreateError(j)
      PROVE  AnswersInv'
  <2>1. SameInbox
    BY <1>1, <1>2, <1>4
       DEF CallStep, CancelArrives, CancelOk, Begin, CreateArrives, CreateReturns,
           ReturnJob, Subscribe, CancelError, CreateError, TypeOK
  <2>2. UNCHANGED <<pollVars, recs>>
    BY <1>4 DEF CallStep, CancelArrives, CancelOk, CreateArrives, CreateReturns,
                CancelError, CreateError
  <2>3. QED
    BY <1>0, <2>1, <2>2
<1>5. ASSUME NEW j \in Jobs, SendEvent(j) PROVE AnswersInv'
  <2>1. inbox'[j] = "done" => j \in report
    BY <1>5 DEF SendEvent, ServerInv, TypeOK
  <2>2. QED
    BY <1>5, <2>1 DEF SendEvent, AnswersInv, TypeOK
<1>6. ASSUME NEW j \in Jobs, ReceiveEvent(j) \/ StreamError(j) PROVE AnswersInv'
  <2>1. SameInbox
    BY <1>6 DEF ReceiveEvent, Close, StreamError, TypeOK
  <2>2. QED
    BY <1>0, <1>6, <2>1 DEF ReceiveEvent, StreamError
<1>7. ASSUME NEW j \in Jobs,
             Evict(j) \/ JobRuns(j) \/ FlowCancels(j) \/ AbandonedArrives(j)
      PROVE  AnswersInv'
  BY <1>0, <1>1, <1>7 DEF Evict, JobRuns, FlowCancels, AbandonedArrives
<1>8. ASSUME NEW i \in Items, Trigger(i) PROVE AnswersInv'
  BY <1>0, <1>1, <1>8 DEF Trigger
<1>9. ASSUME NEW i \in Items, Reconcile(i) PROVE AnswersInv'
  <2>1. CASE UNCHANGED recs
    BY <1>0, <1>1, <1>9, <2>1 DEF Reconcile
  <2>2. CASE ~UNCHANGED recs
    <3>1. qjob[i] \in Jobs /\ owner[qjob[i]] = {i} /\ call[qjob[i]] = "ended"
      BY <1>9, <2>2 DEF Reconcile, LinkInv, TypeOK, Ids
    <3>2. Answer(qjob[i]) = "done" => qjob[i] \in report
      BY <3>1 DEF Answer, ServerInv
    <3>3. recs' = recs \cup
             {[item |-> i, job |-> qjob[i], answer |-> Answer(qjob[i])]}
      BY <1>9, <2>2 DEF Reconcile
    <3>4. UNCHANGED <<inbox, pollVars, report, callVars>>
      BY <1>9 DEF Reconcile
    <3>5. QED
      BY <3>1, <3>2, <3>3, <3>4 DEF AnswersInv
  <2>3. QED
    BY <2>1, <2>2
<1>10. CASE Render \/ FlowCancelled \/ FlowFails \/ UNCHANGED vars
  BY <1>0, <1>1, <1>10 DEF Render, FlowCancelled, FlowFails, vars
<1>11. CASE FlowEnds \/ ClearHistory
  BY <1>0, <1>2, <1>11 DEF FlowEnds, ClearHistory, Unmounted
<1>12. CASE Reload
  <2>1. SameInbox
    BY <1>12 DEF Reload
  <2>2. SamePolls /\ recs' \subseteq recs
    BY <1>12 DEF Reload, Unmounted
  <2>3. QED
    BY <1>0, <2>1, <2>2
<1>13. CASE PollSend
  <2>1. effect \in Jobs
    BY <1>13 DEF PollSend, TypeOK, Ids
  <2>2. "done" \in polls' => effect \in report
    BY <1>13, <2>1 DEF PollSend, Answer, AnswersInv, ServerInv
  <2>3. QED
    BY <1>13, <2>1, <2>2 DEF PollSend, AnswersInv
<1>14. ASSUME NEW f \in Flows, StartFlow(f) PROVE AnswersInv'
  BY <1>0, <1>1, <1>14 DEF StartFlow
<1>15. ASSUME NEW a \in polls, PollReturn(a) PROVE AnswersInv'
  BY <1>0, <1>1, <1>15 DEF PollReturn
<1>16. ASSUME NEW r \in recs, Reconciled(r) PROVE AnswersInv'
  BY <1>0, <1>1, <1>16 DEF Reconciled
<1>17. QED
  BY <1>3, <1>4, <1>5, <1>6, <1>7, <1>8, <1>9, <1>10, <1>11, <1>12, <1>13, <1>14,
     <1>15, <1>16
     DEF Next, FlowStep

LEMMA RealStep ==
    ASSUME TypeOK, LinkInv, AnswersInv, ServerInv, DiagnosedIsReal, [Next]_vars
    PROVE  DiagnosedIsReal'
<1> USE DEF serverVars, callVars, hookVars, pollVars, queueVars
<1> DEFINE Kept(i) == queue'[i] = "diagnosed" =>
                        queue[i] = "diagnosed" /\ incident'[i] = incident[i]
           Fresh(i) == incident'[i] \in report /\ owner[incident'[i]] = {i}
<1>0. ASSUME \A i \in Items : Kept(i) \/ Fresh(i) PROVE DiagnosedIsReal'
  BY <1>0, Stable DEF DiagnosedIsReal, ServerInv, TypeOK
<1>1. ASSUME NEW is, NEW st, st # "diagnosed", SetStatus(is, st), UNCHANGED incident
      PROVE  \A i \in Items : Kept(i)
  BY <1>1 DEF SetStatus
<1>2. ASSUME UNCHANGED <<queue, incident>> PROVE DiagnosedIsReal'
  BY <1>0, <1>2
<1>3. ASSUME NEW j, HandleFailed(j) PROVE \A i \in Items : Kept(i)
  BY <1>1, <1>3 DEF HandleFailed
<1>4. ASSUME NEW j \in report, NEW o, Handle(o, j) PROVE DiagnosedIsReal'
  <2>1. CASE HandleDone(j)
    <3>1. ASSUME NEW i \in Items PROVE Kept(i) \/ Fresh(i)
      <4>1. CASE i \in Followers(j) /\ Listed(i)
        <5>1. owner[j] = {i}
          BY <4>1, JobsAssumption DEF Followers, LinkInv, TypeOK
        <5>2. QED
          BY <2>1, <4>1, <5>1 DEF HandleDone
      <4>2. CASE ~(i \in Followers(j) /\ Listed(i))
        BY <2>1, <4>2 DEF HandleDone, SetStatus
      <4>3. QED
        BY <4>1, <4>2
    <3>2. QED
      BY <1>0, <3>1
  <2>2. QED
    BY <1>0, <1>3, <1>4, <2>1 DEF Handle
<1>5. ASSUME NEW j \in Jobs, NEW is \in SUBSET Items, Begin(j, is)
      PROVE  DiagnosedIsReal'
  <2>1. ASSUME NEW i \in Items PROVE Kept(i)
    BY <1>5, <2>1 DEF Begin, SetStatus, Listed, TypeOK
  <2>2. QED
    BY <1>0, <2>1
<1>6. ASSUME NEW i \in Items, NEW j \in Jobs, Click(i, j) PROVE DiagnosedIsReal'
  BY <1>2, <1>5, <1>6 DEF Click
<1>7. ASSUME NEW j \in Jobs, CallStep(j) \/ CancelError(j) \/ CreateError(j)
      PROVE  DiagnosedIsReal'
  <2>1. CASE ReturnNull(j) \/ CancelError(j)
    BY <1>0, <1>1, <2>1 DEF ReturnNull, CancelError
  <2>2. CASE CancelOk(j)
    BY <1>5, <2>2 DEF CancelOk, TypeOK
  <2>3. QED
    BY <1>2, <1>7, <2>1, <2>2
       DEF CallStep, CancelArrives, CreateArrives, CreateReturns, ReturnJob,
           CreateError
<1>8. ASSUME NEW j \in Jobs, ReceiveEvent(j) PROVE DiagnosedIsReal'
  <2>1. CASE jobId = j /\ inbox[j] = "done"
    BY <1>4, <1>8, <2>1 DEF ReceiveEvent, AnswersInv
  <2>2. CASE jobId = j /\ inbox[j] # "done"
    BY <1>0, <1>3, <1>8, <2>2 DEF ReceiveEvent, Handle
  <2>3. QED
    BY <1>2, <1>8, <2>1, <2>2 DEF ReceiveEvent
<1>9. ASSUME NEW a \in polls, PollReturn(a) PROVE DiagnosedIsReal'
  <2>1. CASE a = "done"
    BY <1>4, <1>9, <2>1 DEF PollReturn, AnswersInv
  <2>2. CASE a # "done"
    BY <1>0, <1>2, <1>3, <1>9, <2>2 DEF PollReturn, Handle
  <2>3. QED
    BY <2>1, <2>2
<1>10. ASSUME NEW r \in recs, Reconciled(r) PROVE DiagnosedIsReal'
  <2>1. r.item \in Items
    BY DEF TypeOK, Answers
  <2>2. CASE r.answer = "done"
    <3>1. r.job \in report /\ owner[r.job] = {r.item}
      BY <2>2 DEF AnswersInv
    <3>2. ASSUME NEW i \in Items PROVE Kept(i) \/ Fresh(i)
      BY <1>10, <2>1, <2>2, <3>1 DEF Reconciled, SetStatus, TypeOK, Listed
    <3>3. QED
      BY <1>0, <3>2
  <2>3. CASE r.answer # "done"
    BY <1>0, <1>1, <1>10, <2>3 DEF Reconciled
  <2>4. QED
    BY <2>2, <2>3
<1>11. ASSUME NEW j \in Jobs,
              SendEvent(j) \/ StreamError(j) \/ Evict(j) \/ JobRuns(j)
                 \/ FlowCancels(j) \/ AbandonedArrives(j)
       PROVE  DiagnosedIsReal'
  BY <1>2, <1>11
     DEF SendEvent, StreamError, Evict, JobRuns, FlowCancels, AbandonedArrives
<1>12. ASSUME NEW i \in Items, Trigger(i) PROVE DiagnosedIsReal'
  BY <1>0, <1>12 DEF Trigger, TypeOK
<1>13. ASSUME NEW i \in Items, Reconcile(i) PROVE DiagnosedIsReal'
  BY <1>0, <1>1, <1>2, <1>13 DEF Reconcile
<1>14. CASE Render \/ PollSend \/ FlowCancelled \/ FlowFails \/ Reload
            \/ UNCHANGED vars
  BY <1>2, <1>14 DEF Render, PollSend, FlowCancelled, FlowFails, Reload, vars
<1>15. ASSUME ClearQueue PROVE DiagnosedIsReal'
  <2>1. ASSUME NEW i \in Items PROVE Kept(i)
    BY <1>15 DEF ClearQueue, Listed
  <2>2. QED
    BY <1>0, <2>1
<1>16. CASE FlowEnds \/ ClearHistory
  BY <1>0, <1>1, <1>15, <1>16 DEF FlowEnds, ClearHistory
<1>17. ASSUME NEW f \in Flows, StartFlow(f) PROVE DiagnosedIsReal'
  BY <1>2, <1>17 DEF StartFlow
<1>18. QED
  BY <1>6, <1>7, <1>8, <1>9, <1>10, <1>11, <1>12, <1>13, <1>14, <1>16, <1>17
     DEF Next, FlowStep

LEMMA AnswersInvariant == Spec => [](ServerInv /\ LinkInv /\ AnswersInv)
<1>1. Init => ServerInv /\ LinkInv /\ AnswersInv
  BY DEF Init, Server!Init, ServerInv, LinkInv, AnswersInv
<1>2. TypeOK /\ ServerInv /\ LinkInv /\ AnswersInv /\ [Next]_vars
        => (ServerInv /\ LinkInv /\ AnswersInv)'
  BY ServerStep, LinkStep, AnswersStep
<1>3. QED
  BY <1>1, <1>2, TypeCorrect, PTL DEF Spec

(* Whatever was restarted, interrupted or answered twice or late, an item  *)
(* is shown as diagnosed only by a stored report that was made for it.     *)
THEOREM DiagnosedIsStored == Spec => []DiagnosedIsReal
<1>1. Init => DiagnosedIsReal
  BY DEF Init, DiagnosedIsReal
<1>2. TypeOK /\ LinkInv /\ AnswersInv /\ ServerInv /\ DiagnosedIsReal /\ [Next]_vars
        => DiagnosedIsReal'
  BY RealStep
<1>3. QED
  BY <1>1, <1>2, TypeCorrect, AnswersInvariant, PTL DEF Spec

-----------------------------------------------------------------------------
(* Fixed items.                                                            *)

(* The strengthening: the starts made for a fixed item are superseded, and *)
(* no stream is open for the job it had.                                   *)
FixedInv ==
    \A i \in Items : queue[i] = "fixed" =>
        /\ \A j \in Jobs : UnderWay(j) /\ i \in owner[j] => j \in stale
        /\ qjob[i] # NoJob => qjob[i] \notin sources

LEMMA FixedInvStep ==
    ASSUME TypeOK, HookInv, LinkInv, ServerInv, FixedInv, [Next]_vars
    PROVE  FixedInv'
<1> USE DEF serverVars, callVars, hookVars, pollVars, queueVars
<1> DEFINE NoneFixed == \A i \in Items : queue'[i] = "fixed" => queue[i] = "fixed"
           SameJobs == \A i \in Items : qjob'[i] \in {qjob[i], NoJob}
           SameCalls == \A j \in Jobs : UnderWay(j)' =>
                           /\ UnderWay(j) /\ owner'[j] = owner[j]
                           /\ j \in stale => j \in stale'
<1>1. ASSUME NoneFixed, SameJobs, SameCalls, sources' \subseteq sources
      PROVE  FixedInv'
  BY <1>1 DEF FixedInv
<1>2. ASSUME UNCHANGED <<call, owner, stale>> PROVE SameCalls
  BY <1>2 DEF UnderWay
<1>3. ASSUME UNCHANGED qjob PROVE SameJobs
  BY <1>3
<1>4. ASSUME NEW is, NEW st, st # "fixed", SetStatus(is, st) PROVE NoneFixed
  BY <1>4 DEF SetStatus
<1>5. ASSUME UNCHANGED queue PROVE NoneFixed
  BY <1>5
<1>6. ASSUME NEW j, NEW o, Handle(o, j) \/ HandleFailed(j)
      PROVE  NoneFixed /\ SameJobs
  BY <1>3, <1>4, <1>6 DEF Handle, HandleDone, HandleFailed
<1>7. ASSUME NEW j \in Jobs, End(j), UNCHANGED owner PROVE SameCalls
  BY <1>7 DEF End, UnderWay, TypeOK
<1>8. ASSUME NEW ph, ResetTo(ph)
      PROVE  sources' = {} /\ \A k \in Jobs : UnderWay(k) => k \in stale'
  BY <1>8, ResetHook
<1>9. ASSUME NEW i \in Items, NEW j \in Jobs, Click(i, j) PROVE FixedInv'
  <2>1. sources' = {} /\ \A k \in Jobs : UnderWay(k) => k \in stale'
    BY <1>8, <1>9 DEF Click, Begin
  <2>2. owner' = [owner EXCEPT ![j] = {i}] /\ queue[i] # "fixed"
    BY <1>9 DEF Click
  <2>3. NoneFixed
    BY <1>4, <1>5, <1>9 DEF Click, Begin
  <2>4. \A k \in Jobs \ {j} : call'[k] = call[k] /\ owner'[k] = owner[k]
    BY <1>9 DEF Click, Begin, TypeOK
  <2>5. owner'[j] = {i}
    BY <2>2 DEF TypeOK
  <2>6. QED
    BY <2>1, <2>2, <2>3, <2>4, <2>5 DEF FixedInv, UnderWay
<1>10. ASSUME NEW j \in Jobs, CancelOk(j) PROVE FixedInv'
  <2>1. sources' = {} /\ \A k \in Jobs : UnderWay(k) => k \in stale'
    BY <1>8, <1>10 DEF CancelOk, Begin
  <2>2. \A i \in owner[j] : queue'[i] # "fixed"
    BY <1>10 DEF CancelOk, Begin, SetStatus, Listed, TypeOK
  <2>3. NoneFixed /\ UNCHANGED owner
    BY <1>4, <1>10 DEF CancelOk, Begin
  <2>4. \A k \in Jobs \ {j} : call'[k] = call[k]
    BY <1>10 DEF CancelOk, Begin, TypeOK
  <2>5. QED
    BY <2>1, <2>2, <2>3, <2>4 DEF FixedInv, UnderWay
<1>11. ASSUME NEW j \in Jobs, call[j] = "created", j \notin stale, ReturnJob(j),
              UNCHANGED owner
       PROVE  FixedInv'
  <2>1. UnderWay(j) /\ UNCHANGED queue
    BY <1>11 DEF UnderWay, ReturnJob
  <2>2. ASSUME NEW i \in Items, queue[i] = "fixed"
        PROVE  i \notin owner[j] /\ qjob'[i] = qjob[i] /\ qjob[i] # j
    <3>1. i \notin owner[j]
      BY <1>11, <2>1, <2>2 DEF FixedInv
    <3>2. qjob[i] # j
      BY <1>11, JobsAssumption DEF LinkInv
    <3>3. QED
      BY <1>11, <3>1, <3>2 DEF ReturnJob, TypeOK
  <2>3. sources' \subseteq {j}
    BY <1>11 DEF ReturnJob, Subscribe, HookInv
  <2>4. SameCalls
    BY <1>7, <1>11 DEF ReturnJob
  <2>5. QED
    BY <2>1, <2>2, <2>3, <2>4 DEF FixedInv
<1>12. ASSUME NEW j \in Jobs, CreateReturns(j) PROVE FixedInv'
  <2>1. CASE j \notin stale /\ ReturnJob(j)
    BY <1>11, <1>12, <2>1 DEF CreateReturns
  <2>2. CASE ReturnNull(j) /\ UNCHANGED hookVars
    BY <1>1, <1>3, <1>4, <1>7, <1>12, <2>2 DEF CreateReturns, ReturnNull
  <2>3. QED
    BY <1>12, <2>1, <2>2 DEF CreateReturns
<1>13. ASSUME NEW j \in Jobs, CancelError(j) \/ CreateError(j) PROVE FixedInv'
  BY <1>1, <1>3, <1>4, <1>7, <1>13 DEF CancelError, CreateError, ReturnNull
<1>14. ASSUME NEW j \in Jobs, CreateArrives(j) \/ AbandonedArrives(j)
       PROVE  FixedInv'
  <2>1. SameCalls
    BY <1>14 DEF CreateArrives, AbandonedArrives, UnderWay, TypeOK
  <2>2. UNCHANGED <<queue, qjob, sources>>
    BY <1>14 DEF CreateArrives, AbandonedArrives
  <2>3. QED
    BY <1>1, <1>3, <1>5, <2>1, <2>2
<1>15. ASSUME NEW j \in Jobs, CancelArrives(j) \/ FlowCancels(j) \/ SendEvent(j)
                             \/ JobRuns(j) \/ Evict(j) \/ StreamError(j)
       PROVE  FixedInv'
  BY <1>1, <1>2, <1>3, <1>5, <1>15
     DEF CancelArrives, FlowCancels, SendEvent, JobRuns, Evict, StreamError
<1>16. ASSUME NEW j \in Jobs, ReceiveEvent(j) PROVE FixedInv'
  <2>1. NoneFixed /\ SameJobs
    BY <1>3, <1>5, <1>6, <1>16 DEF ReceiveEvent
  <2>2. SameCalls /\ sources' \subseteq sources
    BY <1>2, <1>16 DEF ReceiveEvent, Close
  <2>3. QED
    BY <1>1, <2>1, <2>2
<1>17. ASSUME NEW a \in polls, PollReturn(a) PROVE FixedInv'
  <2>1. NoneFixed /\ SameJobs
    BY <1>3, <1>5, <1>6, <1>17 DEF PollReturn
  <2>2. SameCalls /\ sources' \subseteq sources
    BY <1>2, <1>17 DEF PollReturn, CloseStream, Close
  <2>3. QED
    BY <1>1, <2>1, <2>2
<1>18. ASSUME NEW r \in recs, Reconciled(r) PROVE FixedInv'
  BY <1>1, <1>2, <1>3, <1>4, <1>18 DEF Reconciled
<1>19. ASSUME NEW i \in Items, Reconcile(i) PROVE FixedInv'
  BY <1>1, <1>2, <1>3, <1>4, <1>5, <1>19 DEF Reconcile
<1>20. ASSUME NEW i \in Items, Trigger(i) PROVE FixedInv'
  <2>1. NoneFixed
    BY <1>20 DEF Trigger, TypeOK
  <2>2. QED
    BY <1>1, <1>2, <1>3, <1>20, <2>1 DEF Trigger
<1>21. CASE Render \/ PollSend \/ FlowCancelled \/ FlowFails \/ UNCHANGED vars
  BY <1>1, <1>2, <1>3, <1>5, <1>21
     DEF Render, PollSend, FlowCancelled, FlowFails, vars
<1>22. ASSUME NEW f \in Flows, StartFlow(f) PROVE FixedInv'
  BY <1>1, <1>2, <1>3, <1>5, <1>22 DEF StartFlow
<1>23. CASE FlowEnds \/ ClearHistory
  <2>1. sources' = {} /\ \A k \in Jobs : UnderWay(k) => k \in stale'
    BY <1>8, <1>23 DEF FlowEnds, ClearHistory
  <2>2. UNCHANGED <<call, owner>>
    BY <1>23 DEF FlowEnds, ClearHistory
  <2>3. QED
    BY <2>1, <2>2 DEF FixedInv, UnderWay
<1>24. CASE Reload
  <2>1. SameCalls
    BY <1>24 DEF Reload, UnderWay
  <2>2. UNCHANGED <<queue, qjob>> /\ sources' = {}
    BY <1>24 DEF Reload
  <2>3. QED
    BY <1>1, <1>3, <1>5, <2>1, <2>2
<1>25. QED
  BY <1>9, <1>10, <1>12, <1>13, <1>14, <1>15, <1>16, <1>17, <1>18, <1>19, <1>20,
     <1>21, <1>22, <1>23, <1>24
     DEF Next, CallStep, FlowStep

LEMMA FixedStep ==
    ASSUME TypeOK, HookInv, AnswersInv, FixedInv, [Next]_vars,
           NEW i \in Items, queue[i] = "fixed", Quiet(i)
    PROVE  queue'[i] \in {"fixed", "cleared"}
<1> DEFINE Goal == queue'[i] \in {"fixed", "cleared"}
<1> USE DEF serverVars, callVars, hookVars, pollVars, queueVars
<1>1. ASSUME NEW is, NEW st, SetStatus(is, st), i \notin is PROVE Goal
  BY <1>1 DEF SetStatus
<1>2. ASSUME UNCHANGED queue PROVE Goal
  BY <1>2
<1>3. ASSUME NEW j \in Ids, NEW o, Handle(o, j) \/ HandleFailed(j), qjob[i] # j
      PROVE  Goal
  BY <1>1, <1>3 DEF Handle, HandleDone, HandleFailed, Followers
<1>4. ASSUME NEW j \in Jobs, call[j] = "cancelling"
      PROVE  i \notin owner[j]
  BY <1>4 DEF Quiet
<1>5. ASSUME NEW k \in Items, NEW j \in Jobs, Click(k, j) PROVE Goal
  BY <1>1, <1>2, <1>5 DEF Click, Begin
<1>6. ASSUME NEW j \in Jobs, CallStep(j) \/ CancelError(j) \/ CreateError(j)
      PROVE  Goal
  <2>1. CASE ReturnNull(j)
    BY <1>1, <2>1 DEF ReturnNull
  <2>2. CASE CancelOk(j) \/ CancelError(j)
    BY <1>1, <1>4, <2>2 DEF CancelOk, Begin, CancelError
  <2>3. QED
    BY <1>2, <1>6, <2>1, <2>2
       DEF CallStep, CancelArrives, CreateArrives, CreateReturns, ReturnJob,
           CreateError
<1>7. ASSUME NEW j \in Jobs, ReceiveEvent(j) PROVE Goal
  <2>1. qjob[i] # j
    BY <1>7, JobsAssumption DEF ReceiveEvent, FixedInv
  <2>2. QED
    BY <1>2, <1>3, <1>7, <2>1 DEF ReceiveEvent, Ids
<1>8. ASSUME NEW a \in polls, PollReturn(a) PROVE Goal
  <2>1. effect \in Ids /\ qjob[i] # effect
    BY <1>8 DEF AnswersInv, Quiet, TypeOK
  <2>2. QED
    BY <1>2, <1>3, <1>8, <2>1 DEF PollReturn
<1>9. ASSUME NEW r \in recs, Reconciled(r) PROVE Goal
  BY <1>1, <1>9 DEF Reconciled, Quiet
<1>10. ASSUME NEW k \in Items, Trigger(k) \/ Reconcile(k) PROVE Goal
  BY <1>1, <1>2, <1>10 DEF Trigger, Reconcile, TypeOK
<1>11. ASSUME NEW j \in Jobs,
              SendEvent(j) \/ StreamError(j) \/ Evict(j) \/ JobRuns(j)
                 \/ FlowCancels(j) \/ AbandonedArrives(j)
       PROVE  Goal
  BY <1>2, <1>11
     DEF SendEvent, StreamError, Evict, JobRuns, FlowCancels, AbandonedArrives
<1>12. CASE Render \/ PollSend \/ FlowCancelled \/ FlowFails \/ Reload
            \/ UNCHANGED vars
  BY <1>2, <1>12 DEF Render, PollSend, FlowCancelled, FlowFails, Reload, vars
<1>13. CASE FlowEnds \/ ClearHistory
  BY <1>13 DEF FlowEnds, ClearHistory, ClearQueue, SetStatus, Listed
<1>14. ASSUME NEW f \in Flows, StartFlow(f) PROVE Goal
  BY <1>2, <1>14 DEF StartFlow
<1>15. QED
  BY <1>5, <1>6, <1>7, <1>8, <1>9, <1>10, <1>11, <1>12, <1>13, <1>14
     DEF Next, FlowStep

LEMMA FixedInvariant == Spec => []FixedInv
<1>1. Init => FixedInv
  BY DEF Init, FixedInv
<1>2. TypeOK /\ HookInv /\ LinkInv /\ ServerInv /\ FixedInv /\ [Next]_vars
        => FixedInv'
  BY FixedInvStep
<1>3. QED
  BY <1>1, <1>2, TypeCorrect, HookInvariant, AnswersInvariant, PTL DEF Spec

(* Completing an incident closes the stream of its job and supersedes its  *)
(* starts, so none of them takes it back: only a Re-diagnose that waits    *)
(* for its cancel, a reconciliation or a poll under way can.               *)
THEOREM FixedIsKept == Spec => FixedStaysFixed
<1>1. TypeOK /\ HookInv /\ AnswersInv /\ FixedInv /\ [Next]_vars =>
         [\A i \in Items : queue[i] = "fixed" /\ Quiet(i)
             => queue'[i] \in {"fixed", "cleared"}]_vars
  BY FixedStep
<1>2. QED
  BY <1>1, TypeCorrect, HookInvariant, AnswersInvariant, FixedInvariant, PTL
     DEF Spec, FixedStaysFixed
=============================================================================
