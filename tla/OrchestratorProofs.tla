------------------------- MODULE OrchestratorProofs -------------------------
(***************************************************************************)
(* Theorems about Orchestrator, for every set of jobs, streams and cancel  *)
(* requests, every list limit and every set of faults (or the faults each  *)
(* theorem excludes).                                                      *)
(***************************************************************************)
EXTENDS Orchestrator, SequenceTheorems, TLAPS

LEMMA AnyJobIsJob == AnyJob \in Jobs
BY JobsAssumption DEF AnyJob

LEMMA RequestType ==
    ASSUME NEW j \in Jobs, NEW k \in Reports!SnapshotKinds \cup {"report"}
    PROVE  Reports!Request(j, k) \in Reports!Requests
BY DEF Reports!Request, Reports!Requests

LEMMA SendType ==
    ASSUME TypeOK, NEW j \in Jobs,
           NEW k \in Reports!SnapshotKinds \cup {"report"}, Reports!Send(j, k)
    PROVE  wire' \subseteq Reports!Requests
BY RequestType DEF TypeOK, Reports!ReportsTypeOK, Reports!Send

LEMMA PublishType ==
    ASSUME TypeOK, NEW j \in Jobs, NEW e \in Events, Publish(j, e)
    PROVE  inbox' \in [Streams -> Seq(Events)]
<1>1. ASSUME NEW s \in Streams PROVE Append(inbox[s], e) \in Seq(Events)
  BY AppendProperties DEF TypeOK, StoreTypeOK
<1>2. QED
  BY <1>1 DEF TypeOK, StoreTypeOK, Publish

(* A task waits for a service only in one of the four stages: what TypeOK  *)
(* lacks to be inductive.                                                  *)
CallInv == \A j \in Jobs : pc[j] = "call" => target[j] \in Stages

LEMMA InitTypeOK == Init => TypeOK
BY AnyJobIsJob, SMT
DEF Init, TypeOK, StoreInit, StoreTypeOK, Reports!ReportsInit,
    Reports!ReportsTypeOK, Statuses, Events, Stages, Terminal, Fields,
    StreamStates, CancelStates, Creating, Running, Reports!SnapshotKinds

(* One lemma per group of actions. *)
LEMMA JobTypeOK ==
    ASSUME TypeOK, CallInv, NEW j \in Jobs, JobStep(j) \/ Evict(j)
    PROVE  TypeOK'
<1> USE DEF TypeOK, StoreTypeOK, Reports!ReportsTypeOK, Statuses, Events,
            Stages, Terminal, Fields, Creating, Running, Goto, storeVars,
            pipelineVars, cancelVars, streamVars, reportsVars
<1>1. CASE Create(j)
  BY <1>1 DEF Create, HsetCreate
<1>2. CASE Expire(j)
  BY <1>2 DEF Expire, SetExpiry
<1>3. CASE Enqueue(j)
  <2>1. wire' \subseteq Reports!Requests
    BY <1>3, SendType DEF Enqueue, Reports!SnapshotKinds
  <2>2. QED
    BY <1>3, <2>1 DEF Enqueue, Lpush
<1>4. CASE StartTask(j)
  BY <1>4 DEF StartTask
<1>5. CASE WriteStatus(j)
  BY <1>5 DEF WriteStatus, HsetStatus, FieldsWith
<1>6. CASE PublishStage(j)
  <2>1. wire' \subseteq Reports!Requests
    BY <1>6, SendType DEF PublishStage, Reports!SnapshotKinds
  <2>2. inbox' \in [Streams -> Seq(Events)]
    BY <1>6, PublishType DEF PublishStage
  <2>3. QED
    BY <1>6, <2>1, <2>2 DEF PublishStage
<1>7. CASE PublishTerminal(j)
  <2>1. wire' \subseteq Reports!Requests
    BY <1>7, SendType DEF PublishTerminal, Reports!SnapshotKinds
  <2>2. inbox' \in [Streams -> Seq(Events)]
    BY <1>7, PublishType DEF PublishTerminal
  <2>3. QED
    BY <1>7, <2>1, <2>2 DEF PublishTerminal
<1>8. CASE CallOk(j)
  <2>1. target[j] \in Stages
    BY <1>8 DEF CallOk, CallInv
  <2>2. After(target[j]) \in Events
    BY <2>1 DEF After
  <2>3. QED
    BY <1>8, <2>2 DEF CallOk
<1>9. CASE CallFail(j)
  BY <1>9 DEF CallFail, EnterFail
<1>10. CASE ArchiveReturn(j)
  BY <1>10 DEF ArchiveReturn
<1>11. CASE Timeout(j)
  BY <1>11 DEF Timeout, EnterFail
<1>12. CASE RedisError(j)
  <2>1. CASE EnterFail(j)
    BY <1>12, <2>1 DEF RedisError, EnterFail
  <2>2. CASE Goto(j, "ended") /\ UNCHANGED target
    BY <1>12, <2>2 DEF RedisError
  <2>3. QED
    BY <1>12, <2>1, <2>2 DEF RedisError
<1>13. CASE Evict(j)
  BY <1>13 DEF Evict, RemoveKey
<1>14. QED
  BY <1>1, <1>2, <1>3, <1>4, <1>5, <1>6, <1>7, <1>8, <1>9, <1>10, <1>11,
     <1>12, <1>13 DEF JobStep, CreateStep, TaskStep

CancelRequestStep(c) ==
    \/ CancelStep(c) \/ CancelActive(c) \/ CancelError(c)
    \/ \E j \in Jobs : CancelOne(c, j)

LEMMA CancelTypeOK ==
    ASSUME TypeOK, NEW c \in Cancels, CancelRequestStep(c)
    PROVE  TypeOK'
<1> USE DEF TypeOK, StoreTypeOK, Reports!ReportsTypeOK, Statuses, Events,
            Stages, Terminal, Fields, CancelStates, GotoC, storeVars,
            pipelineVars, cancelVars, streamVars, reportsVars
<1>1. ASSUME NEW j \in Jobs, CancelOne(c, j) PROVE TypeOK'
  BY <1>1 DEF CancelOne
<1>2. CASE CancelActive(c)
  <2> DEFINE D == {j \in Newest(ListLimit) : status[j] \notin Terminal}
  <2>1. D \in SUBSET Jobs
    BY DEF Newest
  <2>2. todo' \in {todo, [todo EXCEPT ![c] = D]}
    BY <1>2 DEF CancelActive
  <2>3. cpc' \in {[cpc EXCEPT ![c] = "next"], [cpc EXCEPT ![c] = "ended"]}
    BY <1>2 DEF CancelActive
  <2> HIDE DEF D
  <2>4. QED
    BY <1>2, <2>1, <2>2, <2>3 DEF CancelActive
<1>3. CASE CancelRead(c)
  <2> PICK j \in todo[c] :
         /\ todo' = [todo EXCEPT ![c] = @ \ {j}]
         /\ current' = [current EXCEPT ![c] = j]
         /\ cpc' \in {cpc, [cpc EXCEPT ![c] = "ended"],
                      [cpc EXCEPT ![c] = "act"]}
    BY <1>3 DEF CancelRead
  <2>1. UNCHANGED <<storeVars, pipelineVars, cancelled, streamVars, reportsVars>>
    BY <1>3 DEF CancelRead
  <2>2. QED
    BY <2>1
<1>4. CASE CancelTask(c)
  BY <1>4 DEF CancelTask, Goto, Creating, Running
<1>5. CASE CancelReread(c)
  <2>1. CASE CancelDone(c)
    BY <1>5, <2>1 DEF CancelReread, CancelDone
  <2>2. CASE UNCHANGED cancelled
    BY <1>5, <2>2 DEF CancelReread, CancelDone
  <2>3. QED
    BY <1>5, <2>1, <2>2 DEF CancelReread
<1>6. CASE CancelWrite(c)
  BY <1>6 DEF CancelWrite, HsetStatus, FieldsWith
<1>7. CASE CancelPublish(c)
  <2>1. inbox' \in [Streams -> Seq(Events)]
    BY <1>7, PublishType DEF CancelPublish
  <2>2. QED
    BY <1>7, <2>1 DEF CancelPublish, CancelDone
<1>8. CASE CancelReturn(c)
  BY <1>8 DEF CancelReturn
<1>9. CASE CancelError(c)
  BY <1>9 DEF CancelError
<1>10. QED
  BY <1>1, <1>2, <1>3, <1>4, <1>5, <1>6, <1>7, <1>8, <1>9
  DEF CancelRequestStep, CancelStep

StreamRequestStep(s) ==
    StreamStep(s) \/ Disconnect(s) \/ \E j \in Jobs : OpenStream(s, j)

LEMMA StreamTypeOK ==
    ASSUME TypeOK, NEW s \in Streams, StreamRequestStep(s)
    PROVE  TypeOK'
<1> USE DEF TypeOK, StoreTypeOK, Reports!ReportsTypeOK, Statuses, StreamStates,
            storeVars, pipelineVars, cancelVars, streamVars, reportsVars
<1>1. ASSUME NEW j \in Jobs, OpenStream(s, j) PROVE TypeOK'
  BY <1>1 DEF OpenStream
<1>2. CASE Subscribe(s)
  BY <1>2 DEF Subscribe
<1>3. <<>> \in Seq(Events)
  OBVIOUS
<1>4. CASE Replay(s)
  BY <1>3, <1>4 DEF Replay, Close
<1>5. CASE Forward(s)
  <2>1. Head(inbox[s]) \in Events /\ Tail(inbox[s]) \in Seq(Events)
    BY <1>5, HeadTailProperties DEF Forward
  <2>2. QED
    BY <1>3, <1>5, <2>1 DEF Forward, Close
<1>6. CASE Disconnect(s)
  BY <1>3, <1>6 DEF Disconnect, Close
<1>7. QED
  BY <1>1, <1>2, <1>4, <1>5, <1>6 DEF StreamRequestStep, StreamStep

EnvStep ==
    \/ \E m \in wire : ServeRequest(m) \/ LoseRequest(m)
    \/ ClearQueue \/ Crash

LEMMA EnvTypeOK ==
    ASSUME TypeOK, EnvStep \/ UNCHANGED vars
    PROVE  TypeOK'
<1> USE DEF TypeOK, StoreTypeOK, Reports!ReportsTypeOK, storeVars,
            pipelineVars, cancelVars, streamVars, reportsVars
<1>1. ASSUME NEW m \in wire, ServeRequest(m) PROVE TypeOK'
  BY <1>1 DEF ServeRequest, Reports!Serve, Reports!UpsertJob,
              Reports!SaveReport, Reports!Requests
<1>2. ASSUME NEW m \in wire, LoseRequest(m) PROVE TypeOK'
  BY <1>2 DEF LoseRequest, Reports!Lose
<1>3. CASE ClearQueue
  BY <1>3 DEF ClearQueue
<1>4. CASE Crash
  BY <1>4 DEF Crash, CancelStates, StreamStates
<1>5. CASE UNCHANGED vars
  BY <1>5 DEF vars
<1>6. QED
  BY <1>1, <1>2, <1>3, <1>4, <1>5 DEF EnvStep

(* Every step belongs to a job, a cancel request, a stream or the          *)
(* environment.                                                            *)
LEMMA StepCases ==
    ASSUME [Next]_vars
    PROVE  \/ \E j \in Jobs : JobStep(j) \/ Evict(j)
           \/ \E c \in Cancels : CancelRequestStep(c)
           \/ \E s \in Streams : StreamRequestStep(s)
           \/ EnvStep \/ UNCHANGED vars
BY DEF Next, CancelRequestStep, StreamRequestStep, EnvStep

(* Nobody but the job's own handler and task moves it forward: the other   *)
(* steps can only end it.                                                  *)
LEMMA OthersEndTask ==
    ASSUME TypeOK, [Next]_vars, ~ \E j \in Jobs : JobStep(j)
    PROVE  /\ UNCHANGED target
           /\ \A j \in Jobs : \/ pc'[j] = pc[j]
                              \/ pc[j] # "new" /\ pc'[j] = "ended"
<1> USE DEF pipelineVars
<1>1. ASSUME NEW j \in Jobs, Evict(j) PROVE UNCHANGED <<pc, target>>
  BY <1>1 DEF Evict
<1>2. ASSUME NEW c \in Cancels, CancelRequestStep(c), ~CancelTask(c)
      PROVE  UNCHANGED <<pc, target>>
  BY <1>2 DEF CancelRequestStep, CancelStep, CancelRead, CancelReread,
     CancelWrite, CancelPublish, CancelReturn, CancelError, CancelActive,
     CancelOne
<1>3. ASSUME NEW c \in Cancels, CancelTask(c)
      PROVE  /\ UNCHANGED target
             /\ \/ pc' = pc
                \/ /\ pc' = [pc EXCEPT ![current[c]] = "ended"]
                   /\ pc[current[c]] # "new"
  BY <1>3 DEF CancelTask, Goto, TaskLive, Running
<1>4. ASSUME NEW s \in Streams, StreamRequestStep(s)
      PROVE  UNCHANGED <<pc, target>>
  BY <1>4 DEF StreamRequestStep, StreamStep, Subscribe, Replay, Forward,
     Disconnect, OpenStream
<1>5. ASSUME EnvStep, ~Crash PROVE UNCHANGED <<pc, target>>
  BY <1>5 DEF EnvStep, ServeRequest, LoseRequest, ClearQueue
<1>6. CASE Crash
  BY <1>6 DEF Crash
<1>7. CASE UNCHANGED vars
  BY <1>7 DEF vars
<1>8. QED
  BY <1>1, <1>2, <1>3, <1>4, <1>5, <1>6, <1>7, StepCases
  DEF TypeOK, StoreTypeOK

LEMMA CallInvStep ==
    ASSUME TypeOK, CallInv, [Next]_vars
    PROVE  CallInv'
<1> USE DEF CallInv, TypeOK, Goto, Stages
<1>1. CASE ~ \E j \in Jobs : JobStep(j)
  BY <1>1, OthersEndTask
<1>2. ASSUME NEW j \in Jobs, JobStep(j) PROVE CallInv'
  <2>1. CASE Create(j) \/ CreateStep(j)
    BY <2>1 DEF Create, CreateStep, Expire, Enqueue, StartTask
  <2>2. CASE PublishStage(j)
    BY <2>2 DEF PublishStage
  <2>3. CASE WriteStatus(j) \/ PublishTerminal(j) \/ ArchiveReturn(j)
    BY <2>3 DEF WriteStatus, PublishTerminal, ArchiveReturn
  <2>4. CASE CallOk(j) \/ CallFail(j) \/ Timeout(j)
    BY <2>4 DEF CallOk, CallFail, Timeout, EnterFail
  <2>5. CASE RedisError(j)
    BY <2>5 DEF RedisError, EnterFail
  <2>6. QED
    BY <1>2, <2>1, <2>2, <2>3, <2>4, <2>5 DEF JobStep, TaskStep
<1>3. QED
  BY <1>1, <1>2

LEMMA TypeOKStep ==
    ASSUME TypeOK, CallInv, [Next]_vars
    PROVE  TypeOK'
BY StepCases, JobTypeOK, CancelTypeOK, StreamTypeOK, EnvTypeOK

(* Every variable keeps its type: in particular a status is one of the     *)
(* seven of the contract, whatever is cancelled, lost or restarted.        *)
THEOREM TypeCorrect == Spec => [](TypeOK /\ CallInv)
<1>1. Init => TypeOK /\ CallInv
  BY InitTypeOK DEF Init, CallInv
<1>2. TypeOK /\ CallInv /\ [Next]_vars => (TypeOK /\ CallInv)'
  BY TypeOKStep, CallInvStep
<1>3. QED
  BY <1>1, <1>2, PTL DEF Spec

-----------------------------------------------------------------------------
(* Who writes what.                                                        *)

(* Reports, rows and links change only when reports-svc serves a request.  *)
LEMMA OnlyServeWritesReports ==
    ASSUME [Next]_vars, ~ \E m \in wire : ServeRequest(m)
    PROVE  UNCHANGED <<row, linked, report>>
<1> USE DEF reportsVars
<1>1. ASSUME NEW j \in Jobs, JobStep(j) \/ Evict(j)
      PROVE  UNCHANGED <<row, linked, report>>
  BY <1>1 DEF JobStep, CreateStep, TaskStep, Create, Expire, Enqueue,
     StartTask, WriteStatus, PublishStage, PublishTerminal, CallOk, CallFail,
     ArchiveReturn, Timeout, RedisError, Evict
<1>2. ASSUME NEW c \in Cancels, CancelRequestStep(c)
      PROVE  UNCHANGED <<row, linked, report>>
  BY <1>2 DEF CancelRequestStep, CancelStep, CancelRead, CancelTask,
     CancelReread, CancelWrite, CancelPublish, CancelReturn, CancelError,
     CancelActive, CancelOne
<1>3. ASSUME NEW s \in Streams, StreamRequestStep(s)
      PROVE  UNCHANGED <<row, linked, report>>
  BY <1>3 DEF StreamRequestStep, StreamStep, Subscribe, Replay, Forward,
     Disconnect, OpenStream
<1>4. CASE EnvStep \/ UNCHANGED vars
  BY <1>4 DEF EnvStep, LoseRequest, Reports!Lose, ClearQueue, Crash, vars
<1>5. QED
  BY <1>1, <1>2, <1>3, <1>4, StepCases

LEMMA ReportsGrow ==
    ASSUME [Next]_vars
    PROVE  report \subseteq report'
BY OnlyServeWritesReports
DEF ServeRequest, Reports!Serve, Reports!UpsertJob, Reports!SaveReport

(* A job hash changes when the job is created or evicted, when its task    *)
(* enters its target status, or when a cancel handler fails it.            *)
LEMMA StatusWriters ==
    ASSUME [Next]_vars
    PROVE  \/ UNCHANGED <<status, fields>>
           \/ \E j \in Jobs : Create(j) \/ WriteStatus(j) \/ Evict(j)
           \/ \E c \in Cancels : CancelWrite(c)
<1> USE DEF storeVars
<1>1. ASSUME NEW j \in Jobs, JobStep(j), ~Create(j), ~WriteStatus(j)
      PROVE  UNCHANGED <<status, fields>>
  BY <1>1 DEF JobStep, CreateStep, TaskStep, Expire, Enqueue,
     StartTask, PublishStage, PublishTerminal, CallOk, CallFail,
     ArchiveReturn, Timeout, RedisError
<1>2. ASSUME NEW c \in Cancels, CancelRequestStep(c), ~CancelWrite(c)
      PROVE  UNCHANGED <<status, fields>>
  BY <1>2 DEF CancelRequestStep, CancelStep, CancelRead, CancelTask,
     CancelReread, CancelPublish, CancelReturn, CancelError,
     CancelActive, CancelOne
<1>3. ASSUME NEW s \in Streams, StreamRequestStep(s)
      PROVE  UNCHANGED <<status, fields>>
  BY <1>3 DEF StreamRequestStep, StreamStep, Subscribe, Replay, Forward,
     Disconnect, OpenStream
<1>4. CASE EnvStep \/ UNCHANGED vars
  BY <1>4 DEF EnvStep, ServeRequest, LoseRequest, ClearQueue, Crash, vars
<1>5. QED
  BY <1>1, <1>2, <1>3, <1>4, StepCases

(* Only a successful call moves a target to "done", and then the report is *)
(* stored; every other change of a target is to "failed".                  *)
LEMMA TargetChange ==
    ASSUME TypeOK, CallInv, [Next]_vars, NEW j \in Jobs
    PROVE  \/ target'[j] \in {target[j], "failed"}
           \/ pc[j] = "call" /\ target[j] \in Stages /\ target'[j] \in Stages
           \/ pc[j] = "call" /\ target[j] \in Stages /\ target'[j] = "done"
              /\ j \in report
<1> USE DEF TypeOK
<1>1. CASE ~ \E i \in Jobs : JobStep(i)
  BY <1>1, OthersEndTask
<1>2. ASSUME NEW i \in Jobs, CallOk(i)
      PROVE  /\ pc[i] = "call" /\ target[i] \in Stages
             /\ target' = [target EXCEPT ![i] = After(target[i])]
             /\ target[i] = "persisting" => i \in report
  BY <1>2 DEF CallOk, CallInv
<1>3. \A st \in Stages : /\ st # "persisting" => After(st) \in Stages
                         /\ st = "persisting" => After(st) = "done"
  BY DEF After, Stages
<1>4. ASSUME NEW i \in Jobs, JobStep(i), ~CallOk(i)
      PROVE  target' \in {target, [target EXCEPT ![i] = "failed"]}
  BY <1>4 DEF JobStep, CreateStep, TaskStep, Create, Expire, Enqueue,
     StartTask, WriteStatus, PublishStage, PublishTerminal, CallFail,
     ArchiveReturn, Timeout, RedisError, EnterFail
<1>5. QED
  BY <1>1, <1>2, <1>3, <1>4

-----------------------------------------------------------------------------
(* A "done" is backed by a stored report, wherever it is.                  *)

(* The strengthening: also a "done" the pipeline is about to write, or one *)
(* still buffered for a stream.                                            *)
TargetHasReport == \A j \in Jobs : target[j] = "done" => j \in report

InboxHasReport ==
    \A s \in Streams :
        /\ \A i \in 1..Len(inbox[s]) : inbox[s][i] = "done" => sjob[s] \in report
        /\ spc[s] = "idle" => inbox[s] = <<>> /\ sent[s] = "absent"

ReportInv ==
    /\ DoneHasReport
    /\ TargetHasReport
    /\ SnapshotSound
    /\ StreamDoneHasReport
    /\ InboxHasReport

LEMMA DoneHasReportStep ==
    ASSUME TypeOK, CallInv, DoneHasReport, TargetHasReport, [Next]_vars
    PROVE  DoneHasReport' /\ TargetHasReport'
<1> USE DEF TypeOK, StoreTypeOK
<1>1. TargetHasReport'
  BY TargetChange, ReportsGrow DEF TargetHasReport, Stages
<1>2. ASSUME NEW j \in Jobs,
             status'[j] = "done" \/ "incident_id" \in fields'[j]
      PROVE  \/ status[j] = "done" \/ "incident_id" \in fields[j]
             \/ target[j] = "done"
  <2>1. ASSUME NEW i \in Jobs, Create(i) \/ Evict(i)
        PROVE  status[j] = "done" \/ "incident_id" \in fields[j]
    BY <1>2, <2>1 DEF Create, HsetCreate, Evict, RemoveKey
  <2>2. ASSUME NEW i \in Jobs, WriteStatus(i)
        PROVE  \/ status[j] = "done" \/ "incident_id" \in fields[j]
               \/ target[j] = "done"
    BY <1>2, <2>2 DEF WriteStatus, HsetStatus, FieldsWith
  <2>3. ASSUME NEW c \in Cancels, CancelWrite(c)
        PROVE  status[j] = "done" \/ "incident_id" \in fields[j]
    BY <1>2, <2>3 DEF CancelWrite, HsetStatus, FieldsWith
  <2>4. QED
    BY <1>2, <2>1, <2>2, <2>3, StatusWriters
<1>3. DoneHasReport'
  BY <1>2, ReportsGrow DEF DoneHasReport, TargetHasReport
<1>4. QED
  BY <1>1, <1>3

LEMMA SnapshotSoundStep ==
    ASSUME TypeOK, SnapshotSound, [Next]_vars
    PROVE  SnapshotSound'
<1> USE DEF SnapshotSound, TypeOK, Reports!ReportsTypeOK
<1>1. CASE ~ \E m \in wire : ServeRequest(m)
  BY <1>1, OnlyServeWritesReports
<1>2. ASSUME NEW m \in wire, ServeRequest(m) PROVE SnapshotSound'
  <2>1. m.job \in Jobs /\ row' \in [Jobs -> Reports!SnapshotKinds \cup {"none"}]
    BY <1>2, StepCases, EnvTypeOK DEF Reports!Requests, EnvStep
  <2>2. CASE Reports!UpsertJob(m)
    BY <2>1, <2>2 DEF Reports!UpsertJob, Reports!SnapshotKinds
  <2>3. CASE Reports!SaveReport(m)
    BY <2>1, <2>3 DEF Reports!SaveReport
  <2>4. QED
    BY <1>2, <2>2, <2>3 DEF ServeRequest, Reports!Serve
<1>3. QED
  BY <1>1, <1>2

(* An inbox grows by a published event at its end, loses its head, is      *)
(* emptied, or stays; and a "done" is published only by the pipeline.      *)
LEMMA PublishKeepsInbox ==
    ASSUME TypeOK, InboxHasReport, NEW j \in Jobs, NEW e \in Events,
           Publish(j, e), e = "done" => j \in report,
           report \subseteq report', UNCHANGED <<spc, sjob, sent>>
    PROVE  InboxHasReport'
<1> SUFFICES ASSUME NEW s \in Streams
             PROVE  /\ \A i \in 1..Len(inbox'[s]) :
                           inbox'[s][i] = "done" => sjob'[s] \in report'
                    /\ spc'[s] = "idle" => inbox'[s] = <<>> /\ sent'[s] = "absent"
  BY DEF InboxHasReport
<1>1. CASE Subscribed(s, j)
  <2>1. inbox'[s] = Append(inbox[s], e) /\ inbox[s] \in Seq(Events)
    BY <1>1 DEF Publish, TypeOK, StoreTypeOK
  <2>2. /\ Len(inbox'[s]) = Len(inbox[s]) + 1
        /\ \A i \in 1..Len(inbox[s]) : inbox'[s][i] = inbox[s][i]
        /\ inbox'[s][Len(inbox[s]) + 1] = e
    BY <2>1, AppendProperties
  <2>3. sjob[s] = j /\ spc[s] # "idle"
    BY <1>1 DEF Subscribed
  <2>4. Len(inbox[s]) \in Nat
    BY <2>1, LenProperties
  <2>5. QED
    BY <2>2, <2>3, <2>4 DEF InboxHasReport
<1>2. CASE ~Subscribed(s, j)
  BY <1>2 DEF Publish, InboxHasReport
<1>3. QED
  BY <1>1, <1>2

(* The event of a "failed" or a stage promises no report.                  *)
LEMMA PublishersKeepInbox ==
    ASSUME TypeOK, TargetHasReport, InboxHasReport, [Next]_vars,
           \/ \E j \in Jobs : PublishStage(j) \/ PublishTerminal(j)
           \/ \E c \in Cancels : CancelPublish(c)
    PROVE  InboxHasReport' /\ UNCHANGED <<sent, sjob>>
<1> USE DEF TypeOK, StoreTypeOK, Events
<1>1. ASSUME NEW j \in Jobs, PublishStage(j) \/ PublishTerminal(j)
      PROVE  InboxHasReport' /\ UNCHANGED <<sent, sjob>>
  <2>1. Publish(j, target[j]) /\ UNCHANGED <<spc, sjob, sent>>
    BY <1>1 DEF PublishStage, PublishTerminal
  <2>2. target[j] \in Events /\ (target[j] = "done" => j \in report)
    BY DEF TargetHasReport
  <2>3. QED
    BY <2>1, <2>2, PublishKeepsInbox, ReportsGrow
<1>2. ASSUME NEW c \in Cancels, CancelPublish(c)
      PROVE  InboxHasReport' /\ UNCHANGED <<sent, sjob>>
  <2>1. Publish(current[c], "failed") /\ UNCHANGED <<spc, sjob, sent>>
    BY <1>2 DEF CancelPublish
  <2>2. current[c] \in Jobs /\ "failed" \in Events /\ "failed" # "done"
    BY DEF Terminal
  <2>3. QED
    BY <2>1, <2>2, PublishKeepsInbox, ReportsGrow
<1>3. QED
  BY <1>1, <1>2

(* The other steps that touch a stream are its own, and a crash.           *)
LEMMA StreamsUntouched ==
    ASSUME [Next]_vars,
           ~ \E j \in Jobs : PublishStage(j) \/ PublishTerminal(j),
           ~ \E c \in Cancels : CancelPublish(c),
           ~ \E s \in Streams : StreamRequestStep(s),
           ~ Crash
    PROVE  UNCHANGED streamVars
<1>1. ASSUME NEW j \in Jobs, JobStep(j) \/ Evict(j) PROVE UNCHANGED streamVars
  BY <1>1 DEF JobStep, CreateStep, TaskStep, Create, Expire, Enqueue,
     StartTask, WriteStatus, CallOk, CallFail, ArchiveReturn, Timeout,
     RedisError, Evict
<1>2. ASSUME NEW c \in Cancels, CancelRequestStep(c) PROVE UNCHANGED streamVars
  BY <1>2 DEF CancelRequestStep, CancelStep, CancelRead, CancelTask,
     CancelReread, CancelWrite, CancelReturn, CancelError, CancelActive,
     CancelOne
<1>3. CASE EnvStep \/ UNCHANGED vars
  BY <1>3 DEF EnvStep, ServeRequest, LoseRequest, ClearQueue, vars, streamVars
<1>4. QED
  BY <1>1, <1>2, <1>3, StepCases

LEMMA StreamInvStep ==
    ASSUME TypeOK, ReportInv, [Next]_vars
    PROVE  StreamDoneHasReport' /\ InboxHasReport'
<1> USE DEF TypeOK, StoreTypeOK, storeVars, reportsVars
<1> DEFINE Inv == StreamDoneHasReport /\ InboxHasReport
<1>0. Inv
  BY DEF ReportInv
<1>1. CASE \/ \E j \in Jobs : PublishStage(j) \/ PublishTerminal(j)
           \/ \E c \in Cancels : CancelPublish(c)
  <2>1. InboxHasReport' /\ UNCHANGED <<sent, sjob>>
    BY <1>1, PublishersKeepInbox DEF ReportInv
  <2>2. QED
    BY <1>0, <2>1, ReportsGrow DEF StreamDoneHasReport
<1>2. ASSUME NEW s \in Streams, NEW j \in Jobs, OpenStream(s, j) PROVE Inv'
  BY <1>0, <1>2 DEF OpenStream, StreamDoneHasReport, InboxHasReport
<1>3. ASSUME NEW s \in Streams, Subscribe(s) PROVE Inv'
  BY <1>0, <1>3 DEF Subscribe, StreamDoneHasReport, InboxHasReport
<1>4. ASSUME NEW s \in Streams, Replay(s) PROVE Inv'
  <2>1. sent'[s] = "done" => sjob[s] \in report
    BY <1>0, <1>4 DEF Replay, StreamDoneHasReport, ReportInv, DoneHasReport
  <2>2. inbox'[s] \in {inbox[s], <<>>} /\ spc'[s] # "idle"
    BY <1>4 DEF Replay, Close
  <2>3. \A i \in 1..Len(inbox'[s]) : inbox'[s][i] = "done" => sjob[s] \in report
    BY <1>0, <2>2 DEF InboxHasReport
  <2>4. \A r \in Streams \ {s} : /\ inbox'[r] = inbox[r] /\ spc'[r] = spc[r]
                                 /\ sent'[r] = sent[r]
    BY <1>4 DEF Replay, Close
  <2>5. sjob' = sjob /\ report' = report
    BY <1>4 DEF Replay
  <2>6. QED
    BY <1>0, <2>1, <2>2, <2>3, <2>4, <2>5 DEF StreamDoneHasReport, InboxHasReport
<1>5. ASSUME NEW s \in Streams, Forward(s) PROVE Inv'
  <2>1. /\ inbox[s] \in Seq(Events) /\ Len(inbox[s]) \in Nat \ {0}
        /\ Head(inbox[s]) = inbox[s][1]
        /\ Len(Tail(inbox[s])) = Len(inbox[s]) - 1
        /\ \A i \in 1..Len(Tail(inbox[s])) : Tail(inbox[s])[i] = inbox[s][i + 1]
    BY <1>5, HeadTailProperties, LenProperties, EmptySeq DEF Forward
  <2>2. sent'[s] = "done" => sjob[s] \in report
    BY <1>0, <1>5, <2>1 DEF Forward, InboxHasReport
  <2>3. inbox'[s] \in {Tail(inbox[s]), <<>>} /\ spc'[s] # "idle"
    BY <1>5 DEF Forward, Close
  <2>4. \A i \in 1..Len(inbox'[s]) : inbox'[s][i] = "done" => sjob[s] \in report
    <3>1. CASE inbox'[s] = <<>>
      BY <3>1
    <3>2. CASE inbox'[s] = Tail(inbox[s])
      <4>1. ASSUME NEW i \in 1..Len(inbox'[s])
            PROVE  i + 1 \in 1..Len(inbox[s]) /\ inbox'[s][i] = inbox[s][i + 1]
        BY <2>1, <3>2
      <4>2. QED
        BY <1>0, <4>1 DEF InboxHasReport
    <3>3. QED
      BY <2>3, <3>1, <3>2
  <2>5. \A r \in Streams \ {s} : /\ inbox'[r] = inbox[r] /\ spc'[r] = spc[r]
                                 /\ sent'[r] = sent[r]
    BY <1>5 DEF Forward, Close
  <2>6. sjob' = sjob /\ report' = report
    BY <1>5 DEF Forward
  <2>7. QED
    BY <1>0, <2>2, <2>3, <2>4, <2>5, <2>6 DEF StreamDoneHasReport, InboxHasReport
<1>6. ASSUME NEW s \in Streams, Disconnect(s) PROVE Inv'
  BY <1>0, <1>6 DEF Disconnect, Close, StreamDoneHasReport, InboxHasReport
<1>7. CASE Crash
  BY <1>0, <1>7 DEF Crash, StreamDoneHasReport, InboxHasReport
<1>8. CASE UNCHANGED streamVars
  BY <1>0, <1>8, ReportsGrow DEF streamVars, StreamDoneHasReport, InboxHasReport
<1>9. QED
  BY <1>1, <1>2, <1>3, <1>4, <1>5, <1>6, <1>7, <1>8, StreamsUntouched
  DEF StreamRequestStep, StreamStep

LEMMA InitReportInv == Init => ReportInv
BY AnyJobIsJob
DEF Init, StoreInit, Reports!ReportsInit, ReportInv, DoneHasReport,
    TargetHasReport, SnapshotSound, StreamDoneHasReport, InboxHasReport

LEMMA ReportInvariant == Spec => []ReportInv
<1>1. TypeOK /\ CallInv /\ ReportInv /\ [Next]_vars => ReportInv'
  BY DoneHasReportStep, SnapshotSoundStep, StreamInvStep DEF ReportInv
<1>2. QED
  BY <1>1, InitReportInv, TypeCorrect, PTL DEF Spec

(* Whatever fails, is cancelled, times out, is lost or restarts: a job is  *)
(* done, or names an incident, only with a stored report.                  *)
THEOREM DoneIsBacked == Spec => []DoneHasReport
<1>1. ReportInv => DoneHasReport
  BY DEF ReportInv
<1>2. QED
  BY <1>1, ReportInvariant, PTL

(* No client is ever sent a "done" whose report it cannot fetch.           *)
THEOREM StreamDoneIsBacked == Spec => []StreamDoneHasReport
<1>1. ReportInv => StreamDoneHasReport
  BY DEF ReportInv
<1>2. QED
  BY <1>1, ReportInvariant, PTL

(* The SQLite snapshot of a job never claims an incident it is not linked  *)
(* to, and links only to stored incidents.                                 *)
THEOREM SnapshotIsSound == Spec => []SnapshotSound
<1>1. ReportInv => SnapshotSound
  BY DEF ReportInv
<1>2. QED
  BY <1>1, ReportInvariant, PTL

-----------------------------------------------------------------------------
(* A done job is not analysed again.                                       *)

(* The strengthening: the pipeline of a done job has a terminal target, so *)
(* what it may still write is "done" or "failed".                          *)
DoneInv ==
    \A j \in Jobs : status[j] = "done" => pc[j] # "new" /\ target[j] \in Terminal

LEMMA NeverNewAgain ==
    ASSUME TypeOK, [Next]_vars, NEW j \in Jobs, pc[j] # "new"
    PROVE  pc'[j] # "new"
<1> USE DEF TypeOK, Goto
<1>1. CASE ~ \E i \in Jobs : JobStep(i)
  BY <1>1, OthersEndTask
<1>2. ASSUME NEW i \in Jobs, JobStep(i) PROVE pc'[j] # "new"
  BY <1>2 DEF JobStep, CreateStep, TaskStep, Create, Expire, Enqueue,
     StartTask, WriteStatus, PublishStage, PublishTerminal, CallOk, CallFail,
     ArchiveReturn, Timeout, RedisError, EnterFail
<1>3. QED
  BY <1>1, <1>2

LEMMA OnlyCreateStarts ==
    ASSUME TypeOK, [Next]_vars, NEW j \in Jobs, pc[j] = "new", pc'[j] # "new"
    PROVE  Create(j)
<1> USE DEF TypeOK, Goto
<1>1. PICK i \in Jobs : JobStep(i)
  BY OthersEndTask
<1>2. CASE Create(i)
  BY <1>2 DEF Create
<1>3. CASE CreateStep(i) \/ TaskStep(i)
  BY <1>3 DEF CreateStep, TaskStep, Expire, Enqueue, StartTask, WriteStatus,
     PublishStage, PublishTerminal, CallOk, CallFail, ArchiveReturn, EnterFail
<1>4. CASE Timeout(i) \/ RedisError(i)
  BY <1>4 DEF Timeout, RedisError, EnterFail, TaskLive, Running
<1>5. QED
  BY <1>1, <1>2, <1>3, <1>4 DEF JobStep

(* What a status write does to one job.                                    *)
LEMMA StatusChange ==
    ASSUME TypeOK, [Next]_vars, NEW j \in Jobs, status'[j] # status[j]
    PROVE  \/ pc[j] = "new" /\ status'[j] = "queued" /\ pc'[j] = "expire"
           \/ /\ pc[j] = "hset" /\ pc'[j] = "publish"
              /\ status'[j] = target[j] /\ target' = target
           \/ Evict(j) /\ status'[j] = "absent"
           \/ \E c \in Cancels : /\ CancelWrite(c) /\ current[c] = j
                                 /\ status'[j] = "failed"
<1> USE DEF TypeOK, StoreTypeOK, Goto
<1>1. ASSUME NEW i \in Jobs, Create(i)
      PROVE  i = j /\ pc[j] = "new" /\ status'[j] = "queued" /\ pc'[j] = "expire"
  BY <1>1 DEF Create, HsetCreate
<1>2. ASSUME NEW i \in Jobs, WriteStatus(i)
      PROVE  /\ pc[j] = "hset" /\ pc'[j] = "publish"
             /\ status'[j] = target[j] /\ target' = target
  BY <1>2 DEF WriteStatus, HsetStatus
<1>3. ASSUME NEW i \in Jobs, Evict(i) PROVE Evict(j) /\ status'[j] = "absent"
  BY <1>3 DEF Evict, RemoveKey
<1>4. ASSUME NEW c \in Cancels, CancelWrite(c)
      PROVE  current[c] = j /\ status'[j] = "failed"
  BY <1>4 DEF CancelWrite, HsetStatus
<1>5. QED
  BY <1>1, <1>2, <1>3, <1>4, StatusWriters

LEMMA DoneInvStep ==
    ASSUME TypeOK, CallInv, DoneInv, [Next]_vars
    PROVE  DoneInv'
<1> SUFFICES ASSUME NEW j \in Jobs, status'[j] = "done"
             PROVE  pc'[j] # "new" /\ target'[j] \in Terminal
  BY DEF DoneInv
<1> USE DEF Terminal
<1>1. CASE status[j] = "done"
  <2>1. pc[j] # "new" /\ target[j] \in Terminal
    BY <1>1 DEF DoneInv
  <2>2. target'[j] \in Terminal
    BY <2>1, TargetChange DEF Stages
  <2>3. QED
    BY <2>1, <2>2, NeverNewAgain
<1>2. CASE status[j] # "done"
  BY <1>2, StatusChange
<1>3. QED
  BY <1>1, <1>2

LEMMA DoneInvariant == Spec => []DoneInv
<1>1. Init => DoneInv
  BY DEF Init, StoreInit, DoneInv
<1>2. TypeOK /\ CallInv /\ DoneInv /\ [Next]_vars => DoneInv'
  BY DoneInvStep
<1>3. QED
  BY <1>1, <1>2, TypeCorrect, PTL DEF Spec

(* Once done, a job's status only becomes failed, or its key is dropped:   *)
(* no cancel, timeout, error or restart sends it through the pipeline      *)
(* again.                                                                  *)
THEOREM DoneIsFinal == Spec => DoneNeverReopens
<1>1. ASSUME TypeOK, DoneInv, [Next]_vars, NEW j \in Jobs, status[j] = "done"
      PROVE  status'[j] \in {"done", "failed", "absent"}
  BY <1>1, StatusChange DEF DoneInv, Terminal
<1>2. TypeOK /\ DoneInv /\ [Next]_vars
          => [\A j \in Jobs : status[j] = "done"
                  => status'[j] \in {"done", "failed", "absent"}]_vars
  BY <1>1
<1>3. QED
  BY <1>2, TypeCorrect, DoneInvariant, PTL DEF Spec, DoneNeverReopens

-----------------------------------------------------------------------------
(* While Redis drops no key, the service implements JobSpec.               *)

LEMMA CancelFrame ==
    ASSUME [Next]_vars, NEW c \in Cancels, TypeOK
    PROVE  \/ cpc'[c] = cpc[c] /\ current'[c] = current[c]
           \/ CancelRequestStep(c)
           \/ Crash
<1> USE DEF TypeOK, cancelVars
<1>1. ASSUME NEW d \in Cancels, CancelRequestStep(d), d # c
      PROVE  cpc'[c] = cpc[c] /\ current'[c] = current[c]
  BY <1>1 DEF CancelRequestStep, CancelStep, CancelRead, CancelTask,
     CancelReread, CancelWrite, CancelPublish, CancelReturn, CancelError,
     CancelActive, CancelOne, CancelDone, GotoC
<1>2. ASSUME NEW j \in Jobs, JobStep(j) \/ Evict(j)
      PROVE  UNCHANGED <<cpc, current>>
  BY <1>2 DEF JobStep, CreateStep, TaskStep, Create, Expire, Enqueue,
     StartTask, WriteStatus, PublishStage, PublishTerminal, CallOk, CallFail,
     ArchiveReturn, Timeout, RedisError, Evict
<1>3. ASSUME NEW s \in Streams, StreamRequestStep(s)
      PROVE  UNCHANGED <<cpc, current>>
  BY <1>3 DEF StreamRequestStep, StreamStep, Subscribe, Replay, Forward,
     Disconnect, OpenStream
<1>4. CASE (EnvStep /\ ~Crash) \/ UNCHANGED vars
  BY <1>4 DEF EnvStep, ServeRequest, LoseRequest, ClearQueue, vars
<1>5. QED
  BY <1>1, <1>2, <1>3, <1>4, StepCases

(* A created job has a readable hash, and a cancel handler at work has     *)
(* found one.                                                              *)
KeptInv ==
    /\ \A j \in Jobs : IF pc[j] = "new" THEN status[j] = "absent"
                                        ELSE Readable(j)
    /\ \A c \in Cancels : cpc[c] \in {"act", "reread", "hset"} => Stored(current[c])

LEMMA KeptStep ==
    ASSUME TypeOK, CallInv, KeptInv, [Next]_vars, "evict" \notin Faults
    PROVE  KeptInv'
<1> USE DEF TypeOK, StoreTypeOK
<1>1. ASSUME NEW j \in Jobs PROVE ~Evict(j)
  BY DEF Evict
<1>2. ASSUME NEW j \in Jobs, NEW c \in Cancels, CancelWrite(c), current[c] = j
      PROVE  pc[j] # "new"
  BY <1>2 DEF CancelWrite, KeptInv, Stored
<1>3. ASSUME NEW j \in Jobs, pc'[j] = "new" PROVE status'[j] = "absent"
  <2>1. pc[j] = "new" /\ status[j] = "absent"
    BY <1>3, NeverNewAgain DEF KeptInv
  <2>2. QED
    BY <1>1, <1>2, <1>3, <2>1, StatusChange
<1>4. ASSUME NEW j \in Jobs, Stored(j) PROVE Stored(j)'
  <2>1. target[j] # "absent"
    BY DEF Events, Stages, Terminal
  <2>2. QED
    BY <1>1, <1>4, <2>1, StatusChange DEF Stored
<1>5. ASSUME NEW j \in Jobs, "job_id" \in fields[j] PROVE "job_id" \in fields'[j]
  <2>1. ASSUME NEW i \in Jobs, Create(i) PROVE "job_id" \in fields'[j]
    BY <1>5, <2>1 DEF Create, HsetCreate
  <2>2. ASSUME NEW i \in Jobs, NEW st, HsetStatus(i, st)
        PROVE  "job_id" \in fields'[j]
    BY <1>5, <2>2 DEF HsetStatus
  <2>3. QED
    BY <1>1, <1>5, <2>1, <2>2, StatusWriters DEF WriteStatus, CancelWrite
<1>6. ASSUME NEW j \in Jobs, pc'[j] # "new" PROVE Readable(j)'
  <2>1. CASE pc[j] # "new"
    BY <1>4, <1>5, <2>1 DEF KeptInv, Readable, Stored
  <2>2. CASE pc[j] = "new"
    BY <1>6, <2>2, OnlyCreateStarts DEF Create, HsetCreate, Readable, Stored
  <2>3. QED
    BY <2>1, <2>2
<1>7. ASSUME NEW c \in Cancels, cpc'[c] \in {"act", "reread", "hset"}
      PROVE  Stored(current[c])' /\ current'[c] \in Jobs
  <2>1. current'[c] \in Jobs
    BY TypeOKStep
  <2>2. CASE cpc'[c] = cpc[c] /\ current'[c] = current[c]
    BY <1>4, <1>7, <2>1, <2>2 DEF KeptInv, Stored
  <2>3. CASE Crash
    BY <1>7, <2>3 DEF Crash
  <2>4. CASE CancelRead(c)
    <3>1. Readable(current'[c])
      BY <1>7, <2>4 DEF CancelRead, GotoC
    <3>2. QED
      BY <1>4, <2>1, <3>1 DEF Readable, Stored
  <2>5. CASE CancelTask(c) \/ CancelReread(c)
    <3>1. current'[c] = current[c] /\ cpc[c] \in {"act", "reread"}
      BY <2>5 DEF CancelTask, CancelReread
    <3>2. QED
      BY <1>4, <2>1, <3>1 DEF KeptInv, Stored
  <2>6. CASE CancelRequestStep(c) /\ ~CancelRead(c) /\ ~CancelTask(c)
             /\ ~CancelReread(c)
    BY <1>7, <2>6 DEF CancelRequestStep, CancelStep, CancelWrite,
       CancelPublish, CancelDone, CancelReturn, CancelError, CancelActive,
       CancelOne, GotoC
  <2>7. QED
    BY <2>2, <2>3, <2>4, <2>5, <2>6, CancelFrame
<1>8. QED
  BY <1>3, <1>6, <1>7 DEF KeptInv

LEMMA Kept == ASSUME "evict" \notin Faults PROVE Spec => []KeptInv
<1>1. Init => KeptInv
  BY DEF Init, StoreInit, KeptInv
<1>2. TypeOK /\ CallInv /\ KeptInv /\ [Next]_vars => KeptInv'
  BY KeptStep
<1>3. QED
  BY <1>1, <1>2, TypeCorrect, PTL DEF Spec

(* Without cancelling, a job that failed is not on its way to a stage.     *)
FailedInv ==
    Cancels = {} =>
        \A j \in Jobs : status[j] = "failed" => pc[j] # "new" /\ target[j] = "failed"

LEMMA FailedInvStep ==
    ASSUME TypeOK, CallInv, FailedInv, [Next]_vars
    PROVE  FailedInv'
<1> SUFFICES ASSUME Cancels = {}, NEW j \in Jobs, status'[j] = "failed"
             PROVE  pc'[j] # "new" /\ target'[j] = "failed"
  BY DEF FailedInv
<1>1. CASE status[j] = "failed"
  <2>1. pc[j] # "new" /\ target[j] = "failed"
    BY <1>1 DEF FailedInv
  <2>2. QED
    BY <2>1, TargetChange, NeverNewAgain DEF Stages
<1>2. CASE status[j] # "failed"
  BY <1>2, StatusChange
<1>3. QED
  BY <1>1, <1>2

LEMMA FailedInvariant == Spec => []FailedInv
<1>1. Init => FailedInv
  BY DEF Init, StoreInit, FailedInv
<1>2. TypeOK /\ CallInv /\ FailedInv /\ [Next]_vars => FailedInv'
  BY FailedInvStep
<1>3. QED
  BY <1>1, <1>2, TypeCorrect, PTL DEF Spec

(* How a step changes the abstract state: at one job, or not at all.       *)
AbstractState == [j \in Jobs |-> JobState(j)]

LEMMA PromiseStep ==
    ASSUME TypeOK, CallInv, ReportInv, DoneInv, KeptInv, FailedInv,
           [Next]_vars, "evict" \notin Faults
    PROVE  [Promise!Next]_<<AbstractState, report>>
<1> USE DEF TypeOK, StoreTypeOK
<1>1. ASSUME UNCHANGED status
      PROVE  UNCHANGED AbstractState
  BY <1>1 DEF AbstractState, JobState
<1> DEFINE Becomes(j, st) == /\ AbstractState' = [AbstractState EXCEPT ![j] = st]
                             /\ report' = report
<1>a. ASSUME NEW j \in Jobs, NEW st, Becomes(j, st), AbstractState[j] = st
      PROVE  UNCHANGED AbstractState
  BY <1>a DEF AbstractState
<1>b. ASSUME NEW j \in Jobs, Becomes(j, "failed"),
             AbstractState[j] \in {"open", "done"}
      PROVE  Promise!Fail(j)
  BY <1>b DEF Promise!Fail, AbstractState
<1>c. ASSUME NEW j \in Jobs, Becomes(j, "done"), j \in report,
             \/ AbstractState[j] = "open"
             \/ AbstractState[j] = "failed" /\ Cancels # {}
      PROVE  Promise!Finish(j)
  BY <1>c DEF Promise!Finish, AbstractState
<1>d. ASSUME NEW j \in Jobs, Becomes(j, "open"), AbstractState[j] = "failed",
             Cancels # {}
      PROVE  Promise!Reopen(j)
  BY <1>d DEF Promise!Reopen, AbstractState
<1>2. CASE \E m \in wire : ServeRequest(m)
  <2>1. PICK m \in wire : ServeRequest(m)
    BY <1>2
  <2>2. UNCHANGED status /\ m.job \in Jobs
    BY <2>1 DEF ServeRequest, storeVars, Reports!ReportsTypeOK, Reports!Requests
  <2>3. report' = report \/ report' = report \cup {m.job}
    BY <2>1 DEF ServeRequest, Reports!Serve, Reports!UpsertJob, Reports!SaveReport
  <2>4. CASE report' = report
    BY <1>1, <2>2, <2>4
  <2>5. CASE report' = report \cup {m.job}
    <3>1. Promise!Save(m.job)
      BY <1>1, <2>2, <2>5 DEF Promise!Save, AbstractState
    <3>2. QED
      BY <2>2, <3>1 DEF Promise!Next
  <2>6. QED
    BY <2>3, <2>4, <2>5
<1>3. CASE ~ \E m \in wire : ServeRequest(m)
  <2>1. report' = report
    BY <1>3, OnlyServeWritesReports
  <2>2. CASE UNCHANGED status
    BY <1>1, <2>1, <2>2
  <2>3. ASSUME NEW j \in Jobs, NEW st \in Statuses,
               status' = [status EXCEPT ![j] = st]
        PROVE  AbstractState' =
                 [AbstractState EXCEPT ![j] = JobState(j)']
    BY <2>3 DEF AbstractState, JobState
  <2>4. ASSUME NEW j \in Jobs, Create(j) PROVE Promise!Submit(j)
    <3>1. status[j] = "absent" /\ status' = [status EXCEPT ![j] = "queued"]
      BY <2>4 DEF Create, HsetCreate, KeptInv
    <3>2. JobState(j) = "absent" /\ JobState(j)' = "open"
      BY <3>1 DEF JobState, Terminal
    <3>3. QED
      BY <2>1, <2>3, <3>1, <3>2
      DEF Promise!Submit, AbstractState, Statuses
  <2>5. ASSUME NEW j \in Jobs, WriteStatus(j)
        PROVE  Promise!Next \/ UNCHANGED AbstractState
    <3>1. /\ status' = [status EXCEPT ![j] = target[j]]
          /\ status[j] # "absent"
          /\ target[j] \in Events
      BY <2>5 DEF WriteStatus, HsetStatus, KeptInv, Readable, Stored
    <3>2. AbstractState' = [AbstractState EXCEPT ![j] = JobState(j)']
      BY <2>3, <3>1 DEF Statuses
    <3>3. JobState(j)' = IF target[j] \in Terminal THEN target[j] ELSE "open"
      BY <3>1 DEF JobState, Events, Stages, Terminal
    <3>4. AbstractState[j] = IF status[j] \in Terminal THEN status[j] ELSE "open"
      BY <3>1 DEF AbstractState, JobState, Terminal
    <3>5. CASE target[j] = "failed"
      <4>1. Promise!Fail(j) \/ UNCHANGED AbstractState
        BY <1>a, <1>b, <2>1, <3>2, <3>3, <3>4, <3>5 DEF Terminal
      <4>2. QED
        BY <4>1 DEF Promise!Next
    <3>6. CASE target[j] = "done"
      <4>1. j \in report
        BY <3>6 DEF ReportInv, TargetHasReport
      <4>2. status[j] = "failed" => Cancels # {}
        BY <3>6 DEF FailedInv
      <4>3. Promise!Finish(j) \/ UNCHANGED AbstractState
        BY <1>a, <1>c, <2>1, <3>2, <3>3, <3>4, <3>6, <4>1, <4>2 DEF Terminal
      <4>4. QED
        BY <4>3 DEF Promise!Next
    <3>7. CASE target[j] \in Stages
      <4>1. status[j] # "done"
        BY <3>7 DEF DoneInv, Stages, Terminal
      <4>2. status[j] = "failed" => Cancels # {}
        BY <3>7 DEF FailedInv, Stages
      <4>3. target[j] \notin Terminal
        BY <3>7 DEF Stages, Terminal
      <4>4. Promise!Reopen(j) \/ UNCHANGED AbstractState
        BY <1>a, <1>d, <2>1, <3>2, <3>3, <3>4, <4>1, <4>2, <4>3 DEF Terminal
      <4>5. QED
        BY <4>4 DEF Promise!Next
    <3>8. QED
      BY <3>1, <3>5, <3>6, <3>7 DEF Events, Terminal
  <2>6. ASSUME NEW c \in Cancels, CancelWrite(c)
        PROVE  Promise!Next \/ UNCHANGED AbstractState
    <3> PICK j \in Jobs : j = current[c]
      OBVIOUS
    <3>1. /\ status' = [status EXCEPT ![j] = "failed"]
          /\ status[j] # "absent"
      BY <2>6 DEF CancelWrite, HsetStatus, KeptInv, Stored
    <3>2. AbstractState' = [AbstractState EXCEPT ![j] = "failed"]
      <4>1. AbstractState' = [AbstractState EXCEPT ![j] = JobState(j)']
        BY <2>3, <3>1 DEF Statuses, Events, Terminal
      <4>2. status'[j] = "failed"
        BY <3>1
      <4>3. QED
        BY <4>1, <4>2 DEF JobState, Terminal
    <3>3. AbstractState[j] = IF status[j] \in Terminal THEN status[j] ELSE "open"
      BY <3>1 DEF AbstractState, JobState, Terminal
    <3>4. Promise!Fail(j) \/ UNCHANGED AbstractState
      BY <1>a, <1>b, <2>1, <3>1, <3>2, <3>3 DEF Terminal
    <3>5. QED
      BY <3>1, <3>4 DEF Promise!Next
  <2>7. ASSUME NEW j \in Jobs PROVE ~Evict(j)
    BY DEF Evict
  <2>8. QED
    BY <2>1, <2>2, <2>4, <2>5, <2>6, <2>7, StatusWriters DEF Promise!Next
<1>4. QED
  BY <1>2, <1>3

(* The service keeps the promise of JobSpec for every number of jobs,      *)
(* streams and cancel requests, and under every fault but eviction.        *)
THEOREM ImplementsPromise ==
    ASSUME "evict" \notin Faults PROVE Spec => PromiseKept
<1>1. Init => Promise!Init
  BY DEF Init, StoreInit, Reports!ReportsInit, Promise!Init, JobState
<1>2. TypeOK /\ CallInv /\ ReportInv /\ DoneInv /\ KeptInv /\ FailedInv
        /\ [Next]_vars => [Promise!Next]_(Promise!vars)
  BY PromiseStep DEF Promise!vars, AbstractState
<1>3. QED
  BY <1>1, <1>2, TypeCorrect, ReportInvariant, DoneInvariant, Kept,
     FailedInvariant, PTL
  DEF Spec, PromiseKept, Promise!Spec

-----------------------------------------------------------------------------
(* Without restarts and Redis failures, no job is left to nobody.          *)

Watched(j) ==
    \E c \in Cancels : cpc[c] \in {"reread", "hset"} /\ current[c] = j

(* The strengthening: a task that announces or archives a terminal status  *)
(* has written one before.                                                 *)
OrphanInv ==
    \A j \in Jobs :
        /\ pc[j] = "ended" => status[j] \in Terminal \/ Watched(j)
        /\ pc[j] = "archive" => status[j] \in Terminal
        /\ pc[j] = "publish" /\ target[j] \in Terminal => status[j] \in Terminal

(* A cancel handler that has stopped the task does not rest before the job *)
(* is terminal.                                                            *)
LEMMA WatchedStep ==
    ASSUME TypeOK, CallInv, KeptInv, [Next]_vars, NEW j \in Jobs, Watched(j),
           Faults \cap {"crash", "redis", "evict"} = {}
    PROVE  Watched(j)' \/ status'[j] \in Terminal
<1> USE DEF TypeOK, StoreTypeOK
<1>1. PICK c \in Cancels : cpc[c] \in {"reread", "hset"} /\ current[c] = j
  BY DEF Watched
<1>2. CASE cpc'[c] = cpc[c] /\ current'[c] = current[c]
  BY <1>1, <1>2 DEF Watched
<1>3. CASE CancelReread(c)
  <2>1. Readable(j)
    BY <1>1, <1>3 DEF CancelReread, KeptInv, Readable, Stored
  <2>2. current' = current /\ status' = status
    BY <1>3 DEF CancelReread, storeVars
  <2>3. status[j] \in Terminal \/ cpc'[c] = "hset"
    BY <1>1, <1>3, <2>1 DEF CancelReread, GotoC, Readable
  <2>4. QED
    BY <1>1, <2>2, <2>3 DEF Watched
<1>4. CASE CancelWrite(c)
  BY <1>1, <1>4 DEF CancelWrite, HsetStatus, Terminal
<1>5. CASE CancelRequestStep(c) /\ ~CancelReread(c) /\ ~CancelWrite(c)
  BY <1>1, <1>5 DEF CancelRequestStep, CancelStep, CancelRead, CancelTask,
     CancelPublish, CancelReturn, CancelActive, CancelOne, CancelError
<1>6. ~Crash
  BY DEF Crash
<1>7. QED
  BY <1>2, <1>3, <1>4, <1>5, <1>6, CancelFrame

(* How a task comes to archive its outcome, or to end.                     *)
LEMMA TaskEnds ==
    ASSUME TypeOK, CallInv, [Next]_vars, NEW j \in Jobs, pc'[j] # pc[j],
           Faults \cap {"crash", "redis", "evict"} = {}
    PROVE  /\ pc'[j] = "archive" => pc[j] = "publish" /\ target[j] \in Terminal
           /\ pc'[j] = "publish" => WriteStatus(j)
           /\ pc'[j] = "ended" =>
                 \/ pc[j] = "publish" /\ target[j] \in Terminal
                 \/ pc[j] = "archive"
                 \/ Watched(j)'
<1> USE DEF TypeOK, Goto
<1>1. ASSUME NEW c \in Cancels, CancelTask(c)
      PROVE  pc'[j] = "ended" /\ Watched(j)'
  <2>1. pc'[j] = "ended" /\ current[c] = j
    BY <1>1 DEF CancelTask
  <2>2. cpc'[c] = "reread" /\ current'[c] = j
    BY <1>1, <2>1 DEF CancelTask, GotoC
  <2>3. QED
    BY <2>1, <2>2 DEF Watched
<1>2. ASSUME NEW i \in Jobs, JobStep(i)
      PROVE  /\ pc'[j] = "archive" => pc[j] = "publish" /\ target[j] \in Terminal
             /\ pc'[j] = "publish" => WriteStatus(j)
             /\ pc'[j] = "ended" => \/ pc[j] = "publish" /\ target[j] \in Terminal
                                    \/ pc[j] = "archive"
  <2>1. CASE Create(i) \/ CreateStep(i)
    BY <2>1 DEF Create, CreateStep, Expire, Enqueue, StartTask
  <2>2. CASE WriteStatus(i)
    <3>1. pc' = [pc EXCEPT ![i] = "publish"]
      BY <2>2 DEF WriteStatus
    <3>2. i = j
      BY <3>1
    <3>3. QED
      BY <2>2, <3>1, <3>2
  <2>3. CASE PublishStage(i) \/ PublishTerminal(i)
    BY <2>3 DEF PublishStage, PublishTerminal
  <2>4. CASE CallOk(i) \/ CallFail(i) \/ Timeout(i)
    BY <2>4 DEF CallOk, CallFail, Timeout, EnterFail
  <2>5. CASE ArchiveReturn(i)
    BY <2>5 DEF ArchiveReturn
  <2>6. ~RedisError(i)
    BY DEF RedisError
  <2>7. QED
    BY <1>2, <2>1, <2>2, <2>3, <2>4, <2>5, <2>6 DEF JobStep, TaskStep
<1>3. \/ \E i \in Jobs : JobStep(i)
      \/ \E c \in Cancels : CancelTask(c)
  <2>1. ASSUME NEW i \in Jobs, Evict(i) PROVE UNCHANGED pc
    BY <2>1 DEF Evict, pipelineVars
  <2>2. ASSUME NEW c \in Cancels, CancelRequestStep(c), ~CancelTask(c)
        PROVE  UNCHANGED pc
    BY <2>2 DEF CancelRequestStep, CancelStep, CancelRead, CancelReread,
       CancelWrite, CancelPublish, CancelReturn, CancelError, CancelActive,
       CancelOne, pipelineVars
  <2>3. ASSUME NEW s \in Streams, StreamRequestStep(s) PROVE UNCHANGED pc
    BY <2>3 DEF StreamRequestStep, StreamStep, Subscribe, Replay, Forward,
       Disconnect, OpenStream, pipelineVars
  <2>4. CASE EnvStep \/ UNCHANGED vars
    BY <2>4 DEF EnvStep, ServeRequest, LoseRequest, ClearQueue, Crash, vars,
       pipelineVars
  <2>5. QED
    BY <2>1, <2>2, <2>3, <2>4, StepCases
<1>4. QED
  BY <1>1, <1>2, <1>3

(* A target changes only together with the place of its task.              *)
LEMMA TargetKept ==
    ASSUME TypeOK, [Next]_vars, NEW j \in Jobs, pc[j] = "publish",
           pc'[j] = pc[j]
    PROVE  target'[j] = target[j]
<1> USE DEF TypeOK, Goto
<1>1. CASE ~ \E i \in Jobs : JobStep(i)
  BY <1>1, OthersEndTask
<1>2. ASSUME NEW i \in Jobs, JobStep(i) PROVE target'[j] = target[j]
  BY <1>2 DEF JobStep, CreateStep, TaskStep, Create, Expire, Enqueue,
     StartTask, WriteStatus, PublishStage, PublishTerminal, CallOk, CallFail,
     ArchiveReturn, Timeout, RedisError, EnterFail
<1>3. QED
  BY <1>1, <1>2

LEMMA OrphanStep ==
    ASSUME TypeOK, CallInv, KeptInv, OrphanInv, [Next]_vars,
           Faults \cap {"crash", "redis", "evict"} = {}
    PROVE  OrphanInv'
<1> USE DEF TypeOK, StoreTypeOK
<1> SUFFICES ASSUME NEW j \in Jobs
             PROVE  /\ pc'[j] = "ended" => status'[j] \in Terminal \/ Watched(j)'
                    /\ pc'[j] = "archive" => status'[j] \in Terminal
                    /\ pc'[j] = "publish" /\ target'[j] \in Terminal
                           => status'[j] \in Terminal
  BY DEF OrphanInv
<1>1. ASSUME status[j] \in Terminal,
             pc[j] \in {"ended", "archive"} \/ pc[j] = "publish"
      PROVE  status'[j] \in Terminal
  <2>1. ~Evict(j)
    BY DEF Evict
  <2>2. QED
    BY <1>1, <2>1, StatusChange DEF Terminal
<1>2. CASE pc'[j] = pc[j]
  <2>1. CASE pc[j] = "ended"
    BY <1>1, <1>2, <2>1, WatchedStep DEF OrphanInv
  <2>2. CASE pc[j] = "archive"
    BY <1>1, <1>2, <2>2 DEF OrphanInv
  <2>3. CASE pc[j] = "publish" /\ target'[j] \in Terminal
    <3>1. target[j] \in Terminal
      <4>1. target'[j] = target[j]
        BY <1>2, <2>3, TargetKept
      <4>2. QED
        BY <2>3, <4>1
    <3>2. QED
      BY <1>1, <1>2, <2>3, <3>1 DEF OrphanInv
  <2>4. QED
    BY <1>2, <2>1, <2>2, <2>3
<1>3. CASE pc'[j] # pc[j]
  <2>1. CASE pc'[j] = "ended"
    BY <1>1, <1>3, <2>1, TaskEnds DEF OrphanInv
  <2>2. CASE pc'[j] = "archive"
    BY <1>1, <1>3, <2>2, TaskEnds DEF OrphanInv
  <2>3. CASE pc'[j] = "publish"
    <3>1. WriteStatus(j)
      BY <1>3, <2>3, TaskEnds
    <3>2. status'[j] = target[j] /\ target' = target
      BY <3>1 DEF WriteStatus, HsetStatus
    <3>3. QED
      BY <2>3, <3>2
  <2>4. QED
    BY <2>1, <2>2, <2>3
<1>4. QED
  BY <1>2, <1>3

(* A task that has ended leaves a terminal job behind, or a cancel handler *)
(* that is about to fail it: nobody waits for ever, however cancels,       *)
(* timeouts and lost answers interleave.                                   *)
THEOREM NobodyWaits ==
    ASSUME Faults \cap {"crash", "redis", "evict"} = {}
    PROVE  Spec => []NoOrphan
<1>1. Init => OrphanInv
  BY DEF Init, StoreInit, OrphanInv
<1>2. TypeOK /\ CallInv /\ KeptInv /\ OrphanInv /\ [Next]_vars => OrphanInv'
  BY OrphanStep
<1>3. OrphanInv => NoOrphan
  BY DEF OrphanInv, NoOrphan, Watched
<1>4. "evict" \notin Faults
  OBVIOUS
<1>5. QED
  BY <1>1, <1>2, <1>3, <1>4, TypeCorrect, Kept, PTL DEF Spec

-----------------------------------------------------------------------------
(* Without cancelling, a terminal status stays terminal.                   *)

(* No step of the pipeline, of its timeout, of its error handling or of a  *)
(* restart leaves a terminal status for a stage; with DoneIsFinal, a       *)
(* failed job may only still become done.                                  *)
THEOREM TerminalIsFinal ==
    ASSUME Cancels = {}, "evict" \notin Faults PROVE Spec => TerminalStays
<1>1. ASSUME TypeOK, DoneInv, KeptInv, FailedInv, [Next]_vars,
             NEW j \in Jobs, status[j] \in Terminal
      PROVE  status'[j] \in Terminal
  <2>1. pc[j] # "new" /\ target[j] \in Terminal
    BY <1>1 DEF DoneInv, FailedInv, Terminal
  <2>2. ~Evict(j)
    BY DEF Evict
  <2>3. QED
    BY <1>1, <2>1, <2>2, StatusChange DEF Terminal
<1>2. TypeOK /\ DoneInv /\ KeptInv /\ FailedInv /\ [Next]_vars
          => [\A j \in Jobs : status[j] \in Terminal
                  => status'[j] \in Terminal]_vars
  BY <1>1
<1>3. QED
  BY <1>2, TypeCorrect, DoneInvariant, Kept, FailedInvariant, PTL
  DEF Spec, TerminalStays

-----------------------------------------------------------------------------
(* What a task announces is what it has written.                           *)

LEMMA PublishStarts ==
    ASSUME TypeOK, [Next]_vars, NEW j \in Jobs,
           pc[j] # "publish", pc'[j] = "publish"
    PROVE  WriteStatus(j)
<1> USE DEF TypeOK, Goto
<1>1. PICK i \in Jobs : JobStep(i)
  BY OthersEndTask
<1>2. CASE WriteStatus(i)
  <2>1. i = j
    BY <1>2 DEF WriteStatus
  <2>2. QED
    BY <1>2, <2>1
<1>3. CASE ~WriteStatus(i)
  BY <1>1, <1>3 DEF JobStep, CreateStep, TaskStep, Create, Expire, Enqueue,
     StartTask, PublishStage, PublishTerminal, CallOk, CallFail,
     ArchiveReturn, Timeout, RedisError, EnterFail
<1>4. QED
  BY <1>2, <1>3

Announced == \A j \in Jobs : pc[j] = "publish" => status[j] = target[j]

LEMMA AnnouncedStep ==
    ASSUME TypeOK, Announced, [Next]_vars, Cancels = {}, "evict" \notin Faults
    PROVE  Announced'
<1> SUFFICES ASSUME NEW j \in Jobs, pc'[j] = "publish"
             PROVE  status'[j] = target'[j]
  BY DEF Announced
<1>1. CASE pc[j] = "publish"
  <2>1. ~Evict(j)
    BY DEF Evict
  <2>2. status'[j] = status[j]
    BY <1>1, <2>1, StatusChange
  <2>3. QED
    BY <1>1, <2>2, TargetKept DEF Announced
<1>2. CASE pc[j] # "publish"
  BY <1>2, PublishStarts DEF WriteStatus, HsetStatus, TypeOK, StoreTypeOK
<1>3. QED
  BY <1>1, <1>2

LEMMA AnnouncedInvariant ==
    ASSUME Cancels = {}, "evict" \notin Faults PROVE Spec => []Announced
<1>1. Init => Announced
  BY DEF Init, Announced
<1>2. TypeOK /\ Announced /\ [Next]_vars => Announced'
  BY AnnouncedStep
<1>3. QED
  BY <1>1, <1>2, TypeCorrect, PTL DEF Spec

-----------------------------------------------------------------------------
(* A live stream is up to date with what was announced.                    *)

(* The strengthening says the same of what a stream has still to forward,  *)
(* and of a stream that has subscribed but not yet read the state.         *)
Latest(s) == inbox[s][Len(inbox[s])]
Behind(s) == pc[sjob[s]] \in {"hset", "publish"}

UpToDate(s) ==
    /\ spc[s] \in {"subscribed", "live"} /\ inbox[s] # <<>>
           => Latest(s) = status[sjob[s]] \/ Behind(s)
    /\ spc[s] = "live" /\ inbox[s] = <<>>
           => sent[s] = status[sjob[s]] \/ Behind(s)
    /\ spc[s] \notin {"subscribed", "live"} => inbox[s] = <<>>

StreamInv ==
    \A s \in Streams : /\ spc[s] # "idle" => pc[sjob[s]] # "new"
                       /\ UpToDate(s)

(* A stream is opened for a job that exists.                               *)
LEMMA WatchedIsCreated ==
    ASSUME TypeOK, KeptInv, StreamInv, [Next]_vars,
           NEW s \in Streams, spc'[s] # "idle"
    PROVE  pc'[sjob'[s]] # "new" /\ sjob'[s] \in Jobs
<1> USE DEF TypeOK, StoreTypeOK
<1>1. sjob'[s] \in Jobs /\ pc[sjob'[s]] # "new"
  <2>1. ASSUME NEW r \in Streams, NEW j \in Jobs, OpenStream(r, j)
        PROVE  sjob'[s] \in Jobs /\ pc[sjob'[s]] # "new"
    BY <2>1 DEF OpenStream, StreamInv, KeptInv, Readable, Stored
  <2>2. ASSUME NEW r \in Streams, StreamStep(r) \/ Disconnect(r)
        PROVE  sjob' = sjob /\ spc[s] # "idle"
    BY <2>2 DEF StreamStep, Subscribe, Replay, Forward, Disconnect, Close
  <2>3. ASSUME NEW j \in Jobs, PublishStage(j) \/ PublishTerminal(j)
        PROVE  sjob' = sjob /\ spc[s] # "idle"
    BY <2>3 DEF PublishStage, PublishTerminal
  <2>4. ASSUME NEW c \in Cancels, CancelPublish(c)
        PROVE  sjob' = sjob /\ spc[s] # "idle"
    BY <2>4 DEF CancelPublish
  <2>5. CASE Crash
    BY <2>5 DEF Crash, StreamInv
  <2>6. CASE UNCHANGED streamVars
    BY <2>6 DEF streamVars, StreamInv
  <2>7. QED
    BY <2>1, <2>2, <2>3, <2>4, <2>5, <2>6, StreamsUntouched
    DEF StreamRequestStep, StreamInv
<1>2. QED
  BY <1>1, NeverNewAgain

LEMMA AppendLatest ==
    ASSUME NEW q \in Seq(Events), NEW e \in Events
    PROVE  Append(q, e) # <<>> /\ Append(q, e)[Len(Append(q, e))] = e
BY AppendProperties, LenProperties, EmptySeq

LEMMA TailLatest ==
    ASSUME NEW q \in Seq(Events), q # <<>>
    PROVE  IF Tail(q) = <<>> THEN Head(q) = q[Len(q)]
                             ELSE Tail(q)[Len(Tail(q))] = q[Len(q)]
<1>1. /\ Len(q) \in Nat \ {0} /\ Tail(q) \in Seq(Events)
      /\ Head(q) = q[1] /\ Len(Tail(q)) = Len(q) - 1
      /\ \A i \in 1..Len(Tail(q)) : Tail(q)[i] = q[i + 1]
  BY HeadTailProperties, LenProperties, EmptySeq
<1>2. CASE Tail(q) = <<>>
  <2>1. Len(Tail(q)) = 0
    BY <1>2, EmptySeq
  <2>2. \A n \in Nat : n - 1 = 0 => n = 1
    OBVIOUS
  <2>3. Len(q) - 1 = 0
    BY <1>1, <2>1, Zenon
  <2>4. Len(q) = 1
    BY <1>1, <2>2, <2>3, Zenon
  <2>5. QED
    BY <1>1, <1>2, <2>4, Zenon
<1>3. CASE Tail(q) # <<>>
  <2>1. Len(Tail(q)) \in 1..Len(Tail(q))
    BY <1>1, <1>3, EmptySeq, LenProperties
  <2>2. QED
    BY <1>1, <1>3, <2>1
<1>4. QED
  BY <1>2, <1>3

(* A task that publishes announces its job's status, and has then nothing  *)
(* left to announce.                                                       *)
LEMMA PublishUpToDate ==
    ASSUME TypeOK, StreamInv, NEW j \in Jobs, Publish(j, status[j]),
           status[j] \in Events, UNCHANGED <<status, spc, sjob, sent>>,
           \A i \in Jobs \ {j} : pc'[i] = pc[i],
           NEW s \in Streams
    PROVE  UpToDate(s)'
<1> USE DEF TypeOK, StoreTypeOK
<1>1. CASE Subscribed(s, j)
  <2>1. /\ inbox'[s] = Append(inbox[s], status[j])
        /\ sjob'[s] = j /\ spc'[s] \in {"subscribed", "live"}
    BY <1>1 DEF Publish, Subscribed
  <2>2. inbox'[s] # <<>> /\ inbox'[s][Len(inbox'[s])] = status[j]
    BY <2>1, AppendLatest
  <2>3. QED
    BY <2>1, <2>2 DEF UpToDate, Latest
<1>2. CASE ~Subscribed(s, j) /\ spc[s] \in {"subscribed", "live"}
  <2>1. inbox'[s] = inbox[s] /\ sjob[s] # j
    BY <1>2 DEF Publish, Subscribed
  <2>2. pc'[sjob[s]] = pc[sjob[s]]
    BY <2>1
  <2>3. QED
    BY <2>1, <2>2 DEF UpToDate, Latest, Behind, StreamInv
<1>3. CASE spc[s] \notin {"subscribed", "live"}
  BY <1>3 DEF UpToDate, Publish, Subscribed, StreamInv
<1>4. QED
  BY <1>2, <1>1, <1>3

(* A stream's own steps lose nothing that was published after it           *)
(* subscribed.                                                             *)
LEMMA StreamStepUpToDate ==
    ASSUME TypeOK, StreamInv, KeptInv, NEW r \in Streams, StreamRequestStep(r),
           NEW s \in Streams
    PROVE  UpToDate(s)'
<1> USE DEF TypeOK, StoreTypeOK, storeVars, pipelineVars
<1>1. ASSUME NEW j \in Jobs, OpenStream(r, j) PROVE UpToDate(s)'
  BY <1>1 DEF OpenStream, UpToDate, Latest, Behind, StreamInv
<1>2. CASE r = s /\ Subscribe(s)
  <2>1. inbox'[s] = <<>> /\ spc'[s] = "subscribed"
    BY <1>2 DEF Subscribe, UpToDate, StreamInv
  <2>2. QED
    BY <2>1 DEF UpToDate
<1>3. CASE r # s
  <2>1. UNCHANGED <<pc, status>>
    BY DEF StreamRequestStep, StreamStep, Subscribe, Replay, Forward,
       Disconnect, OpenStream
  <2>2. /\ inbox'[s] = inbox[s] /\ spc'[s] = spc[s]
        /\ sent'[s] = sent[s] /\ sjob'[s] = sjob[s]
    BY <1>3 DEF StreamRequestStep, StreamStep, Subscribe, Replay, Forward,
       Disconnect, OpenStream, Close
  <2>3. QED
    BY <2>1, <2>2 DEF UpToDate, Latest, Behind, StreamInv
<1>4. CASE r = s /\ Replay(s)
  <2>1. CASE Close(s)
    BY <2>1 DEF UpToDate, Close
  <2>2. CASE ~Close(s)
    <3>1. inbox' = inbox /\ sent'[s] = status[sjob[s]] /\ sjob' = sjob
      BY <1>4, <2>2 DEF Replay
    <3>2. /\ spc[s] = "subscribed" /\ spc'[s] = "live"
          /\ UNCHANGED <<pc, status>>
      BY <1>4, <2>2 DEF Replay
    <3>3. UpToDate(s)
      BY DEF StreamInv
    <3>4. QED
      BY <3>1, <3>2, <3>3 DEF UpToDate, Latest, Behind
  <2>3. QED
    BY <2>1, <2>2
<1>5. CASE r = s /\ Forward(s)
  <2>1. CASE Close(s)
    BY <2>1 DEF UpToDate, Close
  <2>2. CASE ~Close(s)
    <3>1. /\ inbox'[s] = Tail(inbox[s]) /\ sent'[s] = Head(inbox[s])
          /\ spc[s] = "live" /\ spc'[s] = "live" /\ inbox[s] # <<>>
          /\ UNCHANGED <<pc, status, sjob>>
      BY <1>5, <2>2 DEF Forward
    <3>2. Latest(s) = status[sjob[s]] \/ Behind(s)
      BY <3>1 DEF StreamInv, UpToDate
    <3>3. IF inbox'[s] = <<>> THEN sent'[s] = Latest(s)
                              ELSE Latest(s)' = Latest(s)
      <4>1. inbox[s] \in Seq(Events)
        OBVIOUS
      <4>2. QED
        BY <3>1, <4>1, TailLatest DEF Latest
    <3>4. QED
      BY <3>1, <3>2, <3>3 DEF UpToDate, Behind
  <2>3. QED
    BY <2>1, <2>2
<1>6. CASE r = s /\ Disconnect(s)
  BY <1>6 DEF Disconnect, Close, UpToDate
<1>7. QED
  BY <1>1, <1>2, <1>3, <1>4, <1>5, <1>6 DEF StreamRequestStep, StreamStep

(* The other steps change no status without an announcement to come, and   *)
(* none that was to come is forgotten.                                     *)
LEMMA TaskKeepsUpToDate ==
    ASSUME TypeOK, KeptInv, StreamInv, [Next]_vars, UNCHANGED streamVars,
           ~ \E j \in Jobs : PublishStage(j) \/ PublishTerminal(j),
           Cancels = {}, "evict" \notin Faults, "redis" \notin Faults, ~Crash,
           NEW s \in Streams
    PROVE  UpToDate(s)'
<1> USE DEF TypeOK, StoreTypeOK
<1> DEFINE j == sjob[s]
<1>1. spc[s] # "idle" => status'[j] = status[j] \/ Behind(s)'
  <2>1. ~Evict(j)
    BY DEF Evict
  <2>2. QED
    BY <2>1, StatusChange DEF StreamInv, Behind, streamVars
<1>2. Behind(s) => Behind(s)'
  <2>1. ASSUME NEW i \in Jobs, JobStep(i), pc[j] \in {"hset", "publish"}
        PROVE  pc'[j] \in {"hset", "publish"}
    <3>1. ~RedisError(i)
      BY DEF RedisError
    <3>2. QED
      BY <2>1, <3>1 DEF JobStep, CreateStep, TaskStep, Create, Expire, Enqueue,
         StartTask, WriteStatus, CallOk, CallFail, ArchiveReturn, Timeout,
         EnterFail, Goto
  <2>2. CASE ~ \E i \in Jobs : JobStep(i)
    <3>1. UNCHANGED pc
      <4>1. ASSUME NEW i \in Jobs, Evict(i) PROVE UNCHANGED pc
        BY <4>1 DEF Evict
      <4>2. ASSUME NEW r \in Streams, StreamRequestStep(r) PROVE UNCHANGED pc
        BY <4>2 DEF StreamRequestStep, StreamStep, Subscribe, Replay, Forward,
           Disconnect, OpenStream, pipelineVars
      <4>3. CASE EnvStep \/ UNCHANGED vars
        BY <4>3 DEF EnvStep, ServeRequest, LoseRequest, ClearQueue, vars,
           pipelineVars
      <4>4. QED
        BY <2>2, <4>1, <4>2, <4>3, StepCases
    <3>2. QED
      BY <3>1 DEF Behind, streamVars
  <2>3. QED
    BY <2>1, <2>2 DEF Behind, streamVars
<1>3. QED
  BY <1>1, <1>2 DEF UpToDate, Latest, StreamInv, streamVars

LEMMA StreamsStayUpToDate ==
    ASSUME TypeOK, KeptInv, Announced, StreamInv, [Next]_vars, Cancels = {},
           "evict" \notin Faults, "redis" \notin Faults
    PROVE  StreamInv'
<1> SUFFICES ASSUME NEW s \in Streams PROVE UpToDate(s)'
  BY WatchedIsCreated DEF StreamInv
<1>1. ASSUME NEW j \in Jobs, PublishStage(j) \/ PublishTerminal(j)
      PROVE  UpToDate(s)'
  <2>1. /\ Publish(j, status[j]) /\ status[j] \in Events
        /\ UNCHANGED <<status, spc, sjob, sent>>
    BY <1>1 DEF PublishStage, PublishTerminal, Announced, Events, storeVars
  <2>2. \A i \in Jobs \ {j} : pc'[i] = pc[i]
    BY <1>1 DEF PublishStage, PublishTerminal, Goto, TypeOK
  <2>3. QED
    BY <2>1, <2>2, PublishUpToDate
<1>2. ASSUME NEW r \in Streams, StreamRequestStep(r) PROVE UpToDate(s)'
  BY <1>2, StreamStepUpToDate
<1>3. CASE Crash
  BY <1>3 DEF Crash, UpToDate, TypeOK, StoreTypeOK
<1>4. CASE /\ ~ \E j \in Jobs : PublishStage(j) \/ PublishTerminal(j)
           /\ ~ \E r \in Streams : StreamRequestStep(r)
           /\ ~Crash
  BY <1>4, StreamsUntouched, TaskKeepsUpToDate
<1>5. QED
  BY <1>1, <1>2, <1>3, <1>4

(* Subscribing before reading the state loses no event: a live stream that *)
(* has forwarded what it received shows the job's status, unless the task  *)
(* is about to announce another; also across restarts, timeouts and lost   *)
(* requests.                                                               *)
THEOREM StreamsAreCurrent ==
    ASSUME Cancels = {}, "evict" \notin Faults, "redis" \notin Faults
    PROVE  Spec => []StreamCurrent
<1>1. Init => StreamInv
  BY DEF Init, StoreInit, StreamInv, UpToDate
<1>2. TypeOK /\ KeptInv /\ Announced /\ StreamInv /\ [Next]_vars => StreamInv'
  BY StreamsStayUpToDate
<1>3. StreamInv => StreamCurrent
  BY DEF StreamInv, UpToDate, StreamCurrent, Behind
<1>4. QED
  BY <1>1, <1>2, <1>3, TypeCorrect, Kept, AnnouncedInvariant, PTL DEF Spec

-----------------------------------------------------------------------------
(* Without a restart, a lost or a late request, SQLite agrees.             *)

(* What is on the wire about a job.                                        *)
OnWire(j) == {k \in Reports!SnapshotKinds \cup {"report"} :
                 Reports!Request(j, k) \in wire}

LEMMA SendOnWire ==
    ASSUME NEW i \in Jobs, NEW k \in Reports!SnapshotKinds \cup {"report"},
           Reports!Send(i, k), NEW j \in Jobs
    PROVE  OnWire(j)' = IF i = j THEN OnWire(j) \cup {k} ELSE OnWire(j)
BY DEF Reports!Send, OnWire, Reports!Request

LEMMA ServeOnWire ==
    ASSUME TypeOK, NEW m \in wire, wire' = wire \ {m}, NEW j \in Jobs
    PROVE  OnWire(j)' = IF m.job = j THEN OnWire(j) \ {m.kind} ELSE OnWire(j)
BY DEF TypeOK, Reports!ReportsTypeOK, Reports!Requests, OnWire, Reports!Request

(* The strengthening: what may be on the wire at each await of the handler *)
(* and of the task, whose call to reports-svc returns only when its        *)
(* request has been handled.                                               *)
Archived(j) ==
    /\ target[j] \in Terminal /\ status[j] = target[j]
    /\ OnWire(j) \subseteq {"report", target[j]}
    /\ target[j] \in OnWire(j) \/ row[j] = target[j]

WireInv(j) ==
    /\ pc[j] \in {"new", "expire", "lpush"} => OnWire(j) = {}
    /\ pc[j] = "snapshot" => OnWire(j) \subseteq {"queued"}
    /\ pc[j] \in {"hset", "publish", "call"} => OnWire(j) \subseteq {"report"}
    /\ pc[j] \in {"archive", "ended"} => Archived(j)

SnapshotInv == \A j \in Jobs \ timedOut : WireInv(j)

NoLateAnswers == Faults \cap {"loss", "delay", "redis", "crash", "evict"} = {}

LEMMA JobStepKeepsReports ==
    ASSUME NEW i \in Jobs, JobStep(i)
    PROVE  UNCHANGED <<row, linked, report>>
BY DEF JobStep, CreateStep, TaskStep, Create, Expire, Enqueue, StartTask,
   WriteStatus, PublishStage, PublishTerminal, CallOk, CallFail, ArchiveReturn,
   Timeout, RedisError, reportsVars

(* A step of the job's own handler or task.                                *)
LEMMA OwnStepKeepsWire ==
    ASSUME TypeOK, Announced, NoLateAnswers,
           NEW j \in Jobs, WireInv(j), JobStep(j), j \notin timedOut'
    PROVE  WireInv(j)'
<1> USE DEF TypeOK, StoreTypeOK, Goto, reportsVars, storeVars
<1>1. CASE Create(j)
  BY <1>1 DEF Create, WireInv, OnWire
<1>2. CASE Expire(j)
  BY <1>2 DEF Expire, WireInv, OnWire
<1>3. CASE Enqueue(j)
  <2>1. OnWire(j)' = OnWire(j) \cup {"queued"}
    BY <1>3, SendOnWire DEF Enqueue, Reports!SnapshotKinds
  <2>2. OnWire(j) = {} /\ pc'[j] = "snapshot"
    BY <1>3 DEF Enqueue, WireInv
  <2>3. QED
    BY <2>1, <2>2 DEF WireInv
<1>4. CASE StartTask(j)
  <2>1. "queued" \notin OnWire(j) /\ OnWire(j) \subseteq {"queued"}
    BY <1>4 DEF StartTask, Answered, OnWire, WireInv, NoLateAnswers
  <2>2. OnWire(j)' = OnWire(j) /\ pc'[j] = "hset"
    BY <1>4 DEF StartTask, OnWire
  <2>3. QED
    BY <2>1, <2>2 DEF WireInv
<1>5. CASE WriteStatus(j)
  BY <1>5 DEF WriteStatus, WireInv, OnWire
<1>6. CASE PublishStage(j)
  <2>1. OnWire(j)' \subseteq OnWire(j) \cup {"report"}
    <3>1. CASE target[j] = "persisting"
      BY <1>6, <3>1, SendOnWire DEF PublishStage
    <3>2. CASE target[j] # "persisting"
      BY <1>6, <3>2 DEF PublishStage, OnWire
    <3>3. QED
      BY <3>1, <3>2
  <2>2. OnWire(j) \subseteq {"report"} /\ pc'[j] = "call"
    BY <1>6 DEF PublishStage, WireInv
  <2>3. QED
    BY <2>1, <2>2 DEF WireInv
<1>7. CASE PublishTerminal(j)
  <2>1. j \notin timedOut
    BY <1>7 DEF PublishTerminal
  <2>2. /\ Reports!Send(j, target[j]) /\ pc'[j] = "archive"
        /\ target[j] \in Terminal /\ status[j] = target[j]
        /\ UNCHANGED <<target, status>>
    BY <1>7, <2>1 DEF PublishTerminal, Announced
  <2>3. OnWire(j)' = OnWire(j) \cup {target[j]}
    BY <2>2, SendOnWire DEF Terminal, Reports!SnapshotKinds
  <2>4. OnWire(j) \subseteq {"report"}
    BY <1>7 DEF PublishTerminal, WireInv
  <2>5. QED
    BY <2>2, <2>3, <2>4 DEF WireInv, Archived
<1>8. CASE CallOk(j) \/ CallFail(j)
  BY <1>8 DEF CallOk, CallFail, EnterFail, WireInv, OnWire
<1>9. CASE ArchiveReturn(j)
  BY <1>9 DEF ArchiveReturn, WireInv, OnWire, Archived
<1>10. ~Timeout(j)
  BY DEF Timeout
<1>11. ~RedisError(j)
  BY DEF RedisError, NoLateAnswers
<1>12. QED
  BY <1>1, <1>2, <1>3, <1>4, <1>5, <1>6, <1>7, <1>8, <1>9, <1>10, <1>11
  DEF JobStep, CreateStep, TaskStep

(* A step of another job.                                                  *)
LEMMA OtherJobKeeps ==
    ASSUME TypeOK, NEW j \in Jobs, NEW i \in Jobs \ {j}, JobStep(i)
    PROVE  /\ pc'[j] = pc[j] /\ target'[j] = target[j] /\ status'[j] = status[j]
           /\ UNCHANGED <<row, linked, report>>
           /\ OnWire(j)' = OnWire(j)
<1> USE DEF TypeOK, StoreTypeOK
<1>1. pc'[j] = pc[j] /\ target'[j] = target[j] /\ status'[j] = status[j]
  BY DEF JobStep, CreateStep, TaskStep, Create, HsetCreate, Expire, Enqueue,
     StartTask, WriteStatus, HsetStatus, PublishStage, PublishTerminal, CallOk,
     CallFail, ArchiveReturn, Timeout, RedisError, EnterFail, Goto, storeVars
<1>2. UNCHANGED <<row, linked, report>>
  BY JobStepKeepsReports
<1>3. \/ wire' = wire
      \/ \E k \in Reports!SnapshotKinds \cup {"report"} : Reports!Send(i, k)
  BY DEF JobStep, CreateStep, TaskStep, Create, Expire, Enqueue,
     StartTask, WriteStatus, PublishStage, PublishTerminal, CallOk,
     CallFail, ArchiveReturn, Timeout, RedisError, reportsVars,
     Reports!SnapshotKinds, Terminal
<1>4. OnWire(j)' = OnWire(j)
  <2>1. CASE wire' = wire
    BY <2>1 DEF OnWire
  <2>2. ASSUME NEW k \in Reports!SnapshotKinds \cup {"report"},
               Reports!Send(i, k)
        PROVE  OnWire(j)' = OnWire(j)
    BY <2>2, SendOnWire
  <2>3. QED
    BY <1>3, <2>1, <2>2
<1>5. QED
  BY <1>1, <1>2, <1>4

LEMMA OtherJobKeepsWire ==
    ASSUME TypeOK, NEW j \in Jobs, WireInv(j), NEW i \in Jobs \ {j}, JobStep(i)
    PROVE  WireInv(j)'
BY OtherJobKeeps DEF WireInv, Archived

(* reports-svc handles a request: the terminal one is the last to be sent. *)
LEMMA ServeKeepsWire ==
    ASSUME TypeOK, NEW j \in Jobs, WireInv(j), NEW m \in wire, ServeRequest(m)
    PROVE  WireInv(j)'
<1> USE DEF TypeOK, Reports!ReportsTypeOK, storeVars, pipelineVars
<1>1. UNCHANGED <<pc, target, status>>
  BY DEF ServeRequest
<1>2. OnWire(j)' = IF m.job = j THEN OnWire(j) \ {m.kind} ELSE OnWire(j)
  BY ServeOnWire DEF ServeRequest, Reports!Serve
<1>3. row'[j] = IF m.job = j /\ m.kind # "report" THEN m.kind ELSE row[j]
  BY DEF ServeRequest, Reports!Serve, Reports!UpsertJob, Reports!SaveReport,
     Reports!Requests, Reports!SnapshotKinds
<1>4. m.job = j => m.kind \in OnWire(j)
  BY DEF OnWire, Reports!Requests, Reports!Request
<1>5. CASE pc[j] \notin {"archive", "ended"}
  BY <1>1, <1>2, <1>5 DEF WireInv
<1>6. CASE pc[j] \in {"archive", "ended"}
  BY <1>1, <1>2, <1>3, <1>4, <1>6 DEF WireInv, Archived, Terminal
<1>7. QED
  BY <1>5, <1>6

LEMMA SnapshotInvStep ==
    ASSUME TypeOK, Announced, SnapshotInv, [Next]_vars, NoLateAnswers,
           Cancels = {}
    PROVE  SnapshotInv'
<1> SUFFICES ASSUME NEW j \in Jobs, j \notin timedOut' PROVE WireInv(j)'
  BY DEF SnapshotInv
<1>1. j \notin timedOut
  <2>1. ASSUME NEW i \in Jobs, JobStep(i) \/ Evict(i)
        PROVE  timedOut \subseteq timedOut'
    BY <2>1 DEF JobStep, CreateStep, TaskStep, Create, Expire, Enqueue,
       StartTask, WriteStatus, PublishStage, PublishTerminal, CallOk,
       CallFail, ArchiveReturn, Timeout, RedisError, Evict, pipelineVars
  <2>2. ASSUME NEW s \in Streams, StreamRequestStep(s)
        PROVE  timedOut \subseteq timedOut'
    BY <2>2 DEF StreamRequestStep, StreamStep, Subscribe, Replay, Forward,
       Disconnect, OpenStream, pipelineVars
  <2>3. CASE EnvStep \/ UNCHANGED vars
    BY <2>3 DEF EnvStep, ServeRequest, LoseRequest, ClearQueue, Crash, vars,
       pipelineVars
  <2>4. QED
    BY <2>1, <2>2, <2>3, StepCases
<1>2. WireInv(j)
  BY <1>1 DEF SnapshotInv
<1>3. ASSUME NEW i \in Jobs, JobStep(i) PROVE WireInv(j)'
  BY <1>2, <1>3, OwnStepKeepsWire, OtherJobKeepsWire
<1>4. ASSUME NEW m \in wire, ServeRequest(m) PROVE WireInv(j)'
  BY <1>2, <1>4, ServeKeepsWire
<1>5. ASSUME NEW i \in Jobs PROVE ~Evict(i)
  BY DEF Evict, NoLateAnswers
<1>6. ASSUME UNCHANGED <<pc, target, status, wire, row>> PROVE WireInv(j)'
  BY <1>2, <1>6 DEF WireInv, Archived, OnWire
<1>7. ASSUME NEW s \in Streams, StreamRequestStep(s)
      PROVE  UNCHANGED <<pc, target, status, wire, row>>
  BY <1>7 DEF StreamRequestStep, StreamStep, Subscribe, Replay, Forward,
     Disconnect, OpenStream, storeVars, pipelineVars, reportsVars
<1>8. ASSUME EnvStep \/ UNCHANGED vars, ~ \E m \in wire : ServeRequest(m)
      PROVE  UNCHANGED <<pc, target, status, wire, row>>
  <2>1. ~Crash
    BY DEF Crash, NoLateAnswers
  <2>2. ASSUME NEW m \in wire PROVE ~LoseRequest(m)
    BY DEF LoseRequest, NoLateAnswers
  <2>3. QED
    BY <1>8, <2>1, <2>2 DEF EnvStep, ClearQueue, vars, storeVars, pipelineVars,
       reportsVars
<1>9. QED
  BY <1>3, <1>4, <1>5, <1>6, <1>7, <1>8, StepCases

(* The row of a job is there before its report is sent, so storing the     *)
(* report links it.                                                        *)
RowFirst(j) ==
    /\ j \in linked <=> j \in report
    /\ pc[j] \in {"new"} \cup Creating => "report" \notin OnWire(j)
    /\ pc[j] = "snapshot" => "queued" \in OnWire(j) \/ row[j] # "none"
    /\ pc[j] \notin {"new"} \cup Creating => row[j] # "none"

LinkedInv == \A j \in Jobs : RowFirst(j)

LEMMA LinkedInvStep ==
    ASSUME TypeOK, LinkedInv, [Next]_vars, NoLateAnswers, Cancels = {}
    PROVE  LinkedInv'
<1> USE DEF TypeOK, Creating, RowFirst
<1> SUFFICES ASSUME NEW j \in Jobs PROVE RowFirst(j)'
  BY DEF LinkedInv
<1>0. RowFirst(j)
  BY DEF LinkedInv
<1>1. ASSUME NEW i \in Jobs \ {j}, JobStep(i) PROVE RowFirst(j)'
  BY <1>0, <1>1, OtherJobKeeps
<1>2. CASE JobStep(j)
  <2>0. UNCHANGED <<row, linked, report>>
    BY <1>2, JobStepKeepsReports
  <2>1. CASE Create(j) \/ Expire(j)
    BY <1>0, <2>0, <2>1 DEF Create, Expire, Goto, OnWire, reportsVars
  <2>2. CASE Enqueue(j)
    <3>1. OnWire(j)' = OnWire(j) \cup {"queued"}
      BY <2>2, SendOnWire DEF Enqueue, Reports!SnapshotKinds
    <3>2. pc[j] = "lpush" /\ pc'[j] = "snapshot"
      BY <2>2 DEF Enqueue, Goto
    <3>3. QED
      BY <1>0, <2>0, <3>1, <3>2
  <2>3. CASE StartTask(j)
    <3>1. pc[j] = "snapshot" /\ pc'[j] = "hset"
      BY <2>3 DEF StartTask, Goto
    <3>2. "queued" \notin OnWire(j)
      BY <2>3 DEF StartTask, Answered, OnWire, NoLateAnswers
    <3>3. QED
      BY <1>0, <2>0, <3>1, <3>2
  <2>4. CASE TaskStep(j) \/ Timeout(j) \/ RedisError(j)
    <3>1. pc[j] \notin {"new"} \cup Creating /\ pc'[j] \notin {"new"} \cup Creating
      BY <2>4
      DEF TaskStep, WriteStatus, PublishStage, PublishTerminal, CallOk,
          CallFail, ArchiveReturn, Timeout, TaskLive, Running, RedisError,
          NoLateAnswers, EnterFail, Goto
    <3>2. QED
      BY <1>0, <2>0, <3>1
  <2>5. QED
    BY <1>2, <2>1, <2>2, <2>3, <2>4 DEF JobStep, CreateStep
<1>3. ASSUME NEW m \in wire, ServeRequest(m) PROVE RowFirst(j)'
  <2> USE DEF Reports!ReportsTypeOK
  <2>1. UNCHANGED pc
    BY <1>3 DEF ServeRequest, pipelineVars
  <2>2. OnWire(j)' = IF m.job = j THEN OnWire(j) \ {m.kind} ELSE OnWire(j)
    BY <1>3, ServeOnWire DEF ServeRequest, Reports!Serve
  <2>3. m.job = j => m.kind \in OnWire(j)
    BY DEF OnWire, Reports!Requests, Reports!Request
  <2>4. CASE Reports!UpsertJob(m)
    <3>1. (j \in linked)' <=> (j \in report)'
      BY <1>0, <2>4 DEF Reports!UpsertJob
    <3>2. row'[j] = IF m.job = j THEN m.kind ELSE row[j]
      BY <2>4 DEF Reports!UpsertJob, Reports!Requests
    <3>3. m.kind # "none"
      BY <2>4 DEF Reports!UpsertJob, Reports!SnapshotKinds
    <3>4. QED
      BY <1>0, <2>1, <2>2, <3>1, <3>2, <3>3
  <2>5. CASE Reports!SaveReport(m)
    <3>1. m.job = j => row[j] # "none"
      BY <1>0, <2>3, <2>5 DEF Reports!SaveReport
    <3>2. (j \in linked)' <=> (j \in report)'
      BY <1>0, <2>5, <3>1 DEF Reports!SaveReport
    <3>3. row' = row /\ m.kind = "report"
      BY <2>5 DEF Reports!SaveReport
    <3>4. QED
      BY <1>0, <2>1, <2>2, <3>2, <3>3
  <2>6. QED
    BY <1>3, <2>4, <2>5 DEF ServeRequest, Reports!Serve
<1>4. ASSUME UNCHANGED <<pc, wire, row, linked, report>> PROVE RowFirst(j)'
  BY <1>0, <1>4 DEF OnWire
<1>5. ASSUME NEW i \in Jobs PROVE ~Evict(i)
  BY DEF Evict, NoLateAnswers
<1>6. ASSUME NEW s \in Streams, StreamRequestStep(s)
      PROVE  UNCHANGED <<pc, wire, row, linked, report>>
  BY <1>6 DEF StreamRequestStep, StreamStep, Subscribe, Replay, Forward,
     Disconnect, OpenStream, pipelineVars, reportsVars
<1>7. ASSUME EnvStep \/ UNCHANGED vars, ~ \E m \in wire : ServeRequest(m)
      PROVE  UNCHANGED <<pc, wire, row, linked, report>>
  <2>1. ~Crash
    BY DEF Crash, NoLateAnswers
  <2>2. ASSUME NEW m \in wire PROVE ~LoseRequest(m)
    BY DEF LoseRequest, NoLateAnswers
  <2>3. QED
    BY <1>7, <2>1, <2>2 DEF EnvStep, ClearQueue, vars, pipelineVars, reportsVars
<1>8. QED
  BY <1>1, <1>2, <1>3, <1>4, <1>5, <1>6, <1>7, StepCases

(* When the task of a job has ended and what it sent has been handled, the *)
(* durable snapshot has the status that the pipeline gave it, done or      *)
(* failed, whichever call failed before, and is linked to its report.      *)
THEOREM SnapshotsAgree ==
    ASSUME Cancels = {}, NoLateAnswers PROVE Spec => []SnapshotAgrees
<1>1. Init => SnapshotInv /\ LinkedInv
  BY DEF Init, Reports!ReportsInit, SnapshotInv, WireInv, LinkedInv, RowFirst,
         OnWire, Creating
<1>2. TypeOK /\ Announced /\ SnapshotInv /\ LinkedInv /\ [Next]_vars
        => (SnapshotInv /\ LinkedInv)'
  BY SnapshotInvStep, LinkedInvStep
<1>3. SnapshotInv /\ LinkedInv => SnapshotAgrees
  BY DEF SnapshotInv, WireInv, Archived, LinkedInv, RowFirst, OnWire,
     SnapshotAgrees, Reports!Request
<1>4. "evict" \notin Faults
  BY DEF NoLateAnswers
<1>5. QED
  BY <1>1, <1>2, <1>3, <1>4, TypeCorrect, AnnouncedInvariant, PTL DEF Spec
=============================================================================
