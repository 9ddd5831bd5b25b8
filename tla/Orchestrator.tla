---------------------------- MODULE Orchestrator ----------------------------
(***************************************************************************)
(* orchestrator-svc: POST /jobs, the pipeline task it starts, cancelling,  *)
(* and the SSE streams (services/orchestrator/app/main.py, pipeline.py).   *)
(*                                                                         *)
(* The service is one asyncio event loop, so a coroutine is interrupted    *)
(* only where it awaits.  Each Redis command and each HTTP call is such a  *)
(* point, and is one step: between an HSET and the PUBLISH that announces  *)
(* it, any other coroutine may run, and the coroutine itself may be        *)
(* cancelled or time out.                                                  *)
(***************************************************************************)
EXTENDS JobStore

CONSTANTS Cancels,     \* requests to a cancel endpoint
          ListLimit,   \* page size cancel_active_jobs asks for (100)
          Faults       \* what may go wrong

AllFaults ==
    {"downstream",     \* a call to another service fails or times out
     "timeout",        \* PIPELINE_TIMEOUT passes
     "loss",           \* a request to reports-svc is lost or refused
     "delay",          \* reports-svc acts after its caller gave up
     "redis",          \* a Redis command of orchestrator-svc raises
     "crash",          \* orchestrator-svc restarts
     "evict",          \* Redis drops a job key
     "disconnect"}     \* the client of a stream goes away

ASSUME LimitAssumption == ListLimit \in Nat \ {0}
ASSUME FaultsAssumption ==
    /\ Faults \subseteq AllFaults
    /\ "loss" \in Faults => "downstream" \in Faults

VARIABLES pc,          \* the job's request handler, then its pipeline task
          target,      \* the status the pipeline is entering
          timedOut,    \* jobs whose task is in its TimeoutError handler
          cpc,         \* the cancel handler
          todo,        \* jobs it has left to look at
          current,     \* the job it is cancelling
          cancelled,   \* jobs it reports as cancelled
          sent,        \* the last event each stream sent
          wire, row, linked, report

Reports == INSTANCE ReportsStore

pipelineVars == <<pc, target, timedOut>>
cancelVars == <<cpc, todo, current, cancelled>>
streamVars == <<spc, sjob, inbox, sent>>
reportsVars == <<wire, row, linked, report>>
vars == <<status, fields, expiring, queue, pc, target, timedOut, cpc, todo,
          current, cancelled, spc, sjob, inbox, sent, wire, row, linked, report>>

(* Awaits of create_job, then of Pipeline.run and _run_with_timeout.       *)
Creating == {"expire", "lpush", "snapshot"}
Running == {"hset", "publish", "call", "archive"}
CancelStates == {"idle", "next", "act", "reread", "hset", "publish", "ended"}

TypeOK ==
    /\ StoreTypeOK
    /\ Reports!ReportsTypeOK
    /\ pc \in [Jobs -> {"new", "ended"} \cup Creating \cup Running]
    /\ target \in [Jobs -> Events]
    /\ timedOut \subseteq Jobs
    /\ cpc \in [Cancels -> CancelStates]
    /\ todo \in [Cancels -> SUBSET Jobs]
    /\ current \in [Cancels -> Jobs]
    /\ cancelled \in [Cancels -> SUBSET Jobs]
    /\ sent \in [Streams -> Statuses]

Init ==
    /\ StoreInit
    /\ Reports!ReportsInit
    /\ pc = [j \in Jobs |-> "new"]
    /\ target = [j \in Jobs |-> "collecting"]
    /\ timedOut = {}
    /\ cpc = [c \in Cancels |-> "idle"]
    /\ todo = [c \in Cancels |-> {}]
    /\ current = [c \in Cancels |-> AnyJob]
    /\ cancelled = [c \in Cancels |-> {}]
    /\ sent = [s \in Streams |-> "absent"]

Goto(j, at) == pc' = [pc EXCEPT ![j] = at]

-----------------------------------------------------------------------------
(* POST /jobs: store.create, the "queued" snapshot, and only then the task *)
(* that runs the pipeline.                                                 *)

Create(j) ==
    /\ pc[j] = "new"
    /\ \A i \in Jobs : i < j => pc[i] # "new"
    /\ HsetCreate(j)
    /\ Goto(j, "expire")
    /\ UNCHANGED <<expiring, queue, target, timedOut, cancelVars, streamVars,
                   reportsVars>>

Expire(j) ==
    /\ pc[j] = "expire"
    /\ SetExpiry(j)
    /\ Goto(j, "lpush")
    /\ UNCHANGED <<status, fields, queue, target, timedOut, cancelVars,
                   streamVars, reportsVars>>

Enqueue(j) ==
    /\ pc[j] = "lpush"
    /\ Lpush(j)
    /\ Reports!Send(j, "queued")
    /\ Goto(j, "snapshot")
    /\ UNCHANGED <<status, fields, expiring, target, timedOut, cancelVars,
                   streamVars, row, linked, report>>

(* The caller of _archive_job gets an answer, an error or a timeout, and   *)
(* goes on in every case.                                                  *)
Answered(j, kind) ==
    "delay" \in Faults \/ Reports!Request(j, kind) \notin wire

StartTask(j) ==
    /\ pc[j] = "snapshot"
    /\ Answered(j, "queued")
    /\ Goto(j, "hset")
    /\ UNCHANGED <<storeVars, target, timedOut, cancelVars, streamVars,
                   reportsVars>>

-----------------------------------------------------------------------------
(* The pipeline task.  Every transition, complete and fail is an HSET and  *)
(* then a PUBLISH of the target status.                                    *)

TaskLive(j) == pc[j] \in Running

WriteStatus(j) ==
    /\ pc[j] = "hset"
    /\ HsetStatus(j, target[j])
    /\ Goto(j, "publish")
    /\ UNCHANGED <<expiring, queue, target, timedOut, cancelVars, streamVars,
                   reportsVars>>

(* After a stage event the stage's service is called; the last stage posts *)
(* the report.                                                             *)
PublishStage(j) ==
    /\ pc[j] = "publish"
    /\ target[j] \in Stages
    /\ Publish(j, target[j])
    /\ Goto(j, "call")
    /\ IF target[j] = "persisting" THEN Reports!Send(j, "report")
                                   ELSE UNCHANGED wire
    /\ UNCHANGED <<storeVars, target, timedOut, cancelVars, spc, sjob, sent,
                   row, linked, report>>

(* Pipeline.run archives the terminal status; the timeout handler returns. *)
PublishTerminal(j) ==
    /\ pc[j] = "publish"
    /\ target[j] \in Terminal
    /\ Publish(j, target[j])
    /\ IF j \in timedOut
         THEN Goto(j, "ended") /\ UNCHANGED wire
         ELSE Goto(j, "archive") /\ Reports!Send(j, target[j])
    /\ UNCHANGED <<storeVars, target, timedOut, cancelVars, spc, sjob, sent,
                   row, linked, report>>

(* Mutant: the report is not saved before the job is done. *)
AfterSkippingSave(stage) ==
    CASE stage = "collecting" -> "processing"
      [] stage = "processing" -> "llm_call"
      [] stage \in {"llm_call", "persisting"} -> "done"

(* Mutant: a status outside the seven of the contract. *)
AfterMisspelt(stage) ==
    CASE stage = "collecting" -> "processed"
      [] OTHER -> "done"

After(stage) ==
    CASE stage = "collecting" -> "processing"
      [] stage = "processing" -> "llm_call"
      [] stage = "llm_call" -> "persisting"
      [] stage = "persisting" -> "done"

CallOk(j) ==
    /\ pc[j] = "call"
    /\ target[j] = "persisting" =>
           j \in report /\ Reports!Request(j, "report") \notin wire
    /\ target' = [target EXCEPT ![j] = After(target[j])]
    /\ Goto(j, "hset")
    /\ UNCHANGED <<storeVars, timedOut, cancelVars, streamVars, reportsVars>>

EnterFail(j) ==
    /\ target' = [target EXCEPT ![j] = "failed"]
    /\ Goto(j, "hset")

(* Mutant: an error of a downstream call ends the task without failing the *)
(* job.                                                                    *)
CallFailUnreported(j) ==
    /\ pc[j] = "call"
    /\ Goto(j, "ended")
    /\ UNCHANGED <<storeVars, target, timedOut, cancelVars, streamVars,
                   reportsVars>>

(* Unreachable, too slow, an error status, or an answer that does not      *)
(* parse; for reports-svc, also an answer lost after the commit.           *)
CallFail(j) ==
    /\ "downstream" \in Faults
    /\ pc[j] = "call"
    /\ EnterFail(j)
    /\ UNCHANGED <<storeVars, timedOut, cancelVars, streamVars, reportsVars>>

(* Mutant: the pipeline is run again after it has archived its outcome. *)
RunAgain(j) ==
    /\ pc[j] = "archive"
    /\ Goto(j, "hset")
    /\ target' = [target EXCEPT ![j] = "collecting"]
    /\ UNCHANGED <<storeVars, timedOut, cancelVars, streamVars, reportsVars>>

ArchiveReturn(j) ==
    /\ pc[j] = "archive"
    /\ Answered(j, target[j])
    /\ Goto(j, "ended")
    /\ UNCHANGED <<storeVars, target, timedOut, cancelVars, streamVars,
                   reportsVars>>

(* wait_for gives up on Pipeline.run wherever it is, and the handler of    *)
(* TimeoutError fails the job without looking at it.                       *)
Timeout(j) ==
    /\ "timeout" \in Faults
    /\ TaskLive(j)
    /\ j \notin timedOut
    /\ timedOut' = timedOut \cup {j}
    /\ EnterFail(j)
    /\ UNCHANGED <<storeVars, cancelVars, streamVars, reportsVars>>

(* A Redis command raises.  In the body of Pipeline.run the job is failed; *)
(* while failing it, or in create_job, nothing catches the exception (or   *)
(* only to log it).                                                        *)
RedisError(j) ==
    /\ "redis" \in Faults
    /\ \/ /\ pc[j] \in {"hset", "publish"}
          /\ target[j] # "failed"
          /\ EnterFail(j)
       \/ /\ \/ pc[j] \in {"expire", "lpush"}
             \/ pc[j] \in {"hset", "publish"} /\ target[j] = "failed"
          /\ Goto(j, "ended")
          /\ UNCHANGED target
    /\ UNCHANGED <<storeVars, timedOut, cancelVars, streamVars, reportsVars>>

-----------------------------------------------------------------------------
(* Cancelling.  POST /jobs/{id}/cancel looks at one job, POST /jobs/active *)
(* /cancel at the non-terminal ones of a single page of the list.  The     *)
(* status read first is only used to decide whether to go on.  The page is *)
(* one SCAN and an HGETALL for each key; it is read here in one step, as   *)
(* CancelRead looks at each of its jobs again.                             *)

GotoC(c, at) == cpc' = [cpc EXCEPT ![c] = at]

CancelOne(c, j) ==
    /\ cpc[c] = "idle"
    /\ todo' = [todo EXCEPT ![c] = {j}]
    /\ GotoC(c, "next")
    /\ UNCHANGED <<storeVars, pipelineVars, current, cancelled, streamVars,
                   reportsVars>>

CancelActive(c) ==
    /\ cpc[c] = "idle"
    /\ IF Listable
         THEN /\ todo' = [todo EXCEPT ![c] =
                     {j \in Newest(ListLimit) : status[j] \notin Terminal}]
              /\ GotoC(c, "next")
         ELSE GotoC(c, "ended") /\ UNCHANGED todo
    /\ UNCHANGED <<storeVars, pipelineVars, current, cancelled, streamVars,
                   reportsVars>>

(* The list is newest first.  A missing job is a 404, an unreadable one a  *)
(* 500; either ends the request and leaves the rest of a list alone.       *)
CancelRead(c) ==
    /\ cpc[c] = "next"
    /\ \E j \in todo[c] :
       /\ \A i \in todo[c] : i <= j
       /\ todo' = [todo EXCEPT ![c] = @ \ {j}]
       /\ current' = [current EXCEPT ![c] = j]
       /\ \/ ~Readable(j) /\ GotoC(c, "ended")
          \/ Readable(j) /\ status[j] \in Terminal /\ UNCHANGED cpc
          \/ Readable(j) /\ status[j] \notin Terminal /\ GotoC(c, "act")
    /\ UNCHANGED <<storeVars, pipelineVars, cancelled, streamVars, reportsVars>>

(* task.cancel() ends the task at the await it has reached; a job whose    *)
(* task does not exist yet, or not any more, is left alone.                *)
CancelTask(c) ==
    /\ cpc[c] = "act"
    /\ IF TaskLive(current[c]) THEN Goto(current[c], "ended")
                               ELSE UNCHANGED pc
    /\ GotoC(c, "reread")
    /\ UNCHANGED <<storeVars, target, timedOut, todo, current, cancelled,
                   streamVars, reportsVars>>

CancelDone(c) ==
    /\ cancelled' = [cancelled EXCEPT ![c] = @ \cup {current[c]}]
    /\ GotoC(c, "next")

(* Mutant: the handler trusts the cancelled task to have failed the job. *)
CancelTrustsTask(c) ==
    /\ cpc[c] = "reread"
    /\ CancelDone(c)
    /\ UNCHANGED <<storeVars, pipelineVars, todo, current, streamVars,
                   reportsVars>>

CancelReread(c) ==
    /\ cpc[c] = "reread"
    /\ LET j == current[c] IN
       \/ Stored(j) /\ ~Readable(j) /\ GotoC(c, "ended") /\ UNCHANGED cancelled
       \/ ~Stored(j) /\ CancelDone(c)
       \/ Readable(j) /\ status[j] \in Terminal /\ CancelDone(c)
       \/ Readable(j) /\ status[j] \notin Terminal /\ GotoC(c, "hset")
                      /\ UNCHANGED cancelled
    /\ UNCHANGED <<storeVars, pipelineVars, todo, current, streamVars,
                   reportsVars>>

CancelWrite(c) ==
    /\ cpc[c] = "hset"
    /\ HsetStatus(current[c], "failed")
    /\ GotoC(c, "publish")
    /\ UNCHANGED <<expiring, queue, pipelineVars, todo, current, cancelled,
                   streamVars, reportsVars>>

CancelPublish(c) ==
    /\ cpc[c] = "publish"
    /\ Publish(current[c], "failed")
    /\ CancelDone(c)
    /\ UNCHANGED <<storeVars, pipelineVars, todo, current, spc, sjob, sent,
                   reportsVars>>

CancelReturn(c) ==
    /\ cpc[c] = "next"
    /\ todo[c] = {}
    /\ GotoC(c, "ended")
    /\ UNCHANGED <<storeVars, pipelineVars, todo, current, cancelled,
                   streamVars, reportsVars>>

CancelError(c) ==
    /\ "redis" \in Faults
    /\ cpc[c] \in {"next", "reread", "hset", "publish"}
    /\ GotoC(c, "ended")
    /\ UNCHANGED <<storeVars, pipelineVars, todo, current, cancelled,
                   streamVars, reportsVars>>

ClearQueue ==
    /\ queue # {}
    /\ queue' = {}
    /\ UNCHANGED <<status, fields, expiring, pipelineVars, cancelVars,
                   streamVars, reportsVars>>

-----------------------------------------------------------------------------
(* GET /jobs/{id}/stream: subscribe, then read the state, then forward.    *)

OpenStream(s, j) ==
    /\ spc[s] = "idle"
    /\ Readable(j)
    /\ spc' = [spc EXCEPT ![s] = "opened"]
    /\ sjob' = [sjob EXCEPT ![s] = j]
    /\ UNCHANGED <<storeVars, pipelineVars, cancelVars, inbox, sent,
                   reportsVars>>

(* Mutant: the state is read before the subscription, not after it. *)
ReplayThenSubscribe(s) ==
    /\ spc[s] = "opened"
    /\ \/ /\ sent[s] = "absent"
          /\ sent' = [sent EXCEPT ![s] = status[sjob[s]]]
          /\ UNCHANGED spc
       \/ /\ sent[s] # "absent"
          /\ spc' = [spc EXCEPT ![s] = IF sent[s] \in Terminal THEN "closed"
                                                             ELSE "live"]
          /\ UNCHANGED sent
    /\ UNCHANGED <<storeVars, pipelineVars, cancelVars, sjob, inbox,
                   reportsVars>>

Subscribe(s) ==
    /\ spc[s] = "opened"
    /\ spc' = [spc EXCEPT ![s] = "subscribed"]
    /\ UNCHANGED <<storeVars, pipelineVars, cancelVars, sjob, inbox, sent,
                   reportsVars>>

Close(s) ==
    /\ spc' = [spc EXCEPT ![s] = "closed"]
    /\ inbox' = [inbox EXCEPT ![s] = <<>>]

(* A job that vanished or cannot be read ends the stream without an event. *)
Replay(s) ==
    /\ spc[s] = "subscribed"
    /\ LET j == sjob[s] IN
       /\ IF Readable(j) /\ status[j] \notin Terminal
            THEN spc' = [spc EXCEPT ![s] = "live"] /\ UNCHANGED inbox
            ELSE Close(s)
       /\ sent' = [sent EXCEPT ![s] = IF Readable(j) THEN status[j] ELSE @]
    /\ UNCHANGED <<storeVars, pipelineVars, cancelVars, sjob, reportsVars>>

Forward(s) ==
    /\ spc[s] = "live"
    /\ inbox[s] # <<>>
    /\ sent' = [sent EXCEPT ![s] = Head(inbox[s])]
    /\ IF Head(inbox[s]) \in Terminal
         THEN Close(s)
         ELSE inbox' = [inbox EXCEPT ![s] = Tail(@)] /\ UNCHANGED spc
    /\ UNCHANGED <<storeVars, pipelineVars, cancelVars, sjob, reportsVars>>

Disconnect(s) ==
    /\ "disconnect" \in Faults
    /\ spc[s] \in {"opened", "subscribed", "live"}
    /\ Close(s)
    /\ UNCHANGED <<storeVars, pipelineVars, cancelVars, sjob, sent, reportsVars>>

-----------------------------------------------------------------------------
(* reports-svc, Redis eviction, and a restart of orchestrator-svc, whose   *)
(* lifespan resumes nothing: only Redis, SQLite and the wire survive.      *)

ServeRequest(m) ==
    /\ Reports!Serve(m)
    /\ UNCHANGED <<storeVars, pipelineVars, cancelVars, streamVars>>

LoseRequest(m) ==
    /\ "loss" \in Faults
    /\ Reports!Lose(m)
    /\ UNCHANGED <<storeVars, pipelineVars, cancelVars, streamVars>>

Evict(j) ==
    /\ "evict" \in Faults
    /\ Stored(j)
    /\ RemoveKey(j)
    /\ UNCHANGED <<queue, pipelineVars, cancelVars, streamVars, reportsVars>>

Crash ==
    /\ "crash" \in Faults
    /\ pc' = [j \in Jobs |-> IF pc[j] = "new" THEN "new" ELSE "ended"]
    /\ cpc' = [c \in Cancels |-> IF cpc[c] = "idle" THEN "idle" ELSE "ended"]
    /\ spc' = [s \in Streams |-> IF spc[s] = "idle" THEN "idle" ELSE "closed"]
    /\ inbox' = [s \in Streams |-> <<>>]
    /\ UNCHANGED <<storeVars, target, timedOut, todo, current, cancelled, sjob,
                   sent, reportsVars>>

CreateStep(j) == Expire(j) \/ Enqueue(j) \/ StartTask(j)

TaskStep(j) ==
    \/ WriteStatus(j) \/ PublishStage(j) \/ PublishTerminal(j)
    \/ CallOk(j) \/ CallFail(j) \/ ArchiveReturn(j)

JobStep(j) ==
    Create(j) \/ CreateStep(j) \/ TaskStep(j) \/ Timeout(j) \/ RedisError(j)

CancelStep(c) ==
    \/ CancelRead(c) \/ CancelTask(c) \/ CancelReread(c) \/ CancelWrite(c)
    \/ CancelPublish(c) \/ CancelReturn(c)

StreamStep(s) == Subscribe(s) \/ Replay(s) \/ Forward(s)

Next ==
    \/ \E j \in Jobs : JobStep(j) \/ Evict(j)
    \/ \E c \in Cancels : CancelStep(c) \/ CancelActive(c) \/ CancelError(c)
    \/ \E c \in Cancels, j \in Jobs : CancelOne(c, j)
    \/ \E s \in Streams : StreamStep(s) \/ Disconnect(s)
    \/ \E s \in Streams, j \in Jobs : OpenStream(s, j)
    \/ \E m \in wire : ServeRequest(m) \/ LoseRequest(m)
    \/ ClearQueue
    \/ Crash

Spec == Init /\ [][Next]_vars

(* The event loop runs every ready coroutine, every await in the pipeline  *)
(* has a timeout, and reports-svc handles what reaches it.  Nobody has to  *)
(* create a job, cancel one or open a stream, and no fault has to happen.  *)
Fairness ==
    /\ \A j \in Jobs : WF_vars(CreateStep(j)) /\ WF_vars(TaskStep(j))
    /\ \A c \in Cancels : WF_vars(CancelStep(c))
    /\ \A s \in Streams : WF_vars(StreamStep(s))
    /\ WF_vars(\E m \in wire : ServeRequest(m))

FairSpec == Spec /\ Fairness

-----------------------------------------------------------------------------
(* Safety.                                                                 *)

(* A job is "done", or names an incident, only if its report is in SQLite: *)
(* complete() comes after the answer of POST /reports, and neither a       *)
(* timeout, a cancel nor a restart writes "done".                          *)
DoneHasReport ==
    \A j \in Jobs :
        status[j] = "done" \/ "incident_id" \in fields[j] => j \in report

(* A client that is sent "done", replayed or forwarded, can fetch the      *)
(* report, also when its stream was opened at any point of the run.        *)
StreamDoneHasReport ==
    \A s \in Streams : sent[s] = "done" => sjob[s] \in report

(* The durable snapshot never claims an incident that is not stored, and a *)
(* "done" row is linked to its incident, in whatever order the requests to *)
(* reports-svc arrive.                                                     *)
SnapshotSound ==
    /\ linked \subseteq report
    /\ \A j \in Jobs : row[j] = "done" => j \in linked

(* A live stream that has forwarded all it received shows the job's status *)
(* unless the task is about to announce a newer one: subscribing before    *)
(* reading the state loses no event.                                       *)
StreamCurrent ==
    \A s \in Streams :
        spc[s] = "live" /\ inbox[s] = <<>>
            => \/ sent[s] = status[sjob[s]]
               \/ pc[sjob[s]] \in {"hset", "publish"}

(* The task of a job ends only with the job in a terminal state, or with a *)
(* cancel handler still on its way to fail it: cancelling a task leaves    *)
(* nobody waiting for a job that no one will finish.                       *)
NoOrphan ==
    \A j \in Jobs : pc[j] = "ended" =>
        \/ status[j] \in Terminal
        \/ \E c \in Cancels : cpc[c] \in {"reread", "hset"} /\ current[c] = j

(* When the task has ended and nothing is on the wire, the SQLite snapshot *)
(* has the final status that Pipeline.run gave the job, and it is linked to *)
(* the report if there is one: also when the job failed, because only the  *)
(* answer of POST /reports was lost.                                       *)
SnapshotAgrees ==
    \A j \in Jobs :
        pc[j] = "ended" /\ (\A m \in wire : m.job # j)
            => /\ j \notin timedOut => row[j] = status[j]
               /\ j \in linked <=> j \in report

-----------------------------------------------------------------------------
(* Action properties.                                                      *)

(* A done job is never analysed again: its status may only become failed   *)
(* (a deadline or an error after complete()) or the key may be dropped.    *)
DoneNeverReopens ==
    [][\A j \in Jobs : status[j] = "done"
           => status'[j] \in {"done", "failed", "absent"}]_vars

(* No step of the pipeline, of its timeout or of its error handling leaves *)
(* a terminal status for a stage.                                          *)
TerminalStays ==
    [][\A j \in Jobs : status[j] \in Terminal => status'[j] \in Terminal]_vars

(* What a job promises, whatever is cancelled, times out or crashes.       *)
JobState(j) ==
    CASE status[j] = "absent" -> "absent"
      [] status[j] \in Terminal -> status[j]
      [] OTHER -> "open"

Promise == INSTANCE JobSpec WITH state <- [j \in Jobs |-> JobState(j)],
                                 Reopens <- Cancels # {}

PromiseKept == Promise!Spec

-----------------------------------------------------------------------------
(* Liveness, under FairSpec.                                               *)

(* A created job reaches a terminal status and keeps one, also when it is  *)
(* cancelled at any point or its deadline passes.                          *)
JobsSettle ==
    \A j \in Jobs : <>[](pc[j] = "new" \/ status[j] \in Terminal)

(* A stream that was opened is closed by the service: its terminal event   *)
(* is sent ("Stream closes on terminal event", docs/architecture.md).      *)
StreamsEnd ==
    \A s \in Streams : spc[s] = "opened" ~> spc[s] = "closed"
=============================================================================
