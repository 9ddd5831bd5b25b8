--------------------------- MODULE DiagnosisClient ---------------------------
(***************************************************************************)
(* The error queue page of the dashboard: the hook that follows one        *)
(* diagnosis job (frontend/src/hooks/use-diagnosis-job.ts, lib/sse.ts),    *)
(* the queue it keeps in localStorage (lib/error-queue.ts) and the page    *)
(* that ties them together (app/errors/errors-client.tsx).                 *)
(*                                                                         *)
(* The page is one thread that is left at every await: a call to the       *)
(* gateway is a step that sends it, one at the server, and one that takes  *)
(* the answer.  What follows a click is rendered before anything else      *)
(* runs; other changes of state are rendered later (Render).  Jobs behave  *)
(* as JobSpec says, which orchestrator-svc implements.                     *)
(***************************************************************************)
EXTENDS Naturals, FiniteSets

CONSTANTS Items,          \* errors that are triggered
          Jobs,           \* starts of a diagnosis, with the job each creates
          MaxAttempts,    \* MAX_RECONNECT_ATTEMPTS (15)
          MaxAnswers,     \* answers to reconcileDiagnoses on the way at once
          MaxFaults       \* failed calls, interrupted streams, dropped keys,
                          \* cancelled jobs that run on, reloads of the page

NoJob == 0

ASSUME JobsAssumption == Jobs \subseteq Nat \ {NoJob}
ASSUME ItemsAssumption == Items # {}
ASSUME AttemptsAssumption == MaxAttempts \in Nat \ {0}
ASSUME FaultsAssumption == MaxFaults \in Nat /\ MaxAnswers \in Nat \ {0}

VARIABLES job, report,   \* the server: JobSpec
          key,           \* "whole", "missing", or "partial": written again
                         \* after it was dropped (JobStore, HsetStatus)
          call,          \* where startDiagnosisForItem is
          owner,         \* the item it was called for, in a set
          victim,        \* the item's previous job, cancelled first
          stale,         \* calls whose generation is not the current one
          phase,         \* the hook's phase
          jobId,         \* jobIdRef
          terminal,      \* terminalRef
          sources,       \* open EventSources, by job
          closer,        \* closeStreamRef
          inbox,         \* the terminal event on its way to each EventSource
          effect,        \* the job that the mounted polling effect polls
          attempts,      \* polls of this effect
          polls,         \* their answers on the way; "other" for an error or
                         \* a job that is not over
          queue,         \* status of each item in localStorage
          qjob,          \* its jobId
          incident,      \* its incidentId, named by the job that made it
          pending,       \* pendingDiagnosisItemsRef
          recs,          \* answers to reconcileDiagnoses on the way
          flow,          \* the reset of the demo workload in progress
          faults         \* history: faults so far

serverVars == <<job, report, key>>
callVars == <<call, owner, victim, stale>>
hookVars == <<phase, jobId, terminal, sources, closer, inbox>>
pollVars == <<effect, attempts, polls>>
queueVars == <<queue, qjob, incident>>
vars == <<serverVars, callVars, hookVars, pollVars, queueVars, pending, recs, flow,
          faults>>

Server == INSTANCE JobSpec WITH state <- job, Reopens <- TRUE

Ids == Jobs \cup {NoJob}
Phases == {"idle", "running", "reconnecting", "done", "failed"}
CallStates ==
    {"unused", "cancelling", "creating", "created", "abandoned", "ended"}
ItemStates == {"new", "triggered", "diagnosing", "diagnosed",
               "diagnosis_failed", "fixed", "cleared"}
Answers == [item : Items, job : Jobs, answer : {"done", "failed", "gone"}]
Flows == {"idle", "cancel to fix", "cancel to clear", "fix", "clear"}

TypeOK ==
    /\ job \in [Jobs -> {"absent", "open", "done", "failed"}]
    /\ report \subseteq Jobs
    /\ key \in [Jobs -> {"whole", "missing", "partial"}]
    /\ call \in [Jobs -> CallStates]
    /\ owner \in [Jobs -> SUBSET Items] /\ victim \in [Jobs -> Ids]
    /\ stale \subseteq Jobs
    /\ phase \in Phases /\ jobId \in Ids /\ terminal \in BOOLEAN
    /\ sources \subseteq Jobs /\ closer \in Ids
    /\ inbox \in [Jobs -> {"none", "done", "failed"}]
    /\ effect \in Ids /\ attempts \in 0..MaxAttempts
    /\ polls \subseteq {"done", "failed", "other"}
    /\ queue \in [Items -> ItemStates]
    /\ qjob \in [Items -> Ids] /\ incident \in [Items -> Ids]
    /\ pending \subseteq Items
    /\ recs \subseteq Answers
    /\ flow \in Flows
    /\ faults \in 0..MaxFaults

Init ==
    /\ Server!Init /\ key = [j \in Jobs |-> "whole"]
    /\ call = [j \in Jobs |-> "unused"]
    /\ owner = [j \in Jobs |-> {}]
    /\ victim = [j \in Jobs |-> NoJob] /\ stale = {}
    /\ phase = "idle" /\ jobId = NoJob /\ terminal = FALSE
    /\ sources = {} /\ closer = NoJob /\ inbox = [j \in Jobs |-> "none"]
    /\ effect = NoJob /\ attempts = 0 /\ polls = {}
    /\ queue = [i \in Items |-> "new"]
    /\ qjob = [i \in Items |-> NoJob] /\ incident = [i \in Items |-> NoJob]
    /\ pending = {} /\ recs = {} /\ flow = "idle"
    /\ faults = 0

Fault == faults < MaxFaults /\ faults' = faults + 1

(* What GET /api/jobs/{id} answers: a hash without its creation fields     *)
(* cannot be read (JobStore, Readable).                                    *)
Ended(j) == job[j] \in {"done", "failed"}

Answer(j) ==
    CASE key[j] = "missing" -> "gone"
      [] key[j] = "partial" -> "error"
      [] OTHER -> job[j]

Unreadable == \E j \in Jobs : key[j] = "partial"

-----------------------------------------------------------------------------
(* The queue.  Each operation loads it, changes one item and saves it; an  *)
(* item that is not there is not changed.                                  *)

Listed(i) == queue[i] \notin {"new", "cleared"}

SetStatus(is, st) ==
    queue' = [i \in Items |-> IF i \in is /\ Listed(i) THEN st ELSE queue[i]]

(* clearErrorQueue: the items are gone, with what they refer to.           *)
ClearQueue ==
    /\ queue' = [i \in Items |-> IF Listed(i) THEN "cleared" ELSE queue[i]]
    /\ qjob' = [i \in Items |-> NoJob]
    /\ incident' = [i \in Items |-> NoJob]

(* addErrorQueueItem, from the scenarios page.                             *)
Trigger(i) ==
    /\ queue[i] = "new"
    /\ queue' = [queue EXCEPT ![i] = "triggered"]
    /\ UNCHANGED <<serverVars, callVars, hookVars, pollVars, qjob, incident,
                   pending, recs, flow, faults>>

-----------------------------------------------------------------------------
(* The hook.                                                               *)

Close(js) ==
    /\ sources' = sources \ js
    /\ inbox' = [j \in Jobs |-> IF j \in js THEN "none" ELSE inbox[j]]

CloseStream == Close({closer})

(* reset: a new generation.                                                *)
ResetTo(ph) ==
    /\ CloseStream
    /\ closer' = NoJob
    /\ stale' = stale \cup
           {j \in Jobs : call[j] \in {"creating", "created"}}
    /\ jobId' = NoJob
    /\ terminal' = FALSE
    /\ phase' = ph

(* After a click the polling effect is gone before anything else runs.     *)
Unmounted == effect' = NoJob /\ attempts' = 0 /\ polls' = {}

(* handleDone and handleFailed with the page's onDone and onFailed: the    *)
(* item is found by its job, and only a diagnosing one can fail.           *)
Followers(j) == {i \in Items : qjob[i] = j}

EndWith(outcome) ==
    /\ terminal' = TRUE
    /\ closer' = NoJob
    /\ phase' = outcome
    /\ UNCHANGED jobId

(* Mutant: the item is found by its status. *)
FinishAnyDiagnosing(j) ==
    /\ EndWith("done")
    /\ SetStatus({i \in Items : queue[i] = "diagnosing"}, "diagnosed")
    /\ incident' = [i \in Items |->
           IF queue[i] = "diagnosing" THEN j ELSE incident[i]]
    /\ UNCHANGED qjob

HandleDone(j) ==
    /\ EndWith("done")
    /\ SetStatus(Followers(j), "diagnosed")
    /\ incident' = [i \in Items |->
           IF i \in Followers(j) /\ Listed(i) THEN j ELSE incident[i]]
    /\ UNCHANGED qjob

HandleFailed(j) ==
    /\ EndWith("failed")
    /\ SetStatus({i \in Followers(j) : queue[i] = "diagnosing"},
                 "diagnosis_failed")
    /\ UNCHANGED <<qjob, incident>>

Handle(outcome, j) ==
    IF outcome = "done" THEN HandleDone(j) ELSE HandleFailed(j)

(* The server sends a job's outcome to its stream; the event may be        *)
(* overtaken by anything else.                                             *)
SendEvent(j) ==
    /\ j \in sources
    /\ Ended(j)
    /\ inbox[j] = "none"
    /\ inbox' = [inbox EXCEPT ![j] = job[j]]
    /\ UNCHANGED <<serverVars, callVars, phase, jobId, terminal, sources,
                   closer, pollVars, queueVars, pending, recs, flow, faults>>

ReceiveEvent(j) ==
    /\ j \in sources
    /\ inbox[j] # "none"
    /\ \/ jobId = j /\ Handle(inbox[j], j) /\ Close({j, closer})
       \/ /\ jobId # j /\ Close({j})
          /\ UNCHANGED <<phase, jobId, terminal, closer, queueVars>>
    /\ UNCHANGED <<serverVars, callVars, pollVars, pending, recs, flow, faults>>

(* Mutant: an interrupted stream is only logged. *)
StreamErrorIgnored(j) ==
    /\ j \in sources
    /\ Fault \/ (key[j] # "whole" /\ UNCHANGED faults)
    /\ sources' = sources \ {j}
    /\ inbox' = [inbox EXCEPT ![j] = "none"]
    /\ UNCHANGED <<serverVars, callVars, phase, jobId, terminal, closer,
                   pollVars, queueVars, pending, recs, flow>>

(* onerror: the browser reconnects by itself, or gives the stream up.      *)
StreamError(j) ==
    /\ j \in sources
    /\ Fault \/ (key[j] # "whole" /\ UNCHANGED faults)
    /\ \/ sources' = sources \ {j}
       \/ key[j] = "whole" /\ UNCHANGED sources
    /\ inbox' = [inbox EXCEPT ![j] = "none"]
    /\ phase' = IF ~terminal /\ jobId = j THEN "reconnecting" ELSE phase
    /\ UNCHANGED <<serverVars, callVars, jobId, terminal, closer, pollVars,
                   queueVars, pending, recs, flow>>

-----------------------------------------------------------------------------
(* Polling while reconnecting.  The effect depends on callbacks that are   *)
(* new in every render, so each render mounts it again: attempts start     *)
(* anew and answers on the way are dropped.  The page renders when a       *)
(* stage changes and whenever the queue is refreshed.                      *)

Wanted == IF phase = "reconnecting" THEN jobId ELSE NoJob

Render ==
    /\ \/ Wanted # effect
       \/ effect # NoJob /\ job[effect] = "open"
       \/ effect # NoJob /\ \E i \in Items : queue[i] = "diagnosing"
    /\ effect' = Wanted /\ attempts' = 0 /\ polls' = {}
    /\ UNCHANGED <<serverVars, callVars, hookVars, queueVars, pending, recs,
                   flow, faults>>

PollSend ==
    /\ effect # NoJob
    /\ attempts' = IF attempts < MaxAttempts THEN attempts + 1 ELSE attempts
    /\ \/ /\ polls' = polls \cup {IF Answer(effect) \in {"done", "failed"}
                                   THEN Answer(effect) ELSE "other"}
          /\ UNCHANGED faults
       \/ polls' = polls \cup {"other"} /\ Fault
    /\ UNCHANGED <<serverVars, callVars, hookVars, effect, queueVars, pending,
                   recs, flow>>

PollReturn(a) ==
    /\ a \in polls
    /\ polls' = polls \ {a}
    /\ \/ a # "other" /\ Handle(a, effect) /\ CloseStream
       \/ /\ a = "other" /\ attempts >= MaxAttempts
          /\ HandleFailed(effect) /\ CloseStream
       \/ a = "other" /\ attempts < MaxAttempts /\ UNCHANGED <<hookVars, queueVars>>
    /\ UNCHANGED <<serverVars, callVars, effect, attempts, pending, recs, flow,
                   faults>>

-----------------------------------------------------------------------------
(* startDiagnosisForItem.                                                  *)

Begin(j, is) ==
    /\ ResetTo("running")
    /\ call' = [call EXCEPT ![j] = "creating"]
    /\ pending' = pending \cup is
    /\ SetStatus(is, "diagnosing")
    /\ qjob' = [i \in Items |-> IF i \in is THEN NoJob ELSE qjob[i]]
    /\ incident' = [i \in Items |-> IF i \in is THEN NoJob ELSE incident[i]]

(* Diagnose, Retry or Re-diagnose: the job of a running diagnosis is       *)
(* cancelled first.                                                        *)
Click(i, j) ==
    /\ queue[i] \in {"triggered", "diagnosing", "diagnosis_failed"}
    /\ call[j] = "unused" /\ \A k \in Jobs : k < j => call[k] # "unused"
    /\ owner' = [owner EXCEPT ![j] = {i}]
    /\ IF queue[i] = "diagnosing" /\ qjob[i] # NoJob
         THEN /\ ResetTo("idle")
              /\ victim' = [victim EXCEPT ![j] = qjob[i]]
              /\ call' = [call EXCEPT ![j] = "cancelling"]
              /\ UNCHANGED <<queueVars, pending>>
         ELSE Begin(j, {i}) /\ UNCHANGED victim
    /\ Unmounted
    /\ UNCHANGED <<serverVars, recs, flow, faults>>

CancelArrives(j) ==
    /\ call[j] = "cancelling"
    /\ Answer(victim[j]) = "open"
    /\ Server!Fail(victim[j])
    /\ UNCHANGED <<key, callVars, hookVars, pollVars, queueVars, pending, recs,
                   flow, faults>>

CancelOk(j) ==
    /\ call[j] = "cancelling"
    /\ Answer(victim[j]) \notin {"open", "error"}
    /\ Begin(j, owner[j])
    /\ victim' = [victim EXCEPT ![j] = NoJob]
    /\ UNCHANGED <<serverVars, owner, pollVars, recs, flow, faults>>

End(j) ==
    /\ call' = [call EXCEPT ![j] = "ended"]
    /\ stale' = stale \ {j}
    /\ victim' = [victim EXCEPT ![j] = NoJob]

CancelError(j) ==
    /\ call[j] = "cancelling"
    /\ Fault \/ (Answer(victim[j]) = "error" /\ UNCHANGED faults)
    /\ End(j)
    /\ SetStatus(owner[j], "diagnosis_failed")
    /\ UNCHANGED <<serverVars, owner, hookVars, pollVars, qjob,
                   incident, pending, recs, flow>>

CreateArrives(j) ==
    /\ call[j] = "creating"
    /\ Server!Submit(j)
    /\ call' = [call EXCEPT ![j] = "created"]
    /\ UNCHANGED <<key, owner, victim, stale, hookVars, pollVars, queueVars,
                   pending, recs, flow, faults>>

(* startDiagnosis returned null: superseded, or no job was created.        *)
ReturnNull(j) ==
    /\ End(j)
    /\ SetStatus({i \in owner[j] : queue[i] = "diagnosing"},
                 "diagnosis_failed")
    /\ pending' = pending \ owner[j]
    /\ UNCHANGED <<qjob, incident>>

Subscribe(j) ==
    /\ jobId' = j
    /\ terminal' = FALSE
    /\ sources' = (sources \ {closer}) \cup {j}
    /\ inbox' = [k \in Jobs |-> IF k = closer THEN "none" ELSE inbox[k]]
    /\ closer' = j
    /\ UNCHANGED phase

ReturnJob(j) ==
    /\ Subscribe(j)
    /\ End(j)
    /\ qjob' = [i \in Items |-> IF i \in owner[j] /\ Listed(i) THEN j ELSE qjob[i]]
    /\ pending' = pending \ owner[j]
    /\ UNCHANGED <<queue, incident>>

(* Mutant: the generation is not compared after the job was created. *)
CreateReturnsUnchecked(j) ==
    /\ call[j] = "created"
    /\ ReturnJob(j)
    /\ UNCHANGED <<serverVars, owner, pollVars, recs, flow, faults>>

CreateReturns(j) ==
    /\ call[j] = "created"
    /\ \/ j \notin stale /\ ReturnJob(j)
       \/ j \in stale /\ ReturnNull(j) /\ UNCHANGED hookVars
    /\ UNCHANGED <<serverVars, owner, pollVars, recs, flow, faults>>

(* Refused by the gateway, or created with the answer lost.                *)
CreateError(j) ==
    /\ Fault
    /\ call[j] \in {"creating", "created"}
    /\ ReturnNull(j)
    /\ phase' = IF j \in stale THEN phase ELSE "failed"
    /\ UNCHANGED <<serverVars, owner, jobId, terminal, sources, closer, inbox,
                   pollVars, recs, flow>>

-----------------------------------------------------------------------------
(* reconcileDiagnoses, every 2 s: what the server says of each diagnosing  *)
(* item.  An item without a job fails at once unless its call is pending;  *)
(* an answer is applied to the item without looking at it again.           *)

(* Mutant: an item without a job is left alone. *)
ReconcileWithJob(i) ==
    /\ queue[i] = "diagnosing"
    /\ qjob[i] # NoJob /\ Answer(qjob[i]) \in {"done", "failed", "gone"}
    /\ Cardinality(recs) < MaxAnswers
    /\ recs' = recs \cup
          {[item |-> i, job |-> qjob[i], answer |-> Answer(qjob[i])]}
    /\ UNCHANGED <<serverVars, callVars, hookVars, pollVars, queueVars, pending,
                   flow, faults>>

Reconcile(i) ==
    /\ queue[i] = "diagnosing"
    /\ \/ /\ qjob[i] = NoJob /\ i \notin pending
          /\ SetStatus({i}, "diagnosis_failed")
          /\ UNCHANGED recs
       \/ /\ qjob[i] # NoJob /\ Answer(qjob[i]) \in {"done", "failed", "gone"}
          /\ Cardinality(recs) < MaxAnswers
          /\ recs' = recs \cup
                {[item |-> i, job |-> qjob[i], answer |-> Answer(qjob[i])]}
          /\ UNCHANGED queue
    /\ UNCHANGED <<serverVars, callVars, hookVars, pollVars, qjob, incident,
                   pending, flow, faults>>

(* Mutant: the item takes the status of the job. *)
ReconciledAsIs(r) ==
    /\ r \in recs
    /\ recs' = recs \ {r}
    /\ SetStatus({r.item}, r.answer)
    /\ UNCHANGED <<serverVars, callVars, hookVars, pollVars, qjob, incident,
                   pending, flow, faults>>

Reconciled(r) ==
    /\ r \in recs
    /\ recs' = recs \ {r}
    /\ SetStatus({r.item}, IF r.answer = "done" THEN "diagnosed"
                                                ELSE "diagnosis_failed")
    /\ incident' = IF r.answer = "done" /\ Listed(r.item)
                     THEN [incident EXCEPT ![r.item] = r.job] ELSE incident
    /\ UNCHANGED <<serverVars, callVars, hookVars, pollVars, qjob, pending, flow,
                   faults>>

-----------------------------------------------------------------------------
(* Completing incidents: cancel the active jobs (Mark as Completed and     *)
(* Reset Demo), restore the workload, then change the queue.  The items    *)
(* are those that the scenarios page adds, the only ones that this         *)
(* dashboard ever does; one with the source "detected" is completed alone, *)
(* see MarkCompleted of ErrorWorkspace.                                    *)

StartFlow(f) ==
    /\ flow = "idle"
    /\ \/ f \in {"fix", "cancel to fix"} /\ \E i \in Items : queue[i] = "diagnosed"
       \/ f = "cancel to clear"
    /\ flow' = f
    /\ UNCHANGED <<serverVars, callVars, hookVars, pollVars, queueVars, pending,
                   recs, faults>>

FlowCancels(j) ==
    /\ flow \in {"cancel to fix", "cancel to clear"}
    /\ Answer(j) = "open"
    /\ Server!Fail(j)
    /\ UNCHANGED <<key, callVars, hookVars, pollVars, queueVars, pending, recs,
                   flow, faults>>

FlowCancelled ==
    /\ flow \in {"cancel to fix", "cancel to clear"}
    /\ ~Unreadable
    /\ flow' = IF flow = "cancel to fix" THEN "fix" ELSE "clear"
    /\ UNCHANGED <<serverVars, callVars, hookVars, pollVars, queueVars, pending,
                   recs, faults>>

FlowFails ==
    /\ flow # "idle"
    /\ Fault \/ (Unreadable /\ UNCHANGED faults)
    /\ flow' = "idle"
    /\ UNCHANGED <<serverVars, callVars, hookVars, pollVars, queueVars, pending,
                   recs>>

(* Mutant: the hook is not reset. *)
FlowEndsFollowing ==
    /\ \/ flow = "fix" /\ SetStatus(Items, "fixed") /\ UNCHANGED <<qjob, incident>>
       \/ flow = "clear" /\ ClearQueue
    /\ flow' = "idle"
    /\ UNCHANGED <<serverVars, callVars, hookVars, pollVars, pending, recs,
                   faults>>

FlowEnds ==
    /\ \/ flow = "fix" /\ SetStatus(Items, "fixed") /\ UNCHANGED <<qjob, incident>>
       \/ flow = "clear" /\ ClearQueue
    /\ ResetTo("idle")
    /\ flow' = "idle"
    /\ UNCHANGED <<serverVars, call, owner, victim, pollVars, pending, recs,
                   faults>>

(* Clear Local History.                                                    *)
ClearHistory ==
    /\ \E i \in Items : Listed(i)
    /\ ClearQueue
    /\ ResetTo("idle")
    /\ Unmounted
    /\ UNCHANGED <<serverVars, call, owner, victim, pending, recs, flow, faults>>

-----------------------------------------------------------------------------
(* The server, and a reload of the page: only the queue survives, and the  *)
(* requests that are on the way (a cancelled job then fails in JobRuns).   *)

(* A cancel that comes before the job's task is registered does not stop   *)
(* it; what a job writes brings back a dropped key, in part.               *)
JobRuns(j) ==
    /\ \/ /\ \/ job[j] # "absent" /\ j \notin report /\ Server!Save(j)
             \/ Server!Finish(j)
             \/ Server!Fail(j)
          /\ UNCHANGED faults
       \/ Server!Reopen(j) /\ Fault
    /\ key' = [key EXCEPT ![j] = IF @ = "missing" THEN "partial" ELSE @]
    /\ UNCHANGED <<callVars, hookVars, pollVars, queueVars, pending, recs, flow>>

JobEnds(j) == job[j] = "open" /\ JobRuns(j)

Evict(j) ==
    /\ Fault
    /\ job[j] # "absent"
    /\ key[j] # "missing"
    /\ key' = [key EXCEPT ![j] = "missing"]
    /\ UNCHANGED <<job, report, callVars, hookVars, pollVars, queueVars,
                   pending, recs, flow>>

Reload ==
    /\ Fault
    /\ call' = [j \in Jobs |->
                  CASE call[j] = "unused" -> "unused"
                    [] call[j] \in {"creating", "abandoned"} -> "abandoned"
                    [] OTHER -> "ended"]
    /\ victim' = [j \in Jobs |-> NoJob] /\ stale' = {}
    /\ phase' = "idle" /\ jobId' = NoJob /\ terminal' = FALSE
    /\ sources' = {} /\ closer' = NoJob /\ inbox' = [j \in Jobs |-> "none"]
    /\ Unmounted
    /\ pending' = {} /\ recs' = {} /\ flow' = "idle"
    /\ UNCHANGED <<serverVars, owner, queueVars>>

AbandonedArrives(j) ==
    /\ call[j] = "abandoned"
    /\ Server!Submit(j)
    /\ call' = [call EXCEPT ![j] = "ended"]
    /\ UNCHANGED <<key, owner, victim, stale, hookVars, pollVars, queueVars,
                   pending, recs, flow, faults>>

CallStep(j) ==
    CancelArrives(j) \/ CancelOk(j) \/ CreateArrives(j) \/ CreateReturns(j)

FlowStep ==
    \/ \E f \in Flows : StartFlow(f)
    \/ \E j \in Jobs : FlowCancels(j)
    \/ FlowCancelled \/ FlowFails \/ FlowEnds

Next ==
    \/ \E i \in Items : Trigger(i) \/ Reconcile(i)
    \/ \E i \in Items, j \in Jobs : Click(i, j)
    \/ \E j \in Jobs :
          \/ CallStep(j) \/ CancelError(j) \/ CreateError(j)
          \/ SendEvent(j) \/ ReceiveEvent(j) \/ StreamError(j)
          \/ JobRuns(j) \/ Evict(j) \/ AbandonedArrives(j)
    \/ Render \/ PollSend
    \/ \E a \in polls : PollReturn(a)
    \/ \E r \in recs : Reconciled(r)
    \/ FlowStep \/ ClearHistory \/ Reload

Spec == Init /\ [][Next]_vars

(* Jobs settle (JobsSettle of Orchestrator), calls are answered, open      *)
(* streams deliver, timers fire, and React renders what has changed.       *)
Fairness ==
    /\ \A j \in Jobs :
          WF_vars(JobEnds(j)) /\ WF_vars(CallStep(j))
    /\ WF_vars(\E j \in sources : ReceiveEvent(j))
    /\ WF_vars(\E j \in sources :
                  \/ SendEvent(j)
                  \/ key[j] # "whole" /\ Ended(j) /\ StreamError(j))
    /\ \A i \in Items : WF_vars(Reconcile(i))
    /\ WF_vars(\E r \in recs : Reconciled(r))
    /\ WF_vars(Wanted # effect /\ Render)
    /\ WF_vars(PollSend)
    /\ SF_vars(\E a \in polls : PollReturn(a))

FairSpec == Spec /\ Fairness

-----------------------------------------------------------------------------
(* A diagnosis that the queue shows is stored, and is one of this very     *)
(* item, however often it was restarted and whichever of stream, poll and  *)
(* reconciliation answered.                                                *)
DiagnosedIsReal ==
    \A i \in Items : queue[i] = "diagnosed" =>
        incident[i] \in report /\ owner[incident[i]] = {i}

(* The hook follows one job, the one of its latest start: a stream is open *)
(* only for the hook's job, before its outcome was handled, and every start *)
(* still under way was superseded.                                         *)
FollowsLatest ==
    \A j \in sources :
        /\ jobId = j /\ closer = j /\ ~terminal
        /\ \A k \in Jobs : call[k] \in {"creating", "created"} => k \in stale

-----------------------------------------------------------------------------
(* A fixed item stays fixed, whatever its stream, its start or another     *)
(* item's diagnosis still brings.  Three things are not called back when   *)
(* the item is completed, and may undo it: an answer to reconcileDiagnoses,*)
(* a Re-diagnose that waits for its cancel, and a poll of an effect that is*)
(* mounted until the next render.                                          *)
Quiet(i) ==
    /\ \A r \in recs : r.item # i
    /\ \A j \in Jobs : i \in owner[j] => call[j] # "cancelling"
    /\ qjob[i] # NoJob => qjob[i] # effect

FixedStaysFixed ==
    [][\A i \in Items : queue[i] = "fixed" /\ Quiet(i)
           => queue'[i] \in {"fixed", "cleared"}]_vars

-----------------------------------------------------------------------------
(* A diagnosis in the queue comes to an end, also when the page is         *)
(* reloaded, its stream breaks or its job is dropped in the meantime: only *)
(* a job that cannot be read keeps it.                                     *)
DiagnosesEnd ==
    \A i \in Items :
        queue[i] = "diagnosing" ~> queue[i] # "diagnosing" \/ Unreadable

(* The hook does not stay in a running phase.                              *)
PhaseSettles ==
    phase \in {"running", "reconnecting"}
        ~> phase \notin {"running", "reconnecting"} \/ Unreadable
=============================================================================
