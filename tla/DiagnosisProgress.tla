--------------------------- MODULE DiagnosisProgress ---------------------------
(***************************************************************************)
(* What a page shows of a diagnosis while it runs: the stages that are     *)
(* ticked off and the trace of the model's call (components/diagnosis-     *)
(* progress.tsx), from the status and the activity that hooks/use-         *)
(* diagnosis-job.ts collects from the job's stream and, when that breaks,  *)
(* from polls.  The queue around it is DiagnosisClient's subject.          *)
(*                                                                         *)
(* The statuses of a job are their ranks in the pipeline.                  *)
(***************************************************************************)
EXTENDS Integers, Sequences, FiniteSets

CONSTANTS MaxRuns,      \* bound: diagnoses on one page
          MaxPolls      \* bound: different answers on the way to polls

ASSUME ProgressAssumption == {MaxRuns, MaxPolls} \subseteq Nat

VARIABLES phase, shownStatus, activity,   \* the hook
          creating,     \* createJob is on its way
          polls,        \* the polls on the way, by the status they found
          runs,
          reached, outcome,     \* the job: its last stage, and its end
          stream, forwarded,    \* its event stream, and what that sent last
          replayed      \* history: a stream began with the model's stage, and
                        \* an older one was still to come

jobVars == <<reached, outcome>>
hookVars == <<phase, shownStatus, activity, polls>>
progressVars == <<hookVars, creating, runs, jobVars, stream, forwarded,
                  replayed>>

Queued == 0
LlmCall == 3
Persisting == 4
DoneStatus == 5
FailedStatus == 6
JobStatuses == Queued .. FailedStatus
Stages == 1 .. Persisting
Entries == [kind : {"stage", "done", "failed"}, status : JobStatuses]

ProgressTypeOK ==
    /\ phase \in {"idle", "running", "reconnecting", "done", "failed"}
    /\ shownStatus \in JobStatuses /\ polls \subseteq JobStatuses
    /\ activity \in Seq(Entries)
    /\ reached \in Queued .. Persisting
    /\ outcome \in {"running", "done", "failed"}
    /\ stream \in {"none", "subscribed", "live"}
    /\ forwarded \in Queued .. Persisting
    /\ {creating, replayed} \subseteq BOOLEAN /\ runs \in 0 .. MaxRuns

ProgressInit ==
    /\ phase = "idle" /\ shownStatus = Queued /\ activity = <<>>
    /\ creating = FALSE /\ polls = {} /\ runs = 0
    /\ reached = Queued /\ outcome = "running"
    /\ stream = "none" /\ forwarded = Queued /\ replayed = FALSE

-----------------------------------------------------------------------------
(* The hook.  By the time that createJob is answered and the stream is     *)
(* subscribed, the job is wherever it may be.  A status is stored before   *)
(* it is published, so the subscription is a stage behind or none.         *)

Following == phase \in {"running", "reconnecting"}

(* Mutant: reset keeps the trace. *)
ResetHookKeepingTrace(to) ==
    /\ phase' = to /\ shownStatus' = Queued /\ polls' = {}
    /\ stream' = "none" /\ forwarded' = Queued /\ replayed' = FALSE
    /\ UNCHANGED activity

ResetHook(to) ==
    /\ phase' = to /\ shownStatus' = Queued /\ polls' = {}
    /\ stream' = "none" /\ forwarded' = Queued /\ replayed' = FALSE
    /\ activity' = <<>>

StartDiagnosis ==
    /\ ~Following
    /\ runs < MaxRuns /\ runs' = runs + 1
    /\ ResetHook("running") /\ creating' = TRUE
    /\ reached' = Queued /\ outcome' = "running"

RunAnother ==
    /\ phase \in {"done", "failed"}
    /\ ResetHook("idle")
    /\ UNCHANGED <<creating, runs, jobVars>>

Subscribes ==
    /\ stream' = "subscribed"
    /\ forwarded' \in {reached, reached - 1} \cap Nat

CreateReturns ==
    /\ creating
    /\ creating' = FALSE
    /\ \/ Subscribes /\ UNCHANGED phase
       \/ phase' = "failed" /\ UNCHANGED <<stream, forwarded>>
    /\ UNCHANGED <<shownStatus, activity, polls, runs, jobVars, replayed>>

(* appendActivity drops a repetition of the last entry.                    *)
Appended(entry) ==
    IF activity # <<>> /\ activity[Len(activity)] = entry THEN activity
    ELSE Append(activity, entry)

(* handleDone and handleFailed.                                            *)
EndsAs(end) ==
    /\ phase' = end
    /\ shownStatus' = IF end = "done" THEN DoneStatus ELSE FailedStatus
    /\ activity' = Appended([kind |-> end, status |-> shownStatus'])
    /\ stream' = "none" /\ polls' = {}

ShowsStage(s) ==
    /\ shownStatus' = s
    /\ activity' = Appended([kind |-> "stage", status |-> s])
    /\ UNCHANGED <<phase, polls>>

-----------------------------------------------------------------------------
(* The job and its stream.  The service subscribes, then replays the state,*)
(* then forwards what was published since it subscribed.                   *)

JobGoesOn ==
    /\ Following /\ outcome = "running"
    /\ \/ reached < Persisting /\ reached' = reached + 1 /\ UNCHANGED outcome
       \/ reached = Persisting /\ outcome' = "done" /\ UNCHANGED reached
       \/ outcome' = "failed" /\ UNCHANGED reached
    /\ UNCHANGED <<hookVars, creating, runs, stream, forwarded, replayed>>

(* EventSource connects again.                                             *)
Resubscribes ==
    /\ phase = "reconnecting" /\ stream = "none"
    /\ Subscribes
    /\ UNCHANGED <<hookVars, creating, runs, jobVars, replayed>>

Replays ==
    /\ stream = "subscribed"
    /\ IF outcome = "running"
         THEN /\ ShowsStage(reached)
              /\ stream' = "live"
              /\ replayed' = (replayed \/ (/\ reached = LlmCall
                                            /\ forwarded + 1 < LlmCall))
         ELSE EndsAs(outcome) /\ UNCHANGED replayed
    /\ UNCHANGED <<creating, runs, jobVars, forwarded>>

Forwards ==
    /\ stream = "live"
    /\ \/ /\ forwarded < reached
          /\ forwarded' = forwarded + 1
          /\ ShowsStage(forwarded')
          /\ UNCHANGED stream
       \/ /\ forwarded = reached /\ outcome # "running"
          /\ EndsAs(outcome)
          /\ UNCHANGED forwarded
    /\ UNCHANGED <<creating, runs, jobVars, replayed>>

StreamBreaks ==
    /\ stream # "none"
    /\ stream' = "none" /\ forwarded' = Queued /\ phase' = "reconnecting"
    /\ UNCHANGED <<shownStatus, activity, polls, creating, runs, jobVars,
                   replayed>>

(* Polls overlap, and are answered in any order.  A render that changes the*)
(* handlers drops those on the way; they are never answered then.          *)
Poll ==
    /\ phase = "reconnecting"
    /\ Cardinality(polls) < MaxPolls
    /\ polls' = polls \cup {CASE outcome = "running" -> reached
                              [] outcome = "done" -> DoneStatus
                              [] OTHER -> FailedStatus}
    /\ UNCHANGED <<phase, shownStatus, activity, creating, runs, jobVars,
                   stream, forwarded, replayed>>

(* After 15 polls of a job that runs, the client takes it for failed.      *)
PollAnswers(s) ==
    /\ s \in polls
    /\ CASE s = DoneStatus -> EndsAs("done")
         [] s = FailedStatus -> EndsAs("failed")
         [] OTHER ->
              \/ /\ shownStatus' = s /\ polls' = polls \ {s}
                 /\ UNCHANGED <<phase, activity, stream>>
              \/ EndsAs("failed")
    /\ UNCHANGED <<creating, runs, jobVars, forwarded, replayed>>

ProgressNext ==
    \/ StartDiagnosis \/ RunAnother \/ CreateReturns \/ JobGoesOn
    \/ Resubscribes \/ Replays \/ Forwards \/ StreamBreaks \/ Poll
    \/ \E s \in polls : PollAnswers(s)

ProgressSpec == ProgressInit /\ [][ProgressNext]_progressVars

-----------------------------------------------------------------------------
(* What the page shows of the pipeline.                                    *)

(* A stage that is ticked off.                                             *)
Ticked(s) ==
    /\ phase # "failed"
    /\ shownStatus = DoneStatus \/ (shownStatus \in Stages /\ s < shownStatus)

(* LlmActivityLog: what follows the first entry of the model's stage.      *)
TraceSays ==
    LET calls == {i \in 1 .. Len(activity) : activity[i].status = LlmCall}
        First(S) == CHOOSE i \in S : \A j \in S : i <= j
        later == {j \in 1 .. Len(activity) :
                     j > First(calls) /\ activity[j].status # LlmCall}
    IN IF calls = {} THEN "nothing"
       ELSE IF later = {} THEN "waiting"
       ELSE IF activity[First(later)].kind = "failed" THEN "error"
       ELSE "received"

(* A stage is only ticked off, and the model's response only said to be    *)
(* received, when this run's job is past that stage, wherever it was when  *)
(* createJob was answered or a stream or poll began; unless a stream began *)
(* with the model's stage itself and went on with an older one.            *)
ProgressIsReal ==
    LET Past(s) == s < reached \/ outcome = "done" IN
    /\ \A s \in Stages : Ticked(s) => Past(s)
    /\ TraceSays = "received" => Past(LlmCall) \/ replayed
=============================================================================
