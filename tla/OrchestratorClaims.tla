------------------------- MODULE OrchestratorClaims -------------------------
(***************************************************************************)
(* What the repository's contracts and documents say of orchestrator-svc   *)
(* and its code does not do.  TLC refutes each of these on a small         *)
(* instance of Orchestrator.                                               *)
(***************************************************************************)
EXTENDS Orchestrator

(* contracts/api/orchestrator.yaml, POST /jobs/{job_id}/cancel answers     *)
(* with "Current terminal job state".  A job cancelled while create_job    *)
(* still awaits the "queued" snapshot has no task to cancel; it is failed, *)
(* and then its pipeline starts all the same.                              *)
CancelAnswersTerminal ==
    [][\A c \in Cancels :
           cpc[c] = "next" /\ cpc'[c] = "ended"
               => \A j \in cancelled[c] : status[j] \in Terminal]_vars

(* docs/architecture.md: "Any failure -> status=failed (error, latency_ms) *)
(* - archived too."  Failures that Pipeline.run does not see, the timeout  *)
(* and the cancel, are never sent to reports-svc.                          *)
FailureArchived ==
    \A j \in Jobs :
        /\ pc[j] = "ended" /\ status[j] = "failed"
        /\ \A m \in wire : m.job # j
        => row[j] = "failed"

(* stream_job: "forwards live pub/sub messages until the job reaches a     *)
(* terminal state".  A cancel that lands between the HSET of "done" and    *)
(* its PUBLISH leaves the job terminal and announces nothing, so the       *)
(* stream polls for ever.                                                  *)
TerminalJobEndsStream ==
    \A s \in Streams :
        spc[s] = "live" /\ status[sjob[s]] \in Terminal ~> spc[s] = "closed"
=============================================================================
