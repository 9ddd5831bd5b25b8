------------------------------ MODULE JobSpec -------------------------------
(***************************************************************************)
(* What the analysis of a job promises, whatever happens in between: a job *)
(* is done only with a stored report, a done job is never analysed again,  *)
(* and a failed one only where cancellation is offered.                    *)
(***************************************************************************)
CONSTANTS Jobs,
          Reopens    \* whether a failed job may be analysed further

VARIABLES state,     \* "absent", "open", "done" or "failed", by job
          report     \* jobs whose report is stored

vars == <<state, report>>

Init == state = [j \in Jobs |-> "absent"] /\ report = {}

Submit(j) ==
    /\ state[j] = "absent"
    /\ state' = [state EXCEPT ![j] = "open"]
    /\ UNCHANGED report

Save(j) == report' = report \cup {j} /\ UNCHANGED state

Finish(j) ==
    /\ state[j] = "open" \/ (Reopens /\ state[j] = "failed")
    /\ j \in report
    /\ state' = [state EXCEPT ![j] = "done"]
    /\ UNCHANGED report

(* The deadline may pass, or an error be raised, after the job was done. *)
Fail(j) ==
    /\ state[j] \in {"open", "done"}
    /\ state' = [state EXCEPT ![j] = "failed"]
    /\ UNCHANGED report

Reopen(j) ==
    /\ Reopens /\ state[j] = "failed"
    /\ state' = [state EXCEPT ![j] = "open"]
    /\ UNCHANGED report

Next == \E j \in Jobs :
            Submit(j) \/ Save(j) \/ Finish(j) \/ Fail(j) \/ Reopen(j)

Spec == Init /\ [][Next]_vars
=============================================================================
