----------------------------- MODULE Remediation -----------------------------
(***************************************************************************)
(* remediation-svc: one proposal, the operators' requests to approve or    *)
(* reject it, and the lock that approvals take (services/remediation/app/  *)
(* main.py, manager.py).  Proposals share nothing but the cluster, so one  *)
(* is enough.                                                              *)
(*                                                                         *)
(* A handler reads the record, checks that it is pending, and only then    *)
(* claims the lock; each Redis command and each kubectl command is a step, *)
(* between which other handlers run.  A Redis command that raises may have *)
(* taken effect.                                                           *)
(***************************************************************************)
EXTENDS Naturals

CONSTANTS Approvals,    \* POST /remediations/{id}/approve requests
          Rejections    \* POST /remediations/{id}/reject requests

ASSUME RequestsAssumption == Approvals \cap Rejections = {}

VARIABLES record,     \* status of remediation:{id}; "none": not created yet
          locked,     \* remediation:{id}:lock exists
          pc,         \* where each request's handler is
          outcome,    \* what an approval will save
          patched,    \* approvals whose patch changed the Deployment
          rolledOut,  \* approvals whose rollout was verified
          mishaps     \* history: what went wrong so far

vars == <<record, locked, pc, outcome, patched, rolledOut, mishaps>>

Requests == Approvals \cup Rejections
Decided == {"applied", "failed", "rejected"}
Records == {"none", "pending", "applying", "expired"} \cup Decided
(* From the claim of the lock to its release. *)
Section == {"claimed", "patch", "rollout", "save", "release"}
InSection(a) == pc[a] \in Section

(* "overrun": the lock's TTL ran out while an approval held it.            *)
(* "interrupted": an approval was cut short by a restart, by an exception  *)
(* its handler does not expect, or by a Redis error.                       *)
Mishaps == {"overrun", "interrupted"}
Note(what) == mishaps' = mishaps \cup {what}

TypeOK ==
    /\ record \in Records
    /\ locked \in BOOLEAN
    /\ pc \in [Requests -> {"idle", "loaded", "ended"} \cup Section]
    /\ outcome \in [Approvals -> {"applied", "failed"}]
    /\ patched \subseteq Approvals
    /\ rolledOut \subseteq Approvals
    /\ mishaps \subseteq Mishaps

Init ==
    /\ record = "none"
    /\ locked = FALSE
    /\ pc = [q \in Requests |-> "idle"]
    /\ outcome = [a \in Approvals |-> "failed"]
    /\ patched = {}
    /\ rolledOut = {}
    /\ mishaps = {}

Goto(q, at) == pc' = [pc EXCEPT ![q] = at]

-----------------------------------------------------------------------------
(* A proposal is recorded once its server-side dry run has succeeded.      *)

Propose ==
    /\ record = "none"
    /\ record' = "pending"
    /\ UNCHANGED <<locked, pc, outcome, patched, rolledOut, mishaps>>

(* Mutant: the handlers go on whatever the status is. *)
LoadUnchecked(q) ==
    /\ pc[q] = "idle"
    /\ record # "none"
    /\ Goto(q, "loaded")
    /\ UNCHANGED <<record, locked, outcome, patched, rolledOut, mishaps>>

(* 404 if the record has expired, 409 if it is not pending.                *)
Load(q) ==
    /\ pc[q] = "idle"
    /\ record # "none"
    /\ Goto(q, IF record = "pending" THEN "loaded" ELSE "ended")
    /\ UNCHANGED <<record, locked, outcome, patched, rolledOut, mishaps>>

Reject(r) ==
    /\ pc[r] = "loaded"
    /\ record' = "rejected"
    /\ Goto(r, "ended")
    /\ UNCHANGED <<locked, outcome, patched, rolledOut, mishaps>>

-----------------------------------------------------------------------------
(* Approval.                                                               *)

(* Mutant: SET without NX. *)
ClaimAlways(a) ==
    /\ pc[a] = "loaded"
    /\ locked' = TRUE
    /\ Goto(a, "claimed")
    /\ UNCHANGED <<record, outcome, patched, rolledOut, mishaps>>

(* SET NX: 409 if somebody else is applying the proposal.                  *)
Claim(a) ==
    /\ pc[a] = "loaded"
    /\ locked' = TRUE
    /\ Goto(a, IF locked THEN "ended" ELSE "claimed")
    /\ UNCHANGED <<record, outcome, patched, rolledOut, mishaps>>

(* Mutant: the record is not saved before the patch. *)
SaveApplyingLate(a) ==
    /\ pc[a] = "claimed"
    /\ Goto(a, "patch")
    /\ UNCHANGED <<record, locked, outcome, patched, rolledOut, mishaps>>

SaveApplying(a) ==
    /\ pc[a] = "claimed"
    /\ record' = "applying"
    /\ Goto(a, "patch")
    /\ UNCHANGED <<locked, outcome, patched, rolledOut, mishaps>>

Patch(a) ==
    /\ pc[a] = "patch"
    /\ patched' = patched \cup {a}
    /\ Goto(a, "rollout")
    /\ UNCHANGED <<record, locked, outcome, rolledOut, mishaps>>

RolloutOk(a) ==
    /\ pc[a] = "rollout"
    /\ outcome' = [outcome EXCEPT ![a] = "applied"]
    /\ rolledOut' = rolledOut \cup {a}
    /\ Goto(a, "save")
    /\ UNCHANGED <<record, locked, patched, mishaps>>

(* Mutant: a failed rollout is reported as applied. *)
KubectlFailsSilently(a) ==
    /\ pc[a] \in {"patch", "rollout"}
    /\ outcome' = [outcome EXCEPT ![a] = "applied"]
    /\ Goto(a, "save")
    /\ UNCHANGED <<record, locked, patched, rolledOut, mishaps>>

(* Mutant: the error is answered but the record is not saved. *)
KubectlFailsUnsaved(a) ==
    /\ pc[a] \in {"patch", "rollout"}
    /\ Goto(a, "release")
    /\ UNCHANGED <<record, locked, outcome, patched, rolledOut, mishaps>>

(* A RemediationError: the patch is refused, or it has changed the         *)
(* Deployment but the rollout does not succeed.                            *)
KubectlFails(a) ==
    /\ pc[a] \in {"patch", "rollout"}
    /\ outcome' = [outcome EXCEPT ![a] = "failed"]
    /\ Goto(a, "save")
    /\ UNCHANGED <<record, locked, patched, rolledOut, mishaps>>

(* subprocess.TimeoutExpired is no RemediationError: the handler only      *)
(* releases the lock.                                                      *)
KubectlTimeout(a) ==
    /\ pc[a] \in {"patch", "rollout"}
    /\ Goto(a, "release")
    /\ Note("interrupted")
    /\ UNCHANGED <<record, locked, outcome, patched, rolledOut>>

(* Mutant: a status that is not one of the record's. *)
SaveOutcomeMisspelt(a) ==
    /\ pc[a] = "save"
    /\ record' = "done"
    /\ Goto(a, "release")
    /\ UNCHANGED <<locked, outcome, patched, rolledOut, mishaps>>

SaveOutcome(a) ==
    /\ pc[a] = "save"
    /\ record' = outcome[a]
    /\ Goto(a, "release")
    /\ UNCHANGED <<locked, outcome, patched, rolledOut, mishaps>>

(* DEL, whoever holds the lock by now.                                     *)
Release(a) ==
    /\ pc[a] = "release"
    /\ locked' = FALSE
    /\ Goto(a, "ended")
    /\ UNCHANGED <<record, outcome, patched, rolledOut, mishaps>>

-----------------------------------------------------------------------------
(* Redis errors, expiry and restarts.                                      *)

(* Before the try block, in its finally block, or in a rejection.          *)
RequestError(q) ==
    /\ pc[q] \in {"idle", "loaded", "release"} /\ record # "none"
    /\ Goto(q, "ended")
    /\ locked' \in {locked, locked \/ (q \in Approvals /\ pc[q] = "loaded")}
    /\ Note("interrupted")
    /\ UNCHANGED <<record, outcome, patched, rolledOut>>

(* While saving: only the finally block still runs.                        *)
SaveError(a) ==
    /\ \/ pc[a] = "claimed" /\ record' \in {record, "applying"}
       \/ pc[a] = "save" /\ record' \in {record, outcome[a]}
    /\ Goto(a, "release")
    /\ Note("interrupted")
    /\ UNCHANGED <<locked, outcome, patched, rolledOut>>

(* The lock lives 180 s, the two kubectl commands may take 240 s.          *)
ExpireLock ==
    /\ locked
    /\ locked' = FALSE
    /\ IF \E a \in Approvals : InSection(a) THEN Note("overrun")
                                            ELSE UNCHANGED mishaps
    /\ UNCHANGED <<record, pc, outcome, patched, rolledOut>>

ExpireRecord ==
    /\ record \notin {"none", "expired"}
    /\ record' = "expired"
    /\ UNCHANGED <<locked, pc, outcome, patched, rolledOut, mishaps>>

Crash ==
    /\ \E q \in Requests : pc[q] \notin {"idle", "ended"}
    /\ pc' = [q \in Requests |-> IF pc[q] = "idle" THEN "idle" ELSE "ended"]
    /\ Note("interrupted")
    /\ UNCHANGED <<record, locked, outcome, patched, rolledOut>>

ApproveStep(a) ==
    \/ Claim(a) \/ SaveApplying(a) \/ Patch(a) \/ RolloutOk(a)
    \/ KubectlFails(a) \/ KubectlTimeout(a) \/ SaveOutcome(a) \/ Release(a)

Next ==
    \/ Propose \/ ExpireLock \/ ExpireRecord \/ Crash
    \/ \E q \in Requests : Load(q) \/ RequestError(q)
    \/ \E r \in Rejections : Reject(r)
    \/ \E a \in Approvals : ApproveStep(a) \/ SaveError(a)

Spec == Init /\ [][Next]_vars

(* The event loop runs every handler, and kubectl has a timeout.           *)
FairSpec == Spec /\ \A a \in Approvals : WF_vars(ApproveStep(a))

-----------------------------------------------------------------------------
(* Safety.                                                                 *)

(* A proposal is never applied by two approvals at a time, unless a lock   *)
(* has run out under its holder.                                           *)
MutualExclusion ==
    "overrun" \in mishaps
        \/ \A a, b \in Approvals : InSection(a) /\ InSection(b) => a = b

(* A proposal that still reads "pending", and so can be approved or        *)
(* rejected, has not touched the cluster, whatever was interrupted.        *)
PendingIsUntouched == record = "pending" => patched = {}

(* "applied" is recorded only after a verified rollout of the patch.       *)
AppliedIsRolledOut == record = "applied" => rolledOut \cap patched # {}

-----------------------------------------------------------------------------
(* Once a proposal is decided and no request that found it pending is in   *)
(* flight, its record is final: nothing but its expiry changes it.         *)
Quiet == \A q \in Requests : pc[q] \in {"idle", "ended"}

DecidedIsFinal ==
    \A d \in Decided :
        [](record = d /\ Quiet => [](record \in {d, "expired"}))

(* A proposal leaves "applying" unless an approval was cut short: a        *)
(* refused patch and a failed rollout are always recorded.                 *)
Settles ==
    record = "applying" ~> record # "applying" \/ "interrupted" \in mishaps
=============================================================================
