-------------------------- MODULE RemediationProofs --------------------------
(***************************************************************************)
(* Theorems about Remediation, for any number of approvals and rejections. *)
(***************************************************************************)
EXTENDS Remediation, TLAPS

(* The strengthening of each safety property.                              *)

(* Who is in the section holds the lock.                                   *)
LockInv ==
    "overrun" \notin mishaps =>
        /\ \A a \in Approvals : InSection(a) => locked
        /\ \A a, b \in Approvals : InSection(a) /\ InSection(b) => a = b

(* An approval that has got as far as kubectl has saved "applying", and    *)
(* nothing writes "pending" again.                                         *)
UntouchedInv ==
    record \in {"none", "pending"} =>
        /\ patched = {}
        /\ \A a \in Approvals : pc[a] \notin {"patch", "rollout", "save"}

(* An approval intends to save "applied" only after its rollout.           *)
OutcomeInv ==
    /\ \A a \in Approvals : pc[a] = "rollout" => a \in patched
    /\ \A a \in Approvals : outcome[a] = "applied" => a \in rolledOut \cap patched
    /\ AppliedIsRolledOut

IInv == TypeOK /\ LockInv /\ UntouchedInv /\ OutcomeInv

LEMMA InitIInv == Init => IInv
BY DEF Init, IInv, TypeOK, LockInv, UntouchedInv, OutcomeInv, Records,
       AppliedIsRolledOut, InSection, Section, Requests

-----------------------------------------------------------------------------
(* Steps of one approval.                                                  *)
LEMMA ApprovalStep ==
    ASSUME IInv, NEW a \in Approvals, ApproveStep(a) \/ SaveError(a)
    PROVE  IInv'
<1> USE DEF Requests, Section, InSection, Goto
<1>1. TypeOK'
  BY DEF IInv, TypeOK, Records, Decided, Note, Mishaps, ApproveStep, Claim,
         SaveApplying, Patch, RolloutOk, KubectlFails, KubectlTimeout,
         SaveOutcome, Release, SaveError
<1>2. LockInv'
  <2> USE DEF IInv, TypeOK, LockInv
  <2>1. CASE Claim(a)
    BY <2>1 DEF Claim
  <2>2. CASE Release(a)
    BY <2>2 DEF Release
  <2>3. CASE SaveApplying(a) \/ Patch(a) \/ RolloutOk(a) \/ SaveOutcome(a)
    BY <2>3 DEF SaveApplying, Patch, RolloutOk, SaveOutcome
  <2>4. CASE KubectlFails(a) \/ KubectlTimeout(a) \/ SaveError(a)
    BY <2>4 DEF KubectlFails, KubectlTimeout, SaveError, Note
  <2>5. QED
    BY <2>1, <2>2, <2>3, <2>4 DEF ApproveStep
<1>3. UntouchedInv'
  BY DEF IInv, TypeOK, UntouchedInv, ApproveStep, Claim, SaveApplying, Patch,
         RolloutOk, KubectlFails, KubectlTimeout, SaveOutcome, Release,
         SaveError
<1>4. OutcomeInv'
  <2> USE DEF IInv, TypeOK, OutcomeInv, AppliedIsRolledOut
  <2>1. CASE Claim(a) \/ SaveApplying(a) \/ Release(a)
    BY <2>1 DEF Claim, SaveApplying, Release
  <2>2. CASE Patch(a) \/ RolloutOk(a)
    BY <2>2 DEF Patch, RolloutOk
  <2>3. CASE KubectlFails(a) \/ KubectlTimeout(a)
    BY <2>3 DEF KubectlFails, KubectlTimeout
  <2>4. CASE SaveOutcome(a) \/ SaveError(a)
    BY <2>4 DEF SaveOutcome, SaveError
  <2>5. QED
    BY <2>1, <2>2, <2>3, <2>4 DEF ApproveStep
<1>5. QED
  BY <1>1, <1>2, <1>3, <1>4 DEF IInv

(* Every other step: no approval enters the section, only an overrun or a  *)
(* crash takes the lock from one.                                          *)
LEMMA OtherStep ==
    ASSUME IInv,
           \/ Propose \/ ExpireLock \/ ExpireRecord \/ Crash
           \/ \E q \in Requests : Load(q) \/ RequestError(q)
           \/ \E r \in Rejections : Reject(r)
           \/ UNCHANGED vars
    PROVE  IInv'
<1> USE DEF Requests, Section, InSection, Goto, IInv, TypeOK, LockInv,
            UntouchedInv, OutcomeInv, AppliedIsRolledOut
<1>1. CASE Propose
  BY <1>1 DEF Propose, Records
<1>2. CASE ExpireLock
  <2>1. /\ locked' = FALSE /\ mishaps' \in {mishaps, mishaps \cup {"overrun"}}
        /\ (\E a \in Approvals : InSection(a)) => "overrun" \in mishaps'
        /\ UNCHANGED <<record, pc, outcome, patched, rolledOut>>
    BY <1>2 DEF ExpireLock, Note
  <2>2. QED
    BY <2>1 DEF Mishaps
<1>3. CASE ExpireRecord
  BY <1>3 DEF ExpireRecord, Records
<1>4. CASE Crash
  BY <1>4 DEF Crash, Note, Mishaps
<1>5. ASSUME NEW q \in Requests, Load(q) PROVE IInv'
  BY <1>5 DEF Load
<1>6. ASSUME NEW q \in Requests, RequestError(q) PROVE IInv'
  BY <1>6 DEF RequestError, Note, Mishaps
<1>7. ASSUME NEW r \in Rejections, Reject(r) PROVE IInv'
  BY <1>7, RequestsAssumption DEF Reject, Records, Decided
<1>8. CASE UNCHANGED vars
  BY <1>8 DEF vars
<1>9. QED
  BY <1>1, <1>2, <1>3, <1>4, <1>5, <1>6, <1>7, <1>8

LEMMA Invariance == Spec => []IInv
<1>1. IInv /\ [Next]_vars => IInv'
  BY ApprovalStep, OtherStep DEF Next
<1>2. QED
  BY <1>1, InitIInv, PTL DEF Spec

(* The variables of remediation-svc keep their types.                      *)
THEOREM TypeCorrect == Spec => []TypeOK
<1>1. IInv => TypeOK
  BY DEF IInv
<1>2. QED
  BY <1>1, Invariance, PTL

(* SET NX makes approvals exclude each other for as long as no lock runs   *)
(* out under its holder: neither errors nor restarts break it.             *)
THEOREM ApprovalsExclude == Spec => []MutualExclusion
<1>1. IInv => MutualExclusion
  BY DEF IInv, LockInv, MutualExclusion
<1>2. QED
  BY <1>1, Invariance, PTL

(* A proposal that reads "pending" has not touched the cluster.            *)
THEOREM PendingHasDoneNothing == Spec => []PendingIsUntouched
<1>1. IInv => PendingIsUntouched
  BY DEF IInv, UntouchedInv, PendingIsUntouched
<1>2. QED
  BY <1>1, Invariance, PTL

(* A proposal that reads "applied" has been patched and rolled out, even   *)
(* if approvals overlap because a lock ran out.                            *)
THEOREM AppliedIsVerified == Spec => []AppliedIsRolledOut
<1>1. IInv => AppliedIsRolledOut
  BY DEF IInv, OutcomeInv
<1>2. QED
  BY <1>1, Invariance, PTL

-----------------------------------------------------------------------------
(* A decision is final.                                                    *)

(* What holds for ever once it does: a request that comes after the        *)
(* decision is refused when it reads the record.                           *)
Settled(d) == record \in {d, "expired"} /\ Quiet

LEMMA SettledStep ==
    ASSUME TypeOK, NEW d \in Decided, Settled(d), [Next]_vars
    PROVE  Settled(d)'
<1> USE DEF TypeOK, Settled, Quiet, Decided, Requests, Goto
<1>1. CASE Propose \/ ExpireRecord
  BY <1>1 DEF Propose, ExpireRecord
<1>2. CASE ExpireLock
  BY <1>2 DEF ExpireLock
<1>3. CASE Crash
  BY <1>3 DEF Crash
<1>4. ASSUME NEW q \in Requests, Load(q) \/ RequestError(q) PROVE Settled(d)'
  BY <1>4 DEF Load, RequestError
<1>5. ASSUME NEW r \in Rejections PROVE ~Reject(r)
  BY DEF Reject
<1>6. ASSUME NEW a \in Approvals PROVE ~ApproveStep(a) /\ ~SaveError(a)
  BY DEF ApproveStep, Claim, SaveApplying, Patch, RolloutOk, KubectlFails,
         KubectlTimeout, SaveOutcome, Release, SaveError
<1>7. CASE UNCHANGED vars
  BY <1>7 DEF vars
<1>8. QED
  BY <1>1, <1>2, <1>3, <1>4, <1>5, <1>6, <1>7 DEF Next

(* Once a proposal is decided and no request that had found it pending is  *)
(* in flight, nothing but its expiry changes the record: no later approval *)
(* or rejection, no error and no restart.                                  *)
THEOREM DecisionIsFinal == Spec => DecidedIsFinal
<1>1. ASSUME NEW d \in Decided
      PROVE  Spec => [](record = d /\ Quiet => [](record \in {d, "expired"}))
  <2>1. TypeOK /\ Settled(d) /\ [Next]_vars => Settled(d)'
    BY SettledStep
  <2>2. record = d /\ Quiet => Settled(d)
    BY DEF Settled
  <2>3. Settled(d) => record \in {d, "expired"}
    BY DEF Settled
  <2>4. QED
    BY <2>1, <2>2, <2>3, TypeCorrect, PTL DEF Spec
<1>2. QED
  BY <1>1 DEF DecidedIsFinal
=============================================================================
