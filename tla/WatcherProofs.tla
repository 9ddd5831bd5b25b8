---------------------------- MODULE WatcherProofs ----------------------------
(***************************************************************************)
(* Proofs about Watcher, for any pods, any states kubectl may report, any  *)
(* number of concurrent scans and any number of faults.                    *)
(***************************************************************************)
EXTENDS Watcher, TLAPS

(* What is detected is an incident: its signature is never empty.          *)
LEMMA DetectedType ==
    ASSUME TypeOK, NEW seen \in SUBSET Pods
    PROVE  Detected(seen) \subseteq Incidents
BY DEF Detected, Incidents, Signatures, TypeOK

LEMMA AnyIncidentType == AnyIncident \in Incidents
BY IncidentsAssumption DEF AnyIncident

LEMMA FinishType ==
    ASSUME TypeOK, NEW s \in Scans, Finish(s)
    PROVE  /\ pc' \in [Scans -> {"idle", "next", "post", "created", "release", "ended"}]
           /\ todo' \in [Scans -> SUBSET Incidents]
           /\ incident' \in [Scans -> Incidents]
BY AnyIncidentType DEF TypeOK, Finish, Goto

-----------------------------------------------------------------------------
(* Types.                                                                  *)

LEMMA InitTypeOK == Init => TypeOK
BY AnyIncidentType, MaxFaultsAssumption DEF Init, TypeOK

LEMMA TypeOKStep ==
    ASSUME TypeOK, [Next]_vars
    PROVE  TypeOK'
<1> USE MaxFaultsAssumption DEF TypeOK, Goto, Fault, scanVars, historyVars, Count
<1>1. ASSUME NEW s \in Scans, NEW seen \in SUBSET Pods, Scan(s, seen)
      PROVE  TypeOK'
  <2>1. todo' \in [Scans -> SUBSET Incidents]
    BY <1>1, DetectedType DEF Scan
  <2>2. pc' \in [Scans -> {"idle", "next", "post", "created", "release", "ended"}]
    BY <1>1 DEF Scan
  <2>3. faults' \in 0..MaxFaults
    BY <1>1 DEF Scan
  <2>4. QED
    BY <1>1, <2>1, <2>2, <2>3 DEF Scan
<1>2. ASSUME NEW s \in Scans, NEW k \in todo[s], Skip(s, k) \/ Claim(s, k)
      PROVE  TypeOK'
  <2>1. k \in Incidents
    BY <1>2
  <2>2. todo' \in [Scans -> SUBSET Incidents]
    BY <1>2 DEF Skip, Claim, Take
  <2>3. QED
    BY <1>2, <2>1, <2>2 DEF Skip, Claim, Claimed, Take
<1>3. ASSUME NEW s \in Scans, Accept(s) \/ PostOk(s) \/ Release(s) \/ PostRefused(s)
      PROVE  TypeOK'
  BY <1>3 DEF Accept, PostOk, Release, PostRefused
<1>4. ASSUME NEW s \in Scans, PostTimeout(s)
      PROVE  TypeOK'
  BY <1>4 DEF PostTimeout, Abandon
<1>5. ASSUME NEW s \in Scans, Done(s)
      PROVE  TypeOK'
  BY <1>5, FinishType DEF Done
<1>6. ASSUME NEW s \in Scans, RedisError(s)
      PROVE  TypeOK'
  <2>1. claim' \subseteq Incidents /\ interrupted' \subseteq Incidents
    BY <1>6 DEF RedisError
  <2>2. faults' \in 0..MaxFaults /\ Finish(s)
    BY <1>6 DEF RedisError
  <2>3. QED
    BY <1>6, <2>1, <2>2, FinishType DEF RedisError
<1>7. ASSUME NEW p \in Pods, PodChanges(p)
      PROVE  TypeOK'
  BY <1>7 DEF PodChanges
<1>8. ASSUME NEW k \in Incidents, Expire(k) \/ Evict(k) \/ ServeLate(k)
      PROVE  TypeOK'
  BY <1>8 DEF Expire, Evict, ServeLate
<1>9. CASE Crash
  BY <1>9, AnyIncidentType DEF Crash
<1>10. CASE UNCHANGED vars
  BY <1>10 DEF vars
<1>11. QED
  BY <1>1, <1>2, <1>3, <1>4, <1>5, <1>6, <1>7, <1>8, <1>9, <1>10
     DEF Next, ScanStep

(* Every variable keeps its type: in particular no scan ever holds a pod   *)
(* without a reason.                                                       *)
THEOREM TypeCorrect == Spec => []TypeOK
BY InitTypeOK, TypeOKStep, PTL DEF Spec

-----------------------------------------------------------------------------
(* One job per cooldown.                                                   *)

At(s, k) == InFlight(s) /\ incident[s] = k

(* The strengthening: as long as nothing was lost, the claim of an         *)
(* incident belongs to the one scan that is at it, or to the job that this *)
(* scan has created.                                                       *)
Owned(k) ==
    /\ k \notin late
    /\ \A s, t \in Scans : At(s, k) /\ At(t, k) => s = t
    /\ \A s \in Scans : At(s, k) => k \in claim
    /\ jobs[k] > 0 => /\ jobs[k] = 1
                      /\ k \in claim
                      /\ \A s \in Scans : At(s, k) => pc[s] = "created"

OwnedInv == \A k \in Incidents \ troubled : Owned(k)

LEMMA OwnedStep ==
    ASSUME TypeOK, OwnedInv, [Next]_vars
    PROVE  OwnedInv'
<1> SUFFICES ASSUME NEW k \in Incidents, k \notin troubled'
             PROVE  Owned(k)'
  BY DEF OwnedInv, TypeOK, Incidents, Signatures
<1> USE DEF TypeOK, Goto, scanVars, historyVars, Count, Owned, At, InFlight
<1>0. Owned(k) /\ k \notin troubled
  <2>1. troubled \subseteq troubled'
    BY DEF Next, ScanStep, Scan, Skip, Claim, Claimed, Accept, PostOk, Release,
           PostRefused, PostTimeout, Abandon, Done, RedisError, PodChanges,
           Expire, Evict, ServeLate, Crash, vars
  <2>2. QED
    BY <2>1 DEF OwnedInv
<1>1. ASSUME NEW s \in Scans, NEW seen \in SUBSET Pods, Scan(s, seen)
      PROVE  Owned(k)'
  BY <1>0, <1>1 DEF Scan
<1>2. ASSUME NEW s \in Scans, NEW i \in todo[s], Skip(s, i)
      PROVE  Owned(k)'
  BY <1>0, <1>2 DEF Skip, Take
<1>3. ASSUME NEW s \in Scans, NEW i \in todo[s], Claim(s, i)
      PROVE  Owned(k)'
  BY <1>0, <1>3 DEF Claim, Claimed, Take
<1>4. ASSUME NEW s \in Scans, Accept(s)
      PROVE  Owned(k)'
  BY <1>0, <1>4 DEF Accept
<1>5. ASSUME NEW s \in Scans, PostOk(s)
      PROVE  Owned(k)'
  BY <1>0, <1>5 DEF PostOk
<1>6. ASSUME NEW s \in Scans, PostRefused(s)
      PROVE  Owned(k)'
  BY <1>0, <1>6 DEF PostRefused
<1>7. ASSUME NEW s \in Scans, PostTimeout(s)
      PROVE  Owned(k)'
  BY <1>0, <1>7 DEF PostTimeout, Abandon
<1>8. ASSUME NEW s \in Scans, Release(s)
      PROVE  Owned(k)'
  BY <1>0, <1>8 DEF Release
<1>9. ASSUME NEW s \in Scans, Done(s)
      PROVE  Owned(k)'
  BY <1>0, <1>9 DEF Done, Finish
<1>10. ASSUME NEW s \in Scans, RedisError(s)
       PROVE  Owned(k)'
  BY <1>0, <1>10 DEF RedisError, Finish
<1>11. ASSUME NEW p \in Pods, PodChanges(p)
       PROVE  Owned(k)'
  BY <1>0, <1>11 DEF PodChanges
<1>12. ASSUME NEW i \in Incidents, Expire(i) \/ Evict(i) \/ ServeLate(i)
       PROVE  Owned(k)'
  BY <1>0, <1>12 DEF Expire, Evict, ServeLate
<1>13. CASE Crash
  BY <1>0, <1>13 DEF Crash
<1>14. CASE UNCHANGED vars
  BY <1>0, <1>14 DEF vars
<1>15. QED
  BY <1>1, <1>2, <1>3, <1>4, <1>5, <1>6, <1>7, <1>8, <1>9, <1>10, <1>11,
     <1>12, <1>13, <1>14 DEF Next, ScanStep

(* However many scans run at once, an incident gets one job per cooldown   *)
(* unless its POST was given up or its key was lost.                       *)
THEOREM SubmittedOnce == Spec => []OneJobPerCooldown
<1>1. Init => OwnedInv
  BY DEF Init, OwnedInv, Owned, At, InFlight
<1>2. TypeOK /\ OwnedInv => OneJobPerCooldown
  BY DEF OneJobPerCooldown, OwnedInv, Owned, TypeOK
<1>3. QED
  BY <1>1, <1>2, OwnedStep, TypeCorrect, PTL DEF Spec

-----------------------------------------------------------------------------
(* What the cooldown silences.                                             *)

LEMMA SilencedStep ==
    ASSUME TypeOK, SilencedHasJob, [Next]_vars
    PROVE  SilencedHasJob'
<1> SUFFICES ASSUME NEW k \in claim', k \notin interrupted', ~(jobs'[k] > 0)
             PROVE  \E s \in Scans : pc'[s] \in {"post", "release"}
                                     /\ incident'[s] = k
  BY DEF SilencedHasJob
<1> DEFINE Held == \E s \in Scans : /\ pc[s] \in {"post", "release"}
                                    /\ incident[s] = k
<1> USE DEF TypeOK, Goto, scanVars, historyVars, Count
<1>1. ASSUME k \in claim, k \notin interrupted, ~(jobs[k] > 0)
      PROVE  Held
  BY <1>1 DEF SilencedHasJob
<1>2. ASSUME NEW s \in Scans,
             \/ \E seen \in SUBSET Pods : Scan(s, seen)
             \/ \E i \in todo[s] : Skip(s, i)
             \/ PostOk(s) \/ Done(s)
      PROVE  \E t \in Scans : pc'[t] \in {"post", "release"} /\ incident'[t] = k
  BY <1>1, <1>2 DEF Scan, Skip, Take, PostOk, Done, Finish
<1>3. ASSUME NEW s \in Scans, NEW i \in todo[s], Claim(s, i)
      PROVE  \E t \in Scans : pc'[t] \in {"post", "release"} /\ incident'[t] = k
  BY <1>1, <1>3 DEF Claim, Claimed, Take
<1>4. ASSUME NEW s \in Scans, Accept(s)
      PROVE  \E t \in Scans : pc'[t] \in {"post", "release"} /\ incident'[t] = k
  BY <1>1, <1>4 DEF Accept
<1>5. ASSUME NEW s \in Scans, PostRefused(s) \/ PostTimeout(s)
      PROVE  \E t \in Scans : pc'[t] \in {"post", "release"} /\ incident'[t] = k
  BY <1>1, <1>5 DEF PostRefused, PostTimeout
<1>6. ASSUME NEW s \in Scans, Release(s)
      PROVE  \E t \in Scans : pc'[t] \in {"post", "release"} /\ incident'[t] = k
  BY <1>1, <1>6 DEF Release
<1>7. ASSUME NEW s \in Scans, RedisError(s)
      PROVE  \E t \in Scans : pc'[t] \in {"post", "release"} /\ incident'[t] = k
  BY <1>1, <1>7 DEF RedisError, Finish
<1>8. ASSUME NEW p \in Pods, PodChanges(p)
      PROVE  \E t \in Scans : pc'[t] \in {"post", "release"} /\ incident'[t] = k
  BY <1>1, <1>8 DEF PodChanges
<1>9. ASSUME NEW i \in Incidents, Expire(i) \/ Evict(i) \/ ServeLate(i)
      PROVE  \E t \in Scans : pc'[t] \in {"post", "release"} /\ incident'[t] = k
  BY <1>1, <1>9 DEF Expire, Evict, ServeLate
<1>10. CASE Crash
  BY <1>1, <1>10 DEF Crash, InFlight
<1>11. CASE UNCHANGED vars
  BY <1>1, <1>11 DEF vars
<1>12. QED
  BY <1>2, <1>3, <1>4, <1>5, <1>6, <1>7, <1>8, <1>9, <1>10, <1>11
     DEF Next, ScanStep

(* A claim that keeps other scans from an incident has a job to show for   *)
(* it, a scan still at work, or an interruption.                           *)
THEOREM SilencedIsBacked == Spec => []SilencedHasJob
<1>1. Init => SilencedHasJob
  BY DEF Init, SilencedHasJob
<1>2. QED
  BY <1>1, SilencedStep, TypeCorrect, PTL DEF Spec
=============================================================================
