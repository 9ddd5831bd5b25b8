------------------------------- MODULE Watcher -------------------------------
(***************************************************************************)
(* watcher-svc: scans of the cluster and the jobs they submit (services/   *)
(* watcher/app/main.py, watcher.py).                                       *)
(*                                                                         *)
(* An incident is a pod together with the set of reasons it is unhealthy   *)
(* for.  A scan claims each incident with SET NX in Redis for a cooldown,  *)
(* posts a job to orchestrator-svc and releases the claim if that fails.   *)
(* The watch loop and POST /scan run the same coroutine, and share nothing *)
(* but Redis; every Redis command and the POST is a step.                  *)
(***************************************************************************)
EXTENDS Naturals

CONSTANTS Pods,
          PodStates,         \* what kubectl may report of a pod
          RestartThreshold,
          ScanRequests,      \* POST /scan requests
          Loop,              \* the watch loop
          MaxFaults          \* how many things may go wrong in a behaviour

ASSUME LoopAssumption == Loop \notin ScanRequests
ASSUME ThresholdAssumption ==
    /\ RestartThreshold \in Nat \ {0}
    /\ \A st \in PodStates : st.restarts \in Nat
ASSUME MaxFaultsAssumption == MaxFaults \in Nat

VARIABLES pod,          \* the state of each pod
          pc,           \* where each scan is: at its POST, "created" once
                        \* orchestrator-svc has acted on it
          todo,         \* incidents a scan has left
          incident,     \* the incident it is at
          claim,        \* incidents whose key exists in Redis
          late,         \* given-up POSTs that orchestrator-svc may still get
          jobs,         \* jobs created per incident and cooldown: 0, 1, 2 (many)
          interrupted,  \* history: claims left behind by an interrupted scan
          troubled,     \* history: incidents whose claim or POST was lost
          faults        \* history: faults so far

scanVars == <<pc, todo, incident>>
historyVars == <<interrupted, troubled, faults>>
vars == <<pod, pc, todo, incident, claim, late, jobs, interrupted,
          troubled, faults>>

Scans == ScanRequests \cup {Loop}

UnhealthyWaitingReasons ==
    {"CrashLoopBackOff", "ImagePullBackOff", "ErrImagePull",
     "CreateContainerConfigError", "CreateContainerError", "InvalidImageName",
     "RunContainerError"}

(* The reasons of KubernetesWatcher.scan; none for a healthy pod.          *)
Signature(st) ==
    LET found == (st.waiting \cap UnhealthyWaitingReasons)
                    \cup (st.terminated \cap {"OOMKilled"})
                    \cup (st.conditions \cap {"Unschedulable"})
                    \cup (IF st.restarts >= RestartThreshold
                            THEN {"RepeatedRestarts"} ELSE {})
    IN IF found = {} /\ st.phase = "Failed" THEN {"Failed"} ELSE found

Signatures == {Signature(st) : st \in PodStates} \ {{}}
Incidents == Pods \X Signatures

ASSUME IncidentsAssumption == Incidents # {}

AnyIncident == CHOOSE k \in Incidents : TRUE

(* Mutant: healthy pods are not left out. *)
DetectedInAll(seen) == {<<p, Signature(pod[p])>> : p \in seen}

(* What a scan that gets an answer for these pods returns. *)
Detected(seen) ==
    {<<p, Signature(pod[p])>> : p \in {q \in seen : Signature(pod[q]) # {}}}

(* From the claim of an incident to the end of its POST and its release.   *)
InFlight(s) == pc[s] \in {"post", "created", "release"}

TypeOK ==
    /\ pod \in [Pods -> PodStates]
    /\ pc \in [Scans -> {"idle", "next", "post", "created", "release", "ended"}]
    /\ todo \in [Scans -> SUBSET Incidents]
    /\ incident \in [Scans -> Incidents]
    /\ claim \subseteq Incidents
    /\ late \subseteq Incidents
    /\ jobs \in [Incidents -> 0..2]
    /\ interrupted \subseteq Incidents
    /\ troubled \subseteq Incidents
    /\ faults \in 0..MaxFaults

Init ==
    /\ pod \in [Pods -> PodStates]
    /\ pc = [s \in Scans |-> "idle"]
    /\ todo = [s \in Scans |-> {}]
    /\ incident = [s \in Scans |-> AnyIncident]
    /\ claim = {} /\ late = {}
    /\ jobs = [k \in Incidents |-> 0]
    /\ interrupted = {} /\ troubled = {} /\ faults = 0

Goto(s, at) == pc' = [pc EXCEPT ![s] = at]
Fault == faults < MaxFaults /\ faults' = faults + 1

(* The loop sleeps and scans again; a request is answered.                 *)
Finish(s) ==
    /\ Goto(s, IF s = Loop THEN "idle" ELSE "ended")
    /\ todo' = [todo EXCEPT ![s] = {}]
    /\ incident' = [incident EXCEPT ![s] = AnyIncident]

-----------------------------------------------------------------------------
(* A scan.                                                                 *)

(* kubectl get pods, once per namespace: where it fails the namespace      *)
(* looks empty.                                                            *)
Scan(s, seen) ==
    /\ pc[s] = "idle"
    /\ todo' = [todo EXCEPT ![s] = Detected(seen)]
    /\ Goto(s, "next")
    /\ IF seen = Pods THEN UNCHANGED faults ELSE Fault
    /\ UNCHANGED <<pod, incident, claim, late, jobs, interrupted, troubled>>

Take(s, k) ==
    /\ pc[s] = "next"
    /\ k \in todo[s]
    /\ todo' = [todo EXCEPT ![s] = @ \ {k}]

Skip(s, k) ==
    /\ Take(s, k)
    /\ k \in claim
    /\ UNCHANGED <<pod, pc, incident, claim, late, jobs, historyVars>>

Claimed(s, k) ==
    /\ claim' = claim \cup {k}
    /\ incident' = [incident EXCEPT ![s] = k]
    /\ Goto(s, "post")
    /\ UNCHANGED <<pod, late, jobs, historyVars>>

(* Mutant: SET without NX. *)
ClaimAlways(s, k) == Take(s, k) /\ Claimed(s, k)

(* SET NX, and the POST is sent.                                           *)
Claim(s, k) == Take(s, k) /\ k \notin claim /\ Claimed(s, k)

Count(k) == jobs' = [jobs EXCEPT ![k] = IF @ = 2 THEN 2 ELSE @ + 1]

(* create_job of orchestrator-svc, which answers only later.               *)
Accept(s) ==
    /\ pc[s] = "post"
    /\ Goto(s, "created")
    /\ Count(incident[s])
    /\ UNCHANGED <<pod, todo, incident, claim, late, historyVars>>

PostOk(s) ==
    /\ pc[s] = "created"
    /\ Goto(s, "next")
    /\ UNCHANGED <<pod, todo, incident, claim, late, jobs, historyVars>>

(* Mutant: the claim is kept when the POST fails. *)
PostRefusedKeepingClaim(s) ==
    /\ pc[s] = "post"
    /\ Fault
    /\ Goto(s, "next")
    /\ UNCHANGED <<pod, todo, incident, claim, late, jobs, interrupted,
                   troubled>>

(* Connection refused, or an error status: no job was created.             *)
PostRefused(s) ==
    /\ pc[s] = "post"
    /\ Fault
    /\ Goto(s, "release")
    /\ UNCHANGED <<pod, todo, incident, claim, late, jobs, interrupted,
                   troubled>>

Abandon(s) ==
    /\ late' = IF pc[s] = "post" THEN late \cup {incident[s]} ELSE late
    /\ troubled' = troubled \cup {incident[s]}

(* No answer within 10 s; the job may have been created, or be created     *)
(* later.                                                                  *)
PostTimeout(s) ==
    /\ pc[s] \in {"post", "created"}
    /\ Fault
    /\ Abandon(s)
    /\ Goto(s, "release")
    /\ UNCHANGED <<pod, todo, incident, claim, jobs, interrupted>>

(* DEL, whoever has claimed the incident by now.                           *)
Release(s) ==
    /\ pc[s] = "release"
    /\ claim' = claim \ {incident[s]}
    /\ interrupted' = interrupted \ {incident[s]}
    /\ Goto(s, "next")
    /\ UNCHANGED <<pod, todo, incident, late, jobs, troubled, faults>>

Done(s) ==
    /\ pc[s] = "next" /\ todo[s] = {}
    /\ Finish(s)
    /\ UNCHANGED <<pod, claim, late, jobs, historyVars>>

(* Mutant: an exception of a scan ends the watch loop. *)
RedisErrorEndsLoop(s) ==
    /\ pc[s] \in {"next", "release"}
    /\ Fault
    /\ Goto(s, "ended")
    /\ UNCHANGED <<pod, todo, incident, claim, late, jobs, interrupted,
                   troubled>>

(* SET or DEL raises, whether or not it took effect: the scan ends, the    *)
(* rest of its incidents is left to the next one.                          *)
RedisError(s) ==
    /\ Fault
    /\ \/ /\ pc[s] = "next"
          /\ \/ todo[s] # {} /\ UNCHANGED <<claim, interrupted>>
             \/ \E k \in todo[s] \ claim :
                    /\ claim' = claim \cup {k}
                    /\ interrupted' = interrupted \cup {k}
       \/ /\ pc[s] = "release"
          /\ \/ /\ claim' = claim \ {incident[s]}
                /\ interrupted' = interrupted \ {incident[s]}
             \/ /\ interrupted' = interrupted \cup ({incident[s]} \cap claim)
                /\ UNCHANGED claim
    /\ Finish(s)
    /\ UNCHANGED <<pod, late, jobs, troubled>>

-----------------------------------------------------------------------------
(* The cluster, Redis, orchestrator-svc, and a restart of watcher-svc.     *)

PodChanges(p) ==
    /\ \E st \in PodStates : st # pod[p] /\ pod' = [pod EXCEPT ![p] = st]
    /\ UNCHANGED <<scanVars, claim, late, jobs, historyVars>>

(* The cooldown has passed (at least 60 s).  It is long enough for a POST, *)
(* but Redis commands have no timeout.                                     *)
Expire(k) ==
    /\ k \in claim
    /\ claim' = claim \ {k}
    /\ jobs' = [jobs EXCEPT ![k] = 0]
    /\ interrupted' = interrupted \ {k}
    /\ troubled' = IF \E s \in Scans : InFlight(s) /\ incident[s] = k
                     THEN troubled \cup {k} ELSE troubled
    /\ UNCHANGED <<pod, scanVars, late, faults>>

Evict(k) ==
    /\ k \in claim
    /\ Fault
    /\ claim' = claim \ {k}
    /\ interrupted' = interrupted \ {k}
    /\ troubled' = troubled \cup {k}
    /\ UNCHANGED <<pod, scanVars, late, jobs>>

ServeLate(k) ==
    /\ k \in late
    /\ late' = late \ {k}
    /\ Count(k)
    /\ UNCHANGED <<pod, scanVars, claim, historyVars>>

Crash ==
    /\ Fault
    /\ LET held == {incident[s] : s \in {t \in Scans : InFlight(t)}} IN
       /\ interrupted' = interrupted \cup (held \cap claim)
       /\ troubled' = troubled \cup held
    /\ late' = late \cup {incident[s] :
                   s \in {t \in Scans : pc[t] = "post"}}
    /\ pc' = [s \in Scans |-> IF s = Loop \/ pc[s] = "idle" THEN "idle"
                                                             ELSE "ended"]
    /\ todo' = [s \in Scans |-> {}]
    /\ incident' = [s \in Scans |-> AnyIncident]
    /\ UNCHANGED <<pod, claim, jobs>>

ScanStep(s) ==
    \/ \E k \in todo[s] : Skip(s, k) \/ Claim(s, k)
    \/ Accept(s) \/ PostOk(s) \/ Release(s) \/ Done(s)

Next ==
    \/ \E s \in Scans :
          ScanStep(s) \/ PostRefused(s) \/ PostTimeout(s) \/ RedisError(s)
    \/ \E s \in Scans, seen \in SUBSET Pods : Scan(s, seen)
    \/ \E p \in Pods : PodChanges(p)
    \/ \E k \in Incidents : Expire(k) \/ Evict(k) \/ ServeLate(k)
    \/ Crash

Spec == Init /\ [][Next]_vars

(* The event loop runs the watch loop, which never stops; a key with a TTL *)
(* expires.  Faults are finitely many (MaxFaults).                         *)
Fairness ==
    /\ WF_vars(Scan(Loop, Pods))
    /\ \A s \in Scans : WF_vars(ScanStep(s))
    /\ \A k \in Incidents : WF_vars(Expire(k))

FairSpec == Spec /\ Fairness

-----------------------------------------------------------------------------
(* An incident gets one job per cooldown, however many scans run at once,  *)
(* unless its POST was given up without an answer or its key was lost.     *)
OneJobPerCooldown == \A k \in Incidents : jobs[k] > 1 => k \in troubled

(* The cooldown silences only incidents that have a job: one that is       *)
(* claimed has its job, or a scan still at it, unless the scan that        *)
(* claimed it was interrupted.                                             *)
SilencedHasJob ==
    \A k \in claim :
        \/ jobs[k] > 0
        \/ k \in interrupted
        \/ \E s \in Scans : pc[s] \in {"post", "release"} /\ incident[s] = k

(* An incident that persists gets a job in every cooldown, although        *)
(* submissions, scans and the service may fail (finitely often).           *)
PersistingIsSubmitted ==
    \A k \in Incidents :
        <>[](Signature(pod[k[1]]) = k[2]) => []<>(jobs[k] > 0)
=============================================================================
