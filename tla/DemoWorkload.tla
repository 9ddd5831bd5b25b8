----------------------------- MODULE DemoWorkload -----------------------------
(***************************************************************************)
(* The demo workload: scenario-svc, which patches faults into the cluster  *)
(* and resets it (services/scenario/app/scenarios.py, main.py), and the    *)
(* tabs that trigger errors and reset the demo (frontend/src/app/          *)
(* scenarios/page.tsx) and keep the open errors in localStorage.           *)
(*                                                                         *)
(* The handlers run in a thread pool, one kubectl command after the other; *)
(* what the service believes is a set in memory.  The queue is read and    *)
(* written as a whole, in one step of one tab; the other tabs are told by  *)
(* a storage event.                                                        *)
(***************************************************************************)
EXTENDS Naturals, FiniteSets

CONSTANTS Scenarios,    \* the catalogue
          ResourceOf,   \* what each one patches
          Tabs

Restored ==             \* in reset's order
    <<"namespace", "configmap", "deployment", "service">>
Resources == {"configmap", "deployment", "service"}

ASSUME DemoAssumption == ResourceOf \in [Scenarios -> Resources]

VARIABLES faults,       \* the cluster: scenarios in effect
          deployed,     \* the cluster: the Deployment exists
          active,       \* the service's set
          open,         \* localStorage: scenarios with an open error
          activeErrors, \* what each tab shows of it
          told,         \* tabs with a storage event on the way
          confirmScenario,       \* each tab's dialog
          applying,     \* where each tab's apply is
          resetting,    \* where each tab's reset is
          overlapped,   \* history: resets that another call overlapped
          disturbed     \* history: since the last clean reset, an apply has
                        \* overlapped a reset, a command has failed half way,
                        \* an answer was lost or the service was restarted

clusterVars == <<faults, deployed>>
browserVars == <<open, activeErrors, told, confirmScenario>>
demoVars == <<clusterVars, active, browserVars, applying, resetting, overlapped,
              disturbed>>

NoScenario == "none"
ApplySteps == {"no", "check", "patch", "add", "answer"}
ResetSteps == {"no", "cancel", "delete", "namespace", "configmap",
               "deployment", "service", "rollout", "clear", "answer"}

Applies == {t \in Tabs : applying[t] # "no"}
Resets == {t \in Tabs : resetting[t] # "no"}

DemoTypeOK ==
    /\ faults \subseteq Scenarios /\ deployed \in BOOLEAN
    /\ active \subseteq Scenarios /\ open \subseteq Scenarios
    /\ activeErrors \in [Tabs -> SUBSET Scenarios] /\ told \subseteq Tabs
    /\ confirmScenario \in [Tabs -> Scenarios \cup {NoScenario}]
    /\ applying \in [Tabs -> ApplySteps] /\ resetting \in [Tabs -> ResetSteps]
    /\ overlapped \subseteq Resets /\ disturbed \in BOOLEAN

DemoInit ==
    /\ faults = {} /\ deployed = TRUE /\ active = {} /\ open = {}
    /\ activeErrors = [t \in Tabs |-> {}] /\ told = {}
    /\ confirmScenario = [t \in Tabs |-> NoScenario]
    /\ applying = [t \in Tabs |-> "no"] /\ resetting = [t \in Tabs |-> "no"]
    /\ overlapped = {} /\ disturbed = FALSE

FaultsOn(r) == {s \in faults : ResourceOf[s] = r}

-----------------------------------------------------------------------------
(* The page.                                                               *)

OpenDialog(t, s) ==
    /\ confirmScenario[t] = NoScenario
    /\ confirmScenario' = [confirmScenario EXCEPT ![t] = s]
    /\ UNCHANGED <<clusterVars, active, open, activeErrors, told, applying,
                   resetting, overlapped, disturbed>>

(* Cancel, Escape or a click beside the dialog.                            *)
CloseConfirm(t) ==
    /\ confirmScenario[t] # NoScenario /\ applying[t] = "no"
    /\ confirmScenario' = [confirmScenario EXCEPT ![t] = NoScenario]
    /\ UNCHANGED <<clusterVars, active, open, activeErrors, told, applying,
                   resetting, overlapped, disturbed>>

OnApplyConfirm(t) ==
    /\ confirmScenario[t] # NoScenario /\ applying[t] = "no"
    /\ applying' = [applying EXCEPT ![t] = "check"]
    /\ overlapped' = overlapped \cup Resets
    /\ disturbed' = (disturbed \/ Resets # {})
    /\ UNCHANGED <<clusterVars, active, browserVars, resetting>>

(* The banner's button, or the toast of a refused apply.                   *)
ResetDemo(t) ==
    /\ resetting[t] = "no"
    /\ activeErrors[t] # {} \/ confirmScenario[t] \in active
    /\ resetting' = [resetting EXCEPT ![t] = "cancel"]
    /\ overlapped' = IF Applies \cup Resets = {} THEN {}
                     ELSE overlapped \cup Resets \cup {t}
    /\ disturbed' = (disturbed \/ Applies # {})
    /\ UNCHANGED <<clusterVars, active, browserVars, applying>>

OnStorage(t) ==
    /\ t \in told
    /\ told' = told \ {t}
    /\ activeErrors' = [activeErrors EXCEPT ![t] = open]
    /\ UNCHANGED <<clusterVars, active, open, confirmScenario, applying,
                   resetting, overlapped, disturbed>>

(* A tab has written the queue.                                            *)
Stores(t, errors) ==
    /\ open' = errors
    /\ activeErrors' = [activeErrors EXCEPT ![t] = errors]
    /\ told' = told \cup (Tabs \ {t})

-----------------------------------------------------------------------------
(* ScenarioManager.apply.                                                  *)

ApplyTo(t, step) == applying' = [applying EXCEPT ![t] = step]

(* 503, 404, 409, or the patch begins.                                     *)
CheckScenario(t) ==
    /\ applying[t] = "check"
    /\ \/ confirmScenario[t] \notin active /\ ApplyTo(t, "patch")
       \/ ApplyTo(t, "no")
    /\ UNCHANGED <<clusterVars, active, browserVars, resetting, overlapped,
                   disturbed>>

(* Mutant: the scenario is active before its patch has succeeded. *)
PatchMarkingFirst(t) ==
    LET s == confirmScenario[t] IN
    /\ applying[t] = "patch"
    /\ active' = active \cup {s}
    /\ \/ /\ ResourceOf[s] = "deployment" => deployed
          /\ faults' = faults \cup {s}
          /\ ApplyTo(t, "add")
       \/ ApplyTo(t, "no") /\ UNCHANGED faults
    /\ UNCHANGED <<deployed, browserVars, resetting, overlapped, disturbed>>

(* A command that fails, or that is given up after its timeout, may have   *)
(* been carried out.                                                       *)
Patch(t) ==
    LET s == confirmScenario[t]
        possible == ResourceOf[s] = "deployment" => deployed
    IN /\ applying[t] = "patch"
       /\ \/ /\ possible
             /\ faults' = faults \cup {s}
             /\ \/ ApplyTo(t, "add") /\ UNCHANGED disturbed
                \/ ApplyTo(t, "no") /\ disturbed' = TRUE
          \/ ApplyTo(t, "no") /\ UNCHANGED <<faults, disturbed>>
       /\ UNCHANGED <<deployed, active, browserVars, resetting, overlapped>>

AddScenario(t) ==
    /\ applying[t] = "add"
    /\ active' = active \cup {confirmScenario[t]}
    /\ ApplyTo(t, "answer")
    /\ UNCHANGED <<clusterVars, browserVars, resetting, overlapped, disturbed>>

(* The page takes the answer; or it does not get it.                       *)
ApplyAnswered(t) ==
    /\ applying[t] = "answer"
    /\ ApplyTo(t, "no")
    /\ \/ /\ Stores(t, open \cup {confirmScenario[t]})
          /\ confirmScenario' = [confirmScenario EXCEPT ![t] = NoScenario]
          /\ UNCHANGED disturbed
       \/ disturbed' = TRUE /\ UNCHANGED browserVars
    /\ UNCHANGED <<clusterVars, active, resetting, overlapped>>

-----------------------------------------------------------------------------
(* ScenarioManager.reset, between the cancelled diagnoses and the answer.  *)

ResetTo(t, step) ==
    /\ resetting' = [resetting EXCEPT ![t] = step]
    /\ overlapped' = IF step = "no" THEN overlapped \ {t} ELSE overlapped

(* cancelActiveJobs, or the service's check of the cluster, may fail.      *)
JobsCancelled(t) ==
    /\ resetting[t] = "cancel"
    /\ ResetTo(t, "delete") \/ ResetTo(t, "no")
    /\ UNCHANGED <<clusterVars, active, browserVars, applying, disturbed>>

(* kubectl delete.                                                         *)
DeleteDeployment(t) ==
    /\ resetting[t] = "delete"
    /\ \/ /\ deployed' = FALSE /\ faults' = faults \ FaultsOn("deployment")
          /\ \/ ResetTo(t, "namespace") /\ UNCHANGED disturbed
             \/ ResetTo(t, "no") /\ disturbed' = TRUE
       \/ ResetTo(t, "no") /\ UNCHANGED <<clusterVars, disturbed>>
    /\ UNCHANGED <<active, browserVars, applying>>

(* kubectl apply of the four manifests, one after the other; no scenario's *)
(* fault is in the namespace.                                              *)
ApplyBase(t) ==
    \E i \in 1 .. 4 :
       LET r == Restored[i] IN
       /\ resetting[t] = r
       /\ \/ /\ faults' = faults \ FaultsOn(r)
             /\ deployed' = (deployed \/ r = "deployment")
             /\ \/ /\ ResetTo(t, IF i = 4 THEN "rollout" ELSE Restored[i + 1])
                   /\ UNCHANGED disturbed
                \/ ResetTo(t, "no") /\ disturbed' = TRUE
          \/ ResetTo(t, "no") /\ disturbed' = TRUE /\ UNCHANGED clusterVars
       /\ UNCHANGED <<active, browserVars, applying>>

(* kubectl rollout status; given up after 60 s, or after its own 120 s.    *)
Rollout(t) ==
    /\ resetting[t] = "rollout"
    /\ \/ deployed /\ ResetTo(t, "clear") /\ UNCHANGED disturbed
       \/ ResetTo(t, "no") /\ disturbed' = TRUE
    /\ UNCHANGED <<clusterVars, active, browserVars, applying>>

ClearActive(t) ==
    /\ resetting[t] = "clear"
    /\ active' = {}
    /\ ResetTo(t, "answer")
    /\ UNCHANGED <<clusterVars, browserVars, applying, overlapped, disturbed>>

(* markAllActiveScenarioErrorsFixed.  A reset that nothing overlapped      *)
(* restores everything.                                                    *)
ResetAnswered(t) ==
    /\ resetting[t] = "answer"
    /\ ResetTo(t, "no")
    /\ \/ Stores(t, {}) /\ disturbed' = (disturbed /\ t \in overlapped)
       \/ disturbed' = TRUE /\ UNCHANGED <<open, activeErrors, told>>
    /\ UNCHANGED <<clusterVars, active, confirmScenario, applying>>

(* The set is lost, and what was asked of the service fails; a patch that  *)
(* had been sent may still come.                                           *)
ScenarioRestart ==
    /\ \E late \in SUBSET {confirmScenario[t] :
                            t \in {u \in Tabs : applying[u] = "patch"}} :
          faults' = faults \cup {s \in late :
                                   ResourceOf[s] = "deployment" => deployed}
    /\ active' = {}
    /\ applying' = [t \in Tabs |-> "no"] /\ resetting' = [t \in Tabs |-> "no"]
    /\ overlapped' = {} /\ disturbed' = TRUE
    /\ UNCHANGED <<deployed, browserVars>>

DemoNext ==
    \/ \E t \in Tabs :
          \/ \E s \in Scenarios : OpenDialog(t, s)
          \/ CloseConfirm(t) \/ OnApplyConfirm(t) \/ ResetDemo(t)
          \/ OnStorage(t)
          \/ CheckScenario(t) \/ Patch(t) \/ AddScenario(t) \/ ApplyAnswered(t)
          \/ JobsCancelled(t) \/ DeleteDeployment(t) \/ ApplyBase(t)
          \/ Rollout(t) \/ ClearActive(t) \/ ResetAnswered(t)
    \/ ScenarioRestart

DemoSpec == DemoInit /\ [][DemoNext]_demoVars

-----------------------------------------------------------------------------
(* What the home page says.                                                *)
ClusterReady(t) == activeErrors[t] = {}

(* When nothing is under way, the service's set, the open errors of the    *)
(* queue and the faults in the cluster are the same, so that the service   *)
(* refuses what is in effect and only that, and the home page's "Cluster   *)
(* ready" is true; whatever was triggered in whichever tab, and also after *)
(* anything went wrong, once a reset that nothing overlapped has succeeded.*)
DemoAgrees ==
    Applies = {} /\ Resets = {} /\ ~disturbed =>
        /\ deployed
        /\ active = faults /\ open = faults
        /\ \A t \in Tabs \ told : ClusterReady(t) <=> faults = {}
=============================================================================
