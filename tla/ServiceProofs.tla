----------------------------- MODULE ServiceProofs -----------------------------
(***************************************************************************)
(* Theorems about scenario-svc and the workload it changes (DemoWorkload), *)
(* and about the gateway's rate limiter (RateLimiter), for every value of  *)
(* their constants.                                                        *)
(***************************************************************************)
EXTENDS DemoWorkload, RateLimiter, FiniteSetTheorems, WellFoundedInduction,
        TLAPS

-----------------------------------------------------------------------------
(* scenario-svc and its workload.                                          *)

(* How far a reset has come: what its commands have restored, and what must*)
(* hold behind them.                                                       *)
RestoredBy(step) ==
    CASE step \in {"namespace", "configmap"} -> {"deployment"}
      [] step \in {"deployment", "service"} -> {"configmap", "deployment"}
      [] step \in {"rollout", "clear", "answer"} -> Resources
      [] OTHER -> {}

Cleaned(t) ==
    /\ \A s \in faults : ResourceOf[s] \notin RestoredBy(resetting[t])
    /\ resetting[t] = "answer" => active = {}

(* The steps before the Deployment is there again.                         *)
Rebuilding == {"namespace", "configmap", "deployment"}
USE DEF Rebuilding

Rebuilt(t) ==
    resetting[t] \in {"service", "rollout", "clear", "answer"} => deployed

Begun(t) == RestoredBy(resetting[t]) # {}

(* Scenarios that are in effect and not yet in the set, and those in the   *)
(* set and not yet in the queue.                                           *)
Unadded == {confirmScenario[t] : t \in {u \in Tabs : applying[u] = "add"}}
Unstored == {confirmScenario[t] : t \in {u \in Tabs : applying[u] = "answer"}}

TabInv ==
    \A t \in Tabs :
        /\ t \notin told => activeErrors[t] = open
        /\ applying[t] # "no" => confirmScenario[t] # NoScenario

(* A reset that nothing overlapped restores everything, whatever was wrong *)
(* before it.                                                              *)
AloneInv ==
    \A t \in Resets \ overlapped :
        Applies = {} /\ Resets = {t} /\ Cleaned(t) /\ Rebuilt(t)

(* While nothing has gone wrong, applies and resets exclude each other,    *)
(* and what is not restored yet is still being restored.                   *)
QuietInv ==
    ~disturbed =>
        /\ Applies = {} \/ Resets = {}
        /\ deployed \/ \E t \in Tabs : resetting[t] \in Rebuilding
        /\ \A t \in Tabs : Cleaned(t)
        /\ (\A t \in Tabs : ~Begun(t))
              => faults = active \cup Unadded /\ active = open \cup Unstored

DemoInv == DemoTypeOK /\ TabInv /\ AloneInv /\ QuietInv

LEMMA DemoInitInv == DemoInit => DemoInv
<1> SUFFICES ASSUME DemoInit PROVE DemoInv
  OBVIOUS
<1>1. Applies = {} /\ Resets = {}
  BY DEF DemoInit, Applies, Resets
<1>2. DemoTypeOK
  BY DEF DemoInit, DemoTypeOK, ApplySteps, ResetSteps
<1>3. TabInv /\ AloneInv
  BY <1>1 DEF DemoInit, TabInv, AloneInv
<1>4. QuietInv
  BY <1>1
  DEF DemoInit, QuietInv, Cleaned, RestoredBy, Unadded, Unstored
<1>5. QED
  BY <1>2, <1>3, <1>4 DEF DemoInv

-----------------------------------------------------------------------------
LEMMA NoResets ==
    ASSUME Resets = {}, DemoTypeOK, NEW t \in Tabs
    PROVE  resetting[t] = "no" /\ RestoredBy(resetting[t]) = {}
BY DEF Resets, RestoredBy

LEMMA NoApplies ==
    ASSUME Applies = {}
    PROVE  Unadded = {} /\ Unstored = {}
BY DEF Applies, Unadded, Unstored

(* A step of an apply: every reset is overlapped, and there is none while  *)
(* nothing has gone wrong.                                                 *)
LEMMA ApplyFrame ==
    ASSUME DemoInv, Applies # {}, UNCHANGED <<resetting, overlapped, deployed>>,
           ~disturbed' => ~disturbed,
           ~disturbed' /\ faults = active \cup Unadded
                       /\ active = open \cup Unstored
             => faults' = active' \cup Unadded' /\ active' = open' \cup Unstored'
    PROVE  AloneInv' /\ QuietInv'
<1>1. Resets' = Resets
  BY DEF Resets
<1>2. AloneInv'
  BY <1>1 DEF DemoInv, AloneInv
<1>3. ASSUME ~disturbed' PROVE
          /\ Applies' = {} \/ Resets' = {}
          /\ deployed' \/ \E t \in Tabs :
                             resetting'[t] \in Rebuilding
          /\ \A t \in Tabs : Cleaned(t)'
          /\ (\A t \in Tabs : ~Begun(t)')
                => faults' = active' \cup Unadded'
                     /\ active' = open' \cup Unstored'
  <2>1. Resets = {} /\ ~disturbed
    BY <1>3 DEF DemoInv, QuietInv
  <2>2. \A t \in Tabs : resetting[t] = "no" /\ RestoredBy(resetting[t]) = {}
    BY <2>1, NoResets DEF DemoInv
  <2>3. deployed /\ faults = active \cup Unadded /\ active = open \cup Unstored
    BY <2>1, <2>2 DEF DemoInv, QuietInv, Begun
  <2>4. \A t \in Tabs : Cleaned(t)'
    BY <2>2 DEF Cleaned, RestoredBy
  <2>5. QED
    BY <1>1, <1>3, <2>1, <2>3, <2>4
<1>4. QED
  BY <1>2, <1>3 DEF QuietInv

(* A step of a reset before its answer.                                    *)
LEMMA ResetFrame ==
    ASSUME DemoInv, NEW t \in Tabs, resetting[t] # "no",
           NEW step \in ResetSteps, ResetTo(t, step),
           UNCHANGED <<applying, confirmScenario, open>>,
           faults' \subseteq faults, active' \in {active, {}},
           step # "no" /\ Cleaned(t) => Cleaned(t)',
           step # "no" /\ Rebuilt(t) => Rebuilt(t)',
           ~disturbed' => ~disturbed,
           ~disturbed' => \/ deployed' \/ step \in Rebuilding
                          \/ /\ UNCHANGED deployed
                             /\ resetting[t] \notin Rebuilding,
           ~disturbed' /\ RestoredBy(step) = {}
               => UNCHANGED <<faults, active>> /\ ~Begun(t)
    PROVE  AloneInv' /\ QuietInv'
<1>1. /\ resetting' = [resetting EXCEPT ![t] = step]
      /\ overlapped' = IF step = "no" THEN overlapped \ {t} ELSE overlapped
  BY DEF ResetTo
<1>2. /\ Applies' = Applies /\ Unadded' = Unadded /\ Unstored' = Unstored
  BY DEF Applies, Unadded, Unstored
<1>3. /\ t \in Resets /\ resetting'[t] = step
      /\ \A u \in Tabs : u # t => resetting'[u] = resetting[u]
      /\ Resets' = IF step = "no" THEN Resets \ {t} ELSE Resets
  BY <1>1 DEF Resets, DemoInv, DemoTypeOK
<1>4. AloneInv'
  <2>1. ASSUME NEW u \in Resets' \ overlapped' PROVE
            Applies' = {} /\ Resets' = {u} /\ Cleaned(u)' /\ Rebuilt(u)'
    <3>1. u \in Resets \ overlapped
      BY <1>1, <1>3
    <3>2. Applies = {} /\ Resets = {u} /\ Cleaned(u) /\ Rebuilt(u)
      BY <3>1 DEF DemoInv, AloneInv
    <3>3. u = t /\ step # "no"
      BY <1>3, <3>2
    <3>4. QED
      BY <1>2, <1>3, <3>2, <3>3
  <2>2. QED
    BY <2>1 DEF AloneInv
<1>5. ASSUME ~disturbed' PROVE
          /\ Applies' = {} \/ Resets' = {}
          /\ deployed' \/ \E u \in Tabs :
                             resetting'[u] \in Rebuilding
          /\ \A u \in Tabs : Cleaned(u)'
          /\ (\A u \in Tabs : ~Begun(u)')
                => faults' = active' \cup Unadded'
                     /\ active' = open' \cup Unstored'
  <2>1. /\ Applies = {}
        /\ deployed \/ \E u \in Tabs : resetting[u] \in Rebuilding
        /\ \A u \in Tabs : Cleaned(u)
        /\ (\A u \in Tabs : ~Begun(u))
              => faults = active \cup Unadded /\ active = open \cup Unstored
    BY <1>3, <1>5 DEF DemoInv, QuietInv
  <2>2. deployed' \/ \E u \in Tabs : resetting'[u] \in Rebuilding
    BY <1>3, <1>5, <2>1
  <2>3. ASSUME NEW u \in Tabs PROVE Cleaned(u)'
    <3>1. CASE u # t
      BY <1>3, <2>1, <3>1 DEF Cleaned, RestoredBy
    <3>2. CASE u = t /\ step # "no"
      BY <2>1, <3>2
    <3>3. CASE u = t /\ step = "no"
      BY <1>3, <3>3 DEF Cleaned, RestoredBy
    <3>4. QED
      BY <3>1, <3>2, <3>3
  <2>4. ASSUME \A u \in Tabs : ~Begun(u)'
        PROVE  faults' = active' \cup Unadded' /\ active' = open' \cup Unstored'
    <3>1. RestoredBy(step) = {}
      BY <1>3, <2>4 DEF Begun, RestoredBy
    <3>2. \A u \in Tabs : u # t => ~Begun(u)
      BY <1>3, <2>4 DEF Begun, RestoredBy
    <3>3. QED
      BY <1>2, <1>5, <2>1, <3>1, <3>2
  <2>5. QED
    BY <1>2, <2>1, <2>2, <2>3, <2>4
<1>6. QED
  BY <1>4, <1>5 DEF QuietInv

-----------------------------------------------------------------------------
(* The page.                                                               *)
LEMMA DialogsKeep ==
    ASSUME DemoInv, NEW t \in Tabs,
           \/ \E s \in Scenarios : OpenDialog(t, s)
           \/ CloseConfirm(t) \/ OnStorage(t)
    PROVE  DemoInv'
<1>1. /\ UNCHANGED <<faults, deployed, active, open, applying, resetting,
                     overlapped, disturbed>>
      /\ \A u \in Tabs : applying[u] # "no"
             => confirmScenario'[u] = confirmScenario[u]
      /\ confirmScenario' \in [Tabs -> Scenarios \cup {NoScenario}]
      /\ activeErrors' \in [Tabs -> SUBSET Scenarios] /\ told' \subseteq Tabs
      /\ \A u \in Tabs : u \notin told' => activeErrors'[u] = open
  BY DEF OpenDialog, CloseConfirm, OnStorage, clusterVars, DemoInv, DemoTypeOK,
     TabInv
<1>2. Applies' = Applies /\ Resets' = Resets
  BY <1>1 DEF Applies, Resets
<1>3. Unadded' = Unadded /\ Unstored' = Unstored
  <2>1. \A u \in Tabs : applying[u] \in {"add", "answer"}
            => confirmScenario'[u] = confirmScenario[u]
    BY <1>1
  <2>2. QED
    BY <1>1, <2>1 DEF Unadded, Unstored
<1>4. DemoTypeOK'
  BY <1>1, <1>2 DEF DemoInv, DemoTypeOK
<1>5. TabInv'
  BY <1>1 DEF DemoInv, TabInv
<1>6. AloneInv' /\ QuietInv'
  BY <1>1, <1>2, <1>3
  DEF DemoInv, AloneInv, QuietInv, Cleaned, Rebuilt, Begun, RestoredBy
<1>7. QED
  BY <1>4, <1>5, <1>6 DEF DemoInv

LEMMA ApplyBegins ==
    ASSUME DemoInv, NEW t \in Tabs, OnApplyConfirm(t)
    PROVE  DemoInv'
<1>1. /\ applying[t] = "no" /\ confirmScenario[t] # NoScenario
      /\ applying' = [applying EXCEPT ![t] = "check"]
      /\ overlapped' = overlapped \cup Resets
      /\ ~disturbed' => ~disturbed /\ Resets = {}
      /\ disturbed' \in BOOLEAN
      /\ UNCHANGED <<faults, deployed, active, open, activeErrors, told,
                     confirmScenario, resetting>>
  BY DEF OnApplyConfirm, clusterVars, browserVars
<1>2. Resets' = Resets
  BY <1>1 DEF Resets
<1>3. Unadded' = Unadded /\ Unstored' = Unstored
  BY <1>1 DEF DemoInv, DemoTypeOK, Unadded, Unstored
<1>4. DemoTypeOK'
  BY <1>1, <1>2 DEF DemoInv, DemoTypeOK, ApplySteps
<1>5. TabInv'
  BY <1>1 DEF DemoInv, DemoTypeOK, TabInv
<1>6. AloneInv'
  BY <1>1, <1>2 DEF AloneInv
<1>7. QuietInv'
  BY <1>1, <1>2, <1>3 DEF DemoInv, QuietInv, Cleaned, Begun, RestoredBy
<1>8. QED
  BY <1>4, <1>5, <1>6, <1>7 DEF DemoInv

LEMMA ResetBegins ==
    ASSUME DemoInv, NEW t \in Tabs, ResetDemo(t)
    PROVE  DemoInv'
<1>1. /\ resetting[t] = "no"
      /\ resetting' = [resetting EXCEPT ![t] = "cancel"]
      /\ overlapped' = IF Applies \cup Resets = {} THEN {}
                       ELSE overlapped \cup Resets \cup {t}
      /\ ~disturbed' => ~disturbed /\ Applies = {}
      /\ disturbed' \in BOOLEAN
      /\ UNCHANGED <<faults, deployed, active, open, activeErrors, told,
                     confirmScenario, applying>>
  BY DEF ResetDemo, clusterVars, browserVars
<1>2. /\ Applies' = Applies /\ Unadded' = Unadded /\ Unstored' = Unstored
      /\ Resets' = Resets \cup {t}
  BY <1>1 DEF DemoInv, DemoTypeOK, Applies, Unadded, Unstored, Resets
<1>3. DemoTypeOK'
  BY <1>1, <1>2 DEF DemoInv, DemoTypeOK, ResetSteps
<1>4. TabInv'
  BY <1>1 DEF DemoInv, TabInv
<1>5. \A u \in Tabs : RestoredBy(resetting[u]) = RestoredBy(resetting'[u])
  BY <1>1 DEF DemoInv, DemoTypeOK, RestoredBy
<1>6. \A u \in Tabs : resetting'[u] = resetting[u] \/ u = t
  BY <1>1 DEF DemoInv, DemoTypeOK
<1>7. resetting'[t] = "cancel"
  BY <1>1 DEF DemoInv, DemoTypeOK
<1>8. \A u \in Tabs : Cleaned(u) => Cleaned(u)'
  BY <1>1, <1>5, <1>6, <1>7 DEF Cleaned, RestoredBy
<1>9. AloneInv'
  <2>1. CASE Applies \cup Resets = {}
    <3>1. Cleaned(t)' /\ Rebuilt(t)'
      BY <1>7 DEF Cleaned, Rebuilt, RestoredBy
    <3>2. QED
      BY <1>2, <2>1, <3>1 DEF AloneInv
  <2>2. CASE Applies \cup Resets # {}
    BY <1>1, <1>2, <2>2 DEF AloneInv
  <2>3. QED
    BY <2>1, <2>2
<1>10. ASSUME ~disturbed' PROVE
          /\ Applies' = {} \/ Resets' = {}
          /\ deployed' \/ \E u \in Tabs :
                             resetting'[u] \in Rebuilding
          /\ \A u \in Tabs : Cleaned(u)'
          /\ (\A u \in Tabs : ~Begun(u)')
                => faults' = active' \cup Unadded'
                     /\ active' = open' \cup Unstored'
  <2>1. \A u \in Tabs : Begun(u)' <=> Begun(u)
    BY <1>5 DEF Begun, RestoredBy
  <2>2. QED
    BY <1>1, <1>2, <1>6, <1>8, <1>10, <2>1 DEF DemoInv, QuietInv
<1>11. QED
  BY <1>3, <1>4, <1>9, <1>10 DEF DemoInv, QuietInv

-----------------------------------------------------------------------------
(* An apply.                                                               *)
LEMMA ApplyStep ==
    ASSUME DemoInv, NEW t \in Tabs,
           CheckScenario(t) \/ Patch(t) \/ AddScenario(t) \/ ApplyAnswered(t)
    PROVE  DemoInv'
<1> DEFINE s == confirmScenario[t]
<1>1. applying[t] # "no" /\ t \in Applies /\ UNCHANGED <<resetting, overlapped, deployed>>
  BY DEF CheckScenario, Patch, AddScenario, ApplyAnswered, Applies, clusterVars
<1>2. s \in Scenarios
  BY <1>1 DEF DemoInv, DemoTypeOK, TabInv
<1>3. Resets' = Resets
  BY <1>1 DEF Resets
<1>4. ASSUME NEW step \in ApplySteps, ApplyTo(t, step)
      PROVE  /\ applying' \in [Tabs -> ApplySteps] /\ applying'[t] = step
             /\ \A u \in Tabs : u # t => applying'[u] = applying[u]
  BY <1>4 DEF ApplyTo, DemoInv, DemoTypeOK
<1>5. CASE \/ CheckScenario(t)
           \/ /\ Patch(t) /\ ApplyTo(t, "no")
              /\ UNCHANGED <<faults, disturbed>>
  <2>1. /\ UNCHANGED <<faults, active, open, activeErrors, told,
                       confirmScenario, disturbed>>
        /\ applying[t] \in {"check", "patch"}
        /\ \E step \in {"patch", "no"} : ApplyTo(t, step)
    BY <1>5 DEF CheckScenario, Patch, clusterVars, browserVars
  <2>2. /\ applying' \in [Tabs -> ApplySteps] /\ applying'[t] \in {"patch", "no"}
        /\ \A u \in Tabs : u # t => applying'[u] = applying[u]
    BY <2>1, <1>4 DEF ApplySteps
  <2>3. Unadded' = Unadded /\ Unstored' = Unstored
    BY <2>1, <2>2 DEF Unadded, Unstored
  <2>4. DemoTypeOK'
    BY <1>1, <1>3, <2>1, <2>2 DEF DemoInv, DemoTypeOK
  <2>5. TabInv'
    BY <1>1, <2>1, <2>2 DEF DemoInv, TabInv
  <2>6. QED
    BY <1>1, <2>1, <2>3, <2>4, <2>5, ApplyFrame DEF DemoInv
<1>6. CASE /\ Patch(t) /\ faults' = faults \cup {s}
           /\ \/ ApplyTo(t, "add") /\ UNCHANGED disturbed
              \/ ApplyTo(t, "no") /\ disturbed' = TRUE
  <2>1. /\ UNCHANGED <<active, open, activeErrors, told, confirmScenario>>
        /\ applying[t] = "patch" /\ faults' = faults \cup {s}
    BY <1>6 DEF Patch, browserVars
  <2>7. /\ disturbed' \in BOOLEAN /\ (~disturbed' => ~disturbed)
        /\ \E step \in {"add", "no"} :
              ApplyTo(t, step) /\ (~disturbed' => step = "add")
    <3>1. CASE ApplyTo(t, "add") /\ UNCHANGED disturbed
      BY <3>1 DEF DemoInv, DemoTypeOK
    <3>2. CASE ApplyTo(t, "no") /\ disturbed' = TRUE
      BY <3>2
    <3>3. QED
      BY <1>6, <3>1, <3>2
  <2>2. /\ applying' \in [Tabs -> ApplySteps]
        /\ ~disturbed' => applying'[t] = "add"
        /\ \A u \in Tabs : u # t => applying'[u] = applying[u]
    BY <2>7, <1>4 DEF ApplySteps
  <2>3. ~disturbed' => Unadded' = Unadded \cup {s} /\ Unstored' = Unstored
    BY <2>1, <2>2 DEF Unadded, Unstored
  <2>4. DemoTypeOK'
    BY <1>1, <1>2, <1>3, <2>1, <2>2, <2>7 DEF DemoInv, DemoTypeOK
  <2>5. TabInv'
    BY <1>1, <2>1, <2>2 DEF DemoInv, TabInv
  <2>6. QED
    BY <1>1, <2>1, <2>3, <2>7, <2>4, <2>5, ApplyFrame DEF DemoInv
<1>7. CASE AddScenario(t)
  <2>1. /\ UNCHANGED <<faults, open, activeErrors, told, confirmScenario,
                       disturbed>>
        /\ applying[t] = "add" /\ active' = active \cup {s}
        /\ ApplyTo(t, "answer")
    BY <1>7 DEF AddScenario, clusterVars, browserVars
  <2>2. /\ applying' \in [Tabs -> ApplySteps] /\ applying'[t] = "answer"
        /\ \A u \in Tabs : u # t => applying'[u] = applying[u]
    BY <2>1, <1>4 DEF ApplySteps
  <2>3. /\ Unadded' \cup {s} = Unadded
        /\ Unstored' = Unstored \cup {s}
    BY <2>1, <2>2 DEF Unadded, Unstored
  <2>4. DemoTypeOK'
    BY <1>1, <1>2, <1>3, <2>1, <2>2 DEF DemoInv, DemoTypeOK
  <2>5. TabInv'
    BY <1>1, <2>1, <2>2 DEF DemoInv, TabInv
  <2>6. QED
    BY <1>1, <2>1, <2>3, <2>4, <2>5, ApplyFrame DEF DemoInv
<1>8. CASE ApplyAnswered(t) /\ UNCHANGED disturbed
           /\ Stores(t, open \cup {s})
           /\ confirmScenario' = [confirmScenario EXCEPT ![t] = NoScenario]
  <2>1. /\ UNCHANGED <<faults, active, disturbed>>
        /\ applying[t] = "answer" /\ ApplyTo(t, "no")
        /\ open' = open \cup {s}
        /\ activeErrors' = [activeErrors EXCEPT ![t] = open']
        /\ told' = told \cup (Tabs \ {t})
    BY <1>8 DEF ApplyAnswered, Stores, clusterVars
  <2>2. /\ applying' \in [Tabs -> ApplySteps] /\ applying'[t] = "no"
        /\ \A u \in Tabs : u # t => applying'[u] = applying[u]
    BY <2>1, <1>4 DEF ApplySteps
  <2>3. \A u \in Tabs : u # t => confirmScenario'[u] = confirmScenario[u]
    BY <1>8 DEF DemoInv, DemoTypeOK
  <2>4. Unadded' = Unadded /\ Unstored = Unstored' \cup {s}
    BY <2>1, <2>2, <2>3 DEF Unadded, Unstored
  <2>5. DemoTypeOK'
    BY <1>1, <1>2, <1>3, <1>8, <2>1, <2>2 DEF DemoInv, DemoTypeOK
  <2>6. TabInv'
    BY <1>1, <2>1, <2>2, <2>3 DEF DemoInv, DemoTypeOK, TabInv
  <2>7. QED
    BY <1>1, <2>1, <2>4, <2>5, <2>6, ApplyFrame DEF DemoInv
<1>9. CASE ApplyAnswered(t) /\ disturbed' = TRUE /\ UNCHANGED browserVars
  <2>1. /\ UNCHANGED <<faults, active, open, activeErrors, told,
                       confirmScenario>>
        /\ ApplyTo(t, "no") /\ disturbed' = TRUE
    BY <1>9 DEF ApplyAnswered, clusterVars, browserVars
  <2>2. /\ applying' \in [Tabs -> ApplySteps] /\ applying'[t] = "no"
        /\ \A u \in Tabs : u # t => applying'[u] = applying[u]
    BY <2>1, <1>4 DEF ApplySteps
  <2>3. disturbed' \in BOOLEAN /\ disturbed'
    BY <2>1
  <2>4. DemoTypeOK'
    BY <1>1, <1>3, <2>1, <2>2, <2>3 DEF DemoInv, DemoTypeOK
  <2>5. TabInv'
    BY <1>1, <2>1, <2>2 DEF DemoInv, TabInv
  <2>6. QED
    BY <1>1, <2>1, <2>3, <2>4, <2>5, ApplyFrame DEF DemoInv
<1>10. CASE Patch(t)
  BY <1>5, <1>6, <1>10 DEF Patch
<1>11. CASE ApplyAnswered(t)
  BY <1>8, <1>9, <1>11 DEF ApplyAnswered
<1>12. CASE CheckScenario(t)
  BY <1>5, <1>12
<1>13. QED
  BY <1>7, <1>10, <1>11, <1>12
-----------------------------------------------------------------------------
(* A reset.                                                                *)
LEMMA ResetEffects ==
    /\ \A step : RestoredBy(step) \subseteq Resources
    /\ RestoredBy("no") = {} /\ RestoredBy("cancel") = {}
    /\ RestoredBy("delete") = {} /\ RestoredBy("namespace") = {"deployment"}
    /\ RestoredBy("configmap") = {"deployment"}
    /\ RestoredBy("deployment") = {"configmap", "deployment"}
    /\ RestoredBy("service") = {"configmap", "deployment"}
    /\ RestoredBy("rollout") = Resources /\ RestoredBy("clear") = Resources
    /\ RestoredBy("answer") = Resources
BY DEF RestoredBy, Resources

LEMMA ResetGoesTo ==
    ASSUME DemoTypeOK, NEW t \in Tabs, NEW step \in ResetSteps,
           resetting[t] # "no", ResetTo(t, step)
    PROVE  /\ resetting' \in [Tabs -> ResetSteps] /\ resetting'[t] = step
           /\ overlapped' \subseteq Resets'
BY DEF DemoTypeOK, ResetTo, Resets

(* The types and the tabs of a step of a reset before its answer.          *)
LEMMA ResetTypes ==
    ASSUME DemoInv, NEW t \in Tabs, NEW step \in ResetSteps,
           resetting[t] # "no", ResetTo(t, step),
           UNCHANGED <<open, activeErrors, told, confirmScenario, applying>>,
           faults' \subseteq faults, active' \in {active, {}},
           deployed' \in BOOLEAN, disturbed' \in BOOLEAN
    PROVE  DemoTypeOK' /\ TabInv'
<1>1. DemoTypeOK'
  BY ResetGoesTo DEF DemoInv, DemoTypeOK
<1>2. TabInv'
  BY DEF DemoInv, TabInv
<1>3. QED
  BY <1>1, <1>2

LEMMA JobsCancelledStep ==
    ASSUME DemoInv, NEW t \in Tabs, JobsCancelled(t)
    PROVE  DemoInv'
<1>1. /\ resetting[t] = "cancel"
      /\ UNCHANGED <<faults, deployed, active, open, activeErrors, told,
                     confirmScenario, applying, disturbed>>
      /\ ResetTo(t, "delete") \/ ResetTo(t, "no")
  BY DEF JobsCancelled, clusterVars, browserVars
<1>2. PICK step \in {"delete", "no"} : ResetTo(t, step)
  BY <1>1
<1>3. step \in ResetSteps /\ RestoredBy(step) = {}
  BY ResetEffects DEF ResetSteps
<1>4. resetting'[t] = step
  BY <1>1, <1>2, <1>3, ResetGoesTo DEF DemoInv
<1>5. Cleaned(t)' /\ Rebuilt(t)' /\ ~Begun(t)
  BY <1>1, <1>3, <1>4, ResetEffects DEF Cleaned, Rebuilt, Begun, RestoredBy
<1>6. DemoTypeOK' /\ TabInv'
  BY <1>1, <1>2, <1>3, ResetTypes DEF DemoInv, DemoTypeOK
<1>7. AloneInv' /\ QuietInv'
  BY <1>1, <1>2, <1>3, <1>5, ResetFrame
<1>8. QED
  BY <1>6, <1>7 DEF DemoInv

LEMMA DeleteStep ==
    ASSUME DemoInv, NEW t \in Tabs, DeleteDeployment(t)
    PROVE  DemoInv'
<1>1. /\ resetting[t] = "delete"
      /\ UNCHANGED <<active, open, activeErrors, told, confirmScenario,
                     applying>>
      /\ deployed \in BOOLEAN /\ disturbed \in BOOLEAN
  BY DEF DeleteDeployment, browserVars, DemoInv, DemoTypeOK
<1>2. CASE /\ deployed' = FALSE /\ faults' = faults \ FaultsOn("deployment")
           /\ ResetTo(t, "namespace") /\ UNCHANGED disturbed
  <2>1. "namespace" \in ResetSteps
    BY DEF ResetSteps
  <2>2. resetting'[t] = "namespace"
    BY <1>1, <1>2, <2>1, ResetGoesTo DEF DemoInv
  <2>3. Cleaned(t)' /\ Rebuilt(t)'
    BY <1>2, <2>2, ResetEffects DEF Cleaned, Rebuilt, RestoredBy, FaultsOn
  <2>4. deployed' \in BOOLEAN /\ disturbed' \in BOOLEAN
    BY <1>1, <1>2
  <2>5. DemoTypeOK' /\ TabInv'
    BY <1>1, <1>2, <2>1, <2>4, ResetTypes
  <2>6. AloneInv' /\ QuietInv'
    BY <1>1, <1>2, <2>1, <2>3, ResetFrame, ResetEffects
  <2>7. QED
    BY <2>5, <2>6 DEF DemoInv
<1>3. CASE /\ deployed' = FALSE /\ faults' = faults \ FaultsOn("deployment")
           /\ ResetTo(t, "no") /\ disturbed' = TRUE
  <2>1. "no" \in ResetSteps
    BY DEF ResetSteps
  <2>2. deployed' \in BOOLEAN /\ disturbed' \in BOOLEAN
    BY <1>3
  <2>3. DemoTypeOK' /\ TabInv'
    BY <1>1, <1>3, <2>1, <2>2, ResetTypes
  <2>4. AloneInv' /\ QuietInv'
    BY <1>1, <1>3, <2>1, ResetFrame
  <2>5. QED
    BY <2>3, <2>4 DEF DemoInv
<1>4. CASE ResetTo(t, "no") /\ UNCHANGED <<faults, deployed, disturbed>>
  <2>1. "no" \in ResetSteps
    BY DEF ResetSteps
  <2>2. ~Begun(t)
    BY <1>1, ResetEffects DEF Begun
  <2>3. DemoTypeOK' /\ TabInv'
    BY <1>1, <1>4, <2>1, ResetTypes
  <2>4. AloneInv' /\ QuietInv'
    BY <1>1, <1>4, <2>1, <2>2, ResetFrame
  <2>5. QED
    BY <2>3, <2>4 DEF DemoInv
<1>5. QED
  BY <1>2, <1>3, <1>4 DEF DeleteDeployment, clusterVars

(* A command that fails leaves its mark.                                   *)
LEMMA ResetFails ==
    ASSUME DemoInv, NEW t \in Tabs, resetting[t] # "no", ResetTo(t, "no"),
           UNCHANGED <<active, open, activeErrors, told, confirmScenario,
                       applying>>,
           faults' \subseteq faults, deployed' \in BOOLEAN, disturbed' = TRUE
    PROVE  DemoInv'
<1>1. "no" \in ResetSteps
  BY DEF ResetSteps
<1>2. disturbed' \in BOOLEAN
  OBVIOUS
<1>3. DemoTypeOK' /\ TabInv'
  BY <1>1, <1>2, ResetTypes
<1>4. AloneInv' /\ QuietInv'
  BY <1>1, ResetFrame
<1>5. QED
  BY <1>3, <1>4 DEF DemoInv

LEMMA ApplyBaseStep ==
    ASSUME DemoInv, NEW t \in Tabs, ApplyBase(t)
    PROVE  DemoInv'
<1>1. PICK i \in 1 .. 4 :
          /\ resetting[t] = Restored[i]
          /\ UNCHANGED <<active, open, activeErrors, told, confirmScenario,
                         applying>>
          /\ \/ /\ faults' = faults \ FaultsOn(Restored[i])
                /\ deployed' = (deployed \/ Restored[i] = "deployment")
                /\ \/ /\ ResetTo(t, IF i = 4 THEN "rollout"
                                               ELSE Restored[i + 1])
                      /\ UNCHANGED disturbed
                   \/ ResetTo(t, "no") /\ disturbed' = TRUE
             \/ /\ ResetTo(t, "no") /\ disturbed' = TRUE
                /\ UNCHANGED <<faults, deployed>>
  BY DEF ApplyBase, clusterVars, browserVars
<1> DEFINE r == Restored[i]
           next == IF i = 4 THEN "rollout" ELSE Restored[i + 1]
<1>2. /\ r \in {"namespace", "configmap", "deployment", "service"}
      /\ next = CASE r = "namespace" -> "configmap"
                  [] r = "configmap" -> "deployment"
                  [] r = "deployment" -> "service"
                  [] OTHER -> "rollout"
      /\ next \in ResetSteps \ {"no"}
  BY DEF Restored, ResetSteps
<1>3. deployed \in BOOLEAN /\ disturbed \in BOOLEAN /\ resetting[t] # "no"
      /\ deployed' \in BOOLEAN
  BY <1>1, <1>2 DEF DemoInv, DemoTypeOK
<1>4. CASE /\ faults' = faults \ FaultsOn(r)
           /\ deployed' = (deployed \/ r = "deployment")
           /\ ResetTo(t, next) /\ UNCHANGED disturbed
  <2>1. resetting'[t] = next
    BY <1>2, <1>3, <1>4, ResetGoesTo DEF DemoInv
  <2>2. RestoredBy(next) \subseteq RestoredBy(r) \cup {r} /\ RestoredBy(next) # {}
    BY <1>2, ResetEffects DEF Resources
  <2>3. Cleaned(t) => Cleaned(t)'
    <3>1. ASSUME Cleaned(t), NEW x \in faults'
          PROVE  ResourceOf[x] \notin RestoredBy(next)
      BY <1>1, <1>4, <2>2, <3>1 DEF Cleaned, FaultsOn
    <3>2. next # "answer"
      BY <1>2
    <3>3. QED
      BY <2>1, <3>1, <3>2 DEF Cleaned, RestoredBy
  <2>4. Rebuilt(t) => Rebuilt(t)'
    BY <1>1, <1>2, <1>4, <2>1 DEF Rebuilt
  <2>5. \/ deployed' \/ next \in Rebuilding
        \/ UNCHANGED deployed /\ resetting[t] \notin Rebuilding
    BY <1>1, <1>2, <1>4, <1>3
  <2>6. DemoTypeOK' /\ TabInv'
    BY <1>1, <1>2, <1>3, <1>4, ResetTypes
  <2>7. AloneInv' /\ QuietInv'
    BY <1>1, <1>2, <1>3, <1>4, <2>2, <2>3, <2>4, <2>5, ResetFrame
  <2>8. QED
    BY <2>6, <2>7 DEF DemoInv
<1>5. CASE ResetTo(t, "no") /\ disturbed' = TRUE /\ faults' \subseteq faults
  BY <1>1, <1>3, <1>5, ResetFails
<1>6. QED
  BY <1>1, <1>4, <1>5

LEMMA RolloutStep ==
    ASSUME DemoInv, NEW t \in Tabs, Rollout(t) \/ ClearActive(t)
    PROVE  DemoInv'
<1>1. /\ UNCHANGED <<faults, deployed, open, activeErrors, told,
                     confirmScenario, applying>>
      /\ deployed \in BOOLEAN /\ disturbed \in BOOLEAN
  BY DEF Rollout, ClearActive, clusterVars, browserVars, DemoInv, DemoTypeOK
<1>2. CASE \E step \in {"clear", "answer"} :
               /\ resetting[t] \in {"rollout", "clear"} /\ ResetTo(t, step)
               /\ active' \in {active, {}} /\ (step = "answer" => active' = {})
               /\ UNCHANGED disturbed
  <2>1. PICK step \in {"clear", "answer"} :
               /\ resetting[t] \in {"rollout", "clear"} /\ ResetTo(t, step)
               /\ active' \in {active, {}} /\ (step = "answer" => active' = {})
               /\ UNCHANGED disturbed
    BY <1>2
  <2>2. step \in ResetSteps /\ RestoredBy(step) = Resources
        /\ RestoredBy(resetting[t]) = Resources
    BY <2>1, ResetEffects DEF ResetSteps
  <2>3. resetting'[t] = step
    BY <2>1, <2>2, ResetGoesTo DEF DemoInv
  <2>4. Cleaned(t) => Cleaned(t)'
    BY <1>1, <2>1, <2>2, <2>3 DEF Cleaned, RestoredBy
  <2>5. Rebuilt(t) => Rebuilt(t)'
    BY <1>1, <2>1 DEF Rebuilt
  <2>6. DemoTypeOK' /\ TabInv'
    BY <1>1, <2>1, <2>2, ResetTypes
  <2>7. Resources # {}
    BY DEF Resources
  <2>8. AloneInv' /\ QuietInv'
    BY <1>1, <2>1, <2>2, <2>4, <2>5, <2>7, ResetFrame
  <2>9. QED
    BY <2>6, <2>8 DEF DemoInv
<1>3. CASE Rollout(t) /\ ResetTo(t, "no") /\ disturbed' = TRUE
  BY <1>1, <1>3, ResetFails DEF Rollout
<1>4. QED
  BY <1>2, <1>3 DEF Rollout, ClearActive

(* What a reset leaves when its answer is taken.                           *)
LEMMA ResetAnsweredStep ==
    ASSUME DemoInv, NEW t \in Tabs, ResetAnswered(t)
    PROVE  DemoInv'
<1>1. /\ resetting[t] = "answer" /\ ResetTo(t, "no")
      /\ UNCHANGED <<faults, deployed, active, confirmScenario, applying>>
      /\ deployed \in BOOLEAN /\ disturbed \in BOOLEAN
  BY DEF ResetAnswered, clusterVars, DemoInv, DemoTypeOK
<1>2. CASE disturbed' = TRUE /\ UNCHANGED <<open, activeErrors, told>>
  BY <1>1, <1>2, ResetFails
<1>3. CASE Stores(t, {}) /\ disturbed' = (disturbed /\ t \in overlapped)
  <2>1. /\ open' = {} /\ activeErrors' = [activeErrors EXCEPT ![t] = {}]
        /\ told' = told \cup (Tabs \ {t}) /\ disturbed' \in BOOLEAN
        /\ disturbed' <=> disturbed /\ t \in overlapped
    BY <1>1, <1>3 DEF Stores
  <2>2. "no" \in ResetSteps
    BY DEF ResetSteps
  <2>3. /\ resetting' \in [Tabs -> ResetSteps] /\ overlapped' \subseteq Resets'
    BY <1>1, <2>2, ResetGoesTo DEF DemoInv
  <2>4. DemoTypeOK'
    BY <1>1, <2>1, <2>3 DEF DemoInv, DemoTypeOK
  <2>5. TabInv'
    BY <1>1, <2>1 DEF DemoInv, DemoTypeOK, TabInv
  <2>6. /\ resetting' = [resetting EXCEPT ![t] = "no"]
        /\ overlapped' = overlapped \ {t}
        /\ Applies' = Applies /\ Unadded' = Unadded /\ Unstored' = Unstored
        /\ Resets' = Resets \ {t} /\ t \in Resets
    BY <1>1
    DEF ResetTo, DemoInv, DemoTypeOK, Applies, Unadded, Unstored, Resets
  <2>7. AloneInv'
    BY <2>6 DEF DemoInv, AloneInv
  <2>8. ASSUME ~disturbed' PROVE
            /\ Applies' = {} \/ Resets' = {}
            /\ deployed' \/ \E u \in Tabs :
                               resetting'[u] \in Rebuilding
            /\ \A u \in Tabs : Cleaned(u)'
            /\ faults' = active' \cup Unadded' /\ active' = open' \cup Unstored'
    <3>1. Cleaned(t) /\ Applies = {}
      <4>1. CASE ~disturbed
        BY <2>6, <4>1 DEF DemoInv, QuietInv
      <4>2. CASE t \notin overlapped
        BY <2>6, <4>2 DEF DemoInv, AloneInv
      <4>3. QED
        BY <2>1, <2>8, <4>1, <4>2
    <3>2. active = {} /\ faults = {}
      <4>1. active = {}
        BY <1>1, <3>1 DEF Cleaned
      <4>2. \A s \in faults : ResourceOf[s] \notin Resources
        BY <1>1, <3>1, ResetEffects DEF Cleaned
      <4>3. QED
        BY <4>1, <4>2, DemoAssumption DEF DemoInv, DemoTypeOK
    <3>3. Unadded = {} /\ Unstored = {}
      BY <3>1, NoApplies
    <3>4. deployed' \/ \E u \in Tabs :
                          resetting'[u] \in Rebuilding
      <4>1. CASE ~disturbed
        BY <1>1, <2>6, <4>1 DEF DemoInv, DemoTypeOK, QuietInv
      <4>2. CASE t \notin overlapped
        BY <1>1, <2>6, <4>2 DEF DemoInv, AloneInv, Rebuilt
      <4>3. QED
        BY <2>1, <2>8, <4>1, <4>2
    <3>5. \A u \in Tabs : Cleaned(u)'
      BY <1>1, <3>2 DEF Cleaned
    <3>6. QED
      BY <1>1, <2>1, <2>6, <3>1, <3>2, <3>3, <3>4, <3>5
  <2>9. QED
    BY <2>4, <2>5, <2>7, <2>8 DEF DemoInv, QuietInv
<1>4. QED
  BY <1>2, <1>3 DEF ResetAnswered

-----------------------------------------------------------------------------
LEMMA RestartStep ==
    ASSUME DemoInv, ScenarioRestart
    PROVE  DemoInv'
<1>1. PICK late \in SUBSET {confirmScenario[t] :
                             t \in {u \in Tabs : applying[u] = "patch"}} :
          faults' = faults \cup {s \in late :
                                   ResourceOf[s] = "deployment" => deployed}
  BY DEF ScenarioRestart
<1>2. /\ active' = {} /\ overlapped' = {} /\ disturbed' = TRUE
      /\ applying' = [t \in Tabs |-> "no"] /\ resetting' = [t \in Tabs |-> "no"]
      /\ UNCHANGED <<deployed, open, activeErrors, told, confirmScenario>>
  BY DEF ScenarioRestart, browserVars
<1>3. late \subseteq Scenarios
  BY <1>1 DEF DemoInv, DemoTypeOK, TabInv
<1>4. disturbed' \in BOOLEAN /\ disturbed'
  BY <1>2
<1>5. Resets' = {}
  BY <1>2 DEF Resets
<1>6. DemoTypeOK'
  BY <1>1, <1>2, <1>3, <1>4 DEF DemoInv, DemoTypeOK, ApplySteps, ResetSteps
<1>7. TabInv' /\ AloneInv' /\ QuietInv'
  BY <1>2, <1>4, <1>5 DEF DemoInv, TabInv, AloneInv, QuietInv
<1>8. QED
  BY <1>6, <1>7 DEF DemoInv

LEMMA DemoStays == ASSUME DemoInv, UNCHANGED demoVars PROVE DemoInv'
BY DEF demoVars, clusterVars, browserVars, DemoInv, DemoTypeOK, TabInv, AloneInv,
   QuietInv, Applies, Resets, Cleaned, Rebuilt, Begun, RestoredBy, Unadded,
   Unstored

LEMMA DemoKeeps == ASSUME DemoInv, [DemoNext]_demoVars PROVE DemoInv'
BY DialogsKeep, ApplyBegins, ResetBegins, ApplyStep, JobsCancelledStep,
   DeleteStep, ApplyBaseStep, RolloutStep, ResetAnsweredStep, RestartStep,
   DemoStays
DEF DemoNext

LEMMA DemoAgreesFollows == ASSUME DemoInv PROVE DemoAgrees
<1>1. SUFFICES ASSUME Applies = {}, Resets = {}, ~disturbed
               PROVE  /\ deployed
                      /\ active = faults /\ open = faults
                      /\ \A t \in Tabs \ told : ClusterReady(t) <=> faults = {}
  BY DEF DemoAgrees
<1>2. \A t \in Tabs : resetting[t] = "no" /\ RestoredBy(resetting[t]) = {}
  BY <1>1, NoResets DEF DemoInv
<1>3. deployed /\ active = faults /\ open = faults
  BY <1>1, <1>2, NoApplies DEF DemoInv, QuietInv, Begun
<1>4. QED
  BY <1>3 DEF DemoInv, TabInv, ClusterReady

(* Whatever was triggered and reset in whichever tab, when all is quiet the*)
(* service, the queue and the cluster agree; and after anything has gone   *)
(* wrong, one reset that nothing overlaps makes them agree again.          *)
THEOREM QuietDemoAgrees == DemoSpec => []DemoAgrees
BY DemoInitInv, DemoKeeps, DemoAgreesFollows, PTL DEF DemoSpec

-----------------------------------------------------------------------------
(* The rate limiter.                                                       *)

LEMMA HasLeast ==
    ASSUME NEW S \in SUBSET Nat, S # {}
    PROVE  \E m \in S : \A k \in S : m <= k
<1>1. \E m \in S : \A k \in S : <<k, m>> \notin OpToRel(<, Nat)
  BY NatLessThanWellFounded, WFMin
<1>2. \A k, m \in S : <<k, m>> \notin OpToRel(<, Nat) => m <= k
  BY DEF OpToRel
<1>3. QED
  BY <1>1, <1>2

(* What was let through is in the order of the clock, and Limit requests   *)
(* are never within one window.                                            *)
InOrder(p) == \A i, j \in 1 .. Len(p) : i <= j => p[i] <= p[j]

Spaced(p) ==
    \A i \in 1 .. Len(p) : i > Limit => p[i - Limit] + Window < p[i]

(* A deque is the end of what was let through, and what it has lost is old.*)
EndOf(p, h, d, now) ==
    /\ Len(h) = Len(p) - d
    /\ \A i \in 1 .. Len(h) : h[i] = p[d + i]
    /\ \A i \in 1 .. d : p[i] + Window < now

Kept(c) ==
    /\ \E d \in 0 .. Len(passed[c]) : EndOf(passed[c], hits[c], d, clock)
    /\ Len(hits[c]) <= Limit

(* Behind a refusal there are Limit requests in a row.                     *)
Full(p, t) ==
    \E m \in 0 .. Len(p) :
        /\ m + Limit <= Len(p)
        /\ \A i \in 1 .. Len(p) :
              i \in m + 1 .. m + Limit <=> p[i] <= t /\ t <= p[i] + Window

LimiterInv ==
    /\ LimiterTypeOK
    /\ hits \in [Clients -> Seq(Nat)] /\ passed \in [Clients -> Seq(Nat)]
    /\ \A c \in Clients : InOrder(passed[c]) /\ Spaced(passed[c]) /\ Kept(c)
    /\ \A r \in refused : Full(passed[r[1]], r[2])

LEMMA LimitsAre ==
    /\ Limit \in Nat /\ Limit >= 1 /\ Window \in Nat /\ LastTime \in Nat
BY LimiterAssumption

LEMMA ElementIs ==
    ASSUME NEW S, NEW s \in Seq(S), NEW i \in 1 .. Len(s)
    PROVE  s[i] \in S
OBVIOUS

LEMMA WiderSeq ==
    ASSUME NEW S, NEW T, S \subseteq T, NEW s \in Seq(S)
    PROVE  s \in Seq(T)
<1>1. \A i \in 1 .. Len(s) : s[i] \in T
  BY ElementIs
<1>2. QED
  BY <1>1

LEMMA TailIsSeq ==
    ASSUME NEW S, NEW s \in Seq(S), NEW k \in 0 .. Len(s)
    PROVE  SubSeq(s, k + 1, Len(s)) \in Seq(S)
OBVIOUS

LEMMA StillInside ==
    ASSUME NEW a \in Nat, NEW b \in Nat, NEW w \in Nat, NEW n \in Nat,
           a <= b, ~(a + w < n)
    PROVE  n <= b + w
OBVIOUS

LEMMA Before ==
    ASSUME NEW a \in Nat, NEW b \in Nat, NEW w \in Nat, NEW n \in Nat,
           NEW t \in Nat, a <= b, t <= a + w, b + w < n
    PROVE  t < n
OBVIOUS

-----------------------------------------------------------------------------
(* The loop stops behind the old ones at the front.                        *)
LEMMA LoopStops ==
    ASSUME NEW h \in Seq(Nat), NEW age \in Nat, NEW now \in Nat
    PROVE  \E k \in 0 .. Len(h) :
              /\ \A i \in 1 .. k : h[i] + age < now
              /\ k < Len(h) => ~(h[k + 1] + age < now)
<1> DEFINE S == {i \in 1 .. Len(h) : ~(h[i] + age < now)}
<1>1. CASE S = {}
  <2>1. \A i \in 1 .. Len(h) : h[i] + age < now
    BY <1>1
  <2>2. QED
    BY <2>1
<1>2. CASE S # {}
  <2>1. PICK m \in S : \A k \in S : m <= k
    <3>1. S \in SUBSET Nat
      OBVIOUS
    <3>2. QED
      BY <1>2, <3>1, HasLeast
  <2>2. m \in 1 .. Len(h) /\ ~(h[m] + age < now)
    BY <2>1
  <2>3. ASSUME NEW i \in 1 .. m - 1 PROVE h[i] + age < now
    <3>1. i \in 1 .. Len(h) /\ ~(m <= i)
      BY <2>2
    <3>2. i \notin S
      BY <2>1, <3>1
    <3>3. QED
      BY <3>1, <3>2
  <2>4. m - 1 \in 0 .. Len(h) /\ (m - 1) + 1 = m
    BY <2>2
  <2>5. QED
    BY <2>2, <2>3, <2>4
<1>3. QED
  BY <1>1, <1>2

(* What it leaves is what is still in the window.                          *)
LEMMA LoopLeaves ==
    ASSUME NEW p \in Seq(Nat), NEW h \in Seq(Nat), NEW now \in Nat, InOrder(p),
           NEW d \in 0 .. Len(p), EndOf(p, h, d, now),
           NEW k \in 0 .. Len(h), \A i \in 1 .. k : h[i] + Window < now,
           k < Len(h) => ~(h[k + 1] + Window < now),
           NEW g, g = SubSeq(h, k + 1, Len(h))
    PROVE  /\ d + k \in 0 .. Len(p) /\ EndOf(p, g, d + k, now)
           /\ \A i \in d + k + 1 .. Len(p) : now <= p[i] + Window
<1>1. /\ Len(g) = Len(h) - k
      /\ \A i \in 1 .. Len(g) : g[i] = h[k + i]
  OBVIOUS
<1>2. /\ Len(h) = Len(p) - d /\ Len(p) \in Nat /\ Len(h) \in Nat
      /\ \A i \in 1 .. Len(h) : h[i] = p[d + i]
      /\ \A i \in 1 .. d : p[i] + Window < now
  BY DEF EndOf
<1>3. d + k \in 0 .. Len(p) /\ Len(g) = Len(p) - (d + k)
  BY <1>1, <1>2
<1>4. ASSUME NEW i \in 1 .. Len(g) PROVE g[i] = p[(d + k) + i]
  <2>1. k + i \in 1 .. Len(h) /\ d + (k + i) = (d + k) + i
    BY <1>1, <1>2
  <2>2. QED
    BY <1>1, <1>2, <2>1
<1>5. ASSUME NEW i \in 1 .. d + k PROVE p[i] + Window < now
  <2>1. CASE i <= d
    BY <1>2, <2>1
  <2>2. CASE i > d
    <3>1. i - d \in 1 .. k /\ i - d \in 1 .. Len(h) /\ d + (i - d) = i
      BY <1>2, <2>2
    <3>2. h[i - d] = p[i]
      BY <1>2, <3>1
    <3>3. QED
      BY <3>1, <3>2
  <2>3. QED
    BY <2>1, <2>2
<1>6. ASSUME NEW i \in d + k + 1 .. Len(p) PROVE now <= p[i] + Window
  <2>1. /\ k < Len(h) /\ k + 1 \in 1 .. Len(h) /\ d + (k + 1) = d + k + 1
        /\ d + k + 1 \in 1 .. Len(p) /\ i \in 1 .. Len(p) /\ d + k + 1 <= i
    <3>1. \A a, b, c, e, x \in Nat :
             b <= c /\ c = e - a /\ a <= e /\ a + b + 1 <= x /\ x <= e =>
               /\ b < c /\ b + 1 \in 1 .. c /\ a + (b + 1) = a + b + 1
               /\ a + b + 1 \in 1 .. e /\ x \in 1 .. e
      OBVIOUS
    <3>2. /\ i \in Nat /\ d + k + 1 <= i /\ i <= Len(p)
          /\ d \in Nat /\ d <= Len(p) /\ k \in Nat /\ k <= Len(h)
      BY <1>2
    <3>3. QED
      BY <1>2, <3>1, <3>2
  <2>2. h[k + 1] = p[d + k + 1]
    BY <1>2, <2>1
  <2>3. p[d + k + 1] <= p[i]
    BY <2>1 DEF InOrder
  <2>4. p[i] \in Nat /\ p[d + k + 1] \in Nat
    BY <2>1, ElementIs
  <2>5. ~(p[d + k + 1] + Window < now)
    BY <2>1, <2>2
  <2>6. QED
    BY <2>3, <2>4, <2>5, LimitsAre, StillInside
<1>7. EndOf(p, g, d + k, now)
  BY <1>3, <1>4, <1>5 DEF EndOf
<1>8. QED
  BY <1>3, <1>6, <1>7

(* A request that is let through is behind a window with too few others.   *)
LEMMA PassFits ==
    ASSUME NEW p \in Seq(Nat), NEW g \in Seq(Nat), NEW now \in Nat,
           \A i \in 1 .. Len(p) : p[i] <= now, InOrder(p), Spaced(p),
           NEW d \in 0 .. Len(p), EndOf(p, g, d, now), Len(g) < Limit,
           NEW q \in Seq(Nat), Len(q) = Len(p) + 1, q[Len(p) + 1] = now,
           \A i \in 1 .. Len(p) : q[i] = p[i]
    PROVE  /\ InOrder(q) /\ Spaced(q)
           /\ \A t \in 0 .. now : Full(p, t) => Full(q, t)
<1> DEFINE n == Len(p) + 1
<1>1. Len(p) \in Nat /\ n \in Nat /\ Len(q) = n /\ q[n] = now
  OBVIOUS
<1>2. \A i \in 1 .. n : i \in 1 .. Len(p) \/ i = n
  BY <1>1
<1>3. InOrder(q)
  <2>1. ASSUME NEW i \in 1 .. n, NEW j \in 1 .. n, i <= j PROVE q[i] <= q[j]
    <3>1. CASE i = n
      <4>1. j = n
        BY <1>1, <2>1, <3>1
      <4>2. QED
        BY <3>1, <4>1
    <3>2. CASE i \in 1 .. Len(p) /\ j = n
      BY <3>2
    <3>3. CASE i \in 1 .. Len(p) /\ j \in 1 .. Len(p)
      BY <2>1, <3>3 DEF InOrder
    <3>4. QED
      BY <1>2, <3>1, <3>2, <3>3
  <2>2. QED
    BY <1>1, <2>1 DEF InOrder
<1>4. ASSUME n > Limit
      PROVE  n - Limit \in 1 .. Len(p) /\ p[n - Limit] + Window < now
  <2>1. Len(g) = Len(p) - d
    BY DEF EndOf
  <2>2. n - Limit \in 1 .. d /\ n - Limit \in 1 .. Len(p)
    <3>1. \A a, b, c, L \in Nat :
             L >= 1 /\ b <= a /\ c = a - b /\ c < L /\ a + 1 > L
               => (a + 1) - L \in 1 .. b /\ (a + 1) - L \in 1 .. a
      OBVIOUS
    <3>2. Len(p) \in Nat /\ Len(g) \in Nat /\ d \in Nat /\ d <= Len(p)
      OBVIOUS
    <3>3. QED
      BY <1>4, <2>1, <3>1, <3>2, LimitsAre
  <2>3. QED
    BY <2>2 DEF EndOf
<1>5. Spaced(q)
  <2>1. ASSUME NEW i \in 1 .. n, i > Limit PROVE q[i - Limit] + Window < q[i]
    <3>1. i - Limit \in 1 .. Len(p)
      BY <1>1, <2>1, LimitsAre
    <3>2. q[i - Limit] = p[i - Limit]
      BY <3>1
    <3>3. CASE i = n
      BY <1>4, <2>1, <3>2, <3>3
    <3>4. CASE i \in 1 .. Len(p)
      BY <2>1, <3>2, <3>4 DEF Spaced
    <3>5. QED
      BY <1>2, <3>3, <3>4
  <2>2. QED
    BY <1>1, <2>1 DEF Spaced
<1>6. ASSUME NEW t \in 0 .. now, Full(p, t) PROVE Full(q, t)
  <2>1. PICK m \in 0 .. Len(p) :
            /\ m + Limit <= Len(p)
            /\ \A i \in 1 .. Len(p) :
                  i \in m + 1 .. m + Limit <=> p[i] <= t /\ t <= p[i] + Window
    BY <1>6 DEF Full
  <2> HIDE DEF n
  <2>2. /\ m + 1 \in 1 .. Len(p) /\ n - Limit \in 1 .. Len(p)
        /\ m + 1 <= n - Limit /\ n > Limit /\ n \notin m + 1 .. m + Limit
        /\ m + 1 \in m + 1 .. m + Limit /\ m \in 0 .. n /\ m + Limit <= n
    <3>1. \A a, b, L \in Nat : L >= 1 /\ a + L <= b =>
             /\ a + 1 \in 1 .. b /\ (b + 1) - L \in 1 .. b
             /\ a + 1 <= (b + 1) - L /\ b + 1 > L
             /\ b + 1 \notin a + 1 .. a + L /\ a + 1 \in a + 1 .. a + L
             /\ a \in 0 .. b + 1 /\ a + L <= b + 1
      OBVIOUS
    <3>2. m \in Nat /\ m + Limit <= Len(p) /\ n = Len(p) + 1
      BY <1>1, <2>1 DEF n
    <3>3. /\ Len(p) \in Nat /\ Limit \in Nat /\ Limit >= 1
          /\ m \in Nat /\ m + Limit <= Len(p)
      BY <3>2, LimitsAre
    <3>4. /\ m + 1 \in 1 .. Len(p) /\ (Len(p) + 1) - Limit \in 1 .. Len(p)
          /\ m + 1 <= (Len(p) + 1) - Limit /\ Len(p) + 1 > Limit
          /\ Len(p) + 1 \notin m + 1 .. m + Limit
          /\ m + 1 \in m + 1 .. m + Limit
          /\ m \in 0 .. Len(p) + 1 /\ m + Limit <= Len(p) + 1
      BY ONLY <3>1, <3>3, Zenon
    <3>5. QED
      BY <3>2, <3>4
  <2>3. p[m + 1] <= p[n - Limit]
    BY <2>2 DEF InOrder
  <2>4. p[m + 1] \in Nat /\ p[n - Limit] \in Nat
    BY <2>2, ElementIs
  <2>5. t <= p[m + 1] + Window
    BY <2>1, <2>2
  <2>6. p[n - Limit] + Window < now
    BY <1>4, <2>2
  <2>7. t < now
    <3>1. t \in Nat
      OBVIOUS
    <3>2. QED
      BY <2>3, <2>4, <2>5, <2>6, <3>1, LimitsAre, Before
  <2>8. ASSUME NEW i \in 1 .. n
        PROVE  i \in m + 1 .. m + Limit <=> q[i] <= t /\ t <= q[i] + Window
    <3>1. CASE i = n
      <4>1. ~(q[i] <= t)
        <5>1. q[i] = now /\ t \in Nat
          BY <1>1, <3>1
        <5>2. QED
          BY <2>7, <5>1
      <4>2. QED
        BY <2>2, <3>1, <4>1
    <3>2. CASE i \in 1 .. Len(p)
      BY <2>1, <3>2
    <3>3. QED
      BY <1>2, <3>1, <3>2
  <2>9. QED
    BY <1>1, <2>2, <2>8 DEF Full
<1>7. QED
  BY <1>3, <1>5, <1>6

LEMMA PassEnds ==
    ASSUME NEW p \in Seq(Nat), NEW g \in Seq(Nat), NEW now \in Nat,
           NEW d \in 0 .. Len(p), EndOf(p, g, d, now)
    PROVE  EndOf(Append(p, now), Append(g, now), d, now)
<1> DEFINE q == Append(p, now)
           h == Append(g, now)
<1>1. /\ Len(p) \in Nat /\ Len(g) \in Nat
      /\ Len(q) = Len(p) + 1 /\ q[Len(p) + 1] = now
      /\ \A i \in 1 .. Len(p) : q[i] = p[i]
      /\ Len(h) = Len(g) + 1 /\ h[Len(g) + 1] = now
      /\ \A i \in 1 .. Len(g) : h[i] = g[i]
  OBVIOUS
<1> HIDE DEF q, h
<1>2. /\ Len(g) = Len(p) - d
      /\ \A i \in 1 .. Len(g) : g[i] = p[d + i]
      /\ \A i \in 1 .. d : p[i] + Window < now
  BY DEF EndOf
<1>3. ASSUME NEW i \in 1 .. Len(h) PROVE h[i] = q[d + i]
  <2>1. CASE i = Len(g) + 1
    <3>1. d + i = Len(p) + 1
      BY <1>1, <1>2, <2>1
    <3>2. QED
      BY <1>1, <2>1, <3>1
  <2>2. CASE i # Len(g) + 1
    <3>1. i \in 1 .. Len(g) /\ d + i \in 1 .. Len(p)
      <4>1. \A a, b, c, x \in Nat : a = b - c /\ x >= 1 /\ x <= a
               => x \in 1 .. a /\ c + x \in 1 .. b
        OBVIOUS
      <4>2. i \in Nat /\ i >= 1 /\ i <= Len(g) /\ d \in Nat
        BY <1>1, <2>2
      <4>3. QED
        BY <1>1, <1>2, <4>1, <4>2
    <3>2. QED
      BY <1>1, <1>2, <3>1
  <2>3. QED
    BY <2>1, <2>2
<1>4. ASSUME NEW i \in 1 .. d PROVE q[i] + Window < now
  <2>1. i \in 1 .. Len(p)
    BY <1>1
  <2>2. q[i] = p[i] /\ p[i] + Window < now
    BY <1>1, <1>2, <2>1
  <2>3. QED
    BY <2>2
<1>5. Len(h) = Len(q) - d
  <2>1. \A a, b, c \in Nat : a = b - c => a + 1 = (b + 1) - c
    OBVIOUS
  <2>2. d \in Nat
    BY <1>1
  <2>3. QED
    BY <1>1, <1>2, <2>1, <2>2
<1>6. EndOf(q, h, d, now)
  BY <1>3, <1>4, <1>5 DEF EndOf
<1>7. QED
  BY <1>6 DEF q, h

(* A request that is refused is behind a window that is full.              *)
LEMMA RefusalFits ==
    ASSUME NEW p \in Seq(Nat), NEW g \in Seq(Nat), NEW now \in Nat,
           \A i \in 1 .. Len(p) : p[i] <= now,
           NEW d \in 0 .. Len(p), EndOf(p, g, d, now), Len(g) = Limit,
           \A i \in d + 1 .. Len(p) : now <= p[i] + Window
    PROVE  Full(p, now)
<1>1. Len(p) \in Nat /\ d + Limit = Len(p)
  <2>1. Len(g) = Len(p) - d
    BY DEF EndOf
  <2>2. \A a, b, c \in Nat : a = b - c => c + a = b
    OBVIOUS
  <2>3. Len(p) \in Nat /\ d \in Nat
    OBVIOUS
  <2>4. QED
    BY <2>1, <2>2, <2>3, LimitsAre
<1>2. ASSUME NEW i \in 1 .. Len(p)
      PROVE  i \in d + 1 .. d + Limit <=> p[i] <= now /\ now <= p[i] + Window
  <2>1. CASE i <= d
    <3>1. p[i] + Window < now /\ p[i] \in Nat
      BY <2>1 DEF EndOf
    <3>2. ~(now <= p[i] + Window) /\ i \notin d + 1 .. d + Limit
      BY <2>1, <3>1, LimitsAre
    <3>3. QED
      BY <3>2
  <2>2. CASE i > d
    <3>1. i \in d + 1 .. Len(p)
      BY <1>1, <2>2
    <3>2. QED
      BY <1>1, <3>1
  <2>3. QED
    BY <2>1, <2>2
<1>3. d + Limit <= Len(p)
  BY <1>1
<1>4. QED
  BY <1>2, <1>3 DEF Full

-----------------------------------------------------------------------------
(* How many of what was let through a window holds.                        *)
LEMMA WindowHolds ==
    ASSUME NEW p \in Seq(Nat), InOrder(p), Spaced(p), NEW t \in Nat
    PROVE  Cardinality({i \in 1 .. Len(p) : p[i] \in t .. t + Window}) <= Limit
<1> DEFINE S == {i \in 1 .. Len(p) : p[i] \in t .. t + Window}
<1>1. CASE S = {}
  <2>1. Cardinality(S) = 0
    BY <1>1, FS_EmptySet
  <2>2. QED
    BY <2>1, LimitsAre
<1>2. CASE S # {}
  <2>1. PICK m \in S : \A k \in S : m <= k
    <3>1. S \in SUBSET Nat
      OBVIOUS
    <3>2. QED
      BY <1>2, <3>1, HasLeast
  <2>2. m \in 1 .. Len(p) /\ p[m] \in t .. t + Window /\ Len(p) \in Nat
    BY <2>1
  <2>3. ASSUME NEW i \in S PROVE i \in m .. m + Limit - 1
    <3>1. i \in 1 .. Len(p) /\ p[i] \in t .. t + Window /\ m <= i
      BY <2>1
    <3>2. CASE i >= m + Limit
      <4>1. i - Limit \in 1 .. Len(p) /\ m <= i - Limit /\ i > Limit
        <5>1. \A a, b, c, L \in Nat :
                 a >= 1 /\ b >= a + L /\ b <= c
                   => b - L \in 1 .. c /\ a <= b - L /\ b > L
          OBVIOUS
        <5>2. m \in Nat /\ m >= 1 /\ i \in Nat /\ i <= Len(p)
          BY <2>2, <3>1
        <5>3. QED
          BY <2>2, <3>2, <5>1, <5>2, LimitsAre
      <4>2. p[i - Limit] + Window < p[i]
        BY <3>1, <4>1 DEF Spaced
      <4>3. p[m] <= p[i - Limit]
        BY <2>2, <4>1 DEF InOrder
      <4>4. p[i - Limit] \in Nat /\ p[m] \in Nat /\ p[i] \in Nat
        BY <2>2, <3>1, <4>1, ElementIs
      <4>5. t <= p[m] /\ p[i] <= t + Window
        BY <2>2, <3>1, LimitsAre
      <4>6. \A a, b, c, w \in Nat : ~(/\ t <= a /\ a <= b
                                      /\ b + w < c /\ c <= t + w)
        OBVIOUS
      <4>7. QED
        BY <4>2, <4>3, <4>4, <4>5, <4>6, LimitsAre
    <3>3. CASE ~(i >= m + Limit)
      BY <2>2, <3>1, <3>3, LimitsAre
    <3>4. QED
      BY <3>2, <3>3
  <2>4. /\ IsFiniteSet(m .. m + Limit - 1)
        /\ Cardinality(m .. m + Limit - 1) = Limit
    <3>1. m \in Int /\ m + Limit - 1 \in Int /\ ~(m > m + Limit - 1)
          /\ (m + Limit - 1) - m + 1 = Limit
      BY <2>2, LimitsAre
    <3>2. QED
      BY <3>1, FS_Interval
  <2>5. S \in SUBSET (m .. m + Limit - 1)
    BY <2>3
  <2> HIDE DEF S
  <2>6. Cardinality(S) <= Cardinality(m .. m + Limit - 1)
    BY <2>4, <2>5, FS_Subset
  <2>7. QED
    BY <2>4, <2>6 DEF S
<1>3. QED
  BY <1>1, <1>2

LEMMA FullHolds ==
    ASSUME NEW p \in Seq(Nat), NEW t \in Nat, Full(p, t),
           NEW from, from = IF t < Window THEN 0 ELSE t - Window
    PROVE  Cardinality({i \in 1 .. Len(p) : p[i] \in from .. t}) = Limit
<1>1. PICK m \in 0 .. Len(p) :
          /\ m + Limit <= Len(p)
          /\ \A i \in 1 .. Len(p) :
                i \in m + 1 .. m + Limit <=> p[i] <= t /\ t <= p[i] + Window
  BY DEF Full
<1>2. ASSUME NEW i \in 1 .. Len(p)
      PROVE  p[i] \in from .. t <=> p[i] <= t /\ t <= p[i] + Window
  <2>1. p[i] \in Nat
    OBVIOUS
  <2>2. QED
    BY <2>1, LimitsAre
<1>3. m + 1 .. m + Limit \subseteq 1 .. Len(p)
  BY <1>1, LimitsAre
<1>4. {i \in 1 .. Len(p) : p[i] \in from .. t} = m + 1 .. m + Limit
  BY <1>1, <1>2, <1>3
<1>5. Cardinality(m + 1 .. m + Limit) = Limit
  <2>1. m + 1 \in Int /\ m + Limit \in Int /\ ~(m + 1 > m + Limit)
        /\ (m + Limit) - (m + 1) + 1 = Limit
    BY LimitsAre
  <2>2. QED
    BY <2>1, FS_Interval
<1>6. QED
  BY <1>4, <1>5

-----------------------------------------------------------------------------
LEMMA LimiterInitInv == LimiterInit => LimiterInv
<1> SUFFICES ASSUME LimiterInit PROVE LimiterInv
  OBVIOUS
<1>1. \A c \in Clients : hits[c] = <<>> /\ passed[c] = <<>>
  BY DEF LimiterInit
<1>2. LimiterTypeOK
  BY <1>1, LimitsAre DEF LimiterInit, LimiterTypeOK
<1>3. hits \in [Clients -> Seq(Nat)] /\ passed \in [Clients -> Seq(Nat)]
  BY DEF LimiterInit
<1>4. EndOf(<<>>, <<>>, 0, clock) /\ InOrder(<<>>) /\ Spaced(<<>>)
  BY DEF EndOf, InOrder, Spaced
<1>5. \A c \in Clients : Kept(c)
  BY <1>1, <1>4, LimitsAre DEF Kept
<1>6. QED
  BY <1>1, <1>2, <1>3, <1>4, <1>5 DEF LimiterInv, LimiterInit

LEMMA RecentIs ==
    ASSUME LimiterInv, NEW c \in Clients
    PROVE  /\ Recent(c) \in Seq(Nat) /\ Recent(c) \in Seq(0 .. clock)
           /\ Len(Recent(c)) <= Limit
           /\ \E d \in 0 .. Len(passed[c]) :
                 /\ EndOf(passed[c], Recent(c), d, clock)
                 /\ \A i \in d + 1 .. Len(passed[c]) :
                       clock <= passed[c][i] + Window
<1> DEFINE P(k) == /\ \A i \in 1 .. k : hits[c][i] + Window < clock
                   /\ k < Len(hits[c]) => ~(hits[c][k + 1] + Window < clock)
           n == CHOOSE k \in 0 .. Len(hits[c]) : P(k)
<1>1. /\ hits[c] \in Seq(Nat) /\ hits[c] \in Seq(0 .. clock)
      /\ passed[c] \in Seq(Nat) /\ InOrder(passed[c])
      /\ clock \in Nat /\ Len(hits[c]) <= Limit
  BY DEF LimiterInv, LimiterTypeOK, Kept
<1>2. n \in 0 .. Len(hits[c]) /\ P(n)
  <2>1. \E k \in 0 .. Len(hits[c]) : P(k)
    BY <1>1, LoopStops, LimitsAre
  <2>2. QED
    BY <2>1
<1>3. Recent(c) = SubSeq(hits[c], n + 1, Len(hits[c]))
  BY DEF Recent, Popped
<1> HIDE DEF n
<1>4. PICK d \in 0 .. Len(passed[c]) : EndOf(passed[c], hits[c], d, clock)
  BY DEF LimiterInv, Kept
<1>5. /\ d + n \in 0 .. Len(passed[c])
      /\ EndOf(passed[c], Recent(c), d + n, clock)
      /\ \A i \in d + n + 1 .. Len(passed[c]) : clock <= passed[c][i] + Window
  BY <1>1, <1>2, <1>3, <1>4, LoopLeaves
<1>6. Recent(c) \in Seq(Nat) /\ Recent(c) \in Seq(0 .. clock)
  BY <1>1, <1>2, <1>3, TailIsSeq
<1>7. Len(Recent(c)) <= Limit
  <2>1. Len(Recent(c)) = Len(hits[c]) - n /\ Len(hits[c]) \in Nat
    BY <1>1, <1>2, <1>3
  <2>2. QED
    BY <1>1, <1>2, <2>1, LimitsAre
<1>8. QED
  BY <1>5, <1>6, <1>7

LEMMA TickKeeps ==
    ASSUME LimiterInv, Tick
    PROVE  LimiterInv'
<1>1. /\ clock' = clock + 1 /\ clock \in Nat /\ clock' \in 0 .. LastTime
      /\ UNCHANGED <<hits, passed, refused>>
  BY LimitsAre DEF Tick, LimiterInv, LimiterTypeOK
<1>2. LimiterTypeOK'
  <2>1. 0 .. clock \subseteq 0 .. clock'
    BY <1>1
  <2>2. \A s \in Seq(0 .. clock) : s \in Seq(0 .. clock')
    BY <2>1, WiderSeq
  <2>3. QED
    BY <1>1, <2>1, <2>2 DEF LimiterInv, LimiterTypeOK
<1>3. ASSUME NEW c \in Clients PROVE Kept(c)'
  <2>1. PICK d \in 0 .. Len(passed[c]) : EndOf(passed[c], hits[c], d, clock)
    BY DEF LimiterInv, Kept
  <2>2. passed[c] \in Seq(Nat)
    BY DEF LimiterInv
  <2>3. ASSUME NEW i \in 1 .. d PROVE passed[c][i] + Window < clock + 1
    <3>1. passed[c][i] \in Nat
      BY <2>2
    <3>2. passed[c][i] + Window < clock
      BY <2>1 DEF EndOf
    <3>3. QED
      BY <1>1, <3>1, <3>2, LimitsAre
  <2>4. EndOf(passed[c], hits[c], d, clock + 1)
    BY <2>1, <2>3 DEF EndOf
  <2>5. QED
    BY <1>1, <2>1, <2>4 DEF LimiterInv, Kept
<1>4. QED
  BY <1>1, <1>2, <1>3 DEF LimiterInv

LEMMA RestartKeeps ==
    ASSUME LimiterInv, GatewayRestart
    PROVE  LimiterInv'
<1>1. \A c \in Clients : hits'[c] = <<>> /\ passed'[c] = <<>>
  BY DEF GatewayRestart
<1>2. refused' = {} /\ clock' = clock /\ clock \in 0 .. LastTime
  BY DEF GatewayRestart, LimiterInv, LimiterTypeOK
<1>3. LimiterTypeOK'
  <2>1. \A c \in Clients :
            hits'[c] \in Seq(0 .. clock) /\ passed'[c] \in Seq(0 .. clock)
    <3>1. <<>> \in Seq(0 .. clock)
      OBVIOUS
    <3>2. QED
      BY <1>1, <3>1
  <2>2. QED
    BY <1>2, <2>1 DEF LimiterTypeOK
<1>4. hits' \in [Clients -> Seq(Nat)] /\ passed' \in [Clients -> Seq(Nat)]
  BY DEF GatewayRestart
<1>5. EndOf(<<>>, <<>>, 0, clock') /\ InOrder(<<>>) /\ Spaced(<<>>)
  BY DEF EndOf, InOrder, Spaced
<1>6. \A c \in Clients : Kept(c)'
  BY <1>1, <1>5, LimitsAre DEF Kept
<1>7. QED
  BY <1>1, <1>2, <1>3, <1>4, <1>5, <1>6 DEF LimiterInv

(* The step of one client does not touch the others.                       *)
LEMMA OthersKeep ==
    ASSUME LimiterInv, UNCHANGED clock, NEW b \in Clients,
           hits'[b] = hits[b], passed'[b] = passed[b]
    PROVE  InOrder(passed'[b]) /\ Spaced(passed'[b]) /\ Kept(b)'
BY DEF LimiterInv, Kept

LEMMA PassKeeps ==
    ASSUME LimiterInv, NEW c \in Clients, Dispatch(c),
           ~(Len(Recent(c)) >= Limit)
    PROVE  LimiterInv'
<1> DEFINE p == passed[c]
           g == Recent(c)
<1>1. /\ hits' = [hits EXCEPT ![c] = Append(g, clock)]
      /\ passed' = [passed EXCEPT ![c] = Append(p, clock)]
      /\ UNCHANGED <<refused, clock>>
  BY DEF Dispatch
<1>2. /\ p \in Seq(Nat) /\ p \in Seq(0 .. clock) /\ InOrder(p) /\ Spaced(p)
      /\ g \in Seq(Nat) /\ g \in Seq(0 .. clock)
      /\ clock \in Nat /\ clock \in 0 .. LastTime
  BY RecentIs, LimitsAre DEF LimiterInv, LimiterTypeOK
<1>3. PICK d \in 0 .. Len(p) : EndOf(p, g, d, clock)
  BY RecentIs
<1>4. /\ hits'[c] = Append(g, clock) /\ passed'[c] = Append(p, clock)
      /\ \A b \in Clients : b # c => hits'[b] = hits[b] /\ passed'[b] = passed[b]
  BY <1>1 DEF LimiterInv
<1>5. /\ Append(g, clock) \in Seq(Nat) /\ Append(g, clock) \in Seq(0 .. clock)
      /\ Append(p, clock) \in Seq(Nat) /\ Append(p, clock) \in Seq(0 .. clock)
  BY <1>2
<1>6. hits' \in [Clients -> Seq(Nat)] /\ passed' \in [Clients -> Seq(Nat)]
  BY <1>1, <1>5 DEF LimiterInv
<1>7. LimiterTypeOK'
  <2>1. \A b \in Clients :
            hits'[b] \in Seq(0 .. clock) /\ passed'[b] \in Seq(0 .. clock)
    BY <1>4, <1>5 DEF LimiterInv, LimiterTypeOK
  <2>2. QED
    BY <1>1, <1>2, <2>1 DEF LimiterInv, LimiterTypeOK
<1>8. Len(g) \in Nat /\ Len(g) < Limit
  <2>1. Len(g) \in Nat
    BY <1>2
  <2>2. QED
    BY <2>1, LimitsAre
<1>9. /\ InOrder(passed'[c]) /\ Spaced(passed'[c])
      /\ \A t \in 0 .. clock : Full(p, t) => Full(passed'[c], t)
  <2>1. \A i \in 1 .. Len(p) : p[i] <= clock
    <3>1. \A i \in 1 .. Len(p) : p[i] \in 0 .. clock
      <4>1. p \in Seq(0 .. clock)
        BY <1>2
      <4>2. QED
        BY ONLY <4>1, ElementIs
    <3>2. QED
      BY <1>2, <3>1
  <2> DEFINE q == Append(p, clock)
  <2>2. /\ q \in Seq(Nat) /\ Len(q) = Len(p) + 1 /\ q[Len(p) + 1] = clock
        /\ \A i \in 1 .. Len(p) : q[i] = p[i]
    BY <1>2
  <2> HIDE DEF p, g, q
  <2>3. InOrder(q) /\ Spaced(q) /\ \A t \in 0 .. clock : Full(p, t) => Full(q, t)
    <3>1. /\ p \in Seq(Nat) /\ InOrder(p) /\ Spaced(p)
          /\ g \in Seq(Nat) /\ clock \in Nat
      BY <1>2
    <3>2. d \in 0 .. Len(p) /\ EndOf(p, g, d, clock) /\ Len(g) < Limit
      BY <1>3, <1>8
    <3>3. \A h \in Seq(Nat) :
             /\ Len(h) = Len(p) + 1 /\ h[Len(p) + 1] = clock
             /\ \A i \in 1 .. Len(p) : h[i] = p[i]
             => /\ InOrder(h) /\ Spaced(h)
                /\ \A t \in 0 .. clock : Full(p, t) => Full(h, t)
      BY <2>1, <3>1, <3>2, PassFits
    <3>4. QED
      BY <2>2, <3>3
  <2>4. QED
    BY <1>4, <2>3 DEF q
<1>10. Kept(c)'
  <2>1. EndOf(passed'[c], hits'[c], d, clock)
    BY <1>2, <1>3, <1>4, PassEnds
  <2>2. /\ Len(passed'[c]) = Len(p) + 1 /\ Len(hits'[c]) = Len(g) + 1
        /\ Len(p) \in Nat
    BY <1>2, <1>4
  <2>3. d \in 0 .. Len(passed'[c]) /\ Len(hits'[c]) <= Limit
    <3>1. d \in 0 .. Len(p) + 1 /\ Len(g) + 1 <= Limit
      <4>1. Len(p) \in Nat
        BY <1>2
      <4> HIDE DEF p, g
      <4>2. QED
        BY <1>8, <4>1, LimitsAre
    <3>2. QED
      BY <2>2, <3>1
  <2>4. QED
    BY <1>1, <2>1, <2>3 DEF Kept
<1>11. \A b \in Clients : InOrder(passed'[b]) /\ Spaced(passed'[b]) /\ Kept(b)'
  BY <1>1, <1>4, <1>9, <1>10, OthersKeep
<1>12. \A r \in refused' : Full(passed'[r[1]], r[2])
  <2>1. \A r \in refused : /\ r[1] \in Clients /\ r[2] \in 0 .. clock
                           /\ Full(passed[r[1]], r[2])
    BY DEF LimiterInv, LimiterTypeOK
  <2>2. QED
    BY <1>1, <1>4, <1>9, <2>1
<1>13. QED
  BY <1>6, <1>7, <1>11, <1>12 DEF LimiterInv

LEMMA RefuseKeeps ==
    ASSUME LimiterInv, NEW c \in Clients, Dispatch(c), Len(Recent(c)) >= Limit
    PROVE  LimiterInv'
<1> DEFINE p == passed[c]
           g == Recent(c)
<1>1. /\ hits' = [hits EXCEPT ![c] = g]
      /\ refused' = refused \cup {<<c, clock>>}
      /\ UNCHANGED <<passed, clock>>
  BY DEF Dispatch
<1>2. /\ p \in Seq(Nat) /\ p \in Seq(0 .. clock)
      /\ g \in Seq(Nat) /\ g \in Seq(0 .. clock)
      /\ clock \in Nat /\ clock \in 0 .. LastTime /\ clock \in 0 .. clock
  BY RecentIs, LimitsAre DEF LimiterInv, LimiterTypeOK
<1>3. PICK d \in 0 .. Len(p) :
          /\ EndOf(p, g, d, clock)
          /\ \A i \in d + 1 .. Len(p) : clock <= p[i] + Window
  BY RecentIs
<1>4. /\ hits'[c] = g /\ hits' \in [Clients -> Seq(Nat)]
      /\ \A b \in Clients : b # c => hits'[b] = hits[b]
  BY <1>1, <1>2 DEF LimiterInv
<1>5. LimiterTypeOK'
  <2>1. \A b \in Clients :
            hits'[b] \in Seq(0 .. clock) /\ passed[b] \in Seq(0 .. clock)
    BY <1>2, <1>4 DEF LimiterInv, LimiterTypeOK
  <2>2. refused' \subseteq Clients \X (0 .. clock)
    BY <1>1, <1>2 DEF LimiterInv, LimiterTypeOK
  <2>3. QED
    BY <1>1, <1>2, <2>1, <2>2 DEF LimiterTypeOK
<1>6. Len(g) = Limit
  <2>1. Len(g) <= Limit /\ Len(g) \in Nat
    BY <1>2, RecentIs
  <2>2. QED
    BY <2>1, LimitsAre
<1>7. Kept(c)'
  <2>1. Len(g) <= Limit
    BY <1>6, LimitsAre
  <2>2. QED
    BY <1>1, <1>3, <1>4, <2>1 DEF Kept
<1>8. Full(p, clock)
  <2>1. \A i \in 1 .. Len(p) : p[i] <= clock
    <3>1. \A i \in 1 .. Len(p) : p[i] \in 0 .. clock
      <4>1. p \in Seq(0 .. clock)
        BY <1>2
      <4>2. QED
        BY ONLY <4>1, ElementIs
    <3>2. QED
      BY <1>2, <3>1
  <2> HIDE DEF p, g
  <2>2. QED
    BY <1>2, <1>3, <1>6, <2>1, RefusalFits
<1>9. \A b \in Clients : InOrder(passed'[b]) /\ Spaced(passed'[b]) /\ Kept(b)'
  BY <1>1, <1>4, <1>7, OthersKeep DEF LimiterInv
<1>10. \A r \in refused' : Full(passed'[r[1]], r[2])
  BY <1>1, <1>8 DEF LimiterInv
<1>11. QED
  BY <1>1, <1>4, <1>5, <1>9, <1>10 DEF LimiterInv

LEMMA LimiterKeeps ==
    ASSUME LimiterInv, [LimiterNext]_limiterVars PROVE LimiterInv'
<1>1. CASE UNCHANGED limiterVars
  BY <1>1 DEF limiterVars, LimiterInv, LimiterTypeOK, Kept
<1>2. QED
  BY <1>1, TickKeeps, RestartKeeps, PassKeeps, RefuseKeeps DEF LimiterNext

LEMMA LimitIsExactFollows == ASSUME LimiterInv PROVE LimitIsExact
<1>1. ASSUME NEW c \in Clients, NEW t \in 0 .. clock
      PROVE  PassedBetween(c, t, t + Window) <= Limit
  <2>1. passed[c] \in Seq(Nat) /\ InOrder(passed[c]) /\ Spaced(passed[c])
        /\ t \in Nat
    BY DEF LimiterInv, LimiterTypeOK
  <2>2. QED
    BY <2>1, WindowHolds DEF PassedBetween
<1>2. ASSUME NEW r \in refused
      PROVE  PassedBetween(r[1], IF r[2] < Window THEN 0 ELSE r[2] - Window,
                           r[2]) = Limit
  <2>1. passed[r[1]] \in Seq(Nat) /\ r[2] \in Nat /\ Full(passed[r[1]], r[2])
    BY DEF LimiterInv, LimiterTypeOK
  <2>2. QED
    BY <2>1, FullHolds DEF PassedBetween
<1>3. QED
  BY <1>1, <1>2 DEF LimitIsExact

(* However the requests are timed, no window holds more than Limit that    *)
(* were let through, and every refusal ends one that holds as many.        *)
THEOREM LimitHolds == LimiterSpec => []LimitIsExact
BY LimiterInitInv, LimiterKeeps, LimitIsExactFollows, PTL DEF LimiterSpec
================================================================================
