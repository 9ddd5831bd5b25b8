------------------------------ MODULE AnalysePage ------------------------------
(***************************************************************************)
(* Diagnose Target (frontend/src/app/analyse/page.tsx): the form, whose    *)
(* lists of namespaces and targets are loaded by effects.  How the         *)
(* diagnosis that it starts goes on is DiagnosisProgress's subject: here it*)
(* only runs and ends.  A target is told apart by the kind and the         *)
(* namespace that it was listed for.                                       *)
(***************************************************************************)
EXTENDS Naturals

CONSTANTS Namespaced, ClusterScoped,    \* kinds of target
          Namespaces

Demo == "demo"          \* the namespace that the form begins with
AllNamespaces == "all"
Unset == <<>>

ASSUME AnalyseAssumption ==
    /\ Namespaced # {} /\ Namespaced \cap ClusterScoped = {}
    /\ Demo \in Namespaces /\ AllNamespaces \notin Namespaces

VARIABLES targetKind, namespace, targetName,
          namespaces,   \* those listed; none until they are
          targets, targetsLoading,
          listedFor,    \* what the last effect asked targets for
          targetCalls,  \* the lists of targets on the way
          running,      \* phase is "running" or "reconnecting"
          submitted,    \* what the last job was created for
          torn          \* history: the form was sent between the answer that
                        \* chose another namespace and the effect of that

loadedVars == <<targets, targetsLoading, listedFor, targetCalls>>
runVars == <<running, submitted, torn>>
analyseVars == <<targetKind, namespace, targetName, namespaces, loadedVars,
                 runVars>>

Kinds == Namespaced \cup ClusterScoped
Scope(k, ns) == <<k, IF k \in ClusterScoped THEN AllNamespaces ELSE ns>>
Scopes == {Scope(k, ns) : k \in Kinds, ns \in Namespaces}
Targets == Scopes \X {1, 2}
TargetsOf(c) == {t \in Targets : t[1] = Scope(c[1], c[2])}

AnalyseTypeOK ==
    /\ targetKind \in Kinds /\ namespace \in Namespaces
    /\ targetName \in Targets \cup {Unset}
    /\ namespaces \subseteq Namespaces
    /\ targets \subseteq Targets /\ targetsLoading \in BOOLEAN
    /\ listedFor \in Kinds \X Namespaces
    /\ targetCalls \subseteq Kinds \X Namespaces
    /\ submitted \in [scope : Scopes, target : Targets] \cup {Unset}
    /\ running \in BOOLEAN /\ torn \in BOOLEAN

(* The page is mounted: both effects have asked.                           *)
AnalyseInit ==
    /\ targetKind \in Namespaced /\ namespace = Demo /\ targetName = Unset
    /\ namespaces = {} /\ targets = {} /\ targetsLoading = TRUE
    /\ listedFor = <<targetKind, Demo>> /\ targetCalls = {listedFor}
    /\ submitted = Unset /\ torn = FALSE /\ running = FALSE

-----------------------------------------------------------------------------
(* The effect of a kind and a namespace; its cleanup makes the answer to   *)
(* the one before void.                                                    *)
LoadTargets(k, ns) ==
    /\ listedFor' = <<k, ns>> /\ targetCalls' = targetCalls \cup {<<k, ns>>}
    /\ targetsLoading' = TRUE /\ targetName' = Unset
    /\ UNCHANGED <<namespaces, targets, runVars>>

(* A choice is rendered, with its effect, before anything else happens.    *)
ChooseKind(k) ==
    /\ ~running /\ k # targetKind
    /\ targetKind' = k
    /\ LoadTargets(k, namespace)
    /\ UNCHANGED namespace

ChooseNamespace(ns) ==
    /\ ~running /\ targetKind \notin ClusterScoped
    /\ ns \in namespaces /\ ns # namespace
    /\ namespace' = ns
    /\ LoadTargets(targetKind, ns)
    /\ UNCHANGED targetKind

ChooseTarget(t) ==
    /\ ~running /\ ~targetsLoading
    /\ t \in targets /\ t # targetName
    /\ targetName' = t
    /\ UNCHANGED <<targetKind, namespace, namespaces, loadedVars, runVars>>

(* The list of namespaces comes once, at any time: the demo namespace if it*)
(* is there, else the first.                                               *)
NamespacesAnswer ==
    /\ namespaces = {}
    /\ \E found \in (SUBSET Namespaces) \ {{}} :
        /\ namespaces' = found
        /\ namespace' \in IF Demo \in found THEN {Demo} ELSE found
    /\ UNCHANGED <<targetKind, targetName, loadedVars, runVars>>

TargetsEffect ==
    /\ listedFor # <<targetKind, namespace>>
    /\ LoadTargets(targetKind, namespace)
    /\ UNCHANGED <<targetKind, namespace>>

(* Mutant: the effect has no cleanup. *)
TargetsAnswerLate(c) ==
    /\ c \in targetCalls
    /\ targetCalls' = targetCalls \ {c}
    /\ targets' \in SUBSET TargetsOf(c)
    /\ IF targets' = {} THEN targetName' = Unset ELSE targetName' \in targets'
    /\ targetsLoading' = FALSE
    /\ UNCHANGED <<targetKind, namespace, namespaces, listedFor, runVars>>

(* A call that fails has found none.                                       *)
TargetsAnswer(c) ==
    /\ c \in targetCalls
    /\ targetCalls' = targetCalls \ {c}
    /\ IF c # listedFor THEN UNCHANGED <<targets, targetName, targetsLoading>>
       ELSE /\ targets' \in SUBSET TargetsOf(c)
            /\ IF targets' = {} THEN targetName' = Unset
                                ELSE targetName' \in targets'
            /\ targetsLoading' = FALSE
    /\ UNCHANGED <<targetKind, namespace, namespaces, listedFor, runVars>>

(* onSubmit: the form of the last render, whether its effect has run or not*)
Submit ==
    /\ ~running /\ targetName # Unset /\ ~targetsLoading
    /\ running' = TRUE
    /\ submitted' = [scope |-> Scope(targetKind, namespace),
                     target |-> targetName]
    /\ torn' = (listedFor # <<targetKind, namespace>>)
    /\ UNCHANGED <<targetKind, namespace, targetName, namespaces, loadedVars>>

(* The diagnosis is done, has failed, or could not be created.             *)
RunEnds ==
    /\ running
    /\ running' = FALSE
    /\ UNCHANGED <<targetKind, namespace, targetName, namespaces, loadedVars,
                   submitted, torn>>

AnalyseNext ==
    \/ \E k \in Kinds : ChooseKind(k)
    \/ \E ns \in Namespaces : ChooseNamespace(ns)
    \/ \E t \in targets : ChooseTarget(t)
    \/ NamespacesAnswer \/ TargetsEffect
    \/ \E c \in targetCalls : TargetsAnswer(c)
    \/ Submit \/ RunEnds

AnalyseSpec == AnalyseInit /\ [][AnalyseNext]_analyseVars

-----------------------------------------------------------------------------
(* The job is created for a target that was listed for the kind and the    *)
(* namespace it is created with, in whatever order the lists came, unless  *)
(* the form was sent in the instant in which the list of namespaces had    *)
(* chosen another one and the effect had not yet dropped the target.       *)
TargetIsListed ==
    submitted # Unset => submitted.target[1] = submitted.scope \/ torn
=============================================================================
