---------------------------- MODULE ErrorWorkspace ----------------------------
(***************************************************************************)
(* What the error page does with an incident that was diagnosed: the       *)
(* buttons each card and the pane beside the queue offer, the report that  *)
(* the pane loads, and the dialog that applies a fix (components/          *)
(* error-card.tsx, error-detail.tsx, apply-fix-dialog.tsx, app/errors/     *)
(* errors-client.tsx).  How a diagnosis runs is DiagnosisClient's subject, *)
(* here it only begins and ends.                                           *)
(*                                                                         *)
(* The page is left at every await and the user goes on: an answer is      *)
(* taken in whatever state the page is by then.                            *)
(***************************************************************************)
EXTENDS Naturals

CONSTANTS Items,        \* errors in the queue
          Detected,     \* those whose source is "detected", not "scenario"
          Reports,      \* the reports of their diagnoses
          Actionable,   \* reports that recommend a typed action
          Healthy,      \* reports whose active_error is false
          Fixes,        \* clicks on a button that applies a fix
          QueueFilters  \* the tabs above the queue that are used

None == "none"
Unmounted == "unmounted"

ASSUME WorkspaceAssumption ==
    /\ {None, Unmounted} \cap (Items \cup Reports) = {}
    /\ Detected \subseteq Items /\ "dialog" \notin Fixes
    /\ Actionable \subseteq Reports /\ Healthy \subseteq Reports
    /\ QueueFilters \subseteq {"active", "needs_diagnosis", "diagnosed",
                                "fixed", "all"}

VARIABLES status, incident,      \* each item in the queue
          about,                 \* the item that each report was made for
          queueFilter,           \* the tab that the address names
          selected,              \* selectedId
          asked,                 \* incidentId of the pane's last effect
          shown,                 \* its report
          reportLoading, reportError,
          paneCalls,             \* its getReport calls on the way
          fixItem, fixReport, fixReportError,
          fixCalls,              \* handleApplyFix's getReport calls: by item
          fixPhase,              \* the dialog's phase
          fix,                   \* where each click's handler is
          subject,               \* the item and the report it has captured,
                                 \* while it runs
          crossed                \* history: the open dialog, and each click
                                 \* in it, whose report came for another item

paneVars == <<queueFilter, selected, asked, shown, reportLoading, reportError,
              paneCalls>>
dialogVars == <<fixItem, fixReport, fixReportError, fixCalls, fixPhase>>
workspaceVars == <<status, incident, about, paneVars, dialogVars, fix, subject,
                   crossed>>

FixSteps == {"unused", "reset", "propose", "approve", "reject", "ended"}

WorkspaceTypeOK ==
    /\ status \in [Items -> {"triggered", "diagnosing", "diagnosis_failed",
                             "diagnosed", "fixed", "cleared"}]
    /\ incident \in [Items -> Reports \cup {None}]
    /\ about \in [Reports -> Items \cup {None}]
    /\ queueFilter \in QueueFilters /\ selected \in Items \cup {None}
    /\ asked \in Reports \cup {None, Unmounted} /\ shown \in Reports \cup {None}
    /\ reportLoading \in BOOLEAN /\ reportError \in BOOLEAN
    /\ paneCalls \subseteq Reports
    /\ fixItem \in Items \cup {None}
    /\ fixReport \in Reports \cup {None} /\ fixReportError \in BOOLEAN
    /\ fixCalls \subseteq Items \X Reports
    /\ fixPhase \in {"review", "applying", "success", "error"}
    /\ fix \in [Fixes -> FixSteps]
    /\ subject \in [Fixes -> (Items \cup {None}) \X (Reports \cup {None})]
    /\ crossed \subseteq Fixes \cup {"dialog"}

WorkspaceInit ==
    /\ status = [i \in Items |-> "triggered"]
    /\ incident = [i \in Items |-> None]
    /\ about = [r \in Reports |-> None]
    /\ queueFilter \in QueueFilters
    /\ selected = None /\ asked = Unmounted /\ shown = None
    /\ reportLoading = FALSE /\ reportError = FALSE /\ paneCalls = {}
    /\ fixItem = None /\ fixReport = None /\ fixReportError = FALSE
    /\ fixCalls = {} /\ fixPhase = "review"
    /\ fix = [f \in Fixes |-> "unused"]
    /\ subject = [f \in Fixes |-> <<None, None>>]
    /\ crossed = {}

-----------------------------------------------------------------------------
(* What an item offers.  Only what the tab shows has a card, and without   *)
(* any card there is no pane beside them either.  The card knows only the  *)
(* item; the pane also its report, and offers nothing while it has none.   *)

MatchesFilter(i) ==
    CASE queueFilter = "active" -> status[i] # "fixed"
      [] queueFilter = "needs_diagnosis" ->
           status[i] \in {"triggered", "diagnosis_failed"}
      [] queueFilter \in {"diagnosed", "fixed"} -> status[i] = queueFilter
      [] OTHER -> TRUE

FilteredItems == {i \in Items : status[i] # "cleared" /\ MatchesFilter(i)}
Mounted == selected # None /\ FilteredItems # {}

CardOffers(i) ==
    CASE i \notin FilteredItems -> {}
      [] status[i] \in {"triggered", "diagnosing", "diagnosis_failed"} ->
           {"diagnose"}
      [] status[i] = "diagnosed" /\ incident[i] # None ->
           {"view", "fix", "complete"}
      [] status[i] = "fixed" -> {"view"}
      [] OTHER -> {}

PaneShowsReport(i) ==
    /\ Mounted /\ i = selected
    /\ status[i] \in {"diagnosed", "fixed"}
    /\ ~reportLoading /\ ~reportError /\ shown # None

PaneOffers(i) ==
    IF status[i] \in {"triggered", "diagnosing", "diagnosis_failed"}
      THEN {"diagnose"}
    ELSE IF PaneShowsReport(i) /\ status[i] = "diagnosed"
      THEN IF shown \in Healthy THEN {"complete"} ELSE {"fix", "complete"}
    ELSE {}

(* The dialog is modal: while it is open, only its own buttons work.       *)
Offers(i) ==
    IF fixItem # None THEN {}
    ELSE CardOffers(i)
           \cup (IF Mounted /\ i = selected THEN PaneOffers(i) ELSE {})

-----------------------------------------------------------------------------
(* The queue and its diagnoses.                                            *)

SetFilter(f) ==
    /\ fixItem = None /\ queueFilter # f
    /\ queueFilter' = f
    /\ UNCHANGED <<status, incident, about, selected, asked, shown,
                   reportLoading, reportError, paneCalls, dialogVars, fix,
                   subject, crossed>>

Select(i) ==
    /\ fixItem = None /\ i \in FilteredItems
    /\ selected # i
    /\ selected' = i
    /\ UNCHANGED <<status, incident, about, queueFilter, asked, shown,
                   reportLoading, reportError, paneCalls, dialogVars, fix,
                   subject, crossed>>

Diagnose(i) ==
    /\ "diagnose" \in Offers(i)
    /\ status' = [status EXCEPT ![i] = "diagnosing"]
    /\ incident' = [incident EXCEPT ![i] = None]
    /\ selected' = i
    /\ UNCHANGED <<about, queueFilter, asked, shown,
                   reportLoading, reportError, paneCalls, dialogVars, fix,
                   subject, crossed>>

DiagnosisEnds(i) ==
    /\ status[i] = "diagnosing"
    /\ \/ /\ status' = [status EXCEPT ![i] = "diagnosis_failed"]
          /\ UNCHANGED <<incident, about>>
       \/ \E r \in Reports :
            /\ about[r] = None
            /\ about' = [about EXCEPT ![r] = i]
            /\ incident' = [incident EXCEPT ![i] = r]
            /\ status' = [status EXCEPT ![i] = "diagnosed"]
    /\ UNCHANGED <<paneVars, dialogVars, fix, subject, crossed>>

(* markAllActiveScenarioErrorsFixed.                                       *)
DemoFixed ==
    [i \in Items |-> IF i \in Detected \/ status[i] = "cleared" THEN status[i]
                                                              ELSE "fixed"]

(* Mark as Completed; what may happen before the demo workload is restored *)
(* is in DiagnosisClient.                                                  *)
MarkCompleted(i) ==
    /\ "complete" \in Offers(i)
    /\ status' = IF i \in Detected THEN [status EXCEPT ![i] = "fixed"]
                                   ELSE DemoFixed
    /\ UNCHANGED <<incident, about, paneVars, dialogVars, fix, subject,
                   crossed>>

(* The dialog is closed, and drops its report.                             *)
CloseAndDrop ==
    /\ fixItem' = None /\ fixReport' = None /\ fixReportError' = FALSE
    /\ crossed' = crossed \ {"dialog"}

(* clearLocalQueue: Clear Local History, or the end of Reset Demo & Clear, *)
(* for which the page was left and in which any dialog may be open.        *)
ClearLocalQueue ==
    /\ \E i \in Items : status[i] # "cleared"
    /\ status' = [i \in Items |-> "cleared"]
    /\ incident' = [i \in Items |-> None]
    /\ selected' = None
    /\ CloseAndDrop
    /\ UNCHANGED <<about, queueFilter, asked, shown, reportLoading,
                   reportError, paneCalls, fixCalls, fixPhase, fix, subject>>

-----------------------------------------------------------------------------
(* The pane: an effect on the incident of the selected item.  Its state is *)
(* lost when it is unmounted.                                              *)

Current == IF Mounted THEN incident[selected] ELSE Unmounted

PaneEffect ==
    /\ Current # asked
    /\ asked' = Current
    /\ CASE Current = Unmounted ->
              /\ shown' = None /\ reportLoading' = FALSE /\ reportError' = FALSE
              /\ UNCHANGED paneCalls
         [] Current = None ->
              /\ shown' = None
              /\ UNCHANGED <<reportLoading, reportError, paneCalls>>
         [] OTHER ->
              /\ reportLoading' = TRUE /\ reportError' = FALSE
              /\ paneCalls' = paneCalls \cup {Current}
              /\ UNCHANGED shown
    /\ UNCHANGED <<status, incident, about, queueFilter, selected, dialogVars,
                   fix, subject, crossed>>

(* Mutant: the effect has no cleanup. *)
PaneAnswersLate(r) ==
    /\ r \in paneCalls
    /\ paneCalls' = paneCalls \ {r}
    /\ \/ shown' = r /\ UNCHANGED reportError
       \/ reportError' = TRUE /\ UNCHANGED shown
    /\ reportLoading' = FALSE
    /\ UNCHANGED <<status, incident, about, queueFilter, selected, asked,
                   dialogVars, fix, subject, crossed>>

(* The cleanup of an effect makes its call's answer void.                  *)
PaneAnswers(r) ==
    /\ r \in paneCalls
    /\ paneCalls' = paneCalls \ {r}
    /\ IF r # asked THEN UNCHANGED <<shown, reportLoading, reportError>>
       ELSE /\ \/ shown' = r /\ UNCHANGED reportError
               \/ reportError' = TRUE /\ UNCHANGED shown
            /\ reportLoading' = FALSE
    /\ UNCHANGED <<status, incident, about, queueFilter, selected, asked,
                   dialogVars, fix, subject, crossed>>

-----------------------------------------------------------------------------
(* The dialog.  It stays mounted while it is closed, and keeps its phase.  *)

(* Mutant: the report of the last item is not dropped. *)
ApplyFixKeeping(i) ==
    /\ "fix" \in Offers(i)
    /\ fixItem' = i /\ fixReportError' = FALSE
    /\ fixCalls' = fixCalls \cup {<<i, incident[i]>>}
    /\ crossed' = crossed \ {"dialog"}
    /\ UNCHANGED <<status, incident, about, paneVars, fixReport, fixPhase, fix,
                   subject>>

(* handleApplyFix: opens the dialog and gets the item's report.            *)
ApplyFix(i) ==
    /\ "fix" \in Offers(i)
    /\ fixItem' = i /\ fixReport' = None /\ fixReportError' = FALSE
    /\ fixCalls' = fixCalls \cup {<<i, incident[i]>>}
    /\ crossed' = crossed \ {"dialog"}
    /\ UNCHANGED <<status, incident, about, paneVars, fixPhase, fix, subject>>

(* Whichever item the dialog is open for by now, it takes the answer.      *)
FixReportAnswers(c) ==
    /\ c \in fixCalls
    /\ fixCalls' = fixCalls \ {c}
    /\ \/ /\ fixReport' = c[2] /\ UNCHANGED fixReportError
          /\ crossed' = IF fixItem = c[1] THEN crossed \ {"dialog"}
                                          ELSE crossed \cup {"dialog"}
       \/ fixReportError' = TRUE /\ UNCHANGED <<fixReport, crossed>>
    /\ UNCHANGED <<status, incident, about, paneVars, fixItem, fixPhase, fix,
                   subject>>

(* Cancel, Done, Escape or a click beside the dialog; the last two also    *)
(* while a fix is being applied.                                           *)
CloseDialog ==
    /\ fixItem # None
    /\ fixPhase' = "review"
    /\ CloseAndDrop
    /\ UNCHANGED <<status, incident, about, paneVars, fixCalls, fix, subject>>

DialogReport == IF fixReportError THEN None ELSE fixReport

(* Apply Fix for a demo incident, Dry-run & Apply Fix for a detected one.  *)
StartFix(f) ==
    /\ fixItem # None /\ fixPhase \in {"review", "error"}
    /\ fix[f] = "unused"
    /\ fixItem \in Detected => DialogReport \in Actionable
    /\ fix' = [fix EXCEPT ![f] = IF fixItem \in Detected THEN "propose"
                                                         ELSE "reset"]
    /\ subject' = [subject EXCEPT ![f] = <<fixItem, DialogReport>>]
    /\ crossed' = IF "dialog" \in crossed THEN crossed \cup {f} ELSE crossed
    /\ fixPhase' = "applying"
    /\ UNCHANGED <<status, incident, about, paneVars, fixItem, fixReport,
                   fixReportError, fixCalls>>

(* The queue keeps the status of an item whose fix was approved: only a    *)
(* demo reset and "I Applied the Fix" change it.  The dialog is closed by  *)
(* handleFixed, whichever item it is open for, and not reset.              *)
Fixed(after) ==
    /\ status' = after
    /\ fixPhase' = "success"
    /\ fixItem' = None

MarkManuallyFixed ==
    /\ fixItem \in Detected /\ fixPhase \in {"review", "error"}
    /\ Fixed([status EXCEPT ![fixItem] = "fixed"])
    /\ UNCHANGED <<incident, about, paneVars, fixReport, fixReportError,
                   fixCalls, fix, subject, crossed>>

(* The proposal's dry run is shown in a prompt that blocks the page.       *)
Prompt(f) ==
    /\ fix[f] = "propose"
    /\ \E next \in {"approve", "reject"} : fix' = [fix EXCEPT ![f] = next]
    /\ UNCHANGED <<status, fixPhase, fixItem, subject, crossed>>

FixEnds(f) ==
    /\ fix' = [fix EXCEPT ![f] = "ended"]
    /\ subject' = [subject EXCEPT ![f] = <<None, None>>]
    /\ crossed' = crossed \ {f}

FixSucceeds(f) ==
    /\ fix[f] \in {"reset", "approve"}
    /\ FixEnds(f)
    /\ Fixed(IF fix[f] = "reset" THEN DemoFixed ELSE status)

FixRejected(f) ==
    /\ fix[f] = "reject"
    /\ FixEnds(f)
    /\ fixPhase' = "review"
    /\ UNCHANGED <<status, fixItem>>

(* A call that fails, an answer other than "applied", or the gateway's 60 s*)
(* passing while kubectl goes on.                                          *)
FixFails(f) ==
    /\ fix[f] \in {"reset", "propose", "approve", "reject"}
    /\ FixEnds(f)
    /\ fixPhase' = "error"
    /\ UNCHANGED <<status, fixItem>>

FixGoesOn(f) ==
    /\ Prompt(f) \/ FixSucceeds(f) \/ FixRejected(f) \/ FixFails(f)
    /\ UNCHANGED <<incident, about, paneVars, fixReport, fixReportError,
                   fixCalls>>

WorkspaceNext ==
    \/ \E i \in Items :
          \/ Select(i) \/ Diagnose(i) \/ DiagnosisEnds(i) \/ MarkCompleted(i)
          \/ ApplyFix(i)
    \/ \E f \in QueueFilters : SetFilter(f)
    \/ PaneEffect
    \/ \E r \in paneCalls : PaneAnswers(r)
    \/ \E c \in fixCalls : FixReportAnswers(c)
    \/ CloseDialog \/ MarkManuallyFixed \/ ClearLocalQueue
    \/ \E f \in Fixes : StartFix(f) \/ FixGoesOn(f)

WorkspaceSpec == WorkspaceInit /\ [][WorkspaceNext]_workspaceVars

-----------------------------------------------------------------------------
(* Once its effect has run, the pane shows the selected item's own         *)
(* diagnosis and no other, and it is loading exactly while that one's      *)
(* answer is on its way, however fast the user moves between items.        *)
PaneIsCurrent ==
    Current = asked /\ asked \in Reports =>
        /\ PaneShowsReport(selected) => shown = incident[selected]
        /\ reportLoading <=> asked \in paneCalls

(* A change is only proposed to the cluster from a report of the incident  *)
(* it was asked for, unless the very report in the dialog at the click had *)
(* come late, for an item whose dialog was closed before.  An answer that  *)
(* crossed into an earlier dialog, or was replaced by the item's own,      *)
(* excuses nothing.                                                        *)
ProposedFromOwnReport ==
    \A f \in Fixes : fix[f] = "propose" =>
        about[subject[f][2]] = subject[f][1] \/ f \in crossed
=============================================================================
