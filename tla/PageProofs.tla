------------------------------ MODULE PageProofs -------------------------------
(***************************************************************************)
(* Theorems about the pages of the dashboard, each for every value of its  *)
(* constants: the error queue beside its pane (ErrorWorkspace), the lists  *)
(* (ListPage), the form of the Analyse page (AnalysePage), and what a page *)
(* makes of the stages of a job (DiagnosisProgress).                       *)
(***************************************************************************)
EXTENDS ErrorWorkspace, ListPage, AnalysePage, DiagnosisProgress,
        WellFoundedInduction, TLAPS

-----------------------------------------------------------------------------
(* The error queue.                                                        *)

(* The strengthening of each property.                                     *)

(* The pane is loading exactly while the call of its last effect is on the *)
(* way, and without an error it then shows what that call brought.         *)
PaneInv ==
    asked \in Reports =>
        /\ reportLoading <=> asked \in paneCalls
        /\ ~reportLoading /\ ~reportError => shown = asked

(* An item's incident is a report that was made for it; the dialog asks    *)
(* for such a report, and has none of another item unless one came late.   *)
IncidentInv ==
    \A i \in Items :
        /\ incident[i] # None => about[incident[i]] = i
        /\ status[i] = "diagnosed" => incident[i] # None

DialogInv ==
    /\ \A c \in fixCalls : about[c[2]] = c[1]
    /\ fixItem # None /\ fixReport # None
           => about[fixReport] = fixItem \/ "dialog" \in crossed

FixInv ==
    \A f \in Fixes : fix[f] = "propose" =>
        /\ subject[f] \in Items \X Reports
        /\ about[subject[f][2]] = subject[f][1] \/ f \in crossed

WorkspaceInv ==
    WorkspaceTypeOK /\ PaneInv /\ IncidentInv /\ DialogInv /\ FixInv

LEMMA WorkspaceInitInv == WorkspaceInit => WorkspaceInv
<1> SUFFICES ASSUME WorkspaceInit PROVE WorkspaceInv
  OBVIOUS
<1>1. WorkspaceTypeOK
  BY DEF WorkspaceInit, WorkspaceTypeOK, FixSteps
<1>2. PaneInv
  BY WorkspaceAssumption DEF WorkspaceInit, PaneInv
<1>3. IncidentInv /\ DialogInv /\ FixInv
  BY DEF WorkspaceInit, IncidentInv, DialogInv, FixInv
<1>4. QED
  BY <1>1, <1>2, <1>3 DEF WorkspaceInv

-----------------------------------------------------------------------------
(* What a button needs.                                                    *)

LEMMA FixOffered ==
    ASSUME NEW i \in Items, "fix" \in Offers(i)
    PROVE  fixItem = None /\ status[i] = "diagnosed"
<1>1. fixItem = None
  BY DEF Offers
<1>2. "fix" \in CardOffers(i) => status[i] = "diagnosed"
  BY DEF CardOffers
<1>3. "fix" \in PaneOffers(i) => status[i] = "diagnosed"
  BY DEF PaneOffers
<1>4. QED
  BY <1>1, <1>2, <1>3 DEF Offers

-----------------------------------------------------------------------------
(* The queue.                                                              *)
LEMMA QueueStep ==
    ASSUME WorkspaceInv,
           \/ \E i \in Items : Select(i) \/ Diagnose(i) \/ MarkCompleted(i)
           \/ \E f \in QueueFilters : SetFilter(f)
           \/ ClearLocalQueue
    PROVE  WorkspaceInv'
<1> USE WorkspaceAssumption
    DEF WorkspaceInv, WorkspaceTypeOK, dialogVars, paneVars
<1>1. ASSUME NEW i \in Items, Select(i) PROVE WorkspaceInv'
  BY <1>1 DEF Select, PaneInv, IncidentInv, DialogInv, FixInv
<1>2. ASSUME NEW i \in Items, Diagnose(i) PROVE WorkspaceInv'
  BY <1>2 DEF Diagnose, PaneInv, IncidentInv, DialogInv, FixInv
<1>3. ASSUME NEW i \in Items, MarkCompleted(i) PROVE WorkspaceInv'
  <2>1. \A k \in Items : status'[k] \in {status[k], "fixed"}
    BY <1>3 DEF MarkCompleted, DemoFixed
  <2>2. WorkspaceTypeOK'
    BY <1>3 DEF MarkCompleted, DemoFixed
  <2>3. PaneInv' /\ IncidentInv' /\ DialogInv' /\ FixInv'
    BY <1>3, <2>1 DEF MarkCompleted, PaneInv, IncidentInv, DialogInv, FixInv
  <2>4. QED
    BY <2>2, <2>3
<1>4. ASSUME NEW f \in QueueFilters, SetFilter(f) PROVE WorkspaceInv'
  BY <1>4 DEF SetFilter, PaneInv, IncidentInv, DialogInv, FixInv
<1>5. CASE ClearLocalQueue
  <2>1. /\ \A i \in Items : status'[i] = "cleared" /\ incident'[i] = None
        /\ selected' = None /\ fixItem' = None
    BY <1>5 DEF ClearLocalQueue, CloseAndDrop
  <2>2. WorkspaceTypeOK'
    BY <1>5 DEF ClearLocalQueue, CloseAndDrop
  <2>3. PaneInv' /\ FixInv'
    BY <1>5 DEF ClearLocalQueue, CloseAndDrop, PaneInv, FixInv
  <2>4. IncidentInv'
    BY <2>1 DEF IncidentInv
  <2>5. DialogInv'
    BY <1>5 DEF ClearLocalQueue, CloseAndDrop, DialogInv
  <2>6. QED
    BY <2>2, <2>3, <2>4, <2>5
<1>6. QED
  BY <1>1, <1>2, <1>3, <1>4, <1>5

(* A report is made for one item, once.                                    *)
LEMMA DiagnosisStep ==
    ASSUME WorkspaceInv, NEW i \in Items, DiagnosisEnds(i)
    PROVE  WorkspaceInv'
<1> USE WorkspaceAssumption
    DEF WorkspaceInv, WorkspaceTypeOK, dialogVars, paneVars
<1>1. \A r \in Reports : about[r] # None => about'[r] = about[r]
  BY DEF DiagnosisEnds
<1>2. WorkspaceTypeOK' /\ PaneInv'
  BY DEF DiagnosisEnds, PaneInv
<1>3. IncidentInv'
  <2>1. CASE UNCHANGED <<incident, about>>
    BY <2>1 DEF DiagnosisEnds, IncidentInv
  <2>2. ASSUME NEW r \in Reports, about[r] = None,
               about' = [about EXCEPT ![r] = i],
               incident' = [incident EXCEPT ![i] = r],
               status' = [status EXCEPT ![i] = "diagnosed"]
        PROVE  IncidentInv'
    BY <1>1, <2>2 DEF IncidentInv
  <2>3. QED
    BY <2>1, <2>2 DEF DiagnosisEnds
<1>4. DialogInv' /\ FixInv'
  BY <1>1 DEF DiagnosisEnds, DialogInv, FixInv
<1>5. QED
  BY <1>2, <1>3, <1>4

-----------------------------------------------------------------------------
(* The pane.                                                               *)
LEMMA PaneStep ==
    ASSUME WorkspaceInv, PaneEffect \/ \E r \in paneCalls : PaneAnswers(r)
    PROVE  WorkspaceInv'
<1> USE WorkspaceAssumption DEF WorkspaceInv, WorkspaceTypeOK, dialogVars
<1>1. Current \in Reports \cup {None, Unmounted}
  BY DEF Current, Mounted
<1>2. CASE PaneEffect
  <2>1. CASE Current \in {None, Unmounted}
    <3>1. /\ asked' = Current /\ asked' \notin Reports
          /\ shown' = None /\ UNCHANGED paneCalls
          /\ reportLoading' \in {reportLoading, FALSE}
          /\ reportError' \in {reportError, FALSE}
      BY <1>2, <2>1 DEF PaneEffect
    <3>2. UNCHANGED <<status, incident, about, queueFilter, selected, dialogVars,
                      fix, subject, crossed>>
      BY <1>2 DEF PaneEffect
    <3>3. WorkspaceTypeOK'
      <4>1. asked' \in Reports \cup {None, Unmounted}
            /\ shown' \in Reports \cup {None} /\ paneCalls' \subseteq Reports
            /\ reportLoading' \in BOOLEAN /\ reportError' \in BOOLEAN
        BY <1>1, <3>1
      <4>2. QED
        BY <3>2, <4>1
    <3>4. PaneInv'
      BY <3>1 DEF PaneInv
    <3>5. IncidentInv' /\ DialogInv' /\ FixInv'
      BY <3>2 DEF IncidentInv, DialogInv, FixInv
    <3>6. QED
      BY <3>3, <3>4, <3>5
  <2>2. CASE Current \notin {None, Unmounted}
    <3>1. /\ asked' = Current /\ Current \in Reports
          /\ reportLoading' = TRUE /\ reportError' = FALSE
          /\ paneCalls' = paneCalls \cup {Current} /\ UNCHANGED shown
          /\ UNCHANGED <<status, incident, about, queueFilter, selected,
                         dialogVars, fix, subject, crossed>>
      BY <1>1, <1>2, <2>2 DEF PaneEffect
    <3>2. WorkspaceTypeOK'
      <4>1. /\ asked' \in Reports \cup {None, Unmounted}
            /\ paneCalls' \subseteq Reports
        BY <3>1
      <4>2. reportLoading' \in BOOLEAN /\ reportError' \in BOOLEAN
        BY <3>1
      <4>3. UNCHANGED <<status, incident, about, queueFilter, selected, shown,
                        dialogVars, fix, subject, crossed>>
        BY <3>1
      <4>4. QED
        BY <4>1, <4>2, <4>3
    <3>3. PaneInv'
      BY <3>1 DEF PaneInv
    <3>4. IncidentInv' /\ DialogInv' /\ FixInv'
      BY <3>1 DEF IncidentInv, DialogInv, FixInv
    <3>5. QED
      BY <3>2, <3>3, <3>4
  <2>3. QED
    BY <2>1, <2>2
<1>3. ASSUME NEW r \in paneCalls, PaneAnswers(r) PROVE WorkspaceInv'
  <2>1. WorkspaceTypeOK'
    <3>1. /\ UNCHANGED <<status, incident, about, queueFilter, selected, asked,
                         dialogVars, fix, subject, crossed>>
          /\ paneCalls' \subseteq Reports /\ shown' \in Reports \cup {None}
      BY <1>3 DEF PaneAnswers
    <3>2. reportLoading' \in BOOLEAN /\ reportError' \in BOOLEAN
      BY <1>3 DEF PaneAnswers
    <3>3. QED
      BY <3>1, <3>2
  <2>4. PaneInv'
    <3>1. CASE r = asked
      BY <1>3, <3>1 DEF PaneAnswers, PaneInv
    <3>2. CASE r # asked
      BY <1>3, <3>2 DEF PaneAnswers, PaneInv
    <3>3. QED
      BY <3>1, <3>2
  <2>2. IncidentInv' /\ DialogInv' /\ FixInv'
    BY <1>3 DEF PaneAnswers, IncidentInv, DialogInv, FixInv
  <2>3. QED
    BY <2>1, <2>2, <2>4
<1>4. QED
  BY <1>2, <1>3

-----------------------------------------------------------------------------
(* The dialog.                                                             *)
LEMMA DialogStep ==
    ASSUME WorkspaceInv,
           \/ \E i \in Items : ApplyFix(i)
           \/ \E c \in fixCalls : FixReportAnswers(c)
           \/ CloseDialog \/ MarkManuallyFixed
    PROVE  WorkspaceInv'
<1> USE WorkspaceAssumption DEF WorkspaceInv, WorkspaceTypeOK, paneVars
<1>1. ASSUME NEW i \in Items, ApplyFix(i) PROVE WorkspaceInv'
  <2>1. incident[i] \in Reports /\ about[incident[i]] = i
    BY <1>1, FixOffered DEF ApplyFix, IncidentInv
  <2>2. WorkspaceTypeOK'
    <3>1. /\ UNCHANGED <<status, incident, about, paneVars, fixPhase, fix,
                         subject>>
          /\ crossed' = crossed \ {"dialog"}
          /\ fixItem' = i /\ fixReport' = None /\ fixReportError' = FALSE
          /\ fixCalls' = fixCalls \cup {<<i, incident[i]>>}
      BY <1>1 DEF ApplyFix
    <3>2. fixCalls' \subseteq Items \X Reports
      BY <2>1, <3>1
    <3>3. UNCHANGED <<status, incident, about, queueFilter, selected, asked,
                      shown, reportLoading, reportError, paneCalls, fixPhase,
                      fix, subject>>
      BY <3>1
    <3>4. /\ fixItem' \in Items \cup {None} /\ fixReport' \in Reports \cup {None}
          /\ fixReportError' \in BOOLEAN /\ crossed' \subseteq crossed
      BY <3>1
    <3>5. QED
      BY <3>2, <3>3, <3>4
  <2>5. PaneInv' /\ IncidentInv' /\ FixInv'
    BY <1>1 DEF ApplyFix, PaneInv, IncidentInv, FixInv
  <2>3. DialogInv'
    BY <1>1, <2>1 DEF ApplyFix, DialogInv
  <2>4. QED
    BY <2>2, <2>3, <2>5
<1>2. ASSUME NEW c \in fixCalls, FixReportAnswers(c) PROVE WorkspaceInv'
  <2>1. c[1] \in Items /\ c[2] \in Reports /\ about[c[2]] = c[1]
    BY DEF DialogInv
  <2>2. /\ crossed' \subseteq Fixes \cup {"dialog"}
        /\ \A f \in Fixes : f \in crossed' <=> f \in crossed
    BY <1>2 DEF FixReportAnswers
  <2>5. WorkspaceTypeOK'
    <3>1. /\ fixCalls' \subseteq fixCalls
          /\ fixReport' \in {fixReport, c[2]}
          /\ fixReportError' \in {fixReportError, TRUE}
      BY <1>2 DEF FixReportAnswers
    <3>2. UNCHANGED <<status, incident, about, paneVars, fixItem, fixPhase, fix,
                      subject>>
      BY <1>2 DEF FixReportAnswers
    <3>3. /\ fixCalls' \subseteq Items \X Reports
          /\ fixReport' \in Reports \cup {None} /\ fixReportError' \in BOOLEAN
      BY <2>1, <3>1
    <3>4. QED
      BY <2>2, <3>2, <3>3 DEF paneVars
  <2>6. PaneInv' /\ IncidentInv'
    BY <1>2 DEF FixReportAnswers, PaneInv, IncidentInv
  <2>7. FixInv'
    BY <1>2, <2>2 DEF FixReportAnswers, FixInv
  <2>3. DialogInv'
    BY <1>2, <2>1 DEF FixReportAnswers, DialogInv
  <2>4. QED
    BY <2>3, <2>5, <2>6, <2>7
<1>3. CASE CloseDialog
  BY <1>3 DEF CloseDialog, CloseAndDrop, PaneInv, IncidentInv, DialogInv, FixInv
<1>4. CASE MarkManuallyFixed
  BY <1>4 DEF MarkManuallyFixed, Fixed, PaneInv, IncidentInv, DialogInv, FixInv
<1>5. QED
  BY <1>1, <1>2, <1>3, <1>4

(* The handler of a click captures what the dialog has, and keeps it.      *)
LEMMA FixStep ==
    ASSUME WorkspaceInv, NEW f \in Fixes, StartFix(f) \/ FixGoesOn(f)
    PROVE  WorkspaceInv'
<1> USE WorkspaceAssumption DEF WorkspaceInv, WorkspaceTypeOK, FixSteps, paneVars
<1>1. CASE StartFix(f)
  <2>1. WorkspaceTypeOK' /\ PaneInv' /\ IncidentInv' /\ DialogInv'
    BY <1>1 DEF StartFix, DialogReport, PaneInv, IncidentInv, DialogInv
  <2>2. CASE fixItem \in Detected
    <3>1. /\ DialogReport = fixReport /\ fixReport \in Reports
          /\ fixItem \in Items
          /\ about[fixReport] = fixItem \/ "dialog" \in crossed
      BY <1>1, <2>2 DEF StartFix, DialogReport, DialogInv
    <3>2. QED
      BY <1>1, <2>1, <3>1 DEF StartFix, FixInv
  <2>3. CASE fixItem \notin Detected
    BY <1>1, <2>1, <2>3 DEF StartFix, FixInv
  <2>4. QED
    BY <2>2, <2>3
<1>2. CASE FixGoesOn(f)
  <2>1. /\ UNCHANGED <<incident, about, paneVars, fixReport, fixReportError,
                       fixCalls>>
        /\ fixItem' \in {fixItem, None}
        /\ \A i \in Items : status'[i] \in {status[i], "fixed"}
    BY <1>2 DEF FixGoesOn, Prompt, FixSucceeds, FixRejected, FixFails, Fixed,
       DemoFixed
  <2>2. \A g \in Fixes : fix'[g] = "propose" =>
              /\ fix[g] = "propose" /\ subject'[g] = subject[g]
              /\ g \in crossed <=> g \in crossed'
    BY <1>2 DEF FixGoesOn, Prompt, FixSucceeds, FixRejected, FixFails, FixEnds
  <2>3. "dialog" \in crossed => "dialog" \in crossed'
    BY <1>2 DEF FixGoesOn, Prompt, FixSucceeds, FixRejected, FixFails, FixEnds
  <2>4. WorkspaceTypeOK'
    BY <1>2 DEF FixGoesOn, Prompt, FixSucceeds, FixRejected, FixFails, FixEnds,
       Fixed, DemoFixed
  <2>5. PaneInv' /\ IncidentInv' /\ DialogInv' /\ FixInv'
    BY <2>1, <2>2, <2>3 DEF PaneInv, IncidentInv, DialogInv, FixInv
  <2>6. QED
    BY <2>4, <2>5
<1>3. QED
  BY <1>1, <1>2

LEMMA WorkspaceKeeps ==
    ASSUME WorkspaceInv, [WorkspaceNext]_workspaceVars
    PROVE  WorkspaceInv'
<1>1. CASE UNCHANGED workspaceVars
  BY <1>1 DEF workspaceVars, paneVars, dialogVars, WorkspaceInv,
     WorkspaceTypeOK, PaneInv, IncidentInv, DialogInv, FixInv
<1>2. QED
  BY <1>1, QueueStep, DiagnosisStep, PaneStep, DialogStep, FixStep
  DEF WorkspaceNext

LEMMA WorkspaceInvariant == WorkspaceSpec => []WorkspaceInv
BY WorkspaceInitInv, WorkspaceKeeps, PTL DEF WorkspaceSpec

LEMMA PaneIsCurrentFollows == WorkspaceInv => PaneIsCurrent
BY DEF WorkspaceInv, PaneInv, PaneIsCurrent, Current, PaneShowsReport

LEMMA ProposedFromOwnReportFollows == WorkspaceInv => ProposedFromOwnReport
BY DEF WorkspaceInv, FixInv, ProposedFromOwnReport

(* Whatever is selected, filtered, diagnosed or cleared while reports are  *)
(* on their way, the pane shows the selected item's own report.            *)
THEOREM PaneStaysCurrent == WorkspaceSpec => []PaneIsCurrent
BY WorkspaceInvariant, PaneIsCurrentFollows, PTL

(* No change is proposed from another incident's report, unless that very  *)
(* report came late into the dialog in which the user clicked.             *)
THEOREM ProposalsUseTheirOwnReport == WorkspaceSpec => []ProposedFromOwnReport
BY WorkspaceInvariant, ProposedFromOwnReportFollows, PTL

-----------------------------------------------------------------------------
(* The lists.                                                              *)

(* A load that no other has overtaken asks for what the controls show.     *)
LoadInv ==
    \A c \in loads :
        /\ c.n <= loadCount
        /\ c.n = loadCount /\ ~c.stale => c.filter = filter /\ c.offset = offset

ListInv == ListTypeOK /\ LoadInv /\ RowsAnswer

LEMMA ListInitInv == ListInit => ListInv
<1> SUFFICES ASSUME ListInit PROVE ListInv
  OBVIOUS
<1>1. ListTypeOK
  <2>1. loads \subseteq Loads
    BY ListAssumption DEF ListInit, Loads, Values, Offsets
  <2>2. /\ touched \in BOOLEAN /\ listLoading \in BOOLEAN
        /\ listError \in BOOLEAN /\ outdated \in BOOLEAN
    BY DEF ListInit
  <2>3. offset \in Offsets /\ loadCount \in 0 .. MaxLoads
    BY ListAssumption DEF ListInit, Offsets
  <2>4. QED
    BY <2>1, <2>2, <2>3 DEF ListInit, ListTypeOK, Values
<1>2. LoadInv /\ RowsAnswer
  <2>1. \A c \in loads : c.n = 1 /\ c.filter = All /\ c.offset = 0
    BY DEF ListInit
  <2>2. loads # {}
    BY DEF ListInit
  <2>3. LoadInv
    <3>1. filter = All /\ offset = 0 /\ loadCount = 1
      BY DEF ListInit
    <3>2. QED
      BY <2>1, <3>1 DEF LoadInv
  <2>4. RowsAnswer
    BY <2>2 DEF RowsAnswer
  <2>5. QED
    BY <2>3, <2>4
<1>3. QED
  BY <1>1, <1>2 DEF ListInv

LEMMA RowsAreSome ==
    ASSUME NEW f, NEW o, NEW n
    PROVE  [filter |-> f, offset |-> o, count |-> n] # NoRows
<1> DEFINE r == [filter |-> f, offset |-> o, count |-> n]
<1>1. "filter" \in DOMAIN r
  OBVIOUS
<1>2. "filter" \notin DOMAIN NoRows
  BY DEF NoRows
<1>3. QED
  BY <1>1, <1>2

(* What a new load finds and leaves.                                       *)
LEMMA LoadStep ==
    ASSUME ListTypeOK, LoadInv, NEW f \in Values, NEW o \in Offsets,
           NEW stale \in BOOLEAN, Load(f, o, stale),
           ~stale => f = filter' /\ o = offset'
    PROVE  /\ loads' \subseteq Loads /\ loadCount' \in 0 .. MaxLoads
           /\ listLoading' \in BOOLEAN /\ listError' \in BOOLEAN
           /\ UNCHANGED <<listed, outdated>>
           /\ LoadInv' /\ RowsAnswer'
<1> DEFINE new == [n |-> loadCount + 1, filter |-> f, offset |-> o,
                   stale |-> stale]
<1>1. /\ loadCount \in Nat /\ loadCount + 1 \in 1 .. MaxLoads
      /\ loadCount' = loadCount + 1 /\ loads' = loads \cup {new}
      /\ listLoading' = TRUE /\ listError' = FALSE
      /\ UNCHANGED <<listed, outdated>>
  BY ListAssumption DEF Load, ListTypeOK
<1>2. new \in Loads
  BY <1>1 DEF Loads
<1>3. LoadInv'
  <2>1. ASSUME NEW c \in loads' PROVE
            /\ c.n <= loadCount'
            /\ c.n = loadCount' /\ ~c.stale
                   => c.filter = filter' /\ c.offset = offset'
    <3>1. CASE c \in loads
      <4>1. c.n <= loadCount /\ c.n \in Nat
        BY <3>1 DEF LoadInv, ListTypeOK, Loads
      <4>2. QED
        BY <1>1, <4>1
    <3>2. CASE c = new
      BY <1>1, <3>2
    <3>3. QED
      BY <1>1, <2>1, <3>1, <3>2
  <2>2. QED
    BY <2>1 DEF LoadInv
<1>4. RowsAnswer'
  BY <1>1 DEF RowsAnswer
<1>5. /\ loads' \subseteq Loads /\ loadCount' \in 0 .. MaxLoads
  BY <1>1, <1>2, ListAssumption DEF ListTypeOK
<1>6. listLoading' \in BOOLEAN /\ listError' \in BOOLEAN
  BY <1>1
<1>7. QED
  BY <1>1, <1>3, <1>4, <1>5, <1>6

LEMMA AskStep ==
    ASSUME ListInv, NEW f \in Values, NEW o \in Offsets, Ask(f, o),
           draft' \in Values, touched' \in BOOLEAN
    PROVE  ListInv'
<1>1. /\ filter' = f /\ offset' = o /\ Load(f, o, FALSE)
      /\ UNCHANGED <<list, acting>>
  BY DEF Ask
<1>2. ListTypeOK /\ LoadInv
  BY DEF ListInv
<1>3. /\ loads' \subseteq Loads /\ loadCount' \in 0 .. MaxLoads
      /\ listLoading' \in BOOLEAN /\ listError' \in BOOLEAN
      /\ UNCHANGED <<listed, outdated>>
      /\ LoadInv' /\ RowsAnswer'
  BY <1>1, <1>2, LoadStep
<1>4. ListTypeOK'
  BY <1>1, <1>2, <1>3 DEF ListTypeOK
<1>5. QED
  BY <1>3, <1>4 DEF ListInv

(* Whatever the answer and its order: the last load's rows are those that  *)
(* the controls ask for, and any other's leave a mark.                     *)
LEMMA LoadAnswersStep ==
    ASSUME ListInv, NEW c \in loads, LoadAnswers(c)
    PROVE  ListInv'
<1> USE DEF ListInv
<1>1. /\ c \in Loads /\ c.n <= loadCount
      /\ c.n = loadCount /\ ~c.stale => c.filter = filter /\ c.offset = offset
  BY DEF ListTypeOK, LoadInv
<1>2. /\ loads' = loads \ {c} /\ listLoading' = FALSE
      /\ UNCHANGED <<list, filter, offset, draft, touched, loadCount>>
  BY DEF LoadAnswers, queryVars
<1>3. /\ c.n \in 1 .. MaxLoads /\ c.filter \in Values /\ c.offset \in Offsets
      /\ c.stale \in BOOLEAN
  BY <1>1 DEF Loads
<1>4. acting' \in [Buttons -> Handlers \cup {Idle}]
  BY DEF LoadAnswers, ListTypeOK
<1>5. LoadInv'
  BY <1>2 DEF LoadInv
<1>6. ASSUME NEW count \in 0 .. MaxRows,
             listed' = [filter |-> c.filter, offset |-> c.offset,
                        count |-> count],
             outdated' = (c.stale \/ c.n < loadCount), UNCHANGED listError
      PROVE  ListTypeOK' /\ RowsAnswer'
  <2>1. listed' # NoRows
    BY <1>6, RowsAreSome
  <2>2. ListTypeOK'
    BY <1>2, <1>3, <1>4, <1>6 DEF ListTypeOK
  <2>3. ~outdated' => c.n = loadCount /\ ~c.stale
    <3>1. ~outdated' => ~(c.n < loadCount) /\ ~c.stale
      BY <1>6
    <3>2. ~(c.n < loadCount) => c.n = loadCount
      BY <1>1, <1>3 DEF ListTypeOK
    <3>3. QED
      BY <3>1, <3>2
  <2>4. RowsAnswer'
    BY <1>1, <1>2, <1>6, <2>1, <2>3 DEF RowsAnswer
  <2>5. QED
    BY <2>2, <2>4
<1>7. ASSUME listError' = TRUE, UNCHANGED <<listed, outdated>>
      PROVE  ListTypeOK' /\ RowsAnswer'
  <2>1. ListTypeOK'
    BY <1>2, <1>4, <1>7 DEF ListTypeOK
  <2>2. RowsAnswer'
    BY <1>7 DEF RowsAnswer
  <2>3. QED
    BY <2>1, <2>2
<1>8. QED
  BY <1>5, <1>6, <1>7 DEF LoadAnswers

LEMMA ListControls ==
    ASSUME ListInv,
           \/ Refresh \/ ApplyFilters \/ ClearFilters \/ PreviousPage \/ NextPage
           \/ \E f \in Values : ChooseStatus(f) \/ EditFilters(f)
    PROVE  ListInv'
<1>1. /\ ListTypeOK /\ LoadInv /\ RowsAnswer
      /\ filter \in Values /\ draft \in Values /\ touched \in BOOLEAN
      /\ offset \in Offsets /\ All \in Values /\ 0 \in Offsets
  BY ListAssumption DEF ListInv, ListTypeOK, Values, Offsets
<1>2. CASE Refresh
  BY <1>1, <1>2, AskStep DEF Refresh
<1>3. CASE ApplyFilters
  BY <1>1, <1>3, AskStep DEF ApplyFilters
<1>4. CASE ClearFilters
  BY <1>1, <1>4, AskStep DEF ClearFilters
<1>5. CASE PreviousPage
  <2>1. (IF offset < PageSize THEN 0 ELSE offset - PageSize) \in Offsets
    BY <1>1, ListAssumption DEF Offsets
  <2>2. QED
    BY <1>1, <1>5, <2>1, AskStep DEF PreviousPage
<1>6. CASE NextPage
  <2>1. listed.count \in 0 .. MaxRows
    BY <1>1, <1>6 DEF NextPage, Paged, ListTypeOK
  <2>2. offset + PageSize \in Offsets
    BY <1>1, <1>6, <2>1, ListAssumption DEF NextPage, Offsets
  <2>3. QED
    BY <1>1, <1>6, <2>2, AskStep DEF NextPage
<1>7. ASSUME NEW f \in Values, ChooseStatus(f) PROVE ListInv'
  BY <1>1, <1>7, AskStep DEF ChooseStatus
<1>8. ASSUME NEW f \in Values, EditFilters(f) PROVE ListInv'
  BY <1>1, <1>8
  DEF EditFilters, loadVars, ListInv, ListTypeOK, LoadInv, RowsAnswer
<1>9. QED
  BY <1>2, <1>3, <1>4, <1>5, <1>6, <1>7, <1>8

(* The handlers of the jobs page go on with what they were clicked with.   *)
LEMMA ListActs ==
    ASSUME ListInv, NEW b \in Buttons, Act(b) \/ ActReturns(b)
    PROVE  ListInv'
<1>1. ListTypeOK /\ LoadInv /\ RowsAnswer
  BY DEF ListInv
<1>2. CASE Act(b)
  <2>1. /\ UNCHANGED <<list, filter, offset, draft, touched, listed,
                       listLoading, listError, loads, loadCount, outdated>>
        /\ acting' = [acting EXCEPT ![b] = [at |-> "call", filter |-> filter,
                                            offset |-> offset, n |-> 0]]
    BY <1>2 DEF Act, queryVars, loadVars
  <2>2. [at |-> "call", filter |-> filter, offset |-> offset, n |-> 0]
            \in Handlers
    BY <1>1, ListAssumption DEF ListTypeOK, Handlers
  <2>3. ListTypeOK'
    BY <1>1, <2>1, <2>2 DEF ListTypeOK
  <2>4. LoadInv' /\ RowsAnswer'
    BY <1>1, <2>1 DEF LoadInv, RowsAnswer
  <2>5. QED
    BY <2>3, <2>4 DEF ListInv
<1>3. CASE ActReturns(b)
  <2> DEFINE h == acting[b]
  <2>1. h \in Handlers
    BY <1>1, <1>3 DEF ActReturns, ListTypeOK
  <2>2. /\ h.filter \in Values /\ h.offset \in Offsets
        /\ UNCHANGED <<list, filter, offset, draft, touched>>
    BY <1>3, <2>1 DEF ActReturns, Handlers, queryVars
  <2>3. ASSUME Load(h.filter, h.offset, h.filter # filter \/ h.offset # offset),
               acting' = [acting EXCEPT ![b].at = "load", ![b].n = loadCount']
        PROVE  ListInv'
    <3>1. /\ loads' \subseteq Loads /\ loadCount' \in 0 .. MaxLoads
          /\ listLoading' \in BOOLEAN /\ listError' \in BOOLEAN
          /\ UNCHANGED <<listed, outdated>>
          /\ LoadInv' /\ RowsAnswer'
      BY <1>1, <2>2, <2>3, LoadStep
    <3>2. [h EXCEPT !.at = "load", !.n = loadCount'] \in Handlers
      BY <2>1, <3>1 DEF Handlers
    <3>3. acting' = [acting EXCEPT ![b] = [h EXCEPT !.at = "load",
                                                    !.n = loadCount']]
      BY <1>1, <2>3 DEF ListTypeOK
    <3>4. acting' \in [Buttons -> Handlers \cup {Idle}]
      BY <1>1, <3>2, <3>3 DEF ListTypeOK
    <3>5. ListTypeOK'
      BY <1>1, <2>2, <3>1, <3>4 DEF ListTypeOK
    <3>6. QED
      BY <3>1, <3>5 DEF ListInv
  <2>4. ASSUME listError' = TRUE, acting' = [acting EXCEPT ![b] = Idle],
               UNCHANGED <<listed, listLoading, loads, loadCount, outdated>>
        PROVE  ListInv'
    <3>1. ListTypeOK'
      BY <1>1, <2>2, <2>4 DEF ListTypeOK
    <3>2. LoadInv' /\ RowsAnswer'
      BY <1>1, <2>2, <2>4 DEF LoadInv, RowsAnswer
    <3>3. QED
      BY <3>1, <3>2 DEF ListInv
  <2>5. QED
    BY <1>3, <2>3, <2>4 DEF ActReturns
<1>4. QED
  BY <1>2, <1>3

LEMMA ListStays == ASSUME ListInv, UNCHANGED listVars PROVE ListInv'
BY DEF listVars, queryVars, loadVars, ListInv, ListTypeOK, LoadInv, RowsAnswer

LEMMA ListKeeps == ASSUME ListInv, [ListNext]_listVars PROVE ListInv'
BY LoadAnswersStep, ListControls, ListActs, ListStays DEF ListNext

(* However fast the filters and the pages are changed, and in whatever     *)
(* order the answers come, the rows are those that the controls ask for,   *)
(* unless the last answer was overtaken or asked for what was shown before.*)
THEOREM RowsFollowTheControls == ListSpec => []RowsAnswer
<1>1. ListInv => RowsAnswer
  BY DEF ListInv
<1>2. QED
  BY <1>1, ListInitInv, ListKeeps, PTL DEF ListSpec

-----------------------------------------------------------------------------
(* The form of the Analyse page.                                           *)

(* The targets that can be chosen, and the one chosen, are of what the last*)
(* effect asked for.                                                       *)
TargetInv ==
    /\ targetName # Unset
         => targetName[1] = Scope(listedFor[1], listedFor[2])
    /\ ~targetsLoading => targets \subseteq TargetsOf(listedFor)

AnalyseInv == AnalyseTypeOK /\ TargetInv /\ TargetIsListed

LEMMA ScopeIsOne ==
    ASSUME NEW k \in Kinds, NEW ns \in Namespaces
    PROVE  Scope(k, ns) \in Scopes
BY DEF Scopes

LEMMA AnalyseInitInv == AnalyseInit => AnalyseInv
<1> SUFFICES ASSUME AnalyseInit PROVE AnalyseInv
  OBVIOUS
<1>1. targetsLoading \in BOOLEAN /\ running \in BOOLEAN /\ torn \in BOOLEAN
  BY DEF AnalyseInit
<1>2. /\ targetKind \in Kinds /\ namespace \in Namespaces
      /\ listedFor \in Kinds \X Namespaces
      /\ targetCalls \subseteq Kinds \X Namespaces
  BY AnalyseAssumption DEF AnalyseInit, Kinds
<1>3. AnalyseTypeOK
  BY <1>1, <1>2 DEF AnalyseInit, AnalyseTypeOK
<1>4. TargetInv /\ TargetIsListed
  BY DEF AnalyseInit, TargetInv, TargetIsListed
<1>5. QED
  BY <1>3, <1>4 DEF AnalyseInv

(* An effect drops the target before it asks for others.                   *)
LEMMA LoadTargetsStep ==
    ASSUME AnalyseInv, NEW k \in Kinds, NEW ns \in Namespaces,
           LoadTargets(k, ns), targetKind' \in Kinds, namespace' \in Namespaces
    PROVE  AnalyseInv'
<1>1. /\ listedFor' = <<k, ns>> /\ targetCalls' = targetCalls \cup {<<k, ns>>}
      /\ targetsLoading' = TRUE /\ targetName' = Unset
      /\ UNCHANGED <<namespaces, targets, running, submitted, torn>>
  BY DEF LoadTargets, runVars
<1>2. targetsLoading' \in BOOLEAN
  BY <1>1
<1>3. AnalyseTypeOK'
  BY <1>1, <1>2 DEF AnalyseInv, AnalyseTypeOK
<1>4. TargetInv' /\ TargetIsListed'
  BY <1>1 DEF AnalyseInv, TargetInv, TargetIsListed
<1>5. QED
  BY <1>3, <1>4 DEF AnalyseInv

LEMMA ChoicesStep ==
    ASSUME AnalyseInv,
           \/ \E k \in Kinds : ChooseKind(k)
           \/ \E ns \in Namespaces : ChooseNamespace(ns)
           \/ \E t \in targets : ChooseTarget(t)
           \/ NamespacesAnswer \/ TargetsEffect
    PROVE  AnalyseInv'
<1>1. targetKind \in Kinds /\ namespace \in Namespaces
  BY DEF AnalyseInv, AnalyseTypeOK
<1>2. ASSUME NEW k \in Kinds, ChooseKind(k) PROVE AnalyseInv'
  BY <1>1, <1>2, LoadTargetsStep DEF ChooseKind
<1>3. ASSUME NEW ns \in Namespaces, ChooseNamespace(ns) PROVE AnalyseInv'
  BY <1>1, <1>3, LoadTargetsStep DEF ChooseNamespace
<1>4. ASSUME NEW t \in targets, ChooseTarget(t) PROVE AnalyseInv'
  <2>1. /\ targetName' = t /\ ~targetsLoading
        /\ UNCHANGED <<targetKind, namespace, namespaces, targets,
                       targetsLoading, listedFor, targetCalls, running,
                       submitted, torn>>
    BY <1>4 DEF ChooseTarget, loadedVars, runVars
  <2>2. t \in Targets /\ t[1] = Scope(listedFor[1], listedFor[2])
    BY <2>1 DEF AnalyseInv, AnalyseTypeOK, TargetInv, TargetsOf
  <2>3. QED
    BY <2>1, <2>2 DEF AnalyseInv, AnalyseTypeOK, TargetInv, TargetIsListed
<1>5. CASE NamespacesAnswer
  <2>1. /\ namespaces' \subseteq Namespaces /\ namespace' \in Namespaces
        /\ UNCHANGED <<targetKind, targetName, targets, targetsLoading,
                       listedFor, targetCalls, running, submitted, torn>>
    BY <1>5, AnalyseAssumption DEF NamespacesAnswer, loadedVars, runVars
  <2>2. QED
    BY <2>1 DEF AnalyseInv, AnalyseTypeOK, TargetInv, TargetIsListed
<1>6. CASE TargetsEffect
  BY <1>1, <1>6, LoadTargetsStep DEF TargetsEffect
<1>7. QED
  BY <1>2, <1>3, <1>4, <1>5, <1>6

(* Only the answer to the last effect is taken.                            *)
LEMMA TargetsAnswerStep ==
    ASSUME AnalyseInv, NEW c \in targetCalls, TargetsAnswer(c)
    PROVE  AnalyseInv'
<1>1. /\ targetCalls' = targetCalls \ {c}
      /\ UNCHANGED <<targetKind, namespace, namespaces, listedFor, running,
                     submitted, torn>>
  BY DEF TargetsAnswer, runVars
<1>2. CASE c # listedFor
  <2>1. UNCHANGED <<targets, targetName, targetsLoading>>
    BY <1>2 DEF TargetsAnswer
  <2>2. QED
    BY <1>1, <2>1 DEF AnalyseInv, AnalyseTypeOK, TargetInv, TargetIsListed
<1>3. CASE c = listedFor
  <2>1. /\ targets' \subseteq TargetsOf(c) /\ targetsLoading' = FALSE
        /\ targetName' = Unset \/ targetName' \in targets'
    BY <1>3 DEF TargetsAnswer
  <2>2. \A t \in TargetsOf(c) : t \in Targets /\ t[1] = Scope(c[1], c[2])
    BY DEF TargetsOf
  <2>3. targetsLoading' \in BOOLEAN
    BY <2>1
  <2>4. AnalyseTypeOK'
    BY <1>1, <2>1, <2>2, <2>3 DEF AnalyseInv, AnalyseTypeOK
  <2>5. TargetInv'
    <3>1. targets' \subseteq TargetsOf(listedFor')
      BY <1>1, <1>3, <2>1 DEF TargetsOf
    <3>2. QED
      BY <1>1, <1>3, <2>1, <2>2, <3>1 DEF TargetInv
  <2>6. TargetIsListed'
    BY <1>1 DEF AnalyseInv, TargetIsListed
  <2>7. QED
    BY <2>4, <2>5, <2>6 DEF AnalyseInv
<1>4. QED
  BY <1>2, <1>3

LEMMA RunStep ==
    ASSUME AnalyseInv, Submit \/ RunEnds
    PROVE  AnalyseInv'
<1>1. UNCHANGED <<targetKind, namespace, targetName, namespaces, targets,
                  targetsLoading, listedFor, targetCalls>>
  BY DEF Submit, RunEnds, loadedVars
<1>2. TargetInv'
  BY <1>1 DEF AnalyseInv, TargetInv, TargetsOf
<1>3. CASE Submit
  <2>1. /\ targetName \in Targets
        /\ targetName[1] = Scope(listedFor[1], listedFor[2])
        /\ running' = TRUE
        /\ submitted' = [scope |-> Scope(targetKind, namespace),
                         target |-> targetName]
        /\ torn' = (listedFor # <<targetKind, namespace>>)
    BY <1>3 DEF Submit, AnalyseInv, AnalyseTypeOK, TargetInv
  <2>2. running' \in BOOLEAN /\ torn' \in BOOLEAN
    BY <2>1
  <2>3. submitted' \in [scope : Scopes, target : Targets]
    BY <2>1, ScopeIsOne DEF AnalyseInv, AnalyseTypeOK
  <2>4. AnalyseTypeOK'
    BY <1>1, <2>2, <2>3 DEF AnalyseInv, AnalyseTypeOK
  <2>5. ~torn' => listedFor = <<targetKind, namespace>>
    BY <2>1
  <2>6. TargetIsListed'
    BY <2>1, <2>5 DEF TargetIsListed
  <2>7. QED
    BY <1>2, <2>4, <2>6 DEF AnalyseInv
<1>4. CASE RunEnds
  <2>1. running' = FALSE /\ UNCHANGED <<submitted, torn>>
    BY <1>4 DEF RunEnds
  <2>2. running' \in BOOLEAN
    BY <2>1
  <2>3. QED
    BY <1>1, <1>2, <2>1, <2>2 DEF AnalyseInv, AnalyseTypeOK, TargetIsListed
<1>5. QED
  BY <1>3, <1>4

LEMMA AnalyseStays == ASSUME AnalyseInv, UNCHANGED analyseVars PROVE AnalyseInv'
BY DEF analyseVars, loadedVars, runVars, AnalyseInv, AnalyseTypeOK, TargetInv,
   TargetsOf, TargetIsListed

LEMMA AnalyseKeeps ==
    ASSUME AnalyseInv, [AnalyseNext]_analyseVars PROVE AnalyseInv'
BY ChoicesStep, TargetsAnswerStep, RunStep, AnalyseStays DEF AnalyseNext

(* In whatever order the lists of namespaces and targets come, a job is    *)
(* created for a target that was listed for what it is created with, unless*)
(* the form was sent between an answer and its effect.                     *)
THEOREM JobsAreForListedTargets == AnalyseSpec => []TargetIsListed
<1>1. AnalyseInv => TargetIsListed
  BY DEF AnalyseInv
<1>2. QED
  BY <1>1, AnalyseInitInv, AnalyseKeeps, PTL DEF AnalyseSpec

-----------------------------------------------------------------------------
(* The stages of a job.                                                    *)

LEMMA HasFirst ==
    ASSUME NEW S \in SUBSET Nat, S # {}
    PROVE  \E m \in S : \A k \in S : m <= k
<1>1. \E m \in S : \A k \in S : <<k, m>> \notin OpToRel(<, Nat)
  BY NatLessThanWellFounded, WFMin
<1>2. \A k, m \in S : <<k, m>> \notin OpToRel(<, Nat) => m <= k
  BY DEF OpToRel
<1>3. QED
  BY <1>1, <1>2

(* What the job has reached justifies.                                     *)
Justified(s) ==
    \/ s \in Queued .. reached
    \/ s = DoneStatus /\ outcome = "done"
    \/ s = FailedStatus

ShownInv ==
    /\ forwarded <= reached
    /\ Justified(shownStatus) /\ \A s \in polls : Justified(s)

EntryInv ==
    \A i \in 1 .. Len(activity) :
        \/ activity[i].kind = "stage" /\ activity[i].status <= reached
        \/ activity[i].kind = "done" /\ activity[i].status = DoneStatus
             /\ outcome = "done"
        \/ activity[i].kind = "failed" /\ activity[i].status = FailedStatus

(* While the job is in the model's stage, nothing but that stage follows   *)
(* its entry, and a live stream has nothing older left, until one has      *)
(* begun with that stage and has.                                          *)
Called == \E i \in 1 .. Len(activity) : activity[i].status = LlmCall

OrderInv ==
    reached = LlmCall /\ ~replayed =>
        /\ \A i, j \in 1 .. Len(activity) :
              i < j /\ activity[i].status = LlmCall /\ activity[j].kind = "stage"
                  => activity[j].status = LlmCall
        /\ stream = "live" /\ Called => LlmCall <= forwarded + 1

ProgressInv == ProgressTypeOK /\ ShownInv /\ EntryInv /\ OrderInv

Ranks == /\ Queued = 0 /\ LlmCall = 3 /\ Persisting = 4
         /\ DoneStatus = 5 /\ FailedStatus = 6

LEMMA RanksAre == Ranks
BY DEF Ranks, Queued, LlmCall, Persisting, DoneStatus, FailedStatus

LEMMA StatusesAre ==
    ASSUME ProgressTypeOK, NEW i \in 1 .. Len(activity)
    PROVE  activity[i].status \in 0 .. 6
<1>1. activity[i] \in Entries
  BY DEF ProgressTypeOK
<1>2. QED
  BY <1>1, RanksAre DEF Entries, JobStatuses, Ranks

LEMMA ProgressInitInv == ProgressInit => ProgressInv
<1> SUFFICES ASSUME ProgressInit PROVE ProgressInv
  OBVIOUS
<1>1. {creating, replayed} \subseteq BOOLEAN
  BY DEF ProgressInit
<1>2. activity \in Seq(Entries) /\ Len(activity) = 0
  BY DEF ProgressInit
<1>3. /\ reached = 0 /\ forwarded = 0 /\ shownStatus = 0 /\ polls = {}
      /\ runs \in 0 .. MaxRuns
  BY RanksAre, ProgressAssumption DEF ProgressInit, Ranks
<1>4. ProgressTypeOK
  BY <1>1, <1>2, <1>3, RanksAre
  DEF ProgressInit, ProgressTypeOK, JobStatuses, Ranks
<1>5. ShownInv
  BY <1>3, RanksAre DEF ShownInv, Justified, Ranks
<1>6. EntryInv /\ OrderInv
  BY <1>2 DEF EntryInv, OrderInv, Called
<1>7. QED
  BY <1>4, <1>5, <1>6 DEF ProgressInv

-----------------------------------------------------------------------------
(* What the trace becomes.                                                 *)
LEMMA AppendedIs ==
    ASSUME activity \in Seq(Entries), NEW e \in Entries
    PROVE  /\ Appended(e) \in Seq(Entries)
           /\ \A i \in 1 .. Len(Appended(e)) :
                 \/ i \in 1 .. Len(activity) /\ Appended(e)[i] = activity[i]
                 \/ /\ Appended(e)[i] = e
                    /\ \A k \in 1 .. Len(Appended(e)) : k <= i
<1>1. CASE Appended(e) = activity
  BY <1>1
<1>2. CASE Appended(e) = Append(activity, e)
  BY <1>2
<1>3. QED
  BY <1>1, <1>2 DEF Appended

LEMMA EndsStep ==
    ASSUME ProgressInv, NEW end \in {"done", "failed"}, EndsAs(end),
           end = "done" => outcome = "done",
           UNCHANGED <<creating, runs, jobVars, forwarded, replayed>>
    PROVE  ProgressInv'
<1> DEFINE e == [kind |-> end, status |-> shownStatus']
<1>1. /\ shownStatus' = IF end = "done" THEN DoneStatus ELSE FailedStatus
      /\ phase' = end /\ activity' = Appended(e)
      /\ stream' = "none" /\ polls' = {}
      /\ UNCHANGED <<creating, runs, reached, outcome, forwarded, replayed>>
  BY DEF EndsAs, jobVars
<1>2. e \in Entries /\ shownStatus' \in JobStatuses
  BY <1>1, RanksAre DEF Entries, JobStatuses, Ranks
<1>3. /\ activity' \in Seq(Entries)
      /\ \A i \in 1 .. Len(activity') :
            \/ i \in 1 .. Len(activity) /\ activity'[i] = activity[i]
            \/ activity'[i] = e
  BY <1>1, <1>2, AppendedIs DEF ProgressInv, ProgressTypeOK
<1>4. ProgressTypeOK'
  BY <1>1, <1>2, <1>3 DEF ProgressInv, ProgressTypeOK
<1>5. ShownInv'
  BY <1>1 DEF ProgressInv, ShownInv, Justified
<1>6. EntryInv'
  BY <1>1, <1>3 DEF ProgressInv, EntryInv
<1>7. OrderInv'
  <2>1. e.kind # "stage" /\ e.status # LlmCall
    BY <1>1, RanksAre DEF Ranks
  <2>2. Called' => Called
    BY <1>3, <2>1 DEF Called
  <2>3. \A i \in 1 .. Len(activity') :
            activity'[i].status = LlmCall \/ activity'[i].kind = "stage"
                => i \in 1 .. Len(activity) /\ activity'[i] = activity[i]
    BY <1>3, <2>1
  <2>4. QED
    BY <1>1, <2>2, <2>3 DEF ProgressInv, OrderInv
<1>8. QED
  BY <1>4, <1>5, <1>6, <1>7 DEF ProgressInv

LEMMA ShowsStep ==
    ASSUME ProgressInv, NEW s \in Queued .. reached, ShowsStage(s),
           stream' \in {"none", "subscribed", "live"},
           forwarded' \in Queued .. reached, replayed' \in BOOLEAN,
           reached = LlmCall /\ ~replayed' =>
               /\ ~replayed
               /\ Called => s = LlmCall
               /\ s = LlmCall => LlmCall <= forwarded' + 1,
           UNCHANGED <<creating, runs, jobVars>>
    PROVE  ProgressInv'
<1> DEFINE e == [kind |-> "stage", status |-> s]
<1>1. /\ shownStatus' = s /\ activity' = Appended(e)
      /\ UNCHANGED <<phase, polls, creating, runs, reached, outcome>>
  BY DEF ShowsStage, jobVars
<1>2. reached \in 0 .. 4 /\ s \in 0 .. reached /\ s \in JobStatuses
  BY RanksAre DEF ProgressInv, ProgressTypeOK, JobStatuses, Ranks
<1>3. e \in Entries
  BY <1>2 DEF Entries
<1>4. /\ activity' \in Seq(Entries)
      /\ \A i \in 1 .. Len(activity') :
            \/ i \in 1 .. Len(activity) /\ activity'[i] = activity[i]
            \/ /\ activity'[i] = e
               /\ \A k \in 1 .. Len(activity') : k <= i
  BY <1>1, <1>3, AppendedIs DEF ProgressInv, ProgressTypeOK
<1>5. ProgressTypeOK'
  <2>1. forwarded' \in Queued .. Persisting
    BY <1>2, RanksAre DEF Ranks
  <2>2. {creating, replayed}' \subseteq BOOLEAN
    BY <1>1 DEF ProgressInv, ProgressTypeOK
  <2>3. QED
    BY <1>1, <1>2, <1>4, <2>1, <2>2 DEF ProgressInv, ProgressTypeOK
<1>6. ShownInv'
  BY <1>1, <1>2, RanksAre DEF ProgressInv, ShownInv, Justified, Ranks
<1>7. EntryInv'
  <2>1. ASSUME NEW i \in 1 .. Len(activity') PROVE
            \/ activity'[i].kind = "stage" /\ activity'[i].status <= reached'
            \/ activity'[i].kind = "done" /\ activity'[i].status = DoneStatus
                 /\ outcome' = "done"
            \/ activity'[i].kind = "failed"
                 /\ activity'[i].status = FailedStatus
    <3>1. CASE i \in 1 .. Len(activity) /\ activity'[i] = activity[i]
      BY <1>1, <3>1 DEF ProgressInv, EntryInv
    <3>2. CASE activity'[i] = e
      BY <1>1, <1>2, <3>2
    <3>3. QED
      BY <1>4, <3>1, <3>2
  <2>2. QED
    BY <2>1 DEF EntryInv
<1>8. OrderInv'
  <2>1. SUFFICES ASSUME reached = LlmCall, ~replayed' PROVE
            /\ \A i, j \in 1 .. Len(activity') :
                  i < j /\ activity'[i].status = LlmCall
                        /\ activity'[j].kind = "stage"
                      => activity'[j].status = LlmCall
            /\ stream' = "live" /\ Called' => LlmCall <= forwarded' + 1
    BY <1>1 DEF OrderInv
  <2>2. /\ ~replayed /\ (Called => s = LlmCall)
        /\ s = LlmCall => LlmCall <= forwarded' + 1
    BY <2>1
  <2>3. ASSUME NEW i \in 1 .. Len(activity'), NEW j \in 1 .. Len(activity'),
               i < j, activity'[i].status = LlmCall, activity'[j].kind = "stage"
        PROVE  activity'[j].status = LlmCall
    <3>1. i \in 1 .. Len(activity) /\ activity'[i] = activity[i]
      BY <1>4, <2>3
    <3>2. CASE activity'[j] = e
      BY <2>2, <2>3, <3>1, <3>2 DEF Called
    <3>3. CASE j \in 1 .. Len(activity) /\ activity'[j] = activity[j]
      BY <2>1, <2>2, <2>3, <3>1, <3>3 DEF ProgressInv, OrderInv
    <3>4. QED
      BY <1>4, <3>2, <3>3
  <2>4. Called' => Called \/ s = LlmCall
    BY <1>4 DEF Called
  <2>5. QED
    BY <2>2, <2>3, <2>4
<1>9. QED
  BY <1>5, <1>6, <1>7, <1>8 DEF ProgressInv

-----------------------------------------------------------------------------
LEMMA HookStep ==
    ASSUME ProgressInv, StartDiagnosis \/ RunAnother
    PROVE  ProgressInv'
<1>1. /\ shownStatus' = 0 /\ polls' = {} /\ forwarded' = 0 /\ stream' = "none"
      /\ replayed' = FALSE /\ activity' = <<>>
      /\ phase' \in {"idle", "running"}
      /\ outcome' \in {outcome, "running"}
      /\ reached' \in {0, reached}
  BY RanksAre DEF StartDiagnosis, RunAnother, ResetHook, jobVars, Ranks
<1>2. creating' \in BOOLEAN /\ runs' \in 0 .. MaxRuns
  <2>1. creating' \in BOOLEAN
    BY DEF StartDiagnosis, RunAnother, ProgressInv, ProgressTypeOK
  <2>2. runs' \in 0 .. MaxRuns
    BY ProgressAssumption
    DEF StartDiagnosis, RunAnother, ProgressInv, ProgressTypeOK
  <2>3. QED
    BY <2>1, <2>2
<1>3. activity' \in Seq(Entries) /\ Len(activity') = 0
  BY <1>1
<1>4. {creating, replayed}' \subseteq BOOLEAN
  BY <1>1, <1>2
<1>5. ProgressTypeOK'
  BY <1>1, <1>2, <1>3, <1>4, RanksAre
  DEF ProgressInv, ProgressTypeOK, JobStatuses, Ranks
<1>6. ShownInv'
  BY <1>1, RanksAre DEF ProgressInv, ProgressTypeOK, ShownInv, Justified, Ranks
<1>7. EntryInv' /\ OrderInv'
  BY <1>3 DEF EntryInv, OrderInv, Called
<1>8. QED
  BY <1>5, <1>6, <1>7 DEF ProgressInv

LEMMA JobStep ==
    ASSUME ProgressInv, JobGoesOn
    PROVE  ProgressInv'
<1>1. /\ UNCHANGED <<phase, shownStatus, activity, polls, creating, runs,
                     stream, forwarded, replayed>>
      /\ outcome = "running"
      /\ outcome' \in {"running", "done", "failed"}
      /\ reached' \in {reached, reached + 1} /\ reached' \in 0 .. 4
      /\ reached \in 0 .. 4
  BY RanksAre
  DEF JobGoesOn, hookVars, ProgressInv, ProgressTypeOK, Ranks
<1>2. ProgressTypeOK'
  BY <1>1, RanksAre DEF ProgressInv, ProgressTypeOK, Ranks
<1>3. \A s : Justified(s) => Justified(s)'
  BY <1>1, RanksAre DEF Justified, Ranks
<1>4. ShownInv'
  BY <1>1, <1>3, RanksAre DEF ProgressInv, ProgressTypeOK, ShownInv, Ranks
<1>5. EntryInv'
  <2>1. \A i \in 1 .. Len(activity) : activity[i].status \in 0 .. 6
    BY StatusesAre DEF ProgressInv
  <2>2. reached <= reached'
    BY <1>1
  <2>3. \A i \in 1 .. Len(activity) :
            activity[i].status <= reached => activity[i].status <= reached'
    BY <1>1, <2>1, <2>2
  <2>4. QED
    BY <1>1, <2>3 DEF ProgressInv, EntryInv
<1>6. OrderInv'
  <2>1. CASE reached = LlmCall
    BY <1>1, <2>1 DEF ProgressInv, OrderInv, Called
  <2>2. CASE reached # LlmCall /\ reached' = LlmCall
    <3>1. reached < LlmCall
      BY <1>1, <2>2, RanksAre DEF Ranks
    <3>2. \A i \in 1 .. Len(activity) : activity[i].status # LlmCall
      BY <1>1, <3>1, RanksAre DEF ProgressInv, EntryInv, Ranks
    <3>3. QED
      BY <1>1, <3>2 DEF OrderInv, Called
  <2>3. QED
    BY <2>1, <2>2 DEF OrderInv
<1>7. QED
  BY <1>2, <1>4, <1>5, <1>6 DEF ProgressInv

LEMMA StreamStep ==
    ASSUME ProgressInv, CreateReturns \/ Resubscribes \/ StreamBreaks
    PROVE  ProgressInv'
<1>1. /\ UNCHANGED <<shownStatus, activity, polls, runs, reached, outcome,
                     replayed>>
      /\ phase' \in {phase, "failed", "reconnecting"}
      /\ stream' \in {"subscribed", "none"} \/ UNCHANGED stream
      /\ stream' = "live" => UNCHANGED forwarded
      /\ creating' \in BOOLEAN
  BY DEF CreateReturns, Resubscribes, Subscribes, StreamBreaks, hookVars, jobVars,
     ProgressInv, ProgressTypeOK
<1>2. forwarded' \in 0 .. reached
  BY RanksAre DEF CreateReturns, Resubscribes, Subscribes, StreamBreaks,
     ProgressInv,
     ProgressTypeOK, ShownInv, Ranks
<1>3. ProgressTypeOK'
  <2>1. {creating, replayed}' \subseteq BOOLEAN
    BY <1>1 DEF ProgressInv, ProgressTypeOK
  <2>2. forwarded' \in Queued .. Persisting
    BY <1>2, RanksAre DEF ProgressInv, ProgressTypeOK, Ranks
  <2>3. QED
    BY <1>1, <2>1, <2>2 DEF ProgressInv, ProgressTypeOK
<1>4. ShownInv'
  BY <1>1, <1>2 DEF ProgressInv, ProgressTypeOK, ShownInv, Justified
<1>5. EntryInv' /\ OrderInv'
  BY <1>1 DEF ProgressInv, EntryInv, OrderInv, Called
<1>6. QED
  BY <1>3, <1>4, <1>5 DEF ProgressInv

LEMMA StreamSends ==
    ASSUME ProgressInv, Replays \/ Forwards
    PROVE  ProgressInv'
<1>1. /\ reached \in 0 .. 4 /\ forwarded \in 0 .. reached
      /\ outcome \in {"running", "done", "failed"} /\ replayed \in BOOLEAN
  BY RanksAre DEF ProgressInv, ProgressTypeOK, ShownInv, Ranks
<1>2. CASE Replays /\ outcome = "running"
  <2>1. /\ ShowsStage(reached) /\ stream' = "live"
        /\ replayed' = (replayed \/ (/\ reached = LlmCall
                                     /\ forwarded + 1 < LlmCall))
        /\ UNCHANGED <<creating, runs, jobVars, forwarded>>
    BY <1>2 DEF Replays
  <2>2. replayed' \in BOOLEAN
    BY <2>1
  <2>3. reached = LlmCall /\ ~replayed'
            => ~replayed /\ ~(forwarded + 1 < LlmCall)
    BY <2>1
  <2>4. ~(forwarded + 1 < LlmCall) => LlmCall <= forwarded' + 1
    BY <1>1, <2>1, RanksAre DEF Ranks
  <2>5. QED
    BY <1>1, <2>1, <2>2, <2>3, <2>4, RanksAre, ShowsStep DEF Ranks
<1>3. CASE Replays /\ outcome # "running"
  BY <1>1, <1>3, EndsStep DEF Replays
<1>4. CASE Forwards /\ forwarded < reached /\ forwarded' = forwarded + 1
           /\ ShowsStage(forwarded') /\ UNCHANGED stream
  <2>1. /\ stream = "live" /\ UNCHANGED <<creating, runs, jobVars, replayed>>
        /\ forwarded' \in 0 .. reached
    BY <1>1, <1>4 DEF Forwards
  <2>2. reached = LlmCall /\ ~replayed' =>
            /\ ~replayed
            /\ Called => forwarded' = LlmCall
            /\ forwarded' = LlmCall => LlmCall <= forwarded' + 1
    BY <1>1, <1>4, <2>1, RanksAre DEF ProgressInv, OrderInv, Ranks
  <2>3. QED
    BY <1>1, <1>4, <2>1, <2>2, RanksAre, ShowsStep DEF Ranks
<1>5. CASE Forwards /\ outcome # "running" /\ EndsAs(outcome)
           /\ UNCHANGED forwarded
  BY <1>1, <1>5, EndsStep DEF Forwards
<1>6. QED
  BY <1>2, <1>3, <1>4, <1>5 DEF Forwards

LEMMA PollStep ==
    ASSUME ProgressInv, Poll \/ \E s \in polls : PollAnswers(s)
    PROVE  ProgressInv'
<1>1. CASE Poll
  <2>1. /\ UNCHANGED <<phase, shownStatus, activity, creating, runs, reached,
                       outcome, stream, forwarded, replayed>>
        /\ polls' = polls \cup {CASE outcome = "running" -> reached
                                  [] outcome = "done" -> DoneStatus
                                  [] OTHER -> FailedStatus}
    BY <1>1 DEF Poll, jobVars
  <2>2. /\ reached \in 0 .. 4
        /\ outcome \in {"running", "done", "failed"}
    BY RanksAre DEF ProgressInv, ProgressTypeOK, Ranks
  <2>3. polls' \subseteq JobStatuses /\ \A s \in polls' : Justified(s)
    BY <2>1, <2>2, RanksAre
    DEF ProgressInv, ProgressTypeOK, ShownInv, Justified, JobStatuses, Ranks
  <2>4. ProgressTypeOK'
    BY <2>1, <2>3 DEF ProgressInv, ProgressTypeOK
  <2>5. ShownInv'
    BY <2>1, <2>3 DEF ProgressInv, ShownInv, Justified
  <2>6. EntryInv' /\ OrderInv'
    BY <2>1 DEF ProgressInv, EntryInv, OrderInv, Called
  <2>7. QED
    BY <2>4, <2>5, <2>6 DEF ProgressInv
<1>2. ASSUME NEW s \in polls, PollAnswers(s) PROVE ProgressInv'
  <2>1. /\ UNCHANGED <<creating, runs, jobVars, forwarded, replayed>>
        /\ s \in JobStatuses /\ Justified(s)
    BY <1>2 DEF PollAnswers, ProgressInv, ProgressTypeOK, ShownInv
  <2>2. CASE EndsAs("failed")
    BY <2>1, <2>2, EndsStep
  <2>3. CASE s = DoneStatus /\ EndsAs("done")
    <3>1. outcome = "done"
      BY <2>1, <2>3, RanksAre DEF Justified, Ranks, ProgressInv, ProgressTypeOK
    <3>2. QED
      BY <2>1, <2>3, <3>1, EndsStep
  <2>4. CASE shownStatus' = s /\ polls' = polls \ {s}
             /\ UNCHANGED <<phase, activity, stream>>
    <3>1. ProgressTypeOK'
      BY <2>1, <2>4 DEF jobVars, ProgressInv, ProgressTypeOK
    <3>2. ShownInv'
      BY <2>1, <2>4 DEF jobVars, ProgressInv, ShownInv, Justified
    <3>3. EntryInv' /\ OrderInv'
      BY <2>1, <2>4 DEF jobVars, ProgressInv, EntryInv, OrderInv, Called
    <3>4. QED
      BY <3>1, <3>2, <3>3 DEF ProgressInv
  <2>5. QED
    BY <1>2, <2>2, <2>3, <2>4 DEF PollAnswers
<1>3. QED
  BY <1>1, <1>2

LEMMA ProgressStays ==
    ASSUME ProgressInv, UNCHANGED progressVars PROVE ProgressInv'
BY DEF progressVars, hookVars, jobVars, ProgressInv, ProgressTypeOK, ShownInv,
   Justified, EntryInv, OrderInv, Called

LEMMA ProgressKeeps ==
    ASSUME ProgressInv, [ProgressNext]_progressVars PROVE ProgressInv'
BY HookStep, JobStep, StreamStep, StreamSends, PollStep, ProgressStays
DEF ProgressNext

-----------------------------------------------------------------------------
(* The first entry after the model's call tells that it has answered.      *)
LEMMA TraceFollows ==
    ASSUME ProgressInv, TraceSays = "received"
    PROVE  LlmCall < reached \/ outcome = "done" \/ replayed
<1> DEFINE calls == {i \in 1 .. Len(activity) : activity[i].status = LlmCall}
           First(S) == CHOOSE i \in S : \A j \in S : i <= j
           later == {j \in 1 .. Len(activity) :
                        j > First(calls) /\ activity[j].status # LlmCall}
<1>1. /\ calls # {} /\ later # {}
      /\ activity[First(later)].kind # "failed"
  BY DEF TraceSays
<1>2. /\ \A i \in 1 .. Len(activity) : activity[i].status \in 0 .. 6
      /\ reached \in 0 .. 4
  BY StatusesAre, RanksAre DEF ProgressInv, ProgressTypeOK, Ranks
<1>3. \A S \in SUBSET Nat : S # {} => First(S) \in S
  <2>1. ASSUME NEW S \in SUBSET Nat, S # {} PROVE First(S) \in S
    <3>1. \E i \in S : \A j \in S : i <= j
      BY <2>1, HasFirst
    <3>2. QED
      BY <3>1
  <2>2. QED
    BY <2>1
<1>4. First(calls) \in calls /\ First(later) \in later
  <2>1. calls \in SUBSET Nat /\ later \in SUBSET Nat
    OBVIOUS
  <2>2. QED
    BY <1>1, <1>3, <2>1
<1>5. PICK i \in 1 .. Len(activity) : activity[i].status = LlmCall
                                      /\ i = First(calls)
  BY <1>4
<1>6. PICK j \in 1 .. Len(activity) :
          /\ j > i /\ activity[j].status # LlmCall
          /\ activity[j].kind # "failed"
  BY <1>1, <1>4, <1>5
<1>7. activity[i].kind = "stage"
  <2>1. activity[i].status # DoneStatus /\ activity[i].status # FailedStatus
    BY <1>5, RanksAre DEF Ranks
  <2>2. QED
    BY <2>1 DEF ProgressInv, EntryInv
<1>8. CASE activity[j].kind = "stage" /\ ~replayed
  <2>1. LlmCall <= reached
    BY <1>5, <1>7 DEF ProgressInv, EntryInv
  <2>2. reached # LlmCall
    BY <1>5, <1>6, <1>8 DEF ProgressInv, OrderInv
  <2>3. QED
    BY <1>2, <2>1, <2>2, RanksAre DEF Ranks
<1>9. CASE activity[j].kind = "done"
  BY <1>6, <1>9 DEF ProgressInv, EntryInv
<1>10. QED
  BY <1>6, <1>8, <1>9 DEF ProgressInv, EntryInv

LEMMA ProgressIsRealFollows == ASSUME ProgressInv PROVE ProgressIsReal
<1>1. \A s \in Stages : Ticked(s) => s < reached \/ outcome = "done"
  BY RanksAre
  DEF Ticked, Stages, ProgressInv, ProgressTypeOK, ShownInv, Justified, Ranks
<1>2. QED
  BY <1>1, TraceFollows DEF ProgressIsReal

(* However often the stream breaks and the polls overlap, a stage is only  *)
(* shown as done, and the model's answer as received, when the job is past *)
(* it.                                                                     *)
THEOREM ProgressShownIsReal == ProgressSpec => []ProgressIsReal
BY ProgressInitInv, ProgressKeeps, ProgressIsRealFollows, PTL DEF ProgressSpec
================================================================================
