------------------------------- MODULE ListPage -------------------------------
(***************************************************************************)
(* The two lists of the dashboard: jobs (frontend/src/app/jobs/page.tsx)   *)
(* with its filter and its buttons that act on the queue, and reports      *)
(* (app/reports/page.tsx) with a form of filters.                          *)
(*                                                                         *)
(* Every change of the filter or of the offset is a new load.  Answers are *)
(* taken in any order, whatever the page asks for by then: load has no     *)
(* guard against an overtaken answer.                                      *)
(***************************************************************************)
EXTENDS Naturals

CONSTANTS Filters,      \* what the list can be filtered by; "all" besides
          PageSize,
          MaxRows,      \* bound: rows that match
          MaxLoads      \* bound: loads

All == "all"

ASSUME ListAssumption ==
    /\ All \notin Filters
    /\ {PageSize, MaxLoads} \subseteq Nat \ {0} /\ MaxRows \in Nat

VARIABLES list,         \* which of the two pages
          filter, offset,        \* what load depends on
          draft, touched,        \* the form, and whether it is another
                                 \* object than the applied filters
          listed,       \* data: the last answer, and what it was asked for
          listLoading, listError,
          loads, loadCount,      \* the loads on the way, and how many began
          acting,       \* onClearQueue and onCancelActive, with the load of
                        \* the render that they were clicked in
          outdated      \* history: the last answer was overtaken, or asked
                        \* for what an older render showed

queryVars == <<filter, offset, draft, touched>>
loadVars == <<listed, listLoading, listError, loads, loadCount, outdated>>
listVars == <<list, queryVars, loadVars, acting>>

NoRows == <<>>
Idle == <<>>
Values == Filters \cup {All}
Buttons == {"clear", "cancel"}
Offsets == 0 .. MaxRows
Loads == [n : 1 .. MaxLoads, filter : Values, offset : Offsets, stale : BOOLEAN]
Handlers == [at : {"call", "load"}, filter : Values, offset : Offsets,
             n : 0 .. MaxLoads]

ListTypeOK ==
    /\ list \in {"jobs", "reports"}
    /\ filter \in Values /\ draft \in Values /\ touched \in BOOLEAN
    /\ offset \in Offsets
    /\ listed \in [filter : Values, offset : Offsets, count : 0 .. MaxRows]
                     \cup {NoRows}
    /\ listLoading \in BOOLEAN /\ listError \in BOOLEAN /\ outdated \in BOOLEAN
    /\ loads \subseteq Loads /\ loadCount \in 0 .. MaxLoads
    /\ acting \in [Buttons -> Handlers \cup {Idle}]

(* The page is mounted and its effect has begun the first load.            *)
ListInit ==
    /\ list \in {"jobs", "reports"}
    /\ filter = All /\ offset = 0 /\ draft = All /\ touched = FALSE
    /\ listed = NoRows /\ listLoading = TRUE /\ listError = FALSE
    /\ loads = {[n |-> 1, filter |-> All, offset |-> 0, stale |-> FALSE]}
    /\ loadCount = 1
    /\ acting = [b \in Buttons |-> Idle]
    /\ outdated = FALSE

-----------------------------------------------------------------------------
(* load.                                                                   *)

Load(f, o, stale) ==
    /\ loadCount < MaxLoads
    /\ loadCount' = loadCount + 1
    /\ loads' = loads \cup {[n |-> loadCount + 1, filter |-> f, offset |-> o,
                             stale |-> stale]}
    /\ listLoading' = TRUE /\ listError' = FALSE
    /\ UNCHANGED <<listed, outdated>>

(* A change of what load depends on renders the page, and its effect loads.*)
Ask(f, o) ==
    /\ filter' = f /\ offset' = o
    /\ Load(f, o, FALSE)
    /\ UNCHANGED <<list, acting>>

LoadAnswers(c) ==
    /\ c \in loads
    /\ loads' = loads \ {c}
    /\ \/ /\ \E count \in 0 .. MaxRows :
                listed' = [filter |-> c.filter, offset |-> c.offset,
                           count |-> count]
          /\ outdated' = (c.stale \/ c.n < loadCount)
          /\ UNCHANGED listError
       \/ listError' = TRUE /\ UNCHANGED <<listed, outdated>>
    /\ listLoading' = FALSE
    /\ acting' = [b \in Buttons |->
           IF acting[b] # Idle /\ acting[b].n = c.n THEN Idle ELSE acting[b]]
    /\ UNCHANGED <<list, queryVars, loadCount>>

-----------------------------------------------------------------------------
(* What the user can do.                                                   *)

(* Refresh, and the retry of ErrorState.                                   *)
Refresh ==
    /\ ~listLoading \/ listError
    /\ Ask(filter, offset)
    /\ UNCHANGED <<draft, touched>>

(* The jobs page filters at once.                                          *)
ChooseStatus(f) ==
    /\ list = "jobs" /\ f # filter
    /\ Ask(f, 0)
    /\ UNCHANGED <<draft, touched>>

EditFilters(f) ==
    /\ list = "reports"
    /\ draft' = f /\ touched' = TRUE
    /\ UNCHANGED <<list, filter, offset, loadVars, acting>>

(* Nothing is loaded if neither the object of filters nor the offset is    *)
(* another one.                                                            *)
ApplyFilters ==
    /\ list = "reports" /\ (touched \/ offset # 0)
    /\ Ask(draft, 0)
    /\ touched' = FALSE
    /\ UNCHANGED draft

ClearFilters ==
    /\ list = "reports" /\ filter # All
    /\ Ask(All, 0)
    /\ draft' = All /\ touched' = FALSE

(* The table and its buttons; an empty page has none, nor has an error.    *)
Paged == ~listError /\ listed # NoRows /\ listed.offset < listed.count

PreviousPage ==
    /\ Paged /\ ~listLoading /\ offset # 0
    /\ Ask(filter, IF offset < PageSize THEN 0 ELSE offset - PageSize)
    /\ UNCHANGED <<draft, touched>>

(* Mutant: load does not depend on the offset. *)
NextPageUnloaded ==
    /\ Paged /\ ~listLoading /\ offset + PageSize < listed.count
    /\ offset' = offset + PageSize
    /\ UNCHANGED <<list, filter, draft, touched, loadVars, acting>>

(* Mutant: Next is enabled on the last page. *)
NextPageBeyond ==
    /\ Paged /\ ~listLoading
    /\ Ask(filter, offset + PageSize)
    /\ UNCHANGED <<draft, touched>>

NextPage ==
    /\ Paged /\ ~listLoading /\ offset + PageSize < listed.count
    /\ Ask(filter, offset + PageSize)
    /\ UNCHANGED <<draft, touched>>

(* Clear queue and Cancel active: the handler goes on, after its call, with*)
(* the load of the render that it was clicked in.                          *)
Act(b) ==
    /\ list = "jobs" /\ acting[b] = Idle
    /\ acting' = [acting EXCEPT ![b] = [at |-> "call", filter |-> filter,
                                        offset |-> offset, n |-> 0]]
    /\ UNCHANGED <<list, queryVars, loadVars>>

ActReturns(b) ==
    /\ acting[b] # Idle /\ acting[b].at = "call"
    /\ LET h == acting[b] IN
       \/ /\ Load(h.filter, h.offset, h.filter # filter \/ h.offset # offset)
          /\ acting' = [acting EXCEPT ![b].at = "load", ![b].n = loadCount']
       \/ /\ listError' = TRUE
          /\ acting' = [acting EXCEPT ![b] = Idle]
          /\ UNCHANGED <<listed, listLoading, loads, loadCount, outdated>>
    /\ UNCHANGED <<list, queryVars>>

ListNext ==
    \/ \E c \in loads : LoadAnswers(c)
    \/ Refresh \/ ApplyFilters \/ ClearFilters \/ PreviousPage \/ NextPage
    \/ \E f \in Values : ChooseStatus(f) \/ EditFilters(f)
    \/ \E b \in Buttons : Act(b) \/ ActReturns(b)

ListSpec == ListInit /\ [][ListNext]_listVars

-----------------------------------------------------------------------------
(* When no load is on the way and no error is shown, the rows answer the   *)
(* filter and the page that the controls show, and the page is not left    *)
(* loading; however fast the controls were used and whatever failed before,*)
(* unless the answer taken last had been overtaken by another load, or was *)
(* one of a handler that was begun under another filter or page.           *)
RowsAnswer ==
    loads = {} /\ ~listError /\ ~outdated =>
        /\ listed # NoRows /\ listed.filter = filter /\ listed.offset = offset
        /\ ~listLoading
=============================================================================
