------------------------------ MODULE MCConsole ------------------------------
(***************************************************************************)
(* The console and the services behind it, in one run.  The user has one   *)
(* page open.  The parts behind different pages share no state but the     *)
(* configuration of llm-svc, which the settings page rewrites while the    *)
(* analyses read it: these two act together.  In a behaviour of any other  *)
(* page only the part behind it moves, so the run's states are the sum of  *)
(* theirs, not the product.                                                *)
(***************************************************************************)
EXTENDS ErrorWorkspace, SettingsPage, ListPage, AnalysePage,
        DiagnosisProgress, DemoWorkload, RateLimiter

MCResourceOf == [s \in Scenarios |-> "deployment"]

VARIABLE page           \* which part moves; it stays

consoleVars == <<page, workspaceVars, llmVars, pageVars, listVars, analyseVars,
                 progressVars, demoVars, limiterVars>>

(* The list is that of the open page.  Where the filter of the queue does  *)
(* not matter, it is the default one.                                      *)
ConsoleInit ==
    /\ page \in {"errors", "analyses", "settings", "jobs", "reports", "analyse",
                 "progress", "scenarios", "gateway"}
    /\ WorkspaceInit /\ LlmInit /\ PageInit /\ ListInit /\ AnalyseInit
    /\ ProgressInit /\ DemoInit /\ LimiterInit
    /\ list = IF page = "reports" THEN "reports" ELSE "jobs"
    /\ page = "errors" \/ queueFilter = "active"

(* In each step, the parts behind the other pages stand still.             *)

ErrorsStep ==
    /\ page = "errors"
    /\ UNCHANGED <<page, llmVars, pageVars, listVars, analyseVars, progressVars,
                   demoVars, limiterVars>>
    /\ WorkspaceNext

(* The analyses go on while the user has the settings page open; on a page *)
(* of their own, the configuration is changed by any client of the API.    *)
AnalysesStep ==
    /\ page \in {"analyses", "settings"}
    /\ UNCHANGED <<page, workspaceVars, pageVars, listVars, analyseVars,
                   progressVars, demoVars, limiterVars>>
    /\ AnalysesNext

ConfigureStep ==
    /\ page = "analyses"
    /\ UNCHANGED <<page, workspaceVars, llmStatus, formVars, busy, request,
                   reply, behind, listVars, analyseVars, progressVars, demoVars,
                   limiterVars>>
    /\ Configure
    /\ mixed' = Marked("stored", Mixes(config'))

SettingsStep ==
    /\ page = "settings"
    /\ UNCHANGED <<page, workspaceVars, analysisVars, listVars, analyseVars,
                   progressVars, demoVars, limiterVars>>
    /\ SettingsNext

ListStep ==
    /\ page \in {"jobs", "reports"}
    /\ UNCHANGED <<page, workspaceVars, llmVars, pageVars, analyseVars,
                   progressVars, demoVars, limiterVars>>
    /\ ListNext

AnalyseStep ==
    /\ page = "analyse"
    /\ UNCHANGED <<page, workspaceVars, llmVars, pageVars, listVars,
                   progressVars, demoVars, limiterVars>>
    /\ AnalyseNext

ProgressStep ==
    /\ page = "progress"
    /\ UNCHANGED <<page, workspaceVars, llmVars, pageVars, listVars,
                   analyseVars, demoVars, limiterVars>>
    /\ ProgressNext

DemoStep ==
    /\ page = "scenarios"
    /\ UNCHANGED <<page, workspaceVars, llmVars, pageVars, listVars,
                   analyseVars, progressVars, limiterVars>>
    /\ DemoNext

GatewayStep ==
    /\ page = "gateway"
    /\ UNCHANGED <<page, workspaceVars, llmVars, pageVars, listVars,
                   analyseVars, progressVars, demoVars>>
    /\ LimiterNext

ConsoleNext ==
    \/ ErrorsStep \/ AnalysesStep \/ ConfigureStep \/ SettingsStep \/ ListStep
    \/ AnalyseStep \/ ProgressStep \/ DemoStep \/ GatewayStep

ConsoleSpec == ConsoleInit /\ [][ConsoleNext]_consoleVars

(* Bound of the run: while the settings page is open, one analysis is at   *)
(* work, which began with the first configuration; the cache is out of     *)
(* order, and no other tab saves meanwhile.                                *)
OneAtWork ==
    page = "settings" /\ analysis # [a \in Analyses |-> "unused"] =>
        /\ \A a \in Analyses \ {CHOOSE a \in Analyses : TRUE} :
              analysis[a] = "unused"
        /\ \A a \in Analyses : using[a] \in {NoReport, Fallback}
        /\ ~behind /\ client \in {"none", "pinging", "disabled"}
        /\ client = "none" => \A a \in Analyses : analysis[a] # "ended"

(* Every variable of the part behind the open page stays within the values *)
(* that its code gives it; the others have their initial values.           *)
ConsoleTypeOK ==
    CASE page = "errors" -> WorkspaceTypeOK
      [] page = "analyses" -> LlmTypeOK
      [] page = "settings" -> SettingsTypeOK /\ LlmTypeOK
      [] page \in {"jobs", "reports"} -> ListTypeOK
      [] page = "analyse" -> AnalyseTypeOK
      [] page = "progress" -> ProgressTypeOK
      [] page = "scenarios" -> DemoTypeOK
      [] page = "gateway" -> LimiterTypeOK
=============================================================================
