---------------------------- MODULE ConsoleProofs ----------------------------
(***************************************************************************)
(* Theorems about the console and the services behind it (MCConsole),      *)
(* whichever page is open and for every value of the constants: the        *)
(* invariants of its parts hold together, also where two of them share the *)
(* configuration of llm-svc.                                               *)
(***************************************************************************)
EXTENDS MCConsole, SettingsProofs, PageProofs, ServiceProofs

Pages == {"errors", "analyses", "settings", "jobs", "reports", "analyse",
          "progress", "scenarios", "gateway"}

PartsInv ==
    /\ WorkspaceInv /\ ListInv /\ AnalyseInv /\ ProgressInv /\ DemoInv
    /\ LimiterInv

(* The configuration.  The settings page acts only while it is open.       *)
ConfigInv ==
    /\ LlmInv /\ KeysBelong
    /\ page = "settings" => SettingsInv
    /\ page # "settings" => busy = "loading" /\ OverrideBelongs

ConsoleInv == page \in Pages /\ PartsInv /\ ConfigInv

LEMMA ConsoleInitInv == ConsoleInit => ConsoleInv
<1> SUFFICES ASSUME ConsoleInit PROVE ConsoleInv
  OBVIOUS
<1>1. PartsInv
  BY WorkspaceInitInv, ListInitInv, AnalyseInitInv, ProgressInitInv,
     DemoInitInv, LimiterInitInv DEF ConsoleInit, PartsInv
<1>2. LlmInv /\ SettingsInv
  BY LlmInitInv, SettingsInitInv DEF ConsoleInit
<1>3. OverrideBelongs
  BY DEF ConsoleInit, LlmInit, OverrideBelongs, Mixes
<1>4. ConfigInv
  BY <1>2, <1>3 DEF ConsoleInit, PageInit, ConfigInv, SettingsInv
<1>5. QED
  BY <1>1, <1>4 DEF ConsoleInit, ConsoleInv, Pages

(* A step of the console is one of each part, or leaves it alone.          *)
LEMMA PartsMove ==
    ASSUME [ConsoleNext]_consoleVars
    PROVE  /\ [WorkspaceNext]_workspaceVars /\ [ListNext]_listVars
           /\ [AnalyseNext]_analyseVars /\ [ProgressNext]_progressVars
           /\ [DemoNext]_demoVars /\ [LimiterNext]_limiterVars
BY DEF ConsoleNext, consoleVars, ErrorsStep, AnalysesStep, ConfigureStep,
       SettingsStep, ListStep, AnalyseStep, ProgressStep, DemoStep, GatewayStep

LEMMA PartsKeep ==
    ASSUME PartsInv, [ConsoleNext]_consoleVars PROVE PartsInv'
BY PartsMove, WorkspaceKeeps, ListKeeps, AnalyseKeeps, ProgressKeeps,
   DemoKeeps, LimiterKeeps DEF PartsInv

(* What a step does to the configuration, and to those who use it.         *)
LEMMA ConfigMoves ==
    ASSUME [ConsoleNext]_consoleVars
    PROVE  /\ page' = page
           /\ \/ AnalysesNext /\ UNCHANGED pageVars
              \/ /\ page = "analyses" /\ Configure /\ busy' = busy
                 /\ mixed' = Marked("stored", Mixes(config'))
              \/ page = "settings" /\ SettingsNext /\ UNCHANGED analysisVars
              \/ UNCHANGED <<llmVars, pageVars>>
BY DEF ConsoleNext, consoleVars, ErrorsStep, AnalysesStep, ConfigureStep,
       SettingsStep, ListStep, AnalyseStep, ProgressStep, DemoStep, GatewayStep

(* Those who only read the configuration change nothing for the page.      *)
LEMMA PageKeeps ==
    ASSUME ConfigInv, page' = page, config' = config, UNCHANGED pageVars,
           LlmInv'
    PROVE  ConfigInv'
<1>1. UNCHANGED settingsVars /\ busy' = busy /\ mixed' = mixed
  BY DEF settingsVars, pageVars
<1>2. page = "settings" => SettingsInv'
  BY <1>1, SettingsKeeps DEF ConfigInv
<1>3. QED
  BY <1>1, <1>2 DEF ConfigInv, KeysBelong, OverrideBelongs, Mixes

LEMMA ConfigKeeps ==
    ASSUME ConfigInv, [ConsoleNext]_consoleVars PROVE ConfigInv'
<1>1. page' = page
  BY ConfigMoves
<1>2. CASE AnalysesNext /\ UNCHANGED pageVars
  BY <1>1, <1>2, AnalysesKeep, PageKeeps DEF ConfigInv
<1>3. CASE /\ page = "analyses" /\ Configure /\ busy' = busy
           /\ mixed' = Marked("stored", Mixes(config'))
  <2>1. LlmInv'
    BY <1>3, LlmKeeps DEF ConfigInv, LlmNext
  <2>2. KeysBelong'
    BY <1>3, ConfigureType
       DEF ConfigInv, LlmInv, LlmTypeOK, KeysBelong, KeysOf
  <2>3. OverrideBelongs'
    BY <1>3 DEF OverrideBelongs, Marked, Mixes
  <2>4. QED
    BY <1>1, <1>3, <2>1, <2>2, <2>3 DEF ConfigInv
<1>4. CASE page = "settings" /\ SettingsNext /\ UNCHANGED analysisVars
  <2>1. SettingsInv'
    BY <1>4, SettingsKeeps DEF ConfigInv
  <2>2. config' \in Configs /\ KeysBelong'
    BY <2>1 DEF SettingsInv, SettingsTypeOK
  <2>3. LlmInv'
    BY <1>4, <2>2, ConfigurationDisturbsNone DEF ConfigInv
  <2>4. QED
    BY <1>1, <1>4, <2>1, <2>2, <2>3 DEF ConfigInv
<1>5. CASE UNCHANGED <<llmVars, pageVars>>
  BY <1>1, <1>5, LlmKeeps, PageKeeps DEF ConfigInv, llmVars
<1>6. QED
  BY <1>2, <1>3, <1>4, <1>5, ConfigMoves

LEMMA ConsoleInvariant == ConsoleSpec => []ConsoleInv
<1>1. ASSUME ConsoleInv, [ConsoleNext]_consoleVars PROVE ConsoleInv'
  BY <1>1, ConfigMoves, PartsKeep, ConfigKeeps DEF ConsoleInv
<1>2. QED
  BY <1>1, ConsoleInitInv, PTL DEF ConsoleSpec

(* Whichever page is open, every variable behind it keeps its type.        *)
THEOREM ConsoleTypes == ConsoleSpec => []ConsoleTypeOK
<1>1. ASSUME ConsoleInv PROVE ConsoleTypeOK
  <2>1. /\ WorkspaceTypeOK /\ ListTypeOK /\ AnalyseTypeOK /\ ProgressTypeOK
        /\ DemoTypeOK /\ LimiterTypeOK
    BY <1>1 DEF ConsoleInv, PartsInv, WorkspaceInv, ListInv, AnalyseInv,
       ProgressInv, DemoInv, LimiterInv
  <2>2. LlmTypeOK /\ (page = "settings" => SettingsTypeOK)
    BY <1>1 DEF ConsoleInv, ConfigInv, LlmInv, SettingsInv
  <2>3. page \in Pages
    BY <1>1 DEF ConsoleInv
  <2>4. QED
    BY <2>1, <2>2, <2>3 DEF ConsoleTypeOK, Pages
<1>2. QED
  BY <1>1, ConsoleInvariant, PTL

(* The settings page and the analyses act on one configuration, each at    *)
(* every step of the other: a save, a cleared key or another tab's change  *)
(* while an analysis awaits the cache or its provider, and an analysis     *)
(* begun, answered or lost while the page awaits its answer.  Neither      *)
(* breaks what the other promises: keys and override stay where they       *)
(* belong, the page shows what is stored, reports name what made them.     *)
THEOREM ConfigurationIsShared ==
    ConsoleSpec => [](/\ KeysBelong /\ OverrideBelongs
                      /\ ShownIsStored /\ Provenance)
<1>1. ASSUME ConsoleInv
      PROVE  KeysBelong /\ OverrideBelongs /\ ShownIsStored /\ Provenance
  <2>1. KeysBelong /\ Provenance
    BY <1>1, HonestIsProvenance DEF ConsoleInv, ConfigInv, LlmInv
  <2>2. CASE page = "settings"
    BY <1>1, <2>1, <2>2 DEF ConsoleInv, ConfigInv, SettingsInv, MixInv,
       CallInv, OverrideBelongs, ShownIsStored
  <2>3. CASE page # "settings"
    BY <1>1, <2>1, <2>3 DEF ConsoleInv, ConfigInv, ShownIsStored
  <2>4. QED
    BY <2>2, <2>3
<1>2. QED
  BY <1>1, ConsoleInvariant, PTL

(* The other parts do not meet: what each page and each service promises   *)
(* by itself, it keeps in the console.                                     *)
THEOREM PartsKeepTheirPromises ==
    ConsoleSpec => [](/\ PaneIsCurrent /\ ProposedFromOwnReport /\ RowsAnswer
                      /\ TargetIsListed /\ ProgressIsReal /\ DemoAgrees
                      /\ LimitIsExact)
<1>1. ASSUME ConsoleInv
      PROVE  /\ PaneIsCurrent /\ ProposedFromOwnReport /\ RowsAnswer
             /\ TargetIsListed /\ ProgressIsReal /\ DemoAgrees /\ LimitIsExact
  <2>1. /\ WorkspaceInv /\ ListInv /\ AnalyseInv /\ ProgressInv /\ DemoInv
        /\ LimiterInv
    BY <1>1 DEF ConsoleInv, PartsInv
  <2>2. PaneIsCurrent /\ ProposedFromOwnReport
    BY <2>1, PaneIsCurrentFollows, ProposedFromOwnReportFollows
  <2>3. RowsAnswer /\ TargetIsListed
    BY <2>1 DEF ListInv, AnalyseInv
  <2>4. ProgressIsReal /\ DemoAgrees /\ LimitIsExact
    BY <2>1, ProgressIsRealFollows, DemoAgreesFollows, LimitIsExactFollows
  <2>5. QED
    BY <2>2, <2>3, <2>4
<1>2. QED
  BY <1>1, ConsoleInvariant, PTL
=============================================================================
