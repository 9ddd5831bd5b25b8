---------------------------- MODULE SettingsProofs ----------------------------
(***************************************************************************)
(* Theorems about LlmService and SettingsPage, for every set of providers, *)
(* keys in the environment and analyses.                                   *)
(***************************************************************************)
EXTENDS SettingsPage, TLAPS

-----------------------------------------------------------------------------
(* The configuration.                                                      *)

LEMMA SetConfigType ==
    ASSUME NEW c \in Configs, NEW r \in Requests
    PROVE  SetConfig(c, r.provider, r.key, r.model) \in Configs
<1> DEFINE d == SetConfig(c, r.provider, r.key, r.model)
<1> USE LlmAssumption DEF Configs, Requests, Overrides, Providers
<1>1. d.provider = r.provider /\ r.provider \in Providers
  BY DEF SetConfig
<1>2. d.model \in Overrides
  BY DEF SetConfig
<1>3. d.keys \in [Real -> Real \cup {Default}]
  BY DEF SetConfig
<1>4. d = [provider |-> d.provider, model |-> d.model, keys |-> d.keys]
  BY DEF SetConfig
<1>5. QED
  BY <1>1, <1>2, <1>3, <1>4

(* A request stores a key only for the provider that it is for.            *)
KeysOf(c) == \A p \in Real : c.keys[p] \in {Default, p}

LEMMA SetConfigKeys ==
    ASSUME NEW c \in Configs, NEW r \in Requests, KeysOf(c)
    PROVE  KeysOf(SetConfig(c, r.provider, r.key, r.model))
BY DEF Configs, Requests, SetConfig, KeysOf, Providers

-----------------------------------------------------------------------------
(* Analyses.                                                               *)

(* The strengthening: an analysis that is at work has read a provider and  *)
(* a model, and its report is made with them.                              *)
WorkInv ==
    \A a \in Analyses :
        /\ analysis[a] \in {"get", "ping", "call", "set"} => using[a] \in Used
        /\ analysis[a] = "set" => made[a] = using[a]

HonestInv ==
    /\ \A r \in answered : r.label \in Used /\ r.made = r.label
    /\ \A u \in Used : cache[u] \in {u, NoReport}

LlmInv == LlmTypeOK /\ WorkInv /\ HonestInv

LEMMA LlmInitInv == LlmInit => LlmInv
BY DEF LlmInit, AnalysesInit, LlmInv, LlmTypeOK, WorkInv, HonestInv, Configs,
       Providers, Overrides, AnalysisSteps

LEMMA AnalysisKeepsInv ==
    ASSUME LlmInv, NEW a \in Analyses,
           \/ StartAnalysis(a) \/ PingOrRead(a) \/ Ping(a) \/ Call(a)
           \/ StoreAndAnswer(a)
    PROVE  LlmInv'
<1> USE DEF LlmInv, LlmTypeOK, WorkInv, HonestInv, AnalysisSteps, Ends
<1>1. CASE StartAnalysis(a)
  <2>1. <<config.provider, config.model>> \in Used
    BY DEF Used, Configs
  <2>2. QED
    BY <1>1, <2>1 DEF StartAnalysis, Fails
<1>2. CASE PingOrRead(a)
  <2>1. using[a] \in Used
    BY <1>2 DEF PingOrRead
  <2>2. CASE answered' = answered
    BY <1>2, <2>2 DEF PingOrRead, Step, Answers
  <2>3. CASE Answers(a, using[a], cache[using[a]]) /\ cache[using[a]] # NoReport
    <3>1. cache[using[a]] = using[a]
      BY <2>1, <2>3
    <3>2. answered' = answered \cup {[label |-> using[a], made |-> using[a]]}
      BY <2>3, <3>1 DEF Answers
    <3>3. QED
      BY <1>2, <2>1, <2>3, <3>2 DEF PingOrRead, Answers
  <2>4. QED
    BY <1>2, <2>2, <2>3 DEF PingOrRead, Step
<1>3. CASE Ping(a)
  BY <1>3 DEF Ping, Step
<1>4. CASE Call(a)
  BY <1>4 DEF Call, Fails
<1>5. CASE StoreAndAnswer(a)
  <2>1. made[a] = using[a] /\ using[a] \in Used
    BY <1>5 DEF StoreAndAnswer
  <2>2. cache' \in {cache, [cache EXCEPT ![using[a]] = using[a]]}
    BY <1>5, <2>1 DEF StoreAndAnswer
  <2>3. answered' = answered \cup {[label |-> using[a], made |-> using[a]]}
    BY <1>5, <2>1 DEF StoreAndAnswer, Answers
  <2>4. QED
    BY <1>5, <2>1, <2>2, <2>3 DEF StoreAndAnswer, Answers
<1>6. QED
  BY <1>1, <1>2, <1>3, <1>4, <1>5

LEMMA ConfigureType ==
    ASSUME config \in Configs, Configure
    PROVE  /\ config' \in Configs
           /\ KeysOf(config) => KeysOf(config')
BY SetConfigType, SetConfigKeys DEF Configure

(* Analyses read the configuration and never write it.                     *)
LEMMA AnalysesKeep ==
    ASSUME LlmInv, AnalysesNext
    PROVE  LlmInv' /\ config' = config
<1> USE DEF LlmInv, LlmTypeOK, WorkInv, HonestInv, AnalysisSteps
<1>1. CASE LlmRestart
  BY <1>1 DEF LlmRestart
<1>2. ASSUME NEW u \in Used, CacheExpires(u) PROVE LlmInv' /\ config' = config
  BY <1>2 DEF CacheExpires
<1>3. ASSUME NEW a \in Analyses,
             \/ StartAnalysis(a) \/ PingOrRead(a) \/ Ping(a) \/ Call(a)
             \/ StoreAndAnswer(a)
      PROVE  LlmInv' /\ config' = config
  <2>1. config' = config
    BY <1>3 DEF StartAnalysis, PingOrRead, Ping, Call, StoreAndAnswer
  <2>2. QED
    BY <1>3, <2>1, AnalysisKeepsInv
<1>4. QED
  BY <1>1, <1>2, <1>3 DEF AnalysesNext

(* Whatever valid configuration is stored, no analysis is disturbed.       *)
LEMMA ConfigurationDisturbsNone ==
    ASSUME LlmInv, config' \in Configs, UNCHANGED analysisVars
    PROVE  LlmInv'
BY DEF LlmInv, LlmTypeOK, WorkInv, HonestInv, analysisVars

LEMMA LlmKeeps ==
    ASSUME LlmInv, [LlmNext]_llmVars
    PROVE  LlmInv'
<1>1. CASE Configure
  <2>1. config' \in Configs
    BY <1>1, ConfigureType DEF LlmInv, LlmTypeOK
  <2>2. QED
    BY <1>1, <2>1, ConfigurationDisturbsNone DEF Configure
<1>2. CASE UNCHANGED llmVars
  BY <1>2, ConfigurationDisturbsNone DEF llmVars, LlmInv, LlmTypeOK
<1>3. QED
  BY <1>1, <1>2, AnalysesKeep DEF LlmNext

LEMMA HonestIsProvenance == HonestInv => Provenance
BY DEF HonestInv, Provenance, AnalysisSource, ReportPageSource, Used, NoReport

(* Every report names the provider and model that made it, whatever is     *)
(* configured, cached, evicted or restarted meanwhile.                     *)
THEOREM ReportsNameTheirModel == LlmSpec => []Provenance
<1>1. LlmInv => Provenance
  BY HonestIsProvenance DEF LlmInv
<1>2. QED
  BY <1>1, LlmInitInv, LlmKeeps, PTL DEF LlmSpec

-----------------------------------------------------------------------------
(* The settings page.                                                      *)

(* What the form holds belongs to the selected provider.                   *)
FormInv ==
    /\ apiKey \in {Default, selectedProvider}
    /\ busy \in {"loading", "error"} => apiKey = Default
    /\ llmStatus = Nothing <=> busy \in {"loading", "error"}
    /\ confirmClear => llmStatus # Nothing /\ selectedProvider # Mock

(* Wherever a model is with another provider, that is on record there.     *)
MixInv ==
    /\ model \in {Default, selectedProvider} \/ "form" \in mixed
    /\ Mixes(config) => "stored" \in mixed
    /\ request # Nothing /\ request.model \notin {"keep", "clear"}
           => request.model = request.provider \/ "sent" \in mixed

(* One call at a time; what its answer says is what is stored, until       *)
(* somebody else changes that.                                             *)
CallInv ==
    /\ request # Nothing => busy \in {"saving", "clearing"} /\ reply = Nothing
    /\ busy \in {"no", "error"} => reply = Nothing
    /\ reply # Nothing /\ ~behind => reply = StatusOf(config)
    /\ (busy = "no" \/ request # Nothing) /\ ~behind
           => llmStatus = StatusOf(config)

SettingsInv == SettingsTypeOK /\ KeysBelong /\ FormInv /\ MixInv /\ CallInv

LEMMA StatusType ==
    ASSUME NEW c \in Configs PROVE StatusOf(c) \in Statuses /\ StatusOf(c) # Nothing
BY DEF Configs, StatusOf, Statuses, Nothing

LEMMA SettingsInitInv == LlmInit /\ PageInit => SettingsInv
<1> SUFFICES ASSUME LlmInit, PageInit PROVE SettingsInv
  OBVIOUS
<1>1. config \in Configs /\ KeysBelong /\ config.model = Default
  BY DEF LlmInit, Configs, Providers, Overrides, KeysBelong
<1>2. QED
  BY <1>1 DEF PageInit, SettingsInv, SettingsTypeOK, FormInv, MixInv, CallInv,
     Mixes, Providers, Overrides


(* The clicks: they change the form, or begin a call.                      *)
LEMMA FormStep ==
    ASSUME SettingsInv,
           \/ \E p \in Providers : ClickCard(p)
           \/ TypeKey \/ ChooseModel \/ AskToClear \/ CancelClear
           \/ Save \/ ConfirmClear \/ Retry
    PROVE  SettingsInv'
<1> USE LlmAssumption
    DEF SettingsInv, SettingsTypeOK, Loaded, formVars, Nothing
<1>1. config' = config /\ KeysBelong'
  BY DEF ClickCard, TypeKey, ChooseModel, AskToClear, CancelClear, Save,
         ConfirmClear, Retry, KeysBelong
<1>2. ASSUME NEW p \in Providers, ClickCard(p) PROVE SettingsInv'
  <2>1. llmStatus \in Statuses
    BY <1>2 DEF ClickCard
  <2>2. SettingsTypeOK'
    BY <1>2, <2>1 DEF ClickCard, Statuses, Overrides, Marked, Places
  <2>3. FormInv' /\ CallInv'
    BY <1>2 DEF ClickCard, FormInv, CallInv, StatusOf
  <2>4. MixInv'
    <3>1. model' \in {Default, p} \/ FormMixed(p)
      BY <1>2 DEF ClickCard, FormMixed, Mixes
    <3>2. mixed' = Marked("form", FormMixed(p)) /\ selectedProvider' = p
      BY <1>2 DEF ClickCard
    <3>3. UNCHANGED <<config, request>>
      BY <1>2 DEF ClickCard
    <3>4. QED
      BY <3>1, <3>2, <3>3 DEF MixInv, Mixes, Marked
  <2>5. QED
    BY <1>1, <2>2, <2>3, <2>4
<1>3. CASE TypeKey
  BY <1>1, <1>3 DEF TypeKey, FormInv, MixInv, CallInv, Mixes, Marked, StatusOf,
     Providers, Overrides
<1>4. CASE ChooseModel
  <2>1. llmStatus \in Statuses /\ selectedProvider \in Real
    BY <1>4 DEF ChooseModel, Providers
  <2>2. SettingsTypeOK'
    BY <1>4, <2>1 DEF ChooseModel, Statuses, Overrides, Marked, Places
  <2>3. FormInv' /\ MixInv' /\ CallInv'
    BY <1>4 DEF ChooseModel, FormInv, MixInv, CallInv, Mixes, Marked, StatusOf
  <2>4. QED
    BY <1>1, <2>2, <2>3
<1>5. CASE AskToClear \/ CancelClear \/ Retry
  <2>1. SettingsTypeOK' /\ MixInv' /\ CallInv'
    BY <1>1, <1>5 DEF AskToClear, CancelClear, Retry, MixInv, CallInv,
       Mixes, Marked, StatusOf
  <2>2. FormInv'
    BY <1>5 DEF AskToClear, CancelClear, Retry, FormInv
  <2>3. QED
    BY <1>1, <2>1, <2>2
<1>6. CASE Save
  <2>1. request' \in Requests /\ request' # Nothing
    BY <1>6 DEF Save, FormInv, Requests, Overrides
  <2>2. /\ request'.provider = selectedProvider
        /\ request'.model = IF model = Default THEN "clear" ELSE model
    BY <1>6 DEF Save
  <2>3. SettingsTypeOK'
    BY <1>6, <2>1 DEF Save, Marked, Places
  <2>4. FormInv' /\ MixInv' /\ CallInv'
    BY <1>6, <2>2 DEF Save, FormInv, MixInv, CallInv, Mixes, Marked, StatusOf
  <2>5. QED
    BY <1>1, <2>3, <2>4
<1>7. CASE ConfirmClear
  <2>1. request' \in Requests /\ request' # Nothing /\ request'.model = "keep"
    BY <1>7 DEF ConfirmClear, Requests
  <2>2. SettingsTypeOK'
    BY <1>7, <2>1 DEF ConfirmClear
  <2>3. FormInv' /\ MixInv' /\ CallInv'
    BY <1>7, <2>1 DEF ConfirmClear, FormInv, MixInv, CallInv, Mixes, Marked, StatusOf
  <2>4. QED
    BY <1>1, <2>2, <2>3
<1>8. QED
  BY <1>2, <1>3, <1>4, <1>5, <1>6, <1>7

(* The service, and the other tabs.                                        *)
LEMMA ServiceStep ==
    ASSUME SettingsInv, RequestArrives \/ Answered \/ OtherSaves
    PROVE  SettingsInv'
<1> USE LlmAssumption
    DEF SettingsInv, SettingsTypeOK, formVars, Nothing
<1>1. CASE RequestArrives
  <2> DEFINE c == SetConfig(config, request.provider, request.key, request.model)
  <2>1. request \in Requests /\ config' = c
    BY <1>1 DEF RequestArrives
  <2>2. c \in Configs /\ KeysOf(c)
    BY <2>1, SetConfigType, SetConfigKeys DEF KeysBelong, KeysOf
  <2>3. Mixes(c) => MayMix
    <3>1. c.provider = request.provider
      BY DEF SetConfig
    <3>2. CASE request.model = "keep"
      <4>1. c.model = config.model
        BY <3>2 DEF SetConfig
      <4>2. QED
        BY <3>1, <3>2, <4>1 DEF MixInv, Mixes, MayMix
    <3>3. CASE request.model = "clear"
      BY <3>3 DEF SetConfig, Mixes
    <3>4. CASE request.model \notin {"keep", "clear"}
      <4>1. c.model = request.model
        BY <3>4 DEF SetConfig
      <4>2. QED
        BY <1>1, <3>1, <3>4, <4>1 DEF RequestArrives, MixInv, Mixes, MayMix
    <3>5. QED
      BY <3>2, <3>3, <3>4
  <2> HIDE DEF c
  <2>4. SettingsTypeOK' /\ KeysBelong'
    BY <1>1, <2>1, <2>2 DEF RequestArrives, KeysBelong, KeysOf, Marked,
       Places
  <2>5. FormInv' /\ CallInv'
    BY <1>1 DEF RequestArrives, FormInv, CallInv
  <2>6. MixInv'
    BY <1>1, <2>1, <2>3 DEF RequestArrives, MixInv, Mixes, Marked
  <2>7. QED
    BY <2>4, <2>5, <2>6
<1>2. CASE Answered
  <2>1. StatusOf(config) \in Statuses /\ StatusOf(config) # Nothing
    BY StatusType
  <2>2. SettingsTypeOK' /\ KeysBelong' /\ FormInv' /\ MixInv'
    BY <1>2, <2>1 DEF Answered, KeysBelong, FormInv, MixInv, Mixes
  <2>3. CallInv'
    <3>1. StatusOf(config)' = StatusOf(config)
      BY <1>2 DEF Answered, StatusOf
    <3>2. QED
      BY <1>2, <3>1 DEF Answered, CallInv
  <2>4. QED
    BY <2>2, <2>3
<1>3. CASE OtherSaves
  <2>1. \E r \in Requests :
           /\ config' = SetConfig(config, r.provider, r.key, r.model)
           /\ \/ r.model \in {"clear", r.provider}
              \/ r.model = "keep" /\ r.provider = config.provider
    <3>1. config.provider \in Providers
      BY DEF Configs
    <3>2. [provider |-> config.provider, key |-> "clear", model |-> "keep"]
             \in Requests
      BY <3>1 DEF Requests
    <3>3. QED
      BY <1>3, <3>2 DEF OtherSaves
  <2>2. PICK r \in Requests :
           /\ config' = SetConfig(config, r.provider, r.key, r.model)
           /\ \/ r.model \in {"clear", r.provider}
              \/ r.model = "keep" /\ r.provider = config.provider
    BY <2>1
  <2>3. config' \in Configs /\ KeysOf(config')
    BY <2>2, SetConfigType, SetConfigKeys DEF KeysBelong, KeysOf
  <2>4. Mixes(config') => Mixes(config)
    <3>1. config'.provider = r.provider
      BY <2>2 DEF SetConfig
    <3>2. "keep" # "clear" /\ r.provider \notin {"keep", "clear"}
      BY DEF Requests, Providers, Mock
    <3>3. config'.model = CASE r.model = "keep" -> config.model
                            [] r.model = "clear" -> Default
                            [] OTHER -> r.model
      BY <2>2 DEF SetConfig
    <3>4. \/ config'.model \in {Default, r.provider}
          \/ config'.model = config.model /\ r.provider = config.provider
      BY <2>2, <3>2, <3>3
    <3>5. QED
      BY <3>1, <3>4 DEF Mixes
  <2>5. SettingsTypeOK' /\ KeysBelong'
    BY <1>3, <2>3 DEF OtherSaves, KeysBelong, KeysOf, Marked, Places
  <2>6. FormInv' /\ MixInv' /\ CallInv'
    BY <1>3, <2>4 DEF OtherSaves, FormInv, MixInv, CallInv, Marked
  <2>7. QED
    BY <2>5, <2>6
<1>4. QED
  BY <1>1, <1>2, <1>3

(* The answers.                                                            *)
LEMMA ReturnStep ==
    ASSUME SettingsInv, LoadReturns \/ SaveReturns \/ CallFails
    PROVE  SettingsInv'
<1> USE DEF SettingsInv, SettingsTypeOK, formVars, Nothing
<1>1. /\ config' = config /\ StatusOf(config)' = StatusOf(config)
      /\ KeysBelong'
  BY DEF LoadReturns, SaveReturns, CallFails, KeysBelong, StatusOf
<1>2. CASE LoadReturns
  <2>1. reply \in Statuses /\ apiKey = Default
    BY <1>2 DEF LoadReturns, FormInv
  <2>2. SettingsTypeOK'
    BY <1>1, <1>2, <2>1 DEF LoadReturns, Statuses, Marked, Places
  <2>3. FormInv' /\ CallInv'
    BY <1>1, <1>2, <2>1 DEF LoadReturns, FormInv, CallInv
  <2>4. MixInv'
    BY <1>1, <1>2 DEF LoadReturns, MixInv, Mixes, Marked
  <2>5. QED
    BY <1>1, <2>2, <2>3, <2>4
<1>3. CASE SaveReturns
  <2>1. SettingsTypeOK'
    BY <1>1, <1>3 DEF SaveReturns, Overrides
  <2>2. FormInv' /\ MixInv' /\ CallInv'
    BY <1>1, <1>3 DEF SaveReturns, FormInv, MixInv, CallInv, Mixes, Marked
  <2>3. QED
    BY <1>1, <2>1, <2>2
<1>4. CASE CallFails
  <2>1. SettingsTypeOK'
    BY <1>1, <1>4 DEF CallFails
  <2>2. FormInv' /\ MixInv' /\ CallInv'
    BY <1>1, <1>4 DEF CallFails, FormInv, MixInv, CallInv, Mixes, Marked
  <2>3. QED
    BY <1>1, <2>1, <2>2
<1>5. QED
  BY <1>2, <1>3, <1>4

LEMMA SettingsKeeps ==
    ASSUME SettingsInv, [SettingsNext]_settingsVars
    PROVE  SettingsInv'
<1>1. CASE UNCHANGED settingsVars
  BY <1>1 DEF settingsVars, pageVars, formVars, SettingsInv, SettingsTypeOK,
     KeysBelong, FormInv, MixInv, CallInv, Mixes, Marked, StatusOf
<1>2. QED
  BY <1>1, FormStep, ServiceStep, ReturnStep DEF SettingsNext

LEMMA SettingsInvariant == SettingsSpec => []SettingsInv
BY SettingsInitInv, SettingsKeeps, PTL DEF SettingsSpec

(* No key is ever stored for another provider than the one it was typed    *)
(* for.                                                                    *)
THEOREM KeysStayWithTheirProvider == SettingsSpec => []KeysBelong
<1>1. SettingsInv => KeysBelong
  BY DEF SettingsInv
<1>2. QED
  BY <1>1, SettingsInvariant, PTL

(* The override belongs to the active provider unless the history says how *)
(* it came not to.                                                         *)
THEOREM OverrideStaysWithItsProvider == SettingsSpec => []OverrideBelongs
<1>1. SettingsInv => OverrideBelongs
  BY DEF SettingsInv, MixInv, OverrideBelongs
<1>2. QED
  BY <1>1, SettingsInvariant, PTL

(* At rest the page shows what is stored, unless somebody else changed it  *)
(* or an answer was lost.                                                  *)
THEOREM PageShowsWhatIsStored == SettingsSpec => []ShownIsStored
<1>1. SettingsInv => ShownIsStored
  BY DEF SettingsInv, CallInv, ShownIsStored
<1>2. QED
  BY <1>1, SettingsInvariant, PTL
=============================================================================
