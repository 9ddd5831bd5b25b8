------------------------------ MODULE LlmService ------------------------------
(***************************************************************************)
(* llm-svc: the configuration that POST /config rewrites, and the analyses *)
(* that read it (services/llm/app/main.py, config_store.py, cache.py,      *)
(* llm/__init__.py).                                                       *)
(*                                                                         *)
(* A handler runs on the event loop between two awaits: reading the        *)
(* configuration and building the provider is one step, as is changing the *)
(* file.  The cache, the provider and the catalogue of models are awaited. *)
(* A model or a key is told apart by the provider it is meant for; all     *)
(* analyses have the same evidence, which is what makes the cache matter.  *)
(***************************************************************************)
EXTENDS Naturals

CONSTANTS Real,         \* providers that need a key
          EnvKeys,      \* those that have one in the environment
          Analyses      \* POST /analyse requests

Mock == "mock"
Default == "default"    \* no override: the provider's own model

ASSUME LlmAssumption ==
    /\ {Mock, Default, "keep", "clear"} \cap Real = {}
    /\ EnvKeys \subseteq Real

VARIABLES config,       \* the file: provider, model override, keys
          analysis,     \* where each request is
          using,        \* the provider and model it has read
          made,         \* the provider and model its report was made with;
                        \* both are gone when it has ended
          answered,     \* the reports answered: what they say, what is true
          cache,        \* what each key of the cache was made with
          client        \* AnalysisCache: its connection

analysisVars == <<analysis, using, made, answered, cache, client>>
llmVars == <<config, analysisVars>>

Providers == Real \cup {Mock}
Overrides == Real \cup {Default}
Used == Providers \X Overrides
NoReport == <<>>

Configs == [provider : Providers, model : Overrides,
            keys : [Real -> Real \cup {Default}]]
AnalysisSteps == {"unused", "get", "ping", "call", "set", "ended"}

LlmTypeOK ==
    /\ config \in Configs
    /\ analysis \in [Analyses -> AnalysisSteps]
    /\ using \in [Analyses -> Used \cup {NoReport}]
    /\ made \in [Analyses -> Used \cup {NoReport}]
    /\ answered \subseteq [label : Used, made : Used]
    /\ cache \in [Used -> Used \cup {NoReport}]
    /\ client \in {"none", "pinging", "ready", "disabled"}

AnalysesInit ==
    /\ analysis = [a \in Analyses |-> "unused"]
    /\ using = [a \in Analyses |-> NoReport]
    /\ made = [a \in Analyses |-> NoReport]
    /\ answered = {}
    /\ cache = [u \in Used |-> NoReport]
    /\ client = "none"

(* LLM_PROVIDER and LLM_MODEL are not set: the mock.                       *)
LlmInit ==
    /\ config = [provider |-> Mock, model |-> Default,
                 keys |-> [p \in Real |-> Default]]
    /\ AnalysesInit

-----------------------------------------------------------------------------
(* LLMConfigStore.                                                         *)

IsAvailable(c, p) == p = Mock \/ p \in EnvKeys \/ c.keys[p] # Default

(* A request is a provider with what is to become of its key and of the    *)
(* override: "keep", "clear" or a new value.  The override is one for all  *)
(* providers.                                                              *)
SetConfig(c, p, key, model) ==
    [provider |-> p,
     model |-> CASE model = "keep" -> c.model
                 [] model = "clear" -> Default
                 [] OTHER -> model,
     keys |-> CASE key = "keep" \/ p = Mock -> c.keys
                [] key = "clear" -> [c.keys EXCEPT ![p] = Default]
                [] OTHER -> [c.keys EXCEPT ![p] = key]]

Requests == {r \in [provider : Providers, key : Real \cup {"keep", "clear"},
                     model : Real \cup {"keep", "clear"}] :
                r.key \in {"keep", "clear", r.provider}}

(* Somebody, in some tab, saves something.                                 *)
Configure ==
    /\ config' \in
           {SetConfig(config, r.provider, r.key, r.model) : r \in Requests}
    /\ UNCHANGED analysisVars

-----------------------------------------------------------------------------
(* An analysis.                                                            *)

Step(a, to) ==
    /\ analysis' = [analysis EXCEPT ![a] = to]
    /\ UNCHANGED <<using, made, answered>>

Ends(a) ==
    /\ analysis' = [analysis EXCEPT ![a] = "ended"]
    /\ using' = [using EXCEPT ![a] = NoReport]
    /\ made' = [made EXCEPT ![a] = NoReport]

Fails(a) == Ends(a) /\ UNCHANGED answered

Answers(a, label, report) ==
    /\ Ends(a)
    /\ answered' = answered \cup {[label |-> label, made |-> report]}

(* get_provider, the label of the report and the cache key, read together. *)
(* A provider without a key is an error.                                   *)
StartAnalysis(a) ==
    /\ analysis[a] = "unused"
    /\ IF IsAvailable(config, config.provider)
         THEN /\ analysis' = [analysis EXCEPT ![a] = "get"]
              /\ using' = [using EXCEPT
                              ![a] = <<config.provider, config.model>>]
              /\ UNCHANGED <<made, answered>>
         ELSE Fails(a)
    /\ UNCHANGED <<config, cache, client>>

(* The client is stored before it has answered: only the first analysis    *)
(* pings it, others use it at once.  A failed ping disables the cache for  *)
(* the life of the process.                                                *)
PingOrRead(a) ==
    /\ analysis[a] = "get"
    /\ \/ client = "none" /\ client' = "pinging" /\ Step(a, "ping")
       \/ client # "none" /\ Step(a, "call") /\ UNCHANGED client
       \/ /\ client \in {"pinging", "ready"}
          /\ cache[using[a]] # NoReport
          /\ Answers(a, using[a], cache[using[a]])
          /\ UNCHANGED client
    /\ UNCHANGED <<config, cache>>

Ping(a) ==
    /\ analysis[a] = "ping"
    /\ \/ client' = "ready" /\ Step(a, "get")
       \/ client' = "disabled" /\ Step(a, "call")
    /\ UNCHANGED <<config, cache>>

(* The provider was built from the configuration that was read.            *)
Call(a) ==
    /\ analysis[a] = "call"
    /\ \/ /\ analysis' = [analysis EXCEPT ![a] = "set"]
          /\ made' = [made EXCEPT ![a] = using[a]]
          /\ UNCHANGED <<using, answered>>
       \/ Fails(a)
    /\ UNCHANGED <<config, cache, client>>

(* Mutant: the report is labelled with the provider and model of now. *)
StoreAndRelabel(a) ==
    /\ analysis[a] = "set"
    /\ cache' = [cache EXCEPT ![using[a]] = made[a]]
    /\ Answers(a, <<config.provider, config.model>>, made[a])
    /\ UNCHANGED <<config, client>>

(* A cache that cannot be written never fails the analysis.                *)
StoreAndAnswer(a) ==
    /\ analysis[a] = "set"
    /\ \/ client # "disabled" /\ cache' = [cache EXCEPT ![using[a]] = made[a]]
       \/ UNCHANGED cache
    /\ Answers(a, using[a], made[a])
    /\ UNCHANGED <<config, client>>

(* The TTL, an eviction, or the deletion of what could not be read.        *)
CacheExpires(u) ==
    /\ cache[u] # NoReport
    /\ cache' = [cache EXCEPT ![u] = NoReport]
    /\ UNCHANGED <<config, analysis, using, made, answered, client>>

(* The file and Redis stay.                                                *)
LlmRestart ==
    /\ client # "none"
    /\ client' = "none"
    /\ analysis' = [a \in Analyses |->
           IF analysis[a] = "unused" THEN "unused" ELSE "ended"]
    /\ using' = [a \in Analyses |-> NoReport]
    /\ made' = [a \in Analyses |-> NoReport]
    /\ UNCHANGED <<config, answered, cache>>

AnalysesNext ==
    \/ LlmRestart
    \/ \E u \in Used : CacheExpires(u)
    \/ \E a \in Analyses :
          \/ StartAnalysis(a) \/ PingOrRead(a) \/ Ping(a) \/ Call(a)
          \/ StoreAndAnswer(a)

LlmNext == Configure \/ AnalysesNext

LlmSpec == LlmInit /\ [][LlmNext]_llmVars

-----------------------------------------------------------------------------
(* What the dashboard shows as a report's source: useLLMConfig loads the   *)
(* active configuration once, and falls back to the mock; the pane beside  *)
(* the queue takes it only for a report that does not name its own.        *)

Fallback == <<Mock, Default>>
LLMConfigShown(loaded) == IF loaded = NoReport THEN Fallback ELSE loaded
AnalysisSource(label, loaded) ==
    IF label # NoReport THEN label ELSE LLMConfigShown(loaded)

(* The report page shows the report's own, the active model only for one   *)
(* that does not name its model.                                           *)
ReportPageSource(label, loaded) ==
    IF label # NoReport THEN label
    ELSE <<"unknown", IF loaded = NoReport THEN Default ELSE loaded[2]>>

(* A report names the provider and the model that made it, also when the   *)
(* configuration was changed while it was made and when it comes from the  *)
(* cache, which holds nothing under another one's key; and that is what    *)
(* the dashboard shows, whatever the active configuration is by then.      *)
Provenance ==
    /\ \A r \in answered, loaded \in Used \cup {NoReport} :
          /\ AnalysisSource(r.label, loaded) = r.made
          /\ ReportPageSource(r.label, loaded) = r.made
    /\ \A u \in Used : cache[u] \in {u, NoReport}
=============================================================================
