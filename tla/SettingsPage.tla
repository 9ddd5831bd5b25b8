----------------------------- MODULE SettingsPage -----------------------------
(***************************************************************************)
(* The settings page (frontend/src/app/settings/page.tsx) over llm-svc's   *)
(* configuration.  One tab is modelled whole; what other tabs save is a    *)
(* change of the configuration at any time.                                *)
(*                                                                         *)
(* A request is sent, carried out and answered; the answer is the          *)
(* configuration as it is then, for the handler has awaited the catalogues *)
(* of models in between.                                                   *)
(***************************************************************************)
EXTENDS LlmService

VARIABLES llmStatus,      \* what GET or POST /api/settings answered last
          selectedProvider, apiKey, model,    \* the form
          confirmClear,   \* the dialog that asks before a key is cleared
          busy,           \* the call on the way
          request,        \* what it asks for
          reply,          \* its answer, once there is one
          mixed,          \* history: where a model came, by a choice or
                          \* by being kept, to a provider not its own
          behind          \* history: the configuration was changed after the
                          \* page's last answer was made

formVars == <<selectedProvider, apiKey, model, confirmClear>>
pageVars == <<llmStatus, formVars, busy, request, reply, mixed, behind>>
settingsVars == <<config, pageVars>>

Nothing == <<>>
Places == {"form", "sent", "stored"}
StatusOf(c) == [provider |-> c.provider, model |-> c.model,
                available |-> {p \in Providers : IsAvailable(c, p)}]
Statuses == [provider : Providers, model : Overrides,
             available : SUBSET Providers]

SettingsTypeOK ==
    /\ config \in Configs
    /\ {llmStatus, reply} \subseteq Statuses \cup {Nothing}
    /\ selectedProvider \in Providers /\ {apiKey, model} \subseteq Overrides
    /\ confirmClear \in BOOLEAN
    /\ busy \in {"loading", "error", "no", "saving", "clearing"}
    /\ request \in Requests \cup {Nothing}
    /\ mixed \subseteq Places /\ behind \in BOOLEAN

(* The page is mounted and load has sent its request.                      *)
PageInit ==
    /\ llmStatus = Nothing /\ reply = Nothing /\ request = Nothing
    /\ selectedProvider = Mock /\ apiKey = Default /\ model = Default
    /\ confirmClear = FALSE /\ busy = "loading"
    /\ mixed = {} /\ behind = FALSE

-----------------------------------------------------------------------------
(* The form.  Cards can be clicked while a provider is being saved, the    *)
(* fields cannot be changed; the dialog is modal.                          *)

Loaded == llmStatus # Nothing /\ busy \notin {"loading", "error"}

(* A model that is another provider's, in the configuration or an answer.  *)
Mixes(c) == c.model \notin {Default, c.provider}

Marked(place, is) == IF is THEN mixed \cup {place} ELSE mixed \ {place}
FormMixed(p) == p = llmStatus.provider /\ Mixes(llmStatus)

(* Mutant: the key that was typed for another provider is kept. *)
ClickCardKeepingKey(p) ==
    /\ Loaded /\ ~confirmClear
    /\ selectedProvider' = p
    /\ model' = IF p = llmStatus.provider THEN llmStatus.model ELSE Default
    /\ mixed' = Marked("form", FormMixed(p))
    /\ UNCHANGED <<config, llmStatus, apiKey, confirmClear, busy, request,
                   reply, behind>>

(* Mutant: the model that was chosen for another provider is kept. *)
ClickCardKeepingModel(p) ==
    /\ Loaded /\ ~confirmClear
    /\ selectedProvider' = p
    /\ apiKey' = Default
    /\ mixed' = Marked("form", FormMixed(p))
    /\ UNCHANGED <<config, llmStatus, model, confirmClear, busy, request,
                   reply, behind>>

ClickCard(p) ==
    /\ Loaded /\ ~confirmClear
    /\ selectedProvider' = p
    /\ apiKey' = Default
    /\ model' = IF p = llmStatus.provider THEN llmStatus.model ELSE Default
    /\ mixed' = Marked("form", FormMixed(p))
    /\ UNCHANGED <<config, llmStatus, confirmClear, busy, request, reply,
                   behind>>

TypeKey ==
    /\ Loaded /\ busy = "no" /\ ~confirmClear
    /\ selectedProvider # Mock
    /\ apiKey' = selectedProvider
    /\ UNCHANGED <<config, llmStatus, selectedProvider, model, confirmClear,
                   busy, request, reply, mixed, behind>>

(* The list also has the model that the service names for the selected     *)
(* provider, and that is the override, whichever provider it was meant for.*)
ChooseModel ==
    /\ Loaded /\ busy = "no" /\ ~confirmClear
    /\ selectedProvider # Mock
    /\ model' \in {selectedProvider} \cup ({llmStatus.model} \ {Default})
    /\ mixed' = Marked("form", model' # selectedProvider)
    /\ UNCHANGED <<config, llmStatus, selectedProvider, apiKey, confirmClear,
                   busy, request, reply, behind>>

AskToClear ==
    /\ Loaded /\ busy = "no" /\ ~confirmClear
    /\ selectedProvider # Mock /\ selectedProvider \in llmStatus.available
    /\ confirmClear' = TRUE
    /\ UNCHANGED <<config, llmStatus, selectedProvider, apiKey, model, busy,
                   request, reply, mixed, behind>>

CancelClear ==
    /\ confirmClear /\ busy = "no"
    /\ confirmClear' = FALSE
    /\ UNCHANGED <<config, llmStatus, selectedProvider, apiKey, model, busy,
                   request, reply, mixed, behind>>

(* onSave: an empty key field keeps the stored key, an empty model clears  *)
(* the override.                                                           *)
Save ==
    /\ Loaded /\ busy = "no" /\ ~confirmClear
    /\ busy' = "saving"
    /\ request' = [provider |-> selectedProvider,
                   key |-> IF apiKey = Default THEN "keep" ELSE apiKey,
                   model |-> IF model = Default THEN "clear" ELSE model]
    /\ mixed' = Marked("sent", "form" \in mixed)
    /\ UNCHANGED <<config, llmStatus, formVars, reply, behind>>

(* onClearConfirm: no model is sent, so the override stays, and the        *)
(* provider whose key is cleared becomes the active one.                   *)
ConfirmClear ==
    /\ confirmClear /\ busy = "no"
    /\ busy' = "clearing"
    /\ request' = [provider |-> selectedProvider, key |-> "clear",
                   model |-> "keep"]
    /\ UNCHANGED <<config, llmStatus, formVars, reply, mixed, behind>>

-----------------------------------------------------------------------------
(* The service.                                                            *)

(* How another provider's override may come to be stored: it was sent so,  *)
(* or it is kept, because it was stored so or by another provider's request*)
MayMix ==
    IF request.model # "keep" THEN "sent" \in mixed
    ELSE request.provider # config.provider \/ "stored" \in mixed

RequestArrives ==
    /\ request # Nothing
    /\ config' = SetConfig(config, request.provider, request.key, request.model)
    /\ mixed' = Marked("stored", Mixes(config') /\ MayMix) \ {"sent"}
    /\ request' = Nothing
    /\ UNCHANGED <<llmStatus, formVars, busy, reply, behind>>

Answered ==
    /\ busy \in {"loading", "saving", "clearing"}
    /\ request = Nothing /\ reply = Nothing
    /\ reply' = StatusOf(config)
    /\ behind' = FALSE
    /\ UNCHANGED <<config, llmStatus, formVars, busy, request, mixed>>

(* Another tab saves a provider with a model of its own or none, or clears *)
(* the key of the active one.                                              *)
OtherSaves ==
    /\ config' \in
           {SetConfig(config, r.provider, r.key, r.model) :
              r \in {q \in Requests : q.key # "clear"
                                     /\ q.model \in {"clear", q.provider}}}
           \cup {SetConfig(config, config.provider, "clear", "keep")}
    /\ mixed' = Marked("stored", Mixes(config') /\ "stored" \in mixed)
    /\ behind' = TRUE
    /\ UNCHANGED <<llmStatus, formVars, busy, request, reply>>

-----------------------------------------------------------------------------
(* The answers.                                                            *)

LoadReturns ==
    /\ busy = "loading" /\ reply # Nothing
    /\ llmStatus' = reply
    /\ selectedProvider' = reply.provider /\ model' = reply.model
    /\ mixed' = Marked("form", Mixes(reply))
    /\ busy' = "no" /\ reply' = Nothing
    /\ UNCHANGED <<config, apiKey, confirmClear, request, behind>>

(* Mutant: the answer to a cleared key is not shown. *)
ClearReturnsUnshown ==
    /\ busy \in {"saving", "clearing"} /\ reply # Nothing
    /\ llmStatus' = IF busy = "saving" THEN reply ELSE llmStatus
    /\ apiKey' = IF busy = "saving" THEN Default ELSE apiKey
    /\ confirmClear' = FALSE
    /\ busy' = "no" /\ reply' = Nothing
    /\ UNCHANGED <<config, selectedProvider, model, request, mixed, behind>>

SaveReturns ==
    /\ busy \in {"saving", "clearing"} /\ reply # Nothing
    /\ llmStatus' = reply
    /\ apiKey' = IF busy = "saving" THEN Default ELSE apiKey
    /\ confirmClear' = FALSE
    /\ busy' = "no" /\ reply' = Nothing
    /\ UNCHANGED <<config, selectedProvider, model, request, mixed, behind>>

(* The call fails: before the service saw it, or its answer is lost.       *)
CallFails ==
    /\ busy \in {"loading", "saving", "clearing"}
    /\ busy' = IF busy = "loading" THEN "error" ELSE "no"
    /\ behind' = (behind \/ (busy # "loading" /\ request = Nothing))
    /\ request' = Nothing /\ reply' = Nothing
    /\ mixed' = mixed \ {"sent"}
    /\ UNCHANGED <<config, llmStatus, formVars>>

(* ErrorState's retry.                                                     *)
Retry ==
    /\ busy = "error"
    /\ busy' = "loading"
    /\ UNCHANGED <<config, llmStatus, formVars, request, reply, mixed,
                   behind>>

SettingsNext ==
    \/ \E p \in Providers : ClickCard(p)
    \/ TypeKey \/ ChooseModel \/ AskToClear \/ CancelClear
    \/ Save \/ ConfirmClear \/ Retry
    \/ RequestArrives \/ Answered \/ OtherSaves
    \/ LoadReturns \/ SaveReturns \/ CallFails

SettingsSpec == LlmInit /\ PageInit /\ [][SettingsNext]_settingsVars

-----------------------------------------------------------------------------
(* A stored key is the one that was typed for its provider: cards can be   *)
(* clicked between typing, saving and the answer, and a failed save keeps  *)
(* what was typed.                                                         *)
KeysBelong == \A p \in Real : config.keys[p] \in {Default, p}

(* The override belongs to the active provider, whatever was clicked and   *)
(* in whichever tab, unless this very override was picked by the user from *)
(* another provider's, or kept when the key of an inactive provider was    *)
(* cleared (which activates that one).  An override that was mixed before, *)
(* and then replaced, excuses nothing.                                     *)
OverrideBelongs == Mixes(config) => "stored" \in mixed

(* When no call is on the way, the page shows the stored configuration,    *)
(* unless somebody else has changed it since or an answer was lost.        *)
ShownIsStored ==
    busy = "no" /\ ~behind => llmStatus = StatusOf(config)
=============================================================================
