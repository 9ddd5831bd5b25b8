# A verification of k8s-llm-incident-analyser

TLA+ models of the Kubernetes incident analyser: what its services do to
shared state, step by step, model-checked with TLC on small instances and,
for the results that matter most, proved with TLAPS for every instance.

The source is the reference. Each definition that models code is listed in
`PROJECT.json` (`map`) with the lines it stands for; paths below are relative
to the repository (`src/` is its root).

## 1. The system

The product is a set of FastAPI services around two stores. A client posts a
job; `orchestrator-svc` calls four services in turn, publishes what it does on
Redis pub/sub, and leaves a durable report and a job snapshot in SQLite.

```
 frontend / watcher
        |  POST /jobs, POST /jobs/{id}/cancel, GET /jobs/{id}/stream (SSE)
     gateway  (rate limit, proxy)
        |
  orchestrator ----> collector ----> (kubectl)
   |  Redis    \---> processor
   |  job:{id}  \--> llm ----> providers, Redis cache
   |  pub/sub    \-> reports ----> SQLite (incidents, analysis_jobs)
   |
 gateway ----> remediation ----> Redis (proposal, lock), kubectl
 gateway ----> scenario ----> kubectl
```

### Inventory

| component | state it keeps | operations | what is hard | what makes it correct |
|---|---|---|---|---|
| orchestrator: job store (`store.py`) | Redis hash per job (24 h TTL), list `job:queue`, channel per job | create, transition, complete, fail, get, list, clear | every method is several Redis commands; an HSET recreates an evicted key | a status is announced after it is written; a terminal status is backed |
| orchestrator: pipeline and API (`pipeline.py`, `main.py`) | one asyncio task per job, in memory only | POST /jobs, run, deadline, error handler, cancel one, cancel active | a task can be cancelled or time out at every await; creation, cancel and deadline race; restart resumes nothing | done => report stored; every job settles; done is never reopened |
| orchestrator: SSE (`main.py` stream_job) | subscription, buffered messages | subscribe, replay, forward, close | an event published between subscription and replay; a client that leaves | nothing is missed, the stream ends |
| reports (`db.py`, `main.py`) | SQLite `incidents`, `analysis_jobs` | save_report, upsert_job, reads | requests are best-effort, late, reordered; foreign key, COALESCE | a snapshot never claims a missing report |
| remediation (`main.py`, `manager.py`) | Redis record (TTL) and lock (180 s) per proposal; the Deployment | create, approve, reject | check-then-claim, lock TTL below kubectl's, partial failure, restart | never two applications at once; "pending" means untouched; "applied" means verified |
| watcher (`main.py`, `watcher.py`) | Redis cooldown key per incident | scan loop, POST /scan | claim, POST and release are separate; a timeout after the job was created | one job per incident and cooldown, or a retry |
| scenario (`scenarios.py`, `main.py`) | in-memory active set; the cluster | apply, reset, list | thread pool; memory and cluster diverge | active set = what is broken |
| llm: analysis (`main.py`, `cache.py`, `llm/`) | Redis cache, disabled flag | analyse | the configuration changes while the cache or the provider is awaited | a report names what made it |
| llm: configuration (`config_store.py`) | a JSON file | get, set, resolve | one model for all providers | the model and the key belong to their provider |
| gateway: rate limiter (`rate_limit.py`) | deque of hits per client | allow | window boundary | at most N per window |
| gateway: proxy | none | forward | - | stateless |
| collector | none | collect | - | stateless; a call that succeeds or fails |
| processor (`preprocessor.py`, `redactor.py`) | none | filter, redact | overlapping windows, truncation | signals are kept |
| frontend: diagnosis hook (`use-diagnosis-job.ts`, `sse.ts`) | phase, EventSource, poll timer | start, cancel, poll | late answers, reconnection | shows the job's real outcome |
| frontend: error queue (`error-queue.ts`, `errors-client.tsx`) | localStorage | add, update, reconcile | tabs and awaits | an item is not overwritten by an older answer |
| frontend: error page (`errors-client.tsx`, `error-card.tsx`, `error-detail.tsx`, `apply-fix-dialog.tsx`) | selection, filter, the pane's report, the dialog | select, filter, view, apply a fix, complete | answers to what is no longer selected; a dialog that outlives its item | what is shown and proposed belongs to the item |
| frontend: settings (`settings/page.tsx`) | form, last answer, call in progress | select, type, save, clear a key | cards can be clicked while a call runs; other tabs | keys and model are stored for the right provider |
| frontend: lists (`jobs/page.tsx`, `reports/page.tsx`) | filter, offset, rows | filter, page, refresh, clear, cancel | overlapping loads | the rows answer what the controls show |
| frontend: analyse page (`analyse/page.tsx`) | form, listed namespaces and targets | choose, submit | lists that answer late | a job is for a listed target |
| frontend: progress (`diagnosis-progress.tsx`) | stages, trace of the model's call | - | replay, reconnection, polls | nothing is ticked off before it happened |
| shared library, evaluation, demo, manifests, scripts | - | - | - | no run-time protocol of their own |

### Hard behaviours

`PROJECT.json` lists each hazard at its line. The ones that shaped the models:

1. **An await is an interleaving point.** `store.transition` is `await hset`
   and then `await publish`. A cancel or the deadline between the two leaves a
   status that nobody announced (`store.py:97`).
2. **Cancel against creation.** `create_job` awaits the "queued" snapshot
   before it makes the task (`main.py:107`, `:133`); a cancel in that gap finds
   no task.
3. **Deadline against completion.** `wait_for` may fire while a completed job
   is being archived; the handler then fails a done job (`main.py:128`).
4. **Late requests.** A client that gave up on reports-svc does not recall its
   request: snapshots arrive in any order.
5. **Restart.** Tasks live in memory and the lifespan resumes none of them.
6. **Check, then claim.** `approve_remediation` reads the status before it
   takes the lock and never again (`remediation/app/main.py:174`).
7. **A lock shorter than its section.** 180 s against two kubectl commands of
   up to 120 s each.
8. **Claim, submit, release.** The watcher claims an incident in Redis, posts
   the job and releases the claim on an error, in three awaits
   (`watcher/app/main.py:57-80`); a POST it gave up may still create a job.
9. **Four sources for one outcome.** The error page learns how a job ended
   from its stream, from polling while it reconnects, from reconciling its
   queue every 2 s, and from nothing at all after a reload
   (`use-diagnosis-job.ts`, `errors-client.tsx`).
10. **A page goes on while it waits.** Every page of the dashboard takes an
   answer in whatever state it is by then. Effects drop the answers of their
   predecessors (`error-detail.tsx:103`, `analyse/page.tsx:97`); handlers do not
   (`errors-client.tsx:311`, `jobs/page.tsx:70`).
11. **Belief and cluster.** scenario-svc patches with kubectl in a thread pool and
   remembers in a set what it did; tabs remember it in localStorage.
   Commands fail half way, calls overlap, the service is restarted
   (`scenarios.py:122`, `:137`, `:144`).
12. **Configuration in use.** POST /config rewrites what an analysis under way
   has read (`llm/app/main.py:207`).

## 2. The modules

| module | what it is |
|---|---|
| `JobStore` | Redis as the orchestrator uses it: one operator per command, the reads, and pub/sub delivery |
| `ReportsStore` | reports-svc: the wire to it, `save_report`, `upsert_job` |
| `Orchestrator` | EXTENDS `JobStore`, instantiates `ReportsStore`: job creation, pipeline task, cancel handlers, streams, faults; all their properties |
| `JobSpec` | the abstract promise of a job: absent, open, done, failed, and its report |
| `OrchestratorClaims` | statements of the repository's documents that the code does not keep |
| `MCOrchestrator` | the module TLC runs; constants are in the six `MCOrchestrator_*.cfg` |
| `OrchestratorProofs` | the theorems about `Orchestrator` |
| `Remediation`, `MCRemediation`, `RemediationProofs` | the same for remediation-svc |
| `Watcher`, `MCWatcher`, `WatcherProofs` | the same for watcher-svc |
| `DiagnosisClient`, `MCDiagnosisClient`, `DiagnosisClientProofs` | the same for the error page of the frontend; jobs are an instance of `JobSpec`, which `Orchestrator` is shown to implement |
| `ErrorWorkspace` | the error page around a diagnosed incident: cards, filter, pane, Apply Fix dialog |
| `LlmService` | llm-svc: configuration, analyses, cache; what the dashboard says of a report's source |
| `SettingsPage` | EXTENDS `LlmService`: the settings page over its configuration |
| `ListPage` | the jobs page and the reports page |
| `AnalysePage` | the form of Diagnose Target and the lists it loads |
| `DiagnosisProgress` | the stages and the trace shown of a running diagnosis, over a job and its event stream |
| `DemoWorkload` | scenario-svc, the cluster it patches, and the tabs that trigger errors and reset the demo |
| `RateLimiter` | the gateway's sliding window |
| `MCConsole` | composes these eight; the module TLC runs |
| `SettingsProofs` | the theorems about `LlmService` and `SettingsPage` |
| `PageProofs` | the theorems about `ErrorWorkspace`, `ListPage`, `AnalysePage` and `DiagnosisProgress` |
| `ServiceProofs` | the theorems about `DemoWorkload` and `RateLimiter` |
| `ConsoleProofs` | the theorems about their composition, `MCConsole` |

### Orchestrator: state and code

| variables | code |
|---|---|
| `status`, `fields`, `expiring` | the hash `job:{id}`: its `status`, which other fields it has, whether it has a TTL. "absent" is a missing key. `fields` matters because a hash without the creation fields cannot be read (`KeyError` in `_to_state`) |
| `queue` | `job:queue`, as a set |
| `inbox`, `spc`, `sjob`, `sent` | per stream: buffered pub/sub messages, where the generator is, the job it watches, the last event it sent |
| `pc`, `target`, `timedOut` | per job: the await the request handler and then the pipeline task is at, the status it is entering, whether it is in the `TimeoutError` handler |
| `cpc`, `todo`, `current`, `cancelled` | per cancel request: its await, the jobs left, the one at hand, what it will answer |
| `wire`, `row`, `linked`, `report` | requests on their way to reports-svc, and its tables |

One step is what the event loop does from one await to the next. The phases of
`pc` follow the code:

```
new -Create-> expire -Expire-> lpush -Enqueue-> snapshot -StartTask-> hset
                                            (create_job)         |  (Pipeline.run)
   hset -WriteStatus-> publish -PublishStage-> call -CallOk/CallFail-> hset
                              -PublishTerminal-> archive -ArchiveReturn-> ended
```

`Timeout`, `CancelTask`, `RedisError` and `Crash` interrupt this at any point
the code lets them. `CancelRead`, `CancelTask`, `CancelReread`, `CancelWrite`,
`CancelPublish` are `_cancel_job`, await by await; `CancelOne` and
`CancelActive` are its two callers.

Abstractions, all of them deliberate:

- Payloads (evidence, report text, latency, timestamps other than the order of
  `created_at`) are left out. Job ids are numbers in creation order.
- `queue` is a set: nothing in the repository pops the list.
- `_llm_stage_label` reads the provider's name before the "llm_call" status is
  written; its only effect is a label, and its await is merged with the HSET.
- A Redis command sent before its coroutine is cancelled is applied before any
  later command, so an HSET is either done or not when the task ends.
- A Redis command that raises is modelled as one that did not take effect; one
  that did is the interleaving in which the error hits the following command.
- The last `store.get` of cancel_job, whose result is the answer, is merged
  with the return.
- The page of `cancel_active_jobs` is a SCAN and one HGETALL per key; it is read in
  one step, because `CancelRead` reads each of its jobs again before it acts.
- LLEN's result in clear_queue is ignored (it is only logged and returned).

### Remediation: state and code

One proposal (proposals share nothing but the cluster). `record` is the status
in `remediation:{id}`, `locked` the key `remediation:{id}:lock`, `pc` the await
of each request, `outcome` what an approval is about to save, `patched` and
`rolledOut` what it did to the cluster. `mishaps` is a history variable: it
lets a property say "unless the lock ran out" or "unless an approval was cut
short" without hiding those behaviours. `Load` is the read and its 404/409,
`Claim` the SET NX, `SaveApplying`, `Patch`, `RolloutOk`, `SaveOutcome`,
`Release` the rest of `approve_remediation`. `KubectlFails` is a
`RemediationError`, which is recorded; `KubectlTimeout` is
`subprocess.TimeoutExpired`, which is not caught and only reaches `finally`.
`REMEDIATION_ENABLED` and the `confirm` flag are static checks and left out.

### Watcher: state and code

`pod` is what `kubectl get pods` shows of each pod (waiting reasons, restarts
at the threshold, phase "Failed"); `Signature` and `Detected` are the rules of
`KubernetesWatcher.scan`, and an incident is a pod with its signature, as the
Redis key is. `claim` is the set of cooldown keys. A process of `Scans` is the
watch loop or one POST /scan: `pc` is its await, `todo` the incidents it still
has to look at, `incident` the one at hand. `Skip` and `Claim` are SET NX EX;
`Accept`, `PostOk`, `PostRefused`, `PostTimeout` the POST to the orchestrator;
`Release` the DELETE; `RedisError` the exception that ends a scan and that only
the loop survives. `late` holds jobs a timed-out POST will still create.
`jobs`, `interrupted`, `troubled` and `faults` are history: the jobs of the
current cooldown, claims that an interruption left behind, and incidents whose
claim or POST was lost. `Count` caps `jobs` at two, which is all that
`OneJobPerCooldown` tells apart.

### DiagnosisClient: state and code

The page is one thread that is left at every await, so a call to the gateway is
the step that sends it, the one at the server, and the one that takes the
answer. A process is one call of `startDiagnosisForItem`: `call` is its await,
`owner` the item it is for, `victim` the job it cancels first, `stale` whether
`generationRef` has moved on.

| variables | code |
|---|---|
| `job`, `report`, `key` | the server: `JobSpec` with reopening, and whether the job's hash is whole, missing, or written again in part after it was dropped |
| `phase`, `jobId`, `terminal`, `closer` | the hook's state: `phase`, `jobIdRef`, `terminalRef`, `closeStreamRef` |
| `sources`, `inbox` | open EventSources, and the terminal event on its way to each |
| `effect`, `attempts`, `polls` | the mounted polling effect, its attempts, its answers on the way |
| `queue`, `qjob`, `incident` | status, `jobId` and `incidentId` of each item in localStorage |
| `pending`, `recs` | `pendingDiagnosisItemsRef`; answers of `reconcileDiagnoses` on the way |
| `flow` | Apply Fix, Mark as Completed or Reset Demo in progress |

Abstractions: one error page, left only by a reload (leaving it by navigation is
not modelled: a start that awaits its job then goes on without the page); a
request that is on its way at the reload still arrives ("abandoned",
`AbandonedArrives`), its answer does not; items are triggered from the scenarios
page, in another tab; what follows a click is rendered before anything else runs,
other changes are rendered later (`Render`), which mounts the polling effect again
because its callbacks are new in every render; one completion or reset at a time;
all items come from scenarios, which are completed together (an item whose source
is "detected", which nothing in the dashboard adds, is completed alone:
`MarkCompleted` of `ErrorWorkspace`); `diagnosisItemRef` is left out because the
branch that uses it writes what the caller writes anyway; stage events only change
what is shown.

### The console: state and code

`MCConsole` is the dashboard with what is behind each of its pages. The user has
one page open (`page`), and the parts share no state but llm-svc's
configuration, which its analyses read and the settings page rewrites. These two
act together: with the settings page open, analyses begin, await the cache and the
provider, and answer between any two steps of the page (`AnalysesStep`). Of any
other page only the part behind it moves, the others are UNCHANGED; so the states of
the run are the sum of the parts' states. On the page "analyses" two of them run
while any client of the API writes the configuration (`ConfigureStep`).
Each module also has a specification of its own.

**ErrorWorkspace.** `status` and `incident` are the queue's items, `about` the
item each report was made for. `queueFilter` is the tab in the address,
`selected` `selectedId`; `asked`, `shown`, `reportLoading`, `reportError` and
`paneCalls` are `ErrorDetail` (the effect's last input, its state, its calls on
the way); `fixItem`, `fixReport`, `fixReportError`, `fixCalls` are
`handleApplyFix`'s state, `fixPhase` the dialog's. A click on Apply is a
process of `Fixes`: `fix` is its await, `subject` the item and report it
captured. `CardOffers` and `PaneOffers` are the buttons each renders, from
which every action of the user takes its guard. `crossed` is history: whether the
dialog now has the report of another item, and which clicks were made in such a
dialog. Diagnoses
only begin and end here, their life is in `DiagnosisClient`; one page, one tab.

**LlmService.** `config` is the file; `analysis`, `using`, `made` each POST
/analyse: its await, what it read of the configuration before its first await,
what its report was made with; `cache` what each key holds, `client` the
`AnalysisCache`. All analyses have the same evidence, for the cache to matter;
a model or a key is named by the provider it is meant for. A provider's call,
with its retries, makes a report or fails. `AnalysisSource` and
`ReportPageSource` are what the error page and the report page print.

**SettingsPage.** `llmStatus` is the last answer, `selectedProvider`, `apiKey`,
`model`, `confirmClear` the form, `busy`, `request`, `reply` the one call that
may be on its way. `OtherSaves` is any other tab. `behind` and `mixed` are history;
`mixed` follows another provider's model from the form into the request and the
configuration, and is taken back wherever that model is replaced.

**ListPage.** One module for two pages that share their loading: `list` says
which. `filter` and `offset` are what `load` depends on, `draft` the form of the
reports page (`touched`: React compares objects, so an edited form equal to the
applied one still loads), `loads` the calls on the way, `acting` the handlers of
Clear queue and Cancel active with the query of the render they were clicked in.
`outdated` is history.

**AnalysePage.** The form, `listedFor` and `targetCalls` of the effect that lists
targets, `submitted` what the last job was created for. `NamespacesAnswer` may
choose a namespace without a click; `TargetsEffect` runs after that, and `torn`
records a submission between the two.

**DiagnosisProgress.** `reached` and `outcome` are the job, which goes on while its
creation is being answered, `stream` and
`forwarded` its SSE generator (subscribe, replay the state, forward), `polls` the
polls on the way, `phase`, `shownStatus`, `activity` the hook. `Ticked` and
`TraceSays` are what the component renders. `replayed` is history: a stream began
with the model's own stage and an older one was still to come.

**DemoWorkload.** `faults` and `deployed` are the cluster, `active` the service's
set, `open` the queue in localStorage, `activeErrors` what each tab shows of it,
`told` the storage events on their way. `applying` and `resetting` are, per tab,
where its call is: kubectl commands one by one (of a reset: delete, the four
manifests, the rollout), each of which may fail, be given
up after it was carried out, or meet the effects of another call. `overlapped`
and `disturbed` are history.

**RateLimiter.** `hits` is `_hits`; `passed` and `refused` remember what the
deque has forgotten. A restart forgets both.

Abstractions: payloads, toasts, wording and layout are left out; a user's click
is one step with the render that follows it, other renders are steps
(`PaneEffect`, `TargetsEffect`); what the cluster does by itself, and other
clients of the services than those named, are not modelled.

## 3. What is checked

Every property of a passing run has a mutant: a changed definition, of the kind
a plausible slip in that code would make, under which TLC finds the property
violated. The mutants stand before the definitions they change.

| run | instance | properties | shows |
|---|---|---|---|
| `orchestrator_safety` | 1 job, 1 stream, 1 cancel, every fault | `TypeOK`, `DoneHasReport`, `StreamDoneHasReport`, `SnapshotSound`, `DoneNeverReopens` | what is written and sent stays backed by SQLite under errors, loss, delay, eviction and restarts |
| `orchestrator_cancel` | 2 jobs, 1 cancel, deadlines | `NoOrphan`, `PromiseKept`, `JobsSettle` | cancelling one or all jobs leaves none without an owner; the pipeline implements `JobSpec`; every job settles |
| `orchestrator_stream` | 1 job, 2 streams, call failures, deadline, disconnects | `StreamCurrent`, `SnapshotAgrees`, `TerminalStays`, `StreamsEnd` | without cancels a stream misses nothing and ends, a terminal status stays, the snapshot has that status and is linked to the report if there is one |
| `orchestrator_reopened` | 1 job, 1 cancel, no fault | `CancelAnswersTerminal` | violated, see below |
| `orchestrator_unarchived` | 1 job, deadline | `FailureArchived` | violated |
| `orchestrator_silent` | 1 job, 1 stream, 1 cancel, fair | `TerminalJobEndsStream` | violated |
| `remediation_safety` | 2 approvals, 1 rejection | `TypeOK`, `MutualExclusion`, `PendingIsUntouched`, `AppliedIsRolledOut`, `DecidedIsFinal`, `Settles` | what the lock and the saved status guarantee, under expiry, errors and restarts |
| `remediation_decided` | 2 approvals, 1 rejection | `ClaimsUndecided` | violated |
| `watcher_safety` | 2 pods with 2 states, the loop and 1 scan request, 2 faults | `TypeOK`, `OneJobPerCooldown`, `SilencedHasJob`, `PersistingIsSubmitted` | an incident gets one job per cooldown; a claim does not silence an incident that has no job; one that persists is submitted |
| `client_page` | 2 items, 2 starts, 1 fault | `TypeOK`, `DiagnosedIsReal`, `FollowsLatest`, `FixedStaysFixed` | whoever answers, a diagnosed item has its own report; the hook follows the latest start; a completed incident is undone only by the three answers that completing it does not call back |
| `client_live` | 1 item, 2 starts, 1 fault | `DiagnosesEnd`, `PhaseSettles` | no item stays "diagnosing" and no phase stays running |
| `console` | 2 items and 2 reports; 2 real providers and 2 analyses; lists of 3 rows in pages of 2; 2 kinds and 2 namespaces; 2 runs; 1 scenario in 2 tabs; 2 clients | `ConsoleTypeOK`, `PaneIsCurrent`, `ProposedFromOwnReport`, `Provenance`, `OverrideBelongs`, `KeysBelong`, `ShownIsStored`, `RowsAnswer`, `TargetIsListed`, `ProgressIsReal`, `DemoAgrees`, `LimitIsExact` | see below |

What `console` shows, part by part:

- `PaneIsCurrent`: the pane shows the selected item's own report and is loading
  exactly while that report is, however fast the user moves.
- `ProposedFromOwnReport`: a change is proposed to the cluster only from a report
  of the incident it is asked for.
- `Provenance`: a report names the provider and model that made it, also from
  the cache and when the configuration changed meanwhile; both pages show that.
- `KeysBelong`, `OverrideBelongs`, `ShownIsStored`: a key is stored for the
  provider it was typed for, the model override belongs to the active provider, and
  the settings page shows what is stored.
- `RowsAnswer`: the rows of a list answer the filter and page its controls show.
- `TargetIsListed`: a job is created for a target listed for its kind and namespace.
- `ProgressIsReal`: no stage is ticked off, and no response said to be received,
  before the job is past it.
- `DemoAgrees`: the service's set, the queue and the faults in the cluster are the
  same when nothing is under way.
- `LimitIsExact`: at most `Limit` requests of a client pass in any window, and one
  is refused only when so many did.

All runs but `watcher_safety` have `CHECK_DEADLOCK FALSE`: the system stops when every
job, request and stream has ended, and waits for clients otherwise; in `console`
the parts end when their bounds are used up. The watch loop never stops, so
`watcher_safety` checks that there is no deadlock.

### Bounds

- `Jobs`, `Streams`, `Cancels` are bounded by the instance; no counter is
  capped. A job is created once, so a run is
  finite; `wire` is a set, so a request is on it at most once.
- One job is enough for the safety run: jobs share only the list that
  `cancel_active_jobs` reads and the queue. That list is what
  `orchestrator_cancel` has two jobs for, so that a handler which waits on one
  job races the other's creation, completion and deadline. `ListLimit = 2`
  there covers both; `ListLimit = 1` in the safety run is a full page.
- Two streams in `orchestrator_stream` let one subscribe late and one leave.
- `MaxFaults` bounds crashes, refused or lost calls, Redis errors and evictions
  of `Watcher` (2: one fault during the recovery from another) and the faults of
  `DiagnosisClient` (1). Liveness is stated for finitely many faults.
- The loop and one request are two scans over two pods: two scans at one
  incident, and one scan with another incident left to do.
- Two starts are a start and a restart of one item, or the starts of two items,
  whose jobs the one hook has to tell apart. `MaxAttempts = 1` makes the last
  poll the first; any number before it changes nothing but the counter.
  `MaxAnswers` caps the answers to reconciliation that are on the way at once: two
  in the safety run, so that one is older than the other.
- `console` has 2.3 million states: 1,107,000 of progress, 433,000 of the error
  page, 286,000 of the demo, 187,000 of analyses, 145,000 of settings, 92,000 of
  the lists, 62,000 of the limiter and 6,500 of the analyse page. Its one state
  constraint is `OneAtWork`: while the settings page is open, one analysis is at
  work, which read the configuration the page opened with, the cache is out of
  order, no other tab saves and no answer is lost (without the analysis the page
  has all of these, and two analyses with the cache are the page "analyses"). The
  proofs have no such bound. One of its two items is detected and one from a
  scenario, one report actionable and the other healthy, since buttons and dialog
  differ in these. One fix is applied: the dialog is modal, so a second begins
  only after it was closed over the first. `Real` has two providers, one with a
  key in the environment: the least for a key or a model to belong to the wrong
  one. `MaxRows = 3` with `PageSize = 2` has an empty, a full and a last page.
  `MaxLoads = 4` lets a load be overtaken twice. `MaxPolls = 2` has two polls race
  the stream and each other. `Window = 2` and `LastTime = 4` let a window open,
  fill and pass. The demo has one scenario in two tabs: two calls that overlap are
  the least for each hazard of it.
- Items are symmetric in `client_page`, which has no liveness property.
- Two approvals and one rejection suffice for every race on one lock: a third
  approval meets the lock held, free or expired, as the second does.

### Findings

The violation runs state what the repository says of itself and TLC refutes it.

1. **A cancelled job may run all the same** (`orchestrator_reopened`). A cancel
   that arrives while `create_job` awaits the "queued" snapshot fails the job;
   the task is created afterwards and overwrites "failed". The contract
   promises the "Current terminal job state".
2. **Timeouts are not archived** (`orchestrator_unarchived`), nor are cancelled
   jobs; `docs/architecture.md` says every failure is.
3. **A stream may never end** (`orchestrator_silent`). A cancel between the HSET
   of "done" and its PUBLISH finds the job terminal and announces nothing.
4. **A decided proposal may be applied** (`remediation_decided`). The status is
   checked before the lock is claimed and not again.

Others, met while modelling the console, where the repository promises nothing
that a run could refute, or where the models state what the code does instead:

5. *Apply Fix dialog.* It stays mounted while closed, and a fix that succeeds
   closes it without a reset: its "success" phase persists, and the dialog of the
   next item opens on it (`Fixed`; `apply-fix-dialog.tsx:57`,
   `errors-client.tsx:321`). It can be closed by Escape while a fix is applied;
   the end of that request then changes whichever dialog is open.
6. *After an approved fix* the queue's item keeps its status, although the dialog
   says that the incident has been marked as fixed (`apply-fix-dialog.tsx:274`).
7. *A late report* of one item enters the dialog of another (`crossed`;
   `errors-client.tsx:311`).
8. *A card* offers Apply Fix for a healthy report while the pane hides it
   (`CardOffers`, `PaneOffers`). Nothing outside the tests adds a "detected" item.
9. *Pane.* When the selected item loses its incident while its report loads,
   "loading" stays until the next report (`PaneEffect`, the case `None`).
10. *Settings.* Clearing the key of an inactive provider makes it the active one and
   keeps the other's model; each provider's list offers the one override.
   Mock reports are labelled with the override, too.
11. *Lists.* An overtaken answer replaces a newer one; Clear queue and Cancel
   active load what they were clicked under (`outdated`); a page beyond the end
   says that there are no rows, without a way back but the filter.
12. *Trace.* A stream replays the job's state and then forwards what was published
   before it, so the log may say that a response was received while the model is
   running (`replayed`).
13. *Analyse form.* Between the answer that chooses a namespace and the effect that
   drops the target, a job can be created for a target of the other (`torn`).
14. *Linked failures.* `contracts/database/schema.sql:139-141` says of a job's incident:
   "On failed, this remains NULL." A job whose POST /reports was committed although
   its answer was lost has failed and is linked to that report (`upsert_job` keeps the
   link, `db.py:187`), which `SnapshotAgrees` states.
15. *Demo.* After a restart of scenario-svc, a command that failed half way, a lost
   answer or an overlap, set, queue and cluster differ until a reset that nothing
   overlaps succeeds (`disturbed`).

### What weakens a property, and why

- The history variables of the console's modules except exactly the findings above
  from its properties: `crossed` from `ProposedFromOwnReport`, `mixed` from
  `OverrideBelongs`, `behind` from `ShownIsStored`, `outdated` from `RowsAnswer`,
  `torn` from `TargetIsListed`, `replayed` from `ProgressIsReal` (the trace only),
  `disturbed` from `DemoAgrees`. Each is as narrow as the code allows and is taken
  back where the code recovers: `crossed` when the dialog is closed, opened again or
  given its own item's report, and of a click only when it was made before that;
  `mixed` when the model is replaced, in the form, the request or the configuration, each by
  itself; `behind`, `outdated` and `disturbed` by the next good answer, load or
  reset; `replayed` by the next run. So the properties also say that the part recovers,
  and that nothing but the finding does it.
- Hazards that are what the code does, and of which the repository claims nothing else,
  have no property that catches them: a late "queued" snapshot overwrites a terminal
  one, `cancel_active_jobs` leaves jobs beyond its page running. `PROJECT.json` says so
  at each of them.
- `DoneNeverReopens` allows "done" to become "failed": the deadline can do that
  (hazard 3), and `JobSpec` names it (`Fail`).
- `JobSpec` has the constant `Reopens`: a failed job may be analysed further
  only where cancellation is offered (finding 1). Without cancels,
  `TerminalStays` holds.
- `NoOrphan` and `JobsSettle` hold without restarts, Redis errors and eviction:
  a restart resumes nothing, and an error inside the error handler leaves the
  job in its stage. Their run, and the theorem, say so in `Faults`.
- `StreamsEnd` is checked without cancels because of finding 3.
- `OneJobPerCooldown` excepts incidents whose POST was given up while the
  orchestrator was still at it, or whose key was lost: then a second job is
  created. `SilencedHasJob` excepts claims that a crash or a Redis error left
  behind: they silence their incident until the cooldown ends, which is why
  `PersistingIsSubmitted` needs `Expire`.
- `FixedStaysFixed` excepts (`Quiet`) the three things that completing an item does
  not call back and that do not look at its status again: an answer to
  reconciliation (`errors-client.tsx:185`), a Re-diagnose that waits for its cancel
  (`errors-client.tsx:113`), and a poll of an effect that is mounted until the next
  render. A stream, a start and another item's diagnosis may be under way.
- `DiagnosesEnd` and `PhaseSettles` except a job whose hash was dropped and
  written again (`Unreadable`): GET answers 500, reconciliation ends an item
  only on 404, and the page's refresh mounts the polling effect again before
  its 15 attempts are used up. Such an item can only be restarted, which fails,
  or cleared.

### Fairness

`FairSpec` of `Orchestrator` has weak fairness on each job's creation and task,
each cancel handler, each stream, and on serving the wire. The event loop runs
every ready coroutine; every downstream call has an httpx timeout and the
pipeline as a whole a deadline, so each await returns; reports-svc handles what
reaches it. There is no fairness for clients (creating, cancelling, opening or
leaving a stream) or faults. Each of these processes has at most one enabled
continuation besides faults, and a step of another process disables it only
through a fault or a cancel, so weak fairness is enough. `Remediation` has
weak fairness on each approval's own steps: kubectl has a timeout.

`Watcher` has weak fairness on the loop's scans of all pods (it sleeps and
scans for ever), on each scan's next step (kubectl, Redis and httpx have
timeouts), and on the expiry of each key.

`DiagnosisClient` assumes that jobs end (`JobsSettle`), that calls are answered,
that an open stream delivers its terminal event or reports an error, that
reconciliation and polling timers fire, and that React renders a changed phase:
weak fairness. The answer to a poll needs strong fairness, because a render
drops the answers on the way: it says that not every poll is overtaken by a
render. There is none for clicks, renders for other reasons, or faults.

The modules of the console state safety only and no fairness.

## 4. What is proved

TLAPS proves these for all values of the constants that satisfy the modules'
assumptions: any number of jobs, streams, cancel requests, approvals, items,
providers, tabs and clients, any window, limit and page size, and any set of faults
unless it is named.

The assumptions say that a few things exist (a limit or a page size is
positive, `Items` is not empty) and that the names the code treats apart are
different: `NoJob` is no job, "mock", "default", "keep" and "clear" are no provider
that needs a key (`LlmAssumption`), no item or report is the absence of one
(`WorkspaceAssumption`), "all" is no filter and no namespace. TLC evaluates all
of them in the runs.

Every invariant and every action property of a passing run is among these
theorems; what remains model-checked only is liveness.

| theorem | statement | inductive invariant |
|---|---|---|
| `OrchestratorProofs!TypeCorrect` | `Spec => [](TypeOK /\ CallInv)` | itself |
| `DoneIsBacked` | `Spec => []DoneHasReport` | `ReportInv` |
| `StreamDoneIsBacked` | `Spec => []StreamDoneHasReport` | `ReportInv` |
| `SnapshotIsSound` | `Spec => []SnapshotSound` | `ReportInv` |
| `DoneIsFinal` | `Spec => DoneNeverReopens` | `DoneInv` |
| `NobodyWaits` | without "crash", "redis", "evict": `Spec => []NoOrphan` | `OrphanInv`, `KeptInv` |
| `ImplementsPromise` | without "evict": `Spec => PromiseKept` | `KeptInv`, `FailedInv`, `DoneInv`, `ReportInv` |
| `TerminalIsFinal` | without cancels and "evict": `Spec => TerminalStays` | `DoneInv`, `KeptInv`, `FailedInv` |
| `StreamsAreCurrent` | without cancels, "evict" and "redis": `Spec => []StreamCurrent` | `Announced`, `StreamInv` |
| `SnapshotsAgree` | without cancels, `NoLateAnswers`: `Spec => []SnapshotAgrees` | `Announced`, `SnapshotInv`, `LinkedInv` |
| `RemediationProofs!TypeCorrect` | `Spec => []TypeOK` | `IInv` |
| `ApprovalsExclude` | `Spec => []MutualExclusion` | `LockInv` |
| `PendingHasDoneNothing` | `Spec => []PendingIsUntouched` | `UntouchedInv` |
| `AppliedIsVerified` | `Spec => []AppliedIsRolledOut` | `OutcomeInv` |
| `DecisionIsFinal` | `Spec => DecidedIsFinal` | `Settled`, from the decision on |
| `WatcherProofs!TypeCorrect` | `Spec => []TypeOK` | itself |
| `SubmittedOnce` | `Spec => []OneJobPerCooldown` | `OwnedInv` |
| `SilencedIsBacked` | `Spec => []SilencedHasJob` | itself |
| `DiagnosisClientProofs!TypeCorrect` | `Spec => []TypeOK` | itself |
| `StreamIsLatest` | `Spec => []FollowsLatest` | `HookInv` |
| `DiagnosedIsStored` | `Spec => []DiagnosedIsReal` | itself, with `ServerInv`, `LinkInv`, `AnswersInv` |
| `FixedIsKept` | `Spec => FixedStaysFixed` | `FixedInv`, with `HookInv`, `AnswersInv` |
| `SettingsProofs!ReportsNameTheirModel` | `LlmSpec => []Provenance` | `LlmInv` |
| `KeysStayWithTheirProvider` | `SettingsSpec => []KeysBelong` | `SettingsInv` |
| `OverrideStaysWithItsProvider` | `SettingsSpec => []OverrideBelongs` | `SettingsInv` |
| `PageShowsWhatIsStored` | `SettingsSpec => []ShownIsStored` | `SettingsInv` |
| `PageProofs!PaneStaysCurrent` | `WorkspaceSpec => []PaneIsCurrent` | `WorkspaceInv` |
| `ProposalsUseTheirOwnReport` | `WorkspaceSpec => []ProposedFromOwnReport` | `WorkspaceInv` |
| `RowsFollowTheControls` | `ListSpec => []RowsAnswer` | `ListInv` |
| `JobsAreForListedTargets` | `AnalyseSpec => []TargetIsListed` | `AnalyseInv` |
| `ProgressShownIsReal` | `ProgressSpec => []ProgressIsReal` | `ProgressInv` |
| `ServiceProofs!QuietDemoAgrees` | `DemoSpec => []DemoAgrees` | `DemoInv` |
| `LimitHolds` | `LimiterSpec => []LimitIsExact` | `LimiterInv` |
| `ConsoleProofs!ConsoleTypes` | `ConsoleSpec => []ConsoleTypeOK` | `ConsoleInv` |
| `ConfigurationIsShared` | `ConsoleSpec => [](KeysBelong, OverrideBelongs, ShownIsStored and Provenance)` | `ConsoleInv` |
| `PartsKeepTheirPromises` | `ConsoleSpec => [](...)`, the other invariants of `console` | `ConsoleInv` |

The argument for the reports. `DoneHasReport` alone is not inductive: a task
that is about to write "done" must already have its report, and a "done" event
that waits in a stream's buffer must be backed too. `ReportInv` adds
`TargetHasReport` (a task that enters "done" has its report; true because
`CallOk` leaves "persisting" only with the report committed) and
`InboxHasReport` (every buffered "done" is backed). Reports are never deleted,
so other steps keep them. `SnapshotSound` needs nothing of the tasks: the
foreign key protects it.

The argument for `DoneIsFinal`: `DoneInv` says that a done job has been created
and its task's target is terminal, and no action takes a terminal target back
to a stage.

The argument for `NobodyWaits`: `OrphanInv` follows a task from the moment it is
cancelled. The cancel handler is then at "reread", sees a non-terminal status,
goes to "hset" and writes "failed"; a task that ends by itself has written its
terminal status before.

The argument for `ImplementsPromise`: a step of the system is a stutter, or one
step of `JobSpec` for one job. `KeptInv` says which jobs have a key, so that no
write resurrects one, which is why eviction is excluded; `FailedInv` that,
where there are no cancels, a failed job's task has nothing but "failed" left to
write, which is what `Reopens = FALSE` demands.

The argument for `TerminalIsFinal` is the same two invariants read the other way:
a terminal job's task has only a terminal status left to write. Where jobs are
cancelled it is false (finding 1), and so is the theorem's conclusion under
eviction, which takes the status away.

The argument for `StreamsAreCurrent`. That a live stream shows the status is
not inductive: what it will show may still be in its buffer, or not yet
announced, or it may have subscribed without having read the state. `StreamInv`
says of a stream with a buffer that the *last* message is the status, of a live
one without a buffer that what it sent is, both unless the job's task is between
its HSET and its PUBLISH; and that buffers of others are empty. `Announced` says
that a task which is about to publish publishes what the hash holds. A cancel
writes and announces on its own, an error of Redis skips a PUBLISH, an eviction
takes the hash: these break `Announced` or `StreamInv`, and are excluded as in
the run.

The argument for `SnapshotsAgree`. `LinkedInv` says that a job's row exists before
its report is sent, so the upserts that follow link it, and none unlinks it.
`SnapshotInv` says what may be on the wire about a job at each await of its
creation and of its task; in "archive" and after it, nothing that could overwrite
the final snapshot. This is true because the task awaits each answer, so a request
that is lost, answered late, or outlives a timed-out task is excluded
(`NoLateAnswers`, `timedOut`).

The remediation argument: `LockInv` says that, unless the lock ran out, an
approval in its section implies the lock, and two are never in it;
`UntouchedInv` that a "pending" record has no patched approval, which needs that
"applying" is saved before the patch and never undone; `OutcomeInv` that an
approval about to save "applied" has patched and verified. `DecisionIsFinal` is
a property of a state's whole future: `Settled` says that the record is
that decision and no request in flight has found it pending, and every step
keeps it, because a request that comes later reads the decision and is refused.

The watcher argument: `OwnedInv` says that, of an incident nothing was lost of,
the claim belongs to the one scan that is at it or to the job that scan has
created; so a second scan cannot claim it, and a second job is not created.

The client argument. `FollowsLatest` is not inductive: the closer outlives its
stream, and a start that was not superseded may return at any time. `HookInv`
states it of the closer and adds that at most one start under way has the
current generation. For `DiagnosedIsReal` what is on its way must be true
already: `AnswersInv` says that every "done" in a stream, a poll or a
reconciliation is of a stored report, and that an answer carries the item its
job was started for; `LinkInv` that an item's job was started for it;
`ServerInv` that a job exists only after its start, so that no later click
changes whose it is (`Stable`). For `FixedIsKept`, `FixedInv` says that the stream of
an item that reads "fixed" is closed and its starts are superseded: completing it
reset the hook.

The settings argument. `Provenance` needs `WorkInv`: from its first await to its
answer, an analysis has a provider and a model, and its report was made with them.
`KeysBelong` is about what is stored, but what is stored was in a form and then
in a request: `FormInv` and `SettingsTypeOK` say that a key in either is its
provider's; `MixInv` follows a model through the form, the request and
the configuration, and says of each place that it has another provider's only if `mixed`
names it. `CallInv` says that an
answer on its way is what is stored, unless `behind`.

The page arguments. `PaneIsCurrent` speaks of the state after an effect has run;
`PaneInv` says of *every* state that the pane loads exactly while the call of its
last effect is on its way, and shows what that call brought.
`ProposedFromOwnReport` needs that a report belongs to its item wherever it is:
with the item (`IncidentInv`), on its way into the dialog and in it (`DialogInv`), and
in a request that captured it (`FixInv`). `RowsAnswer` needs `LoadInv`: a load
that is the newest and was not begun under an older render asks for what the
controls show. `TargetIsListed` needs `TargetInv`: the chosen target, and once
the list is loaded all it offers, is of what the last effect asked for.
`ProgressIsReal` needs that what the page, a poll or the log says was reached by the job
(`ShownInv`, `EntryInv`) and that the log's stages do not overtake the stream's
(`OrderInv`). That a log's first entry exists is an instance of the least-element
principle (`HasFirst`), which stands for the induction the provers do not have.

The demo argument. `DemoAgrees` speaks of tabs at rest. `QuietInv` says, while
nothing is disturbed, that applies and resets exclude each other; that outside a
reset the cluster's faults are the active set and the scenarios on their way into
it, and the active set the queue and those on their way into that; and, inside a
reset, that what its commands have restored stays restored (`Cleaned`, `Rebuilt`).
`AloneInv` says the last without "undisturbed": a reset that nothing overlapped
cleans up whatever was wrong, which is what takes `disturbed` back. `TabInv` says
that a tab which was told everything shows the queue.

The limiter argument. The deque forgets, so `LimiterInv` relates it to the
history: what was let through is ordered (`InOrder`), the deque is an end of it
and what it has lost is out of the window (`EndOf`), and two requests `Limit`
apart are more than a window apart (`Spaced`), from which the bound on every
window follows by counting (`WindowHolds`). Behind a refusal are `Limit` requests in a
row that the window holds exactly (`Full`); later requests cannot enter that
window, because the next one that passes is more than a window behind
(`PassFits`). The loop that pops the deque is `Popped`, the number of its rounds
the one at which it stops (`LoopStops`, by the least element that is not old).

The console argument. A step of `MCConsole` is a step of each part, or leaves
it alone (`PartsMove`), so the parts' invariants hold together. The configuration
has two users that act in one behaviour. A step of an analysis leaves the configuration
and the page alone, so it keeps the page's invariant (`PageKeeps`); a step of the
page may change what an analysis read before its await, but `LlmInv` speaks of what the
analysis has captured and needs of the configuration only that it stays one
(`ConfigMoves`). `ConfigInv` is both.

### Only model-checked

- Liveness: `JobsSettle`, `StreamsEnd`, `Settles`, `PersistingIsSubmitted`,
  `DiagnosesEnd`, `PhaseSettles`. Fairness and ENABLED are out
  of the prover's reach.
- The violation runs: a counterexample is a behaviour, and TLC shows it.
- `NobodyWaits`, `ImplementsPromise`, `TerminalIsFinal`, `StreamsAreCurrent` and
  `SnapshotsAgree` name the faults they exclude, and hold under more faults than
  their runs have. Under the excluded ones nothing is claimed, neither by a run
  nor by a theorem: a cancelled job is not archived, a Redis error in a handler skips
  an announcement, an evicted hash has no status (see "What weakens a property").
- Recursive definitions and induction over data are out of the provers' reach;
  the modules have none. Where the code loops over a sequence, the model names
  the place where the loop stops, and the proof takes the least one.

## 5. What is not modelled, and why

- gateway proxying, collector, shared library: stateless; to the orchestrator
  each is a call that succeeds or fails, which `CallOk` and `CallFail` cover.
- processor: a pure function of a package, line filter and redaction by regular
  expressions, in which nothing interleaves; unit tests reach its windows.
- Prompts, parsing of provider output, and the retries inside a provider's call:
  text processing against external services. To the caller a call succeeds or fails.
- GET /jobs, GET /jobs/{id}, GET /scenarios, report lists and statistics: reads only.
- Of the frontend: charts, layout, toasts, exports, the report page but for the
  source it names, the home page but for "Cluster ready", the sidebar's health
  check. They show one answer and keep no state that another part reads.
- Leaving a page by navigation: a start that awaits its job then goes on without
  the page (`use-diagnosis-job.ts:310`). A component that is unmounted needs a second
  mounted one beside the first one's pending calls.
- The growth of `job:queue`, which nothing pops (`store.py:66`), the cache that
  stays disabled after one failed ping (`cache.py:80`), and the deques of clients that
  never return (`rate_limit.py`): they cost memory or time and nothing depends on them.
- Evaluation scripts, the demo workload itself, manifests: no protocol.

## 6. Plan

All rows are done. What is left is liveness, which the provers do not reach.

| step | modules | question | abstract specification, theorems |
|---|---|---|---|
| 1 | `JobStore`, `ReportsStore`, `Orchestrator` | does a job keep its promises | `JobSpec`; safety and refinement proved |
| 2 | `Remediation` | does an approval apply a proposal once, and only a pending one | mutual exclusion and record soundness proved |
| 3 | `OrchestratorClaims` | what the documents promise and the code does not | - |
| 4 | `Watcher` | is an incident submitted once per cooldown; what a timeout, a restart or two concurrent scans do to that | both safety invariants proved |
| 5 | `DiagnosisClient` | does the page show the job's real outcome with SSE, reconnection, polling and reconciliation; do its awaits overwrite newer state | composed with `JobSpec`; all its safety properties proved |
| 6 | `LlmService`, `SettingsPage` | does a report name what made it; do keys and model belong to their provider | all safety properties proved |
| 7 | `ErrorWorkspace`, `ListPage`, `AnalysePage`, `DiagnosisProgress` | does a page show and submit what belongs to what is selected | all safety properties proved |
| 8 | `DemoWorkload` | do service, tabs and cluster agree when calls overlap or fail | proved |
| 9 | `RateLimiter`, `MCConsole` | is the limit exact; the composition | both proved |
| 10 | proofs | the rest of `Orchestrator` and `Remediation`: streams, snapshots, final statuses and decisions | proved |
