# daiki-aipass-backend: a verification project

The backend is a Go service that stands between people (or API keys, or guests)
and a LiteLLM proxy. It decides who may use which model, how many tokens they
have left, how many inferences run at once and which provider serves them, and
it keeps chat sessions whose answers are produced in the background. PostgreSQL
holds what must last (users, policies, the usage ledger, sessions, runs); Redis
holds what is shared and short-lived (queues, leases, reservations, rate and
health counters); the process itself holds a map of cancel functions.

Paths below are relative to the repository, which this project calls `src/`.

## 1. Inventory

| Component | State | Operations | Interacts with |
|---|---|---|---|
| Inference queue, `internal/inference/queue.go` | Redis: a sorted set of waiting requests per workload with payload hashes, two sorted sets of leases (global, per workload), a key per principal | `Acquire` (enqueue, poll, grant script, cancel), the renewal goroutine of a ticket, `Release`, `Snapshot` | called by `proxyLiteLLM` after the quota, and by guest and research inference |
| Chat runs, `cmd/api/chat_runs.go`, `store/chat_runs.go` | PostgreSQL: `chat_runs`; the map `chatRunCancels` | start, pause, resume, cancel, the worker `executeChatRun`, `RecoverInterruptedChatRuns` | chat sessions; the model by way of an internal HTTP call |
| Chat sessions, `cmd/api/chat_sessions.go`, `store/chat_sessions.go` | PostgreSQL: `chat_sessions`, `chat_messages` | append, edit with truncation, delete | runs read and append to a session, an edit cancels a run |
| Token quota, `cmd/api/access.go` | Redis: pending counters per window, reservations per request, a blocked flag | `evaluateQuota`, `reserveQuota`, `releaseReservation` | ledger, resets, `proxyLiteLLM` |
| Quota resets, `access.go`, `store/quota_resets.go` | PostgreSQL: grants and reset events | user and administrator resets, clearing of the Redis state | moves the start of every window |
| Usage ledger, `store/store.go` | PostgreSQL: `usage_ledger` | `StartUsageForPrincipal`, `FinishUsage`, summaries | read by the quota |
| Model admission and recovery, `model_runtime.go` | Redis: token buckets, daily counts, circuits, observed limits | admission, waiting, spilling to another model, retries, circuits | called by `proxyLiteLLM` for every upstream call |
| Model pool, `model_pool.go` | Redis: health and weights of free models | selection by score and remaining allowance | admission and recovery |
| Routing, `internal/inference/router.go` | none | aliases to a workload and a model | queue, recovery |
| Guests, `guest.go`, `guest_generation.go`, `guest_admin.go`, `store/guest_policy.go` | Redis: rate windows per device, daily capabilities per network, quota; PostgreSQL: policy | guest inference, generation with a refund of the capability, resets by an administrator | queue, ledger, attachments |
| Attachments, `attachments.go`, `guest_attachments.go` and their stores | PostgreSQL: rows; files on disk; Redis: uploads per hour | upload with limits, storing a generated file, deletion, cleanup by age, expansion into a chat | chat and guest inference read them, generations write them |
| Authentication, approval, API keys, `main.go`, `access.go`, `store/store.go`, `store/admin_control.go` | PostgreSQL: users, roles, keys | sign-in, approval, pending chat, role changes | every handler |
| Password reset and Gmail, `gmail.go`, `store/auth_integration.go` | PostgreSQL: hashed tokens, the OAuth integration; Redis: requests per window, states of the OAuth flow | request and confirm a reset, connect and disconnect the account | Keycloak, Google |
| Model providers, `model_providers.go` and its store | PostgreSQL: providers, models, aliases; in LiteLLM: deployments | save, test, delete a provider; register, update, delete a model; set an alias; synchronise, also at start-up | LiteLLM; the recovery reads the rows |
| Research, `research*.go`, `store/research_evidence.go` | Redis: rows per engine and query, last good rows, circuits; the usage ledger as evidence | decide, plan, search, select, fetch, verify, ground the answer | search engines, pages, the model |
| Smart tools, `smart_tools.go` | none that lasts | a loop in which the model plans up to two rounds of tools, charged to the chat | the chat of an account, LiteLLM |
| Payload shaping, documents, reports | none that lasts | JSON rewriting, rendering, read-only queries | chat |

### Which behaviour is hard

* *Queue.* Every script is atomic in Redis, but the clock it compares expiries
  with is read by the client before the call; scripts of different workloads
  share one lease set; answers get lost after the script has run; renewals are
  fire-and-forget and race the release; processes die while they hold a lease.
  It is correct when what is served never exceeds the three limits, no lease
  lapses under a handler that keeps its schedule, nothing brings a released
  lease back, the two lease sets agree, requests are served in order, every wait
  ends and every place comes back.
* *Chat runs.* Pause and cancel write a status and then call a cancel function,
  the worker looks at the status, the context and the session at other moments
  and writes without comparing; a session is edited under a worker; the process
  ends anywhere and a recovery statement runs at the next start. It is correct
  when a completed run has an answer, a stop in time is honoured, no answer to a
  text that is gone is saved, no cancel function is stale, and no run looks
  active for ever.
* *Quota.* The decision uses a number read from PostgreSQL before a script in
  Redis uses it; reservations are capped per window; releases and ledger writes
  run under a context that dies with the client, and their errors are dropped;
  keys expire; windows move; resets delete the counters under running requests.
  It is correct when usage and reservations stay within each limit, a served
  request is always counted, a release never takes what others reserved, and in
  the end nothing stays pending.
* *Admission and recovery.* Several checks on several counters, with fallbacks,
  waits, compatibility retries and circuits, in loops that must end; a model
  that is exhausted must not be asked, one that has recovered must be.
* *Guests.* The clock is read before a script runs; the wait that is shown is
  computed by another script than the one that enforces; a refund names the key
  of the day on which the generation failed. It is correct when chats are as far
  apart as the policy says and a network generates no more than its day allows.
* *Attachments.* What is stored is measured before a file is written and entered
  afterwards; rows go before files; a chat extracts files whose rows it has read
  earlier. It is correct when what is listed has content, nothing stays on disk
  unnamed, and parallel uploads exceed the policy by a bounded amount.
* *Access.* The row of a user is read once per call while administrators change
  it; roles live in Keycloak, in tokens and in the database; a change is several
  calls that fail one by one. It is correct when whoever is served was entitled to it
  during the call and nobody is approved whom no administrator wanted.
* *One-time things.* A token of a password reset and a state of the OAuth flow
  are used once, whoever retries; sessions end with their password; a
  disconnection must not leave a revoked token in use.
* *Providers.* Two stores without a transaction, several administrators, a
  restart. It is correct when a synchronisation repairs whatever was left and a call that
  runs alone leaves the stores in agreement.
* *Research.* Old rows stand in for failed searches, goroutines write into what
  is verified next, an answer must rest on evidence or be refused.

## 2. Plan

1. `ConcurrencyLimiter` (what the queue promises), `InferenceQueue`, their runs
   and `InferenceQueueProofs`: **done**.
2. `ChatRuns`, with the session it works on, its runs and `ChatRunsProofs`:
   **done**.
3. `QuotaReservation`, with ledger and resets, its runs and `QuotaReservationProofs`
   (on `SumTheorems`): **done**. Left open: what a reset leaves true of the counters.
4. `ModelRecovery` (the recovery loop with daily counts, circuits, observed limits
   and the pool's choices), its runs and `ModelRecoveryProofs`: **done**;
   `TokenBucket`: **done**. Left open: the scores and weights of the pool against a
   reference definition.
5. `InferenceRequest`, the life of one request of each of five handlers: **done**.
   Left open: its composition with the queue's and the quota's own modules.
6. The services around them — `GuestRate`, `GuestCapability`,
   `AttachmentStorage` and `WindowCounter`, `PasswordReset`, `GmailConnection`,
   `AccessControl`, `ProviderCatalog`, `ResearchLookup`, `ResearchChoices`,
   `ResearchPipeline` — and their common run: **done**, with `AccountsProofs`,
   `ServingProofs` and, for the choices and the composition, `ServicesProofs`.

The services share one run, `services`: they share no state, so `MCServices`
instantiates all of them and the initial state picks which one moves.

## 3. Modules

| Module | Lines of code it stands for | Role |
|---|---|---|
| `ConcurrencyLimiter` | the limits of `QueueConfig` | abstract: start within the limits, stop |
| `InferenceQueue` | `queue.go` | detailed; implements the limiter when the schedule is kept |
| `InferenceQueueProofs` | | theorems |
| `ChatRuns` | `chat_runs.go`, the store's runs and sessions | detailed |
| `ChatRunsProofs` | | theorems |
| `QuotaReservation` | quota of `access.go`, the calls of `proxyLiteLLM`, ledger, resets | detailed |
| `QuotaReservationProofs` | | theorems |
| `SumTheorems` | | lemmas about sums over finite sets |
| `ModelRecovery` | `doModelRequestWithRecovery` of `model_runtime.go`, the choices of `model_pool.go` | detailed |
| `ModelRecoveryProofs` | | theorems |
| `TokenBucket` | `modelAdmissionCost`, `tryModelAdmission`, `waitForModelAdmission` of `model_runtime.go` | detailed |
| `InferenceRequest` | the handlers of `main.go`, `guest.go`, `guest_generation.go`, `user_file_generation.go` | one request, what it takes and gives back |
| `GuestRate` | `enforceGuestRate`, `guestRateRetryAfter` of `guest.go` | detailed |
| `GuestCapability` | daily capabilities and generation in `guest_generation.go` | detailed |
| `AttachmentStorage` | `attachments.go`, `guest_attachments.go`, their stores, `expandChatAttachments` | detailed |
| `WindowCounter` | the INCR and EXPIRE of uploads and reset requests | detailed; extended by `PasswordReset` |
| `PasswordReset` | the reset in `gmail.go`, `store/auth_integration.go` | detailed |
| `GmailConnection` | the OAuth connection in `gmail.go` | detailed |
| `AccessControl` | `auth`, the middlewares, administration of users in `main.go`, `access.go` | detailed |
| `ProviderCatalog` | `model_providers.go` and its store | detailed |
| `ResearchLookup` | `searxSearchWithLanguage` of `research.go`, `research_evidence.go` | detailed |
| `ResearchChoices` | `researchSearchPlan` and the selection in `research_locality.go` | two functions, checked on all bounded inputs, and proved for all |
| `ResearchPipeline` | `enrichChatWithResearch`, `webResearchWithPreferences`, `enforceResearchGrounding` | detailed |
| `ServingProofs` | | theorems about `InferenceRequest`, `GuestRate`, `GuestCapability`, `AttachmentStorage`, `TokenBucket`, `ResearchPipeline`, `ResearchLookup` |
| `AccountsProofs` | | theorems about `WindowCounter`, `PasswordReset`, `GmailConnection`, `AccessControl`, `ProviderCatalog` |
| `ServicesProofs` | | theorems about `ResearchChoices` and about the composition in `MCServices` |
| `MC...` | | instances for TLC: values of the constants, symmetry; `MCServices` joins the services |

Definitions whose comment says `mutant` are plausible bugs. No behaviour uses them; a property is
worth its run when putting the mutant in place of the definition it stands
before makes the run fail.

### InferenceQueue

*State.* `clock` is the wall clock. Per request: `pc` (new, polling, calling,
granted, holding, cancelling, releasing, released, ended, crashed), `live` (its
context is not done), `sampled` (the clock read of its script in flight),
`renewer` and `due` (its goroutine and the next tick). Redis: `score` and
`deadline` of the queue entries, `holder` and `holderExpiry` of the principal
keys, `globalLease` and `workloadLease`, the expiries in the two sorted sets.

*Steps.* One Lua script is one step: `TryAcquire` is the whole grant script with
its purges, its scan of at most `Window` entries and its deletion of stale ones;
`RenewRun` and `Release` are the renewal and the release script. `Poll` and `RenewSend` read the
clock, so that script and clock read are apart by up to `MaxDelay`. `Answered` is
the answer of a grant, `CallFails` a failing call, also after its script has
run. `ContextDone`, `Crash`, `ReleaseLost` and `RenewLost` are the environment.
A process that crashes loses its goroutine, but a renewal it has sent may
arrive (`Gone`).

*Schedule.* When `Prompt` is TRUE the clock does not pass a point by which a
script, an answer or a tick is due (`Punctual`), and no renewal is lost: the
schedule the constants of the code are chosen for (renewals every third of
the TTL). With `Prompt` FALSE everything may be arbitrarily late.

*Left out.* The EXPIRE of the queue's own keys, the hash that maps leases to principals
(statistics only), and a service without Redis (`a.queue == nil`, where
nothing is limited). `cfg.PerPrincipalLimit` is read by no code: the limit per
principal is the one of an existing key, which is what the model has.

### ChatRuns

*State.* One session: `messages` (user messages carry a text number, answers do
not), `session` (it exists), `status` of each run, the map `cancels`, and per
worker goroutine its run, its phase, whether its context is live, and the text
it has read; per tab the step of the handler it is in. `up` tells whether the
process runs. `stopped` and `resumed` remember what clients were told, for the
properties only; `answered` whether an answer of the run was saved.

*Steps.* Every statement of PostgreSQL and every access to the map is one step:
a handler is a chain of steps (`StartChatRun`, `CreateChatRun`, `LaunchChatRun`;
`Pause`, `WriteStop`, `CallCancel`; `EditChatMessage`, `CallCancel`, `Truncate`),
a worker too (`Begin`, `ReadSession`, `CheckStatus`, `Decide`, `SaveAnswer`,
`CompleteChatRun` or `FailChatRun`, `Leave`). The model call is abstract: it
answers, fails, or ends with the context. With `DBFails` each statement may
fail, and a write may also be carried out and reported as failed.

*Known behaviour that no property rules out.* The worker that a resume replaces
still runs its deferred `chatRunCancels.Delete` (`chat_runs.go:196`) and removes
the cancel function of its successor, so a later pause of a resumed run may not
reach its worker: `StopIsHonoured` and `AnswersCurrentText` speak of runs that were never
resumed. Two tabs may both find no active run and create one each; a resume does
not look for an active run. A status written by a worker overwrites the pause or
cancel that came after it had looked.

*Left out.* The progress document of a run, titles and pins, other sessions.

### QuotaReservation

*State.* `epoch` counts, per window, how often its start has moved (calendar or
reset): a Redis key is named after the window's start, a ledger row counts in a
window when it started there. Per request: `pc`, `live`, what the decision
read (`measured`, `used`, `seen`), and how its handler ends: `todo` (release and
finish, in the order of that path), `detached` (which of them run under their own
context), `outcome`, `charge`. Ledger: `row`, `tokens`, `startedIn`. Redis: `pending` and `reservation`
with their expiries, `blocked`. Resets: `resetter`, `credits`.

*Steps.* `BeginQuota` and one `Measure` per window are `evaluateQuota`; `Reserve` the script; then
`StartUsage`, `Acquire`, and one action per way `proxyLiteLLM` ends: `Stream`,
`Buffer`, `UpstreamError`, `ReadError`, each with its own order and contexts;
`Release` and `Finish` carry the ending out. `ContextDone` and `Crash` strike between
any two. The reset is `CheckReset`, `Redeem` or `RefuseReset`, `AdminReset`, and then
`ClearPending` and `ClearReservations`.

*Left out.* Unlimited and blocked decisions (no Redis involved), the TTL of
`blocked` (its DEL or SET is one step with the reservation it follows), tokens
charged on rows that are not completed (no quota counts them), two resets at
once. Each scan of a reset is one step: how SCAN interleaves with
writers within a scan is not modelled.

*Known behaviour that no property rules out.* The share of a request that crashed, or whose
release was lost, stays in the counter of its window as long as other requests renew it: each
reservation sets the counter's EXPIRE anew (`access.go:442`). `HeadroomLapses` therefore bounds it by
the last request that saw this start of the window: two key lives after that one began the
counter is zero. Across a reset a counter may fall below the
reservations on it: after the pending counters are deleted, a new request
reserves, and the release of an older one takes its amount off the newer
one's counter. A released or cleared request that is served afterwards is
counted by no one until its row is finished. So the safety properties are
checked without resets, and `HeadroomReturns` with them.

### ModelRecovery

*State.* Redis: `circuit` (the models whose key exists), `daily` (today's counter
per model), `observed` (the limit a provider has stated). Per request: `job` (the
route of its pool, whether it carries an image and needs tools), `pc`, `model` and
`config` (`currentModel` and the `m` read for it, with the fallback the pool has
put in), `visited` (the set of the pool's state), `attempt`, `budget`
(`maxRetries`), `compat` (`compatibilityRetried`), `report` (the limit of the
last answer). `first`, `calls`, `granted`, `marked` are histories for the properties.

*Steps.* `Select` is the first choice of the pool; `Prepare`, `Bypass`, `Preflight`,
`Direct` lead to the loop; `Admit`, `Spill`, `Hold`, `Waited` are token admission,
`Count`, `CountNothing`, `SpillDaily`, `RefuseDaily` daily admission; then one action
per kind of answer (`TransportFails`, `Succeed`, `AnswerRefusal`, `RotateTools`,
`RetryTextOnly`, `Fail`) and per decision (`GiveUp`, `Shrink`, `FallBack`, `BackOff`).
`MoveTo` is `applyFallbackModel`: it reads the row of the new model and asks the
pool for the next fallback. `ObserveLimit` and `MarkExhausted` are two calls of
Redis and two steps. `CircuitExpires`, `HealthExpires` and `NewDay` are time. The
requests in `Faulty` may fail every call of PostgreSQL and Redis, each with the
default the code falls back on (no limit, no fallback, no circuit).

*Left out.* Whether a prompt is too large, can be trimmed or finds tokens is a
choice; scores, priorities and weights only narrow the pool's choice, so any
candidate may be drawn. `attempt` saturates at `AttemptCap`, above every
`maxRetries` it is compared with. The errors of `makeReq` and of
`applyReasoningForModel` are left out: the body is JSON the handler has already
parsed, and the URL is fixed.

*Known behaviour that no property rules out.* The daily spill does not count
against the retries, and the administrator's form (`model_providers.go:594`) only refuses a
model as its own fallback: two models that name each other, both spent, keep a
request looping until its context ends, so `Settles` is checked for fallbacks
that end. An observed limit is forgotten six hours after the last call
(`recordModelPoolHealth` shortens the 30 days of `observeModelRPDLimit`). A
lookup that fails gives a row without a limit: such a call is admitted although
the day is spent, so `granted` counts the admissions under the model's own limit.
Tokens of the bucket are debited before the daily refusal. A slow success
clears a circuit that a newer failure has opened.

### TokenBucket

*State.* `bucket` is the hash in Redis with `tokens` and `last`, `lapses` its
PEXPIRE; per request its cost, the moment its next attempt is due, and what the
script told it. `admissions` is a history. Every attempt takes the time of its
replica, up to `MaxSkew` ahead.

*Steps.* `Attempt` is one run of the script with what `waitForModelAdmission`
makes of its answer; `AdmitUnmetered` is what becomes of a request when there is no Redis or
its answer is lost: it is let in, whether or not the script has run and taken the
cost; `LeaveBucket` is `ctx.Done()`; `ExpireBucket` and `TickBucket` are Redis and time.

*Known behaviour.* `modelAdmissionCost` and the script leave 15 % of the limit
unused, but of the bucket: a full bucket and the refill of a minute together are
1.85 times the limit, which is what `BurstsAreBounded` states. It needs clocks at
most a minute apart, which the run has and the theorem assumes. The key lives for
two minutes by the clock of Redis after it was written, but `last` is the clock of
a replica: when that is far enough ahead (beyond 1.15 minutes), the bucket may have
expired before as much flowed in as it had given away, and it comes back full.
What is let in unmetered has no bound and comes on top: `BurstsAreBounded` is about what the
bucket gives out.
Nobody queues: a request for much waits as long as small ones take what flows in.

### InferenceRequest

*State.* `kind` names the handler, `gates` what still has to admit it,
`held`, `entry` and `slot` what it has taken (reservation, row of the ledger, place of
the queue), `planning` the rounds of `runSmartToolLoop` and whether they used tokens, `upstream` the call in hand, `settling` the calls by which the path it
is on gives things back, each with the context it uses (`outlives`), `present` whether the
client, and with it the context of the request, is there.

*Steps.* Admission gate by gate, `Reserve`, the opening of the row, the place in the
queue, for the chat of an account up to two rounds of `PlanTools` (or none, with Hermes, after research, or when
nothing asks for a tool), `AskModel` and the one fallback from Hermes to LiteLLM, then one action per way a handler
ends, and one step per store it calls on its way out. A call may fail without or
after its effect (`MaxFaults`).

*Left out.* What quota, queue and recovery do inside (their modules), the content
of messages. A crash ends the request with everything to expire, which is in
`QuotaReservation` and `InferenceQueue`.

*Known behaviour.* A buffered chat settles under the request's context, so a
client that leaves at the end keeps its reservation until it expires;
`SettlesUnlessGone` is about clients that stay, `StreamsSettle` about all. The tokens of the planning are
written to the row on every way out that follows it, whether the chat was answered, failed, refused or cancelled
(`main.go:835`, `:881`, `:891`, `:921`); `AnswersArePaid` says so, and that nothing else is charged
without an answer. On a row that was not completed they are counted by no quota, and the estimate that was
reserved did not include them. An account's research is done
before its quota is asked, a guest's afterwards.

### GuestRate and GuestCapability

*State.* The two keys of a device with their expiries, and the clock each handler
has read; the counter of each UTC day of a network, and per generation the day of its
INCR and of its refund.

*Steps.* The enforcing script is one step with a clock at most `MaxDelay` old; the handler's clock is in
seconds, the one of Redis is finer (`Second` ticks), and TTL rounds what is left to the nearest second.
`GuestRate` also has the deletion of keys by an administrator. A generation is `INCR`, its
providers in order (Gemini, OpenRouter, Hermes for images, Hermes for files), the check and the
storing of the result, and on failure DECR and perhaps SET.

*Known behaviour.* In the last half second of a spent hour TTL answers 0, which both scripts take for a
key without an end (`guest.go:225`, `:248`): the wait that is shown jumps to an hour although the device
is let go within half a second. `RetryAfterIsHonest` names that case and says that there is no
other: the wait is zero exactly when a chat would be admitted, and otherwise off by less than a second.
A refund after midnight is taken from the new day's counter
(`strays`) and gives that day one more. When the counter falls below zero by it,
a second call sets it to zero (`zeroed`); between the two others may count, so one
SET gives away up to a day's worth, and there may be several. With a client
gone no refund is made, and every call of Redis may fail. `GrantedWithinDay` bounds what
a day grants by these numbers, `CounterIsExact` says that there is no other error.

### AttachmentStorage and WindowCounter

*State.* Rows (`rowStatus`, `size`, `born`, `extract`), files (`disk`), and per handler of
one owner its step and what it holds. `leaked` and `unsure` remember crashes,
removals and INSERTs that failed. There is at least one handler. The counter of uploads is `WindowCounter`: a
key, its expiry, and handlers between INCR and EXPIRE.

*Steps.* Cleanup of old rows (for guests, in front of other calls), upload,
storing of a generated file, deletion, expansion of documents into a chat with extraction and the
writing of its outcome; crashes between any two.

*Left out.* Why a document that is present cannot be extracted: whatever the extraction of an existing file
ends with is noted as ready.

*Known behaviour.* Uploads side by side exceed the policy by a file each. A file
whose handler died between row and removal stays for ever. A lost EXPIRE leaves a counter
that never lapses: its owner is refused until an administrator's reset.

### PasswordReset and GmailConnection

*State.* Tokens with the time they were made and whether they were used,
confirmations under way, and in Keycloak the sessions under the present and under
earlier passwords. States of the OAuth flow and whose they are, the one row of
the integration, callbacks and disconnections under way, and at Google the
tokens given and revoked.

*Steps.* One per statement, Redis call or outside call, each of which may fail, also after its
effect. The counter in front of requests is the one of `WindowCounter`.

*Time.* A request is counted by the INCR and its token stored up to `MaxLookup` later, after two calls of Keycloak
of up to 15 s each (`main.go:138`); window and life of a token are 15 minutes, so `MaxLookup` may be anything up to a
window. The clocks of the server, Redis and PostgreSQL are taken as one.

*Known behaviour.* Tokens of three windows in a row may be good at once: those counted at the end of
one window and stored after it, those of the next, and the first of the one after that. They
are fewer than three limits, `LiveTokensBounded`, because the first token of the first window has lapsed by
then. A token is spent though Keycloak fails, and the user has to ask
again. The end of sessions may get lost, and an old session then outlives the password. A
disconnection deletes the row of a connection made meanwhile.

### AccessControl

*State.* Rows (`status`, `dbRoles`), Keycloak (`identity`, `kcRoles`), the roles in
the token a user carries, keys, and per call its phase and the copy of the status it has
read. `entitled`, `asked`, `settled` are histories for the properties.

*Steps.* `auth` for a token (upsert of the row, roles replaced; the configured
administrator approved) or a key; the middlewares of four kinds of route in their
order; for administrators: status, roles (removal, assignment, row), creation of a user in
its six steps, revocation of a key, and the synchronisation with every list of
users. A step that fails ends the call and leaves what was done.

*Left out.* Making keys, signatures and expiry of tokens, the log itself. `createUser` makes users with the role
`ai-user` only, while the handler takes other roles too; reading and removing the roles in Keycloak is one
step.

*Known behaviour.* Two changes of one user's roles interleave freely, and a
listing of roles that Keycloak refuses counts as empty (`main.go:1182`), so that
a change only adds. A creation that stops after Keycloak has the user is a conflict
ever after. `RolesSettle` says what remains.

### ProviderCatalog

*State.* The provider's row, rows of models with status and deployment, the
deployments in LiteLLM, one alias, and per call its step and the rows it remembers.
What a provider or model is configured with is a version number.

*Steps.* Each endpoint as its chain of calls, `syncProviderModels`, and
`reconcileProviderModels` after a restart, which ends all calls in flight. Writes whose error the
code drops may be lost.

*Known behaviour.* Registering a model again leaves its first deployment in
LiteLLM; an update of a row without a deployment marks it active; a deletion
refused halfway leaves rows without deployments; a connection test that fails
leaves the gateway with the old settings. `SyncSettles` says what the next
synchronisation repairs, `LoneCallKeepsCatalog` what a call alone and without
failures keeps.

### ResearchLookup, ResearchChoices, ResearchPipeline

*Lookup.* Rows found are the instant Google gave them and `links`, how often they
have passed through the ledger since. Per query: the rows and the circuit of each engine, the last good
rows, the evidence. A lookup goes from Google to Google CSE to what is kept. Every read and write of Redis
and the ledger is a step (`Look`, `Reopen`, `SetGood`, `Store`, `Recall`, `ReadLedger`), reads may fail and
writes be lost, as the code drops their errors. A request holds rows for at most `MaxHold` ticks until it has
written them and started its row of the ledger (`StartRow`), which dates the evidence; that row is
completed some time or never (`Record`, `Abandon`), and a lookup without rows just ends. Time passes meanwhile.

*Choices.* `SearchPlan` and `Selection` are functions of preferences and of what
was found; all requests within the bounds are initial states, and one step
chooses. A text is the kind of a query, a source its list and place. The
reference is what the properties state: budget and shape of the plan; that the
selection is full, without repetition, within its scope. What `appendRowsN` adds is a
recursive function over its rows.

*Pipeline.* One request: decision, named pages, searches, selection, goroutines that
fetch, verification, up to two completions. What a text is about and whether it supports a claim are choices.

*Known behaviour.* One failing engine is enough for old rows, though the other one honestly found
nothing (`research.go:864`): `OldRowsOnlyAfterFailure` denies them only where neither failed. Evidence renews itself: rows found by way of the ledger go back
into it, and their age has no bound but the number of passages. Named and
linked official pages may take the room of global corroboration. So may, under a limit of
six, the shares of a question that is fresh and not of a price: one page of the current market,
three local ones and two of communities are all six places, so `LeavesRoom` leaves that
case out (the limits five, seven and eight leave a place). The answer is checked against
all sources although the prompt holds only the first of them.

*Left out.* Scores, languages, dates; progress documents; the further searches of the sites a search has
discovered (`research_locality.go:847`): the bound on queries is one of the plan.

### MCServices

One variable, `only`, names the service that moves; the others stay in an initial
state. `PasswordReset` extends `WindowCounter`, so the counter moves alone (as the uploads use it) or
under the reset.

## 4. Runs

Every run explores its whole state space; deadlock is not checked because every
system here may come to rest (all requests served, all bounds reached).

| Run | Shows |
|---|---|
| `races` | queue, two principals and workloads, one place, clock reads up to one tick old, crashes, lost answers and releases until `LastFault`, schedule kept: `LeaseLimit`, `LeaseHeld`; the queue implements the limiter; every wait ends; every lease comes back |
| `stalls` | queue, two requests of one principal, two places, renewals late or lost: what does not need the schedule (`ReleasedIsGone`, `LeasesAgree`), and the order of service |
| `overrun` | violation: without the schedule two requests are served at once although the limit is one (finding) |
| `client` | one tab, two runs, three messages and texts: `StopIsHonoured`, `AnswersCurrentText` |
| `resume` | one tab that also resumes, crashes and restarts: `ActiveHasWorker`, and `RunsSettle` under fairness |
| `faults` | two tabs, a failing database: `CompletedIsAnswered`, `CancelsAreCurrent` |
| `windows` | quota, two requests, an hourly and a weekly window, moving windows, expiring keys, crashes: `ReservesWithinLimit`, `NeverUncounted`, `PendingTracksReservations` (counters cover the reservations, and lapse once nobody renews them) |
| `resets` | quota, one request with administrator resets, a credit, failing stores and a window that moves twice: `HeadroomReturns` |
| `toctou` | violation: a request is admitted to a window that completed usage has exhausted (finding) |
| `recovery` | two requests on two models, one through a pool, one with an image and failing calls; a daily limit of three, of which the provider may state one: `CallsBounded`, `PixelsStayInPool`, `DailyWithinCapacity` (until the provider says the day is spent), `ExhaustedAdmitsTheRest` (from then on at most what the configured capacity has over the stated one), `Settles` |
| `rpd` | violation: on the same instance, the exhausted model is admitted again (`ExhaustedStaysExhausted`; finding) |
| `services` | the services, one at a time; one property each, below |

| Property of `services` | Its parts |
|---|---|
| `RateIsKept` | `ChatsSpaced`: guests' chats are as far apart as the policy says; `RetryAfterIsHonest`: the wait shown is the one enforced, but for its rounding and the last half second of an hour |
| `CapabilityIsMetered` | `GrantedWithinDay`, `CounterIsExact`: generations of a day and its counter |
| `AttachmentsHold` | `RowHasContent`, `NothingLeaks`, `OvershootBounded`, `ExtractionIsTrue`: rows, files, the policy and what a chat noted of a document |
| `ResetIsOneTime` | `CallsSpaced`, `CounterLapses` of the counter (also as uploads use it); `TokenSetsOnce`, `LiveTokensBounded`, `OldSessionsEnd` |
| `ConnectionIsGood` | `StateUsedOnce`, `StoredTokenIsGood` |
| `AccessIsGranted` | `ServedWereEntitled`, `ApprovedWereAsked`, `RolesSettle` |
| `StoresAgree` | `SyncSettles`, `LoneCallKeepsCatalog`: database and LiteLLM |
| `OldRowsAreHonest` | `OldRowsOnlyAfterFailure`, `AgeIsOfItsLinks` |
| `ChoicesFit` | `PlanFitsTheQuestion`, `SelectionIsFull`, `GlobalCorroborates` |
| `EvidenceComesFirst` | `FailsClosed`, `CitedWasVerified`, `AnswersAreGrounded` |
| `RequestIsSettled` | `SettlesUnlessGone`, `StreamsSettle`, `AnswersArePaid`, `CoveredUntilCharged` |
| `BucketHolds` | `BurstsAreBounded`, `HintIsEnough` |

*Bounds.* Two competitors are what the hazards of these components need: a
grant against a renewal, a release against a reservation, a worker against its successor;
what needs any number (limits, type correctness, completion) is proved. Clocks run until
the last lease or key of the run has expired (`MaxClock`), faults and arrivals
stop before (`LastFault`, `LastArrival`, `LastStart`) so that liveness is about what remains.
In the queue runs the priorities differ, so scores and order differ; TTLs are
a few ticks with the code's proportions to the renewal period. In the quota runs the
estimate is 2 of a limit of 3 and 5: the second reservation is capped in one
window and not in the other; in `windows` only the hourly one starts anew by
itself (`Moving`). In the queue runs one limit is one and the others do not bind, and one workload is enough for two lease sets;
other limits and several workloads are the theorems'. In `recovery` a limit of three has a capacity of two, so that the two
requests compete for the last admission, and the one limit the provider may state leaves one over; the model with the limit is what the router
gives and the fallback of the other, which is the Vision pool, so each way to move is taken; the
retries are given by the pool, and a model without backoff is given up.
In `services` every service has two callers (three generations, three requests
for tokens, three ids of files and tokens) at limits of one, which is the
smallest instance in which a call meets another one at the limit; clocks run for two
windows, days past one midnight, `MaxVersion` allows one change after the first
settings, and one INSERT of an attachment is carried out although it is reported as
failed (`MaxUnsure`; the theorem is for any number). A device of guests has two chats and a clock with three ticks to the
second, the fewest for which TTL rounds to 0 before an hour ends; an hour is three seconds long, and the
interval of the policy two. A request of a reset takes up to half a window to its token (`MaxLookup`), and the limit of one
makes the bound two tokens, from windows in a row. Lookups hold rows for a tick, and three instants with two
passages are enough for rows that come out of the ledger, are recorded and come out again. The chat plans at
most two rounds, as the code does. The sizes of the plan and the selection
are the code's: six kinds of lists under the default limit of five, all
combinations, with one local page of a community (`MaxSocial`; the theorem is for every number and
every limit of one to eight).

*Fairness.* `FairSpec` of the queue: each goroutine that can go on does (poll
loop, script calls, cancel, renewal goroutine, release), and time passes. It
assumes that a handler that holds a lease ends, which the timeouts of the
HTTP client give, and asks nothing of callers. Of the chat: goroutines and
handlers that have begun go on, because every call they make has a timeout or a
context, and a crashed server is started again; nobody has to press a button. Of the quota: a request that
has begun goes on and time passes; a reset need not finish. Of the recovery: the
code between two calls goes on, and a call ends because the HTTP client gives it
300 s (`main.go:138`). Nothing bounds a wait for tokens, so `Waited` has no
fairness and `Settles` allows a request to stay there.

## 5. Proofs

All proofs are checked by TLAPS for every value of the constants that satisfies
the modules' assumptions (finite sets, positive durations, at least one handler of attachments, and for the
schedule of the queue: a renewal period and two delays that fit within the TTL).

* `InferenceQueueProofs!TypeCorrect` — the type invariant; inductive by itself.
* `ReleasedStaysGone` — `ReleasedIsGone` is inductive with the types: the
  renewal script asks for the principal key, and only a grant, which a released
  request cannot have again, makes that key name it.
* `ScheduleKept` — the inductive invariant `ScheduleInv` of the timed part, when
  `Prompt`: the holder of a principal key has a lease that outlives the
  renewal under way (`RenewsInTime`), a grant on its way back is young
  (`GrantIsFresh`), the goroutine of a request being served runs
  (`GoroutineRuns`). It is needed because a lease that has not lapsed *now* says nothing about
  the next tick. From it `LeaseNeverLapses` (`LeaseHeld`).
* `LeasesWithinLimits` (`LeaseLimit`) and `QueueImplementsLimiter`: what is served has live leases in both
  sets by `LeaseHeld`, and a grant counts the sets before it adds to them, so each
  step of the queue is a step of `ConcurrencyLimiter` or a stutter.
* `LeasesAlwaysAgree` (`LeasesAgree`) — on any schedule. By `AgreeInv`: the two entries
  of a request are equal or have both expired, and the clock of a script in flight is not ahead.
  `GrantsInOrder` (`ServedInOrder`) — an action property of the grant script, which
  looks at everything before the entry it takes.
* `ChatRunsProofs!TypeCorrect`, `EntriesAreCurrent` (`CancelsAreCurrent`), `CompletionFollowsAnswer`
  (`CompletedIsAnswered`): the invariant is `TypeOK /\ WorkersInv /\ CallsInv`: a worker
  that is not idle has a run, and the run of a worker about to complete is
  answered; a handler that launches, pauses, cancels, resumes or calls a cancel
  function has a run. The properties alone are not inductive, because they do not tell
  what a worker about to complete has done.
* `ActiveRunsHaveWorkers` (`ActiveHasWorker`), `StopsAreHonoured` (`StopIsHonoured`),
  `AnswersAreCurrent` (`AnswersCurrentText`) — for one tab (`OneClient`), the first
  and the last for a database that answers (`~DBFails`): with two tabs or a lost
  write they are false, for the reasons section 3 gives. By `ActiveInv` (an active run has a
  worker that will write its outcome, or a handler that launches one),
  `OnceInv` (a run that was never resumed has one worker in its life, whose cancel
  function is in the map) and `TextInv` (the run being answered is the
  session's last, and what its worker has read is still there).
* `QuotaReservationProofs!TypeCorrect` and `PendingLapses` (`HeadroomLapses`, a part of
  `PendingTracksReservations`) — for any requests, windows, limits, resets and failures. By
  `InTime`: a request under way is young, a counter expires a TTL after the last reservation on it.
* `PendingIsTracked` (`PendingTracksReservations`), `ServedIsCountedAlways` (`NeverUncounted`),
  `ReservationsKeepLimits` (`ReservesWithinLimit`) — without resets (`NoResets`: no credit,
  no administrator's reset), because across a reset a counter may fall below its reservations. By `Covers`: each counter is at least the sum
  of the reservations on it, and outlives every one of them; `AlwaysCounted`: what is served is
  reserved for as long as its request can last, or is a row. Sums are those of
  `SumTheorems`: induction over finite sets, stated for a set of subsets and
  drawn from the least number principle, gives the fold's recursion, and from it
  what adding, removing and changing one term does.
* `ModelRecoveryProofs!TypeCorrect` — for any rows of `provider_models`, pools and failing calls.
* `PixelsCorrect` (`PixelsStayInPool`) — with `ConfigInv`: in the Vision pool the
  fallback of the row in hand is a member of the pool or none, and every move but the first
  goes to that fallback and asks `allowModelFallback`.
* `CallsAreBounded` (`CallsBounded`) — by `CallsInv`: before a call a request has
  made no more calls than `attempt`, nor than `maxRetries`, plus one for the text-only
  repetition. The bound alone is not inductive: it does not tell what a further attempt may cost.
* `DailyCorrect` and `ExhaustedCorrect` (`DailyWithinCapacity`, `ExhaustedAdmitsTheRest`) — for any configured and
  stated limits. By `DayInv`: until a model is marked the counter covers what was granted; a mark sets it to the
  capacity of the stated limit and starts the count anew, and from then on
  the counter is at least that and what was granted since. That nothing at all is admitted after a mark, as the code's comment means it,
  is false, as `rpd` shows.
* `ServingProofs!EvidenceAlwaysComesFirst` (`EvidenceComesFirst`) and `PipelineTypeCorrect` —
  for any pages and any bounds on queries and fetches. By `PipelineInv`: `StageInv` ties what the
  request holds to how far it is (nothing is kept and the model is not asked
  before the sources are verified; until the selection there are only the named
  pages, which were read), `SourcesInv` says that a community's page is never fetched. The
  property alone is not inductive: it does not tell what a request about to be
  verified or asked holds, nor that a fetch cannot still change a source that is kept.
* `OldRowsAreAlwaysHonest` (`OldRowsAreHonest`) — for any lookups and times to live, whichever reads fail and
  writes are lost. By `LookupInv`: whatever is kept lapses, or was entered, within the span that the
  passages of its rows through the ledger and the time requests hold them for allow (`Span`).
* `AccountsProofs!ConnectionHolds` (`ConnectionIsGood`) — by `StatesInv` (a state that is still there was not
  exchanged) and `CarriedInv` (a token a callback carries is stored nowhere yet, not revoked and read by no
  disconnection).
* `WindowHolds` (`WindowIsKept`, of the counter alone) and `ResetHolds` (`ResetIsOneTime`). The spacing of what a counter lets through is
  stated of its list of passes: twice the limit later a window has gone by, and three times the limit less one later two windows
have, because the key's EXPIRE comes after its first INCR. The bound on live tokens is by `TracedInv`: every request
under way and every token goes back to a pass of its own, so three limits of live tokens would be as many passes within two windows.
* `AccessHolds` (`AccessIsGranted`) — assuming only that names of callers are not names of roles
  (`CallerAssumption`). By `WatchInv` and `DecidedInv`: whoever would be let
  through at this moment, or by the copy a call has read, is on record as entitled during that call;
  `SettledInv`: roles removed and not assigned since are gone.
* `CatalogTypeCorrect` and `StoresAlwaysAgree` (`StoresAgree`) — for any rows, deployments, calls and versions. By
  `CatalogInv`: no two rows name one deployment, and a deployment that was created and is
  not named yet is one call's (`NamesInv`); a call in flight whose history is clean is the only
  one in flight (`LoneInv`); and per kind of call what is true at each of its steps
  (`SyncInv`, `UpdateInv`, `RegisterInv`, `DeleteInv`), for example that a lone synchronisation has in hand
  every active row that LiteLLM does not serve as configured. `StoresAgree` is about what is so when a call
  ends; it says nothing of the steps before, so it needs all of these.
* `ServingProofs!RequestHolds` (`RequestIsSettled`) — by `TakenInv`, what a handler has taken up
  to each of its steps, and `SettlesInv`, that what is still to be
  called gives it back, in an order that never leaves an answer without a
  reservation or a row, and writes what the planning used. It speaks, as the property does, of requests none of whose store calls failed.
* `CapabilityHolds` (`CapabilityIsMetered`) — by `GrantedInv`: what a day has granted is at most what its
  counter says is spent, and what refunds of other days and zeros gave away.
* `RateHolds` (`RateIsKept`) — by `DeviceInv`: each key of a device and its expiry in terms of
  the chats it has let through; the clocks of the scripts are at most `MaxDelay` old (`SampledInv`). The rounding
  of TTL and of Unix time is arithmetic on what is left of a key, stated in lemmas of its own.
* `StorageHolds` (`AttachmentsHold`) — by `HandsInv` (what a handler holds at each step),
  `AloneInv` (a file that is being written is one handler's), `LeakInv` (a file on disk has a row,
  somebody about to remove it, or is a known leak) and a claims argument for the
  policy: live bytes and what handlers may yet enter, by what each has
  measured, stay within the limit and one file for each handler but one (`BytesInv`, `FilesInv`).
* `BucketHoldsAlways` (`BucketHolds`) — of what the bucket gives out, assuming `MaxSkew <= Minute`. By a potential: what was granted since any
  admission, and what is left in the bucket, came out of a full one and of what flowed in
  since (`SpentInv`); what a request was told to wait for is there by then (`PromiseInv`).
  Without any bound on the skew it is false, as section 3 says: the proof found it.

* `ServicesProofs!ChoicesAreRight` (`ChoicesFit`) — every plan and every selection, for any number of
  pages and every limit. A loop over a list has a value after each turn
  (`LoopRuns`), by the least number that would be an exception; from it what `appendRowsN` returns (`Appended`:
  what was there and then rows, none twice, within both bounds, all of them unless the
  limit is reached), what a chain of such calls fills (`FilledTo`), and what `add`
  leaves in a plan. `WorldIsHeard` adds up the places the first five steps take at most: in depth one
  is left for the best global page if `LeavesRoom`.
* `ServicesImplementEach`, `ServicesTypeCorrect` (`ServicesTypeOK`) and `ServicesKeepPromises` —
  a behaviour of the composition is one of every service that the others leave in an initial state, so the theorems
  above hold in it; the catalogue, the reset and the choices, which idle in a state
  of their own, keep their invariants there. The last two assume `MaxSkew <= Minute`, for the bucket.

Only model-checked: all liveness (fairness and ENABLED are out of the prover's
reach; `Settles` moreover depends on fallbacks that end) and, with resets, `HeadroomReturns`.
Every invariant and action property of a passing run is a theorem.
Apart from those of `ServicesProofs` the theorems are about each module's own specification.
Induction over data is out of reach of the library's induction theorems; where sums and lists need it
(`SumTheorems`, `ServicesProofs`), it is drawn from the least number principle.

## 6. Findings

* `overrun` — `README.md:36` promises concurrency limits with leases;
  `queue.go:165` drops the result of every renewal, so a handler whose renewals
  fail for a TTL goes on without a lease beside the next one.
* `toctou` — `README.md:12` says entitlements are enforced before inference;
  the script (`access.go:442`) uses usage read from PostgreSQL earlier. A request that
  completes in between is in neither number.

* `rpd` — `model_runtime.go:720` calls a limit a provider states authoritative and
  means to let "subsequent calls spill to fallback without another 429"; the counter is seeded for that limit
  but compared with the configured one, so a greater configured limit goes on admitting.

## 7. Not modelled

The tools themselves (the loop that plans them is in `InferenceRequest`), payload shaping, document extraction and rendering, and the scoring
of texts in research are functions over text without shared state; a model would
restate them. Mail is I/O. Reports only read. The router's choice
of a workload from the words of a request is such a function too; what follows
from it is in `ModelRecovery` and `ProviderCatalog`. The progress document of a
run and the titles and pins of a session are written and read whole. Migrations
run before anything else does.

The modules of sections 3 meet at what they promise: `InferenceRequest` takes
a reservation, a place and an answer as single steps, the queue, the quota and the
recovery show in their own modules what such a step is made of. A run of all of
them together is out of TLC's reach.
