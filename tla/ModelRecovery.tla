--------------------------- MODULE ModelRecovery ---------------------------
(***************************************************************************)
(* One chat completion carried across models: doModelRequestWithRecovery   *)
(* of cmd/api/model_runtime.go with the daily admission and the circuits   *)
(* it keeps in Redis, and the model pool of cmd/api/model_pool.go, from    *)
(* which it takes its first model and its fallbacks.                       *)
(*                                                                         *)
(* Every request loops: admission to the token bucket, daily admission,    *)
(* the call, then a decision to answer, retry, shrink or fall back.  The   *)
(* circuits, the daily counters and the observed limits are shared by all  *)
(* requests of all replicas, and each access to them is a step.            *)
(*                                                                         *)
(* Abstracted: token counts (whether a prompt is too large, whether the    *)
(* bucket has tokens and whether a prompt can shrink are choices), the     *)
(* weights of the pool (any candidate may be drawn), and the bodies of the *)
(* responses (only what the code looks for in them is left).               *)
(***************************************************************************)
EXTENDS Integers, FiniteSets, FiniteSetsExt

CONSTANTS
  Request, Model, None,
  Primary,      \* the model RouteChat gives when no pool does
  Pool,         \* route -> the models enabled for it
  Settings,     \* model -> its row of provider_models: see Row
  Jobs,         \* what each request may be: its route, image and tools
  Reports,      \* model -> the limits its requests-per-day 429 may state
  Faulty        \* the requests whose calls of PostgreSQL and Redis may fail

Routes == DOMAIN Pool
Row == [fallback : Model \cup {None}, strategy : {"adaptive", "fallback", "trim", "reject"},
        limit : Nat, retries : Int, backoff : BOOLEAN]

Job == [route : Routes \cup {None}, image : BOOLEAN, tools : BOOLEAN]

ASSUME RecoveryAssumption ==
  /\ None \notin Model /\ Primary \in Model
  /\ IsFiniteSet(Model)
  /\ Pool \in [Routes -> SUBSET Model] /\ "vision" \in Routes /\ None \notin Routes
  /\ Settings \in [Model -> Row]
  /\ Jobs \in [Request -> SUBSET Job]
  /\ Reports \in [Model -> SUBSET (Nat \ {0})]
  /\ Faulty \subseteq Request

VARIABLES
  circuit,    \* the models whose circuit key exists
  daily,      \* today's model:rpd counter of each model
  observed,   \* observed_rpd_limit of each model, 0 when there is none
  job,        \* per request: what it asks for
  pc,
  first,      \* its model when the recovery began
  model, config,   \* currentModel, and the m read for it
  visited,    \* the Visited set of its pool
  attempt, budget, \* attempt and maxRetries
  compat,     \* compatibilityRetried
  report,     \* the limit the last answer stated
  calls,      \* history: calls made to providers
  granted,    \* history: admissions under a model's own limit since midnight or its last mark
  marked      \* history: the limit a model's last markModelDailyExhausted of today stated, or 0

shared == <<circuit, daily, observed>>
local == <<first, model, config, visited, budget, compat, report>>
history == <<granted, marked>>
vars == <<shared, job, pc, local, attempt, calls, history>>

MaxRetries == 4             \* no model and no pool is retried more often
AttemptCap == MaxRetries + 2  \* bound: attempt is only compared with budget

Steps == {"new", "routed", "checking", "admitting", "waiting", "counting", "calling",
          "observing", "marking", "limited", "deciding", "over"}

ModelsType ==
  /\ circuit \subseteq Model
  /\ \A counter \in {daily, observed, granted, marked} : counter \in [Model -> Nat]

RequestsType ==
  /\ job \in [Request -> Job] /\ pc \in [Request -> Steps]
  /\ first \in [Request -> Model] /\ calls \in [Request -> Nat]

PlaceType ==
  /\ model \in [Request -> Model] /\ config \in [Request -> Row]
  /\ visited \in [Request -> SUBSET Model]

LoopType ==
  /\ attempt \in [Request -> 0..AttemptCap] /\ budget \in [Request -> 0..MaxRetries]
  /\ compat \in [Request -> BOOLEAN] /\ report \in [Request -> Nat]

TypeOK == ModelsType /\ RequestsType /\ PlaceType /\ LoopType

Init ==
  /\ circuit = {} /\ daily = [m \in Model |-> 0] /\ observed = [m \in Model |-> 0]
  /\ job \in {f \in [Request -> UNION {Jobs[r] : r \in Request}] : \A r \in Request : f[r] \in Jobs[r]}
  /\ pc = [r \in Request |-> "new"]
  /\ first = [r \in Request |-> Primary] /\ model = [r \in Request |-> Primary]
  /\ config = [r \in Request |-> Settings[Primary]]
  /\ visited = [r \in Request |-> {}]
  /\ attempt = [r \in Request |-> 0] /\ budget = [r \in Request |-> 0]
  /\ compat = [r \in Request |-> FALSE] /\ report = [r \in Request |-> 0]
  /\ calls = [r \in Request |-> 0]
  /\ granted = [m \in Model |-> 0] /\ marked = [m \in Model |-> 0]

-----------------------------------------------------------------------------
\* Limits and the pool.

\* A tenth of the limit is left to traffic that does not pass this backend.
Capacity(limit) == IF limit = 0 THEN 0 ELSE Max({1, (9 * limit) \div 10})

\* effectiveModelRPDLimit: what a provider stated counts only where no limit
\* is configured.
Effective(m, configured) == IF configured > 0 THEN configured ELSE observed[m]

DailyFull(m) == LET limit == Effective(m, Settings[m].limit)
                IN limit > 0 /\ daily[m] >= Capacity(limit)

PoolOf(route) == IF route = None THEN {} ELSE Pool[route]

\* What selectFreePoolModel may draw from.  Circuits and counters that cannot
\* be read exclude nothing.
Candidates(r, seen) ==
  {m \in PoolOf(job[r].route) \ seen : r \in Faulty \/ (m \notin circuit /\ ~DailyFull(m))}

\* runtimeModel: the row of the model, or a default one when it is not found.
DefaultRow == [fallback |-> None, strategy |-> "adaptive", limit |-> 0, retries |-> 2, backoff |-> TRUE]
Rows(r, m) == {Settings[m]} \cup (IF r \in Faulty THEN {DefaultRow} ELSE {})

StrategyMisspelt(s) == IF s \in {"reject", "trim"} THEN "adaptve" ELSE s   \* mutant: a typo

Strategy(s) == IF s \in {"reject", "trim"} THEN "adaptive" ELSE s
UnservedKeeps(row, route) == row   \* mutant: Vision keeps the configured fallback

Unserved(row, route) == [row EXCEPT !.fallback = IF route = "vision" THEN None ELSE @]

\* preparePoolFallback: a pool replaces the configured fallback by a candidate
\* not yet visited.
Prepared(r, row, seen) ==
  IF job[r].route = None THEN {row}
  ELSE {[row EXCEPT !.fallback = n, !.strategy = Strategy(@)] : n \in Candidates(r, seen)}
       \cup (IF r \in Faulty \/ Candidates(r, seen) = {} THEN {Unserved(row, job[r].route)} ELSE {})

Seen(r, m) == IF job[r].route = None THEN visited[r] ELSE visited[r] \cup {m}

\* The request turns to model m: its row is read and its next fallback chosen.
MoveTo(r, m) ==
  /\ model' = [model EXCEPT ![r] = m]
  /\ visited' = [visited EXCEPT ![r] = Seen(r, m)]
  /\ \E row \in Rows(r, m) : \E p \in Prepared(r, row, Seen(r, m)) :
       config' = [config EXCEPT ![r] = p]

\* allowModelFallback
Allowed(r) == ~job[r].image \/ job[r].route = "vision"

CanFallback(r) ==
  /\ config[r].strategy \in {"adaptive", "fallback"}
  /\ config[r].fallback \notin {None, model[r]}

Falls(r) == Allowed(r) /\ CanFallback(r)

Goto(r, step) == pc' = [pc EXCEPT ![r] = step]

\* The next iteration of the loop.
Again(r) ==
  /\ Goto(r, "admitting")
  /\ attempt' = [attempt EXCEPT ![r] = Min({@ + 1, AttemptCap})]

Retryable(r) == attempt[r] < budget[r] /\ config[r].strategy # "reject"

-----------------------------------------------------------------------------
\* Before the loop.

\* selectInitialFreePoolModel.  With several candidates the pool raises the
\* number of retries.
PoolRetries(n) == IF n > 1 THEN Min({MaxRetries, n - 1}) ELSE 0

Select(r) ==
  /\ pc[r] = "new"
  /\ \/ /\ r \in Faulty \/ Candidates(r, {}) = {}
        /\ UNCHANGED <<first, model, visited, budget>>
     \/ \E C \in SUBSET Candidates(r, {}) : \E m \in C :
          /\ first' = [first EXCEPT ![r] = m]
          /\ model' = [model EXCEPT ![r] = m]
          /\ visited' = [visited EXCEPT ![r] = {m}]
          /\ budget' = [budget EXCEPT ![r] = PoolRetries(Cardinality(C))]
  /\ Goto(r, "routed")
  /\ UNCHANGED <<shared, job, config, compat, report, attempt, calls, history>>

\* The queue and the quota come in between; then the recovery begins.
Prepare(r) ==
  /\ pc[r] = "routed"
  /\ MoveTo(r, model[r])
  /\ Goto(r, "checking")
  /\ UNCHANGED <<shared, job, first, budget, compat, report, attempt, calls, history>>

\* maxRetries, from the row of the model the loop starts with.
MaxRetriesOf(pool, row) == Min({MaxRetries, Max({0, row.retries, pool})})

EnterLoop(r) ==
  /\ budget' = [budget EXCEPT ![r] = MaxRetriesOf(@, config'[r])]
  /\ Goto(r, "admitting")
  /\ UNCHANGED <<shared, job, first, compat, report, attempt, calls, history>>

\* An open circuit sends the request to the fallback at once.
Bypass(r) ==
  /\ pc[r] = "checking"
  /\ Falls(r) /\ model[r] \in circuit
  /\ MoveTo(r, config[r].fallback)
  /\ EnterLoop(r)

\* A prompt too large for the model does so as well: shouldPreflightFallback.
Preflight(r) ==
  /\ pc[r] = "checking"
  /\ Allowed(r)
  /\ model[r] \notin circuit \/ ~CanFallback(r) \/ r \in Faulty
  /\ config[r].fallback # None /\ config[r].strategy \in {"adaptive", "fallback"}
  /\ MoveTo(r, config[r].fallback)
  /\ EnterLoop(r)

Direct(r) ==
  /\ pc[r] = "checking"
  /\ model[r] \notin circuit \/ ~Falls(r) \/ r \in Faulty
  /\ UNCHANGED <<model, visited, config>>
  /\ EnterLoop(r)

-----------------------------------------------------------------------------
\* Admission.

Admit(r) ==
  /\ pc[r] = "admitting"
  /\ Goto(r, "counting")
  /\ UNCHANGED <<shared, job, local, attempt, calls, history>>

\* The bucket of the model would make it wait long, that of the fallback less.
Spill(r) ==
  /\ pc[r] = "admitting"
  /\ Falls(r)
  /\ MoveTo(r, config[r].fallback)
  /\ \E step \in {"counting", "waiting"} : Goto(r, step)
  /\ UNCHANGED <<shared, job, first, budget, compat, report, attempt, calls, history>>

Hold(r) ==
  /\ pc[r] = "admitting"
  /\ Goto(r, "waiting")
  /\ UNCHANGED <<shared, job, local, attempt, calls, history>>

\* waitForModelAdmission ends when the bucket has refilled or the context is
\* done.
Waited(r) ==
  /\ pc[r] = "waiting"
  /\ \E step \in {"counting", "over"} : Goto(r, step)
  /\ UNCHANGED <<shared, job, local, attempt, calls, history>>

Call(r) ==
  /\ calls' = [calls EXCEPT ![r] = @ + 1]
  /\ Goto(r, "calling")

\* The limit tryModelDailyAdmission applies.
DailyLimit(r) == Effective(model[r], config[r].limit)
HasRoomAtCapacity(r) == daily[model[r]] <= Capacity(DailyLimit(r))   \* mutant: > for >= in the script

HasRoom(r) == daily[model[r]] < Capacity(DailyLimit(r))

\* There is no limit, or Redis failed: daily admission fails open.
CountNothing(r) ==
  /\ pc[r] = "counting"
  /\ DailyLimit(r) = 0 \/ r \in Faulty
  /\ Call(r)
  /\ UNCHANGED <<shared, job, local, attempt, history>>

\* The script checks and increments the counter.
Count(r) ==
  /\ pc[r] = "counting"
  /\ DailyLimit(r) > 0 /\ HasRoom(r)
  /\ daily' = [daily EXCEPT ![model[r]] = @ + 1]
  /\ granted' = IF config[r].limit > 0 THEN [granted EXCEPT ![model[r]] = @ + 1] ELSE granted
  /\ Call(r)
  /\ UNCHANGED <<circuit, observed, job, local, attempt, marked>>

SpillDailyInPlace(r) ==   \* mutant: continue without applyFallbackModel
  /\ pc[r] = "counting"
  /\ DailyLimit(r) > 0 /\ ~HasRoom(r)
  /\ Falls(r)
  /\ Again(r)
  /\ UNCHANGED <<shared, job, local, calls, history>>

\* The day is spent: the request falls back whatever its retries.
SpillDaily(r) ==
  /\ pc[r] = "counting"
  /\ DailyLimit(r) > 0 /\ ~HasRoom(r)
  /\ Falls(r)
  /\ MoveTo(r, config[r].fallback)
  /\ Again(r)
  /\ UNCHANGED <<shared, job, first, budget, compat, report, calls, history>>

RefuseDaily(r) ==
  /\ pc[r] = "counting"
  /\ DailyLimit(r) > 0 /\ ~HasRoom(r)
  /\ ~Falls(r)
  /\ Goto(r, "over")
  /\ UNCHANGED <<shared, job, local, attempt, calls, history>>

-----------------------------------------------------------------------------
\* The answer of the provider.

\* openModelCircuit and clearModelCircuit ignore the errors of Redis.
SetCircuit(r, models) == circuit' = models \/ (r \in Faulty /\ circuit' = circuit)

\* The call itself failed.
TransportFails(r) ==
  /\ pc[r] = "calling"
  /\ SetCircuit(r, circuit \cup {model[r]})
  /\ \/ /\ Retryable(r) /\ Falls(r)
        /\ MoveTo(r, config[r].fallback)
        /\ Again(r)
     \/ /\ ~(Retryable(r) /\ Falls(r))
        /\ Goto(r, "over")
        /\ UNCHANGED <<model, visited, config, attempt>>
  /\ UNCHANGED <<daily, observed, job, first, budget, compat, report, calls, history>>

Succeed(r) ==
  /\ pc[r] = "calling"
  /\ SetCircuit(r, circuit \ {model[r]})
  /\ Goto(r, "over")
  /\ UNCHANGED <<daily, observed, job, local, attempt, calls, history>>

\* A status the code does not recover from, or a body it could not read.
AnswerRefusal(r) ==
  /\ pc[r] = "calling"
  /\ Goto(r, "over")
  /\ UNCHANGED <<shared, job, local, attempt, calls, history>>

\* HTTP 400: the model does not take the tools of the profile.
RotateTools(r) ==
  /\ pc[r] = "calling"
  /\ job[r].tools /\ Retryable(r) /\ Falls(r)
  /\ MoveTo(r, config[r].fallback)
  /\ Again(r)
  /\ UNCHANGED <<shared, job, first, budget, compat, report, calls, history>>

RetryTextOnlyAgain(r) ==   \* mutant: compatibilityRetried is never set
  /\ pc[r] = "calling"
  /\ Again(r)
  /\ UNCHANGED <<shared, job, local, calls, history>>

\* The model called a tool it was told not to call: the tools are removed and
\* the call repeated, once and whatever the retries.
RetryTextOnly(r) ==
  /\ pc[r] = "calling"
  /\ ~compat[r]
  /\ compat' = [compat EXCEPT ![r] = TRUE]
  /\ Again(r)
  /\ UNCHANGED <<shared, job, first, model, config, visited, budget, report, calls, history>>

\* A status to recover from opens the circuit.  A 429 may also name tokens per
\* minute ("limited") or state a limit per day ("observing").
Fail(r) ==
  /\ pc[r] = "calling"
  /\ SetCircuit(r, circuit \cup {model[r]})
  /\ \/ \E step \in {"limited", "deciding"} : Goto(r, step) /\ UNCHANGED report
     \/ \E limit \in Reports[model[r]] : report' = [report EXCEPT ![r] = limit] /\ Goto(r, "observing")
  /\ UNCHANGED <<daily, observed, job, first, model, config, visited, budget, compat, attempt, calls, history>>

ObserveLimit(r) ==
  /\ pc[r] = "observing"
  /\ \/ observed' = [observed EXCEPT ![model[r]] = report[r]]
     \/ r \in Faulty /\ UNCHANGED observed
  /\ Goto(r, "marking")
  /\ UNCHANGED <<circuit, daily, job, local, attempt, calls, history>>

ExhaustObserved(m, limit) == UNCHANGED daily   \* mutant: the counter is not seeded

\* The counter is set to the capacity of the stated limit.
Exhaust(m, limit) == daily' = [daily EXCEPT ![m] = Capacity(limit)]

MarkExhausted(r) ==
  /\ pc[r] = "marking"
  /\ \/ /\ Exhaust(model[r], report[r])
        /\ marked' = [marked EXCEPT ![model[r]] = report[r]]
        /\ granted' = [granted EXCEPT ![model[r]] = 0]
     \/ r \in Faulty /\ UNCHANGED <<daily, history>>
  /\ report' = [report EXCEPT ![r] = 0]
  /\ Goto(r, "deciding")
  /\ UNCHANGED <<circuit, observed, job, first, model, config, visited, budget, compat, attempt, calls>>

\* The answer goes back as it is: retries spent, or nothing left to try.
GiveUp(r) ==
  /\ pc[r] \in {"limited", "deciding"}
  /\ ~Retryable(r) \/ (~Falls(r) /\ ~config[r].backoff)
  /\ Goto(r, "over")
  /\ UNCHANGED <<shared, job, local, attempt, calls, history>>

\* The same model again with a shorter prompt or a smaller output budget.
Shrink(r) ==
  /\ pc[r] = "limited" /\ Retryable(r)
  /\ Again(r)
  /\ UNCHANGED <<shared, job, local, calls, history>>

FallBack(r) ==
  /\ pc[r] \in {"limited", "deciding"} /\ Retryable(r)
  /\ Falls(r)
  /\ MoveTo(r, config[r].fallback)
  /\ Again(r)
  /\ UNCHANGED <<shared, job, first, budget, compat, report, calls, history>>

\* The same model again after a pause, unless the context ends in it.
BackOff(r) ==
  /\ pc[r] \in {"limited", "deciding"} /\ Retryable(r)
  /\ ~Falls(r) /\ config[r].backoff
  /\ \/ Again(r)
     \/ Goto(r, "over") /\ UNCHANGED attempt
  /\ UNCHANGED <<shared, job, local, calls, history>>

-----------------------------------------------------------------------------
\* What Redis does by itself.

CircuitExpires(m) ==
  /\ m \in circuit
  /\ circuit' = circuit \ {m}
  /\ UNCHANGED <<daily, observed, job, pc, local, attempt, calls, history>>

\* recordModelPoolHealth leaves the health of a model six hours, the limit
\* observed with it.
HealthExpires(m) ==
  /\ observed[m] # 0
  /\ observed' = [observed EXCEPT ![m] = 0]
  /\ UNCHANGED <<circuit, daily, job, pc, local, attempt, calls, history>>

\* Pacific midnight: a new key for every model.
NewDay ==
  /\ daily' = [m \in Model |-> 0]
  /\ granted' = [m \in Model |-> 0] /\ marked' = [m \in Model |-> 0]
  /\ UNCHANGED <<circuit, observed, job, pc, local, attempt, calls>>

Begin(r) == Select(r) \/ Prepare(r) \/ Bypass(r) \/ Preflight(r) \/ Direct(r)

Admission(r) ==
  Admit(r) \/ Spill(r) \/ Hold(r) \/ CountNothing(r) \/ Count(r) \/ SpillDaily(r) \/ RefuseDaily(r)

Answer(r) ==
  \/ TransportFails(r) \/ Succeed(r) \/ AnswerRefusal(r) \/ RotateTools(r) \/ RetryTextOnly(r) \/ Fail(r)
  \/ ObserveLimit(r) \/ MarkExhausted(r) \/ GiveUp(r) \/ Shrink(r) \/ FallBack(r) \/ BackOff(r)

Recover(r) == Begin(r) \/ Admission(r) \/ Answer(r)

Expires == NewDay \/ \E m \in Model : CircuitExpires(m) \/ HealthExpires(m)

Next == Expires \/ \E r \in Request : Recover(r) \/ Waited(r)

Spec == Init /\ [][Next]_vars

\* The code between two calls runs on, and the HTTP client gives a call 300 s.
\* Nothing bounds the wait for the token bucket, so Waited has no fairness.
FairSpec == Spec /\ \A r \in Request : WF_vars(Recover(r))

-----------------------------------------------------------------------------
\* Properties.

\* However it retries, falls back and spills, a request costs at most its
\* retries, the first call and the one text-only repetition.
CallsBounded == \A r \in Request : calls[r] <= budget[r] + 2

\* Pixels are never sent to a model outside the Vision pool: without that pool
\* an image stays with the model it was routed to.
PixelsStayInPool ==
  \A r \in Request : job[r].image =>
    model[r] \in {first[r]} \cup (IF job[r].route = "vision" THEN Pool["vision"] ELSE {})

\* Until a provider states that the day is spent, replicas together admit no
\* more requests a day to a model than its configured limit leaves them.
DailyWithinCapacity ==
  \A m \in Model : Settings[m].limit > 0 /\ marked[m] = 0 => granted[m] <= Capacity(Settings[m].limit)

\* After it, only what the stated limit lacks of the configured one is admitted
\* until midnight: nothing when it lacks nothing.
ExhaustedAdmitsTheRest ==
  \A m \in Model : Settings[m].limit > 0 /\ marked[m] > 0 =>
    granted[m] <= Max({0, Capacity(Settings[m].limit) - Capacity(marked[m])})

\* What markModelDailyExhausted says of itself: once a provider has stated that
\* the day is spent, every later request spills to the fallback.
ExhaustedStaysExhausted ==
  [][\A m \in Model : Settings[m].limit > 0 /\ marked[m] > 0 => granted'[m] <= granted[m]]_vars

\* No request loops for ever: each one ends, or is left waiting for tokens.
Settles == \A r \in Request : <>[](pc[r] \in {"new", "waiting", "over"})
=============================================================================
