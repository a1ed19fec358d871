------------------------ MODULE ModelRecoveryProofs ------------------------
(***************************************************************************)
(* Proofs about ModelRecovery, for any number of requests, models and      *)
(* pools, whatever the rows of the models say and with any calls of        *)
(* PostgreSQL and Redis failing.                                           *)
(***************************************************************************)
EXTENDS ModelRecovery, FiniteSetTheorems, TLAPS

Routing == {"new", "routed"}
BeforeCall == {"admitting", "waiting", "counting"}
AfterCall == {"calling", "observing", "marking", "limited", "deciding"}

\* The row a request goes by is that of its model, or one without a limit; in
\* the Vision pool its fallback belongs to the pool.
GoesByRow(r) ==
  pc[r] \notin Routing =>
    /\ config[r].limit \in {0, Settings[model[r]].limit}
    /\ job[r].route = "vision" => config[r].fallback \in Pool["vision"] \cup {None}

ConfigInv == \A r \in Request : GoesByRow(r)

PixelsStay(r) ==
  job[r].image => model[r] \in {first[r]} \cup (IF job[r].route = "vision" THEN Pool["vision"] ELSE {})

Spare(r) == IF compat[r] THEN 1 ELSE 0

\* Before a call a request has made at most one for each iteration that counts,
\* and the text-only repetition; after it, one more.
CallsCounted(r) ==
  /\ pc[r] \in Routing \cup {"checking"} => calls[r] = 0
  /\ pc[r] \in BeforeCall => calls[r] <= attempt[r] + Spare(r) /\ calls[r] <= budget[r] + Spare(r)
  /\ pc[r] \in AfterCall => calls[r] <= attempt[r] + Spare(r) + 1 /\ calls[r] <= budget[r] + Spare(r) + 1
  /\ calls[r] <= budget[r] + 2

CallsInv == \A r \in Request : CallsCounted(r)

\* The counter of a model with a limit covers the seed of its last mark and what
\* was granted since; and nothing was granted beyond its capacity.
Counted(m) ==
  /\ granted[m] + Capacity(marked[m]) <= daily[m]
  /\ granted[m] > 0 => granted[m] + Capacity(marked[m]) <= Capacity(Settings[m].limit)

DayInv == \A m \in Model : Settings[m].limit > 0 => Counted(m)

-----------------------------------------------------------------------------

\* The lesser of two numbers.
LEMMA MinOfTwo == ASSUME NEW a \in Int, NEW b \in Int PROVE Min({a, b}) = IF a <= b THEN a ELSE b
BY DEF Min

\* The greater of two numbers.
LEMMA MaxOfTwo == ASSUME NEW a \in Int, NEW b \in Int PROVE Max({a, b}) = IF a >= b THEN a ELSE b
BY DEF Max

\* The greatest of three numbers is one of them and none is greater.
LEMMA MaxOfThree ==
  ASSUME NEW a \in Int, NEW b \in Int, NEW c \in Int
  PROVE  /\ Max({a, b, c}) \in {a, b, c}
         /\ Max({a, b, c}) >= a /\ Max({a, b, c}) >= b /\ Max({a, b, c}) >= c
<1> DEFINE S == {a, b, c}
<1>1. \E x \in S : \A y \in S : x >= y
  <2>1. CASE a >= b /\ a >= c
    BY <2>1
  <2>2. CASE b >= a /\ b >= c
    BY <2>2
  <2>3. CASE c >= a /\ c >= b
    BY <2>3
  <2> QED
    BY <2>1, <2>2, <2>3
<1> QED
  BY <1>1 DEF Max

\* The retries of a request stay between nought and four.
LEMMA RetriesBounded ==
  ASSUME NEW pool \in 0..MaxRetries, NEW row \in Row
  PROVE  MaxRetriesOf(pool, row) \in 0..MaxRetries
<1>1. row.retries \in Int /\ pool \in Int
  BY DEF Row, MaxRetries
<1>2. Max({0, row.retries, pool}) \in Int /\ Max({0, row.retries, pool}) >= 0
  BY <1>1, MaxOfThree
<1> QED
  BY <1>2, MinOfTwo DEF MaxRetriesOf, MaxRetries

\* Neither does a pool give more.
LEMMA PoolRetriesBounded ==
  ASSUME NEW n \in Nat PROVE PoolRetries(n) \in 0..MaxRetries
BY MinOfTwo DEF PoolRetries, MaxRetries

\* A limit that is greater leaves no less, and a limit leaves something.
LEMMA CapacityMonotone ==
  ASSUME NEW a \in Nat, NEW b \in Nat, a >= b, b > 0
  PROVE  Capacity(a) \in Nat /\ Capacity(a) >= Capacity(b) /\ Capacity(b) > 0
<1>1. (9 * a) \div 10 \in Int /\ (9 * b) \div 10 \in Int /\ (9 * a) \div 10 >= (9 * b) \div 10
  OBVIOUS
<1>2. Capacity(a) = Max({1, (9 * a) \div 10}) /\ Capacity(b) = Max({1, (9 * b) \div 10})
  BY DEF Capacity
<1> QED
  BY <1>1, <1>2, MaxOfTwo

\* A capacity is a number of requests.
LEMMA CapacityType == ASSUME NEW limit \in Nat PROVE Capacity(limit) \in Nat
<1>1. CASE limit = 0
  BY <1>1 DEF Capacity
<1>2. CASE limit > 0
  BY <1>2, CapacityMonotone
<1> QED
  BY <1>1, <1>2

-----------------------------------------------------------------------------

\* Whatever row is read, what the pool makes of it is a row with its limit, and
\* the Vision pool leaves no other fallback than its own models.
LEMMA PreparedFacts ==
  ASSUME TypeOK, NEW r \in Request, NEW m \in Model, NEW row \in Rows(r, m), NEW seen,
         NEW p \in Prepared(r, row, seen)
  PROVE  /\ p \in Row
         /\ p.limit \in {0, Settings[m].limit}
         /\ job[r].route = "vision" => p.fallback \in Pool["vision"] \cup {None}
<1> USE RecoveryAssumption
<1>1. row \in Row /\ row.limit \in {0, Settings[m].limit}
  <2>1. row = Settings[m] \/ row = DefaultRow
    BY DEF Rows
  <2>2. DefaultRow \in Row /\ DefaultRow.limit = 0
    BY DEF DefaultRow, Row
  <2>3. Settings[m] \in Row
    OBVIOUS
  <2> QED
    BY <2>1, <2>2, <2>3
<1>2. job[r] \in Job /\ job[r].route \in Routes \cup {None}
  BY DEF TypeOK, RequestsType, Job
<1>3. CASE job[r].route = None
  BY <1>1, <1>3 DEF Prepared
<1>4. CASE job[r].route # None
  <2>1. PoolOf(job[r].route) = Pool[job[r].route] /\ Pool[job[r].route] \subseteq Model
    BY <1>2, <1>4 DEF PoolOf
  <2>2. CASE \E n \in Candidates(r, seen) :
               p = [row EXCEPT !.fallback = n, !.strategy = Strategy(@)]
    <3>1. PICK n \in Candidates(r, seen) :
            p = [row EXCEPT !.fallback = n, !.strategy = Strategy(@)]
      BY <2>2
    <3>2. n \in Pool[job[r].route] /\ n \in Model
      BY <2>1 DEF Candidates
    <3>3. Strategy(row.strategy) \in {"adaptive", "fallback", "trim", "reject"}
      BY <1>1 DEF Strategy, Row
    <3> QED
      BY <1>1, <3>1, <3>2, <3>3 DEF Row
  <2>3. CASE p = Unserved(row, job[r].route)
    BY <1>1, <2>3 DEF Unserved, Row
  <2> QED
    BY <1>4, <2>2, <2>3 DEF Prepared
<1> QED
  BY <1>3, <1>4

\* A request that turns to a model keeps every shape, and goes by its row.
LEMMA MoveToFacts ==
  ASSUME TypeOK, NEW r \in Request, NEW m \in Model, MoveTo(r, m)
  PROVE  /\ model' = [model EXCEPT ![r] = m]
         /\ visited' \in [Request -> SUBSET Model]
         /\ \E p \in Row : /\ config' = [config EXCEPT ![r] = p]
                           /\ p.limit \in {0, Settings[m].limit}
                           /\ job[r].route = "vision" => p.fallback \in Pool["vision"] \cup {None}
<1>1. Seen(r, m) \subseteq Model
  BY DEF Seen, TypeOK, PlaceType
<1>2. visited' \in [Request -> SUBSET Model]
  BY <1>1 DEF MoveTo, TypeOK, PlaceType
<1>3. PICK row \in Rows(r, m) : \E p \in Prepared(r, row, Seen(r, m)) :
        config' = [config EXCEPT ![r] = p]
  BY DEF MoveTo
<1>4. PICK p \in Prepared(r, row, Seen(r, m)) : config' = [config EXCEPT ![r] = p]
  BY <1>3
<1> QED
  BY <1>2, <1>4, PreparedFacts DEF MoveTo

\* A request that falls back has a model to fall back to.
LEMMA FallsToModel ==
  ASSUME TypeOK, NEW r \in Request, Falls(r) PROVE config[r].fallback \in Model
BY DEF Falls, CanFallback, TypeOK, PlaceType, Row

\* The next iteration is counted, up to the cap.
LEMMA AgainFacts ==
  ASSUME TypeOK, NEW r \in Request, Again(r)
  PROVE  /\ pc' = [pc EXCEPT ![r] = "admitting"]
         /\ attempt' \in [Request -> 0..AttemptCap]
         /\ attempt' = [attempt EXCEPT ![r] = IF @ < AttemptCap THEN @ + 1 ELSE AttemptCap]
<1>1. attempt[r] \in 0..AttemptCap
  BY DEF TypeOK, LoopType
<1>2. Min({attempt[r] + 1, AttemptCap}) = IF attempt[r] < AttemptCap THEN attempt[r] + 1 ELSE AttemptCap
  BY <1>1, MinOfTwo DEF AttemptCap, MaxRetries
<1>3. attempt' = [attempt EXCEPT ![r] = IF @ < AttemptCap THEN @ + 1 ELSE AttemptCap]
  BY <1>2 DEF Again
<1>4. attempt' \in [Request -> 0..AttemptCap]
  BY <1>1, <1>3 DEF TypeOK, LoopType, AttemptCap, MaxRetries
<1> QED
  BY <1>3, <1>4 DEF Again, Goto

\* The loop begins with between nought and four retries.
LEMMA EnterLoopFacts ==
  ASSUME TypeOK, NEW r \in Request, EnterLoop(r), config' \in [Request -> Row]
  PROVE  budget' \in [Request -> 0..MaxRetries] /\ pc' = [pc EXCEPT ![r] = "admitting"]
<1>1. budget[r] \in 0..MaxRetries /\ config'[r] \in Row
  BY DEF TypeOK, LoopType
<1> QED
  BY <1>1, RetriesBounded DEF EnterLoop, Goto, TypeOK, LoopType

-----------------------------------------------------------------------------

\* The first state has every shape.
LEMMA TypeInit == Init => TypeOK
<1> SUFFICES ASSUME Init PROVE TypeOK
  OBVIOUS
<1> USE RecoveryAssumption DEF Init
<1>1. ModelsType /\ PlaceType
  BY DEF ModelsType, PlaceType
<1>2. RequestsType
  <2>1. job \in [Request -> Job]
    OBVIOUS
  <2> QED
    BY <2>1 DEF RequestsType, Steps
<1>3. LoopType
  BY DEF LoopType, AttemptCap, MaxRetries
<1> QED
  BY <1>1, <1>2, <1>3 DEF TypeOK

\* What is not touched keeps its shape.
LEMMA ModelsKept == ModelsType /\ UNCHANGED <<shared, history>> => ModelsType'
BY DEF ModelsType, shared, history

\* A request that goes on keeps the shape of the requests.
LEMMA GotoType ==
  ASSUME RequestsType, NEW r \in Request, NEW step \in Steps, pc' = [pc EXCEPT ![r] = step],
         UNCHANGED <<job, first, calls>>
  PROVE  RequestsType'
BY DEF RequestsType

\* What is not touched keeps its shape.
LEMMA PlaceKept == PlaceType /\ UNCHANGED <<model, config, visited>> => PlaceType'
BY DEF PlaceType

\* What is not touched keeps its shape.
LEMMA LoopKept == LoopType /\ UNCHANGED <<attempt, budget, compat, report>> => LoopType'
BY DEF LoopType

\* A request that turns to a model keeps the shape of the places.
LEMMA MoveType ==
  ASSUME TypeOK, NEW r \in Request, NEW m \in Model, MoveTo(r, m) PROVE PlaceType'
<1>1. model \in [Request -> Model] /\ config \in [Request -> Row]
  BY DEF TypeOK, PlaceType
<1> QED
  BY <1>1, MoveToFacts DEF PlaceType

\* The next iteration keeps the shape of the requests and of their counters.
LEMMA AgainType ==
  ASSUME TypeOK, NEW r \in Request, Again(r), UNCHANGED <<job, first, calls>>,
         compat' \in [Request -> BOOLEAN], UNCHANGED <<budget, report>>
  PROVE  RequestsType' /\ LoopType'
<1>1. "admitting" \in Steps
  BY DEF Steps
<1>2. RequestsType'
  BY <1>1, AgainFacts, GotoType DEF TypeOK
<1>3. LoopType'
  BY AgainFacts DEF TypeOK, LoopType
<1> QED
  BY <1>2, <1>3

\* A request that falls back for its next iteration keeps every shape but that
\* of what the models share.
LEMMA FallType ==
  ASSUME TypeOK, NEW r \in Request, Falls(r), MoveTo(r, config[r].fallback), Again(r),
         UNCHANGED <<job, first, calls, budget, compat, report>>
  PROVE  RequestsType' /\ PlaceType' /\ LoopType'
<1>1. compat' \in [Request -> BOOLEAN]
  BY DEF TypeOK, LoopType
<1> QED
  BY <1>1, FallsToModel, MoveType, AgainType

\* Whatever is decided before the loop, every value keeps its shape.
LEMMA BeginType == ASSUME TypeOK, NEW r \in Request, Begin(r) PROVE TypeOK'
<1> USE DEF TypeOK
<1>s. {"routed", "checking", "admitting"} \subseteq Steps
  BY DEF Steps
<1>1. CASE Select(r)
  <2>1. ModelsType' /\ UNCHANGED <<job, calls, config, attempt, compat, report>>
        /\ pc' = [pc EXCEPT ![r] = "routed"]
    BY <1>1, ModelsKept DEF Select, Goto
  <2>2. CASE UNCHANGED <<first, model, visited, budget>>
    BY <1>s, <2>1, <2>2, GotoType, PlaceKept, LoopKept
  <2>3. CASE \E C \in SUBSET Candidates(r, {}) : \E m \in C :
               /\ first' = [first EXCEPT ![r] = m]
               /\ model' = [model EXCEPT ![r] = m]
               /\ visited' = [visited EXCEPT ![r] = {m}]
               /\ budget' = [budget EXCEPT ![r] = PoolRetries(Cardinality(C))]
    <3>1. PICK C \in SUBSET Candidates(r, {}) : \E m \in C :
               /\ first' = [first EXCEPT ![r] = m]
               /\ model' = [model EXCEPT ![r] = m]
               /\ visited' = [visited EXCEPT ![r] = {m}]
               /\ budget' = [budget EXCEPT ![r] = PoolRetries(Cardinality(C))]
      BY <2>3
    <3>2. C \subseteq Model
      BY RecoveryAssumption DEF Candidates, PoolOf, Job, RequestsType
    <3>3. Cardinality(C) \in Nat
      BY <3>2, RecoveryAssumption, FS_Subset, FS_CardinalityType
    <3>4. PoolRetries(Cardinality(C)) \in 0..MaxRetries
      BY <3>3, PoolRetriesBounded
    <3>5. RequestsType'
      BY <1>s, <2>1, <3>1, <3>2 DEF RequestsType
    <3>6. PlaceType'
      BY <2>1, <3>1, <3>2 DEF PlaceType
    <3>7. LoopType'
      BY <2>1, <3>1, <3>4 DEF LoopType
    <3> QED
      BY <2>1, <3>5, <3>6, <3>7
  <2> QED
    BY <1>1, <2>2, <2>3 DEF Select
<1>2. CASE Prepare(r)
  <2>1. model[r] \in Model /\ MoveTo(r, model[r])
    BY <1>2 DEF Prepare, PlaceType
  <2>2. PlaceType'
    BY <2>1, MoveType
  <2>3. ModelsType' /\ LoopType'
    BY <1>2, ModelsKept, LoopKept DEF Prepare
  <2>4. RequestsType'
    BY <1>2, <1>s, GotoType DEF Prepare, Goto
  <2> QED
    BY <2>2, <2>3, <2>4
<1>3. ASSUME EnterLoop(r), PlaceType' PROVE TypeOK'
  <2>1. budget' \in [Request -> 0..MaxRetries] /\ pc' = [pc EXCEPT ![r] = "admitting"]
    BY <1>3, EnterLoopFacts DEF PlaceType
  <2>2. ModelsType' /\ LoopType'
    BY <1>3, <2>1, ModelsKept DEF EnterLoop, LoopType
  <2>3. RequestsType'
    BY <1>3, <1>s, <2>1, GotoType DEF EnterLoop
  <2> QED
    BY <1>3, <2>2, <2>3
<1>4. CASE Bypass(r)
  <2>1. PlaceType'
    BY <1>4, FallsToModel, MoveType DEF Bypass
  <2> QED
    BY <1>3, <1>4, <2>1 DEF Bypass
<1>5. CASE Preflight(r)
  <2>1. config[r].fallback \in Model
    BY <1>5 DEF Preflight, PlaceType, Row
  <2>2. PlaceType'
    BY <1>5, <2>1, MoveType DEF Preflight
  <2> QED
    BY <1>3, <1>5, <2>2 DEF Preflight
<1>6. CASE Direct(r)
  <2>1. PlaceType'
    BY <1>6, PlaceKept DEF Direct
  <2> QED
    BY <1>3, <1>6, <2>1 DEF Direct
<1> QED
  BY <1>1, <1>2, <1>4, <1>5, <1>6 DEF Begin

\* A step that only moves the request on keeps every shape.
LEMMA StepType ==
  ASSUME TypeOK, NEW r \in Request, NEW step \in Steps, Goto(r, step),
         UNCHANGED <<job, local, attempt, calls>>
  PROVE  RequestsType' /\ PlaceType' /\ LoopType'
<1>1. UNCHANGED <<first, model, config, visited, budget, compat, report>>
  BY DEF local
<1> QED
  BY <1>1, GotoType, PlaceKept, LoopKept DEF TypeOK, Goto

\* Whatever admission says, every value keeps its shape.
LEMMA AdmissionType == ASSUME TypeOK, NEW r \in Request, Admission(r) \/ Waited(r) PROVE TypeOK'
<1> USE DEF TypeOK
<1>s. {"counting", "waiting", "calling", "over"} \subseteq Steps
  BY DEF Steps
<1>1. CASE Admit(r) \/ Hold(r) \/ Waited(r) \/ RefuseDaily(r)
  <2>1. PICK step \in {"counting", "waiting", "over"} :
          Goto(r, step) /\ UNCHANGED <<shared, job, local, attempt, calls, history>>
    BY <1>1 DEF Admit, Hold, Waited, RefuseDaily
  <2> QED
    BY <1>s, <2>1, StepType, ModelsKept
<1>2. CASE Spill(r)
  <2>1. PICK step \in {"counting", "waiting"} : Goto(r, step)
    BY <1>2 DEF Spill
  <2>2. ModelsType' /\ LoopType'
    BY <1>2, ModelsKept, LoopKept DEF Spill
  <2>3. RequestsType'
    BY <1>2, <1>s, <2>1, GotoType DEF Spill, Goto
  <2>4. PlaceType'
    BY <1>2, FallsToModel, MoveType DEF Spill
  <2> QED
    BY <2>2, <2>3, <2>4
<1>3. ASSUME Call(r), UNCHANGED <<job, local, attempt>>
      PROVE  RequestsType' /\ PlaceType' /\ LoopType'
  <2>1. UNCHANGED <<first, model, config, visited, budget, compat, report>>
    BY <1>3 DEF local
  <2>2. RequestsType'
    BY <1>3, <1>s, <2>1 DEF Call, Goto, RequestsType
  <2> QED
    BY <1>3, <2>1, <2>2, PlaceKept, LoopKept
<1>4. CASE CountNothing(r)
  BY <1>3, <1>4, ModelsKept DEF CountNothing
<1>5. CASE Count(r)
  <2>1. daily' = [daily EXCEPT ![model[r]] = @ + 1] /\ UNCHANGED <<circuit, observed, marked>>
    BY <1>5 DEF Count
  <2>2. granted' \in [Model -> Nat]
    <3>1. granted' = [granted EXCEPT ![model[r]] = @ + 1] \/ granted' = granted
      BY <1>5 DEF Count
    <3> QED
      BY <3>1 DEF ModelsType
  <2>3. ModelsType'
    <3>1. model[r] \in Model /\ daily \in [Model -> Nat]
      BY DEF ModelsType, PlaceType
    <3>2. daily' \in [Model -> Nat]
      BY <2>1, <3>1
    <3> QED
      BY <2>1, <2>2, <3>2 DEF ModelsType
  <2> QED
    BY <1>3, <1>5, <2>3 DEF Count
<1>6. CASE SpillDaily(r)
  <2>1. ModelsType'
    BY <1>6, ModelsKept DEF SpillDaily
  <2> QED
    BY <1>6, <2>1, FallType DEF SpillDaily
<1> QED
  BY <1>1, <1>2, <1>4, <1>5, <1>6 DEF Admission

\* A circuit that is opened or cleared is that of a model.
LEMMA CircuitType ==
  ASSUME TypeOK, NEW r \in Request, NEW models, models \subseteq Model, SetCircuit(r, models),
         UNCHANGED <<daily, observed, history>>
  PROVE  ModelsType'
BY DEF SetCircuit, TypeOK, ModelsType, history

\* Whatever the provider answers, every value keeps its shape.
LEMMA AnswerType == ASSUME TypeOK, NEW r \in Request, Answer(r) PROVE TypeOK'
<1> USE DEF TypeOK
<1>s. {"limited", "deciding", "observing", "marking", "over"} \subseteq Steps
  BY DEF Steps
<1>c. circuit \cup {model[r]} \subseteq Model /\ circuit \ {model[r]} \subseteq Model
  BY DEF ModelsType, PlaceType
<1>1. CASE TransportFails(r)
  <2>1. ModelsType'
    BY <1>1, <1>c, CircuitType DEF TransportFails
  <2>2. CASE Retryable(r) /\ Falls(r) /\ MoveTo(r, config[r].fallback) /\ Again(r)
    BY <1>1, <2>1, <2>2, FallType DEF TransportFails
  <2>3. CASE Goto(r, "over") /\ UNCHANGED <<model, visited, config, attempt>>
    <3>1. UNCHANGED <<job, local, attempt, calls>>
      BY <1>1, <2>3 DEF TransportFails, local
    <3> QED
      BY <1>s, <2>1, <2>3, <3>1, StepType
  <2> QED
    BY <1>1, <2>2, <2>3 DEF TransportFails
<1>2. CASE RotateTools(r) \/ FallBack(r)
  <2>1. ModelsType'
    BY <1>2, ModelsKept DEF RotateTools, FallBack
  <2> QED
    BY <1>2, <2>1, FallType DEF RotateTools, FallBack
<1>3. CASE Succeed(r)
  <2>1. ModelsType'
    BY <1>3, <1>c, CircuitType DEF Succeed
  <2> QED
    BY <1>3, <1>s, <2>1, StepType DEF Succeed
<1>4. CASE AnswerRefusal(r) \/ GiveUp(r)
  BY <1>4, <1>s, StepType, ModelsKept DEF AnswerRefusal, GiveUp
<1>5. CASE RetryTextOnly(r)
  <2>1. compat' \in [Request -> BOOLEAN]
    BY <1>5 DEF RetryTextOnly, LoopType
  <2>2. ModelsType' /\ PlaceType'
    BY <1>5, ModelsKept, PlaceKept DEF RetryTextOnly
  <2> QED
    BY <1>5, <2>1, <2>2, AgainType DEF RetryTextOnly
<1>6. CASE Shrink(r) \/ BackOff(r)
  <2>1. UNCHANGED <<job, first, model, config, visited, budget, compat, report, calls>> /\ ModelsType'
    BY <1>6, ModelsKept DEF Shrink, BackOff, local
  <2>2. compat' \in [Request -> BOOLEAN]
    BY <2>1 DEF LoopType
  <2>3. CASE Again(r)
    BY <2>1, <2>2, <2>3, AgainType, PlaceKept
  <2>4. CASE Goto(r, "over") /\ UNCHANGED attempt
    BY <1>s, <2>1, <2>4, StepType DEF local
  <2> QED
    BY <1>6, <2>3, <2>4 DEF Shrink, BackOff
<1>7. CASE Fail(r)
  <2>1. ModelsType'
    BY <1>7, <1>c, CircuitType DEF Fail
  <2>2. RequestsType'
    BY <1>7, <1>s, GotoType DEF Fail, Goto
  <2>3. report' \in [Request -> Nat]
    BY <1>7, RecoveryAssumption DEF Fail, LoopType, PlaceType
  <2> QED
    BY <1>7, <2>1, <2>2, <2>3, PlaceKept DEF Fail, LoopType
<1>8. CASE ObserveLimit(r)
  <2>1. ModelsType'
    BY <1>8 DEF ObserveLimit, ModelsType, LoopType, history
  <2> QED
    BY <1>8, <1>s, <2>1, StepType DEF ObserveLimit
<1>9. CASE MarkExhausted(r)
  <2>1. Capacity(report[r]) \in Nat /\ model[r] \in Model
    BY CapacityType DEF LoopType, PlaceType
  <2>2. daily' \in [Model -> Nat] /\ marked' \in [Model -> Nat] /\ granted' \in [Model -> Nat]
    BY <1>9, <2>1 DEF MarkExhausted, Exhaust, ModelsType, LoopType, history
  <2>3. ModelsType'
    BY <1>9, <2>2 DEF MarkExhausted, ModelsType
  <2>4. RequestsType'
    BY <1>9, <1>s, GotoType DEF MarkExhausted, Goto
  <2> QED
    BY <1>9, <2>3, <2>4, PlaceKept DEF MarkExhausted, LoopType
<1> QED
  BY <1>1, <1>2, <1>3, <1>4, <1>5, <1>6, <1>7, <1>8, <1>9 DEF Answer

\* Every step keeps every shape.
LEMMA TypeStep == TypeOK /\ [Next]_vars => TypeOK'
<1> SUFFICES ASSUME TypeOK, [Next]_vars PROVE TypeOK'
  OBVIOUS
<1>1. CASE Expires
  <2>1. UNCHANGED <<job, pc, first, model, config, visited, attempt, budget, compat, report, calls>>
    BY <1>1 DEF Expires, NewDay, CircuitExpires, HealthExpires, local
  <2>2. ModelsType'
    BY <1>1 DEF Expires, NewDay, CircuitExpires, HealthExpires, history, TypeOK, ModelsType
  <2> QED
    BY <2>1, <2>2, PlaceKept, LoopKept DEF TypeOK, RequestsType
<1>2. ASSUME NEW r \in Request, Recover(r) \/ Waited(r) PROVE TypeOK'
  BY <1>2, BeginType, AdmissionType, AnswerType DEF Recover
<1>3. CASE UNCHANGED vars
  <2>1. UNCHANGED <<job, pc, first, model, config, visited, attempt, budget, compat, report, calls>>
    BY <1>3 DEF vars, local
  <2>2. ModelsType'
    BY <1>3, ModelsKept DEF vars, TypeOK
  <2> QED
    BY <2>1, <2>2, PlaceKept, LoopKept DEF TypeOK, RequestsType
<1> QED
  BY <1>1, <1>2, <1>3 DEF Next

\* Every variable keeps its type (ModelRecovery!TypeOK), whatever the rows of
\* provider_models say and whichever calls fail.
THEOREM TypeCorrect == Spec => []TypeOK
BY TypeInit, TypeStep, PTL DEF Spec
-----------------------------------------------------------------------------
\* What a step of one request leaves alone, and where each step may start.

\* Turning to a model touches no other request.
LEMMA MoveToOthers ==
  ASSUME TypeOK, NEW r \in Request, NEW m, MoveTo(r, m), NEW q \in Request, q # r
  PROVE  UNCHANGED <<model[q], config[q]>>
<1>1. config \in [Request -> Row] /\ model \in [Request -> Model]
  BY DEF TypeOK, PlaceType
<1>2. \E p : config' = [config EXCEPT ![r] = p]
  BY DEF MoveTo
<1>3. model'[q] = model[q] /\ config'[q] = config[q]
  BY <1>1, <1>2 DEF MoveTo
<1> QED
  BY <1>3

\* The values of a request that a step of another one leaves alone.
Own(q) == <<pc[q], job[q], first[q], model[q], config[q], attempt[q], budget[q], compat[q], report[q], calls[q]>>

\* A step of one request leaves the values of the others alone.
LEMMA OthersKept ==
  ASSUME TypeOK, NEW r \in Request, Recover(r) \/ Waited(r), NEW q \in Request, q # r
  PROVE  UNCHANGED Own(q)
<1> USE DEF Goto, Own, local
<1>t. /\ pc \in [Request -> Steps] /\ calls \in [Request -> Nat] /\ first \in [Request -> Model]
      /\ model \in [Request -> Model]
      /\ attempt \in [Request -> 0..AttemptCap] /\ budget \in [Request -> 0..MaxRetries]
      /\ compat \in [Request -> BOOLEAN] /\ report \in [Request -> Nat]
  BY DEF TypeOK, RequestsType, LoopType, PlaceType
<1>a. ASSUME Again(r) PROVE UNCHANGED <<pc[q], attempt[q]>>
  BY <1>a, <1>t DEF Again
<1>e. ASSUME EnterLoop(r)
      PROVE  UNCHANGED <<pc[q], job[q], first[q], attempt[q], budget[q], compat[q], report[q], calls[q]>>
  BY <1>e, <1>t DEF EnterLoop
<1>m. ASSUME NEW m, MoveTo(r, m) PROVE UNCHANGED <<model[q], config[q]>>
  BY <1>m, MoveToOthers
<1>1. CASE Select(r)
  BY <1>1, <1>t DEF Select
<1>2. CASE Prepare(r)
  BY <1>2, <1>t, <1>m DEF Prepare
<1>3. CASE Bypass(r)
  BY <1>3, <1>m, <1>e DEF Bypass
<1>4. CASE Preflight(r)
  BY <1>4, <1>m, <1>e DEF Preflight
<1>5. CASE Direct(r)
  BY <1>5, <1>e DEF Direct
<1>6. CASE Admit(r) \/ Hold(r) \/ Waited(r) \/ RefuseDaily(r) \/ Succeed(r) \/ AnswerRefusal(r) \/ GiveUp(r)
  BY <1>6, <1>t DEF Admit, Hold, Waited, RefuseDaily, Succeed, AnswerRefusal, GiveUp
<1>7. CASE Spill(r)
  BY <1>7, <1>t, <1>m DEF Spill
<1>8. CASE CountNothing(r) \/ Count(r)
  BY <1>8, <1>t DEF CountNothing, Count, Call
<1>9. CASE SpillDaily(r) \/ RotateTools(r) \/ FallBack(r)
  BY <1>9, <1>a, <1>m DEF SpillDaily, RotateTools, FallBack
<1>10. CASE TransportFails(r)
  BY <1>10, <1>a, <1>m, <1>t DEF TransportFails
<1>11. CASE RetryTextOnly(r)
  BY <1>11, <1>a, <1>t DEF RetryTextOnly
<1>12. CASE Shrink(r) \/ BackOff(r)
  BY <1>12, <1>a, <1>t DEF Shrink, BackOff
<1>13. CASE Fail(r) \/ ObserveLimit(r) \/ MarkExhausted(r)
  BY <1>13, <1>t DEF Fail, ObserveLimit, MarkExhausted
<1> QED
  BY <1>1, <1>2, <1>3, <1>4, <1>5, <1>6, <1>7, <1>8, <1>9, <1>10, <1>11, <1>12, <1>13
     DEF Recover, Begin, Admission, Answer

\* What Redis does by itself touches no request, and neither does a stutter.
LEMMA RedisKeeps ==
  ASSUME Expires \/ UNCHANGED vars, NEW q \in Request PROVE UNCHANGED Own(q)
BY DEF Expires, NewDay, CircuitExpires, HealthExpires, vars, local, Own
-----------------------------------------------------------------------------
\* Pixels.

\* A request that turns to a fallback, or to the model it was routed to, goes by
\* the row it reads, and takes no image out of the Vision pool.
LEMMA MoveKeepsPlace ==
  ASSUME TypeOK, NEW r \in Request, NEW m \in Model, MoveTo(r, m), UNCHANGED <<job, first>>,
         PixelsStay(r),
         m = model[r] \/ (Allowed(r) /\ m = config[r].fallback /\ GoesByRow(r) /\ pc[r] \notin Routing)
  PROVE  GoesByRow(r)' /\ PixelsStay(r)'
<1>1. PICK p \in Row : /\ config' = [config EXCEPT ![r] = p]
                       /\ p.limit \in {0, Settings[m].limit}
                       /\ job[r].route = "vision" => p.fallback \in Pool["vision"] \cup {None}
  BY MoveToFacts
<1>2. config \in [Request -> Row] /\ model \in [Request -> Model] /\ None \notin Model
  BY RecoveryAssumption DEF TypeOK, PlaceType
<1>3. config'[r] = p /\ model'[r] = m
  BY <1>1, <1>2 DEF MoveTo
<1>4. GoesByRow(r)'
  BY <1>1, <1>3 DEF GoesByRow
<1>5. PixelsStay(r)'
  <2>1. CASE m = model[r]
    BY <1>3, <2>1 DEF PixelsStay
  <2>2. CASE Allowed(r) /\ m = config[r].fallback /\ GoesByRow(r) /\ pc[r] \notin Routing
    BY <1>2, <1>3, <2>2 DEF PixelsStay, GoesByRow, Allowed
  <2> QED
    BY <2>1, <2>2
<1> QED
  BY <1>4, <1>5

\* Each step of a request keeps its image in place.
LEMMA PlaceStep ==
  ASSUME TypeOK, NEW r \in Request, GoesByRow(r), PixelsStay(r), Recover(r) \/ Waited(r)
  PROVE  GoesByRow(r)' /\ PixelsStay(r)'
<1>t. /\ pc \in [Request -> Steps] /\ first \in [Request -> Model]
      /\ model \in [Request -> Model] /\ model[r] \in Model
  BY DEF TypeOK, RequestsType, PlaceType
<1>1. ASSUME pc[r] \notin Routing, UNCHANGED <<job, first, model, config>>
      PROVE  GoesByRow(r)' /\ PixelsStay(r)'
  BY <1>1 DEF GoesByRow, PixelsStay
<1>2. ASSUME pc[r] \notin Routing, Allowed(r), config[r].fallback \in Model,
             MoveTo(r, config[r].fallback), UNCHANGED <<job, first>>
      PROVE  GoesByRow(r)' /\ PixelsStay(r)'
  BY <1>2, MoveKeepsPlace
<1>3. Falls(r) => Allowed(r) /\ config[r].fallback \in Model
  BY FallsToModel DEF Falls
<1>4. CASE Select(r)
  <2>1. pc'[r] = "routed" /\ UNCHANGED job
    BY <1>4, <1>t DEF Select, Goto
  <2>2. model'[r] = first'[r] \/ UNCHANGED <<first, model>>
    BY <1>4, <1>t DEF Select
  <2> QED
    BY <2>1, <2>2 DEF GoesByRow, PixelsStay, Routing
<1>5. CASE Prepare(r)
  BY <1>5, <1>t, MoveKeepsPlace DEF Prepare
<1>6. CASE Bypass(r)
  BY <1>2, <1>3, <1>6 DEF Bypass, EnterLoop, Routing
<1>7. CASE Preflight(r)
  <2>1. config[r].fallback \in Model
    BY <1>7 DEF Preflight, TypeOK, PlaceType, Row
  <2> QED
    BY <1>2, <1>7, <2>1 DEF Preflight, EnterLoop, Routing
<1>8. CASE Direct(r)
  BY <1>1, <1>8 DEF Direct, EnterLoop, Routing
<1>9. CASE Admission(r) \/ Waited(r)
  BY <1>1, <1>2, <1>3, <1>9
     DEF Admission, Waited, Admit, Spill, Hold, CountNothing, Count, SpillDaily, RefuseDaily, Routing, local
<1>10. CASE TransportFails(r) \/ RotateTools(r) \/ FallBack(r)
  BY <1>1, <1>2, <1>3, <1>10 DEF TransportFails, RotateTools, FallBack, Routing
<1>11. CASE \/ Succeed(r) \/ AnswerRefusal(r) \/ RetryTextOnly(r) \/ Fail(r) \/ ObserveLimit(r)
            \/ MarkExhausted(r) \/ GiveUp(r) \/ Shrink(r) \/ BackOff(r)
  BY <1>1, <1>11 DEF Succeed, AnswerRefusal, RetryTextOnly, Fail, ObserveLimit, MarkExhausted,
                     GiveUp, Shrink, BackOff, Routing, local
<1> QED
  BY <1>4, <1>5, <1>6, <1>7, <1>8, <1>9, <1>10, <1>11 DEF Recover, Begin, Answer

\* Images and rows are in place in every reachable state.
LEMMA PlaceCorrect == Spec => [](ConfigInv /\ PixelsStayInPool)
<1>1. PixelsStayInPool <=> \A r \in Request : PixelsStay(r)
  BY DEF PixelsStayInPool, PixelsStay
<1>2. Init => ConfigInv /\ PixelsStayInPool
  BY DEF Init, ConfigInv, PixelsStayInPool, GoesByRow, Routing
<1>3. TypeOK /\ ConfigInv /\ PixelsStayInPool /\ [Next]_vars => (ConfigInv /\ PixelsStayInPool)'
  <2> SUFFICES ASSUME TypeOK, ConfigInv, PixelsStayInPool, [Next]_vars, NEW q \in Request
               PROVE  GoesByRow(q)' /\ PixelsStay(q)'
    BY DEF ConfigInv, PixelsStayInPool, PixelsStay
  <2>1. GoesByRow(q) /\ PixelsStay(q)
    BY DEF ConfigInv, PixelsStayInPool, PixelsStay
  <2>2. ASSUME UNCHANGED Own(q) PROVE GoesByRow(q)' /\ PixelsStay(q)'
    BY <2>1, <2>2 DEF Own, GoesByRow, PixelsStay
  <2>3. CASE Expires \/ UNCHANGED vars
    BY <2>2, <2>3, RedisKeeps
  <2>4. ASSUME NEW r \in Request, Recover(r) \/ Waited(r)
        PROVE  GoesByRow(q)' /\ PixelsStay(q)'
    <3>1. CASE q = r
      BY <2>1, <2>4, <3>1, PlaceStep
    <3>2. CASE q # r
      BY <2>2, <2>4, <3>2, OthersKept
    <3> QED
      BY <3>1, <3>2
  <2> QED
    BY <2>3, <2>4 DEF Next
<1> QED
  BY <1>2, <1>3, TypeCorrect, PTL DEF Spec

\* Pixels never leave the Vision pool, or the model they were routed to
\* (ModelRecovery!PixelsStayInPool), whatever the rows and pools say.
THEOREM PixelsCorrect == Spec => []PixelsStayInPool
BY PlaceCorrect, PTL

-----------------------------------------------------------------------------
\* Calls.

\* Another iteration, after a call that may be retried or before one.
LEMMA AgainCounts ==
  ASSUME TypeOK, NEW r \in Request, Again(r), UNCHANGED <<calls, budget, compat>>, CallsCounted(r),
         (pc[r] \in AfterCall /\ attempt[r] < budget[r]) \/ pc[r] = "counting"
  PROVE  CallsCounted(r)'
<1>1. /\ attempt[r] \in 0..AttemptCap /\ budget[r] \in 0..MaxRetries /\ calls[r] \in Nat
      /\ pc'[r] = "admitting"
      /\ attempt'[r] = IF attempt[r] < AttemptCap THEN attempt[r] + 1 ELSE AttemptCap
  BY AgainFacts DEF TypeOK, LoopType, RequestsType
<1>2. Spare(r) \in {0, 1} /\ Spare(r)' = Spare(r)
  BY DEF Spare
<1>3. calls[r] <= attempt'[r] + Spare(r) /\ calls[r] <= budget[r] + Spare(r)
  BY <1>1, <1>2 DEF CallsCounted, BeforeCall, AfterCall, AttemptCap, MaxRetries
<1> QED
  BY <1>1, <1>2, <1>3 DEF CallsCounted, Routing, BeforeCall, AfterCall

\* A step to a place that allows no fewer calls keeps the count.
LEMMA GotoCounts ==
  ASSUME TypeOK, NEW r \in Request, UNCHANGED <<calls, attempt, budget, compat>>, CallsCounted(r),
         \/ pc'[r] = "over"
         \/ pc[r] \in BeforeCall /\ pc'[r] \in BeforeCall
         \/ pc[r] \in AfterCall /\ pc'[r] \in AfterCall
  PROVE  CallsCounted(r)'
BY DEF CallsCounted, Spare, Routing, BeforeCall, AfterCall

\* Each step of a request keeps the count of its calls.
LEMMA CallsStep ==
  ASSUME TypeOK, NEW r \in Request, CallsCounted(r), Recover(r) \/ Waited(r)
  PROVE  CallsCounted(r)'
<1>t. /\ pc \in [Request -> Steps] /\ calls \in [Request -> Nat] /\ calls[r] \in Nat
      /\ attempt[r] \in 0..AttemptCap /\ budget[r] \in 0..MaxRetries
      /\ compat \in [Request -> BOOLEAN]
  BY DEF TypeOK, RequestsType, LoopType
<1>b. TypeOK' /\ budget'[r] \in 0..MaxRetries
  <2>1. TypeOK'
    BY BeginType, AdmissionType, AnswerType DEF Recover
  <2> QED
    BY <2>1 DEF TypeOK, LoopType
<1>g. ASSUME NEW step, Goto(r, step) PROVE pc'[r] = step
  BY <1>g, <1>t DEF Goto
<1>1. CASE Begin(r)
  <2>1. calls[r] = 0 /\ UNCHANGED <<calls, attempt>>
    BY <1>1 DEF Begin, Select, Prepare, Bypass, Preflight, Direct, EnterLoop, CallsCounted, Routing
  <2>2. pc'[r] \in {"routed", "checking", "admitting"}
    BY <1>1, <1>g DEF Begin, Select, Prepare, Bypass, Preflight, Direct, EnterLoop
  <2>3. Spare(r)' \in {0, 1}
    BY DEF Spare
  <2> QED
    BY <1>t, <1>b, <2>1, <2>2, <2>3 DEF CallsCounted, Routing, BeforeCall, AfterCall, MaxRetries
<1>2. CASE Admit(r) \/ Spill(r) \/ Hold(r) \/ RefuseDaily(r) \/ Waited(r)
  <2>1. UNCHANGED <<calls, attempt, budget, compat>>
    BY <1>2 DEF Admit, Spill, Hold, RefuseDaily, Waited, local
  <2>2. pc[r] \in BeforeCall /\ pc'[r] \in BeforeCall \cup {"over"}
    BY <1>2, <1>g DEF Admit, Spill, Hold, RefuseDaily, Waited, BeforeCall
  <2> QED
    BY <2>1, <2>2, GotoCounts
<1>3. CASE CountNothing(r) \/ Count(r)
  <2>1. pc[r] = "counting" /\ Call(r) /\ UNCHANGED <<attempt, budget, compat>>
    BY <1>3 DEF CountNothing, Count, local
  <2>2. calls'[r] = calls[r] + 1 /\ pc'[r] = "calling"
    BY <1>t, <1>g, <2>1 DEF Call
  <2>3. Spare(r) \in {0, 1} /\ Spare(r)' = Spare(r)
    BY <2>1 DEF Spare
  <2> QED
    BY <1>t, <2>1, <2>2, <2>3 DEF CallsCounted, Routing, BeforeCall, AfterCall, AttemptCap, MaxRetries
<1>4. CASE SpillDaily(r)
  BY <1>4, AgainCounts DEF SpillDaily
<1>5. CASE RotateTools(r) \/ FallBack(r) \/ Shrink(r)
  BY <1>5, AgainCounts DEF RotateTools, FallBack, Shrink, Retryable, AfterCall, local
<1>6. CASE TransportFails(r) \/ BackOff(r)
  <2>1. pc[r] \in AfterCall /\ UNCHANGED <<calls, budget, compat>>
    BY <1>6 DEF TransportFails, BackOff, AfterCall, local
  <2>2. CASE Again(r) /\ attempt[r] < budget[r]
    BY <2>1, <2>2, AgainCounts
  <2>3. CASE Goto(r, "over") /\ UNCHANGED attempt
    BY <1>g, <2>1, <2>3, GotoCounts
  <2> QED
    BY <1>6, <2>2, <2>3 DEF TransportFails, BackOff, Retryable
<1>7. CASE RetryTextOnly(r)
  <2>1. Again(r) /\ pc[r] = "calling" /\ UNCHANGED <<calls, budget>> /\ ~compat[r] /\ compat'[r]
    BY <1>7, <1>t DEF RetryTextOnly
  <2>2. /\ pc'[r] = "admitting"
        /\ attempt'[r] = IF attempt[r] < AttemptCap THEN attempt[r] + 1 ELSE AttemptCap
    BY <1>t, <2>1, AgainFacts DEF TypeOK, LoopType
  <2>3. Spare(r) = 0 /\ Spare(r)' = 1
    BY <2>1 DEF Spare
  <2> QED
    BY <1>t, <2>1, <2>2, <2>3 DEF CallsCounted, Routing, BeforeCall, AfterCall, AttemptCap, MaxRetries
<1>8. CASE Succeed(r) \/ AnswerRefusal(r) \/ Fail(r) \/ ObserveLimit(r) \/ MarkExhausted(r) \/ GiveUp(r)
  <2>1. UNCHANGED <<calls, attempt, budget, compat>>
    BY <1>8 DEF Succeed, AnswerRefusal, Fail, ObserveLimit, MarkExhausted, GiveUp, local
  <2>2. pc[r] \in AfterCall /\ pc'[r] \in AfterCall \cup {"over"}
    BY <1>8, <1>g DEF Succeed, AnswerRefusal, Fail, ObserveLimit, MarkExhausted, GiveUp, AfterCall
  <2> QED
    BY <2>1, <2>2, GotoCounts
<1> QED
  BY <1>1, <1>2, <1>3, <1>4, <1>5, <1>6, <1>7, <1>8 DEF Recover, Admission, Answer

\* The calls of every request are counted.
LEMMA CallsCorrect == Spec => []CallsInv
<1>1. Init => CallsInv
  <2> SUFFICES ASSUME Init, NEW r \in Request PROVE CallsCounted(r)
    BY DEF CallsInv
  <2>1. pc[r] = "new" /\ calls[r] = 0 /\ budget[r] = 0
    BY DEF Init
  <2> QED
    BY <2>1 DEF CallsCounted, BeforeCall, AfterCall
<1>2. TypeOK /\ CallsInv /\ [Next]_vars => CallsInv'
  <2> SUFFICES ASSUME TypeOK, CallsInv, [Next]_vars, NEW q \in Request PROVE CallsCounted(q)'
    BY DEF CallsInv
  <2>1. ASSUME UNCHANGED Own(q) PROVE CallsCounted(q)'
    BY <2>1 DEF CallsInv, Own, CallsCounted, Spare
  <2>2. CASE Expires \/ UNCHANGED vars
    BY <2>1, <2>2, RedisKeeps
  <2>3. ASSUME NEW r \in Request, Recover(r) \/ Waited(r) PROVE CallsCounted(q)'
    BY <2>1, <2>3, OthersKept, CallsStep DEF CallsInv
  <2> QED
    BY <2>2, <2>3 DEF Next
<1> QED
  BY <1>1, <1>2, TypeCorrect, PTL DEF Spec

\* No request costs more calls than its retries, the first and the text-only
\* repetition (ModelRecovery!CallsBounded), however models and pools are set.
THEOREM CallsAreBounded == Spec => []CallsBounded
<1>1. CallsInv => CallsBounded
  BY DEF CallsInv, CallsCounted, CallsBounded
<1> QED
  BY <1>1, CallsCorrect, PTL
-----------------------------------------------------------------------------
\* The day.

\* The capacities of the day are numbers.
LEMMA DayTypes ==
  ASSUME TypeOK, NEW m \in Model
  PROVE  /\ daily[m] \in Nat /\ granted[m] \in Nat /\ marked[m] \in Nat
         /\ Capacity(marked[m]) \in Nat /\ Capacity(Settings[m].limit) \in Nat
<1>1. daily[m] \in Nat /\ granted[m] \in Nat /\ marked[m] \in Nat
  BY DEF TypeOK, ModelsType
<1>2. Settings[m].limit \in Nat
  BY RecoveryAssumption DEF Row
<1> QED
  BY <1>1, <1>2, CapacityType

\* Without a limit there is no capacity.
LEMMA CapacityOfNone == Capacity(0) = 0
BY DEF Capacity

\* A counter at nothing covers what was granted when nothing was.
LEMMA NothingCounted ==
  ASSUME TypeOK, NEW m \in Model, daily[m] = 0, granted[m] = 0, marked[m] = 0 PROVE Counted(m)
BY CapacityOfNone, DayTypes DEF Counted

\* The first state satisfies the invariant of the day.
LEMMA DayInit == Init => DayInv
<1> SUFFICES ASSUME Init, NEW m \in Model PROVE Counted(m)
  BY DEF DayInv
<1>1. daily[m] = 0 /\ granted[m] = 0 /\ marked[m] = 0
  BY DEF Init
<1> QED
  BY <1>1, NothingCounted, TypeInit

\* An admission is counted only below the capacity of the day.
LEMMA CountDay ==
  ASSUME TypeOK, ConfigInv, DayInv, NEW r \in Request, Count(r), NEW m \in Model, Settings[m].limit > 0
  PROVE  Counted(m)'
<1> DEFINE M == model[r]
<1>t. /\ M \in Model /\ daily \in [Model -> Nat] /\ granted \in [Model -> Nat]
      /\ config[r] \in Row
  BY DEF TypeOK, ModelsType, PlaceType
<1>1. daily' = [daily EXCEPT ![M] = @ + 1] /\ UNCHANGED marked /\ HasRoom(r) /\ pc[r] = "counting"
  BY DEF Count
<1>2. ASSUME config[r].limit > 0 PROVE daily[M] < Capacity(Settings[M].limit)
  <2>1. config[r].limit = Settings[M].limit
    BY <1>1, <1>2 DEF ConfigInv, GoesByRow, Routing
  <2>2. DailyLimit(r) = config[r].limit
    BY <1>2 DEF DailyLimit, Effective
  <2> QED
    BY <1>1, <2>1, <2>2 DEF HasRoom
<1>3. /\ daily'[m] = IF m = M THEN daily[m] + 1 ELSE daily[m]
      /\ granted'[m] = IF m = M /\ config[r].limit > 0 THEN granted[m] + 1 ELSE granted[m]
      /\ marked'[m] = marked[m]
  BY <1>t, <1>1 DEF Count
<1>4. Counted(m)
  BY DEF DayInv
<1> HIDE DEF M
<1> QED
  BY <1>2, <1>3, <1>4, DayTypes DEF Counted

\* A mark seeds the counter with the capacity of the stated limit.
LEMMA MarkDay ==
  ASSUME TypeOK, DayInv, NEW r \in Request, MarkExhausted(r), NEW m \in Model, Settings[m].limit > 0
  PROVE  Counted(m)'
<1> DEFINE M == model[r]
<1>t. /\ M \in Model /\ daily \in [Model -> Nat] /\ granted \in [Model -> Nat] /\ marked \in [Model -> Nat]
      /\ report[r] \in Nat
  BY DEF TypeOK, ModelsType, PlaceType, LoopType
<1>1. Counted(m)
  BY DEF DayInv
<1>2. CASE UNCHANGED <<daily, history>>
  BY <1>1, <1>2 DEF Counted, history
<1>3. CASE /\ Exhaust(M, report[r])
           /\ marked' = [marked EXCEPT ![M] = report[r]] /\ granted' = [granted EXCEPT ![M] = 0]
  <2>1. CASE m = M
    <3>1. daily'[m] = Capacity(report[r]) /\ marked'[m] = report[r] /\ granted'[m] = 0
      BY <1>t, <1>3, <2>1 DEF Exhaust
    <3>2. Capacity(report[r]) \in Nat
      BY <1>t, CapacityType
    <3> QED
      BY <3>1, <3>2 DEF Counted
  <2>2. CASE m # M
    <3>1. daily'[m] = daily[m] /\ marked'[m] = marked[m] /\ granted'[m] = granted[m]
      BY <1>t, <1>3, <2>2 DEF Exhaust
    <3> QED
      BY <1>1, <3>1 DEF Counted
  <2> QED
    BY <2>1, <2>2
<1> QED
  BY <1>2, <1>3 DEF MarkExhausted

\* Every other step leaves the counters of the day alone, or starts a new day.
LEMMA OtherDay ==
  ASSUME TypeOK, NEW r \in Request, Recover(r) \/ Waited(r), ~Count(r), ~MarkExhausted(r)
  PROVE  UNCHANGED <<daily, granted, marked>>
BY DEF Recover, Waited, Begin, Select, Prepare, Bypass, Preflight, Direct, EnterLoop, Admission, Admit, Spill, Hold,
       CountNothing, SpillDaily, RefuseDaily, Answer, TransportFails, Succeed, AnswerRefusal, RotateTools,
       RetryTextOnly, Fail, ObserveLimit, GiveUp, Shrink, FallBack, BackOff, shared, history

\* Every step keeps the counters of the day.
LEMMA DayStep ==
  ASSUME TypeOK, TypeOK', ConfigInv, DayInv, [Next]_vars, NEW m \in Model, Settings[m].limit > 0
  PROVE  Counted(m)'
<1>k. ASSUME UNCHANGED <<daily, granted, marked>> PROVE Counted(m)'
  BY <1>k DEF DayInv, Counted
<1>1. CASE NewDay
  <2>1. daily'[m] = 0 /\ granted'[m] = 0 /\ marked'[m] = 0
    BY <1>1 DEF NewDay
  <2> QED
    BY <2>1, CapacityOfNone DEF Counted
<1>2. CASE (\E n \in Model : CircuitExpires(n) \/ HealthExpires(n)) \/ UNCHANGED vars
  BY <1>k, <1>2 DEF CircuitExpires, HealthExpires, vars, shared, history
<1>3. ASSUME NEW r \in Request, Recover(r) \/ Waited(r) PROVE Counted(m)'
  <2>1. CASE Count(r)
    BY <2>1, CountDay
  <2>2. CASE MarkExhausted(r)
    BY <2>2, MarkDay
  <2>3. CASE ~Count(r) /\ ~MarkExhausted(r)
    BY <1>3, <1>k, <2>3, OtherDay
  <2> QED
    BY <2>1, <2>2, <2>3
<1> QED
  BY <1>1, <1>2, <1>3 DEF Next, Expires

\* The counters of the day are right in every reachable state.
LEMMA DayCorrect == Spec => []DayInv
<1>1. TypeOK /\ TypeOK' /\ ConfigInv /\ DayInv /\ [Next]_vars => DayInv'
  BY DayStep DEF DayInv
<1> QED
  BY <1>1, DayInit, TypeCorrect, PlaceCorrect, PTL DEF Spec

\* Replicas together stay within the configured share of a model's day until a
\* provider states that it is spent (ModelRecovery!DailyWithinCapacity),
\* whatever limits the providers state and whatever calls fail.
THEOREM DailyCorrect == Spec => []DailyWithinCapacity
<1>1. TypeOK /\ DayInv => DailyWithinCapacity
  <2> SUFFICES ASSUME TypeOK, DayInv, NEW m \in Model, Settings[m].limit > 0, marked[m] = 0
               PROVE  granted[m] <= Capacity(Settings[m].limit)
    BY DEF DailyWithinCapacity
  <2>1. Counted(m)
    BY DEF DayInv
  <2> QED
    BY <2>1, DayTypes, CapacityOfNone DEF Counted
<1> QED
  BY <1>1, DayCorrect, TypeCorrect, PTL

\* From then on they admit only what the stated limit lacks of the configured
\* one (ModelRecovery!ExhaustedAdmitsTheRest), again for any stated limits.
THEOREM ExhaustedCorrect == Spec => []ExhaustedAdmitsTheRest
<1>1. TypeOK /\ DayInv => ExhaustedAdmitsTheRest
  <2> SUFFICES ASSUME TypeOK, DayInv, NEW m \in Model, Settings[m].limit > 0
               PROVE  granted[m] <= Max({0, Capacity(Settings[m].limit) - Capacity(marked[m])})
    BY DEF ExhaustedAdmitsTheRest
  <2>1. Counted(m)
    BY DEF DayInv
  <2>2. PICK room \in Int : room = Capacity(Settings[m].limit) - Capacity(marked[m])
    BY DayTypes
  <2>3. granted[m] <= (IF 0 >= room THEN 0 ELSE room)
    BY <2>1, <2>2, DayTypes DEF Counted
  <2> QED
    BY <2>2, <2>3, MaxOfTwo
<1> QED
  BY <1>1, DayCorrect, TypeCorrect, PTL
=============================================================================
