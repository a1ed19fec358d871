----------------------------- MODULE TokenBucket -----------------------------
(***************************************************************************)
(* The admission of requests to a model by its tokens per minute            *)
(* (cmd/api/model_runtime.go): a bucket in Redis, shared by the replicas,   *)
(* each of which passes its own clock to the script, and the loop in which  *)
(* a request waits for its tokens as long as its context lives.  Without    *)
(* Redis, or when it fails, requests are let through unmetered.             *)
(***************************************************************************)
EXTENDS Integers, Sequences, FiniteSets, Functions

CONSTANTS
  Request,       \* requests to the model
  Cost,          \* what they cost, at most the capacity
  Refill,        \* tokens that flow in per tick
  Minute,        \* ticks of a minute; Refill * Minute is the limit of the model
  LongestWait,   \* 15 s: a hint is not trusted for longer
  MaxSkew,       \* bound: how far the clock of a replica is ahead
  MaxTick        \* bound of time

ASSUME BucketAssumption ==
  /\ IsFiniteSet(Request)
  /\ Refill \in Nat \ {0} /\ Minute \in Nat \ {0} /\ LongestWait \in Nat \ {0}
  /\ MaxSkew \in Nat /\ MaxTick \in Nat /\ Cost \subseteq Nat \ {0}

VARIABLES
  tick,          \* the time
  bucket,        \* <<>> or <<[tokens, last]>>, the key in Redis
  lapses,        \* when the key expires
  waits,         \* request -> [cost, state, retryAt, asked, hint, seen]
  admissions     \* admissions: [at, cost, metered]

bucketVars == <<tick, bucket, lapses, waits, admissions>>

Least(a, b) == IF a < b THEN a ELSE b
Most(a, b) == IF a < b THEN b ELSE a

\* 15% of the limit stay unused.
Capacity == Most(1, (Refill * Minute * 85) \div 100)

Asking == {"new", "waiting", "granted", "left"}

BucketTypeOK ==
  /\ tick \in 0..MaxTick /\ lapses \in 0..(MaxTick + 2 * Minute)
  /\ Len(bucket) \in 0..1
  /\ \A i \in 1..Len(bucket) : bucket[i].tokens \in 0..Capacity /\ bucket[i].last \in 0..(MaxTick + MaxSkew)
  /\ \A q \in Request : waits[q].state \in Asking /\ waits[q].cost \in 1..Capacity
  /\ Len(admissions) = Cardinality({q \in Request : waits[q].state = "granted"})

BucketInit ==
  /\ tick = 0 /\ bucket = <<>> /\ lapses = 0 /\ admissions = <<>>
  /\ \E cost \in [Request -> {Least(c, Capacity) : c \in Cost}] :
       waits = [q \in Request |-> [cost |-> cost[q], state |-> "new", retryAt |-> 0,
                                   asked |-> 0, hint |-> 0, seen |-> 0]]

TickBucket ==
  /\ tick < MaxTick
  /\ tick' = tick + 1
  /\ UNCHANGED <<bucket, lapses, waits, admissions>>

\* PEXPIRE 120000.
ExpireBucket ==
  /\ bucket # <<>> /\ tick >= lapses
  /\ bucket' = <<>>
  /\ UNCHANGED <<tick, lapses, waits, admissions>>

\* mutant: an idle bucket fills over its capacity.
FillsOver(now) ==
  IF bucket = <<>> THEN [tokens |-> Capacity, last |-> now]
  ELSE LET b == bucket[1] IN
       IF now > b.last THEN [tokens |-> b.tokens + (now - b.last) * Refill, last |-> now] ELSE b

\* The script: what is in the bucket at a replica's time.
FilledAt(now) ==
  IF bucket = <<>> THEN [tokens |-> Capacity, last |-> now]
  ELSE LET b == bucket[1] IN
       IF now > b.last
       THEN [tokens |-> Least(Capacity, b.tokens + (now - b.last) * Refill), last |-> now]
       ELSE b

\* math.ceil(need / refill).
Hint(need) == (need + Refill - 1) \div Refill

\* mutant: the tokens are written without their time.
WriteTokens(b, tokens) ==
  bucket' = <<[tokens |-> tokens, last |-> IF bucket = <<>> THEN b.last ELSE bucket[1].last]>>

Write(b, tokens) == bucket' = <<[b EXCEPT !.tokens = tokens]>>

\* Where a request is, and what the script has told it.
Stands(q, state, retryAt, asked, hint, seen) ==
  waits' = [waits EXCEPT ![q] = [cost |-> waits[q].cost, state |-> state, retryAt |-> retryAt,
                                 asked |-> asked, hint |-> hint, seen |-> seen]]

LetIn(q, metered) == admissions' = Append(admissions, [at |-> tick, cost |-> waits[q].cost, metered |-> metered])

\* Once for a new request and again after each wait.
Due(q) == waits[q].state = "new" \/ (waits[q].state = "waiting" /\ tick >= waits[q].retryAt)

\* tryModelAdmission, answered by Redis.
Attempt(q) ==
  /\ Due(q)
  /\ \E now \in tick..(tick + MaxSkew) :
       LET b == FilledAt(now)
           cost == waits[q].cost
           hint == Hint(cost - b.tokens)
       IN IF b.tokens >= cost
          THEN /\ Write(b, b.tokens - cost)
               /\ LetIn(q, TRUE)
               /\ Stands(q, "granted", 0, 0, 0, 0)
          ELSE /\ Write(b, b.tokens)
               /\ Stands(q, "waiting", tick + Least(hint, LongestWait), b.last, hint, Len(admissions))
               /\ UNCHANGED admissions
  /\ lapses' = tick + 2 * Minute
  /\ UNCHANGED tick

\* Without Redis, or without its answer, a request is admitted all the same; the
\* script may have run, and taken the cost or not.
AdmitUnmetered(q) ==
  /\ Due(q)
  /\ \/ UNCHANGED <<bucket, lapses>>
     \/ /\ \E now \in tick..(tick + MaxSkew) :
             LET b == FilledAt(now)
                 cost == IF b.tokens >= waits[q].cost THEN waits[q].cost ELSE 0
             IN Write(b, b.tokens - cost)
        /\ lapses' = tick + 2 * Minute
  /\ LetIn(q, FALSE)
  /\ Stands(q, "granted", 0, 0, 0, 0)
  /\ UNCHANGED tick

\* ctx.Done() ends the wait.
LeaveBucket(q) ==
  /\ waits[q].state = "waiting"
  /\ Stands(q, "left", 0, 0, 0, 0)
  /\ UNCHANGED <<tick, bucket, lapses, admissions>>

BucketNext ==
  \/ TickBucket \/ ExpireBucket
  \/ \E q \in Request : Attempt(q) \/ AdmitUnmetered(q) \/ LeaveBucket(q)

BucketSpec == BucketInit /\ [][BucketNext]_bucketVars

-----------------------------------------------------------------------------

Costs == [k \in DOMAIN admissions |-> IF admissions[k].metered THEN admissions[k].cost ELSE 0]
GrantedBetween(i, j) == SumFunctionOnSet(Costs, i..j)

\* However far the clocks of the replicas are apart, up to a minute, between two
\* admissions the bucket gives out no more tokens than it holds and than flowed
\* in: at most 1.85 times the limit of the model in a minute.  What is admitted
\* without Redis comes on top and has no bound.
BurstsAreBounded ==
  \A i \in 1..Len(admissions) : \A j \in i..Len(admissions) :
    GrantedBetween(i, j) <= Capacity + Refill * (admissions[j].at - admissions[i].at + MaxSkew)

\* A request that waited as long as it was told, by the clock that is furthest
\* ahead, while nobody else was admitted, is admitted.
HintIsEnough ==
  \A q \in Request :
    (/\ waits[q].state = "waiting" /\ waits'[q].state = "waiting" /\ waits'[q] # waits[q]
     /\ waits'[q].asked >= waits[q].asked + waits[q].hint)
    => Len(admissions) > waits[q].seen

\* The bucket bounds what it gives out, and what it tells a request to wait for comes.
BucketHolds == [][BurstsAreBounded' /\ HintIsEnough]_bucketVars

=============================================================================
