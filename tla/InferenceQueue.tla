--------------------------- MODULE InferenceQueue ---------------------------
(***************************************************************************)
(* The Redis inference queue of internal/inference/queue.go.               *)
(*                                                                         *)
(* Every request enters a sorted set per workload, polls a Lua script that *)
(* may grant it a lease (one key for its principal, one entry in a global  *)
(* and one in a workload lease set), keeps the lease alive from a renewal  *)
(* goroutine and releases it when its handler ends.  Pipelines and scripts *)
(* are atomic at Redis; the clock of the client, read before a script is   *)
(* sent, may be MaxDelay old when the script runs.                         *)
(*                                                                         *)
(* Clients fail at every point: contexts end, answers are lost, releases   *)
(* and cancellations do not reach Redis, handlers crash.  Prompt says      *)
(* whether the renewal goroutine and the network keep their schedule.      *)
(***************************************************************************)
EXTENDS Integers, FiniteSets

CONSTANTS
  Request,         \* request ids; numbers stand for the ids' lexicographic order
  Principal,       \* users and API keys
  Workload,
  PrincipalOf, WorkloadOf, PriorityOf,   \* the arguments of each request's Acquire
  GlobalLimit,     \* cfg.GlobalLimit
  WorkloadLimit,   \* cfg.WorkloadLimits
  LeaseTTL,        \* cfg.LeaseTTL
  RenewEvery,      \* cfg.LeaseTTL / 3
  MaxWait,         \* cfg.MaxWait
  Window,          \* how many entries a script looks at: 64
  MaxDelay,        \* bound on the time between a clock read and its script
  PriorityScale,   \* 1e13: more than any timestamp
  LastArrival,     \* bound: no request is made after this instant
  LastFault,       \* bound: nothing fails in a way that strands a lease, and no
                   \* goroutine sends a renewal for a ticket that is done, after it
  MaxClock,        \* bound on the clock
  Counts,          \* bound: the instants at which leases are counted
  Prompt,          \* the schedule is kept: see Punctual
  None             \* no request

ASSUME ConstantsAssumption ==
  /\ Request \subseteq Nat /\ IsFiniteSet(Request)
  /\ None \notin Request
  /\ PrincipalOf \in [Request -> Principal]
  /\ WorkloadOf \in [Request -> Workload]
  /\ PriorityOf \in [Request -> 0..9]
  /\ GlobalLimit \in Nat \ {0}
  /\ WorkloadLimit \in [Workload -> Nat \ {0}]
  /\ LeaseTTL \in Nat /\ RenewEvery \in Nat /\ MaxWait \in Nat /\ MaxDelay \in Nat
  /\ Window \in Nat \ {0}
  /\ PriorityScale \in Nat /\ LastArrival \in Nat /\ LastFault \in Nat /\ MaxClock \in Nat
  /\ Prompt \in BOOLEAN

\* A schedule that is kept leaves room for a late grant, its late answer and a
\* late first renewal within one lease: 30 s against a third of it.
ASSUME ScheduleAssumption == Prompt => 3 * MaxDelay + RenewEvery < LeaseTTL

VARIABLES
  clock,          \* milliseconds, the same at Redis and at its clients
  pc,             \* where each request is in Acquire and in its handler
  live,           \* its context is not done
  sampled,        \* the clock it read for the script it has in flight
  renewer,        \* its renewal goroutine: off, armed (ticker set) or sent
  due,            \* when the ticker of an armed goroutine fires
  score,          \* its score in the queue of its workload, 0 when absent
  deadline,       \* its entry in the expiry hash
  globalLease, workloadLease,  \* its expiry in the two lease sets, 0 when absent
  holder,         \* the principal keys: the request each one names, or None
  holderExpiry    \* the instant after which the principal key is gone

clientVars == <<pc, live, sampled, renewer, due>>
queueVars == <<score, deadline>>
leaseVars == <<globalLease, workloadLease, holder, holderExpiry>>
vars == <<clock, clientVars, queueVars, leaseVars>>

Phases == {"new", "polling", "calling", "granted", "holding", "cancelling",
           "releasing", "released", "ended", "crashed"}

\* Values of the right shape; the properties below say the rest.
TypeOK ==
  /\ clock \in Nat
  /\ pc \in [Request -> Phases]
  /\ live \in [Request -> BOOLEAN]
  /\ sampled \in [Request -> Nat]
  /\ renewer \in [Request -> {"off", "armed", "sent"}]
  /\ due \in [Request -> Nat]
  /\ score \in [Request -> Nat]
  /\ deadline \in [Request -> Nat]
  /\ globalLease \in [Request -> Nat]
  /\ workloadLease \in [Request -> Nat]
  /\ holder \in [Principal -> Request \cup {None}]
  /\ holderExpiry \in [Principal -> Nat]

Init ==
  /\ clock = 1
  /\ pc = [r \in Request |-> "new"]
  /\ live = [r \in Request |-> TRUE]
  /\ sampled = [r \in Request |-> 0]
  /\ renewer = [r \in Request |-> "off"]
  /\ due = [r \in Request |-> 0]
  /\ score = [r \in Request |-> 0]
  /\ deadline = [r \in Request |-> 0]
  /\ globalLease = [r \in Request |-> 0]
  /\ workloadLease = [r \in Request |-> 0]
  /\ holder = [p \in Principal |-> None]
  /\ holderExpiry = [p \in Principal |-> 0]

-----------------------------------------------------------------------------
(* What the scripts read.                                                  *)

Goto(r, phase) == pc' = [pc EXCEPT ![r] = phase]

\* The clock read for a script is not used after it.
Forget(r) == sampled' = [sampled EXCEPT ![r] = 0]

\* The principal key of r names r and has not expired.
Owns(r) ==
  /\ holder[PrincipalOf[r]] = r
  /\ clock <= holderExpiry[PrincipalOf[r]]

\* EXISTS of a principal key, which outlives its last millisecond only.
Busy(p) == holder[p] # None /\ clock <= holderExpiry[p]

Queued(w) == {r \in Request : WorkloadOf[r] = w /\ score[r] # 0}

\* ZRANGE order: the score, then the member.
Before(r, q) == score[r] < score[q] \/ (score[r] = score[q] /\ r < q)

Candidates(w) ==
  {r \in Queued(w) : Cardinality({q \in Queued(w) : Before(q, r)}) < Window}

Stale(r, now) == deadline[r] < now

\* The requests the scan of the candidates would stop at; it takes the first.
Eligible(r, now) == ~Stale(r, now) /\ ~Busy(PrincipalOf[r])

SelectedLast(w, now) ==   \* mutant: the scan does not stop at the first
  {r \in Candidates(w) :
     /\ Eligible(r, now)
     /\ \A q \in Candidates(w) : Eligible(q, now) => ~Before(r, q)}

Selected(w, now) ==
  {r \in Candidates(w) :
     /\ Eligible(r, now)
     /\ \A q \in Candidates(w) : Eligible(q, now) => ~Before(q, r)}

\* The stale entries the scan drops on its way to the selected one.
Dropped(w, now) ==
  {r \in Candidates(w) :
     Stale(r, now) /\ \A q \in Selected(w, now) : Before(r, q)}

\* ZREMRANGEBYSCORE -inf now on a lease set, for the members in S.
Purged(lease, S, now) ==
  [r \in Request |-> IF r \in S /\ lease[r] <= now THEN 0 ELSE lease[r]]

InWorkload(w) == {r \in Request : WorkloadOf[r] = w}

Leased(lease) == {r \in Request : lease[r] # 0}

FullOffByOne(w, global, workload) ==   \* mutant: > for >=
  \/ Cardinality(Leased(global)) > GlobalLimit
  \/ Cardinality(Leased(workload) \cap InWorkload(w)) > WorkloadLimit[w]

\* ZCARD of the two lease sets against the limits.
Full(w, global, workload) ==
  \/ Cardinality(Leased(global)) >= GlobalLimit
  \/ Cardinality(Leased(workload) \cap InWorkload(w)) >= WorkloadLimit[w]

-----------------------------------------------------------------------------
(* Acquire.                                                                *)

ScoreBelowZero(r) == clock - PriorityOf[r] * PriorityScale   \* mutant

Score(r) == (9 - PriorityOf[r]) * PriorityScale + clock

\* The pipeline of ZADD and two HSETs.  When its answer is lost, Acquire
\* returns the error at once and leaves the entry behind.
Enqueue(r) ==
  /\ pc[r] = "new" /\ live[r]
  /\ clock <= LastArrival
  /\ score' = [score EXCEPT ![r] = Score(r)]
  /\ deadline' = [deadline EXCEPT ![r] = clock + MaxWait]
  /\ Goto(r, "polling") \/ Goto(r, "ended")
  /\ UNCHANGED <<clock, live, sampled, renewer, due, leaseVars>>

\* tryAcquire reads the clock and sends the script.
Poll(r) ==
  /\ pc[r] = "polling"
  /\ live[r] /\ clock < deadline[r]
  /\ sampled' = [sampled EXCEPT ![r] = clock]
  /\ Goto(r, "calling")
  /\ UNCHANGED <<clock, live, renewer, due, queueVars, leaseVars>>

GrantForEver(r, expiry, purgedGlobal, purgedWorkload) ==   \* mutant: SET without PX
  LET p == PrincipalOf[r] IN
  /\ holder' = [holder EXCEPT ![p] = r]
  /\ holderExpiry' = [holderExpiry EXCEPT ![p] = MaxClock]
  /\ globalLease' = [purgedGlobal EXCEPT ![r] = expiry]
  /\ workloadLease' = [purgedWorkload EXCEPT ![r] = expiry]
  /\ Goto(r, "granted")
  /\ UNCHANGED sampled

\* The script grants the lease.
Grant(r, expiry, purgedGlobal, purgedWorkload) ==
  LET p == PrincipalOf[r] IN
  /\ holder' = [holder EXCEPT ![p] = r]
  /\ holderExpiry' = [holderExpiry EXCEPT ![p] = clock + LeaseTTL]
  /\ globalLease' = [purgedGlobal EXCEPT ![r] = expiry]
  /\ workloadLease' = [purgedWorkload EXCEPT ![r] = expiry]
  /\ Goto(r, "granted")
  /\ UNCHANGED sampled

\* The script refuses: the loop waits for its ticker.
Refuse(r, purgedGlobal, purgedWorkload) ==
  /\ globalLease' = purgedGlobal
  /\ workloadLease' = purgedWorkload
  /\ Goto(r, "polling")
  /\ Forget(r)
  /\ UNCHANGED <<holder, holderExpiry>>

\* The script of tryAcquire, with the clock its client read.
TryAcquire(r) ==
  LET now == sampled[r]
      w == WorkloadOf[r]
      purgedGlobal == Purged(globalLease, Request, now)
      purgedWorkload == Purged(workloadLease, InWorkload(w), now)
      full == Full(w, purgedGlobal, purgedWorkload)
      granted == ~full /\ r \in Selected(w, now)
      gone == (IF full THEN {} ELSE Dropped(w, now)) \cup (IF granted THEN {r} ELSE {})
  IN
  /\ pc[r] = "calling"
  /\ score' = [q \in Request |-> IF q \in gone THEN 0 ELSE score[q]]
  /\ deadline' = [q \in Request |-> IF q \in gone THEN 0 ELSE deadline[q]]
  /\ IF granted THEN Grant(r, now + LeaseTTL, purgedGlobal, purgedWorkload)
                ELSE Refuse(r, purgedGlobal, purgedWorkload)
  /\ UNCHANGED <<clock, live, renewer, due>>

\* Acquire returns the ticket and starts the renewal goroutine.
Answered(r) ==
  /\ pc[r] = "granted"
  /\ Goto(r, "holding")
  /\ renewer' = [renewer EXCEPT ![r] = "armed"]
  /\ due' = [due EXCEPT ![r] = clock + RenewEvery]
  /\ Forget(r)
  /\ UNCHANGED <<clock, live, queueVars, leaseVars>>

\* tryAcquire fails, before or after the script has run at Redis.
CallFails(r) ==
  /\ pc[r] \in {"calling", "granted"}
  /\ pc[r] = "granted" => clock <= LastFault
  /\ Goto(r, "cancelling")
  /\ Forget(r)
  /\ UNCHANGED <<clock, live, renewer, due, queueVars, leaseVars>>

GiveUpOnDisconnect(r) ==   \* mutant: the wait has no deadline
  /\ pc[r] = "polling"
  /\ ~live[r]
  /\ Goto(r, "cancelling")
  /\ UNCHANGED <<clock, live, sampled, renewer, due, queueVars, leaseVars>>

\* waitCtx is done: the caller went away or MaxWait has passed.
GiveUp(r) ==
  /\ pc[r] = "polling"
  /\ ~live[r] \/ clock >= deadline[r]
  /\ Goto(r, "cancelling")
  /\ UNCHANGED <<clock, live, sampled, renewer, due, queueVars, leaseVars>>

\* cancel removes the queue entry; its errors are ignored.
CancelEntry(r) ==
  /\ pc[r] = "cancelling"
  /\ \/ /\ score' = [score EXCEPT ![r] = 0]
        /\ deadline' = [deadline EXCEPT ![r] = 0]
     \/ UNCHANGED queueVars
  /\ Goto(r, "ended")
  /\ UNCHANGED <<clock, live, sampled, renewer, due, leaseVars>>

-----------------------------------------------------------------------------
(* The ticket: renewal goroutine and release.                              *)

\* The ticker fires.  A select with a done channel may still pick the tick: in
\* the model, until LastFault.
RenewSend(r) ==
  /\ renewer[r] = "armed"
  /\ clock >= due[r]
  /\ clock <= LastFault \/ (live[r] /\ pc[r] = "holding")
  /\ renewer' = [renewer EXCEPT ![r] = "sent"]
  /\ sampled' = [sampled EXCEPT ![r] = clock]
  /\ UNCHANGED <<clock, pc, live, due, queueVars, leaseVars>>

\* Nobody waits for the answer.
Gone(r) ==
  /\ renewer' = [renewer EXCEPT ![r] = "off"]
  /\ due' = [due EXCEPT ![r] = 0]
  /\ Forget(r)

RearmAtExpiry(r) ==   \* mutant: the ticker period is the whole TTL
  /\ renewer' = [renewer EXCEPT ![r] = "armed"]
  /\ due' = [due EXCEPT ![r] = due[r] + LeaseTTL]
  /\ Forget(r)

\* The goroutine waits for the next tick; a tick it missed fires at once.
Rearm(r) ==
  /\ renewer' = [renewer EXCEPT ![r] = "armed"]
  /\ due' = [due EXCEPT ![r] = IF due[r] + RenewEvery < clock THEN clock
                               ELSE due[r] + RenewEvery]
  /\ Forget(r)

RenewUnowned(r) ==   \* mutant: no GET of the principal key
  LET p == PrincipalOf[r]
      expiry == sampled[r] + LeaseTTL
  IN
  /\ holderExpiry' = [holderExpiry EXCEPT ![p] = clock + LeaseTTL]
  /\ globalLease' = [globalLease EXCEPT ![r] = expiry]
  /\ workloadLease' = [workloadLease EXCEPT ![r] = expiry]
  /\ UNCHANGED holder

RenewOneSet(r) ==   \* mutant: the workload lease is not renewed
  LET p == PrincipalOf[r] IN
  IF Owns(r)
  THEN /\ holderExpiry' = [holderExpiry EXCEPT ![p] = clock + LeaseTTL]
       /\ globalLease' = [globalLease EXCEPT ![r] = sampled[r] + LeaseTTL]
       /\ UNCHANGED <<holder, workloadLease>>
  ELSE UNCHANGED leaseVars

\* The renewal script: nothing happens unless the principal key names r.
RenewLease(r) ==
  LET p == PrincipalOf[r]
      expiry == sampled[r] + LeaseTTL
  IN
  IF Owns(r)
  THEN /\ holderExpiry' = [holderExpiry EXCEPT ![p] = clock + LeaseTTL]
       /\ globalLease' = [globalLease EXCEPT ![r] = expiry]
       /\ workloadLease' = [workloadLease EXCEPT ![r] = expiry]
       /\ UNCHANGED holder
  ELSE UNCHANGED leaseVars

RenewRun(r) ==
  /\ renewer[r] = "sent"
  /\ RenewLease(r)
  /\ IF pc[r] = "crashed" THEN Gone(r) ELSE Rearm(r)
  /\ UNCHANGED <<clock, pc, live, queueVars>>

\* A renewal that does not reach Redis; its error is dropped.
RenewLost(r) ==
  /\ renewer[r] = "sent" /\ ~Prompt
  /\ IF pc[r] = "crashed" THEN Gone(r) ELSE Rearm(r)
  /\ UNCHANGED <<clock, pc, live, queueVars, leaseVars>>

\* The goroutine sees its context or t.done.
RenewStop(r) ==
  /\ renewer[r] = "armed"
  /\ ~live[r] \/ pc[r] # "holding"
  /\ renewer' = [renewer EXCEPT ![r] = "off"]
  /\ due' = [due EXCEPT ![r] = 0]
  /\ UNCHANGED <<clock, pc, live, sampled, queueVars, leaseVars>>

\* The handler ends: Release closes t.done ...
Finish(r) ==
  /\ pc[r] = "holding"
  /\ Goto(r, "releasing")
  /\ UNCHANGED <<clock, live, sampled, renewer, due, queueVars, leaseVars>>

\* ... and runs the release script.
Release(r) ==
  LET p == PrincipalOf[r] IN
  /\ pc[r] = "releasing"
  /\ holder' = IF Owns(r) THEN [holder EXCEPT ![p] = None] ELSE holder
  /\ globalLease' = [globalLease EXCEPT ![r] = 0]
  /\ workloadLease' = [workloadLease EXCEPT ![r] = 0]
  /\ Goto(r, "released")
  /\ UNCHANGED <<clock, live, sampled, renewer, due, queueVars, holderExpiry>>

\* The release script does not reach Redis; its error is dropped.
ReleaseLost(r) ==
  /\ pc[r] = "releasing"
  /\ clock <= LastFault
  /\ Goto(r, "ended")
  /\ UNCHANGED <<clock, live, sampled, renewer, due, queueVars, leaseVars>>

\* Snapshot drops what has expired from each lease set before it counts it.  By
\* the clock it read: had that been older, it would drop what it could then.
Snapshot ==
  /\ clock \in Counts
  /\ \/ /\ globalLease' = Purged(globalLease, Request, clock)
        /\ UNCHANGED workloadLease
     \/ /\ \E w \in Workload : workloadLease' = Purged(workloadLease, InWorkload(w), clock)
        /\ UNCHANGED globalLease
  /\ UNCHANGED <<clock, clientVars, queueVars, holder, holderExpiry>>

-----------------------------------------------------------------------------
(* The environment.                                                        *)

\* The caller disconnects or its deadline passes.
ContextDone(r) ==
  /\ live[r] /\ pc[r] \in {"polling", "calling", "granted", "holding"}
  /\ live' = [live EXCEPT ![r] = FALSE]
  /\ UNCHANGED <<clock, pc, sampled, renewer, due, queueVars, leaseVars>>

\* The process serving r dies; a renewal already sent may still arrive.
Crash(r) ==
  /\ pc[r] \notin {"new", "released", "ended", "crashed"}
  /\ clock <= LastFault
  /\ Goto(r, "crashed")
  /\ renewer' = [renewer EXCEPT ![r] = IF @ = "armed" THEN "off" ELSE @]
  /\ UNCHANGED <<clock, live, sampled, due, queueVars, leaseVars>>

\* Prompt: a script runs within MaxDelay of the clock read it carries, a
\* grant is answered within another MaxDelay, no tick is missed, and a goroutine
\* whose context or ticket is done stops at once.
Punctual(r) ==
  /\ pc[r] = "calling" => clock < sampled[r] + MaxDelay
  /\ pc[r] = "granted" => clock < sampled[r] + 2 * MaxDelay
  /\ renewer[r] = "armed" => clock < due[r] /\ live[r] /\ pc[r] = "holding"
  /\ renewer[r] = "sent" => clock < sampled[r] + MaxDelay

Tick ==
  /\ clock < MaxClock
  /\ Prompt => \A r \in Request : Punctual(r)
  /\ clock' = clock + 1
  /\ UNCHANGED <<clientVars, queueVars, leaseVars>>

Step(r) ==
  \/ Enqueue(r) \/ Poll(r) \/ TryAcquire(r) \/ Answered(r) \/ CallFails(r)
  \/ GiveUp(r) \/ CancelEntry(r)
  \/ RenewSend(r) \/ RenewRun(r) \/ RenewLost(r) \/ RenewStop(r)
  \/ Finish(r) \/ Release(r) \/ ReleaseLost(r)
  \/ ContextDone(r) \/ Crash(r)

Next == Tick \/ Snapshot \/ \E r \in Request : Step(r)

Spec == Init /\ [][Next]_vars

\* Goroutines run and a handler ends: its context has a deadline.  The clock
\* advances although polls, which it waits for when Prompt, recur.
\* Failures need not happen.
FairSpec ==
  /\ Spec
  /\ SF_vars(Tick)
  /\ \A r \in Request :
       /\ WF_vars(Poll(r)) /\ WF_vars(TryAcquire(r)) /\ WF_vars(Answered(r))
       /\ WF_vars(GiveUp(r)) /\ WF_vars(CancelEntry(r))
       /\ WF_vars(RenewSend(r)) /\ WF_vars(RenewRun(r)) /\ WF_vars(RenewStop(r))
       /\ WF_vars(Finish(r)) /\ WF_vars(Release(r))

-----------------------------------------------------------------------------
(* Properties.                                                             *)

\* A request whose handler runs with a ticket and whose caller still waits.
Serving(r) == pc[r] = "holding" /\ live[r]

\* The lease sets never hold more members than the limits the grant script
\* compares ZCARD with, although renewals add members without comparing.
\* Holds when schedules are kept: a renewal never comes after its entry's expiry.
LeaseLimit ==
  /\ Cardinality(Leased(globalLease)) <= GlobalLimit
  /\ \A w \in Workload :
       Cardinality(Leased(workloadLease) \cap InWorkload(w)) <= WorkloadLimit[w]

\* The lease of a request being served never lapses: the renewals of the
\* goroutine, sent with an old clock, always reach Redis before the previous
\* expiry, so no other script purges it or takes its principal key.
LeaseHeld ==
  \A r \in Request : Serving(r) =>
    globalLease[r] > clock /\ workloadLease[r] > clock /\ Owns(r)

\* Once the release script has run, no renewal still in flight brings the
\* lease or the principal key back.  Holds on any schedule.
ReleasedIsGone ==
  \A r \in Request : pc[r] = "released" =>
    globalLease[r] = 0 /\ workloadLease[r] = 0 /\ ~Owns(r)

\* A live lease counts against both limits or against neither, although the
\* two sets are purged by different scripts.  Holds on any schedule.
LeasesAgree ==
  \A r \in Request : globalLease[r] > clock <=> workloadLease[r] > clock

\* Requests of one principal and workload are granted in the order of their
\* scores: a waiting request that has not expired is never overtaken.
ServedInOrder ==
  [][\A r, q \in Request :
       /\ pc[r] = "calling" /\ pc'[r] = "granted"
       /\ PrincipalOf[q] = PrincipalOf[r] /\ WorkloadOf[q] = WorkloadOf[r]
       /\ score[q] # 0 /\ ~Stale(q, sampled[r])
       => ~Before(q, r)]_vars

\* No request waits for ever: Acquire returns a ticket or an error.
BoundedWait ==
  \A r \in Request :
    pc[r] = "polling" ~> pc[r] \in {"holding", "cancelling", "crashed"}

\* Whatever its handler did (released, lost the release, lost the answer to
\* the grant, crashed), a request that is over gives its lease and its
\* principal key back.
CapacityReturns ==
  \A r \in Request :
    pc[r] \in {"released", "ended", "crashed"} ~> globalLease[r] <= clock /\ ~Owns(r)

\* README.md:36 calls the queue one with global, per-principal and workload
\* concurrency: the requests being served stay within those limits.
ServingWithinLimits ==
  LET S == {r \in Request : Serving(r)} IN
  /\ Cardinality(S) <= GlobalLimit
  /\ \A w \in Workload : Cardinality(S \cap InWorkload(w)) <= WorkloadLimit[w]
  /\ \A r, q \in S : PrincipalOf[r] = PrincipalOf[q] => r = q

\* The queue implements the limiter: what it serves is what has a ticket.
Limiter == INSTANCE ConcurrencyLimiter WITH serving <- {r \in Request : Serving(r)}

ImplementsLimiter == Limiter!LimiterSpec

=============================================================================
