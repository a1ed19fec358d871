------------------------ MODULE InferenceQueueProofs ------------------------
(***************************************************************************)
(* What holds of the inference queue for every set of requests and every   *)
(* value of its limits and delays.                                         *)
(***************************************************************************)
EXTENDS InferenceQueue, FiniteSetTheorems, TLAPS

\* A count of the leases only drops entries that have expired.
LEMMA SnapshotEffect ==
  ASSUME clock \in Nat, globalLease \in [Request -> Nat], workloadLease \in [Request -> Nat], Snapshot
  PROVE  /\ UNCHANGED <<clock, clientVars, queueVars, holder, holderExpiry>>
         /\ globalLease' \in [Request -> Nat] /\ workloadLease' \in [Request -> Nat]
         /\ \A q \in Request :
              /\ globalLease'[q] = globalLease[q] \/ (globalLease'[q] = 0 /\ globalLease[q] <= clock)
              /\ workloadLease'[q] = workloadLease[q] \/ (workloadLease'[q] = 0 /\ workloadLease[q] <= clock)
<1>1. ASSUME NEW lease \in [Request -> Nat], NEW S
      PROVE  /\ Purged(lease, S, clock) \in [Request -> Nat]
             /\ \A q \in Request :
                  \/ Purged(lease, S, clock)[q] = lease[q]
                  \/ Purged(lease, S, clock)[q] = 0 /\ lease[q] <= clock
  <2>1. Purged(lease, S, clock) \in [Request -> Nat]
    BY DEF Purged
  <2>2. ASSUME NEW q \in Request
        PROVE  \/ Purged(lease, S, clock)[q] = lease[q]
               \/ Purged(lease, S, clock)[q] = 0 /\ lease[q] <= clock
    <3>1. CASE q \in S /\ lease[q] <= clock
      BY <3>1 DEF Purged
    <3>2. CASE ~(q \in S /\ lease[q] <= clock)
      BY <3>2 DEF Purged
    <3> QED
      BY <3>1, <3>2
  <2> QED
    BY <2>1, <2>2
<1>2. UNCHANGED <<clock, clientVars, queueVars, holder, holderExpiry>>
  BY DEF Snapshot
<1>3. CASE globalLease' = Purged(globalLease, Request, clock) /\ UNCHANGED workloadLease
  BY <1>1, <1>2, <1>3
<1>4. CASE /\ \E w \in Workload : workloadLease' = Purged(workloadLease, InWorkload(w), clock)
           /\ UNCHANGED globalLease
  BY <1>1, <1>2, <1>4
<1> QED
  BY <1>3, <1>4 DEF Snapshot

\* Every state has variables of the declared types.
THEOREM TypeCorrect == Spec => []TypeOK
<1>1. Init => TypeOK
  BY ConstantsAssumption DEF Init, TypeOK, Phases
<1>2. TypeOK /\ [Next]_vars => TypeOK'
  <2> SUFFICES ASSUME TypeOK, [Next]_vars PROVE TypeOK'
    OBVIOUS
  <2> USE ConstantsAssumption DEF TypeOK, Phases, Goto, Forget, Rearm, Gone, leaseVars, queueVars, clientVars
  <2>1. CASE Tick
    BY <2>1 DEF Tick
  <2>2. ASSUME NEW r \in Request, Step(r) PROVE TypeOK'
    <3>1. CASE Enqueue(r)
      <4>1. Score(r) \in Nat
        <5>1. PriorityOf[r] \in 0..9
          OBVIOUS
        <5>2. 9 - PriorityOf[r] \in Nat
          BY <5>1
        <5> QED
          BY <5>2 DEF Score
      <4> QED
        BY <3>1, <4>1 DEF Enqueue
    <3>2. CASE Poll(r)
      BY <3>2 DEF Poll
    <3>3. CASE TryAcquire(r)
      <4>1. ASSUME NEW lease \in [Request -> Nat], NEW S, NEW now \in Nat
            PROVE Purged(lease, S, now) \in [Request -> Nat]
        BY DEF Purged
      <4>2. sampled[r] + LeaseTTL \in Nat /\ clock + LeaseTTL \in Nat
        OBVIOUS
      <4> QED
        BY <3>3, <4>1, <4>2 DEF TryAcquire, Grant, Refuse
    <3>4. CASE Answered(r)
      BY <3>4 DEF Answered
    <3>5. CASE CallFails(r) \/ GiveUp(r) \/ CancelEntry(r)
      BY <3>5 DEF CallFails, GiveUp, CancelEntry
    <3>6. CASE RenewSend(r) \/ RenewStop(r) \/ RenewLost(r)
      BY <3>6 DEF RenewSend, RenewStop, RenewLost
    <3>7. CASE RenewRun(r)
      BY <3>7 DEF RenewRun, RenewLease
    <3>8. CASE Finish(r) \/ Release(r) \/ ReleaseLost(r)
      BY <3>8 DEF Finish, Release, ReleaseLost
    <3>9. CASE ContextDone(r) \/ Crash(r)
      BY <3>9 DEF ContextDone, Crash
    <3> QED
      BY <2>2, <3>1, <3>2, <3>3, <3>4, <3>5, <3>6, <3>7, <3>8, <3>9 DEF Step
  <2>3. CASE UNCHANGED vars
    BY <2>3 DEF vars
  <2>4. CASE Snapshot
    BY <2>4, SnapshotEffect
  <2> QED
    BY <2>1, <2>2, <2>3, <2>4 DEF Next
<1> QED
  BY <1>1, <1>2, PTL DEF Spec

-----------------------------------------------------------------------------
(* A released lease stays released.                                        *)

\* After its release script, nothing that is still in flight brings the lease
\* of a request back, whatever the delays and the failures: the renewal script
\* checks the principal key, and only a grant, which r cannot have again,
\* makes that key name r.
THEOREM ReleasedStaysGone == Spec => []ReleasedIsGone
<1>1. Init => ReleasedIsGone
  BY DEF Init, ReleasedIsGone
<1>2. TypeOK /\ ReleasedIsGone /\ [Next]_vars => ReleasedIsGone'
  <2> SUFFICES ASSUME TypeOK, ReleasedIsGone, [Next]_vars,
                      NEW q \in Request, pc'[q] = "released"
               PROVE  /\ globalLease'[q] = 0 /\ workloadLease'[q] = 0
                      /\ ~Owns(q)'
    BY DEF ReleasedIsGone
  <2> USE ConstantsAssumption DEF TypeOK, Goto, Forget, Rearm, leaseVars, queueVars, clientVars
  <2>0. pc[q] = "released" =>
          globalLease[q] = 0 /\ workloadLease[q] = 0 /\ ~Owns(q)
    BY DEF ReleasedIsGone
  <2>1. CASE UNCHANGED vars
    BY <2>0, <2>1 DEF vars, Owns
  <2>2. CASE Tick
    BY <2>0, <2>2 DEF Tick, Owns
  <2>3. ASSUME NEW r \in Request, TryAcquire(r)
        PROVE  /\ globalLease'[q] = 0 /\ workloadLease'[q] = 0
               /\ ~Owns(q)'
    <3>1. r # q /\ pc[q] = "released"
      BY <2>3 DEF TryAcquire, Grant, Refuse
    <3>2. ASSUME NEW lease \in [Request -> Nat], lease[q] = 0, NEW S, NEW now \in Nat
          PROVE  Purged(lease, S, now)[q] = 0 /\ Purged(lease, S, now) \in [Request -> Nat]
      BY <3>2 DEF Purged
    <3>3. globalLease'[q] = 0 /\ workloadLease'[q] = 0
      BY <2>0, <2>3, <3>1, <3>2 DEF TryAcquire, Grant, Refuse
    <3>4. ~Owns(q)'
      BY <2>0, <2>3, <3>1 DEF TryAcquire, Grant, Refuse, Owns
    <3> QED
      BY <3>3, <3>4
  <2>4. ASSUME NEW r \in Request, RenewRun(r)
        PROVE  /\ globalLease'[q] = 0 /\ workloadLease'[q] = 0
               /\ ~Owns(q)'
    <3>1. pc[q] = "released"
      BY <2>4 DEF RenewRun
    <3>2. CASE r = q
      BY <2>0, <2>4, <3>1, <3>2 DEF RenewRun, RenewLease, Owns
    <3>3. CASE r # q
      BY <2>0, <2>4, <3>1, <3>3 DEF RenewRun, RenewLease, Owns
    <3> QED
      BY <3>2, <3>3
  <2>5. ASSUME NEW r \in Request, Release(r)
        PROVE  /\ globalLease'[q] = 0 /\ workloadLease'[q] = 0
               /\ ~Owns(q)'
    <3>1. CASE r = q
      BY <2>5, <3>1 DEF Release, Owns
    <3>2. CASE r # q
      BY <2>0, <2>5, <3>2 DEF Release, Owns
    <3> QED
      BY <3>1, <3>2
  <2>6. ASSUME NEW r \in Request,
               \/ Enqueue(r) \/ Poll(r) \/ Answered(r) \/ CallFails(r) \/ GiveUp(r)
               \/ CancelEntry(r) \/ RenewSend(r) \/ RenewLost(r) \/ RenewStop(r)
               \/ Finish(r) \/ ReleaseLost(r) \/ ContextDone(r) \/ Crash(r)
        PROVE  /\ globalLease'[q] = 0 /\ workloadLease'[q] = 0
               /\ ~Owns(q)'
    <3>1. pc[q] = "released" /\ UNCHANGED leaseVars /\ UNCHANGED clock
      BY <2>6 DEF Enqueue, Poll, Answered, CallFails, GiveUp, CancelEntry, RenewSend,
                  RenewLost, RenewStop, Finish, ReleaseLost, ContextDone, Crash
    <3> QED
      BY <2>0, <3>1 DEF Owns
  <2>7. CASE Snapshot
    BY <2>0, <2>7, SnapshotEffect DEF Owns
  <2> QED
    BY <2>1, <2>2, <2>3, <2>4, <2>5, <2>6, <2>7 DEF Next, Step
<1> QED
  BY <1>1, <1>2, TypeCorrect, PTL DEF Spec

-----------------------------------------------------------------------------
(* Schedules.                                                              *)

\* A renewal goroutine of the request its principal key names renews in time:
\* the next renewal runs before both of its lease entries expire.
RenewsInTime(r) ==
  holder[PrincipalOf[r]] = r =>
    /\ renewer[r] # "off" => globalLease[r] <= holderExpiry[PrincipalOf[r]]
    /\ renewer[r] = "armed" =>
         /\ clock <= due[r]
         /\ due[r] + MaxDelay < globalLease[r]
         /\ due[r] + MaxDelay < workloadLease[r]
    /\ renewer[r] = "sent" =>
         /\ due[r] <= sampled[r] /\ sampled[r] <= clock
         /\ clock <= sampled[r] + MaxDelay
         /\ sampled[r] + MaxDelay < globalLease[r]
         /\ sampled[r] + MaxDelay < workloadLease[r]

\* A grant whose answer is on its way is recent.
GrantIsFresh(r) ==
  pc[r] = "granted" =>
    /\ holder[PrincipalOf[r]] = r
    /\ sampled[r] <= clock /\ clock <= sampled[r] + 2 * MaxDelay
    /\ globalLease[r] = sampled[r] + LeaseTTL
    /\ workloadLease[r] = sampled[r] + LeaseTTL
    /\ globalLease[r] <= holderExpiry[PrincipalOf[r]]

\* The goroutine starts with the ticket and runs while the request is served.
GoroutineRuns(r) ==
  /\ pc[r] \in {"new", "polling", "calling", "granted"} => renewer[r] = "off"
  /\ pc[r] = "calling" => sampled[r] <= clock /\ clock <= sampled[r] + MaxDelay
  /\ Serving(r) => renewer[r] # "off" /\ holder[PrincipalOf[r]] = r

ScheduleInv ==
  \A r \in Request : RenewsInTime(r) /\ GrantIsFresh(r) /\ GoroutineRuns(r)

\* While a grant is on its way or renewals run, both entries and the principal
\* key are alive.
LEMMA TenureIsLive ==
  ASSUME Prompt, TypeOK, ScheduleInv, NEW r \in Request,
         holder[PrincipalOf[r]] = r,
         renewer[r] # "off" \/ pc[r] = "granted"
  PROVE  globalLease[r] > clock /\ workloadLease[r] > clock /\ Owns(r)
<1> USE ConstantsAssumption, ScheduleAssumption DEF TypeOK
<1>1. PrincipalOf[r] \in Principal
  OBVIOUS
<1>2. RenewsInTime(r) /\ GrantIsFresh(r)
  BY DEF ScheduleInv
<1>3. CASE pc[r] = "granted"
  BY <1>1, <1>2, <1>3 DEF GrantIsFresh, Owns
<1>4. CASE renewer[r] = "armed"
  BY <1>1, <1>2, <1>4 DEF RenewsInTime, Owns
<1>5. CASE renewer[r] = "sent"
  BY <1>1, <1>2, <1>5 DEF RenewsInTime, Owns
<1> QED
  BY <1>3, <1>4, <1>5

\* What a run of the grant script does: entries alive at the clock it carries
\* stay, and only a request whose principal key is free takes that key.
LEMMA TryAcquireEffect ==
  ASSUME TypeOK, NEW r \in Request, TryAcquire(r)
  PROVE  /\ pc[r] = "calling"
         /\ \A q \in Request \ {r} :
              /\ pc'[q] = pc[q]
              /\ globalLease[q] > sampled[r] => globalLease'[q] = globalLease[q]
              /\ workloadLease[q] > sampled[r] => workloadLease'[q] = workloadLease[q]
         /\ UNCHANGED <<clock, live, renewer, due>>
         /\ \A q \in Request \ {r} : sampled'[q] = sampled[q]
         /\ \/ /\ pc'[r] = "polling"
               /\ UNCHANGED <<holder, holderExpiry>>
            \/ /\ pc'[r] = "granted"
               /\ sampled' = sampled
               /\ ~Busy(PrincipalOf[r])
               /\ holder' = [holder EXCEPT ![PrincipalOf[r]] = r]
               /\ holderExpiry' = [holderExpiry EXCEPT ![PrincipalOf[r]] = clock + LeaseTTL]
               /\ globalLease'[r] = sampled[r] + LeaseTTL
               /\ workloadLease'[r] = sampled[r] + LeaseTTL
<1> USE ConstantsAssumption DEF TypeOK
<1>1. ASSUME NEW lease \in [Request -> Nat], NEW S, NEW now \in Nat
      PROVE  /\ Purged(lease, S, now) \in [Request -> Nat]
             /\ \A q \in Request : lease[q] > now => Purged(lease, S, now)[q] = lease[q]
  BY DEF Purged
<1>2. r \in Selected(WorkloadOf[r], sampled[r]) => ~Busy(PrincipalOf[r])
  BY DEF Selected, Eligible
<1>3. ASSUME NEW purgedGlobal \in [Request -> Nat], NEW purgedWorkload \in [Request -> Nat],
             NEW expiry, Grant(r, expiry, purgedGlobal, purgedWorkload)
      PROVE  /\ globalLease'[r] = expiry /\ workloadLease'[r] = expiry
             /\ \A q \in Request \ {r} :
                  /\ globalLease'[q] = purgedGlobal[q]
                  /\ workloadLease'[q] = purgedWorkload[q]
                  /\ pc'[q] = pc[q]
             /\ pc'[r] = "granted" /\ sampled' = sampled
             /\ holder' = [holder EXCEPT ![PrincipalOf[r]] = r]
             /\ holderExpiry' = [holderExpiry EXCEPT ![PrincipalOf[r]] = clock + LeaseTTL]
  BY <1>3 DEF Grant, Goto
<1>4. ASSUME NEW purgedGlobal, NEW purgedWorkload, Refuse(r, purgedGlobal, purgedWorkload)
      PROVE  /\ globalLease' = purgedGlobal /\ workloadLease' = purgedWorkload
             /\ \A q \in Request \ {r} : pc'[q] = pc[q] /\ sampled'[q] = sampled[q]
             /\ pc'[r] = "polling" /\ UNCHANGED <<holder, holderExpiry>>
  BY <1>4 DEF Refuse, Goto, Forget
<1> DEFINE pg == Purged(globalLease, Request, sampled[r])
           pw == Purged(workloadLease, InWorkload(WorkloadOf[r]), sampled[r])
<1>5. /\ pg \in [Request -> Nat] /\ pw \in [Request -> Nat]
      /\ \A q \in Request : globalLease[q] > sampled[r] => pg[q] = globalLease[q]
      /\ \A q \in Request : workloadLease[q] > sampled[r] => pw[q] = workloadLease[q]
  BY <1>1
<1>6. /\ pc[r] = "calling" /\ UNCHANGED <<clock, live, renewer, due>>
      /\ \/ Grant(r, sampled[r] + LeaseTTL, pg, pw) /\ r \in Selected(WorkloadOf[r], sampled[r])
         \/ Refuse(r, pg, pw)
  BY DEF TryAcquire
<1> HIDE DEF pg, pw
<1>7. CASE Refuse(r, pg, pw)
  BY <1>4, <1>5, <1>6, <1>7
<1>8. CASE Grant(r, sampled[r] + LeaseTTL, pg, pw) /\ r \in Selected(WorkloadOf[r], sampled[r])
  BY <1>2, <1>3, <1>5, <1>6, <1>8
<1> QED
  BY <1>6, <1>7, <1>8

\* When Prompt, schedules are kept: the clock cannot pass a deadline of theirs,
\* and within one, each renewal is followed by another before its lease ends.
THEOREM ScheduleKept == Prompt => (Spec => []ScheduleInv)
<1> SUFFICES ASSUME Prompt PROVE Spec => []ScheduleInv
  OBVIOUS
<1> USE ConstantsAssumption, ScheduleAssumption
<1>1. Init => ScheduleInv
  BY DEF Init, ScheduleInv, RenewsInTime, GrantIsFresh, GoroutineRuns, Serving
<1>2. TypeOK /\ ScheduleInv /\ [Next]_vars => ScheduleInv'
  <2> SUFFICES ASSUME TypeOK, ScheduleInv, [Next]_vars, NEW q \in Request
               PROVE  RenewsInTime(q)' /\ GrantIsFresh(q)' /\ GoroutineRuns(q)'
    BY DEF ScheduleInv
  <2>0. RenewsInTime(q) /\ GrantIsFresh(q) /\ GoroutineRuns(q)
    BY DEF ScheduleInv
  <2> DEFINE Kept == RenewsInTime(q)' /\ GrantIsFresh(q)' /\ GoroutineRuns(q)'
  <2> USE DEF TypeOK, Phases
  <2>1. CASE UNCHANGED vars
    BY <2>0, <2>1 DEF vars, clientVars, leaseVars, RenewsInTime, GrantIsFresh, GoroutineRuns, Serving
  <2>2. CASE Tick
    <3>1. Punctual(q) /\ clock' = clock + 1 /\ UNCHANGED <<clientVars, queueVars, leaseVars>>
      BY <2>2 DEF Tick
    <3> QED
      BY <2>0, <3>1 DEF Punctual, clientVars, leaseVars, RenewsInTime, GrantIsFresh, GoroutineRuns, Serving
  <2>3. ASSUME NEW r \in Request, TryAcquire(r) PROVE Kept
    <3>1. /\ pc[r] = "calling" /\ sampled[r] <= clock
          /\ clock <= sampled[r] + MaxDelay /\ renewer[r] = "off"
      BY <2>3, TryAcquireEffect DEF ScheduleInv, GoroutineRuns
    <3>2. CASE r = q
      BY <2>3, <3>1, <3>2, TryAcquireEffect DEF RenewsInTime, GrantIsFresh, GoroutineRuns, Serving
    <3>3. CASE r # q
      <4>1. /\ pc'[q] = pc[q] /\ sampled'[q] = sampled[q]
            /\ UNCHANGED <<clock, live, renewer, due>>
            /\ globalLease[q] > sampled[r] => globalLease'[q] = globalLease[q]
            /\ workloadLease[q] > sampled[r] => workloadLease'[q] = workloadLease[q]
        BY <2>3, <3>3, TryAcquireEffect
      <4>2. \/ UNCHANGED <<holder, holderExpiry>>
            \/ /\ ~Busy(PrincipalOf[r])
               /\ holder' = [holder EXCEPT ![PrincipalOf[r]] = r]
               /\ holderExpiry' = [holderExpiry EXCEPT ![PrincipalOf[r]] = clock + LeaseTTL]
        BY <2>3, TryAcquireEffect
      <4>3. ASSUME holder[PrincipalOf[q]] = q, renewer[q] # "off" \/ pc[q] = "granted"
            PROVE  /\ holder'[PrincipalOf[q]] = q
                   /\ holderExpiry'[PrincipalOf[q]] = holderExpiry[PrincipalOf[q]]
                   /\ globalLease'[q] = globalLease[q] /\ workloadLease'[q] = workloadLease[q]
        <5>1. globalLease[q] > clock /\ workloadLease[q] > clock /\ Owns(q)
          BY <4>3, TenureIsLive
        <5>2. Busy(PrincipalOf[q])
          BY <5>1 DEF Owns, Busy
        <5>3. globalLease'[q] = globalLease[q] /\ workloadLease'[q] = workloadLease[q]
          BY <3>1, <4>1, <5>1
        <5> QED
          BY <4>2, <4>3, <5>2, <5>3
      <4>4. holder'[PrincipalOf[q]] = q => holder[PrincipalOf[q]] = q
        BY <3>3, <4>2
      <4> QED
        BY <2>0, <4>1, <4>3, <4>4 DEF RenewsInTime, GrantIsFresh, GoroutineRuns, Serving
    <3> QED
      BY <3>2, <3>3
  <2>4. ASSUME NEW r \in Request, Answered(r) PROVE Kept
    BY <2>0, <2>4 DEF Answered, Goto, Forget, queueVars, leaseVars, RenewsInTime, GrantIsFresh, GoroutineRuns, Serving
  <2>5. ASSUME NEW r \in Request, RenewSend(r) \/ RenewStop(r) PROVE Kept
    BY <2>0, <2>5 DEF RenewSend, RenewStop, leaseVars, RenewsInTime, GrantIsFresh, GoroutineRuns, Serving
  <2>6. ASSUME NEW r \in Request, RenewRun(r) PROVE Kept
    <3>1. /\ renewer[r] = "sent" /\ RenewLease(r)
          /\ IF pc[r] = "crashed" THEN Gone(r) ELSE Rearm(r)
          /\ UNCHANGED <<clock, pc, live>>
      BY <2>6 DEF RenewRun
    <3>2. CASE r = q /\ pc[r] # "crashed"
      <4>1. pc[q] \notin {"new", "polling", "calling", "granted"}
        BY <2>0, <3>1, <3>2 DEF GoroutineRuns
      <4>2. CASE holder[PrincipalOf[q]] = q
        <5>1. Owns(q)
          BY <3>1, <3>2, <4>2, TenureIsLive
        <5>2. /\ due[q] <= sampled[q] /\ sampled[q] <= clock
              /\ clock <= sampled[q] + MaxDelay
          BY <2>0, <3>1, <3>2, <4>2 DEF RenewsInTime
        <5>3. /\ globalLease'[q] = sampled[q] + LeaseTTL
              /\ workloadLease'[q] = sampled[q] + LeaseTTL
              /\ holderExpiry'[PrincipalOf[q]] = clock + LeaseTTL
              /\ holder' = holder
          BY <3>1, <3>2, <5>1 DEF RenewLease
        <5>4. /\ renewer'[q] = "armed"
              /\ due'[q] = IF due[q] + RenewEvery < clock THEN clock ELSE due[q] + RenewEvery
          BY <3>1, <3>2 DEF Rearm
        <5>5. RenewsInTime(q)'
          BY <3>1, <5>2, <5>3, <5>4 DEF RenewsInTime
        <5> QED
          BY <2>0, <3>1, <4>1, <4>2, <5>3, <5>4, <5>5 DEF GrantIsFresh, GoroutineRuns, Serving
      <4>3. CASE holder[PrincipalOf[q]] # q
        BY <2>0, <3>1, <3>2, <4>1, <4>3 DEF RenewLease, Rearm, Owns, leaseVars, RenewsInTime, GrantIsFresh, GoroutineRuns, Serving
      <4> QED
        BY <4>2, <4>3
    <3>3. CASE r # q
      <4>1. /\ globalLease'[q] = globalLease[q] /\ workloadLease'[q] = workloadLease[q]
            /\ holder' = holder
            /\ holder[PrincipalOf[q]] = q => holderExpiry'[PrincipalOf[q]] = holderExpiry[PrincipalOf[q]]
        BY <3>1, <3>3 DEF RenewLease, Owns, leaseVars
      <4>2. renewer'[q] = renewer[q] /\ due'[q] = due[q] /\ sampled'[q] = sampled[q]
        BY <3>1, <3>3 DEF Rearm, Gone, Forget
      <4> QED
        BY <2>0, <3>1, <4>1, <4>2 DEF RenewsInTime, GrantIsFresh, GoroutineRuns, Serving
    <3>4. CASE r = q /\ pc[r] = "crashed"
      <4>1. renewer'[q] = "off" /\ due'[q] = 0
        BY <3>1, <3>4 DEF Gone
      <4> QED
        BY <2>0, <3>1, <3>4, <4>1 DEF RenewsInTime, GrantIsFresh, GoroutineRuns, Serving
    <3> QED
      BY <3>2, <3>3, <3>4
  <2>7. ASSUME NEW r \in Request, Release(r) PROVE Kept
    <3>1. CASE r = q
      <4>1. renewer[q] # "off" /\ holder[PrincipalOf[q]] = q => Owns(q)
        BY TenureIsLive
      <4> QED
        BY <2>0, <2>7, <3>1, <4>1 DEF Release, Goto, queueVars, RenewsInTime, GrantIsFresh, GoroutineRuns, Serving
    <3>2. CASE r # q
      BY <2>0, <2>7, <3>2 DEF Release, Goto, Owns, queueVars, RenewsInTime, GrantIsFresh, GoroutineRuns, Serving
    <3> QED
      BY <3>1, <3>2
  <2>8. ASSUME NEW r \in Request,
               Enqueue(r) \/ Poll(r) \/ CallFails(r) \/ GiveUp(r) \/ CancelEntry(r)
        PROVE  Kept
    BY <2>0, <2>8 DEF Enqueue, Poll, CallFails, GiveUp, CancelEntry, Goto, Forget,
       leaseVars, RenewsInTime, GrantIsFresh, GoroutineRuns, Serving
  <2>9. ASSUME NEW r \in Request,
               Finish(r) \/ ReleaseLost(r) \/ ContextDone(r) \/ Crash(r)
        PROVE  Kept
    BY <2>0, <2>9 DEF Finish, ReleaseLost, ContextDone, Crash, Goto, leaseVars,
       RenewsInTime, GrantIsFresh, GoroutineRuns, Serving
  <2>10. ASSUME NEW r \in Request PROVE ~RenewLost(r)
    BY DEF RenewLost
  <2>11. CASE Snapshot
    <3>1. /\ UNCHANGED <<clock, pc, live, sampled, renewer, due, holder, holderExpiry>>
          /\ globalLease[q] > clock => globalLease'[q] = globalLease[q]
          /\ workloadLease[q] > clock => workloadLease'[q] = workloadLease[q]
      BY <2>11, SnapshotEffect DEF clientVars
    <3>2. holder[PrincipalOf[q]] = q /\ (renewer[q] # "off" \/ pc[q] = "granted")
            => globalLease'[q] = globalLease[q] /\ workloadLease'[q] = workloadLease[q]
      BY <3>1, TenureIsLive
    <3> QED
      BY <2>0, <3>1, <3>2 DEF RenewsInTime, GrantIsFresh, GoroutineRuns, Serving
  <2> QED
    BY <2>1, <2>2, <2>3, <2>4, <2>5, <2>6, <2>7, <2>8, <2>9, <2>10, <2>11 DEF Next, Step
<1> QED
  BY <1>1, <1>2, TypeCorrect, PTL DEF Spec

\* The lease of a request that is being served never lapses, for every delay
\* that fits the schedule.
THEOREM LeaseNeverLapses == Prompt => (Spec => []LeaseHeld)
<1> SUFFICES ASSUME Prompt PROVE Spec => []LeaseHeld
  OBVIOUS
<1>1. TypeOK /\ ScheduleInv => LeaseHeld
  <2> SUFFICES ASSUME TypeOK, ScheduleInv, NEW r \in Request, Serving(r)
               PROVE  globalLease[r] > clock /\ workloadLease[r] > clock /\ Owns(r)
    BY DEF LeaseHeld
  <2>1. renewer[r] # "off" /\ holder[PrincipalOf[r]] = r
    BY DEF ScheduleInv, GoroutineRuns
  <2> QED
    BY <2>1, TenureIsLive
<1> QED
  BY <1>1, TypeCorrect, ScheduleKept, PTL

-----------------------------------------------------------------------------
(* A lease is live in both sets or in neither.                             *)

\* The two entries of a request are the same, unless both have expired.
Agree(r) ==
  \/ globalLease[r] = workloadLease[r]
  \/ globalLease[r] <= clock /\ workloadLease[r] <= clock

\* The clock that a client has read is not ahead of Redis.
AgreeInv == \A r \in Request : sampled[r] <= clock /\ Agree(r)

\* An entry that a step keeps, or drops because it has expired.
Spared(lease, later) == later = lease \/ (later = 0 /\ lease <= clock)

\* Both entries get the same value, or each is kept or dropped when it has expired.
LEMMA AgreeStays ==
  ASSUME TypeOK, NEW r \in Request, Agree(r), clock' = clock,
         \/ globalLease'[r] = workloadLease'[r]
         \/ Spared(globalLease[r], globalLease'[r]) /\ Spared(workloadLease[r], workloadLease'[r])
  PROVE  Agree(r)'
<1>1. clock \in Nat /\ globalLease[r] \in Nat /\ workloadLease[r] \in Nat
  BY DEF TypeOK
<1> QED
  BY <1>1 DEF Agree, Spared

\* A purge spares every entry that is live.
LEMMA PurgeSpares ==
  ASSUME NEW lease \in [Request -> Nat], NEW S, NEW now \in Nat, now <= clock, clock \in Nat, NEW q \in Request
  PROVE  Purged(lease, S, now) \in [Request -> Nat] /\ Spared(lease[q], Purged(lease, S, now)[q])
<1>1. Purged(lease, S, now) \in [Request -> Nat] /\ lease[q] \in Nat
  BY DEF Purged
<1>2. CASE q \in S /\ lease[q] <= now
  BY <1>1, <1>2 DEF Purged, Spared
<1>3. CASE ~(q \in S /\ lease[q] <= now)
  BY <1>1, <1>3 DEF Purged, Spared
<1> QED
  BY <1>1, <1>2, <1>3

\* The grant script purges by a clock that may be old, and grants both entries
\* at once.
LEMMA TryAcquireAgrees ==
  ASSUME TypeOK, AgreeInv, NEW r \in Request, TryAcquire(r), NEW q \in Request
  PROVE  Agree(q)' /\ sampled'[q] <= clock'
<1>0. /\ clock \in Nat /\ sampled \in [Request -> Nat] /\ sampled[r] <= clock /\ sampled[q] <= clock /\ Agree(q)
      /\ globalLease \in [Request -> Nat] /\ workloadLease \in [Request -> Nat]
  BY DEF TypeOK, AgreeInv
<1> DEFINE pg == Purged(globalLease, Request, sampled[r])
           pw == Purged(workloadLease, InWorkload(WorkloadOf[r]), sampled[r])
<1>1. /\ pg \in [Request -> Nat] /\ Spared(globalLease[q], pg[q])
      /\ pw \in [Request -> Nat] /\ Spared(workloadLease[q], pw[q])
  BY <1>0, PurgeSpares
<1>2. /\ clock' = clock
      /\ Grant(r, sampled[r] + LeaseTTL, pg, pw) \/ Refuse(r, pg, pw)
  BY DEF TryAcquire
<1> HIDE DEF pg, pw
<1>3. CASE Refuse(r, pg, pw)
  <2>1. globalLease' = pg /\ workloadLease' = pw /\ sampled' = [sampled EXCEPT ![r] = 0]
    BY <1>3 DEF Refuse, Forget
  <2>2. sampled'[q] <= clock'
    BY <1>0, <1>2, <2>1
  <2> QED
    BY <1>0, <1>1, <1>2, <2>1, <2>2, AgreeStays
<1>4. CASE Grant(r, sampled[r] + LeaseTTL, pg, pw)
  <2>1. /\ globalLease' = [pg EXCEPT ![r] = sampled[r] + LeaseTTL]
        /\ workloadLease' = [pw EXCEPT ![r] = sampled[r] + LeaseTTL]
        /\ sampled' = sampled
    BY <1>4 DEF Grant
  <2>2. CASE q = r
    BY <1>0, <1>1, <1>2, <2>1, <2>2, AgreeStays
  <2>3. CASE q # r
    <3>1. globalLease'[q] = pg[q] /\ workloadLease'[q] = pw[q]
      BY <1>1, <2>1, <2>3
    <3> QED
      BY <1>0, <1>1, <1>2, <2>1, <3>1, AgreeStays
  <2> QED
    BY <2>2, <2>3
<1> QED
  BY <1>2, <1>3, <1>4

\* The other steps of a request change no lease, or both entries of its own.
LEMMA StepAgrees ==
  ASSUME TypeOK, AgreeInv, NEW r \in Request, Step(r), ~TryAcquire(r), NEW q \in Request
  PROVE  Agree(q)' /\ sampled'[q] <= clock'
<1> USE DEF queueVars, leaseVars
<1>0. /\ clock \in Nat /\ sampled \in [Request -> Nat] /\ sampled[q] <= clock /\ Agree(q)
      /\ globalLease \in [Request -> Nat] /\ workloadLease \in [Request -> Nat]
  BY DEF TypeOK, AgreeInv
<1>1. clock' = clock
  BY DEF Step, Enqueue, Poll, Answered, CallFails, GiveUp, CancelEntry, RenewSend, RenewRun, RenewLost, RenewStop,
     Finish, Release, ReleaseLost, ContextDone, Crash
<1>2. sampled' = sampled \/ sampled' = [sampled EXCEPT ![r] = clock] \/ sampled' = [sampled EXCEPT ![r] = 0]
  BY DEF Step, Enqueue, Poll, Answered, CallFails, GiveUp, CancelEntry, RenewSend, RenewRun, RenewLost, RenewStop,
     Finish, Release, ReleaseLost, ContextDone, Crash, Forget, Rearm, Gone
<1>3. sampled'[q] <= clock'
  BY <1>0, <1>1, <1>2
<1>4. CASE RenewRun(r)
  <2>1. \/ UNCHANGED <<globalLease, workloadLease>>
        \/ /\ globalLease' = [globalLease EXCEPT ![r] = sampled[r] + LeaseTTL]
           /\ workloadLease' = [workloadLease EXCEPT ![r] = sampled[r] + LeaseTTL]
    BY <1>4 DEF RenewRun, RenewLease
  <2>2. globalLease'[q] = workloadLease'[q]
        \/ (globalLease'[q] = globalLease[q] /\ workloadLease'[q] = workloadLease[q])
    BY <1>0, <2>1
  <2> QED
    BY <1>0, <1>1, <1>3, <2>2, AgreeStays DEF Spared
<1>5. CASE Release(r)
  <2>1. globalLease'[q] = workloadLease'[q]
        \/ (globalLease'[q] = globalLease[q] /\ workloadLease'[q] = workloadLease[q])
    BY <1>0, <1>5 DEF Release
  <2> QED
    BY <1>0, <1>1, <1>3, <2>1, AgreeStays DEF Spared
<1>6. CASE ~RenewRun(r) /\ ~Release(r)
  <2>1. UNCHANGED <<globalLease, workloadLease>>
    BY <1>6 DEF Step, Enqueue, Poll, Answered, CallFails, GiveUp, CancelEntry, RenewSend, RenewLost, RenewStop,
       Finish, ReleaseLost, ContextDone, Crash
  <2> QED
    BY <1>0, <1>1, <1>3, <2>1, AgreeStays DEF Spared
<1> QED
  BY <1>4, <1>5, <1>6

\* On any schedule, a live lease is in the global set exactly when it is in the
\* set of its workload: no purge by a script with an old clock, no renewal and
\* no lost release takes a live lease out of one of them only.
THEOREM LeasesAlwaysAgree == Spec => []LeasesAgree
<1>1. Init => AgreeInv
  BY DEF Init, AgreeInv, Agree
<1>2. TypeOK /\ AgreeInv /\ [Next]_vars => AgreeInv'
  <2> SUFFICES ASSUME TypeOK, AgreeInv, [Next]_vars, NEW q \in Request
               PROVE  sampled'[q] <= clock' /\ Agree(q)'
    BY DEF AgreeInv
  <2>0. /\ sampled[q] <= clock /\ Agree(q) /\ clock \in Nat /\ sampled[q] \in Nat
        /\ globalLease \in [Request -> Nat] /\ workloadLease \in [Request -> Nat]
    BY DEF AgreeInv, TypeOK
  <2>1. ASSUME NEW r \in Request, Step(r) PROVE sampled'[q] <= clock' /\ Agree(q)'
    BY <2>1, TryAcquireAgrees, StepAgrees
  <2>2. CASE Tick
    <3>1. clock' = clock + 1 /\ UNCHANGED <<sampled, globalLease, workloadLease>>
      BY <2>2 DEF Tick, clientVars, leaseVars
    <3>2. globalLease[q] \in Nat /\ workloadLease[q] \in Nat
      BY <2>0
    <3> QED
      BY <2>0, <3>1, <3>2 DEF Agree
  <2>3. CASE Snapshot
    <3>1. /\ UNCHANGED <<clock, sampled>>
          /\ Spared(globalLease[q], globalLease'[q]) /\ Spared(workloadLease[q], workloadLease'[q])
      BY <2>0, <2>3, SnapshotEffect DEF clientVars, Spared
    <3> QED
      BY <2>0, <3>1, AgreeStays
  <2>4. CASE UNCHANGED vars
    BY <2>0, <2>4 DEF vars, clientVars, leaseVars, Agree
  <2> QED
    BY <2>1, <2>2, <2>3, <2>4 DEF Next
<1>3. TypeOK /\ AgreeInv => LeasesAgree
  <2> SUFFICES ASSUME TypeOK, AgreeInv, NEW r \in Request
               PROVE  globalLease[r] > clock <=> workloadLease[r] > clock
    BY DEF LeasesAgree
  <2>1. clock \in Nat /\ globalLease[r] \in Nat /\ workloadLease[r] \in Nat /\ Agree(r)
    BY DEF TypeOK, AgreeInv
  <2> QED
    BY <2>1 DEF Agree
<1> QED
  BY <1>1, <1>2, <1>3, TypeCorrect, PTL DEF Spec

-----------------------------------------------------------------------------
(* The order of the grants.                                                *)

\* Requests before another that is a candidate are candidates, too.
LEMMA EarlierIsCandidate ==
  ASSUME TypeOK, NEW w, NEW r \in Candidates(w), NEW q \in Queued(w), Before(q, r)
  PROVE  q \in Candidates(w)
<1> DEFINE First(x) == {y \in Queued(w) : Before(y, x)}
<1>1. First(q) \subseteq First(r)
  <2> SUFFICES ASSUME NEW y \in Queued(w), Before(y, q) PROVE Before(y, r)
    OBVIOUS
  <2>1. /\ y \in Nat /\ q \in Nat /\ r \in Nat
        /\ score[y] \in Nat /\ score[q] \in Nat /\ score[r] \in Nat
    BY ConstantsAssumption DEF TypeOK, Queued, Candidates
  <2> QED
    BY <2>1 DEF Before
<1>2. IsFiniteSet(First(r)) /\ IsFiniteSet(First(q))
  BY ConstantsAssumption, FS_Subset DEF Queued
<1>3. Cardinality(First(q)) <= Cardinality(First(r)) /\ Cardinality(First(q)) \in Nat /\ Cardinality(First(r)) \in Nat
  BY <1>1, <1>2, FS_Subset, FS_CardinalityType
<1>4. Cardinality(First(r)) < Window /\ Window \in Nat
  BY ConstantsAssumption DEF Candidates
<1> QED
  BY <1>3, <1>4 DEF Candidates

\* What a grant answers is the first of the requests the script may select.
LEMMA GrantSelects ==
  ASSUME TypeOK, [Next]_vars, NEW r \in Request, pc[r] = "calling", pc'[r] = "granted"
  PROVE  r \in Selected(WorkloadOf[r], sampled[r])
<1> USE DEF TypeOK, Goto
<1>1. ASSUME NEW q \in Request, Step(q), ~TryAcquire(q) PROVE pc'[r] # "granted"
  BY <1>1 DEF Step, Enqueue, Poll, Answered, CallFails, GiveUp, CancelEntry, RenewSend, RenewRun, RenewLost,
     RenewStop, Finish, Release, ReleaseLost, ContextDone, Crash
<1>2. ASSUME NEW q \in Request, TryAcquire(q) PROVE r \in Selected(WorkloadOf[r], sampled[r])
  <2>1. q = r
    BY <1>2, TryAcquireEffect
  <2> QED
    BY <1>2, <2>1 DEF TryAcquire, Refuse
<1>3. ~Tick /\ ~Snapshot /\ ~UNCHANGED vars
  BY DEF Tick, Snapshot, vars, clientVars
<1> QED
  BY <1>1, <1>2, <1>3 DEF Next

\* Of the requests of one principal and workload, a grant goes to the first by
\* score and id that has not expired, although the script looks at no more than
\* the first entries of the queue and at a clock that may be old.
THEOREM GrantsInOrder == Spec => ServedInOrder
<1>1. TypeOK /\ [Next]_vars =>
        [\A r, q \in Request :
           /\ pc[r] = "calling" /\ pc'[r] = "granted"
           /\ PrincipalOf[q] = PrincipalOf[r] /\ WorkloadOf[q] = WorkloadOf[r]
           /\ score[q] # 0 /\ ~Stale(q, sampled[r])
           => ~Before(q, r)]_vars
  <2> SUFFICES ASSUME TypeOK, [Next]_vars, NEW r \in Request, NEW q \in Request,
                      pc[r] = "calling", pc'[r] = "granted",
                      PrincipalOf[q] = PrincipalOf[r], WorkloadOf[q] = WorkloadOf[r],
                      score[q] # 0, ~Stale(q, sampled[r]), Before(q, r)
               PROVE  FALSE
    OBVIOUS
  <2>1. r \in Selected(WorkloadOf[r], sampled[r])
    BY GrantSelects
  <2>2. q \in Candidates(WorkloadOf[r])
    BY <2>1, EarlierIsCandidate DEF Selected, Queued
  <2>3. Eligible(q, sampled[r])
    BY <2>1 DEF Selected, Eligible
  <2> QED
    BY <2>1, <2>2, <2>3 DEF Selected
<1> QED
  BY <1>1, TypeCorrect, PTL DEF Spec, ServedInOrder

-----------------------------------------------------------------------------
(* Limits.                                                                 *)

\* Sets of requests are finite, and a subset has no more members.
LEMMA SmallerLease ==
  ASSUME NEW S \in SUBSET Request, NEW T \in SUBSET S
  PROVE  /\ IsFiniteSet(S) /\ IsFiniteSet(T)
         /\ Cardinality(S) \in Nat /\ Cardinality(T) \in Nat
         /\ Cardinality(T) <= Cardinality(S)
<1>1. IsFiniteSet(S)
  BY ConstantsAssumption, FS_Subset
<1>2. IsFiniteSet(T) /\ Cardinality(T) <= Cardinality(S)
  BY <1>1, FS_Subset
<1> QED
  BY <1>1, <1>2, FS_CardinalityType

\* A lease set below its limit has room for one more member.
LEMMA RoomForOne ==
  ASSUME NEW S \in SUBSET Request, NEW r \in Request, NEW T \in SUBSET (S \cup {r}),
         NEW limit \in Nat, Cardinality(S) < limit
  PROVE  Cardinality(T) <= limit
<1>1. IsFiniteSet(S) /\ Cardinality(S) \in Nat
  BY SmallerLease
<1>2. Cardinality(S \cup {r}) = IF r \in S THEN Cardinality(S) ELSE Cardinality(S) + 1
  BY <1>1, FS_AddElement
<1>3. S \cup {r} \in SUBSET Request
  OBVIOUS
<1>4. Cardinality(T) <= Cardinality(S \cup {r}) /\ Cardinality(T) \in Nat
      /\ Cardinality(S \cup {r}) \in Nat
  BY <1>3, SmallerLease
<1> QED
  BY <1>1, <1>2, <1>4

\* The lease sets stay within the limits for every number of requests,
\* principals and workloads: a grant compares them with the limit, and a renewal
\* adds nothing because its entry is still there.
THEOREM LeasesWithinLimits == Prompt => (Spec => []LeaseLimit)
<1> SUFFICES ASSUME Prompt PROVE Spec => []LeaseLimit
  OBVIOUS
<1> USE ConstantsAssumption
<1>1. Init => LeaseLimit
  <2> SUFFICES ASSUME Init PROVE LeaseLimit
    OBVIOUS
  <2>1. Leased(globalLease) = {} /\ Leased(workloadLease) = {}
    BY DEF Init, Leased
  <2> QED
    BY <2>1, FS_EmptySet DEF LeaseLimit
<1>2. TypeOK /\ ScheduleInv /\ LeaseLimit /\ [Next]_vars => LeaseLimit'
  <2> SUFFICES ASSUME TypeOK, ScheduleInv, LeaseLimit, [Next]_vars PROVE LeaseLimit'
    OBVIOUS
  <2> USE DEF TypeOK
  <2>1. ASSUME Leased(globalLease)' \subseteq Leased(globalLease),
               Leased(workloadLease)' \subseteq Leased(workloadLease)
        PROVE  LeaseLimit'
    <3>1. Leased(globalLease) \subseteq Request /\ Leased(workloadLease) \subseteq Request
      BY DEF Leased
    <3>2. /\ Cardinality(Leased(globalLease)') <= Cardinality(Leased(globalLease))
          /\ Cardinality(Leased(globalLease)') \in Nat
          /\ Cardinality(Leased(globalLease)) \in Nat
      BY <2>1, <3>1, SmallerLease
    <3>3. ASSUME NEW w \in Workload
          PROVE  Cardinality(Leased(workloadLease)' \cap InWorkload(w)) <= WorkloadLimit[w]
      <4>1. Leased(workloadLease)' \cap InWorkload(w) \subseteq Leased(workloadLease) \cap InWorkload(w)
        BY <2>1
      <4>2. Leased(workloadLease) \cap InWorkload(w) \subseteq Request
        BY <3>1
      <4>3. /\ Cardinality(Leased(workloadLease)' \cap InWorkload(w))
                 <= Cardinality(Leased(workloadLease) \cap InWorkload(w))
            /\ Cardinality(Leased(workloadLease)' \cap InWorkload(w)) \in Nat
            /\ Cardinality(Leased(workloadLease) \cap InWorkload(w)) \in Nat
        BY <4>1, <4>2, SmallerLease
      <4> QED
        BY <4>3 DEF LeaseLimit
    <3>4. Cardinality(Leased(globalLease)') <= GlobalLimit
      BY <3>2 DEF LeaseLimit
    <3> QED
      BY <3>3, <3>4 DEF LeaseLimit, InWorkload
  <2>2. CASE UNCHANGED leaseVars
    BY <2>1, <2>2 DEF leaseVars, Leased
  <2>3. ASSUME NEW r \in Request, RenewRun(r) PROVE LeaseLimit'
    <3>1. renewer[r] = "sent"
      BY <2>3 DEF RenewRun
    <3>2. CASE Owns(r)
      <4>1. globalLease[r] # 0 /\ workloadLease[r] # 0
        BY <3>1, <3>2, TenureIsLive DEF Owns
      <4>2. /\ \A q \in Request \ {r} : globalLease'[q] = globalLease[q]
            /\ \A q \in Request \ {r} : workloadLease'[q] = workloadLease[q]
        BY <2>3, <3>2 DEF RenewRun, RenewLease
      <4> QED
        BY <2>1, <4>1, <4>2 DEF Leased
    <3>3. CASE ~Owns(r)
      BY <2>2, <2>3, <3>3 DEF RenewRun, RenewLease
    <3> QED
      BY <3>2, <3>3
  <2>4. ASSUME NEW r \in Request, Release(r) PROVE LeaseLimit'
    BY <2>1, <2>4 DEF Release, Leased
  <2>5. ASSUME NEW r \in Request, TryAcquire(r) PROVE LeaseLimit'
    <3> DEFINE w == WorkloadOf[r]
               pg == Purged(globalLease, Request, sampled[r])
               pw == Purged(workloadLease, InWorkload(w), sampled[r])
    <3>1. /\ pg \in [Request -> Nat] /\ pw \in [Request -> Nat]
          /\ Leased(pg) \subseteq Leased(globalLease)
          /\ Leased(pw) \subseteq Leased(workloadLease)
          /\ Leased(pg) \subseteq Request /\ Leased(pw) \subseteq Request
      BY DEF Purged, Leased
    <3>2. \/ Refuse(r, pg, pw)
          \/ /\ Grant(r, sampled[r] + LeaseTTL, pg, pw)
             /\ ~(Cardinality(Leased(pg)) >= GlobalLimit)
             /\ ~(Cardinality(Leased(pw) \cap InWorkload(w)) >= WorkloadLimit[w])
      BY <2>5 DEF TryAcquire, Full
    <3> HIDE DEF pg, pw
    <3>3. CASE Refuse(r, pg, pw)
      BY <2>1, <3>1, <3>3 DEF Refuse, Leased
    <3>4. CASE /\ Grant(r, sampled[r] + LeaseTTL, pg, pw)
               /\ ~(Cardinality(Leased(pg)) >= GlobalLimit)
               /\ ~(Cardinality(Leased(pw) \cap InWorkload(w)) >= WorkloadLimit[w])
      <4>1. /\ globalLease' = [pg EXCEPT ![r] = sampled[r] + LeaseTTL]
            /\ workloadLease' = [pw EXCEPT ![r] = sampled[r] + LeaseTTL]
        BY <3>4 DEF Grant
      <4>2. /\ Leased(globalLease)' \subseteq Leased(pg) \cup {r}
            /\ Leased(workloadLease)' \subseteq Leased(pw) \cup {r}
        BY <3>1, <4>1 DEF Leased
      <4>3. Cardinality(Leased(globalLease)') <= GlobalLimit
        <5>1. Cardinality(Leased(pg)) \in Nat
          BY <3>1, SmallerLease
        <5>2. Cardinality(Leased(pg)) < GlobalLimit /\ GlobalLimit \in Nat
          BY <3>4, <5>1
        <5> QED
          BY <3>1, <4>2, <5>2, RoomForOne
      <4>4. ASSUME NEW v \in Workload
            PROVE  Cardinality(Leased(workloadLease)' \cap InWorkload(v)) <= WorkloadLimit[v]
        <5>1. CASE v = w
          <6>1. Leased(pw) \cap InWorkload(w) \subseteq Request
            BY <3>1
          <6>2. Cardinality(Leased(pw) \cap InWorkload(w)) \in Nat
            BY <6>1, SmallerLease
          <6>3. Cardinality(Leased(pw) \cap InWorkload(w)) < WorkloadLimit[w] /\ WorkloadLimit[w] \in Nat
            BY <3>4, <5>1, <6>2
          <6>4. Leased(workloadLease)' \cap InWorkload(w) \subseteq (Leased(pw) \cap InWorkload(w)) \cup {r}
            BY <4>2
          <6> QED
            BY <5>1, <6>1, <6>3, <6>4, RoomForOne
        <5>2. CASE v # w
          <6>1. r \notin InWorkload(v)
            BY <5>2 DEF InWorkload
          <6>2. Leased(workloadLease)' \cap InWorkload(v) \subseteq Leased(workloadLease) \cap InWorkload(v)
            BY <3>1, <4>2, <6>1
          <6>3. Leased(workloadLease) \cap InWorkload(v) \subseteq Request
            BY DEF Leased
          <6>4. /\ Cardinality(Leased(workloadLease)' \cap InWorkload(v))
                     <= Cardinality(Leased(workloadLease) \cap InWorkload(v))
                /\ Cardinality(Leased(workloadLease)' \cap InWorkload(v)) \in Nat
                /\ Cardinality(Leased(workloadLease) \cap InWorkload(v)) \in Nat
            BY <6>2, <6>3, SmallerLease
          <6> QED
            BY <6>4 DEF LeaseLimit
        <5> QED
          BY <5>1, <5>2
      <4> QED
        BY <4>3, <4>4 DEF LeaseLimit, InWorkload
    <3> QED
      BY <3>2, <3>3, <3>4
  <2>6. ASSUME NEW r \in Request,
               \/ Enqueue(r) \/ Poll(r) \/ Answered(r) \/ CallFails(r) \/ GiveUp(r)
               \/ CancelEntry(r) \/ RenewSend(r) \/ RenewLost(r) \/ RenewStop(r)
               \/ Finish(r) \/ ReleaseLost(r) \/ ContextDone(r) \/ Crash(r)
        PROVE  UNCHANGED leaseVars
    BY <2>6 DEF Enqueue, Poll, Answered, CallFails, GiveUp, CancelEntry, RenewSend,
                RenewLost, RenewStop, Finish, ReleaseLost, ContextDone, Crash
  <2>7. Tick \/ UNCHANGED vars => UNCHANGED leaseVars
    BY DEF Tick, vars
  <2>8. CASE Snapshot
    BY <2>1, <2>8, SnapshotEffect DEF Leased
  <2> QED
    BY <2>2, <2>3, <2>4, <2>5, <2>6, <2>7, <2>8 DEF Next, Step
<1> QED
  BY <1>1, <1>2, TypeCorrect, ScheduleKept, PTL DEF Spec

-----------------------------------------------------------------------------
(* The queue implements the limiter.                                       *)

ServingSet == {r \in Request : Serving(r)}

\* The limiter counts as the queue does.
LEMMA SameCardinality == \A S : Limiter!Cardinality(S) = Cardinality(S)
  BY DEF Limiter!Cardinality, Cardinality, Limiter!IsFiniteSet, IsFiniteSet

\* What is served has leases, and leases are within the limits.
LEMMA ServingIsWithinLimits ==
  ASSUME TypeOK, LeaseHeld, LeaseLimit
  PROVE  Limiter!WithinLimits(ServingSet)
<1> USE ConstantsAssumption DEF TypeOK
<1>1. ServingSet \subseteq Leased(globalLease) /\ ServingSet \subseteq Leased(workloadLease)
  <2> SUFFICES ASSUME NEW r \in Request, Serving(r)
               PROVE  globalLease[r] # 0 /\ workloadLease[r] # 0
    BY DEF ServingSet, Leased
  <2>1. globalLease[r] > clock /\ workloadLease[r] > clock
    BY DEF LeaseHeld
  <2> QED
    BY <2>1
<1>2. Leased(globalLease) \subseteq Request /\ Leased(workloadLease) \subseteq Request
  BY DEF Leased
<1>3. Cardinality(ServingSet) <= GlobalLimit
  <2>1. /\ Cardinality(ServingSet) <= Cardinality(Leased(globalLease))
        /\ Cardinality(ServingSet) \in Nat /\ Cardinality(Leased(globalLease)) \in Nat
    BY <1>1, <1>2, SmallerLease
  <2> QED
    BY <2>1 DEF LeaseLimit
<1>4. ASSUME NEW w \in Workload
      PROVE  Cardinality(ServingSet \cap Limiter!Of(w)) <= WorkloadLimit[w]
  <2>1. ServingSet \cap Limiter!Of(w) \subseteq Leased(workloadLease) \cap InWorkload(w)
    BY <1>1 DEF Limiter!Of, InWorkload
  <2>2. Leased(workloadLease) \cap InWorkload(w) \subseteq Request
    BY <1>2
  <2>3. /\ Cardinality(ServingSet \cap Limiter!Of(w)) <= Cardinality(Leased(workloadLease) \cap InWorkload(w))
        /\ Cardinality(ServingSet \cap Limiter!Of(w)) \in Nat
        /\ Cardinality(Leased(workloadLease) \cap InWorkload(w)) \in Nat
    BY <2>1, <2>2, SmallerLease
  <2> QED
    BY <2>3 DEF LeaseLimit
<1>5. \A r, q \in ServingSet : PrincipalOf[r] = PrincipalOf[q] => r = q
  BY DEF ServingSet, LeaseHeld, Owns
<1> QED
  BY <1>3, <1>4, <1>5, SameCardinality DEF Limiter!WithinLimits

\* The promise the model servers rely on, for every value of the constants: a
\* request starts only within all three limits, and each step of the queue
\* starts one request, stops one, or changes nothing the servers can see.
THEOREM QueueImplementsLimiter == Prompt => (Spec => ImplementsLimiter)
<1> SUFFICES ASSUME Prompt PROVE Spec => ImplementsLimiter
  OBVIOUS
<1> USE ConstantsAssumption
<1>1. Init => ServingSet = {}
  BY DEF Init, ServingSet, Serving
<1>2. TypeOK /\ TypeOK' /\ LeaseHeld' /\ LeaseLimit' /\ [Next]_vars
        => [\E r \in Request : Limiter!Start(r) \/ Limiter!Stop(r)]_ServingSet
  <2> SUFFICES ASSUME TypeOK, TypeOK', LeaseHeld', LeaseLimit', [Next]_vars,
                      ServingSet' # ServingSet
               PROVE  \E r \in Request : Limiter!Start(r) \/ Limiter!Stop(r)
    OBVIOUS
  <2>1. PICK r \in Request : Step(r)
    BY DEF Next, Tick, Snapshot, clientVars, vars, ServingSet, Serving
  <2>2. \A q \in Request \ {r} : Serving(q)' <=> Serving(q)
    BY <2>1 DEF Step, Enqueue, Poll, TryAcquire, Grant, Refuse, Answered, CallFails, GiveUp,
       CancelEntry, RenewSend, RenewRun, RenewLost, RenewStop, Finish, Release, ReleaseLost,
       ContextDone, Crash, Goto, Serving, TypeOK
  <2>3. Limiter!WithinLimits(ServingSet)'
    BY ServingIsWithinLimits, PTL
  <2>4. CASE Serving(r)'
    <3>1. r \notin ServingSet
      <4>1. r \in ServingSet => \A q \in Request : Serving(q)' <=> Serving(q)
        BY <2>2, <2>4 DEF ServingSet
      <4>2. (\A q \in Request : Serving(q)' <=> Serving(q)) => ServingSet' = ServingSet
        BY Zenon DEF ServingSet
      <4> QED
        BY <4>1, <4>2
    <3>2. ServingSet' = ServingSet \cup {r}
      BY <2>2, <2>4, Zenon DEF ServingSet
    <3> QED
      BY <2>3, <3>1, <3>2 DEF Limiter!Start, ServingSet, Limiter!WithinLimits, Limiter!Of
  <2>5. CASE ~Serving(r)'
    <3>1. r \in ServingSet
      <4>1. r \notin ServingSet => \A q \in Request : Serving(q)' <=> Serving(q)
        BY <2>2, <2>5 DEF ServingSet
      <4>2. (\A q \in Request : Serving(q)' <=> Serving(q)) => ServingSet' = ServingSet
        BY Zenon DEF ServingSet
      <4> QED
        BY <4>1, <4>2
    <3>2. ServingSet' = ServingSet \ {r}
      BY <2>2, <2>5, Zenon DEF ServingSet
    <3> QED
      BY <3>1, <3>2 DEF Limiter!Stop, ServingSet
  <2> QED
    BY <2>4, <2>5
<1>3. QED
  BY <1>1, <1>2, TypeCorrect, LeaseNeverLapses, LeasesWithinLimits, PTL
     DEF Spec, ImplementsLimiter, Limiter!LimiterSpec, ServingSet

=============================================================================
