-------------------------- MODULE QuotaReservation --------------------------
(***************************************************************************)
(* The token quota of one user over its parallel windows: evaluateQuota,   *)
(* reserveQuota, releaseReservation and the quota resets of                *)
(* cmd/api/access.go, in the order in which proxyLiteLLM (cmd/api/main.go) *)
(* calls them around an inference.                                         *)
(*                                                                         *)
(* A request reads what the ledger says is used (PostgreSQL), reserves     *)
(* part of the headroom of every window in one Lua script (Redis), enters  *)
(* its ledger row, is served, then finishes its row and gives the          *)
(* reservation back.  Each of these is a call of its own; some are made    *)
(* under the request's context and are lost when the client has left.      *)
(***************************************************************************)
EXTENDS Integers, Sequences, FiniteSets, FiniteSetsExt

CONSTANTS
  Request, Window,
  Limit,        \* tokens per window
  Amount,       \* reservationTokens of each request
  Reported,     \* bound: the token counts a model may report
  KeyTTL,       \* EXPIRE of the Redis keys, in ticks: more than a request lasts
  LastStart,    \* bound: no request begins after this instant
  MaxClock,     \* bound on the clock
  MaxEpoch,     \* bound: how often the start of a window moves
  Moving,       \* bound: the windows that start anew by themselves
  Credits,      \* the reset credits of the user
  AdminResets,  \* whether an administrator resets the quota
  Faulty        \* whether calls of PostgreSQL and Redis may fail on their own

ASSUME QuotaAssumption ==
  /\ IsFiniteSet(Request) /\ IsFiniteSet(Window)
  /\ Limit \in [Window -> Nat] /\ Amount \in [Request -> Nat \ {0}]
  /\ Reported \subseteq Nat \ {0}
  /\ KeyTTL \in Nat \ {0, 1} /\ LastStart \in Nat /\ MaxClock \in Nat /\ MaxEpoch \in Nat /\ Credits \in Nat
  /\ Moving \subseteq Window
  /\ AdminResets \in BOOLEAN /\ Faulty \in BOOLEAN

VARIABLES
  clock,
  epoch,         \* per window: how often WindowStart has moved
  pc, live,      \* per request: where its handler is; its context is not done
  begun,         \* the clock when the handler began
  measured,      \* the windows whose usage evaluateQuota has read
  used, seen,    \* the decision: usage of each window, and its WindowStart
  todo,          \* what the handler still has to do when the inference is over
  detached,      \* which of it runs under context.Background()
  outcome, charge,  \* the status and tokens it will write
  row, tokens,   \* the ledger: status and total_tokens
  startedIn,     \* started_at, as the epoch of each window
  pending, pendingExpiry,          \* quota:pending per window and WindowStart
  reservation, reservationExpiry,  \* quota:reservation per request and window
  blocked,       \* quota:blocked
  resetter, credits

decision == <<measured, used, seen>>
ending == <<todo, detached, outcome, charge>>
handler == <<pc, live, begun, decision, ending>>
ledger == <<row, tokens, startedIn>>
runtime == <<pending, pendingExpiry, reservation, reservationExpiry>>
resets == <<epoch, resetter, credits>>
vars == <<clock, handler, ledger, runtime, blocked, resets>>

Epoch == 0..MaxEpoch
Rows == {"none", "reserved", "completed", "cancelled", "failed"}

TypeOK ==
  /\ clock \in Nat
  /\ epoch \in [Window -> Epoch]
  /\ pc \in [Request -> {"new", "measuring", "measured", "reserved", "started", "serving", "ending", "over"}]
  /\ live \in [Request -> BOOLEAN]
  /\ begun \in [Request -> Nat]
  /\ measured \in [Request -> SUBSET Window]
  /\ used \in [Request -> [Window -> Nat]] /\ seen \in [Request -> [Window -> Epoch]]
  /\ todo \in [Request -> Seq({"release", "finish"})]
  /\ detached \in [Request -> SUBSET {"release", "finish"}]
  /\ outcome \in [Request -> Rows] /\ charge \in [Request -> Nat]
  /\ row \in [Request -> Rows] /\ tokens \in [Request -> Nat]
  /\ startedIn \in [Request -> [Window -> Epoch]]
  /\ pending \in [Window -> [Epoch -> Nat]]
  /\ pendingExpiry \in [Window -> [Epoch -> Nat]]
  /\ reservation \in [Request -> [Window -> Nat]]
  /\ reservationExpiry \in [Request -> Nat]
  /\ blocked \in BOOLEAN
  /\ resetter \in {"idle", "checked", "redeemed", "cleared"}
  /\ credits \in 0..Credits

Zero == [w \in Window |-> 0]

Init ==
  /\ clock = 0
  /\ epoch = Zero
  /\ pc = [q \in Request |-> "new"]
  /\ live = [q \in Request |-> TRUE]
  /\ begun = [q \in Request |-> 0]
  /\ measured = [q \in Request |-> {}]
  /\ used = [q \in Request |-> Zero] /\ seen = [q \in Request |-> Zero]
  /\ todo = [q \in Request |-> <<>>]
  /\ detached = [q \in Request |-> {}]
  /\ outcome = [q \in Request |-> "none"] /\ charge = [q \in Request |-> 0]
  /\ row = [q \in Request |-> "none"] /\ tokens = [q \in Request |-> 0]
  /\ startedIn = [q \in Request |-> Zero]
  /\ pending = [w \in Window |-> [k \in Epoch |-> 0]]
  /\ pendingExpiry = [w \in Window |-> [k \in Epoch |-> 0]]
  /\ reservation = [q \in Request |-> Zero]
  /\ reservationExpiry = [q \in Request |-> 0]
  /\ blocked = FALSE
  /\ resetter = "idle" /\ credits = Credits

-----------------------------------------------------------------------------
(* What the calls read.                                                    *)

\* UsageSummaryForUser: completed rows that started in the window.
Counted(w, k) == {q \in Request : row[q] = "completed" /\ startedIn[q][w] >= k}
UsedTokens(w, k) == SumFunctionOnSet(tokens, Counted(w, k))

\* What the requests with a reservation key hold of a window.
Held(w, k) == SumFunction([q \in Request |-> IF seen[q][w] = k THEN reservation[q][w] ELSE 0])

Exhausted(usage) == \E w \in Window : usage[w] >= Limit[w]

Goto(q, step) ==
  /\ pc' = [pc EXCEPT ![q] = step]
  /\ UNCHANGED <<live, begun, measured, used>>

\* The handler returns: its context ends and what it read is forgotten (begun and
\* seen are left, for HeadroomLapses).
Return(q) ==
  /\ pc' = [pc EXCEPT ![q] = "over"]
  /\ live' = [live EXCEPT ![q] = FALSE]
  /\ begun' = begun
  /\ measured' = [measured EXCEPT ![q] = {}]
  /\ used' = [used EXCEPT ![q] = Zero]
  /\ todo' = [todo EXCEPT ![q] = <<>>]
  /\ detached' = [detached EXCEPT ![q] = {}]
  /\ outcome' = [outcome EXCEPT ![q] = "none"]
  /\ charge' = [charge EXCEPT ![q] = 0]

-----------------------------------------------------------------------------
(* Admission.                                                              *)

\* quotaFor takes the start of every window at once and then reads the usage of
\* one window after the other.
BeginQuota(q) ==
  /\ pc[q] = "new" /\ clock <= LastStart
  /\ seen' = [seen EXCEPT ![q] = epoch]
  /\ begun' = [begun EXCEPT ![q] = clock]
  /\ pc' = [pc EXCEPT ![q] = "measuring"]
  /\ UNCHANGED <<clock, live, measured, used, ending, ledger, runtime, blocked, resets>>

Measure(q) ==
  /\ pc[q] = "measuring"
  /\ \E w \in Window \ measured[q] :
       /\ used' = [used EXCEPT ![q][w] = UsedTokens(w, seen[q][w])]
       /\ measured' = [measured EXCEPT ![q] = @ \cup {w}]
  /\ pc' = [pc EXCEPT ![q] = IF measured'[q] = Window THEN "measured" ELSE @]
  /\ UNCHANGED <<clock, live, begun, seen, ending, ledger, runtime, blocked, resets>>

\* quotaFor fails, or policyAllowsModel refuses the model.
Deny(q) ==
  /\ pc[q] \in {"measuring", "measured"}
  /\ Return(q)
  /\ UNCHANGED <<clock, seen, ledger, runtime, blocked, resets>>

HeadroomOfLedger(q, w) == Limit[w] - used[q][w]   \* mutant: pending is not read

Headroom(q, w) == Limit[w] - used[q][w] - pending[w][seen[q][w]]

FreeSomewhere(q) == \E w \in Window : Headroom(q, w) > 0   \* mutant

Free(q) == \A w \in Window : Headroom(q, w) > 0

\* The reserve script: nothing unless every window has headroom, then from each
\* window at most its headroom.
ReserveScript(q) ==
  LET share == [w \in Window |->
                  IF Amount[q] < Headroom(q, w) THEN Amount[q] ELSE Headroom(q, w)]
  IN
  /\ pending' = [w \in Window |-> [pending[w] EXCEPT ![seen[q][w]] = @ + share[w]]]
  /\ pendingExpiry' = [w \in Window |->
                         [pendingExpiry[w] EXCEPT ![seen[q][w]] = clock + KeyTTL]]
  /\ reservation' = [reservation EXCEPT ![q] = share]
  /\ reservationExpiry' = [reservationExpiry EXCEPT ![q] = clock + KeyTTL]

\* A blocked decision, or no headroom: the request is refused.
Refused(q) == Exhausted(used[q]) \/ ~Free(q)

\* reserveQuota and the call that follows it: the blocked key, which only
\* useQuotaReset reads, is deleted or set.  The answer of a script that has run
\* may be lost.
Reserve(q) ==
  /\ pc[q] = "measured"
  /\ \/ /\ ~Refused(q) /\ live[q]
        /\ ReserveScript(q)
        /\ Goto(q, "reserved")
        /\ blocked' = FALSE
        /\ UNCHANGED ending
     \/ /\ Refused(q) /\ live[q]
        /\ Return(q)
        /\ blocked' = TRUE
        /\ UNCHANGED runtime
     \/ /\ Faulty \/ ~live[q]
        /\ \/ ~Refused(q) /\ ReserveScript(q)
           \/ UNCHANGED runtime
        /\ Return(q)
        /\ UNCHANGED blocked
  /\ UNCHANGED <<clock, seen, ledger, resets>>

-----------------------------------------------------------------------------
(* The rest of the handler.                                                *)

\* The handler ends by doing the steps of order, those in free under a context
\* of their own.
End(q, order, free, status, n) ==
  /\ Goto(q, "ending")
  /\ todo' = [todo EXCEPT ![q] = order]
  /\ detached' = [detached EXCEPT ![q] = free]
  /\ outcome' = [outcome EXCEPT ![q] = status]
  /\ charge' = [charge EXCEPT ![q] = n]

\* StartUsageForPrincipal; when it fails the reservation is given back.
StartUsage(q) ==
  /\ pc[q] = "reserved"
  /\ \/ /\ live[q]
        /\ row' = [row EXCEPT ![q] = "reserved"]
        /\ startedIn' = [startedIn EXCEPT ![q] = epoch]
        /\ Goto(q, "started")
        /\ UNCHANGED ending
     \/ /\ Faulty \/ ~live[q]
        /\ End(q, <<"release">>, {}, "none", 0)
        /\ UNCHANGED <<row, startedIn>>
  /\ UNCHANGED <<clock, seen, tokens, runtime, blocked, resets>>

\* The inference queue grants a lease, or fails or times out.
Acquire(q) ==
  /\ pc[q] = "started"
  /\ \/ Goto(q, "serving") /\ UNCHANGED ending
     \/ \E status \in {"cancelled", "failed"} :
          End(q, <<"release", "finish">>, {"release", "finish"}, status, 0)
  /\ UNCHANGED <<clock, seen, ledger, runtime, blocked, resets>>

\* The tokens a served request is charged: those reported, or else its estimate.
Charges(q) == Reported \cup {Amount[q]}

\* A streamed response, which may break off: the row is finished before the
\* reservation is released.
Stream(q) ==
  LET order == <<"finish", "release">> IN
  /\ pc[q] = "serving"
  /\ \/ live[q] /\ \E n \in Charges(q) : End(q, order, {"release", "finish"}, "completed", n)
     \/ End(q, order, {"release", "finish"}, "cancelled", 0)
     \/ live[q] /\ End(q, order, {"release", "finish"}, "failed", 0)
  /\ UNCHANGED <<clock, seen, ledger, runtime, blocked, resets>>

BufferReleasedFirst(q) ==   \* mutant: released before the row is finished
  /\ pc[q] = "serving" /\ live[q]
  /\ \/ \E n \in Charges(q) : End(q, <<"release", "finish">>, {}, "completed", n)
     \/ End(q, <<"release", "finish">>, {}, "failed", 0)
  /\ UNCHANGED <<clock, seen, ledger, runtime, blocked, resets>>

\* A buffered response that has been read: the same under the request's context.
Buffer(q) ==
  /\ pc[q] = "serving" /\ live[q]
  /\ \/ \E n \in Charges(q) : End(q, <<"finish", "release">>, {}, "completed", n)
     \/ End(q, <<"finish", "release">>, {}, "failed", 0)
  /\ UNCHANGED <<clock, seen, ledger, runtime, blocked, resets>>

\* No response: the reservation first, under the request's context.
UpstreamError(q) ==
  /\ pc[q] = "serving"
  /\ End(q, <<"release", "finish">>, {"finish"}, IF live[q] THEN "failed" ELSE "cancelled", 0)
  /\ UNCHANGED <<clock, seen, ledger, runtime, blocked, resets>>

\* A response that breaks off while it is read.
ReadError(q) ==
  /\ pc[q] = "serving"
  /\ End(q, <<"release", "finish">>, {}, "failed", 0)
  /\ UNCHANGED <<clock, seen, ledger, runtime, blocked, resets>>

Advance(q) ==
  IF Len(todo[q]) = 1 THEN Return(q)
  ELSE /\ todo' = [todo EXCEPT ![q] = Tail(@)]
       /\ Goto(q, "ending")
       /\ UNCHANGED <<detached, outcome, charge>>

Reaches(q, step) == live[q] \/ step \in detached[q]

ReleaseEstimate(q) ==   \* mutant: the estimate is subtracted, not the reservation
  LET left == [w \in Window |-> pending[w][seen[q][w]] - Amount[q]] IN
  /\ pending' = [w \in Window |->
       [pending[w] EXCEPT ![seen[q][w]] = IF left[w] <= 0 THEN 0 ELSE left[w]]]
  /\ pendingExpiry' = [w \in Window |->
       [pendingExpiry[w] EXCEPT ![seen[q][w]] = IF left[w] <= 0 THEN 0 ELSE clock + KeyTTL]]
  /\ reservation' = [reservation EXCEPT ![q] = Zero]
  /\ reservationExpiry' = [reservationExpiry EXCEPT ![q] = 0]

ReleaseForEver(q) ==   \* mutant: SET without EX
  LET left == [w \in Window |-> pending[w][seen[q][w]] - reservation[q][w]] IN
  /\ pending' = [w \in Window |->
       [pending[w] EXCEPT ![seen[q][w]] = IF left[w] <= 0 THEN 0 ELSE left[w]]]
  /\ pendingExpiry' = [w \in Window |->
       [pendingExpiry[w] EXCEPT ![seen[q][w]] = IF left[w] <= 0 THEN 0 ELSE MaxClock + 1]]
  /\ reservation' = [reservation EXCEPT ![q] = Zero]
  /\ reservationExpiry' = [reservationExpiry EXCEPT ![q] = 0]

\* The release script: what the request reserved is taken off each window.
ReleaseScript(q) ==
  LET left == [w \in Window |-> pending[w][seen[q][w]] - reservation[q][w]] IN
  /\ pending' = [w \in Window |->
       [pending[w] EXCEPT ![seen[q][w]] = IF left[w] <= 0 THEN 0 ELSE left[w]]]
  /\ pendingExpiry' = [w \in Window |->
       [pendingExpiry[w] EXCEPT ![seen[q][w]] = IF left[w] <= 0 THEN 0 ELSE clock + KeyTTL]]
  /\ reservation' = [reservation EXCEPT ![q] = Zero]
  /\ reservationExpiry' = [reservationExpiry EXCEPT ![q] = 0]

\* releaseReservation; its error is dropped.
Release(q) ==
  /\ pc[q] = "ending" /\ Head(todo[q]) = "release"
  /\ \/ Reaches(q, "release") /\ ReleaseScript(q)
     \/ (Faulty \/ ~Reaches(q, "release")) /\ UNCHANGED runtime
  /\ Advance(q)
  /\ UNCHANGED <<clock, seen, ledger, blocked, resets>>

\* FinishUsage; its error is dropped.
Finish(q) ==
  /\ pc[q] = "ending" /\ Head(todo[q]) = "finish"
  /\ \/ /\ Reaches(q, "finish")
        /\ row' = [row EXCEPT ![q] = outcome[q]]
        /\ tokens' = [tokens EXCEPT ![q] = charge[q]]
     \/ (Faulty \/ ~Reaches(q, "finish")) /\ UNCHANGED <<row, tokens>>
  /\ Advance(q)
  /\ UNCHANGED <<clock, seen, startedIn, runtime, blocked, resets>>

-----------------------------------------------------------------------------
(* Quota resets.                                                           *)

\* useQuotaReset: the quota has to be exhausted, or a request refused.
CheckReset ==
  /\ resetter = "idle"
  /\ blocked \/ Exhausted([w \in Window |-> UsedTokens(w, epoch[w])])
  /\ resetter' = "checked"
  /\ UNCHANGED <<clock, handler, ledger, runtime, blocked, epoch, credits>>

\* UseQuotaResetCredit: a credit becomes a reset event, where windows now start.
Redeem ==
  /\ resetter = "checked" /\ credits > 0
  /\ \A w \in Window : epoch[w] < MaxEpoch
  /\ credits' = credits - 1
  /\ epoch' = [w \in Window |-> epoch[w] + 1]
  /\ resetter' = "redeemed"
  /\ UNCHANGED <<clock, handler, ledger, runtime, blocked>>

\* There is no credit left, or the transaction fails.
RefuseReset ==
  /\ resetter = "checked"
  /\ credits = 0 \/ Faulty
  /\ resetter' = "idle"
  /\ UNCHANGED <<clock, handler, ledger, runtime, blocked, epoch, credits>>

\* adminResetUserQuota: a reset event without a credit, at any time.
AdminReset ==
  /\ AdminResets /\ resetter = "idle"
  /\ \A w \in Window : epoch[w] < MaxEpoch
  /\ epoch' = [w \in Window |-> epoch[w] + 1]
  /\ resetter' = "redeemed"
  /\ UNCHANGED <<clock, handler, ledger, runtime, blocked, credits>>

\* clearUserQuotaRuntimeState: first the pending counters, as far as the scan
\* gets ...
ClearPending ==
  /\ resetter = "redeemed"
  /\ \/ /\ pending' = [w \in Window |-> [k \in Epoch |-> 0]]
        /\ pendingExpiry' = [w \in Window |-> [k \in Epoch |-> 0]]
     \/ Faulty /\ UNCHANGED <<pending, pendingExpiry>>
  /\ resetter' = "cleared"
  /\ UNCHANGED <<clock, handler, ledger, reservation, reservationExpiry, blocked, epoch, credits>>

\* ... then the reservations and the rest.
ClearReservations ==
  /\ resetter = "cleared"
  /\ \/ /\ reservation' = [q \in Request |-> Zero]
        /\ reservationExpiry' = [q \in Request |-> 0]
        /\ blocked' = FALSE
     \/ Faulty /\ UNCHANGED <<reservation, reservationExpiry, blocked>>
  /\ resetter' = "idle"
  /\ UNCHANGED <<clock, handler, ledger, pending, pendingExpiry, epoch, credits>>

-----------------------------------------------------------------------------
(* The environment.                                                        *)

Busy(q) == pc[q] \notin {"new", "over"}

\* The client leaves, or the request times out.
ContextDone(q) ==
  /\ live[q] /\ Busy(q)
  /\ live' = [live EXCEPT ![q] = FALSE]
  /\ UNCHANGED <<clock, pc, begun, decision, ending, ledger, runtime, blocked, resets>>

\* The server dies under a request.
Crash(q) ==
  /\ Busy(q)
  /\ Return(q)
  /\ UNCHANGED <<clock, seen, ledger, runtime, blocked, resets>>

\* A window starts anew.
Roll(w) ==
  /\ w \in Moving /\ epoch[w] < MaxEpoch
  /\ epoch' = [epoch EXCEPT ![w] = @ + 1]
  /\ UNCHANGED <<clock, handler, ledger, runtime, blocked, resetter, credits>>

\* Time passes and Redis drops the keys that expire.  No request is as old as a
\* key can be: the server's timeouts are minutes, the keys live an hour.
Tick ==
  /\ clock < MaxClock
  /\ \A q \in Request : Busy(q) => clock + 1 < begun[q] + KeyTTL
  /\ clock' = clock + 1
  /\ pending' = [w \in Window |-> [k \in Epoch |->
                   IF pendingExpiry[w][k] <= clock + 1 THEN 0 ELSE pending[w][k]]]
  /\ reservation' = [q \in Request |->
                       IF reservationExpiry[q] <= clock + 1 THEN Zero ELSE reservation[q]]
  /\ UNCHANGED <<handler, ledger, pendingExpiry, reservationExpiry, blocked, resets>>

Serve(q) ==
  \/ BeginQuota(q) \/ Measure(q) \/ Deny(q) \/ Reserve(q) \/ StartUsage(q) \/ Acquire(q)
  \/ Stream(q) \/ Buffer(q) \/ UpstreamError(q) \/ ReadError(q)
  \/ Release(q) \/ Finish(q)

Reset == CheckReset \/ Redeem \/ RefuseReset \/ AdminReset \/ ClearPending \/ ClearReservations

Next ==
  \/ \E q \in Request : Serve(q) \/ ContextDone(q) \/ Crash(q)
  \/ \E w \in Window : Roll(w)
  \/ Reset \/ Tick

Spec == Init /\ [][Next]_vars

\* A request that has begun goes on, and time passes.
FairSpec ==
  /\ Spec
  /\ \A q \in Request : WF_vars(pc[q] # "new" /\ Serve(q))
  /\ WF_vars(Tick)

-----------------------------------------------------------------------------
(* Properties.                                                             *)

\* Without resets: a pending counter never falls below what the reservations in
\* its window hold, through crashes, lost releases, expiring keys and moving
\* windows: no release subtracts what another request reserved.
PendingCoversReservations ==
  \A w \in Window, k \in Epoch : pending[w][k] >= Held(w, k)

\* Calls that reach their store: a request that was served is counted at every
\* moment until its handler is over, as a reservation or as a completed row.
NeverUncounted ==
  \A q \in Request :
    pc[q] = "ending" /\ outcome[q] = "completed" =>
      row[q] = "completed" \/ \A w \in Window : reservation[q][w] > 0

\* Without resets: a reservation made while the ledger still says what the
\* decision read keeps usage and reservations within every window's limit.
ReservesWithinLimit ==
  [][\A q \in Request :
       pc[q] = "measured" /\ pc'[q] = "reserved" =>
         \A w \in Window :
           UsedTokens(w, seen[q][w]) = used[q][w] =>
             UsedTokens(w, seen[q][w]) + Held(w, seen[q][w])' <= Limit[w]]_vars

\* Whatever happened to the requests, and although every request renews the
\* expiry of the counter it uses, in the end nothing is pending.
HeadroomReturns == <>[](\A w \in Window, k \in Epoch : pending[w][k] = 0)

\* A counter lapses two key lives after the last request of its window start
\* began, crashes, lost releases and resets included.  What a crashed request had
\* reserved is counted until then, so later requests of the same start, each of
\* which renews the counter's EXPIRE, can keep it pending; requests of another
\* start, and those that ended long ago, cannot.
HeadroomLapses ==
  \A w \in Window, k \in Epoch :
    pending[w][k] > 0 =>
      \E q \in Request :
        /\ pc[q] # "new" /\ seen[q][w] = k
        /\ clock < begun[q] + 2 * KeyTTL - 1

\* Without resets: pending counters are never below the reservations, and above
\* them only for as long as recent requests of the same window start renew them.
PendingTracksReservations == PendingCoversReservations /\ HeadroomLapses

\* README.md:12: token entitlements are enforced before inference: no request is
\* admitted to a window that completed usage has already exhausted.
AdmittedWithinQuota ==
  [][\A q \in Request :
       pc[q] = "measured" /\ pc'[q] = "reserved" =>
         \A w \in Window : UsedTokens(w, seen[q][w]) < Limit[w]]_vars

=============================================================================
