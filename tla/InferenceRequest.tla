--------------------------- MODULE InferenceRequest ---------------------------
(***************************************************************************)
(* The life of one metered request, from its admission to the return of its *)
(* handler: a chat (proxyLiteLLM), the chat of an account that waits for    *)
(* approval, a guest's chat (proxyGuestInference), and the generation of a  *)
(* file for a user or a guest (runUserCoreGeneration, runGuestCoreGenera-   *)
(* tion).  The handler holds a reservation in Redis, an open row in the     *)
(* ledger and a slot of the queue, and gives them back on every path in an  *)
(* order of its own, with the context of the request or with one that       *)
(* outlives it.  The chat of an account may first let the model plan which  *)
(* tools to use, and is charged for it.  The client may leave, and calls to *)
(* the stores may fail.                                                     *)
(***************************************************************************)
EXTENDS Naturals, Sequences

CONSTANT MaxFaults      \* bound: calls to Redis or the database that fail

ASSUME RequestAssumption == MaxFaults \in Nat

VARIABLES
  kind,          \* which handler
  at,            \* the next thing it does
  gates,         \* what admission still has to pass
  present,       \* the client is there: r.Context() is not over
  passed,        \* the gates passed
  held,          \* the reservation is in Redis
  entry,           \* the row of the ledger: [status, charge, plan]: the answer's
                 \* tokens, and whether it has those of the planning
  slot,          \* a slot of the queue is held
  planning,      \* runSmartToolLoop: its calls, and whether tokens were used
  upstream,      \* [via, streams, reply]: the call of the model
  settling,          \* the stores still to be called before it returns
  faults         \* calls that failed

requestVars == <<kind, at, gates, present, passed, held, entry, slot, planning, upstream, settling, faults>>

Kind == {"chat", "pending", "guest", "userFile", "guestFile"}
Chats == {"chat", "pending", "guest"}
Accounts == {"chat", "pending"}      \* the handler is proxyLiteLLM
Gate == {"research", "rate", "quota"}
Charge == {"nothing", "reported", "reserved"}
Ended == {"completed", "failed", "cancelled"}
RowStatus == {"none", "running"} \cup Ended
Reply == {"none", "error", "refused", "answered", "broken", "provider failed"}

\* What comes before the reservation: a guest's research is only done for a
\* request that passed quota and rate, an account's before either.
Gates(k) ==
  CASE k = "chat" -> <<"research", "quota">>
    [] k = "pending" -> <<"research", "rate", "quota">>
    [] k = "guest" -> <<"quota", "rate", "research">>
    [] OTHER -> <<"quota">>

\* A call to a store: finish writes the row, release takes the reservation
\* back; an outlives call is made with context.Background().
StoreCall == [op: {"finish"}, outlives: BOOLEAN, status: Ended, charge: Charge, plan: BOOLEAN]
        \cup [op: {"release"}, outlives: BOOLEAN]
FinishCall(outlives, status, charge, plan) ==
  [op |-> "finish", outlives |-> outlives, status |-> status, charge |-> charge, plan |-> plan]
ReleaseCall(outlives) == [op |-> "release", outlives |-> outlives]

RequestTypeOK ==
  /\ kind \in Kind
  /\ at \in {"admission", "reserve", "ledger", "queue", "tools", "model", "fallback", "reply", "settle", "returned"}
  /\ gates \in UNION {[1..n -> Gate] : n \in 0..3} /\ passed \subseteq Gate
  /\ present \in BOOLEAN /\ held \in BOOLEAN /\ slot \in BOOLEAN
  /\ entry \in [status: RowStatus, charge: Charge, plan: BOOLEAN]
  /\ planning \in [rounds: 0..2, spent: BOOLEAN]
  /\ upstream \in [via: {"none", "hermes", "litellm"}, streams: BOOLEAN, reply: Reply]
  /\ Len(settling) <= 2 /\ \A i \in 1..Len(settling) : settling[i] \in StoreCall
  /\ faults \in 0..MaxFaults

RequestInit ==
  /\ kind \in Kind
  /\ at = "admission" /\ gates = Gates(kind) /\ passed = {}
  /\ present = TRUE /\ held = FALSE /\ slot = FALSE
  /\ entry = [status |-> "none", charge |-> "nothing", plan |-> FALSE]
  /\ planning = [rounds |-> 0, spent |-> FALSE]
  /\ upstream = [via |-> "none", streams |-> FALSE, reply |-> "none"]
  /\ settling = <<>> /\ faults = 0

-----------------------------------------------------------------------------

RequesterLeaves ==
  /\ present /\ at # "returned"
  /\ present' = FALSE
  /\ UNCHANGED <<kind, at, gates, passed, held, entry, slot, planning, upstream, settling, faults>>

\* A call that the context of the request ends, or one that fails of itself.
FailsIf(outlives) ==
  \/ ~present /\ ~outlives /\ UNCHANGED faults
  \/ faults < MaxFaults /\ faults' = faults + 1
Works(outlives) == (present \/ outlives) /\ UNCHANGED faults

\* A gate refuses: nothing was taken yet, though the rate slot is spent.
Admit ==
  /\ at = "admission" /\ gates # <<>>
  /\ \/ /\ passed' = passed \cup {Head(gates)} /\ gates' = Tail(gates)
        /\ at' = IF Tail(gates) = <<>> THEN "reserve" ELSE at
     \/ at' = "returned" /\ UNCHANGED <<passed, gates>>
  /\ UNCHANGED <<kind, present, held, entry, slot, planning, upstream, settling, faults>>

\* reserveQuota: held, exhausted, or an error, with which the script may have
\* run all the same.
Reserve ==
  /\ at = "reserve"
  /\ \/ Works(FALSE) /\ held' = TRUE /\ at' = "ledger"
     \/ Works(FALSE) /\ at' = "returned" /\ UNCHANGED held
     \/ FailsIf(FALSE) /\ held' \in BOOLEAN /\ at' = "returned"
  /\ UNCHANGED <<kind, gates, present, passed, entry, slot, planning, upstream, settling>>

Settle(calls) == at' = "settle" /\ settling' = calls

\* StartUsageForPrincipal.
OpenRow ==
  /\ at = "ledger"
  /\ \/ /\ Works(FALSE) /\ entry' = [entry EXCEPT !.status = "running"]
        /\ at' = "queue" /\ UNCHANGED settling
     \/ /\ FailsIf(FALSE)
        /\ \E status \in {"none", "running"} : entry' = [entry EXCEPT !.status = status]
        /\ Settle(<<ReleaseCall(FALSE)>>)
  /\ UNCHANGED <<kind, gates, present, passed, held, slot, planning, upstream>>

\* queue.Acquire: a slot, a timeout, or the end of the context; a handler
\* without a queue, and a guest's generation without Hermes, give up here.
Acquire ==
  /\ at = "queue"
  /\ \/ /\ present /\ slot' = TRUE /\ UNCHANGED settling
        /\ at' = IF kind \in Accounts THEN "tools" ELSE "model"
     \/ /\ \E status \in IF kind \in Accounts THEN {"failed", "cancelled"} ELSE {"failed"} :
             Settle(<<ReleaseCall(TRUE), FinishCall(TRUE, status, "nothing", FALSE)>>)
        /\ UNCHANGED slot
     \/ /\ kind \notin {"guest", "guestFile"} /\ UNCHANGED slot
        /\ Settle(<<ReleaseCall(FALSE), FinishCall(FALSE, "failed", "nothing", FALSE)>>)
     \/ /\ kind = "guestFile" /\ slot' = TRUE
        /\ Settle(<<ReleaseCall(FALSE), FinishCall(FALSE, "failed", "nothing", FALSE)>>)
  /\ UNCHANGED <<kind, gates, present, passed, held, entry, planning, upstream, faults>>

\* No planning: Hermes is there to plan, the chat has researched, or nothing in
\* it asks for a tool.
SkipTools ==
  /\ at = "tools" /\ planning.rounds = 0
  /\ at' = "model"
  /\ UNCHANGED <<kind, gates, present, passed, held, entry, slot, planning, upstream, settling, faults>>

\* runSmartToolLoop asks LiteLLM at most twice: what the calls report is added
\* up, and a call that fails ends the planning and keeps the sum so far.
PlanTools ==
  /\ at = "tools" /\ planning.rounds < 2
  /\ \E answered \in {FALSE, present}, reported \in BOOLEAN :
       /\ planning' = [rounds |-> planning.rounds + 1, spent |-> planning.spent \/ (answered /\ reported)]
       /\ at' \in {"model"} \cup (IF answered /\ planning.rounds = 0 THEN {"tools"} ELSE {})
  /\ UNCHANGED <<kind, gates, present, passed, held, entry, slot, upstream, settling, faults>>

\* The reply of an upstream: an error, a refusal (400 and above), an answer,
\* or an answer that breaks off; a generation may fail inside of a 200.
Outcomes ==
  (IF present THEN {"error", "refused", "answered", "broken"} ELSE {"error"})
  \cup (IF present /\ kind \notin Chats THEN {"provider failed"} ELSE {})

\* doModelRequestWithRecovery.  Only the chats stream, unless they research; a
\* chat plans its tools when there is no Hermes to ask.
AskModel ==
  /\ at = "model"
  /\ \E via \in {"hermes", "litellm"}, reply \in Outcomes, streams \in BOOLEAN :
       /\ (streams => kind \in Chats) /\ (planning.rounds > 0 => via = "litellm")
       /\ upstream' = [via |-> via, streams |-> streams, reply |-> reply]
       /\ \/ at' = "reply"
          \/ via = "hermes" /\ kind \in Chats /\ reply \in {"error", "refused"} /\ at' = "fallback"
  /\ UNCHANGED <<kind, gates, present, passed, held, entry, slot, planning, settling, faults>>

\* shouldFallbackFromHermes: a chat asks LiteLLM once what Hermes failed.
FallBack ==
  /\ at = "fallback"
  /\ \E reply \in Outcomes :
       upstream' = [upstream EXCEPT !.via = "litellm", !.reply = reply]
  /\ at' = "reply"
  /\ UNCHANGED <<kind, gates, present, passed, held, entry, slot, planning, settling, faults>>

-----------------------------------------------------------------------------

\* An answer without a usage is charged what was reserved for it.
AnswerCharge == {"reported", "reserved"}

\* What was streamed is settled with a context of its own.
AfterStream(status, charge) == <<FinishCall(TRUE, status, charge, planning.spent), ReleaseCall(TRUE)>>

\* mutant: the reservation is given back first.
ReleaseFirst(status, charge) ==
  <<ReleaseCall(kind \notin Chats), FinishCall(kind \notin Chats, status, charge, planning.spent)>>

\* A chat settles a whole answer with the context of the request, a generation
\* does not; both write the charge before they give the reservation back.
AfterWhole(status, charge) ==
  <<FinishCall(kind \notin Chats, status, charge, planning.spent), ReleaseCall(kind \notin Chats)>>

\* No reply: only the planning is charged.
Unavailable ==
  /\ at = "reply" /\ upstream.reply = "error"
  /\ Settle(<<ReleaseCall(FALSE),
              FinishCall(TRUE, IF kind \in Accounts /\ ~present THEN "cancelled" ELSE "failed",
                         "nothing", planning.spent)>>)
  /\ UNCHANGED <<kind, gates, present, passed, held, entry, slot, planning, upstream, faults>>

\* copySSEWithUsage: a stream that breaks off, or that nobody reads to its
\* end, is cancelled and not charged, but for its planning.
Streamed ==
  /\ at = "reply" /\ upstream.streams /\ upstream.reply # "error"
  /\ IF upstream.reply = "broken" \/ ~present THEN Settle(AfterStream("cancelled", "nothing"))
     ELSE IF upstream.reply = "refused" THEN Settle(AfterStream("failed", "nothing"))
     ELSE \E charge \in AnswerCharge : Settle(AfterStream("completed", charge))
  /\ UNCHANGED <<kind, gates, present, passed, held, entry, slot, planning, upstream, faults>>

\* A whole answer: a chat charges its planning alone for one it cannot read or
\* that is refused, a generation what the reply reports unless it is refused.
Buffered ==
  /\ at = "reply" /\ ~upstream.streams /\ upstream.reply # "error"
  /\ CASE upstream.reply = "refused" -> Settle(AfterWhole("failed", "nothing"))
       [] upstream.reply = "answered" /\ present ->
            \E charge \in AnswerCharge : Settle(AfterWhole("completed", charge))
       [] OTHER ->
            IF kind \in Chats
            THEN Settle(<<ReleaseCall(FALSE), FinishCall(FALSE, "failed", "nothing", planning.spent)>>)
            ELSE \E charge \in {"nothing", "reported"} : Settle(AfterWhole("failed", charge))
  /\ UNCHANGED <<kind, gates, present, passed, held, entry, slot, planning, upstream, faults>>

\* FinishUsage updates the row that was opened.
Effect(call) ==
  IF call.op = "release" THEN held' = FALSE /\ UNCHANGED entry
  ELSE /\ entry' = IF entry.status = "running"
                   THEN [status |-> call.status, charge |-> call.charge, plan |-> call.plan] ELSE entry
       /\ UNCHANGED held

\* The next store: reached, or not, with or without an effect.
CallStore ==
  /\ at = "settle" /\ settling # <<>>
  /\ \/ Works(Head(settling).outlives) /\ Effect(Head(settling))
     \/ FailsIf(Head(settling).outlives) /\ UNCHANGED <<held, entry>>
     \/ faults < MaxFaults /\ faults' = faults + 1 /\ Effect(Head(settling))
  /\ settling' = Tail(settling)
  /\ UNCHANGED <<kind, at, gates, present, passed, slot, planning, upstream>>

\* The deferred ticket.Release; a slot it fails to give back lapses (see
\* InferenceQueue).
Return ==
  /\ at = "settle" /\ settling = <<>>
  /\ at' = "returned"
  /\ \/ slot' = FALSE /\ UNCHANGED faults
     \/ slot /\ faults < MaxFaults /\ faults' = faults + 1 /\ UNCHANGED slot
  /\ UNCHANGED <<kind, gates, present, passed, held, entry, planning, upstream, settling>>

RequestNext ==
  \/ RequesterLeaves \/ Admit \/ Reserve \/ OpenRow \/ Acquire \/ SkipTools \/ PlanTools \/ AskModel \/ FallBack
  \/ Unavailable \/ Streamed \/ Buffered \/ CallStore \/ Return

RequestSpec == RequestInit /\ [][RequestNext]_requestVars

-----------------------------------------------------------------------------

Clean == ~held /\ ~slot /\ entry.status # "running"
Returned == at = "returned" /\ faults = 0

\* Every path out of every handler gives back all that it took, as long as the
\* client stays and the stores answer.
SettlesUnlessGone == Returned /\ present => Clean

\* What was streamed, and the answer of a generation, is settled though the
\* client may be gone: those paths do not use the context of the request.
StreamsSettle ==
  Returned /\ upstream.reply \notin {"none", "error"} /\ (upstream.streams \/ kind \notin Chats) => Clean

\* Who gets an answer is charged for it, by its usage or by what was reserved; a
\* chat that got none is not charged for an answer; and the row of a chat that
\* was closed has what its planning used, whether an answer came of it or not.
AnswersArePaid ==
  Returned =>
    /\ present /\ upstream.reply = "answered" => entry.status = "completed" /\ entry.charge # "nothing"
    /\ kind \in Chats /\ upstream.reply # "answered" => entry.charge = "nothing"
    /\ entry.status \in Ended => entry.plan = planning.spent

\* From the answer to the return of its handler the tokens are counted in the
\* reservation or in the ledger, whatever the client does; only a cancelled or
\* failed request is in neither.
CoveredUntilCharged ==
  (faults = 0 /\ upstream.reply = "answered" /\ at \in {"reply", "settle", "returned"})
  => held \/ entry.charge # "nothing" \/ entry.status \in {"cancelled", "failed"}

\* The five handlers give back what they took, and charge what they served.
RequestIsSettled == SettlesUnlessGone /\ StreamsSettle /\ AnswersArePaid /\ CoveredUntilCharged

=============================================================================
