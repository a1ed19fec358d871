--------------------------- MODULE ServingProofs ---------------------------
(***************************************************************************)
(* Proofs about the services a request passes: how a handler settles what  *)
(* it took, the daily numbers and the rates of guests, the storage of      *)
(* attachments, the bucket of a model, and research: its stages and the    *)
(* rows of its lookups.                                                    *)
(***************************************************************************)
EXTENDS InferenceRequest, GuestCapability, GuestRate, AttachmentStorage, TokenBucket,
        ResearchPipeline, ResearchLookup, SumTheorems, SequenceTheorems, FiniteSetTheorems, TLAPS

-----------------------------------------------------------------------------
(* The life of a request.                                                  *)

\* The conditions of the ledger's row that end the need for a reservation.
IsSettled(status, charge) == charge # "nothing" \/ status \in {"cancelled", "failed"}

\* What a handler has taken before it settles.
TakenInv ==
  /\ entry.status = "running" => entry.charge = "nothing"
  /\ at # "settle" => settling = <<>>
  /\ at \in {"admission", "reserve"} => ~held
  /\ at \in {"ledger", "queue", "tools", "model", "fallback", "reply"} => held
  /\ at \in {"admission", "reserve", "ledger"} => entry.status = "none" /\ entry.charge = "nothing"
  /\ at \in {"queue", "tools", "model", "fallback", "reply"} => entry.status = "running"
  /\ at \in {"admission", "reserve", "ledger", "queue", "returned"} => ~slot
  /\ at \in {"admission", "reserve", "ledger", "queue", "tools", "model"} => upstream.reply = "none" /\ ~upstream.streams
  /\ at \in {"admission", "reserve", "ledger", "queue"} => planning.spent = FALSE
  /\ at \in {"fallback", "reply"} => upstream.reply # "none"
  /\ at = "fallback" => kind \in Chats
  /\ upstream.streams => kind \in Chats
  /\ kind \in Chats => upstream.reply # "provider failed"

\* As long as the client is there, what is held and open is about to be given
\* back and finished.
GivesBackInv ==
  present =>
    /\ held => \E i \in 1..Len(settling) : settling[i].op = "release"
    /\ entry.status = "running" => \E i \in 1..Len(settling) : settling[i].op = "finish"

\* A stream, and the answer of a generation, outlast the client.
Outlasts == upstream.reply \notin {"none", "error"} /\ (upstream.streams \/ kind \notin Chats)

\* After them also without the client.
StreamInv ==
  Outlasts =>
    /\ held => \E i \in 1..Len(settling) : settling[i].op = "release" /\ settling[i].outlives
    /\ entry.status = "running" => \E i \in 1..Len(settling) : settling[i].op = "finish" /\ settling[i].outlives

\* An answer is charged, or about to be.
PaidInv ==
  present /\ upstream.reply = "answered" =>
    \/ entry.status = "completed" /\ entry.charge # "nothing"
    \/ /\ entry.status = "running"
       /\ \E i \in 1..Len(settling) : settling[i].op = "finish"
       /\ \A i \in 1..Len(settling) :
            settling[i].op = "finish" => settling[i].status = "completed" /\ settling[i].charge # "nothing"

\* A chat without an answer is not.
UnpaidInv ==
  kind \in Chats /\ upstream.reply # "answered" =>
    /\ entry.charge = "nothing"
    /\ \A i \in 1..Len(settling) : settling[i].op = "finish" => settling[i].charge = "nothing"

\* A row that is closed, or about to be, has what the planning used.
PlanInv ==
  /\ entry.status \in Ended => entry.plan = planning.spent
  /\ \A i \in 1..Len(settling) : settling[i].op = "finish" => settling[i].plan = planning.spent

\* The tokens of an answer are reserved until its row is written: the row comes
\* first, or neither call is reached any more.
CoveredInv ==
  upstream.reply = "answered" =>
    \/ IsSettled(entry.status, entry.charge)
    \/ /\ held /\ entry.status = "running"
       /\ \/ settling = <<>>
          \/ ~present /\ \A i \in 1..Len(settling) : ~settling[i].outlives
          \/ /\ Len(settling) = 2 /\ settling[1].op = "finish" /\ settling[2].op = "release"
             /\ IsSettled(settling[1].status, settling[1].charge)
             /\ settling[1].outlives = settling[2].outlives

SettlesInv ==
  at \in {"settle", "returned"} => GivesBackInv /\ StreamInv /\ PaidInv /\ UnpaidInv /\ PlanInv /\ CoveredInv

RequestInv ==
  /\ RequestTypeOK /\ gates \in Seq(Gate) /\ settling \in Seq(StoreCall)
  /\ faults = 0 => TakenInv /\ SettlesInv

\* Sequences of one call.
LEMMA OneCall ==
  ASSUME NEW x \in StoreCall
  PROVE  <<x>> \in Seq(StoreCall) /\ Len(<<x>>) = 1 /\ <<x>>[1] = x
OBVIOUS

\* Sequences of two calls.
LEMMA TwoCalls ==
  ASSUME NEW x \in StoreCall, NEW y \in StoreCall
  PROVE  <<x, y>> \in Seq(StoreCall) /\ Len(<<x, y>>) = 2 /\ <<x, y>>[1] = x /\ <<x, y>>[2] = y
OBVIOUS

\* A call to a store is one of the two kinds.
LEMMA Calls ==
  /\ \A b \in BOOLEAN, s \in Ended, c \in Charge, p \in BOOLEAN :
       /\ FinishCall(b, s, c, p) \in StoreCall /\ FinishCall(b, s, c, p).op = "finish"
       /\ FinishCall(b, s, c, p).outlives = b /\ FinishCall(b, s, c, p).status = s
       /\ FinishCall(b, s, c, p).charge = c /\ FinishCall(b, s, c, p).plan = p
  /\ \A b \in BOOLEAN : ReleaseCall(b) \in StoreCall /\ ReleaseCall(b).op = "release" /\ ReleaseCall(b).outlives = b
  /\ \A call \in StoreCall :
       /\ call.outlives \in BOOLEAN /\ call.op \in {"finish", "release"}
       /\ call.op = "finish" => call.status \in Ended /\ call.charge \in Charge /\ call.plan \in BOOLEAN
BY DEF FinishCall, ReleaseCall, StoreCall

\* The gates of a handler.
LEMMA GatesTyped ==
  ASSUME NEW k \in Kind
  PROVE  Gates(k) \in Seq(Gate) /\ Len(Gates(k)) \in 0..3
<1>1. CASE k = "chat"
  BY <1>1 DEF Gates, Gate
<1>2. CASE k = "pending"
  BY <1>2 DEF Gates, Gate
<1>3. CASE k = "guest"
  BY <1>3 DEF Gates, Gate
<1>4. CASE k \in {"userFile", "guestFile"}
  <2>1. Gates(k) = <<"quota">>
    BY <1>4 DEF Gates
  <2> QED
    BY <2>1 DEF Gate
<1> QED
  BY <1>1, <1>2, <1>3, <1>4 DEF Kind

\* A sequence of gates is a function on the first numbers.
LEMMA GatesAreFunctions ==
  ASSUME NEW s \in Seq(Gate), Len(s) \in 0..3
  PROVE  s \in UNION {[1..n -> Gate] : n \in 0..3}
<1>1. s \in [1..Len(s) -> Gate]
  BY LenProperties, ElementOfSeq
<1> QED
  BY <1>1

\* The types, one conjunct each.
LEMMA RequestTypes ==
  ASSUME RequestInv
  PROVE  /\ kind \in Kind
         /\ at \in {"admission", "reserve", "ledger", "queue", "tools", "model", "fallback", "reply", "settle", "returned"}
         /\ gates \in Seq(Gate) /\ Len(gates) \in 0..3 /\ passed \in SUBSET Gate
         /\ present \in BOOLEAN /\ held \in BOOLEAN /\ slot \in BOOLEAN
         /\ entry \in [status: RowStatus, charge: Charge, plan: BOOLEAN]
         /\ planning \in [rounds: 0..2, spent: BOOLEAN]
         /\ upstream \in [via: {"none", "hermes", "litellm"}, streams: BOOLEAN, reply: Reply]
         /\ settling \in Seq(StoreCall) /\ Len(settling) \in 0..2 /\ \A i \in 1..Len(settling) : settling[i] \in StoreCall
         /\ faults \in 0..MaxFaults /\ faults \in Nat
<1>1. MaxFaults \in Nat
  BY RequestAssumption
<1>2. gates \in UNION {[1..n -> Gate] : n \in 0..3}
  BY DEF RequestInv, RequestTypeOK
<1>3. Len(gates) \in 0..3
  <2>1. PICK n \in 0..3 : gates \in [1..n -> Gate]
    BY <1>2
  <2>2. n \in Nat /\ gates \in Seq(Gate)
    BY <2>1 DEF RequestInv
  <2>3. DOMAIN gates = 1..Len(gates) /\ Len(gates) \in Nat
    BY <2>2, LenProperties
  <2>4. Len(gates) = n
    BY <2>1, <2>2, <2>3
  <2> QED
    BY <2>4
<1>4. Len(settling) \in Nat
  BY LenProperties DEF RequestInv
<1>5. passed \in SUBSET Gate /\ faults \in 0..MaxFaults
  BY DEF RequestInv, RequestTypeOK
<1>6. Len(settling) \in 0..2 /\ faults \in Nat
  <2>1. Len(settling) <= 2
    BY DEF RequestInv, RequestTypeOK
  <2>2. Len(settling) \in 0..2
    <3>1. \A n \in Nat : n <= 2 => n \in 0..2
      OBVIOUS
    <3> QED
      BY <1>4, <2>1, <3>1
  <2>3. faults \in Nat
    BY <1>1, <1>5
  <2> QED
    BY <2>2, <2>3
<1>7. /\ kind \in Kind /\ gates \in Seq(Gate) /\ settling \in Seq(StoreCall)
      /\ at \in {"admission", "reserve", "ledger", "queue", "tools", "model", "fallback", "reply", "settle", "returned"}
      /\ present \in BOOLEAN /\ held \in BOOLEAN /\ slot \in BOOLEAN
      /\ \A i \in 1..Len(settling) : settling[i] \in StoreCall
  BY DEF RequestInv, RequestTypeOK
<1>8. /\ entry \in [status: RowStatus, charge: Charge, plan: BOOLEAN]
      /\ planning \in [rounds: 0..2, spent: BOOLEAN]
      /\ upstream \in [via: {"none", "hermes", "litellm"}, streams: BOOLEAN, reply: Reply]
  BY DEF RequestInv, RequestTypeOK
<1> QED
  BY <1>3, <1>5, <1>6, <1>7, <1>8

\* A failure counts; none has happened as long as the count is 0.
LEMMA NoFault ==
  ASSUME faults \in Nat, NEW o, faults' = 0
  PROVE  /\ FailsIf(o) => ~present /\ ~o /\ faults' = faults
         /\ ~(faults' = faults + 1)
BY DEF FailsIf

\* The calls with which a handler settles, in its state before them.
LEMMA SettlingTyped ==
  ASSUME RequestInv, OpenRow \/ Acquire \/ Unavailable \/ Streamed \/ Buffered
  PROVE  settling' \in Seq(StoreCall) /\ Len(settling') \in 0..2 /\ \A i \in 1..Len(settling') : settling'[i] \in StoreCall
<1> DEFINE Few == {s \in Seq(StoreCall) : Len(s) \in 0..2 /\ \A i \in 1..Len(s) : s[i] \in StoreCall}
<1>1. \A b \in BOOLEAN : <<ReleaseCall(b)>> \in Few
  BY Calls, OneCall
<1>2. \A b, o, p \in BOOLEAN, s \in Ended, c \in Charge :
        <<ReleaseCall(b), FinishCall(o, s, c, p)>> \in Few /\ <<FinishCall(o, s, c, p), ReleaseCall(b)>> \in Few
  <2> SUFFICES ASSUME NEW b \in BOOLEAN, NEW o \in BOOLEAN, NEW p \in BOOLEAN, NEW s \in Ended, NEW c \in Charge
               PROVE  /\ <<ReleaseCall(b), FinishCall(o, s, c, p)>> \in Few
                      /\ <<FinishCall(o, s, c, p), ReleaseCall(b)>> \in Few
    OBVIOUS
  <2>1. PICK x \in StoreCall, y \in StoreCall : x = ReleaseCall(b) /\ y = FinishCall(o, s, c, p)
    BY Calls
  <2>2. <<x, y>> \in Few /\ <<y, x>> \in Few
    BY TwoCalls
  <2> QED
    BY <2>1, <2>2
<1>3. settling \in Few
  BY RequestTypes
<1>4. {"failed", "cancelled", "completed"} \subseteq Ended /\ {"nothing", "reported", "reserved"} \subseteq Charge
  BY DEF Ended, Charge
<1>6. planning.spent \in BOOLEAN
  BY RequestTypes
<1> HIDE DEF Few
<1>5. settling' \in Few
  <2>1. CASE OpenRow
    BY <2>1, <1>1, <1>3 DEF OpenRow, Settle
  <2>2. CASE Acquire
    BY <2>2, <1>2, <1>3, <1>4 DEF Acquire, Settle
  <2>3. CASE Unavailable
    BY <2>3, <1>2, <1>4, <1>6 DEF Unavailable, Settle
  <2>4. CASE Streamed
    BY <2>4, <1>2, <1>4, <1>6 DEF Streamed, Settle, AfterStream, AnswerCharge
  <2>5. CASE Buffered
    <3>1. \A s \in Ended, c \in Charge : AfterWhole(s, c) \in Few
      BY <1>2, <1>6 DEF AfterWhole
    <3>2. \/ \E s \in Ended, c \in Charge : settling' = AfterWhole(s, c)
          \/ settling' = <<ReleaseCall(FALSE), FinishCall(FALSE, "failed", "nothing", planning.spent)>>
      <4>1. CASE upstream.reply = "refused"
        BY <2>5, <4>1, <1>4 DEF Buffered, Settle
      <4>2. CASE upstream.reply # "refused" /\ upstream.reply = "answered" /\ present
        BY <2>5, <4>2, <1>4 DEF Buffered, Settle, AnswerCharge
      <4>3. CASE upstream.reply # "refused" /\ ~(upstream.reply = "answered" /\ present)
        BY <2>5, <4>3, <1>4 DEF Buffered, Settle
      <4> QED
        BY <4>1, <4>2, <4>3
    <3> QED
      BY <3>1, <3>2, <1>2, <1>4, <1>6
  <2> QED
    BY <2>1, <2>2, <2>3, <2>4, <2>5
<1> QED
  BY <1>5 DEF Few

\* Every step keeps the types.
LEMMA TypesKeep ==
  ASSUME RequestInv, [RequestNext]_requestVars
  PROVE  RequestTypeOK' /\ gates' \in Seq(Gate) /\ settling' \in Seq(StoreCall)
<1> DEFINE Ats == {"admission", "reserve", "ledger", "queue", "tools", "model", "fallback", "reply", "settle", "returned"}
           Replies == [via: {"none", "hermes", "litellm"}, streams: BOOLEAN, reply: Reply]
<1>m. MaxFaults \in Nat /\ faults \in 0..MaxFaults
  BY RequestAssumption, RequestTypes
<1>s. SUFFICES /\ kind' \in Kind /\ at' \in Ats /\ present' \in BOOLEAN /\ held' \in BOOLEAN /\ slot' \in BOOLEAN
               /\ passed' \in SUBSET Gate /\ gates' \in Seq(Gate) /\ Len(gates') \in 0..3
               /\ entry' \in [status: RowStatus, charge: Charge, plan: BOOLEAN] /\ upstream' \in Replies
               /\ planning' \in [rounds: 0..2, spent: BOOLEAN] /\ faults' \in 0..MaxFaults
               /\ settling' \in Seq(StoreCall) /\ Len(settling') \in 0..2
               /\ \A i \in 1..Len(settling') : settling'[i] \in StoreCall
  BY GatesAreFunctions DEF RequestTypeOK
<1>f. faults' \in 0..MaxFaults
  <2>1. faults' = faults \/ (faults < MaxFaults /\ faults' = faults + 1)
    BY DEF RequestNext, requestVars, RequesterLeaves, Admit, Reserve, OpenRow, Acquire, SkipTools, PlanTools,
           AskModel, FallBack, Unavailable, Streamed, Buffered, CallStore, Return, Works, FailsIf
  <2> QED
    BY <1>m, <2>1
<1>1. CASE UNCHANGED requestVars
  BY <1>1, <1>f, RequestTypes DEF requestVars
<1>2. CASE RequesterLeaves
  BY <1>2, <1>f, RequestTypes DEF RequesterLeaves
<1>3. CASE Admit
  <2>1. Head(gates) \in Gate /\ Tail(gates) \in Seq(Gate) /\ Len(Tail(gates)) \in 0..3
    BY <1>3, RequestTypes, HeadTailProperties DEF Admit
  <2>2. passed' \in SUBSET Gate /\ gates' \in Seq(Gate) /\ Len(gates') \in 0..3
    BY <1>3, <2>1, RequestTypes DEF Admit
  <2>3. at' \in Ats
    BY <1>3, RequestTypes DEF Admit
  <2> QED
    BY <1>3, <1>f, <2>2, <2>3, RequestTypes DEF Admit
<1>4. CASE Reserve
  <2>1. at' \in Ats /\ held' \in BOOLEAN
    BY <1>4, RequestTypes DEF Reserve
  <2> QED
    BY <1>4, <1>f, <2>1, RequestTypes DEF Reserve
<1>5. CASE OpenRow
  <2>1. at' \in Ats
    BY <1>5 DEF OpenRow, Settle
  <2>2. entry' \in [status: RowStatus, charge: Charge, plan: BOOLEAN]
    BY <1>5, RequestTypes DEF OpenRow, RowStatus
  <2> QED
    BY <1>5, <1>f, <2>1, <2>2, SettlingTyped, RequestTypes DEF OpenRow
<1>6. CASE Acquire
  <2>1. at' \in Ats /\ slot' \in BOOLEAN
    BY <1>6, RequestTypes DEF Acquire, Settle
  <2> QED
    BY <1>6, <1>f, <2>1, SettlingTyped, RequestTypes DEF Acquire
<1>11. CASE SkipTools \/ PlanTools
  <2>1. at' \in Ats
    BY <1>11 DEF SkipTools, PlanTools
  <2>2. planning' \in [rounds: 0..2, spent: BOOLEAN]
    <3>1. planning.rounds \in 0..2 /\ planning.spent \in BOOLEAN
      BY RequestTypes
    <3>2. CASE SkipTools
      BY <3>2, RequestTypes DEF SkipTools
    <3>3. CASE PlanTools
      <4>1. PICK answered \in BOOLEAN, reported \in BOOLEAN :
              /\ planning.rounds < 2
              /\ planning' = [rounds |-> planning.rounds + 1, spent |-> planning.spent \/ (answered /\ reported)]
        BY <3>3, RequestTypes DEF PlanTools
      <4>2. planning.rounds + 1 \in 0..2 /\ (planning.spent \/ (answered /\ reported)) \in BOOLEAN
        BY <3>1, <4>1
      <4> QED
        BY <4>1, <4>2
    <3> QED
      BY <1>11, <3>2, <3>3
  <2> QED
    BY <1>11, <1>f, <2>1, <2>2, RequestTypes DEF SkipTools, PlanTools
<1>7. CASE AskModel \/ FallBack
  <2>1. Outcomes \subseteq Reply
    BY DEF Outcomes, Reply
  <2>2. at' \in Ats /\ upstream' \in Replies
    <3>1. CASE AskModel
      <4>1. PICK via \in {"hermes", "litellm"}, reply \in Outcomes, streams \in BOOLEAN :
                   upstream' = [via |-> via, streams |-> streams, reply |-> reply]
        BY <3>1 DEF AskModel
      <4>2. upstream' \in Replies
        BY <2>1, <4>1
      <4>3. at' \in Ats
        BY <3>1 DEF AskModel
      <4> QED
        BY <4>2, <4>3
    <3>2. CASE FallBack
      <4>1. PICK reply \in Outcomes : upstream' = [upstream EXCEPT !.via = "litellm", !.reply = reply]
        BY <3>2 DEF FallBack
      <4>2. upstream' \in Replies
        BY <2>1, <4>1, RequestTypes
      <4>3. at' \in Ats
        BY <3>2 DEF FallBack
      <4> QED
        BY <4>2, <4>3
    <3> QED
      BY <1>7, <3>1, <3>2
  <2> QED
    BY <1>7, <1>f, <2>2, RequestTypes DEF AskModel, FallBack
<1>8. CASE Unavailable \/ Streamed \/ Buffered
  <2>1. at' \in Ats
    BY <1>8 DEF Unavailable, Streamed, Buffered, Settle
  <2> QED
    BY <1>8, <1>f, <2>1, SettlingTyped, RequestTypes DEF Unavailable, Streamed, Buffered
<1>9. CASE CallStore
  <2>1. PICK call \in StoreCall : call = Head(settling)
    <3>1. settling # <<>> /\ settling \in Seq(StoreCall)
      BY <1>9, RequestTypes DEF CallStore
    <3> QED
      BY <3>1, HeadTailProperties
  <2>2. /\ settling' = Tail(settling) /\ settling # <<>> /\ UNCHANGED <<kind, at, gates, present, passed, slot, planning, upstream>>
        /\ Effect(call) \/ UNCHANGED <<held, entry>>
    BY <1>9, <2>1 DEF CallStore
  <2>3. held' \in BOOLEAN /\ entry' \in [status: RowStatus, charge: Charge, plan: BOOLEAN]
    <3>1. CASE UNCHANGED <<held, entry>>
      BY <3>1, RequestTypes
    <3>2. CASE Effect(call) /\ call.op = "release"
      BY <3>2, RequestTypes DEF Effect
    <3>3. CASE Effect(call) /\ call.op # "release"
      <4>1. call.status \in Ended /\ call.charge \in Charge /\ call.plan \in BOOLEAN
        BY <3>3, Calls
      <4>2. UNCHANGED held /\ entry' \in {entry, [status |-> call.status, charge |-> call.charge, plan |-> call.plan]}
        BY <3>3 DEF Effect
      <4> QED
        BY <4>1, <4>2, RequestTypes DEF RowStatus
    <3> QED
      BY <2>2, <3>1, <3>2, <3>3
  <2>4. settling' \in Seq(StoreCall) /\ Len(settling') = Len(settling) - 1 /\ Len(settling) # 0
    BY <2>2, RequestTypes, HeadTailProperties, EmptySeq
  <2>5. Len(settling') \in 0..2 /\ \A i \in 1..Len(settling') : settling'[i] \in StoreCall
    BY <2>4, RequestTypes, ElementOfSeq
  <2> QED
    BY <1>f, <2>2, <2>3, <2>4, <2>5, RequestTypes
<1>10. CASE Return
  <2>1. at' \in Ats /\ slot' \in BOOLEAN
    BY <1>10, RequestTypes DEF Return
  <2> QED
    BY <1>10, <1>f, <2>1, RequestTypes DEF Return
<1> QED
  BY <1>1, <1>2, <1>3, <1>4, <1>5, <1>6, <1>7, <1>8, <1>9, <1>10, <1>11 DEF RequestNext

\* What a handler has done before it has a reply, as long as no call failed.
LEMMA TakesKeep ==
  ASSUME RequestInv, faults = 0, faults' = 0,
         RequesterLeaves \/ Admit \/ Reserve \/ OpenRow \/ SkipTools \/ PlanTools \/ AskModel \/ FallBack
  PROVE  TakenInv' /\ SettlesInv'
<1>t. TakenInv /\ SettlesInv
  BY DEF RequestInv
<1>1. CASE RequesterLeaves
  <2>1. /\ present' = FALSE /\ at # "returned"
        /\ UNCHANGED <<kind, at, gates, passed, held, entry, slot, planning, upstream, settling, faults>>
    BY <1>1 DEF RequesterLeaves
  <2>2. TakenInv'
    BY <1>t, <2>1 DEF TakenInv
  <2>3. GivesBackInv' /\ PaidInv'
    BY <2>1 DEF GivesBackInv, PaidInv
  <2>4. SettlesInv'
    BY <1>t, <2>1, <2>3 DEF SettlesInv, StreamInv, Outlasts, UnpaidInv, PlanInv, CoveredInv
  <2> QED
    BY <2>2, <2>4
<1>2. CASE Admit
  <2>1. /\ at = "admission" /\ at' \in {"admission", "reserve", "returned"}
        /\ UNCHANGED <<kind, present, held, entry, slot, planning, upstream, settling, faults>>
    BY <1>2 DEF Admit
  <2>2. TakenInv'
    BY <1>t, <2>1 DEF TakenInv
  <2>3. ~held' /\ entry'.status = "none" /\ entry'.charge = "nothing" /\ upstream'.reply = "none"
        /\ ~upstream'.streams /\ settling' = <<>>
    BY <1>t, <2>1 DEF TakenInv
  <2>4. SettlesInv'
    BY <2>3, EmptySeq DEF SettlesInv, GivesBackInv, StreamInv, Outlasts, PaidInv, UnpaidInv, PlanInv, Ended, CoveredInv
  <2> QED
    BY <2>2, <2>4
<1>3. CASE Reserve
  <2>1. /\ at = "reserve" /\ UNCHANGED <<kind, present, entry, slot, planning, upstream, settling>>
        /\ \/ held' = TRUE /\ at' = "ledger"
           \/ at' = "returned" /\ held' = held
           \/ at' = "returned" /\ ~present
    BY <1>3, NoFault DEF Reserve
  <2>2. entry'.status = "none" /\ entry'.charge = "nothing" /\ upstream'.reply = "none"
        /\ ~upstream'.streams /\ settling' = <<>> /\ ~held /\ ~slot'
    BY <1>t, <2>1 DEF TakenInv
  <2>3. TakenInv'
    BY <1>t, <2>1, <2>2 DEF TakenInv
  <2>4. at' = "returned" => ~held' \/ ~present'
    BY <2>1, <2>2
  <2>5. SettlesInv'
    BY <2>1, <2>2, <2>4, EmptySeq DEF SettlesInv, GivesBackInv, StreamInv, Outlasts, PaidInv, UnpaidInv, PlanInv, Ended, CoveredInv
  <2> QED
    BY <2>3, <2>5
<1>4. CASE OpenRow
  <2>1. /\ at = "ledger" /\ UNCHANGED <<kind, present, held, slot, planning, upstream>>
        /\ \/ entry' = [entry EXCEPT !.status = "running"] /\ at' = "queue" /\ settling' = settling
           \/ /\ ~present /\ at' = "settle" /\ settling' = <<ReleaseCall(FALSE)>>
              /\ \E status \in {"none", "running"} : entry' = [entry EXCEPT !.status = status]
    BY <1>4, NoFault DEF OpenRow, Settle
  <2>2. entry.charge = "nothing" /\ upstream'.reply = "none" /\ ~upstream'.streams /\ settling = <<>> /\ held' /\ ~slot'
    BY <1>t, <2>1 DEF TakenInv
  <2>3. entry'.charge = "nothing" /\ entry'.status \in {"none", "running"}
    BY <2>1, <2>2, RequestTypes
  <2>4. TakenInv'
    <3>1. CASE entry' = [entry EXCEPT !.status = "running"] /\ at' = "queue" /\ settling' = settling
      <4>1. entry'.status = "running"
        BY <3>1, RequestTypes
      <4> QED
        BY <1>t, <2>1, <2>2, <2>3, <3>1, <4>1 DEF TakenInv
    <3>2. CASE at' = "settle"
      BY <1>t, <2>1, <2>2, <2>3, <3>2 DEF TakenInv
    <3> QED
      BY <2>1, <3>1, <3>2
  <2>5. SettlesInv'
    <3> SUFFICES ASSUME at' = "settle" PROVE SettlesInv'
      BY <2>1 DEF SettlesInv
    <3>1. ~present' /\ settling' = <<ReleaseCall(FALSE)>>
      BY <2>1
    <3>2. GivesBackInv' /\ PaidInv' /\ StreamInv' /\ CoveredInv'
      BY <2>2, <3>1 DEF GivesBackInv, PaidInv, StreamInv, Outlasts, CoveredInv
    <3>3. UnpaidInv'
      <4>1. Len(settling') = 1 /\ settling'[1].op = "release"
        BY <3>1, Calls, OneCall
      <4> QED
        BY <2>3, <4>1 DEF UnpaidInv
    <3>4. PlanInv'
      <4>1. Len(settling') = 1 /\ settling'[1].op = "release"
        BY <3>1, Calls, OneCall
      <4> QED
        BY <2>3, <4>1 DEF PlanInv, Ended
    <3> QED
      BY <3>2, <3>3, <3>4 DEF SettlesInv
  <2> QED
    BY <2>4, <2>5
<1>5. CASE AskModel
  <2>1. PICK via \in {"hermes", "litellm"}, reply \in Outcomes, streams \in BOOLEAN :
          /\ at = "model" /\ (streams => kind \in Chats)
          /\ upstream' = [via |-> via, streams |-> streams, reply |-> reply]
          /\ at' = "reply" \/ (kind \in Chats /\ at' = "fallback")
          /\ UNCHANGED <<kind, present, held, entry, slot, planning, settling>>
    BY <1>5 DEF AskModel
  <2>2. upstream'.streams = streams /\ upstream'.reply = reply /\ reply # "none"
        /\ (kind \in Chats => reply # "provider failed")
    BY <2>1 DEF Outcomes
  <2> QED
    BY <1>t, <2>1, <2>2 DEF TakenInv, SettlesInv
<1>6. CASE FallBack
  <2>1. PICK reply \in Outcomes :
          /\ at = "fallback" /\ upstream' = [upstream EXCEPT !.via = "litellm", !.reply = reply] /\ at' = "reply"
          /\ UNCHANGED <<kind, present, held, entry, slot, planning, settling>>
    BY <1>6 DEF FallBack
  <2>2. upstream'.streams = upstream.streams /\ upstream'.reply = reply /\ reply # "none"
        /\ (kind \in Chats => reply # "provider failed")
    BY <2>1, RequestTypes DEF Outcomes
  <2> QED
    BY <1>t, <2>1, <2>2 DEF TakenInv, SettlesInv
<1>7. CASE SkipTools \/ PlanTools
  <2>1. /\ at = "tools" /\ at' \in {"tools", "model"}
        /\ UNCHANGED <<kind, present, held, entry, slot, upstream, settling>>
    BY <1>7 DEF SkipTools, PlanTools
  <2> QED
    BY <1>t, <2>1 DEF TakenInv, SettlesInv
<1> QED
  BY <1>1, <1>2, <1>3, <1>4, <1>5, <1>6, <1>7

\* A handler that settles with the call that finishes the row and the one that
\* releases the reservation, in either order.
LEMMA SettleWith ==
  ASSUME RequestInv, faults = 0, NEW f \in StoreCall, NEW r \in StoreCall, f.op = "finish", r.op = "release",
         settling' = <<f, r>> \/ settling' = <<r, f>>, at' = "settle", held, entry.status = "running",
         UNCHANGED <<kind, present, held, entry, planning, upstream>>,
         Outlasts => f.outlives /\ r.outlives, f.plan = planning.spent,
         present /\ upstream.reply = "answered" => f.status = "completed" /\ f.charge # "nothing",
         kind \in Chats /\ upstream.reply # "answered" => f.charge = "nothing",
         upstream.reply = "answered" =>
           \/ ~present /\ ~f.outlives /\ ~r.outlives
           \/ settling' = <<f, r>> /\ IsSettled(f.status, f.charge) /\ f.outlives = r.outlives
  PROVE  TakenInv' /\ SettlesInv'
<1>t. TakenInv /\ entry.charge = "nothing"
  BY DEF RequestInv, TakenInv
<1>n. Len(settling') = 2 /\ 1..Len(settling') = {1, 2}
  <2>1. Len(settling') = 2
    BY TwoCalls
  <2>2. 1..2 = {1, 2}
    OBVIOUS
  <2> QED
    BY <2>1, <2>2
<1>1. \/ settling'[1] = f /\ settling'[2] = r
      \/ settling'[1] = r /\ settling'[2] = f
  BY TwoCalls
<1>2. TakenInv'
  BY <1>t DEF TakenInv
<1>3. /\ \E i \in {1, 2} : settling'[i] = f
      /\ \E i \in {1, 2} : settling'[i] = r
      /\ \A i \in {1, 2} : settling'[i] \in {f, r}
  BY <1>1
<1>4. GivesBackInv' /\ StreamInv'
  BY <1>n, <1>3 DEF GivesBackInv, StreamInv, Outlasts
<1>5. PaidInv' /\ UnpaidInv' /\ PlanInv'
  <2>1. \A i \in {1, 2} : settling'[i].op = "finish" => settling'[i] = f
    BY <1>3
  <2>2. PaidInv'
    BY <1>n, <1>3, <2>1 DEF PaidInv
  <2>3. UnpaidInv'
    BY <1>n, <1>t, <2>1 DEF UnpaidInv
  <2>4. PlanInv'
    BY <1>n, <2>1 DEF PlanInv, Ended
  <2> QED
    BY <2>2, <2>3, <2>4
<1>6. CoveredInv'
  <2>1. CASE upstream.reply # "answered"
    BY <2>1 DEF CoveredInv
  <2>2. CASE ~present /\ ~f.outlives /\ ~r.outlives
    BY <1>n, <1>3, <2>2 DEF CoveredInv
  <2>3. CASE settling' = <<f, r>> /\ IsSettled(f.status, f.charge) /\ f.outlives = r.outlives
    <3>1. settling'[1] = f /\ settling'[2] = r
      BY <2>3, TwoCalls
    <3> QED
      BY <1>n, <2>3, <3>1 DEF CoveredInv
  <2> QED
    BY <2>1, <2>2, <2>3
<1> QED
  BY <1>2, <1>4, <1>5, <1>6 DEF SettlesInv

\* A handler gives up before it has asked the model.
LEMMA AcquireKeeps ==
  ASSUME RequestInv, faults = 0, faults' = 0, Acquire
  PROVE  TakenInv' /\ SettlesInv'
<1>t. /\ TakenInv /\ SettlesInv /\ at = "queue" /\ held /\ entry.status = "running"
      /\ upstream.reply = "none" /\ ~upstream.streams /\ entry.charge = "nothing" /\ planning.spent = FALSE
  BY DEF RequestInv, TakenInv, Acquire
<1>u. UNCHANGED <<kind, present, held, entry, planning, upstream>>
  BY DEF Acquire
<1>1. CASE at' \in {"tools", "model"}
  <2>1. settling' = settling
    BY <1>1 DEF Acquire, Settle
  <2> QED
    BY <1>t, <1>u, <1>1, <2>1 DEF TakenInv, SettlesInv
<1>2. CASE at' \notin {"tools", "model"}
  <2>1. PICK b \in BOOLEAN, s \in {"failed", "cancelled"} :
          at' = "settle" /\ settling' = <<ReleaseCall(b), FinishCall(b, s, "nothing", FALSE)>>
    BY <1>2 DEF Acquire, Settle
  <2>2. s \in Ended /\ "nothing" \in Charge
    BY DEF Ended, Charge
  <2>3. PICK f \in StoreCall, r \in StoreCall :
          /\ f = FinishCall(b, s, "nothing", FALSE) /\ r = ReleaseCall(b)
          /\ f.op = "finish" /\ r.op = "release" /\ f.charge = "nothing" /\ f.plan = FALSE
    <3>1. PICK no \in BOOLEAN : no = FALSE
      OBVIOUS
    <3>2. FinishCall(b, s, "nothing", no) \in StoreCall /\ ReleaseCall(b) \in StoreCall
      BY <2>2, Calls
    <3>3. /\ FinishCall(b, s, "nothing", no).op = "finish" /\ FinishCall(b, s, "nothing", no).charge = "nothing"
          /\ FinishCall(b, s, "nothing", no).plan = no /\ ReleaseCall(b).op = "release"
      BY <2>2, Calls
    <3> QED
      BY <3>1, <3>2, <3>3
  <2>4. ~Outlasts
    BY <1>t DEF Outlasts
  <2> QED
    BY <1>t, <1>u, <2>1, <2>3, <2>4, SettleWith
<1> QED
  BY <1>1, <1>2

\* A handler has a reply, or none.
LEMMA ReplyKeeps ==
  ASSUME RequestInv, faults = 0, faults' = 0, Unavailable \/ Streamed \/ Buffered
  PROVE  TakenInv' /\ SettlesInv'
<1>t. TakenInv /\ at = "reply"
  BY DEF RequestInv, Unavailable, Streamed, Buffered
<1>h. /\ held /\ entry.status = "running" /\ upstream.reply # "none" /\ upstream.streams \in BOOLEAN
      /\ upstream.streams => kind \in Chats
      /\ kind \in Chats => upstream.reply # "provider failed"
      /\ upstream.reply \in Reply /\ present \in BOOLEAN
  BY <1>t, RequestTypes DEF TakenInv
<1>u. UNCHANGED <<kind, present, held, entry, planning, upstream>> /\ at' = "settle"
  BY DEF Unavailable, Streamed, Buffered, Settle
<1>p. PICK plan \in BOOLEAN : plan = planning.spent
  BY RequestTypes
<1>c. /\ {"failed", "cancelled", "completed"} \subseteq Ended /\ {"nothing", "reported", "reserved"} \subseteq Charge
      /\ (kind \notin Chats) \in BOOLEAN
  BY DEF Ended, Charge
<1>1. CASE Unavailable
  <2>1. PICK s \in {"cancelled", "failed"} :
          upstream.reply = "error" /\ settling' = <<ReleaseCall(FALSE), FinishCall(TRUE, s, "nothing", plan)>>
    BY <1>1, <1>p DEF Unavailable, Settle
  <2>2. PICK f \in StoreCall, r \in StoreCall :
          /\ f = FinishCall(TRUE, s, "nothing", plan) /\ r = ReleaseCall(FALSE)
          /\ f.op = "finish" /\ r.op = "release" /\ f.charge = "nothing" /\ f.plan = plan
    <3>1. PICK b \in BOOLEAN, o \in BOOLEAN : b = FALSE /\ o = TRUE
      OBVIOUS
    <3>2. s \in Ended /\ "nothing" \in Charge
      BY <1>c
    <3>3. FinishCall(o, s, "nothing", plan) \in StoreCall /\ ReleaseCall(b) \in StoreCall
      BY <3>2, Calls
    <3>4. /\ FinishCall(o, s, "nothing", plan).op = "finish" /\ FinishCall(o, s, "nothing", plan).charge = "nothing"
          /\ FinishCall(o, s, "nothing", plan).plan = plan /\ ReleaseCall(b).op = "release"
      BY <3>2, Calls
    <3> QED
      BY <3>1, <3>3, <3>4
  <2>3. ~Outlasts
    BY <2>1 DEF Outlasts
  <2> QED
    BY <1>h, <1>u, <1>p, <2>1, <2>2, <2>3, SettleWith
<1>w. ASSUME NEW b \in BOOLEAN, NEW s \in Ended, NEW c \in Charge,
             settling' = <<FinishCall(b, s, c, plan), ReleaseCall(b)>>, IsSettled(s, c),
             Outlasts => b,
             present /\ upstream.reply = "answered" => s = "completed" /\ c # "nothing",
             kind \in Chats /\ upstream.reply # "answered" => c = "nothing"
      PROVE  TakenInv' /\ SettlesInv'
  <2>1. PICK f \in StoreCall, r \in StoreCall :
          /\ f = FinishCall(b, s, c, plan) /\ r = ReleaseCall(b) /\ f.op = "finish" /\ r.op = "release"
          /\ f.outlives = b /\ r.outlives = b /\ f.status = s /\ f.charge = c /\ f.plan = plan
    BY Calls
  <2> QED
    BY <1>h, <1>u, <1>p, <1>w, <2>1, SettleWith
<1>2. CASE Streamed
  <2>1. kind \in Chats /\ upstream.reply \in {"refused", "answered", "broken"}
    BY <1>2, <1>h DEF Streamed, Reply
  <2>2. CASE upstream.reply = "broken" \/ ~present
    <3>1. settling' = <<FinishCall(TRUE, "cancelled", "nothing", plan), ReleaseCall(TRUE)>>
      BY <1>2, <1>p, <2>2 DEF Streamed, Settle, AfterStream
    <3> QED
      BY <1>c, <1>w, <2>2, <3>1 DEF IsSettled
  <2>3. CASE upstream.reply = "refused" /\ present
    <3>1. settling' = <<FinishCall(TRUE, "failed", "nothing", plan), ReleaseCall(TRUE)>>
      BY <1>2, <1>p, <2>3 DEF Streamed, Settle, AfterStream
    <3> QED
      BY <1>c, <1>w, <2>3, <3>1 DEF IsSettled
  <2>4. CASE upstream.reply = "answered" /\ present
    <3>1. PICK c \in AnswerCharge : settling' = <<FinishCall(TRUE, "completed", c, plan), ReleaseCall(TRUE)>>
      BY <1>2, <1>p, <2>4 DEF Streamed, Settle, AfterStream
    <3>2. c \in Charge /\ c # "nothing"
      BY <1>c DEF AnswerCharge
    <3> QED
      BY <1>c, <1>w, <2>4, <3>1, <3>2 DEF IsSettled
  <2> QED
    BY <2>1, <2>2, <2>3, <2>4
<1>3. CASE Buffered
  <2>0. upstream.reply # "error" /\ (Outlasts => kind \notin Chats)
    BY <1>3 DEF Buffered, Outlasts
  <2>1. CASE upstream.reply = "refused"
    <3>1. settling' = <<FinishCall(kind \notin Chats, "failed", "nothing", plan), ReleaseCall(kind \notin Chats)>>
      BY <1>3, <1>p, <2>1 DEF Buffered, Settle, AfterWhole
    <3> QED
      BY <1>c, <1>w, <2>0, <2>1, <3>1 DEF IsSettled
  <2>2. CASE upstream.reply = "answered" /\ present
    <3>1. PICK c \in AnswerCharge :
            settling' = <<FinishCall(kind \notin Chats, "completed", c, plan), ReleaseCall(kind \notin Chats)>>
      BY <1>3, <1>p, <2>2 DEF Buffered, Settle, AfterWhole
    <3>2. c \in Charge /\ c # "nothing"
      BY <1>c DEF AnswerCharge
    <3> QED
      BY <1>c, <1>w, <2>0, <2>2, <3>1, <3>2 DEF IsSettled
  <2>3. CASE upstream.reply # "refused" /\ ~(upstream.reply = "answered" /\ present)
    <3>0. IF kind \in Chats THEN settling' = <<ReleaseCall(FALSE), FinishCall(FALSE, "failed", "nothing", plan)>>
          ELSE \E c \in {"nothing", "reported"} :
                 settling' = <<FinishCall(kind \notin Chats, "failed", c, plan), ReleaseCall(kind \notin Chats)>>
      BY <1>3, <1>p, <2>3 DEF Buffered, Settle, AfterWhole
    <3>1. CASE kind \in Chats
      <4>1. settling' = <<ReleaseCall(FALSE), FinishCall(FALSE, "failed", "nothing", plan)>>
        BY <3>0, <3>1
      <4>2. PICK f \in StoreCall, r \in StoreCall :
              /\ f = FinishCall(FALSE, "failed", "nothing", plan) /\ r = ReleaseCall(FALSE)
              /\ f.op = "finish" /\ r.op = "release" /\ f.charge = "nothing" /\ f.plan = plan /\ ~f.outlives /\ ~r.outlives
        <5>1. PICK b \in BOOLEAN, s \in Ended, c \in Charge : b = FALSE /\ s = "failed" /\ c = "nothing"
          BY <1>c
        <5>2. FinishCall(b, s, c, plan) \in StoreCall /\ ReleaseCall(b) \in StoreCall
          BY Calls
        <5>3. /\ FinishCall(b, s, c, plan).op = "finish" /\ FinishCall(b, s, c, plan).charge = c
              /\ FinishCall(b, s, c, plan).outlives = b /\ FinishCall(b, s, c, plan).plan = plan
              /\ ReleaseCall(b).op = "release" /\ ReleaseCall(b).outlives = b
          BY Calls
        <5> QED
          BY <5>1, <5>2, <5>3
      <4>3. upstream.reply = "answered" => ~present
        BY <2>3
      <4> QED
        BY <1>h, <1>u, <1>p, <2>0, <3>1, <4>1, <4>2, <4>3, SettleWith
    <3>2. CASE kind \notin Chats
      <4>1. PICK c \in {"nothing", "reported"} :
              settling' = <<FinishCall(kind \notin Chats, "failed", c, plan), ReleaseCall(kind \notin Chats)>>
        BY <3>0, <3>2
      <4> QED
        BY <1>c, <1>w, <2>0, <2>3, <3>2, <4>1 DEF IsSettled
    <3> QED
      BY <3>1, <3>2
  <2> QED
    BY <2>1, <2>2, <2>3
<1> QED
  BY <1>1, <1>2, <1>3

\* What is left of one or two calls after the first.
LEMMA CallsLeft ==
  ASSUME RequestInv, settling # <<>>, settling' = Tail(settling)
  PROVE  /\ settling[1] \in StoreCall /\ settling[1] = Head(settling)
         /\ \A i \in 1..Len(settling) : settling[i] = settling[1] \/ \E j \in 1..Len(settling') : settling'[j] = settling[i]
         /\ \A j \in 1..Len(settling') : \E i \in 1..Len(settling) : settling[i] = settling'[j]
         /\ Len(settling) = 2 => Len(settling') = 1 /\ settling'[1] = settling[2]
<1>1. settling \in Seq(StoreCall) /\ Len(settling) \in 1..2
  BY RequestTypes, EmptySeq
<1>2. /\ settling[1] \in StoreCall /\ settling[1] = Head(settling)
      /\ Len(settling') = Len(settling) - 1 /\ \A j \in 1..Len(settling') : settling'[j] = settling[j + 1]
  BY <1>1, HeadTailProperties
<1>3. CASE Len(settling) = 1
  <2>1. 1..1 = {1} /\ 1..0 = {}
    OBVIOUS
  <2>0. Len(settling') = 0
    BY <1>2, <1>3
  <2>2. 1..Len(settling) = {1} /\ 1..Len(settling') = {}
    BY <1>3, <2>0, <2>1
  <2>3. \A i \in 1..Len(settling) : i = 1
    BY <2>2
  <2>4. \A j \in 1..Len(settling') : FALSE
    BY <2>2
  <2> QED
    BY <1>2, <1>3, <2>3, <2>4
<1>4. CASE Len(settling) = 2
  <2>1. Len(settling') = 1 /\ settling'[1] = settling[2]
    BY <1>2, <1>4
  <2>2. 1..2 = {1, 2} /\ 1..1 = {1}
    OBVIOUS
  <2> QED
    BY <1>2, <1>4, <2>1, <2>2
<1> QED
  BY <1>1, <1>3, <1>4

\* A store is called, and does what it is asked or is no longer reached.
LEMMA StoresKeep ==
  ASSUME RequestInv, faults = 0, faults' = 0, CallStore
  PROVE  TakenInv' /\ SettlesInv'
<1>t. /\ TakenInv /\ at = "settle" /\ at' = "settle" /\ settling # <<>> /\ settling' = Tail(settling)
      /\ GivesBackInv /\ StreamInv /\ PaidInv /\ UnpaidInv /\ PlanInv /\ CoveredInv
      /\ UNCHANGED <<kind, present, slot, planning, upstream>>
  BY DEF RequestInv, SettlesInv, CallStore
<1>c. PICK call \in StoreCall : call = settling[1]
  BY <1>t, CallsLeft
<1>l. /\ \A i \in 1..Len(settling) : settling[i] = call \/ \E j \in 1..Len(settling') : settling'[j] = settling[i]
      /\ \A j \in 1..Len(settling') : \E i \in 1..Len(settling) : settling[i] = settling'[j]
      /\ Len(settling) = 2 => Len(settling') = 1 /\ settling'[1] = settling[2]
  BY <1>t, <1>c, CallsLeft
<1>o. call \in {settling[i] : i \in 1..Len(settling)}
  <2>1. Len(settling) \in 1..2
    BY <1>t, RequestTypes, EmptySeq
  <2> QED
    BY <1>c, <2>1
<1>e. /\ call.outlives \in BOOLEAN /\ call.op \in {"finish", "release"}
      /\ call.op = "finish" => call.status \in Ended /\ call.charge \in Charge
  BY Calls
<1>m. entry.status = "running" => entry.charge = "nothing"
  BY <1>t DEF TakenInv
<1>w. \/ ~present /\ ~call.outlives /\ held' = held /\ entry' = entry
      \/ (present \/ call.outlives) /\ call.op = "release" /\ held' = FALSE /\ entry' = entry
      \/ /\ present \/ call.outlives
         /\ call.op = "finish" /\ held' = held
         /\ entry' = IF entry.status = "running"
                     THEN [status |-> call.status, charge |-> call.charge, plan |-> call.plan] ELSE entry
  <2>1. Head(settling) = call
    BY <1>t, <1>c, CallsLeft
  <2>2. \/ Works(call.outlives) /\ Effect(call)
        \/ ~present /\ ~call.outlives /\ UNCHANGED <<held, entry>>
    BY <2>1, NoFault DEF CallStore
  <2> QED
    BY <1>e, <2>2 DEF Works, Effect
<1>r. \/ entry' = entry
      \/ /\ call.op = "finish" /\ entry.status = "running" /\ entry'.status = call.status /\ entry'.charge = call.charge
         /\ call.status \in Ended /\ entry'.plan = call.plan
  BY <1>e, <1>w
<1>f. entry'.status = "running" => entry' = entry
  BY <1>r DEF Ended
<1>h. held' => held
  BY <1>w
<1>1. TakenInv'
  BY <1>t, <1>m, <1>f DEF TakenInv
<1>2. GivesBackInv'
  <2> SUFFICES ASSUME present'
               PROVE  /\ held' => \E i \in 1..Len(settling') : settling'[i].op = "release"
                      /\ entry'.status = "running" => \E i \in 1..Len(settling') : settling'[i].op = "finish"
    BY DEF GivesBackInv
  <2>0. present
    BY <1>t
  <2>1. ASSUME held' PROVE \E i \in 1..Len(settling') : settling'[i].op = "release"
    <3>1. call.op # "release"
      BY <1>w, <2>0, <2>1
    <3>2. PICK i \in 1..Len(settling) : settling[i].op = "release"
      BY <1>h, <1>t, <2>0, <2>1 DEF GivesBackInv
    <3> QED
      BY <1>l, <3>1, <3>2
  <2>2. ASSUME entry'.status = "running" PROVE \E i \in 1..Len(settling') : settling'[i].op = "finish"
    <3>1. call.op # "finish"
      BY <1>e, <1>w, <1>f, <2>0, <2>2 DEF Ended
    <3>2. PICK i \in 1..Len(settling) : settling[i].op = "finish"
      BY <1>f, <1>t, <2>0, <2>2 DEF GivesBackInv
    <3> QED
      BY <1>l, <3>1, <3>2
  <2> QED
    BY <2>1, <2>2
<1>3. StreamInv'
  <2> SUFFICES ASSUME Outlasts
               PROVE  /\ held' => \E i \in 1..Len(settling') : settling'[i].op = "release" /\ settling'[i].outlives
                      /\ entry'.status = "running" =>
                           \E i \in 1..Len(settling') : settling'[i].op = "finish" /\ settling'[i].outlives
    BY <1>t DEF StreamInv, Outlasts
  <2>1. ASSUME held' PROVE \E i \in 1..Len(settling') : settling'[i].op = "release" /\ settling'[i].outlives
    <3>1. ~(call.op = "release" /\ call.outlives)
      BY <1>w, <2>1
    <3>2. PICK i \in 1..Len(settling) : settling[i].op = "release" /\ settling[i].outlives
      BY <1>h, <1>t, <2>1 DEF StreamInv
    <3>3. settling[i] # call
      BY <3>1, <3>2
    <3>4. PICK j \in 1..Len(settling') : settling'[j] = settling[i]
      BY <1>l, <3>3
    <3> QED
      BY <3>2, <3>4
  <2>2. ASSUME entry'.status = "running"
        PROVE  \E i \in 1..Len(settling') : settling'[i].op = "finish" /\ settling'[i].outlives
    <3>1. ~(call.op = "finish" /\ call.outlives)
      BY <1>e, <1>w, <1>f, <2>2 DEF Ended
    <3>2. PICK i \in 1..Len(settling) : settling[i].op = "finish" /\ settling[i].outlives
      BY <1>f, <1>t, <2>2 DEF StreamInv
    <3>3. settling[i] # call
      BY <3>1, <3>2
    <3>4. PICK j \in 1..Len(settling') : settling'[j] = settling[i]
      BY <1>l, <3>3
    <3> QED
      BY <3>2, <3>4
  <2> QED
    BY <2>1, <2>2
<1>4. PaidInv'
  <2> SUFFICES ASSUME present, upstream.reply = "answered"
               PROVE  \/ entry'.status = "completed" /\ entry'.charge # "nothing"
                      \/ /\ entry'.status = "running"
                         /\ \E i \in 1..Len(settling') : settling'[i].op = "finish"
                         /\ \A i \in 1..Len(settling') :
                              settling'[i].op = "finish" => settling'[i].status = "completed" /\ settling'[i].charge # "nothing"
    BY <1>t DEF PaidInv
  <2>1. CASE entry.status = "completed" /\ entry.charge # "nothing"
    BY <1>r, <2>1
  <2>2. CASE /\ entry.status = "running"
             /\ \E i \in 1..Len(settling) : settling[i].op = "finish"
             /\ \A i \in 1..Len(settling) :
                  settling[i].op = "finish" => settling[i].status = "completed" /\ settling[i].charge # "nothing"
    <3>1. CASE call.op = "finish"
      <4>1. call.status = "completed" /\ call.charge # "nothing"
        BY <1>o, <2>2, <3>1
      <4>2. entry'.status = call.status /\ entry'.charge = call.charge
        BY <1>w, <2>2, <3>1
      <4> QED
        BY <4>1, <4>2
    <3>2. CASE call.op = "release"
      <4>1. entry' = entry
        BY <1>w, <3>2
      <4>2. \E i \in 1..Len(settling') : settling'[i].op = "finish"
        BY <1>l, <2>2, <3>2
      <4>3. \A i \in 1..Len(settling') :
              settling'[i].op = "finish" => settling'[i].status = "completed" /\ settling'[i].charge # "nothing"
        BY <1>l, <2>2
      <4> QED
        BY <2>2, <4>1, <4>2, <4>3
    <3> QED
      BY <1>e, <3>1, <3>2
  <2> QED
    BY <1>t, <2>1, <2>2 DEF PaidInv
<1>5. UnpaidInv'
  <2> SUFFICES ASSUME kind \in Chats, upstream.reply # "answered"
               PROVE  /\ entry'.charge = "nothing"
                      /\ \A i \in 1..Len(settling') : settling'[i].op = "finish" => settling'[i].charge = "nothing"
    BY <1>t DEF UnpaidInv
  <2>1. entry.charge = "nothing" /\ \A i \in 1..Len(settling) : settling[i].op = "finish" => settling[i].charge = "nothing"
    BY <1>t DEF UnpaidInv
  <2>2. entry'.charge = "nothing"
    BY <1>o, <1>r, <2>1
  <2>3. \A i \in 1..Len(settling') : settling'[i].op = "finish" => settling'[i].charge = "nothing"
    BY <1>l, <2>1
  <2> QED
    BY <2>2, <2>3
<1>6. CoveredInv'
  <2> SUFFICES ASSUME upstream.reply = "answered" PROVE CoveredInv'
    BY <1>t DEF CoveredInv
  <2>1. CASE IsSettled(entry.status, entry.charge)
    <3>1. entry.status # "running"
      BY <1>m, <2>1 DEF IsSettled
    <3>2. entry' = entry
      BY <1>r, <3>1
    <3> QED
      BY <2>1, <3>2 DEF CoveredInv
  <2>2. CASE held /\ entry.status = "running" /\ ~present /\ \A i \in 1..Len(settling) : ~settling[i].outlives
    <3>1. held' = held /\ entry' = entry /\ ~present'
      BY <1>t, <1>o, <1>w, <2>2
    <3>2. \A i \in 1..Len(settling') : ~settling'[i].outlives
      BY <1>l, <2>2
    <3> QED
      BY <2>2, <3>1, <3>2 DEF CoveredInv
  <2>3. CASE /\ held /\ entry.status = "running"
             /\ Len(settling) = 2 /\ settling[1].op = "finish" /\ settling[2].op = "release"
             /\ IsSettled(settling[1].status, settling[1].charge) /\ settling[1].outlives = settling[2].outlives
    <3>1. CASE present \/ call.outlives
      <4>0. call.op = "finish" /\ entry.status = "running"
        BY <1>c, <2>3
      <4>1. entry'.status = call.status /\ entry'.charge = call.charge
        BY <1>w, <3>1, <4>0
      <4>2. IsSettled(call.status, call.charge)
        BY <1>c, <2>3
      <4> QED
        BY <4>1, <4>2 DEF CoveredInv, IsSettled
    <3>2. CASE ~(present \/ call.outlives)
      <4>1. held' = held /\ entry' = entry /\ ~present'
        BY <1>t, <1>w, <3>2
      <4>2. Len(settling') = 1 /\ ~settling'[1].outlives
        BY <1>c, <1>l, <2>3, <3>2
      <4>3. \A i \in 1..Len(settling') : ~settling'[i].outlives
        BY <4>2
      <4> QED
        BY <2>3, <4>1, <4>3 DEF CoveredInv
    <3> QED
      BY <3>1, <3>2
  <2> QED
    BY <1>t, <2>1, <2>2, <2>3 DEF CoveredInv
<1>7. PlanInv'
  <2>1. /\ entry.status \in Ended => entry.plan = planning.spent
        /\ \A i \in 1..Len(settling) : settling[i].op = "finish" => settling[i].plan = planning.spent
    BY <1>t DEF PlanInv
  <2>2. entry'.status \in Ended => entry'.plan = planning.spent
    BY <1>o, <1>r, <2>1
  <2>3. \A i \in 1..Len(settling') : settling'[i].op = "finish" => settling'[i].plan = planning.spent
    BY <1>l, <2>1
  <2> QED
    BY <1>t, <2>2, <2>3 DEF PlanInv
<1> QED
  BY <1>1, <1>2, <1>3, <1>4, <1>5, <1>6, <1>7 DEF SettlesInv

\* Every step keeps the invariant.
LEMMA RequestStep == RequestInv /\ [RequestNext]_requestVars => RequestInv'
<1> SUFFICES ASSUME RequestInv, [RequestNext]_requestVars PROVE RequestInv'
  OBVIOUS
<1>1. RequestTypeOK' /\ gates' \in Seq(Gate) /\ settling' \in Seq(StoreCall)
  BY TypesKeep
<1>2. ASSUME faults' = 0 PROVE TakenInv' /\ SettlesInv'
  <2>0. faults = 0
    <3>1. faults' = faults \/ faults' = faults + 1
      BY DEF RequestNext, requestVars, RequesterLeaves, Admit, Reserve, OpenRow, Acquire, SkipTools, PlanTools,
             AskModel, FallBack, Unavailable, Streamed, Buffered, CallStore, Return, Works, FailsIf
    <3>2. faults \in Nat
      BY RequestTypes
    <3> QED
      BY <1>2, <3>1, <3>2
  <2>t. TakenInv /\ SettlesInv
    BY <2>0 DEF RequestInv
  <2>1. CASE UNCHANGED requestVars
    <3>1. TakenInv'
      BY <2>t, <2>1 DEF requestVars, TakenInv
    <3>2. SettlesInv'
      BY <2>t, <2>1 DEF requestVars, SettlesInv, GivesBackInv, StreamInv, Outlasts, PaidInv, UnpaidInv, PlanInv, CoveredInv
    <3> QED
      BY <3>1, <3>2
  <2>2. CASE RequesterLeaves \/ Admit \/ Reserve \/ OpenRow \/ SkipTools \/ PlanTools \/ AskModel \/ FallBack
    BY <1>2, <2>0, <2>2, TakesKeep
  <2>3. CASE Acquire
    BY <1>2, <2>0, <2>3, AcquireKeeps
  <2>4. CASE Unavailable \/ Streamed \/ Buffered
    BY <1>2, <2>0, <2>4, ReplyKeeps
  <2>5. CASE CallStore
    BY <1>2, <2>0, <2>5, StoresKeep
  <2>6. CASE Return
    <3>1. /\ at = "settle" /\ at' = "returned" /\ ~slot' /\ settling = <<>>
          /\ UNCHANGED <<kind, gates, present, passed, held, entry, planning, upstream, settling>>
      <4>1. ~(faults' = faults + 1)
        BY <1>2, <2>0
      <4> QED
        BY <2>6, <4>1 DEF Return
    <3>2. TakenInv'
      BY <2>t, <3>1 DEF TakenInv
    <3>3. SettlesInv'
      BY <2>t, <3>1 DEF SettlesInv, GivesBackInv, StreamInv, Outlasts, PaidInv, UnpaidInv, PlanInv, CoveredInv
    <3> QED
      BY <3>2, <3>3
  <2> QED
    BY <2>1, <2>2, <2>3, <2>4, <2>5, <2>6 DEF RequestNext
<1> QED
  BY <1>1, <1>2 DEF RequestInv

\* As long as the stores answer, a client that stays gets back all its handler
\* took, and one that leaves does after a stream or a generation; who is served
\* is charged, a closed row has what the planning used, and the tokens of an
\* answer are reserved until they are charged (InferenceRequest!RequestIsSettled).
THEOREM RequestHolds == RequestSpec => [](RequestTypeOK /\ RequestIsSettled)
<1>1. RequestInit => RequestInv
  <2> SUFFICES ASSUME RequestInit PROVE RequestInv
    OBVIOUS
  <2>1. gates \in Seq(Gate) /\ Len(gates) \in 0..3
    BY GatesTyped DEF RequestInit
  <2>2. settling \in Seq(StoreCall) /\ Len(settling) = 0 /\ settling = <<>>
    BY EmptySeq DEF RequestInit
  <2>3. gates \in UNION {[1..n -> Gate] : n \in 0..3}
    BY <2>1, GatesAreFunctions
  <2>4. faults \in 0..MaxFaults
    BY RequestAssumption DEF RequestInit
  <2>5. RequestTypeOK
    <3>1. Len(settling) <= 2 /\ \A i \in 1..Len(settling) : settling[i] \in StoreCall
      BY <2>2
    <3>2. entry \in [status: RowStatus, charge: Charge, plan: BOOLEAN]
      BY DEF RequestInit, RowStatus, Charge
    <3>4. planning \in [rounds: 0..2, spent: BOOLEAN]
      BY DEF RequestInit
    <3>3. upstream \in [via: {"none", "hermes", "litellm"}, streams: BOOLEAN, reply: Reply]
      BY DEF RequestInit, Reply
    <3> QED
      BY <2>3, <2>4, <3>1, <3>2, <3>3, <3>4 DEF RequestInit, RequestTypeOK
  <2>6. TakenInv /\ SettlesInv
    BY DEF RequestInit, TakenInv, SettlesInv
  <2> QED
    BY <2>1, <2>2, <2>5, <2>6 DEF RequestInv
<1>2. RequestInv /\ [RequestNext]_requestVars => RequestInv'
  BY RequestStep
<1>3. RequestInv => RequestTypeOK /\ RequestIsSettled
  <2> SUFFICES ASSUME RequestInv PROVE RequestIsSettled
    BY DEF RequestInv
  <2>1. ASSUME faults = 0 PROVE TakenInv /\ SettlesInv
    BY <2>1 DEF RequestInv
  <2>2. ASSUME Returned
        PROVE  /\ settling = <<>> /\ Len(settling) = 0 /\ ~slot
               /\ GivesBackInv /\ StreamInv /\ PaidInv /\ UnpaidInv /\ PlanInv
    BY <2>1, <2>2, EmptySeq DEF Returned, TakenInv, SettlesInv
  <2>3. SettlesUnlessGone
    BY <2>2 DEF SettlesUnlessGone, Clean, GivesBackInv
  <2>4. StreamsSettle
    BY <2>2 DEF StreamsSettle, Clean, StreamInv, Outlasts
  <2>5. AnswersArePaid
    BY <2>2 DEF AnswersArePaid, PaidInv, UnpaidInv, PlanInv
  <2>6. CoveredUntilCharged
    <3> SUFFICES ASSUME faults = 0, upstream.reply = "answered", at \in {"reply", "settle", "returned"}
                 PROVE  held \/ IsSettled(entry.status, entry.charge)
      BY DEF CoveredUntilCharged, IsSettled
    <3>1. CASE at = "reply"
      BY <2>1, <3>1 DEF TakenInv
    <3>2. CASE at \in {"settle", "returned"}
      BY <2>1, <3>2 DEF SettlesInv, CoveredInv
    <3> QED
      BY <3>1, <3>2
  <2> QED
    BY <2>3, <2>4, <2>5, <2>6 DEF RequestIsSettled
<1> QED
  BY <1>1, <1>2, <1>3, PTL DEF RequestSpec

-----------------------------------------------------------------------------
(* The daily capability of a guest network.                                *)

\* The generations of a day that count and were not refused.
GrantedOn(n) == {g \in CountedOn(n) : stage[g] # "refused"}

\* What of a day's worth the counter says is spent.
Spending(n) == IF daily[n] < PerDay THEN daily[n] ELSE PerDay

\* A counter that refuses further calls may say more than was granted, never less
\* but for what strays and zeros gave away.
GrantedInv ==
  PerDay > 0 => \A n \in Days : Cardinality(GrantedOn(n)) <= PerDay * zeroed[n] + strays[n] + Spending(n)

\* A counter falls below zero only on a day with a stray.
ZeroInv ==
  /\ \A n \in Days : zeroed[n] > 0 => strays[n] > 0
  /\ \A g \in Generation : stage[g] = "zeroing" => strays[refundDay[g]] > 0

NewInv == \A g \in Generation : stage[g] = "new" => ~counts[g]

CapabilityInv == CapabilityTypeOK /\ GrantedInv /\ ZeroInv /\ NewInv /\ CounterIsExact

\* Numbers of generations.
LEMMA CapabilityTypes ==
  ASSUME CapabilityTypeOK
  PROVE  /\ today \in Days /\ PerDay \in Nat /\ MaxDay \in Nat
         /\ daily \in [Days -> Int] /\ strays \in [Days -> Nat] /\ zeroed \in [Days -> Nat]
         /\ stage \in [Generation -> Stages] /\ counts \in [Generation -> BOOLEAN]
         /\ day \in [Generation -> Days] /\ refundDay \in [Generation -> Days]
         /\ \A n \in Days : Spending(n) \in Int /\ Spending(n) <= PerDay /\ PerDay * zeroed[n] \in Nat
         /\ \A n : /\ IsFiniteSet(CountedOn(n)) /\ Cardinality(CountedOn(n)) \in Nat
                   /\ IsFiniteSet(GrantedOn(n)) /\ Cardinality(GrantedOn(n)) \in Nat
<1>1. /\ today \in Days /\ PerDay \in Nat /\ MaxDay \in Nat
      /\ daily \in [Days -> Int] /\ strays \in [Days -> Nat] /\ zeroed \in [Days -> Nat]
      /\ stage \in [Generation -> Stages] /\ counts \in [Generation -> BOOLEAN]
      /\ day \in [Generation -> Days] /\ refundDay \in [Generation -> Days]
  BY CapabilityAssumption DEF CapabilityTypeOK
<1>2. ASSUME NEW n \in Days PROVE Spending(n) \in Int /\ Spending(n) <= PerDay /\ PerDay * zeroed[n] \in Nat
  <2>1. zeroed[n] \in Nat /\ daily[n] \in Int
    BY <1>1
  <2>2. \A k, m \in Nat : k * m \in Nat
    OBVIOUS
  <2> QED
    BY <1>1, <2>1, <2>2 DEF Spending
<1>3. ASSUME NEW n
      PROVE  /\ IsFiniteSet(CountedOn(n)) /\ Cardinality(CountedOn(n)) \in Nat
             /\ IsFiniteSet(GrantedOn(n)) /\ Cardinality(GrantedOn(n)) \in Nat
  <2>1. CountedOn(n) \subseteq Generation /\ GrantedOn(n) \subseteq Generation
    BY DEF CountedOn, GrantedOn
  <2> QED
    BY <2>1, CapabilityAssumption, FS_Subset, FS_CardinalityType
<1> QED
  BY <1>1, <1>2, <1>3

\* A step that leaves counters and keys alone and refuses nobody keeps them.
LEMMA CountsStay ==
  ASSUME CapabilityInv, UNCHANGED <<daily, day, counts, strays, zeroed>>,
         \A g \in Generation : (stage'[g] = "refused") = (stage[g] = "refused")
  PROVE  GrantedInv' /\ CounterIsExact'
<1>1. \A n : CountedOn(n)' = CountedOn(n)
  BY DEF CountedOn
<1>2. \A n : GrantedOn(n)' = GrantedOn(n)
  BY <1>1 DEF GrantedOn, CountedOn
<1>3. \A n : Spending(n)' = Spending(n)
  BY DEF Spending
<1>4. GrantedInv'
  BY <1>2, <1>3 DEF CapabilityInv, GrantedInv
<1>5. CounterIsExact'
  BY <1>1 DEF CapabilityInv, CounterIsExact
<1> QED
  BY <1>4, <1>5

\* The call of the limiter.
LEMMA EnforceKeeps ==
  ASSUME CapabilityInv, NEW g \in Generation, EnforceGuestDailyCapability(g)
  PROVE  CapabilityInv'
<1>t. /\ today \in Days /\ PerDay \in Nat /\ daily \in [Days -> Int] /\ strays \in [Days -> Nat] /\ zeroed \in [Days -> Nat]
      /\ stage \in [Generation -> Stages] /\ counts \in [Generation -> BOOLEAN] /\ day \in [Generation -> Days]
      /\ refundDay \in [Generation -> Days]
  BY CapabilityTypes DEF CapabilityInv
<1>1. stage[g] = "new" /\ ~counts[g]
  BY DEF EnforceGuestDailyCapability, CapabilityInv, NewInv
<1>2. PICK s \in {"admitted", "refused"} : stage' = [stage EXCEPT ![g] = s] /\ (PerDay > 0 /\ s = "admitted" => daily[today] + 1 <= PerDay /\ daily' = [daily EXCEPT ![today] = @ + 1])
  BY DEF EnforceGuestDailyCapability, Go
<1>3. UNCHANGED <<today, there, refundDay, strays, zeroed, deletes>>
  BY DEF EnforceGuestDailyCapability
<1>4. stage' \in [Generation -> Stages]
  BY <1>t, <1>2 DEF Stages
<1>5. ZeroInv'
  BY <1>t, <1>2, <1>3 DEF CapabilityInv, ZeroInv
<1>6. CASE UNCHANGED <<daily, day, counts>>
  <2>1. CapabilityTypeOK' /\ NewInv'
    BY <1>t, <1>2, <1>3, <1>4, <1>6 DEF CapabilityInv, CapabilityTypeOK, NewInv
  <2>2. \A n : CountedOn(n)' = CountedOn(n) /\ g \notin CountedOn(n)
    BY <1>1, <1>6 DEF CountedOn
  <2>3. ASSUME NEW n PROVE GrantedOn(n)' = GrantedOn(n)
    <3>1. \A h \in Generation : h # g => stage'[h] = stage[h]
      BY <1>t, <1>2
    <3>2. \A h \in CountedOn(n) : h \in Generation /\ h # g
      BY <2>2 DEF CountedOn
    <3>3. GrantedOn(n)' = {h \in CountedOn(n) : stage'[h] # "refused"}
      BY <2>2 DEF GrantedOn
    <3> QED
      BY <3>1, <3>2, <3>3 DEF GrantedOn
  <2>4. \A n : Spending(n)' = Spending(n)
    BY <1>6 DEF Spending
  <2>5. GrantedInv'
    BY <1>3, <2>3, <2>4 DEF CapabilityInv, GrantedInv
  <2>6. CounterIsExact'
    BY <1>3, <1>6, <2>2 DEF CapabilityInv, CounterIsExact
  <2> QED
    BY <1>5, <2>1, <2>5, <2>6 DEF CapabilityInv
<1>7. CASE /\ daily' = [daily EXCEPT ![today] = @ + 1] /\ day' = [day EXCEPT ![g] = today]
           /\ counts' = [counts EXCEPT ![g] = TRUE]
  <2>1. CapabilityTypeOK' /\ NewInv'
    <3>1. daily' \in [Days -> Int] /\ day' \in [Generation -> Days] /\ counts' \in [Generation -> BOOLEAN]
      BY <1>t, <1>7
    <3>2. NewInv'
      BY <1>t, <1>2, <1>7 DEF CapabilityInv, NewInv
    <3> QED
      BY <1>3, <1>4, <3>1, <3>2 DEF CapabilityInv, CapabilityTypeOK
  <2>2. ASSUME NEW n \in Days
        PROVE  CountedOn(n)' = IF n = today THEN CountedOn(n) \cup {g} ELSE CountedOn(n)
    BY <1>t, <1>1, <1>7 DEF CountedOn
  <2>3. \A n : g \notin CountedOn(n)
    BY <1>1 DEF CountedOn
  <2>4. ASSUME NEW n \in Days
        PROVE  GrantedOn(n)' = IF n = today /\ s = "admitted" THEN GrantedOn(n) \cup {g} ELSE GrantedOn(n)
    BY <1>t, <1>2, <2>2, <2>3 DEF GrantedOn, CountedOn
  <2>5. GrantedInv'
    <3> SUFFICES ASSUME PerDay > 0, NEW n \in Days
                 PROVE  Cardinality(GrantedOn(n)') <= PerDay * zeroed[n] + strays[n] + Spending(n)'
      BY <1>3 DEF GrantedInv
    <3>1. PICK c \in Nat, b \in Nat, k \in Nat :
            c = Cardinality(GrantedOn(n)) /\ b = PerDay * zeroed[n] /\ k = strays[n]
      BY <1>t, CapabilityTypes DEF CapabilityInv
    <3>2. c <= b + k + Spending(n)
      BY <3>1 DEF CapabilityInv, GrantedInv
    <3>3. CASE n = today /\ s = "admitted"
      <4>1. Cardinality(GrantedOn(n)') = c + 1
        <5>1. IsFiniteSet(GrantedOn(n)) /\ g \notin GrantedOn(n)
          BY <2>3, CapabilityTypes DEF CapabilityInv, GrantedOn
        <5> QED
          BY <2>4, <3>1, <3>3, <5>1, FS_AddElement
      <4>2. Spending(n) = daily[n] /\ Spending(n)' = daily[n] + 1 /\ daily[n] \in Int
        BY <1>t, <1>2, <1>7, <3>3 DEF Spending
      <4> QED
        BY <3>1, <3>2, <4>1, <4>2
    <3>4. CASE ~(n = today /\ s = "admitted")
      <4>1. GrantedOn(n)' = GrantedOn(n)
        BY <2>4, <3>4
      <4>2. Spending(n)' >= Spending(n) /\ Spending(n)' \in Int /\ Spending(n) \in Int
        BY <1>t, <1>7 DEF Spending
      <4> QED
        BY <3>1, <3>2, <4>1, <4>2
    <3> QED
      BY <3>3, <3>4
  <2>6. CounterIsExact'
    <3> SUFFICES ASSUME NEW n \in Days, strays[n] = 0 PROVE daily'[n] = Cardinality(CountedOn(n)')
      BY <1>3 DEF CounterIsExact
    <3>1. daily[n] = Cardinality(CountedOn(n)) /\ IsFiniteSet(CountedOn(n))
      BY CapabilityTypes DEF CapabilityInv, CounterIsExact
    <3>2. CASE n = today
      BY <1>t, <1>7, <2>2, <2>3, <3>1, <3>2, FS_AddElement
    <3>3. CASE n # today
      BY <1>t, <1>7, <2>2, <3>1, <3>3
    <3> QED
      BY <3>2, <3>3
  <2> QED
    BY <1>5, <2>1, <2>5, <2>6 DEF CapabilityInv
<1> QED
  BY <1>6, <1>7 DEF EnforceGuestDailyCapability

\* A handler that moves on, and neither counts nor refunds.
LEMMA MovingKeeps ==
  ASSUME CapabilityInv, NEW g \in Generation, NEW s \in Stages, stage[g] \notin {"new", "refused"},
         s \notin {"new", "refused", "zeroing"}, stage' = [stage EXCEPT ![g] = s],
         UNCHANGED <<today, daily, there, day, refundDay, counts, strays, zeroed, deletes>>
  PROVE  CapabilityInv'
<1>t. stage \in [Generation -> Stages]
  BY CapabilityTypes DEF CapabilityInv
<1>1. \A h \in Generation : (stage'[h] = "refused") = (stage[h] = "refused")
  BY <1>t
<1>2. GrantedInv' /\ CounterIsExact'
  BY <1>1, CountsStay
<1>3. CapabilityTypeOK'
  BY <1>t DEF CapabilityInv, CapabilityTypeOK
<1>4. ZeroInv' /\ NewInv'
  BY <1>t DEF CapabilityInv, ZeroInv, NewInv
<1> QED
  BY <1>2, <1>3, <1>4 DEF CapabilityInv

\* A failed generation takes one back from the day it finds.
LEMMA RefundKeeps ==
  ASSUME CapabilityInv, NEW g \in Generation, Refund(g)
  PROVE  CapabilityInv'
<1>t. /\ today \in Days /\ PerDay \in Nat /\ daily \in [Days -> Int] /\ strays \in [Days -> Nat] /\ zeroed \in [Days -> Nat]
      /\ stage \in [Generation -> Stages] /\ counts \in [Generation -> BOOLEAN] /\ day \in [Generation -> Days]
      /\ refundDay \in [Generation -> Days]
  BY CapabilityTypes DEF CapabilityInv
<1>1. stage[g] = "refunding" /\ UNCHANGED <<today, there, day, zeroed, deletes>>
  BY DEF Refund
<1>2. CASE Go(g, "failed") /\ UNCHANGED <<daily, refundDay, counts, strays>>
  BY <1>1, <1>2, MovingKeeps DEF Go, Stages
<1>3. CASE /\ daily' = [daily EXCEPT ![today] = @ - 1] /\ refundDay' = [refundDay EXCEPT ![g] = today]
           /\ counts' = IF counts[g] /\ day[g] = today THEN [counts EXCEPT ![g] = FALSE] ELSE counts
           /\ strays' = IF counts[g] /\ day[g] = today THEN strays ELSE [strays EXCEPT ![today] = @ + 1]
           /\ Go(g, "failed") \/ (daily[today] - 1 < 0 /\ Go(g, "zeroing"))
  <2>1. PICK s \in {"failed", "zeroing"} : stage' = [stage EXCEPT ![g] = s] /\ (s = "zeroing" => daily[today] - 1 < 0)
    BY <1>3 DEF Go
  <2>2. /\ stage' \in [Generation -> Stages] /\ daily' \in [Days -> Int] /\ refundDay' \in [Generation -> Days]
        /\ counts' \in [Generation -> BOOLEAN] /\ strays' \in [Days -> Nat]
    <3>1. stage' \in [Generation -> Stages]
      BY <1>t, <2>1 DEF Stages
    <3>2. daily' \in [Days -> Int] /\ refundDay' \in [Generation -> Days]
      BY <1>t, <1>3
    <3>3. counts' \in [Generation -> BOOLEAN] /\ strays' \in [Days -> Nat]
      BY <1>t, <1>3
    <3> QED
      BY <3>1, <3>2, <3>3
  <2>3. CapabilityTypeOK' /\ NewInv'
    BY <1>t, <1>1, <1>3, <2>1, <2>2 DEF CapabilityInv, CapabilityTypeOK, NewInv
  <2>4. \A n \in Days : daily'[n] = IF n = today THEN daily[n] - 1 ELSE daily[n]
    BY <1>t, <1>3
  <2>s. \A n \in Days : strays'[n] >= strays[n] /\ strays[n] \in Nat /\ strays'[n] \in Nat
    BY <1>t, <1>3
  <2>r. ASSUME NEW n PROVE GrantedOn(n)' = {h \in CountedOn(n)' : stage[h] # "refused"}
    <3>1. \A h \in Generation : (stage'[h] = "refused") = (stage[h] = "refused")
      BY <1>t, <1>1, <2>1
    <3>2. \A h \in CountedOn(n)' : h \in Generation
      BY DEF CountedOn
    <3> QED
      BY <3>1, <3>2 DEF GrantedOn
  <2>5. CASE counts[g] /\ day[g] = today
    <3>1. counts' = [counts EXCEPT ![g] = FALSE] /\ strays' = strays
      BY <1>3, <2>5
    <3>2. ASSUME NEW n \in Days
          PROVE  CountedOn(n)' = IF n = today THEN CountedOn(n) \ {g} ELSE CountedOn(n)
      BY <1>t, <1>1, <2>5, <3>1 DEF CountedOn
    <3>3. g \in CountedOn(today) /\ g \in GrantedOn(today)
      BY <1>1, <2>5 DEF CountedOn, GrantedOn
    <3>4. ASSUME NEW n \in Days
          PROVE  GrantedOn(n)' = IF n = today THEN GrantedOn(n) \ {g} ELSE GrantedOn(n)
      BY <2>r, <3>2 DEF GrantedOn
    <3>5. ZeroInv'
      <4>1. strays[today] = 0 => daily[today] >= 1
        <5>1. CountedOn(today) # {} /\ IsFiniteSet(CountedOn(today)) /\ Cardinality(CountedOn(today)) \in Nat
          BY <3>3, CapabilityTypes DEF CapabilityInv
        <5>2. Cardinality(CountedOn(today)) # 0
          BY <5>1, FS_EmptySet
        <5> QED
          BY <1>t, <5>1, <5>2 DEF CapabilityInv, CounterIsExact
      <4>2. s = "zeroing" => strays[today] > 0
        BY <1>t, <2>1, <4>1
      <4> QED
        BY <1>t, <1>1, <1>3, <2>1, <3>1, <4>2 DEF CapabilityInv, ZeroInv
    <3>6. GrantedInv'
      <4> SUFFICES ASSUME PerDay > 0, NEW n \in Days
                   PROVE  Cardinality(GrantedOn(n)') <= PerDay * zeroed[n] + strays[n] + Spending(n)'
        BY <1>1, <3>1 DEF GrantedInv
      <4>1. PICK c \in Nat, b \in Nat, k \in Nat :
              c = Cardinality(GrantedOn(n)) /\ b = PerDay * zeroed[n] /\ k = strays[n]
        BY <1>t, CapabilityTypes DEF CapabilityInv
      <4>2. c <= b + k + Spending(n)
        BY <4>1 DEF CapabilityInv, GrantedInv
      <4>3. CASE n = today
        <5>1. Cardinality(GrantedOn(n)') = c - 1
          BY <3>3, <3>4, <4>1, <4>3, FS_RemoveElement, CapabilityTypes DEF CapabilityInv
        <5>2. Spending(n)' >= Spending(n) - 1 /\ Spending(n)' \in Int /\ Spending(n) \in Int
          BY <1>t, <2>4 DEF Spending
        <5> QED
          BY <4>1, <4>2, <5>1, <5>2
      <4>4. CASE n # today
        <5>1. Spending(n)' = Spending(n) /\ GrantedOn(n)' = GrantedOn(n)
          BY <2>4, <3>4, <4>4 DEF Spending
        <5> QED
          BY <4>1, <4>2, <5>1
      <4> QED
        BY <4>3, <4>4
    <3>7. CounterIsExact'
      <4> SUFFICES ASSUME NEW n \in Days, strays[n] = 0 PROVE daily'[n] = Cardinality(CountedOn(n)')
        BY <3>1 DEF CounterIsExact
      <4>1. daily[n] = Cardinality(CountedOn(n)) /\ IsFiniteSet(CountedOn(n))
        BY CapabilityTypes DEF CapabilityInv, CounterIsExact
      <4>2. CASE n = today
        BY <2>4, <3>2, <3>3, <4>1, <4>2, FS_RemoveElement
      <4>3. CASE n # today
        BY <2>4, <3>2, <4>1, <4>3
      <4> QED
        BY <4>2, <4>3
    <3> QED
      BY <2>3, <3>5, <3>6, <3>7 DEF CapabilityInv
  <2>6. CASE ~(counts[g] /\ day[g] = today)
    <3>1. counts' = counts /\ strays' = [strays EXCEPT ![today] = @ + 1]
      BY <1>3, <2>6
    <3>2. \A n : CountedOn(n)' = CountedOn(n)
      BY <1>1, <3>1 DEF CountedOn
    <3>3. \A n : GrantedOn(n)' = GrantedOn(n)
      BY <2>r, <3>2 DEF GrantedOn
    <3>4. \A n \in Days : strays'[n] = IF n = today THEN strays[n] + 1 ELSE strays[n]
      BY <1>t, <3>1
    <3>5. ZeroInv'
      <4>1. \A n \in Days : zeroed[n] > 0 => strays'[n] > 0
        BY <2>s DEF CapabilityInv, ZeroInv
      <4>2. ASSUME NEW h \in Generation, stage'[h] = "zeroing" PROVE strays'[refundDay'[h]] > 0
        <5>1. CASE h = g
          BY <1>t, <1>3, <3>4, <5>1
        <5>2. CASE h # g
          <6>1. stage[h] = "zeroing" /\ refundDay'[h] = refundDay[h] /\ refundDay[h] \in Days
            BY <1>t, <1>3, <2>1, <4>2, <5>2
          <6> QED
            BY <2>s, <6>1 DEF CapabilityInv, ZeroInv
        <5> QED
          BY <5>1, <5>2
      <4> QED
        BY <1>1, <4>1, <4>2 DEF ZeroInv
    <3>6. GrantedInv'
      <4> SUFFICES ASSUME PerDay > 0, NEW n \in Days
                   PROVE  Cardinality(GrantedOn(n)') <= PerDay * zeroed[n] + strays'[n] + Spending(n)'
        BY <1>1 DEF GrantedInv
      <4>1. PICK c \in Nat, b \in Nat, k \in Nat :
              c = Cardinality(GrantedOn(n)) /\ b = PerDay * zeroed[n] /\ k = strays[n]
        BY <1>t, CapabilityTypes DEF CapabilityInv
      <4>2. c <= b + k + Spending(n)
        BY <4>1 DEF CapabilityInv, GrantedInv
      <4>3. CASE n = today
        <5>1. Spending(n)' >= Spending(n) - 1 /\ Spending(n)' \in Int /\ Spending(n) \in Int
          BY <1>t, <2>4 DEF Spending
        <5>2. strays'[n] = k + 1
          BY <3>4, <4>1, <4>3
        <5> QED
          BY <3>3, <4>1, <4>2, <5>1, <5>2
      <4>4. CASE n # today
        <5>1. Spending(n)' = Spending(n) /\ strays'[n] = strays[n]
          BY <2>4, <3>4, <4>4 DEF Spending
        <5> QED
          BY <3>3, <4>1, <4>2, <5>1
      <4> QED
        BY <4>3, <4>4
    <3>7. CounterIsExact'
      <4> SUFFICES ASSUME NEW n \in Days, strays'[n] = 0 PROVE daily'[n] = Cardinality(CountedOn(n)')
        BY DEF CounterIsExact
      <4>1. n # today /\ strays[n] = 0
        BY <1>t, <3>4
      <4> QED
        BY <2>4, <3>2, <4>1 DEF CapabilityInv, CounterIsExact
    <3> QED
      BY <2>3, <3>5, <3>6, <3>7 DEF CapabilityInv
  <2> QED
    BY <2>5, <2>6
<1> QED
  BY <1>2, <1>3 DEF Refund

\* The second call of a refund.
LEMMA ZeroKeeps ==
  ASSUME CapabilityInv, NEW g \in Generation, SetZero(g)
  PROVE  CapabilityInv'
<1>t. /\ today \in Days /\ PerDay \in Nat /\ daily \in [Days -> Int] /\ strays \in [Days -> Nat] /\ zeroed \in [Days -> Nat]
      /\ stage \in [Generation -> Stages] /\ counts \in [Generation -> BOOLEAN] /\ day \in [Generation -> Days]
      /\ refundDay \in [Generation -> Days]
  BY CapabilityTypes DEF CapabilityInv
<1>1. /\ stage[g] = "zeroing" /\ stage' = [stage EXCEPT ![g] = "failed"]
      /\ UNCHANGED <<today, there, day, refundDay, counts, strays, deletes>>
  BY DEF SetZero, Go
<1>2. CASE UNCHANGED <<daily, zeroed>>
  BY <1>1, <1>2, MovingKeeps DEF Stages
<1>3. CASE daily' = [daily EXCEPT ![refundDay[g]] = 0] /\ zeroed' = [zeroed EXCEPT ![refundDay[g]] = @ + 1]
  <2>1. PICK m \in Days : m = refundDay[g] /\ strays[m] > 0
    BY <1>t, <1>1 DEF CapabilityInv, ZeroInv
  <2>2. /\ \A n \in Days : daily'[n] = IF n = m THEN 0 ELSE daily[n]
        /\ \A n \in Days : zeroed'[n] = IF n = m THEN zeroed[n] + 1 ELSE zeroed[n]
    BY <1>t, <1>3, <2>1
  <2>3. CapabilityTypeOK' /\ NewInv'
    <3>1. daily' \in [Days -> Int] /\ zeroed' \in [Days -> Nat] /\ stage' \in [Generation -> Stages]
      BY <1>t, <1>1, <1>3 DEF Stages
    <3>2. NewInv'
      BY <1>t, <1>1 DEF CapabilityInv, NewInv
    <3> QED
      BY <1>1, <3>1, <3>2 DEF CapabilityInv, CapabilityTypeOK
  <2>4. ZeroInv'
    BY <1>t, <1>1, <2>1, <2>2 DEF CapabilityInv, ZeroInv
  <2>5. \A n : CountedOn(n)' = CountedOn(n)
    BY <1>1 DEF CountedOn
  <2>6. ASSUME NEW n PROVE GrantedOn(n)' = GrantedOn(n)
    <3>1. \A h \in Generation : (stage'[h] = "refused") = (stage[h] = "refused")
      BY <1>t, <1>1
    <3>2. \A h \in CountedOn(n) : h \in Generation
      BY DEF CountedOn
    <3> QED
      BY <2>5, <3>1, <3>2 DEF GrantedOn
  <2>7. GrantedInv'
    <3> SUFFICES ASSUME PerDay > 0, NEW n \in Days
                 PROVE  Cardinality(GrantedOn(n)) <= PerDay * zeroed'[n] + strays[n] + Spending(n)'
      BY <1>1, <2>6 DEF GrantedInv
    <3>1. PICK c \in Nat, b \in Nat, k \in Nat :
            c = Cardinality(GrantedOn(n)) /\ b = PerDay * zeroed[n] /\ k = strays[n]
      BY <1>t, CapabilityTypes DEF CapabilityInv
    <3>2. c <= b + k + Spending(n) /\ Spending(n) \in Int /\ Spending(n) <= PerDay
      BY <3>1, CapabilityTypes DEF CapabilityInv, GrantedInv
    <3>3. CASE n = m
      <4>1. \A p, z \in Nat : p * (z + 1) = p * z + p
        OBVIOUS
      <4>2. PerDay * zeroed'[n] = b + PerDay
        <5>1. zeroed[n] \in Nat /\ zeroed'[n] = zeroed[n] + 1
          BY <1>t, <2>2, <3>3
        <5> QED
          BY <1>t, <3>1, <4>1, <5>1
      <4>3. Spending(n)' = 0
        BY <2>2, <3>3 DEF Spending
      <4> QED
        BY <1>t, <3>1, <3>2, <4>2, <4>3
    <3>4. CASE n # m
      <4>1. Spending(n)' = Spending(n) /\ zeroed'[n] = zeroed[n]
        BY <2>2, <3>4 DEF Spending
      <4> QED
        BY <3>1, <3>2, <4>1
    <3> QED
      BY <3>3, <3>4
  <2>8. CounterIsExact'
    <3> SUFFICES ASSUME NEW n \in Days, strays[n] = 0 PROVE daily'[n] = Cardinality(CountedOn(n))
      BY <1>1, <2>5 DEF CounterIsExact
    <3>1. n # m
      BY <2>1
    <3> QED
      BY <2>2, <3>1 DEF CapabilityInv, CounterIsExact
  <2> QED
    BY <2>3, <2>4, <2>7, <2>8 DEF CapabilityInv
<1> QED
  BY <1>2, <1>3 DEF SetZero

\* An administrator deletes the keys: nothing counts any more.
LEMMA ClearKeeps ==
  ASSUME CapabilityInv, ClearCapability
  PROVE  CapabilityInv'
<1>t. /\ PerDay \in Nat /\ strays \in [Days -> Nat] /\ zeroed \in [Days -> Nat] /\ deletes \in Nat
  BY CapabilityTypes DEF CapabilityInv, CapabilityTypeOK
<1>1. /\ deletes' = deletes + 1 /\ daily' = [n \in Days |-> 0] /\ counts' = [g \in Generation |-> FALSE]
      /\ UNCHANGED <<today, stage, there, day, refundDay, strays, zeroed>>
  BY DEF ClearCapability
<1>2. CapabilityTypeOK'
  BY <1>t, <1>1 DEF CapabilityInv, CapabilityTypeOK
<1>3. ZeroInv' /\ NewInv'
  BY <1>1 DEF CapabilityInv, ZeroInv, NewInv
<1>4. \A n : CountedOn(n)' = {}
  BY <1>1 DEF CountedOn
<1>5. \A n : GrantedOn(n)' = {}
  BY <1>4 DEF GrantedOn
<1>6. GrantedInv'
  <2> SUFFICES ASSUME PerDay > 0, NEW n \in Days
               PROVE  Cardinality(GrantedOn(n)') <= PerDay * zeroed[n] + strays[n] + Spending(n)'
    BY <1>1 DEF GrantedInv
  <2>1. Cardinality(GrantedOn(n)') = 0 /\ Spending(n)' = 0
    BY <1>1, <1>5, FS_EmptySet DEF Spending
  <2>2. PerDay * zeroed[n] \in Nat /\ strays[n] \in Nat
    BY <1>t, CapabilityTypes DEF CapabilityInv
  <2> QED
    BY <2>1, <2>2
<1>7. CounterIsExact'
  BY <1>1, <1>4, FS_EmptySet DEF CounterIsExact
<1> QED
  BY <1>2, <1>3, <1>6, <1>7 DEF CapabilityInv

\* Every step keeps the invariant.
LEMMA CapabilityStep == CapabilityInv /\ [CapabilityNext]_capabilityVars => CapabilityInv'
<1> SUFFICES ASSUME CapabilityInv, [CapabilityNext]_capabilityVars PROVE CapabilityInv'
  OBVIOUS
<1>1. ASSUME UNCHANGED <<daily, day, counts, strays, zeroed, stage, refundDay>>, CapabilityTypeOK' PROVE CapabilityInv'
  <2>1. GrantedInv' /\ CounterIsExact'
    BY <1>1, CountsStay
  <2>2. ZeroInv' /\ NewInv'
    BY <1>1 DEF CapabilityInv, ZeroInv, NewInv
  <2> QED
    BY <1>1, <2>1, <2>2 DEF CapabilityInv
<1>2. CASE UNCHANGED capabilityVars
  BY <1>1, <1>2 DEF capabilityVars, CapabilityInv, CapabilityTypeOK
<1>3. CASE ClearCapability
  BY <1>3, ClearKeeps
<1>4. CASE Midnight
  <2>1. today' \in Days
    BY <1>4, CapabilityTypes DEF Midnight, Days, CapabilityInv
  <2> QED
    BY <1>1, <1>4, <2>1 DEF Midnight, CapabilityInv, CapabilityTypeOK
<1>5. ASSUME NEW g \in Generation, ClientLeaves(g) PROVE CapabilityInv'
  BY <1>1, <1>5 DEF ClientLeaves, CapabilityInv, CapabilityTypeOK
<1>6. ASSUME NEW g \in Generation, StartGeneration(g) \/ AskProvider(g) \/ CheckResult(g) \/ StoreResult(g)
      PROVE  CapabilityInv'
  <2>1. PICK s \in Stages : stage' = [stage EXCEPT ![g] = s] /\ s \notin {"new", "refused", "zeroing"}
    BY <1>6 DEF StartGeneration, AskProvider, CheckResult, StoreResult, Go, Stages
  <2>2. stage[g] \notin {"new", "refused"} /\ UNCHANGED <<today, daily, there, day, refundDay, counts, strays, zeroed, deletes>>
    BY <1>6 DEF StartGeneration, AskProvider, CheckResult, StoreResult, Generating
  <2> QED
    BY <2>1, <2>2, MovingKeeps
<1>7. ASSUME NEW g \in Generation, EnforceGuestDailyCapability(g) \/ Refund(g) \/ SetZero(g) PROVE CapabilityInv'
  BY <1>7, EnforceKeeps, RefundKeeps, ZeroKeeps
<1> QED
  BY <1>2, <1>3, <1>4, <1>5, <1>6, <1>7 DEF CapabilityNext

\* What a network may generate in a day and what its counter says drift apart by
\* refunds of another day or from before a reset only, for any number of
\* generations.
THEOREM CapabilityHolds == CapabilitySpec => [](CapabilityTypeOK /\ CapabilityIsMetered)
<1>1. CapabilityInit => CapabilityInv
  <2> SUFFICES ASSUME CapabilityInit PROVE CapabilityInv
    OBVIOUS
  <2>1. CapabilityTypeOK
    BY CapabilityAssumption DEF CapabilityInit, CapabilityTypeOK, Days, Stages
  <2>2. ZeroInv /\ NewInv
    BY DEF CapabilityInit, ZeroInv, NewInv
  <2>3. \A n : CountedOn(n) = {}
    BY DEF CapabilityInit, CountedOn
  <2>4. \A n : GrantedOn(n) = {}
    BY <2>3 DEF GrantedOn
  <2>5. GrantedInv
    <3> SUFFICES ASSUME PerDay > 0, NEW n \in Days
                 PROVE  Cardinality(GrantedOn(n)) <= PerDay * zeroed[n] + strays[n] + Spending(n)
      BY DEF GrantedInv
    <3>1. Cardinality(GrantedOn(n)) = 0 /\ Spending(n) = 0 /\ zeroed[n] = 0 /\ strays[n] = 0
      BY <2>4, FS_EmptySet DEF Spending, CapabilityInit
    <3>2. PerDay * zeroed[n] \in Nat
      BY <2>1, CapabilityTypes
    <3> QED
      BY <3>1, <3>2
  <2>6. CounterIsExact
    BY <2>3, FS_EmptySet DEF CapabilityInit, CounterIsExact
  <2> QED
    BY <2>1, <2>2, <2>5, <2>6 DEF CapabilityInv
<1>2. CapabilityInv /\ [CapabilityNext]_capabilityVars => CapabilityInv'
  BY CapabilityStep
<1>3. CapabilityInv => CapabilityTypeOK /\ CapabilityIsMetered
  <2> SUFFICES ASSUME CapabilityInv PROVE GrantedWithinDay
    BY DEF CapabilityInv, CapabilityIsMetered
  <2>1. \A n \in Days : zeroed[n] > 0 => strays[n] > 0
    BY DEF CapabilityInv, ZeroInv
  <2>2. ASSUME PerDay > 0, NEW n \in Days
        PROVE  Cardinality(GrantedOn(n)) <= PerDay * (1 + zeroed[n]) + strays[n]
    <3>1. PICK c \in Nat, b \in Nat, k \in Nat :
            c = Cardinality(GrantedOn(n)) /\ b = PerDay * zeroed[n] /\ k = strays[n]
      BY CapabilityTypes DEF CapabilityInv
    <3>2. c <= b + k + Spending(n) /\ Spending(n) \in Int /\ Spending(n) <= PerDay /\ PerDay \in Nat /\ zeroed[n] \in Nat
      BY <2>2, <3>1, CapabilityTypes DEF CapabilityInv, GrantedInv
    <3>3. \A p, z \in Nat : p * (1 + z) = p * z + p
      OBVIOUS
    <3>4. PerDay * (1 + zeroed[n]) = b + PerDay
      BY <3>1, <3>2, <3>3
    <3> QED
      BY <3>1, <3>2, <3>4
  <2> QED
    BY <2>1, <2>2 DEF GrantedWithinDay, GrantedOn
<1> QED
  BY <1>1, <1>2, <1>3, PTL DEF CapabilitySpec

-----------------------------------------------------------------------------
(* The rate of guest chats, device by device.                              *)

\* The ticks of so many seconds, and of the hour.
Ticks(s) == s * Second
HourLong == Hour * Second

\* The chats of a device are in the order of the clock.
InOrder(sent, now) ==
  /\ \A i \in 1..Len(sent) : sent[i] <= now
  /\ \A i, j \in 1..Len(sent) : i <= j => sent[i] <= sent[j]

\* The key of the hour counts the last chats of a device, expires an hour after
\* the first of them, and was made an hour after whatever is a limit further back.
HourOf(sent, calls, expiry) ==
  /\ calls = 0 => Len(sent) = 0
  /\ calls > 0 =>
       /\ calls <= RequestsPerHour /\ calls <= Len(sent)
       /\ expiry = sent[Len(sent) - calls + 1] + HourLong
       /\ \A j \in 1..Len(sent) :
            j + RequestsPerHour <= Len(sent) - calls => sent[j] + HourLong <= sent[Len(sent) - calls + 1]

\* More than two windows' worth of chats take an hour.
SpacedOf(sent) ==
  \A i \in 1..Len(sent) : i + 2 * RequestsPerHour <= Len(sent) => sent[i] + HourLong <= sent[i + 2 * RequestsPerHour]

\* The other key holds the second of the last chat's clock, which was not far
\* off, or nothing.
GapOf(sent, clock, expiry) ==
  /\ Len(sent) = 0 => clock = 0
  /\ Len(sent) > 0 =>
       /\ clock > 0 /\ Ticks(clock) <= sent[Len(sent)] /\ sent[Len(sent)] < Ticks(clock) + Second + MaxDelay
       /\ expiry = sent[Len(sent)] + HourLong

\* Two chats are apart by the interval, less a second and the delay.
ApartOf(sent) ==
  \A i \in 1..Len(sent) : i + 1 <= Len(sent) => sent[i] + Ticks(MinInterval) < sent[i + 1] + Second + MaxDelay

DeviceInv(d) ==
  /\ InOrder(admitted[d], time)
  /\ RequestsPerHour > 0 => HourOf(admitted[d], hourly[d], hourlyExpiry[d]) /\ SpacedOf(admitted[d])
  /\ MinInterval > 0 => GapOf(admitted[d], last[d], lastExpiry[d]) /\ ApartOf(admitted[d])

\* A script comes at most MaxDelay after its clock, which has passed a second.
SampledInv ==
  /\ time >= Second
  /\ \A c \in Chat : sampled[c] # 0 => sampled[c] >= Second /\ sampled[c] <= time /\ time <= sampled[c] + MaxDelay

RateInv == RateTypeOK /\ SampledInv /\ \A d \in Device : DeviceInv(d)

\* Seconds have ticks, and add up.
LEMMA TickFacts ==
  ASSUME NEW a \in Nat, NEW b \in Nat
  PROVE  /\ Ticks(a) \in Nat /\ Ticks(a + b) = Ticks(a) + Ticks(b)
         /\ a <= b => Ticks(a) <= Ticks(b)
         /\ a < b => Ticks(a) + Second <= Ticks(b)
<1>1. Second \in Nat /\ Second > 0
  BY RateAssumption
<1>2. \A x, y \in Nat : x * Second \in Nat /\ (x + y) * Second = x * Second + y * Second
  BY <1>1
<1>3. Ticks(a) \in Nat /\ Ticks(b) \in Nat /\ Ticks(a + b) = Ticks(a) + Ticks(b) /\ Ticks(1) = Second
  BY <1>1, <1>2 DEF Ticks
<1>4. ASSUME a <= b PROVE Ticks(a) <= Ticks(b)
  <2>1. PICK c \in Nat : b = a + c
    <3>1. b - a \in Nat /\ b = a + (b - a)
      BY <1>4
    <3> QED
      BY <3>1
  <2>2. Ticks(b) = Ticks(a) + Ticks(c) /\ Ticks(c) \in Nat
    BY <1>2, <2>1 DEF Ticks
  <2> QED
    BY <1>3, <2>2
<1>5. ASSUME a < b PROVE Ticks(a) + Second <= Ticks(b)
  <2>1. PICK c \in Nat : b = (a + 1) + c
    <3>1. b - (a + 1) \in Nat /\ b = (a + 1) + (b - (a + 1))
      BY <1>5
    <3> QED
      BY <3>1
  <2>2. Ticks(b) = Ticks(a + 1) + Ticks(c) /\ Ticks(c) \in Nat /\ Ticks(a + 1) = Ticks(a) + Ticks(1)
    BY <1>2, <2>1 DEF Ticks
  <2> QED
    BY <1>1, <1>3, <2>2
<1> QED
  BY <1>3, <1>4, <1>5

\* The hour is long enough for the interval.
LEMMA HourFacts == HourLong \in Nat /\ HourLong > 0 /\ Ticks(MinInterval) <= HourLong
<1>1. Hour \in Nat /\ Hour > 0 /\ MinInterval \in Nat /\ MinInterval <= Hour /\ Second > 0 /\ Second \in Nat
  BY RateAssumption
<1>2. Ticks(MinInterval) <= Ticks(Hour) /\ Ticks(Hour) \in Nat /\ Ticks(0) + Second <= Ticks(Hour) /\ Ticks(0) \in Nat
  BY <1>1, TickFacts
<1>3. Ticks(Hour) = HourLong
  BY DEF Ticks, HourLong
<1> QED
  BY <1>1, <1>2, <1>3

\* A division leaves a remainder below its divisor.
LEMMA Remainder ==
  ASSUME NEW t \in Nat, NEW s \in Nat \ {0}
  PROVE  /\ t \div s \in Nat
         /\ (t \div s) * s <= t /\ t < (t \div s) * s + s
OBVIOUS

\* The second of an instant.
LEMMA UnixFacts ==
  ASSUME NEW t \in Nat
  PROVE  /\ Unix(t) \in Nat /\ Ticks(Unix(t)) <= t /\ t < Ticks(Unix(t)) + Second
         /\ t >= Second => Unix(t) > 0
<1>1. Second \in Nat \ {0}
  BY RateAssumption
<1>2. Unix(t) \in Nat /\ Ticks(Unix(t)) <= t /\ t < Ticks(Unix(t)) + Second
  BY <1>1, Remainder DEF Unix, Ticks
<1>3. Unix(t) = 0 => Ticks(Unix(t)) = 0
  BY <1>1 DEF Ticks
<1> QED
  BY <1>1, <1>2, <1>3

\* One more chat stays in order.
LEMMA OrderGrows ==
  ASSUME NEW sent \in Seq(Nat), NEW now \in Nat, InOrder(sent, now)
  PROVE  InOrder(Append(sent, now), now)
<1> DEFINE n == Len(sent)
<1> DEFINE b == Append(sent, now)
<1>1. n \in Nat /\ \A i \in 1..n : sent[i] \in Nat
  BY LenProperties, ElementOfSeq
<1>2. Len(b) = n + 1 /\ b[n + 1] = now /\ \A i \in 1..n : b[i] = sent[i]
  BY <1>1, AppendProperties
<1>3. (\A i \in 1..n : sent[i] <= now) /\ \A i, j \in 1..n : i <= j => sent[i] <= sent[j]
  BY DEF InOrder
<1> HIDE DEF n, b
<1>4. 1..(n + 1) = 1..n \cup {n + 1}
  BY <1>1
<1>5. \A i \in 1..(n + 1) : b[i] <= now
  BY <1>1, <1>2, <1>3, <1>4
<1>6. ASSUME NEW i \in 1..(n + 1), NEW j \in 1..(n + 1), i <= j PROVE b[i] <= b[j]
  <2>1. CASE j = n + 1
    BY <1>2, <1>5, <2>1
  <2>2. CASE j # n + 1
    BY <1>1, <1>2, <1>3, <1>6, <2>2
  <2> QED
    BY <2>1, <2>2
<1>7. InOrder(b, now)
  BY <1>2, <1>5, <1>6 DEF InOrder
<1> QED
  BY <1>7 DEF b

\* A chat within the limit keeps the key and the spacing.
LEMMA HourGrows ==
  ASSUME NEW sent \in Seq(Nat), NEW now \in Nat, NEW calls \in Nat, NEW expiry \in Nat,
         NEW live \in Nat, live = (IF now < expiry THEN calls ELSE 0), live < RequestsPerHour,
         InOrder(sent, now), HourOf(sent, calls, expiry), SpacedOf(sent)
  PROVE  /\ HourOf(Append(sent, now), live + 1, IF live = 0 THEN now + HourLong ELSE expiry)
         /\ SpacedOf(Append(sent, now))
<1> DEFINE n == Len(sent)
<1> DEFINE b == Append(sent, now)
<1> DEFINE R == RequestsPerHour
<1>1. n \in Nat /\ (\A i \in 1..n : sent[i] \in Nat) /\ R \in Nat /\ R > 0 /\ HourLong \in Nat
  BY LenProperties, ElementOfSeq, RateAssumption, HourFacts
<1>2. Len(b) = n + 1 /\ b[n + 1] = now /\ \A i \in 1..n : b[i] = sent[i]
  BY <1>1, AppendProperties
<1>3. (\A i \in 1..n : sent[i] <= now) /\ \A i, j \in 1..n : i <= j => sent[i] <= sent[j]
  BY DEF InOrder
<1>4. /\ calls = 0 => n = 0
      /\ calls > 0 => calls <= R /\ calls <= n /\ expiry = sent[n - calls + 1] + HourLong
      /\ \A j \in 1..n : calls > 0 /\ j + R <= n - calls => sent[j] + HourLong <= sent[n - calls + 1]
  BY DEF HourOf
<1>5. \A i \in 1..n : i + 2 * R <= n => sent[i] + HourLong <= sent[i + 2 * R]
  BY DEF SpacedOf
<1>g. /\ HourOf(b, live + 1, IF live = 0 THEN now + HourLong ELSE expiry)
           <=> /\ live + 1 <= R /\ live + 1 <= n + 1
               /\ (IF live = 0 THEN now + HourLong ELSE expiry) = b[n - live + 1] + HourLong
               /\ \A j \in 1..(n + 1) : j + R <= n - live => b[j] + HourLong <= b[n - live + 1]
      /\ SpacedOf(b) <=> \A i \in 1..(n + 1) : i + 2 * R <= n + 1 => b[i] + HourLong <= b[i + 2 * R]
  <2>1. Len(b) - (live + 1) = n - live /\ n + 1 - (live + 1) = n - live /\ live + 1 > 0 /\ live + 1 # 0
    BY <1>1, <1>2
  <2> QED
    BY <1>2, <2>1 DEF HourOf, SpacedOf
<1> HIDE DEF n, b, R
<1>6. CASE live = 0
  <2>1. ASSUME NEW j \in 1..n, j + R <= n PROVE sent[j] + HourLong <= now
    <3>1. calls > 0 /\ ~(now < expiry)
      BY <1>1, <1>4, <1>6
    <3>2. (n - calls + 1) \in 1..n /\ j <= n - calls + 1 /\ calls <= R
      BY <1>1, <1>4, <2>1, <3>1
    <3> DEFINE f == n - calls + 1
    <3>3. sent[j] <= sent[f] /\ sent[f] + HourLong <= now /\ sent[j] \in Nat /\ sent[f] \in Nat
      BY <1>1, <1>3, <1>4, <3>1, <3>2
    <3> QED
      BY <1>1, <3>3
  <2>2. \A j \in 1..(n + 1) : j + R <= n - live => b[j] + HourLong <= b[n - live + 1]
    <3> SUFFICES ASSUME NEW j \in 1..(n + 1), j + R <= n PROVE b[j] + HourLong <= b[n + 1]
      BY <1>1, <1>6
    <3>1. j \in 1..n
      BY <1>1
    <3> QED
      BY <1>2, <2>1, <3>1
  <2>3. n - live + 1 = n + 1 /\ live + 1 <= R /\ live + 1 <= n + 1
    BY <1>1, <1>6
  <2>4. \A i \in 1..(n + 1) : i + 2 * R <= n + 1 => b[i] + HourLong <= b[i + 2 * R]
    <3> SUFFICES ASSUME NEW i \in 1..(n + 1), i + 2 * R <= n + 1 PROVE b[i] + HourLong <= b[i + 2 * R]
      OBVIOUS
    <3>1. i \in 1..n /\ i + R <= n
      BY <1>1
    <3>2. CASE i + 2 * R <= n
      BY <1>1, <1>2, <1>5, <3>1, <3>2
    <3>3. CASE i + 2 * R = n + 1
      BY <1>2, <2>1, <3>1, <3>3
    <3> QED
      BY <1>1, <3>2, <3>3
  <2> QED
    BY <1>2, <1>6, <1>g, <2>2, <2>3, <2>4 DEF b
<1>7. CASE live # 0
  <2> DEFINE f == n - calls + 1
  <2>1. live = calls /\ calls > 0 /\ now < expiry
    BY <1>7
  <2>2. f \in 1..n /\ n - live + 1 = f /\ sent[f] \in Nat /\ sent[f] <= now /\ b[f] = sent[f]
    BY <1>1, <1>2, <1>3, <1>4, <2>1
  <2>3. live + 1 <= R /\ live + 1 <= n + 1 /\ expiry = b[f] + HourLong
    BY <1>1, <1>4, <2>1, <2>2 DEF R
  <2>4. ASSUME NEW j \in 1..(n + 1), j + R <= n - live PROVE b[j] + HourLong <= b[f]
    <3>1. j \in 1..n /\ j + R <= n - calls
      BY <1>1, <2>1, <2>4
    <3> QED
      BY <1>2, <1>4, <2>1, <2>2, <3>1
  <2>5. ASSUME NEW i \in 1..(n + 1), i + 2 * R <= n + 1 PROVE b[i] + HourLong <= b[i + 2 * R]
    <3>1. i \in 1..n /\ sent[i] \in Nat /\ b[i] = sent[i]
      BY <1>1, <1>2, <2>5
    <3>2. CASE i + 2 * R <= n
      BY <1>1, <1>2, <1>5, <3>1, <3>2
    <3>3. CASE i + 2 * R = n + 1
      <4>1. i + R <= n - calls
        BY <1>1, <2>1, <2>3, <3>3
      <4>2. sent[i] + HourLong <= sent[f]
        BY <1>4, <2>1, <3>1, <4>1
      <4>3. b[i + 2 * R] = now /\ i + 2 * R \in 1..(n + 1)
        BY <1>1, <1>2, <3>3
      <4> QED
        BY <1>1, <2>2, <3>1, <4>2, <4>3
    <3> QED
      BY <1>1, <2>5, <3>2, <3>3
  <2> HIDE DEF f
  <2>6. /\ (IF live = 0 THEN now + HourLong ELSE expiry) = b[n - live + 1] + HourLong
        /\ \A j \in 1..(n + 1) : j + R <= n - live => b[j] + HourLong <= b[n - live + 1]
    BY <1>7, <2>2, <2>3, <2>4
  <2> QED
    BY <1>g, <2>3, <2>5, <2>6 DEF b
<1> QED
  BY <1>6, <1>7

\* Clocks apart by so much put what is near them apart by it, less how near.
LEMMA LaterBy ==
  ASSUME NEW a \in Nat, NEW c \in Nat, NEW m \in Nat, NEW s \in Nat, NEW d \in Nat, NEW k \in Nat, NEW now \in Nat,
         a < c + s + d, c + m <= k, k <= now
  PROVE  a + m < now + s + d
OBVIOUS

\* A chat that is not too soon keeps the gap.
LEMMA GapGrows ==
  ASSUME NEW sent \in Seq(Nat), NEW now \in Nat, NEW clock \in Nat, NEW expiry \in Nat, NEW mine \in Nat,
         mine > 0, Ticks(mine) <= now, now < Ticks(mine) + Second + MaxDelay,
         now < expiry /\ clock > 0 => mine - clock >= MinInterval,
         GapOf(sent, clock, expiry), ApartOf(sent)
  PROVE  GapOf(Append(sent, now), mine, now + HourLong) /\ ApartOf(Append(sent, now))
<1> DEFINE n == Len(sent)
<1> DEFINE b == Append(sent, now)
<1>1. /\ n \in Nat /\ \A i \in 1..n : sent[i] \in Nat
      /\ MinInterval \in Nat /\ MaxDelay \in Nat /\ HourLong \in Nat /\ Second \in Nat /\ Second > 0
  BY LenProperties, ElementOfSeq, RateAssumption, HourFacts
<1>2. Len(b) = n + 1 /\ b[n + 1] = now /\ \A i \in 1..n : b[i] = sent[i]
  BY <1>1, AppendProperties
<1>3. n > 0 => /\ clock > 0 /\ Ticks(clock) <= sent[n] /\ sent[n] < Ticks(clock) + Second + MaxDelay
               /\ expiry = sent[n] + HourLong
  BY DEF GapOf
<1> DEFINE M == Ticks(MinInterval)
<1>4. \A i \in 1..n : i + 1 <= n => sent[i] + M < sent[i + 1] + Second + MaxDelay
  BY DEF ApartOf
<1>5. GapOf(b, mine, now + HourLong)
  BY <1>1, <1>2 DEF GapOf
<1>m. M \in Nat /\ M <= HourLong
  BY <1>1, TickFacts, HourFacts
<1>8. ApartOf(b) <=> \A i \in 1..(n + 1) : i + 1 <= n + 1 => b[i] + M < b[i + 1] + Second + MaxDelay
  BY <1>2 DEF ApartOf
<1>9. mine - clock >= MinInterval => Ticks(clock) + M <= Ticks(mine)
  <2>1. Ticks(clock + MinInterval) = Ticks(clock) + M /\ clock + MinInterval \in Nat
    BY <1>1, TickFacts
  <2>2. clock + MinInterval <= mine => Ticks(clock + MinInterval) <= Ticks(mine)
    BY <2>1, TickFacts
  <2> QED
    BY <1>1, <2>1, <2>2
<1>k. Ticks(clock) \in Nat /\ Ticks(mine) \in Nat
  BY TickFacts
<1> HIDE DEF n, b, M
<1>6. ASSUME n > 0 PROVE sent[n] + M < now + Second + MaxDelay
  <2>1. n \in 1..n /\ sent[n] \in Nat
    BY <1>1, <1>6
  <2>2. CASE now < expiry
    <3>1. Ticks(clock) + M <= Ticks(mine)
      BY <1>3, <1>6, <1>9, <2>2
    <3>2. sent[n] < Ticks(clock) + Second + MaxDelay /\ Second \in Nat /\ MaxDelay \in Nat
      BY <1>1, <1>3, <1>6
    <3> QED
      BY <1>k, <1>m, <2>1, <3>1, <3>2, LaterBy
  <2>3. CASE ~(now < expiry)
    BY <1>1, <1>3, <1>6, <1>m, <2>1, <2>3
  <2> QED
    BY <2>2, <2>3
<1>7. ASSUME NEW i \in 1..(n + 1), i + 1 <= n + 1 PROVE b[i] + M < b[i + 1] + Second + MaxDelay
  <2>1. i \in 1..n /\ n > 0
    BY <1>1, <1>7
  <2>2. CASE i = n
    BY <1>2, <1>6, <2>1, <2>2
  <2>3. CASE i # n
    <3>1. i + 1 \in 1..n /\ b[i] = sent[i] /\ b[i + 1] = sent[i + 1]
      BY <1>1, <1>2, <2>1, <2>3
    <3>2. sent[i] + M < sent[i + 1] + Second + MaxDelay
      BY <1>1, <1>4, <2>1, <3>1
    <3> QED
      BY <3>1, <3>2
  <2> QED
    BY <2>2, <2>3
<1> QED
  BY <1>5, <1>7, <1>8 DEF b

\* At first nobody has sent anything.
LEMMA RateBegins == RateInit => RateInv
<1> SUFFICES ASSUME RateInit PROVE RateInv
  OBVIOUS
<1>1. /\ time = Second /\ clears = 0 /\ sampled = [c \in Chat |-> 0]
      /\ hourly = [d \in Device |-> 0] /\ hourlyExpiry = [d \in Device |-> 0]
      /\ last = [d \in Device |-> 0] /\ lastExpiry = [d \in Device |-> 0]
      /\ admitted = [d \in Device |-> <<>>]
  BY DEF RateInit
<1>2. <<>> \in Seq(Nat) /\ Len(<<>>) = 0
  BY EmptySeq
<1>3. RateTypeOK /\ SampledInv
  BY <1>1, <1>2, RateAssumption DEF RateTypeOK, SampledInv
<1>4. ASSUME NEW d \in Device PROVE DeviceInv(d)
  <2>1. admitted[d] = <<>> /\ hourly[d] = 0 /\ last[d] = 0 /\ Len(admitted[d]) = 0 /\ 1..Len(admitted[d]) = {}
    BY <1>1, <1>2
  <2> QED
    BY <2>1 DEF DeviceInv, InOrder, HourOf, SpacedOf, GapOf, ApartOf
<1> QED
  BY <1>3, <1>4 DEF RateInv

\* A device whose keys and chats stay keeps its relation to them.
LEMMA DeviceStays ==
  ASSUME NEW d \in Device, DeviceInv(d), RateTypeOK, time' \in Nat, time <= time',
         admitted'[d] = admitted[d], hourly'[d] = hourly[d], hourlyExpiry'[d] = hourlyExpiry[d],
         last'[d] = last[d], lastExpiry'[d] = lastExpiry[d]
  PROVE  DeviceInv(d)'
<1>1. \A i \in 1..Len(admitted[d]) : admitted[d][i] \in Nat
  BY ElementOfSeq DEF RateTypeOK
<1>2. InOrder(admitted[d], time)'
  <2>1. time \in Nat
    BY DEF RateTypeOK
  <2>2. \A i \in 1..Len(admitted[d]) : admitted[d][i] <= time'
    BY <1>1, <2>1 DEF DeviceInv, InOrder
  <2> QED
    BY <2>2 DEF DeviceInv, InOrder
<1>3. RequestsPerHour > 0 => (HourOf(admitted[d], hourly[d], hourlyExpiry[d]) /\ SpacedOf(admitted[d]))'
  BY DEF DeviceInv, HourOf, SpacedOf
<1>4. MinInterval > 0 => (GapOf(admitted[d], last[d], lastExpiry[d]) /\ ApartOf(admitted[d]))'
  BY DEF DeviceInv, GapOf, ApartOf
<1> QED
  BY <1>2, <1>3, <1>4 DEF DeviceInv

\* What the script writes when it lets a chat through.
LEMMA Admits ==
  ASSUME RateTypeOK, NEW c \in Chat, EnforceGuestRate(c), NEW e \in Device, e = DeviceOf[c],
         ~(TooSoon(e, Unix(sampled[c])) \/ Spent(e))
  PROVE  /\ sampled[c] # 0 /\ time' = time /\ clears' = clears
         /\ admitted' = [admitted EXCEPT ![e] = Append(admitted[e], time)]
         /\ RequestsPerHour > 0 => hourly'[e] = Count(e) + 1
         /\ RequestsPerHour > 0 => hourlyExpiry'[e] = (IF Count(e) = 0 THEN time + HourLong ELSE hourlyExpiry[e])
         /\ MinInterval > 0 => last'[e] = Unix(sampled[c]) /\ lastExpiry'[e] = time + HourLong
         /\ \A d \in Device \ {e} : /\ hourly'[d] = hourly[d] /\ hourlyExpiry'[d] = hourlyExpiry[d]
                                  /\ last'[d] = last[d] /\ lastExpiry'[d] = lastExpiry[d]
         /\ hourly' \in [Device -> Nat] /\ hourlyExpiry' \in [Device -> Nat]
         /\ last' \in [Device -> Nat] /\ lastExpiry' \in [Device -> Nat]
<1>u. Unix(sampled[c]) \in Nat
  BY UnixFacts DEF RateTypeOK
<1>t. /\ time \in Nat /\ HourLong \in Nat /\ Count(e) \in Nat
      /\ hourly \in [Device -> Nat] /\ hourlyExpiry \in [Device -> Nat]
      /\ last \in [Device -> Nat] /\ lastExpiry \in [Device -> Nat]
  BY HourFacts DEF RateTypeOK, Count
<1>1. /\ sampled[c] # 0 /\ time' = time /\ clears' = clears
      /\ admitted' = [admitted EXCEPT ![e] = Append(admitted[e], time)]
  BY DEF EnforceGuestRate
<1>2. /\ RequestsPerHour > 0 =>
           /\ hourly' = [hourly EXCEPT ![e] = Count(e) + 1]
           /\ Count(e) = 0 => hourlyExpiry' = [hourlyExpiry EXCEPT ![e] = time + HourLong]
           /\ Count(e) # 0 => hourlyExpiry' = hourlyExpiry
      /\ ~(RequestsPerHour > 0) => hourly' = hourly /\ hourlyExpiry' = hourlyExpiry
      /\ MinInterval > 0 => last' = [last EXCEPT ![e] = Unix(sampled[c])] /\ lastExpiry' = [lastExpiry EXCEPT ![e] = time + HourLong]
      /\ ~(MinInterval > 0) => last' = last /\ lastExpiry' = lastExpiry
  BY DEF EnforceGuestRate, HourLong
<1>3. /\ RequestsPerHour > 0 => hourly'[e] = Count(e) + 1
      /\ \A d \in Device \ {e} : hourly'[d] = hourly[d]
      /\ hourly' \in [Device -> Nat]
  <2>1. CASE RequestsPerHour > 0
    BY <1>t, <1>2, <2>1
  <2>2. CASE ~(RequestsPerHour > 0)
    BY <1>t, <1>2, <2>2
  <2> QED
    BY <2>1, <2>2
<1>4. /\ RequestsPerHour > 0 => hourlyExpiry'[e] = (IF Count(e) = 0 THEN time + HourLong ELSE hourlyExpiry[e])
      /\ \A d \in Device \ {e} : hourlyExpiry'[d] = hourlyExpiry[d]
      /\ hourlyExpiry' \in [Device -> Nat]
  <2>1. CASE RequestsPerHour > 0 /\ Count(e) = 0
    <3>1. hourlyExpiry' = [hourlyExpiry EXCEPT ![e] = time + HourLong]
      BY <1>2, <2>1
    <3> QED
      BY <1>t, <2>1, <3>1
  <2>2. CASE ~(RequestsPerHour > 0) \/ Count(e) # 0
    <3>1. hourlyExpiry' = hourlyExpiry
      BY <1>2, <2>2
    <3> QED
      BY <1>t, <2>2, <3>1
  <2> QED
    BY <2>1, <2>2
<1>5. /\ MinInterval > 0 => last'[e] = Unix(sampled[c]) /\ lastExpiry'[e] = time + HourLong
      /\ \A d \in Device \ {e} : last'[d] = last[d] /\ lastExpiry'[d] = lastExpiry[d]
      /\ last' \in [Device -> Nat] /\ lastExpiry' \in [Device -> Nat]
  <2>1. CASE MinInterval > 0
    BY <1>t, <1>u, <1>2, <2>1
  <2>2. CASE ~(MinInterval > 0)
    BY <1>t, <1>2, <2>2
  <2> QED
    BY <2>1, <2>2
<1> QED
  BY <1>1, <1>3, <1>4, <1>5

\* The script that lets a chat through.
LEMMA AdmissionKeeps ==
  ASSUME RateInv, NEW c \in Chat, EnforceGuestRate(c),
         ~(TooSoon(DeviceOf[c], Unix(sampled[c])) \/ Spent(DeviceOf[c]))
  PROVE  \A d \in Device : DeviceInv(d)'
<1> DEFINE e == DeviceOf[c]
<1>t. /\ e \in Device /\ time \in Nat /\ sampled[c] \in Nat
      /\ admitted \in [Device -> Seq(Nat)] /\ admitted[e] \in Seq(Nat)
      /\ hourly \in [Device -> Nat] /\ hourlyExpiry \in [Device -> Nat]
      /\ last \in [Device -> Nat] /\ lastExpiry \in [Device -> Nat]
      /\ RequestsPerHour \in Nat /\ MinInterval \in Nat /\ MaxDelay \in Nat /\ HourLong \in Nat
  BY RateAssumption, HourFacts DEF RateInv, RateTypeOK
<1>1. /\ sampled[c] # 0 /\ time' = time
      /\ admitted' = [admitted EXCEPT ![e] = Append(admitted[e], time)]
      /\ RequestsPerHour > 0 => hourly'[e] = Count(e) + 1
      /\ RequestsPerHour > 0 => hourlyExpiry'[e] = (IF Count(e) = 0 THEN time + HourLong ELSE hourlyExpiry[e])
      /\ MinInterval > 0 => last'[e] = Unix(sampled[c]) /\ lastExpiry'[e] = time + HourLong
      /\ \A d \in Device \ {e} : /\ hourly'[d] = hourly[d] /\ hourlyExpiry'[d] = hourlyExpiry[d]
                               /\ last'[d] = last[d] /\ lastExpiry'[d] = lastExpiry[d]
  BY Admits, RateAssumption DEF RateInv, RateTypeOK
<1>2. SampledInv /\ DeviceInv(e)
  BY <1>t DEF RateInv
<1> DEFINE mine == Unix(sampled[c])
<1>3. mine \in Nat /\ mine > 0 /\ Ticks(mine) <= time /\ time < Ticks(mine) + Second + MaxDelay
  <2>1. sampled[c] >= Second /\ sampled[c] <= time /\ time <= sampled[c] + MaxDelay
    BY <1>1, <1>2 DEF SampledInv
  <2>2. /\ mine \in Nat /\ mine > 0 /\ Ticks(mine) <= sampled[c] /\ sampled[c] < Ticks(mine) + Second
        /\ Ticks(mine) \in Nat
    BY <1>t, <2>1, UnixFacts, TickFacts
  <2>3. Second \in Nat
    BY RateAssumption
  <2> HIDE DEF mine
  <2> QED
    BY <1>t, <2>1, <2>2, <2>3
<1> HIDE DEF e
<1>4. ASSUME NEW d \in Device, d # e PROVE DeviceInv(d)'
  <2>1. /\ admitted'[d] = admitted[d] /\ hourly'[d] = hourly[d] /\ hourlyExpiry'[d] = hourlyExpiry[d]
        /\ last'[d] = last[d] /\ lastExpiry'[d] = lastExpiry[d]
    BY <1>t, <1>1, <1>4
  <2>2. DeviceInv(d) /\ RateTypeOK /\ time' \in Nat /\ time <= time'
    BY <1>t, <1>1 DEF RateInv
  <2> QED
    BY <2>1, <2>2, DeviceStays
<1>5. admitted'[e] = Append(admitted[e], time)
  BY <1>t, <1>1
<1>6. InOrder(admitted[e], time)'
  <2>1. InOrder(Append(admitted[e], time), time)
    BY <1>t, <1>2, OrderGrows DEF DeviceInv
  <2> QED
    BY <1>1, <1>5, <2>1
<1>7. ASSUME RequestsPerHour > 0
      PROVE  (HourOf(admitted[e], hourly[e], hourlyExpiry[e]) /\ SpacedOf(admitted[e]))'
  <2> DEFINE n == Count(e)
  <2>1. n \in Nat /\ n = (IF time < hourlyExpiry[e] THEN hourly[e] ELSE 0) /\ n < RequestsPerHour
    BY <1>t, <1>7 DEF Count, Spent, e
  <2>2. hourly'[e] = n + 1 /\ hourlyExpiry'[e] = (IF n = 0 THEN time + HourLong ELSE hourlyExpiry[e])
    BY <1>t, <1>1, <1>7
  <2>3. hourly[e] \in Nat /\ hourlyExpiry[e] \in Nat
    BY <1>t
  <2>4. HourOf(admitted[e], hourly[e], hourlyExpiry[e]) /\ SpacedOf(admitted[e]) /\ InOrder(admitted[e], time)
    BY <1>2, <1>7 DEF DeviceInv
  <2> HIDE DEF n
  <2>5. /\ HourOf(Append(admitted[e], time), n + 1, IF n = 0 THEN time + HourLong ELSE hourlyExpiry[e])
        /\ SpacedOf(Append(admitted[e], time))
    BY <1>t, <2>1, <2>3, <2>4, HourGrows
  <2> QED
    BY <1>5, <2>2, <2>5
<1>8. ASSUME MinInterval > 0
      PROVE  (GapOf(admitted[e], last[e], lastExpiry[e]) /\ ApartOf(admitted[e]))'
  <2>1. last'[e] = mine /\ lastExpiry'[e] = time + HourLong /\ last[e] \in Nat /\ lastExpiry[e] \in Nat
    BY <1>t, <1>1, <1>8
  <2>2. GapOf(admitted[e], last[e], lastExpiry[e]) /\ ApartOf(admitted[e])
    BY <1>2, <1>8 DEF DeviceInv
  <2>3. time < lastExpiry[e] /\ last[e] > 0 => mine - last[e] >= MinInterval
    BY <1>t, <1>3, <1>8, <2>1 DEF TooSoon, Last, e
  <2> HIDE DEF mine
  <2>5. GapOf(Append(admitted[e], time), mine, time + HourLong) /\ ApartOf(Append(admitted[e], time))
    BY <1>t, <1>3, <2>1, <2>2, <2>3, GapGrows
  <2> QED
    BY <1>5, <2>1, <2>5
<1>9. DeviceInv(e)'
  BY <1>6, <1>7, <1>8 DEF DeviceInv
<1> QED
  BY <1>4, <1>9

\* Every step keeps the relation of keys and chats.
LEMMA RateStep == RateInv /\ [RateNext]_rateVars => RateInv'
<1> SUFFICES ASSUME RateInv, [RateNext]_rateVars PROVE RateInv'
  OBVIOUS
<1>t. /\ RateTypeOK /\ SampledInv /\ \A d \in Device : DeviceInv(d)
      /\ time \in Nat /\ sampled \in [Chat -> Nat] /\ clears \in Nat /\ MaxDelay \in Nat /\ Second \in Nat
      /\ RequestsPerHour \in Nat /\ MinInterval \in Nat
      /\ admitted \in [Device -> Seq(Nat)]
      /\ hourly \in [Device -> Nat] /\ hourlyExpiry \in [Device -> Nat]
      /\ last \in [Device -> Nat] /\ lastExpiry \in [Device -> Nat]
  BY RateAssumption DEF RateInv, RateTypeOK
<1>1. ASSUME UNCHANGED <<rateKeys, admitted>>, time' \in Nat, time <= time'
      PROVE  \A d \in Device : DeviceInv(d)'
  BY <1>t, <1>1, DeviceStays DEF rateKeys
<1>2. CASE UNCHANGED rateVars
  <2>1. RateTypeOK' /\ SampledInv'
    BY <1>t, <1>2 DEF rateVars, rateKeys, RateTypeOK, SampledInv
  <2>2. UNCHANGED <<rateKeys, admitted>> /\ time' \in Nat /\ time <= time'
    BY <1>t, <1>2 DEF rateVars
  <2> QED
    BY <1>1, <2>1, <2>2 DEF RateInv
<1>3. ASSUME NEW c \in Chat, ReadClock(c) PROVE RateInv'
  <2>1. UNCHANGED <<rateKeys, admitted>> /\ time' = time /\ clears' = clears /\ sampled' = [sampled EXCEPT ![c] = time]
    BY <1>3 DEF ReadClock
  <2>2. RateTypeOK'
    BY <1>t, <2>1 DEF RateTypeOK, rateKeys
  <2>3. SampledInv'
    BY <1>t, <2>1 DEF SampledInv
  <2>4. \A d \in Device : DeviceInv(d)'
    BY <1>t, <1>1, <2>1
  <2> QED
    BY <2>2, <2>3, <2>4 DEF RateInv
<1>4. ASSUME NEW c \in Chat, EnforceGuestRate(c) PROVE RateInv'
  <2>1. sampled' = [sampled EXCEPT ![c] = 0] /\ time' = time /\ clears' = clears
    BY <1>4 DEF EnforceGuestRate
  <2>2. SampledInv'
    BY <1>t, <2>1 DEF SampledInv
  <2>3. CASE TooSoon(DeviceOf[c], Unix(sampled[c])) \/ Spent(DeviceOf[c])
    <3>1. UNCHANGED <<rateKeys, admitted>>
      BY <1>4, <2>3 DEF EnforceGuestRate
    <3>2. RateTypeOK'
      BY <1>t, <2>1, <3>1 DEF RateTypeOK, rateKeys
    <3> QED
      BY <1>t, <1>1, <2>1, <2>2, <3>1, <3>2 DEF RateInv
  <2>4. CASE ~(TooSoon(DeviceOf[c], Unix(sampled[c])) \/ Spent(DeviceOf[c]))
    <3> DEFINE e == DeviceOf[c]
    <3>1. e \in Device /\ Count(e) \in Nat /\ sampled[c] \in Nat /\ admitted[e] \in Seq(Nat)
      BY <1>t, RateAssumption DEF Count
    <3>2. /\ admitted' = [admitted EXCEPT ![e] = Append(admitted[e], time)]
          /\ hourly' \in [Device -> Nat] /\ hourlyExpiry' \in [Device -> Nat]
          /\ last' \in [Device -> Nat] /\ lastExpiry' \in [Device -> Nat]
      BY <1>t, <1>4, <2>4, <3>1, Admits
    <3> HIDE DEF e
    <3>3. Append(admitted[e], time) \in Seq(Nat)
      BY <1>t, <3>1, AppendProperties
    <3>4. admitted' \in [Device -> Seq(Nat)]
      BY <1>t, <3>2, <3>3
    <3>6. RateTypeOK'
      BY <1>t, <2>1, <3>2, <3>4 DEF RateTypeOK
    <3>7. \A d \in Device : DeviceInv(d)'
      BY <1>4, <2>4, AdmissionKeeps
    <3> QED
      BY <2>2, <3>6, <3>7 DEF RateInv
  <2> QED
    BY <2>3, <2>4
<1>5. ASSUME NEW e \in Device, ClearDevice(e) PROVE RateInv'
  <2>1. /\ hourly' = [hourly EXCEPT ![e] = 0] /\ hourlyExpiry' = [hourlyExpiry EXCEPT ![e] = 0]
        /\ last' = [last EXCEPT ![e] = 0] /\ lastExpiry' = [lastExpiry EXCEPT ![e] = 0]
        /\ admitted' = [admitted EXCEPT ![e] = <<>>] /\ clears' = clears + 1 /\ time' = time /\ sampled' = sampled
    BY <1>5 DEF ClearDevice
  <2>2. RateTypeOK' /\ SampledInv'
    <3>1. admitted' \in [Device -> Seq(Nat)]
      BY <1>t, <2>1, EmptySeq
    <3> QED
      BY <1>t, <2>1, <3>1 DEF RateTypeOK, SampledInv
  <2>3. ASSUME NEW d \in Device PROVE DeviceInv(d)'
    <3>1. CASE d = e
      <4>1. admitted'[d] = <<>> /\ hourly'[d] = 0 /\ last'[d] = 0 /\ Len(admitted'[d]) = 0 /\ 1..Len(admitted'[d]) = {}
        BY <1>t, <2>1, <3>1, EmptySeq
      <4> QED
        BY <4>1 DEF DeviceInv, InOrder, HourOf, SpacedOf, GapOf, ApartOf
    <3>2. CASE d # e
      <4>1. /\ admitted'[d] = admitted[d] /\ hourly'[d] = hourly[d] /\ hourlyExpiry'[d] = hourlyExpiry[d]
            /\ last'[d] = last[d] /\ lastExpiry'[d] = lastExpiry[d]
        BY <1>t, <2>1, <3>2
      <4> QED
        BY <1>t, <2>1, <4>1, DeviceStays
    <3> QED
      BY <3>1, <3>2
  <2> QED
    BY <2>2, <2>3 DEF RateInv
<1>6. CASE RateTick
  <2>1. /\ UNCHANGED <<rateKeys, admitted>> /\ time' = time + 1 /\ sampled' = sampled /\ clears' = clears
        /\ \A c \in Chat : sampled[c] # 0 => time - sampled[c] < MaxDelay
    BY <1>6 DEF RateTick
  <2>2. RateTypeOK'
    BY <1>t, <2>1 DEF RateTypeOK, rateKeys
  <2>3. SampledInv'
    BY <1>t, <2>1 DEF SampledInv
  <2> QED
    BY <1>t, <1>1, <2>1, <2>2, <2>3 DEF RateInv
<1> QED
  BY <1>2, <1>3, <1>4, <1>5, <1>6 DEF RateNext

\* What is spaced and apart is what the property asks for.
LEMMA RateSpaces == RateInv => ChatsSpaced
<1> DEFINE M == Ticks(MinInterval)
<1>0. /\ Hour * Second = HourLong /\ (MinInterval - 1) * Second = M - Second /\ M \in Nat /\ HourLong \in Nat
      /\ Second \in Nat
  BY RateAssumption, HourFacts, TickFacts DEF HourLong, Ticks
<1> HIDE DEF M
<1> SUFFICES ASSUME RateInv, NEW d \in Device
    PROVE  /\ RequestsPerHour > 0 =>
                \A i \in DOMAIN admitted[d] : i + 2 * RequestsPerHour \in DOMAIN admitted[d] =>
                  admitted[d][i + 2 * RequestsPerHour] - admitted[d][i] >= HourLong
           /\ MinInterval > 0 =>
                \A i \in DOMAIN admitted[d] : i + 1 \in DOMAIN admitted[d] =>
                  admitted[d][i + 1] - admitted[d][i] > M - Second - MaxDelay
  BY <1>0 DEF ChatsSpaced
<1> DEFINE sent == admitted[d]
<1>1. /\ sent \in Seq(Nat) /\ DOMAIN sent = 1..Len(sent) /\ Len(sent) \in Nat /\ \A i \in 1..Len(sent) : sent[i] \in Nat
      /\ RequestsPerHour \in Nat /\ MaxDelay \in Nat
  BY LenProperties, ElementOfSeq, RateAssumption DEF RateInv, RateTypeOK
<1>2. DeviceInv(d)
  BY DEF RateInv
<1>3. /\ RequestsPerHour > 0 => \A i \in 1..Len(sent) : i + 2 * RequestsPerHour <= Len(sent) => sent[i] + HourLong <= sent[i + 2 * RequestsPerHour]
      /\ MinInterval > 0 => \A i \in 1..Len(sent) : i + 1 <= Len(sent) => sent[i] + M < sent[i + 1] + Second + MaxDelay
  BY <1>2 DEF DeviceInv, SpacedOf, ApartOf, M
<1> HIDE DEF sent
<1>4. ASSUME RequestsPerHour > 0, NEW i \in DOMAIN sent, i + 2 * RequestsPerHour \in DOMAIN sent
      PROVE  sent[i + 2 * RequestsPerHour] - sent[i] >= HourLong
  <2>1. sent[i] + HourLong <= sent[i + 2 * RequestsPerHour] /\ sent[i] \in Nat /\ sent[i + 2 * RequestsPerHour] \in Nat
    BY <1>1, <1>3, <1>4
  <2> QED
    BY <1>0, <2>1
<1>5. ASSUME MinInterval > 0, NEW i \in DOMAIN sent, i + 1 \in DOMAIN sent
      PROVE  sent[i + 1] - sent[i] > M - Second - MaxDelay
  <2>1. sent[i] + M < sent[i + 1] + Second + MaxDelay /\ sent[i] \in Nat /\ sent[i + 1] \in Nat
    BY <1>1, <1>3, <1>5
  <2>2. \A x, y \in Nat : x + M < y + Second + MaxDelay => y - x > M - Second - MaxDelay
    BY <1>0, <1>1
  <2> QED
    BY <2>1, <2>2
<1> QED
  BY <1>4, <1>5 DEF sent

\* The seconds that an hour's key has left, as the quota page says them.
TtlShown(d) == IF Ttl(d) < 1 THEN Hour ELSE Ttl(d)

\* The waits of the two keys, in ticks and as they are told.
Left(d) == hourlyExpiry[d] - time
Ahead(d) == Ticks(Last(d) + MinInterval) - time

\* What a state says of the two keys of a device.
KeysOf(d) ==
  /\ time \in Nat /\ Unix(time) \in Nat /\ Ticks(Unix(time)) \in Nat
  /\ Ticks(Unix(time)) <= time /\ time < Ticks(Unix(time)) + Second
  /\ hourlyExpiry[d] \in Nat /\ Last(d) \in Nat /\ (MinInterval > 0 => Last(d) <= Unix(time))
  /\ Spent(d) => Left(d) > 0

\* The keys of a reachable state.
LEMMA KeysHold == ASSUME RateInv, NEW d \in Device PROVE KeysOf(d)
<1>1. /\ time \in Nat /\ hourly[d] \in Nat /\ hourlyExpiry[d] \in Nat /\ last[d] \in Nat /\ lastExpiry[d] \in Nat
      /\ RequestsPerHour \in Nat /\ MinInterval \in Nat /\ Second \in Nat /\ admitted[d] \in Seq(Nat)
  BY RateAssumption DEF RateInv, RateTypeOK
<1>2. /\ Unix(time) \in Nat /\ Ticks(Unix(time)) \in Nat
      /\ Ticks(Unix(time)) <= time /\ time < Ticks(Unix(time)) + Second
  BY <1>1, UnixFacts, TickFacts
<1>3. Last(d) \in Nat /\ (Spent(d) => Left(d) > 0)
  BY <1>1 DEF Last, Count, Spent, Left
<1>4. MinInterval > 0 => last[d] <= Unix(time)
  <2> SUFFICES ASSUME MinInterval > 0, last[d] > Unix(time) PROVE FALSE
    BY <1>1, <1>2
  <2>1. GapOf(admitted[d], last[d], lastExpiry[d]) /\ InOrder(admitted[d], time)
    BY DEF RateInv, DeviceInv
  <2>2. Len(admitted[d]) \in Nat /\ \A i \in 1..Len(admitted[d]) : admitted[d][i] \in Nat
    BY <1>1, LenProperties, ElementOfSeq
  <2>3. Len(admitted[d]) > 0
    BY <1>2, <2>1, <2>2 DEF GapOf
  <2>4. Ticks(last[d]) <= admitted[d][Len(admitted[d])] /\ admitted[d][Len(admitted[d])] <= time
        /\ admitted[d][Len(admitted[d])] \in Nat
    BY <2>1, <2>2, <2>3 DEF GapOf, InOrder
  <2>5. Ticks(Unix(time)) + Second <= Ticks(last[d]) /\ Ticks(last[d]) \in Nat
    BY <1>1, <1>2, TickFacts
  <2> QED
    BY <1>1, <1>2, <2>4, <2>5
<1>5. MinInterval > 0 => Last(d) <= Unix(time)
  BY <1>1, <1>2, <1>4 DEF Last
<1> QED
  BY <1>1, <1>2, <1>3, <1>5 DEF KeysOf

\* What the two keys of a device are told as.
Told(d) == IF Spent(d) THEN TtlShown(d) ELSE 0
RetryIs(d) ==
  /\ RetryAfter(d, Unix(time)) = Longer(Told(d), Gap(d, Unix(time)))
  /\ Told(d) \in Nat /\ Gap(d, Unix(time)) \in Nat
  /\ Gap(d, Unix(time)) > 0 <=> TooSoon(d, Unix(time))
  /\ Told(d) > 0 <=> Spent(d)

\* A device is told the longer of two waits, and none when there is none.
LEMMA LongerWait == ASSUME NEW d \in Device, KeysOf(d) PROVE RetryIs(d)
<1>1. /\ Unix(time) \in Nat /\ Last(d) \in Nat /\ time \in Nat /\ hourlyExpiry[d] \in Nat
      /\ MinInterval \in Nat /\ Hour \in Nat /\ Hour > 0 /\ Second \in Nat /\ Second > 0
  BY RateAssumption DEF KeysOf
<1>2. RetryAfter(d, Unix(time)) = Longer(Told(d), Gap(d, Unix(time)))
  BY DEF RetryAfter, Told, TtlShown
<1>3. Gap(d, Unix(time)) \in Nat /\ (Gap(d, Unix(time)) > 0 <=> TooSoon(d, Unix(time)))
  BY <1>1 DEF Gap, TooSoon
<1>4. Ttl(d) \in Int
  <2>1. \A x \in Int : x \div Second \in Int
    BY <1>1
  <2>2. Second \div 2 \in Int
    BY <1>1
  <2>3. hourlyExpiry[d] - time + Second \div 2 \in Int
    BY <1>1, <2>2
  <2> QED
    BY <2>1, <2>3 DEF Ttl
<1>5. Told(d) \in Nat /\ (Told(d) > 0 <=> Spent(d))
  BY <1>1, <1>4 DEF Told, TtlShown
<1> QED
  BY <1>2, <1>3, <1>5 DEF RetryIs

\* A device is let through exactly when it is told to wait no longer.
LEMMA WaitIsEnforced ==
  ASSUME RateInv, [RateNext]_rateVars, NEW c \in Chat, sampled[c] = time, sampled'[c] = 0
  PROVE  (admitted'[DeviceOf[c]] # admitted[DeviceOf[c]]) = (RetryAfter(DeviceOf[c], Unix(time)) = 0)
<1> DEFINE e == DeviceOf[c]
<1> DEFINE now == Unix(time)
<1>t. /\ e \in Device /\ time \in Nat /\ time > 0 /\ sampled \in [Chat -> Nat]
      /\ admitted \in [Device -> Seq(Nat)] /\ admitted[e] \in Seq(Nat) /\ Len(admitted[e]) \in Nat
  BY RateAssumption, LenProperties DEF RateInv, RateTypeOK, SampledInv
<1>1. EnforceGuestRate(c)
  <2>1. ~UNCHANGED rateVars /\ ~RateTick /\ \A d \in Device : ~ClearDevice(d)
    BY <1>t DEF rateVars, RateTick, ClearDevice
  <2>2. \A b \in Chat : ~ReadClock(b)
    BY <1>t DEF ReadClock
  <2>3. \A b \in Chat : EnforceGuestRate(b) => b = c
    BY <1>t DEF EnforceGuestRate
  <2> QED
    BY <2>1, <2>2, <2>3 DEF RateNext
<1>2. (admitted'[e] # admitted[e]) <=> ~(TooSoon(e, now) \/ Spent(e))
  <2>1. CASE TooSoon(e, now) \/ Spent(e)
    BY <1>1, <2>1 DEF EnforceGuestRate
  <2>2. CASE ~(TooSoon(e, now) \/ Spent(e))
    <3>1. admitted' = [admitted EXCEPT ![e] = Append(admitted[e], time)]
      BY <1>1, <2>2 DEF EnforceGuestRate
    <3>2. Len(Append(admitted[e], time)) = Len(admitted[e]) + 1
      BY <1>t, AppendProperties
    <3>3. admitted'[e] = Append(admitted[e], time)
      BY <1>t, <3>1
    <3> HIDE DEF e
    <3>4. admitted'[e] # admitted[e]
      BY <1>t, <3>2, <3>3
    <3> QED
      BY <2>2, <3>4
  <2> QED
    BY <2>1, <2>2
<1>3. RetryIs(e)
  BY <1>t, KeysHold, LongerWait
<1>4. (RetryAfter(e, now) = 0) <=> ~(TooSoon(e, now) \/ Spent(e))
  BY <1>3 DEF RetryIs, Longer
<1> QED
  BY <1>2, <1>4

\* The two ends of a device's waits.
HourEnd(d) == IF Spent(d) THEN hourlyExpiry[d] ELSE time
GapEnd(d) == IF TooSoon(d, Unix(time)) THEN Ticks(Last(d) + MinInterval) ELSE time

\* It is let go at the later one.
EndsOf(d) ==
  /\ FreeAt(d) = Longer(HourEnd(d), GapEnd(d)) /\ HourEnd(d) \in Nat /\ GapEnd(d) \in Nat
  /\ HourEnd(d) >= time /\ GapEnd(d) >= time

\* A device is let go at the later end, and not before now.
LEMMA EndsHold == ASSUME RateInv, NEW d \in Device PROVE EndsOf(d)
<1>0. KeysOf(d)
  BY KeysHold
<1>1. FreeAt(d) = Longer(HourEnd(d), GapEnd(d))
  BY DEF FreeAt, HourEnd, GapEnd, Ticks
<1>2. HourEnd(d) \in Nat /\ HourEnd(d) >= time
  BY <1>0 DEF KeysOf, HourEnd, Left
<1>3. GapEnd(d) \in Nat /\ GapEnd(d) >= time
  <2>1. /\ time \in Nat /\ Unix(time) \in Nat /\ Last(d) \in Nat /\ MinInterval \in Nat /\ Second \in Nat
        /\ Ticks(Unix(time)) \in Nat /\ time < Ticks(Unix(time)) + Second
    BY <1>0, RateAssumption DEF KeysOf
  <2>2. CASE TooSoon(d, Unix(time))
    <3>1. Unix(time) < Last(d) + MinInterval /\ Last(d) + MinInterval \in Nat
      BY <2>1, <2>2 DEF TooSoon
    <3>2. Ticks(Unix(time)) + Second <= Ticks(Last(d) + MinInterval) /\ Ticks(Last(d) + MinInterval) \in Nat
      BY <2>1, <3>1, TickFacts
    <3> QED
      BY <2>1, <2>2, <3>2 DEF GapEnd
  <2>3. CASE ~TooSoon(d, Unix(time))
    BY <2>1, <2>3 DEF GapEnd
  <2> QED
    BY <2>2, <2>3
<1> QED
  BY <1>1, <1>2, <1>3 DEF EndsOf

\* Nothing that admits no chat puts the end of a wait off.
LEMMA WaitShrinks ==
  ASSUME RateInv, [RateNext]_rateVars, NEW d \in Device, admitted'[d] = admitted[d]
  PROVE  FreeAt(d)' <= Longer(FreeAt(d), time')
<1>t. /\ time \in Nat /\ hourly \in [Device -> Nat] /\ hourlyExpiry \in [Device -> Nat]
      /\ last \in [Device -> Nat] /\ lastExpiry \in [Device -> Nat]
      /\ admitted \in [Device -> Seq(Nat)] /\ admitted[d] \in Seq(Nat) /\ Len(admitted[d]) \in Nat
      /\ RequestsPerHour \in Nat /\ MinInterval \in Nat
  BY RateAssumption, LenProperties DEF RateInv, RateTypeOK
<1>r. /\ FreeAt(d) = Longer(HourEnd(d), GapEnd(d)) /\ HourEnd(d) \in Nat /\ GapEnd(d) \in Nat
      /\ HourEnd(d) >= time /\ GapEnd(d) >= time
  BY EndsHold DEF EndsOf
<1>n. /\ FreeAt(d)' = Longer(HourEnd(d)', GapEnd(d)') /\ HourEnd(d)' \in Nat /\ GapEnd(d)' \in Nat /\ time' \in Nat
  <2>1. RateInv'
    BY RateStep
  <2>2. KeysOf(d)'
    BY <2>1, KeysHold, PTL
  <2>3. EndsOf(d)'
    BY <2>1, EndsHold, PTL
  <2>4. /\ FreeAt(d)' = Longer(HourEnd(d)', GapEnd(d)') /\ HourEnd(d)' \in Nat /\ GapEnd(d)' \in Nat
    BY <2>3 DEF EndsOf
  <2> QED
    BY <2>2, <2>4 DEF KeysOf
<1>g. ASSUME HourEnd(d)' <= HourEnd(d) \/ HourEnd(d)' <= time', GapEnd(d)' <= GapEnd(d) \/ GapEnd(d)' <= time'
      PROVE  FreeAt(d)' <= Longer(FreeAt(d), time')
  BY <1>r, <1>n, <1>g DEF Longer
<1>1. ASSUME time' = time, hourly'[d] = hourly[d], hourlyExpiry'[d] = hourlyExpiry[d],
             last'[d] = last[d], lastExpiry'[d] = lastExpiry[d]
      PROVE  FreeAt(d)' <= Longer(FreeAt(d), time')
  <2>1. HourEnd(d)' = HourEnd(d) /\ GapEnd(d)' = GapEnd(d)
    BY <1>1 DEF HourEnd, GapEnd, TooSoon, Spent, Count, Last, Unix, Ticks
  <2> QED
    BY <1>g, <1>r, <2>1
<1>2. CASE UNCHANGED rateVars
  BY <1>1, <1>2 DEF rateVars, rateKeys
<1>3. ASSUME NEW c \in Chat, ReadClock(c) PROVE FreeAt(d)' <= Longer(FreeAt(d), time')
  BY <1>1, <1>3 DEF ReadClock, rateKeys
<1>4. ASSUME NEW c \in Chat, EnforceGuestRate(c) PROVE FreeAt(d)' <= Longer(FreeAt(d), time')
  <2> DEFINE e == DeviceOf[c]
  <2>1. CASE TooSoon(e, Unix(sampled[c])) \/ Spent(e)
    BY <1>1, <1>4, <2>1 DEF EnforceGuestRate, rateKeys
  <2>2. CASE ~(TooSoon(e, Unix(sampled[c])) \/ Spent(e))
    <3>1. /\ e \in Device /\ time' = time
          /\ admitted' = [admitted EXCEPT ![e] = Append(admitted[e], time)]
          /\ \A f \in Device \ {e} : /\ hourly'[f] = hourly[f] /\ hourlyExpiry'[f] = hourlyExpiry[f]
                                   /\ last'[f] = last[f] /\ lastExpiry'[f] = lastExpiry[f]
      BY ZenonT(40), <1>4, <2>2, Admits, RateAssumption DEF RateInv, RateTypeOK
    <3>2. Len(Append(admitted[d], time)) = Len(admitted[d]) + 1
      BY <1>t, AppendProperties
    <3> HIDE DEF e
    <3>3. d # e
      BY <1>t, <3>1, <3>2
    <3>4. /\ hourly'[d] = hourly[d] /\ hourlyExpiry'[d] = hourlyExpiry[d]
          /\ last'[d] = last[d] /\ lastExpiry'[d] = lastExpiry[d]
      BY <3>1, <3>3
    <3> QED
      BY <1>1, <3>1, <3>4
  <2> QED
    BY <2>1, <2>2
<1>5. ASSUME NEW e \in Device, ClearDevice(e) PROVE FreeAt(d)' <= Longer(FreeAt(d), time')
  <2>1. CASE e = d
    <3>1. hourly'[d] = 0 /\ hourlyExpiry'[d] = 0 /\ last'[d] = 0 /\ lastExpiry'[d] = 0 /\ time' = time
      BY <1>5, <1>t, <2>1 DEF ClearDevice
    <3>2. ~TooSoon(d, Unix(time))' /\ ~Spent(d)'
      BY <1>t, <3>1 DEF TooSoon, Spent, Last, Count
    <3>3. HourEnd(d)' = time' /\ GapEnd(d)' = time'
      BY <3>2 DEF HourEnd, GapEnd
    <3> QED
      BY <1>g, <1>n, <3>3
  <2>2. CASE e # d
    BY <1>1, <1>5, <1>t, <2>2 DEF ClearDevice
  <2> QED
    BY <2>1, <2>2
<1>6. CASE RateTick
  <2>1. /\ time' = time + 1 /\ hourly' = hourly /\ hourlyExpiry' = hourlyExpiry
        /\ last' = last /\ lastExpiry' = lastExpiry
    BY <1>6 DEF RateTick, rateKeys
  <2>2. HourEnd(d)' <= HourEnd(d) \/ HourEnd(d)' <= time'
    <3>1. CASE Spent(d)'
      <4>1. Count(d)' = Count(d)
        BY <1>t, <2>1, <3>1 DEF Count, Spent
      <4>2. Spent(d)
        BY <3>1, <4>1 DEF Spent
      <4> QED
        BY <1>n, <1>r, <2>1, <3>1, <4>2 DEF HourEnd
    <3>2. CASE ~Spent(d)'
      BY <1>n, <3>2 DEF HourEnd
    <3> QED
      BY <3>1, <3>2
  <2>3. GapEnd(d)' <= GapEnd(d) \/ GapEnd(d)' <= time'
    <3>1. CASE TooSoon(d, Unix(time))'
      <4>1. Last(d)' = Last(d) /\ Last(d) \in Nat
        BY <1>t, <2>1, <3>1 DEF Last, TooSoon
      <4>2. Unix(time) <= Unix(time') /\ Unix(time) \in Nat /\ Unix(time') \in Nat
        <5>1. /\ Unix(time) \in Nat /\ Ticks(Unix(time)) <= time /\ Ticks(Unix(time)) \in Nat
              /\ Unix(time') \in Nat /\ time' < Ticks(Unix(time')) + Second /\ Ticks(Unix(time')) \in Nat
          BY <1>t, <1>n, UnixFacts, TickFacts
        <5>2. Unix(time') < Unix(time) => Ticks(Unix(time')) + Second <= Ticks(Unix(time))
          BY <5>1, TickFacts
        <5>3. Second \in Nat
          BY RateAssumption
        <5> QED
          BY <1>t, <2>1, <5>1, <5>2, <5>3
      <4>3. TooSoon(d, Unix(time))
        BY <1>t, <3>1, <4>1, <4>2 DEF TooSoon
      <4>4. GapEnd(d)' = GapEnd(d)
        BY <3>1, <4>1, <4>3 DEF GapEnd, Ticks
      <4> QED
        BY <1>r, <4>4
    <3>2. CASE ~TooSoon(d, Unix(time))'
      BY <1>n, <3>2 DEF GapEnd
    <3> QED
      BY <3>1, <3>2
  <2> QED
    BY <1>g, <2>2, <2>3
<1> QED
  BY <1>2, <1>3, <1>4, <1>5, <1>6 DEF RateNext

\* What is told of an hour's key is right but for less than a second, unless less
\* than half a second is left.
LEMMA TtlNear ==
  ASSUME NEW d \in Device, KeysOf(d), Spent(d), Ttl(d) >= 1
  PROVE  Ttl(d) \in Nat /\ Ticks(Ttl(d)) - Left(d) \in 1 - Second..Second - 1
<1>1. Left(d) \in Nat /\ Second \in Nat \ {0} /\ Left(d) > 0
  BY RateAssumption DEF KeysOf, Left
<1>2. PICK h \in Nat : h = Second \div 2 /\ h < Second
  BY <1>1
<1>3. PICK t \in Nat : t = Left(d) + h
  BY <1>1, <1>2
<1>4. t \div Second \in Nat /\ (t \div Second) * Second <= t /\ t < (t \div Second) * Second + Second
  BY <1>1, Remainder
<1>5. Ttl(d) = t \div Second
  BY <1>2, <1>3 DEF Ttl, Left
<1>6. PICK x \in Nat : x = Ticks(Ttl(d)) /\ x <= t /\ t < x + Second
  BY <1>4, <1>5, TickFacts DEF Ticks
<1>7. x - Left(d) \in 1 - Second..Second - 1
  BY <1>1, <1>2, <1>3, <1>6
<1> QED
  BY <1>4, <1>5, <1>6, <1>7

\* Else less than half a second is left.
LEMMA TtlGone ==
  ASSUME NEW d \in Device, KeysOf(d), Spent(d), Ttl(d) < 1
  PROVE  2 * Left(d) < Second
<1>1. Left(d) \in Nat /\ Second \in Nat \ {0} /\ Left(d) > 0
  BY RateAssumption DEF KeysOf, Left
<1>2. PICK h \in Nat : h = Second \div 2 /\ h < Second /\ Second <= 2 * h + 1
  BY <1>1
<1>3. PICK t \in Nat : t = Left(d) + h
  BY <1>1, <1>2
<1>4. t \div Second \in Nat /\ t < (t \div Second) * Second + Second
  BY <1>1, Remainder
<1>5. Ttl(d) = t \div Second
  BY <1>2, <1>3 DEF Ttl, Left
<1>6. t \div Second = 0 /\ 0 * Second = 0
  BY <1>1, <1>4, <1>5
<1>7. t < Second
  BY <1>1, <1>3, <1>4, <1>6
<1> QED
  BY <1>1, <1>2, <1>3, <1>7

\* The wait for the interval is right but for less than a second, and no longer
\* than an hour.
LEMMA GapNear ==
  ASSUME NEW d \in Device, KeysOf(d), TooSoon(d, Unix(time))
  PROVE  /\ Gap(d, Unix(time)) \in Nat /\ Gap(d, Unix(time)) <= Hour
         /\ Ticks(Gap(d, Unix(time))) - Ahead(d) \in 0..Second - 1
<1>1. /\ time \in Nat /\ Unix(time) \in Nat /\ Last(d) \in Nat /\ Ticks(Unix(time)) \in Nat /\ Second \in Nat
      /\ Ticks(Unix(time)) <= time /\ time < Ticks(Unix(time)) + Second
      /\ MinInterval \in Nat /\ MinInterval > 0 /\ MinInterval <= Hour /\ Hour \in Nat /\ Last(d) <= Unix(time)
  BY RateAssumption DEF KeysOf, TooSoon
<1>2. PICK g \in Nat : g = Gap(d, Unix(time)) /\ g + Unix(time) = Last(d) + MinInterval
  BY <1>1 DEF Gap, TooSoon
<1>3. g <= Hour
  BY <1>1, <1>2
<1>4. Ticks(g) \in Nat /\ Ticks(g) + Ticks(Unix(time)) = Ticks(Last(d) + MinInterval)
  BY <1>1, <1>2, TickFacts
<1>5. PICK x \in Nat, u \in Nat, e \in Nat : x = Ticks(g) /\ u = Ticks(Unix(time)) /\ e = Ticks(Last(d) + MinInterval) /\ x + u = e
  BY <1>1, <1>4
<1>6. x - (e - time) \in 0..Second - 1
  BY <1>1, <1>5
<1> QED
  BY <1>2, <1>3, <1>5, <1>6 DEF Ahead

\* The longer of two numbers that are near is near the longer.
LEMMA LongerNear ==
  ASSUME NEW a \in Int, NEW b \in Int, NEW x \in Int, NEW y \in Int, NEW s \in Nat,
         x - a \in 1 - s..s - 1, y - b \in 1 - s..s - 1
  PROVE  Longer(x, y) - Longer(a, b) \in 1 - s..s - 1
BY DEF Longer

\* The longer of two waits has the longer of their ticks.
LEMMA LongerTicks ==
  ASSUME NEW a \in Nat, NEW b \in Nat
  PROVE  Ticks(Longer(a, b)) = Longer(Ticks(a), Ticks(b))
<1>1. Ticks(a) \in Nat /\ Ticks(b) \in Nat /\ (a <= b => Ticks(a) <= Ticks(b)) /\ (b <= a => Ticks(b) <= Ticks(a))
  BY TickFacts
<1>2. CASE a > b
  BY <1>1, <1>2 DEF Longer
<1>3. CASE ~(a > b)
  BY <1>1, <1>3 DEF Longer
<1> QED
  BY <1>2, <1>3

\* The wait told is right but for less than a second, except for the last half
\* second of a spent hour.
LEMMA ToldIsRight ==
  ASSUME RateInv, NEW d \in Device
  PROVE  \/ RetryAfter(d, Unix(time)) * Second
              \in FreeAt(d) - time - Second + 1 .. FreeAt(d) - time + Second - 1
         \/ Spent(d) /\ 2 * (hourlyExpiry[d] - time) < Second /\ RetryAfter(d, Unix(time)) = Hour
<1>k. KeysOf(d) /\ RetryIs(d)
  BY KeysHold, LongerWait
<1>t. /\ time \in Nat /\ Second \in Nat /\ Second > 0 /\ Hour \in Nat /\ Hour > 0
      /\ HourEnd(d) \in Nat /\ GapEnd(d) \in Nat /\ Told(d) \in Nat /\ Gap(d, Unix(time)) \in Nat
      /\ FreeAt(d) = Longer(HourEnd(d), GapEnd(d))
      /\ RetryAfter(d, Unix(time)) = Longer(Told(d), Gap(d, Unix(time)))
  BY <1>k, EndsHold, RateAssumption DEF EndsOf, KeysOf, RetryIs
<1>z. Ticks(0) = 0 /\ Ticks(Told(d)) \in Nat /\ Ticks(Gap(d, Unix(time))) \in Nat
  BY <1>t, TickFacts DEF Ticks
<1>1. Ticks(Gap(d, Unix(time))) - (GapEnd(d) - time) \in 1 - Second..Second - 1 /\ Gap(d, Unix(time)) <= Hour
  <2>1. CASE TooSoon(d, Unix(time))
    <3>1. /\ Gap(d, Unix(time)) <= Hour /\ Ticks(Gap(d, Unix(time))) - Ahead(d) \in 0..Second - 1
          /\ GapEnd(d) - time = Ahead(d)
      BY <1>k, <2>1, GapNear DEF GapEnd, Ahead
    <3> QED
      BY <1>t, <1>z, <3>1
  <2>2. CASE ~TooSoon(d, Unix(time))
    <3>1. Gap(d, Unix(time)) = 0 /\ GapEnd(d) = time
      BY <2>2 DEF Gap, GapEnd
    <3> QED
      BY <1>t, <1>z, <3>1
  <2> QED
    BY <2>1, <2>2
<1>2. CASE Spent(d) /\ Ttl(d) < 1
  <2>1. 2 * (hourlyExpiry[d] - time) < Second
    BY <1>k, <1>2, TtlGone DEF Left
  <2>2. Told(d) = Hour
    BY <1>2 DEF Told, TtlShown
  <2>3. RetryAfter(d, Unix(time)) = Hour
    BY <1>t, <1>1, <2>2 DEF Longer
  <2> QED
    BY <1>2, <2>1, <2>3
<1>3. CASE ~(Spent(d) /\ Ttl(d) < 1)
  <2>1. Ticks(Told(d)) - (HourEnd(d) - time) \in 1 - Second..Second - 1
    <3>1. CASE Spent(d)
      <4>1. Ttl(d) >= 1 /\ Told(d) = Ttl(d) /\ HourEnd(d) - time = Left(d)
        <5>1. Told(d) = Ttl(d) /\ HourEnd(d) - time = Left(d)
          BY <1>3, <3>1 DEF Told, TtlShown, HourEnd, Left
        <5> QED
          BY <1>3, <1>t, <3>1, <5>1
      <4> QED
        BY <1>k, <3>1, <4>1, TtlNear
    <3>2. CASE ~Spent(d)
      <4>1. Told(d) = 0 /\ HourEnd(d) = time
        BY <3>2 DEF Told, HourEnd
      <4> QED
        BY <1>t, <1>z, <4>1
    <3> QED
      BY <3>1, <3>2
  <2>2. PICK a \in Int, b \in Int, x \in Int, y \in Int :
          /\ a = HourEnd(d) - time /\ b = GapEnd(d) - time /\ x = Ticks(Told(d)) /\ y = Ticks(Gap(d, Unix(time)))
    BY <1>t, <1>z
  <2>3. Longer(x, y) - Longer(a, b) \in 1 - Second..Second - 1
    BY <1>t, <1>1, <2>1, <2>2, LongerNear
  <2>4. RetryAfter(d, Unix(time)) * Second = Longer(x, y)
    BY <1>t, <2>2, LongerTicks DEF Ticks
  <2>5. FreeAt(d) - time = Longer(a, b)
    BY <1>t, <2>2 DEF Longer
  <2>6. PICK v \in Int, w \in Int : v = Longer(x, y) /\ w = Longer(a, b) /\ w = FreeAt(d) - time
    BY <2>5 DEF Longer
  <2>7. v - w \in 1 - Second..Second - 1
    BY <2>3, <2>6
  <2>8. v \in w - Second + 1 .. w + Second - 1
    BY <1>t, <2>6, <2>7
  <2> QED
    BY <2>4, <2>6, <2>8
<1> QED
  BY <1>2, <1>3

\* Chats of a device are as far apart as the policy says, for any policy, devices,
\* delays and length of a second, and the wait a guest is shown is the one that
\* is enforced, but for its rounding (GuestRate!RateIsKept).
THEOREM RateHolds == RateSpec => []RateTypeOK /\ RateIsKept
<1>1. RateInv /\ [RateNext]_rateVars => [ChatsSpaced' /\ RetryAfterIsHonest]_rateVars
  <2> SUFFICES ASSUME RateInv, [RateNext]_rateVars PROVE ChatsSpaced' /\ RetryAfterIsHonest
    OBVIOUS
  <2>1. RateInv'
    BY RateStep
  <2>2. ChatsSpaced'
    BY <2>1, RateSpaces, PTL
  <2>3. RetryAfterIsHonest
    BY WaitIsEnforced, WaitShrinks, ToldIsRight DEF RetryAfterIsHonest
  <2> QED
    BY <2>2, <2>3
<1>2. RateInv => RateTypeOK
  BY DEF RateInv
<1> QED
  BY <1>1, <1>2, RateBegins, RateStep, PTL DEF RateSpec, RateIsKept

-----------------------------------------------------------------------------
(* The storage of attachments.                                             *)

Handling == {"copying", "inserting", "discarding", "extracted", "unreadable"}
Writing == {"copying", "inserting"}

\* What a handler has in hand, and what is known of it.
HandsOf(h) ==
  /\ IF step[h] \in Handling THEN item[h] \in File ELSE item[h] = Nothing
  /\ step[h] # "removing" => doomed[h] = {}
  /\ \A f \in doomed[h] : rowStatus[f] = "deleted"
  /\ \A f \in toExpand[h] : rowStatus[f] # "none"
  /\ step[h] \in Writing => rowStatus[item[h]] = "none" /\ item[h] \in disk /\ size[item[h]] <= MaxSize
  /\ step[h] = "discarding" => rowStatus[item[h]] = "none" \/ item[h] \in unsure
  /\ step[h] \in {"extracted", "unreadable"} => rowStatus[item[h]] # "none"
  /\ step[h] = "unreadable" => rowStatus[item[h]] = "deleted" \/ item[h] \in unsure
  /\ step[h] = "creating" /\ MaxBytes > 0 => saw[h] < MaxBytes

HandsInv == \A h \in Handler : HandsOf(h)

\* A file that has yet to be entered is one handler's.
AloneInv == \A h, o \in Handler : h # o /\ step[h] \in Writing => item[o] # item[h]

\* A handler that is about to remove a file, or to enter it.
Minds(h, f) == f \in doomed[h] \/ (f = item[h] /\ step[h] \in Writing \cup {"discarding"})

LeakInv == \A f \in disk : rowStatus[f] = "live" \/ f \in leaked \/ \E h \in Handler : Minds(h, f)

\* The handlers that have measured and may yet enter a file.
Entering == {h \in Handler : step[h] = "creating" \/ step[h] \in Writing}

\* How much a handler may yet enter.
Claim(h) ==
  IF step[h] = "creating" THEN (IF MaxBytes - saw[h] < MaxSize THEN MaxBytes - saw[h] ELSE MaxSize)
  ELSE IF step[h] \in Writing THEN size[item[h]] ELSE 0

Claims == [h \in Handler |-> Claim(h)]

FilesInv == MaxFiles > 0 => Cardinality(LiveFiles) + Cardinality(Entering) <= MaxFiles + Cardinality(Handler) - 1

BytesInv ==
  MaxBytes > 0 => LiveBytes + SumFunctionOnSet(Claims, Handler) <= MaxBytes + MaxSize * (Cardinality(Handler) - 1)

StorageInv ==
  /\ StorageTypeOK /\ HandsInv /\ AloneInv /\ LeakInv
  /\ RowHasContent /\ ExtractionIsTrue /\ FilesInv /\ BytesInv

-----------------------------------------------------------------------------
(* Steps of one handler. *)

\* Where the handlers are and what they have.
CallTypes ==
  /\ step \in [Handler -> Steps] /\ goal \in [Handler -> Goals] /\ saw \in [Handler -> Nat]
  /\ item \in [Handler -> File \cup {Nothing}]
  /\ doomed \in [Handler -> SUBSET File] /\ toExpand \in [Handler -> SUBSET File]

RowTypes ==
  /\ rowStatus \in [File -> {"none", "live", "deleted"}]
  /\ size \in [File -> Nat] /\ born \in [File -> Nat]
  /\ extract \in [File -> {"stored", "ready", "failed"}]

OtherTypes == age \in Nat /\ disk \subseteq File /\ leaked \subseteq File /\ unsure \subseteq File

\* The handlers other than h stay where they are.
Alone(h) ==
  \A o \in Handler : o # h =>
    /\ step'[o] = step[o] /\ item'[o] = item[o] /\ saw'[o] = saw[o]
    /\ doomed'[o] = doomed[o] /\ toExpand'[o] = toExpand[o]

\* h goes on to a step with what it then has in hand.
Goes(h, s, i, d, e, w) ==
  /\ CallTypes' /\ Alone(h)
  /\ step'[h] = s /\ item'[h] = i /\ doomed'[h] = d /\ toExpand'[h] = e /\ saw'[h] = w

\* Its call has ended.
LEMMA CallEnds ==
  ASSUME CallTypes, NEW h \in Handler, Done(h)
  PROVE  Goes(h, "idle", Nothing, {}, {}, 0)
<1>1. /\ step' = [step EXCEPT ![h] = "idle"] /\ item' = [item EXCEPT ![h] = Nothing]
      /\ doomed' = [doomed EXCEPT ![h] = {}] /\ toExpand' = [toExpand EXCEPT ![h] = {}]
      /\ saw' = [saw EXCEPT ![h] = 0] /\ goal' = [goal EXCEPT ![h] = "other"]
  BY DEF Done, At
<1>2. CallTypes'
  BY <1>1 DEF CallTypes, Steps, Goals
<1>3. Alone(h)
  BY <1>1 DEF CallTypes, Alone
<1>4. step'[h] = "idle" /\ item'[h] = Nothing /\ doomed'[h] = {} /\ toExpand'[h] = {} /\ saw'[h] = 0
  BY <1>1 DEF CallTypes
<1> QED
  BY <1>2, <1>3, <1>4 DEF Goes

\* It goes on, with something new in hand or nothing.
LEMMA CallMoves ==
  ASSUME CallTypes, NEW h \in Handler,
         NEW s \in Steps, NEW g \in Goals, NEW i \in File \cup {Nothing},
         NEW d \in SUBSET File, NEW e \in SUBSET File, NEW w \in Nat,
         step' = [step EXCEPT ![h] = s], goal' = [goal EXCEPT ![h] = g] \/ goal' = goal,
         item' = [item EXCEPT ![h] = i] \/ (item' = item /\ i = item[h]),
         doomed' = [doomed EXCEPT ![h] = d] \/ (doomed' = doomed /\ d = doomed[h]),
         toExpand' = [toExpand EXCEPT ![h] = e] \/ (toExpand' = toExpand /\ e = toExpand[h]),
         saw' = [saw EXCEPT ![h] = w] \/ (saw' = saw /\ w = saw[h])
  PROVE  Goes(h, s, i, d, e, w)
<1>1. step' \in [Handler -> Steps] /\ goal' \in [Handler -> Goals] /\ saw' \in [Handler -> Nat]
  BY DEF CallTypes
<1>2. item' \in [Handler -> File \cup {Nothing}]
  BY DEF CallTypes
<1>3. doomed' \in [Handler -> SUBSET File] /\ toExpand' \in [Handler -> SUBSET File]
  BY DEF CallTypes
<1>4. step'[h] = s /\ item'[h] = i /\ saw'[h] = w
  BY DEF CallTypes
<1>5. doomed'[h] = d /\ toExpand'[h] = e
  BY DEF CallTypes
<1>6. ASSUME NEW o \in Handler, o # h
      PROVE  /\ step'[o] = step[o] /\ item'[o] = item[o] /\ saw'[o] = saw[o]
             /\ doomed'[o] = doomed[o] /\ toExpand'[o] = toExpand[o]
  <2>1. step'[o] = step[o] /\ item'[o] = item[o] /\ saw'[o] = saw[o]
    BY <1>6 DEF CallTypes
  <2>2. doomed'[o] = doomed[o] /\ toExpand'[o] = toExpand[o]
    BY <1>6 DEF CallTypes
  <2> QED
    BY <2>1, <2>2
<1> QED
  BY <1>1, <1>2, <1>3, <1>4, <1>5, <1>6 DEF Goes, Alone, CallTypes

\* A handler that stays keeps what is known of its hands.
LEMMA HandsStay ==
  ASSUME NEW o \in Handler, HandsOf(o), CallTypes,
         step'[o] = step[o], item'[o] = item[o], saw'[o] = saw[o],
         doomed'[o] = doomed[o], toExpand'[o] = toExpand[o], unsure \subseteq unsure',
         \A f \in File : rowStatus[f] # "none" => rowStatus'[f] # "none",
         \A f \in File : rowStatus[f] = "deleted" => rowStatus'[f] = "deleted",
         step[o] \in Writing =>
           rowStatus'[item[o]] = "none" /\ item[o] \in disk' /\ size'[item[o]] = size[item[o]],
         step[o] = "discarding" /\ rowStatus[item[o]] = "none" =>
           rowStatus'[item[o]] = "none" \/ item[o] \in unsure'
  PROVE  HandsOf(o)'
<1>1. doomed[o] \subseteq File /\ toExpand[o] \subseteq File
  BY DEF CallTypes
<1>2. step[o] \in Handling => item[o] \in File
  BY DEF HandsOf
<1>3. /\ IF step'[o] \in Handling THEN item'[o] \in File ELSE item'[o] = Nothing
      /\ step'[o] # "removing" => doomed'[o] = {}
      /\ step'[o] = "creating" /\ MaxBytes > 0 => saw'[o] < MaxBytes
  BY DEF HandsOf
<1>4. /\ \A f \in doomed'[o] : rowStatus'[f] = "deleted"
      /\ \A f \in toExpand'[o] : rowStatus'[f] # "none"
  BY <1>1 DEF HandsOf
<1>5. step'[o] \in Writing => rowStatus'[item'[o]] = "none" /\ item'[o] \in disk' /\ size'[item'[o]] <= MaxSize
  BY DEF HandsOf
<1>6. step'[o] = "discarding" => rowStatus'[item'[o]] = "none" \/ item'[o] \in unsure'
  BY DEF HandsOf
<1>7. /\ step'[o] \in {"extracted", "unreadable"} => rowStatus'[item'[o]] # "none"
      /\ step'[o] = "unreadable" => rowStatus'[item'[o]] = "deleted" \/ item'[o] \in unsure'
  BY <1>2 DEF HandsOf, Handling
<1> QED
  BY <1>3, <1>4, <1>5, <1>6, <1>7 DEF HandsOf

\* Files in the hands of one handler stay so.
LEMMA AloneStays ==
  ASSUME AloneInv, NEW h \in Handler, Alone(h),
         \A o \in Handler : o # h /\ step[o] \in Writing => item'[h] # item[o],
         \A o \in Handler : o # h /\ step'[h] \in Writing => item[o] # item'[h]
  PROVE  AloneInv'
<1> SUFFICES ASSUME NEW a \in Handler, NEW b \in Handler, a # b, step'[a] \in Writing PROVE item'[b] # item'[a]
  BY DEF AloneInv, Writing
<1>1. CASE a = h
  BY <1>1 DEF Alone
<1>2. CASE a # h
  BY <1>2 DEF Alone, AloneInv
<1> QED
  BY <1>1, <1>2

\* Nothing leaks while the handler minds what it has minded, or has removed it.
LEMMA LeakStays ==
  ASSUME LeakInv, NEW h \in Handler, Alone(h), leaked \subseteq leaked', disk' \subseteq File, CallTypes,
         \A f \in disk' : f \in disk \/ f \in leaked' \/ Minds(h, f)',
         \A f \in disk' : rowStatus[f] = "live" => rowStatus'[f] = "live" \/ Minds(h, f)',
         \A f \in disk' : Minds(h, f) => Minds(h, f)' \/ f \in leaked' \/ rowStatus'[f] = "live"
  PROVE  LeakInv'
<1> SUFFICES ASSUME NEW f \in disk'
    PROVE  rowStatus'[f] = "live" \/ f \in leaked' \/ \E o \in Handler : Minds(o, f)'
  BY DEF LeakInv
<1>1. CASE f \notin disk
  BY <1>1
<1>2. CASE f \in disk /\ \E o \in Handler : Minds(o, f)
  <2>1. PICK o \in Handler : Minds(o, f)
    BY <1>2
  <2>2. CASE o = h
    BY <2>1, <2>2
  <2>3. CASE o # h
    <3>1. Minds(o, f)'
      BY <2>1, <2>3 DEF Minds, Alone
    <3> QED
      BY <3>1
  <2> QED
    BY <2>2, <2>3
<1>3. CASE f \in disk /\ ~(\E o \in Handler : Minds(o, f))
  <2>1. rowStatus[f] = "live" \/ f \in leaked
    BY <1>3 DEF LeakInv
  <2> QED
    BY <2>1
<1> QED
  BY <1>1, <1>2, <1>3

-----------------------------------------------------------------------------
(* What is stored and what is yet to be entered. *)

Stored == [f \in File |-> IF rowStatus[f] = "live" THEN size[f] ELSE 0]

StoredIsSummed == LiveBytes = SumFunctionOnSet(Stored, File) /\ LiveBytes \in Nat

\* The bytes of the rows that can be listed, as a sum over all files.
LEMMA StoredSums == RowTypes => StoredIsSummed
<1> SUFFICES ASSUME RowTypes PROVE StoredIsSummed
  OBVIOUS
<1>1. IsFiniteSet(File)
  BY StorageAssumption
<1>2. LiveFiles \subseteq File /\ File \cap LiveFiles = LiveFiles /\ IsFiniteSet(LiveFiles)
  BY <1>1, FS_Subset DEF LiveFiles
<1>3. \A f \in File : Stored[f] \in Nat
  BY DEF RowTypes, Stored
<1>4. \A f \in File \ LiveFiles : Stored[f] = 0
  BY DEF Stored, LiveFiles
<1>5. SumFunctionOnSet(Stored, File) = SumFunctionOnSet(Stored, LiveFiles)
  <2>1. SumFunctionOnSet(Stored, File) = SumFunctionOnSet(Stored, File \cap LiveFiles)
    BY <1>1, <1>3, <1>4, SumSupport
  <2> QED
    BY <1>2, <2>1
<1>6. \A f \in LiveFiles : size[f] \in Nat /\ size[f] = Stored[f]
  BY DEF RowTypes, Stored, LiveFiles
<1>7. SumFunctionOnSet(size, LiveFiles) = SumFunctionOnSet(Stored, LiveFiles)
  BY <1>2, <1>6, SumSame
<1>8. SumFunctionOnSet(size, LiveFiles) \in Nat
  BY <1>2, <1>6, SumInNat
<1> QED
  BY <1>5, <1>7, <1>8 DEF StoredIsSummed, LiveBytes

ClaimsAreSmall == MaxBytes > 0 => \A h \in Handler : Claim(h) \in Nat /\ Claim(h) <= MaxSize

\* No handler may yet enter more than one file.
LEMMA ClaimsBound == CallTypes /\ RowTypes /\ HandsInv => ClaimsAreSmall
<1> SUFFICES ASSUME CallTypes, RowTypes, HandsInv, MaxBytes > 0, NEW h \in Handler
    PROVE  Claim(h) \in Nat /\ Claim(h) <= MaxSize
  BY DEF ClaimsAreSmall
<1>1. MaxSize \in Nat /\ MaxBytes \in Nat /\ saw[h] \in Nat /\ HandsOf(h)
  BY StorageAssumption DEF CallTypes, HandsInv
<1>2. CASE step[h] = "creating"
  <2>1. saw[h] < MaxBytes
    BY <1>1, <1>2 DEF HandsOf
  <2> QED
    BY <1>1, <1>2, <2>1 DEF Claim
<1>3. CASE step[h] \in Writing
  <2>1. item[h] \in File /\ size[item[h]] <= MaxSize
    BY <1>1, <1>3 DEF HandsOf, Writing, Handling
  <2> QED
    BY <1>3, <2>1 DEF Claim, RowTypes, Writing
<1>4. CASE step[h] # "creating" /\ step[h] \notin Writing
  BY <1>1, <1>4 DEF Claim
<1> QED
  BY <1>2, <1>3, <1>4

\* No more than there was.
LEMMA AmountsStay ==
  ASSUME CallTypes, RowTypes, HandsInv, CallTypes', RowTypes', HandsInv', FilesInv, BytesInv,
         \A f \in File : rowStatus'[f] = "live" => rowStatus[f] = "live" /\ size'[f] = size[f],
         \A h \in Handler : h \in Entering' => h \in Entering,
         MaxBytes > 0 => \A h \in Handler : Claim(h)' <= Claim(h)
  PROVE  FilesInv' /\ BytesInv'
<1>1. IsFiniteSet(File) /\ IsFiniteSet(Handler) /\ MaxFiles \in Nat /\ MaxBytes \in Nat
  BY StorageAssumption
<1>2. FilesInv'
  <2>1. LiveFiles' \subseteq LiveFiles /\ Entering' \subseteq Entering
    BY DEF LiveFiles, Entering
  <2>2. IsFiniteSet(LiveFiles) /\ IsFiniteSet(Entering)
    BY <1>1, FS_Subset DEF LiveFiles, Entering
  <2>3. /\ Cardinality(LiveFiles') <= Cardinality(LiveFiles) /\ Cardinality(Entering') <= Cardinality(Entering)
        /\ Cardinality(LiveFiles) \in Nat /\ Cardinality(Entering) \in Nat
        /\ Cardinality(LiveFiles') \in Nat /\ Cardinality(Entering') \in Nat /\ Cardinality(Handler) \in Nat
    BY <1>1, <2>1, <2>2, FS_Subset, FS_CardinalityType
  <2> QED
    BY <1>1, <2>3 DEF FilesInv
<1>3. ASSUME MaxBytes > 0
      PROVE  LiveBytes' + SumFunctionOnSet(Claims', Handler) <= MaxBytes + MaxSize * (Cardinality(Handler) - 1)
  <2>1. StoredIsSummed /\ StoredIsSummed'
    BY StoredSums, PTL
  <2>2. ClaimsAreSmall /\ ClaimsAreSmall'
    BY ClaimsBound, PTL
  <2>3. \A f \in File : Stored'[f] \in Nat /\ Stored[f] \in Nat /\ Stored'[f] <= Stored[f]
    BY DEF Stored, RowTypes
  <2>4. LiveBytes' <= LiveBytes /\ LiveBytes' \in Nat /\ LiveBytes \in Nat
    BY <1>1, <2>1, <2>3, SumMono DEF StoredIsSummed
  <2>5. \A h \in Handler : Claims'[h] \in Nat /\ Claims[h] \in Nat /\ Claims'[h] <= Claims[h]
    BY <1>3, <2>2 DEF ClaimsAreSmall, Claims
  <2>6. /\ SumFunctionOnSet(Claims', Handler) <= SumFunctionOnSet(Claims, Handler)
        /\ SumFunctionOnSet(Claims', Handler) \in Nat /\ SumFunctionOnSet(Claims, Handler) \in Nat
    BY <1>1, <2>5, SumMono, SumInNat
  <2>7. LiveBytes + SumFunctionOnSet(Claims, Handler) <= MaxBytes + MaxSize * (Cardinality(Handler) - 1)
    BY <1>3 DEF BytesInv
  <2>8. PICK k \in Int : k = MaxSize * (Cardinality(Handler) - 1)
    BY <1>1, FS_CardinalityType, StorageAssumption
  <2> QED
    BY <1>1, <2>4, <2>6, <2>7, <2>8
<1>4. BytesInv'
  BY <1>3 DEF BytesInv
<1> QED
  BY <1>2, <1>4

\* A file that is entered is no longer claimed.
LEMMA AmountsMove ==
  ASSUME CallTypes, RowTypes, HandsInv, CallTypes', RowTypes', HandsInv', FilesInv, BytesInv,
         NEW h \in Handler, NEW g \in File, g = item[h], step[h] \in Writing, Alone(h),
         step'[h] \in {"idle", "discarding"}, rowStatus[g] = "none",
         rowStatus'[g] = "live", \A f \in File : f # g => rowStatus'[f] = rowStatus[f],
         size' = size
  PROVE  FilesInv' /\ BytesInv'
<1>1. IsFiniteSet(File) /\ IsFiniteSet(Handler) /\ MaxFiles \in Nat /\ MaxBytes \in Nat
  BY StorageAssumption
<1>2. FilesInv'
  <2>1. LiveFiles' = LiveFiles \cup {g} /\ g \notin LiveFiles
    BY DEF LiveFiles
  <2>2. Entering' = Entering \ {h} /\ h \in Entering
    BY DEF Entering, Alone, Writing
  <2>3. IsFiniteSet(LiveFiles) /\ IsFiniteSet(Entering)
    BY <1>1, FS_Subset DEF LiveFiles, Entering
  <2>4. /\ Cardinality(LiveFiles') = Cardinality(LiveFiles) + 1 /\ Cardinality(LiveFiles) \in Nat
        /\ Cardinality(Entering') = Cardinality(Entering) - 1 /\ Cardinality(Entering) \in Nat
        /\ Cardinality(Handler) \in Nat
    BY <1>1, <2>1, <2>2, <2>3, FS_AddElement, FS_RemoveElement, FS_CardinalityType
  <2> QED
    BY <1>1, <2>4 DEF FilesInv
<1>3. ASSUME MaxBytes > 0
      PROVE  LiveBytes' + SumFunctionOnSet(Claims', Handler) <= MaxBytes + MaxSize * (Cardinality(Handler) - 1)
  <2>1. StoredIsSummed /\ StoredIsSummed'
    BY StoredSums, PTL
  <2>2. ClaimsAreSmall /\ ClaimsAreSmall'
    BY ClaimsBound, PTL
  <2>3. /\ Stored[g] = 0 /\ Stored'[g] = size[g] /\ size[g] \in Nat
        /\ \A f \in File \ {g} : Stored[f] \in Nat /\ Stored[f] = Stored'[f]
    BY DEF Stored, RowTypes
  <2>4. SumFunctionOnSet(Stored', File) = SumFunctionOnSet(Stored, File) - Stored[g] + Stored'[g]
    <3>1. PICK old, new : old = Stored /\ new = Stored'
      OBVIOUS
    <3>2. /\ old[g] \in Nat /\ new[g] \in Nat
          /\ \A f \in File \ {g} : old[f] \in Nat /\ old[f] = new[f]
      BY <2>3, <3>1
    <3>3. SumFunctionOnSet(new, File) = SumFunctionOnSet(old, File) - old[g] + new[g]
      BY <1>1, <3>2, SumChange
    <3> QED
      BY <3>1, <3>3
  <2>5. LiveBytes' = LiveBytes + size[g] /\ LiveBytes \in Nat
    BY <2>1, <2>3, <2>4 DEF StoredIsSummed
  <2>6. Claim(h) = size[g] /\ Claim(h)' = 0
    BY DEF Claim, Writing
  <2>7. ASSUME NEW o \in Handler \ {h} PROVE Claim(o)' = Claim(o)
    BY DEF Claim, Alone
  <2>8. /\ Claims[h] = size[g] /\ Claims'[h] = 0
        /\ \A o \in Handler \ {h} : Claims[o] \in Nat /\ Claims[o] = Claims'[o]
    BY <1>3, <2>2, <2>6, <2>7 DEF Claims, ClaimsAreSmall
  <2>9. SumFunctionOnSet(Claims', Handler) = SumFunctionOnSet(Claims, Handler) - Claims[h] + Claims'[h]
    <3>1. PICK c, d : c = Claims /\ d = Claims'
      OBVIOUS
    <3>2. c[h] \in Nat /\ d[h] \in Nat /\ \A o \in Handler \ {h} : c[o] \in Nat /\ c[o] = d[o]
      BY <2>3, <2>8, <3>1
    <3>3. SumFunctionOnSet(d, Handler) = SumFunctionOnSet(c, Handler) - c[h] + d[h]
      BY <1>1, <3>2, SumChange
    <3> QED
      BY <3>1, <3>3
  <2>10. SumFunctionOnSet(Claims, Handler) \in Nat
    BY <1>1, <2>3, <2>8, SumInNat
  <2>11. LiveBytes + SumFunctionOnSet(Claims, Handler) <= MaxBytes + MaxSize * (Cardinality(Handler) - 1)
    BY <1>3 DEF BytesInv
  <2>12. LiveBytes' + SumFunctionOnSet(Claims', Handler) = LiveBytes + SumFunctionOnSet(Claims, Handler)
    BY <2>3, <2>5, <2>8, <2>9, <2>10
  <2> QED
    BY <2>11, <2>12
<1>4. BytesInv'
  BY <1>3 DEF BytesInv
<1> QED
  BY <1>2, <1>4

\* Whoever measures found room, and the others claim a file each.
LEMMA AmountsMeasured ==
  ASSUME CallTypes, RowTypes, HandsInv, CallTypes', RowTypes', HandsInv', NEW h \in Handler, Alone(h),
         ~Full(Cardinality(LiveFiles), LiveBytes), UNCHANGED rowVars,
         step'[h] = "creating", saw'[h] = LiveBytes
  PROVE  FilesInv' /\ BytesInv'
<1>1. /\ IsFiniteSet(File) /\ IsFiniteSet(Handler) /\ MaxFiles \in Nat /\ MaxBytes \in Nat
      /\ MaxSize \in Nat /\ Cardinality(Handler) \in Nat
  BY StorageAssumption, FS_CardinalityType
<1>2. FilesInv'
  <2>1. LiveFiles' = LiveFiles /\ Entering' \subseteq Handler /\ IsFiniteSet(LiveFiles)
    BY <1>1, FS_Subset DEF LiveFiles, Entering, rowVars
  <2>2. /\ Cardinality(Entering') <= Cardinality(Handler) /\ Cardinality(Entering') \in Nat
        /\ Cardinality(LiveFiles) \in Nat
    BY <1>1, <2>1, FS_Subset, FS_CardinalityType
  <2>3. MaxFiles > 0 => Cardinality(LiveFiles) < MaxFiles
    BY <1>1, <2>2 DEF Full
  <2> QED
    BY <1>1, <2>1, <2>2, <2>3 DEF FilesInv
<1>3. ASSUME MaxBytes > 0
      PROVE  LiveBytes' + SumFunctionOnSet(Claims', Handler) <= MaxBytes + MaxSize * (Cardinality(Handler) - 1)
  <2>1. StoredIsSummed /\ ClaimsAreSmall'
    BY StoredSums, ClaimsBound, PTL
  <2>2. LiveBytes' = LiveBytes /\ LiveBytes \in Nat /\ LiveBytes < MaxBytes
    BY <1>1, <1>3, <2>1 DEF StoredIsSummed, Full, LiveBytes, LiveFiles, rowVars
  <2>3. \A o \in Handler : Claims'[o] \in Nat /\ Claims'[o] <= MaxSize
    BY <1>3, <2>1 DEF ClaimsAreSmall, Claims
  <2>4. Claims'[h] <= MaxBytes - LiveBytes /\ Claims'[h] \in Nat
    <3>1. Claim(h)' <= MaxBytes - LiveBytes
      BY <1>1, <2>2 DEF Claim
    <3> QED
      BY <2>3, <3>1 DEF Claims
  <2>5. /\ IsFiniteSet(Handler \ {h}) /\ Cardinality(Handler \ {h}) = Cardinality(Handler) - 1
    BY <1>1, FS_RemoveElement
  <2>6. SumFunctionOnSet(Claims', Handler \ {h}) <= MaxSize * Cardinality(Handler \ {h})
    BY <1>1, <2>3, <2>5, SumBound
  <2>7. SumFunctionOnSet(Claims', Handler) = Claims'[h] + SumFunctionOnSet(Claims', Handler \ {h})
    BY <1>1, <2>3, SumSplit
  <2>8. SumFunctionOnSet(Claims', Handler \ {h}) \in Nat
    BY <2>3, <2>5, SumInNat
  <2>9. PICK k \in Int : k = MaxSize * (Cardinality(Handler) - 1) /\ k = MaxSize * Cardinality(Handler \ {h})
    BY <1>1, <2>5
  <2> QED
    BY <1>1, <2>2, <2>4, <2>6, <2>7, <2>8, <2>9
<1>4. BytesInv'
  BY <1>3 DEF BytesInv
<1> QED
  BY <1>2, <1>4

\* The same with one handler that moves.
LEMMA AmountsKept ==
  ASSUME CallTypes, RowTypes, HandsInv, CallTypes', RowTypes', HandsInv', FilesInv, BytesInv,
         NEW h \in Handler, Alone(h),
         \A f \in File : rowStatus'[f] = "live" => rowStatus[f] = "live" /\ size'[f] = size[f],
         \A o \in Handler : o # h /\ step[o] \in Writing => size'[item[o]] = size[item[o]],
         h \in Entering' => h \in Entering,
         MaxBytes > 0 => Claim(h)' <= Claim(h)
  PROVE  FilesInv' /\ BytesInv'
<1>1. \A o \in Handler : o \in Entering' => o \in Entering
  BY DEF Entering, Alone
<1>2. ASSUME MaxBytes > 0, NEW o \in Handler PROVE Claim(o)' <= Claim(o)
  <2>1. CASE o = h
    BY <1>2, <2>1
  <2>2. CASE o # h
    <3>1. ClaimsAreSmall
      BY ClaimsBound
    <3>2. Claim(o) \in Nat
      BY <1>2, <3>1 DEF ClaimsAreSmall
    <3>3. Claim(o)' = Claim(o)
      BY <2>2 DEF Claim, Alone
    <3> QED
      BY <3>2, <3>3
  <2> QED
    BY <2>1, <2>2
<1> QED
  BY <1>1, <1>2, AmountsStay

\* What the handlers have in hand and what lies on the disk, when one of them moves.
LEMMA HandlerMoves ==
  ASSUME StorageInv, NEW h \in Handler, Alone(h), CallTypes', RowTypes', OtherTypes', HandsOf(h)',
         leaked \subseteq leaked', unsure \subseteq unsure',
         \A f \in File : rowStatus[f] = "deleted" => rowStatus'[f] = "deleted",
         \A f \in File : rowStatus[f] # "none" => rowStatus'[f] # "none",
         \A o \in Handler : o # h /\ step[o] \in Writing =>
           /\ rowStatus'[item[o]] = "none" /\ item[o] \in disk' /\ size'[item[o]] = size[item[o]]
           /\ item'[h] # item[o],
         \A o \in Handler : o # h /\ step[o] = "discarding" /\ rowStatus[item[o]] = "none" =>
           rowStatus'[item[o]] = "none" \/ item[o] \in unsure',
         \A o \in Handler : o # h /\ step'[h] \in Writing => item[o] # item'[h],
         \A f \in disk' : f \in disk \/ f \in leaked' \/ Minds(h, f)',
         \A f \in disk' : rowStatus[f] = "live" => rowStatus'[f] = "live" \/ Minds(h, f)',
         \A f \in disk' : Minds(h, f) => Minds(h, f)' \/ f \in leaked' \/ rowStatus'[f] = "live"
  PROVE  StorageTypeOK' /\ HandsInv' /\ AloneInv' /\ LeakInv'
<1>1. CallTypes /\ RowTypes /\ HandsInv /\ AloneInv /\ LeakInv
  BY DEF StorageInv, StorageTypeOK, CallTypes, RowTypes
<1>2. StorageTypeOK'
  BY DEF StorageTypeOK, CallTypes, RowTypes, OtherTypes
<1>3. ASSUME NEW o \in Handler PROVE HandsOf(o)'
  <2>1. CASE o = h
    BY <2>1
  <2>2. CASE o # h
    <3>1. HandsOf(o)
      BY <1>1 DEF HandsInv
    <3>2. /\ step'[o] = step[o] /\ item'[o] = item[o] /\ saw'[o] = saw[o]
          /\ doomed'[o] = doomed[o] /\ toExpand'[o] = toExpand[o]
      BY <2>2 DEF Alone
    <3>3. step[o] \in Writing =>
            rowStatus'[item[o]] = "none" /\ item[o] \in disk' /\ size'[item[o]] = size[item[o]]
      BY <2>2
    <3>4. step[o] = "discarding" /\ rowStatus[item[o]] = "none" => rowStatus'[item[o]] = "none" \/ item[o] \in unsure'
      BY <2>2
    <3> QED
      BY <1>1, <3>1, <3>2, <3>3, <3>4, HandsStay
  <2> QED
    BY <2>1, <2>2
<1>4. AloneInv'
  BY <1>1, AloneStays
<1>5. LeakInv'
  <2>1. disk' \subseteq File
    BY DEF OtherTypes
  <2> QED
    BY <1>1, <2>1, LeakStays
<1> QED
  BY <1>2, <1>3, <1>4, <1>5 DEF HandsInv

\* Rows that stay as they are, while nothing that is listed leaves the disk.
LEMMA CallMovesOn ==
  ASSUME StorageInv, NEW h \in Handler, Alone(h), CallTypes', HandsOf(h)', UNCHANGED <<age, rowVars, unsure>>,
         leaked \subseteq leaked', leaked' \subseteq File, disk' \subseteq disk,
         \A f \in disk \ disk' : rowStatus[f] = "deleted" \/ (step[h] = "discarding" /\ f = item[h]),
         item'[h] = item[h] \/ item'[h] = Nothing \/ rowStatus[item'[h]] # "none",
         step'[h] \in Writing => step[h] \in Writing /\ item'[h] = item[h],
         step'[h] # "creating",
         \A f \in disk' : Minds(h, f) => Minds(h, f)' \/ f \in leaked'
  PROVE  StorageInv'
<1>t. /\ CallTypes /\ RowTypes /\ OtherTypes /\ HandsInv /\ AloneInv /\ LeakInv
      /\ RowHasContent /\ ExtractionIsTrue /\ FilesInv /\ BytesInv
  BY DEF StorageInv, StorageTypeOK, CallTypes, RowTypes, OtherTypes
<1>r. rowStatus' = rowStatus /\ size' = size /\ born' = born /\ extract' = extract /\ unsure' = unsure /\ age' = age
  BY DEF rowVars
<1>1. RowTypes' /\ OtherTypes'
  BY <1>t, <1>r DEF RowTypes, OtherTypes
<1>2. ASSUME NEW o \in Handler, o # h, step[o] \in Writing
      PROVE  rowStatus[item[o]] = "none" /\ item[o] \in disk' /\ item'[h] # item[o] /\ item[o] # item[h]
  <2>1. HandsOf(o)
    BY <1>t DEF HandsInv
  <2>2. rowStatus[item[o]] = "none" /\ item[o] \in disk /\ item[o] \in File
    BY <1>2, <2>1 DEF HandsOf, Handling, Writing
  <2>3. item[h] # item[o]
    BY <1>t, <1>2 DEF AloneInv
  <2>4. item'[h] # item[o]
    BY <2>2, <2>3, StorageAssumption
  <2> QED
    BY <2>2, <2>3, <2>4
<1>3. StorageTypeOK' /\ HandsInv' /\ AloneInv' /\ LeakInv'
  <2>1. /\ unsure \subseteq unsure'
        /\ \A f \in File : rowStatus[f] = "deleted" => rowStatus'[f] = "deleted"
        /\ \A f \in File : rowStatus[f] # "none" => rowStatus'[f] # "none"
        /\ \A f \in disk' : rowStatus[f] = "live" => rowStatus'[f] = "live"
        /\ \A f \in disk' : f \in disk
    BY <1>r
  <2>2. \A o \in Handler : o # h /\ step[o] \in Writing =>
          /\ rowStatus'[item[o]] = "none" /\ item[o] \in disk' /\ size'[item[o]] = size[item[o]]
          /\ item'[h] # item[o]
    BY <1>2, <1>r
  <2>3. \A o \in Handler : o # h /\ step[o] = "discarding" /\ rowStatus[item[o]] = "none" =>
          rowStatus'[item[o]] = "none" \/ item[o] \in unsure'
    BY <1>r
  <2>4. \A o \in Handler : o # h /\ step'[h] \in Writing => item[o] # item'[h]
    BY <1>t DEF AloneInv
  <2> QED
    BY <1>1, <2>1, <2>2, <2>3, <2>4, HandlerMoves
<1>4. RowHasContent'
  <2> SUFFICES ASSUME NEW f \in File, rowStatus[f] = "live" PROVE f \in disk' \/ f \in unsure
    BY <1>r DEF RowHasContent, LiveFiles
  <2>1. f \in disk \/ f \in unsure
    BY <1>t DEF RowHasContent, LiveFiles
  <2>2. HandsOf(h)
    BY <1>t DEF HandsInv
  <2>3. CASE f \in disk /\ f \notin disk'
    <3>1. step[h] = "discarding" /\ f = item[h]
      BY <2>3
    <3> QED
      BY <2>2, <3>1 DEF HandsOf
  <2> QED
    BY <2>1, <2>3
<1>5. ExtractionIsTrue'
  BY <1>t, <1>r DEF ExtractionIsTrue, LiveFiles
<1>6. FilesInv' /\ BytesInv'
  <2>1. h \in Entering' => h \in Entering
    BY DEF Entering
  <2>2. ASSUME MaxBytes > 0 PROVE Claim(h)' <= Claim(h)
    <3>1. Claim(h) \in Nat
      <4>1. ClaimsAreSmall
        BY <1>t, ClaimsBound
      <4> QED
        BY <2>2, <4>1 DEF ClaimsAreSmall
    <3>2. CASE step'[h] \in Writing
      <4>1. Claim(h)' = Claim(h)
        BY <1>r, <3>2 DEF Claim, Writing
      <4> QED
        BY <3>1, <4>1
    <3>3. CASE step'[h] \notin Writing
      <4>1. Claim(h)' = 0
        BY <3>3 DEF Claim
      <4> QED
        BY <3>1, <4>1
    <3> QED
      BY <3>2, <3>3
  <2> QED
    BY <1>t, <1>1, <1>3, <1>r, <2>1, <2>2, AmountsKept
<1> QED
  BY <1>3, <1>4, <1>5, <1>6 DEF StorageInv

-----------------------------------------------------------------------------
(* The steps. *)

\* What the invariant says of one handler.
LEMMA InvOf ==
  ASSUME StorageInv, NEW h \in Handler
  PROVE  /\ CallTypes /\ RowTypes /\ OtherTypes /\ HandsInv /\ AloneInv /\ LeakInv
         /\ RowHasContent /\ ExtractionIsTrue /\ FilesInv /\ BytesInv
         /\ HandsOf(h) /\ step[h] \in Steps /\ goal[h] \in Goals /\ saw[h] \in Nat
         /\ item[h] \in File \cup {Nothing} /\ doomed[h] \in SUBSET File /\ toExpand[h] \in SUBSET File
<1>1. /\ CallTypes /\ RowTypes /\ OtherTypes /\ HandsInv /\ AloneInv /\ LeakInv
      /\ RowHasContent /\ ExtractionIsTrue /\ FilesInv /\ BytesInv
  BY DEF StorageInv, StorageTypeOK, CallTypes, RowTypes, OtherTypes
<1>2. /\ HandsOf(h) /\ step[h] \in Steps /\ goal[h] \in Goals /\ saw[h] \in Nat
      /\ item[h] \in File \cup {Nothing} /\ doomed[h] \in SUBSET File /\ toExpand[h] \in SUBSET File
  BY <1>1 DEF HandsInv, CallTypes
<1> QED
  BY <1>1, <1>2

\* A call that ends with nothing left to remove and nothing to discard.
LEMMA EndKeeps ==
  ASSUME StorageInv, NEW h \in Handler, Done(h), UNCHANGED <<age, rowVars, unsure>>,
         leaked \subseteq leaked', leaked' \subseteq File, disk' \subseteq disk,
         \A f \in disk \ disk' : rowStatus[f] = "deleted" \/ (step[h] = "discarding" /\ f = item[h]),
         \A f \in disk' : ~Minds(h, f) \/ f \in leaked'
  PROVE  StorageInv'
<1>1. Goes(h, "idle", Nothing, {}, {}, 0)
  BY InvOf, CallEnds
<1>2. /\ CallTypes' /\ Alone(h) /\ step'[h] = "idle" /\ item'[h] = Nothing
      /\ doomed'[h] = {} /\ toExpand'[h] = {}
  BY <1>1 DEF Goes
<1>3. HandsOf(h)'
  BY <1>2 DEF HandsOf, Handling, Writing
<1> QED
  BY <1>2, <1>3, CallMovesOn DEF Writing

\* A file whose row is marked is removed, or leaks.
LEMMA RemoveFileKeeps == ASSUME StorageInv, NEW h \in Handler, RemoveFile(h) PROVE StorageInv'
<1>t. /\ CallTypes /\ RowTypes /\ OtherTypes /\ HandsOf(h) /\ item[h] \in File \cup {Nothing}
      /\ doomed[h] \in SUBSET File /\ toExpand[h] \in SUBSET File /\ saw[h] \in Nat /\ goal[h] \in Goals
  BY InvOf
<1>1. /\ step[h] = "removing" /\ UNCHANGED <<age, rowVars, unsure>>
  BY DEF RemoveFile
<1>2. PICK f \in doomed[h] :
        /\ \/ disk' = disk \ {f} /\ UNCHANGED leaked
           \/ leaked' = leaked \cup {f} /\ UNCHANGED disk
        /\ IF doomed[h] # {f}
           THEN /\ doomed' = [doomed EXCEPT ![h] = @ \ {f}]
                /\ UNCHANGED <<step, goal, saw, item, toExpand>>
           ELSE IF goal[h] = "upload"
           THEN At(h, "measuring") /\ doomed' = [doomed EXCEPT ![h] = {}] /\ UNCHANGED <<goal, saw, item, toExpand>>
           ELSE Done(h)
  BY DEF RemoveFile
<1>3. /\ leaked \subseteq leaked' /\ leaked' \subseteq File /\ disk' \subseteq disk
      /\ \A g \in disk \ disk' : g = f
      /\ f \notin disk' \/ f \in leaked'
  BY <1>t, <1>2 DEF OtherTypes
<1>4. rowStatus[f] = "deleted" /\ item[h] = Nothing /\ Nothing \notin File
  BY <1>t, <1>1, <1>2, StorageAssumption DEF HandsOf, Handling
<1>5. \A g \in disk' : Minds(h, g) => g \in doomed[h]
  BY <1>1 DEF Minds, Writing
<1>6. CASE doomed[h] = {f} /\ goal[h] # "upload"
  <2>1. Done(h)
    BY <1>2, <1>6
  <2> QED
    BY <1>1, <1>3, <1>4, <1>5, <1>6, <2>1, EndKeeps
<1>7. CASE doomed[h] = {f} /\ goal[h] = "upload"
  <2>1. /\ step' = [step EXCEPT ![h] = "measuring"] /\ doomed' = [doomed EXCEPT ![h] = {}]
        /\ UNCHANGED <<goal, saw, item, toExpand>>
    BY <1>2, <1>7 DEF At
  <2>2. Goes(h, "measuring", item[h], {}, toExpand[h], saw[h])
    BY <1>t, <2>1, CallMoves DEF Steps
  <2>3. /\ CallTypes' /\ Alone(h) /\ step'[h] = "measuring" /\ item'[h] = Nothing
        /\ doomed'[h] = {} /\ toExpand'[h] = toExpand[h]
    BY <1>4, <2>2 DEF Goes
  <2>4. HandsOf(h)'
    BY <1>t, <1>1, <2>3 DEF HandsOf, Handling, Writing, rowVars
  <2> QED
    BY <1>1, <1>3, <1>4, <1>5, <1>7, <2>3, <2>4, CallMovesOn DEF Writing
<1>8. CASE doomed[h] # {f}
  <2>1. /\ step' = [step EXCEPT ![h] = "removing"] /\ doomed' = [doomed EXCEPT ![h] = doomed[h] \ {f}]
        /\ UNCHANGED <<goal, saw, item, toExpand>>
    BY <1>1, <1>2, <1>8, <1>t DEF CallTypes
  <2>2. Goes(h, "removing", item[h], doomed[h] \ {f}, toExpand[h], saw[h])
    BY <1>t, <2>1, CallMoves DEF Steps
  <2>3. /\ CallTypes' /\ Alone(h) /\ step'[h] = "removing" /\ item'[h] = Nothing
        /\ doomed'[h] = doomed[h] \ {f} /\ toExpand'[h] = toExpand[h]
    BY <1>4, <2>2 DEF Goes
  <2>4. HandsOf(h)'
    BY <1>t, <1>1, <2>3 DEF HandsOf, Handling, Writing, rowVars
  <2>5. \A g \in disk' : Minds(h, g) => Minds(h, g)' \/ g \in leaked'
    BY <1>3, <1>5, <2>3 DEF Minds
  <2> QED
    BY <1>1, <1>3, <1>4, <2>3, <2>4, <2>5, CallMovesOn DEF Writing
<1> QED
  BY <1>6, <1>7, <1>8

\* A handler measures, and goes on only when there is room.
LEMMA MeasureKeeps == ASSUME StorageInv, NEW h \in Handler, MeasureStorage(h) PROVE StorageInv'
<1>t. /\ CallTypes /\ RowTypes /\ OtherTypes /\ HandsInv /\ AloneInv /\ RowHasContent /\ ExtractionIsTrue
      /\ HandsOf(h) /\ item[h] \in File \cup {Nothing}
      /\ doomed[h] \in SUBSET File /\ toExpand[h] \in SUBSET File /\ goal[h] \in Goals
  BY InvOf
<1>1. step[h] \in {"idle", "measuring"} /\ UNCHANGED <<age, rowVars, disk, leaked, unsure>>
  BY DEF MeasureStorage
<1>2. \A f \in disk : ~Minds(h, f)
  BY <1>t, <1>1 DEF Minds, Writing, HandsOf
<1>3. CASE Full(Cardinality(LiveFiles), LiveBytes)
  <2>1. Done(h)
    BY <1>3 DEF MeasureStorage
  <2> QED
    BY <1>t, <1>1, <1>2, <2>1, EndKeeps DEF OtherTypes
<1>4. CASE ~Full(Cardinality(LiveFiles), LiveBytes)
  <2>0. LiveBytes \in Nat
    BY <1>t, StoredSums DEF StoredIsSummed
  <2>1. /\ step' = [step EXCEPT ![h] = "creating"] /\ saw' = [saw EXCEPT ![h] = LiveBytes]
        /\ UNCHANGED <<goal, item, doomed, toExpand>>
    BY <1>4 DEF MeasureStorage, At
  <2>2. Goes(h, "creating", item[h], doomed[h], toExpand[h], LiveBytes)
    BY <1>t, <2>0, <2>1, CallMoves DEF Steps
  <2>3. /\ CallTypes' /\ Alone(h) /\ step'[h] = "creating" /\ item'[h] = Nothing /\ saw'[h] = LiveBytes
        /\ doomed'[h] = {} /\ toExpand'[h] = toExpand[h]
    BY <1>t, <1>1, <2>2 DEF Goes, HandsOf, Handling
  <2>4. MaxBytes > 0 => LiveBytes < MaxBytes
    BY <1>4, <2>0, StorageAssumption DEF Full
  <2>5. HandsOf(h)'
    BY <1>t, <1>1, <2>3, <2>4 DEF HandsOf, Handling, Writing, rowVars
  <2>6. RowTypes' /\ OtherTypes' /\ RowHasContent' /\ ExtractionIsTrue'
    BY <1>t, <1>1 DEF RowTypes, OtherTypes, RowHasContent, ExtractionIsTrue, LiveFiles, rowVars
  <2>7. ASSUME NEW o \in Handler, o # h, step[o] \in Writing
        PROVE  rowStatus[item[o]] = "none" /\ item[o] \in disk /\ Nothing # item[o]
    <3>1. HandsOf(o)
      BY <1>t DEF HandsInv
    <3> QED
      BY <2>7, <3>1, StorageAssumption DEF HandsOf, Handling, Writing
  <2>8. StorageTypeOK' /\ HandsInv' /\ AloneInv' /\ LeakInv'
    BY <1>1, <1>2, <2>3, <2>5, <2>6, <2>7, HandlerMoves DEF rowVars, Writing
  <2>9. FilesInv' /\ BytesInv'
    BY <1>t, <1>1, <1>4, <2>3, <2>6, <2>8, AmountsMeasured
  <2> QED
    BY <2>6, <2>8, <2>9 DEF StorageInv
<1> QED
  BY <1>3, <1>4

\* The content arrives, or does not.
LEMMA CopyKeeps == ASSUME StorageInv, NEW h \in Handler, CopyContent(h) PROVE StorageInv'
<1>t. /\ CallTypes /\ RowTypes /\ OtherTypes /\ HandsOf(h) /\ item[h] \in File \cup {Nothing}
      /\ doomed[h] \in SUBSET File /\ toExpand[h] \in SUBSET File /\ saw[h] \in Nat /\ goal[h] \in Goals
  BY InvOf
<1>1. step[h] = "copying" /\ UNCHANGED <<age, rowVars, disk, goal, saw, item, doomed, toExpand, leaked, unsure>>
  BY DEF CopyContent
<1>2. PICK s \in {"inserting", "discarding"} : step' = [step EXCEPT ![h] = s]
  BY DEF CopyContent, At
<1>3. Goes(h, s, item[h], doomed[h], toExpand[h], saw[h])
  BY ZenonT(40), <1>t, <1>1, <1>2, CallMoves DEF Steps
<1>4. /\ CallTypes' /\ Alone(h) /\ step'[h] = s /\ item'[h] = item[h]
      /\ doomed'[h] = doomed[h] /\ toExpand'[h] = toExpand[h]
  BY <1>3 DEF Goes
<1>5. HandsOf(h)'
  BY <1>t, <1>1, <1>4 DEF HandsOf, Handling, Writing, rowVars
<1>6. \A f \in disk : Minds(h, f) => Minds(h, f)'
  BY <1>1, <1>4 DEF Minds, Writing
<1> QED
  BY <1>t, <1>1, <1>4, <1>5, <1>6, CallMovesOn DEF Writing, OtherTypes

\* The file of an upload that failed is removed, or leaks.
LEMMA DiscardKeeps == ASSUME StorageInv, NEW h \in Handler, Discard(h) PROVE StorageInv'
<1>t. OtherTypes /\ HandsOf(h) /\ item[h] \in File \cup {Nothing}
  BY InvOf
<1>1. /\ step[h] = "discarding" /\ Done(h) /\ UNCHANGED <<age, rowVars, unsure>>
      /\ \/ disk' = disk \ {item[h]} /\ UNCHANGED leaked
         \/ leaked' = leaked \cup {item[h]} /\ UNCHANGED disk
  BY DEF Discard
<1>2. item[h] \in File /\ doomed[h] = {}
  BY <1>t, <1>1 DEF HandsOf, Handling
<1>3. /\ leaked \subseteq leaked' /\ leaked' \subseteq File /\ disk' \subseteq disk
      /\ \A f \in disk \ disk' : f = item[h]
      /\ item[h] \notin disk' \/ item[h] \in leaked'
  BY <1>t, <1>1, <1>2 DEF OtherTypes
<1>4. \A f \in disk' : Minds(h, f) => f = item[h]
  BY <1>2 DEF Minds
<1> QED
  BY <1>1, <1>3, <1>4, EndKeeps

\* A chat notes documents that can be listed.
LEMMA ReadKeeps == ASSUME StorageInv, NEW h \in Handler, ReadAttachments(h) PROVE StorageInv'
<1>t. /\ CallTypes /\ RowTypes /\ OtherTypes /\ HandsOf(h) /\ item[h] \in File \cup {Nothing}
      /\ doomed[h] \in SUBSET File /\ toExpand[h] \in SUBSET File /\ saw[h] \in Nat /\ goal[h] \in Goals
  BY InvOf
<1>1. step[h] = "idle" /\ UNCHANGED <<age, rowVars, disk, goal, saw, item, doomed, leaked, unsure>>
  BY DEF ReadAttachments
<1>2. PICK fs \in SUBSET LiveFiles : step' = [step EXCEPT ![h] = "expanding"] /\ toExpand' = [toExpand EXCEPT ![h] = fs]
  BY DEF ReadAttachments, At
<1>3. fs \in SUBSET File /\ \A f \in fs : rowStatus[f] = "live"
  BY <1>2 DEF LiveFiles
<1>4. Goes(h, "expanding", item[h], doomed[h], fs, saw[h])
  BY <1>t, <1>1, <1>2, <1>3, CallMoves DEF Steps
<1>5. /\ CallTypes' /\ Alone(h) /\ step'[h] = "expanding" /\ item'[h] = Nothing
      /\ doomed'[h] = {} /\ toExpand'[h] = fs
  BY <1>t, <1>1, <1>4 DEF Goes, HandsOf, Handling
<1>6. HandsOf(h)'
  BY <1>1, <1>3, <1>5 DEF HandsOf, Handling, Writing, rowVars
<1>7. \A f \in disk : ~Minds(h, f)
  BY <1>t, <1>1 DEF Minds, Writing, HandsOf
<1> QED
  BY <1>t, <1>1, <1>5, <1>6, <1>7, CallMovesOn DEF Writing, OtherTypes

\* It cannot read a file only if a deletion removed it, or its row is in doubt.
LEMMA ExtractKeeps == ASSUME StorageInv, NEW h \in Handler, ExtractLate(h) PROVE StorageInv'
<1>t. /\ CallTypes /\ RowTypes /\ OtherTypes /\ HandsOf(h) /\ item[h] \in File \cup {Nothing} /\ RowHasContent
      /\ doomed[h] \in SUBSET File /\ toExpand[h] \in SUBSET File /\ saw[h] \in Nat /\ goal[h] \in Goals
  BY InvOf
<1>1. step[h] = "expanding" /\ UNCHANGED <<age, rowVars, disk, goal, saw, doomed, leaked, unsure>>
  BY DEF ExtractLate
<1>2. PICK f \in toExpand[h] :
        /\ toExpand' = [toExpand EXCEPT ![h] = toExpand[h] \ {f}]
        /\ item' = [item EXCEPT ![h] = f]
        /\ step' = [step EXCEPT ![h] = IF f \in disk THEN "extracted" ELSE "unreadable"]
  BY DEF ExtractLate, At
<1>3. PICK s \in {"extracted", "unreadable"} : s = IF f \in disk THEN "extracted" ELSE "unreadable"
  OBVIOUS
<1>4. f \in File /\ rowStatus[f] # "none" /\ toExpand[h] \ {f} \in SUBSET File
  BY <1>t, <1>2 DEF HandsOf
<1>5. Goes(h, s, f, doomed[h], toExpand[h] \ {f}, saw[h])
  BY <1>t, <1>1, <1>2, <1>3, <1>4, CallMoves DEF Steps
<1>6. /\ CallTypes' /\ Alone(h) /\ step'[h] = s /\ item'[h] = f
      /\ doomed'[h] = {} /\ toExpand'[h] = toExpand[h] \ {f}
  BY <1>t, <1>1, <1>5 DEF Goes, HandsOf
<1>7. s = "unreadable" => rowStatus[f] = "deleted" \/ f \in unsure
  <2> SUFFICES ASSUME f \notin disk, rowStatus[f] = "live" PROVE f \in unsure
    BY <1>t, <1>3, <1>4 DEF RowTypes
  <2> QED
    BY <1>t, <1>4 DEF RowHasContent, LiveFiles
<1>8. HandsOf(h)'
  BY <1>t, <1>1, <1>3, <1>4, <1>6, <1>7 DEF HandsOf, Handling, Writing, rowVars
<1>9. \A g \in disk : ~Minds(h, g)
  BY <1>t, <1>1 DEF Minds, Writing, HandsOf
<1> QED
  BY <1>t, <1>1, <1>3, <1>4, <1>6, <1>8, <1>9, CallMovesOn DEF Writing, OtherTypes

\* Rows that are marked as deleted, for the handler that marks them to remove their files.
LEMMA DeleteMoves ==
  ASSUME StorageInv, NEW h \in Handler, NEW fs \in SUBSET LiveFiles, Delete(fs), step[h] = "idle",
         NEW s \in {"removing", "measuring"}, s = "measuring" => fs = {},
         Goes(h, s, item[h], fs, toExpand[h], saw[h]), UNCHANGED <<age, disk, leaked, unsure>>
  PROVE  StorageInv'
<1>t. /\ CallTypes /\ RowTypes /\ OtherTypes /\ HandsInv /\ AloneInv /\ RowHasContent /\ ExtractionIsTrue
      /\ FilesInv /\ BytesInv /\ HandsOf(h)
  BY InvOf
<1>1. /\ CallTypes' /\ Alone(h) /\ step'[h] = s /\ item'[h] = Nothing
      /\ doomed'[h] = fs /\ toExpand'[h] = toExpand[h]
  BY <1>t DEF Goes, HandsOf, Handling
<1>2. \A f \in fs : rowStatus[f] = "live" /\ rowStatus'[f] = "deleted" /\ f \in File
  BY DEF Delete, LiveFiles
<1>3. \A f \in File \ fs : rowStatus'[f] = rowStatus[f] /\ size'[f] = size[f] /\ extract'[f] = extract[f]
  BY DEF Delete
<1>4. RowTypes' /\ OtherTypes'
  <2>1. rowStatus' \in [File -> {"none", "live", "deleted"}]
    BY <1>t DEF Delete, RowTypes
  <2>2. size' \in [File -> Nat] /\ born' \in [File -> Nat]
    BY <1>t DEF Delete, RowTypes
  <2>3. extract' \in [File -> {"stored", "ready", "failed"}]
    BY <1>t DEF Delete, RowTypes
  <2> QED
    BY <1>t, <2>1, <2>2, <2>3 DEF RowTypes, OtherTypes
<1>5. /\ \A f \in File : rowStatus[f] = "deleted" => rowStatus'[f] = "deleted"
      /\ \A f \in File : rowStatus[f] # "none" => rowStatus'[f] # "none"
      /\ \A f \in File : rowStatus[f] = "none" => rowStatus'[f] = "none" /\ size'[f] = size[f]
  BY <1>2, <1>3
<1>6. HandsOf(h)'
  <2>1. \A f \in toExpand[h] : rowStatus'[f] # "none"
    BY <1>t, <1>5 DEF HandsOf, CallTypes
  <2> QED
    BY <1>1, <1>2, <2>1 DEF HandsOf, Handling, Writing
<1>7. \A f \in disk : ~Minds(h, f)
  BY <1>t DEF Minds, Writing, HandsOf
<1>8. ASSUME NEW o \in Handler, o # h, step[o] \in Writing
      PROVE  rowStatus'[item[o]] = "none" /\ item[o] \in disk /\ size'[item[o]] = size[item[o]] /\ Nothing # item[o]
  <2>1. HandsOf(o)
    BY <1>t DEF HandsInv
  <2>2. rowStatus[item[o]] = "none" /\ item[o] \in disk /\ item[o] \in File
    BY <1>8, <2>1 DEF HandsOf, Handling, Writing
  <2> QED
    BY <1>5, <2>2, StorageAssumption
<1>9. ASSUME NEW o \in Handler, o # h, step[o] = "discarding", rowStatus[item[o]] = "none"
      PROVE  rowStatus'[item[o]] = "none"
  <2>1. HandsOf(o)
    BY <1>t DEF HandsInv
  <2> QED
    BY <1>5, <1>9, <2>1 DEF HandsOf, Handling
<1>10. \A f \in disk : rowStatus[f] = "live" => rowStatus'[f] = "live" \/ Minds(h, f)'
  BY <1>t, <1>1, <1>3 DEF Minds, OtherTypes
<1>11. StorageTypeOK' /\ HandsInv' /\ AloneInv' /\ LeakInv'
  <2>1. leaked \subseteq leaked' /\ unsure \subseteq unsure' /\ disk' = disk /\ step'[h] \notin Writing
    BY <1>1 DEF Writing
  <2> QED
    BY <1>1, <1>4, <1>5, <1>6, <1>7, <1>8, <1>9, <1>10, <2>1, HandlerMoves
<1>12. \A f \in File : rowStatus'[f] = "live" => rowStatus[f] = "live" /\ size'[f] = size[f] /\ extract'[f] = extract[f]
  BY <1>2, <1>3
<1>13. RowHasContent' /\ ExtractionIsTrue'
  BY <1>t, <1>12 DEF RowHasContent, ExtractionIsTrue, LiveFiles
<1>14. FilesInv' /\ BytesInv'
  <2>1. h \notin Entering'
    BY <1>1 DEF Entering, Writing
  <2>2. Claim(h) = 0 /\ Claim(h)' = 0
    BY <1>1 DEF Claim, Writing
  <2> QED
    BY <1>t, <1>1, <1>4, <1>8, <1>11, <1>12, <2>1, <2>2, AmountsKept
<1> QED
  BY <1>11, <1>13, <1>14 DEF StorageInv

\* A call marks the rows that are too old before it does anything else.
LEMMA BeginKeeps == ASSUME StorageInv, NEW h \in Handler, NEW g \in Goals, BeginCall(h, g) PROVE StorageInv'
<1> DEFINE old == {f \in LiveFiles : Retention > 0 /\ born[f] + Retention < age}
<1>t. /\ CallTypes /\ item[h] \in File \cup {Nothing} /\ toExpand[h] \in SUBSET File /\ saw[h] \in Nat
  BY InvOf
<1>1. /\ step[h] = "idle" /\ goal' = [goal EXCEPT ![h] = g] /\ Delete(old)
      /\ doomed' = [doomed EXCEPT ![h] = old]
      /\ step' = [step EXCEPT ![h] = IF old # {} THEN "removing" ELSE "measuring"]
      /\ UNCHANGED <<age, disk, saw, item, toExpand, leaked, unsure>>
  BY DEF BeginCall, At
<1>2. old \in SUBSET LiveFiles /\ old \in SUBSET File
  BY DEF LiveFiles
<1> HIDE DEF old
<1>3. PICK s \in {"removing", "measuring"} : s = IF old # {} THEN "removing" ELSE "measuring"
  OBVIOUS
<1>4. Goes(h, s, item[h], old, toExpand[h], saw[h])
  BY <1>t, <1>1, <1>2, <1>3, CallMoves DEF Steps
<1> QED
  BY <1>1, <1>2, <1>3, <1>4, DeleteMoves

\* So does a deletion.
LEMMA DeleteKeeps == ASSUME StorageInv, NEW h \in Handler, DeleteAttachment(h) PROVE StorageInv'
<1>t. /\ CallTypes /\ item[h] \in File \cup {Nothing} /\ toExpand[h] \in SUBSET File
      /\ saw[h] \in Nat /\ goal[h] \in Goals
  BY InvOf
<1>1. step[h] = "idle" /\ UNCHANGED <<age, disk, goal, saw, item, toExpand, leaked, unsure>>
  BY DEF DeleteAttachment
<1>2. PICK f \in LiveFiles :
        /\ Delete({f})
        /\ step' = [step EXCEPT ![h] = "removing"]
        /\ doomed' = [doomed EXCEPT ![h] = {f}]
  BY DEF DeleteAttachment, At
<1>3. {f} \in SUBSET LiveFiles /\ {f} \in SUBSET File
  BY DEF LiveFiles
<1>4. Goes(h, "removing", item[h], {f}, toExpand[h], saw[h])
  BY <1>t, <1>1, <1>2, <1>3, CallMoves DEF Steps
<1> QED
  BY <1>1, <1>2, <1>3, <1>4, DeleteMoves

\* A fresh file is in the hands of the handler that wrote it, or leaks.
LEMMA FreshMoves ==
  ASSUME StorageInv, NEW h \in Handler, step[h] = "creating", NEW f \in File, NEW n \in 1..MaxSize,
         f \notin disk \cup leaked, rowStatus[f] = "none", \A o \in Handler : item[o] # f, Fits(h, n),
         disk' = disk \cup {f}, size' = [size EXCEPT ![f] = n], UNCHANGED <<age, rowStatus, born, extract, unsure>>,
         NEW s \in Steps, NEW i \in File \cup {Nothing}, NEW e \in SUBSET File, NEW w \in Nat,
         Goes(h, s, i, {}, e, w), e = {} \/ e = toExpand[h],
         leaked \subseteq leaked', leaked' \subseteq File,
         (s \in Writing /\ i = f) \/ (s = "idle" /\ i = Nothing /\ f \in leaked')
  PROVE  StorageInv'
<1>t. /\ CallTypes /\ RowTypes /\ OtherTypes /\ HandsInv /\ AloneInv /\ RowHasContent /\ ExtractionIsTrue
      /\ FilesInv /\ BytesInv /\ HandsOf(h) /\ saw[h] \in Nat
  BY InvOf
<1>1. /\ CallTypes' /\ Alone(h) /\ step'[h] = s /\ item'[h] = i /\ doomed'[h] = {} /\ toExpand'[h] = e
  BY DEF Goes
<1>2. n \in Nat /\ n <= MaxSize /\ (MaxBytes > 0 => saw[h] + n <= MaxBytes) /\ MaxSize \in Nat /\ MaxBytes \in Nat
  BY StorageAssumption DEF Fits
<1>3. RowTypes' /\ OtherTypes'
  <2>1. size' \in [File -> Nat]
    BY <1>t, <1>2 DEF RowTypes
  <2> QED
    BY <1>t, <2>1 DEF RowTypes, OtherTypes
<1>4. size'[f] = n /\ \A g \in File : g # f => size'[g] = size[g]
  BY <1>t DEF RowTypes
<1>5. HandsOf(h)'
  <2>1. \A g \in e : rowStatus[g] # "none"
    BY <1>t DEF HandsOf
  <2> QED
    BY <1>1, <1>2, <1>4, <2>1, StorageAssumption DEF HandsOf, Handling, Writing
<1>6. ASSUME NEW o \in Handler, o # h, step[o] \in Writing
      PROVE  rowStatus[item[o]] = "none" /\ item[o] \in disk' /\ size'[item[o]] = size[item[o]] /\ i # item[o]
  <2>1. HandsOf(o)
    BY <1>t DEF HandsInv
  <2>2. rowStatus[item[o]] = "none" /\ item[o] \in disk /\ item[o] \in File
    BY <1>6, <2>1 DEF HandsOf, Handling, Writing
  <2> QED
    BY <1>4, <2>2, StorageAssumption
<1>7. \A g \in disk' : g \in disk \/ g \in leaked' \/ Minds(h, g)'
  BY <1>1 DEF Minds
<1>8. \A g \in disk' : ~Minds(h, g)
  BY <1>t DEF Minds, Writing, HandsOf
<1>9. StorageTypeOK' /\ HandsInv' /\ AloneInv' /\ LeakInv'
  <2>1. \A o \in Handler : o # h /\ step'[h] \in Writing => item[o] # item'[h]
    BY <1>1 DEF Writing
  <2> QED
    BY <1>1, <1>3, <1>5, <1>6, <1>7, <1>8, <2>1, HandlerMoves
<1>10. RowHasContent' /\ ExtractionIsTrue'
  BY <1>t DEF RowHasContent, ExtractionIsTrue, LiveFiles
<1>11. FilesInv' /\ BytesInv'
  <2>1. h \in Entering
    BY DEF Entering
  <2>2. \A g \in File : rowStatus'[g] = "live" => rowStatus[g] = "live" /\ size'[g] = size[g]
    BY <1>4
  <2>3. ASSUME MaxBytes > 0 PROVE Claim(h)' <= Claim(h)
    <3>1. Claim(h) = IF MaxBytes - saw[h] < MaxSize THEN MaxBytes - saw[h] ELSE MaxSize
      BY DEF Claim
    <3>2. n <= Claim(h) /\ Claim(h) \in Int /\ 0 <= Claim(h)
      BY <1>t, <1>2, <2>3, <3>1
    <3>3. Claim(h)' = n \/ Claim(h)' = 0
      BY <1>1, <1>4 DEF Claim, Writing
    <3> QED
      BY <3>2, <3>3
  <2> QED
    BY <1>t, <1>1, <1>3, <1>6, <1>9, <2>1, <2>2, <2>3, AmountsKept
<1> QED
  BY <1>9, <1>10, <1>11 DEF StorageInv

\* An upload, or a generated file, is written or is not.
LEMMA CreateKeeps == ASSUME StorageInv, NEW h \in Handler, CreateFile(h) PROVE StorageInv'
<1>t. /\ CallTypes /\ RowTypes /\ OtherTypes /\ HandsOf(h) /\ item[h] \in File \cup {Nothing}
      /\ doomed[h] \in SUBSET File /\ toExpand[h] \in SUBSET File /\ saw[h] \in Nat /\ goal[h] \in Goals
  BY InvOf
<1>1. step[h] = "creating" /\ UNCHANGED <<age, rowStatus, born, extract, unsure>> /\ doomed[h] = {}
  BY <1>t DEF CreateFile, HandsOf
<1>2. CASE Done(h) /\ UNCHANGED <<disk, size, leaked>>
  <2>1. \A f \in disk : ~Minds(h, f)
    BY <1>1 DEF Minds, Writing
  <2> QED
    BY <1>t, <1>1, <1>2, <2>1, EndKeeps DEF OtherTypes, rowVars
<1>3. ASSUME NEW f \in File, NEW n \in 1..MaxSize,
             f \notin disk \cup leaked, rowStatus[f] = "none", \A o \in Handler : item[o] # f, Fits(h, n),
             disk' = disk \cup {f}, size' = [size EXCEPT ![f] = n],
             \/ /\ At(h, IF goal[h] = "upload" THEN "copying" ELSE "inserting")
                /\ item' = [item EXCEPT ![h] = f]
                /\ UNCHANGED <<goal, saw, doomed, toExpand, leaked>>
             \/ leaked' = leaked \cup {f} /\ Done(h)
      PROVE  StorageInv'
  <2>1. CASE leaked' = leaked \cup {f} /\ Done(h)
    <3>1. Goes(h, "idle", Nothing, {}, {}, 0)
      BY <1>t, <2>1, CallEnds
    <3>2. leaked \subseteq leaked' /\ leaked' \subseteq File /\ f \in leaked' /\ "idle" \in Steps /\ {} \in SUBSET File
      BY <1>t, <2>1 DEF OtherTypes, Steps
    <3> QED
      BY <1>1, <1>3, <3>1, <3>2, FreshMoves
  <2>2. CASE /\ At(h, IF goal[h] = "upload" THEN "copying" ELSE "inserting")
             /\ item' = [item EXCEPT ![h] = f]
             /\ UNCHANGED <<goal, saw, doomed, toExpand, leaked>>
    <3>1. PICK s \in Writing : s = IF goal[h] = "upload" THEN "copying" ELSE "inserting"
      BY DEF Writing
    <3>2. step' = [step EXCEPT ![h] = s] /\ s \in Steps
      BY <2>2, <3>1 DEF At, Steps, Writing
    <3>3. Goes(h, s, f, {}, toExpand[h], saw[h])
      BY <1>t, <1>1, <2>2, <3>2, CallMoves
    <3>4. leaked \subseteq leaked' /\ leaked' \subseteq File
      BY <1>t, <2>2 DEF OtherTypes
    <3> QED
      BY <1>t, <1>1, <1>3, <3>2, <3>3, <3>4, FreshMoves
  <2> QED
    BY <1>3, <2>1, <2>2
<1> QED
  BY <1>2, <1>3 DEF CreateFile

\* A row is entered for the file in hand, whatever is reported.
LEMMA EnterMoves ==
  ASSUME StorageInv, NEW h \in Handler, NEW f \in File, f = item[h], step[h] = "inserting",
         NEW x \in {"stored", "ready"},
         rowStatus' = [rowStatus EXCEPT ![f] = "live"], born' = [born EXCEPT ![f] = age],
         extract' = [extract EXCEPT ![f] = x], UNCHANGED <<age, size, disk, leaked>>,
         NEW s \in {"idle", "discarding"}, NEW i \in {Nothing, f}, NEW e \in SUBSET File, NEW w \in Nat,
         Goes(h, s, i, {}, e, w), e = {} \/ e = toExpand[h],
         (s = "idle" /\ i = Nothing) \/ (s = "discarding" /\ i = f /\ f \in unsure'),
         unsure \subseteq unsure', unsure' \subseteq File
  PROVE  StorageInv'
<1>t. /\ CallTypes /\ RowTypes /\ OtherTypes /\ HandsInv /\ AloneInv /\ RowHasContent /\ ExtractionIsTrue
      /\ FilesInv /\ BytesInv /\ HandsOf(h)
  BY InvOf
<1>1. /\ CallTypes' /\ Alone(h) /\ step'[h] = s /\ item'[h] = i /\ doomed'[h] = {} /\ toExpand'[h] = e
  BY DEF Goes
<1>2. rowStatus[f] = "none" /\ f \in disk /\ step[h] \in Writing
  BY <1>t DEF HandsOf, Writing
<1>3. /\ rowStatus'[f] = "live" /\ extract'[f] = x
      /\ \A g \in File : g # f => rowStatus'[g] = rowStatus[g] /\ extract'[g] = extract[g]
  BY <1>t DEF RowTypes
<1>4. RowTypes' /\ OtherTypes'
  <2>1. rowStatus' \in [File -> {"none", "live", "deleted"}]
    BY <1>t DEF RowTypes
  <2>2. born' \in [File -> Nat]
    BY <1>t DEF RowTypes, OtherTypes
  <2>3. extract' \in [File -> {"stored", "ready", "failed"}]
    BY <1>t DEF RowTypes
  <2> QED
    BY <1>t, <2>1, <2>2, <2>3 DEF RowTypes, OtherTypes
<1>5. /\ \A g \in File : rowStatus[g] = "deleted" => rowStatus'[g] = "deleted"
      /\ \A g \in File : rowStatus[g] # "none" => rowStatus'[g] # "none"
      /\ \A g \in disk : rowStatus[g] = "live" => rowStatus'[g] = "live"
  BY <1>t, <1>2, <1>3 DEF OtherTypes
<1>6. HandsOf(h)'
  <2>1. \A g \in e : rowStatus'[g] # "none"
    BY <1>t, <1>5 DEF HandsOf
  <2> QED
    BY <1>1, <2>1 DEF HandsOf, Handling, Writing
<1>7. ASSUME NEW o \in Handler, o # h, step[o] \in Writing \cup {"discarding"}
      PROVE  item[o] \in File /\ item[o] # f /\ rowStatus'[item[o]] = rowStatus[item[o]] /\ i # item[o]
  <2>1. HandsOf(o)
    BY <1>t DEF HandsInv
  <2>2. item[o] \in File
    BY <1>7, <2>1 DEF HandsOf, Handling, Writing
  <2>3. item[o] # f
    BY <1>t, <1>2, <1>7 DEF AloneInv
  <2> QED
    BY <1>3, <2>2, <2>3, StorageAssumption
<1>8. ASSUME NEW o \in Handler, o # h, step[o] \in Writing
      PROVE  rowStatus'[item[o]] = "none" /\ item[o] \in disk /\ size'[item[o]] = size[item[o]] /\ i # item[o]
  <2>1. HandsOf(o)
    BY <1>t DEF HandsInv
  <2> QED
    BY <1>7, <1>8, <2>1 DEF HandsOf
<1>9. ASSUME NEW o \in Handler, o # h, step[o] = "discarding", rowStatus[item[o]] = "none"
      PROVE  rowStatus'[item[o]] = "none"
  BY <1>7, <1>9
<1>10. \A g \in disk : Minds(h, g) => rowStatus'[g] = "live"
  BY <1>t, <1>3 DEF Minds, HandsOf
<1>11. StorageTypeOK' /\ HandsInv' /\ AloneInv' /\ LeakInv'
  <2>1. leaked \subseteq leaked' /\ disk' = disk /\ step'[h] \notin Writing
    BY <1>1 DEF Writing
  <2> QED
    BY <1>1, <1>4, <1>5, <1>6, <1>8, <1>9, <1>10, <2>1, HandlerMoves
<1>12. RowHasContent' /\ ExtractionIsTrue'
  <2>1. ASSUME NEW g \in File, rowStatus'[g] = "live"
        PROVE  (g \in disk' \/ g \in unsure') /\ (extract'[g] = "failed" => g \in unsure')
    <3>1. CASE g = f
      BY <1>2, <1>3, <3>1
    <3>2. CASE g # f
      BY <1>t, <1>3, <2>1, <3>2 DEF RowHasContent, ExtractionIsTrue, LiveFiles
    <3> QED
      BY <3>1, <3>2
  <2> QED
    BY <2>1 DEF RowHasContent, ExtractionIsTrue, LiveFiles
<1>13. FilesInv' /\ BytesInv'
  BY <1>t, <1>1, <1>2, <1>3, <1>4, <1>11, AmountsMove
<1> QED
  BY <1>11, <1>12, <1>13 DEF StorageInv

\* The row is entered, or is not; an error says neither.
LEMMA InsertKeeps == ASSUME StorageInv, NEW h \in Handler, InsertRow(h) PROVE StorageInv'
<1>t. /\ CallTypes /\ RowTypes /\ OtherTypes /\ HandsOf(h) /\ item[h] \in File \cup {Nothing}
      /\ doomed[h] \in SUBSET File /\ toExpand[h] \in SUBSET File /\ saw[h] \in Nat /\ goal[h] \in Goals
  BY InvOf
<1>1. step[h] = "inserting" /\ UNCHANGED <<age, size, disk, leaked>>
  BY DEF InsertRow
<1>2. PICK f \in File : f = item[h]
  BY <1>t, <1>1 DEF HandsOf, Handling
<1>3. doomed[h] = {}
  BY <1>t, <1>1 DEF HandsOf
<1>4. ASSUME NEW x \in {"stored", "ready"},
             rowStatus' = [rowStatus EXCEPT ![f] = "live"], born' = [born EXCEPT ![f] = age],
             extract' = [extract EXCEPT ![f] = x], Done(h), UNCHANGED unsure
      PROVE  StorageInv'
  <2>1. Goes(h, "idle", Nothing, {}, {}, 0)
    BY <1>t, <1>4, CallEnds
  <2>2. unsure \subseteq unsure' /\ unsure' \subseteq File /\ {} \in SUBSET File
    BY <1>t, <1>4 DEF OtherTypes
  <2> QED
    BY <1>1, <1>2, <1>4, <2>1, <2>2, EnterMoves
<1>5. ASSUME At(h, "discarding"), UNCHANGED <<goal, saw, item, doomed, toExpand>>,
             UNCHANGED <<rowStatus, born, extract, unsure>> \/
             (/\ rowStatus' = [rowStatus EXCEPT ![f] = "live"] /\ born' = [born EXCEPT ![f] = age]
              /\ extract' = [extract EXCEPT ![f] = "stored"] /\ unsure' = unsure \cup {f})
      PROVE  StorageInv'
  <2>1. Goes(h, "discarding", f, {}, toExpand[h], saw[h])
    BY <1>t, <1>2, <1>3, <1>5, CallMoves DEF At, Steps
  <2>2. CASE UNCHANGED <<rowStatus, born, extract, unsure>>
    <3>1. /\ CallTypes' /\ Alone(h) /\ step'[h] = "discarding" /\ item'[h] = item[h]
          /\ doomed'[h] = {} /\ toExpand'[h] = toExpand[h]
      BY <1>2, <2>1 DEF Goes
    <3>2. HandsOf(h)'
      BY <1>t, <1>1, <2>2, <3>1 DEF HandsOf, Handling, Writing
    <3>3. \A g \in disk : Minds(h, g) => Minds(h, g)'
      BY <1>3, <3>1 DEF Minds
    <3>4. UNCHANGED <<age, rowVars, unsure>> /\ disk' = disk /\ leaked' = leaked /\ leaked \subseteq File
      BY <1>t, <1>1, <2>2 DEF rowVars, OtherTypes
    <3> QED
      BY <3>1, <3>2, <3>3, <3>4, CallMovesOn DEF Writing
  <2>3. CASE /\ rowStatus' = [rowStatus EXCEPT ![f] = "live"] /\ born' = [born EXCEPT ![f] = age]
             /\ extract' = [extract EXCEPT ![f] = "stored"] /\ unsure' = unsure \cup {f}
    <3>1. unsure \subseteq unsure' /\ unsure' \subseteq File /\ f \in unsure'
      BY <1>t, <2>3 DEF OtherTypes
    <3> QED
      BY <1>t, <1>1, <1>2, <2>1, <2>3, <3>1, EnterMoves
  <2> QED
    BY <1>5, <2>2, <2>3
<1> QED
  BY <1>2, <1>4, <1>5 DEF InsertRow

\* What a chat has found out of a document is written to a row that is still listed.
LEMMA ExtractionMoves ==
  ASSUME StorageInv, NEW h \in Handler, NEW f \in File, f = item[h], step[h] \in {"extracted", "unreadable"},
         extract' = IF rowStatus[f] = "live"
                    THEN [extract EXCEPT ![f] = IF step[h] = "extracted" THEN "ready" ELSE "failed"] ELSE extract,
         UNCHANGED <<age, rowStatus, size, born, disk, leaked, unsure>>,
         NEW s \in {"idle", "expanding"}, NEW e \in SUBSET File, NEW w \in Nat, Goes(h, s, Nothing, {}, e, w),
         e = {} \/ e = toExpand[h]
  PROVE  StorageInv'
<1>t. /\ CallTypes /\ RowTypes /\ OtherTypes /\ HandsInv /\ AloneInv /\ RowHasContent /\ ExtractionIsTrue
      /\ FilesInv /\ BytesInv /\ HandsOf(h)
  BY InvOf
<1>1. /\ CallTypes' /\ Alone(h) /\ step'[h] = s /\ item'[h] = Nothing /\ doomed'[h] = {} /\ toExpand'[h] = e
  BY DEF Goes
<1>2. /\ extract' \in [File -> {"stored", "ready", "failed"}]
      /\ \A g \in File : g # f => extract'[g] = extract[g]
      /\ rowStatus[f] = "live" /\ extract'[f] = "failed" => step[h] = "unreadable"
  <2>1. CASE rowStatus[f] = "live"
    <3>1. PICK x \in {"ready", "failed"} : x = IF step[h] = "extracted" THEN "ready" ELSE "failed"
      OBVIOUS
    <3>2. extract' = [extract EXCEPT ![f] = x]
      BY <2>1, <3>1
    <3> QED
      BY <1>t, <3>1, <3>2 DEF RowTypes
  <2>2. CASE rowStatus[f] # "live"
    BY <1>t, <2>2 DEF RowTypes
  <2> QED
    BY <2>1, <2>2
<1>3. RowTypes' /\ OtherTypes'
  BY <1>t, <1>2 DEF RowTypes, OtherTypes
<1>4. HandsOf(h)'
  <2>1. \A g \in e : rowStatus'[g] # "none"
    BY <1>t DEF HandsOf
  <2> QED
    BY <1>1, <2>1 DEF HandsOf, Handling, Writing
<1>5. ASSUME NEW o \in Handler, o # h, step[o] \in Writing
      PROVE  rowStatus'[item[o]] = "none" /\ item[o] \in disk /\ Nothing # item[o]
  <2>1. HandsOf(o)
    BY <1>t DEF HandsInv
  <2> QED
    BY <1>5, <2>1, StorageAssumption DEF HandsOf, Handling, Writing
<1>6. \A g \in disk : ~Minds(h, g)
  BY <1>t DEF Minds, Writing, HandsOf
<1>7. StorageTypeOK' /\ HandsInv' /\ AloneInv' /\ LeakInv'
  <2>1. disk' = disk /\ size' = size /\ step'[h] \notin Writing
    BY <1>1 DEF Writing
  <2> QED
    BY <1>1, <1>3, <1>4, <1>5, <1>6, <2>1, HandlerMoves
<1>8. RowHasContent'
  BY <1>t DEF RowHasContent, LiveFiles
<1>9. ExtractionIsTrue'
  <2> SUFFICES ASSUME NEW g \in File, rowStatus[g] = "live", extract'[g] = "failed" PROVE g \in unsure
    BY DEF ExtractionIsTrue, LiveFiles
  <2>1. CASE g = f
    BY <1>t, <1>2, <2>1 DEF HandsOf
  <2>2. CASE g # f
    BY <1>t, <1>2, <2>2 DEF ExtractionIsTrue, LiveFiles
  <2> QED
    BY <2>1, <2>2
<1>10. FilesInv' /\ BytesInv'
  <2>1. h \notin Entering'
    BY <1>1 DEF Entering, Writing
  <2>2. Claim(h) = 0 /\ Claim(h)' = 0
    BY <1>1 DEF Claim, Writing
  <2>3. \A g \in File : rowStatus'[g] = "live" => rowStatus[g] = "live" /\ size'[g] = size[g]
    OBVIOUS
  <2> QED
    BY <1>t, <1>1, <1>3, <1>7, <2>1, <2>2, <2>3, AmountsKept
<1> QED
  BY <1>7, <1>8, <1>9, <1>10 DEF StorageInv

\* The note of a chat.
LEMMA UpdateKeeps == ASSUME StorageInv, NEW h \in Handler, UpdateExtraction(h) PROVE StorageInv'
<1>t. /\ CallTypes /\ HandsOf(h) /\ item[h] \in File \cup {Nothing}
      /\ doomed[h] \in SUBSET File /\ toExpand[h] \in SUBSET File /\ saw[h] \in Nat /\ goal[h] \in Goals
  BY InvOf
<1>1. /\ step[h] \in {"extracted", "unreadable"}
      /\ UNCHANGED <<age, rowStatus, size, born, disk, leaked, unsure>>
  BY DEF UpdateExtraction
<1>2. PICK f \in File : f = item[h]
  BY <1>t, <1>1 DEF HandsOf, Handling
<1>3. extract' = IF rowStatus[f] = "live"
                 THEN [extract EXCEPT ![f] = IF step[h] = "extracted" THEN "ready" ELSE "failed"] ELSE extract
  BY <1>2 DEF UpdateExtraction
<1>4. CASE toExpand[h] = {}
  <2>1. Goes(h, "idle", Nothing, {}, {}, 0)
    BY <1>t, <1>4, CallEnds DEF UpdateExtraction
  <2> QED
    BY <1>1, <1>2, <1>3, <2>1, ExtractionMoves
<1>5. CASE toExpand[h] # {}
  <2>1. /\ step' = [step EXCEPT ![h] = "expanding"] /\ item' = [item EXCEPT ![h] = Nothing]
        /\ UNCHANGED <<goal, saw, doomed, toExpand>> /\ doomed[h] = {}
    BY <1>t, <1>1, <1>5 DEF UpdateExtraction, At, HandsOf
  <2>2. Goes(h, "expanding", Nothing, {}, toExpand[h], saw[h])
    BY <1>t, <2>1, CallMoves DEF Steps
  <2> QED
    BY <1>t, <1>1, <1>2, <1>3, <2>2, ExtractionMoves
<1> QED
  BY <1>4, <1>5

\* A crash leaves nothing in hand; what was, leaks.
LEMMA StorageCrashKeeps == ASSUME StorageInv, StorageCrash PROVE StorageInv'
<1>t. /\ CallTypes /\ RowTypes /\ OtherTypes /\ HandsInv /\ AloneInv /\ LeakInv
      /\ RowHasContent /\ ExtractionIsTrue /\ FilesInv /\ BytesInv
  BY DEF StorageInv, StorageTypeOK, CallTypes, RowTypes, OtherTypes
<1>1. UNCHANGED <<age, rowVars, disk, unsure>>
  BY DEF StorageCrash
<1>l. /\ leaked \subseteq leaked'
      /\ \A f \in leaked' : f \in leaked \/ f \in disk \/ \E h \in Handler : f \in doomed[h]
      /\ \A h \in Handler : \A f \in doomed[h] : f \in leaked'
      /\ \A h \in Handler : item[h] \in disk /\ rowStatus[item[h]] = "none" => item[h] \in leaked'
      /\ \A h \in Handler : item[h] \in disk /\ step[h] = "discarding" => item[h] \in leaked'
  <2>1. leaked' = leaked \cup
          {f \in File : \E h \in Handler :
             \/ f \in doomed[h]
             \/ f \in disk /\ f = item[h] /\ (rowStatus[f] = "none" \/ step[h] = "discarding")}
    BY DEF StorageCrash
  <2>d. (\A h \in Handler : doomed[h] \subseteq File) /\ disk \subseteq File
    BY <1>t DEF CallTypes, OtherTypes
  <2>2. leaked \subseteq leaked'
    BY <2>1
  <2>3. \A f \in leaked' : f \in leaked \/ f \in disk \/ \E h \in Handler : f \in doomed[h]
    BY <2>1
  <2>4. \A h \in Handler : \A f \in doomed[h] : f \in leaked'
    BY <2>1, <2>d
  <2>5. \A h \in Handler : item[h] \in disk /\ rowStatus[item[h]] = "none" => item[h] \in leaked'
    BY <2>1, <2>d
  <2>6. \A h \in Handler : item[h] \in disk /\ step[h] = "discarding" => item[h] \in leaked'
    BY <2>1, <2>d
  <2> QED
    BY <2>2, <2>3, <2>4, <2>5, <2>6
<1>r. rowStatus' = rowStatus /\ size' = size /\ born' = born /\ extract' = extract /\ unsure' = unsure /\ disk' = disk
  BY <1>1 DEF rowVars
<1>2. CallTypes'
  BY DEF StorageCrash, CallTypes, Steps, Goals
<1>3. ASSUME NEW h \in Handler
      PROVE  step'[h] = "idle" /\ item'[h] = Nothing /\ doomed'[h] = {} /\ toExpand'[h] = {}
  BY DEF StorageCrash
<1>4. leaked' \subseteq File
  BY <1>t, <1>l DEF CallTypes, OtherTypes
<1>5. RowTypes' /\ OtherTypes'
  BY <1>t, <1>1, <1>r, <1>4 DEF RowTypes, OtherTypes
<1>6. HandsInv'
  BY <1>3 DEF HandsInv, HandsOf, Handling, Writing
<1>7. AloneInv'
  BY <1>3 DEF AloneInv, Writing
<1>8. LeakInv'
  <2> SUFFICES ASSUME NEW f \in disk, rowStatus[f] # "live", f \notin leaked PROVE f \in leaked'
    BY <1>l, <1>r DEF LeakInv
  <2>1. PICK h \in Handler : Minds(h, f)
    BY <1>t DEF LeakInv
  <2>2. HandsOf(h)
    BY <1>t DEF HandsInv
  <2>3. CASE f \in doomed[h]
    BY <1>l, <2>3
  <2>4. CASE f = item[h] /\ step[h] \in Writing
    BY <1>l, <2>2, <2>4 DEF HandsOf
  <2>5. CASE f = item[h] /\ step[h] = "discarding"
    BY <1>l, <2>5
  <2> QED
    BY <2>1, <2>3, <2>4, <2>5 DEF Minds
<1>9. RowHasContent' /\ ExtractionIsTrue'
  BY <1>t, <1>r DEF RowHasContent, ExtractionIsTrue, LiveFiles
<1>10. FilesInv' /\ BytesInv'
  <2>1. \A h \in Handler : h \notin Entering'
    BY <1>3 DEF Entering, Writing
  <2>2. ASSUME MaxBytes > 0, NEW h \in Handler PROVE Claim(h)' <= Claim(h)
    <3>1. ClaimsAreSmall
      BY <1>t, ClaimsBound
    <3>2. Claim(h) \in Nat /\ Claim(h)' = 0
      BY <1>3, <2>2, <3>1 DEF ClaimsAreSmall, Claim, Writing
    <3> QED
      BY <3>2
  <2> QED
    BY <1>t, <1>2, <1>5, <1>6, <1>r, <2>1, <2>2, AmountsStay
<1>11. StorageTypeOK'
  BY <1>2, <1>5 DEF StorageTypeOK, CallTypes, RowTypes, OtherTypes
<1> QED
  BY <1>6, <1>7, <1>8, <1>9, <1>10, <1>11 DEF StorageInv

\* Time changes nothing of it.
LEMMA TimeKeeps ==
  ASSUME StorageInv, UNCHANGED <<rowVars, disk, callVars, leaked, unsure>>, age' \in Nat
  PROVE  StorageInv'
<1>1. /\ rowStatus' = rowStatus /\ size' = size /\ born' = born /\ extract' = extract
      /\ step' = step /\ goal' = goal /\ saw' = saw /\ item' = item /\ doomed' = doomed /\ toExpand' = toExpand
      /\ disk' = disk /\ leaked' = leaked /\ unsure' = unsure
  BY DEF rowVars, callVars
<1>2. StorageTypeOK'
  BY <1>1 DEF StorageInv, StorageTypeOK
<1>3. HandsInv' /\ AloneInv' /\ LeakInv'
  BY <1>1 DEF StorageInv, HandsInv, HandsOf, AloneInv, LeakInv, Minds
<1>4. RowHasContent' /\ ExtractionIsTrue'
  BY <1>1 DEF StorageInv, RowHasContent, ExtractionIsTrue, LiveFiles
<1>5. FilesInv'
  <2>1. LiveFiles' = LiveFiles /\ Entering' = Entering
    BY <1>1 DEF LiveFiles, Entering
  <2> QED
    BY <2>1 DEF StorageInv, FilesInv
<1>6. BytesInv'
  <2>1. LiveBytes' = LiveBytes /\ Claims' = Claims
    BY <1>1 DEF LiveBytes, LiveFiles, Claims, Claim
  <2> QED
    BY <2>1 DEF StorageInv, BytesInv
<1> QED
  BY <1>2, <1>3, <1>4, <1>5, <1>6 DEF StorageInv

\* At first there is nothing to store and nobody at work.
LEMMA StorageBegins == StorageInit => StorageInv
<1> SUFFICES ASSUME StorageInit PROVE StorageInv
  OBVIOUS
<1>0. /\ IsFiniteSet(File) /\ IsFiniteSet(Handler) /\ MaxFiles \in Nat /\ MaxBytes \in Nat /\ MaxSize \in Nat
      /\ Cardinality(Handler) \in Nat \ {0} /\ Handler # {} /\ Nothing \notin File
  BY StorageAssumption, FS_CardinalityType, FS_EmptySet
<1>1. StorageTypeOK
  BY DEF StorageInit, StorageTypeOK, Steps, Goals
<1>2. HandsInv /\ AloneInv /\ LeakInv
  BY DEF StorageInit, HandsInv, HandsOf, AloneInv, LeakInv, Handling, Writing
<1>3. LiveFiles = {} /\ Entering = {}
  BY DEF StorageInit, LiveFiles, Entering, Writing
<1>4. RowHasContent /\ ExtractionIsTrue
  BY <1>3 DEF RowHasContent, ExtractionIsTrue
<1>5. FilesInv
  <2>1. Cardinality(LiveFiles) = 0 /\ Cardinality(Entering) = 0
    BY <1>3, FS_EmptySet
  <2> QED
    BY <1>0, <2>1 DEF FilesInv
<1>6. BytesInv
  <2>1. LiveBytes = 0
    BY <1>3, SumEmpty DEF LiveBytes
  <2>2. \A h \in Handler : Claims[h] = 0
    BY DEF StorageInit, Claims, Claim, Writing
  <2>3. SumFunctionOnSet(Claims, Handler) = 0
    BY <1>0, <2>2, SumZero
  <2>4. PICK k \in Nat : k = Cardinality(Handler) - 1
    BY <1>0
  <2>5. MaxSize * k \in Nat
    BY <1>0
  <2> QED
    BY <1>0, <2>1, <2>3, <2>4, <2>5 DEF BytesInv
<1> QED
  BY <1>1, <1>2, <1>4, <1>5, <1>6 DEF StorageInv

\* The invariant says what a reader wants to know.
LEMMA StorageIsHeld == StorageInv => AttachmentsHold
<1> SUFFICES ASSUME StorageInv PROVE AttachmentsHold
  OBVIOUS
<1>t. /\ CallTypes /\ RowTypes /\ HandsInv /\ LeakInv /\ RowHasContent /\ ExtractionIsTrue /\ FilesInv /\ BytesInv
  BY DEF StorageInv, StorageTypeOK, CallTypes, RowTypes
<1>0. /\ IsFiniteSet(File) /\ IsFiniteSet(Handler) /\ MaxFiles \in Nat /\ MaxBytes \in Nat /\ MaxSize \in Nat
      /\ Cardinality(Handler) \in Nat
  BY StorageAssumption, FS_CardinalityType
<1>1. NothingLeaks
  BY <1>t DEF LeakInv, NothingLeaks, InHand, Minds
<1>2. MaxFiles > 0 => Cardinality(LiveFiles) <= MaxFiles + Cardinality(Handler) - 1
  <2>1. IsFiniteSet(LiveFiles) /\ IsFiniteSet(Entering)
    BY <1>0, FS_Subset DEF LiveFiles, Entering
  <2>2. Cardinality(LiveFiles) \in Nat /\ Cardinality(Entering) \in Nat
    BY <2>1, FS_CardinalityType
  <2> QED
    BY <1>t, <1>0, <2>2 DEF FilesInv
<1>3. MaxBytes > 0 => LiveBytes <= MaxBytes + MaxSize * (Cardinality(Handler) - 1)
  <2> SUFFICES ASSUME MaxBytes > 0 PROVE LiveBytes <= MaxBytes + MaxSize * (Cardinality(Handler) - 1)
    OBVIOUS
  <2>1. LiveBytes \in Nat /\ ClaimsAreSmall
    BY <1>t, StoredSums, ClaimsBound DEF StoredIsSummed
  <2>2. \A h \in Handler : Claims[h] \in Nat
    BY <2>1 DEF ClaimsAreSmall, Claims
  <2>3. SumFunctionOnSet(Claims, Handler) \in Nat
    BY <1>0, <2>2, SumInNat
  <2>4. PICK k \in Int : k = MaxSize * (Cardinality(Handler) - 1)
    BY <1>0
  <2> QED
    BY <1>t, <1>0, <2>1, <2>3, <2>4 DEF BytesInv
<1> QED
  BY <1>t, <1>1, <1>2, <1>3 DEF AttachmentsHold, OvershootBounded

\* attachments.go, guest_attachments.go: for any number of files and handlers, a row
\* that can be listed has its content, nothing is left on disk that nobody knows of,
\* the policy is exceeded by at most one file of each other handler, and no row is
\* marked as unreadable because of a deletion.
THEOREM StorageHolds == StorageSpec => [](StorageTypeOK /\ AttachmentsHold)
<1>1. StorageInv /\ [StorageNext]_storageVars => StorageInv'
  <2> SUFFICES ASSUME StorageInv, [StorageNext]_storageVars PROVE StorageInv'
    OBVIOUS
  <2>0. age \in Nat
    BY DEF StorageInv, StorageTypeOK
  <2>1. CASE StorageCrash
    BY <2>1, StorageCrashKeeps
  <2>2. CASE GrowOlder
    BY <2>0, <2>2, TimeKeeps DEF GrowOlder
  <2>3. CASE UNCHANGED storageVars
    BY <2>0, <2>3, TimeKeeps DEF storageVars
  <2>4. ASSUME NEW h \in Handler,
               \/ \E g \in Goals : BeginCall(h, g)
               \/ RemoveFile(h)
               \/ MeasureStorage(h) \/ CreateFile(h) \/ CopyContent(h) \/ InsertRow(h) \/ Discard(h)
               \/ DeleteAttachment(h) \/ ReadAttachments(h) \/ ExtractLate(h) \/ UpdateExtraction(h)
        PROVE  StorageInv'
    BY <2>4, BeginKeeps, RemoveFileKeeps, MeasureKeeps, CreateKeeps, CopyKeeps, InsertKeeps, DiscardKeeps,
       DeleteKeeps, ReadKeeps, ExtractKeeps, UpdateKeeps
  <2> QED
    BY <2>1, <2>2, <2>3, <2>4 DEF StorageNext
<1>2. StorageInv => StorageTypeOK
  BY DEF StorageInv
<1> QED
  BY <1>1, <1>2, StorageBegins, StorageIsHeld, PTL DEF StorageSpec

-----------------------------------------------------------------------------
(* The bucket of a model.                                                  *)

Admitted == Len(admissions)
BucketFull(t, l) == bucket = <<[tokens |-> t, last |-> l]>>

\* What the key holds, when there is one: its clock is ahead by no more than the
\* clocks are, and was when the key was last written.
KeyInv ==
  bucket = <<>> \/
  \E t \in 0..Capacity, l \in Nat :
    BucketFull(t, l) /\ l <= tick + MaxSkew /\ l + 2 * Minute <= lapses + MaxSkew

WaitsInv ==
  waits \in [Request -> [cost : 1..Capacity, state : Asking, retryAt : Nat, asked : Nat, hint : Nat, seen : Nat]]

AdmittedInv ==
  /\ admissions \in Seq([at : Nat, cost : Nat, metered : BOOLEAN])
  /\ \A i \in 1..Admitted : admissions[i].at <= tick
  /\ Admitted = Cardinality({q \in Request : waits[q].state = "granted"})

TimesInv == tick \in 0..MaxTick /\ lapses \in 0..(MaxTick + 2 * Minute)

\* What was granted since an admission, and what is left, came out of a full bucket
\* and what flowed in since then; unless nothing was, and the bucket may be older.
SpentBy(i, t, l) ==
  \/ GrantedBetween(i, Admitted) = 0
  \/ GrantedBetween(i, Admitted) + t <= Capacity + Refill * (l - admissions[i].at)
SpentInv ==
  \A i \in 1..Admitted :
    /\ \A t \in Nat, l \in Nat : BucketFull(t, l) => SpentBy(i, t, l)
    /\ bucket = <<>> => SpentBy(i, Capacity, tick)

\* What has been promised to a request that waits is there in time.
ComesBy(t, l, cost, due) == t >= cost \/ (l < due /\ t + Refill * (due - l) >= cost)
PromiseInv ==
  \A q \in Request : waits[q].state = "waiting" =>
    /\ waits[q].seen <= Admitted
    /\ waits[q].seen = Admitted =>
         \A t \in Nat, l \in Nat :
           BucketFull(t, l) => ComesBy(t, l, waits[q].cost, waits[q].asked + waits[q].hint)

BucketInv == TimesInv /\ KeyInv /\ WaitsInv /\ AdmittedInv /\ SpentInv /\ PromiseInv /\ BurstsAreBounded

-----------------------------------------------------------------------------

\* More time, more tokens.
LEMMA Flows ==
  /\ Refill \in Nat \ {0}
  /\ \A a, b \in Int : Refill * (a + b) = Refill * a + Refill * b /\ Refill * a \in Int
  /\ \A a, b \in Int : a <= b => Refill * a <= Refill * b
<1>1. Refill \in Nat \ {0}
  BY BucketAssumption
<1> QED
  BY <1>1

\* Time that passes in two parts.
LEMMA FlowsOn ==
  ASSUME NEW a \in Int, NEW b \in Int, NEW c \in Int
  PROVE  Refill * (c - a) = Refill * (b - a) + Refill * (c - b)
<1>1. c - a = (b - a) + (c - b)
  OBVIOUS
<1> QED
  BY <1>1, Flows

\* A full bucket is at most what flows in within a minute.
LEMMA CapacityIs == Capacity \in Nat \ {0} /\ Capacity <= Refill * Minute
<1>1. PICK n \in Nat \ {0} : n = Refill * Minute
  <2>1. Refill \in Nat \ {0} /\ Minute \in Nat \ {0}
    BY BucketAssumption
  <2>2. \A a, b \in Nat \ {0} : a * b \in Nat \ {0}
    OBVIOUS
  <2> QED
    BY <2>1, <2>2
<1>2. Capacity = Most(1, (n * 85) \div 100)
  BY <1>1 DEF Capacity
<1> QED
  BY <1>1, <1>2 DEF Most

\* The wait a request is told covers what it lacks.
LEMMA HintCovers == ASSUME NEW need \in Nat \ {0} PROVE Hint(need) \in Nat /\ need <= Refill * Hint(need)
<1>1. Refill \in Nat \ {0}
  BY BucketAssumption
<1>2. \A a \in Nat, r \in Nat \ {0} : a \div r \in Nat /\ a < r * (a \div r) + r
  OBVIOUS
<1>3. need + Refill - 1 \in Nat /\ Hint(need) = (need + Refill - 1) \div Refill
  BY <1>1 DEF Hint
<1>4. Hint(need) \in Nat /\ need + Refill - 1 < Refill * Hint(need) + Refill
  BY <1>1, <1>2, <1>3
<1>5. PICK k \in Int : k = Refill * Hint(need)
  BY <1>1, <1>4
<1> QED
  BY <1>1, <1>4, <1>5

\* An admission joins the others, the first n of all.
Appends(t, cost, m) == admissions' = Append(admissions, [at |-> t, cost |-> cost, metered |-> m])
Joins(n, t, c) ==
  /\ Admitted' = n + 1
  /\ \A i \in 1..n : admissions'[i] = admissions[i]
  /\ admissions'[n + 1].at = t
  /\ \A i \in 1..n : \A j \in i..n :
       GrantedBetween(i, j)' = GrantedBetween(i, j) /\ GrantedBetween(i, j) \in Nat
  /\ \A i \in 1..n : GrantedBetween(i, n + 1)' = GrantedBetween(i, n) + c
  /\ GrantedBetween(n + 1, n + 1)' = c

\* A metered one adds its cost to what was granted before, and to nothing else.
LEMMA GrantAdds ==
  ASSUME admissions \in Seq([at : Nat, cost : Nat, metered : BOOLEAN]), NEW t \in Nat, NEW n \in Nat, n = Admitted,
         NEW cost \in Nat, NEW m \in BOOLEAN, NEW c \in Nat, c = IF m THEN cost ELSE 0, Appends(t, cost, m)
  PROVE  Joins(n, t, c)
<1>0. admissions' = Append(admissions, [at |-> t, cost |-> cost, metered |-> m])
  BY DEF Appends
<1>1. /\ Admitted' = n + 1
      /\ \A i \in 1..n : admissions'[i] = admissions[i]
      /\ admissions'[n + 1] = [at |-> t, cost |-> cost, metered |-> m]
      /\ DOMAIN admissions = 1..n /\ DOMAIN admissions' = 1..(n + 1)
  BY <1>0 DEF Admitted
<1>2. /\ \A i \in 1..n : Costs'[i] = Costs[i] /\ Costs[i] \in Nat
      /\ Costs'[n + 1] = c
  <2>1. ASSUME NEW i \in 1..n PROVE Costs'[i] = Costs[i] /\ Costs[i] \in Nat
    <3>1. admissions[i] \in [at : Nat, cost : Nat, metered : BOOLEAN]
      <4>1. i \in 1..Len(admissions)
        BY DEF Admitted
      <4> QED
        BY <4>1, ElementOfSeq
    <3>2. admissions'[i] = admissions[i] /\ i \in DOMAIN admissions /\ i \in DOMAIN admissions'
      BY <1>1
    <3>3. /\ Costs[i] = IF admissions[i].metered THEN admissions[i].cost ELSE 0
          /\ Costs'[i] = IF admissions'[i].metered THEN admissions'[i].cost ELSE 0
      BY <3>2 DEF Costs
    <3> QED
      BY <3>1, <3>2, <3>3
  <2>2. Costs'[n + 1] = c
    <3>1. admissions'[n + 1].cost = cost /\ admissions'[n + 1].metered = m /\ n + 1 \in DOMAIN admissions'
      BY <1>1
    <3>2. Costs'[n + 1] = IF admissions'[n + 1].metered THEN admissions'[n + 1].cost ELSE 0
      BY <3>1 DEF Costs
    <3> QED
      BY <3>1, <3>2
  <2> QED
    BY <2>1, <2>2
<1>3. ASSUME NEW i \in 1..n, NEW j \in i..n
      PROVE  GrantedBetween(i, j)' = GrantedBetween(i, j) /\ GrantedBetween(i, j) \in Nat
  <2>0. i \in Int /\ j \in Int /\ \A k \in i..j : k \in 1..n
    OBVIOUS
  <2>1. IsFiniteSet(i..j)
    BY <2>0, FS_Interval
  <2>2. \A k \in i..j : Costs[k] \in Nat /\ Costs[k] = Costs'[k]
    BY <1>2, <2>0
  <2>3. SumFunctionOnSet(Costs, i..j) = SumFunctionOnSet(Costs', i..j)
    BY <2>1, <2>2, SumSame
  <2>4. SumFunctionOnSet(Costs, i..j) \in Nat
    BY <2>1, <2>2, SumInNat
  <2> QED
    BY <2>3, <2>4 DEF GrantedBetween
<1>4. ASSUME NEW i \in 1..(n + 1)
      PROVE  SumFunctionOnSet(Costs', i..(n + 1)) = c + SumFunctionOnSet(Costs', i..n)
  <2>0. i \in Int /\ n + 1 \in Int /\ \A k \in i..(n + 1) : k \in 1..n \/ k = n + 1
    OBVIOUS
  <2>1. IsFiniteSet(i..(n + 1))
    BY <2>0, FS_Interval
  <2>2. \A k \in i..(n + 1) : Costs'[k] \in Nat
    BY <1>2, <2>0
  <2>3. n + 1 \in i..(n + 1) /\ (i..(n + 1)) \ {n + 1} = i..n
    OBVIOUS
  <2>4. SumFunctionOnSet(Costs', i..(n + 1)) =
          Costs'[n + 1] + SumFunctionOnSet(Costs', (i..(n + 1)) \ {n + 1})
    <3>1. PICK g, s : g = Costs' /\ s = i..(n + 1)
      OBVIOUS
    <3>2. SumFunctionOnSet(g, s) = g[n + 1] + SumFunctionOnSet(g, s \ {n + 1})
      <4>1. IsFiniteSet(s) /\ (\A k \in s : g[k] \in Nat) /\ n + 1 \in s
        BY <2>1, <2>2, <2>3, <3>1
      <4> HIDE <3>1
      <4> QED
        BY <4>1, SumSplit
    <3> QED
      BY <3>1, <3>2
  <2> QED
    BY <1>2, <2>3, <2>4
<1>5. ASSUME NEW i \in 1..n PROVE GrantedBetween(i, n + 1)' = GrantedBetween(i, n) + c
  <2>1. n \in i..n /\ i \in 1..(n + 1)
    BY <1>1
  <2>2. SumFunctionOnSet(Costs', i..n) = SumFunctionOnSet(Costs, i..n)
    BY <1>3, <2>1 DEF GrantedBetween
  <2>3. SumFunctionOnSet(Costs, i..n) \in Nat
    BY <1>3, <2>1 DEF GrantedBetween
  <2>4. SumFunctionOnSet(Costs', i..(n + 1)) = c + SumFunctionOnSet(Costs', i..n)
    BY <1>4, <2>1
  <2> QED
    BY <1>1, <2>2, <2>3, <2>4 DEF GrantedBetween
<1>6. GrantedBetween(n + 1, n + 1)' = c
  <2>1. (n + 1)..n = {} /\ n + 1 \in 1..(n + 1)
    BY <1>1
  <2>2. SumFunctionOnSet(Costs', (n + 1)..n) = 0
    BY <2>1, SumEmpty
  <2>3. SumFunctionOnSet(Costs', (n + 1)..(n + 1)) = c + SumFunctionOnSet(Costs', (n + 1)..n)
    BY <1>4, <2>1
  <2> QED
    BY <1>1, <2>2, <2>3 DEF GrantedBetween
<1>7. admissions'[n + 1].at = t
  BY <1>1
<1> QED
  BY <1>1, <1>3, <1>5, <1>6, <1>7 DEF Joins

\* What was granted is a number.
LEMMA GrantIsNat ==
  ASSUME admissions \in Seq([at : Nat, cost : Nat, metered : BOOLEAN]), NEW i \in 1..Admitted, NEW j \in i..Admitted
  PROVE  GrantedBetween(i, j) \in Nat
<1>1. Admitted \in Nat /\ DOMAIN admissions = 1..Admitted /\ i \in Int /\ j \in Int
  BY DEF Admitted
<1>2. ASSUME NEW k \in i..j PROVE Costs[k] \in Nat
  <2>1. k \in 1..Len(admissions)
    BY <1>1 DEF Admitted
  <2>2. admissions[k] \in [at : Nat, cost : Nat, metered : BOOLEAN]
    BY <2>1, ElementOfSeq
  <2>3. Costs[k] = IF admissions[k].metered THEN admissions[k].cost ELSE 0
    BY <1>1, <2>1 DEF Costs, Admitted
  <2> QED
    BY <2>2, <2>3
<1>3. IsFiniteSet(i..j)
  BY <1>1, FS_Interval
<1> QED
  BY <1>2, <1>3, SumInNat DEF GrantedBetween

\* The facts of an admission that the bounds are about.
LEMMA Grants ==
  ASSUME AdmittedInv, TimesInv, NEW i \in 1..Admitted
  PROVE  /\ GrantedBetween(i, Admitted) \in Nat /\ admissions[i].at \in Nat /\ admissions[i].at <= tick
         /\ tick \in Nat /\ Admitted \in Nat /\ admissions[i].cost \in Nat
<1>1. Admitted \in Nat /\ admissions \in Seq([at : Nat, cost : Nat, metered : BOOLEAN]) /\ Admitted \in i..Admitted /\ i \in 1..Len(admissions)
  BY DEF AdmittedInv, Admitted
<1>2. admissions[i] \in [at : Nat, cost : Nat, metered : BOOLEAN]
  BY <1>1, ElementOfSeq
<1>3. GrantedBetween(i, Admitted) \in Nat
  BY <1>1, GrantIsNat
<1> QED
  <2>1. admissions[i].at \in Nat /\ admissions[i].cost \in Nat
    BY <1>2
  <2>2. tick \in Nat /\ admissions[i].at <= tick
    BY BucketAssumption DEF AdmittedInv, TimesInv
  <2> QED
    BY <1>1, <1>3, <2>1, <2>2

\* Time spends nothing.
LEMMA SpentLater ==
  ASSUME AdmittedInv, TimesInv, NEW i \in 1..Admitted, NEW t \in Nat, NEW l \in Nat, NEW m \in Nat, l <= m,
         SpentBy(i, t, l)
  PROVE  SpentBy(i, t, m)
<1>1. GrantedBetween(i, Admitted) \in Nat /\ admissions[i].at \in Nat
  BY Grants
<1>2. PICK a \in Nat : a = admissions[i].at
  BY <1>1
<1>3. l - a <= m - a /\ l - a \in Int /\ m - a \in Int
  BY <1>2
<1>4. Refill * (l - a) <= Refill * (m - a) /\ Refill * (l - a) \in Int /\ Refill * (m - a) \in Int
  BY <1>3, Flows
<1> QED
  BY <1>1, <1>2, <1>4, CapacityIs DEF SpentBy

\* What has flowed in by a later clock of a key that is there.
LEMMA FlowsIn ==
  ASSUME AdmittedInv, TimesInv, NEW t \in 0..Capacity, NEW l \in Nat, NEW now \in Nat, l < now
  PROVE  \E u \in 0..Capacity :
           /\ u = Least(Capacity, t + (now - l) * Refill)
           /\ \A i \in 1..Admitted : SpentBy(i, t, l) => SpentBy(i, u, now)
           /\ \A cost \in 1..Capacity, due \in Nat : ComesBy(t, l, cost, due) => ComesBy(u, now, cost, due)
<1>1. PICK f \in Nat : f = Refill * (now - l)
  <2>1. Refill \in Nat /\ now - l \in Nat
    BY BucketAssumption
  <2> QED
    BY <2>1
<1>2. (now - l) * Refill = f
  BY <1>1, BucketAssumption
<1>3. Capacity \in Nat /\ t \in Nat /\ t <= Capacity
  BY CapacityIs
<1>4. PICK u \in 0..Capacity : u = Least(Capacity, t + f) /\ u <= t + f /\ (u = Capacity \/ u = t + f)
  BY <1>3 DEF Least
<1>5. ASSUME NEW i \in 1..Admitted, SpentBy(i, t, l) PROVE SpentBy(i, u, now)
  <2>1. GrantedBetween(i, Admitted) \in Nat /\ admissions[i].at \in Nat
    BY Grants
  <2>2. PICK a \in Nat, g \in Nat : a = admissions[i].at /\ g = GrantedBetween(i, Admitted)
    BY <2>1
  <2>3. Refill * (now - a) = Refill * (l - a) + f
    <3>1. a \in Int /\ l \in Int /\ now \in Int
      OBVIOUS
    <3>2. Refill * (now - a) = Refill * (l - a) + Refill * (now - l)
      BY <3>1, FlowsOn
    <3> QED
      BY <1>1, <3>2
  <2>4. Refill * (l - a) \in Int
    BY Flows
  <2>5. g = 0 \/ g + t <= Capacity + Refill * (l - a)
    BY <1>5, <2>2 DEF SpentBy
  <2>6. g = 0 \/ g + u <= Capacity + Refill * (now - a)
    BY <1>3, <1>4, <2>3, <2>4, <2>5
  <2> QED
    BY <2>2, <2>6 DEF SpentBy
<1>6. ASSUME NEW cost \in 1..Capacity, NEW due \in Nat, ComesBy(t, l, cost, due) PROVE ComesBy(u, now, cost, due)
  <2>1. CASE u = Capacity \/ t >= cost
    BY <1>3, <1>4, <2>1 DEF ComesBy
  <2>2. CASE u = t + f /\ t < cost
    <3>1. l < due /\ t + Refill * (due - l) >= cost
      BY <1>3, <1>6, <2>2 DEF ComesBy
    <3>2. Refill * (due - l) = f + Refill * (due - now) /\ Refill * (due - now) \in Int
      BY <1>1, FlowsOn, Flows
    <3>3. CASE now < due
      BY <1>3, <2>2, <3>1, <3>2, <3>3 DEF ComesBy
    <3>4. CASE due <= now
      <4>1. Refill * (due - l) <= f
        <5>1. due - l <= now - l /\ due - l \in Int /\ now - l \in Int
          BY <3>4
        <5> QED
          BY <1>1, <5>1, Flows
      <4> QED
        BY <1>3, <2>2, <3>1, <3>2, <4>1 DEF ComesBy
    <3> QED
      BY <3>3, <3>4
  <2> QED
    BY <1>3, <1>4, <2>1, <2>2
<1> QED
  BY <1>2, <1>4, <1>5, <1>6

\* What the script finds in the bucket keeps what the key kept.
Finds(t, l, now) ==
  /\ FilledAt(now) = [tokens |-> t, last |-> l]
  /\ now <= l /\ l <= tick + MaxSkew
  /\ \A i \in 1..Admitted : SpentBy(i, t, l)
  /\ \A q \in Request : waits[q].state = "waiting" /\ waits[q].seen = Admitted =>
       ComesBy(t, l, waits[q].cost, waits[q].asked + waits[q].hint)

\* It finds a bucket that was never used, one that fills, or one of a clock ahead.
LEMMA ScriptFinds ==
  ASSUME BucketInv, NEW now \in Nat, tick <= now, now <= tick + MaxSkew
  PROVE  \E t \in 0..Capacity, l \in Nat : Finds(t, l, now)
<1>t. /\ TimesInv /\ KeyInv /\ WaitsInv /\ AdmittedInv /\ SpentInv /\ PromiseInv
      /\ tick \in Nat /\ MaxSkew \in Nat /\ Capacity \in Nat \ {0}
  BY BucketAssumption, CapacityIs DEF BucketInv, TimesInv
<1>w. \A q \in Request : waits[q].cost \in 1..Capacity /\ waits[q].asked + waits[q].hint \in Nat
  BY <1>t DEF WaitsInv
<1>1. CASE bucket = <<>>
  <2>1. FilledAt(now) = [tokens |-> Capacity, last |-> now]
    BY <1>1 DEF FilledAt
  <2>2. \A i \in 1..Admitted : SpentBy(i, Capacity, now)
    BY <1>t, <1>1, SpentLater DEF SpentInv
  <2>3. \A q \in Request : ComesBy(Capacity, now, waits[q].cost, waits[q].asked + waits[q].hint)
    BY <1>t, <1>w DEF ComesBy
  <2>4. Finds(Capacity, now, now)
    BY <1>t, <2>1, <2>2, <2>3 DEF Finds
  <2> QED
    BY <1>t, <2>4
<1>2. CASE bucket # <<>>
  <2>1. PICK t \in 0..Capacity, l \in Nat : BucketFull(t, l) /\ l <= tick + MaxSkew
    BY <1>t, <1>2 DEF KeyInv
  <2>2. bucket[1] = [tokens |-> t, last |-> l] /\ t \in Nat
    BY <1>t, <2>1 DEF BucketFull
  <2>3. /\ \A i \in 1..Admitted : SpentBy(i, t, l)
        /\ \A q \in Request : waits[q].state = "waiting" /\ waits[q].seen = Admitted =>
             ComesBy(t, l, waits[q].cost, waits[q].asked + waits[q].hint)
    BY <1>t, <2>1, <2>2 DEF SpentInv, PromiseInv
  <2>4. CASE now > l
    <3>1. FilledAt(now) = [tokens |-> Least(Capacity, t + (now - l) * Refill), last |-> now]
      BY <1>2, <2>2, <2>4 DEF FilledAt
    <3>2. PICK u \in 0..Capacity :
           /\ u = Least(Capacity, t + (now - l) * Refill)
           /\ \A i \in 1..Admitted : SpentBy(i, t, l) => SpentBy(i, u, now)
           /\ \A cost \in 1..Capacity, due \in Nat : ComesBy(t, l, cost, due) => ComesBy(u, now, cost, due)
      BY <1>t, <2>4, FlowsIn
    <3>3. Finds(u, now, now)
      BY <1>t, <1>w, <2>3, <3>1, <3>2 DEF Finds
    <3> QED
      BY <3>3
  <2>5. CASE now <= l
    <3>1. FilledAt(now) = [tokens |-> t, last |-> l]
      BY <1>2, <2>2, <2>5 DEF FilledAt
    <3>2. Finds(t, l, now)
      BY <2>1, <2>3, <2>5, <3>1 DEF Finds
    <3> QED
      BY <3>2
  <2> QED
    BY <2>4, <2>5
<1> QED
  BY <1>1, <1>2

\* The key that an attempt writes lives for two minutes from then.
LEMMA KeyIsWritten ==
  ASSUME TimesInv, NEW t \in 0..Capacity, NEW l \in Nat, l <= tick + MaxSkew,
         bucket' = <<[tokens |-> t, last |-> l]>>, tick' = tick, lapses' = tick + 2 * Minute
  PROVE  TimesInv' /\ KeyInv'
<1>1. tick \in Nat /\ tick <= MaxTick /\ MaxSkew \in Nat /\ Minute \in Nat /\ MaxTick \in Nat
  BY BucketAssumption DEF TimesInv
<1>2. TimesInv'
  BY <1>1 DEF TimesInv
<1>3. BucketFull(t, l)' /\ l <= tick' + MaxSkew /\ l + 2 * Minute <= lapses' + MaxSkew
  BY <1>1 DEF BucketFull
<1> QED
  BY <1>2, <1>3 DEF KeyInv

\* A key holds one number of tokens and one clock.
LEMMA KeyIsOne ==
  ASSUME NEW t, NEW l, NEW u, NEW m, bucket = <<[tokens |-> t, last |-> l]>>, BucketFull(u, m)
  PROVE  u = t /\ m = l
<1>1. [tokens |-> t, last |-> l] = [tokens |-> u, last |-> m]
  BY DEF BucketFull
<1> QED
  BY <1>1

\* A request joins those that were admitted.
Joining(q, cost, m) ==
  /\ admissions' = Append(admissions, [at |-> tick, cost |-> cost, metered |-> m])
  /\ waits' = [waits EXCEPT ![q] = [cost |-> cost, state |-> "granted", retryAt |-> 0,
                                    asked |-> 0, hint |-> 0, seen |-> 0]]
  /\ tick' = tick

\* It was promised nothing any more, and everybody else was promised what others take.
LEMMA JoinKeeps ==
  ASSUME BucketInv, NEW q \in Request, waits[q].state \in {"new", "waiting"},
         NEW cost \in 1..Capacity, NEW m \in BOOLEAN, NEW g \in Nat, g = IF m THEN cost ELSE 0,
         NEW n \in Nat, n = Admitted, Joining(q, cost, m)
  PROVE  Joins(n, tick, g) /\ WaitsInv' /\ AdmittedInv' /\ PromiseInv' /\ HintIsEnough
<1>t. /\ TimesInv /\ WaitsInv /\ AdmittedInv /\ PromiseInv /\ tick \in Nat /\ cost \in Nat
      /\ admissions \in Seq([at : Nat, cost : Nat, metered : BOOLEAN])
  BY BucketAssumption, CapacityIs DEF BucketInv, TimesInv, AdmittedInv
<1>g. Joins(n, tick, g)
  <2>1. PICK k \in Nat : k = tick
    BY <1>t
  <2>2. Appends(k, cost, m)
    BY <2>1 DEF Joining, Appends
  <2>3. Joins(n, k, g)
    BY <1>t, <2>2, GrantAdds
  <2> QED
    BY <2>1, <2>3
<1>h. /\ Admitted' = n + 1 /\ admissions'[n + 1].at = tick
      /\ \A i \in 1..n : admissions'[i].at = admissions[i].at
  BY <1>g DEF Joins
<1>w. /\ waits'[q] = [cost |-> cost, state |-> "granted", retryAt |-> 0, asked |-> 0, hint |-> 0, seen |-> 0]
      /\ \A r \in Request : r # q => waits'[r] = waits[r]
  BY <1>t DEF WaitsInv, Joining
<1>2. WaitsInv'
  <2>1. [cost |-> cost, state |-> "granted", retryAt |-> 0, asked |-> 0, hint |-> 0, seen |-> 0]
          \in [cost : 1..Capacity, state : Asking, retryAt : Nat, asked : Nat, hint : Nat, seen : Nat]
    BY DEF Asking
  <2> QED
    BY <1>t, <2>1 DEF WaitsInv, Joining
<1>3. AdmittedInv'
  <2>0. tick' = tick
    BY DEF Joining
  <2>1. admissions' \in Seq([at : Nat, cost : Nat, metered : BOOLEAN])
    BY <1>t DEF Joining
  <2>2. \A i \in 1..Admitted' : admissions'[i].at <= tick'
    <3>1. ASSUME NEW i \in 1..n PROVE admissions'[i].at <= tick
      BY <1>t, <1>h DEF AdmittedInv
    <3>2. admissions'[n + 1].at <= tick
      BY <1>t, <1>h
    <3>3. \A i \in 1..(n + 1) : i \in 1..n \/ i = n + 1
      OBVIOUS
    <3> QED
      BY <1>h, <2>0, <3>1, <3>2, <3>3
  <2>3. Admitted' = Cardinality({r \in Request : waits'[r].state = "granted"})
    <3> DEFINE old == {r \in Request : waits[r].state = "granted"}
               new == {r \in Request : waits'[r].state = "granted"}
    <3>1. new = old \cup {q} /\ q \notin old
      BY <1>w
    <3>2. IsFiniteSet(old)
      BY BucketAssumption, FS_Subset
    <3>3. Cardinality(new) = Cardinality(old) + 1
      BY <3>1, <3>2, FS_AddElement
    <3>4. Cardinality(old) = n
      BY <1>t DEF AdmittedInv
    <3> QED
      BY <1>h, <3>3, <3>4
  <2> QED
    BY <2>1, <2>2, <2>3 DEF AdmittedInv
<1>6. PromiseInv'
  <2> SUFFICES ASSUME NEW r \in Request, waits'[r].state = "waiting"
      PROVE  waits'[r].seen <= n + 1 /\ waits'[r].seen # n + 1
    BY <1>h DEF PromiseInv
  <2>1. r # q
    BY <1>w
  <2>2. waits'[r] = waits[r] /\ waits[r].seen <= n /\ waits[r].seen \in Nat
    BY <1>t, <1>w, <2>1 DEF PromiseInv, WaitsInv
  <2> QED
    BY <2>2
<1>8. HintIsEnough
  BY <1>w DEF HintIsEnough
<1> QED
  BY <1>g, <1>2, <1>3, <1>6, <1>8

\* The bursts of those that were admitted before are as they were.
LEMMA BurstsGrow ==
  ASSUME BurstsAreBounded, NEW n \in Nat, n = Admitted, NEW g \in Nat, Joins(n, tick, g),
         NEW i \in 1..(n + 1), NEW j \in i..(n + 1), j # n + 1
  PROVE  GrantedBetween(i, j)' <= Capacity + Refill * (admissions'[j].at - admissions'[i].at + MaxSkew)
<1>1. i \in 1..n /\ j \in i..n /\ j \in 1..n
  OBVIOUS
<1>2. GrantedBetween(i, j)' = GrantedBetween(i, j) /\ admissions'[i] = admissions[i] /\ admissions'[j] = admissions[j]
  BY <1>1 DEF Joins
<1>3. GrantedBetween(i, j) <= Capacity + Refill * (admissions[j].at - admissions[i].at + MaxSkew)
  BY <1>1 DEF BurstsAreBounded, Admitted
<1> QED
  BY <1>2, <1>3

\* The request is admitted by the script: its cost, when it is known to be metered,
\* joins what was granted, out of what was left.
LEMMA GrantKeeps ==
  ASSUME BucketInv, NEW q \in Request, waits[q].state \in {"new", "waiting"},
         NEW now \in Nat, NEW t \in 0..Capacity, NEW l \in Nat, Finds(t, l, now), tick <= now,
         NEW cost \in 1..Capacity, NEW m \in BOOLEAN, NEW g \in Nat, g = IF m THEN cost ELSE 0,
         NEW d \in 0..t, g <= d, Joining(q, cost, m),
         bucket' = <<[tokens |-> t - d, last |-> l]>>, lapses' = tick + 2 * Minute
  PROVE  BucketInv' /\ HintIsEnough
<1>t. /\ TimesInv /\ AdmittedInv /\ BurstsAreBounded
      /\ tick \in Nat /\ MaxSkew \in Nat /\ Capacity \in Nat \ {0} /\ t \in Nat /\ d \in Nat
      /\ d <= t /\ t <= Capacity /\ tick <= l /\ l <= tick + MaxSkew
  <2>1. TimesInv /\ AdmittedInv /\ BurstsAreBounded
    BY DEF BucketInv
  <2>3. tick \in Nat
    BY <2>1 DEF TimesInv
  <2>4. MaxSkew \in Nat
    BY BucketAssumption
  <2>5. Capacity \in Nat \ {0}
    BY CapacityIs
  <2>6. t \in Nat /\ t <= Capacity /\ d \in Nat /\ d <= t
    BY <2>5
  <2>7. tick <= l /\ l <= tick + MaxSkew
    BY <2>3, <2>4 DEF Finds
  <2> QED
    BY <2>1, <2>3, <2>4, <2>5, <2>6, <2>7
<1>m. /\ tick \in Nat /\ MaxSkew \in Nat /\ Capacity \in Nat \ {0} /\ t \in Nat /\ d \in Nat
      /\ d <= t /\ t <= Capacity /\ tick <= l /\ l <= tick + MaxSkew /\ l \in Nat
  BY <1>t
<1>n. PICK n \in Nat : n = Admitted
  <2>1. admissions \in Seq([at : Nat, cost : Nat, metered : BOOLEAN])
    BY <1>t DEF AdmittedInv
  <2> QED
    BY <2>1, LenProperties DEF Admitted
<1>j. Joins(n, tick, g) /\ WaitsInv' /\ AdmittedInv' /\ PromiseInv' /\ HintIsEnough
  BY <1>n, JoinKeeps
<1>g. /\ Admitted' = n + 1 /\ admissions'[n + 1].at = tick
      /\ \A i \in 1..n : GrantedBetween(i, n) \in Nat /\ GrantedBetween(i, n + 1)' = GrantedBetween(i, n) + g
      /\ \A i \in 1..n : admissions'[i].at = admissions[i].at
      /\ GrantedBetween(n + 1, n + 1)' = g
  <2>1. \A i \in 1..n : n \in i..n
    OBVIOUS
  <2> QED
    BY <1>j, <2>1 DEF Joins
<1>1. TimesInv' /\ KeyInv'
  <2>1. PICK u \in 0..Capacity : u = t - d
    BY <1>m
  <2>2. bucket' = <<[tokens |-> u, last |-> l]>> /\ tick' = tick
    BY <2>1 DEF Joining
  <2> QED
    BY <1>t, <2>2, KeyIsWritten
<1>a. \A i \in 1..n : admissions[i].at \in Nat /\ admissions[i].at <= tick
  BY <1>t, <1>n, Grants
<1>4. ASSUME NEW i \in 1..(n + 1)
      PROVE  /\ GrantedBetween(i, n + 1)' + (t - d) <= Capacity + Refill * (l - admissions'[i].at)
             /\ GrantedBetween(i, n + 1)' \in Nat /\ admissions'[i].at \in Nat
  <2>1. CASE i \in 1..n
    <3>1. PICK x \in Nat, a \in Nat : /\ x = GrantedBetween(i, n) /\ GrantedBetween(i, n + 1)' = x + g
                                      /\ a = admissions[i].at /\ a = admissions'[i].at /\ a <= tick
      BY <1>a, <1>g, <2>1
    <3>2. x = 0 \/ x + t <= Capacity + Refill * (l - a)
      BY <1>n, <2>1, <3>1 DEF Finds, SpentBy
    <3>3. PICK e \in Nat : e = Refill * (l - a)
      <4>1. Refill \in Nat
        BY BucketAssumption
      <4>2. l - a \in Nat
        BY <1>m, <3>1
      <4> QED
        BY <4>1, <4>2
    <3>4. (x + g) + (t - d) <= Capacity + e /\ x + g \in Nat
      BY <1>m, <3>2, <3>3
    <3> QED
      BY <3>1, <3>3, <3>4
  <2>2. CASE i = n + 1
    <3>1. admissions'[i].at = tick /\ GrantedBetween(i, n + 1)' = g
      <4>1. GrantedBetween(n + 1, n + 1)' = g
        BY <1>g
      <4> QED
        BY <1>g, <2>2, <4>1
    <3>2. PICK e \in Nat : e = Refill * (l - tick)
      <4>1. Refill \in Nat
        BY BucketAssumption
      <4>2. l - tick \in Nat
        BY <1>m
      <4> QED
        BY <4>1, <4>2
    <3>4. g + (t - d) <= Capacity + e
      BY <1>m
    <3> QED
      BY <1>m, <3>1, <3>2, <3>4
  <2> QED
    BY <2>1, <2>2
<1>5. SpentInv'
  <2>0. bucket' # <<>>
    OBVIOUS
  <2> SUFFICES ASSUME NEW i \in 1..(n + 1)
      PROVE  \A u \in Nat, k \in Nat : BucketFull(u, k)' => SpentBy(i, u, k)'
    BY <1>g, <2>0 DEF SpentInv
  <2> SUFFICES ASSUME NEW u \in Nat, NEW k \in Nat, BucketFull(u, k)' PROVE SpentBy(i, u, k)'
    OBVIOUS
  <2>1. u = t - d /\ k = l
    <3>1. [tokens |-> t - d, last |-> l] = [tokens |-> u, last |-> k]
      BY DEF BucketFull
    <3> QED
      BY <3>1
  <2>2. GrantedBetween(i, n + 1)' + u <= Capacity + Refill * (k - admissions'[i].at)
    BY <1>4, <2>1
  <2> QED
    BY <1>g, <2>2 DEF SpentBy, GrantedBetween
<1>7. BurstsAreBounded'
  <2> SUFFICES ASSUME NEW i \in 1..(n + 1), NEW j \in i..(n + 1)
      PROVE  GrantedBetween(i, j)' <= Capacity + Refill * (admissions'[j].at - admissions'[i].at + MaxSkew)
    BY <1>g DEF BurstsAreBounded, Admitted
  <2>1. CASE j = n + 1
    <3>1. PICK a \in Nat, x \in Nat : a = admissions'[i].at /\ x = GrantedBetween(i, n + 1)'
      BY <1>4
    <3>2. x + (t - d) <= Capacity + Refill * (l - a)
      BY <1>4, <3>1
    <3>3. Refill * (l - a) <= Refill * (tick - a + MaxSkew) /\ Refill * (l - a) \in Int /\ Refill * (tick - a + MaxSkew) \in Int
      <4>1. l - a \in Int /\ tick - a + MaxSkew \in Int /\ l - a <= tick - a + MaxSkew
        BY <1>m
      <4> QED
        BY <4>1, Flows
    <3>4. x <= Capacity + Refill * (tick - a + MaxSkew)
      BY <1>m, <3>2, <3>3
    <3>5. admissions'[j].at = tick
      BY <1>g, <2>1
    <3> QED
      BY <2>1, <3>1, <3>4, <3>5
  <2>2. CASE j # n + 1
    BY <1>t, <1>n, <1>j, <2>2, BurstsGrow
  <2> QED
    BY <2>1, <2>2
<1> QED
  BY <1>1, <1>5, <1>7, <1>j DEF BucketInv

\* The request is admitted without Redis: nothing is taken, and nothing is counted.
LEMMA LetInKeeps ==
  ASSUME BucketInv, NEW q \in Request, waits[q].state \in {"new", "waiting"}, NEW cost \in 1..Capacity,
         Joining(q, cost, FALSE), UNCHANGED <<bucket, lapses>>
  PROVE  BucketInv' /\ HintIsEnough
<1>t. /\ TimesInv /\ KeyInv /\ AdmittedInv /\ SpentInv /\ BurstsAreBounded
      /\ tick \in Nat /\ MaxSkew \in Nat /\ Capacity \in Nat
  BY BucketAssumption, CapacityIs DEF BucketInv, TimesInv
<1>n. PICK n \in Nat : n = Admitted
  <2>1. admissions \in Seq([at : Nat, cost : Nat, metered : BOOLEAN])
    BY <1>t DEF AdmittedInv
  <2> QED
    BY <2>1, LenProperties DEF Admitted
<1>j. Joins(n, tick, 0) /\ WaitsInv' /\ AdmittedInv' /\ PromiseInv' /\ HintIsEnough
  <2>1. PICK m \in BOOLEAN : m = FALSE
    OBVIOUS
  <2>2. PICK g \in Nat : g = 0 /\ g = IF m THEN cost ELSE 0
    BY <2>1
  <2>3. Joining(q, cost, m)
    BY <2>1
  <2>4. Joins(n, tick, g) /\ WaitsInv' /\ AdmittedInv' /\ PromiseInv' /\ HintIsEnough
    BY <1>n, <2>2, <2>3, JoinKeeps
  <2> QED
    BY <2>2, <2>4
<1>g. /\ Admitted' = n + 1 /\ admissions'[n + 1].at = tick
      /\ \A i \in 1..n : GrantedBetween(i, n) \in Nat /\ GrantedBetween(i, n + 1)' = GrantedBetween(i, n)
      /\ \A i \in 1..n : admissions'[i].at = admissions[i].at
      /\ GrantedBetween(n + 1, n + 1)' = 0
  <2>1. \A i \in 1..n : n \in i..n
    OBVIOUS
  <2>2. \A x \in Nat : x + 0 = x
    OBVIOUS
  <2> QED
    BY <1>j, <2>1, <2>2 DEF Joins
<1>k. \A i \in 1..n : admissions[i].at \in Nat /\ admissions[i].at <= tick
  BY <1>t, <1>n, Grants
<1>1. TimesInv' /\ KeyInv'
  BY <1>t DEF Joining, TimesInv, KeyInv, BucketFull
<1>5. SpentInv'
  <2>1. ASSUME NEW i \in 1..n, NEW u \in Nat, NEW k \in Nat, SpentBy(i, u, k) PROVE SpentBy(i, u, k)'
    <3>1. GrantedBetween(i, Admitted)' = GrantedBetween(i, Admitted)
      BY <1>n, <1>g DEF GrantedBetween
    <3> QED
      BY <1>g, <2>1, <3>1 DEF SpentBy
  <2>2. ASSUME NEW u \in Nat, NEW k \in Nat PROVE SpentBy(n + 1, u, k)'
    BY <1>g DEF SpentBy, GrantedBetween
  <2>3. \A i \in 1..Admitted' : i \in 1..n \/ i = n + 1
    BY <1>g
  <2>4. tick' = tick /\ bucket' = bucket
    BY DEF Joining
  <2> SUFFICES ASSUME NEW i \in 1..Admitted'
      PROVE  /\ \A u \in Nat, k \in Nat : BucketFull(u, k)' => SpentBy(i, u, k)'
             /\ bucket' = <<>> => SpentBy(i, Capacity, tick)'
    BY DEF SpentInv
  <2>5. CASE i = n + 1
    <3>1. SpentBy(n + 1, Capacity, tick)'
      BY <1>g DEF SpentBy, GrantedBetween
    <3> QED
      BY <2>2, <2>5, <3>1
  <2>6. CASE i \in 1..n
    <3>1. ASSUME NEW u \in Nat, NEW k \in Nat, BucketFull(u, k)' PROVE SpentBy(i, u, k)'
      <4>1. BucketFull(u, k)
        BY <2>4, <3>1 DEF BucketFull
      <4> QED
        BY <1>t, <1>n, <2>1, <2>6, <4>1 DEF SpentInv
    <3>2. ASSUME bucket' = <<>> PROVE SpentBy(i, Capacity, tick)'
      <4>1. PICK k \in Nat : k = tick /\ k = tick'
        BY <1>t, <2>4
      <4>2. SpentBy(i, Capacity, k)
        BY <1>t, <1>n, <2>4, <2>6, <3>2, <4>1 DEF SpentInv
      <4>3. SpentBy(i, Capacity, k)'
        BY <1>t, <2>1, <2>6, <4>2
      <4> QED
        BY <4>1, <4>3 DEF SpentBy
    <3> QED
      BY <3>1, <3>2
  <2> QED
    BY <2>3, <2>5, <2>6
<1>7. BurstsAreBounded'
  <2> SUFFICES ASSUME NEW i \in 1..(n + 1), NEW j \in i..(n + 1)
      PROVE  GrantedBetween(i, j)' <= Capacity + Refill * (admissions'[j].at - admissions'[i].at + MaxSkew)
    BY <1>g DEF BurstsAreBounded, Admitted
  <2>1. CASE j = n + 1 /\ i \in 1..n
    <3>1. PICK a \in Nat, z \in Nat, x \in Nat :
            /\ a = admissions[i].at /\ z = admissions[n].at /\ z <= tick
            /\ x = GrantedBetween(i, n) /\ x = GrantedBetween(i, n + 1)'
      BY <1>g, <1>k, <2>1
    <3>2. x <= Capacity + Refill * (z - a + MaxSkew)
      <4>1. n \in i..n /\ i \in 1..n
        BY <2>1
      <4> QED
        BY <1>t, <1>n, <3>1, <4>1 DEF BurstsAreBounded, Admitted
    <3>3. Refill * (z - a + MaxSkew) <= Refill * (tick - a + MaxSkew) /\ Refill * (z - a + MaxSkew) \in Int /\ Refill * (tick - a + MaxSkew) \in Int
      <4>1. z - a + MaxSkew \in Int /\ tick - a + MaxSkew \in Int /\ z - a + MaxSkew <= tick - a + MaxSkew
        BY <1>t, <3>1
      <4> QED
        BY <4>1, Flows
    <3>4. x <= Capacity + Refill * (tick - a + MaxSkew)
      BY <1>t, <3>2, <3>3
    <3> QED
      BY <1>g, <2>1, <3>1, <3>4
  <2>2. CASE j = n + 1 /\ i = n + 1
    <3>1. Refill * (tick - tick + MaxSkew) \in Nat
      <4>1. Refill \in Nat
        BY BucketAssumption
      <4>2. tick - tick + MaxSkew \in Nat
        BY <1>t
      <4> QED
        BY <4>1, <4>2
    <3>2. PICK e \in Nat : e = Refill * (tick - tick + MaxSkew)
      BY <3>1
    <3>3. 0 <= Capacity + e
      BY <1>t
    <3> QED
      BY <1>g, <2>2, <3>2, <3>3
  <2>3. CASE j # n + 1
    <3>1. PICK g \in Nat : g = 0
      OBVIOUS
    <3> QED
      BY <1>t, <1>n, <1>j, <2>3, <3>1, BurstsGrow
  <2> QED
    BY <2>1, <2>2, <2>3
<1> QED
  BY <1>1, <1>5, <1>7, <1>j DEF BucketInv

\* The request is told to wait, and when it had waited as it was told, somebody
\* else was admitted.
LEMMA RefuseKeeps ==
  ASSUME BucketInv, NEW q \in Request, waits[q].state \in {"new", "waiting"},
         NEW now \in Nat, NEW t \in 0..Capacity, NEW l \in Nat, Finds(t, l, now), tick <= now,
         NEW cost \in 1..Capacity, cost = waits[q].cost, t < cost,
         NEW h \in Nat, cost - t <= Refill * h, NEW r \in Nat,
         bucket' = <<[tokens |-> t, last |-> l]>>, admissions' = admissions,
         waits' = [waits EXCEPT ![q] = [cost |-> cost, state |-> "waiting", retryAt |-> r,
                                         asked |-> l, hint |-> h, seen |-> Admitted]],
         tick' = tick, lapses' = tick + 2 * Minute
  PROVE  BucketInv' /\ HintIsEnough
<1>t. /\ TimesInv /\ WaitsInv /\ AdmittedInv /\ SpentInv /\ PromiseInv /\ BurstsAreBounded
      /\ tick \in Nat /\ MaxSkew \in Nat /\ Capacity \in Nat \ {0} /\ t \in Nat /\ cost \in Nat \ {0}
      /\ l <= tick + MaxSkew
  BY BucketAssumption, CapacityIs DEF BucketInv, TimesInv, Finds
<1>n. Admitted' = Admitted /\ Admitted \in Nat
  BY <1>t DEF Admitted, AdmittedInv
<1>w. /\ waits'[q] = [cost |-> cost, state |-> "waiting", retryAt |-> r, asked |-> l, hint |-> h, seen |-> Admitted]
      /\ \A o \in Request : o # q => waits'[o] = waits[o]
  BY <1>t DEF WaitsInv
<1>1. TimesInv' /\ KeyInv'
  BY <1>t, KeyIsWritten
<1>2. WaitsInv'
  <2>1. [cost |-> cost, state |-> "waiting", retryAt |-> r, asked |-> l, hint |-> h, seen |-> Admitted]
          \in [cost : 1..Capacity, state : Asking, retryAt : Nat, asked : Nat, hint : Nat, seen : Nat]
    BY <1>n DEF Asking
  <2> QED
    BY <1>t, <2>1 DEF WaitsInv
<1>3. AdmittedInv'
  <2>1. {o \in Request : waits'[o].state = "granted"} = {o \in Request : waits[o].state = "granted"}
    BY <1>w
  <2> QED
    BY <1>t, <1>n, <2>1 DEF AdmittedInv
<1>k. ASSUME NEW u \in Nat, NEW m \in Nat, BucketFull(u, m)' PROVE u = t /\ m = l
  <2>1. [tokens |-> t, last |-> l] = [tokens |-> u, last |-> m]
    BY <1>k DEF BucketFull
  <2> QED
    BY <2>1
<1>s. \A i \in 1..Admitted : \A u \in Nat, m \in Nat : SpentBy(i, u, m) => SpentBy(i, u, m)'
  BY DEF SpentBy, GrantedBetween, Costs, Admitted
<1>5. SpentInv'
  <2> SUFFICES ASSUME NEW i \in 1..Admitted, NEW u \in Nat, NEW m \in Nat, BucketFull(u, m)' PROVE SpentBy(i, u, m)'
    BY <1>n DEF SpentInv
  <2>1. SpentBy(i, t, l) /\ u = t /\ m = l
    BY <1>k DEF Finds
  <2> QED
    BY <1>s, <2>1
<1>6. PromiseInv'
  <2> SUFFICES ASSUME NEW o \in Request, waits'[o].state = "waiting"
      PROVE  /\ waits'[o].seen <= Admitted
             /\ waits'[o].seen = Admitted => ComesBy(t, l, waits'[o].cost, waits'[o].asked + waits'[o].hint)
    <3>1. \A o \in Request : waits'[o].state = "waiting" =>
            /\ waits'[o].seen <= Admitted
            /\ waits'[o].seen = Admitted =>
                 \A u \in Nat, m \in Nat :
                   BucketFull(u, m)' => ComesBy(u, m, waits'[o].cost, waits'[o].asked + waits'[o].hint)
      BY <1>k
    <3> QED
      BY <1>n, <3>1 DEF PromiseInv, ComesBy
  <2>1. CASE o = q
    <3>1. /\ waits'[o].seen = Admitted /\ waits'[o].cost = cost
          /\ waits'[o].asked = l /\ waits'[o].hint = h
      BY <1>w, <2>1
    <3>2. ComesBy(t, l, cost, l + h)
      <4>1. (l + h) - l = h /\ Refill * h \in Int
        BY Flows
      <4>2. h # 0
        BY <1>t, Flows
      <4> QED
        BY <1>t, <4>1, <4>2 DEF ComesBy
    <3> QED
      BY <1>n, <3>1, <3>2
  <2>2. CASE o # q
    <3>1. waits'[o] = waits[o]
      BY <1>w, <2>2
    <3> QED
      BY <1>t, <3>1 DEF PromiseInv, Finds
  <2> QED
    BY <2>1, <2>2
<1>7. BurstsAreBounded'
  BY <1>t DEF BurstsAreBounded, GrantedBetween, Costs
<1>8. HintIsEnough
  <2> SUFFICES ASSUME NEW o \in Request, waits[o].state = "waiting", waits'[o].state = "waiting", waits'[o] # waits[o],
                      waits'[o].asked >= waits[o].asked + waits[o].hint
      PROVE  Admitted > waits[o].seen
    BY DEF HintIsEnough, Admitted
  <2>1. o = q /\ waits'[o].asked = l
    BY <1>w
  <2>2. waits[q].seen <= Admitted /\ waits[q].seen \in Nat /\ waits[q].asked \in Nat /\ waits[q].hint \in Nat
    BY <1>t, <2>1 DEF PromiseInv, WaitsInv
  <2>3. waits[q].seen = Admitted => ComesBy(t, l, cost, waits[q].asked + waits[q].hint)
    BY <2>1 DEF Finds
  <2>4. ~ComesBy(t, l, cost, waits[q].asked + waits[q].hint)
    BY <1>t, <2>1, <2>2 DEF ComesBy
  <2> QED
    BY <1>n, <2>1, <2>2, <2>3, <2>4
<1> QED
  BY <1>1, <1>2, <1>3, <1>5, <1>6, <1>7, <1>8 DEF BucketInv

\* An attempt admits the request or refuses it.
LEMMA AttemptKeeps ==
  ASSUME MaxSkew <= Minute, BucketInv, NEW q \in Request, Attempt(q)
  PROVE  BucketInv' /\ HintIsEnough
<1>t. /\ TimesInv /\ KeyInv /\ WaitsInv /\ AdmittedInv /\ SpentInv /\ PromiseInv /\ BurstsAreBounded
      /\ tick \in Nat /\ MaxSkew \in Nat /\ Capacity \in Nat \ {0} /\ Minute \in Nat /\ MaxTick \in Nat
  BY BucketAssumption, CapacityIs DEF BucketInv, TimesInv
<1>q. /\ waits[q] \in [cost : 1..Capacity, state : Asking, retryAt : Nat, asked : Nat, hint : Nat, seen : Nat]
      /\ waits[q].state \in {"new", "waiting"}
  BY <1>t DEF Attempt, Due, WaitsInv
<1>a. /\ tick' = tick /\ lapses' = tick + 2 * Minute
  BY DEF Attempt
<1>1. PICK now \in tick..(tick + MaxSkew) :
        LET b == FilledAt(now)
            cost == waits[q].cost
            hint == Hint(cost - b.tokens)
        IN IF b.tokens >= cost
           THEN /\ Write(b, b.tokens - cost)
                /\ LetIn(q, TRUE)
                /\ Stands(q, "granted", 0, 0, 0, 0)
           ELSE /\ Write(b, b.tokens)
                /\ Stands(q, "waiting", tick + Least(hint, LongestWait), b.last, hint, Len(admissions))
                /\ UNCHANGED admissions
  BY DEF Attempt
<1>2. PICK t \in 0..Capacity, l \in Nat : Finds(t, l, now)
  BY <1>t, ScriptFinds
<1>3. /\ FilledAt(now) = [tokens |-> t, last |-> l] /\ now <= l /\ l <= tick + MaxSkew /\ tick <= l /\ t \in Nat
  BY <1>t, <1>2 DEF Finds
<1>4. PICK cost \in 1..Capacity : cost = waits[q].cost
  BY <1>q
<1>5. CASE t >= cost
  <2>1. /\ bucket' = <<[tokens |-> t - cost, last |-> l]>>
        /\ admissions' = Append(admissions, [at |-> tick, cost |-> cost, metered |-> TRUE])
        /\ waits' = [waits EXCEPT ![q] = [cost |-> cost, state |-> "granted", retryAt |-> 0,
                                           asked |-> 0, hint |-> 0, seen |-> 0]]
    <3>1. FilledAt(now).tokens = t
      BY <1>3
    <3>2. /\ Write(FilledAt(now), t - cost)
          /\ admissions' = Append(admissions, [at |-> tick, cost |-> cost, metered |-> TRUE])
      BY <1>1, <1>4, <1>5, <3>1 DEF LetIn
    <3>3. Stands(q, "granted", 0, 0, 0, 0)
      BY <1>1, <1>4, <1>5, <3>1
    <3>4. bucket' = <<[tokens |-> t - cost, last |-> l]>>
      BY <1>3, <3>2 DEF Write
    <3>5. waits' = [waits EXCEPT ![q] = [cost |-> cost, state |-> "granted", retryAt |-> 0,
                                          asked |-> 0, hint |-> 0, seen |-> 0]]
      BY <1>4, <3>3 DEF Stands
    <3> QED
      BY <3>2, <3>4, <3>5
  <2> QED
    <3>1. now \in Nat /\ tick <= now
      BY <1>t
    <3>2. PICK m \in BOOLEAN : m = TRUE
      OBVIOUS
    <3>3. PICK d \in 0..t, g \in Nat : d = cost /\ g = cost /\ g = IF m THEN cost ELSE 0
      BY <1>3, <1>5, <3>2
    <3>4. Joining(q, cost, m) /\ bucket' = <<[tokens |-> t - d, last |-> l]>> /\ g <= d
      BY <1>a, <2>1, <3>2, <3>3 DEF Joining
    <3> HIDE <2>1
    <3> QED
      BY <1>q, <1>a, <1>2, <3>1, <3>3, <3>4, GrantKeeps
<1>6. CASE t < cost
  <2>1. PICK h \in Nat : h = Hint(cost - t) /\ cost - t <= Refill * h
    <3>1. cost - t \in Nat \ {0}
      BY <1>3, <1>6
    <3> QED
      BY <3>1, HintCovers
  <2>2. PICK r \in Nat : r = tick + Least(h, LongestWait)
    BY <1>t, BucketAssumption DEF Least
  <2>3. /\ bucket' = <<[tokens |-> t, last |-> l]>> /\ admissions' = admissions
        /\ waits' = [waits EXCEPT ![q] = [cost |-> cost, state |-> "waiting", retryAt |-> r,
                                           asked |-> l, hint |-> h, seen |-> Admitted]]
    <3>1. FilledAt(now).tokens = t /\ FilledAt(now).last = l /\ ~(t >= cost)
      BY <1>3, <1>6
    <3>2. Write(FilledAt(now), t) /\ admissions' = admissions
      BY <1>1, <1>4, <3>1
    <3>3. Stands(q, "waiting", r, l, h, Admitted)
      BY <1>1, <1>4, <2>1, <2>2, <3>1 DEF Admitted
    <3>4. bucket' = <<[tokens |-> t, last |-> l]>>
      BY <1>3, <3>2 DEF Write
    <3>5. waits' = [waits EXCEPT ![q] = [cost |-> cost, state |-> "waiting", retryAt |-> r,
                                          asked |-> l, hint |-> h, seen |-> Admitted]]
      BY <1>4, <3>3 DEF Stands
    <3> QED
      BY <3>2, <3>4, <3>5
  <2> QED
    <3>1. now \in Nat /\ tick <= now
      BY <1>t
    <3> QED
      BY <1>q, <1>a, <1>2, <1>4, <1>6, <2>1, <2>3, <3>1, RefuseKeeps
<1> QED
  BY <1>3, <1>4, <1>5, <1>6

\* A request that Redis does not answer is admitted, whatever the script has done.
LEMMA UnmeteredKeeps ==
  ASSUME BucketInv, NEW q \in Request, AdmitUnmetered(q)
  PROVE  BucketInv' /\ HintIsEnough
<1>t. /\ WaitsInv /\ tick \in Nat /\ MaxSkew \in Nat /\ Capacity \in Nat
  BY BucketAssumption, CapacityIs DEF BucketInv, TimesInv
<1>q. /\ waits[q].state \in {"new", "waiting"} /\ waits[q].cost \in 1..Capacity
  BY <1>t DEF AdmitUnmetered, Due, WaitsInv
<1>4. PICK cost \in 1..Capacity : cost = waits[q].cost
  BY <1>q
<1>5. Joining(q, cost, FALSE)
  BY <1>4 DEF AdmitUnmetered, LetIn, Stands, Joining
<1>6. CASE UNCHANGED <<bucket, lapses>>
  BY <1>q, <1>5, <1>6, LetInKeeps
<1>7. ASSUME NEW now \in tick..(tick + MaxSkew), NEW d, d = IF FilledAt(now).tokens >= cost THEN cost ELSE 0,
             Write(FilledAt(now), FilledAt(now).tokens - d), lapses' = tick + 2 * Minute
      PROVE  BucketInv' /\ HintIsEnough
  <2>1. now \in Nat /\ tick <= now /\ now <= tick + MaxSkew
    BY <1>t
  <2>2. PICK t \in 0..Capacity, l \in Nat : Finds(t, l, now)
    BY <2>1, ScriptFinds
  <2>3. FilledAt(now) = [tokens |-> t, last |-> l]
    BY <2>2 DEF Finds
  <2>4. d \in 0..t
    BY <1>t, <1>7, <2>3
  <2>5. bucket' = <<[tokens |-> t - d, last |-> l]>>
    BY <1>7, <2>3 DEF Write
  <2>6. PICK m \in BOOLEAN : m = FALSE
    OBVIOUS
  <2>7. PICK g \in Nat : g = 0 /\ g = IF m THEN cost ELSE 0
    BY <2>6
  <2>8. Joining(q, cost, m)
    BY <1>5, <2>6
  <2>9. g <= d
    BY <1>t, <2>4, <2>7
  <2> QED
    BY <1>q, <1>7, <2>1, <2>2, <2>4, <2>5, <2>7, <2>8, <2>9, GrantKeeps
<1> QED
  BY <1>4, <1>6, <1>7 DEF AdmitUnmetered

\* Steps that admit nobody keep what is known of the admissions.
LEMMA AdmittedStays ==
  ASSUME BucketInv, UNCHANGED admissions, tick' \in Nat, tick <= tick', WaitsInv',
         \A q \in Request : waits'[q].state = "granted" <=> waits[q].state = "granted"
  PROVE  /\ AdmittedInv' /\ BurstsAreBounded' /\ Admitted' = Admitted
         /\ \A i \in 1..Admitted : \A t \in Nat, l \in Nat : SpentBy(i, t, l)' <=> SpentBy(i, t, l)
<1>t. AdmittedInv /\ TimesInv /\ BurstsAreBounded /\ tick \in Nat
  BY BucketAssumption DEF BucketInv, TimesInv
<1>1. Admitted' = Admitted
  BY DEF Admitted
<1>2. \A i \in 1..Admitted : admissions'[i].at <= tick'
  <2> SUFFICES ASSUME NEW i \in 1..Admitted PROVE admissions[i].at <= tick'
    OBVIOUS
  <2>1. admissions[i].at \in Nat /\ admissions[i].at <= tick
    BY <1>t, Grants
  <2> QED
    BY <1>t, <2>1
<1>3. {q \in Request : waits'[q].state = "granted"} = {q \in Request : waits[q].state = "granted"}
  OBVIOUS
<1>4. AdmittedInv'
  BY <1>t, <1>1, <1>2, <1>3 DEF AdmittedInv
<1>5. BurstsAreBounded'
  BY <1>t DEF BurstsAreBounded, GrantedBetween, Costs
<1>6. \A i \in 1..Admitted : \A t \in Nat, l \in Nat : SpentBy(i, t, l)' <=> SpentBy(i, t, l)
  BY DEF SpentBy, GrantedBetween, Costs, Admitted
<1> QED
  BY <1>1, <1>4, <1>5, <1>6

\* Nobody asks.
LEMMA TickKeeps == ASSUME BucketInv, TickBucket PROVE BucketInv'
<1>t. /\ TimesInv /\ KeyInv /\ WaitsInv /\ AdmittedInv /\ SpentInv /\ PromiseInv
      /\ tick \in Nat /\ MaxSkew \in Nat /\ Capacity \in Nat /\ Minute \in Nat /\ MaxTick \in Nat
  BY BucketAssumption, CapacityIs DEF BucketInv, TimesInv
<1>1. tick < MaxTick /\ tick' = tick + 1 /\ bucket' = bucket /\ lapses' = lapses /\ waits' = waits /\ admissions' = admissions
  BY DEF TickBucket
<1>2. TimesInv'
  BY <1>t, <1>1 DEF TimesInv
<1>3. KeyInv'
  <2>1. CASE bucket = <<>>
    BY <1>1, <2>1 DEF KeyInv
  <2>2. CASE bucket # <<>>
    <3>1. PICK t \in 0..Capacity, l \in Nat :
            BucketFull(t, l) /\ l <= tick + MaxSkew /\ l + 2 * Minute <= lapses + MaxSkew
      BY <1>t, <2>2 DEF KeyInv
    <3>2. BucketFull(t, l)' /\ l <= tick' + MaxSkew /\ l + 2 * Minute <= lapses' + MaxSkew
      BY <1>t, <1>1, <3>1 DEF BucketFull
    <3> QED
      BY <3>2 DEF KeyInv
  <2> QED
    BY <2>1, <2>2
<1>4. WaitsInv'
  BY <1>t, <1>1 DEF WaitsInv
<1>5. /\ AdmittedInv' /\ BurstsAreBounded' /\ Admitted' = Admitted
      /\ \A i \in 1..Admitted : \A t \in Nat, l \in Nat : SpentBy(i, t, l)' <=> SpentBy(i, t, l)
  <2>1. tick' \in Nat /\ tick <= tick' /\ \A q \in Request : waits'[q].state = "granted" <=> waits[q].state = "granted"
    BY <1>t, <1>1
  <2> QED
    BY <1>1, <1>4, <2>1, AdmittedStays
<1>6. SpentInv'
  <2> SUFFICES ASSUME NEW i \in 1..Admitted
      PROVE  /\ \A t \in Nat, l \in Nat : BucketFull(t, l)' => SpentBy(i, t, l)'
             /\ bucket' = <<>> => SpentBy(i, Capacity, tick)'
    BY <1>5 DEF SpentInv
  <2>1. ASSUME NEW t \in Nat, NEW l \in Nat, BucketFull(t, l)' PROVE SpentBy(i, t, l)'
    <3>1. BucketFull(t, l)
      BY <1>1, <2>1 DEF BucketFull
    <3> QED
      BY <1>t, <1>5, <3>1 DEF SpentInv
  <2>2. ASSUME bucket' = <<>> PROVE SpentBy(i, Capacity, tick)'
    <3>1. PICK m \in Nat : m = tick + 1 /\ m = tick' /\ tick <= m
      BY <1>t, <1>1
    <3>2. SpentBy(i, Capacity, tick)
      BY <1>t, <1>1, <2>2 DEF SpentInv
    <3>3. PICK k \in Nat : k = tick
      BY <1>t
    <3>4. SpentBy(i, Capacity, m)
      BY <1>t, <3>1, <3>2, <3>3, SpentLater
    <3>5. SpentBy(i, Capacity, m)'
      BY <1>t, <1>5, <3>4
    <3> QED
      BY <3>1, <3>5 DEF SpentBy
  <2> QED
    BY <2>1, <2>2
<1>7. PromiseInv'
  BY <1>t, <1>1, <1>5 DEF PromiseInv, BucketFull
<1> QED
  BY <1>2, <1>3, <1>4, <1>5, <1>6, <1>7 DEF BucketInv

\* A key expires no earlier than a bucket takes to fill.
LEMMA ExpireKeeps == ASSUME MaxSkew <= Minute, BucketInv, ExpireBucket PROVE BucketInv'
<1>t. /\ TimesInv /\ KeyInv /\ WaitsInv /\ AdmittedInv /\ SpentInv /\ PromiseInv
      /\ tick \in Nat /\ lapses \in Nat /\ MaxSkew \in Nat /\ Capacity \in Nat /\ Minute \in Nat /\ MaxTick \in Nat
      /\ Capacity <= Refill * Minute
  BY BucketAssumption, CapacityIs DEF BucketInv, TimesInv
<1>1. /\ bucket # <<>> /\ tick >= lapses /\ bucket' = <<>>
      /\ tick' = tick /\ lapses' = lapses /\ waits' = waits /\ admissions' = admissions
  BY DEF ExpireBucket
<1>2. TimesInv' /\ KeyInv' /\ WaitsInv'
  BY <1>t, <1>1 DEF TimesInv, KeyInv, WaitsInv
<1>3. /\ AdmittedInv' /\ BurstsAreBounded' /\ Admitted' = Admitted
      /\ \A i \in 1..Admitted : \A t \in Nat, l \in Nat : SpentBy(i, t, l)' <=> SpentBy(i, t, l)
  <2>1. tick' \in Nat /\ tick <= tick' /\ \A q \in Request : waits'[q].state = "granted" <=> waits[q].state = "granted"
    BY <1>t, <1>1
  <2> QED
    BY <1>1, <1>2, <2>1, AdmittedStays
<1>4. \A t, l : ~BucketFull(t, l)'
  BY <1>1 DEF BucketFull
<1>5. SpentInv'
  <2> SUFFICES ASSUME NEW i \in 1..Admitted PROVE SpentBy(i, Capacity, tick)'
    BY <1>3, <1>4 DEF SpentInv
  <2>1. PICK t \in 0..Capacity, l \in Nat : BucketFull(t, l) /\ l + 2 * Minute <= lapses + MaxSkew
    BY <1>t, <1>1 DEF KeyInv
  <2>2. SpentBy(i, t, l) /\ t \in Nat
    BY <1>t, <2>1 DEF SpentInv
  <2>3. PICK a \in Nat, g \in Nat : a = admissions[i].at /\ g = GrantedBetween(i, Admitted)
    BY <1>t, Grants
  <2>4. g = 0 \/ g + t <= Capacity + Refill * (l - a)
    BY <2>2, <2>3 DEF SpentBy
  <2>5. (l - a) + Minute <= tick - a /\ l - a \in Int /\ tick - a \in Int
    BY <1>t, <1>1, <2>1
  <2>6. /\ Refill * ((l - a) + Minute) <= Refill * (tick - a)
        /\ Refill * ((l - a) + Minute) = Refill * (l - a) + Refill * Minute
        /\ Refill * (l - a) \in Int /\ Refill * Minute \in Int /\ Refill * (tick - a) \in Int
    <3>1. Minute \in Int /\ (l - a) + Minute \in Int
      BY <1>t
    <3> QED
      BY <2>5, <3>1, Flows
  <2>7. g = 0 \/ g + Capacity <= Capacity + Refill * (tick - a)
    BY <1>t, <2>2, <2>4, <2>6
  <2>8. SpentBy(i, Capacity, tick)
    BY <2>3, <2>7 DEF SpentBy
  <2>9. PICK k \in Nat : k = tick /\ k = tick'
    BY <1>t, <1>1
  <2>10. SpentBy(i, Capacity, k)'
    BY <1>t, <1>3, <2>8, <2>9
  <2> QED
    BY <2>9, <2>10 DEF SpentBy
<1>6. PromiseInv'
  BY <1>t, <1>1, <1>3, <1>4 DEF PromiseInv
<1> QED
  BY <1>2, <1>3, <1>5, <1>6 DEF BucketInv

\* Who leaves takes nothing, and was promised nothing any more.
LEMMA LeaveKeeps ==
  ASSUME BucketInv, UNCHANGED <<tick, bucket, lapses, admissions>>,
         waits' = waits \/
         \E q \in Request : waits[q].state = "waiting" /\ Stands(q, "left", 0, 0, 0, 0)
  PROVE  BucketInv' /\ HintIsEnough
<1>t. /\ TimesInv /\ KeyInv /\ WaitsInv /\ AdmittedInv /\ SpentInv /\ PromiseInv /\ tick \in Nat
  BY BucketAssumption DEF BucketInv, TimesInv
<1>1. WaitsInv' /\ \A o \in Request : waits'[o] = waits[o] \/ (waits[o].state = "waiting" /\ waits'[o].state = "left")
  <2>1. CASE waits' = waits
    BY <1>t, <2>1 DEF WaitsInv
  <2>2. CASE waits' # waits
    <3>1. PICK q \in Request : waits[q].state = "waiting" /\ Stands(q, "left", 0, 0, 0, 0)
      BY <2>2
    <3>2. PICK c \in 1..Capacity : c = waits[q].cost
      BY <1>t DEF WaitsInv
    <3>3. waits' = [waits EXCEPT ![q] = [cost |-> c, state |-> "left", retryAt |-> 0, asked |-> 0, hint |-> 0, seen |-> 0]]
      BY <3>1, <3>2 DEF Stands
    <3>4. [cost |-> c, state |-> "left", retryAt |-> 0, asked |-> 0, hint |-> 0, seen |-> 0]
            \in [cost : 1..Capacity, state : Asking, retryAt : Nat, asked : Nat, hint : Nat, seen : Nat]
      BY DEF Asking
    <3>5. WaitsInv'
      BY <1>t, <3>3, <3>4 DEF WaitsInv
    <3>6. waits'[q].state = "left" /\ \A o \in Request : o # q => waits'[o] = waits[o]
      BY <1>t, <3>3 DEF WaitsInv
    <3> QED
      BY <3>1, <3>5, <3>6
  <2> QED
    BY <2>1, <2>2
<1>2. TimesInv' /\ KeyInv'
  BY <1>t DEF TimesInv, KeyInv, BucketFull
<1>3. /\ AdmittedInv' /\ BurstsAreBounded' /\ Admitted' = Admitted
      /\ \A i \in 1..Admitted : \A t \in Nat, l \in Nat : SpentBy(i, t, l)' <=> SpentBy(i, t, l)
  <2>1. tick' \in Nat /\ tick <= tick' /\ \A q \in Request : waits'[q].state = "granted" <=> waits[q].state = "granted"
    BY <1>t, <1>1
  <2> QED
    BY <1>1, <2>1, AdmittedStays
<1>4. SpentInv'
  BY <1>t, <1>3 DEF SpentInv, BucketFull, SpentBy, GrantedBetween, Costs
<1>5. PromiseInv'
  <2> SUFFICES ASSUME NEW o \in Request, waits'[o].state = "waiting"
      PROVE  /\ waits'[o].seen <= Admitted
             /\ waits'[o].seen = Admitted =>
                  \A t \in Nat, l \in Nat :
                    BucketFull(t, l) => ComesBy(t, l, waits'[o].cost, waits'[o].asked + waits'[o].hint)
    BY <1>3 DEF PromiseInv, BucketFull, ComesBy
  <2>1. waits'[o] = waits[o]
    BY <1>1
  <2> QED
    BY <1>t, <2>1 DEF PromiseInv
<1>6. HintIsEnough
  BY <1>1 DEF HintIsEnough
<1> QED
  BY <1>1, <1>2, <1>3, <1>4, <1>5, <1>6 DEF BucketInv

\* At first nobody has asked.
LEMMA BucketBegins == BucketInit => BucketInv
<1> SUFFICES ASSUME BucketInit PROVE BucketInv
  OBVIOUS
<1>t. Capacity \in Nat \ {0} /\ MaxSkew \in Nat /\ Minute \in Nat /\ MaxTick \in Nat
  BY CapacityIs, BucketAssumption
<1>1. tick = 0 /\ bucket = <<>> /\ lapses = 0 /\ admissions = <<>>
  BY DEF BucketInit
<1>2. PICK cost \in [Request -> {Least(c, Capacity) : c \in Cost}] :
        waits = [q \in Request |-> [cost |-> cost[q], state |-> "new", retryAt |-> 0,
                                    asked |-> 0, hint |-> 0, seen |-> 0]]
  BY DEF BucketInit
<1>3. \A q \in Request : cost[q] \in 1..Capacity
  <2>1. \A c \in Cost : Least(c, Capacity) \in 1..Capacity
    BY <1>t, BucketAssumption DEF Least
  <2> QED
    BY <2>1
<1>4. WaitsInv
  BY <1>2, <1>3 DEF WaitsInv, Asking
<1>5. TimesInv /\ KeyInv
  BY <1>t, <1>1 DEF TimesInv, KeyInv
<1>6. Admitted = 0 /\ admissions \in Seq([at : Nat, cost : Nat, metered : BOOLEAN])
  BY <1>1 DEF Admitted
<1>7. AdmittedInv
  <2>1. {q \in Request : waits[q].state = "granted"} = {}
    BY <1>2
  <2>2. Cardinality({q \in Request : waits[q].state = "granted"}) = 0
    BY <2>1, FS_EmptySet
  <2> QED
    BY <1>6, <2>2 DEF AdmittedInv
<1>8. SpentInv /\ BurstsAreBounded
  BY <1>6 DEF SpentInv, BurstsAreBounded, Admitted
<1>9. PromiseInv
  BY <1>2 DEF PromiseInv
<1> QED
  BY <1>4, <1>5, <1>7, <1>8, <1>9 DEF BucketInv

\* The invariant has the types.
LEMMA BucketIsTyped == BucketInv => BucketTypeOK
<1> SUFFICES ASSUME BucketInv PROVE BucketTypeOK
  OBVIOUS
<1>t. /\ TimesInv /\ KeyInv /\ WaitsInv /\ AdmittedInv /\ tick \in Nat /\ tick <= MaxTick
      /\ MaxSkew \in Nat /\ Capacity \in Nat /\ MaxTick \in Nat
  BY BucketAssumption, CapacityIs DEF BucketInv, TimesInv
<1>1. /\ Len(bucket) \in 0..1
      /\ \A i \in 1..Len(bucket) : bucket[i].tokens \in 0..Capacity /\ bucket[i].last \in 0..(MaxTick + MaxSkew)
  <2>1. CASE bucket = <<>>
    BY <2>1
  <2>2. CASE bucket # <<>>
    <3>1. PICK t \in 0..Capacity, l \in Nat : BucketFull(t, l) /\ l <= tick + MaxSkew
      BY <1>t, <2>2 DEF KeyInv
    <3>2. Len(bucket) = 1 /\ bucket[1].tokens = t /\ bucket[1].last = l
      BY <3>1 DEF BucketFull
    <3>3. l \in 0..(MaxTick + MaxSkew)
      BY <1>t, <3>1
    <3>4. \A i \in 1..1 : i = 1
      OBVIOUS
    <3> QED
      BY <3>2, <3>3, <3>4
  <2> QED
    BY <2>1, <2>2
<1>2. \A q \in Request : waits[q].state \in Asking /\ waits[q].cost \in 1..Capacity
  BY <1>t DEF WaitsInv
<1> QED
  BY <1>t, <1>1, <1>2 DEF BucketTypeOK, TimesInv, AdmittedInv, Admitted

\* model_runtime.go: with clocks that are at most a minute apart, the bucket of a
\* model grants no more than it holds and than flows in, across its expiry and
\* whatever is admitted beside it without Redis, and a request that waited as it was
\* told is refused only because others were admitted.
THEOREM BucketHoldsAlways ==
  ASSUME MaxSkew <= Minute
  PROVE  BucketSpec => []BucketTypeOK /\ BucketHolds
<1>1. BucketInv /\ [BucketNext]_bucketVars => BucketInv' /\ HintIsEnough
  <2> SUFFICES ASSUME BucketInv, [BucketNext]_bucketVars PROVE BucketInv' /\ HintIsEnough
    OBVIOUS
  <2>1. CASE TickBucket
    <3>1. HintIsEnough
      BY <2>1 DEF TickBucket, HintIsEnough
    <3> QED
      BY <2>1, <3>1, TickKeeps
  <2>2. CASE ExpireBucket
    <3>1. HintIsEnough
      BY <2>2 DEF ExpireBucket, HintIsEnough
    <3> QED
      BY <2>2, <3>1, ExpireKeeps
  <2>3. ASSUME NEW q \in Request, Attempt(q) PROVE BucketInv' /\ HintIsEnough
    BY <2>3, AttemptKeeps
  <2>4. ASSUME NEW q \in Request, AdmitUnmetered(q) PROVE BucketInv' /\ HintIsEnough
    BY <2>4, UnmeteredKeeps
  <2>5. ASSUME NEW q \in Request, LeaveBucket(q) PROVE BucketInv' /\ HintIsEnough
    BY <2>5, LeaveKeeps DEF LeaveBucket
  <2>6. CASE UNCHANGED bucketVars
    BY <2>6, LeaveKeeps DEF bucketVars
  <2> QED
    BY <2>1, <2>2, <2>3, <2>4, <2>5, <2>6 DEF BucketNext
<1>2. BucketInv => BurstsAreBounded
  BY DEF BucketInv
<1> QED
  BY <1>1, <1>2, BucketBegins, BucketIsTyped, PTL DEF BucketSpec, BucketHolds

-----------------------------------------------------------------------------
(* The trust boundary of a research request.                              *)

SourceRead == [from: Origin, text: Text]

\* How far the request is tells what it holds: nothing is kept and the model is
\* not asked before the sources are verified, and until the selection there are
\* only the named pages, which were read.
StageInv ==
  /\ progress \in {"received", "direct", "searching", "reading", "failed"} => kept = {} /\ completions = 0
  /\ progress \in {"received", "direct", "searching"} =>
       \A p \in DOMAIN picked : picked[p] = [from |-> "direct", text |-> "relevant"]
  /\ progress = "received" => ~wish.useWeb
  /\ progress = "enriched" => completions = 0
  /\ progress = "asked" => completions = 1
  /\ progress \in {"received", "direct", "searching", "reading", "enriched", "asked"} => answer = "none"

\* The pages of communities are not fetched, so none of them is off topic.
SourcesInv ==
  /\ picked = [p \in DOMAIN picked |-> picked[p]]
  /\ \A p \in DOMAIN picked : picked[p].from = "social" => picked[p].text = "none"

PipelineInv == PipelineTypeOK /\ StageInv /\ SourcesInv /\ EvidenceComesFirst

-----------------------------------------------------------------------------

\* The invariant holds in the beginning.
LEMMA InitiallyPipelineInv == PipelineInit => PipelineInv
<1> SUFFICES ASSUME PipelineInit PROVE PipelineInv
  OBVIOUS
<1>1. /\ progress = "received" /\ wish = [useWeb |-> FALSE, deep |-> FALSE, stream |-> FALSE]
      /\ searched = 0 /\ found = {} /\ kept = {} /\ completions = 0 /\ answer = "none"
  BY DEF PipelineInit, NoWish
<1>2. picked = [p \in DOMAIN picked |-> picked[p]] /\ DOMAIN picked = {}
  BY DEF PipelineInit, NoPicks
<1>3. PipelineTypeOK
  BY <1>1, <1>2, PipelineAssumption DEF PipelineTypeOK
<1>4. StageInv /\ SourcesInv
  BY <1>1, <1>2 DEF StageInv, SourcesInv
<1>5. EvidenceComesFirst
  BY <1>1 DEF EvidenceComesFirst, FailsClosed, CitedWasVerified, AnswersAreGrounded, Used
<1> QED
  BY <1>3, <1>4, <1>5 DEF PipelineInv

\* contextualResearchPlan decides; the pages come later.
LEMMA DecisionKeeps == PipelineInv /\ DecideOnWeb => PipelineInv'
<1> SUFFICES ASSUME PipelineInv, DecideOnWeb PROVE PipelineInv'
  OBVIOUS
<1> USE DEF PipelineInv
<1>1. PICK useWeb \in BOOLEAN, deep \in BOOLEAN, stream \in BOOLEAN :
        /\ wish' = [useWeb |-> useWeb, deep |-> deep, stream |-> stream]
        /\ progress' = IF useWeb THEN "direct" ELSE "enriched"
  <2>1. PICK mode \in {"off", "auto", "web"}, suggests \in BOOLEAN, suppressed \in BOOLEAN, followUp \in BOOLEAN,
             empty \in BOOLEAN, deep \in BOOLEAN, stream \in BOOLEAN :
          /\ wish' = [useWeb |-> DecidesForWeb(mode, suggests, suppressed, followUp) /\ ~empty,
                      deep |-> deep, stream |-> stream]
          /\ progress' = IF DecidesForWeb(mode, suggests, suppressed, followUp) /\ ~empty THEN "direct" ELSE "enriched"
    BY Zenon DEF DecideOnWeb
  <2>2. (DecidesForWeb(mode, suggests, suppressed, followUp) /\ ~empty) \in BOOLEAN
    BY Zenon DEF DecidesForWeb
  <2> QED
    BY <2>1, <2>2, Zenon
<1>2. UNCHANGED <<searched, found, picked, kept, completions, answer>> /\ progress = "received"
  BY DEF DecideOnWeb
<1>3. PipelineTypeOK'
  BY <1>1, <1>2 DEF PipelineTypeOK
<1>4. StageInv' /\ SourcesInv'
  BY <1>1, <1>2 DEF StageInv, SourcesInv
<1>5. EvidenceComesFirst'
  BY <1>1, <1>2 DEF StageInv, EvidenceComesFirst, FailsClosed, CitedWasVerified, AnswersAreGrounded, Used
<1> QED
  BY <1>3, <1>4, <1>5

\* webResearchWithPreferences reads what the user named.
LEMMA NamedPagesKeep == PipelineInv /\ ReadNamedPages => PipelineInv'
<1> SUFFICES ASSUME PipelineInv, ReadNamedPages PROVE PipelineInv'
  OBVIOUS
<1> USE DEF PipelineInv
<1>1. PICK read \in SUBSET Page, configured \in BOOLEAN :
        /\ picked' = [p \in read |-> [from |-> "direct", text |-> "relevant"]]
        /\ \/ read # {} /\ Result(read)
           \/ FailClosed
           \/ progress' = "searching" /\ UNCHANGED <<kept, answer>>
  BY DEF ReadNamedPages
<1>2. UNCHANGED <<wish, searched, found, completions>> /\ progress = "direct"
  BY DEF ReadNamedPages
<1>3. /\ DOMAIN picked' = read
      /\ \A p \in read : picked'[p] = [from |-> "direct", text |-> "relevant"]
  BY <1>1
<1>4. /\ DOMAIN picked' \subseteq Page /\ kept' \subseteq DOMAIN picked'
      /\ \A p \in DOMAIN picked' : picked'[p] \in SourceRead
  BY <1>1, <1>2, <1>3 DEF SourceRead, Origin, Text, StageInv, Result, FailClosed
<1>5. PipelineTypeOK'
  BY <1>1, <1>2, <1>4 DEF PipelineTypeOK, SourceRead, Result, FailClosed
<1>6. StageInv' /\ SourcesInv'
  BY <1>1, <1>2, <1>3 DEF StageInv, SourcesInv, Result, FailClosed
<1>7. EvidenceComesFirst'
  BY <1>1, <1>2, <1>3 DEF StageInv, EvidenceComesFirst, FailsClosed, CitedWasVerified, AnswersAreGrounded, Used, Result, FailClosed
<1> QED
  BY <1>5, <1>6, <1>7

\* A query adds pages to what was found and touches nothing else.
LEMMA SearchKeeps == PipelineInv /\ Search => PipelineInv'
<1> SUFFICES ASSUME PipelineInv, Search PROVE PipelineInv'
  OBVIOUS
<1> USE DEF PipelineInv
<1>1. /\ UNCHANGED <<progress, wish, picked, kept, completions, answer>>
      /\ searched' = searched + 1 /\ searched < MaxQueries
      /\ \E rows \in SUBSET Page : found' = found \cup rows
  BY DEF Search
<1>2. PipelineTypeOK'
  BY <1>1, PipelineAssumption DEF PipelineTypeOK
<1>3. StageInv' /\ SourcesInv' /\ EvidenceComesFirst'
  BY <1>1 DEF StageInv, SourcesInv, EvidenceComesFirst, FailsClosed, CitedWasVerified, AnswersAreGrounded, Used
<1> QED
  BY <1>2, <1>3

\* Without rows the named pages are the sources, or there are none.
LEMMA NothingFoundKeeps == PipelineInv /\ NothingFound => PipelineInv'
<1> SUFFICES ASSUME PipelineInv, NothingFound PROVE PipelineInv'
  OBVIOUS
<1> USE DEF PipelineInv
<1>1. /\ UNCHANGED <<wish, searched, found, picked, completions>> /\ progress = "searching"
      /\ \/ DOMAIN picked # {} /\ Result(DOMAIN picked)
         \/ FailClosed
  BY DEF NothingFound
<1>2. \A p \in DOMAIN picked : picked[p] = [from |-> "direct", text |-> "relevant"]
  BY <1>1 DEF StageInv
<1>3. PipelineTypeOK' /\ StageInv' /\ SourcesInv'
  BY <1>1 DEF PipelineTypeOK, StageInv, SourcesInv, Result, FailClosed
<1>4. EvidenceComesFirst'
  BY <1>1, <1>2 DEF StageInv, EvidenceComesFirst, FailsClosed, CitedWasVerified, AnswersAreGrounded, Used, Result, FailClosed
<1> QED
  BY <1>3, <1>4

\* The rows of quality are selected and the first of them are being fetched.
LEMMA SelectKeeps == PipelineInv /\ Select => PipelineInv'
<1> SUFFICES ASSUME PipelineInv, Select PROVE PipelineInv'
  OBVIOUS
<1> USE DEF PipelineInv
<1>1. PICK official \in SUBSET (Page \ DOMAIN picked), rows \in SUBSET (found \ DOMAIN picked) :
        /\ \E social \in SUBSET (rows \ official) : \E fetch \in SUBSET (rows \ (official \cup social)) :
             /\ Cardinality(fetch) = IF Cardinality(rows \ (official \cup social)) < FetchPages
                                     THEN Cardinality(rows \ (official \cup social)) ELSE FetchPages
             /\ picked' = [p \in DOMAIN picked \cup official \cup rows |->
                             IF p \in DOMAIN picked THEN picked[p]
                             ELSE IF p \in official THEN [from |-> "official", text |-> "relevant"]
                             ELSE [from |-> IF p \in social THEN "social" ELSE "web",
                                   text |-> IF p \in fetch THEN "fetching" ELSE "none"]]
        /\ IF DOMAIN picked \cup official \cup rows = {} THEN FailClosed
           ELSE progress' = "reading" /\ UNCHANGED <<kept, answer>>
  BY Zenon DEF Select
<1>2. PICK social \in SUBSET (rows \ official) : \E fetch \in SUBSET (rows \ (official \cup social)) :
        picked' = [p \in DOMAIN picked \cup official \cup rows |->
                     IF p \in DOMAIN picked THEN picked[p]
                     ELSE IF p \in official THEN [from |-> "official", text |-> "relevant"]
                     ELSE [from |-> IF p \in social THEN "social" ELSE "web",
                           text |-> IF p \in fetch THEN "fetching" ELSE "none"]]
  BY <1>1
<1>3. PICK fetch \in SUBSET (rows \ (official \cup social)) :
        picked' = [p \in DOMAIN picked \cup official \cup rows |->
                     IF p \in DOMAIN picked THEN picked[p]
                     ELSE IF p \in official THEN [from |-> "official", text |-> "relevant"]
                     ELSE [from |-> IF p \in social THEN "social" ELSE "web",
                           text |-> IF p \in fetch THEN "fetching" ELSE "none"]]
  BY <1>2
<1>4. /\ UNCHANGED <<wish, searched, found, completions>> /\ progress = "searching"
      /\ progress' \in {"reading", "failed"} /\ UNCHANGED kept /\ kept = {}
      /\ progress' = "reading" => answer' = answer
      /\ progress' = "failed" => answer' = "error"
  BY <1>1 DEF Select, FailClosed, StageInv
<1>5. /\ DOMAIN picked' \subseteq Page
      /\ picked' = [p \in DOMAIN picked' |-> picked'[p]]
  BY <1>1, <1>3 DEF PipelineTypeOK
<1>6. ASSUME NEW p \in DOMAIN picked'
      PROVE  picked'[p] \in [from: Origin, text: Text] /\ (picked'[p].from = "social" => picked'[p].text = "none")
  <2>1. CASE p \in DOMAIN picked
    <3>1. picked'[p] = [from |-> "direct", text |-> "relevant"]
      BY <1>3, <1>4, <2>1 DEF StageInv
    <3> QED
      BY <3>1 DEF Origin, Text
  <2>2. CASE p \notin DOMAIN picked /\ p \in official
    <3>1. picked'[p] = [from |-> "official", text |-> "relevant"]
      BY <1>3, <2>2
    <3> QED
      BY <3>1 DEF Origin, Text
  <2>3. CASE p \notin DOMAIN picked /\ p \notin official
    <3>1. picked'[p] = [from |-> IF p \in social THEN "social" ELSE "web",
                        text |-> IF p \in fetch THEN "fetching" ELSE "none"]
      BY <1>3, <2>3
    <3>2. ~(p \in social /\ p \in fetch)
      BY <1>3
    <3> QED
      BY <3>1, <3>2 DEF Origin, Text
  <2> QED
    BY <2>1, <2>2, <2>3
<1>7. PipelineTypeOK'
  BY <1>4, <1>5, <1>6 DEF PipelineTypeOK
<1>8. StageInv' /\ SourcesInv'
  BY <1>4, <1>5, <1>6 DEF StageInv, SourcesInv
<1>9. EvidenceComesFirst'
  BY <1>4 DEF StageInv, EvidenceComesFirst, FailsClosed, CitedWasVerified, AnswersAreGrounded, Used
<1> QED
  BY <1>7, <1>8, <1>9

\* The page a goroutine is fetching is none of the sources kept.
LEMMA FetchedKeeps == ASSUME NEW p \in Page, PipelineInv, Fetched(p) PROVE PipelineInv'
<1> USE DEF PipelineInv
<1>1. PICK text \in {"none", "relevant", "irrelevant"} : picked' = [picked EXCEPT ![p].text = text]
  BY DEF Fetched
<1>2. /\ UNCHANGED <<progress, wish, searched, found, kept, completions, answer>>
      /\ p \in DOMAIN picked /\ picked[p].text = "fetching"
  BY DEF Fetched
<1>3. picked[p] \in [from: Origin, text: Text] /\ picked[p].from # "social"
  BY <1>2 DEF PipelineTypeOK, SourcesInv
<1>4. /\ DOMAIN picked' = DOMAIN picked
      /\ picked' = [q \in DOMAIN picked' |-> picked'[q]]
      /\ picked'[p] = [from |-> picked[p].from, text |-> text]
      /\ \A q \in DOMAIN picked \ {p} : picked'[q] = picked[q]
  BY <1>1, <1>2, <1>3
<1>5. p \notin kept
  BY <1>2 DEF EvidenceComesFirst, CitedWasVerified
<1>6. progress \notin {"received", "direct", "searching"}
  BY <1>2 DEF StageInv
<1>7. PipelineTypeOK'
  <2>1. \A q \in DOMAIN picked' : picked'[q] \in [from: Origin, text: Text]
    BY <1>3, <1>4 DEF PipelineTypeOK, Text
  <2> QED
    BY <1>2, <1>4, <2>1 DEF PipelineTypeOK
<1>8. StageInv'
  BY <1>2, <1>6 DEF StageInv
<1>9. SourcesInv'
  BY <1>3, <1>4 DEF SourcesInv
<1>10. EvidenceComesFirst'
  BY <1>2, <1>4, <1>5 DEF PipelineTypeOK, EvidenceComesFirst, FailsClosed, CitedWasVerified, AnswersAreGrounded, Used
<1> QED
  BY <1>7, <1>8, <1>9, <1>10

\* Every fetch is over, so what is kept was read or keeps its snippet.
LEMMA VerifyKeeps == PipelineInv /\ Verify => PipelineInv'
<1> SUFFICES ASSUME PipelineInv, Verify PROVE PipelineInv'
  OBVIOUS
<1> USE DEF PipelineInv
<1>1. PICK weak \in SUBSET {p \in DOMAIN picked : picked[p].from # "direct"} :
        LET verified == {p \in DOMAIN picked : ~OffTopic(p)} \ weak IN
        IF verified = {} THEN FailClosed ELSE Result(verified)
  BY DEF Verify
<1> DEFINE verified == {p \in DOMAIN picked : ~OffTopic(p)} \ weak
<1>2. FailClosed \/ (verified # {} /\ Result(verified))
  BY <1>1
<1>3. UNCHANGED <<wish, searched, found, picked, completions>> /\ progress = "reading" /\ AllFetched
  BY DEF Verify
<1>4. kept = {} /\ completions = 0 /\ answer = "none"
  BY <1>3 DEF StageInv
<1>5. /\ \A p \in verified : picked[p].text # "fetching"
      /\ \A p \in verified : picked[p].from # "direct" => picked[p].text # "irrelevant"
  BY <1>3 DEF AllFetched, OffTopic, PipelineTypeOK, SourcesInv, Origin
<1>6. verified \subseteq DOMAIN picked
  OBVIOUS
<1> HIDE DEF verified
<1>7. PipelineTypeOK'
  BY <1>2, <1>3, <1>4, <1>6 DEF PipelineTypeOK, Result, FailClosed
<1>8. StageInv' /\ SourcesInv'
  BY <1>2, <1>3, <1>4 DEF StageInv, SourcesInv, Result, FailClosed
<1>9. EvidenceComesFirst'
  BY <1>2, <1>3, <1>4, <1>5 DEF EvidenceComesFirst, FailsClosed, CitedWasVerified, AnswersAreGrounded, Used, Result, FailClosed
<1> QED
  BY <1>7, <1>8, <1>9

\* The first answer of a researched request goes out only when it is supported.
LEMMA CompleteKeeps == PipelineInv /\ Complete => PipelineInv'
<1> SUFFICES ASSUME PipelineInv, Complete PROVE PipelineInv'
  OBVIOUS
<1> USE DEF PipelineInv
<1>1. UNCHANGED <<wish, searched, found, picked, kept>> /\ progress = "enriched" /\ completions = 0 /\ answer = "none"
  BY DEF Complete, StageInv
<1>2. \/ progress' = "done" /\ answer' = "error" /\ completions' = 0
      \/ progress' = "done" /\ answer' = "supported" /\ completions' = 1
      \/ progress' = "done" /\ answer' = "unsupported" /\ ~Used /\ completions' = 1
      \/ progress' = "asked" /\ answer' = "none" /\ completions' = 1
  BY <1>1 DEF Complete, Deliver, Streams, Supported
<1>3. PipelineTypeOK'
  BY <1>1, <1>2 DEF PipelineTypeOK
<1>4. StageInv' /\ SourcesInv'
  BY <1>1, <1>2 DEF StageInv, SourcesInv
<1>5. EvidenceComesFirst'
  BY <1>1, <1>2 DEF EvidenceComesFirst, FailsClosed, CitedWasVerified, AnswersAreGrounded, Used
<1> QED
  BY <1>3, <1>4, <1>5

\* After the retry the client gets a supported answer or the sources.
LEMMA RetryKeeps == PipelineInv /\ Retry => PipelineInv'
<1> SUFFICES ASSUME PipelineInv, Retry PROVE PipelineInv'
  OBVIOUS
<1> USE DEF PipelineInv
<1>1. UNCHANGED <<wish, searched, found, picked, kept>> /\ progress = "asked" /\ completions = 1
  BY DEF Retry, StageInv
<1>2. progress' = "done" /\ answer' \in {"supported", "fallback"} /\ completions' \in {1, 2}
  BY <1>1 DEF Retry, Deliver, Ground
<1>3. PipelineTypeOK'
  BY <1>1, <1>2 DEF PipelineTypeOK
<1>4. StageInv' /\ SourcesInv'
  BY <1>1, <1>2 DEF StageInv, SourcesInv
<1>5. EvidenceComesFirst'
  BY <1>1, <1>2 DEF EvidenceComesFirst, FailsClosed, CitedWasVerified, AnswersAreGrounded, Used
<1> QED
  BY <1>3, <1>4, <1>5

\* And in a step of others.
LEMMA PipelineStutterKeeps == PipelineInv /\ UNCHANGED pipelineVars => PipelineInv'
  BY DEF pipelineVars, PipelineInv, PipelineTypeOK, StageInv, SourcesInv, EvidenceComesFirst, FailsClosed,
         CitedWasVerified, AnswersAreGrounded, Used

-----------------------------------------------------------------------------

\* The invariant of a researched request, of every run of the pipeline.
THEOREM PipelineInvariant == PipelineSpec => []PipelineInv
<1>1. PipelineInit => PipelineInv
  BY InitiallyPipelineInv
<1>2. PipelineInv /\ [PipelineNext]_pipelineVars => PipelineInv'
  BY DecisionKeeps, NamedPagesKeep, SearchKeeps, NothingFoundKeeps, SelectKeeps, FetchedKeeps, VerifyKeeps,
     CompleteKeeps, RetryKeeps, PipelineStutterKeeps DEF PipelineNext
<1> QED
  BY <1>1, <1>2, PTL DEF PipelineSpec

\* Type correctness of the pipeline (research.go: webResearchWithPreferences).
THEOREM PipelineTypeCorrect == PipelineSpec => []PipelineTypeOK
<1>1. PipelineInv => PipelineTypeOK
  BY DEF PipelineInv
<1> QED
  BY <1>1, PipelineInvariant, PTL

\* The trust boundary (research.go:383, research_grounding.go:209): once the web
\* was decided for the model is asked only with sources, every source it is
\* given was verified after its fetch, and the client never gets an answer the
\* sources do not support.
THEOREM EvidenceAlwaysComesFirst == PipelineSpec => []EvidenceComesFirst
<1>1. PipelineInv => EvidenceComesFirst
  BY DEF PipelineInv
<1> QED
  BY <1>1, PipelineInvariant, PTL

-----------------------------------------------------------------------------
(* One lookup.                                                             *)

\* How old rows may get that have passed through the ledger so often.
Span(links) == MaxHold + LastGood + links * (2 * MaxHold + Week + LastGood)

Places == {"look", "ask", "reopen", "remember", "store", "recall", "ledger", "renew", "done", "open", "over"}
Origins == {"nowhere", "google", "cache", "good", "ledger"}
Lookups == [pc: Places, engine: Engine, failed: BOOLEAN, rows: Found \cup {NoRows}, from: Origins,
            since: 0..MaxInstant]

\* A lookup that has rows at one of these places.
HasRows(x, pcs) == x.pc \in pcs /\ x.rows # NoRows

\* Only a failed lookup asks for what was kept; rows on their way are new, or come
\* out of the ledger early enough to be kept; the rows it ends with were not too old
\* when it got them, nor when its request started.
Sound(x) ==
  /\ x.pc \in {"recall", "ledger", "renew"} \/ x.from \in {"good", "ledger"} => x.failed
  /\ x.pc \in {"look", "ask", "recall", "ledger", "over"} => x.rows = NoRows
  /\ x.pc = "open" => x.rows # NoRows
  /\ x.rows # NoRows /\ x.pc # "open" => x.since <= instant /\ instant <= x.since + MaxHold
  /\ HasRows(x, {"reopen", "remember", "store"}) => x.rows.born = x.since /\ x.rows.links = 0
  /\ HasRows(x, {"renew"}) => x.since + MaxHold + LastGood < x.rows.born + Span(x.rows.links)
  /\ HasRows(x, {"done"}) => x.since < x.rows.born + Span(x.rows.links)
  /\ HasRows(x, {"open"}) => x.since < x.rows.born + Span(x.rows.links) + MaxHold

\* Nor are they too old when it ends.
Timely(x) == Sound(x) /\ (HasRows(x, {"done"}) => instant < x.rows.born + Span(x.rows.links))

\* What is kept lapses before it is too old; what is in the ledger was entered for a
\* request that started before.
Keepable(e) == e.rows # NoRows => e.until <= e.rows.born + Span(e.rows.links)
KeptInv ==
  /\ \A e \in Engine : Keepable(rowsOf[e])
  /\ Keepable(good)
  /\ \A x \in evidence : x.at < x.rows.born + Span(x.rows.links) + MaxHold

LookupInv == LookupTypeOK /\ (\A l \in Lookup : Sound(lookup[l])) /\ KeptInv

\* Each passage is worth a week, the life of the last good rows and two holds.
LEMMA SpanGrows ==
  /\ LastGood \in Nat /\ LastGood > 0 /\ Week \in Nat /\ Fresh \in Nat /\ Fresh <= LastGood /\ MaxHold \in Nat
  /\ Span(0) = MaxHold + LastGood
  /\ \A k \in Nat : Span(k) \in Nat /\ Span(k + 1) = Span(k) + 2 * MaxHold + Week + LastGood
<1>1. LastGood \in Nat /\ LastGood > 0 /\ Week \in Nat /\ Fresh \in Nat /\ Fresh <= LastGood /\ MaxHold \in Nat
  BY LookupAssumption
<1>2. \A k, w \in Nat : k * w \in Nat /\ (k + 1) * w = k * w + w /\ 0 * w = 0
  <2> SUFFICES ASSUME NEW k \in Nat, NEW w \in Nat PROVE k * w \in Nat /\ (k + 1) * w = k * w + w /\ 0 * w = 0
    OBVIOUS
  <2>1. k * w \in Nat
    OBVIOUS
  <2>2. (k + 1) * w = k * w + w
    OBVIOUS
  <2>3. 0 * w = 0
    OBVIOUS
  <2> QED
    BY <2>1, <2>2, <2>3
<1>3. PICK w \in Nat : w = 2 * MaxHold + Week + LastGood
  BY <1>1
<1>4. \A k \in Nat : Span(k) = MaxHold + LastGood + k * w
  BY <1>3 DEF Span
<1>5. Span(0) = MaxHold + LastGood
  BY <1>1, <1>2, <1>4
<1>6. ASSUME NEW k \in Nat PROVE Span(k) \in Nat /\ Span(k + 1) = Span(k) + 2 * MaxHold + Week + LastGood
  <2>1. PICK m \in Nat : m = k * w /\ (k + 1) * w = m + w
    BY <1>2
  <2>2. Span(k) = MaxHold + LastGood + m /\ Span(k + 1) = MaxHold + LastGood + (m + w)
    BY <1>4, <2>1
  <2> QED
    BY <1>1, <1>3, <2>2
<1> QED
  BY <1>1, <1>5, <1>6

\* A nonempty set of numbers up to a bound has a greatest one.
LEMMA GreatestNat ==
  ASSUME NEW n \in Nat, NEW T \in SUBSET (0..n), T # {}
  PROVE  \E m \in T : \A k \in T : k <= m
<1> DEFINE U == {n - k : k \in T}
<1>1. U \in SUBSET Nat /\ U # {}
  <2>1. \A k \in T : k \in 0..n /\ n - k \in Nat
    OBVIOUS
  <2>2. \A u \in U : u \in Nat
    BY <2>1
  <2>3. PICK k \in T : TRUE
    OBVIOUS
  <2>4. n - k \in U
    OBVIOUS
  <2> QED
    BY <2>2, <2>4
<1>2. PICK u \in U : \A k \in U : u <= k
  BY <1>1, LeastNat
<1>3. PICK m \in T : u = n - m
  OBVIOUS
<1>4. \A k \in T : n - m <= n - k
  BY <1>2, <1>3
<1> QED
  BY <1>4

\* The ledger's latest entry is one of those that are recent.
LEMMA LatestIsRecent ==
  ASSUME LookupTypeOK, Recent # {}
  PROVE  Latest(Recent) \in Recent
<1>1. Recent \subseteq [rows: Found, at: 0..MaxInstant] /\ MaxInstant \in Nat
  BY LookupAssumption DEF LookupTypeOK, Recent
<1>2. PICK a \in {x.at : x \in Recent} : \A k \in {x.at : x \in Recent} : k <= a
  <2>1. {x.at : x \in Recent} \in SUBSET (0..MaxInstant) /\ {x.at : x \in Recent} # {}
    BY <1>1
  <2> QED
    BY <1>1, <2>1, GreatestNat
<1> DEFINE AtLast == {x \in Recent : x.at = a}
<1>3. PICK b \in {x.rows.born : x \in AtLast} : \A k \in {x.rows.born : x \in AtLast} : k <= b
  <2>1. {x.rows.born : x \in AtLast} \in SUBSET (0..MaxInstant) /\ {x.rows.born : x \in AtLast} # {}
    BY <1>1, <1>2 DEF Found
  <2> QED
    BY <1>1, <2>1, GreatestNat
<1>4. PICK x \in AtLast : x.rows.born = b
  BY <1>3
<1>5. \A y \in Recent : y.at < x.at \/ (y.at = x.at /\ y.rows.born <= x.rows.born)
  <2> SUFFICES ASSUME NEW y \in Recent, ~(y.at < x.at) PROVE y.at = x.at /\ y.rows.born <= x.rows.born
    OBVIOUS
  <2>1. y.at <= a /\ x.at = a /\ y.at \in Nat /\ a \in Nat
    BY <1>1, <1>2, <1>4
  <2>2. y.at = a
    BY <2>1
  <2> QED
    BY <1>3, <1>4, <2>1, <2>2
<1> QED
  BY <1>4, <1>5 DEF Latest

\* The types, and that no rows are rows of their own.
LEMMA LookupTypes ==
  ASSUME LookupTypeOK
  PROVE  /\ instant \in 0..MaxInstant /\ instant \in Nat /\ MaxInstant \in Nat
         /\ \A x \in Found : x # NoRows /\ x.born \in Nat /\ x.links \in Nat /\ Span(x.links) \in Nat
         /\ lookup \in [Lookup -> Lookups]
         /\ \A l \in Lookup : lookup[l] \in Lookups
         /\ \A x \in Lookups : x.since \in Nat /\ (x.rows # NoRows => x.rows \in Found)
         /\ rowsOf \in [Engine -> Entry] /\ bypassed \in [Engine -> Nat] /\ good \in Entry
         /\ \A e \in Entry : e.until \in Nat /\ (e.rows # NoRows => e.rows \in Found)
         /\ \A x \in evidence : x.rows \in Found /\ x.at \in Nat
<1>1. MaxInstant \in Nat /\ MaxLinks \in Nat /\ NoRows \notin [born: Nat, links: Nat]
  BY LookupAssumption
<1>2. instant \in 0..MaxInstant /\ instant \in Nat
  BY <1>1 DEF LookupTypeOK
<1>3. \A x \in Found : x # NoRows /\ x.born \in Nat /\ x.links \in Nat
  BY <1>1 DEF Found
<1>4. lookup \in [Lookup -> Lookups]
  BY DEF LookupTypeOK, Lookups, Places, Origins
<1>5. rowsOf \in [Engine -> Entry] /\ bypassed \in [Engine -> Nat] /\ good \in Entry
  BY DEF LookupTypeOK
<1>6. \A e \in Entry : e.until \in Nat /\ (e.rows # NoRows => e.rows \in Found)
  BY DEF Entry
<1>7. \A x \in evidence : x.rows \in Found /\ x.at \in Nat
  BY <1>1 DEF LookupTypeOK
<1>8. \A x \in Found : Span(x.links) \in Nat
  BY <1>3, SpanGrows
<1>9. \A x \in Lookups : x.since \in Nat /\ (x.rows # NoRows => x.rows \in Found)
  BY <1>1 DEF Lookups
<1> QED
  BY <1>1, <1>2, <1>3, <1>4, <1>5, <1>6, <1>7, <1>8, <1>9

\* Types that a step keeps when it changes a lookup.
LEMMA TypesStay ==
  ASSUME LookupInv, instant' \in 0..MaxInstant, lookup' \in [Lookup -> Lookups],
         rowsOf' \in [Engine -> Entry], bypassed' \in [Engine -> Nat], good' \in Entry,
         evidence' \subseteq [rows: Found, at: 0..MaxInstant]
  PROVE  LookupTypeOK'
BY DEF LookupTypeOK, Lookups, Places, Origins

\* The record of a lookup that goes on.
MovesIs(y, x, pc) == x.pc = pc /\ x.failed = y.failed /\ x.rows = y.rows /\ x.from = y.from /\ x.since = y.since

\* A lookup that goes on keeps what it has.
LEMMA MoveIs ==
  ASSUME LookupInv, NEW l \in Lookup, NEW pc \in Places, Moves(l, pc)
  PROVE  \E x \in Lookups : LookupStep(l, x) /\ MovesIs(lookup[l], x, pc)
<1>0. PICK y \in Lookups : y = lookup[l]
  BY LookupTypes DEF LookupInv
<1> DEFINE x == [y EXCEPT !.pc = pc]
<1>1. LookupStep(l, x)
  BY <1>0 DEF Moves
<1>2. x \in Lookups
  BY <1>0 DEF Lookups
<1>3. MovesIs(y, x, pc)
  BY <1>0 DEF Lookups, MovesIs
<1> QED
  BY <1>0, <1>1, <1>2, <1>3

\* A lookup that gets rows has them from now on.
LEMMA GetIs ==
  ASSUME LookupInv, NEW l \in Lookup, NEW pc \in Places, NEW rows \in Found \cup {NoRows}, NEW from \in Origins,
         Get(l, pc, rows, from)
  PROVE  \E x \in Lookups :
           LookupStep(l, x) /\ x.pc = pc /\ x.failed = lookup[l].failed /\ x.rows = rows /\ x.from = from /\ x.since = instant
<1>0. PICK y \in Lookups : y = lookup[l]
  BY LookupTypes DEF LookupInv
<1>t. instant \in 0..MaxInstant
  BY LookupTypes DEF LookupInv
<1> DEFINE x == [y EXCEPT !.pc = pc, !.rows = rows, !.from = from, !.since = instant]
<1>1. LookupStep(l, x)
  BY <1>0 DEF Get
<1>2. x \in Lookups
  BY <1>0, <1>t DEF Lookups
<1>3. x.pc = pc /\ x.failed = y.failed /\ x.rows = rows /\ x.from = from /\ x.since = instant
  BY <1>0 DEF Lookups
<1> QED
  BY <1>0, <1>1, <1>2, <1>3

\* An engine without rows: the next one, or what is kept if one has failed.
LEMMA GiveWayIsSound ==
  ASSUME LookupInv, NEW l \in Lookup, NEW err \in BOOLEAN, lookup[l].pc \in {"look", "ask", "store"},
         lookup[l].rows = NoRows, GiveWay(l, err)
  PROVE  \E x \in Lookups : Timely(x) /\ LookupStep(l, x)
<1>0. PICK y \in Lookups : y = lookup[l] /\ Sound(y)
  BY LookupTypes DEF LookupInv
<1>1. y.failed \/ err \in BOOLEAN
  BY <1>0 DEF Lookups
<1>2. PICK failed \in BOOLEAN : failed = (y.failed \/ err)
  BY <1>1
<1>3. CASE y.engine = "google"
  <2> DEFINE x == [y EXCEPT !.pc = "look", !.engine = "google cse", !.failed = failed]
  <2>1. LookupStep(l, x)
    BY <1>0, <1>2, <1>3 DEF GiveWay
  <2>2. x \in Lookups
    BY <1>0 DEF Lookups, Engine, Places
  <2>3. x.pc = "look" /\ x.failed = failed /\ x.rows = NoRows /\ x.from = y.from
    BY <1>0 DEF Lookups
  <2> HIDE DEF x
  <2>4. Timely(x)
    BY <1>0, <1>2, <2>3 DEF Timely, Sound, HasRows
  <2> QED
    BY <2>1, <2>2, <2>4
<1>4. CASE y.engine # "google"
  <2> DEFINE x == [y EXCEPT !.pc = IF failed THEN "recall" ELSE "done", !.failed = failed]
  <2>1. LookupStep(l, x)
    BY <1>0, <1>2, <1>4 DEF GiveWay
  <2>2. x \in Lookups
    BY <1>0 DEF Lookups, Places
  <2>3. /\ x.pc = IF failed THEN "recall" ELSE "done"
        /\ x.failed = failed /\ x.rows = NoRows /\ x.from = y.from
    BY <1>0 DEF Lookups
  <2> HIDE DEF x
  <2>4. Timely(x)
    BY <1>0, <1>2, <2>3 DEF Timely, Sound, HasRows
  <2> QED
    BY <2>1, <2>2, <2>4
<1> QED
  BY <1>3, <1>4

\* Rows that are held are not too old.
LEMMA HeldIsYoung ==
  ASSUME LookupInv, NEW e \in Entry, Held(e), e.rows # NoRows, Keepable(e)
  PROVE  instant < e.rows.born + Span(e.rows.links)
<1>1. PICK s \in Nat : s = Span(e.rows.links)
  BY LookupTypes DEF LookupInv
<1>2. instant \in Nat /\ e.until \in Nat /\ e.rows.born \in Nat /\ instant < e.until
  BY LookupTypes DEF LookupInv, Held
<1> QED
  BY <1>1, <1>2 DEF Keepable

\* A lookup that ends with rows that are held, from a cache or from before.
LEMMA EndsWithHeld ==
  ASSUME LookupInv, NEW l \in Lookup, NEW e \in Entry, Held(e), Keepable(e),
         NEW from \in {"cache", "good"}, from = "good" => lookup[l].pc = "recall", Get(l, "done", e.rows, from)
  PROVE  \E x \in Lookups : Timely(x) /\ LookupStep(l, x)
<1>0. Sound(lookup[l]) /\ e.rows \in Found \cup {NoRows} /\ "done" \in Places /\ from \in Origins
  BY DEF LookupInv, Entry, Places, Origins
<1>1. PICK x \in Lookups : /\ LookupStep(l, x) /\ x.pc = "done" /\ x.failed = lookup[l].failed
                          /\ x.rows = e.rows /\ x.from = from /\ x.since = instant
  BY <1>0, GetIs
<1>2. e.rows # NoRows => instant < e.rows.born + Span(e.rows.links)
  BY HeldIsYoung
<1>3. instant \in Nat /\ MaxHold \in Nat
  BY LookupTypes, SpanGrows DEF LookupInv
<1>4. from = "good" => lookup[l].failed
  BY <1>0 DEF Sound
<1>5. Timely(x)
  BY <1>1, <1>2, <1>3, <1>4 DEF Timely, Sound, HasRows
<1> QED
  BY <1>1, <1>5

\* A lookup that moves on soundly disturbs no other.
LEMMA MoveIsSound ==
  ASSUME LookupInv, NEW l \in Lookup, \E x \in Lookups : Timely(x) /\ LookupStep(l, x), UNCHANGED instant
  PROVE  lookup' \in [Lookup -> Lookups] /\ (\A k \in Lookup : Sound(lookup[k]))' /\ AgeIsOfItsLinks
<1>1. PICK x \in Lookups : Timely(x) /\ lookup' = [lookup EXCEPT ![l] = x]
  BY DEF LookupStep
<1>2. lookup \in [Lookup -> Lookups] /\ \A k \in Lookup : Sound(lookup[k])
  BY LookupTypes DEF LookupInv
<1>3. lookup' \in [Lookup -> Lookups]
  BY <1>1, <1>2
<1>4. ASSUME NEW k \in Lookup PROVE Sound(lookup[k])'
  <2>1. PICK y \in Lookups : y = lookup'[k] /\ Sound(y)
    BY <1>1, <1>2 DEF Timely
  <2>2. Sound(y)'
    BY <2>1 DEF Sound, HasRows, Span
  <2> QED
    BY <2>1, <2>2 DEF Sound, HasRows
<1>5. AgeIsOfItsLinks
  <2> SUFFICES ASSUME NEW k \in Lookup, lookup[k].pc # "done", lookup'[k].pc = "done", lookup'[k].rows # NoRows
               PROVE  instant - lookup'[k].rows.born
                        < MaxHold + LastGood + lookup'[k].rows.links * (2 * MaxHold + Week + LastGood)
    BY DEF AgeIsOfItsLinks
  <2>1. lookup'[k] = x
    BY <1>1, <1>2
  <2>2. x.rows \in Found /\ instant < x.rows.born + Span(x.rows.links)
    BY <1>1, <2>1, LookupTypes DEF Timely, HasRows, LookupInv
  <2>3. PICK s \in Nat, b \in Nat : s = Span(x.rows.links) /\ b = x.rows.born
    BY <2>2, LookupTypes DEF LookupInv
  <2>4. instant \in Nat
    BY LookupTypes DEF LookupInv
  <2>5. instant - b < s
    BY <2>2, <2>3, <2>4
  <2> QED
    BY <2>1, <2>3, <2>5 DEF Span
<1> QED
  BY <1>3, <1>4, <1>5

\* What is kept is the same.
LEMMA KeptStays ==
  ASSUME LookupInv, UNCHANGED <<rowsOf, good, evidence>>
  PROVE  KeptInv'
BY DEF LookupInv, KeptInv, Keepable, Span

\* A step of a lookup that keeps nothing.
LEMMA OnlyMoves ==
  ASSUME LookupInv, NEW l \in Lookup, \E x \in Lookups : Timely(x) /\ LookupStep(l, x),
         UNCHANGED <<instant, rowsOf, good, evidence>>, bypassed' \in [Engine -> Nat]
  PROVE  LookupInv' /\ AgeIsOfItsLinks
<1>1. lookup' \in [Lookup -> Lookups] /\ (\A k \in Lookup : Sound(lookup[k]))' /\ AgeIsOfItsLinks
  BY MoveIsSound
<1>2. LookupTypeOK'
  <2>1. instant' \in 0..MaxInstant /\ rowsOf' \in [Engine -> Entry] /\ good' \in Entry
        /\ evidence' \subseteq [rows: Found, at: 0..MaxInstant]
    BY DEF LookupInv, LookupTypeOK
  <2> QED
    BY <1>1, <2>1, TypesStay
<1>3. KeptInv'
  BY KeptStays
<1> QED
  BY <1>1, <1>2, <1>3 DEF LookupInv

\* The reads before an engine is asked.
LEMMA LookKeeps ==
  ASSUME LookupInv, NEW l \in Lookup, Look(l)
  PROVE  LookupInv' /\ AgeIsOfItsLinks
<1>1. PICK y \in Lookups : y = lookup[l] /\ Sound(y) /\ y.pc = "look" /\ y.rows = NoRows
  BY LookupTypes DEF LookupInv, Look, Sound
<1>2. PICK e \in Engine : e = y.engine
  BY <1>1 DEF Lookups
<1>3. PICK stored \in Entry : stored = rowsOf[e] /\ Keepable(stored)
  BY LookupTypes DEF LookupInv, KeptInv
<1>4. \E x \in Lookups : Timely(x) /\ LookupStep(l, x)
  <2>1. CASE Held(stored) /\ Get(l, "done", stored.rows, "cache")
    BY <1>3, <2>1, EndsWithHeld
  <2>2. CASE GiveWay(l, FALSE)
    <3>1. PICK b \in BOOLEAN : b = FALSE
      OBVIOUS
    <3> QED
      BY <1>1, <2>2, <3>1, GiveWayIsSound
  <2>3. CASE GiveWay(l, TRUE)
    <3>1. PICK b \in BOOLEAN : b = TRUE
      OBVIOUS
    <3> QED
      BY <1>1, <2>3, <3>1, GiveWayIsSound
  <2>4. CASE Moves(l, "ask")
    <3>1. PICK x \in Lookups : LookupStep(l, x) /\ MovesIs(y, x, "ask")
      <4>1. "ask" \in Places
        BY DEF Places
      <4> QED
        BY <1>1, <2>4, <4>1, MoveIs
    <3>2. Timely(x)
      BY <1>1, <3>1 DEF Timely, Sound, HasRows, MovesIs
    <3> QED
      BY <3>1, <3>2
  <2> QED
    BY <1>1, <1>2, <1>3, <2>1, <2>2, <2>3, <2>4 DEF Look
<1>5. UNCHANGED <<instant, rowsOf, good, evidence>> /\ bypassed' \in [Engine -> Nat]
  BY LookupTypes DEF Look, LookupInv
<1> QED
  BY <1>4, <1>5, OnlyMoves

\* The engine's answer.
LEMMA AskKeeps ==
  ASSUME LookupInv, NEW l \in Lookup, Ask(l)
  PROVE  LookupInv' /\ AgeIsOfItsLinks
<1>1. PICK y \in Lookups : y = lookup[l] /\ Sound(y) /\ y.pc = "ask" /\ y.rows = NoRows
  BY LookupTypes DEF LookupInv, Ask, Sound
<1>2. PICK e \in Engine : e = y.engine
  BY <1>1 DEF Lookups
<1>3. UNCHANGED <<instant, rowsOf, good, evidence>>
  BY DEF Ask
<1>4. bypassed' \in [Engine -> Nat]
  <2>1. instant + Bypass \in Nat /\ bypassed \in [Engine -> Nat]
    BY LookupTypes, LookupAssumption DEF LookupInv
  <2>2. bypassed' = bypassed \/ bypassed' = [bypassed EXCEPT ![e] = instant + Bypass]
    BY <1>1, <1>2 DEF Ask
  <2> QED
    BY <2>1, <2>2
<1>5. PICK fresh \in Found : fresh = [born |-> instant, links |-> 0] /\ fresh.born = instant /\ fresh.links = 0
  <2>1. instant \in 0..MaxInstant /\ 0 \in 0..MaxLinks
    BY LookupTypes, LookupAssumption DEF LookupInv
  <2>2. [born |-> instant, links |-> 0] \in Found
    BY <2>1 DEF Found
  <2> QED
    BY <2>2
<1>6. instant \in Nat /\ MaxHold \in Nat /\ "reopen" \in Places /\ "store" \in Places /\ "google" \in Origins
  BY LookupTypes, SpanGrows DEF LookupInv, Places, Origins
<1>7. \E x \in Lookups : Timely(x) /\ LookupStep(l, x)
  <2>1. CASE Get(l, "reopen", fresh, "google")
    <3>1. PICK x \in Lookups : /\ LookupStep(l, x) /\ x.pc = "reopen" /\ x.failed = y.failed
                              /\ x.rows = fresh /\ x.from = "google" /\ x.since = instant
      BY <1>1, <1>6, <2>1, GetIs
    <3>2. Timely(x)
      BY <1>5, <1>6, <3>1 DEF Timely, Sound, HasRows
    <3> QED
      BY <3>1, <3>2
  <2>2. CASE Moves(l, "store")
    <3>1. PICK x \in Lookups : LookupStep(l, x) /\ MovesIs(y, x, "store")
      BY <1>1, <1>6, <2>2, MoveIs
    <3>2. Timely(x)
      BY <1>1, <3>1 DEF Timely, Sound, HasRows, MovesIs
    <3> QED
      BY <3>1, <3>2
  <2>3. CASE GiveWay(l, TRUE)
    <3>1. PICK b \in BOOLEAN : b = TRUE
      OBVIOUS
    <3> QED
      BY <1>1, <2>3, <3>1, GiveWayIsSound
  <2> QED
    BY <1>1, <1>5, <2>1, <2>2, <2>3 DEF Ask
<1> QED
  BY <1>3, <1>4, <1>7, OnlyMoves

\* The circuit of an engine that has answered.
LEMMA ReopenKeeps ==
  ASSUME LookupInv, NEW l \in Lookup, Reopen(l)
  PROVE  LookupInv' /\ AgeIsOfItsLinks
<1>1. PICK y \in Lookups : y = lookup[l] /\ Sound(y) /\ y.pc = "reopen"
  BY LookupTypes DEF LookupInv, Reopen
<1>2. Moves(l, "remember") /\ UNCHANGED <<instant, rowsOf, good, evidence>>
  BY DEF Reopen
<1>3. bypassed' \in [Engine -> Nat]
  <2>1. bypassed \in [Engine -> Nat]
    BY LookupTypes DEF LookupInv
  <2>2. bypassed' = bypassed \/ bypassed' = [bypassed EXCEPT ![lookup[l].engine] = 0]
    BY DEF Reopen
  <2> QED
    BY <2>1, <2>2
<1>4. PICK x \in Lookups : LookupStep(l, x) /\ MovesIs(y, x, "remember")
  <2>1. "remember" \in Places
    BY DEF Places
  <2> QED
    BY <1>1, <1>2, <2>1, MoveIs
<1>5. Timely(x)
  BY <1>1, <1>4 DEF Timely, Sound, HasRows, MovesIs
<1> QED
  BY <1>2, <1>3, <1>4, <1>5, OnlyMoves

\* The last good rows, of an engine or of the ledger.
LEMMA SetGoodKeeps ==
  ASSUME LookupInv, NEW l \in Lookup, SetGood(l)
  PROVE  LookupInv' /\ AgeIsOfItsLinks
<1>1. PICK y \in Lookups : y = lookup[l] /\ Sound(y) /\ y.pc \in {"remember", "renew"}
  BY LookupTypes DEF LookupInv, SetGood
<1>2. /\ UNCHANGED <<instant, rowsOf, bypassed, evidence>>
      /\ good' = good \/ good' = [rows |-> y.rows, until |-> instant + LastGood]
  BY <1>1 DEF SetGood
<1>3. /\ instant \in Nat /\ LastGood \in Nat /\ LastGood > 0 /\ MaxHold \in Nat /\ Span(0) = MaxHold + LastGood
      /\ y.since \in Nat /\ y.rows \in Found \cup {NoRows} /\ "store" \in Places /\ "done" \in Places
      /\ good \in Entry /\ Keepable(good)
  BY LookupTypes, SpanGrows DEF LookupInv, Lookups, Places, KeptInv
<1>4. y.rows # NoRows =>
        /\ y.rows.born \in Nat /\ Span(y.rows.links) \in Nat
        /\ instant + LastGood <= y.rows.born + Span(y.rows.links)
  <2> SUFFICES ASSUME y.rows # NoRows
               PROVE  /\ y.rows.born \in Nat /\ Span(y.rows.links) \in Nat
                      /\ instant + LastGood <= y.rows.born + Span(y.rows.links)
    OBVIOUS
  <2>1. PICK s \in Nat, b \in Nat : s = Span(y.rows.links) /\ b = y.rows.born
    BY <1>3, LookupTypes DEF LookupInv
  <2>2. instant <= y.since + MaxHold
    BY <1>1 DEF Sound
  <2>3. (b = y.since /\ s = MaxHold + LastGood) \/ y.since + MaxHold + LastGood < b + s
    <3>1. CASE y.pc = "remember"
      <4>1. y.rows.born = y.since /\ y.rows.links = 0
        BY <1>1, <3>1 DEF Sound, HasRows
      <4> QED
        BY <1>3, <2>1, <4>1
    <3>2. CASE y.pc = "renew"
      <4>1. y.since + MaxHold + LastGood < y.rows.born + Span(y.rows.links)
        BY <1>1, <3>2 DEF Sound, HasRows
      <4> QED
        BY <2>1, <4>1
    <3> QED
      BY <1>1, <3>1, <3>2
  <2>4. instant + LastGood <= b + s
    BY <1>3, <2>2, <2>3
  <2> QED
    BY <2>1, <2>4
<1>5. \E x \in Lookups : Timely(x) /\ LookupStep(l, x)
  <2>1. CASE y.pc = "remember"
    <3>1. PICK x \in Lookups : LookupStep(l, x) /\ MovesIs(y, x, "store")
      BY <1>1, <1>3, <2>1, MoveIs DEF SetGood
    <3>2. Timely(x)
      BY <1>1, <2>1, <3>1 DEF Timely, Sound, HasRows, MovesIs
    <3> QED
      BY <3>1, <3>2
  <2>2. CASE y.pc = "renew"
    <3>1. PICK x \in Lookups : LookupStep(l, x) /\ MovesIs(y, x, "done")
      BY <1>1, <1>3, <2>2, MoveIs DEF SetGood
    <3>2. y.rows # NoRows => /\ instant < y.rows.born + Span(y.rows.links)
                            /\ y.since < y.rows.born + Span(y.rows.links)
      <4> SUFFICES ASSUME y.rows # NoRows
                   PROVE  instant < y.rows.born + Span(y.rows.links) /\ y.since < y.rows.born + Span(y.rows.links)
        OBVIOUS
      <4>1. PICK t \in Nat : t = y.rows.born + Span(y.rows.links)
        BY <1>4
      <4>2. y.since <= instant /\ instant + LastGood <= t
        BY <1>1, <1>4, <2>2, <4>1 DEF Sound
      <4> QED
        BY <1>3, <4>1, <4>2
    <3>3. Timely(x)
      BY <1>1, <2>2, <3>1, <3>2 DEF Timely, Sound, HasRows, MovesIs
    <3> QED
      BY <3>1, <3>3
  <2> QED
    BY <1>1, <2>1, <2>2
<1>6. lookup' \in [Lookup -> Lookups] /\ (\A k \in Lookup : Sound(lookup[k]))' /\ AgeIsOfItsLinks
  BY <1>2, <1>5, MoveIsSound
<1>7. good' \in Entry /\ Keepable(good')
  <2>1. CASE good' = good
    BY <1>3, <2>1
  <2>2. CASE good' = [rows |-> y.rows, until |-> instant + LastGood]
    <3>1. PICK new \in Entry : new = good' /\ new.rows = y.rows /\ new.until = instant + LastGood
      BY <1>3, <2>2 DEF Entry
    <3> QED
      BY <1>4, <3>1 DEF Keepable
  <2> QED
    BY <1>2, <2>1, <2>2
<1>8. LookupTypeOK'
  <2>1. instant' \in 0..MaxInstant /\ rowsOf' \in [Engine -> Entry] /\ bypassed' \in [Engine -> Nat]
        /\ evidence' \subseteq [rows: Found, at: 0..MaxInstant]
    BY <1>2 DEF LookupInv, LookupTypeOK
  <2> QED
    BY <1>6, <1>7, <2>1, TypesStay
<1>9. KeptInv'
  BY <1>2, <1>7 DEF LookupInv, KeptInv, Keepable, Span
<1> QED
  BY <1>6, <1>8, <1>9 DEF LookupInv

\* The rows of an engine, or that it had none.
LEMMA StoreKeeps ==
  ASSUME LookupInv, NEW l \in Lookup, Store(l)
  PROVE  LookupInv' /\ AgeIsOfItsLinks
<1>1. PICK y \in Lookups : y = lookup[l] /\ Sound(y) /\ y.pc = "store"
  BY LookupTypes DEF LookupInv, Store
<1>2. PICK e \in Engine, rows \in Found \cup {NoRows} : e = y.engine /\ rows = y.rows
  BY <1>1 DEF Lookups
<1>3. /\ UNCHANGED <<instant, bypassed, good, evidence>>
      /\ \/ rowsOf' = rowsOf
         \/ rowsOf' = [rowsOf EXCEPT ![e] = [rows |-> rows, until |-> instant + IF rows = NoRows THEN 1 ELSE Fresh]]
      /\ IF rows = NoRows THEN GiveWay(l, FALSE) ELSE Moves(l, "done")
  BY <1>1, <1>2 DEF Store
<1>4. /\ instant \in Nat /\ Fresh \in Nat /\ Fresh <= LastGood /\ LastGood \in Nat /\ LastGood > 0 /\ MaxHold \in Nat
      /\ Span(0) = MaxHold + LastGood /\ y.since \in Nat /\ rowsOf \in [Engine -> Entry] /\ "done" \in Places
      /\ \A f \in Engine : Keepable(rowsOf[f])
  BY LookupTypes, SpanGrows DEF LookupInv, KeptInv, Places
<1>5. rows # NoRows =>
        /\ rows.born = y.since /\ rows.links = 0 /\ y.since <= instant /\ instant <= y.since + MaxHold
  BY <1>1, <1>2 DEF Sound, HasRows
<1>6. \E x \in Lookups : Timely(x) /\ LookupStep(l, x)
  <2>1. CASE rows = NoRows
    <3>1. PICK b \in BOOLEAN : b = FALSE
      OBVIOUS
    <3> QED
      BY <1>1, <1>2, <1>3, <2>1, <3>1, GiveWayIsSound
  <2>2. CASE rows # NoRows
    <3>1. PICK x \in Lookups : LookupStep(l, x) /\ MovesIs(y, x, "done")
      BY <1>1, <1>3, <1>4, <2>2, MoveIs
    <3>2. PICK s \in Nat : s = Span(rows.links) /\ s = MaxHold + LastGood
      BY <1>4, <1>5, <2>2
    <3>3. instant < y.since + s /\ y.since < y.since + s
      BY <1>4, <1>5, <2>2, <3>2
    <3>4. Timely(x)
      BY <1>1, <1>2, <1>5, <2>2, <3>1, <3>2, <3>3 DEF Timely, Sound, HasRows, MovesIs
    <3> QED
      BY <3>1, <3>4
  <2> QED
    BY <2>1, <2>2
<1>7. lookup' \in [Lookup -> Lookups] /\ (\A k \in Lookup : Sound(lookup[k]))' /\ AgeIsOfItsLinks
  BY <1>3, <1>6, MoveIsSound
<1>8. PICK ttl \in Nat : ttl = IF rows = NoRows THEN 1 ELSE Fresh
  BY <1>4
<1>9. PICK new \in Entry : new = [rows |-> rows, until |-> instant + ttl] /\ Keepable(new)
  <2>1. PICK new \in Entry : new = [rows |-> rows, until |-> instant + ttl] /\ new.rows = rows /\ new.until = instant + ttl
    <3>1. instant + ttl \in Nat
      BY <1>4, <1>8
    <3>2. [rows |-> rows, until |-> instant + ttl] \in Entry
      BY <3>1 DEF Entry
    <3> QED
      BY <3>2
  <2>2. rows # NoRows => new.until <= rows.born + Span(rows.links)
    <3> SUFFICES ASSUME rows # NoRows PROVE instant + Fresh <= rows.born + Span(rows.links)
      BY <1>8, <2>1
    <3>1. PICK s \in Nat : s = Span(rows.links) /\ s = MaxHold + LastGood
      BY <1>4, <1>5
    <3> QED
      BY <1>4, <1>5, <3>1
  <2> QED
    BY <2>1, <2>2 DEF Keepable
<1>10. rowsOf' = rowsOf \/ rowsOf' = [rowsOf EXCEPT ![e] = new]
  BY <1>3, <1>8, <1>9
<1>11. rowsOf' \in [Engine -> Entry] /\ \A f \in Engine : Keepable(rowsOf'[f])
  BY <1>4, <1>9, <1>10
<1>12. LookupTypeOK'
  <2>1. instant' \in 0..MaxInstant /\ good' \in Entry /\ bypassed' \in [Engine -> Nat]
        /\ evidence' \subseteq [rows: Found, at: 0..MaxInstant]
    BY <1>3 DEF LookupInv, LookupTypeOK
  <2> QED
    BY <1>7, <1>11, <2>1, TypesStay
<1>13. KeptInv'
  BY <1>3, <1>11 DEF LookupInv, KeptInv, Keepable, Span
<1> QED
  BY <1>7, <1>12, <1>13 DEF LookupInv

\* What was kept, when an engine has failed.
LEMMA RecallKeeps ==
  ASSUME LookupInv, NEW l \in Lookup, Recall(l)
  PROVE  LookupInv' /\ AgeIsOfItsLinks
<1>1. PICK y \in Lookups : y = lookup[l] /\ Sound(y) /\ y.pc = "recall"
  BY LookupTypes DEF LookupInv, Recall
<1>2. good \in Entry /\ Keepable(good)
  BY LookupTypes DEF LookupInv, KeptInv
<1>3. \E x \in Lookups : Timely(x) /\ LookupStep(l, x)
  <2>1. CASE Held(good) /\ Get(l, "done", good.rows, "good")
    BY <1>1, <1>2, <2>1, EndsWithHeld
  <2>2. CASE Moves(l, "ledger")
    <3>1. PICK x \in Lookups : LookupStep(l, x) /\ MovesIs(y, x, "ledger")
      <4>1. "ledger" \in Places
        BY DEF Places
      <4> QED
        BY <1>1, <2>2, <4>1, MoveIs
    <3>2. Timely(x)
      BY <1>1, <3>1 DEF Timely, Sound, HasRows, MovesIs
    <3> QED
      BY <3>1, <3>2
  <2> QED
    BY <2>1, <2>2 DEF Recall
<1>4. UNCHANGED <<instant, rowsOf, good, evidence>> /\ bypassed' \in [Engine -> Nat]
  BY LookupTypes DEF Recall, LookupInv
<1> QED
  BY <1>3, <1>4, OnlyMoves

\* What the ledger has, or nothing.
LEMMA ReadLedgerKeeps ==
  ASSUME LookupInv, NEW l \in Lookup, ReadLedger(l)
  PROVE  LookupInv' /\ AgeIsOfItsLinks
<1>1. PICK y \in Lookups : y = lookup[l] /\ Sound(y) /\ y.pc = "ledger" /\ y.rows = NoRows /\ y.failed
  BY LookupTypes DEF LookupInv, ReadLedger, Sound
<1>2. "renew" \in Places /\ "done" \in Places /\ "ledger" \in Origins
  BY DEF Places, Origins
<1>3. \E x \in Lookups : Timely(x) /\ LookupStep(l, x)
  <2>1. CASE Recent # {} /\ Get(l, "renew", [Latest(Recent).rows EXCEPT !.links = @ + 1], "ledger")
    <3>1. PICK z \in Recent : z = Latest(Recent)
      BY <2>1, LatestIsRecent DEF LookupInv
    <3>2. z \in evidence /\ instant <= z.at + Week /\ z.rows.links < MaxLinks /\ z.at < z.rows.born + Span(z.rows.links) + MaxHold
      BY <3>1, LookupTypes, SpanGrows DEF Recent, LookupInv, KeptInv
    <3>3. z.rows \in Found /\ z.at \in Nat /\ z.rows.born \in Nat /\ z.rows.links \in Nat /\ instant \in Nat
      BY <3>2, LookupTypes DEF LookupInv
    <3>4. PICK rows \in Found : rows = [z.rows EXCEPT !.links = @ + 1] /\ rows.born = z.rows.born /\ rows.links = z.rows.links + 1
      <4>1. z.rows.links + 1 \in 0..MaxLinks
        BY <3>2, <3>3, LookupAssumption
      <4>2. [z.rows EXCEPT !.links = @ + 1] \in Found
        BY <3>3, <4>1 DEF Found
      <4>3. /\ [z.rows EXCEPT !.links = @ + 1].born = z.rows.born
            /\ [z.rows EXCEPT !.links = @ + 1].links = z.rows.links + 1
        BY <3>3 DEF Found
      <4> QED
        BY <4>2, <4>3
    <3>5. Get(l, "renew", rows, "ledger")
      BY <2>1, <3>1, <3>4
    <3>6. PICK s \in Nat, t \in Nat : s = Span(z.rows.links) /\ t = Span(rows.links) /\ t = s + 2 * MaxHold + Week + LastGood
      BY <3>3, <3>4, SpanGrows
    <3>7. LastGood \in Nat /\ Week \in Nat /\ MaxHold \in Nat
      BY SpanGrows
    <3>8. instant + MaxHold + LastGood < rows.born + Span(rows.links) /\ instant <= instant + MaxHold
      BY <3>2, <3>3, <3>4, <3>6, <3>7
    <3> HIDE <3>4
    <3>9. PICK x \in Lookups : /\ LookupStep(l, x) /\ x.pc = "renew" /\ x.failed = y.failed
                              /\ x.rows = rows /\ x.from = "ledger" /\ x.since = instant
      <4>1. lookup[l].failed = y.failed /\ rows \in Found \cup {NoRows}
        BY <1>1
      <4> QED
        BY <1>2, <3>5, <4>1, GetIs
    <3>10. Timely(x)
      <4>1. y.failed /\ instant <= instant
        BY <1>1, <3>3
      <4> QED
        BY <3>8, <3>9, <4>1 DEF Timely, Sound, HasRows
    <3> QED
      BY <3>9, <3>10
  <2>2. CASE Moves(l, "done")
    <3>1. PICK x \in Lookups : LookupStep(l, x) /\ MovesIs(y, x, "done")
      BY <1>1, <1>2, <2>2, MoveIs
    <3>2. Timely(x)
      BY <1>1, <3>1 DEF Timely, Sound, HasRows, MovesIs
    <3> QED
      BY <3>1, <3>2
  <2> QED
    BY <2>1, <2>2 DEF ReadLedger
<1>4. UNCHANGED <<instant, rowsOf, good, evidence>> /\ bypassed' \in [Engine -> Nat]
  BY LookupTypes DEF ReadLedger, LookupInv
<1> QED
  BY <1>3, <1>4, OnlyMoves

\* A lookup that has not begun has nothing.
LEMMA AnewIs == Anew \in Lookups /\ Anew.pc = "look" /\ Anew.rows = NoRows /\ Anew.from = "nowhere"
<1>1. MaxInstant \in Nat
  BY LookupAssumption
<1>2. Anew \in Lookups
  BY <1>1 DEF Anew, Lookups, Places, Origins, Engine
<1>3. Anew.pc = "look" /\ Anew.rows = NoRows /\ Anew.from = "nowhere"
  BY DEF Anew
<1> QED
  BY <1>2, <1>3

\* A lookup that is over holds nothing.
LEMMA OverIsTimely == Over \in Lookups /\ Timely(Over)
<1>1. PICK y \in Lookups : y = Anew /\ y.rows = NoRows /\ y.from = "nowhere"
  BY AnewIs
<1>2. Over = [y EXCEPT !.pc = "over"]
  BY <1>1 DEF Over
<1>3. Over \in Lookups
  BY <1>2 DEF Lookups, Places
<1>4. Over.pc = "over" /\ Over.rows = NoRows /\ Over.from = "nowhere"
  BY <1>1, <1>2 DEF Lookups
<1> QED
  BY <1>3, <1>4 DEF Timely, Sound, HasRows

\* The request starts its row, with the rows it holds.
LEMMA StartRowKeeps ==
  ASSUME LookupInv, NEW l \in Lookup, StartRow(l)
  PROVE  LookupInv' /\ AgeIsOfItsLinks
<1>1. PICK y \in Lookups : y = lookup[l] /\ Sound(y) /\ y.pc = "done" /\ y.rows # NoRows
  BY LookupTypes DEF LookupInv, StartRow
<1>2. LookupStep(l, [Anew EXCEPT !.pc = "open", !.rows = y.rows, !.since = instant])
  BY <1>1 DEF StartRow
<1>3. y.rows \in Found /\ y.since \in Nat /\ instant \in 0..MaxInstant /\ instant \in Nat /\ MaxHold \in Nat
  BY <1>1, LookupTypes, SpanGrows DEF LookupInv
<1>4. PICK z \in Lookups : z = Anew /\ z.from = "nowhere"
  BY AnewIs
<1> DEFINE x == [z EXCEPT !.pc = "open", !.rows = y.rows, !.since = instant]
<1>5. x \in Lookups
  BY <1>3 DEF Lookups, Places
<1>6. x.pc = "open" /\ x.rows = y.rows /\ x.from = "nowhere" /\ x.since = instant
  BY <1>4 DEF Lookups
<1>x. LookupStep(l, x)
  BY <1>2, <1>4
<1> HIDE DEF x
<1>7. instant < y.rows.born + Span(y.rows.links) + MaxHold
  <2>1. PICK s \in Nat, b \in Nat : s = Span(y.rows.links) /\ b = y.rows.born
    BY <1>3, LookupTypes DEF LookupInv
  <2>2. y.since < b + s /\ instant <= y.since + MaxHold
    BY <1>1, <2>1 DEF Sound, HasRows
  <2> QED
    BY <1>3, <2>1, <2>2
<1>8. Timely(x)
  BY <1>1, <1>6, <1>7 DEF Timely, Sound, HasRows
<1>9. UNCHANGED <<instant, rowsOf, good, evidence>> /\ bypassed' \in [Engine -> Nat]
  BY LookupTypes DEF StartRow, LookupInv
<1> QED
  BY <1>5, <1>8, <1>9, <1>x, OnlyMoves

\* The request completes, and its rows are in the ledger.
LEMMA RecordKeeps ==
  ASSUME LookupInv, NEW l \in Lookup, Record(l)
  PROVE  LookupInv' /\ AgeIsOfItsLinks
<1>1. PICK y \in Lookups : y = lookup[l] /\ Sound(y) /\ y.pc = "open" /\ y.rows # NoRows
  BY LookupTypes DEF LookupInv, Record, Sound
<1>2. /\ evidence' = evidence \cup {[rows |-> y.rows, at |-> y.since]}
      /\ LookupStep(l, Over) /\ UNCHANGED <<instant, rowsOf, bypassed, good>>
  BY <1>1 DEF Record
<1>3. lookup' \in [Lookup -> Lookups] /\ (\A k \in Lookup : Sound(lookup[k]))' /\ AgeIsOfItsLinks
  BY <1>2, OverIsTimely, MoveIsSound
<1>4. y.rows \in Found /\ y.since \in 0..MaxInstant /\ y.since < y.rows.born + Span(y.rows.links) + MaxHold
  BY <1>1, LookupTypes DEF LookupInv, Lookups, Sound, HasRows
<1>5. LookupTypeOK'
  <2>1. instant' \in 0..MaxInstant /\ rowsOf' \in [Engine -> Entry] /\ good' \in Entry /\ bypassed' \in [Engine -> Nat]
        /\ evidence' \subseteq [rows: Found, at: 0..MaxInstant]
    BY <1>2, <1>4 DEF LookupInv, LookupTypeOK
  <2> QED
    BY <1>3, <2>1, TypesStay
<1>6. KeptInv'
  <2>1. \A x \in evidence' : x.at < x.rows.born + Span(x.rows.links) + MaxHold
    BY <1>2, <1>4 DEF LookupInv, KeptInv
  <2> QED
    BY <1>2, <2>1 DEF LookupInv, KeptInv, Keepable, Span
<1> QED
  BY <1>3, <1>5, <1>6 DEF LookupInv

\* Or it leaves nothing.
LEMMA AbandonKeeps ==
  ASSUME LookupInv, NEW l \in Lookup, Abandon(l)
  PROVE  LookupInv' /\ AgeIsOfItsLinks
<1>1. LookupStep(l, Over) /\ UNCHANGED <<instant, rowsOf, good, evidence>> /\ bypassed' \in [Engine -> Nat]
  BY LookupTypes DEF Abandon, LookupInv
<1> QED
  BY <1>1, OverIsTimely, OnlyMoves

\* What lapses is gone, and what is left was there.
LEMMA LapsedIs ==
  ASSUME NEW e \in Entry, Keepable(e)
  PROVE  Lapsed(e) \in Entry /\ Keepable(Lapsed(e))
<1>1. Unserved \in Entry /\ Unserved.rows = NoRows
  BY DEF Unserved, Entry
<1> QED
  BY <1>1 DEF Lapsed, Keepable

\* Time passes while nobody holds rows for too long.
LEMMA PassKeeps ==
  ASSUME LookupInv, Pass
  PROVE  LookupInv' /\ AgeIsOfItsLinks
<1>1. /\ instant < MaxInstant /\ instant' = instant + 1 /\ UNCHANGED lookup
      /\ rowsOf' = [e \in Engine |-> Lapsed(rowsOf[e])] /\ good' = Lapsed(good)
      /\ bypassed' = [e \in Engine |-> IF bypassed[e] > instant + 1 THEN bypassed[e] ELSE 0]
      /\ evidence' \subseteq evidence
  BY DEF Pass
<1>2. ASSUME NEW k \in Lookup PROVE Sound(lookup[k])'
  <2>1. PICK y \in Lookups : y = lookup[k] /\ y = lookup'[k] /\ Sound(y) /\ y.since \in Nat
    BY <1>1, LookupTypes DEF LookupInv
  <2>2. instant \in Nat /\ MaxHold \in Nat
    BY LookupTypes, SpanGrows DEF LookupInv
  <2>3. y.rows # NoRows /\ y.pc # "open" => y.since <= instant' /\ instant' <= y.since + MaxHold
    <3> SUFFICES ASSUME y.rows # NoRows, y.pc # "open" PROVE y.since <= instant + 1 /\ instant + 1 <= y.since + MaxHold
      BY <1>1
    <3>1. instant - y.since < MaxHold
      BY <2>1 DEF Pass, Holding
    <3>2. y.since <= instant
      BY <2>1 DEF Sound
    <3> QED
      BY <2>1, <2>2, <3>1, <3>2
  <2>4. Sound(y)'
    BY <2>1, <2>3 DEF Sound, HasRows, Span
  <2> QED
    BY <2>1, <2>4 DEF Sound, HasRows
<1>3. instant' \in 0..MaxInstant /\ lookup' \in [Lookup -> Lookups]
  BY <1>1, LookupTypes DEF LookupInv
<1>4. \A e \in Engine : rowsOf[e] \in Entry /\ Keepable(rowsOf[e])
  BY LookupTypes DEF LookupInv, KeptInv
<1>5. rowsOf' \in [Engine -> Entry] /\ \A e \in Engine : Keepable(rowsOf'[e])
  <2>1. \A e \in Engine : rowsOf'[e] \in Entry /\ Keepable(rowsOf'[e])
    BY <1>1, <1>4, LapsedIs
  <2> QED
    BY <1>1, <2>1
<1>6. good' \in Entry /\ Keepable(good')
  BY <1>1, LookupTypes, LapsedIs DEF LookupInv, KeptInv
<1>7. bypassed' \in [Engine -> Nat] /\ evidence' \subseteq [rows: Found, at: 0..MaxInstant]
  BY <1>1 DEF LookupInv, LookupTypeOK
<1>8. LookupTypeOK'
  BY <1>3, <1>5, <1>6, <1>7, TypesStay
<1>9. KeptInv'
  BY <1>1, <1>5, <1>6 DEF LookupInv, KeptInv, Keepable, Span
<1>10. AgeIsOfItsLinks
  BY <1>1 DEF AgeIsOfItsLinks
<1> QED
  BY <1>2, <1>8, <1>9, <1>10 DEF LookupInv

\* Every step keeps the invariant, and ends no lookup with rows that are too old.
LEMMA LookupInvStep == LookupInv /\ [LookupNext]_lookupVars => LookupInv' /\ AgeIsOfItsLinks
<1> SUFFICES ASSUME LookupInv, [LookupNext]_lookupVars PROVE LookupInv' /\ AgeIsOfItsLinks
  OBVIOUS
<1>1. CASE UNCHANGED lookupVars
  <2>1. UNCHANGED <<instant, rowsOf, bypassed, good, evidence, lookup>>
    BY <1>1 DEF lookupVars
  <2>2. LookupTypeOK'
    BY <2>1 DEF LookupInv, LookupTypeOK
  <2>3. (\A k \in Lookup : Sound(lookup[k]))'
    BY <2>1 DEF LookupInv, Sound, HasRows, Span
  <2>4. AgeIsOfItsLinks
    BY <2>1 DEF AgeIsOfItsLinks
  <2> QED
    BY <2>1, <2>2, <2>3, <2>4, KeptStays DEF LookupInv
<1>2. ASSUME NEW l \in Lookup, Look(l) \/ Ask(l) \/ Reopen(l) \/ SetGood(l) \/ Store(l) PROVE LookupInv' /\ AgeIsOfItsLinks
  BY <1>2, LookKeeps, AskKeeps, ReopenKeeps, SetGoodKeeps, StoreKeeps
<1>3. ASSUME NEW l \in Lookup, Recall(l) \/ ReadLedger(l) \/ StartRow(l) \/ Record(l) \/ Abandon(l) PROVE LookupInv' /\ AgeIsOfItsLinks
  BY <1>3, RecallKeeps, ReadLedgerKeeps, StartRowKeeps, RecordKeeps, AbandonKeeps
<1>4. CASE Pass
  BY <1>4, PassKeeps
<1> QED
  BY <1>1, <1>2, <1>3, <1>4 DEF LookupNext

\* At first nothing is kept but, perhaps, what an earlier request has found just now.
LEMMA LookupBegins == LookupInit => LookupInv
<1> SUFFICES ASSUME LookupInit PROVE LookupInv
  OBVIOUS
<1>0. instant = 0 /\ LastGood \in Nat /\ LastGood > 0 /\ MaxHold \in Nat /\ Span(0) = MaxHold + LastGood
      /\ MaxInstant \in Nat /\ MaxLinks \in Nat
  BY SpanGrows, LookupAssumption DEF LookupInit
<1>1. Unserved \in Entry /\ Unserved.rows = NoRows
  BY DEF Unserved, Entry
<1>2. Anew \in Lookups /\ Sound(Anew)
  BY AnewIs DEF Sound, HasRows
<1>3. lookup \in [Lookup -> Lookups] /\ \A l \in Lookup : Sound(lookup[l])
  BY <1>2 DEF LookupInit
<1>4. \A x \in evidence : x = [rows |-> [born |-> 0, links |-> 0], at |-> 0]
  BY DEF LookupInit
<1>5. LookupTypeOK
  <2>1. instant \in 0..MaxInstant /\ rowsOf \in [Engine -> Entry] /\ bypassed \in [Engine -> Nat] /\ good \in Entry
    BY <1>0, <1>1 DEF LookupInit
  <2>2. evidence \subseteq [rows: Found, at: 0..MaxInstant]
    BY <1>0, <1>4 DEF Found
  <2> QED
    BY <1>3, <2>1, <2>2 DEF LookupTypeOK, Lookups, Places, Origins
<1>6. KeptInv
  <2>1. \A x \in evidence : x.at = 0 /\ x.rows.born = 0 /\ x.rows.links = 0
    BY <1>4
  <2>2. 0 < 0 + Span(0) + MaxHold
    BY <1>0
  <2>3. \A x \in evidence : x.at < x.rows.born + Span(x.rows.links) + MaxHold
    BY <2>1, <2>2
  <2> QED
    BY <1>1, <2>3 DEF LookupInit, KeptInv, Keepable
<1> QED
  BY <1>3, <1>5, <1>6 DEF LookupInv

\* research.go: old rows are asked for only when an engine failed in this lookup, and
\* are as old as their way through the ledger allows, whichever writes are lost, for
\* any lookups, any times to live and any time for which rows are held.
THEOREM OldRowsAreAlwaysHonest == LookupSpec => []LookupTypeOK /\ OldRowsAreHonest
<1>1. LookupInv => LookupTypeOK /\ OldRowsOnlyAfterFailure
  BY DEF LookupInv, Sound, OldRowsOnlyAfterFailure
<1> QED
  BY <1>1, LookupBegins, LookupInvStep, PTL DEF LookupSpec, OldRowsAreHonest

=============================================================================
