--------------------------- MODULE ChatRunsProofs ---------------------------
(***************************************************************************)
(* Proofs about ChatRuns, for any number of runs, tabs and workers and     *)
(* with any calls of the database failing.                                 *)
(***************************************************************************)
EXTENDS ChatRuns, SequenceTheorems, TLAPS

\* What a worker is doing fits the rest of its state: it has a run, and it goes
\* on to complete the run only when its answer is saved.
WorkersInv ==
  \A e \in Worker :
    /\ phase[e] # "idle" => of[e] \in Run
    /\ phase[e] = "completing" => answered[of[e]]

\* A handler about to launch or to write has a run.
CallsInv ==
  \A c \in Client :
    at[c] \in {"launching", "pausing", "cancelling", "resuming", "stopping"} => target[c] \in Run

\* The first state has every shape and no worker.
LEMMA TypeInit == Init => TypeOK /\ WorkersInv /\ CallsInv
<1> SUFFICES ASSUME Init PROVE TypeOK /\ WorkersInv /\ CallsInv
  OBVIOUS
<1>1. messages \in Seq(Message)
  BY DEF Init, Message
<1>2. RowsType
  BY <1>1 DEF Init, RowsType, Statuses
<1>3. WorkersType /\ CallsType /\ HistoryType /\ ServerType
  BY DEF Init, WorkersType, CallsType, HistoryType, ServerType, Phases, Handlers
<1> QED
  BY <1>2, <1>3 DEF Init, TypeOK, WorkersInv, CallsInv

\* Handlers and workers keep the shape of the runs' rows, and change one.
LEMMA StatusType ==
  ASSUME RowsType, NEW r \in Run, NEW s \in Statuses, SetStatus(r, s) \/ MaybeSetStatus(r, s)
  PROVE  /\ status' \in [Run -> Statuses]
         /\ \A q \in Run : status'[q] # status[q] => q = r /\ status'[q] = s
BY DEF RowsType, SetStatus, MaybeSetStatus

\* Messages are put together from messages.
LEMMA MessagesType ==
  ASSUME NEW ms \in Seq(Message), NEW id \in Nat, NEW text \in Nat,
         NEW role \in {"user", "assistant"}
  PROVE  /\ Append(ms, [id |-> id, role |-> role, text |-> text]) \in Seq(Message)
         /\ \A i \in DOMAIN ms :
              Append(SubSeq(ms, 1, i - 1), [ms[i] EXCEPT !.text = text]) \in Seq(Message)
<1>1. [id |-> id, role |-> role, text |-> text] \in Message
  BY DEF Message
<1>2. ASSUME NEW i \in DOMAIN ms
      PROVE  Append(SubSeq(ms, 1, i - 1), [ms[i] EXCEPT !.text = text]) \in Seq(Message)
  <2>1. ms[i] \in Message /\ i \in 1..Len(ms) /\ Len(ms) \in Nat
    BY <1>2, ElementOfSeq, LenProperties
  <2>2. [ms[i] EXCEPT !.text = text] \in Message
    BY <2>1 DEF Message
  <2>3. SubSeq(ms, 1, i - 1) \in Seq(Message)
    BY <2>1, SubSeqProperties
  <2> QED
    BY <2>2, <2>3, AppendProperties
<1> QED
  BY <1>1, <1>2, AppendProperties

\* The text a worker reads is one of a message.
LEMMA LastUserTextType == ASSUME NEW ms \in Seq(Message) PROVE LastUserText(ms) \in Nat
<1> DEFINE last == {i \in DOMAIN ms : /\ ms[i].role = "user"
                                      /\ \A j \in DOMAIN ms : j > i => ms[j].role # "user"}
<1>1. CASE last = {}
  BY <1>1 DEF LastUserText
<1>2. CASE last # {}
  <2>1. PICK i \in DOMAIN ms : LastUserText(ms) = ms[i].text
    BY <1>2 DEF LastUserText
  <2>2. ms[i] \in Message
    BY <2>1, ElementOfSeq, LenProperties
  <2> QED
    BY <2>1, <2>2 DEF Message
<1> QED
  BY <1>1, <1>2

\* However the handler of a call moves, the calls keep their shape.
LEMMA CallsStep ==
  ASSUME CallsType, NEW c \in Client, NEW step \in Handlers, NEW r \in Run \cup {None}, NEW id \in Nat,
         Answer(c) \/ Continue(c, step) \/ Call(c, step, r, id)
  PROVE  CallsType'
<1> USE DEF CallsType, Handlers
<1>1. CASE Answer(c)
  BY <1>1 DEF Answer
<1>2. CASE Continue(c, step)
  BY <1>2 DEF Continue
<1>3. CASE Call(c, step, r, id)
  BY <1>3 DEF Call
<1> QED
  BY <1>1, <1>2, <1>3

\* A worker that only moves on keeps the shape of the workers.
LEMMA ProceedStep ==
  ASSUME WorkersType, NEW e \in Worker, NEW step \in Phases, Proceed(e, step), UNCHANGED <<of, live, read>>
  PROVE  WorkersType'
BY DEF WorkersType, Proceed

\* What is not touched keeps its shape.
LEMMA RowsKept == RowsType /\ UNCHANGED rows => RowsType'
BY DEF RowsType, rows

\* What is not touched keeps its shape.
LEMMA WorkersKept == WorkersType /\ UNCHANGED workers => WorkersType'
BY DEF WorkersType, workers

\* What is not touched keeps its shape.
LEMMA CallsKept == CallsType /\ UNCHANGED calls => CallsType'
BY DEF CallsType, calls

\* What is not touched keeps its shape.
LEMMA HistoryKept == HistoryType /\ UNCHANGED history => HistoryType'
BY DEF HistoryType, history

\* What is not touched keeps its shape.
LEMMA ServerKept == ServerType /\ UNCHANGED <<up, cancels>> => ServerType'
BY DEF ServerType

\* A step that writes one run's status keeps the shape of the rows.
LEMMA StatusStep ==
  ASSUME RowsType, NEW r \in Run, NEW s \in Statuses,
         SetStatus(r, s) \/ MaybeSetStatus(r, s) \/ UNCHANGED status,
         UNCHANGED <<session, messages, texts>>
  PROVE  RowsType'
<1>1. status' \in [Run -> Statuses]
  BY StatusType DEF RowsType
<1> QED
  BY <1>1 DEF RowsType

\* Whatever a client does, every value keeps its shape.
LEMMA HandlerType ==
  ASSUME TypeOK, CallsInv, NEW c \in Client, Handler(c)
  PROVE  TypeOK'
<1> USE DEF TypeOK
<1>r. None \in Run \cup {None} /\ 0 \in Nat
  OBVIOUS
<1>h. Handlers = {"idle", "creating", "launching", "pausing", "cancelling",
                  "resuming", "stopping", "truncating"}
  BY DEF Handlers
<1>1. CASE StartChatRun(c)
  <2>1. Call(c, "creating", None, 0) /\ UNCHANGED <<rows, up, cancels, workers, history>>
    BY <1>1 DEF StartChatRun
  <2>2. CallsType'
    BY <2>1, <1>r, <1>h, CallsStep
  <2> QED
    BY <2>1, <2>2, RowsKept, WorkersKept, HistoryKept, ServerKept
<1>2. CASE CreateChatRun(c)
  <2>1. UNCHANGED <<session, messages, texts, up, cancels, workers, history>>
    BY <1>2 DEF CreateChatRun
  <2>2. status' \in [Run -> Statuses]
    BY <1>2 DEF CreateChatRun, RowsType, Statuses
  <2>3. CallsType'
    BY <1>2 DEF CreateChatRun, CallsType, Answer, Handlers
  <2> QED
    BY <2>1, <2>2, <2>3, WorkersKept, HistoryKept, ServerKept DEF RowsType
<1>3. CASE LaunchChatRun(c)
  <2>1. target[c] \in Run /\ Answer(c) /\ UNCHANGED <<rows, up, read, history>>
    BY <1>3 DEF LaunchChatRun, CallsInv
  <2>2. PICK e \in Worker : /\ phase' = [phase EXCEPT ![e] = "launched"]
                            /\ of' = [of EXCEPT ![e] = target[c]]
                            /\ live' = [live EXCEPT ![e] = TRUE]
                            /\ cancels' = [cancels EXCEPT ![target[c]] = e]
    BY <1>3 DEF LaunchChatRun
  <2>3. WorkersType' /\ ServerType'
    BY <2>1, <2>2 DEF WorkersType, ServerType, Phases
  <2>4. CallsType'
    BY <2>1, <1>r, <1>h, CallsStep
  <2> QED
    BY <2>1, <2>3, <2>4, RowsKept, HistoryKept
<1>4. CASE \E r \in Run : Pause(c, r) \/ Cancel(c, r) \/ Resume(c, r)
  <2>1. PICK r \in Run, step \in {"pausing", "cancelling", "resuming"} :
          Call(c, step, r, 0) /\ UNCHANGED <<rows, up, cancels, workers, history>>
    BY <1>4 DEF Pause, Cancel, Resume
  <2>2. CallsType'
    BY <2>1, <1>r, <1>h, CallsStep
  <2> QED
    BY <2>1, <2>2, RowsKept, WorkersKept, HistoryKept, ServerKept
<1>5. CASE WriteStop(c)
  <2>1. /\ Continue(c, "stopping")
        /\ UNCHANGED <<session, messages, texts, up, cancels, workers, history>>
        /\ target[c] \in Run
        /\ \E s \in {"paused", "cancelled"} : SetStatus(target[c], s) \/ MaybeSetStatus(target[c], s)
    BY <1>5 DEF WriteStop, CallsInv
  <2>2. RowsType'
    BY <2>1, StatusStep DEF Statuses
  <2>3. CallsType'
    BY <2>1, <1>r, <1>h, CallsStep
  <2> QED
    BY <2>1, <2>2, <2>3, WorkersKept, HistoryKept, ServerKept
<1>6. CASE CallCancel(c)
  <2>1. /\ Answer(c) \/ Continue(c, "truncating")
        /\ UNCHANGED <<rows, up, cancels, phase, of, read, answered, resumed>>
        /\ stopped' = [stopped EXCEPT ![target[c]] = TRUE]
        /\ \/ live' = live
           \/ live' = [live EXCEPT ![cancels[target[c]]] = FALSE]
    BY <1>6 DEF CallCancel
  <2>2. WorkersType' /\ HistoryType'
    BY <2>1 DEF WorkersType, HistoryType
  <2>3. CallsType'
    BY <2>1, <1>r, <1>h, CallsStep
  <2> QED
    BY <2>1, <2>2, <2>3, RowsKept, ServerKept
<1>7. CASE ResetChatRun(c)
  <2>1. /\ Answer(c) \/ Continue(c, "launching")
        /\ UNCHANGED <<session, messages, texts, up, cancels, workers, answered>>
        /\ target[c] \in Run
        /\ SetStatus(target[c], "queued") \/ MaybeSetStatus(target[c], "queued") \/ UNCHANGED status
        /\ resumed' = [resumed EXCEPT ![target[c]] = TRUE]
        /\ stopped' = [stopped EXCEPT ![target[c]] = FALSE]
    BY <1>7 DEF ResetChatRun, CallsInv
  <2>2. RowsType'
    BY <2>1, StatusStep DEF Statuses
  <2>3. CallsType'
    BY <2>1, <1>r, <1>h, CallsStep
  <2>4. HistoryType'
    BY <2>1 DEF HistoryType
  <2> QED
    BY <2>1, <2>2, <2>3, <2>4, WorkersKept, ServerKept
<1>8. CASE \E id \in 1..MaxTexts : EditChatMessage(c, id)
  <2>1. PICK id \in Nat, r \in Run \cup {None}, step \in {"cancelling", "truncating"} :
          Call(c, step, r, id) /\ UNCHANGED <<rows, up, cancels, workers, history>>
    <3>1. PICK id \in 1..MaxTexts : EditChatMessage(c, id)
      BY <1>8
    <3>2. id \in Nat
      OBVIOUS
    <3> QED
      BY <3>1, <3>2 DEF EditChatMessage, ActiveChatRun
  <2>2. CallsType'
    BY <2>1, <1>h, CallsStep
  <2> QED
    BY <2>1, <2>2, RowsKept, WorkersKept, HistoryKept, ServerKept
<1>9. CASE Truncate(c)
  <2>1. Answer(c) /\ UNCHANGED <<session, status, up, cancels, workers, history>>
    BY <1>9 DEF Truncate
  <2>2. \/ UNCHANGED <<messages, texts>>
        \/ \E i \in DOMAIN messages :
             /\ texts' = texts + 1
             /\ messages' = Append(SubSeq(messages, 1, i - 1),
                                   [messages[i] EXCEPT !.text = texts + 1])
    BY <1>9 DEF Truncate
  <2>3. texts + 1 \in Nat /\ messages \in Seq(Message)
    BY DEF RowsType
  <2>4. \A i \in DOMAIN messages :
          Append(SubSeq(messages, 1, i - 1), [messages[i] EXCEPT !.text = texts + 1]) \in Seq(Message)
    BY <2>3, MessagesType
  <2>5. RowsType'
    BY <2>1, <2>2, <2>3, <2>4 DEF RowsType
  <2>6. CallsType'
    BY <2>1, <1>r, <1>h, CallsStep
  <2> QED
    BY <2>1, <2>5, <2>6, WorkersKept, HistoryKept, ServerKept
<1>10. CASE \E role \in {"user", "assistant"} : AddChatMessage(c, role)
  <2>1. PICK role \in {"user", "assistant"} : AddChatMessage(c, role)
    BY <1>10
  <2>2. texts + 1 \in Nat /\ messages \in Seq(Message)
    BY DEF RowsType
  <2>3. Append(messages, [id |-> texts + 1, role |-> role, text |-> texts + 1]) \in Seq(Message)
    BY <2>2, MessagesType
  <2>4. RowsType'
    BY <2>1, <2>2, <2>3 DEF RowsType, AddChatMessage
  <2>5. UNCHANGED <<up, cancels, workers, calls, history>>
    BY <2>1 DEF AddChatMessage
  <2> QED
    BY <2>4, <2>5, WorkersKept, CallsKept, HistoryKept, ServerKept
<1>11. CASE DeleteChatSession(c)
  <2>0. messages' \in Seq(Message) /\ session' \in BOOLEAN /\ texts' = texts
    BY <1>11, EmptySeq DEF DeleteChatSession
  <2>1. RowsType'
    BY <1>11, <2>0 DEF DeleteChatSession, RowsType, Statuses
  <2>2. UNCHANGED <<up, cancels, workers, calls, history>>
    BY <1>11 DEF DeleteChatSession
  <2> QED
    BY <2>1, <2>2, WorkersKept, CallsKept, HistoryKept, ServerKept
<1> HIDE DEF TypeOK
<1> QED
  BY <1>1, <1>2, <1>3, <1>4, <1>5, <1>6, <1>7, <1>8, <1>9, <1>10, <1>11 DEF Handler

\* Whatever a worker does, every value keeps its shape.
LEMMA WorkerType ==
  ASSUME TypeOK, WorkersInv, NEW e \in Worker, Execute(e) \/ TimeOut(e)
  PROVE  TypeOK'
<1> USE DEF TypeOK
<1>p. Phases = {"idle", "launched", "reading", "invoking", "deciding",
                "saving", "completing", "failing", "leaving"}
  BY DEF Phases
<1>s. {"running", "completed", "failed"} \subseteq Statuses
  BY DEF Statuses
<1>1. CASE Begin(e)
  <2>1. /\ UNCHANGED <<session, messages, texts, up, cancels, of, live, read, calls, history>>
        /\ Proceed(e, "reading") \/ Proceed(e, "leaving")
        /\ SetStatus(of[e], "running") \/ MaybeSetStatus(of[e], "running") \/ UNCHANGED status
        /\ of[e] \in Run
    BY <1>1 DEF Begin, WorkersInv
  <2>2. RowsType'
    BY <2>1, <1>s, StatusStep
  <2>3. WorkersType'
    BY <2>1, <1>p, ProceedStep
  <2> QED
    BY <2>1, <2>2, <2>3, CallsKept, HistoryKept, ServerKept
<1>2. CASE ReadSession(e)
  <2>1. /\ UNCHANGED <<rows, up, cancels, of, live, calls, history>>
        /\ Proceed(e, "invoking") \/ Proceed(e, "failing")
        /\ read' = [read EXCEPT ![e] = LastUserText(messages)] \/ UNCHANGED read
    BY <1>2 DEF ReadSession
  <2>2. LastUserText(messages) \in Nat
    BY LastUserTextType DEF RowsType
  <2>3. WorkersType'
    BY <2>1, <2>2, <1>p DEF WorkersType, Proceed
  <2> QED
    BY <2>1, <2>3, RowsKept, CallsKept, HistoryKept, ServerKept
<1>3. CASE CheckStatus(e) \/ Decide(e)
  <2>1. /\ UNCHANGED <<rows, up, cancels, of, live, read, calls, history>>
        /\ \E step \in {"leaving", "deciding", "saving", "failing"} : Proceed(e, step)
    BY <1>3 DEF CheckStatus, Decide
  <2>2. WorkersType'
    BY <2>1, <1>p, ProceedStep
  <2> QED
    BY <2>1, <2>2, RowsKept, CallsKept, HistoryKept, ServerKept
<1>4. CASE SaveAnswer(e)
  <2> DEFINE answer == [id |-> 0, role |-> "assistant", text |-> read[e]]
  <2>1. /\ UNCHANGED <<session, texts, status, up, cancels, of, live, read, calls, resumed, stopped>>
        /\ Proceed(e, "completing") \/ Proceed(e, "failing")
        /\ messages' \in {messages, Append(messages, answer)}
        /\ answered' = [answered EXCEPT ![of[e]] = TRUE] \/ UNCHANGED answered
    BY <1>4 DEF SaveAnswer
  <2>2. messages \in Seq(Message) /\ read[e] \in Nat
    BY DEF RowsType, WorkersType
  <2>3. Append(messages, answer) \in Seq(Message)
    BY <2>2, MessagesType
  <2>4. RowsType'
    BY <2>1, <2>2, <2>3 DEF RowsType
  <2>5. WorkersType'
    BY <2>1, <1>p, ProceedStep
  <2>6. HistoryType'
    BY <2>1 DEF HistoryType
  <2> QED
    BY <2>1, <2>4, <2>5, <2>6, CallsKept, ServerKept
<1>5. CASE CompleteChatRun(e) \/ FailChatRun(e)
  <2>1. /\ UNCHANGED <<session, messages, texts, up, cancels, of, live, read, calls, history>>
        /\ Proceed(e, "leaving")
        /\ \E s \in {"completed", "failed"} : SetStatus(of[e], s) \/ MaybeSetStatus(of[e], s)
        /\ of[e] \in Run
    BY <1>5 DEF CompleteChatRun, FailChatRun, WorkersInv
  <2>2. RowsType'
    BY <2>1, <1>s, StatusStep
  <2>3. WorkersType'
    BY <2>1, <1>p, ProceedStep
  <2> QED
    BY <2>1, <2>2, <2>3, CallsKept, HistoryKept, ServerKept
<1>6. CASE Leave(e)
  <2>1. /\ UNCHANGED <<rows, up, calls, history>>
        /\ cancels' = [cancels EXCEPT ![of[e]] = None]
        /\ Proceed(e, "idle")
        /\ of' = [of EXCEPT ![e] = None]
        /\ live' = [live EXCEPT ![e] = FALSE]
        /\ read' = [read EXCEPT ![e] = 0]
    BY <1>6 DEF Leave
  <2>2. WorkersType' /\ ServerType'
    BY <2>1, <1>p DEF WorkersType, ServerType, Proceed
  <2> QED
    BY <2>1, <2>2, RowsKept, CallsKept, HistoryKept
<1>7. CASE TimeOut(e)
  <2>1. UNCHANGED <<rows, up, cancels, phase, of, read, calls, history>>
        /\ live' = [live EXCEPT ![e] = FALSE]
    BY <1>7 DEF TimeOut
  <2>2. WorkersType'
    BY <2>1 DEF WorkersType
  <2> QED
    BY <2>1, <2>2, RowsKept, CallsKept, HistoryKept, ServerKept
<1> HIDE DEF TypeOK
<1> QED
  BY <1>1, <1>2, <1>3, <1>4, <1>5, <1>6, <1>7 DEF Execute

\* Crashes, restarts and every other step keep the shape of every value.
LEMMA TypeStep == TypeOK /\ WorkersInv /\ CallsInv /\ [Next]_vars => TypeOK'
<1> SUFFICES ASSUME TypeOK, WorkersInv, CallsInv, [Next]_vars
             PROVE  TypeOK'
  OBVIOUS
<1>1. CASE Crash
  <2>1. RowsType' /\ HistoryType'
    BY <1>1, RowsKept, HistoryKept DEF Crash, TypeOK
  <2>2. WorkersType' /\ CallsType' /\ ServerType'
    BY <1>1 DEF Crash, WorkersType, CallsType, ServerType, Phases, Handlers
  <2> QED
    BY <2>1, <2>2 DEF TypeOK
<1>2. CASE Restart
  <2>1. /\ UNCHANGED <<session, messages, texts, cancels, workers, calls, history>>
        /\ up' = TRUE
    BY <1>2 DEF Restart
  <2>2. status' \in [Run -> Statuses]
    BY <1>2 DEF Restart, TypeOK, RowsType, Statuses
  <2>3. RowsType' /\ ServerType'
    BY <2>1, <2>2 DEF TypeOK, RowsType, ServerType
  <2> QED
    BY <2>1, <2>3, WorkersKept, CallsKept, HistoryKept DEF TypeOK
<1>3. CASE UNCHANGED vars
  BY <1>3, RowsKept, WorkersKept, CallsKept, HistoryKept, ServerKept DEF TypeOK, vars
<1> QED
  BY <1>1, <1>2, <1>3, HandlerType, WorkerType DEF Next

-----------------------------------------------------------------------------
(* Workers, the map of cancel functions and the runs' outcomes.            *)

\* Of a client's calls only a launch touches workers, the map or the history of
\* answers, and none completes a run.
LEMMA HandlerScope ==
  ASSUME TypeOK, CallsInv, NEW c \in Client, Handler(c)
  PROVE  /\ LaunchChatRun(c) \/ UNCHANGED <<phase, of, cancels, answered>>
         /\ UNCHANGED answered
         /\ \A r \in Run : status'[r] = "completed" => status[r] = "completed"
<1>t. status \in [Run -> Statuses] /\ RowsType
  BY DEF TypeOK, RowsType
<1>1. CASE \/ StartChatRun(c) \/ LaunchChatRun(c) \/ CallCancel(c) \/ Truncate(c)
           \/ \E r \in Run : Pause(c, r) \/ Cancel(c, r) \/ Resume(c, r)
           \/ \E id \in 1..MaxTexts : EditChatMessage(c, id)
           \/ \E role \in {"user", "assistant"} : AddChatMessage(c, role)
  BY <1>1 DEF StartChatRun, LaunchChatRun, CallCancel, Truncate, Pause, Cancel, Resume, EditChatMessage,
              AddChatMessage, rows, workers, history
<1>2. CASE CreateChatRun(c)
  BY <1>2, <1>t DEF CreateChatRun, workers, history
<1>3. CASE WriteStop(c)
  <2>1. /\ UNCHANGED <<workers, cancels, history>>
        /\ target[c] \in Run
        /\ \E s \in {"paused", "cancelled"} : SetStatus(target[c], s) \/ MaybeSetStatus(target[c], s)
    BY <1>3 DEF WriteStop, CallsInv
  <2>2. \A r \in Run : status'[r] = "completed" => status[r] = "completed"
    BY <2>1, <1>t, StatusType DEF Statuses
  <2> QED
    BY <2>1, <2>2 DEF workers, history
<1>4. CASE ResetChatRun(c)
  <2>1. /\ UNCHANGED <<workers, cancels, answered>>
        /\ target[c] \in Run
        /\ SetStatus(target[c], "queued") \/ MaybeSetStatus(target[c], "queued") \/ UNCHANGED status
    BY <1>4 DEF ResetChatRun, CallsInv
  <2>2. \A r \in Run : status'[r] = "completed" => status[r] = "completed"
    BY <2>1, <1>t, StatusType DEF Statuses
  <2> QED
    BY <2>1, <2>2 DEF workers
<1>5. CASE DeleteChatSession(c)
  BY <1>5, <1>t DEF DeleteChatSession, workers, history
<1> QED
  BY <1>1, <1>2, <1>3, <1>4, <1>5 DEF Handler

\* A handler that launches or writes has a run.
LEMMA CallsInvStep == TypeOK /\ CallsInv /\ [Next]_vars => CallsInv'
<1> SUFFICES ASSUME TypeOK, CallsInv, [Next]_vars PROVE CallsInv'
  OBVIOUS
<1>t. CallsType
  BY DEF TypeOK
<1>1. ASSUME NEW c \in Client, NEW r \in Run \cup {None}, NEW id \in Nat, NEW step \in Handlers,
             Call(c, step, r, id), step \notin {"creating", "truncating"} => r \in Run
      PROVE  CallsInv'
  BY <1>1, <1>t DEF Call, CallsInv, CallsType
<1>2. ASSUME NEW c \in Client, Answer(c) PROVE CallsInv'
  BY <1>2, <1>t DEF Answer, CallsInv, CallsType
<1>3. ASSUME NEW c \in Client, NEW step \in Handlers, Continue(c, step), target[c] \in Run PROVE CallsInv'
  BY <1>3, <1>t DEF Continue, CallsInv, CallsType
<1>4. ASSUME UNCHANGED calls PROVE CallsInv'
  BY <1>4 DEF calls, CallsInv
<1>h. Handlers = {"idle", "creating", "launching", "pausing", "cancelling",
                  "resuming", "stopping", "truncating"} /\ None \in Run \cup {None} /\ 0 \in Nat
  BY DEF Handlers
<1>5. ASSUME NEW c \in Client, Handler(c) PROVE CallsInv'
  <2>1. CASE StartChatRun(c)
    BY <2>1, <1>1, <1>h DEF StartChatRun
  <2>2. CASE CreateChatRun(c)
    <3>1. \/ Answer(c)
          \/ \E r \in Run : /\ at' = [at EXCEPT ![c] = "launching"]
                            /\ target' = [target EXCEPT ![c] = r]
      BY <2>2 DEF CreateChatRun
    <3> QED
      BY <3>1, <1>2, <1>t DEF CallsInv, CallsType
  <2>3. CASE LaunchChatRun(c) \/ Truncate(c)
    BY <2>3, <1>2 DEF LaunchChatRun, Truncate
  <2>4. CASE \E r \in Run : Pause(c, r) \/ Cancel(c, r) \/ Resume(c, r)
    BY <2>4, <1>1, <1>h DEF Pause, Cancel, Resume
  <2>5. CASE WriteStop(c) \/ CallCancel(c) \/ ResetChatRun(c)
    BY <2>5, <1>2, <1>3, <1>h DEF WriteStop, CallCancel, ResetChatRun, CallsInv
  <2>6. CASE \E id \in 1..MaxTexts : EditChatMessage(c, id)
    <3>1. PICK id \in 1..MaxTexts : EditChatMessage(c, id)
      BY <2>6
    <3>2. id \in Nat
      OBVIOUS
    <3> QED
      BY <3>1, <3>2, <1>1, <1>h DEF EditChatMessage, ActiveChatRun
  <2>7. CASE DeleteChatSession(c) \/ \E role \in {"user", "assistant"} : AddChatMessage(c, role)
    BY <2>7, <1>4 DEF DeleteChatSession, AddChatMessage
  <2> QED
    BY <1>5, <2>1, <2>2, <2>3, <2>4, <2>5, <2>6, <2>7 DEF Handler
<1>6. ASSUME NEW e \in Worker, Execute(e) \/ TimeOut(e) PROVE CallsInv'
  BY <1>6, <1>4 DEF Execute, TimeOut, Begin, ReadSession, CheckStatus, Decide, SaveAnswer, CompleteChatRun,
                    FailChatRun, Leave
<1>7. CASE Crash
  BY <1>7 DEF Crash, CallsInv
<1>8. CASE Restart \/ UNCHANGED vars
  BY <1>8, <1>4 DEF Restart, vars
<1> QED
  BY <1>5, <1>6, <1>7, <1>8 DEF Next

\* A worker keeps the run it was launched for until it leaves, and its answer is
\* recorded before it completes the run.
LEMMA WorkersInvStep == TypeOK /\ WorkersInv /\ CallsInv /\ [Next]_vars => WorkersInv'
<1> SUFFICES ASSUME TypeOK, WorkersInv, CallsInv, [Next]_vars PROVE WorkersInv'
  OBVIOUS
<1>t. WorkersType /\ HistoryType
  BY DEF TypeOK
<1> USE DEF WorkersInv
<1>1. ASSUME UNCHANGED <<phase, of, answered>> PROVE WorkersInv'
  BY <1>1
<1>2. ASSUME NEW e \in Worker, NEW step, Proceed(e, step), step # "completing",
             phase[e] # "idle", UNCHANGED <<of, answered>>
      PROVE  WorkersInv'
  BY <1>2, <1>t DEF Proceed, WorkersType
<1>3. ASSUME NEW c \in Client, Handler(c) PROVE WorkersInv'
  <2>1. CASE LaunchChatRun(c)
    <3>1. target[c] \in Run /\ UNCHANGED answered
      BY <2>1 DEF LaunchChatRun, CallsInv, history
    <3>2. PICK e \in Worker : /\ phase' = [phase EXCEPT ![e] = "launched"]
                              /\ of' = [of EXCEPT ![e] = target[c]]
      BY <2>1 DEF LaunchChatRun
    <3> QED
      BY <3>1, <3>2, <1>t DEF WorkersType
  <2>2. CASE UNCHANGED <<phase, of, cancels, answered>>
    BY <2>2, <1>1
  <2> QED
    BY <1>3, <2>1, <2>2, HandlerScope
<1>4. ASSUME NEW e \in Worker, Execute(e) PROVE WorkersInv'
  <2>1. CASE Begin(e) \/ ReadSession(e) \/ CheckStatus(e) \/ Decide(e) \/ CompleteChatRun(e) \/ FailChatRun(e)
    <3>1. /\ phase[e] # "idle" /\ UNCHANGED <<of, answered>>
          /\ \E step \in Phases \ {"completing"} : Proceed(e, step)
      BY <2>1 DEF Begin, ReadSession, CheckStatus, Decide, CompleteChatRun, FailChatRun, history, Phases
    <3> QED
      BY <3>1, <1>2
  <2>2. CASE SaveAnswer(e)
    <3>1. of[e] \in Run /\ UNCHANGED of
      BY <2>2 DEF SaveAnswer
    <3>2. \/ answered' = [answered EXCEPT ![of[e]] = TRUE] /\ Proceed(e, "completing")
          \/ UNCHANGED answered /\ Proceed(e, "failing")
      BY <2>2 DEF SaveAnswer
    <3> QED
      BY <3>1, <3>2, <1>t DEF Proceed, WorkersType, HistoryType
  <2>3. CASE Leave(e)
    BY <2>3, <1>t DEF Leave, Proceed, history, WorkersType
  <2> QED
    BY <1>4, <2>1, <2>2, <2>3 DEF Execute
<1>5. CASE \E e \in Worker : TimeOut(e)
  BY <1>5, <1>1 DEF TimeOut, history
<1>6. CASE Crash
  BY <1>6 DEF Crash, history
<1>7. CASE Restart \/ UNCHANGED vars
  BY <1>7, <1>1 DEF Restart, vars, workers, history
<1> QED
  BY <1>3, <1>4, <1>5, <1>6, <1>7 DEF Next

\* The types and the two facts about workers and calls carry themselves.
LEMMA Inductive == Spec => [](TypeOK /\ WorkersInv /\ CallsInv)
<1>1. TypeOK /\ WorkersInv /\ CallsInv /\ [Next]_vars => (TypeOK /\ WorkersInv /\ CallsInv)'
  BY TypeStep, WorkersInvStep, CallsInvStep
<1> QED
  BY <1>1, TypeInit, PTL DEF Spec

\* Every row, worker and call keeps its shape, whatever is interleaved, fails or
\* crashes.
THEOREM TypeCorrect == Spec => []TypeOK
BY Inductive, PTL

\* The map of cancel functions of chat_runs.go holds only those of workers that
\* exist, each under the run it executes.
THEOREM EntriesAreCurrent == Spec => []CancelsAreCurrent
<1>1. Init => CancelsAreCurrent
  BY DEF Init, CancelsAreCurrent
<1>2. TypeOK /\ WorkersInv /\ CallsInv /\ CancelsAreCurrent /\ [Next]_vars => CancelsAreCurrent'
  <2> SUFFICES ASSUME TypeOK, WorkersInv, CallsInv, CancelsAreCurrent, [Next]_vars
               PROVE  CancelsAreCurrent'
    OBVIOUS
  <2>t. WorkersType /\ ServerType /\ None \notin Worker
    BY RunAssumption DEF TypeOK
  <2> USE DEF CancelsAreCurrent
  <2>1. ASSUME UNCHANGED <<phase, of, cancels>> PROVE CancelsAreCurrent'
    BY <2>1
  <2>2. ASSUME NEW e \in Worker, NEW step, Proceed(e, step), step # "idle", UNCHANGED <<of, cancels>>
        PROVE  CancelsAreCurrent'
    BY <2>2, <2>t DEF Proceed, WorkersType, ServerType
  <2>3. ASSUME NEW c \in Client, Handler(c) PROVE CancelsAreCurrent'
    <3>1. CASE LaunchChatRun(c)
      <4>1. target[c] \in Run
        BY <3>1 DEF LaunchChatRun, CallsInv
      <4>2. PICK e \in Worker : /\ phase[e] = "idle"
                                /\ phase' = [phase EXCEPT ![e] = "launched"]
                                /\ of' = [of EXCEPT ![e] = target[c]]
                                /\ cancels' = [cancels EXCEPT ![target[c]] = e]
        BY <3>1 DEF LaunchChatRun
      <4> QED
        BY <4>1, <4>2, <2>t DEF WorkersType, ServerType
    <3>2. CASE UNCHANGED <<phase, of, cancels, answered>>
      BY <3>2, <2>1
    <3> QED
      BY <2>3, <3>1, <3>2, HandlerScope
  <2>4. ASSUME NEW e \in Worker, Execute(e) PROVE CancelsAreCurrent'
    <3>1. CASE Leave(e)
      <4>1. /\ of[e] \in Run
            /\ cancels' = [cancels EXCEPT ![of[e]] = None]
            /\ phase' = [phase EXCEPT ![e] = "idle"]
            /\ of' = [of EXCEPT ![e] = None]
        BY <3>1 DEF Leave, Proceed, WorkersInv
      <4> QED
        BY <4>1, <2>t DEF WorkersType, ServerType
    <3>2. CASE ~Leave(e)
      <4>1. UNCHANGED <<of, cancels>> /\ \E step \in Phases \ {"idle"} : Proceed(e, step)
        BY <2>4, <3>2 DEF Execute, Begin, ReadSession, CheckStatus, Decide, SaveAnswer, CompleteChatRun,
                          FailChatRun, Phases
      <4> QED
        BY <4>1, <2>2
    <3> QED
      BY <3>1, <3>2
  <2>5. CASE \E e \in Worker : TimeOut(e)
    BY <2>5, <2>1 DEF TimeOut
  <2>6. CASE Crash
    BY <2>6 DEF Crash
  <2>7. CASE Restart \/ UNCHANGED vars
    BY <2>7, <2>1 DEF Restart, vars, workers
  <2> QED
    BY <2>3, <2>4, <2>5, <2>6, <2>7 DEF Next
<1> QED
  BY <1>1, <1>2, Inductive, PTL DEF Spec

\* A run whose row says completed has had its answer saved first: no pause,
\* cancel, resume, failure, crash or recovery completes a run, and the worker
\* that does has come from SaveAnswer.
THEOREM CompletionFollowsAnswer == Spec => []CompletedIsAnswered
<1>1. Init => CompletedIsAnswered
  BY DEF Init, CompletedIsAnswered
<1>2. TypeOK /\ WorkersInv /\ CallsInv /\ CompletedIsAnswered /\ [Next]_vars => CompletedIsAnswered'
  <2> SUFFICES ASSUME TypeOK, WorkersInv, CallsInv, CompletedIsAnswered, [Next]_vars
               PROVE  CompletedIsAnswered'
    OBVIOUS
  <2>t. RowsType /\ HistoryType /\ status \in [Run -> Statuses]
    BY DEF TypeOK, RowsType
  <2> USE DEF CompletedIsAnswered
  <2>1. ASSUME \A r \in Run : status'[r] = "completed" => status[r] = "completed",
               \A r \in Run : answered[r] => answered'[r]
        PROVE  CompletedIsAnswered'
    BY <2>1
  <2>2. ASSUME NEW c \in Client, Handler(c) PROVE CompletedIsAnswered'
    BY <2>1, <2>2, HandlerScope
  <2>3. ASSUME NEW e \in Worker, Execute(e) PROVE CompletedIsAnswered'
    <3>1. CASE Begin(e)
      <4>1. /\ UNCHANGED answered /\ of[e] \in Run
            /\ SetStatus(of[e], "running") \/ MaybeSetStatus(of[e], "running") \/ UNCHANGED status
        BY <3>1 DEF Begin, WorkersInv, history
      <4>2. \A r \in Run : status'[r] = "completed" => status[r] = "completed"
        BY <4>1, <2>t, StatusType DEF Statuses
      <4> QED
        BY <4>1, <4>2, <2>1
    <3>2. CASE ReadSession(e) \/ CheckStatus(e) \/ Decide(e) \/ Leave(e)
      BY <3>2, <2>1 DEF ReadSession, CheckStatus, Decide, Leave, rows, history
    <3>3. CASE SaveAnswer(e)
      BY <3>3, <2>1, <2>t DEF SaveAnswer, HistoryType
    <3>4. CASE CompleteChatRun(e)
      <4>1. /\ UNCHANGED answered /\ of[e] \in Run /\ answered[of[e]]
            /\ SetStatus(of[e], "completed") \/ MaybeSetStatus(of[e], "completed")
        BY <3>4 DEF CompleteChatRun, WorkersInv, history
      <4>2. \A r \in Run : status'[r] # status[r] => r = of[e]
        BY <4>1, <2>t, StatusType DEF Statuses
      <4> QED
        BY <4>1, <4>2
    <3>5. CASE FailChatRun(e)
      <4>1. /\ UNCHANGED answered /\ of[e] \in Run
            /\ SetStatus(of[e], "failed") \/ MaybeSetStatus(of[e], "failed")
        BY <3>5 DEF FailChatRun, WorkersInv, history
      <4>2. \A r \in Run : status'[r] = "completed" => status[r] = "completed"
        BY <4>1, <2>t, StatusType DEF Statuses
      <4> QED
        BY <4>1, <4>2, <2>1
    <3> QED
      BY <2>3, <3>1, <3>2, <3>3, <3>4, <3>5 DEF Execute
  <2>4. CASE \E e \in Worker : TimeOut(e)
    BY <2>4 DEF TimeOut, rows, history
  <2>5. CASE Crash \/ UNCHANGED vars
    BY <2>5 DEF Crash, vars, rows, history
  <2>6. CASE Restart
    BY <2>6, <2>t DEF Restart, history
  <2> QED
    BY <2>2, <2>3, <2>4, <2>5, <2>6 DEF Next
<1> QED
  BY <1>1, <1>2, Inductive, PTL DEF Spec

-----------------------------------------------------------------------------
(* One tab and a database that is up.                                      *)

OneClient == \A c, d \in Client : c = d

\* A server that is down runs no worker and no handler.
DownIsQuiet == up \/ ((\A e \in Worker : phase[e] = "idle") /\ (\A c \in Client : at[c] = "idle"))

\* A worker or a handler moves only while the server is up.
LEMMA QuietHolds == Spec => []DownIsQuiet
<1>1. Init => DownIsQuiet
  BY DEF Init, DownIsQuiet
<1>2. DownIsQuiet /\ [Next]_vars => DownIsQuiet'
  <2> SUFFICES ASSUME DownIsQuiet, [Next]_vars PROVE DownIsQuiet'
    OBVIOUS
  <2> USE DEF DownIsQuiet
  <2>1. ASSUME NEW c \in Client, Handler(c) PROVE DownIsQuiet'
    <3>1. (up \/ at[c] # "idle") /\ up' = up
      BY <2>1 DEF Handler, StartChatRun, CreateChatRun, LaunchChatRun, Pause, Cancel, Resume, WriteStop,
                  CallCancel, ResetChatRun, EditChatMessage, Truncate, AddChatMessage, DeleteChatSession, Call
    <3> QED
      BY <3>1
  <2>2. ASSUME NEW e \in Worker, Execute(e) \/ TimeOut(e) PROVE DownIsQuiet'
    <3>1. phase[e] # "idle" /\ up' = up
      BY <2>2 DEF Execute, TimeOut, Begin, ReadSession, CheckStatus, Decide, SaveAnswer, CompleteChatRun,
                  FailChatRun, Leave
    <3> QED
      BY <3>1
  <2>3. CASE Crash
    BY <2>3 DEF Crash
  <2>4. CASE Restart \/ UNCHANGED vars
    BY <2>4 DEF Restart, vars, workers, calls
  <2> QED
    BY <2>1, <2>2, <2>3, <2>4 DEF Next
<1> QED
  BY <1>1, <1>2, PTL DEF Spec

-----------------------------------------------------------------------------
(* A run that looks active has a worker.                                   *)

LooksActive(r) == status[r] \in {"queued", "running"}

\* A worker that has read its session's row, or is allowed to, writes an outcome.
Begun(e, r) == of[e] = r /\ phase[e] \in {"reading", "invoking", "deciding", "saving", "completing", "failing"}
Works(e, r) == Begun(e, r) \/ (of[e] = r /\ phase[e] = "launched" /\ live[e])

\* An active run has such a worker or will have; while it is stopped, one that a
\* cancelled context no longer keeps from it.
Attended(r) ==
  LooksActive(r) =>
    /\ (\E e \in Worker : Works(e, r)) \/ (\E c \in Client : at[c] = "launching" /\ target[c] = r)
    /\ (\E c \in Client : at[c] = "stopping" /\ target[c] = r) => \E e \in Worker : Begun(e, r)

ActiveInv == up => \A r \in Run : Attended(r)

\* There is no other tab.
Alone(c) == \A d \in Client : d = c

\* A call that is neither a launch nor the second half of a stop, before and
\* after, and that makes no run look active, leaves every run attended.
LEMMA QuietCallAttends ==
  ASSUME NEW c \in Client, Alone(c), \A r \in Run : Attended(r),
         UNCHANGED <<phase, of, live>>,
         at[c] \notin {"launching", "stopping"}, at'[c] \notin {"launching", "stopping"},
         \A r \in Run : LooksActive(r)' => LooksActive(r)
  PROVE  \A r \in Run : Attended(r)'
BY DEF Alone, Attended, Works, Begun

\* A worker that a step of another worker or of a call does not touch goes on
\* attending its run.
LEMMA OthersAttend ==
  ASSUME NEW r \in Run, Attended(r), UNCHANGED <<at, target>>, LooksActive(r)' => LooksActive(r),
         \A e \in Worker : Works(e, r) => Works(e, r)',
         \A e \in Worker : Begun(e, r) => Begun(e, r)'
  PROVE  Attended(r)'
BY DEF Attended

\* Every handler leaves every run attended.
LEMMA HandlerAttends ==
  ASSUME TypeOK, CallsInv, CancelsAreCurrent, ~DBFails, \A r \in Run : Attended(r),
         NEW c \in Client, Alone(c), Handler(c)
  PROVE  \A r \in Run : Attended(r)'
<1>t. RowsType /\ WorkersType /\ CallsType /\ ServerType /\ None \notin Run /\ None \notin Worker
  BY RunAssumption DEF TypeOK
<1>s. status \in [Run -> Statuses] /\ at \in [Client -> Handlers] /\ target \in [Client -> Run \cup {None}]
  BY <1>t DEF RowsType, CallsType
<1>w. \A r \in Run : LooksActive(r) /\ at[c] # "launching" => \E e \in Worker : Works(e, r)
  BY DEF Attended, Alone
<1>1. CASE \/ StartChatRun(c) \/ (\E r \in Run : Pause(c, r) \/ Cancel(c, r) \/ Resume(c, r))
           \/ \E id \in 1..MaxTexts : EditChatMessage(c, id)
  <2>1. PICK r \in Run \cup {None}, id \in 0..MaxTexts,
             step \in {"creating", "pausing", "cancelling", "resuming", "truncating"} :
          Call(c, step, r, id) /\ UNCHANGED <<rows, workers>>
    <3>1. 0 \in 0..MaxTexts /\ 1..MaxTexts \subseteq 0..MaxTexts
      BY RunAssumption
    <3>2. CASE StartChatRun(c) \/ \E r \in Run : Pause(c, r) \/ Cancel(c, r) \/ Resume(c, r)
      BY <3>1, <3>2 DEF StartChatRun, Pause, Cancel, Resume
    <3>3. CASE \E id \in 1..MaxTexts : EditChatMessage(c, id)
      <4>1. PICK id \in 1..MaxTexts : EditChatMessage(c, id)
        BY <3>3
      <4> QED
        BY <3>1, <4>1 DEF EditChatMessage, ActiveChatRun
    <3> QED
      BY <1>1, <3>2, <3>3
  <2>2. at[c] = "idle" /\ at'[c] = step
    BY <2>1, <1>s DEF Call
  <2> QED
    BY <2>1, <2>2, QuietCallAttends DEF rows, workers, LooksActive
<1>2. CASE CreateChatRun(c)
  <2>1. at[c] = "creating" /\ UNCHANGED <<phase, of, live>>
    BY <1>2 DEF CreateChatRun, workers
  <2>2. CASE Answer(c)
    <3>1. at'[c] = "idle" /\ UNCHANGED status
      BY <1>2, <2>2, <1>s DEF CreateChatRun, Answer
    <3> QED
      BY <2>1, <3>1, QuietCallAttends DEF LooksActive
  <2>3. CASE ~Answer(c)
    <3>1. PICK r \in Run : /\ status' = [status EXCEPT ![r] = "queued"]
                           /\ at' = [at EXCEPT ![c] = "launching"]
                           /\ target' = [target EXCEPT ![c] = r]
      BY <1>2, <2>3 DEF CreateChatRun
    <3>2. at'[c] = "launching" /\ target'[c] = r
      BY <3>1, <1>s
    <3>3. ASSUME NEW q \in Run, q # r PROVE Attended(q)'
      <4>1. status'[q] = status[q]
        BY <3>1, <3>3, <1>s
      <4> QED
        BY <2>1, <3>2, <4>1, <1>w DEF Attended, Alone, LooksActive, Works, Begun
    <3>4. Attended(r)'
      BY <3>2 DEF Attended, Alone
    <3> QED
      BY <3>3, <3>4
  <2> QED
    BY <2>2, <2>3
<1>3. CASE LaunchChatRun(c)
  <2>1. PICK e \in Worker : /\ phase[e] = "idle"
                            /\ phase' = [phase EXCEPT ![e] = "launched"]
                            /\ of' = [of EXCEPT ![e] = target[c]]
                            /\ live' = [live EXCEPT ![e] = TRUE]
    BY <1>3 DEF LaunchChatRun
  <2>2. at[c] = "launching" /\ target[c] \in Run /\ at'[c] = "idle" /\ UNCHANGED status
    BY <1>3, <1>s DEF LaunchChatRun, CallsInv, Answer, rows
  <2>r. PICK r \in Run : r = target[c]
    BY <2>2
  <2>3. phase'[e] = "launched" /\ of'[e] = r /\ live'[e]
    BY <2>1, <2>r, <1>t DEF WorkersType
  <2>4. \A f \in Worker : f # e => phase'[f] = phase[f] /\ of'[f] = of[f] /\ live'[f] = live[f]
    BY <2>1, <1>t DEF WorkersType
  <2>5. \A f \in Worker, q \in Run : Works(f, q) => Works(f, q)'
    BY <2>1, <2>4 DEF Works, Begun
  <2>6. Works(e, r)'
    BY <2>3 DEF Works
  <2> QED
    BY <2>2, <2>r, <2>5, <2>6 DEF Attended, Alone, LooksActive
<1>4. CASE WriteStop(c)
  <2>1. /\ at[c] \in {"pausing", "cancelling"} /\ target[c] \in Run
        /\ UNCHANGED <<phase, of, live, target>> /\ at'[c] = "stopping"
    BY <1>4, <1>s DEF WriteStop, Continue, CallsInv, workers
  <2>2. PICK s \in {"paused", "cancelled"} : SetStatus(target[c], s)
    BY <1>4 DEF WriteStop, MaybeSetStatus
  <2>r. PICK r \in Run : r = target[c]
    BY <2>1
  <2>3. ~LooksActive(r)'
    BY <2>1, <2>2, <2>r, <1>s DEF SetStatus, Exists, LooksActive, Statuses
  <2>4. \A q \in Run : q # target[c] => status'[q] = status[q]
    BY <2>1, <2>2, <1>s DEF SetStatus
  <2>5. ASSUME NEW q \in Run, q # target[c] PROVE Attended(q)'
    BY <2>1, <2>4, <2>5, <1>w DEF Attended, Alone, LooksActive, Works, Begun
  <2>6. Attended(r)'
    BY <2>3 DEF Attended
  <2> QED
    BY <2>5, <2>6, <2>r
<1>5. CASE CallCancel(c)
  <2>1. /\ at[c] = "stopping" /\ target[c] \in Run /\ at'[c] \in {"idle", "truncating"}
        /\ UNCHANGED <<phase, of, status>>
    BY <1>5, <1>s DEF CallCancel, Answer, Continue, CallsInv, rows
  <2>2. \A e \in Worker : live'[e] # live[e] => e = cancels[target[c]] /\ e # None
    BY <1>5, <1>t DEF CallCancel, WorkersType
  <2>3. \A e \in Worker : live'[e] # live[e] => of[e] = target[c]
    BY <2>1, <2>2 DEF CancelsAreCurrent
  <2>4. ASSUME NEW q \in Run, q # target[c] PROVE Attended(q)'
    <3>1. \A e \in Worker : Works(e, q) => Works(e, q)'
      BY <2>1, <2>3, <2>4 DEF Works, Begun
    <3> QED
      BY <2>1, <3>1, <1>w DEF Attended, Alone, LooksActive
  <2>r. PICK r \in Run : r = target[c]
    BY <2>1
  <2>5. Attended(r)'
    BY <2>1, <2>r DEF Attended, Alone, LooksActive, Works, Begun
  <2> QED
    BY <2>4, <2>5, <2>r
<1>6. CASE ResetChatRun(c)
  <2>1. /\ at[c] = "resuming" /\ target[c] \in Run /\ UNCHANGED <<phase, of, live>>
    BY <1>6 DEF ResetChatRun, CallsInv, workers
  <2>2. CASE Answer(c)
    <3>1. at'[c] = "idle"
      BY <2>2, <1>s DEF Answer
    <3>2. UNCHANGED status
      BY <1>6, <3>1, <1>s DEF ResetChatRun, MaybeSetStatus, Continue
    <3> QED
      BY <2>1, <3>1, <3>2, QuietCallAttends DEF LooksActive
  <2>3. CASE ~Answer(c)
    <3>1. SetStatus(target[c], "queued") /\ at'[c] = "launching" /\ target' = target
      BY <1>6, <2>3, <1>s DEF ResetChatRun, Continue
    <3>2. \A q \in Run : q # target[c] => status'[q] = status[q]
      BY <2>1, <3>1, <1>s DEF SetStatus
    <3>3. ASSUME NEW q \in Run, q # target[c] PROVE Attended(q)'
      BY <2>1, <3>1, <3>2, <3>3, <1>w DEF Attended, Alone, LooksActive, Works, Begun
    <3>r. PICK r \in Run : r = target[c]
      BY <2>1
    <3>4. Attended(r)'
      BY <3>1, <3>r DEF Attended, Alone
    <3> QED
      BY <3>3, <3>4, <3>r
  <2> QED
    BY <2>2, <2>3
<1>7. CASE Truncate(c)
  <2>1. at[c] = "truncating" /\ at'[c] = "idle" /\ UNCHANGED <<status, workers>>
    BY <1>7, <1>s DEF Truncate, Answer
  <2> QED
    BY <2>1, QuietCallAttends DEF LooksActive, workers
<1>8. CASE \E role \in {"user", "assistant"} : AddChatMessage(c, role)
  <2>1. at[c] = "idle" /\ UNCHANGED <<status, workers, calls>>
    BY <1>8 DEF AddChatMessage
  <2> QED
    BY <2>1, QuietCallAttends DEF LooksActive, workers, calls
<1>9. CASE DeleteChatSession(c)
  <2>1. at[c] = "idle" /\ UNCHANGED <<workers, calls>>
        /\ status' = [r \in Run |-> IF Exists(r) THEN "gone" ELSE status[r]]
    BY <1>9 DEF DeleteChatSession
  <2>2. \A r \in Run : LooksActive(r)' => LooksActive(r)
    BY <2>1 DEF LooksActive
  <2> QED
    BY <2>1, <2>2, QuietCallAttends DEF workers, calls
<1> QED
  BY <1>1, <1>2, <1>3, <1>4, <1>5, <1>6, <1>7, <1>8, <1>9 DEF Handler

\* Every step of a worker leaves every run attended.
LEMMA WorkerAttends ==
  ASSUME TypeOK, WorkersInv, ~DBFails, \A r \in Run : Attended(r),
         NEW e \in Worker, Execute(e) \/ TimeOut(e)
  PROVE  \A r \in Run : Attended(r)'
<1>t. RowsType /\ WorkersType /\ None \notin Run /\ status \in [Run -> Statuses]
  BY RunAssumption DEF TypeOK, RowsType
<1>c. UNCHANGED <<at, target>>
  BY DEF Execute, TimeOut, Begin, ReadSession, CheckStatus, Decide, SaveAnswer, CompleteChatRun,
         FailChatRun, Leave, calls
<1>n. phase[e] # "idle" /\ of[e] \in Run
  BY DEF Execute, TimeOut, Begin, ReadSession, CheckStatus, Decide, SaveAnswer, CompleteChatRun,
         FailChatRun, Leave, WorkersInv
<1>r. PICK r \in Run : r = of[e]
  BY <1>n
\* The worker comes or stays between its first status and its outcome.
<1>1. ASSUME NEW step \in {"reading", "invoking", "deciding", "saving", "completing", "failing"},
             Proceed(e, step), UNCHANGED <<of, live>>,
             \A q \in Run : q # r => status'[q] = status[q], LooksActive(r)' => LooksActive(r)
      PROVE  \A q \in Run : Attended(q)'
  <2>1. \A f \in Worker : f # e => phase'[f] = phase[f]
    BY <1>1, <1>t DEF Proceed, WorkersType
  <2>2. Begun(e, r)'
    BY <1>1, <1>t, <1>r DEF Proceed, WorkersType, Begun
  <2>3. \A f \in Worker, q \in Run : (Works(f, q) => Works(f, q)') /\ (Begun(f, q) => Begun(f, q)')
    BY <1>1, <1>r, <2>1, <2>2 DEF Works, Begun
  <2>4. \A q \in Run : LooksActive(q)' => LooksActive(q)
    BY <1>1 DEF LooksActive
  <2> QED
    BY <2>3, <2>4, <1>c, OthersAttend
\* It leaves, or its context ends, after it has no say in whether its run looks active.
<1>2. ASSUME \A f \in Worker : f # e => phase'[f] = phase[f] /\ of'[f] = of[f] /\ live'[f] = live[f],
             ~LooksActive(r)' \/ (~Works(e, r) /\ ~Begun(e, r)),
             \A q \in Run : q # r => status'[q] = status[q], LooksActive(r)' => LooksActive(r)
      PROVE  \A q \in Run : Attended(q)'
  <2>1. ASSUME NEW q \in Run, LooksActive(q)' PROVE Attended(q)'
    <3>1. ~Works(e, q) /\ ~Begun(e, q)
      BY <1>2, <1>r, <2>1 DEF Works, Begun
    <3>2. \A f \in Worker : (Works(f, q) => Works(f, q)') /\ (Begun(f, q) => Begun(f, q)')
      BY <1>2, <3>1 DEF Works, Begun
    <3>3. LooksActive(q)
      BY <1>2, <2>1 DEF LooksActive
    <3> QED
      BY <3>2, <3>3, <1>c, OthersAttend
  <2>2. \A q \in Run : ~LooksActive(q)' => Attended(q)'
    BY DEF Attended
  <2> QED
    BY <2>1, <2>2
<1>o. ASSUME NEW step, Proceed(e, step), UNCHANGED <<of, live>>
      PROVE  \A f \in Worker : f # e => phase'[f] = phase[f] /\ of'[f] = of[f] /\ live'[f] = live[f]
  BY <1>o, <1>t DEF Proceed, WorkersType
<1>3. CASE Begin(e)
  <2>1. phase[e] = "launched" /\ UNCHANGED <<of, live>>
    BY <1>3 DEF Begin
  <2>2. CASE live[e] /\ Exists(r)
    <3>1. SetStatus(r, "running") /\ Proceed(e, "reading")
      BY <1>3, <1>r, <2>2 DEF Begin, MaybeSetStatus
    <3>2. status'[r] = "running" /\ \A q \in Run : q # r => status'[q] = status[q]
      BY <3>1, <2>2, <1>t DEF SetStatus
    <3>3. Begun(e, r)'
      BY <2>1, <3>1, <1>r, <1>t DEF Begun, Proceed, WorkersType
    <3>4. Attended(r)'
      BY <3>3 DEF Attended, Works
    <3>5. \A f \in Worker, q \in Run \ {r} : (Works(f, q) => Works(f, q)') /\ (Begun(f, q) => Begun(f, q)')
      BY <2>1, <3>1, <1>o, <1>r DEF Works, Begun
    <3>6. \A q \in Run \ {r} : LooksActive(q)' => LooksActive(q)
      BY <3>2 DEF LooksActive
    <3>7. \A q \in Run \ {r} : Attended(q)'
      BY <3>5, <3>6, <1>c, OthersAttend
    <3> QED
      BY <3>4, <3>7
  <2>3. CASE ~(live[e] /\ Exists(r))
    <3>1. Proceed(e, "leaving") /\ UNCHANGED status
      BY <1>3, <1>r, <2>3 DEF Begin, MaybeSetStatus
    <3>2. ~LooksActive(r) \/ (~Works(e, r) /\ ~Begun(e, r))
      BY <2>1, <2>3 DEF LooksActive, Exists, Works, Begun
    <3> QED
      BY <2>1, <3>1, <3>2, <1>2, <1>o DEF LooksActive
  <2> QED
    BY <2>2, <2>3
<1>4. CASE ReadSession(e) \/ Decide(e) \/ SaveAnswer(e) \/ (CheckStatus(e) /\ ~Proceed(e, "leaving"))
  <2>1. UNCHANGED <<status, of, live>>
        /\ \E step \in {"reading", "invoking", "deciding", "saving", "completing", "failing"} : Proceed(e, step)
    BY <1>4 DEF ReadSession, Decide, SaveAnswer, CheckStatus, rows
  <2> QED
    BY <2>1, <1>1 DEF LooksActive
<1>5. CASE CheckStatus(e) /\ Proceed(e, "leaving")
  <2>1. UNCHANGED <<status, of, live>> /\ status[r] \in {"paused", "cancelled"}
    BY <1>5, <1>r, <1>t DEF CheckStatus, rows, Proceed, WorkersType
  <2> QED
    BY <1>5, <2>1, <1>2, <1>o DEF LooksActive
<1>6. CASE CompleteChatRun(e) \/ FailChatRun(e)
  <2>1. /\ Proceed(e, "leaving") /\ UNCHANGED <<of, live>>
        /\ \E s \in {"completed", "failed"} : SetStatus(r, s)
    BY <1>6, <1>r DEF CompleteChatRun, FailChatRun, MaybeSetStatus
  <2>2. ~LooksActive(r)' /\ \A q \in Run : q # r => status'[q] = status[q]
    BY <2>1, <1>t DEF SetStatus, LooksActive, Exists
  <2> QED
    BY <2>1, <2>2, <1>2, <1>o
<1>7. CASE Leave(e)
  <2>1. phase[e] = "leaving" /\ UNCHANGED status
    BY <1>7 DEF Leave, rows
  <2>2. \A f \in Worker : f # e => phase'[f] = phase[f] /\ of'[f] = of[f] /\ live'[f] = live[f]
    BY <1>7, <1>t DEF Leave, Proceed, WorkersType
  <2> QED
    BY <2>1, <2>2, <1>2 DEF LooksActive, Works, Begun
<1>8. CASE TimeOut(e)
  <2>1. phase[e] # "launched" /\ UNCHANGED <<status, phase, of>>
    BY <1>8 DEF TimeOut, rows
  <2>2. \A f \in Worker : f # e => live'[f] = live[f]
    BY <1>8, <1>t DEF TimeOut, WorkersType
  <2>3. \A f \in Worker, q \in Run : (Works(f, q) => Works(f, q)') /\ (Begun(f, q) => Begun(f, q)')
    BY <2>1, <2>2 DEF Works, Begun
  <2> QED
    BY <2>1, <2>3, <1>c, OthersAttend DEF LooksActive
<1> QED
  BY <1>3, <1>4, <1>5, <1>6, <1>7, <1>8 DEF Execute

\* A run whose row says queued or running has a worker that will still write its
\* outcome, or a handler about to launch one: with one tab, whatever it pauses,
\* cancels, resumes, edits or deletes and whenever the server crashes, as long as
\* the database answers.
THEOREM ActiveRunsHaveWorkers == OneClient /\ ~DBFails => (Spec => []ActiveHasWorker)
<1> SUFFICES ASSUME OneClient, ~DBFails PROVE Spec => []ActiveHasWorker
  OBVIOUS
<1>1. Init => ActiveInv
  BY DEF Init, ActiveInv, Attended, LooksActive
<1>2. ASSUME TypeOK, WorkersInv, CallsInv, CancelsAreCurrent, DownIsQuiet, ActiveInv, [Next]_vars
      PROVE  ActiveInv'
  <2>1. CASE Crash
    BY <2>1 DEF Crash, ActiveInv
  <2>2. CASE Restart
    <3>1. \A r \in Run : ~LooksActive(r)'
      BY <1>2, <2>2 DEF Restart, LooksActive
    <3> QED
      BY <3>1 DEF ActiveInv, Attended
  <2>3. ASSUME NEW c \in Client, Handler(c) PROVE ActiveInv'
    <3>1. up
      BY <1>2, <2>3 DEF DownIsQuiet, Handler, StartChatRun, CreateChatRun, LaunchChatRun, Pause, Cancel, Resume,
         WriteStop, CallCancel, ResetChatRun, EditChatMessage, Truncate, AddChatMessage, DeleteChatSession, Call
    <3>2. Alone(c)
      BY DEF OneClient, Alone
    <3> QED
      BY <1>2, <2>3, <3>1, <3>2, HandlerAttends DEF ActiveInv
  <2>4. ASSUME NEW e \in Worker, Execute(e) \/ TimeOut(e) PROVE ActiveInv'
    <3>1. up
      BY <1>2, <2>4 DEF DownIsQuiet, Execute, TimeOut, Begin, ReadSession, CheckStatus, Decide, SaveAnswer,
         CompleteChatRun, FailChatRun, Leave
    <3> QED
      BY <1>2, <2>4, <3>1, WorkerAttends DEF ActiveInv
  <2>5. CASE UNCHANGED vars
    BY <1>2, <2>5 DEF vars, rows, workers, calls, ActiveInv, Attended, LooksActive, Works, Begun
  <2> QED
    BY <1>2, <2>1, <2>2, <2>3, <2>4, <2>5 DEF Next
<1>3. ActiveInv => ActiveHasWorker
  BY DEF ActiveInv, ActiveHasWorker, Attended, LooksActive, Works, Begun
<1> QED
  BY <1>1, <1>2, <1>3, Inductive, EntriesAreCurrent, QuietHolds, PTL DEF Spec

-----------------------------------------------------------------------------
(* A run that was never resumed has one worker in its life.                *)

Once(r) ==
  /\ \A e \in Worker : of[e] = r => cancels[r] = e /\ (stopped[r] => ~live[e])
  /\ \A c \in Client : at[c] = "launching" /\ target[c] = r =>
       ~stopped[r] /\ status[r] = "queued" /\ \A e \in Worker : of[e] # r
  /\ status[r] = "none" =>
       ~stopped[r] /\ (\A e \in Worker : of[e] # r) /\ (\A c \in Client : target[c] # r)

OnceInv == \A r \in Run : ~resumed[r] => Once(r)

\* No step gives up a row or makes one but CreateChatRun.
LEMMA RowsStay ==
  ASSUME TypeOK, WorkersInv, CallsInv, [Next]_vars
  PROVE  \A r \in Run : /\ status[r] # "none" => status'[r] # "none"
                        /\ status'[r] # "none" /\ status[r] = "none" =>
                             /\ \E c \in Client : CreateChatRun(c)
                             /\ \A q \in Run : q < r => status[q] # "none"
<1>t. RowsType /\ status \in [Run -> Statuses]
  BY DEF TypeOK, RowsType
<1>k. ASSUME NEW r \in Run, NEW s \in Statuses, s # "none", SetStatus(r, s) \/ MaybeSetStatus(r, s)
      PROVE  \A q \in Run : status'[q] = "none" <=> status[q] = "none"
  BY <1>k, <1>t DEF SetStatus, MaybeSetStatus, Exists
<1>u. ASSUME UNCHANGED status PROVE \A q \in Run : status'[q] = "none" <=> status[q] = "none"
  BY <1>u
<1>s. {"queued", "running", "paused", "cancelled", "completed", "failed"} \subseteq Statuses \ {"none"}
  BY DEF Statuses
<1>1. ASSUME NEW c \in Client, Handler(c), ~CreateChatRun(c)
      PROVE  \A q \in Run : status'[q] = "none" <=> status[q] = "none"
  <2>1. CASE WriteStop(c)
    <3>1. target[c] \in Run /\ \E s \in {"paused", "cancelled"} :
            SetStatus(target[c], s) \/ MaybeSetStatus(target[c], s)
      BY <2>1 DEF WriteStop, CallsInv
    <3> QED
      BY <3>1, <1>k, <1>s
  <2>2. CASE ResetChatRun(c)
    <3>1. target[c] \in Run /\ (SetStatus(target[c], "queued") \/ MaybeSetStatus(target[c], "queued")
                                \/ UNCHANGED status)
      BY <2>2 DEF ResetChatRun, CallsInv
    <3> QED
      BY <3>1, <1>k, <1>u, <1>s
  <2>3. CASE DeleteChatSession(c)
    BY <2>3, <1>t DEF DeleteChatSession, Exists
  <2>4. CASE ~(WriteStop(c) \/ ResetChatRun(c) \/ DeleteChatSession(c))
    BY <1>1, <2>4, <1>u DEF Handler, StartChatRun, LaunchChatRun, Pause, Cancel, Resume, CallCancel,
                            EditChatMessage, Truncate, AddChatMessage, rows
  <2> QED
    BY <2>1, <2>2, <2>3, <2>4
<1>2. ASSUME NEW c \in Client, CreateChatRun(c)
      PROVE  \A r \in Run : /\ status[r] # "none" => status'[r] # "none"
                            /\ status'[r] # "none" /\ status[r] = "none" =>
                                 \A q \in Run : q < r => status[q] # "none"
  <2> DEFINE new == {r \in Run : status[r] = "none" /\ \A q \in Run : q < r => status[q] # "none"}
  <2>1. status' = status \/ \E r \in new : status' = [status EXCEPT ![r] = "queued"]
    BY <1>2 DEF CreateChatRun
  <2> QED
    BY <2>1, <1>t
<1>3. ASSUME NEW e \in Worker, Execute(e) \/ TimeOut(e)
      PROVE  \A q \in Run : status'[q] = "none" <=> status[q] = "none"
  <2>1. \/ UNCHANGED status
        \/ /\ of[e] \in Run
           /\ \E s \in {"running", "completed", "failed"} : SetStatus(of[e], s) \/ MaybeSetStatus(of[e], s)
    BY <1>3 DEF Execute, TimeOut, Begin, ReadSession, CheckStatus, Decide, SaveAnswer, CompleteChatRun,
                FailChatRun, Leave, rows, WorkersInv
  <2> QED
    BY <2>1, <1>k, <1>u, <1>s
<1>4. CASE Crash \/ UNCHANGED vars
  BY <1>4 DEF Crash, vars, rows
<1>5. CASE Restart
  BY <1>5, <1>t DEF Restart
<1> QED
  BY <1>1, <1>2, <1>3, <1>4, <1>5 DEF Next

\* Every handler keeps a run that was never resumed to one worker.
LEMMA HandlerOnce ==
  ASSUME TypeOK, WorkersInv, CallsInv, CancelsAreCurrent, OnceInv, [Next]_vars,
         NEW c \in Client, Alone(c), Handler(c), NEW r \in Run, ~resumed'[r]
  PROVE  Once(r)'
<1>t. RowsType /\ WorkersType /\ CallsType /\ ServerType /\ HistoryType /\ None \notin Run /\ None \notin Worker
  BY RunAssumption DEF TypeOK
<1>s. status \in [Run -> Statuses] /\ at \in [Client -> Handlers] /\ target \in [Client -> Run \cup {None}]
      /\ live \in [Worker -> BOOLEAN] /\ of \in [Worker -> Run \cup {None}]
      /\ resumed \in [Run -> BOOLEAN] /\ stopped \in [Run -> BOOLEAN]
  BY <1>t DEF RowsType, CallsType, WorkersType, HistoryType
<1>n. status'[r] = "none" => status[r] = "none"
  BY RowsStay
\* What a call that is no launch does to workers and history suffices.
<1>k. ASSUME ~resumed[r], UNCHANGED <<of, cancels>>, stopped'[r] = stopped[r],
             \A e \in Worker : live'[e] => live[e],
             at'[c] # "launching", status[r] = "none" => target'[c] # r
      PROVE  Once(r)'
  BY <1>k, <1>n, <1>s DEF OnceInv, Once, Alone
<1>1. CASE \/ StartChatRun(c) \/ (\E q \in Run : Pause(c, q) \/ Cancel(c, q) \/ Resume(c, q))
           \/ \E id \in 1..MaxTexts : EditChatMessage(c, id)
  <2>1. PICK q \in Run \cup {None}, id \in 0..MaxTexts,
             step \in {"creating", "pausing", "cancelling", "resuming", "truncating"} :
          Call(c, step, q, id) /\ UNCHANGED <<rows, cancels, workers, history>> /\ (q # None => status[q] # "none")
    <3>1. 0 \in 0..MaxTexts /\ 1..MaxTexts \subseteq 0..MaxTexts
      BY RunAssumption
    <3>2. CASE StartChatRun(c) \/ \E q \in Run : Pause(c, q) \/ Cancel(c, q) \/ Resume(c, q)
      BY <3>1, <3>2 DEF StartChatRun, Pause, Cancel, Resume, Exists
    <3>3. CASE \E id \in 1..MaxTexts : EditChatMessage(c, id)
      <4>1. PICK id \in 1..MaxTexts : EditChatMessage(c, id)
        BY <3>3
      <4> QED
        BY <3>1, <4>1 DEF EditChatMessage, ActiveChatRun, Active
    <3> QED
      BY <1>1, <3>2, <3>3
  <2>2. at'[c] = step /\ target'[c] = q
    BY <2>1, <1>s DEF Call
  <2> QED
    BY <2>1, <2>2, <1>k, <1>t DEF workers, history
<1>2. CASE CreateChatRun(c)
  <2>1. at[c] = "creating" /\ UNCHANGED <<cancels, workers, history>>
    BY <1>2 DEF CreateChatRun
  <2>2. CASE Answer(c)
    <3>1. at'[c] = "idle" /\ target'[c] = None
      BY <2>2, <1>s DEF Answer
    <3> QED
      BY <2>1, <3>1, <1>k, <1>t DEF workers, history
  <2>3. CASE ~Answer(c)
    <3>1. PICK q \in Run : /\ status[q] = "none"
                           /\ status' = [status EXCEPT ![q] = "queued"]
                           /\ at' = [at EXCEPT ![c] = "launching"]
                           /\ target' = [target EXCEPT ![c] = q]
      BY <1>2, <2>3 DEF CreateChatRun
    <3>2. at'[c] = "launching" /\ target'[c] = q /\ status'[q] = "queued"
      BY <3>1, <1>s
    <3>3. Once(r)
      BY <2>1 DEF OnceInv, history
    <3>4. CASE r = q
      <4>1. ~stopped[r] /\ \A e \in Worker : of[e] # r
        BY <3>1, <3>3, <3>4 DEF Once
      <4> QED
        BY <2>1, <3>2, <3>4, <4>1 DEF Once, workers, history
    <3>5. CASE r # q
      BY <2>1, <3>2, <3>3, <3>5, <1>n DEF Once, Alone, workers, history
    <3> QED
      BY <3>4, <3>5
  <2> QED
    BY <2>2, <2>3
<1>3. CASE LaunchChatRun(c)
  <2>1. PICK e \in Worker : /\ phase[e] = "idle"
                            /\ of' = [of EXCEPT ![e] = target[c]]
                            /\ live' = [live EXCEPT ![e] = TRUE]
                            /\ cancels' = [cancels EXCEPT ![target[c]] = e]
    BY <1>3 DEF LaunchChatRun
  <2>2. /\ at[c] = "launching" /\ target[c] \in Run /\ at'[c] = "idle" /\ target'[c] = None
        /\ UNCHANGED <<status, history>>
    BY <1>3, <1>s DEF LaunchChatRun, CallsInv, Answer, rows
  <2>3. of'[e] = target[c] /\ \A f \in Worker : f # e => of'[f] = of[f] /\ live'[f] = live[f]
    BY <2>1, <1>s
  <2>4. cancels'[target[c]] = e /\ \A q \in Run : q # target[c] => cancels'[q] = cancels[q]
    BY <2>1, <2>2, <1>t DEF ServerType
  <2>5. Once(r)
    BY <2>2 DEF OnceInv, history
  <2>6. CASE r = target[c]
    <3>1. ~stopped[r] /\ status[r] = "queued" /\ \A f \in Worker : of[f] # r
      BY <2>2, <2>5, <2>6 DEF Once
    <3>2. \A f \in Worker : of'[f] = r => f = e
      BY <2>3, <3>1
    <3> QED
      BY <2>2, <2>4, <2>6, <3>1, <3>2 DEF Once, Alone, history
  <2>7. CASE r # target[c]
    BY <2>2, <2>3, <2>4, <2>5, <2>7, <1>t DEF Once, Alone, history
  <2> QED
    BY <2>6, <2>7
<1>4. CASE WriteStop(c)
  <2>1. UNCHANGED <<cancels, workers, history, target>> /\ at'[c] = "stopping" /\ ~resumed[r]
    BY <1>4, <1>s DEF WriteStop, Continue, history
  <2>2. status[r] = "none" => target[c] # r
    BY <2>1 DEF OnceInv, Once
  <2> QED
    BY <2>1, <2>2, <1>k DEF workers, history
<1>5. CASE CallCancel(c)
  <2>1. /\ at[c] = "stopping" /\ target[c] \in Run /\ at'[c] \in {"idle", "truncating"}
        /\ target'[c] \in {target[c], None}
        /\ UNCHANGED <<of, cancels, status, resumed>>
        /\ stopped' = [stopped EXCEPT ![target[c]] = TRUE]
    BY <1>5, <1>s DEF CallCancel, Answer, Continue, CallsInv, rows
  <2>2. Once(r)
    BY <2>1 DEF OnceInv
  <2>3. \A e \in Worker : (live'[e] => live[e]) /\ (e = cancels[target[c]] => ~live'[e])
    BY <1>5, <1>s, <1>t DEF CallCancel
  <2>4. CASE r = target[c]
    BY <2>1, <2>2, <2>3, <2>4, <1>n, <1>s, <1>t DEF Once, Alone
  <2>5. CASE r # target[c]
    <3>1. stopped'[r] = stopped[r] /\ target'[c] # r
      BY <2>1, <2>5, <1>s, <1>t
    <3> QED
      BY <2>1, <2>3, <3>1, <1>k
  <2> QED
    BY <2>4, <2>5
<1>6. CASE ResetChatRun(c)
  <2>1. /\ target[c] \in Run /\ UNCHANGED <<cancels, workers>>
        /\ resumed' = [resumed EXCEPT ![target[c]] = TRUE]
        /\ stopped' = [stopped EXCEPT ![target[c]] = FALSE]
        /\ target'[c] \in {target[c], None}
    BY <1>6, <1>s DEF ResetChatRun, CallsInv, Answer, Continue
  <2>2. r # target[c] /\ ~resumed[r] /\ stopped'[r] = stopped[r]
    BY <2>1, <1>s
  <2>3. Once(r)
    BY <2>2 DEF OnceInv
  <2> QED
    BY <2>1, <2>2, <2>3, <1>n, <1>t DEF Once, Alone, workers
<1>7. CASE Truncate(c)
  <2>1. UNCHANGED <<cancels, workers, history>> /\ at'[c] = "idle" /\ target'[c] = None
    BY <1>7, <1>s DEF Truncate, Answer
  <2> QED
    BY <2>1, <1>k, <1>t DEF workers, history
<1>8. CASE DeleteChatSession(c) \/ \E role \in {"user", "assistant"} : AddChatMessage(c, role)
  <2>1. UNCHANGED <<cancels, workers, history, calls>> /\ at[c] = "idle"
    BY <1>8 DEF AddChatMessage, DeleteChatSession
  <2>2. status[r] = "none" => target[c] # r
    BY <2>1 DEF OnceInv, Once, history
  <2> QED
    BY <2>1, <2>2, <1>k DEF workers, history, calls
<1> QED
  BY <1>1, <1>2, <1>3, <1>4, <1>5, <1>6, <1>7, <1>8 DEF Handler

\* Every step of a worker keeps a run that was never resumed to one worker.
LEMMA WorkerOnce ==
  ASSUME TypeOK, WorkersInv, CallsInv, OnceInv, [Next]_vars,
         NEW e \in Worker, Execute(e) \/ TimeOut(e), NEW r \in Run, ~resumed'[r]
  PROVE  Once(r)'
<1>t. /\ WorkersType /\ ServerType /\ None \notin Run /\ None \notin Worker
      /\ live \in [Worker -> BOOLEAN] /\ of \in [Worker -> Run \cup {None}] /\ RowsType
      /\ cancels \in [Run -> Worker \cup {None}]
  BY RunAssumption DEF TypeOK, WorkersType, ServerType
<1>c. UNCHANGED <<at, target, resumed, stopped>> /\ of[e] \in Run
  BY DEF Execute, TimeOut, Begin, ReadSession, CheckStatus, Decide, SaveAnswer, CompleteChatRun,
         FailChatRun, Leave, calls, history, WorkersInv
<1>o. Once(r)
  BY <1>c DEF OnceInv
<1>n. status'[r] = "none" => status[r] = "none"
  BY RowsStay
\* While a launch is under way the run has no worker whose step could be this one.
<1>q. (\E c \in Client : at[c] = "launching" /\ target[c] = r) => status'[r] = status[r]
  <2>1. (\E c \in Client : at[c] = "launching" /\ target[c] = r) => of[e] # r
    BY <1>o DEF Once
  <2>2. \/ UNCHANGED status
        \/ \E s \in {"running", "completed", "failed"} : SetStatus(of[e], s) \/ MaybeSetStatus(of[e], s)
    BY DEF Execute, TimeOut, Begin, ReadSession, CheckStatus, Decide, SaveAnswer, CompleteChatRun,
           FailChatRun, Leave, rows
  <2>3. of[e] # r => status'[r] = status[r]
    BY <2>2, <1>c, <1>t, StatusType DEF Statuses
  <2> QED
    BY <2>1, <2>3
<1>1. CASE Leave(e)
  <2>1. /\ cancels' = [cancels EXCEPT ![of[e]] = None]
        /\ of' = [of EXCEPT ![e] = None]
        /\ live' = [live EXCEPT ![e] = FALSE]
    BY <1>1 DEF Leave
  <2>2. \A f \in Worker : of'[f] = r => f # e /\ of[f] = r
    BY <2>1, <1>t
  <2>3. ASSUME NEW f \in Worker, of'[f] = r PROVE cancels'[r] = f /\ live'[f] = live[f]
    <3>1. f # e /\ cancels[r] = f
      BY <2>2, <2>3, <1>o DEF Once
    <3>2. of[e] = r => cancels[r] = e
      BY <1>o DEF Once
    <3> QED
      BY <2>1, <3>1, <3>2, <1>t
  <2> QED
    BY <2>2, <2>3, <1>o, <1>c, <1>n, <1>q DEF Once
<1>2. CASE ~Leave(e)
  <2>1. UNCHANGED <<of, cancels>> /\ (UNCHANGED live \/ live' = [live EXCEPT ![e] = FALSE])
    BY <1>2 DEF Execute, TimeOut, Begin, ReadSession, CheckStatus, Decide, SaveAnswer, CompleteChatRun,
           FailChatRun
  <2>2. \A f \in Worker : live'[f] => live[f]
    BY <2>1, <1>t
  <2> QED
    BY <2>1, <2>2, <1>o, <1>c, <1>n, <1>q DEF Once
<1> QED
  BY <1>1, <1>2

\* With one tab, a run that was never resumed has one worker in its life.
LEMMA OnceHolds == OneClient => (Spec => []OnceInv)
<1> SUFFICES ASSUME OneClient PROVE Spec => []OnceInv
  OBVIOUS
<1>1. Init => OnceInv
  BY RunAssumption DEF Init, OnceInv, Once
<1>2. ASSUME TypeOK, WorkersInv, CallsInv, CancelsAreCurrent, DownIsQuiet, OnceInv, [Next]_vars
      PROVE  OnceInv'
  <2>r. RowsType /\ None \notin Run
    BY <1>2, RunAssumption DEF TypeOK
  <2>1. ASSUME NEW c \in Client, Handler(c) PROVE OnceInv'
    <3>1. Alone(c)
      BY DEF OneClient, Alone
    <3> QED
      BY <1>2, <2>1, <3>1, HandlerOnce DEF OnceInv
  <2>2. ASSUME NEW e \in Worker, Execute(e) \/ TimeOut(e) PROVE OnceInv'
    BY <1>2, <2>2, WorkerOnce DEF OnceInv
  <2>3. CASE Crash
    <3>1. \A e \in Worker : of'[e] = None
      BY <2>3 DEF Crash
    <3>2. \A c \in Client : at'[c] = "idle" /\ target'[c] = None
      BY <2>3 DEF Crash
    <3>3. UNCHANGED <<status, resumed, stopped>>
      BY <2>3 DEF Crash, rows, history
    <3> QED
      BY <1>2, <2>r, <3>1, <3>2, <3>3 DEF OnceInv, Once
  <2>4. CASE Restart
    <3>1. \A c \in Client : at[c] = "idle"
      BY <1>2, <2>4 DEF Restart, DownIsQuiet
    <3>2. UNCHANGED <<cancels, workers, calls, history>>
      BY <2>4 DEF Restart
    <3>3. \A r \in Run : status'[r] = "none" => status[r] = "none"
      BY <1>2, RowsStay
    <3> QED
      BY <1>2, <3>1, <3>2, <3>3 DEF OnceInv, Once, workers, calls, history
  <2>5. CASE UNCHANGED vars
    BY <1>2, <2>5 DEF vars, rows, workers, calls, history, OnceInv, Once
  <2> QED
    BY <1>2, <2>1, <2>2, <2>3, <2>4, <2>5 DEF Next
<1> QED
  BY <1>1, <1>2, Inductive, EntriesAreCurrent, QuietHolds, PTL DEF Spec

\* Only Decide takes a worker from its last look at its context to the saving of
\* an answer, and it looks.
LEMMA SavingIsDecided ==
  ASSUME TypeOK, [Next]_vars, NEW e \in Worker, phase[e] = "deciding", phase'[e] = "saving"
  PROVE  live[e]
<1>t. phase \in [Worker -> Phases]
  BY DEF TypeOK, WorkersType
<1>1. \A c \in Client : ~Handler(c)
  <2> SUFFICES ASSUME NEW c \in Client, Handler(c) PROVE FALSE
    OBVIOUS
  <2>1. CASE LaunchChatRun(c)
    <3>1. PICK f \in Worker : phase[f] = "idle" /\ phase' = [phase EXCEPT ![f] = "launched"]
      BY <2>1 DEF LaunchChatRun
    <3> QED
      BY <3>1, <1>t
  <2>2. CASE ~LaunchChatRun(c)
    <3>1. UNCHANGED phase
      BY <2>2 DEF Handler, StartChatRun, CreateChatRun, Pause, Cancel, Resume, WriteStop, CallCancel,
                  ResetChatRun, EditChatMessage, Truncate, AddChatMessage, DeleteChatSession, workers
    <3> QED
      BY <3>1
  <2> QED
    BY <2>1, <2>2
<1>2. ASSUME NEW f \in Worker, Execute(f) PROVE live[e]
  <2>1. CASE f = e
    BY <1>2, <2>1, <1>t DEF Execute, Begin, ReadSession, CheckStatus, Decide, SaveAnswer, CompleteChatRun,
                            FailChatRun, Leave, Proceed
  <2>2. CASE f # e
    <3>1. \E step : Proceed(f, step)
      BY <1>2 DEF Execute, Begin, ReadSession, CheckStatus, Decide, SaveAnswer, CompleteChatRun, FailChatRun,
                  Leave
    <3> QED
      BY <2>2, <3>1, <1>t DEF Proceed
  <2> QED
    BY <2>1, <2>2
<1>3. CASE (\E f \in Worker : TimeOut(f)) \/ Restart \/ UNCHANGED vars
  BY <1>3 DEF TimeOut, Restart, vars, workers
<1>4. CASE Crash
  BY <1>4 DEF Crash
<1> QED
  BY <1>1, <1>2, <1>3, <1>4 DEF Next

\* Once a pause, a cancel or an edit of the one tab has been answered, a worker of
\* that run which has not yet looked at its context saves no answer, whatever of
\* the database fails, unless the run has been resumed.
THEOREM StopsAreHonoured == OneClient => (Spec => StopIsHonoured)
<1> SUFFICES ASSUME OneClient PROVE Spec => StopIsHonoured
  OBVIOUS
<1>1. ASSUME TypeOK, WorkersInv, OnceInv, [Next]_vars, NEW e \in Worker, phase[e] = "deciding", phase'[e] = "saving"
      PROVE  resumed[of[e]] \/ ~stopped[of[e]]
  <2>1. live[e]
    BY <1>1, SavingIsDecided
  <2>2. of[e] \in Run
    BY <1>1 DEF WorkersInv
  <2> QED
    BY <1>1, <2>1, <2>2 DEF OnceInv, Once
<1>2. TypeOK /\ WorkersInv /\ OnceInv /\ [Next]_vars =>
        [\A e \in Worker : phase[e] = "deciding" /\ phase'[e] = "saving"
                           => resumed[of[e]] \/ ~stopped[of[e]]]_vars
  BY <1>1
<1> QED
  BY <1>2, Inductive, OnceHolds, PTL DEF Spec, StopIsHonoured

-----------------------------------------------------------------------------
(* A worker answers what the session says.                                 *)

\* Runs are created one after the other.
InOrder == \A r, q \in Run : q < r /\ status[r] # "none" => status[q] # "none"

Newest(r) == \A q \in Run : q > r => status[q] = "none"

\* A worker of a run that was never resumed, whose context is not done and which
\* has not yet decided to save.
Answering(e, r) ==
  /\ of[e] = r /\ live[e] /\ phase[e] \in {"launched", "reading", "invoking", "deciding"}
  /\ session /\ ~resumed[r]

\* Its run is the one that an edit would cancel, and no edit goes on beside it.
Foremost(r) ==
  /\ Newest(r)
  /\ Active(r) \/ \E c \in Client : at[c] = "stopping" /\ target[c] = r
  /\ \A c \in Client : /\ at[c] \notin {"creating", "truncating"}
                       /\ at[c] \in {"pausing", "cancelling", "stopping"} /\ editing[c] # 0
                            => target[c] = r

HasCurrentText(e) == phase[e] \in {"invoking", "deciding"} => read[e] \in UserTexts(messages) \cup {0}

TextInv ==
  /\ InOrder
  /\ \A c \in Client, r \in Run : at[c] = "launching" /\ target[c] = r /\ ~resumed[r] => Newest(r)
  /\ \A e \in Worker, r \in Run : Answering(e, r) => Foremost(r) /\ HasCurrentText(e)

\* What is appended takes no text away.
LEMMA UserTextsGrow ==
  ASSUME NEW ms \in Seq(Message), NEW m \in Message
  PROVE  UserTexts(ms) \subseteq UserTexts(Append(ms, m))
<1>1. Len(ms) \in Nat /\ DOMAIN ms = 1..Len(ms)
  BY LenProperties
<1>2. /\ Append(ms, m) \in Seq(Message) /\ Len(Append(ms, m)) = Len(ms) + 1
      /\ \A i \in 1..Len(ms) : Append(ms, m)[i] = ms[i]
  BY AppendProperties
<1>3. DOMAIN Append(ms, m) = 1..(Len(ms) + 1)
  BY <1>2, LenProperties
<1>4. \A i \in DOMAIN ms : i \in DOMAIN Append(ms, m) /\ Append(ms, m)[i] = ms[i]
  BY <1>1, <1>2, <1>3
<1> QED
  BY <1>4 DEF UserTexts

\* The last text of the user is one of them.
LEMMA LastTextIsOne == ASSUME NEW ms \in Seq(Message) PROVE LastUserText(ms) \in UserTexts(ms) \cup {0}
<1> DEFINE last == {i \in DOMAIN ms : /\ ms[i].role = "user"
                                      /\ \A j \in DOMAIN ms : j > i => ms[j].role # "user"}
<1>1. CASE last = {}
  BY <1>1 DEF LastUserText
<1>2. CASE last # {}
  <2>1. PICK i \in last : LastUserText(ms) = ms[i].text
    BY <1>2 DEF LastUserText
  <2> QED
    BY <2>1 DEF UserTexts
<1> QED
  BY <1>1, <1>2

\* The newest run is the one that is found active, if it is.
LEMMA NewestIsFound ==
  ASSUME NEW r \in Run, Newest(r), Active(r)
  PROVE  ActiveChatRun = {r}
<1>1. \A q \in Run : Active(q) => q <= r
  BY RunAssumption DEF Newest, Active
<1>2. r \in ActiveChatRun
  BY <1>1 DEF ActiveChatRun
<1>3. ASSUME NEW q \in ActiveChatRun PROVE q = r
  <2>1. q \in Run /\ q <= r /\ r <= q
    BY <1>1 DEF ActiveChatRun
  <2>2. q \in Nat /\ r \in Nat
    BY <2>1, RunAssumption
  <2> QED
    BY <2>1, <2>2
<1> QED
  BY <1>2, <1>3

\* The order of the runs is kept.
LEMMA OrderStays ==
  ASSUME TypeOK, WorkersInv, CallsInv, InOrder, [Next]_vars
  PROVE  InOrder'
<1> SUFFICES ASSUME NEW r \in Run, NEW q \in Run, q < r, status'[r] # "none" PROVE status'[q] # "none"
  BY DEF InOrder
<1>1. status[q] # "none"
  BY RowsStay DEF InOrder
<1> QED
  BY <1>1, RowsStay

\* While nothing is created, the newest run stays that.
LEMMA NewestStays ==
  ASSUME TypeOK, WorkersInv, CallsInv, [Next]_vars, NEW r \in Run, Newest(r),
         \A c \in Client : ~CreateChatRun(c)
  PROVE  Newest(r)'
BY RowsStay DEF Newest

\* A run is created as the newest, and launched while it still is.
LEMMA LaunchIsNewest ==
  ASSUME TypeOK, WorkersInv, CallsInv, OneClient, DownIsQuiet, TextInv, [Next]_vars,
         NEW c \in Client, NEW r \in Run, (at[c] = "launching" /\ target[c] = r /\ ~resumed[r])'
  PROVE  Newest(r)'
<1>t. /\ at \in [Client -> Handlers] /\ target \in [Client -> Run \cup {None}] /\ None \notin Run
      /\ resumed \in [Run -> BOOLEAN] /\ status \in [Run -> Statuses]
  BY RunAssumption DEF TypeOK, CallsType, HistoryType, RowsType
<1>1. CASE \E d \in Client : CreateChatRun(d)
  <2>1. CreateChatRun(c)
    BY <1>1 DEF OneClient
  <2>2. status[r] = "none" /\ status' = [status EXCEPT ![r] = "queued"]
    BY <2>1, <1>t DEF CreateChatRun, Answer
  <2> QED
    BY <2>2, <1>t, RunAssumption DEF TextInv, InOrder, Newest
<1>2. CASE \A d \in Client : ~CreateChatRun(d)
  <2>1. at[c] = "launching" /\ target[c] = r /\ ~resumed[r]
    <3>1. ASSUME Handler(c) PROVE at[c] = "launching" /\ target[c] = r /\ ~resumed[r]
      <4>1. ~ResetChatRun(c)
        BY <1>t DEF ResetChatRun, Continue, Answer
      <4>2. ~LaunchChatRun(c) /\ ~WriteStop(c) /\ ~CallCancel(c) /\ ~Truncate(c)
        BY <1>t DEF LaunchChatRun, WriteStop, CallCancel, Truncate, Continue, Answer
      <4>3. /\ ~StartChatRun(c) /\ \A q \in Run : ~Pause(c, q) /\ ~Cancel(c, q) /\ ~Resume(c, q)
            /\ \A id \in 1..MaxTexts : ~EditChatMessage(c, id)
        BY <1>t DEF StartChatRun, Pause, Cancel, Resume, EditChatMessage, Call
      <4>4. CASE DeleteChatSession(c) \/ \E role \in {"user", "assistant"} : AddChatMessage(c, role)
        BY <4>4 DEF DeleteChatSession, AddChatMessage, calls, history
      <4> QED
        BY <1>2, <3>1, <4>1, <4>2, <4>3, <4>4 DEF Handler
    <3>2. ASSUME NEW e \in Worker, Execute(e) \/ TimeOut(e) PROVE UNCHANGED <<at, target, resumed>>
      BY <3>2 DEF Execute, TimeOut, Begin, ReadSession, CheckStatus, Decide, SaveAnswer, CompleteChatRun,
                  FailChatRun, Leave, calls, history
    <3>3. ~Crash
      BY DEF Crash
    <3>4. CASE Restart \/ UNCHANGED vars
      BY <3>4 DEF Restart, vars, calls, history
    <3> QED
      BY <3>1, <3>2, <3>3, <3>4 DEF Next, OneClient
  <2> QED
    BY <1>2, <2>1, NewestStays DEF TextInv
<1> QED
  BY <1>1, <1>2

\* Whatever the one tab calls beside an answering worker, the worker's run stays
\* the one an edit would cancel, and its text stays in the session.
LEMMA HandlerCurrent ==
  ASSUME TypeOK, WorkersInv, CallsInv, CancelsAreCurrent, OnceInv, TextInv, ~DBFails, [Next]_vars,
         NEW c \in Client, Alone(c), Handler(c),
         NEW e \in Worker, NEW r \in Run, Answering(e, r)'
  PROVE  Foremost(r)' /\ HasCurrentText(e)'
<1>t. /\ RowsType /\ WorkersType /\ CallsType /\ ServerType /\ HistoryType
      /\ None \notin Run /\ None \notin Worker
  BY RunAssumption DEF TypeOK
<1>s. /\ status \in [Run -> Statuses] /\ at \in [Client -> Handlers] /\ target \in [Client -> Run \cup {None}]
      /\ live \in [Worker -> BOOLEAN] /\ of \in [Worker -> Run \cup {None}] /\ phase \in [Worker -> Phases]
      /\ editing \in [Client -> Nat] /\ resumed \in [Run -> BOOLEAN]
      /\ messages \in Seq(Message) /\ texts \in Nat
  BY <1>t DEF RowsType, CallsType, WorkersType, HistoryType
<1>k. ASSUME Answering(e, r) PROVE Foremost(r) /\ HasCurrentText(e)
  BY <1>k DEF TextInv
<1>a. Foremost(r) /\ at[c] # "stopping" => Active(r)
  BY DEF Foremost, Alone
<1>m. Foremost(r) /\ at[c] # "stopping" => ActiveChatRun = {r}
  BY <1>a, NewestIsFound DEF Foremost
<1>w. ASSUME UNCHANGED workers, session' => session, resumed[r] => resumed'[r] PROVE Answering(e, r)
  BY <1>w DEF Answering, workers
\* The call goes on beside the worker and does not touch what it has read.
<1>b. ASSUME Answering(e, r), ~CreateChatRun(c), UNCHANGED <<messages, phase, read>>,
             Active(r)' \/ (at'[c] = "stopping" /\ target'[c] = r),
             at'[c] \notin {"creating", "truncating"},
             at'[c] \in {"pausing", "cancelling", "stopping"} /\ editing'[c] # 0 => target'[c] = r
      PROVE  Foremost(r)' /\ HasCurrentText(e)'
  <2>1. Foremost(r) /\ HasCurrentText(e)
    BY <1>b, <1>k
  <2>2. Newest(r)'
    BY <1>b, <2>1, NewestStays DEF Foremost, Alone
  <2>3. Foremost(r)'
    BY <1>b, <2>2 DEF Foremost, Alone
  <2>4. HasCurrentText(e)'
    BY <1>b, <2>1 DEF HasCurrentText
  <2> QED
    BY <2>3, <2>4
<1>1. CASE StartChatRun(c)
  <2>1. UNCHANGED <<rows, workers, history>> /\ at[c] = "idle" /\ ActiveChatRun = {}
    BY <1>1 DEF StartChatRun, Call
  <2>2. Answering(e, r)
    BY <2>1, <1>w DEF rows, history
  <2> QED
    BY <2>1, <2>2, <1>k, <1>m
<1>2. CASE \E q \in Run : Pause(c, q) \/ Cancel(c, q) \/ Resume(c, q)
  <2>1. /\ UNCHANGED <<rows, workers, history>> /\ at[c] = "idle"
        /\ at'[c] \in {"pausing", "cancelling", "resuming"} /\ editing'[c] = 0
    BY <1>2, <1>s DEF Pause, Cancel, Resume, Call
  <2>2. Answering(e, r)
    BY <2>1, <1>w DEF rows, history
  <2>3. Active(r)'
    BY <2>1, <2>2, <1>k, <1>a DEF Active, rows
  <2>4. ~CreateChatRun(c)
    BY <2>1 DEF CreateChatRun
  <2> QED
    BY <2>1, <2>2, <2>3, <2>4, <1>b DEF rows, workers
<1>3. CASE \E id \in 1..MaxTexts : EditChatMessage(c, id)
  <2>1. PICK id \in 1..MaxTexts : EditChatMessage(c, id)
    BY <1>3
  <2>2. UNCHANGED <<rows, workers, history>> /\ at[c] = "idle"
    BY <2>1 DEF EditChatMessage, Call
  <2>3. Answering(e, r)
    BY <2>2, <1>w DEF rows, history
  <2>4. ActiveChatRun = {r} /\ Active(r)
    BY <2>2, <2>3, <1>k, <1>m, <1>a
  <2>5. Call(c, "cancelling", r, id)
    BY <2>1, <2>4 DEF EditChatMessage
  <2>6. at'[c] = "cancelling" /\ target'[c] = r
    BY <2>5, <1>s DEF Call
  <2>7. ~CreateChatRun(c) /\ Active(r)'
    BY <2>2, <2>4 DEF CreateChatRun, Active, rows
  <2> QED
    BY <2>2, <2>3, <2>6, <2>7, <1>b DEF rows, workers
<1>4. CASE CreateChatRun(c) \/ Truncate(c)
  <2>1. at[c] \in {"creating", "truncating"} /\ UNCHANGED <<session, workers, history>>
    BY <1>4 DEF CreateChatRun, Truncate
  <2>2. Answering(e, r)
    BY <2>1, <1>w DEF history
  <2> QED
    BY <2>1, <2>2, <1>k DEF Foremost
<1>5. CASE LaunchChatRun(c)
  <2>1. PICK f \in Worker : /\ phase' = [phase EXCEPT ![f] = "launched"]
                            /\ of' = [of EXCEPT ![f] = target[c]]
                            /\ live' = [live EXCEPT ![f] = TRUE]
    BY <1>5 DEF LaunchChatRun
  <2>2. /\ at[c] = "launching" /\ target[c] \in Run /\ at'[c] = "idle"
        /\ UNCHANGED <<rows, read, history>> /\ ~CreateChatRun(c)
    BY <1>5, <1>s DEF LaunchChatRun, CallsInv, Answer, CreateChatRun
  <2>3. CASE e = f
    <3>1. target[c] = r /\ ~resumed[r] /\ phase'[e] = "launched"
      BY <2>1, <2>2, <2>3, <1>s DEF Answering, history
    <3>2. Newest(r)'
      BY <2>2, <3>1, NewestStays DEF TextInv, Alone
    <3>3. Active(r)'
      BY <2>2, <3>1 DEF OnceInv, Once, Active, rows
    <3> QED
      BY <2>2, <3>1, <3>2, <3>3 DEF Foremost, HasCurrentText, Alone
  <2>4. CASE e # f
    <3>1. phase'[e] = phase[e] /\ of'[e] = of[e] /\ live'[e] = live[e]
      BY <2>1, <2>4, <1>s
    <3>2. Answering(e, r)
      BY <2>2, <3>1 DEF Answering, rows, history
    <3>3. Foremost(r) /\ HasCurrentText(e) /\ Active(r)
      BY <2>2, <3>2, <1>k, <1>a
    <3>4. Newest(r)'
      BY <2>2, <3>3, NewestStays DEF Foremost, Alone
    <3> QED
      BY <2>2, <3>1, <3>3, <3>4 DEF Foremost, HasCurrentText, Alone, Active, rows
  <2> QED
    BY <2>3, <2>4
<1>6. CASE WriteStop(c)
  <2>1. /\ at[c] \in {"pausing", "cancelling"} /\ at'[c] = "stopping" /\ target[c] \in Run
        /\ UNCHANGED <<session, messages, workers, history, target, editing>> /\ ~CreateChatRun(c)
    BY <1>6, <1>s DEF WriteStop, Continue, CallsInv, CreateChatRun
  <2>2. Answering(e, r)
    BY <2>1, <1>w DEF history
  <2>3. Foremost(r) /\ Active(r)
    BY <2>1, <2>2, <1>k, <1>a
  <2>4. \E s : SetStatus(target[c], s)
    BY <1>6 DEF WriteStop, MaybeSetStatus
  <2>5. target[c] # r => Active(r)'
    BY <2>1, <2>3, <2>4, <1>s DEF SetStatus, Active
  <2>6. editing'[c] # 0 => target'[c] = r
    BY <2>1, <2>3 DEF Foremost
  <2> QED
    BY <2>1, <2>2, <2>5, <2>6, <1>b DEF workers
<1>7. CASE CallCancel(c)
  <2>1. /\ at[c] = "stopping" /\ target[c] \in Run
        /\ UNCHANGED <<rows, phase, of, read, resumed>> /\ ~CreateChatRun(c)
    BY <1>7 DEF CallCancel, CallsInv, CreateChatRun
  <2>2. \A f \in Worker : (live'[f] => live[f]) /\ (f = cancels[target[c]] => ~live'[f])
    BY <1>7, <1>s, <1>t DEF CallCancel
  <2>3. Answering(e, r)
    BY <2>1, <2>2 DEF Answering, rows
  <2>4. target[c] # r
    BY <2>1, <2>2, <2>3 DEF Answering, OnceInv, Once
  <2>5. Foremost(r) /\ Active(r) /\ editing[c] = 0
    BY <2>1, <2>3, <2>4, <1>k DEF Foremost, Alone
  <2>6. at'[c] = "idle"
    BY <1>7, <2>5, <1>s DEF CallCancel, Answer
  <2>7. Active(r)'
    BY <2>1, <2>5 DEF Active, rows
  <2> QED
    BY <2>1, <2>3, <2>6, <2>7, <1>b DEF rows
<1>8. CASE ResetChatRun(c)
  <2>1. /\ at[c] = "resuming" /\ target[c] \in Run /\ at'[c] \in {"launching", "idle"}
        /\ resumed' = [resumed EXCEPT ![target[c]] = TRUE]
        /\ UNCHANGED <<session, messages, workers>> /\ ~CreateChatRun(c)
    BY <1>8, <1>s DEF ResetChatRun, CallsInv, Continue, Answer, CreateChatRun
  <2>2. target[c] # r /\ (resumed[r] => resumed'[r])
    BY <2>1, <1>s DEF Answering
  <2>3. Answering(e, r)
    BY <2>1, <2>2, <1>w
  <2>4. UNCHANGED status \/ \E s : SetStatus(target[c], s)
    BY <1>8 DEF ResetChatRun, MaybeSetStatus
  <2>5. Active(r)'
    BY <2>1, <2>2, <2>3, <2>4, <1>k, <1>a, <1>s DEF SetStatus, Active
  <2> QED
    BY <2>1, <2>3, <2>5, <1>b DEF workers
<1>9. CASE \E role \in {"user", "assistant"} : AddChatMessage(c, role)
  <2>1. PICK role \in {"user", "assistant"} : AddChatMessage(c, role)
    BY <1>9
  <2>2. UNCHANGED <<session, status, workers, calls, history>> /\ at[c] = "idle" /\ ~CreateChatRun(c)
    BY <2>1 DEF AddChatMessage, CreateChatRun
  <2>3. Answering(e, r)
    BY <2>2, <1>w DEF history
  <2>4. Foremost(r) /\ HasCurrentText(e)
    BY <2>3, <1>k
  <2>5. UserTexts(messages) \subseteq UserTexts(messages')
    <3>1. [id |-> texts + 1, role |-> role, text |-> texts + 1] \in Message
      BY <1>s DEF Message
    <3> QED
      BY <2>1, <3>1, <1>s, UserTextsGrow DEF AddChatMessage
  <2>6. HasCurrentText(e)'
    BY <2>2, <2>4, <2>5 DEF HasCurrentText, workers
  <2>7. Newest(r)'
    BY <2>2, <2>4, NewestStays DEF Foremost, Alone
  <2>8. Foremost(r)'
    BY <2>2, <2>4, <2>7 DEF Foremost, Alone, Active, calls
  <2> QED
    BY <2>6, <2>8
<1>10. CASE DeleteChatSession(c)
  BY <1>10 DEF DeleteChatSession, Answering
<1> QED
  BY <1>1, <1>2, <1>3, <1>4, <1>5, <1>6, <1>7, <1>8, <1>9, <1>10 DEF Handler

\* A worker of the run that reads, asks and decides keeps the text current, and
\* the other workers only add answers.
LEMMA WorkerCurrent ==
  ASSUME TypeOK, WorkersInv, CallsInv, OnceInv, TextInv, ~DBFails, [Next]_vars,
         NEW f \in Worker, Execute(f) \/ TimeOut(f), \A c \in Client : ~CreateChatRun(c),
         NEW e \in Worker, NEW r \in Run, Answering(e, r)'
  PROVE  Foremost(r)' /\ HasCurrentText(e)'
<1>s. /\ status \in [Run -> Statuses] /\ live \in [Worker -> BOOLEAN] /\ read \in [Worker -> Nat]
      /\ of \in [Worker -> Run \cup {None}] /\ phase \in [Worker -> Phases]
      /\ messages \in Seq(Message) /\ None \notin Run /\ RowsType
  BY RunAssumption DEF TypeOK, RowsType, WorkersType
<1>c. UNCHANGED <<session, at, target, editing, resumed>> /\ of[f] \in Run
  BY DEF Execute, TimeOut, Begin, ReadSession, CheckStatus, Decide, SaveAnswer, CompleteChatRun,
         FailChatRun, Leave, calls, history, rows, WorkersInv
<1>l. \A g \in Worker : live'[g] => live[g]
  BY <1>s DEF Execute, TimeOut, Begin, ReadSession, CheckStatus, Decide, SaveAnswer, CompleteChatRun,
         FailChatRun, Leave
<1>k. ASSUME Answering(e, r) PROVE Foremost(r) /\ HasCurrentText(e)
  BY <1>k DEF TextInv
<1>f. ASSUME Answering(e, r), Active(r) => Active(r)' PROVE Foremost(r)'
  <2>1. Newest(r)'
    BY <1>f, <1>k, NewestStays DEF Foremost
  <2> QED
    BY <1>f, <1>k, <1>c, <2>1 DEF Foremost
<1>1. CASE e # f
  <2>1. phase'[e] = phase[e] /\ of'[e] = of[e] /\ read'[e] = read[e]
    BY <1>1, <1>s DEF Execute, TimeOut, Begin, ReadSession, CheckStatus, Decide, SaveAnswer, CompleteChatRun,
         FailChatRun, Leave, Proceed
  <2>2. Answering(e, r)
    BY <2>1, <1>c, <1>l DEF Answering
  <2>3. of[f] # r
    BY <1>1, <2>2 DEF Answering, OnceInv, Once
  <2>4. status'[r] = status[r]
    <3>1. \/ UNCHANGED status
          \/ \E s \in {"running", "completed", "failed"} : SetStatus(of[f], s) \/ MaybeSetStatus(of[f], s)
      BY DEF Execute, TimeOut, Begin, ReadSession, CheckStatus, Decide, SaveAnswer, CompleteChatRun,
             FailChatRun, Leave, rows
    <3> QED
      BY <2>3, <3>1, <1>c, <1>s, StatusType DEF Statuses
  <2>5. UserTexts(messages) \subseteq UserTexts(messages')
    <3>1. CASE SaveAnswer(f)
      <4>1. [id |-> 0, role |-> "assistant", text |-> read[f]] \in Message
        BY <1>s DEF Message
      <4>2. UserTexts(messages)
              \subseteq UserTexts(Append(messages, [id |-> 0, role |-> "assistant", text |-> read[f]]))
        BY <4>1, <1>s, UserTextsGrow
      <4>3. messages' = messages
            \/ messages' = Append(messages, [id |-> 0, role |-> "assistant", text |-> read[f]])
        BY <3>1 DEF SaveAnswer
      <4> QED
        BY <4>2, <4>3
    <3>2. CASE ~SaveAnswer(f)
      <4>1. UNCHANGED messages
        BY <3>2 DEF Execute, TimeOut, Begin, ReadSession, CheckStatus, Decide, CompleteChatRun, FailChatRun,
                    Leave, rows
      <4> QED
        BY <4>1
    <3> QED
      BY <3>1, <3>2
  <2>6. HasCurrentText(e)'
    BY <2>1, <2>2, <2>5, <1>k DEF HasCurrentText
  <2> QED
    BY <2>2, <2>4, <2>6, <1>f DEF Active
<1>2. CASE e = f
  <2>1. CASE Begin(e)
    <3>1. phase[e] = "launched" /\ UNCHANGED <<of, live>>
      BY <2>1 DEF Begin
    <3>2. phase'[e] = "reading" /\ SetStatus(r, "running") /\ Exists(r)
      BY <2>1, <1>s DEF Begin, Proceed, Answering, MaybeSetStatus
    <3>3. Answering(e, r)
      BY <3>1, <1>c DEF Answering
    <3>4. Active(r)'
      BY <3>2, <1>s DEF SetStatus, Active
    <3>5. HasCurrentText(e)'
      BY <3>2 DEF HasCurrentText
    <3> QED
      BY <3>3, <3>4, <3>5, <1>f
  <2>2. CASE ReadSession(e)
    <3>1. phase[e] = "reading" /\ UNCHANGED <<rows, of, live>>
      BY <2>2 DEF ReadSession
    <3>2. phase'[e] = "invoking" /\ read'[e] = LastUserText(messages)
      BY <2>2, <1>s DEF ReadSession, Proceed, Answering
    <3>3. Answering(e, r)
      BY <3>1, <1>c DEF Answering
    <3>4. HasCurrentText(e)'
      BY <3>1, <3>2, <1>s, LastTextIsOne DEF HasCurrentText, rows
    <3> QED
      BY <3>1, <3>3, <3>4, <1>f DEF Active, rows
  <2>3. CASE CheckStatus(e)
    <3>1. phase[e] = "invoking" /\ UNCHANGED <<rows, of, live, read>>
      BY <2>3 DEF CheckStatus
    <3>2. Answering(e, r)
      BY <3>1, <1>c DEF Answering
    <3>3. HasCurrentText(e)'
      BY <3>1, <3>2, <1>k DEF HasCurrentText, rows
    <3> QED
      BY <3>1, <3>2, <3>3, <1>f DEF Active, rows
  <2>4. CASE TimeOut(e)
    BY <2>4, <1>s DEF TimeOut, Answering
  <2>5. CASE Decide(e) \/ SaveAnswer(e) \/ CompleteChatRun(e) \/ FailChatRun(e) \/ Leave(e)
    BY <2>5, <1>s DEF Decide, SaveAnswer, CompleteChatRun, FailChatRun, Leave, Proceed, Answering
  <2> QED
    BY <1>2, <2>1, <2>2, <2>3, <2>4, <2>5 DEF Execute
<1> QED
  BY <1>1, <1>2

\* A worker of a run that was never resumed does not go on to save the answer to
\* a text that an edit of the one tab has taken out of the session, as long as the
\* database answers.
THEOREM AnswersAreCurrent == OneClient /\ ~DBFails => (Spec => AnswersCurrentText)
<1> SUFFICES ASSUME OneClient, ~DBFails PROVE Spec => AnswersCurrentText
  OBVIOUS
<1>1. Init => TextInv
  BY RunAssumption DEF Init, TextInv, InOrder, Answering
<1>2. ASSUME TypeOK, WorkersInv, CallsInv, CancelsAreCurrent, DownIsQuiet, OnceInv, TextInv, [Next]_vars
      PROVE  TextInv'
  <2>1. InOrder'
    BY <1>2, OrderStays DEF TextInv
  <2>2. \A c \in Client, r \in Run : (at[c] = "launching" /\ target[c] = r /\ ~resumed[r])' => Newest(r)'
    BY <1>2, LaunchIsNewest
  <2>3. ASSUME NEW e \in Worker, NEW r \in Run, Answering(e, r)' PROVE Foremost(r)' /\ HasCurrentText(e)'
    <3>1. ASSUME NEW c \in Client, Handler(c) PROVE Foremost(r)' /\ HasCurrentText(e)'
      <4>1. Alone(c)
        BY DEF OneClient, Alone
      <4> QED
        BY <1>2, <2>3, <3>1, <4>1, HandlerCurrent
    <3>2. ASSUME NEW f \in Worker, Execute(f) \/ TimeOut(f) PROVE Foremost(r)' /\ HasCurrentText(e)'
      <4>1. phase' # phase \/ live' # live
        BY <1>2, <3>2 DEF Execute, TimeOut, Begin, ReadSession, CheckStatus, Decide, SaveAnswer,
           CompleteChatRun, FailChatRun, Leave, Proceed, TypeOK, WorkersType
      <4>2. \A c \in Client : ~CreateChatRun(c)
        BY <4>1 DEF CreateChatRun, workers
      <4> QED
        BY <1>2, <2>3, <3>2, <4>2, WorkerCurrent
    <3>3. ~Crash /\ ~Restart
      BY <1>2, <2>3 DEF Crash, Restart, DownIsQuiet, Answering, workers
    <3>4. CASE UNCHANGED vars
      BY <1>2, <2>3, <3>4 DEF vars, rows, workers, calls, history, TextInv, Answering, Foremost, Newest, Active,
                              HasCurrentText
    <3> QED
      BY <1>2, <3>1, <3>2, <3>3, <3>4 DEF Next
  <2> QED
    BY <2>1, <2>2, <2>3 DEF TextInv
<1>3. ASSUME TypeOK, WorkersInv, TextInv, [Next]_vars,
             NEW e \in Worker, phase[e] = "deciding", phase'[e] = "saving", session
      PROVE  resumed[of[e]] \/ read[e] \in UserTexts(messages) \cup {0}
  <2>1. live[e] /\ of[e] \in Run
    BY <1>3, SavingIsDecided DEF WorkersInv
  <2> QED
    BY <1>3, <2>1 DEF TextInv, Answering, HasCurrentText
<1>4. TypeOK /\ WorkersInv /\ TextInv /\ [Next]_vars =>
        [\A e \in Worker : phase[e] = "deciding" /\ phase'[e] = "saving" /\ session
                           => resumed[of[e]] \/ read[e] \in UserTexts(messages) \cup {0}]_vars
  BY <1>3
<1> QED
  BY <1>1, <1>2, <1>4, Inductive, EntriesAreCurrent, QuietHolds, OnceHolds, PTL DEF Spec, AnswersCurrentText

=============================================================================
