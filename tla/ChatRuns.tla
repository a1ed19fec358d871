------------------------------ MODULE ChatRuns ------------------------------
(***************************************************************************)
(* Background chat runs: cmd/api/chat_runs.go, cmd/api/chat_sessions.go    *)
(* and the rows of internal/store behind them, for one chat session.       *)
(*                                                                         *)
(* A run is a row with a status.  startChatRun and the resume control      *)
(* launch a worker goroutine for it, whose cancel function is kept in the  *)
(* map chatRunCancels; the worker reads the session, calls the model,      *)
(* looks at the status once more and then writes its answer and its        *)
(* outcome.  Pausing, cancelling and editing first write the status and    *)
(* then call the cancel function.  Every read and write of the database is *)
(* a step of its own, and the server may crash between any two.            *)
(***************************************************************************)
EXTENDS Naturals, Sequences

CONSTANTS
  Run,          \* ids of the session's runs, numbered as they are created
  Resumable,    \* bound: the runs that clients resume
  Client,       \* tabs of the owner; each makes one call at a time
  Worker,       \* bound: how many goroutines may exist at once
  MaxMessages,  \* bound on the length of the session
  MaxTexts,     \* bound on the user's messages and edits
  DBFails,      \* whether calls of the database may fail
  None

ASSUME RunAssumption ==
  /\ Run \subseteq Nat \ {0} /\ Resumable \subseteq Run
  /\ MaxMessages \in Nat /\ MaxTexts \in Nat
  /\ DBFails \in BOOLEAN
  /\ None \notin Worker \cup Run

VARIABLES
  session,      \* the chat_sessions row exists
  messages,     \* its chat_messages in order
  texts,        \* how many texts the user has written: ids and edits
  status,       \* chat_runs.status; none before, gone after the row
  up,           \* the server process is alive
  cancels,      \* chatRunCancels: the worker whose context an entry cancels
  phase, of,    \* per worker: where executeChatRun is, and for which run
  live,         \* its context is not done
  read,         \* the last user text it read
  at,           \* per client: where the handler of its call is
  target,       \* the run of that call
  editing,      \* the message id of an edit, 0 otherwise
  answered,     \* history: a worker of the run has saved an answer
  resumed,      \* history: the run has been reset
  stopped       \* history: a pause, cancel or edit has answered since

rows == <<session, messages, texts, status>>
workers == <<phase, of, live, read>>
calls == <<at, target, editing>>
history == <<answered, resumed, stopped>>
vars == <<rows, up, cancels, workers, calls, history>>

Statuses == {"none", "queued", "running", "paused", "completed", "failed",
             "cancelled", "gone"}
Phases == {"idle", "launched", "reading", "invoking", "deciding", "saving",
           "completing", "failing", "leaving"}
Handlers == {"idle", "creating", "launching", "pausing", "cancelling",
             "resuming", "stopping", "truncating"}

Message == [id : Nat, role : {"user", "assistant"}, text : Nat]

RowsType ==
  /\ session \in BOOLEAN /\ texts \in Nat
  /\ messages \in Seq(Message)
  /\ status \in [Run -> Statuses]

WorkersType ==
  /\ phase \in [Worker -> Phases]
  /\ of \in [Worker -> Run \cup {None}]
  /\ live \in [Worker -> BOOLEAN]
  /\ read \in [Worker -> Nat]

CallsType ==
  /\ at \in [Client -> Handlers]
  /\ target \in [Client -> Run \cup {None}]
  /\ editing \in [Client -> Nat]

HistoryType ==
  /\ answered \in [Run -> BOOLEAN]
  /\ resumed \in [Run -> BOOLEAN]
  /\ stopped \in [Run -> BOOLEAN]

ServerType == up \in BOOLEAN /\ cancels \in [Run -> Worker \cup {None}]

TypeOK == RowsType /\ WorkersType /\ CallsType /\ HistoryType /\ ServerType

\* A session with one message of its owner.
Init ==
  /\ session = TRUE
  /\ messages = <<[id |-> 1, role |-> "user", text |-> 1]>>
  /\ texts = 1
  /\ status = [r \in Run |-> "none"]
  /\ up = TRUE
  /\ cancels = [r \in Run |-> None]
  /\ phase = [e \in Worker |-> "idle"]
  /\ of = [e \in Worker |-> None]
  /\ live = [e \in Worker |-> FALSE]
  /\ read = [e \in Worker |-> 0]
  /\ at = [c \in Client |-> "idle"]
  /\ target = [c \in Client |-> None]
  /\ editing = [c \in Client |-> 0]
  /\ answered = [r \in Run |-> FALSE]
  /\ resumed = [r \in Run |-> FALSE]
  /\ stopped = [r \in Run |-> FALSE]

-----------------------------------------------------------------------------
(* The rows.                                                               *)

Exists(r) == status[r] \notin {"none", "gone"}

SetStatusMisspelt(r, s) ==   \* mutant: a status the schema's CHECK does not know
  status' = [status EXCEPT ![r] = IF s = "cancelled" THEN "canceled" ELSE s]

\* UPDATE chat_runs ... WHERE id: nothing happens without the row.
SetStatus(r, s) == status' = IF Exists(r) THEN [status EXCEPT ![r] = s] ELSE status

\* The error of a call hides whether the row was written.
MaybeSetStatus(r, s) == DBFails /\ (SetStatus(r, s) \/ UNCHANGED status)

Active(r) == status[r] \in {"queued", "running", "paused"}

\* ORDER BY created_at DESC LIMIT 1.
ActiveChatRun == {r \in Run : Active(r) /\ \A q \in Run : Active(q) => q <= r}

UserTexts(ms) == {ms[i].text : i \in {j \in DOMAIN ms : ms[j].role = "user"}}

LastUserText(ms) ==
  LET last == {i \in DOMAIN ms : /\ ms[i].role = "user"
                                 /\ \A j \in DOMAIN ms : j > i => ms[j].role # "user"} IN
  IF last = {} THEN 0 ELSE ms[CHOOSE i \in last : TRUE].text

-----------------------------------------------------------------------------
(* The handlers of a client.                                               *)

Answer(c) ==
  /\ at' = [at EXCEPT ![c] = "idle"]
  /\ target' = [target EXCEPT ![c] = None]
  /\ editing' = [editing EXCEPT ![c] = 0]

Continue(c, step) ==
  /\ at' = [at EXCEPT ![c] = step]
  /\ UNCHANGED <<target, editing>>

Call(c, step, r, id) ==
  /\ up /\ at[c] = "idle"
  /\ at' = [at EXCEPT ![c] = step]
  /\ target' = [target EXCEPT ![c] = r]
  /\ editing' = [editing EXCEPT ![c] = id]

\* startChatRun answers 409 when it finds an active run, and goes on when the
\* query fails.
StartChatRun(c) ==
  /\ ActiveChatRun = {} \/ DBFails
  /\ Call(c, "creating", None, 0)
  /\ UNCHANGED <<rows, up, cancels, workers, history>>

CreateChatRun(c) ==
  LET new == {r \in Run : status[r] = "none" /\ \A q \in Run : q < r => status[q] # "none"}
  IN
  /\ at[c] = "creating"
  /\ \/ \E r \in new :
          /\ session
          /\ status' = [status EXCEPT ![r] = "queued"]
          /\ at' = [at EXCEPT ![c] = "launching"]
          /\ target' = [target EXCEPT ![c] = r]
          /\ UNCHANGED editing
     \/ /\ new = {} \/ ~session
        /\ Answer(c)
        /\ UNCHANGED status
     \/ /\ DBFails /\ session
        /\ \E r \in new : status' \in {status, [status EXCEPT ![r] = "queued"]}
        /\ Answer(c)
  /\ UNCHANGED <<session, messages, texts, up, cancels, workers, history>>

\* launchChatRun: a new context, its cancel function in the map, a goroutine.
LaunchChatRun(c) ==
  /\ at[c] = "launching"
  /\ \E e \in Worker :
       /\ phase[e] = "idle"
       /\ phase' = [phase EXCEPT ![e] = "launched"]
       /\ of' = [of EXCEPT ![e] = target[c]]
       /\ live' = [live EXCEPT ![e] = TRUE]
       /\ cancels' = [cancels EXCEPT ![target[c]] = e]
  /\ Answer(c)
  /\ UNCHANGED <<rows, up, read, history>>

\* controlChatRun reads the row and decides whether the action is allowed; the
\* status may change before it writes.
Pause(c, r) ==
  /\ status[r] \in {"queued", "running"}
  /\ Call(c, "pausing", r, 0)
  /\ UNCHANGED <<rows, up, cancels, workers, history>>

Cancel(c, r) ==
  /\ Exists(r)
  /\ Call(c, "cancelling", r, 0)
  /\ UNCHANGED <<rows, up, cancels, workers, history>>

Resume(c, r) ==
  /\ r \in Resumable
  /\ status[r] \in {"paused", "failed", "cancelled"}
  /\ Call(c, "resuming", r, 0)
  /\ UNCHANGED <<rows, up, cancels, workers, history>>

\* The status is written; the cancel function is called even if that fails.
WriteStop(c) ==
  LET s == IF at[c] = "pausing" THEN "paused" ELSE "cancelled" IN
  /\ at[c] \in {"pausing", "cancelling"}
  /\ SetStatus(target[c], s) \/ MaybeSetStatus(target[c], s)
  /\ Continue(c, "stopping")
  /\ UNCHANGED <<session, messages, texts, up, cancels, workers, history>>

CallCancel(c) ==
  LET e == cancels[target[c]] IN
  /\ at[c] = "stopping"
  /\ live' = IF e = None THEN live ELSE [live EXCEPT ![e] = FALSE]
  /\ stopped' = [stopped EXCEPT ![target[c]] = TRUE]
  /\ IF editing[c] = 0 THEN Answer(c) ELSE Continue(c, "truncating")
  /\ UNCHANGED <<rows, up, cancels, phase, of, read, answered, resumed>>

ResetChatRun(c) ==
  LET r == target[c] IN
  /\ at[c] = "resuming"
  /\ \/ /\ Exists(r)
        /\ SetStatus(r, "queued")
        /\ Continue(c, "launching")
     \/ /\ ~Exists(r)
        /\ Answer(c)
        /\ UNCHANGED status
     \/ /\ MaybeSetStatus(r, "queued")
        /\ Answer(c)
  /\ resumed' = [resumed EXCEPT ![r] = TRUE]
  /\ stopped' = [stopped EXCEPT ![r] = FALSE]
  /\ UNCHANGED <<session, messages, texts, up, cancels, workers, answered>>

EditBesideRun(c, id) ==   \* mutant: the active run goes on
  /\ texts < MaxTexts
  /\ \E i \in DOMAIN messages : messages[i].id = id /\ messages[i].role = "user"
  /\ Call(c, "truncating", None, id)
  /\ UNCHANGED <<rows, up, cancels, workers, history>>

\* editChatMessage cancels the active run, when it finds one, and truncates.
EditChatMessage(c, id) ==
  /\ texts < MaxTexts
  /\ \E i \in DOMAIN messages : messages[i].id = id /\ messages[i].role = "user"
  /\ \/ \E r \in ActiveChatRun : Call(c, "cancelling", r, id)
     \/ (ActiveChatRun = {} \/ DBFails) /\ Call(c, "truncating", None, id)
  /\ UNCHANGED <<rows, up, cancels, workers, history>>

Truncate(c) ==
  LET found == {i \in DOMAIN messages : messages[i].id = editing[c]} IN
  /\ at[c] = "truncating"
  /\ \/ \E i \in found :
          /\ texts' = texts + 1
          /\ messages' = Append(SubSeq(messages, 1, i - 1),
                                [messages[i] EXCEPT !.text = texts + 1])
     \/ (found = {} \/ DBFails) /\ UNCHANGED <<messages, texts>>
  /\ Answer(c)
  /\ UNCHANGED <<session, status, up, cancels, workers, history>>

\* addChatMessage: the client writes messages of either role.
AddChatMessage(c, role) ==
  /\ up /\ at[c] = "idle" /\ session
  /\ Len(messages) < MaxMessages /\ texts < MaxTexts
  /\ texts' = texts + 1
  /\ messages' = Append(messages, [id |-> texts + 1, role |-> role, text |-> texts + 1])
  /\ UNCHANGED <<session, status, up, cancels, workers, calls, history>>

\* deleteChatSession: messages and runs go with the session.
DeleteChatSession(c) ==
  /\ up /\ at[c] = "idle" /\ session
  /\ session' = FALSE
  /\ messages' = <<>>
  /\ status' = [r \in Run |-> IF Exists(r) THEN "gone" ELSE status[r]]
  /\ UNCHANGED <<texts, up, cancels, workers, calls, history>>

-----------------------------------------------------------------------------
(* executeChatRun.                                                         *)

Proceed(e, step) == phase' = [phase EXCEPT ![e] = step]

\* SetChatRunStatus under the worker's context; an error ends the worker.
Begin(e) ==
  /\ phase[e] = "launched"
  /\ \/ /\ live[e] /\ Exists(of[e])
        /\ SetStatus(of[e], "running")
        /\ Proceed(e, "reading")
     \/ /\ ~live[e] \/ ~Exists(of[e])
        /\ Proceed(e, "leaving")
        /\ UNCHANGED status
     \/ /\ MaybeSetStatus(of[e], "running")
        /\ Proceed(e, "leaving")
  /\ UNCHANGED <<session, messages, texts, up, cancels, of, live, read, calls, history>>

\* ChatSession and ChatMessages.
ReadSession(e) ==
  /\ phase[e] = "reading"
  /\ \/ /\ live[e] /\ session /\ messages # <<>>
        /\ read' = [read EXCEPT ![e] = LastUserText(messages)]
        /\ Proceed(e, "invoking")
     \/ /\ ~live[e] \/ ~session \/ messages = <<>> \/ DBFails
        /\ Proceed(e, "failing")
        /\ UNCHANGED read
  /\ UNCHANGED <<rows, up, cancels, of, live, calls, history>>

\* The model has answered; the status is looked at once more.
CheckStatus(e) ==
  /\ phase[e] = "invoking"
  /\ \/ status[of[e]] \in {"paused", "cancelled"} /\ Proceed(e, "leaving")
     \/ status[of[e]] \notin {"paused", "cancelled"} /\ Proceed(e, "deciding")
     \/ DBFails /\ Proceed(e, "deciding")
  /\ UNCHANGED <<rows, up, cancels, of, live, read, calls, history>>

DecideDetached(e) ==   \* mutant: no look at ctx.Err()
  /\ phase[e] = "deciding"
  /\ \/ Len(messages) < MaxMessages /\ Proceed(e, "saving")
     \/ Proceed(e, "failing")
  /\ UNCHANGED <<rows, up, cancels, of, live, read, calls, history>>

DecideOnEmpty(e) ==   \* mutant: an empty answer completes the run
  /\ phase[e] = "deciding"
  /\ \/ live[e] /\ Proceed(e, "completing")
     \/ Proceed(e, "failing")
  /\ UNCHANGED <<rows, up, cancels, of, live, read, calls, history>>

\* ctx.Err(), then the response: an answer, or an error, or nothing to save.
Decide(e) ==
  /\ phase[e] = "deciding"
  /\ \/ live[e] /\ Len(messages) < MaxMessages /\ Proceed(e, "saving")
     \/ Proceed(e, "failing")
  /\ UNCHANGED <<rows, up, cancels, of, live, read, calls, history>>

\* AddChatMessageForRun, under a context of its own.
SaveAnswer(e) ==
  LET answer == [id |-> 0, role |-> "assistant", text |-> read[e]] IN
  /\ phase[e] = "saving"
  /\ \/ /\ session
        /\ messages' = Append(messages, answer)
        /\ answered' = [answered EXCEPT ![of[e]] = TRUE]
        /\ Proceed(e, "completing")
     \/ /\ ~session \/ DBFails
        /\ messages' \in {messages} \cup (IF session THEN {Append(messages, answer)} ELSE {})
        /\ Proceed(e, "failing")
        /\ UNCHANGED answered
  /\ UNCHANGED <<session, texts, status, up, cancels, of, live, read, calls, resumed, stopped>>

CompleteChatRun(e) ==
  /\ phase[e] = "completing"
  /\ SetStatus(of[e], "completed") \/ MaybeSetStatus(of[e], "completed")
  /\ Proceed(e, "leaving")
  /\ UNCHANGED <<session, messages, texts, up, cancels, of, live, read, calls, history>>

FailUnderContext(e) ==   \* mutant: the failure is written under the worker's context
  /\ phase[e] = "failing"
  /\ IF live[e] THEN SetStatus(of[e], "failed") ELSE UNCHANGED status
  /\ Proceed(e, "leaving")
  /\ UNCHANGED <<session, messages, texts, up, cancels, of, live, read, calls, history>>

FailChatRun(e) ==
  /\ phase[e] = "failing"
  /\ SetStatus(of[e], "failed") \/ MaybeSetStatus(of[e], "failed")
  /\ Proceed(e, "leaving")
  /\ UNCHANGED <<session, messages, texts, up, cancels, of, live, read, calls, history>>

LeaveEntry(e) ==   \* mutant: the entry is not deleted
  /\ phase[e] = "leaving"
  /\ Proceed(e, "idle")
  /\ of' = [of EXCEPT ![e] = None]
  /\ live' = [live EXCEPT ![e] = FALSE]
  /\ read' = [read EXCEPT ![e] = 0]
  /\ UNCHANGED <<rows, up, cancels, calls, history>>

\* The deferred calls: the entry of the run is deleted, whosever it is.
Leave(e) ==
  /\ phase[e] = "leaving"
  /\ cancels' = [cancels EXCEPT ![of[e]] = None]
  /\ Proceed(e, "idle")
  /\ of' = [of EXCEPT ![e] = None]
  /\ live' = [live EXCEPT ![e] = FALSE]
  /\ read' = [read EXCEPT ![e] = 0]
  /\ UNCHANGED <<rows, up, calls, history>>

-----------------------------------------------------------------------------
(* The environment.                                                        *)

\* The 15 minutes of a worker are over.  A worker that could not even write its
\* first status in that time is one whose database fails.
TimeOut(e) ==
  /\ phase[e] \in {"launched", "reading", "invoking", "deciding"} /\ live[e]
  /\ phase[e] = "launched" => DBFails
  /\ live' = [live EXCEPT ![e] = FALSE]
  /\ UNCHANGED <<rows, up, cancels, phase, of, read, calls, history>>

\* The process ends between any two steps: goroutines and the map are gone.
Crash ==
  /\ up
  /\ up' = FALSE
  /\ cancels' = [r \in Run |-> None]
  /\ phase' = [e \in Worker |-> "idle"]
  /\ of' = [e \in Worker |-> None]
  /\ live' = [e \in Worker |-> FALSE]
  /\ read' = [e \in Worker |-> 0]
  /\ at' = [c \in Client |-> "idle"]
  /\ target' = [c \in Client |-> None]
  /\ editing' = [c \in Client |-> 0]
  /\ UNCHANGED <<rows, history>>

RestartRunning ==   \* mutant: queued runs are not recovered
  /\ ~up
  /\ up' = TRUE
  /\ status' = [r \in Run |-> IF status[r] = "running" THEN "failed" ELSE status[r]]
  /\ UNCHANGED <<session, messages, texts, cancels, workers, calls, history>>

\* main runs RecoverInterruptedChatRuns before it serves; its error is logged.
Restart ==
  /\ ~up
  /\ up' = TRUE
  /\ \/ status' = [r \in Run |-> IF status[r] \in {"queued", "running"} THEN "failed"
                                 ELSE status[r]]
     \/ DBFails /\ UNCHANGED status
  /\ UNCHANGED <<session, messages, texts, cancels, workers, calls, history>>

Handler(c) ==
  \/ StartChatRun(c) \/ CreateChatRun(c) \/ LaunchChatRun(c)
  \/ \E r \in Run : Pause(c, r) \/ Cancel(c, r) \/ Resume(c, r)
  \/ WriteStop(c) \/ CallCancel(c) \/ ResetChatRun(c)
  \/ \E id \in 1..MaxTexts : EditChatMessage(c, id)
  \/ Truncate(c)
  \/ \E role \in {"user", "assistant"} : AddChatMessage(c, role)
  \/ DeleteChatSession(c)

Execute(e) ==
  \/ Begin(e) \/ ReadSession(e) \/ CheckStatus(e) \/ Decide(e) \/ SaveAnswer(e)
  \/ CompleteChatRun(e) \/ FailChatRun(e) \/ Leave(e)

Next ==
  \/ \E c \in Client : Handler(c)
  \/ \E e \in Worker : Execute(e) \/ TimeOut(e)
  \/ Crash \/ Restart

Spec == Init /\ [][Next]_vars

\* Goroutines and handlers that have begun go on: every call they make returns,
\* the model's because the worker's context ends.  Nobody has to call.
\* A server that has crashed is started again.
FairSpec ==
  /\ Spec
  /\ \A e \in Worker : WF_vars(Execute(e))
  /\ \A c \in Client :
       /\ WF_vars(CreateChatRun(c)) /\ WF_vars(LaunchChatRun(c)) /\ WF_vars(WriteStop(c))
       /\ WF_vars(CallCancel(c)) /\ WF_vars(ResetChatRun(c)) /\ WF_vars(Truncate(c))
  /\ WF_vars(Restart)

-----------------------------------------------------------------------------
(* Properties.                                                             *)

\* A run is only reported as completed after one of its workers has saved an
\* answer, whatever fails or crashes and whoever controls it meanwhile.
CompletedIsAnswered == \A r \in Run : status[r] = "completed" => answered[r]

\* The map chatRunCancels holds no cancel function of a worker that is over or
\* of another run: a pause never cancels the wrong worker, nothing leaks.
CancelsAreCurrent ==
  \A r \in Run : cancels[r] # None => phase[cancels[r]] # "idle" /\ of[cancels[r]] = r

\* One client, database up: a run that looks active has a worker that will
\* still write its outcome, or a handler about to launch one.
ActiveHasWorker ==
  up => \A r \in Run : status[r] \in {"queued", "running"} =>
    \/ \E e \in Worker : of[e] = r /\ phase[e] \notin {"idle", "leaving"}
    \/ \E c \in Client : target[c] = r /\ at[c] = "launching"

\* One client, database up: once a pause, a cancel or an edit has been answered,
\* a worker of that run that has not yet looked at its context does not go on to
\* save an answer.  Only for a run that was never resumed: the worker a resume
\* replaces deletes the new worker's cancel function.
StopIsHonoured ==
  [][\A e \in Worker :
       phase[e] = "deciding" /\ phase'[e] = "saving"
       => resumed[of[e]] \/ ~stopped[of[e]]]_vars

\* One client, database up: a worker of a run that was never resumed does not go
\* on to save the answer to a text that an edit has taken out of the session.
AnswersCurrentText ==
  [][\A e \in Worker :
       phase[e] = "deciding" /\ phase'[e] = "saving" /\ session
       => resumed[of[e]] \/ read[e] \in UserTexts(messages) \cup {0}]_vars

\* A run does not look active for ever: a worker, a failure or the recovery
\* after a restart settles it.
RunsSettle ==
  \A r \in Run : status[r] \in {"queued", "running"} ~> status[r] \notin {"queued", "running"}

=============================================================================
