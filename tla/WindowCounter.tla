--------------------------- MODULE WindowCounter ---------------------------
(***************************************************************************)
(* The counter of a window in Redis, as uploads (attachments.go,           *)
(* guest_attachments.go) and requests for a password (gmail.go) use it: a  *)
(* call increments the key, the one that finds no key gives it an expiry   *)
(* in a second call whose error is dropped, and a value beyond the limit   *)
(* is refused.                                                             *)
(***************************************************************************)
EXTENDS Naturals, Sequences

CONSTANTS
  Call,       \* handlers, used again when they have answered
  Limit,      \* a limit of 0 never reaches the counter
  Window,     \* of EXPIRE, in ticks
  MaxClock,   \* bound on the clock
  MaxWipes    \* bound on the resets of administrators

ASSUME WindowAssumption ==
  Limit \in Nat \ {0} /\ Window \in Nat \ {0} /\ MaxClock \in Nat /\ MaxWipes \in Nat

VARIABLES
  clock,
  count, expiry,  \* the key; expiry 0: none
  pace,           \* per call: where it is
  passes,         \* history: when calls were counted within the limit
  lostExpiry,     \* history: an EXPIRE was not carried out
  wipes

counterVars == <<clock, count, expiry, pace, passes, lostExpiry, wipes>>

Paces == {"ready", "expiring", "passed"}

CounterTypeOK ==
  /\ clock \in Nat /\ count \in 0..(Limit + 1) /\ expiry \in Nat /\ wipes \in Nat
  /\ pace \in [Call -> Paces] /\ passes \in Seq(Nat) /\ lostExpiry \in BOOLEAN

CounterInit ==
  /\ clock = 0 /\ count = 0 /\ expiry = 0 /\ wipes = 0
  /\ pace = [c \in Call |-> "ready"] /\ passes = <<>> /\ lostExpiry = FALSE

\* Bound: what is beyond the limit stays where it is.
Counted == IF expiry > 0 /\ clock >= expiry THEN 0 ELSE count

Incremented == IF Counted > Limit THEN Counted ELSE Counted + 1

\* INCR; the call that finds no key has an EXPIRE to make, one beyond the limit
\* is refused.
CountCall(c) ==
  LET n == Incremented IN
  /\ pace[c] = "ready"
  /\ count' = n
  /\ expiry' = IF n = 1 THEN 0 ELSE expiry
  /\ pace' = [pace EXCEPT ![c] = IF n = 1 THEN "expiring" ELSE IF n <= Limit THEN "passed" ELSE "ready"]
  /\ passes' = IF n <= Limit THEN Append(passes, clock) ELSE passes
  /\ UNCHANGED <<clock, lostExpiry, wipes>>

\* EXPIRE does nothing to a key that is gone; a client that has gone, a failure
\* of Redis or a crash leave the key as it is.
ExpireKey(c) ==
  /\ pace[c] = "expiring"
  /\ pace' = [pace EXCEPT ![c] = "passed"]
  /\ \/ expiry' = (IF count > 0 THEN clock + Window ELSE expiry) /\ UNCHANGED lostExpiry
     \/ lostExpiry' = TRUE /\ UNCHANGED expiry
  /\ UNCHANGED <<clock, count, passes, wipes>>

\* What the call was for is done: an upload, a mail.
AnswerCall(c) ==
  /\ pace[c] = "passed"
  /\ pace' = [pace EXCEPT ![c] = "ready"]
  /\ UNCHANGED <<clock, count, expiry, passes, lostExpiry, wipes>>

\* clearGuestRuntimeState; the history begins anew.
WipeCounter ==
  /\ wipes < MaxWipes /\ wipes' = wipes + 1
  /\ count' = 0 /\ expiry' = 0 /\ passes' = <<>>
  /\ UNCHANGED <<clock, pace, lostExpiry>>

Tick ==
  /\ clock < MaxClock /\ clock' = clock + 1
  /\ UNCHANGED <<count, expiry, pace, passes, lostExpiry, wipes>>

CounterNext ==
  \/ \E c \in Call : CountCall(c) \/ ExpireKey(c) \/ AnswerCall(c)
  \/ WipeCounter \/ Tick

CounterSpec == CounterInit /\ [][CounterNext]_counterVars

-----------------------------------------------------------------------------
(* Properties.                                                             *)

\* enforceAttachmentUploadRate: however late its EXPIRE is, a window is never
\* shorter than its length: no such span sees more than two limits of calls.
CallsSpaced ==
  \A i \in DOMAIN passes : i + 2 * Limit \in DOMAIN passes => passes[i + 2 * Limit] - passes[i] >= Window

\* The key lapses by itself, unless an EXPIRE was lost between the two calls:
\* then its owner is refused until an administrator deletes the key.
CounterLapses ==
  count > 0 /\ expiry = 0 => lostExpiry \/ \E c \in Call : pace[c] = "expiring"

\* enforceAttachmentUploadRate, enforceGuestAttachmentUploadRate, passwordReset: a
\* window is not shorter than its length, and ends unless its EXPIRE was lost.
WindowIsKept == CallsSpaced /\ CounterLapses

=============================================================================
