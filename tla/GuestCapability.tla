-------------------------- MODULE GuestCapability --------------------------
(***************************************************************************)
(* The daily number of files or images a guest network may generate        *)
(* (cmd/api/guest_generation.go).                                          *)
(*                                                                         *)
(* The limiter is an INCR of a key named after the UTC day; a generation   *)
(* that fails takes one back from the key of the day on which it fails,    *)
(* under the context of its client, and sets a counter below zero to zero  *)
(* in a second call.  An administrator may delete the keys at any moment.  *)
(***************************************************************************)
EXTENDS Integers, FiniteSets

CONSTANTS
  Generation,  \* handlers of guestGenerateFile or of guestGenerateImage
  Capability,  \* which of the two: "filegen" or "imagegen"
  PerDay,      \* the policy; 0 is unlimited
  MaxDay,      \* bound on the days
  MaxDeletes   \* bound on the resets of administrators

ASSUME CapabilityAssumption ==
  /\ IsFiniteSet(Generation) /\ Capability \in {"filegen", "imagegen"}
  /\ PerDay \in Nat /\ MaxDay \in Nat /\ MaxDeletes \in Nat

VARIABLES
  today,
  daily,      \* guest-filegen or guest-imagegen, per day
  stage,      \* per generation: where its handler is
  there,      \* its client has not gone
  day,        \* the day in the key of its INCR
  refundDay,  \* the day in the key of its DECR
  counts,     \* history: its INCR is in the counter of that day
  strays,     \* history: DECRs per day of a counter without their INCR
  zeroed,     \* history: how often a counter of a day was set to zero
  deletes

capabilityVars == <<today, daily, stage, there, day, refundDay, counts, strays, zeroed, deletes>>

Days == 0..MaxDay
Stages == {"new", "admitted", "gemini", "openrouter", "hermes", "checking", "storing",
           "refunding", "zeroing", "kept", "refused", "failed"}

CapabilityTypeOK ==
  /\ today \in Days /\ deletes \in Nat
  /\ daily \in [Days -> Int] /\ strays \in [Days -> Nat] /\ zeroed \in [Days -> Nat]
  /\ stage \in [Generation -> Stages] /\ there \in [Generation -> BOOLEAN]
  /\ day \in [Generation -> Days] /\ refundDay \in [Generation -> Days]
  /\ counts \in [Generation -> BOOLEAN]

CapabilityInit ==
  /\ today = 0 /\ deletes = 0
  /\ daily = [n \in Days |-> 0] /\ strays = [n \in Days |-> 0] /\ zeroed = [n \in Days |-> 0]
  /\ stage = [g \in Generation |-> "new"] /\ there = [g \in Generation |-> TRUE]
  /\ day = [g \in Generation |-> 0] /\ refundDay = [g \in Generation |-> 0]
  /\ counts = [g \in Generation |-> FALSE]

Go(g, s) == stage' = [stage EXCEPT ![g] = s]

CheckFirst(g) ==   \* mutant: compares before it counts, and not after
  /\ stage[g] = "new"
  /\ IF daily[today] > PerDay
     THEN Go(g, "refused") /\ UNCHANGED <<daily, day, counts>>
     ELSE /\ daily' = [daily EXCEPT ![today] = @ + 1]
          /\ day' = [day EXCEPT ![g] = today]
          /\ counts' = [counts EXCEPT ![g] = TRUE]
          /\ Go(g, "admitted")
  /\ UNCHANGED <<today, there, refundDay, strays, zeroed, deletes>>

\* A call beyond the limit is counted too; one that fails is refused, counted or
\* not.
EnforceGuestDailyCapability(g) ==
  /\ stage[g] = "new"
  /\ \/ PerDay = 0 /\ Go(g, "admitted") /\ UNCHANGED <<daily, day, counts>>
     \/ PerDay > 0 /\ Go(g, "refused") /\ UNCHANGED <<daily, day, counts>>
     \/ /\ PerDay > 0
        /\ daily' = [daily EXCEPT ![today] = @ + 1]
        /\ day' = [day EXCEPT ![g] = today]
        /\ counts' = [counts EXCEPT ![g] = TRUE]
        /\ Go(g, "refused") \/ (daily[today] + 1 <= PerDay /\ Go(g, "admitted"))
  /\ UNCHANGED <<today, there, refundDay, strays, zeroed, deletes>>

Generating(g) == UNCHANGED <<today, daily, there, day, refundDay, counts, strays, zeroed, deletes>>

\* A file comes from the guest's Hermes profile, an image from Gemini first.
StartGeneration(g) ==
  /\ stage[g] = "admitted"
  /\ Go(g, IF Capability = "imagegen" THEN "gemini" ELSE "hermes")
  /\ Generating(g)

\* The next provider is asked when one has failed; Hermes is the last.
AskProvider(g) ==
  /\ \/ stage[g] = "gemini" /\ (Go(g, "checking") \/ Go(g, "openrouter"))
     \/ stage[g] = "openrouter" /\ (Go(g, "checking") \/ Go(g, "hermes"))
     \/ stage[g] = "hermes" /\ (Go(g, "checking") \/ Go(g, "refunding"))
  /\ Generating(g)

\* Format and size of what came back.
CheckResult(g) ==
  /\ stage[g] = "checking" /\ (Go(g, "storing") \/ Go(g, "refunding"))
  /\ Generating(g)

\* storeGeneratedGuestAttachment, which may find the storage full or fail.
StoreResult(g) ==
  /\ stage[g] = "storing" /\ (Go(g, "kept") \/ Go(g, "refunding"))
  /\ Generating(g)

\* refundGuestDailyCapability: the counter of the day on which the generation
\* fails, which need not be the one that counted it; without a client the call
\* is not made.  The DECR may fail, also after its effect.
Refund(g) ==
  LET own == counts[g] /\ day[g] = today IN
  /\ stage[g] = "refunding"
  /\ \/ Go(g, "failed") /\ UNCHANGED <<daily, refundDay, counts, strays>>
     \/ /\ PerDay > 0 /\ there[g]
        /\ daily' = [daily EXCEPT ![today] = @ - 1]
        /\ refundDay' = [refundDay EXCEPT ![g] = today]
        /\ counts' = IF own THEN [counts EXCEPT ![g] = FALSE] ELSE counts
        /\ strays' = IF own THEN strays ELSE [strays EXCEPT ![today] = @ + 1]
        /\ Go(g, "failed") \/ (daily[today] - 1 < 0 /\ Go(g, "zeroing"))
  /\ UNCHANGED <<today, there, day, zeroed, deletes>>

\* A counter found below zero, which may have moved since.
SetZero(g) ==
  /\ stage[g] = "zeroing"
  /\ Go(g, "failed")
  /\ \/ UNCHANGED <<daily, zeroed>>
     \/ /\ there[g]
        /\ daily' = [daily EXCEPT ![refundDay[g]] = 0]
        /\ zeroed' = [zeroed EXCEPT ![refundDay[g]] = @ + 1]
  /\ UNCHANGED <<today, there, day, refundDay, counts, strays, deletes>>

ClientLeaves(g) ==
  /\ there[g] /\ stage[g] \notin {"new", "kept", "refused", "failed"}
  /\ there' = [there EXCEPT ![g] = FALSE]
  /\ UNCHANGED <<today, daily, stage, day, refundDay, counts, strays, zeroed, deletes>>

\* clearGuestRuntimeState: the keys of every day.
ClearCapability ==
  /\ deletes < MaxDeletes
  /\ deletes' = deletes + 1
  /\ daily' = [n \in Days |-> 0]
  /\ counts' = [g \in Generation |-> FALSE]
  /\ UNCHANGED <<today, stage, there, day, refundDay, strays, zeroed>>

Midnight ==
  /\ today < MaxDay /\ today' = today + 1
  /\ UNCHANGED <<daily, stage, there, day, refundDay, counts, strays, zeroed, deletes>>

CapabilityNext ==
  \/ \E g \in Generation :
       \/ EnforceGuestDailyCapability(g) \/ StartGeneration(g) \/ AskProvider(g) \/ CheckResult(g)
       \/ StoreResult(g) \/ Refund(g) \/ SetZero(g) \/ ClientLeaves(g)
  \/ ClearCapability \/ Midnight

CapabilitySpec == CapabilityInit /\ [][CapabilityNext]_capabilityVars

-----------------------------------------------------------------------------
(* Properties.                                                             *)

CountedOn(n) == {g \in Generation : counts[g] /\ day[g] = n}

\* enforceGuestDailyCapability and refundGuestDailyCapability: what a network may
\* generate in a day is exceeded only by way of refunds of another day or from
\* before a reset, each of which gives away one, and of counters set to zero,
\* each of which gives away a day's worth; that happens after such a refund only.
GrantedWithinDay ==
  \A n \in Days :
    /\ PerDay > 0 =>
         Cardinality({g \in CountedOn(n) : stage[g] # "refused"}) <= PerDay * (1 + zeroed[n]) + strays[n]
    /\ zeroed[n] > 0 => strays[n] > 0

\* Without such refunds the counter is exact: it counts the calls of the day that
\* were not refunded, the refused ones and those whose client left among them.
CounterIsExact ==
  \A n \in Days : strays[n] = 0 => daily[n] = Cardinality(CountedOn(n))

\* guestGenerateFile and guestGenerateImage: what a network may generate and what
\* its counter says drift apart by refunds of another day or from before a reset,
\* and by nothing else.
CapabilityIsMetered == GrantedWithinDay /\ CounterIsExact

=============================================================================
