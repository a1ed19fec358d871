----------------------------- MODULE GuestRate -----------------------------
(***************************************************************************)
(* The rate of guest chats (cmd/api/guest.go): one Lua script over two     *)
(* keys of a device, with the clock read by the handler before the call.   *)
(* A second script tells a device how long to wait, an administrator may   *)
(* delete both keys.                                                       *)
(***************************************************************************)
EXTENDS Naturals, Sequences

CONSTANTS
  Device,           \* guestRateSubject: the devices of the guest networks
  Chat,             \* handlers of proxyGuestInference
  DeviceOf,         \* the device of each
  RequestsPerHour,  \* the policy; 0 is unlimited
  MinInterval,      \* in seconds
  Hour,             \* EXPIRE of the two keys, in seconds
  Second,           \* ticks of a second: the clock of Redis is the finer one
  MaxDelay,         \* bound: ticks between a clock read and its script
  MaxTime,          \* bound on the clock
  MaxClears         \* bound on the resets of administrators

ASSUME RateAssumption ==
  /\ DeviceOf \in [Chat -> Device]
  /\ RequestsPerHour \in Nat /\ MinInterval \in Nat /\ MaxDelay \in Nat
  /\ Hour \in Nat \ {0} /\ MinInterval <= Hour /\ Second \in Nat \ {0}
  /\ MaxTime \in Nat /\ MaxClears \in Nat

VARIABLES
  time,
  sampled,               \* per chat: the clock it has read, 0 between calls
  hourly, hourlyExpiry,  \* guest-chat:hour per device
  last, lastExpiry,      \* guest-chat:last per device, a Unix second
  admitted,              \* history: when chats of a device were admitted
  clears

rateKeys == <<hourly, hourlyExpiry, last, lastExpiry>>
rateVars == <<time, sampled, rateKeys, admitted, clears>>

RateTypeOK ==
  /\ time \in Nat
  /\ sampled \in [Chat -> Nat]
  /\ hourly \in [Device -> Nat] /\ hourlyExpiry \in [Device -> Nat]
  /\ last \in [Device -> Nat] /\ lastExpiry \in [Device -> Nat]
  /\ admitted \in [Device -> Seq(Nat)]
  /\ clears \in Nat

RateInit ==
  /\ time = Second
  /\ sampled = [c \in Chat |-> 0]
  /\ hourly = [d \in Device |-> 0] /\ hourlyExpiry = [d \in Device |-> 0]
  /\ last = [d \in Device |-> 0] /\ lastExpiry = [d \in Device |-> 0]
  /\ admitted = [d \in Device |-> <<>>]
  /\ clears = 0

\* A key that has lapsed reads as 0.
Count(d) == IF time < hourlyExpiry[d] THEN hourly[d] ELSE 0
Last(d) == IF time < lastExpiry[d] THEN last[d] ELSE 0

\* now.Unix().
Unix(t) == t \div Second

TooSoon(d, now) == MinInterval > 0 /\ Last(d) > 0 /\ now - Last(d) < MinInterval
Gap(d, now) == IF TooSoon(d, now) THEN MinInterval - (now - Last(d)) ELSE 0

Spent(d) == RequestsPerHour > 0 /\ Count(d) >= RequestsPerHour

\* TTL rounds what is left of a key to seconds.
Ttl(d) == (hourlyExpiry[d] - time + Second \div 2) \div Second

Longer(a, b) == IF a > b THEN a ELSE b

RetryAfterRounded(d, now) ==   \* mutant: the wait is what TTL answers, which may be 0
  Longer(IF Spent(d) THEN Ttl(d) ELSE 0, Gap(d, now))

\* guestRateRetryAfter, which the quota page shows: the longer of the two waits
\* in seconds, where an hour that TTL has no second left of is a whole one.
RetryAfter(d, now) ==
  LET ttl == IF Ttl(d) < 1 THEN Hour ELSE Ttl(d) IN
  Longer(IF Spent(d) THEN ttl ELSE 0, Gap(d, now))

ReadClock(c) ==
  /\ sampled[c] = 0
  /\ sampled' = [sampled EXCEPT ![c] = time]
  /\ UNCHANGED <<time, rateKeys, admitted, clears>>

\* The script: a refusal writes nothing, an admission counts and dates the call.
EnforceGuestRate(c) ==
  LET d == DeviceOf[c]
      now == Unix(sampled[c]) IN
  /\ sampled[c] # 0
  /\ sampled' = [sampled EXCEPT ![c] = 0]
  /\ IF TooSoon(d, now) \/ Spent(d)
     THEN UNCHANGED <<rateKeys, admitted>>
     ELSE /\ admitted' = [admitted EXCEPT ![d] = Append(@, time)]
          /\ IF RequestsPerHour > 0
             THEN /\ hourly' = [hourly EXCEPT ![d] = Count(d) + 1]
                  /\ hourlyExpiry' = IF Count(d) = 0
                                     THEN [hourlyExpiry EXCEPT ![d] = time + Hour * Second]
                                     ELSE hourlyExpiry
             ELSE UNCHANGED <<hourly, hourlyExpiry>>
          /\ IF MinInterval > 0
             THEN /\ last' = [last EXCEPT ![d] = now]
                  /\ lastExpiry' = [lastExpiry EXCEPT ![d] = time + Hour * Second]
             ELSE UNCHANGED <<last, lastExpiry>>
  /\ UNCHANGED <<time, clears>>

\* clearGuestRuntimeState: both keys of a device in one call.
ClearDevice(d) ==
  /\ clears < MaxClears
  /\ clears' = clears + 1
  /\ hourly' = [hourly EXCEPT ![d] = 0] /\ hourlyExpiry' = [hourlyExpiry EXCEPT ![d] = 0]
  /\ last' = [last EXCEPT ![d] = 0] /\ lastExpiry' = [lastExpiry EXCEPT ![d] = 0]
  /\ admitted' = [admitted EXCEPT ![d] = <<>>]
  /\ UNCHANGED <<time, sampled>>

\* A script is at most MaxDelay late.
RateTick ==
  /\ time < MaxTime
  /\ \A c \in Chat : sampled[c] # 0 => time - sampled[c] < MaxDelay
  /\ time' = time + 1
  /\ UNCHANGED <<sampled, rateKeys, admitted, clears>>

RateNext ==
  \/ \E c \in Chat : ReadClock(c) \/ EnforceGuestRate(c)
  \/ \E d \in Device : ClearDevice(d)
  \/ RateTick

RateSpec == RateInit /\ [][RateNext]_rateVars

-----------------------------------------------------------------------------
(* Properties.                                                             *)

\* enforceGuestRate: no span of an hour sees more than two windows' worth of
\* chats of a device, and two chats are apart by the interval, less a second that
\* Unix time cuts off and the delay between a handler's clock and the script.
ChatsSpaced ==
  \A d \in Device : LET at == admitted[d] IN
    /\ RequestsPerHour > 0 =>
         \A i \in DOMAIN at :
           i + 2 * RequestsPerHour \in DOMAIN at => at[i + 2 * RequestsPerHour] - at[i] >= Hour * Second
    /\ MinInterval > 0 =>
         \A i \in DOMAIN at :
           i + 1 \in DOMAIN at => at[i + 1] - at[i] > (MinInterval - 1) * Second - MaxDelay

\* When the two keys let a device go.
FreeAt(d) ==
  Longer(IF Spent(d) THEN hourlyExpiry[d] ELSE time,
         IF TooSoon(d, Unix(time)) THEN (Last(d) + MinInterval) * Second ELSE time)

\* guestRateRetryAfter duplicates the script that enforces, and the quota page
\* shows what it says.  It says no wait exactly when a chat would be admitted; the
\* instant a device is let go is not put off by refusals, or by time; and the
\* wait is right but for less than a second, except in the last half second of a
\* spent hour, when the device is told to wait for another hour.
RetryAfterIsHonest ==
  /\ \A c \in Chat : LET d == DeviceOf[c] IN
       sampled[c] = time /\ sampled'[c] = 0 =>
         (admitted'[d] # admitted[d]) = (RetryAfter(d, Unix(time)) = 0)
  /\ \A d \in Device : admitted'[d] = admitted[d] => FreeAt(d)' <= Longer(FreeAt(d), time')
  /\ \A d \in Device : LET told == RetryAfter(d, Unix(time)) IN
       \/ told * Second \in FreeAt(d) - time - Second + 1 .. FreeAt(d) - time + Second - 1
       \/ Spent(d) /\ 2 * (hourlyExpiry[d] - time) < Second /\ told = Hour

\* proxyGuestInference: the rate is kept, and a guest is shown the wait that is
\* enforced, but for the rounding of its end.
RateIsKept == [][ChatsSpaced' /\ RetryAfterIsHonest]_rateVars

=============================================================================
