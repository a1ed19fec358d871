--------------------------- MODULE AccountsProofs ---------------------------
(***************************************************************************)
(* Proofs about accounts and administration: the reset of a password, the  *)
(* Gmail account that sends the mails, who is let through, and the         *)
(* catalogue of models that administrators keep in step with the proxy,    *)
(* for any number of users, tokens, models and handlers.                   *)
(***************************************************************************)
EXTENDS PasswordReset, GmailConnection, AccessControl, ProviderCatalog, SequenceTheorems, FiniteSetTheorems, TLAPS

-----------------------------------------------------------------------------
(* The Gmail account.                                                      *)

\* A state that is there, or was not made yet, has not been exchanged.
StatesInv ==
  \A s \in State :
    /\ s \notin drawn => states[s] = Nil
    /\ s \notin drawn \/ states[s] # Nil => exchanges[s] = 0
    /\ exchanges[s] <= 1

\* A refresh token that a callback still carries is nowhere else.
CarriedInv ==
  \A c \in Callback : brought[c] # Nil =>
    /\ brought[c] \in granted /\ brought[c] \notin revoked /\ brought[c] # integration
    /\ \A d \in Parting : reading[d] # brought[c]
    /\ \A o \in Callback : o # c => brought[o] # brought[c]

\* What is stored, read or revoked was granted.
GrantsInv ==
  /\ integration \in granted \cup {Nil} /\ revoked \subseteq granted
  /\ \A d \in Parting : /\ reading[d] \in granted \cup {Nil}
                        /\ parting[d] = "revoking" => reading[d] # Nil

GmailInv == GmailTypeOK /\ StatesInv /\ CarriedInv /\ GrantsInv /\ StoredTokenIsGood

\* The flow of OAuth: states are made, lapse and are taken.
LEMMA FlowKeeps ==
  ASSUME GmailInv, NEW s \in State,
         (\E a \in Admin : GmailAuthorize(a)) \/ (\E c \in Callback, a \in Admin : TakeState(c, a, s)) \/ StateExpires(s)
  PROVE  GmailInv'
<1> USE GmailAssumption DEF GmailInv
<1>1. CASE \E a \in Admin : GmailAuthorize(a)
  <2>1. PICK a \in Admin, t \in State \ drawn : states' = [states EXCEPT ![t] = a] /\ drawn' = drawn \cup {t}
    BY <1>1 DEF GmailAuthorize
  <2>2. UNCHANGED <<exchanging, brought, integration, disconnecting, revoked, granted, exchanges>>
    BY <1>1 DEF GmailAuthorize
  <2>3. GmailTypeOK'
    BY <2>1, <2>2 DEF GmailTypeOK, disconnecting
  <2>4. StatesInv'
    BY <2>1, <2>2 DEF StatesInv, GmailTypeOK
  <2> QED
    BY <2>2, <2>3, <2>4 DEF CarriedInv, GrantsInv, StoredTokenIsGood, disconnecting
<1>2. CASE \E c \in Callback, a \in Admin : TakeState(c, a, s)
  <2>1. PICK c \in Callback, a \in Admin : TakeState(c, a, s)
    BY <1>2
  <2>2. /\ states[s] # Nil /\ states' = [states EXCEPT ![s] = Nil]
        /\ UNCHANGED <<drawn, brought, integration, disconnecting, revoked, granted>>
    BY <2>1 DEF TakeState
  <2>3. \/ UNCHANGED <<exchanging, exchanges>>
        \/ /\ exchanging' = [exchanging EXCEPT ![c] = s]
           /\ exchanges' = [exchanges EXCEPT ![s] = @ + 1]
    BY <2>1 DEF TakeState
  <2>4. GmailTypeOK'
    BY <2>2, <2>3 DEF GmailTypeOK, disconnecting
  <2>5. StatesInv'
    BY <2>2, <2>3 DEF StatesInv, GmailTypeOK
  <2> QED
    BY <2>2, <2>4, <2>5 DEF CarriedInv, GrantsInv, StoredTokenIsGood, disconnecting
<1>3. CASE StateExpires(s)
  <2>1. /\ states' = [states EXCEPT ![s] = Nil] /\ states[s] # Nil
        /\ UNCHANGED <<drawn, exchanging, brought, integration, disconnecting, revoked, granted, exchanges>>
    BY <1>3 DEF StateExpires
  <2>2. GmailTypeOK'
    BY <2>1 DEF GmailTypeOK, disconnecting
  <2>3. StatesInv'
    BY <2>1 DEF StatesInv, GmailTypeOK
  <2> QED
    BY <2>1, <2>2, <2>3 DEF CarriedInv, GrantsInv, StoredTokenIsGood, disconnecting
<1> QED
  BY <1>1, <1>2, <1>3

\* A callback gets a token nobody has had and puts it into the row.
LEMMA CallbackKeeps ==
  ASSUME GmailInv, NEW c \in Callback, ExchangeCode(c) \/ SaveIntegration(c)
  PROVE  GmailInv'
<1> USE GmailAssumption DEF GmailInv
<1>u. UNCHANGED <<states, drawn, exchanges, parting, reading, halfway, revoked>>
  BY DEF ExchangeCode, SaveIntegration, oauth, disconnecting
<1>s. StatesInv'
  BY <1>u DEF StatesInv
<1>1. CASE ExchangeCode(c) /\ CallbackEnds(c)
  <2>1. UNCHANGED <<integration, granted>> /\ brought' = [brought EXCEPT ![c] = Nil]
        /\ exchanging' = [exchanging EXCEPT ![c] = Nil]
    BY <1>1 DEF ExchangeCode, CallbackEnds, GmailTypeOK
  <2>2. GmailTypeOK' /\ CarriedInv'
    BY <1>u, <2>1 DEF GmailTypeOK, CarriedInv
  <2> QED
    BY <1>u, <1>s, <2>1, <2>2 DEF GrantsInv, StoredTokenIsGood
<1>2. CASE ExchangeCode(c) /\ ~CallbackEnds(c)
  <2>1. PICK g \in Grant \ granted : /\ brought' = [brought EXCEPT ![c] = g]
                                     /\ granted' = granted \cup {g}
                                     /\ UNCHANGED <<exchanging, integration>>
    BY <1>2 DEF ExchangeCode
  <2>2. GmailTypeOK'
    BY <1>u, <2>1 DEF GmailTypeOK
  <2>3. CarriedInv'
    BY <1>u, <2>1 DEF GmailTypeOK, CarriedInv, GrantsInv
  <2>4. GrantsInv'
    BY <1>u, <2>1 DEF GrantsInv
  <2> QED
    BY <1>u, <1>s, <2>1, <2>2, <2>3, <2>4 DEF StoredTokenIsGood
<1>3. CASE SaveIntegration(c)
  <2>1. /\ brought[c] # Nil /\ (integration' = brought[c] \/ integration' = integration)
        /\ brought' = [brought EXCEPT ![c] = Nil] /\ exchanging' = [exchanging EXCEPT ![c] = Nil]
        /\ UNCHANGED granted
    BY <1>3 DEF SaveIntegration, CallbackEnds
  <2>2. GmailTypeOK'
    BY <1>u, <2>1 DEF GmailTypeOK
  <2>3. CarriedInv'
    BY <1>u, <2>1 DEF GmailTypeOK, CarriedInv
  <2>4. GrantsInv'
    BY <1>u, <2>1 DEF GrantsInv, CarriedInv
  <2>5. StoredTokenIsGood'
    BY <1>u, <2>1 DEF StoredTokenIsGood, CarriedInv
  <2> QED
    BY <1>s, <2>2, <2>3, <2>4, <2>5
<1> QED
  BY <1>1, <1>2, <1>3

\* A disconnection revokes what it has read and deletes the row.
LEMMA PartingKeeps ==
  ASSUME GmailInv, NEW d \in Parting, ReadIntegration(d) \/ RevokeToken(d) \/ DeleteIntegration(d)
  PROVE  GmailInv'
<1> USE GmailAssumption DEF GmailInv
<1>u. UNCHANGED <<states, drawn, exchanges, exchanging, brought, granted>>
  BY DEF ReadIntegration, RevokeToken, DeleteIntegration, oauth
<1>s. StatesInv'
  BY <1>u DEF StatesInv
<1>1. CASE ReadIntegration(d)
  <2>1. /\ parting[d] = "idle" /\ UNCHANGED <<integration, revoked, halfway>>
        /\ \/ /\ integration # Nil /\ parting' = [parting EXCEPT ![d] = "revoking"]
              /\ reading' = [reading EXCEPT ![d] = integration]
           \/ parting' = [parting EXCEPT ![d] = "deleting"] /\ reading' = reading
    BY <1>1 DEF ReadIntegration
  <2>2. GmailTypeOK'
    BY <1>u, <2>1 DEF GmailTypeOK
  <2>3. CarriedInv'
    BY <1>u, <2>1 DEF GmailTypeOK, CarriedInv
  <2>4. GrantsInv'
    BY <1>u, <2>1 DEF GmailTypeOK, GrantsInv
  <2>5. StoredTokenIsGood'
    BY <2>1 DEF GmailTypeOK, StoredTokenIsGood
  <2> QED
    BY <1>s, <2>2, <2>3, <2>4, <2>5
<1>2. CASE RevokeToken(d)
  <2>1. /\ parting[d] = "revoking" /\ parting' = [parting EXCEPT ![d] = "deleting"]
        /\ UNCHANGED <<integration, reading, halfway>>
        /\ revoked' = revoked \cup {reading[d]} \/ revoked' = revoked
    BY <1>2 DEF RevokeToken
  <2>0. reading[d] \in Grant /\ reading[d] \in granted
    BY <2>1 DEF GrantsInv, GmailTypeOK
  <2>2. GmailTypeOK'
    BY <1>u, <2>0, <2>1 DEF GmailTypeOK
  <2>3. CarriedInv'
    BY <1>u, <2>1 DEF GmailTypeOK, CarriedInv
  <2>4. GrantsInv'
    BY <1>u, <2>0, <2>1 DEF GmailTypeOK, GrantsInv
  <2>5. StoredTokenIsGood'
    <3> SUFFICES ASSUME integration' \in revoked', integration' \notin halfway'
                 PROVE  \E e \in Parting : parting'[e] = "deleting" /\ reading'[e] = integration'
      BY DEF StoredTokenIsGood
    <3>1. parting'[d] = "deleting"
      BY <2>1 DEF GmailTypeOK
    <3>2. CASE integration = reading[d]
      BY <2>1, <3>1, <3>2
    <3>3. CASE integration # reading[d]
      <4>1. PICK e \in Parting : parting[e] = "deleting" /\ reading[e] = integration
        BY <2>1, <3>3 DEF StoredTokenIsGood
      <4>2. parting'[e] = "deleting"
        BY <2>1, <4>1 DEF GmailTypeOK
      <4> QED
        BY <2>1, <4>1, <4>2
    <3> QED
      BY <3>2, <3>3
  <2> QED
    BY <1>s, <2>2, <2>3, <2>4, <2>5
<1>3. CASE DeleteIntegration(d)
  <2>1. /\ parting[d] = "deleting" /\ parting' = [parting EXCEPT ![d] = "idle"]
        /\ reading' = [reading EXCEPT ![d] = Nil] /\ UNCHANGED revoked
        /\ \/ integration' = Nil /\ halfway' = halfway
           \/ halfway' = (halfway \cup {reading[d]}) \ {Nil} /\ integration' = integration
    BY <1>3 DEF DeleteIntegration
  <2>2. GmailTypeOK'
    BY <1>u, <2>1 DEF GmailTypeOK
  <2>3. CarriedInv'
    BY <1>u, <2>1 DEF GmailTypeOK, CarriedInv
  <2>4. GrantsInv'
    BY <1>u, <2>1 DEF GmailTypeOK, GrantsInv
  <2>5. StoredTokenIsGood'
    BY <2>1 DEF GmailTypeOK, StoredTokenIsGood
  <2> QED
    BY <1>s, <2>2, <2>3, <2>4, <2>5
<1> QED
  BY <1>1, <1>2, <1>3

\* A state of the flow is exchanged once, and the row that sends the mails holds a
\* token that Google takes, but for a disconnection of that token under way or one
\* that stopped halfway: whatever administrators connect and disconnect at once.
THEOREM ConnectionHolds == GmailSpec => [](GmailTypeOK /\ ConnectionIsGood)
<1>1. GmailInit => GmailInv
  BY GmailAssumption DEF GmailInit, GmailInv, GmailTypeOK, StatesInv, CarriedInv, GrantsInv, StoredTokenIsGood
<1>2. GmailInv /\ [GmailNext]_gmailVars => GmailInv'
  <2> SUFFICES ASSUME GmailInv, [GmailNext]_gmailVars PROVE GmailInv'
    OBVIOUS
  <2>1. CASE UNCHANGED gmailVars
    BY <2>1 DEF gmailVars, GmailInv, GmailTypeOK, StatesInv, CarriedInv, GrantsInv, StoredTokenIsGood
  <2>2. CASE \E a \in Admin : GmailAuthorize(a)
    <3>1. PICK s \in State : TRUE
      BY <2>2 DEF GmailAuthorize
    <3> QED
      BY <2>2, <3>1, FlowKeeps
  <2>3. ASSUME NEW s \in State, (\E c \in Callback, a \in Admin : TakeState(c, a, s)) \/ StateExpires(s)
        PROVE  GmailInv'
    BY <2>3, FlowKeeps
  <2> QED
    BY <2>1, <2>2, <2>3, CallbackKeeps, PartingKeeps DEF GmailNext
<1>3. GmailInv => GmailTypeOK /\ ConnectionIsGood
  BY DEF GmailInv, StatesInv, ConnectionIsGood, StateUsedOnce
<1> QED
  BY <1>1, <1>2, <1>3, PTL DEF GmailSpec

-----------------------------------------------------------------------------
(* The counter of a window.                                                *)

\* The calls counted within the limit since the key was made, and the first of them.
InWindow == IF count < Limit THEN count ELSE Limit
FirstCall == Len(passes) - InWindow + 1

\* The calls are in the order of the clock.
OrderInv ==
  /\ \A i \in 1..Len(passes) : passes[i] <= clock
  /\ \A i, j \in 1..Len(passes) : i <= j => passes[i] <= passes[j]

\* The window of the key: it does not end before its length, and every call of an
\* earlier one came before it began.
WindowKeyInv ==
  /\ InWindow <= Len(passes)
  /\ count = 0 => Len(passes) = 0 /\ expiry = 0
  /\ count > 0 =>
       /\ expiry > 0 => passes[FirstCall] + Window <= expiry /\ passes[Len(passes)] < expiry
       /\ \A j \in 1..Len(passes) : j < FirstCall => passes[j] < passes[FirstCall]
       /\ \A j \in 1..Len(passes) : j + Limit < FirstCall => passes[j] + Window < passes[FirstCall]

\* More than a window lies between a call and the one two limits later.
SpacedInv == \A i \in 1..Len(passes) : i + 2 * Limit <= Len(passes) => passes[i] + Window < passes[i + 2 * Limit]

\* Two windows lie between a call and the one three limits, less one, later: the
\* window of the key began one or two windows after the calls that came a limit, or
\* two of them, before its first.
TwoWindowsInv ==
  /\ count > 0 =>
       \A j \in 1..Len(passes) :
         /\ j + Limit <= FirstCall => passes[j] + Window <= passes[FirstCall]
         /\ j + 2 * Limit <= FirstCall => passes[j] + 2 * Window <= passes[FirstCall]
  /\ \A i \in 1..Len(passes) :
       i + 3 * Limit - 1 <= Len(passes) => passes[i] + 2 * Window <= passes[i + 3 * Limit - 1]

CounterInv == CounterTypeOK /\ OrderInv /\ WindowKeyInv /\ SpacedInv /\ TwoWindowsInv /\ CounterLapses

\* What a call that is counted finds: the window goes on, or a new one begins.
LEMMA PassCounterKeeps ==
  ASSUME OrderInv, WindowKeyInv, SpacedInv, passes \in Seq(Nat), clock \in Nat, expiry \in Nat, count \in 0..(Limit + 1),
         passes' = Append(passes, clock), clock' = clock, count' = Counted + 1, count' <= Limit,
         expiry' = IF Counted = 0 THEN 0 ELSE expiry
  PROVE  OrderInv' /\ WindowKeyInv' /\ SpacedInv'
<1> DEFINE m == Len(passes)
<1>w. Limit \in Nat /\ Limit > 0 /\ Window \in Nat /\ Window > 0
  BY WindowAssumption
<1>s. /\ m \in Nat /\ \A i \in 1..m : passes[i] \in Nat
  BY LenProperties, ElementOfSeq
<1>n. /\ Len(passes') = m + 1 /\ passes'[m + 1] = clock
      /\ \A i \in 1..m : passes'[i] = passes[i]
  BY <1>s, AppendProperties
<1> HIDE DEF m
<1>i. 1..(m + 1) = 1..m \cup {m + 1}
  BY <1>s
<1>o. OrderInv'
  BY <1>s, <1>n, <1>i DEF OrderInv, m
<1>c. Counted \in Nat /\ Counted <= count
  BY DEF Counted
<1>1. CASE Counted = 0
  <2>1. InWindow' = 1 /\ FirstCall' = m + 1
    BY <1>1, <1>n, <1>w, <1>s DEF InWindow, FirstCall
  <2>2. \A j \in 1..m : passes[j] < clock
    <3>1. CASE count = 0
      BY <3>1, <1>s DEF WindowKeyInv, m
    <3>2. CASE count # 0
      <4>1. expiry > 0 /\ clock >= expiry
        BY <1>1, <3>2 DEF Counted
      <4>2. m > 0 /\ passes[m] < expiry
        BY <3>2, <4>1, <1>s, <1>w DEF WindowKeyInv, InWindow, m
      <4>3. m \in 1..m /\ passes[m] \in Nat
        BY <4>2, <1>s
      <4>4. ASSUME NEW j \in 1..m PROVE passes[j] < clock
        <5>1. j <= m /\ passes[j] \in Nat
          BY <1>s
        <5>2. passes[j] <= passes[m]
          BY <4>3, <5>1 DEF OrderInv, m
        <5> QED
          BY <4>1, <4>2, <4>3, <5>1, <5>2
      <4> QED
        BY <4>4
    <3> QED
      BY <3>1, <3>2
  <2>3. \A j \in 1..m : j + Limit < m + 1 => passes[j] + Window < clock
    <3> SUFFICES ASSUME NEW j \in 1..m, j + Limit < m + 1 PROVE passes[j] + Window < clock
      OBVIOUS
    <3>1. count > 0
      BY <1>s DEF WindowKeyInv, m
    <3>2. expiry > 0 /\ clock >= expiry
      BY <1>1, <3>1 DEF Counted
    <3>3. FirstCall \in 1..m /\ j < FirstCall
      BY SMTT(30), <3>1, <1>s, <1>w DEF WindowKeyInv, InWindow, FirstCall, m
    <3>4. passes[j] < passes[FirstCall] /\ passes[FirstCall] + Window <= expiry
      BY <3>1, <3>2, <3>3 DEF WindowKeyInv, m
    <3>5. passes[j] \in Nat /\ passes[FirstCall] \in Nat
      BY <3>3, <1>s
    <3> QED
      BY SMTT(30), <3>2, <3>4, <3>5, <1>w
  <2>4. WindowKeyInv'
    <3>1. count' = 1 /\ expiry' = 0 /\ passes'[m + 1] = clock /\ 1..Len(passes') = 1..m \cup {m + 1}
      BY <1>1, <1>n, <1>i
    <3>2. \A j \in 1..Len(passes') : j < FirstCall' => passes'[j] < passes'[FirstCall']
      BY <1>n, <1>s, <2>1, <2>2, <3>1
    <3>3. \A j \in 1..Len(passes') : j + Limit < FirstCall' => passes'[j] + Window < passes'[FirstCall']
      BY <1>n, <1>s, <1>w, <2>1, <2>3, <3>1
    <3>4. InWindow' <= Len(passes')
      BY <1>n, <1>s, <2>1
    <3>5. ~(count' = 0) /\ ~(expiry' > 0)
      BY <3>1
    <3> QED
      BY <3>2, <3>3, <3>4, <3>5 DEF WindowKeyInv
  <2>5. SpacedInv'
    BY SMTT(30), <1>n, <1>s, <1>i, <1>w, <2>3 DEF SpacedInv, m
  <2> QED
    BY <1>o, <2>4, <2>5
<1>2. CASE Counted # 0
  <2>1. Counted = count /\ count > 0 /\ count < Limit /\ (expiry > 0 => clock < expiry)
    BY <1>2, <1>c, <1>w DEF Counted
  <2>2. InWindow = count /\ InWindow' = count + 1 /\ FirstCall = m - count + 1 /\ FirstCall' = FirstCall
    BY <2>1, <1>n, <1>w, <1>s DEF InWindow, FirstCall, m
  <2>3. FirstCall \in 1..m
    BY <2>1, <2>2, <1>s DEF WindowKeyInv, m
  <2>4. passes'[FirstCall] = passes[FirstCall] /\ passes[FirstCall] <= clock
    BY <2>3, <1>n DEF OrderInv, m
  <2>5. WindowKeyInv'
    <3>1. InWindow' <= Len(passes')
      BY <2>1, <2>2, <1>n, <1>s DEF WindowKeyInv, m
    <3>2. expiry' > 0 => passes'[FirstCall'] + Window <= expiry' /\ passes'[Len(passes')] < expiry'
      BY <1>2, <1>n, <2>1, <2>2, <2>4 DEF WindowKeyInv
    <3>3. \A j \in 1..(m + 1) : j < FirstCall' => passes'[j] < passes'[FirstCall']
      BY <1>n, <1>s, <1>i, <2>1, <2>2, <2>3, <2>4 DEF WindowKeyInv, m
    <3>4. \A j \in 1..(m + 1) : j + Limit < FirstCall' => passes'[j] + Window < passes'[FirstCall']
      BY <1>n, <1>s, <1>i, <1>w, <2>1, <2>2, <2>3, <2>4 DEF WindowKeyInv, m
    <3>5. count' # 0
      BY <2>1
    <3>6. 1..Len(passes') = 1..(m + 1)
      BY <1>n
    <3> QED
      BY <3>1, <3>2, <3>3, <3>4, <3>5, <3>6 DEF WindowKeyInv
  <2>6. SpacedInv'
    <3>1. ASSUME NEW i \in 1..(m + 1), i + 2 * Limit <= m + 1
          PROVE  passes'[i] + Window < passes'[i + 2 * Limit]
      <4>1. CASE i + 2 * Limit <= m
        BY <4>1, <3>1, <1>n, <1>s, <1>w DEF SpacedInv, m
      <4>2. CASE i + 2 * Limit = m + 1
        <5>1. i \in 1..m /\ i + Limit < FirstCall
          BY <4>2, <3>1, <2>1, <2>2, <1>s, <1>w
        <5>2. passes[i] + Window < passes[FirstCall]
          BY <5>1, <2>1 DEF WindowKeyInv, m
        <5>3. passes[i] \in Nat /\ passes[FirstCall] \in Nat /\ passes'[i] = passes[i]
          BY <5>1, <2>3, <1>s, <1>n
        <5>4. passes'[i + 2 * Limit] = clock
          BY <4>2, <1>n
        <5> QED
          BY SMTT(30), <5>2, <5>3, <5>4, <2>4, <1>w
      <4>3. i + 2 * Limit <= m \/ i + 2 * Limit = m + 1
        BY <3>1, <1>s, <1>w
      <4> QED
        BY <4>1, <4>2, <4>3
    <3> QED
      BY <3>1, <1>n DEF SpacedInv
  <2> QED
    BY <1>o, <2>5, <2>6
<1> QED
  BY <1>1, <1>2

\* The same of calls that are two windows apart.
LEMMA PassKeepsTwoWindows ==
  ASSUME OrderInv, WindowKeyInv, TwoWindowsInv, passes \in Seq(Nat), clock \in Nat, expiry \in Nat, count \in 0..(Limit + 1),
         passes' = Append(passes, clock), clock' = clock, count' = Counted + 1, count' <= Limit
  PROVE  TwoWindowsInv'
<1> DEFINE m == Len(passes)
<1>w. Limit \in Nat /\ Limit > 0 /\ Window \in Nat /\ Window > 0
  BY WindowAssumption
<1>s. /\ m \in Nat /\ \A i \in 1..m : passes[i] \in Nat
  BY LenProperties, ElementOfSeq
<1>n. /\ Len(passes') = m + 1 /\ passes'[m + 1] = clock
      /\ \A i \in 1..m : passes'[i] = passes[i]
  BY <1>s, AppendProperties
<1> HIDE DEF m
<1>i. 1..(m + 1) = 1..m \cup {m + 1}
  BY <1>s
<1>c. Counted \in Nat /\ Counted <= count
  BY DEF Counted
<1>e. count = 0 => m = 0
  BY <1>s DEF WindowKeyInv, m
<1> DEFINE Far(F, instant) ==
             /\ F \in 1..(m + 1) /\ m + 1 < F + Limit
             /\ \A j \in 1..m :
                  /\ j + Limit <= F => passes[j] + Window <= instant
                  /\ j + 2 * Limit <= F => passes[j] + 2 * Window <= instant
<1>1. PICK F \in Nat, instant \in Nat :
        Far(F, instant) /\ F = FirstCall' /\ instant = passes'[FirstCall'] /\ instant <= clock
  <2>1. CASE Counted = 0
    <3>1. FirstCall' = m + 1
      BY <2>1, <1>n, <1>w, <1>s DEF InWindow, FirstCall
    <3>2. ASSUME NEW j \in 1..m
          PROVE  /\ j + Limit <= m + 1 => passes[j] + Window <= clock
                 /\ j + 2 * Limit <= m + 1 => passes[j] + 2 * Window <= clock
      <4>1. count > 0 /\ passes[j] \in Nat
        BY <1>s, <1>e
      <4>2. expiry > 0 /\ clock >= expiry
        BY <2>1, <4>1 DEF Counted
      <4>3. InWindow \in 1..Limit /\ InWindow <= m
        BY <4>1, <1>w DEF WindowKeyInv, InWindow, m
      <4>4. FirstCall = m - InWindow + 1 /\ FirstCall \in 1..m
        BY <4>3, <1>s DEF FirstCall, m
      <4>5. passes[FirstCall] \in Nat /\ passes[FirstCall] + Window <= clock
        <5>1. passes[FirstCall] + Window <= expiry
          BY <4>1, <4>2 DEF WindowKeyInv
        <5>2. passes[FirstCall] \in Nat
          BY <4>4, <1>s
        <5> QED
          BY SMTT(30), <5>1, <5>2, <4>2, <1>w
      <4>6. j < FirstCall => passes[j] < passes[FirstCall]
        BY <4>1, <4>4 DEF WindowKeyInv, m
      <4>7. j + Limit <= FirstCall => passes[j] + Window <= passes[FirstCall]
        BY <4>1 DEF TwoWindowsInv, m
      <4>8. (j + Limit <= m + 1 => j <= FirstCall) /\ (j + 2 * Limit <= m + 1 => j + Limit <= FirstCall)
        BY SMTT(30), <4>3, <4>4, <1>s, <1>w
      <4>9. j = FirstCall => passes[j] = passes[FirstCall]
        OBVIOUS
      <4>a. PICK a \in Nat, b \in Nat : a = passes[j] /\ b = passes[FirstCall]
        BY <4>1, <4>5
      <4>b. /\ j <= FirstCall => a <= b
            /\ j + Limit <= FirstCall => a + Window <= b
            /\ b + Window <= clock
        BY <4>1, <4>4, <4>5, <4>6, <4>7, <4>9, <4>a
      <4>c. /\ j + Limit <= m + 1 => a + Window <= clock
            /\ j + 2 * Limit <= m + 1 => a + 2 * Window <= clock
        BY SMTT(30), <4>8, <4>b, <1>w
      <4> QED
        BY <4>a, <4>c
    <3>3. Far(m + 1, clock)
      BY <3>2, <1>s, <1>w
    <3>4. passes'[FirstCall'] = clock /\ m + 1 \in Nat
      BY <3>1, <1>n, <1>s
    <3> QED
      BY <3>1, <3>3, <3>4
  <2>2. CASE Counted # 0
    <3>1. Counted = count /\ count > 0 /\ count < Limit
      BY <2>2, <1>c, <1>w DEF Counted
    <3>2. FirstCall = m - count + 1 /\ FirstCall' = FirstCall /\ count <= m
      <4>1. count \in Nat /\ count' = count + 1 /\ count + 1 <= Limit
        BY <3>1, <1>c
      <4>2. InWindow = count /\ InWindow' = count + 1
        BY <3>1, <4>1, <1>w DEF InWindow
      <4>3. FirstCall = m - count + 1 /\ FirstCall' = (m + 1) - (count + 1) + 1
        BY <4>2, <1>n DEF FirstCall, m
      <4>4. count <= m
        BY <4>2 DEF WindowKeyInv, m
      <4> QED
        BY <4>1, <4>3, <4>4, <1>s
    <3>3. FirstCall \in 1..m /\ m + 1 < FirstCall + Limit
      BY <3>1, <3>2, <1>s, <1>w
    <3>4. passes'[FirstCall'] = passes[FirstCall] /\ passes[FirstCall] <= clock /\ passes[FirstCall] \in Nat
      BY <3>2, <3>3, <1>n, <1>s DEF OrderInv, m
    <3>5. Far(FirstCall, passes[FirstCall])
      BY <3>1, <3>3, <1>s DEF TwoWindowsInv, m
    <3>6. FirstCall \in Nat
      BY <3>3
    <3> QED
      BY <3>2, <3>4, <3>5, <3>6
  <2> QED
    BY <2>1, <2>2
<1>f. F \in Nat /\ m + 1 < F + Limit /\ instant <= clock
  BY <1>1
<1>2. ASSUME NEW j \in 1..(m + 1)
      PROVE  /\ j + Limit <= FirstCall' => passes'[j] + Window <= passes'[FirstCall']
             /\ j + 2 * Limit <= FirstCall' => passes'[j] + 2 * Window <= passes'[FirstCall']
  <2>1. CASE j \in 1..m
    BY <2>1, <1>1, <1>n
  <2>2. CASE j = m + 1
    BY <2>2, <1>1, <1>s, <1>w
  <2> QED
    BY <2>1, <2>2, <1>i
<1>3. ASSUME NEW i \in 1..(m + 1), i + 3 * Limit - 1 <= m + 1
      PROVE  passes'[i] + 2 * Window <= passes'[i + 3 * Limit - 1]
  <2>1. i \in 1..m
    BY <1>3, <1>s, <1>w
  <2>2. CASE i + 3 * Limit - 1 <= m
    <3>1. i + 3 * Limit - 1 \in 1..m
      BY <2>1, <2>2, <1>s, <1>w
    <3>2. passes[i] + 2 * Window <= passes[i + 3 * Limit - 1]
      BY <2>1, <2>2 DEF TwoWindowsInv, m
    <3> QED
      BY <2>1, <3>1, <3>2, <1>n
  <2>3. CASE i + 3 * Limit - 1 = m + 1
    <3>1. i + 2 * Limit <= F
      <4> HIDE DEF Far
      <4> QED
        BY <2>3, <1>f, <1>s, <1>w
    <3>2. passes[i] + 2 * Window <= instant
      BY <2>1, <3>1, <1>1
    <3>3. passes[i] \in Nat /\ passes'[i] = passes[i] /\ passes'[i + 3 * Limit - 1] = clock
      BY <2>1, <2>3, <1>n, <1>s
    <3> QED
      <4> HIDE DEF Far
      <4> QED
        BY <3>2, <3>3, <1>f, <1>w
  <2>4. i + 3 * Limit - 1 <= m \/ i + 3 * Limit - 1 = m + 1
    <3> HIDE DEF Far
    <3> QED
      BY <1>3, <1>s, <1>w
  <2> QED
    BY <2>2, <2>3, <2>4
<1> QED
  BY <1>2, <1>3, <1>n DEF TwoWindowsInv

\* The counter starts without a key.
LEMMA CounterBegins == CounterInit => CounterInv
<1> SUFFICES ASSUME CounterInit PROVE CounterInv
  OBVIOUS
<1>1. /\ clock = 0 /\ count = 0 /\ expiry = 0 /\ wipes = 0 /\ passes = <<>> /\ lostExpiry = FALSE
      /\ pace = [c \in Call |-> "ready"] /\ Limit \in Nat
  BY WindowAssumption DEF CounterInit
<1>2. passes \in Seq(Nat) /\ Len(passes) = 0 /\ 1..Len(passes) = {}
  BY <1>1, EmptySeq
<1>3. CounterTypeOK
  <2>1. pace \in [Call -> Paces] /\ lostExpiry \in BOOLEAN
    BY <1>1 DEF Paces
  <2>2. clock \in Nat /\ count \in 0..(Limit + 1) /\ expiry \in Nat /\ wipes \in Nat
    BY <1>1
  <2> QED
    BY <1>2, <2>1, <2>2 DEF CounterTypeOK
<1>4. OrderInv /\ SpacedInv /\ TwoWindowsInv
  BY <1>1, <1>2 DEF OrderInv, SpacedInv, TwoWindowsInv
<1>5. WindowKeyInv
  BY <1>1, <1>2, WindowAssumption DEF WindowKeyInv, InWindow
<1>6. CounterLapses
  BY <1>1 DEF CounterLapses
<1> QED
  BY <1>3, <1>4, <1>5, <1>6 DEF CounterInv

\* INCR: the call finds a key, finds none, or is refused.
LEMMA CountKeeps == ASSUME CounterInv, NEW c \in Call, CountCall(c) PROVE CounterInv'
<1>t. /\ CounterTypeOK /\ OrderInv /\ WindowKeyInv /\ SpacedInv /\ TwoWindowsInv /\ CounterLapses
      /\ clock \in Nat /\ expiry \in Nat /\ count \in 0..(Limit + 1) /\ passes \in Seq(Nat)
      /\ pace \in [Call -> Paces] /\ Limit \in Nat /\ Limit > 0
  BY WindowAssumption DEF CounterInv, CounterTypeOK
<1>1. /\ count' = Incremented /\ expiry' = IF Incremented = 1 THEN 0 ELSE expiry
      /\ pace' = [pace EXCEPT ![c] = IF Incremented = 1 THEN "expiring"
                                     ELSE IF Incremented <= Limit THEN "passed" ELSE "ready"]
      /\ passes' = IF Incremented <= Limit THEN Append(passes, clock) ELSE passes
      /\ UNCHANGED <<clock, lostExpiry, wipes>> /\ pace[c] = "ready"
  BY DEF CountCall
<1>2. Counted \in 0..(Limit + 1) /\ Counted \in {0, count} /\ Incremented \in 1..(Limit + 1)
  BY <1>t DEF Counted, Incremented
<1>3. CounterTypeOK'
  <2>1. Append(passes, clock) \in Seq(Nat)
    BY <1>t, AppendProperties
  <2>2. count' \in 0..(Limit + 1) /\ expiry' \in Nat /\ pace' \in [Call -> Paces] /\ passes' \in Seq(Nat)
    BY <1>t, <1>1, <1>2, <2>1 DEF Paces
  <2> QED
    BY <1>t, <1>1, <2>2 DEF CounterTypeOK
<1>4. OrderInv' /\ WindowKeyInv' /\ SpacedInv' /\ TwoWindowsInv'
  <2>1. CASE Incremented <= Limit
    <3>1. Incremented = Counted + 1 /\ (Incremented = 1 <=> Counted = 0)
      BY <1>t, <1>2, <2>1 DEF Incremented
    <3> QED
      BY <1>t, <1>1, <2>1, <3>1, PassCounterKeeps, PassKeepsTwoWindows
  <2>2. CASE Incremented > Limit
    <3>1. /\ Counted = count /\ count >= Limit /\ count' > Limit /\ UNCHANGED <<expiry, passes, clock>>
          /\ Incremented # 1
      BY <1>t, <1>1, <1>2, <2>2 DEF Incremented
    <3>2. InWindow = Limit /\ InWindow' = Limit /\ FirstCall' = FirstCall
      <4>1. ~(count < Limit) /\ ~(count' < Limit)
        BY <1>t, <1>1, <1>2, <3>1
      <4>2. InWindow = Limit /\ InWindow' = Limit
        BY <4>1 DEF InWindow
      <4> QED
        BY <3>1, <4>2 DEF FirstCall
    <3>3. WindowKeyInv'
      BY <1>t, <3>1, <3>2 DEF WindowKeyInv
    <3>4. OrderInv' /\ SpacedInv'
      BY <1>t, <3>1 DEF OrderInv, SpacedInv
    <3>5. TwoWindowsInv'
      BY <1>t, <3>1, <3>2 DEF TwoWindowsInv
    <3> QED
      BY <3>3, <3>4, <3>5
  <2> QED
    BY <2>1, <2>2, <1>2, <1>t
<1>5. CounterLapses'
  <2>1. CASE Incremented = 1
    <3>1. pace'[c] = "expiring"
      BY <1>t, <1>1, <2>1
    <3> QED
      BY <3>1 DEF CounterLapses
  <2>2. CASE Incremented # 1
    <3>1. Counted # 0 /\ Counted = count /\ expiry' = expiry
      BY <1>1, <1>2, <1>t, <2>2 DEF Incremented
    <3>2. \A d \in Call : pace[d] = "expiring" => pace'[d] = "expiring"
      BY <1>1, <1>t
    <3> QED
      BY <1>1, <1>2, <1>t, <3>1, <3>2 DEF CounterLapses
  <2> QED
    BY <2>1, <2>2
<1> QED
  BY <1>3, <1>4, <1>5 DEF CounterInv

\* What does not count a call keeps them apart, or forgets them.
LEMMA OtherKeepsTwoWindows ==
  ASSUME TwoWindowsInv, UNCHANGED <<count, passes>> \/ (count' = 0 /\ Len(passes') = 0)
  PROVE  TwoWindowsInv'
<1>1. CASE UNCHANGED <<count, passes>>
  BY <1>1 DEF TwoWindowsInv, FirstCall, InWindow
<1>2. CASE count' = 0 /\ Len(passes') = 0
  <2>1. 1..Len(passes') = {} /\ ~(count' > 0)
    BY <1>2
  <2> QED
    BY <2>1 DEF TwoWindowsInv
<1> QED
  BY <1>1, <1>2

\* EXPIRE, an answer, a reset, and the clock.
LEMMA KeyKeeps ==
  ASSUME CounterInv,
         (\E c \in Call : ExpireKey(c) \/ AnswerCall(c)) \/ WipeCounter \/ Tick \/ UNCHANGED counterVars
  PROVE  CounterInv'
<1>t. /\ CounterTypeOK /\ OrderInv /\ WindowKeyInv /\ SpacedInv /\ TwoWindowsInv /\ CounterLapses
      /\ clock \in Nat /\ expiry \in Nat /\ count \in 0..(Limit + 1) /\ passes \in Seq(Nat)
      /\ pace \in [Call -> Paces] /\ Limit \in Nat /\ Limit > 0 /\ Window \in Nat /\ Window > 0 /\ wipes \in Nat
      /\ lostExpiry \in BOOLEAN /\ Len(passes) \in Nat /\ \A i \in 1..Len(passes) : passes[i] \in Nat
  BY WindowAssumption, LenProperties, ElementOfSeq DEF CounterInv, CounterTypeOK
<1>1. ASSUME NEW c \in Call, ExpireKey(c) PROVE CounterInv'
  <2>1. /\ pace[c] = "expiring" /\ pace' = [pace EXCEPT ![c] = "passed"]
        /\ UNCHANGED <<clock, count, passes, wipes>>
        /\ \/ expiry' = (IF count > 0 THEN clock + Window ELSE expiry) /\ lostExpiry' = lostExpiry
           \/ lostExpiry' = TRUE /\ expiry' = expiry
    BY <1>1 DEF ExpireKey
  <2>2. CounterTypeOK'
    <3>1. expiry' \in Nat
      BY <1>t, <2>1
    <3>2. pace' \in [Call -> Paces] /\ lostExpiry' \in BOOLEAN
      BY <1>t, <2>1 DEF Paces
    <3> QED
      BY <1>t, <2>1, <3>1, <3>2 DEF CounterTypeOK
  <2>3. OrderInv' /\ SpacedInv'
    BY <1>t, <2>1 DEF OrderInv, SpacedInv
  <2>w. TwoWindowsInv'
    BY <1>t, <2>1, OtherKeepsTwoWindows
  <2>4. InWindow' = InWindow /\ FirstCall' = FirstCall
    BY <2>1 DEF InWindow, FirstCall
  <2>5. WindowKeyInv'
    <3>1. count > 0 => FirstCall \in 1..Len(passes) /\ Len(passes) > 0
      BY <1>t DEF WindowKeyInv, InWindow, FirstCall
    <3>2. count > 0 => passes[FirstCall] <= clock /\ passes[Len(passes)] <= clock
      BY <1>t, <3>1 DEF OrderInv
    <3>3. count > 0 => passes[FirstCall] + Window <= clock + Window /\ passes[Len(passes)] < clock + Window
      BY <1>t, <3>1, <3>2
    <3>4. count = 0 => expiry' = expiry
      BY <2>1
    <3>5. count > 0 /\ expiry' > 0 => passes[FirstCall] + Window <= expiry' /\ passes[Len(passes)] < expiry'
      BY <1>t, <2>1, <3>3 DEF WindowKeyInv
    <3> QED
      BY <1>t, <2>1, <2>4, <3>4, <3>5 DEF WindowKeyInv
  <2>6. CounterLapses'
    BY <1>t, <2>1 DEF CounterLapses
  <2> QED
    BY <2>2, <2>3, <2>w, <2>5, <2>6 DEF CounterInv
<1>2. ASSUME NEW c \in Call, AnswerCall(c) PROVE CounterInv'
  <2>1. /\ pace[c] = "passed" /\ pace' = [pace EXCEPT ![c] = "ready"]
        /\ UNCHANGED <<clock, count, expiry, passes, lostExpiry, wipes>>
    BY <1>2 DEF AnswerCall
  <2>2. CounterTypeOK'
    BY <1>t, <2>1 DEF CounterTypeOK, Paces
  <2>3. OrderInv' /\ SpacedInv' /\ WindowKeyInv'
    BY <1>t, <2>1 DEF OrderInv, SpacedInv, WindowKeyInv, InWindow, FirstCall
  <2>w. TwoWindowsInv'
    BY <1>t, <2>1, OtherKeepsTwoWindows
  <2>4. CounterLapses'
    BY <1>t, <2>1 DEF CounterLapses
  <2> QED
    BY <2>2, <2>3, <2>w, <2>4 DEF CounterInv
<1>3. CASE WipeCounter
  <2>1. /\ wipes' = wipes + 1 /\ count' = 0 /\ expiry' = 0 /\ passes' = <<>> /\ UNCHANGED <<clock, pace, lostExpiry>>
    BY <1>3 DEF WipeCounter
  <2>2. passes' \in Seq(Nat) /\ Len(passes') = 0 /\ 1..Len(passes') = {}
    BY <2>1, EmptySeq
  <2>3. CounterTypeOK'
    BY <1>t, <2>1, <2>2 DEF CounterTypeOK
  <2>4. OrderInv' /\ SpacedInv'
    BY <2>2 DEF OrderInv, SpacedInv
  <2>w. TwoWindowsInv'
    BY <1>t, <2>1, <2>2, OtherKeepsTwoWindows
  <2>5. WindowKeyInv'
    BY <1>t, <2>1, <2>2 DEF WindowKeyInv, InWindow
  <2>6. CounterLapses'
    BY <2>1 DEF CounterLapses
  <2> QED
    BY <2>3, <2>4, <2>w, <2>5, <2>6 DEF CounterInv
<1>4. CASE Tick
  <2>1. clock' = clock + 1 /\ UNCHANGED <<count, expiry, pace, passes, lostExpiry, wipes>>
    BY <1>4 DEF Tick
  <2>2. CounterTypeOK'
    BY <1>t, <2>1 DEF CounterTypeOK
  <2>3. OrderInv'
    BY <1>t, <2>1 DEF OrderInv
  <2>4. WindowKeyInv' /\ SpacedInv' /\ CounterLapses'
    BY <1>t, <2>1 DEF WindowKeyInv, InWindow, FirstCall, SpacedInv, CounterLapses
  <2>w. TwoWindowsInv'
    BY <1>t, <2>1, OtherKeepsTwoWindows
  <2> QED
    BY <2>2, <2>3, <2>w, <2>4 DEF CounterInv
<1>5. CASE UNCHANGED counterVars
  <2>1. UNCHANGED <<clock, count, expiry, pace, passes, lostExpiry, wipes>>
    BY <1>5 DEF counterVars
  <2>w. TwoWindowsInv'
    BY <1>t, <2>1, OtherKeepsTwoWindows
  <2> QED
    BY <2>w, <1>5, <1>t DEF counterVars, CounterInv, CounterTypeOK, OrderInv, WindowKeyInv, InWindow, FirstCall, SpacedInv,
                    CounterLapses
<1> QED
  BY <1>1, <1>2, <1>3, <1>4, <1>5

\* What the invariant says of the window.
LEMMA WindowFollows == CounterInv => CounterTypeOK /\ WindowIsKept
<1> SUFFICES ASSUME CounterInv PROVE CallsSpaced
  BY DEF CounterInv, WindowIsKept
<1>1. passes \in Seq(Nat) /\ Len(passes) \in Nat /\ DOMAIN passes = 1..Len(passes)
      /\ (\A i \in 1..Len(passes) : passes[i] \in Nat) /\ Limit \in Nat /\ Window \in Nat
  BY LenProperties, ElementOfSeq, WindowAssumption DEF CounterInv, CounterTypeOK
<1> SUFFICES ASSUME NEW i \in 1..Len(passes), i + 2 * Limit \in 1..Len(passes)
             PROVE  passes[i + 2 * Limit] - passes[i] >= Window
  BY <1>1 DEF CallsSpaced
<1>2. passes[i] + Window < passes[i + 2 * Limit]
  BY <1>1 DEF CounterInv, SpacedInv
<1>3. passes[i] \in Nat /\ passes[i + 2 * Limit] \in Nat
  BY <1>1
<1> QED
  BY <1>1, <1>2, <1>3

\* The counter in front of uploads: no span of a window sees more than two limits
\* of calls, however late an EXPIRE comes, and the key lapses unless its EXPIRE
\* was lost.
THEOREM WindowHolds == CounterSpec => []WindowIsKept
<1>1. CounterInv /\ [CounterNext]_counterVars => CounterInv'
  BY CountKeeps, KeyKeeps DEF CounterNext
<1> QED
  BY <1>1, CounterBegins, WindowFollows, PTL DEF CounterSpec

-----------------------------------------------------------------------------
(* The reset of a password.                                                *)

\* A confirmation under way holds a token it has consumed; one that is about to
\* set the password holds it alone, and the token has set none yet.
HandledInv ==
  /\ \A t \in Token : sets[t] <= 1 /\ (~usedToken[t] => sets[t] = 0)
  /\ \A h \in Confirm : confirming[h] # "idle" => holding[h] \in Token /\ usedToken[holding[h]]
  /\ \A h \in Confirm : confirming[h] = "putting" => sets[holding[h]] = 0
  /\ \A h, k \in Confirm :
       confirming[h] = "putting" /\ confirming[k] = "putting" /\ holding[h] = holding[k] => h = k

\* Sessions of an earlier password are about to end, or the call for it was lost.
OldInv == old => signoutLost \/ \E h \in Confirm : confirming[h] = "signing out"

\* A request that the counter let pass is not older than its calls may take.
FreshInv == \A c \in Call : pace[c] # "ready" => passedAt[c] <= clock /\ clock <= passedAt[c] + MaxLookup

\* Every request under way, and every token, goes back to a counted call of its own.
GoesBack(gc, gt) ==
  /\ \A c \in Call : pace[c] # "ready" => gc[c] \in 1..Len(passes) /\ passes[gc[c]] = passedAt[c]
  /\ \A t \in Token : made[t] > 0 =>
       gt[t] \in 1..Len(passes) /\ passes[gt[t]] < made[t] /\ made[t] <= passes[gt[t]] + MaxLookup + 1
  /\ \A c, d \in Call : pace[c] # "ready" /\ pace[d] # "ready" /\ gc[c] = gc[d] => c = d
  /\ \A t, u \in Token : made[t] > 0 /\ made[u] > 0 /\ gt[t] = gt[u] => t = u
  /\ \A c \in Call, t \in Token : pace[c] # "ready" /\ made[t] > 0 => gc[c] # gt[t]

TracedInv == \E gc \in [Call -> Nat], gt \in [Token -> Nat] : GoesBack(gc, gt)

ResetInv == ResetTypeOK /\ CounterInv /\ HandledInv /\ OldInv /\ FreshInv /\ TracedInv

\* What confirmations and Keycloak do leaves the requests and the counter alone.
LEMMA ConfirmKeeps ==
  ASSUME ResetInv, UNCHANGED <<counterVars, passedAt, made>>
  PROVE  CounterInv' /\ FreshInv' /\ TracedInv'
<1>1. UNCHANGED <<clock, count, expiry, pace, passes, lostExpiry, wipes, passedAt, made>>
  BY DEF counterVars
<1>2. CounterInv'
  BY KeyKeeps DEF ResetInv
<1>3. FreshInv'
  BY <1>1 DEF ResetInv, FreshInv
<1>4. TracedInv'
  BY <1>1 DEF ResetInv, TracedInv, GoesBack
<1> QED
  BY <1>2, <1>3, <1>4

\* A confirmation consumes a token, sets the password, and ends the sessions.
LEMMA ConfirmsKeep ==
  ASSUME ResetInv, NEW h \in Confirm, (\E t \in Token : ConsumeToken(h, t)) \/ PutPassword(h) \/ SignOut(h)
  PROVE  ResetInv'
<1>t. /\ CounterTypeOK /\ passedAt \in [Call -> Nat] /\ made \in [Token -> Nat] /\ usedToken \in [Token -> BOOLEAN]
      /\ confirming \in [Confirm -> {"idle", "putting", "signing out"}]
      /\ holding \in [Confirm -> Token \cup {Nobody}]
      /\ current \in BOOLEAN /\ old \in BOOLEAN /\ sets \in [Token -> Nat] /\ signoutLost \in BOOLEAN
      /\ HandledInv /\ OldInv
  BY DEF ResetInv, ResetTypeOK
<1>u. /\ UNCHANGED <<counterVars, passedAt, made>>
      /\ UNCHANGED <<clock, count, expiry, pace, passes, lostExpiry, wipes, passedAt, made>>
  <2>1. UNCHANGED <<counterVars, passedAt, made>>
    BY DEF ConsumeToken, PutPassword, SignOut, tokens
  <2> QED
    BY <2>1 DEF counterVars
<1>c. CounterInv' /\ FreshInv' /\ TracedInv' /\ CounterTypeOK'
  BY <1>u, ConfirmKeeps DEF CounterInv
<1>s. ResetTypeOK' /\ HandledInv' /\ OldInv' => ResetInv'
  BY <1>c DEF ResetInv
<1>1. ASSUME NEW t \in Token, ConsumeToken(h, t) PROVE ResetInv'
  <2>1. /\ confirming[h] = "idle" /\ ~usedToken[t]
        /\ usedToken' = [usedToken EXCEPT ![t] = TRUE] /\ confirming' = [confirming EXCEPT ![h] = "putting"]
        /\ holding' = [holding EXCEPT ![h] = t] /\ UNCHANGED <<current, old, sets, signoutLost>>
    BY <1>1 DEF ConsumeToken, Consumable, keycloak
  <2>2. ResetTypeOK'
    BY <1>t, <1>u, <1>c, <2>1 DEF ResetTypeOK
  <2>3. HandledInv'
    <3>1. \A x \in Token : sets'[x] <= 1 /\ (~usedToken'[x] => sets'[x] = 0)
      BY <1>t, <2>1 DEF HandledInv
    <3>2. \A k \in Confirm : confirming'[k] # "idle" => holding'[k] \in Token /\ usedToken'[holding'[k]]
      BY <1>t, <2>1 DEF HandledInv
    <3>3. \A k \in Confirm : confirming'[k] = "putting" => sets'[holding'[k]] = 0
      BY <1>t, <2>1 DEF HandledInv
    <3>4. \A k \in Confirm : k # h /\ confirming'[k] = "putting" => holding'[k] # t
      BY <1>t, <2>1 DEF HandledInv
    <3>5. \A j, k \in Confirm :
            confirming'[j] = "putting" /\ confirming'[k] = "putting" /\ holding'[j] = holding'[k] => j = k
      <4> SUFFICES ASSUME NEW j \in Confirm, NEW k \in Confirm,
                          confirming'[j] = "putting", confirming'[k] = "putting", holding'[j] = holding'[k]
                   PROVE  j = k
        OBVIOUS
      <4>1. CASE j = h \/ k = h
        BY <1>t, <2>1, <3>4, <4>1
      <4>2. CASE j # h /\ k # h
        BY <1>t, <2>1, <4>2 DEF HandledInv
      <4> QED
        BY <4>1, <4>2
    <3> QED
      BY <3>1, <3>2, <3>3, <3>5 DEF HandledInv
  <2>4. OldInv'
    <3> SUFFICES ASSUME old, ~signoutLost PROVE \E k \in Confirm : confirming'[k] = "signing out"
      BY <2>1 DEF OldInv
    <3>1. PICK k \in Confirm : confirming[k] = "signing out"
      BY <1>t DEF OldInv
    <3> QED
      BY <1>t, <2>1, <3>1
  <2> QED
    BY <1>s, <2>2, <2>3, <2>4
<1>2. CASE PutPassword(h)
  <2>0. confirming[h] = "putting" /\ UNCHANGED usedToken
    BY <1>2 DEF PutPassword, tokens
  <2>t. holding[h] \in Token /\ usedToken[holding[h]] /\ sets[holding[h]] = 0
    BY <1>t, <2>0 DEF HandledInv
  <2>1. CASE EndConfirm(h) /\ UNCHANGED <<current, old, sets, signoutLost>>
    <3>1. /\ confirming' = [confirming EXCEPT ![h] = "idle"] /\ holding' = [holding EXCEPT ![h] = Nobody]
          /\ UNCHANGED <<current, old, sets, signoutLost>>
      BY <2>1 DEF EndConfirm
    <3>2. ResetTypeOK'
      BY <1>t, <1>u, <1>c, <2>0, <3>1 DEF ResetTypeOK
    <3>3. HandledInv'
      BY <1>t, <2>0, <3>1 DEF HandledInv
    <3>4. OldInv'
      BY <1>t, <2>0, <3>1 DEF OldInv
    <3> QED
      BY <1>s, <3>2, <3>3, <3>4
  <2>2. CASE /\ old' = (old \/ current) /\ current' = FALSE
             /\ sets' = [sets EXCEPT ![holding[h]] = @ + 1]
             /\ \/ confirming' = [confirming EXCEPT ![h] = "signing out"] /\ UNCHANGED <<holding, signoutLost>>
                \/ EndConfirm(h) /\ signoutLost' = TRUE
    <3>1. PICK t \in Token : t = holding[h]
      BY <2>t
    <3>2. \A k \in Confirm : k # h /\ confirming[k] = "putting" => holding[k] # t
      BY <1>t, <2>0, <3>1 DEF HandledInv
    <3>a. /\ sets' = [sets EXCEPT ![t] = 1] /\ current' = FALSE /\ old' = (old \/ current)
          /\ sets'[t] = 1 /\ \A x \in Token : x # t => sets'[x] = sets[x]
      <4>1. sets' = [sets EXCEPT ![t] = sets[t] + 1] /\ sets[t] = 0
        BY <2>t, <2>2, <3>1
      <4>2. sets' = [sets EXCEPT ![t] = 1]
        BY <4>1
      <4>3. current' = FALSE /\ old' = (old \/ current)
        BY <2>2
      <4> QED
        BY <1>t, <4>2, <4>3
    <3>b. /\ \A k \in Confirm : k # h => confirming'[k] = confirming[k] /\ holding'[k] = holding[k]
          /\ \/ confirming'[h] = "signing out" /\ holding'[h] = t /\ signoutLost' = signoutLost
             \/ confirming'[h] = "idle" /\ holding'[h] = Nobody /\ signoutLost' = TRUE
      BY <1>t, <2>2, <3>1 DEF EndConfirm
    <3>4. /\ confirming' \in [Confirm -> {"idle", "putting", "signing out"}]
          /\ holding' \in [Confirm -> Token \cup {Nobody}]
      BY <1>t, <2>2 DEF EndConfirm
    <3>5. old' \in BOOLEAN
      BY <3>a, <3>b DEF ResetTypeOK
    <3>6. ResetTypeOK'
      BY <1>t, <1>u, <1>c, <2>0, <3>a, <3>b, <3>4, <3>5 DEF ResetTypeOK
    <3>7. HandledInv'
      <4>1. \A x \in Token : sets'[x] <= 1 /\ (~usedToken'[x] => sets'[x] = 0)
        <5> SUFFICES ASSUME NEW x \in Token PROVE sets'[x] <= 1 /\ (~usedToken'[x] => sets'[x] = 0)
          OBVIOUS
        <5>1. CASE x = t
          BY <2>0, <2>t, <3>1, <3>a, <5>1
        <5>2. CASE x # t
          BY <1>t, <2>0, <3>a, <5>2 DEF HandledInv
        <5> QED
          BY <5>1, <5>2
      <4>2. \A k \in Confirm : confirming'[k] # "idle" => holding'[k] \in Token /\ usedToken'[holding'[k]]
        BY <1>t, <2>0, <2>t, <3>1, <3>a, <3>b DEF HandledInv
      <4>3. \A k \in Confirm : confirming'[k] = "putting" => k # h /\ sets'[holding'[k]] = 0
        <5> SUFFICES ASSUME NEW k \in Confirm, confirming'[k] = "putting" PROVE k # h /\ sets'[holding'[k]] = 0
          OBVIOUS
        <5>1. k # h
          BY <3>b
        <5>2. confirming[k] = "putting" /\ holding'[k] = holding[k]
          BY <3>b, <5>1
        <5>3. holding[k] \in Token /\ sets[holding[k]] = 0 /\ holding[k] # t
          BY <1>t, <3>2, <5>1, <5>2 DEF HandledInv
        <5> QED
          BY <3>a, <5>1, <5>2, <5>3
      <4>4. \A j, k \in Confirm :
              confirming'[j] = "putting" /\ confirming'[k] = "putting" /\ holding'[j] = holding'[k] => j = k
        <5> SUFFICES ASSUME NEW j \in Confirm, NEW k \in Confirm,
                            confirming'[j] = "putting", confirming'[k] = "putting", holding'[j] = holding'[k]
                     PROVE  j = k
          OBVIOUS
        <5>1. j # h /\ k # h
          BY <4>3
        <5>2. confirming[j] = "putting" /\ confirming[k] = "putting" /\ holding[j] = holding[k]
          BY <3>b, <5>1
        <5> QED
          BY <1>t, <5>2 DEF HandledInv
      <4> QED
        BY <4>1, <4>2, <4>3, <4>4 DEF HandledInv
    <3>8. OldInv'
      BY <3>a, <3>b DEF OldInv
    <3> QED
      BY <1>s, <3>6, <3>7, <3>8
  <2> QED
    BY <1>2, <2>1, <2>2 DEF PutPassword
<1>3. CASE SignOut(h)
  <2>1. /\ confirming[h] = "signing out" /\ UNCHANGED <<usedToken, sets>>
        /\ confirming' = [confirming EXCEPT ![h] = "idle"] /\ holding' = [holding EXCEPT ![h] = Nobody]
        /\ \/ current' = FALSE /\ old' = FALSE /\ signoutLost' = signoutLost
           \/ signoutLost' = TRUE /\ UNCHANGED <<current, old>>
    BY <1>3 DEF SignOut, EndConfirm, tokens
  <2>2. ResetTypeOK'
    BY <1>t, <1>u, <1>c, <2>1 DEF ResetTypeOK
  <2>3. HandledInv'
    BY <1>t, <2>1 DEF HandledInv
  <2>4. OldInv'
    BY <2>1 DEF OldInv
  <2> QED
    BY <1>s, <2>2, <2>3, <2>4
<1> QED
  BY <1>1, <1>2, <1>3

\* A request leaves confirmations and sessions alone.
LEMMA RequestKeeps ==
  ASSUME ResetInv, UNCHANGED <<usedToken, confirming, holding, keycloak>>
  PROVE  HandledInv' /\ OldInv'
BY DEF ResetInv, HandledInv, OldInv, keycloak

\* A request is counted: it goes back to the call it was counted as.
LEMMA AskResetKeeps ==
  ASSUME ResetInv, NEW c \in Call, AskReset(c)
  PROVE  ResetInv'
<1>t. /\ CounterTypeOK /\ CounterInv /\ FreshInv /\ TracedInv /\ ResetTypeOK
      /\ passedAt \in [Call -> Nat] /\ made \in [Token -> Nat]
      /\ clock \in Nat /\ passes \in Seq(Nat) /\ pace \in [Call -> Paces]
  BY DEF ResetInv, ResetTypeOK, CounterTypeOK
<1>m. MaxLookup \in Nat /\ Limit \in Nat /\ Limit > 0
  BY ResetAssumption, WindowAssumption
<1>1. CountCall(c) /\ UNCHANGED <<made, usedToken, confirming, holding, keycloak>>
  BY DEF AskReset, tokens
<1>2. CounterInv' /\ CounterTypeOK'
  <2>1. CounterInv'
    BY <1>1, <1>t, CountKeeps
  <2> QED
    BY <2>1 DEF CounterInv
<1>3. /\ pace[c] = "ready" /\ clock' = clock
      /\ \A d \in Call : d # c => pace'[d] = pace[d] /\ passedAt'[d] = passedAt[d]
      /\ passedAt'[c] = IF pace'[c] = "ready" THEN 0 ELSE clock
  BY <1>1, <1>t DEF CountCall, AskReset
<1>4. pace'[c] # "ready" => passes' = Append(passes, clock)
  <2>1. pace'[c] = IF Incremented = 1 THEN "expiring" ELSE IF Incremented <= Limit THEN "passed" ELSE "ready"
    BY <1>1, <1>t DEF CountCall
  <2>2. pace'[c] # "ready" => Incremented <= Limit
    BY <2>1, <1>m
  <2> QED
    BY <1>1, <2>2 DEF CountCall
<1>5. passes' = Append(passes, clock) \/ passes' = passes
  BY <1>1 DEF CountCall
<1>6. ResetTypeOK'
  <2>1. passedAt' \in [Call -> Nat]
    BY <1>t DEF AskReset
  <2> QED
    BY <1>1, <1>2, <1>t, <2>1 DEF ResetTypeOK, keycloak
<1>7. FreshInv'
  <2> SUFFICES ASSUME NEW d \in Call, pace'[d] # "ready" PROVE passedAt'[d] <= clock' /\ clock' <= passedAt'[d] + MaxLookup
    BY DEF FreshInv
  <2>1. CASE d = c
    BY <1>t, <1>m, <1>3, <2>1
  <2>2. CASE d # c
    BY <1>t, <1>m, <1>3, <2>2 DEF FreshInv
  <2> QED
    BY <2>1, <2>2
<1>8. TracedInv'
  <2>1. PICK gc \in [Call -> Nat], gt \in [Token -> Nat] : GoesBack(gc, gt)
    BY <1>t DEF TracedInv
  <2>2. Len(passes) \in Nat /\ \A i \in 1..Len(passes) : i \in 1..Len(passes') /\ passes'[i] = passes[i]
    <3>1. Len(passes) \in Nat
      BY <1>t, LenProperties
    <3>2. CASE passes' = passes
      BY <3>1, <3>2
    <3>3. CASE passes' = Append(passes, clock)
      <4>1. Len(passes') = Len(passes) + 1 /\ \A i \in 1..Len(passes) : passes'[i] = passes[i]
        BY <1>t, <3>3, AppendProperties
      <4> QED
        BY <3>1, <4>1
    <3> QED
      BY <1>5, <3>1, <3>2, <3>3
  <2>3. pace'[c] # "ready" => Len(passes) + 1 \in 1..Len(passes') /\ passes'[Len(passes) + 1] = clock
    BY <1>t, <1>4, <2>2, AppendProperties
  <2>4. PICK g \in [Call -> Nat] : g[c] = Len(passes) + 1 /\ \A d \in Call : d # c => g[d] = gc[d]
    <3> DEFINE f == [d \in Call |-> IF d = c THEN Len(passes) + 1 ELSE gc[d]]
    <3>1. f \in [Call -> Nat] /\ f[c] = Len(passes) + 1 /\ \A d \in Call : d # c => f[d] = gc[d]
      BY <2>2
    <3> QED
      BY <3>1
  <2>5. /\ \A d \in Call : d # c /\ pace'[d] # "ready" => g[d] \in 1..Len(passes) /\ g[d] # g[c]
        /\ \A t \in Token : made'[t] > 0 => gt[t] \in 1..Len(passes) /\ gt[t] # g[c]
    BY SMTT(30), <1>1, <1>3, <2>1, <2>2, <2>4 DEF GoesBack
  <2>6. GoesBack(g, gt)'
    <3>1. \A d \in Call : pace'[d] # "ready" => g[d] \in 1..Len(passes') /\ passes'[g[d]] = passedAt'[d]
      <4> SUFFICES ASSUME NEW d \in Call, pace'[d] # "ready"
                   PROVE  g[d] \in 1..Len(passes') /\ passes'[g[d]] = passedAt'[d]
        OBVIOUS
      <4>1. CASE d = c
        BY <1>3, <2>3, <2>4, <4>1
      <4>2. CASE d # c
        BY <1>3, <2>1, <2>2, <2>4, <4>2 DEF GoesBack
      <4> QED
        BY <4>1, <4>2
    <3>2. \A t \in Token : made'[t] > 0 =>
            gt[t] \in 1..Len(passes') /\ passes'[gt[t]] < made'[t] /\ made'[t] <= passes'[gt[t]] + MaxLookup + 1
      BY <1>1, <2>1, <2>2 DEF GoesBack
    <3>3. \A d, e \in Call : pace'[d] # "ready" /\ pace'[e] # "ready" /\ g[d] = g[e] => d = e
      <4> SUFFICES ASSUME NEW d \in Call, NEW e \in Call, pace'[d] # "ready", pace'[e] # "ready", g[d] = g[e]
                   PROVE  d = e
        OBVIOUS
      <4>1. CASE d = c \/ e = c
        BY <2>5, <4>1
      <4>2. CASE d # c /\ e # c
        BY <1>3, <2>1, <2>4, <4>2 DEF GoesBack
      <4> QED
        BY <4>1, <4>2
    <3>4. \A t, u \in Token : made'[t] > 0 /\ made'[u] > 0 /\ gt[t] = gt[u] => t = u
      BY <1>1, <2>1 DEF GoesBack
    <3>5. \A d \in Call, t \in Token : pace'[d] # "ready" /\ made'[t] > 0 => g[d] # gt[t]
      <4> SUFFICES ASSUME NEW d \in Call, NEW t \in Token, pace'[d] # "ready", made'[t] > 0 PROVE g[d] # gt[t]
        OBVIOUS
      <4>1. CASE d = c
        BY <2>5, <4>1
      <4>2. CASE d # c
        BY <1>1, <1>3, <2>1, <2>4, <4>2 DEF GoesBack
      <4> QED
        BY <4>1, <4>2
    <3> QED
      BY <3>1, <3>2, <3>3, <3>4, <3>5 DEF GoesBack
  <2> QED
    BY <2>4, <2>6 DEF TracedInv
<1>9. HandledInv' /\ OldInv'
  BY <1>1, RequestKeeps
<1> QED
  BY <1>2, <1>6, <1>7, <1>8, <1>9 DEF ResetInv

\* The expiry of the key comes late, or not at all.
LEMMA ExpireKeepsTrace ==
  ASSUME ResetInv, NEW c \in Call, ExpireReset(c)
  PROVE  ResetInv'
<1>t. CounterTypeOK /\ CounterInv /\ FreshInv /\ TracedInv /\ ResetTypeOK /\ pace \in [Call -> Paces]
  BY DEF ResetInv, ResetTypeOK, CounterTypeOK
<1>1. /\ ExpireKey(c) /\ UNCHANGED <<passedAt, made, usedToken, confirming, holding, keycloak>>
      /\ UNCHANGED <<clock, passes>> /\ pace[c] = "expiring" /\ pace' = [pace EXCEPT ![c] = "passed"]
  BY DEF ExpireReset, ExpireKey, tokens
<1>2. CounterInv' /\ CounterTypeOK'
  <2>1. CounterInv'
    BY <1>1, <1>t, KeyKeeps
  <2> QED
    BY <2>1 DEF CounterInv
<1>3. \A d \in Call : pace'[d] # "ready" <=> pace[d] # "ready"
  BY <1>1, <1>t
<1>4. ResetTypeOK'
  BY <1>1, <1>2, <1>t DEF ResetTypeOK, keycloak
<1>5. FreshInv'
  BY <1>1, <1>3, <1>t DEF FreshInv
<1>6. TracedInv'
  <2>1. PICK gc \in [Call -> Nat], gt \in [Token -> Nat] : GoesBack(gc, gt)
    BY <1>t DEF TracedInv
  <2>2. GoesBack(gc, gt)'
    BY <1>1, <1>3, <2>1 DEF GoesBack
  <2> QED
    BY <2>2 DEF TracedInv
<1>7. HandledInv' /\ OldInv'
  BY <1>1, RequestKeeps
<1> QED
  BY <1>2, <1>4, <1>5, <1>6, <1>7 DEF ResetInv

\* A token is made: it takes over the counted call of its request.
LEMMA MakeKeeps ==
  ASSUME ResetInv, NEW c \in Call, MakeToken(c)
  PROVE  ResetInv'
<1>t. /\ CounterTypeOK /\ CounterInv /\ FreshInv /\ TracedInv /\ ResetTypeOK
      /\ passedAt \in [Call -> Nat] /\ made \in [Token -> Nat]
      /\ clock \in Nat /\ passes \in Seq(Nat) /\ pace \in [Call -> Paces]
  BY DEF ResetInv, ResetTypeOK, CounterTypeOK
<1>m. MaxLookup \in Nat /\ Len(passes) \in Nat /\ \A i \in 1..Len(passes) : passes[i] \in Nat
  BY <1>t, ResetAssumption, LenProperties, ElementOfSeq
<1>1. /\ AnswerCall(c) /\ UNCHANGED <<usedToken, confirming, holding, keycloak>>
      /\ UNCHANGED <<clock, passes>> /\ pace[c] = "passed" /\ pace' = [pace EXCEPT ![c] = "ready"]
      /\ passedAt' = [passedAt EXCEPT ![c] = 0]
      /\ made' = made \/ \E t \in Token : made[t] = 0 /\ made' = [made EXCEPT ![t] = clock + 1]
  BY DEF MakeToken, AnswerCall
<1>2. CounterInv' /\ CounterTypeOK'
  <2>1. CounterInv'
    BY <1>1, <1>t, KeyKeeps
  <2> QED
    BY <2>1 DEF CounterInv
<1>3. \A d \in Call : pace'[d] # "ready" => d # c /\ pace[d] # "ready" /\ passedAt'[d] = passedAt[d]
  BY <1>1, <1>t
<1>4. ResetTypeOK'
  <2>1. made' \in [Token -> Nat] /\ passedAt' \in [Call -> Nat]
    BY <1>1, <1>t
  <2> QED
    BY <1>1, <1>2, <1>t, <2>1 DEF ResetTypeOK, keycloak
<1>5. FreshInv'
  BY <1>1, <1>3, <1>t DEF FreshInv
<1>6. TracedInv'
  <2>1. PICK gc \in [Call -> Nat], gt \in [Token -> Nat] : GoesBack(gc, gt)
    BY <1>t DEF TracedInv
  <2>2. CASE made' = made
    <3>1. GoesBack(gc, gt)'
      BY <1>1, <1>3, <2>1, <2>2 DEF GoesBack
    <3> QED
      BY <3>1 DEF TracedInv
  <2>3. CASE \E t \in Token : made[t] = 0 /\ made' = [made EXCEPT ![t] = clock + 1]
    <3>1. PICK t \in Token : made[t] = 0 /\ made' = [made EXCEPT ![t] = clock + 1]
      BY <2>3
    <3>2. made'[t] = clock + 1 /\ \A u \in Token : u # t => made'[u] = made[u]
      BY <3>1, <1>t
    <3>3. PICK g \in [Token -> Nat] : g[t] = gc[c] /\ \A u \in Token : u # t => g[u] = gt[u]
      <4> DEFINE f == [u \in Token |-> IF u = t THEN gc[c] ELSE gt[u]]
      <4>1. f \in [Token -> Nat] /\ f[t] = gc[c] /\ \A u \in Token : u # t => f[u] = gt[u]
        OBVIOUS
      <4> QED
        BY <4>1
    <3>4. gc[c] \in 1..Len(passes) /\ passes[gc[c]] = passedAt[c]
      BY <1>1, <2>1 DEF GoesBack
    <3>5. passes[gc[c]] < clock + 1 /\ clock + 1 <= passes[gc[c]] + MaxLookup + 1
      <4>1. passedAt[c] <= clock /\ clock <= passedAt[c] + MaxLookup /\ passedAt[c] \in Nat
        BY <1>1, <1>t DEF FreshInv
      <4> QED
        BY <1>t, <1>m, <3>4, <4>1
    <3>6. \A u \in Token : u # t /\ made'[u] > 0 => g[u] # g[t]
      BY <1>1, <2>1, <3>2, <3>3 DEF GoesBack
    <3>7. \A d \in Call : pace'[d] # "ready" => gc[d] # g[t]
      BY <1>1, <1>3, <2>1, <3>3 DEF GoesBack
    <3>8. GoesBack(gc, g)'
      <4>1. \A d \in Call : pace'[d] # "ready" => gc[d] \in 1..Len(passes') /\ passes'[gc[d]] = passedAt'[d]
        BY <1>1, <1>3, <2>1 DEF GoesBack
      <4>2. \A u \in Token : made'[u] > 0 =>
              g[u] \in 1..Len(passes') /\ passes'[g[u]] < made'[u] /\ made'[u] <= passes'[g[u]] + MaxLookup + 1
        <5> SUFFICES ASSUME NEW u \in Token, made'[u] > 0
                     PROVE  /\ g[u] \in 1..Len(passes) /\ passes[g[u]] < made'[u]
                            /\ made'[u] <= passes[g[u]] + MaxLookup + 1
          BY <1>1
        <5>1. CASE u = t
          BY <3>2, <3>3, <3>4, <3>5, <5>1
        <5>2. CASE u # t
          BY <2>1, <3>2, <3>3, <5>2 DEF GoesBack
        <5> QED
          BY <5>1, <5>2
      <4>3. \A d, e \in Call : pace'[d] # "ready" /\ pace'[e] # "ready" /\ gc[d] = gc[e] => d = e
        BY <1>3, <2>1 DEF GoesBack
      <4>4. \A u, v \in Token : made'[u] > 0 /\ made'[v] > 0 /\ g[u] = g[v] => u = v
        <5> SUFFICES ASSUME NEW u \in Token, NEW v \in Token, made'[u] > 0, made'[v] > 0, g[u] = g[v]
                     PROVE  u = v
          OBVIOUS
        <5>1. CASE u = t \/ v = t
          BY <3>6, <5>1
        <5>2. CASE u # t /\ v # t
          BY <2>1, <3>2, <3>3, <5>2 DEF GoesBack
        <5> QED
          BY <5>1, <5>2
      <4>5. \A d \in Call, u \in Token : pace'[d] # "ready" /\ made'[u] > 0 => gc[d] # g[u]
        <5> SUFFICES ASSUME NEW d \in Call, NEW u \in Token, pace'[d] # "ready", made'[u] > 0 PROVE gc[d] # g[u]
          OBVIOUS
        <5>1. CASE u = t
          BY <3>7, <5>1
        <5>2. CASE u # t
          BY <1>3, <2>1, <3>2, <3>3, <5>2 DEF GoesBack
        <5> QED
          BY <5>1, <5>2
      <4> QED
        BY <4>1, <4>2, <4>3, <4>4, <4>5 DEF GoesBack
    <3> QED
      BY <3>8 DEF TracedInv
  <2> QED
    BY <1>1, <2>2, <2>3
<1>7. HandledInv' /\ OldInv'
  BY <1>1, RequestKeeps
<1> QED
  BY <1>2, <1>4, <1>5, <1>6, <1>7 DEF ResetInv

\* Somebody signs in, or time goes by, or nothing happens.
LEMMA OthersKeep ==
  ASSUME ResetInv, SignIn \/ ResetTick \/ UNCHANGED resetVars
  PROVE  ResetInv'
<1>t. /\ CounterTypeOK /\ CounterInv /\ FreshInv /\ TracedInv /\ ResetTypeOK /\ HandledInv /\ OldInv
      /\ passedAt \in [Call -> Nat] /\ clock \in Nat
  BY DEF ResetInv, ResetTypeOK, CounterTypeOK
<1>1. CASE SignIn
  <2>1. /\ current' = TRUE /\ UNCHANGED <<counterVars, passedAt, made>>
        /\ UNCHANGED <<usedToken, confirming, holding, old, sets, signoutLost>>
    BY <1>1 DEF SignIn, tokens
  <2>2. CounterInv' /\ FreshInv' /\ TracedInv'
    BY <2>1, ConfirmKeeps
  <2>3. ResetTypeOK' /\ HandledInv' /\ OldInv'
    BY <2>1, <2>2, <1>t DEF CounterInv, ResetTypeOK, HandledInv, OldInv
  <2> QED
    BY <2>2, <2>3 DEF ResetInv
<1>2. CASE ResetTick
  <2>1. /\ Tick /\ \A c \in Call : pace[c] # "ready" => clock - passedAt[c] < MaxLookup
        /\ clock' = clock + 1 /\ UNCHANGED <<pace, passes>>
        /\ UNCHANGED <<passedAt, made, usedToken, confirming, holding, keycloak>>
    BY <1>2 DEF ResetTick, Tick, tokens
  <2>2. CounterInv' /\ CounterTypeOK'
    <3>1. CounterInv'
      BY <2>1, <1>t, KeyKeeps
    <3> QED
      BY <3>1 DEF CounterInv
  <2>3. ResetTypeOK'
    BY <2>1, <2>2, <1>t DEF ResetTypeOK, keycloak
  <2>4. FreshInv'
    <3> SUFFICES ASSUME NEW c \in Call, pace[c] # "ready"
                 PROVE  passedAt[c] <= clock + 1 /\ clock + 1 <= passedAt[c] + MaxLookup
      BY <2>1 DEF FreshInv
    <3>1. passedAt[c] \in Nat /\ passedAt[c] <= clock /\ clock - passedAt[c] < MaxLookup /\ MaxLookup \in Nat
      BY <2>1, <1>t, ResetAssumption DEF FreshInv
    <3> QED
      BY <1>t, <3>1
  <2>5. TracedInv'
    BY <2>1, <1>t DEF TracedInv, GoesBack
  <2>6. HandledInv' /\ OldInv'
    BY <2>1, RequestKeeps
  <2> QED
    BY <2>2, <2>3, <2>4, <2>5, <2>6 DEF ResetInv
<1>3. CASE UNCHANGED resetVars
  <2>1. /\ UNCHANGED <<counterVars, passedAt, made>> /\ UNCHANGED <<usedToken, confirming, holding, keycloak>>
        /\ UNCHANGED <<current, old, sets, signoutLost>>
    BY <1>3 DEF resetVars, keycloak
  <2>2. CounterInv' /\ FreshInv' /\ TracedInv' /\ HandledInv' /\ OldInv'
    BY <2>1, ConfirmKeeps, RequestKeeps
  <2>3. ResetTypeOK'
    BY <2>1, <2>2, <1>t DEF CounterInv, ResetTypeOK
  <2> QED
    BY <2>2, <2>3 DEF ResetInv
<1> QED
  BY <1>1, <1>2, <1>3

\* The tokens that are good go back to calls among the last three limits of
\* them, less one.
LEMMA LiveAreFew == ResetInv => LiveTokensBounded
<1> SUFFICES ASSUME ResetInv PROVE LiveTokensBounded
  OBVIOUS
<1> DEFINE Live == {t \in Token : Consumable(t)}
<1>n. PICK n \in Nat, w \in Nat : n = Len(passes) /\ w = 3 * Limit - 1
  <2>1. passes \in Seq(Nat)
    BY DEF ResetInv, ResetTypeOK, CounterTypeOK
  <2>2. Limit \in Nat \ {0}
    BY WindowAssumption
  <2>3. 3 * Limit - 1 \in Nat
    BY <2>2
  <2> QED
    BY <2>1, <2>3, LenProperties
<1>t. /\ made \in [Token -> Nat] /\ clock \in Nat /\ passes \in Seq(Nat)
      /\ OrderInv /\ TwoWindowsInv /\ TracedInv
  BY DEF ResetInv, ResetTypeOK, CounterInv, CounterTypeOK
<1>m. /\ Limit \in Nat /\ Limit > 0 /\ Window \in Nat /\ MaxLookup \in Nat /\ MaxLookup <= Window
      /\ \A i \in 1..n : passes[i] \in Nat
  BY <1>n, <1>t, WindowAssumption, ResetAssumption, LenProperties, ElementOfSeq
<1>1. PICK gc \in [Call -> Nat], gt \in [Token -> Nat] : GoesBack(gc, gt)
  BY <1>t DEF TracedInv
<1>2. PICK first \in Nat : first > 0 /\ n - first + 1 <= w /\ \A i \in 1..n : i < first => i + w <= n
  <2>1. CASE n < w
    <3>1. 1 > 0 /\ n - 1 + 1 <= w /\ \A i \in 1..n : i < 1 => i + w <= n
      BY <2>1
    <3> QED
      BY <3>1
  <2>2. CASE n >= w
    <3>1. /\ n - w + 1 \in Nat /\ n - w + 1 > 0 /\ n - (n - w + 1) + 1 <= w
          /\ \A i \in 1..n : i < n - w + 1 => i + w <= n
      BY <2>2
    <3> QED
      BY <3>1
  <2> QED
    BY <2>1, <2>2
<1>3. Cardinality(first..n) <= w /\ Cardinality(first..n) \in Nat /\ IsFiniteSet(first..n)
  <2>1. IsFiniteSet(first..n) /\ Cardinality(first..n) = IF first > n THEN 0 ELSE n - first + 1
    BY FS_Interval
  <2> QED
    BY <1>2, <1>m, <2>1
<1>4. \A t \in Live : gt[t] \in first..n
  <2> SUFFICES ASSUME NEW t \in Token, Consumable(t) PROVE gt[t] \in first..n
    OBVIOUS
  <2>1. made[t] > 0 /\ clock + 1 < made[t] + Window /\ made[t] \in Nat
    BY <1>t DEF Consumable
  <2>2. gt[t] \in 1..n /\ made[t] <= passes[gt[t]] + MaxLookup + 1
    BY <1>n, <1>1, <2>1 DEF GoesBack
  <2>p. PICK p \in Nat : p = passes[gt[t]]
    BY <1>m, <2>2
  <2>q. PICK q \in Nat : q = made[t]
    BY <2>1
  <2>a. clock + 1 < q + Window /\ q <= p + MaxLookup + 1 /\ clock \in Nat /\ Window \in Nat /\ MaxLookup \in Nat
      /\ MaxLookup <= Window
    BY <1>t, <1>m, <2>1, <2>2, <2>p, <2>q
  <2>b. clock < p + 2 * Window
    BY <2>a
  <2>3. clock < passes[gt[t]] + 2 * Window
    BY <2>p, <2>b
  <2>4. ASSUME gt[t] < first PROVE FALSE
    <3>0. PICK i \in 1..n : i = gt[t]
      BY <2>2
    <3>1. i + w \in 1..n
      BY <1>2, <2>4, <3>0
    <3>2. passes[i] + 2 * Window <= passes[i + w]
      <4>1. \A j \in 1..n : j + w <= n => passes[j] + 2 * Window <= passes[j + w]
        <5> SUFFICES ASSUME NEW j \in 1..n, j + w <= n PROVE passes[j] + 2 * Window <= passes[j + w]
          OBVIOUS
        <5>1. j + w = j + 3 * Limit - 1
          BY <1>n, <1>m
        <5>2. j + 3 * Limit - 1 <= n => passes[j] + 2 * Window <= passes[j + 3 * Limit - 1]
          BY <1>n, <1>t DEF TwoWindowsInv
        <5> QED
          BY <5>1, <5>2
      <4> QED
        BY <3>1, <4>1
    <3>3. passes[i + w] <= clock
      BY <1>n, <1>t, <3>1 DEF OrderInv
    <3>4. passes[i] \in Nat /\ passes[i + w] \in Nat
      BY <1>m, <3>1
    <3> QED
      BY SMTT(30), <1>t, <1>m, <2>3, <3>0, <3>2, <3>3, <3>4
  <2> QED
    BY <1>m, <1>2, <2>2, <2>4
<1>5. PICK f : f = [t \in Live |-> gt[t]]
  OBVIOUS
<1>6. f \in Injection(Live, first..n)
  <2>1. f \in [Live -> first..n]
    BY <1>4, <1>5
  <2>2. \A t, u \in Live : f[t] = f[u] => t = u
    BY <1>1, <1>5 DEF GoesBack, Consumable
  <2> QED
    BY <2>1, <2>2 DEF Injection, IsInjective
<1>7. Cardinality(Live) <= Cardinality(first..n) /\ IsFiniteSet(Live)
  BY <1>3, <1>6, FS_Injection
<1>8. Cardinality(Live) \in Nat
  BY <1>7, FS_CardinalityType
<1> QED
  BY <1>n, <1>3, <1>7, <1>8, <1>m DEF LiveTokensBounded

\* While none is made, none is good.
LEMMA NoTokenIsGood ==
  ASSUME made = [t \in Token |-> 0]
  PROVE  LiveTokensBounded
<1>1. {t \in Token : Consumable(t)} = {}
  BY DEF Consumable
<1>2. Cardinality({t \in Token : Consumable(t)}) = 0
  BY <1>1, FS_EmptySet
<1> QED
  BY <1>2, WindowAssumption DEF LiveTokensBounded

\* Whatever requests, confirmations and failures of Keycloak interleave, a token
\* sets a password once, there are never three limits of tokens good, and the
\* sessions of an earlier password end unless a call was lost.  A token may be
\* made later than its request was counted by any time up to a window.
THEOREM ResetHolds == ResetSpec => [](ResetTypeOK /\ ResetIsOneTime)
<1>1. ResetInit => ResetInv
  <2> SUFFICES ASSUME ResetInit PROVE ResetInv
    OBVIOUS
  <2>1. CounterInv /\ CounterTypeOK
    BY CounterBegins DEF ResetInit, CounterInv
  <2>2. ResetTypeOK
    BY <2>1 DEF ResetInit, ResetTypeOK
  <2>3. HandledInv /\ OldInv
    BY DEF ResetInit, HandledInv, OldInv
  <2>4. FreshInv
    BY DEF ResetInit, CounterInit, FreshInv
  <2>5. TracedInv
    <3>1. GoesBack([c \in Call |-> 0], [t \in Token |-> 0])
      BY DEF ResetInit, CounterInit, GoesBack
    <3> QED
      BY <3>1 DEF TracedInv
  <2> QED
    BY <2>1, <2>2, <2>3, <2>4, <2>5 DEF ResetInv
<1>2. ResetInv /\ [ResetNext]_resetVars => ResetInv'
  BY AskResetKeeps, ExpireKeepsTrace, MakeKeeps, ConfirmsKeep, OthersKeep DEF ResetNext
<1>3. ResetInv => ResetTypeOK /\ ResetIsOneTime
  <2> SUFFICES ASSUME ResetInv PROVE ResetTypeOK /\ ResetIsOneTime
    OBVIOUS
  <2>1. WindowIsKept
    BY WindowFollows DEF ResetInv
  <2>2. TokenSetsOnce /\ OldSessionsEnd
    BY DEF ResetInv, HandledInv, OldInv, TokenSetsOnce, OldSessionsEnd
  <2> QED
    BY <2>1, <2>2, LiveAreFew DEF ResetInv, ResetIsOneTime
<1> QED
  BY <1>1, <1>2, <1>3, PTL DEF ResetSpec

-----------------------------------------------------------------------------
(* Who is let through.                                                     *)

\* Phases of a call of an administrator that carries out its order.
Working == {"reading", "updating", "removing", "assigning", "recording", "creating", "password", "inserting"}

\* A call that could be let through at this moment is on record.
WatchInv == \A c \in Caller : phase[c] \notin Open /\ Promised(c) => entitled[c]

\* So is one that the middlewares would let through by the copy they have.
DecidedInv ==
  \A c \in Caller : phase[c] \in {"approving", "authenticated"} =>
    /\ LetsThrough(caller[c], copy[c]) => entitled[c]
    /\ phase[c] = "approving" => ~ByKey(caller[c])

OrderedInv == \A c \in Caller : phase[c] \in Working => order[c].kind # "none"

CallsInv == DecidedInv /\ OrderedInv /\ ServedWereEntitled

\* Roles that were removed and not assigned since are gone.
SettledInv ==
  /\ RolesSettle
  /\ \A u \in User, c \in Caller : settled[u] = {c} => kcRoles[u] = {}

AccessInv == AccessTypeOK /\ WatchInv /\ CallsInv /\ ApprovedWereAsked /\ SettledInv

\* What the middlewares of a route ask for.
LEMMA LetMeans ==
  ASSUME NEW q, NEW s, q.route \in Route, LetsThrough(q, s)
  PROVE  /\ q.route = "chat" => (s = "approved" \/ (s = "pending" /\ ~ByKey(q))) /\ MayInfer(q)
         /\ q.route = "generate" => s = "approved" /\ MayInfer(q)
         /\ q.route = "admin" => s = "approved" /\ IsAdmin(q)
BY DEF LetsThrough, Route

\* A step of one call, as the other calls and the types see it.
LEMMA StepMoves ==
  ASSUME AccessTypeOK, NEW c \in Caller, NEW p \in Phases, StepTo(c, p)
  PROVE  /\ phase' \in [Caller -> Phases]
         /\ caller' \in [Caller -> [user : User, by : {"oidc"} \cup Key, route : Route, roles : SUBSET Role]]
         /\ copy' \in [Caller -> Status]
         /\ order' \in [Caller -> [kind : {"none", "status", "roles", "create", "revoke"}, user : User,
                                   roles : SUBSET Role, status : Status]]
         /\ phase'[c] = p
         /\ \A d \in Caller : d # c =>
              phase'[d] = phase[d] /\ caller'[d] = caller[d] /\ copy'[d] = copy[d] /\ order'[d] = order[d]
         /\ p \in Open => order'[c].kind = "none"
         /\ p \notin Open => caller' = caller /\ copy' = copy /\ order' = order
<1>1. /\ NoCaller \in [user : User, by : {"oidc"} \cup Key, route : Route, roles : SUBSET Role]
      /\ NoOrder \in [kind : {"none", "status", "roles", "create", "revoke"}, user : User,
                      roles : SUBSET Role, status : Status]
      /\ "pending" \in Status /\ NoOrder.kind = "none"
  BY AccessAssumption DEF NoCaller, NoOrder, Route, Status
<1>2. /\ phase \in [Caller -> Phases]
      /\ caller \in [Caller -> [user : User, by : {"oidc"} \cup Key, route : Route, roles : SUBSET Role]]
      /\ copy \in [Caller -> Status]
      /\ order \in [Caller -> [kind : {"none", "status", "roles", "create", "revoke"}, user : User,
                               roles : SUBSET Role, status : Status]]
  BY DEF AccessTypeOK
<1>3. phase' = [phase EXCEPT ![c] = p]
  BY DEF StepTo
<1>4. CASE p \in Open
  <2>1. /\ caller' = [caller EXCEPT ![c] = NoCaller] /\ copy' = [copy EXCEPT ![c] = "pending"]
        /\ order' = [order EXCEPT ![c] = NoOrder]
    BY <1>4 DEF StepTo
  <2> QED
    BY <1>1, <1>2, <1>3, <1>4, <2>1
<1>5. CASE p \notin Open
  <2>1. UNCHANGED <<caller, copy, order>>
    BY <1>5 DEF StepTo
  <2> QED
    BY <1>2, <1>3, <1>5, <2>1
<1> QED
  BY <1>4, <1>5

\* A step that goes on with an order, or ends the call, keeps what is known of it.
LEMMA StepKeeps ==
  ASSUME AccessTypeOK, CallsInv, NEW c \in Caller, NEW p \in Phases \ {"approving", "authenticated"}, StepTo(c, p),
         \A d \in Caller : entitled[d] => entitled'[d],
         p \in Working => phase[c] \in Working,
         p = "served" => entitled[c]
  PROVE  CallsInv'
<1>1. /\ phase'[c] = p
      /\ \A d \in Caller : d # c =>
           phase'[d] = phase[d] /\ caller'[d] = caller[d] /\ copy'[d] = copy[d] /\ order'[d] = order[d]
      /\ p \in Open => order'[c].kind = "none"
      /\ p \notin Open => order' = order
  BY StepMoves
<1>2. DecidedInv'
  <2> SUFFICES ASSUME NEW d \in Caller, phase'[d] \in {"approving", "authenticated"}
               PROVE  /\ LetsThrough(caller'[d], copy'[d]) => entitled'[d]
                      /\ phase'[d] = "approving" => ~ByKey(caller'[d])
    BY DEF DecidedInv
  <2>1. d # c
    BY <1>1
  <2>2. phase'[d] = phase[d] /\ caller'[d] = caller[d] /\ copy'[d] = copy[d]
    BY <1>1, <2>1
  <2> QED
    BY <2>2 DEF CallsInv, DecidedInv
<1>3. OrderedInv'
  <2>1. p \in Working => p \notin Open
    BY DEF Working, Open
  <2> QED
    BY <1>1, <2>1 DEF CallsInv, OrderedInv
<1>4. ServedWereEntitled'
  BY <1>1 DEF CallsInv, ServedWereEntitled, Open
<1> QED
  BY <1>2, <1>3, <1>4 DEF CallsInv

\* Nothing a call is entitled by comes up: the record stays complete.
LEMMA QuietKeeps ==
  ASSUME WatchInv, entitled' = entitled, status' = status,
         \A k \in Key : keys'[k] = "active" => keys[k] = "active",
         caller \in [Caller -> [user : User, by : {"oidc"} \cup Key, route : Route, roles : SUBSET Role]],
         \A d \in Caller : phase'[d] \notin Open => phase[d] \notin Open /\ caller'[d] = caller[d]
  PROVE  WatchInv'
<1> SUFFICES ASSUME NEW d \in Caller, phase'[d] \notin Open, Promised(d)' PROVE entitled[d]
  BY DEF WatchInv
<1>1. phase[d] \notin Open /\ caller'[d] = caller[d] /\ caller[d].by \in {"oidc"} \cup Key
  OBVIOUS
<1>2. Promised(d)
  BY <1>1 DEF Promised, ByKey
<1> QED
  BY <1>1, <1>2 DEF WatchInv

\* Where the record is kept, it is complete and nothing is struck from it.
LEMMA WatchKeeps ==
  ASSUME Watch PROVE WatchInv' /\ \A d \in Caller : entitled[d] => entitled'[d]
BY DEF Watch, WatchInv

\* What the invariant says of the types, one conjunct for each variable.
LEMMA AccessTypes ==
  ASSUME AccessInv
  PROVE  /\ status \in [User -> Status \cup {Nowhere}] /\ dbRoles \in [User -> SUBSET Role]
         /\ kcRoles \in [User -> SUBSET Role] /\ token \in [User -> SUBSET Role]
         /\ identity \in [User -> BOOLEAN] /\ keys \in [Key -> {"active", "revoked"}]
         /\ phase \in [Caller -> Phases]
         /\ caller \in [Caller -> [user : User, by : {"oidc"} \cup Key, route : Route, roles : SUBSET Role]]
         /\ copy \in [Caller -> Status]
         /\ order \in [Caller -> [kind : {"none", "status", "roles", "create", "revoke"}, user : User,
                                  roles : SUBSET Role, status : Status]]
         /\ entitled \in [Caller -> BOOLEAN] /\ asked \in SUBSET User
         /\ settled \in [User -> (SUBSET Role) \cup {Unsettled} \cup {{c} : c \in Caller}]
         /\ AccessTypeOK /\ WatchInv /\ CallsInv /\ ApprovedWereAsked /\ SettledInv
BY DEF AccessInv, AccessTypeOK

\* The record keeps its type.
LEMMA WatchTyped == ASSUME AccessInv, Watch PROVE entitled' \in [Caller -> BOOLEAN]
<1>1. \A d \in Caller : entitled[d] \in BOOLEAN
  BY AccessTypes
<1>2. \A d \in Caller : (phase'[d] \notin Open /\ Promised(d)') \in BOOLEAN
  BY Zenon DEF Promised
<1> QED
  BY <1>1, <1>2 DEF Watch

\* The roles in Keycloak and the history of their changes are left alone.
LEMMA RolesStand ==
  ASSUME SettledInv, UNCHANGED <<kcRoles, settled>> PROVE SettledInv'
BY DEF SettledInv, RolesSettle

\* A call arrives.
LEMMA ArriveKeeps ==
  ASSUME AccessInv, NEW c \in Caller, NEW u \in User, NEW by \in {"oidc"} \cup Key, NEW route \in Route,
         Arrive(c, u, by, route)
  PROVE  AccessInv'
<1> DEFINE q == [user |-> u, by |-> by, route |-> route, roles |-> IF by = "oidc" THEN token[u] ELSE {}]
<1>1. /\ phase' = [phase EXCEPT ![c] = "arrived"] /\ caller' = [caller EXCEPT ![c] = q]
      /\ UNCHANGED <<status, dbRoles, identity, kcRoles, token, keys, copy, order, asked, settled>> /\ Watch
  BY DEF Arrive, GoTo, rows, realm
<1>2. AccessTypeOK'
  <2>1. q \in [user : User, by : {"oidc"} \cup Key, route : Route, roles : SUBSET Role]
    BY AccessTypes
  <2> HIDE DEF q
  <2>2. /\ caller' \in [Caller -> [user : User, by : {"oidc"} \cup Key, route : Route, roles : SUBSET Role]]
        /\ phase' \in [Caller -> Phases]
    BY <1>1, <2>1, AccessTypes DEF Phases
  <2>3. entitled' \in [Caller -> BOOLEAN]
    BY <1>1, WatchTyped
  <2> QED
    BY <1>1, <2>2, <2>3, AccessTypes DEF AccessTypeOK
<1>3. WatchInv' /\ \A d \in Caller : entitled[d] => entitled'[d]
  BY <1>1, WatchKeeps
<1>4. /\ phase'[c] = "arrived"
      /\ \A d \in Caller : d # c => phase'[d] = phase[d] /\ caller'[d] = caller[d]
  BY <1>1, AccessTypes
<1>5. DecidedInv' /\ OrderedInv' /\ ServedWereEntitled'
  <2>1. DecidedInv'
    <3> SUFFICES ASSUME NEW d \in Caller, phase'[d] \in {"approving", "authenticated"}
                 PROVE  /\ LetsThrough(caller'[d], copy'[d]) => entitled'[d]
                        /\ phase'[d] = "approving" => ~ByKey(caller'[d])
      BY DEF DecidedInv
    <3>1. d # c
      BY <1>4
    <3>2. phase'[d] = phase[d] /\ caller'[d] = caller[d] /\ copy'[d] = copy[d]
      BY <1>1, <1>4, <3>1
    <3> QED
      BY <1>3, <3>2, AccessTypes DEF CallsInv, DecidedInv
  <2>2. OrderedInv'
    BY <1>1, <1>4, AccessTypes DEF CallsInv, OrderedInv, Working
  <2>3. ServedWereEntitled'
    BY <1>1, <1>3, <1>4, AccessTypes DEF CallsInv, ServedWereEntitled
  <2> QED
    BY <2>1, <2>2, <2>3
<1>6. ApprovedWereAsked' /\ SettledInv'
  BY <1>1, RolesStand, AccessTypes DEF ApprovedWereAsked
<1> QED
  BY <1>2, <1>3, <1>5, <1>6 DEF AccessInv, CallsInv

\* A token brings its user's row, and the roles in it are written there.
LEMMA LoginKeeps ==
  ASSUME AccessInv, NEW c \in Caller, UpsertLogin(c)
  PROVE  AccessInv'
<1>q. PICK q \in [user : User, by : {"oidc"} \cup Key, route : Route, roles : SUBSET Role] : q = caller[c]
  BY AccessTypes
<1>p. PICK s \in Status : s = IF status[q.user] = Nowhere THEN "pending" ELSE status[q.user]
  BY AccessTypes DEF Status
<1>r. PICK p : p = IF q.user = ConfiguredAdmin /\ s # "approved" THEN "approving" ELSE "authenticated"
  OBVIOUS
<1>1. /\ phase[c] = "arrived" /\ ~ByKey(q)
      /\ status' = [status EXCEPT ![q.user] = s] /\ dbRoles' = [dbRoles EXCEPT ![q.user] = q.roles]
      /\ copy' = [copy EXCEPT ![c] = s] /\ phase' = [phase EXCEPT ![c] = p]
      /\ UNCHANGED <<identity, kcRoles, token, keys, caller, order, asked, settled>> /\ Watch
  BY <1>q, <1>p, <1>r DEF UpsertLogin, GoTo, realm
<1>2. p \in {"approving", "authenticated"} /\ p \in Phases /\ p \notin Open /\ p \notin Working
  BY <1>r DEF Phases, Open, Working
<1>3. AccessTypeOK'
  <2>1. /\ status' \in [User -> Status \cup {Nowhere}] /\ dbRoles' \in [User -> SUBSET Role]
        /\ copy' \in [Caller -> Status] /\ phase' \in [Caller -> Phases]
    BY <1>1, <1>2, AccessTypes
  <2>2. entitled' \in [Caller -> BOOLEAN]
    BY <1>1, WatchTyped
  <2> QED
    BY <1>1, <2>1, <2>2, AccessTypes DEF AccessTypeOK
<1>4. WatchInv' /\ \A d \in Caller : entitled[d] => entitled'[d]
  BY <1>1, WatchKeeps
<1>5. /\ phase'[c] = p /\ caller'[c] = q /\ copy'[c] = s /\ status'[q.user] = s
      /\ \A d \in Caller : d # c => phase'[d] = phase[d] /\ copy'[d] = copy[d]
      /\ \A u \in User : status'[u] = status[u] \/ status'[u] # "approved"
  <2>1. status'[q.user] = s /\ \A u \in User : u # q.user => status'[u] = status[u]
    BY <1>1, AccessTypes
  <2> QED
    BY <1>q, <1>p, <1>1, <2>1, AccessTypes
<1>6. LetsThrough(q, s) => Promised(c)'
  <2> SUFFICES ASSUME LetsThrough(q, s) PROVE Promised(c)'
    OBVIOUS
  <2>1. q.route \in Route /\ ~ByKey(q)
    BY <1>1
  <2> QED
    BY <1>5, <2>1, LetMeans DEF Promised, Route, IsAdmin
<1>7. DecidedInv' /\ OrderedInv' /\ ServedWereEntitled'
  <2>1. DecidedInv'
    <3> SUFFICES ASSUME NEW d \in Caller, phase'[d] \in {"approving", "authenticated"}
                 PROVE  /\ LetsThrough(caller'[d], copy'[d]) => entitled'[d]
                        /\ phase'[d] = "approving" => ~ByKey(caller'[d])
      BY DEF DecidedInv
    <3>1. CASE d = c
      <4>1. LetsThrough(q, s) => entitled'[c]
        BY <1>2, <1>4, <1>5, <1>6 DEF WatchInv
      <4> QED
        BY <1>1, <1>5, <3>1, <4>1
    <3>2. CASE d # c
      <4>1. phase'[d] = phase[d] /\ caller'[d] = caller[d] /\ copy'[d] = copy[d]
        BY <1>1, <1>5, <3>2
      <4> QED
        BY <1>4, <4>1, AccessTypes DEF CallsInv, DecidedInv
    <3> QED
      BY <3>1, <3>2
  <2>2. OrderedInv'
    BY <1>1, <1>2, <1>5, AccessTypes DEF CallsInv, OrderedInv
  <2>3. ServedWereEntitled'
    BY <1>1, <1>2, <1>4, <1>5, AccessTypes DEF CallsInv, ServedWereEntitled, Open
  <2> QED
    BY <2>1, <2>2, <2>3
<1>8. ApprovedWereAsked' /\ SettledInv'
  BY <1>1, <1>5, RolesStand, AccessTypes DEF ApprovedWereAsked
<1> QED
  BY <1>3, <1>4, <1>7, <1>8 DEF AccessInv, CallsInv

\* The configured administrator is approved by signing in, or that fails.
LEMMA ConfiguredKeeps ==
  ASSUME AccessInv, NEW c \in Caller, ApproveConfigured(c)
  PROVE  AccessInv'
<1>q. PICK q \in [user : User, by : {"oidc"} \cup Key, route : Route, roles : SUBSET Role] : q = caller[c]
  BY AccessTypes
<1>1. /\ phase[c] = "approving" /\ phase' = [phase EXCEPT ![c] = "authenticated"]
      /\ UNCHANGED <<dbRoles, identity, kcRoles, token, keys, caller, order, settled>> /\ Watch
      /\ \/ /\ status' = [status EXCEPT ![q.user] = "approved"] /\ copy' = [copy EXCEPT ![c] = "approved"]
            /\ asked' = asked \cup {q.user}
         \/ UNCHANGED <<status, copy, asked>>
  BY <1>q DEF ApproveConfigured, GoTo, realm
<1>2. "authenticated" \in Phases /\ "authenticated" \notin Open /\ "authenticated" \notin Working /\ "approved" \in Status
  BY DEF Phases, Open, Working, Status
<1>3. AccessTypeOK'
  <2>1. phase' \in [Caller -> Phases] /\ entitled' \in [Caller -> BOOLEAN]
    BY <1>1, <1>2, WatchTyped, AccessTypes
  <2>2. status' \in [User -> Status \cup {Nowhere}] /\ copy' \in [Caller -> Status] /\ asked' \in SUBSET User
    <3>1. CASE UNCHANGED <<status, copy, asked>>
      BY <3>1, AccessTypes
    <3>2. CASE /\ status' = [status EXCEPT ![q.user] = "approved"] /\ copy' = [copy EXCEPT ![c] = "approved"]
               /\ asked' = asked \cup {q.user}
      <4>1. q.user \in User /\ asked \in SUBSET User
        BY AccessTypes
      <4>2. asked' \in SUBSET User
        BY <3>2, <4>1
      <4>3. status' \in [User -> Status \cup {Nowhere}] /\ copy' \in [Caller -> Status]
        BY <1>2, <3>2, AccessTypes
      <4> QED
        BY <4>2, <4>3
    <3> QED
      BY <1>1, <3>1, <3>2
  <2> QED
    BY <1>1, <2>1, <2>2, AccessTypes DEF AccessTypeOK
<1>4. WatchInv' /\ \A d \in Caller : entitled[d] => entitled'[d]
  BY <1>1, WatchKeeps
<1>5. /\ phase'[c] = "authenticated" /\ caller'[c] = q
      /\ \A d \in Caller : d # c => phase'[d] = phase[d] /\ caller'[d] = caller[d] /\ copy'[d] = copy[d]
      /\ (copy'[c] = copy[c]) \/ (copy'[c] = "approved" /\ status'[q.user] = "approved")
  <2>1. phase'[c] = "authenticated" /\ caller'[c] = q
    BY <1>q, <1>1, AccessTypes
  <2>2. \A d \in Caller : d # c => phase'[d] = phase[d] /\ caller'[d] = caller[d] /\ copy'[d] = copy[d]
    BY <1>1, AccessTypes
  <2>3. (copy'[c] = copy[c]) \/ (copy'[c] = "approved" /\ status'[q.user] = "approved")
    BY <1>1, AccessTypes
  <2> QED
    BY <2>1, <2>2, <2>3
<1>6. LetsThrough(q, copy'[c]) => entitled'[c]
  <2>1. CASE copy'[c] = copy[c]
    BY <1>q, <1>1, <1>4, <2>1, AccessTypes DEF CallsInv, DecidedInv
  <2>2. CASE copy'[c] = "approved" /\ status'[q.user] = "approved"
    <3> SUFFICES ASSUME LetsThrough(q, "approved") PROVE entitled'[c]
      BY <2>2
    <3>1. ~ByKey(q) /\ q.route \in Route
      BY <1>q, <1>1, AccessTypes DEF CallsInv, DecidedInv
    <3>2. Promised(c)'
      BY <1>5, <2>2, <3>1, LetMeans DEF Promised, Route, IsAdmin
    <3> QED
      BY <1>2, <1>4, <1>5, <3>2 DEF WatchInv
  <2> QED
    BY <1>5, <2>1, <2>2
<1>7. DecidedInv' /\ OrderedInv' /\ ServedWereEntitled'
  <2>1. DecidedInv'
    <3> SUFFICES ASSUME NEW d \in Caller, phase'[d] \in {"approving", "authenticated"}
                 PROVE  /\ LetsThrough(caller'[d], copy'[d]) => entitled'[d]
                        /\ phase'[d] = "approving" => ~ByKey(caller'[d])
      BY DEF DecidedInv
    <3>1. CASE d = c
      BY <1>5, <1>6, <3>1
    <3>2. CASE d # c
      <4>1. phase'[d] = phase[d] /\ caller'[d] = caller[d] /\ copy'[d] = copy[d]
        BY <1>5, <3>2
      <4> QED
        BY <1>4, <4>1, AccessTypes DEF CallsInv, DecidedInv
    <3> QED
      BY <3>1, <3>2
  <2>2. OrderedInv'
    BY <1>1, <1>2, <1>5, AccessTypes DEF CallsInv, OrderedInv
  <2>3. ServedWereEntitled'
    BY <1>1, <1>2, <1>4, <1>5, AccessTypes DEF CallsInv, ServedWereEntitled, Open
  <2> QED
    BY <2>1, <2>2, <2>3
<1>8. ApprovedWereAsked' /\ SettledInv'
  BY <1>1, RolesStand, AccessTypes DEF ApprovedWereAsked
<1> QED
  BY <1>3, <1>4, <1>7, <1>8 DEF AccessInv, CallsInv

\* A key that is active brings its owner's row; any other call is refused.
LEMMA KeyCallKeeps ==
  ASSUME AccessInv, NEW c \in Caller, AuthenticateAPIKey(c)
  PROVE  AccessInv'
<1>q. PICK q \in [user : User, by : {"oidc"} \cup Key, route : Route, roles : SUBSET Role] : q = caller[c]
  BY AccessTypes
<1>1. /\ phase[c] = "arrived" /\ ByKey(q)
      /\ UNCHANGED <<status, dbRoles, identity, kcRoles, token, keys, entitled, asked, settled>>
  BY <1>q DEF AuthenticateAPIKey, rows, realm
<1>2. ApprovedWereAsked' /\ SettledInv'
  BY <1>1, RolesStand, AccessTypes DEF ApprovedWereAsked
<1>3. CASE StepTo(c, "refused")
  <2>1. "refused" \in Phases /\ "refused" \in Open /\ "refused" \notin Working
    BY DEF Phases, Open, Working
  <2>2. AccessTypeOK'
    BY <1>1, <1>3, <2>1, StepMoves, AccessTypes DEF AccessTypeOK
  <2>3. \A d \in Caller : phase'[d] \notin Open => phase[d] \notin Open /\ caller'[d] = caller[d]
    BY <1>3, <2>1, StepMoves, AccessTypes
  <2>4. WatchInv'
    BY <1>1, <2>3, QuietKeeps, AccessTypes
  <2>5. CallsInv'
    BY <1>1, <1>3, <2>1, StepKeeps, AccessTypes
  <2> QED
    BY <1>2, <2>2, <2>4, <2>5 DEF AccessInv
<1>4. CASE /\ keys[q.by] = "active" /\ status[q.user] # Nowhere /\ GoTo(c, "authenticated")
           /\ copy' = [copy EXCEPT ![c] = status[q.user]] /\ UNCHANGED <<caller, order>>
  <2>1. phase' = [phase EXCEPT ![c] = "authenticated"] /\ "authenticated" \in Phases
        /\ "authenticated" \notin Open /\ "authenticated" \notin Working /\ "arrived" \notin Open
    BY <1>4 DEF GoTo, Phases, Open, Working
  <2>2. AccessTypeOK'
    <3>1. status[q.user] \in Status
      BY <1>4, AccessTypes
    <3>2. phase' \in [Caller -> Phases] /\ copy' \in [Caller -> Status]
      BY <1>4, <2>1, <3>1, AccessTypes
    <3> QED
      BY <1>1, <1>4, <3>2, AccessTypes DEF AccessTypeOK
  <2>3. /\ phase'[c] = "authenticated" /\ copy'[c] = status[q.user]
        /\ \A d \in Caller : d # c => phase'[d] = phase[d] /\ copy'[d] = copy[d]
    BY <1>4, <2>1, AccessTypes
  <2>4. WatchInv'
    <3>1. \A d \in Caller : phase'[d] \notin Open => phase[d] \notin Open /\ caller'[d] = caller[d]
      BY <1>1, <1>4, <2>1, <2>3
    <3> QED
      BY <1>1, <3>1, QuietKeeps, AccessTypes
  <2>5. LetsThrough(q, copy'[c]) => entitled[c]
    <3> SUFFICES ASSUME LetsThrough(q, status[q.user]) PROVE entitled[c]
      BY <2>3
    <3>1. Promised(c)
      BY <1>q, <1>1, <1>4, LetMeans DEF Promised, Route, IsAdmin, MayInfer
    <3> QED
      BY <1>1, <2>1, <3>1, AccessTypes DEF WatchInv
  <2>6. DecidedInv'
    <3> SUFFICES ASSUME NEW d \in Caller, phase'[d] \in {"approving", "authenticated"}
                 PROVE  /\ LetsThrough(caller[d], copy'[d]) => entitled[d]
                        /\ phase'[d] = "approving" => ~ByKey(caller[d])
      BY <1>1, <1>4 DEF DecidedInv
    <3>1. CASE d = c
      BY <1>q, <2>3, <2>5, <3>1
    <3>2. CASE d # c
      BY <2>3, <3>2, AccessTypes DEF CallsInv, DecidedInv
    <3> QED
      BY <3>1, <3>2
  <2>7. OrderedInv' /\ ServedWereEntitled'
    BY <1>1, <1>4, <2>1, <2>3, AccessTypes DEF CallsInv, OrderedInv, ServedWereEntitled
  <2> QED
    BY <1>2, <2>2, <2>4, <2>6, <2>7 DEF AccessInv, CallsInv
<1> QED
  BY <1>q, <1>3, <1>4 DEF AuthenticateAPIKey

\* A call is refused, served, or goes on to carry out its order.
LEMMA DecideKeeps ==
  ASSUME AccessInv, NEW c \in Caller, Decide(c)
  PROVE  AccessInv'
<1>1. /\ phase[c] = "authenticated"
      /\ UNCHANGED <<status, dbRoles, identity, kcRoles, token, keys, entitled, asked, settled>>
  BY DEF Decide, rows, realm
<1>2. ApprovedWereAsked' /\ SettledInv'
  BY <1>1, RolesStand, AccessTypes DEF ApprovedWereAsked
<1>3. ASSUME NEW p \in {"refused", "served"}, StepTo(c, p), p = "served" => LetsThrough(caller[c], copy[c])
      PROVE  AccessInv'
  <2>1. p \in Phases \ {"approving", "authenticated"} /\ p \in Open /\ p \notin Working
    BY DEF Phases, Open, Working
  <2>2. AccessTypeOK'
    BY <1>1, <1>3, <2>1, StepMoves, AccessTypes DEF AccessTypeOK
  <2>3. \A d \in Caller : phase'[d] \notin Open => phase[d] \notin Open /\ caller'[d] = caller[d]
    BY <1>3, <2>1, StepMoves, AccessTypes
  <2>4. WatchInv'
    BY <1>1, <2>3, QuietKeeps, AccessTypes
  <2>5. p = "served" => entitled[c]
    BY <1>1, <1>3, AccessTypes DEF CallsInv, DecidedInv
  <2>6. CallsInv'
    BY <1>1, <1>3, <2>1, <2>5, StepKeeps, AccessTypes
  <2> QED
    BY <1>2, <2>2, <2>4, <2>6 DEF AccessInv
<1>4. ASSUME NEW o \in [kind : {"status", "roles", "create", "revoke"}, user : User, roles : SUBSET Role, status : Status],
             NEW p \in {"reading", "removing", "creating", "updating"},
             LetsThrough(caller[c], copy[c]),
             order' = [order EXCEPT ![c] = o], UNCHANGED <<caller, copy>>, GoTo(c, p)
      PROVE  AccessInv'
  <2>1. /\ phase' = [phase EXCEPT ![c] = p] /\ p \in Phases /\ p \notin Open
        /\ p \notin {"approving", "authenticated"} /\ "authenticated" \notin Open
    BY <1>4 DEF GoTo, Phases, Open
  <2>2. AccessTypeOK'
    <3>1. o \in [kind : {"none", "status", "roles", "create", "revoke"}, user : User, roles : SUBSET Role, status : Status]
      OBVIOUS
    <3>2. /\ phase' \in [Caller -> Phases]
          /\ order' \in [Caller -> [kind : {"none", "status", "roles", "create", "revoke"}, user : User,
                                    roles : SUBSET Role, status : Status]]
      BY <1>4, <2>1, <3>1, AccessTypes
    <3> QED
      BY <1>1, <1>4, <3>2, AccessTypes DEF AccessTypeOK
  <2>3. /\ phase'[c] = p /\ order'[c] = o /\ o.kind # "none"
        /\ \A d \in Caller : d # c => phase'[d] = phase[d] /\ order'[d] = order[d]
    BY <1>4, <2>1, AccessTypes
  <2>4. \A d \in Caller : phase'[d] \notin Open => phase[d] \notin Open /\ caller'[d] = caller[d]
    BY <1>1, <1>4, <2>1, <2>3
  <2>5. WatchInv'
    BY <1>1, <2>4, QuietKeeps, AccessTypes
  <2>6. entitled[c]
    BY <1>1, <1>4, AccessTypes DEF CallsInv, DecidedInv
  <2>7. DecidedInv' /\ OrderedInv' /\ ServedWereEntitled'
    <3>1. DecidedInv'
      BY <1>1, <1>4, <2>1, <2>3, AccessTypes DEF CallsInv, DecidedInv
    <3>2. OrderedInv'
      BY <2>3, AccessTypes DEF CallsInv, OrderedInv
    <3>3. ServedWereEntitled'
      BY <1>1, <2>3, <2>6, AccessTypes DEF CallsInv, ServedWereEntitled
    <3> QED
      BY <3>1, <3>2, <3>3
  <2> QED
    BY <1>2, <2>2, <2>5, <2>7 DEF AccessInv, CallsInv
<1> QED
  <2>1. CASE ~LetsThrough(caller[c], copy[c])
    BY <1>3, <2>1 DEF Decide
  <2>2. CASE LetsThrough(caller[c], copy[c]) /\ caller[c].route # "admin"
    BY <1>3, <2>2 DEF Decide
  <2>3. CASE LetsThrough(caller[c], copy[c]) /\ caller[c].route = "admin"
    <3>1. PICK o \in [kind : {"status", "roles", "create", "revoke"}, user : User, roles : SUBSET Role, status : Status] :
                 /\ order' = [order EXCEPT ![c] = o] /\ UNCHANGED <<caller, copy>>
                 /\ GoTo(c, CASE o.kind = "status" -> "reading" [] o.kind = "roles" -> "removing"
                              [] o.kind = "create" -> "creating" [] OTHER -> "updating")
      BY <2>3 DEF Decide
    <3>2. PICK p : p = CASE o.kind = "status" -> "reading" [] o.kind = "roles" -> "removing"
                         [] o.kind = "create" -> "creating" [] OTHER -> "updating"
      OBVIOUS
    <3>3. p \in {"reading", "removing", "creating", "updating"}
      BY <3>2
    <3> QED
      BY <1>4, <2>3, <3>1, <3>2, <3>3
  <2> QED
    BY <2>1, <2>2, <2>3

\* A step of an order after which nobody is entitled to more.
LEMMA OrderKeeps ==
  ASSUME AccessInv, NEW c \in Caller, phase[c] \in Working,
         NEW p \in Working \cup {"served", "failed"}, StepTo(c, p),
         UNCHANGED <<status, entitled>>, \A k \in Key : keys'[k] = "active" => keys[k] = "active"
  PROVE  WatchInv' /\ CallsInv'
<1>1. p \in Phases \ {"approving", "authenticated"} /\ phase[c] \notin Open
  BY DEF Phases, Working, Open
<1>2. \A d \in Caller : phase'[d] \notin Open => phase[d] \notin Open /\ caller'[d] = caller[d]
  BY <1>1, StepMoves, AccessTypes
<1>3. WatchInv'
  BY <1>2, QuietKeeps, AccessTypes
<1>4. entitled[c]
  BY AccessTypes DEF CallsInv, OrderedInv, ServedWereEntitled
<1> QED
  BY <1>1, <1>3, <1>4, StepKeeps, AccessTypes

\* The same of a step that changes a status, and keeps the record.
LEMMA RecordAccessKeeps ==
  ASSUME AccessInv, NEW c \in Caller, phase[c] \in Working, NEW p \in {"served", "failed"}, StepTo(c, p), Watch
  PROVE  WatchInv' /\ CallsInv'
<1>1. p \in Phases \ {"approving", "authenticated"} /\ p \notin Working
  BY DEF Phases, Working
<1>2. WatchInv' /\ \A d \in Caller : entitled[d] => entitled'[d]
  BY WatchKeeps
<1>3. entitled[c]
  BY AccessTypes DEF CallsInv, OrderedInv, ServedWereEntitled
<1> QED
  BY <1>1, <1>2, <1>3, StepKeeps, AccessTypes

\* Steps of an order that leave users, their roles and their keys alone.
LEMMA PlainKeeps ==
  ASSUME AccessInv, NEW c \in Caller,
         Fail(c) \/ ReadStatus(c) \/ SetPassword(c) \/ RevokeAPIKey(c) \/ SetUserRoles(c) \/ CreateIdentity(c)
  PROVE  AccessInv'
<1>1. phase[c] \in Working
  BY DEF Fail, ReadStatus, SetPassword, RevokeAPIKey, SetUserRoles, CreateIdentity, Working
<1>2. UNCHANGED <<status, kcRoles, token, entitled, asked, settled>>
  BY DEF Fail, ReadStatus, SetPassword, RevokeAPIKey, SetUserRoles, CreateIdentity, rows, realm
<1>3. PICK p \in Working \cup {"served", "failed"} : StepTo(c, p)
  <2>1. /\ {"updating", "removing", "password", "failed", "served"} \subseteq Working \cup {"served", "failed"}
    BY DEF Working
  <2>2. CASE Fail(c)
    BY <2>1, <2>2 DEF Fail
  <2>3. CASE ReadStatus(c)
    BY <2>1, <2>3 DEF ReadStatus
  <2>4. CASE SetPassword(c)
    BY <2>1, <2>4 DEF SetPassword
  <2>5. CASE RevokeAPIKey(c)
    BY <2>1, <2>5 DEF RevokeAPIKey
  <2>6. CASE SetUserRoles(c)
    BY <2>1, <2>6 DEF SetUserRoles, Then
  <2>7. CASE CreateIdentity(c)
    BY <2>1, <2>7 DEF CreateIdentity, Then
  <2> QED
    BY <2>2, <2>3, <2>4, <2>5, <2>6, <2>7
<1>4. /\ dbRoles' \in [User -> SUBSET Role] /\ identity' \in [User -> BOOLEAN]
      /\ keys' \in [Key -> {"active", "revoked"}] /\ \A k \in Key : keys'[k] = "active" => keys[k] = "active"
  <2>1. CASE Fail(c) \/ ReadStatus(c) \/ SetPassword(c)
    <3>1. UNCHANGED <<dbRoles, identity, keys>>
      BY <2>1 DEF Fail, ReadStatus, SetPassword, rows, realm
    <3> QED
      BY <3>1, AccessTypes
  <2>2. CASE RevokeAPIKey(c)
    <3>1. /\ UNCHANGED <<dbRoles, identity>>
          /\ keys' = keys \/ \E k \in Key : keys' = [keys EXCEPT ![k] = "revoked"]
      BY <2>2 DEF RevokeAPIKey, rows, realm
    <3> QED
      BY <3>1, AccessTypes
  <2>3. CASE SetUserRoles(c)
    <3>1. /\ UNCHANGED <<identity, keys>>
          /\ dbRoles' = dbRoles \/ dbRoles' = [dbRoles EXCEPT ![order[c].user] = order[c].roles]
      BY <2>3 DEF SetUserRoles, realm
    <3>2. order[c].roles \in SUBSET Role
      BY AccessTypes
    <3> QED
      BY <3>1, <3>2, AccessTypes
  <2>4. CASE CreateIdentity(c)
    <3>1. /\ UNCHANGED <<dbRoles, keys>>
          /\ identity' = identity \/ identity' = [identity EXCEPT ![order[c].user] = TRUE]
      BY <2>4 DEF CreateIdentity, rows
    <3> QED
      BY <3>1, AccessTypes
  <2> QED
    BY <2>1, <2>2, <2>3, <2>4
<1>5. p \in Phases
  BY DEF Working, Phases
<1>6. AccessTypeOK'
  BY <1>2, <1>3, <1>4, <1>5, StepMoves, AccessTypes DEF AccessTypeOK
<1>7. WatchInv' /\ CallsInv'
  BY <1>1, <1>2, <1>3, <1>4, OrderKeeps
<1>8. ApprovedWereAsked' /\ SettledInv'
  BY <1>2, RolesStand, AccessTypes DEF ApprovedWereAsked
<1> QED
  BY <1>6, <1>7, <1>8 DEF AccessInv

\* A status is set as it was asked for, in a row that is or is not there.
LEMMA StatusKeeps ==
  ASSUME AccessInv, NEW c \in Caller, SetUserStatus(c) \/ UpsertManagedUser(c)
  PROVE  AccessInv'
<1>o. PICK o \in [kind : {"none", "status", "roles", "create", "revoke"}, user : User, roles : SUBSET Role, status : Status] :
             o = order[c]
  BY AccessTypes
<1>1. /\ phase[c] \in Working /\ UNCHANGED <<identity, kcRoles, token, keys, settled>> /\ Watch
      /\ status' = [status EXCEPT ![o.user] = o.status]
      /\ asked' = IF o.status = "approved" THEN asked \cup {o.user} ELSE asked \ {o.user}
      /\ dbRoles' = dbRoles \/ dbRoles' = [dbRoles EXCEPT ![o.user] = o.roles]
  BY <1>o DEF SetUserStatus, UpsertManagedUser, Working, realm
<1>2. PICK p \in {"served", "failed"} : StepTo(c, p)
  BY DEF SetUserStatus, UpsertManagedUser, Then
<1>3. AccessTypeOK'
  <2>1. /\ status' \in [User -> Status \cup {Nowhere}] /\ dbRoles' \in [User -> SUBSET Role]
    BY <1>1, AccessTypes
  <2>2. asked' \in SUBSET User
    BY <1>1, AccessTypes
  <2>3. entitled' \in [Caller -> BOOLEAN]
    BY <1>1, WatchTyped
  <2>4. p \in Phases
    BY DEF Phases
  <2> QED
    BY <1>1, <1>2, <2>1, <2>2, <2>3, <2>4, StepMoves, AccessTypes DEF AccessTypeOK
<1>4. WatchInv' /\ CallsInv'
  BY <1>1, <1>2, RecordAccessKeeps
<1>5. ApprovedWereAsked'
  BY <1>1, AccessTypes DEF ApprovedWereAsked
<1>6. SettledInv'
  BY <1>1, RolesStand, AccessTypes
<1> QED
  BY <1>3, <1>4, <1>5, <1>6 DEF AccessInv

\* Three kinds of values that the history of the roles may have.
LEMMA SettledKinds ==
  /\ \A c \in Caller : {c} # Unsettled /\ {c} \notin SUBSET Role
  /\ Unsettled \notin SUBSET Role
BY CallerAssumption DEF Role, Unsettled

\* Roles are removed: those of this user are unsettled, or gone.
LEMMA RemoveRolesKeeps ==
  ASSUME AccessInv, NEW c \in Caller, RemoveRoles(c)
  PROVE  AccessInv'
<1>u. PICK u \in User : u = order[c].user
  BY AccessTypes
<1>1. phase[c] \in Working /\ UNCHANGED <<status, dbRoles, identity, token, keys, entitled, asked>>
  BY DEF RemoveRoles, Working, rows
<1>2. PICK p \in Working \cup {"served", "failed"} : StepTo(c, p)
  BY DEF RemoveRoles, Then, Working
<1>3. \/ UNCHANGED <<kcRoles, settled>>
      \/ kcRoles' = [kcRoles EXCEPT ![u] = {}] /\ settled' = [settled EXCEPT ![u] = {c}]
      \/ kcRoles' = kcRoles /\ settled' = [settled EXCEPT ![u] = Unsettled]
  BY <1>u DEF RemoveRoles
<1>4. AccessTypeOK'
  <2>1. kcRoles' \in [User -> SUBSET Role]
    BY <1>3, AccessTypes
  <2>2. settled' \in [User -> (SUBSET Role) \cup {Unsettled} \cup {{d} : d \in Caller}]
    <3> DEFINE S == (SUBSET Role) \cup {Unsettled} \cup {{d} : d \in Caller}
    <3>1. {c} \in S /\ Unsettled \in S
      OBVIOUS
    <3>2. settled \in [User -> S]
      BY AccessTypes
    <3> HIDE DEF S
    <3>3. settled' \in [User -> S]
      BY <1>3, <3>1, <3>2
    <3> QED
      BY <3>3 DEF S
  <2>3. p \in Phases
    BY DEF Working, Phases
  <2> QED
    BY <1>1, <1>2, <2>1, <2>2, <2>3, StepMoves, AccessTypes DEF AccessTypeOK
<1>5. WatchInv' /\ CallsInv'
  BY <1>1, <1>2, OrderKeeps
<1>6. ApprovedWereAsked'
  BY <1>1, AccessTypes DEF ApprovedWereAsked
<1>7. SettledInv'
  <2>0. kcRoles \in [User -> SUBSET Role] /\ DOMAIN settled = User /\ SettledInv
    BY AccessTypes
  <2>1. CASE UNCHANGED <<kcRoles, settled>>
    BY <2>0, <2>1, RolesStand
  <2>2. CASE kcRoles' = [kcRoles EXCEPT ![u] = {}] /\ settled' = [settled EXCEPT ![u] = {c}]
    BY <2>0, <2>2, SettledKinds DEF SettledInv, RolesSettle
  <2>3. CASE kcRoles' = kcRoles /\ settled' = [settled EXCEPT ![u] = Unsettled]
    BY <2>0, <2>3, SettledKinds DEF SettledInv, RolesSettle
  <2> QED
    BY <1>3, <2>1, <2>2, <2>3
<1> QED
  BY <1>4, <1>5, <1>6, <1>7 DEF AccessInv

\* Roles are assigned: they are settled if those before them were gone.
LEMMA AssignKeeps ==
  ASSUME AccessInv, NEW c \in Caller, AssignRoles(c)
  PROVE  AccessInv'
<1>u. PICK u \in User, r \in SUBSET Role : u = order[c].user /\ r = order[c].roles
  BY AccessTypes
<1>1. phase[c] \in Working /\ UNCHANGED <<status, dbRoles, identity, token, keys, entitled, asked>>
  BY DEF AssignRoles, Working, rows
<1>2. PICK p \in Working \cup {"served", "failed"} : StepTo(c, p)
  BY DEF AssignRoles, Then, Working
<1>3. /\ kcRoles' = [kcRoles EXCEPT ![u] = kcRoles[u] \cup r]
      /\ \/ settled[u] = {c} /\ settled' = [settled EXCEPT ![u] = r]
         \/ settled' = [settled EXCEPT ![u] = Unsettled]
  BY <1>u DEF AssignRoles
<1>4. AccessTypeOK'
  <2>1. kcRoles' \in [User -> SUBSET Role]
    BY <1>3, AccessTypes
  <2>2. settled' \in [User -> (SUBSET Role) \cup {Unsettled} \cup {{d} : d \in Caller}]
    <3> DEFINE S == (SUBSET Role) \cup {Unsettled} \cup {{d} : d \in Caller}
    <3>1. r \in S /\ Unsettled \in S
      OBVIOUS
    <3>2. settled \in [User -> S]
      BY AccessTypes
    <3> HIDE DEF S
    <3>3. settled' \in [User -> S]
      BY <1>3, <3>1, <3>2
    <3> QED
      BY <3>3 DEF S
  <2>3. p \in Phases
    BY DEF Working, Phases
  <2> QED
    BY <1>1, <1>2, <2>1, <2>2, <2>3, StepMoves, AccessTypes DEF AccessTypeOK
<1>5. WatchInv' /\ CallsInv'
  BY <1>1, <1>2, OrderKeeps
<1>6. ApprovedWereAsked'
  BY <1>1, AccessTypes DEF ApprovedWereAsked
<1>7. SettledInv'
  <2>0. kcRoles \in [User -> SUBSET Role] /\ DOMAIN settled = User /\ SettledInv
    BY AccessTypes
  <2>1. CASE settled[u] = {c} /\ settled' = [settled EXCEPT ![u] = r]
    <3>1. kcRoles[u] = {}
      BY <2>0, <2>1 DEF SettledInv
    <3>2. kcRoles' = [kcRoles EXCEPT ![u] = r]
      BY <1>3, <3>1
    <3>3. \A d \in Caller : r # {d}
      BY SettledKinds
    <3> QED
      BY <2>0, <2>1, <3>2, <3>3 DEF SettledInv, RolesSettle
  <2>2. CASE settled' = [settled EXCEPT ![u] = Unsettled]
    BY <1>3, <2>0, <2>2, SettledKinds DEF SettledInv, RolesSettle
  <2> QED
    BY <1>3, <2>1, <2>2
<1> QED
  BY <1>4, <1>5, <1>6, <1>7 DEF AccessInv

\* A list of users brings rows, a client a new token; or nothing happens.
LEMMA AroundKeeps ==
  ASSUME AccessInv, (\E u \in User : SyncUser(u) \/ RefreshToken(u)) \/ UNCHANGED accessVars
  PROVE  AccessInv'
<1>1. ASSUME NEW u \in User, SyncUser(u) \/ RefreshToken(u) PROVE AccessInv'
  <2>1. /\ UNCHANGED <<dbRoles, identity, kcRoles, keys, phase, caller, copy, order, asked, settled>> /\ Watch
        /\ \/ status' = [status EXCEPT ![u] = "pending"] /\ token' = token
           \/ status' = status /\ token' = [token EXCEPT ![u] = kcRoles[u]]
    BY <1>1 DEF SyncUser, RefreshToken, rows, realm, callerVars
  <2>2. AccessTypeOK'
    <3>1. status' \in [User -> Status \cup {Nowhere}] /\ token' \in [User -> SUBSET Role]
      BY SMTT(60), <2>1, AccessTypes DEF Status
    <3>2. entitled' \in [Caller -> BOOLEAN]
      BY <2>1, WatchTyped
    <3> QED
      BY <2>1, <3>1, <3>2, AccessTypes DEF AccessTypeOK
  <2>3. WatchInv' /\ \A d \in Caller : entitled[d] => entitled'[d]
    BY <2>1, WatchKeeps
  <2>4. CallsInv'
    BY <2>1, <2>3, AccessTypes DEF CallsInv, DecidedInv, OrderedInv, ServedWereEntitled
  <2>5. ApprovedWereAsked' /\ SettledInv'
    BY <2>1, RolesStand, AccessTypes DEF ApprovedWereAsked
  <2> QED
    BY <2>2, <2>3, <2>4, <2>5 DEF AccessInv
<1>2. CASE UNCHANGED accessVars
  <2>1. UNCHANGED <<status, dbRoles, identity, kcRoles, token, keys, phase, caller, copy, order, entitled, asked, settled>>
    BY <1>2 DEF accessVars, rows, realm, callerVars
  <2>2. AccessTypeOK' /\ ApprovedWereAsked' /\ SettledInv'
    BY <2>1, RolesStand, AccessTypes DEF AccessTypeOK, ApprovedWereAsked
  <2>3. WatchInv'
    BY <2>1, QuietKeeps, AccessTypes
  <2>4. CallsInv'
    BY <2>1, AccessTypes DEF CallsInv, DecidedInv, OrderedInv, ServedWereEntitled
  <2> QED
    BY <2>2, <2>3, <2>4 DEF AccessInv
<1> QED
  BY <1>1, <1>2

\* Whoever is served was entitled to it at some moment of the call, who is approved
\* was wanted by an administrator or the configuration, and roles are those that
\* the last change that ran alone has set: whatever calls, administrators and
\* failures interleave.
THEOREM AccessHolds == AccessSpec => [](AccessTypeOK /\ AccessIsGranted)
<1>1. AccessInit => AccessInv
  <2> SUFFICES ASSUME AccessInit PROVE AccessInv
    OBVIOUS
  <2>1. AccessTypeOK
    <3>1. "approved" \in Status /\ "new" \in Phases /\ "pending" \in Status /\ {"ai-admin"} \in SUBSET Role
      BY DEF Status, Phases, Role
    <3>2. /\ NoCaller \in [user : User, by : {"oidc"} \cup Key, route : Route, roles : SUBSET Role]
          /\ NoOrder \in [kind : {"none", "status", "roles", "create", "revoke"}, user : User,
                          roles : SUBSET Role, status : Status]
      BY <3>1, AccessAssumption DEF NoCaller, NoOrder, Route
    <3>3. /\ status \in [User -> Status \cup {Nowhere}] /\ dbRoles \in [User -> SUBSET Role]
          /\ kcRoles \in [User -> SUBSET Role] /\ token \in [User -> SUBSET Role]
          /\ identity \in [User -> BOOLEAN] /\ keys \in [Key -> {"active", "revoked"}]
      BY <3>1 DEF AccessInit
    <3>4. /\ phase \in [Caller -> Phases] /\ copy \in [Caller -> Status]
          /\ entitled \in [Caller -> BOOLEAN] /\ asked \in SUBSET User
      BY <3>1, AccessAssumption DEF AccessInit
    <3>5. /\ caller \in [Caller -> [user : User, by : {"oidc"} \cup Key, route : Route, roles : SUBSET Role]]
          /\ order \in [Caller -> [kind : {"none", "status", "roles", "create", "revoke"}, user : User,
                                   roles : SUBSET Role, status : Status]]
          /\ settled \in [User -> (SUBSET Role) \cup {Unsettled} \cup {{c} : c \in Caller}]
      BY <3>2 DEF AccessInit
    <3> QED
      BY <3>3, <3>4, <3>5 DEF AccessTypeOK
  <2>2. \A c \in Caller : phase[c] = "new" /\ order[c].kind = "none"
    BY DEF AccessInit, NoOrder
  <2>3. WatchInv /\ CallsInv
    BY <2>2 DEF WatchInv, CallsInv, DecidedInv, OrderedInv, ServedWereEntitled, Working, Open
  <2>4. ApprovedWereAsked
    BY DEF AccessInit, ApprovedWereAsked, Nowhere
  <2>5. SettledInv
    BY SettledKinds DEF AccessInit, SettledInv, RolesSettle
  <2> QED
    BY <2>1, <2>3, <2>4, <2>5 DEF AccessInv
<1>2. AccessInv /\ [AccessNext]_accessVars => AccessInv'
  <2> SUFFICES ASSUME AccessInv, [AccessNext]_accessVars PROVE AccessInv'
    OBVIOUS
  <2>1. ASSUME NEW c \in Caller,
               \/ \E u \in User, by \in {"oidc"} \cup Key, route \in Route : Arrive(c, u, by, route)
               \/ UpsertLogin(c) \/ ApproveConfigured(c) \/ AuthenticateAPIKey(c) \/ Decide(c) \/ Fail(c)
               \/ ReadStatus(c) \/ SetUserStatus(c) \/ RevokeAPIKey(c)
               \/ RemoveRoles(c) \/ AssignRoles(c) \/ SetUserRoles(c)
               \/ CreateIdentity(c) \/ SetPassword(c) \/ UpsertManagedUser(c)
        PROVE  AccessInv'
    BY <2>1, ArriveKeeps, LoginKeeps, ConfiguredKeeps, KeyCallKeeps, DecideKeeps, PlainKeeps, StatusKeeps,
       RemoveRolesKeeps, AssignKeeps
  <2> QED
    BY <2>1, AroundKeeps DEF AccessNext
<1>3. AccessInv => AccessTypeOK /\ AccessIsGranted
  BY DEF AccessInv, CallsInv, SettledInv, AccessIsGranted
<1> QED
  BY <1>1, <1>2, <1>3, PTL DEF AccessSpec

-----------------------------------------------------------------------------
(* The catalogue of models.                                                 *)

Sync == {"save", "startup"}
Removal == {"delete", "deleteProvider"}

\* The stages of the calls of each endpoint.
StagesOf(k) ==
  {"done"} \cup
  IF k \in Sync THEN {"list", "push", "mark", "fail"}
  ELSE IF k = "update" THEN {"write", "provider", "push", "mark", "fail"}
  ELSE IF k = "register" THEN {"upsert", "create", "name", "fail"}
  ELSE IF k \in Removal THEN {"remove", "unalias", "drop"}
  ELSE IF k = "alias" THEN {"alias"}
  ELSE {"new"}

\* Stages in which a call holds the row it works on.
HoldingRow == {"push", "mark", "fail", "write", "provider", "create", "name", "remove", "unalias"}

Stage == HoldingRow \cup {"new", "done", "list", "drop", "upsert", "alias"}

CallState == [kind: Sync \cup Removal \cup {"update", "register", "alias", "none"}, pc: Stage,
              base: 0..MaxVersion, up: Upstream \cup {Absent}, at: Memory \cup {Absent},
              todo: SUBSET Memory, clean: BOOLEAN, sound: BOOLEAN]

CallFits(n) ==
  /\ n \in CallState /\ n.pc \in StagesOf(n.kind)
  /\ n.pc \in HoldingRow \/ (n.pc = "drop" /\ n.kind = "delete") => n.at \in Memory
  /\ n.pc = "upsert" => n.up \in Upstream

CallsFit == change \in [Change -> CallState] /\ \A c \in Change : CallFits(change[c])

\* A deployment belongs to one row, or to the registration that is about to
\* name it; LiteLLM knows only what it has given out.
NamesInv ==
  /\ \A d \in Deployment : deployed[d] # Absent => d \in givenOut
  /\ \A r \in Rows : modelRow[r].dep \in givenOut \cup {Absent}
  /\ \A r, s \in Rows : modelRow[r].dep = modelRow[s].dep /\ modelRow[r].dep # Absent => r = s
  /\ \A c \in Change : change[c].pc = "name" =>
       /\ change[c].at.was.dep \in givenOut
       /\ \A r \in Rows : modelRow[r].dep # change[c].at.was.dep
       /\ \A x \in Change : change[x].pc = "name" /\ change[x].at.was.dep = change[c].at.was.dep => x = c

\* A call in flight whose history is clean is the only one in flight.
Lone(c) == InFlight(c) /\ change[c].clean
LoneInv == \A c \in Change : Lone(c) => \A x \in Change : InFlight(x) => x = c

HeldByCall(c) == {m \in Memory : m = change[c].at \/ m \in change[c].todo}
RowsInHand(c) == {m.id : m \in HeldByCall(c)}
AsRead(c) == \A m \in HeldByCall(c) : modelRow[m.id] = m.was

\* A lone synchronisation goes by the provider as it is, what it remembers of
\* the rows still holds, and every other active row is served as configured.
SyncInv(c) ==
  change[c].kind \in Sync =>
    /\ change[c].pc # "fail" => change[c].base = provider.version
    /\ change[c].pc \in {"push", "mark"} =>
         /\ AsRead(c)
         /\ \A m \in HeldByCall(c) : m.was.status = "active" /\ m.was.dep # Absent
         /\ \A r \in Rows : r \in RowsInHand(c) \/ Agrees(r)
         /\ change[c].pc = "mark" => Agrees(change[c].at.id)

AllAgree == \A r \in Rows : Agrees(r)
AliasNamed == target # Absent => RowFor(target) # {}
NamedBut(S) == \A d \in Deployment : deployed[d] # Absent => d \in S \/ \E r \in Rows : modelRow[r].dep = d
OthersAgree(c) == \A r \in Rows : r = change[c].at.id \/ Agrees(r)

\* LiteLLM serves what the call holds as it is configured.
Served(c) == deployed[change[c].at.was.dep] = [base |-> provider.version, set |-> change[c].at.was.set]

UpdateInv(c) ==
  /\ AsRead(c) /\ change[c].todo = {}
  /\ change[c].pc # "fail" => AliasNamed /\ NamedBut({}) /\ OthersAgree(c)
  /\ change[c].pc = "write" => AllAgree
  /\ change[c].pc = "push" => change[c].base = provider.version
  /\ change[c].pc = "mark" /\ change[c].at.was.dep # Absent => Served(c)

RegisterInv(c) ==
  change[c].pc # "fail" =>
    /\ change[c].base = provider.version /\ AllAgree /\ AliasNamed
    /\ change[c].pc = "upsert" => NamedBut({}) /\ RowFor(change[c].up) = {}
    /\ change[c].pc = "create" =>
         /\ NamedBut({}) /\ modelRow[change[c].at.id] = change[c].at.was
         /\ change[c].at.was.dep = Absent /\ change[c].at.was.status = "pending"
    /\ change[c].pc = "name" =>
         /\ modelRow[change[c].at.id] = [change[c].at.was EXCEPT !.dep = Absent]
         /\ NamedBut({change[c].at.was.dep}) /\ Served(c)

\* LiteLLM no longer has the model of the row, and no alias names it.
Removed(r) == modelRow[r].dep # Absent => deployed[modelRow[r].dep] = Absent
Retired(r) == Removed(r) /\ target # modelRow[r].up

DeleteInv(c) ==
  /\ AsRead(c) /\ AliasNamed /\ NamedBut({})
  /\ change[c].kind = "delete" =>
       /\ OthersAgree(c) /\ change[c].todo = {}
       /\ change[c].pc = "remove" => AllAgree
       /\ change[c].pc \in {"unalias", "drop"} => Removed(change[c].at.id)
       /\ change[c].pc = "drop" => target # change[c].at.was.up
  /\ change[c].kind = "deleteProvider" =>
       /\ change[c].pc = "unalias" => Removed(change[c].at.id)
       /\ \A r \in Rows : (r \in RowsInHand(c) /\ change[c].pc # "drop") \/ Retired(r)

\* What a lone call that began in a consistent catalogue can rely on.
SoundInv(c) ==
  /\ change[c].kind \in Sync => AliasNamed /\ NamedBut({})
  /\ change[c].kind = "update" => UpdateInv(c)
  /\ change[c].kind = "register" => RegisterInv(c)
  /\ change[c].kind \in Removal => DeleteInv(c)
  /\ change[c].kind = "alias" => Consistent /\ RowFor(change[c].up) # {}

CallInv(c) == Lone(c) => SyncInv(c) /\ (change[c].sound => SoundInv(c))

\* The types of the stores.
StoresFit ==
  /\ provider \in [there: BOOLEAN, version: 0..MaxVersion]
  /\ modelRow \in [Row -> RowOf \cup {Absent}]
  /\ deployed \in [Deployment -> [base: 0..MaxVersion, set: 0..MaxVersion] \cup {Absent}]
  /\ givenOut \subseteq Deployment
  /\ target \in Upstream \cup {Absent}

CatalogInv == StoresFit /\ CallsFit /\ NamesInv /\ LoneInv /\ \A c \in Change : CallInv(c)

-----------------------------------------------------------------------------
(* What a step of one call does to the calls.                               *)

\* The call c, in flight, goes on as n; its history does not get better.
MovesTo(c, n) ==
  /\ InFlight(c) /\ change' = [change EXCEPT ![c] = n]
  /\ CallFits(n) /\ n.pc # "new" /\ n.kind = change[c].kind /\ n.sound = change[c].sound
  /\ n.clean => change[c].clean

\* The call c begins as n, beside the others.
BeginsAs(c, n) ==
  /\ change[c].pc = "new"
  /\ change' = [x \in Change |-> IF x = c THEN n ELSE [change[x] EXCEPT !.clean = FALSE]]
  /\ CallFits(n) /\ n.pc \notin {"new", "done"}
  /\ n.clean => \A x \in Change : ~InFlight(x)

\* The process starts again as c, which ends the calls in flight.
RestartsAs(c, n) ==
  /\ change[c].pc = "new"
  /\ change' = [x \in Change |-> IF x = c THEN n ELSE IF InFlight(x) THEN [Waiting EXCEPT !.pc = "done"]
                                                    ELSE change[x]]
  /\ CallFits(n) /\ n.pc \notin {"new", "done"}

\* What a call may do to the calls of all: it is still of its stage, and none
\* but itself is alone or ends well in the step.
TurnOf(c) ==
  /\ CallsFit' /\ LoneInv'
  /\ \A x \in Change : Lone(x)' => x = c
  /\ \A x \in Change : Finishes(x) => x = c /\ Lone(c) /\ change'[c].sound = change[c].sound
  /\ \A x \in Change : x # c /\ change'[x].pc = "name" => change[x].pc = "name" /\ change'[x].at = change[x].at

\* A call that begins is alone if no other is in flight.
LEMMA BeginTurn ==
  ASSUME CallsFit, LoneInv, NEW c \in Change, NEW n, BeginsAs(c, n)
  PROVE  TurnOf(c) /\ change'[c] = n
<1> USE DEF BeginsAs, CallsFit, InFlight, Lone
<1>1. change'[c] = n /\ \A x \in Change : x # c => change'[x] = [change[x] EXCEPT !.clean = FALSE]
  OBVIOUS
<1>2. \A x \in Change : CallFits([change[x] EXCEPT !.clean = FALSE])
  <2> TAKE x \in Change
  <2>1. [change[x] EXCEPT !.clean = FALSE] \in CallState
    BY DEF CallState, CallFits
  <2> QED BY <2>1 DEF CallFits, CallState
<1>3. \A x \in Change : CallFits(change'[x])
  BY <1>1, <1>2
<1>4. CallsFit'
  <2>1. \A x \in Change : change'[x] \in CallState
    BY <1>3 DEF CallFits
  <2>2. change' \in [Change -> CallState]
    BY <2>1
  <2> QED BY <2>2, <1>3
<1>5. \A x \in Change : x # c => ~change'[x].clean /\ change'[x].pc = change[x].pc /\ change'[x].at = change[x].at
  BY <1>1 DEF CallState
<1>6. \A x \in Change : Lone(x)' => x = c
  BY <1>5
<1>7. LoneInv'
  BY <1>1, <1>5, <1>6 DEF LoneInv
<1>8. \A x \in Change : ~Finishes(x)
  BY <1>1, <1>5 DEF Finishes
<1> QED BY <1>1, <1>4, <1>5, <1>6, <1>7, <1>8 DEF TurnOf

\* The state of a call that is not made yet.
LEMMA WaitingFits == Waiting \in CallState
  BY CatalogAssumption DEF CallState, Stage, Waiting

\* A call that a restart has ended.
LEMMA LostCall ==
  LET lost == [Waiting EXCEPT !.pc = "done"] IN CallFits(lost) /\ lost.pc = "done" /\ ~lost.clean
<1> DEFINE lost == [Waiting EXCEPT !.pc = "done"]
<1>1. lost.pc = "done" /\ ~lost.clean
  BY DEF Waiting
<1>2. lost \in CallState
  BY WaitingFits DEF CallState, Stage
<1>3. CallFits(lost)
  BY <1>1, <1>2 DEF CallFits, StagesOf, HoldingRow
<1> QED BY <1>1, <1>3

\* So is the one that starts the process again.
LEMMA RestartTurn ==
  ASSUME CallsFit, LoneInv, NEW c \in Change, NEW n, RestartsAs(c, n)
  PROVE  TurnOf(c) /\ change'[c] = n
<1> USE DEF RestartsAs, CallsFit, InFlight, Lone
<1> DEFINE lost == [Waiting EXCEPT !.pc = "done"]
<1>1. /\ change'[c] = n
      /\ \A x \in Change : x # c /\ InFlight(x) => change'[x] = lost
      /\ \A x \in Change : x # c /\ ~InFlight(x) => change'[x] = change[x]
  OBVIOUS
<1>2. CallFits(lost) /\ lost.pc = "done" /\ ~lost.clean
  BY LostCall
<1> HIDE DEF lost
<1>3. \A x \in Change : CallFits(change'[x])
  BY <1>1, <1>2
<1>4. CallsFit'
  <2>1. \A x \in Change : change'[x] \in CallState
    BY <1>3 DEF CallFits
  <2> QED BY <2>1, <1>3
<1>5. \A x \in Change : x # c => ~InFlight(x)'
  BY <1>1, <1>2
<1>6. LoneInv' /\ \A x \in Change : Lone(x)' => x = c
  BY <1>5 DEF LoneInv
<1>7. \A x \in Change : ~Finishes(x)
  BY <1>1, <1>2 DEF Finishes
<1>8. \A x \in Change : x # c /\ change'[x].pc = "name" => change'[x] = change[x]
  BY <1>1, <1>2
<1> QED BY <1>1, <1>4, <1>6, <1>7, <1>8 DEF TurnOf

\* A call that goes on is alone only if it was.
LEMMA MoveTurn ==
  ASSUME CallsFit, LoneInv, NEW c \in Change, NEW n, MovesTo(c, n)
  PROVE  TurnOf(c) /\ change'[c] = n /\ (Lone(c)' => Lone(c))
<1> USE DEF MovesTo, CallsFit, InFlight, Lone
<1>1. change'[c] = n /\ \A x \in Change : x # c => change'[x] = change[x]
  OBVIOUS
<1>2. \A x \in Change : CallFits(change'[x])
  BY <1>1
<1>3. CallsFit'
  <2>1. \A x \in Change : change'[x] \in CallState
    BY <1>2 DEF CallFits
  <2> QED BY <2>1, <1>2
<1>4. Lone(c)' => Lone(c)
  BY <1>1
<1>5. \A x \in Change : Lone(x)' => x = c
  BY <1>1 DEF LoneInv
<1>6. LoneInv'
  BY <1>1, <1>4, <1>5 DEF LoneInv
<1>7. \A x \in Change : Finishes(x) => x = c /\ Lone(c) /\ change'[c].sound = change[c].sound
  BY <1>1 DEF Finishes
<1> QED BY <1>1, <1>3, <1>4, <1>5, <1>6, <1>7 DEF TurnOf

\* A call that ends is not in flight any more; it ended well if all it did
\* succeeded.
LEMMA EndTurn ==
  ASSUME CallsFit, LoneInv, NEW c \in Change, NEW ok \in BOOLEAN, InFlight(c), End(c, ok)
  PROVE  TurnOf(c) /\ ~Lone(c)' /\ (change'[c].clean => ok /\ Lone(c))
<1> DEFINE n == [Waiting EXCEPT !.kind = change[c].kind, !.pc = "done",
                                !.clean = ok /\ change[c].clean, !.sound = change[c].sound]
<1>1. n.kind = change[c].kind /\ n.pc = "done" /\ n.clean = (ok /\ change[c].clean) /\ n.sound = change[c].sound
  BY DEF Waiting
<1>2. change' = [change EXCEPT ![c] = n]
  BY DEF End, Step
<1>3. change[c] \in CallState
  BY DEF CallsFit
<1>4. n \in CallState
  <2> DEFINE h == ok /\ change[c].clean  k == change[c].kind  s == change[c].sound
  <2>1. /\ k \in Sync \cup Removal \cup {"update", "register", "alias", "none"}
        /\ h \in BOOLEAN /\ s \in BOOLEAN
    BY <1>3 DEF CallState
  <2> HIDE DEF h, k, s
  <2>2. [Waiting EXCEPT !.kind = k, !.pc = "done", !.clean = h, !.sound = s] \in CallState
    BY <2>1, WaitingFits DEF CallState, Stage
  <2> QED BY <2>2 DEF h, k, s
<1> HIDE DEF n
<1>5. CallFits(n)
  BY <1>1, <1>4 DEF CallFits, StagesOf, HoldingRow
<1>6. MovesTo(c, n)
  BY <1>1, <1>2, <1>5 DEF MovesTo
<1>7. TurnOf(c) /\ change'[c] = n
  BY <1>6, MoveTurn
<1>8. ~Lone(c)'
  BY <1>1, <1>7 DEF Lone, InFlight
<1> QED BY <1>1, <1>7, <1>8 DEF Lone

\* What the properties ask of the step in which c ends.
EndsWell(c) ==
  change'[c].pc = "done" /\ change'[c].clean =>
    /\ change[c].kind \in Sync => AllAgree'
    /\ change[c].sound => Consistent'

\* What is left to show of a step of c once its turn is known.
GoodStep == CatalogInv' /\ SyncSettles /\ LoneCallKeepsCatalog

\* A step is good if the stores, the names and the call of c fit after it, and
\* the call ends as it should.
LEMMA TurnIsGood ==
  ASSUME NEW c \in Change, TurnOf(c), StoresFit', NamesInv', CallInv(c)', EndsWell(c)
  PROVE  GoodStep
<1>1. \A x \in Change : CallInv(x)'
  BY DEF TurnOf, CallInv
<1>2. CatalogInv'
  BY <1>1 DEF CatalogInv, TurnOf
<1>3. SyncSettles
  BY DEF SyncSettles, TurnOf, Finishes, EndsWell, AllAgree, Rows, Sync
<1>4. LoneCallKeepsCatalog
  BY DEF LoneCallKeepsCatalog, TurnOf, Finishes, EndsWell
<1> QED BY <1>2, <1>3, <1>4 DEF GoodStep

\* The names stay in order while rows and deployments only go.
LEMMA NamesShrink ==
  ASSUME NamesInv, givenOut \subseteq Deployment, NEW c \in Change, TurnOf(c), change'[c].pc # "name", givenOut' = givenOut,
         \A d \in Deployment : deployed'[d] # Absent => deployed[d] # Absent,
         \A r \in Row : modelRow'[r] # Absent =>
            modelRow'[r].dep = Absent \/ (modelRow[r] # Absent /\ modelRow'[r].dep = modelRow[r].dep)
  PROVE  NamesInv'
<1>1. \A x \in Change : change'[x].pc = "name" => change[x].pc = "name" /\ change'[x].at = change[x].at
  BY DEF TurnOf
<1>2. \A d \in Deployment : deployed'[d] # Absent => d \in givenOut'
  BY DEF NamesInv
<1>3. \A r \in Rows' : modelRow'[r].dep \in givenOut' \cup {Absent}
  BY DEF NamesInv, Rows
<1>4. \A r, s \in Rows' : modelRow'[r].dep = modelRow'[s].dep /\ modelRow'[r].dep # Absent => r = s
  BY DEF NamesInv, Rows
<1>5. ASSUME NEW x \in Change, change'[x].pc = "name"
      PROVE  /\ change'[x].at.was.dep \in givenOut'
             /\ \A r \in Rows' : modelRow'[r].dep # change'[x].at.was.dep
  <2>1. change'[x].at.was.dep = change[x].at.was.dep /\ change[x].at.was.dep \in givenOut
    BY <1>1, <1>5 DEF NamesInv
  <2>2. \A r \in Rows : modelRow[r].dep # change[x].at.was.dep
    BY <1>1, <1>5 DEF NamesInv
  <2>3. change[x].at.was.dep # Absent
    BY <2>1, CatalogAssumption
  <2> QED BY <2>1, <2>2, <2>3 DEF Rows
<1>6. \A x, y \in Change : change'[x].pc = "name" /\ change'[y].pc = "name"
                            /\ change'[y].at.was.dep = change'[x].at.was.dep => y = x
  BY <1>1 DEF NamesInv
<1> QED BY <1>2, <1>3, <1>4, <1>5, <1>6 DEF NamesInv

-----------------------------------------------------------------------------
(* The calls that begin.                                                    *)

ReadState == [base: 0..MaxVersion, up: Upstream \cup {Absent}, at: Memory \cup {Absent}, todo: SUBSET Memory]

\* What a call is when it has begun with what it has read.
BegunAs(n, kind, pc, rest) ==
  /\ n.kind = kind /\ n.pc = pc /\ n.base = rest.base /\ n.up = rest.up /\ n.at = rest.at /\ n.todo = rest.todo

\* A call begins: the others stay, and it is alone if nobody else is in flight.
LEMMA StartTurn ==
  ASSUME CallsFit, LoneInv, NEW c \in Change, NEW kind, NEW pc, NEW STATE rest, NEW STATE sound,
         Start(c, kind, pc, rest, sound), sound \in BOOLEAN, rest \in ReadState,
         kind \in Sync \cup Removal \cup {"update", "register", "alias"},
         pc \in Stage \ {"new", "done"}, pc \in StagesOf(kind),
         pc \in HoldingRow => rest.at \in Memory,
         pc = "drop" => kind # "delete",
         pc = "upsert" => rest.up \in Upstream
  PROVE  /\ TurnOf(c) /\ BegunAs(change'[c], kind, pc, rest)
         /\ change'[c].sound => sound /\ Consistent
<1> DEFINE alone == \A y \in Change : ~InFlight(y)
           well == sound /\ Consistent
           n == [Waiting EXCEPT !.kind = kind, !.pc = pc, !.base = rest.base,
                                !.up = rest.up, !.at = rest.at, !.todo = rest.todo,
                                !.clean = alone, !.sound = well]
<1>1. /\ change[c].pc = "new"
      /\ change' = [x \in Change |-> IF x = c THEN n ELSE [change[x] EXCEPT !.clean = FALSE]]
  BY DEF Start
<1>2. alone \in BOOLEAN /\ well \in BOOLEAN
  OBVIOUS
<1>3. n.clean => \A x \in Change : ~InFlight(x)
  BY DEF Waiting
<1>4. n.sound => sound /\ Consistent
  BY DEF Waiting
<1> HIDE DEF alone, well
<1>5. BegunAs(n, kind, pc, rest)
  BY DEF BegunAs, Waiting
<1>6. n \in CallState
  BY <1>2, WaitingFits DEF CallState, ReadState
<1> HIDE DEF n
<1>7. CallFits(n)
  BY <1>5, <1>6 DEF CallFits, BegunAs
<1>8. BeginsAs(c, n)
  BY <1>1, <1>3, <1>5, <1>7 DEF BeginsAs, BegunAs
<1>9. PICK m : m = n
  OBVIOUS
<1>10. TurnOf(c) /\ change'[c] = m
  BY <1>8, <1>9, BeginTurn
<1> QED BY <1>4, <1>5, <1>9, <1>10

\* While the stores stay as they are, so does what they say of each other.
LEMMA StoresStay ==
  ASSUME UNCHANGED <<provider, modelRow, deployed, target>>
  PROVE  /\ Consistent => AllAgree' /\ AliasNamed' /\ NamedBut({})' /\ Consistent'
         /\ Rows' = Rows
  BY DEF Consistent, AllAgree, AliasNamed, NamedBut, Agrees, Rows, RowFor

\* A call that begins leaves the rows and the deployments alone.
LEMMA BeginKeepsNames ==
  ASSUME CatalogInv, NEW c \in Change, TurnOf(c), change'[c].pc # "name",
         UNCHANGED <<modelRow, deployed, givenOut>>
  PROVE  NamesInv'
  BY NamesShrink DEF CatalogInv, StoresFit

\* SaveProvider, the first time and after.
LEMMA SaveKeeps ==
  ASSUME CatalogInv, NEW c \in Change, SaveProvider(c)
  PROVE  GoodStep
<1> DEFINE rest == [Plain EXCEPT !.base = provider.version + 1]
<1>1. rest \in ReadState /\ rest.base = provider.version + 1
  BY CatalogAssumption DEF CatalogInv, StoresFit, SaveProvider, Plain, ReadState
<1>2. Start(c, "save", "list", rest, TRUE)
  BY DEF SaveProvider
<1> HIDE DEF rest
<1>3. /\ TurnOf(c) /\ BegunAs(change'[c], "save", "list", rest)
      /\ change'[c].sound => Consistent
  <2>1. "list" \notin HoldingRow /\ "list" \in Stage /\ "list" \in StagesOf("save") /\ "save" \in Sync
    BY DEF HoldingRow, Stage, StagesOf, Sync
  <2> QED BY <1>1, <1>2, <2>1, StartTurn DEF CatalogInv
<1>4. StoresFit'
  BY CatalogAssumption DEF CatalogInv, StoresFit, SaveProvider
<1>5. NamesInv'
  BY <1>3, BeginKeepsNames DEF SaveProvider, BegunAs
<1>6. SyncInv(c)'
  BY <1>1, <1>3 DEF SyncInv, BegunAs, SaveProvider
<1>7. change'[c].sound => SoundInv(c)'
  <2>1. Consistent => AliasNamed' /\ NamedBut({})'
    BY DEF SaveProvider, Consistent, AliasNamed, NamedBut, Rows, RowFor
  <2> QED BY <1>3, <2>1 DEF SoundInv, BegunAs, Sync, Removal
<1>8. EndsWell(c)
  BY <1>3 DEF EndsWell, BegunAs
<1> QED BY <1>3, <1>4, <1>5, <1>6, <1>7, <1>8, TurnIsGood DEF CallInv

\* Nothing but the calls changes.
StoresUnchanged == UNCHANGED <<provider, modelRow, deployed, givenOut, target>>

\* A restart of the process ends the calls in flight and leaves the stores.
LEMMA RestartKeeps ==
  ASSUME CatalogInv, NEW c \in Change, Restart(c)
  PROVE  GoodStep
<1> DEFINE n == [Waiting EXCEPT !.kind = "startup", !.pc = "list", !.base = provider.version,
                                !.clean = TRUE, !.sound = Consistent]
<1>1. RestartsAs(c, n) /\ n.kind = "startup" /\ n.pc = "list" /\ n.base = provider.version /\ (n.sound => Consistent)
  <2>1. n.kind = "startup" /\ n.pc = "list" /\ n.base = provider.version /\ (n.sound => Consistent)
    BY DEF Waiting
  <2>2. PICK well \in BOOLEAN : well = Consistent
    BY DEF Consistent
  <2>3. PICK v \in 0..MaxVersion : v = provider.version
    BY DEF CatalogInv, StoresFit
  <2>4. [Waiting EXCEPT !.kind = "startup", !.pc = "list", !.base = v, !.clean = TRUE, !.sound = well] \in CallState
    BY WaitingFits DEF CallState, Stage, Sync
  <2>5. CallFits(n)
    BY <2>1, <2>2, <2>3, <2>4 DEF CallFits, StagesOf, Sync, HoldingRow
  <2>6. /\ change[c].pc = "new"
        /\ change' = [x \in Change |-> IF x = c THEN n ELSE IF InFlight(x) THEN [Waiting EXCEPT !.pc = "done"]
                                                          ELSE change[x]]
    <3>1. ~InFlight(c) /\ change[c].pc = "new"
      BY DEF Restart, InFlight
    <3> QED BY <3>1 DEF Restart
  <2> HIDE DEF n
  <2> QED BY <2>1, <2>5, <2>6 DEF RestartsAs
<1> HIDE DEF n
<1>2. PICK m : m = n
  OBVIOUS
<1>3. TurnOf(c) /\ change'[c] = m
  BY <1>1, <1>2, RestartTurn DEF CatalogInv
<1>4. StoresUnchanged
  BY DEF Restart, StoresUnchanged
<1>5. StoresFit'
  BY <1>4 DEF CatalogInv, StoresFit, StoresUnchanged
<1>6. NamesInv'
  BY <1>1, <1>2, <1>3, <1>4, BeginKeepsNames DEF StoresUnchanged
<1>7. SyncInv(c)'
  BY <1>1, <1>2, <1>3, <1>4 DEF SyncInv, StoresUnchanged
<1>8. change'[c].sound => SoundInv(c)'
  BY <1>1, <1>2, <1>3, <1>4, StoresStay DEF SoundInv, Sync, Removal, StoresUnchanged
<1>9. EndsWell(c)
  BY <1>1, <1>2, <1>3 DEF EndsWell
<1> QED BY <1>3, <1>5, <1>6, <1>7, <1>8, <1>9, TurnIsGood DEF CallInv

\* A row that is read is remembered as it is.
LEMMA RememberedRow ==
  ASSUME CatalogInv, NEW r \in Rows
  PROVE  Remember(r) \in Memory /\ Remember(r).id = r /\ Remember(r).was = modelRow[r]
  BY DEF CatalogInv, StoresFit, Rows, Remember, Memory

\* A call that holds one row has no other.
LEMMA OneHeld ==
  ASSUME NEW c \in Change, NEW m \in Memory, change'[c].at = m, change'[c].todo = {}
  PROVE  HeldByCall(c)' = {m} /\ RowsInHand(c)' = {m.id}
  BY DEF HeldByCall, RowsInHand

\* adminUpdateProviderModel reads the row.
LEMMA BeginUpdateKeeps ==
  ASSUME CatalogInv, NEW c \in Change, BeginUpdate(c)
  PROVE  GoodStep
<1>1. PICK r \in Rows : Start(c, "update", "write", [Plain EXCEPT !.at = Remember(r)], TRUE)
  BY DEF BeginUpdate
<1>2. PICK m \in Memory : m = Remember(r) /\ m.id = r /\ m.was = modelRow[r]
  BY RememberedRow
<1> DEFINE rest == [Plain EXCEPT !.at = m]
<1>3. rest \in ReadState /\ rest.at = m /\ rest.todo = {}
  BY CatalogAssumption DEF Plain, ReadState
<1>4. Start(c, "update", "write", rest, TRUE)
  BY <1>1, <1>2
<1> HIDE DEF rest
<1>5. /\ TurnOf(c) /\ BegunAs(change'[c], "update", "write", rest)
      /\ change'[c].sound => Consistent
  <2>1. "write" \in Stage /\ "write" \in StagesOf("update")
    BY DEF HoldingRow, Stage, StagesOf, Sync
  <2> QED BY <1>3, <1>4, <2>1, StartTurn DEF CatalogInv
<1>6. StoresUnchanged
  BY DEF BeginUpdate, StoresUnchanged
<1>7. StoresFit'
  BY <1>6 DEF CatalogInv, StoresFit, StoresUnchanged
<1>8. NamesInv'
  BY <1>5, <1>6, BeginKeepsNames DEF StoresUnchanged, BegunAs
<1>9. SyncInv(c)'
  BY <1>5 DEF SyncInv, BegunAs, Sync
<1>10. change'[c].sound => UpdateInv(c)'
  <2>1. AsRead(c)' /\ change'[c].todo = {} /\ change'[c].pc = "write"
    BY <1>2, <1>3, <1>5, <1>6, OneHeld DEF AsRead, BegunAs, StoresUnchanged
  <2>2. change'[c].sound => AllAgree' /\ AliasNamed' /\ NamedBut({})'
    BY <1>5, <1>6, StoresStay DEF StoresUnchanged
  <2> QED BY <2>1, <2>2 DEF UpdateInv, OthersAgree, AllAgree
<1>11. change'[c].sound => SoundInv(c)'
  BY <1>5, <1>10 DEF SoundInv, BegunAs, Sync, Removal
<1>12. EndsWell(c)
  BY <1>5 DEF EndsWell, BegunAs
<1> QED BY <1>5, <1>7, <1>8, <1>9, <1>11, <1>12, TurnIsGood DEF CallInv

\* adminRegisterProviderModel reads the provider.
LEMMA BeginRegisterKeeps ==
  ASSUME CatalogInv, NEW c \in Change, BeginRegister(c)
  PROVE  GoodStep
<1>1. PICK u \in Upstream :
          Start(c, "register", "upsert", [Plain EXCEPT !.base = provider.version, !.up = u], RowFor(u) = {})
  BY DEF BeginRegister
<1> DEFINE rest == [Plain EXCEPT !.base = provider.version, !.up = u]
<1>2. rest \in ReadState /\ rest.base = provider.version /\ rest.up = u
  BY CatalogAssumption DEF CatalogInv, StoresFit, Plain, ReadState
<1>3. Start(c, "register", "upsert", rest, RowFor(u) = {})
  BY <1>1
<1> HIDE DEF rest
<1>4. /\ TurnOf(c) /\ BegunAs(change'[c], "register", "upsert", rest)
      /\ change'[c].sound => RowFor(u) = {} /\ Consistent
  <2>1. "upsert" \notin HoldingRow /\ "upsert" \in Stage /\ "upsert" \in StagesOf("register")
    BY DEF HoldingRow, Stage, StagesOf, Sync
  <2> QED BY <1>2, <1>3, <2>1, StartTurn DEF CatalogInv
<1>5. StoresUnchanged
  BY DEF BeginRegister, StoresUnchanged
<1>6. StoresFit'
  BY <1>5 DEF CatalogInv, StoresFit, StoresUnchanged
<1>7. NamesInv'
  BY <1>4, <1>5, BeginKeepsNames DEF StoresUnchanged, BegunAs
<1>8. SyncInv(c)'
  BY <1>4 DEF SyncInv, BegunAs, Sync
<1>9. change'[c].sound => RegisterInv(c)'
  <2>1. change'[c].pc = "upsert" /\ change'[c].base = provider'.version /\ change'[c].up = u
    BY <1>2, <1>4, <1>5 DEF BegunAs, StoresUnchanged
  <2>2. change'[c].sound => AllAgree' /\ AliasNamed' /\ NamedBut({})'
    BY <1>4, <1>5, StoresStay DEF StoresUnchanged
  <2>3. change'[c].sound => RowFor(change[c].up)' = {}
    BY <1>4, <1>5, <2>1 DEF RowFor, Rows, StoresUnchanged
  <2> QED BY <2>1, <2>2, <2>3 DEF RegisterInv
<1>10. change'[c].sound => SoundInv(c)'
  BY <1>4, <1>9 DEF SoundInv, BegunAs, Sync, Removal
<1>11. EndsWell(c)
  BY <1>4 DEF EndsWell, BegunAs
<1> QED BY <1>4, <1>6, <1>7, <1>8, <1>10, <1>11, TurnIsGood DEF CallInv

\* adminSetModelAlias reads the row of its target.
LEMMA BeginAliasKeeps ==
  ASSUME CatalogInv, NEW c \in Change, BeginAlias(c)
  PROVE  GoodStep
<1>1. PICK r \in Rows : Start(c, "alias", "alias", [Plain EXCEPT !.up = modelRow[r].up], TRUE)
  BY DEF BeginAlias
<1>2. PICK u \in Upstream : u = modelRow[r].up
  BY DEF CatalogInv, StoresFit, Rows, RowOf
<1> DEFINE rest == [Plain EXCEPT !.up = u]
<1>3. rest \in ReadState /\ rest.up = u
  BY CatalogAssumption DEF Plain, ReadState
<1>4. Start(c, "alias", "alias", rest, TRUE)
  BY <1>1, <1>2
<1> HIDE DEF rest
<1>5. /\ TurnOf(c) /\ BegunAs(change'[c], "alias", "alias", rest)
      /\ change'[c].sound => Consistent
  <2>1. "alias" \notin HoldingRow /\ "alias" \in Stage /\ "alias" \in StagesOf("alias")
    BY DEF HoldingRow, Stage, StagesOf, Sync, Removal
  <2> QED BY <1>3, <1>4, <2>1, StartTurn DEF CatalogInv
<1>6. StoresUnchanged
  BY DEF BeginAlias, StoresUnchanged
<1>7. StoresFit'
  BY <1>6 DEF CatalogInv, StoresFit, StoresUnchanged
<1>8. NamesInv'
  BY <1>5, <1>6, BeginKeepsNames DEF StoresUnchanged, BegunAs
<1>9. SyncInv(c)'
  BY <1>5 DEF SyncInv, BegunAs, Sync
<1>10. change'[c].sound => SoundInv(c)'
  <2>1. change'[c].sound => Consistent'
    BY <1>5, <1>6, StoresStay DEF StoresUnchanged
  <2>2. RowFor(change[c].up)' # {}
    BY <1>2, <1>3, <1>5, <1>6 DEF RowFor, Rows, BegunAs, StoresUnchanged
  <2> QED BY <1>5, <2>1, <2>2 DEF SoundInv, BegunAs, Sync, Removal
<1>11. EndsWell(c)
  BY <1>5 DEF EndsWell, BegunAs
<1> QED BY <1>5, <1>7, <1>8, <1>9, <1>10, <1>11, TurnIsGood DEF CallInv

\* What a sound removal can rely on when it has just read its rows.
LEMMA BeginRemoval ==
  ASSUME CatalogInv, NEW c \in Change, StoresUnchanged, TurnOf(c), CallsFit',
         change'[c].kind \in Removal, change'[c].pc \in {"remove", "drop"},
         change'[c].sound => Consistent, AsRead(c)',
         change'[c].kind = "delete" => change'[c].pc = "remove" /\ change'[c].todo = {},
         change'[c].kind = "deleteProvider" =>
            Rows' \subseteq RowsInHand(c)' /\ (change'[c].pc = "drop" => Rows' = {})
  PROVE  GoodStep
<1>1. StoresFit'
  BY DEF CatalogInv, StoresFit, StoresUnchanged
<1>2. NamesInv'
  BY BeginKeepsNames DEF StoresUnchanged
<1>3. SyncInv(c)'
  BY DEF SyncInv, Sync, Removal
<1>4. change'[c].sound => AllAgree' /\ AliasNamed' /\ NamedBut({})'
  BY StoresStay DEF StoresUnchanged
<1>5. change'[c].sound => DeleteInv(c)'
  BY <1>4 DEF DeleteInv, OthersAgree, AllAgree
<1>6. change'[c].sound => SoundInv(c)'
  BY <1>5 DEF SoundInv, Sync, Removal
<1>7. EndsWell(c)
  BY DEF EndsWell
<1> QED BY <1>1, <1>2, <1>3, <1>6, <1>7, TurnIsGood DEF CallInv

\* A deletion reads what to delete.
LEMMA BeginDeleteKeeps ==
  ASSUME CatalogInv, NEW c \in Change, BeginDelete(c)
  PROVE  GoodStep
<1> USE DEF HoldingRow, Stage, StagesOf, Sync, Removal
<1>1. StoresUnchanged
  BY DEF BeginDelete, StoresUnchanged
<1>2. Rows' = Rows /\ \A r \in Row : modelRow'[r] = modelRow[r]
  BY <1>1 DEF Rows, StoresUnchanged
<1>3. CASE \E r \in Rows : Start(c, "delete", "remove", [Plain EXCEPT !.at = Remember(r)], TRUE)
  <2>1. PICK r \in Rows : Start(c, "delete", "remove", [Plain EXCEPT !.at = Remember(r)], TRUE)
    BY <1>3
  <2>2. PICK m \in Memory : m = Remember(r) /\ m.id = r /\ m.was = modelRow[r]
    BY RememberedRow
  <2> DEFINE rest == [Plain EXCEPT !.at = m]
  <2>3. rest \in ReadState /\ rest.at = m /\ rest.todo = {}
    BY CatalogAssumption DEF Plain, ReadState
  <2>4. Start(c, "delete", "remove", rest, TRUE)
    BY <2>1, <2>2
  <2> HIDE DEF rest
  <2>5. /\ TurnOf(c) /\ BegunAs(change'[c], "delete", "remove", rest)
        /\ change'[c].sound => Consistent
    BY <2>3, <2>4, StartTurn DEF CatalogInv
  <2>6. AsRead(c)' /\ change'[c].todo = {}
    BY <1>2, <2>2, <2>3, <2>5, OneHeld DEF AsRead, BegunAs, Rows
  <2> QED BY <1>1, <2>5, <2>6, BeginRemoval DEF BegunAs, TurnOf
<1>4. CASE Rows = {} /\ Start(c, "deleteProvider", "drop", Plain, TRUE)
  <2>1. Plain \in ReadState /\ Plain.at = Absent /\ Plain.todo = {}
    BY CatalogAssumption DEF Plain, ReadState
  <2>2. /\ TurnOf(c) /\ BegunAs(change'[c], "deleteProvider", "drop", Plain)
        /\ change'[c].sound => Consistent
    BY <1>4, <2>1, StartTurn DEF CatalogInv
  <2>3. AsRead(c)'
    BY <2>1, <2>2, AbsentAssumption DEF AsRead, HeldByCall, BegunAs
  <2> QED BY <1>1, <1>2, <1>4, <2>2, <2>3, BeginRemoval DEF BegunAs, TurnOf
<1>5. CASE \E r \in Rows : Start(c, "deleteProvider", "remove",
                               [Plain EXCEPT !.at = Remember(r), !.todo = {Remember(x) : x \in Rows \ {r}}], TRUE)
  <2>1. PICK r \in Rows : Start(c, "deleteProvider", "remove",
                               [Plain EXCEPT !.at = Remember(r), !.todo = {Remember(x) : x \in Rows \ {r}}], TRUE)
    BY <1>5
  <2>2. PICK m \in Memory : m = Remember(r) /\ m.id = r /\ m.was = modelRow[r]
    BY RememberedRow
  <2> DEFINE others == {Remember(x) : x \in Rows \ {r}}
  <2>3. PICK todo \in SUBSET Memory : todo = others
    BY RememberedRow
  <2> HIDE DEF others
  <2> DEFINE rest == [Plain EXCEPT !.at = m, !.todo = todo]
  <2>4. rest \in ReadState /\ rest.at = m /\ rest.todo = todo
    <3> DEFINE half == [Plain EXCEPT !.at = m]
    <3>1. half \in ReadState /\ half.at = m
      BY CatalogAssumption DEF Plain, ReadState
    <3>2. rest = [half EXCEPT !.todo = todo]
      BY Zenon
    <3> HIDE DEF half, rest
    <3>3. [half EXCEPT !.todo = todo] \in ReadState
      BY <3>1 DEF ReadState
    <3>4. [half EXCEPT !.todo = todo].at = m /\ [half EXCEPT !.todo = todo].todo = todo
      BY <3>1 DEF ReadState
    <3> QED BY <3>2, <3>3, <3>4
  <2>5. Start(c, "deleteProvider", "remove", rest, TRUE)
    BY <2>1, <2>2, <2>3 DEF others
  <2> HIDE DEF rest
  <2>6. /\ TurnOf(c) /\ BegunAs(change'[c], "deleteProvider", "remove", rest)
        /\ change'[c].sound => Consistent
    BY <2>4, <2>5, StartTurn DEF CatalogInv
  <2>7. \A n \in HeldByCall(c)' : n.id \in Rows /\ n.was = modelRow[n.id]
    BY <2>2, <2>3, <2>4, <2>6, RememberedRow DEF HeldByCall, BegunAs, others
  <2>8. AsRead(c)'
    BY <1>2, <2>7 DEF AsRead, Rows
  <2>9. Rows' \subseteq RowsInHand(c)'
    <3>1. \A x \in Rows : Remember(x) \in HeldByCall(c)' /\ Remember(x).id = x
      BY <2>2, <2>3, <2>4, <2>6, RememberedRow DEF HeldByCall, BegunAs, others
    <3> QED BY <1>2, <3>1 DEF RowsInHand
  <2> QED BY <1>1, <2>6, <2>8, <2>9, BeginRemoval DEF BegunAs, TurnOf
<1> QED BY <1>3, <1>4, <1>5 DEF BeginDelete

-----------------------------------------------------------------------------
(* The calls that go on.                                                    *)

\* Rows and deployments only go, and no row gets another deployment.
StoresShrink ==
  /\ givenOut' = givenOut
  /\ \A d \in Deployment : deployed'[d] # Absent => deployed[d] # Absent
  /\ \A r \in Row : modelRow'[r] # Absent =>
        modelRow'[r].dep = Absent \/ (modelRow[r] # Absent /\ modelRow'[r].dep = modelRow[r].dep)

\* A call that gives up is not clean: nothing is promised of it.
LEMMA CallFailKeeps ==
  ASSUME CatalogInv, NEW c \in Change, InFlight(c), End(c, FALSE), StoresFit', StoresShrink
  PROVE  GoodStep
<1>1. TurnOf(c) /\ ~Lone(c)' /\ ~change'[c].clean
  BY EndTurn DEF CatalogInv
<1>2. change'[c].pc # "name"
  BY DEF End, Step, Waiting, CatalogInv, CallsFit
<1>3. NamesInv'
  BY <1>1, <1>2, NamesShrink DEF StoresShrink, CatalogInv, StoresFit
<1> QED BY <1>1, <1>3, TurnIsGood DEF EndsWell, CallInv

\* A call ends: what is left to show is that it ended well.
LEMMA CallEndKeeps ==
  ASSUME CatalogInv, NEW c \in Change, InFlight(c), End(c, TRUE), StoresFit',
         StoresShrink \/ NamesInv',
         Lone(c) /\ change[c].kind \in Sync => AllAgree',
         Lone(c) /\ change[c].sound => Consistent'
  PROVE  GoodStep
<1>1. TurnOf(c) /\ ~Lone(c)' /\ (change'[c].clean => Lone(c))
  BY EndTurn DEF CatalogInv
<1>2. change'[c].pc # "name"
  BY DEF End, Step, Waiting, CatalogInv, CallsFit
<1>3. NamesInv'
  BY <1>1, <1>2, NamesShrink DEF StoresShrink, CatalogInv, StoresFit
<1> QED BY <1>1, <1>3, TurnIsGood DEF EndsWell, CallInv

\* A call goes on.
LEMMA CallMoveKeeps ==
  ASSUME CatalogInv, NEW c \in Change, NEW n, MovesTo(c, n), n.pc # "done", StoresFit',
         (StoresShrink /\ n.pc # "name") \/ NamesInv',
         Lone(c) /\ n.clean /\ change'[c] = n => SyncInv(c)' /\ (change[c].sound => SoundInv(c)')
  PROVE  GoodStep
<1>1. TurnOf(c) /\ change'[c] = n /\ (Lone(c)' => Lone(c))
  BY MoveTurn DEF CatalogInv
<1>2. NamesInv'
  BY <1>1, NamesShrink DEF StoresShrink, CatalogInv, StoresFit
<1>3. CallInv(c)'
  BY <1>1 DEF CallInv, MovesTo, Lone
<1>4. EndsWell(c)
  BY <1>1 DEF EndsWell
<1> QED BY <1>1, <1>2, <1>3, <1>4, TurnIsGood

\* n is c at another stage.
SameBut(c, n, pc) ==
  /\ n.pc = pc /\ n.kind = change[c].kind /\ n.base = change[c].base /\ n.up = change[c].up
  /\ n.at = change[c].at /\ n.todo = change[c].todo /\ n.sound = change[c].sound

\* So it does where it goes to another stage with the row it has.
LEMMA ToMoves ==
  ASSUME CatalogInv, NEW c \in Change, InFlight(c), NEW pc \in Stage \ {"new", "done", "upsert"}, To(c, pc),
         pc \in StagesOf(change[c].kind), pc \in HoldingRow \/ pc = "drop" => change[c].at \in Memory
  PROVE  \E n : MovesTo(c, n) /\ SameBut(c, n, pc)
<1>1. PICK n : n = [change[c] EXCEPT !.pc = pc]
  OBVIOUS
<1>2. change[c] \in CallState
  BY DEF CatalogInv, CallsFit
<1>3. n \in CallState /\ SameBut(c, n, pc) /\ n.clean = change[c].clean
  BY <1>1, <1>2 DEF CallState, SameBut
<1>4. CallFits(n)
  BY <1>3 DEF CallFits, SameBut
<1>5. change' = [change EXCEPT ![c] = n]
  BY <1>1 DEF To, Step
<1>6. MovesTo(c, n)
  BY <1>3, <1>4, <1>5 DEF MovesTo, SameBut
<1> QED BY <1>3, <1>6

\* A call that takes up another row.
TakesUp(x, pc, m, w) == [x EXCEPT !.pc = pc, !.at = m, !.todo = w]

\* A call that takes up the next row.
LEMMA RowOfCall ==
  ASSUME NEW x \in CallState, NEW pc \in Stage, NEW m \in Memory, NEW w \in SUBSET Memory,
         NEW n, n = TakesUp(x, pc, m, w)
  PROVE  /\ n \in CallState /\ n.pc = pc /\ n.at = m /\ n.todo = w
         /\ n.kind = x.kind /\ n.base = x.base /\ n.up = x.up /\ n.clean = x.clean /\ n.sound = x.sound
<1> DEFINE n1 == [x EXCEPT !.pc = pc]
           n2 == [n1 EXCEPT !.at = m]
           n3 == [n2 EXCEPT !.todo = w]
<1>1. n = n3
  BY Zenon DEF TakesUp
<1>2. /\ n1 \in CallState /\ n1.pc = pc
      /\ n1.kind = x.kind /\ n1.base = x.base /\ n1.up = x.up /\ n1.clean = x.clean /\ n1.sound = x.sound
  BY DEF CallState
<1> HIDE DEF n1
<1>3. /\ n2 \in CallState /\ n2.pc = pc /\ n2.at = m
      /\ n2.kind = x.kind /\ n2.base = x.base /\ n2.up = x.up /\ n2.clean = x.clean /\ n2.sound = x.sound
  BY <1>2 DEF CallState
<1> HIDE DEF n2
<1>4. /\ n3 \in CallState /\ n3.pc = pc /\ n3.at = m /\ n3.todo = w
      /\ n3.kind = x.kind /\ n3.base = x.base /\ n3.up = x.up /\ n3.clean = x.clean /\ n3.sound = x.sound
  BY <1>3 DEF CallState
<1> QED BY <1>1, <1>4

\* n is c at the next of its rows, m.
NextAs(c, n, pc, m) ==
  /\ n.pc = pc /\ n.kind = change[c].kind /\ n.base = change[c].base /\ n.up = change[c].up
  /\ n.at = m /\ n.todo = change[c].todo \ {m} /\ n.sound = change[c].sound

\* It goes on with that row, and is clean only if the last one succeeded.
LEMMA NextRowMoves ==
  ASSUME CatalogInv, NEW c \in Change, InFlight(c), NEW ok \in BOOLEAN, NEW m \in change[c].todo,
         NEW pc \in {"push", "remove"}, pc \in StagesOf(change[c].kind),
         Step(c, [Soiled(c, ok) EXCEPT !.pc = pc, !.at = m, !.todo = @ \ {m}])
  PROVE  \E n : MovesTo(c, n) /\ NextAs(c, n, pc, m) /\ (n.clean => ok)
<1>1. change[c] \in CallState /\ m \in Memory
  BY DEF CatalogInv, CallsFit, CallState
<1>2. PICK h \in BOOLEAN : h = (change[c].clean /\ ok)
  OBVIOUS
<1>3. PICK w \in SUBSET Memory : w = change[c].todo \ {m}
  BY <1>1 DEF CallState
<1>4. PICK x : x = Soiled(c, ok)
  OBVIOUS
<1>5. /\ x \in CallState /\ x.todo = change[c].todo /\ x.kind = change[c].kind /\ x.base = change[c].base
      /\ x.up = change[c].up /\ x.sound = change[c].sound /\ x.clean = h
  <2>1. x = [change[c] EXCEPT !.clean = h]
    BY <1>2, <1>4 DEF Soiled
  <2> QED BY <1>1, <2>1 DEF CallState
<1>6. PICK n : n = TakesUp(x, pc, m, w)
  OBVIOUS
<1>7. [Soiled(c, ok) EXCEPT !.pc = pc, !.at = m, !.todo = @ \ {m}] = n
  BY <1>3, <1>4, <1>5, <1>6 DEF TakesUp
<1>8. n \in CallState /\ NextAs(c, n, pc, m) /\ n.clean = h
  <2>1. pc \in Stage
    BY DEF Stage, HoldingRow
  <2>2. /\ n \in CallState /\ n.pc = pc /\ n.at = m /\ n.todo = w
        /\ n.kind = x.kind /\ n.base = x.base /\ n.up = x.up /\ n.clean = x.clean /\ n.sound = x.sound
    BY <1>1, <1>3, <1>5, <1>6, <2>1, RowOfCall
  <2> QED BY <1>3, <1>5, <2>2 DEF NextAs
<1>9. CallFits(n)
  BY <1>1, <1>8 DEF CallFits, NextAs
<1>10. change' = [change EXCEPT ![c] = n]
  BY <1>7 DEF Step
<1>11. MovesTo(c, n)
  BY <1>2, <1>8, <1>9, <1>10 DEF MovesTo, NextAs
<1> QED BY <1>2, <1>8, <1>11

\* Nothing but the calls changes, so the stores are of their types and no
\* name moves.
LEMMA UnchangedFits ==
  ASSUME CatalogInv, StoresUnchanged
  PROVE  StoresFit' /\ StoresShrink
  BY DEF CatalogInv, StoresFit, StoresUnchanged, StoresShrink

\* The connection test after the save fails.
LEMMA TestFailsKeeps ==
  ASSUME CatalogInv, NEW c \in Change, TestFails(c)
  PROVE  GoodStep
<1>1. StoresUnchanged /\ InFlight(c) /\ End(c, FALSE)
  BY DEF TestFails, StoresUnchanged, InFlight
<1> QED BY <1>1, UnchangedFits, CallFailKeeps

\* syncProviderModels reads the rows.
LEMMA ListForSyncKeeps ==
  ASSUME CatalogInv, NEW c \in Change, ListForSync(c)
  PROVE  GoodStep
<1> DEFINE due == {r \in Rows : modelRow[r].status = "active" /\ modelRow[r].dep # Absent}
           all == {Remember(r) : r \in due}
<1>1. /\ StoresUnchanged /\ InFlight(c) /\ change[c].kind \in Sync /\ change[c].pc = "list"
      /\ IF all = {} THEN End(c, TRUE)
         ELSE \E m \in all : Step(c, [change[c] EXCEPT !.pc = "push", !.at = m, !.todo = all \ {m}])
  BY DEF ListForSync, StoresUnchanged, InFlight, Sync
<1>2. StoresFit' /\ StoresShrink
  BY <1>1, UnchangedFits
<1>3. /\ Lone(c) => SyncInv(c)
      /\ Lone(c) /\ change[c].sound => AliasNamed /\ NamedBut({})
  BY <1>1 DEF CatalogInv, CallInv, SoundInv
<1>4. Lone(c) /\ change[c].sound => AliasNamed' /\ NamedBut({})'
  BY <1>1, <1>3 DEF StoresUnchanged, AliasNamed, NamedBut, RowFor, Rows
<1>5. \A r \in Rows \ due : Agrees(r)
  BY DEF Agrees
<1>6. CASE all = {}
  <2>1. due = {}
    BY <1>6
  <2>2. AllAgree'
    BY <1>1, <1>5, <2>1 DEF AllAgree, Agrees, Rows, StoresUnchanged
  <2>3. Lone(c) /\ change[c].sound => Consistent'
    BY <1>4, <2>2 DEF Consistent, AllAgree, AliasNamed, NamedBut
  <2> QED BY <1>1, <1>2, <1>6, <2>2, <2>3, CallEndKeeps
<1>7. ASSUME NEW m \in all, Step(c, [change[c] EXCEPT !.pc = "push", !.at = m, !.todo = all \ {m}])
      PROVE  GoodStep
  <2>1. PICK w \in SUBSET Memory : w = all \ {m}
    BY RememberedRow
  <2>2. m \in Memory /\ change[c] \in CallState /\ "push" \in Stage
    BY RememberedRow DEF CatalogInv, CallsFit, Stage, HoldingRow
  <2>3. PICK n : n = TakesUp(change[c], "push", m, w)
    OBVIOUS
  <2>4. /\ n \in CallState /\ n.pc = "push" /\ n.at = m /\ n.todo = w
        /\ n.kind = change[c].kind /\ n.base = change[c].base /\ n.up = change[c].up
        /\ n.clean = change[c].clean /\ n.sound = change[c].sound
    <3>1. PICK x \in CallState : x = change[c]
      BY <2>2
    <3>2. n = TakesUp(x, "push", m, w)
      BY <2>3, <3>1
    <3> QED BY <2>1, <2>2, <3>1, <3>2, RowOfCall
  <2>5. CallFits(n)
    BY <1>1, <2>2, <2>4 DEF CallFits, StagesOf
  <2>6. change' = [change EXCEPT ![c] = n]
    BY <1>7, <2>1, <2>3 DEF Step, TakesUp
  <2>7. MovesTo(c, n)
    BY <1>1, <2>4, <2>5, <2>6 DEF MovesTo
  <2>8. ASSUME Lone(c), change'[c] = n
        PROVE  SyncInv(c)' /\ (change[c].sound => SoundInv(c)')
    <3>1. change'[c].base = provider'.version
      BY <1>1, <1>3, <2>4, <2>8 DEF SyncInv, StoresUnchanged
    <3>2. HeldByCall(c)' = all
      BY <2>1, <2>2, <2>4, <2>8, RememberedRow DEF HeldByCall
    <3>3. \A h \in all : modelRow'[h.id] = h.was /\ h.was.status = "active" /\ h.was.dep # Absent
      <4>1. \A r \in due : modelRow'[r] = modelRow[r] /\ Remember(r).id = r /\ Remember(r).was = modelRow[r]
        BY <1>1, RememberedRow DEF StoresUnchanged
      <4> QED BY <4>1
    <3>4. \A r \in Rows' : r \in RowsInHand(c)' \/ Agrees(r)'
      <4>1. TAKE r \in Rows'
      <4>2. r \in Rows /\ (Agrees(r) => Agrees(r)')
        BY <1>1 DEF Rows, Agrees, StoresUnchanged
      <4>3. CASE r \in due
        BY <3>2, <4>2, <4>3, RememberedRow DEF RowsInHand
      <4> QED BY <1>5, <4>2, <4>3
    <3>5. SyncInv(c)'
      BY <2>4, <2>8, <3>1, <3>2, <3>3, <3>4 DEF SyncInv, AsRead
    <3>6. change[c].sound => SoundInv(c)'
      BY <1>1, <1>4, <2>4, <2>8 DEF SoundInv, Sync, Removal
    <3> QED BY <3>5, <3>6
  <2> QED BY <1>2, <2>4, <2>7, <2>8, CallMoveKeeps
<1> QED BY <1>1, <1>6, <1>7

\* The row a call holds, where what it remembers is still so.
LEMMA HeldRow ==
  ASSUME CatalogInv, NEW c \in Change, change[c].at \in Memory, AsRead(c)
  PROVE  /\ change[c].at.id \in Rows /\ modelRow[change[c].at.id] = change[c].at.was
         /\ change[c].at.was \in RowOf
  BY AbsentAssumption DEF AsRead, HeldByCall, Memory, Rows

\* An update of a deployment touches the row that names it and no other.
LEMMA PushTouchesOne ==
  ASSUME CatalogInv, NEW c \in Change, change[c].at \in Memory, AsRead(c), change[c].at.was.dep # Absent,
         UNCHANGED <<provider, modelRow>>, NEW v,
         deployed' = [deployed EXCEPT ![change[c].at.was.dep] = v]
  PROVE  /\ Rows' = Rows /\ deployed'[change[c].at.was.dep] = v
         /\ \A r \in Rows : r # change[c].at.id /\ Agrees(r) => Agrees(r)'
<1> DEFINE id == change[c].at.id  d == change[c].at.was.dep
<1>1. id \in Rows /\ modelRow[id].dep = d /\ d \in Deployment
  BY HeldRow DEF RowOf
<1>2. \A r \in Rows : modelRow[r].dep = d => r = id
  BY <1>1 DEF CatalogInv, NamesInv
<1>3. deployed'[d] = v /\ \A e \in Deployment \ {d} : deployed'[e] = deployed[e]
  BY <1>1 DEF CatalogInv, StoresFit
<1>4. \A r \in Rows : modelRow[r].dep \in Deployment \cup {Absent}
  BY DEF CatalogInv, StoresFit, Rows, RowOf
<1>5. ASSUME NEW r \in Rows, r # id, Agrees(r)
      PROVE  Agrees(r)'
  BY <1>2, <1>3, <1>4, <1>5 DEF Agrees
<1> QED BY <1>3, <1>5 DEF Rows

\* A model is pushed to LiteLLM, or refused.
LEMMA PushKeeps ==
  ASSUME CatalogInv, NEW c \in Change, Push(c)
  PROVE  GoodStep
<1> DEFINE id == change[c].at.id  w == change[c].at.was
           v == [base |-> change[c].base, set |-> w.set]
           accepted == w.dep # Absent /\ deployed[w.dep] # Absent
                       /\ deployed' = [deployed EXCEPT ![w.dep] = v] /\ To(c, "mark")
           skipped == w.dep = Absent /\ deployed' = deployed /\ To(c, "mark")
           refused == w.dep # Absent /\ deployed' = deployed /\ To(c, "fail")
<1>1. change[c].pc = "push" /\ InFlight(c) /\ UNCHANGED <<provider, modelRow, givenOut, target>>
  BY DEF Push, InFlight
<1>2. accepted \/ skipped \/ refused
  BY DEF Push
<1>3. /\ change[c] \in CallState /\ change[c].at \in Memory
      /\ change[c].kind \in Sync \cup {"update"}
  BY <1>1 DEF CatalogInv, CallsFit, CallFits, StagesOf, Removal, HoldingRow
<1>4. w \in RowOf /\ v \in [base: 0..MaxVersion, set: 0..MaxVersion]
  BY <1>3 DEF CallState, Memory, RowOf
<1>5. /\ "mark" \in StagesOf(change[c].kind) /\ "fail" \in StagesOf(change[c].kind)
      /\ {"mark", "fail"} \subseteq Stage \ {"new", "done", "upsert"}
  BY <1>3 DEF StagesOf, Stage, HoldingRow, Sync
<1>6. /\ Lone(c) => SyncInv(c)
      /\ Lone(c) /\ change[c].sound => SoundInv(c)
  BY DEF CatalogInv, CallInv
<1>7. StoresFit' /\ StoresShrink
  <2>1. deployed' \in [Deployment -> [base: 0..MaxVersion, set: 0..MaxVersion] \cup {Absent}]
    BY <1>2, <1>4 DEF CatalogInv, StoresFit
  <2>2. \A d \in Deployment : deployed'[d] # Absent => deployed[d] # Absent
    BY <1>2 DEF CatalogInv, StoresFit
  <2> QED BY <1>1, <2>1, <2>2 DEF StoresFit, CatalogInv, StoresShrink
<1>8. AliasNamed /\ NamedBut({}) => AliasNamed' /\ NamedBut({})'
  BY <1>1, <1>7 DEF AliasNamed, NamedBut, RowFor, Rows, StoresShrink
<1>9. Rows' = Rows /\ \A r \in Row : modelRow'[r] = modelRow[r]
  BY <1>1 DEF Rows
<1>10. CASE accepted
  <2>1. PICK n : MovesTo(c, n) /\ SameBut(c, n, "mark")
    BY <1>1, <1>3, <1>5, <1>10, ToMoves
  <2>2. ASSUME Lone(c), change'[c] = n, AsRead(c)
        PROVE  /\ AsRead(c)' /\ HeldByCall(c)' = HeldByCall(c) /\ RowsInHand(c)' = RowsInHand(c)
               /\ deployed'[w.dep] = v /\ \A r \in Rows : r # id /\ Agrees(r) => Agrees(r)'
    <3>1. HeldByCall(c)' = HeldByCall(c)
      BY <2>1, <2>2 DEF HeldByCall, SameBut
    <3>2. AsRead(c)' /\ RowsInHand(c)' = RowsInHand(c)
      BY <1>1, <2>2, <3>1 DEF AsRead, RowsInHand
    <3>3. PICK u : u = v
      OBVIOUS
    <3> QED BY <1>1, <1>3, <1>10, <2>2, <3>1, <3>2, <3>3, PushTouchesOne
  <2>3. ASSUME Lone(c), change'[c] = n
        PROVE  SyncInv(c)'
    <3>1. SUFFICES ASSUME change[c].kind \in Sync PROVE SyncInv(c)'
      BY <2>1, <2>3 DEF SyncInv, SameBut
    <3>2. /\ change[c].base = provider.version /\ AsRead(c)
          /\ \A m \in HeldByCall(c) : m.was.status = "active" /\ m.was.dep # Absent
          /\ \A r \in Rows : r \in RowsInHand(c) \/ Agrees(r)
      BY <1>1, <1>6, <2>3, <3>1 DEF SyncInv
    <3>3. /\ AsRead(c)' /\ HeldByCall(c)' = HeldByCall(c) /\ RowsInHand(c)' = RowsInHand(c)
          /\ deployed'[w.dep] = v /\ \A r \in Rows : r # id /\ Agrees(r) => Agrees(r)'
      BY <2>2, <2>3, <3>2
    <3>4. Agrees(id)'
      <4>1. modelRow[id] = w /\ id \in Row
        BY <1>3, <3>2, HeldRow DEF Rows
      <4>2. modelRow'[id].dep = w.dep /\ modelRow'[id].set = w.set /\ provider'.version = change[c].base
        BY <1>1, <3>2, <4>1
      <4>3. deployed'[modelRow'[id].dep] = [base |-> provider'.version, set |-> modelRow'[id].set]
        BY <3>3, <4>2
      <4>4. change'[c].at.id = id
        BY <2>1, <2>3 DEF SameBut
      <4> QED BY <4>3, <4>4 DEF Agrees
    <3>5. id \in RowsInHand(c)
      BY <1>3 DEF RowsInHand, HeldByCall
    <3>6. \A r \in Rows' : r \in RowsInHand(c)' \/ Agrees(r)'
      BY <1>9, <3>2, <3>3, <3>5
    <3>7. change'[c].at.id = id /\ change'[c].base = provider'.version /\ change'[c].pc = "mark"
      BY <1>1, <2>1, <2>3, <3>2 DEF SameBut
    <3> QED BY <3>2, <3>3, <3>4, <3>6, <3>7 DEF SyncInv
  <2>4. ASSUME Lone(c), change'[c] = n, change[c].sound
        PROVE  SoundInv(c)'
    <3>1. CASE change[c].kind = "update"
      <4>1. /\ AsRead(c) /\ change[c].todo = {} /\ AliasNamed /\ NamedBut({}) /\ OthersAgree(c)
            /\ change[c].base = provider.version
        BY <1>1, <1>6, <2>4, <3>1 DEF SoundInv, UpdateInv
      <4>2. AsRead(c)' /\ deployed'[w.dep] = v /\ \A r \in Rows : r # id /\ Agrees(r) => Agrees(r)'
        BY <2>2, <2>4, <4>1
      <4>3. change'[c].at = change[c].at /\ change'[c].pc = "mark" /\ change'[c].todo = {} /\ change'[c].kind = "update"
        BY <2>1, <2>4, <3>1, <4>1 DEF SameBut
      <4>4. OthersAgree(c)'
        BY <1>9, <4>1, <4>2, <4>3 DEF OthersAgree
      <4>5. Served(c)'
        BY <1>1, <4>1, <4>2, <4>3 DEF Served
      <4>6. UpdateInv(c)'
        BY <1>8, <4>1, <4>2, <4>3, <4>4, <4>5 DEF UpdateInv
      <4> QED BY <4>3, <4>6 DEF SoundInv, Sync, Removal
    <3>2. CASE change[c].kind \in Sync
      <4>1. AliasNamed' /\ NamedBut({})'
        BY <1>6, <1>8, <2>4, <3>2 DEF SoundInv
      <4>2. change'[c].kind \in Sync
        BY <2>1, <2>4, <3>2 DEF SameBut
      <4> QED BY <4>1, <4>2 DEF SoundInv, Sync, Removal
    <3> QED BY <1>3, <3>1, <3>2
  <2> QED BY <1>7, <2>1, <2>3, <2>4, CallMoveKeeps DEF SameBut
<1>11. CASE skipped
  <2>1. PICK n : MovesTo(c, n) /\ SameBut(c, n, "mark")
    BY <1>1, <1>3, <1>5, <1>11, ToMoves
  <2>2. ASSUME Lone(c), change'[c] = n
        PROVE  SyncInv(c)'
    <3>1. change[c].kind \notin Sync
      BY <1>1, <1>3, <1>6, <1>11, <2>2 DEF SyncInv, HeldByCall
    <3> QED BY <2>1, <2>2, <3>1 DEF SyncInv, SameBut
  <2>3. ASSUME Lone(c), change'[c] = n, change[c].sound
        PROVE  SoundInv(c)'
    <3>1. change[c].kind = "update"
      BY <1>1, <1>3, <1>6, <1>11, <2>3 DEF SyncInv, HeldByCall
    <3>2. AsRead(c) /\ change[c].todo = {} /\ AliasNamed /\ NamedBut({}) /\ OthersAgree(c)
      BY <1>1, <1>6, <2>3, <3>1 DEF SoundInv, UpdateInv
    <3>3. change'[c].at = change[c].at /\ change'[c].pc = "mark" /\ change'[c].todo = {} /\ change'[c].kind = "update"
      BY <2>1, <2>3, <3>1, <3>2 DEF SameBut
    <3>4. AsRead(c)'
      BY <1>1, <3>2, <3>3 DEF AsRead, HeldByCall
    <3>5. OthersAgree(c)'
      BY <1>1, <1>9, <1>11, <3>2, <3>3 DEF OthersAgree, Agrees
    <3>6. UpdateInv(c)'
      BY <1>8, <1>11, <3>2, <3>3, <3>4, <3>5 DEF UpdateInv
    <3> QED BY <3>3, <3>6 DEF SoundInv, Sync, Removal
  <2> QED BY <1>7, <2>1, <2>2, <2>3, CallMoveKeeps DEF SameBut
<1>12. CASE refused
  <2>1. PICK n : MovesTo(c, n) /\ SameBut(c, n, "fail")
    BY <1>1, <1>3, <1>5, <1>12, ToMoves
  <2>2. ASSUME Lone(c), change'[c] = n
        PROVE  SyncInv(c)'
    BY <2>1, <2>2 DEF SyncInv, SameBut
  <2>3. ASSUME Lone(c), change'[c] = n, change[c].sound
        PROVE  SoundInv(c)'
    <3>1. change'[c].pc = "fail" /\ change'[c].kind = change[c].kind /\ change'[c].at = change[c].at
          /\ change'[c].todo = change[c].todo
      BY <2>1, <2>3 DEF SameBut
    <3>2. CASE change[c].kind = "update"
      <4>1. AsRead(c) /\ change[c].todo = {}
        BY <1>6, <2>3, <3>2 DEF SoundInv, UpdateInv
      <4>2. AsRead(c)'
        BY <1>1, <3>1, <4>1 DEF AsRead, HeldByCall
      <4> QED BY <3>1, <3>2, <4>1, <4>2 DEF SoundInv, UpdateInv, Sync, Removal
    <3>3. CASE change[c].kind \in Sync
      <4>1. AliasNamed' /\ NamedBut({})'
        BY <1>6, <1>8, <2>3, <3>3 DEF SoundInv
      <4> QED BY <3>1, <3>3, <4>1 DEF SoundInv, Sync, Removal
    <3> QED BY <1>3, <3>2, <3>3
  <2> QED BY <1>7, <2>1, <2>2, <2>3, CallMoveKeeps DEF SameBut
<1> QED BY <1>2, <1>10, <1>11, <1>12

\* What a write of the state of a row does.
LEMMA StateIsSet ==
  ASSUME CatalogInv, NEW id \in Row, NEW st \in {"pending", "active", "error"},
         NEW dep \in Deployment \cup {Absent}, SetState(id, st, dep)
  PROVE  /\ modelRow' \in [Row -> RowOf \cup {Absent}] /\ Rows' = Rows
         /\ \A r \in Row : r # id => modelRow'[r] = modelRow[r]
         /\ id \in Rows => /\ modelRow'[id] \in RowOf /\ modelRow'[id].status = st
                           /\ modelRow'[id].up = modelRow[id].up /\ modelRow'[id].set = modelRow[id].set
                           /\ modelRow'[id].dep = IF dep = Absent THEN modelRow[id].dep ELSE dep
<1>1. modelRow \in [Row -> RowOf \cup {Absent}]
  BY DEF CatalogInv, StoresFit
<1>2. \A r \in Row : r # id => modelRow'[r] = modelRow[r]
  BY <1>1 DEF SetState
<1>3. CASE id \notin Rows
  <2>1. modelRow' = modelRow
    BY <1>1, <1>3 DEF SetState, Rows
  <2> QED BY <1>1, <1>2, <1>3, <2>1 DEF Rows
<1>4. CASE id \in Rows
  <2>1. PICK was \in RowOf : was = modelRow[id]
    BY <1>1, <1>4 DEF Rows
  <2>2. PICK d \in Deployment \cup {Absent} : d = IF dep = Absent THEN was.dep ELSE dep
    BY <2>1 DEF RowOf
  <2> DEFINE half == [was EXCEPT !.status = st]
             new == [half EXCEPT !.dep = d]
  <2>3. modelRow' = [modelRow EXCEPT ![id] = [was EXCEPT !.status = st, !.dep = IF dep = Absent THEN @ ELSE dep]]
    <3>1. modelRow[id] # Absent
      BY <1>4 DEF Rows
    <3> DEFINE write == [modelRow[id] EXCEPT !.status = st,
                                             !.dep = IF dep = Absent THEN modelRow[id].dep ELSE dep]
    <3>2. modelRow' = [modelRow EXCEPT ![id] = IF modelRow[id] = Absent THEN modelRow[id] ELSE write]
      BY DEF SetState
    <3>3. (IF modelRow[id] = Absent THEN modelRow[id] ELSE write) = write
      BY <3>1
    <3>4. write = [was EXCEPT !.status = st, !.dep = IF dep = Absent THEN @ ELSE dep]
      BY <2>1
    <3> HIDE DEF write
    <3>5. modelRow' = [modelRow EXCEPT ![id] = write]
      BY <3>2, <3>3
    <3> QED BY <3>4, <3>5
  <2>4. [was EXCEPT !.status = st, !.dep = IF dep = Absent THEN @ ELSE dep] = new
    BY Zenon, <2>2
  <2>5. half \in RowOf /\ half.status = st /\ half.up = was.up /\ half.set = was.set
    BY DEF RowOf
  <2> HIDE DEF half
  <2>6. new \in RowOf /\ new.status = st /\ new.up = was.up /\ new.set = was.set /\ new.dep = d
    BY <2>5 DEF RowOf
  <2> HIDE DEF new
  <2>7. modelRow' = [modelRow EXCEPT ![id] = new]
    BY <2>3, <2>4
  <2>8. modelRow'[id] = new /\ modelRow' \in [Row -> RowOf \cup {Absent}]
    BY <1>1, <2>6, <2>7
  <2>9. Rows' = Rows
    BY <1>2, <1>4, <2>6, <2>8, AbsentAssumption DEF Rows
  <2> QED BY <1>2, <2>1, <2>2, <2>6, <2>8, <2>9
<1> QED BY <1>3, <1>4

\* A row that is marked again as it was is the row it was.
LEMMA SameRow ==
  ASSUME NEW x \in RowOf, NEW y \in RowOf, x.up = y.up, x.status = y.status, x.dep = y.dep, x.set = y.set
  PROVE  x = y
  BY DEF RowOf

\* The row of a failed push is marked.
LEMMA MarkFailedKeeps ==
  ASSUME CatalogInv, NEW c \in Change, MarkFailed(c)
  PROVE  GoodStep
<1>1. /\ change[c].pc = "fail" /\ InFlight(c) /\ UNCHANGED <<provider, deployed, givenOut, target>>
      /\ SetState(change[c].at.id, "error", Absent) \/ modelRow' = modelRow
      /\ End(c, FALSE)
  BY DEF MarkFailed, InFlight
<1>2. PICK id \in Row : id = change[c].at.id
  BY <1>1 DEF CatalogInv, CallsFit, CallFits, HoldingRow, Memory
<1>3. modelRow' \in [Row -> RowOf \cup {Absent}]
  BY <1>1, <1>2, StateIsSet DEF CatalogInv, StoresFit
<1>4. StoresFit'
  BY <1>1, <1>3 DEF CatalogInv, StoresFit
<1>5. StoresShrink
  BY <1>1, <1>2, StateIsSet DEF StoresShrink, Rows
<1> QED BY <1>1, <1>4, <1>5, CallFailKeeps

\* The row of a push that succeeded is active.
LEMMA MarkActiveKeeps ==
  ASSUME CatalogInv, NEW c \in Change, MarkActive(c)
  PROVE  GoodStep
<1>1. /\ change[c].pc = "mark" /\ change[c].kind \in Sync \cup {"update"} /\ InFlight(c)
      /\ UNCHANGED <<provider, deployed, givenOut, target>>
  BY DEF MarkActive, InFlight, Sync
<1>2. \/ SetState(change[c].at.id, "active", Absent) /\ NextOf(c, TRUE)
      \/ modelRow' = modelRow /\ NextOf(c, FALSE)
  BY DEF MarkActive
<1>3. change[c].at \in Memory /\ change[c].at.was \in RowOf
  BY <1>1 DEF CatalogInv, CallsFit, CallFits, HoldingRow, Memory
<1>4. PICK id \in Row : id = change[c].at.id
  BY <1>3 DEF Memory
<1>5. modelRow' \in [Row -> RowOf \cup {Absent}]
  BY <1>2, <1>4, StateIsSet DEF CatalogInv, StoresFit
<1>6. StoresFit'
  BY <1>1, <1>5 DEF CatalogInv, StoresFit
<1>7. StoresShrink
  <2>1. CASE SetState(change[c].at.id, "active", Absent)
    <3>1. /\ Rows' = Rows /\ \A r \in Row : r # id => modelRow'[r] = modelRow[r]
          /\ id \in Rows => modelRow'[id].dep = modelRow[id].dep
      BY <1>4, <2>1, StateIsSet
    <3> QED BY <1>1, <3>1 DEF StoresShrink, Rows
  <2>2. CASE modelRow' = modelRow
    BY <1>1, <2>2 DEF StoresShrink
  <2> QED BY <1>2, <2>1, <2>2
<1>8. /\ Lone(c) => SyncInv(c)
      /\ Lone(c) /\ change[c].sound => SoundInv(c)
  BY DEF CatalogInv, CallInv
<1>9. "push" \in StagesOf(change[c].kind)
  BY <1>1 DEF StagesOf, Sync
<1>10. CASE modelRow' = modelRow /\ NextOf(c, FALSE)
  <2>1. CASE End(c, FALSE)
    BY <1>1, <1>6, <1>7, <2>1, CallFailKeeps
  <2>2. ASSUME NEW m \in change[c].todo, Step(c, [Soiled(c, FALSE) EXCEPT !.pc = "push", !.at = m, !.todo = @ \ {m}])
        PROVE  GoodStep
    <3>1. PICK n : MovesTo(c, n) /\ NextAs(c, n, "push", m) /\ ~n.clean
      BY <1>1, <1>9, <2>2, NextRowMoves
    <3> QED BY <1>6, <1>7, <3>1, CallMoveKeeps DEF NextAs
  <2> QED BY <1>10, <2>1, <2>2 DEF NextOf
<1>11. CASE SetState(change[c].at.id, "active", Absent) /\ NextOf(c, TRUE)
  <2>1. /\ Rows' = Rows /\ \A r \in Row : r # id => modelRow'[r] = modelRow[r]
        /\ id \in Rows => /\ modelRow'[id] \in RowOf /\ modelRow'[id].status = "active"
                          /\ modelRow'[id].up = modelRow[id].up /\ modelRow'[id].set = modelRow[id].set
                          /\ modelRow'[id].dep = modelRow[id].dep
    BY <1>4, <1>11, StateIsSet
  <2>2. \A r \in Rows : modelRow'[r].up = modelRow[r].up /\ modelRow'[r].dep = modelRow[r].dep
    BY <2>1 DEF Rows
  <2>3. AliasNamed /\ NamedBut({}) => AliasNamed' /\ NamedBut({})'
    BY <1>1, <2>1, <2>2 DEF AliasNamed, NamedBut, RowFor
  <2>4. ASSUME Lone(c), change[c].kind \in Sync
        PROVE  modelRow' = modelRow /\ AsRead(c) /\ id \in Rows
               /\ (\A m \in HeldByCall(c) : m.was.status = "active" /\ m.was.dep # Absent)
               /\ \A r \in Rows : (r \in RowsInHand(c) \ {id} \/ Agrees(r))
    <3>1. /\ AsRead(c) /\ Agrees(id)
          /\ \A m \in HeldByCall(c) : m.was.status = "active" /\ m.was.dep # Absent
          /\ \A r \in Rows : r \in RowsInHand(c) \/ Agrees(r)
      BY <1>1, <1>4, <1>8, <2>4 DEF SyncInv
    <3>2. id \in Rows /\ modelRow[id] = change[c].at.was /\ change[c].at.was.status = "active"
      BY <1>3, <1>4, <3>1, HeldRow DEF HeldByCall
    <3>3. modelRow'[id] = modelRow[id]
      BY <1>3, <2>1, <3>2, SameRow
    <3>4. modelRow' = modelRow
      BY <1>5, <2>1, <3>3 DEF CatalogInv, StoresFit
    <3> QED BY <3>1, <3>2, <3>4
  <2>5. ASSUME Lone(c), change[c].kind = "update", change[c].sound
        PROVE  change[c].todo = {} /\ Consistent'
    <3>1. /\ AsRead(c) /\ change[c].todo = {} /\ AliasNamed /\ NamedBut({}) /\ OthersAgree(c)
          /\ change[c].at.was.dep # Absent => Served(c)
      BY <1>1, <1>8, <2>5 DEF SoundInv, UpdateInv
    <3>2. id \in Rows /\ modelRow[id] = change[c].at.was
      BY <1>3, <1>4, <3>1, HeldRow
    <3>3. Agrees(id)'
      BY <1>1, <2>1, <3>1, <3>2 DEF Agrees, Served
    <3>4. \A r \in Rows : r # id => Agrees(r)'
      BY <1>1, <1>4, <2>1, <3>1 DEF OthersAgree, Agrees, Rows
    <3> QED BY <2>1, <2>3, <3>1, <3>3, <3>4 DEF Consistent, AliasNamed, NamedBut
  <2>6. CASE change[c].todo = {} /\ End(c, TRUE)
    <3>1. ASSUME Lone(c), change[c].kind \in Sync
          PROVE  AllAgree' /\ (change[c].sound => Consistent')
      <4>1. RowsInHand(c) \subseteq {id}
        BY <1>4, <2>6 DEF RowsInHand, HeldByCall
      <4>2. AllAgree'
        BY <1>1, <2>1, <2>4, <3>1, <4>1 DEF AllAgree, Agrees
      <4>3. change[c].sound => Consistent'
        BY <1>8, <2>3, <3>1, <4>2 DEF SoundInv, Consistent, AllAgree, AliasNamed, NamedBut
      <4> QED BY <4>2, <4>3
    <3> QED BY <1>1, <1>6, <1>7, <2>5, <2>6, <3>1, CallEndKeeps
  <2>7. ASSUME NEW m \in change[c].todo, Step(c, [Soiled(c, TRUE) EXCEPT !.pc = "push", !.at = m, !.todo = @ \ {m}])
        PROVE  GoodStep
    <3>1. PICK n : MovesTo(c, n) /\ NextAs(c, n, "push", m)
      BY <1>1, <1>9, <2>7, NextRowMoves
    <3>2. ASSUME Lone(c), change'[c] = n, change[c].kind \in Sync
          PROVE  SyncInv(c)'
      <4>1. modelRow' = modelRow /\ AsRead(c)
            /\ (\A h \in HeldByCall(c) : h.was.status = "active" /\ h.was.dep # Absent)
            /\ \A r \in Rows : (r \in RowsInHand(c) \ {id} \/ Agrees(r))
        BY <2>4, <3>2
      <4>2. change'[c].base = provider'.version /\ change'[c].pc = "push"
        BY <1>1, <1>8, <3>1, <3>2 DEF SyncInv, NextAs
      <4>3. \A h \in Memory : h \in HeldByCall(c)' <=> h \in change[c].todo
        BY <2>7, <3>1, <3>2 DEF HeldByCall, NextAs
      <4>4. AsRead(c)' /\ \A h \in HeldByCall(c)' : h.was.status = "active" /\ h.was.dep # Absent
        BY <4>1, <4>3 DEF AsRead, HeldByCall
      <4>5. \A r \in RowsInHand(c) \ {id} : r \in RowsInHand(c)'
        BY <1>4, <4>3 DEF RowsInHand, HeldByCall
      <4>6. \A r \in Rows' : r \in RowsInHand(c)' \/ Agrees(r)'
        BY <1>1, <2>1, <4>1, <4>5 DEF Agrees
      <4> QED BY <4>2, <4>4, <4>6 DEF SyncInv
    <3>3. Lone(c) /\ change'[c] = n => SyncInv(c)'
      BY <1>1, <3>1, <3>2 DEF SyncInv, NextAs
    <3>4. ASSUME Lone(c), change'[c] = n, change[c].sound
          PROVE  SoundInv(c)'
      <4>1. change[c].kind \in Sync
        BY <1>1, <2>5, <2>7, <3>4
      <4> QED BY <1>8, <2>3, <3>1, <3>4, <4>1 DEF SoundInv, NextAs, Sync, Removal
    <3> QED BY <1>6, <1>7, <3>1, <3>3, <3>4, CallMoveKeeps DEF NextAs
  <2> QED BY <1>11, <2>6, <2>7 DEF NextOf
<1> QED BY <1>2, <1>10, <1>11

-----------------------------------------------------------------------------
(* The update of a model, and its registration.                             *)

\* A call that goes on with what it has just written or read of its row.
GoesOnWith(x, pc, m) == [x EXCEPT !.pc = pc, !.at = m]

\* n is c at another stage, with the row m.
WithRow(c, n, pc, m) ==
  /\ n.pc = pc /\ n.kind = change[c].kind /\ n.base = change[c].base /\ n.up = change[c].up
  /\ n.at = m /\ n.todo = change[c].todo /\ n.sound = change[c].sound

\* A call goes on with a row it has read or written.
LEMMA RowMoves ==
  ASSUME CatalogInv, NEW c \in Change, InFlight(c), NEW pc \in Stage \ {"new", "done", "upsert"},
         NEW m \in Memory, pc \in StagesOf(change[c].kind), Step(c, GoesOnWith(change[c], pc, m))
  PROVE  \E n : MovesTo(c, n) /\ WithRow(c, n, pc, m)
<1>1. PICK n : n = GoesOnWith(change[c], pc, m)
  OBVIOUS
<1>2. change[c] \in CallState
  BY DEF CatalogInv, CallsFit
<1> DEFINE half == [change[c] EXCEPT !.pc = pc]
<1>3. n = [half EXCEPT !.at = m]
  BY <1>1, Zenon DEF GoesOnWith
<1>4. /\ half \in CallState /\ half.pc = pc /\ half.kind = change[c].kind /\ half.base = change[c].base
      /\ half.up = change[c].up /\ half.todo = change[c].todo /\ half.sound = change[c].sound
      /\ half.clean = change[c].clean
  BY <1>2 DEF CallState
<1> HIDE DEF half
<1>5. n \in CallState /\ WithRow(c, n, pc, m) /\ n.clean = change[c].clean
  BY <1>3, <1>4 DEF CallState, WithRow
<1>6. CallFits(n)
  BY <1>5 DEF CallFits, WithRow
<1>7. change' = [change EXCEPT ![c] = n]
  BY <1>1 DEF Step
<1>8. MovesTo(c, n)
  BY <1>5, <1>6, <1>7 DEF MovesTo, WithRow
<1> QED BY <1>5, <1>8

\* The settings of a model are written to its row.
LEMMA WriteSettingsKeeps ==
  ASSUME CatalogInv, NEW c \in Change, WriteSettings(c)
  PROVE  GoodStep
<1>1. change[c].kind = "update" /\ change[c].pc = "write" /\ InFlight(c)
      /\ UNCHANGED <<provider, deployed, givenOut, target>>
  BY DEF WriteSettings, InFlight
<1>2. PICK r \in Row : r = change[c].at.id
  BY <1>1 DEF CatalogInv, CallsFit, CallFits, HoldingRow, Memory
<1> DEFINE written == [modelRow[r] EXCEPT !.set = modelRow[r].set + 1]
           m == [id |-> r, was |-> written]
<1>3. CASE r \notin Rows
  <2>1. modelRow' = modelRow /\ End(c, FALSE)
    BY <1>2, <1>3 DEF WriteSettings, Rows
  <2>2. StoresUnchanged
    BY <1>1, <2>1 DEF StoresUnchanged
  <2> QED BY <1>1, <2>1, <2>2, UnchangedFits, CallFailKeeps
<1>4. CASE r \in Rows
  <2>1. /\ modelRow[r].set < MaxVersion /\ modelRow' = [modelRow EXCEPT ![r] = written]
        /\ Step(c, [change[c] EXCEPT !.pc = "provider", !.at = m])
    BY <1>2, <1>4, Zenon DEF WriteSettings, Rows
  <2>2. modelRow[r] \in RowOf
    BY <1>4 DEF CatalogInv, StoresFit, Rows
  <2>3. /\ written \in RowOf /\ written.status = modelRow[r].status /\ written.up = modelRow[r].up
        /\ written.dep = modelRow[r].dep
    BY <2>1, <2>2, CatalogAssumption DEF RowOf
  <2> HIDE DEF written
  <2>4. m \in Memory /\ m.id = r /\ m.was = written
    BY <2>3 DEF Memory
  <2>5. PICK k \in Memory : k = m
    BY <2>4
  <2>6. Step(c, GoesOnWith(change[c], "provider", k))
    BY <2>1, <2>5 DEF GoesOnWith
  <2> HIDE DEF m
  <2>7. PICK n : MovesTo(c, n) /\ WithRow(c, n, "provider", k)
    <3>1. "provider" \in Stage \ {"new", "done", "upsert"} /\ "provider" \in StagesOf(change[c].kind)
      BY <1>1 DEF Stage, HoldingRow, StagesOf, Sync
    <3> QED BY <1>1, <2>5, <2>6, <3>1, RowMoves
  <2>8. /\ modelRow' \in [Row -> RowOf \cup {Absent}] /\ modelRow'[r] = written
        /\ \A x \in Row : x # r => modelRow'[x] = modelRow[x]
    BY <2>1, <2>3 DEF CatalogInv, StoresFit
  <2>9. Rows' = Rows
    BY <1>4, <2>3, <2>8, AbsentAssumption DEF Rows
  <2>10. StoresFit' /\ StoresShrink
    BY <1>1, <1>4, <2>3, <2>8 DEF CatalogInv, StoresFit, StoresShrink, Rows
  <2>11. ASSUME Lone(c), change'[c] = n
         PROVE  SyncInv(c)'
    BY <1>1, <2>7, <2>11 DEF SyncInv, WithRow, Sync
  <2>12. ASSUME Lone(c), change'[c] = n, change[c].sound
         PROVE  SoundInv(c)'
    <3>1. change[c].todo = {} /\ AliasNamed /\ NamedBut({}) /\ AllAgree
      BY <1>1, <2>12 DEF CatalogInv, CallInv, SoundInv, UpdateInv
    <3>2. /\ change'[c].at = k /\ change'[c].pc = "provider" /\ change'[c].todo = {}
          /\ change'[c].kind = "update"
      BY <1>1, <2>7, <2>12, <3>1 DEF WithRow
    <3>3. AsRead(c)'
      BY <2>4, <2>5, <2>8, <3>2 DEF AsRead, HeldByCall
    <3>4. AliasNamed' /\ NamedBut({})'
      <4>1. \A x \in Rows : modelRow'[x].up = modelRow[x].up /\ modelRow'[x].dep = modelRow[x].dep
        BY <2>3, <2>8 DEF Rows
      <4> QED BY <1>1, <2>9, <3>1, <4>1 DEF AliasNamed, NamedBut, RowFor
    <3>5. OthersAgree(c)'
      BY <1>1, <2>4, <2>5, <2>8, <2>9, <3>1, <3>2 DEF OthersAgree, AllAgree, Agrees, Rows
    <3>6. UpdateInv(c)'
      BY <3>2, <3>3, <3>4, <3>5 DEF UpdateInv
    <3> QED BY <3>2, <3>6 DEF SoundInv, Sync, Removal
  <2> QED BY <2>7, <2>10, <2>11, <2>12, CallMoveKeeps DEF WithRow
<1> QED BY <1>3, <1>4

\* A call that has read the provider goes on with its version.
LEMMA BaseMoves ==
  ASSUME CatalogInv, NEW c \in Change, InFlight(c), NEW v \in 0..MaxVersion,
         change[c].at \in Memory, change[c].kind = "update",
         Step(c, [change[c] EXCEPT !.pc = "push", !.base = v])
  PROVE  \E n : MovesTo(c, n) /\ n.pc = "push" /\ n.at = change[c].at /\ n.todo = change[c].todo /\ n.base = v
<1>1. PICK n : n = [change[c] EXCEPT !.pc = "push", !.base = v]
  OBVIOUS
<1>2. change[c] \in CallState
  BY DEF CatalogInv, CallsFit
<1> DEFINE half == [change[c] EXCEPT !.pc = "push"]
<1>3. n = [half EXCEPT !.base = v]
  BY <1>1, Zenon
<1>4. /\ half \in CallState /\ half.pc = "push" /\ half.kind = change[c].kind /\ half.at = change[c].at
      /\ half.todo = change[c].todo /\ half.sound = change[c].sound /\ half.clean = change[c].clean
  BY <1>2 DEF CallState, Stage, HoldingRow
<1> HIDE DEF half
<1>5. /\ n \in CallState /\ n.pc = "push" /\ n.kind = change[c].kind /\ n.at = change[c].at
      /\ n.todo = change[c].todo /\ n.sound = change[c].sound /\ n.clean = change[c].clean /\ n.base = v
  BY <1>3, <1>4 DEF CallState
<1>6. CallFits(n)
  BY <1>5 DEF CallFits, StagesOf, Sync
<1>7. change' = [change EXCEPT ![c] = n]
  BY <1>1 DEF Step
<1>8. MovesTo(c, n)
  BY <1>5, <1>6, <1>7 DEF MovesTo
<1> QED BY <1>5, <1>8

\* The provider is read again for the push.
LEMMA ReadProviderKeeps ==
  ASSUME CatalogInv, NEW c \in Change, ReadProvider(c)
  PROVE  GoodStep
<1>1. change[c].kind = "update" /\ change[c].pc = "provider" /\ InFlight(c) /\ StoresUnchanged
  BY DEF ReadProvider, InFlight, StoresUnchanged
<1>2. change[c].at \in Memory
  BY <1>1 DEF CatalogInv, CallsFit, CallFits, HoldingRow
<1>3. CASE ~provider.there
  BY <1>1, <1>3, UnchangedFits, CallFailKeeps DEF ReadProvider
<1>4. CASE provider.there
  <2>1. PICK v \in 0..MaxVersion : v = provider.version
    BY DEF CatalogInv, StoresFit
  <2>2. Step(c, [change[c] EXCEPT !.pc = "push", !.base = v])
    BY <1>4, <2>1 DEF ReadProvider
  <2>3. PICK n : MovesTo(c, n) /\ n.pc = "push" /\ n.at = change[c].at /\ n.todo = change[c].todo /\ n.base = v
    BY <1>1, <1>2, <2>2, BaseMoves
  <2>4. ASSUME Lone(c), change'[c] = n
        PROVE  SyncInv(c)'
    BY <1>1, <2>3, <2>4 DEF SyncInv, MovesTo, Sync
  <2>5. ASSUME Lone(c), change'[c] = n, change[c].sound
        PROVE  SoundInv(c)'
    <3>1. AsRead(c) /\ change[c].todo = {} /\ AliasNamed /\ NamedBut({}) /\ OthersAgree(c)
      BY <1>1, <2>5 DEF CatalogInv, CallInv, SoundInv, UpdateInv
    <3>2. /\ change'[c].at = change[c].at /\ change'[c].pc = "push" /\ change'[c].todo = {}
          /\ change'[c].kind = "update" /\ change'[c].base = provider'.version
      BY <1>1, <2>1, <2>3, <2>5, <3>1 DEF MovesTo, StoresUnchanged
    <3>3. AsRead(c)'
      BY <1>1, <3>1, <3>2 DEF AsRead, HeldByCall, StoresUnchanged
    <3>4. AliasNamed' /\ NamedBut({})' /\ OthersAgree(c)'
      BY <1>1, <3>1, <3>2 DEF AliasNamed, NamedBut, RowFor, Rows, OthersAgree, Agrees, StoresUnchanged
    <3>5. UpdateInv(c)'
      BY <3>2, <3>3, <3>4 DEF UpdateInv
    <3> QED BY <3>2, <3>5 DEF SoundInv, Sync, Removal
  <2> QED BY <1>1, <2>3, <2>4, <2>5, UnchangedFits, CallMoveKeeps
<1> QED BY <1>3, <1>4

\* The row of a registered model is inserted, or the one with its name updated.
LEMMA UpsertKeeps ==
  ASSUME CatalogInv, NEW c \in Change, UpsertRow(c)
  PROVE  GoodStep
<1>1. change[c].kind = "register" /\ change[c].pc = "upsert" /\ InFlight(c)
      /\ UNCHANGED <<provider, deployed, givenOut, target>>
  BY DEF UpsertRow, InFlight
<1>2. PICK u \in Upstream : u = change[c].up
  BY <1>1 DEF CatalogInv, CallsFit, CallFits
<1>3. "create" \in Stage \ {"new", "done", "upsert"} /\ "create" \in StagesOf(change[c].kind)
  BY <1>1 DEF Stage, HoldingRow, StagesOf, Sync
<1>4. CASE \E r \in RowFor(u) :
             /\ modelRow' = [modelRow EXCEPT ![r].status = "pending"]
             /\ Step(c, [change[c] EXCEPT !.pc = "create",
                           !.at = [id |-> r, was |-> [modelRow[r] EXCEPT !.status = "pending"]]])
  <2>1. PICK r \in RowFor(u) :
             /\ modelRow' = [modelRow EXCEPT ![r].status = "pending"]
             /\ Step(c, [change[c] EXCEPT !.pc = "create",
                           !.at = [id |-> r, was |-> [modelRow[r] EXCEPT !.status = "pending"]]])
    BY <1>4
  <2>2. r \in Row /\ modelRow[r] \in RowOf /\ r \in Rows
    BY DEF CatalogInv, StoresFit, Rows, RowFor
  <2>3. PICK w : w = [modelRow[r] EXCEPT !.status = "pending"]
    OBVIOUS
  <2>4. w \in RowOf /\ w.dep = modelRow[r].dep
    BY <2>2, <2>3 DEF RowOf
  <2>5. PICK k \in Memory : k = [id |-> r, was |-> w]
    BY <2>2, <2>4 DEF Memory
  <2>6. Step(c, GoesOnWith(change[c], "create", k))
    BY <2>1, <2>3, <2>5 DEF GoesOnWith
  <2>7. PICK n : MovesTo(c, n) /\ WithRow(c, n, "create", k)
    BY <1>1, <1>3, <2>6, RowMoves
  <2>8. modelRow' \in [Row -> RowOf \cup {Absent}] /\ modelRow'[r] = w
        /\ \A x \in Row : x # r => modelRow'[x] = modelRow[x]
    BY <2>1, <2>2, <2>3, <2>4 DEF CatalogInv, StoresFit
  <2>9. StoresFit' /\ StoresShrink
    BY <1>1, <2>2, <2>4, <2>8 DEF CatalogInv, StoresFit, StoresShrink, Rows
  <2>10. ~(Lone(c) /\ change[c].sound)
    BY <1>1, <1>2 DEF CatalogInv, CallInv, SoundInv, RegisterInv
  <2>11. change'[c] = n => SyncInv(c)'
    BY <1>1, <2>7 DEF SyncInv, WithRow, Sync
  <2> QED BY <2>7, <2>9, <2>10, <2>11, CallMoveKeeps DEF WithRow
<1>5. ASSUME RowFor(u) = {}, NEW r \in Row \ Rows, NEW fresh,
             fresh = [up |-> u, status |-> "pending", dep |-> Absent, set |-> 0],
             modelRow' = [modelRow EXCEPT ![r] = fresh],
             Step(c, [change[c] EXCEPT !.pc = "create", !.at = [id |-> r, was |-> fresh]])
      PROVE  GoodStep
  <2>1. fresh \in RowOf
    BY <1>5, CatalogAssumption DEF RowOf
  <2>2. PICK k \in Memory : k = [id |-> r, was |-> fresh]
    BY <2>1 DEF Memory
  <2>3. Step(c, GoesOnWith(change[c], "create", k))
    BY <1>5, <2>2 DEF GoesOnWith
  <2>4. PICK n : MovesTo(c, n) /\ WithRow(c, n, "create", k)
    BY <1>1, <1>3, <2>3, RowMoves
  <2>5. modelRow' \in [Row -> RowOf \cup {Absent}] /\ modelRow'[r] = fresh
        /\ \A x \in Row : x # r => modelRow'[x] = modelRow[x]
    BY <1>5, <2>1 DEF CatalogInv, StoresFit
  <2>6. Rows' = Rows \cup {r}
    BY <2>1, <2>5, AbsentAssumption DEF Rows
  <2>7. fresh.dep = Absent /\ fresh.status = "pending"
    BY <1>5
  <2>8. StoresFit' /\ StoresShrink
    BY <1>1, <2>1, <2>5, <2>7 DEF CatalogInv, StoresFit, StoresShrink, Rows
  <2>9. change'[c] = n => SyncInv(c)'
    BY <1>1, <2>4 DEF SyncInv, WithRow, Sync
  <2>10. ASSUME Lone(c), change'[c] = n, change[c].sound
         PROVE  SoundInv(c)'
    <3>1. change[c].base = provider.version /\ AllAgree /\ AliasNamed /\ NamedBut({})
      BY <1>1, <2>10 DEF CatalogInv, CallInv, SoundInv, RegisterInv
    <3>2. /\ change'[c].at = k /\ change'[c].pc = "create" /\ change'[c].kind = "register"
          /\ change'[c].base = provider'.version
      BY <1>1, <2>4, <2>10, <3>1 DEF WithRow
    <3>3. \A x \in Rows : x # r /\ x \in Row /\ modelRow'[x] = modelRow[x]
      BY <2>5 DEF Rows
    <3>4. AllAgree'
      BY <1>1, <2>5, <2>6, <2>7, <3>1, <3>3 DEF AllAgree, Agrees
    <3>5. AliasNamed' /\ NamedBut({})'
      BY <1>1, <2>6, <3>1, <3>3 DEF AliasNamed, NamedBut, RowFor
    <3>6. RegisterInv(c)'
      BY <2>2, <2>5, <2>7, <3>2, <3>4, <3>5 DEF RegisterInv
    <3> QED BY <3>2, <3>6 DEF SoundInv, Sync, Removal
  <2> QED BY <2>4, <2>8, <2>9, <2>10, CallMoveKeeps DEF WithRow
<1>6. CASE modelRow' = modelRow /\ End(c, FALSE)
  <2>1. StoresUnchanged
    BY <1>1, <1>6 DEF StoresUnchanged
  <2> QED BY <1>1, <1>6, <2>1, UnchangedFits, CallFailKeeps
<1> QED BY <1>2, <1>4, <1>5, <1>6 DEF UpsertRow

\* LiteLLM makes a deployment, or the row is to be marked.
LEMMA CreateDeploymentKeeps ==
  ASSUME CatalogInv, NEW c \in Change, CreateDeployment(c)
  PROVE  GoodStep
<1>1. change[c].kind = "register" /\ change[c].pc = "create" /\ InFlight(c)
      /\ UNCHANGED <<provider, modelRow, target>>
  BY DEF CreateDeployment, InFlight
<1>2. change[c] \in CallState /\ change[c].at \in Memory
  BY <1>1 DEF CatalogInv, CallsFit, CallFits, HoldingRow
<1>3. /\ {"name", "fail"} \subseteq Stage \ {"new", "done", "upsert"}
      /\ "name" \in StagesOf(change[c].kind) /\ "fail" \in StagesOf(change[c].kind)
  BY <1>1 DEF Stage, HoldingRow, StagesOf, Sync
<1>4. ASSUME NEW d \in Deployment \ givenOut, givenOut' = givenOut \cup {d},
             deployed' = [deployed EXCEPT ![d] = [base |-> change[c].base, set |-> change[c].at.was.set]],
             Step(c, [change[c] EXCEPT !.pc = "name", !.at.was.dep = d])
      PROVE  GoodStep
  <2>1. PICK was \in RowOf, id \in Row : was = change[c].at.was /\ id = change[c].at.id
    BY <1>2 DEF Memory
  <2>2. PICK w : w = [was EXCEPT !.dep = d]
    OBVIOUS
  <2>3. w \in RowOf /\ w.dep = d /\ w.set = was.set /\ w.up = was.up /\ w.status = was.status
    BY <2>2 DEF RowOf
  <2>4. PICK k : k = [change[c].at EXCEPT !.was = w]
    OBVIOUS
  <2>5. k \in Memory /\ k.id = id /\ k.was = w
    BY <1>2, <2>1, <2>3, <2>4 DEF Memory
  <2>6. Step(c, GoesOnWith(change[c], "name", k))
    BY <1>4, <2>1, <2>2, <2>4 DEF GoesOnWith
  <2>7. PICK n : MovesTo(c, n) /\ WithRow(c, n, "name", k)
    BY <1>1, <1>3, <2>5, <2>6, RowMoves
  <2>8. PICK v \in [base: 0..MaxVersion, set: 0..MaxVersion] :
           v = [base |-> change[c].base, set |-> change[c].at.was.set]
    BY <1>2, <2>1 DEF CallState, RowOf
  <2>9. deployed' \in [Deployment -> [base: 0..MaxVersion, set: 0..MaxVersion] \cup {Absent}]
        /\ deployed'[d] = v /\ \A e \in Deployment : e # d => deployed'[e] = deployed[e]
    BY <1>4, <2>8 DEF CatalogInv, StoresFit
  <2>10. StoresFit'
    BY <1>1, <1>4, <2>9 DEF CatalogInv, StoresFit
  <2>11. d \in Deployment /\ d \notin givenOut /\ d # Absent
    BY <1>4, CatalogAssumption
  <2>12. \A r \in Rows : modelRow[r].dep # d
    BY <2>11 DEF CatalogInv, NamesInv
  <2>13. change'[c] = n /\ \A x \in Change : x # c => change'[x] = change[x]
    BY <2>7 DEF MovesTo, CatalogInv, CallsFit
  <2>14. NamesInv'
    <3>1. change'[c].at.was.dep = d
      BY <2>3, <2>5, <2>7, <2>13 DEF WithRow
    <3>2. \A e \in Deployment : deployed'[e] # Absent => e \in givenOut'
      BY <1>4, <2>9 DEF CatalogInv, NamesInv
    <3>3. Rows' = Rows /\ \A r \in Rows : modelRow'[r].dep = modelRow[r].dep
      BY <1>1 DEF Rows
    <3>4. \A r \in Rows' : modelRow'[r].dep \in givenOut' \cup {Absent}
      BY <1>4, <3>3 DEF CatalogInv, NamesInv
    <3>5. \A r, s \in Rows' : modelRow'[r].dep = modelRow'[s].dep /\ modelRow'[r].dep # Absent => r = s
      BY <3>3 DEF CatalogInv, NamesInv
    <3>6. ASSUME NEW x \in Change, x # c, change'[x].pc = "name"
          PROVE  /\ change'[x].at.was.dep \in givenOut /\ change'[x].at.was.dep # d
                 /\ \A r \in Rows : modelRow[r].dep # change'[x].at.was.dep
      BY <2>11, <2>13, <3>6 DEF CatalogInv, NamesInv
    <3>7. \A x \in Change : change'[x].pc = "name" =>
             change'[x].at.was.dep \in givenOut' /\ \A r \in Rows' : modelRow'[r].dep # change'[x].at.was.dep
      BY <1>4, <2>12, <3>1, <3>3, <3>6
    <3>8. \A x, y \in Change : change'[x].pc = "name" /\ change'[y].pc = "name"
                                /\ change'[y].at.was.dep = change'[x].at.was.dep => y = x
      BY <2>13, <3>1, <3>6 DEF CatalogInv, NamesInv
    <3> QED BY <3>2, <3>4, <3>5, <3>7, <3>8 DEF NamesInv
  <2>15. SyncInv(c)'
    BY <1>1, <2>7, <2>13 DEF SyncInv, WithRow, Sync
  <2>16. ASSUME Lone(c), change[c].sound
         PROVE  SoundInv(c)'
    <3>1. /\ change[c].base = provider.version /\ AllAgree /\ AliasNamed /\ NamedBut({})
          /\ modelRow[id] = was /\ was.dep = Absent /\ was.status = "pending"
      BY <1>1, <2>1, <2>16 DEF CatalogInv, CallInv, SoundInv, RegisterInv
    <3>2. /\ change'[c].at = k /\ change'[c].pc = "name" /\ change'[c].kind = "register"
          /\ change'[c].base = provider'.version
      BY <1>1, <2>7, <2>13, <3>1 DEF WithRow
    <3>3. [w EXCEPT !.dep = Absent] = was
      <4>1. PICK y : y = [w EXCEPT !.dep = Absent]
        OBVIOUS
      <4>2. y \in RowOf /\ y.up = w.up /\ y.status = w.status /\ y.dep = Absent /\ y.set = w.set
        BY <2>3, <4>1 DEF RowOf
      <4>3. y = was
        BY <2>1, <2>3, <3>1, <4>2, SameRow
      <4> QED BY <4>1, <4>3
    <3>4. modelRow'[change'[c].at.id] = [change'[c].at.was EXCEPT !.dep = Absent]
      BY <1>1, <2>5, <3>1, <3>2, <3>3
    <3>5. Rows' = Rows /\ modelRow' = modelRow
      BY <1>1 DEF Rows
    <3>6. AllAgree'
      <4>1. \A r \in Rows : modelRow[r].dep \in Deployment \cup {Absent}
        BY DEF CatalogInv, StoresFit, Rows, RowOf
      <4> QED BY <1>1, <2>9, <2>12, <3>1, <3>5, <4>1 DEF AllAgree, Agrees
    <3>7. AliasNamed'
      BY <1>1, <3>1, <3>5 DEF AliasNamed, RowFor
    <3>8. NamedBut({change[c].at.was.dep})'
      BY <2>3, <2>5, <2>9, <3>1, <3>2, <3>5 DEF NamedBut
    <3>9. Served(c)'
      BY <1>1, <2>1, <2>3, <2>5, <2>8, <2>9, <3>1, <3>2 DEF Served
    <3>10. RegisterInv(c)'
      BY <3>2, <3>4, <3>6, <3>7, <3>8, <3>9 DEF RegisterInv
    <3> QED BY <3>2, <3>10 DEF SoundInv, Sync, Removal
  <2> QED BY <2>7, <2>10, <2>14, <2>15, <2>16, CallMoveKeeps DEF WithRow
<1>5. CASE UNCHANGED <<deployed, givenOut>> /\ To(c, "fail")
  <2>1. PICK n : MovesTo(c, n) /\ SameBut(c, n, "fail")
    BY <1>1, <1>2, <1>3, <1>5, ToMoves
  <2>2. StoresUnchanged
    BY <1>1, <1>5 DEF StoresUnchanged
  <2>3. change'[c] = n => SyncInv(c)' /\ SoundInv(c)'
    BY <1>1, <2>1 DEF SyncInv, SoundInv, RegisterInv, SameBut, Sync, Removal
  <2> QED BY <2>1, <2>2, <2>3, UnchangedFits, CallMoveKeeps DEF SameBut
<1> QED BY <1>4, <1>5 DEF CreateDeployment

\* The row of a registered model gets the deployment that was made for it.
LEMMA NameKeeps ==
  ASSUME CatalogInv, NEW c \in Change, NameDeployment(c)
  PROVE  GoodStep
<1>1. change[c].kind = "register" /\ change[c].pc = "name" /\ InFlight(c)
      /\ UNCHANGED <<provider, deployed, givenOut, target>>
  BY DEF NameDeployment, InFlight
<1>2. PICK id \in Row, was \in RowOf : id = change[c].at.id /\ was = change[c].at.was
  BY <1>1 DEF CatalogInv, CallsFit, CallFits, HoldingRow, Memory
<1>3. CASE modelRow' = modelRow /\ End(c, FALSE)
  <2>1. StoresUnchanged
    BY <1>1, <1>3 DEF StoresUnchanged
  <2> QED BY <1>1, <1>3, <2>1, UnchangedFits, CallFailKeeps
<1>4. CASE SetState(change[c].at.id, "active", change[c].at.was.dep) /\ End(c, TRUE)
  <2>1. PICK d \in Deployment : d = was.dep
    BY <1>1, <1>2 DEF CatalogInv, NamesInv, StoresFit
  <2>2. d # Absent
    BY CatalogAssumption
  <2>3. /\ d \in givenOut /\ \A r \in Rows : modelRow[r].dep # d
        /\ \A x \in Change : change[x].pc = "name" /\ change[x].at.was.dep = d => x = c
    BY <1>1, <1>2, <2>1 DEF CatalogInv, NamesInv
  <2>4. /\ modelRow' \in [Row -> RowOf \cup {Absent}] /\ Rows' = Rows
        /\ \A r \in Row : r # id => modelRow'[r] = modelRow[r]
        /\ id \in Rows => /\ modelRow'[id].status = "active" /\ modelRow'[id].dep = d
                          /\ modelRow'[id].up = modelRow[id].up /\ modelRow'[id].set = modelRow[id].set
    <3>1. SetState(id, "active", d)
      BY <1>2, <1>4, <2>1
    <3> QED BY <2>2, <3>1, StateIsSet
  <2>5. StoresFit'
    BY <1>1, <2>4 DEF CatalogInv, StoresFit
  <2>6. change'[c].pc = "done" /\ \A x \in Change : x # c => change'[x] = change[x]
    BY <1>4 DEF End, Step, Waiting, CatalogInv, CallsFit
  <2>7. NamesInv'
    <3>1. \A r \in Rows : r # id => modelRow'[r].dep = modelRow[r].dep
      BY <2>4 DEF Rows
    <3>2. \A r \in Rows' : modelRow'[r].dep \in givenOut' \cup {Absent}
      BY <1>1, <2>3, <2>4, <3>1 DEF CatalogInv, NamesInv
    <3>3. \A r, s \in Rows' : modelRow'[r].dep = modelRow'[s].dep /\ modelRow'[r].dep # Absent => r = s
      BY <2>3, <2>4, <3>1 DEF CatalogInv, NamesInv
    <3>4. ASSUME NEW x \in Change, change'[x].pc = "name"
          PROVE  /\ change'[x] = change[x] /\ change[x].at.was.dep \in givenOut /\ change[x].at.was.dep # d
                 /\ \A r \in Rows : modelRow[r].dep # change[x].at.was.dep
      BY <2>3, <2>6, <3>4 DEF CatalogInv, NamesInv
    <3>5. \A x \in Change : change'[x].pc = "name" =>
             change'[x].at.was.dep \in givenOut' /\ \A r \in Rows' : modelRow'[r].dep # change'[x].at.was.dep
      BY <1>1, <2>4, <3>1, <3>4
    <3>6. \A x, y \in Change : change'[x].pc = "name" /\ change'[y].pc = "name"
                                /\ change'[y].at.was.dep = change'[x].at.was.dep => y = x
      BY <3>4 DEF CatalogInv, NamesInv
    <3> QED BY <1>1, <3>2, <3>3, <3>5, <3>6 DEF CatalogInv, NamesInv
  <2>8. ASSUME Lone(c), change[c].sound
        PROVE  Consistent'
    <3>1. /\ AllAgree /\ AliasNamed /\ NamedBut({d}) /\ modelRow[id] = [was EXCEPT !.dep = Absent]
          /\ deployed[d] = [base |-> provider.version, set |-> was.set]
      BY <1>1, <1>2, <2>1, <2>8 DEF CatalogInv, CallInv, SoundInv, RegisterInv, Served
    <3>2. modelRow[id] \in RowOf /\ modelRow[id].dep = Absent /\ modelRow[id].set = was.set
      BY <1>2, <3>1, CatalogAssumption DEF RowOf
    <3>3. id \in Rows
      BY <3>2, AbsentAssumption DEF Rows
    <3>4. Agrees(id)'
      <4>1. PICK i \in Row : i = id
        OBVIOUS
      <4> QED BY <1>1, <2>4, <3>1, <3>2, <3>3 DEF Agrees
    <3>5. \A r \in Rows : r # id => Agrees(r)'
      BY <1>1, <2>4, <3>1 DEF AllAgree, Agrees, Rows
    <3>6. target' # Absent => RowFor(target)' # {}
      <4>1. \A r \in Rows : modelRow'[r].up = modelRow[r].up
        BY <2>4 DEF Rows
      <4> QED BY <1>1, <2>4, <3>1, <4>1 DEF AliasNamed, RowFor
    <3>7. \A e \in Deployment : deployed'[e] # Absent => \E r \in Rows' : modelRow'[r].dep = e
      <4>1. TAKE e \in Deployment
      <4>2. CASE e = d
        BY <2>4, <3>3, <4>2
      <4>3. ASSUME e # d, deployed'[e] # Absent
            PROVE  \E r \in Rows' : modelRow'[r].dep = e
        <5>1. PICK r \in Rows : modelRow[r].dep = e
          BY <1>1, <3>1, <4>3 DEF NamedBut
        <5>2. r # id
          BY <3>2, <5>1, CatalogAssumption
        <5> QED BY <2>4, <5>1, <5>2 DEF Rows
      <4> QED BY <4>2, <4>3
    <3> QED BY <2>4, <3>4, <3>5, <3>6, <3>7 DEF Consistent
  <2> QED BY <1>1, <1>4, <2>5, <2>7, <2>8, CallEndKeeps DEF Sync
<1> QED BY <1>3, <1>4 DEF NameDeployment

-----------------------------------------------------------------------------
(* The deletion of a model or of the provider, and the alias.               *)

\* A call that removes holds its row, and its stages follow.
LEMMA RemovalStage ==
  ASSUME CatalogInv, NEW c \in Change, change[c].pc \in {"remove", "unalias", "drop"}
  PROVE  /\ InFlight(c) /\ change[c].kind \in Removal /\ change[c].kind \notin Sync
         /\ change[c].pc # "drop" \/ change[c].kind = "delete" => change[c].at \in Memory
         /\ \A pc \in {"remove", "unalias", "drop"} :
               pc \in Stage \ {"new", "done", "upsert"} /\ pc \in StagesOf(change[c].kind)
<1>1. CallFits(change[c]) /\ change[c] \in CallState
  BY DEF CatalogInv, CallsFit
<1>2. change[c].kind \in Removal
  BY <1>1 DEF CallFits, StagesOf, CallState, Sync
<1> QED BY <1>1, <1>2 DEF CallFits, StagesOf, Stage, HoldingRow, Sync, Removal, InFlight

\* The deployment of a row that is deleted is removed.
LEMMA RemoveDeploymentKeeps ==
  ASSUME CatalogInv, NEW c \in Change, RemoveDeployment(c)
  PROVE  GoodStep
<1> DEFINE d == change[c].at.was.dep
<1>1. change[c].pc = "remove" /\ UNCHANGED <<provider, modelRow, givenOut, target>>
  BY DEF RemoveDeployment
<1>2. \/ d = Absent /\ deployed' = deployed /\ To(c, "unalias")
      \/ d # Absent /\ deployed' = [deployed EXCEPT ![d] = Absent] /\ To(c, "unalias")
      \/ deployed' = deployed /\ End(c, FALSE)
  BY DEF RemoveDeployment
<1>3. /\ InFlight(c) /\ change[c].kind \in Removal /\ change[c].kind \notin Sync /\ change[c].at \in Memory
      /\ "unalias" \in Stage \ {"new", "done", "upsert"} /\ "unalias" \in StagesOf(change[c].kind)
  BY <1>1, RemovalStage
<1>4. CASE deployed' = deployed /\ End(c, FALSE)
  <2>1. StoresUnchanged
    BY <1>1, <1>4 DEF StoresUnchanged
  <2> QED BY <1>3, <1>4, <2>1, UnchangedFits, CallFailKeeps
<1>5. CASE /\ (d = Absent /\ deployed' = deployed) \/ (d # Absent /\ deployed' = [deployed EXCEPT ![d] = Absent])
           /\ To(c, "unalias")
  <2>1. PICK n : MovesTo(c, n) /\ SameBut(c, n, "unalias")
    BY <1>3, <1>5, ToMoves
  <2>2. d \in Deployment \cup {Absent}
    BY <1>3 DEF Memory, RowOf
  <2>3. /\ deployed' \in [Deployment -> [base: 0..MaxVersion, set: 0..MaxVersion] \cup {Absent}]
        /\ \A e \in Deployment : deployed'[e] = IF e = d THEN Absent ELSE deployed[e]
    BY <1>5, <2>2, CatalogAssumption DEF CatalogInv, StoresFit
  <2>4. StoresFit' /\ StoresShrink
    BY <1>1, <2>3 DEF CatalogInv, StoresFit, StoresShrink
  <2>5. change'[c] = n => SyncInv(c)'
    BY <1>3, <2>1 DEF SyncInv, SameBut
  <2>6. ASSUME Lone(c), change'[c] = n, change[c].sound
        PROVE  SoundInv(c)'
    <3>1. DeleteInv(c)
      BY <1>3, <2>6 DEF CatalogInv, CallInv, SoundInv
    <3>2. /\ change'[c].at = change[c].at /\ change'[c].pc = "unalias" /\ change'[c].kind = change[c].kind
          /\ change'[c].todo = change[c].todo
      BY <2>1, <2>6 DEF SameBut
    <3>3. HeldByCall(c)' = HeldByCall(c) /\ Rows' = Rows /\ modelRow' = modelRow /\ target' = target
      BY <1>1, <3>2 DEF HeldByCall, Rows
    <3>4. AsRead(c)' /\ AliasNamed' /\ NamedBut({})'
      BY <2>3, <3>1, <3>3 DEF DeleteInv, AsRead, AliasNamed, NamedBut, RowFor
    <3>5. modelRow[change[c].at.id].dep = d /\ change[c].at.id \in Rows
      BY <1>3, <3>1, HeldRow DEF DeleteInv
    <3>6. Removed(change[c].at.id)'
      BY <2>2, <2>3, <3>2, <3>3, <3>5 DEF Removed
    <3>7. \A r \in Rows : modelRow[r].dep \in Deployment \cup {Absent}
      BY DEF CatalogInv, StoresFit, Rows, RowOf
    <3>8. \A r \in Rows : r # change[c].at.id /\ Agrees(r) => Agrees(r)'
      <4>1. \A r \in Rows : modelRow[r].dep = d /\ d # Absent => r = change[c].at.id
        BY <3>5 DEF CatalogInv, NamesInv
      <4> QED BY <1>1, <2>3, <3>7, <4>1 DEF Agrees
    <3>9. change[c].kind = "delete" => OthersAgree(c)'
      BY <3>1, <3>2, <3>3, <3>8 DEF DeleteInv, OthersAgree
    <3>10. \A r \in Rows : Retired(r) => Retired(r)'
      BY <2>3, <3>3, <3>7 DEF Retired, Removed
    <3>11. change[c].kind = "deleteProvider" => \A r \in Rows' : r \in RowsInHand(c)' \/ Retired(r)'
      BY <1>1, <3>1, <3>3, <3>10 DEF DeleteInv, RowsInHand
    <3>12. DeleteInv(c)'
      BY <3>1, <3>2, <3>4, <3>6, <3>9, <3>11 DEF DeleteInv
    <3> QED BY <1>3, <3>2, <3>12 DEF SoundInv, Sync, Removal
  <2> QED BY <2>1, <2>4, <2>5, <2>6, CallMoveKeeps DEF SameBut
<1> QED BY <1>2, <1>4, <1>5

\* A removal that has come to its last write.
LEMMA DropMoves ==
  ASSUME CatalogInv, NEW c \in Change, change[c].pc = "unalias", NEW ok \in BOOLEAN,
         Step(c, [Soiled(c, ok) EXCEPT !.pc = "drop"])
  PROVE  \E n : MovesTo(c, n) /\ SameBut(c, n, "drop") /\ (n.clean => ok)
<1>1. /\ InFlight(c) /\ change[c].at \in Memory
      /\ "drop" \in Stage \ {"new", "done", "upsert"} /\ "drop" \in StagesOf(change[c].kind)
  BY RemovalStage
<1>2. change[c] \in CallState
  BY DEF CatalogInv, CallsFit
<1>3. PICK h \in BOOLEAN : h = (change[c].clean /\ ok)
  OBVIOUS
<1>4. PICK x : x = Soiled(c, ok)
  OBVIOUS
<1>5. /\ x \in CallState /\ x.todo = change[c].todo /\ x.kind = change[c].kind /\ x.base = change[c].base
      /\ x.up = change[c].up /\ x.at = change[c].at /\ x.sound = change[c].sound /\ x.clean = h
  <2>1. x = [change[c] EXCEPT !.clean = h]
    BY <1>3, <1>4 DEF Soiled
  <2> QED BY <1>2, <2>1 DEF CallState
<1>6. PICK n : n = [x EXCEPT !.pc = "drop"]
  OBVIOUS
<1>7. n \in CallState /\ SameBut(c, n, "drop") /\ n.clean = h
  BY <1>1, <1>5, <1>6 DEF CallState, SameBut
<1>8. CallFits(n)
  BY <1>1, <1>7 DEF CallFits, SameBut
<1>9. change' = [change EXCEPT ![c] = n]
  BY <1>4, <1>6 DEF Step
<1>10. MovesTo(c, n)
  BY <1>1, <1>3, <1>7, <1>8, <1>9 DEF MovesTo, SameBut
<1> QED BY <1>3, <1>7, <1>10

\* When the aliases of a model are gone the next row follows, or the last
\* write.
LEMMA UnaliasKeeps ==
  ASSUME CatalogInv, NEW c \in Change, RemoveAliases(c)
  PROVE  GoodStep
<1> DEFINE up == change[c].at.was.up
           last(ok) == change[c].todo = {} /\ Step(c, [Soiled(c, ok) EXCEPT !.pc = "drop"])
           next(ok, m) == Step(c, [Soiled(c, ok) EXCEPT !.pc = "remove", !.at = m, !.todo = @ \ {m}])
<1>1. change[c].pc = "unalias" /\ UNCHANGED <<provider, modelRow, deployed, givenOut>>
  BY DEF RemoveAliases
<1>2. \/ /\ target' = (IF target = up THEN Absent ELSE target)
         /\ last(TRUE) \/ \E m \in change[c].todo : next(TRUE, m)
      \/ target' = target /\ (last(FALSE) \/ \E m \in change[c].todo : next(FALSE, m))
  BY DEF RemoveAliases
<1>3. /\ InFlight(c) /\ change[c].kind \in Removal /\ change[c].kind \notin Sync /\ change[c].at \in Memory
      /\ "remove" \in StagesOf(change[c].kind) /\ change[c].at.id \in Row /\ up \in Upstream
  BY <1>1, RemovalStage DEF Memory, RowOf
<1>4. StoresFit' /\ StoresShrink
  BY <1>1, <1>2 DEF CatalogInv, StoresFit, StoresShrink, Rows
<1>5. CASE target' = target /\ last(FALSE)
  <2>1. PICK n : MovesTo(c, n) /\ SameBut(c, n, "drop") /\ ~n.clean
    BY <1>1, <1>5, DropMoves
  <2> QED BY <1>4, <2>1, CallMoveKeeps DEF SameBut
<1>6. ASSUME target' = target, NEW m \in change[c].todo, next(FALSE, m)
      PROVE  GoodStep
  <2>1. PICK n : MovesTo(c, n) /\ NextAs(c, n, "remove", m) /\ ~n.clean
    BY <1>3, <1>6, NextRowMoves
  <2> QED BY <1>4, <2>1, CallMoveKeeps DEF NextAs
<1>7. ASSUME target' = (IF target = up THEN Absent ELSE target), Lone(c), change[c].sound
      PROVE  /\ DeleteInv(c) /\ AliasNamed' /\ NamedBut({})' /\ Rows' = Rows /\ change[c].at.id \in Rows
             /\ \A r \in Rows : (Agrees(r) => Agrees(r)') /\ (Retired(r) => Retired(r)')
             /\ Removed(change[c].at.id) /\ modelRow[change[c].at.id].up = up /\ target' # up
  <2>1. DeleteInv(c)
    BY <1>3, <1>7 DEF CatalogInv, CallInv, SoundInv
  <2>2. Rows' = Rows
    BY <1>1 DEF Rows
  <2>3. AliasNamed' /\ NamedBut({})'
    BY <1>1, <1>7, <2>1, <2>2 DEF DeleteInv, AliasNamed, NamedBut, RowFor
  <2>4. \A r \in Rows : Agrees(r) => Agrees(r)'
    BY <1>1 DEF Agrees
  <2>5. \A r \in Rows : Retired(r) => Retired(r)'
    <3>1. \A r \in Rows : modelRow[r].up # Absent
      BY CatalogAssumption DEF CatalogInv, StoresFit, Rows, RowOf
    <3> QED BY <1>1, <1>7, <3>1 DEF Retired, Removed
  <2>6. Removed(change[c].at.id)
    BY <1>1, <1>3, <2>1 DEF DeleteInv, Removal
  <2>7. change[c].at.id \in Rows /\ modelRow[change[c].at.id].up = up
    BY <1>3, <2>1, HeldRow DEF DeleteInv
  <2>8. target' # up
    BY <1>3, <1>7, CatalogAssumption
  <2> QED BY <2>1, <2>2, <2>3, <2>4, <2>5, <2>6, <2>7, <2>8
<1>8. CASE target' = (IF target = up THEN Absent ELSE target) /\ last(TRUE)
  <2>1. PICK n : MovesTo(c, n) /\ SameBut(c, n, "drop")
    BY <1>1, <1>8, DropMoves
  <2>2. change'[c] = n => SyncInv(c)'
    BY <1>3, <2>1 DEF SyncInv, SameBut
  <2>3. ASSUME Lone(c), change'[c] = n, change[c].sound
        PROVE  SoundInv(c)'
    <3>1. /\ DeleteInv(c) /\ AliasNamed' /\ NamedBut({})' /\ Rows' = Rows /\ change[c].at.id \in Rows
          /\ \A r \in Rows : (Agrees(r) => Agrees(r)') /\ (Retired(r) => Retired(r)')
          /\ Removed(change[c].at.id) /\ modelRow[change[c].at.id].up = up /\ target' # up
      BY <1>7, <1>8, <2>3
    <3>2. /\ change'[c].at = change[c].at /\ change'[c].pc = "drop" /\ change'[c].kind = change[c].kind
          /\ change'[c].todo = {}
      BY <1>8, <2>1, <2>3 DEF SameBut
    <3>3. HeldByCall(c)' = HeldByCall(c) /\ RowsInHand(c) = {change[c].at.id}
      BY <1>3, <1>8, <3>2 DEF HeldByCall, RowsInHand
    <3>4. AsRead(c)'
      BY <1>1, <3>1, <3>3 DEF DeleteInv, AsRead
    <3>5. Removed(change[c].at.id)' /\ (target # change[c].at.was.up)'
      BY <1>1, <3>1, <3>2 DEF Removed
    <3>6. change[c].kind = "delete" => OthersAgree(c)'
      BY <3>1, <3>2 DEF DeleteInv, OthersAgree
    <3>7. change[c].kind = "deleteProvider" => \A r \in Rows' : Retired(r)'
      <4>1. \A r \in Rows : r = change[c].at.id => Retired(r)'
        BY <1>1, <3>1 DEF Retired, Removed
      <4> QED BY <3>1, <3>3, <4>1 DEF DeleteInv
    <3>8. DeleteInv(c)'
      BY <3>1, <3>2, <3>4, <3>5, <3>6, <3>7 DEF DeleteInv
    <3> QED BY <1>3, <3>2, <3>8 DEF SoundInv, Sync, Removal
  <2> QED BY <1>4, <2>1, <2>2, <2>3, CallMoveKeeps DEF SameBut
<1>9. ASSUME target' = (IF target = up THEN Absent ELSE target), NEW m \in change[c].todo, next(TRUE, m)
      PROVE  GoodStep
  <2>1. PICK n : MovesTo(c, n) /\ NextAs(c, n, "remove", m)
    BY <1>3, <1>9, NextRowMoves
  <2>2. change'[c] = n => SyncInv(c)'
    BY <1>3, <2>1 DEF SyncInv, NextAs
  <2>3. ASSUME Lone(c), change'[c] = n, change[c].sound
        PROVE  SoundInv(c)'
    <3>1. /\ DeleteInv(c) /\ AliasNamed' /\ NamedBut({})' /\ Rows' = Rows /\ change[c].at.id \in Rows
          /\ \A r \in Rows : (Agrees(r) => Agrees(r)') /\ (Retired(r) => Retired(r)')
          /\ Removed(change[c].at.id) /\ modelRow[change[c].at.id].up = up /\ target' # up
      BY <1>7, <1>9, <2>3
    <3>2. /\ change'[c].at = m /\ change'[c].pc = "remove" /\ change'[c].kind = change[c].kind
          /\ change'[c].todo = change[c].todo \ {m}
      BY <2>1, <2>3 DEF NextAs
    <3>3. change[c].kind = "deleteProvider"
      BY <1>3, <1>9, <3>1 DEF DeleteInv, Removal
    <3>4. \A h \in Memory : h \in HeldByCall(c)' <=> h \in change[c].todo
      BY <1>9, <3>2 DEF HeldByCall
    <3>5. AsRead(c)'
      BY <1>1, <3>1, <3>4 DEF DeleteInv, AsRead, HeldByCall
    <3>6. \A r \in Rows' : r \in RowsInHand(c)' \/ Retired(r)'
      <4>1. \A r \in Rows : r = change[c].at.id => Retired(r)'
        BY <1>1, <3>1 DEF Retired, Removed
      <4>2. \A r \in RowsInHand(c) : r = change[c].at.id \/ r \in RowsInHand(c)'
        BY <3>4 DEF RowsInHand, HeldByCall
      <4>3. \A r \in Rows : r \in RowsInHand(c) \/ Retired(r)
        BY <3>1, <3>3 DEF DeleteInv
      <4> QED BY <3>1, <4>1, <4>2, <4>3
    <3>7. DeleteInv(c)'
      BY <3>1, <3>2, <3>3, <3>5, <3>6 DEF DeleteInv
    <3> QED BY <1>3, <3>2, <3>7 DEF SoundInv, Sync, Removal
  <2> QED BY <1>4, <2>1, <2>2, <2>3, CallMoveKeeps DEF NextAs
<1> QED BY <1>2, <1>5, <1>6, <1>8, <1>9

\* The last write of a deletion: no alias and no deployment is left that
\* needs the rows that go.
LEMMA DropKeeps ==
  ASSUME CatalogInv, NEW c \in Change, DropRows(c)
  PROVE  GoodStep
<1> DEFINE id == change[c].at.id
           gone == IF change[c].kind = "delete" THEN {id} ELSE Row
<1>1. change[c].pc = "drop" /\ UNCHANGED <<deployed, givenOut, target>>
  BY DEF DropRows
<1>2. InFlight(c) /\ change[c].kind \in Removal /\ change[c].kind \notin Sync
      /\ (change[c].kind = "delete" => change[c].at \in Memory)
  BY <1>1, RemovalStage
<1>3. CASE UNCHANGED <<modelRow, provider>> /\ End(c, FALSE)
  <2>1. StoresUnchanged
    BY <1>1, <1>3 DEF StoresUnchanged
  <2> QED BY <1>2, <1>3, <2>1, UnchangedFits, CallFailKeeps
<1>4. CASE /\ modelRow' = [r \in Row |-> IF r \in gone THEN Absent ELSE modelRow[r]]
           /\ provider' = [provider EXCEPT !.there = @ /\ change[c].kind = "delete"]
           /\ End(c, TRUE)
  <2>1. provider' \in [there: BOOLEAN, version: 0..MaxVersion] /\ provider'.version = provider.version
    <3>1. PICK b \in BOOLEAN : b = (provider.there /\ change[c].kind = "delete")
      OBVIOUS
    <3>2. provider' = [provider EXCEPT !.there = b]
      BY <1>4, <3>1
    <3> QED BY <3>2 DEF CatalogInv, StoresFit
  <2>2. \A r \in Row : modelRow'[r] = IF r \in gone THEN Absent ELSE modelRow[r]
    BY <1>4
  <2>3. StoresFit' /\ StoresShrink
    BY <1>1, <1>4, <2>1, <2>2 DEF CatalogInv, StoresFit, StoresShrink
  <2>4. Rows' = Rows \ gone /\ \A r \in Rows' : modelRow'[r] = modelRow[r]
    BY <2>2 DEF Rows
  <2>5. ASSUME Lone(c), change[c].sound
        PROVE  Consistent'
    <3>1. /\ AsRead(c) /\ AliasNamed /\ NamedBut({})
          /\ change[c].kind = "delete" => OthersAgree(c) /\ Removed(id) /\ target # change[c].at.was.up
          /\ change[c].kind = "deleteProvider" => \A r \in Rows : Retired(r)
      BY <1>1, <1>2, <2>5 DEF CatalogInv, CallInv, SoundInv, DeleteInv
    <3>2. CASE change[c].kind = "delete"
      <4>1. id \in Rows /\ modelRow[id] = change[c].at.was
        BY <1>2, <3>1, <3>2, HeldRow
      <4>2. gone = {id}
        BY <3>2
      <4>3. \A r \in Rows' : Agrees(r)'
        BY <1>1, <2>1, <2>4, <3>1, <3>2, <4>2 DEF OthersAgree, Agrees
      <4>4. target' # Absent => RowFor(target)' # {}
        BY <1>1, <2>4, <3>1, <3>2, <4>1, <4>2 DEF AliasNamed, RowFor
      <4>5. \A d \in Deployment : deployed'[d] # Absent => \E r \in Rows' : modelRow'[r].dep = d
        <5>1. TAKE d \in Deployment
        <5>2. SUFFICES ASSUME deployed[d] # Absent
                       PROVE  \E r \in Rows' : modelRow'[r].dep = d
          BY <1>1
        <5>3. PICK r \in Rows : modelRow[r].dep = d
          BY <3>1, <5>2 DEF NamedBut
        <5>4. r # id
          BY <3>1, <3>2, <5>2, <5>3, CatalogAssumption DEF Removed
        <5> QED BY <2>4, <4>2, <5>3, <5>4
      <4> QED BY <4>3, <4>4, <4>5 DEF Consistent
    <3>3. CASE change[c].kind = "deleteProvider"
      <4>1. Rows' = {}
        BY <2>4, <3>3 DEF Rows
      <4>2. target' = Absent
        BY <1>1, <3>1, <3>3 DEF AliasNamed, Retired, RowFor
      <4>3. \A d \in Deployment : deployed'[d] = Absent
        BY <1>1, <3>1, <3>3, CatalogAssumption DEF NamedBut, Retired, Removed
      <4> QED BY <4>1, <4>2, <4>3 DEF Consistent
    <3> QED BY <1>2, <3>2, <3>3 DEF Removal
  <2> QED BY <1>2, <1>4, <2>3, <2>5, CallEndKeeps
<1> QED BY <1>3, <1>4 DEF DropRows

\* An alias that a lone call sets names a row that is there.
LEMMA AliasKeeps ==
  ASSUME CatalogInv, NEW c \in Change, WriteAlias(c)
  PROVE  GoodStep
<1>1. /\ change[c].pc = "alias" /\ InFlight(c) /\ End(c, TRUE) /\ target' = change[c].up
      /\ UNCHANGED <<provider, modelRow, deployed, givenOut>>
  BY DEF WriteAlias, InFlight
<1>2. change[c].kind = "alias" /\ change[c].up \in Upstream \cup {Absent}
  BY <1>1 DEF CatalogInv, CallsFit, CallFits, StagesOf, CallState
<1>3. StoresFit' /\ StoresShrink
  BY <1>1, <1>2 DEF CatalogInv, StoresFit, StoresShrink
<1>4. Lone(c) /\ change[c].sound => Consistent'
  <2>1. Lone(c) /\ change[c].sound => Consistent /\ RowFor(change[c].up) # {}
    BY <1>2 DEF CatalogInv, CallInv, SoundInv
  <2> QED BY <1>1, <2>1 DEF Consistent, Agrees, RowFor, Rows
<1> QED BY <1>1, <1>2, <1>3, <1>4, CallEndKeeps DEF Sync

-----------------------------------------------------------------------------

\* Every step keeps the invariant and does what the properties ask.
LEMMA CatalogStep ==
  CatalogInv /\ [CatalogNext]_catalogVars => CatalogInv' /\ (SyncSettles /\ LoneCallKeepsCatalog)
<1> SUFFICES ASSUME CatalogInv, [CatalogNext]_catalogVars
             PROVE  GoodStep
  BY DEF GoodStep
<1>1. CASE CatalogNext
  <2>1. PICK c \in Change :
        \/ SaveProvider(c) \/ TestFails(c) \/ Restart(c) \/ ListForSync(c)
        \/ Push(c) \/ MarkActive(c) \/ MarkFailed(c)
        \/ BeginUpdate(c) \/ WriteSettings(c) \/ ReadProvider(c)
        \/ BeginRegister(c) \/ UpsertRow(c) \/ CreateDeployment(c) \/ NameDeployment(c)
        \/ BeginDelete(c) \/ RemoveDeployment(c) \/ RemoveAliases(c) \/ DropRows(c)
        \/ BeginAlias(c) \/ WriteAlias(c)
    BY <1>1 DEF CatalogNext
  <2>2. CASE SaveProvider(c) \/ TestFails(c) \/ Restart(c) \/ ListForSync(c)
             \/ Push(c) \/ MarkActive(c) \/ MarkFailed(c)
    BY <2>2, SaveKeeps, TestFailsKeeps, RestartKeeps, ListForSyncKeeps, PushKeeps, MarkActiveKeeps,
       MarkFailedKeeps
  <2>3. CASE BeginUpdate(c) \/ WriteSettings(c) \/ ReadProvider(c)
             \/ BeginRegister(c) \/ UpsertRow(c) \/ CreateDeployment(c) \/ NameDeployment(c)
    BY <2>3, BeginUpdateKeeps, WriteSettingsKeeps, ReadProviderKeeps, BeginRegisterKeeps, UpsertKeeps,
       CreateDeploymentKeeps, NameKeeps
  <2>4. CASE BeginDelete(c) \/ RemoveDeployment(c) \/ RemoveAliases(c) \/ DropRows(c)
             \/ BeginAlias(c) \/ WriteAlias(c)
    BY <2>4, BeginDeleteKeeps, RemoveDeploymentKeeps, UnaliasKeeps, DropKeeps, BeginAliasKeeps, AliasKeeps
  <2> QED BY <2>1, <2>2, <2>3, <2>4
<1>2. CASE UNCHANGED catalogVars
  <2>1. StoresFit' /\ CallsFit' /\ NamesInv' /\ LoneInv'
    BY <1>2 DEF catalogVars, CatalogInv, StoresFit, CallsFit, NamesInv, LoneInv, Lone, InFlight, Rows
  <2>2. ASSUME NEW c \in Change
        PROVE  CallInv(c)'
    <3>1. CallInv(c)
      BY DEF CatalogInv
    <3>2. UNCHANGED <<provider, modelRow, deployed, givenOut, target, change>>
      BY <1>2 DEF catalogVars
    <3>3. Consistent' = Consistent /\ Rows' = Rows /\ Lone(c)' = Lone(c)
      BY <3>2 DEF Consistent, Agrees, Rows, RowFor, Lone, InFlight
    <3>4. AllAgree' = AllAgree /\ AliasNamed' = AliasNamed /\ AsRead(c)' = AsRead(c)
          /\ OthersAgree(c)' = OthersAgree(c) /\ RowsInHand(c)' = RowsInHand(c)
      BY <3>2 DEF AllAgree, AliasNamed, AsRead, OthersAgree, HeldByCall, RowsInHand, Agrees, Rows, RowFor
    <3>5. SyncInv(c)' = SyncInv(c)
      BY <3>2 DEF SyncInv, AsRead, HeldByCall, RowsInHand, Agrees, Rows
    <3>6. UpdateInv(c)' = UpdateInv(c)
      BY <3>2, <3>4 DEF UpdateInv, NamedBut, Served, Rows
    <3>7. RegisterInv(c)' = RegisterInv(c)
      BY <3>2, <3>4 DEF RegisterInv, NamedBut, Served, Rows, RowFor
    <3>8. DeleteInv(c)' = DeleteInv(c)
      BY <3>2, <3>4 DEF DeleteInv, NamedBut, Removed, Retired, Rows
    <3>9. SoundInv(c)' = SoundInv(c)
      BY <3>2, <3>3, <3>4, <3>6, <3>7, <3>8 DEF SoundInv, NamedBut, RowFor, Rows
    <3> QED BY <3>1, <3>2, <3>3, <3>5, <3>9 DEF CallInv
  <2>3. SyncSettles /\ LoneCallKeepsCatalog
    BY <1>2 DEF catalogVars, SyncSettles, LoneCallKeepsCatalog, Finishes
  <2> QED BY <2>1, <2>2, <2>3 DEF GoodStep, CatalogInv
<1> QED BY <1>1, <1>2

\* At first no call is made, and every row names a deployment of its own.
LEMMA CatalogStart == CatalogInit => CatalogInv
<1> SUFFICES ASSUME CatalogInit
             PROVE  CatalogInv
  OBVIOUS
<1>1. provider = [there |-> TRUE, version |-> 0] /\ target = Absent /\ change = [c \in Change |-> Waiting]
  BY DEF CatalogInit
<1>2. PICK home \in [Upstream -> Row \cup {Absent}], gives \in [Upstream -> Deployment] :
          /\ \A u, v \in Upstream : u # v => gives[u] # gives[v]
          /\ modelRow = [r \in Row |->
                IF \E u \in Upstream : home[u] = r
                THEN LET u == CHOOSE v \in Upstream : home[v] = r IN
                     [up |-> u, status |-> "active", dep |-> gives[u], set |-> 0]
                ELSE Absent]
          /\ givenOut = {gives[u] : u \in {v \in Upstream : home[v] # Absent}}
          /\ deployed = [d \in Deployment |-> IF d \in givenOut THEN [base |-> 0, set |-> 0]
                                                            ELSE Absent]
  BY DEF CatalogInit
<1> DEFINE first(r) == CHOOSE v \in Upstream : home[v] = r
           row(u) == [up |-> u, status |-> "active", dep |-> gives[u], set |-> 0]
<1>3. 0 \in 0..MaxVersion
  BY CatalogAssumption
<1>4. \A r \in Row : IF \E u \in Upstream : home[u] = r
                     THEN /\ first(r) \in Upstream /\ home[first(r)] = r
                          /\ modelRow[r] = row(first(r))
                     ELSE modelRow[r] = Absent
  BY <1>2
<1> HIDE DEF first
<1>5. \A u \in Upstream : row(u) \in RowOf /\ row(u).up = u /\ row(u).dep = gives[u]
  BY <1>3 DEF RowOf
<1> HIDE DEF row
<1>6. StoresFit
  <2>1. modelRow \in [Row -> RowOf \cup {Absent}]
    <3>1. \A r \in Row : modelRow[r] \in RowOf \cup {Absent}
      BY <1>4, <1>5
    <3>2. \E f : modelRow = [r \in Row |-> f[r]]
      <4>1. modelRow = [r \in Row |-> modelRow[r]]
        BY <1>2
      <4> QED BY <4>1
    <3> QED BY <3>1, <3>2
  <2>2. givenOut \subseteq Deployment
    BY <1>2
  <2>3. deployed \in [Deployment -> [base: 0..MaxVersion, set: 0..MaxVersion] \cup {Absent}]
    BY <1>2, <1>3
  <2> QED BY <1>1, <1>3, <2>1, <2>2, <2>3 DEF StoresFit
<1>7. \A r \in Rows : first(r) \in Upstream /\ home[first(r)] = r /\ modelRow[r].dep = gives[first(r)]
                      /\ modelRow[r].dep \in givenOut
  <2> TAKE r \in Rows
  <2>1. r \in Row /\ r # Absent /\ modelRow[r] # Absent
    BY CatalogAssumption DEF Rows
  <2>2. first(r) \in Upstream /\ home[first(r)] = r /\ modelRow[r] = row(first(r))
    BY <1>4, <2>1
  <2> QED BY <1>2, <1>5, <2>1, <2>2
<1>8. \A c \in Change : change[c] = Waiting
  BY <1>1
<1>9. Waiting.pc = "new" /\ Waiting.kind = "none"
  BY DEF Waiting
<1>10. NamesInv
  <2>1. \A d \in Deployment : deployed[d] # Absent => d \in givenOut
    BY <1>2
  <2>2. \A r, s \in Rows : modelRow[r].dep = modelRow[s].dep /\ modelRow[r].dep # Absent => r = s
    <3>1. \A u, v \in Upstream : gives[u] = gives[v] => u = v
      BY <1>2
    <3> QED BY <1>7, <3>1
  <2> QED BY <1>7, <1>8, <1>9, <2>1, <2>2 DEF NamesInv
<1>11. CallsFit
  <2>1. CallFits(Waiting)
    BY <1>9, WaitingFits DEF CallFits, StagesOf, HoldingRow, Sync, Removal
  <2> QED BY <1>1, <1>8, <2>1, WaitingFits DEF CallsFit
<1>12. \A c \in Change : ~InFlight(c)
  BY <1>8, <1>9 DEF InFlight
<1> QED BY <1>6, <1>10, <1>11, <1>12 DEF CatalogInv, LoneInv, CallInv, Lone

\* The stores and the calls are what the program keeps.
LEMMA CatalogInvTyped == CatalogInv => CatalogTypeOK
  BY DEF CatalogInv, StoresFit, CallsFit, CallState, CatalogTypeOK

\* In every behaviour the rows, the deployments, the alias and what the calls
\* remember are of their types.
THEOREM CatalogTypeCorrect == CatalogSpec => []CatalogTypeOK
  BY CatalogStart, CatalogStep, CatalogInvTyped, PTL DEF CatalogSpec

\* The catalogue and LiteLLM agree whenever a synchronisation that ran alone
\* reports success, and a lone call in which nothing fails keeps them so
\* (adminSaveModelProvider and the other handlers of model_providers.go).
THEOREM StoresAlwaysAgree == CatalogSpec => StoresAgree
<1>1. CatalogSpec => [][CatalogInv' /\ (SyncSettles /\ LoneCallKeepsCatalog)]_catalogVars
  BY CatalogStart, CatalogStep, PTL DEF CatalogSpec
<1> QED BY <1>1, PTL DEF StoresAgree

=============================================================================
