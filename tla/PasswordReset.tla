--------------------------- MODULE PasswordReset ---------------------------
(***************************************************************************)
(* The reset of a password by mail (cmd/api/gmail.go,                      *)
(* internal/store/auth_integration.go), for one address.                   *)
(*                                                                         *)
(* A request that the counter lets pass looks the user up in Keycloak and  *)
(* stores a token; a confirmation consumes the token in one statement,     *)
(* sets the password in Keycloak and ends the sessions of the user.  Every *)
(* call to Keycloak may fail, or be carried out and its answer lost.       *)
(***************************************************************************)
EXTENDS WindowCounter, FiniteSets

CONSTANTS
  Token,
  Confirm,    \* handlers of passwordResetConfirm
  MaxLookup,  \* ticks between the counter and the token: two timeouts of a.http, 15 s each;
              \* the window and the life of a token are 15 minutes
  Nobody

ASSUME ResetAssumption ==
  IsFiniteSet(Token) /\ IsFiniteSet(Confirm) /\ MaxLookup \in 0..Window /\ Nobody \notin Token

VARIABLES
  passedAt,     \* per request under way: when the counter let it pass
  made,         \* password_reset_tokens: when a token was made; 0: never
  usedToken,    \* used_at is set
  confirming,   \* per confirmation: "idle", "putting" or "signing out"
  holding,      \* per confirmation: its token
  current, old, \* Keycloak: there are sessions under the password, under earlier ones
  sets,         \* history: how often a token has set the password
  signoutLost   \* history: a session outlived its password

resetVars == <<counterVars, passedAt, made, usedToken, confirming, holding, current, old, sets, signoutLost>>
tokens == <<made, usedToken>>
keycloak == <<current, old, sets, signoutLost>>

ResetTypeOK ==
  /\ CounterTypeOK
  /\ passedAt \in [Call -> Nat] /\ made \in [Token -> Nat] /\ usedToken \in [Token -> BOOLEAN]
  /\ confirming \in [Confirm -> {"idle", "putting", "signing out"}]
  /\ holding \in [Confirm -> Token \cup {Nobody}]
  /\ current \in BOOLEAN /\ old \in BOOLEAN
  /\ sets \in [Token -> Nat] /\ signoutLost \in BOOLEAN

ResetInit ==
  /\ CounterInit
  /\ passedAt = [c \in Call |-> 0] /\ made = [t \in Token |-> 0] /\ usedToken = [t \in Token |-> FALSE]
  /\ confirming = [h \in Confirm |-> "idle"] /\ holding = [h \in Confirm |-> Nobody]
  /\ current = FALSE /\ old = FALSE /\ sets = [t \in Token |-> 0] /\ signoutLost = FALSE

AskReset(c) ==
  /\ CountCall(c)
  /\ passedAt' = [passedAt EXCEPT ![c] = IF pace'[c] = "ready" THEN 0 ELSE clock]
  /\ UNCHANGED <<tokens, confirming, holding, keycloak>>

ExpireReset(c) ==
  /\ ExpireKey(c)
  /\ UNCHANGED <<passedAt, tokens, confirming, holding, keycloak>>

\* Nobody or more than one user has the address, a call fails, or a fresh token
\* is stored and mailed.  All are answered alike.
MakeToken(c) ==
  /\ AnswerCall(c)
  /\ \/ UNCHANGED made
     \/ \E t \in Token : made[t] = 0 /\ made' = [made EXCEPT ![t] = clock + 1]
  /\ passedAt' = [passedAt EXCEPT ![c] = 0]
  /\ UNCHANGED <<usedToken, confirming, holding, keycloak>>

\* ConsumePasswordResetToken: one UPDATE of a token that is neither.
Consumable(t) == made[t] > 0 /\ ~usedToken[t] /\ clock + 1 < made[t] + Window

ConsumeToken(h, t) ==
  /\ confirming[h] = "idle" /\ Consumable(t)
  /\ usedToken' = [usedToken EXCEPT ![t] = TRUE]
  /\ confirming' = [confirming EXCEPT ![h] = "putting"]
  /\ holding' = [holding EXCEPT ![h] = t]
  /\ UNCHANGED <<counterVars, passedAt, made, keycloak>>

EndConfirm(h) ==
  /\ confirming' = [confirming EXCEPT ![h] = "idle"]
  /\ holding' = [holding EXCEPT ![h] = Nobody]

SignOutFirst(h) ==   \* mutant: the sessions end before the password is set
  LET t == holding[h] IN
  /\ \/ /\ confirming[h] = "putting"
        /\ confirming' = [confirming EXCEPT ![h] = "signing out"]
        /\ current' = FALSE /\ old' = FALSE
        /\ UNCHANGED <<holding, sets>>
     \/ /\ confirming[h] = "signing out"
        /\ old' = (old \/ current) /\ current' = FALSE
        /\ sets' = [sets EXCEPT ![t] = @ + 1]
        /\ EndConfirm(h)
  /\ UNCHANGED <<counterVars, passedAt, tokens, signoutLost>>

\* The token is spent even if Keycloak fails or refuses the password.
PutPassword(h) ==
  LET t == holding[h] IN
  /\ confirming[h] = "putting"
  /\ \/ EndConfirm(h) /\ UNCHANGED <<current, old, sets, signoutLost>>
     \/ /\ old' = (old \/ current) /\ current' = FALSE
        /\ sets' = [sets EXCEPT ![t] = @ + 1]
        /\ \/ confirming' = [confirming EXCEPT ![h] = "signing out"] /\ UNCHANGED <<holding, signoutLost>>
           \/ EndConfirm(h) /\ signoutLost' = TRUE
  /\ UNCHANGED <<counterVars, passedAt, tokens>>

\* Under a context of its own; its error is dropped.
SignOut(h) ==
  /\ confirming[h] = "signing out"
  /\ EndConfirm(h)
  /\ \/ current' = FALSE /\ old' = FALSE /\ UNCHANGED signoutLost
     \/ signoutLost' = TRUE /\ UNCHANGED <<current, old>>
  /\ UNCHANGED <<counterVars, passedAt, tokens, sets>>

\* Keycloak: somebody signs in with the password of the moment.
SignIn ==
  /\ ~current /\ current' = TRUE
  /\ UNCHANGED <<counterVars, passedAt, tokens, confirming, holding, old, sets, signoutLost>>

\* A request that has passed is not older than its calls may take.
ResetTick ==
  /\ Tick
  /\ \A c \in Call : pace[c] # "ready" => clock - passedAt[c] < MaxLookup
  /\ UNCHANGED <<passedAt, tokens, confirming, holding, keycloak>>

ResetNext ==
  \/ \E c \in Call : AskReset(c) \/ ExpireReset(c) \/ MakeToken(c)
  \/ \E h \in Confirm : (\E t \in Token : ConsumeToken(h, t)) \/ PutPassword(h) \/ SignOut(h)
  \/ SignIn \/ ResetTick

ResetSpec == ResetInit /\ [][ResetNext]_resetVars

-----------------------------------------------------------------------------
(* Properties.                                                             *)

\* ConsumePasswordResetToken: two confirmations at once, or one that failed and
\* is sent again, never set a password twice by one token.
TokenSetsOnce == \A t \in Token : sets[t] <= 1

\* passwordReset: a token is made later than its request was counted, by what two
\* calls of Keycloak take, and lives from then on, so tokens of the end of one
\* window, of the next and of the one after it may be good at one time, but not
\* all of three windows: the first of the first one has lapsed.
LiveTokensBounded == Cardinality({t \in Token : Consumable(t)}) <= 3 * Limit - 1

\* passwordResetConfirm sets the password and then ends the sessions: once no
\* confirmation is under way, only a lost call leaves a session of an earlier
\* password.
OldSessionsEnd ==
  ~signoutLost /\ (\A h \in Confirm : confirming[h] = "idle") => ~old

\* The window of requests is kept, the tokens of a reset are few and good for one
\* password, and the sessions of the earlier one end, whichever requests,
\* confirmations and failures of Keycloak interleave.
ResetIsOneTime == WindowIsKept /\ TokenSetsOnce /\ LiveTokensBounded /\ OldSessionsEnd

=============================================================================
