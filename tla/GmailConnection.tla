-------------------------- MODULE GmailConnection --------------------------
(***************************************************************************)
(* The Gmail account that sends the mails (cmd/api/gmail.go): a state of   *)
(* the OAuth flow in Redis, a row with the refresh token, and Google.      *)
(*                                                                         *)
(* The state is bound to an administrator and taken with GETDEL.  A        *)
(* callback exchanges its code, verifies the account and replaces the row; *)
(* a disconnection reads the row, revokes its token and deletes the row,   *)
(* whatever it is by then.                                                 *)
(***************************************************************************)
EXTENDS Naturals, FiniteSets

CONSTANTS
  Admin,
  State,     \* states of the flow, never used again
  Callback,  \* handlers of gmailCallback
  Parting,   \* handlers of gmailDisconnect
  Grant,     \* refresh tokens of Google, never used again
  Nil

ASSUME GmailAssumption == Nil \notin Admin \cup State \cup Grant

VARIABLES
  states,     \* gmail-oauth-state: whose each state is; Nil: not there
  drawn,      \* history: the states made so far
  exchanging, \* per callback: its state while it runs
  brought,    \* per callback: the refresh token Google gave it
  integration,\* the row of oauth_integrations
  parting,    \* per disconnection: "idle", "revoking" or "deleting"
  reading,    \* per disconnection: the token it has read
  revoked,    \* Google: the tokens revoked
  granted,    \* history: the tokens given
  exchanges,  \* history: exchanges of a state, by administrator
  halfway     \* history: tokens whose disconnection stopped before the row went

gmailVars == <<states, drawn, exchanging, brought, integration, parting, reading, revoked, granted, exchanges, halfway>>
oauth == <<states, drawn, exchanges>>
disconnecting == <<parting, reading, halfway>>

GmailTypeOK ==
  /\ states \in [State -> Admin \cup {Nil}] /\ drawn \in SUBSET State
  /\ exchanging \in [Callback -> State \cup {Nil}] /\ brought \in [Callback -> Grant \cup {Nil}]
  /\ integration \in Grant \cup {Nil}
  /\ parting \in [Parting -> {"idle", "revoking", "deleting"}] /\ reading \in [Parting -> Grant \cup {Nil}]
  /\ revoked \in SUBSET Grant /\ granted \in SUBSET Grant /\ halfway \in SUBSET Grant
  /\ exchanges \in [State -> Nat]

GmailInit ==
  /\ states = [s \in State |-> Nil] /\ drawn = {} /\ exchanges = [s \in State |-> 0]
  /\ exchanging = [c \in Callback |-> Nil] /\ brought = [c \in Callback |-> Nil]
  /\ integration = Nil
  /\ parting = [d \in Parting |-> "idle"] /\ reading = [d \in Parting |-> Nil]
  /\ revoked = {} /\ granted = {} /\ halfway = {}

GmailAuthorize(a) ==
  /\ \E s \in State \ drawn :
       /\ states' = [states EXCEPT ![s] = a]
       /\ drawn' = drawn \cup {s}
  /\ UNCHANGED <<exchanging, brought, integration, disconnecting, revoked, granted, exchanges>>

\* A state lives for ten minutes.
StateExpires(s) ==
  /\ states[s] # Nil /\ states' = [states EXCEPT ![s] = Nil]
  /\ UNCHANGED <<drawn, exchanging, brought, integration, disconnecting, revoked, granted, exchanges>>

TakeStateLater(c, a, s) ==   \* mutant: GET instead of GETDEL
  /\ exchanging[c] = Nil /\ states[s] = a
  /\ exchanging' = [exchanging EXCEPT ![c] = s]
  /\ exchanges' = [exchanges EXCEPT ![s] = @ + 1]
  /\ UNCHANGED <<states, drawn, brought, integration, disconnecting, revoked, granted>>

\* GETDEL; the state is gone even if it was another administrator's.
TakeState(c, a, s) ==
  /\ exchanging[c] = Nil /\ states[s] # Nil
  /\ states' = [states EXCEPT ![s] = Nil]
  /\ IF states[s] = a
     THEN /\ exchanging' = [exchanging EXCEPT ![c] = s]
          /\ exchanges' = [exchanges EXCEPT ![s] = @ + 1]
     ELSE UNCHANGED <<exchanging, exchanges>>
  /\ UNCHANGED <<drawn, brought, integration, disconnecting, revoked, granted>>

CallbackEnds(c) ==
  /\ exchanging' = [exchanging EXCEPT ![c] = Nil]
  /\ brought' = [brought EXCEPT ![c] = Nil]

\* Google gives a refresh token, or it fails, or gives none.
ExchangeCode(c) ==
  /\ exchanging[c] # Nil /\ brought[c] = Nil
  /\ \/ CallbackEnds(c) /\ UNCHANGED granted
     \/ \E g \in Grant \ granted :
          /\ brought' = [brought EXCEPT ![c] = g]
          /\ granted' = granted \cup {g}
          /\ UNCHANGED exchanging
  /\ UNCHANGED <<oauth, integration, disconnecting, revoked>>

\* The account is verified, then UpsertOAuthIntegration replaces the one row.
SaveIntegration(c) ==
  /\ brought[c] # Nil
  /\ integration' = brought[c] \/ UNCHANGED integration
  /\ CallbackEnds(c)
  /\ UNCHANGED <<oauth, disconnecting, revoked, granted>>

\* A row that cannot be read or decrypted is deleted without a revocation.
ReadIntegration(d) ==
  /\ parting[d] = "idle"
  /\ \/ /\ integration # Nil
        /\ parting' = [parting EXCEPT ![d] = "revoking"]
        /\ reading' = [reading EXCEPT ![d] = integration]
     \/ /\ parting' = [parting EXCEPT ![d] = "deleting"]
        /\ UNCHANGED reading
  /\ UNCHANGED <<oauth, exchanging, brought, integration, revoked, granted, halfway>>

\* Google's answer is not looked at.
RevokeToken(d) ==
  /\ parting[d] = "revoking"
  /\ parting' = [parting EXCEPT ![d] = "deleting"]
  /\ revoked' = revoked \cup {reading[d]} \/ UNCHANGED revoked
  /\ UNCHANGED <<oauth, exchanging, brought, integration, reading, granted, halfway>>

\* DeleteOAuthIntegration, which may fail, and a process that dies before it.
DeleteIntegration(d) ==
  /\ parting[d] = "deleting"
  /\ parting' = [parting EXCEPT ![d] = "idle"]
  /\ reading' = [reading EXCEPT ![d] = Nil]
  /\ \/ integration' = Nil /\ UNCHANGED halfway
     \/ halfway' = (halfway \cup {reading[d]}) \ {Nil} /\ UNCHANGED integration
  /\ UNCHANGED <<oauth, exchanging, brought, revoked, granted>>

GmailNext ==
  \/ \E a \in Admin : GmailAuthorize(a) \/ \E c \in Callback, s \in State : TakeState(c, a, s)
  \/ \E s \in State : StateExpires(s)
  \/ \E c \in Callback : ExchangeCode(c) \/ SaveIntegration(c)
  \/ \E d \in Parting : ReadIntegration(d) \/ RevokeToken(d) \/ DeleteIntegration(d)

GmailSpec == GmailInit /\ [][GmailNext]_gmailVars

-----------------------------------------------------------------------------
(* Properties.                                                             *)

\* gmailCallback: two callbacks with one state, or one that is sent again, make
\* one exchange.
StateUsedOnce == \A s \in State : exchanges[s] <= 1

\* gmailDisconnect: mails are sent with a revoked token only while a
\* disconnection of that very token is under way, or after one that stopped
\* halfway, whatever connections and disconnections ran beside it.
StoredTokenIsGood ==
  integration \in revoked =>
    integration \in halfway \/ \E d \in Parting : parting[d] = "deleting" /\ reading[d] = integration

\* The flow is bound to its one state, and the row to a token that is good.
ConnectionIsGood == StateUsedOnce /\ StoredTokenIsGood

=============================================================================
