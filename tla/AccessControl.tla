--------------------------- MODULE AccessControl ---------------------------
(***************************************************************************)
(* Who is let through, and how administrators change it (cmd/api/main.go,  *)
(* access.go; internal/store store.go, admin_control.go).                  *)
(*                                                                         *)
(* A call brings an OIDC token, with the roles Keycloak wrote into it, or  *)
(* an API key.  auth reads the user's row once; the middlewares of the     *)
(* route decide by that copy.  A call of an administrator then changes a   *)
(* status in two statements and a log entry, roles in two calls to         *)
(* Keycloak and one statement, or creates a user in up to six steps, any   *)
(* of which may fail and leaves what was done before.                      *)
(***************************************************************************)
EXTENDS Naturals, FiniteSets

CONSTANTS
  User,
  ConfiguredAdmin,  \* the user with ADMIN_EMAIL
  First,            \* another administrator, approved from the start
  Key,              \* API keys, each owned by a user
  Owner, Scoped,    \* the owner of each; those with the scope "inference"
  Caller            \* calls, each made once

ASSUME AccessAssumption ==
  /\ {ConfiguredAdmin, First} \subseteq User /\ ConfiguredAdmin # First
  /\ Owner \in [Key -> User] /\ Scoped \subseteq Key

Role == {"ai-user", "ai-admin"}
Route == {"account", "chat", "generate", "admin"}
Status == {"pending", "approved", "suspended"}  \* nothing tells "rejected" from "suspended"
Nowhere == "nowhere"  \* a user without a row

VARIABLES
  status,    \* app_users, per user
  dbRoles,   \* app_users.roles
  identity,  \* Keycloak: there is such a user
  kcRoles,   \* Keycloak: its realm roles
  token,     \* the roles in the OIDC token it carries now
  keys,      \* api_keys: "active" or "revoked"
  phase,     \* per call
  caller,    \* per call: its user, its credential, its route, the roles in its token
  copy,      \* per call: the status auth has read
  order,     \* per call of an administrator: what it changes, of whom, to what
  entitled,  \* history: a call could have been let through at some time of its life
  asked,     \* history: users somebody with the right to do so has approved
  settled    \* history: per user, the roles set by the last change that ran alone

rows == <<status, dbRoles>>
realm == <<identity, kcRoles, token>>
callerVars == <<phase, caller, copy, order>>
accessVars == <<rows, realm, keys, callerVars, entitled, asked, settled>>

Phases == {"new", "arrived", "approving", "authenticated", "served", "refused", "failed",
           "reading", "updating", "removing", "assigning", "recording", "creating", "password", "inserting"}
NoCaller == [user |-> First, by |-> "oidc", route |-> "account", roles |-> {}]
NoOrder == [kind |-> "none", user |-> First, roles |-> {}, status |-> "pending"]
Unsettled == {"unsettled"}
Open == {"new", "served", "refused", "failed"}

\* The history of the roles tells its three kinds of values apart.
ASSUME CallerAssumption == Caller \cap (Role \cup Unsettled) = {}

AccessTypeOK ==
  /\ status \in [User -> Status \cup {Nowhere}]
  /\ dbRoles \in [User -> SUBSET Role] /\ kcRoles \in [User -> SUBSET Role] /\ token \in [User -> SUBSET Role]
  /\ identity \in [User -> BOOLEAN]
  /\ keys \in [Key -> {"active", "revoked"}]
  /\ phase \in [Caller -> Phases]
  /\ caller \in [Caller -> [user : User, by : {"oidc"} \cup Key, route : Route, roles : SUBSET Role]]
  /\ copy \in [Caller -> Status]
  /\ order \in [Caller -> [kind : {"none", "status", "roles", "create", "revoke"}, user : User,
                           roles : SUBSET Role, status : Status]]
  /\ entitled \in [Caller -> BOOLEAN] /\ asked \in SUBSET User
  /\ settled \in [User -> (SUBSET Role) \cup {Unsettled} \cup {{c} : c \in Caller}]

AccessInit ==
  /\ status = [u \in User |-> IF u = First THEN "approved" ELSE Nowhere]
  /\ dbRoles = [u \in User |-> IF u = First THEN {"ai-admin"} ELSE {}]
  /\ identity = [u \in User |-> u \in {First, ConfiguredAdmin}]
  /\ kcRoles = dbRoles /\ token = dbRoles
  /\ keys = [k \in Key |-> "active"]
  /\ phase = [c \in Caller |-> "new"] /\ caller = [c \in Caller |-> NoCaller]
  /\ copy = [c \in Caller |-> "pending"] /\ order = [c \in Caller |-> NoOrder]
  /\ entitled = [c \in Caller |-> FALSE] /\ asked = {First}
  /\ settled = [u \in User |-> Unsettled]

GoTo(c, p) == phase' = [phase EXCEPT ![c] = p]

\* A call that has ended has forgotten what it was.
StepTo(c, p) ==
  /\ phase' = [phase EXCEPT ![c] = p]
  /\ IF p \in Open
     THEN /\ caller' = [caller EXCEPT ![c] = NoCaller]
          /\ copy' = [copy EXCEPT ![c] = "pending"]
          /\ order' = [order EXCEPT ![c] = NoOrder]
     ELSE UNCHANGED <<caller, copy, order>>

\* After a step that was carried out; its answer may be lost.
Then(c, p) == StepTo(c, p) \/ StepTo(c, "failed")

-----------------------------------------------------------------------------
(* The middlewares.                                                        *)

ByKey(q) == q.by # "oidc"
MayInfer(q) == ByKey(q) => q.by \in Scoped
IsAdmin(q) == ~ByKey(q) /\ ("ai-admin" \in q.roles \/ q.user = ConfiguredAdmin)

\* chatAccess, approvalRequired, requirePrincipalScope and adminOnly, in the
\* order in which the router puts them before a route.
LetsThrough(q, s) ==
  CASE q.route = "account" -> TRUE
    [] q.route = "chat" -> (s = "approved" \/ (s = "pending" /\ ~ByKey(q))) /\ MayInfer(q)
    [] q.route = "generate" -> s = "approved" /\ MayInfer(q)
    [] q.route = "admin" -> s = "approved" /\ IsAdmin(q)

\* What README.md promises, of the rows and keys as they are.
Promised(c) ==
  LET q == caller[c] IN
  /\ ByKey(q) => keys[q.by] = "active" /\ q.route # "admin" /\ (q.route \in {"chat", "generate"} => q.by \in Scoped)
  /\ q.route = "account" \/ status[q.user] = "approved" \/ (q.route = "chat" /\ status[q.user] = "pending" /\ ~ByKey(q))
  /\ q.route = "admin" => q.user = ConfiguredAdmin \/ "ai-admin" \in q.roles

\* The history of entitled, with every change of the state it depends on.
Watch == entitled' = [c \in Caller |-> entitled[c] \/ (phase'[c] \notin Open /\ Promised(c)')]

-----------------------------------------------------------------------------
(* A call.                                                                 *)

Arrive(c, u, by, route) ==
  /\ phase[c] = "new" /\ identity[u] /\ (by # "oidc" => u = Owner[by])
  /\ GoTo(c, "arrived")
  /\ caller' = [caller EXCEPT ![c] = [user |-> u, by |-> by, route |-> route,
                                     roles |-> IF by = "oidc" THEN token[u] ELSE {}]]
  /\ UNCHANGED <<rows, realm, keys, copy, order, asked, settled>>
  /\ Watch

\* UpsertLogin: a new user is pending, of a known one the roles are replaced.
UpsertLogin(c) ==
  LET q == caller[c]
      s == IF status[q.user] = Nowhere THEN "pending" ELSE status[q.user] IN
  /\ phase[c] = "arrived" /\ ~ByKey(q)
  /\ status' = [status EXCEPT ![q.user] = s]
  /\ dbRoles' = [dbRoles EXCEPT ![q.user] = q.roles]
  /\ copy' = [copy EXCEPT ![c] = s]
  /\ GoTo(c, IF q.user = ConfiguredAdmin /\ s # "approved" THEN "approving" ELSE "authenticated")
  /\ UNCHANGED <<realm, keys, caller, order, asked, settled>>
  /\ Watch

\* The configured administrator is approved by signing in; a failure is logged.
ApproveConfigured(c) ==
  LET u == caller[c].user IN
  /\ phase[c] = "approving"
  /\ GoTo(c, "authenticated")
  /\ \/ /\ status' = [status EXCEPT ![u] = "approved"]
        /\ copy' = [copy EXCEPT ![c] = "approved"]
        /\ asked' = asked \cup {u}
     \/ UNCHANGED <<status, copy, asked>>
  /\ UNCHANGED <<dbRoles, realm, keys, caller, order, settled>>
  /\ Watch

AuthenticateAnyKey(c) ==   \* mutant: WHERE k.status = 'active' is left out
  LET q == caller[c] IN
  /\ phase[c] = "arrived" /\ ByKey(q)
  /\ IF status[q.user] # Nowhere
     THEN /\ GoTo(c, "authenticated")
          /\ copy' = [copy EXCEPT ![c] = status[q.user]]
          /\ UNCHANGED <<caller, order>>
     ELSE StepTo(c, "refused")
  /\ UNCHANGED <<rows, realm, keys, entitled, asked, settled>>

\* AuthenticateAPIKey joins the key with its owner.
AuthenticateAPIKey(c) ==
  LET q == caller[c] IN
  /\ phase[c] = "arrived" /\ ByKey(q)
  /\ IF keys[q.by] = "active" /\ status[q.user] # Nowhere
     THEN /\ GoTo(c, "authenticated")
          /\ copy' = [copy EXCEPT ![c] = status[q.user]]
          /\ UNCHANGED <<caller, order>>
     ELSE StepTo(c, "refused")
  /\ UNCHANGED <<rows, realm, keys, entitled, asked, settled>>

\* A call of an administrator begins what it was sent for.
Decide(c) ==
  LET q == caller[c] IN
  /\ phase[c] = "authenticated"
  /\ IF ~LetsThrough(q, copy[c]) THEN StepTo(c, "refused")
     ELSE IF q.route # "admin" THEN StepTo(c, "served")
     ELSE \E o \in [kind : {"status", "roles", "create", "revoke"}, user : User, roles : SUBSET Role, status : Status] :
            /\ o.kind = "status" => o.roles = {}
            /\ o.kind = "roles" => o.status = "pending"
            /\ o.kind = "create" => o.roles = {"ai-user"}
            /\ o.kind = "revoke" => o.roles = {} /\ o.status = "pending" /\ o.user = First
            /\ order' = [order EXCEPT ![c] = o]
            /\ UNCHANGED <<caller, copy>>
            /\ GoTo(c, CASE o.kind = "status" -> "reading" [] o.kind = "roles" -> "removing"
                      [] o.kind = "create" -> "creating" [] OTHER -> "updating")
  /\ UNCHANGED <<rows, realm, keys, entitled, asked, settled>>

-----------------------------------------------------------------------------
(* Changes of administrators.                                              *)

\* A statement or a call that fails ends the call.
Fail(c) ==
  /\ phase[c] \in {"reading", "updating", "removing", "assigning", "recording", "creating", "password", "inserting"}
  /\ StepTo(c, "failed")
  /\ UNCHANGED <<rows, realm, keys, entitled, asked, settled>>

\* SetUserStatus reads the row for the log, then updates it.
ReadStatus(c) ==
  /\ phase[c] = "reading"
  /\ StepTo(c, IF status[order[c].user] = Nowhere THEN "failed" ELSE "updating")
  /\ UNCHANGED <<rows, realm, keys, entitled, asked, settled>>

SetUserStatus(c) ==
  LET o == order[c] IN
  /\ phase[c] = "updating" /\ o.kind = "status"
  /\ status' = [status EXCEPT ![o.user] = o.status]
  /\ asked' = IF o.status = "approved" THEN asked \cup {o.user} ELSE asked \ {o.user}
  /\ Then(c, "served")
  /\ UNCHANGED <<dbRoles, realm, keys, settled>>
  /\ Watch

\* RevokeAPIKey, of a key that is active.
RevokeAPIKey(c) ==
  /\ phase[c] = "updating" /\ order[c].kind = "revoke"
  /\ \E k \in Key :
       IF keys[k] = "active" THEN keys' = [keys EXCEPT ![k] = "revoked"] /\ StepTo(c, "served")
       ELSE StepTo(c, "failed") /\ UNCHANGED keys
  /\ UNCHANGED <<rows, realm, entitled, asked, settled>>

\* Changes of the roles of a user that are under way.
Changing(u) == {c \in Caller : order[c].user = u /\ order[c].kind \in {"roles", "create"}
                                 /\ phase[c] \in {"removing", "assigning", "recording", "inserting"}}

\* setKeycloakRealmRoles: of the roles it manages those a user has are read and
\* removed, in one step here, and the wanted ones assigned in another one.  An
\* answer other than 200 to the reading counts as no roles: none is removed.
RemoveRoles(c) ==
  LET u == order[c].user IN
  /\ phase[c] = "removing"
  /\ IF ~identity[u] THEN StepTo(c, "failed") /\ UNCHANGED <<kcRoles, settled>>
     ELSE \/ /\ kcRoles' = [kcRoles EXCEPT ![u] = {}]
             /\ settled' = [settled EXCEPT ![u] = {c}]
             /\ Then(c, "assigning")
          \/ /\ settled' = [settled EXCEPT ![u] = Unsettled]
             /\ StepTo(c, "assigning") /\ UNCHANGED kcRoles
  /\ UNCHANGED <<rows, identity, token, keys, entitled, asked>>

AssignRoles(c) ==
  LET o == order[c] IN
  /\ phase[c] = "assigning"
  /\ kcRoles' = [kcRoles EXCEPT ![o.user] = @ \cup o.roles]
  /\ settled' = [settled EXCEPT ![o.user] = IF settled[o.user] = {c} /\ Changing(o.user) = {c} THEN o.roles ELSE Unsettled]
  /\ Then(c, IF o.kind = "roles" THEN "recording" ELSE "inserting")
  /\ UNCHANGED <<rows, identity, token, keys, entitled, asked>>

SetUserRoles(c) ==
  LET o == order[c] IN
  /\ phase[c] = "recording"
  /\ IF status[o.user] = Nowhere THEN StepTo(c, "failed") /\ UNCHANGED dbRoles
     ELSE Then(c, "served") /\ dbRoles' = [dbRoles EXCEPT ![o.user] = o.roles]
  /\ UNCHANGED <<status, realm, keys, entitled, asked, settled>>

\* createUser: a user Keycloak knows is a conflict, even after a creation that
\* stopped halfway.
CreateIdentity(c) ==
  LET u == order[c].user IN
  /\ phase[c] = "creating"
  /\ IF identity[u] THEN StepTo(c, "failed") /\ UNCHANGED identity
     ELSE Then(c, "password") /\ identity' = [identity EXCEPT ![u] = TRUE]
  /\ UNCHANGED <<rows, kcRoles, token, keys, entitled, asked, settled>>

SetPassword(c) ==
  /\ phase[c] = "password" /\ StepTo(c, "removing")
  /\ UNCHANGED <<rows, realm, keys, entitled, asked, settled>>

\* UpsertManagedUser overwrites the row that a login or a list of users has made
\* meanwhile.
UpsertManagedUser(c) ==
  LET o == order[c] IN
  /\ phase[c] = "inserting"
  /\ status' = [status EXCEPT ![o.user] = o.status]
  /\ dbRoles' = [dbRoles EXCEPT ![o.user] = o.roles]
  /\ asked' = IF o.status = "approved" THEN asked \cup {o.user} ELSE asked \ {o.user}
  /\ Then(c, "served")
  /\ UNCHANGED <<realm, keys, settled>>
  /\ Watch

-----------------------------------------------------------------------------

\* syncKeycloakUsers, with every list of users: rows for those that have none.
SyncUser(u) ==
  /\ identity[u] /\ status[u] = Nowhere
  /\ status' = [status EXCEPT ![u] = "pending"]
  /\ UNCHANGED <<dbRoles, realm, keys, callerVars, asked, settled>>
  /\ Watch

\* Keycloak: the client refreshes its token.
RefreshToken(u) ==
  /\ identity[u] /\ token[u] # kcRoles[u]
  /\ token' = [token EXCEPT ![u] = kcRoles[u]]
  /\ UNCHANGED <<rows, identity, kcRoles, keys, callerVars, asked, settled>>
  /\ Watch

AccessNext ==
  \/ \E c \in Caller :
       \/ \E u \in User, by \in {"oidc"} \cup Key, route \in Route : Arrive(c, u, by, route)
       \/ UpsertLogin(c) \/ ApproveConfigured(c) \/ AuthenticateAPIKey(c) \/ Decide(c) \/ Fail(c)
       \/ ReadStatus(c) \/ SetUserStatus(c) \/ RevokeAPIKey(c)
       \/ RemoveRoles(c) \/ AssignRoles(c) \/ SetUserRoles(c)
       \/ CreateIdentity(c) \/ SetPassword(c) \/ UpsertManagedUser(c)
  \/ \E u \in User : SyncUser(u) \/ RefreshToken(u)

AccessSpec == AccessInit /\ [][AccessNext]_accessVars

-----------------------------------------------------------------------------
(* Properties.                                                             *)

\* README.md on access states, keys and scopes: whoever is served was entitled to
\* it at some moment of the call, whatever administrators change meanwhile.
ServedWereEntitled ==
  \A c \in Caller :
    phase[c] = "served" \/ order[c].kind # "none" => entitled[c]

\* A user is approved only as long as an administrator, or the configuration,
\* wanted it: no login, list of users or half-made user brings an approval.
ApprovedWereAsked == \A u \in User : status[u] = "approved" => u \in asked

\* setKeycloakRealmRoles: roles that a change running alone has set, stay exactly
\* these until the next change begins; a change that could not read the roles a
\* user had is excepted, it only adds.
RolesSettle ==
  \A u \in User : settled[u] \in SUBSET Role => kcRoles[u] = settled[u]

\* Who is served was entitled to it, who is approved was wanted, and roles are
\* what the last change that ran alone has made them.
AccessIsGranted == ServedWereEntitled /\ ApprovedWereAsked /\ RolesSettle

=============================================================================
