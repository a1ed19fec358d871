--------------------------- MODULE ProviderCatalog ---------------------------
(***************************************************************************)
(* The administrator's catalogue of models of one provider, and the LiteLLM *)
(* gateway that has to agree with it (cmd/api/model_providers.go).          *)
(*                                                                          *)
(* A row of provider_models and a deployment in LiteLLM describe the same   *)
(* model; an alias (fast, balanced, deep, vision) names a row.  No          *)
(* transaction covers the two stores: every handler is a sequence of calls, *)
(* any of which may fail, another administrator's handler may run between   *)
(* any two, and a restart of the process ends all of them and synchronises  *)
(* again.  What a provider or a model is configured with is abstracted to a *)
(* version number, higher for every save.                                   *)
(***************************************************************************)
EXTENDS Naturals, FiniteSets

CONSTANTS Change,      \* calls of the administrators' endpoints, each made once
          Row,         \* ids of rows of provider_models, never used twice
          Upstream,    \* models of the provider
          Deployment,  \* ids LiteLLM gives, never used twice
          MaxVersion,  \* bound: versions of the provider and of a model
          MaxAtOnce,   \* bound: calls in flight at once
          Absent

ASSUME CatalogAssumption == MaxVersion \in Nat /\ MaxAtOnce \in Nat
                            /\ Absent \notin Row \cup Upstream \cup Deployment

VARIABLES provider,   \* [there, version]: the row of model_providers
          modelRow,   \* Row -> Absent or [up, status, dep, set]
          deployed,   \* Deployment -> Absent or [base, set] in LiteLLM
          givenOut,   \* deployments LiteLLM has given out
          target,     \* the upstream an alias names, or Absent
          change      \* Change -> the state of the call

catalogVars == <<provider, modelRow, deployed, givenOut, target, change>>

RowOf == [up: Upstream, status: {"pending", "active", "error"},
          dep: Deployment \cup {Absent}, set: 0..MaxVersion]

\* What a call remembers of a row it has read.
Memory == [id: Row, was: RowOf]

\* Absent is no row, no memory of one and no deployment.
ASSUME AbsentAssumption ==
    Absent \notin RowOf /\ Absent \notin Memory
    /\ Absent \notin [base: 0..MaxVersion, set: 0..MaxVersion]

Waiting == [kind |-> "none", pc |-> "new", base |-> 0, up |-> Absent,
            at |-> Absent, todo |-> {}, clean |-> FALSE, sound |-> FALSE]

CatalogTypeOK ==
    /\ provider \in [there: BOOLEAN, version: 0..MaxVersion]
    /\ modelRow \in [Row -> RowOf \cup {Absent}]
    /\ deployed \in [Deployment -> [base: 0..MaxVersion, set: 0..MaxVersion] \cup {Absent}]
    /\ givenOut \subseteq Deployment
    /\ target \in Upstream \cup {Absent}
    /\ \A c \in Change :
          /\ change[c].todo \subseteq Memory
          /\ change[c].at \in Memory \cup {Absent}
          /\ change[c].base \in 0..MaxVersion

Rows == {r \in Row : modelRow[r] # Absent}
RowFor(u) == {r \in Rows : modelRow[r].up = u}
Remember(r) == [id |-> r, was |-> modelRow[r]]

\* Rows a call remembers; their ids are not given out again.
Known(c) == {m.id : m \in change[c].todo}
            \cup (IF change[c].at = Absent THEN {} ELSE {change[c].at.id})

InFlight(c) == change[c].pc \notin {"new", "done"}

-----------------------------------------------------------------------------
(* What the two stores should say of each other.                            *)

\* An active row whose model LiteLLM knows is served as it is configured.
Agrees(r) ==
    (modelRow[r].status = "active" /\ modelRow[r].dep # Absent) =>
        deployed[modelRow[r].dep] = [base |-> provider.version, set |-> modelRow[r].set]

Consistent ==
    /\ \A r \in Rows : Agrees(r)
    /\ target # Absent => RowFor(target) # {}
    /\ \A d \in Deployment : deployed[d] # Absent => \E r \in Rows : modelRow[r].dep = d

-----------------------------------------------------------------------------
(* The stages of a call.  `clean' is history: nothing the call did has      *)
(* failed and no other call was in flight beside it.  `sound' is history    *)
(* too: the catalogue was consistent when it began.                         *)

Start(c, kind, pc, rest, sound) ==
    /\ change[c].pc = "new"
    /\ Cardinality({x \in Change : InFlight(x)}) < MaxAtOnce
    /\ change' = [x \in Change |->
          IF x = c THEN [Waiting EXCEPT !.kind = kind, !.pc = pc, !.base = rest.base,
                                        !.up = rest.up, !.at = rest.at, !.todo = rest.todo,
                                        !.clean = \A y \in Change : ~InFlight(y),
                                        !.sound = sound /\ Consistent]
          ELSE [change[x] EXCEPT !.clean = FALSE]]

Plain == [base |-> 0, up |-> Absent, at |-> Absent, todo |-> {}]

Step(c, x) == change' = [change EXCEPT ![c] = x]
To(c, pc) == Step(c, [change[c] EXCEPT !.pc = pc])

\* The handler answers; ok says that all it did succeeded.
End(c, ok) ==
    Step(c, [Waiting EXCEPT !.kind = change[c].kind, !.pc = "done",
                            !.clean = ok /\ change[c].clean, !.sound = change[c].sound])

\* A write whose error the code drops ("_ = a.store...").
Soiled(c, ok) == [change[c] EXCEPT !.clean = @ /\ ok]

CatalogInit ==
    /\ provider = [there |-> TRUE, version |-> 0]
    /\ target = Absent
    /\ change = [c \in Change |-> Waiting]
    /\ \E home \in [Upstream -> Row \cup {Absent}], gives \in [Upstream -> Deployment] :
          /\ \A u, v \in Upstream : u # v => gives[u] # gives[v]
          /\ \A u, v \in Upstream : u # v /\ home[u] # Absent => home[u] # home[v]
          /\ modelRow = [r \in Row |->
                IF \E u \in Upstream : home[u] = r
                THEN LET u == CHOOSE v \in Upstream : home[v] = r IN
                     [up |-> u, status |-> "active", dep |-> gives[u], set |-> 0]
                ELSE Absent]
          /\ givenOut = {gives[u] : u \in {v \in Upstream : home[v] # Absent}}
          /\ deployed = [d \in Deployment |-> IF d \in givenOut THEN [base |-> 0, set |-> 0]
                                                            ELSE Absent]

-----------------------------------------------------------------------------
(* Saving the provider, and the synchronisation it and a restart run.       *)

\* adminSaveModelProvider: the upsert, also of an id that was deleted.
SaveProvider(c) ==
    /\ provider.version < MaxVersion
    /\ provider' = [there |-> TRUE, version |-> provider.version + 1]
    /\ Start(c, "save", "list", [Plain EXCEPT !.base = provider.version + 1], TRUE)
    /\ UNCHANGED <<modelRow, deployed, givenOut, target>>

\* The connection test after the save fails: nothing is synchronised.
TestFails(c) ==
    /\ change[c].kind = "save" /\ change[c].pc = "list"
    /\ End(c, FALSE)
    /\ UNCHANGED <<provider, modelRow, deployed, givenOut, target>>

\* reconcileProviderModels: the process starts again; what was in flight is
\* lost, and it reads the provider.
Restart(c) ==
    /\ change[c].pc = "new" /\ provider.there
    /\ change' = [x \in Change |->
          CASE x = c -> [Waiting EXCEPT !.kind = "startup", !.pc = "list",
                                        !.base = provider.version,
                                        !.clean = TRUE, !.sound = Consistent]
            [] InFlight(x) -> [Waiting EXCEPT !.pc = "done"]
            [] OTHER -> change[x]]
    /\ UNCHANGED <<provider, modelRow, deployed, givenOut, target>>

\* syncProviderModels reads the rows once and passes over those that are not
\* active or not deployed.
ListForSync(c) ==
    /\ change[c].kind \in {"save", "startup"} /\ change[c].pc = "list"
    /\ LET todo == {Remember(r) : r \in {x \in Rows : modelRow[x].status = "active"
                                                       /\ modelRow[x].dep # Absent}}
       IN IF todo = {} THEN End(c, TRUE)
          ELSE \E m \in todo :
                 Step(c, [change[c] EXCEPT !.pc = "push", !.at = m, !.todo = todo \ {m}])
    /\ UNCHANGED <<provider, modelRow, deployed, givenOut, target>>

\* mutant: the update leaves out the provider's address and key.
PushSettingsOnly(c) ==
    /\ change[c].pc = "push"
    /\ LET m == change[c].at.was IN
       \/ /\ m.dep # Absent /\ deployed[m.dep] # Absent
          /\ deployed' = [deployed EXCEPT ![m.dep].set = m.set]
          /\ To(c, "mark")
       \/ m.dep = Absent /\ deployed' = deployed /\ To(c, "mark")
       \/ m.dep # Absent /\ deployed' = deployed /\ To(c, "fail")
    /\ UNCHANGED <<provider, modelRow, givenOut, target>>

\* LiteLLM's /model/update with what the call remembers of the row and the
\* provider; an id it does not know is refused.
Push(c) ==
    /\ change[c].pc = "push"
    /\ LET m == change[c].at.was IN
       \/ /\ m.dep # Absent /\ deployed[m.dep] # Absent
          /\ deployed' = [deployed EXCEPT ![m.dep] = [base |-> change[c].base, set |-> m.set]]
          /\ To(c, "mark")
       \/ m.dep = Absent /\ deployed' = deployed /\ To(c, "mark")
       \/ m.dep # Absent /\ deployed' = deployed /\ To(c, "fail")
    /\ UNCHANGED <<provider, modelRow, givenOut, target>>

\* SetProviderModelState: an UPDATE by id, which a deleted row ignores.
SetState(id, status, dep) ==
    modelRow' = [modelRow EXCEPT ![id] =
        IF @ = Absent THEN @
        ELSE [@ EXCEPT !.status = status, !.dep = IF dep = Absent THEN modelRow[id].dep ELSE dep]]

NextOf(c, ok) ==
    IF change[c].todo = {} THEN End(c, ok)
    ELSE \E m \in change[c].todo :
           Step(c, [Soiled(c, ok) EXCEPT !.pc = "push", !.at = m, !.todo = @ \ {m}])

\* After a synchronisation or an update the row is active; the error of the
\* write is dropped.
MarkActive(c) ==
    /\ change[c].pc = "mark" /\ change[c].kind \in {"save", "startup", "update"}
    /\ \/ SetState(change[c].at.id, "active", Absent) /\ NextOf(c, TRUE)
       \/ modelRow' = modelRow /\ NextOf(c, FALSE)
    /\ UNCHANGED <<provider, deployed, givenOut, target>>

\* A refusal of LiteLLM marks the row and stops the call, the rows after it
\* in the list included.
MarkFailed(c) ==
    /\ change[c].pc = "fail"
    /\ SetState(change[c].at.id, "error", Absent) \/ modelRow' = modelRow
    /\ End(c, FALSE)
    /\ UNCHANGED <<provider, deployed, givenOut, target>>

-----------------------------------------------------------------------------
(* One model: its settings, its registration, its deletion.                 *)

\* adminUpdateProviderModel reads the row.
BeginUpdate(c) ==
    /\ \E r \in Rows : Start(c, "update", "write", [Plain EXCEPT !.at = Remember(r)], TRUE)
    /\ UNCHANGED <<provider, modelRow, deployed, givenOut, target>>

\* UpdateProviderModelRuntime: UPDATE ... RETURNING, so the call goes on with
\* the row as it is now.
WriteSettings(c) ==
    LET r == change[c].at.id
        written == [modelRow[r] EXCEPT !.set = modelRow[r].set + 1]
    IN
    /\ change[c].kind = "update" /\ change[c].pc = "write"
    /\ IF modelRow[r] = Absent THEN modelRow' = modelRow /\ End(c, FALSE)
       ELSE /\ modelRow[r].set < MaxVersion
            /\ modelRow' = [modelRow EXCEPT ![r] = written]
            /\ Step(c, [change[c] EXCEPT !.pc = "provider", !.at = [id |-> r, was |-> written]])
    /\ UNCHANGED <<provider, deployed, givenOut, target>>

ReadProvider(c) ==
    /\ change[c].kind = "update" /\ change[c].pc = "provider"
    /\ IF provider.there
       THEN Step(c, [change[c] EXCEPT !.pc = "push", !.base = provider.version])
       ELSE End(c, FALSE)
    /\ UNCHANGED <<provider, modelRow, deployed, givenOut, target>>

\* adminRegisterProviderModel reads the provider.
BeginRegister(c) ==
    /\ provider.there
    /\ \E u \in Upstream :
          Start(c, "register", "upsert",
                [Plain EXCEPT !.base = provider.version, !.up = u], RowFor(u) = {})
    /\ UNCHANGED <<provider, modelRow, deployed, givenOut, target>>

\* UpsertProviderModel: a registered model keeps its id and its deployment.
UpsertRow(c) ==
    LET u == change[c].up IN
    /\ change[c].kind = "register" /\ change[c].pc = "upsert"
    /\ \/ \E r \in RowFor(u) :
             /\ modelRow' = [modelRow EXCEPT ![r].status = "pending"]
             /\ Step(c, [change[c] EXCEPT !.pc = "create",
                           !.at = [id |-> r, was |-> [modelRow[r] EXCEPT !.status = "pending"]]])
       \/ /\ RowFor(u) = {} /\ provider.there
          /\ \E r \in Row \ Rows :
                LET fresh == [up |-> u, status |-> "pending", dep |-> Absent, set |-> 0] IN
                /\ \A x \in Change : r \notin Known(x)
                /\ modelRow' = [modelRow EXCEPT ![r] = fresh]
                /\ Step(c, [change[c] EXCEPT !.pc = "create",
                              !.at = [id |-> r, was |-> fresh]])
       \/ RowFor(u) = {} /\ ~provider.there /\ modelRow' = modelRow /\ End(c, FALSE)
    /\ UNCHANGED <<provider, deployed, givenOut, target>>

\* LiteLLM's /model/new always makes another deployment.
CreateDeployment(c) ==
    /\ change[c].kind = "register" /\ change[c].pc = "create"
    /\ \/ \E d \in Deployment \ givenOut :
             /\ givenOut' = givenOut \cup {d}
             /\ deployed' = [deployed EXCEPT ![d] = [base |-> change[c].base,
                                                     set |-> change[c].at.was.set]]
             /\ Step(c, [change[c] EXCEPT !.pc = "name", !.at.was.dep = d])
       \/ UNCHANGED <<deployed, givenOut>> /\ To(c, "fail")
    /\ UNCHANGED <<provider, modelRow, target>>

NameDeployment(c) ==
    /\ change[c].kind = "register" /\ change[c].pc = "name"
    /\ \/ SetState(change[c].at.id, "active", change[c].at.was.dep) /\ End(c, TRUE)
       \/ modelRow' = modelRow /\ End(c, FALSE)
    /\ UNCHANGED <<provider, deployed, givenOut, target>>

\* adminDeleteProviderModel and adminDeleteModelProvider read what to delete.
BeginDelete(c) ==
    /\ \/ \E r \in Rows :
             Start(c, "delete", "remove", [Plain EXCEPT !.at = Remember(r)], TRUE)
       \/ /\ provider.there
          /\ IF Rows = {} THEN Start(c, "deleteProvider", "drop", Plain, TRUE)
             ELSE \E r \in Rows :
                    Start(c, "deleteProvider", "remove",
                          [Plain EXCEPT !.at = Remember(r),
                                        !.todo = {Remember(x) : x \in Rows \ {r}}], TRUE)
    /\ UNCHANGED <<provider, modelRow, deployed, givenOut, target>>

\* LiteLLM's /model/delete; a refusal ends the call.
RemoveDeployment(c) ==
    LET d == change[c].at.was.dep IN
    /\ change[c].pc = "remove"
    /\ \/ d = Absent /\ deployed' = deployed /\ To(c, "unalias")
       \/ /\ d # Absent /\ deployed[d] # Absent
          /\ deployed' = [deployed EXCEPT ![d] = Absent]
          /\ To(c, "unalias")
       \/ d # Absent /\ deployed' = deployed /\ End(c, FALSE)
    /\ UNCHANGED <<provider, modelRow, givenOut, target>>

\* DeleteAliasesForModel, its error dropped; the next row follows.
RemoveAliases(c) ==
    LET after(ok) ==
          IF change[c].todo = {} THEN Step(c, [Soiled(c, ok) EXCEPT !.pc = "drop"])
          ELSE \E m \in change[c].todo :
                 Step(c, [Soiled(c, ok) EXCEPT !.pc = "remove", !.at = m, !.todo = @ \ {m}])
    IN
    /\ change[c].pc = "unalias"
    /\ \/ target' = (IF target = change[c].at.was.up THEN Absent ELSE target) /\ after(TRUE)
       \/ target' = target /\ after(FALSE)
    /\ UNCHANGED <<provider, modelRow, deployed, givenOut>>

\* The row goes, or the provider and with it every row that names it.
DropRows(c) ==
    LET gone == IF change[c].kind = "delete" THEN {change[c].at.id} ELSE Row IN
    /\ change[c].pc = "drop"
    /\ \/ /\ modelRow' = [r \in Row |-> IF r \in gone THEN Absent ELSE modelRow[r]]
          /\ provider' = [provider EXCEPT !.there = @ /\ change[c].kind = "delete"]
          /\ End(c, TRUE)
       \/ UNCHANGED <<modelRow, provider>> /\ End(c, FALSE)
    /\ UNCHANGED <<deployed, givenOut, target>>

-----------------------------------------------------------------------------
(* Aliases.                                                                 *)

\* adminSetModelAlias: the target must be an active row of the list it reads.
BeginAlias(c) ==
    /\ \E r \in Rows :
          modelRow[r].status = "active"
          /\ Start(c, "alias", "alias", [Plain EXCEPT !.up = modelRow[r].up], TRUE)
    /\ UNCHANGED <<provider, modelRow, deployed, givenOut, target>>

WriteAlias(c) ==
    /\ change[c].pc = "alias"
    /\ target' = change[c].up
    /\ End(c, TRUE)
    /\ UNCHANGED <<provider, modelRow, deployed, givenOut>>

CatalogNext ==
    \E c \in Change :
        \/ SaveProvider(c) \/ TestFails(c) \/ Restart(c) \/ ListForSync(c)
        \/ Push(c) \/ MarkActive(c) \/ MarkFailed(c)
        \/ BeginUpdate(c) \/ WriteSettings(c) \/ ReadProvider(c)
        \/ BeginRegister(c) \/ UpsertRow(c) \/ CreateDeployment(c) \/ NameDeployment(c)
        \/ BeginDelete(c) \/ RemoveDeployment(c) \/ RemoveAliases(c) \/ DropRows(c)
        \/ BeginAlias(c) \/ WriteAlias(c)

CatalogSpec == CatalogInit /\ [][CatalogNext]_catalogVars

-----------------------------------------------------------------------------

Finishes(c) == change[c].pc # "done" /\ change'[c].pc = "done" /\ change'[c].clean

\* A synchronisation that ran alone and reports success, after a save of the
\* provider or at start-up, leaves every active model served as it is
\* configured, whatever earlier races, refusals and restarts had left.
SyncSettles ==
    \A c \in Change :
       (Finishes(c) /\ change[c].kind \in {"save", "startup"}) =>
           \A r \in Row : (modelRow[r] # Absent)' => Agrees(r)'

\* A call that ran alone and in which nothing failed keeps the two stores in
\* agreement: no active model LiteLLM serves otherwise, no alias of a model
\* that is gone, no deployment that no row names.  Registering a model again
\* is excepted: its first deployment stays in LiteLLM.
LoneCallKeepsCatalog ==
    \A c \in Change : (Finishes(c) /\ change[c].sound) => Consistent'

\* The two stores agree after a synchronisation, and stay so while administrators
\* work one at a time and nothing fails.
StoresAgree == [][SyncSettles /\ LoneCallKeepsCatalog]_catalogVars

=============================================================================
