----------------------------- MODULE MCServices -----------------------------
(***************************************************************************)
(* One instance of each of the services around the queue, the quota and    *)
(* the models.  They share no state, so that a behaviour moves one of      *)
(* them, which `only' names; the others stay in one of their initial       *)
(* states.  The counter of a window moves alone and under a password       *)
(* reset.                                                                  *)
(***************************************************************************)
EXTENDS GuestRate, GuestCapability, AttachmentStorage, PasswordReset, GmailConnection, AccessControl,
        ProviderCatalog, ResearchLookup, ResearchChoices, ResearchPipeline, InferenceRequest, TokenBucket,
        TLC

CONSTANTS a1, a2, a3, c1, c2, boss

VARIABLE only

ServicesVars == <<only, rateVars, capabilityVars, storageVars, resetVars, gmailVars, accessVars, catalogVars,
                  lookupVars, choiceVars, pipelineVars, requestVars, bucketVars>>

MCDeviceOf == [c \in Chat |-> CHOOSE d \in Device : TRUE]
MCOwner == [k \in Key |-> boss]
Interchangeable == Permutations({a1, a2, a3}) \cup Permutations({c1, c2})

SomeRequest == CHOOSE r \in PickRequest : TRUE

Services == {"rate", "capability", "storage", "counter", "reset", "gmail", "access", "catalog",
             "lookup", "choice", "pipeline", "request", "bucket"}

ServicesInit ==
  /\ only \in Services
  /\ RateInit /\ CapabilityInit /\ StorageInit /\ ResetInit /\ GmailInit /\ AccessInit /\ PipelineInit
  /\ LookupInit /\ (only # "lookup" => evidence = {})
  /\ IF only = "catalog" THEN CatalogInit
     ELSE /\ provider = [there |-> TRUE, version |-> 0] /\ target = Absent /\ givenOut = {}
          /\ modelRow = [r \in Row |-> Absent] /\ deployed = [d \in Deployment |-> Absent]
          /\ change = [c \in Change |-> Waiting]
  /\ RequestInit /\ (only # "request" => kind = "chat")
  /\ BucketInit /\ (only # "bucket" => \A q \in Request : waits[q].cost = Capacity)
  /\ IF only = "choice" THEN ChoiceInit ELSE request = SomeRequest /\ chosen = <<>>

ServicesNext ==
  /\ IF only = "rate" THEN RateNext ELSE UNCHANGED rateVars
  /\ IF only = "capability" THEN CapabilityNext ELSE UNCHANGED capabilityVars
  /\ IF only = "storage" THEN StorageNext ELSE UNCHANGED storageVars
  /\ IF only = "reset" THEN ResetNext
     ELSE /\ IF only = "counter" THEN CounterNext ELSE UNCHANGED counterVars
          /\ UNCHANGED <<passedAt, tokens, confirming, holding, keycloak>>
  /\ IF only = "gmail" THEN GmailNext ELSE UNCHANGED gmailVars
  /\ IF only = "access" THEN AccessNext ELSE UNCHANGED accessVars
  /\ IF only = "catalog" THEN CatalogNext ELSE UNCHANGED catalogVars
  /\ IF only = "lookup" THEN LookupNext ELSE UNCHANGED lookupVars
  /\ IF only = "choice" THEN ChoiceNext ELSE UNCHANGED choiceVars
  /\ IF only = "pipeline" THEN PipelineNext ELSE UNCHANGED pipelineVars
  /\ IF only = "request" THEN RequestNext ELSE UNCHANGED requestVars
  /\ IF only = "bucket" THEN BucketNext ELSE UNCHANGED bucketVars
  /\ UNCHANGED only

ServicesSpec == ServicesInit /\ [][ServicesNext]_ServicesVars

-----------------------------------------------------------------------------

\* The state of the service that moves is of its types; the rest is as in the
\* beginning.
ServicesTypeOK ==
  CASE only = "rate" -> RateTypeOK
    [] only = "capability" -> CapabilityTypeOK
    [] only = "storage" -> StorageTypeOK
    [] only \in {"counter", "reset"} -> ResetTypeOK
    [] only = "gmail" -> GmailTypeOK
    [] only = "access" -> AccessTypeOK
    [] only = "catalog" -> CatalogTypeOK
    [] only = "lookup" -> LookupTypeOK
    [] only = "pipeline" -> PipelineTypeOK
    [] only = "request" -> RequestTypeOK
    [] only = "bucket" -> BucketTypeOK
    [] only = "choice" -> TRUE

=============================================================================
