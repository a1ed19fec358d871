------------------------- MODULE ConcurrencyLimiter -------------------------
(***************************************************************************)
(* What the inference queue promises the model servers behind it: requests *)
(* start and stop being served, never more than GlobalLimit at a time,     *)
(* never more of a workload than its limit, never two of one principal.    *)
(***************************************************************************)
EXTENDS Naturals, FiniteSets

CONSTANTS Request, Workload, PrincipalOf, WorkloadOf, GlobalLimit, WorkloadLimit

VARIABLE serving   \* the requests being served

Of(w) == {r \in Request : WorkloadOf[r] = w}

\* The limits on a set of requests served at once.
WithinLimits(S) ==
  /\ Cardinality(S) <= GlobalLimit
  /\ \A w \in Workload : Cardinality(S \cap Of(w)) <= WorkloadLimit[w]
  /\ \A r, q \in S : PrincipalOf[r] = PrincipalOf[q] => r = q

Start(r) ==
  /\ r \notin serving
  /\ WithinLimits(serving \cup {r})
  /\ serving' = serving \cup {r}

Stop(r) ==
  /\ r \in serving
  /\ serving' = serving \ {r}

LimiterSpec ==
  /\ serving = {}
  /\ [][\E r \in Request : Start(r) \/ Stop(r)]_serving

=============================================================================
