-------------------------- MODULE MCInferenceQueue --------------------------
(***************************************************************************)
(* Instances of InferenceQueue.  Two: two principals, two workloads.       *)
(* One: two requests of one principal for one workload.                    *)
(***************************************************************************)
EXTENDS InferenceQueue

MCWorkloadLimit == [w \in Workload |-> IF w = "fast" THEN 2 ELSE 1]

TwoPrincipalOf == <<"alice", "bob">>
TwoWorkloadOf == <<"fast", "deep">>
OnePrincipalOf == <<"alice", "alice">>
OneWorkloadOf == <<"fast", "fast">>
MCPriorityOf == <<5, 6>>
=============================================================================
