----------------------------- MODULE MCChatRuns -----------------------------
(***************************************************************************)
(* Instances of ChatRuns.  Workers and tabs are interchangeable.           *)
(***************************************************************************)
EXTENDS ChatRuns, TLC

Interchangeable == Permutations(Worker) \cup Permutations(Client)
=============================================================================
