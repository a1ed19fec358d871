------------------------- MODULE MCQuotaReservation -------------------------
(***************************************************************************)
(* Instances of QuotaReservation: an hourly and a weekly limit, requests   *)
(* whose estimates exceed the hourly headroom of one another.              *)
(***************************************************************************)
EXTENDS QuotaReservation, TLC

MCLimit == [w \in Window |-> IF w = "hour" THEN 3 ELSE 5]
MCAmount == [q \in Request |-> 2]
Interchangeable == Permutations(Request)
=============================================================================
