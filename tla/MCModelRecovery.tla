-------------------------- MODULE MCModelRecovery --------------------------
(* Two models.  The first has a daily limit and is what the router gives;    *)
(* the second is the only one for images and falls back to the first.  One   *)
(* request comes through a pool; the other carries an image without one, and *)
(* whatever it reads may fail.                                               *)
EXTENDS ModelRecovery, TLC

CONSTANTS m1, m2, r1, r2, DayLimit

MCPool == [fast |-> {m1, m2}, vision |-> {m2}]

MCSettings ==
  m1 :> [fallback |-> None, strategy |-> "trim", limit |-> DayLimit, retries |-> 0, backoff |-> TRUE] @@
  m2 :> [fallback |-> m1, strategy |-> "fallback", limit |-> 0, retries |-> 0, backoff |-> FALSE]

MCReports == m1 :> {1} @@ m2 :> {}

Text == [route |-> "fast", image |-> FALSE, tools |-> TRUE]
Image == [route |-> "vision", image |-> TRUE, tools |-> TRUE]
Pixels == [route |-> None, image |-> TRUE, tools |-> FALSE]
MCJobs == r1 :> {Text, Image} @@ r2 :> {Pixels}
=============================================================================
