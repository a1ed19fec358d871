----------------------- MODULE QuotaReservationProofs -----------------------
(***************************************************************************)
(* What holds of the quota for any requests, windows, limits and clocks.   *)
(***************************************************************************)
EXTENDS QuotaReservation, SumTheorems

-----------------------------------------------------------------------------
(* Type correctness, by parts.                                             *)

HandlerTypes ==
  /\ pc \in [Request -> {"new", "measuring", "measured", "reserved", "started", "serving", "ending", "over"}]
  /\ live \in [Request -> BOOLEAN]
  /\ begun \in [Request -> Nat]
  /\ measured \in [Request -> SUBSET Window]
  /\ used \in [Request -> [Window -> Nat]]

EndingTypes ==
  /\ todo \in [Request -> Seq({"release", "finish"})]
  /\ detached \in [Request -> SUBSET {"release", "finish"}]
  /\ outcome \in [Request -> Rows] /\ charge \in [Request -> Nat]

LedgerTypes ==
  /\ row \in [Request -> Rows] /\ tokens \in [Request -> Nat]
  /\ startedIn \in [Request -> [Window -> Epoch]]

PendingTypes ==
  /\ pending \in [Window -> [Epoch -> Nat]]
  /\ pendingExpiry \in [Window -> [Epoch -> Nat]]

ReservationTypes ==
  /\ reservation \in [Request -> [Window -> Nat]]
  /\ reservationExpiry \in [Request -> Nat]

ResetTypes ==
  /\ epoch \in [Window -> Epoch]
  /\ resetter \in {"idle", "checked", "redeemed", "cleared"}
  /\ credits \in 0..Credits

OtherTypes ==
  /\ clock \in Nat /\ blocked \in BOOLEAN
  /\ seen \in [Request -> [Window -> Epoch]]

LEMMA TypeParts ==
  TypeOK <=> HandlerTypes /\ EndingTypes /\ LedgerTypes /\ PendingTypes /\ ReservationTypes /\ ResetTypes
             /\ OtherTypes
  BY DEF TypeOK, HandlerTypes, EndingTypes, LedgerTypes, PendingTypes, ReservationTypes, ResetTypes, OtherTypes

\* The same of the state after a step.
LEMMA TypePartsNext ==
  TypeOK' <=> (HandlerTypes /\ EndingTypes /\ LedgerTypes /\ PendingTypes /\ ReservationTypes /\ ResetTypes
               /\ OtherTypes)'
  BY DEF TypeOK, HandlerTypes, EndingTypes, LedgerTypes, PendingTypes, ReservationTypes, ResetTypes, OtherTypes

LEMMA ZeroType == Zero \in [Window -> Nat] /\ Zero \in [Window -> Epoch]
  BY QuotaAssumption DEF Zero, Epoch

LEMMA InitTypes == Init => TypeOK
<1> SUFFICES ASSUME Init PROVE TypeOK
  OBVIOUS
<1> USE ZeroType
<1>1. HandlerTypes /\ EndingTypes
  BY DEF Init, HandlerTypes, EndingTypes, Rows
<1>2. LedgerTypes /\ PendingTypes /\ ReservationTypes
  BY DEF Init, LedgerTypes, PendingTypes, ReservationTypes, Rows
<1>3. ResetTypes /\ OtherTypes
  <2>1. ResetTypes
    BY QuotaAssumption DEF Init, ResetTypes
  <2>2. seen \in [Request -> [Window -> Epoch]]
    BY DEF Init
  <2> QED
    BY <2>1, <2>2 DEF Init, OtherTypes
<1> QED
  BY <1>1, <1>2, <1>3, TypeParts

\* The ledger's sums are sums of natural numbers.
LEMMA UsedInNat ==
  ASSUME LedgerTypes, NEW w, NEW k
  PROVE  UsedTokens(w, k) \in Nat
<1>1. Counted(w, k) \in SUBSET Request
  BY DEF Counted
<1>2. IsFiniteSet(Counted(w, k))
  BY <1>1, FS_Subset, QuotaAssumption
<1>3. \A q \in Counted(w, k) : tokens[q] \in Nat
  BY <1>1 DEF LedgerTypes
<1> QED
  BY <1>2, <1>3, SumInNat DEF UsedTokens

\* A handler that goes on or returns keeps its types.
LEMMA GotoTypes ==
  ASSUME HandlerTypes, NEW q \in Request, Goto(q, "reserved") \/ Goto(q, "started") \/ Goto(q, "serving") \/ Goto(q, "ending")
  PROVE  HandlerTypes'
  BY DEF HandlerTypes, Goto

LEMMA ReturnTypes ==
  ASSUME HandlerTypes, EndingTypes, NEW q \in Request, Return(q)
  PROVE  HandlerTypes' /\ EndingTypes'
<1>1. HandlerTypes'
  BY ZeroType DEF HandlerTypes, Return
<1>2. EndingTypes'
  BY DEF EndingTypes, Return, Rows
<1> QED
  BY <1>1, <1>2

LEMMA EndTypes ==
  ASSUME HandlerTypes, EndingTypes, NEW q \in Request, NEW order \in Seq({"release", "finish"}),
         NEW free \in SUBSET {"release", "finish"}, NEW status \in Rows, NEW n \in Nat, End(q, order, free, status, n)
  PROVE  HandlerTypes' /\ EndingTypes'
<1>1. HandlerTypes'
  BY GotoTypes DEF End
<1>2. EndingTypes'
  BY DEF EndingTypes, End
<1> QED
  BY <1>1, <1>2

-----------------------------------------------------------------------------
(* What a handler that ends still has to do.                               *)

Orders == {<<"release">>, <<"finish">>, <<"release", "finish">>, <<"finish", "release">>}

Ordered == \A q \in Request : pc[q] = "ending" => todo[q] \in Orders

TypeInv == TypeOK /\ Ordered

\* The orders are sequences of steps; what is left of one is another.
LEMMA OrderFacts ==
  /\ Orders \subseteq Seq({"release", "finish"})
  /\ Head(<<"release">>) = "release" /\ Len(<<"release">>) = 1
  /\ Head(<<"finish">>) = "finish" /\ Len(<<"finish">>) = 1
  /\ Head(<<"release", "finish">>) = "release" /\ Len(<<"release", "finish">>) = 2
  /\ Head(<<"finish", "release">>) = "finish" /\ Len(<<"finish", "release">>) = 2
  /\ Tail(<<"release", "finish">>) = <<"finish">> /\ Tail(<<"finish", "release">>) = <<"release">>
  BY DEF Orders

LEMMA OrderGoesOn ==
  ASSUME NEW order \in Orders, Len(order) # 1
  PROVE  Tail(order) \in Orders
  BY OrderFacts DEF Orders

\* A handler that ends has one of the orders before it, and goes on with what is
\* left of it.
LEMMA AdvanceTypes ==
  ASSUME HandlerTypes, EndingTypes, Ordered, NEW q \in Request, pc[q] = "ending", Advance(q)
  PROVE  HandlerTypes' /\ EndingTypes' /\ Ordered'
<1>0. todo[q] \in Orders /\ pc \in [Request -> {"new", "measuring", "measured", "reserved", "started", "serving", "ending", "over"}]
      /\ todo \in [Request -> Seq({"release", "finish"})]
  BY DEF Ordered, HandlerTypes, EndingTypes
<1>1. CASE Len(todo[q]) = 1
  <2>1. Return(q)
    BY <1>1 DEF Advance
  <2>2. Ordered'
    BY <1>0, <2>1 DEF Ordered, Return
  <2> QED
    BY <2>1, <2>2, ReturnTypes
<1>2. CASE Len(todo[q]) # 1
  <2>1. /\ todo' = [todo EXCEPT ![q] = Tail(todo[q])]
        /\ Goto(q, "ending")
        /\ UNCHANGED <<detached, outcome, charge>>
    BY <1>2 DEF Advance
  <2>2. Tail(todo[q]) \in Orders
    BY <1>0, <1>2, OrderGoesOn
  <2>3. HandlerTypes'
    BY <2>1, GotoTypes
  <2>4. EndingTypes'
    BY <2>1, <2>2, OrderFacts DEF EndingTypes
  <2>5. Ordered'
    BY <1>0, <2>1, <2>2 DEF Ordered, Goto
  <2> QED
    BY <2>3, <2>4, <2>5
<1> QED
  BY <1>1, <1>2

-----------------------------------------------------------------------------
(* The two scripts.                                                        *)

\* The shares of a reservation, as the reserve script computes them.
Share(q) == [w \in Window |-> IF Amount[q] < Headroom(q, w) THEN Amount[q] ELSE Headroom(q, w)]

\* The script reserves something of every window, and no more than its headroom.
LEMMA ShareFacts ==
  ASSUME TypeOK, NEW q \in Request, Free(q)
  PROVE  /\ Share(q) \in [Window -> Nat]
         /\ \A w \in Window : Share(q)[w] > 0 /\ Share(q)[w] <= Headroom(q, w)
<1>1. Amount[q] \in Nat /\ Amount[q] > 0 /\ Limit \in [Window -> Nat]
  BY QuotaAssumption
<1>2. used[q] \in [Window -> Nat] /\ seen[q] \in [Window -> Epoch] /\ pending \in [Window -> [Epoch -> Nat]]
  BY DEF TypeOK
<1>3. ASSUME NEW w \in Window
      PROVE  /\ Share(q)[w] \in Nat
             /\ Share(q)[w] > 0 /\ Share(q)[w] <= Headroom(q, w)
  <2>1. Limit[w] \in Nat /\ used[q][w] \in Nat /\ pending[w][seen[q][w]] \in Nat
    BY <1>1, <1>2
  <2>2. Headroom(q, w) \in Int /\ Headroom(q, w) > 0
    BY <2>1 DEF Free, Headroom
  <2>3. Share(q)[w] = IF Amount[q] < Headroom(q, w) THEN Amount[q] ELSE Headroom(q, w)
    BY DEF Share
  <2> QED
    BY <1>1, <2>2, <2>3
<1> QED
  BY <1>3 DEF Share

\* What each script leaves in the store.
LEMMA ReserveFacts ==
  ASSUME TypeOK, NEW q \in Request, ReserveScript(q)
  PROVE  /\ \A w \in Window, k \in Epoch :
              /\ pending'[w][k] = pending[w][k] + (IF k = seen[q][w] THEN Share(q)[w] ELSE 0)
              /\ pendingExpiry'[w][k] = IF k = seen[q][w] THEN clock + KeyTTL ELSE pendingExpiry[w][k]
         /\ reservation' = [reservation EXCEPT ![q] = Share(q)]
         /\ reservationExpiry' = [reservationExpiry EXCEPT ![q] = clock + KeyTTL]
<1>1. /\ pending' = [w \in Window |-> [pending[w] EXCEPT ![seen[q][w]] = @ + Share(q)[w]]]
      /\ pendingExpiry' = [w \in Window |-> [pendingExpiry[w] EXCEPT ![seen[q][w]] = clock + KeyTTL]]
      /\ reservation' = [reservation EXCEPT ![q] = Share(q)]
      /\ reservationExpiry' = [reservationExpiry EXCEPT ![q] = clock + KeyTTL]
  BY DEF ReserveScript, Share
<1>2. ASSUME NEW w \in Window, NEW k \in Epoch
      PROVE  /\ pending'[w][k] = pending[w][k] + (IF k = seen[q][w] THEN Share(q)[w] ELSE 0)
             /\ pendingExpiry'[w][k] = IF k = seen[q][w] THEN clock + KeyTTL ELSE pendingExpiry[w][k]
  <2>1. pending[w] \in [Epoch -> Nat] /\ pendingExpiry[w] \in [Epoch -> Nat]
    BY DEF TypeOK
  <2>2. pending[w][k] \in Nat
    BY <2>1
  <2> QED
    BY <1>1, <2>1, <2>2
<1> QED
  BY <1>1, <1>2

LEMMA ReleaseFacts ==
  ASSUME TypeOK, NEW q \in Request, ReleaseScript(q)
  PROVE  /\ \A w \in Window, k \in Epoch :
              LET left == pending[w][k] - reservation[q][w] IN
              /\ pending'[w][k] = IF k # seen[q][w] THEN pending[w][k] ELSE IF left <= 0 THEN 0 ELSE left
              /\ pendingExpiry'[w][k] =
                   IF k # seen[q][w] THEN pendingExpiry[w][k] ELSE IF left <= 0 THEN 0 ELSE clock + KeyTTL
         /\ reservation' = [reservation EXCEPT ![q] = Zero]
         /\ reservationExpiry' = [reservationExpiry EXCEPT ![q] = 0]
<1> DEFINE left == [w \in Window |-> pending[w][seen[q][w]] - reservation[q][w]]
<1>1. /\ pending' = [w \in Window |-> [pending[w] EXCEPT ![seen[q][w]] = IF left[w] <= 0 THEN 0 ELSE left[w]]]
      /\ pendingExpiry' =
           [w \in Window |-> [pendingExpiry[w] EXCEPT ![seen[q][w]] = IF left[w] <= 0 THEN 0 ELSE clock + KeyTTL]]
      /\ reservation' = [reservation EXCEPT ![q] = Zero]
      /\ reservationExpiry' = [reservationExpiry EXCEPT ![q] = 0]
  BY DEF ReleaseScript
<1>2. ASSUME NEW w \in Window, NEW k \in Epoch
      PROVE  LET rest == pending[w][k] - reservation[q][w] IN
             /\ pending'[w][k] = IF k # seen[q][w] THEN pending[w][k] ELSE IF rest <= 0 THEN 0 ELSE rest
             /\ pendingExpiry'[w][k] =
                  IF k # seen[q][w] THEN pendingExpiry[w][k] ELSE IF rest <= 0 THEN 0 ELSE clock + KeyTTL
  <2>1. pending[w] \in [Epoch -> Nat] /\ pendingExpiry[w] \in [Epoch -> Nat]
    BY DEF TypeOK
  <2>2. CASE k = seen[q][w]
    BY <1>1, <2>1, <2>2
  <2>3. CASE k # seen[q][w]
    BY <1>1, <2>1, <2>3
  <2> QED
    BY <2>2, <2>3
<1> QED
  BY <1>1, <1>2

\* The scripts keep the types of the store.
LEMMA ReserveTypes ==
  ASSUME TypeOK, NEW q \in Request, Free(q), ReserveScript(q)
  PROVE  PendingTypes' /\ ReservationTypes'
<1>1. /\ pending' = [w \in Window |-> [pending[w] EXCEPT ![seen[q][w]] = @ + Share(q)[w]]]
      /\ pendingExpiry' = [w \in Window |-> [pendingExpiry[w] EXCEPT ![seen[q][w]] = clock + KeyTTL]]
  BY DEF ReserveScript, Share
<1>2. Share(q) \in [Window -> Nat] /\ clock + KeyTTL \in Nat
  <2>1. clock \in Nat /\ KeyTTL \in Nat
    BY QuotaAssumption DEF TypeOK
  <2> QED
    BY <2>1, ShareFacts
<1>3. ASSUME NEW w \in Window
      PROVE  /\ [pending[w] EXCEPT ![seen[q][w]] = @ + Share(q)[w]] \in [Epoch -> Nat]
             /\ [pendingExpiry[w] EXCEPT ![seen[q][w]] = clock + KeyTTL] \in [Epoch -> Nat]
  <2>1. pending[w] \in [Epoch -> Nat] /\ pendingExpiry[w] \in [Epoch -> Nat] /\ seen[q][w] \in Epoch
    BY DEF TypeOK
  <2>2. Share(q)[w] \in Nat /\ pending[w][seen[q][w]] \in Nat
    BY <1>2, <2>1
  <2> QED
    BY <1>2, <2>1, <2>2
<1>4. PendingTypes'
  BY <1>1, <1>3 DEF PendingTypes
<1>5. ReservationTypes'
  <2>1. reservation' = [reservation EXCEPT ![q] = Share(q)]
        /\ reservationExpiry' = [reservationExpiry EXCEPT ![q] = clock + KeyTTL]
    BY DEF ReserveScript, Share
  <2>2. reservation \in [Request -> [Window -> Nat]] /\ reservationExpiry \in [Request -> Nat]
    BY DEF TypeOK
  <2> QED
    BY <1>2, <2>1, <2>2 DEF ReservationTypes
<1> QED
  BY <1>4, <1>5

LEMMA ReleaseTypes ==
  ASSUME TypeOK, NEW q \in Request, ReleaseScript(q)
  PROVE  PendingTypes' /\ ReservationTypes'
<1> DEFINE left == [w \in Window |-> pending[w][seen[q][w]] - reservation[q][w]]
<1>1. /\ pending' = [w \in Window |-> [pending[w] EXCEPT ![seen[q][w]] = IF left[w] <= 0 THEN 0 ELSE left[w]]]
      /\ pendingExpiry' =
           [w \in Window |-> [pendingExpiry[w] EXCEPT ![seen[q][w]] = IF left[w] <= 0 THEN 0 ELSE clock + KeyTTL]]
  BY DEF ReleaseScript
<1>2. clock + KeyTTL \in Nat
  BY QuotaAssumption DEF TypeOK
<1>3. ASSUME NEW w \in Window
      PROVE  /\ [pending[w] EXCEPT ![seen[q][w]] = IF left[w] <= 0 THEN 0 ELSE left[w]] \in [Epoch -> Nat]
             /\ [pendingExpiry[w] EXCEPT ![seen[q][w]] = IF left[w] <= 0 THEN 0 ELSE clock + KeyTTL] \in [Epoch -> Nat]
  <2>1. pending[w] \in [Epoch -> Nat] /\ pendingExpiry[w] \in [Epoch -> Nat] /\ seen[q][w] \in Epoch
    BY DEF TypeOK
  <2>2. reservation[q][w] \in Nat /\ pending[w][seen[q][w]] \in Nat
    BY <2>1 DEF TypeOK
  <2>3. left[w] \in Int
    BY <2>2
  <2>4. (IF left[w] <= 0 THEN 0 ELSE left[w]) \in Nat
    BY <2>3
  <2> QED
    BY <1>2, <2>1, <2>4
<1>4. PendingTypes'
  BY <1>1, <1>3 DEF PendingTypes
<1>5. ReservationTypes'
  <2>1. reservation' = [reservation EXCEPT ![q] = Zero] /\ reservationExpiry' = [reservationExpiry EXCEPT ![q] = 0]
    BY DEF ReleaseScript
  <2>2. reservation \in [Request -> [Window -> Nat]] /\ reservationExpiry \in [Request -> Nat]
    BY DEF TypeOK
  <2> QED
    BY <2>1, <2>2, ZeroType DEF ReservationTypes
<1> QED
  BY <1>4, <1>5

-----------------------------------------------------------------------------
(* Every step keeps the types.                                             *)

\* Admission.
LEMMA BeginTypes ==
  ASSUME TypeInv, NEW q \in Request, BeginQuota(q)
  PROVE  TypeInv'
<1> USE DEF TypeInv
<1>1. HandlerTypes /\ OtherTypes /\ ResetTypes
  BY TypeParts
<1>2. HandlerTypes'
  BY <1>1 DEF BeginQuota, HandlerTypes, OtherTypes
<1>3. OtherTypes'
  BY <1>1 DEF BeginQuota, OtherTypes, ResetTypes
<1>4. (EndingTypes /\ LedgerTypes /\ PendingTypes /\ ReservationTypes /\ ResetTypes)'
  BY TypeParts DEF BeginQuota, ending, ledger, runtime, resets, EndingTypes, LedgerTypes, PendingTypes,
     ReservationTypes, ResetTypes
<1>5. Ordered'
  BY <1>1 DEF BeginQuota, ending, Ordered, HandlerTypes
<1> QED
  BY <1>2, <1>3, <1>4, <1>5, TypePartsNext

LEMMA MeasureTypes ==
  ASSUME TypeInv, NEW q \in Request, Measure(q)
  PROVE  TypeInv'
<1> USE DEF TypeInv
<1>1. HandlerTypes /\ LedgerTypes
  BY TypeParts
<1>2. PICK w \in Window \ measured[q] :
        /\ used' = [used EXCEPT ![q][w] = UsedTokens(w, seen[q][w])]
        /\ measured' = [measured EXCEPT ![q] = @ \cup {w}]
  BY Zenon DEF Measure
<1>3. UsedTokens(w, seen[q][w]) \in Nat
  BY <1>1, UsedInNat
<1>4. used' \in [Request -> [Window -> Nat]] /\ measured' \in [Request -> SUBSET Window]
  BY <1>1, <1>2, <1>3 DEF HandlerTypes
<1>5. /\ pc' = [pc EXCEPT ![q] = IF measured'[q] = Window THEN "measured" ELSE @]
      /\ pc[q] = "measuring" /\ UNCHANGED <<live, begun>>
  BY DEF Measure
<1>6. HandlerTypes'
  BY <1>1, <1>4, <1>5 DEF HandlerTypes
<1>7. (EndingTypes /\ LedgerTypes /\ PendingTypes /\ ReservationTypes /\ ResetTypes /\ OtherTypes)'
  BY TypeParts DEF Measure, ending, ledger, runtime, resets, EndingTypes, LedgerTypes, PendingTypes,
     ReservationTypes, ResetTypes, OtherTypes
<1>8. Ordered'
  BY <1>1, <1>5 DEF Measure, ending, Ordered, HandlerTypes
<1> QED
  BY <1>6, <1>7, <1>8, TypePartsNext

\* A handler that returns has nothing left to do.
LEMMA ReturnOrdered ==
  ASSUME HandlerTypes, Ordered, NEW q \in Request, Return(q)
  PROVE  Ordered'
  BY DEF HandlerTypes, Ordered, Return

LEMMA DenyTypes ==
  ASSUME TypeInv, NEW q \in Request, Deny(q) \/ Crash(q)
  PROVE  TypeInv'
<1> USE DEF TypeInv
<1>1. Return(q) /\ UNCHANGED <<clock, seen, ledger, runtime, blocked, resets>>
  BY DEF Deny, Crash
<1>2. (HandlerTypes /\ EndingTypes /\ Ordered)'
  BY <1>1, ReturnTypes, ReturnOrdered, TypeParts
<1>3. (LedgerTypes /\ PendingTypes /\ ReservationTypes /\ ResetTypes /\ OtherTypes)'
  BY <1>1, TypeParts DEF ledger, runtime, resets, LedgerTypes, PendingTypes, ReservationTypes, ResetTypes, OtherTypes
<1> QED
  BY <1>2, <1>3, TypePartsNext

LEMMA ReserveStepTypes ==
  ASSUME TypeInv, NEW q \in Request, Reserve(q)
  PROVE  TypeInv'
<1> USE DEF TypeInv
<1>1. HandlerTypes /\ EndingTypes /\ PendingTypes /\ ReservationTypes
  BY TypeParts
<1>2. (LedgerTypes /\ ResetTypes)' /\ clock' = clock /\ seen' = seen
  BY TypeParts DEF Reserve, ledger, resets, LedgerTypes, ResetTypes
<1>3. (PendingTypes /\ ReservationTypes)'
  <2>1. (ReserveScript(q) /\ ~Refused(q)) \/ UNCHANGED runtime
    BY DEF Reserve
  <2>2. ASSUME ReserveScript(q), ~Refused(q) PROVE (PendingTypes /\ ReservationTypes)'
    BY <2>2, ReserveTypes DEF Refused
  <2>3. ASSUME UNCHANGED runtime PROVE (PendingTypes /\ ReservationTypes)'
    BY <1>1, <2>3 DEF runtime, PendingTypes, ReservationTypes
  <2> QED
    BY <2>1, <2>2, <2>3
<1>4. (HandlerTypes /\ EndingTypes /\ Ordered)'
  <2>1. (Goto(q, "reserved") /\ UNCHANGED ending) \/ Return(q)
    BY DEF Reserve
  <2>2. ASSUME Goto(q, "reserved"), UNCHANGED ending PROVE (HandlerTypes /\ EndingTypes /\ Ordered)'
    <3>1. HandlerTypes'
      BY <1>1, <2>2, GotoTypes
    <3>2. EndingTypes' /\ Ordered'
      BY <1>1, <2>2 DEF Goto, ending, EndingTypes, Ordered, HandlerTypes
    <3> QED
      BY <3>1, <3>2
  <2>3. ASSUME Return(q) PROVE (HandlerTypes /\ EndingTypes /\ Ordered)'
    BY <1>1, <2>3, ReturnTypes, ReturnOrdered
  <2> QED
    BY <2>1, <2>2, <2>3
<1>5. OtherTypes'
  <2>1. blocked' \in BOOLEAN
    BY DEF Reserve, TypeOK
  <2> QED
    BY <1>2, <2>1, TypeParts DEF OtherTypes
<1> QED
  BY <1>2, <1>3, <1>4, <1>5, TypePartsNext

\* The handler goes on to its end with one of the orders.
Ends(q) ==
  \E order \in Orders, free \in SUBSET {"release", "finish"}, status \in Rows, n \in Nat :
    End(q, order, free, status, n)

LEMMA EndsTypes ==
  ASSUME HandlerTypes, EndingTypes, Ordered, NEW q \in Request, Ends(q)
  PROVE  HandlerTypes' /\ EndingTypes' /\ Ordered'
<1>1. PICK order \in Orders, free \in SUBSET {"release", "finish"}, status \in Rows, n \in Nat :
        End(q, order, free, status, n)
  BY Zenon DEF Ends
<1>2. order \in Seq({"release", "finish"})
  BY OrderFacts
<1>3. HandlerTypes' /\ EndingTypes'
  BY <1>1, <1>2, EndTypes
<1>4. Ordered'
  <2>1. todo' = [todo EXCEPT ![q] = order] /\ pc' = [pc EXCEPT ![q] = "ending"]
    BY <1>1 DEF End, Goto
  <2> QED
    BY <2>1 DEF Ordered, HandlerTypes, EndingTypes
<1> QED
  BY <1>3, <1>4

\* From there on it goes on to serve, or ends.
LEMMA ServesTypes ==
  ASSUME HandlerTypes, EndingTypes, Ordered, NEW q \in Request,
         Ends(q) \/ ((Goto(q, "started") \/ Goto(q, "serving")) /\ UNCHANGED ending)
  PROVE  HandlerTypes' /\ EndingTypes' /\ Ordered'
<1>1. CASE Ends(q)
  BY <1>1, EndsTypes
<1>2. CASE (Goto(q, "started") \/ Goto(q, "serving")) /\ UNCHANGED ending
  <2>1. HandlerTypes'
    BY <1>2, GotoTypes
  <2>2. EndingTypes' /\ Ordered'
    BY <1>2 DEF Goto, ending, EndingTypes, Ordered, HandlerTypes
  <2> QED
    BY <2>1, <2>2
<1> QED
  BY <1>1, <1>2

\* The charges are natural numbers.
LEMMA ChargeTypes ==
  ASSUME NEW q \in Request, NEW n \in Charges(q)
  PROVE  n \in Nat /\ n > 0
  BY QuotaAssumption DEF Charges

\* Each way in which a request is not served, or served, is such an end.
LEMMA ServingEnds ==
  ASSUME NEW q \in Request, Stream(q) \/ Buffer(q) \/ UpstreamError(q) \/ ReadError(q)
  PROVE  Ends(q)
<1> DEFINE Both == {"release", "finish"}
<1>1. \A status \in {"completed", "cancelled", "failed"} : status \in Rows
  BY DEF Rows
<1>2. <<"finish", "release">> \in Orders /\ <<"release", "finish">> \in Orders
  BY DEF Orders
<1>3. CASE Stream(q)
  <2>1. CASE \E n \in Charges(q) : End(q, <<"finish", "release">>, Both, "completed", n)
    BY <1>1, <1>2, <2>1, ChargeTypes DEF Ends
  <2>2. CASE End(q, <<"finish", "release">>, Both, "cancelled", 0) \/ End(q, <<"finish", "release">>, Both, "failed", 0)
    BY <1>1, <1>2, <2>2 DEF Ends
  <2> QED
    BY <1>3, <2>1, <2>2 DEF Stream
<1>4. CASE Buffer(q)
  <2>1. CASE \E n \in Charges(q) : End(q, <<"finish", "release">>, {}, "completed", n)
    BY <1>1, <1>2, <2>1, ChargeTypes DEF Ends
  <2>2. CASE End(q, <<"finish", "release">>, {}, "failed", 0)
    BY <1>1, <1>2, <2>2 DEF Ends
  <2> QED
    BY <1>4, <2>1, <2>2 DEF Buffer
<1>5. CASE UpstreamError(q)
  <2>1. (IF live[q] THEN "failed" ELSE "cancelled") \in Rows /\ {"finish"} \in SUBSET Both
    BY <1>1
  <2>2. End(q, <<"release", "finish">>, {"finish"}, IF live[q] THEN "failed" ELSE "cancelled", 0)
    BY <1>5 DEF UpstreamError
  <2> QED
    BY <1>2, <2>1, <2>2 DEF Ends
<1>6. CASE ReadError(q)
  <2>1. End(q, <<"release", "finish">>, {}, "failed", 0)
    BY <1>6 DEF ReadError
  <2> QED
    BY <1>1, <1>2, <2>1 DEF Ends
<1> QED
  BY <1>3, <1>4, <1>5, <1>6

LEMMA StartTypes ==
  ASSUME TypeInv, NEW q \in Request, StartUsage(q)
  PROVE  TypeInv'
<1> USE DEF TypeInv
<1>1. HandlerTypes /\ EndingTypes /\ LedgerTypes /\ ResetTypes
  BY TypeParts
<1>2. (Goto(q, "started") /\ UNCHANGED ending) \/ End(q, <<"release">>, {}, "none", 0)
  BY DEF StartUsage
<1>3. (Goto(q, "started") /\ UNCHANGED ending) \/ Ends(q)
  BY <1>2 DEF Ends, Orders, Rows
<1>4. (HandlerTypes /\ EndingTypes /\ Ordered)'
  BY <1>1, <1>3, ServesTypes
<1>5. LedgerTypes'
  BY <1>1 DEF StartUsage, LedgerTypes, ResetTypes, Rows
<1>6. (PendingTypes /\ ReservationTypes /\ ResetTypes /\ OtherTypes)'
  BY TypeParts DEF StartUsage, runtime, resets, PendingTypes, ReservationTypes, ResetTypes, OtherTypes
<1> QED
  BY <1>4, <1>5, <1>6, TypePartsNext

LEMMA ServingTypes ==
  ASSUME TypeInv, NEW q \in Request, Acquire(q) \/ Stream(q) \/ Buffer(q) \/ UpstreamError(q) \/ ReadError(q)
  PROVE  TypeInv'
<1> USE DEF TypeInv
<1>1. HandlerTypes /\ EndingTypes
  BY TypeParts
<1>2. (Goto(q, "serving") /\ UNCHANGED ending) \/ Ends(q)
  <2>1. CASE Acquire(q)
    <3>1. CASE \E status \in {"cancelled", "failed"} :
                 End(q, <<"release", "finish">>, {"release", "finish"}, status, 0)
      BY <3>1 DEF Ends, Orders, Rows
    <3> QED
      BY <2>1, <3>1 DEF Acquire
  <2> QED
    BY <2>1, ServingEnds
<1>3. (HandlerTypes /\ EndingTypes /\ Ordered)'
  BY <1>1, <1>2, ServesTypes
<1>4. UNCHANGED <<clock, seen, ledger, runtime, blocked, resets>>
  BY DEF Acquire, Stream, Buffer, UpstreamError, ReadError
<1>5. (LedgerTypes /\ PendingTypes /\ ReservationTypes /\ ResetTypes /\ OtherTypes)'
  BY <1>4, TypeParts DEF ledger, runtime, resets, LedgerTypes, PendingTypes, ReservationTypes, ResetTypes, OtherTypes
<1> QED
  BY <1>3, <1>5, TypePartsNext

LEMMA ReleaseStepTypes ==
  ASSUME TypeInv, NEW q \in Request, Release(q)
  PROVE  TypeInv'
<1> USE DEF TypeInv
<1>1. HandlerTypes /\ EndingTypes /\ PendingTypes /\ ReservationTypes
  BY TypeParts
<1>2. (HandlerTypes /\ EndingTypes /\ Ordered)'
  BY <1>1, AdvanceTypes DEF Release
<1>3. (PendingTypes /\ ReservationTypes)'
  <2>1. ReleaseScript(q) \/ UNCHANGED runtime
    BY DEF Release
  <2>2. ASSUME UNCHANGED runtime PROVE (PendingTypes /\ ReservationTypes)'
    BY <1>1, <2>2 DEF runtime, PendingTypes, ReservationTypes
  <2> QED
    BY <2>1, <2>2, ReleaseTypes
<1>4. (LedgerTypes /\ ResetTypes /\ OtherTypes)'
  BY TypeParts DEF Release, ledger, resets, LedgerTypes, ResetTypes, OtherTypes
<1> QED
  BY <1>2, <1>3, <1>4, TypePartsNext

LEMMA FinishTypes ==
  ASSUME TypeInv, NEW q \in Request, Finish(q)
  PROVE  TypeInv'
<1> USE DEF TypeInv
<1>1. HandlerTypes /\ EndingTypes /\ LedgerTypes
  BY TypeParts
<1>2. (HandlerTypes /\ EndingTypes /\ Ordered)'
  BY <1>1, AdvanceTypes DEF Finish
<1>3. LedgerTypes'
  BY <1>1 DEF Finish, LedgerTypes, EndingTypes
<1>4. (PendingTypes /\ ReservationTypes /\ ResetTypes /\ OtherTypes)'
  BY TypeParts DEF Finish, runtime, resets, PendingTypes, ReservationTypes, ResetTypes, OtherTypes
<1> QED
  BY <1>2, <1>3, <1>4, TypePartsNext

\* The resets: they move windows and clear the store.
LEMMA ResetStepTypes ==
  ASSUME TypeInv, Reset
  PROVE  TypeInv'
<1> USE DEF TypeInv
<1>1. HandlerTypes /\ EndingTypes /\ LedgerTypes /\ PendingTypes /\ ReservationTypes /\ ResetTypes /\ OtherTypes
  BY TypeParts
<1>2. UNCHANGED <<clock, handler, ledger>>
  BY DEF Reset, CheckReset, Redeem, RefuseReset, AdminReset, ClearPending, ClearReservations
<1>3. (HandlerTypes /\ EndingTypes /\ LedgerTypes /\ Ordered)' /\ clock' = clock /\ seen' = seen
  BY <1>1, <1>2 DEF handler, decision, ending, ledger, HandlerTypes, EndingTypes, LedgerTypes, Ordered
<1>4. PendingTypes'
  <2>1. CASE ClearPending
    BY <1>1, <2>1 DEF ClearPending, PendingTypes
  <2>2. CASE ~ClearPending
    <3>1. UNCHANGED <<pending, pendingExpiry>>
      BY <2>2 DEF Reset, CheckReset, Redeem, RefuseReset, AdminReset, ClearReservations, runtime
    <3> QED
      BY <1>1, <3>1 DEF PendingTypes
  <2> QED
    BY <2>1, <2>2
<1>5. ReservationTypes'
  <2>1. CASE ClearReservations
    BY <1>1, <2>1, ZeroType DEF ClearReservations, ReservationTypes
  <2>2. CASE ~ClearReservations
    <3>1. UNCHANGED <<reservation, reservationExpiry>>
      BY <2>2 DEF Reset, CheckReset, Redeem, RefuseReset, AdminReset, ClearPending, runtime
    <3> QED
      BY <1>1, <3>1 DEF ReservationTypes
  <2> QED
    BY <2>1, <2>2
<1>6. epoch' \in [Window -> Epoch]
  <2>0. epoch \in [Window -> Epoch] /\ MaxEpoch \in Nat
    BY <1>1, QuotaAssumption DEF ResetTypes
  <2>1. CASE Redeem \/ AdminReset
    <3>1. (\A w \in Window : epoch[w] < MaxEpoch) /\ epoch' = [w \in Window |-> epoch[w] + 1]
      BY <2>1 DEF Redeem, AdminReset
    <3>2. \A w \in Window : epoch[w] \in Epoch
      BY <2>0
    <3> QED
      BY <2>0, <3>1, <3>2 DEF Epoch
  <2>2. CASE ~(Redeem \/ AdminReset)
    BY <2>0, <2>2 DEF Reset, CheckReset, RefuseReset, ClearPending, ClearReservations
  <2> QED
    BY <2>1, <2>2
<1>7. resetter' \in {"idle", "checked", "redeemed", "cleared"}
  BY DEF Reset, CheckReset, Redeem, RefuseReset, AdminReset, ClearPending, ClearReservations
<1>8. credits' \in 0..Credits
  <2>0. credits \in 0..Credits /\ Credits \in Nat
    BY <1>1, QuotaAssumption DEF ResetTypes
  <2>1. credits' = credits \/ (credits > 0 /\ credits' = credits - 1)
    BY DEF Reset, CheckReset, Redeem, RefuseReset, AdminReset, ClearPending, ClearReservations
  <2> QED
    BY <2>0, <2>1
<1>9. blocked' \in BOOLEAN
  <2>1. blocked' = blocked \/ blocked' = FALSE
    BY DEF Reset, CheckReset, Redeem, RefuseReset, AdminReset, ClearPending, ClearReservations
  <2> QED
    BY <1>1, <2>1 DEF OtherTypes
<1>10. ResetTypes' /\ OtherTypes'
  BY <1>1, <1>3, <1>6, <1>7, <1>8, <1>9 DEF ResetTypes, OtherTypes
<1> QED
  BY <1>3, <1>4, <1>5, <1>10, TypePartsNext

\* The environment.
LEMMA ContextTypes ==
  ASSUME TypeInv, NEW q \in Request, ContextDone(q)
  PROVE  TypeInv'
<1> USE DEF TypeInv
<1>1. HandlerTypes'
  BY TypeParts DEF ContextDone, decision, HandlerTypes
<1>2. (EndingTypes /\ LedgerTypes /\ PendingTypes /\ ReservationTypes /\ ResetTypes /\ OtherTypes)'
  BY TypeParts DEF ContextDone, decision, ending, ledger, runtime, resets, EndingTypes, LedgerTypes, PendingTypes,
     ReservationTypes, ResetTypes, OtherTypes
<1>3. Ordered'
  BY DEF ContextDone, ending, Ordered
<1> QED
  BY <1>1, <1>2, <1>3, TypePartsNext

LEMMA RollTypes ==
  ASSUME TypeInv, NEW w \in Window, Roll(w)
  PROVE  TypeInv'
<1> USE DEF TypeInv
<1>1. epoch' = [epoch EXCEPT ![w] = @ + 1] /\ epoch[w] < MaxEpoch /\ epoch \in [Window -> Epoch]
  BY TypeParts DEF Roll, ResetTypes
<1>2. epoch[w] + 1 \in Epoch
  BY <1>1, QuotaAssumption DEF Epoch
<1>3. ResetTypes'
  BY <1>1, <1>2, TypeParts DEF Roll, ResetTypes
<1>4. (HandlerTypes /\ EndingTypes /\ LedgerTypes /\ PendingTypes /\ ReservationTypes /\ OtherTypes /\ Ordered)'
  BY TypeParts DEF Roll, handler, decision, ending, ledger, runtime, HandlerTypes, EndingTypes, LedgerTypes,
     PendingTypes, ReservationTypes, OtherTypes, Ordered
<1> QED
  BY <1>3, <1>4, TypePartsNext

LEMMA TickTypes ==
  ASSUME TypeInv, Tick
  PROVE  TypeInv'
<1> USE DEF TypeInv
<1>1. PendingTypes /\ ReservationTypes /\ clock \in Nat
  BY TypeParts DEF OtherTypes
<1>2. PendingTypes'
  <2>1. \A w \in Window : \A k \in Epoch :
          (IF pendingExpiry[w][k] <= clock + 1 THEN 0 ELSE pending[w][k]) \in Nat
    BY <1>1 DEF PendingTypes
  <2>2. pending' = [w \in Window |-> [k \in Epoch |->
                      IF pendingExpiry[w][k] <= clock + 1 THEN 0 ELSE pending[w][k]]]
        /\ pendingExpiry' = pendingExpiry
    BY DEF Tick
  <2> QED
    BY <1>1, <2>1, <2>2 DEF PendingTypes
<1>3. ReservationTypes'
  BY <1>1, ZeroType DEF Tick, ReservationTypes
<1>4. (HandlerTypes /\ EndingTypes /\ LedgerTypes /\ ResetTypes /\ OtherTypes /\ Ordered)'
  BY <1>1, TypeParts DEF Tick, handler, decision, ending, ledger, resets, HandlerTypes, EndingTypes, LedgerTypes,
     ResetTypes, OtherTypes, Ordered
<1> QED
  BY <1>2, <1>3, <1>4, TypePartsNext

LEMMA StutterTypes ==
  ASSUME TypeInv, UNCHANGED vars
  PROVE  TypeInv'
  BY DEF TypeInv, TypeOK, Ordered, vars, handler, decision, ending, ledger, runtime, resets

\* The initial state has the types, and every step keeps them.
LEMMA TypesHold == Spec => []TypeInv
<1>1. Init => TypeInv
  BY InitTypes DEF Init, TypeInv, Ordered
<1>2. TypeInv /\ [Next]_vars => TypeInv'
  <2> SUFFICES ASSUME TypeInv, [Next]_vars PROVE TypeInv'
    OBVIOUS
  <2>1. ASSUME NEW q \in Request, Serve(q) PROVE TypeInv'
    BY <2>1, BeginTypes, MeasureTypes, DenyTypes, ReserveStepTypes, StartTypes, ServingTypes, ReleaseStepTypes,
       FinishTypes DEF Serve
  <2>2. ASSUME NEW q \in Request, ContextDone(q) \/ Crash(q) PROVE TypeInv'
    BY <2>2, ContextTypes, DenyTypes
  <2> QED
    BY <2>1, <2>2, RollTypes, ResetStepTypes, TickTypes, StutterTypes DEF Next
<1> QED
  BY <1>1, <1>2, PTL DEF Spec

\* Everything the handlers, the ledger and the store hold has its type: the
\* reservations and counters stay natural numbers although scripts subtract from
\* them, whatever is lost, expires, crashes or is reset.
THEOREM TypeCorrect == Spec => []TypeOK
<1>1. TypeInv => TypeOK
  BY DEF TypeInv
<1> QED
  BY <1>1, TypesHold, PTL

-----------------------------------------------------------------------------
(* The instants.                                                           *)

\* A request in a handler is younger than a key can be.
Young(q) == begun[q] <= LastStart /\ begun[q] <= clock /\ clock < begun[q] + KeyTTL

\* A request has begun with window w starting at k, and a key it renews in the
\* life it has left expires later than at that instant.
Renews(q, w, k, instant) ==
  /\ pc[q] # "new" /\ seen[q][w] = k
  /\ instant < begun[q] + 2 * KeyTTL

\* What is pending has not expired, and a request of the same window start is
\* young enough to have set that expiry.
Fresh(w, k) ==
  pending[w][k] > 0 =>
    /\ clock < pendingExpiry[w][k]
    /\ \E q \in Request : Renews(q, w, k, pendingExpiry[w][k])

InTime ==
  /\ \A q \in Request : Busy(q) => Young(q)
  /\ \A w \in Window, k \in Epoch : Fresh(w, k)

-----------------------------------------------------------------------------
(* What the counters cover.                                                *)

\* No administrator resets the quota and the user has no credit to do it with.
NoResets == Credits = 0 /\ AdminResets = FALSE

\* Before it has reserved anything, a request holds nothing.
Unreserved == \A q \in Request : pc[q] \in {"new", "measuring", "measured"} => reservation[q] = Zero

\* The counter of a window lives as long as each reservation that it covers.
Outlives(q) ==
  /\ reservationExpiry[q] <= clock + KeyTTL
  /\ \A w \in Window : reservation[q][w] > 0 => reservationExpiry[q] <= pendingExpiry[w][seen[q][w]]

Idle == resetter \in {"idle", "checked"} /\ credits = 0

Covers ==
  /\ Idle
  /\ \A q \in Request : Outlives(q)
  /\ PendingCoversReservations

-----------------------------------------------------------------------------
(* What is counted.                                                        *)

\* A request holds something of every window for as long as it can last.
Holds(q) == (\A w \in Window : reservation[q][w] > 0) /\ begun[q] + KeyTTL <= reservationExpiry[q]

\* Until the row of a served request is finished it holds what it reserved.
CountedNow(q) ==
  /\ pc[q] \in {"reserved", "started", "serving"} => Holds(q)
  /\ pc[q] = "ending" /\ outcome[q] = "completed" =>
       /\ todo[q] \in {<<"finish", "release">>, <<"release">>}
       /\ todo[q] = <<"finish", "release">> => Holds(q)
       /\ todo[q] = <<"release">> => row[q] = "completed" \/ Holds(q)

AlwaysCounted == \A q \in Request : CountedNow(q)

-----------------------------------------------------------------------------
(* What a step does to the store, and to the handlers.                     *)

Reserves(q) ==
  /\ pc[q] = "measured" /\ pc'[q] \notin {"new", "measuring", "measured"}
  /\ Free(q) /\ ReserveScript(q) /\ UNCHANGED <<clock, seen>>

Releases(q) == pc[q] = "ending" /\ ReleaseScript(q) /\ UNCHANGED <<clock, seen>>

Clears == (ClearPending \/ ClearReservations) /\ UNCHANGED <<clock, seen>>

\* Only these steps touch the store, the clock, or the windows a request has seen.
LEMMA StoreMoves ==
  ASSUME TypeInv, [Next]_vars
  PROVE  \/ UNCHANGED <<clock, seen, runtime>>
         \/ \E q \in Request : BeginQuota(q) \/ Reserves(q) \/ Releases(q)
         \/ Tick \/ Clears
<1> USE DEF handler, decision, ending, ledger, resets
<1>1. ASSUME NEW q \in Request, Serve(q)
      PROVE  UNCHANGED <<clock, seen, runtime>> \/ BeginQuota(q) \/ Reserves(q) \/ Releases(q)
  <2>1. CASE Reserve(q)
    <3>1. pc \in [Request -> {"new", "measuring", "measured", "reserved", "started", "serving", "ending", "over"}]
      BY DEF TypeInv, TypeOK
    <3>2. pc[q] = "measured" /\ UNCHANGED <<clock, seen>>
          /\ (UNCHANGED runtime \/ (Free(q) /\ ReserveScript(q) /\ (Goto(q, "reserved") \/ Return(q))))
      BY <2>1 DEF Reserve, Refused
    <3> QED
      BY <3>1, <3>2 DEF Reserves, Goto, Return
  <2>2. CASE Release(q)
    BY <2>2 DEF Release, Releases
  <2>3. CASE Measure(q) \/ Deny(q)
    BY <2>3 DEF Measure, Deny
  <2>4. CASE StartUsage(q) \/ Acquire(q) \/ Finish(q)
    BY <2>4 DEF StartUsage, Acquire, Finish
  <2>5. CASE Stream(q) \/ Buffer(q) \/ UpstreamError(q) \/ ReadError(q)
    BY <2>5 DEF Stream, Buffer, UpstreamError, ReadError
  <2> QED
    BY <1>1, <2>1, <2>2, <2>3, <2>4, <2>5 DEF Serve
<1>2. ASSUME NEW q \in Request, ContextDone(q) \/ Crash(q)
      PROVE  UNCHANGED <<clock, seen, runtime>>
  BY <1>2 DEF ContextDone, Crash
<1>3. ASSUME NEW w \in Window, Roll(w)
      PROVE  UNCHANGED <<clock, seen, runtime>>
  BY <1>3 DEF Roll
<1>4. ASSUME Reset
      PROVE  UNCHANGED <<clock, seen, runtime>> \/ Clears
  BY <1>4 DEF Reset, CheckReset, Redeem, RefuseReset, AdminReset, ClearPending, ClearReservations, Clears
<1>5. ASSUME UNCHANGED vars
      PROVE  UNCHANGED <<clock, seen, runtime>>
  BY <1>5 DEF vars
<1> QED
  BY <1>1, <1>2, <1>3, <1>4, <1>5 DEF Next

\* A handler begins once, at the time of the clock, and then goes on or is over.
LEMMA HandlerMoves ==
  ASSUME TypeInv, [Next]_vars, NEW p \in Request, Busy(p)'
  PROVE  \/ Busy(p) /\ begun'[p] = begun[p]
         \/ begun'[p] = clock /\ clock <= LastStart
<1> USE DEF handler, decision, ending, Busy
<1>1. /\ pc \in [Request -> {"new", "measuring", "measured", "reserved", "started", "serving", "ending", "over"}]
      /\ begun \in [Request -> Nat]
  BY DEF TypeInv, TypeOK
<1>2. ASSUME NEW q \in Request, Return(q)
      PROVE  Busy(p) /\ begun'[p] = begun[p]
  BY <1>1, <1>2 DEF Return
<1>3. ASSUME NEW q \in Request, NEW step, Goto(q, step), Busy(q)
      PROVE  Busy(p) /\ begun'[p] = begun[p]
  BY <1>1, <1>3 DEF Goto
<1>4. ASSUME NEW q \in Request, Serve(q)
      PROVE  (Busy(p) /\ begun'[p] = begun[p]) \/ (begun'[p] = clock /\ clock <= LastStart)
  <2>1. CASE BeginQuota(q)
    BY <1>1, <2>1 DEF BeginQuota
  <2>2. CASE Measure(q)
    BY <1>1, <2>2 DEF Measure
  <2>3. CASE Deny(q)
    BY <1>2, <2>3 DEF Deny
  <2>4. CASE Reserve(q)
    BY <1>2, <1>3, <2>4 DEF Reserve
  <2>5. CASE StartUsage(q) \/ Acquire(q)
    BY <1>3, <2>5 DEF StartUsage, Acquire, End
  <2>6. CASE Stream(q) \/ Buffer(q) \/ UpstreamError(q) \/ ReadError(q)
    BY <1>3, <2>6 DEF Stream, Buffer, UpstreamError, ReadError, End
  <2>7. CASE Release(q) \/ Finish(q)
    BY <1>2, <1>3, <2>7 DEF Release, Finish, Advance
  <2> QED
    BY <1>4, <2>1, <2>2, <2>3, <2>4, <2>5, <2>6, <2>7 DEF Serve
<1>5. ASSUME NEW q \in Request, ContextDone(q) \/ Crash(q)
      PROVE  Busy(p) /\ begun'[p] = begun[p]
  BY <1>2, <1>5 DEF ContextDone, Crash
<1>6. ASSUME (\E w \in Window : Roll(w)) \/ Reset \/ Tick \/ UNCHANGED vars
      PROVE  Busy(p) /\ begun'[p] = begun[p]
  <2>1. UNCHANGED handler
    BY <1>6 DEF Roll, Reset, CheckReset, Redeem, RefuseReset, AdminReset, ClearPending, ClearReservations, Tick, vars
  <2> QED
    BY <2>1
<1> QED
  BY <1>4, <1>5, <1>6 DEF Next

\* A step other than the clock's leaves the time; the clock's leaves the handlers
\* and none of them as old as a key can be.
LEMMA ClockMoves ==
  ASSUME TypeInv, [Next]_vars
  PROVE  \/ clock' = clock /\ ~Tick
         \/ /\ Tick /\ clock' = clock + 1
            /\ \A q \in Request : Busy(q)' => clock' < begun[q] + KeyTTL
<1>1. CASE Tick
  BY <1>1 DEF Tick, handler, Busy
<1>2. CASE ~Tick
  BY <1>2, StoreMoves DEF BeginQuota, Reserves, Releases, Clears
<1> QED
  BY <1>1, <1>2

\* What a handler has begun is younger than a key can be.
LEMMA YoungStays ==
  ASSUME TypeInv, InTime, [Next]_vars, NEW q \in Request, Busy(q)'
  PROVE  Young(q)'
<1>1. begun[q] \in Nat /\ clock \in Nat /\ KeyTTL \in Nat /\ KeyTTL > 1 /\ LastStart \in Nat
  BY QuotaAssumption DEF TypeInv, TypeOK
<1>2. Busy(q) => Young(q)
  BY DEF InTime
<1>3. (Busy(q) /\ begun'[q] = begun[q]) \/ (begun'[q] = clock /\ clock <= LastStart)
  BY HandlerMoves
<1>4. CASE Tick
  <2>1. Busy(q) /\ begun'[q] = begun[q]
    BY <1>4 DEF Tick, handler, Busy
  <2>2. clock' = clock + 1 /\ clock' < begun[q] + KeyTTL
    BY <1>4, ClockMoves
  <2> QED
    BY <1>1, <1>2, <2>1, <2>2 DEF Young
<1>5. CASE ~Tick
  <2>1. clock' = clock
    BY <1>5, ClockMoves
  <2> QED
    BY <1>1, <1>2, <1>3, <2>1 DEF Young
<1> QED
  BY <1>4, <1>5

\* What a request that has begun saw of the windows, and when it began, stays.
LEMMA BeginningStays ==
  ASSUME TypeInv, [Next]_vars, NEW p \in Request, pc[p] # "new"
  PROVE  pc'[p] # "new" /\ seen'[p] = seen[p] /\ begun'[p] = begun[p]
<1> USE DEF handler, decision, ending
<1>1. /\ pc \in [Request -> {"new", "measuring", "measured", "reserved", "started", "serving", "ending", "over"}]
      /\ begun \in [Request -> Nat] /\ seen \in [Request -> [Window -> Epoch]]
  BY DEF TypeInv, TypeOK
<1> DEFINE Stays == pc'[p] # "new" /\ begun'[p] = begun[p]
<1>2. ASSUME NEW q \in Request, Return(q)
      PROVE  Stays
  BY <1>1, <1>2 DEF Return
<1>3. ASSUME NEW q \in Request, NEW step \in {"reserved", "started", "serving", "ending"}, Goto(q, step)
      PROVE  Stays
  BY <1>1, <1>3 DEF Goto
<1>4. ASSUME NEW q \in Request, Serve(q)
      PROVE  Stays /\ seen'[p] = seen[p]
  <2>1. CASE BeginQuota(q)
    BY <1>1, <2>1 DEF BeginQuota
  <2>2. CASE Measure(q)
    BY <1>1, <2>2 DEF Measure
  <2>3. CASE Deny(q)
    BY <1>2, <2>3 DEF Deny
  <2>4. CASE Reserve(q)
    BY <1>2, <1>3, <2>4 DEF Reserve
  <2>5. CASE StartUsage(q) \/ Acquire(q)
    BY <1>3, <2>5 DEF StartUsage, Acquire, End
  <2>6. CASE Stream(q) \/ Buffer(q) \/ UpstreamError(q) \/ ReadError(q)
    BY <1>3, <2>6 DEF Stream, Buffer, UpstreamError, ReadError, End
  <2>7. CASE Release(q) \/ Finish(q)
    BY <1>2, <1>3, <2>7 DEF Release, Finish, Advance
  <2> QED
    BY <1>4, <2>1, <2>2, <2>3, <2>4, <2>5, <2>6, <2>7 DEF Serve
<1>5. ASSUME NEW q \in Request, ContextDone(q) \/ Crash(q)
      PROVE  Stays /\ seen'[p] = seen[p]
  BY <1>2, <1>5 DEF ContextDone, Crash
<1>6. ASSUME (\E w \in Window : Roll(w)) \/ Reset \/ Tick \/ UNCHANGED vars
      PROVE  Stays /\ seen'[p] = seen[p]
  <2>1. UNCHANGED handler
    BY <1>6 DEF Roll, Reset, CheckReset, Redeem, RefuseReset, AdminReset, ClearPending, ClearReservations, Tick, vars
  <2> QED
    BY <2>1
<1> QED
  BY <1>4, <1>5, <1>6 DEF Next

\* A request that has given a counter its expiry goes on being the one.
LEMMA RenewalStays ==
  ASSUME TypeInv, [Next]_vars, NEW q \in Request, NEW w \in Window, NEW k \in Epoch,
         Renews(q, w, k, pendingExpiry[w][k]), pendingExpiry'[w][k] = pendingExpiry[w][k]
  PROVE  Renews(q, w, k, pendingExpiry[w][k])'
<1>1. pc'[q] # "new" /\ seen'[q] = seen[q] /\ begun'[q] = begun[q]
  BY BeginningStays DEF Renews
<1> QED
  BY <1>1 DEF Renews

\* A step leaves what is pending and its expiry, or it is a script of a request of
\* the window start, or what was pending is gone.
LEMMA CounterMoves ==
  ASSUME TypeInv, InTime, [Next]_vars, NEW w \in Window, NEW k \in Epoch, pending'[w][k] > 0
  PROVE  \/ /\ pending[w][k] > 0 /\ pendingExpiry'[w][k] = pendingExpiry[w][k]
            /\ clock' = clock \/ clock' < pendingExpiry[w][k]
         \/ /\ pendingExpiry'[w][k] = clock + KeyTTL /\ clock' = clock
            /\ \E q \in Request : Busy(q) /\ seen[q][w] = k
<1>0. TypeOK
  BY DEF TypeInv
<1>1. clock \in Nat /\ pending[w][k] \in Nat /\ pendingExpiry[w][k] \in Nat
  BY <1>0 DEF TypeOK
<1>3. CASE UNCHANGED <<clock, seen, runtime>> \/ \E q \in Request : BeginQuota(q)
  BY <1>3 DEF BeginQuota, runtime
<1>4. CASE \E q \in Request : Reserves(q) \/ Releases(q)
  <2>1. PICK q \in Request : Reserves(q) \/ Releases(q)
    BY <1>4
  <2>2. clock' = clock /\ Busy(q)
    BY <2>1 DEF Reserves, Releases, Busy
  <2>3. CASE ReserveScript(q)
    <3>1. pending'[w][k] = pending[w][k] + (IF k = seen[q][w] THEN Share(q)[w] ELSE 0)
          /\ pendingExpiry'[w][k] = IF k = seen[q][w] THEN clock + KeyTTL ELSE pendingExpiry[w][k]
      BY <1>0, <2>3, ReserveFacts
    <3> QED
      BY <1>1, <2>2, <3>1
  <2>4. CASE ReleaseScript(q)
    <3>1. \/ pending'[w][k] = 0
          \/ seen[q][w] = k /\ pendingExpiry'[w][k] = clock + KeyTTL
          \/ pending'[w][k] = pending[w][k] /\ pendingExpiry'[w][k] = pendingExpiry[w][k]
      BY <1>0, <2>4, ReleaseFacts
    <3> QED
      BY <1>1, <2>2, <3>1
  <2> QED
    BY <2>1, <2>3, <2>4 DEF Reserves, Releases
<1>5. CASE Tick
  <2>1. pending'[w][k] = (IF pendingExpiry[w][k] <= clock + 1 THEN 0 ELSE pending[w][k])
        /\ pendingExpiry'[w][k] = pendingExpiry[w][k] /\ clock' = clock + 1
    BY <1>5 DEF Tick
  <2> QED
    BY <1>1, <2>1
<1>6. CASE Clears
  <2>1. \/ pending' = pending /\ pendingExpiry' = pendingExpiry
        \/ pending'[w][k] = 0
    BY <1>6 DEF Clears, ClearPending, ClearReservations
  <2>2. clock' = clock
    BY <1>6 DEF Clears
  <2> QED
    BY <1>1, <2>1, <2>2
<1> QED
  BY <1>3, <1>4, <1>5, <1>6, StoreMoves

\* A counter that a step leaves alone, or touches, stays fresh.
LEMMA FreshStays ==
  ASSUME TypeInv, InTime, [Next]_vars, NEW w \in Window, NEW k \in Epoch
  PROVE  Fresh(w, k)'
<1> SUFFICES ASSUME pending'[w][k] > 0
             PROVE  /\ clock' < pendingExpiry'[w][k]
                    /\ \E q \in Request : Renews(q, w, k, pendingExpiry[w][k])'
  BY DEF Fresh
<1>1. /\ clock \in Nat /\ KeyTTL \in Nat /\ KeyTTL > 1
      /\ pending[w][k] \in Nat /\ pendingExpiry[w][k] \in Nat
  BY QuotaAssumption DEF TypeInv, TypeOK
<1>2. CASE /\ pending[w][k] > 0 /\ pendingExpiry'[w][k] = pendingExpiry[w][k]
           /\ clock' = clock \/ clock' < pendingExpiry[w][k]
  <2>1. clock < pendingExpiry[w][k] /\ \E q \in Request : Renews(q, w, k, pendingExpiry[w][k])
    BY <1>2 DEF InTime, Fresh
  <2> QED
    BY <1>2, <2>1, RenewalStays
<1>3. CASE /\ pendingExpiry'[w][k] = clock + KeyTTL /\ clock' = clock
           /\ \E q \in Request : Busy(q) /\ seen[q][w] = k
  <2>1. PICK q \in Request : Busy(q) /\ seen[q][w] = k
    BY <1>3
  <2>2. clock < begun[q] + KeyTTL /\ begun[q] \in Nat
    BY <2>1 DEF InTime, Young, TypeInv, TypeOK
  <2>3. pc'[q] # "new" /\ seen'[q] = seen[q] /\ begun'[q] = begun[q]
    BY <2>1, BeginningStays DEF Busy
  <2>4. clock + KeyTTL < begun[q] + 2 * KeyTTL /\ clock < clock + KeyTTL
    BY <1>1, <2>2
  <2>5. Renews(q, w, k, pendingExpiry[w][k])'
    BY <1>3, <2>1, <2>3, <2>4 DEF Renews
  <2> QED
    BY <1>3, <2>4, <2>5
<1> QED
  BY <1>2, <1>3, CounterMoves

LEMMA InTimeHolds == Spec => []InTime
<1>1. Init => InTime
  BY QuotaAssumption DEF Init, InTime, Busy, Fresh
<1>2. TypeInv /\ InTime /\ [Next]_vars => InTime'
  <2> SUFFICES ASSUME TypeInv, InTime, [Next]_vars PROVE InTime'
    OBVIOUS
  <2> QED
    BY YoungStays, FreshStays DEF InTime
<1> QED
  BY <1>1, <1>2, TypesHold, PTL DEF Spec

\* Whatever requests, crashes and resets do to the counters, one that no request
\* of its window start has used for two key lives is at zero.
THEOREM PendingLapses == Spec => []HeadroomLapses
<1>1. TypeInv /\ InTime => HeadroomLapses
  <2> SUFFICES ASSUME TypeInv, InTime, NEW w \in Window, NEW k \in Epoch, pending[w][k] > 0
               PROVE  \E q \in Request :
                        pc[q] # "new" /\ seen[q][w] = k /\ clock < begun[q] + 2 * KeyTTL - 1
    BY DEF HeadroomLapses
  <2>1. PICK q \in Request : Renews(q, w, k, pendingExpiry[w][k])
    BY DEF InTime, Fresh
  <2>2. clock < pendingExpiry[w][k]
    BY DEF InTime, Fresh
  <2>3. /\ clock \in Nat /\ KeyTTL \in Nat /\ begun[q] \in Nat /\ pendingExpiry[w][k] \in Nat
    BY QuotaAssumption DEF TypeInv, TypeOK
  <2> QED
    BY <2>1, <2>2, <2>3 DEF Renews
<1> QED
  BY <1>1, TypesHold, InTimeHolds, PTL

-----------------------------------------------------------------------------
(* What the requests hold of a window, as a sum over the requests.         *)

HeldBy(q, w, k) == IF seen[q][w] = k THEN reservation[q][w] ELSE 0
HeldOf(w, k) == [q \in Request |-> HeldBy(q, w, k)]

LEMMA HeldIsSum ==
  ASSUME NEW w, NEW k
  PROVE  /\ Held(w, k) = SumFunctionOnSet(HeldOf(w, k), Request)
         /\ Held(w, k)' = SumFunctionOnSet(HeldOf(w, k)', Request)
  BY DEF Held, HeldOf, HeldBy, SumFunction

LEMMA HeldTypes ==
  ASSUME TypeOK, TypeOK', NEW w \in Window, NEW k
  PROVE  \A q \in Request :
           /\ HeldOf(w, k)[q] = HeldBy(q, w, k) /\ HeldBy(q, w, k) \in Nat
           /\ HeldOf(w, k)'[q] = HeldBy(q, w, k)' /\ HeldBy(q, w, k)' \in Nat
<1>1. reservation \in [Request -> [Window -> Nat]] /\ reservation' \in [Request -> [Window -> Nat]]
  BY DEF TypeOK
<1> QED
  BY <1>1 DEF HeldOf, HeldBy

LEMMA HeldInNat ==
  ASSUME TypeOK, TypeOK', NEW w \in Window, NEW k
  PROVE  Held(w, k) \in Nat /\ Held(w, k)' \in Nat
<1>1. SumFunctionOnSet(HeldOf(w, k), Request) \in Nat
  BY HeldTypes, SumInNat, QuotaAssumption
<1>2. SumFunctionOnSet(HeldOf(w, k)', Request) \in Nat
  BY HeldTypes, SumInNat, QuotaAssumption
<1> QED
  BY <1>1, <1>2, HeldIsSum

\* If no request holds more than before, the requests together do not.
LEMMA HeldShrinks ==
  ASSUME TypeOK, TypeOK', NEW w \in Window, NEW k,
         \A q \in Request : HeldBy(q, w, k)' <= HeldBy(q, w, k)
  PROVE  Held(w, k)' <= Held(w, k)
<1>1. SumFunctionOnSet(HeldOf(w, k)', Request) <= SumFunctionOnSet(HeldOf(w, k), Request)
  BY HeldTypes, SumMono, QuotaAssumption
<1> QED
  BY <1>1, HeldIsSum

\* If one request holds more or less, the sum changes by that.
LEMMA HeldChanges ==
  ASSUME TypeOK, TypeOK', NEW w \in Window, NEW k, NEW q \in Request,
         \A p \in Request \ {q} : HeldBy(p, w, k)' = HeldBy(p, w, k)
  PROVE  Held(w, k)' = Held(w, k) - HeldBy(q, w, k) + HeldBy(q, w, k)'
<1>1. \A p \in Request \ {q} : HeldOf(w, k)[p] \in Nat /\ HeldOf(w, k)[p] = HeldOf(w, k)'[p]
  BY HeldTypes
<1>2. SumFunctionOnSet(HeldOf(w, k)', Request) =
        SumFunctionOnSet(HeldOf(w, k), Request) - HeldOf(w, k)[q] + HeldOf(w, k)'[q]
  BY <1>1, HeldTypes, SumChange, QuotaAssumption
<1> QED
  BY <1>2, HeldIsSum, HeldTypes

\* No request holds more than all of them.
LEMMA HeldPart ==
  ASSUME TypeOK, TypeOK', NEW w \in Window, NEW k, NEW q \in Request
  PROVE  HeldBy(q, w, k) <= Held(w, k) /\ HeldBy(q, w, k)' <= Held(w, k)'
<1>1. HeldOf(w, k)[q] <= SumFunctionOnSet(HeldOf(w, k), Request)
  BY HeldTypes, SumMember, QuotaAssumption
<1>2. HeldOf(w, k)'[q] <= SumFunctionOnSet(HeldOf(w, k)', Request)
  BY HeldTypes, SumMember, QuotaAssumption
<1> QED
  BY <1>1, <1>2, HeldIsSum, HeldTypes

\* If no request holds anything, the sum is zero.
LEMMA HeldNothing ==
  ASSUME TypeOK, TypeOK', NEW w \in Window, NEW k, \A q \in Request : HeldBy(q, w, k)' = 0
  PROVE  Held(w, k)' = 0
<1>1. SumFunctionOnSet(HeldOf(w, k)', Request) = 0
  BY HeldTypes, SumZero, QuotaAssumption
<1> QED
  BY <1>1, HeldIsSum

-----------------------------------------------------------------------------
(* Before it has reserved anything, a request holds nothing.               *)

\* No request goes back to its admission.
LEMMA AdmissionMoves ==
  ASSUME TypeInv, [Next]_vars, NEW p \in Request, pc'[p] \in {"new", "measuring", "measured"}
  PROVE  pc[p] \in {"new", "measuring", "measured"}
<1> USE DEF handler, decision, ending
<1>1. pc \in [Request -> {"new", "measuring", "measured", "reserved", "started", "serving", "ending", "over"}]
  BY DEF TypeInv, TypeOK
<1>2. ASSUME NEW q \in Request, Return(q)
      PROVE  pc[p] \in {"new", "measuring", "measured"}
  BY <1>1, <1>2 DEF Return
<1>3. ASSUME NEW q \in Request, NEW step \in {"reserved", "started", "serving", "ending"}, Goto(q, step)
      PROVE  pc[p] \in {"new", "measuring", "measured"}
  BY <1>1, <1>3 DEF Goto
<1>4. ASSUME NEW q \in Request, Serve(q)
      PROVE  pc[p] \in {"new", "measuring", "measured"}
  <2>1. CASE BeginQuota(q) \/ Measure(q)
    BY <1>1, <2>1 DEF BeginQuota, Measure
  <2>2. CASE Deny(q)
    BY <1>2, <2>2 DEF Deny
  <2>3. CASE Reserve(q)
    BY <1>2, <1>3, <2>3 DEF Reserve
  <2>4. CASE StartUsage(q) \/ Acquire(q)
    BY <1>3, <2>4 DEF StartUsage, Acquire, End
  <2>5. CASE Stream(q) \/ Buffer(q) \/ UpstreamError(q) \/ ReadError(q)
    BY <1>3, <2>5 DEF Stream, Buffer, UpstreamError, ReadError, End
  <2>6. CASE Release(q) \/ Finish(q)
    BY <1>2, <1>3, <2>6 DEF Release, Finish, Advance
  <2> QED
    BY <1>4, <2>1, <2>2, <2>3, <2>4, <2>5, <2>6 DEF Serve
<1>5. ASSUME NEW q \in Request, ContextDone(q) \/ Crash(q)
      PROVE  pc[p] \in {"new", "measuring", "measured"}
  BY <1>2, <1>5 DEF ContextDone, Crash
<1>6. ASSUME (\E w \in Window : Roll(w)) \/ Reset \/ Tick \/ UNCHANGED vars
      PROVE  pc[p] \in {"new", "measuring", "measured"}
  BY <1>6 DEF Roll, Reset, CheckReset, Redeem, RefuseReset, AdminReset, ClearPending, ClearReservations, Tick, vars
<1> QED
  BY <1>4, <1>5, <1>6 DEF Next

LEMMA UnreservedHolds == Spec => []Unreserved
<1>1. Init => Unreserved
  BY DEF Init, Unreserved
<1>2. TypeInv /\ Unreserved /\ [Next]_vars => Unreserved'
  <2> SUFFICES ASSUME TypeInv, Unreserved, [Next]_vars, NEW p \in Request, pc'[p] \in {"new", "measuring", "measured"}
               PROVE  reservation'[p] = Zero
    BY DEF Unreserved, Zero
  <2>1. reservation[p] = Zero /\ reservation \in [Request -> [Window -> Nat]]
    BY AdmissionMoves DEF Unreserved, TypeInv, TypeOK
  <2>2. CASE UNCHANGED <<clock, seen, runtime>> \/ \E q \in Request : BeginQuota(q)
    BY <2>1, <2>2 DEF BeginQuota, runtime
  <2>3. ASSUME NEW q \in Request, Reserves(q) PROVE reservation'[p] = Zero
    BY <2>1, <2>3 DEF Reserves, ReserveScript
  <2>4. ASSUME NEW q \in Request, Releases(q) PROVE reservation'[p] = Zero
    BY <2>1, <2>4 DEF Releases, ReleaseScript
  <2>5. CASE Tick \/ Clears
    BY <2>1, <2>5 DEF Tick, Clears, ClearPending, ClearReservations
  <2> QED
    BY <2>2, <2>3, <2>4, <2>5, StoreMoves
<1> QED
  BY <1>1, <1>2, TypesHold, PTL DEF Spec

-----------------------------------------------------------------------------
(* The counters cover the reservations when nothing is reset.              *)

\* Nothing is being reset.
LEMMA IdleStays ==
  ASSUME NoResets, Idle, [Next]_vars
  PROVE  Idle' /\ ~Clears
<1>1. ~Clears
  BY DEF Idle, Clears, ClearPending, ClearReservations
<1>2. CASE Reset
  BY <1>1, <1>2 DEF NoResets, Idle, Reset, CheckReset, Redeem, RefuseReset, AdminReset, ClearPending, ClearReservations
<1>3. CASE ~Reset
  <2>1. ASSUME NEW q \in Request, Serve(q) \/ ContextDone(q) \/ Crash(q)
        PROVE  UNCHANGED <<resetter, credits>>
    <3>1. CASE Serve(q)
      BY <3>1 DEF Serve, BeginQuota, Measure, Deny, Reserve, StartUsage, Acquire, Stream, Buffer, UpstreamError,
         ReadError, Release, Finish, resets
    <3> QED
      BY <2>1, <3>1 DEF ContextDone, Crash, resets
  <2>2. ASSUME (\E w \in Window : Roll(w)) \/ Tick \/ UNCHANGED vars
        PROVE  UNCHANGED <<resetter, credits>>
    BY <2>2 DEF Roll, Tick, vars, resets
  <2>3. UNCHANGED <<resetter, credits>>
    BY <1>3, <2>1, <2>2 DEF Next
  <2> QED
    BY <1>1, <2>3 DEF Idle
<1> QED
  BY <1>1, <1>2, <1>3

\* A release takes off a counter what the request has reserved and leaves at
\* least what another request holds.
LEMMA ReleaseLeaves ==
  ASSUME TypeOK, TypeOK', PendingCoversReservations, NEW q \in Request, Releases(q), NEW w \in Window, NEW k \in Epoch
  PROVE  /\ Held(w, k)' = Held(w, k) - HeldBy(q, w, k)
         /\ pending[w][k] - HeldBy(q, w, k) >= Held(w, k)'
         /\ Held(w, k)' \in Nat /\ pending[w][k] \in Nat /\ HeldBy(q, w, k) \in Nat
         /\ \A p \in Request \ {q} : HeldBy(p, w, k) <= Held(w, k)'
<1>1. reservation' = [reservation EXCEPT ![q] = Zero] /\ seen' = seen /\ reservation \in [Request -> [Window -> Nat]]
  BY DEF Releases, ReleaseScript, TypeOK
<1>2. /\ \A p \in Request \ {q} : HeldBy(p, w, k)' = HeldBy(p, w, k)
      /\ HeldBy(q, w, k)' = 0
  BY <1>1 DEF HeldBy, Zero
<1>3. /\ Held(w, k)' = Held(w, k) - HeldBy(q, w, k) + 0
      /\ Held(w, k) \in Nat /\ Held(w, k)' \in Nat /\ HeldBy(q, w, k) \in Nat
  BY <1>2, HeldChanges, HeldInNat, HeldTypes
<1>4. pending[w][k] >= Held(w, k) /\ pending[w][k] \in Nat
  BY DEF PendingCoversReservations, TypeOK
<1>5. ASSUME NEW p \in Request \ {q} PROVE HeldBy(p, w, k) <= Held(w, k)'
  <2>1. HeldBy(p, w, k)' <= Held(w, k)'
    BY HeldPart
  <2> QED
    BY <1>2, <2>1
<1> QED
  BY <1>3, <1>4, <1>5

\* No reservation outlives the counter that covers it.
LEMMA OutlivesStays ==
  ASSUME TypeInv, TypeInv', Unreserved, Covers, ~Clears, [Next]_vars, NEW p \in Request
  PROVE  Outlives(p)'
<1>0. /\ TypeOK /\ TypeOK' /\ PendingCoversReservations /\ Outlives(p)
      /\ clock \in Nat /\ KeyTTL \in Nat
      /\ reservation \in [Request -> [Window -> Nat]] /\ reservationExpiry \in [Request -> Nat]
      /\ seen \in [Request -> [Window -> Epoch]]
  BY QuotaAssumption DEF TypeInv, TypeOK, Covers
<1>1. CASE UNCHANGED <<clock, seen, runtime>>
  BY <1>0, <1>1 DEF runtime, Outlives
<1>2. ASSUME NEW q \in Request, BeginQuota(q) PROVE Outlives(p)'
  <2>1. reservation[q] = Zero /\ UNCHANGED <<clock, pendingExpiry, reservation, reservationExpiry>>
        /\ seen' = [seen EXCEPT ![q] = epoch]
    BY <1>2 DEF BeginQuota, runtime, Unreserved
  <2>2. CASE p = q
    BY <1>0, <2>1, <2>2 DEF Outlives, Zero
  <2>3. CASE p # q
    BY <1>0, <2>1, <2>3 DEF Outlives
  <2> QED
    BY <2>2, <2>3
<1>3. ASSUME NEW q \in Request, Reserves(q) PROVE Outlives(p)'
  <2>1. /\ \A w \in Window, k \in Epoch :
             pendingExpiry'[w][k] = IF k = seen[q][w] THEN clock + KeyTTL ELSE pendingExpiry[w][k]
        /\ reservation' = [reservation EXCEPT ![q] = Share(q)]
        /\ reservationExpiry' = [reservationExpiry EXCEPT ![q] = clock + KeyTTL]
    BY <1>0, <1>3, ReserveFacts DEF Reserves
  <2>2. UNCHANGED <<clock, seen>>
    BY <1>3 DEF Reserves
  <2>3. \A w \in Window : seen[p][w] \in Epoch
    BY <1>0
  <2>4. CASE p = q
    BY <1>0, <2>1, <2>2, <2>3, <2>4 DEF Outlives
  <2>5. CASE p # q
    BY <1>0, <2>1, <2>2, <2>3, <2>5 DEF Outlives
  <2> QED
    BY <2>4, <2>5
<1>4. ASSUME NEW q \in Request, Releases(q) PROVE Outlives(p)'
  <2>0. ReleaseScript(q) /\ UNCHANGED <<clock, seen>>
    BY <1>4 DEF Releases
  <2>1. /\ reservation' = [reservation EXCEPT ![q] = Zero]
        /\ reservationExpiry' = [reservationExpiry EXCEPT ![q] = 0]
    BY <2>0 DEF ReleaseScript
  <2>2. CASE p = q
    BY <1>0, <2>0, <2>1, <2>2 DEF Outlives, Zero
  <2>3. CASE p # q
    <3>1. ASSUME NEW w \in Window, reservation[p][w] > 0
          PROVE  reservationExpiry[p] <= pendingExpiry'[w][seen[p][w]]
      <4>0. PICK k \in Epoch : k = seen[p][w]
        BY <1>0
      <4>1. HeldBy(p, w, k) = reservation[p][w]
        BY <4>0 DEF HeldBy
      <4>2. pendingExpiry'[w][k] =
              IF k # seen[q][w] THEN pendingExpiry[w][k]
              ELSE IF pending[w][k] - reservation[q][w] <= 0 THEN 0 ELSE clock + KeyTTL
        BY <1>0, <2>0, ReleaseFacts
      <4>3. CASE k # seen[q][w]
        BY <1>0, <3>1, <4>0, <4>2, <4>3 DEF Outlives
      <4>4. CASE k = seen[q][w]
        <5>1. /\ pending[w][k] - HeldBy(q, w, k) >= Held(w, k)'
              /\ Held(w, k)' \in Nat /\ pending[w][k] \in Nat /\ HeldBy(q, w, k) \in Nat
              /\ \A r \in Request \ {q} : HeldBy(r, w, k) <= Held(w, k)'
          BY <1>0, <1>4, ReleaseLeaves
        <5>2. HeldBy(p, w, k) <= Held(w, k)' /\ HeldBy(q, w, k) = reservation[q][w]
          BY <2>3, <4>4, <5>1 DEF HeldBy
        <5>3. reservation[p][w] \in Nat
          BY <1>0
        <5>4. pending[w][k] - reservation[q][w] > 0
          BY <3>1, <4>1, <5>1, <5>2, <5>3
        <5>5. pendingExpiry'[w][k] = clock + KeyTTL
          BY <1>0, <4>2, <4>4, <5>1, <5>4
        <5> QED
          BY <1>0, <4>0, <5>5 DEF Outlives
      <4> QED
        BY <4>3, <4>4
    <3>2. reservation'[p] = reservation[p] /\ reservationExpiry'[p] = reservationExpiry[p]
      BY <1>0, <2>1, <2>3
    <3> QED
      BY <1>0, <2>0, <3>1, <3>2 DEF Outlives
  <2> QED
    BY <2>2, <2>3
<1>5. CASE Tick
  <2>1. /\ clock' = clock + 1
        /\ reservation'[p] = Zero \/ reservation'[p] = reservation[p]
        /\ UNCHANGED <<seen, pendingExpiry, reservationExpiry>>
    BY <1>5 DEF Tick, handler, decision
  <2> QED
    BY <1>0, <2>1 DEF Outlives, Zero
<1> QED
  BY <1>1, <1>2, <1>3, <1>4, <1>5, StoreMoves

\* Each counter goes on covering what is reserved of its window.
LEMMA CoverStays ==
  ASSUME TypeInv, TypeInv', Unreserved, Covers, ~Clears, [Next]_vars, NEW w \in Window, NEW k \in Epoch
  PROVE  pending'[w][k] >= Held(w, k)'
<1>0. /\ TypeOK /\ TypeOK' /\ pending[w][k] >= Held(w, k) /\ pending[w][k] \in Nat
      /\ Held(w, k) \in Nat /\ Held(w, k)' \in Nat
      /\ reservation \in [Request -> [Window -> Nat]] /\ seen \in [Request -> [Window -> Epoch]]
  <2>1. TypeOK /\ TypeOK' /\ pending[w][k] >= Held(w, k)
    BY DEF TypeInv, Covers, PendingCoversReservations
  <2>2. Held(w, k) \in Nat /\ Held(w, k)' \in Nat
    BY <2>1, HeldInNat
  <2>3. pending[w][k] \in Nat /\ reservation \in [Request -> [Window -> Nat]] /\ seen \in [Request -> [Window -> Epoch]]
    BY <2>1 DEF TypeOK
  <2> QED
    BY <2>1, <2>2, <2>3
<1>1. CASE UNCHANGED <<clock, seen, runtime>>
  <2>0. seen' = seen /\ reservation' = reservation
    BY <1>1 DEF runtime
  <2>1. \A p \in Request : HeldBy(p, w, k)' <= HeldBy(p, w, k)
    BY <1>0, <2>0 DEF HeldBy
  <2>2. Held(w, k)' <= Held(w, k)
    BY <1>0, <2>1, HeldShrinks
  <2> QED
    BY <1>0, <1>1, <2>2 DEF runtime
<1>2. ASSUME NEW q \in Request, BeginQuota(q) PROVE pending'[w][k] >= Held(w, k)'
  <2>1. reservation[q] = Zero /\ pending' = pending /\ reservation' = reservation /\ seen' = [seen EXCEPT ![q] = epoch]
    BY <1>2 DEF BeginQuota, runtime, Unreserved
  <2>2. \A p \in Request : HeldBy(p, w, k)' <= HeldBy(p, w, k)
    <3>1. HeldBy(q, w, k)' = 0 /\ HeldBy(q, w, k) = 0
      BY <2>1 DEF HeldBy, Zero
    <3>2. \A p \in Request \ {q} : HeldBy(p, w, k)' = HeldBy(p, w, k) /\ HeldBy(p, w, k) \in Nat
      BY <1>0, <2>1 DEF HeldBy
    <3> QED
      BY <3>1, <3>2
  <2>3. Held(w, k)' <= Held(w, k)
    BY <1>0, <2>2, HeldShrinks
  <2> QED
    BY <1>0, <2>1, <2>3
<1>3. ASSUME NEW q \in Request, Reserves(q) PROVE pending'[w][k] >= Held(w, k)'
  <2>1. /\ pending'[w][k] = pending[w][k] + (IF k = seen[q][w] THEN Share(q)[w] ELSE 0)
        /\ reservation' = [reservation EXCEPT ![q] = Share(q)] /\ seen' = seen
    BY <1>0, <1>3, ReserveFacts DEF Reserves
  <2>2. HeldBy(q, w, k) = 0 /\ HeldBy(q, w, k)' = IF k = seen[q][w] THEN Share(q)[w] ELSE 0
    BY <1>0, <1>3, <2>1 DEF HeldBy, Reserves, Unreserved, Zero
  <2>3. \A p \in Request \ {q} : HeldBy(p, w, k)' = HeldBy(p, w, k)
    BY <1>0, <2>1 DEF HeldBy
  <2>4. Held(w, k)' = Held(w, k) - HeldBy(q, w, k) + HeldBy(q, w, k)'
    BY <1>0, <2>3, HeldChanges
  <2>5. HeldBy(q, w, k)' \in Nat
    BY <1>0, HeldTypes
  <2> QED
    BY <1>0, <2>1, <2>2, <2>4, <2>5
<1>4. ASSUME NEW q \in Request, Releases(q) PROVE pending'[w][k] >= Held(w, k)'
  <2>1. /\ pending[w][k] - HeldBy(q, w, k) >= Held(w, k)'
        /\ HeldBy(q, w, k) \in Nat
    BY <1>0, <1>4, ReleaseLeaves DEF Covers
  <2>2. pending'[w][k] = IF k # seen[q][w] THEN pending[w][k]
                         ELSE IF pending[w][k] - reservation[q][w] <= 0 THEN 0 ELSE pending[w][k] - reservation[q][w]
    BY <1>0, <1>4, ReleaseFacts DEF Releases
  <2>3. CASE k # seen[q][w]
    BY <1>0, <2>1, <2>2, <2>3
  <2>4. CASE k = seen[q][w]
    <3>1. HeldBy(q, w, k) = reservation[q][w]
      BY <2>4 DEF HeldBy
    <3> QED
      BY <1>0, <2>1, <2>2, <2>4, <3>1
  <2> QED
    BY <2>3, <2>4
<1>5. CASE Tick
  <2>0. /\ reservation' = [q \in Request |-> IF reservationExpiry[q] <= clock + 1 THEN Zero ELSE reservation[q]]
        /\ pending'[w][k] = IF pendingExpiry[w][k] <= clock + 1 THEN 0 ELSE pending[w][k]
        /\ seen' = seen
        /\ clock \in Nat /\ pendingExpiry[w][k] \in Nat /\ reservationExpiry \in [Request -> Nat]
    BY <1>0, <1>5 DEF Tick, handler, decision, TypeOK
  <2>1. CASE pendingExpiry[w][k] <= clock + 1
    <3>1. ASSUME NEW q \in Request PROVE HeldBy(q, w, k)' = 0
      <4>1. CASE seen[q][w] = k /\ reservation[q][w] > 0
        <5>1. reservationExpiry[q] <= pendingExpiry[w][k]
          BY <4>1 DEF Covers, Outlives
        <5>2. reservationExpiry[q] <= clock + 1
          BY <2>0, <2>1, <5>1
        <5> QED
          BY <2>0, <5>2 DEF HeldBy, Zero
      <4>2. CASE ~(seen[q][w] = k /\ reservation[q][w] > 0)
        <5>1. reservation[q][w] \in Nat
          BY <1>0
        <5> QED
          BY <2>0, <4>2, <5>1 DEF HeldBy, Zero
      <4> QED
        BY <4>1, <4>2
    <3>2. Held(w, k)' = 0
      BY <1>0, <3>1, HeldNothing
    <3> QED
      BY <1>0, <2>0, <2>1, <3>2
  <2>2. CASE ~(pendingExpiry[w][k] <= clock + 1)
    <3>1. \A q \in Request : HeldBy(q, w, k)' <= HeldBy(q, w, k)
      BY <1>0, <2>0 DEF HeldBy, Zero
    <3>2. Held(w, k)' <= Held(w, k)
      BY <1>0, <3>1, HeldShrinks
    <3> QED
      BY <1>0, <2>0, <2>2, <3>2
  <2> QED
    BY <2>1, <2>2
<1> QED
  BY <1>1, <1>2, <1>3, <1>4, <1>5, StoreMoves

\* Without resets the counters cover the reservations in every state.
LEMMA CoversHolds == NoResets => (Spec => []Covers)
<1> SUFFICES ASSUME NoResets PROVE Spec => []Covers
  OBVIOUS
<1>1. Init => Covers
  <2> SUFFICES ASSUME Init PROVE Covers
    OBVIOUS
  <2>1. Idle /\ \A q \in Request : Outlives(q)
    BY QuotaAssumption DEF Init, NoResets, Idle, Outlives, Zero
  <2>2. ASSUME NEW w \in Window, NEW k \in Epoch PROVE pending[w][k] >= Held(w, k)
    <3>1. \A q \in Request : HeldOf(w, k)[q] = 0
      BY DEF Init, HeldOf, HeldBy, Zero
    <3>2. SumFunctionOnSet(HeldOf(w, k), Request) = 0
      BY <3>1, SumZero, QuotaAssumption
    <3>3. Held(w, k) = 0
      BY <3>2, HeldIsSum
    <3> QED
      BY <3>3 DEF Init
  <2> QED
    BY <2>1, <2>2 DEF Covers, PendingCoversReservations
<1>2. TypeInv /\ TypeInv' /\ Unreserved /\ Covers /\ [Next]_vars => Covers'
  <2> SUFFICES ASSUME TypeInv, TypeInv', Unreserved, Covers, [Next]_vars PROVE Covers'
    OBVIOUS
  <2>1. Idle' /\ ~Clears
    BY IdleStays DEF Covers
  <2>2. \A q \in Request : Outlives(q)'
    BY <2>1, OutlivesStays
  <2>3. \A w \in Window, k \in Epoch : pending'[w][k] >= Held(w, k)'
    BY <2>1, CoverStays
  <2> QED
    BY <2>1, <2>2, <2>3 DEF Covers, PendingCoversReservations
<1> QED
  BY <1>1, <1>2, TypesHold, UnreservedHolds, PTL DEF Spec

\* Without resets the counters are never below what the requests have reserved,
\* so that no release takes off what another request holds, and what a crash or a
\* lost release left in them lapses unless recent requests of the same window
\* start keep renewing it.
THEOREM PendingIsTracked == NoResets => (Spec => []PendingTracksReservations)
<1> SUFFICES ASSUME NoResets PROVE Spec => []PendingTracksReservations
  OBVIOUS
<1>1. Covers /\ HeadroomLapses => PendingTracksReservations
  BY DEF Covers, PendingTracksReservations
<1> QED
  BY <1>1, CoversHolds, PendingLapses, PTL

-----------------------------------------------------------------------------
(* A served request is always counted.                                     *)

\* What a request is judged by, and that a step leaves it.
Leaves(p) ==
  /\ pc'[p] = pc[p] /\ begun'[p] = begun[p]
  /\ todo'[p] = todo[p] /\ outcome'[p] = outcome[p] /\ row'[p] = row[p]
  /\ reservation'[p] = reservation[p] /\ reservationExpiry'[p] = reservationExpiry[p]

LEMMA LeftIsCounted ==
  ASSUME NEW p \in Request, CountedNow(p), Leaves(p)
  PROVE  CountedNow(p)'
  BY DEF CountedNow, Leaves, Holds

\* The steps of one request leave what the others are judged by.
LEMMA OthersLeave ==
  ASSUME TypeInv, NEW p \in Request, NEW q \in Request, p # q, Serve(q) \/ ContextDone(q) \/ Crash(q)
  PROVE  Leaves(p)
<1> USE DEF decision, ending, ledger, runtime
<1>0. /\ pc \in [Request -> {"new", "measuring", "measured", "reserved", "started", "serving", "ending", "over"}]
      /\ begun \in [Request -> Nat] /\ todo \in [Request -> Seq({"release", "finish"})]
      /\ outcome \in [Request -> Rows] /\ row \in [Request -> Rows]
      /\ reservation \in [Request -> [Window -> Nat]] /\ reservationExpiry \in [Request -> Nat]
  BY DEF TypeInv, TypeOK
<1> DEFINE Handler == pc'[p] = pc[p] /\ begun'[p] = begun[p] /\ todo'[p] = todo[p] /\ outcome'[p] = outcome[p]
           Store == reservation'[p] = reservation[p] /\ reservationExpiry'[p] = reservationExpiry[p]
<1>1. ASSUME Return(q) PROVE Handler
  BY <1>0, <1>1 DEF Return
<1>2. ASSUME NEW step, Goto(q, step) PROVE pc'[p] = pc[p] /\ begun'[p] = begun[p]
  BY <1>0, <1>2 DEF Goto
<1>3. ASSUME NEW order, NEW free, NEW status, NEW n, End(q, order, free, status, n) PROVE Handler
  BY <1>0, <1>2, <1>3 DEF End
<1>4. ASSUME ReserveScript(q) \/ ReleaseScript(q) \/ UNCHANGED runtime PROVE Store
  BY <1>0, <1>4 DEF ReserveScript, ReleaseScript
<1>5. ASSUME Advance(q) PROVE Handler
  BY <1>0, <1>1, <1>2, <1>5 DEF Advance
<1>6. CASE BeginQuota(q) \/ Measure(q) \/ ContextDone(q)
  BY <1>0, <1>6 DEF BeginQuota, Measure, ContextDone, Leaves
<1>7. CASE Deny(q) \/ Crash(q)
  BY <1>1, <1>7 DEF Deny, Crash, Leaves
<1>8. CASE Reserve(q)
  <2>1. Handler
    BY <1>1, <1>2, <1>8 DEF Reserve
  <2>2. Store
    BY <1>4, <1>8 DEF Reserve
  <2> QED
    BY <1>8, <2>1, <2>2 DEF Reserve, Leaves
<1>9. CASE StartUsage(q)
  <2>1. Handler /\ row'[p] = row[p]
    BY <1>0, <1>2, <1>3, <1>9 DEF StartUsage
  <2> QED
    BY <1>9, <2>1 DEF StartUsage, Leaves
<1>10. CASE Acquire(q)
  <2>1. Handler
    BY <1>2, <1>3, <1>10 DEF Acquire
  <2> QED
    BY <1>10, <2>1 DEF Acquire, Leaves
<1>11. CASE Stream(q) \/ Buffer(q) \/ UpstreamError(q) \/ ReadError(q)
  <2>1. Handler
    BY <1>3, <1>11 DEF Stream, Buffer, UpstreamError, ReadError
  <2> QED
    BY <1>11, <2>1 DEF Stream, Buffer, UpstreamError, ReadError, Leaves
<1>12. CASE Release(q)
  BY <1>4, <1>5, <1>12 DEF Release, Leaves
<1>13. CASE Finish(q)
  <2>1. row'[p] = row[p]
    BY <1>0, <1>13 DEF Finish
  <2> QED
    BY <1>5, <1>13, <2>1 DEF Finish, Leaves
<1> QED
  BY <1>6, <1>7, <1>8, <1>9, <1>10, <1>11, <1>12, <1>13 DEF Serve

\* So do the windows, the clock and what there is of resets, but for the
\* reservations that expire: none of a request that is in its handler.
LEMMA TimeLeaves ==
  ASSUME TypeInv, NEW p \in Request, CountedNow(p), Tick
  PROVE  CountedNow(p)'
<1>1. /\ UNCHANGED <<pc, begun, todo, outcome, row, reservationExpiry>>
      /\ reservation' = [q \in Request |-> IF reservationExpiry[q] <= clock + 1 THEN Zero ELSE reservation[q]]
      /\ \A q \in Request : Busy(q) => clock + 1 < begun[q] + KeyTTL
  BY DEF Tick, handler, ending, ledger
<1>2. /\ clock \in Nat /\ begun[p] \in Nat /\ KeyTTL \in Nat /\ reservationExpiry[p] \in Nat
  BY QuotaAssumption DEF TypeInv, TypeOK
<1>3. ASSUME Busy(p), Holds(p) PROVE Holds(p)'
  <2>1. clock + 1 < reservationExpiry[p]
    BY <1>1, <1>2, <1>3 DEF Holds
  <2>2. reservation'[p] = reservation[p]
    BY <1>1, <1>2, <2>1
  <2> QED
    BY <1>1, <1>3, <2>2 DEF Holds
<1>4. Busy(p) => (Holds(p) => Holds(p)')
  BY <1>3
<1> QED
  BY <1>1, <1>4 DEF CountedNow, Busy

\* A request that stops or is not served is not judged.
LEMMA NotJudged ==
  ASSUME TypeInv, NEW p \in Request,
         \/ Return(p)
         \/ \E order, free, n : \E status \in {"none", "cancelled", "failed"} : End(p, order, free, status, n)
  PROVE  CountedNow(p)'
<1>0. /\ pc \in [Request -> {"new", "measuring", "measured", "reserved", "started", "serving", "ending", "over"}]
      /\ outcome \in [Request -> Rows]
  BY DEF TypeInv, TypeOK
<1>1. CASE Return(p)
  BY <1>0, <1>1 DEF Return, CountedNow
<1>2. ASSUME NEW order, NEW free, NEW n, NEW status \in {"none", "cancelled", "failed"}, End(p, order, free, status, n)
      PROVE  CountedNow(p)'
  BY <1>0, <1>2 DEF End, Goto, CountedNow
<1> QED
  BY <1>1, <1>2

\* A served request goes to its end with what it holds.
LEMMA ServedIsCounted ==
  ASSUME TypeInv, NEW p \in Request, CountedNow(p), pc[p] = "serving", NEW free, NEW n,
         End(p, <<"finish", "release">>, free, "completed", n), UNCHANGED runtime
  PROVE  CountedNow(p)'
<1>1. Holds(p)
  BY DEF CountedNow
<1>2. pc'[p] = "ending" /\ todo'[p] = <<"finish", "release">> /\ begun'[p] = begun[p]
  BY DEF End, Goto, TypeInv, TypeOK
<1>3. Holds(p)'
  BY <1>1, <1>2 DEF Holds, runtime
<1>4. <<"finish", "release">> # <<"release">>
  BY OrderFacts
<1> QED
  BY <1>2, <1>3, <1>4 DEF CountedNow

\* A reservation holds something of every window for as long as a request lasts.
LEMMA ReservedIsHeld ==
  ASSUME TypeInv, InTime, NEW p \in Request, pc[p] = "measured", Free(p), ReserveScript(p), Goto(p, "reserved")
  PROVE  CountedNow(p)'
<1>1. /\ reservation'[p] = Share(p) /\ reservationExpiry'[p] = clock + KeyTTL
      /\ pc'[p] = "reserved" /\ begun'[p] = begun[p]
  BY DEF ReserveScript, Share, Goto, TypeInv, TypeOK
<1>2. \A w \in Window : Share(p)[w] > 0
  BY ShareFacts DEF TypeInv
<1>3. begun[p] <= clock
  BY DEF InTime, Busy, Young
<1>4. begun[p] \in Nat /\ clock \in Nat /\ KeyTTL \in Nat
  BY QuotaAssumption DEF TypeInv, TypeOK
<1>5. Holds(p)'
  BY <1>1, <1>2, <1>3, <1>4 DEF Holds
<1> QED
  BY <1>1, <1>5 DEF CountedNow

\* The two steps of an end: the row of a served request is finished first.
LEMMA FinishIsCounted ==
  ASSUME TypeInv, NEW p \in Request, CountedNow(p), Finish(p)
  PROVE  CountedNow(p)'
<1>0. /\ pc[p] = "ending" /\ Head(todo[p]) = "finish" /\ todo[p] \in Orders
      /\ (row'[p] = outcome[p] \/ row' = row) /\ UNCHANGED runtime /\ Advance(p)
  BY DEF Finish, TypeInv, TypeOK, Ordered
<1>1. CASE Len(todo[p]) = 1
  BY <1>0, <1>1, NotJudged DEF Advance
<1>2. CASE Len(todo[p]) # 1
  <2>1. todo[p] = <<"finish", "release">>
    BY <1>0, <1>2, OrderFacts DEF Orders
  <2>2. /\ pc'[p] = "ending" /\ todo'[p] = <<"release">> /\ begun' = begun /\ outcome' = outcome
    BY <1>0, <1>2, <2>1, OrderFacts DEF Advance, Goto, TypeInv, TypeOK
  <2>3. outcome[p] = "completed" => Holds(p)
    BY <1>0, <2>1 DEF CountedNow
  <2>4. Holds(p) => Holds(p)'
    BY <1>0, <2>2 DEF Holds, runtime
  <2>5. <<"finish", "release">> # <<"release">>
    BY OrderFacts
  <2>6. outcome'[p] = "completed" => row'[p] = "completed" \/ Holds(p)'
    BY <1>0, <2>2, <2>3, <2>4 DEF CountedNow
  <2> QED
    BY <2>2, <2>5, <2>6 DEF CountedNow
<1> QED
  BY <1>1, <1>2

LEMMA ReleaseIsCounted ==
  ASSUME TypeInv, NEW p \in Request, CountedNow(p), Release(p)
  PROVE  CountedNow(p)'
<1>0. pc[p] = "ending" /\ Head(todo[p]) = "release" /\ todo[p] \in Orders /\ Advance(p)
  BY DEF Release, TypeInv, Ordered
<1>1. CASE Len(todo[p]) = 1
  BY <1>0, <1>1, NotJudged DEF Advance
<1>2. CASE Len(todo[p]) # 1
  <2>1. todo[p] = <<"release", "finish">>
    BY <1>0, <1>2, OrderFacts DEF Orders
  <2>2. outcome[p] # "completed"
    <3>1. todo[p] \notin {<<"finish", "release">>, <<"release">>}
      BY <2>1, OrderFacts
    <3> QED
      BY <1>0, <3>1 DEF CountedNow
  <2>3. pc'[p] = "ending" /\ outcome'[p] # "completed"
    BY <1>0, <1>2, <2>2 DEF Advance, Goto, TypeInv, TypeOK
  <2> QED
    BY <2>3 DEF CountedNow
<1> QED
  BY <1>1, <1>2

\* Its own steps keep a request counted.
LEMMA OwnStepsCount ==
  ASSUME TypeInv, InTime, NEW p \in Request, CountedNow(p), Serve(p) \/ ContextDone(p) \/ Crash(p)
  PROVE  CountedNow(p)'
<1> USE DEF decision, ending, ledger
<1>0. pc \in [Request -> {"new", "measuring", "measured", "reserved", "started", "serving", "ending", "over"}]
  BY DEF TypeInv, TypeOK
<1>1. CASE BeginQuota(p) \/ Measure(p)
  <2>1. pc'[p] \in {"measuring", "measured"}
    BY <1>0, <1>1 DEF BeginQuota, Measure
  <2> QED
    BY <2>1 DEF CountedNow
<1>2. CASE Deny(p) \/ Crash(p)
  BY <1>2, NotJudged DEF Deny, Crash
<1>3. CASE Reserve(p)
  <2>1. Return(p) \/ (pc[p] = "measured" /\ Free(p) /\ ReserveScript(p) /\ Goto(p, "reserved"))
    BY <1>3 DEF Reserve, Refused
  <2> QED
    BY <2>1, NotJudged, ReservedIsHeld
<1>4. CASE StartUsage(p) \/ Acquire(p)
  <2>1. \/ End(p, <<"release">>, {}, "none", 0)
        \/ \E status \in {"cancelled", "failed"} : End(p, <<"release", "finish">>, {"release", "finish"}, status, 0)
        \/ (Goto(p, "started") \/ Goto(p, "serving")) /\ pc[p] \in {"reserved", "started"}
    BY <1>4 DEF StartUsage, Acquire
  <2>2. UNCHANGED runtime
    BY <1>4 DEF StartUsage, Acquire
  <2>3. ASSUME Goto(p, "started") \/ Goto(p, "serving"), pc[p] \in {"reserved", "started"}
        PROVE  CountedNow(p)'
    <3>1. Holds(p) /\ pc'[p] \in {"started", "serving"} /\ begun' = begun
      BY <1>0, <2>3 DEF CountedNow, Goto
    <3>2. Holds(p)'
      BY <2>2, <3>1 DEF Holds, runtime
    <3> QED
      BY <3>1, <3>2 DEF CountedNow
  <2> QED
    BY <2>1, <2>3, NotJudged
<1>5. CASE Stream(p) \/ Buffer(p)
  <2>1. /\ pc[p] = "serving" /\ UNCHANGED runtime
        /\ \E free, n : \E status \in {"completed", "cancelled", "failed"} : End(p, <<"finish", "release">>, free, status, n)
    BY <1>5 DEF Stream, Buffer
  <2>2. PICK free, n : \E status \in {"completed", "cancelled", "failed"} : End(p, <<"finish", "release">>, free, status, n)
    BY <2>1
  <2>3. CASE End(p, <<"finish", "release">>, free, "completed", n)
    BY <2>1, <2>3, ServedIsCounted
  <2>4. CASE End(p, <<"finish", "release">>, free, "cancelled", n) \/ End(p, <<"finish", "release">>, free, "failed", n)
    BY <2>4, NotJudged
  <2> QED
    BY <2>2, <2>3, <2>4
<1>6. CASE UpstreamError(p) \/ ReadError(p)
  <2>1. \E free : \E status \in {"cancelled", "failed"} : End(p, <<"release", "finish">>, free, status, 0)
    BY <1>6 DEF UpstreamError, ReadError
  <2> QED
    BY <2>1, NotJudged
<1>7. CASE Release(p)
  BY <1>7, ReleaseIsCounted
<1>8. CASE Finish(p)
  BY <1>8, FinishIsCounted
<1>9. CASE ContextDone(p)
  <2>1. Leaves(p)
    BY <1>9 DEF ContextDone, runtime, Leaves
  <2> QED
    BY <2>1, LeftIsCounted
<1> QED
  BY <1>1, <1>2, <1>3, <1>4, <1>5, <1>6, <1>7, <1>8, <1>9 DEF Serve

LEMMA CountedHolds == NoResets => (Spec => []AlwaysCounted)
<1> SUFFICES ASSUME NoResets PROVE Spec => []AlwaysCounted
  OBVIOUS
<1>1. Init => AlwaysCounted
  BY DEF Init, AlwaysCounted, CountedNow
<1>2. TypeInv /\ InTime /\ Covers /\ AlwaysCounted /\ [Next]_vars => AlwaysCounted'
  <2> SUFFICES ASSUME TypeInv, InTime, Covers, AlwaysCounted, [Next]_vars, NEW p \in Request
               PROVE  CountedNow(p)'
    BY DEF AlwaysCounted
  <2>0. CountedNow(p) /\ ~Clears
    BY IdleStays DEF AlwaysCounted, Covers
  <2>1. ASSUME NEW q \in Request, Serve(q) \/ ContextDone(q) \/ Crash(q) PROVE CountedNow(p)'
    <3>1. CASE p = q
      BY <2>0, <2>1, <3>1, OwnStepsCount
    <3>2. CASE p # q
      BY <2>0, <2>1, <3>2, OthersLeave, LeftIsCounted
    <3> QED
      BY <3>1, <3>2
  <2>2. ASSUME (\E w \in Window : Roll(w)) \/ Reset \/ UNCHANGED vars PROVE CountedNow(p)'
    <3>1. UNCHANGED <<handler, ledger, runtime>>
      <4>1. CASE Reset
        BY <2>0, <4>1 DEF Reset, CheckReset, Redeem, RefuseReset, AdminReset, Clears, ClearPending, ClearReservations,
           handler, decision
      <4> QED
        BY <2>2, <4>1 DEF Roll, vars
    <3>2. Leaves(p)
      BY <3>1 DEF handler, decision, ending, ledger, runtime, Leaves
    <3> QED
      BY <2>0, <3>2, LeftIsCounted
  <2>3. CASE Tick
    BY <2>0, <2>3, TimeLeaves
  <2> QED
    BY <2>1, <2>2, <2>3 DEF Next
<1> QED
  BY <1>1, <1>2, TypesHold, InTimeHolds, CoversHolds, PTL DEF Spec

\* Without resets a request that was served is counted at every moment until its
\* handler is over: its row is completed, or it still holds what it reserved of
\* every window - also when calls are lost or fail, and although keys expire.
THEOREM ServedIsCountedAlways == NoResets => (Spec => []NeverUncounted)
<1> SUFFICES ASSUME NoResets PROVE Spec => []NeverUncounted
  OBVIOUS
<1>1. TypeInv /\ AlwaysCounted => NeverUncounted
  BY DEF AlwaysCounted, CountedNow, NeverUncounted, Holds
<1> QED
  BY <1>1, TypesHold, CountedHolds, PTL

-----------------------------------------------------------------------------
(* A reservation keeps within the limits.                                  *)

\* Only the reserve script reserves.
LEMMA ReservedByScript ==
  ASSUME TypeInv, [Next]_vars, NEW p \in Request, pc[p] = "measured", pc'[p] = "reserved"
  PROVE  Reserves(p)
<1> USE DEF handler, decision, ending
<1>0. pc \in [Request -> {"new", "measuring", "measured", "reserved", "started", "serving", "ending", "over"}]
  BY DEF TypeInv, TypeOK
<1>1. ASSUME NEW q \in Request, Return(q) PROVE FALSE
  BY <1>0, <1>1 DEF Return
<1>2. ASSUME NEW q \in Request, NEW step, step # "reserved", Goto(q, step) PROVE FALSE
  BY <1>0, <1>2 DEF Goto
<1>3. ASSUME NEW q \in Request, Serve(q) PROVE Reserves(p)
  <2>1. CASE BeginQuota(q) \/ Measure(q)
    BY <1>0, <2>1 DEF BeginQuota, Measure
  <2>2. CASE Deny(q)
    BY <1>1, <2>2 DEF Deny
  <2>3. CASE Reserve(q)
    <3>1. ~Return(q)
      BY <1>1
    <3>2. Goto(q, "reserved") /\ pc[q] = "measured" /\ Free(q) /\ ReserveScript(q) /\ UNCHANGED <<clock, seen>>
      BY <2>3, <3>1 DEF Reserve, Refused
    <3>3. p = q
      BY <1>0, <3>2 DEF Goto
    <3> QED
      BY <3>2, <3>3 DEF Reserves
  <2>4. CASE StartUsage(q) \/ Acquire(q)
    BY <1>2, <2>4 DEF StartUsage, Acquire, End
  <2>5. CASE Stream(q) \/ Buffer(q) \/ UpstreamError(q) \/ ReadError(q)
    BY <1>2, <2>5 DEF Stream, Buffer, UpstreamError, ReadError, End
  <2>6. CASE Release(q) \/ Finish(q)
    BY <1>1, <1>2, <2>6 DEF Release, Finish, Advance
  <2> QED
    BY <1>3, <2>1, <2>2, <2>3, <2>4, <2>5, <2>6 DEF Serve
<1>4. ASSUME NEW q \in Request, ContextDone(q) \/ Crash(q) PROVE FALSE
  BY <1>1, <1>4 DEF ContextDone, Crash
<1>5. ASSUME (\E w \in Window : Roll(w)) \/ Reset \/ Tick \/ UNCHANGED vars PROVE FALSE
  BY <1>5 DEF Roll, Reset, CheckReset, Redeem, RefuseReset, AdminReset, ClearPending, ClearReservations, Tick, vars
<1> QED
  BY <1>3, <1>4, <1>5 DEF Next

\* The property, of one request and one window.
WithinLimit(q, w) ==
  UsedTokens(w, seen[q][w]) = used[q][w] => UsedTokens(w, seen[q][w]) + Held(w, seen[q][w])' <= Limit[w]

LEMMA ScriptKeepsLimit ==
  ASSUME TypeInv, TypeInv', Unreserved, Covers, NEW q \in Request, Reserves(q), NEW w \in Window
  PROVE  WithinLimit(q, w)
<1>0. TypeOK /\ TypeOK' /\ seen' = seen
  BY DEF TypeInv, Reserves
<1>1. PICK k \in Epoch : k = seen[q][w] /\ k = seen'[q][w]
  <2>1. seen[q][w] \in Epoch
    BY DEF TypeInv, TypeOK
  <2> QED
    BY <1>0, <2>1
<1>2. /\ reservation' = [reservation EXCEPT ![q] = Share(q)] /\ reservation[q] = Zero
      /\ reservation \in [Request -> [Window -> Nat]]
  BY DEF Reserves, ReserveScript, Share, Unreserved, TypeInv, TypeOK
<1>3. HeldBy(q, w, k) = 0 /\ HeldBy(q, w, k)' = Share(q)[w]
  BY <1>0, <1>1, <1>2 DEF HeldBy, Zero
<1>4. \A p \in Request \ {q} : HeldBy(p, w, k)' = HeldBy(p, w, k)
  BY <1>0, <1>2 DEF HeldBy
<1>5. Held(w, k)' = Held(w, k) - HeldBy(q, w, k) + HeldBy(q, w, k)'
  BY <1>0, <1>4, HeldChanges
<1>6. Held(w, k) \in Nat /\ HeldBy(q, w, k)' \in Nat
  BY <1>0, HeldInNat, HeldTypes
<1>7. Held(w, k) <= pending[w][k] /\ pending[w][k] \in Nat
  BY <1>0 DEF Covers, PendingCoversReservations, TypeOK
<1>8. Share(q)[w] <= Headroom(q, w)
  BY <1>0, ShareFacts DEF Reserves
<1>9. Headroom(q, w) = Limit[w] - used[q][w] - pending[w][k]
  BY <1>1 DEF Headroom
<1>10. used[q][w] \in Nat /\ Limit[w] \in Nat
  BY <1>0, QuotaAssumption DEF TypeOK
<1>11. used[q][w] + Held(w, k)' <= Limit[w]
  BY <1>3, <1>5, <1>6, <1>7, <1>8, <1>9, <1>10
<1>12. Held(w, seen[q][w])' = Held(w, k)'
  <2>1. [p \in Request |-> IF seen'[p][w] = seen'[q][w] THEN reservation'[p][w] ELSE 0] =
          [p \in Request |-> IF seen'[p][w] = k THEN reservation'[p][w] ELSE 0]
    BY <1>1
  <2> QED
    BY <2>1, Zenon DEF Held
<1> QED
  BY <1>1, <1>11, <1>12 DEF WithinLimit

\* Without resets, a request that reserves while the ledger still says what its
\* decision read keeps usage and reservations together within the limit of every
\* window, whatever other requests have reserved or given back in between.
THEOREM ReservationsKeepLimits == NoResets => (Spec => ReservesWithinLimit)
<1> SUFFICES ASSUME NoResets PROVE Spec => ReservesWithinLimit
  OBVIOUS
<1> DEFINE Step == \A q \in Request :
                     pc[q] = "measured" /\ pc'[q] = "reserved" =>
                       \A w \in Window :
                         UsedTokens(w, seen[q][w]) = used[q][w] =>
                           UsedTokens(w, seen[q][w]) + Held(w, seen[q][w])' <= Limit[w]
<1>1. TypeInv /\ TypeInv' /\ Unreserved /\ Covers /\ [Next]_vars => [Step]_vars
  <2> SUFFICES ASSUME TypeInv, TypeInv', Unreserved, Covers, [Next]_vars,
                      NEW q \in Request, pc[q] = "measured" /\ pc'[q] = "reserved", NEW w \in Window
               PROVE  WithinLimit(q, w)
    BY DEF WithinLimit
  <2>1. Reserves(q)
    BY ReservedByScript
  <2> QED
    BY <2>1, ScriptKeepsLimit
<1> QED
  BY <1>1, TypesHold, UnreservedHolds, CoversHolds, PTL DEF Spec, ReservesWithinLimit

=============================================================================
