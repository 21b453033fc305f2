------------------------- MODULE OrderBookRefinement -------------------------
(***************************************************************************)
(* The order book implements PriceTimePriority.  A call of addOrder is     *)
(* several steps of OrderBook and one step of the abstract book, taken     *)
(* when it returns; `before` is a history variable that keeps the book as  *)
(* it was when the call in progress began.                                 *)
(***************************************************************************)
EXTENDS OrderBook, FiniteSets

VARIABLE before

(* The resting orders of the code's maps, oldest first.                    *)
View ==
  LET older(id) == {other \in DOMAIN location : owned[other].arrival < owned[id].arrival}
      ids == [i \in 1..Cardinality(DOMAIN location) |->
                CHOOSE id \in DOMAIN location : Cardinality(older(id)) = i - 1]
  IN  [i \in DOMAIN ids |->
         [id |-> ids[i], side |-> location[ids[i]].side, price |-> location[ids[i]].price,
          quantity |-> owned[ids[i]].quantity, remaining |-> owned[ids[i]].remaining]]

HistoryInit == Init /\ before = View

HistoryNext == Next /\ before' = IF Idle' THEN View' ELSE before

HistorySpec == HistoryInit /\ [][HistoryNext]_<<vars, before>>

Abstract == INSTANCE PriceTimePriority WITH resting <- before

(* Every call returns the trades, and leaves the resting orders, that      *)
(* price-time priority defines; a call that throws changes nothing.        *)
ImplementsPriceTimePriority == Abstract!Spec
==============================================================================
