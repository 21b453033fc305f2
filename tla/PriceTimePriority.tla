-------------------------- MODULE PriceTimePriority --------------------------
(***************************************************************************)
(* What include/OrderBook.h promises its caller: each call is one step on  *)
(* a list of resting orders, and returns what price-time priority says.    *)
(***************************************************************************)
EXTENDS Matching

CONSTANTS
  OrderId,     \* identifiers callers may use
  Price,       \* prices limit orders may have
  MaxQuantity  \* bound: largest quantity of an order

VARIABLES
  resting,  \* the resting orders, oldest first
  ret       \* what the last call returned or threw

Init ==
  /\ resting = <<>>
  /\ ret = [call |-> "none"]

(* A call that throws leaves the book as it was.                           *)
Throws(call) ==
  /\ ret' = [call |-> call, throws |-> "invalid_argument"]
  /\ UNCHANGED resting

AddOrder(order) ==
  /\ order.id \notin Active(resting)
  /\ LET outcome == Outcome(resting, order)
     IN  /\ ret' = [call |-> "addOrder", trades |-> outcome.trades]
         /\ resting' = outcome.book

CancelOrder(id) ==
  /\ resting' = Cancelled(resting, id)
  /\ ret' = [call |-> "cancelOrder", found |-> id \in Active(resting)]

Next ==
  \/ \E call \in {"createOrder", "addOrder"} : Throws(call)
  \/ \E id \in OrderId : CancelOrder(id)
  \/ \E order \in Orders(OrderId, Price, 1..MaxQuantity) : AddOrder(order)

Spec == Init /\ [][Next]_<<resting, ret>>
==============================================================================
