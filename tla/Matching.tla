------------------------------- MODULE Matching -------------------------------
(***************************************************************************)
(* What matching an order against a book means, as a definition and not as *)
(* a loop: the fill of every resting order follows from the quantity       *)
(* offered ahead of it.  A book is the sequence of its resting orders,     *)
(* oldest first; it has no price levels, no index and no order objects.    *)
(*                                                                         *)
(* OrderBookRefinement shows that src/OrderBook.cpp computes exactly this; *)
(* the modules of the engine and of the journal use it as the book.        *)
(***************************************************************************)
EXTENDS Types, Positions, SequencesExt

(* The order an incoming command asks for.                                 *)
Orders(OrderId, Price, Quantity) ==
  [id : OrderId, kind : {"MARKET"}, side : Side, price : {NoPrice}, quantity : Quantity]
    \cup [id : OrderId, kind : {"LIMIT"}, side : Side, price : Price, quantity : Quantity]

Active(book) == {book[i].id : i \in DOMAIN book}

(* The limit of `order` admits a trade at this price.                      *)
Acceptable(order, price) ==
  order.kind = "LIMIT" =>
    IF order.side = "BUY" THEN price <= order.price ELSE price >= order.price

(* The resting orders that `order` may trade with.                         *)
Eligible(book, order) ==
  {i \in DOMAIN book : /\ book[i].side = Opposite(order.side)
                       /\ Acceptable(order, book[i].price)}

(* Price-time priority between two resting orders of one side.             *)
Ahead(book, i, j) ==
  \/ /\ book[i].side = "BUY"
     /\ book[i].price > book[j].price
  \/ /\ book[i].side = "SELL"
     /\ book[i].price < book[j].price
  \/ /\ book[i].price = book[j].price
     /\ i < j

(* What each resting order gets: all it offers, as long as the quantity    *)
(* that is left by the ones ahead of it lasts.                             *)
Fills(book, order) ==
  LET eligible == Eligible(book, order)
      offered == [i \in DOMAIN book |-> book[i].remaining]
      offeredAhead(i) == SumFunctionOnSet(offered, {j \in eligible : Ahead(book, j, i)})
  IN  [i \in DOMAIN book |->
         IF i \in eligible
         THEN Max({0, Min({book[i].remaining, order.quantity - offeredAhead(i)})})
         ELSE 0]

(* The book and the trades once `order` has been added: filled orders      *)
(* leave, and the rest of a limit order joins as the youngest.             *)
Outcome(book, order) ==
  LET fills  == Fills(book, order)
      left   == order.quantity - SumFunction(fills)
      filled == {i \in DOMAIN book : fills[i] > 0}
      ranked == [k \in 1..Cardinality(filled) |->
                   CHOOSE i \in filled : Cardinality({j \in filled : Ahead(book, j, i)}) = k - 1]
      after  == [i \in DOMAIN book |-> [book[i] EXCEPT !.remaining = @ - fills[i]]]
      rest   == [id |-> order.id, side |-> order.side, price |-> order.price,
                 quantity |-> order.quantity, remaining |-> left]
  IN  [ book   |-> Keep(after, {i \in DOMAIN book : after[i].remaining > 0})
                     \o IF order.kind = "LIMIT" /\ left > 0 THEN <<rest>> ELSE <<>>,
        trades |-> [k \in DOMAIN ranked |->
                      Trade(order.side, order.id, book[ranked[k]].id,
                            book[ranked[k]].price, fills[ranked[k]])] ]

Cancelled(book, id) == Keep(book, {i \in DOMAIN book : book[i].id # id})

(* Top of book: the best price of a side, NoPrice when it is empty.        *)
BestPrice(book, side) ==
  LET prices == {book[i].price : i \in {k \in DOMAIN book : book[k].side = side}}
  IN  IF prices = {} THEN NoPrice
      ELSE IF side = "BUY" THEN Max(prices) ELSE Min(prices)
==============================================================================
