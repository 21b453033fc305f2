-------------------------------- MODULE Types --------------------------------
(***************************************************************************)
(* The vocabulary every module shares: the enumerations of                 *)
(* include/Types.h and the Trade record of include/Trade.h.                *)
(*                                                                         *)
(* Prices are doubles in the code and are only compared and copied, so a   *)
(* price is a positive integer here.  Identifiers are only compared for    *)
(* equality.  Timestamps of orders and trades are written and never read   *)
(* by the engine: they are left out.                                       *)
(***************************************************************************)
EXTENDS Integers, Sequences

Side == {"BUY", "SELL"}

OrderKind == {"MARKET", "LIMIT"}

OrderStatus == {"NEW", "OPEN", "PARTIALLY_FILLED", "FILLED", "CANCELLED"}

Opposite(side) == IF side = "BUY" THEN "SELL" ELSE "BUY"

(* The price of a market order: getPrice() throws for one, and             *)
(* makeSubmitEvent stores 0 in its place, which no limit order can have.   *)
NoPrice == 0

(* The Trade pushed when the incoming order `aggressor`, on side `side`,   *)
(* meets the resting order `passive`.                                      *)
Trade(side, aggressor, passive, price, quantity) ==
  [ buyOrderId  |-> IF side = "BUY" THEN aggressor ELSE passive,
    sellOrderId |-> IF side = "BUY" THEN passive ELSE aggressor,
    price       |-> price,
    quantity    |-> quantity ]

Trades(OrderId, Price) ==
  [buyOrderId : OrderId, sellOrderId : OrderId, price : Price, quantity : Nat]
==============================================================================
