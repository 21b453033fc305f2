--------------------------- MODULE MCDurableEngine ---------------------------
(* A resting sell, a market buy that takes part of it, and an order that   *)
(* reuses the id of the sell.                                              *)
EXTENDS DurableEngine

MCOrder ==
  { [id |-> 1, kind |-> "LIMIT",  side |-> "SELL", quantity |-> 2, price |-> 2],
    [id |-> 2, kind |-> "MARKET", side |-> "BUY",  quantity |-> 1, price |-> NoPrice],
    [id |-> 1, kind |-> "LIMIT",  side |-> "BUY",  quantity |-> 3, price |-> 2] }
==============================================================================
