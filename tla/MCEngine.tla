------------------------------ MODULE MCEngine ------------------------------
(* The engine on a small instance: a sell, a bid below it so that the book *)
(* can be two-sided, and a market buy under the id of that bid.            *)
EXTENDS Engine

MCOrder ==
  { [id |-> 1, kind |-> "LIMIT",  side |-> "SELL", quantity |-> 2, price |-> 2],
    [id |-> 2, kind |-> "LIMIT",  side |-> "BUY",  quantity |-> 1, price |-> 1],
    [id |-> 2, kind |-> "MARKET", side |-> "BUY",  quantity |-> 1, price |-> NoPrice] }
==============================================================================
