--------------------------- MODULE MCRedisMarketData ---------------------------
(* A few messages through several sinks, with every fault at every step.   *)
EXTENDS RedisMarketData

MCTopOfBook == {[hasBid |-> TRUE, hasAsk |-> TRUE], [hasBid |-> FALSE, hasAsk |-> TRUE]}
================================================================================
