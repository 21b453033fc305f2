----------------------------- MODULE MCOrderBook -----------------------------
(* The order book on a small instance, for TLC.                            *)
EXTENDS OrderBook, TLC

(* Identifiers are only compared for equality, and every property checked  *)
(* with this symmetry is a safety property.                                *)
IdSymmetry == Permutations(OrderId)
==============================================================================
