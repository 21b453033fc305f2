------------------------ MODULE MCOrderBookRefinement ------------------------
(* The refinement on a small instance, for TLC.                            *)
EXTENDS OrderBookRefinement, TLC

(* Identifiers are only compared for equality, and the property is a       *)
(* safety property.                                                        *)
IdSymmetry == Permutations(OrderId)
==============================================================================
