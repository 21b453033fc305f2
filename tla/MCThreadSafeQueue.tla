--------------------------- MODULE MCThreadSafeQueue ---------------------------
(* Three threads on each side, with a stop and a restart at any time.      *)
EXTENDS ThreadSafeQueue
================================================================================
