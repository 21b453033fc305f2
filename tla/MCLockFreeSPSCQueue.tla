-------------------------- MODULE MCLockFreeSPSCQueue --------------------------
(* A ring of four slots that wraps, with two items that can be told apart. *)
EXTENDS LockFreeSPSCQueue
================================================================================
