--------------------------- MODULE MCPostgresJournal ---------------------------
(* The journal with every interleaving of a few records and calls.         *)
EXTENDS PostgresJournal
================================================================================
