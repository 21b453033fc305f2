------------------------------ MODULE GroupCommit ------------------------------
(***************************************************************************)
(* What an asynchronous journal promises, without its threads, queues and  *)
(* condition variables (persistence/PostgresJournal.h, the design note and *)
(* the interface; include/IJournal.h).                                     *)
(*                                                                         *)
(* Records are handed over in one order.  They are settled in that order,  *)
(* a group at a time, and a group is stored as a whole or lost as a whole. *)
(* A flush() that has returned has seen everything handed over before it   *)
(* was called settled.  An event is a record with a sequence number, any   *)
(* other record is a trade.                                                *)
(***************************************************************************)
EXTENDS Positions, Sequences

VARIABLES
  log,        \* every record handed over, in order
  settled,    \* how many of them have been stored or lost
  tables,     \* what the database holds
  checkpoint  \* how many were handed over before the last completed flush()

vars == <<log, settled, tables, checkpoint>>

IsEvent(record) == "seq" \in DOMAIN record

EventsOf(records) == Keep(records, {i \in DOMAIN records : IsEvent(records[i])})
TradesOf(records) == Keep(records, {i \in DOMAIN records : ~IsEvent(records[i])})

(* seq is the primary key of the events table.                             *)
KeysFree(table, events) ==
  /\ \A i \in DOMAIN events, j \in DOMAIN table : events[i].seq # table[j].seq
  /\ \A i, j \in DOMAIN events : i # j => events[i].seq # events[j].seq

Stored(base, records) ==
  [events |-> base.events \o EventsOf(records), trades |-> base.trades \o TradesOf(records)]

Init ==
  /\ log = <<>>
  /\ settled = 0
  /\ DOMAIN tables = {"events", "trades"}
  /\ checkpoint = 0

Record(record) ==
  /\ log' = Append(log, record)
  /\ UNCHANGED <<settled, tables, checkpoint>>

(* Fault: the trades are collected after the events, when more may have    *)
(* been handed over.                                                       *)
CommitTradesLate(n) ==
  LET group == SubSeq(log, settled + 1, settled + n)
  IN  /\ KeysFree(tables.events, EventsOf(group))
      /\ tables' = [ events |-> tables.events \o EventsOf(group),
                     trades |-> tables.trades \o TradesOf(SubSeq(log, settled + 1, Len(log))) ]
      /\ settled' = settled + n
      /\ UNCHANGED <<log, checkpoint>>

(* The next n records, in one transaction.                                 *)
Commit(n) ==
  LET group == SubSeq(log, settled + 1, settled + n)
  IN  /\ KeysFree(tables.events, EventsOf(group))
      /\ tables' = Stored(tables, group)
      /\ settled' = settled + n
      /\ UNCHANGED <<log, checkpoint>>

(* The transaction of the next n records fails: they are dropped.          *)
Drop(n) ==
  /\ settled' = settled + n
  /\ UNCHANGED <<log, tables, checkpoint>>

(* A flush() called when n records had been handed over returns.           *)
FlushReturns(n) ==
  /\ n <= settled
  /\ checkpoint' = n
  /\ UNCHANGED <<log, settled, tables>>

Next ==
  \/ /\ Len(log') > Len(log)
     /\ Record(log'[Len(log')])
  \/ \E n \in 1..(Len(log) - settled) : Commit(n) \/ Drop(n)
  \/ \E n \in 0..settled : FlushReturns(n)

Spec == Init /\ [][Next]_vars
================================================================================
