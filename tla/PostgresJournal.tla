---------------------------- MODULE PostgresJournal ----------------------------
(***************************************************************************)
(* The journal on a database: persistence/PostgresJournal.cpp.             *)
(*                                                                         *)
(* Four threads meet here.  The producer (the engine's matching thread)    *)
(* calls append and recordTrade; a second thread calls flush; the owner    *)
(* destroys the journal; the writer drains the two queues into one         *)
(* transaction at a time.  An action is what a thread does while it holds  *)
(* mtx_, or a notify or a transaction outside of it.  A thread blocked on  *)
(* a condition variable is "asleep" until a notify, or nothing at all,     *)
(* wakes it; it then evaluates its predicate again.                        *)
(*                                                                         *)
(* The database is external: a transaction stores its rows or none of      *)
(* them, and may fail for any reason.  One that commits and is reported as *)
(* failed leaves what a successful one leaves, up to the statistics        *)
(* counters, which are left out.                                           *)
(***************************************************************************)
EXTENDS Integers, Sequences

CONSTANT MaxRecords  \* bound: events and trades handed over

ASSUME JournalAssumption == MaxRecords \in Nat

VARIABLES
  eventQueue,  \* eventQueue_
  tradeQueue,  \* tradeQueue_
  enqueued,    \* enqueued_
  done,        \* done_
  stopping,    \* stopping_
  producer,    \* "idle", or "notify": unlocked, notify_one still to come
  flusher,     \* "idle", "check" or "asleep" on flushedCv_
  target,      \* target of the flush() in progress
  owner,       \* "alive", "notify", "join", "destroyed"
  writer,      \* "check", "asleep" on workCv_, "commit", "account",
               \* "announce" or "exited"
  events,      \* the batch the writer has swapped out ...
  trades,      \* ... of the two queues
  tables,      \* the events and trades tables
  arrived,     \* history: every record, in the order it took the lock
  settled,     \* history: how many of them a transaction has dealt with
  dropped,     \* history: a transaction has failed
  checkpoint,  \* history: the target of the last flush() that returned
  nextSeq      \* the sequence number the engine gives the next event

vars == <<eventQueue, tradeQueue, enqueued, done, stopping, producer, flusher, target, owner,
          writer, events, trades, tables, arrived, settled, dropped, checkpoint, nextSeq>>

queues   == <<eventQueue, tradeQueue, enqueued>>
batch    == <<events, trades>>
callers  == <<producer, flusher, target, owner, stopping>>
history  == <<arrived, settled, dropped, checkpoint, nextSeq>>

Abstract == INSTANCE GroupCommit WITH log <- arrived

------------------------------------------------------------------------------
(* An engine that does not recover() numbers from 1 whatever is stored.    *)
Init ==
  /\ eventQueue = <<>>
  /\ tradeQueue = <<>>
  /\ enqueued = 0
  /\ done = 0
  /\ stopping = FALSE
  /\ producer = "idle"
  /\ flusher = "idle"
  /\ target = 0
  /\ owner = "alive"
  /\ writer = "check"
  /\ events = <<>>
  /\ trades = <<>>
  /\ \E stored \in {<<>>, <<[seq |-> 1]>>} : tables = [events |-> stored, trades |-> <<>>]
  /\ arrived = <<>>
  /\ settled = 0
  /\ dropped = FALSE
  /\ checkpoint = 0
  /\ nextSeq = 1

Woken(thread) == IF thread = "asleep" THEN "check" ELSE thread

------------------------------------------------------------------------------
(* The matching thread.  The journal outlives the engine that uses it.     *)

AppendEvent ==
  /\ producer = "idle" /\ owner = "alive"
  /\ enqueued < MaxRecords
  /\ LET ev == [seq |-> nextSeq]
     IN  /\ eventQueue' = Append(eventQueue, ev)
         /\ arrived' = Append(arrived, ev)
  /\ nextSeq' = nextSeq + 1
  /\ enqueued' = enqueued + 1
  /\ producer' = "notify"
  /\ UNCHANGED <<tradeQueue, done, stopping, flusher, target, owner, writer, batch, tables,
                 settled, dropped, checkpoint>>

RecordTrade ==
  /\ producer = "idle" /\ owner = "alive"
  /\ enqueued < MaxRecords
  /\ LET row == [trade |-> enqueued]
     IN  /\ tradeQueue' = Append(tradeQueue, row)
         /\ arrived' = Append(arrived, row)
  /\ enqueued' = enqueued + 1
  /\ producer' = "notify"
  /\ UNCHANGED <<eventQueue, done, stopping, flusher, target, owner, writer, batch, tables,
                 settled, dropped, checkpoint, nextSeq>>

(* Fault: append and recordTrade do not notify.                            *)
NotifyWriterNot ==
  /\ producer = "notify"
  /\ producer' = "idle"
  /\ UNCHANGED <<queues, done, stopping, flusher, target, owner, writer, batch, tables, history>>

(* workCv_.notify_one() after the lock has been released.                  *)
NotifyWriter ==
  /\ producer = "notify"
  /\ producer' = "idle"
  /\ writer' = Woken(writer)
  /\ UNCHANGED <<queues, done, stopping, flusher, target, owner, batch, tables, history>>

------------------------------------------------------------------------------
(* flush(), from any thread but the writer. *)

(* The predicate flush() waits for.                                        *)
Flushed(n) == done >= n \/ stopping

(* It takes the target, nudges the writer and evaluates its predicate for  *)
(* the first time without releasing the lock.                              *)
Flush ==
  /\ flusher = "idle" /\ owner = "alive"
  /\ target' = enqueued
  /\ writer' = Woken(writer)
  /\ \/ /\ Flushed(enqueued)
        /\ checkpoint' = enqueued
        /\ UNCHANGED flusher
     \/ /\ ~Flushed(enqueued)
        /\ flusher' = "asleep"
        /\ UNCHANGED checkpoint
  /\ UNCHANGED <<queues, done, stopping, producer, owner, batch, tables, arrived, settled, dropped,
                 nextSeq>>

FlushWakes ==
  /\ flusher = "check"
  /\ \/ /\ Flushed(target)
        /\ flusher' = "idle"
        /\ checkpoint' = target
     \/ /\ ~Flushed(target)
        /\ flusher' = "asleep"
        /\ UNCHANGED checkpoint
  /\ UNCHANGED <<queues, done, stopping, producer, target, owner, writer, batch, tables, arrived,
                 settled, dropped, nextSeq>>

(* A condition variable may wake a thread for no reason.                   *)
SpuriousWakeup ==
  /\ \/ /\ writer = "asleep"
        /\ writer' = "check"
        /\ UNCHANGED flusher
     \/ /\ flusher = "asleep"
        /\ flusher' = "check"
        /\ UNCHANGED writer
  /\ UNCHANGED <<queues, done, stopping, producer, target, owner, batch, tables, history>>

------------------------------------------------------------------------------
(* ~PostgresJournal, when no other call is in progress. *)

Destroy ==
  /\ owner = "alive" /\ producer = "idle" /\ flusher = "idle"
  /\ stopping' = TRUE
  /\ owner' = "notify"
  /\ UNCHANGED <<queues, done, producer, flusher, target, writer, batch, tables, history>>

(* Fault: the destructor joins without waking the writer.                  *)
DestroyNotifyNot ==
  /\ owner = "notify"
  /\ owner' = "join"
  /\ UNCHANGED <<queues, done, stopping, producer, flusher, target, writer, batch, tables, history>>

DestroyNotify ==
  /\ owner = "notify"
  /\ writer' = Woken(writer)
  /\ owner' = "join"
  /\ UNCHANGED <<queues, done, stopping, producer, flusher, target, batch, tables, history>>

DestroyReturns ==
  /\ owner = "join"
  /\ writer = "exited"
  /\ owner' = "destroyed"
  /\ UNCHANGED <<queues, done, stopping, producer, flusher, target, writer, batch, tables, history>>

------------------------------------------------------------------------------
(* The writer thread. *)

NoWork == eventQueue = <<>> /\ tradeQueue = <<>>

WriterSleeps ==
  /\ writer = "check"
  /\ NoWork /\ ~stopping
  /\ writer' = "asleep"
  /\ UNCHANGED <<queues, done, callers, batch, tables, history>>

(* Fault: stopping_ alone ends the loop.                                   *)
WriterExitsUndrained ==
  /\ writer = "check"
  /\ stopping
  /\ writer' = "exited"
  /\ UNCHANGED <<queues, done, callers, batch, tables, history>>

WriterExits ==
  /\ writer = "check"
  /\ NoWork /\ stopping
  /\ writer' = "exited"
  /\ UNCHANGED <<queues, done, callers, batch, tables, history>>

(* Fault: the event queue waits while there are trades to write.           *)
WriterTakesTradesFirst ==
  /\ writer = "check"
  /\ ~NoWork
  /\ trades' = tradeQueue
  /\ tradeQueue' = <<>>
  /\ \/ /\ tradeQueue = <<>>
        /\ events' = eventQueue
        /\ eventQueue' = <<>>
     \/ /\ tradeQueue # <<>>
        /\ UNCHANGED <<events, eventQueue>>
  /\ writer' = "commit"
  /\ UNCHANGED <<enqueued, done, callers, tables, history>>

(* Both queues are swapped out under one lock.                             *)
WriterTakes ==
  /\ writer = "check"
  /\ ~NoWork
  /\ events' = eventQueue
  /\ trades' = tradeQueue
  /\ eventQueue' = <<>>
  /\ tradeQueue' = <<>>
  /\ writer' = "commit"
  /\ UNCHANGED <<enqueued, done, callers, tables, history>>

(* Fault: only the events of a batch are counted.                          *)
BatchCountEvents == Len(events)

(* Fault: what has been queued since is counted too.                       *)
BatchCountQueued == Len(events) + Len(trades) + Len(eventQueue) + Len(tradeQueue)

BatchCount == Len(events) + Len(trades)

(* The transaction succeeds: no seq is in the table yet.                   *)
WriterCommits ==
  /\ writer = "commit"
  /\ Abstract!KeysFree(tables.events, events)
  /\ tables' = [events |-> tables.events \o events, trades |-> tables.trades \o trades]
  /\ settled' = settled + BatchCount
  /\ writer' = "account"
  /\ UNCHANGED <<queues, done, callers, batch, arrived, dropped, checkpoint, nextSeq>>

(* Fault: a failed batch is never accounted for.                           *)
WriterFailsForGood ==
  /\ writer = "commit"
  /\ dropped' = TRUE
  /\ settled' = settled + BatchCount
  /\ writer' = "check"
  /\ events' = <<>>
  /\ trades' = <<>>
  /\ UNCHANGED <<queues, done, callers, tables, arrived, checkpoint, nextSeq>>

(* It fails: the error is logged and the batch is dropped.                 *)
WriterFails ==
  /\ writer = "commit"
  /\ dropped' = TRUE
  /\ settled' = settled + BatchCount
  /\ writer' = "account"
  /\ UNCHANGED <<queues, done, callers, batch, tables, arrived, checkpoint, nextSeq>>

(* Fault: done_ is set to all that has been queued by now.                 *)
WriterAccountsAll ==
  /\ writer = "account"
  /\ done' = enqueued
  /\ events' = <<>>
  /\ trades' = <<>>
  /\ writer' = "announce"
  /\ UNCHANGED <<queues, callers, tables, history>>

(* done_ advances whether the batch was committed or dropped.              *)
WriterAccounts ==
  /\ writer = "account"
  /\ done' = done + BatchCount
  /\ events' = <<>>
  /\ trades' = <<>>
  /\ writer' = "announce"
  /\ UNCHANGED <<queues, callers, tables, history>>

(* flushedCv_.notify_all() after the lock has been released.               *)
WriterAnnounces ==
  /\ writer = "announce"
  /\ flusher' = Woken(flusher)
  /\ writer' = "check"
  /\ UNCHANGED <<queues, done, stopping, producer, target, owner, batch, tables, history>>

Writer ==
  \/ WriterSleeps
  \/ WriterExits
  \/ WriterTakes
  \/ WriterCommits
  \/ WriterFails
  \/ WriterAccounts
  \/ WriterAnnounces

Next ==
  \/ AppendEvent
  \/ RecordTrade
  \/ NotifyWriter
  \/ Flush
  \/ FlushWakes
  \/ SpuriousWakeup
  \/ Destroy
  \/ DestroyNotify
  \/ DestroyReturns
  \/ Writer

(* Threads that can go on are scheduled, and a transaction ends, one way   *)
(* or the other.  Nobody has to call the journal, and no thread may count  *)
(* on a spurious wakeup.                                                   *)
Fairness ==
  /\ WF_vars(NotifyWriter)
  /\ WF_vars(FlushWakes)
  /\ WF_vars(DestroyNotify)
  /\ WF_vars(DestroyReturns)
  /\ WF_vars(Writer)

Spec == Init /\ [][Next]_vars /\ Fairness

------------------------------------------------------------------------------
(* Properties. *)

(* The type invariant: where each thread is, and counters that never run   *)
(* ahead of what was queued.                                               *)
TypeOK ==
  /\ enqueued \in 0..MaxRecords /\ done \in 0..enqueued /\ target \in 0..enqueued
  /\ stopping \in BOOLEAN /\ dropped \in BOOLEAN
  /\ producer \in {"idle", "notify"}
  /\ flusher \in {"idle", "check", "asleep"}
  /\ owner \in {"alive", "notify", "join", "destroyed"}
  /\ writer \in {"check", "asleep", "commit", "account", "announce", "exited"}

(* The counters flush() relies on account for every record: it has been    *)
(* dealt with, is in the writer's hands, or is queued.                     *)
Accounting == enqueued = done + BatchCount + Len(eventQueue) + Len(tradeQueue)

(* A flush() that has returned is a checkpoint, as long as no transaction  *)
(* has failed: every record handed over before it was called is stored.    *)
FlushedIsDurable ==
  ~dropped =>
    \A i \in 1..checkpoint :
      \/ \E k \in DOMAIN tables.events : tables.events[k] = arrived[i]
      \/ \E k \in DOMAIN tables.trades : tables.trades[k] = arrived[i]

(* The same without the condition, as IJournal.h states it: everything     *)
(* appended so far is durably stored when flush() returns.                 *)
FlushAlwaysDurable ==
  \A i \in 1..checkpoint :
    \/ \E k \in DOMAIN tables.events : tables.events[k] = arrived[i]
    \/ \E k \in DOMAIN tables.trades : tables.trades[k] = arrived[i]

(* The destructor writes out everything that was queued before it returns. *)
DestructorDrains ==
  owner = "destroyed" =>
    /\ NoWork /\ done = enqueued
    /\ ~dropped => \A i \in DOMAIN arrived :
         \/ \E k \in DOMAIN tables.events : tables.events[k] = arrived[i]
         \/ \E k \in DOMAIN tables.trades : tables.trades[k] = arrived[i]

(* The two queues, the batches and the transactions implement one ordered  *)
(* stream of records, settled group by group: at no moment does the        *)
(* database hold a record without the ones handed over before it, unless   *)
(* a whole batch was dropped.                                              *)
ImplementsGroupCommit == Abstract!Spec

(* A flush() returns, whatever the transactions do: a failed one cannot    *)
(* wedge it, and neither can a notify that found nobody waiting.           *)
FlushTerminates == flusher # "idle" ~> flusher = "idle"

(* No wakeup is lost: what is queued is taken by the writer.               *)
RecordsTaken == ~NoWork ~> NoWork

(* The destructor returns: its notify reaches a sleeping writer, and a     *)
(* writer with work left finishes it and exits.                            *)
DestructorReturns == owner = "notify" ~> owner = "destroyed"
================================================================================
