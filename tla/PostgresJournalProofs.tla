------------------------- MODULE PostgresJournalProofs -------------------------
(***************************************************************************)
(* The database journal loses track of no record, its checkpoints are      *)
(* durable, and it implements GroupCommit, for any number of records.      *)
(* Of ReplayProofs only what it says of parts of a sequence is used.       *)
(***************************************************************************)
EXTENDS PostgresJournal, ReplayProofs

Rows == [seq : Nat] \cup [trade : Nat]

Typed ==
  /\ TypeOK
  /\ nextSeq \in Nat /\ settled \in Nat /\ checkpoint \in Nat
  /\ eventQueue \in Seq(Rows) /\ tradeQueue \in Seq(Rows)
  /\ events \in Seq(Rows) /\ trades \in Seq(Rows)
  /\ tables \in [events : Seq(Rows), trades : Seq(Rows)]
  /\ arrived \in Seq(Rows) /\ Len(arrived) = enqueued

(* Where the threads can be, relative to one another.                      *)
Threads ==
  /\ stopping <=> owner # "alive"
  /\ producer # "idle" \/ flusher # "idle" => owner = "alive"
  /\ writer \in {"check", "asleep", "announce", "exited"} => events = <<>> /\ trades = <<>>
  /\ writer = "exited" => NoWork /\ stopping
  /\ owner = "destroyed" => writer = "exited"

(* done_ lags behind the transactions by the batch to be accounted for,    *)
(* and flush() never returns ahead of it.                                  *)
Counted ==
  /\ Accounting
  /\ settled = IF writer = "account" THEN done + BatchCount ELSE done
  /\ checkpoint <= done

In(row, s) == \E k \in 1..Len(s) : s[k] = row

InTables(row) == In(row, tables.events) \/ In(row, tables.trades)
InBatch(row)  == In(row, events) \/ In(row, trades)
InQueues(row) == In(row, eventQueue) \/ In(row, tradeQueue)

(* Records are settled in order of arrival: the oldest are stored, the     *)
(* next ones in the batch, the youngest queued.                            *)
Placed ==
  /\ \A i \in 1..settled : InTables(arrived[i])
  /\ writer = "commit" => \A i \in (done + 1)..(done + BatchCount) : InBatch(arrived[i])
  /\ \A i \in (done + BatchCount + 1)..enqueued : InQueues(arrived[i])

Located == ~dropped => Placed

IInv == Typed /\ Threads /\ Counted /\ Located

------------------------------------------------------------------------------
(* Rows in sequences. *)

(* A row stays in a sequence that grows at its end, and the new row is in. *)
LEMMA InAppend ==
  ASSUME NEW S, NEW s \in Seq(S), NEW r \in S, NEW row
  PROVE  /\ In(row, s) => In(row, Append(s, r))
         /\ In(r, Append(s, r))
  BY DEF In

(* Concatenating keeps the rows of both parts.                             *)
LEMMA InConcat ==
  ASSUME NEW S, NEW s \in Seq(S), NEW t \in Seq(S), NEW row
  PROVE  In(row, s) \/ In(row, t) => In(row, s \o t)
  <1>1. ASSUME NEW k \in 1..Len(t), t[k] = row PROVE In(row, s \o t)
    <2>1. Len(s) + k \in 1..Len(s \o t) /\ (s \o t)[Len(s) + k] = row
      BY <1>1
    <2> QED
      BY <2>1 DEF In
  <1>2. ASSUME NEW k \in 1..Len(s), s[k] = row PROVE In(row, s \o t)
    <2>1. k \in 1..Len(s \o t) /\ (s \o t)[k] = row
      BY <1>2
    <2> QED
      BY <2>1 DEF In
  <1> QED
    BY <1>1, <1>2 DEF In

(* The numbers that are added up.                                          *)
LEMMA Numbers ==
  ASSUME Typed
  PROVE  /\ enqueued \in Nat /\ done \in Nat /\ settled \in Nat /\ checkpoint \in Nat
         /\ BatchCount \in Nat
         /\ Len(eventQueue) \in Nat /\ Len(tradeQueue) \in Nat
  <1>1. enqueued \in Nat /\ done \in Nat
    BY JournalAssumption DEF Typed, TypeOK
  <1> QED
    BY <1>1 DEF Typed, BatchCount

(* In what order they are.                                                 *)
LEMMA Order ==
  ASSUME Typed, Counted
  PROVE  /\ checkpoint <= done /\ done <= settled
         /\ settled <= done + BatchCount
         /\ done + BatchCount <= enqueued
         /\ writer # "account" => settled = done
         /\ writer = "account" => settled = done + BatchCount
  <1>1. done + BatchCount <= enqueued
    BY Numbers DEF Counted, Accounting
  <1>2. CASE writer = "account"
    <2>1. settled = done + BatchCount
      BY <1>2 DEF Counted
    <2> QED
      BY <1>1, <1>2, <2>1, Numbers DEF Counted
  <1>3. CASE writer # "account"
    <2>1. settled = done
      BY <1>3, Numbers DEF Counted
    <2> QED
      BY <1>1, <1>3, <2>1, Numbers DEF Counted
  <1> QED
    BY <1>2, <1>3

------------------------------------------------------------------------------
(* The invariant. *)

(* A new journal, on tables that are empty or not.                         *)
LEMMA InitInv == Init => IInv
  <1> SUFFICES ASSUME Init PROVE IInv
    OBVIOUS
  <1>1. Typed
    <2>1. <<>> \in Seq(Rows) /\ <<[seq |-> 1]>> \in Seq(Rows)
      BY DEF Rows
    <2>2. PICK stored \in Seq(Rows) : tables = [events |-> stored, trades |-> <<>>]
      BY <2>1 DEF Init
    <2>3. tables \in [events : Seq(Rows), trades : Seq(Rows)]
      BY <2>1, <2>2
    <2>4. TypeOK
      <3>1. stopping \in BOOLEAN /\ dropped \in BOOLEAN
        BY DEF Init
      <3>2. enqueued \in 0..MaxRecords /\ done \in 0..enqueued /\ target \in 0..enqueued
        BY JournalAssumption DEF Init
      <3> QED
        BY <3>1, <3>2 DEF Init, TypeOK
    <2>5. arrived \in Seq(Rows) /\ Len(arrived) = enqueued
      BY <2>1 DEF Init
    <2> QED
      BY <2>1, <2>3, <2>4, <2>5 DEF Init, Typed
  <1>2. Threads
    BY DEF Init, Threads, NoWork
  <1>3. Counted
    BY DEF Init, Counted, Accounting, BatchCount
  <1>4. Located
    BY DEF Init, Located, Placed, BatchCount
  <1> QED
    BY <1>1, <1>2, <1>3, <1>4 DEF IInv

(* A row is put on one of the two queues.                                  *)
Queued(row) ==
  \/ eventQueue' = Append(eventQueue, row) /\ tradeQueue' = tradeQueue
  \/ tradeQueue' = Append(tradeQueue, row) /\ eventQueue' = eventQueue

(* It is counted with the others.                                          *)
LEMMA QueuedCount ==
  ASSUME Typed, Accounting, NEW row \in Rows, Queued(row), enqueued' = enqueued + 1,
         UNCHANGED <<done, events, trades>>
  PROVE  Accounting'
  <1>1. BatchCount' = BatchCount /\ BatchCount \in Nat
    BY DEF BatchCount, Typed
  <1>2. enqueued = done + BatchCount + Len(eventQueue) + Len(tradeQueue)
    BY DEF Accounting
  <1>3. enqueued \in Nat /\ done \in Nat /\ Len(eventQueue) \in Nat /\ Len(tradeQueue) \in Nat
    BY Numbers
  <1>4. CASE eventQueue' = Append(eventQueue, row) /\ tradeQueue' = tradeQueue
    <2>1. Len(eventQueue') = Len(eventQueue) + 1 /\ Len(tradeQueue') = Len(tradeQueue)
      BY <1>4 DEF Typed
    <2> QED
      BY <1>1, <1>2, <1>3, <2>1 DEF Accounting
  <1>5. CASE tradeQueue' = Append(tradeQueue, row) /\ eventQueue' = eventQueue
    <2>1. Len(tradeQueue') = Len(tradeQueue) + 1 /\ Len(eventQueue') = Len(eventQueue)
      BY <1>5 DEF Typed
    <2> QED
      BY <1>1, <1>2, <1>3, <2>1 DEF Accounting
  <1> QED
    BY <1>4, <1>5 DEF Queued

(* append() and recordTrade() queue a row under the lock, and still have   *)
(* to notify.                                                              *)
LEMMA QueuedInv ==
  ASSUME IInv, NEW row \in Rows,
         producer = "idle", owner = "alive", enqueued < MaxRecords,
         Queued(row), arrived' = Append(arrived, row), enqueued' = enqueued + 1,
         producer' = "notify", nextSeq' \in Nat,
         UNCHANGED <<done, stopping, flusher, target, owner, writer, events, trades, tables,
                     settled, dropped, checkpoint>>
  PROVE  IInv'
  <1> USE DEF IInv
  <1>0. /\ eventQueue' \in Seq(Rows) /\ tradeQueue' \in Seq(Rows)
        /\ arrived' \in Seq(Rows) /\ Len(arrived') = enqueued'
    <2>1. \A s \in Seq(Rows) : Append(s, row) \in Seq(Rows) /\ Len(Append(s, row)) = Len(s) + 1
      OBVIOUS
    <2>2. arrived' \in Seq(Rows) /\ Len(arrived') = enqueued'
      BY <2>1 DEF Typed
    <2>3. CASE eventQueue' = Append(eventQueue, row) /\ tradeQueue' = tradeQueue
      BY <2>1, <2>2, <2>3 DEF Typed
    <2>4. CASE tradeQueue' = Append(tradeQueue, row) /\ eventQueue' = eventQueue
      BY <2>1, <2>2, <2>4 DEF Typed
    <2> QED
      BY <2>3, <2>4 DEF Queued
  <1>1. Typed'
    <2>1. TypeOK'
      <3>1. stopping' \in BOOLEAN /\ dropped' \in BOOLEAN
        BY DEF Typed, TypeOK
      <3>2. enqueued' \in 0..MaxRecords /\ done' \in 0..enqueued' /\ target' \in 0..enqueued'
        BY JournalAssumption DEF Typed, TypeOK
      <3> QED
        BY <3>1, <3>2 DEF Typed, TypeOK
    <2> QED
      BY <1>0, <2>1 DEF Typed
  <1>2. Threads'
    BY DEF Threads, Typed, TypeOK, NoWork
  <1>3. Counted'
    <2>1. BatchCount' = BatchCount
      BY DEF BatchCount
    <2>2. Accounting'
      BY QueuedCount DEF Counted
    <2> QED
      BY <2>1, <2>2 DEF Counted
  <1>4. Located'
    <2> SUFFICES ASSUME ~dropped, Placed PROVE Placed'
      BY DEF Located
    <2>1. /\ \A i \in 1..enqueued : arrived'[i] = arrived[i]
          /\ arrived'[enqueued + 1] = row
      <3>1. arrived \in Seq(Rows) /\ Len(arrived) = enqueued
        BY DEF Typed
      <3>2. /\ \A i \in 1..Len(arrived) : Append(arrived, row)[i] = arrived[i]
            /\ Append(arrived, row)[Len(arrived) + 1] = row
        BY <3>1
      <3> QED
        BY <3>1, <3>2
    <2>3. ASSUME NEW r, In(r, eventQueue) \/ In(r, tradeQueue) \/ r = row
          PROVE  In(r, eventQueue') \/ In(r, tradeQueue')
      <3>1. CASE eventQueue' = Append(eventQueue, row) /\ tradeQueue' = tradeQueue
        <4>1. /\ In(r, eventQueue) => In(r, Append(eventQueue, row))
              /\ In(row, Append(eventQueue, row))
          BY InAppend DEF Typed
        <4> QED
          BY <2>3, <3>1, <4>1
      <3>2. CASE tradeQueue' = Append(tradeQueue, row) /\ eventQueue' = eventQueue
        <4>1. /\ In(r, tradeQueue) => In(r, Append(tradeQueue, row))
              /\ In(row, Append(tradeQueue, row))
          BY InAppend DEF Typed
        <4> QED
          BY <2>3, <3>2, <4>1
      <3> QED
        BY <3>1, <3>2 DEF Queued
    <2>4. BatchCount' = BatchCount
      BY DEF BatchCount
    <2>5. settled <= enqueued /\ done + BatchCount <= enqueued
      BY Numbers, Order
    <2>6. (\A i \in 1..settled : InTables(arrived[i]))'
      <3> SUFFICES ASSUME NEW i \in 1..settled PROVE InTables(arrived[i])'
        OBVIOUS
      <3>0. i \in 1..enqueued
        BY <2>5, Numbers
      <3>1. arrived'[i] = arrived[i]
        BY <2>1, <3>0
      <3> QED
        BY <3>1 DEF Placed, InTables
    <2>7. (writer = "commit" => \A i \in (done + 1)..(done + BatchCount) : InBatch(arrived[i]))'
      <3> SUFFICES ASSUME writer = "commit", NEW i \in (done + 1)..(done + BatchCount)
                   PROVE  InBatch(arrived[i])'
        BY <2>4
      <3>0. i \in 1..enqueued
        BY <2>5, Numbers
      <3>1. arrived'[i] = arrived[i]
        BY <2>1, <3>0
      <3> QED
        BY <3>1 DEF Placed, InBatch
    <2>8. (\A i \in (done + BatchCount + 1)..enqueued : InQueues(arrived[i]))'
      <3> SUFFICES ASSUME NEW i \in (done + BatchCount + 1)..(enqueued + 1)
                   PROVE  InQueues(arrived[i])'
        BY <2>4
      <3>1. CASE i = enqueued + 1
        BY <2>1, <2>3, <3>1 DEF InQueues
      <3>2. CASE i # enqueued + 1
        <4>1. i \in 1..enqueued /\ i \in (done + BatchCount + 1)..enqueued
          BY <2>5, <3>2, Numbers
        <4>2. arrived'[i] = arrived[i] /\ InQueues(arrived[i])
          BY <2>1, <4>1 DEF Placed
        <4> QED
          BY <2>3, <4>2 DEF InQueues
      <3> QED
        BY <3>1, <3>2
    <2> QED
      BY <2>6, <2>7, <2>8 DEF Placed
  <1> QED
    BY <1>1, <1>2, <1>3, <1>4

(* A step that moves threads and no record: calls, notifies, sleeping and  *)
(* waking.                                                                 *)
LEMMA ThreadInv ==
  ASSUME IInv, TypeOK', Threads', checkpoint' \in Nat, checkpoint' <= done,
         UNCHANGED <<eventQueue, tradeQueue, enqueued, done, events, trades, tables, arrived,
                     settled, dropped, nextSeq>>,
         \/ writer' = writer
         \/ writer \notin {"commit", "account"} /\ writer' \notin {"commit", "account"}
  PROVE  IInv'
  <1> USE DEF IInv
  <1>1. Typed'
    BY DEF Typed
  <1>2. Counted'
    <2>1. BatchCount' = BatchCount /\ (writer' = "account" <=> writer = "account")
      BY DEF BatchCount
    <2> QED
      BY <2>1 DEF Counted, Accounting
  <1>3. Located'
    <2> SUFFICES ASSUME ~dropped, Placed PROVE Placed'
      BY DEF Located
    <2>1. BatchCount' = BatchCount /\ (writer' = "commit" <=> writer = "commit")
      BY DEF BatchCount
    <2> QED
      BY <2>1 DEF Placed, InTables, InBatch, InQueues
  <1> QED
    BY <1>1, <1>2, <1>3

(* append() and recordTrade() notify after the unlock.                     *)
LEMMA NotifyWriterInv == ASSUME IInv, NotifyWriter PROVE IInv'
  <1> USE DEF IInv
  <1>1. TypeOK'
    BY DEF NotifyWriter, Woken, queues, history, Typed, TypeOK
  <1>2. Threads'
    BY DEF NotifyWriter, Woken, queues, batch, history, Threads, NoWork
  <1>3. checkpoint' \in Nat /\ checkpoint' <= done
    BY DEF NotifyWriter, history, Typed, Counted
  <1> QED
    BY <1>1, <1>2, <1>3, ThreadInv DEF NotifyWriter, Woken, queues, batch, history

(* flush() returns only when done_ has reached its target: the journal is  *)
(* not destroyed while flush() is running.                                 *)
LEMMA FlushInv == ASSUME IInv, Flush PROVE IInv'
  <1> USE DEF IInv
  <1>0. ~stopping
    BY DEF Flush, Threads
  <1>1. TypeOK'
    BY DEF Flush, Woken, queues, Typed, TypeOK
  <1>2. Threads'
    BY DEF Flush, Woken, queues, batch, Threads, NoWork
  <1>3. checkpoint' \in Nat /\ checkpoint' <= done
    BY <1>0, Numbers DEF Flush, Flushed, Counted
  <1> QED
    BY <1>1, <1>2, <1>3, ThreadInv DEF Flush, Woken, queues, batch

(* The same after a wakeup.                                                *)
LEMMA FlushWakesInv == ASSUME IInv, FlushWakes PROVE IInv'
  <1> USE DEF IInv
  <1>0. ~stopping
    BY DEF FlushWakes, Threads
  <1>1. TypeOK'
    BY DEF FlushWakes, queues, Typed, TypeOK
  <1>2. Threads'
    BY DEF FlushWakes, queues, batch, Threads, NoWork
  <1>3. checkpoint' \in Nat /\ checkpoint' <= done
    <2>1. target \in Nat /\ checkpoint <= done
      BY Numbers DEF Typed, TypeOK, Counted
    <2>2. checkpoint' = checkpoint \/ (checkpoint' = target /\ done >= target)
      BY <1>0 DEF FlushWakes, Flushed
    <2> QED
      BY <2>1, <2>2, Numbers
  <1> QED
    BY <1>1, <1>2, <1>3, ThreadInv DEF FlushWakes, queues, batch

(* Spurious wakeups.                                                       *)
LEMMA SpuriousWakeupInv == ASSUME IInv, SpuriousWakeup PROVE IInv'
  <1> USE DEF IInv
  <1>1. TypeOK'
    BY DEF SpuriousWakeup, queues, history, Typed, TypeOK
  <1>2. Threads'
    BY DEF SpuriousWakeup, queues, batch, history, Threads, NoWork
  <1>3. checkpoint' \in Nat /\ checkpoint' <= done
    BY DEF SpuriousWakeup, history, Typed, Counted
  <1> QED
    BY <1>1, <1>2, <1>3, ThreadInv DEF SpuriousWakeup, queues, batch, history

(* The three steps of the destructor.                                      *)
LEMMA DestructorInv == ASSUME IInv, Destroy \/ DestroyNotify \/ DestroyReturns PROVE IInv'
  <1> USE DEF IInv
  <1>1. CASE Destroy
    <2>1. TypeOK'
      BY <1>1 DEF Destroy, queues, history, Typed, TypeOK
    <2>2. Threads'
      BY <1>1 DEF Destroy, queues, batch, history, Threads, NoWork
    <2>3. checkpoint' \in Nat /\ checkpoint' <= done
      BY <1>1 DEF Destroy, history, Typed, Counted
    <2> QED
      BY <1>1, <2>1, <2>2, <2>3, ThreadInv DEF Destroy, queues, batch, history
  <1>2. CASE DestroyNotify
    <2>1. TypeOK'
      BY <1>2 DEF DestroyNotify, Woken, queues, history, Typed, TypeOK
    <2>2. Threads'
      BY <1>2 DEF DestroyNotify, Woken, queues, batch, history, Threads, NoWork
    <2>3. checkpoint' \in Nat /\ checkpoint' <= done
      BY <1>2 DEF DestroyNotify, history, Typed, Counted
    <2> QED
      BY <1>2, <2>1, <2>2, <2>3, ThreadInv DEF DestroyNotify, Woken, queues, batch, history
  <1>3. CASE DestroyReturns
    <2>1. TypeOK'
      BY <1>3 DEF DestroyReturns, queues, history, Typed, TypeOK
    <2>2. Threads'
      BY <1>3 DEF DestroyReturns, queues, batch, history, Threads, NoWork
    <2>3. checkpoint' \in Nat /\ checkpoint' <= done
      BY <1>3 DEF DestroyReturns, history, Typed, Counted
    <2> QED
      BY <1>3, <2>1, <2>2, <2>3, ThreadInv DEF DestroyReturns, queues, batch, history
  <1> QED
    BY <1>1, <1>2, <1>3

(* The writer goes to sleep, exits, or announces what it has done.         *)
LEMMA WriterWaitsInv ==
  ASSUME IInv, WriterSleeps \/ WriterExits \/ WriterAnnounces PROVE IInv'
  <1> USE DEF IInv
  <1>1. CASE WriterSleeps
    <2>1. TypeOK' /\ Threads'
      BY <1>1 DEF WriterSleeps, queues, callers, batch, history, Typed, TypeOK, Threads, NoWork
    <2>2. checkpoint' \in Nat /\ checkpoint' <= done
      BY <1>1 DEF WriterSleeps, history, Typed, Counted
    <2> QED
      BY <1>1, <2>1, <2>2, ThreadInv DEF WriterSleeps, queues, callers, batch, history
  <1>2. CASE WriterExits
    <2>1. TypeOK' /\ Threads'
      BY <1>2 DEF WriterExits, queues, callers, batch, history, Typed, TypeOK, Threads, NoWork
    <2>2. checkpoint' \in Nat /\ checkpoint' <= done
      BY <1>2 DEF WriterExits, history, Typed, Counted
    <2> QED
      BY <1>2, <2>1, <2>2, ThreadInv DEF WriterExits, queues, callers, batch, history
  <1>3. CASE WriterAnnounces
    <2>1. TypeOK' /\ Threads'
      BY <1>3 DEF WriterAnnounces, Woken, queues, batch, history, Typed, TypeOK, Threads, NoWork
    <2>2. checkpoint' \in Nat /\ checkpoint' <= done
      BY <1>3 DEF WriterAnnounces, history, Typed, Counted
    <2> QED
      BY <1>3, <2>1, <2>2, ThreadInv DEF WriterAnnounces, queues, batch, history
  <1> QED
    BY <1>1, <1>2, <1>3

(* Both queues become the batch.                                           *)
LEMMA WriterTakesInv == ASSUME IInv, WriterTakes PROVE IInv'
  <1> USE DEF IInv
  <1>0. BatchCount = 0 /\ BatchCount' = Len(eventQueue) + Len(tradeQueue)
    BY DEF WriterTakes, Threads, BatchCount
  <1>1. Typed'
    <2>1. TypeOK'
      BY DEF WriterTakes, callers, history, Typed, TypeOK
    <2> QED
      BY <2>1 DEF WriterTakes, callers, history, Typed
  <1>2. Threads'
    BY DEF WriterTakes, callers, history, Threads, NoWork
  <1>3. Counted'
    <2>1. settled' = done' /\ checkpoint' <= done'
      BY Order, Numbers DEF WriterTakes, history
    <2>2. Accounting'
      BY <1>0, Numbers DEF WriterTakes, callers, history, Counted, Accounting
    <2>3. writer' # "account" /\ done' \in Nat
      BY Numbers DEF WriterTakes
    <2> QED
      BY <2>1, <2>2, <2>3 DEF Counted
  <1>4. Located'
    <2> SUFFICES ASSUME ~dropped, Placed PROVE Placed'
      BY DEF Located, WriterTakes, history
    <2>1. done + BatchCount' = enqueued
      BY <1>0, Numbers DEF Counted, Accounting
    <2>2. (\A i \in 1..settled : InTables(arrived[i]))'
      BY DEF WriterTakes, history, Placed, InTables
    <2>3. (\A i \in (done + 1)..(done + BatchCount) : InBatch(arrived[i]))'
      <3> SUFFICES ASSUME NEW i \in (done + 1)..enqueued PROVE InBatch(arrived[i])'
        BY <2>1 DEF WriterTakes
      <3>1. InQueues(arrived[i])
        BY <1>0, Numbers DEF Placed
      <3> QED
        BY <3>1 DEF WriterTakes, history, InQueues, InBatch
    <2>4. (\A i \in (done + BatchCount + 1)..enqueued : InQueues(arrived[i]))'
      BY <2>1, Numbers DEF WriterTakes
    <2> QED
      BY <2>2, <2>3, <2>4 DEF Placed
  <1> QED
    BY <1>1, <1>2, <1>3, <1>4

(* A transaction ends: the batch counts as settled, and as done only when  *)
(* the lock is taken again.                                                *)
LEMMA SettledInv ==
  ASSUME IInv, writer = "commit", writer' = "account", settled' = settled + BatchCount,
         tables' \in [events : Seq(Rows), trades : Seq(Rows)], dropped' \in BOOLEAN,
         UNCHANGED <<queues, done, callers, batch, arrived, checkpoint, nextSeq>>
  PROVE  Typed' /\ Threads' /\ Counted'
  <1> USE DEF IInv, queues, callers, batch
  <1>0. BatchCount' = BatchCount
    BY DEF BatchCount
  <1>1. Typed'
    <2>1. TypeOK'
      BY DEF Typed, TypeOK
    <2>2. settled' \in Nat
      BY Numbers
    <2> QED
      BY <2>1, <2>2 DEF Typed
  <1>2. Threads'
    BY DEF Threads, NoWork
  <1>3. Counted'
    <2>1. settled' = done + BatchCount
      BY Numbers, Order
    <2> QED
      BY <1>0, <2>1 DEF Counted, Accounting
  <1> QED
    BY <1>1, <1>2, <1>3

(* The transaction commits.                                                *)
LEMMA WriterCommitsInv == ASSUME IInv, WriterCommits PROVE IInv'
  <1> USE DEF IInv
  <1>0. /\ tables.events \in Seq(Rows) /\ tables.trades \in Seq(Rows)
        /\ events \in Seq(Rows) /\ trades \in Seq(Rows)
    BY DEF Typed
  <1>1. /\ tables' \in [events : Seq(Rows), trades : Seq(Rows)]
        /\ tables'.events = tables.events \o events
        /\ tables'.trades = tables.trades \o trades
    BY <1>0 DEF WriterCommits
  <1>2. dropped' \in BOOLEAN
    BY DEF WriterCommits, Typed, TypeOK
  <1>3. Typed' /\ Threads' /\ Counted'
    BY <1>1, <1>2, SettledInv DEF WriterCommits
  <1>4. Located'
    <2> SUFFICES ASSUME ~dropped, Placed PROVE Placed'
      BY DEF Located, WriterCommits
    <2>0. BatchCount' = BatchCount
      BY DEF WriterCommits, batch, BatchCount
    <2>1. settled = done /\ settled' = done + BatchCount
      BY Order DEF WriterCommits
    <2>2. ASSUME NEW row, InTables(row) \/ InBatch(row)
          PROVE  In(row, tables'.events) \/ In(row, tables'.trades)
      BY <1>0, <1>1, <2>2, InConcat DEF InTables, InBatch
    <2>3. (\A i \in 1..settled : InTables(arrived[i]))'
      <3> SUFFICES ASSUME NEW i \in 1..(done + BatchCount) PROVE InTables(arrived[i])'
        BY <2>1
      <3>1. i \in 1..done \/ i \in (done + 1)..(done + BatchCount)
        BY Numbers
      <3>2. InTables(arrived[i]) \/ InBatch(arrived[i])
        BY <2>1, <3>1 DEF WriterCommits, Placed
      <3> QED
        BY <2>2, <3>2 DEF WriterCommits, InTables
    <2>4. (\A i \in (done + BatchCount + 1)..enqueued : InQueues(arrived[i]))'
      BY <2>0 DEF WriterCommits, queues, Placed, InQueues
    <2>5. writer' # "commit"
      BY DEF WriterCommits
    <2> QED
      BY <2>3, <2>4, <2>5 DEF Placed
  <1> QED
    BY <1>3, <1>4

(* The transaction fails: nothing is promised of the records from now on.  *)
LEMMA WriterFailsInv == ASSUME IInv, WriterFails PROVE IInv'
  <1> USE DEF IInv
  <1>1. Typed' /\ Threads' /\ Counted'
    BY SettledInv DEF WriterFails, Typed
  <1>2. Located'
    BY DEF WriterFails, Located
  <1> QED
    BY <1>1, <1>2

(* done_ catches up.                                                       *)
LEMMA WriterAccountsInv == ASSUME IInv, WriterAccounts PROVE IInv'
  <1> USE DEF IInv
  <1>0. /\ done' = done + BatchCount /\ BatchCount' = 0
        /\ settled = done + BatchCount /\ settled' = settled
    BY Order DEF WriterAccounts, history, BatchCount
  <1>1. Typed'
    <2>1. done' \in 0..enqueued
      BY <1>0, Numbers, Order
    <2>2. TypeOK'
      BY <2>1 DEF WriterAccounts, queues, callers, history, Typed, TypeOK
    <2> QED
      BY <2>2 DEF WriterAccounts, queues, history, Typed
  <1>2. Threads'
    BY DEF WriterAccounts, queues, callers, Threads, NoWork
  <1>3. Counted'
    <2>1. checkpoint' <= done'
      BY <1>0, Numbers, Order DEF WriterAccounts, history
    <2>2. Accounting'
      BY <1>0, Numbers DEF WriterAccounts, queues, Counted, Accounting
    <2>3. writer' # "account" /\ done' \in Nat /\ settled' = done'
      BY <1>0, Numbers DEF WriterAccounts
    <2> QED
      BY <2>1, <2>2, <2>3 DEF Counted
  <1>4. Located'
    <2> SUFFICES ASSUME ~dropped, Placed PROVE Placed'
      BY DEF Located, WriterAccounts, history
    <2>1. done' + BatchCount' + 1 = done + BatchCount + 1
      BY <1>0, Numbers
    <2>2. (\A i \in 1..settled : InTables(arrived[i]))'
      BY <1>0 DEF WriterAccounts, history, Placed, InTables
    <2>3. (\A i \in (done + BatchCount + 1)..enqueued : InQueues(arrived[i]))'
      BY <2>1 DEF WriterAccounts, queues, history, Placed, InQueues
    <2>4. writer' # "commit"
      BY DEF WriterAccounts
    <2> QED
      BY <2>2, <2>3, <2>4 DEF Placed
  <1> QED
    BY <1>1, <1>2, <1>3, <1>4

(* One lemma per action.                                                   *)
LEMMA NextInv == IInv /\ [Next]_vars => IInv'
  <1> SUFFICES ASSUME IInv, [Next]_vars PROVE IInv'
    OBVIOUS
  <1>1. CASE AppendEvent
    <2>1. [seq |-> nextSeq] \in Rows /\ nextSeq' \in Nat
      BY <1>1 DEF AppendEvent, IInv, Typed, Rows
    <2> QED
      BY <1>1, <2>1, QueuedInv DEF AppendEvent, Queued, batch
  <1>2. CASE RecordTrade
    <2>1. [trade |-> enqueued] \in Rows /\ nextSeq' \in Nat
      BY <1>2, Numbers DEF RecordTrade, IInv, Typed, Rows
    <2> QED
      BY <1>2, <2>1, QueuedInv DEF RecordTrade, Queued, batch
  <1>3. CASE Writer
    BY <1>3, WriterWaitsInv, WriterTakesInv, WriterCommitsInv, WriterFailsInv, WriterAccountsInv
    DEF Writer
  <1>4. CASE UNCHANGED vars
    <2>1. TypeOK' /\ Threads'
      BY <1>4 DEF IInv, vars, Typed, TypeOK, Threads, NoWork
    <2>2. checkpoint' \in Nat /\ checkpoint' <= done
      BY <1>4 DEF IInv, vars, Typed, Counted
    <2> QED
      BY <1>4, <2>1, <2>2, ThreadInv DEF vars
  <1> QED
    BY <1>1, <1>2, <1>3, <1>4, NotifyWriterInv, FlushInv, FlushWakesInv, SpuriousWakeupInv,
       DestructorInv
    DEF Next

(* The inductive invariant holds in every reachable state.                 *)
THEOREM Invariance == Spec => []IInv
  BY InitInv, NextInv, PTL DEF Spec

(* Threads are where they can be, and no counter runs ahead.               *)
THEOREM TypeCorrect == Spec => []TypeOK
  <1>1. IInv => TypeOK
    BY DEF IInv, Typed
  <1> QED
    BY <1>1, Invariance, PTL

(* enqueued_ and done_ account for every record, whatever transactions     *)
(* fail (PostgresJournal.cpp:92-108,176-180).                              *)
THEOREM EveryRecordCounted == Spec => []Accounting
  <1>1. IInv => Accounting
    BY DEF IInv, Counted
  <1> QED
    BY <1>1, Invariance, PTL

(* A flush() that has returned is a checkpoint: what was handed over       *)
(* before it is stored, unless a transaction has failed                    *)
(* (PostgresJournal.cpp:110-117).                                          *)
THEOREM CheckpointDurable == Spec => []FlushedIsDurable
  <1>1. IInv => FlushedIsDurable
    <2> SUFFICES ASSUME IInv, ~dropped, NEW i \in 1..checkpoint
                 PROVE  \/ \E k \in DOMAIN tables.events : tables.events[k] = arrived[i]
                        \/ \E k \in DOMAIN tables.trades : tables.trades[k] = arrived[i]
      BY DEF FlushedIsDurable
    <2>1. i \in 1..settled
      BY Numbers, Order DEF IInv
    <2>2. InTables(arrived[i])
      BY <2>1 DEF IInv, Located, Placed
    <2>3. DOMAIN tables.events = 1..Len(tables.events) /\ DOMAIN tables.trades = 1..Len(tables.trades)
      BY DEF IInv, Typed
    <2> QED
      BY <2>2, <2>3 DEF InTables, In
  <1> QED
    BY <1>1, Invariance, PTL

(* The destructor has written out everything that was queued               *)
(* (PostgresJournal.cpp:47-55,128-130).                                    *)
THEOREM DestructorComplete == Spec => []DestructorDrains
  <1>1. IInv => DestructorDrains
    <2> SUFFICES ASSUME IInv, owner = "destroyed" PROVE DestructorDrains
      BY DEF DestructorDrains
    <2>1. NoWork /\ events = <<>> /\ trades = <<>> /\ writer = "exited"
      BY DEF IInv, Threads
    <2>2. BatchCount = 0 /\ Len(eventQueue) = 0 /\ Len(tradeQueue) = 0
      BY <2>1 DEF BatchCount, NoWork
    <2>3. done = enqueued /\ settled = enqueued
      BY <2>1, <2>2, Numbers, Order DEF IInv, Counted, Accounting
    <2>4. ASSUME ~dropped, NEW i \in DOMAIN arrived
          PROVE  \/ \E k \in DOMAIN tables.events : tables.events[k] = arrived[i]
                 \/ \E k \in DOMAIN tables.trades : tables.trades[k] = arrived[i]
      <3>1. i \in 1..settled
        BY <2>3 DEF IInv, Typed
      <3>2. InTables(arrived[i])
        BY <2>4, <3>1 DEF IInv, Located, Placed
      <3>3. DOMAIN tables.events = 1..Len(tables.events) /\ DOMAIN tables.trades = 1..Len(tables.trades)
        BY DEF IInv, Typed
      <3> QED
        BY <3>2, <3>3 DEF InTables, In
    <2> QED
      BY <2>1, <2>3, <2>4 DEF DestructorDrains
  <1> QED
    BY <1>1, Invariance, PTL

------------------------------------------------------------------------------
(* The refinement of GroupCommit. *)

EventRows == {row \in Rows : Abstract!IsEvent(row)}
TradeRows == {row \in Rows : ~Abstract!IsEvent(row)}

(* GroupCommit's parts of a stream are those of Positions.                *)
LEMMA PartsOf ==
  ASSUME NEW s \in Seq(Rows)
  PROVE  Abstract!EventsOf(s) = Select(s, EventRows) /\ Abstract!TradesOf(s) = Select(s, TradeRows)
  <1>1. ASSUME NEW S PROVE Abstract!Keep(s, S) = Keep(s, S)
    BY DEF Abstract!Keep, Keep, Abstract!Nth, Nth, Abstract!Cardinality, Cardinality,
           Abstract!IsFiniteSet, IsFiniteSet
  <1>2. \A i \in DOMAIN s : s[i] \in Rows
    OBVIOUS
  <1>3. /\ {i \in DOMAIN s : Abstract!IsEvent(s[i])} = Chosen(s, EventRows)
        /\ {i \in DOMAIN s : ~Abstract!IsEvent(s[i])} = Chosen(s, TradeRows)
    BY <1>2, Zenon DEF Chosen, EventRows, TradeRows
  <1> QED
    BY <1>1, <1>3 DEF Abstract!EventsOf, Abstract!TradesOf, Select

(* A record is of one kind, and goes to the end of its part.               *)
LEMMA PartsAppend ==
  ASSUME NEW s \in Seq(Rows), NEW row \in Rows
  PROVE  /\ Abstract!EventsOf(Append(s, row))
              = IF Abstract!IsEvent(row) THEN Append(Abstract!EventsOf(s), row) ELSE Abstract!EventsOf(s)
         /\ Abstract!TradesOf(Append(s, row))
              = IF Abstract!IsEvent(row) THEN Abstract!TradesOf(s) ELSE Append(Abstract!TradesOf(s), row)
  <1>1. Append(s, row) \in Seq(Rows)
    OBVIOUS
  <1>2. /\ Abstract!EventsOf(Append(s, row)) = Select(Append(s, row), EventRows)
        /\ Abstract!TradesOf(Append(s, row)) = Select(Append(s, row), TradeRows)
        /\ Abstract!EventsOf(s) = Select(s, EventRows) /\ Abstract!TradesOf(s) = Select(s, TradeRows)
    BY <1>1, PartsOf
  <1>3. /\ Select(Append(s, row), EventRows)
             = IF row \in EventRows THEN Append(Select(s, EventRows), row) ELSE Select(s, EventRows)
        /\ Select(Append(s, row), TradeRows)
             = IF row \in TradeRows THEN Append(Select(s, TradeRows), row) ELSE Select(s, TradeRows)
    BY SelectAppend
  <1>4. row \in EventRows <=> Abstract!IsEvent(row)
    BY DEF EventRows
  <1>5. row \in TradeRows <=> ~Abstract!IsEvent(row)
    BY DEF TradeRows
  <1> QED
    BY <1>2, <1>3, <1>4, <1>5

(* No records, no parts.                                                   *)
LEMMA PartsEmpty == Abstract!EventsOf(<<>>) = <<>> /\ Abstract!TradesOf(<<>>) = <<>>
  <1>1. <<>> \in Seq(Rows)
    OBVIOUS
  <1> QED
    BY <1>1, PartsOf, SelectEmpty

(* The records a transaction deals with, and the ones behind them.         *)
Group   == SubSeq(arrived, done + 1, done + BatchCount)
Backlog == SubSeq(arrived, done + BatchCount + 1, enqueued)

(* The two queues are the two parts of one stream: what is not settled is  *)
(* in them or in the batch, in the order of arrival.                       *)
Ordered ==
  /\ eventQueue = Abstract!EventsOf(Backlog) /\ tradeQueue = Abstract!TradesOf(Backlog)
  /\ writer = "commit" => /\ BatchCount > 0
                          /\ events = Abstract!EventsOf(Group) /\ trades = Abstract!TradesOf(Group)

(* Nothing has arrived.                                                    *)
LEMMA InitOrdered == Init => Ordered
  <1> SUFFICES ASSUME Init PROVE Ordered
    OBVIOUS
  <1>1. Backlog = <<>>
    BY DEF Init, Backlog, BatchCount
  <1> QED
    BY <1>1, PartsEmpty DEF Init, Ordered

(* Most steps move no record.                                              *)
LEMMA OrderedUnchanged ==
  ASSUME Ordered, UNCHANGED <<eventQueue, tradeQueue, enqueued, done, events, trades, arrived>>,
         writer' = "commit" => writer = "commit"
  PROVE  Ordered'
  <1>1. BatchCount' = BatchCount
    BY DEF BatchCount
  <1>2. Backlog' = Backlog /\ Group' = Group
    BY <1>1 DEF Backlog, Group
  <1>3. /\ Abstract!EventsOf(Backlog)' = Abstract!EventsOf(Backlog)
        /\ Abstract!TradesOf(Backlog)' = Abstract!TradesOf(Backlog)
        /\ Abstract!EventsOf(Group)' = Abstract!EventsOf(Group)
        /\ Abstract!TradesOf(Group)' = Abstract!TradesOf(Group)
    BY <1>2
  <1> QED
    BY <1>1, <1>3 DEF Ordered

(* append() and recordTrade() put a record on the queue of its kind.       *)
LEMMA QueuedOrdered ==
  ASSUME IInv, Ordered, NEW row \in Rows,
         arrived' = Append(arrived, row), enqueued' = enqueued + 1,
         IF Abstract!IsEvent(row)
         THEN eventQueue' = Append(eventQueue, row) /\ tradeQueue' = tradeQueue
         ELSE tradeQueue' = Append(tradeQueue, row) /\ eventQueue' = eventQueue,
         UNCHANGED <<done, writer, events, trades>>
  PROVE  Ordered'
  <1>0. /\ arrived \in Seq(Rows) /\ Len(arrived) = enqueued
        /\ enqueued \in Nat /\ done \in Nat /\ BatchCount \in Nat /\ done + BatchCount <= enqueued
    BY Numbers, Order DEF IInv, Typed
  <1>1. BatchCount' = BatchCount
    BY DEF BatchCount
  <1>2. Backlog \in Seq(Rows) /\ Backlog' = Append(Backlog, row)
    <2>1. ASSUME NEW k \in 0..enqueued
          PROVE  /\ SubSeq(arrived, k + 1, enqueued) \in Seq(Rows)
                 /\ SubSeq(Append(arrived, row), k + 1, enqueued + 1)
                      = Append(SubSeq(arrived, k + 1, enqueued), row)
      BY <1>0, RestAppend
    <2>2. done + BatchCount \in 0..enqueued
      BY <1>0
    <2> QED
      BY <1>1, <2>1, <2>2 DEF Backlog
  <1>3. writer = "commit" => Group' = Group
    <2>1. ASSUME NEW a \in 1..(enqueued + 1), NEW b \in 0..enqueued
          PROVE  SubSeq(Append(arrived, row), a, b) = SubSeq(arrived, a, b)
      BY <1>0
    <2>2. done + 1 \in 1..(enqueued + 1) /\ done + BatchCount \in 0..enqueued
      BY <1>0
    <2> QED
      BY <1>1, <2>1, <2>2 DEF Group
  <1>4. /\ Abstract!EventsOf(Backlog') = eventQueue'
        /\ Abstract!TradesOf(Backlog') = tradeQueue'
    BY <1>2, PartsAppend DEF Ordered
  <1> QED
    BY <1>1, <1>3, <1>4 DEF Ordered

(* The backlog becomes the group.                                          *)
LEMMA TakenOrdered == ASSUME IInv, Ordered, WriterTakes PROVE Ordered'
  <1>0. /\ enqueued \in Nat /\ done \in Nat /\ arrived \in Seq(Rows) /\ Len(arrived) = enqueued
        /\ eventQueue \in Seq(Rows) /\ tradeQueue \in Seq(Rows)
    BY Numbers DEF IInv, Typed
  <1>1. BatchCount = 0 /\ BatchCount' = Len(eventQueue) + Len(tradeQueue)
    BY DEF WriterTakes, IInv, Threads, BatchCount
  <1>2. BatchCount' > 0
    BY <1>0, <1>1 DEF WriterTakes, NoWork
  <1>3. done + BatchCount' = enqueued
    BY <1>0, <1>1 DEF IInv, Counted, Accounting
  <1>4. /\ done' = done /\ enqueued' = enqueued /\ arrived' = arrived
        /\ events' = eventQueue /\ trades' = tradeQueue /\ eventQueue' = <<>> /\ tradeQueue' = <<>>
    BY DEF WriterTakes, history
  <1>5. Group' = Backlog
    <2>1. Backlog = SubSeq(arrived, done + 1, enqueued)
      BY <1>0, <1>1 DEF Backlog
    <2>2. Group' = SubSeq(arrived, done + 1, enqueued)
      BY <1>3, <1>4 DEF Group
    <2> QED
      BY <2>1, <2>2
  <1>6. Backlog' = <<>>
    <2>1. Backlog' = SubSeq(arrived, enqueued + 1, enqueued)
      BY <1>3, <1>4 DEF Backlog
    <2> QED
      BY <1>0, <2>1
  <1> QED
    BY <1>2, <1>4, <1>5, <1>6, PartsEmpty DEF Ordered

(* The group has been counted: the backlog begins behind it.               *)
LEMMA AccountedOrdered == ASSUME IInv, Ordered, WriterAccounts PROVE Ordered'
  <1>1. BatchCount' = 0 /\ done' = done + BatchCount /\ writer' # "commit"
    BY DEF WriterAccounts, BatchCount
  <1>2. done' + BatchCount' = done + BatchCount
    BY <1>1, Numbers DEF IInv
  <1>3. Backlog' = Backlog
    BY <1>2 DEF WriterAccounts, queues, history, Backlog
  <1> QED
    BY <1>1, <1>3 DEF WriterAccounts, queues, Ordered

(* Every step keeps the order.                                             *)
LEMMA NextOrdered == IInv /\ Ordered /\ [Next]_vars => Ordered'
  <1> SUFFICES ASSUME IInv, Ordered, [Next]_vars PROVE Ordered'
    OBVIOUS
  <1>1. CASE AppendEvent
    <2>1. [seq |-> nextSeq] \in Rows
      BY DEF IInv, Typed, Rows
    <2>2. Abstract!IsEvent([seq |-> nextSeq])
      BY DEF Abstract!IsEvent
    <2> QED
      BY <1>1, <2>1, <2>2, QueuedOrdered DEF AppendEvent, batch
  <1>2. CASE RecordTrade
    <2>1. [trade |-> enqueued] \in Rows
      BY Numbers DEF IInv, Rows
    <2>2. ~Abstract!IsEvent([trade |-> enqueued])
      BY DEF Abstract!IsEvent
    <2> QED
      BY <1>2, <2>1, <2>2, QueuedOrdered DEF RecordTrade, batch
  <1>3. CASE NotifyWriter \/ Flush \/ FlushWakes \/ SpuriousWakeup
    BY <1>3, OrderedUnchanged
    DEF NotifyWriter, Flush, FlushWakes, SpuriousWakeup, Woken, queues, batch, history
  <1>4. CASE Destroy \/ DestroyNotify \/ DestroyReturns
    BY <1>4, OrderedUnchanged DEF Destroy, DestroyNotify, DestroyReturns, Woken, queues, batch, history
  <1>5. CASE WriterSleeps \/ WriterExits \/ WriterAnnounces
    BY <1>5, OrderedUnchanged DEF WriterSleeps, WriterExits, WriterAnnounces, queues, batch, history
  <1>6. CASE WriterCommits \/ WriterFails
    BY <1>6, OrderedUnchanged DEF WriterCommits, WriterFails, queues, batch
  <1>7. CASE UNCHANGED vars
    BY <1>7, OrderedUnchanged DEF vars
  <1> QED
    BY <1>1, <1>2, <1>3, <1>4, <1>5, <1>6, <1>7, TakenOrdered, AccountedOrdered DEF Next, Writer

(* A transaction is one step of GroupCommit, and so is a failed one.       *)
LEMMA SettleStep ==
  ASSUME IInv, Ordered, WriterCommits \/ WriterFails
  PROVE  Abstract!Next
  <1>1. /\ settled = done /\ BatchCount > 0 /\ BatchCount \in Nat /\ settled \in Nat
        /\ Len(arrived) \in Nat /\ settled + BatchCount <= Len(arrived)
    BY Numbers, Order DEF IInv, Typed, Ordered, WriterCommits, WriterFails
  <1>2. BatchCount \in 1..(Len(arrived) - settled)
    BY <1>1
  <1>3. CASE WriterCommits
    <2>1. /\ Abstract!EventsOf(SubSeq(arrived, settled + 1, settled + BatchCount)) = events
          /\ Abstract!TradesOf(SubSeq(arrived, settled + 1, settled + BatchCount)) = trades
      BY <1>1, <1>3 DEF Ordered, Group, WriterCommits
    <2>2. Abstract!Commit(BatchCount)
      BY <1>3, <2>1 DEF Abstract!Commit, Abstract!Stored, WriterCommits
    <2> QED
      BY <1>2, <2>2 DEF Abstract!Next
  <1>4. CASE WriterFails
    <2>1. Abstract!Drop(BatchCount)
      BY <1>4 DEF Abstract!Drop, WriterFails
    <2> QED
      BY <1>2, <2>1 DEF Abstract!Next
  <1> QED
    BY <1>3, <1>4

(* A flush() that returns is a checkpoint of GroupCommit.                  *)
LEMMA FlushStep ==
  ASSUME IInv, Flush \/ FlushWakes
  PROVE  Abstract!Next \/ UNCHANGED Abstract!vars
  <1>1. UNCHANGED <<arrived, settled, tables>>
    BY DEF Flush, FlushWakes
  <1>2. CASE checkpoint' = checkpoint
    BY <1>1, <1>2 DEF Abstract!vars
  <1>3. CASE checkpoint' # checkpoint
    <2>1. ~stopping
      BY DEF Flush, FlushWakes, IInv, Threads
    <2>2. checkpoint' \in Nat /\ checkpoint' <= done
      <3>1. target \in Nat /\ enqueued \in Nat
        BY Numbers DEF IInv, Typed, TypeOK
      <3>2. \/ checkpoint' = enqueued /\ done >= enqueued
            \/ checkpoint' = target /\ done >= target
        BY <1>3, <2>1 DEF Flush, FlushWakes, Flushed
      <3> QED
        BY <3>1, <3>2, Numbers DEF IInv
    <2>3. checkpoint' \in 0..settled
      BY <2>2, Numbers, Order DEF IInv
    <2>4. Abstract!FlushReturns(checkpoint')
      BY <1>1, <2>3, Numbers DEF Abstract!FlushReturns, IInv
    <2> QED
      BY <2>3, <2>4 DEF Abstract!Next
  <1> QED
    BY <1>2, <1>3

(* Every step of the journal is a step of GroupCommit or changes nothing   *)
(* that it speaks of.                                                      *)
LEMMA NextStep == IInv /\ Ordered /\ [Next]_vars => [Abstract!Next]_(Abstract!vars)
  <1> SUFFICES ASSUME IInv, Ordered, [Next]_vars PROVE Abstract!Next \/ UNCHANGED Abstract!vars
    OBVIOUS
  <1>1. ASSUME NEW row, arrived' = Append(arrived, row), UNCHANGED <<settled, tables, checkpoint>>
        PROVE  Abstract!Next
    <2>1. arrived \in Seq(Rows)
      BY DEF IInv, Typed
    <2>2. Len(arrived') > Len(arrived) /\ arrived'[Len(arrived')] = row
      BY <1>1, <2>1
    <2> QED
      BY <1>1, <2>2 DEF Abstract!Next, Abstract!Record
  <1>2. CASE AppendEvent \/ RecordTrade
    BY <1>1, <1>2 DEF AppendEvent, RecordTrade
  <1>3. CASE Flush \/ FlushWakes
    BY <1>3, FlushStep
  <1>4. CASE NotifyWriter \/ SpuriousWakeup \/ Destroy \/ DestroyNotify \/ DestroyReturns
    BY <1>4
    DEF NotifyWriter, SpuriousWakeup, Destroy, DestroyNotify, DestroyReturns, history, Abstract!vars
  <1>5. CASE WriterCommits \/ WriterFails
    BY <1>5, SettleStep
  <1>6. CASE WriterSleeps \/ WriterExits \/ WriterTakes \/ WriterAccounts \/ WriterAnnounces
    BY <1>6 DEF WriterSleeps, WriterExits, WriterTakes, WriterAccounts, WriterAnnounces, history,
                Abstract!vars
  <1>7. CASE UNCHANGED vars
    BY <1>7 DEF vars, Abstract!vars
  <1> QED
    BY <1>2, <1>3, <1>4, <1>5, <1>6, <1>7 DEF Next, Writer

(* What is unsettled lies in the queues and the batch in order of arrival. *)
THEOREM ArrivalOrder == Spec => []Ordered
  BY InitOrdered, NextOrdered, Invariance, PTL DEF Spec

(* The journal implements its abstract specification: one ordered stream   *)
(* of records, settled in groups that are stored whole or lost whole, and  *)
(* flush() as a checkpoint in that stream (PostgresJournal.cpp:86-181).    *)
THEOREM Refinement == Spec => ImplementsGroupCommit
  <1>1. Init => Abstract!Init
    <2> SUFFICES ASSUME Init PROVE Abstract!Init
      OBVIOUS
    <2>1. DOMAIN tables = {"events", "trades"}
      BY DEF Init
    <2> QED
      BY <2>1 DEF Init, Abstract!Init
  <1> QED
    BY <1>1, NextStep, Invariance, ArrivalOrder, PTL DEF Spec, ImplementsGroupCommit, Abstract!Spec
================================================================================
