-------------------------------- MODULE Engine --------------------------------
(***************************************************************************)
(* The engine: src/Engine.cpp over a ThreadSafeQueue and an                *)
(* InMemoryJournal that outlives it, as in tests/tests.cpp.                *)
(*                                                                         *)
(* Three kinds of threads run: any number of traders, each call of which   *)
(* is one push on the queue; the controller, which starts and stops the    *)
(* engine, destroys it and builds another one from the journal; and the    *)
(* matching thread, one action per stage of runMatchingLoop.  The book is  *)
(* Matching's, which OrderBook implements: only the matching thread, or    *)
(* recover() when there is none, touches it.                               *)
(***************************************************************************)
EXTENDS Journal

CONSTANTS
  Order,       \* the orders traders submit
  MaxCommands  \* bound: commands journaled or on their way to be

ASSUME EngineAssumption ==
  /\ \A order \in Order : order \in Orders({order.id}, Nat \ {0}, Nat \ {0})
  /\ MaxCommands \in Nat

VARIABLES
  running,   \* running_
  stopping,  \* incomingQueue_.stopping_
  ctl,       \* the controller: "idle", or "joining" inside stop()
  thread,    \* the matching thread: "none", or where it is in its loop
  queue,     \* incomingQueue_.queue_
  cmd,       \* the command the matching thread holds
  book,      \* book_
  outbox,    \* trades of the current command still to publish
  tradeLog,  \* tradeLog_
  nextSeq,   \* nextSeq_
  journal,   \* the events of the InMemoryJournal
  top,       \* last top of book given to the market data sink
  dead,      \* std::terminate has been called
  pushed,    \* history: commands pushed on this Engine object
  taken,     \* history: how many of them pop() has returned
  born,      \* history: length of the journal when this object was built
  due        \* history: Len(pushed) when stop() was last called

vars == <<running, stopping, ctl, thread, queue, cmd, book, outbox, tradeLog,
          nextSeq, journal, top, dead, pushed, taken, born, due>>

control  == <<running, stopping, ctl>>
history  == <<pushed, taken, born, due>>

Command == {Submit(order) : order \in Order} \cup {Cancel(order.id) : order \in Order}

NoCommand == [type |-> "none"]

NoTop == [bid |-> NoPrice, ask |-> NoPrice]

Init ==
  /\ running = FALSE
  /\ stopping = FALSE
  /\ ctl = "idle"
  /\ thread = "none"
  /\ queue = <<>>
  /\ cmd = NoCommand
  /\ book = <<>>
  /\ outbox = <<>>
  /\ tradeLog = <<>>
  /\ nextSeq = 1
  /\ journal = <<>>
  /\ top = NoTop
  /\ dead = FALSE
  /\ pushed = <<>>
  /\ taken = 0
  /\ born = 0
  /\ due = 0

------------------------------------------------------------------------------
(* Traders. *)

(* submitOrder and cancelOrder, from any thread, at any time.              *)
Push(c) ==
  /\ ~dead
  /\ Len(journal) + Len(queue) + (IF thread = "append" THEN 1 ELSE 0) < MaxCommands
  /\ queue' = Append(queue, c)
  /\ pushed' = Append(pushed, c)
  /\ UNCHANGED <<control, thread, cmd, book, outbox, tradeLog, nextSeq, journal, top, dead,
                 taken, born, due>>

------------------------------------------------------------------------------
(* The controller. *)

(* Fault: the queue is not reset, its stopping_ flag stays up.             *)
StartNoReset ==
  /\ ~dead /\ ctl = "idle"
  /\ ~running
  /\ running' = TRUE
  /\ thread' = "pop"
  /\ UNCHANGED <<stopping, ctl, queue, cmd, book, outbox, tradeLog, nextSeq, journal, top, dead,
                 history>>

(* A thread that stop() has joined is not joinable any more.               *)
Start ==
  /\ ~dead /\ ctl = "idle"
  /\ ~running
  /\ stopping' = FALSE
  /\ running' = TRUE
  /\ thread' = "pop"
  /\ UNCHANGED <<ctl, queue, cmd, book, outbox, tradeLog, nextSeq, journal, top, dead, history>>

(* stop() up to the call of join(), from stop() itself or from ~Engine.    *)
Stop ==
  /\ ~dead /\ ctl = "idle"
  /\ running
  /\ running' = FALSE
  /\ stopping' = TRUE
  /\ ctl' = "joining"
  /\ due' = Len(pushed)
  /\ UNCHANGED <<thread, queue, cmd, book, outbox, tradeLog, nextSeq, journal, top, dead,
                 pushed, taken, born>>

(* join() returns; flush() has nothing to do for an InMemoryJournal.       *)
StopReturns ==
  /\ ~dead /\ ctl = "joining"
  /\ thread = "exited"
  /\ thread' = "none"
  /\ ctl' = "idle"
  /\ UNCHANGED <<running, stopping, queue, cmd, book, outbox, tradeLog, nextSeq, journal, top,
                 dead, history>>

(* Fault: numbering continues AT the last recovered event.                 *)
FirstSeqReused(events) == MaxSeq(events)

(* The first sequence number after a recovery.                             *)
FirstSeq(events) == MaxSeq(events) + 1

(* ~Engine of a stopped engine, and recover() of a new one on the same     *)
(* journal.  What was still in the queue dies with the old engine.         *)
Recover ==
  /\ ~dead /\ ctl = "idle"
  /\ ~running
  /\ LET replay == Replay(journal)
     IN  /\ book' = replay.book
         /\ tradeLog' = replay.trades
         /\ dead' = replay.throws
  /\ nextSeq' = FirstSeq(journal)
  /\ stopping' = FALSE
  /\ queue' = <<>>
  /\ pushed' = <<>>
  /\ taken' = 0
  /\ due' = 0
  /\ born' = Len(journal)
  /\ UNCHANGED <<running, ctl, thread, cmd, outbox, journal, top>>

------------------------------------------------------------------------------
(* The matching thread. *)

(* Fault: the newest command is taken first.                               *)
PopNewest ==
  /\ ~dead /\ thread = "pop"
  /\ queue # <<>>
  /\ cmd' = queue[Len(queue)]
  /\ queue' = SubSeq(queue, 1, Len(queue) - 1)
  /\ taken' = taken + 1
  /\ thread' = "append"
  /\ UNCHANGED <<control, book, outbox, tradeLog, nextSeq, journal, top, dead, pushed, born, due>>

Pop ==
  /\ ~dead /\ thread = "pop"
  /\ queue # <<>>
  /\ cmd' = Head(queue)
  /\ queue' = Tail(queue)
  /\ taken' = taken + 1
  /\ thread' = "append"
  /\ UNCHANGED <<control, book, outbox, tradeLog, nextSeq, journal, top, dead, pushed, born, due>>

(* Fault: pop() gives up as soon as the queue is stopping.                 *)
ExitUndrained ==
  /\ ~dead /\ thread = "pop"
  /\ stopping
  /\ thread' = "exited"
  /\ UNCHANGED <<control, queue, cmd, book, outbox, tradeLog, nextSeq, journal, top, dead, history>>

(* Fault: pop() only waits for an item.                                    *)
ExitNever ==
  /\ FALSE
  /\ UNCHANGED vars

(* pop() returns nullopt: stopping, and nothing left.                      *)
Exit ==
  /\ ~dead /\ thread = "pop"
  /\ stopping
  /\ queue = <<>>
  /\ thread' = "exited"
  /\ UNCHANGED <<control, queue, cmd, book, outbox, tradeLog, nextSeq, journal, top, dead, history>>

(* 1. Write-ahead: number the command and append its event.                *)
AppendEvent ==
  /\ ~dead /\ thread = "append"
  /\ journal' = Append(journal, EventOf(cmd, nextSeq))
  /\ nextSeq' = nextSeq + 1
  /\ thread' = "apply"
  /\ UNCHANGED <<control, queue, cmd, book, outbox, tradeLog, top, dead, history>>

(* 2. Apply.  addOrder throws for an id that is active; nothing on the     *)
(* matching thread catches it, and the process terminates.                 *)
ApplyThrows ==
  /\ ~dead /\ thread = "apply"
  /\ cmd.type = "SUBMIT"
  /\ cmd.order.id \in Active(book)
  /\ dead' = TRUE
  /\ UNCHANGED <<control, thread, queue, cmd, book, outbox, tradeLog, nextSeq, journal, top, history>>

ApplySubmit ==
  /\ ~dead /\ thread = "apply"
  /\ cmd.type = "SUBMIT"
  /\ cmd.order.id \notin Active(book)
  /\ LET outcome == Outcome(book, cmd.order)
     IN  /\ book' = outcome.book
         /\ outbox' = outcome.trades
  /\ thread' = "publish"
  /\ cmd' = NoCommand
  /\ UNCHANGED <<control, queue, tradeLog, nextSeq, journal, top, dead, history>>

ApplyCancel ==
  /\ ~dead /\ thread = "apply"
  /\ cmd.type = "CANCEL"
  /\ book' = Cancelled(book, cmd.cancelId)
  /\ thread' = "publish"
  /\ cmd' = NoCommand
  /\ UNCHANGED <<control, queue, outbox, tradeLog, nextSeq, journal, top, dead, history>>

(* 3. Publish one trade: the log; recordTrade is a no-op for this journal, *)
(* the sink and the callback see what the log gets.                        *)
PublishTrade ==
  /\ ~dead /\ thread = "publish"
  /\ outbox # <<>>
  /\ tradeLog' = Append(tradeLog, Head(outbox))
  /\ outbox' = Tail(outbox)
  /\ UNCHANGED <<control, thread, queue, cmd, book, nextSeq, journal, top, dead, history>>

(* Fault: the sink hears of the book only when both sides are quoted.      *)
PublishTopIfTwoSided ==
  /\ ~dead /\ thread = "publish"
  /\ outbox = <<>>
  /\ top' = IF BestPrice(book, "BUY") # NoPrice /\ BestPrice(book, "SELL") # NoPrice
            THEN [bid |-> BestPrice(book, "BUY"), ask |-> BestPrice(book, "SELL")]
            ELSE top
  /\ thread' = "pop"
  /\ UNCHANGED <<control, queue, cmd, book, outbox, tradeLog, nextSeq, journal, dead, history>>

(* The loop body ends with the new top of book.                            *)
PublishTopOfBook ==
  /\ ~dead /\ thread = "publish"
  /\ outbox = <<>>
  /\ top' = [bid |-> BestPrice(book, "BUY"), ask |-> BestPrice(book, "SELL")]
  /\ thread' = "pop"
  /\ UNCHANGED <<control, queue, cmd, book, outbox, tradeLog, nextSeq, journal, dead, history>>

MatchingThread ==
  \/ Pop
  \/ Exit
  \/ AppendEvent
  \/ ApplyThrows
  \/ ApplySubmit
  \/ ApplyCancel
  \/ PublishTrade
  \/ PublishTopOfBook

Next ==
  \/ \E c \in Command : Push(c)
  \/ Start
  \/ Stop
  \/ StopReturns
  \/ Recover
  \/ MatchingThread

(* The operating system runs the matching thread, and a controller blocked *)
(* in join() once it can go on; nobody has to call the engine.             *)
Fairness == WF_vars(MatchingThread) /\ WF_vars(StopReturns)

Spec == Init /\ [][Next]_vars /\ Fairness

------------------------------------------------------------------------------
(* Properties. *)

(* The type invariant: threads, commands and counters.                     *)
TypeOK ==
  /\ running \in BOOLEAN /\ stopping \in BOOLEAN /\ dead \in BOOLEAN
  /\ ctl \in {"idle", "joining"}
  /\ thread \in {"none", "pop", "append", "apply", "publish", "exited"}
  /\ cmd \in Command \cup {NoCommand}
  /\ \A i \in DOMAIN queue : queue[i] \in Command
  /\ nextSeq \in 1..(MaxCommands + 1)
  /\ Len(journal) <= MaxCommands
  /\ taken \in 0..Len(pushed) /\ due \in 0..Len(pushed) /\ born \in 0..Len(journal)

(* The events whose commands have reached the book: the write-ahead log is *)
(* one event ahead between append() and addOrder().                        *)
Applied == IF thread = "apply" THEN SubSeq(journal, 1, Len(journal) - 1) ELSE journal

(* Event sourcing: at every moment the live book and the trades produced   *)
(* are exactly what replaying the journal gives, in every life of the      *)
(* engine, so recover() rebuilds what was there.                           *)
LiveStateIsReplay ==
  LET replay == Replay(Applied)
  IN  /\ ~replay.throws
      /\ book = replay.book
      /\ tradeLog \o outbox = replay.trades

(* One ordered stream: what pop() has not returned is still queued, in     *)
(* order, and the journal holds what it returned, in order, numbered on    *)
(* from the lives before; nothing is lost, doubled or overtaken.           *)
SingleOrderedStream ==
  LET inHand == IF thread = "append" THEN 1 ELSE 0
  IN  /\ queue = SubSeq(pushed, taken + 1, Len(pushed))
      /\ Len(journal) = born + taken - inHand
      /\ \A i \in 1..(taken - inHand) : journal[born + i] = EventOf(pushed[i], born + i)

(* recover() continues the numbering: the i-th event ever journaled has    *)
(* sequence number i, and the next one will too.                           *)
SequenceContiguous ==
  /\ \A i \in DOMAIN journal : journal[i].seq = i
  /\ nextSeq = Len(journal) + 1

(* stop() returns only when every command pushed before it was called has  *)
(* been journaled, applied and published.                                  *)
StopDrains ==
  ctl = "idle" /\ ~running =>
    /\ taken >= due
    /\ thread = "none"
    /\ outbox = <<>>
    /\ Len(journal) = born + taken

(* Between two commands the market data sink has been told the prices the  *)
(* book has now, after a restart too, and they are never crossed.  A sink  *)
(* outlives its engine here: recover() tells a new one nothing.            *)
TopOfBookCurrent ==
  thread \in {"none", "pop", "exited"} =>
    LET prices(side) == {book[i].price : i \in {k \in DOMAIN book : book[k].side = side}}
    IN  /\ prices("BUY") = {} <=> top.bid = NoPrice
        /\ prices("SELL") = {} <=> top.ask = NoPrice
        /\ \A p \in prices("BUY") : p <= top.bid
        /\ \A p \in prices("SELL") : p >= top.ask
        /\ top.bid # NoPrice => top.bid \in prices("BUY")
        /\ top.ask # NoPrice => top.ask \in prices("SELL")
        /\ top.bid # NoPrice /\ top.ask # NoPrice => top.bid < top.ask

(* A call of stop() returns, however commands keep coming while it drains, *)
(* as long as they end (MaxCommands) and none of them kills the process.   *)
StopTerminates == ctl = "joining" ~> (ctl = "idle" \/ dead)

(* A command in the queue of a running engine is taken, unless the engine  *)
(* is stopped or killed first.                                             *)
CommandsTaken == (running /\ queue # <<>>) ~> (queue = <<>> \/ ~running \/ dead)
==============================================================================
