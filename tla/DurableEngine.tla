----------------------------- MODULE DurableEngine -----------------------------
(***************************************************************************)
(* The engine over the database journal, across lives: the matching loop   *)
(* and recover() of src/Engine.cpp composed with what PostgresJournal has  *)
(* been shown to implement, GroupCommit.                                   *)
(*                                                                         *)
(* A life of the process starts with recover(), as in                      *)
(* demos/persistence_demo.cpp, and ends with stop() or with a crash at any *)
(* point; everything but the tables is lost then.  The command queue is    *)
(* Engine's subject: here the matching thread pops any command.            *)
(***************************************************************************)
EXTENDS Journal

CONSTANTS
  Order,        \* the orders traders submit
  MaxCommands,  \* bound: largest sequence number used
  MaxLives      \* bound: how often the process is started

ASSUME DurableAssumption ==
  /\ \A order \in Order : order \in Orders({order.id}, Nat \ {0}, Nat \ {0})
  /\ MaxCommands \in Nat
  /\ MaxLives \in Nat

VARIABLES
  process,    \* "down", "up", "flushing" inside stop(), "stopped", or
              \* "failed": recover() has thrown
  thread,     \* the matching thread: "pop", "apply" or "publish"
  cmd,        \* the command it holds
  book,       \* book_
  outbox,     \* trades of the current command still to publish
  tradeLog,   \* tradeLog_
  nextSeq,    \* nextSeq_
  log,        \* the journal object of this process: see GroupCommit
  settled,
  checkpoint,
  tables,     \* the database
  lives,      \* how often the process has been started
  dropped,    \* history: some transaction has failed
  lived       \* history: lived[n + 1] is the state commands 1..n lead to

vars == <<process, thread, cmd, book, outbox, tradeLog, nextSeq, log, settled, checkpoint,
          tables, lives, dropped, lived>>

journal == <<log, settled, checkpoint, tables, dropped>>

WAL == INSTANCE GroupCommit

Command == {Submit(order) : order \in Order} \cup {Cancel(order.id) : order \in Order}

NoCommand == [type |-> "none"]

Fresh == [book |-> <<>>, trades |-> <<>>]

Init ==
  /\ process = "down"
  /\ thread = "pop"
  /\ cmd = NoCommand
  /\ book = <<>>
  /\ outbox = <<>>
  /\ tradeLog = <<>>
  /\ nextSeq = 1
  /\ tables = [events |-> <<>>, trades |-> <<>>]
  /\ WAL!Init
  /\ lives = 0
  /\ dropped = FALSE
  /\ lived = <<Fresh>>

------------------------------------------------------------------------------
(* The life of the process. *)

(* Fault: the query has no ORDER BY seq ASC and the rows come back newest  *)
(* first.                                                                  *)
LoadAllUnordered == Reverse(tables.events)

(* loadAll: the rows of the events table in ascending seq order.           *)
LoadAll ==
  LET seqs == {tables.events[i].seq : i \in DOMAIN tables.events}
      row(seq) == CHOOSE i \in DOMAIN tables.events : tables.events[i].seq = seq
  IN  [k \in 1..Cardinality(seqs) |-> tables.events[row(Nth(seqs, k))]]

(* Fault: recover() numbers on from how many events there are.             *)
RecoveredSeqCount(events) == Len(events)

(* nextSeq_ after recover().                                               *)
RecoveredSeq(events) == MaxSeq(events) + 1

(* A new process opens the journal and recover() replays what is stored.   *)
Recover ==
  /\ process = "down"
  /\ lives < MaxLives
  /\ lives' = lives + 1
  /\ LET events == LoadAll
         replay == Replay(events)
     IN  \/ /\ ~replay.throws
            /\ process' = "up"
            /\ book' = replay.book
            /\ tradeLog' = replay.trades
            /\ nextSeq' = RecoveredSeq(events)
            /\ lived' = SubSeq(lived, 1, nextSeq')
         \/ /\ replay.throws
            /\ process' = "failed"
            /\ UNCHANGED <<book, tradeLog, nextSeq, lived>>
  /\ UNCHANGED <<thread, cmd, outbox, journal>>

(* What is left of a process that has ended: the tables.                   *)
ProcessEnds ==
  /\ process' = "down"
  /\ thread' = "pop"
  /\ cmd' = NoCommand
  /\ book' = <<>>
  /\ outbox' = <<>>
  /\ tradeLog' = <<>>
  /\ nextSeq' = 1
  /\ log' = <<>>
  /\ settled' = 0
  /\ checkpoint' = 0
  /\ UNCHANGED <<tables, lives, dropped, lived>>

(* The process dies, and with it what is not in the tables.  A transaction *)
(* the server was still working on is executed before the next loadAll()   *)
(* or not at all.                                                          *)
Crash ==
  /\ process \in {"up", "flushing"}
  /\ ProcessEnds

(* stop(): the matching thread has been joined, flush() is called.         *)
Stop ==
  /\ process = "up" /\ thread = "pop"
  /\ process' = "flushing"
  /\ UNCHANGED <<thread, cmd, book, outbox, tradeLog, nextSeq, journal, lives, lived>>

(* Fault: stop() does not flush the journal.                               *)
StopReturnsUnflushed ==
  /\ process = "flushing"
  /\ process' = "stopped"
  /\ UNCHANGED <<thread, cmd, book, outbox, tradeLog, nextSeq, journal, lives, lived>>

StopReturns ==
  /\ process = "flushing"
  /\ WAL!FlushReturns(Len(log))
  /\ process' = "stopped"
  /\ UNCHANGED <<thread, cmd, book, outbox, tradeLog, nextSeq, lives, dropped, lived>>

(* After stop() the engine and the journal are destroyed.                  *)
Shutdown ==
  /\ process = "stopped"
  /\ ProcessEnds

------------------------------------------------------------------------------
(* The journal's writer thread settles some of what it was handed. *)

WriterCommits(n) ==
  /\ process \in {"up", "flushing"}
  /\ WAL!Commit(n)
  /\ UNCHANGED <<process, thread, cmd, book, outbox, tradeLog, nextSeq, lives, dropped, lived>>

WriterFails(n) ==
  /\ process \in {"up", "flushing"}
  /\ WAL!Drop(n)
  /\ dropped' = TRUE
  /\ UNCHANGED <<process, thread, cmd, book, outbox, tradeLog, nextSeq, lives, lived>>

------------------------------------------------------------------------------
(* The matching thread. *)

Throws(c) == c.type = "SUBMIT" /\ c.order.id \in Active(book)

(* What the command does to the book, and the trades it makes.             *)
Effect(c) ==
  CASE Throws(c)         -> [book |-> book, trades |-> <<>>]
    [] c.type = "CANCEL" -> [book |-> Cancelled(book, c.cancelId), trades |-> <<>>]
    [] OTHER             -> Outcome(book, c.order)

(* 1. Write-ahead: the event goes to the journal before the book changes.  *)
AppendEvent(c) ==
  /\ process = "up" /\ thread = "pop"
  /\ nextSeq <= MaxCommands
  /\ cmd' = c
  /\ WAL!Record(EventOf(c, nextSeq))
  /\ nextSeq' = nextSeq + 1
  /\ lived' = Append(lived, [book |-> Effect(c).book, trades |-> tradeLog \o Effect(c).trades])
  /\ thread' = "apply"
  /\ UNCHANGED <<process, book, outbox, tradeLog, lives, dropped>>

(* 2. Apply.                                                               *)
Apply ==
  /\ process = "up" /\ thread = "apply"
  /\ ~Throws(cmd)
  /\ book' = Effect(cmd).book
  /\ outbox' = Effect(cmd).trades
  /\ cmd' = NoCommand
  /\ thread' = "publish"
  /\ UNCHANGED <<process, tradeLog, nextSeq, journal, lives, lived>>

(* addOrder throws on the matching thread: std::terminate.                 *)
ApplyThrows ==
  /\ process = "up" /\ thread = "apply"
  /\ Throws(cmd)
  /\ ProcessEnds

(* 3. Publish: the log, then the journal's trades table.                   *)
PublishTrade ==
  /\ process = "up" /\ thread = "publish"
  /\ outbox # <<>>
  /\ tradeLog' = Append(tradeLog, Head(outbox))
  /\ WAL!Record(Head(outbox))
  /\ outbox' = Tail(outbox)
  /\ UNCHANGED <<process, thread, cmd, book, nextSeq, lives, dropped, lived>>

PublishDone ==
  /\ process = "up" /\ thread = "publish"
  /\ outbox = <<>>
  /\ thread' = "pop"
  /\ UNCHANGED <<process, cmd, book, outbox, tradeLog, nextSeq, journal, lives, lived>>

Next ==
  \/ Recover
  \/ Crash
  \/ Stop
  \/ StopReturns
  \/ Shutdown
  \/ \E n \in 1..(Len(log) - settled) : WriterCommits(n) \/ WriterFails(n)
  \/ \E c \in Command : AppendEvent(c)
  \/ Apply
  \/ ApplyThrows
  \/ PublishTrade
  \/ PublishDone

Spec == Init /\ [][Next]_vars

------------------------------------------------------------------------------
(* Properties. *)

(* A recovered engine is in a state the engine has been in: the one after  *)
(* its first n commands, n being the last stored.  So it is in every life, *)
(* whatever crashed when, as long as no batch was dropped.                 *)
RecoveredStateIsPast ==
  ~dropped /\ process = "up" /\ thread = "pop" =>
    /\ nextSeq \in DOMAIN lived
    /\ [book |-> book, trades |-> tradeLog] = lived[nextSeq]

(* The same without the condition: "a hard crash can lose the last         *)
(* un-committed batch", and nothing else can be lost.                      *)
OnlyTheTailIsLost ==
  process = "up" /\ thread = "pop" =>
    /\ nextSeq \in DOMAIN lived
    /\ [book |-> book, trades |-> tradeLog] = lived[nextSeq]

(* A clean shutdown loses nothing: once stop() has returned, replaying the *)
(* tables gives the book and the trades of the engine that stopped.        *)
StoppedIsDurable ==
  process = "stopped" /\ ~dropped =>
    LET replay == Replay(LoadAll)
    IN  book = replay.book /\ tradeLog = replay.trades

(* recover() numbers on so that no sequence number is used twice: no batch *)
(* is ever refused for its primary key, after drops and crashes either.    *)
KeysNeverCollide ==
  LET pending == WAL!EventsOf(SubSeq(log, settled + 1, Len(log)))
  IN  /\ WAL!KeysFree(tables.events, pending)
      /\ process \in {"up", "flushing"} =>
           \A i \in DOMAIN tables.events : tables.events[i].seq < nextSeq

Occurrences(trade, trades) == Cardinality({i \in DOMAIN trades : trades[i] = trade})

(* The trades table never shows a fill that the stored events do not       *)
(* account for, as long as no batch was dropped.                           *)
TradesFollowEvents ==
  ~dropped =>
    LET replayed == Replay(LoadAll).trades
    IN  \A i \in DOMAIN tables.trades :
          LET t == tables.trades[i]
          IN  Occurrences(t, tables.trades) <= Occurrences(t, replayed)

(* The trades table holds "every fill" once stop() has returned.           *)
EveryFillStored ==
  process = "stopped" /\ ~dropped =>
    \A i \in DOMAIN tradeLog :
      Occurrences(tradeLog[i], tables.trades) >= Occurrences(tradeLog[i], tradeLog)

(* recover() rebuilds the engine from whatever the log holds.              *)
RecoverySucceeds == process # "failed"
================================================================================
