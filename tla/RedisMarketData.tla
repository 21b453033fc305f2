---------------------------- MODULE RedisMarketData ----------------------------
(***************************************************************************)
(* The market data sink: persistence/RedisMarketData.cpp.                  *)
(*                                                                         *)
(* The matching thread only queues messages.  The publisher thread swaps   *)
(* the queue out, makes sure there is a connection, sends three commands   *)
(* per message in one pipeline and waits for all the replies.  The owner   *)
(* destroys the sink, and may build another one; the process may die.      *)
(*                                                                         *)
(* A message is its number: msgs[n] is what it says.  A cached key records *)
(* the message that set or deleted it, which stands for the price.  Redis  *)
(* and the network are external: a connection may fail at any time, and    *)
(* then exactly the commands Redis has not processed yet are lost; Redis   *)
(* may also answer a command with an error, which the code does not look   *)
(* at.                                                                     *)
(***************************************************************************)
EXTENDS Integers, FiniteSets, SequencesExt

CONSTANTS
  TopOfBook,   \* [hasBid, hasAsk] of the calls of onTopOfBook
  MaxMessages  \* bound: messages handed to all sinks

ASSUME MessageAssumption ==
  TopOfBook \subseteq [hasBid : BOOLEAN, hasAsk : BOOLEAN] /\ MaxMessages \in Nat

VARIABLES
  msgs,       \* history: every message, in the order it was queued
  queue,      \* queue_
  stopping,   \* stopping_
  teller,     \* the matching thread: "idle", or "notify" after its unlock
  owner,      \* "none", "alive", or inside the destructor: "notify", "join"
  publisher,  \* "check", "asleep" on cv_, "connect", "replies" or "exited"
  batch,      \* the messages swapped out
  connected,  \* ctx_ is there and without error
  wire,       \* commands sent and not processed by Redis
  keys,       \* the cached keys md:best_bid, md:best_ask, md:last_price
  count,      \* md:trade_count
  feed,       \* messages published on md:trades and md:book
  lossy       \* history: messages of which a command was lost

vars == <<msgs, queue, stopping, teller, owner, publisher, batch, connected, wire, keys, count,
          feed, lossy>>

sink  == <<queue, stopping, teller, owner, publisher, batch, connected>>
redis == <<keys, count, feed>>

Key == {"bid", "ask", "last"}

(* Fault: nothing is sent for a side that has become empty.                *)
CommandsNoDel(n) ==
  IF msgs[n].kind = "TRADE"
  THEN <<[msg |-> n, to |-> "feed"], [msg |-> n, to |-> "last"], [msg |-> n, to |-> "count"]>>
  ELSE SelectSeq(<<[msg |-> n, to |-> "bid"], [msg |-> n, to |-> "ask"], [msg |-> n, to |-> "feed"]>>,
                 LAMBDA command : command.to = "bid" => msgs[n].hasBid)

(* The three commands of a message, in order.                              *)
Commands(n) ==
  IF msgs[n].kind = "TRADE"
  THEN <<[msg |-> n, to |-> "feed"], [msg |-> n, to |-> "last"], [msg |-> n, to |-> "count"]>>
  ELSE <<[msg |-> n, to |-> "bid"], [msg |-> n, to |-> "ask"], [msg |-> n, to |-> "feed"]>>

(* SET, or DEL when the message has no price for the key.                  *)
Entry(key, n) ==
  [ by |-> n,
    has |-> CASE key = "bid" -> msgs[n].hasBid
              [] key = "ask" -> msgs[n].hasAsk
              [] key = "last" -> TRUE ]

Init ==
  /\ msgs = <<>>
  /\ queue = <<>>
  /\ stopping = FALSE
  /\ teller = "idle"
  /\ owner = "none"
  /\ publisher = "exited"
  /\ batch = <<>>
  /\ connected = FALSE
  /\ wire = <<>>
  /\ keys = [key \in Key |-> [by |-> 0, has |-> FALSE]]
  /\ count = 0
  /\ feed = <<>>
  /\ lossy = {}

Woken == IF publisher = "asleep" THEN "check" ELSE publisher

------------------------------------------------------------------------------
(* The owner, and the process. *)

(* The constructor connects, or throws and there is no sink.               *)
Construct ==
  /\ owner = "none"
  /\ owner' = "alive"
  /\ connected' = TRUE
  /\ publisher' = "check"
  /\ queue' = <<>>
  /\ stopping' = FALSE
  /\ UNCHANGED <<msgs, teller, batch, wire, redis, lossy>>

(* The engine, and with it the matching thread, is gone by then.           *)
Destroy ==
  /\ owner = "alive" /\ teller = "idle"
  /\ stopping' = TRUE
  /\ owner' = "notify"
  /\ UNCHANGED <<msgs, queue, teller, publisher, batch, connected, wire, redis, lossy>>

(* Fault: the destructor joins without waking the publisher.               *)
DestroyNotifyNot ==
  /\ owner = "notify"
  /\ owner' = "join"
  /\ UNCHANGED <<msgs, queue, stopping, teller, publisher, batch, connected, wire, redis, lossy>>

DestroyNotify ==
  /\ owner = "notify"
  /\ publisher' = Woken
  /\ owner' = "join"
  /\ UNCHANGED <<msgs, queue, stopping, teller, batch, connected, wire, redis, lossy>>

DestroyReturns ==
  /\ owner = "join"
  /\ publisher = "exited"
  /\ owner' = "none"
  /\ connected' = FALSE
  /\ UNCHANGED <<msgs, queue, stopping, teller, publisher, batch, wire, redis, lossy>>

InHand == Range(queue) \cup Range(IF publisher = "connect" THEN batch ELSE <<>>)
InFlight == {command.msg : command \in Range(wire)}

(* Only Redis survives.                                                    *)
Crash ==
  /\ owner # "none"
  /\ owner' = "none"
  /\ lossy' = lossy \cup InHand \cup InFlight
  /\ queue' = <<>> /\ batch' = <<>> /\ wire' = <<>>
  /\ teller' = "idle" /\ publisher' = "exited" /\ connected' = FALSE
  /\ UNCHANGED <<msgs, stopping, redis>>

------------------------------------------------------------------------------
(* The matching thread. *)

Enqueue(m) ==
  /\ owner = "alive" /\ teller = "idle"
  /\ Len(msgs) < MaxMessages
  /\ msgs' = Append(msgs, m)
  /\ queue' = Append(queue, Len(msgs) + 1)
  /\ teller' = "notify"
  /\ UNCHANGED <<stopping, owner, publisher, batch, connected, wire, redis, lossy>>

OnTrade == Enqueue([kind |-> "TRADE"])

OnTopOfBook(top) == Enqueue([kind |-> "BOOK", hasBid |-> top.hasBid, hasAsk |-> top.hasAsk])

Notify ==
  /\ teller = "notify"
  /\ teller' = "idle"
  /\ publisher' = Woken
  /\ UNCHANGED <<msgs, queue, stopping, owner, batch, connected, wire, redis, lossy>>

------------------------------------------------------------------------------
(* The publisher thread. *)

Sleeps ==
  /\ publisher = "check"
  /\ queue = <<>> /\ ~stopping
  /\ publisher' = "asleep"
  /\ UNCHANGED <<msgs, queue, stopping, teller, owner, batch, connected, wire, redis, lossy>>

SpuriousWakeup ==
  /\ publisher = "asleep"
  /\ publisher' = "check"
  /\ UNCHANGED <<msgs, queue, stopping, teller, owner, batch, connected, wire, redis, lossy>>

Exits ==
  /\ publisher = "check"
  /\ queue = <<>> /\ stopping
  /\ publisher' = "exited"
  /\ UNCHANGED <<msgs, queue, stopping, teller, owner, batch, connected, wire, redis, lossy>>

Takes ==
  /\ publisher = "check"
  /\ queue # <<>>
  /\ batch' = queue
  /\ queue' = <<>>
  /\ publisher' = "connect"
  /\ UNCHANGED <<msgs, stopping, teller, owner, connected, wire, redis, lossy>>

(* ensureConnected(): a good connection is kept; for one known to be       *)
(* broken, redisReconnect and then redisConnect may fail.                  *)
EnsureConnected(ok) ==
  /\ ok \/ ~connected
  /\ connected' = ok

(* Fault: a batch that cannot be sent is queued again, behind what has     *)
(* been queued since.                                                      *)
ConnectFailsRequeued ==
  /\ publisher = "connect"
  /\ EnsureConnected(FALSE)
  /\ queue' = queue \o batch
  /\ batch' = <<>>
  /\ publisher' = "check"
  /\ UNCHANGED <<msgs, stopping, teller, owner, wire, redis, lossy>>

(* No connection: the batch is dropped.                                    *)
ConnectFails ==
  /\ publisher = "connect"
  /\ EnsureConnected(FALSE)
  /\ lossy' = lossy \cup Range(batch)
  /\ batch' = <<>>
  /\ publisher' = "check"
  /\ UNCHANGED <<msgs, queue, stopping, teller, owner, wire, redis>>

(* The commands of the whole batch, for one round trip.                    *)
Pipelines ==
  /\ publisher = "connect"
  /\ EnsureConnected(TRUE)
  /\ wire' = FlattenSeq([i \in DOMAIN batch |-> Commands(batch[i])])
  /\ publisher' = "replies"
  /\ UNCHANGED <<msgs, queue, stopping, teller, owner, batch, redis, lossy>>

(* Every reply is there.                                                   *)
PipelineEnds ==
  /\ publisher = "replies"
  /\ wire = <<>>
  /\ batch' = <<>>
  /\ publisher' = "check"
  /\ UNCHANGED <<msgs, queue, stopping, teller, owner, connected, wire, redis, lossy>>

(* Fault: a broken pipeline is sent again from its start.                  *)
PipelineBreaksRetried ==
  /\ publisher = "replies"
  /\ connected' = FALSE
  /\ wire' = <<>>
  /\ publisher' = "connect"
  /\ UNCHANGED <<msgs, queue, stopping, teller, owner, batch, redis, lossy>>

(* A reply is missing: the rest of the batch is dropped.                   *)
PipelineBreaks ==
  /\ publisher = "replies"
  /\ connected' = FALSE
  /\ lossy' = lossy \cup InFlight
  /\ wire' = <<>>
  /\ batch' = <<>>
  /\ publisher' = "check"
  /\ UNCHANGED <<msgs, queue, stopping, teller, owner, redis>>

------------------------------------------------------------------------------
(* Redis, one command at a time. *)

Process ==
  /\ wire # <<>>
  /\ LET command == Head(wire)
     IN  \/ /\ command.to \in Key
            /\ keys' = [keys EXCEPT ![command.to] = Entry(command.to, command.msg)]
            /\ UNCHANGED <<count, feed>>
         \/ /\ command.to = "count"
            /\ count' = count + 1
            /\ UNCHANGED <<keys, feed>>
         \/ /\ command.to = "feed"
            /\ feed' = Append(feed, command.msg)
            /\ UNCHANGED <<keys, count>>
  /\ wire' = Tail(wire)
  /\ UNCHANGED <<msgs, sink, lossy>>

(* An error reply is a reply.                                              *)
Refuse ==
  /\ wire # <<>>
  /\ lossy' = lossy \cup {Head(wire).msg}
  /\ wire' = Tail(wire)
  /\ UNCHANGED <<msgs, sink, redis>>

Publisher ==
  \/ Sleeps
  \/ Exits
  \/ Takes
  \/ ConnectFails
  \/ Pipelines
  \/ PipelineEnds
  \/ PipelineBreaks

Next ==
  \/ Construct
  \/ Destroy
  \/ DestroyNotify
  \/ DestroyReturns
  \/ Crash
  \/ OnTrade
  \/ \E top \in TopOfBook : OnTopOfBook(top)
  \/ Notify
  \/ SpuriousWakeup
  \/ Publisher
  \/ Process
  \/ Refuse

(* Threads that can go on are scheduled.  A connection attempt and a       *)
(* pipeline end, one way or the other.                                     *)
Fairness ==
  /\ WF_vars(Notify)
  /\ WF_vars(DestroyNotify)
  /\ WF_vars(DestroyReturns)
  /\ WF_vars(Publisher)

Spec == Init /\ [][Next]_vars /\ Fairness

------------------------------------------------------------------------------
(* Properties. *)

Trades == {n \in DOMAIN msgs : msgs[n].kind = "TRADE"}
Books  == DOMAIN msgs \ Trades

(* A command of a message has still to be processed.                       *)
Waiting(n, to) == n \in InHand \/ [msg |-> n, to |-> to] \in Range(wire)

(* A cached price is never put back to an older one, over reconnects and   *)
(* restarts: what is still to be sent or processed for a key is newer than *)
(* what it holds.  A message that is through and lost no command has       *)
(* written the key, or a newer one has.  The key is absent exactly when    *)
(* the message that wrote it had no price for it.                          *)
CacheIsLatest ==
  \A key \in Key :
    /\ \A n \in (IF key = "last" THEN Trades ELSE Books) :
         IF Waiting(n, key) THEN keys[key].by < n
                            ELSE n \in lossy \/ n <= keys[key].by
    /\ keys[key].by # 0 => keys[key] = Entry(key, keys[key].by)

(* The cached bid and ask come from two different messages only while      *)
(* Redis is between the two commands, or after the newer message lost one: *)
(* the next message that gets through repairs the pair.                    *)
TornOnlyByLoss ==
  LET newer == IF keys["bid"].by > keys["ask"].by THEN keys["bid"].by ELSE keys["ask"].by
  IN  keys["bid"].by # keys["ask"].by =>
        newer \in lossy \/ Waiting(newer, "ask")

(* The live feed carries each message at most once and in order, and the   *)
(* trade counter counts no trade twice; neither misses a message that lost *)
(* nothing, the ones queued when the sink is destroyed included.           *)
FeedAtMostOnce ==
  /\ \A i, j \in DOMAIN feed : i < j => feed[i] < feed[j]
  /\ \A n \in DOMAIN msgs : n \in lossy \/ Waiting(n, "feed") \/ n \in Range(feed)
  /\ count <= Cardinality({n \in Trades : ~Waiting(n, "count")})
  /\ count >= Cardinality({n \in Trades : n \notin lossy /\ ~Waiting(n, "count")})

(* The destructor returns, with Redis down or refusing too, once what is   *)
(* queued has been sent or dropped.                                        *)
DestructorReturns == owner = "notify" ~> owner = "none"
================================================================================
