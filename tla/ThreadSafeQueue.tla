---------------------------- MODULE ThreadSafeQueue ----------------------------
(***************************************************************************)
(* include/ThreadSafeQueue.h between several pushing threads and several   *)
(* threads that pop() until it returns nothing, as Engine::runMatchingLoop *)
(* does; a controller stops and restarts them as Engine::stop and start    *)
(* do.                                                                     *)
(*                                                                         *)
(* An action is what a thread does while it holds mtx_, or a notify after  *)
(* it has let go of it.  A thread that is woken evaluates its predicate    *)
(* again, exactly as one that calls pop() does.                            *)
(***************************************************************************)
EXTENDS Integers, Sequences, FiniteSets

CONSTANTS
  Producers,
  Consumers,
  MaxItems    \* bound: calls of push()

ASSUME ThreadAssumption == IsFiniteSet(Producers) /\ IsFiniteSet(Consumers)
ASSUME BoundAssumption == MaxItems \in Nat

VARIABLES
  queue,     \* queue_; an item is the number of its push
  stopping,  \* stopping_
  producer,  \* of each producer: "idle", or "notify" after its unlock
  consumer,  \* of each consumer: "pop", "asleep" on cv_, or "exited"
  ctl,       \* the controller: "started", "notify" inside stop(), "joining"
  pushed     \* history: number of items pushed

vars == <<queue, stopping, producer, consumer, ctl, pushed>>

Init ==
  /\ queue = <<>>
  /\ stopping = FALSE
  /\ producer = [p \in Producers |-> "idle"]
  /\ consumer = [c \in Consumers |-> "pop"]
  /\ ctl = "started"
  /\ pushed = 0

------------------------------------------------------------------------------
(* Fault: a push on a queue that is not empty does not notify.             *)
PushNotifyingIfEmpty(p) ==
  /\ producer[p] = "idle"
  /\ pushed < MaxItems
  /\ queue' = Append(queue, pushed + 1)
  /\ pushed' = pushed + 1
  /\ producer' = [producer EXCEPT ![p] = IF queue = <<>> THEN "notify" ELSE "idle"]
  /\ UNCHANGED <<stopping, consumer, ctl>>

Push(p) ==
  /\ producer[p] = "idle"
  /\ pushed < MaxItems
  /\ queue' = Append(queue, pushed + 1)
  /\ pushed' = pushed + 1
  /\ producer' = [producer EXCEPT ![p] = "notify"]
  /\ UNCHANGED <<stopping, consumer, ctl>>

Asleep == {c \in Consumers : consumer[c] = "asleep"}

(* Fault: push() does not notify.                                          *)
NotifyNobody(p) ==
  /\ producer[p] = "notify"
  /\ producer' = [producer EXCEPT ![p] = "idle"]
  /\ UNCHANGED <<queue, stopping, consumer, ctl, pushed>>

(* notify_one() wakes one sleeper, any of them, and is lost if there is    *)
(* none.                                                                   *)
NotifyOne(p) ==
  /\ producer[p] = "notify"
  /\ producer' = [producer EXCEPT ![p] = "idle"]
  /\ \/ \E c \in Asleep : consumer' = [consumer EXCEPT ![c] = "pop"]
     \/ Asleep = {} /\ UNCHANGED consumer
  /\ UNCHANGED <<queue, stopping, ctl, pushed>>

PopTakes(c) ==
  /\ consumer[c] = "pop"
  /\ queue # <<>>
  /\ queue' = Tail(queue)
  /\ UNCHANGED <<stopping, producer, consumer, ctl, pushed>>

PopSleeps(c) ==
  /\ consumer[c] = "pop"
  /\ queue = <<>> /\ ~stopping
  /\ consumer' = [consumer EXCEPT ![c] = "asleep"]
  /\ UNCHANGED <<queue, stopping, producer, ctl, pushed>>

(* pop() returns nullopt, and the thread ends its loop.                    *)
PopEnds(c) ==
  /\ consumer[c] = "pop"
  /\ queue = <<>> /\ stopping
  /\ consumer' = [consumer EXCEPT ![c] = "exited"]
  /\ UNCHANGED <<queue, stopping, producer, ctl, pushed>>

SpuriousWakeup(c) ==
  /\ consumer[c] = "asleep"
  /\ consumer' = [consumer EXCEPT ![c] = "pop"]
  /\ UNCHANGED <<queue, stopping, producer, ctl, pushed>>

Stop ==
  /\ ctl = "started"
  /\ stopping' = TRUE
  /\ ctl' = "notify"
  /\ UNCHANGED <<queue, producer, consumer, pushed>>

(* Fault: stop() notifies one thread.                                      *)
StopNotifyOne ==
  /\ ctl = "notify"
  /\ ctl' = "joining"
  /\ \/ \E c \in Asleep : consumer' = [consumer EXCEPT ![c] = "pop"]
     \/ Asleep = {} /\ UNCHANGED consumer
  /\ UNCHANGED <<queue, stopping, producer, pushed>>

StopNotifyAll ==
  /\ ctl = "notify"
  /\ ctl' = "joining"
  /\ consumer' = [c \in Consumers |-> IF c \in Asleep THEN "pop" ELSE consumer[c]]
  /\ UNCHANGED <<queue, stopping, producer, pushed>>

(* stop() has joined every thread; start() calls reset() and starts them.  *)
Restart ==
  /\ ctl = "joining"
  /\ \A c \in Consumers : consumer[c] = "exited"
  /\ stopping' = FALSE
  /\ ctl' = "started"
  /\ consumer' = [c \in Consumers |-> "pop"]
  /\ UNCHANGED <<queue, producer, pushed>>

Pop(c) == PopTakes(c) \/ PopSleeps(c) \/ PopEnds(c)

Next ==
  \/ \E p \in Producers : Push(p) \/ NotifyOne(p)
  \/ \E c \in Consumers : Pop(c) \/ SpuriousWakeup(c)
  \/ Stop
  \/ StopNotifyAll
  \/ Restart

(* Threads that can go on are scheduled, and get the mutex some time.      *)
Fairness ==
  /\ \A p \in Producers : WF_vars(NotifyOne(p))
  /\ \A c \in Consumers : WF_vars(Pop(c))
  /\ WF_vars(StopNotifyAll)

Spec == Init /\ [][Next]_vars /\ Fairness

------------------------------------------------------------------------------
(* Properties. *)

Awake     == {c \in Consumers : consumer[c] = "pop"}
Notifying == {p \in Producers : producer[p] = "notify"}

(* No wakeup is lost: as long as a consumer sleeps, there is for each item *)
(* in the queue a consumer awake or a notify still to come, whatever       *)
(* notifies found nobody asleep and whoever took the item they were for.   *)
EveryItemHasATaker ==
  Asleep # {} => Len(queue) <= Cardinality(Notifying) + Cardinality(Awake)

AllExited == \A c \in Consumers : consumer[c] = "exited"

(* What is pushed is popped, unless every consumer ends first.             *)
ItemsTaken == (queue # <<>> /\ ~AllExited) ~> (queue = <<>> \/ AllExited)

(* stop() ends every consumer, asleep or not, once the queue is empty.     *)
StopReleasesAll == ctl = "notify" ~> AllExited
================================================================================
