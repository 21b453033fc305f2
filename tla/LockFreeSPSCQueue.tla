--------------------------- MODULE LockFreeSPSCQueue ---------------------------
(***************************************************************************)
(* The ring buffer of include/LockFreeSPSCQueue.h between the producer and *)
(* the consumer of demos/concurrency_demo.cpp: the one calls push() again  *)
(* until it succeeds, the other calls pop() all the time.                  *)
(*                                                                         *)
(* One action per access to shared memory.  An atomic index is the list of *)
(* the values stored in it, in modification order.  A thread reads its own *)
(* last store; an acquire load of the other index may return any store     *)
(* that is not older than one it has seen, and what the other thread did   *)
(* before that store happens before what follows the load.                 *)
(***************************************************************************)
EXTENDS Integers, Sequences

CONSTANTS
  Item,       \* the values of type T
  Default,    \* T(), which fills a new buffer
  Capacity,   \* the template argument
  MaxPushes   \* bound: calls of push() that succeed

(* The static assertions.  By the second, & (Capacity - 1) is % Capacity.  *)
ASSUME CapacityAssumption == Capacity \in Nat /\ Capacity >= 2
ASSUME PowerOfTwo == \E k \in 1..Capacity : Capacity = 2^k

ASSUME ItemAssumption == Default \in Item /\ MaxPushes \in Nat

VARIABLES
  headStores,  \* the stores of head_, oldest first
  tailStores,  \* the stores of tail_
  buffer,      \* buffer_
  producer,    \* "idle", or the access push() makes next: "load", "write", "store"
  item,        \* its argument
  tailSeen,    \* the last store of tail_ the producer has acquired
  consumer,    \* the access pop() makes next: "load", "read", "store"
  taken,       \* the item it has moved out
  headSeen,    \* the last store of head_ the consumer has acquired
  accepted,    \* history: items of the pushes that returned true
  returned     \* history: items returned by pop()

vars == <<headStores, tailStores, buffer, producer, item, tailSeen, consumer, taken, headSeen,
          accepted, returned>>

producerState == <<headStores, producer, item, tailSeen, accepted>>
consumerState == <<tailStores, consumer, taken, headSeen, returned>>

Index == 0..(Capacity - 1)

head == headStores[Len(headStores)]
tail == tailStores[Len(tailStores)]

(* Fault: the index is not wrapped.                                        *)
NextIndexUnwrapped(i) == i + 1

NextIndex(i) == (i + 1) % Capacity

Init ==
  /\ headStores = <<0>>
  /\ tailStores = <<0>>
  /\ buffer = [i \in Index |-> Default]
  /\ producer = "idle"
  /\ item = Default
  /\ tailSeen = 1
  /\ consumer = "load"
  /\ taken = Default
  /\ headSeen = 1
  /\ accepted = <<>>
  /\ returned = <<>>

------------------------------------------------------------------------------
(* The producer. *)

Push(i) ==
  /\ producer = "idle"
  /\ Len(accepted) < MaxPushes
  /\ item' = i
  /\ producer' = "load"
  /\ UNCHANGED <<headStores, tailSeen, accepted, buffer, consumerState>>

(* Fault: no slot is kept empty, and a new queue looks full.               *)
FullAtHead(t) == head = t

(* Fault: no test for full.                                                *)
FullNever(t) == FALSE

Full(t) == NextIndex(head) = t

(* The acquire load of tail_, and the test: a full queue makes push()      *)
(* return false, and the producer call it again.                           *)
LoadTail ==
  /\ producer = "load"
  /\ tailSeen' \in tailSeen..Len(tailStores)
  /\ producer' = IF Full(tailStores[tailSeen']) THEN "load" ELSE "write"
  /\ UNCHANGED <<headStores, item, accepted, buffer, consumerState>>

WriteSlot ==
  /\ producer = "write"
  /\ buffer' = [buffer EXCEPT ![head] = item]
  /\ producer' = "store"
  /\ UNCHANGED <<headStores, item, tailSeen, accepted, consumerState>>

(* The release store of head_ publishes the slot; push() returns true.     *)
StoreHead ==
  /\ producer = "store"
  /\ headStores' = Append(headStores, NextIndex(head))
  /\ accepted' = Append(accepted, item)
  /\ producer' = "idle"
  /\ UNCHANGED <<item, tailSeen, buffer, consumerState>>

------------------------------------------------------------------------------
(* The consumer. *)

(* Fault: the load is relaxed; it orders nothing.                          *)
LoadHeadRelaxed ==
  /\ consumer = "load"
  /\ \E n \in headSeen..Len(headStores) :
       consumer' = IF tail = headStores[n] THEN "load" ELSE "read"
  /\ UNCHANGED <<tailStores, taken, headSeen, returned, buffer, producerState>>

(* The acquire load of head_, and the test: pop() of an empty queue        *)
(* returns nothing, and the consumer calls it again.                       *)
LoadHead ==
  /\ consumer = "load"
  /\ headSeen' \in headSeen..Len(headStores)
  /\ consumer' = IF tail = headStores[headSeen'] THEN "load" ELSE "read"
  /\ UNCHANGED <<tailStores, taken, returned, buffer, producerState>>

(* A slot that has been moved from holds some value of its type.           *)
ReadSlot ==
  /\ consumer = "read"
  /\ taken' = buffer[tail]
  /\ \E left \in Item : buffer' = [buffer EXCEPT ![tail] = left]
  /\ consumer' = "store"
  /\ UNCHANGED <<tailStores, headSeen, returned, producerState>>

(* The release store of tail_ gives the slot back; pop() returns the item. *)
StoreTail ==
  /\ consumer = "store"
  /\ tailStores' = Append(tailStores, NextIndex(tail))
  /\ returned' = Append(returned, taken)
  /\ consumer' = "load"
  /\ UNCHANGED <<taken, headSeen, buffer, producerState>>

Producer == LoadTail \/ WriteSlot \/ StoreHead
Consumer == LoadHead \/ ReadSlot \/ StoreTail

Next ==
  \/ \E i \in Item : Push(i)
  \/ Producer
  \/ Consumer

(* Both threads are scheduled, and a store is seen by a thread that keeps  *)
(* loading ([intro.progress]: in a finite period of time).  Nobody has to  *)
(* call push().                                                            *)
Fairness ==
  /\ WF_vars(Producer)
  /\ WF_vars(Consumer)
  /\ SF_vars(LoadTail /\ tailSeen' = Len(tailStores))
  /\ SF_vars(LoadHead /\ headSeen' = Len(headStores))

Spec == Init /\ [][Next]_vars /\ Fairness

------------------------------------------------------------------------------
(* Properties. *)

(* The type invariant: indices in the ring, views within what was stored.  *)
TypeOK ==
  /\ headStores \in Seq(Index) /\ headStores # <<>>
  /\ tailStores \in Seq(Index) /\ tailStores # <<>>
  /\ buffer \in [Index -> Item]
  /\ producer \in {"idle", "load", "write", "store"}
  /\ consumer \in {"load", "read", "store"}
  /\ item \in Item /\ taken \in Item
  /\ tailSeen \in 1..Len(tailStores)
  /\ headSeen \in 1..Len(headStores)
  /\ accepted \in Seq(Item)
  /\ returned \in Seq(Item)

(* The n-th write of a slot is the one before store n + 1 of head_, and so *)
(* for reads; these many have begun, or may at any moment.                 *)
Writes == IF producer \in {"write", "store"} THEN Len(headStores) ELSE Len(headStores) - 1
Reads  == IF consumer \in {"read", "store"} THEN Len(tailStores) ELSE Len(tailStores) - 1

(* No data race on a slot, in the sense of the C++ memory model: when the  *)
(* producer is about to write a slot, every read of it happened before,    *)
(* and when the consumer is about to read one, so did every write.         *)
NoDataRace ==
  /\ producer = "write" =>
       \A r \in 1..Reads : tailStores[r] = head => r < tailSeen
  /\ consumer = "read" =>
       \A w \in 1..Writes : headStores[w] = tail => w < headSeen

pending == Len(accepted) - Len(returned)

(* First in, first out, with nothing lost, doubled or overwritten: what    *)
(* pop() has returned are the first items pushed; the rest, at most        *)
(* Capacity - 1 of them, are in the ring from tail_ on, except the one the *)
(* consumer has in its hands.                                              *)
RingHoldsPending ==
  /\ pending \in 0..(Capacity - 1)
  /\ \A i \in 1..Len(returned) : returned[i] = accepted[i]
  /\ consumer = "store" => pending > 0 /\ taken = accepted[Len(returned) + 1]
  /\ \A i \in 1..pending :
       i > 1 \/ consumer # "store" =>
         buffer[(tail + i - 1) % Capacity] = accepted[Len(returned) + i]

(* Every item a push() is called with is accepted, however full the queue, *)
(* and then returned: neither thread spins for ever.                       *)
EveryItemDelivered ==
  \A n \in 1..MaxPushes :
    (Len(accepted) + (IF producer = "idle" THEN 0 ELSE 1) >= n) ~> (Len(returned) >= n)
================================================================================
