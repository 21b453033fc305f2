------------------------ MODULE LockFreeSPSCQueueProofs ------------------------
(***************************************************************************)
(* The ring buffer is free of data races and first-in-first-out, for every *)
(* capacity and every type of item.                                        *)
(***************************************************************************)
EXTENDS LockFreeSPSCQueue, TLAPS

------------------------------------------------------------------------------
(* Indices modulo the capacity. *)

(* Division with remainder.                                                *)
LEMMA Division ==
  ASSUME NEW C \in Nat \ {0}, NEW a \in Nat
  PROVE  a = C * (a \div C) + (a % C) /\ a \div C \in Nat /\ a % C \in 0..(C - 1)
  OBVIOUS

(* A larger quotient is larger by a whole divisor.                         *)
LEMMA Multiple ==
  ASSUME NEW C \in Nat \ {0}, NEW p \in Int, NEW q \in Int, p >= q + 1
  PROVE  C * p >= C * q + C
  OBVIOUS

(* The remainder is the only one.                                          *)
LEMMA Remainder ==
  ASSUME NEW C \in Nat \ {0}, NEW a \in Nat, NEW q \in Nat, NEW r \in 0..(C - 1),
         a = C * q + r
  PROVE  a % C = r
  OBVIOUS

(* Two numbers less than C apart share an index only if they are equal:    *)
(* a full ring and an empty one are never confused.                        *)
LEMMA SameIndex ==
  ASSUME NEW C \in Nat \ {0}, NEW a \in Nat, NEW b \in Nat,
         b <= a, a - b < C, a % C = b % C
  PROVE  a = b
  <1>1. /\ a = C * (a \div C) + (a % C) /\ b = C * (b \div C) + (b % C)
        /\ a \div C \in Nat /\ b \div C \in Nat /\ a % C \in 0..(C - 1)
    BY Division
  <1>2. ~(a \div C >= b \div C + 1)
    BY <1>1, Multiple
  <1>3. ~(b \div C >= a \div C + 1)
    BY <1>1, Multiple
  <1>4. a \div C = b \div C
    BY <1>1, <1>2, <1>3
  <1> QED
    BY <1>1, <1>4

(* Wrapping early or late gives the same index.                            *)
LEMMA WrapSum ==
  ASSUME NEW C \in Nat \ {0}, NEW a \in Nat, NEW b \in Nat
  PROVE  ((a % C) + b) % C = (a + b) % C
  <1> DEFINE q == a \div C
             r == a % C
             p == (r + b) \div C
             s == (r + b) % C
  <1>1. a = C * q + r /\ q \in Nat /\ r \in 0..(C - 1)
    BY Division
  <1>2. r + b \in Nat
    BY <1>1
  <1>3. r + b = C * p + s /\ p \in Nat /\ s \in 0..(C - 1)
    BY <1>2, Division
  <1> HIDE DEF q, r, p, s
  <1>4. a + b = C * (q + p) + s /\ q + p \in Nat /\ a + b \in Nat
    BY <1>1, <1>3
  <1>5. (a + b) % C = s
    BY <1>3, <1>4, Remainder
  <1> QED
    BY <1>5 DEF r, s

(* The slot of the n-th item, counting from 0.                             *)
Slot(n) == n % Capacity

(* A slot number is an index of buffer_.                                   *)
LEMMA SlotIsIndex == \A n \in Nat : Slot(n) \in Index
  BY CapacityAssumption, Division DEF Slot, Index

(* Counting on from a slot.                                                *)
LEMMA SlotSum == \A m, n \in Nat : (Slot(m) + n) % Capacity = Slot(m + n)
  <1> TAKE m, n \in Nat
  <1>1. Capacity \in Nat \ {0}
    BY CapacityAssumption
  <1> QED
    BY <1>1, WrapSum DEF Slot

(* nextHead and nextTail (LockFreeSPSCQueue.h:38,68).                      *)
LEMMA SlotSuccessor == \A n \in Nat : NextIndex(Slot(n)) = Slot(n + 1)
  BY SlotSum DEF NextIndex

(* A whole turn of the ring.                                               *)
LEMMA SlotPeriod == \A n \in Nat : Slot(n + Capacity) = Slot(n)
  <1> TAKE n \in Nat
  <1> DEFINE q == n \div Capacity
             r == n % Capacity
  <1>1. Capacity \in Nat \ {0}
    BY CapacityAssumption
  <1>2. n = Capacity * q + r /\ q \in Nat /\ r \in 0..(Capacity - 1)
    BY <1>1, Division
  <1> HIDE DEF q, r
  <1>3. n + Capacity = Capacity * (q + 1) + r /\ q + 1 \in Nat /\ n + Capacity \in Nat
    BY <1>1, <1>2
  <1>4. (n + Capacity) % Capacity = r
    BY <1>1, <1>2, <1>3, Remainder
  <1> QED
    BY <1>4 DEF Slot, r

(* Slots less than a turn apart are different ones.                        *)
LEMMA SlotsDiffer == \A m, n \in Nat : m < n /\ n - m < Capacity => Slot(m) # Slot(n)
  <1> SUFFICES ASSUME NEW m \in Nat, NEW n \in Nat, m < n, n - m < Capacity, Slot(m) = Slot(n)
               PROVE  FALSE
    OBVIOUS
  <1>1. Capacity \in Nat \ {0}
    BY CapacityAssumption
  <1>2. n % Capacity = m % Capacity /\ m <= n
    BY DEF Slot
  <1>3. n = m
    BY <1>1, <1>2, SameIndex
  <1> QED
    BY <1>3

------------------------------------------------------------------------------
(* The inductive invariant. *)

pushes == Len(accepted)
pops   == Len(returned)

(* The indices follow the number of completed calls.                       *)
IndicesWrap ==
  /\ Len(headStores) = pushes + 1
  /\ Len(tailStores) = pops + 1
  /\ \A n \in 1..(pushes + 1) : headStores[n] = Slot(n - 1)
  /\ \A n \in 1..(pops + 1) : tailStores[n] = Slot(n - 1)

(* What each thread knows of the other: the consumer never passes the last *)
(* push it has acquired, the producer never the last pop by a full ring;   *)
(* past its test each knows that one more slot is its own.                 *)
Views ==
  /\ headSeen >= pops + 1
  /\ consumer \in {"read", "store"} => headSeen >= pops + 2
  /\ pushes + 1 - tailSeen <= Capacity - 1
  /\ producer \in {"write", "store"} => pushes + 1 - tailSeen <= Capacity - 2

(* The items, by the number of their push.                                 *)
Contents ==
  /\ \A i \in 1..pops : returned[i] = accepted[i]
  /\ producer = "store" => buffer[Slot(pushes)] = item
  /\ consumer = "store" => taken = accepted[pops + 1]
  /\ \A n \in (pops + 1)..pushes :
       n > pops + 1 \/ consumer # "store" => buffer[Slot(n - 1)] = accepted[n]

IInv == TypeOK /\ IndicesWrap /\ Views /\ Contents

(* What the actions need of it: the current indices, and how far apart the *)
(* two threads are.                                                        *)
LEMMA Positions ==
  ASSUME IInv
  PROVE  /\ pushes \in Nat /\ pops \in Nat
         /\ head = Slot(pushes) /\ tail = Slot(pops)
         /\ head \in Index /\ tail \in Index
         /\ pops <= pushes /\ pushes - pops <= Capacity - 1
         /\ consumer \in {"read", "store"} => pops < pushes
         /\ producer \in {"write", "store"} => pushes - pops <= Capacity - 2
  BY CapacityAssumption, SlotIsIndex
  DEF IInv, TypeOK, IndicesWrap, Views, pushes, pops, head, tail

(* A new queue.                                                            *)
LEMMA InitInv == Init => IInv
  <1> SUFFICES ASSUME Init PROVE IInv
    OBVIOUS
  <1>1. 0 \in Index /\ Slot(0) = 0
    BY CapacityAssumption DEF Index, Slot
  <1>2. TypeOK
    BY <1>1, ItemAssumption DEF Init, TypeOK
  <1>3. IndicesWrap
    BY <1>1 DEF Init, IndicesWrap, pushes, pops
  <1>4. Views /\ Contents
    BY CapacityAssumption DEF Init, Views, Contents, pushes, pops
  <1> QED
    BY <1>2, <1>3, <1>4 DEF IInv

------------------------------------------------------------------------------
(* One lemma per action. *)

(* push() is called; nothing shared changes.                               *)
LEMMA PushInv == ASSUME IInv, NEW i \in Item, Push(i) PROVE IInv'
  BY DEF IInv, TypeOK, IndicesWrap, Views, Contents, pushes, pops, Push, consumerState

(* The test for full is exact for the tail the producer has seen: it has   *)
(* one more free slot exactly when the next index is not that tail.        *)
LEMMA LoadTailInv == ASSUME IInv, LoadTail PROVE IInv'
  <1>1. /\ tailSeen \in Nat /\ tailSeen' \in Nat
        /\ tailSeen <= tailSeen' /\ 1 <= tailSeen' /\ tailSeen' <= pops + 1
        /\ tailStores[tailSeen'] = Slot(tailSeen' - 1)
    BY Positions DEF IInv, TypeOK, IndicesWrap, LoadTail
  <1>2. UNCHANGED <<headStores, tailStores, buffer, item, consumer, taken, headSeen, accepted,
                    returned, pushes, pops>>
    BY DEF LoadTail, consumerState, pushes, pops
  <1>3. producer' = "write" => NextIndex(Slot(pushes)) # Slot(tailSeen' - 1)
    BY <1>1, Positions DEF LoadTail, Full
  <1>4. pushes + 1 - tailSeen <= Capacity - 1
    BY DEF IInv, Views
  <1>5. producer' = "write" => pushes + 1 - tailSeen' <= Capacity - 2
    <2>1. SUFFICES ASSUME producer' = "write", ~(pushes + 1 - tailSeen' <= Capacity - 2)
                   PROVE  FALSE
      OBVIOUS
    <2>2. pushes + 1 = (tailSeen' - 1) + Capacity
      BY <1>1, <1>4, <2>1, CapacityAssumption, Positions
    <2>3. Slot(pushes + 1) = Slot(tailSeen' - 1)
      BY <1>1, <2>2, SlotPeriod
    <2> QED
      BY <1>3, <2>1, <2>3, SlotSuccessor, Positions
  <1>6. producer' \in {"load", "write"}
    BY DEF LoadTail
  <1>7. TypeOK'
    BY <1>1, <1>2, <1>6 DEF IInv, TypeOK, IndicesWrap
  <1>8. IndicesWrap' /\ Contents'
    BY <1>2, <1>6 DEF IInv, IndicesWrap, Contents
  <1>9. Views'
    BY <1>1, <1>2, <1>4, <1>5, <1>6, CapacityAssumption, Positions DEF IInv, Views
  <1> QED
    BY <1>7, <1>8, <1>9 DEF IInv

(* The slot the producer writes is none of the pending ones.               *)
LEMMA WriteSlotInv == ASSUME IInv, WriteSlot PROVE IInv'
  <1>1. UNCHANGED <<headStores, tailStores, item, tailSeen, consumer, taken, headSeen, accepted,
                    returned, pushes, pops>>
    BY DEF WriteSlot, consumerState, pushes, pops
  <1>2. /\ producer = "write" /\ producer' = "store"
        /\ buffer' = [buffer EXCEPT ![Slot(pushes)] = item]
    BY Positions DEF WriteSlot
  <1>3. buffer \in [Index -> Item] /\ item \in Item
    BY DEF IInv, TypeOK
  <1>4. \A n \in (pops + 1)..pushes : buffer'[Slot(n - 1)] = buffer[Slot(n - 1)]
    <2> TAKE n \in (pops + 1)..pushes
    <2>1. n - 1 \in Nat /\ n - 1 < pushes /\ pushes - (n - 1) < Capacity
      BY <1>2, CapacityAssumption, Positions
    <2>2. Slot(n - 1) # Slot(pushes) /\ Slot(n - 1) \in Index
      BY <2>1, SlotsDiffer, SlotIsIndex, Positions
    <2> QED
      BY <1>2, <1>3, <2>2
  <1>5. TypeOK'
    BY <1>1, <1>2, <1>3 DEF IInv, TypeOK
  <1>6. IndicesWrap' /\ Views'
    BY <1>1, <1>2 DEF IInv, IndicesWrap, Views
  <1>7. Contents'
    <2>1. buffer'[Slot(pushes)] = item
      BY <1>2, <1>3, Positions
    <2> QED
      BY <1>1, <1>2, <1>4, <2>1 DEF IInv, Contents
  <1> QED
    BY <1>5, <1>6, <1>7 DEF IInv

(* One more push: the indices, the views and the contents move by one.     *)
LEMMA StoreHeadInv == ASSUME IInv, StoreHead PROVE IInv'
  <1>1. UNCHANGED <<tailStores, buffer, item, tailSeen, consumer, taken, headSeen, returned, pops>>
    BY DEF StoreHead, consumerState, pops
  <1>2. /\ producer = "store" /\ producer' = "idle"
        /\ headStores' = Append(headStores, Slot(pushes + 1))
        /\ accepted' = Append(accepted, item)
    BY Positions, SlotSuccessor DEF StoreHead
  <1>3. /\ headStores \in Seq(Index) /\ accepted \in Seq(Item) /\ item \in Item
        /\ Len(headStores) = pushes + 1 /\ Slot(pushes + 1) \in Index
    BY Positions, SlotIsIndex DEF IInv, TypeOK, IndicesWrap
  <1>4. /\ headStores' \in Seq(Index) /\ Len(headStores') = pushes + 2
        /\ headStores'[pushes + 2] = Slot(pushes + 1)
        /\ \A n \in 1..(pushes + 1) : headStores'[n] = headStores[n]
    BY <1>2, <1>3, Positions
  <1>5. /\ accepted' \in Seq(Item) /\ pushes' = pushes + 1
        /\ accepted'[pushes + 1] = item
        /\ \A n \in 1..pushes : accepted'[n] = accepted[n]
    BY <1>2, <1>3, Positions DEF pushes
  <1>6. TypeOK'
    <2>1. headStores' # <<>> /\ headSeen \in 1..Len(headStores')
      <3>1. headSeen \in 1..(pushes + 1) /\ pushes \in Nat
        BY <1>3, Positions DEF IInv, TypeOK
      <3>2. Len(headStores') # 0 /\ headSeen \in 1..(pushes + 2)
        BY <1>4, <3>1
      <3> QED
        BY <1>4, <3>2
    <2> QED
      BY <1>1, <1>2, <1>4, <1>5, <2>1 DEF IInv, TypeOK
  <1>7. IndicesWrap'
    <2>1. \A n \in 1..(pushes + 2) : headStores'[n] = Slot(n - 1)
      <3> TAKE n \in 1..(pushes + 2)
      <3>1. CASE n = pushes + 2
        BY <1>4, <3>1, Positions
      <3>2. CASE n # pushes + 2
        <4>1. n \in 1..(pushes + 1)
          BY <3>2, Positions
        <4> QED
          BY <1>4, <4>1 DEF IInv, IndicesWrap
      <3> QED
        BY <3>1, <3>2
    <2>2. pushes' + 1 = pushes + 2
      BY <1>5, Positions
    <2> QED
      BY <1>1, <1>4, <2>1, <2>2 DEF IInv, IndicesWrap
  <1>8. Views'
    <2>1. tailSeen \in Nat /\ pushes + 1 - tailSeen <= Capacity - 2
      BY <1>2 DEF IInv, TypeOK, Views
    <2>2. pushes' + 1 - tailSeen <= Capacity - 1
      BY <1>5, <2>1, CapacityAssumption, Positions
    <2> QED
      BY <1>1, <1>2, <2>2 DEF IInv, Views
  <1>9. Contents'
    <2>1. \A i \in 1..pops : returned'[i] = accepted'[i]
      <3> TAKE i \in 1..pops
      <3>1. i \in 1..pushes
        BY Positions
      <3> QED
        BY <1>1, <1>5, <3>1 DEF IInv, Contents
    <2>2. consumer = "store" => taken = accepted'[pops + 1]
      <3>1. consumer = "store" => pops + 1 \in 1..pushes
        BY Positions
      <3> QED
        BY <1>5, <3>1 DEF IInv, Contents
    <2>3. ASSUME NEW n \in (pops + 1)..(pushes + 1), n > pops + 1 \/ consumer # "store"
          PROVE  buffer[Slot(n - 1)] = accepted'[n]
      <3>1. CASE n = pushes + 1
        <4>1. n - 1 = pushes
          BY <3>1, Positions
        <4> QED
          BY <1>2, <1>5, <3>1, <4>1 DEF IInv, Contents
      <3>2. CASE n # pushes + 1
        <4>1. n \in (pops + 1)..pushes /\ n \in 1..pushes
          BY <3>2, Positions
        <4> QED
          BY <1>5, <2>3, <4>1 DEF IInv, Contents
      <3> QED
        BY <3>1, <3>2
    <2> QED
      BY <1>1, <1>2, <1>5, <2>1, <2>2, <2>3 DEF Contents
  <1> QED
    BY <1>6, <1>7, <1>8, <1>9 DEF IInv

(* The test for empty is exact for the head the consumer has seen.         *)
LEMMA LoadHeadInv == ASSUME IInv, LoadHead PROVE IInv'
  <1>1. /\ headSeen \in Nat /\ headSeen' \in Nat
        /\ headSeen <= headSeen' /\ 1 <= headSeen' /\ headSeen' <= pushes + 1
        /\ headStores[headSeen'] = Slot(headSeen' - 1)
    BY Positions DEF IInv, TypeOK, IndicesWrap, LoadHead
  <1>2. UNCHANGED <<headStores, tailStores, buffer, producer, item, tailSeen, taken, accepted,
                    returned, pushes, pops>>
    BY DEF LoadHead, producerState, pushes, pops
  <1>3. consumer' \in {"load", "read"} /\ consumer = "load"
    BY DEF LoadHead
  <1>4. headSeen >= pops + 1
    BY DEF IInv, Views
  <1>5. consumer' = "read" => headSeen' >= pops + 2
    <2>1. consumer' = "read" => Slot(pops) # Slot(headSeen' - 1)
      BY <1>1, Positions DEF LoadHead
    <2>2. consumer' = "read" => pops # headSeen' - 1
      BY <2>1
    <2> QED
      BY <1>1, <1>4, <2>2, Positions
  <1>6. TypeOK'
    BY <1>1, <1>2, <1>3 DEF IInv, TypeOK, IndicesWrap
  <1>7. IndicesWrap' /\ Contents'
    BY <1>2, <1>3 DEF IInv, IndicesWrap, Contents
  <1>8. Views'
    BY <1>1, <1>2, <1>3, <1>4, <1>5, Positions DEF IInv, Views
  <1> QED
    BY <1>6, <1>7, <1>8 DEF IInv

(* The consumer takes the oldest pending item; whatever it leaves in the   *)
(* slot is not looked at again.                                            *)
LEMMA ReadSlotInv == ASSUME IInv, ReadSlot PROVE IInv'
  <1>1. UNCHANGED <<headStores, tailStores, producer, item, tailSeen, headSeen, accepted,
                    returned, pushes, pops>>
    BY DEF ReadSlot, producerState, pushes, pops
  <1>2. PICK left \in Item : buffer' = [buffer EXCEPT ![Slot(pops)] = left]
    BY Positions DEF ReadSlot
  <1>3. consumer = "read" /\ consumer' = "store" /\ taken' = buffer[Slot(pops)]
    BY Positions DEF ReadSlot
  <1>4. buffer \in [Index -> Item]
    BY DEF IInv, TypeOK
  <1>5. \A n \in Nat : pops < n /\ n - pops < Capacity => buffer'[Slot(n)] = buffer[Slot(n)]
    BY <1>2, <1>4, SlotsDiffer, SlotIsIndex, Positions
  <1>6. TypeOK'
    BY <1>1, <1>2, <1>3, <1>4, Positions DEF IInv, TypeOK
  <1>7. IndicesWrap' /\ Views'
    BY <1>1, <1>3 DEF IInv, IndicesWrap, Views
  <1>8. Contents'
    <2>1. taken' = accepted[pops + 1]
      <3>1. pops + 1 \in (pops + 1)..pushes /\ (pops + 1) - 1 = pops
        BY <1>3, Positions
      <3> QED
        BY <1>3, <3>1 DEF IInv, Contents
    <2>2. producer = "store" => buffer'[Slot(pushes)] = item
      <3>1. pops < pushes /\ pushes - pops < Capacity
        BY <1>3, CapacityAssumption, Positions
      <3> QED
        BY <1>5, <3>1, Positions DEF IInv, Contents
    <2>3. ASSUME NEW n \in (pops + 1)..pushes, n > pops + 1
          PROVE  buffer'[Slot(n - 1)] = accepted[n]
      <3>1. n - 1 \in Nat /\ pops < n - 1 /\ (n - 1) - pops < Capacity
        BY <2>3, CapacityAssumption, Positions
      <3> QED
        BY <1>5, <2>3, <3>1 DEF IInv, Contents
    <2> QED
      BY <1>1, <1>3, <2>1, <2>2, <2>3 DEF IInv, Contents
  <1> QED
    BY <1>6, <1>7, <1>8 DEF IInv

(* One more pop.                                                           *)
LEMMA StoreTailInv == ASSUME IInv, StoreTail PROVE IInv'
  <1>1. UNCHANGED <<headStores, buffer, producer, item, tailSeen, taken, headSeen, accepted, pushes>>
    BY DEF StoreTail, producerState, pushes
  <1>2. /\ consumer = "store" /\ consumer' = "load"
        /\ tailStores' = Append(tailStores, Slot(pops + 1))
        /\ returned' = Append(returned, taken)
    BY Positions, SlotSuccessor DEF StoreTail
  <1>3. /\ tailStores \in Seq(Index) /\ returned \in Seq(Item) /\ taken \in Item
        /\ Len(tailStores) = pops + 1 /\ Slot(pops + 1) \in Index
    BY Positions, SlotIsIndex DEF IInv, TypeOK, IndicesWrap
  <1>4. /\ tailStores' \in Seq(Index) /\ Len(tailStores') = pops + 2
        /\ tailStores'[pops + 2] = Slot(pops + 1)
        /\ \A n \in 1..(pops + 1) : tailStores'[n] = tailStores[n]
    BY <1>2, <1>3, Positions
  <1>5. /\ returned' \in Seq(Item) /\ pops' = pops + 1
        /\ returned'[pops + 1] = taken
        /\ \A n \in 1..pops : returned'[n] = returned[n]
    BY <1>2, <1>3, Positions DEF pops
  <1>6. TypeOK'
    <2>1. tailStores' # <<>> /\ tailSeen \in 1..Len(tailStores')
      <3>1. tailSeen \in 1..(pops + 1) /\ pops \in Nat
        BY <1>3, Positions DEF IInv, TypeOK
      <3>2. Len(tailStores') # 0 /\ tailSeen \in 1..(pops + 2)
        BY <1>4, <3>1
      <3> QED
        BY <1>4, <3>2
    <2> QED
      BY <1>1, <1>2, <1>4, <1>5, <2>1 DEF IInv, TypeOK
  <1>7. IndicesWrap'
    <2>1. \A n \in 1..(pops + 2) : tailStores'[n] = Slot(n - 1)
      <3> TAKE n \in 1..(pops + 2)
      <3>1. CASE n = pops + 2
        BY <1>4, <3>1, Positions
      <3>2. CASE n # pops + 2
        <4>1. n \in 1..(pops + 1)
          BY <3>2, Positions
        <4> QED
          BY <1>4, <4>1 DEF IInv, IndicesWrap
      <3> QED
        BY <3>1, <3>2
    <2>2. pops' + 1 = pops + 2
      BY <1>5, Positions
    <2> QED
      BY <1>1, <1>4, <2>1, <2>2 DEF IInv, IndicesWrap
  <1>8. Views'
    <2>1. headSeen \in Nat /\ headSeen >= pops + 2
      BY <1>2 DEF IInv, TypeOK, Views
    <2>2. headSeen >= pops' + 1
      BY <1>5, <2>1, Positions
    <2> QED
      BY <1>1, <1>2, <2>2 DEF IInv, Views
  <1>9. Contents'
    <2>1. \A i \in 1..(pops + 1) : returned'[i] = accepted[i]
      <3> TAKE i \in 1..(pops + 1)
      <3>1. CASE i = pops + 1
        BY <1>2, <1>5, <3>1 DEF IInv, Contents
      <3>2. CASE i # pops + 1
        <4>1. i \in 1..pops
          BY <3>2, Positions
        <4> QED
          BY <1>5, <4>1 DEF IInv, Contents
      <3> QED
        BY <3>1, <3>2
    <2>2. ASSUME NEW n \in (pops + 2)..pushes
          PROVE  buffer[Slot(n - 1)] = accepted[n]
      <3>1. n \in (pops + 1)..pushes /\ n > pops + 1
        BY Positions
      <3> QED
        BY <3>1 DEF IInv, Contents
    <2>3. pops' + 1 = pops + 2
      BY <1>5, Positions
    <2> QED
      BY <1>1, <1>2, <1>5, <2>1, <2>2, <2>3 DEF IInv, Contents
  <1> QED
    BY <1>6, <1>7, <1>8, <1>9 DEF IInv

(* Every access of either thread keeps the invariant.                      *)
LEMMA NextInv == IInv /\ [Next]_vars => IInv'
  <1> SUFFICES ASSUME IInv, [Next]_vars PROVE IInv'
    OBVIOUS
  <1>1. CASE UNCHANGED vars
    BY <1>1 DEF vars, IInv, TypeOK, IndicesWrap, Views, Contents, pushes, pops
  <1>2. ASSUME NEW i \in Item, Push(i) PROVE IInv'
    BY <1>2, PushInv
  <1>3. CASE LoadTail
    BY <1>3, LoadTailInv
  <1>4. CASE WriteSlot
    BY <1>4, WriteSlotInv
  <1>5. CASE StoreHead
    BY <1>5, StoreHeadInv
  <1>6. CASE LoadHead
    BY <1>6, LoadHeadInv
  <1>7. CASE ReadSlot
    BY <1>7, ReadSlotInv
  <1>8. CASE StoreTail
    BY <1>8, StoreTailInv
  <1> QED
    BY <1>1, <1>2, <1>3, <1>4, <1>5, <1>6, <1>7, <1>8 DEF Next, Producer, Consumer

------------------------------------------------------------------------------
(* The theorems. *)

(* The inductive invariant holds for every capacity.                       *)
THEOREM Invariance == Spec => []IInv
  BY InitInv, NextInv, PTL DEF Spec

(* Indices, views and slots of the ring buffer are well typed.             *)
THEOREM TypeCorrect == Spec => []TypeOK
  <1>1. IInv => TypeOK
    BY DEF IInv
  <1> QED
    BY <1>1, Invariance, PTL

(* push() and pop() never race on a slot of buffer_: the acquire loads and *)
(* release stores order every pair of accesses.                            *)
THEOREM RaceFree == Spec => []NoDataRace
  <1>1. IInv => NoDataRace
    <2> SUFFICES ASSUME IInv PROVE NoDataRace
      OBVIOUS
    <2>1. ASSUME producer = "write", NEW r \in 1..Reads, tailStores[r] = head, ~(r < tailSeen)
          PROVE  FALSE
      <3>1. r \in 1..(pops + 1) /\ tailSeen \in Nat /\ (r = pops + 1 => pops < pushes)
        BY Positions DEF IInv, TypeOK, IndicesWrap, Reads
      <3>2. Slot(r - 1) = Slot(pushes)
        BY <2>1, <3>1, Positions DEF IInv, IndicesWrap
      <3>3. pushes + 1 - tailSeen <= Capacity - 2
        BY <2>1 DEF IInv, Views
      <3>4. r - 1 \in Nat /\ r - 1 < pushes /\ pushes - (r - 1) < Capacity
        BY <2>1, <3>1, <3>3, CapacityAssumption, Positions
      <3> QED
        BY <3>2, <3>4, SlotsDiffer, Positions
    <2>2. ASSUME consumer = "read", NEW w \in 1..Writes, headStores[w] = tail, ~(w < headSeen)
          PROVE  FALSE
      <3>1. /\ w \in 1..(pushes + 1) /\ headSeen \in Nat
            /\ w = pushes + 1 => pushes - pops <= Capacity - 2
        BY Positions DEF IInv, TypeOK, IndicesWrap, Writes
      <3>2. Slot(w - 1) = Slot(pops)
        BY <2>2, <3>1, Positions DEF IInv, IndicesWrap
      <3>3. headSeen >= pops + 2
        BY <2>2 DEF IInv, Views
      <3>4. w - 1 \in Nat /\ pops < w - 1 /\ (w - 1) - pops < Capacity
        BY <2>2, <3>1, <3>3, CapacityAssumption, Positions
      <3> QED
        BY <3>2, <3>4, SlotsDiffer, Positions
    <2> QED
      BY <2>1, <2>2 DEF NoDataRace
  <1> QED
    BY <1>1, Invariance, PTL

(* What pop() returns is what push() accepted, in order, and the rest is   *)
(* in the ring, which never holds more than Capacity - 1 items.            *)
THEOREM FirstInFirstOut == Spec => []RingHoldsPending
  <1>1. IInv => RingHoldsPending
    <2> SUFFICES ASSUME IInv PROVE RingHoldsPending
      OBVIOUS
    <2>1. pending = pushes - pops
      BY DEF pending, pushes, pops
    <2>2. pending \in 0..(Capacity - 1) /\ (consumer = "store" => pending > 0)
      BY <2>1, CapacityAssumption, Positions
    <2>3. ASSUME NEW i \in 1..pending, i > 1 \/ consumer # "store"
          PROVE  buffer[(tail + i - 1) % Capacity] = accepted[pops + i]
      <3>1. i \in Nat /\ i - 1 \in Nat /\ tail \in Nat /\ tail + i - 1 = tail + (i - 1)
        BY <2>2, Positions DEF Index
      <3>2. (tail + i - 1) % Capacity = Slot(pops + (i - 1))
        BY <3>1, SlotSum, Positions
      <3>3. /\ pops + i \in (pops + 1)..pushes /\ (pops + i) - 1 = pops + (i - 1)
            /\ i > 1 => pops + i > pops + 1
        BY <2>1, <2>2, <3>1, Positions
      <3> QED
        BY <2>3, <3>2, <3>3 DEF IInv, Contents
    <2>4. /\ \A i \in 1..pops : returned[i] = accepted[i]
          /\ consumer = "store" => taken = accepted[pops + 1]
      BY DEF IInv, Contents
    <2> QED
      BY <2>2, <2>3, <2>4 DEF RingHoldsPending, pops
  <1> QED
    BY <1>1, Invariance, PTL
==============================================================================
