------------------------- MODULE ThreadSafeQueueProofs -------------------------
(***************************************************************************)
(* No wakeup of the thread-safe queue is lost, for any number of threads.  *)
(***************************************************************************)
EXTENDS ThreadSafeQueue, FiniteSetTheorems, TLAPS

Typed ==
  /\ queue \in Seq(Nat)
  /\ pushed \in Nat
  /\ producer \in [Producers -> {"idle", "notify"}]
  /\ consumer \in [Consumers -> {"pop", "asleep", "exited"}]

IInv == Typed /\ EveryItemHasATaker

(* The sets that are counted are finite.                                   *)
LEMMA Counts ==
  /\ IsFiniteSet(Notifying) /\ Cardinality(Notifying) \in Nat
  /\ IsFiniteSet(Awake) /\ Cardinality(Awake) \in Nat
  <1>1. IsFiniteSet(Notifying) /\ IsFiniteSet(Awake)
    BY ThreadAssumption, FS_Subset DEF Notifying, Awake
  <1> QED
    BY <1>1, FS_CardinalityType

(* The same after a step.                                                  *)
LEMMA CountsNext ==
  /\ IsFiniteSet(Notifying') /\ Cardinality(Notifying') \in Nat
  /\ IsFiniteSet(Awake') /\ Cardinality(Awake') \in Nat
  <1>1. IsFiniteSet(Notifying') /\ IsFiniteSet(Awake')
    BY ThreadAssumption, FS_Subset DEF Notifying, Awake
  <1> QED
    BY <1>1, FS_CardinalityType

(* One more consumer awake.                                                *)
LEMMA OneMoreAwake ==
  ASSUME Typed, NEW c \in Consumers, consumer[c] # "pop",
         consumer' = [consumer EXCEPT ![c] = "pop"]
  PROVE  Cardinality(Awake') = Cardinality(Awake) + 1
  <1>1. Awake' = Awake \cup {c} /\ c \notin Awake
    BY DEF Typed, Awake
  <1> QED
    BY <1>1, Counts, FS_AddElement

(* One more notify to come: push() has let go of the mutex.                *)
LEMMA OneMoreNotify ==
  ASSUME Typed, NEW p \in Producers, producer[p] = "idle",
         producer' = [producer EXCEPT ![p] = "notify"]
  PROVE  Cardinality(Notifying') = Cardinality(Notifying) + 1
  <1>1. Notifying' = Notifying \cup {p} /\ p \notin Notifying
    BY DEF Typed, Notifying
  <1> QED
    BY <1>1, Counts, FS_AddElement

(* One notify less to come: notify_one() has returned.                     *)
LEMMA OneNotifyLess ==
  ASSUME Typed, NEW p \in Producers, producer[p] = "notify",
         producer' = [producer EXCEPT ![p] = "idle"]
  PROVE  Cardinality(Notifying') = Cardinality(Notifying) - 1
  <1>1. Notifying' = Notifying \ {p} /\ p \in Notifying
    BY DEF Typed, Notifying
  <1> QED
    BY <1>1, Counts, FS_RemoveElement

------------------------------------------------------------------------------
(* A new queue: nothing is queued and nobody sleeps.                       *)
LEMMA InitInv == Init => IInv
  BY BoundAssumption DEF Init, IInv, Typed, EveryItemHasATaker, Asleep

(* No step leaves the types.                                               *)
LEMMA NextTyped == Typed /\ [Next]_vars => Typed'
  <1> SUFFICES ASSUME Typed, [Next]_vars PROVE Typed'
    OBVIOUS
  <1> USE DEF Typed
  <1>1. ASSUME NEW p \in Producers, Push(p) PROVE Typed'
    BY <1>1 DEF Push
  <1>2. ASSUME NEW p \in Producers, NotifyOne(p) PROVE Typed'
    BY <1>2 DEF NotifyOne, Asleep
  <1>3. ASSUME NEW c \in Consumers, PopTakes(c) PROVE Typed'
    BY <1>3 DEF PopTakes
  <1>4. ASSUME NEW c \in Consumers, PopSleeps(c) \/ PopEnds(c) \/ SpuriousWakeup(c) PROVE Typed'
    BY <1>4 DEF PopSleeps, PopEnds, SpuriousWakeup
  <1>5. CASE Stop
    BY <1>5 DEF Stop
  <1>6. CASE StopNotifyAll
    BY <1>6 DEF StopNotifyAll
  <1>7. CASE Restart
    BY <1>7 DEF Restart
  <1>8. CASE UNCHANGED vars
    BY <1>8 DEF vars
  <1> QED
    BY <1>1, <1>2, <1>3, <1>4, <1>5, <1>6, <1>7, <1>8 DEF Next, Pop

(* A push adds an item and a notify; a notify that finds a sleeper becomes *)
(* a consumer awake; a consumer goes to sleep, or ends, only when nothing  *)
(* is queued.                                                              *)
LEMMA NextInv == IInv /\ [Next]_vars => IInv'
  <1> SUFFICES ASSUME IInv, [Next]_vars PROVE EveryItemHasATaker'
    BY NextTyped DEF IInv
  <1> USE DEF IInv
  <1>0. Len(queue) \in Nat
    BY DEF Typed
  <1>1. ASSUME NEW p \in Producers, Push(p) PROVE EveryItemHasATaker'
    <2>1. Len(queue') = Len(queue) + 1 /\ Awake' = Awake /\ Asleep' = Asleep
      BY <1>1 DEF Push, Typed, Awake, Asleep
    <2>2. Cardinality(Notifying') = Cardinality(Notifying) + 1
      BY <1>1, OneMoreNotify DEF Push
    <2> QED
      BY <1>0, <2>1, <2>2, Counts DEF EveryItemHasATaker
  <1>2. ASSUME NEW p \in Producers, NotifyOne(p) PROVE EveryItemHasATaker'
    <2>1. Cardinality(Notifying') = Cardinality(Notifying) - 1 /\ queue' = queue
      BY <1>2, OneNotifyLess DEF NotifyOne
    <2>2. CASE Asleep = {}
      <3>1. Asleep' = {}
        BY <1>2, <2>2 DEF NotifyOne, Asleep
      <3> QED
        BY <3>1 DEF EveryItemHasATaker
    <2>3. CASE Asleep # {}
      <3>1. PICK c \in Asleep : consumer' = [consumer EXCEPT ![c] = "pop"]
        BY <1>2, <2>3 DEF NotifyOne
      <3>2. Cardinality(Awake') = Cardinality(Awake) + 1
        BY <3>1, OneMoreAwake DEF Asleep
      <3> QED
        BY <1>0, <2>1, <2>3, <3>2, Counts DEF EveryItemHasATaker
    <2> QED
      BY <2>2, <2>3
  <1>3. ASSUME NEW c \in Consumers, PopTakes(c) PROVE EveryItemHasATaker'
    <2>1. /\ Len(queue') = Len(queue) - 1
          /\ Awake' = Awake /\ Asleep' = Asleep /\ Notifying' = Notifying
      BY <1>3 DEF PopTakes, Typed, Awake, Asleep, Notifying
    <2> QED
      BY <1>0, <2>1, Counts DEF EveryItemHasATaker
  <1>4. ASSUME NEW c \in Consumers, PopSleeps(c) \/ PopEnds(c) PROVE EveryItemHasATaker'
    <2>1. Len(queue') = 0
      BY <1>4 DEF PopSleeps, PopEnds
    <2> QED
      BY <2>1, CountsNext DEF EveryItemHasATaker
  <1>5. ASSUME NEW c \in Consumers, SpuriousWakeup(c) PROVE EveryItemHasATaker'
    <2>1. Cardinality(Awake') = Cardinality(Awake) + 1
      BY <1>5, OneMoreAwake DEF SpuriousWakeup
    <2>2. queue' = queue /\ Notifying' = Notifying /\ Asleep # {}
      BY <1>5 DEF SpuriousWakeup, Notifying, Asleep
    <2> QED
      BY <1>0, <2>1, <2>2, Counts DEF EveryItemHasATaker
  <1>6. CASE StopNotifyAll \/ Restart
    <2>1. Asleep' = {}
      BY <1>6 DEF StopNotifyAll, Restart, Asleep
    <2> QED
      BY <2>1 DEF EveryItemHasATaker
  <1>7. CASE Stop \/ UNCHANGED vars
    BY <1>7 DEF Stop, vars, EveryItemHasATaker, Awake, Asleep, Notifying
  <1> QED
    BY <1>1, <1>2, <1>3, <1>4, <1>5, <1>6, <1>7 DEF Next, Pop

(* push() and pop() never strand an item: for any number of threads, every *)
(* queued item has a consumer awake or a notify on its way while others    *)
(* sleep.                                                                  *)
THEOREM NoLostWakeup == Spec => []EveryItemHasATaker
  <1>1. IInv => EveryItemHasATaker
    BY DEF IInv
  <1> QED
    BY <1>1, InitInv, NextInv, PTL DEF Spec
==============================================================================
