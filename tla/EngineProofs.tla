----------------------------- MODULE EngineProofs -----------------------------
(***************************************************************************)
(* The engine handles one ordered stream of commands, numbers them without *)
(* a gap over all its lives, and stop() drains what was pushed before it;  *)
(* its book is never crossed and its sink is told the prices of the book:  *)
(* for any orders and any number of commands.                              *)
(***************************************************************************)
EXTENDS Engine, ReplayProofs

------------------------------------------------------------------------------
(* What is left of a sequence. *)

(* What is popped is the first of it, and leaves the rest.                 *)
LEMMA RestHead ==
  ASSUME NEW S, NEW s \in Seq(S), NEW k \in 0..Len(s), SubSeq(s, k + 1, Len(s)) # <<>>
  PROVE  /\ k < Len(s)
         /\ Head(SubSeq(s, k + 1, Len(s))) = s[k + 1]
         /\ Tail(SubSeq(s, k + 1, Len(s))) = SubSeq(s, k + 2, Len(s))
  OBVIOUS

(* Nothing is left when all has been taken.                                *)
LEMMA RestEmpty ==
  ASSUME NEW S, NEW s \in Seq(S), NEW k \in 0..Len(s), SubSeq(s, k + 1, Len(s)) = <<>>
  PROVE  k = Len(s)
  OBVIOUS

------------------------------------------------------------------------------
(* The invariant. *)

Event == {EventOf(c, n) : c \in Command, n \in Nat}

Typed ==
  /\ pushed \in Seq(Command) /\ journal \in Seq(Event)
  /\ taken \in 0..Len(pushed) /\ due \in 0..Len(pushed) /\ born \in Nat
  /\ ctl \in {"idle", "joining"}
  /\ thread \in {"none", "pop", "append", "apply", "publish", "exited"}

(* The commands of this engine that have been journaled.                   *)
Logged == IF thread = "append" THEN taken - 1 ELSE taken

Stream ==
  /\ queue = SubSeq(pushed, taken + 1, Len(pushed))
  /\ thread = "append" => taken > 0 /\ cmd = pushed[taken]
  /\ Len(journal) = born + Logged
  /\ \A i \in 1..Logged : journal[born + i] = EventOf(pushed[i], born + i)

(* There is a matching thread exactly while the engine runs or stop() is   *)
(* waiting for it, and it ends only for a stop().                          *)
Control ==
  /\ ctl = "joining" => ~running
  /\ running => ~stopping
  /\ thread # "none" <=> running \/ ctl = "joining"
  /\ thread = "exited" => ctl = "joining"
  /\ outbox # <<>> => thread = "publish"

(* Whoever waits for nothing has been served.                              *)
Drained == ctl = "idle" \/ thread = "exited" => taken >= due

IInv == Typed /\ Stream /\ SequenceContiguous /\ Control /\ Drained

(* An engine that has just been built.                                     *)
LEMMA InitInv == Init => IInv
  <1> SUFFICES ASSUME Init PROVE IInv
    OBVIOUS
  <1>1. Typed
    BY DEF Init, Typed
  <1>2. Stream
    BY DEF Init, Stream, Logged
  <1>3. SequenceContiguous
    BY DEF Init, SequenceContiguous
  <1>4. Control /\ Drained
    BY DEF Init, Control, Drained
  <1> QED
    BY <1>1, <1>2, <1>3, <1>4 DEF IInv

(* Most steps leave the stream alone.                                      *)
LEMMA StreamUnchanged ==
  ASSUME IInv, UNCHANGED <<queue, pushed, journal, nextSeq, taken, born>>,
         due' \in 0..Len(pushed), ctl' \in {"idle", "joining"},
         thread' \in {"none", "pop", "append", "apply", "publish", "exited"},
         \/ thread \in {"append"} /\ thread' = thread /\ cmd' = cmd
         \/ thread \notin {"append"} /\ thread' \notin {"append"}
  PROVE  Typed' /\ Stream' /\ SequenceContiguous'
  <1> USE DEF IInv
  <1>1. Typed'
    BY DEF Typed
  <1>2. Logged' = Logged
    BY DEF Logged
  <1>3. Stream'
    BY <1>2 DEF Stream
  <1>4. SequenceContiguous'
    BY DEF SequenceContiguous
  <1> QED
    BY <1>1, <1>3, <1>4

(* submitOrder and cancelOrder.                                            *)
LEMMA PushInv == ASSUME IInv, NEW c \in Command, Push(c) PROVE IInv'
  <1> USE DEF IInv
  <1>0. /\ pushed' \in Seq(Command) /\ Len(pushed') = Len(pushed) + 1
        /\ \A i \in 1..Len(pushed) : pushed'[i] = pushed[i]
    BY DEF Push, Typed
  <1>1. Typed'
    BY <1>0 DEF Push, control, Typed
  <1>2. Stream'
    <2>1. queue' = SubSeq(pushed', taken + 1, Len(pushed'))
      <3>1. /\ pushed \in Seq(Command) /\ taken \in 0..Len(pushed) /\ pushed' = Append(pushed, c)
            /\ queue = SubSeq(pushed, taken + 1, Len(pushed)) /\ queue' = Append(queue, c)
        BY DEF Push, Typed, Stream
      <3>2. PICK k \in 0..Len(pushed) : k = taken
        BY <3>1
      <3>3. SubSeq(Append(pushed, c), k + 1, Len(pushed) + 1)
              = Append(SubSeq(pushed, k + 1, Len(pushed)), c)
        BY <3>1, RestAppend
      <3> QED
        BY <1>0, <3>1, <3>2, <3>3
    <2>2. Logged' = Logged /\ Logged <= Len(pushed) /\ Logged \in Int
      BY DEF Push, Logged, Typed
    <2>3. (thread = "append" => taken > 0 /\ cmd = pushed[taken])'
      BY <1>0 DEF Push, Stream, Typed
    <2>4. (\A i \in 1..Logged : journal[born + i] = EventOf(pushed[i], born + i))'
      BY <1>0, <2>2 DEF Push, Stream, Typed
    <2> QED
      BY <2>1, <2>2, <2>3, <2>4 DEF Push, Stream
  <1>3. SequenceContiguous'
    BY DEF Push, SequenceContiguous
  <1>4. Control' /\ Drained'
    BY DEF Push, control, Control, Drained
  <1> QED
    BY <1>1, <1>2, <1>3, <1>4

(* start() and stop().                                                     *)
LEMMA ControllerInv == ASSUME IInv, Start \/ Stop \/ StopReturns PROVE IInv'
  <1> USE DEF IInv
  <1>1. CASE Start
    <2>1. thread = "none"
      BY <1>1 DEF Start, Control
    <2>2. Typed' /\ Stream' /\ SequenceContiguous'
      BY <1>1, <2>1, StreamUnchanged DEF Start, history, Typed
    <2>3. Control'
      BY <1>1, <2>1 DEF Start, Control
    <2>4. Drained'
      BY <1>1 DEF Start, history, Drained
    <2> QED
      BY <2>2, <2>3, <2>4
  <1>2. CASE Stop
    <2>1. Typed' /\ Stream' /\ SequenceContiguous'
      <3>1. Len(pushed) \in 0..Len(pushed)
        BY DEF Typed
      <3> QED
        BY <1>2, <3>1, StreamUnchanged DEF Stop, Typed
    <2>2. thread # "none" /\ thread # "exited"
      BY <1>2 DEF Stop, Control
    <2>3. Control'
      BY <1>2, <2>2 DEF Stop, Control
    <2>4. Drained'
      BY <1>2, <2>2 DEF Stop, Drained
    <2> QED
      BY <2>1, <2>3, <2>4
  <1>3. CASE StopReturns
    <2>1. Typed' /\ Stream' /\ SequenceContiguous'
      BY <1>3, StreamUnchanged DEF StopReturns, history, Typed
    <2>2. Control'
      BY <1>3 DEF StopReturns, Control
    <2>3. Drained'
      BY <1>3 DEF StopReturns, history, Drained
    <2> QED
      BY <2>1, <2>2, <2>3
  <1> QED
    BY <1>1, <1>2, <1>3

(* A new engine takes over the journal and numbers on.                     *)
LEMMA RecoverInv == ASSUME IInv, Recover PROVE IInv'
  <1> USE DEF IInv
  <1>0. thread = "none" /\ thread' = "none"
    BY DEF Recover, Control
  <1>1. Typed'
    BY <1>0 DEF Recover, Typed
  <1>2. Stream'
    BY <1>0 DEF Recover, Stream, Logged, Typed
  <1>3. SequenceContiguous'
    <2>1. \A k \in 1..Len(journal) : journal[k].seq = k
      BY DEF SequenceContiguous, Typed
    <2>2. MaxSeq(journal) = Len(journal)
      BY <2>1, MaxSeqIsLength DEF Typed
    <2>3. journal' = journal /\ nextSeq' = MaxSeq(journal) + 1
      BY DEF Recover, FirstSeq
    <2>4. nextSeq' = Len(journal') + 1
      BY <2>2, <2>3
    <2> QED
      BY <2>3, <2>4 DEF SequenceContiguous
  <1>4. Control'
    BY <1>0 DEF Recover, Control
  <1>5. Drained'
    BY DEF Recover, Drained
  <1> QED
    BY <1>1, <1>2, <1>3, <1>4, <1>5

(* pop() returns the oldest command.                                       *)
LEMMA PopInv == ASSUME IInv, Pop PROVE IInv'
  <1> USE DEF IInv
  <1>0. /\ taken < Len(pushed)
        /\ cmd' = pushed[taken + 1]
        /\ queue' = SubSeq(pushed, taken + 2, Len(pushed))
    BY RestHead DEF Pop, Stream, Typed
  <1>1. Typed'
    BY <1>0 DEF Pop, control, Typed
  <1>2. Stream'
    <2>1. Logged' = Logged /\ Logged = taken
      BY DEF Pop, Logged, Typed
    <2>2. queue' = SubSeq(pushed', taken' + 1, Len(pushed'))
      <3>1. taken' + 1 = taken + 2
        BY DEF Pop, Typed
      <3>2. pushed' = pushed
        BY DEF Pop
      <3> QED
        BY <1>0, <3>1, <3>2
    <2>3. taken' > 0 /\ cmd' = pushed'[taken']
      BY <1>0 DEF Pop, Typed
    <2>4. (\A k \in 1..Logged : journal[born + k] = EventOf(pushed[k], born + k))'
      BY <2>1 DEF Pop, Stream
    <2> QED
      BY <2>1, <2>2, <2>3, <2>4 DEF Pop, Stream
  <1>3. SequenceContiguous'
    BY DEF Pop, SequenceContiguous
  <1>4. Control'
    BY DEF Pop, control, Control
  <1>5. Drained'
    BY DEF Pop, control, Drained, Typed
  <1> QED
    BY <1>1, <1>2, <1>3, <1>4, <1>5

(* The matching thread ends when stop() has been called and nothing is     *)
(* left: all that was pushed before has been taken.                        *)
LEMMA ExitInv == ASSUME IInv, Exit PROVE IInv'
  <1> USE DEF IInv
  <1>1. Typed' /\ Stream' /\ SequenceContiguous'
    BY StreamUnchanged DEF Exit, control, history, Typed
  <1>2. ctl = "joining" /\ ~running
    BY DEF Exit, Control
  <1>3. Control'
    BY <1>2 DEF Exit, control, Control
  <1>4. taken = Len(pushed)
    BY RestEmpty DEF Exit, Stream, Typed
  <1>5. Drained'
    BY <1>4 DEF Exit, history, Drained, Typed
  <1> QED
    BY <1>1, <1>3, <1>5

(* Write-ahead: the event gets the next number.                            *)
LEMMA AppendEventInv == ASSUME IInv, AppendEvent PROVE IInv'
  <1> USE DEF IInv
  <1>0. /\ taken > 0 /\ cmd = pushed[taken] /\ cmd \in Command
        /\ nextSeq = Len(journal) + 1 /\ Len(journal) = born + (taken - 1)
    BY DEF AppendEvent, Stream, Logged, SequenceContiguous, Typed
  <1>1. PICK ev : ev = EventOf(cmd, nextSeq) /\ ev \in Event
    <2>1. nextSeq \in Nat
      BY <1>0 DEF Typed
    <2>2. EventOf(cmd, nextSeq) \in Event
      BY <1>0, <2>1 DEF Event
    <2> QED
      BY <2>2
  <1>2. /\ journal' \in Seq(Event) /\ Len(journal') = Len(journal) + 1
        /\ \A k \in 1..Len(journal) : journal'[k] = journal[k]
        /\ journal'[Len(journal) + 1] = ev
    BY <1>1 DEF AppendEvent, Typed
  <1>3. Typed'
    BY <1>2 DEF AppendEvent, control, history, Typed
  <1>4. Stream'
    <2>1. Logged = taken - 1 /\ Logged' = taken
      BY DEF AppendEvent, history, Logged
    <2>2. (Len(journal) = born + Logged)'
      <3>1. born' = born
        BY DEF AppendEvent, history
      <3>2. born + (taken - 1) + 1 = born + taken
        BY DEF Typed
      <3> QED
        BY <1>0, <1>2, <2>1, <3>1, <3>2
    <2>3. (\A k \in 1..Logged : journal[born + k] = EventOf(pushed[k], born + k))'
      <3> SUFFICES ASSUME NEW k \in 1..taken
                   PROVE  journal'[born + k] = EventOf(pushed[k], born + k)
        BY <2>1 DEF AppendEvent, history
      <3>1. CASE k = taken
        <4>1. born + k = nextSeq /\ born + k = Len(journal) + 1 /\ pushed[k] = cmd
          BY <1>0, <3>1 DEF Typed
        <4> QED
          BY <1>1, <1>2, <4>1
      <3>2. CASE k # taken
        <4>1. k \in 1..(taken - 1) /\ born + k \in 1..Len(journal)
          BY <1>0, <3>2 DEF Typed
        <4> QED
          BY <1>2, <2>1, <4>1 DEF Stream
      <3> QED
        BY <3>1, <3>2
    <2> QED
      BY <2>2, <2>3 DEF AppendEvent, history, Stream
  <1>5. SequenceContiguous'
    <2>1. ev.seq = nextSeq
      BY <1>1, EventSeq
    <2>2. nextSeq' = Len(journal') + 1
      BY <1>0, <1>2 DEF AppendEvent, Typed
    <2>3. ASSUME NEW k \in DOMAIN journal' PROVE journal'[k].seq = k
      <3>1. k \in 1..Len(journal) \/ k = Len(journal) + 1
        BY <1>2 DEF Typed
      <3> QED
        BY <1>0, <1>2, <2>1, <3>1 DEF SequenceContiguous, Typed
    <2> QED
      BY <2>2, <2>3 DEF SequenceContiguous
  <1>6. Control' /\ Drained'
    BY DEF AppendEvent, control, history, Control, Drained
  <1> QED
    BY <1>3, <1>4, <1>5, <1>6

(* Applying and publishing a command: the stream has moved on already.     *)
LEMMA ApplyInv ==
  ASSUME IInv, ApplyThrows \/ ApplySubmit \/ ApplyCancel \/ PublishTrade \/ PublishTopOfBook
  PROVE  IInv'
  <1> USE DEF IInv
  <1>1. /\ UNCHANGED <<queue, pushed, journal, nextSeq, taken, born, due, running, stopping, ctl>>
        /\ thread \in {"apply", "publish"} /\ thread' \in {"apply", "publish", "pop"}
    BY DEF ApplyThrows, ApplySubmit, ApplyCancel, PublishTrade, PublishTopOfBook, control, history
  <1>2. Typed' /\ Stream' /\ SequenceContiguous'
    BY <1>1, StreamUnchanged DEF Typed
  <1>3. outbox' # <<>> => thread' = "publish"
    BY DEF ApplyThrows, ApplySubmit, ApplyCancel, PublishTrade, PublishTopOfBook, Control
  <1>4. Control'
    BY <1>1, <1>3 DEF Control
  <1>5. Drained'
    BY <1>1 DEF Drained
  <1> QED
    BY <1>2, <1>4, <1>5

(* Every step keeps the invariant.                                         *)
LEMMA NextInv == ASSUME IInv, [Next]_vars PROVE IInv'
  <1>1. CASE \E c \in Command : Push(c)
    BY <1>1, PushInv
  <1>2. CASE Start \/ Stop \/ StopReturns
    BY <1>2, ControllerInv
  <1>3. CASE Recover
    BY <1>3, RecoverInv
  <1>4. CASE MatchingThread
    BY <1>4, PopInv, ExitInv, AppendEventInv, ApplyInv DEF MatchingThread
  <1>5. CASE UNCHANGED vars
    <2>1. Typed' /\ Logged' = Logged
      BY <1>5 DEF vars, IInv, Typed, Logged
    <2>2. Stream'
      BY <1>5, <2>1 DEF vars, IInv, Stream
    <2>3. SequenceContiguous' /\ Control' /\ Drained'
      BY <1>5 DEF vars, IInv, SequenceContiguous, Control, Drained
    <2> QED
      BY <2>1, <2>2, <2>3 DEF IInv
  <1> QED
    BY <1>1, <1>2, <1>3, <1>4, <1>5 DEF Next

------------------------------------------------------------------------------
(* The second invariant: what the book holds.  It rests on the first. *)

Flags ==
  /\ running \in BOOLEAN /\ stopping \in BOOLEAN /\ dead \in BOOLEAN
  /\ cmd \in Command \cup {NoCommand}
  /\ Len(journal) + Len(queue) + (IF thread = "append" THEN 1 ELSE 0) <= MaxCommands

(* The command in hand is the last one journaled.                          *)
InHand ==
  thread = "apply" =>
    /\ cmd \in Command
    /\ journal # <<>>
    /\ journal[Len(journal)] = EventOf(cmd, Len(journal))

(* The book, the trades published and the ones still to publish are what   *)
(* replaying the applied events gives, and no replayed order is refused.   *)
Live ==
  /\ IsSeq(book) /\ IsSeq(tradeLog) /\ IsSeq(outbox)
  /\ Replay(Applied) = [book |-> book, trades |-> tradeLog \o outbox, throws |-> FALSE]

LInv == Flags /\ InHand /\ Live

(* Every order comes back from its event.                                  *)
LEMMA CommandOrder ==
  ASSUME NEW c \in Command
  PROVE  \/ c.type = "SUBMIT" /\ IsOrder(c.order) /\ c = Submit(c.order)
         \/ c.type = "CANCEL" /\ c = Cancel(c.cancelId)
  BY EngineAssumption DEF Command, Submit, Cancel, IsOrder

(* A trade that is published moves from the outbox to the log.             *)
LEMMA ConcatMove ==
  ASSUME NEW s, IsSeq(s), NEW t, IsSeq(t), t # <<>>
  PROVE  /\ Append(s, Head(t)) \o Tail(t) = s \o t
         /\ IsSeq(Append(s, Head(t))) /\ IsSeq(Tail(t))
  <1>1. PICK A : s \in Seq(A)
    BY DEF IsSeq
  <1>2. PICK B : t \in Seq(B)
    BY DEF IsSeq
  <1>3. s \in Seq(A \cup B) /\ t \in Seq(A \cup B)
    BY <1>1, <1>2
  <1> HIDE <1>1, <1>2
  <1>4. Append(s, Head(t)) \in Seq(A \cup B) /\ Tail(t) \in Seq(A \cup B)
    BY <1>3
  <1>5. Append(s, Head(t)) \o Tail(t) = s \o t
    BY <1>3
  <1> QED
    BY <1>4, <1>5 DEF IsSeq

(* An engine that has just been built.                                     *)
LEMMA InitLive == Init => LInv
  <1> SUFFICES ASSUME Init PROVE LInv
    OBVIOUS
  <1>1. Flags /\ InHand
    <2>1. Len(<<>>) + Len(<<>>) + 0 <= MaxCommands
      BY EngineAssumption
    <2>2. Len(journal) + Len(queue) + (IF thread = "append" THEN 1 ELSE 0) <= MaxCommands
      BY <2>1 DEF Init
    <2> QED
      BY <2>2 DEF Init, Flags, InHand
  <1>2. Replay(Applied) = Nothing
    BY ReplayNothing DEF Init, Applied
  <1>3. <<>> \in Seq({}) /\ <<>> \o <<>> = <<>>
    OBVIOUS
  <1>4. Live
    BY <1>2, <1>3 DEF Init, Live, IsSeq, Nothing
  <1> QED
    BY <1>1, <1>4 DEF LInv

(* Most steps touch neither the journal nor what it describes.             *)
LEMMA LiveUnchanged ==
  ASSUME LInv, UNCHANGED <<book, outbox, tradeLog, journal>>,
         \/ thread = "apply" /\ thread' = "apply" /\ cmd' = cmd
         \/ thread # "apply" /\ thread' # "apply"
  PROVE  InHand' /\ Live'
  <1>1. Applied' = Applied
    BY DEF Applied
  <1>2. Live'
    BY <1>1 DEF LInv, Live
  <1>3. InHand'
    BY DEF LInv, InHand
  <1> QED
    BY <1>2, <1>3

(* Traders.                                                                *)
LEMMA PushLive == ASSUME IInv, LInv, NEW c \in Command, Push(c) PROVE LInv'
  <1>1. InHand' /\ Live'
    BY LiveUnchanged DEF Push
  <1>2. queue \in Seq(Command) /\ Len(journal) \in Nat
    BY DEF IInv, Typed, Stream
  <1>3. Len(queue') = Len(queue) + 1 /\ Len(queue) \in Nat
    BY <1>2 DEF Push
  <1>4. Flags'
    BY <1>2, <1>3, EngineAssumption DEF LInv, Flags, Push, control
  <1> QED
    BY <1>1, <1>4 DEF LInv

(* start(), stop() and its return.                                         *)
LEMMA ControllerLive == ASSUME IInv, LInv, Start \/ Stop \/ StopReturns PROVE LInv'
  <1>0. \/ thread # "apply" /\ thread' # "apply"
        \/ thread' = thread /\ cmd' = cmd
    BY DEF Start, Stop, StopReturns, IInv, Control
  <1>1. InHand' /\ Live'
    BY <1>0, LiveUnchanged DEF Start, Stop, StopReturns
  <1>2. Flags'
    BY DEF LInv, Flags, Start, Stop, StopReturns, IInv, Control
  <1> QED
    BY <1>1, <1>2 DEF LInv

(* recover() builds the book and the trades that the engine before it had. *)
LEMMA RecoverLive == ASSUME IInv, LInv, Recover PROVE LInv'
  <1>0. thread = "none" /\ thread' = "none" /\ outbox = <<>> /\ Applied = journal
    BY DEF Recover, IInv, Control, Applied
  <1>1. Replay(journal) = [book |-> book, trades |-> tradeLog, throws |-> FALSE]
    BY <1>0, ConcatEmpty DEF LInv, Live
  <1>2. book' = book /\ tradeLog' = tradeLog /\ dead' = FALSE
    BY <1>1 DEF Recover
  <1>3. InHand' /\ Live'
    BY <1>0, <1>2, LiveUnchanged DEF Recover
  <1>4. Len(journal) + Len(<<>>) + 0 <= MaxCommands
    <2>1. queue \in Seq(Command) /\ Len(journal) \in Nat
      BY DEF IInv, Typed, Stream
    <2> QED
      BY <1>0, <2>1, EngineAssumption DEF LInv, Flags
  <1>5. Flags'
    <2>1. (Len(journal) + Len(queue) + (IF thread = "append" THEN 1 ELSE 0) <= MaxCommands)'
      BY <1>0, <1>4 DEF Recover
    <2> QED
      BY <1>2, <2>1 DEF LInv, Flags, Recover
  <1> QED
    BY <1>3, <1>5 DEF LInv

(* pop() and the end of the loop.                                          *)
LEMMA PopLive == ASSUME IInv, LInv, Pop \/ Exit PROVE LInv'
  <1>1. InHand' /\ Live'
    BY LiveUnchanged DEF Pop, Exit
  <1>2. queue \in Seq(Command) /\ Len(journal) \in Nat
    BY DEF IInv, Typed, Stream
  <1>3. Flags'
    <2>1. CASE Pop
      <3>1. Len(queue') = Len(queue) - 1 /\ cmd' \in Command /\ Len(queue) \in Nat
        BY <1>2, <2>1 DEF Pop
      <3> QED
        BY <1>2, <2>1, <3>1, EngineAssumption DEF LInv, Flags, Pop, control
    <2>2. CASE Exit
      BY <2>2 DEF LInv, Flags, Exit, control
    <2> QED
      BY <2>1, <2>2
  <1> QED
    BY <1>1, <1>3 DEF LInv

(* The event is journaled before it is applied.                            *)
LEMMA AppendEventLive == ASSUME IInv, LInv, AppendEvent PROVE LInv'
  <1>1. /\ cmd \in Command /\ nextSeq = Len(journal) + 1 /\ queue \in Seq(Command)
        /\ journal \in Seq(Event)
    BY DEF AppendEvent, IInv, Stream, SequenceContiguous, Typed
  <1>2. PICK ev : ev = EventOf(cmd, nextSeq) /\ ev \in Event
    BY <1>1 DEF Event
  <1>3. /\ journal' \in Seq(Event) /\ Len(journal') = Len(journal) + 1
        /\ journal'[Len(journal')] = ev
        /\ SubSeq(journal', 1, Len(journal') - 1) = journal
    BY <1>1, <1>2 DEF AppendEvent
  <1>4. InHand'
    <2>1. journal' # <<>>
      BY <1>1, <1>3
    <2> QED
      BY <1>1, <1>2, <1>3, <2>1 DEF InHand, AppendEvent
  <1>5. Applied = journal /\ Applied' = journal
    BY <1>3 DEF Applied, AppendEvent
  <1>6. Live'
    BY <1>5 DEF LInv, Live, AppendEvent
  <1>7. Flags'
    BY <1>1, <1>3, EngineAssumption DEF LInv, Flags, AppendEvent, control
  <1> QED
    BY <1>4, <1>6, <1>7 DEF LInv

(* Applying a command is replaying its event.                              *)
LEMMA ApplyLive == ASSUME IInv, LInv, ApplySubmit \/ ApplyCancel PROVE LInv'
  <1>1. /\ cmd \in Command /\ journal # <<>> /\ journal[Len(journal)] = EventOf(cmd, Len(journal))
        /\ journal \in Seq(Event) /\ outbox = <<>>
    BY DEF ApplySubmit, ApplyCancel, LInv, InHand, IInv, Typed, Control
  <1> DEFINE ev == EventOf(cmd, Len(journal))
             past == SubSeq(journal, 1, Len(journal) - 1)
  <1>2. past \in Seq(Event) /\ ev \in Event /\ journal = Append(past, ev)
    BY <1>1
  <1>3. Applied = past /\ Applied' = journal
    BY DEF ApplySubmit, ApplyCancel, Applied
  <1> HIDE DEF past
  <1>4. Replay(journal) = Replayed(Replay(past), ev)
    BY <1>2, ReplayAppend
  <1>5. Replay(past) = [book |-> book, trades |-> tradeLog, throws |-> FALSE]
    BY <1>1, <1>3, ConcatEmpty DEF LInv, Live
  <1>6. CASE ApplySubmit
    <2>1. IsOrder(cmd.order) /\ ev = EventOf(Submit(cmd.order), Len(journal))
      BY <1>1, <1>6, CommandOrder DEF ApplySubmit, Cancel
    <2>2. Replay(journal) = [book |-> book', trades |-> tradeLog \o outbox', throws |-> FALSE]
      <3>1. /\ cmd.order.id \notin Active(book)
            /\ book' = Outcome(book, cmd.order).book /\ outbox' = Outcome(book, cmd.order).trades
        BY <1>6 DEF ApplySubmit
      <3>2. Replayed([book |-> book, trades |-> tradeLog, throws |-> FALSE], ev)
              = [book |-> book', trades |-> tradeLog \o outbox', throws |-> FALSE]
        BY <2>1, <3>1, ReplayedSubmit
      <3> QED
        BY <1>4, <1>5, <3>2
    <2>3. IsSeq(book') /\ IsSeq(outbox')
      BY <1>6, OutcomeSeq DEF ApplySubmit, LInv, Live
    <2>4. tradeLog' = tradeLog
      BY <1>6 DEF ApplySubmit
    <2> QED
      BY <1>3, <1>6, <2>2, <2>3, <2>4 DEF LInv, Live, InHand, Flags, ApplySubmit, control
  <1>7. CASE ApplyCancel
    <2>1. ev = EventOf(Cancel(cmd.cancelId), Len(journal))
      BY <1>1, <1>7, CommandOrder DEF ApplyCancel, Submit
    <2>2. Replay(journal) = [book |-> book', trades |-> tradeLog, throws |-> FALSE]
      BY <1>4, <1>5, <1>7, <2>1, ReplayedCancel DEF ApplyCancel
    <2>3. IsSeq(book')
      BY <1>7, OutcomeSeq DEF ApplyCancel, LInv, Live
    <2>4. tradeLog' = tradeLog /\ outbox' = outbox /\ tradeLog \o outbox = tradeLog
      BY <1>1, <1>7, ConcatEmpty DEF ApplyCancel, LInv, Live
    <2> QED
      BY <1>3, <1>7, <2>2, <2>3, <2>4 DEF LInv, Live, InHand, Flags, ApplyCancel, control
  <1> QED
    BY <1>6, <1>7

(* Publishing, and the end of the process.                                 *)
LEMMA PublishLive ==
  ASSUME IInv, LInv, ApplyThrows \/ PublishTrade \/ PublishTopOfBook
  PROVE  LInv'
  <1>1. Flags'
    BY DEF LInv, Flags, ApplyThrows, PublishTrade, PublishTopOfBook, control
  <1>2. CASE ApplyThrows \/ PublishTopOfBook
    <2>1. InHand' /\ Live'
      BY <1>2, LiveUnchanged DEF ApplyThrows, PublishTopOfBook
    <2> QED
      BY <1>1, <2>1 DEF LInv
  <1>3. CASE PublishTrade
    <2>1. Applied' = Applied /\ InHand'
      BY <1>3 DEF PublishTrade, Applied, InHand
    <2>2. IsSeq(tradeLog') /\ IsSeq(outbox') /\ tradeLog' \o outbox' = tradeLog \o outbox
      BY <1>3, ConcatMove DEF PublishTrade, LInv, Live
    <2>3. book' = book
      BY <1>3 DEF PublishTrade
    <2> QED
      BY <1>1, <2>1, <2>2, <2>3 DEF LInv, Live
  <1> QED
    BY <1>2, <1>3

(* Every step keeps the second invariant where the first one holds.        *)
LEMMA NextLive == ASSUME IInv, LInv, [Next]_vars PROVE LInv'
  <1>1. CASE \E c \in Command : Push(c)
    BY <1>1, PushLive
  <1>2. CASE Start \/ Stop \/ StopReturns
    BY <1>2, ControllerLive
  <1>3. CASE Recover
    BY <1>3, RecoverLive
  <1>4. CASE MatchingThread
    BY <1>4, PopLive, AppendEventLive, ApplyLive, PublishLive DEF MatchingThread
  <1>5. CASE UNCHANGED vars
    <2>1. Applied' = Applied
      BY <1>5 DEF vars, Applied
    <2> QED
      BY <1>5, <2>1 DEF vars, LInv, Flags, InHand, Live
  <1> QED
    BY <1>1, <1>2, <1>3, <1>4, <1>5 DEF Next

------------------------------------------------------------------------------
(* The top of the book. *)

OrderId == {order.id : order \in Order}

(* The book holds limit orders, none of which would trade with another.    *)
BookInOrder == book \in Seq(Resting(OrderId)) /\ NotCrossed(book)

(* Between two commands the sink knows the best prices.                    *)
TopTold ==
  thread \in {"none", "pop", "exited"} =>
    top = [bid |-> BestPrice(book, "BUY"), ask |-> BestPrice(book, "SELL")]

TInv == BookInOrder /\ TopTold

(* A new engine has an empty book, and a new sink no prices.               *)
LEMMA InitTop == Init => TInv
  <1> SUFFICES ASSUME Init PROVE TInv
    OBVIOUS
  <1>1. book = <<>> /\ top = NoTop
    BY DEF Init
  <1>2. BookInOrder
    BY <1>1 DEF BookInOrder, NotCrossed
  <1>3. BestPrice(<<>>, "BUY") = NoPrice /\ BestPrice(<<>>, "SELL") = NoPrice
    BY DEF BestPrice
  <1> QED
    BY <1>1, <1>2, <1>3 DEF TInv, TopTold, NoTop

(* The order of a command that is applied.                                 *)
LEMMA OrderInHand ==
  ASSUME LInv, thread = "apply", cmd.type = "SUBMIT"
  PROVE  cmd.order \in Orders(OrderId, Nat \ {0}, Nat \ {0})
  <1>1. PICK order \in Order : cmd = Submit(order)
    BY DEF LInv, InHand, Command, Submit, Cancel
  <1>2. cmd.order = order /\ order.id \in OrderId
    BY <1>1 DEF Submit, OrderId
  <1>3. order \in Orders({order.id}, Nat \ {0}, Nat \ {0})
    BY EngineAssumption
  <1> QED
    BY <1>2, <1>3 DEF Orders

(* The book changes only where a command is applied, and the sink hears of *)
(* it before the next one; recover() rebuilds the book that was there.     *)
LEMMA NextTop == ASSUME IInv, LInv, TInv, [Next]_vars PROVE TInv'
  <1>1. CASE Recover
    <2>0. thread = "none" /\ thread' = "none" /\ outbox = <<>> /\ Applied = journal /\ top' = top
      BY <1>1 DEF Recover, IInv, Control, Applied
    <2>1. Replay(journal) = [book |-> book, trades |-> tradeLog, throws |-> FALSE]
      BY <2>0, ConcatEmpty DEF LInv, Live
    <2>2. book' = book
      BY <1>1, <2>1 DEF Recover
    <2> QED
      BY <2>0, <2>2 DEF TInv, BookInOrder, TopTold
  <1>2. CASE ApplySubmit
    <2>1. cmd.order \in Orders(OrderId, Nat \ {0}, Nat \ {0})
      BY <1>2, OrderInHand DEF ApplySubmit
    <2>2. PICK order \in Orders(OrderId, Nat \ {0}, Nat \ {0}) : order = cmd.order
      BY <2>1
    <2>3. /\ Outcome(book, order).book \in Seq(Resting(OrderId))
          /\ NotCrossed(Outcome(book, order).book)
      BY OutcomeNotCrossed DEF TInv, BookInOrder
    <2>4. book' = Outcome(book, order).book /\ thread' = "publish"
      BY <1>2, <2>2 DEF ApplySubmit
    <2> QED
      BY <2>3, <2>4 DEF TInv, BookInOrder, TopTold
  <1>3. CASE ApplyCancel
    <2>1. PICK id : id = cmd.cancelId
      OBVIOUS
    <2>2. Cancelled(book, id) \in Seq(Resting(OrderId)) /\ NotCrossed(Cancelled(book, id))
      BY CancelNotCrossed DEF TInv, BookInOrder
    <2>3. book' = Cancelled(book, id) /\ thread' = "publish"
      BY <1>3, <2>1 DEF ApplyCancel
    <2> QED
      BY <2>2, <2>3 DEF TInv, BookInOrder, TopTold
  <1>4. CASE PublishTopOfBook
    BY <1>4 DEF PublishTopOfBook, TInv, BookInOrder, TopTold
  <1>5. ASSUME book' = book, top' = top,
               thread' \in {"none", "pop", "exited"} => thread \in {"none", "pop", "exited"}
        PROVE  TInv'
    BY <1>5 DEF TInv, BookInOrder, TopTold
  <1>6. CASE \E c \in Command : Push(c)
    BY <1>5, <1>6 DEF Push
  <1>7. CASE Start \/ Stop \/ StopReturns
    BY <1>5, <1>7 DEF Start, Stop, StopReturns, IInv, Control
  <1>8. CASE Pop \/ Exit \/ AppendEvent \/ ApplyThrows \/ PublishTrade
    BY <1>5, <1>8 DEF Pop, Exit, AppendEvent, ApplyThrows, PublishTrade
  <1>9. CASE UNCHANGED vars
    BY <1>5, <1>9 DEF vars
  <1> QED
    BY <1>1, <1>2, <1>3, <1>4, <1>6, <1>7, <1>8, <1>9 DEF Next, MatchingThread

------------------------------------------------------------------------------
(* Theorems. *)

(* The stream and the threads agree in every reachable state.              *)
THEOREM Invariance == Spec => []IInv
  <1>1. Init => IInv
    BY InitInv
  <1>2. IInv /\ [Next]_vars => IInv'
    BY NextInv
  <1> QED
    BY <1>1, <1>2, PTL DEF Spec

(* Every command pushed on the engine is journaled once, in the order of   *)
(* the pushes, or is still in the queue.                                   *)
THEOREM SingleStream == Spec => []SingleOrderedStream
  <1>1. IInv => SingleOrderedStream
    <2> SUFFICES ASSUME IInv PROVE SingleOrderedStream
      OBVIOUS
    <2>1. taken - (IF thread = "append" THEN 1 ELSE 0) = Logged /\ Logged \in Int
      BY DEF IInv, Typed, Logged
    <2>2. born + taken - (IF thread = "append" THEN 1 ELSE 0) = born + Logged
      BY DEF IInv, Typed, Logged
    <2> QED
      BY <2>1, <2>2 DEF IInv, Stream, SingleOrderedStream
  <1> QED
    BY <1>1, Invariance, PTL

(* Sequence numbers are never reused or skipped, over any number of        *)
(* recoveries.                                                             *)
THEOREM NumberedOnce == Spec => []SequenceContiguous
  <1>1. IInv => SequenceContiguous
    BY DEF IInv
  <1> QED
    BY <1>1, Invariance, PTL

(* When stop() has returned, what was pushed before it is in the journal   *)
(* and its trades are out.                                                 *)
THEOREM StopComplete == Spec => []StopDrains
  <1>1. IInv => StopDrains
    <2> SUFFICES ASSUME IInv, ctl = "idle", ~running
                 PROVE  taken >= due /\ thread = "none" /\ outbox = <<>> /\ Len(journal) = born + taken
      BY DEF StopDrains
    <2>1. thread = "none"
      BY DEF IInv, Control
    <2>2. outbox = <<>>
      BY <2>1 DEF IInv, Control
    <2>3. taken >= due
      BY DEF IInv, Drained
    <2>4. Len(journal) = born + taken
      BY <2>1 DEF IInv, Stream, Logged
    <2> QED
      BY <2>1, <2>2, <2>3, <2>4
  <1> QED
    BY <1>1, Invariance, PTL

(* The second invariant holds in every reachable state.                    *)
THEOREM LiveInvariance == Spec => []LInv
  <1>1. Init => LInv
    BY InitLive
  <1>2. IInv /\ LInv /\ [Next]_vars => LInv'
    BY NextLive
  <1> QED
    BY <1>1, <1>2, Invariance, PTL DEF Spec

(* Event sourcing, for every order flow: the live book and the trades      *)
(* produced are what recover() would build from the journal, at every      *)
(* moment of every life of the engine, and recover() never throws.         *)
THEOREM LiveIsReplay == Spec => []LiveStateIsReplay
  <1>1. LInv => LiveStateIsReplay
    BY DEF LInv, Live, LiveStateIsReplay
  <1> QED
    BY <1>1, LiveInvariance, PTL

(* Threads, commands and counters have their types, and the numbers stay   *)
(* within the bound on commands.                                           *)
THEOREM TypeCorrect == Spec => []TypeOK
  <1>1. IInv /\ LInv => TypeOK
    <2> SUFFICES ASSUME IInv, LInv PROVE TypeOK
      OBVIOUS
    <2>1. queue \in Seq(Command) /\ journal \in Seq(Event)
      BY DEF IInv, Typed, Stream
    <2>2. Len(journal) \in Nat /\ Len(queue) \in Nat /\ Len(journal) <= MaxCommands
      BY <2>1, EngineAssumption DEF LInv, Flags
    <2>3. \A i \in DOMAIN queue : queue[i] \in Command
      BY <2>1
    <2>4. nextSeq \in 1..(MaxCommands + 1)
      BY <2>2, EngineAssumption DEF IInv, SequenceContiguous
    <2>5. born \in 0..Len(journal)
      <3>1. Logged \in Nat
        BY DEF IInv, Typed, Stream, Logged
      <3> QED
        BY <2>2, <3>1 DEF IInv, Typed, Stream
    <2> QED
      BY <2>2, <2>3, <2>4, <2>5 DEF TypeOK, IInv, LInv, Typed, Flags
  <1> QED
    BY <1>1, Invariance, LiveInvariance, PTL

(* The third invariant holds in every reachable state.                     *)
THEOREM TopInvariance == Spec => []TInv
  <1>1. Init => TInv
    BY InitTop
  <1>2. IInv /\ LInv /\ TInv /\ [Next]_vars => TInv'
    BY NextTop
  <1> QED
    BY <1>1, <1>2, Invariance, LiveInvariance, PTL DEF Spec

(* For any orders, between two commands and over restarts, the market data *)
(* sink knows the best bid and the best ask of the book, and the bid is    *)
(* below the ask.                                                          *)
THEOREM TopCurrent == Spec => []TopOfBookCurrent
  <1>1. TInv => TopOfBookCurrent
    <2> SUFFICES ASSUME TInv, thread \in {"none", "pop", "exited"} PROVE TopOfBookCurrent
      BY DEF TopOfBookCurrent
    <2>1. top.bid = BestPrice(book, "BUY") /\ top.ask = BestPrice(book, "SELL")
      BY DEF TInv, TopTold
    <2>2. PICK bid : bid = top.bid
      OBVIOUS
    <2>3. PICK ask : ask = top.ask
      OBVIOUS
    <2>4. /\ Quotes(book, "BUY") = {} <=> bid = NoPrice
          /\ Quotes(book, "SELL") = {} <=> ask = NoPrice
          /\ \A p \in Quotes(book, "BUY") : p <= bid
          /\ \A p \in Quotes(book, "SELL") : p >= ask
          /\ bid # NoPrice => bid \in Quotes(book, "BUY")
          /\ ask # NoPrice => ask \in Quotes(book, "SELL")
          /\ bid # NoPrice /\ ask # NoPrice => bid < ask
      <3>1. bid = BestPrice(book, "BUY") /\ ask = BestPrice(book, "SELL")
        BY <2>1, <2>2, <2>3
      <3> QED
        BY <3>1, TopOfBook DEF TInv, BookInOrder
    <2> QED
      BY <2>2, <2>3, <2>4 DEF TopOfBookCurrent, Quotes
  <1> QED
    BY <1>1, TopInvariance, PTL
==============================================================================
