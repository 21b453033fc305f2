------------------------------- MODULE Journal -------------------------------
(***************************************************************************)
(* Commands, journal events and replay: include/Command.h,                 *)
(* include/JournalEvent.h and the part of src/Engine.cpp that applies      *)
(* events.  No state: Engine and DurableEngine use these operators.        *)
(*                                                                         *)
(* Trader ids and wall-clock stamps are copied into an event and never     *)
(* read by the engine; they are left out.                                  *)
(***************************************************************************)
EXTENDS Matching

(* Command::submit and Command::cancel.                                    *)
Submit(order) == [type |-> "SUBMIT", order |-> order]
Cancel(id)    == [type |-> "CANCEL", cancelId |-> id]

(* makeSubmitEvent: a market order has no price to ask for, 0 is stored.   *)
MakeSubmitEvent(order, seq) ==
  [ seq |-> seq, type |-> "SUBMIT", kind |-> order.kind, orderId |-> order.id,
    side |-> order.side, quantity |-> order.quantity,
    price |-> IF order.kind = "LIMIT" THEN order.price ELSE NoPrice ]

(* makeCancelEvent: the other fields keep JournalEvent's defaults.         *)
MakeCancelEvent(id, seq) ==
  [ seq |-> seq, type |-> "CANCEL", kind |-> "LIMIT", orderId |-> id,
    side |-> "BUY", quantity |-> 0, price |-> NoPrice ]

EventOf(cmd, seq) ==
  IF cmd.type = "SUBMIT" THEN MakeSubmitEvent(cmd.order, seq)
                         ELSE MakeCancelEvent(cmd.cancelId, seq)

(* Fault: the kind is not restored, JournalEvent's default is used.        *)
OrderOfLimit(ev) ==
  [id |-> ev.orderId, kind |-> "LIMIT", side |-> ev.side, quantity |-> ev.quantity, price |-> ev.price]

(* The order OrderFactory::createOrder builds from a SUBMIT event: the     *)
(* MARKET case does not pass the price on.                                 *)
OrderOf(ev) ==
  [ id |-> ev.orderId, kind |-> ev.kind, side |-> ev.side, quantity |-> ev.quantity,
    price |-> IF ev.kind = "MARKET" THEN NoPrice ELSE ev.price ]

(* Applying one event to a book; `throws` once addOrder has thrown.        *)
Replayed(state, ev) ==
  CASE state.throws -> state
    [] ~state.throws /\ ev.type = "CANCEL" ->
         [state EXCEPT !.book = Cancelled(@, ev.orderId)]
    [] ~state.throws /\ ev.type = "SUBMIT" /\ ev.orderId \in Active(state.book) ->
         [state EXCEPT !.throws = TRUE]
    [] OTHER ->
         LET outcome == Outcome(state.book, OrderOf(ev))
         IN  [state EXCEPT !.book = outcome.book, !.trades = @ \o outcome.trades]

(* The loop of recover() over the events it loaded.                        *)
Replay(events) ==
  LET state[n \in 0..Len(events)] ==
        IF n = 0 THEN [book |-> <<>>, trades |-> <<>>, throws |-> FALSE]
                 ELSE Replayed(state[n - 1], events[n])
  IN  state[Len(events)]

(* maxSeq in recover().                                                    *)
MaxSeq(events) == Max({0} \cup {events[i].seq : i \in DOMAIN events})
==============================================================================
