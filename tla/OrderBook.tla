------------------------------ MODULE OrderBook ------------------------------
(***************************************************************************)
(* The limit order book: src/OrderBook.cpp with the Order classes it       *)
(* works on.                                                               *)
(*                                                                         *)
(* One thread at a time calls the book.  A call of addOrder is a sequence  *)
(* of steps, one per iteration of the matching loop, so that the state the *)
(* book is in BETWEEN two fills is a state of the model; nothing else can  *)
(* happen until the call returns.  The code spells the loop out twice, for *)
(* a BUY against asks_ and for a SELL against bids_: here it is written    *)
(* once, for the side opposite to the incoming order's.                    *)
(*                                                                         *)
(* The std::list iterator kept for a resting order names the list node     *)
(* that holds it; `location` keeps the side and the price, and             *)
(* NodePosition finds the node.                                            *)
(***************************************************************************)
EXTENDS Types, Functions

CONSTANTS
  OrderId,      \* identifiers callers may use
  NoOrder,      \* "no call in progress"
  Price,        \* prices limit orders may have
  MaxQuantity,  \* bound: largest quantity of an order
  MaxArrivals   \* bound: number of orders accepted by addOrder

ASSUME BookAssumption ==
  /\ NoOrder \notin OrderId
  /\ Price \subseteq Nat \ {0}
  /\ MaxQuantity \in Nat
  /\ MaxArrivals \in Nat

VARIABLES
  owned,     \* ownedOrders_: id -> the order, for every active order
  levels,    \* levels["BUY"] = bids_, levels["SELL"] = asks_: price -> FIFO list
  location,  \* orderLocation_: id -> side and price of a resting order
  incoming,  \* id of the order addOrder is matching, NoOrder outside a call
  trades,    \* the vector matchIncoming fills
  ret,       \* what the last call returned or threw
  arrivals   \* number of orders accepted so far (history: stamps each order)

vars == <<owned, levels, location, incoming, trades, ret, arrivals>>

EmptyMap == [k \in {} |-> k]

Put(f, k, v) == [x \in DOMAIN f \cup {k} |-> IF x = k THEN v ELSE f[x]]

Erase(f, k) == Restrict(f, DOMAIN f \ {k})

MinQty(a, b) == IF a <= b THEN a ELSE b

------------------------------------------------------------------------------
(* The order objects. *)

(* Fault: the price of a limit order is not validated.                     *)
ConstructibleAnyPrice(kind, quantity, price) == quantity > 0

(* The constructors of Order and LimitOrder throw unless this holds.       *)
Constructible(kind, quantity, price) ==
  /\ quantity > 0
  /\ kind = "LIMIT" => price > 0

(* A freshly constructed order.  `arrival` is the history stamp.           *)
NewOrder(kind, side, quantity, price, arrival) ==
  [ kind      |-> kind,
    side      |-> side,
    price     |-> IF kind = "LIMIT" THEN price ELSE NoPrice,
    quantity  |-> quantity,
    remaining |-> quantity,
    status    |-> "NEW",
    arrival   |-> arrival ]

ReducedBy(remaining, filledQty) ==
  IF remaining - filledQty < 0 THEN 0 ELSE remaining - filledQty

(* Fault: the status is left as it was.                                    *)
FilledSameStatus(order, filledQty, status) ==
  [order EXCEPT !.remaining = ReducedBy(@, filledQty)]

(* Fault: one unit more is taken than was traded.                          *)
FilledOneMore(order, filledQty, status) ==
  [order EXCEPT !.remaining = ReducedBy(@, filledQty + 1), !.status = status]

(* reduceQuantity followed by setStatus, on an order that stays in the map. *)
Filled(order, filledQty, status) ==
  [order EXCEPT !.remaining = ReducedBy(@, filledQty), !.status = status]

------------------------------------------------------------------------------
(* Price levels. *)

(* Fault: bids_ declared without std::greater.                             *)
PrecedesAscending(side, p, q) == p < q

(* p comes before q in the iteration order of the map of this side:        *)
(* std::greater for bids_, std::less for asks_.                            *)
Precedes(side, p, q) == IF side = "BUY" THEN p > q ELSE p < q

(* The key of begin(): a singleton, or empty when the map is empty.        *)
Best(side) ==
  {p \in DOMAIN levels[side] : \A q \in DOMAIN levels[side] : ~Precedes(side, q, p)}

(* Fault: > and < where the code has >= and <=.                            *)
PriceOkStrict(order, best) ==
  \/ order.kind = "MARKET"
  \/ /\ order.side = "BUY"
     /\ order.price > best
  \/ /\ order.side = "SELL"
     /\ order.price < best

(* The incoming order accepts to trade at this price of the other side.    *)
PriceOk(order, best) ==
  \/ order.kind = "MARKET"
  \/ /\ order.side = "BUY"
     /\ order.price >= best
  \/ /\ order.side = "SELL"
     /\ order.price <= best

(* The list node an OrderLocation's iterator points to.                    *)
NodePosition(level, id) == CHOOSE i \in 1..Len(level) : level[i] = id

(* Fault: pop_back() instead of erase(iterator).                           *)
EraseNodeLast(level, i) == SubSeq(level, 1, Len(level) - 1)

EraseNode(level, i) ==
  [j \in 1..(Len(level) - 1) |-> IF j < i THEN level[j] ELSE level[j + 1]]

(* Fault: an emptied list stays in the map.                                *)
WithLevelKept(side, price, level) ==
  [levels EXCEPT ![side] = Put(@, price, level)]

(* The levels of a side once the list at `price` has become `level`: an    *)
(* emptied list is erased from the map.                                    *)
WithLevel(side, price, level) ==
  [levels EXCEPT ![side] = IF level = <<>> THEN Erase(@, price)
                                           ELSE Put(@, price, level)]

------------------------------------------------------------------------------
Init ==
  /\ owned = EmptyMap
  /\ levels = [s \in Side |-> EmptyMap]
  /\ location = EmptyMap
  /\ incoming = NoOrder
  /\ trades = <<>>
  /\ ret = [call |-> "none"]
  /\ arrivals = 0

Idle == incoming = NoOrder

Returns(value) ==
  /\ ret' = value
  /\ trades' = <<>>

(* OrderFactory::createOrder throws: there is no order to add.             *)
CreateOrderThrows(kind, quantity, price) ==
  /\ Idle
  /\ ~Constructible(kind, quantity, price)
  /\ Returns([call |-> "createOrder", throws |-> "invalid_argument"])
  /\ UNCHANGED <<owned, levels, location, incoming, arrivals>>

(* addOrder refuses a null pointer ...                                     *)
AddNullThrows ==
  /\ Idle
  /\ Returns([call |-> "addOrder", throws |-> "invalid_argument"])
  /\ UNCHANGED <<owned, levels, location, incoming, arrivals>>

(* ... and an id that is active, before it touches anything.               *)
AddOrderThrows(id, kind, quantity, price) ==
  /\ Idle
  /\ Constructible(kind, quantity, price)
  /\ id \in DOMAIN owned
  /\ Returns([call |-> "addOrder", throws |-> "invalid_argument"])
  /\ UNCHANGED <<owned, levels, location, incoming, arrivals>>

(* addOrder takes ownership and enters matchIncoming.                      *)
AddOrder(id, kind, side, quantity, price) ==
  /\ Idle
  /\ Constructible(kind, quantity, price)
  /\ id \notin DOMAIN owned
  /\ arrivals < MaxArrivals
  /\ owned' = Put(owned, id, NewOrder(kind, side, quantity, price, arrivals))
  /\ incoming' = id
  /\ arrivals' = arrivals + 1
  /\ UNCHANGED <<levels, location, trades, ret>>

(* One iteration of the loop of matchIncoming: a fill against the oldest   *)
(* order of the best level of the other side.                              *)
MatchStep ==
  /\ ~Idle
  /\ LET order == owned[incoming]
         other == Opposite(order.side)
     IN  /\ order.remaining > 0
         /\ \E best \in Best(other) :
              LET level    == levels[other][best]
                  resting  == Head(level)
                  tradeQty == MinQty(order.remaining, owned[resting].remaining)
                  left     == ReducedBy(owned[resting].remaining, tradeQty)
                  reduced  == Put(owned, incoming, Filled(order, tradeQty, order.status))
              IN  /\ PriceOk(order, best)
                  /\ trades' = Append(trades, Trade(order.side, incoming, resting, best, tradeQty))
                  /\ \/ /\ left = 0
                        /\ levels' = WithLevel(other, best, Tail(level))
                        /\ location' = Erase(location, resting)
                        /\ owned' = Erase(reduced, resting)
                     \/ /\ left # 0
                        /\ owned' = Put(reduced, resting,
                                        Filled(owned[resting], tradeQty, "PARTIALLY_FILLED"))
                        /\ UNCHANGED <<levels, location>>
  /\ UNCHANGED <<incoming, ret, arrivals>>

(* The loop of matchIncoming ends: nothing left to fill, nothing to fill   *)
(* it with, or the best price is not acceptable.                           *)
LoopEnds(order) ==
  LET other == Opposite(order.side)
  IN  \/ order.remaining = 0
      \/ DOMAIN levels[other] = {}
      \/ \E best \in Best(other) : ~PriceOk(order, best)

(* Fault: push_front instead of push_back.                                 *)
RestInBookFront(order) ==
  LET side  == order.side
      price == order.price
      level == IF price \in DOMAIN levels[side] THEN levels[side][price] ELSE <<>>
  IN  /\ levels' = WithLevel(side, price, <<incoming>> \o level)
      /\ location' = Put(location, incoming, [side |-> side, price |-> price])
      /\ owned' = Put(owned, incoming, [order EXCEPT !.status = "OPEN"])

(* restInBook: the remainder goes to the back of the list at its price.    *)
RestInBook(order) ==
  LET side  == order.side
      price == order.price
      level == IF price \in DOMAIN levels[side] THEN levels[side][price] ELSE <<>>
  IN  /\ levels' = WithLevel(side, price, Append(level, incoming))
      /\ location' = Put(location, incoming, [side |-> side, price |-> price])
      /\ owned' = Put(owned, incoming,
                      [order EXCEPT !.status = IF order.remaining = order.quantity
                                               THEN "OPEN" ELSE "PARTIALLY_FILLED"])

(* The rest of addOrder: a filled order is dropped, a limit order rests,   *)
(* what is left of a market order is cancelled.                            *)
AddOrderReturns ==
  /\ ~Idle
  /\ LET order == owned[incoming]
     IN  /\ LoopEnds(order)
         /\ \/ /\ order.remaining = 0
               /\ owned' = Erase(owned, incoming)
               /\ UNCHANGED <<levels, location>>
            \/ /\ order.remaining # 0
               /\ order.kind = "LIMIT"
               /\ RestInBook(order)
            \/ /\ order.remaining # 0
               /\ order.kind = "MARKET"
               /\ owned' = Erase(owned, incoming)
               /\ UNCHANGED <<levels, location>>
  /\ incoming' = NoOrder
  /\ Returns([call |-> "addOrder", trades |-> trades])
  /\ UNCHANGED arrivals

CancelOrder(id) ==
  /\ Idle
  /\ \/ /\ id \notin DOMAIN location
        /\ Returns([call |-> "cancelOrder", found |-> FALSE])
        /\ UNCHANGED <<owned, levels, location>>
     \/ /\ id \in DOMAIN location
        /\ LET loc   == location[id]
               level == levels[loc.side][loc.price]
           IN  levels' = WithLevel(loc.side, loc.price,
                                   EraseNode(level, NodePosition(level, id)))
        /\ location' = Erase(location, id)
        /\ owned' = Erase(owned, id)
        /\ Returns([call |-> "cancelOrder", found |-> TRUE])
  /\ UNCHANGED <<incoming, arrivals>>

Next ==
  \/ \E kind \in OrderKind, quantity \in 0..MaxQuantity, price \in Price \cup {0} :
       CreateOrderThrows(kind, quantity, price)
  \/ AddNullThrows
  \/ \E id \in OrderId, kind \in OrderKind, side \in Side,
        quantity \in 0..MaxQuantity, price \in Price \cup {0} :
       \/ AddOrderThrows(id, kind, quantity, price)
       \/ AddOrder(id, kind, side, quantity, price)
  \/ MatchStep
  \/ AddOrderReturns
  \/ \E id \in OrderId : CancelOrder(id)

Spec == Init /\ [][Next]_vars

------------------------------------------------------------------------------
(* Types. *)

OrderObjects ==
  [ kind : OrderKind, side : Side, price : Price \cup {NoPrice},
    quantity : Nat, remaining : Nat, status : OrderStatus, arrival : Nat ]

Results ==
  [call : {"none"}]
    \cup [call : {"createOrder", "addOrder"}, throws : {"invalid_argument"}]
    \cup [call : {"addOrder"}, trades : Seq(Trades(OrderId, Price))]
    \cup [call : {"cancelOrder"}, found : BOOLEAN]

(* A std::map or std::unordered_map: a function on some of the keys.       *)
IsMap(f, Key, Value) ==
  /\ DOMAIN f \subseteq Key
  /\ f \in [DOMAIN f -> Value]

(* The type invariant: the maps are partial functions of identifiers and   *)
(* prices, and the vector matchIncoming builds holds well-formed trades.   *)
TypeOK ==
  /\ IsMap(owned, OrderId, OrderObjects)
  /\ levels = [s \in Side |-> levels[s]]
  /\ \A s \in Side : IsMap(levels[s], Price, Seq(OrderId))
  /\ IsMap(location, OrderId, [side : Side, price : Price])
  /\ incoming \in OrderId \cup {NoOrder}
  /\ trades \in Seq(Trades(OrderId, Price))
  /\ ret \in Results
  /\ arrivals \in Nat

------------------------------------------------------------------------------
(* Safety: what the book relies on in every state, between two fills of    *)
(* one call included.                                                      *)

(* Every raw Order* stored in a price level points to an order that        *)
(* ownedOrders_ still owns and that orderLocation_ finds at exactly that   *)
(* level, and no level is left in a map with an empty list: level.front()  *)
(* is never called on an empty list and never yields a freed order.        *)
NoDanglingOrder ==
  \A s \in Side : \A p \in DOMAIN levels[s] :
    /\ levels[s][p] # <<>>
    /\ \A i \in 1..Len(levels[s][p]) :
         LET id == levels[s][p][i]
         IN  /\ id \in DOMAIN owned
             /\ id \in DOMAIN location
             /\ location[id] = [side |-> s, price |-> p]

(* The converse: what cancelOrder finds in orderLocation_ is a node of an  *)
(* existing level, and ownedOrders_ holds nothing but the resting orders   *)
(* and the one being matched, so neither map leaks a finished order and an *)
(* id can be used again as soon as its order is done.                      *)
NoLeakedOrder ==
  /\ \A id \in DOMAIN location :
       LET loc == location[id]
       IN  /\ loc.price \in DOMAIN levels[loc.side]
           /\ \E i \in 1..Len(levels[loc.side][loc.price]) :
                levels[loc.side][loc.price][i] = id
  /\ DOMAIN owned = DOMAIN location \cup ({incoming} \ {NoOrder})
  /\ incoming \notin DOMAIN location

(* Time priority: along every level, orders are in the order in which      *)
(* addOrder accepted them, whatever was cancelled or filled in between.    *)
TimePriority ==
  \A s \in Side : \A p \in DOMAIN levels[s] :
    \A i, j \in 1..Len(levels[s][p]) :
      i < j => owned[levels[s][p][i]].arrival < owned[levels[s][p][j]].arrival

(* The book is never crossed: the best bid stays below the best ask, in    *)
(* the middle of a call as well.                                           *)
Uncrossed ==
  \A bid \in DOMAIN levels["BUY"], ask \in DOMAIN levels["SELL"] : bid < ask

(* What rests is an open limit order at its own price, with quantity left, *)
(* and its status tells whether it has traded.  The loop of matchIncoming  *)
(* ends only because a resting order never has remaining quantity 0.       *)
RestingOrdersOpen ==
  \A id \in DOMAIN location :
    LET order == owned[id]
    IN  /\ order.kind = "LIMIT"
        /\ order.side = location[id].side
        /\ order.price = location[id].price
        /\ order.remaining > 0
        /\ order.remaining <= order.quantity
        /\ order.status = IF order.remaining = order.quantity
                          THEN "OPEN" ELSE "PARTIALLY_FILLED"

(* No trade-through: while an order is matched, no fill is at a price      *)
(* worse than one that is still on offer, and each is within its limit.    *)
NoTradeThrough ==
  ~Idle =>
    LET order  == owned[incoming]
        offers == DOMAIN levels[Opposite(order.side)]
    IN  \A i \in 1..Len(trades) :
          LET paid == trades[i].price
          IN  \/ /\ order.side = "BUY"
                 /\ order.kind = "LIMIT" => paid <= order.price
                 /\ \A p \in offers : paid <= p
              \/ /\ order.side = "SELL"
                 /\ order.kind = "LIMIT" => paid >= order.price
                 /\ \A p \in offers : paid >= p

(* Every iteration of matchIncoming reduces what is left of the incoming   *)
(* order, by the quantity of the trade it records, and takes the same      *)
(* quantity from the one resting order it trades with: the loop ends, and  *)
(* a fill creates and destroys nothing.                                    *)
FillConserves ==
  Len(trades') > Len(trades) =>
    LET t       == trades'[Len(trades')]
        resting == IF t.buyOrderId = incoming THEN t.sellOrderId ELSE t.buyOrderId
    IN  /\ t.quantity > 0
        /\ owned'[incoming].remaining = owned[incoming].remaining - t.quantity
        /\ \/ /\ resting \in DOMAIN owned'
              /\ owned'[resting].remaining = owned[resting].remaining - t.quantity
           \/ /\ resting \notin DOMAIN owned'
              /\ owned[resting].remaining = t.quantity
        /\ \A id \in DOMAIN owned \ {incoming, resting} :
             id \in DOMAIN owned' /\ owned'[id] = owned[id]

FillsConserve == [][FillConserves]_vars
==============================================================================
