--------------------------- MODULE OrderBookProofs ---------------------------
(***************************************************************************)
(* The invariants of the order book, and its refinement of                 *)
(* PriceTimePriority, proved for every set of identifiers and prices and   *)
(* for every bound.                                                        *)
(***************************************************************************)
EXTENDS OrderBookRefinement, ReplayProofs

(* The order being matched: its stamp is the youngest, its limit is a      *)
(* price, and matchIncoming has only reduced it.  Outside a call the trade *)
(* vector is empty.                                                        *)
IncomingOrder ==
  /\ Idle => trades = <<>>
  /\ ~Idle =>
       /\ owned[incoming].quantity > 0
       /\ owned[incoming].remaining <= owned[incoming].quantity
       /\ owned[incoming].kind = "LIMIT" => owned[incoming].price \in Price
       /\ \A id \in DOMAIN location : owned[id].arrival < owned[incoming].arrival

(* Stamps are below the counter the next order is stamped with.            *)
ArrivalStamps == \A id \in DOMAIN owned : owned[id].arrival < arrivals

IInv ==
  /\ TypeOK
  /\ NoDanglingOrder
  /\ NoLeakedOrder
  /\ TimePriority
  /\ Uncrossed
  /\ RestingOrdersOpen
  /\ NoTradeThrough
  /\ IncomingOrder
  /\ ArrivalStamps

------------------------------------------------------------------------------
(* Maps and lists. *)

(* Assigning through operator[] keeps a map of the right type ...          *)
LEMMA PutIsMap ==
  ASSUME NEW f, NEW Key, NEW Value, IsMap(f, Key, Value), NEW k \in Key, NEW v \in Value
  PROVE  IsMap(Put(f, k, v), Key, Value)
BY DEF IsMap, Put

(* ... and so does erasing a key.                                         *)
LEMMA EraseIsMap ==
  ASSUME NEW f, NEW Key, NEW Value, IsMap(f, Key, Value), NEW k
  PROVE  IsMap(Erase(f, k), Key, Value)
BY DEF IsMap, Erase, Restrict

(* A level of a side, after a change to one level.                         *)
LEMMA WithLevelAt ==
  ASSUME levels = [s \in Side |-> levels[s]], NEW side \in Side, NEW price, NEW level
  PROVE  LET new == WithLevel(side, price, level)
         IN  /\ new = [s \in Side |-> new[s]]
             /\ \A s \in Side : s # side => new[s] = levels[s]
             /\ level = <<>> => new[side] = Erase(levels[side], price)
             /\ level # <<>> => new[side] = Put(levels[side], price, level)
BY DEF WithLevel, Side

(* erase(iterator) closes the gap and keeps the order of the other nodes.  *)
LEMMA EraseNodeAt ==
  ASSUME NEW S, NEW level \in Seq(S), NEW i \in 1..Len(level)
  PROVE  LET new == EraseNode(level, i)
         IN  /\ new \in Seq(S)
             /\ Len(new) = Len(level) - 1
             /\ \A j \in 1..Len(new) : new[j] = IF j < i THEN level[j] ELSE level[j + 1]
<1> DEFINE new == EraseNode(level, i)
<1>1. Len(level) \in Nat /\ Len(level) - 1 \in Nat
  OBVIOUS
<1>2. \A j \in 1..(Len(level) - 1) : (IF j < i THEN level[j] ELSE level[j + 1]) \in S
  BY <1>1
<1>3. new \in [1..(Len(level) - 1) -> S]
  BY <1>2 DEF EraseNode
<1>4. new \in Seq(S) /\ Len(new) = Len(level) - 1
  BY <1>1, <1>3
<1> QED
  BY <1>4 DEF EraseNode

(* pop_front is the erasure of the first node.                             *)
LEMMA TailAt ==
  ASSUME NEW S, NEW level \in Seq(S), level # <<>>
  PROVE  /\ Tail(level) \in Seq(S)
         /\ Len(Tail(level)) = Len(level) - 1
         /\ \A j \in 1..Len(Tail(level)) : Tail(level)[j] = level[j + 1]
         /\ Head(level) = level[1]
         /\ 1 \in 1..Len(level)
OBVIOUS

(* push_back adds a last node.                                             *)
LEMMA AppendAt ==
  ASSUME NEW S, NEW level \in Seq(S), NEW id \in S
  PROVE  LET new == Append(level, id)
         IN  /\ new \in Seq(S)
             /\ new # <<>>
             /\ Len(new) = Len(level) + 1
             /\ new[Len(new)] = id
             /\ \A j \in 1..Len(level) : j \in 1..Len(new) /\ new[j] = level[j]
<1> DEFINE new == Append(level, id)
<1>1. new \in Seq(S) /\ Len(new) = Len(level) + 1 /\ Len(level) \in Nat
  OBVIOUS
<1>2. new[Len(level) + 1] = id /\ \A j \in 1..Len(level) : new[j] = level[j]
  OBVIOUS
<1> QED
  BY <1>1, <1>2

------------------------------------------------------------------------------
(* The shape of the book: levels, index and stamps. *)

(* The first half of NoLeakedOrder.                                        *)
LocationsInLevels ==
  \A id \in DOMAIN location :
    LET loc == location[id]
    IN  /\ loc.price \in DOMAIN levels[loc.side]
        /\ \E i \in 1..Len(levels[loc.side][loc.price]) :
             levels[loc.side][loc.price][i] = id

LevelsTyped ==
  /\ levels = [s \in Side |-> levels[s]]
  /\ \A s \in Side : IsMap(levels[s], Price, Seq(OrderId))

LocationTyped == IsMap(location, OrderId, [side : Side, price : Price])

Shape ==
  /\ LevelsTyped
  /\ LocationTyped
  /\ NoDanglingOrder
  /\ LocationsInLevels
  /\ TimePriority
  /\ Uncrossed

(* Strictly increasing stamps: no order is twice in a level.               *)
LEMMA LevelInjective ==
  ASSUME TypeOK, NoDanglingOrder, TimePriority,
         NEW s \in Side, NEW p \in DOMAIN levels[s],
         NEW i \in 1..Len(levels[s][p]), NEW j \in 1..Len(levels[s][p]),
         levels[s][p][i] = levels[s][p][j]
  PROVE  i = j
<1>1. levels[s][p] \in Seq(OrderId) /\ levels[s][p][i] \in DOMAIN owned
  BY DEF TypeOK, NoDanglingOrder, IsMap
<1>2. owned[levels[s][p][i]].arrival \in Nat
  BY <1>1 DEF TypeOK, IsMap, OrderObjects
<1>3. ~(i < j) /\ ~(j < i)
  BY <1>2 DEF TimePriority
<1> QED
  BY <1>1, <1>3

(* Removing the node of one order, wherever it is in its level, together   *)
(* with its entry in orderLocation_ keeps the shape of the book: this is   *)
(* what a fill does at the front and cancelOrder anywhere.                 *)
LEMMA RemoveNode ==
  ASSUME TypeOK, NoDanglingOrder, LocationsInLevels, TimePriority, Uncrossed,
         NEW id \in DOMAIN location, NEW side, NEW price, NEW i, NEW new,
         location[id] = [side |-> side, price |-> price],
         i \in 1..Len(levels[side][price]), levels[side][price][i] = id,
         new \in Seq(OrderId), Len(new) = Len(levels[side][price]) - 1,
         \A j \in 1..Len(new) : new[j] = IF j < i THEN levels[side][price][j]
                                                 ELSE levels[side][price][j + 1],
         levels' = WithLevel(side, price, new),
         location' = Erase(location, id),
         \A x \in DOMAIN location \ {id} :
            x \in DOMAIN owned' /\ owned'[x].arrival = owned[x].arrival
  PROVE  Shape' /\ \A s \in Side : DOMAIN levels'[s] \subseteq DOMAIN levels[s]
<1> DEFINE old == levels[side][price]
<1>1. /\ side \in Side /\ price \in Price /\ price \in DOMAIN levels[side]
      /\ old \in Seq(OrderId) /\ Len(old) \in Nat
  <2>1. location[id].side = side /\ location[id].price = price
    OBVIOUS
  <2>2. location[id] \in [side : Side, price : Price]
    BY DEF TypeOK, IsMap
  <2>3. side \in Side /\ price \in Price
    BY <2>1, <2>2
  <2>4. price \in DOMAIN levels[side]
    BY <2>1 DEF LocationsInLevels
  <2> QED
    BY <2>3, <2>4 DEF TypeOK, IsMap
<1>2. /\ levels' = [s \in Side |-> levels'[s]]
      /\ \A s \in Side : s # side => levels'[s] = levels[s]
      /\ new = <<>> => levels'[side] = Erase(levels[side], price)
      /\ new # <<>> => levels'[side] = Put(levels[side], price, new)
  BY <1>1, WithLevelAt DEF TypeOK
<1>3. LevelsTyped'
  <2>1. \A s \in Side : IsMap(levels[s], Price, Seq(OrderId))
    BY DEF TypeOK
  <2>2. IsMap(levels'[side], Price, Seq(OrderId))
    BY <1>1, <1>2, <2>1, PutIsMap, EraseIsMap
  <2> QED
    BY <1>2, <2>1, <2>2 DEF LevelsTyped
<1>4. LocationTyped'
  BY EraseIsMap DEF TypeOK, LocationTyped
<1>5. /\ DOMAIN location' = DOMAIN location \ {id}
      /\ \A x \in DOMAIN location' : location'[x] = location[x]
  BY DEF Erase, Restrict
<1>6. \A s \in Side : \A p \in DOMAIN levels'[s] :
        /\ p \in DOMAIN levels[s]
        /\ s # side \/ p # price => levels'[s][p] = levels[s][p]
        /\ s = side /\ p = price => levels'[s][p] = new /\ new # <<>>
  BY <1>1, <1>2 DEF Put, Erase, Restrict
<1>7. \A s \in Side : \A p \in DOMAIN levels[s] :
        s # side \/ p # price \/ new # <<>> => p \in DOMAIN levels'[s]
  BY <1>1, <1>2 DEF Put, Erase, Restrict
<1>8. \A j \in 1..Len(old) : j # i => old[j] # id
  BY <1>1, LevelInjective
<1>9. NoDanglingOrder'
  <2> SUFFICES ASSUME NEW s \in Side, NEW p \in DOMAIN levels'[s]
               PROVE  /\ levels'[s][p] # <<>>
                      /\ \A k \in 1..Len(levels'[s][p]) :
                           /\ levels'[s][p][k] \in DOMAIN owned'
                           /\ levels'[s][p][k] \in DOMAIN location'
                           /\ location'[levels'[s][p][k]] = [side |-> s, price |-> p]
    BY DEF NoDanglingOrder
  <2>1. CASE s = side /\ p = price
    <3>1. levels'[s][p] = new /\ new # <<>>
      BY <1>6, <2>1
    <3>2. ASSUME NEW k \in 1..Len(new)
          PROVE  \E j \in 1..Len(old) : j # i /\ new[k] = old[j]
      BY <1>1, <3>2
    <3>3. ASSUME NEW j \in 1..Len(old), j # i
          PROVE  /\ old[j] \in DOMAIN location \ {id}
                 /\ location[old[j]] = [side |-> s, price |-> p]
      BY <1>1, <1>8, <2>1, <3>3 DEF NoDanglingOrder
    <3> HIDE DEF old
    <3>4. ASSUME NEW k \in 1..Len(new)
          PROVE  /\ new[k] \in DOMAIN owned'
                 /\ new[k] \in DOMAIN location'
                 /\ location'[new[k]] = [side |-> s, price |-> p]
      <4>1. PICK j \in 1..Len(old) : j # i /\ new[k] = old[j]
        BY <3>2
      <4>2. /\ new[k] \in DOMAIN location \ {id}
            /\ location[new[k]] = [side |-> s, price |-> p]
        BY <3>3, <4>1
      <4> QED
        BY <1>5, <4>2
    <3> QED
      BY <3>1, <3>4
  <2>2. CASE s # side \/ p # price
    <3>1. levels'[s][p] = levels[s][p] /\ p \in DOMAIN levels[s]
      BY <1>6, <2>2
    <3>2. \A k \in 1..Len(levels[s][p]) :
            /\ levels[s][p][k] \in DOMAIN location
            /\ location[levels[s][p][k]] = [side |-> s, price |-> p]
      BY <3>1 DEF NoDanglingOrder
    <3>3. [side |-> s, price |-> p] # [side |-> side, price |-> price]
      BY <2>2
    <3>4. \A k \in 1..Len(levels[s][p]) : levels[s][p][k] # id
      BY <3>2, <3>3
    <3>5. levels[s][p] # <<>>
      BY <3>1 DEF NoDanglingOrder
    <3> QED
      BY <1>5, <3>1, <3>2, <3>4, <3>5
  <2> QED
    BY <2>1, <2>2
<1>10. LocationsInLevels'
  <2> SUFFICES ASSUME NEW x \in DOMAIN location'
               PROVE  LET loc == location'[x]
                      IN  /\ loc.price \in DOMAIN levels'[loc.side]
                          /\ \E k \in 1..Len(levels'[loc.side][loc.price]) :
                                levels'[loc.side][loc.price][k] = x
    BY DEF LocationsInLevels
  <2> DEFINE s == location[x].side
             p == location[x].price
  <2>1. x \in DOMAIN location /\ x # id /\ location'[x] = location[x]
    BY <1>5
  <2>2. s \in Side /\ p \in DOMAIN levels[s]
    BY <2>1 DEF TypeOK, IsMap, LocationsInLevels
  <2>3. PICK k \in 1..Len(levels[s][p]) : levels[s][p][k] = x
    BY <2>1 DEF LocationsInLevels
  <2>4. CASE s # side \/ p # price
    BY <1>6, <1>7, <2>1, <2>2, <2>3, <2>4
  <2>5. CASE s = side /\ p = price
    <3>1. k # i
      BY <2>1, <2>3, <2>5
    <3>2. k \in 1..Len(old) /\ Len(new) \in Nat /\ Len(new) = Len(old) - 1
      BY <1>1, <2>3, <2>5
    <3>3. \E m \in 1..Len(new) : new[m] = x
      <4>1. CASE k < i
        <5>1. k \in 1..Len(new)
          BY <3>2, <4>1
        <5> QED
          BY <2>3, <2>5, <4>1, <5>1
      <4>2. CASE k > i
        <5>1. k - 1 \in 1..Len(new) /\ ~(k - 1 < i) /\ (k - 1) + 1 = k
          BY <3>2, <4>2
        <5>2. new[k - 1] = old[k]
          BY <5>1
        <5> QED
          BY <2>3, <2>5, <5>1, <5>2
      <4> QED
        BY <3>1, <3>2, <4>1, <4>2
    <3>4. new # <<>>
      BY <3>3
    <3> QED
      BY <1>6, <1>7, <2>1, <2>2, <2>5, <3>3, <3>4
  <2> QED
    BY <2>4, <2>5
<1>11. TimePriority'
  <2> SUFFICES ASSUME NEW s \in Side, NEW p \in DOMAIN levels'[s],
                      NEW j \in 1..Len(levels'[s][p]), NEW k \in 1..Len(levels'[s][p]),
                      j < k
               PROVE  owned'[levels'[s][p][j]].arrival < owned'[levels'[s][p][k]].arrival
    BY DEF TimePriority
  <2>1. \A x \in DOMAIN location' : owned'[x].arrival = owned[x].arrival
    BY <1>5
  <2>2. levels'[s][p][j] \in DOMAIN location' /\ levels'[s][p][k] \in DOMAIN location'
    BY <1>9 DEF NoDanglingOrder
  <2>3. owned[levels'[s][p][j]].arrival < owned[levels'[s][p][k]].arrival
    <3>1. CASE s = side /\ p = price
      <4>1. levels'[s][p] = new
        BY <1>6, <3>1
      <4>2. \E a, b \in 1..Len(old) : a < b /\ new[j] = old[a] /\ new[k] = old[b]
        <5>1. /\ (IF j < i THEN j ELSE j + 1) \in 1..Len(old)
              /\ (IF k < i THEN k ELSE k + 1) \in 1..Len(old)
              /\ (IF j < i THEN j ELSE j + 1) < (IF k < i THEN k ELSE k + 1)
          BY <1>1, <4>1
        <5>2. /\ new[j] = old[IF j < i THEN j ELSE j + 1]
              /\ new[k] = old[IF k < i THEN k ELSE k + 1]
          BY <4>1
        <5> QED
          BY <5>1, <5>2
      <4> QED
        BY <1>1, <4>1, <4>2 DEF TimePriority
    <3>2. CASE s # side \/ p # price
      <4>1. p \in DOMAIN levels[s] /\ levels'[s][p] = levels[s][p]
        BY <1>6, <3>2
      <4> QED
        BY <4>1 DEF TimePriority
    <3> QED
      BY <3>1, <3>2
  <2> QED
    BY <2>1, <2>2, <2>3
<1>12. Uncrossed'
  BY <1>6 DEF Uncrossed, Side
<1> QED
  BY <1>3, <1>4, <1>6, <1>9, <1>10, <1>11, <1>12 DEF Shape

(* new is level with id at its back.                                       *)
IsAppended(level, new, id) ==
  /\ level \in Seq(OrderId) /\ Len(level) \in Nat
  /\ new \in Seq(OrderId) /\ new # <<>> /\ Len(new) = Len(level) + 1
  /\ new[Len(new)] = id
  /\ \A j \in 1..Len(level) : j \in 1..Len(new) /\ new[j] = level[j]

(* Appending an order at the back of its level, with its entry in          *)
(* orderLocation_, keeps the shape of the book when the order is the       *)
(* youngest and its price does not reach the other side: this is           *)
(* restInBook after the loop of matchIncoming.                             *)
LEMMA NodeAppended ==
  ASSUME TypeOK, NoDanglingOrder, LocationsInLevels, TimePriority, Uncrossed,
         NEW id \in OrderId, id \notin DOMAIN location,
         NEW side \in Side, NEW price \in Price,
         NEW level, NEW new, IsAppended(level, new, id),
         level = IF price \in DOMAIN levels[side] THEN levels[side][price] ELSE <<>>,
         levels' = WithLevel(side, price, new),
         location' = Put(location, id, [side |-> side, price |-> price]),
         id \in DOMAIN owned',
         \A x \in DOMAIN location : /\ x \in DOMAIN owned'
                                    /\ owned'[x].arrival = owned[x].arrival
                                    /\ owned[x].arrival < owned'[id].arrival,
         side = "BUY" => \A ask \in DOMAIN levels["SELL"] : price < ask,
         side = "SELL" => \A bid \in DOMAIN levels["BUY"] : bid < price
  PROVE  Shape'
<1>1. /\ level \in Seq(OrderId) /\ Len(level) \in Nat
      /\ new \in Seq(OrderId) /\ new # <<>> /\ Len(new) = Len(level) + 1
      /\ new[Len(new)] = id
      /\ \A j \in 1..Len(level) : j \in 1..Len(new) /\ new[j] = level[j]
  BY DEF IsAppended
<1>a. levels' = WithLevel(side, price, new)
  OBVIOUS
<1>2. /\ levels' = [s \in Side |-> levels'[s]]
      /\ \A s \in Side : s # side => levels'[s] = levels[s]
      /\ levels'[side] = Put(levels[side], price, new)
  BY <1>1, <1>a, WithLevelAt DEF TypeOK
<1>3. LevelsTyped'
  <2>1. \A s \in Side : IsMap(levels[s], Price, Seq(OrderId))
    BY DEF TypeOK
  <2>2. IsMap(levels'[side], Price, Seq(OrderId))
    BY <1>1, <1>2, <2>1, PutIsMap
  <2> QED
    BY <1>2, <2>1, <2>2 DEF LevelsTyped
<1>4. LocationTyped'
  BY PutIsMap DEF TypeOK, LocationTyped
<1>5. /\ DOMAIN location' = DOMAIN location \cup {id}
      /\ \A x \in DOMAIN location : location'[x] = location[x]
      /\ location'[id] = [side |-> side, price |-> price]
  BY DEF Put
<1>6. \A s \in Side : \A p \in DOMAIN levels'[s] :
        /\ s # side \/ p # price => p \in DOMAIN levels[s] /\ levels'[s][p] = levels[s][p]
        /\ s = side /\ p = price => levels'[s][p] = new
  BY <1>2 DEF Put
<1>7. /\ price \in DOMAIN levels'[side] /\ levels'[side][price] = new
      /\ \A s \in Side : \A p \in DOMAIN levels[s] : p \in DOMAIN levels'[s]
  BY <1>2 DEF Put
<1>8. \A j \in 1..Len(level) :
        /\ level[j] \in DOMAIN location
        /\ location[level[j]] = [side |-> side, price |-> price]
  <2>1. CASE price \in DOMAIN levels[side]
    BY <2>1 DEF NoDanglingOrder
  <2>2. CASE price \notin DOMAIN levels[side]
    BY <2>2
  <2> QED
    BY <2>1, <2>2
<1>9. NoDanglingOrder'
  <2> SUFFICES ASSUME NEW s \in Side, NEW p \in DOMAIN levels'[s]
               PROVE  /\ levels'[s][p] # <<>>
                      /\ \A k \in 1..Len(levels'[s][p]) :
                           /\ levels'[s][p][k] \in DOMAIN owned'
                           /\ levels'[s][p][k] \in DOMAIN location'
                           /\ location'[levels'[s][p][k]] = [side |-> s, price |-> p]
    BY DEF NoDanglingOrder
  <2>1. CASE s = side /\ p = price
    <3>1. levels'[s][p] = new
      BY <1>6, <2>1
    <3>2. ASSUME NEW k \in 1..Len(new)
          PROVE  /\ new[k] \in DOMAIN location'
                 /\ location'[new[k]] = [side |-> s, price |-> p]
      <4>1. CASE k = Len(new)
        BY <1>1, <1>5, <2>1, <4>1
      <4>2. CASE k # Len(new)
        <5>1. k \in 1..Len(level)
          BY <1>1, <4>2
        <5> QED
          BY <1>1, <1>5, <1>8, <2>1, <5>1
      <4> QED
        BY <4>1, <4>2
    <3> QED
      BY <1>1, <1>5, <3>1, <3>2
  <2>2. CASE s # side \/ p # price
    <3>1. p \in DOMAIN levels[s] /\ levels'[s][p] = levels[s][p]
      BY <1>6, <2>2
    <3>2. /\ levels[s][p] # <<>>
          /\ \A k \in 1..Len(levels[s][p]) :
               /\ levels[s][p][k] \in DOMAIN location
               /\ location[levels[s][p][k]] = [side |-> s, price |-> p]
      BY <3>1 DEF NoDanglingOrder
    <3>3. \A x \in DOMAIN location :
            x \in DOMAIN owned' /\ x \in DOMAIN location' /\ location'[x] = location[x]
      BY <1>5
    <3>4. ASSUME NEW k \in 1..Len(levels[s][p])
          PROVE  /\ levels[s][p][k] \in DOMAIN owned'
                 /\ levels[s][p][k] \in DOMAIN location'
                 /\ location'[levels[s][p][k]] = [side |-> s, price |-> p]
      BY <3>2, <3>3
    <3> QED
      BY <3>1, <3>2, <3>4
  <2> QED
    BY <2>1, <2>2
<1>10. LocationsInLevels'
  <2> SUFFICES ASSUME NEW x \in DOMAIN location'
               PROVE  LET loc == location'[x]
                      IN  /\ loc.price \in DOMAIN levels'[loc.side]
                          /\ \E k \in 1..Len(levels'[loc.side][loc.price]) :
                                levels'[loc.side][loc.price][k] = x
    BY DEF LocationsInLevels
  <2>1. CASE x = id
    <3>1. location'[x].side = side /\ location'[x].price = price
      BY <1>5, <2>1
    <3>2. Len(new) \in 1..Len(new) /\ new[Len(new)] = x
      BY <1>1, <2>1
    <3> QED
      BY <1>7, <3>1, <3>2
  <2>2. CASE x # id
    <3> DEFINE s == location[x].side
               p == location[x].price
    <3>1. x \in DOMAIN location /\ location'[x] = location[x]
      BY <1>5, <2>2
    <3>2. s \in Side /\ p \in DOMAIN levels[s]
      BY <3>1 DEF TypeOK, IsMap, LocationsInLevels
    <3>3. PICK k \in 1..Len(levels[s][p]) : levels[s][p][k] = x
      BY <3>1 DEF LocationsInLevels
    <3>4. CASE s = side /\ p = price
      <4>1. k \in 1..Len(level) /\ level[k] = x
        BY <3>2, <3>3, <3>4
      <4>2. k \in 1..Len(new) /\ new[k] = x
        BY <1>1, <4>1
      <4> QED
        BY <1>7, <3>1, <3>4, <4>2
    <3>5. CASE s # side \/ p # price
      <4>1. p \in DOMAIN levels'[s] /\ levels'[s][p] = levels[s][p]
        BY <1>6, <1>7, <3>2, <3>5
      <4> QED
        BY <3>1, <3>3, <4>1
    <3> QED
      BY <3>4, <3>5
  <2> QED
    BY <2>1, <2>2
<1>11. TimePriority'
  <2> SUFFICES ASSUME NEW s \in Side, NEW p \in DOMAIN levels'[s],
                      NEW j \in 1..Len(levels'[s][p]), NEW k \in 1..Len(levels'[s][p]),
                      j < k
               PROVE  owned'[levels'[s][p][j]].arrival < owned'[levels'[s][p][k]].arrival
    BY DEF TimePriority
  <2>1. CASE s = side /\ p = price
    <3>1. levels'[s][p] = new
      BY <1>6, <2>1
    <3>a. j \in 1..Len(new) /\ k \in 1..Len(new) /\ Len(new) = Len(level) + 1
      BY <1>1, <3>1
    <3>b. j \in 1..Len(level)
      BY <1>1, <3>a
    <3>2. j \in 1..Len(level) /\ new[j] = level[j] /\ level[j] \in DOMAIN location
      BY <1>1, <1>8, <3>b
    <3>3. CASE k = Len(new)
      <4>1. new[k] = id
        BY <1>1, <3>3
      <4>2. owned'[level[j]].arrival < owned'[id].arrival
        BY <3>2
      <4> QED
        BY <3>1, <3>2, <4>1, <4>2
    <3>4. CASE k # Len(new)
      <4>a. k \in 1..Len(level)
        BY <1>1, <3>a, <3>4
      <4>1. k \in 1..Len(level) /\ new[k] = level[k] /\ level[k] \in DOMAIN location
        BY <1>1, <1>8, <4>a
      <4>2. price \in DOMAIN levels[side] /\ level = levels[side][price]
        BY <4>1
      <4>3. owned[level[j]].arrival < owned[level[k]].arrival
        BY <3>2, <4>1, <4>2 DEF TimePriority
      <4> QED
        BY <3>1, <3>2, <4>1, <4>3
    <3> QED
      BY <3>3, <3>4
  <2>2. CASE s # side \/ p # price
    <3>1. p \in DOMAIN levels[s] /\ levels'[s][p] = levels[s][p]
      BY <1>6, <2>2
    <3>2. levels[s][p][j] \in DOMAIN location /\ levels[s][p][k] \in DOMAIN location
      BY <3>1 DEF NoDanglingOrder
    <3> QED
      BY <3>1, <3>2 DEF TimePriority
  <2> QED
    BY <2>1, <2>2
<1>12. Uncrossed'
  BY <1>6 DEF Uncrossed, Side
<1> QED
  BY <1>3, <1>4, <1>9, <1>10, <1>11, <1>12 DEF Shape

(* ... and with the list push_back makes.                                  *)
LEMMA AppendNode ==
  ASSUME TypeOK, NoDanglingOrder, LocationsInLevels, TimePriority, Uncrossed,
         NEW id \in OrderId, id \notin DOMAIN location,
         NEW side \in Side, NEW price \in Price, NEW level,
         level = IF price \in DOMAIN levels[side] THEN levels[side][price] ELSE <<>>,
         levels' = WithLevel(side, price, Append(level, id)),
         location' = Put(location, id, [side |-> side, price |-> price]),
         id \in DOMAIN owned',
         \A x \in DOMAIN location : /\ x \in DOMAIN owned'
                                    /\ owned'[x].arrival = owned[x].arrival
                                    /\ owned[x].arrival < owned'[id].arrival,
         side = "BUY" => \A ask \in DOMAIN levels["SELL"] : price < ask,
         side = "SELL" => \A bid \in DOMAIN levels["BUY"] : bid < price
  PROVE  Shape'
<1>1. level \in Seq(OrderId)
  BY DEF TypeOK, IsMap
<1>2. PICK new : new = Append(level, id)
  OBVIOUS
<1>3. IsAppended(level, new, id)
  BY <1>1, <1>2, AppendAt DEF IsAppended
<1>4. levels' = WithLevel(side, price, new)
  BY <1>2
<1> QED
  BY <1>3, <1>4, NodeAppended

(* A step that only rewrites order objects keeps the shape of the book.    *)
LEMMA SameNodes ==
  ASSUME TypeOK, NoDanglingOrder, LocationsInLevels, TimePriority, Uncrossed,
         levels' = levels, location' = location,
         \A x \in DOMAIN location : x \in DOMAIN owned' /\ owned'[x].arrival = owned[x].arrival
  PROVE  Shape'
<1>a. LevelsTyped' /\ LocationTyped'
  BY DEF TypeOK, LevelsTyped, LocationTyped, IsMap
<1>b. LocationsInLevels'
  BY DEF LocationsInLevels
<1>1. LevelsTyped' /\ LocationTyped' /\ LocationsInLevels' /\ Uncrossed'
  BY <1>a, <1>b DEF Uncrossed
<1>2. NoDanglingOrder'
  <2> SUFFICES ASSUME NEW s \in Side, NEW p \in DOMAIN levels'[s]
               PROVE  /\ levels'[s][p] # <<>>
                      /\ \A k \in 1..Len(levels'[s][p]) :
                           /\ levels'[s][p][k] \in DOMAIN owned'
                           /\ levels'[s][p][k] \in DOMAIN location'
                           /\ location'[levels'[s][p][k]] = [side |-> s, price |-> p]
    BY DEF NoDanglingOrder
  <2> QED
    BY DEF NoDanglingOrder
<1>3. TimePriority'
  <2> SUFFICES ASSUME NEW s \in Side, NEW p \in DOMAIN levels[s],
                      NEW j \in 1..Len(levels[s][p]), NEW k \in 1..Len(levels[s][p]),
                      j < k
               PROVE  owned'[levels[s][p][j]].arrival < owned'[levels[s][p][k]].arrival
    BY DEF TimePriority
  <2>1. levels[s][p][j] \in DOMAIN location /\ levels[s][p][k] \in DOMAIN location
    BY DEF NoDanglingOrder
  <2> QED
    BY <2>1 DEF TimePriority
<1> QED
  BY <1>1, <1>2, <1>3 DEF Shape

------------------------------------------------------------------------------
(* One iteration of matchIncoming. *)

(* A fill of `qty` between the incoming order and `resting`.               *)
FillOf(resting, qty) ==
  LET order == owned[incoming]
      rest  == owned[resting]
      other == Opposite(order.side)
      best  == location[resting].price
  IN  /\ resting \in DOMAIN location
      /\ location[resting] = [side |-> other, price |-> best]
      /\ best \in Best(other)
      /\ resting = levels[other][best][1]
      /\ PriceOk(order, best)
      /\ qty \in Nat /\ qty > 0 /\ qty <= order.remaining /\ qty <= rest.remaining
      /\ qty = order.remaining \/ qty = rest.remaining
      /\ trades' = Append(trades, Trade(order.side, incoming, resting, best, qty))
      /\ \/ /\ rest.remaining = qty
            /\ levels' = WithLevel(other, best, Tail(levels[other][best]))
            /\ location' = Erase(location, resting)
            /\ DOMAIN owned' = DOMAIN owned \ {resting}
         \/ /\ rest.remaining > qty
            /\ levels' = levels /\ location' = location
            /\ DOMAIN owned' = DOMAIN owned
            /\ owned'[resting] = Filled(rest, qty, "PARTIALLY_FILLED")
      /\ owned' = [x \in DOMAIN owned' |-> owned'[x]]
      /\ owned'[incoming] = Filled(order, qty, order.status)
      /\ \A x \in DOMAIN owned' : x # incoming /\ x # resting => owned'[x] = owned[x]

(* What a fill does to an order object.                                    *)
LEMMA FilledFields ==
  ASSUME NEW order \in OrderObjects, NEW qty \in Nat, qty <= order.remaining,
         NEW status \in OrderStatus
  PROVE  LET new == Filled(order, qty, status)
         IN  /\ new \in OrderObjects
             /\ new.remaining = order.remaining - qty
             /\ new.status = status
             /\ new.kind = order.kind /\ new.side = order.side /\ new.price = order.price
             /\ new.quantity = order.quantity /\ new.arrival = order.arrival
<1>1. order.remaining \in Nat
  BY DEF OrderObjects
<1>2. /\ ReducedBy(order.remaining, qty) = order.remaining - qty
      /\ order.remaining - qty \in Nat
  BY <1>1 DEF ReducedBy
<1> QED
  BY <1>2 DEF Filled, OrderObjects

(* The order being matched is owned and is not in the book; a resting      *)
(* order is a third one.                                                   *)
LEMMA IncomingOwned ==
  ASSUME IInv, ~Idle
  PROVE  /\ incoming \in OrderId
         /\ incoming \in DOMAIN owned
         /\ incoming \notin DOMAIN location
         /\ owned[incoming] \in OrderObjects
         /\ Opposite(owned[incoming].side) \in Side
         /\ \A id \in DOMAIN location : id \in DOMAIN owned /\ owned[id] \in OrderObjects
<1>1. incoming \in OrderId /\ incoming # NoOrder
  BY DEF IInv, TypeOK, Idle
<1>2. incoming \in DOMAIN owned /\ incoming \notin DOMAIN location
  BY <1>1 DEF IInv, NoLeakedOrder
<1>3. \A id \in DOMAIN owned : owned[id] \in OrderObjects
  BY DEF IInv, TypeOK, IsMap
<1>4. DOMAIN location \subseteq DOMAIN owned
  BY DEF IInv, NoLeakedOrder
<1>5. Opposite(owned[incoming].side) \in Side
  BY DEF Opposite, Side
<1> QED
  BY <1>1, <1>2, <1>3, <1>4, <1>5

(* A fill trades a positive quantity that both orders have, and what it    *)
(* leaves of the resting order is the difference: the clamp at 0 in        *)
(* reduceQuantity has nothing to do.                                       *)
LEMMA FillQuantity ==
  ASSUME NEW a \in Nat, NEW b \in Nat, a > 0, b > 0
  PROVE  /\ MinQty(a, b) \in Nat /\ MinQty(a, b) > 0
         /\ MinQty(a, b) <= a /\ MinQty(a, b) <= b
         /\ MinQty(a, b) = a \/ MinQty(a, b) = b
         /\ ReducedBy(b, MinQty(a, b)) = b - MinQty(a, b)
BY DEF MinQty, ReducedBy

(* What one iteration of matchIncoming does, with its LETs unfolded: the   *)
(* level and the resting order it picks, and the trade it records.         *)
LEMMA MatchStepFills ==
  ASSUME IInv, MatchStep
  PROVE  \E resting \in DOMAIN location, qty \in Nat : FillOf(resting, qty)
<1> DEFINE order == owned[incoming]
           other == Opposite(order.side)
<1>1. ~Idle /\ order.remaining > 0
  BY DEF MatchStep
<1>2. /\ incoming \in DOMAIN owned /\ incoming \notin DOMAIN location
      /\ order \in OrderObjects /\ other \in Side
      /\ \A id \in DOMAIN location : id \in DOMAIN owned /\ owned[id] \in OrderObjects
  BY <1>1, IncomingOwned
<1>3. PICK best \in Best(other) :
        LET level    == levels[other][best]
            resting  == Head(level)
            tradeQty == MinQty(order.remaining, owned[resting].remaining)
            left     == ReducedBy(owned[resting].remaining, tradeQty)
            reduced  == Put(owned, incoming, Filled(order, tradeQty, order.status))
        IN  /\ PriceOk(order, best)
            /\ trades' = Append(trades, Trade(order.side, incoming, resting, best, tradeQty))
            /\ \/ /\ left = 0
                  /\ levels' = WithLevel(other, best, Tail(level))
                  /\ location' = Erase(location, resting)
                  /\ owned' = Erase(reduced, resting)
               \/ /\ left # 0
                  /\ owned' = Put(reduced, resting,
                                  Filled(owned[resting], tradeQty, "PARTIALLY_FILLED"))
                  /\ UNCHANGED <<levels, location>>
  BY DEF MatchStep
<1> DEFINE level    == levels[other][best]
           resting  == Head(level)
           rest     == owned[resting]
           tradeQty == MinQty(order.remaining, rest.remaining)
           left     == ReducedBy(rest.remaining, tradeQty)
           reduced  == Put(owned, incoming, Filled(order, tradeQty, order.status))
<1>4. /\ best \in DOMAIN levels[other]
      /\ level \in Seq(OrderId) /\ level # <<>>
  BY <1>2 DEF Best, IInv, TypeOK, IsMap, NoDanglingOrder
<1>5. resting = level[1] /\ 1 \in 1..Len(level)
  BY <1>4, TailAt
<1>6. resting \in DOMAIN location /\ location[resting] = [side |-> other, price |-> best]
  BY <1>2, <1>4, <1>5 DEF IInv, NoDanglingOrder
<1>7. resting \in DOMAIN owned /\ resting # incoming /\ rest \in OrderObjects
  BY <1>2, <1>6
<1>8. rest.remaining \in Nat /\ order.remaining \in Nat
  BY <1>2, <1>7 DEF OrderObjects
<1>9. rest.remaining > 0
  BY <1>6 DEF IInv, RestingOrdersOpen
<1>10. /\ tradeQty \in Nat /\ tradeQty > 0
       /\ tradeQty <= order.remaining /\ tradeQty <= rest.remaining
       /\ tradeQty = order.remaining \/ tradeQty = rest.remaining
  BY <1>1, <1>8, <1>9, FillQuantity
<1>11. left = rest.remaining - tradeQty
  BY <1>1, <1>8, <1>9, FillQuantity
<1>14. location[resting].price = best
  BY <1>6
<1> HIDE DEF tradeQty, left, order, rest, resting, level, other
<1>15. CASE /\ left = 0
            /\ levels' = WithLevel(other, best, Tail(level))
            /\ location' = Erase(location, resting)
            /\ owned' = Erase(reduced, resting)
  <2>1. /\ DOMAIN owned' = DOMAIN owned \ {resting}
        /\ owned' = [x \in DOMAIN owned' |-> owned'[x]]
        /\ owned'[incoming] = Filled(order, tradeQty, order.status)
        /\ \A x \in DOMAIN owned' : x # incoming /\ x # resting => owned'[x] = owned[x]
    BY <1>2, <1>7, <1>15 DEF Put, Erase, Restrict
  <2>2. rest.remaining = tradeQty
    BY <1>8, <1>10, <1>11, <1>15
  <2>3. FillOf(resting, tradeQty)
    BY <1>3, <1>5, <1>6, <1>10, <1>14, <1>15, <2>1, <2>2
    DEF FillOf, order, rest, other, level, resting, tradeQty
  <2> QED
    BY <1>6, <1>10, <2>3
<1>16. CASE /\ left # 0
            /\ owned' = Put(reduced, resting, Filled(rest, tradeQty, "PARTIALLY_FILLED"))
            /\ UNCHANGED <<levels, location>>
  <2>1. /\ DOMAIN owned' = DOMAIN owned
        /\ owned' = [x \in DOMAIN owned' |-> owned'[x]]
        /\ owned'[incoming] = Filled(order, tradeQty, order.status)
        /\ owned'[resting] = Filled(rest, tradeQty, "PARTIALLY_FILLED")
        /\ \A x \in DOMAIN owned' : x # incoming /\ x # resting => owned'[x] = owned[x]
    BY <1>2, <1>7, <1>16 DEF Put
  <2>2. rest.remaining > tradeQty
    BY <1>8, <1>10, <1>11, <1>16
  <2>3. FillOf(resting, tradeQty)
    BY <1>3, <1>5, <1>6, <1>10, <1>14, <1>16, <2>1, <2>2
    DEF FillOf, order, rest, other, level, resting, tradeQty
  <2> QED
    BY <1>6, <1>10, <2>3
<1> QED
  BY <1>3, <1>15, <1>16 DEF order, other, level, resting, tradeQty, left, rest

(* A fill preserves the invariant.                                         *)
LEMMA MatchStepInv ==
  ASSUME IInv, MatchStep
  PROVE  IInv'
<1> DEFINE order == owned[incoming]
           other == Opposite(order.side)
<1>1. ~Idle /\ incoming' = incoming /\ ret' = ret /\ arrivals' = arrivals
  BY DEF MatchStep
<1>2. /\ incoming \in OrderId /\ incoming \in DOMAIN owned /\ incoming \notin DOMAIN location
      /\ order \in OrderObjects /\ other \in Side
      /\ \A id \in DOMAIN location : id \in DOMAIN owned /\ owned[id] \in OrderObjects
  BY <1>1, IncomingOwned
<1>3. PICK resting \in DOMAIN location, qty \in Nat : FillOf(resting, qty)
  BY MatchStepFills
<1> DEFINE rest == owned[resting]
           best == location[resting].price
<1>4. /\ location[resting] = [side |-> other, price |-> best]
      /\ best \in Best(other) /\ best \in DOMAIN levels[other]
      /\ resting = levels[other][best][1]
      /\ PriceOk(order, best)
      /\ qty > 0 /\ qty <= order.remaining /\ qty <= rest.remaining
      /\ trades' = Append(trades, Trade(order.side, incoming, resting, best, qty))
  BY <1>3 DEF FillOf, Best
<1>5. resting \in DOMAIN owned /\ resting # incoming /\ rest \in OrderObjects
  BY <1>2
<1>6. /\ owned' = [x \in DOMAIN owned' |-> owned'[x]]
      /\ owned'[incoming] = Filled(order, qty, order.status)
      /\ \A x \in DOMAIN owned' : x # incoming /\ x # resting => owned'[x] = owned[x]
      /\ \/ DOMAIN owned' = DOMAIN owned \ {resting}
         \/ /\ DOMAIN owned' = DOMAIN owned
            /\ owned'[resting] = Filled(rest, qty, "PARTIALLY_FILLED")
  BY <1>3 DEF FillOf
<1>7. order.status \in OrderStatus /\ "PARTIALLY_FILLED" \in OrderStatus
  BY <1>2 DEF OrderObjects, OrderStatus
<1>8. /\ owned'[incoming] \in OrderObjects
      /\ owned'[incoming].remaining = order.remaining - qty
      /\ owned'[incoming].kind = order.kind /\ owned'[incoming].side = order.side
      /\ owned'[incoming].price = order.price /\ owned'[incoming].quantity = order.quantity
      /\ owned'[incoming].arrival = order.arrival
  BY <1>2, <1>4, <1>6, <1>7, FilledFields
<1>9. resting \in DOMAIN owned' =>
        /\ owned'[resting] \in OrderObjects
        /\ owned'[resting].remaining = rest.remaining - qty
        /\ owned'[resting].status = "PARTIALLY_FILLED"
        /\ owned'[resting].kind = rest.kind /\ owned'[resting].side = rest.side
        /\ owned'[resting].price = rest.price /\ owned'[resting].quantity = rest.quantity
        /\ owned'[resting].arrival = rest.arrival
  BY <1>4, <1>5, <1>6, <1>7, FilledFields
<1>10. IsMap(owned', OrderId, OrderObjects)
  <2>1. DOMAIN owned' \subseteq DOMAIN owned /\ DOMAIN owned \subseteq OrderId
    BY <1>6 DEF IInv, TypeOK, IsMap
  <2>2. \A x \in DOMAIN owned : owned[x] \in OrderObjects
    BY DEF IInv, TypeOK, IsMap
  <2>3. ASSUME NEW x \in DOMAIN owned' PROVE owned'[x] \in OrderObjects
    BY <1>6, <1>8, <1>9, <2>1, <2>2
  <2> QED
    BY <1>6, <2>1, <2>3 DEF IsMap
<1>11. \A x \in DOMAIN owned' : x \in DOMAIN owned /\ owned'[x].arrival = owned[x].arrival
  BY <1>6, <1>8, <1>9
<1>12. /\ TypeOK /\ NoDanglingOrder /\ LocationsInLevels /\ TimePriority /\ Uncrossed
       /\ levels[other][best] \in Seq(OrderId) /\ levels[other][best] # <<>>
  <2>1. TypeOK /\ NoDanglingOrder /\ LocationsInLevels /\ TimePriority /\ Uncrossed
    BY DEF IInv, NoLeakedOrder, LocationsInLevels
  <2>2. best \in DOMAIN levels[other]
    BY <1>4 DEF Best
  <2> QED
    BY <1>2, <2>1, <2>2 DEF TypeOK, IsMap, NoDanglingOrder
<1>13. /\ Shape'
       /\ \A s \in Side : DOMAIN levels'[s] \subseteq DOMAIN levels[s]
  <2>1. CASE /\ levels' = WithLevel(other, best, Tail(levels[other][best]))
             /\ location' = Erase(location, resting)
             /\ DOMAIN owned' = DOMAIN owned \ {resting}
    <3> DEFINE old == levels[other][best]
               new == Tail(old)
    <3>1. \A x \in DOMAIN location \ {resting} :
            x \in DOMAIN owned' /\ owned'[x].arrival = owned[x].arrival
      BY <1>2, <1>11, <2>1
    <3>2. /\ new \in Seq(OrderId) /\ Len(new) = Len(old) - 1
          /\ \A j \in 1..Len(new) : new[j] = old[j + 1]
          /\ 1 \in 1..Len(old)
      BY <1>12, TailAt
    <3>3. \A j \in 1..Len(new) : new[j] = IF j < 1 THEN old[j] ELSE old[j + 1]
      BY <3>2
    <3>4. old[1] = resting /\ location[resting] = [side |-> other, price |-> best]
      BY <1>4
    <3> HIDE DEF new, other, best
    <3> QED
      BY <1>12, <2>1, <3>1, <3>2, <3>3, <3>4, RemoveNode, ZenonT(60) DEF new
  <2>2. CASE levels' = levels /\ location' = location /\ DOMAIN owned' = DOMAIN owned
    <3>1. \A x \in DOMAIN location :
            x \in DOMAIN owned' /\ owned'[x].arrival = owned[x].arrival
      BY <1>2, <1>11, <2>2
    <3>2. Shape'
      BY <1>12, <2>2, <3>1, SameNodes
    <3> QED
      BY <2>2, <3>2
  <2> QED
    BY <1>3, <2>1, <2>2 DEF FillOf
<1>14. /\ DOMAIN owned' = DOMAIN location' \cup {incoming}
       /\ DOMAIN location' \subseteq DOMAIN location
       /\ \A x \in DOMAIN location' : location'[x] = location[x]
       /\ resting \in DOMAIN location' => rest.remaining > qty
  <2>1. DOMAIN owned = DOMAIN location \cup {incoming}
    BY <1>2, BookAssumption DEF IInv, NoLeakedOrder
  <2>2. CASE location' = Erase(location, resting) /\ DOMAIN owned' = DOMAIN owned \ {resting}
    <3>1. /\ DOMAIN location' = DOMAIN location \ {resting}
          /\ \A x \in DOMAIN location' : location'[x] = location[x]
      BY <2>2 DEF Erase, Restrict
    <3> QED
      BY <1>2, <2>1, <2>2, <3>1
  <2>3. CASE location' = location /\ DOMAIN owned' = DOMAIN owned /\ rest.remaining > qty
    BY <2>1, <2>3
  <2> QED
    BY <1>3, <1>5, <2>2, <2>3 DEF FillOf
<1>15. TypeOK'
  <2>1. LevelsTyped' /\ LocationTyped'
    BY <1>13 DEF Shape
  <2>2. best \in Price
    BY <1>2, <1>4 DEF IInv, TypeOK, IsMap
  <2>3. Trade(order.side, incoming, resting, best, qty) \in Trades(OrderId, Price)
    <3>1. resting \in OrderId
      BY DEF IInv, TypeOK, IsMap
    <3> QED
      BY <1>2, <2>2, <3>1 DEF Trade, Trades
  <2>4. trades' \in Seq(Trades(OrderId, Price))
    BY <1>4, <2>3 DEF IInv, TypeOK
  <2> QED
    BY <1>1, <1>10, <2>1, <2>4 DEF TypeOK, LevelsTyped, LocationTyped, IInv
<1>16. NoLeakedOrder'
  BY <1>1, <1>2, <1>13, <1>14, BookAssumption DEF NoLeakedOrder, Shape, LocationsInLevels
<1>17. RestingOrdersOpen'
  <2> SUFFICES ASSUME NEW x \in DOMAIN location'
               PROVE  LET o == owned'[x]
                      IN  /\ o.kind = "LIMIT"
                          /\ o.side = location'[x].side /\ o.price = location'[x].price
                          /\ o.remaining > 0 /\ o.remaining <= o.quantity
                          /\ o.status = IF o.remaining = o.quantity
                                        THEN "OPEN" ELSE "PARTIALLY_FILLED"
    BY DEF RestingOrdersOpen
  <2>1. x \in DOMAIN location /\ x \in DOMAIN owned' /\ x # incoming /\ location'[x] = location[x]
    BY <1>2, <1>14
  <2>2. CASE x = resting
    <3>1. /\ rest.kind = "LIMIT" /\ rest.remaining <= rest.quantity
          /\ rest.side = location[x].side /\ rest.price = location[x].price
      BY <2>2 DEF IInv, RestingOrdersOpen
    <3>2. rest.remaining \in Nat /\ rest.quantity \in Nat /\ qty < rest.remaining /\ qty > 0
      BY <1>4, <1>5, <1>14, <2>2 DEF OrderObjects
    <3> QED
      BY <1>9, <2>1, <2>2, <3>1, <3>2
  <2>3. CASE x # resting
    <3>1. owned'[x] = owned[x]
      BY <1>6, <2>1, <2>3
    <3> QED
      BY <2>1, <3>1 DEF IInv, RestingOrdersOpen
  <2> QED
    BY <2>2, <2>3
<1>18. NoTradeThrough'
  <2>1. /\ Len(trades) \in Nat /\ Len(trades') = Len(trades) + 1
        /\ \A i \in 1..Len(trades) : trades'[i] = trades[i]
        /\ trades'[Len(trades')] = Trade(order.side, incoming, resting, best, qty)
    BY <1>4 DEF IInv, TypeOK
  <2>2. trades'[Len(trades')].price = best
    BY <2>1 DEF Trade
  <2>3. best \in Nat /\ \A p \in DOMAIN levels[other] : p \in Nat
    BY <1>2, <1>4, BookAssumption DEF IInv, TypeOK, IsMap
  <2>4. /\ order.side = "BUY" => /\ order.kind = "LIMIT" => best <= order.price
                                 /\ \A p \in DOMAIN levels[other] : best <= p
        /\ order.side = "SELL" => /\ order.kind = "LIMIT" => best >= order.price
                                  /\ \A p \in DOMAIN levels[other] : best >= p
    <3>1. order.kind = "LIMIT" => order.price \in Nat
      BY <1>1, BookAssumption DEF IInv, IncomingOrder
    <3> QED
      BY <1>4, <2>3, <3>1 DEF Best, Precedes, PriceOk, Opposite
  <2>5. order.side \in {"BUY", "SELL"}
    BY <1>2 DEF OrderObjects, Side
  <2>6. ASSUME NEW i \in 1..Len(trades')
        PROVE  \/ /\ order.side = "BUY"
                  /\ order.kind = "LIMIT" => trades'[i].price <= order.price
                  /\ \A p \in DOMAIN levels[other] : trades'[i].price <= p
               \/ /\ order.side = "SELL"
                  /\ order.kind = "LIMIT" => trades'[i].price >= order.price
                  /\ \A p \in DOMAIN levels[other] : trades'[i].price >= p
    <3>1. CASE i = Len(trades')
      BY <2>2, <2>4, <2>5, <3>1
    <3>2. CASE i # Len(trades')
      <4>1. i \in 1..Len(trades) /\ trades'[i] = trades[i]
        BY <2>1, <3>2
      <4> QED
        BY <1>1, <4>1 DEF IInv, NoTradeThrough
    <3> QED
      BY <3>1, <3>2
  <2>7. DOMAIN levels'[other] \subseteq DOMAIN levels[other]
    BY <1>2, <1>13
  <2> QED
    BY <1>1, <1>8, <2>6, <2>7 DEF NoTradeThrough, Idle
<1>19. IncomingOrder' /\ ArrivalStamps'
  <2>1. order.remaining \in Nat /\ order.quantity \in Nat
    BY <1>2 DEF OrderObjects
  <2>2. \A x \in DOMAIN owned' : owned'[x].arrival = owned[x].arrival /\ x \in DOMAIN owned
    BY <1>11
  <2>3. ArrivalStamps'
    BY <1>1, <2>2 DEF IInv, ArrivalStamps
  <2>4. /\ order.quantity > 0 /\ order.remaining <= order.quantity
        /\ order.kind = "LIMIT" => order.price \in Price
        /\ \A id \in DOMAIN location : owned[id].arrival < order.arrival
    BY <1>1 DEF IInv, IncomingOrder
  <2>5. order.remaining - qty <= order.quantity
    BY <1>4, <2>1, <2>4
  <2>6. \A id \in DOMAIN location' : owned'[id].arrival < owned'[incoming].arrival
    BY <1>8, <1>14, <2>2, <2>4
  <2> QED
    BY <1>1, <1>8, <2>3, <2>4, <2>5, <2>6 DEF IncomingOrder, Idle
<1> QED
  BY <1>13, <1>15, <1>16, <1>17, <1>18, <1>19 DEF IInv, Shape

------------------------------------------------------------------------------
(* The other steps. *)

(* An empty book satisfies the invariant.                                  *)
LEMMA InitInv == Init => IInv
<1> SUFFICES ASSUME Init PROVE IInv
  OBVIOUS
<1>1. /\ DOMAIN owned = {} /\ owned = EmptyMap
      /\ levels = [s \in Side |-> EmptyMap] /\ \A s \in Side : DOMAIN levels[s] = {}
      /\ DOMAIN location = {} /\ location = EmptyMap
      /\ incoming = NoOrder /\ trades = <<>> /\ ret = [call |-> "none"] /\ arrivals = 0
  BY DEF Init, EmptyMap
<1>2. \A V : EmptyMap \in [{} -> V]
  BY DEF EmptyMap
<1>3. TypeOK
  BY <1>1, <1>2 DEF TypeOK, IsMap, Results
<1> QED
  BY <1>1, <1>3 DEF IInv, NoDanglingOrder, NoLeakedOrder, TimePriority, Uncrossed,
                    RestingOrdersOpen, NoTradeThrough, IncomingOrder, ArrivalStamps, Idle, Side

(* A call that throws, or finds nothing to cancel, only sets its result.   *)
LEMMA OnlyResultInv ==
  ASSUME IInv, Idle, Returns(ret'), ret' \in Results,
         UNCHANGED <<owned, levels, location, incoming, arrivals>>
  PROVE  IInv'
<1>1. trades' = trades
  BY DEF IInv, IncomingOrder, Returns
<1>2. TypeOK'
  BY <1>1 DEF IInv, TypeOK, IsMap
<1>3. NoDanglingOrder' /\ TimePriority' /\ Uncrossed' /\ ArrivalStamps'
  BY DEF IInv, NoDanglingOrder, TimePriority, Uncrossed, ArrivalStamps
<1>4. NoLeakedOrder' /\ RestingOrdersOpen'
  BY DEF IInv, NoLeakedOrder, RestingOrdersOpen
<1>5. NoTradeThrough' /\ IncomingOrder'
  BY <1>1 DEF IInv, NoTradeThrough, IncomingOrder, Idle
<1> QED
  BY <1>2, <1>3, <1>4, <1>5 DEF IInv

(* addOrder takes ownership of a new order.                                *)
LEMMA AddOrderInv ==
  ASSUME IInv,
         NEW id \in OrderId, NEW kind \in OrderKind, NEW side \in Side,
         NEW quantity \in 0..MaxQuantity, NEW price \in Price \cup {0},
         AddOrder(id, kind, side, quantity, price)
  PROVE  IInv'
<1> DEFINE new == NewOrder(kind, side, quantity, price, arrivals)
<1>1. /\ Idle /\ quantity > 0 /\ (kind = "LIMIT" => price > 0)
      /\ id \notin DOMAIN owned
      /\ owned' = Put(owned, id, new)
      /\ incoming' = id /\ arrivals' = arrivals + 1
      /\ UNCHANGED <<levels, location, trades, ret>>
  BY DEF AddOrder, Constructible
<1>2. /\ new \in OrderObjects /\ new.arrival = arrivals
      /\ new.quantity > 0 /\ new.remaining <= new.quantity
      /\ new.kind = "LIMIT" => new.price \in Price
  <2>1. quantity \in Nat /\ arrivals \in Nat
    BY BookAssumption DEF IInv, TypeOK
  <2>2. kind = "LIMIT" => price \in Price
    BY <1>1
  <2> QED
    BY <1>1, <2>1, <2>2 DEF NewOrder, OrderObjects, NoPrice, OrderStatus
<1> HIDE DEF new
<1>3. /\ DOMAIN owned' = DOMAIN owned \cup {id}
      /\ owned'[id] = new
      /\ \A x \in DOMAIN owned : owned'[x] = owned[x]
  BY <1>1 DEF Put
<1>4. DOMAIN owned = DOMAIN location /\ id # NoOrder
  BY <1>1, BookAssumption DEF IInv, NoLeakedOrder, Idle
<1>5. trades = <<>>
  BY <1>1 DEF IInv, IncomingOrder
<1>6. Shape'
  <2>1. /\ TypeOK /\ NoDanglingOrder /\ LocationsInLevels /\ TimePriority /\ Uncrossed
    BY DEF IInv, NoLeakedOrder, LocationsInLevels
  <2>2. \A x \in DOMAIN location : x \in DOMAIN owned' /\ owned'[x].arrival = owned[x].arrival
    BY <1>3, <1>4
  <2> QED
    BY <1>1, <2>1, <2>2, SameNodes
<1>7. TypeOK'
  <2>1. IsMap(owned', OrderId, OrderObjects)
    BY <1>1, <1>2, PutIsMap DEF IInv, TypeOK
  <2> QED
    BY <1>1, <1>6, <2>1 DEF IInv, TypeOK, Shape, LevelsTyped, LocationTyped
<1>8. NoLeakedOrder'
  BY <1>1, <1>3, <1>4, <1>6 DEF NoLeakedOrder, Shape, LocationsInLevels
<1>9. RestingOrdersOpen'
  BY <1>1, <1>3, <1>4 DEF IInv, RestingOrdersOpen
<1>10. NoTradeThrough'
  BY <1>1, <1>5 DEF NoTradeThrough
<1>11. arrivals \in Nat /\ \A x \in DOMAIN owned : owned[x].arrival \in Nat /\ owned[x].arrival < arrivals
  BY DEF IInv, TypeOK, IsMap, OrderObjects, ArrivalStamps
<1>12. IncomingOrder' /\ ArrivalStamps'
  BY <1>1, <1>2, <1>3, <1>4, <1>11 DEF IncomingOrder, ArrivalStamps, Idle
<1> QED
  BY <1>6, <1>7, <1>8, <1>9, <1>10, <1>12 DEF IInv, Shape

(* What follows from the invariant when addOrder gives up ownership of the *)
(* incoming order, filled or cancelled, or when it puts it to rest.        *)
LEMMA AddOrderReturnsInv ==
  ASSUME IInv, AddOrderReturns
  PROVE  IInv'
<1> DEFINE order == owned[incoming]
           side  == order.side
           price == order.price
<1>1. /\ ~Idle /\ LoopEnds(order) /\ incoming' = NoOrder /\ arrivals' = arrivals
      /\ trades' = <<>> /\ ret' = [call |-> "addOrder", trades |-> trades]
  BY DEF AddOrderReturns, Returns
<1>2. /\ incoming \in OrderId /\ incoming \in DOMAIN owned /\ incoming \notin DOMAIN location
      /\ order \in OrderObjects
      /\ \A id \in DOMAIN location : id \in DOMAIN owned /\ owned[id] \in OrderObjects
  BY <1>1, IncomingOwned
<1>3. /\ TypeOK /\ NoDanglingOrder /\ LocationsInLevels /\ TimePriority /\ Uncrossed
      /\ DOMAIN owned = DOMAIN location \cup {incoming}
      /\ NoOrder \notin OrderId /\ DOMAIN location \subseteq OrderId
      /\ trades \in Seq(Trades(OrderId, Price)) /\ arrivals \in Nat
  BY <1>2, BookAssumption DEF IInv, NoLeakedOrder, LocationsInLevels, TypeOK, IsMap
<1>4. ret' \in Results
  BY <1>1, <1>3 DEF Results
<1>5. CASE owned' = Erase(owned, incoming) /\ UNCHANGED <<levels, location>>
  <2>1. /\ DOMAIN owned' = DOMAIN location
        /\ \A x \in DOMAIN location : owned'[x] = owned[x]
    BY <1>2, <1>3, <1>5 DEF Erase, Restrict
  <2>2. Shape'
    BY <1>3, <1>5, <2>1, SameNodes
  <2>3. TypeOK'
    <3>1. IsMap(owned', OrderId, OrderObjects)
      BY <1>3, <1>5, EraseIsMap DEF TypeOK
    <3> QED
      BY <1>1, <1>3, <1>4, <2>2, <3>1 DEF TypeOK, Shape, LevelsTyped, LocationTyped
  <2>4. NoLeakedOrder'
    BY <1>1, <1>3, <1>5, <2>1, <2>2 DEF NoLeakedOrder, Shape, LocationsInLevels
  <2>5. RestingOrdersOpen'
    BY <1>5, <2>1 DEF IInv, RestingOrdersOpen
  <2>6. NoTradeThrough' /\ IncomingOrder'
    BY <1>1 DEF NoTradeThrough, IncomingOrder, Idle
  <2>7. ArrivalStamps'
    BY <1>1, <1>2, <2>1 DEF IInv, ArrivalStamps
  <2> QED
    BY <2>2, <2>3, <2>4, <2>5, <2>6, <2>7 DEF IInv, Shape
<1>6. CASE order.remaining # 0 /\ order.kind = "LIMIT" /\ RestInBook(order)
  <2> DEFINE level  == IF price \in DOMAIN levels[side] THEN levels[side][price] ELSE <<>>
             status == IF order.remaining = order.quantity THEN "OPEN" ELSE "PARTIALLY_FILLED"
             rested == [order EXCEPT !.status = status]
  <2>1. /\ levels' = WithLevel(side, price, Append(level, incoming))
        /\ location' = Put(location, incoming, [side |-> side, price |-> price])
        /\ owned' = Put(owned, incoming, rested)
    BY <1>6 DEF RestInBook
  <2>2. /\ side \in Side /\ price \in Price /\ price \in Nat
        /\ order.remaining \in Nat /\ order.remaining > 0
        /\ order.remaining <= order.quantity
        /\ \A id \in DOMAIN location : owned[id].arrival < order.arrival
    <3>1. side \in Side /\ order.remaining \in Nat
      BY <1>2 DEF OrderObjects
    <3>2. /\ price \in Price /\ order.remaining <= order.quantity
          /\ \A id \in DOMAIN location : owned[id].arrival < order.arrival
      BY <1>1, <1>6 DEF IInv, IncomingOrder
    <3>3. order.remaining > 0
      BY <1>6, <3>1
    <3> QED
      BY <3>1, <3>2, <3>3, BookAssumption
  <2>3. /\ rested \in OrderObjects /\ rested.arrival = order.arrival /\ rested.kind = "LIMIT"
        /\ rested.side = side /\ rested.price = price
        /\ rested.remaining = order.remaining /\ rested.quantity = order.quantity
        /\ rested.status = status
    BY <1>2, <1>6 DEF OrderObjects, OrderStatus
  <2> HIDE DEF rested
  <2>4. /\ DOMAIN owned' = DOMAIN owned /\ owned'[incoming] = rested
        /\ \A x \in DOMAIN location : owned'[x] = owned[x]
        /\ DOMAIN location' = DOMAIN location \cup {incoming}
        /\ location'[incoming] = [side |-> side, price |-> price]
        /\ \A x \in DOMAIN location : location'[x] = location[x]
    BY <1>2, <2>1 DEF Put
  <2>5. /\ side = "BUY" => \A ask \in DOMAIN levels["SELL"] : price < ask
        /\ side = "SELL" => \A bid \in DOMAIN levels["BUY"] : bid < price
    <3>1. \A s \in Side : \A p \in DOMAIN levels[s] : p \in Nat
      BY <1>3, BookAssumption DEF TypeOK, IsMap
    <3>2. CASE side = "BUY"
      <4>1. \/ DOMAIN levels["SELL"] = {}
            \/ \E best \in Best("SELL") : ~PriceOk(order, best)
        BY <1>1, <2>2, <3>2 DEF LoopEnds, Opposite
      <4> QED
        BY <2>2, <3>1, <3>2, <4>1 DEF Best, Precedes, PriceOk, Side
    <3>3. CASE side = "SELL"
      <4>1. \/ DOMAIN levels["BUY"] = {}
            \/ \E best \in Best("BUY") : ~PriceOk(order, best)
        BY <1>1, <2>2, <3>3 DEF LoopEnds, Opposite
      <4> QED
        BY <2>2, <3>1, <3>3, <4>1 DEF Best, Precedes, PriceOk, Side
    <3> QED
      BY <3>2, <3>3
  <2>6. Shape'
    <3>1. \A x \in DOMAIN location : /\ x \in DOMAIN owned'
                                     /\ owned'[x].arrival = owned[x].arrival
                                     /\ owned[x].arrival < owned'[incoming].arrival
      BY <1>2, <2>2, <2>3, <2>4
    <3>2. incoming \in DOMAIN owned'
      BY <1>2, <2>4
    <3>3. PICK lv : lv = level
      OBVIOUS
    <3>4. /\ lv = IF price \in DOMAIN levels[side] THEN levels[side][price] ELSE <<>>
          /\ levels' = WithLevel(side, price, Append(lv, incoming))
      BY <2>1, <3>3
    <3> HIDE DEF level, side, price
    <3> QED
      BY <1>2, <1>3, <2>1, <2>2, <2>5, <3>1, <3>2, <3>4, AppendNode
  <2>7. TypeOK'
    <3>1. IsMap(owned', OrderId, OrderObjects)
      BY <1>2, <1>3, <2>1, <2>3, PutIsMap DEF TypeOK
    <3> QED
      BY <1>1, <1>3, <1>4, <2>6, <3>1 DEF TypeOK, Shape, LevelsTyped, LocationTyped
  <2>8. NoLeakedOrder'
    BY <1>1, <1>2, <1>3, <2>4, <2>6 DEF NoLeakedOrder, Shape, LocationsInLevels
  <2>9. RestingOrdersOpen'
    <3> SUFFICES ASSUME NEW x \in DOMAIN location'
                 PROVE  LET o == owned'[x]
                        IN  /\ o.kind = "LIMIT"
                            /\ o.side = location'[x].side /\ o.price = location'[x].price
                            /\ o.remaining > 0 /\ o.remaining <= o.quantity
                            /\ o.status = IF o.remaining = o.quantity
                                          THEN "OPEN" ELSE "PARTIALLY_FILLED"
      BY DEF RestingOrdersOpen
    <3>1. CASE x = incoming
      BY <2>2, <2>3, <2>4, <3>1
    <3>2. CASE x # incoming
      BY <2>4, <3>2 DEF IInv, RestingOrdersOpen
    <3> QED
      BY <3>1, <3>2
  <2>10. NoTradeThrough' /\ IncomingOrder'
    BY <1>1 DEF NoTradeThrough, IncomingOrder, Idle
  <2>11. ArrivalStamps'
    BY <1>1, <1>2, <1>3, <2>3, <2>4 DEF IInv, ArrivalStamps
  <2> QED
    BY <2>6, <2>7, <2>8, <2>9, <2>10, <2>11 DEF IInv, Shape
<1> QED
  BY <1>5, <1>6 DEF AddOrderReturns

(* cancelOrder erases the node its index entry names, or finds nothing.    *)
LEMMA CancelOrderInv ==
  ASSUME IInv, NEW id \in OrderId, CancelOrder(id)
  PROVE  IInv'
<1>1. Idle /\ incoming' = incoming /\ arrivals' = arrivals
  BY DEF CancelOrder
<1>2. CASE /\ Returns([call |-> "cancelOrder", found |-> FALSE])
           /\ UNCHANGED <<owned, levels, location>>
  <2>1. ret' = [call |-> "cancelOrder", found |-> FALSE] /\ Returns(ret')
    BY <1>2 DEF Returns
  <2>2. ret' \in Results
    BY <2>1 DEF Results
  <2> QED
    BY <1>1, <1>2, <2>1, <2>2, OnlyResultInv
<1>3. CASE /\ id \in DOMAIN location
           /\ LET loc   == location[id]
                  level == levels[loc.side][loc.price]
              IN  levels' = WithLevel(loc.side, loc.price,
                                      EraseNode(level, NodePosition(level, id)))
           /\ location' = Erase(location, id)
           /\ owned' = Erase(owned, id)
           /\ Returns([call |-> "cancelOrder", found |-> TRUE])
  <2> DEFINE side  == location[id].side
             price == location[id].price
             level == levels[side][price]
             i     == NodePosition(level, id)
             new   == EraseNode(level, i)
  <2>1. /\ TypeOK /\ NoDanglingOrder /\ LocationsInLevels /\ TimePriority /\ Uncrossed
        /\ DOMAIN owned = DOMAIN location
    BY <1>1 DEF IInv, NoLeakedOrder, LocationsInLevels, Idle
  <2>2. /\ side \in Side /\ price \in DOMAIN levels[side] /\ level \in Seq(OrderId)
        /\ location[id] = [side |-> side, price |-> price]
    BY <1>3, <2>1 DEF TypeOK, IsMap, LocationsInLevels
  <2>3. i \in 1..Len(level) /\ level[i] = id
    <3>1. \E k \in 1..Len(level) : level[k] = id
      BY <1>3, <2>1 DEF LocationsInLevels
    <3> QED
      BY <3>1 DEF NodePosition
  <2>4. /\ new \in Seq(OrderId) /\ Len(new) = Len(level) - 1
        /\ \A j \in 1..Len(new) : new[j] = IF j < i THEN level[j] ELSE level[j + 1]
    BY <2>2, <2>3, EraseNodeAt
  <2>5. /\ DOMAIN owned' = DOMAIN owned \ {id} /\ \A x \in DOMAIN owned' : owned'[x] = owned[x]
        /\ DOMAIN location' = DOMAIN location \ {id}
        /\ \A x \in DOMAIN location' : location'[x] = location[x]
    BY <1>3 DEF Erase, Restrict
  <2>6. Shape'
    <3>1. levels' = WithLevel(side, price, new)
      BY <1>3
    <3>2. \A x \in DOMAIN location \ {id} :
            x \in DOMAIN owned' /\ owned'[x].arrival = owned[x].arrival
      BY <2>1, <2>5
    <3> HIDE DEF side, price, i, new
    <3> QED
      BY <1>3, <2>1, <2>2, <2>3, <2>4, <3>1, <3>2, RemoveNode
  <2>7. TypeOK'
    <3>1. IsMap(owned', OrderId, OrderObjects)
      BY <1>3, <2>1, EraseIsMap DEF TypeOK
    <3>2. ret' \in Results /\ trades' = <<>>
      BY <1>3 DEF Returns, Results
    <3> QED
      BY <1>1, <2>1, <2>6, <3>1, <3>2 DEF TypeOK, Shape, LevelsTyped, LocationTyped
  <2>8. NoLeakedOrder'
    <3>1. NoOrder \notin OrderId /\ DOMAIN location \subseteq OrderId /\ incoming' = NoOrder
      BY <1>1, <2>1, BookAssumption DEF TypeOK, IsMap, Idle
    <3> QED
      BY <2>1, <2>5, <2>6, <3>1 DEF NoLeakedOrder, Shape, LocationsInLevels
  <2>9. RestingOrdersOpen'
    <3>1. \A x \in DOMAIN location' :
            x \in DOMAIN location /\ owned'[x] = owned[x] /\ location'[x] = location[x]
      BY <2>1, <2>5
    <3> QED
      BY <3>1 DEF IInv, RestingOrdersOpen
  <2>10. NoTradeThrough' /\ IncomingOrder'
    BY <1>1, <1>3 DEF NoTradeThrough, IncomingOrder, Idle, Returns
  <2>11. ArrivalStamps'
    BY <1>1, <2>5 DEF IInv, ArrivalStamps
  <2> QED
    BY <2>6, <2>7, <2>8, <2>9, <2>10, <2>11 DEF IInv, Shape
<1> QED
  BY <1>2, <1>3 DEF CancelOrder

(* Every step of the book preserves the invariant.                         *)
LEMMA NextInv ==
  ASSUME IInv, [Next]_vars
  PROVE  IInv'
<1>1. ASSUME NEW kind \in OrderKind, NEW quantity \in 0..MaxQuantity,
             NEW price \in Price \cup {0}, CreateOrderThrows(kind, quantity, price)
      PROVE  IInv'
  <2>1. ret' = [call |-> "createOrder", throws |-> "invalid_argument"] /\ Returns(ret')
    BY <1>1 DEF CreateOrderThrows, Returns
  <2>2. ret' \in Results
    BY <2>1 DEF Results
  <2> QED
    BY <1>1, <2>1, <2>2, OnlyResultInv DEF CreateOrderThrows
<1>2. ASSUME AddNullThrows
      PROVE  IInv'
  <2>1. ret' = [call |-> "addOrder", throws |-> "invalid_argument"] /\ Returns(ret')
    BY <1>2 DEF AddNullThrows, Returns
  <2>2. ret' \in Results
    BY <2>1 DEF Results
  <2> QED
    BY <1>2, <2>1, <2>2, OnlyResultInv DEF AddNullThrows
<1>3. ASSUME NEW id \in OrderId, NEW kind \in OrderKind, NEW quantity \in 0..MaxQuantity,
             NEW price \in Price \cup {0}, AddOrderThrows(id, kind, quantity, price)
      PROVE  IInv'
  <2>1. ret' = [call |-> "addOrder", throws |-> "invalid_argument"] /\ Returns(ret')
    BY <1>3 DEF AddOrderThrows, Returns
  <2>2. ret' \in Results
    BY <2>1 DEF Results
  <2> QED
    BY <1>3, <2>1, <2>2, OnlyResultInv DEF AddOrderThrows
<1>4. ASSUME UNCHANGED vars
      PROVE  IInv'
  <2>1. UNCHANGED <<owned, levels, location, incoming, trades, ret, arrivals>>
    BY <1>4 DEF vars
  <2>2. TypeOK'
    BY <2>1 DEF IInv, TypeOK, IsMap
  <2>3. NoDanglingOrder' /\ TimePriority' /\ Uncrossed' /\ ArrivalStamps'
    BY <2>1 DEF IInv, NoDanglingOrder, TimePriority, Uncrossed, ArrivalStamps
  <2>4. NoLeakedOrder' /\ RestingOrdersOpen'
    BY <2>1 DEF IInv, NoLeakedOrder, RestingOrdersOpen
  <2>5. NoTradeThrough' /\ IncomingOrder'
    BY <2>1 DEF IInv, NoTradeThrough, IncomingOrder, Idle
  <2> QED
    BY <2>2, <2>3, <2>4, <2>5 DEF IInv
<1> QED
  BY <1>1, <1>2, <1>3, <1>4, AddOrderInv, MatchStepInv, AddOrderReturnsInv, CancelOrderInv
  DEF Next

------------------------------------------------------------------------------
(* The results. *)

(* The invariant of src/OrderBook.cpp: it holds initially and every call,  *)
(* every fill of a call included, preserves it.                            *)
THEOREM Invariance == Spec => []IInv
<1>1. Init => IInv
  BY InitInv
<1>2. IInv /\ [Next]_vars => IInv'
  BY NextInv
<1> QED
  BY <1>1, <1>2, PTL DEF Spec

(* The maps and the trade vector always have their types.                  *)
THEOREM TypeCorrect == Spec => []TypeOK
<1>1. IInv => TypeOK
  BY DEF IInv
<1> QED
  BY <1>1, Invariance, PTL

(* A raw Order* kept in a price level always points to an owned order, in  *)
(* a level that is not empty (src/OrderBook.cpp:85-93,163-189).            *)
THEOREM MemorySafe == Spec => []NoDanglingOrder
<1>1. IInv => NoDanglingOrder
  BY DEF IInv
<1> QED
  BY <1>1, Invariance, PTL

(* No map keeps a finished order: ownedOrders_ and orderLocation_ hold the *)
(* resting orders and the one being matched (src/OrderBook.cpp:24-48).     *)
THEOREM NothingLeaked == Spec => []NoLeakedOrder
<1>1. IInv => NoLeakedOrder
  BY DEF IInv
<1> QED
  BY <1>1, Invariance, PTL

(* Orders of one price stay in arrival order.                              *)
THEOREM TimePriorityKept == Spec => []TimePriority
<1>1. IInv => TimePriority
  BY DEF IInv
<1> QED
  BY <1>1, Invariance, PTL

(* The best bid is always below the best ask.                              *)
THEOREM NeverCrossed == Spec => []Uncrossed
<1>1. IInv => Uncrossed
  BY DEF IInv
<1> QED
  BY <1>1, Invariance, PTL

(* No fill is worse than an offer left in the book, or outside the limit.  *)
THEOREM BestPriceFirst == Spec => []NoTradeThrough
<1>1. IInv => NoTradeThrough
  BY DEF IInv
<1> QED
  BY <1>1, Invariance, PTL

(* What rests is open, and has quantity left to trade.                     *)
THEOREM RestingOpen == Spec => []RestingOrdersOpen
<1>1. IInv => RestingOrdersOpen
  BY DEF IInv
<1> QED
  BY <1>1, Invariance, PTL

(* A fill takes its quantity, which is positive, from both orders and from *)
(* nothing else.                                                           *)
LEMMA StepConserves ==
  ASSUME IInv, Next
  PROVE  FillConserves
<1>1. CASE MatchStep
  <2> DEFINE order == owned[incoming]
  <2>1. ~Idle
    BY <1>1 DEF MatchStep
  <2>2. /\ incoming \in DOMAIN owned /\ incoming \notin DOMAIN location /\ order \in OrderObjects
        /\ \A id \in DOMAIN location : id \in DOMAIN owned /\ owned[id] \in OrderObjects
    BY <2>1, IncomingOwned
  <2>3. PICK resting \in DOMAIN location, qty \in Nat : FillOf(resting, qty)
    BY <1>1, MatchStepFills
  <2> DEFINE rest == owned[resting]
             best == location[resting].price
             t    == trades'[Len(trades')]
  <2>4. /\ qty > 0 /\ qty <= order.remaining /\ qty <= rest.remaining
        /\ trades' = Append(trades, Trade(order.side, incoming, resting, best, qty))
        /\ owned'[incoming] = Filled(order, qty, order.status)
        /\ \A x \in DOMAIN owned' : x # incoming /\ x # resting => owned'[x] = owned[x]
        /\ \/ DOMAIN owned' = DOMAIN owned \ {resting} /\ rest.remaining = qty
           \/ /\ DOMAIN owned' = DOMAIN owned
              /\ owned'[resting] = Filled(rest, qty, "PARTIALLY_FILLED")
    BY <2>3 DEF FillOf
  <2>5. /\ resting # incoming /\ rest \in OrderObjects /\ resting \in DOMAIN owned
        /\ order.status \in OrderStatus /\ "PARTIALLY_FILLED" \in OrderStatus
    BY <2>2 DEF OrderObjects, OrderStatus
  <2>6. t = Trade(order.side, incoming, resting, best, qty)
    BY <2>4 DEF IInv, TypeOK
  <2>7. /\ t.quantity = qty
        /\ (IF t.buyOrderId = incoming THEN t.sellOrderId ELSE t.buyOrderId) = resting
    BY <2>5, <2>6 DEF Trade
  <2>8. owned'[incoming].remaining = order.remaining - qty
    BY <2>2, <2>4, <2>5, FilledFields
  <2>9. \/ resting \in DOMAIN owned' /\ owned'[resting].remaining = rest.remaining - qty
        \/ resting \notin DOMAIN owned' /\ rest.remaining = qty
    BY <2>4, <2>5, FilledFields
  <2>10. \A id \in DOMAIN owned \ {incoming, resting} :
           id \in DOMAIN owned' /\ owned'[id] = owned[id]
    BY <2>4
  <2> HIDE DEF t
  <2> QED
    BY <2>4, <2>7, <2>8, <2>9, <2>10 DEF FillConserves, t
<1>2. CASE trades' = trades \/ trades' = <<>>
  <2>1. Len(trades) \in Nat
    BY DEF IInv, TypeOK
  <2>2. ~(Len(trades') > Len(trades))
    BY <1>2, <2>1
  <2> QED
    BY <2>2 DEF FillConserves
<1>3. MatchStep \/ trades' = trades \/ trades' = <<>>
  BY DEF Next, CreateOrderThrows, AddNullThrows, AddOrderThrows, AddOrder, AddOrderReturns,
         CancelOrder, Returns
<1> QED
  BY <1>1, <1>2, <1>3

(* The loop of matchIncoming makes progress with every fill, and a fill    *)
(* creates and destroys no quantity.                                       *)
THEOREM FillsConservative == Spec => FillsConserve
<1>1. IInv /\ [Next]_vars => [FillConserves]_vars
  BY StepConserves
<1> QED
  BY <1>1, Invariance, PTL DEF Spec, FillsConserve

------------------------------------------------------------------------------
(* The refinement: ranks and positions. *)

(* R is a strict total order on S.                                         *)
Ranks(R, S) ==
  /\ IsFiniteSet(S)
  /\ \A x \in S : <<x, x>> \notin R
  /\ \A x, y, z \in S : <<x, y>> \in R /\ <<y, z>> \in R => <<x, z>> \in R
  /\ \A x, y \in S : x # y => <<x, y>> \in R \/ <<y, x>> \in R

(* How many elements of S come before x.                                   *)
RankIn(R, S, x) == Cardinality({y \in S : <<y, x>> \in R})

(* What comes later has a higher rank, and ranks are below the size of S.  *)
LEMMA RankGrows ==
  ASSUME NEW R, NEW S, Ranks(R, S), NEW x \in S
  PROVE  /\ RankIn(R, S, x) \in Nat
         /\ RankIn(R, S, x) < Cardinality(S)
         /\ \A y \in S : <<x, y>> \in R => RankIn(R, S, x) < RankIn(R, S, y)
  <1> DEFINE Below(y) == {z \in S : <<z, y>> \in R}
  <1>0. IsFiniteSet(S) /\ Cardinality(S) \in Nat
    BY FS_CardinalityType DEF Ranks
  <1>1. ASSUME NEW y \in S PROVE IsFiniteSet(Below(y)) /\ Cardinality(Below(y)) \in Nat
    <2>1. Below(y) \in SUBSET S
      OBVIOUS
    <2> HIDE DEF Below
    <2> QED
      BY <1>0, <2>1, FS_Subset, FS_CardinalityType
  <1>2. x \notin Below(x)
    BY DEF Ranks
  <1>3. ASSUME NEW T, IsFiniteSet(T), Below(x) \in SUBSET T, x \in T
        PROVE  Cardinality(Below(x)) < Cardinality(T)
    <2>1. Below(x) # T
      BY <1>2, <1>3
    <2> HIDE DEF Below
    <2>2. Cardinality(Below(x)) <= Cardinality(T) /\ Cardinality(Below(x)) # Cardinality(T)
      BY <1>3, <2>1, FS_Subset
    <2>3. Cardinality(T) \in Nat /\ Cardinality(Below(x)) \in Nat
      BY <1>1, <1>3, FS_CardinalityType
    <2> QED
      BY <2>2, <2>3
  <1>4. Cardinality(Below(x)) < Cardinality(S)
    <2>1. Below(x) \in SUBSET S
      OBVIOUS
    <2> HIDE DEF Below
    <2> QED
      BY <1>0, <1>3, <2>1
  <1>5. ASSUME NEW y \in S, <<x, y>> \in R PROVE Cardinality(Below(x)) < Cardinality(Below(y))
    <2>1. Below(x) \in SUBSET Below(y) /\ x \in Below(y)
      BY <1>5 DEF Ranks
    <2> HIDE DEF Below
    <2> QED
      BY <1>1, <1>3, <2>1
  <1> HIDE DEF Below
  <1>6. \A y : RankIn(R, S, y) = Cardinality(Below(y))
    BY DEF RankIn, Below
  <1> QED
    BY <1>1, <1>4, <1>5, <1>6

(* Only one element has a given rank ...                                   *)
LEMMA RankUnique ==
  ASSUME NEW R, NEW S, Ranks(R, S), NEW x \in S, NEW y \in S,
         RankIn(R, S, x) = RankIn(R, S, y)
  PROVE  x = y
  <1>1. /\ RankIn(R, S, x) \in Nat /\ RankIn(R, S, y) \in Nat
        /\ <<x, y>> \in R => RankIn(R, S, x) < RankIn(R, S, y)
        /\ <<y, x>> \in R => RankIn(R, S, y) < RankIn(R, S, x)
    BY RankGrows
  <1>2. <<x, y>> \notin R /\ <<y, x>> \notin R
    BY <1>1
  <1> QED
    BY <1>2 DEF Ranks

(* ... and every rank is taken.                                            *)
LEMMA RankExists ==
  ASSUME NEW R, NEW S, Ranks(R, S), NEW k \in 1..Cardinality(S)
  PROVE  \E x \in S : RankIn(R, S, x) = k - 1
  <1> DEFINE N == Cardinality(S)
             T == (0..(N - 1)) \ {k - 1}
             f == [x \in S |-> RankIn(R, S, x)]
  <1>0. IsFiniteSet(S) /\ N \in Nat
    BY FS_CardinalityType DEF Ranks
  <1>1. SUFFICES ASSUME \A x \in S : RankIn(R, S, x) # k - 1 PROVE FALSE
    OBVIOUS
  <1>2. IsFiniteSet(T) /\ Cardinality(T) < N
    <2>1. N - 1 \in Int /\ k - 1 \in 0..(N - 1) /\ ~(0 > N - 1) /\ (N - 1) - 0 + 1 = N
      BY <1>0
    <2> HIDE DEF N
    <2>2. IsFiniteSet(0..(N - 1)) /\ Cardinality(0..(N - 1)) = N
      BY <2>1, FS_Interval
    <2>3. PICK I, e : I = 0..(N - 1) /\ e = k - 1
      OBVIOUS
    <2>4. IsFiniteSet(I) /\ Cardinality(I) = N /\ e \in I /\ T = I \ {e}
      BY <2>1, <2>2, <2>3
    <2>5. IsFiniteSet(I \ {e}) /\ Cardinality(I \ {e}) = N - 1
      BY <2>4, FS_RemoveElement
    <2> HIDE DEF T
    <2> QED
      BY <1>0, <2>4, <2>5
  <1>3. \A x \in S : RankIn(R, S, x) \in T
    <2>1. \A x \in S : RankIn(R, S, x) \in Nat /\ RankIn(R, S, x) < N
      BY RankGrows
    <2> HIDE DEF N
    <2> QED
      BY <1>0, <1>1, <2>1
  <1>4. f \in [S -> T]
    BY <1>3
  <1> HIDE DEF T, f
  <1>5. PICK x \in S, y \in S : x # y /\ f[x] = f[y]
    BY <1>0, <1>2, <1>4, FS_PigeonHole
  <1>6. RankIn(R, S, x) = RankIn(R, S, y)
    BY <1>5 DEF f
  <1> QED
    BY <1>5, <1>6, RankUnique

(* The k-th smallest of a set of numbers.                                  *)
LEMMA NthAt ==
  ASSUME NEW n \in Nat, NEW S \in SUBSET (1..n)
  PROVE  /\ Cardinality(S) \in Nat
         /\ \A k \in 1..Cardinality(S) : Nth(S, k) \in S
         /\ \A k, l \in 1..Cardinality(S) : k < l => Nth(S, k) < Nth(S, l)
         /\ \A i \in S : \E k \in 1..Cardinality(S) : Nth(S, k) = i
  <1> DEFINE R == {p \in S \X S : p[1] < p[2]}
  <1>0. IsFiniteSet(S) /\ Cardinality(S) \in Nat /\ \A i \in S : i \in Nat
    BY PositionsFinite
  <1>1. \A i, j \in S : <<i, j>> \in R <=> i < j
    OBVIOUS
  <1> HIDE DEF R
  <1>2. Ranks(R, S)
    <2>1. \A x \in S : <<x, x>> \notin R
      BY <1>0, <1>1
    <2>2. \A x, y, z \in S : <<x, y>> \in R /\ <<y, z>> \in R => <<x, z>> \in R
      BY <1>0, <1>1
    <2>3. \A x, y \in S : x # y => <<x, y>> \in R \/ <<y, x>> \in R
      BY <1>0, <1>1
    <2> QED
      BY <1>0, <2>1, <2>2, <2>3 DEF Ranks
  <1>3. ASSUME NEW i \in S PROVE Cardinality({j \in S : j < i}) = RankIn(R, S, i)
    <2>1. {j \in S : j < i} = {j \in S : <<j, i>> \in R}
      BY <1>1
    <2> QED
      BY <2>1 DEF RankIn
  <1>4. ASSUME NEW k \in 1..Cardinality(S)
        PROVE  Nth(S, k) \in S /\ RankIn(R, S, Nth(S, k)) = k - 1
    <2>1. \E i \in S : RankIn(R, S, i) = k - 1
      BY <1>2, RankExists
    <2>2. \E i \in S : Cardinality({j \in S : j < i}) = k - 1
      BY <1>3, <2>1
    <2>3. /\ Nth(S, k) \in S
          /\ Cardinality({j \in S : j < Nth(S, k)}) = k - 1
      BY <2>2, Zenon DEF Nth
    <2> QED
      BY <1>3, <2>3
  <1>5. ASSUME NEW k \in 1..Cardinality(S), NEW l \in 1..Cardinality(S), k < l
        PROVE  Nth(S, k) < Nth(S, l)
    <2>1. PICK i \in S, j \in S : i = Nth(S, k) /\ j = Nth(S, l)
      BY <1>4
    <2>2. RankIn(R, S, i) = k - 1 /\ RankIn(R, S, j) = l - 1
      BY <1>4, <2>1
    <2>3. i # j /\ <<j, i>> \notin R
      <3>1. RankIn(R, S, i) < RankIn(R, S, j) /\ RankIn(R, S, i) \in Int /\ RankIn(R, S, j) \in Int
        BY <1>0, <1>5, <2>2
      <3>2. <<j, i>> \in R => RankIn(R, S, j) < RankIn(R, S, i)
        BY <1>2, RankGrows
      <3> QED
        BY <3>1, <3>2
    <2>4. <<i, j>> \in R
      BY <1>2, <2>3 DEF Ranks
    <2> QED
      BY <1>1, <2>1, <2>4
  <1>6. ASSUME NEW i \in S PROVE \E k \in 1..Cardinality(S) : Nth(S, k) = i
    <2>1. RankIn(R, S, i) \in Nat /\ RankIn(R, S, i) < Cardinality(S)
      BY <1>2, RankGrows
    <2>2. PICK k \in 1..Cardinality(S) : k = RankIn(R, S, i) + 1
      BY <1>0, <2>1
    <2>3. Nth(S, k) \in S /\ RankIn(R, S, Nth(S, k)) = RankIn(R, S, i)
      BY <1>4, <2>1, <2>2
    <2> QED
      BY <1>2, <2>3, RankUnique
  <1> QED
    BY <1>0, <1>4, <1>5, <1>6

------------------------------------------------------------------------------
(* The resting orders as a list. *)

(* A sequence without repetitions has as many elements as positions.       *)
LEMMA CountDistinct ==
  ASSUME NEW m \in Nat, NEW f, \A i, j \in 1..m : f[i] = f[j] => i = j,
         NEW T, T = {f[i] : i \in 1..m}
  PROVE  Cardinality(T) = m
  <1> DEFINE g == [i \in 1..m |-> f[i]]
  <1>1. g \in [1..m -> T] /\ \A i \in 1..m : g[i] = f[i]
    OBVIOUS
  <1>2. \A t \in T : \E i \in 1..m : g[i] = t
    OBVIOUS
  <1> HIDE DEF g
  <1>3. DOMAIN g = 1..m /\ \A i, j \in 1..m : g[i] = g[j] => i = j
    BY <1>1
  <1>4. g \in Bijection(1..m, T)
    BY <1>1, <1>2, <1>3, Zenon DEF Bijection, Injection, Surjection, IsInjective
  <1> QED
    BY <1>4, FS_CountingElements DEF ExistsBijection

(* How a resting order appears in the abstract book.                       *)
Entry(id, loc, own) ==
  [id |-> id, side |-> loc[id].side, price |-> loc[id].price,
   quantity |-> own[id].quantity, remaining |-> own[id].remaining]

(* s lists the orders of the maps, oldest first.                           *)
IsView(s, loc, own) ==
  /\ \A id \in DOMAIN loc : \E i \in DOMAIN s : s[i].id = id
  /\ \A i \in DOMAIN s : s[i].id \in DOMAIN loc /\ s[i] = Entry(s[i].id, loc, own)
  /\ \A i, j \in DOMAIN s : i < j => own[s[i].id].arrival < own[s[j].id].arrival

Older(id, loc, own) == {other \in DOMAIN loc : own[other].arrival < own[id].arrival}

ViewOf(loc, own) ==
  LET ids == [i \in 1..Cardinality(DOMAIN loc) |->
                CHOOSE id \in DOMAIN loc : Cardinality(Older(id, loc, own)) = i - 1]
  IN  [i \in DOMAIN ids |-> Entry(ids[i], loc, own)]

(* View as an operator of the maps.                                        *)
LEMMA ViewIs == View = ViewOf(location, owned) /\ View' = ViewOf(location', owned')
  BY DEF View, ViewOf, Older, Entry

(* The view is the only list of this kind.                                 *)
LEMMA ViewUnique ==
  ASSUME NEW A, NEW s \in Seq(A), NEW loc, NEW own, \A id \in DOMAIN loc : own[id].arrival \in Nat,
         IsView(s, loc, own)
  PROVE  ViewOf(loc, own) = s
  <1> DEFINE D == DOMAIN loc
             N == Len(s)
  <1>0. N \in Nat /\ DOMAIN s = 1..N /\ s = [i \in 1..N |-> s[i]]
    OBVIOUS
  <1>1. PICK f : f = [i \in 1..N |-> s[i].id]
    OBVIOUS
  <1>2. \A i \in 1..N : f[i] = s[i].id /\ f[i] \in D /\ s[i] = Entry(f[i], loc, own)
    BY <1>0, <1>1 DEF IsView
  <1>3. \A id \in D : \E i \in 1..N : f[i] = id
    BY <1>0, <1>1 DEF IsView
  <1>4. \A i \in 1..N : own[f[i]].arrival \in Nat
    BY <1>2
  <1>5. \A i, j \in 1..N : i < j => own[f[i]].arrival < own[f[j]].arrival
    BY <1>0, <1>2 DEF IsView
  <1>6. \A i, j \in 1..N : f[i] = f[j] => i = j
    <2> SUFFICES ASSUME NEW i \in 1..N, NEW j \in 1..N, f[i] = f[j], i # j PROVE FALSE
      OBVIOUS
    <2>1. i < j \/ j < i
      BY <1>0
    <2> QED
      BY <1>4, <1>5, <2>1
  <1> HIDE DEF N, D
  <1>7. Cardinality(D) = N
    <2>1. D = {f[i] : i \in 1..N}
      BY <1>2, <1>3
    <2> QED
      BY <1>0, <1>6, <2>1, CountDistinct
  <1>8. ASSUME NEW i \in 1..N PROVE Cardinality(Older(f[i], loc, own)) = i - 1
    <2>1. i - 1 \in Nat /\ \A j \in 1..(i - 1) : j \in 1..N /\ j < i
      BY <1>0
    <2>2. Older(f[i], loc, own) = {f[j] : j \in 1..(i - 1)}
      <3>1. ASSUME NEW id \in Older(f[i], loc, own) PROVE id \in {f[j] : j \in 1..(i - 1)}
        <4>1. id \in D /\ own[id].arrival < own[f[i]].arrival
          BY DEF Older, D
        <4>2. PICK j \in 1..N : f[j] = id
          BY <1>3, <4>1
        <4>3. ~(i < j) /\ i # j
          BY <1>4, <1>5, <4>1, <4>2
        <4>4. j \in 1..(i - 1)
          BY <1>0, <4>3
        <4> QED
          BY <4>2, <4>4
      <3>2. ASSUME NEW j \in 1..(i - 1) PROVE f[j] \in Older(f[i], loc, own)
        BY <1>2, <1>5, <2>1 DEF Older, D
      <3> QED
        BY <3>1, <3>2
    <2>3. \A a, b \in 1..(i - 1) : f[a] = f[b] => a = b
      BY <1>6, <2>1
    <2> QED
      BY <2>1, <2>2, <2>3, CountDistinct
  <1>9. ASSUME NEW i \in 1..N
        PROVE  (CHOOSE id \in D : Cardinality(Older(id, loc, own)) = i - 1) = f[i]
    <2>1. f[i] \in D /\ Cardinality(Older(f[i], loc, own)) = i - 1
      BY <1>2, <1>8
    <2>2. ASSUME NEW id \in D, Cardinality(Older(id, loc, own)) = i - 1 PROVE id = f[i]
      <3>1. PICK j \in 1..N : f[j] = id
        BY <1>3
      <3>2. j - 1 = i - 1
        BY <1>8, <2>2, <3>1
      <3> QED
        BY <1>0, <3>1, <3>2
    <2> QED
      BY <2>1, <2>2
  <1> DEFINE ids == [i \in 1..Cardinality(D) |->
                       CHOOSE id \in D : Cardinality(Older(id, loc, own)) = i - 1]
  <1>10. DOMAIN ids = 1..N /\ \A i \in 1..N : ids[i] = f[i]
    BY <1>7, <1>9
  <1>11. ViewOf(loc, own) = [i \in DOMAIN ids |-> Entry(ids[i], loc, own)]
    BY DEF ViewOf, D
  <1> HIDE DEF ids
  <1>12. [i \in DOMAIN ids |-> Entry(ids[i], loc, own)] = [i \in 1..N |-> s[i]]
    BY <1>2, <1>10
  <1> QED
    BY <1>0, <1>11, <1>12

(* What Keep selects from a list of entries is a view of what it selects.  *)
LEMMA KeepView ==
  ASSUME NEW A, NEW s \in Seq(A), NEW S \in SUBSET (DOMAIN s), NEW loc, NEW own,
         \A i \in S : s[i].id \in DOMAIN loc /\ s[i] = Entry(s[i].id, loc, own),
         \A id \in DOMAIN loc : \E i \in S : s[i].id = id,
         \A i, j \in S : i < j => own[s[i].id].arrival < own[s[j].id].arrival
  PROVE  IsView(Keep(s, S), loc, own)
  <1> DEFINE N == Cardinality(S)
  <1>1. Len(s) \in Nat /\ S \in SUBSET (1..Len(s))
    OBVIOUS
  <1>2. /\ N \in Nat
        /\ \A k \in 1..N : Nth(S, k) \in S
        /\ \A k, l \in 1..N : k < l => Nth(S, k) < Nth(S, l)
        /\ \A i \in S : \E k \in 1..N : Nth(S, k) = i
    BY <1>1, NthAt
  <1>3. PICK t : t = Keep(s, S)
    OBVIOUS
  <1>4. DOMAIN t = 1..N /\ \A k \in 1..N : t[k] = s[Nth(S, k)]
    BY <1>3 DEF Keep
  <1> HIDE DEF N
  <1>5. \A id \in DOMAIN loc : \E k \in DOMAIN t : t[k].id = id
    <2> SUFFICES ASSUME NEW id \in DOMAIN loc PROVE \E k \in 1..N : t[k].id = id
      BY <1>4
    <2>1. PICK i \in S : s[i].id = id
      OBVIOUS
    <2>2. PICK k \in 1..N : Nth(S, k) = i
      BY <1>2
    <2> QED
      BY <1>4, <2>1, <2>2
  <1>6. \A k \in DOMAIN t : t[k].id \in DOMAIN loc /\ t[k] = Entry(t[k].id, loc, own)
    BY <1>2, <1>4
  <1>7. ASSUME NEW k \in DOMAIN t, NEW l \in DOMAIN t, k < l
        PROVE  own[t[k].id].arrival < own[t[l].id].arrival
    <2>1. PICK i \in S, j \in S : i = Nth(S, k) /\ j = Nth(S, l)
      BY <1>2, <1>4
    <2>2. i < j
      BY <1>2, <1>4, <1>7, <2>1
    <2> QED
      BY <1>4, <2>1, <2>2
  <1> QED
    BY <1>3, <1>5, <1>6, <1>7 DEF IsView

(* An order younger than all others goes to the end of the view.           *)
LEMMA AppendView ==
  ASSUME NEW A, NEW s \in Seq(A), NEW loc, NEW own, IsView(s, loc, own),
         NEW loc2, NEW own2, NEW id,
         DOMAIN loc2 = DOMAIN loc \cup {id},
         \A x \in DOMAIN loc : /\ loc2[x] = loc[x] /\ own2[x] = own[x]
                               /\ own2[x].arrival < own2[id].arrival,
         NEW e, e = Entry(id, loc2, own2)
  PROVE  IsView(Append(s, e), loc2, own2)
  <1> DEFINE N == Len(s)
  <1>0. N \in Nat /\ DOMAIN s = 1..N
    OBVIOUS
  <1>1. PICK t : t = Append(s, e)
    OBVIOUS
  <1>2. DOMAIN t = 1..(N + 1) /\ t[N + 1] = e /\ \A i \in 1..N : t[i] = s[i]
    BY <1>1
  <1> HIDE DEF N
  <1>3. e.id = id
    BY DEF Entry
  <1>4. \A i \in 1..N : t[i].id \in DOMAIN loc /\ t[i] = Entry(t[i].id, loc, own)
    BY <1>0, <1>2 DEF IsView
  <1>5. \A i \in 1..N : t[i] = Entry(t[i].id, loc2, own2)
    BY <1>4 DEF Entry
  <1>6. \A i \in DOMAIN t : i \in 1..N \/ i = N + 1
    BY <1>0, <1>2
  <1>7. \A x \in DOMAIN loc2 : \E i \in DOMAIN t : t[i].id = x
    <2> SUFFICES ASSUME NEW x \in DOMAIN loc2 PROVE \E i \in 1..(N + 1) : t[i].id = x
      BY <1>2
    <2>1. CASE x = id
      BY <1>0, <1>2, <1>3, <2>1
    <2>2. CASE x \in DOMAIN loc
      <3>1. PICK i \in 1..N : s[i].id = x
        BY <1>0, <2>2 DEF IsView
      <3> QED
        BY <1>0, <1>2, <3>1
    <2> QED
      BY <2>1, <2>2
  <1>8. \A i \in DOMAIN t : t[i].id \in DOMAIN loc2 /\ t[i] = Entry(t[i].id, loc2, own2)
    BY <1>2, <1>3, <1>4, <1>5, <1>6
  <1>9. ASSUME NEW i \in DOMAIN t, NEW j \in DOMAIN t, i < j
        PROVE  own2[t[i].id].arrival < own2[t[j].id].arrival
    <2>1. i \in 1..N
      BY <1>0, <1>2, <1>6, <1>9
    <2>2. CASE j = N + 1
      BY <1>2, <1>3, <1>4, <2>1, <2>2
    <2>3. CASE j \in 1..N
      <3>1. own[s[i].id].arrival < own[s[j].id].arrival
        BY <1>0, <1>9, <2>1, <2>3 DEF IsView
      <3> QED
        BY <1>2, <1>4, <2>1, <2>3, <3>1
    <2> QED
      BY <1>6, <2>2, <2>3
  <1>10. IsView(t, loc2, own2)
    BY ONLY <1>7, <1>8, <1>9 DEF IsView
  <1> QED
    BY <1>1, <1>10

------------------------------------------------------------------------------
(* The loop of matchIncoming, against the definition of Fills. *)

(* The positions of the book that have been filled, if only in part.       *)
HitBy(s, taken) == {i \in DOMAIN s : taken[i] # 0}

RankOf(s, H, i) == Cardinality({j \in H : Ahead(s, j, i)})

(* What the loop of matchIncoming has done so far: it has gone through the *)
(* eligible orders in priority, and filled all but the last one whole.     *)
Matched(s, order, taken, left) ==
  LET hit == HitBy(s, taken)
  IN  /\ taken \in [DOMAIN s -> Nat] /\ left \in Nat
      /\ \A i \in DOMAIN s : taken[i] <= s[i].remaining
      /\ hit \subseteq Eligible(s, order)
      /\ \A i \in hit, j \in Eligible(s, order) : Ahead(s, j, i) => j \in hit
      /\ \A i \in hit : taken[i] # s[i].remaining =>
           left = 0 /\ \A j \in hit : ~Ahead(s, i, j)
      /\ order.quantity = left + SumFunctionOnSet(taken, hit)

(* ... and recorded one trade for each of them, in this order.             *)
Traded(s, order, taken, tr) ==
  LET hit == HitBy(s, taken)
  IN  /\ Len(tr) = Cardinality(hit)
      /\ \A i \in hit : tr[RankOf(s, hit, i) + 1]
                          = Trade(order.side, order.id, s[i].id, s[i].price, taken[i])

(* Ranks in price-time priority count the orders of a side.                *)
Ranked(s, H) ==
  /\ IsFiniteSet(H) /\ Cardinality(H) \in Nat
  /\ \A i \in H : RankOf(s, H, i) \in Nat /\ RankOf(s, H, i) < Cardinality(H)
  /\ \A i, j \in H : RankOf(s, H, i) = RankOf(s, H, j) => i = j
  /\ \A k \in 1..Cardinality(H) : \E i \in H : RankOf(s, H, i) = k - 1

(* ... and they do for any set of orders that one order may trade with.    *)
LEMMA AheadRank ==
  ASSUME NEW Id, NEW s \in Seq(Resting(Id)), NEW order, NEW H \in SUBSET Eligible(s, order)
  PROVE  Ranked(s, H)
  <1> DEFINE R == {p \in H \X H : Ahead(s, p[1], p[2])}
  <1>1. \A i, j \in H : <<i, j>> \in R <=> Ahead(s, i, j)
    OBVIOUS
  <1> HIDE DEF R
  <1>2. H \in SUBSET (DOMAIN s) /\ \A i \in H : s[i].side = Opposite(order.side)
    BY DEF Eligible
  <1>3. IsFiniteSet(H) /\ Cardinality(H) \in Nat
    <2>1. IsFiniteSet(DOMAIN s)
      BY FiniteBook, Zenon
    <2> QED
      BY <1>2, <2>1, FS_Subset, FS_CardinalityType
  <1>4. Ranks(R, H)
    <2>1. \A x \in H : ~Ahead(s, x, x)
      BY <1>2, AheadOrder
    <2>2. \A x, y, z \in H : Ahead(s, x, y) /\ Ahead(s, y, z) => Ahead(s, x, z)
      BY <1>2, AheadOrder
    <2>3. \A x, y \in H : x # y => Ahead(s, x, y) \/ Ahead(s, y, x)
      BY <1>2, AheadOrder
    <2> QED
      BY <1>1, <1>3, <2>1, <2>2, <2>3 DEF Ranks
  <1>5. ASSUME NEW i \in H PROVE RankOf(s, H, i) = RankIn(R, H, i)
    <2>1. {j \in H : Ahead(s, j, i)} = {j \in H : <<j, i>> \in R}
      BY <1>1
    <2> QED
      BY <2>1 DEF RankOf, RankIn
  <1>6. \A i \in H : RankOf(s, H, i) \in Nat /\ RankOf(s, H, i) < Cardinality(H)
    BY <1>4, <1>5, RankGrows
  <1>7. \A i, j \in H : RankOf(s, H, i) = RankOf(s, H, j) => i = j
    BY <1>4, <1>5, RankUnique
  <1>8. \A k \in 1..Cardinality(H) : \E i \in H : RankOf(s, H, i) = k - 1
    BY <1>4, <1>5, RankExists
  <1> QED
    BY <1>3, <1>6, <1>7, <1>8 DEF Ranked

IsSumMore(D, f, g, S, T, k) ==
  /\ IsFiniteSet(D) /\ f \in [D -> Nat] /\ g \in [D -> Nat]
  /\ S \in SUBSET D /\ k \in D \ S /\ T = S \cup {k}
  /\ \A i \in S : g[i] = f[i]

(* The sum over one more position.                                         *)
LEMMA SumAdd ==
  ASSUME NEW D, NEW f, NEW g, NEW S, NEW T, NEW k, IsSumMore(D, f, g, S, T, k)
  PROVE  SumFunctionOnSet(g, T) = g[k] + SumFunctionOnSet(f, S)
  <1>1. IsFiniteSet(D) /\ f \in [D -> Nat] /\ g \in [D -> Nat]
    BY DEF IsSumMore
  <1>2. T \in SUBSET D /\ S \in SUBSET D /\ k \in T /\ T \ {k} = S
    BY DEF IsSumMore
  <1>3. \A x \in T : SumFunctionOnSet(g, T) = g[x] + SumFunctionOnSet(g, T \ {x})
    BY <1>1, <1>2, SumRemove
  <1>4. IsFiniteSet(S) /\ \A i \in S : g[i] = f[i]
    BY <1>1, <1>2, FS_Subset DEF IsSumMore
  <1>5. SumFunctionOnSet(g, S) = SumFunctionOnSet(f, S)
    BY <1>4, SumSame
  <1> QED
    BY <1>2, <1>3, <1>5

(* One more fill, of the first eligible order that has not been hit.       *)
LEMMA MatchMore ==
  ASSUME NEW Id, NEW s \in Seq(Resting(Id)), NEW order, NEW taken, NEW left,
         NEW A, NEW tr \in Seq(A),
         Matched(s, order, taken, left), Traded(s, order, taken, tr),
         NEW k \in Eligible(s, order), taken[k] = 0,
         \A j \in Eligible(s, order) : Ahead(s, j, k) => taken[j] # 0,
         NEW qty \in Nat, qty > 0, qty <= left, qty <= s[k].remaining,
         qty = left \/ qty = s[k].remaining,
         NEW taken2 \in [DOMAIN s -> Nat], taken2[k] = qty,
         \A i \in DOMAIN s : i # k => taken2[i] = taken[i],
         NEW t, t = Trade(order.side, order.id, s[k].id, s[k].price, qty), t \in A
  PROVE  Matched(s, order, taken2, left - qty) /\ Traded(s, order, taken2, Append(tr, t))
  <1> DEFINE D == DOMAIN s
             E == Eligible(s, order)
  <1>1. PICK hit : hit = HitBy(s, taken)
    OBVIOUS
  <1>2. PICK hit2 : hit2 = HitBy(s, taken2)
    OBVIOUS
  <1>3. /\ E \subseteq D /\ k \in D /\ IsFiniteSet(D)
        /\ \A i \in E : s[i].side = Opposite(order.side)
    <2>1. IsFiniteSet(D)
      BY FiniteBook, Zenon
    <2> QED
      BY <2>1 DEF Eligible
  <1>4. /\ taken \in [D -> Nat] /\ left \in Nat
        /\ \A i \in D : taken[i] <= s[i].remaining
        /\ hit \subseteq E
        /\ \A i \in hit, j \in E : Ahead(s, j, i) => j \in hit
        /\ \A i \in hit : taken[i] # s[i].remaining => left = 0 /\ \A j \in hit : ~Ahead(s, i, j)
        /\ order.quantity = left + SumFunctionOnSet(taken, hit)
    BY <1>1 DEF Matched
  <1>5. /\ Len(tr) = Cardinality(hit)
        /\ \A i \in hit : tr[RankOf(s, hit, i) + 1]
                            = Trade(order.side, order.id, s[i].id, s[i].price, taken[i])
    BY <1>1 DEF Traded
  <1>6. /\ taken2 \in [D -> Nat] /\ taken2[k] = qty
        /\ \A i \in D : i # k => taken2[i] = taken[i]
    BY <1>3, <1>4 DEF D
  <1>7. hit2 = hit \cup {k} /\ k \notin hit /\ \A i \in hit : i \in D /\ taken2[i] = taken[i]
    BY <1>1, <1>2, <1>3, <1>6 DEF HitBy
  <1> HIDE DEF E, D
  <1>8. ASSUME NEW i \in hit PROVE Ahead(s, i, k) /\ ~Ahead(s, k, i)
    <2>1. ~Ahead(s, k, i)
      BY <1>4, <1>7 DEF E
    <2>2. i # k /\ i \in E /\ k \in E
      BY <1>4, <1>7 DEF E
    <2>3. Ahead(s, i, k) \/ Ahead(s, k, i)
      BY <1>3, <2>2, AheadOrder DEF D
    <2> QED
      BY <2>1, <2>3
  <1>9. ~Ahead(s, k, k)
    BY <1>3, AheadOrder DEF E, D
  <1>10. SumFunctionOnSet(taken2, hit2) = qty + SumFunctionOnSet(taken, hit)
    <2>1. IsSumMore(D, taken, taken2, hit, hit2, k)
      BY <1>3, <1>4, <1>6, <1>7 DEF IsSumMore
    <2>2. SumFunctionOnSet(taken2, hit2) = taken2[k] + SumFunctionOnSet(taken, hit)
      BY ONLY <2>1, SumAdd
    <2> QED
      BY <1>6, <2>2
  <1>11. SumFunctionOnSet(taken, hit) \in Nat
    <2>1. hit \in SUBSET D
      BY <1>3, <1>4
    <2> QED
      BY <1>3, <1>4, <2>1, SumType
  <1>12. Matched(s, order, taken2, left - qty)
    <2>1. left - qty \in Nat
      BY <1>4
    <2>2. \A i \in D : taken2[i] <= s[i].remaining
      BY <1>4, <1>6
    <2>3. hit2 \subseteq E
      BY <1>4, <1>7 DEF E
    <2>4. \A i \in hit2, j \in E : Ahead(s, j, i) => j \in hit2
      <3>1. ASSUME NEW j \in E, Ahead(s, j, k) PROVE j \in hit
        <4>1. taken[j] # 0 /\ j \in D
          BY <1>3, <3>1 DEF E
        <4> QED
          BY <1>1, <4>1 DEF HitBy, D
      <3> QED
        BY <1>4, <1>7, <3>1
    <2>5. ASSUME NEW i \in hit2, taken2[i] # s[i].remaining
          PROVE  left - qty = 0 /\ \A j \in hit2 : ~Ahead(s, i, j)
      <3>1. left # 0
        BY <1>4
      <3>2. i = k
        BY <1>4, <1>7, <2>5, <3>1
      <3>3. qty = left
        BY <1>6, <2>5, <3>2
      <3>4. left - qty = 0
        BY <1>4, <3>3
      <3> QED
        BY <1>7, <1>8, <1>9, <3>2, <3>4
    <2>6. order.quantity = (left - qty) + SumFunctionOnSet(taken2, hit2)
      BY <1>4, <1>10, <1>11
    <2> QED
      BY <1>2, <1>6, <2>1, <2>2, <2>3, <2>4, <2>5, <2>6 DEF Matched, D, E
  <1>13. Traded(s, order, taken2, Append(tr, t))
    <2>1. /\ IsFiniteSet(hit) /\ Cardinality(hit) \in Nat
          /\ \A i \in hit : RankOf(s, hit, i) \in Nat /\ RankOf(s, hit, i) < Cardinality(hit)
      BY <1>4, AheadRank DEF E, Ranked
    <2>2. Cardinality(hit2) = Cardinality(hit) + 1
      BY <1>7, <2>1, FS_AddElement
    <2>3. RankOf(s, hit2, k) = Cardinality(hit)
      <3>1. {j \in hit2 : Ahead(s, j, k)} = hit
        BY <1>7, <1>8, <1>9
      <3> QED
        BY <3>1 DEF RankOf
    <2>4. ASSUME NEW i \in hit PROVE RankOf(s, hit2, i) = RankOf(s, hit, i)
      <3>1. {j \in hit2 : Ahead(s, j, i)} = {j \in hit : Ahead(s, j, i)}
        BY <1>7, <1>8
      <3> QED
        BY <3>1 DEF RankOf
    <2>5. PICK more : more = Append(tr, t)
      OBVIOUS
    <2>6. /\ Len(more) = Len(tr) + 1 /\ more[Len(tr) + 1] = t
          /\ \A n \in 1..Len(tr) : more[n] = tr[n]
      BY <2>5
    <2>7. ASSUME NEW i \in hit2
          PROVE  more[RankOf(s, hit2, i) + 1]
                   = Trade(order.side, order.id, s[i].id, s[i].price, taken2[i])
      <3>1. CASE i = k
        BY <1>5, <1>6, <2>3, <2>6, <3>1
      <3>2. CASE i \in hit
        <4>1. RankOf(s, hit, i) + 1 \in 1..Len(tr)
          BY <1>5, <2>1, <3>2
        <4>2. more[RankOf(s, hit, i) + 1] = tr[RankOf(s, hit, i) + 1]
          BY <2>6, <4>1
        <4> QED
          BY <1>5, <1>7, <2>4, <3>2, <4>2
      <3> QED
        BY <1>7, <3>1, <3>2
    <2> QED
      BY <1>2, <1>5, <2>2, <2>5, <2>6, <2>7 DEF Traded
  <1> QED
    BY <1>12, <1>13

(* What decides a fill decides it uniquely.                                *)
IsFill(fill, offers, ahead, quantity) ==
  /\ fill \in Nat /\ fill <= offers
  /\ fill > 0 => ahead + fill <= quantity
  /\ fill < offers => ahead + fill >= quantity

(* ... so that two fills of an order that satisfy it are the same.         *)
LEMMA FillUnique ==
  ASSUME NEW offers \in Nat, NEW ahead \in Nat, NEW quantity \in Nat, NEW a, NEW b,
         IsFill(a, offers, ahead, quantity), IsFill(b, offers, ahead, quantity)
  PROVE  a = b
  BY DEF IsFill

(* When the loop has ended, it has given every resting order the fill that *)
(* price-time priority defines.                                            *)
LEMMA MatchDone ==
  ASSUME NEW Id, NEW s \in Seq(Resting(Id)), NEW order, order.quantity \in Nat,
         NEW taken, NEW left, Matched(s, order, taken, left),
         left = 0 \/ Eligible(s, order) \subseteq HitBy(s, taken)
  PROVE  \A i \in DOMAIN s : taken[i] = Fills(s, order)[i]
  <1>0. PICK D : D = DOMAIN s
    OBVIOUS
  <1>1. PICK hit : hit = HitBy(s, taken)
    OBVIOUS
  <1>2. PICK offered : offered = Offered(s)
    OBVIOUS
  <1>3. /\ IsFiniteSet(D)
        /\ \A i \in Eligible(s, order) : i \in D /\ s[i].side = Opposite(order.side)
    <2>1. IsFiniteSet(D)
      BY <1>0, FiniteBook, Zenon
    <2> QED
      BY <1>0, <2>1 DEF Eligible
  <1>4. /\ taken \in [D -> Nat] /\ left \in Nat
        /\ \A i \in D : taken[i] <= s[i].remaining
        /\ hit \subseteq Eligible(s, order)
        /\ \A i \in hit, j \in Eligible(s, order) : Ahead(s, j, i) => j \in hit
        /\ \A i \in hit : taken[i] # s[i].remaining => left = 0 /\ \A j \in hit : ~Ahead(s, i, j)
        /\ order.quantity = left + SumFunctionOnSet(taken, hit)
    BY <1>0, <1>1 DEF Matched
  <1>5. offered \in [D -> Nat] /\ \A i \in D : offered[i] = s[i].remaining
    BY <1>0, <1>2, RestingFields DEF Offered
  <1>6. hit \in SUBSET D /\ \A i \in D : i \in hit <=> taken[i] # 0
    BY <1>0, <1>1 DEF HitBy
  <1>7. SumFunctionOnSet(taken, hit) \in Nat
    BY <1>3, <1>4, <1>6, SumType
  <1>8. ASSUME NEW i \in Eligible(s, order) PROVE taken[i] = Fills(s, order)[i]
    <2>1. PICK B : B = Before(s, order, i)
      OBVIOUS
    <2>2. /\ B \in SUBSET D /\ i \in D
          /\ \A j \in Eligible(s, order) : j \in B <=> Ahead(s, j, i)
          /\ B \subseteq Eligible(s, order)
      BY <1>3, <2>1 DEF Before
    <2>3. /\ i \notin B
          /\ \A j \in Eligible(s, order) : j # i => Ahead(s, i, j) \/ Ahead(s, j, i)
      BY <1>0, <1>3, <2>2, AheadOrder
    <2>4. PICK ahead : ahead = SumFunctionOnSet(offered, B)
      OBVIOUS
    <2>5. PICK got : got = SumFunctionOnSet(taken, B)
      OBVIOUS
    <2>6. ahead \in Nat /\ got \in Nat /\ got <= ahead
      <3>1. \A j \in B : taken[j] <= offered[j]
        BY <1>4, <1>5, <2>2
      <3>2. SumFunctionOnSet(taken, B) <= SumFunctionOnSet(offered, B)
        BY <1>3, <1>4, <1>5, <2>2, <3>1, SumLess
      <3> QED
        BY <1>3, <1>4, <1>5, <2>2, <2>4, <2>5, <3>2, SumType
    <2>7. ASSUME i \in hit PROVE ahead = got /\ B \subseteq hit
      <3>1. B \subseteq hit
        BY <1>4, <2>2, <2>7
      <3>2. \A j \in B : taken[j] = offered[j]
        BY <1>4, <1>5, <2>2, <2>7, <3>1
      <3>3. IsFiniteSet(B)
        BY <1>3, <2>2, FS_Subset
      <3>4. SumFunctionOnSet(taken, B) = SumFunctionOnSet(offered, B)
        BY <3>2, <3>3, SumSame
      <3> QED
        BY <2>4, <2>5, <3>1, <3>4
    <2>8. PICK T : T = B \cup {i}
      OBVIOUS
    <2>9. T \in SUBSET D /\ SumFunctionOnSet(taken, T) = taken[i] + got
      <3>1. IsSumMore(D, taken, taken, B, T, i)
        BY <1>3, <1>4, <2>2, <2>3, <2>8 DEF IsSumMore
      <3>2. SumFunctionOnSet(taken, T) = taken[i] + SumFunctionOnSet(taken, B)
        BY ONLY <3>1, SumAdd
      <3> QED
        BY <2>2, <2>5, <2>8, <3>2
    <2>10. taken[i] \in Nat /\ taken[i] <= s[i].remaining
      BY <1>4, <2>2
    <2>11. ASSUME taken[i] > 0 PROVE ahead + taken[i] <= order.quantity
      <3>1. i \in hit
        BY <1>6, <2>2, <2>11
      <3>2. T \in SUBSET hit
        BY <2>7, <2>8, <3>1
      <3>3. SumFunctionOnSet(taken, T) <= SumFunctionOnSet(taken, hit)
        BY <1>3, <1>4, <1>6, <3>2, SumMore
      <3> QED
        BY <1>4, <1>7, <2>6, <2>7, <2>9, <2>10, <3>1, <3>3
    <2>12. ASSUME taken[i] < s[i].remaining PROVE ahead + taken[i] >= order.quantity
      <3>1. CASE i \in hit
        <4>1. left = 0 /\ \A j \in hit : ~Ahead(s, i, j)
          BY <1>4, <2>10, <2>12, <3>1
        <4>2. hit = T
          BY <1>4, <2>2, <2>3, <2>7, <2>8, <3>1, <4>1
        <4> QED
          BY <1>4, <1>7, <2>6, <2>7, <2>9, <2>10, <3>1, <4>1, <4>2
      <3>2. CASE i \notin hit
        <4>1. left = 0 /\ taken[i] = 0
          BY <1>1, <1>6, <2>2, <3>2
        <4>2. hit \in SUBSET B
          BY <1>4, <2>2, <2>3, <3>2
        <4>3. SumFunctionOnSet(taken, hit) <= SumFunctionOnSet(taken, B)
          BY <1>3, <1>4, <2>2, <4>2, SumMore
        <4> QED
          BY <1>4, <1>7, <2>5, <2>6, <4>1, <4>3
      <3> QED
        BY <3>1, <3>2
    <2>13. PICK fill : fill = Fills(s, order)[i]
      OBVIOUS
    <2>14. /\ fill \in Nat /\ s[i].remaining \in Nat /\ fill <= s[i].remaining
           /\ fill > 0 => ahead + fill <= order.quantity
           /\ fill < s[i].remaining => ahead + fill >= order.quantity
      BY <1>0, <1>2, <2>1, <2>2, <2>4, <2>13, FillAt
    <2>15. /\ IsFill(fill, s[i].remaining, ahead, order.quantity)
           /\ IsFill(taken[i], s[i].remaining, ahead, order.quantity)
      BY <2>10, <2>11, <2>12, <2>14 DEF IsFill
    <2>16. taken[i] = fill
      BY <2>6, <2>14, <2>15, FillUnique
    <2> QED
      BY <2>13, <2>16
  <1>9. ASSUME NEW i \in D, i \notin Eligible(s, order) PROVE taken[i] = Fills(s, order)[i]
    <2>1. Fills(s, order)[i] = 0
      BY <1>0, <1>9, FillAt
    <2>2. taken[i] = 0
      BY <1>4, <1>6, <1>9
    <2> QED
      BY <2>1, <2>2
  <1> QED
    BY <1>0, <1>8, <1>9

(* The resting orders once these quantities have been taken from them.     *)
AfterFills(s, taken) == [i \in DOMAIN s |-> [s[i] EXCEPT !.remaining = @ - taken[i]]]

Unfilled(s, taken) == {i \in DOMAIN s : taken[i] # s[i].remaining}

Remainder(order, left) ==
  [id |-> order.id, side |-> order.side, price |-> order.price,
   quantity |-> order.quantity, remaining |-> left]

(* The orders of H in priority.                                            *)
Ranking(s, H) ==
  [k \in 1..Cardinality(H) |-> CHOOSE i \in H : Cardinality({j \in H : Ahead(s, j, i)}) = k - 1]

(* What the loop has computed when it ends is the outcome.                 *)
LEMMA OutcomeIs ==
  ASSUME NEW Id, NEW s \in Seq(Resting(Id)), NEW order, order.quantity \in Nat,
         NEW taken, NEW left, Matched(s, order, taken, left),
         NEW A, NEW tr \in Seq(A), Traded(s, order, taken, tr),
         left = 0 \/ Eligible(s, order) \subseteq HitBy(s, taken)
  PROVE  /\ Outcome(s, order).trades = tr
         /\ Outcome(s, order).book
              = Keep(AfterFills(s, taken), Unfilled(s, taken))
                  \o IF order.kind = "LIMIT" /\ left > 0
                     THEN <<Remainder(order, left)>> ELSE <<>>
  <1>0. PICK D : D = DOMAIN s
    OBVIOUS
  <1>1. PICK hit : hit = HitBy(s, taken)
    OBVIOUS
  <1>2. IsFiniteSet(D)
    BY <1>0, FiniteBook, Zenon
  <1>3. /\ taken \in [D -> Nat] /\ left \in Nat
        /\ \A i \in D : taken[i] <= s[i].remaining
        /\ hit \in SUBSET Eligible(s, order)
        /\ order.quantity = left + SumFunctionOnSet(taken, hit)
    BY <1>0, <1>1 DEF Matched
  <1>4. /\ Len(tr) = Cardinality(hit)
        /\ \A i \in hit : tr[RankOf(s, hit, i) + 1]
                            = Trade(order.side, order.id, s[i].id, s[i].price, taken[i])
    BY <1>1 DEF Traded
  <1>5. hit \in SUBSET D /\ \A i \in D : i \in hit <=> taken[i] # 0
    BY <1>0, <1>1 DEF HitBy
  <1>6. Fills(s, order) = taken
    <2>1. \A i \in D : taken[i] = Fills(s, order)[i]
      BY <1>0, MatchDone
    <2>2. DOMAIN Fills(s, order) = D /\ Fills(s, order) = [i \in D |-> Fills(s, order)[i]]
      BY <1>0 DEF Fills
    <2>3. taken = [i \in D |-> taken[i]]
      BY <1>3
    <2> QED
      BY <2>1, <2>2, <2>3
  <1>7. order.quantity - SumFunction(taken) = left
    <2>1. \A i \in D \ hit : taken[i] = 0
      BY <1>5
    <2>2. SumFunctionOnSet(taken, D) = SumFunctionOnSet(taken, hit)
      BY <1>2, <1>3, <1>5, <2>1, SumRest
    <2>3. SumFunction(taken) = SumFunctionOnSet(taken, D)
      BY <1>3 DEF SumFunction
    <2>4. SumFunctionOnSet(taken, hit) \in Nat
      BY <1>2, <1>3, <1>5, SumType
    <2> QED
      BY <1>3, <2>2, <2>3, <2>4
  <1>8. {i \in DOMAIN s : taken[i] > 0} = hit
    BY <1>0, <1>3, <1>5
  <1>9. {i \in DOMAIN s : AfterFills(s, taken)[i].remaining > 0} = Unfilled(s, taken)
    <2>1. ASSUME NEW i \in DOMAIN s
          PROVE  AfterFills(s, taken)[i].remaining > 0 <=> taken[i] # s[i].remaining
      <3>1. s[i] \in Resting(Id) /\ s[i].remaining \in Nat
        BY RestingFields
      <3>2. AfterFills(s, taken)[i] = [s[i] EXCEPT !.remaining = @ - taken[i]]
        BY DEF AfterFills
      <3>3. \A r \in Resting(Id) : \A n : [r EXCEPT !.remaining = @ - n].remaining = r.remaining - n
        BY DEF Resting
      <3>4. AfterFills(s, taken)[i].remaining = s[i].remaining - taken[i]
        BY <3>1, <3>2, <3>3
      <3>5. taken[i] \in Nat /\ taken[i] <= s[i].remaining
        BY <1>0, <1>3
      <3> QED
        BY <3>1, <3>4, <3>5
    <2> QED
      BY <2>1 DEF Unfilled
  <1>10. /\ IsFiniteSet(hit) /\ Cardinality(hit) \in Nat
         /\ \A i, j \in hit : RankOf(s, hit, i) = RankOf(s, hit, j) => i = j
         /\ \A k \in 1..Cardinality(hit) : \E i \in hit : RankOf(s, hit, i) = k - 1
    <2>1. hit \in SUBSET Eligible(s, order)
      BY <1>3
    <2>2. Ranked(s, hit)
      BY <2>1, AheadRank
    <2> QED
      BY <2>2 DEF Ranked
  <1> DEFINE pick(k) == CHOOSE i \in hit : Cardinality({j \in hit : Ahead(s, j, i)}) = k - 1
             ranked == Ranking(s, hit)
             named == [k \in DOMAIN ranked |->
                        Trade(order.side, order.id, s[ranked[k]].id,
                              s[ranked[k]].price, taken[ranked[k]])]
  <1>11. ASSUME NEW k \in 1..Cardinality(hit)
         PROVE  pick(k) \in hit /\ RankOf(s, hit, pick(k)) = k - 1
    <2>1. \E i \in hit : Cardinality({j \in hit : Ahead(s, j, i)}) = k - 1
      BY <1>10 DEF RankOf
    <2>2. pick(k) \in hit /\ Cardinality({j \in hit : Ahead(s, j, pick(k))}) = k - 1
      BY <2>1, Zenon
    <2> QED
      BY <2>2 DEF RankOf
  <1>12. named = tr
    <2>1. DOMAIN ranked = 1..Cardinality(hit) /\ \A k \in 1..Cardinality(hit) : ranked[k] = pick(k)
      BY DEF Ranking
    <2> HIDE DEF pick, ranked
    <2>2. ASSUME NEW k \in 1..Cardinality(hit)
          PROVE  Trade(order.side, order.id, s[ranked[k]].id, s[ranked[k]].price, taken[ranked[k]])
                   = tr[k]
      <3>1. PICK i \in hit : i = pick(k) /\ RankOf(s, hit, i) = k - 1
        BY <1>11
      <3>2. (k - 1) + 1 = k
        BY <1>10
      <3>3. ranked[k] = i
        BY <2>1, <3>1
      <3> QED
        BY <1>4, <3>1, <3>2, <3>3
    <2>3. tr = [k \in 1..Cardinality(hit) |-> tr[k]]
      BY <1>4
    <2>4. named = [k \in 1..Cardinality(hit) |->
                     Trade(order.side, order.id, s[ranked[k]].id, s[ranked[k]].price,
                           taken[ranked[k]])]
      BY <2>1
    <2> QED
      BY <2>2, <2>3, <2>4
  <1>13. Outcome(s, order).trades = named
    <2> DEFINE fills  == Fills(s, order)
               filled == {i \in DOMAIN s : fills[i] > 0}
               rank == Ranking(s, filled)
               made == [k \in DOMAIN rank |->
                          Trade(order.side, order.id, s[rank[k]].id,
                                s[rank[k]].price, fills[rank[k]])]
    <2>1. Outcome(s, order).trades = made
      <3> DEFINE some == Outcome(s, order).book
      <3>1. Outcome(s, order) = [book |-> some, trades |-> made]
        BY Zenon DEF Outcome, Ranking
      <3> HIDE DEF some, made
      <3> QED
        BY <3>1
    <2>2. fills = taken /\ filled = hit
      BY <1>6, <1>8
    <2>3. rank = ranked
      BY <2>2
    <2> HIDE DEF rank, ranked, fills
    <2> QED
      BY <2>1, <2>2, <2>3
  <1>14. Outcome(s, order).book
           = Keep(AfterFills(s, taken), Unfilled(s, taken))
               \o IF order.kind = "LIMIT" /\ left > 0
                  THEN <<Remainder(order, left)>> ELSE <<>>
    <2>1. Outcome(s, order).book =
            LET fills == Fills(s, order)
                rest == order.quantity - SumFunction(fills)
            IN  Keep(AfterFills(s, fills), {i \in DOMAIN s : AfterFills(s, fills)[i].remaining > 0})
                  \o IF order.kind = "LIMIT" /\ rest > 0
                     THEN <<Remainder(order, rest)>> ELSE <<>>
      BY Zenon DEF Outcome, AfterFills, Remainder
    <2> QED
      BY <1>6, <1>7, <1>9, <2>1, Zenon
  <1> QED
    BY <1>12, <1>13, <1>14

------------------------------------------------------------------------------
(* A call in progress. *)

(* The command that asked for the order `id`.                              *)
Asked(id, own) ==
  [id |-> id, kind |-> own[id].kind, side |-> own[id].side,
   price |-> own[id].price, quantity |-> own[id].quantity]

(* What a call has taken from the orders of s, the book it found.          *)
Taken(s, loc, own) ==
  [i \in DOMAIN s |-> IF s[i].id \in DOMAIN loc
                      THEN s[i].remaining - own[s[i].id].remaining
                      ELSE s[i].remaining]

(* What is left of s is still at its place, and nothing else is there.     *)
Lists(s, loc, own) ==
  /\ \A id \in DOMAIN loc : \E i \in DOMAIN s : s[i].id = id
  /\ \A i, j \in DOMAIN s : s[i].id = s[j].id => i = j
  /\ \A i \in DOMAIN s : s[i].id \in DOMAIN loc =>
       /\ s[i].side = loc[s[i].id].side
       /\ s[i].price = loc[s[i].id].price
       /\ s[i].quantity = own[s[i].id].quantity
       /\ own[s[i].id].remaining \in Nat \ {0}
       /\ own[s[i].id].remaining <= s[i].remaining
  /\ \A i, j \in DOMAIN s :
       s[i].id \in DOMAIN loc /\ s[j].id \in DOMAIN loc /\ i < j =>
         own[s[i].id].arrival < own[s[j].id].arrival

(* A call in progress: what it has done is the beginning of the outcome.   *)
InCall(s, loc, own, id, tr) ==
  /\ Lists(s, loc, own)
  /\ \A i \in DOMAIN s : s[i].id # id
  /\ Asked(id, own) \in Orders(OrderId, Price, 1..MaxQuantity)
  /\ Matched(s, Asked(id, own), Taken(s, loc, own), own[id].remaining)
  /\ Traded(s, Asked(id, own), Taken(s, loc, own), tr)

(* The entries of the maps are resting orders.                             *)
EntriesTyped(loc, own) ==
  \A id \in DOMAIN loc : Entry(id, loc, own) \in Resting(OrderId) /\ own[id].arrival \in Nat

(* So are those of the list that views them.                               *)
LEMMA ViewTyped ==
  ASSUME NEW A, NEW s \in Seq(A), NEW loc, NEW own, EntriesTyped(loc, own), IsView(s, loc, own)
  PROVE  s \in Seq(Resting(OrderId)) /\ ViewOf(loc, own) = s
  <1>1. \A i \in DOMAIN s : s[i] \in Resting(OrderId)
    BY DEF EntriesTyped, IsView
  <1>2. s \in Seq(Resting(OrderId))
    BY <1>1
  <1>3. \A id \in DOMAIN loc : own[id].arrival \in Nat
    BY DEF EntriesTyped
  <1> QED
    BY <1>2, <1>3, ViewUnique

(* In a view every order has its own identifier, and nothing is taken yet. *)
LEMMA ViewLists ==
  ASSUME NEW A, NEW s \in Seq(A), NEW loc, NEW own, EntriesTyped(loc, own), IsView(s, loc, own)
  PROVE  /\ Lists(s, loc, own)
         /\ \A i \in DOMAIN s : s[i].id \in DOMAIN loc /\ Taken(s, loc, own)[i] = 0
  <1>1. \A id \in DOMAIN loc : /\ own[id].arrival \in Nat
                               /\ own[id].remaining \in Nat \ {0}
    BY DEF EntriesTyped, Entry, Resting
  <1>2. \A i \in DOMAIN s : /\ s[i].id \in DOMAIN loc
                            /\ s[i].side = loc[s[i].id].side
                            /\ s[i].price = loc[s[i].id].price
                            /\ s[i].quantity = own[s[i].id].quantity
                            /\ s[i].remaining = own[s[i].id].remaining
    BY DEF IsView, Entry
  <1>3. /\ \A id \in DOMAIN loc : \E i \in DOMAIN s : s[i].id = id
        /\ \A i, j \in DOMAIN s : i < j => own[s[i].id].arrival < own[s[j].id].arrival
    BY DEF IsView
  <1>4. \A i, j \in DOMAIN s : s[i].id = s[j].id => i = j
    <2> SUFFICES ASSUME NEW i \in DOMAIN s, NEW j \in DOMAIN s, s[i].id = s[j].id, i # j PROVE FALSE
      OBVIOUS
    <2>1. i < j \/ j < i
      OBVIOUS
    <2>2. own[s[i].id].arrival \in Nat
      BY <1>1, <1>2
    <2> QED
      BY <1>3, <2>1, <2>2
  <1>5. \A i \in DOMAIN s : Taken(s, loc, own)[i] = 0
    BY <1>1, <1>2 DEF Taken
  <1> QED
    BY <1>1, <1>2, <1>3, <1>4, <1>5 DEF Lists

(* A call begins with nothing done.                                        *)
LEMMA CallBegins ==
  ASSUME NEW s \in Seq(Resting(OrderId)), NEW loc, NEW own, NEW id,
         Lists(s, loc, own), \A i \in DOMAIN s : s[i].id # id,
         \A i \in DOMAIN s : Taken(s, loc, own)[i] = 0,
         Asked(id, own) \in Orders(OrderId, Price, 1..MaxQuantity),
         own[id].remaining = own[id].quantity, own[id].quantity \in Nat
  PROVE  InCall(s, loc, own, id, <<>>)
  <1>1. PICK order : order = Asked(id, own)
    OBVIOUS
  <1>2. PICK taken : taken = Taken(s, loc, own)
    OBVIOUS
  <1>3. taken \in [DOMAIN s -> Nat] /\ \A i \in DOMAIN s : taken[i] = 0
    BY <1>2 DEF Taken
  <1>4. HitBy(s, taken) = {}
    BY <1>3 DEF HitBy
  <1>5. \A i \in DOMAIN s : taken[i] <= s[i].remaining
    BY <1>3, RestingFields
  <1>6. SumFunctionOnSet(taken, {}) = 0
    BY FS_EmptySet, SumUnfold
  <1>7. order.quantity = own[id].quantity
    BY <1>1 DEF Asked
  <1>8. Matched(s, order, taken, own[id].remaining)
    BY <1>3, <1>4, <1>5, <1>6, <1>7 DEF Matched
  <1>9. Cardinality({}) = 0
    BY FS_EmptySet
  <1>10. Traded(s, order, taken, <<>>)
    BY <1>4, <1>9 DEF Traded
  <1> QED
    BY <1>1, <1>2, <1>8, <1>10 DEF InCall

(* The entries of the book's maps are resting orders.                      *)
LEMMA BookEntries ==
  (IInv => EntriesTyped(location, owned)) /\ (IInv' => EntriesTyped(location', owned'))
  <1>0. Price \subseteq Nat \ {0}
    BY BookAssumption
  <1>1. ASSUME NEW loc, NEW own, NEW id \in DOMAIN loc, id \in OrderId,
               loc[id] \in [side : Side, price : Price], own[id] \in OrderObjects,
               own[id].remaining > 0
        PROVE  Entry(id, loc, own) \in Resting(OrderId) /\ own[id].arrival \in Nat
    <2>1. loc[id].side \in Side /\ loc[id].price \in Nat \ {0}
      BY <1>0, <1>1
    <2>2. /\ own[id].quantity \in Nat /\ own[id].arrival \in Nat
          /\ own[id].remaining \in Nat \ {0}
      BY <1>1 DEF OrderObjects
    <2> QED
      BY <1>1, <2>1, <2>2 DEF Entry, Resting
  <1>2. ASSUME IInv PROVE EntriesTyped(location, owned)
    <2>1. ASSUME NEW id \in DOMAIN location
          PROVE  /\ id \in OrderId /\ location[id] \in [side : Side, price : Price]
                 /\ owned[id] \in OrderObjects /\ owned[id].remaining > 0
      BY <1>2 DEF IInv, TypeOK, IsMap, NoLeakedOrder, RestingOrdersOpen
    <2> QED
      BY <1>1, <2>1 DEF EntriesTyped
  <1>3. ASSUME IInv' PROVE EntriesTyped(location', owned')
    <2>1. ASSUME NEW id \in DOMAIN location'
          PROVE  /\ id \in OrderId /\ location'[id] \in [side : Side, price : Price]
                 /\ owned'[id] \in OrderObjects /\ owned'[id].remaining > 0
      BY <1>3 DEF IInv, TypeOK, IsMap, NoLeakedOrder, RestingOrdersOpen
    <2> QED
      BY <1>1, <2>1 DEF EntriesTyped
  <1> QED
    BY <1>2, <1>3

(* What the code compares is what price-time priority compares.            *)
LEMMA AcceptableIs ==
  ASSUME NEW id, NEW own, own[id].kind \in OrderKind, own[id].side \in Side, NEW price \in Nat,
         own[id].kind = "LIMIT" => own[id].price \in Nat
  PROVE  Acceptable(Asked(id, own), price) <=> PriceOk(own[id], price)
  BY DEF Acceptable, PriceOk, Asked, OrderKind, Side

(* An order that rests at a place is in the list there.                    *)
LEMMA InLevel ==
  ASSUME IInv, NEW id \in DOMAIN location
  PROVE  /\ location[id].side \in Side /\ location[id].price \in Price
         /\ location[id].price \in DOMAIN levels[location[id].side]
         /\ \E m \in 1..Len(levels[location[id].side][location[id].price]) :
              levels[location[id].side][location[id].price][m] = id
  BY DEF IInv, TypeOK, IsMap, NoLeakedOrder

(* The head of the best list has priority over all that rests.             *)
LEMMA HeadFirst ==
  ASSUME IInv, NEW resting \in DOMAIN location, NEW other, other = location[resting].side,
         NEW best, best = location[resting].price, best \in Best(other),
         resting = levels[other][best][1],
         NEW id \in DOMAIN location, id # resting, location[id].side = other
  PROVE  /\ ~Precedes(other, location[id].price, best)
         /\ location[id].price = best => owned[resting].arrival < owned[id].arrival
  <1>1. /\ location[id].price \in DOMAIN levels[other] /\ other \in Side
        /\ \E m \in 1..Len(levels[other][location[id].price]) :
             levels[other][location[id].price][m] = id
    BY InLevel
  <1>2. ~Precedes(other, location[id].price, best) /\ best \in DOMAIN levels[other]
    BY <1>1 DEF Best
  <1>3. ASSUME location[id].price = best PROVE owned[resting].arrival < owned[id].arrival
    <2>1. PICK level : level = levels[other][best]
      OBVIOUS
    <2>2. level \in Seq(OrderId)
      BY <1>1, <1>2, <2>1 DEF IInv, TypeOK, IsMap
    <2>3. PICK m \in 1..Len(level) : level[m] = id
      BY <1>1, <1>3, <2>1
    <2>4. 1 \in 1..Len(level) /\ 1 < m
      <3>1. level[1] = resting
        BY <2>1
      <3>2. m # 1
        BY <2>3, <3>1, Zenon
      <3>3. m \in 1..Len(level) /\ Len(level) \in Nat
        BY ONLY <2>2, <2>3, m \in 1..Len(level)
      <3> QED
        BY ONLY <3>2, <3>3
    <2>5. \A i, j \in 1..Len(level) : i < j => owned[level[i]].arrival < owned[level[j]].arrival
      BY <1>1, <1>2, <2>1 DEF IInv, TimePriority
    <2> QED
      BY <2>1, <2>3, <2>4, <2>5
  <1> QED
    BY <1>2, <1>3

(* The maps after a fill of `qty` between the orders `id` and `resting`.   *)
FillMade(loc, own, loc2, own2, id, resting, qty) ==
  /\ resting \in DOMAIN loc
  /\ DOMAIN loc2 \subseteq DOMAIN loc /\ DOMAIN loc \ {resting} \subseteq DOMAIN loc2
  /\ \A x \in DOMAIN loc2 : loc2[x] = loc[x]
  /\ \A x \in DOMAIN loc \ {resting} : own2[x] = own[x]
  /\ resting \in DOMAIN loc2 => /\ own2[resting].remaining = own[resting].remaining - qty
                                /\ qty < own[resting].remaining
                                /\ own2[resting].quantity = own[resting].quantity
                                /\ own2[resting].arrival = own[resting].arrival
  /\ resting \notin DOMAIN loc2 => own[resting].remaining = qty
  /\ Asked(id, own2) = Asked(id, own)
  /\ own2[id].remaining = own[id].remaining - qty

(* A fill of the first order not hit yet takes the call one trade further. *)
LEMMA InCallMore ==
  ASSUME NEW s \in Seq(Resting(OrderId)), NEW loc, NEW own, NEW loc2, NEW own2, NEW id,
         NEW A, NEW tr \in Seq(A), InCall(s, loc, own, id, tr),
         NEW resting, NEW qty \in Nat, FillMade(loc, own, loc2, own2, id, resting, qty),
         NEW k \in Eligible(s, Asked(id, own)), s[k].id = resting, Taken(s, loc, own)[k] = 0,
         \A j \in Eligible(s, Asked(id, own)) : Ahead(s, j, k) => Taken(s, loc, own)[j] # 0,
         qty > 0, qty <= own[id].remaining, qty <= own[resting].remaining,
         qty = own[id].remaining \/ qty = own[resting].remaining,
         NEW t \in A, t = Trade(own[id].side, id, resting, s[k].price, qty)
  PROVE  InCall(s, loc2, own2, id, Append(tr, t))
  <1>1. PICK order : order = Asked(id, own)
    OBVIOUS
  <1>2. PICK taken : taken = Taken(s, loc, own)
    OBVIOUS
  <1>3. PICK taken2 : taken2 = Taken(s, loc2, own2)
    OBVIOUS
  <1>4. PICK left : left = own[id].remaining
    OBVIOUS
  <1>5. /\ Lists(s, loc, own) /\ \A i \in DOMAIN s : s[i].id # id
        /\ order \in Orders(OrderId, Price, 1..MaxQuantity)
        /\ Matched(s, order, taken, left) /\ Traded(s, order, taken, tr)
    BY <1>1, <1>2, <1>4 DEF InCall
  <1>6. k \in DOMAIN s /\ resting \in DOMAIN loc
    BY DEF Eligible, FillMade
  <1>7. /\ taken \in [DOMAIN s -> Nat] /\ left \in Nat
    BY <1>5 DEF Matched
  <1>8. \A i \in DOMAIN s : s[i].remaining \in Nat \ {0}
    BY RestingFields
  <1>9. \A i \in DOMAIN s : i # k => s[i].id # resting
    BY <1>5, <1>6 DEF Lists
  <1>10. own[resting].remaining = s[k].remaining
    <2>1. taken[k] = s[k].remaining - own[resting].remaining /\ taken[k] = 0
      BY <1>2, <1>6 DEF Taken
    <2>2. own[resting].remaining \in Nat
      BY <1>5, <1>6 DEF Lists
    <2> QED
      BY <1>6, <1>8, <2>1, <2>2
  <1>11. ASSUME NEW i \in DOMAIN s, i # k
         PROVE  /\ s[i].id \in DOMAIN loc <=> s[i].id \in DOMAIN loc2
                /\ s[i].id \in DOMAIN loc => /\ loc2[s[i].id] = loc[s[i].id]
                                             /\ own2[s[i].id] = own[s[i].id]
    BY <1>9, <1>11 DEF FillMade
  <1>12. \A i \in DOMAIN s : i # k => taken2[i] = taken[i]
    BY <1>2, <1>3, <1>11 DEF Taken
  <1>13. taken2[k] = qty
    <2>1. CASE resting \in DOMAIN loc2
      <3>1. taken2[k] = s[k].remaining - own2[resting].remaining
        BY <1>3, <1>6, <2>1 DEF Taken
      <3>2. own2[resting].remaining = s[k].remaining - qty
        BY <1>10, <2>1 DEF FillMade
      <3> QED
        BY <1>6, <1>8, <3>1, <3>2
    <2>2. CASE resting \notin DOMAIN loc2
      <3>1. taken2[k] = s[k].remaining
        BY <1>3, <1>6, <2>2 DEF Taken
      <3> QED
        BY <1>10, <2>2, <3>1 DEF FillMade
    <2> QED
      BY <2>1, <2>2
  <1>14. taken2 \in [DOMAIN s -> Nat]
    <2>1. taken2 = [i \in DOMAIN s |-> taken2[i]]
      BY <1>3 DEF Taken
    <2>2. \A i \in DOMAIN s : taken2[i] \in Nat
      BY <1>7, <1>12, <1>13
    <2> QED
      BY <2>1, <2>2
  <1>15. /\ k \in Eligible(s, order) /\ taken[k] = 0
         /\ \A j \in Eligible(s, order) : Ahead(s, j, k) => taken[j] # 0
         /\ qty <= left /\ qty <= s[k].remaining /\ (qty = left \/ qty = s[k].remaining)
         /\ t = Trade(order.side, order.id, s[k].id, s[k].price, qty)
    <2>1. order.side = own[id].side /\ order.id = id
      BY <1>1 DEF Asked
    <2> QED
      BY <1>1, <1>2, <1>4, <1>10, <2>1
  <1>16. Matched(s, order, taken2, left - qty) /\ Traded(s, order, taken2, Append(tr, t))
    BY ONLY s \in Seq(Resting(OrderId)), tr \in Seq(A), t \in A, qty \in Nat, qty > 0,
            <1>5, <1>12, <1>13, <1>14, <1>15, MatchMore
  <1>17. Lists(s, loc2, own2)
    <2>1. \A x \in DOMAIN loc2 : \E i \in DOMAIN s : s[i].id = x
      BY <1>5 DEF Lists, FillMade
    <2>2. ASSUME NEW i \in DOMAIN s, s[i].id \in DOMAIN loc2
          PROVE  /\ s[i].id \in DOMAIN loc
                 /\ s[i].side = loc2[s[i].id].side /\ s[i].price = loc2[s[i].id].price
                 /\ s[i].quantity = own2[s[i].id].quantity
                 /\ own2[s[i].id].remaining \in Nat \ {0}
                 /\ own2[s[i].id].remaining <= s[i].remaining
                 /\ own2[s[i].id].arrival = own[s[i].id].arrival
      <3>1. s[i].id \in DOMAIN loc /\ loc2[s[i].id] = loc[s[i].id]
        BY <2>2 DEF FillMade
      <3>2. /\ s[i].side = loc[s[i].id].side /\ s[i].price = loc[s[i].id].price
            /\ s[i].quantity = own[s[i].id].quantity
            /\ own[s[i].id].remaining \in Nat \ {0}
            /\ own[s[i].id].remaining <= s[i].remaining
        BY <1>5, <3>1 DEF Lists
      <3>3. CASE i = k
        <4>1. /\ own2[resting].remaining = s[k].remaining - qty /\ qty < s[k].remaining
              /\ own2[resting].quantity = own[resting].quantity
              /\ own2[resting].arrival = own[resting].arrival
          BY <1>10, <2>2, <3>3 DEF FillMade
        <4>2. own2[resting].remaining \in Nat \ {0} /\ own2[resting].remaining <= s[k].remaining
          BY <1>6, <1>8, <4>1
        <4> QED
          BY <3>1, <3>2, <3>3, <4>1, <4>2
      <3>4. CASE i # k
        BY <1>11, <3>1, <3>2, <3>4
      <3> QED
        BY <3>3, <3>4
    <2>3. ASSUME NEW i \in DOMAIN s, NEW j \in DOMAIN s,
                 s[i].id \in DOMAIN loc2, s[j].id \in DOMAIN loc2, i < j
          PROVE  own2[s[i].id].arrival < own2[s[j].id].arrival
      BY <1>5, <2>2, <2>3 DEF Lists
    <2>4. \A i, j \in DOMAIN s : s[i].id = s[j].id => i = j
      BY <1>5 DEF Lists
    <2> QED
      BY <2>1, <2>2, <2>3, <2>4 DEF Lists
  <1>18. Asked(id, own2) = order /\ own2[id].remaining = left - qty
    BY <1>1, <1>4 DEF FillMade
  <1> QED
    BY <1>3, <1>5, <1>16, <1>17, <1>18 DEF InCall

(* What an iteration of matchIncoming does to the maps.                    *)
LEMMA MatchStepMaps ==
  ASSUME IInv, ~Idle, NEW resting \in DOMAIN location, NEW qty \in Nat, FillOf(resting, qty)
  PROVE  FillMade(location, owned, location', owned', incoming, resting, qty)
  <1> DEFINE order == owned[incoming]
             rest == owned[resting]
  <1>1. /\ incoming \in DOMAIN owned /\ incoming \notin DOMAIN location
        /\ order \in OrderObjects
        /\ \A id \in DOMAIN location : id \in DOMAIN owned /\ owned[id] \in OrderObjects
    BY IncomingOwned
  <1>2. /\ qty > 0 /\ qty <= order.remaining /\ qty <= rest.remaining
        /\ owned'[incoming] = Filled(order, qty, order.status)
        /\ \A x \in DOMAIN owned' : x # incoming /\ x # resting => owned'[x] = owned[x]
    BY DEF FillOf
  <1>3. order.status \in OrderStatus /\ "PARTIALLY_FILLED" \in OrderStatus /\ rest \in OrderObjects
    BY <1>1 DEF OrderObjects, OrderStatus
  <1>4. /\ owned'[incoming].remaining = order.remaining - qty
        /\ owned'[incoming].kind = order.kind /\ owned'[incoming].side = order.side
        /\ owned'[incoming].price = order.price /\ owned'[incoming].quantity = order.quantity
    BY <1>1, <1>2, <1>3, FilledFields
  <1>5. Asked(incoming, owned') = Asked(incoming, owned)
    BY <1>4 DEF Asked
  <1>6. CASE /\ rest.remaining = qty
             /\ location' = Erase(location, resting)
             /\ DOMAIN owned' = DOMAIN owned \ {resting}
    <2>1. /\ DOMAIN location' = DOMAIN location \ {resting}
          /\ \A x \in DOMAIN location' : location'[x] = location[x]
      BY <1>6 DEF Erase, Restrict
    <2>2. \A x \in DOMAIN location \ {resting} : owned'[x] = owned[x]
      BY <1>1, <1>2, <1>6
    <2> QED
      BY <1>4, <1>5, <1>6, <2>1, <2>2 DEF FillMade
  <1>7. CASE /\ rest.remaining > qty
             /\ location' = location
             /\ DOMAIN owned' = DOMAIN owned
             /\ owned'[resting] = Filled(rest, qty, "PARTIALLY_FILLED")
    <2>1. \A x \in DOMAIN location \ {resting} : owned'[x] = owned[x]
      BY <1>1, <1>2, <1>7
    <2>2. /\ owned'[resting].remaining = rest.remaining - qty
          /\ owned'[resting].quantity = rest.quantity
          /\ owned'[resting].arrival = rest.arrival
      BY <1>2, <1>3, <1>7, FilledFields
    <2>3. rest.remaining \in Nat
      BY <1>3 DEF OrderObjects
    <2> QED
      BY <1>4, <1>5, <1>7, <2>1, <2>2, <2>3 DEF FillMade
  <1> QED
    BY <1>6, <1>7 DEF FillOf

(* An order of s that has not been hit still rests.                        *)
LEMMA NotHit ==
  ASSUME NEW s \in Seq(Resting(OrderId)), NEW loc, NEW own, Lists(s, loc, own),
         NEW i \in DOMAIN s, Taken(s, loc, own)[i] = 0
  PROVE  /\ s[i].id \in DOMAIN loc
         /\ s[i].side = loc[s[i].id].side /\ s[i].price = loc[s[i].id].price
  <1>1. s[i].remaining # 0
    BY RestingFields
  <1>2. s[i].id \in DOMAIN loc
    BY <1>1 DEF Taken
  <1> QED
    BY <1>2 DEF Lists

(* The iteration hits the first order that has not been hit.               *)
LEMMA MatchStepInCall ==
  ASSUME IInv, ~Idle, before \in Seq(Resting(OrderId)),
         InCall(before, location, owned, incoming, trades),
         NEW resting \in DOMAIN location, NEW qty \in Nat, FillOf(resting, qty)
  PROVE  InCall(before, location', owned', incoming, trades')
  <1>1. PICK s : s = before
    OBVIOUS
  <1>2. PICK own : own = owned
    OBVIOUS
  <1>3. PICK loc : loc = location
    OBVIOUS
  <1>4. PICK order : order = Asked(incoming, own)
    OBVIOUS
  <1>5. PICK taken : taken = Taken(s, loc, own)
    OBVIOUS
  <1>6. PICK best : best = loc[resting].price
    OBVIOUS
  <1>7. PICK other : other = Opposite(own[incoming].side)
    OBVIOUS
  <1>8. /\ loc[resting].side = other /\ best \in Best(other)
        /\ resting = levels[other][best][1] /\ PriceOk(own[incoming], best)
        /\ qty > 0 /\ qty <= own[incoming].remaining /\ qty <= own[resting].remaining
        /\ qty = own[incoming].remaining \/ qty = own[resting].remaining
        /\ trades' = Append(trades, Trade(own[incoming].side, incoming, resting, best, qty))
    BY <1>2, <1>3, <1>6, <1>7 DEF FillOf
  <1>9. /\ own[incoming] \in OrderObjects /\ other \in Side /\ own[incoming].side \in Side
        /\ own[incoming].kind \in OrderKind /\ incoming \in OrderId
        /\ own[incoming].kind = "LIMIT" => own[incoming].price \in Nat
        /\ own[incoming].remaining \in Nat
    <2>1. own[incoming] \in OrderObjects /\ other \in Side /\ incoming \in OrderId
      BY <1>2, <1>7, IncomingOwned
    <2>2. own[incoming].kind = "LIMIT" => own[incoming].price \in Price
      BY <1>2 DEF IInv, IncomingOrder
    <2> QED
      BY <2>1, <2>2, BookAssumption DEF OrderObjects
  <1>10. /\ Lists(s, loc, own)
         /\ Matched(s, order, taken, own[incoming].remaining)
         /\ s \in Seq(Resting(OrderId)) /\ resting \in DOMAIN loc
    BY <1>1, <1>2, <1>3, <1>4, <1>5 DEF InCall
  <1>11. PICK k \in DOMAIN s : s[k].id = resting
    BY <1>10 DEF Lists
  <1>12. /\ s[k].side = other /\ s[k].price = best
         /\ own[resting].remaining \in Nat \ {0} /\ own[resting].remaining <= s[k].remaining
    BY <1>6, <1>8, <1>10, <1>11 DEF Lists
  <1>13. best \in Nat /\ s[k].remaining \in Nat \ {0} /\ best \in Price /\ resting \in OrderId
    <2>1. best \in Price
      BY <1>3, <1>6, InLevel
    <2>2. s[k].remaining \in Nat \ {0} /\ s[k].id \in OrderId
      BY <1>10, RestingFields
    <2> QED
      BY <1>11, <2>1, <2>2, BookAssumption
  <1>14. order.side = own[incoming].side
    BY <1>4 DEF Asked
  <1>15. k \in Eligible(s, order)
    <2>1. Acceptable(order, best)
      BY <1>4, <1>8, <1>9, <1>13, AcceptableIs
    <2> QED
      BY <1>7, <1>11, <1>12, <1>14, <2>1 DEF Eligible
  <1>16. taken[k] = 0
    <2>1. taken[k] = s[k].remaining - own[resting].remaining
      BY <1>5, <1>10, <1>11 DEF Taken
    <2>2. taken[k] # s[k].remaining
      BY <1>12, <1>13, <2>1
    <2>3. taken[k] # 0 => own[incoming].remaining = 0
      BY <1>10, <1>11, <2>2 DEF Matched, HitBy
    <2> QED
      BY <1>8, <1>9, <2>3
  <1>17. ASSUME NEW j \in Eligible(s, order), Ahead(s, j, k), taken[j] = 0 PROVE FALSE
    <2>1. j \in DOMAIN s /\ s[j].side = other
      BY <1>7, <1>14 DEF Eligible
    <2>2. PICK id : id = s[j].id
      OBVIOUS
    <2>3. id \in DOMAIN loc /\ loc[id].side = other /\ loc[id].price = s[j].price
      BY <1>5, <1>10, <1>17, <2>1, <2>2, NotHit
    <2>4. ~Ahead(s, k, k)
      BY <1>10, <1>11, <1>12, AheadOrder
    <2>5. j # k /\ id # resting
      BY <1>10, <1>11, <1>17, <2>1, <2>2, <2>4 DEF Lists
    <2>6. /\ ~Precedes(other, s[j].price, best)
          /\ s[j].price = best => own[resting].arrival < own[id].arrival
      <3>1. /\ ~Precedes(other, location[id].price, best)
            /\ location[id].price = best => owned[resting].arrival < owned[id].arrival
        BY <1>3, <1>6, <1>8, <2>3, <2>5, HeadFirst
      <3> QED
        BY <1>2, <1>3, <2>3, <3>1
    <2>7. s[j].price \in Nat /\ j \in Nat /\ k \in Nat
      BY <1>10, <1>11, <2>1, RestingFields
    <2>8. s[j].price = best /\ j < k
      BY <1>9, <1>12, <1>13, <1>17, <2>1, <2>6, <2>7 DEF Ahead, Precedes, Side
    <2>9. own[id].arrival < own[resting].arrival
      BY <1>10, <1>11, <2>1, <2>2, <2>3, <2>8 DEF Lists
    <2>10. own[id].arrival \in Nat /\ own[resting].arrival \in Nat
      BY <1>2, <1>3, <1>10, <2>3, BookEntries DEF EntriesTyped
    <2> QED
      BY <2>6, <2>8, <2>9, <2>10
  <1>18. PICK t : t = Trade(own[incoming].side, incoming, resting, best, qty)
    OBVIOUS
  <1>19. t \in Trades(OrderId, Price) /\ trades \in Seq(Trades(OrderId, Price))
    <2>1. t \in Trades(OrderId, Price)
      BY <1>9, <1>13, <1>18 DEF Trades, Trade
    <2> QED
      BY <2>1 DEF IInv, TypeOK
  <1>20. FillMade(loc, own, location', owned', incoming, resting, qty)
    BY <1>2, <1>3, MatchStepMaps
  <1>21. PICK loc2 : loc2 = location'
    OBVIOUS
  <1>22. PICK own2 : own2 = owned'
    OBVIOUS
  <1>23. /\ InCall(s, loc, own, incoming, trades)
         /\ FillMade(loc, own, loc2, own2, incoming, resting, qty)
    BY <1>1, <1>2, <1>3, <1>20, <1>21, <1>22
  <1>24. /\ k \in Eligible(s, Asked(incoming, own)) /\ Taken(s, loc, own)[k] = 0
         /\ \A j \in Eligible(s, Asked(incoming, own)) : Ahead(s, j, k) => Taken(s, loc, own)[j] # 0
         /\ t = Trade(own[incoming].side, incoming, resting, s[k].price, qty)
    BY <1>4, <1>5, <1>12, <1>15, <1>16, <1>17, <1>18
  <1>25. InCall(s, loc2, own2, incoming, Append(trades, t))
    BY ONLY qty \in Nat, <1>8, <1>10, <1>11, <1>19, <1>23, <1>24, InCallMore
  <1> QED
    BY <1>1, <1>8, <1>18, <1>21, <1>22, <1>25

------------------------------------------------------------------------------
(* What a call leaves. *)

(* When the loop ends, nothing is left to fill or nothing to fill it with. *)
LEMMA LoopDone ==
  ASSUME IInv, ~Idle, before \in Seq(Resting(OrderId)),
         InCall(before, location, owned, incoming, trades), LoopEnds(owned[incoming])
  PROVE  \/ owned[incoming].remaining = 0
         \/ Eligible(before, Asked(incoming, owned))
              \subseteq HitBy(before, Taken(before, location, owned))
  <1> SUFFICES ASSUME owned[incoming].remaining # 0,
                      NEW i \in Eligible(before, Asked(incoming, owned)),
                      i \notin HitBy(before, Taken(before, location, owned))
               PROVE  FALSE
    OBVIOUS
  <1>1. PICK other : other = Opposite(owned[incoming].side)
    OBVIOUS
  <1>2. PICK order : order = Asked(incoming, owned)
    OBVIOUS
  <1>3. order.side = owned[incoming].side
    BY <1>2 DEF Asked
  <1>4. i \in DOMAIN before /\ before[i].side = other /\ Acceptable(order, before[i].price)
    BY <1>1, <1>2, <1>3 DEF Eligible
  <1>5. Taken(before, location, owned)[i] = 0 /\ Lists(before, location, owned)
    BY <1>4 DEF HitBy, InCall
  <1>6. PICK id : id = before[i].id
    OBVIOUS
  <1>7. /\ id \in DOMAIN location /\ location[id].side = other
        /\ location[id].price = before[i].price
    BY <1>4, <1>5, <1>6, NotHit
  <1>8. PICK price : price = before[i].price
    OBVIOUS
  <1>9. price \in DOMAIN levels[other] /\ price \in Price /\ other \in Side
    BY <1>7, <1>8, InLevel
  <1>10. /\ owned[incoming].side \in Side /\ owned[incoming].kind \in OrderKind
         /\ owned[incoming].kind = "LIMIT" => owned[incoming].price \in Nat
    <2>1. owned[incoming] \in OrderObjects
      BY IncomingOwned
    <2>2. owned[incoming].kind = "LIMIT" => owned[incoming].price \in Price
      BY DEF IInv, IncomingOrder
    <2> QED
      BY <2>1, <2>2, BookAssumption DEF OrderObjects
  <1>11. price \in Nat /\ PriceOk(owned[incoming], price)
    <2>1. price \in Nat
      BY <1>9, BookAssumption
    <2> QED
      BY <1>2, <1>4, <1>8, <1>10, <2>1, AcceptableIs
  <1>12. PICK best \in Best(other) : ~PriceOk(owned[incoming], best)
    BY <1>1, <1>9 DEF LoopEnds
  <1>13. best \in DOMAIN levels[other] /\ ~Precedes(other, price, best)
    BY <1>9, <1>12 DEF Best
  <1>14. best \in Nat
    BY <1>9, <1>13, BookAssumption DEF IInv, TypeOK, IsMap
  <1> QED
    BY <1>1, <1>10, <1>11, <1>12, <1>13, <1>14 DEF PriceOk, Precedes, Opposite, Side, OrderKind

(* What the fills of a call leave of the list is a view of what rests.     *)
LEMMA UnfilledView ==
  ASSUME NEW s \in Seq(Resting(OrderId)), NEW loc, NEW own, Lists(s, loc, own),
         NEW own2, \A x \in DOMAIN loc : own2[x] = own[x],
         NEW taken, taken = Taken(s, loc, own)
  PROVE  /\ IsView(Keep(AfterFills(s, taken), Unfilled(s, taken)), loc, own2)
         /\ \E A : Keep(AfterFills(s, taken), Unfilled(s, taken)) \in Seq(A)
  <1>1. PICK a : a = AfterFills(s, taken)
    OBVIOUS
  <1>2. PICK S : S = Unfilled(s, taken)
    OBVIOUS
  <1>3. S \in SUBSET (DOMAIN s) /\ \A i \in DOMAIN s : i \in S <=> taken[i] # s[i].remaining
    BY <1>2 DEF Unfilled
  <1>4. ASSUME NEW i \in DOMAIN s
        PROVE  /\ a[i] = [s[i] EXCEPT !.remaining = @ - taken[i]]
               /\ a[i].id = s[i].id
               /\ a[i] = [id |-> s[i].id, side |-> s[i].side, price |-> s[i].price,
                          quantity |-> s[i].quantity, remaining |-> s[i].remaining - taken[i]]
    <2>1. a[i] = [s[i] EXCEPT !.remaining = @ - taken[i]]
      BY <1>1 DEF AfterFills
    <2>2. s[i] \in Resting(OrderId)
      BY RestingFields
    <2>3. \A r \in Resting(OrderId) : \A n :
            [r EXCEPT !.remaining = @ - n] = [id |-> r.id, side |-> r.side, price |-> r.price,
                          quantity |-> r.quantity, remaining |-> r.remaining - n]
      <3> TAKE r \in Resting(OrderId)
      <3>1. PICK id \in OrderId, side \in Side, price \in Nat \ {0}, quantity \in Nat,
                 remaining \in Nat \ {0} :
              r = [id |-> id, side |-> side, price |-> price,
                   quantity |-> quantity, remaining |-> remaining]
        BY DEF Resting
      <3> QED
        BY <3>1
    <2>4. a[i] = [id |-> s[i].id, side |-> s[i].side, price |-> s[i].price,
                  quantity |-> s[i].quantity, remaining |-> s[i].remaining - taken[i]]
      BY <2>1, <2>2, <2>3
    <2> QED
      BY <2>1, <2>4
  <1>5. ASSUME NEW i \in DOMAIN s, s[i].id \in DOMAIN loc
        PROVE  i \in S /\ a[i] = Entry(s[i].id, loc, own2)
    <2>1. /\ s[i].side = loc[s[i].id].side /\ s[i].price = loc[s[i].id].price
          /\ s[i].quantity = own[s[i].id].quantity
          /\ own[s[i].id].remaining \in Nat \ {0} /\ s[i].remaining \in Nat
      BY <1>5, RestingFields DEF Lists
    <2>2. taken[i] = s[i].remaining - own[s[i].id].remaining
      BY <1>5 DEF Taken
    <2>3. taken[i] # s[i].remaining /\ s[i].remaining - taken[i] = own[s[i].id].remaining
      BY <2>1, <2>2
    <2>4. own2[s[i].id] = own[s[i].id] /\ i \in S
      BY <1>3, <1>5, <2>3
    <2>5. a[i] = [id |-> s[i].id, side |-> s[i].side, price |-> s[i].price,
                  quantity |-> s[i].quantity, remaining |-> s[i].remaining - taken[i]]
      BY <1>4
    <2>6. a[i] = [id |-> s[i].id, side |-> loc[s[i].id].side, price |-> loc[s[i].id].price,
                  quantity |-> own2[s[i].id].quantity, remaining |-> own2[s[i].id].remaining]
      BY ONLY <2>1, <2>3, <2>4, <2>5
    <2> QED
      BY <2>4, <2>6 DEF Entry
  <1>6. \A i \in S : i \in DOMAIN s /\ s[i].id \in DOMAIN loc
    BY <1>3 DEF Taken
  <1>7. DOMAIN a = DOMAIN s /\ \E A : a \in Seq(A)
    <2>1. Len(s) \in Nat /\ DOMAIN s = 1..Len(s)
      OBVIOUS
    <2>2. a = [i \in 1..Len(s) |-> a[i]]
      BY <1>1, <2>1 DEF AfterFills
    <2>3. IsSeq(a)
      BY <2>1, <2>2, FunctionSeq
    <2> QED
      BY <2>1, <2>2, <2>3 DEF IsSeq
  <1>8. PICK A : a \in Seq(A)
    BY <1>7
  <1>9. /\ S \in SUBSET (DOMAIN a)
        /\ \A i \in S : a[i].id \in DOMAIN loc /\ a[i] = Entry(a[i].id, loc, own2)
        /\ \A id \in DOMAIN loc : \E i \in S : a[i].id = id
        /\ \A i, j \in S : i < j => own2[a[i].id].arrival < own2[a[j].id].arrival
    <2>1. ASSUME NEW id \in DOMAIN loc PROVE \E i \in S : a[i].id = id
      <3>1. PICK i \in DOMAIN s : s[i].id = id
        BY DEF Lists
      <3> QED
        BY <1>4, <1>5, <3>1
    <2>2. ASSUME NEW i \in S, NEW j \in S, i < j
          PROVE  own2[a[i].id].arrival < own2[a[j].id].arrival
      <3>1. /\ i \in DOMAIN s /\ j \in DOMAIN s
            /\ s[i].id \in DOMAIN loc /\ s[j].id \in DOMAIN loc
        BY <1>6
      <3>2. own[s[i].id].arrival < own[s[j].id].arrival
        BY <2>2, <3>1 DEF Lists
      <3>3. own2[s[i].id] = own[s[i].id] /\ own2[s[j].id] = own[s[j].id]
        BY <3>1
      <3>4. a[i].id = s[i].id /\ a[j].id = s[j].id
        BY <1>4, <3>1
      <3> QED
        BY <3>2, <3>3, <3>4
    <2>3. \A i \in S : a[i].id \in DOMAIN loc /\ a[i] = Entry(a[i].id, loc, own2)
      BY <1>4, <1>5, <1>6
    <2> QED
      BY <1>3, <1>7, <2>1, <2>2, <2>3
  <1>10. IsView(Keep(a, S), loc, own2)
    BY ONLY <1>8, <1>9, KeepView
  <1>11. \E B : Keep(a, S) \in Seq(B)
    <2>1. IsSeq(a)
      BY <1>8 DEF IsSeq
    <2>2. S \subseteq DOMAIN a
      BY <1>9
    <2>3. IsSeq(Keep(a, S))
      BY <2>1, <2>2, KeepSeq
    <2> QED
      BY <2>3 DEF IsSeq
  <1> QED
    BY <1>1, <1>2, <1>10, <1>11

(* A call leaves the outcome in the maps, and returns its trades.          *)
LEMMA ReturnsOutcome ==
  ASSUME IInv, IInv', AddOrderReturns, before \in Seq(Resting(OrderId)),
         InCall(before, location, owned, incoming, trades)
  PROVE  LET outcome == Outcome(before, Asked(incoming, owned))
         IN  /\ outcome.trades = trades
             /\ IsView(outcome.book, location', owned')
             /\ \E A : outcome.book \in Seq(A)
  <1>1. PICK s : s = before
    OBVIOUS
  <1>2. PICK own : own = owned
    OBVIOUS
  <1>3. PICK loc : loc = location
    OBVIOUS
  <1>4. PICK order : order = Asked(incoming, own)
    OBVIOUS
  <1>5. PICK taken : taken = Taken(s, loc, own)
    OBVIOUS
  <1>6. PICK left : left = own[incoming].remaining
    OBVIOUS
  <1>7. PICK loc2 : loc2 = location'
    OBVIOUS
  <1>8. PICK own2 : own2 = owned'
    OBVIOUS
  <1>9. PICK kept : kept = Keep(AfterFills(s, taken), Unfilled(s, taken))
    OBVIOUS
  <1>10. /\ s \in Seq(Resting(OrderId)) /\ Lists(s, loc, own)
         /\ Matched(s, order, taken, left) /\ Traded(s, order, taken, trades)
         /\ order \in Orders(OrderId, Price, 1..MaxQuantity)
    BY <1>1, <1>2, <1>3, <1>4, <1>5, <1>6 DEF InCall
  <1>11. ~Idle /\ LoopEnds(owned[incoming])
    BY DEF AddOrderReturns
  <1>12. left = 0 \/ Eligible(s, order) \subseteq HitBy(s, taken)
    BY <1>1, <1>2, <1>3, <1>4, <1>5, <1>6, <1>11, LoopDone
  <1>13. /\ order.quantity \in Nat /\ left \in Nat
         /\ order.id = incoming /\ order.kind = own[incoming].kind
         /\ order.side = own[incoming].side
         /\ order.price = own[incoming].price /\ order.quantity = own[incoming].quantity
         /\ order.kind \in OrderKind
    <2>1. /\ order.id = incoming /\ order.kind = own[incoming].kind
          /\ order.side = own[incoming].side
          /\ order.price = own[incoming].price /\ order.quantity = own[incoming].quantity
      BY <1>4 DEF Asked
    <2>2. own[incoming] \in OrderObjects
      BY <1>2, <1>11, IncomingOwned
    <2> QED
      BY <1>6, <2>1, <2>2 DEF OrderObjects
  <1>14. trades \in Seq(Trades(OrderId, Price))
    BY DEF IInv, TypeOK
  <1>15. PICK rest : rest = Remainder(order, left)
    OBVIOUS
  <1>16. /\ Outcome(s, order).trades = trades
         /\ Outcome(s, order).book
              = kept \o IF order.kind = "LIMIT" /\ left > 0 THEN <<rest>> ELSE <<>>
    BY ONLY <1>9, <1>10, <1>12, <1>13, <1>14, <1>15, OutcomeIs
  <1>17. incoming \notin DOMAIN loc /\ incoming \in DOMAIN own
    BY <1>2, <1>3, <1>11, IncomingOwned
  <1>18. (\A x \in DOMAIN loc : own2[x] = own[x]) => IsView(kept, loc, own2)
    BY <1>5, <1>9, <1>10, UnfilledView
  <1>19. IsView(kept, loc, own) /\ \E A : kept \in Seq(A)
    BY <1>5, <1>9, <1>10, UnfilledView
  <1>20. PICK A : kept \in Seq(A)
    BY <1>19
  <1>21. DOMAIN own = DOMAIN loc \cup {incoming}
    BY <1>2, <1>3, <1>11 DEF IInv, NoLeakedOrder, Idle
  <1>22. CASE /\ left = 0 \/ order.kind = "MARKET"
              /\ owned' = Erase(owned, incoming) /\ location' = location
    <2>1. \A x \in DOMAIN loc : own2[x] = own[x]
      BY <1>2, <1>8, <1>17, <1>21, <1>22 DEF Erase, Restrict
    <2>2. Outcome(s, order).book = kept \o <<>>
      <3>1. ~(order.kind = "LIMIT" /\ left > 0)
        BY <1>13, <1>22
      <3> QED
        BY <1>16, <3>1, Zenon
    <2>3. kept \o <<>> = kept
      BY <1>20
    <2>4. IsView(Outcome(s, order).book, loc2, own2)
      BY <1>3, <1>7, <1>18, <1>22, <2>1, <2>2, <2>3
    <2> QED
      BY <1>1, <1>2, <1>4, <1>7, <1>8, <1>16, <1>20, <2>2, <2>3, <2>4
  <1>23. CASE left # 0 /\ order.kind = "LIMIT" /\ RestInBook(owned[incoming])
    <2>1. /\ loc2 = Put(loc, incoming, [side |-> own[incoming].side, price |-> own[incoming].price])
          /\ \E status : own2 = Put(own, incoming, [own[incoming] EXCEPT !.status = status])
      BY <1>2, <1>3, <1>7, <1>8, <1>23 DEF RestInBook
    <2>2. PICK status : own2 = Put(own, incoming, [own[incoming] EXCEPT !.status = status])
      BY <2>1
    <2>3. own[incoming] \in OrderObjects
      BY <1>2, <1>11, IncomingOwned
    <2>4. /\ DOMAIN loc2 = DOMAIN loc \cup {incoming}
          /\ loc2[incoming].side = order.side /\ loc2[incoming].price = order.price
          /\ \A x \in DOMAIN loc : loc2[x] = loc[x] /\ own2[x] = own[x]
      BY <1>13, <1>17, <1>21, <2>1, <2>2 DEF Put
    <2>5. own2[incoming] = [own[incoming] EXCEPT !.status = status]
      BY <2>2 DEF Put
    <2>6. /\ own2[incoming].quantity = order.quantity /\ own2[incoming].remaining = left
          /\ own2[incoming].arrival = own[incoming].arrival
      BY <1>6, <1>13, <2>3, <2>5 DEF OrderObjects
    <2>7. rest = Entry(incoming, loc2, own2)
      BY <1>13, <1>15, <2>4, <2>6 DEF Remainder, Entry
    <2>8. \A x \in DOMAIN loc : own2[x].arrival < own2[incoming].arrival
      BY <1>2, <1>3, <1>11, <2>4, <2>6 DEF IInv, IncomingOrder
    <2>9. IsView(Append(kept, rest), loc2, own2)
      BY ONLY <1>19, <1>20, <2>4, <2>7, <2>8, AppendView
    <2>10. Outcome(s, order).book = kept \o <<rest>>
      BY <1>13, <1>16, <1>23
    <2>11. kept \o <<rest>> = Append(kept, rest) /\ Append(kept, rest) \in Seq(A \cup {rest})
      BY <1>20
    <2> QED
      BY <1>1, <1>2, <1>4, <1>7, <1>8, <1>16, <2>9, <2>10, <2>11
  <1> QED
    BY <1>2, <1>6, <1>13, <1>22, <1>23 DEF AddOrderReturns

(* cancelOrder leaves the list without the order.                          *)
LEMMA CancelView ==
  ASSUME IInv, NEW id, CancelOrder(id), before \in Seq(Resting(OrderId)),
         IsView(before, location, owned)
  PROVE  /\ IsView(Cancelled(before, id), location', owned')
         /\ \E A : Cancelled(before, id) \in Seq(A)
         /\ ret' = [call |-> "cancelOrder", found |-> id \in Active(before)]
  <1>1. PICK s : s = before
    OBVIOUS
  <1>2. PICK own : own = owned
    OBVIOUS
  <1>3. PICK loc : loc = location
    OBVIOUS
  <1>4. PICK loc2 : loc2 = location'
    OBVIOUS
  <1>5. PICK own2 : own2 = owned'
    OBVIOUS
  <1>6. DOMAIN own = DOMAIN loc
    BY <1>2, <1>3 DEF CancelOrder, IInv, NoLeakedOrder, Idle
  <1>7. /\ DOMAIN loc2 = DOMAIN loc \ {id}
        /\ \A x \in DOMAIN loc2 : loc2[x] = loc[x] /\ own2[x] = own[x]
        /\ id \in DOMAIN loc => ret' = [call |-> "cancelOrder", found |-> TRUE]
        /\ id \notin DOMAIN loc => ret' = [call |-> "cancelOrder", found |-> FALSE]
    BY <1>2, <1>3, <1>4, <1>5, <1>6 DEF CancelOrder, Returns, Erase, Restrict
  <1>8. s \in Seq(Resting(OrderId)) /\ IsView(s, loc, own)
    BY <1>1, <1>2, <1>3
  <1>9. PICK S : S = {i \in DOMAIN s : s[i].id # id}
    OBVIOUS
  <1>10. /\ S \in SUBSET (DOMAIN s)
         /\ \A i \in S : s[i].id \in DOMAIN loc2 /\ s[i] = Entry(s[i].id, loc2, own2)
         /\ \A x \in DOMAIN loc2 : \E i \in S : s[i].id = x
         /\ \A i, j \in S : i < j => own2[s[i].id].arrival < own2[s[j].id].arrival
    <2>1. ASSUME NEW i \in S
          PROVE  /\ i \in DOMAIN s /\ s[i].id \in DOMAIN loc2
                 /\ s[i] = Entry(s[i].id, loc2, own2)
      <3>1. i \in DOMAIN s /\ s[i].id # id
        BY <1>9
      <3>2. s[i].id \in DOMAIN loc /\ s[i] = Entry(s[i].id, loc, own)
        BY <1>8, <3>1 DEF IsView
      <3>3. s[i].id \in DOMAIN loc2
        BY <1>7, <3>1, <3>2
      <3>4. Entry(s[i].id, loc2, own2) = Entry(s[i].id, loc, own)
        BY <1>7, <3>3 DEF Entry
      <3> QED
        BY <3>1, <3>2, <3>3, <3>4
    <2>2. ASSUME NEW x \in DOMAIN loc2 PROVE \E i \in S : s[i].id = x
      BY <1>7, <1>8, <1>9 DEF IsView
    <2>3. ASSUME NEW i \in S, NEW j \in S, i < j
          PROVE  own2[s[i].id].arrival < own2[s[j].id].arrival
      <3>1. own[s[i].id].arrival < own[s[j].id].arrival
        BY <1>8, <2>1, <2>3 DEF IsView
      <3> QED
        BY <1>7, <2>1, <3>1
    <2> QED
      BY <1>9, <2>1, <2>2, <2>3
  <1>11. IsView(Keep(s, S), loc2, own2)
    BY ONLY <1>8, <1>10, KeepView
  <1>12. Cancelled(before, id) = Keep(s, S)
    BY <1>1, <1>9 DEF Cancelled
  <1>13. \E A : Keep(s, S) \in Seq(A)
    <2>1. IsSeq(s) /\ S \subseteq DOMAIN s
      BY <1>8, <1>10 DEF IsSeq
    <2>2. IsSeq(Keep(s, S))
      BY <2>1, KeepSeq
    <2> QED
      BY <2>2 DEF IsSeq
  <1>14. id \in Active(before) <=> id \in DOMAIN loc
    BY <1>1, <1>8 DEF Active, IsView
  <1>15. ret' = [call |-> "cancelOrder", found |-> id \in Active(before)]
    <2>1. CASE id \in DOMAIN loc
      <3>1. (id \in Active(before)) = TRUE
        BY <1>14, <2>1
      <3> QED
        BY <1>7, <2>1, <3>1, Zenon
    <2>2. CASE id \notin DOMAIN loc
      <3>1. (id \in Active(before)) = FALSE
        BY <1>14, <2>2
      <3> QED
        BY <1>7, <2>2, <3>1, Zenon
    <2> QED
      BY <2>1, <2>2
  <1> QED
    BY <1>4, <1>5, <1>11, <1>12, <1>13, <1>15

------------------------------------------------------------------------------
(* The refinement. *)

(* The history variable: outside a call it is the view of the maps, and    *)
(* during one it is the book the call started from.                        *)
RInv ==
  /\ before \in Seq(Resting(OrderId))
  /\ Idle => IsView(before, location, owned)
  /\ ~Idle => InCall(before, location, owned, incoming, trades)

(* The abstract module computes with the same operators.                   *)
LEMMA SameOperators ==
  /\ \A book, order : Abstract!Outcome(book, order) = Outcome(book, order)
  /\ \A book, id : Abstract!Cancelled(book, id) = Cancelled(book, id)
  /\ \A book : Abstract!Active(book) = Active(book)
  /\ Abstract!Orders(OrderId, Price, 1..MaxQuantity) = Orders(OrderId, Price, 1..MaxQuantity)
  <1>1. ASSUME NEW book, NEW order PROVE Abstract!Outcome(book, order) = Outcome(book, order)
    BY Zenon
    DEF Abstract!Outcome, Outcome, Abstract!Fills, Fills, Abstract!Eligible, Eligible,
        Abstract!Ahead, Ahead, Abstract!Acceptable, Acceptable, Abstract!Opposite, Opposite,
        Abstract!Trade, Trade, Abstract!Keep, Keep, Abstract!Nth, Nth,
        Abstract!Max, Max, Abstract!Min, Min, Abstract!Cardinality, Cardinality,
        Abstract!SumFunction, SumFunction, Abstract!SumFunctionOnSet, SumFunctionOnSet,
        Abstract!FoldFunctionOnSet, FoldFunctionOnSet, Abstract!MapThenFoldSet, MapThenFoldSet
  <1>2. ASSUME NEW book, NEW id PROVE Abstract!Cancelled(book, id) = Cancelled(book, id)
    BY Zenon DEF Abstract!Cancelled, Cancelled, Abstract!Keep, Keep, Abstract!Nth, Nth,
                 Abstract!Cardinality, Cardinality
  <1>3. ASSUME NEW book PROVE Abstract!Active(book) = Active(book)
    BY DEF Abstract!Active, Active
  <1>4. Abstract!Orders(OrderId, Price, 1..MaxQuantity) = Orders(OrderId, Price, 1..MaxQuantity)
    BY DEF Abstract!Orders, Orders, Abstract!Side, Side, Abstract!NoPrice, NoPrice
  <1> QED
    BY <1>1, <1>2, <1>3, <1>4

(* What the history variable becomes when a call is over.                  *)
LEMMA CallOver ==
  ASSUME IInv', Idle', before' = IF Idle' THEN View' ELSE before,
         NEW b, IsView(b, location', owned'), \E A : b \in Seq(A)
  PROVE  before' = b /\ RInv'
  <1>1. PICK A : b \in Seq(A)
    OBVIOUS
  <1>2. EntriesTyped(location', owned')
    BY BookEntries
  <1>3. PICK loc : loc = location'
    OBVIOUS
  <1>4. PICK own : own = owned'
    OBVIOUS
  <1>5. IsView(b, loc, own) /\ EntriesTyped(loc, own)
    BY <1>2, <1>3, <1>4
  <1>6. b \in Seq(Resting(OrderId)) /\ ViewOf(loc, own) = b
    BY ONLY <1>1, <1>5, ViewTyped
  <1>7. before' = ViewOf(location', owned')
    BY ViewIs
  <1>8. before' = b
    BY <1>3, <1>4, <1>6, <1>7
  <1> QED
    BY <1>6, <1>8 DEF RInv

(* A call that throws.                                                     *)
LEMMA ThrowsImplements ==
  ASSUME IInv', RInv, Idle, NEW call \in {"createOrder", "addOrder"},
         Returns([call |-> call, throws |-> "invalid_argument"]),
         UNCHANGED <<owned, levels, location, incoming, arrivals>>,
         before' = IF Idle' THEN View' ELSE before
  PROVE  RInv' /\ Abstract!Next
  <1>1. Idle' /\ IsView(before, location', owned') /\ \E A : before \in Seq(A)
    BY DEF RInv, Idle
  <1>2. PICK b : b = before
    OBVIOUS
  <1>3. before' = b /\ RInv'
    BY <1>1, <1>2, CallOver
  <1>4. Abstract!Throws(call)
    BY <1>2, <1>3 DEF Abstract!Throws, Returns
  <1> QED
    BY <1>3, <1>4 DEF Abstract!Next

(* addOrder begins: nothing of it is seen yet.                             *)
LEMMA AddOrderImplements ==
  ASSUME IInv, IInv', RInv,
         NEW id \in OrderId, NEW kind \in OrderKind, NEW side \in Side,
         NEW quantity \in 0..MaxQuantity, NEW price \in Price \cup {0},
         AddOrder(id, kind, side, quantity, price),
         before' = IF Idle' THEN View' ELSE before
  PROVE  RInv' /\ UNCHANGED <<before, ret>>
  <1> DEFINE new == NewOrder(kind, side, quantity, price, arrivals)
  <1>1. /\ Idle /\ quantity > 0 /\ (kind = "LIMIT" => price > 0) /\ id \notin DOMAIN owned
        /\ owned' = Put(owned, id, new) /\ incoming' = id
        /\ location' = location /\ trades' = trades /\ ret' = ret
    BY DEF AddOrder, Constructible
  <1>2. ~Idle' /\ before' = before
    BY <1>1, BookAssumption DEF Idle
  <1>3. /\ DOMAIN owned = DOMAIN location /\ trades' = <<>>
    BY <1>1 DEF IInv, NoLeakedOrder, IncomingOrder, Idle
  <1>4. PICK s : s = before
    OBVIOUS
  <1>5. PICK loc : loc = location'
    OBVIOUS
  <1>6. PICK own : own = owned'
    OBVIOUS
  <1>7. quantity \in 1..MaxQuantity /\ quantity \in Nat /\ (kind = "LIMIT" => price \in Price)
    BY <1>1, BookAssumption
  <1>8. /\ own[id].kind = kind /\ own[id].side = side /\ own[id].quantity = quantity
        /\ own[id].remaining = quantity
        /\ own[id].price = IF kind = "LIMIT" THEN price ELSE NoPrice
    BY <1>1, <1>6 DEF Put, NewOrder
  <1>9. Asked(id, own) \in Orders(OrderId, Price, 1..MaxQuantity)
    BY <1>7, <1>8 DEF Asked, Orders, OrderKind
  <1>10. \A x \in DOMAIN location : owned'[x] = owned[x] /\ x # id
    BY <1>1, <1>3 DEF Put
  <1>11. s \in Seq(Resting(OrderId)) /\ IsView(s, location, owned)
    BY <1>1, <1>4 DEF RInv
  <1>12. IsView(s, loc, own) /\ \A i \in DOMAIN s : s[i].id # id
    <2>1. \A i \in DOMAIN s : /\ s[i].id \in DOMAIN location /\ s[i].id # id
                              /\ own[s[i].id] = owned[s[i].id]
      BY <1>6, <1>10, <1>11 DEF IsView
    <2>2. \A i \in DOMAIN s : Entry(s[i].id, loc, own) = Entry(s[i].id, location, owned)
      BY <1>1, <1>5, <2>1 DEF Entry
    <2> QED
      BY <1>1, <1>5, <1>11, <2>1, <2>2 DEF IsView
  <1>13. EntriesTyped(loc, own)
    BY <1>5, <1>6, BookEntries
  <1>14. Lists(s, loc, own) /\ \A i \in DOMAIN s : Taken(s, loc, own)[i] = 0
    BY <1>11, <1>12, <1>13, ViewLists
  <1>15. InCall(s, loc, own, id, <<>>)
    BY ONLY <1>7, <1>8, <1>9, <1>11, <1>12, <1>14, CallBegins
  <1> QED
    BY <1>1, <1>2, <1>3, <1>4, <1>5, <1>6, <1>11, <1>15 DEF RInv

(* A fill: still nothing is seen.                                          *)
LEMMA MatchStepImplements ==
  ASSUME IInv, RInv, MatchStep, before' = IF Idle' THEN View' ELSE before
  PROVE  RInv' /\ UNCHANGED <<before, ret>>
  <1>1. ~Idle /\ incoming' = incoming /\ ret' = ret
    BY DEF MatchStep
  <1>2. ~Idle' /\ before' = before
    BY <1>1 DEF Idle
  <1>3. PICK resting \in DOMAIN location, qty \in Nat : FillOf(resting, qty)
    BY MatchStepFills
  <1>4. before \in Seq(Resting(OrderId)) /\ InCall(before, location, owned, incoming, trades)
    BY <1>1 DEF RInv
  <1>5. InCall(before, location', owned', incoming, trades')
    BY <1>1, <1>3, <1>4, MatchStepInCall
  <1> QED
    BY <1>1, <1>2, <1>4, <1>5 DEF RInv

(* addOrder returns: this is the abstract step.                            *)
LEMMA ReturnsImplements ==
  ASSUME IInv, IInv', RInv, AddOrderReturns, before' = IF Idle' THEN View' ELSE before
  PROVE  RInv' /\ Abstract!Next
  <1>1. ~Idle /\ Idle' /\ ret' = [call |-> "addOrder", trades |-> trades]
    BY DEF AddOrderReturns, Returns, Idle
  <1>2. before \in Seq(Resting(OrderId)) /\ InCall(before, location, owned, incoming, trades)
    BY <1>1 DEF RInv
  <1>3. PICK order : order = Asked(incoming, owned)
    OBVIOUS
  <1>4. PICK outcome : outcome = Outcome(before, order)
    OBVIOUS
  <1>5. /\ outcome.trades = trades /\ IsView(outcome.book, location', owned')
        /\ \E A : outcome.book \in Seq(A)
    BY <1>2, <1>3, <1>4, ReturnsOutcome
  <1>6. PICK b : b = outcome.book
    OBVIOUS
  <1>7. before' = b /\ RInv'
    BY <1>1, <1>5, <1>6, CallOver
  <1>8. order \in Orders(OrderId, Price, 1..MaxQuantity) /\ order.id = incoming
    BY <1>2, <1>3 DEF InCall, Asked
  <1>9. order.id \notin Active(before)
    BY <1>2, <1>8 DEF InCall, Active
  <1>10. Abstract!AddOrder(order)
    <2>1. Abstract!Outcome(before, order) = outcome /\ Abstract!Active(before) = Active(before)
      BY <1>4, SameOperators
    <2>2. ret' = [call |-> "addOrder", trades |-> outcome.trades] /\ before' = outcome.book
      BY <1>1, <1>5, <1>6, <1>7
    <2> QED
      BY <1>9, <2>1, <2>2 DEF Abstract!AddOrder
  <1>11. order \in Abstract!Orders(OrderId, Price, 1..MaxQuantity)
    BY <1>8, SameOperators
  <1> QED
    BY <1>7, <1>10, <1>11 DEF Abstract!Next

(* cancelOrder.                                                            *)
LEMMA CancelImplements ==
  ASSUME IInv, IInv', RInv, NEW id \in OrderId, CancelOrder(id),
         before' = IF Idle' THEN View' ELSE before
  PROVE  RInv' /\ Abstract!Next
  <1>1. Idle /\ Idle'
    BY DEF CancelOrder, Idle
  <1>2. before \in Seq(Resting(OrderId)) /\ IsView(before, location, owned)
    BY <1>1 DEF RInv
  <1>3. PICK b : b = Cancelled(before, id)
    OBVIOUS
  <1>4. /\ IsView(b, location', owned') /\ \E A : b \in Seq(A)
        /\ ret' = [call |-> "cancelOrder", found |-> id \in Active(before)]
    BY <1>2, <1>3, CancelView
  <1>5. before' = b /\ RInv'
    BY <1>1, <1>4, CallOver
  <1>6. Abstract!CancelOrder(id)
    <2>1. Abstract!Cancelled(before, id) = b /\ Abstract!Active(before) = Active(before)
      BY <1>3, SameOperators
    <2> QED
      BY <1>4, <1>5, <2>1, Zenon DEF Abstract!CancelOrder
  <1> QED
    BY <1>5, <1>6 DEF Abstract!Next

(* Every step.                                                             *)
LEMMA StepImplements ==
  ASSUME IInv, RInv, [HistoryNext]_<<vars, before>>
  PROVE  IInv' /\ RInv' /\ [Abstract!Next]_<<before, ret>>
  <1>1. CASE HistoryNext
    <2>1. Next /\ before' = IF Idle' THEN View' ELSE before
      BY <1>1 DEF HistoryNext
    <2>2. IInv'
      BY <2>1, NextInv
    <2>3. ASSUME NEW kind \in OrderKind, NEW quantity \in 0..MaxQuantity,
                 NEW price \in Price \cup {0}, CreateOrderThrows(kind, quantity, price)
          PROVE  RInv' /\ [Abstract!Next]_<<before, ret>>
      BY <2>1, <2>2, <2>3, ThrowsImplements DEF CreateOrderThrows
    <2>4. ASSUME AddNullThrows PROVE RInv' /\ [Abstract!Next]_<<before, ret>>
      BY <2>1, <2>2, <2>4, ThrowsImplements DEF AddNullThrows
    <2>5. ASSUME NEW id \in OrderId, NEW kind \in OrderKind, NEW quantity \in 0..MaxQuantity,
                 NEW price \in Price \cup {0}, AddOrderThrows(id, kind, quantity, price)
          PROVE  RInv' /\ [Abstract!Next]_<<before, ret>>
      BY <2>1, <2>2, <2>5, ThrowsImplements DEF AddOrderThrows
    <2>6. ASSUME NEW id \in OrderId, NEW kind \in OrderKind, NEW side \in Side,
                 NEW quantity \in 0..MaxQuantity, NEW price \in Price \cup {0},
                 AddOrder(id, kind, side, quantity, price)
          PROVE  RInv' /\ [Abstract!Next]_<<before, ret>>
      BY <2>1, <2>2, <2>6, AddOrderImplements
    <2>7. ASSUME MatchStep PROVE RInv' /\ [Abstract!Next]_<<before, ret>>
      BY <2>1, <2>7, MatchStepImplements
    <2>8. ASSUME AddOrderReturns PROVE RInv' /\ [Abstract!Next]_<<before, ret>>
      BY <2>1, <2>2, <2>8, ReturnsImplements
    <2>9. ASSUME NEW id \in OrderId, CancelOrder(id)
          PROVE  RInv' /\ [Abstract!Next]_<<before, ret>>
      BY <2>1, <2>2, <2>9, CancelImplements
    <2> QED
      BY <2>1, <2>2, <2>3, <2>4, <2>5, <2>6, <2>7, <2>8, <2>9 DEF Next
  <1>2. CASE UNCHANGED <<vars, before>>
    <2>1. UNCHANGED vars /\ before' = before
      BY <1>2
    <2>2. IInv'
      BY <2>1, NextInv
    <2> QED
      BY <2>1, <2>2 DEF RInv, Idle, vars
  <1> QED
    BY <1>1, <1>2

(* src/OrderBook.cpp does what price-time priority says: every addOrder    *)
(* returns the trades, and leaves the resting orders, that the definition  *)
(* of Outcome gives for the book it was called on.                         *)
THEOREM Refinement == HistorySpec => ImplementsPriceTimePriority
  <1>1. HistoryInit => IInv /\ RInv /\ Abstract!Init
    <2> SUFFICES ASSUME HistoryInit PROVE IInv /\ RInv /\ Abstract!Init
      OBVIOUS
    <2>1. Init /\ before = View
      BY DEF HistoryInit
    <2>2. IInv
      BY <2>1, InitInv
    <2>3. DOMAIN location = {} /\ incoming = NoOrder /\ ret = [call |-> "none"]
      BY <2>1 DEF Init, EmptyMap
    <2>4. PICK loc : loc = location
      OBVIOUS
    <2>5. PICK own : own = owned
      OBVIOUS
    <2>6. EntriesTyped(loc, own) /\ IsView(<<>>, loc, own) /\ <<>> \in Seq(Nat)
      BY <2>3, <2>4 DEF EntriesTyped, IsView
    <2>7. <<>> \in Seq(Resting(OrderId)) /\ ViewOf(loc, own) = <<>>
      BY ONLY <2>6, ViewTyped
    <2>8. before = <<>>
      BY <2>1, <2>4, <2>5, <2>7, ViewIs
    <2>9. RInv
      BY <2>3, <2>4, <2>5, <2>6, <2>7, <2>8 DEF RInv, Idle
    <2>10. Abstract!Init
      BY <2>3, <2>8 DEF Abstract!Init
    <2> QED
      BY <2>2, <2>9, <2>10
  <1>2. IInv /\ RInv /\ [HistoryNext]_<<vars, before>>
          => IInv' /\ RInv' /\ [Abstract!Next]_<<before, ret>>
    BY StepImplements
  <1> QED
    BY <1>1, <1>2, PTL DEF HistorySpec, ImplementsPriceTimePriority, Abstract!Spec
==============================================================================
