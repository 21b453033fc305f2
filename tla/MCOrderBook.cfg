CONSTANTS
  OrderId = {o1, o2, o3, o4}
  NoOrder = NoOrder
  Price = {1, 2}
  MaxQuantity = 2
  MaxArrivals = 5
SPECIFICATION Spec
SYMMETRY IdSymmetry
INVARIANTS
  TypeOK
  NoDanglingOrder
  NoLeakedOrder
  TimePriority
  Uncrossed
  RestingOrdersOpen
  NoTradeThrough
PROPERTIES
  FillsConserve
