CONSTANTS
  OrderId = {o1, o2, o3, o4}
  NoOrder = NoOrder
  Price = {1, 2}
  MaxQuantity = 2
  MaxArrivals = 4
SPECIFICATION HistorySpec
SYMMETRY IdSymmetry
PROPERTIES
  ImplementsPriceTimePriority
