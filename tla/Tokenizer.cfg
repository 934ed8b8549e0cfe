SPECIFICATION TokenizerSpec
CONSTANTS
  o1 = o1
  o2 = o2
  OrderIds <- MCOrders
  Prices = {2, 4, 6}
  Sizes = {1, 2}
  PriceRange = 1
  TickSize = 2
  None = None
INVARIANTS LevelsAggregateOrders
PROPERTIES CauseExplainsMove EventRecovered StatsDescribeStream
VIEW MCView
SYMMETRY MCSymmetry
CHECK_DEADLOCK FALSE
