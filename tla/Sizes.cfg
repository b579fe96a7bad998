SPECIFICATION SizesSpec
CONSTANTS
  q1 = q1
  q2 = q2
  Sizes = {1, 2}
  Prices = {1, 2}
  Requests <- TwoRequests
  MaxBegun = 3
SYMMETRY Symmetric
INVARIANT SizesSettle
PROPERTY DefaultFollows
CHECK_DEADLOCK FALSE
