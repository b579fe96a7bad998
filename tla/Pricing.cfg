SPECIFICATION Spec
CONSTANTS
  Goods <- TwoGoods
  Combos = {11}
  Shelves <- TwoShelves
  Recipes <- BoxOfOne
  Rates = {12}
  Prices = {120}
  Headings = {"0904"}
  Coupons <- FourCoupons
  Carts <- ThreeCarts
  RefundAmounts = {100, 10000}
  FreeFrom = 700
  Fee = 59
  ShippingRate = 18
  DefaultRate = 5
  Places = {"23", "27"}
  Homes = {"23"}
  MaxRefunds = 2
  MaxEdits = 1
  MaxMonth = 2
INVARIANT BillReconciles
INVARIANT ReversalsCover
INVARIANT FiguresAgree
PROPERTY QuoteHolds
PROPERTY PapersStand
CHECK_DEADLOCK FALSE
