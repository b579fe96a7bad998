SPECIFICATION Spec
CONSTANTS
  tin = tin
  box = box
  c1 = c1
  q1 = q1
  q2 = q2
  o1 = o1
  o2 = o2
  Nobody = Nobody
  Sizes = {tin}
  Combos = {box}
  Customers = {c1}
  Requests = {q1, q2}
  Orders = {o1, o2}
  Recipes <- Boxes
  FirstStock <- OneTin
  FirstRecipe <- BoxOfOne
  Tenders <- OnlineOrFree
  MaxUsage = 1
  CodMaxOpen = 1
  Counts = {2}
  Edits = {"count", "size", "recipe"}
  MaxEdits = 1
  MaxQuantity = 1
SYMMETRY Symmetric
INVARIANT StockAddsUp
INVARIANT CouponCounted
INVARIANT OneAwaiting
CHECK_DEADLOCK FALSE
