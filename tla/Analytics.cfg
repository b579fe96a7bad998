SPECIFICATION Spec
CONSTANTS
  o1 = o1
  o2 = o2
  b1 = b1
  Orders <- MCOrders
  Buyer <- MCBuyer
  Begun <- MCBegun
  Visits <- MCVisits
  Jobs = {"interval", "nightly"}
  Nightly = "nightly"
  MaxDay = 2
  Ttl = 1
  Backfill = 2
  Recent = 1
  MaxActs = 2
INVARIANT RowsTell
INVARIANT VisitsCounted
PROPERTY Settles
