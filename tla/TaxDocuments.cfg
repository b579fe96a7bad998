SPECIFICATION DocSpec
CONSTANTS
  o1 = o1
  o2 = o2
  q1 = q1
  NoOrder = NoOrder
  Orders <- TwoOrders
  Requests <- OneRequest
  MaxRzp = 1
  Units = 2
  Totals = {0, 2}
  Methods = {"ONLINE", "COD"}
  AdminStatuses = {"shipped", "cancelled", "refunded"}
  HandEdits = {}
  CombinedEdits = FALSE
  Cancellers = {"customer"}
  Binnable <- OneOrder
  EventTypes = {}
  Shortfalls = {"full"}
  Places = {"home"}
  MaxFailures = 1
INVARIANT SeriesAccounted
INVARIANT Documented
INVARIANT CancellationSquares
INVARIANT MoneyBacked
PROPERTY InvoiceKept
CONSTRAINT PairIsCash
CHECK_DEADLOCK FALSE
