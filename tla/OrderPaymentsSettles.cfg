SPECIFICATION ReconcileSpec
CONSTANTS
  o1 = o1
  o2 = o2
  q1 = q1
  q2 = q2
  NoOrder = NoOrder
  Orders <- OneOrder
  Requests <- OneRequest
  MaxRzp = 2
  Units = 1
  Totals = {1}
  Methods = {"ONLINE"}
  AdminStatuses = {"shipped", "cancelled", "refunded"}
  HandEdits = {}
  Cancellers = {"customer", "staff"}
  Binnable = {}
  EventTypes = {"payment.captured", "payment.failed"}
  Shortfalls = {"full"}
  CombinedEdits = FALSE
PROPERTY AwaitingSettles
PROPERTY EveryCaptureSettles
CHECK_DEADLOCK FALSE
