SPECIFICATION Spec
CONSTANTS
  o1 = o1
  o2 = o2
  q1 = q1
  q2 = q2
  NoOrder = NoOrder
  Orders <- OneOrder
  Requests <- TwoRequests
  MaxRzp = 2
  Units = 1
  Totals = {1}
  Methods = {"ONLINE"}
  AdminStatuses = {}
  HandEdits = {}
  Cancellers = {"customer"}
  Binnable = {}
  EventTypes = {"payment.captured", "payment.failed"}
  Shortfalls = {"full"}
  CombinedEdits = FALSE
SYMMETRY Symmetric
INVARIANT SelfCancelKeepsNoCapture
CHECK_DEADLOCK FALSE
