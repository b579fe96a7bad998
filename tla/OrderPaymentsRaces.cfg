SPECIFICATION Spec
CONSTANTS
  o1 = o1
  o2 = o2
  q1 = q1
  q2 = q2
  NoOrder = NoOrder
  Orders <- TwoOrders
  Requests <- TwoRequests
  MaxRzp = 2
  Units = 2
  Totals = {1}
  Methods = {"ONLINE"}
  AdminStatuses = {"shipped", "cancelled", "refunded"}
  HandEdits = {}
  Cancellers = {"customer", "staff"}
  Binnable <- TwoOrders
  EventTypes = {"payment.captured", "payment.failed"}
  Shortfalls = {"full", "short"}
  CombinedEdits = FALSE
SYMMETRY Symmetric
INVARIANT UnitsAddUp
INVARIANT ConfirmedOnce
INVARIANT CaptureAccounted
INVARIANT UnbookedMoneyFlagged
PROPERTY PaymentNeverReopens
PROPERTY CompletedIsFinal
PROPERTY OneOutcome
CONSTRAINTS PairIsPlain ShortIsAlone
CHECK_DEADLOCK FALSE
