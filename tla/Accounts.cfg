SPECIFICATION Spec
CONSTANTS
  q1 = q1
  q2 = q2
  p1 = p1
  p2 = p2
  Nobody = Nobody
  Unusable = Unusable
  Users = {"u1"}
  Addresses <- TwoAddresses
  a1 = a1
  a2 = a2
  Passwords <- TwoPasswords
  Requests <- TwoRequests
  MaxCodesPerDay = 1
  MaxFailedAttempts = 1
  MaxRows = 3
  MaxServed = 5
SYMMETRY Symmetric
INVARIANT AccountProved
INVARIANT OwnerStands
INVARIANT CodeQuota
PROPERTY VerifiedKeepsPassword
CHECK_DEADLOCK FALSE
