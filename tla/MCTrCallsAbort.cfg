SPECIFICATION Spec
CONSTANTS
  None = None
  Users = {u1}
  Ids = {i1}
  Capacity = 1
  MaxPending = 1
  MaxSeq = 0
INVARIANTS
  GivenUpStartHoldsNoCall
CHECK_DEADLOCK FALSE
