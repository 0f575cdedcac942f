SPECIFICATION Spec
CONSTANTS
  None = None
  Users = {u1, u2}
  Organizer = u2
  Attestations = {a1}
  Waits = {w1}
  GpsRequests = {g1}
  Photos = {p1}
  Freshness = 1
  AutoFreshness = 1
  Retention = 3
  MaxWait = 1
INVARIANTS
  OnlyApprovedArePresent
CHECK_DEADLOCK FALSE
