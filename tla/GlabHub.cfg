\* Two generations of the entry, four clients, two secrets: a rotation can
\* outlive its entry while the next entry rotates as well.
SPECIFICATION MCSpec
CONSTANTS
  None = None
  Entries = {1, 2}
  Clients = {1, 2, 3, 4}
  Secrets = {x1, x2}
INVARIANTS
  OpenClientIsOwned
  FacadeIsServed
  ClosesInOrderAndClean
PROPERTIES
  RotatesToAuthenticated
  RotationAndShutdownEnd
CHECK_DEADLOCK FALSE
