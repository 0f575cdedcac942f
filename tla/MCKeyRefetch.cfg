SPECIFICATION Spec
CONSTANTS
  Callers = {c1, c2}
  Keys = {k1, k2}
  None = None
  Ttl = 4
  MinInterval = 2
  Timeout = 1
PROPERTIES
  RefetchIsSpaced
CHECK_DEADLOCK FALSE
