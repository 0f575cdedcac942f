SPECIFICATION Spec
CONSTANTS
  u1 = u1
  u2 = u2
  e1 = e1
  j1 = j1
  j2 = j2
  None = None
  Users = {u1, u2}
  Events = {e1}
  Places <- MCPlaces
  Sessions = {s1, s2}
  Requests = {r1, r2}
  Projects = {j1, j2}
  Admins = {u2}
  CreatorOf <- MCCreatorOf
  ProjectMembers <- MCProjectMembers
SYMMETRY Symmetry
PROPERTIES
  LedgerSpec
  OneProjectPerProgram
  TicketsAreCurrent
CHECK_DEADLOCK FALSE
