SPECIFICATION PartsSpec
CONSTANTS
  None = None
  Discord = Discord
  Jobs = {j1}
  Users = {w1}
  Operations = {o1}
  MaxAudit = 1
  Items = {a1, e1, r1, r2}
  Kind <- MCKind
  Batch = 1
  MaxCrashes = 1
  Ticks = {1}
  Members = {m1}
  Linked = {u1}
  Handles = {h1, h2}
  Deleted = Deleted
  Projects = {p1}
  Processes = {hub, bot}
  Days = {1}
  Games = {g1}
  Repos = {ra, rb}
  Syncs = {s1}
  Published = {x1, x2}
  HomeOf <- MCHomeOf
  Waiting = Waiting
  Unavailable = Unavailable
  Columns = {c1}
  MaxDeaths = 1
  MaxRows = 1
  Events = {e1, e2}
  Starts = {0, 5}
  Lengths = {1, 5}
  WEEK = 4
  Change = 6
  Shifts <- MCShifts
  Window = 2
  MaxNow = 9
  a1 = a1
  e1 = e1
  r1 = r1
  r2 = r2
  e2 = e2
  ra = ra
  rb = rb
  x1 = x1
  x2 = x2
INVARIANTS
  EachRepoIsSilent
CHECK_DEADLOCK FALSE
