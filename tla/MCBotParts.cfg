SPECIFICATION PartsSpec
CONSTANTS
  None = None
  Discord = Discord
  Jobs = {j1}
  Users = {w1, w2}
  Operations = {o1, o2, o3}
  MaxAudit = 3
  Items = {a1, e1, r1, r2}
  Kind <- MCKind
  Batch = 1
  MaxCrashes = 1
  Ticks = {1, 2}
  Members = {m1, m2}
  Linked = {u1}
  Handles = {h1, h2}
  Deleted = Deleted
  Projects = {p1, p2, p3}
  Processes = {hub, bot}
  Days = {1, 2, 3}
  Games = {g1}
  Repos = {ra, rb}
  Syncs = {s1, s2}
  Published = {x1, x2}
  HomeOf <- MCHomeOf
  Waiting = Waiting
  Unavailable = Unavailable
  Columns = {c1, c2}
  MaxDeaths = 1
  MaxRows = 2
  Events = {e1, e2}
  Starts = {0, 5}
  Lengths = {1, 5}
  WEEK = 4
  Change = 6
  Shifts <- MCShifts
  Window = 2
  MaxNow = 9
  a1 = a1
  e1 = e1
  r1 = r1
  r2 = r2
  e2 = e2
  ra = ra
  rb = rb
  x1 = x1
  x2 = x2
INVARIANTS
  OwnersAreAudited
  RosterIsCurrent
  SyncsSpareTextAndChannel
  StartsAreSafe
  OccurrencesAreRight
PROPERTIES
  LedgerIsKept
  DailyIsKept
CHECK_DEADLOCK FALSE
