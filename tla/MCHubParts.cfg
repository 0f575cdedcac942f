SPECIFICATION PartsSpec
CONSTANTS
  None = None
  a1 = a1
  a2 = a2
  p1 = p1
  p2 = p2
  v1 = v1
  Attempts = {a1, a2}
  Pages = {p1, p2}
  Users = {v1}
  Places = {pl1}
  Sessions = {1, 2}
  PageOf <- MCPageOf
  UserOf <- MCUserOf
  Requests = {1, 2, 3}
  Rows = {1, 2}
  Reservations = {1, 2, 3}
  Meetings = {m1}
  Visitors = {u1, u2}
  Organizer = u2
  Attestations = {at1}
  Waits = {w1}
  GpsRequests = {g1, g2}
  Photos = {ph1}
  Freshness = 1
  AutoFreshness = 1
  Retention = 3
  MaxWait = 1
  Residents = {u1, u2}
  CallIds = {1, 2, 3}
  Lease = 2
  CallTtl = 3
  RepeatWindow = 2
  TasuketeWindow = 2
  InboxLimit = 2
  Readers = {u1, u2}
  Writers = {u3}
  TokenCallers = {u1, u2}
  Lives = {1, 3, 5}
  Margin = 2
  Backoff = 2
  IssueTimeout = 1
  MaxNow = 8
  KeyCallers = {u1, u2}
  Keys = {k1, k2}
  Ttl = 4
  MinInterval = 2
  FetchTimeout = 1
  Settings = {st1, st2}
  Values = {1, 2}
  Unknown = Unknown
  MaxCalls = 3
  MaxQueue = 2
  MaxSeq = 3
INVARIANTS
  EventsMatchAedilis
  ArrivalsAreBacked
  CallsAreShownAndSpaced
  CernereIsRemembered
  SilentOnceClosed
  HeaderIsCurrent
  CallsAreTheirOwn
PROPERTIES
  FailedResumeSparesRunning
CHECK_DEADLOCK FALSE
