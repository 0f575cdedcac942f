SPECIFICATION StreamsSpec
CONSTANTS
  None = None
  Calls = {c1, c2}
  Sockets = {s1, s2, s3}
  ReplyTypes = {"module_response", "error"}
  Users = {u1, u2}
  Ids = {i1, i2}
  Capacity = 2
  LessCapacity = 1
  MaxPending = 1
  MaxSeq = 1
  Tabs = {t1, t2}
  Declarative = {t2}
  Teams = {tm1, tm2}
  MaxClicks = 3
  u1 = u1
  a1 = a1
  a2 = a2
  g1 = g1
  p1 = p1
  e1 = e1
INVARIANTS
  LiveSocketIsCurrent
  OneCallPerUserInEachRoom
PROPERTIES
  RefinesContract
  OnlyCurrentConnectionAnswers
  LossIsConfinedToTheSocket
  EveryCallSettles
  AudioIsOfTheCall
  CallsAreReleased
  PagePresentsInTurn
  LateTeamsAreDiscarded
CHECK_DEADLOCK FALSE
