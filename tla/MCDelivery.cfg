SPECIFICATION DeliverySpec
CONSTANTS
  None = None
  Users = {u1}
  Requests = {r1, r2}
  NConsults = 2
  NThreads = 3
  MaxLost = 1
  MaxCrashes = 1
  Healthy = {2}
  Accounts = {1, 2}
  Syncs = {s1, s2}
  Admins = {ad1}
  PageSize = 1
  MaxRevision = 1
  v1 = v1
  v2 = v2
  f1 = f1
  s1 = s1
  s2 = s2
PROPERTIES
  EveryNoticeArrives
  ConsultsAreServed
  AdmissionsConverge
CHECK_DEADLOCK FALSE
