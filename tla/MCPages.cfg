SPECIFICATION PagesSpec
CONSTANTS
  None = None
  MaxConnects = 2
  MaxPresses = 2
  MaxPosts = 2
  MaxBatch = 1
  MaxInbox = 1
  Polls = {1}
  MaxSent = 2
  MaxRenders = 2
  Categories = {c1}
  Surveys = {s1, s2}
  Projects = {p1}
  MaxTicks = 1
  MaxQuestions = 1
  Videos = {f1, f2}
  MaxStamps = 2
  MaxSaves = 2
  Explored = {"attendance_admin", "events", "jobs", "members", "projects_admin",
              "releases", "analysis", "saved", "search", "links", "comments",
              "reservations", "meetings", "meet", "forum", "consult", "cocoiru",
              "quests_approver", "loans", "catalogue", "dashboard", "trends",
              "conclusions", "launch", "progress", "showcase", "overview"}
  MaxWrites = 1
  MaxFaults = 1
  Members = {u1, u2}
  Admins = {u2}
  Items = {i1, i2}
  Quests = {i1}
  Notes = {1, 2}
  Refs = {x1}
  Requests = {q1, q2}
  MaxRevision = 3
INVARIANTS
  ViewerIsFaithful
  PageIsCurrent
  BoardsAreKept
PROPERTIES
  ReviewsAreFaithful
CHECK_DEADLOCK FALSE
