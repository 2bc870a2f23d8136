SPECIFICATION Spec
CONSTANTS
  i1 = i1
  e1 = e1
  e2 = e2
  a1 = a1
  a2 = a2
  Callers = {a1, a2}
  Keys = {k1, k2}
  CacheLimit = 1
  MaxToolCalls = 3
  MaxStages = 1
  Processes = {p1, p2}
  Windows = {3}
  PageSize = 1
  MaxPages = 2
  MaxArticles = 3
  Emails = {e1, e2}
  Clients = {c1}
  Invites = {i1}
  EmailOf <- BothForE1
  RegisterLimit = 1
  AccountLimit = 2
  ClientLimit = 2
  Window = 1
  Retention = 1
  MaxAttempts = 5
  MaxTime = 1
  Databases = {"d"}
  Files = {"f", "g"}
  Locks = {"f", "g"}
  LockOf <- OwnLock
  MaxVersion = 2
  Cells = 2
  ApiKeys = {"key"}
  Budget = 2
  MaxFailed = 2
  MaxLaunches = 3
  MaxFaults = 1
  StatementRows <- SmallStatement
  MatrixRows <- SmallMatrix
  Title = "title"
  MaxRows = 4
  LineKinds <- SmallReport
  MaxLines = 5
  Imports = {j1, j2}
  Owners = {e1, e2}
  PageLimit = 2
  TrialLock = 3
  Concurrency = 1
  TrialImports = 2
  Nil = none
  Months = 2
  Requests = {q1, q2}
  SearchRuns = {w1}
  RequestKeys = {k1}
  Conversations = {c1, c2}
  SearchBound = 3
  NoneOf = none
  talk1 = talk1
  talk2 = talk2
  Sessions <- TwoConversations
  Old <- OneConversation
  Deletable <- OneConversation
  MaxRuns = 2
  ImportJobs = {j}
  Searches = {d}
  MaxViews = 2
  MaxCalls = 2
  Failures = TRUE
  Null = null
CHECK_DEADLOCK FALSE
INVARIANT NotSearchedAgain
