SPECIFICATION PartSpec
CONSTANTS
  worker = worker
  cli = cli
  NoRemote = NoRemote
  d1 = d1
  d2 = d2
  s1 = s1
  s2 = s2
  p1 = p1
  p2 = p2
  Datasets = {d1, d2}
  Paths = {1, 2}
  Managed = {2}
  Processes = {p1, p2}
  Sessions = {s1}
  ReportOf <- AllAboutD1
  Nobody = Nobody
  MaxBuilds = 2
  MaxEdits = 1
  MaxJobs = 4
  MaxCrashes = 1
CHECK_DEADLOCK FALSE
INVARIANTS AnswerFromPin ConfirmedIsPaid SlotsAreEnough
PROPERTIES ReportsStayWhole RegistryKeepsOthers WorkEnds NeverPaidAgain
