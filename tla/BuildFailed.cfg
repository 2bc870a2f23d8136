SPECIFICATION SettingSpec
CONSTANTS
  d1 = d1
  s1 = s1
  d2 = d2
  p2 = p2
  p1 = p1
  s2 = s2
  Datasets = {d1}
  Paths = {1}
  Managed = {}
  Processes = {p1}
  Sessions = {s1, s2}
  ReportOf <- AllAboutD1
  Nobody = Nobody
  MaxBuilds = 2
  MaxEdits = 1
  MaxJobs = 4
  MaxCrashes = 0
CHECK_DEADLOCK FALSE
INVARIANT FailedBuildKeepsReport
