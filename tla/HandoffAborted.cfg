\* The same request sent twice at once.
SPECIFICATION Spec
CONSTANTS
  Keys = {k1}
  Requests = {r1, r2}
  Sessions = {s1, s2}
  SourceSessions = {s1}
  NoKey = NoKey
  NoSession = NoSession
  SlowRequests = TRUE
  OwnerLimit = 1
  MaxRows = 1
  MaxCrashes = 0
INVARIANT AbortedCreatedNothing
