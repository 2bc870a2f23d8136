\* Requests may hang or die; the worker loops and time passes.
SPECIFICATION FairSpec
CONSTANTS
  k1 = k1
  r1 = r1
  r2 = r2
  s1 = s1
  s2 = s2
  Keys = {k1}
  Requests = {r1, r2}
  Sessions = {s1, s2}
  SourceSessions = {s1}
  NoKey = NoKey
  NoSession = NoSession
  SlowRequests = TRUE
  OwnerLimit = 1
  MaxRows = 1
  MaxCrashes = 1
INVARIANTS TypeOK DispatchedJobIsLinked ProvisioningIsReachable
PROPERTIES ConfirmSpec HandoffSettles
