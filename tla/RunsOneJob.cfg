SPECIFICATION FairSpec
CONSTANTS
  d1 = d1
  Jobs = {1}
  Documents = {d1}
  DocumentOf <- SameDocument
  Public = {}
  Parts = {1, 2}
  Worker = worker
  Clis = {}
  Nobody = Nobody
  NoRemote = NoRemote
  SlotLimit = 1
  MaxCrashes = 1
INVARIANTS SubmissionsAreAccounted
PROPERTY JobsSettle
