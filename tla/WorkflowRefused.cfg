SPECIFICATION FairSpec
CONSTANTS
  a1 = a1
  a2 = a2
  b1 = b1
  b2 = b2
  NeedBy <- OnlyTheFirst
  Agents = {a1}
  Bundles = {}
  NoBundle = NoBundle
  Parallel = TRUE
  Links = FALSE
  MaxRounds = 2
  ToolCap = 1
  MaxCalls = 1
  MaxNewsRuns = 2
  MaxPasses = 4
CHECK_DEADLOCK FALSE
PROPERTY FollowupIsANewRound
