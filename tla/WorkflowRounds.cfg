SPECIFICATION FairSpec
CONSTANTS
  a1 = a1
  a2 = a2
  b1 = b1
  b2 = b2
  NeedBy <- OnlyTheFirst
  Agents = {a1, a2}
  Bundles = {b1, b2}
  NoBundle = NoBundle
  Parallel = TRUE
  Links = TRUE
  MaxRounds = 2
  ToolCap = 2
  MaxCalls = 2
  MaxNewsRuns = 2
  MaxPasses = 4
CHECK_DEADLOCK FALSE
INVARIANTS SynthHearsEveryAgent EndsAnswered NewsIsFresh
PROPERTY GraphEnds
