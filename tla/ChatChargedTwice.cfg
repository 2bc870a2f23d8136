SPECIFICATION Spec
CONSTANTS
  s1 = s1
  k1 = k1
  k2 = k2
  r1 = r1
  r2 = r2
  w1 = w1
  w2 = w2
  Sessions = {s1}
  Keys = {k1}
  SessionOf <- OneConversation
  WithoutReport = {}
  Requests = {r1, r2}
  Workers = {w1}
  Nobody = Nobody
  NoKey = NoKey
  MaxAttempts = 1
  MaxBuilds = 1
  MaxDeaths = 1
  MaxCrashes = 0
SYMMETRY NameSymmetry
INVARIANT ChargedOnce
