SPECIFICATION Spec
CONSTANTS
  p1 = p1
  p2 = p2
  left = left
  right = right
  a = a
  b = b
  junk = junk
  Procs = {p1}
  Requests = {"range", "entry"}
  Roots = {left, right}
  Bytes = {a, b, junk}
  NoFile = NoFile
  Verifies <- VerifiesDef
  Size <- SizeDef
  Rank <- RankDef
  Quota = 2
  MaxRequests = 3
  MaxTampers = 1
  MaxCrashes = 0
  FsFaults = FALSE
INVARIANTS
  RefusalsAreLive
  AcceptedIsCached
CHECK_DEADLOCK FALSE
