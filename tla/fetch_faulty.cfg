SPECIFICATION FairSpec
CONSTANTS
  p1 = p1
  p2 = p2
  left = left
  right = right
  a = a
  b = b
  junk = junk
  Procs = {p1, p2}
  Requests = {"range"}
  Roots = {left}
  Bytes = {a, junk}
  NoFile = NoFile
  Verifies <- VerifiesDef
  Size <- SizeDef
  Rank <- RankDef
  Quota = 1
  MaxRequests = 1
  MaxTampers = 1
  MaxCrashes = 1
  FsFaults = TRUE
PROPERTIES
  KeepsPromise
  RequestsReturn
CHECK_DEADLOCK FALSE
