SPECIFICATION Spec
CONSTANTS
  p1 = p1
  p2 = p2
  left = left
  right = right
  a = a
  b = b
  junk = junk
  Procs = {p1, p2}
  Requests = {"range"}
  Roots = {left, right}
  Bytes = {a, b}
  NoFile = NoFile
  Verifies <- VerifiesDef
  Size <- SizeDef
  Rank <- RankDef
  Quota = 2
  MaxRequests = 2
  MaxTampers = 1
  MaxCrashes = 1
  FsFaults = FALSE
INVARIANTS
  TypeOK
  CachedAnswersVerify
  QuotaKept
PROPERTIES
  NoClobber
CHECK_DEADLOCK FALSE
