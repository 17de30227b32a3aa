SPECIFICATION Spec
CONSTANTS
  genesis = genesis
  second = second
  entry = entry
  r1 = r1
  r2 = r2
  w1 = w1
  w2 = w2
  None = None
  Runs = {r1, r2}
  Manifest = {genesis, second}
  Statement = {entry}
  L3 = {genesis}
  Mirrors = {"honest"}
  MaxCrashes = 0
  Declared <- MCDeclared
  Histories <- MCHistories
  Endpoints <- MCEndpoints
  MaxStarts <- MCStarts
INVARIANTS RotationHalvesAgree
CHECK_DEADLOCK FALSE
