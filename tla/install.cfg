SPECIFICATION FairSpec
CONSTANTS
  i1 = i1
  i2 = i2
  i3 = i3
  Installers = {i1, i2, i3}
  Forcing = {{}, {i3}}
  NoFile = NoFile
  MaxForeign = 2
INVARIANTS
  TypeOK
  NeverTorn
  OneWinner
  NoLitter
PROPERTIES
  ReplacesOnlyByForce
  InstallsEnd
CHECK_DEADLOCK FALSE
