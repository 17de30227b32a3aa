SPECIFICATION Spec
CONSTANTS
  Keys = {"k1", "k2", "x"}
  Corpus = {"k1", "k2"}
  NoKey = "NoKey"
  None = "None"
  Envelopes = {"g", "m2", "m2_sig", "m3", "moved", "forged", "add2", "drop2", "addx", "bad", "data", "odd", "junk"}
  Stmts <- StmtsDef
  Body <- BodyDef
  StmtOf <- StmtOfDef
  Signers <- SignersDef
  PolicyGenesis = "g"
  PolicyKeys = {"k1"}
  MaxIndex = 3
INVARIANTS
  TypeOK
  OnlyCorpusKeys
  OutsidersPowerless
  NoStatementLost
  CleanWalksAgree
  CarriedAsResolved
PROPERTIES
  NothingRevised
CHECK_DEADLOCK FALSE
