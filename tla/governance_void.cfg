SPECIFICATION Spec
CONSTANTS
  Keys = {"k1", "k2", "x"}
  Corpus = {"k1", "k2"}
  NoKey = "NoKey"
  None = "None"
  Envelopes = {"g", "m2", "add2", "quit2", "data"}
  Stmts <- StmtsDef
  Body <- BodyDef
  StmtOf <- StmtOfDef
  Signers <- SignersDef
  PolicyGenesis = "g"
  PolicyKeys = {"k1"}
  MaxIndex = 3
INVARIANT VoidHasNoEffect
CHECK_DEADLOCK FALSE
