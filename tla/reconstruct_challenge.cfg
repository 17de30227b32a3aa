SPECIFICATION Spec
CONSTANTS
  Keys = {"kp", "kq", "ko", "kl", "kl2", "kw", "kw2"}
  Corpus = {"kp", "kq", "kl", "kl2", "kw", "kw2"}
  NoKey = "NoKey"
  None = "None"
  Envelopes <- EnvelopesDef
  Stmts <- StmtsDef
  Body <- BodyDef
  StmtOf <- StmtOfDef
  Signers <- SignersDef
  PolicyGenesis = "g"
  PolicyKeys = {"kp", "kq"}
  MaxIndex = 5
  Records = {"r", "s"}
  Times = {1, 2}
  LogIds = {"L", "L2"}
  Batches = {"b"}
  Says <- SaysDef
  Worlds <- WorldsDef
  Chunk = 2
  MaxEntries = 5
  MaxHistory = 2
  Artifacts <- ArtifactsDef
  Verifiers <- VerifiersDef
  MaxNanos = 250
  MaxDigits = 2
  DaySeconds = 8
  HourSeconds = 4
  MinuteSeconds = 2
  Caps <- CapsDef
  Loopback = {"lo"}
  Remotes = {"far"}
  MaxBody = 2
  Places <- PlacesDef
  Invocations <- ReconstructionsDef
CHECK_DEADLOCK FALSE
INVARIANT ChallengesReconstructNothing
