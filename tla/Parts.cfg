SPECIFICATION PartsSpec
CONSTANTS
  Parts = {"terminals", "ingest", "bootstrap", "import", "files"}
  Conns = {1, 2}
  BufferUnits = 2
  MaxUnits = 3
  Reqs = {1, 2, 3}
  Inputs <- Reports
  Keys = {1, 2, 3, 4}
  LogKeys = {4}
  MaxSeries = 2
  MaxIngest = 2
  MaxAttempts = 2
  Skew = 1
  Retention = 0
  PageLimit = 1
  MaxTime = 3
  Creds = {"k1", "k2", "k3"}
  NoCred = "none"
  MaxTries = 3
  MaxClaims = 5
  MaxLives = 2
  Importers = {m1, m2, m3}
  Yaml = {y1, y2}
  Nobody = Nobody
  Enrolled = Enrolled
  Writes = {w1, w2, w3}
  Refs = {f1, f2}
  NoInode = NoInode
  MaxLoss = 1
INVARIANTS
  PartsTypeOK
  ReplayExact
  NoOrphanShell
  AckedKept
  IngestBounded
  PagesComplete
  LocalUsable
  ImportedHaveTokens
  RemovedStayRemoved
  NoStrayTokens
  AckedDurable
  NoTornToken
  RecoveryAccepts
CHECK_DEADLOCK FALSE
