SPECIFICATION ManagerSpec
CONSTANTS
  Parts = {"gateway", "discovery", "fleet"}
  MaxLoad = 4
  Calls = {1, 2, 3}
  Socks = {11, 12}
  Agents = {g}
  NoTicket = NoTicket
  MaxSlots = 2
  MaxOutstanding = 1
  MaxRevision = 2
  MaxRestart = 1
  DJobs = {d1, d2}
  Targets = {t1, t2}
  SelfTargets = {t2}
  MaxConcurrency = 1
  MaxActiveJobs = 1
  MaxDown = 1
  FleetAgents = {a1, a2}
  Instances = {i1, i2}
  NoInstance = NoInstance
  Imported = {a1}
  Edited = {a1}
  MaxParallel = 2
  StaleAfter = 1
  MaxFleetRevision = 3
  MaxTarget = 2
  MaxClock = 2
INVARIANTS
  ManagerTypeOK
  SlotsConserved
  RemovalQuiet
  DispatchNeverDenied
  AuditMatchesJob
  CompletedChecked
  StatusDescribesRecord
  IdentitiesDistinct
PROPERTIES
  StaleSessionEnds
  EndedIsFinal
  DispatchHonest
  JobsEnd
  StatusNeverOlder
CHECK_DEADLOCK FALSE
