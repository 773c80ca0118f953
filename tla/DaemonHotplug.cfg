CONSTANTS
  p1 = p1  p2 = p2
  k1 = k1  k2 = k2  k3 = k3
  idA = idA  idB = idB
  w1 = w1  w2 = w2  w3 = w3
  alert1 = alert1  alert2 = alert2
  cli = cli  api = api
  None = None
  Startup = Startup
  Processor = Processor
  Daemon = Daemon
  Buses = {p1}
  Insertions = {k1, k2}
  PortOf <- OnePort
  IdentOf <- Different
  ReportedAs <- Itself
  Existing = {k1}
  Storage = {}
  Disks = {}
  Named = {}
  Hid = {k1}
  RulesInstalled = FALSE
  Users = {cli}
  Workers = {w1, w2}
  WatcherOf <- MCWatcherOf
  Callers <- MCCallers
  Locks = {Daemon, cli}
  LockOf <- MCLockOf
  Covers <- MCCovers
  Allowlisted = {}
  Blocklisted = {}
  ClamAV = TRUE
  AgentInstalled = FALSE
  VmConfigured = TRUE
  MaxCrashes = 0
SPECIFICATION FairSpec
CHECK_DEADLOCK FALSE
INVARIANTS TypeOK RemovedIsForgotten BlockedStaysOut
PROPERTIES ImplementsGate EventsDrain StartCompletes
