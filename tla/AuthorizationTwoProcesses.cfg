CONSTANTS
  p1 = p1  p2 = p2
  k1 = k1  k3 = k3
  c1 = c1  c2 = c2  c3 = c3
  daemon = daemon  cli = cli
  None = None
  Buses = {p1, p2}
  Insertions = {k1, k3}
  PortOf <- MCPortOf
  Existing = {k3}
  Storage = {k1}
  Disks = {k3}
  Callers = {c1, c2, c3}
  RulesInstalled = TRUE
  Locks = {daemon, cli}
  LockOf <- TwoProcesses
  Covers <- Overlapping
SPECIFICATION AuthSpec
INVARIANTS AuthTypeOK LockExclusion
PROPERTIES UndoneOnlyFromOutside CallsReturn
