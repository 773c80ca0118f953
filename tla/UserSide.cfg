CONSTANTS
  clean = clean  bad = bad
  Devices = {clean, bad}
  NoDevice = NoDevice
  IdsOf <- SameIds
  SerialOf <- OneNumber
  Infected = {bad}
  Scanner = TRUE
  Shells = {"shell", "other"}  Dialog = "dialog"
  Processes = {"shell", "other", "dialog"}
  MaxPlugs = 2  MaxRestarts = 1  MaxCommands = 2  MaxIdles = 1
SPECIFICATION Spec
CHECK_DEADLOCK FALSE
INVARIANTS EntriesKept OnlyAskedForIsListed ScannedIsNotApproved
PROPERTY AppletReconnects
