CONSTANTS
  Reporters = {deny, alert}
  Scores = {95}
  Lockdown = TRUE
  MaxSeconds = 1
  MaxIncidents = 2
  Adapters = {a1, a2}
  Names = {u0, u1}
  New = "new"  Host = "host"  Gone = "gone"
  MaxCrashes = 1
SPECIFICATION Spec
CHECK_DEADLOCK FALSE
SYMMETRY Symmetry
INVARIANTS NamespacesOwned StopGivesBack OwnIncidentFile ResponseOnFile
