SPECIFICATION Spec
CONSTANTS
  None = None
  Controllers = {c1, c2}
  Owners = {c1, c2}
  OwnerOf <- OwnIdentity
  Session = s1
  ReconcileTerminal = TRUE
  LeaseSeconds = 1
  MaxClock = 2
  MaxBeats = 1
  MaxFaults = 1
SYMMETRY Symmetry
INVARIANTS
  ReportsAreTrue
  OneLaunchPerFence
  RecoveryContinuesPriorFence

  
CHECK_DEADLOCK FALSE
