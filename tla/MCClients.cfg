SPECIFICATION MCSpec
CONSTANTS
  Workers = {w1, w2}
  MaxOperations = 4
  MaxClock = 2
  Terms = {2}
  MaxFaults = 1
  None = None
  Clients = {"c1", "c2"}
  Identifiers = {1, 2}
  Payloads = {1}
  MaxAttempts = 2
  MaxCalls = 4
  MaxLost = 2
SYMMETRY Symmetry
INVARIANTS
  HoldersKeepTheirTerms
  ClientsAreToldTheTruth

  
CHECK_DEADLOCK FALSE
