SPECIFICATION MCSpec
CONSTANTS
  Bridges = {b1, b2}
  SessionIds = {s1, s2}
  Sessions <- AnySessions
  Operations = {"g", "u"}
  Authority <- Gates
  Payloads = {1, 2}
  Budgets = {2}
  UserChanges = {1}
  MaxRequests = 3
  Loops = {l1, l2}
  Proposals = {p, q}
  Escalating = {q}
  DecisionBudget = 3
  Leases = {1, 2}
  MaxRevision = 2
  MaxEvidence = 2
  MaxActions = 16
  Options = {"yes", "no"}
  MaxEvents = 4
  None = None
SYMMETRY Symmetry
INVARIANTS
  ChangesAreAuthorized
  ResultsAreChecked
  AcceptanceIsGrounded

  
CHECK_DEADLOCK FALSE
