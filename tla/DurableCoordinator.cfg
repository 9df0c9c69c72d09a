SPECIFICATION Spec
CONSTANTS
  None = None
  Workers = {w1, w2}
  Sessions = {s1}
  OperationIds = {o1, o2, o3, o4, o5, o6}
  LeaseSeconds = 1
  MaxClock = 2
SYMMETRY Symmetry
INVARIANTS
  TypeOK
  AppliedOnce
  FencesNeverRegress
  LeaseTermsDisjoint
PROPERTIES
  ImplementsAuthority
CHECK_DEADLOCK FALSE
