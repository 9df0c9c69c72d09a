SPECIFICATION MCSpec
CONSTANTS
    Owners = {w1, w2}
    Operations = {p1, p2, p3}
    MaxTime = 2
    MaxLog = 3
    Pair = {r1, r2}
    Triple = {e1, e2, e3}
    None = None
SYMMETRY Symmetry
  
PROPERTIES TermsEndCleanly
CHECK_DEADLOCK FALSE
