CHECK_DEADLOCK FALSE
SPECIFICATION Spec
CONSTANTS
  Entities = {n1}
  Dispatches = {d1, d2}
  Passivations = {p1, p2}
  MaxActivation = 2
  MaxPanics = 0
  WaiterLimit = 1
SYMMETRY CallerSymmetry
INVARIANTS
  AlreadyPassivatingExact
