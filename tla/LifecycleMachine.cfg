SPECIFICATION Spec
CONSTANTS
  WaiterLimit = 2
  Ids = {1, 2}
  Dispatches = {d1, d2}
  MaxReservations = 3
INVARIANTS
  EvidenceHonest
  ReductionConserves
