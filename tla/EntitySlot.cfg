\* With every dispatch issued and every task reported the entity is idle.
CHECK_DEADLOCK FALSE
SPECIFICATION Spec
CONSTANTS
  WaiterLimit = 2
  Dispatches = {d1, d2, d3, d4}
  MaxActivation = 3
SYMMETRY DispatchSymmetry
INVARIANTS
  TypeOK
  CommandCustody
  LeaseCustody
  ReservationsExact
  FenceIsLast
  WaitersServed
PROPERTIES
  AdmissionNeverReopens
  ExactDeparture
