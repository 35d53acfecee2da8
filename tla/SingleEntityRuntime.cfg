\* Every caller may be answered and nobody may dispatch or passivate again.
CHECK_DEADLOCK FALSE
SPECIFICATION Spec
CONSTANTS
  Entities = {n1}
  Dispatches = {d1, d2}
  Passivations = {p1}
  MaxActivation = 2
  MaxPanics = 0
  WaiterLimit = 1
SYMMETRY CallerSymmetry
CONSTRAINT FewCalls
PROPERTIES
  ImplementsEntitySlot
