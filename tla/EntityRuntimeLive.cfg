\* Every caller may be answered and nobody may dispatch or passivate again.
CHECK_DEADLOCK FALSE
SPECIFICATION FairSpec
CONSTANTS
  Entities = {n1}
  Dispatches = {d1, d2}
  Passivations = {p1}
  MaxActivation = 1
  MaxPanics = 0
  WaiterLimit = 2
CONSTRAINT OnePatient
PROPERTIES
  CallersAnswered
  EntriesReclaimed
