\* The executor is given up, or MaxTurns are over.
CHECK_DEADLOCK FALSE
SPECIFICATION Spec
CONSTANTS
  Machine <- MCMachine
  Atoms = {x, y}
  MaxTurns = 4
INVARIANTS
  ComposesAsStreams
  InputsAccounted
