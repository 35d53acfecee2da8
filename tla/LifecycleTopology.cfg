\* validate_lifecycle_topology returns.
CHECK_DEADLOCK FALSE
SPECIFICATION LifecycleSpec
CONSTANTS
  VertexIds <- MCPhases
  TriggerIds <- MCTriggers
  Topologies <- MCDeclarations
INVARIANTS
  ReopensOnlyThroughInactive
  NoPhaseIsFinal
