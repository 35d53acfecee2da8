\* validate returns.
CHECK_DEADLOCK FALSE
SPECIFICATION Spec
CONSTANTS
  MaxVertices = 3
  MaxEdges = 3
  TriggerIds = {a, b}
  VertexIds <- MCVertexIds
  Topologies <- MCTopologies
INVARIANTS
  AcceptsExactlyWellFormed
  RejectsFirstDefect
