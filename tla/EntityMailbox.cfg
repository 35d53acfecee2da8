\* With every dispatch issued and every task reported the entity is idle.
CHECK_DEADLOCK FALSE
SPECIFICATION MailboxFairSpec
CONSTANTS
  WaiterLimit = 1
  Dispatches = {d1, d2, d3}
  MaxActivation = 2
  LaneCapacity = 2
INVARIANTS
  FenceCertifies
  RefusedNeverRun
PROPERTIES
  CommandsSettle
  CommandsRun
  DrainCompletes
