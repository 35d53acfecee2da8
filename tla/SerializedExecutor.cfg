\* Once MaxTurns inputs are accepted every thread may be idle for good.
CHECK_DEADLOCK FALSE
SPECIFICATION FairSpec
CONSTANTS
  Threads = {t1, t2, t3}
  MaxTurns = 5
INVARIANTS
  RunToCompletion
  ReceiptsHonest
  OwnershipExact
PROPERTIES
  ReceiptsFinal
  ImplementsOrderedTurns
  ReceiptsResolve
