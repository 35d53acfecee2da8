\* With MaxOutputs produced every thread may be idle on a poisoned mutex.
CHECK_DEADLOCK FALSE
SPECIFICATION FairSpec
CONSTANTS
  Threads = {t1, t2, t3, t4}
  MaxOutputs = 5
INVARIANTS
  SingleDispatcher
  NoOutputStranded
PROPERTIES
  ImplementsOrderedOutputs
  OutputsHandled
