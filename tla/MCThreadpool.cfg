SPECIFICATION FairSpec
CONSTANTS
  Threads = {t1, t2, t3}
  TaskNum = 2
  MaxPushed = 4
INVARIANTS
  QuietAfterEnd
PROPERTIES
  TasksHandedOver
  EndReturns
