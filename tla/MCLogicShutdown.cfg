SPECIFICATION ServerSpec
CONSTANTS
  Threads = {t1, t2}
  TaskNum = 2
  MaxRequests = 3
INVARIANT
  HandlerUsesLivePages
