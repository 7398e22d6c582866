SPECIFICATION ServerFairSpec
CONSTANTS
  Threads = {t1, t2, t3}
  TaskNum = 3
  MaxRequests = 2
INVARIANTS
  FIFO
  NoLostWakeup
  NothingLeftBehind
  RequestsConserved
  StopIsNotDeath
PROPERTIES
  DoesEveryJob
  AllLoopsStart
  SignalEndsServer
