SPECIFICATION Spec
CONSTANTS
  Conns = {c1, c2}
  Workers = {w1}
  Fds = {3, 4}
  ListenFd = 0
  TimerFd = 1
  SignalFd = 2
  LoginEnabled = FALSE
  MaxEvents = 4
  ReqLen = 1
  BufferSize = 2
  RespLens = {2}
  SndBuf = 1
  MaxWriteRetry = 1
  None = None
SYMMETRY Symmetry
INVARIANT
  MainNeverBlocksOnItself
