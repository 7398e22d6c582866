SPECIFICATION FairSpec
CONSTANTS
  Conns = {c1}
  Workers = {w1}
  Fds = {3, 4}
  ListenFd = 0
  TimerFd = 1
  SignalFd = 2
  LoginEnabled = TRUE
  MaxEvents = 4
  ReqLen = 2
  BufferSize = 3
  RespLens = {1, 3}
  SndBuf = 1
  MaxWriteRetry = 2
  None = None
PROPERTIES
  ConnectionLifecycle
  InputIsRead
