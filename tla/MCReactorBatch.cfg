SPECIFICATION Spec
CONSTANTS
  Conns = {c1, c2}
  Workers = {w1}
  Fds = {3, 4}
  ListenFd = 0
  TimerFd = 1
  SignalFd = 2
  LoginEnabled = TRUE
  MaxEvents = 4
  ReqLen = 1
  BufferSize = 2
  RespLens = {2}
  SndBuf = 1
  MaxWriteRetry = 1
  None = None
SYMMETRY Symmetry
\* The behaviours that ReactorProofs is about (SparingSpec): those up to the step that
\* MCReactorDatabase.cfg shows.
CONSTRAINT DatabasesSpared
INVARIANTS
  TypeOK
  OneRequestInFlight
  PipelineIsPinned
  ResponseToOwnClient
  NoSocketLeak
  RegisteredMatchesKernel
  NoStrandedConnection
  NoLostEdge
  ReadFindsIdle
  OnlyStaleWritesBlock
PROPERTY
  ClientKeptWhileAlive
\* MainNeverBlocksOnItself fails here (MCReactorStuck.cfg): the server does stop.
CHECK_DEADLOCK FALSE
