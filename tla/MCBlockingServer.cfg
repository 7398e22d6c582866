SPECIFICATION FairSpec
CONSTANTS
  Clients = {c1, c2}
  Workers = {w1, w2}
  Main = main
  Fds = {4, 5}
  TaskNum = 1
  BufferSize = 4
  Streams <- MCStreams
  c1 = c1
  c2 = c2
  None = None
INVARIANTS
  InOneHand
  FilesAreClosed
  ServedWhenWhole
  OnlyResetsKill
PROPERTIES
  LivesLikeConnections
  EndsWithItsClient
