SPECIFICATION Spec
CONSTANT
  Streams <- MCStreams
INVARIANTS
  TypeOK
  AcceptedIsComplete
  RefusedIsMalformed
  WaitsOnlyForMore
CHECK_DEADLOCK FALSE
