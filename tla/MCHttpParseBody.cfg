SPECIFICATION Spec
CONSTANT
  Streams <- MCAnyStreams
INVARIANT
  WaitsOnlyForMore
CHECK_DEADLOCK FALSE
