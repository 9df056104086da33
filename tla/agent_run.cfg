SPECIFICATION Spec
CONSTANTS
  MaxToolCalls = 2
  Batches = {0, 1, 3}
  Limits = {1, 2}
CHECK_DEADLOCK FALSE
INVARIANTS
  TypeOK
  NoStragglers
  NoSilentEnd
  InterruptMeansExhausted
PROPERTIES
  RunFollowsProtocol
  EveryRequestEnds
