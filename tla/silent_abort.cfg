SPECIFICATION Spec
CONSTANTS
  MaxToolCalls = 2
  Batches = {0, 1}
  Limits = {1}
CHECK_DEADLOCK FALSE
INVARIANTS
  EveryRunIsClosed
