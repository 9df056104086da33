SPECIFICATION Spec
CONSTANTS
  r1 = r1
  r2 = r2
  Requests = {r1, r2}
  Capacity = 1
  Deadline = 2
  MaxCalls = 1
CHECK_DEADLOCK FALSE
INVARIANTS
  RequestsHaveTheDeadline
