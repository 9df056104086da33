SPECIFICATION Spec
CONSTANTS
  c1 = c1
  c2 = c2
  c3 = c3
  a = a
  b = b
  Servers = {a}
  Calls = {c1, c2}
  MaxSessions = 3
  MaxListed = 1
  Kinds = {"server"}
CHECK_DEADLOCK FALSE
INVARIANTS
  ReconnectRecreates
