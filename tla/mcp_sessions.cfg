SPECIFICATION Spec
CONSTANTS
  c1 = c1
  c2 = c2
  c3 = c3
  a = a
  b = b
  Servers = {a, b}
  Calls = {c1, c2}
  MaxSessions = 4
  MaxListed = 1
  Kinds = {"terminal", "server"}
CHECK_DEADLOCK FALSE
INVARIANTS
  TypeOK
  NoSessionLeaked
  StoredSessionsAreOpen
  RemovedServersAreForgotten
  StatusIsTrue

  
