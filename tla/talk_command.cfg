SPECIFICATION TalkSpec
CONSTANTS
  r1 = r1
  r2 = r2
  x = x
  long = long
  none = none
  Requests = {r1, r2}
  Capacity = 2
  Deadline = 2
  MaxCalls = 2
  Terminals = {t1, t2}
  Ids = {1, 2}
  NoId = 0
  Texts = {x, long}
  TooLong = {long}
  NoText = none
  MaxLines = 2
CHECK_DEADLOCK FALSE
INVARIANTS
  TypesOK
  TracesShowTurns
  HistoryIsKept
PROPERTIES
  
  ReportingNeverWaits
  SessionsAsShown
