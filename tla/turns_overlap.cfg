SPECIFICATION Spec
CONSTANTS
  t1 = t1
  t2 = t2
  t3 = t3
  serve = serve
  repl = repl
  other = other
  Sessions = {s1}
  Turns = {t1, t3}
  Processes = {serve, repl, other}
  Clis = {repl, other}
  Host <- HostOf
  MaxToolCalls = 2
  Batches = {0, 1}
  NoSession = NoSession
  NoTurn = NoTurn
  OneRunPerThread = FALSE
  ContextModes <- AllModes
CHECK_DEADLOCK FALSE
INVARIANTS
  TypeOK
  AnswersFollowCalls
  RecordedTurnIsClosed
  OrphanRowsOnlyAfterRemoval
  OwnTranscriptIntact
PROPERTIES
  TurnsFollowProtocol
