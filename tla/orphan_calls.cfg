SPECIFICATION Spec
CONSTANTS
  t1 = t1
  t2 = t2
  t3 = t3
  serve = serve
  repl = repl
  other = other
  Sessions = {s1}
  Turns = {t1, t2}
  Processes = {serve, repl}
  Clis = {repl}
  Host <- HostOf
  MaxToolCalls = 2
  Batches = {0, 1}
  NoSession = NoSession
  NoTurn = NoTurn
  OneRunPerThread = TRUE
  ContextModes <- DetailModes
CHECK_DEADLOCK FALSE
INVARIANTS
  AllResultsBeforeNextCall
