SPECIFICATION Spec
CONSTANTS
  c1 = c1
  c2 = c2
  Readers = {c1, c2}
  Pages <- SomePages
  RenderModes <- AllModes
  MaxChars = 6
  Requested = {0, 3}
  Concurrency = 1
  JsOnly = 5
INVARIANTS
  TypeOK
  PartsMakeThePage
PROPERTIES
  EveryPartMovesOn
  EveryCallReturns
