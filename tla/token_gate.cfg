SPECIFICATION Spec
CONSTANTS
  r1 = r1
  r2 = r2
  r3 = r3
  k1 = k1
  k2 = k2
  None = None
  Requests = {r1, r2}
  Keys = {k1, k2}
  Rotating = {k1}
  Credentials <- SomeCredentials
  Configurations <- EveryConfiguration
  Ttl = 2
  FetchTime = 1
INVARIANTS
  TypeOK
  ApiKeySuffices
PROPERTIES
  StaleKeysExpire
  RefusalsAreExplained
  EveryRequestAnswered
