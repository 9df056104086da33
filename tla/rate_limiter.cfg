SPECIFICATION Spec
CONSTANTS
  first = first
  second = second
  proxy = proxy
  h1 = h1
  h2 = h2
  h3 = h3
  None = None
  Peers = {first, second, proxy}
  Hosts = {h1, h2, h3}
  HostOf <- PeerHosts
  Forwarding <- Sent
  ProxyLists <- Lists
  Requests = {r1, r2}
  Limiters = {1, 2, 3, 4, 5}
  Burst = 2
  Rate = 1
  Ttl = 2
  Period = 2
  MaxHold = 1
INVARIANTS
  TypeOK
  EntriesExpire
PROPERTIES
  ClientsKeepTheirBucket
