CONSTANTS
  Keys = {s1, s2}
  Requests = {r1, r2}
  Clients = {c1, c2, c3}
  Callers = {t1, t2}
  MaxEntries = 1
  NoClient = NoClient
  NoTask = NoTask
  Watched = s1
SYMMETRY Symmetric
SPECIFICATION Spec
INVARIANTS
  SizeBound
  CachedClientsAreLive
  OneClientPerSession
  WaitersHaveARestore
  RefusalIsAVerdict
CONSTRAINT Bounded
PROPERTIES
  CacheSpec
  NoClientIsLetGo
