SPECIFICATION Spec
CONSTANTS
  NThreads = 2
  Tasks = {t1, t2, t3}
  Backlog = 2
  Conns = {c1, c2}
  MaxEvents = 2
  MaxChunks = 2
  MaxLines = 2
  SeqNumMod = 8
  PosMod = 4
  BufSize = 3
  SyncEach = 2
  MaxSync = 4
  Payloads = {a, b}
  SampleCounts = {1, 2}
  Speakers = {k1, k2}
  Levels = {0, 3, 7}
  MaxVolume = 120
  Short <- EveryExact
  IntOfInfinity = 1000000
  Names = {n1}
  MaxClients = 2
  MaxBrowsers = 2
  Watches = {w1, w2}
  Timeouts = {o1}
  Services = {v1, v2}
  MaxResolvers = 3
  MaxLookups = 2
CONSTANTS
  k1 = k1
  k2 = k2
  t1 = t1
  t2 = t2
  t3 = t3
  c1 = c1
  c2 = c2
  a = a
  b = b
  n1 = n1
  w1 = w1
  w2 = w2
  o1 = o1
  v1 = v1
  v2 = v2
INVARIANTS
  FreedAfterExit HandledInOrder HeededSoon
  RetransmitExact XorAsDocumented VolumesFollowMaster
  ResolversLive KnownUsable WatchesFollowed ResolversEnd
PROPERTIES TaskServed PlayerEnds ImplementsWindow
CHECK_DEADLOCK FALSE
