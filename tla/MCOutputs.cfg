CONSTANTS
  Ids = {d1, d2}
  Addresses = {p1, p2}
  SessionAddresses = {s1, s2}
  Null = Null
  RegisterSize = 2
  MaxCalls = 2
  Qualities = {q1, q2, q3}
  Backends = {b1, b2}
  Streams = {x1, x2}
  MaxQualities = 2
  NoQuality = NoQuality
CONSTANTS
  SeqNumMod = 4
  PosMod = 8
  BufSize = 2
  SyncEach = 2
  Payloads = {a, b}
  SampleCounts = {2}
  Sessions = {r1, r2}
  PacketSamples = 2
  OutputBuffer = 3
  MaxWrite = 3
  StartSeqs = {3}
  StartPositions = {5}
CONSTANTS
  N = 11
  g = 2
  None = None
  ClientId = client
  ServerId = device
  Pins = {1, 2}
  Salts = {0, 1, 2}
  ShortSalts = {2}
  Secrets = {1, 2, 3, 4, 5}
  MaxAttempts = 3
  ChunkMax = 255
  EncryptedLenMax = 4
  AuthtagLength = 1
  Bodies = {0, 3}
  MaxRequests = 3
SPECIFICATION Spec
INVARIANTS
  SessionPointerValid OneSlotPerAddress AnswerHandedOn
  SubscribersServed MastersShared
  StreamTypeOK NothingSkipped ResentAudio MediaClock AudioAhead SyncedOften
  SecretsAgree DeviceKnowsFirst RefusedForCause
  ResponseExact OnlyTimeoutFails NothingWaits
PROPERTIES NoDanglingDevice SyncedBeforeAudio
SYMMETRY Interchangeable
CHECK_DEADLOCK FALSE
