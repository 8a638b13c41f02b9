SPECIFICATION DetectorsSpec

CONSTANTS
  k1 = k1
  k2 = k2
  k3 = k3
  page = page
  admin = admin
  http = http
  ws = ws
  Keys <- Clients
  Forever = Forever
  None = None
  MaxClock = 3
  Paths = {page, admin}
  ProbeWindow = 2
  ProbeThreshold = 2
  UniquePaths = 2
  MaxTimeSpan = 1
  MaxEvents = 3
  MaxHeld = 3
  MaxClients = 1
  CleanupInterval = 2
  Channels = {http, ws}
  TrafficWindow = 2
  ZThreshold = 2
  RateFloor = 1
  MinClients = 2
  MinSamples = 1
  MaxTrackedClients = 2
  RecomputeInterval = 1
  TrafficCleanup = 3
  MaxRequests = 7
  Samples = {x, y}
  Depths = {1, 2, 3}
  WindowSize = 2
  MinScores = 2
  ScoreWindow = 4
  OneIn = 3
  Params = {p, q}
  SessionTTL = 2
  MaxSessions = 2
  Share = 10
  Items = {1, 2, 3, 4}
  Rows = {1, 2}
  Width = 3
  Cell <- CellOf
  Bits = {0, 1}
  BucketSize = 1
  MaxKicks = 2
  Bucket <- BucketOf
  Fingerprint <- FingerprintOf
  HashFp <- HashOf
  Registers = {1, 2}
  Register <- RegisterOf
  Rank <- RankOf
  MaxAdds = 5
  NoHand = NoHand

SYMMETRY Symm

INVARIANTS
  MarksFollowScans
  PeersDecide
  NothingIsForgotten

PROPERTIES
  TailIsFlagged
  OnlyACrowdReshuffles

CONSTRAINT OneSocket

CHECK_DEADLOCK FALSE
