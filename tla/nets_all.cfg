SPECIFICATION NetsSpec
CONSTANTS
  Accounts = {u1}
  RadioCalls = {a}
  Calls = {a, b}
  None = None
  MaxLookups = 2
  Reports = {r1, r2}
  Nets = {n1}
  Admins = {a1, a2}
  MaxSecond = 1
  MaxIncidents = 1
  MaxPublished = 2
  Keys = {k1}
  Alerts = {w1}
  Script = Script
  Direct = {d1}
  Beacon = Beacon
  Breaks = {b1, b2}
  NoKey = NoKey
  MaxNets = 2
  Heard = {s1, s2}
  Timed = {s1}
  MaxStations = 1
  MaxTracked = 1
  TTL = 1
  MaxNow = 3
  Plugs = {m1, m2}
  Params = {k1, k2}
  Handlers = {b1, b2}
  MaxRequests = 3
  Desks = {u1}
  MaxChunk = 4
  PerChunk = 3
  Block = 2
  MaxBuffer = 7
  MinCapture = 2
  MaxCapture = 3
  Combos = 1
  FrameSize = 4
  HopSize = 2
  CapacityFrames = 2
  Chunks = {3, 11}
  MaxPushed = 20
  Clients = {c1, c2}
  MaxEdits = 2
  OpenHold = 2
  CloseHold = 2
  TailChunks = 3
  MaxCollected = 10
  Letters <- Signs
  Table <- Known
  Speeds = {1, 2}
  MinDit = 2
  MaxLetters = 2
  MaxWords = 2
SYMMETRY Symmetry
INVARIANTS NetsTypeOK BoardSound ClearedRecordedUnlessLate QuietMeansCurrent NetControlKeeps  ReceiverSound ReadAsSent
PROPERTIES LookUpFits
CHECK_DEADLOCK FALSE
