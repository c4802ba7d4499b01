SPECIFICATION Spec
CONSTANTS
  a = a
  b = b
  c = c
  far = far
  Node = {a, b, c, far}
  NoRoute = NoRoute
  NoTimer = NoTimer
  Broadcast = Broadcast
  Unspecified = Unspecified
  Link <- KiteLink
  Flow <- KiteTraffic
  TtlStart = 3
  TtlIncrement = 1
  TtlThreshold = 2
  NetDiameter = 3
  RreqRetries = 1
  RreqRatelimit = 10
  RerrRatelimit = 10
  AskGratuitousRREP = FALSE
  UseHelloMessages = FALSE
  UnicastTtl = 3
  SlowTimers = TRUE
  MaxRreqId = 2
  MaxLoss = 0
  MaxExpunge = 0
  MaxCrash = 0
  MaxHello = 0
INVARIANTS LoopFree
CHECK_DEADLOCK FALSE
