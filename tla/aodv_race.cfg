SPECIFICATION Spec
CONSTANTS
  a = a
  b = b
  c = c
  far = far
  Node = {a, b, c}
  NoRoute = NoRoute
  NoTimer = NoTimer
  Broadcast = Broadcast
  Unspecified = Unspecified
  Link <- LineLink
  Flow <- EndToEnd
  TtlStart = 1
  TtlIncrement = 1
  TtlThreshold = 2
  NetDiameter = 2
  RreqRetries = 1
  RreqRatelimit = 10
  RerrRatelimit = 10
  AskGratuitousRREP = FALSE
  UseHelloMessages = FALSE
  UnicastTtl = 3
  SlowTimers = FALSE
  MaxRreqId = 3
  MaxLoss = 0
  MaxExpunge = 0
  MaxCrash = 0
  MaxHello = 0
INVARIANTS ValidSeqNumFromDestination DatagramNotDuplicated
CHECK_DEADLOCK FALSE
