SPECIFICATION FairSpec
CONSTANTS
  a = a
  b = b
  c = c
  far = far
  Node = {a, b, c}
  NoRoute = NoRoute
  NoTimer = NoTimer
  Broadcast = Broadcast
  Unspecified = Unspecified
  Link <- LineLink
  Flow <- EndToEnd
  TtlStart = 1
  TtlIncrement = 1
  TtlThreshold = 2
  NetDiameter = 2
  RreqRetries = 1
  RreqRatelimit = 10
  RerrRatelimit = 10
  AskGratuitousRREP = FALSE
  UseHelloMessages = TRUE
  UnicastTtl = 3
  SlowTimers = TRUE
  MaxRreqId = 8
  MaxLoss = 1
  MaxExpunge = 1
  MaxCrash = 0
  MaxHello = 1
PROPERTIES DelayedLeaves DatagramDelivered
CHECK_DEADLOCK FALSE
