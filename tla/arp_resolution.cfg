SPECIFICATION FairSpec
CONSTANTS
  host = host
  router = router
  far = far
  Host = {host, router}
  Remote = {far}
  ProxyFor <- RouterAnswers
  Traffic <- LanTraffic
  RetryCount = 2
  NoEntry = NoEntry
  Unspecified = Unspecified
  Broadcast = Broadcast
  MaxLoss = 1
  MaxExpire = 1
  MaxCrash = 1
INVARIANTS TypeOK QueueIffPending TimerIffPending StoppedHostClean MacAnswers InOrder
PROPERTIES FIFOChannel ResolutionEnds
CHECK_DEADLOCK FALSE
