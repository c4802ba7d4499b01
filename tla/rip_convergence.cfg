SPECIFICATION FairSpec
CONSTANTS
  r1 = r1
  r2 = r2
  r3 = r3
  dest = dest
  n12 = n12
  n23 = n23
  Horizon = "NO_SPLIT_HORIZON"
  Routers = {r1, r2, r3}
  Networks = {dest, n12, n23}
  Dest = dest
  Attached <- Row
  IfMetric <- HopCount
  Mode <- StubAndHorizon
  Infinity = 5
  NoRoute = NoRoute
  NoRouter = NoRouter
  MaxInFlight = 1
  MaxFaults = 1
  MaxLost = 1
  MaxStale = 1
  MaxFlaps = 1
  MaxStops = 1
INVARIANT TypeOK
INVARIANT RouteIffFinite
INVARIANT NeverTooNear
INVARIANT NeighboursAgree
PROPERTY Converges
CHECK_DEADLOCK FALSE
