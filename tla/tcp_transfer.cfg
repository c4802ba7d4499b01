SPECIFICATION FairSpec
CONSTANTS
  client = client
  server = server
  Ends = {client, server}
  Plans <- PassingPlans
  InitialWindow = 2
  RcvWnd = 8
  IssStep = 20
  MaxRexmit = 1
  MaxSynRexmit = 1
  MaxFaults <- PassingFaults
CHECK_DEADLOCK FALSE
INVARIANTS
  TypeOK
  NoInternalError
  AckedIsReceived
  CloseLosesNothing
  AlwaysATimer
PROPERTIES
  CloseCompletes
  ByteStreams
