SPECIFICATION Spec
CONSTANTS
  client = client
  server = server
  Ends = {client, server}
  Plans <- FreePlans
  InitialWindow = 1
  RcvWnd = 8
  IssStep = 20
  MaxRexmit = 2
  MaxSynRexmit = 1
  MaxFaults <- NoFaults
CHECK_DEADLOCK FALSE
INVARIANTS
  WaitsForFin
