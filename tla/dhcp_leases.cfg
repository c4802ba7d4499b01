SPECIFICATION FairSpec
CONSTANTS
  alice = alice
  bob = bob
  NoClient = NoClient
  NoAddr = NoAddr
  XidNumbers = {0, 1, 2, 3, 4, 5}
  Clients <- MCClients
  MaxNumClients = 2
  MaxFaults = 2
  MaxLost = 1
  MaxLate = 1
  MaxReboots = 1
  MaxServerReboots = 1
  MaxAssociations = 1
INVARIANT TypeOK
INVARIANT UniqueAddresses
INVARIANT TimersInOrder
INVARIANT NeverStuck
INVARIANT GatewayFollowsAddress
PROPERTY BecomesBound
CHECK_DEADLOCK FALSE
