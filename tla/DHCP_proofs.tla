----------------------------- MODULE DHCP_proofs -----------------------------
(***************************************************************************)
(* The safety properties of DHCP, for any number of clients, addresses and *)
(* faults.                                                                 *)
(***************************************************************************)
EXTENDS DHCP, TLAPS

\* The ids of a client and of its messages are its own.
OwnXids ==
  /\ \A c \in Clients : xid[c][1] = c
  /\ \A m \in msgs : IsRequest(m) => m.xid[1] = m.chaddr

\* While the server remembers, what a client was offered, remembers or uses is
\* leased to it.
OwnLeases ==
  faults.server = 0 =>
    /\ \A m \in msgs : m.type = "OFFER" => leased[m.yiaddr] = m.xid[1]
    /\ \A c \in Clients : lease[c] # NoAddr => leased[lease[c]] = c
    /\ \A c \in Clients : addr[c] # NoAddr => leased[addr[c]] = c

\* An offer names an address; a client past SELECTING has been offered one.
Offered ==
  /\ \A m \in msgs : m.type = "OFFER" => m.yiaddr \in Addresses
  /\ \A c \in Clients : clientState[c] \notin {"IDLE", "SELECTING"} => lease[c] # NoAddr

\* Which lease timers run in which state.
TimerStates ==
  \A c \in Clients :
    /\ "START" \in timers[c] => timers[c] = {"START"}
    /\ "T1" \in timers[c] => clientState[c] = "BOUND"
    /\ "T2" \in timers[c] => clientState[c] \in {"BOUND", "RENEWING"}
    /\ "T2" \in timers[c] /\ clientState[c] = "BOUND" => "T1" \in timers[c]
    /\ "LEASE" \in timers[c] => "T2" \in timers[c]

IndInv == TypeOK /\ OwnXids /\ OwnLeases /\ Offered /\ TimerStates
            /\ NeverStuck /\ GatewayFollowsAddress

-----------------------------------------------------------------------------
LEMMA FreshXid ==
  ASSUME NEW c \in Clients, FreshXids(c) # {}
  PROVE  /\ (CHOOSE fresh \in FreshXids(c) : TRUE) \in FreshXids(c)
         /\ FreshXids(c) \subseteq {x \in Xids : x[1] = c}
BY DEF FreshXids, Xids

LEMMA InitInd == Init => IndInv
BY PoolAssumption, SentinelAssumption, XidAssumption
   DEF Init, IndInv, TypeOK, OwnXids, OwnLeases, Offered, TimerStates, NeverStuck,
       GatewayFollowsAddress, NoFaults, States, TimerKinds, AddrOrNone, Xids, Addresses

\* initClient gives the client an id of its own and adds one DISCOVER with it.
LEMMA DiscoverSent ==
  ASSUME NEW c \in Clients, NEW consumed, initClient(c, consumed)
  PROVE  \E x \in Xids :
           /\ x[1] = c
           /\ SetClient(c, "SELECTING", {}, "WAIT_OFFER", x)
           /\ Discover(c, x) \in Requests
           /\ msgs' = (msgs \ consumed) \cup {Discover(c, x)}
<1>1. PICK x \in FreshXids(c) : x = CHOOSE fresh \in FreshXids(c) : TRUE
  BY FreshXid DEF initClient
<1>2. x \in Xids /\ x[1] = c
  BY <1>1, FreshXid DEF initClient
<1>3. Discover(c, x) \in Requests
  BY <1>2 DEF Discover, Requests, AddrOrNone
<1> QED  BY <1>1, <1>2, <1>3 DEF initClient

LEMMA RequestTyped ==
  ASSUME NEW c \in Clients, NEW x \in Xids, NEW fill, NEW ip \in AddrOrNone
  PROVE  Request(c, x, fill, ip) \in Requests
BY DEF Request, Requests, AddrOrNone

\* A bounded fault leaves the counters numbers and never turns one back.
LEMMA FaultCounted ==
  ASSUME TypeOK, NEW kind \in {"lost", "late", "reboots", "server", "assoc"},
         NEW max \in Nat, Happens(kind, max)
  PROVE  /\ faults' \in [lost : Nat, late : Nat, reboots : Nat, server : Nat, assoc : Nat]
         /\ kind # "server" => faults'.server = faults.server
         /\ kind = "server" => faults'.server # 0
BY DEF TypeOK, Happens

LEMMA TimelyFaults ==
  ASSUME TypeOK, NEW c \in Clients, Timely(c)
  PROVE  /\ faults' \in [lost : Nat, late : Nat, reboots : Nat, server : Nat, assoc : Nat]
         /\ faults'.server = faults.server
<1>1. CASE \E m \in msgs : m.xid = xid[c]
  BY <1>1, BoundAssumption, FaultCounted DEF Timely
<1>2. CASE ~ \E m \in msgs : m.xid = xid[c]
  BY <1>2 DEF Timely, TypeOK
<1> QED  BY <1>1, <1>2

\* START_DHCP without a lease.
LEMMA StartFresh ==
  ASSUME IndInv, NEW c \in Clients, StartDHCP(c), lease[c] = NoAddr
  PROVE  IndInv'
<1>1. PICK x \in Xids :
         /\ x[1] = c
         /\ SetClient(c, "SELECTING", {}, "WAIT_OFFER", x)
         /\ Discover(c, x) \in Requests
         /\ msgs' = (msgs \ {}) \cup {Discover(c, x)}
  BY DiscoverSent DEF StartDHCP
<1>2. lease' = lease /\ addr' = addr /\ gateway' = gateway
      /\ isOperational' = isOperational
      /\ leased' = leased /\ server' = server
      /\ faults' = faults
  BY DEF StartDHCP, keepLease
<1>t1. TypeOK'
  BY <1>1, <1>2, SentinelAssumption DEF IndInv, SetClient, Discover, Request, TypeOK, States, TimerKinds
<1>t2. OwnXids'
  BY <1>1, <1>2, SentinelAssumption DEF IndInv, SetClient, Discover, Request, TypeOK, OwnXids, IsRequest
<1>t3. OwnLeases'
  BY <1>1, <1>2, SentinelAssumption DEF IndInv, SetClient, Discover, Request, TypeOK, OwnXids, OwnLeases, Offered, AddrOrNone
<1>t4. Offered'
  BY <1>1, <1>2, SentinelAssumption DEF IndInv, SetClient, Discover, Request, TypeOK, Offered, AddrOrNone
<1>t5. TimerStates'
  BY <1>1, <1>2, SentinelAssumption DEF IndInv, SetClient, Discover, Request, TypeOK, TimerStates
<1>t6. NeverStuck'
  BY <1>1, <1>2, SentinelAssumption DEF IndInv, SetClient, Discover, Request, TypeOK, NeverStuck
<1>t7. GatewayFollowsAddress'
  BY <1>1, <1>2, SentinelAssumption DEF IndInv, SetClient, Discover, Request, TypeOK, GatewayFollowsAddress, Offered
<1> QED  BY <1>t1, <1>t2, <1>t3, <1>t4, <1>t5, <1>t6, <1>t7 DEF IndInv

\* START_DHCP with a lease remembered.
LEMMA StartReboot ==
  ASSUME IndInv, NEW c \in Clients, StartDHCP(c), lease[c] # NoAddr
  PROVE  IndInv'
<1>0. lease[c] \in AddrOrNone /\ SendRequest(c, "REBOOTING", "INIT_REBOOT", timers[c] \ {"START"}, lease[c], {})
  BY DEF IndInv, TypeOK, StartDHCP
<1>1. PICK x \in Xids :
         /\ x[1] = c
         /\ SetClient(c, "REBOOTING", timers[c] \ {"START"}, "WAIT_ACK", x)
         /\ Request(c, x, "INIT_REBOOT", lease[c]) \in Requests
         /\ msgs' = (msgs \ {}) \cup {Request(c, x, "INIT_REBOOT", lease[c])}
  <2>1. PICK x \in FreshXids(c) : x = CHOOSE fresh \in FreshXids(c) : TRUE
    BY <1>0, FreshXid DEF SendRequest
  <2>2. x \in Xids /\ x[1] = c
    BY <1>0, <2>1, FreshXid DEF SendRequest
  <2> QED  BY <1>0, <2>1, <2>2, RequestTyped DEF SendRequest
<1>2. lease' = lease /\ addr' = addr /\ gateway' = gateway
      /\ isOperational' = isOperational
      /\ leased' = leased /\ server' = server
      /\ faults' = faults
  BY DEF StartDHCP, keepLease
<1>3. timers[c] = {"START"}
  BY DEF StartDHCP, IndInv, TimerStates
<1>t1. TypeOK'
  BY <1>1, <1>2, <1>3, SentinelAssumption DEF IndInv, SetClient, Discover, Request, TypeOK, States, TimerKinds
<1>t2. OwnXids'
  BY <1>1, <1>2, <1>3, SentinelAssumption DEF IndInv, SetClient, Discover, Request, TypeOK, OwnXids, IsRequest
<1>t3. OwnLeases'
  BY <1>1, <1>2, <1>3, SentinelAssumption DEF IndInv, SetClient, Discover, Request, TypeOK, OwnXids, OwnLeases, Offered, AddrOrNone
<1>t4. Offered'
  BY <1>1, <1>2, <1>3, SentinelAssumption DEF IndInv, SetClient, Discover, Request, TypeOK, Offered, AddrOrNone
<1>t5. TimerStates'
  BY <1>1, <1>2, <1>3, SentinelAssumption DEF IndInv, SetClient, Discover, Request, TypeOK, TimerStates
<1>t6. NeverStuck'
  BY <1>1, <1>2, <1>3, SentinelAssumption DEF IndInv, SetClient, Discover, Request, TypeOK, NeverStuck
<1>t7. GatewayFollowsAddress'
  BY <1>1, <1>2, <1>3, SentinelAssumption DEF IndInv, SetClient, Discover, Request, TypeOK, GatewayFollowsAddress, Offered
<1> QED  BY <1>t1, <1>t2, <1>t3, <1>t4, <1>t5, <1>t6, <1>t7 DEF IndInv

\* A response timeout.
LEMMA ResponseTimeoutInd ==
  ASSUME IndInv, NEW c \in Clients, ResponseTimeout(c)
  PROVE  IndInv'
<1>1. PICK x \in Xids :
         /\ x[1] = c
         /\ SetClient(c, "SELECTING", {}, "WAIT_OFFER", x)
         /\ Discover(c, x) \in Requests
         /\ msgs' = (msgs \ {}) \cup {Discover(c, x)}
  BY DiscoverSent DEF ResponseTimeout
<1>2. lease' = lease /\ addr' = addr /\ gateway' = gateway
      /\ isOperational' = isOperational
      /\ leased' = leased /\ server' = server
  BY DEF ResponseTimeout, keepLease
<1>3. /\ faults' \in [lost : Nat, late : Nat, reboots : Nat, server : Nat, assoc : Nat]
      /\ faults'.server = faults.server
  BY TimelyFaults DEF ResponseTimeout, IndInv
<1>t1. TypeOK'
  BY <1>1, <1>2, <1>3, SentinelAssumption DEF IndInv, SetClient, Discover, Request, TypeOK, States, TimerKinds
<1>t2. OwnXids'
  BY <1>1, <1>2, <1>3, SentinelAssumption DEF IndInv, SetClient, Discover, Request, TypeOK, OwnXids, IsRequest
<1>t3. OwnLeases'
  BY <1>1, <1>2, <1>3, SentinelAssumption DEF IndInv, SetClient, Discover, Request, TypeOK, OwnXids, OwnLeases, Offered, AddrOrNone
<1>t4. Offered'
  BY <1>1, <1>2, <1>3, SentinelAssumption DEF IndInv, SetClient, Discover, Request, TypeOK, Offered, AddrOrNone
<1>t5. TimerStates'
  BY <1>1, <1>2, <1>3, SentinelAssumption DEF IndInv, SetClient, Discover, Request, TypeOK, TimerStates
<1>t6. NeverStuck'
  BY <1>1, <1>2, <1>3, SentinelAssumption DEF IndInv, SetClient, Discover, Request, TypeOK, NeverStuck
<1>t7. GatewayFollowsAddress'
  BY <1>1, <1>2, <1>3, SentinelAssumption DEF IndInv, SetClient, Discover, Request, TypeOK, GatewayFollowsAddress, Offered
<1> QED  BY <1>t1, <1>t2, <1>t3, <1>t4, <1>t5, <1>t6, <1>t7 DEF IndInv

\* T1: the lease is to be renewed.
LEMMA T1ExpiresInd ==
  ASSUME IndInv, NEW c \in Clients, T1Expires(c)
  PROVE  IndInv'
<1>0. lease[c] \in AddrOrNone /\ SendRequest(c, "RENEWING", "RENEWING", timers[c] \ {"T1"}, lease[c], {})
  BY DEF IndInv, TypeOK, T1Expires
<1>1. PICK x \in Xids :
         /\ x[1] = c
         /\ SetClient(c, "RENEWING", timers[c] \ {"T1"}, "WAIT_ACK", x)
         /\ Request(c, x, "RENEWING", lease[c]) \in Requests
         /\ msgs' = (msgs \ {}) \cup {Request(c, x, "RENEWING", lease[c])}
  <2>1. PICK x \in FreshXids(c) : x = CHOOSE fresh \in FreshXids(c) : TRUE
    BY <1>0, FreshXid DEF SendRequest
  <2>2. x \in Xids /\ x[1] = c
    BY <1>0, <2>1, FreshXid DEF SendRequest
  <2> QED  BY <1>0, <2>1, <2>2, RequestTyped DEF SendRequest
<1>2. lease' = lease /\ addr' = addr /\ gateway' = gateway
      /\ isOperational' = isOperational
      /\ leased' = leased /\ server' = server
      /\ faults' = faults
  BY DEF T1Expires, keepLease
<1>3. clientState[c] = "BOUND"
  BY DEF T1Expires, IndInv, TimerStates
<1>t1. TypeOK'
  BY <1>1, <1>2, <1>3, SentinelAssumption DEF IndInv, SetClient, Discover, Request, TypeOK, States, TimerKinds
<1>t2. OwnXids'
  BY <1>1, <1>2, <1>3, SentinelAssumption DEF IndInv, SetClient, Discover, Request, TypeOK, OwnXids, IsRequest
<1>t3. OwnLeases'
  BY <1>1, <1>2, <1>3, SentinelAssumption DEF IndInv, SetClient, Discover, Request, TypeOK, OwnXids, OwnLeases, Offered, AddrOrNone
<1>t4. Offered'
  BY <1>1, <1>2, <1>3, SentinelAssumption DEF IndInv, SetClient, Discover, Request, TypeOK, Offered, AddrOrNone
<1>t5. TimerStates'
  BY <1>1, <1>2, <1>3, SentinelAssumption DEF IndInv, SetClient, Discover, Request, TypeOK, TimerStates
<1>t6. NeverStuck'
  BY <1>1, <1>2, <1>3, SentinelAssumption DEF IndInv, SetClient, Discover, Request, TypeOK, NeverStuck
<1>t7. GatewayFollowsAddress'
  BY <1>1, <1>2, <1>3, SentinelAssumption DEF IndInv, SetClient, Discover, Request, TypeOK, GatewayFollowsAddress, Offered
<1> QED  BY <1>t1, <1>t2, <1>t3, <1>t4, <1>t5, <1>t6, <1>t7 DEF IndInv

\* T2: the lease is to be rebound.
LEMMA T2ExpiresInd ==
  ASSUME IndInv, NEW c \in Clients, T2Expires(c)
  PROVE  IndInv'
<1>0. lease[c] \in AddrOrNone /\ SendRequest(c, "REBINDING", "REBINDING", {}, lease[c], {})
  BY DEF IndInv, TypeOK, T2Expires
<1>1. PICK x \in Xids :
         /\ x[1] = c
         /\ SetClient(c, "REBINDING", {}, "WAIT_ACK", x)
         /\ Request(c, x, "REBINDING", lease[c]) \in Requests
         /\ msgs' = (msgs \ {}) \cup {Request(c, x, "REBINDING", lease[c])}
  <2>1. PICK x \in FreshXids(c) : x = CHOOSE fresh \in FreshXids(c) : TRUE
    BY <1>0, FreshXid DEF SendRequest
  <2>2. x \in Xids /\ x[1] = c
    BY <1>0, <2>1, FreshXid DEF SendRequest
  <2> QED  BY <1>0, <2>1, <2>2, RequestTyped DEF SendRequest
<1>2. lease' = lease /\ addr' = addr /\ gateway' = gateway
      /\ isOperational' = isOperational
      /\ leased' = leased /\ server' = server
      /\ clientState[c] = "RENEWING"
  BY DEF T2Expires, keepLease
<1>3. /\ faults' \in [lost : Nat, late : Nat, reboots : Nat, server : Nat, assoc : Nat]
      /\ faults'.server = faults.server
  BY TimelyFaults DEF T2Expires, IndInv
<1>t1. TypeOK'
  BY <1>1, <1>2, <1>3, SentinelAssumption DEF IndInv, SetClient, Discover, Request, TypeOK, States, TimerKinds
<1>t2. OwnXids'
  BY <1>1, <1>2, <1>3, SentinelAssumption DEF IndInv, SetClient, Discover, Request, TypeOK, OwnXids, IsRequest
<1>t3. OwnLeases'
  BY <1>1, <1>2, <1>3, SentinelAssumption DEF IndInv, SetClient, Discover, Request, TypeOK, OwnXids, OwnLeases, Offered, AddrOrNone
<1>t4. Offered'
  BY <1>1, <1>2, <1>3, SentinelAssumption DEF IndInv, SetClient, Discover, Request, TypeOK, Offered, AddrOrNone
<1>t5. TimerStates'
  BY <1>1, <1>2, <1>3, SentinelAssumption DEF IndInv, SetClient, Discover, Request, TypeOK, TimerStates
<1>t6. NeverStuck'
  BY <1>1, <1>2, <1>3, SentinelAssumption DEF IndInv, SetClient, Discover, Request, TypeOK, NeverStuck
<1>t7. GatewayFollowsAddress'
  BY <1>1, <1>2, <1>3, SentinelAssumption DEF IndInv, SetClient, Discover, Request, TypeOK, GatewayFollowsAddress, Offered
<1> QED  BY <1>t1, <1>t2, <1>t3, <1>t4, <1>t5, <1>t6, <1>t7 DEF IndInv

\* An offer is accepted: it was made to this client.
LEMMA HandleOfferInd ==
  ASSUME IndInv, NEW c \in Clients, NEW m \in msgs, HandleOffer(c, m)
  PROVE  IndInv'
<1>0. m.yiaddr \in Addresses /\ m.xid = xid[c] /\ m.type = "OFFER" /\ clientState[c] = "SELECTING"
      /\ m.yiaddr \in AddrOrNone
      /\ SendRequest(c, "REQUESTING", "REQUESTING", timers[c], m.yiaddr, {m})
  BY DEF HandleOffer, Receives, IndInv, Offered, AddrOrNone
<1>1. PICK x \in Xids :
         /\ x[1] = c
         /\ SetClient(c, "REQUESTING", timers[c], "WAIT_ACK", x)
         /\ Request(c, x, "REQUESTING", m.yiaddr) \in Requests
         /\ msgs' = (msgs \ {m}) \cup {Request(c, x, "REQUESTING", m.yiaddr)}
  <2>1. PICK x \in FreshXids(c) : x = CHOOSE fresh \in FreshXids(c) : TRUE
    BY <1>0, FreshXid DEF SendRequest
  <2>2. x \in Xids /\ x[1] = c
    BY <1>0, <2>1, FreshXid DEF SendRequest
  <2> QED  BY <1>0, <2>1, <2>2, RequestTyped DEF SendRequest
<1>2. lease' = [lease EXCEPT ![c] = m.yiaddr]
      /\ addr' = addr /\ gateway' = gateway
      /\ isOperational' = isOperational
      /\ leased' = leased /\ server' = server
      /\ faults' = faults
  BY DEF HandleOffer
<1>t1. TypeOK'
  BY <1>0, <1>1, <1>2, SentinelAssumption DEF IndInv, SetClient, Discover, Request, TypeOK, States, TimerKinds, AddrOrNone
<1>t2. OwnXids'
  BY <1>0, <1>1, <1>2, SentinelAssumption DEF IndInv, SetClient, Discover, Request, TypeOK, OwnXids, IsRequest
<1>t3. OwnLeases'
  BY <1>0, <1>1, <1>2, SentinelAssumption DEF IndInv, SetClient, Discover, Request, TypeOK, OwnXids, OwnLeases, Offered, AddrOrNone
<1>t4. Offered'
  BY <1>0, <1>1, <1>2, SentinelAssumption DEF IndInv, SetClient, Discover, Request, TypeOK, Offered, AddrOrNone
<1>t5. TimerStates'
  BY <1>0, <1>1, <1>2, SentinelAssumption DEF IndInv, SetClient, Discover, Request, TypeOK, TimerStates
<1>t6. NeverStuck'
  BY <1>0, <1>1, <1>2, SentinelAssumption DEF IndInv, SetClient, Discover, Request, TypeOK, NeverStuck
<1>t7. GatewayFollowsAddress'
  BY <1>0, <1>1, <1>2, SentinelAssumption DEF IndInv, SetClient, Discover, Request, TypeOK, GatewayFollowsAddress, Offered
<1> QED  BY <1>t1, <1>t2, <1>t3, <1>t4, <1>t5, <1>t6, <1>t7 DEF IndInv

\* The address of the lease is bound.
LEMMA HandleACKInd ==
  ASSUME IndInv, NEW c \in Clients, NEW m \in msgs, HandleACK(c, m)
  PROVE  IndInv'
<1>1. lease[c] # NoAddr
  BY DEF HandleACK, IndInv, Offered
<1>t1. TypeOK'
  BY <1>1, SentinelAssumption DEF IndInv, HandleACK, SetClient, TypeOK, States, TimerKinds
<1>t2. OwnXids'
  BY <1>1, SentinelAssumption DEF IndInv, HandleACK, SetClient, TypeOK, OwnXids, IsRequest
<1>t3. OwnLeases'
  BY <1>1, SentinelAssumption DEF IndInv, HandleACK, SetClient, TypeOK, OwnXids, OwnLeases, Offered, AddrOrNone
<1>t4. Offered'
  BY <1>1, SentinelAssumption DEF IndInv, HandleACK, SetClient, TypeOK, Offered, AddrOrNone
<1>t5. TimerStates'
  BY <1>1, SentinelAssumption DEF IndInv, HandleACK, Receives, SetClient, TypeOK, TimerStates
<1>t6. NeverStuck'
  BY <1>1, SentinelAssumption DEF IndInv, HandleACK, SetClient, TypeOK, NeverStuck
<1>t7. GatewayFollowsAddress'
  BY <1>1, SentinelAssumption DEF IndInv, HandleACK, SetClient, TypeOK, GatewayFollowsAddress, Offered
<1> QED  BY <1>t1, <1>t2, <1>t3, <1>t4, <1>t5, <1>t6, <1>t7 DEF IndInv

\* A refusal.
LEMMA HandleNAKInd ==
  ASSUME IndInv, NEW c \in Clients, NEW m \in msgs, HandleNAK(c, m)
  PROVE  IndInv'
<1>1. PICK x \in Xids :
         /\ x[1] = c
         /\ SetClient(c, "SELECTING", {}, "WAIT_OFFER", x)
         /\ Discover(c, x) \in Requests
         /\ msgs' = (msgs \ {m}) \cup {Discover(c, x)}
  BY DiscoverSent DEF HandleNAK
<1>2. \/ addr' = addr /\ gateway' = gateway
      \/ addr' = [addr EXCEPT ![c] = NoAddr] /\ gateway' = [gateway EXCEPT ![c] = FALSE]
  BY DEF HandleNAK, unbindLease
<1>3. lease' = lease
      /\ isOperational' = isOperational
      /\ leased' = leased /\ server' = server
      /\ faults' = faults
  BY DEF HandleNAK
<1>t1. TypeOK'
  BY <1>1, <1>2, <1>3, SentinelAssumption DEF IndInv, SetClient, Discover, Request, TypeOK, States, TimerKinds, AddrOrNone
<1>t2. OwnXids'
  BY <1>1, <1>2, <1>3, SentinelAssumption DEF IndInv, SetClient, Discover, Request, TypeOK, OwnXids, IsRequest
<1>t3. OwnLeases'
  BY <1>1, <1>2, <1>3, SentinelAssumption DEF IndInv, SetClient, Discover, Request, TypeOK, OwnXids, OwnLeases, Offered, AddrOrNone
<1>t4. Offered'
  BY <1>1, <1>2, <1>3, SentinelAssumption DEF IndInv, SetClient, Discover, Request, TypeOK, Offered, AddrOrNone
<1>t5. TimerStates'
  BY <1>1, <1>2, <1>3, SentinelAssumption DEF IndInv, SetClient, Discover, Request, TypeOK, TimerStates
<1>t6. NeverStuck'
  BY <1>1, <1>2, <1>3, SentinelAssumption DEF IndInv, SetClient, Discover, Request, TypeOK, NeverStuck
<1>t7. GatewayFollowsAddress'
  BY <1>1, <1>2, <1>3, SentinelAssumption DEF IndInv, SetClient, Discover, Request, TypeOK, GatewayFollowsAddress, Offered
<1> QED  BY <1>t1, <1>t2, <1>t3, <1>t4, <1>t5, <1>t6, <1>t7 DEF IndInv

\* A new association of the link layer.
LEMMA AssociatedInd ==
  ASSUME IndInv, NEW c \in Clients, Associated(c)
  PROVE  IndInv'
<1>1. PICK x \in Xids :
         /\ x[1] = c
         /\ SetClient(c, "SELECTING", {}, "WAIT_OFFER", x)
         /\ Discover(c, x) \in Requests
         /\ msgs' = (msgs \ {}) \cup {Discover(c, x)}
  BY DiscoverSent DEF Associated
<1>2. lease' = lease
      /\ isOperational' = isOperational
      /\ leased' = leased /\ server' = server
      /\ addr' = [addr EXCEPT ![c] = NoAddr]
      /\ gateway' = [gateway EXCEPT ![c] = FALSE]
  BY DEF Associated, unbindLease
<1>3. /\ faults' \in [lost : Nat, late : Nat, reboots : Nat, server : Nat, assoc : Nat]
      /\ faults'.server = faults.server
  BY FaultCounted, BoundAssumption DEF Associated, IndInv
<1>t1. TypeOK'
  BY <1>1, <1>2, <1>3, SentinelAssumption DEF IndInv, SetClient, Discover, Request, TypeOK, States, TimerKinds, AddrOrNone
<1>t2. OwnXids'
  BY <1>1, <1>2, <1>3, SentinelAssumption DEF IndInv, SetClient, Discover, Request, TypeOK, OwnXids, IsRequest
<1>t3. OwnLeases'
  BY <1>1, <1>2, <1>3, SentinelAssumption DEF IndInv, SetClient, Discover, Request, TypeOK, OwnXids, OwnLeases, Offered, AddrOrNone
<1>t4. Offered'
  BY <1>1, <1>2, <1>3, SentinelAssumption DEF IndInv, SetClient, Discover, Request, TypeOK, Offered, AddrOrNone
<1>t5. TimerStates'
  BY <1>1, <1>2, <1>3, SentinelAssumption DEF IndInv, SetClient, Discover, Request, TypeOK, TimerStates
<1>t6. NeverStuck'
  BY <1>1, <1>2, <1>3, SentinelAssumption DEF IndInv, SetClient, Discover, Request, TypeOK, NeverStuck
<1>t7. GatewayFollowsAddress'
  BY <1>1, <1>2, <1>3, SentinelAssumption DEF IndInv, SetClient, Discover, Request, TypeOK, GatewayFollowsAddress, Offered
<1> QED  BY <1>t1, <1>t2, <1>t3, <1>t4, <1>t5, <1>t6, <1>t7 DEF IndInv

\* A client stops.
LEMMA StopClientInd ==
  ASSUME IndInv, NEW c \in Clients, StopClient(c)
  PROVE  IndInv'
<1>1. /\ faults' \in [lost : Nat, late : Nat, reboots : Nat, server : Nat, assoc : Nat]
      /\ faults'.server = faults.server
  BY FaultCounted, BoundAssumption DEF StopClient, IndInv
<1>t1. TypeOK'
  BY <1>1, SentinelAssumption DEF IndInv, StopClient, unbindLease, TypeOK, States, TimerKinds, AddrOrNone
<1>t2. OwnXids'
  BY <1>1, SentinelAssumption DEF IndInv, StopClient, unbindLease, TypeOK, OwnXids, IsRequest
<1>t3. OwnLeases'
  BY <1>1, SentinelAssumption DEF IndInv, StopClient, unbindLease, TypeOK, OwnXids, OwnLeases, Offered, AddrOrNone
<1>t4. Offered'
  BY <1>1, SentinelAssumption DEF IndInv, StopClient, unbindLease, TypeOK, Offered, AddrOrNone
<1>t5. TimerStates'
  BY <1>1, SentinelAssumption DEF IndInv, StopClient, unbindLease, TypeOK, TimerStates
<1>t6. NeverStuck'
  BY <1>1, SentinelAssumption DEF IndInv, StopClient, unbindLease, TypeOK, NeverStuck
<1>t7. GatewayFollowsAddress'
  BY <1>1, SentinelAssumption DEF IndInv, StopClient, unbindLease, TypeOK, GatewayFollowsAddress, Offered
<1> QED  BY <1>t1, <1>t2, <1>t3, <1>t4, <1>t5, <1>t6, <1>t7 DEF IndInv

\* A client starts.
LEMMA StartClientInd ==
  ASSUME IndInv, NEW c \in Clients, StartClient(c)
  PROVE  IndInv'
<1>t1. TypeOK'
  BY SentinelAssumption DEF IndInv, StartClient, TypeOK, States, TimerKinds
<1>t2. OwnXids'
  BY SentinelAssumption DEF IndInv, StartClient, TypeOK, OwnXids, IsRequest
<1>t3. OwnLeases'
  BY SentinelAssumption DEF IndInv, StartClient, TypeOK, OwnXids, OwnLeases, Offered, AddrOrNone
<1>t4. Offered'
  BY SentinelAssumption DEF IndInv, StartClient, TypeOK, Offered, AddrOrNone
<1>t5. TimerStates'
  BY SentinelAssumption DEF IndInv, StartClient, TypeOK, TimerStates
<1>t6. NeverStuck'
  BY SentinelAssumption DEF IndInv, StartClient, TypeOK, NeverStuck
<1>t7. GatewayFollowsAddress'
  BY SentinelAssumption DEF IndInv, StartClient, TypeOK, GatewayFollowsAddress, Offered
<1> QED  BY <1>t1, <1>t2, <1>t3, <1>t4, <1>t5, <1>t6, <1>t7 DEF IndInv

\* The server makes an offer, of an address it has leased to this client.
LEMMA DiscoverInd ==
  ASSUME IndInv, NEW m \in msgs, ProcessDiscover(m)
  PROVE  IndInv'
<1>0. m \in Requests /\ m.xid[1] = m.chaddr
  BY DEF ProcessDiscover, IsRequest, IndInv, TypeOK, OwnXids, Requests, Replies
<1>1. /\ clientVars' = clientVars /\ server' = server /\ faults' = faults
      /\ \/ msgs' = msgs \ {m} /\ leased' = leased
         \/ \E a \in Addresses :
              /\ leased[a] \in {m.chaddr, NoClient}
              /\ leased' = [leased EXCEPT ![a] = m.chaddr]
              /\ msgs' = (msgs \ {m}) \cup {Reply("OFFER", m, a)}
  BY <1>0 DEF ProcessDiscover, Answer, LeasesOf, Available, FirstAvailable, IndInv, TypeOK
<1>2. \A a \in Addresses : Reply("OFFER", m, a) \in Replies
  BY <1>0 DEF Reply, Replies, Requests, AddrOrNone
<1>t1. TypeOK'
  BY <1>0, <1>1, <1>2, SentinelAssumption DEF IndInv, clientVars, Reply, Requests, AddrOrNone, TypeOK, States, TimerKinds
<1>t2. OwnXids'
  BY <1>0, <1>1, <1>2, SentinelAssumption DEF IndInv, clientVars, Reply, Requests, AddrOrNone, TypeOK, OwnXids, IsRequest
<1>t3. OwnLeases'
  <2> SUFFICES ASSUME faults.server = 0
               PROVE  /\ \A n \in msgs' : n.type = "OFFER" => leased'[n.yiaddr] = n.xid[1]
                      /\ \A c \in Clients : lease[c] # NoAddr => leased'[lease[c]] = c
                      /\ \A c \in Clients : addr[c] # NoAddr => leased'[addr[c]] = c
    BY <1>1 DEF OwnLeases, clientVars
  <2>1. CASE msgs' = msgs \ {m} /\ leased' = leased
    BY <2>1 DEF IndInv, OwnLeases
  <2>2. ASSUME NEW a \in Addresses, leased[a] \in {m.chaddr, NoClient},
               leased' = [leased EXCEPT ![a] = m.chaddr],
               msgs' = (msgs \ {m}) \cup {Reply("OFFER", m, a)}
        PROVE  /\ \A n \in msgs' : n.type = "OFFER" => leased'[n.yiaddr] = n.xid[1]
               /\ \A c \in Clients : lease[c] # NoAddr => leased'[lease[c]] = c
               /\ \A c \in Clients : addr[c] # NoAddr => leased'[addr[c]] = c
    <3>1. m.chaddr \in Clients /\ leased'[a] = m.chaddr
          /\ \A b \in Addresses \ {a} : leased'[b] = leased[b]
      BY <1>0, <2>2 DEF IndInv, TypeOK, Requests
    <3>2. \A b \in Addresses : leased[b] \in Clients => leased'[b] = leased[b]
      BY <2>2, <3>1, SentinelAssumption
    <3>3. ASSUME NEW n \in msgs, n.type = "OFFER"
          PROVE  leased'[n.yiaddr] = n.xid[1]
      <4>1. n.yiaddr \in Addresses /\ leased[n.yiaddr] = n.xid[1]
        BY <3>3 DEF IndInv, OwnLeases, Offered
      <4>2. n.xid[1] \in Clients
        BY DEF IndInv, TypeOK, Requests, Replies, Xids
      <4> QED  BY <4>1, <4>2, <3>2
    <3>4. LET n == Reply("OFFER", m, a) IN leased'[n.yiaddr] = n.xid[1]
      BY <1>0, <3>1 DEF Reply
    <3>5. \A c \in Clients : lease[c] # NoAddr => leased'[lease[c]] = c
      BY <3>2 DEF IndInv, OwnLeases, TypeOK, AddrOrNone
    <3>6. \A c \in Clients : addr[c] # NoAddr => leased'[addr[c]] = c
      BY <3>2 DEF IndInv, OwnLeases, TypeOK, AddrOrNone
    <3> QED  BY <2>2, <3>3, <3>4, <3>5, <3>6
  <2> QED  BY <1>1, <2>1, <2>2
<1>t4. Offered'
  BY <1>0, <1>1, <1>2, SentinelAssumption DEF IndInv, clientVars, Reply, Requests, AddrOrNone, TypeOK, Offered
<1>t5. TimerStates'
  BY <1>0, <1>1, <1>2, SentinelAssumption DEF IndInv, clientVars, Reply, Requests, AddrOrNone, TypeOK, TimerStates
<1>t6. NeverStuck'
  BY <1>0, <1>1, <1>2, SentinelAssumption DEF IndInv, clientVars, Reply, Requests, AddrOrNone, TypeOK, NeverStuck
<1>t7. GatewayFollowsAddress'
  BY <1>0, <1>1, <1>2, SentinelAssumption DEF IndInv, clientVars, Reply, Requests, AddrOrNone, TypeOK, GatewayFollowsAddress, Offered
<1> QED  BY <1>t1, <1>t2, <1>t3, <1>t4, <1>t5, <1>t6, <1>t7 DEF IndInv

\* The server answers a request: with neither a new lease nor an offer.
LEMMA RequestInd ==
  ASSUME IndInv, NEW m \in msgs, ProcessRequest(m)
  PROVE  IndInv'
<1>0. m \in Requests
  BY DEF ProcessRequest, IndInv, TypeOK, Requests, Replies
<1>1. /\ UNCHANGED <<clientVars, leased, server, faults>>
      /\ \/ msgs' = msgs \ {m}
         \/ msgs' = (msgs \ {m}) \cup {Reply("ACK", m, Requested(m))}
         \/ msgs' = (msgs \ {m}) \cup {Reply("NAK", m, NoAddr)}
  BY DEF ProcessRequest, Answer
<1>2. /\ Reply("ACK", m, Requested(m)) \in Replies
      /\ Reply("NAK", m, NoAddr) \in Replies
  BY <1>0 DEF Reply, Requested, Replies, Requests, AddrOrNone
<1>t1. TypeOK'
  BY <1>0, <1>1, <1>2, SentinelAssumption DEF IndInv, clientVars, Reply, TypeOK, States, TimerKinds
<1>t2. OwnXids'
  BY <1>0, <1>1, <1>2, SentinelAssumption DEF IndInv, clientVars, Reply, TypeOK, OwnXids, IsRequest
<1>t3. OwnLeases'
  BY <1>0, <1>1, <1>2, SentinelAssumption DEF IndInv, clientVars, Reply, TypeOK, OwnXids, OwnLeases, Offered, AddrOrNone
<1>t4. Offered'
  BY <1>0, <1>1, <1>2, SentinelAssumption DEF IndInv, clientVars, Reply, TypeOK, Offered, AddrOrNone
<1>t5. TimerStates'
  BY <1>0, <1>1, <1>2, SentinelAssumption DEF IndInv, clientVars, Reply, TypeOK, TimerStates
<1>t6. NeverStuck'
  BY <1>0, <1>1, <1>2, SentinelAssumption DEF IndInv, clientVars, Reply, TypeOK, NeverStuck
<1>t7. GatewayFollowsAddress'
  BY <1>0, <1>1, <1>2, SentinelAssumption DEF IndInv, clientVars, Reply, TypeOK, GatewayFollowsAddress, Offered
<1> QED  BY <1>t1, <1>t2, <1>t3, <1>t4, <1>t5, <1>t6, <1>t7 DEF IndInv

\* A message disappears: ignored, lost, or for a closed server.
LEMMA MessageGone ==
  ASSUME IndInv, NEW m \in msgs, msgs' = msgs \ {m}, UNCHANGED <<clientVars, leased, server>>,
         faults' \in [lost : Nat, late : Nat, reboots : Nat, server : Nat, assoc : Nat],
         faults'.server = faults.server
  PROVE  IndInv'
<1>t1. TypeOK'
  BY SentinelAssumption DEF IndInv, clientVars, TypeOK, States, TimerKinds
<1>t2. OwnXids'
  BY SentinelAssumption DEF IndInv, clientVars, TypeOK, OwnXids, IsRequest
<1>t3. OwnLeases'
  BY SentinelAssumption DEF IndInv, clientVars, TypeOK, OwnXids, OwnLeases, Offered, AddrOrNone
<1>t4. Offered'
  BY SentinelAssumption DEF IndInv, clientVars, TypeOK, Offered, AddrOrNone
<1>t5. TimerStates'
  BY SentinelAssumption DEF IndInv, clientVars, TypeOK, TimerStates
<1>t6. NeverStuck'
  BY SentinelAssumption DEF IndInv, clientVars, TypeOK, NeverStuck
<1>t7. GatewayFollowsAddress'
  BY SentinelAssumption DEF IndInv, clientVars, TypeOK, GatewayFollowsAddress, Offered
<1> QED  BY <1>t1, <1>t2, <1>t3, <1>t4, <1>t5, <1>t6, <1>t7 DEF IndInv

\* The server stops; OwnLeases no longer says anything.
LEMMA StopServerInd ==
  ASSUME IndInv, StopServer
  PROVE  IndInv'
<1>1. /\ faults' \in [lost : Nat, late : Nat, reboots : Nat, server : Nat, assoc : Nat]
      /\ faults'.server # 0
  BY FaultCounted, BoundAssumption DEF StopServer, IndInv
<1>t1. TypeOK'
  BY <1>1, SentinelAssumption DEF IndInv, StopServer, clientVars, TypeOK, States, TimerKinds
<1>t2. OwnXids'
  BY <1>1, SentinelAssumption DEF IndInv, StopServer, clientVars, TypeOK, OwnXids, IsRequest
<1>t3. OwnLeases'
  BY <1>1, SentinelAssumption DEF IndInv, StopServer, clientVars, TypeOK, OwnXids, OwnLeases, Offered, AddrOrNone
<1>t4. Offered'
  BY <1>1, SentinelAssumption DEF IndInv, StopServer, clientVars, TypeOK, Offered, AddrOrNone
<1>t5. TimerStates'
  BY <1>1, SentinelAssumption DEF IndInv, StopServer, clientVars, TypeOK, TimerStates
<1>t6. NeverStuck'
  BY <1>1, SentinelAssumption DEF IndInv, StopServer, clientVars, TypeOK, NeverStuck
<1>t7. GatewayFollowsAddress'
  BY <1>1, SentinelAssumption DEF IndInv, StopServer, clientVars, TypeOK, GatewayFollowsAddress, Offered
<1> QED  BY <1>t1, <1>t2, <1>t3, <1>t4, <1>t5, <1>t6, <1>t7 DEF IndInv

\* The server starts.
LEMMA StartServerInd ==
  ASSUME IndInv, StartServer
  PROVE  IndInv'
<1>t1. TypeOK'
  BY SentinelAssumption DEF IndInv, StartServer, clientVars, TypeOK, States, TimerKinds
<1>t2. OwnXids'
  BY SentinelAssumption DEF IndInv, StartServer, clientVars, TypeOK, OwnXids, IsRequest
<1>t3. OwnLeases'
  BY SentinelAssumption DEF IndInv, StartServer, clientVars, TypeOK, OwnXids, OwnLeases, Offered, AddrOrNone
<1>t4. Offered'
  BY SentinelAssumption DEF IndInv, StartServer, clientVars, TypeOK, Offered, AddrOrNone
<1>t5. TimerStates'
  BY SentinelAssumption DEF IndInv, StartServer, clientVars, TypeOK, TimerStates
<1>t6. NeverStuck'
  BY SentinelAssumption DEF IndInv, StartServer, clientVars, TypeOK, NeverStuck
<1>t7. GatewayFollowsAddress'
  BY SentinelAssumption DEF IndInv, StartServer, clientVars, TypeOK, GatewayFollowsAddress, Offered
<1> QED  BY <1>t1, <1>t2, <1>t3, <1>t4, <1>t5, <1>t6, <1>t7 DEF IndInv

LEMMA NextInd == IndInv /\ [Next]_vars => IndInv'
<1> SUFFICES ASSUME IndInv, [Next]_vars PROVE IndInv'
  OBVIOUS
<1>1. ASSUME NEW c \in Clients, ClientTimer(c) PROVE IndInv'
  BY <1>1, StartFresh, StartReboot, ResponseTimeoutInd, T1ExpiresInd, T2ExpiresInd DEF ClientTimer
<1>2. ASSUME NEW c \in Clients, ClientReply(c) PROVE IndInv'
  BY <1>2, HandleOfferInd, HandleACKInd, HandleNAKInd DEF ClientReply
<1>3. ASSUME NEW c \in Clients, Associated(c) \/ StopClient(c) \/ StartClient(c) PROVE IndInv'
  BY <1>3, AssociatedInd, StopClientInd, StartClientInd
<1>4. ASSUME NEW m \in msgs, ServerClosed(m) \/ IgnoreReply(m) PROVE IndInv'
  <2>1. msgs' = msgs \ {m} /\ UNCHANGED <<clientVars, leased, server, faults>>
    BY <1>4 DEF ServerClosed, IgnoreReply, Answer
  <2> QED  BY <2>1, MessageGone DEF IndInv, TypeOK
<1>5. ASSUME NEW m \in msgs, Lose(m) PROVE IndInv'
  <2>1. /\ faults' \in [lost : Nat, late : Nat, reboots : Nat, server : Nat, assoc : Nat]
        /\ faults'.server = faults.server
    BY <1>5, FaultCounted, BoundAssumption DEF Lose, IndInv
  <2> QED  BY <1>5, <2>1, MessageGone DEF Lose
<1>6. ASSUME NEW m \in msgs, ServerHandles(m) PROVE IndInv'
  BY <1>4, <1>6, DiscoverInd, RequestInd DEF ServerHandles
<1>7. CASE StopServer \/ StartServer
  BY <1>7, StopServerInd, StartServerInd
<1>8. CASE UNCHANGED vars
  BY <1>8 DEF vars, clientVars, IndInv, TypeOK, OwnXids, OwnLeases, Offered, TimerStates,
              NeverStuck, GatewayFollowsAddress
<1> QED  BY <1>1, <1>2, <1>3, <1>4, <1>5, <1>6, <1>7, <1>8 DEF Next

LEMMA Invariant == Spec => []IndInv
BY InitInd, NextInd, PTL DEF Spec

-----------------------------------------------------------------------------
\* Every variable keeps its type, whatever the clients, the server and the
\* network do.
THEOREM TypeCorrect == Spec => []TypeOK
BY Invariant, PTL DEF IndInv

\* No two clients share an address as long as the server keeps its database.
THEOREM AddressesAreUnique == Spec => []UniqueAddresses
<1>1. IndInv => UniqueAddresses
  BY DEF IndInv, OwnLeases, UniqueAddresses
<1> QED  BY <1>1, Invariant, PTL

\* T2 never fires outside RENEWING, so handleTimer never throws, and the lease
\* timer never fires at all, so its branch of handleTimer is never executed.
THEOREM TimersFireInOrder == Spec => []TimersInOrder
<1>1. IndInv => TimersInOrder
  BY DEF IndInv, TimerStates, TimersInOrder
<1> QED  BY <1>1, Invariant, PTL

\* A running client is always waiting for a timer of its own.
THEOREM ClientsKeepGoing == Spec => []NeverStuck
BY Invariant, PTL DEF IndInv

\* The gateway route is there exactly while the interface has an address.
THEOREM GatewaysFollowAddresses == Spec => []GatewayFollowsAddress
BY Invariant, PTL DEF IndInv

=============================================================================
