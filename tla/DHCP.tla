-------------------------------- MODULE DHCP --------------------------------
(***************************************************************************)
(* DHCP: the clients and the server of one network                         *)
(* (applications/dhcp/DHCPClient.cc, DHCPServer.cc).  A client obtains an  *)
(* address by DISCOVER, OFFER, REQUEST and ACK, renews it when timer T1    *)
(* fires, rebinds it when T2 fires, and asks for its old address again     *)
(* after a reboot.  The server keeps its leases in memory and never        *)
(* reclaims one.                                                           *)
(*                                                                         *)
(* Addresses are the offsets from ipAddressStart.  A client's name stands  *)
(* for its MAC address.  A transaction id is one that no message in flight *)
(* carries: the code draws a random one for each transmission.             *)
(* Pairing it with the client keeps those of different clients apart.      *)
(***************************************************************************)
EXTENDS Naturals, FiniteSets

CONSTANTS
  Clients,          \* the hosts that run DHCPClient
  MaxNumClients,    \* parameter maxNumClients of the server: addresses it has
  XidNumbers,       \* enough transaction ids never to run out of them
  NoClient, NoAddr, \* no MAC address, no IPv4 address
  MaxFaults,        \* bound: faults of all kinds together
  MaxLost,          \* bound: messages the network loses
  MaxLate,          \* bound: timeouts that overtake a message in flight
  MaxReboots,       \* bound: stops of clients
  MaxServerReboots, \* bound: stops of the server
  MaxAssociations   \* bound: link layer associations

Addresses == 0 .. MaxNumClients - 1
Xids == Clients \X XidNumbers

ASSUME PoolAssumption == MaxNumClients \in Nat
ASSUME SentinelAssumption == NoClient \notin Clients /\ NoAddr \notin Addresses
ASSUME XidAssumption == 0 \in XidNumbers
ASSUME BoundAssumption ==
  {MaxFaults, MaxLost, MaxLate, MaxReboots, MaxServerReboots, MaxAssociations} \subseteq Nat

VARIABLES
  isOperational,  \* client: between start and stop
  clientState,    \* client: the state of the automaton
  lease,          \* client: lease->ip, the address offered last; survives a stop
  addr,           \* client: the address of the interface
  gateway,        \* client: is the gateway route in the routing table?
  timers,         \* client: which of START, T1, T2, LEASE are scheduled
  timerTo,        \* client: the kind of the response timeout, if scheduled
  xid,            \* client: the transaction id of the last message sent
  leased,         \* server: the MAC each address is leased to
  server,         \* server: "down", "starting" (before openSocket) or "up"
  msgs,           \* messages in flight
  faults          \* how many faults of each kind have happened

clientVars == <<isOperational, clientState, lease, addr, gateway, timers, timerTo, xid>>
vars == <<clientVars, leased, server, msgs, faults>>

-----------------------------------------------------------------------------
(* Messages.  The server tells the requests apart by what is filled in: the *)
(* server identifier (an offer was accepted), ciaddr (renewing, rebinding)  *)
(* or neither (a rebooted client).                                          *)

States == {"IDLE", "SELECTING", "REQUESTING", "BOUND", "RENEWING", "REBINDING", "REBOOTING"}
TimerKinds == {"START", "T1", "T2", "LEASE"}
AddrOrNone == Addresses \cup {NoAddr}

Requests == [type : {"DISCOVER", "REQUEST"}, xid : Xids, chaddr : Clients,
             serverId : BOOLEAN, requestedIp : AddrOrNone, ciaddr : AddrOrNone]
Replies == [type : {"OFFER", "ACK", "NAK"}, xid : Xids, yiaddr : AddrOrNone, dest : AddrOrNone]

Discover(c, x) == [type |-> "DISCOVER", xid |-> x, chaddr |-> c,
                   serverId |-> FALSE, requestedIp |-> NoAddr, ciaddr |-> NoAddr]

\* sendRequest: what the client fills in depends on its state.
Request(c, x, state, ip) ==
  [type |-> "REQUEST", xid |-> x, chaddr |-> c,
   serverId    |-> state = "REQUESTING",
   requestedIp |-> IF state \in {"REQUESTING", "INIT_REBOOT"} THEN ip ELSE NoAddr,
   ciaddr      |-> IF state \in {"RENEWING", "REBINDING"} THEN ip ELSE NoAddr]

\* A reply goes to the ciaddr of the request, or is broadcast (dest = NoAddr).
Reply(t, m, ip) == [type |-> t, xid |-> m.xid, yiaddr |-> ip,
                    dest |-> IF t = "NAK" THEN NoAddr ELSE m.ciaddr]

IsRequest(m) == m.type \in {"DISCOVER", "REQUEST"}

\* xid = intuniform(0, RAND_MAX), taken to differ from every id in flight.
FreshXids(c) == ({c} \X XidNumbers) \ {m.xid : m \in msgs}

NoFaults == [lost |-> 0, late |-> 0, reboots |-> 0, server |-> 0, assoc |-> 0]
Happens(kind, max) ==
  /\ faults.lost + faults.late + faults.reboots + faults.server + faults.assoc < MaxFaults
  /\ faults[kind] < max
  /\ faults' = [faults EXCEPT ![kind] = @ + 1]

-----------------------------------------------------------------------------
TypeOK ==
  /\ isOperational \in [Clients -> BOOLEAN]
  /\ clientState \in [Clients -> States]
  /\ lease \in [Clients -> AddrOrNone]
  /\ addr \in [Clients -> AddrOrNone]
  /\ gateway \in [Clients -> BOOLEAN]
  /\ timers \in [Clients -> SUBSET TimerKinds]
  /\ timerTo \in [Clients -> {"NONE", "WAIT_OFFER", "WAIT_ACK"}]
  /\ xid \in [Clients -> Xids]
  /\ leased \in [Addresses -> Clients \cup {NoClient}]
  /\ server \in {"down", "starting", "up"}
  /\ msgs \subseteq Requests \cup Replies
  /\ faults \in [lost : Nat, late : Nat, reboots : Nat, server : Nat, assoc : Nat]

\* initialize, startApp: both sides are up, the start timers are scheduled.
Init ==
  /\ isOperational = [c \in Clients |-> TRUE]
  /\ clientState = [c \in Clients |-> "IDLE"]
  /\ lease = [c \in Clients |-> NoAddr]
  /\ addr = [c \in Clients |-> NoAddr]
  /\ gateway = [c \in Clients |-> FALSE]
  /\ timers = [c \in Clients |-> {"START"}]
  /\ timerTo = [c \in Clients |-> "NONE"]
  /\ xid = [c \in Clients |-> <<c, 0>>]
  /\ leased = [a \in Addresses |-> NoClient]
  /\ server = "starting"
  /\ msgs = {}
  /\ faults = NoFaults

-----------------------------------------------------------------------------
(* The client *)

SetClient(c, state, kinds, to, x) ==
  /\ clientState' = [clientState EXCEPT ![c] = state]
  /\ timers' = [timers EXCEPT ![c] = kinds]
  /\ timerTo' = [timerTo EXCEPT ![c] = to]
  /\ xid' = [xid EXCEPT ![c] = x]

\* Mutant: the timers of the old lease keep running.
initClientKeepingTimers(c, consumed) ==
  LET x == CHOOSE fresh \in FreshXids(c) : TRUE
  IN  /\ FreshXids(c) # {}
      /\ SetClient(c, "SELECTING", timers[c] \ {"START"}, "WAIT_OFFER", x)
      /\ msgs' = (msgs \ consumed) \cup {Discover(c, x)}

\* initClient: cancel the timers of the lease and start from DISCOVER.  The
\* interface keeps the address it has.
initClient(c, consumed) ==
  LET x == CHOOSE fresh \in FreshXids(c) : TRUE
  IN  /\ FreshXids(c) # {}
      /\ SetClient(c, "SELECTING", {}, "WAIT_OFFER", x)
      /\ msgs' = (msgs \ consumed) \cup {Discover(c, x)}

\* Mutant: the request is sent without a timeout.
SendRequestUntimed(c, state, fill, kinds, ip, consumed) ==
  LET x == CHOOSE fresh \in FreshXids(c) : TRUE
  IN  /\ FreshXids(c) # {}
      /\ SetClient(c, state, kinds, "NONE", x)
      /\ msgs' = (msgs \ consumed) \cup {Request(c, x, fill, ip)}

\* sendRequest and scheduleTimerTO(WAIT_ACK), on the way to state.
SendRequest(c, state, fill, kinds, ip, consumed) ==
  LET x == CHOOSE fresh \in FreshXids(c) : TRUE
  IN  /\ FreshXids(c) # {}
      /\ SetClient(c, state, kinds, "WAIT_ACK", x)
      /\ msgs' = (msgs \ consumed) \cup {Request(c, x, fill, ip)}

\* Mutant: the route stays in the routing table.
unbindAddressOnly(c) == addr' = [addr EXCEPT ![c] = NoAddr] /\ UNCHANGED gateway

\* unbindLease: the interface loses the address, the routing table the route.
unbindLease(c) ==
  /\ addr' = [addr EXCEPT ![c] = NoAddr]
  /\ gateway' = [gateway EXCEPT ![c] = FALSE]

keepLease == UNCHANGED <<lease, addr, gateway>>

\* handleTimer, START_DHCP: a client that remembers a lease asks for it again.
StartDHCP(c) ==
  /\ isOperational[c]
  /\ "START" \in timers[c]
  /\ IF lease[c] # NoAddr
     THEN SendRequest(c, "REBOOTING", "INIT_REBOOT", timers[c] \ {"START"}, lease[c], {})
     ELSE initClient(c, {})
  /\ keepLease
  /\ UNCHANGED <<isOperational, leased, server, faults>>

\* A timeout (60 s) fires when no message of the exchange is in flight; as a
\* fault it may overtake one.
Timely(c) ==
  IF \E m \in msgs : m.xid = xid[c] THEN Happens("late", MaxLate) ELSE UNCHANGED faults

\* Mutant: the client waits on without asking again.
ResponseTimeoutSilent(c) ==
  /\ isOperational[c]
  /\ timerTo[c] # "NONE"
  /\ Timely(c)
  /\ UNCHANGED <<clientVars, leased, server, msgs>>

\* handleTimer, WAIT_OFFER and WAIT_ACK: start again.
ResponseTimeout(c) ==
  /\ isOperational[c]
  /\ timerTo[c] # "NONE"
  /\ Timely(c)
  /\ initClient(c, {})
  /\ keepLease
  /\ UNCHANGED <<isOperational, leased, server>>

\* handleTimer, T1 (half of the lease time).
T1Expires(c) ==
  /\ isOperational[c]
  /\ "T1" \in timers[c]
  /\ SendRequest(c, "RENEWING", "RENEWING", timers[c] \ {"T1"}, lease[c], {})
  /\ keepLease
  /\ UNCHANGED <<isOperational, leased, server, faults>>

\* handleTimer, T2 (7/8 of the lease time, hence after T1): in any state but
\* RENEWING the code throws.  It cancels the lease timer too, which is due last:
\* the branch LEASE_TIMEOUT never runs (TimersInOrder) and has no action.
T2Expires(c) ==
  /\ isOperational[c]
  /\ "T2" \in timers[c]
  /\ "T1" \notin timers[c]
  /\ clientState[c] = "RENEWING"
  /\ Timely(c)
  /\ SendRequest(c, "REBINDING", "REBINDING", {}, lease[c], {})
  /\ keepLease
  /\ UNCHANGED <<isOperational, leased, server>>

\* A client takes a reply that reaches its interface and carries its xid.  Its
\* socket is closed when it stops and opened by START_DHCP.
Receives(c, m, t) ==
  /\ isOperational[c]
  /\ "START" \notin timers[c]
  /\ m.type = t
  /\ m.xid = xid[c]
  /\ m.dest \in {NoAddr, addr[c]}

\* handleDHCPMessage, SELECTING: the first offer is recorded and requested.
HandleOffer(c, m) ==
  /\ Receives(c, m, "OFFER")
  /\ clientState[c] = "SELECTING"
  /\ lease' = [lease EXCEPT ![c] = m.yiaddr]
  /\ SendRequest(c, "REQUESTING", "REQUESTING", timers[c], m.yiaddr, {m})
  /\ UNCHANGED <<isOperational, addr, gateway, leased, server, faults>>

\* handleDHCPACK with recordLease and bindLease: the address is that of the
\* lease; T1, T2 and the lease timer are scheduled.
HandleACK(c, m) ==
  /\ Receives(c, m, "ACK")
  /\ clientState[c] \in {"REQUESTING", "RENEWING", "REBINDING", "REBOOTING"}
  /\ SetClient(c, "BOUND", timers[c] \cup {"T1", "T2", "LEASE"}, "NONE", xid[c])
  /\ addr' = [addr EXCEPT ![c] = lease[c]]
  /\ gateway' = [gateway EXCEPT ![c] = TRUE]
  /\ msgs' = msgs \ {m}
  /\ UNCHANGED <<isOperational, lease, leased, server, faults>>

\* A refusal: the client gives up its address (in REQUESTING it has asked for
\* another and keeps the old one) and starts again.
HandleNAK(c, m) ==
  /\ Receives(c, m, "NAK")
  /\ \/ clientState[c] = "REQUESTING" /\ UNCHANGED <<addr, gateway>>
     \/ clientState[c] \in {"RENEWING", "REBINDING", "REBOOTING"} /\ unbindLease(c)
  /\ initClient(c, {m})
  /\ UNCHANGED <<isOperational, lease, leased, server, faults>>

\* Replies nobody waits for: another xid, a state that ignores the type, an
\* interface that no longer has the address.
IgnoreReply(m) ==
  /\ ~IsRequest(m)
  /\ \A c \in Clients :
        Receives(c, m, m.type) =>
          clientState[c] \notin (CASE m.type = "OFFER" -> {"SELECTING"}
                                   [] OTHER -> {"REQUESTING", "RENEWING", "REBINDING", "REBOOTING"})
  /\ msgs' = msgs \ {m}
  /\ UNCHANGED <<clientVars, leased, server, faults>>

\* receiveSignal, NF_L2_ASSOCIATED.  Before START_DHCP there is no socket to
\* send on.
Associated(c) ==
  /\ isOperational[c]
  /\ "START" \notin timers[c]
  /\ Happens("assoc", MaxAssociations)
  /\ unbindLease(c)
  /\ initClient(c, {})
  /\ UNCHANGED <<isOperational, lease, leased, server>>

\* stopApp; the interface table and the routing table are reset as well.
StopClient(c) ==
  /\ isOperational[c]
  /\ Happens("reboots", MaxReboots)
  /\ isOperational' = [isOperational EXCEPT ![c] = FALSE]
  /\ timers' = [timers EXCEPT ![c] = {}]
  /\ timerTo' = [timerTo EXCEPT ![c] = "NONE"]
  /\ unbindLease(c)
  /\ UNCHANGED <<clientState, lease, xid, leased, server, msgs>>

StartClient(c) ==
  /\ ~isOperational[c]
  /\ isOperational' = [isOperational EXCEPT ![c] = TRUE]
  /\ timers' = [timers EXCEPT ![c] = {"START"}]
  /\ UNCHANGED <<clientState, lease, addr, gateway, timerTo, xid, leased, server, msgs, faults>>

-----------------------------------------------------------------------------
(* The server *)

\* getLeaseByMac
LeasesOf(c) == {a \in Addresses : leased[a] = c}

\* getAvailableLease: the first address of the pool without an entry.
Available == {a \in Addresses : leased[a] = NoClient}
\* Mutant: an address is handed out whether it has an entry or not.
FirstOfPool(a) == \A b \in Addresses : a <= b

FirstAvailable(a) == a \in Available /\ \A b \in Available : a <= b

Answer(m, replies) == msgs' = (msgs \ {m}) \cup replies

\* Mutant: the offered address is counted from one, the entry from zero.
ProcessDiscoverFromOne(m) ==
  /\ server = "up"
  /\ m.type = "DISCOVER"
  /\ \E a \in LeasesOf(m.chaddr) \cup {b \in Available : LeasesOf(m.chaddr) = {}} :
       /\ leased' = [leased EXCEPT ![a] = m.chaddr]
       /\ Answer(m, {Reply("OFFER", m, a + 1)})
  /\ UNCHANGED <<clientVars, server, faults>>

\* processDHCPMessage, DHCPDISCOVER: a known client is offered its lease, a
\* new one the first address there is; the address is taken from then on.
ProcessDiscover(m) ==
  /\ server = "up"
  /\ m.type = "DISCOVER"
  /\ \/ \E a \in LeasesOf(m.chaddr) : Answer(m, {Reply("OFFER", m, a)}) /\ UNCHANGED leased
     \/ /\ LeasesOf(m.chaddr) = {}
        /\ \E a \in Addresses :
             /\ FirstAvailable(a)
             /\ leased' = [leased EXCEPT ![a] = m.chaddr]
             /\ Answer(m, {Reply("OFFER", m, a)})
     \/ LeasesOf(m.chaddr) = {} /\ Available = {} /\ Answer(m, {}) /\ UNCHANGED leased
  /\ UNCHANGED <<clientVars, server, faults>>

\* What the server answers to a request: an accepted offer is looked up by the
\* MAC, the address of a rebooted, renewing or rebinding client by itself.
Verdict(m) ==
  CASE m.serverId        -> IF m.requestedIp \in LeasesOf(m.chaddr) THEN "ACK" ELSE "NAK"
    [] m.ciaddr = NoAddr -> IF m.requestedIp \in Addresses \ Available THEN "ACK" ELSE "NONE"
    [] OTHER             -> IF m.ciaddr \in Addresses \ Available THEN "ACK" ELSE "NAK"

Requested(m) == IF m.ciaddr = NoAddr THEN m.requestedIp ELSE m.ciaddr

\* processDHCPMessage, DHCPREQUEST
ProcessRequest(m) ==
  /\ server = "up"
  /\ m.type = "REQUEST"
  /\ CASE Verdict(m) = "ACK" -> Answer(m, {Reply("ACK", m, Requested(m))})
       [] Verdict(m) = "NAK" -> Answer(m, {Reply("NAK", m, NoAddr)})
       [] OTHER              -> Answer(m, {})
  /\ UNCHANGED <<clientVars, leased, server, faults>>

\* UDP discards what arrives while the server has no socket.
ServerClosed(m) ==
  /\ server # "up"
  /\ IsRequest(m)
  /\ Answer(m, {})
  /\ UNCHANGED <<clientVars, leased, server, faults>>

\* stopApp: the lease database is lost.
StopServer ==
  /\ server # "down"
  /\ Happens("server", MaxServerReboots)
  /\ server' = "down"
  /\ leased' = [a \in Addresses |-> NoClient]
  /\ UNCHANGED <<clientVars, msgs>>

\* startApp schedules START_DHCP, which opens the socket.
StartServer ==
  /\ server # "up"
  /\ server' = IF server = "down" THEN "starting" ELSE "up"
  /\ UNCHANGED <<clientVars, leased, msgs, faults>>

\* The network loses a message.
Lose(m) ==
  /\ Happens("lost", MaxLost)
  /\ msgs' = msgs \ {m}
  /\ UNCHANGED <<clientVars, leased, server>>

-----------------------------------------------------------------------------
ClientTimer(c) == StartDHCP(c) \/ ResponseTimeout(c) \/ T1Expires(c) \/ T2Expires(c)
ClientReply(c) == \E m \in msgs : HandleOffer(c, m) \/ HandleACK(c, m) \/ HandleNAK(c, m)
ServerHandles(m) == ProcessDiscover(m) \/ ProcessRequest(m) \/ ServerClosed(m)
MessageOf(c) == \E m \in msgs : m.xid = xid[c] /\ (ServerHandles(m) \/ IgnoreReply(m))

Next ==
  \/ \E c \in Clients : ClientTimer(c) \/ ClientReply(c) \/ Associated(c)
                          \/ StopClient(c) \/ StartClient(c)
  \/ \E m \in msgs : ServerHandles(m) \/ IgnoreReply(m) \/ Lose(m)
  \/ StopServer \/ StartServer

Spec == Init /\ [][Next]_vars

\* The simulation kernel executes every scheduled event: messages arrive,
\* timers fire, and a host that went down for a reboot comes up.
FairSpec ==
  /\ Spec
  /\ \A c \in Clients : /\ WF_vars(ClientTimer(c))
                        /\ WF_vars(ClientReply(c))
                        /\ WF_vars(MessageOf(c))
                        /\ WF_vars(StartClient(c))
  /\ WF_vars(StartServer)

-----------------------------------------------------------------------------
(* Properties *)

\* As long as the server has not lost its lease database, no two clients have
\* the same address: getAvailableLease never hands out an address twice, and a
\* reply is only taken by the client that asked (DHCPServer.cc, getLeaseByMac).
UniqueAddresses ==
  faults.server = 0 =>
    \A c, d \in Clients : c # d /\ addr[c] # NoAddr => addr[c] # addr[d]

\* The timers of a lease go off in their order.  T2 finds the client in
\* RENEWING (in any other state handleTimer throws "T2 occurred in wrong
\* state"), and the lease timer, due after T2, is never scheduled without it:
\* whatever cancels T2 cancels the lease timer too.
TimersInOrder ==
  \A c \in Clients :
    /\ "T2" \in timers[c] /\ "T1" \notin timers[c] => clientState[c] = "RENEWING"
    /\ "LEASE" \in timers[c] => "T2" \in timers[c]

\* A running client always has something that wakes it up: the start timer, the
\* response timeout, or the timers of its lease.
NeverStuck ==
  \A c \in Clients : isOperational[c] =>
    \/ "START" \in timers[c]
    \/ timerTo[c] # "NONE"
    \/ clientState[c] = "BOUND" /\ {"T1", "T2", "LEASE"} \subseteq timers[c]

\* The gateway route and the address come and go together (bindLease,
\* unbindLease, and the tables that are reset when the node stops).
GatewayFollowsAddress ==
  \A c \in Clients : gateway[c] <=> addr[c] # NoAddr

\* Every client obtains an address, and after each loss, timeout or reboot of
\* either side obtains one again.
BecomesBound ==
  \A c \in Clients : []<>(clientState[c] = "BOUND" /\ addr[c] # NoAddr /\ isOperational[c])

=============================================================================
