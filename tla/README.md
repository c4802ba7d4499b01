# A TLA+ verification of INET protocols: AODV, ARP, DHCP, RIP and TCP

INET is a library of network protocol models for the OMNeT++ discrete event
simulator. Each protocol is a module that reacts to events, one at a time:
a packet on a gate, a self-message (timer), a signal (a synchronous call from
another module), a lifecycle operation (start, shutdown, crash). Nothing runs in
parallel inside a host. The concurrency that is hard to test is between events:
packets of several hosts, timers, restarts and losses in any order.

This directory models five of these protocols, one from each layer of the
library's IPv4 stack where the protocol logic lives, checks them with TLC and
proves with TLAPS what holds for every network:

* **AODV** (`src/src/inet/routing/aodv`), the reactive ad hoc routing protocol;
* **ARP** (`src/src/inet/networklayer/arp/ipv4`) with the pending queues of
  **IPv4** (`src/src/inet/networklayer/ipv4/IPv4.cc`);
* **DHCP** (`src/src/inet/applications/dhcp`), clients and server;
* **RIP** (`src/src/inet/routing/rip`), the distance vector protocol;
* **TCP** (`src/src/inet/transportlayer/tcp`), both ends of one connection.

Every action is one event of the simulation, that is one whole handler with
everything it calls.

## Inventory

| Component | State | Operations | Interacts with | What makes it correct |
|---|---|---|---|---|
| AODV routing | routes with sequence numbers, remembered RREQs, WaitForRREP timers, delayed datagrams, blacklist, rate counters | RREQ, RREP, RERR, Hello, RREP-ACK handlers; five timers; two netfilter hooks; link-break signal; lifecycle | IPv4 (hooks, reinjection), link layer (signal), IPv4 routing table | no forwarding loop; nothing delayed for ever; no datagram twice; stop leaves no timer |
| ARP | cache entries (pending, MAC, age, retries), one timer each | resolve, request, reply, timeout, lifecycle | IPv4 through a call and three signals | cache, timer and IPv4's queue change together; right MAC |
| IPv4 | pending queues, datagrams held by hooks, reassembly buffer | local out, forward, deliver, fragment, ARP notifications | ARP, hooks, NICs | order per next hop; queue is empty once resolved |
| DHCP | client: automaton, lease, address, route, five timers; server: lease database | DISCOVER, OFFER, REQUEST, ACK, NAK; timeouts, T1, T2; association signal; lifecycle | UDP, interface table, routing table | no address twice; a client is never left without a timer and obtains its address again |
| RIP | RIP routes with metric, source, age and changed flag; triggered update timer | requests, responses, regular and triggered updates, expiry, interface up and down, lifecycle | UDP multicast, IP routing table | RIP and IP tables agree; metrics become the distances; counting ends |
| TCP | TCB (send and receive variables), send and receive queues, four timers, state machine | open, send, close, abort; segment arrival in eight steps; timeouts | IP, applications | nothing acknowledged is lost; no assertion fails; a CLOSE ends |
| OSPFv2, BGPv4, PIM, DYMO, GPSR | routing databases, neighbour state, timers | updates, triggered updates, floods | IPv4, UDP, TCP | convergence, loop freedom |
| IGMP, ICMPv6/ND, LDP, RSVP-TE, MIPv6 | membership, caches, soft state | queries, reports, renewals, expiry | IP, UDP, TCP | soft state is refreshed or removed |
| SCTP, UDP, RTP | associations, streams, retransmission timers | open, send, receive, close, timeouts | IP, applications | reliable delivery per stream |
| 802.11 MAC and management, Ethernet, STP/RSTP, other MACs | queues, backoff, association, tables, tree | frames, retries, election, ageing | radio, upper layers | at-most-once delivery, one tree |
| Physical layer, mobility, energy, visualisation, configurators | continuous quantities | | | out of TLC's reach |

`PROJECT.json` lists every component with the reason it is or is not modelled,
and the hazards of the modelled ones, each at the line where it bites.

What is hard in the modelled parts: replies that arrive after their timeout;
knowledge of different age meeting at one node; jittered packets that overtake
each other; crashes between the steps of a discovery or a resolution; rate
limits hit in the middle of a retry; a cache entry that expires and is resolved
again in place; two hosts resolving each other at the same time; a lease database
lost while leases are in use; stale distances that travel round a network after
a failure; two events, a FIN and the ACK that releases one, in one segment; a
retransmission timer that races the acknowledgement.

## Modules

| Module | What it is |
|---|---|
| `AODVRouteTable` | one node's AODV routes and the pure updates the handlers make |
| `AODVRouting` | the network: all nodes, IPv4's hooks and forwarding, frames, faults |
| `MCAODVRouting` | topologies and traffic for TLC |
| `NextHopChannel` | abstract: per next hop a FIFO channel that may hold or discard |
| `ARP` | ARP and IPv4's pending queues on one LAN; refines `NextHopChannel` |
| `MCARP` | a host, a router and a remote address for TLC |
| `DHCP`, `MCDHCP` | DHCP clients and server; two clients for TLC |
| `RIP`, `MCRIP` | RIP for one destination in any topology; a row of three routers for TLC |
| `ByteStream` | abstract: two streams that are read in the order they were written, up to their end |
| `TCPConnection` | two ends of a connection; refines `ByteStream` |
| `MCTCP` | scenarios of the applications for TLC |
| `AODVRouteTable_proofs`, `AODVRouting_proofs`, `AODVDelivery_proofs`, `AODVLoops_proofs`, `ARP_proofs`, `DHCP_proofs`, `RIP_proofs`, `TCPConnection_proofs` | theorems |

Definitions keep the names of the functions they model (`handleRREQ`,
`completeRouteDiscovery`, `updateARPCache`); where a handler has several
outcomes, each is a disjunct with a name of its own (`RREQDuplicate`,
`RREQForward`). The definitions marked "Mutant" in a comment are plausible
mistakes, used to confirm that each property can fail; nothing else refers to
them.

### AODV: state and actions

The variables of `AODVRouting` are functions from nodes to the members of the C++
class of the same name. `routes` holds the AODV routes of the IPv4 routing
table: next hop, metric, and the `AODVRouteData`. `delayedPackets` is
`targetAddressToDelayedPackets`. A timer is a boolean, or for WaitForRREP a record with
the last TTL. `ipOut` holds unicast control packets between the gate of AODV and
IPv4, `air` the frames between hosts.

* Sending: `AppSend` and `IPLocalOut` pass IPv4's local-out hook,
  `ensureRouteForDatagram`, which routes the datagram or delays it and starts a
  discovery. Control packets pass the same hook as data, as in the code.
* Receiving: `handleRREQ`, `handleRREP` (with `handleHelloMessage`), `handleRERR`;
  `datagramForwardHook` and `DelayReturned` for datagrams in transit;
  `DeliverData`. `DelayReturned` (a node's own datagram comes back to it while
  it has no active route) is the one action the passing runs do not reach: it
  needs a forwarding loop whose source loses its route while the datagram
  circulates, which took more states than the runs have room for. The
  proofs cover it like every other action.
* Self-messages: `handleWaitForRREP`, `CounterTimer`, `handleRREPACKTimer`,
  `handleBlackListTimer`, `expungeRoutes`, `sendHelloMessagesIfNeeded`.
* Failures: `LinkBreak` (the link layer reports an unacknowledged unicast),
  `FrameLost`, `Stop`, `Start`.

`UnicastFrame` and `DeliverData` stand for code of `IPv4.cc`, of which there are two versions:
`NEWFRAGMENT` is defined (line 52), so the live ones are at the end of the file
(1258-1287 and 1359-1405); `reassembleAndDeliverFinish` (669-701) hands the datagram up.

`handleRREPACK` has no action. `sendRREP` asks for a RREP-ACK only when the
originator itself is the neighbour, and `handleRREP` acknowledges only replies
it relays, so no RREP-ACK is ever sent; `HonestHopCounts` proves this for the
model, in which `RREPForward` does send one if it is asked to.

Abstractions. Time: a scheduled timer may fire at any moment, and a route may
expire at any moment; with `SlowTimers` no timer fires while a packet is in
transit (the timeouts are tens to hundreds of milliseconds, a hop about one); stops and
restarts may always fall between two packets.
`rebooting` says that less than DELETE_PERIOD has passed since a restart. A
precursor list is empty or not, which is all the code asks. A remembered RREQ is
forgotten only when its flood has died out (PATH_DISCOVERY_TIME is twice the time a
flood takes). Frames are a set: two identical frames in the air at once count as
one; control packets of different attempts differ in their ids. The copies of a broadcast are
frames of their own, received in any order and with other events in between. Sequence numbers
are natural numbers: 2^31 increments are not reached.

### ARP: state and actions

A channel `<<h, d>>` is next hop `d` as host `h` sees it; per channel there are
the cache entry, its timer, IPv4's queue, and the history of what was submitted
and sent. `sendDatagramToOutput` looks the next hop up and sends or queues
(starting a resolution unless one is pending); `processARPPacket` merges the sender's
address and answers; `requestTimedOut` resends or fails; `CacheTimeout` makes an
entry too old. ARP tells IPv4 by signals, which are calls: `arpResolutionCompleted` and
`arpResolutionTimedOut` are part of the same step. `Stop` flushes ARP's cache
and IPv4's queues, as the two modules do in the same lifecycle stage. `attempt`
in a packet keeps repeated requests apart. A host's name stands for its IPv4 and its
MAC address; `ProxyFor` says who answers for remote addresses. One LAN and one
interface per host are modelled.

`NextHopChannel` is the promise: a datagram is transmitted at once only if nothing is
held, otherwise held behind the others; held datagrams leave all together in
order, or are all discarded.

### DHCP: state and actions

Each client has the members of `DHCPClient` (state, lease, timers, xid) and the
address and gateway route it sets on its interface and in the routing table; the
server has its map `leased`, from address to MAC. The handlers of the timers are
`StartDHCP`, `ResponseTimeout`, `T1Expires`, `T2Expires`, those of the replies
`HandleOffer`, `HandleACK`, `HandleNAK`, `IgnoreReply`; the server's are
`ProcessDiscover` and `ProcessRequest`. `Associated` is the signal
NF_L2_ASSOCIATED. Lifecycle: `StopClient`, `StartClient`, `StopServer`,
`StartServer`. A client keeps its lease over a stop and asks for it again
(INIT-REBOOT); the server loses everything.

Abstractions. Addresses are offsets in the pool; a client's name is its MAC; a
transaction id differs from those in flight (the code draws a random one). T1, T2
and the end of the lease have only their order. A response timeout that fires
while a message of its exchange is in flight is a fault, counted by `MaxLate`.
The branch for LEASE_TIMEOUT has no action, because it never runs: whatever
cancels T2 cancels the lease timer, and T2 is due first (`TimersInOrder`,
proved). A client therefore keeps an address whose lease has ended, until a NAK
or a new ACK; the server never reclaims a lease either.

### RIP: state and actions

`RIPRouting` treats destinations independently of each other, so the model
follows one: each router has the `RIPRoute` of the destination or none.
`RegularUpdate` and `TriggeredUpdate` are the update timers (`processUpdate` with
`sendRoutes`), `ProcessRequest` and `ProcessResponse` the packets, `InterfaceDown`
and `InterfaceUp` the signal, `StartRIPRouting`, `Shutdown`, `ShutdownDone`, `Crash` and
`NodeStart` the lifecycle. A route's field `route` says whether it has an entry in
the IP routing table.

Abstractions. Time is the age of a route: `Ages` makes it expired, and later due
to be purged, when its source has been silent (`SourceSilent`) or, as a fault,
although it is announced (`UpdatesMissed`). As in the code expiry only takes effect when an
update or a request looks at the route (`Checked`). Expiry takes minutes, packets
and triggered updates take seconds: ageing waits until they are done (`Quiet`).
Packets on a link keep their order, and a router does not send again before the
last update has arrived (`MaxInFlight`).

### TCP: state and actions

`conn[e]` is the `TCPConnection` object of an end with its TCB and queues. Each
C++ function that changes it is an operator from record to record of the same
name, and an event is their composition followed by `performStateTransition`, as
in the code: `Receive` runs `process_RCV_SEGMENT` with its eight steps;
`process_OPEN_ACTIVE`, `process_OPEN_PASSIVE`, `process_SEND`, `process_CLOSE`, `process_ABORT` are
the commands; `process_TIMEOUT_SYN_REXMIT`, `process_TIMEOUT_CONN_ESTAB`,
`process_TIMEOUT_2MSL`, `processRexmitTimer` and `RexmitGivesUp` the timers. An
ASSERT or exception of the code sets `failed`. The network loses (`Lose`) and
duplicates (`ReceiveCopy`) segments and delivers them in any order. `net` is a set: a
retransmission that equals a segment still in flight merges with it, and that both arrive is then
a `ReceiveCopy` and counts as a fault.

Abstractions. A unit of data is a full segment. The flavour is
TCPNoCongestionControl, the queues are the virtual data queues, options and
delayed ACKs are off. The window is large enough for all the data of a run
(`TCPAssumption`), so the persist timer is never needed. A retransmission timer expires
when nothing is in flight; earlier expiry is a fault. CONN-ESTAB (75 s) and 2MSL
expire when nothing is in flight. The applications follow a `Plan`: how they open, how
much they send, whether they close on their own or after their peer, whether
they may abort, and whether they give commands in SYN_RCVD before TCP has
reported the connection (`early`; off in the runs, as in the repository's
applications, which wait for TCP_I_ESTABLISHED).

`ByteStream` is the promise to the applications: each direction is a stream, what
is read is a prefix of what was written, and the end of a stream is seen only
when it has been closed and read completely. In the mapping `Streams` a stream is
written by SEND, closed by CLOSE, read by what the receive queue delivers, and
ended when `rcv_nxt` has passed the FIN.

## Runs

All runs set `CHECK_DEADLOCK FALSE`: when the applications have sent what they
will, the network comes to rest.

| Run | Instance | Checks | Result |
|---|---|---|---|
| `aodv_race` | line a-b-c, one flow, no faults, timers race packets | `ValidSeqNumFromDestination`, `DatagramNotDuplicated` | hold, 78,549 states |
| `aodv_faults` | line, two flows to c, one crash and restart at any moments, gratuitous RREPs, RERR limit 1 | `TypeOK`, `HopCountsHonest`, `NeighbourMetric`, `DelayedHasTimer`, `DownNodeHasNoTimer`, `LoopFree` | hold, 584,371 states |
| `aodv_delivery` | line, one flow, one loss, one expiry, one Hello, fairness | `DelayedLeaves`, `DatagramDelivered` | hold, 23,326 states |
| `aodv_loop` | triangle a, b, c with a fourth node behind c, two flows, no faults | `LoopFree` | violated |
| `aodv_rreq_identity` | line, flows in both directions | `RREQNotMistaken` | violated |
| `aodv_ratelimit` | line, one RREQ per second | `DelayedHasTimer` | violated |
| `aodv_blacklist` | line, one crash | `BlacklistHasTimer` | violated |
| `arp_resolution` | host, router, remote address; one loss, one expiry, one crash, two requests | `TypeOK`, `QueueIffPending`, `TimerIffPending`, `StoppedHostClean`, `MacAnswers`, `InOrder`, `FIFOChannel`, `ResolutionEnds` | hold, 248,056 states |
| `dhcp_leases` | two clients, two addresses; any two faults out of a loss, a premature timeout, a client reboot, a server reboot, an association; fairness | `TypeOK`, `UniqueAddresses`, `TimersInOrder`, `NeverStuck`, `GatewayFollowsAddress`, `BecomesBound` | hold, about 450,000 states |
| `rip_convergence` | three routers in a row, no split horizon, infinity 5; one fault: a loss, an expiry, an interface failure, a shutdown or a crash; fairness | `TypeOK`, `RouteIffFinite`, `NeverTooNear`, `NeighboursAgree`, `Converges` | hold, about 70,000 states |
| `tcp_transfer` | five scenarios: one-sided transfer, abort, transfer both ways, closes at will, simultaneous open and close; two faults, or one where both sides act freely; fairness | `TypeOK`, `NoInternalError`, `AckedIsReceived`, `CloseLosesNothing`, `AlwaysATimer`, `CloseCompletes`, `ByteStreams` | hold, 425,428 states |
| `tcp_fin` | the client sends two segments with a window of one, both close at will, no faults | `WaitsForFin` | violated |

Bounds. A line of three is the smallest network with a relay, and it has every
kind of packet: a ring search that fails with TTL 1 and succeeds with TTL 2,
relayed and direct replies, answers from a relay's table, errors that are passed
on. A single crash, loss and expiry meet every step of a discovery; in `aodv_faults` the
node may come back at once, so that it meets requests, replies and frames of its earlier life. Timers
race packets in `aodv_race` only: with `SlowTimers` off, the instance of `aodv_faults` has more
than four million states. `MaxRreqId` bounds the
requests of one node between restarts: 3 allows the first ring, the second and a
retry; `aodv_delivery` needs 8 so that the bound never stops a retry the
liveness properties rely on. The loop of `aodv_loop` needs four hosts. In
`arp_resolution` the two hosts resolve each other crosswise, and the host's second
datagram finds the first queued, resolved, expired or failed. In `dhcp_leases`
two clients compete for the first address, and any two faults meet: a server
that forgets its leases and a client that reboots, a lost OFFER and a late one.
`XidNumbers` has more ids than messages fit in flight. In `rip_convergence` three
routers in a row without split horizon are the smallest network that counts to
infinity, and an infinity of 5 is the smallest that makes it count more than once round; the
other modes send a subset of these entries or poison them, and the theorems
cover all of them. In `tcp_transfer` two faults are a lost segment and a lost retransmission, or a loss
and a duplicate of an old segment; two units make data and FIN travel separately or together.

Fairness. The simulation kernel executes every event that is scheduled, so a
frame arrives or is lost, a packet on a gate is processed, a started timer fires
and a reboot ends: weak fairness on each. Applications, expiry, loss, crash and
restart are owed nothing. `DatagramDelivered` promises delivery only while no
frame was lost; it is checked with `SlowTimers`, because a network slower than
every timeout may retry itself to death.

DHCP: weak fairness on each client's timers, on the delivery of messages and on
the end of a reboot. RIP: weak fairness on the update and lifecycle timers and on
delivery; strong fairness on `SourceSilent`, which waits for idle links that
updates interrupt again and again, and the assumption that the links are idle
infinitely often (updates are 30 s apart, a link takes milliseconds). Nothing is
assumed of interfaces and routers that went down: `Converges` speaks of what is
left. TCP: the weakest assumption there is, that the simulation does not stop while its event list is
not empty (`Fairness`); no event is preferred to another and no application has
to abort.

`CloseCompletes` has two exceptions, which are behaviours of the code rather
than limits of the model. `Orphaned`: in FIN-WAIT-2 against a peer that has given
up nothing ends the wait, because the FIN-WAIT-2 timer, which has a handler
(`TCPConnectionRcvSegment.cc:1296`), is scheduled nowhere. `BothInTimeWait`: in
TIME_WAIT every acceptable segment, even a bare ACK, is answered with an ACK and
restarts 2MSL (lines 404-415), so that after a simultaneous close one stray
segment sets off an exchange without end.

### What the violations show

* `aodv_loop`: after the four conditions of the RFC, `handleRREP` at the
  originator updates the route once more, unconditionally (`AODVRouting.cc:708`). A
  reply that is no fresher and has more hops replaces a better route, and four
  static hosts form a loop. In the counterexample the copies of one broadcast reach different receivers
  at very different times, as they do over links of different delay; over one radio channel they arrive
  together. With all copies of a broadcast received at one instant this instance has no loop as
  long as there is no fault (2,056 states), but a single lost copy is enough for the same loop by the same update.
  Without the update at line 708 neither variant has a loop (18,818 states with copies apart, 51,483
  with copies together and one loss).
* `aodv_rreq_identity`: `RREQIdentifierCompare` (`AODVRouting.h:66`) ignores the
  originator, so a request is dropped as a duplicate of another host's.
* `aodv_ratelimit`: a RREQ suppressed by the rate limit returns before the timer
  is scheduled (`AODVRouting.cc:292`); the discovery hangs.
* `aodv_blacklist`: `clearState` cancels the blacklist timer and keeps the
  blacklist (`AODVRouting.cc:1288`).
* `tcp_fin`: the peer's FIN arrives with the ACK that lets the own deferred FIN
  out; `event = TCP_E_CLOSE` (`TCPConnectionRcvSegment.cc:718`) overwrites
  `TCP_E_RCV_FIN`. The end goes to FIN_WAIT_1 and FIN_WAIT_2 with the peer's FIN
  already consumed, and stays there. In the counterexample nothing is lost, but the network
  delivers the server's FIN before the bare ACK it sent earlier; the loss of that ACK has the same effect.

`LoopFree` is thus a property of some networks and of some behaviours; two
theorems say of which. `DelayedHasTimer` and `BlacklistHasTimer` fail for exactly the
reasons given: without a suppressed RREQ, or without a stop, they are theorems (below).

## Proofs

The theorems hold for every set of nodes, topology, traffic and parameter that
satisfies the named assumptions of the modules (`LinkAssumption`,
`ParameterAssumption`, ...), and for any number of losses, crashes and expiries
(the bounds are arbitrary natural numbers).

`AODVRouteTable_proofs` has one lemma per table operation: it yields a table,
and keeps the metrics sound under a condition on its arguments.

`AODVRouting_proofs` proves `TypeCorrect`, `HonestHopCounts` and `SoundMetrics`
from one inductive invariant `IndInv`, and `StoppedNodeSilent` from it. `HopCountsHonest` also says that a request with the U flag comes straight from its originator: the
flag makes `handleRREQ` replace any reverse route (`AODVRouting.cc:871`), but only by the route to a neighbour. Hop
counts and metrics need each other: a metric is sound because the packet it came
from counted honestly, and a reply from a table is honest because the metric it
copies is not zero. The invariant adds to these that packets in `ipOut` are
unicast (a RREP asking for an acknowledgement is addressed to the originator
itself) and that what is delayed at a node is as honest as what is in the air,
since it will be reinjected. There is a lemma per action. `StoppedNodeSilent`
follows because a handler touches only the timers of its own, running node.

Two more theorems in this module say when the timers of a node are reliable. `DelayedDatagramsAreTimed`:
as long as no node reaches its RREQ limit (`NeverLimited`), every discovery under
way has a scheduled timer and whatever is delayed is being looked for (`WaitInv`),
so `DelayedHasTimer` holds through any losses, crashes and expiries.
`BlacklistIsTimed`: the timer of a blacklisted neighbour is lost only by a stop.
The hypotheses are what the runs `aodv_ratelimit` and `aodv_blacklist` take away.

`AODVDelivery_proofs` follows the applications' datagrams. `DatagramsAreNotDuplicated`
holds for all networks and all failures: the invariant `PlaceInv` says that a
datagram is in at most one place (in the air once, delayed at one node, or
delivered) and in none before it is sent; handlers of control packets move none (`NoDataMoves`).
`SequenceNumbersAreIssued` and `NoDatagramStranded` are about networks without
failures (`FaultFree`: no loss, no expiry, no stop, links that work both ways; any
topology, traffic, timers and order of events). Their invariant `FreshInv` says
that a route's next hop is its destination or has a route to it, that packets in
flight come from nodes with a route to what they announce, and that sequence numbers in
routes and packets have been issued by their destinations. An intermediate
reply is the hard case: the number in it may be the one of the request, which must then
have been issued too, because only the originator clears the flag U. Routes and
numbers only grow, so no RERR is ever sent. TLC checked `FreshInv` on three
instances (78,549, 355,028 and 1,062,907 states) before it was proved.

`AODVLoops_proofs` says when the routes are free of loops. `ForestIsLoopFree` restricts
the network: if two hosts are joined by at most one path (`IsForest`), no loop
forms, whatever is lost, late, expires or stops, and although `handleRREP` updates
unconditionally. The reason is `RoutesLeadHome`, the theorem `ForestRoutesLeadHome`: a next hop is
the neighbour nearer to the destination. The invariant `HomeInv` has to follow the
packets as well. A reply moves away from the host it advertises and towards the originator
(`HomeReply`); in an intermediate reply this rests on the check that the
reply does not go back where the request came from. A request must not return: every neighbour
but the one it came from is further from its originator, and that one has the
request's id in `rreqsArrivalTime` (`Seen`; equal ids of other hosts do no harm here).
Therefore a restart, which empties that list, must not fall into a flood: the theorem is about behaviours
whose steps satisfy `RestartsWait` (no node starts while a request is in the air). TLC shows the need: with
restarts that race a flood the part about requests fails within a few steps, though on the line
no loop follows, as `aodv_faults` shows. A forest is given by its distances (`hops`); links may work one way
only. `ChainIsForest` and `StarIsForest` show that chains and stars of any size satisfy the
definition; the line of `aodv_faults` is one (its restarts need not wait). TLC checked the parts of `HomeInv` on
lines and a star with losses, expiries and a crash (up to 816,897 states).

`OrderedIsLoopFree` restricts the behaviour: in any finite network, with any failures,
no loop forms as long as every step is `NeverWorse`, that is, no host
exchanges a route for one with a smaller number, or with the same number and more hops, or
forgets it. A direct route over a link of `Lasting` (any set of links) counts as
better than every other and may carry any number, because `updateRoutingTable` gives a
neighbour's route the number of whoever the packet speaks for. The invariant `OrderInv` is AODV's own argument: the
next hop of an active route, and the sender of every request and reply, is the destination or has a
route at least as good as what it is credited with (`Vouches`). All handlers keep it; what
they need of their guards is that a route that was not updated was at least as good as the packet
(`ReverseOrder`, `ForwardOrder`), and of the U flag, which forces the update, that only the
originator sets it. A cycle would have a route with the greatest number and
the fewest hops among those, and its next hop would have a better one. The hypothesis is what the code does not
guarantee: in `aodv_loop` the step that breaks it is the unconditional update at
`AODVRouting.cc:708`; others are the deletion of an expired route, a stop, and an RERR that lowers
a number. With the steps that are `NeverWorse`, TLC explored a
triangle with a loss and an expiry (679,035 states, or 629,987 with `Lasting` empty) and the four hosts of
`aodv_loop` (13,746, or 581,547 with a loss and `Lasting` empty) before the proof.

`ARP_proofs` uses `IndInv`: types; every ARP packet in flight names a sender that
has or answers for the address it claims (`Truthful`), hence so does every
completed cache entry (`CacheAnswers`); queue, pending flag and timer agree, and are absent at a
stopped host (`Coupled`); every address used was right (`MacOK`). It gives
`QueuesFollowResolutions` (the `ASSERT2` of `sendDatagramToOutput`),
`TimersFollowResolutions`, `RestartsAreClean` (the `ASSERT` of `ARP::start`)
and `DatagramsGoToAnsweringHosts`. `ImplementsChannel` is the refinement: each
step is a step of `NextHopChannel` or a stutter, where `SendResolved` is a
`Transmit` only because of the invariant. `DatagramsStayInOrder` is proved on the
abstract channel's steps and carried over by the simulation.

`DHCP_proofs` uses `IndInv`: types; the transaction id of every request is one
of the client that sent it (`OwnXids`), so a reply is only taken by the one who
asked; as long as the server has not lost its database, the address of every
offer, every lease a client remembers and every address it uses is recorded for
that client (`OwnLeases`); an offer names an address of the pool and a client past
SELECTING has a lease (`Offered`); which timers run in which state
(`TimerStates`). `AddressesAreUnique` follows because the database is a function:
one address is recorded for one client. Without `Offered` a client that is
confirmed might bind no address at all. `TimersFireInOrder`, `ClientsKeepGoing`
and `GatewaysFollowAddresses` are conjuncts or consequences.

`RIP_proofs` proves `TypeCorrect`, `RoutesAreConsistent` (the assertions of
`updateRoute`) and `RoutersAreNeverTooNear` for every topology, interface metric and
mode. The last is stated for every lower bound of the distances, that is every
function that satisfies the triangle inequality along the links; what makes it inductive is the same
bound for the metrics in flight: a response on a link is no less than the bound
of the router that sent it.

`NeighboursKeepUp` proves `NeighboursAgree` for every topology, metric and mode and
any number of expiries, shutdowns, crashes and restarts, under two hypotheses. The
invariant `Agreement` follows the packets of each link in order: if the router
at its beginning has announced its route (`Settled`), then the last response on the way says
what it announces now, and if there is none, a router that uses it has that metric.
The routers on the destination network need another argument, because after a
restart they use their own route without announcing it (`Own`): every response
they ever send carries their interface's metric or infinity. The hypotheses are
the two ways in which the code does leave a neighbour behind, both found by TLC on instances
of three routers: a router that had learnt a nearer way than its own interface
crashes and restarts with the larger metric unannounced (excluded by
`OwnRouteNearest`, which holds whenever all metrics are 1); and a route that expired in
silence is refreshed when its source announces infinity, so that it counts as
announced (excluded by `NeverRevived`; it takes two faults, `rip_convergence` has one).

`TCPConnection_proofs` is about any two applications that wait until TCP reports the
connection (`Patient`; with commands in SYN_RCVD `NoInternalError` is false, see below), any amount of
data, any windows and any number of lost, duplicated, reordered or prematurely
retransmitted segments. The invariant `IndInv` has a part for each end: the
order of the send variables before, during and after the handshake and around the FIN
(`LocalOK`), which timers run in which state (`TimersOK`), what the application has
sent and closed (`AppOK`); parts between the ends: what one end has received,
delivered, acknowledged and taken as a FIN, compared with what the other has sent (`Received`, `Delivered`,
`Acked`, `FinTaken`); and for every segment in flight, that it says no more than
its sender knows (`Truthful`). Each function of the code has a lemma; in the
middle of an event the connection satisfies a weaker condition (`Mid`, `Fits`), which
`performStateTransition` restores to the invariant (`After`, `Grows`). From it
follow `TypeCorrect`, `NeverFails` (the assertions of the send queue and of
`retransmitOneSegment`), `NothingAckedUnreceived`, `NothingLostByClose` and
`NeverWithoutTimer`. `ImplementsByteStreams` is the refinement: SEND is a
`Write`, CLOSE a `Close`, and every other event reads some of one stream, perhaps
its end, or changes nothing the applications see.

Only model-checked: the liveness properties (`DelayedLeaves`,
`DatagramDelivered`, `ResolutionEnds`, `BecomesBound`, `Converges`,
`CloseCompletes`), which need fairness and are outside what the
proof system handles. `LoopFree` is false in general (`aodv_loop`
violates it without any fault) and is proved under the conditions above; in `aodv_faults`, where
a node may start in the middle of a flood, it is only model-checked.
`RREQNotMistaken` and `WaitsForFin` are violated by the code.

## Not modelled

In the modelled protocols: route lifetimes and the arithmetic on them (expiry is
nondeterministic); sequence number wrap-around, where AODV compares as unsigned
in some places and as int in others (`AODVRouting.cc:846`, `:912`); several
interfaces per host in ARP and DHCP; fragmentation, multicast and ICMP in IPv4; local repair (not
implemented in the code). RIP's static and default routes, requests for single
entries, and changes other modules make to the routing table and the set of
interfaces; `purgeRoute` erases from `ripRoutes` inside a range-based loop over it
(`RIPRouting.cc:664`, `:1030`), which is modelled by its intended effect. TCP's other flavours, SACK,
timestamps, window scaling, delayed ACKs, the persist timer, forking listeners, SEND in LISTEN,
and the lwIP and NSC wrappers.

One behaviour of RIP has no run of its own. `sendRoutes` skips a route that
`checkRouteIsExpired` has just invalidated (`RIPRouting.cc:665`), and `processUpdate` clears
its changed flag. The neighbours, who according to the comment on
`invalidateRoute` (line 995) are notified in the next update, hear nothing and wait for their own
timeout; `NeighboursAgree` leaves such routers out, and `Converges` includes them.

Two behaviours of TCP were met outside the runs. With commands in SYN_RCVD
(`early`) `NoInternalError` fails: a CLOSE in SYN_RCVD starts the REXMIT timer,
and if it expires before the SYN is acknowledged, `retransmitOneSegment` asks the
send queue for the SYN's sequence number. After a simultaneous open with data
already queued nothing sends the data: `established(false)` does not, and
`processAckInEstabEtc` skips `receivedDataAck` in SYN_RCVD
(`TCPConnectionRcvSegment.cc:1225`); the runs' simultaneous open has no data.

The rest of the repository is listed as `not_modelled` in `PROJECT.json`, with
reasons. INET has close to half a million lines in some forty subsystems; much of it is
continuous (radio, mobility, energy), generated (the packetdrill parser),
ported from elsewhere (`routing/extras`), configuration or statistics. The five
protocols here were chosen because their logic is discrete, their own, and
exposed to losses, restarts and races.

## Plan

Done: AODV, ARP with IPv4's queues, DHCP, RIP, TCP's connection; theorems about
each of them, the refinements of `NextHopChannel` and `ByteStream` included. Every
invariant of the passing runs is a theorem, some under the hypotheses named above. Next, most important first:

1. Proofs: which steps of AODV can fail to be `NeverWorse`, handler by handler;
   `ValidSeqNumFromDestination` with losses that no link-break signal reports (a
   reported one raises the number of a route beyond what its destination has issued).
2. TCP: the persist timer and a full receive window; TCPReno's recovery.
3. RIP: routes added and deleted by other modules; two destinations and
   `purgeRoute` in the loop over `ripRoutes`.
4. The 802.11 block acknowledgement reordering buffer, IGMPv2, STP.
