---------------------------- MODULE AODVRouting ----------------------------
(***************************************************************************)
(* The AODV routing protocol of INET: a network of hosts, each with an     *)
(* AODVRouting module hooked into its IPv4 module.  Every action is one    *)
(* event of the simulation, that is one whole handler: the arrival of a    *)
(* frame or of a datagram at IPv4, a self-message, a link-break signal or  *)
(* a lifecycle operation.                                                  *)
(*                                                                         *)
(* Time is abstracted: a scheduled timer may fire at any moment.  Frames   *)
(* in the air are a set, so they may overtake each other (the jitter of    *)
(* sendAODVPacket makes them do so).                                       *)
(***************************************************************************)
EXTENDS AODVRouteTable, FiniteSets

CONSTANTS
    Link,               \* pairs <<a, b>>: b hears what a transmits
    Flow,               \* datagrams the applications may send: [src, dst, id]
    NoTimer, Broadcast, Unspecified,
    TtlStart, TtlIncrement, TtlThreshold, NetDiameter, RreqRetries,
    RreqRatelimit, RerrRatelimit, AskGratuitousRREP, UseHelloMessages,
    UnicastTtl,         \* initial TTL of unicast datagrams (255, 100 or 32)
    SlowTimers,         \* TRUE: no timer fires while packets are in transit
    MaxRreqId,          \* bound: RREQs one node originates between reboots
    MaxLoss, MaxExpunge, MaxCrash, MaxHello     \* bounds: environment events

ASSUME LinkAssumption == Link \subseteq Node \X Node
ASSUME FlowAssumption ==
    /\ Flow \subseteq [src : Node, dst : Node, id : Nat]
    /\ \A fl \in Flow : fl.src # fl.dst
ASSUME AddressAssumption == Broadcast \notin Node /\ Unspecified \notin Node
ASSUME ParameterAssumption ==
    /\ {TtlStart, TtlIncrement, NetDiameter, UnicastTtl} \subseteq Nat \ {0}
    /\ {TtlThreshold, RreqRetries, RreqRatelimit, RerrRatelimit} \subseteq Nat
    /\ {MaxRreqId, MaxLoss, MaxExpunge, MaxCrash, MaxHello} \subseteq Nat
    /\ {AskGratuitousRREP, UseHelloMessages, SlowTimers} \subseteq BOOLEAN
ASSUME NoTimerAssumption == NoTimer \notin [lastTTL : Nat, scheduled : BOOLEAN]

VARIABLES
    isOperational,          \* the AODV module and its node are up
    rebooting,              \* less than DELETE_PERIOD since a restart
    sequenceNum, rreqId, rreqCount, rerrCount,
    routes,                 \* per node: its RouteTable
    rreqsArrivalTime,       \* per node: the RREQIdentifiers it remembers
    waitForRREPTimers,      \* per node and target: a timer or NoTimer
    addressToRreqRetries,
    delayedPackets,         \* targetAddressToDelayedPackets
    failedNextHop, rrepAckTimer, blacklist, blacklistTimer,
    ipOut,                  \* unicast datagrams on their way from AODV to IPv4
    air,                    \* frames being transmitted
    sent, delivered,        \* application datagrams handed over and received
    budget                  \* environment events that may still happen

counters  == <<sequenceNum, rreqId, rreqCount, rerrCount>>
discovery == <<rreqsArrivalTime, waitForRREPTimers, addressToRreqRetries, delayedPackets>>
ackVars   == <<failedNextHop, rrepAckTimer, blacklist, blacklistTimer>>
lifecycle == <<isOperational, rebooting>>
appVars   == <<sent, delivered>>
vars == <<lifecycle, counters, routes, discovery, ackVars, ipOut, air, appVars, budget>>

-----------------------------------------------------------------------------
(* Messages: AODVControlPackets.msg, and the IPv4 datagrams and frames that *)
(* carry them.                                                              *)

RREQ == [type : {"RREQ"}, unknownSeqNum : BOOLEAN, hopCount : Nat, rreqId : Nat,
         dest : Node, destSeqNum : Nat, orig : Node, origSeqNum : Nat]

RREP == [type : {"RREP"}, ack : BOOLEAN, hopCount : Nat, dest : Node, destSeqNum : Nat,
         orig : Node \cup {Unspecified}, origSeqNum : Nat]

RERR == [type : {"RERR"}, dests : SUBSET Node, seqNum : [Node -> Nat]]

RREPACK == [type : {"RREPACK"}]

Data == [type : {"DATA"}, flow : Flow]

Body == RREQ \cup RREP \cup RERR \cup RREPACK \cup Data

Datagram == [src : Node, dst : Node \cup {Broadcast}, ttl : Nat, body : Body]

(* IPv4 and sendAODVPacket let nothing onto the air with a TTL of zero.     *)
Frame == [from : Node, to : Node, dgram : {p \in Datagram : p.ttl > 0}]

Timer == [lastTTL : Nat, scheduled : BOOLEAN]

EnvironmentEvent == {"loss", "expunge", "crash", "hello"}

TypeOK ==
    /\ isOperational \in [Node -> BOOLEAN]
    /\ rebooting \in [Node -> BOOLEAN]
    /\ sequenceNum \in [Node -> Nat]
    /\ rreqId \in [Node -> Nat]
    /\ rreqCount \in [Node -> Nat]
    /\ rerrCount \in [Node -> Nat]
    /\ routes \in [Node -> RouteTable]
    /\ rreqsArrivalTime \in [Node -> SUBSET (Node \X Nat)]
    /\ waitForRREPTimers \in [Node -> [Node -> Timer \cup {NoTimer}]]
    /\ addressToRreqRetries \in [Node -> [Node -> Nat]]
    /\ delayedPackets \in [Node -> SUBSET Datagram]
    /\ failedNextHop \in [Node -> Node \cup {Unspecified}]
    /\ rrepAckTimer \in [Node -> BOOLEAN]
    /\ blacklist \in [Node -> SUBSET (Node \cup {Unspecified})]
    /\ blacklistTimer \in [Node -> BOOLEAN]
    /\ ipOut \subseteq Datagram
    /\ air \subseteq Frame
    /\ sent \subseteq Flow
    /\ delivered \subseteq Flow
    /\ budget \in [EnvironmentEvent -> Nat]

Init ==
    /\ isOperational = [n \in Node |-> TRUE]
    /\ rebooting = [n \in Node |-> FALSE]
    /\ sequenceNum = [n \in Node |-> 0]
    /\ rreqId = [n \in Node |-> 0]
    /\ rreqCount = [n \in Node |-> 0]
    /\ rerrCount = [n \in Node |-> 0]
    /\ routes = [n \in Node |-> EmptyTable]
    /\ rreqsArrivalTime = [n \in Node |-> {}]
    /\ waitForRREPTimers = [n \in Node |-> [d \in Node |-> NoTimer]]
    /\ addressToRreqRetries = [n \in Node |-> [d \in Node |-> 0]]
    /\ delayedPackets = [n \in Node |-> {}]
    /\ failedNextHop = [n \in Node |-> Unspecified]
    /\ rrepAckTimer = [n \in Node |-> FALSE]
    /\ blacklist = [n \in Node |-> {}]
    /\ blacklistTimer = [n \in Node |-> FALSE]
    /\ ipOut = {} /\ air = {} /\ sent = {} /\ delivered = {}
    /\ budget = [e \in EnvironmentEvent |->
                    CASE e = "loss" -> MaxLoss [] e = "expunge" -> MaxExpunge
                      [] e = "crash" -> MaxCrash [] e = "hello" -> MaxHello]

-----------------------------------------------------------------------------
(* Sending.  sendAODVPacket hands unicast packets to IPv4 (ipOut) and       *)
(* broadcasts to every node that hears the sender.                          *)

NewDatagram(src, dst, ttl, body) == [src |-> src, dst |-> dst, ttl |-> ttl, body |-> body]

BroadcastFrames(n, ttl, body) ==
    {[from |-> n, to |-> m, dgram |-> NewDatagram(n, Broadcast, ttl, body)] :
        m \in {k \in Node : <<n, k>> \in Link}}

UnicastControl(n, dst, body) == NewDatagram(n, dst, UnicastTtl, body)

(* IPv4's fragmentAndSend drops a datagram whose TTL has reached zero.      *)
UnicastFrame(n, nextHop, p) ==
    {[from |-> n, to |-> nextHop, dgram |-> q] : q \in {x \in {p} : x.ttl > 0}}

(***************************************************************************)
(* Route discovery: createRREQ and sendRREQ.  The request consumes a       *)
(* sequence number and a RREQ id even when the rate limit suppresses it;   *)
(* then no timer is started either.  rest is what else remains in the air, *)
(* timers the node's timers when sendRREQ is entered.                      *)
(***************************************************************************)
hasOngoingRouteDiscovery(n, d) == waitForRREPTimers[n][d] # NoTimer

createRREQ(n, d) ==
    LET r     == routes[n][d]
        known == HasRoute(routes[n], d) /\ r.validDestNum
    IN  [type |-> "RREQ", unknownSeqNum |-> ~known, hopCount |-> 0,
         rreqId |-> rreqId[n] + 1, dest |-> d,
         destSeqNum |-> IF known THEN r.destSeqNum ELSE 0,
         orig |-> n, origSeqNum |-> sequenceNum[n] + 1]

(* RREQIdentifierCompare orders the keys of rreqsArrivalTime by RREQ id     *)
(* alone: identifiers with equal ids are the same key, whoever originated   *)
(* them, and writing an existing key keeps the key that is there.           *)
RREQSeen(n, id) == \E k \in rreqsArrivalTime[n] : k[2] = id

RememberRREQ(n, orig, id) ==
    rreqsArrivalTime' = [rreqsArrivalTime EXCEPT ![n] =
        IF RREQSeen(n, id) THEN @ ELSE @ \cup {<<orig, id>>}]

(* Mutant: the ring never grows.                                            *)
SameTTL(timer) == IF timer = NoTimer THEN TtlStart ELSE timer.lastTTL

NextTTL(timer) ==
    IF timer = NoTimer THEN TtlStart
    ELSE IF timer.lastTTL + TtlIncrement < TtlThreshold
         THEN timer.lastTTL + TtlIncrement
         ELSE NetDiameter

OriginateRREQ(n, d, timers, rest) ==
    LET ttl == NextTTL(timers[d])
    IN  /\ rreqId[n] < MaxRreqId
        /\ sequenceNum' = [sequenceNum EXCEPT ![n] = @ + 1]
        /\ rreqId' = [rreqId EXCEPT ![n] = @ + 1]
        /\ RememberRREQ(n, n, rreqId[n] + 1)
        /\ IF rreqCount[n] >= RreqRatelimit
           THEN /\ waitForRREPTimers' = [waitForRREPTimers EXCEPT ![n] = timers]
                /\ air' = rest
                /\ UNCHANGED rreqCount
           ELSE /\ waitForRREPTimers' = [waitForRREPTimers EXCEPT ![n] =
                        [timers EXCEPT ![d] = [lastTTL |-> ttl, scheduled |-> TRUE]]]
                /\ air' = rest \cup BroadcastFrames(n, ttl, createRREQ(n, d))
                /\ rreqCount' = [rreqCount EXCEPT ![n] = @ + 1]

(***************************************************************************)
(* ensureRouteForDatagram for a datagram of the node's own.  With an       *)
(* active route IPv4 sends it to the next hop; otherwise it is delayed,    *)
(* and a route discovery starts unless one is under way.                   *)
(***************************************************************************)
RouteOut(n, p, rest) ==
    /\ IsActive(routes[n], p.dst)
    /\ air' = rest \cup UnicastFrame(n, routes[n][p.dst].nextHop, p)
    /\ UNCHANGED <<lifecycle, counters, routes, discovery, ackVars, budget>>

delayDatagram(n, p, rest) ==
    /\ ~IsActive(routes[n], p.dst)
    /\ delayedPackets' = [delayedPackets EXCEPT ![n] = @ \cup {p}]
    /\ IF hasOngoingRouteDiscovery(n, p.dst)
       THEN /\ air' = rest
            /\ UNCHANGED <<sequenceNum, rreqId, rreqCount, rreqsArrivalTime,
                           waitForRREPTimers, addressToRreqRetries>>
       ELSE /\ addressToRreqRetries' = [addressToRreqRetries EXCEPT ![n][p.dst] = 0]
            /\ OriginateRREQ(n, p.dst, waitForRREPTimers[n], rest)
    /\ UNCHANGED <<lifecycle, rerrCount, routes, ackVars, budget>>

ensureRouteForDatagram(n, p, rest) == RouteOut(n, p, rest) \/ delayDatagram(n, p, rest)

(* The application of fl.src sends a datagram: datagramLocalOutHook.        *)
AppSend(fl) ==
    /\ fl \in Flow \ sent
    /\ isOperational[fl.src]
    /\ sent' = sent \cup {fl}
    /\ ensureRouteForDatagram(fl.src,
           NewDatagram(fl.src, fl.dst, UnicastTtl, [type |-> "DATA", flow |-> fl]), air)
    /\ UNCHANGED <<ipOut, delivered>>

(* A unicast control packet reaches IPv4 and passes the same hook.          *)
IPLocalOut(p) ==
    /\ p \in ipOut
    /\ isOperational[p.src]
    /\ ipOut' = ipOut \ {p}
    /\ ensureRouteForDatagram(p.src, p, air)
    /\ UNCHANGED appVars

-----------------------------------------------------------------------------
(* Receiving.  A frame is consumed by its receiver; the datagram's TTL is   *)
(* decremented before anything looks at it.                                 *)

Arrives(n, f, type) ==
    /\ f \in air /\ f.to = n
    /\ <<f.from, n>> \in Link
    /\ isOperational[n]
    /\ f.dgram.dst \in {n, Broadcast}
    /\ f.dgram.body.type = type

SetRoutes(n, t) == routes' = [routes EXCEPT ![n] = t]

(***************************************************************************)
(* handleRREQ.  The previous hop gets a route whatever happens next,       *)
(* except when it is blacklisted.                                          *)
(***************************************************************************)
RREQIgnored(n, f) ==
    /\ Arrives(n, f, "RREQ")
    /\ f.dgram.src \in blacklist[n]
    /\ air' = air \ {f}
    /\ UNCHANGED <<lifecycle, counters, routes, discovery, ackVars, ipOut, appVars, budget>>

TableAfterPreviousHop(n, f) ==
    PreviousHopRoute(routes[n], f.dgram.src, f.dgram.body.origSeqNum)

RREQDuplicate(n, f) ==
    /\ Arrives(n, f, "RREQ")
    /\ f.dgram.src \notin blacklist[n]
    /\ RREQSeen(n, f.dgram.body.rreqId)
    /\ SetRoutes(n, TableAfterPreviousHop(n, f))
    /\ air' = air \ {f}
    /\ UNCHANGED <<lifecycle, counters, discovery, ackVars, ipOut, appVars, budget>>

FreshRREQ(n, f) ==
    /\ Arrives(n, f, "RREQ")
    /\ f.dgram.src \notin blacklist[n]
    /\ ~RREQSeen(n, f.dgram.body.rreqId)
    /\ RememberRREQ(n, f.dgram.body.orig, f.dgram.body.rreqId)
    /\ UNCHANGED <<waitForRREPTimers, addressToRreqRetries, delayedPackets>>

TableAfterRREQ(n, f) ==
    ReverseRoute(TableAfterPreviousHop(n, f), f.dgram.src, f.dgram.body)

(***************************************************************************)
(* sendRREP: the reply goes to the next hop of the reverse route.  When    *)
(* the originator itself is that neighbour the reply asks for a RREP-ACK,  *)
(* and the RREP-ACK timer is (re)started for it.                           *)
(***************************************************************************)
sendRREP(n, t, reply, others) ==
    LET r == t[reply.orig]
        isNeighbour == r.metric = 1
    IN  /\ SetRoutes(n, AddPrecursor(t, reply.orig))
        /\ failedNextHop' = [failedNextHop EXCEPT ![n] = IF isNeighbour THEN r.nextHop ELSE @]
        /\ rrepAckTimer' = [rrepAckTimer EXCEPT ![n] = @ \/ isNeighbour]
        /\ ipOut' = ipOut \cup others \cup
               {UnicastControl(n, r.nextHop, [reply EXCEPT !.ack = isNeighbour])}
        /\ UNCHANGED <<blacklist, blacklistTimer>>

(* createRREP and createGratuitousRREP *)
createRREP(q, hopCount, seqNum) ==
    [type |-> "RREP", ack |-> FALSE, hopCount |-> hopCount, dest |-> q.dest,
     destSeqNum |-> seqNum, orig |-> q.orig, origSeqNum |-> q.origSeqNum]

createGratuitousRREP(q, hopCount) ==
    [type |-> "RREP", ack |-> FALSE, hopCount |-> hopCount, dest |-> q.orig,
     destSeqNum |-> q.origSeqNum, orig |-> q.dest, origSeqNum |-> 0]

(* The requested destination answers; it raises its own sequence number     *)
(* when the request asks for exactly the next one.                          *)
RREQReplyAsDestination(n, f) ==
    LET q == f.dgram.body
        seq == IF ~q.unknownSeqNum /\ sequenceNum[n] + 1 = q.destSeqNum
               THEN sequenceNum[n] + 1 ELSE sequenceNum[n]
    IN  /\ FreshRREQ(n, f)
        /\ q.dest = n
        /\ sequenceNum' = [sequenceNum EXCEPT ![n] = seq]
        /\ sendRREP(n, TableAfterRREQ(n, f), createRREP(q, 0, seq), {})
        /\ air' = air \ {f}
        /\ UNCHANGED <<lifecycle, rreqId, rreqCount, rerrCount, appVars, budget>>

(* An intermediate node answers from its table, and tells the destination   *)
(* when gratuitous replies are on; a reply that would go back along the     *)
(* route it advertises is dropped with the request.                         *)
RREQReplyAsIntermediate(n, f) ==
    LET q == f.dgram.body
        t == TableAfterRREQ(n, f)
        r == t[q.dest]
        gratuitous == UnicastControl(n, r.nextHop, createGratuitousRREP(q, t[q.orig].metric))
    IN  /\ FreshRREQ(n, f)
        /\ q.dest # n
        /\ CanReply(t, q)
        /\ ~ReplyWouldLoop(t, q, f.dgram.src)
        /\ sendRREP(n, AddPrecursor(t, q.dest), createRREP(q, r.metric, r.destSeqNum),
                    IF AskGratuitousRREP THEN {gratuitous} ELSE {})
        /\ air' = air \ {f}
        /\ UNCHANGED <<lifecycle, counters, appVars, budget>>

RREQWouldLoop(n, f) ==
    LET t == TableAfterRREQ(n, f)
    IN  /\ FreshRREQ(n, f)
        /\ f.dgram.body.dest # n
        /\ CanReply(t, f.dgram.body)
        /\ ReplyWouldLoop(t, f.dgram.body, f.dgram.src)
        /\ SetRoutes(n, t)
        /\ air' = air \ {f}
        /\ UNCHANGED <<lifecycle, counters, ackVars, ipOut, appVars, budget>>

forwardRREQ(q, seqNum) ==
    [q EXCEPT !.hopCount = NewHopCount(q), !.destSeqNum = seqNum, !.unknownSeqNum = FALSE]

(* Everybody else floods the request on, with the larger of the two         *)
(* destination sequence numbers and without the U flag, while its TTL lasts *)
(* and the node is not recovering from a reboot.                            *)
RREQForward(n, f) ==
    LET q == f.dgram.body
        t == TableAfterRREQ(n, f)
        seq == IF HasRoute(t, q.dest) THEN Larger(t[q.dest].destSeqNum, q.destSeqNum)
                                      ELSE q.destSeqNum
        mayForward == f.dgram.ttl > 1 /\ ~rebooting[n]
    IN  /\ FreshRREQ(n, f)
        /\ q.dest # n
        /\ ~CanReply(t, q)
        /\ SetRoutes(n, t)
        /\ air' = (air \ {f}) \cup
               (IF mayForward THEN BroadcastFrames(n, f.dgram.ttl - 1, forwardRREQ(q, seq)) ELSE {})
        /\ UNCHANGED <<lifecycle, counters, ackVars, ipOut, appVars, budget>>

handleRREQ(n, f) ==
    \/ RREQIgnored(n, f)
    \/ RREQDuplicate(n, f)
    \/ RREQReplyAsDestination(n, f)
    \/ RREQReplyAsIntermediate(n, f)
    \/ RREQWouldLoop(n, f)
    \/ RREQForward(n, f)

(***************************************************************************)
(* handleRREP and handleHelloMessage.                                      *)
(***************************************************************************)
RREPHello(n, f) ==
    LET p == f.dgram.body
    IN  /\ Arrives(n, f, "RREP")
        /\ p.orig = Unspecified
        /\ SetRoutes(n, UpdateRoute(routes[n], p.dest, p.dest, 1, TRUE, p.destSeqNum))
        /\ air' = air \ {f}
        /\ UNCHANGED <<lifecycle, counters, discovery, ackVars, ipOut, appVars, budget>>

TableAfterRREP(n, f) ==
    ForwardRoute(TableAfterPreviousHop(n, f), f.dgram.src, f.dgram.body)

(* Mutant: the relaying node does not count itself.                         *)
forwardRREPUncounted(p) == [p EXCEPT !.ack = FALSE]

forwardRREP(p) == [p EXCEPT !.hopCount = NewHopCount(p), !.ack = FALSE]

(* A reply for another originator goes on along the reverse route, active   *)
(* or not, and even if it did not improve the forward route.                *)
RREPForward(n, f) ==
    LET p == f.dgram.body
        t == TableAfterRREP(n, f)
        toOrig == t[p.orig].nextHop
        acks == {UnicastControl(n, src, [type |-> "RREPACK"]) :
                    src \in {x \in {f.dgram.src} : p.ack}}
    IN  /\ Arrives(n, f, "RREP")
        /\ p.orig \in Node \ {n}
        /\ HasRoute(t, p.orig) /\ ~rebooting[n]
        /\ SetRoutes(n, AddPrecursor(AddPrecursor(t, p.dest), t[p.dest].nextHop))
        /\ ipOut' = ipOut \cup acks \cup {UnicastControl(n, toOrig, forwardRREP(p))}
        /\ air' = air \ {f}
        /\ UNCHANGED <<lifecycle, counters, discovery, ackVars, appVars, budget>>

RREPStops(n, f) ==
    LET p == f.dgram.body
        t == TableAfterRREP(n, f)
    IN  /\ Arrives(n, f, "RREP")
        /\ \/ p.orig \in Node \ {n} /\ (~HasRoute(t, p.orig) \/ rebooting[n])
           \/ p.orig = n /\ ~hasOngoingRouteDiscovery(n, p.dest)
        /\ SetRoutes(n, t)
        /\ air' = air \ {f}
        /\ UNCHANGED <<lifecycle, counters, discovery, ackVars, ipOut, appVars, budget>>

(* Mutant: the delayed datagrams are sent but not erased from the map.      *)
completeRouteDiscoveryKeeping(n, d, nextHop, rest) ==
    /\ air' = rest \cup
           UNION {UnicastFrame(n, nextHop, p) : p \in {x \in delayedPackets[n] : x.dst = d}}
    /\ waitForRREPTimers' = [waitForRREPTimers EXCEPT ![n][d] = NoTimer]
    /\ UNCHANGED <<rreqsArrivalTime, addressToRreqRetries, delayedPackets>>

(* The reply to a request of the node's own: the route is installed in any  *)
(* case, the discovery ends and IPv4 sends the delayed datagrams on it.     *)
completeRouteDiscovery(n, d, nextHop, rest) ==
    LET waiting == {p \in delayedPackets[n] : p.dst = d}
    IN  /\ air' = rest \cup UNION {UnicastFrame(n, nextHop, p) : p \in waiting}
        /\ delayedPackets' = [delayedPackets EXCEPT ![n] = @ \ waiting]
        /\ waitForRREPTimers' = [waitForRREPTimers EXCEPT ![n][d] = NoTimer]
        /\ UNCHANGED <<rreqsArrivalTime, addressToRreqRetries>>

RREPCompletes(n, f) ==
    LET p == f.dgram.body
        t == TableAfterRREP(n, f)
    IN  /\ Arrives(n, f, "RREP")
        /\ p.orig = n
        /\ hasOngoingRouteDiscovery(n, p.dest)
        /\ SetRoutes(n, UpdateRoute(t, p.dest, f.dgram.src, NewHopCount(p), TRUE, p.destSeqNum))
        /\ completeRouteDiscovery(n, p.dest, f.dgram.src, air \ {f})
        /\ UNCHANGED <<lifecycle, counters, ackVars, ipOut, appVars, budget>>

handleRREP(n, f) ==
    \/ RREPHello(n, f)
    \/ RREPForward(n, f)
    \/ RREPStops(n, f)
    \/ RREPCompletes(n, f)

(***************************************************************************)
(* Route errors.  A RERR is broadcast to the neighbours, at most           *)
(* RerrRatelimit times per counter period.                                 *)
(***************************************************************************)
broadcastRERR(n, dests, seqNum, rest) ==
    IF rerrCount[n] >= RerrRatelimit \/ dests = {}
    THEN air' = rest /\ UNCHANGED rerrCount
    ELSE /\ air' = rest \cup BroadcastFrames(n, 1,
                     [type |-> "RERR", dests |-> dests,
                      seqNum |-> [d \in Node |-> IF d \in dests THEN seqNum[d] ELSE 0]])
         /\ rerrCount' = [rerrCount EXCEPT ![n] = @ + 1]

TableSeqNum(t) == [d \in Node |-> IF HasRoute(t, d) THEN t[d].destSeqNum ELSE 0]

handleRERR(n, f) ==
    LET e == f.dgram.body
        hit == RoutesVia(routes[n], f.dgram.src) \cap e.dests
        passOn == {d \in hit : routes[n][d].hasPrecursor /\ ~rebooting[n]}
    IN  /\ Arrives(n, f, "RERR")
        /\ SetRoutes(n, ApplyRERR(routes[n], f.dgram.src, e))
        /\ broadcastRERR(n, passOn, e.seqNum, air \ {f})
        /\ UNCHANGED <<lifecycle, sequenceNum, rreqId, rreqCount, discovery, ackVars,
                       ipOut, appVars, budget>>

(***************************************************************************)
(* A unicast frame is not acknowledged at the link layer: NF_LINK_BREAK.   *)
(* The neighbour taken for lost is the next hop of the current route to    *)
(* the datagram's destination.                                             *)
(***************************************************************************)
Undeliverable(f) == <<f.from, f.to>> \notin Link \/ ~isOperational[f.to]

SpendUnless(cond, kind) ==
    \/ cond /\ UNCHANGED budget
    \/ ~cond /\ budget[kind] > 0 /\ budget' = [budget EXCEPT ![kind] = @ - 1]

handleLinkBreakSendRERR(n, u, rest) ==
    LET t == BreakLink(routes[n], u)
        dests == RoutesVia(routes[n], u) \cup {d \in {u} : IsActive(routes[n], d)}
    IN  IF HasRoute(routes[n], u)
        THEN SetRoutes(n, t) /\ broadcastRERR(n, dests, TableSeqNum(t), rest)
        ELSE air' = rest /\ UNCHANGED <<routes, rerrCount>>

LinkBreak(f) ==
    LET n == f.from
        d == f.dgram.dst
    IN  /\ f \in air
        /\ d # Broadcast
        /\ isOperational[n]
        /\ SpendUnless(Undeliverable(f), "loss")
        /\ IF HasRoute(routes[n], d)
           THEN handleLinkBreakSendRERR(n, routes[n][d].nextHop, air \ {f})
           ELSE air' = air \ {f} /\ UNCHANGED <<routes, rerrCount>>
        /\ UNCHANGED <<lifecycle, sequenceNum, rreqId, rreqCount, discovery, ackVars,
                       ipOut, appVars>>

(* A frame disappears: a broadcast nobody acknowledges, a frame whose       *)
(* sender has gone down meanwhile, or a unicast lost without a signal.      *)
FrameLost(f) ==
    /\ f \in air
    /\ SpendUnless(Undeliverable(f) /\ (f.dgram.dst = Broadcast \/ ~isOperational[f.from]),
                   "loss")
    /\ air' = air \ {f}
    /\ UNCHANGED <<lifecycle, counters, routes, discovery, ackVars, ipOut, appVars>>

(***************************************************************************)
(* IPv4 receives a datagram for somebody else: the pre-routing hook holds  *)
(* back the node's own datagrams as above, the forward hook complains      *)
(* about a missing or inactive route but accepts the datagram, and IPv4    *)
(* sends it to the next hop of the route, or, without an AODV route, over  *)
(* the subnet's own route straight to the destination.                     *)
(***************************************************************************)
Transit(n, f) ==
    /\ f \in air /\ f.to = n
    /\ <<f.from, n>> \in Link
    /\ isOperational[n]
    /\ f.dgram.dst \in Node \ {n}

Hop(p) == [p EXCEPT !.ttl = @ - 1]

(* The node's own datagram has come back in a loop.                         *)
DelayReturned(n, f) ==
    /\ Transit(n, f)
    /\ f.dgram.src = n
    /\ delayDatagram(n, Hop(f.dgram), air \ {f})
    /\ UNCHANGED <<ipOut, appVars>>

datagramForwardHook(n, f) ==
    LET d == f.dgram.dst
        known == HasRoute(routes[n], d)
        nextHop == IF known THEN routes[n][d].nextHop ELSE d
        t == IF known THEN PenaliseRoute(routes[n], d) ELSE routes[n]
        seqNum == [x \in Node |-> IF known /\ t[d].validDestNum THEN t[d].destSeqNum ELSE 0]
        rest == (air \ {f}) \cup UnicastFrame(n, nextHop, Hop(f.dgram))
    IN  /\ Transit(n, f)
        /\ IF IsActive(routes[n], d)
           THEN air' = rest /\ UNCHANGED <<routes, rerrCount>>
           ELSE /\ f.dgram.src # n
                /\ SetRoutes(n, t)
                /\ broadcastRERR(n, {d}, seqNum, rest)
        /\ UNCHANGED <<lifecycle, sequenceNum, rreqId, rreqCount, discovery, ackVars,
                       ipOut, appVars, budget>>

(* reassembleAndDeliver; reassembleAndDeliverFinish hands the packet up.    *)
DeliverData(n, f) ==
    /\ Arrives(n, f, "DATA")
    /\ delivered' = delivered \cup {f.dgram.body.flow}
    /\ air' = air \ {f}
    /\ UNCHANGED <<lifecycle, counters, routes, discovery, ackVars, ipOut, sent, budget>>

-----------------------------------------------------------------------------
(* Self-messages.                                                           *)

(* Timeouts take tens of milliseconds to seconds, a hop about one           *)
(* millisecond.  With SlowTimers none of them races a packet; without it    *)
(* the network may be arbitrarily slow.                                     *)
Patience == SlowTimers => air = {} /\ ipOut = {}

TimerMayFire(n) == isOperational[n] /\ Patience

(* handleWaitForRREP: another ring, or the discovery is given up and the    *)
(* delayed datagrams are dropped (cancelRouteDiscovery).                    *)
RetryRREQ(n, d) ==
    LET timer == waitForRREPTimers[n][d]
    IN  /\ addressToRreqRetries[n][d] # RreqRetries
        /\ addressToRreqRetries' = [addressToRreqRetries EXCEPT ![n][d] =
               IF timer.lastTTL = NetDiameter THEN @ + 1 ELSE @]
        /\ OriginateRREQ(n, d, [waitForRREPTimers[n] EXCEPT ![d].scheduled = FALSE], air)
        /\ UNCHANGED <<rerrCount, delayedPackets>>

(* Mutant: the datagrams of a discovery that is given up stay delayed.      *)
cancelRouteDiscoveryKeeping(n, d) ==
    /\ addressToRreqRetries[n][d] = RreqRetries
    /\ waitForRREPTimers' = [waitForRREPTimers EXCEPT ![n][d] = NoTimer]
    /\ UNCHANGED <<counters, rreqsArrivalTime, addressToRreqRetries, air, delayedPackets>>

cancelRouteDiscovery(n, d) ==
    /\ addressToRreqRetries[n][d] = RreqRetries
    /\ delayedPackets' = [delayedPackets EXCEPT ![n] = {p \in @ : p.dst # d}]
    /\ waitForRREPTimers' = [waitForRREPTimers EXCEPT ![n][d] = NoTimer]
    /\ UNCHANGED <<counters, rreqsArrivalTime, addressToRreqRetries, air>>

handleWaitForRREP(n, d) ==
    /\ TimerMayFire(n)
    /\ hasOngoingRouteDiscovery(n, d) /\ waitForRREPTimers[n][d].scheduled
    /\ RetryRREQ(n, d) \/ cancelRouteDiscovery(n, d)
    /\ UNCHANGED <<lifecycle, routes, ackVars, ipOut, appVars, budget>>

CounterTimer(n) ==
    /\ TimerMayFire(n)
    /\ rreqCount[n] + rerrCount[n] > 0
    /\ rreqCount' = [rreqCount EXCEPT ![n] = 0]
    /\ rerrCount' = [rerrCount EXCEPT ![n] = 0]
    /\ UNCHANGED <<lifecycle, sequenceNum, rreqId, routes, discovery, ackVars, ipOut, air,
                   appVars, budget>>

handleRREPACKTimer(n) ==
    /\ TimerMayFire(n)
    /\ rrepAckTimer[n]
    /\ rrepAckTimer' = [rrepAckTimer EXCEPT ![n] = FALSE]
    /\ blacklist' = [blacklist EXCEPT ![n] = @ \cup {failedNextHop[n]}]
    /\ blacklistTimer' = [blacklistTimer EXCEPT ![n] = TRUE]
    /\ UNCHANGED <<lifecycle, counters, routes, discovery, failedNextHop, ipOut, air,
                   appVars, budget>>

(* The entries whose time has come leave; the timer is set again for the    *)
(* others.                                                                  *)
handleBlackListTimer(n) ==
    /\ TimerMayFire(n)
    /\ blacklistTimer[n]
    /\ \E expired \in (SUBSET blacklist[n]) \ {{}} :
          /\ blacklist' = [blacklist EXCEPT ![n] = @ \ expired]
          /\ blacklistTimer' = [blacklistTimer EXCEPT ![n] = blacklist[n] # expired]
    /\ UNCHANGED <<lifecycle, counters, routes, discovery, failedNextHop, rrepAckTimer,
                   ipOut, air, appVars, budget>>

expungeRoutes(n, d) ==
    /\ TimerMayFire(n)
    /\ HasRoute(routes[n], d)
    /\ IsActive(routes[n], d) \/ ~hasOngoingRouteDiscovery(n, d)
    /\ SpendUnless(FALSE, "expunge")
    /\ SetRoutes(n, ExpungeRoute(routes[n], d))
    /\ UNCHANGED <<lifecycle, counters, discovery, ackVars, ipOut, air, appVars>>

(* PATH_DISCOVERY_TIME is twice the time a flood takes to die out.          *)
ForgetRREQ(n, k) ==
    /\ TimerMayFire(n)
    /\ k \in rreqsArrivalTime[n]
    /\ \A f \in air : ~(f.dgram.body.type = "RREQ" /\ f.dgram.body.rreqId = k[2])
    /\ SpendUnless(FALSE, "expunge")
    /\ rreqsArrivalTime' = [rreqsArrivalTime EXCEPT ![n] = @ \ {k}]
    /\ UNCHANGED <<lifecycle, counters, routes, waitForRREPTimers, addressToRreqRetries,
                   delayedPackets, ackVars, ipOut, air, appVars>>

sendHelloMessagesIfNeeded(n) ==
    /\ UseHelloMessages
    /\ TimerMayFire(n)
    /\ \E d \in Node : IsActive(routes[n], d)
    /\ SpendUnless(FALSE, "hello")
    /\ air' = air \cup BroadcastFrames(n, 1,
           [type |-> "RREP", ack |-> FALSE, hopCount |-> 0, dest |-> n,
            destSeqNum |-> sequenceNum[n], orig |-> Unspecified, origSeqNum |-> 0])
    /\ UNCHANGED <<lifecycle, counters, routes, discovery, ackVars, ipOut, appVars>>

-----------------------------------------------------------------------------
(* Lifecycle.  A node may stop and start again at any moment, with packets  *)
(* of its earlier life still in the air, even with SlowTimers.              *)

(* Mutant: the RREP-ACK timer keeps running while the node is down.         *)
CancelBlacklistTimer(n) ==
    /\ blacklistTimer' = [blacklistTimer EXCEPT ![n] = FALSE]
    /\ UNCHANGED rrepAckTimer

CancelAckTimers(n) ==
    /\ rrepAckTimer' = [rrepAckTimer EXCEPT ![n] = FALSE]
    /\ blacklistTimer' = [blacklistTimer EXCEPT ![n] = FALSE]

(* clearState, with the routing table and the datagrams IPv4 holds for the  *)
(* hook.  The blacklist survives, its timer does not.                       *)
clearState(n) ==
    /\ sequenceNum' = [sequenceNum EXCEPT ![n] = 0]
    /\ rreqId' = [rreqId EXCEPT ![n] = 0]
    /\ rreqCount' = [rreqCount EXCEPT ![n] = 0]
    /\ rerrCount' = [rerrCount EXCEPT ![n] = 0]
    /\ addressToRreqRetries' = [addressToRreqRetries EXCEPT ![n] = [d \in Node |-> 0]]
    /\ waitForRREPTimers' = [waitForRREPTimers EXCEPT ![n] = [d \in Node |-> NoTimer]]
    /\ delayedPackets' = [delayedPackets EXCEPT ![n] = {}]
    /\ rreqsArrivalTime' = [rreqsArrivalTime EXCEPT ![n] = {}]
    /\ CancelAckTimers(n)

Stop(n) ==
    /\ isOperational[n]
    /\ SpendUnless(FALSE, "crash")
    /\ isOperational' = [isOperational EXCEPT ![n] = FALSE]
    /\ clearState(n)
    /\ SetRoutes(n, EmptyTable)
    /\ UNCHANGED <<rebooting, failedNextHop, blacklist, ipOut, air, appVars>>

Start(n) ==
    /\ ~isOperational[n]
    /\ isOperational' = [isOperational EXCEPT ![n] = TRUE]
    /\ rebooting' = [rebooting EXCEPT ![n] = TRUE]
    /\ UNCHANGED <<counters, routes, discovery, ackVars, ipOut, air, appVars, budget>>

RebootCompleted(n) ==
    /\ isOperational[n] /\ rebooting[n]
    /\ rebooting' = [rebooting EXCEPT ![n] = FALSE]
    /\ UNCHANGED <<isOperational, counters, routes, discovery, ackVars, ipOut, air,
                   appVars, budget>>

(* A packet reaches the IPv4 module of a node that is down.                 *)
DropWhenDown(p) ==
    /\ p \in ipOut
    /\ ~isOperational[p.src]
    /\ ipOut' = ipOut \ {p}
    /\ UNCHANGED <<lifecycle, counters, routes, discovery, ackVars, air, appVars, budget>>

-----------------------------------------------------------------------------
Receive(n, f) ==
    \/ handleRREQ(n, f)
    \/ handleRREP(n, f)
    \/ handleRERR(n, f)
    \/ DelayReturned(n, f)
    \/ datagramForwardHook(n, f)
    \/ DeliverData(n, f)

SelfMessage(n) ==
    \/ \E d \in Node : handleWaitForRREP(n, d)
    \/ CounterTimer(n)
    \/ handleRREPACKTimer(n)
    \/ handleBlackListTimer(n)
    \/ \E d \in Node : expungeRoutes(n, d)
    \/ \E k \in rreqsArrivalTime[n] : ForgetRREQ(n, k)
    \/ sendHelloMessagesIfNeeded(n)

Next ==
    \/ \E fl \in Flow : AppSend(fl)
    \/ \E p \in ipOut : IPLocalOut(p) \/ DropWhenDown(p)
    \/ \E f \in air : Receive(f.to, f) \/ LinkBreak(f) \/ FrameLost(f)
    \/ \E n \in Node : SelfMessage(n) \/ Stop(n) \/ Start(n) \/ RebootCompleted(n)

Spec == Init /\ [][Next]_vars

(***************************************************************************)
(* Fairness: the simulation kernel executes every event that is scheduled. *)
(* A frame in the air is received, reported or lost, a packet handed to    *)
(* IPv4 is processed, a started timer fires, a reboot ends.  Applications, *)
(* route expiry, losses, crashes and restarts are owed nothing.            *)
(***************************************************************************)
Fairness ==
    /\ WF_vars(\E p \in ipOut : IPLocalOut(p) \/ DropWhenDown(p))
    /\ WF_vars(\E f \in air : Receive(f.to, f) \/ LinkBreak(f) \/ FrameLost(f))
    /\ \A n \in Node :
        /\ \A d \in Node : WF_vars(handleWaitForRREP(n, d))
        /\ WF_vars(CounterTimer(n))
        /\ WF_vars(handleRREPACKTimer(n))
        /\ WF_vars(handleBlackListTimer(n))
        /\ WF_vars(RebootCompleted(n))

FairSpec == Spec /\ Fairness

-----------------------------------------------------------------------------
(* Properties.                                                              *)

(* Every datagram that exists somewhere in the network.                     *)
InFlight == ipOut \cup {f.dgram : f \in air} \cup UNION {delayedPackets[n] : n \in Node}

(* What a single datagram claims about itself; see HopCountsHonest.         *)
Honest(p) ==
    /\ p.body.type = "RREQ" /\ (p.body.hopCount = 0 \/ p.body.unknownSeqNum)
          => p.src = p.body.orig
    /\ p.body.type = "RREP" /\ p.body.hopCount = 0 => p.src = p.body.dest
    /\ p.body.type = "RREP" /\ p.body.ack => p.dst = p.body.orig
    /\ p.body.type # "RREPACK"

(***************************************************************************)
(* Hop counts are honest: a RREQ with hop count 0 was sent by its          *)
(* originator and a RREP with hop count 0 by the node it leads to, so the  *)
(* receiver that derives metric 1 from it really is a neighbour.  So is    *)
(* the originator of a RREQ with the U flag, which handleRREQ takes for a  *)
(* reason to replace any reverse route, however new.  sendRREP asks for a  *)
(* RREP-ACK only of the originator itself; since handleRREP acknowledges   *)
(* only replies it relays, no RREP-ACK is ever sent, which is why          *)
(* handleRREPACK is not an action of Next.                                 *)
(***************************************************************************)
HopCountsHonest == \A p \in InFlight : Honest(p)

(***************************************************************************)
(* A route with metric 1 goes straight to its destination, and no route    *)
(* has metric 0: sendRREP takes metric 1 for "the originator is my         *)
(* neighbour" when it decides whom to blacklist.                           *)
(***************************************************************************)
NeighbourMetric == \A n \in Node : MetricsSound(routes[n])

(***************************************************************************)
(* A datagram waits in targetAddressToDelayedPackets only while the        *)
(* discovery of its destination has a scheduled WaitForRREP timer, so that *)
(* completeRouteDiscovery or cancelRouteDiscovery gets to it.              *)
(***************************************************************************)
DelayedHasTimer ==
    \A n \in Node : \A p \in delayedPackets[n] :
        hasOngoingRouteDiscovery(n, p.dst) /\ waitForRREPTimers[n][p.dst].scheduled

(***************************************************************************)
(* No timer of a stopped node is scheduled: handleMessage throws on a      *)
(* self-message while isOperational is false, so clearState must have      *)
(* cancelled every timer any handler may have started.                     *)
(***************************************************************************)
DownNodeHasNoTimer ==
    \A n \in Node : ~isOperational[n] =>
        /\ ~rrepAckTimer[n] /\ ~blacklistTimer[n]
        /\ \A d \in Node : ~hasOngoingRouteDiscovery(n, d)

(***************************************************************************)
(* A node with a blacklist has the timer that empties it, as the comment   *)
(* in handleBlackListTimer requires: "Nodes are removed from the blacklist *)
(* set after a BLACKLIST_TIMEOUT period".                                  *)
(***************************************************************************)
BlacklistHasTimer ==
    \A n \in Node : isOperational[n] /\ blacklist[n] # {} => blacklistTimer[n]

(***************************************************************************)
(* Without faults, a sequence number that a route calls valid was issued   *)
(* by the route's destination: no handler of createRREP, handleRREQ or     *)
(* handleRREP makes up a valid number, however late its packet is.         *)
(***************************************************************************)
ValidSeqNumFromDestination ==
    \A n \in Node : \A d \in Node :
        HasRoute(routes[n], d) /\ routes[n][d].validDestNum =>
            routes[n][d].destSeqNum <= sequenceNum[d]

(***************************************************************************)
(* The active routes towards a destination never form a cycle, which is    *)
(* what the sequence numbers are for (AODVRouting.h: "it helps to prevent  *)
(* loops in the routes").  handleRREQ and handleRREP decide it together,   *)
(* at several nodes and with information of different age.                 *)
(***************************************************************************)
NextHopOf(d) ==
    {e \in Node \X Node :
        e[1] # d /\ IsActive(routes[e[1]], d) /\ routes[e[1]][d].nextHop = e[2]}

LoopFree ==
    \A d \in Node : ~ \E S \in (SUBSET Node) \ {{}} :
        \A n \in S : \E m \in S : <<n, m>> \in NextHopOf(d)

(***************************************************************************)
(* An application datagram is in at most one place: on the air, delayed at *)
(* a node, or delivered.  completeRouteDiscovery must not leave behind     *)
(* what it reinjects, and no retry may send it again.                      *)
(***************************************************************************)
DatagramNotDuplicated ==
    \A fl \in Flow :
        LET OfFlow(p) == p.body.type = "DATA" /\ p.body.flow = fl
            copies == {f \in air : OfFlow(f.dgram)}
            held   == {n \in Node : \E p \in delayedPackets[n] : OfFlow(p)}
        IN  Cardinality(copies) + Cardinality(held)
                + (IF fl \in delivered THEN 1 ELSE 0) <= 1

(***************************************************************************)
(* A request that handleRREQ discards as a duplicate has been received     *)
(* before: the same originator, the same RREQ id (the comment there: "a    *)
(* RREQ with the same Originator IP Address and RREQ ID").                 *)
(***************************************************************************)
RREQNotMistaken ==
    [][\A f \in air : RREQDuplicate(f.to, f) =>
          <<f.dgram.body.orig, f.dgram.body.rreqId>> \in rreqsArrivalTime[f.to]]_vars

(***************************************************************************)
(* Liveness: whatever is lost, the datagrams delayed for a destination are *)
(* eventually sent or dropped; the expanding ring search ends.             *)
(***************************************************************************)
DelayedLeaves ==
    \A n \in Node : \A d \in Node :
        (\E p \in delayedPackets[n] : p.dst = d) ~> ~(\E p \in delayedPackets[n] : p.dst = d)

(***************************************************************************)
(* Liveness: unless the channel loses a frame, every datagram an           *)
(* application sends reaches its destination, through the ring search, the *)
(* reply's way back and the expiry of routes meanwhile.                    *)
(***************************************************************************)
DatagramDelivered ==
    \A fl \in Flow : fl \in sent ~> fl \in delivered \/ budget["loss"] < MaxLoss
=============================================================================
