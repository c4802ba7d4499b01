------------------------- MODULE AODVRouting_proofs -------------------------
(***************************************************************************)
(* Proofs about AODVRouting for every network, traffic and parameter:      *)
(* TypeOK, HopCountsHonest and NeighbourMetric, by one inductive invariant.*)
(* The last two need each other: a route gets metric 1 from a packet with  *)
(* hop count 0, and a reply's RREP-ACK flag and hop count come from the    *)
(* metrics of routes.                                                      *)
(***************************************************************************)
EXTENDS AODVRouting, AODVRouteTable_proofs

-----------------------------------------------------------------------------
(* The inductive invariant, one part per group of variables.                *)

GoodPackets(S) == \A p \in S : p \in Datagram /\ Honest(p)

GoodFrames(S) == \A f \in S : f \in Frame /\ Honest(f.dgram)

LifecycleOK == isOperational \in [Node -> BOOLEAN] /\ rebooting \in [Node -> BOOLEAN]

CountersOK ==
    /\ sequenceNum \in [Node -> Nat] /\ rreqId \in [Node -> Nat]
    /\ rreqCount \in [Node -> Nat] /\ rerrCount \in [Node -> Nat]

TablesOK == routes \in [Node -> RouteTable] /\ \A n \in Node : MetricsSound(routes[n])

DiscoveryOK ==
    /\ rreqsArrivalTime \in [Node -> SUBSET (Node \X Nat)]
    /\ waitForRREPTimers \in [Node -> [Node -> Timer \cup {NoTimer}]]
    /\ addressToRreqRetries \in [Node -> [Node -> Nat]]

DelayedOK ==
    /\ delayedPackets \in [Node -> SUBSET Datagram]
    /\ \A n \in Node : GoodPackets(delayedPackets[n])

AckOK ==
    /\ failedNextHop \in [Node -> Node \cup {Unspecified}]
    /\ rrepAckTimer \in [Node -> BOOLEAN]
    /\ blacklist \in [Node -> SUBSET (Node \cup {Unspecified})]
    /\ blacklistTimer \in [Node -> BOOLEAN]

(* What AODV hands to IPv4 through ipOut is unicast: dst # Broadcast.      *)
TrafficOK ==
    /\ GoodPackets(ipOut) /\ \A p \in ipOut : p.dst \in Node
    /\ GoodFrames(air)

AppOK == sent \subseteq Flow /\ delivered \subseteq Flow

BudgetOK == budget \in [EnvironmentEvent -> Nat]

IndInv ==
    /\ LifecycleOK /\ CountersOK /\ TablesOK /\ DiscoveryOK /\ DelayedOK
    /\ AckOK /\ TrafficOK /\ AppOK /\ BudgetOK

LEMMA IndInvImplies == IndInv => TypeOK /\ HopCountsHonest /\ NeighbourMetric
<1> SUFFICES ASSUME IndInv PROVE TypeOK /\ HopCountsHonest /\ NeighbourMetric
    OBVIOUS
<1>1. TypeOK
    BY DEF IndInv, LifecycleOK, CountersOK, TablesOK, DiscoveryOK, DelayedOK, AckOK,
           TrafficOK, AppOK, BudgetOK, TypeOK, GoodPackets, GoodFrames
<1>2. HopCountsHonest
    BY DEF IndInv, DelayedOK, TrafficOK, HopCountsHonest, InFlight, GoodPackets, GoodFrames
<1>3. NeighbourMetric
    BY DEF IndInv, TablesOK, NeighbourMetric
<1> QED
    BY <1>1, <1>2, <1>3

LEMMA InitIndInv == Init => IndInv
<1> SUFFICES ASSUME Init PROVE IndInv
    OBVIOUS
<1>1. TablesOK
    BY EmptyTableSound DEF Init, TablesOK
<1>2. BudgetOK
    BY ParameterAssumption DEF Init, BudgetOK, EnvironmentEvent
<1>3. DelayedOK /\ TrafficOK /\ AppOK
    BY DEF Init, DelayedOK, TrafficOK, AppOK, GoodPackets, GoodFrames
<1>4. LifecycleOK /\ CountersOK /\ DiscoveryOK /\ AckOK
    BY DEF Init, LifecycleOK, CountersOK, DiscoveryOK, AckOK
<1> QED
    BY <1>1, <1>2, <1>3, <1>4 DEF IndInv

-----------------------------------------------------------------------------
(* What stays put stays good.                                               *)

LEMMA Unchanged ==
    /\ LifecycleOK /\ UNCHANGED lifecycle => LifecycleOK'
    /\ CountersOK /\ UNCHANGED counters => CountersOK'
    /\ TablesOK /\ UNCHANGED routes => TablesOK'
    /\ DiscoveryOK /\ DelayedOK /\ UNCHANGED discovery => DiscoveryOK' /\ DelayedOK'
    /\ AckOK /\ UNCHANGED ackVars => AckOK'
    /\ AppOK /\ UNCHANGED appVars => AppOK'
    /\ BudgetOK /\ UNCHANGED budget => BudgetOK'
    /\ TrafficOK /\ UNCHANGED <<ipOut, air>> => TrafficOK'
<1>1. LifecycleOK /\ UNCHANGED lifecycle => LifecycleOK'
    BY DEF LifecycleOK, lifecycle
<1>2. CountersOK /\ UNCHANGED counters => CountersOK'
    BY DEF CountersOK, counters
<1>3. TablesOK /\ UNCHANGED routes => TablesOK'
    BY DEF TablesOK
<1>4. DiscoveryOK /\ DelayedOK /\ UNCHANGED discovery => DiscoveryOK' /\ DelayedOK'
    BY DEF DiscoveryOK, DelayedOK, discovery
<1>5. AckOK /\ UNCHANGED ackVars => AckOK'
    BY DEF AckOK, ackVars
<1>6. AppOK /\ UNCHANGED appVars => AppOK'
    BY DEF AppOK, appVars
<1>7. BudgetOK /\ UNCHANGED budget => BudgetOK'
    BY DEF BudgetOK
<1>8. TrafficOK /\ UNCHANGED <<ipOut, air>> => TrafficOK'
    BY DEF TrafficOK
<1> QED
    BY <1>1, <1>2, <1>3, <1>4, <1>5, <1>6, <1>7, <1>8

-----------------------------------------------------------------------------
(* Messages.                                                                *)

LEMMA BodyByType ==
    ASSUME NEW x \in Body
    PROVE  /\ x.type = "RREQ" => x \in RREQ
           /\ x.type = "RREP" => x \in RREP
           /\ x.type = "RERR" => x \in RERR
           /\ x.type = "DATA" => x \in Data
BY DEF Body, RREQ, RREP, RERR, RREPACK, Data

LEMMA FrameFields ==
    ASSUME NEW f \in Frame
    PROVE  /\ f.from \in Node /\ f.to \in Node /\ f.dgram \in Datagram
           /\ f.dgram.src \in Node /\ f.dgram.dst \in Node \cup {Broadcast}
           /\ f.dgram.ttl \in Nat /\ f.dgram.ttl > 0 /\ f.dgram.body \in Body
BY DEF Frame, Datagram

LEMMA NewDatagramGood ==
    ASSUME NEW n \in Node, NEW dst \in Node \cup {Broadcast}, NEW ttl \in Nat,
           NEW x \in Body
    PROVE  /\ NewDatagram(n, dst, ttl, x) \in Datagram
           /\ NewDatagram(n, dst, ttl, x).src = n
           /\ NewDatagram(n, dst, ttl, x).dst = dst
           /\ NewDatagram(n, dst, ttl, x).ttl = ttl
           /\ NewDatagram(n, dst, ttl, x).body = x
BY DEF NewDatagram, Datagram

LEMMA BroadcastFramesGood ==
    ASSUME NEW n \in Node, NEW ttl \in Nat, ttl > 0, NEW x \in Body,
           Honest(NewDatagram(n, Broadcast, ttl, x))
    PROVE  GoodFrames(BroadcastFrames(n, ttl, x))
<1> DEFINE p == NewDatagram(n, Broadcast, ttl, x)
<1>1. p \in Datagram /\ p.ttl > 0
    BY NewDatagramGood
<1> HIDE DEF p
<1>2. \A m \in Node : [from |-> n, to |-> m, dgram |-> p] \in Frame
    BY <1>1 DEF Frame
<1>3. ASSUME NEW f \in BroadcastFrames(n, ttl, x) PROVE f \in Frame /\ Honest(f.dgram)
  <2>1. PICK m \in Node : f = [from |-> n, to |-> m, dgram |-> p]
      BY DEF BroadcastFrames, p
  <2>2. f.dgram = p /\ Honest(p)
      BY <2>1 DEF p
  <2> QED
      BY <1>2, <2>1, <2>2
<1> QED
    BY <1>3 DEF GoodFrames

LEMMA UnicastFrameGood ==
    ASSUME NEW n \in Node, NEW nh \in Node, NEW p \in Datagram, Honest(p)
    PROVE  GoodFrames(UnicastFrame(n, nh, p))
BY DEF GoodFrames, UnicastFrame, Frame, Datagram

LEMMA GoodFramesUnion ==
    ASSUME NEW S, NEW T, GoodFrames(S), GoodFrames(T) PROVE GoodFrames(S \cup T)
BY DEF GoodFrames

LEMMA GoodFramesRemove == ASSUME NEW S, GoodFrames(S), NEW f PROVE GoodFrames(S \ {f})
BY DEF GoodFrames

LEMMA GoodPacketsUnion ==
    ASSUME NEW S, NEW T, GoodPackets(S), GoodPackets(T) PROVE GoodPackets(S \cup T)
BY DEF GoodPackets

LEMMA HopGood ==
    ASSUME NEW f \in Frame, Honest(f.dgram)
    PROVE  Hop(f.dgram) \in Datagram /\ Honest(Hop(f.dgram)) /\ Hop(f.dgram).dst = f.dgram.dst
BY DEF Frame, Datagram, Hop, Honest
-----------------------------------------------------------------------------
(* Route discovery.                                                         *)

LEMMA SetRoutesGood ==
    ASSUME TablesOK, NEW n \in Node, NEW t \in RouteTable, MetricsSound(t), SetRoutes(n, t)
    PROVE  TablesOK'
<1>1. routes' = [routes EXCEPT ![n] = t]
    BY DEF SetRoutes
<1>2. routes' \in [Node -> RouteTable]
    BY <1>1 DEF TablesOK
<1>3. \A m \in Node : routes'[m] = IF m = n THEN t ELSE routes[m]
    BY <1>1 DEF TablesOK
<1> QED
    BY <1>2, <1>3 DEF TablesOK

LEMMA NestedUpdate ==
    ASSUME NEW T, NEW F \in [Node -> [Node -> T]], NEW n \in Node, NEW d \in Node, NEW v \in T
    PROVE  [F EXCEPT ![n][d] = v] \in [Node -> [Node -> T]]
<1>1. F[n] \in [Node -> T]
    OBVIOUS
<1>2. [F[n] EXCEPT ![d] = v] \in [Node -> T]
    BY <1>1
<1> QED
    BY <1>2

LEMMA TableOfNode ==
    ASSUME TablesOK, NEW n \in Node
    PROVE  /\ routes[n] \in RouteTable /\ MetricsSound(routes[n])
           /\ \A d \in Node : HasRoute(routes[n], d) => routes[n][d] \in Route
BY DEF TablesOK, RouteTable, HasRoute

LEMMA createRREQGood ==
    ASSUME TablesOK, CountersOK, NEW n \in Node, NEW d \in Node
    PROVE  /\ createRREQ(n, d) \in RREQ /\ createRREQ(n, d).orig = n
           /\ createRREQ(n, d).type = "RREQ"
<1> DEFINE known == HasRoute(routes[n], d) /\ routes[n][d].validDestNum
           s == IF known THEN routes[n][d].destSeqNum ELSE 0
<1>1. s \in Nat
    BY TableOfNode DEF Route
<1>2. (~known) \in BOOLEAN
    OBVIOUS
<1>3. rreqId[n] + 1 \in Nat /\ sequenceNum[n] + 1 \in Nat
    BY DEF CountersOK
<1>4. createRREQ(n, d) =
        [type |-> "RREQ", unknownSeqNum |-> ~known, hopCount |-> 0,
         rreqId |-> rreqId[n] + 1, dest |-> d, destSeqNum |-> s,
         orig |-> n, origSeqNum |-> sequenceNum[n] + 1]
    BY DEF createRREQ
<1> HIDE DEF known, s
<1> QED
    BY <1>1, <1>2, <1>3, <1>4 DEF RREQ

LEMMA RememberRREQGood ==
    ASSUME DiscoveryOK, NEW n \in Node, NEW o \in Node, NEW id \in Nat, RememberRREQ(n, o, id)
    PROVE  rreqsArrivalTime' \in [Node -> SUBSET (Node \X Nat)]
BY DEF DiscoveryOK, RememberRREQ

LEMMA NextTTLType ==
    ASSUME NEW x \in Timer \cup {NoTimer} PROVE NextTTL(x) \in Nat /\ NextTTL(x) > 0
BY ParameterAssumption DEF Timer, NextTTL

LEMMA OriginateRREQGood ==
    ASSUME TablesOK, CountersOK, DiscoveryOK, NEW n \in Node, NEW d \in Node,
           NEW timers \in [Node -> Timer \cup {NoTimer}], NEW rest, GoodFrames(rest),
           OriginateRREQ(n, d, timers, rest)
    PROVE  /\ sequenceNum' \in [Node -> Nat] /\ rreqId' \in [Node -> Nat]
           /\ rreqCount' \in [Node -> Nat]
           /\ rreqsArrivalTime' \in [Node -> SUBSET (Node \X Nat)]
           /\ waitForRREPTimers' \in [Node -> [Node -> Timer \cup {NoTimer}]]
           /\ GoodFrames(air')
<1> DEFINE ttl == NextTTL(timers[d])
           q == createRREQ(n, d)
<1>1. ttl \in Nat /\ ttl > 0
    BY NextTTLType
<1>2. q \in Body /\ Honest(NewDatagram(n, Broadcast, ttl, q))
  <2>1. q \in RREQ /\ q.orig = n /\ q.type = "RREQ"
      BY createRREQGood
  <2>2. q \in Body
      BY <2>1 DEF Body
  <2> HIDE DEF q, ttl
  <2>3. /\ NewDatagram(n, Broadcast, ttl, q).body = q
        /\ NewDatagram(n, Broadcast, ttl, q).src = n
      BY DEF NewDatagram
  <2> QED
      BY <2>1, <2>2, <2>3 DEF Honest
<1>3. GoodFrames(BroadcastFrames(n, ttl, q))
    BY <1>1, <1>2, BroadcastFramesGood
<1>4. GoodFrames(air')
  <2>1. air' = rest \/ air' = rest \cup BroadcastFrames(n, ttl, q)
      BY DEF OriginateRREQ
  <2> HIDE DEF q, ttl
  <2> QED
      BY <1>3, <2>1, GoodFramesUnion
<1>5. sequenceNum' \in [Node -> Nat] /\ rreqId' \in [Node -> Nat] /\ rreqCount' \in [Node -> Nat]
    BY DEF OriginateRREQ, CountersOK
<1>6. rreqsArrivalTime' \in [Node -> SUBSET (Node \X Nat)]
  <2>1. RememberRREQ(n, n, rreqId[n] + 1) /\ rreqId[n] + 1 \in Nat
      BY DEF OriginateRREQ, CountersOK
  <2> QED
      BY <2>1, RememberRREQGood
<1>7. waitForRREPTimers' \in [Node -> [Node -> Timer \cup {NoTimer}]]
  <2>1. [lastTTL |-> ttl, scheduled |-> TRUE] \in Timer
      BY <1>1 DEF Timer
  <2>2. \/ waitForRREPTimers' = [waitForRREPTimers EXCEPT ![n] = timers]
        \/ waitForRREPTimers' = [waitForRREPTimers EXCEPT ![n] =
                        [timers EXCEPT ![d] = [lastTTL |-> ttl, scheduled |-> TRUE]]]
      BY DEF OriginateRREQ
  <2> HIDE DEF ttl
  <2>3. [timers EXCEPT ![d] = [lastTTL |-> ttl, scheduled |-> TRUE]]
            \in [Node -> Timer \cup {NoTimer}]
      BY <2>1
  <2> QED
      BY <2>2, <2>3 DEF DiscoveryOK
<1> QED
    BY <1>4, <1>5, <1>6, <1>7

(* ensureRouteForDatagram leaves ipOut and the application's sets to its    *)
(* caller; everything else stays good.                                      *)
EnsureOK == LifecycleOK /\ CountersOK /\ TablesOK /\ DiscoveryOK /\ DelayedOK /\ AckOK /\ BudgetOK

LEMMA RouteOutGood ==
    ASSUME IndInv, NEW n \in Node, NEW p \in Datagram, Honest(p), p.dst \in Node,
           NEW rest, GoodFrames(rest), RouteOut(n, p, rest)
    PROVE  EnsureOK' /\ GoodFrames(air')
<1>1. EnsureOK'
    BY Unchanged DEF IndInv, EnsureOK, RouteOut
<1>2. routes[n][p.dst].nextHop \in Node
    BY TableOfNode DEF IndInv, RouteOut, IsActive, Route
<1>3. GoodFrames(UnicastFrame(n, routes[n][p.dst].nextHop, p))
    BY <1>2, UnicastFrameGood
<1> QED
    BY <1>1, <1>3, GoodFramesUnion DEF RouteOut

LEMMA delayDatagramGood ==
    ASSUME IndInv, NEW n \in Node, NEW p \in Datagram, Honest(p), p.dst \in Node,
           NEW rest, GoodFrames(rest), delayDatagram(n, p, rest)
    PROVE  EnsureOK' /\ GoodFrames(air')
<1> USE DEF IndInv
<1>1. LifecycleOK' /\ AckOK' /\ BudgetOK' /\ TablesOK'
    BY Unchanged DEF delayDatagram
<1>2. DelayedOK'
  <2>1. delayedPackets' = [delayedPackets EXCEPT ![n] = @ \cup {p}]
      BY DEF delayDatagram
  <2>2. delayedPackets' \in [Node -> SUBSET Datagram]
      BY <2>1 DEF DelayedOK
  <2>3. \A m \in Node : delayedPackets'[m] = IF m = n THEN delayedPackets[n] \cup {p}
                                                       ELSE delayedPackets[m]
      BY <2>1 DEF DelayedOK
  <2> QED
      BY <2>2, <2>3 DEF DelayedOK, GoodPackets
<1>3. CASE hasOngoingRouteDiscovery(n, p.dst)
    BY <1>1, <1>2, <1>3 DEF delayDatagram, EnsureOK, CountersOK, DiscoveryOK
<1>4. CASE ~hasOngoingRouteDiscovery(n, p.dst)
  <2>1. OriginateRREQ(n, p.dst, waitForRREPTimers[n], rest)
      BY <1>4 DEF delayDatagram
  <2>2. waitForRREPTimers[n] \in [Node -> Timer \cup {NoTimer}]
      BY DEF DiscoveryOK
  <2>3. addressToRreqRetries' \in [Node -> [Node -> Nat]]
    <3>1. addressToRreqRetries' = [addressToRreqRetries EXCEPT ![n][p.dst] = 0]
        BY <1>4 DEF delayDatagram
    <3> QED
        BY <3>1, NestedUpdate DEF DiscoveryOK
  <2>4. rerrCount' \in [Node -> Nat]
      BY DEF delayDatagram, CountersOK
  <2> QED
      BY <1>1, <1>2, <2>1, <2>2, <2>3, <2>4, OriginateRREQGood
         DEF EnsureOK, CountersOK, DiscoveryOK
<1> QED
    BY <1>3, <1>4

LEMMA ensureRouteForDatagramGood ==
    ASSUME IndInv, NEW n \in Node, NEW p \in Datagram, Honest(p), p.dst \in Node,
           NEW rest, GoodFrames(rest), ensureRouteForDatagram(n, p, rest)
    PROVE  EnsureOK' /\ GoodFrames(air')
BY RouteOutGood, delayDatagramGood DEF ensureRouteForDatagram

LEMMA AppSendGood == ASSUME IndInv, NEW fl \in Flow, AppSend(fl) PROVE IndInv'
<1> DEFINE x == [type |-> "DATA", flow |-> fl]
           p == NewDatagram(fl.src, fl.dst, UnicastTtl, x)
<1>1. fl.src \in Node /\ fl.dst \in Node /\ UnicastTtl \in Nat
    BY FlowAssumption, ParameterAssumption
<1>2. x \in Body /\ x.type = "DATA"
    BY DEF Body, Data
<1> HIDE DEF x
<1>3. p \in Datagram /\ p.dst = fl.dst /\ p.body = x
    BY <1>1, <1>2, NewDatagramGood
<1> HIDE DEF p
<1>4. Honest(p)
    BY <1>2, <1>3 DEF Honest
<1>5. ensureRouteForDatagram(fl.src, p, air) /\ UNCHANGED <<ipOut, delivered>>
    BY DEF AppSend, p, x
<1>6. EnsureOK' /\ GoodFrames(air')
    BY <1>1, <1>3, <1>4, <1>5, ensureRouteForDatagramGood DEF IndInv, TrafficOK
<1>7. AppOK'
    BY <1>5 DEF AppSend, AppOK, IndInv
<1> QED
    BY <1>5, <1>6, <1>7 DEF IndInv, EnsureOK, TrafficOK

LEMMA IPLocalOutGood ==
    ASSUME IndInv, NEW p \in ipOut, IPLocalOut(p) PROVE IndInv'
<1>1. p \in Datagram /\ Honest(p) /\ p.src \in Node /\ p.dst \in Node
    BY DEF IndInv, TrafficOK, GoodPackets, Datagram
<1>2. EnsureOK' /\ GoodFrames(air')
    BY <1>1, ensureRouteForDatagramGood DEF IPLocalOut, IndInv, TrafficOK
<1>3. GoodPackets(ipOut') /\ \A x \in ipOut' : x.dst \in Node
    BY DEF IPLocalOut, IndInv, TrafficOK, GoodPackets
<1>4. AppOK'
    BY Unchanged DEF IPLocalOut, IndInv
<1> QED
    BY <1>2, <1>3, <1>4 DEF IndInv, EnsureOK, TrafficOK
-----------------------------------------------------------------------------
(* Receiving a request.                                                     *)

GoodUnicast(S) == GoodPackets(S) /\ \A p \in S : p.dst \in Node

LEMMA GoodUnicastUnion ==
    ASSUME NEW S, NEW T, GoodUnicast(S), GoodUnicast(T) PROVE GoodUnicast(S \cup T)
BY DEF GoodUnicast, GoodPackets

LEMMA TrafficParts == TrafficOK <=> GoodUnicast(ipOut) /\ GoodFrames(air)
BY DEF TrafficOK, GoodUnicast

LEMMA TrafficPartsNext == TrafficOK' <=> GoodUnicast(ipOut') /\ GoodFrames(air')
BY DEF TrafficOK, GoodUnicast

LEMMA UnicastControlGood ==
    ASSUME NEW n \in Node, NEW dst \in Node, NEW x \in RREP,
           x.hopCount = 0 => n = x.dest, x.ack => dst = x.orig
    PROVE  GoodUnicast({UnicastControl(n, dst, x)})
<1> DEFINE p == UnicastControl(n, dst, x)
<1>1. x \in Body /\ UnicastTtl \in Nat /\ x.type = "RREP"
    BY ParameterAssumption DEF Body, RREP
<1>2. p \in Datagram /\ p.src = n /\ p.dst = dst /\ p.body = x
    BY <1>1, NewDatagramGood DEF UnicastControl
<1> HIDE DEF p
<1>3. Honest(p)
    BY <1>1, <1>2 DEF Honest
<1>4. p.dst \in Node
    BY <1>2
<1> QED
    BY <1>2, <1>3, <1>4 DEF GoodUnicast, GoodPackets, p

LEMMA AirFrame ==
    ASSUME IndInv, NEW f \in air
    PROVE  /\ f \in Frame /\ Honest(f.dgram) /\ GoodFrames(air \ {f})
           /\ f.to \in Node /\ f.from \in Node /\ f.dgram \in Datagram
           /\ f.dgram.src \in Node /\ f.dgram.body \in Body
           /\ f.dgram.ttl \in Nat /\ f.dgram.ttl > 0
BY FrameFields, GoodFramesRemove DEF IndInv, TrafficOK, GoodFrames

LEMMA RREQFrame ==
    ASSUME IndInv, NEW n \in Node, NEW f \in air, Arrives(n, f, "RREQ")
    PROVE  /\ f.dgram.body \in RREQ /\ RequestLike(f.dgram.body)
           /\ f.dgram.body.hopCount = 0 => f.dgram.src = f.dgram.body.orig
           /\ TableAfterPreviousHop(n, f) \in RouteTable
           /\ MetricsSound(TableAfterPreviousHop(n, f))
           /\ TableAfterRREQ(n, f) \in RouteTable
           /\ MetricsSound(TableAfterRREQ(n, f))
           /\ HasRoute(TableAfterRREQ(n, f), f.dgram.body.orig)
<1> DEFINE q == f.dgram.body
           t == TableAfterPreviousHop(n, f)
<1>1. q \in RREQ /\ q.type = "RREQ"
    BY AirFrame, BodyByType DEF Arrives
<1>2. RequestLike(q) /\ q.origSeqNum \in Nat
    BY <1>1 DEF RREQ, RequestLike
<1>3. q.hopCount = 0 => f.dgram.src = q.orig
    BY <1>1, AirFrame DEF Honest
<1>4. t \in RouteTable /\ MetricsSound(t)
    BY <1>2, AirFrame, TableOfNode, PreviousHopRouteSound DEF IndInv, TableAfterPreviousHop
<1>5. /\ ReverseRoute(t, f.dgram.src, q) \in RouteTable
      /\ MetricsSound(ReverseRoute(t, f.dgram.src, q))
      /\ HasRoute(ReverseRoute(t, f.dgram.src, q), q.orig)
  <2>1. f.dgram.src \in Node
      BY AirFrame
  <2> HIDE DEF q, t
  <2> QED
      BY <1>2, <1>3, <1>4, <2>1, ReverseRouteSound
<1> QED
    BY <1>1, <1>2, <1>3, <1>4, <1>5 DEF TableAfterRREQ

LEMMA FreshRREQGood ==
    ASSUME IndInv, NEW n \in Node, NEW f \in air, FreshRREQ(n, f)
    PROVE  /\ Arrives(n, f, "RREQ") /\ DiscoveryOK' /\ DelayedOK'
<1>1. Arrives(n, f, "RREQ") /\ RememberRREQ(n, f.dgram.body.orig, f.dgram.body.rreqId)
    BY DEF FreshRREQ
<1>2. f.dgram.body.orig \in Node /\ f.dgram.body.rreqId \in Nat
    BY <1>1, RREQFrame DEF RREQ
<1>3. rreqsArrivalTime' \in [Node -> SUBSET (Node \X Nat)]
    BY <1>1, <1>2, RememberRREQGood DEF IndInv
<1> QED
    BY <1>1, <1>3 DEF FreshRREQ, IndInv, DiscoveryOK, DelayedOK

LEMMA sendRREPGood ==
    ASSUME TablesOK, AckOK, TrafficOK, NEW n \in Node, NEW t \in RouteTable, MetricsSound(t),
           NEW reply \in RREP, reply.orig \in Node, HasRoute(t, reply.orig),
           reply.hopCount = 0 => n = reply.dest,
           NEW others, GoodUnicast(others), sendRREP(n, t, reply, others)
    PROVE  TablesOK' /\ AckOK' /\ GoodUnicast(ipOut')
<1> DEFINE r == t[reply.orig]
           x == [reply EXCEPT !.ack = (r.metric = 1)]
<1>1. r \in Route /\ r.nextHop \in Node /\ (r.metric = 1 => r.nextHop = reply.orig)
    BY DEF RouteTable, HasRoute, MetricsSound, Route
<1>2. x \in RREP /\ x.hopCount = reply.hopCount /\ x.dest = reply.dest /\ x.orig = reply.orig
      /\ (x.ack => r.metric = 1)
    BY DEF RREP
<1>3. GoodUnicast({UnicastControl(n, r.nextHop, x)})
  <2> HIDE DEF r, x
  <2> QED
      BY <1>1, <1>2, UnicastControlGood
<1>4. ipOut' = ipOut \cup others \cup {UnicastControl(n, r.nextHop, x)}
    BY DEF sendRREP
<1>5. GoodUnicast(ipOut')
  <2>1. GoodUnicast(ipOut)
      BY TrafficParts
  <2> HIDE DEF r, x
  <2> QED
      BY <1>3, <1>4, <2>1, GoodUnicastUnion
<1>6. TablesOK'
    BY AddPrecursorSound, SetRoutesGood DEF sendRREP
<1>7. AckOK'
  <2>1. failedNextHop' \in [Node -> Node \cup {Unspecified}]
      BY <1>1 DEF sendRREP, AckOK
  <2>2. rrepAckTimer' \in [Node -> BOOLEAN]
      BY DEF sendRREP, AckOK
  <2> QED
      BY <2>1, <2>2 DEF sendRREP, AckOK
<1> QED
    BY <1>5, <1>6, <1>7

LEMMA createRREPType ==
    \A q \in RREQ : \A h, s \in Nat :
        /\ createRREP(q, h, s) \in RREP
        /\ createRREP(q, h, s).hopCount = h /\ createRREP(q, h, s).dest = q.dest
        /\ createRREP(q, h, s).orig = q.orig
BY DEF createRREP, RREQ, RREP

LEMMA createGratuitousRREPType ==
    \A q \in RREQ : \A h \in Nat :
        /\ createGratuitousRREP(q, h) \in RREP
        /\ createGratuitousRREP(q, h).hopCount = h
        /\ createGratuitousRREP(q, h).ack = FALSE
BY DEF createGratuitousRREP, RREQ, RREP

LEMMA forwardRREQType ==
    ASSUME NEW q \in RREQ, NEW s \in Nat
    PROVE  /\ forwardRREQ(q, s) \in RREQ /\ forwardRREQ(q, s).type = "RREQ"
           /\ forwardRREQ(q, s).hopCount # 0 /\ forwardRREQ(q, s).unknownSeqNum = FALSE
<1>1. NewHopCount(q) \in Nat /\ NewHopCount(q) # 0
    BY DEF NewHopCount, RREQ
<1> QED
    BY <1>1 DEF forwardRREQ, RREQ

LEMMA RREQIgnoredGood ==
    ASSUME IndInv, NEW n \in Node, NEW f \in air, RREQIgnored(n, f) PROVE IndInv'
<1>1. GoodFrames(air') /\ GoodUnicast(ipOut')
    BY AirFrame, TrafficParts DEF RREQIgnored, IndInv
<1> QED
    BY <1>1, Unchanged, TrafficPartsNext DEF RREQIgnored, IndInv

LEMMA RREQDuplicateGood ==
    ASSUME IndInv, NEW n \in Node, NEW f \in air, RREQDuplicate(n, f) PROVE IndInv'
<1>1. GoodFrames(air') /\ GoodUnicast(ipOut')
    BY AirFrame, TrafficParts DEF RREQDuplicate, IndInv
<1>2. TablesOK'
    BY RREQFrame, SetRoutesGood DEF RREQDuplicate, IndInv
<1> QED
    BY <1>1, <1>2, Unchanged, TrafficPartsNext DEF RREQDuplicate, IndInv

LEMMA RREQReplyAsDestinationGood ==
    ASSUME IndInv, NEW n \in Node, NEW f \in air, RREQReplyAsDestination(n, f) PROVE IndInv'
<1> DEFINE q == f.dgram.body
           seq == IF ~q.unknownSeqNum /\ sequenceNum[n] + 1 = q.destSeqNum
                  THEN sequenceNum[n] + 1 ELSE sequenceNum[n]
           t == TableAfterRREQ(n, f)
<1>1. FreshRREQ(n, f) /\ q.dest = n
    BY DEF RREQReplyAsDestination
<1>2. DiscoveryOK' /\ DelayedOK' /\ Arrives(n, f, "RREQ")
    BY <1>1, FreshRREQGood
<1>3. /\ q \in RREQ /\ q.orig \in Node
      /\ t \in RouteTable /\ MetricsSound(t) /\ HasRoute(t, q.orig)
    BY <1>2, RREQFrame DEF RREQ
<1>4. seq \in Nat
    BY DEF IndInv, CountersOK
<1>5. sendRREP(n, t, createRREP(q, 0, seq), {}) /\ air' = air \ {f}
    BY DEF RREQReplyAsDestination
<1>6. CountersOK'
    BY <1>4 DEF RREQReplyAsDestination, IndInv, CountersOK
<1>7. TablesOK' /\ AckOK' /\ GoodUnicast(ipOut')
  <2>1. GoodUnicast({})
      BY DEF GoodUnicast, GoodPackets
  <2> DEFINE x == createRREP(q, 0, seq)
  <2> HIDE DEF q, seq, t
  <2>2. x \in RREP /\ x.dest = q.dest /\ x.orig = q.orig
      BY <1>3, <1>4, createRREPType
  <2>3. sendRREP(n, t, x, {})
      BY <1>5
  <2> HIDE DEF x
  <2> QED
      BY <1>1, <1>3, <2>1, <2>2, <2>3, sendRREPGood DEF IndInv
<1>8. GoodFrames(air')
    BY <1>5, AirFrame
<1>9. LifecycleOK' /\ AppOK' /\ BudgetOK'
    BY Unchanged DEF RREQReplyAsDestination, IndInv
<1> QED
    BY <1>2, <1>6, <1>7, <1>8, <1>9, TrafficPartsNext DEF IndInv

LEMMA RREQReplyAsIntermediateGood ==
    ASSUME IndInv, NEW n \in Node, NEW f \in air, RREQReplyAsIntermediate(n, f) PROVE IndInv'
<1> DEFINE q == f.dgram.body
           t == TableAfterRREQ(n, f)
           r == t[q.dest]
           g == UnicastControl(n, r.nextHop, createGratuitousRREP(q, t[q.orig].metric))
           others == IF AskGratuitousRREP THEN {g} ELSE {}
<1>1. FreshRREQ(n, f) /\ CanReply(t, q)
    BY DEF RREQReplyAsIntermediate
<1>2. DiscoveryOK' /\ DelayedOK' /\ Arrives(n, f, "RREQ")
    BY <1>1, FreshRREQGood
<1>3. /\ q \in RREQ /\ q.orig \in Node /\ q.dest \in Node
      /\ t \in RouteTable /\ MetricsSound(t) /\ HasRoute(t, q.orig)
    BY <1>2, RREQFrame DEF RREQ
<1>4. sendRREP(n, AddPrecursor(t, q.dest), createRREP(q, r.metric, r.destSeqNum), others)
      /\ air' = air \ {f}
    BY DEF RREQReplyAsIntermediate
<1> HIDE DEF q, t
<1>5. /\ r.metric \in Nat /\ r.metric >= 1 /\ r.destSeqNum \in Nat /\ r.nextHop \in Node
      /\ t[q.orig].metric \in Nat /\ t[q.orig].metric >= 1
    BY <1>1, <1>3 DEF CanReply, IsActive, HasRoute, RouteTable, Route, MetricsSound
<1>6. GoodUnicast({g})
  <2> DEFINE x == createGratuitousRREP(q, t[q.orig].metric)
  <2>1. x \in RREP /\ x.hopCount = t[q.orig].metric /\ x.ack = FALSE
      BY <1>3, <1>5, createGratuitousRREPType
  <2>2. x.hopCount # 0
      BY <1>5, <2>1
  <2> HIDE DEF x
  <2> QED
      BY <1>5, <2>1, <2>2, UnicastControlGood DEF x
<1>7. GoodUnicast(others)
    BY <1>6 DEF GoodUnicast, GoodPackets
<1> HIDE DEF others, r
<1>8. TablesOK' /\ AckOK' /\ GoodUnicast(ipOut')
  <2> DEFINE x == createRREP(q, r.metric, r.destSeqNum)
             u == AddPrecursor(t, q.dest)
  <2>1. x \in RREP /\ x.hopCount = r.metric /\ x.orig = q.orig
      BY <1>3, <1>5, createRREPType
  <2>2. u \in RouteTable /\ MetricsSound(u) /\ HasRoute(u, q.orig)
      BY <1>3, AddPrecursorSound
  <2>3. r.metric # 0
      BY <1>5
  <2>4. sendRREP(n, u, x, others)
      BY <1>4
  <2> HIDE DEF x, u
  <2> QED
      BY <1>3, <1>7, <2>1, <2>2, <2>3, <2>4, sendRREPGood DEF IndInv
<1>9. GoodFrames(air')
    BY <1>4, AirFrame
<1>10. LifecycleOK' /\ CountersOK' /\ AppOK' /\ BudgetOK'
    BY Unchanged DEF RREQReplyAsIntermediate, IndInv
<1> QED
    BY <1>2, <1>8, <1>9, <1>10, TrafficPartsNext DEF IndInv

LEMMA RREQWouldLoopGood ==
    ASSUME IndInv, NEW n \in Node, NEW f \in air, RREQWouldLoop(n, f) PROVE IndInv'
<1>1. DiscoveryOK' /\ DelayedOK' /\ Arrives(n, f, "RREQ")
    BY FreshRREQGood DEF RREQWouldLoop
<1>2. TablesOK'
    BY <1>1, RREQFrame, SetRoutesGood DEF RREQWouldLoop, IndInv
<1>3. GoodFrames(air') /\ GoodUnicast(ipOut')
    BY AirFrame, TrafficParts DEF RREQWouldLoop, IndInv
<1> QED
    BY <1>1, <1>2, <1>3, Unchanged, TrafficPartsNext DEF RREQWouldLoop, IndInv

LEMMA RREQForwardGood ==
    ASSUME IndInv, NEW n \in Node, NEW f \in air, RREQForward(n, f) PROVE IndInv'
<1> DEFINE q == f.dgram.body
           t == TableAfterRREQ(n, f)
           seq == IF HasRoute(t, q.dest) THEN Larger(t[q.dest].destSeqNum, q.destSeqNum)
                                         ELSE q.destSeqNum
           x == forwardRREQ(q, seq)
           ttl == f.dgram.ttl - 1
<1>1. DiscoveryOK' /\ DelayedOK' /\ Arrives(n, f, "RREQ")
    BY FreshRREQGood DEF RREQForward
<1>2. /\ q \in RREQ /\ q.dest \in Node /\ q.destSeqNum \in Nat
      /\ t \in RouteTable /\ MetricsSound(t)
    BY <1>1, RREQFrame DEF RREQ
<1>3. SetRoutes(n, t)
      /\ air' = (air \ {f}) \cup (IF f.dgram.ttl > 1 /\ ~rebooting[n]
                                  THEN BroadcastFrames(n, ttl, x) ELSE {})
    BY DEF RREQForward
<1>4. TablesOK'
    BY <1>2, <1>3, SetRoutesGood DEF IndInv
<1> HIDE DEF q, t
<1>5. seq \in Nat
    BY <1>2, LargerType DEF HasRoute, RouteTable, Route
<1> HIDE DEF seq
<1>6. x \in RREQ /\ x.hopCount # 0 /\ x.unknownSeqNum = FALSE /\ x.type = "RREQ"
    BY <1>2, <1>5, forwardRREQType
<1> HIDE DEF x
<1>7. ASSUME f.dgram.ttl > 1 PROVE GoodFrames(BroadcastFrames(n, ttl, x))
  <2>1. ttl \in Nat /\ ttl > 0
    <3>1. f.dgram.ttl \in Nat
        BY AirFrame
    <3> QED
        BY <1>7, <3>1
  <2>2. x \in Body
      BY <1>6 DEF Body
  <2> HIDE DEF ttl
  <2>3. Honest(NewDatagram(n, Broadcast, ttl, x))
      BY <1>6 DEF NewDatagram, Honest
  <2> QED
      BY <2>1, <2>2, <2>3, BroadcastFramesGood
<1>8. GoodFrames(air')
  <2>1. GoodFrames(air \ {f}) /\ GoodFrames({})
      BY AirFrame DEF GoodFrames
  <2> HIDE DEF ttl
  <2> QED
      BY <1>3, <1>7, <2>1, GoodFramesUnion
<1>9. LifecycleOK' /\ CountersOK' /\ AckOK' /\ AppOK' /\ BudgetOK' /\ GoodUnicast(ipOut')
    BY Unchanged, TrafficParts DEF RREQForward, IndInv
<1> QED
    BY <1>1, <1>4, <1>8, <1>9, TrafficPartsNext DEF IndInv

LEMMA handleRREQGood ==
    ASSUME IndInv, NEW n \in Node, NEW f \in air, handleRREQ(n, f) PROVE IndInv'
BY RREQIgnoredGood, RREQDuplicateGood, RREQReplyAsDestinationGood,
   RREQReplyAsIntermediateGood, RREQWouldLoopGood, RREQForwardGood DEF handleRREQ
-----------------------------------------------------------------------------
(* Receiving a reply.                                                       *)

LEMMA RREPFrame ==
    ASSUME IndInv, NEW n \in Node, NEW f \in air, Arrives(n, f, "RREP")
    PROVE  /\ f.dgram.body \in RREP
           /\ f.dgram.body.ack => f.dgram.dst = f.dgram.body.orig
           /\ f.dgram.body.hopCount = 0 => f.dgram.src = f.dgram.body.dest
           /\ TableAfterRREP(n, f) \in RouteTable
           /\ MetricsSound(TableAfterRREP(n, f))
           /\ HasRoute(TableAfterRREP(n, f), f.dgram.body.dest)
<1> DEFINE p == f.dgram.body
           t == TableAfterPreviousHop(n, f)
<1>1. p \in RREP /\ p.type = "RREP"
    BY AirFrame, BodyByType DEF Arrives
<1>2. ReplyLike(p) /\ p.origSeqNum \in Nat
    BY <1>1 DEF RREP, ReplyLike
<1>3. (p.hopCount = 0 => f.dgram.src = p.dest) /\ (p.ack => f.dgram.dst = p.orig)
    BY <1>1, AirFrame DEF Honest
<1>4. t \in RouteTable /\ MetricsSound(t)
    BY <1>2, AirFrame, TableOfNode, PreviousHopRouteSound DEF IndInv, TableAfterPreviousHop
<1>5. /\ ForwardRoute(t, f.dgram.src, p) \in RouteTable
      /\ MetricsSound(ForwardRoute(t, f.dgram.src, p))
      /\ HasRoute(ForwardRoute(t, f.dgram.src, p), p.dest)
  <2>1. f.dgram.src \in Node
      BY AirFrame
  <2> HIDE DEF p, t
  <2> QED
      BY <1>2, <1>3, <1>4, <2>1, ForwardRouteSound
<1> QED
    BY <1>1, <1>3, <1>5 DEF TableAfterRREP

LEMMA RREPHelloGood ==
    ASSUME IndInv, NEW n \in Node, NEW f \in air, RREPHello(n, f) PROVE IndInv'
<1> DEFINE p == f.dgram.body
           u == UpdateRoute(routes[n], p.dest, p.dest, 1, TRUE, p.destSeqNum)
<1>1. p.dest \in Node /\ p.destSeqNum \in Nat
    BY RREPFrame DEF RREPHello, RREP
<1>2. routes[n] \in RouteTable /\ MetricsSound(routes[n])
    BY TableOfNode DEF IndInv
<1>3. 1 \in Nat /\ 1 >= 1 /\ TRUE \in BOOLEAN
    OBVIOUS
<1>4. u \in RouteTable
    BY <1>1, <1>2, <1>3, UpdateRouteType
<1>5. MetricsSound(u)
    BY <1>1, <1>2, <1>3, UpdateRouteSound
<1>6. SetRoutes(n, u)
    BY DEF RREPHello
<1> HIDE DEF u
<1>7. TablesOK'
    BY <1>4, <1>5, <1>6, SetRoutesGood DEF IndInv
<1>8. GoodFrames(air') /\ GoodUnicast(ipOut')
    BY AirFrame, TrafficParts DEF RREPHello, IndInv
<1> QED
    BY <1>7, <1>8, Unchanged, TrafficPartsNext DEF RREPHello, IndInv

LEMMA forwardRREPType ==
    \A p \in RREP : /\ forwardRREP(p) \in RREP /\ forwardRREP(p).hopCount # 0
                    /\ forwardRREP(p).ack = FALSE
<1> SUFFICES ASSUME NEW p \in RREP
             PROVE  /\ forwardRREP(p) \in RREP /\ forwardRREP(p).hopCount # 0
                    /\ forwardRREP(p).ack = FALSE
    OBVIOUS
<1>1. NewHopCount(p) \in Nat /\ NewHopCount(p) # 0
    BY DEF NewHopCount, RREP
<1> QED
    BY <1>1 DEF forwardRREP, RREP

(* The honesty of the reply shows that no RREP-ACK is due here. *)
LEMMA RREPForwardGood ==
    ASSUME IndInv, NEW n \in Node, NEW f \in air, RREPForward(n, f) PROVE IndInv'
<1> DEFINE p == f.dgram.body
           t == TableAfterRREP(n, f)
           x == forwardRREP(p)
           acks == {UnicastControl(n, src, [type |-> "RREPACK"]) :
                        src \in {y \in {f.dgram.src} : p.ack}}
           u == AddPrecursor(t, p.dest)
           nh == t[p.dest].nextHop
<1>1. /\ p \in RREP /\ t \in RouteTable /\ MetricsSound(t) /\ HasRoute(t, p.dest)
      /\ p.ack => f.dgram.dst = p.orig
    BY RREPFrame DEF RREPForward
<1>2. p.orig \in Node \ {n} /\ HasRoute(t, p.orig) /\ f.dgram.dst \in {n, Broadcast}
    BY DEF RREPForward, Arrives
<1>3. ~p.ack
    BY <1>1, <1>2, AddressAssumption
<1>4. /\ SetRoutes(n, AddPrecursor(u, nh)) /\ air' = air \ {f}
      /\ ipOut' = ipOut \cup acks \cup {UnicastControl(n, t[p.orig].nextHop, x)}
    BY DEF RREPForward
<1>5. acks = {}
    BY <1>3
<1> HIDE DEF p, t, acks
<1>6. p.dest \in Node
    BY <1>1 DEF RREP
<1>7. nh \in Node /\ t[p.orig].nextHop \in Node
    BY <1>1, <1>2, <1>6 DEF HasRoute, RouteTable, Route
<1>8. u \in RouteTable /\ MetricsSound(u)
    BY <1>1, <1>6, AddPrecursorSound
<1> HIDE DEF u, nh
<1>9. TablesOK'
    BY <1>4, <1>7, <1>8, AddPrecursorSound, SetRoutesGood DEF IndInv
<1>10. x \in RREP /\ x.hopCount # 0 /\ x.ack = FALSE
    BY <1>1, forwardRREPType
<1> HIDE DEF x
<1>11. GoodUnicast({UnicastControl(n, t[p.orig].nextHop, x)})
    BY <1>7, <1>10, UnicastControlGood
<1>12. GoodUnicast(ipOut')
  <2>1. GoodUnicast(ipOut)
      BY TrafficParts DEF IndInv
  <2> QED
      BY <1>4, <1>5, <1>11, <2>1, GoodUnicastUnion
<1>13. GoodFrames(air')
    BY <1>4, AirFrame
<1> QED
    BY <1>9, <1>12, <1>13, Unchanged, TrafficPartsNext DEF RREPForward, IndInv

LEMMA RREPStopsGood ==
    ASSUME IndInv, NEW n \in Node, NEW f \in air, RREPStops(n, f) PROVE IndInv'
<1>1. TablesOK'
    BY RREPFrame, SetRoutesGood DEF RREPStops, IndInv
<1>2. GoodFrames(air') /\ GoodUnicast(ipOut')
    BY AirFrame, TrafficParts DEF RREPStops, IndInv
<1> QED
    BY <1>1, <1>2, Unchanged, TrafficPartsNext DEF RREPStops, IndInv

LEMMA completeRouteDiscoveryGood ==
    ASSUME IndInv, NEW n \in Node, NEW d \in Node, NEW nh \in Node, NEW rest, GoodFrames(rest),
           completeRouteDiscovery(n, d, nh, rest)
    PROVE  DiscoveryOK' /\ DelayedOK' /\ GoodFrames(air')
<1> DEFINE waiting == {p \in delayedPackets[n] : p.dst = d}
<1>1. \A p \in waiting : p \in Datagram /\ Honest(p)
    BY DEF IndInv, DelayedOK, GoodPackets
<1>2. GoodFrames(UNION {UnicastFrame(n, nh, p) : p \in waiting})
  <2>1. \A p \in waiting : GoodFrames(UnicastFrame(n, nh, p))
      BY <1>1, UnicastFrameGood
  <2> HIDE DEF waiting
  <2> QED
      BY <2>1 DEF GoodFrames
<1>3. air' = rest \cup UNION {UnicastFrame(n, nh, p) : p \in waiting}
    BY DEF completeRouteDiscovery
<1>4. GoodFrames(air')
  <2> HIDE DEF waiting
  <2> QED
      BY <1>2, <1>3, GoodFramesUnion
<1>5. DelayedOK'
  <2>1. delayedPackets' = [delayedPackets EXCEPT ![n] = @ \ waiting]
      BY DEF completeRouteDiscovery
  <2> HIDE DEF waiting
  <2>2. delayedPackets' \in [Node -> SUBSET Datagram]
      BY <2>1 DEF IndInv, DelayedOK
  <2>3. \A m \in Node : delayedPackets'[m] \subseteq delayedPackets[m]
      BY <2>1 DEF IndInv, DelayedOK
  <2> QED
      BY <2>2, <2>3 DEF IndInv, DelayedOK, GoodPackets
<1>6. DiscoveryOK'
  <2>1. waitForRREPTimers' = [waitForRREPTimers EXCEPT ![n][d] = NoTimer]
      BY DEF completeRouteDiscovery
  <2>2. waitForRREPTimers' \in [Node -> [Node -> Timer \cup {NoTimer}]]
      BY <2>1, NestedUpdate DEF IndInv, DiscoveryOK
  <2> QED
      BY <2>2 DEF completeRouteDiscovery, IndInv, DiscoveryOK
<1> QED
    BY <1>4, <1>5, <1>6

LEMMA RREPCompletesGood ==
    ASSUME IndInv, NEW n \in Node, NEW f \in air, RREPCompletes(n, f) PROVE IndInv'
<1> DEFINE p == f.dgram.body
           t == TableAfterRREP(n, f)
           u == UpdateRoute(t, p.dest, f.dgram.src, NewHopCount(p), TRUE, p.destSeqNum)
<1>1. /\ p \in RREP /\ t \in RouteTable /\ MetricsSound(t)
      /\ p.hopCount = 0 => f.dgram.src = p.dest
    BY RREPFrame DEF RREPCompletes
<1>2. f.dgram.src \in Node /\ GoodFrames(air \ {f})
    BY AirFrame
<1>3. SetRoutes(n, u) /\ completeRouteDiscovery(n, p.dest, f.dgram.src, air \ {f})
    BY DEF RREPCompletes
<1> HIDE DEF p, t
<1>4. p.dest \in Node /\ p.destSeqNum \in Nat /\ p.hopCount \in Nat
    BY <1>1 DEF RREP
<1>5. /\ NewHopCount(p) \in Nat /\ NewHopCount(p) >= 1
      /\ NewHopCount(p) = 1 => f.dgram.src = p.dest
    BY <1>1, <1>4 DEF NewHopCount
<1>6. u \in RouteTable /\ MetricsSound(u)
    BY <1>1, <1>2, <1>4, <1>5, UpdateRouteType, UpdateRouteSound
<1> HIDE DEF u
<1>7. TablesOK'
    BY <1>3, <1>6, SetRoutesGood DEF IndInv
<1>8. DiscoveryOK' /\ DelayedOK' /\ GoodFrames(air')
    BY <1>2, <1>3, <1>4, completeRouteDiscoveryGood
<1>9. GoodUnicast(ipOut')
    BY TrafficParts DEF RREPCompletes, IndInv
<1> QED
    BY <1>7, <1>8, <1>9, Unchanged, TrafficPartsNext DEF RREPCompletes, IndInv

LEMMA handleRREPGood ==
    ASSUME IndInv, NEW n \in Node, NEW f \in air, handleRREP(n, f) PROVE IndInv'
BY RREPHelloGood, RREPForwardGood, RREPStopsGood, RREPCompletesGood DEF handleRREP
-----------------------------------------------------------------------------
(* Route errors, link breaks and forwarding.                                *)

LEMMA broadcastRERRGood ==
    ASSUME CountersOK, NEW n \in Node, NEW dests \in SUBSET Node, NEW sn \in [Node -> Nat],
           NEW rest, GoodFrames(rest), broadcastRERR(n, dests, sn, rest)
    PROVE  rerrCount' \in [Node -> Nat] /\ GoodFrames(air')
<1> DEFINE s == [d \in Node |-> IF d \in dests THEN sn[d] ELSE 0]
           x == [type |-> "RERR", dests |-> dests, seqNum |-> s]
<1>1. s \in [Node -> Nat]
    OBVIOUS
<1> HIDE DEF s
<1>2. x \in Body /\ x.type = "RERR"
    BY <1>1 DEF Body, RERR
<1>3. \/ air' = rest
      \/ air' = rest \cup BroadcastFrames(n, 1, x)
    BY DEF broadcastRERR, s
<1> HIDE DEF x
<1>4. Honest(NewDatagram(n, Broadcast, 1, x))
    BY <1>2 DEF NewDatagram, Honest
<1>5. GoodFrames(BroadcastFrames(n, 1, x))
  <2>1. 1 \in Nat /\ 1 > 0
      OBVIOUS
  <2> QED
      BY <1>2, <1>4, <2>1, BroadcastFramesGood
<1>6. GoodFrames(air')
    BY <1>3, <1>5, GoodFramesUnion
<1>7. rerrCount' \in [Node -> Nat]
    BY DEF broadcastRERR, CountersOK
<1> QED
    BY <1>6, <1>7

LEMMA handleRERRGood ==
    ASSUME IndInv, NEW n \in Node, NEW f \in air, handleRERR(n, f) PROVE IndInv'
<1> DEFINE e == f.dgram.body
           passOn == {d \in RoutesVia(routes[n], f.dgram.src) \cap e.dests :
                         routes[n][d].hasPrecursor /\ ~rebooting[n]}
           u == ApplyRERR(routes[n], f.dgram.src, e)
<1>1. e.seqNum \in [Node -> Nat]
    BY AirFrame, BodyByType DEF handleRERR, Arrives, RERR
<1>2. passOn \in SUBSET Node
    BY DEF RoutesVia
<1>3. f.dgram.src \in Node /\ GoodFrames(air \ {f})
    BY AirFrame
<1>4. SetRoutes(n, u) /\ broadcastRERR(n, passOn, e.seqNum, air \ {f})
    BY DEF handleRERR
<1> HIDE DEF e, passOn
<1>5. u \in RouteTable /\ MetricsSound(u)
    BY <1>1, <1>3, TableOfNode, ApplyRERRSound DEF IndInv
<1> HIDE DEF u
<1>6. TablesOK'
    BY <1>4, <1>5, SetRoutesGood DEF IndInv
<1>7. rerrCount' \in [Node -> Nat] /\ GoodFrames(air')
    BY <1>1, <1>2, <1>3, <1>4, broadcastRERRGood DEF IndInv
<1>8. CountersOK'
    BY <1>7 DEF handleRERR, IndInv, CountersOK
<1>9. GoodUnicast(ipOut')
    BY TrafficParts DEF handleRERR, IndInv
<1> QED
    BY <1>6, <1>7, <1>8, <1>9, Unchanged, TrafficPartsNext DEF handleRERR, IndInv

LEMMA SpendUnlessGood ==
    ASSUME BudgetOK, NEW c \in BOOLEAN, NEW k \in EnvironmentEvent, SpendUnless(c, k)
    PROVE  BudgetOK'
<1>1. CASE UNCHANGED budget
    BY <1>1 DEF BudgetOK
<1>2. CASE budget[k] > 0 /\ budget' = [budget EXCEPT ![k] = @ - 1]
  <2>1. budget[k] - 1 \in Nat
      BY <1>2 DEF BudgetOK
  <2> QED
      BY <1>2, <2>1 DEF BudgetOK
<1> QED
    BY <1>1, <1>2 DEF SpendUnless

LEMMA TableSeqNumType == ASSUME NEW t \in RouteTable PROVE TableSeqNum(t) \in [Node -> Nat]
BY DEF TableSeqNum, RouteTable, Route, HasRoute

LEMMA handleLinkBreakGood ==
    ASSUME IndInv, NEW n \in Node, NEW u \in Node, NEW rest, GoodFrames(rest),
           handleLinkBreakSendRERR(n, u, rest)
    PROVE  TablesOK' /\ rerrCount' \in [Node -> Nat] /\ GoodFrames(air')
<1> DEFINE t == BreakLink(routes[n], u)
           dests == RoutesVia(routes[n], u) \cup {d \in {u} : IsActive(routes[n], d)}
<1>1. CASE ~HasRoute(routes[n], u)
    BY <1>1, Unchanged DEF handleLinkBreakSendRERR, IndInv, CountersOK
<1>2. CASE HasRoute(routes[n], u)
  <2>1. t \in RouteTable /\ MetricsSound(t)
      BY TableOfNode, BreakLinkSound DEF IndInv
  <2>2. dests \in SUBSET Node
      BY DEF RoutesVia
  <2>3. SetRoutes(n, t) /\ broadcastRERR(n, dests, TableSeqNum(t), rest)
      BY <1>2 DEF handleLinkBreakSendRERR
  <2> HIDE DEF t, dests
  <2>4. TablesOK'
      BY <2>1, <2>3, SetRoutesGood DEF IndInv
  <2> QED
      BY <2>1, <2>2, <2>3, <2>4, TableSeqNumType, broadcastRERRGood DEF IndInv
<1> QED
    BY <1>1, <1>2

LEMMA LinkBreakGood == ASSUME IndInv, NEW f \in air, LinkBreak(f) PROVE IndInv'
<1> DEFINE n == f.from
           d == f.dgram.dst
<1>1. n \in Node /\ d \in Node /\ GoodFrames(air \ {f})
    BY AirFrame DEF LinkBreak, Datagram
<1>2. BudgetOK'
  <2>1. SpendUnless(Undeliverable(f), "loss") /\ "loss" \in EnvironmentEvent
      BY DEF LinkBreak, EnvironmentEvent
  <2>2. Undeliverable(f) \in BOOLEAN
      BY DEF Undeliverable
  <2> QED
      BY <2>1, <2>2, SpendUnlessGood DEF IndInv
<1>3. TablesOK' /\ rerrCount' \in [Node -> Nat] /\ GoodFrames(air')
  <2>1. CASE HasRoute(routes[n], d)
    <3>1. routes[n][d].nextHop \in Node
        BY <1>1, <2>1, TableOfNode DEF IndInv, Route
    <3>2. handleLinkBreakSendRERR(n, routes[n][d].nextHop, air \ {f})
        BY <2>1 DEF LinkBreak
    <3> QED
        BY <1>1, <3>1, <3>2, handleLinkBreakGood
  <2>2. CASE ~HasRoute(routes[n], d)
      BY <1>1, <2>2, Unchanged DEF LinkBreak, IndInv, CountersOK
  <2> QED
      BY <2>1, <2>2
<1>4. CountersOK'
    BY <1>3 DEF LinkBreak, IndInv, CountersOK
<1>5. GoodUnicast(ipOut')
    BY TrafficParts DEF LinkBreak, IndInv
<1> QED
    BY <1>2, <1>3, <1>4, <1>5, Unchanged, TrafficPartsNext DEF LinkBreak, IndInv

LEMMA FrameLostGood == ASSUME IndInv, NEW f \in air, FrameLost(f) PROVE IndInv'
<1>1. BudgetOK'
  <2> DEFINE c == Undeliverable(f) /\ (f.dgram.dst = Broadcast \/ ~isOperational[f.from])
  <2>1. SpendUnless(c, "loss") /\ "loss" \in EnvironmentEvent /\ c \in BOOLEAN
      BY DEF FrameLost, EnvironmentEvent
  <2> HIDE DEF c
  <2> QED
      BY <2>1, SpendUnlessGood DEF IndInv
<1>2. GoodFrames(air') /\ GoodUnicast(ipOut')
    BY AirFrame, TrafficParts DEF FrameLost, IndInv
<1> QED
    BY <1>1, <1>2, Unchanged, TrafficPartsNext DEF FrameLost, IndInv

LEMMA DelayReturnedGood ==
    ASSUME IndInv, NEW n \in Node, NEW f \in air, DelayReturned(n, f) PROVE IndInv'
<1>1. Hop(f.dgram) \in Datagram /\ Honest(Hop(f.dgram)) /\ Hop(f.dgram).dst \in Node
    BY AirFrame, HopGood DEF DelayReturned, Transit
<1>2. EnsureOK' /\ GoodFrames(air')
    BY <1>1, AirFrame, delayDatagramGood DEF DelayReturned
<1>3. AppOK' /\ GoodUnicast(ipOut')
    BY Unchanged, TrafficParts DEF DelayReturned, IndInv
<1> QED
    BY <1>2, <1>3, TrafficPartsNext DEF IndInv, EnsureOK

LEMMA datagramForwardHookGood ==
    ASSUME IndInv, NEW n \in Node, NEW f \in air, datagramForwardHook(n, f) PROVE IndInv'
<1> DEFINE d == f.dgram.dst
           known == HasRoute(routes[n], d)
           nextHop == IF known THEN routes[n][d].nextHop ELSE d
           t == IF known THEN PenaliseRoute(routes[n], d) ELSE routes[n]
           sn == [x \in Node |-> IF known /\ t[d].validDestNum THEN t[d].destSeqNum ELSE 0]
           rest == (air \ {f}) \cup UnicastFrame(n, nextHop, Hop(f.dgram))
<1>1. d \in Node
    BY DEF datagramForwardHook, Transit
<1>2. routes[n] \in RouteTable /\ MetricsSound(routes[n]) /\ (known => routes[n][d] \in Route)
    BY <1>1, TableOfNode DEF IndInv
<1>3. nextHop \in Node
    BY <1>1, <1>2 DEF Route
<1>4. t \in RouteTable /\ MetricsSound(t)
    BY <1>1, <1>2, PenaliseRouteSound
<1>5. sn \in [Node -> Nat]
  <2>1. known => t[d] # NoRoute
    <3>1. ASSUME known PROVE t[d] = [routes[n][d] EXCEPT !.destSeqNum = NextSeqNum(routes[n][d])]
        BY <1>1, <1>2, <3>1 DEF PenaliseRoute, RouteTable
    <3>2. ASSUME known PROVE t[d] \in Route
        BY <1>2, <3>1, <3>2, NextSeqNumType DEF Route
    <3> QED
        BY <3>2, NoRouteIsNoRoute
  <2> HIDE DEF t, known
  <2>2. known => t[d].destSeqNum \in Nat
      BY <1>1, <1>4, <2>1 DEF RouteTable, Route
  <2> QED
      BY <2>2
<1>6. GoodFrames(rest)
  <2> HIDE DEF nextHop
  <2>1. GoodFrames(UnicastFrame(n, nextHop, Hop(f.dgram)))
      BY <1>3, AirFrame, HopGood, UnicastFrameGood
  <2> QED
      BY <2>1, AirFrame, GoodFramesUnion
<1>7. TablesOK' /\ rerrCount' \in [Node -> Nat] /\ GoodFrames(air')
  <2>1. CASE IsActive(routes[n], d)
      BY <1>6, <2>1, Unchanged DEF datagramForwardHook, IndInv, CountersOK
  <2>2. CASE ~IsActive(routes[n], d)
    <3>1. SetRoutes(n, t) /\ broadcastRERR(n, {d}, sn, rest)
        BY <2>2 DEF datagramForwardHook
    <3> HIDE DEF t, sn, rest, known, nextHop
    <3>2. {d} \in SUBSET Node
        BY <1>1
    <3> QED
        BY <1>4, <1>5, <1>6, <3>1, <3>2, SetRoutesGood, broadcastRERRGood DEF IndInv
  <2> QED
      BY <2>1, <2>2
<1>8. CountersOK'
    BY <1>7 DEF datagramForwardHook, IndInv, CountersOK
<1>9. GoodUnicast(ipOut')
    BY TrafficParts DEF datagramForwardHook, IndInv
<1> QED
    BY <1>7, <1>8, <1>9, Unchanged, TrafficPartsNext DEF datagramForwardHook, IndInv

LEMMA DeliverDataGood ==
    ASSUME IndInv, NEW n \in Node, NEW f \in air, DeliverData(n, f) PROVE IndInv'
<1>1. f.dgram.body.flow \in Flow
    BY AirFrame, BodyByType DEF DeliverData, Arrives, Data
<1>2. AppOK'
    BY <1>1 DEF DeliverData, AppOK, IndInv
<1>3. GoodFrames(air') /\ GoodUnicast(ipOut')
    BY AirFrame, TrafficParts DEF DeliverData, IndInv
<1> QED
    BY <1>2, <1>3, Unchanged, TrafficPartsNext DEF DeliverData, IndInv

-----------------------------------------------------------------------------
(* Timers and lifecycle.                                                    *)

LEMMA handleWaitForRREPGood ==
    ASSUME IndInv, NEW n \in Node, NEW d \in Node, handleWaitForRREP(n, d) PROVE IndInv'
<1> USE DEF IndInv
<1>1. /\ LifecycleOK' /\ TablesOK' /\ AckOK' /\ AppOK' /\ BudgetOK' /\ GoodUnicast(ipOut')
    BY Unchanged, TrafficParts DEF handleWaitForRREP
<1>2. waitForRREPTimers[n][d] \in Timer
    BY DEF handleWaitForRREP, hasOngoingRouteDiscovery, DiscoveryOK
<1>3. CASE RetryRREQ(n, d)
  <2> DEFINE timers == [waitForRREPTimers[n] EXCEPT ![d].scheduled = FALSE]
  <2>1. timers \in [Node -> Timer \cup {NoTimer}]
    <3>1. [waitForRREPTimers[n][d] EXCEPT !.scheduled = FALSE] \in Timer
        BY <1>2 DEF Timer
    <3> QED
        BY <3>1 DEF DiscoveryOK
  <2>2. OriginateRREQ(n, d, timers, air) /\ GoodFrames(air)
      BY <1>3, TrafficParts DEF RetryRREQ
  <2> HIDE DEF timers
  <2>3. addressToRreqRetries' \in [Node -> [Node -> Nat]]
    <3> DEFINE v == IF waitForRREPTimers[n][d].lastTTL = NetDiameter
                    THEN addressToRreqRetries[n][d] + 1 ELSE addressToRreqRetries[n][d]
    <3>1. v \in Nat
        BY DEF DiscoveryOK
    <3>2. addressToRreqRetries' = [addressToRreqRetries EXCEPT ![n][d] = v]
        BY <1>3 DEF RetryRREQ
    <3> HIDE DEF v
    <3> QED
        BY <3>1, <3>2, NestedUpdate DEF DiscoveryOK
  <2>4. DelayedOK' /\ rerrCount' \in [Node -> Nat]
      BY <1>3 DEF RetryRREQ, DelayedOK, CountersOK
  <2> QED
      BY <1>1, <2>1, <2>2, <2>3, <2>4, OriginateRREQGood, TrafficPartsNext
         DEF CountersOK, DiscoveryOK
<1>4. CASE cancelRouteDiscovery(n, d)
  <2>1. CountersOK' /\ GoodFrames(air')
      BY <1>4, Unchanged, TrafficParts DEF cancelRouteDiscovery
  <2>2. waitForRREPTimers' \in [Node -> [Node -> Timer \cup {NoTimer}]]
      BY <1>4, NestedUpdate DEF cancelRouteDiscovery, DiscoveryOK
  <2>3. DiscoveryOK'
      BY <1>4, <2>2 DEF cancelRouteDiscovery, DiscoveryOK
  <2>4. delayedPackets' \in [Node -> SUBSET Datagram]
      BY <1>4 DEF cancelRouteDiscovery, DelayedOK
  <2>5. \A m \in Node : delayedPackets'[m] \subseteq delayedPackets[m]
      BY <1>4 DEF cancelRouteDiscovery, DelayedOK
  <2>6. DelayedOK'
      BY <2>4, <2>5 DEF DelayedOK, GoodPackets
  <2> QED
      BY <1>1, <2>1, <2>3, <2>6, TrafficPartsNext
<1> QED
    BY <1>3, <1>4 DEF handleWaitForRREP

LEMMA CounterTimerGood == ASSUME IndInv, NEW n \in Node, CounterTimer(n) PROVE IndInv'
<1>1. CountersOK'
    BY DEF CounterTimer, IndInv, CountersOK
<1>2. TrafficOK'
    BY Unchanged DEF CounterTimer, IndInv
<1> QED
    BY <1>1, <1>2, Unchanged DEF CounterTimer, IndInv

LEMMA AckTimersGood ==
    ASSUME IndInv, NEW n \in Node, handleRREPACKTimer(n) \/ handleBlackListTimer(n)
    PROVE  IndInv'
<1>1. CASE handleRREPACKTimer(n)
  <2>1. failedNextHop[n] \in Node \cup {Unspecified}
      BY DEF IndInv, AckOK
  <2>2. blacklist' \in [Node -> SUBSET (Node \cup {Unspecified})]
      BY <1>1, <2>1 DEF handleRREPACKTimer, IndInv, AckOK
  <2>3. AckOK'
      BY <1>1, <2>2 DEF handleRREPACKTimer, IndInv, AckOK
  <2>4. TrafficOK'
      BY <1>1, Unchanged DEF handleRREPACKTimer, IndInv
  <2> QED
      BY <1>1, <2>3, <2>4, Unchanged DEF handleRREPACKTimer, IndInv
<1>2. CASE handleBlackListTimer(n)
  <2>1. PICK expired \in SUBSET blacklist[n] :
          /\ blacklist' = [blacklist EXCEPT ![n] = @ \ expired]
          /\ blacklistTimer' = [blacklistTimer EXCEPT ![n] = blacklist[n] # expired]
      BY <1>2 DEF handleBlackListTimer
  <2>2. blacklist' \in [Node -> SUBSET (Node \cup {Unspecified})]
      BY <2>1 DEF IndInv, AckOK
  <2>3. blacklistTimer' \in [Node -> BOOLEAN]
      BY <2>1 DEF IndInv, AckOK
  <2>4. AckOK'
      BY <1>2, <2>2, <2>3 DEF handleBlackListTimer, IndInv, AckOK
  <2>5. TrafficOK'
      BY <1>2, Unchanged DEF handleBlackListTimer, IndInv
  <2> QED
      BY <1>2, <2>4, <2>5, Unchanged DEF handleBlackListTimer, IndInv
<1> QED
    BY <1>1, <1>2

LEMMA expungeRoutesGood ==
    ASSUME IndInv, NEW n \in Node, NEW d \in Node, expungeRoutes(n, d) PROVE IndInv'
<1>1. TablesOK'
    BY TableOfNode, ExpungeRouteSound, SetRoutesGood DEF expungeRoutes, IndInv
<1>2. BudgetOK'
  <2>1. FALSE \in BOOLEAN /\ "expunge" \in EnvironmentEvent
      BY DEF EnvironmentEvent
  <2> QED
      BY <2>1, SpendUnlessGood DEF expungeRoutes, IndInv
<1>3. TrafficOK'
    BY Unchanged DEF expungeRoutes, IndInv
<1> QED
    BY <1>1, <1>2, <1>3, Unchanged DEF expungeRoutes, IndInv

LEMMA ForgetRREQGood ==
    ASSUME IndInv, NEW n \in Node, NEW k, ForgetRREQ(n, k) PROVE IndInv'
<1>1. DiscoveryOK' /\ DelayedOK'
    BY DEF ForgetRREQ, IndInv, DiscoveryOK, DelayedOK
<1>2. BudgetOK'
  <2>1. FALSE \in BOOLEAN /\ "expunge" \in EnvironmentEvent
      BY DEF EnvironmentEvent
  <2> QED
      BY <2>1, SpendUnlessGood DEF ForgetRREQ, IndInv
<1>3. TrafficOK'
    BY Unchanged DEF ForgetRREQ, IndInv
<1> QED
    BY <1>1, <1>2, <1>3, Unchanged DEF ForgetRREQ, IndInv

LEMMA sendHelloGood ==
    ASSUME IndInv, NEW n \in Node, sendHelloMessagesIfNeeded(n) PROVE IndInv'
<1> DEFINE x == [type |-> "RREP", ack |-> FALSE, hopCount |-> 0, dest |-> n,
                 destSeqNum |-> sequenceNum[n], orig |-> Unspecified, origSeqNum |-> 0]
<1>1. x \in RREP /\ x.type = "RREP" /\ x.dest = n /\ x.ack = FALSE
    BY DEF IndInv, CountersOK, RREP
<1>2. air' = air \cup BroadcastFrames(n, 1, x)
    BY DEF sendHelloMessagesIfNeeded
<1> HIDE DEF x
<1>3. x \in Body /\ 1 \in Nat /\ 1 > 0
    BY <1>1 DEF Body
<1>4. Honest(NewDatagram(n, Broadcast, 1, x))
    BY <1>1 DEF NewDatagram, Honest
<1>5. GoodFrames(air') /\ GoodUnicast(ipOut')
  <2>1. GoodFrames(BroadcastFrames(n, 1, x))
      BY <1>3, <1>4, BroadcastFramesGood
  <2> QED
      BY <1>2, <2>1, TrafficParts, GoodFramesUnion DEF IndInv, sendHelloMessagesIfNeeded
<1>6. BudgetOK'
  <2>1. FALSE \in BOOLEAN /\ "hello" \in EnvironmentEvent
      BY DEF EnvironmentEvent
  <2> QED
      BY <2>1, SpendUnlessGood DEF sendHelloMessagesIfNeeded, IndInv
<1> QED
    BY <1>5, <1>6, Unchanged, TrafficPartsNext DEF sendHelloMessagesIfNeeded, IndInv

LEMMA StopGood == ASSUME IndInv, NEW n \in Node, Stop(n) PROVE IndInv'
<1> USE DEF IndInv
<1>1. LifecycleOK' /\ AppOK' /\ TrafficOK'
    BY Unchanged DEF Stop, LifecycleOK
<1>2. CountersOK'
    BY DEF Stop, clearState, CountersOK
<1>3. TablesOK'
    BY EmptyTableSound, SetRoutesGood DEF Stop
<1>4. DiscoveryOK' /\ DelayedOK'
  <2>1. DiscoveryOK'
      BY DEF Stop, clearState, DiscoveryOK
  <2>2. delayedPackets' = [delayedPackets EXCEPT ![n] = {}]
      BY DEF Stop, clearState
  <2>3. delayedPackets' \in [Node -> SUBSET Datagram]
      BY <2>2 DEF DelayedOK
  <2>4. \A m \in Node : delayedPackets'[m] \subseteq delayedPackets[m]
      BY <2>2 DEF DelayedOK
  <2> QED
      BY <2>1, <2>3, <2>4 DEF DelayedOK, GoodPackets
<1>5. AckOK'
    BY DEF Stop, clearState, CancelAckTimers, AckOK
<1>6. BudgetOK'
  <2>1. FALSE \in BOOLEAN /\ "crash" \in EnvironmentEvent
      BY DEF EnvironmentEvent
  <2> QED
      BY <2>1, SpendUnlessGood DEF Stop
<1> QED
    BY <1>1, <1>2, <1>3, <1>4, <1>5, <1>6

LEMMA StartGood ==
    ASSUME IndInv, NEW n \in Node, Start(n) \/ RebootCompleted(n) PROVE IndInv'
<1>1. LifecycleOK'
    BY DEF Start, RebootCompleted, IndInv, LifecycleOK
<1>2. TrafficOK'
    BY Unchanged DEF Start, RebootCompleted, IndInv
<1> QED
    BY <1>1, <1>2, Unchanged DEF Start, RebootCompleted, IndInv

LEMMA DropWhenDownGood == ASSUME IndInv, NEW p \in ipOut, DropWhenDown(p) PROVE IndInv'
<1>1. TrafficOK'
    BY DEF DropWhenDown, IndInv, TrafficOK, GoodPackets
<1> QED
    BY <1>1, Unchanged DEF DropWhenDown, IndInv

-----------------------------------------------------------------------------
(* One step per action of Next. *)
LEMMA NextIndInv == IndInv /\ [Next]_vars => IndInv'
<1> SUFFICES ASSUME IndInv, [Next]_vars PROVE IndInv'
    OBVIOUS
<1>1. ASSUME NEW fl \in Flow, AppSend(fl) PROVE IndInv'
    BY <1>1, AppSendGood
<1>2. ASSUME NEW p \in ipOut, IPLocalOut(p) \/ DropWhenDown(p) PROVE IndInv'
    BY <1>2, IPLocalOutGood, DropWhenDownGood
<1>3. ASSUME NEW f \in air, Receive(f.to, f) PROVE IndInv'
    BY <1>3, AirFrame, handleRREQGood, handleRREPGood, handleRERRGood, DelayReturnedGood,
       datagramForwardHookGood, DeliverDataGood DEF Receive
<1>4. ASSUME NEW f \in air, LinkBreak(f) \/ FrameLost(f) PROVE IndInv'
    BY <1>4, LinkBreakGood, FrameLostGood
<1>5. ASSUME NEW n \in Node, SelfMessage(n) PROVE IndInv'
    BY <1>5, handleWaitForRREPGood, CounterTimerGood, AckTimersGood, expungeRoutesGood,
       ForgetRREQGood, sendHelloGood DEF SelfMessage
<1>6. ASSUME NEW n \in Node, Stop(n) \/ Start(n) \/ RebootCompleted(n) PROVE IndInv'
    BY <1>6, StopGood, StartGood
<1>7. CASE UNCHANGED vars
    BY <1>7, Unchanged DEF vars, IndInv
<1> QED
    BY <1>1, <1>2, <1>3, <1>4, <1>5, <1>6, <1>7 DEF Next

LEMMA Invariance == Spec => []IndInv
BY InitIndInv, NextIndInv, PTL DEF Spec

(* The state of every AODV module, and every packet, has its type in every  *)
(* reachable state of every network.                                        *)
THEOREM TypeCorrect == Spec => []TypeOK
<1>1. IndInv => TypeOK
    BY IndInvImplies
<1> QED
    BY <1>1, Invariance, PTL

(* No handler ever sends a request or reply with a false zero hop count, a  *)
(* RREP-ACK demand on anybody but the originator, or a RREP-ACK.            *)
THEOREM HonestHopCounts == Spec => []HopCountsHonest
<1>1. IndInv => HopCountsHonest
    BY IndInvImplies
<1> QED
    BY <1>1, Invariance, PTL

(* In every routing table a metric of one means a direct neighbour, which   *)
(* is what sendRREP relies on to decide whose RREP-ACK to wait for.         *)
THEOREM SoundMetrics == Spec => []NeighbourMetric
<1>1. IndInv => NeighbourMetric
    BY IndInvImplies
<1> QED
    BY <1>1, Invariance, PTL
-----------------------------------------------------------------------------
(* A stopped node has no timer.  Every step leaves the timers alone, or is  *)
(* taken by an operational node and touches that node's timers only, or is  *)
(* Stop, which cancels them all, or Start.                                  *)

timerVars == <<isOperational, waitForRREPTimers, rrepAckTimer, blacklistTimer>>

OwnTimersOnly(m) ==
    /\ UNCHANGED isOperational /\ isOperational[m]
    /\ \A n \in Node \ {m} : /\ waitForRREPTimers'[n] = waitForRREPTimers[n]
                             /\ rrepAckTimer'[n] = rrepAckTimer[n]
                             /\ blacklistTimer'[n] = blacklistTimer[n]

LEMMA delayDatagramOwn ==
    ASSUME IndInv, NEW n \in Node, NEW p, NEW rest, isOperational[n], delayDatagram(n, p, rest)
    PROVE  OwnTimersOnly(n)
<1>1. UNCHANGED <<isOperational, rrepAckTimer, blacklistTimer>>
    BY DEF delayDatagram, lifecycle, ackVars
<1>2. \A m \in Node \ {n} : waitForRREPTimers'[m] = waitForRREPTimers[m]
  <2>1. CASE UNCHANGED waitForRREPTimers
      BY <2>1
  <2>2. CASE OriginateRREQ(n, p.dst, waitForRREPTimers[n], rest)
      BY <2>2 DEF OriginateRREQ, IndInv, DiscoveryOK
  <2> QED
      BY <2>1, <2>2 DEF delayDatagram
<1> QED
    BY <1>1, <1>2 DEF OwnTimersOnly

LEMMA ensureRouteOwn ==
    ASSUME IndInv, NEW n \in Node, NEW p, NEW rest, isOperational[n],
           ensureRouteForDatagram(n, p, rest)
    PROVE  UNCHANGED timerVars \/ OwnTimersOnly(n)
<1>1. CASE RouteOut(n, p, rest)
    BY <1>1 DEF RouteOut, lifecycle, discovery, ackVars, timerVars
<1>2. CASE delayDatagram(n, p, rest)
    BY <1>2, delayDatagramOwn
<1> QED
    BY <1>1, <1>2 DEF ensureRouteForDatagram

LEMMA sendRREPOwn ==
    ASSUME IndInv, NEW n \in Node, isOperational[n], UNCHANGED <<isOperational, waitForRREPTimers>>,
           NEW t, NEW reply, NEW others, sendRREP(n, t, reply, others)
    PROVE  OwnTimersOnly(n)
BY DEF sendRREP, OwnTimersOnly, IndInv, AckOK

LEMMA handleRREQOwn ==
    ASSUME IndInv, NEW n \in Node, NEW f \in air, handleRREQ(n, f)
    PROVE  UNCHANGED timerVars \/ OwnTimersOnly(n)
<1>1. CASE RREQIgnored(n, f) \/ RREQDuplicate(n, f)
    BY <1>1 DEF RREQIgnored, RREQDuplicate, lifecycle, discovery, ackVars, timerVars
<1>2. CASE RREQWouldLoop(n, f) \/ RREQForward(n, f)
    BY <1>2 DEF RREQWouldLoop, RREQForward, FreshRREQ, lifecycle, ackVars, timerVars
<1>3. CASE RREQReplyAsDestination(n, f)
  <2>1. isOperational[n] /\ UNCHANGED <<isOperational, waitForRREPTimers>>
      BY <1>3 DEF RREQReplyAsDestination, FreshRREQ, Arrives, lifecycle
  <2> QED
      BY <1>3, <2>1, sendRREPOwn DEF RREQReplyAsDestination
<1>4. CASE RREQReplyAsIntermediate(n, f)
  <2>1. isOperational[n] /\ UNCHANGED <<isOperational, waitForRREPTimers>>
      BY <1>4 DEF RREQReplyAsIntermediate, FreshRREQ, Arrives, lifecycle
  <2> QED
      BY <1>4, <2>1, sendRREPOwn DEF RREQReplyAsIntermediate
<1> QED
    BY <1>1, <1>2, <1>3, <1>4 DEF handleRREQ

LEMMA handleRREPOwn ==
    ASSUME IndInv, NEW n \in Node, NEW f \in air, handleRREP(n, f)
    PROVE  UNCHANGED timerVars \/ OwnTimersOnly(n)
<1>1. CASE RREPHello(n, f) \/ RREPForward(n, f) \/ RREPStops(n, f)
    BY <1>1 DEF RREPHello, RREPForward, RREPStops, lifecycle, discovery, ackVars, timerVars
<1>2. CASE RREPCompletes(n, f)
  <2>1. /\ isOperational[n] /\ UNCHANGED <<isOperational, rrepAckTimer, blacklistTimer>>
        /\ waitForRREPTimers' = [waitForRREPTimers EXCEPT ![n][f.dgram.body.dest] = NoTimer]
      BY <1>2 DEF RREPCompletes, Arrives, completeRouteDiscovery, lifecycle, ackVars
  <2> QED
      BY <2>1 DEF OwnTimersOnly, IndInv, DiscoveryOK
<1> QED
    BY <1>1, <1>2 DEF handleRREP

LEMMA ReceiveOwn ==
    ASSUME IndInv, NEW n \in Node, NEW f \in air, Receive(n, f)
    PROVE  UNCHANGED timerVars \/ OwnTimersOnly(n)
<1>1. CASE handleRERR(n, f) \/ datagramForwardHook(n, f) \/ DeliverData(n, f)
    BY <1>1 DEF handleRERR, datagramForwardHook, DeliverData, lifecycle, discovery, ackVars,
                timerVars
<1>2. CASE DelayReturned(n, f)
    BY <1>2, delayDatagramOwn DEF DelayReturned, Transit
<1> QED
    BY <1>1, <1>2, handleRREQOwn, handleRREPOwn DEF Receive

LEMMA SelfMessageOwn ==
    ASSUME IndInv, NEW n \in Node, SelfMessage(n)
    PROVE  UNCHANGED timerVars \/ OwnTimersOnly(n)
<1>1. ASSUME NEW d \in Node, handleWaitForRREP(n, d) PROVE OwnTimersOnly(n)
  <2>1. isOperational[n] /\ UNCHANGED <<isOperational, rrepAckTimer, blacklistTimer>>
      BY <1>1 DEF handleWaitForRREP, TimerMayFire, lifecycle, ackVars
  <2>2. \A m \in Node \ {n} : waitForRREPTimers'[m] = waitForRREPTimers[m]
      BY <1>1 DEF handleWaitForRREP, RetryRREQ, OriginateRREQ, cancelRouteDiscovery,
                  IndInv, DiscoveryOK
  <2> QED
      BY <2>1, <2>2 DEF OwnTimersOnly
<1>2. ASSUME handleRREPACKTimer(n) \/ handleBlackListTimer(n) PROVE OwnTimersOnly(n)
  <2>1. isOperational[n] /\ UNCHANGED <<isOperational, waitForRREPTimers>>
      BY <1>2 DEF handleRREPACKTimer, handleBlackListTimer, TimerMayFire, lifecycle, discovery
  <2>2. \A m \in Node \ {n} : /\ rrepAckTimer'[m] = rrepAckTimer[m]
                              /\ blacklistTimer'[m] = blacklistTimer[m]
      BY <1>2 DEF handleRREPACKTimer, handleBlackListTimer, IndInv, AckOK
  <2> QED
      BY <2>1, <2>2 DEF OwnTimersOnly
<1>3. ASSUME CounterTimer(n) \/ sendHelloMessagesIfNeeded(n) PROVE UNCHANGED timerVars
    BY <1>3 DEF CounterTimer, sendHelloMessagesIfNeeded, lifecycle, discovery, ackVars, timerVars
<1>4. ASSUME NEW d \in Node, expungeRoutes(n, d) PROVE UNCHANGED timerVars
    BY <1>4 DEF expungeRoutes, lifecycle, discovery, ackVars, timerVars
<1>5. ASSUME NEW k \in rreqsArrivalTime[n], ForgetRREQ(n, k) PROVE UNCHANGED timerVars
    BY <1>5 DEF ForgetRREQ, lifecycle, ackVars, timerVars
<1> QED
    BY <1>1, <1>2, <1>3, <1>4, <1>5 DEF SelfMessage

LEMMA DownInit == Init => DownNodeHasNoTimer
BY DEF Init, DownNodeHasNoTimer, hasOngoingRouteDiscovery

LEMMA OwnTimersKeep ==
    ASSUME DownNodeHasNoTimer, NEW m \in Node, UNCHANGED timerVars \/ OwnTimersOnly(m)
    PROVE  DownNodeHasNoTimer'
<1>1. CASE UNCHANGED timerVars
    BY <1>1 DEF timerVars, DownNodeHasNoTimer, hasOngoingRouteDiscovery
<1>2. CASE OwnTimersOnly(m)
    BY <1>2 DEF OwnTimersOnly, DownNodeHasNoTimer, hasOngoingRouteDiscovery
<1> QED
    BY <1>1, <1>2

LEMMA DownNext == IndInv /\ DownNodeHasNoTimer /\ [Next]_vars => DownNodeHasNoTimer'
<1> SUFFICES ASSUME IndInv, DownNodeHasNoTimer, [Next]_vars PROVE DownNodeHasNoTimer'
    OBVIOUS
<1>1. ASSUME NEW fl \in Flow, AppSend(fl) PROVE DownNodeHasNoTimer'
  <2>1. fl.src \in Node
      BY FlowAssumption
  <2> QED
      BY <1>1, <2>1, ensureRouteOwn, OwnTimersKeep DEF AppSend
<1>2. ASSUME NEW p \in ipOut, IPLocalOut(p) PROVE DownNodeHasNoTimer'
  <2>1. p.src \in Node
      BY DEF IndInv, TrafficOK, GoodPackets, Datagram
  <2> QED
      BY <1>2, <2>1, ensureRouteOwn, OwnTimersKeep DEF IPLocalOut
<1>3. ASSUME NEW p \in ipOut, DropWhenDown(p) PROVE DownNodeHasNoTimer'
    BY <1>3 DEF DropWhenDown, lifecycle, discovery, ackVars, DownNodeHasNoTimer,
                hasOngoingRouteDiscovery
<1>4. ASSUME NEW f \in air, Receive(f.to, f) PROVE DownNodeHasNoTimer'
    BY <1>4, AirFrame, ReceiveOwn, OwnTimersKeep
<1>5. ASSUME NEW f \in air, LinkBreak(f) \/ FrameLost(f) PROVE DownNodeHasNoTimer'
    BY <1>5 DEF LinkBreak, FrameLost, lifecycle, discovery, ackVars, DownNodeHasNoTimer,
                hasOngoingRouteDiscovery
<1>6. ASSUME NEW n \in Node, SelfMessage(n) PROVE DownNodeHasNoTimer'
    BY <1>6, SelfMessageOwn, OwnTimersKeep
<1>7. ASSUME NEW n \in Node, Stop(n) PROVE DownNodeHasNoTimer'
  <2>1. /\ waitForRREPTimers' = [waitForRREPTimers EXCEPT ![n] = [d \in Node |-> NoTimer]]
        /\ rrepAckTimer' = [rrepAckTimer EXCEPT ![n] = FALSE]
        /\ blacklistTimer' = [blacklistTimer EXCEPT ![n] = FALSE]
        /\ isOperational' = [isOperational EXCEPT ![n] = FALSE]
      BY <1>7 DEF Stop, clearState, CancelAckTimers
  <2> QED
      BY <2>1 DEF DownNodeHasNoTimer, hasOngoingRouteDiscovery, IndInv, LifecycleOK,
                  DiscoveryOK, AckOK
<1>8. ASSUME NEW n \in Node, Start(n) \/ RebootCompleted(n) PROVE DownNodeHasNoTimer'
  <2>1. UNCHANGED <<waitForRREPTimers, rrepAckTimer, blacklistTimer>>
      BY <1>8 DEF Start, RebootCompleted, discovery, ackVars
  <2>2. \A m \in Node : isOperational[m] => isOperational'[m]
      BY <1>8 DEF Start, RebootCompleted, IndInv, LifecycleOK
  <2> QED
      BY <2>1, <2>2 DEF DownNodeHasNoTimer, hasOngoingRouteDiscovery
<1>9. CASE UNCHANGED vars
    BY <1>9 DEF vars, lifecycle, discovery, ackVars, DownNodeHasNoTimer, hasOngoingRouteDiscovery
<1> QED
    BY <1>1, <1>2, <1>3, <1>4, <1>5, <1>6, <1>7, <1>8, <1>9 DEF Next

(* A crash or shutdown at any moment leaves no timer behind: handleMessage  *)
(* never throws "self msg received when isOperational is false".            *)
THEOREM StoppedNodeSilent == Spec => []DownNodeHasNoTimer
<1>1. Init => IndInv /\ DownNodeHasNoTimer
    BY InitIndInv, DownInit
<1>2. IndInv /\ DownNodeHasNoTimer /\ [Next]_vars => (IndInv /\ DownNodeHasNoTimer)'
    BY NextIndInv, DownNext
<1> QED
    BY <1>1, <1>2, PTL DEF Spec
-----------------------------------------------------------------------------
(* Datagrams do not wait for ever.  When the rate limit suppresses a RREQ,  *)
(* sendRREQ returns before it schedules the timer; as long as the limit is  *)
(* not reached, a discovery always has a scheduled timer.                   *)

NeverLimited == \A n \in Node : rreqCount[n] < RreqRatelimit

(* The discoveries under way are timed, and what is delayed for a node is   *)
(* being looked for.                                                        *)
DiscoveryTimed ==
    \A n \in Node : \A d \in Node :
        hasOngoingRouteDiscovery(n, d) => waitForRREPTimers[n][d].scheduled

DelayedSought ==
    \A n \in Node : \A p \in delayedPackets[n] :
        p.dst \in Node /\ hasOngoingRouteDiscovery(n, p.dst)

WaitInv == DiscoveryTimed /\ DelayedSought

waitVars == <<delayedPackets, waitForRREPTimers>>

LEMMA OriginateTimed ==
    ASSUME IndInv, NeverLimited, NEW n \in Node, NEW d \in Node, NEW rest,
           NEW timers \in [Node -> Timer \cup {NoTimer}], OriginateRREQ(n, d, timers, rest)
    PROVE  /\ waitForRREPTimers' = [waitForRREPTimers EXCEPT ![n] =
                  [timers EXCEPT ![d] = [lastTTL |-> NextTTL(timers[d]), scheduled |-> TRUE]]]
           /\ [lastTTL |-> NextTTL(timers[d]), scheduled |-> TRUE] # NoTimer
<1>1. ~(rreqCount[n] >= RreqRatelimit)
    BY ParameterAssumption DEF NeverLimited, IndInv, CountersOK
<1>2. NextTTL(timers[d]) \in Nat
    BY NextTTLType
<1>3. waitForRREPTimers' = [waitForRREPTimers EXCEPT ![n] =
          [timers EXCEPT ![d] = [lastTTL |-> NextTTL(timers[d]), scheduled |-> TRUE]]]
    BY <1>1 DEF OriginateRREQ
<1>4. [lastTTL |-> NextTTL(timers[d]), scheduled |-> TRUE] \in Timer
    BY <1>2 DEF Timer
<1>5. NoTimer \notin Timer
    BY NoTimerAssumption DEF Timer
<1> QED
    BY <1>3, <1>4, <1>5

LEMMA delayDatagramTimed ==
    ASSUME IndInv, WaitInv, NeverLimited, NEW n \in Node, NEW p, p.dst \in Node, NEW rest,
           delayDatagram(n, p, rest)
    PROVE  WaitInv'
<1>1. /\ delayedPackets \in [Node -> SUBSET Datagram]
      /\ waitForRREPTimers \in [Node -> [Node -> Timer \cup {NoTimer}]]
    BY DEF IndInv, DelayedOK, DiscoveryOK
<1>2. delayedPackets' = [delayedPackets EXCEPT ![n] = @ \cup {p}]
    BY DEF delayDatagram
<1>3. CASE hasOngoingRouteDiscovery(n, p.dst)
  <2>1. UNCHANGED waitForRREPTimers
      BY <1>3 DEF delayDatagram
  <2> QED
      BY <1>1, <1>2, <1>3, <2>1
         DEF WaitInv, DiscoveryTimed, DelayedSought, hasOngoingRouteDiscovery
<1>4. CASE ~hasOngoingRouteDiscovery(n, p.dst)
  <2> DEFINE timer == [lastTTL |-> NextTTL(waitForRREPTimers[n][p.dst]), scheduled |-> TRUE]
  <2>1. OriginateRREQ(n, p.dst, waitForRREPTimers[n], rest)
      BY <1>4 DEF delayDatagram
  <2>2. /\ waitForRREPTimers' = [waitForRREPTimers EXCEPT ![n] =
               [waitForRREPTimers[n] EXCEPT ![p.dst] = timer]]
        /\ timer # NoTimer
      BY <1>1, <2>1, OriginateTimed
  <2>3. timer.scheduled
      OBVIOUS
  <2> HIDE DEF timer
  <2> QED
      BY <1>1, <1>2, <2>2, <2>3
         DEF WaitInv, DiscoveryTimed, DelayedSought, hasOngoingRouteDiscovery
<1> QED
    BY <1>3, <1>4

LEMMA ensureRouteTimed ==
    ASSUME IndInv, WaitInv, NeverLimited, NEW n \in Node, NEW p, p.dst \in Node, NEW rest,
           ensureRouteForDatagram(n, p, rest)
    PROVE  WaitInv'
<1>1. CASE RouteOut(n, p, rest)
    BY <1>1 DEF RouteOut, discovery, WaitInv, DiscoveryTimed, DelayedSought,
                hasOngoingRouteDiscovery
<1>2. CASE delayDatagram(n, p, rest)
    BY <1>2, delayDatagramTimed
<1> QED
    BY <1>1, <1>2 DEF ensureRouteForDatagram

(* A discovery ends, and what was delayed for its target leaves.            *)
LEMMA EndsTimed ==
    ASSUME IndInv, WaitInv, NEW n \in Node, NEW d \in Node,
           waitForRREPTimers' = [waitForRREPTimers EXCEPT ![n][d] = NoTimer],
           delayedPackets' = [delayedPackets EXCEPT ![n] = {p \in @ : p.dst # d}]
    PROVE  WaitInv'
<1>1. /\ delayedPackets \in [Node -> SUBSET Datagram]
      /\ waitForRREPTimers \in [Node -> [Node -> Timer \cup {NoTimer}]]
    BY DEF IndInv, DelayedOK, DiscoveryOK
<1>2. \A m \in Node : \A x \in Node :
        waitForRREPTimers'[m][x] = IF m = n /\ x = d THEN NoTimer ELSE waitForRREPTimers[m][x]
    BY <1>1, NestedUpdate
<1>3. \A m \in Node : delayedPackets'[m] \subseteq delayedPackets[m]
    BY <1>1
<1>4. \A p \in delayedPackets'[n] : p.dst # d
    BY <1>1
<1> QED
    BY <1>2, <1>3, <1>4 DEF WaitInv, DiscoveryTimed, DelayedSought, hasOngoingRouteDiscovery

LEMMA ReceiveTimed ==
    ASSUME IndInv, WaitInv, NeverLimited, NEW n \in Node, NEW f \in air, Receive(n, f)
    PROVE  UNCHANGED waitVars \/ WaitInv'
<1>1. CASE handleRERR(n, f) \/ datagramForwardHook(n, f) \/ DeliverData(n, f)
    BY <1>1 DEF handleRERR, datagramForwardHook, DeliverData, discovery, waitVars
<1>2. CASE DelayReturned(n, f)
  <2>1. Hop(f.dgram).dst \in Node
      BY <1>2, AirFrame, FrameFields DEF DelayReturned, Transit, Hop, Datagram
  <2> QED
      BY <1>2, <2>1, delayDatagramTimed DEF DelayReturned
<1>3. CASE handleRREQ(n, f)
    BY <1>3 DEF handleRREQ, RREQIgnored, RREQDuplicate, RREQReplyAsDestination,
                RREQReplyAsIntermediate, RREQWouldLoop, RREQForward, FreshRREQ, discovery,
                waitVars
<1>4. CASE RREPHello(n, f) \/ RREPForward(n, f) \/ RREPStops(n, f)
    BY <1>4 DEF RREPHello, RREPForward, RREPStops, discovery, waitVars
<1>5. CASE RREPCompletes(n, f)
  <2> DEFINE d == f.dgram.body.dest
  <2>1. d \in Node
      BY <1>5, AirFrame, FrameFields, BodyByType DEF RREPCompletes, Arrives, RREP
  <2>2. /\ waitForRREPTimers' = [waitForRREPTimers EXCEPT ![n][d] = NoTimer]
        /\ delayedPackets' = [delayedPackets EXCEPT ![n] = @ \ {p \in delayedPackets[n] : p.dst = d}]
      BY <1>5 DEF RREPCompletes, completeRouteDiscovery
  <2>3. delayedPackets' = [delayedPackets EXCEPT ![n] = {p \in @ : p.dst # d}]
    <3>1. delayedPackets[n] \ {p \in delayedPackets[n] : p.dst = d}
            = {p \in delayedPackets[n] : p.dst # d}
        OBVIOUS
    <3> QED
        BY <2>2, <3>1
  <2> HIDE DEF d
  <2> QED
      BY <2>1, <2>2, <2>3, EndsTimed
<1> QED
    BY <1>1, <1>2, <1>3, <1>4, <1>5 DEF Receive, handleRREP

LEMMA handleWaitTimed ==
    ASSUME IndInv, WaitInv, NeverLimited, NEW n \in Node, NEW d \in Node,
           handleWaitForRREP(n, d)
    PROVE  WaitInv'
<1>1. waitForRREPTimers \in [Node -> [Node -> Timer \cup {NoTimer}]]
    BY DEF IndInv, DiscoveryOK
<1>2. CASE RetryRREQ(n, d)
  <2> DEFINE timers == [waitForRREPTimers[n] EXCEPT ![d].scheduled = FALSE]
             timer == [lastTTL |-> NextTTL(timers[d]), scheduled |-> TRUE]
  <2>1. waitForRREPTimers[n][d] \in Timer
      BY <1>1 DEF handleWaitForRREP, hasOngoingRouteDiscovery
  <2>2. timers \in [Node -> Timer \cup {NoTimer}]
      BY <1>1, <2>1 DEF Timer
  <2>3. OriginateRREQ(n, d, timers, air) /\ UNCHANGED delayedPackets
      BY <1>2 DEF RetryRREQ
  <2>4. \A x \in Node \ {d} : timers[x] = waitForRREPTimers[n][x]
      BY <1>1
  <2> HIDE DEF timers
  <2>5. /\ waitForRREPTimers' = [waitForRREPTimers EXCEPT ![n] = [timers EXCEPT ![d] = timer]]
        /\ timer # NoTimer
      BY <2>2, <2>3, OriginateTimed
  <2>6. timer.scheduled
      OBVIOUS
  <2> HIDE DEF timer
  <2> QED
      BY <1>1, <2>2, <2>3, <2>4, <2>5, <2>6
         DEF WaitInv, DiscoveryTimed, DelayedSought, hasOngoingRouteDiscovery
<1>3. CASE cancelRouteDiscovery(n, d)
    BY <1>3, EndsTimed DEF cancelRouteDiscovery
<1> QED
    BY <1>2, <1>3 DEF handleWaitForRREP

LEMMA SelfMessageTimed ==
    ASSUME IndInv, WaitInv, NeverLimited, NEW n \in Node, SelfMessage(n)
    PROVE  UNCHANGED waitVars \/ WaitInv'
<1>1. ASSUME NEW d \in Node, handleWaitForRREP(n, d) PROVE WaitInv'
    BY <1>1, handleWaitTimed
<1>2. ASSUME \/ CounterTimer(n) \/ sendHelloMessagesIfNeeded(n)
             \/ handleRREPACKTimer(n) \/ handleBlackListTimer(n)
      PROVE  UNCHANGED waitVars
    BY <1>2 DEF CounterTimer, sendHelloMessagesIfNeeded, handleRREPACKTimer,
                handleBlackListTimer, discovery, waitVars
<1>3. ASSUME NEW d \in Node, expungeRoutes(n, d) PROVE UNCHANGED waitVars
    BY <1>3 DEF expungeRoutes, discovery, waitVars
<1>4. ASSUME NEW k \in rreqsArrivalTime[n], ForgetRREQ(n, k) PROVE UNCHANGED waitVars
    BY <1>4 DEF ForgetRREQ, waitVars
<1> QED
    BY <1>1, <1>2, <1>3, <1>4 DEF SelfMessage

LEMMA WaitNext == IndInv /\ WaitInv /\ NeverLimited /\ [Next]_vars => WaitInv'
<1> SUFFICES ASSUME IndInv, WaitInv, NeverLimited, [Next]_vars PROVE WaitInv'
    OBVIOUS
<1>0. UNCHANGED waitVars => WaitInv'
    BY DEF waitVars, WaitInv, DiscoveryTimed, DelayedSought, hasOngoingRouteDiscovery
<1>1. ASSUME NEW fl \in Flow, AppSend(fl) PROVE WaitInv'
  <2> DEFINE p == NewDatagram(fl.src, fl.dst, UnicastTtl, [type |-> "DATA", flow |-> fl])
  <2>1. fl.src \in Node /\ p.dst \in Node
      BY FlowAssumption DEF NewDatagram
  <2>2. ensureRouteForDatagram(fl.src, p, air)
      BY <1>1 DEF AppSend
  <2> HIDE DEF p
  <2> QED
      BY <2>1, <2>2, ensureRouteTimed
<1>2. ASSUME NEW p \in ipOut, IPLocalOut(p) PROVE WaitInv'
  <2>1. p.src \in Node /\ p.dst \in Node
      BY DEF IndInv, TrafficOK, GoodPackets, Datagram
  <2> QED
      BY <1>2, <2>1, ensureRouteTimed DEF IPLocalOut
<1>3. ASSUME NEW p \in ipOut, DropWhenDown(p) PROVE UNCHANGED waitVars
    BY <1>3 DEF DropWhenDown, discovery, waitVars
<1>4. ASSUME NEW f \in air, Receive(f.to, f) PROVE WaitInv'
    BY <1>0, <1>4, AirFrame, FrameFields, ReceiveTimed
<1>5. ASSUME NEW f \in air, LinkBreak(f) \/ FrameLost(f) PROVE UNCHANGED waitVars
    BY <1>5 DEF LinkBreak, FrameLost, discovery, waitVars
<1>6. ASSUME NEW n \in Node, SelfMessage(n) PROVE WaitInv'
    BY <1>0, <1>6, SelfMessageTimed
<1>7. ASSUME NEW n \in Node, Stop(n) PROVE WaitInv'
  <2>1. /\ waitForRREPTimers' = [waitForRREPTimers EXCEPT ![n] = [d \in Node |-> NoTimer]]
        /\ delayedPackets' = [delayedPackets EXCEPT ![n] = {}]
      BY <1>7 DEF Stop, clearState
  <2> QED
      BY <2>1 DEF WaitInv, DiscoveryTimed, DelayedSought, hasOngoingRouteDiscovery, IndInv,
                  DiscoveryOK, DelayedOK
<1>8. ASSUME NEW n \in Node, Start(n) \/ RebootCompleted(n) PROVE UNCHANGED waitVars
    BY <1>8 DEF Start, RebootCompleted, discovery, waitVars
<1>9. CASE UNCHANGED vars
    BY <1>0, <1>9 DEF vars, discovery, waitVars
<1> QED
    BY <1>0, <1>1, <1>2, <1>3, <1>4, <1>5, <1>6, <1>7, <1>8, <1>9 DEF Next

(* As long as no node reaches RREQ_RATELIMIT, whatever crashes, expires or  *)
(* is lost: a datagram in targetAddressToDelayedPackets has a scheduled     *)
(* WaitForRREP timer that will send or drop it.                             *)
THEOREM DelayedDatagramsAreTimed == Spec /\ []NeverLimited => []DelayedHasTimer
<1>1. Init => IndInv /\ WaitInv
  <2>1. Init => WaitInv
      BY DEF Init, WaitInv, DiscoveryTimed, DelayedSought, hasOngoingRouteDiscovery
  <2> QED
      BY <2>1, InitIndInv
<1>2. IndInv /\ WaitInv /\ NeverLimited /\ [Next]_vars => (IndInv /\ WaitInv)'
    BY NextIndInv, WaitNext
<1>3. WaitInv => DelayedHasTimer
    BY DEF WaitInv, DiscoveryTimed, DelayedSought, DelayedHasTimer
<1> QED
    BY <1>1, <1>2, <1>3, PTL DEF Spec

-----------------------------------------------------------------------------
(* The blacklist.  handleRREPACKTimer and handleBlackListTimer set the      *)
(* timer together with the list; only clearState takes one without the      *)
(* other.                                                                   *)

BlacklistTimed == \A n \in Node : blacklist[n] # {} => blacklistTimer[n]

LEMMA AckTimersTimed ==
    ASSUME IndInv, BlacklistTimed, NEW n \in Node,
           handleRREPACKTimer(n) \/ handleBlackListTimer(n)
    PROVE  BlacklistTimed'
<1>1. blacklist \in [Node -> SUBSET (Node \cup {Unspecified})] /\ blacklistTimer \in [Node -> BOOLEAN]
    BY DEF IndInv, AckOK
<1>2. \A m \in Node \ {n} : blacklist'[m] = blacklist[m] /\ blacklistTimer'[m] = blacklistTimer[m]
    BY <1>1 DEF handleRREPACKTimer, handleBlackListTimer
<1>3. blacklist'[n] # {} => blacklistTimer'[n]
  <2>1. CASE handleRREPACKTimer(n)
      BY <1>1, <2>1 DEF handleRREPACKTimer
  <2>2. CASE handleBlackListTimer(n)
    <3>1. PICK expired \in (SUBSET blacklist[n]) \ {{}} :
            /\ blacklist' = [blacklist EXCEPT ![n] = @ \ expired]
            /\ blacklistTimer' = [blacklistTimer EXCEPT ![n] = blacklist[n] # expired]
        BY <2>2 DEF handleBlackListTimer
    <3>2. blacklist'[n] = blacklist[n] \ expired
        BY <1>1, <3>1
    <3>3. blacklistTimer'[n] = (blacklist[n] # expired)
        BY <1>1, <3>1
    <3>4. blacklist[n] \ expired # {} => blacklist[n] # expired
        OBVIOUS
    <3> QED
        BY <3>2, <3>3, <3>4
  <2> QED
      BY <2>1, <2>2
<1> QED
    BY <1>2, <1>3 DEF BlacklistTimed

LEMMA BlacklistNext ==
    ASSUME IndInv, BlacklistTimed, [Next]_vars, [\A n \in Node : ~Stop(n)]_vars
    PROVE  BlacklistTimed'
<1>0. UNCHANGED <<blacklist, blacklistTimer>> => BlacklistTimed'
    BY DEF BlacklistTimed
<1>1. ASSUME NEW n, NEW p, NEW rest, ensureRouteForDatagram(n, p, rest)
      PROVE  UNCHANGED <<blacklist, blacklistTimer>>
    BY <1>1 DEF ensureRouteForDatagram, RouteOut, delayDatagram, ackVars
<1>2. ASSUME \/ \E fl \in Flow : AppSend(fl)
             \/ \E p \in ipOut : IPLocalOut(p) \/ DropWhenDown(p)
      PROVE  UNCHANGED <<blacklist, blacklistTimer>>
    BY <1>1, <1>2 DEF AppSend, IPLocalOut, DropWhenDown, ackVars
<1>3. ASSUME NEW f \in air, LinkBreak(f) \/ FrameLost(f)
      PROVE  UNCHANGED <<blacklist, blacklistTimer>>
    BY <1>3 DEF LinkBreak, FrameLost, ackVars
<1>4. ASSUME NEW f \in air, Receive(f.to, f)
      PROVE  UNCHANGED <<blacklist, blacklistTimer>>
  <2>1. CASE handleRREQ(f.to, f)
      BY <2>1 DEF handleRREQ, RREQIgnored, RREQDuplicate, RREQReplyAsDestination,
                  RREQReplyAsIntermediate, RREQWouldLoop, RREQForward, sendRREP, ackVars
  <2>2. CASE handleRREP(f.to, f)
      BY <2>2 DEF handleRREP, RREPHello, RREPForward, RREPStops, RREPCompletes, ackVars
  <2>3. CASE \/ handleRERR(f.to, f) \/ DelayReturned(f.to, f)
             \/ datagramForwardHook(f.to, f) \/ DeliverData(f.to, f)
      BY <2>3 DEF handleRERR, DelayReturned, delayDatagram, datagramForwardHook, DeliverData,
                  ackVars
  <2> QED
      BY <1>4, <2>1, <2>2, <2>3 DEF Receive
<1>5. ASSUME NEW n \in Node, SelfMessage(n)
      PROVE  BlacklistTimed'
  <2>1. CASE handleRREPACKTimer(n) \/ handleBlackListTimer(n)
      BY <2>1, AckTimersTimed
  <2>2. CASE \/ \E d \in Node : handleWaitForRREP(n, d) \/ expungeRoutes(n, d)
             \/ \E k \in rreqsArrivalTime[n] : ForgetRREQ(n, k)
             \/ CounterTimer(n) \/ sendHelloMessagesIfNeeded(n)
      BY <1>0, <2>2 DEF handleWaitForRREP, expungeRoutes, ForgetRREQ, CounterTimer,
                        sendHelloMessagesIfNeeded, ackVars
  <2> QED
      BY <1>5, <2>1, <2>2 DEF SelfMessage
<1>6. ASSUME NEW n \in Node, Start(n) \/ RebootCompleted(n)
      PROVE  UNCHANGED <<blacklist, blacklistTimer>>
    BY <1>6 DEF Start, RebootCompleted, ackVars
<1>7. CASE UNCHANGED vars
    BY <1>0, <1>7 DEF vars, ackVars
<1> QED
    BY <1>0, <1>2, <1>3, <1>4, <1>5, <1>6, <1>7 DEF Next

(* As long as no node stops, a node with a blacklist has the timer that     *)
(* empties it, whatever is lost or expires: what aodv_blacklist shows of    *)
(* clearState is the only way to leave nodes on the list for ever.          *)
THEOREM BlacklistIsTimed ==
    Spec /\ [][\A n \in Node : ~Stop(n)]_vars => []BlacklistHasTimer
<1>1. Init => IndInv /\ BlacklistTimed
  <2>1. Init => BlacklistTimed
      BY DEF Init, BlacklistTimed
  <2> QED
      BY <2>1, InitIndInv
<1>2. IndInv /\ BlacklistTimed /\ [Next]_vars /\ [\A n \in Node : ~Stop(n)]_vars
        => (IndInv /\ BlacklistTimed)'
    BY NextIndInv, BlacklistNext
<1>3. BlacklistTimed => BlacklistHasTimer
    BY DEF BlacklistTimed, BlacklistHasTimer
<1> QED
    BY <1>1, <1>2, <1>3, PTL DEF Spec
=============================================================================
