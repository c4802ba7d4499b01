-------------------------- MODULE AODVLoops_proofs --------------------------
(***************************************************************************)
(* When the routes of module AODVRouting are free of loops.  They are not  *)
(* in every network: where two paths lead to a destination they can close  *)
(* (run aodv_loop).                                                        *)
(*                                                                         *)
(* ForestIsLoopFree restricts the network: in a forest, where there is one *)
(* path at most, they cannot close, whatever is lost, late or expires and  *)
(* whoever stops, unless a node starts in the middle of a flood.           *)
(* OrderedIsLoopFree restricts the behaviour: in any finite network they   *)
(* do not close as long as no node exchanges a route for a worse one.      *)
(***************************************************************************)
EXTENDS AODVDelivery_proofs, WellFoundedInduction

-----------------------------------------------------------------------------
(* Forests.  Two nodes are joined by an edge when one of them hears the     *)
(* other; hops[n][d] is the length of the path from n to d.  Of the two     *)
(* ends of an edge one is nearer to d, and a node has at most one neighbour *)
(* that is nearer than itself: there is one path at most.                   *)

CONSTANT hops

Edge(x, y) == <<x, y>> \in Link \/ <<y, x>> \in Link

Nearer(x, y, d) == hops[x][d] < hops[y][d]

IsForest ==
    /\ hops \in [Node -> [Node -> Nat]]
    /\ \A n \in Node : hops[n][n] = 0
    /\ \A x, y, d \in Node : Edge(x, y) => hops[x][d] # hops[y][d]
    /\ \A n, x, y, d \in Node :
          Edge(n, x) /\ Edge(n, y) /\ Nearer(x, n, d) /\ Nearer(y, n, d) => x = y

(* No node starts while a request is in the air.                            *)
RestartsWait == \A n \in Node : Start(n) => \A f \in air : f.dgram.body.type # "RREQ"

LEMMA EitherSide ==
    ASSUME IsForest, NEW x \in Node, NEW y \in Node, NEW d \in Node, Edge(x, y)
    PROVE  /\ Nearer(x, y, d) \/ Nearer(y, x, d)
           /\ ~(Nearer(x, y, d) /\ Nearer(y, x, d))
<1>1. hops[x][d] \in Nat /\ hops[y][d] \in Nat /\ hops[x][d] # hops[y][d]
    BY DEF IsForest
<1> QED
    BY <1>1 DEF Nearer

LEMMA OneNearer ==
    ASSUME IsForest, NEW n \in Node, NEW x \in Node, NEW y \in Node, NEW d \in Node,
           Edge(n, x), Edge(n, y), Nearer(x, n, d), Nearer(y, n, d)
    PROVE  x = y
BY DEF IsForest

LEMMA NearerToSelf ==
    ASSUME IsForest, NEW n \in Node, NEW m \in Node, Edge(n, m)
    PROVE  Nearer(m, n, m) /\ ~Nearer(n, m, m)
<1>1. hops[m][m] = 0 /\ hops[n][m] \in Nat /\ hops[n][m] # hops[m][m]
    BY DEF IsForest
<1> QED
    BY <1>1 DEF Nearer

LEMMA EdgeBothWays ==
    ASSUME NEW x, NEW y, Edge(x, y) PROVE Edge(y, x)
BY DEF Edge

-----------------------------------------------------------------------------
(* The invariant.  Every route leads to the neighbour that is nearer to its *)
(* destination.  A reply moves away from the node it advertises and towards *)
(* the node that asked; a request that its receiver has not seen comes from *)
(* the side of its originator, because it crosses each edge once.           *)

HomeTable(n, t) ==
    \A d \in Node : HasRoute(t, d) => Edge(n, t[d].nextHop) /\ Nearer(t[d].nextHop, n, d)

HomeReply(p) ==
    IF p.dst = Broadcast THEN p.body.dest = p.src /\ p.body.orig = Unspecified
    ELSE /\ Edge(p.src, p.dst) /\ Nearer(p.src, p.dst, p.body.dest)
         /\ p.body.orig \in Node /\ Nearer(p.dst, p.src, p.body.orig)

(* What a node hands to IPv4, or IPv4 holds back.                           *)
HomePacket(p) == p.dst # Broadcast /\ (IsData(p) \/ (p.body.type = "RREP" /\ HomeReply(p)))

Seen(n, id) == RREQSeen(n, id) \/ ~isOperational[n]

HomeRequest(f) ==
    /\ f.dgram.dst = Broadcast
    /\ Seen(f.from, f.dgram.body.rreqId)
    /\ Nearer(f.from, f.to, f.dgram.body.orig) \/ Seen(f.to, f.dgram.body.rreqId)

HomeFrame(f) ==
    /\ ~IsData(f.dgram) =>
          f.from = f.dgram.src /\ Edge(f.from, f.to) /\ f.dgram.dst \in {Broadcast, f.to}
    /\ f.dgram.body.type = "RREP" => HomeReply(f.dgram)
    /\ f.dgram.body.type = "RREQ" => HomeRequest(f)

HomeInv ==
    /\ \A n \in Node : HomeTable(n, routes[n])
    /\ \A p \in ipOut : HomePacket(p)
    /\ \A n \in Node : \A p \in delayedPackets[n] : HomePacket(p) /\ p.src = n
    /\ \A f \in air : HomeFrame(f)

(* What a step has to show.                                                 *)
StillSeen ==
    \A f \in air : f \in air' /\ f.dgram.body.type = "RREQ" =>
        \A n \in Node : Seen(n, f.dgram.body.rreqId) => Seen(n, f.dgram.body.rreqId)'

LEMMA StepHome ==
    ASSUME IndInv, HomeInv, StillSeen,
           \A n \in Node : HomeTable(n, routes[n])',
           \A p \in ipOut' : p \in ipOut \/ HomePacket(p),
           \A n \in Node : \A p \in delayedPackets'[n] :
               p \in delayedPackets[n] \/ (HomePacket(p) /\ p.src = n),
           \A f \in air' : f \in air \/ HomeFrame(f)'
    PROVE  HomeInv'
<1>1. ASSUME NEW f \in air, f \in air' PROVE HomeFrame(f)'
  <2>1. HomeFrame(f) /\ f.from \in Node /\ f.to \in Node
      BY AirFrame DEF HomeInv
  <2>2. ASSUME f.dgram.body.type = "RREQ" PROVE HomeRequest(f)'
      BY <1>1, <2>1, <2>2 DEF HomeFrame, HomeRequest, StillSeen
  <2> QED
      BY <2>1, <2>2 DEF HomeFrame
<1> QED
    BY <1>1 DEF HomeInv, HomePacket, HomeReply, IsData

-----------------------------------------------------------------------------
(* Tables on the way through a handler.                                     *)

GoodHome(n, t) == t \in RouteTable /\ HomeTable(n, t)

LEMMA OwnHome == ASSUME IndInv, HomeInv, NEW n \in Node PROVE GoodHome(n, routes[n])
BY TableOfNode DEF IndInv, HomeInv, GoodHome

LEMMA UpdateRouteHome ==
    ASSUME NEW n \in Node, NEW t, GoodHome(n, t), NEW d \in Node, NEW nh \in Node, NEW h \in Nat,
           NEW v \in BOOLEAN, NEW s \in Nat, Edge(n, nh), Nearer(nh, n, d)
    PROVE  GoodHome(n, UpdateRoute(t, d, nh, h, v, s))
<1> DEFINE u == UpdateRoute(t, d, nh, h, v, s)
<1>0. t \in RouteTable
    BY DEF GoodHome
<1>1. u \in RouteTable
    BY <1>0, UpdateRouteType
<1>2. u[d].nextHop = nh
    BY <1>0 DEF UpdateRoute, RouteTable
<1>3. \A e \in Node : e # d => u[e] = t[e]
    BY <1>0 DEF UpdateRoute, RouteTable
<1> HIDE DEF u
<1>4. HomeTable(n, u)
    BY <1>2, <1>3 DEF GoodHome, HomeTable, HasRoute
<1> QED
    BY <1>1, <1>4 DEF GoodHome, u

(* An operation that gives no route another next hop.                       *)
SameHops(t, u) ==
    \A d \in Node : HasRoute(u, d) => HasRoute(t, d) /\ u[d].nextHop = t[d].nextHop

LEMMA SameHopsHome ==
    ASSUME NEW n, NEW t, NEW u, HomeTable(n, t), SameHops(t, u) PROVE HomeTable(n, u)
BY DEF HomeTable, SameHops

LEMMA AddPrecursorHops ==
    ASSUME NEW t \in RouteTable, NEW d \in Node PROVE SameHops(t, AddPrecursor(t, d))
<1>1. CASE ~HasRoute(t, d)
    BY <1>1 DEF AddPrecursor, SameHops
<1>2. CASE HasRoute(t, d)
  <2> DEFINE r == [t[d] EXCEPT !.hasPrecursor = TRUE]
             u == AddPrecursor(t, d)
  <2>1. t[d] \in Route
      BY <1>2 DEF RouteTable, HasRoute
  <2>2. r.nextHop = t[d].nextHop
      BY <2>1 DEF Route
  <2>3. u = [t EXCEPT ![d] = r]
      BY <1>2 DEF AddPrecursor
  <2> HIDE DEF r, u
  <2>4. u[d] = r /\ \A e \in Node : e # d => u[e] = t[e]
      BY <2>3 DEF RouteTable
  <2>5. SameHops(t, u)
      BY <1>2, <2>2, <2>4 DEF SameHops, HasRoute
  <2> QED
      BY <2>5 DEF u
<1> QED
    BY <1>1, <1>2

LEMMA AddPrecursorHome ==
    ASSUME NEW n \in Node, NEW t, GoodHome(n, t), NEW d \in Node
    PROVE  GoodHome(n, AddPrecursor(t, d))
<1>1. t \in RouteTable
    BY DEF GoodHome
<1>2. AddPrecursor(t, d) \in RouteTable
    BY <1>1, AddPrecursorSound
<1> QED
    BY <1>1, <1>2, AddPrecursorHops, SameHopsHome DEF GoodHome

LEMMA BreakLinkHops ==
    ASSUME NEW t \in RouteTable, NEW x PROVE SameHops(t, BreakLink(t, x))
<1> SUFFICES ASSUME NEW d \in Node, HasRoute(BreakLink(t, x), d)
             PROVE  HasRoute(t, d) /\ BreakLink(t, x)[d].nextHop = t[d].nextHop
    BY DEF SameHops
<1>1. CASE d \in RoutesVia(t, x)
  <2>1. HasRoute(t, d) /\ t[d] \in Route
      BY <1>1 DEF RoutesVia, IsActive, HasRoute, RouteTable
  <2>2. PICK s : s = NextSeqNum(t[d])
      OBVIOUS
  <2>3. BreakLink(t, x)[d] = [t[d] EXCEPT !.active = FALSE, !.destSeqNum = s]
      BY <1>1, <2>2 DEF BreakLink
  <2> QED
      BY <2>1, <2>3 DEF Route
<1>2. CASE d \notin RoutesVia(t, x)
    BY <1>2 DEF BreakLink, HasRoute
<1> QED
    BY <1>1, <1>2

LEMMA ApplyRERRHops ==
    ASSUME NEW t \in RouteTable, NEW src, NEW e PROVE SameHops(t, ApplyRERR(t, src, e))
<1> SUFFICES ASSUME NEW d \in Node, HasRoute(ApplyRERR(t, src, e), d)
             PROVE  HasRoute(t, d) /\ ApplyRERR(t, src, e)[d].nextHop = t[d].nextHop
    BY DEF SameHops
<1>1. CASE d \in RoutesVia(t, src) \cap e.dests
  <2>1. HasRoute(t, d) /\ t[d] \in Route
      BY <1>1 DEF RoutesVia, IsActive, HasRoute, RouteTable
  <2>2. PICK s : s = e.seqNum[d]
      OBVIOUS
  <2>3. ApplyRERR(t, src, e)[d] = [t[d] EXCEPT !.active = FALSE, !.destSeqNum = s]
      BY <1>1, <2>2 DEF ApplyRERR
  <2> QED
      BY <2>1, <2>3 DEF Route
<1>2. CASE d \notin RoutesVia(t, src) \cap e.dests
    BY <1>2 DEF ApplyRERR, HasRoute
<1> QED
    BY <1>1, <1>2

LEMMA OneEntryHops ==
    ASSUME NEW t \in RouteTable, NEW d \in Node, NEW r, HasRoute(t, d),
           r = NoRoute \/ r.nextHop = t[d].nextHop
    PROVE  SameHops(t, [t EXCEPT ![d] = r])
BY DEF SameHops, HasRoute, RouteTable

LEMMA PenaliseRouteHops ==
    ASSUME NEW t \in RouteTable, NEW d \in Node, HasRoute(t, d)
    PROVE  SameHops(t, PenaliseRoute(t, d))
<1>1. t[d] \in Route
    BY DEF RouteTable, HasRoute
<1>2. PICK s : s = NextSeqNum(t[d])
    OBVIOUS
<1>3. PICK r : r = [t[d] EXCEPT !.destSeqNum = s]
    OBVIOUS
<1>4. r.nextHop = t[d].nextHop
    BY <1>1, <1>3 DEF Route
<1>5. PenaliseRoute(t, d) = [t EXCEPT ![d] = r]
    BY <1>2, <1>3 DEF PenaliseRoute
<1> QED
    BY <1>4, <1>5, OneEntryHops

LEMMA ExpungeRouteHops ==
    ASSUME NEW t \in RouteTable, NEW d \in Node, HasRoute(t, d)
    PROVE  SameHops(t, ExpungeRoute(t, d))
<1>1. t[d] \in Route
    BY DEF RouteTable, HasRoute
<1>2. PICK r : r = [t[d] EXCEPT !.active = FALSE]
    OBVIOUS
<1>3. r.nextHop = t[d].nextHop
    BY <1>1, <1>2 DEF Route
<1>4. \/ ExpungeRoute(t, d) = [t EXCEPT ![d] = r]
      \/ ExpungeRoute(t, d) = [t EXCEPT ![d] = NoRoute]
    BY <1>2 DEF ExpungeRoute
<1> QED
    BY <1>3, <1>4, OneEntryHops

(* A handler installs a table.                                              *)
LEMMA InstallHome ==
    ASSUME IndInv, HomeInv, NEW n \in Node, NEW t, HomeTable(n, t), SetRoutes(n, t)
    PROVE  \A m \in Node : HomeTable(m, routes[m])'
<1>1. \A m \in Node : routes'[m] = IF m = n THEN t ELSE routes[m]
    BY DEF SetRoutes, IndInv, TablesOK
<1> QED
    BY <1>1 DEF HomeInv, HomeTable

LEMMA KeptHome ==
    ASSUME HomeInv, UNCHANGED routes PROVE \A m \in Node : HomeTable(m, routes[m])'
BY DEF HomeInv, HomeTable

(* A route to a neighbour goes straight to it.                              *)
LEMMA DirectHop ==
    ASSUME IsForest, NEW n \in Node, NEW m \in Node, NEW nh \in Node, Edge(n, m), Edge(n, nh),
           Nearer(nh, n, m)
    PROVE  nh = m
BY NearerToSelf, OneNearer

LEMMA HomeHop ==
    ASSUME NEW n \in Node, NEW t, GoodHome(n, t), NEW d \in Node, HasRoute(t, d)
    PROVE  t[d].nextHop \in Node /\ Edge(n, t[d].nextHop) /\ Nearer(t[d].nextHop, n, d)
BY DEF GoodHome, HomeTable, RouteTable, HasRoute, Route

-----------------------------------------------------------------------------
(* What a step remembers and what it sends.                                 *)

LEMMA SameSeen ==
    ASSUME UNCHANGED <<rreqsArrivalTime, isOperational>> PROVE StillSeen
BY DEF StillSeen, Seen, RREQSeen

LEMMA RememberSeen ==
    ASSUME IndInv, NEW n \in Node, NEW o \in Node, NEW id \in Nat, RememberRREQ(n, o, id),
           UNCHANGED isOperational
    PROVE  StillSeen /\ Seen(n, id)'
<1>0. rreqsArrivalTime \in [Node -> SUBSET (Node \X Nat)]
    BY DEF IndInv, DiscoveryOK
<1>1. \A m \in Node : rreqsArrivalTime[m] \subseteq rreqsArrivalTime'[m]
    BY <1>0 DEF RememberRREQ
<1>2. RREQSeen(n, id)'
  <2>1. CASE RREQSeen(n, id)
      BY <1>1, <2>1 DEF RREQSeen
  <2>2. CASE ~RREQSeen(n, id)
    <3>1. <<o, id>> \in rreqsArrivalTime'[n] /\ <<o, id>>[2] = id
        BY <1>0, <2>2 DEF RememberRREQ
    <3> QED
        BY <3>1 DEF RREQSeen
  <2> QED
      BY <2>1, <2>2
<1>3. \A m \in Node : \A i : Seen(m, i) => Seen(m, i)'
    BY <1>1 DEF Seen, RREQSeen
<1> QED
    BY <1>2, <1>3 DEF StillSeen, Seen

LEMMA BroadcastEdges ==
    ASSUME NEW n \in Node, NEW ttl, NEW x
    PROVE  \A f \in BroadcastFrames(n, ttl, x) :
              /\ f.from = n /\ f.to \in Node /\ Edge(n, f.to)
              /\ f.dgram.src = n /\ f.dgram.dst = Broadcast /\ f.dgram.body = x
<1> SUFFICES ASSUME NEW f \in BroadcastFrames(n, ttl, x)
             PROVE  /\ f.from = n /\ f.to \in Node /\ Edge(n, f.to)
                    /\ f.dgram.src = n /\ f.dgram.dst = Broadcast /\ f.dgram.body = x
    OBVIOUS
<1>0. PICK p : p = NewDatagram(n, Broadcast, ttl, x)
    OBVIOUS
<1>1. p.src = n /\ p.dst = Broadcast /\ p.body = x
    BY <1>0 DEF NewDatagram
<1>2. PICK m \in Node : <<n, m>> \in Link /\ f = [from |-> n, to |-> m, dgram |-> p]
    BY <1>0 DEF BroadcastFrames
<1>3. f.from = n /\ f.to = m /\ f.dgram = p
    BY <1>2
<1> QED
    BY <1>1, <1>2, <1>3 DEF Edge

LEMMA ErrorHome ==
    ASSUME NEW n \in Node, NEW ttl, NEW x, x.type = "RERR"
    PROVE  \A f \in BroadcastFrames(n, ttl, x) : HomeFrame(f)'
BY BroadcastEdges DEF HomeFrame

(* A request that n sends or passes on moves away from its originator, and  *)
(* the neighbour it came from has seen it.                                  *)
LEMMA RequestHome ==
    ASSUME NEW n \in Node, NEW ttl, NEW q, q.type = "RREQ", Seen(n, q.rreqId)',
           \A m \in Node : Edge(n, m) => Nearer(n, m, q.orig) \/ Seen(m, q.rreqId)'
    PROVE  \A f \in BroadcastFrames(n, ttl, q) : HomeFrame(f)'
<1> SUFFICES ASSUME NEW f \in BroadcastFrames(n, ttl, q) PROVE HomeFrame(f)'
    OBVIOUS
<1>1. /\ f.from = n /\ f.to \in Node /\ Edge(n, f.to)
      /\ f.dgram.src = n /\ f.dgram.dst = Broadcast /\ f.dgram.body = q
    BY BroadcastEdges
<1>2. HomeRequest(f)'
    BY <1>1 DEF HomeRequest
<1> QED
    BY <1>1, <1>2 DEF HomeFrame

LEMMA ReplyHome ==
    ASSUME NEW n \in Node, NEW dst \in Node, NEW x, x.type = "RREP", Edge(n, dst),
           Nearer(n, dst, x.dest), x.orig \in Node, Nearer(dst, n, x.orig)
    PROVE  HomePacket(UnicastControl(n, dst, x))
<1>0. PICK p : p = UnicastControl(n, dst, x)
    OBVIOUS
<1>1. p.src = n /\ p.dst = dst /\ p.body = x /\ dst # Broadcast
    BY <1>0, AddressAssumption DEF UnicastControl, NewDatagram
<1>2. HomePacket(p)
    BY <1>1 DEF HomePacket, HomeReply
<1> QED
    BY <1>0, <1>2

(* IPv4 sends what n hands to it to the neighbour nearer to the datagram's  *)
(* destination, which for a reply is the destination itself.                *)
LEMMA UnicastHome ==
    ASSUME IsForest, NEW n \in Node, NEW nh \in Node, NEW p \in Datagram, HomePacket(p),
           p.src = n, p.dst \in Node, Edge(n, nh), Nearer(nh, n, p.dst)
    PROVE  \A f \in UnicastFrame(n, nh, p) : HomeFrame(f)'
<1> SUFFICES ASSUME NEW f \in UnicastFrame(n, nh, p) PROVE HomeFrame(f)'
    OBVIOUS
<1>1. f.dgram = p /\ f.from = n /\ f.to = nh
    BY UnicastCarries
<1>2. CASE IsData(p)
    BY <1>1, <1>2 DEF HomeFrame, IsData
<1>3. CASE p.body.type = "RREP" /\ HomeReply(p)
  <2>1. Edge(n, p.dst)
      BY <1>3, AddressAssumption DEF HomeReply
  <2>2. nh = p.dst
      BY <2>1, DirectHop
  <2> QED
      BY <1>1, <1>3, <2>2 DEF HomeFrame, HomeReply, IsData
<1> QED
    BY <1>2, <1>3 DEF HomePacket

LEMMA OriginateHome ==
    ASSUME IsForest, IndInv, NEW n \in Node, NEW d \in Node, NEW timers, NEW rest,
           OriginateRREQ(n, d, timers, rest), UNCHANGED isOperational
    PROVE  StillSeen /\ \A f \in air' : f \in rest \/ HomeFrame(f)'
<1>1. PICK q, ttl : q = createRREQ(n, d) /\ ttl = NextTTL(timers[d])
    OBVIOUS
<1>2. q.type = "RREQ" /\ q.orig = n /\ q.rreqId = rreqId[n] + 1 /\ q.rreqId \in Nat
    BY <1>1 DEF createRREQ, IndInv, CountersOK
<1>3. StillSeen /\ Seen(n, q.rreqId)'
  <2>1. RememberRREQ(n, n, q.rreqId)
      BY <1>2 DEF OriginateRREQ
  <2> QED
      BY <1>2, <2>1, RememberSeen
<1>4. \A f \in BroadcastFrames(n, ttl, q) : HomeFrame(f)'
  <2>1. \A m \in Node : Edge(n, m) => Nearer(n, m, q.orig)
      BY <1>2, NearerToSelf, EdgeBothWays
  <2> QED
      BY <1>2, <1>3, <2>1, RequestHome
<1>5. air' = rest \/ air' = rest \cup BroadcastFrames(n, ttl, q)
    BY <1>1 DEF OriginateRREQ
<1> QED
    BY <1>3, <1>4, <1>5

LEMMA delayDatagramHome ==
    ASSUME IsForest, IndInv, NEW n \in Node, NEW p, p.dst \in Node, NEW rest,
           delayDatagram(n, p, rest)
    PROVE  /\ StillSeen /\ \A f \in air' : f \in rest \/ HomeFrame(f)'
           /\ UNCHANGED <<isOperational, budget, routes>>
           /\ \A m \in Node : delayedPackets'[m] = IF m = n THEN delayedPackets[n] \cup {p}
                                                   ELSE delayedPackets[m]
<1>1. UNCHANGED <<isOperational, budget, routes>>
    BY DEF delayDatagram, lifecycle
<1>2. CASE hasOngoingRouteDiscovery(n, p.dst)
  <2>1. air' = rest /\ UNCHANGED rreqsArrivalTime
      BY <1>2 DEF delayDatagram
  <2> QED
      BY <1>1, <2>1, SameSeen, delayDatagramPlaces
<1>3. CASE ~hasOngoingRouteDiscovery(n, p.dst)
  <2>1. OriginateRREQ(n, p.dst, waitForRREPTimers[n], rest)
      BY <1>3 DEF delayDatagram
  <2> QED
      BY <1>1, <2>1, OriginateHome, delayDatagramPlaces
<1> QED
    BY <1>2, <1>3

LEMMA ensureRouteHome ==
    ASSUME IsForest, IndInv, HomeInv, NEW n \in Node, NEW p \in Datagram, HomePacket(p),
           p.src = n, p.dst \in Node, ensureRouteForDatagram(n, p, air), ipOut' \subseteq ipOut
    PROVE  HomeInv'
<1>1. CASE RouteOut(n, p, air)
  <2>1. PICK nh : nh = routes[n][p.dst].nextHop
      OBVIOUS
  <2>2. /\ air' = air \cup UnicastFrame(n, nh, p) /\ HasRoute(routes[n], p.dst)
        /\ UNCHANGED <<delayedPackets, isOperational, budget, routes, rreqsArrivalTime>>
      BY <1>1, <2>1 DEF RouteOut, lifecycle, discovery, IsActive
  <2>3. nh \in Node /\ Edge(n, nh) /\ Nearer(nh, n, p.dst)
      BY <2>1, <2>2, OwnHome, HomeHop
  <2>4. \A f \in UnicastFrame(n, nh, p) : HomeFrame(f)'
      BY <2>3, UnicastHome
  <2>5. StillSeen /\ \A m \in Node : HomeTable(m, routes[m])'
      BY <2>2, SameSeen, KeptHome
  <2>6. /\ \A x \in ipOut' : x \in ipOut \/ HomePacket(x)
        /\ \A m \in Node : \A x \in delayedPackets'[m] : x \in delayedPackets[m]
        /\ \A f \in air' : f \in air \/ HomeFrame(f)'
      BY <2>2, <2>4
  <2> QED
      BY <2>5, <2>6, StepHome
<1>2. CASE delayDatagram(n, p, air)
  <2>1. /\ StillSeen /\ \A f \in air' : f \in air \/ HomeFrame(f)'
        /\ UNCHANGED <<isOperational, budget, routes>>
        /\ \A m \in Node : delayedPackets'[m] = IF m = n THEN delayedPackets[n] \cup {p}
                                                ELSE delayedPackets[m]
      BY <1>2, delayDatagramHome
  <2>2. \A m \in Node : HomeTable(m, routes[m])'
      BY <2>1, KeptHome
  <2>3. /\ \A x \in ipOut' : x \in ipOut \/ HomePacket(x)
        /\ \A m \in Node : \A x \in delayedPackets'[m] :
              x \in delayedPackets[m] \/ (HomePacket(x) /\ x.src = m)
      BY <2>1
  <2> QED
      BY <2>1, <2>2, <2>3, StepHome
<1> QED
    BY <1>1, <1>2 DEF ensureRouteForDatagram

-----------------------------------------------------------------------------
(* Receiving a control packet.                                              *)

LEMMA SenderNextDoor ==
    ASSUME IndInv, HomeInv, NEW n \in Node, NEW f \in air, NEW type, type # "DATA",
           Arrives(n, f, type)
    PROVE  /\ f.dgram.src \in Node /\ f.from = f.dgram.src /\ f.to = n
           /\ Edge(n, f.dgram.src) /\ HomeFrame(f)
<1>1. HomeFrame(f) /\ f.dgram.src \in Node /\ f.to = n /\ ~IsData(f.dgram)
    BY AirFrame DEF HomeInv, Arrives, IsData
<1> QED
    BY <1>1, EdgeBothWays DEF HomeFrame

LEMMA PreviousHopHome ==
    ASSUME IsForest, IndInv, HomeInv, NEW n \in Node, NEW f \in air, NEW type, type # "DATA",
           Arrives(n, f, type), f.dgram.body.origSeqNum \in Nat
    PROVE  GoodHome(n, TableAfterPreviousHop(n, f))
<1> DEFINE src == f.dgram.src
           s == f.dgram.body.origSeqNum
<1>1. src \in Node /\ Edge(n, src) /\ Nearer(src, n, src) /\ s \in Nat
    BY SenderNextDoor, NearerToSelf
<1>2. GoodHome(n, routes[n]) /\ 1 \in Nat /\ FALSE \in BOOLEAN
    BY OwnHome
<1>3. TableAfterPreviousHop(n, f) = UpdateRoute(routes[n], src, src, 1, FALSE, s)
    BY DEF TableAfterPreviousHop, PreviousHopRoute
<1> HIDE DEF src, s
<1> QED
    BY <1>1, <1>2, <1>3, UpdateRouteHome

(* A request that is no duplicate came from the side of its originator.     *)
LEMMA ReverseHome ==
    ASSUME IsForest, IndInv, HomeInv, NEW n \in Node, NEW f \in air, FreshRREQ(n, f)
    PROVE  /\ GoodHome(n, TableAfterRREQ(n, f))
           /\ HasRoute(TableAfterRREQ(n, f), f.dgram.body.orig)
           /\ Nearer(f.dgram.src, n, f.dgram.body.orig)
           /\ Seen(f.dgram.src, f.dgram.body.rreqId)
           /\ f.dgram.src \in Node /\ Edge(n, f.dgram.src)
           /\ f.dgram.body.orig \in Node /\ f.dgram.body.dest \in Node
           /\ f.dgram.body.rreqId \in Nat /\ f.dgram.body \in RREQ
<1> DEFINE q == f.dgram.body
           src == f.dgram.src
           t == TableAfterPreviousHop(n, f)
           h == NewHopCount(q)
<1>0. Arrives(n, f, "RREQ") /\ ~Seen(n, q.rreqId) /\ q.type = "RREQ"
    BY DEF FreshRREQ, Arrives, Seen
<1>1. /\ q \in RREQ /\ q.orig \in Node /\ q.origSeqNum \in Nat /\ h \in Nat /\ q.dest \in Node
      /\ q.rreqId \in Nat /\ HasRoute(TableAfterRREQ(n, f), q.orig)
    BY <1>0, RREQFrame DEF RREQ, NewHopCount
<1>2. src \in Node /\ Edge(n, src) /\ f.from = src /\ f.to = n /\ HomeFrame(f)
    BY <1>0, SenderNextDoor
<1>3. Nearer(src, n, q.orig) /\ Seen(src, q.rreqId)
    BY <1>0, <1>2 DEF HomeFrame, HomeRequest
<1>4. GoodHome(n, t)
    BY <1>0, <1>1, PreviousHopHome
<1>5. HasRoute(t, q.orig) => Larger(t[q.orig].destSeqNum, q.origSeqNum) \in Nat
  <2>1. HasRoute(t, q.orig) => t[q.orig].destSeqNum \in Nat
      BY <1>1, <1>4 DEF GoodHome, RouteTable, HasRoute, Route
  <2> QED
      BY <1>1, <2>1 DEF Larger
<1>6. \/ TableAfterRREQ(n, f) = t
      \/ \E s \in Nat : TableAfterRREQ(n, f) = UpdateRoute(t, q.orig, src, h, TRUE, s)
  <2>1. TableAfterRREQ(n, f) = ReverseRoute(t, src, q)
      BY DEF TableAfterRREQ
  <2> HIDE DEF q, src, t
  <2> QED
      BY <1>1, <1>5, <2>1 DEF ReverseRoute, h
<1>7. TRUE \in BOOLEAN
    OBVIOUS
<1> HIDE DEF q, src, t, h
<1>8. \A s \in Nat : GoodHome(n, UpdateRoute(t, q.orig, src, h, TRUE, s))
    BY <1>1, <1>2, <1>3, <1>4, <1>7, UpdateRouteHome
<1> QED
    BY <1>1, <1>2, <1>3, <1>4, <1>6, <1>8 DEF q, src

LEMMA FreshSeen ==
    ASSUME IsForest, IndInv, HomeInv, NEW n \in Node, NEW f \in air, FreshRREQ(n, f),
           UNCHANGED isOperational
    PROVE  StillSeen /\ Seen(n, f.dgram.body.rreqId)'
BY ReverseHome, RememberSeen DEF FreshRREQ

(* A handler that only installs a table, or does nothing.                   *)
LEMMA QuietHome ==
    ASSUME IndInv, HomeInv, StillSeen, NEW n \in Node, NEW t, GoodHome(n, t), SetRoutes(n, t),
           air' \subseteq air,
           UNCHANGED <<isOperational, budget, delayedPackets, ipOut>>
    PROVE  HomeInv'
<1>1. (\A m \in Node : HomeTable(m, routes[m])')
    BY InstallHome DEF GoodHome
<1> QED
    BY <1>1, StepHome

(* A reply goes to the neighbour nearer to the originator, away from the    *)
(* node it advertises.                                                      *)
LEMMA sendRREPHome ==
    ASSUME IndInv, HomeInv, NEW n \in Node, NEW t, GoodHome(n, t), NEW reply,
           reply.type = "RREP", reply.orig \in Node, reply.dest \in Node,
           HasRoute(t, reply.orig),
           Nearer(n, t[reply.orig].nextHop, reply.dest),
           NEW others, sendRREP(n, t, reply, others)
    PROVE  /\ \A m \in Node : HomeTable(m, routes[m])'
           /\ \A p \in ipOut' : p \in ipOut \/ p \in others \/ HomePacket(p)
<1> DEFINE u == AddPrecursor(t, reply.orig)
           r == t[reply.orig]
<1>1. GoodHome(n, u) /\ SetRoutes(n, u)
    BY AddPrecursorHome DEF sendRREP
<1> HIDE DEF u
<1>2. \A m \in Node : HomeTable(m, routes[m])'
    BY <1>1, InstallHome DEF GoodHome
<1>3. PICK ack, x : /\ x = [reply EXCEPT !.ack = ack]
                    /\ ipOut' = ipOut \cup others \cup {UnicastControl(n, r.nextHop, x)}
    BY DEF sendRREP
<1>4. x.type = "RREP" /\ x.orig = reply.orig /\ x.dest = reply.dest
    BY <1>3
<1>5. PICK nh : nh = r.nextHop
    OBVIOUS
<1>6. nh \in Node /\ Edge(n, nh) /\ Nearer(nh, n, reply.orig) /\ Nearer(n, nh, reply.dest)
    BY <1>5, HomeHop
<1>7. HomePacket(UnicastControl(n, nh, x))
    BY <1>4, <1>6, ReplyHome
<1> QED
    BY <1>2, <1>3, <1>5, <1>7

LEMMA RREQReplyAsDestinationHome ==
    ASSUME IsForest, IndInv, HomeInv, NEW n \in Node, NEW f \in air,
           RREQReplyAsDestination(n, f)
    PROVE  HomeInv'
<1> DEFINE q == f.dgram.body
           t == TableAfterRREQ(n, f)
<1>1. PICK seq : sendRREP(n, t, createRREP(q, 0, seq), {})
    BY DEF RREQReplyAsDestination
<1>2. /\ FreshRREQ(n, f) /\ q.dest = n /\ air' \subseteq air
      /\ UNCHANGED <<isOperational, budget, delayedPackets>>
    BY DEF RREQReplyAsDestination, FreshRREQ, lifecycle
<1>3. GoodHome(n, t) /\ HasRoute(t, q.orig) /\ q.orig \in Node
    BY <1>2, ReverseHome
<1> DEFINE reply == createRREP(q, 0, seq)
<1>4. reply.type = "RREP" /\ reply.orig = q.orig /\ reply.dest = n
    BY <1>2 DEF createRREP
<1>5. StillSeen
    BY <1>2, FreshSeen
<1> HIDE DEF q, t, reply
<1>6. Nearer(n, t[reply.orig].nextHop, n)
  <2>1. PICK nh : nh = t[q.orig].nextHop
      OBVIOUS
  <2>2. nh \in Node /\ Edge(nh, n)
      BY <1>3, <2>1, HomeHop, EdgeBothWays
  <2> QED
      BY <1>4, <2>1, <2>2, NearerToSelf
<1>7. /\ \A m \in Node : HomeTable(m, routes[m])'
      /\ \A p \in ipOut' : p \in ipOut \/ HomePacket(p)
  <2>1. sendRREP(n, t, reply, {})
      BY <1>1 DEF reply
  <2> QED
      BY <1>3, <1>4, <1>6, <2>1, sendRREPHome
<1> QED
    BY <1>2, <1>5, <1>7, StepHome

(* ReplyWouldLoop keeps the reply off the edge the request came over, so    *)
(* the route it advertises and the way back lie on different edges.         *)
LEMMA RREQReplyAsIntermediateHome ==
    ASSUME IsForest, IndInv, HomeInv, NEW n \in Node, NEW f \in air,
           RREQReplyAsIntermediate(n, f)
    PROVE  HomeInv'
<1> DEFINE q == f.dgram.body
           src == f.dgram.src
           t == TableAfterRREQ(n, f)
           r == t[q.dest]
           u == AddPrecursor(t, q.dest)
           reply == createRREP(q, r.metric, r.destSeqNum)
           x == createGratuitousRREP(q, t[q.orig].metric)
           gratuitous == UnicastControl(n, r.nextHop, x)
           others == IF AskGratuitousRREP THEN {gratuitous} ELSE {}
<1>1. /\ FreshRREQ(n, f) /\ air' \subseteq air /\ CanReply(t, q)
      /\ ~ReplyWouldLoop(t, q, src)
      /\ UNCHANGED <<isOperational, budget, delayedPackets>>
      /\ sendRREP(n, u, reply, others)
    BY DEF RREQReplyAsIntermediate, FreshRREQ, lifecycle
<1>2. /\ GoodHome(n, t) /\ HasRoute(t, q.orig) /\ q.orig \in Node /\ q.dest \in Node
      /\ src \in Node /\ Edge(n, src) /\ Nearer(src, n, q.orig)
    BY <1>1, ReverseHome
<1>3. StillSeen
    BY <1>1, FreshSeen
<1>4. reply.type = "RREP" /\ reply.orig = q.orig /\ reply.dest = q.dest
    BY DEF createRREP
<1>5. x.type = "RREP" /\ x.orig = q.dest /\ x.dest = q.orig
    BY DEF createGratuitousRREP
<1>6. HasRoute(t, q.dest) /\ r.nextHop # src
    BY <1>1 DEF CanReply, IsActive, ReplyWouldLoop
<1>7. PICK ahead, back : ahead = r.nextHop /\ back = t[q.orig].nextHop
    OBVIOUS
<1> HIDE DEF q, src, t, reply, x
<1>8. /\ ahead \in Node /\ Edge(n, ahead) /\ Nearer(ahead, n, q.dest)
      /\ back \in Node /\ Edge(n, back) /\ Nearer(back, n, q.orig)
    BY <1>2, <1>6, <1>7, HomeHop
<1>9. back = src /\ ahead # src
    BY <1>2, <1>6, <1>7, <1>8, OneNearer
<1>10. Nearer(n, back, q.dest) /\ Nearer(n, ahead, q.orig)
  <2>1. ~Nearer(back, n, q.dest) /\ ~Nearer(ahead, n, q.orig)
      BY <1>2, <1>8, <1>9, OneNearer
  <2> QED
      BY <1>2, <1>8, <2>1, EitherSide
<1>11. \A p \in others : HomePacket(p)
  <2>1. PICK y : y = x
      OBVIOUS
  <2>2. HomePacket(UnicastControl(n, ahead, y))
      BY <1>2, <1>5, <1>8, <1>10, <2>1, ReplyHome
  <2>3. \A p \in others : p = UnicastControl(n, ahead, y)
      BY <1>7, <2>1
  <2> QED
      BY <2>2, <2>3
<1>12. GoodHome(n, u) /\ HasRoute(u, q.orig) /\ u[q.orig].nextHop = back
  <2>1. t \in RouteTable
      BY <1>2 DEF GoodHome
  <2>2. GoodHome(n, u) /\ SameHops(t, u) /\ HasRoute(u, q.orig)
      BY <1>2, <2>1, AddPrecursorHome, AddPrecursorHops, AddPrecursorSound
  <2> QED
      BY <1>2, <1>7, <2>2 DEF SameHops
<1> HIDE DEF u, others
<1>13. /\ \A m \in Node : HomeTable(m, routes[m])'
       /\ \A p \in ipOut' : p \in ipOut \/ p \in others \/ HomePacket(p)
  <2>1. Nearer(n, u[reply.orig].nextHop, reply.dest)
      BY <1>4, <1>10, <1>12
  <2> QED
      BY <1>1, <1>2, <1>4, <1>12, <2>1, sendRREPHome
<1> QED
    BY <1>1, <1>3, <1>11, <1>13, StepHome

(* The request has been seen by this node and by the neighbour it came      *)
(* from, and every other neighbour is further from its originator.          *)
LEMMA RREQForwardHome ==
    ASSUME IsForest, IndInv, HomeInv, NEW n \in Node, NEW f \in air, RREQForward(n, f)
    PROVE  HomeInv'
<1> DEFINE q == f.dgram.body
           src == f.dgram.src
           t == TableAfterRREQ(n, f)
<1>1. /\ FreshRREQ(n, f) /\ SetRoutes(n, t)
      /\ UNCHANGED <<isOperational, budget, delayedPackets, ipOut>>
    BY DEF RREQForward, FreshRREQ, lifecycle
<1>2. /\ GoodHome(n, t) /\ q.orig \in Node /\ q.rreqId \in Nat /\ q \in RREQ
      /\ src \in Node /\ Edge(n, src) /\ Nearer(src, n, q.orig) /\ Seen(src, q.rreqId)
    BY <1>1, ReverseHome
<1>3. StillSeen /\ Seen(n, q.rreqId)'
    BY <1>1, FreshSeen
<1>4. PICK seq, x, ttl :
        /\ x = forwardRREQ(q, seq) /\ ttl = f.dgram.ttl - 1
        /\ air' = (air \ {f}) \cup
               (IF f.dgram.ttl > 1 /\ ~rebooting[n] THEN BroadcastFrames(n, ttl, x) ELSE {})
    BY DEF RREQForward
<1>5. x.type = "RREQ" /\ x.orig = q.orig /\ x.rreqId = q.rreqId
  <2> HIDE DEF q
  <2> QED
      BY <1>2, <1>4 DEF forwardRREQ, RREQ
<1>6. Seen(src, q.rreqId)'
  <2>1. RememberRREQ(n, q.orig, q.rreqId)
      BY <1>1 DEF FreshRREQ
  <2>2. rreqsArrivalTime[src] \subseteq rreqsArrivalTime'[src]
      BY <1>2, <2>1 DEF RememberRREQ, IndInv, DiscoveryOK
  <2> QED
      BY <1>1, <1>2, <2>2 DEF Seen, RREQSeen
<1> HIDE DEF q, t, src
<1>7. \A g \in BroadcastFrames(n, ttl, x) : HomeFrame(g)'
  <2>1. ASSUME NEW m \in Node, Edge(n, m) PROVE Nearer(n, m, x.orig) \/ Seen(m, x.rreqId)'
    <3>1. CASE m = src
        BY <1>5, <1>6, <3>1
    <3>2. CASE m # src
      <4>1. ~Nearer(m, n, q.orig)
          BY <1>2, <2>1, <3>2, OneNearer
      <4> QED
          BY <1>2, <1>5, <2>1, <4>1, EitherSide
    <3> QED
        BY <3>1, <3>2
  <2> QED
      BY <1>3, <1>5, <2>1, RequestHome
<1>8. \A m \in Node : HomeTable(m, routes[m])'
    BY <1>1, <1>2, InstallHome DEF GoodHome
<1>9. \A g \in air' : g \in air \/ HomeFrame(g)'
    BY <1>4, <1>7
<1> QED
    BY <1>1, <1>3, <1>8, <1>9, StepHome

LEMMA handleRREQHome ==
    ASSUME IsForest, IndInv, HomeInv, NEW n \in Node, NEW f \in air, handleRREQ(n, f)
    PROVE  HomeInv'
<1>1. CASE RREQIgnored(n, f)
  <2>1. /\ UNCHANGED <<isOperational, budget, delayedPackets, ipOut, routes, rreqsArrivalTime>>
        /\ air' \subseteq air
      BY <1>1 DEF RREQIgnored, lifecycle, discovery
  <2> QED
      BY <2>1, SameRoutesSet, OwnHome, SameSeen, QuietHome
<1>2. CASE RREQDuplicate(n, f)
  <2>1. /\ UNCHANGED <<isOperational, budget, delayedPackets, ipOut, rreqsArrivalTime>>
        /\ air' \subseteq air /\ SetRoutes(n, TableAfterPreviousHop(n, f)) /\ Arrives(n, f, "RREQ")
      BY <1>2 DEF RREQDuplicate, lifecycle, discovery
  <2>2. f.dgram.body.origSeqNum \in Nat
      BY <2>1, RREQFrame DEF RREQ
  <2> QED
      BY <2>1, <2>2, PreviousHopHome, SameSeen, QuietHome
<1>3. CASE RREQWouldLoop(n, f)
  <2>1. /\ UNCHANGED <<isOperational, budget, delayedPackets, ipOut>>
        /\ air' \subseteq air /\ SetRoutes(n, TableAfterRREQ(n, f)) /\ FreshRREQ(n, f)
      BY <1>3 DEF RREQWouldLoop, FreshRREQ, lifecycle
  <2> QED
      BY <2>1, ReverseHome, FreshSeen, QuietHome
<1> QED
    BY <1>1, <1>2, <1>3, RREQReplyAsDestinationHome, RREQReplyAsIntermediateHome,
       RREQForwardHome DEF handleRREQ

LEMMA ForwardHome ==
    ASSUME IsForest, IndInv, HomeInv, NEW n \in Node, NEW f \in air, Arrives(n, f, "RREP")
    PROVE  /\ f.dgram.src \in Node /\ Edge(n, f.dgram.src)
           /\ f.dgram.body \in RREP /\ f.dgram.body.dest \in Node
           /\ Nearer(f.dgram.src, n, f.dgram.body.dest)
           /\ f.dgram.body.orig = Unspecified => f.dgram.body.dest = f.dgram.src
           /\ f.dgram.body.orig # Unspecified => Nearer(n, f.dgram.src, f.dgram.body.orig)
           /\ GoodHome(n, TableAfterRREP(n, f))
           /\ HasRoute(TableAfterRREP(n, f), f.dgram.body.dest)
<1> DEFINE p == f.dgram.body
           src == f.dgram.src
           t == TableAfterPreviousHop(n, f)
           h == NewHopCount(p)
<1>1. /\ p \in RREP /\ p.dest \in Node /\ p.destSeqNum \in Nat /\ p.origSeqNum \in Nat
      /\ h \in Nat /\ p.type = "RREP" /\ HasRoute(TableAfterRREP(n, f), p.dest)
    BY RREPFrame DEF RREP, NewHopCount
<1>2. /\ src \in Node /\ Edge(n, src) /\ HomeReply(f.dgram) /\ f.dgram.dst \in {n, Broadcast}
    BY <1>1, SenderNextDoor DEF HomeFrame, Arrives
<1>3. n # Broadcast /\ Unspecified \notin Node
    BY AddressAssumption
<1>4. /\ Nearer(src, n, p.dest)
      /\ p.orig = Unspecified => p.dest = src
      /\ p.orig # Unspecified => Nearer(n, src, p.orig)
  <2>1. CASE f.dgram.dst = Broadcast
    <3>1. p.dest = src /\ p.orig = Unspecified
        BY <1>2, <2>1 DEF HomeReply
    <3>2. Nearer(src, n, src)
        BY <1>2, NearerToSelf
    <3> QED
        BY <3>1, <3>2
  <2>2. CASE f.dgram.dst # Broadcast
    <3>1. f.dgram.dst = n /\ p.orig \in Node
        BY <1>2, <2>2 DEF HomeReply
    <3> QED
        BY <1>2, <1>3, <2>2, <3>1 DEF HomeReply
  <2> QED
      BY <2>1, <2>2
<1>5. GoodHome(n, t)
    BY <1>1, PreviousHopHome
<1>6. \/ TableAfterRREP(n, f) = UpdateRoute(t, p.dest, src, h, TRUE, p.destSeqNum)
      \/ TableAfterRREP(n, f) = t
    BY DEF TableAfterRREP, ForwardRoute
<1>7. TRUE \in BOOLEAN
    OBVIOUS
<1> HIDE DEF p, src, t, h
<1>8. GoodHome(n, UpdateRoute(t, p.dest, src, h, TRUE, p.destSeqNum))
    BY <1>1, <1>2, <1>4, <1>5, <1>7, UpdateRouteHome
<1> QED
    BY <1>1, <1>2, <1>4, <1>5, <1>6, <1>8 DEF p, src

LEMMA RREPHelloHome ==
    ASSUME IsForest, IndInv, HomeInv, NEW n \in Node, NEW f \in air, RREPHello(n, f)
    PROVE  HomeInv'
<1> DEFINE p == f.dgram.body
           u == UpdateRoute(routes[n], p.dest, p.dest, 1, TRUE, p.destSeqNum)
<1>1. /\ UNCHANGED <<isOperational, budget, delayedPackets, ipOut, rreqsArrivalTime>>
      /\ air' \subseteq air /\ SetRoutes(n, u) /\ Arrives(n, f, "RREP") /\ p.orig = Unspecified
    BY DEF RREPHello, lifecycle, discovery
<1>2. p.dest \in Node /\ p.destSeqNum \in Nat /\ 1 \in Nat /\ TRUE \in BOOLEAN
    BY <1>1, RREPFrame DEF RREP
<1>3. Edge(n, p.dest) /\ Nearer(p.dest, n, p.dest)
    BY <1>1, ForwardHome
<1>4. GoodHome(n, routes[n])
    BY OwnHome
<1> HIDE DEF p
<1>5. GoodHome(n, u)
    BY <1>2, <1>3, <1>4, UpdateRouteHome
<1> HIDE DEF u
<1> QED
    BY <1>1, <1>5, SameSeen, QuietHome

(* The reply goes on towards the originator: not back to its sender, which  *)
(* is further from it, so away from the node the reply advertises.          *)
LEMMA RREPForwardHome ==
    ASSUME IsForest, IndInv, HomeInv, NEW n \in Node, NEW f \in air, RREPForward(n, f)
    PROVE  HomeInv'
<1> DEFINE p == f.dgram.body
           src == f.dgram.src
           t == TableAfterRREP(n, f)
           u == AddPrecursor(AddPrecursor(t, p.dest), t[p.dest].nextHop)
<1>1. /\ UNCHANGED <<isOperational, budget, delayedPackets, rreqsArrivalTime>>
      /\ air' \subseteq air /\ SetRoutes(n, u) /\ Arrives(n, f, "RREP")
      /\ p.orig \in Node \ {n} /\ HasRoute(t, p.orig)
    BY DEF RREPForward, lifecycle, discovery
<1>2. /\ GoodHome(n, t) /\ HasRoute(t, p.dest) /\ p.dest \in Node /\ p \in RREP
      /\ src \in Node /\ Edge(n, src) /\ Nearer(src, n, p.dest) /\ Nearer(n, src, p.orig)
    BY <1>1, AddressAssumption, ForwardHome
<1>3. ~p.ack /\ p.type = "RREP"
  <2>1. p.ack => f.dgram.dst = p.orig
      BY <1>1, RREPFrame
  <2> QED
      BY <1>1, <2>1, AddressAssumption DEF Arrives
<1>4. PICK x, nh : /\ x = forwardRREP(p) /\ nh = t[p.orig].nextHop
                   /\ ipOut' = ipOut \cup {UnicastControl(n, nh, x)}
    BY <1>3 DEF RREPForward
<1>5. x.type = "RREP" /\ x.orig = p.orig /\ x.dest = p.dest
  <2> HIDE DEF p
  <2> QED
      BY <1>2, <1>3, <1>4 DEF forwardRREP, RREP
<1>6. t[p.dest].nextHop \in Node
    BY <1>2, HomeHop
<1> HIDE DEF p, t, src
<1>7. nh \in Node /\ Edge(n, nh) /\ Nearer(nh, n, p.orig)
    BY <1>1, <1>2, <1>4, HomeHop
<1>8. Nearer(n, nh, p.dest)
  <2>1. nh # src
      BY <1>1, <1>2, <1>7, EitherSide
  <2>2. ~Nearer(nh, n, p.dest)
      BY <1>2, <1>7, <2>1, OneNearer
  <2> QED
      BY <1>2, <1>7, <2>2, EitherSide
<1>9. HomePacket(UnicastControl(n, nh, x))
    BY <1>1, <1>5, <1>7, <1>8, ReplyHome
<1>10. GoodHome(n, u)
    BY <1>2, <1>6, AddPrecursorHome
<1> HIDE DEF u
<1>11. (\A m \in Node : HomeTable(m, routes[m])') /\ StillSeen
    BY <1>1, <1>10, InstallHome, SameSeen DEF GoodHome
<1> QED
    BY <1>1, <1>4, <1>9, <1>11, StepHome

LEMMA RREPStopsHome ==
    ASSUME IsForest, IndInv, HomeInv, NEW n \in Node, NEW f \in air, RREPStops(n, f)
    PROVE  HomeInv'
<1>1. /\ UNCHANGED <<isOperational, budget, delayedPackets, ipOut, rreqsArrivalTime>>
      /\ air' \subseteq air /\ SetRoutes(n, TableAfterRREP(n, f)) /\ Arrives(n, f, "RREP")
    BY DEF RREPStops, lifecycle, discovery
<1> QED
    BY <1>1, ForwardHome, SameSeen, QuietHome

LEMMA RREPCompletesHome ==
    ASSUME IsForest, IndInv, HomeInv, NEW n \in Node, NEW f \in air, RREPCompletes(n, f)
    PROVE  HomeInv'
<1> DEFINE p == f.dgram.body
           src == f.dgram.src
           t == TableAfterRREP(n, f)
           h == NewHopCount(p)
           u == UpdateRoute(t, p.dest, src, h, TRUE, p.destSeqNum)
           waiting == {x \in delayedPackets[n] : x.dst = p.dest}
<1>0. delayedPackets \in [Node -> SUBSET Datagram]
    BY DEF IndInv, DelayedOK
<1>1. /\ UNCHANGED <<isOperational, budget, ipOut, rreqsArrivalTime>>
      /\ SetRoutes(n, u) /\ Arrives(n, f, "RREP")
      /\ air' = (air \ {f}) \cup UNION {UnicastFrame(n, src, x) : x \in waiting}
      /\ delayedPackets' = [delayedPackets EXCEPT ![n] = @ \ waiting]
    BY DEF RREPCompletes, completeRouteDiscovery, lifecycle
<1>2. p.dest \in Node /\ p.destSeqNum \in Nat /\ h \in Nat /\ TRUE \in BOOLEAN
    BY <1>1, RREPFrame DEF RREP, NewHopCount
<1>3. src \in Node /\ Edge(n, src) /\ Nearer(src, n, p.dest) /\ GoodHome(n, t)
    BY <1>1, ForwardHome
<1>4. PICK d, s : d = p.dest /\ s = src
    OBVIOUS
<1>5. \A x \in waiting : x \in Datagram /\ HomePacket(x) /\ x.src = n /\ x.dst = d
    BY <1>0, <1>4 DEF HomeInv
<1>6. \A m \in Node : delayedPackets'[m] \subseteq delayedPackets[m]
    BY <1>0, <1>1
<1>7. \A g \in UNION {UnicastFrame(n, src, x) : x \in waiting} :
        \E x \in waiting : g \in UnicastFrame(n, s, x)
    BY <1>4
<1> HIDE DEF p, src, t, h
<1>8. GoodHome(n, u)
    BY <1>2, <1>3, UpdateRouteHome
<1> HIDE DEF u, waiting
<1>9. (\A m \in Node : HomeTable(m, routes[m])') /\ StillSeen
    BY <1>1, <1>8, InstallHome, SameSeen DEF GoodHome
<1>10. \A x \in waiting : \A g \in UnicastFrame(n, s, x) : HomeFrame(g)'
    BY <1>2, <1>3, <1>4, <1>5, UnicastHome
<1>11. \A g \in air' : g \in air \/ HomeFrame(g)'
    BY <1>1, <1>7, <1>10
<1> QED
    BY <1>1, <1>6, <1>9, <1>11, StepHome

-----------------------------------------------------------------------------
(* Route errors and datagrams in transit change no next hop.                *)

LEMMA broadcastRERRHome ==
    ASSUME NEW n \in Node, NEW dests, NEW seqNum, NEW rest, broadcastRERR(n, dests, seqNum, rest)
    PROVE  \A f \in air' : f \in rest \/ HomeFrame(f)'
<1> DEFINE x == [type |-> "RERR", dests |-> dests,
                 seqNum |-> [d \in Node |-> IF d \in dests THEN seqNum[d] ELSE 0]]
<1>1. x.type = "RERR"
    OBVIOUS
<1>2. air' = rest \/ air' = rest \cup BroadcastFrames(n, 1, x)
    BY DEF broadcastRERR
<1> HIDE DEF x
<1> QED
    BY <1>1, <1>2, ErrorHome

LEMMA handleRERRHome ==
    ASSUME IndInv, HomeInv, NEW n \in Node, NEW f \in air, handleRERR(n, f) PROVE HomeInv'
<1>1. PICK t, dests, seqNum :
        /\ t = ApplyRERR(routes[n], f.dgram.src, f.dgram.body)
        /\ SetRoutes(n, t) /\ broadcastRERR(n, dests, seqNum, air \ {f})
        /\ UNCHANGED <<isOperational, budget, delayedPackets, ipOut, rreqsArrivalTime>>
    BY DEF handleRERR, lifecycle, discovery
<1>2. HomeTable(n, t)
    BY <1>1, OwnHome, ApplyRERRHops, SameHopsHome DEF GoodHome
<1>3. (\A m \in Node : HomeTable(m, routes[m])') /\ StillSeen
    BY <1>1, <1>2, InstallHome, SameSeen
<1>4. \A g \in air' : g \in air \/ HomeFrame(g)'
    BY <1>1, broadcastRERRHome
<1> QED
    BY <1>1, <1>3, <1>4, StepHome

LEMMA LinkBreakHome ==
    ASSUME IndInv, HomeInv, NEW f \in air, LinkBreak(f) PROVE HomeInv'
<1>1. PICK n, d, u : n = f.from /\ d = f.dgram.dst /\ u = routes[n][d].nextHop
    OBVIOUS
<1>2. /\ n \in Node /\ SpendUnless(Undeliverable(f), "loss") /\ "loss" \in EnvironmentEvent
      /\ UNCHANGED <<isOperational, delayedPackets, ipOut, rreqsArrivalTime>>
    BY <1>1, AirFrame DEF LinkBreak, lifecycle, discovery, EnvironmentEvent
<1>3. StillSeen
    BY <1>2, SameSeen
<1>4. /\ \A m \in Node : HomeTable(m, routes[m])'
      /\ \A g \in air' : g \in air \/ HomeFrame(g)'
  <2>1. CASE HasRoute(routes[n], d) /\ HasRoute(routes[n], u)
    <3>1. PICK t, dests, seqNum :
            /\ t = BreakLink(routes[n], u) /\ SetRoutes(n, t)
            /\ broadcastRERR(n, dests, seqNum, air \ {f})
        BY <1>1, <2>1 DEF LinkBreak, handleLinkBreakSendRERR
    <3>2. HomeTable(n, t)
        BY <1>2, <3>1, OwnHome, BreakLinkHops, SameHopsHome DEF GoodHome
    <3>3. \A m \in Node : HomeTable(m, routes[m])'
        BY <1>2, <3>1, <3>2, InstallHome
    <3> QED
        BY <1>2, <3>1, <3>3, broadcastRERRHome
  <2>2. CASE ~(HasRoute(routes[n], d) /\ HasRoute(routes[n], u))
    <3>1. air' = air \ {f} /\ UNCHANGED routes
        BY <1>1, <2>2 DEF LinkBreak, handleLinkBreakSendRERR
    <3> QED
        BY <3>1, KeptHome
  <2> QED
      BY <2>1, <2>2
<1> QED
    BY <1>2, <1>3, <1>4, StepHome

(* Control packets go from neighbour to neighbour.                          *)
LEMMA TransitIsData ==
    ASSUME IndInv, HomeInv, NEW n \in Node, NEW f \in air, Transit(n, f)
    PROVE  IsData(f.dgram)
BY AddressAssumption DEF HomeInv, HomeFrame, Transit

LEMMA DataFrameHome ==
    ASSUME NEW n, NEW nh, NEW p, IsData(p) PROVE \A f \in UnicastFrame(n, nh, p) : HomeFrame(f)'
BY UnicastCarries DEF HomeFrame, IsData

LEMMA DelayReturnedHome ==
    ASSUME IsForest, IndInv, HomeInv, NEW n \in Node, NEW f \in air, DelayReturned(n, f)
    PROVE  HomeInv'
<1>1. PICK p : p = Hop(f.dgram)
    OBVIOUS
<1>2. /\ delayDatagram(n, p, air \ {f}) /\ UNCHANGED ipOut /\ Transit(n, f) /\ f.dgram.src = n
    BY <1>1 DEF DelayReturned
<1>3. /\ p.body = f.dgram.body /\ p.dst = f.dgram.dst /\ p.src = n
      /\ p.dst \in Node /\ p.dst # Broadcast
    BY <1>1, <1>2, AirFrame, HopKeepsBody, AddressAssumption DEF Hop, Datagram, Transit
<1>4. HomePacket(p)
    BY <1>2, <1>3, TransitIsData DEF HomePacket, IsData
<1>5. /\ StillSeen /\ \A g \in air' : g \in air \ {f} \/ HomeFrame(g)'
      /\ UNCHANGED <<isOperational, budget, routes>>
      /\ \A m \in Node : delayedPackets'[m] = IF m = n THEN delayedPackets[n] \cup {p}
                                              ELSE delayedPackets[m]
    BY <1>2, <1>3, delayDatagramHome
<1>6. \A m \in Node : HomeTable(m, routes[m])'
    BY <1>5, KeptHome
<1>7. /\ \A g \in air' : g \in air \/ HomeFrame(g)'
      /\ \A m \in Node : \A x \in delayedPackets'[m] :
            x \in delayedPackets[m] \/ (HomePacket(x) /\ x.src = m)
    BY <1>3, <1>4, <1>5
<1> QED
    BY <1>2, <1>5, <1>6, <1>7, StepHome

LEMMA datagramForwardHookHome ==
    ASSUME IndInv, HomeInv, NEW n \in Node, NEW f \in air, datagramForwardHook(n, f)
    PROVE  HomeInv'
<1> DEFINE d == f.dgram.dst
           known == HasRoute(routes[n], d)
<1>1. PICK p, nh : p = Hop(f.dgram) /\ nh = (IF known THEN routes[n][d].nextHop ELSE d)
    OBVIOUS
<1>2. PICK t : t = IF known THEN PenaliseRoute(routes[n], d) ELSE routes[n]
    OBVIOUS
<1>3. PICK rest : rest = (air \ {f}) \cup UnicastFrame(n, nh, p)
    OBVIOUS
<1>4. /\ Transit(n, f) /\ d \in Node
      /\ UNCHANGED <<isOperational, budget, delayedPackets, ipOut, rreqsArrivalTime>>
    BY DEF datagramForwardHook, Transit, lifecycle, discovery
<1>5. IsData(p)
    BY <1>1, <1>4, AirFrame, HopKeepsBody, TransitIsData DEF IsData
<1>6. \A g \in rest : g \in air \/ HomeFrame(g)'
    BY <1>3, <1>5, DataFrameHome
<1>7. StillSeen
    BY <1>4, SameSeen
<1>8. /\ \A m \in Node : HomeTable(m, routes[m])'
      /\ \A g \in air' : g \in air \/ HomeFrame(g)'
  <2>1. CASE IsActive(routes[n], d)
    <3>1. air' = rest /\ UNCHANGED routes
        BY <1>1, <1>3, <2>1 DEF datagramForwardHook
    <3> QED
        BY <1>6, <3>1, KeptHome
  <2>2. CASE ~IsActive(routes[n], d)
    <3>1. SetRoutes(n, t)
        BY <1>2, <2>2 DEF datagramForwardHook
    <3>2. \E seqNum : broadcastRERR(n, {d}, seqNum, rest)
        BY <1>1, <1>3, <2>2 DEF datagramForwardHook
    <3>3. HomeTable(n, t)
        BY <1>2, <1>4, OwnHome, PenaliseRouteHops, SameHopsHome DEF GoodHome
    <3>4. \A m \in Node : HomeTable(m, routes[m])'
        BY <3>1, <3>3, InstallHome
    <3>5. \A g \in air' : g \in rest \/ HomeFrame(g)'
        BY <3>2, broadcastRERRHome
    <3> QED
        BY <1>6, <3>4, <3>5
  <2> QED
      BY <2>1, <2>2
<1> QED
    BY <1>4, <1>7, <1>8, StepHome

LEMMA ReceiveHome ==
    ASSUME IsForest, IndInv, HomeInv, NEW n \in Node, NEW f \in air, Receive(n, f)
    PROVE  HomeInv'
<1>1. CASE DeliverData(n, f)
  <2>1. /\ UNCHANGED <<isOperational, budget, delayedPackets, ipOut, routes, rreqsArrivalTime>>
        /\ air' \subseteq air
      BY <1>1 DEF DeliverData, lifecycle, discovery
  <2> QED
      BY <2>1, SameRoutesSet, OwnHome, SameSeen, QuietHome
<1> QED
    BY <1>1, handleRREQHome, RREPHelloHome, RREPForwardHome, RREPStopsHome,
       RREPCompletesHome, handleRERRHome, DelayReturnedHome, datagramForwardHookHome
       DEF Receive, handleRREP

-----------------------------------------------------------------------------
(* Self-messages and the lifecycle.                                         *)

(* The ids of the requests in the air are not forgotten.                    *)
LEMMA ForgetRREQHome ==
    ASSUME IndInv, HomeInv, NEW n \in Node, NEW k \in rreqsArrivalTime[n], ForgetRREQ(n, k)
    PROVE  HomeInv'
<1>0. rreqsArrivalTime \in [Node -> SUBSET (Node \X Nat)]
    BY DEF IndInv, DiscoveryOK
<1>1. /\ UNCHANGED <<isOperational, delayedPackets, ipOut, routes, air>>
      /\ SpendUnless(FALSE, "expunge") /\ "expunge" \in EnvironmentEvent
      /\ rreqsArrivalTime' = [rreqsArrivalTime EXCEPT ![n] = @ \ {k}]
      /\ \A f \in air : ~(f.dgram.body.type = "RREQ" /\ f.dgram.body.rreqId = k[2])
    BY DEF ForgetRREQ, lifecycle, EnvironmentEvent
<1>2. \A m \in Node : HomeTable(m, routes[m])'
    BY <1>1, KeptHome
<1>3. StillSeen
  <2>1. ASSUME NEW m \in Node, NEW i, i # k[2], RREQSeen(m, i) PROVE RREQSeen(m, i)'
      BY <1>0, <1>1, <2>1 DEF RREQSeen
  <2> QED
      BY <1>1, <2>1 DEF StillSeen, Seen
<1> QED
    BY <1>1, <1>2, <1>3, StepHome

LEMMA expungeRoutesHome ==
    ASSUME IndInv, HomeInv, NEW n \in Node, NEW d \in Node, expungeRoutes(n, d) PROVE HomeInv'
<1>1. PICK t : t = ExpungeRoute(routes[n], d)
    OBVIOUS
<1>2. /\ UNCHANGED <<isOperational, delayedPackets, ipOut, air, rreqsArrivalTime>>
      /\ SpendUnless(FALSE, "expunge") /\ "expunge" \in EnvironmentEvent
      /\ HasRoute(routes[n], d) /\ SetRoutes(n, t)
    BY <1>1 DEF expungeRoutes, lifecycle, discovery, EnvironmentEvent
<1>3. HomeTable(n, t)
    BY <1>1, <1>2, OwnHome, ExpungeRouteHops, SameHopsHome DEF GoodHome
<1>4. StillSeen /\ \A m \in Node : HomeTable(m, routes[m])'
    BY <1>2, <1>3, SameSeen, InstallHome
<1> QED
    BY <1>2, <1>4, StepHome

LEMMA handleWaitHome ==
    ASSUME IsForest, IndInv, HomeInv, NEW n \in Node, NEW d \in Node, handleWaitForRREP(n, d)
    PROVE  HomeInv'
<1>1. UNCHANGED <<isOperational, budget, ipOut, routes>>
    BY DEF handleWaitForRREP, lifecycle
<1>2. \A m \in Node : HomeTable(m, routes[m])'
    BY <1>1, KeptHome
<1>3. CASE RetryRREQ(n, d)
  <2>1. PICK timers : OriginateRREQ(n, d, timers, air) /\ UNCHANGED delayedPackets
      BY <1>3 DEF RetryRREQ
  <2>2. StillSeen /\ \A f \in air' : f \in air \/ HomeFrame(f)'
      BY <1>1, <2>1, OriginateHome
  <2> QED
      BY <1>1, <1>2, <2>1, <2>2, StepHome
<1>4. CASE cancelRouteDiscovery(n, d)
  <2>1. /\ UNCHANGED <<air, rreqsArrivalTime>>
        /\ \A m \in Node : delayedPackets'[m] \subseteq delayedPackets[m]
      BY <1>4 DEF cancelRouteDiscovery, IndInv, DelayedOK
  <2>2. StillSeen
      BY <1>1, <2>1, SameSeen
  <2> QED
      BY <1>1, <1>2, <2>1, <2>2, StepHome
<1> QED
    BY <1>3, <1>4 DEF handleWaitForRREP

LEMMA sendHelloHome ==
    ASSUME IndInv, HomeInv, NEW n \in Node, sendHelloMessagesIfNeeded(n) PROVE HomeInv'
<1>1. PICK x : /\ x = [type |-> "RREP", ack |-> FALSE, hopCount |-> 0, dest |-> n,
                       destSeqNum |-> sequenceNum[n], orig |-> Unspecified, origSeqNum |-> 0]
               /\ air' = air \cup BroadcastFrames(n, 1, x)
    BY DEF sendHelloMessagesIfNeeded
<1>2. /\ UNCHANGED <<isOperational, delayedPackets, ipOut, routes, rreqsArrivalTime>>
      /\ SpendUnless(FALSE, "hello") /\ "hello" \in EnvironmentEvent
    BY DEF sendHelloMessagesIfNeeded, lifecycle, discovery, EnvironmentEvent
<1>3. StillSeen /\ \A m \in Node : HomeTable(m, routes[m])'
    BY <1>2, SameSeen, KeptHome
<1>4. x.type = "RREP" /\ x.dest = n /\ x.orig = Unspecified
    BY <1>1
<1>5. \A f \in BroadcastFrames(n, 1, x) : HomeFrame(f)'
    BY <1>4, BroadcastEdges DEF HomeFrame, HomeReply
<1> QED
    BY <1>1, <1>2, <1>3, <1>5, StepHome

LEMMA SelfMessageHome ==
    ASSUME IsForest, IndInv, HomeInv, NEW n \in Node, SelfMessage(n) PROVE HomeInv'
<1>1. CASE CounterTimer(n) \/ handleRREPACKTimer(n) \/ handleBlackListTimer(n)
  <2>1. /\ UNCHANGED <<isOperational, budget, delayedPackets, ipOut, routes, rreqsArrivalTime>>
        /\ air' \subseteq air
      BY <1>1 DEF CounterTimer, handleRREPACKTimer, handleBlackListTimer, lifecycle, discovery
  <2> QED
      BY <2>1, SameRoutesSet, OwnHome, SameSeen, QuietHome
<1> QED
    BY <1>1, handleWaitHome, expungeRoutesHome, ForgetRREQHome, sendHelloHome DEF SelfMessage

LEMMA StopHome ==
    ASSUME IndInv, HomeInv, NEW n \in Node, Stop(n) PROVE HomeInv'
<1>1. /\ UNCHANGED <<ipOut, air>> /\ SetRoutes(n, EmptyTable)
      /\ isOperational' = [isOperational EXCEPT ![n] = FALSE]
      /\ delayedPackets' = [delayedPackets EXCEPT ![n] = {}]
      /\ rreqsArrivalTime' = [rreqsArrivalTime EXCEPT ![n] = {}]
    BY DEF Stop, clearState
<1>2. \A m \in Node : delayedPackets'[m] \subseteq delayedPackets[m]
    BY <1>1 DEF IndInv, DelayedOK
<1>3. \A m \in Node : HomeTable(m, routes[m])'
  <2>1. HomeTable(n, EmptyTable)
      BY DEF HomeTable, EmptyTable, HasRoute
  <2> QED
      BY <1>1, <2>1, InstallHome
<1>4. ASSUME NEW m \in Node, NEW i, Seen(m, i) PROVE Seen(m, i)'
  <2>1. CASE m = n
      BY <1>1, <2>1 DEF Seen, IndInv, LifecycleOK
  <2>2. CASE m # n
    <3>1. rreqsArrivalTime'[m] = rreqsArrivalTime[m] /\ isOperational'[m] = isOperational[m]
        BY <1>1, <2>2 DEF IndInv, DiscoveryOK, LifecycleOK
    <3> QED
        BY <1>4, <3>1 DEF Seen, RREQSeen
  <2> QED
      BY <2>1, <2>2
<1>5. StillSeen
    BY <1>4 DEF StillSeen
<1> QED
    BY <1>1, <1>2, <1>3, <1>5, StepHome

(* A node that comes back has forgotten every request, but none is still on *)
(* its way.                                                                 *)
LEMMA StartHome ==
    ASSUME RestartsWait, IndInv, HomeInv, NEW n \in Node, Start(n) PROVE HomeInv'
<1>1. UNCHANGED <<routes, delayedPackets, ipOut, air>>
    BY DEF Start, discovery
<1>2. \A f \in air : f.dgram.body.type # "RREQ"
    BY DEF RestartsWait
<1>3. StillSeen /\ \A m \in Node : HomeTable(m, routes[m])'
    BY <1>1, <1>2, KeptHome DEF StillSeen
<1> QED
    BY <1>1, <1>3, StepHome

LEMMA HomeNext ==
    ASSUME IsForest
    PROVE  IndInv /\ HomeInv /\ [Next]_vars /\ [RestartsWait]_vars => HomeInv'
<1> SUFFICES ASSUME IndInv, HomeInv, [Next]_vars, [RestartsWait]_vars PROVE HomeInv'
    OBVIOUS
<1>1. ASSUME NEW fl \in Flow, AppSend(fl) PROVE HomeInv'
  <2>1. PICK x, p : x = [type |-> "DATA", flow |-> fl] /\ p = NewDatagram(fl.src, fl.dst, UnicastTtl, x)
      OBVIOUS
  <2>2. ensureRouteForDatagram(fl.src, p, air) /\ ipOut' \subseteq ipOut
      BY <1>1, <2>1 DEF AppSend
  <2>3. fl.src \in Node /\ fl.dst \in Node
      BY FlowAssumption
  <2>4. x \in Body /\ x.type = "DATA" /\ UnicastTtl \in Nat
      BY <2>1, ParameterAssumption DEF Body, Data
  <2>5. p \in Datagram /\ p.src = fl.src /\ p.dst = fl.dst /\ p.body = x
      BY <2>1, <2>3, <2>4, NewDatagramGood
  <2>6. HomePacket(p)
      BY <2>3, <2>4, <2>5, AddressAssumption DEF HomePacket, IsData
  <2> QED
      BY <2>2, <2>3, <2>5, <2>6, ensureRouteHome
<1>2. ASSUME NEW p \in ipOut, IPLocalOut(p) PROVE HomeInv'
  <2>1. p \in Datagram /\ p.src \in Node /\ p.dst \in Node /\ HomePacket(p)
      BY DEF IndInv, TrafficOK, GoodPackets, Datagram, HomeInv
  <2> QED
      BY <1>2, <2>1, ensureRouteHome DEF IPLocalOut
<1>3. ASSUME NEW p \in ipOut, DropWhenDown(p) PROVE HomeInv'
  <2>1. /\ UNCHANGED <<isOperational, budget, delayedPackets, air, routes, rreqsArrivalTime>>
        /\ ipOut' \subseteq ipOut
      BY <1>3 DEF DropWhenDown, lifecycle, discovery
  <2>2. StillSeen /\ \A m \in Node : HomeTable(m, routes[m])'
      BY <2>1, SameSeen, KeptHome
  <2> QED
      BY <2>1, <2>2, StepHome
<1>4. ASSUME NEW f \in air, FrameLost(f) PROVE HomeInv'
  <2>1. PICK cond : SpendUnless(cond, "loss")
      BY <1>4 DEF FrameLost
  <2>2. /\ UNCHANGED <<isOperational, delayedPackets, ipOut, routes, rreqsArrivalTime>>
        /\ air' \subseteq air /\ "loss" \in EnvironmentEvent
      BY <1>4 DEF FrameLost, lifecycle, discovery, EnvironmentEvent
  <2>3. StillSeen /\ \A m \in Node : HomeTable(m, routes[m])'
      BY <2>1, <2>2, SameSeen, KeptHome
  <2> QED
      BY <2>2, <2>3, StepHome
<1>5. ASSUME NEW f \in air, Receive(f.to, f) PROVE HomeInv'
    BY <1>5, AirFrame, ReceiveHome
<1>6. ASSUME NEW n \in Node, RebootCompleted(n) PROVE HomeInv'
  <2>1. /\ UNCHANGED <<isOperational, budget, delayedPackets, ipOut, routes, rreqsArrivalTime>>
        /\ air' \subseteq air
      BY <1>6 DEF RebootCompleted, discovery
  <2> QED
      BY <2>1, SameRoutesSet, OwnHome, SameSeen, QuietHome
<1>7. ASSUME NEW n \in Node, Start(n) PROVE HomeInv'
  <2>1. isOperational' # isOperational
      BY <1>7 DEF Start, IndInv, LifecycleOK
  <2>2. RestartsWait
      BY <2>1 DEF vars, lifecycle
  <2> QED
      BY <1>7, <2>2, StartHome
<1>8. CASE UNCHANGED vars
  <2>1. UNCHANGED <<isOperational, budget, delayedPackets, ipOut, air, routes, rreqsArrivalTime>>
      BY <1>8 DEF vars, lifecycle, discovery
  <2>2. StillSeen /\ \A m \in Node : HomeTable(m, routes[m])'
      BY <2>1, SameSeen, KeptHome
  <2> QED
      BY <2>1, <2>2, StepHome
<1> QED
    BY <1>1, <1>2, <1>3, <1>4, <1>5, <1>6, <1>7, <1>8, LinkBreakHome, SelfMessageHome, StopHome
       DEF Next

LEMMA HomeInit == Init => HomeInv
<1> SUFFICES ASSUME Init PROVE HomeInv
    OBVIOUS
<1>1. \A n \in Node : HomeTable(n, routes[n])
    BY DEF Init, HomeTable, EmptyTable, HasRoute
<1> QED
    BY <1>1 DEF Init, HomeInv

LEMMA HomeAlways == ASSUME IsForest PROVE Spec /\ [][RestartsWait]_vars => []HomeInv
<1>1. Init => IndInv /\ HomeInv
    BY InitIndInv, HomeInit
<1>2. IndInv /\ HomeInv /\ [Next]_vars /\ [RestartsWait]_vars => (IndInv /\ HomeInv)'
    BY NextIndInv, HomeNext
<1> QED
    BY <1>1, <1>2, PTL DEF Spec

-----------------------------------------------------------------------------
(* From an order to the absence of cycles.                                  *)

LEMMA NatHasLeast ==
    ASSUME NEW T \in SUBSET Nat, T # {} PROVE \E x \in T : \A y \in T : x <= y
<1>1. IsWellFoundedOn(OpToRel(<, Nat), Nat)
    BY NatLessThanWellFounded
<1>2. PICK x \in T : \A y \in T : ~(<<y, x>> \in OpToRel(<, Nat))
    BY <1>1, WFMin
<1>3. \A y \in T : ~(y < x)
    BY <1>2 DEF OpToRel
<1> QED
    BY <1>3

(* In a forest a route leads to a neighbour, the one that is nearer to the  *)
(* destination: AODV finds the only path there is, and nothing that is      *)
(* lost, late or forgotten makes it believe in another one.                 *)
RoutesLeadHome ==
    \A n \in Node : \A d \in Node : HasRoute(routes[n], d) =>
        Edge(n, routes[n][d].nextHop) /\ Nearer(routes[n][d].nextHop, n, d)

(* In a forest RoutesLeadHome always holds, unless a node starts in the     *)
(* middle of a flood: the next hops that handleRREQ and handleRREP take     *)
(* from the senders of packets all point home.                              *)
THEOREM ForestRoutesLeadHome ==
    ASSUME IsForest PROVE Spec /\ [][RestartsWait]_vars => []RoutesLeadHome
<1>1. HomeInv => RoutesLeadHome
    BY DEF HomeInv, HomeTable, RoutesLeadHome
<1> QED
    BY <1>1, HomeAlways, PTL

LEMMA LeadHomeLoopFree == ASSUME IsForest, IndInv, RoutesLeadHome PROVE LoopFree
<1> SUFFICES ASSUME NEW d \in Node, NEW S \in SUBSET Node, S # {},
                    \A n \in S : \E m \in S : <<n, m>> \in NextHopOf(d)
             PROVE  FALSE
    BY DEF LoopFree
<1> DEFINE T == {hops[n][d] : n \in S}
<1>1. T \in SUBSET Nat /\ T # {}
    BY DEF IsForest
<1> HIDE DEF T
<1>2. PICK x \in T : \A y \in T : x <= y
    BY <1>1, NatHasLeast
<1>3. PICK n \in S : x = hops[n][d]
    BY DEF T
<1>4. PICK m \in S : <<n, m>> \in NextHopOf(d)
    OBVIOUS
<1>5. HasRoute(routes[n], d) /\ routes[n][d].nextHop = m
    BY <1>4 DEF NextHopOf, IsActive
<1>6. hops[m][d] < hops[n][d]
    BY <1>5 DEF RoutesLeadHome, Nearer
<1>7. hops[m][d] \in T /\ hops[m][d] \in Nat /\ hops[n][d] \in Nat
    BY DEF T, IsForest
<1> QED
    BY <1>2, <1>3, <1>6, <1>7

(* In a forest no routing loop ever forms, whatever order handleRREQ and    *)
(* handleRREP see the packets in and whatever the routes they replace, as   *)
(* long as no node starts in the middle of a flood.                         *)
THEOREM ForestIsLoopFree ==
    ASSUME IsForest PROVE Spec /\ [][RestartsWait]_vars => []LoopFree
<1>1. IndInv /\ RoutesLeadHome => LoopFree
    BY LeadHomeLoopFree
<1> QED
    BY <1>1, Invariance, ForestRoutesLeadHome, PTL

(* Chains and stars are forests, so that the condition is met.              *)
Apart(x, y) == IF x > y THEN x - y ELSE y - x

LEMMA NextOnChain ==
    ASSUME NEW x \in Int, NEW y \in Int, NEW d \in Int, x = y + 1 \/ y = x + 1
    PROVE  Apart(x, d) # Apart(y, d)
BY DEF Apart

LEMMA SameSideOfChain ==
    ASSUME NEW n \in Int, NEW x \in Int, NEW y \in Int, NEW d \in Int,
           n = x + 1 \/ x = n + 1, n = y + 1 \/ y = n + 1,
           Apart(x, d) < Apart(n, d), Apart(y, d) < Apart(n, d)
    PROVE  x = y
BY DEF Apart

LEMMA ChainIsForest ==
    ASSUME NEW N \in Nat, Node = 1 .. N,
           \A x, y \in Node : Edge(x, y) => x = y + 1 \/ y = x + 1,
           hops = [x \in Node |-> [y \in Node |-> Apart(x, y)]]
    PROVE  IsForest
<1>1. \A x \in Node : x \in Int
    OBVIOUS
<1>2. \A x, y \in Int : Apart(x, y) \in Nat /\ Apart(x, x) = 0
    BY DEF Apart
<1>3. hops \in [Node -> [Node -> Nat]]
    BY <1>1, <1>2
<1>4. \A x, y \in Node : hops[x][y] = Apart(x, y)
    OBVIOUS
<1>5. ASSUME NEW x \in Node, NEW y \in Node, NEW d \in Node, Edge(x, y)
      PROVE  hops[x][d] # hops[y][d]
  <2>1. x = y + 1 \/ y = x + 1
      BY <1>5
  <2> QED
      BY <1>1, <1>4, <2>1, NextOnChain
<1>6. ASSUME NEW n \in Node, NEW x \in Node, NEW y \in Node, NEW d \in Node,
             Edge(n, x), Edge(n, y), Nearer(x, n, d), Nearer(y, n, d)
      PROVE  x = y
  <2>1. (n = x + 1 \/ x = n + 1) /\ (n = y + 1 \/ y = n + 1)
      BY <1>6
  <2>2. Apart(x, d) < Apart(n, d) /\ Apart(y, d) < Apart(n, d)
      BY <1>4, <1>6 DEF Nearer
  <2> QED
      BY <1>1, <2>1, <2>2, SameSideOfChain
<1>7. \A n \in Node : hops[n][n] = 0
    BY <1>1, <1>2, <1>4
<1> QED
    BY <1>3, <1>5, <1>6, <1>7 DEF IsForest

LEMMA StarIsForest ==
    ASSUME NEW hub \in Node,
           \A x, y \in Node : Edge(x, y) => x # y /\ hub \in {x, y},
           hops = [x \in Node |-> [y \in Node |->
                      IF x = y THEN 0 ELSE IF hub \in {x, y} THEN 1 ELSE 2]]
    PROVE  IsForest
<1>1. hops \in [Node -> [Node -> Nat]]
    OBVIOUS
<1>2. \A x, y, d \in Node : Edge(x, y) => hops[x][d] # hops[y][d]
    OBVIOUS
<1>3. ASSUME NEW n \in Node, NEW x \in Node, NEW y \in Node, NEW d \in Node,
             Edge(n, x), Edge(n, y), Nearer(x, n, d), Nearer(y, n, d)
      PROVE  x = y
    BY <1>3 DEF Nearer
<1> QED
    BY <1>1, <1>2, <1>3 DEF IsForest

-----------------------------------------------------------------------------
(* Any network.  AODV's own argument against loops is an order: along a     *)
(* route the sequence number does not fall, and where it stays the same the *)
(* hop count does.  The handlers keep that order, whatever is lost and      *)
(* whoever restarts, as long as no node exchanges a route for a worse one.  *)
(* A direct route over a link of Lasting is better than any other and may   *)
(* carry any number (updateRoutingTable gives it those of strangers).       *)

CONSTANT Lasting

(* A route over a lasting link straight to its destination.                 *)
Direct(n, d, r) == <<n, d>> \in Lasting /\ r.nextHop = d

(* Route r is as good as the number s and h hops.                           *)
AtLeast(r, s, h) == r.destSeqNum > s \/ (r.destSeqNum = s /\ r.metric <= h)

(* What may replace the route old of n to d: it may change or become        *)
(* inactive, but not be forgotten, and its number does not fall.            *)
NotWorse(n, d, old, new) ==
    /\ new # NoRoute
    /\ Direct(n, d, new) \/ (~Direct(n, d, old) /\ AtLeast(new, old.destSeqNum, old.metric))

NeverWorse ==
    \A n \in Node : \A d \in Node : n # d /\ HasRoute(routes[n], d) =>
        NotWorse(n, d, routes[n][d], routes'[n][d])

(* Node m is d, or has a route to d as good as the number s and h hops.     *)
Vouches(m, d, s, h) ==
    \/ m = d
    \/ HasRoute(routes[m], d) /\ (Direct(m, d, routes[m][d]) \/ AtLeast(routes[m][d], s, h))

OrderedTable(n, t) ==
    \A d \in Node : n # d /\ IsActive(t, d) =>
        Vouches(t[d].nextHop, d, t[d].destSeqNum, t[d].metric - 1)

(* The sender of a request or of a reply vouches for what it carries; only  *)
(* the originator sets the U flag.                                          *)
OrderedPacket(p) ==
    /\ p.body.type = "RREQ" =>
          /\ Vouches(p.src, p.body.orig, p.body.origSeqNum, p.body.hopCount)
          /\ p.body.unknownSeqNum => p.src = p.body.orig
    /\ p.body.type = "RREP" => Vouches(p.src, p.body.dest, p.body.destSeqNum, p.body.hopCount)

OrderInv ==
    /\ \A n \in Node : OrderedTable(n, routes[n])
    /\ \A p \in ipOut : OrderedPacket(p)
    /\ \A n \in Node : \A p \in delayedPackets[n] : OrderedPacket(p)
    /\ \A f \in air : OrderedPacket(f.dgram)

LEMMA AtLeastTransitive ==
    ASSUME NEW a \in Nat, NEW b \in Nat, NEW c \in Nat, NEW i \in Nat, NEW j \in Nat, NEW k \in Int,
           a > b \/ (a = b /\ i <= j), b > c \/ (b = c /\ j <= k)
    PROVE  a > c \/ (a = c /\ i <= k)
OBVIOUS

LEMMA VouchesKept ==
    ASSUME IndInv, IndInv', NeverWorse, NEW m \in Node, NEW d \in Node, NEW s \in Nat, NEW h \in Int,
           Vouches(m, d, s, h)
    PROVE  Vouches(m, d, s, h)'
<1>1. CASE m = d
    BY <1>1 DEF Vouches
<1>2. CASE m # d
  <2>1. PICK old, new : old = routes[m][d] /\ new = routes'[m][d]
      OBVIOUS
  <2>2. HasRoute(routes[m], d) /\ (Direct(m, d, old) \/ AtLeast(old, s, h))
      BY <1>2, <2>1 DEF Vouches
  <2>3. NotWorse(m, d, old, new)
      BY <1>2, <2>1, <2>2 DEF NeverWorse
  <2>4. old \in Route /\ new \in Route
    <3>1. old \in Route \cup {NoRoute} /\ new \in Route \cup {NoRoute}
        BY <2>1 DEF IndInv, TablesOK, RouteTable
    <3> QED
        BY <2>1, <2>2, <2>3, <3>1 DEF HasRoute, NotWorse
  <2>5. /\ old.destSeqNum \in Nat /\ new.destSeqNum \in Nat
        /\ old.metric \in Nat /\ new.metric \in Nat
      BY <2>4 DEF Route
  <2>6. Direct(m, d, new) \/ AtLeast(new, s, h)
      BY <2>2, <2>3, <2>5, AtLeastTransitive DEF NotWorse, AtLeast
  <2>7. new # NoRoute
      BY <2>3 DEF NotWorse
  <2> QED
      BY <2>1, <2>6, <2>7 DEF Vouches, HasRoute
<1> QED
    BY <1>1, <1>2

LEMMA PacketKept ==
    ASSUME IndInv, IndInv', NeverWorse, NEW p \in Datagram, OrderedPacket(p)
    PROVE  OrderedPacket(p)'
<1>1. p.src \in Node /\ p.body \in Body
    BY DEF Datagram
<1>2. ASSUME p.body.type = "RREQ"
      PROVE  Vouches(p.src, p.body.orig, p.body.origSeqNum, p.body.hopCount)'
  <2>1. p.body.orig \in Node /\ p.body.origSeqNum \in Nat /\ p.body.hopCount \in Int
      BY <1>1, <1>2, BodyByType DEF RREQ
  <2> QED
      BY <1>1, <1>2, <2>1, VouchesKept DEF OrderedPacket
<1>3. ASSUME p.body.type = "RREP"
      PROVE  Vouches(p.src, p.body.dest, p.body.destSeqNum, p.body.hopCount)'
  <2>1. p.body.dest \in Node /\ p.body.destSeqNum \in Nat /\ p.body.hopCount \in Int
      BY <1>1, <1>3, BodyByType DEF RREP
  <2> QED
      BY <1>1, <1>3, <2>1, VouchesKept DEF OrderedPacket
<1> QED
    BY <1>2, <1>3 DEF OrderedPacket

(* What a step has to show.                                                 *)
LEMMA StepOrder ==
    ASSUME IndInv, IndInv', OrderInv, NeverWorse,
           \A n \in Node : OrderedTable(n, routes[n])',
           \A p \in ipOut' : p \in ipOut \/ OrderedPacket(p)',
           \A n \in Node : \A p \in delayedPackets'[n] :
               p \in delayedPackets[n] \/ OrderedPacket(p)',
           \A f \in air' : f \in air \/ OrderedPacket(f.dgram)'
    PROVE  OrderInv'
<1>1. \A p \in ipOut : OrderedPacket(p)'
    BY PacketKept DEF IndInv, TrafficOK, GoodPackets, OrderInv
<1>2. ASSUME NEW n \in Node, NEW p \in delayedPackets[n] PROVE OrderedPacket(p)'
  <2>1. p \in Datagram /\ OrderedPacket(p)
      BY DEF IndInv, DelayedOK, OrderInv
  <2> QED
      BY <2>1, PacketKept
<1>3. ASSUME NEW f \in air PROVE OrderedPacket(f.dgram)'
    BY AirFrame, PacketKept DEF OrderInv
<1> QED
    BY <1>1, <1>2, <1>3 DEF OrderInv

-----------------------------------------------------------------------------
(* Tables on the way through a handler.                                     *)

GoodOrder(n, t) == t \in RouteTable /\ OrderedTable(n, t)

LEMMA OwnOrder == ASSUME IndInv, OrderInv, NEW n \in Node PROVE GoodOrder(n, routes[n])
BY TableOfNode DEF IndInv, OrderInv, GoodOrder

LEMMA UpdateRouteFields ==
    ASSUME NEW t \in RouteTable, NEW d \in Node, NEW nh \in Node, NEW h \in Nat,
           NEW v \in BOOLEAN, NEW s \in Nat
    PROVE  LET u == UpdateRoute(t, d, nh, h, v, s)
           IN  /\ u \in RouteTable /\ HasRoute(u, d)
               /\ u[d].nextHop = nh /\ u[d].metric = h /\ u[d].destSeqNum = s
               /\ \A e \in Node : e # d => u[e] = t[e]
<1> DEFINE u == UpdateRoute(t, d, nh, h, v, s)
<1>1. u \in RouteTable /\ HasRoute(u, d)
    BY UpdateRouteType
<1>2. u[d].nextHop = nh /\ u[d].metric = h /\ u[d].destSeqNum = s
    BY DEF UpdateRoute, RouteTable
<1>3. \A e \in Node : e # d => u[e] = t[e]
    BY DEF UpdateRoute, RouteTable
<1> QED
    BY <1>1, <1>2, <1>3

LEMMA UpdateRouteOrder ==
    ASSUME NEW n \in Node, NEW t, GoodOrder(n, t), NEW d \in Node, NEW nh \in Node, NEW h \in Nat,
           NEW v \in BOOLEAN, NEW s \in Nat, Vouches(nh, d, s, h - 1)
    PROVE  GoodOrder(n, UpdateRoute(t, d, nh, h, v, s))
<1>0. t \in RouteTable
    BY DEF GoodOrder
<1>1. PICK u : u = UpdateRoute(t, d, nh, h, v, s)
    OBVIOUS
<1>2. /\ u \in RouteTable
      /\ u[d].nextHop = nh /\ u[d].metric = h /\ u[d].destSeqNum = s
      /\ \A e \in Node : e # d => u[e] = t[e]
    BY <1>0, <1>1, UpdateRouteFields
<1>3. OrderedTable(n, u)
    BY <1>2 DEF GoodOrder, OrderedTable, IsActive, HasRoute
<1> QED
    BY <1>1, <1>2, <1>3 DEF GoodOrder

(* An operation that leaves the active routes alone or makes them inactive. *)
Quieter(t, u) ==
    \A d \in Node : IsActive(u, d) =>
        /\ IsActive(t, d) /\ u[d].nextHop = t[d].nextHop
        /\ u[d].destSeqNum = t[d].destSeqNum /\ u[d].metric = t[d].metric

LEMMA QuieterOrder ==
    ASSUME NEW n, NEW t, NEW u, OrderedTable(n, t), Quieter(t, u) PROVE OrderedTable(n, u)
BY DEF OrderedTable, Quieter

LEMMA AddPrecursorFields ==
    ASSUME NEW t \in RouteTable, NEW d \in Node
    PROVE  LET u == AddPrecursor(t, d)
           IN  /\ u \in RouteTable /\ Quieter(t, u)
               /\ \A e \in Node : HasRoute(t, e) =>
                     /\ HasRoute(u, e) /\ u[e].nextHop = t[e].nextHop
                     /\ u[e].destSeqNum = t[e].destSeqNum /\ u[e].metric = t[e].metric
<1> DEFINE u == AddPrecursor(t, d)
<1>1. u \in RouteTable
    BY AddPrecursorSound
<1>2. CASE ~HasRoute(t, d)
    BY <1>1, <1>2 DEF AddPrecursor, Quieter
<1>3. CASE HasRoute(t, d)
  <2> DEFINE r == [t[d] EXCEPT !.hasPrecursor = TRUE]
  <2>1. t[d] \in Route
      BY <1>3 DEF RouteTable, HasRoute
  <2>2. /\ r.nextHop = t[d].nextHop /\ r.active = t[d].active
        /\ r.destSeqNum = t[d].destSeqNum /\ r.metric = t[d].metric /\ r \in Route
      BY <2>1 DEF Route
  <2>3. u = [t EXCEPT ![d] = r]
      BY <1>3 DEF AddPrecursor
  <2> HIDE DEF r, u
  <2>4. u[d] = r /\ \A e \in Node : e # d => u[e] = t[e]
      BY <2>3 DEF RouteTable
  <2>5. \A e \in Node : HasRoute(t, e) =>
              /\ HasRoute(u, e) /\ u[e].nextHop = t[e].nextHop
              /\ u[e].destSeqNum = t[e].destSeqNum /\ u[e].metric = t[e].metric
      BY <2>2, <2>4, NoRouteIsNoRoute DEF HasRoute
  <2>6. Quieter(t, u)
      BY <1>3, <2>2, <2>4 DEF Quieter, IsActive, HasRoute
  <2> QED
      BY <1>1, <2>5, <2>6 DEF u
<1> QED
    BY <1>2, <1>3

LEMMA BreakLinkQuieter ==
    ASSUME NEW t \in RouteTable, NEW x PROVE Quieter(t, BreakLink(t, x))
<1> SUFFICES ASSUME NEW d \in Node, IsActive(BreakLink(t, x), d)
             PROVE  BreakLink(t, x)[d] = t[d]
    BY DEF Quieter, IsActive, HasRoute
<1>1. CASE d \in RoutesVia(t, x)
  <2>1. t[d] \in Route
      BY <1>1 DEF RoutesVia, IsActive, HasRoute, RouteTable
  <2>2. PICK s : s = NextSeqNum(t[d])
      OBVIOUS
  <2>3. BreakLink(t, x)[d] = [t[d] EXCEPT !.active = FALSE, !.destSeqNum = s]
      BY <1>1, <2>2 DEF BreakLink
  <2>4. ~BreakLink(t, x)[d].active
      BY <2>1, <2>3 DEF Route
  <2> QED
      BY <2>4 DEF IsActive
<1>2. CASE d \notin RoutesVia(t, x)
    BY <1>2 DEF BreakLink
<1> QED
    BY <1>1, <1>2

LEMMA ApplyRERRQuieter ==
    ASSUME NEW t \in RouteTable, NEW src, NEW e PROVE Quieter(t, ApplyRERR(t, src, e))
<1> SUFFICES ASSUME NEW d \in Node, IsActive(ApplyRERR(t, src, e), d)
             PROVE  ApplyRERR(t, src, e)[d] = t[d]
    BY DEF Quieter, IsActive, HasRoute
<1>1. CASE d \in RoutesVia(t, src) \cap e.dests
  <2>1. t[d] \in Route
      BY <1>1 DEF RoutesVia, IsActive, HasRoute, RouteTable
  <2>2. PICK s : s = e.seqNum[d]
      OBVIOUS
  <2>3. ApplyRERR(t, src, e)[d] = [t[d] EXCEPT !.active = FALSE, !.destSeqNum = s]
      BY <1>1, <2>2 DEF ApplyRERR
  <2>4. ~ApplyRERR(t, src, e)[d].active
      BY <2>1, <2>3 DEF Route
  <2> QED
      BY <2>4 DEF IsActive
<1>2. CASE d \notin RoutesVia(t, src) \cap e.dests
    BY <1>2 DEF ApplyRERR
<1> QED
    BY <1>1, <1>2

LEMMA OneEntryQuieter ==
    ASSUME NEW t \in RouteTable, NEW d \in Node, NEW r, r = NoRoute \/ ~r.active
    PROVE  Quieter(t, [t EXCEPT ![d] = r])
BY DEF Quieter, IsActive, HasRoute, RouteTable

LEMMA PenaliseRouteQuieter ==
    ASSUME NEW t \in RouteTable, NEW d \in Node, HasRoute(t, d), ~IsActive(t, d)
    PROVE  Quieter(t, PenaliseRoute(t, d))
<1>1. t[d] \in Route /\ ~t[d].active
    BY DEF RouteTable, HasRoute, IsActive
<1>2. PICK s : s = NextSeqNum(t[d])
    OBVIOUS
<1>3. PICK r : r = [t[d] EXCEPT !.destSeqNum = s]
    OBVIOUS
<1>4. ~r.active
    BY <1>1, <1>3 DEF Route
<1>5. PenaliseRoute(t, d) = [t EXCEPT ![d] = r]
    BY <1>2, <1>3 DEF PenaliseRoute
<1> QED
    BY <1>4, <1>5, OneEntryQuieter

LEMMA ExpungeRouteQuieter ==
    ASSUME NEW t \in RouteTable, NEW d \in Node, HasRoute(t, d)
    PROVE  Quieter(t, ExpungeRoute(t, d))
<1>1. t[d] \in Route
    BY DEF RouteTable, HasRoute
<1>2. PICK r : r = [t[d] EXCEPT !.active = FALSE]
    OBVIOUS
<1>3. ~r.active
    BY <1>1, <1>2 DEF Route
<1>4. \/ ExpungeRoute(t, d) = [t EXCEPT ![d] = r]
      \/ ExpungeRoute(t, d) = [t EXCEPT ![d] = NoRoute]
    BY <1>2 DEF ExpungeRoute
<1> QED
    BY <1>3, <1>4, OneEntryQuieter

(* A handler installs a table.                                              *)
LEMMA InstallOrder ==
    ASSUME IndInv, IndInv', OrderInv, NeverWorse, NEW n \in Node, NEW t, OrderedTable(n, t),
           SetRoutes(n, t)
    PROVE  (\A m \in Node : OrderedTable(m, routes[m])') /\ routes'[n] = t
<1>1. \A m \in Node : routes'[m] = IF m = n THEN t ELSE routes[m]
    BY DEF SetRoutes, IndInv, TablesOK
<1>2. ASSUME NEW m \in Node, NEW d \in Node, m # d, IsActive(routes'[m], d)
      PROVE  Vouches(routes[m][d].nextHop, d, routes[m][d].destSeqNum, routes[m][d].metric - 1)'
  <2>0. PICK r, nh, s, h : /\ r = routes'[m][d] /\ nh = r.nextHop /\ s = r.destSeqNum
                           /\ h = r.metric - 1
      OBVIOUS
  <2>1. Vouches(nh, d, s, h)
      BY <1>1, <1>2, <2>0 DEF OrderInv, OrderedTable
  <2>2. r \in Route
      BY <1>2, <2>0 DEF IndInv, TablesOK, RouteTable, IsActive, HasRoute
  <2>3. nh \in Node /\ s \in Nat /\ h \in Int
      BY <2>0, <2>2 DEF Route
  <2>4. Vouches(nh, d, s, h)'
      BY <2>1, <2>3, VouchesKept
  <2> QED
      BY <2>0, <2>4
<1>3. \A m \in Node : OrderedTable(m, routes[m])'
    BY <1>2 DEF OrderedTable
<1> QED
    BY <1>1, <1>3

LEMMA KeptOrder ==
    ASSUME IndInv, IndInv', OrderInv, NeverWorse, UNCHANGED routes
    PROVE  \A m \in Node : OrderedTable(m, routes[m])'
<1> SUFFICES ASSUME NEW m \in Node PROVE OrderedTable(m, routes[m])'
    OBVIOUS
<1>1. SetRoutes(m, routes[m])
    BY SameRoutesSet
<1> QED
    BY <1>1, InstallOrder DEF OrderInv

-----------------------------------------------------------------------------
(* What a step sends.                                                       *)

LEMMA BroadcastOrder ==
    ASSUME NEW n \in Node, NEW ttl, NEW x,
           x.type = "RREQ" => /\ Vouches(n, x.orig, x.origSeqNum, x.hopCount)'
                              /\ x.unknownSeqNum => n = x.orig,
           x.type = "RREP" => Vouches(n, x.dest, x.destSeqNum, x.hopCount)'
    PROVE  \A f \in BroadcastFrames(n, ttl, x) : OrderedPacket(f.dgram)'
<1> SUFFICES ASSUME NEW f \in BroadcastFrames(n, ttl, x) PROVE OrderedPacket(f.dgram)'
    OBVIOUS
<1>1. PICK p : p = f.dgram
    OBVIOUS
<1>2. p.src = n /\ p.body = x
    BY <1>1, BroadcastEdges
<1>3. OrderedPacket(p)'
    BY <1>2 DEF OrderedPacket
<1> QED
    BY <1>1, <1>3

LEMMA ReplyOrder ==
    ASSUME NEW n \in Node, NEW dst, NEW x, x.type = "RREP",
           Vouches(n, x.dest, x.destSeqNum, x.hopCount)'
    PROVE  OrderedPacket(UnicastControl(n, dst, x))'
<1>0. PICK p : p = UnicastControl(n, dst, x)
    OBVIOUS
<1>1. p.src = n /\ p.body = x
    BY <1>0 DEF UnicastControl, NewDatagram
<1>2. OrderedPacket(p)'
    BY <1>1 DEF OrderedPacket
<1> QED
    BY <1>0, <1>2

LEMMA UnicastOrder ==
    ASSUME NEW n, NEW nh, NEW p, OrderedPacket(p)'
    PROVE  \A f \in UnicastFrame(n, nh, p) : OrderedPacket(f.dgram)'
<1>1. \A f \in UnicastFrame(n, nh, p) : f.dgram = p
    BY UnicastCarries
<1> QED
    BY <1>1

LEMMA OriginateOrder ==
    ASSUME NEW n \in Node, NEW d \in Node, NEW timers, NEW rest, OriginateRREQ(n, d, timers, rest)
    PROVE  \A f \in air' : f \in rest \/ OrderedPacket(f.dgram)'
<1>1. PICK q, ttl : q = createRREQ(n, d) /\ ttl = NextTTL(timers[d])
    OBVIOUS
<1>2. q.type = "RREQ" /\ q.orig = n
    BY <1>1 DEF createRREQ
<1>3. \A f \in BroadcastFrames(n, ttl, q) : OrderedPacket(f.dgram)'
  <2>1. Vouches(n, q.orig, q.origSeqNum, q.hopCount)'
      BY <1>2 DEF Vouches
  <2> QED
      BY <1>2, <2>1, BroadcastOrder
<1>4. air' = rest \/ air' = rest \cup BroadcastFrames(n, ttl, q)
    BY <1>1 DEF OriginateRREQ
<1> QED
    BY <1>3, <1>4

LEMMA delayDatagramOrder ==
    ASSUME IndInv, NEW n \in Node, NEW p, p.dst \in Node, NEW rest, delayDatagram(n, p, rest)
    PROVE  /\ UNCHANGED routes
           /\ \A f \in air' : f \in rest \/ OrderedPacket(f.dgram)'
           /\ \A m \in Node : \A x \in delayedPackets'[m] : x \in delayedPackets[m] \/ x = p
<1>1. UNCHANGED routes
    BY DEF delayDatagram
<1>2. \A f \in air' : f \in rest \/ OrderedPacket(f.dgram)'
    BY OriginateOrder DEF delayDatagram
<1>3. \A m \in Node : delayedPackets'[m] = IF m = n THEN delayedPackets[n] \cup {p}
                                            ELSE delayedPackets[m]
    BY delayDatagramPlaces
<1>4. \A m \in Node : \A x \in delayedPackets'[m] : x \in delayedPackets[m] \/ x = p
    BY <1>3
<1> QED
    BY <1>1, <1>2, <1>4

LEMMA ensureRouteOrder ==
    ASSUME IndInv, IndInv', OrderInv, NeverWorse, NEW n \in Node, NEW p \in Datagram,
           OrderedPacket(p), p.dst \in Node, ensureRouteForDatagram(n, p, air),
           ipOut' \subseteq ipOut
    PROVE  OrderInv'
<1>1. OrderedPacket(p)'
    BY PacketKept
<1>2. CASE RouteOut(n, p, air)
  <2>1. PICK nh : nh = routes[n][p.dst].nextHop
      OBVIOUS
  <2>2. air' = air \cup UnicastFrame(n, nh, p) /\ UNCHANGED <<delayedPackets, routes>>
      BY <1>2, <2>1 DEF RouteOut, discovery
  <2>3. \A m \in Node : OrderedTable(m, routes[m])'
      BY <2>2, KeptOrder
  <2>4. \A f \in air' : f \in air \/ OrderedPacket(f.dgram)'
      BY <1>1, <2>2, UnicastOrder
  <2> QED
      BY <2>2, <2>3, <2>4, StepOrder
<1>3. CASE delayDatagram(n, p, air)
  <2>1. /\ UNCHANGED routes
        /\ \A f \in air' : f \in air \/ OrderedPacket(f.dgram)'
        /\ \A m \in Node : \A x \in delayedPackets'[m] : x \in delayedPackets[m] \/ x = p
      BY <1>3, delayDatagramOrder
  <2>2. \A m \in Node : OrderedTable(m, routes[m])'
      BY <2>1, KeptOrder
  <2> QED
      BY <1>1, <2>1, <2>2, StepOrder
<1> QED
    BY <1>2, <1>3 DEF ensureRouteForDatagram

(* A handler that only installs a table, or does nothing.                   *)
LEMMA QuietOrder ==
    ASSUME IndInv, IndInv', OrderInv, NeverWorse, NEW n \in Node, NEW t, OrderedTable(n, t),
           SetRoutes(n, t), air' \subseteq air, ipOut' \subseteq ipOut,
           \A m \in Node : delayedPackets'[m] \subseteq delayedPackets[m]
    PROVE  OrderInv'
<1>1. \A m \in Node : OrderedTable(m, routes[m])'
    BY InstallOrder
<1> QED
    BY <1>1, StepOrder

LEMMA IdleOrder ==
    ASSUME IndInv, IndInv', OrderInv, NeverWorse, UNCHANGED routes, air' \subseteq air,
           ipOut' \subseteq ipOut, \A m \in Node : delayedPackets'[m] \subseteq delayedPackets[m]
    PROVE  OrderInv'
<1>1. \A m \in Node : OrderedTable(m, routes[m])'
    BY KeptOrder
<1> QED
    BY <1>1, StepOrder

-----------------------------------------------------------------------------
(* Requests.                                                                *)

LEMMA PreviousHopOrder ==
    ASSUME IndInv, OrderInv, NEW n \in Node, NEW f \in air, f.dgram.body.origSeqNum \in Nat
    PROVE  GoodOrder(n, TableAfterPreviousHop(n, f))
<1> DEFINE src == f.dgram.src
           s == f.dgram.body.origSeqNum
<1>1. src \in Node /\ s \in Nat /\ Vouches(src, src, s, 1 - 1)
    BY AirFrame DEF Vouches
<1>2. GoodOrder(n, routes[n]) /\ 1 \in Nat /\ FALSE \in BOOLEAN
    BY OwnOrder
<1>3. TableAfterPreviousHop(n, f) = UpdateRoute(routes[n], src, src, 1, FALSE, s)
    BY DEF TableAfterPreviousHop, PreviousHopRoute
<1> HIDE DEF src, s
<1> QED
    BY <1>1, <1>2, <1>3, UpdateRouteOrder

(* The reverse route is as good as the request says, whether it came from   *)
(* the request or was better already.  When the U flag forces the update,   *)
(* the sender is the originator itself.                                     *)
LEMMA ReverseOrder ==
    ASSUME IndInv, OrderInv, NEW n \in Node, NEW f \in air, Arrives(n, f, "RREQ")
    PROVE  /\ GoodOrder(n, TableAfterPreviousHop(n, f))
           /\ GoodOrder(n, TableAfterRREQ(n, f))
           /\ HasRoute(TableAfterRREQ(n, f), f.dgram.body.orig)
           /\ AtLeast(TableAfterRREQ(n, f)[f.dgram.body.orig], f.dgram.body.origSeqNum,
                      f.dgram.body.hopCount + 1)
<1> DEFINE q == f.dgram.body
           src == f.dgram.src
           t == TableAfterPreviousHop(n, f)
           u == TableAfterRREQ(n, f)
           old == t[q.orig]
           h == q.hopCount + 1
           better == \/ q.origSeqNum > old.destSeqNum
                     \/ q.origSeqNum = old.destSeqNum /\ h < old.metric
                     \/ q.unknownSeqNum
           s == Larger(old.destSeqNum, q.origSeqNum)
<1>1. /\ q.orig \in Node /\ q.origSeqNum \in Nat /\ q.hopCount \in Nat /\ h \in Nat
      /\ q.unknownSeqNum \in BOOLEAN /\ q.type = "RREQ" /\ HasRoute(u, q.orig)
    BY RREQFrame DEF RREQ
<1>2. /\ src \in Node /\ Vouches(src, q.orig, q.origSeqNum, q.hopCount)
      /\ q.unknownSeqNum => src = q.orig
    BY <1>1, AirFrame DEF OrderInv, OrderedPacket
<1>3. GoodOrder(n, t) /\ t \in RouteTable
    BY <1>1, PreviousHopOrder DEF GoodOrder
<1>4. HasRoute(t, q.orig) => old.destSeqNum \in Nat /\ old.metric \in Nat
    BY <1>1, <1>3 DEF RouteTable, HasRoute, Route
<1>5. u = ReverseRoute(t, src, q) /\ TRUE \in BOOLEAN
    BY DEF TableAfterRREQ
<1> HIDE DEF q, src, t, u
<1>6. CASE ~HasRoute(t, q.orig)
  <2>1. PICK r : r = UpdateRoute(t, q.orig, src, h, TRUE, q.origSeqNum)
      OBVIOUS
  <2>2. u = r
      BY <1>5, <1>6, <2>1 DEF ReverseRoute, NewHopCount
  <2>3. Vouches(src, q.orig, q.origSeqNum, h - 1)
      BY <1>1, <1>2
  <2> HIDE DEF h
  <2>4. GoodOrder(n, r)
      BY <1>1, <1>2, <1>3, <1>5, <2>1, <2>3, UpdateRouteOrder
  <2>5. r[q.orig].metric = h /\ r[q.orig].destSeqNum = q.origSeqNum
    <3>1. PICK d \in Node, nh \in Node, k \in Nat, v \in Nat, w \in RouteTable :
            d = q.orig /\ nh = src /\ k = h /\ v = q.origSeqNum /\ w = t
        BY <1>1, <1>2, <1>3
    <3>2. PICK x : x = UpdateRoute(w, d, nh, k, TRUE, v)
        OBVIOUS
    <3>3. x[d].metric = k /\ x[d].destSeqNum = v
        BY <3>2 DEF UpdateRoute, RouteTable
    <3> QED
        BY <2>1, <3>1, <3>2, <3>3
  <2>6. AtLeast(r[q.orig], q.origSeqNum, h)
      BY <1>1, <2>5 DEF AtLeast
  <2> QED
      BY <1>1, <1>3, <2>2, <2>4, <2>6 DEF q, t, u, h
<1>7. CASE HasRoute(t, q.orig) /\ better
  <2>0. s \in Nat /\ s >= q.origSeqNum
      BY <1>1, <1>4, <1>7 DEF Larger
  <2>1. PICK r : r = UpdateRoute(t, q.orig, src, h, TRUE, s)
      OBVIOUS
  <2>2. u = r
      BY <1>5, <1>7, <2>1 DEF ReverseRoute, NewHopCount
  <2>3. Vouches(src, q.orig, s, h - 1)
    <3>1. CASE q.unknownSeqNum
        BY <1>2, <3>1 DEF Vouches
    <3>2. CASE ~q.unknownSeqNum
      <4>1. s = q.origSeqNum
          BY <1>1, <1>4, <1>7, <3>2 DEF Larger
      <4>2. h - 1 = q.hopCount
          BY <1>1
      <4> HIDE DEF s, h
      <4> QED
          BY <1>2, <4>1, <4>2
    <3> QED
        BY <3>1, <3>2
  <2> HIDE DEF s, h
  <2>4. GoodOrder(n, r)
      BY <1>1, <1>2, <1>3, <1>5, <2>0, <2>1, <2>3, UpdateRouteOrder
  <2>5. r[q.orig].metric = h /\ r[q.orig].destSeqNum = s
    <3>1. PICK d \in Node, nh \in Node, k \in Nat, v \in Nat, w \in RouteTable :
            d = q.orig /\ nh = src /\ k = h /\ v = s /\ w = t
        BY <1>1, <1>2, <1>3, <2>0
    <3>2. PICK x : x = UpdateRoute(w, d, nh, k, TRUE, v)
        OBVIOUS
    <3>3. x[d].metric = k /\ x[d].destSeqNum = v
        BY <3>2 DEF UpdateRoute, RouteTable
    <3> QED
        BY <2>1, <3>1, <3>2, <3>3
  <2>6. AtLeast(r[q.orig], q.origSeqNum, h)
      BY <1>1, <2>0, <2>5 DEF AtLeast
  <2> QED
      BY <1>1, <1>3, <2>2, <2>4, <2>6 DEF q, t, u, h
<1>8. CASE HasRoute(t, q.orig) /\ ~better
  <2>1. u = t
      BY <1>5, <1>8 DEF ReverseRoute, NewHopCount
  <2>2. AtLeast(old, q.origSeqNum, h)
      BY <1>1, <1>4, <1>8 DEF AtLeast
  <2> QED
      BY <1>1, <1>3, <2>1, <2>2 DEF q, t, u
<1> QED
    BY <1>6, <1>7, <1>8

(* The node vouches for what its new table holds.                           *)
LEMMA TableVouches ==
    ASSUME NEW n, NEW d, NEW s, NEW h, NEW u, routes'[n] = u, HasRoute(u, d), AtLeast(u[d], s, h)
    PROVE  Vouches(n, d, s, h)'
BY DEF Vouches, HasRoute, AtLeast

(* A reply advertises the node that sends it, or a route of its table.      *)
LEMMA sendRREPOrder ==
    ASSUME IndInv, IndInv', OrderInv, NeverWorse, NEW n \in Node, NEW t, GoodOrder(n, t),
           NEW reply, reply.type = "RREP", reply.orig \in Node, reply.dest \in Node,
           \/ n = reply.dest
           \/ HasRoute(t, reply.dest) /\ AtLeast(t[reply.dest], reply.destSeqNum, reply.hopCount),
           NEW others, sendRREP(n, t, reply, others)
    PROVE  /\ \A m \in Node : OrderedTable(m, routes[m])'
           /\ \A p \in ipOut' : p \in ipOut \/ p \in others \/ OrderedPacket(p)'
           /\ \A e \in Node : HasRoute(t, e) =>
                 /\ HasRoute(routes'[n], e)
                 /\ routes'[n][e].destSeqNum = t[e].destSeqNum
                 /\ routes'[n][e].metric = t[e].metric
<1>1. PICK u : u = AddPrecursor(t, reply.orig)
    OBVIOUS
<1>2. t \in RouteTable /\ OrderedTable(n, t)
    BY DEF GoodOrder
<1>3. /\ u \in RouteTable /\ Quieter(t, u)
      /\ \A e \in Node : HasRoute(t, e) =>
            /\ HasRoute(u, e)
            /\ u[e].destSeqNum = t[e].destSeqNum /\ u[e].metric = t[e].metric
    BY <1>1, <1>2, AddPrecursorFields
<1>4. SetRoutes(n, u)
    BY <1>1 DEF sendRREP
<1>5. (\A m \in Node : OrderedTable(m, routes[m])') /\ routes'[n] = u
    BY <1>2, <1>3, <1>4, QuieterOrder, InstallOrder
<1>6. PICK ack, x, nh :
        /\ x = [reply EXCEPT !.ack = ack]
        /\ ipOut' = ipOut \cup others \cup {UnicastControl(n, nh, x)}
    BY DEF sendRREP
<1>7. /\ x.type = "RREP" /\ x.dest = reply.dest
      /\ x.destSeqNum = reply.destSeqNum /\ x.hopCount = reply.hopCount
    BY <1>6
<1>8. Vouches(n, x.dest, x.destSeqNum, x.hopCount)'
  <2>1. CASE n = reply.dest
      BY <1>7, <2>1 DEF Vouches
  <2>2. CASE HasRoute(t, reply.dest) /\ AtLeast(t[reply.dest], reply.destSeqNum, reply.hopCount)
    <3>1. HasRoute(u, x.dest) /\ AtLeast(u[x.dest], x.destSeqNum, x.hopCount)
        BY <1>3, <1>7, <2>2 DEF AtLeast
    <3> QED
        BY <1>5, <3>1, TableVouches
  <2> QED
      BY <2>1, <2>2
<1>9. OrderedPacket(UnicastControl(n, nh, x))'
    BY <1>7, <1>8, ReplyOrder
<1> QED
    BY <1>3, <1>5, <1>6, <1>9

LEMMA RREQReplyAsDestinationOrder ==
    ASSUME IndInv, IndInv', OrderInv, NeverWorse, NEW n \in Node, NEW f \in air,
           RREQReplyAsDestination(n, f)
    PROVE  OrderInv'
<1> DEFINE q == f.dgram.body
           t == TableAfterRREQ(n, f)
<1>1. PICK seq : sendRREP(n, t, createRREP(q, 0, seq), {})
    BY DEF RREQReplyAsDestination
<1>2. /\ Arrives(n, f, "RREQ") /\ q.dest = n /\ air' \subseteq air /\ UNCHANGED delayedPackets
    BY DEF RREQReplyAsDestination, FreshRREQ
<1>3. GoodOrder(n, t) /\ q.orig \in Node
    BY <1>2, ReverseOrder, RREQFrame DEF RREQ
<1>4. PICK reply : reply = createRREP(q, 0, seq)
    OBVIOUS
<1>5. reply.type = "RREP" /\ reply.orig = q.orig /\ reply.dest = n
    BY <1>2, <1>4 DEF createRREP
<1> HIDE DEF q, t
<1>6. /\ \A m \in Node : OrderedTable(m, routes[m])'
      /\ \A p \in ipOut' : p \in ipOut \/ OrderedPacket(p)'
    BY <1>1, <1>3, <1>4, <1>5, sendRREPOrder
<1> QED
    BY <1>2, <1>6, StepOrder

(* The reply repeats the node's route to the destination, the gratuitous    *)
(* one the request's number with the metric of the reverse route.           *)
LEMMA RREQReplyAsIntermediateOrder ==
    ASSUME IndInv, IndInv', OrderInv, NeverWorse, NEW n \in Node, NEW f \in air,
           RREQReplyAsIntermediate(n, f)
    PROVE  OrderInv'
<1> DEFINE q == f.dgram.body
           t == TableAfterRREQ(n, f)
<1>1. PICK u, reply, x, nh, others :
        /\ u = AddPrecursor(t, q.dest)
        /\ reply = createRREP(q, t[q.dest].metric, t[q.dest].destSeqNum)
        /\ x = createGratuitousRREP(q, t[q.orig].metric)
        /\ others = (IF AskGratuitousRREP THEN {UnicastControl(n, nh, x)} ELSE {})
        /\ sendRREP(n, u, reply, others)
    BY DEF RREQReplyAsIntermediate
<1>2. /\ Arrives(n, f, "RREQ") /\ air' \subseteq air /\ CanReply(t, q) /\ UNCHANGED delayedPackets
    BY DEF RREQReplyAsIntermediate, FreshRREQ
<1>3. /\ GoodOrder(n, t) /\ HasRoute(t, q.orig) /\ AtLeast(t[q.orig], q.origSeqNum, q.hopCount + 1)
    BY <1>2, ReverseOrder
<1>4. q.orig \in Node /\ q.dest \in Node /\ q.origSeqNum \in Nat /\ q.hopCount \in Nat
    BY <1>2, RREQFrame DEF RREQ
<1>5. t \in RouteTable /\ OrderedTable(n, t) /\ HasRoute(t, q.dest)
    BY <1>2, <1>3 DEF GoodOrder, CanReply, IsActive
<1>6. /\ reply.type = "RREP" /\ reply.orig = q.orig /\ reply.dest = q.dest
      /\ reply.hopCount = t[q.dest].metric /\ reply.destSeqNum = t[q.dest].destSeqNum
    BY <1>1 DEF createRREP
<1>7. /\ x.type = "RREP" /\ x.dest = q.orig
      /\ x.hopCount = t[q.orig].metric /\ x.destSeqNum = q.origSeqNum
    BY <1>1 DEF createGratuitousRREP
<1> HIDE DEF q, t
<1>8. t[q.dest] \in Route /\ t[q.orig] \in Route
    BY <1>3, <1>4, <1>5 DEF RouteTable, HasRoute
<1>9. /\ t[q.dest].metric \in Nat /\ t[q.dest].destSeqNum \in Nat
      /\ t[q.orig].metric \in Nat /\ t[q.orig].destSeqNum \in Nat
    BY <1>8 DEF Route
<1>10. /\ u \in RouteTable /\ Quieter(t, u)
       /\ \A e \in Node : HasRoute(t, e) =>
             /\ HasRoute(u, e)
             /\ u[e].destSeqNum = t[e].destSeqNum /\ u[e].metric = t[e].metric
    BY <1>1, <1>4, <1>5, AddPrecursorFields
<1>11. GoodOrder(n, u)
    BY <1>5, <1>10, QuieterOrder DEF GoodOrder
<1>12. HasRoute(u, reply.dest) /\ AtLeast(u[reply.dest], reply.destSeqNum, reply.hopCount)
    BY <1>4, <1>5, <1>6, <1>9, <1>10 DEF AtLeast
<1>13. /\ \A m \in Node : OrderedTable(m, routes[m])'
       /\ \A p \in ipOut' : p \in ipOut \/ p \in others \/ OrderedPacket(p)'
       /\ \A e \in Node : HasRoute(u, e) =>
             /\ HasRoute(routes'[n], e)
             /\ routes'[n][e].destSeqNum = u[e].destSeqNum
             /\ routes'[n][e].metric = u[e].metric
    BY <1>1, <1>4, <1>6, <1>11, <1>12, sendRREPOrder
<1>14. Vouches(n, x.dest, x.destSeqNum, x.hopCount)'
  <2>1. PICK v : v = routes'[n]
      OBVIOUS
  <2>2. /\ HasRoute(v, q.orig) /\ v[q.orig].destSeqNum = t[q.orig].destSeqNum
        /\ v[q.orig].metric = t[q.orig].metric
      BY <1>3, <1>4, <1>10, <1>13, <2>1
  <2>3. AtLeast(v[q.orig], q.origSeqNum, t[q.orig].metric)
      BY <1>3, <1>4, <1>9, <2>2 DEF AtLeast
  <2> QED
      BY <1>7, <2>1, <2>2, <2>3, TableVouches
<1>15. OrderedPacket(UnicastControl(n, nh, x))'
    BY <1>7, <1>14, ReplyOrder
<1>16. \A p \in ipOut' : p \in ipOut \/ OrderedPacket(p)'
    BY <1>1, <1>13, <1>15
<1> QED
    BY <1>2, <1>13, <1>16, StepOrder

LEMMA RREQForwardOrder ==
    ASSUME IndInv, IndInv', OrderInv, NeverWorse, NEW n \in Node, NEW f \in air,
           RREQForward(n, f)
    PROVE  OrderInv'
<1> DEFINE q == f.dgram.body
           t == TableAfterRREQ(n, f)
<1>1. /\ Arrives(n, f, "RREQ") /\ SetRoutes(n, t) /\ UNCHANGED <<delayedPackets, ipOut>>
    BY DEF RREQForward, FreshRREQ
<1>2. /\ GoodOrder(n, t) /\ HasRoute(t, q.orig) /\ AtLeast(t[q.orig], q.origSeqNum, q.hopCount + 1)
    BY <1>1, ReverseOrder
<1>3. q \in RREQ
    BY <1>1, RREQFrame
<1>4. PICK seq, x, ttl :
        /\ x = forwardRREQ(q, seq) /\ ttl = f.dgram.ttl - 1
        /\ air' = (air \ {f}) \cup
               (IF f.dgram.ttl > 1 /\ ~rebooting[n] THEN BroadcastFrames(n, ttl, x) ELSE {})
    BY DEF RREQForward
<1> HIDE DEF q, t
<1>5. /\ x.type = "RREQ" /\ x.orig = q.orig /\ x.origSeqNum = q.origSeqNum
      /\ x.hopCount = q.hopCount + 1 /\ x.unknownSeqNum = FALSE
    BY <1>3, <1>4 DEF forwardRREQ, NewHopCount, RREQ
<1>6. (\A m \in Node : OrderedTable(m, routes[m])') /\ routes'[n] = t
    BY <1>1, <1>2, InstallOrder DEF GoodOrder
<1>7. Vouches(n, x.orig, x.origSeqNum, x.hopCount)'
  <2>1. PICK h : h = q.hopCount + 1
      OBVIOUS
  <2> QED
      BY <1>2, <1>5, <1>6, <2>1, TableVouches
<1>8. \A g \in BroadcastFrames(n, ttl, x) : OrderedPacket(g.dgram)'
    BY <1>5, <1>7, BroadcastOrder
<1>9. \A g \in air' : g \in air \/ OrderedPacket(g.dgram)'
    BY <1>4, <1>8
<1> QED
    BY <1>1, <1>6, <1>9, StepOrder

LEMMA handleRREQOrder ==
    ASSUME IndInv, IndInv', OrderInv, NeverWorse, NEW n \in Node, NEW f \in air, handleRREQ(n, f)
    PROVE  OrderInv'
<1>1. CASE RREQIgnored(n, f)
  <2>1. UNCHANGED <<delayedPackets, ipOut, routes>> /\ air' \subseteq air
      BY <1>1 DEF RREQIgnored, discovery
  <2> QED
      BY <2>1, IdleOrder
<1>2. CASE RREQDuplicate(n, f)
  <2>1. /\ UNCHANGED <<delayedPackets, ipOut>>
        /\ air' \subseteq air /\ SetRoutes(n, TableAfterPreviousHop(n, f)) /\ Arrives(n, f, "RREQ")
      BY <1>2 DEF RREQDuplicate, discovery
  <2> QED
      BY <2>1, ReverseOrder, QuietOrder DEF GoodOrder
<1>3. CASE RREQWouldLoop(n, f)
  <2>1. /\ UNCHANGED <<delayedPackets, ipOut>>
        /\ air' \subseteq air /\ SetRoutes(n, TableAfterRREQ(n, f)) /\ Arrives(n, f, "RREQ")
      BY <1>3 DEF RREQWouldLoop, FreshRREQ
  <2> QED
      BY <2>1, ReverseOrder, QuietOrder DEF GoodOrder
<1> QED
    BY <1>1, <1>2, <1>3, RREQReplyAsDestinationOrder, RREQReplyAsIntermediateOrder,
       RREQForwardOrder DEF handleRREQ

-----------------------------------------------------------------------------
(* Replies.  The forward route is as good as the reply says, whether it     *)
(* came from the reply or was better already.                               *)
LEMMA ForwardOrder ==
    ASSUME IndInv, OrderInv, NEW n \in Node, NEW f \in air, Arrives(n, f, "RREP")
    PROVE  /\ f.dgram.src \in Node /\ f.dgram.body \in RREP
           /\ Vouches(f.dgram.src, f.dgram.body.dest, f.dgram.body.destSeqNum,
                      f.dgram.body.hopCount)
           /\ GoodOrder(n, TableAfterRREP(n, f))
           /\ HasRoute(TableAfterRREP(n, f), f.dgram.body.dest)
           /\ AtLeast(TableAfterRREP(n, f)[f.dgram.body.dest], f.dgram.body.destSeqNum,
                      f.dgram.body.hopCount + 1)
<1> DEFINE p == f.dgram.body
           src == f.dgram.src
           t == TableAfterPreviousHop(n, f)
           u == TableAfterRREP(n, f)
           old == t[p.dest]
           h == p.hopCount + 1
           better == \/ ~HasRoute(t, p.dest)
                     \/ ~old.validDestNum
                     \/ p.destSeqNum > old.destSeqNum
                     \/ p.destSeqNum = old.destSeqNum /\ (~old.active \/ h < old.metric)
<1>1. /\ p \in RREP /\ p.dest \in Node /\ p.destSeqNum \in Nat /\ p.origSeqNum \in Nat
      /\ p.hopCount \in Nat /\ h \in Nat /\ h - 1 = p.hopCount /\ p.type = "RREP"
      /\ HasRoute(u, p.dest)
    BY RREPFrame DEF RREP
<1>2. src \in Node /\ Vouches(src, p.dest, p.destSeqNum, p.hopCount)
    BY <1>1, AirFrame DEF OrderInv, OrderedPacket
<1>3. GoodOrder(n, t) /\ t \in RouteTable
    BY <1>1, PreviousHopOrder DEF GoodOrder
<1>4. HasRoute(t, p.dest) => old.destSeqNum \in Nat /\ old.metric \in Nat
    BY <1>1, <1>3 DEF RouteTable, HasRoute, Route
<1>5. u = ForwardRoute(t, src, p) /\ TRUE \in BOOLEAN
    BY DEF TableAfterRREP
<1> HIDE DEF p, src, t, u
<1>6. CASE better
  <2>1. PICK r : r = UpdateRoute(t, p.dest, src, h, TRUE, p.destSeqNum)
      OBVIOUS
  <2>2. u = r
      BY <1>5, <1>6, <2>1 DEF ForwardRoute, NewHopCount
  <2>3. Vouches(src, p.dest, p.destSeqNum, h - 1)
    <3> HIDE DEF h
    <3> QED
        BY <1>1, <1>2
  <2> HIDE DEF h
  <2>4. GoodOrder(n, r)
      BY <1>1, <1>2, <1>3, <1>5, <2>1, <2>3, UpdateRouteOrder
  <2>5. r[p.dest].metric = h /\ r[p.dest].destSeqNum = p.destSeqNum
    <3>1. PICK d \in Node, nh \in Node, k \in Nat, v \in Nat, w \in RouteTable :
            d = p.dest /\ nh = src /\ k = h /\ v = p.destSeqNum /\ w = t
        BY <1>1, <1>2, <1>3
    <3>2. PICK x : x = UpdateRoute(w, d, nh, k, TRUE, v)
        OBVIOUS
    <3>3. x[d].metric = k /\ x[d].destSeqNum = v
        BY <3>2 DEF UpdateRoute, RouteTable
    <3> QED
        BY <2>1, <3>1, <3>2, <3>3
  <2>6. AtLeast(r[p.dest], p.destSeqNum, h)
      BY <1>1, <2>5 DEF AtLeast
  <2> QED
      BY <1>1, <1>2, <2>2, <2>4, <2>5, <2>6 DEF p, src, u, h
<1>7. CASE ~better
  <2>1. u = t
      BY <1>5, <1>7 DEF ForwardRoute, NewHopCount
  <2>2. HasRoute(t, p.dest) /\ AtLeast(old, p.destSeqNum, h)
      BY <1>1, <1>4, <1>7 DEF AtLeast
  <2> QED
      BY <1>1, <1>2, <1>3, <2>1, <2>2 DEF p, src, u
<1> QED
    BY <1>6, <1>7

LEMMA RREPHelloOrder ==
    ASSUME IndInv, IndInv', OrderInv, NeverWorse, NEW n \in Node, NEW f \in air, RREPHello(n, f)
    PROVE  OrderInv'
<1>1. PICK d, s, u : /\ d = f.dgram.body.dest /\ s = f.dgram.body.destSeqNum
                     /\ u = UpdateRoute(routes[n], d, d, 1, TRUE, s)
    OBVIOUS
<1>2. /\ UNCHANGED <<delayedPackets, ipOut>>
      /\ air' \subseteq air /\ SetRoutes(n, u) /\ Arrives(n, f, "RREP")
    BY <1>1 DEF RREPHello, discovery
<1>3. d \in Node /\ s \in Nat /\ 1 \in Nat /\ TRUE \in BOOLEAN
    BY <1>1, <1>2, RREPFrame DEF RREP
<1>4. GoodOrder(n, routes[n]) /\ Vouches(d, d, s, 1 - 1)
    BY OwnOrder DEF Vouches
<1>5. GoodOrder(n, u)
    BY <1>1, <1>3, <1>4, UpdateRouteOrder
<1> QED
    BY <1>2, <1>5, QuietOrder DEF GoodOrder

LEMMA RREPForwardOrder ==
    ASSUME IndInv, IndInv', OrderInv, NeverWorse, NEW n \in Node, NEW f \in air, RREPForward(n, f)
    PROVE  OrderInv'
<1> DEFINE p == f.dgram.body
           t == TableAfterRREP(n, f)
<1>1. PICK a, u : /\ a = AddPrecursor(t, p.dest) /\ u = AddPrecursor(a, t[p.dest].nextHop)
                  /\ SetRoutes(n, u)
    BY DEF RREPForward
<1>2. /\ UNCHANGED delayedPackets /\ air' \subseteq air /\ Arrives(n, f, "RREP")
      /\ p.orig \in Node \ {n}
    BY DEF RREPForward, discovery
<1>3. /\ GoodOrder(n, t) /\ HasRoute(t, p.dest) /\ p \in RREP
      /\ AtLeast(t[p.dest], p.destSeqNum, p.hopCount + 1)
    BY <1>2, ForwardOrder
<1>4. ~p.ack /\ p.type = "RREP" /\ p.dest \in Node
  <2>1. p.ack => f.dgram.dst = p.orig
      BY <1>2, RREPFrame
  <2> QED
      BY <1>2, <1>3, <2>1, AddressAssumption DEF Arrives, RREP
<1>5. PICK x, nh : x = forwardRREP(p) /\ ipOut' = ipOut \cup {UnicastControl(n, nh, x)}
    BY <1>4 DEF RREPForward
<1> HIDE DEF p, t
<1>6. /\ x.type = "RREP" /\ x.dest = p.dest /\ x.destSeqNum = p.destSeqNum
      /\ x.hopCount = p.hopCount + 1
    BY <1>3, <1>4, <1>5 DEF forwardRREP, NewHopCount, RREP
<1>7. t \in RouteTable /\ OrderedTable(n, t)
    BY <1>3 DEF GoodOrder
<1>8. t[p.dest].nextHop \in Node
    BY <1>3, <1>4, <1>7 DEF RouteTable, HasRoute, Route
<1>9. /\ a \in RouteTable /\ Quieter(t, a)
      /\ HasRoute(a, p.dest) /\ a[p.dest].destSeqNum = t[p.dest].destSeqNum
      /\ a[p.dest].metric = t[p.dest].metric
    BY <1>1, <1>3, <1>4, <1>7, AddPrecursorFields
<1>10. /\ u \in RouteTable /\ Quieter(a, u)
       /\ HasRoute(u, p.dest) /\ u[p.dest].destSeqNum = a[p.dest].destSeqNum
       /\ u[p.dest].metric = a[p.dest].metric
    BY <1>1, <1>4, <1>8, <1>9, AddPrecursorFields
<1>11. OrderedTable(n, u)
    BY <1>7, <1>9, <1>10, QuieterOrder
<1>12. (\A m \in Node : OrderedTable(m, routes[m])') /\ routes'[n] = u
    BY <1>1, <1>11, InstallOrder
<1>13. Vouches(n, x.dest, x.destSeqNum, x.hopCount)'
  <2>1. AtLeast(u[x.dest], x.destSeqNum, x.hopCount) /\ HasRoute(u, x.dest)
      BY <1>3, <1>6, <1>9, <1>10 DEF AtLeast
  <2> QED
      BY <1>12, <2>1, TableVouches
<1>14. OrderedPacket(UnicastControl(n, nh, x))'
    BY <1>6, <1>13, ReplyOrder
<1> QED
    BY <1>2, <1>5, <1>12, <1>14, StepOrder

LEMMA RREPStopsOrder ==
    ASSUME IndInv, IndInv', OrderInv, NeverWorse, NEW n \in Node, NEW f \in air, RREPStops(n, f)
    PROVE  OrderInv'
<1>1. /\ UNCHANGED <<delayedPackets, ipOut>>
      /\ air' \subseteq air /\ SetRoutes(n, TableAfterRREP(n, f)) /\ Arrives(n, f, "RREP")
    BY DEF RREPStops, discovery
<1> QED
    BY <1>1, ForwardOrder, QuietOrder DEF GoodOrder

LEMMA RREPCompletesOrder ==
    ASSUME IndInv, IndInv', OrderInv, NeverWorse, NEW n \in Node, NEW f \in air,
           RREPCompletes(n, f)
    PROVE  OrderInv'
<1> DEFINE p == f.dgram.body
           src == f.dgram.src
           t == TableAfterRREP(n, f)
           h == NewHopCount(p)
           u == UpdateRoute(t, p.dest, src, h, TRUE, p.destSeqNum)
           waiting == {x \in delayedPackets[n] : x.dst = p.dest}
<1>0. delayedPackets \in [Node -> SUBSET Datagram]
    BY DEF IndInv, DelayedOK
<1>1. /\ UNCHANGED ipOut /\ SetRoutes(n, u) /\ Arrives(n, f, "RREP")
      /\ air' = (air \ {f}) \cup UNION {UnicastFrame(n, src, x) : x \in waiting}
      /\ delayedPackets' = [delayedPackets EXCEPT ![n] = @ \ waiting]
    BY DEF RREPCompletes, completeRouteDiscovery
<1>2. /\ p.dest \in Node /\ p.destSeqNum \in Nat /\ h \in Nat /\ h - 1 = p.hopCount
      /\ TRUE \in BOOLEAN
    BY <1>1, RREPFrame DEF RREP, NewHopCount
<1>3. /\ src \in Node /\ GoodOrder(n, t)
      /\ Vouches(src, p.dest, p.destSeqNum, p.hopCount)
    BY <1>1, ForwardOrder
<1>4. PICK s : s = src
    OBVIOUS
<1>5. \A x \in waiting : x \in Datagram /\ OrderedPacket(x)
    BY <1>0 DEF OrderInv
<1>6. \A m \in Node : delayedPackets'[m] \subseteq delayedPackets[m]
    BY <1>0, <1>1
<1>7. \A g \in UNION {UnicastFrame(n, src, x) : x \in waiting} :
        \E x \in waiting : g \in UnicastFrame(n, s, x)
    BY <1>4
<1> HIDE DEF p, src, t, h
<1>8. GoodOrder(n, u)
  <2>1. Vouches(src, p.dest, p.destSeqNum, h - 1)
      BY <1>2, <1>3
  <2> QED
      BY <1>2, <1>3, <2>1, UpdateRouteOrder
<1> HIDE DEF u, waiting
<1>9. \A m \in Node : OrderedTable(m, routes[m])'
    BY <1>1, <1>8, InstallOrder DEF GoodOrder
<1>10. \A x \in waiting : OrderedPacket(x)'
    BY <1>5, PacketKept
<1>11. \A x \in waiting : \A g \in UnicastFrame(n, s, x) : OrderedPacket(g.dgram)'
    BY <1>10, UnicastOrder
<1>12. \A g \in air' : g \in air \/ OrderedPacket(g.dgram)'
    BY <1>1, <1>7, <1>11
<1> QED
    BY <1>1, <1>6, <1>9, <1>12, StepOrder

-----------------------------------------------------------------------------
(* Route errors make routes inactive; datagrams in transit keep their       *)
(* source and their body.                                                   *)

LEMMA broadcastRERROrder ==
    ASSUME NEW n \in Node, NEW dests, NEW seqNum, NEW rest, broadcastRERR(n, dests, seqNum, rest)
    PROVE  \A f \in air' : f \in rest \/ OrderedPacket(f.dgram)'
<1>1. PICK x : x = [type |-> "RERR", dests |-> dests,
                    seqNum |-> [d \in Node |-> IF d \in dests THEN seqNum[d] ELSE 0]]
    OBVIOUS
<1>2. x.type = "RERR"
    BY <1>1
<1>3. air' = rest \/ air' = rest \cup BroadcastFrames(n, 1, x)
    BY <1>1 DEF broadcastRERR
<1>4. \A f \in BroadcastFrames(n, 1, x) : OrderedPacket(f.dgram)'
    BY <1>2, BroadcastOrder
<1> QED
    BY <1>3, <1>4

LEMMA handleRERROrder ==
    ASSUME IndInv, IndInv', OrderInv, NeverWorse, NEW n \in Node, NEW f \in air, handleRERR(n, f)
    PROVE  OrderInv'
<1>1. PICK t, dests, seqNum :
        /\ t = ApplyRERR(routes[n], f.dgram.src, f.dgram.body)
        /\ SetRoutes(n, t) /\ broadcastRERR(n, dests, seqNum, air \ {f})
        /\ UNCHANGED <<delayedPackets, ipOut>>
    BY DEF handleRERR, discovery
<1>2. OrderedTable(n, t)
    BY <1>1, OwnOrder, ApplyRERRQuieter, QuieterOrder DEF GoodOrder
<1>3. \A m \in Node : OrderedTable(m, routes[m])'
    BY <1>1, <1>2, InstallOrder
<1>4. \A g \in air' : g \in air \/ OrderedPacket(g.dgram)'
    BY <1>1, broadcastRERROrder
<1> QED
    BY <1>1, <1>3, <1>4, StepOrder

LEMMA LinkBreakOrder ==
    ASSUME IndInv, IndInv', OrderInv, NeverWorse, NEW f \in air, LinkBreak(f) PROVE OrderInv'
<1>1. PICK n, d, u : n = f.from /\ d = f.dgram.dst /\ u = routes[n][d].nextHop
    OBVIOUS
<1>2. n \in Node /\ UNCHANGED <<delayedPackets, ipOut>>
    BY <1>1, AirFrame DEF LinkBreak, discovery
<1>3. /\ \A m \in Node : OrderedTable(m, routes[m])'
      /\ \A g \in air' : g \in air \/ OrderedPacket(g.dgram)'
  <2>1. CASE HasRoute(routes[n], d) /\ HasRoute(routes[n], u)
    <3>1. PICK t, dests, seqNum :
            /\ t = BreakLink(routes[n], u) /\ SetRoutes(n, t)
            /\ broadcastRERR(n, dests, seqNum, air \ {f})
        BY <1>1, <2>1 DEF LinkBreak, handleLinkBreakSendRERR
    <3>2. OrderedTable(n, t)
        BY <1>2, <3>1, OwnOrder, BreakLinkQuieter, QuieterOrder DEF GoodOrder
    <3>3. \A m \in Node : OrderedTable(m, routes[m])'
        BY <1>2, <3>1, <3>2, InstallOrder
    <3> QED
        BY <1>2, <3>1, <3>3, broadcastRERROrder
  <2>2. CASE ~(HasRoute(routes[n], d) /\ HasRoute(routes[n], u))
    <3>1. air' = air \ {f} /\ UNCHANGED routes
        BY <1>1, <2>2 DEF LinkBreak, handleLinkBreakSendRERR
    <3> QED
        BY <3>1, KeptOrder
  <2> QED
      BY <2>1, <2>2
<1> QED
    BY <1>2, <1>3, StepOrder

LEMMA HopOrder ==
    ASSUME IndInv, IndInv', OrderInv, NeverWorse, NEW f \in air
    PROVE  OrderedPacket(Hop(f.dgram))'
<1>1. PICK p, x : p = f.dgram /\ x = Hop(p)
    OBVIOUS
<1>2. p \in Datagram /\ OrderedPacket(p)
    BY <1>1, AirFrame DEF OrderInv
<1>3. x.src = p.src /\ x.body = p.body
    BY <1>1, <1>2 DEF Hop, Datagram
<1>4. OrderedPacket(p)'
    BY <1>2, PacketKept
<1>5. OrderedPacket(x)'
    BY <1>3, <1>4 DEF OrderedPacket
<1> QED
    BY <1>1, <1>5

LEMMA DelayReturnedOrder ==
    ASSUME IndInv, IndInv', OrderInv, NeverWorse, NEW n \in Node, NEW f \in air,
           DelayReturned(n, f)
    PROVE  OrderInv'
<1>1. PICK p, rest : p = Hop(f.dgram) /\ rest = air \ {f}
    OBVIOUS
<1>2. delayDatagram(n, p, rest) /\ UNCHANGED ipOut /\ Transit(n, f)
    BY <1>1 DEF DelayReturned
<1>3. p.dst \in Node
    BY <1>1, <1>2, AirFrame, HopKeepsBody DEF Transit
<1>4. OrderedPacket(p)'
    BY <1>1, HopOrder
<1>5. /\ UNCHANGED routes
      /\ \A g \in air' : g \in rest \/ OrderedPacket(g.dgram)'
      /\ \A m \in Node : \A x \in delayedPackets'[m] : x \in delayedPackets[m] \/ x = p
    BY <1>2, <1>3, delayDatagramOrder
<1>6. \A m \in Node : OrderedTable(m, routes[m])'
    BY <1>5, KeptOrder
<1>7. /\ \A g \in air' : g \in air \/ OrderedPacket(g.dgram)'
      /\ \A m \in Node : \A x \in delayedPackets'[m] : x \in delayedPackets[m] \/ OrderedPacket(x)'
    BY <1>1, <1>4, <1>5
<1> QED
    BY <1>2, <1>6, <1>7, StepOrder

LEMMA datagramForwardHookOrder ==
    ASSUME IndInv, IndInv', OrderInv, NeverWorse, NEW n \in Node, NEW f \in air,
           datagramForwardHook(n, f)
    PROVE  OrderInv'
<1> DEFINE d == f.dgram.dst
           known == HasRoute(routes[n], d)
<1>1. PICK p, nh : p = Hop(f.dgram) /\ nh = (IF known THEN routes[n][d].nextHop ELSE d)
    OBVIOUS
<1>2. PICK t : t = IF known THEN PenaliseRoute(routes[n], d) ELSE routes[n]
    OBVIOUS
<1>3. PICK rest : rest = (air \ {f}) \cup UnicastFrame(n, nh, p)
    OBVIOUS
<1>4. d \in Node /\ UNCHANGED <<delayedPackets, ipOut>>
    BY DEF datagramForwardHook, Transit, discovery
<1>5. OrderedPacket(p)'
    BY <1>1, HopOrder
<1>6. \A g \in rest : g \in air \/ OrderedPacket(g.dgram)'
    BY <1>3, <1>5, UnicastOrder
<1>7. /\ \A m \in Node : OrderedTable(m, routes[m])'
      /\ \A g \in air' : g \in air \/ OrderedPacket(g.dgram)'
  <2>1. CASE IsActive(routes[n], d)
    <3>1. air' = rest /\ UNCHANGED routes
        BY <1>1, <1>3, <2>1 DEF datagramForwardHook
    <3> QED
        BY <1>6, <3>1, KeptOrder
  <2>2. CASE ~IsActive(routes[n], d)
    <3>1. SetRoutes(n, t)
        BY <1>2, <2>2 DEF datagramForwardHook
    <3>2. \E seqNum : broadcastRERR(n, {d}, seqNum, rest)
        BY <1>1, <1>3, <2>2 DEF datagramForwardHook
    <3>3. OrderedTable(n, t)
        BY <1>2, <1>4, <2>2, OwnOrder, PenaliseRouteQuieter, QuieterOrder DEF GoodOrder
    <3>4. \A m \in Node : OrderedTable(m, routes[m])'
        BY <3>1, <3>3, InstallOrder
    <3>5. \A g \in air' : g \in rest \/ OrderedPacket(g.dgram)'
        BY <3>2, broadcastRERROrder
    <3> QED
        BY <1>6, <3>4, <3>5
  <2> QED
      BY <2>1, <2>2
<1> QED
    BY <1>4, <1>7, StepOrder

LEMMA ReceiveOrder ==
    ASSUME IndInv, IndInv', OrderInv, NeverWorse, NEW n \in Node, NEW f \in air, Receive(n, f)
    PROVE  OrderInv'
<1>1. CASE DeliverData(n, f)
  <2>1. UNCHANGED <<delayedPackets, ipOut, routes>> /\ air' \subseteq air
      BY <1>1 DEF DeliverData, discovery
  <2> QED
      BY <2>1, IdleOrder
<1> QED
    BY <1>1, handleRREQOrder, RREPHelloOrder, RREPForwardOrder, RREPStopsOrder,
       RREPCompletesOrder, handleRERROrder, DelayReturnedOrder, datagramForwardHookOrder
       DEF Receive, handleRREP

-----------------------------------------------------------------------------
(* Self-messages and the lifecycle.                                         *)

LEMMA expungeRoutesOrder ==
    ASSUME IndInv, IndInv', OrderInv, NeverWorse, NEW n \in Node, NEW d \in Node,
           expungeRoutes(n, d)
    PROVE  OrderInv'
<1>1. PICK t : t = ExpungeRoute(routes[n], d)
    OBVIOUS
<1>2. /\ UNCHANGED <<delayedPackets, ipOut, air>>
      /\ HasRoute(routes[n], d) /\ SetRoutes(n, t)
    BY <1>1 DEF expungeRoutes, discovery
<1>3. OrderedTable(n, t)
    BY <1>1, <1>2, OwnOrder, ExpungeRouteQuieter, QuieterOrder DEF GoodOrder
<1> QED
    BY <1>2, <1>3, QuietOrder

LEMMA handleWaitOrder ==
    ASSUME IndInv, IndInv', OrderInv, NeverWorse, NEW n \in Node, NEW d \in Node,
           handleWaitForRREP(n, d)
    PROVE  OrderInv'
<1>1. UNCHANGED <<ipOut, routes>>
    BY DEF handleWaitForRREP
<1>2. CASE RetryRREQ(n, d)
  <2>1. PICK timers : OriginateRREQ(n, d, timers, air) /\ UNCHANGED delayedPackets
      BY <1>2 DEF RetryRREQ
  <2>2. \A f \in air' : f \in air \/ OrderedPacket(f.dgram)'
      BY <2>1, OriginateOrder
  <2>3. \A m \in Node : OrderedTable(m, routes[m])'
      BY <1>1, KeptOrder
  <2> QED
      BY <1>1, <2>1, <2>2, <2>3, StepOrder
<1>3. CASE cancelRouteDiscovery(n, d)
  <2>1. /\ UNCHANGED air
        /\ \A m \in Node : delayedPackets'[m] \subseteq delayedPackets[m]
      BY <1>3 DEF cancelRouteDiscovery, IndInv, DelayedOK
  <2> QED
      BY <1>1, <2>1, IdleOrder
<1> QED
    BY <1>2, <1>3 DEF handleWaitForRREP

LEMMA sendHelloOrder ==
    ASSUME IndInv, IndInv', OrderInv, NeverWorse, NEW n \in Node, sendHelloMessagesIfNeeded(n)
    PROVE  OrderInv'
<1>1. PICK x : /\ x = [type |-> "RREP", ack |-> FALSE, hopCount |-> 0, dest |-> n,
                       destSeqNum |-> sequenceNum[n], orig |-> Unspecified, origSeqNum |-> 0]
               /\ air' = air \cup BroadcastFrames(n, 1, x)
    BY DEF sendHelloMessagesIfNeeded
<1>2. UNCHANGED <<delayedPackets, ipOut, routes>>
    BY DEF sendHelloMessagesIfNeeded, discovery
<1>3. x.type = "RREP" /\ x.dest = n
    BY <1>1
<1>4. Vouches(n, x.dest, x.destSeqNum, x.hopCount)'
    BY <1>3 DEF Vouches
<1>5. \A f \in BroadcastFrames(n, 1, x) : OrderedPacket(f.dgram)'
    BY <1>3, <1>4, BroadcastOrder
<1>6. \A m \in Node : OrderedTable(m, routes[m])'
    BY <1>2, KeptOrder
<1> QED
    BY <1>1, <1>2, <1>5, <1>6, StepOrder

LEMMA SelfMessageOrder ==
    ASSUME IndInv, IndInv', OrderInv, NeverWorse, NEW n \in Node, SelfMessage(n) PROVE OrderInv'
<1>1. CASE CounterTimer(n) \/ handleRREPACKTimer(n) \/ handleBlackListTimer(n)
  <2>1. UNCHANGED <<delayedPackets, ipOut, routes, air>>
      BY <1>1 DEF CounterTimer, handleRREPACKTimer, handleBlackListTimer, discovery
  <2> QED
      BY <2>1, IdleOrder
<1>2. ASSUME NEW k \in rreqsArrivalTime[n], ForgetRREQ(n, k) PROVE OrderInv'
  <2>1. UNCHANGED <<delayedPackets, ipOut, routes, air>>
      BY <1>2 DEF ForgetRREQ
  <2> QED
      BY <2>1, IdleOrder
<1> QED
    BY <1>1, <1>2, handleWaitOrder, expungeRoutesOrder, sendHelloOrder DEF SelfMessage

LEMMA StopOrder ==
    ASSUME IndInv, IndInv', OrderInv, NeverWorse, NEW n \in Node, Stop(n) PROVE OrderInv'
<1>1. /\ UNCHANGED <<ipOut, air>> /\ SetRoutes(n, EmptyTable)
      /\ delayedPackets' = [delayedPackets EXCEPT ![n] = {}]
    BY DEF Stop, clearState
<1>2. \A m \in Node : delayedPackets'[m] \subseteq delayedPackets[m]
    BY <1>1 DEF IndInv, DelayedOK
<1>3. OrderedTable(n, EmptyTable)
    BY DEF OrderedTable, EmptyTable, IsActive, HasRoute
<1> QED
    BY <1>1, <1>2, <1>3, QuietOrder

LEMMA OrderStep ==
    ASSUME IndInv, IndInv', OrderInv, NeverWorse, Next PROVE OrderInv'
<1>1. ASSUME NEW fl \in Flow, AppSend(fl) PROVE OrderInv'
  <2>1. PICK x, p : x = [type |-> "DATA", flow |-> fl] /\ p = NewDatagram(fl.src, fl.dst, UnicastTtl, x)
      OBVIOUS
  <2>2. ensureRouteForDatagram(fl.src, p, air) /\ ipOut' \subseteq ipOut
      BY <1>1, <2>1 DEF AppSend
  <2>3. fl.src \in Node /\ fl.dst \in Node
      BY FlowAssumption
  <2>4. x \in Body /\ x.type = "DATA" /\ UnicastTtl \in Nat
      BY <2>1, ParameterAssumption DEF Body, Data
  <2>5. p \in Datagram /\ p.src = fl.src /\ p.dst = fl.dst /\ p.body = x
      BY <2>1, <2>3, <2>4, NewDatagramGood
  <2>6. OrderedPacket(p)
      BY <2>4, <2>5 DEF OrderedPacket
  <2> QED
      BY <2>2, <2>3, <2>5, <2>6, ensureRouteOrder
<1>2. ASSUME NEW p \in ipOut, IPLocalOut(p) PROVE OrderInv'
  <2>1. p \in Datagram /\ p.src \in Node /\ p.dst \in Node /\ OrderedPacket(p)
      BY DEF IndInv, TrafficOK, GoodPackets, Datagram, OrderInv
  <2> QED
      BY <1>2, <2>1, ensureRouteOrder DEF IPLocalOut
<1>3. ASSUME NEW p \in ipOut, DropWhenDown(p) PROVE OrderInv'
  <2>1. UNCHANGED <<delayedPackets, air, routes>> /\ ipOut' \subseteq ipOut
      BY <1>3 DEF DropWhenDown, discovery
  <2> QED
      BY <2>1, IdleOrder
<1>4. ASSUME NEW f \in air, FrameLost(f) PROVE OrderInv'
  <2>1. UNCHANGED <<delayedPackets, ipOut, routes>> /\ air' \subseteq air
      BY <1>4 DEF FrameLost, discovery
  <2> QED
      BY <2>1, IdleOrder
<1>5. ASSUME NEW f \in air, Receive(f.to, f) PROVE OrderInv'
    BY <1>5, AirFrame, ReceiveOrder
<1>6. ASSUME NEW n \in Node, Start(n) \/ RebootCompleted(n) PROVE OrderInv'
  <2>1. UNCHANGED <<delayedPackets, ipOut, routes, air>>
      BY <1>6 DEF Start, RebootCompleted, discovery
  <2> QED
      BY <2>1, IdleOrder
<1> QED
    BY <1>1, <1>2, <1>3, <1>4, <1>5, <1>6, LinkBreakOrder, SelfMessageOrder, StopOrder DEF Next

LEMMA OrderNext == IndInv /\ OrderInv /\ [Next]_vars /\ [NeverWorse]_vars => OrderInv'
<1> SUFFICES ASSUME IndInv, OrderInv, [Next]_vars, [NeverWorse]_vars PROVE OrderInv'
    OBVIOUS
<1>1. CASE UNCHANGED vars
  <2>1. UNCHANGED <<delayedPackets, ipOut, routes, air>>
      BY <1>1 DEF vars, discovery
  <2>2. ASSUME NEW n \in Node, NEW d \in Node, HasRoute(routes[n], d)
        PROVE  NotWorse(n, d, routes[n][d], routes'[n][d])
    <3>1. PICK r : r = routes[n][d]
        OBVIOUS
    <3>2. r \in Route
        BY <2>2, <3>1 DEF IndInv, TablesOK, RouteTable, HasRoute
    <3>3. r.metric \in Nat /\ r.destSeqNum \in Nat
        BY <3>2 DEF Route
    <3>4. NotWorse(n, d, r, r)
        BY <2>2, <3>1, <3>3 DEF NotWorse, AtLeast, HasRoute
    <3> QED
        BY <2>1, <3>1, <3>4
  <2>3. NeverWorse
      BY <2>2 DEF NeverWorse
  <2> QED
      BY <2>1, <2>3, NextIndInv, IdleOrder
<1>2. CASE Next /\ NeverWorse
    BY <1>2, NextIndInv, OrderStep
<1> QED
    BY <1>1, <1>2

LEMMA OrderInit == Init => OrderInv
BY DEF Init, OrderInv, OrderedTable, EmptyTable, IsActive, HasRoute

LEMMA OrderAlways == Spec /\ [][NeverWorse]_vars => []OrderInv
<1>1. Init => IndInv /\ OrderInv
    BY InitIndInv, OrderInit
<1>2. IndInv /\ OrderInv /\ [Next]_vars /\ [NeverWorse]_vars => (IndInv /\ OrderInv)'
    BY NextIndInv, OrderNext
<1> QED
    BY <1>1, <1>2, PTL DEF Spec

-----------------------------------------------------------------------------
(* From the order to the absence of cycles: follow a cycle from the route   *)
(* with the fewest hops among those with the greatest number.               *)

LEMMA FiniteHasGreatest ==
    ASSUME NEW S, IsFiniteSet(S), S # {}, NEW g \in [S -> Nat]
    PROVE  \E n \in S : \A m \in S : g[m] <= g[n]
<1> DEFINE above == [n \in S |-> {m \in S : g[m] > g[n]}]
           T == {Cardinality(above[n]) : n \in S}
<1>1. \A n \in S : IsFiniteSet(above[n]) /\ Cardinality(above[n]) \in Nat
  <2> SUFFICES ASSUME NEW n \in S PROVE IsFiniteSet(above[n]) /\ Cardinality(above[n]) \in Nat
      OBVIOUS
  <2>1. above[n] \in SUBSET S
      OBVIOUS
  <2> HIDE DEF above
  <2> QED
      BY <2>1, FS_Subset, FS_CardinalityType
<1>2. T \in SUBSET Nat /\ T # {}
    BY <1>1
<1>3. \A m, n \in S : m \in above[n] <=> g[m] > g[n]
    OBVIOUS
<1>4. \A n \in S : above[n] \in SUBSET S
    OBVIOUS
<1> HIDE DEF above
<1>5. PICK n \in S : \A m \in S : Cardinality(above[n]) <= Cardinality(above[m])
  <2>1. PICK x \in T : \A y \in T : x <= y
    <3> HIDE DEF T
    <3> QED
        BY <1>2, NatHasLeast
  <2>2. PICK n \in S : x = Cardinality(above[n])
      OBVIOUS
  <2> QED
      BY <2>1, <2>2
<1>6. SUFFICES ASSUME NEW m \in S, g[m] > g[n] PROVE FALSE
  <2>1. \A m \in S : g[m] \in Nat /\ g[n] \in Nat
      OBVIOUS
  <2>2. (\A m \in S : ~(g[m] > g[n])) => \A m \in S : g[m] <= g[n]
      BY <2>1
  <2> QED
      BY <1>6, <2>2
<1>7. above[m] \in SUBSET above[n] /\ above[m] # above[n]
  <2>1. m \in above[n] /\ m \notin above[m]
      BY <1>3, <1>6
  <2>2. \A k \in above[m] : k \in above[n]
    <3> SUFFICES ASSUME NEW k \in above[m] PROVE k \in above[n]
        OBVIOUS
    <3>1. k \in S /\ g[k] > g[m] /\ g[k] \in Nat /\ g[m] \in Nat /\ g[n] \in Nat
        BY <1>3, <1>4
    <3>2. g[k] > g[n]
        BY <1>6, <3>1
    <3> QED
        BY <1>3, <3>1, <3>2
  <2> QED
      BY <2>1, <2>2
<1>8. PICK a, b : a = above[m] /\ b = above[n]
    OBVIOUS
<1>9. /\ IsFiniteSet(b) /\ a \in SUBSET b /\ a # b /\ Cardinality(a) \in Nat
      /\ Cardinality(b) \in Nat /\ Cardinality(b) <= Cardinality(a)
    BY <1>1, <1>5, <1>7, <1>8
<1>10. Cardinality(a) <= Cardinality(b) /\ (Cardinality(b) = Cardinality(a) => b = a)
    BY <1>9, FS_Subset
<1> QED
    BY <1>9, <1>10

LEMMA OrderLoopFree == ASSUME IsFiniteSet(Node), IndInv, OrderInv PROVE LoopFree
<1> SUFFICES ASSUME NEW d \in Node, NEW S \in SUBSET Node, S # {},
                    \A n \in S : \E m \in S : <<n, m>> \in NextHopOf(d)
             PROVE  FALSE
    BY DEF LoopFree
<1> DEFINE number == [n \in S |-> routes[n][d].destSeqNum]
           metric == [n \in S |-> routes[n][d].metric]
<1>1. IsFiniteSet(S)
    BY FS_Subset
<1>2. ASSUME NEW n \in S
      PROVE  /\ n # d /\ IsActive(routes[n], d) /\ routes[n][d].nextHop \in S
             /\ number[n] \in Nat /\ metric[n] \in Nat
  <2>1. PICK m \in S : <<n, m>> \in NextHopOf(d)
      BY <1>2
  <2>2. n # d /\ IsActive(routes[n], d) /\ routes[n][d].nextHop = m
      BY <2>1 DEF NextHopOf
  <2>3. routes[n][d] \in Route
      BY <2>2 DEF IndInv, TablesOK, RouteTable, IsActive, HasRoute
  <2>4. routes[n][d].destSeqNum \in Nat /\ routes[n][d].metric \in Nat
      BY <2>3 DEF Route
  <2> QED
      BY <2>2, <2>4
(* The next hop's route is better.                                          *)
<1>3. ASSUME NEW n \in S
      PROVE  \E m \in S : \/ number[m] > number[n]
                          \/ number[m] = number[n] /\ metric[m] < metric[n]
  <2>1. PICK m \in S : m = routes[n][d].nextHop
      BY <1>2
  <2>2. Vouches(m, d, routes[n][d].destSeqNum, routes[n][d].metric - 1)
      BY <1>2, <2>1 DEF OrderInv, OrderedTable
  <2>3. m # d /\ ~Direct(m, d, routes[m][d])
      BY <1>2 DEF Direct
  <2>4. AtLeast(routes[m][d], routes[n][d].destSeqNum, routes[n][d].metric - 1)
      BY <2>2, <2>3 DEF Vouches
  <2>5. /\ number[m] = routes[m][d].destSeqNum /\ number[n] = routes[n][d].destSeqNum
        /\ metric[m] = routes[m][d].metric /\ metric[n] = routes[n][d].metric
      OBVIOUS
  <2>6. number[m] > number[n] \/ (number[m] = number[n] /\ metric[m] <= metric[n] - 1)
    <3> HIDE DEF number, metric
    <3> QED
        BY <2>4, <2>5 DEF AtLeast
  <2>7. metric[m] \in Nat /\ metric[n] \in Nat
      BY <1>2
  <2> HIDE DEF number, metric
  <2> QED
      BY <2>6, <2>7
<1>4. number \in [S -> Nat]
    BY <1>2
<1> HIDE DEF number
<1>5. PICK g \in S : \A m \in S : number[m] <= number[g]
    BY <1>1, <1>4, FiniteHasGreatest
<1> DEFINE T == {metric[n] : n \in {m \in S : number[m] = number[g]}}
<1>6. T \in SUBSET Nat /\ T # {}
    BY <1>2
<1>7. \A n \in S : number[n] = number[g] => metric[n] \in T
    OBVIOUS
<1>8. \A x \in T : \E n \in S : number[n] = number[g] /\ x = metric[n]
    OBVIOUS
<1> HIDE DEF metric, T
<1>9. PICK x \in T : \A y \in T : x <= y
    BY <1>6, NatHasLeast
<1>10. PICK n \in S : number[n] = number[g] /\ x = metric[n]
    BY <1>8
<1>11. PICK m \in S : \/ number[m] > number[n]
                      \/ number[m] = number[n] /\ metric[m] < metric[n]
    BY <1>3
<1>12. number[m] = number[g] /\ metric[m] < x
    BY <1>4, <1>5, <1>10, <1>11
<1> QED
    BY <1>2, <1>6, <1>7, <1>9, <1>10, <1>12

(* In any finite network no routing loop forms as long as no node exchanges *)
(* a route for a worse one (AODVRouting.cc, handleRREQ and handleRREP,      *)
(* which compare the numbers and the hop counts).                           *)
THEOREM OrderedIsLoopFree ==
    ASSUME IsFiniteSet(Node) PROVE Spec /\ [][NeverWorse]_vars => []LoopFree
<1>1. IndInv /\ OrderInv => LoopFree
    BY OrderLoopFree
<1> QED
    BY <1>1, Invariance, OrderAlways, PTL
=============================================================================
