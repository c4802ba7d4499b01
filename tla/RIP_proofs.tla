----------------------------- MODULE RIP_proofs -----------------------------
(***************************************************************************)
(* The safety properties of RIP, for any network, any metrics and modes of *)
(* its interfaces, any value of infinity and any number of faults.         *)
(*                                                                         *)
(* The invariant says which routes a router may have and which packets it  *)
(* may have sent; the lemmas, that the functions of RIPRouting stay within *)
(* them.                                                                   *)
(***************************************************************************)
EXTENDS RIP, SequenceTheorems, TLAPS

\* The routes of r that are consistent and not too near, the packets of r that
\* do not announce it too near.
GoodRoutes(r) == {e \in Route : /\ e.route <=> e.metric < Infinity
                                /\ \A d \in LowerBounds : e.metric >= d[r]}
GoodPackets(r) == {p \in Requests \cup Responses :
                     p.command = "RESPONSE" => \A d \in LowerBounds : p.metric >= d[r]}

Controls ==
  /\ phase \in [Routers -> {"down", "starting", "running", "stopping"}]
  /\ triggered \in [Routers -> BOOLEAN]
  /\ ifUp \subseteq Interfaces
  /\ faults \in [FaultKinds -> Nat]

Routes ==
  /\ ripRoutes \in [Routers -> Route \cup {NoRoute}]
  /\ \A r \in Routers : ripRoutes[r] \in GoodRoutes(r) \cup {NoRoute}

Packets ==
  /\ DOMAIN chan = Links
  /\ chan = [l \in Links |-> chan[l]]
  /\ \A l \in Links : chan[l] \in Seq(GoodPackets(l[1]))

IndInv == Controls /\ Routes /\ Packets

-----------------------------------------------------------------------------
(* Constants *)

LEMMA LinkParts ==
  ASSUME NEW l \in Links
  PROVE  /\ l[1] \in Routers /\ l[2] \in Networks /\ l[3] \in Routers
         /\ l[2] \in Attached[l[1]] /\ l[2] \in Attached[l[3]]
         /\ <<l[3], l[2], l[1]>> \in Links
BY DEF Links

LEMMA Bounds ==
  ASSUME NEW d \in LowerBounds
  PROVE  /\ \A r \in Routers : d[r] \in 0 .. Infinity
         /\ \A r \in Routers : Dest \in Attached[r] => d[r] <= IfMetric[r][Dest]
         /\ \A l \in Links : d[l[3]] <= d[l[1]] + IfMetric[l[3]][l[2]]
BY DEF LowerBounds

LEMMA Weights ==
  /\ Infinity \in Nat /\ Infinity >= 2
  /\ \A r \in Routers, n \in Networks : IfMetric[r][n] \in 1 .. Infinity - 1
BY TopologyAssumption

-----------------------------------------------------------------------------
(* Routes *)

LEMMA ImportedGood ==
  ASSUME NEW r \in Routers
  PROVE  Imported(r) \in GoodRoutes(r) \cup {NoRoute}
<1>1. CASE Dest \in Attached[r]
  <2>1. Imported(r) \in Route
    BY <1>1, TopologyAssumption, Weights DEF Imported, Route, RouteTypes, Metrics
  <2>2. \A d \in LowerBounds : Imported(r).metric >= d[r]
    BY <1>1, Bounds, Weights, TopologyAssumption DEF Imported
  <2>3. Imported(r).route <=> Imported(r).metric < Infinity
    BY <1>1, Weights, TopologyAssumption DEF Imported
  <2> QED  BY <2>1, <2>2, <2>3 DEF GoodRoutes
<1>2. CASE Dest \notin Attached[r]
  BY <1>2 DEF Imported
<1> QED  BY <1>1, <1>2

LEMMA InvalidatedGood ==
  ASSUME NEW r \in Routers, NEW e \in Route
  PROVE  Invalidated(e) \in GoodRoutes(r)
<1>1. Invalidated(e) = [type |-> e.type, metric |-> Infinity, ie |-> e.ie, from |-> e.from,
                        route |-> FALSE, changed |-> TRUE, age |-> e.age]
  BY DEF Invalidated
<1>2. Infinity \in Metrics
  BY Weights DEF Metrics
<1>3. Invalidated(e) \in Route
  BY <1>1, <1>2 DEF Route
<1>4. \A d \in LowerBounds : Infinity >= d[r]
  BY Bounds, Weights
<1> QED  BY <1>1, <1>3, <1>4, Weights DEF GoodRoutes

LEMMA CheckedGood ==
  ASSUME NEW r \in Routers, NEW e \in GoodRoutes(r) \cup {NoRoute}
  PROVE  Checked(e) \in GoodRoutes(r) \cup {NoRoute}
<1>1. CASE e = NoRoute
  BY <1>1 DEF Checked
<1>2. CASE e \in GoodRoutes(r)
  <2>1. e \in Route
    BY <1>2 DEF GoodRoutes
  <2> QED  BY <1>2, <2>1, InvalidatedGood DEF Checked
<1> QED  BY <1>1, <1>2

\* What changes neither the metric nor the route in the routing table is harmless.
LEMMA RetouchedGood ==
  ASSUME NEW r \in Routers, NEW e \in GoodRoutes(r), NEW f \in Route,
         f.metric = e.metric, f.route = e.route
  PROVE  f \in GoodRoutes(r)
BY DEF GoodRoutes

\* A response that was not too near is not too near after one more hop.
LEMMA HopGood ==
  ASSUME NEW l \in Links, NEW p \in GoodPackets(l[1]), p.command = "RESPONSE",
         NEW metric, metric = Min2(p.metric + IfMetric[l[3]][l[2]], Infinity)
  PROVE  metric \in Metrics /\ \A d \in LowerBounds : metric >= d[l[3]]
<1>1. p.metric \in Metrics
  BY DEF GoodPackets, Requests, Responses
<1>2. IfMetric[l[3]][l[2]] \in 1 .. Infinity - 1
  BY LinkParts, Weights
<1>3. metric \in Metrics
  BY <1>1, <1>2, Weights DEF Metrics, Min2
<1>4. ASSUME NEW d \in LowerBounds
      PROVE  metric >= d[l[3]]
  <2>1. d[l[3]] \in 0 .. Infinity /\ d[l[1]] \in 0 .. Infinity
    BY Bounds, LinkParts
  <2>2. d[l[3]] <= d[l[1]] + IfMetric[l[3]][l[2]]
    BY Bounds
  <2>3. p.metric >= d[l[1]]
    BY DEF GoodPackets
  <2> QED  BY <1>1, <1>2, <2>1, <2>2, <2>3, Weights DEF Min2, Metrics
<1> QED  BY <1>3, <1>4

LEMMA ProcessedGood ==
  ASSUME NEW r \in Routers, NEW e \in GoodRoutes(r) \cup {NoRoute}, NEW n \in Networks,
         NEW from \in Routers, NEW metric \in Metrics,
         \A d \in LowerBounds : metric >= d[r]
  PROVE  Processed(e, n, metric, from) \in GoodRoutes(r) \cup {NoRoute}
<1>1. CASE e = NoRoute
  <2>1. metric # Infinity => Learnt(n, metric, from) \in GoodRoutes(r)
    BY Weights DEF Learnt, GoodRoutes, Route, RouteTypes, Metrics
  <2> QED  BY <1>1, <2>1 DEF Processed, Adopts
<1>2. CASE e # NoRoute
  <2>1. e \in GoodRoutes(r) /\ e \in Route
    BY <1>2 DEF GoodRoutes
  <2>2. Updated(e, n, metric, from) \in Route
    BY <2>1 DEF Updated, Route, RouteTypes
  <2>3. Updated(e, n, metric, from) \in GoodRoutes(r)
    BY <2>2 DEF Updated, GoodRoutes
  <2>4. [e EXCEPT !.age = "valid"] \in GoodRoutes(r)
    <3>1. [e EXCEPT !.age = "valid"] \in Route
      BY <2>1 DEF Route
    <3>2. [e EXCEPT !.age = "valid"].metric = e.metric /\ [e EXCEPT !.age = "valid"].route = e.route
      BY <2>1 DEF Route
    <3> QED  BY <2>1, <3>1, <3>2, RetouchedGood
  <2> QED  BY <1>2, <2>1, <2>3, <2>4 DEF Processed
<1> QED  BY <1>1, <1>2

-----------------------------------------------------------------------------
(* Packets *)

LEMMA EntriesGood ==
  ASSUME NEW r \in Routers, NEW e \in GoodRoutes(r) \cup {NoRoute}, NEW n, NEW changedOnly
  PROVE  Entries(r, e, n, changedOnly) \in Seq(GoodPackets(r))
<1>1. CASE e = NoRoute
  BY <1>1 DEF Entries
<1>2. CASE e # NoRoute
  <2>1. e.metric \in Metrics /\ Infinity \in Metrics
    BY <1>2, Weights DEF GoodRoutes, Route, Metrics
  <2>2. \A d \in LowerBounds : e.metric >= d[r] /\ Infinity >= d[r]
    BY <1>2, Bounds, Weights DEF GoodRoutes
  <2>3. \A m \in {e.metric, Infinity} : [command |-> "RESPONSE", metric |-> m] \in GoodPackets(r)
    BY <2>1, <2>2 DEF GoodPackets, Responses
  <2>4. \A m \in {e.metric, Infinity} :
          << [command |-> "RESPONSE", metric |-> m] >> \in Seq(GoodPackets(r))
    BY <2>3
  <2> QED  BY <1>2, <2>4 DEF Entries
<1> QED  BY <1>1, <1>2

LEMMA RequestGood ==
  ASSUME NEW r \in Routers
  PROVE  Request \in GoodPackets(r) /\ <<Request>> \in Seq(GoodPackets(r))
<1>1. Request \in GoodPackets(r)
  BY DEF Request, GoodPackets, Requests
<1> QED  BY <1>1

LEMMA MulticastGood ==
  ASSUME Packets, NEW r \in Routers, NEW ns, NEW packets,
         \A n \in Networks : packets[n] \in Seq(GoodPackets(r)),
         Multicast(r, ns, packets)
  PROVE  Packets'
<1>1. ASSUME NEW l \in Links
      PROVE  chan'[l] \in Seq(GoodPackets(l[1]))
  <2>1. chan'[l] = IF Hears(l, r, ns) THEN chan[l] \o packets[l[2]] ELSE chan[l]
    BY DEF Multicast
  <2>2. CASE Hears(l, r, ns)
    <3>1. l[1] = r /\ l[2] \in Networks
      BY <2>2, LinkParts DEF Hears
    <3>2. chan[l] \in Seq(GoodPackets(r)) /\ packets[l[2]] \in Seq(GoodPackets(r))
      BY <3>1 DEF Packets
    <3> QED  BY <2>1, <2>2, <3>1, <3>2
  <2>3. CASE ~Hears(l, r, ns)
    BY <2>1, <2>3 DEF Packets
  <2> QED  BY <2>2, <2>3
<1>2. DOMAIN chan' = Links /\ chan' = [l \in Links |-> chan'[l]]
  BY DEF Multicast
<1> QED  BY <1>1, <1>2 DEF Packets, GoodPackets

LEMMA TakenGood ==
  ASSUME Packets, NEW l \in Links, chan[l] # <<>>, chan' = [chan EXCEPT ![l] = Tail(@)]
  PROVE  Packets'
<1>1. ASSUME NEW k \in Links
      PROVE  chan'[k] \in Seq(GoodPackets(k[1]))
  <2>1. chan[k] \in Seq(GoodPackets(k[1]))
    BY DEF Packets
  <2>2. CASE k = l
    <3>1. chan'[k] = Tail(chan[k]) /\ chan[k] # <<>>
      BY <2>2 DEF Packets
    <3> HIDE DEF GoodPackets
    <3> QED  BY <2>1, <3>1, HeadTailProperties
  <2>3. CASE k # l
    <3>1. chan'[k] = chan[k]
      BY <2>3 DEF Packets
    <3> QED  BY <2>1, <3>1
  <2> QED  BY <2>2, <2>3
<1>2. DOMAIN chan' = Links /\ chan' = [k \in Links |-> chan'[k]]
  BY DEF Packets
<1> QED  BY <1>1, <1>2 DEF Packets

LEMMA ReplacedGood ==
  ASSUME Routes, NEW r \in Routers, NEW e \in GoodRoutes(r) \cup {NoRoute},
         ripRoutes' = [ripRoutes EXCEPT ![r] = e]
  PROVE  Routes'
<1>1. e \in Route \cup {NoRoute}
  BY DEF GoodRoutes
<1> QED  BY <1>1 DEF Routes

-----------------------------------------------------------------------------
(* Steps *)

LEMMA InitInd == Init => IndInv
<1> SUFFICES ASSUME Init PROVE IndInv
  OBVIOUS
<1>1. Controls
  BY DEF Init, Controls
<1>2. Routes
  BY DEF Init, Routes
<1>3. Packets
  BY DEF Init, Packets
<1> QED  BY <1>1, <1>2, <1>3 DEF IndInv

LEMMA FaultCounted ==
  ASSUME Controls, NEW kind \in FaultKinds, NEW max \in Nat, Happens(kind, max)
  PROVE  faults' \in [FaultKinds -> Nat]
BY DEF Controls, Happens

LEMMA UpdateInd ==
  ASSUME IndInv, NEW r \in Routers, NEW changedOnly \in BOOLEAN, processUpdate(r, changedOnly)
  PROVE  Routes' /\ Packets' /\ UNCHANGED <<phase, ifUp, faults>>
<1> DEFINE e == ripRoutes[r]
           packets == [n \in Networks |-> Entries(r, e, n, changedOnly)]
<1>1. e \in GoodRoutes(r) \cup {NoRoute} /\ Checked(e) \in GoodRoutes(r) \cup {NoRoute}
  BY CheckedGood DEF IndInv, Routes
<1>2. \A n \in Networks : packets[n] \in Seq(GoodPackets(r))
  BY <1>1, EntriesGood
<1>3. Packets'
  BY <1>2, MulticastGood DEF processUpdate, IndInv
<1> DEFINE f == [Checked(e) EXCEPT !.changed = FALSE]
<1>4. Checked(e) # NoRoute => f \in GoodRoutes(r)
  <2> SUFFICES ASSUME Checked(e) # NoRoute PROVE f \in GoodRoutes(r)
    OBVIOUS
  <2>1. Checked(e) \in GoodRoutes(r) /\ Checked(e) \in Route
    BY <1>1 DEF GoodRoutes
  <2>2. f \in Route /\ f.metric = Checked(e).metric /\ f.route = Checked(e).route
    BY <2>1 DEF Route
  <2> QED  BY <2>1, <2>2, RetouchedGood
<1>5. ripRoutes' = [ripRoutes EXCEPT ![r] = IF Checked(e) = NoRoute THEN NoRoute ELSE f]
  BY DEF processUpdate
<1> DEFINE g == IF Checked(e) = NoRoute THEN NoRoute ELSE f
<1>6. g \in GoodRoutes(r) \cup {NoRoute}
  BY <1>4
<1>7. ripRoutes' = [ripRoutes EXCEPT ![r] = g]
  BY <1>5
<1>8. Routes'
  <2> HIDE DEF g
  <2> QED  BY <1>6, <1>7, ReplacedGood DEF IndInv
<1> QED  BY <1>3, <1>8 DEF processUpdate

LEMMA TriggerTyped ==
  ASSUME Controls, NEW r \in Routers, triggerUpdate(r)
  PROVE  triggered' \in [Routers -> BOOLEAN]
BY DEF Controls, triggerUpdate

LEMMA RegularUpdateInd ==
  ASSUME IndInv, NEW r \in Routers, RegularUpdate(r)
  PROVE  IndInv'
<1>1. Routes' /\ Packets' /\ UNCHANGED <<phase, ifUp, faults>>
  BY UpdateInd DEF RegularUpdate
<1>2. triggered' \in [Routers -> BOOLEAN]
  BY TriggerTyped DEF RegularUpdate, IndInv, Controls
<1> QED  BY <1>1, <1>2 DEF IndInv, Controls

LEMMA TriggeredUpdateInd ==
  ASSUME IndInv, NEW r \in Routers, TriggeredUpdate(r)
  PROVE  IndInv'
<1>1. Routes' /\ Packets' /\ UNCHANGED <<phase, ifUp, faults>>
  BY UpdateInd DEF TriggeredUpdate
<1>2. triggered' \in [Routers -> BOOLEAN]
  BY DEF TriggeredUpdate, IndInv, Controls
<1> QED  BY <1>1, <1>2 DEF IndInv, Controls

LEMMA ProcessRequestInd ==
  ASSUME IndInv, NEW l \in Links, ProcessRequest(l)
  PROVE  IndInv'
<1> DEFINE r == l[3]
           e == ripRoutes[r]
           back == <<r, l[2], l[1]>>
           reply == Entries(r, e, l[2], FALSE)
<1>1. r \in Routers /\ back \in Links /\ back[1] = r /\ back # l
  BY LinkParts DEF Links
<1>2. e \in GoodRoutes(r) \cup {NoRoute} /\ Checked(e) \in GoodRoutes(r) \cup {NoRoute}
  BY <1>1, CheckedGood DEF IndInv, Routes
<1>3. reply \in Seq(GoodPackets(r))
  BY <1>1, <1>2, EntriesGood
<1>4. Routes'
  BY <1>1, <1>2, ReplacedGood DEF ProcessRequest, IndInv
<1>5. chan[l] # <<>> /\ chan' = [chan EXCEPT ![l] = Tail(@), ![back] = @ \o reply]
  BY DEF ProcessRequest, Arrives
<1>6. ASSUME NEW k \in Links
      PROVE  chan'[k] \in Seq(GoodPackets(k[1]))
  <2> HIDE DEF reply, back
  <2>1. chan[k] \in Seq(GoodPackets(k[1]))
    BY DEF IndInv, Packets
  <2>2. CASE k = l
    <3>1. chan'[k] = Tail(chan[k]) /\ chan[k] # <<>>
      BY <1>1, <1>5, <2>2 DEF IndInv, Packets
    <3> QED  BY <2>1, <3>1, HeadTailProperties
  <2>3. CASE k = back
    <3>1. chan'[k] = chan[k] \o reply
      BY <1>1, <1>5, <2>3 DEF IndInv, Packets
    <3>2. k[1] = r
      BY <1>1, <2>3
    <3> QED  BY <1>3, <2>1, <3>1, <3>2
  <2>4. CASE k # l /\ k # back
    <3>1. chan'[k] = chan[k]
      BY <1>1, <1>5, <2>4 DEF IndInv, Packets
    <3> QED  BY <2>1, <3>1
  <2> QED  BY <2>2, <2>3, <2>4
<1>7. DOMAIN chan' = Links /\ chan' = [k \in Links |-> chan'[k]]
  BY <1>5 DEF IndInv, Packets
<1>8. Packets'
  BY <1>6, <1>7 DEF Packets
<1>9. Controls'
  BY <1>1, TriggerTyped DEF ProcessRequest, IndInv, Controls
<1> QED  BY <1>4, <1>8, <1>9 DEF IndInv

LEMMA ProcessResponseInd ==
  ASSUME IndInv, NEW l \in Links, ProcessResponse(l)
  PROVE  IndInv'
<1> DEFINE r == l[3]
           e == ripRoutes[r]
           p == Head(chan[l])
           metric == Min2(p.metric + IfMetric[r][l[2]], Infinity)
<1>1. r \in Routers /\ l[1] \in Routers /\ l[2] \in Networks
  BY LinkParts
<1>2. chan[l] # <<>> /\ chan[l] \in Seq(GoodPackets(l[1])) /\ p.command = "RESPONSE"
  BY DEF ProcessResponse, Arrives, IndInv, Packets
<1>3. p \in GoodPackets(l[1])
  BY <1>2, HeadTailProperties
<1>4. metric \in Metrics /\ \A d \in LowerBounds : metric >= d[r]
  <2> HIDE DEF p
  <2> QED  BY <1>2, <1>3, HopGood
<1>5. e \in GoodRoutes(r) \cup {NoRoute}
  BY <1>1 DEF IndInv, Routes
<1>6. Processed(e, l[2], metric, l[1]) \in GoodRoutes(r) \cup {NoRoute}
  <2> HIDE DEF metric, e
  <2> QED  BY <1>1, <1>4, <1>5, ProcessedGood
<1>7. Routes'
  BY <1>1, <1>6, ReplacedGood DEF ProcessResponse, IndInv
<1>8. Packets'
  BY <1>2, TakenGood DEF ProcessResponse, IndInv
<1>9. Controls'
  BY <1>1, TriggerTyped DEF ProcessResponse, IndInv, Controls
<1> QED  BY <1>7, <1>8, <1>9 DEF IndInv

\* A packet that nobody hears.
LEMMA DroppedInd ==
  ASSUME IndInv, NEW l \in Links, Dropped(l) \/ Lose(l)
  PROVE  IndInv'
<1>1. chan[l] # <<>> /\ chan' = [chan EXCEPT ![l] = Tail(@)]
      /\ UNCHANGED <<phase, ripRoutes, triggered, ifUp>>
  BY DEF Dropped, Lose
<1>2. faults' \in [FaultKinds -> Nat]
  BY FaultCounted, BoundAssumption DEF Dropped, Lose, IndInv, Controls, FaultKinds
<1>3. Packets'
  BY <1>1, TakenGood DEF IndInv
<1>4. Controls' /\ Routes'
  BY <1>1, <1>2 DEF IndInv, Controls, Routes
<1> QED  BY <1>3, <1>4 DEF IndInv

LEMMA StartInd ==
  ASSUME IndInv, NEW r \in Routers, StartRIPRouting(r)
  PROVE  IndInv'
<1> DEFINE packets == [n \in Networks |-> <<Request>>]
<1>1. \A n \in Networks : packets[n] \in Seq(GoodPackets(r))
  BY RequestGood
<1>2. Packets'
  BY <1>1, MulticastGood DEF StartRIPRouting, IndInv
<1>3. Routes'
  BY ImportedGood, ReplacedGood DEF StartRIPRouting, IndInv
<1>4. Controls'
  BY DEF StartRIPRouting, IndInv, Controls
<1> QED  BY <1>2, <1>3, <1>4 DEF IndInv

LEMMA InterfaceDownInd ==
  ASSUME IndInv, NEW r \in Routers, NEW n, InterfaceDown(r, n)
  PROVE  IndInv'
<1>1. Packets'
  BY DEF InterfaceDown, IndInv, Packets
<1>2. Routes'
  <2>1. CASE ripRoutes' = ripRoutes
    BY <2>1 DEF IndInv, Routes
  <2>2. CASE ripRoutes[r] # NoRoute /\ ripRoutes' = [ripRoutes EXCEPT ![r] = Invalidated(@)]
    <3>1. ripRoutes[r] \in Route /\ ripRoutes' = [ripRoutes EXCEPT ![r] = Invalidated(ripRoutes[r])]
      BY <2>2 DEF IndInv, Routes
    <3> QED  BY <3>1, InvalidatedGood, ReplacedGood DEF IndInv
  <2> QED  BY <2>1, <2>2 DEF InterfaceDown
<1>3. Controls'
  <2>1. faults' \in [FaultKinds -> Nat]
    BY FaultCounted, BoundAssumption DEF InterfaceDown, IndInv, FaultKinds
  <2>2. triggered' \in [Routers -> BOOLEAN]
    BY TriggerTyped DEF InterfaceDown, IndInv, Controls
  <2> QED  BY <2>1, <2>2 DEF InterfaceDown, IndInv, Controls
<1> QED  BY <1>1, <1>2, <1>3 DEF IndInv

LEMMA InterfaceUpInd ==
  ASSUME IndInv, NEW r \in Routers, NEW n \in Attached[r], InterfaceUp(r, n)
  PROVE  IndInv'
<1>1. ASSUME NEW l \in Links
      PROVE  chan'[l] \in Seq(GoodPackets(l[1]))
  <2>1. chan[l] \in Seq(GoodPackets(l[1])) /\ Request \in GoodPackets(l[1])
    BY LinkParts, RequestGood DEF IndInv, Packets
  <2>2. chan'[l] = Append(chan[l], Request) \/ chan'[l] = chan[l]
    BY DEF InterfaceUp
  <2> QED  BY <2>1, <2>2
<1>2. DOMAIN chan' = Links /\ chan' = [l \in Links |-> chan'[l]]
  BY DEF InterfaceUp
<1>3. Packets'
  BY <1>1, <1>2 DEF Packets
<1>4. <<r, n>> \in Interfaces
  BY TopologyAssumption DEF Interfaces
<1>5. Controls' /\ Routes'
  BY <1>4 DEF InterfaceUp, IndInv, Controls, Routes
<1> QED  BY <1>3, <1>5 DEF IndInv

LEMMA StoppedInd ==
  ASSUME IndInv, NEW r \in Routers, NEW to \in {"down", "stopping"}, Stopped(r, to),
         UNCHANGED ifUp, Happens("stops", MaxStops)
  PROVE  Routes' /\ Controls'
<1>1. faults' \in [FaultKinds -> Nat]
  BY FaultCounted, BoundAssumption DEF IndInv, FaultKinds
<1>2. Routes'
  BY ReplacedGood DEF Stopped, IndInv
<1> QED  BY <1>1, <1>2 DEF Stopped, IndInv, Controls

LEMMA ShutdownInd ==
  ASSUME IndInv, NEW r \in Routers, Shutdown(r)
  PROVE  IndInv'
<1> DEFINE e == ripRoutes[r]
           packets == [n \in Networks |-> IF e = NoRoute THEN <<>>
                                          ELSE Entries(r, Invalidated(e), n, FALSE)]
<1>1. e # NoRoute => Invalidated(e) \in GoodRoutes(r)
  BY InvalidatedGood DEF IndInv, Routes
<1>2. ASSUME NEW n \in Networks
      PROVE  packets[n] \in Seq(GoodPackets(r))
  <2>1. CASE e = NoRoute
    BY <2>1
  <2>2. CASE e # NoRoute
    <3>1. Entries(r, Invalidated(e), n, FALSE) \in Seq(GoodPackets(r))
      BY <1>1, <2>2, EntriesGood
    <3> QED  BY <2>2, <3>1
  <2> QED  BY <2>1, <2>2
<1>3. Packets'
  BY <1>2, MulticastGood DEF Shutdown, IndInv
<1>4. Routes' /\ Controls'
  BY StoppedInd DEF Shutdown
<1> QED  BY <1>3, <1>4 DEF IndInv

LEMMA CrashInd ==
  ASSUME IndInv, NEW r \in Routers, Crash(r)
  PROVE  IndInv'
<1>1. Routes' /\ Controls'
  BY StoppedInd DEF Crash
<1>2. Packets'
  BY DEF Crash, IndInv, Packets
<1> QED  BY <1>1, <1>2 DEF IndInv

LEMMA LifecycleInd ==
  ASSUME IndInv, NEW r \in Routers, ShutdownDone(r) \/ NodeStart(r)
  PROVE  IndInv'
<1>1. Controls'
  BY DEF ShutdownDone, NodeStart, IndInv, Controls
<1>2. Routes' /\ Packets'
  BY DEF ShutdownDone, NodeStart, IndInv, Routes, Packets
<1> QED  BY <1>1, <1>2 DEF IndInv

LEMMA AgesInd ==
  ASSUME IndInv, NEW r \in Routers, SourceSilent(r) \/ UpdatesMissed(r)
  PROVE  IndInv'
<1>1. Ages(r)
  BY DEF SourceSilent, UpdatesMissed
<1>2. PICK a \in {"expired", "purge"} : ripRoutes' = [ripRoutes EXCEPT ![r].age = a]
  BY <1>1 DEF Ages
<1> DEFINE e == ripRoutes[r]
           f == [e EXCEPT !.age = a]
<1>3. e \in GoodRoutes(r) /\ e \in Route
  BY <1>1 DEF Ages, IndInv, Routes, GoodRoutes
<1>4. f \in Route /\ f.metric = e.metric /\ f.route = e.route
  BY <1>3 DEF Route
<1>5. f \in GoodRoutes(r)
  BY <1>3, <1>4, RetouchedGood
<1>6. ripRoutes' = [ripRoutes EXCEPT ![r] = f]
  BY <1>2
<1>7. Routes'
  <2> HIDE DEF f
  <2> QED  BY <1>5, <1>6, ReplacedGood DEF IndInv
<1>8. faults' \in [FaultKinds -> Nat]
  BY FaultCounted, BoundAssumption DEF SourceSilent, UpdatesMissed, IndInv, Controls, FaultKinds
<1>9. Controls' /\ Packets'
  BY <1>1, <1>8 DEF Ages, IndInv, Controls, Packets
<1> QED  BY <1>7, <1>9 DEF IndInv

LEMMA NextInd == IndInv /\ [Next]_vars => IndInv'
<1> SUFFICES ASSUME IndInv, [Next]_vars PROVE IndInv'
  OBVIOUS
<1>1. CASE UNCHANGED vars
  BY <1>1 DEF vars, IndInv, Controls, Routes, Packets
<1>2. CASE Next
  <2>1. ASSUME NEW r \in Routers,
               \/ RegularUpdate(r) \/ TriggeredUpdate(r) \/ StartRIPRouting(r)
               \/ Shutdown(r) \/ ShutdownDone(r) \/ Crash(r) \/ NodeStart(r)
               \/ SourceSilent(r) \/ UpdatesMissed(r)
               \/ \E n \in Attached[r] : InterfaceDown(r, n) \/ InterfaceUp(r, n)
        PROVE  IndInv'
    BY <2>1, RegularUpdateInd, TriggeredUpdateInd, StartInd, ShutdownInd, LifecycleInd,
       CrashInd, AgesInd, InterfaceDownInd, InterfaceUpInd
  <2>2. ASSUME NEW l \in Links, Delivery(l) \/ Lose(l)
        PROVE  IndInv'
    BY <2>2, ProcessRequestInd, ProcessResponseInd, DroppedInd DEF Delivery
  <2> QED  BY <1>2, <2>1, <2>2 DEF Next
<1> QED  BY <1>1, <1>2

LEMMA Invariant == Spec => []IndInv
BY InitInd, NextInd, PTL DEF Spec

-----------------------------------------------------------------------------
\* Every route has a metric between 1 and infinity and every packet announces
\* one: std::min in processResponse caps what is learnt.
THEOREM TypeCorrect == Spec => []TypeOK
<1>1. IndInv => TypeOK
  <2> SUFFICES ASSUME IndInv PROVE TypeOK
    OBVIOUS
  <2>1. ASSUME NEW l \in Links
        PROVE  chan[l] \in Seq(Requests \cup Responses)
    <3>1. chan[l] \in Seq(GoodPackets(l[1])) /\ GoodPackets(l[1]) \subseteq Requests \cup Responses
      BY DEF IndInv, Packets, GoodPackets
    <3> QED  BY <3>1
  <2>2. chan \in [Links -> Seq(Requests \cup Responses)]
    BY <2>1 DEF IndInv, Packets
  <2> QED  BY <2>2 DEF IndInv, Controls, Routes, TypeOK
<1> QED  BY <1>1, Invariant, PTL

\* The assertions of updateRoute hold: whatever happened, a route is in the IP
\* routing table exactly while its metric is finite.
THEOREM RoutesAreConsistent == Spec => []RouteIffFinite
<1>1. IndInv => RouteIffFinite
  BY DEF IndInv, Routes, GoodRoutes, RouteIffFinite
<1> QED  BY <1>1, Invariant, PTL

\* No metric is ever below the distance, in any network and after any faults.
THEOREM RoutersAreNeverTooNear == Spec => []NeverTooNear
<1>1. IndInv => NeverTooNear
  BY DEF IndInv, Routes, GoodRoutes, NeverTooNear
<1> QED  BY <1>1, Invariant, PTL

-----------------------------------------------------------------------------
(* Triggered updates leave no neighbour behind.  Two things could: a router *)
(* that restarts with the metric of its own interface, after it had         *)
(* announced a nearer way; and a route that expired, was invalidated        *)
(* without a word to the neighbours (sendRoutes skips it, processUpdate     *)
(* clears the flag) and becomes valid when its source announces infinity.   *)
(* Both happen in the code; without them the neighbours agree.              *)

\* No router attached to the destination is nearer to it through another.
OwnRouteNearest ==
  \E d \in LowerBounds : \A r \in Routers : Dest \in Attached[r] => d[r] = IfMetric[r][Dest]

\* Expired and invalid: the route is not announced.
Muted(e) == IsExpired(e) /\ e.metric = Infinity
Revived(r) ==
  /\ ripRoutes[r] # NoRoute /\ Muted(ripRoutes[r])
  /\ ripRoutes'[r] # NoRoute /\ ~Muted(ripRoutes'[r]) /\ ~ripRoutes'[r].changed
NeverRevived == \A r \in Routers : ~Revived(r)

\* What the router at the beginning of link l announces when its route is s.
Settled(s) == s # NoRoute /\ ~s.changed /\ ~Muted(s)
Silent(l, s) == s.ie = l[2] /\ Mode[l[1]][l[2]] = "SPLIT_HORIZON"
Announced(l, s) ==
  IF s.ie = l[2] /\ Mode[l[1]][l[2]] = "SPLIT_HORIZON_POISONED_REVERSE" THEN Infinity ELSE s.metric

\* The packets on a link: are there responses, and what does the last one say?
NoResponse(q) == \A i \in DOMAIN q : q[i].command # "RESPONSE"
LastIs(q, m) ==
  \A i \in DOMAIN q :
    q[i].command = "RESPONSE" /\ (\A j \in DOMAIN q : j > i => q[j].command # "RESPONSE")
      => q[i].metric = m

\* The router at the end of link l, whose route is e, uses the one at its
\* beginning, whose route is s; q are the packets on the way.  The link may be
\* out of use, may come from a router on the destination network, or be any
\* other.
Uses(l, e) == e # NoRoute /\ e.from = l[1] /\ e.ie = l[2] /\ e.metric < Infinity
Dead(l, q, e) ==
  /\ \A i \in DOMAIN q : q[i].command = "RESPONSE" /\ q[i].metric = Infinity
  /\ ~Uses(l, e)
Own(l, q, e) ==
  /\ \A i \in DOMAIN q : q[i].command = "RESPONSE"
                           => q[i].metric \in {IfMetric[l[1]][Dest], Infinity}
  /\ Uses(l, e) => e.metric = IfMetric[l[1]][Dest] + IfMetric[l[3]][l[2]]
Told(l, q, s, e) ==
  Settled(s) /\ ~Silent(l, s) =>
    /\ LastIs(q, Announced(l, s))
    /\ NoResponse(q) /\ Uses(l, e)
         => e.metric = Min2(Announced(l, s) + IfMetric[l[3]][l[2]], Infinity)

RipLink(l) == Mode[l[1]][l[2]] # "NO_RIP" /\ Mode[l[3]][l[2]] # "NO_RIP"
LinkOK(l, lossless, q, s, e) ==
  /\ ~RipLink(l) => Dead(l, q, e)
  /\ RipLink(l) /\ Dest \in Attached[l[1]] => Own(l, q, e)
  /\ RipLink(l) /\ Dest \notin Attached[l[1]] /\ lossless => Told(l, q, s, e)

RunningOnly == \A r \in Routers : phase[r] # "running" => ripRoutes[r] = NoRoute
OwnRoutes == \A r \in Routers : Dest \in Attached[r] /\ phase[r] = "running"
                                  => ripRoutes[r] = Imported(r)
LinksOK == \A l \in Links :
             LinkOK(l, faults.lost = 0, chan[l], ripRoutes[l[1]], ripRoutes[l[3]])
Agreement ==
  /\ RunningOnly
  /\ faults.flaps = 0 => ifUp = Interfaces /\ OwnRoutes /\ LinksOK

-----------------------------------------------------------------------------
(* Who uses whom, and who announces what, after a change of a route *)

\* Router f, once e, has not begun to use link l nor changed its metric.
Loyal(l, e, f) == Uses(l, f) => Uses(l, e) /\ f.metric = e.metric
\* Route t, once s, is announced as s was.
Kin(s, t) == Settled(t) => Settled(s) /\ t.metric = s.metric /\ t.ie = s.ie

LEMMA LoyalOK ==
  ASSUME NEW l, NEW lossless, NEW q, NEW s, NEW e, NEW f, LinkOK(l, lossless, q, s, e),
         Loyal(l, e, f)
  PROVE  LinkOK(l, lossless, q, s, f)
BY DEF LinkOK, Dead, Own, Told, Loyal

LEMMA KinOK ==
  ASSUME NEW l, NEW lossless, NEW q, NEW s, NEW t, NEW e, LinkOK(l, lossless, q, s, e), Kin(s, t)
  PROVE  LinkOK(l, lossless, q, t, e)
<1>1. Settled(t) => (Silent(l, s) <=> Silent(l, t)) /\ Announced(l, s) = Announced(l, t)
  BY DEF Kin, Silent, Announced
<1>2. Told(l, q, s, e) => Told(l, q, t, e)
  BY <1>1 DEF Told, Kin
<1> QED  BY <1>2 DEF LinkOK

LEMMA LosslessOK ==
  ASSUME NEW l, NEW a, NEW b, NEW q, NEW s, NEW e, LinkOK(l, a, q, s, e), b => a
  PROVE  LinkOK(l, b, q, s, e)
BY DEF LinkOK

LEMMA CheckedCases ==
  ASSUME NEW e \in Route
  PROVE  \/ Checked(e) = e /\ ~IsExpired(e)
         \/ Checked(e) = NoRoute /\ IsExpired(e)
         \/ Checked(e) = Invalidated(e) /\ IsExpired(e)
BY NoRouteAssumption DEF Checked

LEMMA InvalidatedFields ==
  ASSUME NEW e \in Route
  PROVE  /\ Invalidated(e) \in Route /\ Invalidated(e) # NoRoute
         /\ Invalidated(e).metric = Infinity /\ Invalidated(e).changed
         /\ Invalidated(e).age = e.age /\ Invalidated(e).type = e.type
         /\ Invalidated(e).ie = e.ie /\ Invalidated(e).from = e.from
<1>1. Infinity \in Metrics
  BY Weights DEF Metrics
<1>2. Invalidated(e) \in Route
  BY <1>1 DEF Invalidated, Route
<1> QED  BY <1>2, NoRouteAssumption DEF Invalidated

\* The changed flag cleared, by processUpdate.
Cleared(e) == IF Checked(e) = NoRoute THEN NoRoute ELSE [Checked(e) EXCEPT !.changed = FALSE]

LEMMA ClearedFields ==
  ASSUME NEW e \in Route, Checked(e) # NoRoute
  PROVE  /\ Cleared(e) \in Route /\ Cleared(e) # NoRoute /\ ~Cleared(e).changed
         /\ Cleared(e).metric = Checked(e).metric /\ Cleared(e).type = e.type
         /\ Cleared(e).age = e.age
         /\ Cleared(e).ie = e.ie /\ Cleared(e).from = e.from
<1>1. /\ Checked(e) \in Route /\ Checked(e).age = e.age /\ Checked(e).type = e.type
      /\ Checked(e).ie = e.ie /\ Checked(e).from = e.from
  BY CheckedCases, InvalidatedFields
<1>2. Cleared(e) = [Checked(e) EXCEPT !.changed = FALSE]
  BY DEF Cleared
<1>3. Cleared(e) \in Route
  BY <1>1, <1>2 DEF Route
<1>4. Cleared(e) # NoRoute
  BY <1>3, NoRouteAssumption
<1> QED  BY <1>1, <1>2, <1>3, <1>4 DEF Route

LEMMA CheckedLoyal ==
  ASSUME NEW l, NEW e \in Route \cup {NoRoute}
  PROVE  Loyal(l, e, Checked(e)) /\ Loyal(l, e, Cleared(e))
<1>1. CASE e = NoRoute
  BY <1>1 DEF Checked, Cleared, Loyal, Uses
<1>2. CASE e \in Route
  <2>1. Loyal(l, e, Checked(e))
    BY <1>2, CheckedCases, InvalidatedFields, Weights DEF Loyal, Uses
  <2>2. CASE Checked(e) = NoRoute
    BY <2>1, <2>2 DEF Cleared, Loyal, Uses
  <2>3. CASE Checked(e) # NoRoute
    <3>1. CASE Checked(e) = e
      BY <1>2, <2>3, <3>1, ClearedFields, NoRouteAssumption DEF Loyal, Uses
    <3>2. CASE Checked(e) = Invalidated(e)
      BY <1>2, <2>3, <3>2, ClearedFields, InvalidatedFields, Weights DEF Loyal, Uses
    <3> QED  BY <1>2, <2>1, <2>3, <3>1, <3>2, CheckedCases
  <2> QED  BY <2>1, <2>2, <2>3
<1> QED  BY <1>1, <1>2

LEMMA CheckedKin ==
  ASSUME NEW s \in Route \cup {NoRoute}
  PROVE  Kin(s, Checked(s))
<1>1. CASE s = NoRoute
  BY <1>1 DEF Checked, Kin
<1>2. CASE s \in Route
  BY <1>2, CheckedCases, InvalidatedFields DEF Kin, Settled
<1> QED  BY <1>1, <1>2

\* A response on link k, as seen from another link and from those behind.
LEMMA ProcessedLoyal ==
  ASSUME NEW l, NEW k, NEW m \in Metrics, NEW e \in Route \cup {NoRoute},
         l[1] # k[1] \/ l[2] # k[2]
  PROVE  Loyal(l, e, Processed(e, k[2], m, k[1]))
<1> DEFINE f == Processed(e, k[2], m, k[1])
<1>1. CASE Adopts(e, m, k[1])
  <2>1. f.from = k[1] /\ f.ie = k[2]
    BY <1>1 DEF Processed, Learnt, Updated
  <2> QED  BY <2>1 DEF Loyal, Uses
<1>2. CASE ~Adopts(e, m, k[1])
  <2>1. f = IF e # NoRoute /\ e.from = k[1] THEN [e EXCEPT !.age = "valid"] ELSE e
    BY <1>2 DEF Processed
  <2>2. e \in Route => /\ [e EXCEPT !.age = "valid"].from = e.from
                       /\ [e EXCEPT !.age = "valid"].ie = e.ie
                       /\ [e EXCEPT !.age = "valid"].metric = e.metric
    BY DEF Route
  <2> QED  BY <2>1, <2>2 DEF Loyal, Uses
<1> QED  BY <1>1, <1>2

LEMMA ProcessedKin ==
  ASSUME NEW s \in Route \cup {NoRoute}, NEW n, NEW m \in Metrics, NEW from,
         NEW t, t = Processed(s, n, m, from),
         s # NoRoute /\ Muted(s) /\ t # NoRoute /\ ~Muted(t) => t.changed
  PROVE  Kin(s, t)
<1>1. CASE Adopts(s, m, from)
  <2>1. t.changed
    BY <1>1 DEF Processed, Learnt, Updated
  <2> QED  BY <2>1 DEF Kin, Settled
<1>2. CASE ~Adopts(s, m, from)
  <2>1. t = IF s # NoRoute /\ s.from = from THEN [s EXCEPT !.age = "valid"] ELSE s
    BY <1>2 DEF Processed
  <2>2. s \in Route => /\ [s EXCEPT !.age = "valid"].changed = s.changed
                       /\ [s EXCEPT !.age = "valid"].ie = s.ie
                       /\ [s EXCEPT !.age = "valid"].metric = s.metric
    BY DEF Route
  <2> QED  BY <2>1, <2>2 DEF Kin, Settled
<1> QED  BY <1>1, <1>2

LEMMA AgedKin ==
  ASSUME NEW s \in Route, s.type = "RTE", NEW a \in {"expired", "purge"},
         NEW t, t = [s EXCEPT !.age = a], s.age = "valid" \/ s.metric = Infinity
  PROVE  Kin(s, t) /\ \A l : Loyal(l, s, t)
<1>1. /\ t.metric = s.metric /\ t.ie = s.ie /\ t.from = s.from /\ t.changed = s.changed
      /\ t.type = s.type /\ t.age = a
  BY DEF Route
<1>2. s # NoRoute
  BY NoRouteAssumption
<1>3. Muted(s) => Muted(t)
  BY <1>1 DEF Muted, IsExpired
<1> QED  BY <1>1, <1>2, <1>3 DEF Kin, Settled, Loyal, Uses

-----------------------------------------------------------------------------
(* Packets on a link *)

Packet == Requests \cup Responses

LEMMA TailPackets ==
  ASSUME NEW q \in Seq(Packet), q # <<>>
  PROVE  /\ q[1] = Head(q) /\ 1 \in DOMAIN q
         /\ \A i \in DOMAIN Tail(q) : i + 1 \in DOMAIN q /\ Tail(q)[i] = q[i + 1]
         /\ \A i \in DOMAIN q : i # 1 => i - 1 \in DOMAIN Tail(q) /\ Tail(q)[i - 1] = q[i]
OBVIOUS

LEMMA LastTaken ==
  ASSUME NEW q \in Seq(Packet), q # <<>>, NEW m, LastIs(q, m)
  PROVE  /\ LastIs(Tail(q), m)
         /\ NoResponse(Tail(q)) => Head(q).command # "RESPONSE" \/ Head(q).metric = m
         /\ NoResponse(Tail(q)) /\ Head(q).command # "RESPONSE" => NoResponse(q)
<1> DEFINE r == Tail(q)
<1>1. /\ q[1] = Head(q) /\ 1 \in DOMAIN q
      /\ \A i \in DOMAIN r : i + 1 \in DOMAIN q /\ r[i] = q[i + 1]
      /\ \A i \in DOMAIN q : i # 1 => i - 1 \in DOMAIN r /\ r[i - 1] = q[i]
  BY TailPackets
<1>2. DOMAIN q \subseteq Nat \ {0} /\ DOMAIN r \subseteq Nat \ {0}
  OBVIOUS
<1> HIDE DEF r
<1>3. LastIs(r, m)
  <2> SUFFICES ASSUME NEW i \in DOMAIN r, r[i].command = "RESPONSE",
                      \A j \in DOMAIN r : j > i => r[j].command # "RESPONSE"
               PROVE  r[i].metric = m
    BY DEF LastIs
  <2>1. i + 1 \in DOMAIN q /\ r[i] = q[i + 1]
    BY <1>1
  <2>2. ASSUME NEW j \in DOMAIN q, j > i + 1
        PROVE  q[j].command # "RESPONSE"
    <3>1. j # 1 /\ j - 1 > i
      BY <1>2, <2>2
    <3> QED  BY <1>1, <3>1
  <2> QED  BY <2>1, <2>2 DEF LastIs
<1>4. NoResponse(r) => \A j \in DOMAIN q : j > 1 => q[j].command # "RESPONSE"
  BY <1>1, <1>2 DEF NoResponse
<1>5. NoResponse(r) => Head(q).command # "RESPONSE" \/ Head(q).metric = m
  BY <1>1, <1>4 DEF LastIs
<1>6. NoResponse(r) /\ Head(q).command # "RESPONSE" => NoResponse(q)
  BY <1>1, <1>2, <1>4 DEF NoResponse
<1> QED  BY <1>3, <1>5, <1>6 DEF r

LEMMA SentPackets ==
  ASSUME NEW q \in Seq(Packet), NEW p \in Packet
  PROVE  /\ q \o <<p>> \in Seq(Packet)
         /\ Len(q) + 1 \in DOMAIN (q \o <<p>>) /\ (q \o <<p>>)[Len(q) + 1] = p
         /\ \A i \in DOMAIN q : i \in DOMAIN (q \o <<p>>) /\ (q \o <<p>>)[i] = q[i]
         /\ \A i \in DOMAIN (q \o <<p>>) : i # Len(q) + 1 => i \in DOMAIN q
         /\ \A i \in DOMAIN q : i < Len(q) + 1
OBVIOUS

LEMMA LastSent ==
  ASSUME NEW q \in Seq(Packet), NEW p \in Packet
  PROVE  /\ p.command = "RESPONSE" => LastIs(q \o <<p>>, p.metric) /\ ~NoResponse(q \o <<p>>)
         /\ p.command # "RESPONSE" =>
              /\ \A m : LastIs(q, m) => LastIs(q \o <<p>>, m)
              /\ NoResponse(q \o <<p>>) => NoResponse(q)
<1> DEFINE r == q \o <<p>>
           z == Len(q) + 1
<1>1. /\ z \in DOMAIN r /\ r[z] = p
      /\ \A i \in DOMAIN q : i \in DOMAIN r /\ r[i] = q[i] /\ i < z
      /\ \A i \in DOMAIN r : i # z => i \in DOMAIN q
  BY SentPackets
<1> HIDE DEF r, z
<1>2. ASSUME p.command = "RESPONSE"
      PROVE  LastIs(r, p.metric) /\ ~NoResponse(r)
  BY <1>1, <1>2 DEF LastIs, NoResponse
<1>3. ASSUME p.command # "RESPONSE", NEW m, LastIs(q, m)
      PROVE  LastIs(r, m)
  BY <1>1, <1>3 DEF LastIs
<1>4. ASSUME p.command # "RESPONSE", NoResponse(r)
      PROVE  NoResponse(q)
  BY <1>1, <1>4 DEF NoResponse
<1> QED  BY <1>2, <1>3, <1>4 DEF r

LEMMA TakenRequestOK ==
  ASSUME NEW l, NEW lossless, NEW q \in Seq(Packet), NEW s, NEW e, LinkOK(l, lossless, q, s, e),
         q # <<>>, Head(q).command = "REQUEST"
  PROVE  LinkOK(l, lossless, Tail(q), s, e) /\ RipLink(l)
<1>1. /\ q[1] = Head(q) /\ 1 \in DOMAIN q
      /\ \A i \in DOMAIN Tail(q) : i + 1 \in DOMAIN q /\ Tail(q)[i] = q[i + 1]
  BY TailPackets
<1>2. RipLink(l)
  BY <1>1 DEF LinkOK, Dead
<1>3. Own(l, q, e) => Own(l, Tail(q), e)
  BY <1>1 DEF Own
<1>4. Told(l, q, s, e) => Told(l, Tail(q), s, e)
  BY LastTaken DEF Told
<1> QED  BY <1>2, <1>3, <1>4 DEF LinkOK

LEMMA TakenByNobodyOK ==
  ASSUME NEW l, NEW lossless, NEW q \in Seq(Packet), NEW s, LinkOK(l, lossless, q, s, NoRoute),
         q # <<>>
  PROVE  LinkOK(l, lossless, Tail(q), s, NoRoute)
<1>1. \A i \in DOMAIN Tail(q) : i + 1 \in DOMAIN q /\ Tail(q)[i] = q[i + 1]
  BY TailPackets
<1>2. ~Uses(l, NoRoute)
  BY DEF Uses
<1>3. Own(l, q, NoRoute) => Own(l, Tail(q), NoRoute)
  BY <1>1 DEF Own
<1>4. Told(l, q, s, NoRoute) => Told(l, Tail(q), s, NoRoute)
  BY <1>2, LastTaken DEF Told
<1>5. Dead(l, q, NoRoute) => Dead(l, Tail(q), NoRoute)
  BY <1>1 DEF Dead
<1> QED  BY <1>3, <1>4, <1>5 DEF LinkOK

\* Whoever uses the sender of a response believes it.
LEMMA ProcessedUser ==
  ASSUME NEW l, NEW m \in Metrics, NEW e \in Route \cup {NoRoute},
         Uses(l, Processed(e, l[2], m, l[1]))
  PROVE  Processed(e, l[2], m, l[1]).metric = m
<1> DEFINE f == Processed(e, l[2], m, l[1])
<1>1. CASE Adopts(e, m, l[1])
  BY <1>1 DEF Processed, Learnt, Updated
<1>2. CASE ~Adopts(e, m, l[1])
  <2>1. f = IF e # NoRoute /\ e.from = l[1] THEN [e EXCEPT !.age = "valid"] ELSE e
    BY <1>2 DEF Processed
  <2>2. e \in Route => /\ [e EXCEPT !.age = "valid"].from = e.from
                       /\ [e EXCEPT !.age = "valid"].metric = e.metric
    BY DEF Route
  <2>3. e # NoRoute /\ e.from = l[1] /\ f.metric = e.metric
    BY <2>1, <2>2 DEF Uses
  <2> QED  BY <1>2, <2>3 DEF Adopts
<1> QED  BY <1>1, <1>2

LEMMA TakenResponseOK ==
  ASSUME NEW l \in Links, NEW lossless, NEW q \in Seq(Packet), NEW s, NEW e \in Route \cup {NoRoute},
         LinkOK(l, lossless, q, s, e), q # <<>>, Head(q).command = "RESPONSE",
         Head(q).metric \in Metrics,
         NEW m, m = Min2(Head(q).metric + IfMetric[l[3]][l[2]], Infinity)
  PROVE  LinkOK(l, lossless, Tail(q), s, Processed(e, l[2], m, l[1]))
<1> DEFINE f == Processed(e, l[2], m, l[1])
           h == Head(q).metric
           w == IfMetric[l[3]][l[2]]
<1>1. /\ q[1] = Head(q) /\ 1 \in DOMAIN q
      /\ \A i \in DOMAIN Tail(q) : i + 1 \in DOMAIN q /\ Tail(q)[i] = q[i + 1]
  BY TailPackets
<1>2. w \in Nat \ {0} /\ Infinity \in Nat /\ h \in Nat
  <2>1. w \in 1 .. Infinity - 1 /\ Infinity \in Nat
    BY LinkParts, Weights
  <2>2. \A i \in Metrics : i \in Nat
    BY Weights DEF Metrics
  <2> QED  BY <2>1, <2>2
<1>3. m \in Metrics
  BY <1>2, Weights DEF Min2, Metrics
<1>4. Uses(l, f) => f.metric = m /\ m < Infinity
  BY <1>3, ProcessedUser DEF Uses
<1> HIDE DEF f
<1>5. ASSUME Dead(l, q, e) PROVE Dead(l, Tail(q), f)
  <2>1. h = Infinity
    BY <1>1, <1>5 DEF Dead
  <2>2. m = Infinity
    BY <1>2, <2>1 DEF Min2
  <2>3. ~Uses(l, f)
    BY <1>2, <1>4, <2>2
  <2> QED  BY <1>1, <1>5, <2>3 DEF Dead
<1>6. ASSUME Own(l, q, e) PROVE Own(l, Tail(q), f)
  <2>1. h \in {IfMetric[l[1]][Dest], Infinity}
    BY <1>1, <1>6 DEF Own
  <2>2. m < Infinity => h # Infinity /\ m = h + w
    BY <1>2 DEF Min2
  <2>3. Uses(l, f) => f.metric = IfMetric[l[1]][Dest] + w
    BY <1>4, <2>1, <2>2
  <2> QED  BY <1>1, <1>6, <2>3 DEF Own
<1>7. ASSUME Told(l, q, s, e) PROVE Told(l, Tail(q), s, f)
  <2> SUFFICES ASSUME Settled(s), ~Silent(l, s)
               PROVE  /\ LastIs(Tail(q), Announced(l, s))
                      /\ NoResponse(Tail(q)) /\ Uses(l, f)
                           => f.metric = Min2(Announced(l, s) + w, Infinity)
    BY DEF Told
  <2>1. LastIs(q, Announced(l, s))
    BY <1>7 DEF Told
  <2>2. LastIs(Tail(q), Announced(l, s)) /\ (NoResponse(Tail(q)) => h = Announced(l, s))
    BY <2>1, LastTaken
  <2> QED  BY <1>4, <2>2
<1>8. LinkOK(l, lossless, Tail(q), s, f)
  BY <1>5, <1>6, <1>7 DEF LinkOK
<1> QED  BY <1>8 DEF f

LEMMA SentRequestOK ==
  ASSUME NEW l, NEW lossless, NEW q \in Seq(Packet), NEW s, NEW e, LinkOK(l, lossless, q, s, e),
         RipLink(l)
  PROVE  LinkOK(l, lossless, q \o <<Request>>, s, e)
<1>1. Request \in Packet /\ Request.command # "RESPONSE"
  BY DEF Request, Packet, Requests
<1>2. Own(l, q, e) => Own(l, q \o <<Request>>, e)
  <2> HIDE DEF Request
  <2> QED  BY <1>1, SentPackets DEF Own
<1>3. Told(l, q, s, e) => Told(l, q \o <<Request>>, s, e)
  <2> HIDE DEF Request
  <2> QED  BY <1>1, LastSent DEF Told
<1> QED  BY <1>2, <1>3 DEF LinkOK

LEMMA ResponsePacket ==
  ASSUME NEW m \in Metrics
  PROVE  /\ [command |-> "RESPONSE", metric |-> m] \in Packet
         /\ [command |-> "RESPONSE", metric |-> m].command = "RESPONSE"
         /\ [command |-> "RESPONSE", metric |-> m].metric = m
BY DEF Packet, Responses

LEMMA EntriesCases ==
  ASSUME NEW l, NEW s \in Route, NEW changedOnly \in BOOLEAN
  PROVE  \/ /\ Entries(l[1], s, l[2], changedOnly) = <<>>
            /\ IsExpired(s) \/ (changedOnly /\ ~s.changed) \/ Silent(l, s)
         \/ /\ Entries(l[1], s, l[2], changedOnly)
                 = <<[command |-> "RESPONSE", metric |-> Announced(l, s)]>>
            /\ ~IsExpired(s) /\ ~Silent(l, s)
<1>1. s # NoRoute
  BY NoRouteAssumption
<1> QED  BY <1>1 DEF Entries, Silent, Announced

LEMMA SentOwn ==
  ASSUME NEW l, NEW q \in Seq(Packet), NEW e, Own(l, q, e), NEW m \in Metrics,
         m \in {IfMetric[l[1]][Dest], Infinity}
  PROVE  Own(l, q \o <<[command |-> "RESPONSE", metric |-> m]>>, e)
<1> DEFINE p == [command |-> "RESPONSE", metric |-> m]
<1>1. p \in Packet /\ p.metric = m
  BY ResponsePacket
<1> HIDE DEF p
<1>2. Own(l, q \o <<p>>, e)
  BY <1>1, SentPackets DEF Own
<1> QED  BY <1>2 DEF p

LEMMA SentTold ==
  ASSUME NEW l, NEW q \in Seq(Packet), NEW s, NEW e, NEW m \in Metrics,
         Settled(s) /\ ~Silent(l, s) => m = Announced(l, s)
  PROVE  Told(l, q \o <<[command |-> "RESPONSE", metric |-> m]>>, s, e)
<1> DEFINE p == [command |-> "RESPONSE", metric |-> m]
<1>1. p \in Packet /\ p.metric = m /\ p.command = "RESPONSE"
  BY ResponsePacket
<1> HIDE DEF p
<1>2. Told(l, q \o <<p>>, s, e)
  BY <1>1, LastSent DEF Told
<1> QED  BY <1>2 DEF p

LEMMA NothingSent == \A q \in Seq(Packet) : q \o <<>> = q
<1> HIDE DEF Packet
<1> QED  OBVIOUS

\* What sendRoutes sends is what the neighbours then know.
LEMMA SentEntriesOK ==
  ASSUME NEW l \in Links, NEW lossless, NEW q \in Seq(Packet), NEW s \in Route \cup {NoRoute}, NEW e,
         LinkOK(l, lossless, q, s, e), RipLink(l), NEW changedOnly \in BOOLEAN,
         Dest \in Attached[l[1]] => s \in {NoRoute, Imported(l[1])}
  PROVE  /\ LinkOK(l, lossless, q \o Entries(l[1], s, l[2], changedOnly), Cleared(s), e)
         /\ ~changedOnly
              => LinkOK(l, lossless, q \o Entries(l[1], s, l[2], changedOnly), Checked(s), e)
<1> DEFINE x == Entries(l[1], s, l[2], changedOnly)
<1>1. CASE s = NoRoute
  <2>1. x = <<>> /\ Checked(s) = NoRoute /\ Cleared(s) = NoRoute
    BY <1>1 DEF Entries, Checked, Cleared
  <2>2. q \o x = q
    BY <2>1
  <2> QED  BY <1>1, <2>1, <2>2
<1>2. CASE s \in Route
  <2>1. Infinity \in Metrics /\ Announced(l, s) \in Metrics /\ Announced(l, s) \in {s.metric, Infinity}
    BY <1>2, Weights DEF Announced, Route, Metrics
  <2>2. Own(l, q, e) /\ Dest \in Attached[l[1]] => Own(l, q \o x, e)
    <3> SUFFICES ASSUME Own(l, q, e), Dest \in Attached[l[1]] PROVE Own(l, q \o x, e)
      OBVIOUS
    <3>1. s = Imported(l[1])
      BY <1>2, NoRouteAssumption
    <3>2. s.metric = IfMetric[l[1]][Dest]
      BY <3>1 DEF Imported
    <3>3. CASE x = <<>>
      BY <3>3
    <3>4. CASE x = <<[command |-> "RESPONSE", metric |-> Announced(l, s)]>>
      BY <2>1, <3>2, <3>4, SentOwn
    <3> QED  BY <1>2, <3>3, <3>4, EntriesCases
  <2>3. Told(l, q, s, e) => /\ Told(l, q \o x, Cleared(s), e)
                            /\ ~changedOnly => Told(l, q \o x, Checked(s), e)
    <3> SUFFICES ASSUME Told(l, q, s, e)
                 PROVE  /\ Told(l, q \o x, Cleared(s), e)
                        /\ ~changedOnly => Told(l, q \o x, Checked(s), e)
      OBVIOUS
    <3>1. CASE IsExpired(s)
      <4>1. ~Settled(Checked(s))
        BY <1>2, <3>1, CheckedCases, InvalidatedFields DEF Settled
      <4>2. ~Settled(Cleared(s))
        <5>1. CASE Checked(s) = NoRoute
          BY <5>1 DEF Cleared, Settled
        <5>2. CASE Checked(s) # NoRoute
          <6>1. Checked(s).metric = Infinity
            BY <1>2, <3>1, <5>2, CheckedCases, InvalidatedFields
          <6> QED  BY <1>2, <3>1, <5>2, <6>1, ClearedFields DEF Settled, Muted, IsExpired
        <5> QED  BY <5>1, <5>2
      <4> QED  BY <4>1, <4>2 DEF Told
    <3>2. CASE ~IsExpired(s)
      <4>1. Checked(s) = s /\ Checked(s) # NoRoute
        BY <1>2, <3>2, CheckedCases, NoRouteAssumption
      <4>2. /\ Cleared(s).metric = s.metric /\ Cleared(s).ie = s.ie /\ Cleared(s) # NoRoute
            /\ Cleared(s).type = s.type /\ Cleared(s).age = s.age
        BY <1>2, <4>1, ClearedFields
      <4>3. Announced(l, Cleared(s)) = Announced(l, s) /\ (Silent(l, Cleared(s)) <=> Silent(l, s))
        BY <4>2 DEF Announced, Silent
      <4>4. CASE x = <<[command |-> "RESPONSE", metric |-> Announced(l, s)]>>
        BY <2>1, <4>1, <4>3, <4>4, SentTold
      <4>5. CASE x = <<>> /\ Silent(l, s)
        BY <4>1, <4>3, <4>5 DEF Told
      <4>6. CASE x = <<>> /\ changedOnly /\ ~s.changed
        <5>1. q \o x = q
          BY <4>6, NothingSent
        <5>2. Settled(Cleared(s)) => Settled(s)
          BY <4>1, <4>2, <4>6 DEF Settled, Muted, IsExpired
        <5> QED  BY <4>3, <4>6, <5>1, <5>2 DEF Told
      <4> QED  BY <1>2, <3>2, <4>4, <4>5, <4>6, EntriesCases
    <3> QED  BY <3>1, <3>2
  <2> QED  BY <2>2, <2>3 DEF LinkOK
<1> QED  BY <1>1, <1>2

\* A router that says good-bye.
LEMMA SentInfinityOK ==
  ASSUME NEW l \in Links, NEW lossless, NEW q \in Seq(Packet), NEW s \in Route, NEW e,
         LinkOK(l, lossless, q, s, e)
  PROVE  LinkOK(l, lossless, q \o Entries(l[1], Invalidated(s), l[2], FALSE), NoRoute, e)
<1> DEFINE x == Entries(l[1], Invalidated(s), l[2], FALSE)
           p == [command |-> "RESPONSE", metric |-> Infinity]
<1>1. Invalidated(s) \in Route /\ Announced(l, Invalidated(s)) = Infinity
  BY InvalidatedFields DEF Announced
<1>2. x = <<>> \/ x = <<p>>
  BY <1>1, EntriesCases
<1>3. Infinity \in Metrics
  BY Weights DEF Metrics
<1>4. p \in Packet /\ p.command = "RESPONSE" /\ p.metric = Infinity
  BY <1>3, ResponsePacket
<1>5. ~Settled(NoRoute)
  BY DEF Settled
<1>6. Dead(l, q, e) => Dead(l, q \o x, e)
  <2>1. CASE x = <<>>
    BY <2>1, NothingSent
  <2>2. CASE x = <<p>>
    <3> HIDE DEF p, x
    <3> QED  BY <1>4, <2>2, SentPackets DEF Dead
  <2> QED  BY <1>2, <2>1, <2>2
<1>7. Own(l, q, e) => Own(l, q \o x, e)
  <2>1. CASE x = <<>>
    BY <2>1, NothingSent
  <2>2. CASE x = <<p>>
    BY <1>3, <2>2, SentOwn
  <2> QED  BY <1>2, <2>1, <2>2
<1> QED  BY <1>5, <1>6, <1>7 DEF LinkOK, Told

-----------------------------------------------------------------------------
(* Steps *)

LEMMA LinkState ==
  ASSUME IndInv, NEW l \in Links
  PROVE  /\ l[1] \in Routers /\ l[2] \in Networks /\ l[3] \in Routers /\ l[1] # l[3]
         /\ l = <<l[1], l[2], l[3]>>
         /\ chan[l] \in Seq(Packet)
         /\ ripRoutes[l[1]] \in Route \cup {NoRoute} /\ ripRoutes[l[3]] \in Route \cup {NoRoute}
<1>1. l[1] \in Routers /\ l[2] \in Networks /\ l[3] \in Routers /\ l[1] # l[3]
      /\ l = <<l[1], l[2], l[3]>>
  BY DEF Links
<1>2. chan[l] \in Seq(Packet)
  <2>1. chan[l] \in Seq(GoodPackets(l[1])) /\ GoodPackets(l[1]) \subseteq Packet
    BY DEF IndInv, Packets, GoodPackets, Packet
  <2> QED  BY <2>1
<1> QED  BY <1>1, <1>2 DEF IndInv, Routes

LEMMA FaultsGrow ==
  ASSUME IndInv, NEW kind \in FaultKinds, NEW max, Happens(kind, max)
  PROVE  /\ faults'.flaps = 0 => faults.flaps = 0 /\ kind # "flaps"
         /\ faults'.lost = 0 => faults.lost = 0 /\ kind # "lost"
<1>1. faults \in [FaultKinds -> Nat] /\ faults' = [faults EXCEPT ![kind] = @ + 1]
  BY DEF IndInv, Controls, Happens
<1> QED  BY <1>1 DEF FaultKinds

\* The links after a step, judged by the losses before it.
LEMMA LinksStep ==
  ASSUME faults'.lost = 0 => faults.lost = 0,
         \A l \in Links : LinkOK(l, faults.lost = 0, chan'[l], ripRoutes'[l[1]], ripRoutes'[l[3]])
  PROVE  LinksOK'
<1> SUFFICES ASSUME NEW l \in Links
             PROVE  LinkOK(l, faults'.lost = 0, chan'[l], ripRoutes'[l[1]], ripRoutes'[l[3]])
  BY DEF LinksOK, LinkOK, RipLink, Dead, Own, Told, Uses, Settled, Silent, Announced, Muted,
         IsExpired, LastIs, NoResponse, Min2
<1> QED  BY LosslessOK

LEMMA OwnChecked ==
  ASSUME NEW r \in Routers, Dest \in Attached[r]
  PROVE  Checked(Imported(r)) = Imported(r) /\ Cleared(Imported(r)) = Imported(r)
<1> DEFINE e == Imported(r)
<1>1. e = [type |-> "INTERFACE", metric |-> IfMetric[r][Dest], ie |-> Dest, from |-> NoRouter,
           route |-> TRUE, changed |-> FALSE, age |-> "valid"]
  BY DEF Imported
<1>2. Checked(e) = e
  BY <1>1 DEF Checked, IsExpired
<1>3. [e EXCEPT !.changed = FALSE] = e
  <2>1. e \in Route /\ e.changed = FALSE
    BY <1>1, TopologyAssumption, Weights DEF Route, RouteTypes, Metrics
  <2>2. \A f \in Route : f.changed = FALSE => [f EXCEPT !.changed = FALSE] = f
    BY DEF Route
  <2> QED  BY <2>1, <2>2
<1>4. Cleared(e) = e
  BY <1>2, <1>3 DEF Cleared
<1> QED  BY <1>2, <1>4

\* A router's own route, and the route of a router that is not running, say
\* nothing about the links from it.
LEMMA OwnSource ==
  ASSUME NEW l, NEW lossless, NEW q, NEW s, NEW t, NEW e, LinkOK(l, lossless, q, s, e),
         ~RipLink(l) \/ Dest \in Attached[l[1]] \/ t = NoRoute
  PROVE  LinkOK(l, lossless, q, t, e)
BY DEF LinkOK, Told, Settled

LEMMA ImportedLoyal ==
  ASSUME NEW l \in Links, NEW r, NEW e
  PROVE  Loyal(l, e, Imported(r)) /\ Loyal(l, e, NoRoute)
<1>1. l[1] # NoRouter
  BY LinkParts, TopologyAssumption
<1> QED  BY <1>1 DEF Loyal, Uses, Imported

LEMMA UpdateAgrees ==
  ASSUME IndInv, Agreement, NEW r \in Routers, NEW changedOnly \in BOOLEAN,
         processUpdate(r, changedOnly)
  PROVE  Agreement'
<1> DEFINE x == ripRoutes[r]
<1>1. /\ phase[r] = "running" /\ UNCHANGED <<phase, ifUp, faults>>
      /\ ripRoutes' = [ripRoutes EXCEPT ![r] = Cleared(x)]
      /\ Multicast(r, RipInterfaces(r), [n \in Networks |-> Entries(r, x, n, changedOnly)])
  BY DEF processUpdate, Cleared
<1>2. /\ ripRoutes'[r] = Cleared(x)
      /\ \A o \in Routers : o # r => ripRoutes'[o] = ripRoutes[o]
  BY <1>1 DEF IndInv, Routes
<1>3. RunningOnly'
  BY <1>1, <1>2 DEF RunningOnly, Agreement
<1> SUFFICES ASSUME faults'.flaps = 0 PROVE ifUp' = Interfaces /\ OwnRoutes' /\ LinksOK'
  BY <1>3 DEF Agreement
<1>4. ifUp = Interfaces /\ OwnRoutes /\ LinksOK
  BY <1>1 DEF Agreement
<1>5. OwnRoutes'
  <2> SUFFICES ASSUME NEW o \in Routers, Dest \in Attached[o], phase'[o] = "running"
               PROVE  ripRoutes'[o] = Imported(o)
    BY DEF OwnRoutes, Imported
  <2>1. ripRoutes[o] = Imported(o)
    BY <1>1, <1>4 DEF OwnRoutes
  <2> QED  BY <1>2, <2>1, OwnChecked
<1>6. ASSUME NEW l \in Links
      PROVE  LinkOK(l, faults.lost = 0, chan'[l], ripRoutes'[l[1]], ripRoutes'[l[3]])
  <2> DEFINE q == chan[l]
             s == ripRoutes[l[1]]
             e == ripRoutes[l[3]]
             sent == Entries(l[1], s, l[2], changedOnly)
  <2>1. LinkOK(l, faults.lost = 0, q, s, e)
    BY <1>4 DEF LinksOK
  <2>2. /\ l[1] \in Routers /\ l[2] \in Networks /\ l[3] \in Routers /\ l[1] # l[3]
        /\ q \in Seq(Packet) /\ s \in Route \cup {NoRoute} /\ e \in Route \cup {NoRoute}
    BY LinkState
  <2>3. chan'[l] = IF Hears(l, r, RipInterfaces(r))
                   THEN q \o Entries(r, x, l[2], changedOnly) ELSE q
    BY <1>1, <2>2 DEF Multicast
  <2>4. CASE l[1] = r
    <3>1. ripRoutes'[l[1]] = Cleared(s) /\ ripRoutes'[l[3]] = e
      BY <1>2, <2>2, <2>4
    <3>2. CASE RipLink(l)
      <4>1. <<r, l[2]>> \in ifUp
        BY <1>4, <2>2, <2>4, LinkParts DEF Interfaces
      <4>2. Hears(l, r, RipInterfaces(r))
        BY <2>4, <3>2, <4>1, LinkParts DEF RipLink, Hears, RipInterfaces
      <4>3. chan'[l] = q \o sent
        BY <2>3, <2>4, <4>2
      <4>4. Dest \in Attached[l[1]] => s \in {NoRoute, Imported(l[1])}
        BY <1>1, <1>4, <2>4 DEF OwnRoutes
      <4>5. LinkOK(l, faults.lost = 0, q \o sent, Cleared(s), e)
        <5> HIDE DEF q, s, e
        <5> QED  BY <2>1, <2>2, <3>2, <4>4, SentEntriesOK
      <4> QED  BY <3>1, <4>3, <4>5
    <3>3. CASE ~RipLink(l)
      <4>1. chan'[l] = q
        BY <2>3, <2>4, <3>3 DEF RipLink, Hears, RipInterfaces
      <4> QED  BY <2>1, <3>1, <3>3, <4>1, OwnSource
    <3> QED  BY <3>2, <3>3
  <2>5. CASE l[1] # r
    <3>1. chan'[l] = q /\ ripRoutes'[l[1]] = s
      BY <1>2, <2>2, <2>3, <2>5 DEF Hears
    <3>2. ripRoutes'[l[3]] = e \/ ripRoutes'[l[3]] = Cleared(e)
      BY <1>2, <2>2
    <3>3. Loyal(l, e, e) /\ Loyal(l, e, Cleared(e))
      BY <2>2, CheckedLoyal DEF Loyal
    <3> QED  BY <2>1, <3>1, <3>2, <3>3, LoyalOK
  <2> QED  BY <2>4, <2>5
<1>7. LinksOK'
  BY <1>1, <1>6, LinksStep
<1> QED  BY <1>1, <1>4, <1>5, <1>7

LEMMA RequestAgrees ==
  ASSUME IndInv, Agreement, NEW k \in Links, ProcessRequest(k)
  PROVE  Agreement'
<1> DEFINE r == k[3]
           x == ripRoutes[r]
           back == <<r, k[2], k[1]>>
           reply == Entries(r, x, k[2], FALSE)
<1>1. /\ chan[k] # <<>> /\ Head(chan[k]).command = "REQUEST" /\ phase[r] = "running"
      /\ UNCHANGED <<phase, ifUp, faults>>
      /\ ripRoutes' = [ripRoutes EXCEPT ![r] = Checked(x)]
      /\ chan' = [chan EXCEPT ![k] = Tail(@), ![back] = @ \o reply]
  BY DEF ProcessRequest, Arrives
<1>2. /\ r \in Routers /\ k[1] \in Routers /\ k[1] # r
      /\ back \in Links /\ back # k /\ back[1] = r /\ back[2] = k[2] /\ back[3] = k[1]
  BY LinkState, LinkParts
<1>3. /\ ripRoutes'[r] = Checked(x)
      /\ \A o \in Routers : o # r => ripRoutes'[o] = ripRoutes[o]
  BY <1>1, <1>2 DEF IndInv, Routes
<1>4. /\ chan'[k] = Tail(chan[k]) /\ chan'[back] = chan[back] \o reply
      /\ \A l \in Links : l # k /\ l # back => chan'[l] = chan[l]
  <2> HIDE DEF reply, back
  <2> QED  BY <1>1, <1>2 DEF IndInv, Packets
<1>5. RunningOnly'
  BY <1>1, <1>2, <1>3 DEF RunningOnly, Agreement
<1> SUFFICES ASSUME faults'.flaps = 0 PROVE ifUp' = Interfaces /\ OwnRoutes' /\ LinksOK'
  BY <1>5 DEF Agreement
<1>6. ifUp = Interfaces /\ OwnRoutes /\ LinksOK
  BY <1>1 DEF Agreement
<1>7. OwnRoutes'
  <2> SUFFICES ASSUME NEW o \in Routers, Dest \in Attached[o], phase'[o] = "running"
               PROVE  ripRoutes'[o] = Imported(o)
    BY DEF OwnRoutes, Imported
  <2>1. ripRoutes[o] = Imported(o)
    BY <1>1, <1>6 DEF OwnRoutes
  <2> QED  BY <1>3, <2>1, OwnChecked
<1>8. ASSUME NEW l \in Links
      PROVE  LinkOK(l, faults.lost = 0, chan'[l], ripRoutes'[l[1]], ripRoutes'[l[3]])
  <2> DEFINE q == chan[l]
             s == ripRoutes[l[1]]
             e == ripRoutes[l[3]]
  <2>1. LinkOK(l, faults.lost = 0, q, s, e)
    BY <1>6 DEF LinksOK
  <2>2. /\ l[1] \in Routers /\ l[2] \in Networks /\ l[3] \in Routers /\ l[1] # l[3]
        /\ q \in Seq(Packet) /\ s \in Route \cup {NoRoute} /\ e \in Route \cup {NoRoute}
    BY LinkState
  <2>3. Loyal(l, e, e) /\ Loyal(l, e, Checked(e)) /\ Kin(s, s) /\ Kin(s, Checked(s))
    BY <2>2, CheckedLoyal, CheckedKin DEF Loyal, Kin
  <2>4. CASE l = k
    <3>1. chan'[l] = Tail(q) /\ ripRoutes'[l[1]] = s /\ ripRoutes'[l[3]] = Checked(e)
      BY <1>2, <1>3, <1>4, <2>4
    <3>2. LinkOK(l, faults.lost = 0, Tail(q), s, e)
      BY <1>1, <2>1, <2>2, <2>4, TakenRequestOK
    <3> QED  BY <2>3, <3>1, <3>2, LoyalOK
  <2>5. CASE l = back
    <3> DEFINE sent == Entries(l[1], s, l[2], FALSE)
    <3>1. chan'[l] = q \o sent /\ ripRoutes'[l[1]] = Checked(s) /\ ripRoutes'[l[3]] = e
      BY <1>2, <1>3, <1>4, <2>5
    <3>2. RipLink(k)
      BY <1>1, <1>6, LinkState, TakenRequestOK DEF LinksOK
    <3>3. RipLink(l)
      BY <1>2, <2>5, <3>2 DEF RipLink
    <3>4. Dest \in Attached[l[1]] => s \in {NoRoute, Imported(l[1])}
      BY <1>1, <1>2, <1>6, <2>5 DEF OwnRoutes
    <3>5. LinkOK(l, faults.lost = 0, q \o sent, Checked(s), e)
      <4> HIDE DEF q, s, e
      <4> QED  BY <2>1, <2>2, <3>3, <3>4, SentEntriesOK
    <3> QED  BY <3>1, <3>5
  <2>6. CASE l # k /\ l # back
    <3>1. chan'[l] = q
      BY <1>4, <2>6
    <3>2. \/ ripRoutes'[l[1]] = s /\ ripRoutes'[l[3]] = e
          \/ ripRoutes'[l[1]] = Checked(s) /\ ripRoutes'[l[3]] = e
          \/ ripRoutes'[l[1]] = s /\ ripRoutes'[l[3]] = Checked(e)
      BY <1>3, <2>2
    <3> QED  BY <2>1, <2>3, <3>1, <3>2, LoyalOK, KinOK
  <2> QED  BY <2>4, <2>5, <2>6
<1>9. LinksOK'
  BY <1>1, <1>8, LinksStep
<1> QED  BY <1>1, <1>6, <1>7, <1>9

LEMMA ResponseAgrees ==
  ASSUME OwnRouteNearest, IndInv, Agreement, NeverRevived, NEW k \in Links, ProcessResponse(k)
  PROVE  Agreement'
<1> DEFINE r == k[3]
           x == ripRoutes[r]
           h == Head(chan[k])
           m == Min2(h.metric + IfMetric[r][k[2]], Infinity)
           y == Processed(x, k[2], m, k[1])
<1>1. /\ chan[k] # <<>> /\ h.command = "RESPONSE" /\ phase[r] = "running"
      /\ UNCHANGED <<phase, ifUp, faults>>
      /\ ripRoutes' = [ripRoutes EXCEPT ![r] = y]
      /\ chan' = [chan EXCEPT ![k] = Tail(@)]
  BY DEF ProcessResponse, Arrives
<1>2. r \in Routers /\ k[1] \in Routers /\ k[1] # r /\ k = <<k[1], k[2], r>>
  BY LinkState
<1>3. /\ ripRoutes'[r] = y
      /\ \A o \in Routers : o # r => ripRoutes'[o] = ripRoutes[o]
  BY <1>1, <1>2 DEF IndInv, Routes
<1>4. /\ chan'[k] = Tail(chan[k])
      /\ \A l \in Links : l # k => chan'[l] = chan[l]
  BY <1>1 DEF IndInv, Packets
<1>5. h \in GoodPackets(k[1])
  <2>1. chan[k] \in Seq(GoodPackets(k[1]))
    BY DEF IndInv, Packets
  <2> QED  BY <1>1, <2>1, HeadTailProperties
<1>6. h.metric \in Metrics
  BY <1>1, <1>5 DEF GoodPackets, Requests, Responses
<1>7. m \in Metrics /\ \A d \in LowerBounds : m >= d[r]
  <2> HIDE DEF h
  <2> QED  BY <1>1, <1>5, HopGood
<1>8. RunningOnly'
  BY <1>1, <1>2, <1>3 DEF RunningOnly, Agreement
<1> SUFFICES ASSUME faults'.flaps = 0 PROVE ifUp' = Interfaces /\ OwnRoutes' /\ LinksOK'
  BY <1>8 DEF Agreement
<1>9. ifUp = Interfaces /\ OwnRoutes /\ LinksOK
  BY <1>1 DEF Agreement
<1> HIDE DEF m
<1>10. Dest \in Attached[r] => y = x /\ x = Imported(r)
  <2> SUFFICES ASSUME Dest \in Attached[r] PROVE y = x /\ x = Imported(r)
    OBVIOUS
  <2>1. x = Imported(r)
    BY <1>1, <1>2, <1>9 DEF OwnRoutes
  <2>2. x.from = NoRouter /\ x.metric = IfMetric[r][Dest]
    BY <2>1 DEF Imported
  <2>3. x # NoRoute
    <3>1. x \in Route
      BY <1>2, <2>1, TopologyAssumption, Weights DEF Imported, Route, RouteTypes, Metrics
    <3> QED  BY <3>1, NoRouteAssumption
  <2>4. PICK d \in LowerBounds : d[r] = IfMetric[r][Dest]
    BY <1>2 DEF OwnRouteNearest
  <2>5. m >= x.metric /\ m \in Nat /\ x.metric \in Nat
    BY <1>2, <1>7, <2>2, <2>4, TopologyAssumption, Weights DEF Metrics
  <2>6. k[1] # NoRouter
    BY <1>2, TopologyAssumption
  <2>7. ~Adopts(x, m, k[1]) /\ x.from # k[1]
    BY <2>2, <2>3, <2>5, <2>6 DEF Adopts
  <2> QED  BY <2>1, <2>7 DEF Processed
<1>11. OwnRoutes'
  <2> SUFFICES ASSUME NEW o \in Routers, Dest \in Attached[o], phase'[o] = "running"
               PROVE  ripRoutes'[o] = Imported(o)
    BY DEF OwnRoutes, Imported
  <2>1. ripRoutes[o] = Imported(o)
    BY <1>1, <1>9 DEF OwnRoutes
  <2> QED  BY <1>3, <1>10, <2>1
<1>12. ASSUME NEW l \in Links
       PROVE  LinkOK(l, faults.lost = 0, chan'[l], ripRoutes'[l[1]], ripRoutes'[l[3]])
  <2> DEFINE q == chan[l]
             s == ripRoutes[l[1]]
             e == ripRoutes[l[3]]
  <2>1. LinkOK(l, faults.lost = 0, q, s, e)
    BY <1>9 DEF LinksOK
  <2>2. /\ l[1] \in Routers /\ l[2] \in Networks /\ l[3] \in Routers /\ l[1] # l[3]
        /\ l = <<l[1], l[2], l[3]>>
        /\ q \in Seq(Packet) /\ s \in Route \cup {NoRoute} /\ e \in Route \cup {NoRoute}
    BY LinkState
  <2>3. CASE l = k
    <3>1. chan'[l] = Tail(q) /\ ripRoutes'[l[1]] = s
      BY <1>2, <1>3, <1>4, <2>3
    <3>2. ripRoutes'[l[3]] = Processed(e, l[2], m, l[1])
      BY <1>3, <2>3
    <3>3. /\ q # <<>> /\ Head(q).command = "RESPONSE" /\ Head(q).metric \in Metrics
          /\ m = Min2(Head(q).metric + IfMetric[l[3]][l[2]], Infinity)
      BY <1>1, <1>6, <2>3 DEF m
    <3>4. LinkOK(l, faults.lost = 0, Tail(q), s, Processed(e, l[2], m, l[1]))
      <4> HIDE DEF q, s, e
      <4> QED  BY <2>1, <2>2, <3>3, TakenResponseOK
    <3> QED  BY <3>1, <3>2, <3>4
  <2>4. CASE l # k /\ l[3] = r
    <3>1. chan'[l] = q /\ ripRoutes'[l[1]] = s /\ ripRoutes'[l[3]] = Processed(e, k[2], m, k[1])
      BY <1>3, <1>4, <2>2, <2>4
    <3>2. l[1] # k[1] \/ l[2] # k[2]
      BY <1>2, <2>2, <2>4
    <3>3. Loyal(l, e, Processed(e, k[2], m, k[1]))
      <4> HIDE DEF e
      <4> QED  BY <1>7, <2>2, <3>2, ProcessedLoyal
    <3> QED  BY <2>1, <3>1, <3>3, LoyalOK
  <2>5. CASE l # k /\ l[1] = r
    <3>1. chan'[l] = q /\ ripRoutes'[l[1]] = y /\ ripRoutes'[l[3]] = e
      BY <1>3, <1>4, <2>2, <2>5
    <3>2. s # NoRoute /\ Muted(s) /\ y # NoRoute /\ ~Muted(y) => y.changed
      <4>1. ~Revived(r) /\ s = x /\ ripRoutes'[r] = y
        BY <1>2, <1>3, <2>5 DEF NeverRevived
      <4> HIDE DEF x, y, s
      <4>2. ripRoutes[r] = s
        BY <4>1 DEF x
      <4> QED  BY <4>1, <4>2 DEF Revived
    <3>3. y = Processed(s, k[2], m, k[1])
      BY <2>5
    <3>4. Kin(s, y)
      <4> HIDE DEF s, y
      <4> QED  BY <1>7, <2>2, <3>2, <3>3, ProcessedKin
    <3> QED  BY <2>1, <3>1, <3>4, KinOK
  <2>6. CASE l # k /\ l[3] # r /\ l[1] # r
    BY <1>3, <1>4, <2>1, <2>2, <2>6
  <2> QED  BY <2>3, <2>4, <2>5, <2>6
<1>13. LinksOK'
  BY <1>1, <1>12, LinksStep
<1> QED  BY <1>1, <1>9, <1>11, <1>13

\* A packet nobody hears: the receiver is not running, or the losses count.
LEMMA DroppedAgrees ==
  ASSUME IndInv, Agreement, NEW k \in Links, Dropped(k) \/ Lose(k)
  PROVE  Agreement'
<1>1. /\ chan[k] # <<>> /\ chan' = [chan EXCEPT ![k] = Tail(@)]
      /\ UNCHANGED <<phase, ripRoutes, ifUp>>
      /\ faults'.flaps = 0 => faults.flaps = 0
      /\ faults'.lost = 0 => faults.lost = 0
  BY FaultsGrow DEF Dropped, Lose, FaultKinds
<1>2. /\ chan'[k] = Tail(chan[k])
      /\ \A l \in Links : l # k => chan'[l] = chan[l]
  BY <1>1 DEF IndInv, Packets
<1>3. RunningOnly'
  BY <1>1 DEF RunningOnly, Agreement
<1> SUFFICES ASSUME faults'.flaps = 0 PROVE ifUp' = Interfaces /\ OwnRoutes' /\ LinksOK'
  BY <1>3 DEF Agreement
<1>4. ifUp = Interfaces /\ OwnRoutes /\ LinksOK
  BY <1>1 DEF Agreement
<1>5. OwnRoutes'
  BY <1>1, <1>4 DEF OwnRoutes, Imported
<1>6. ASSUME NEW l \in Links
      PROVE  LinkOK(l, faults'.lost = 0, chan'[l], ripRoutes[l[1]], ripRoutes[l[3]])
  <2> DEFINE q == chan[l]
             s == ripRoutes[l[1]]
             e == ripRoutes[l[3]]
  <2>1. LinkOK(l, faults'.lost = 0, q, s, e)
    BY <1>1, <1>4, LosslessOK DEF LinksOK
  <2>2. l[3] \in Routers /\ q \in Seq(Packet)
    BY LinkState
  <2>3. CASE l # k
    BY <1>2, <2>1, <2>3
  <2>4. CASE l = k /\ Dropped(k)
    <3>1. <<l[3], l[2]>> \in ifUp
      BY <1>4, LinkState, LinkParts DEF Interfaces
    <3>2. e = NoRoute
      BY <2>2, <2>4, <3>1 DEF Dropped, Agreement, RunningOnly
    <3> QED  BY <1>1, <1>2, <2>1, <2>2, <2>4, <3>2, TakenByNobodyOK
  <2>5. CASE l = k /\ Lose(k)
    <3>1. faults'.lost # 0
      BY <2>5, FaultsGrow DEF Lose, FaultKinds
    <3>2. \A i \in DOMAIN Tail(q) : i + 1 \in DOMAIN q /\ Tail(q)[i] = q[i + 1]
      BY <1>1, <2>2, <2>5, TailPackets
    <3> HIDE DEF q, s, e
    <3>3. Own(l, q, e) => Own(l, Tail(q), e)
      BY <3>2 DEF Own
    <3>4. Dead(l, q, e) => Dead(l, Tail(q), e)
      BY <3>2 DEF Dead
    <3>5. LinkOK(l, faults'.lost = 0, Tail(q), s, e)
      BY <2>1, <3>1, <3>3, <3>4 DEF LinkOK
    <3> QED  BY <1>2, <2>5, <3>5 DEF q, s, e
  <2> QED  BY <2>3, <2>4, <2>5
<1>7. LinksOK'
  BY <1>1, <1>6 DEF LinksOK, LinkOK, RipLink, Dead, Own, Told, Uses, Settled, Silent, Announced,
     Muted, IsExpired, LastIs, NoResponse, Min2
<1> QED  BY <1>1, <1>4, <1>5, <1>7

LEMMA StartAgrees ==
  ASSUME IndInv, Agreement, NEW r \in Routers, StartRIPRouting(r)
  PROVE  Agreement'
<1>1. /\ phase' = [phase EXCEPT ![r] = "running"] /\ UNCHANGED <<ifUp, faults>>
      /\ ripRoutes' = [ripRoutes EXCEPT ![r] = Imported(r)]
      /\ Multicast(r, RipInterfaces(r), [n \in Networks |-> <<Request>>])
  BY DEF StartRIPRouting
<1>2. /\ ripRoutes'[r] = Imported(r) /\ phase'[r] = "running"
      /\ \A o \in Routers : o # r => ripRoutes'[o] = ripRoutes[o] /\ phase'[o] = phase[o]
  BY <1>1 DEF IndInv, Routes, Controls
<1>3. RunningOnly'
  BY <1>2 DEF RunningOnly, Agreement
<1> SUFFICES ASSUME faults'.flaps = 0 PROVE ifUp' = Interfaces /\ OwnRoutes' /\ LinksOK'
  BY <1>3 DEF Agreement
<1>4. ifUp = Interfaces /\ OwnRoutes /\ LinksOK
  BY <1>1 DEF Agreement
<1>5. OwnRoutes'
  <2> SUFFICES ASSUME NEW o \in Routers, Dest \in Attached[o], phase'[o] = "running"
               PROVE  ripRoutes'[o] = Imported(o)
    BY DEF OwnRoutes, Imported
  <2> QED  BY <1>2, <1>4 DEF OwnRoutes
<1>6. ASSUME NEW l \in Links
      PROVE  LinkOK(l, faults.lost = 0, chan'[l], ripRoutes'[l[1]], ripRoutes'[l[3]])
  <2> DEFINE q == chan[l]
             s == ripRoutes[l[1]]
             e == ripRoutes[l[3]]
  <2>1. LinkOK(l, faults.lost = 0, q, s, e)
    BY <1>4 DEF LinksOK
  <2>2. /\ l[1] \in Routers /\ l[2] \in Networks /\ l[3] \in Routers /\ l[1] # l[3]
        /\ q \in Seq(Packet)
    BY LinkState
  <2>3. chan'[l] = IF Hears(l, r, RipInterfaces(r)) THEN q \o <<Request>> ELSE q
    BY <1>1, <2>2 DEF Multicast
  <2>4. CASE l[1] = r
    <3>1. ripRoutes'[l[1]] = Imported(l[1]) /\ ripRoutes'[l[3]] = e
      BY <1>2, <2>2, <2>4
    <3>2. LinkOK(l, faults.lost = 0, q, Imported(l[1]), e)
      <4>1. Dest \in Attached[l[1]] \/ Imported(l[1]) = NoRoute
        BY DEF Imported
      <4> QED  BY <2>1, <4>1, OwnSource
    <3>3. CASE Hears(l, r, RipInterfaces(r))
      <4>1. RipLink(l)
        BY <2>4, <3>3 DEF Hears, RipInterfaces, RipLink
      <4>2. LinkOK(l, faults.lost = 0, q \o <<Request>>, Imported(l[1]), e)
        BY <2>2, <3>2, <4>1, SentRequestOK
      <4> QED  BY <2>3, <3>1, <3>3, <4>2
    <3>4. CASE ~Hears(l, r, RipInterfaces(r))
      BY <2>3, <3>1, <3>2, <3>4
    <3> QED  BY <3>3, <3>4
  <2>5. CASE l[1] # r
    <3>1. chan'[l] = q /\ ripRoutes'[l[1]] = s
      BY <1>2, <2>2, <2>3, <2>5 DEF Hears
    <3>2. ripRoutes'[l[3]] = e \/ ripRoutes'[l[3]] = Imported(r)
      BY <1>2, <2>2
    <3>3. Loyal(l, e, e) /\ Loyal(l, e, Imported(r))
      BY ImportedLoyal DEF Loyal
    <3> QED  BY <2>1, <3>1, <3>2, <3>3, LoyalOK
  <2> QED  BY <2>4, <2>5
<1>7. LinksOK'
  BY <1>1, <1>6, LinksStep
<1> QED  BY <1>1, <1>4, <1>5, <1>7

LEMMA InterfaceAgrees ==
  ASSUME IndInv, Agreement, NEW r \in Routers, NEW n \in Attached[r],
         InterfaceDown(r, n) \/ InterfaceUp(r, n)
  PROVE  Agreement'
<1>1. RunningOnly'
  BY DEF InterfaceDown, InterfaceUp, RunningOnly, Agreement, IndInv, Routes
<1>2. CASE InterfaceDown(r, n)
  <2>1. faults'.flaps # 0
    BY <1>2, FaultsGrow DEF InterfaceDown, FaultKinds
  <2> QED  BY <1>1, <2>1 DEF Agreement
<1>3. CASE InterfaceUp(r, n)
  <2>1. <<r, n>> \in Interfaces /\ <<r, n>> \notin ifUp /\ faults' = faults
    BY <1>3, TopologyAssumption DEF InterfaceUp, Interfaces
  <2> QED  BY <1>1, <2>1 DEF Agreement
<1> QED  BY <1>2, <1>3

\* A router stops, with a good-bye on its interfaces (Shutdown) or without.
LEMMA StoppedAgrees ==
  ASSUME IndInv, Agreement, NEW r \in Routers, Shutdown(r) \/ Crash(r)
  PROVE  Agreement'
<1> DEFINE x == ripRoutes[r]
           bye(n) == IF x = NoRoute THEN <<>> ELSE Entries(r, Invalidated(x), n, FALSE)
<1>1. /\ ifUp' = ifUp
      /\ ripRoutes' = [ripRoutes EXCEPT ![r] = NoRoute]
      /\ \E to \in {"down", "stopping"} : phase' = [phase EXCEPT ![r] = to]
      /\ faults'.flaps = 0 => faults.flaps = 0
      /\ faults'.lost = 0 => faults.lost = 0
  BY FaultsGrow DEF Shutdown, Crash, Stopped, FaultKinds
<1>2. /\ ripRoutes'[r] = NoRoute /\ phase'[r] # "running"
      /\ \A o \in Routers : o # r => ripRoutes'[o] = ripRoutes[o] /\ phase'[o] = phase[o]
  BY <1>1 DEF IndInv, Routes, Controls
<1>3. RunningOnly'
  BY <1>2 DEF RunningOnly, Agreement
<1> SUFFICES ASSUME faults'.flaps = 0 PROVE ifUp' = Interfaces /\ OwnRoutes' /\ LinksOK'
  BY <1>3 DEF Agreement
<1>4. ifUp = Interfaces /\ OwnRoutes /\ LinksOK
  BY <1>1 DEF Agreement
<1>5. OwnRoutes'
  BY <1>2, <1>4 DEF OwnRoutes, Imported
<1>6. ASSUME NEW l \in Links
      PROVE  LinkOK(l, faults.lost = 0, chan'[l], ripRoutes'[l[1]], ripRoutes'[l[3]])
  <2> DEFINE q == chan[l]
             s == ripRoutes[l[1]]
             e == ripRoutes[l[3]]
  <2>1. LinkOK(l, faults.lost = 0, q, s, e)
    BY <1>4 DEF LinksOK
  <2>2. /\ l[1] \in Routers /\ l[2] \in Networks /\ l[3] \in Routers /\ l[1] # l[3]
        /\ q \in Seq(Packet) /\ s \in Route \cup {NoRoute}
    BY LinkState
  <2>3. chan'[l] = q \/ (l[1] = r /\ chan'[l] = q \o bye(l[2]))
    <3>1. CASE Crash(r)
      BY <3>1 DEF Crash
    <3>2. CASE Shutdown(r)
      <4>1. Multicast(r, Attached[r], [n \in Networks |-> bye(n)])
        BY <3>2 DEF Shutdown
      <4> HIDE DEF bye
      <4> QED  BY <2>2, <4>1 DEF Multicast, Hears
    <3> QED  BY <3>1, <3>2
  <2>4. CASE l[1] = r
    <3>1. ripRoutes'[l[1]] = NoRoute /\ ripRoutes'[l[3]] = e
      BY <1>2, <2>2, <2>4
    <3>2. LinkOK(l, faults.lost = 0, q, NoRoute, e)
      BY <2>1, OwnSource
    <3>3. CASE chan'[l] = q
      BY <3>1, <3>2, <3>3
    <3>4. CASE chan'[l] = q \o bye(l[2]) /\ s = NoRoute
      <4>1. bye(l[2]) = <<>>
        BY <2>4, <3>4
      <4>2. chan'[l] = q
        BY <2>2, <3>4, <4>1, NothingSent
      <4> QED  BY <3>1, <3>2, <4>2
    <3>5. CASE chan'[l] = q \o bye(l[2]) /\ s # NoRoute
      <4>1. bye(l[2]) = Entries(l[1], Invalidated(s), l[2], FALSE)
        BY <2>4, <3>5
      <4>2. LinkOK(l, faults.lost = 0, q \o Entries(l[1], Invalidated(s), l[2], FALSE), NoRoute, e)
        <5> HIDE DEF q, s, e, bye
        <5> QED  BY <2>1, <2>2, <3>5, SentInfinityOK
      <4> QED  BY <3>1, <3>5, <4>1, <4>2
    <3> QED  BY <2>3, <3>3, <3>4, <3>5
  <2>5. CASE l[1] # r
    <3>1. chan'[l] = q /\ ripRoutes'[l[1]] = s
      BY <1>2, <2>2, <2>3, <2>5
    <3>2. ripRoutes'[l[3]] = e \/ ripRoutes'[l[3]] = NoRoute
      BY <1>2, <2>2
    <3>3. Loyal(l, e, e) /\ Loyal(l, e, NoRoute)
      BY ImportedLoyal DEF Loyal
    <3> QED  BY <2>1, <3>1, <3>2, <3>3, LoyalOK
  <2> QED  BY <2>4, <2>5
<1>7. LinksOK'
  BY <1>1, <1>6, LinksStep
<1> QED  BY <1>1, <1>4, <1>5, <1>7

LEMMA LifecycleAgrees ==
  ASSUME IndInv, Agreement, NEW r \in Routers, ShutdownDone(r) \/ NodeStart(r)
  PROVE  Agreement'
<1>1. /\ UNCHANGED <<ripRoutes, ifUp, chan, faults>>
      /\ \A o \in Routers : phase'[o] = "running" <=> phase[o] = "running"
  BY DEF ShutdownDone, NodeStart, IndInv, Controls
<1>2. RunningOnly' /\ (OwnRoutes => OwnRoutes')
  BY <1>1 DEF RunningOnly, OwnRoutes, Agreement, Imported
<1>3. LinksOK => LinksOK'
  BY <1>1, LinksStep DEF LinksOK
<1> QED  BY <1>1, <1>2, <1>3 DEF Agreement

LEMMA AgesAgrees ==
  ASSUME IndInv, Agreement, NEW r \in Routers, SourceSilent(r) \/ UpdatesMissed(r)
  PROVE  Agreement'
<1> DEFINE x == ripRoutes[r]
<1>1. /\ Ages(r)
      /\ faults'.flaps = 0 => faults.flaps = 0
      /\ faults'.lost = 0 => faults.lost = 0
  BY FaultsGrow DEF SourceSilent, UpdatesMissed, FaultKinds
<1>2. /\ x # NoRoute /\ x.type = "RTE" /\ phase[r] = "running" /\ UNCHANGED <<phase, ifUp, chan>>
      /\ x.age = "valid" \/ x.metric = Infinity
  BY <1>1 DEF Ages
<1>3. PICK a \in {"expired", "purge"} : ripRoutes' = [ripRoutes EXCEPT ![r].age = a]
  BY <1>1 DEF Ages
<1>4. x \in Route
  BY <1>2 DEF IndInv, Routes
<1> DEFINE y == [x EXCEPT !.age = a]
<1>5. /\ ripRoutes'[r] = y
      /\ \A o \in Routers : o # r => ripRoutes'[o] = ripRoutes[o]
  BY <1>3 DEF IndInv, Routes
<1>6. Kin(x, y) /\ \A l : Loyal(l, x, y)
  <2> HIDE DEF x
  <2> QED  BY <1>2, <1>4, AgedKin
<1> HIDE DEF y
<1>7. RunningOnly'
  BY <1>2, <1>5 DEF RunningOnly, Agreement
<1> SUFFICES ASSUME faults'.flaps = 0 PROVE ifUp' = Interfaces /\ OwnRoutes' /\ LinksOK'
  BY <1>7 DEF Agreement
<1>8. ifUp = Interfaces /\ OwnRoutes /\ LinksOK
  BY <1>1 DEF Agreement
<1>9. OwnRoutes'
  <2> SUFFICES ASSUME NEW o \in Routers, Dest \in Attached[o], phase'[o] = "running"
               PROVE  ripRoutes'[o] = Imported(o)
    BY DEF OwnRoutes, Imported
  <2>1. ripRoutes[o] = Imported(o)
    BY <1>2, <1>8 DEF OwnRoutes
  <2>2. o # r
    BY <1>2, <2>1 DEF Imported
  <2> QED  BY <1>5, <2>1, <2>2
<1>10. ASSUME NEW l \in Links
       PROVE  LinkOK(l, faults.lost = 0, chan'[l], ripRoutes'[l[1]], ripRoutes'[l[3]])
  <2>1. LinkOK(l, faults.lost = 0, chan[l], ripRoutes[l[1]], ripRoutes[l[3]]) /\ chan'[l] = chan[l]
    BY <1>2, <1>8 DEF LinksOK
  <2>2. l[1] \in Routers /\ l[3] \in Routers /\ l[1] # l[3]
    BY LinkState
  <2>3. CASE l[1] = r
    <3>1. ripRoutes'[l[1]] = y /\ ripRoutes'[l[3]] = ripRoutes[l[3]] /\ ripRoutes[l[1]] = x
      BY <1>5, <2>2, <2>3
    <3> QED  BY <1>6, <2>1, <3>1, KinOK
  <2>4. CASE l[3] = r
    <3>1. ripRoutes'[l[3]] = y /\ ripRoutes'[l[1]] = ripRoutes[l[1]] /\ ripRoutes[l[3]] = x
      BY <1>5, <2>2, <2>4
    <3> QED  BY <1>6, <2>1, <3>1, LoyalOK
  <2>5. CASE l[1] # r /\ l[3] # r
    BY <1>5, <2>1, <2>2, <2>5
  <2> QED  BY <2>3, <2>4, <2>5
<1>11. LinksOK'
  BY <1>1, <1>10, LinksStep
<1> QED  BY <1>2, <1>8, <1>9, <1>11

LEMMA AgreementInit == Init => Agreement
<1> SUFFICES ASSUME Init PROVE Agreement
  OBVIOUS
<1>1. RunningOnly /\ OwnRoutes /\ ifUp = Interfaces
  BY DEF Init, RunningOnly, OwnRoutes
<1>2. ASSUME NEW l \in Links
      PROVE  LinkOK(l, faults.lost = 0, chan[l], ripRoutes[l[1]], ripRoutes[l[3]])
  <2>1. chan[l] = <<>> /\ ripRoutes[l[1]] = NoRoute /\ ripRoutes[l[3]] = NoRoute
    BY LinkParts DEF Init
  <2>2. ~Uses(l, NoRoute) /\ ~Settled(NoRoute)
    BY DEF Uses, Settled
  <2>3. \A i \in DOMAIN chan[l] : FALSE
    BY <2>1
  <2> QED  BY <2>1, <2>2, <2>3 DEF LinkOK, Dead, Own, Told
<1> QED  BY <1>1, <1>2 DEF Agreement, LinksOK

LEMMA AgreementNext ==
  ASSUME OwnRouteNearest
  PROVE  IndInv /\ Agreement /\ [Next]_vars /\ [NeverRevived]_vars => Agreement'
<1> SUFFICES ASSUME IndInv, Agreement, [Next]_vars, [NeverRevived]_vars PROVE Agreement'
  OBVIOUS
<1>1. CASE UNCHANGED vars
  <2>1. UNCHANGED <<phase, ripRoutes, ifUp, chan, faults>>
    BY <1>1 DEF vars
  <2>2. RunningOnly' /\ (OwnRoutes => OwnRoutes')
    BY <2>1 DEF RunningOnly, OwnRoutes, Agreement, Imported
  <2>3. LinksOK => LinksOK'
    BY <2>1, LinksStep DEF LinksOK
  <2> QED  BY <2>1, <2>2, <2>3 DEF Agreement
<1>2. CASE Next /\ NeverRevived
  <2>1. ASSUME NEW r \in Routers,
               \/ RegularUpdate(r) \/ TriggeredUpdate(r) \/ StartRIPRouting(r)
               \/ Shutdown(r) \/ ShutdownDone(r) \/ Crash(r) \/ NodeStart(r)
               \/ SourceSilent(r) \/ UpdatesMissed(r)
               \/ \E n \in Attached[r] : InterfaceDown(r, n) \/ InterfaceUp(r, n)
        PROVE  Agreement'
    <3>1. ASSUME RegularUpdate(r) \/ TriggeredUpdate(r) PROVE Agreement'
      BY <3>1, UpdateAgrees DEF RegularUpdate, TriggeredUpdate
    <3> QED  BY <2>1, <3>1, StartAgrees, StoppedAgrees, LifecycleAgrees, AgesAgrees, InterfaceAgrees
  <2>2. ASSUME NEW l \in Links, Delivery(l) \/ Lose(l)
        PROVE  Agreement'
    BY <1>2, <2>2, RequestAgrees, ResponseAgrees, DroppedAgrees DEF Delivery
  <2> QED  BY <1>2, <2>1, <2>2 DEF Next
<1> QED  BY <1>1, <1>2

LEMMA AgreementMeans == IndInv /\ Agreement => NeighboursAgree
<1> SUFFICES ASSUME IndInv, Agreement, faults.lost = 0, faults.flaps = 0, NEW l \in Links,
                    Uses(l, ripRoutes[l[3]]),
                    Entries(l[1], ripRoutes[l[1]], l[2], FALSE) # <<>>,
                    chan[l] = <<>>, ~ripRoutes[l[1]].changed
             PROVE  ripRoutes[l[3]].metric
                      = Min2(Entries(l[1], ripRoutes[l[1]], l[2], FALSE)[1].metric
                               + IfMetric[l[3]][l[2]], Infinity)
  BY DEF NeighboursAgree, Uses
<1> DEFINE s == ripRoutes[l[1]]
           e == ripRoutes[l[3]]
<1>1. LinkOK(l, TRUE, chan[l], s, e) /\ OwnRoutes /\ RunningOnly
  BY LosslessOK DEF Agreement, LinksOK
<1>2. l[1] \in Routers /\ l[3] \in Routers /\ s \in Route \cup {NoRoute} /\ e \in Route \cup {NoRoute}
      /\ l[2] \in Attached[l[3]]
  BY LinkState, LinkParts
<1>3. s # NoRoute
  BY DEF Entries
<1>4. ~IsExpired(s) /\ ~Silent(l, s)
      /\ Entries(l[1], s, l[2], FALSE) = <<[command |-> "RESPONSE", metric |-> Announced(l, s)]>>
  <2> HIDE DEF s
  <2> QED  BY <1>2, <1>3, EntriesCases DEF s
<1>5. Entries(l[1], s, l[2], FALSE)[1].metric = Announced(l, s)
  <2>1. \A x, m : x = <<[command |-> "RESPONSE", metric |-> m]>> => x[1].metric = m
    OBVIOUS
  <2> QED  BY <1>4, <2>1
<1>6. SUFFICES e.metric = Min2(Announced(l, s) + IfMetric[l[3]][l[2]], Infinity)
  BY <1>5
<1>7. RipLink(l)
  BY <1>1 DEF LinkOK, Dead
<1>8. CASE Dest \in Attached[l[1]]
  <2>1. s = Imported(l[1])
    BY <1>1, <1>2, <1>3, <1>8 DEF OwnRoutes, RunningOnly
  <2>2. s.ie = Dest /\ s.metric = IfMetric[l[1]][Dest]
    BY <1>8, <2>1 DEF Imported
  <2>3. l[2] # Dest
    <3> SUFFICES ASSUME l[2] = Dest PROVE FALSE
      OBVIOUS
    <3>1. e = Imported(l[3])
      BY <1>1, <1>2 DEF OwnRoutes, RunningOnly, Uses
    <3>2. e.from = NoRouter
      BY <1>2, <3>1 DEF Imported
    <3> QED  BY <1>2, <3>2, TopologyAssumption DEF Uses
  <2>4. Announced(l, s) = IfMetric[l[1]][Dest]
    BY <2>2, <2>3 DEF Announced
  <2>5. e.metric = IfMetric[l[1]][Dest] + IfMetric[l[3]][l[2]] /\ e.metric < Infinity
    BY <1>1, <1>7, <1>8 DEF LinkOK, Own, Uses
  <2> QED  BY <2>4, <2>5 DEF Min2
<1>9. CASE Dest \notin Attached[l[1]]
  <2>1. Settled(s)
    BY <1>3, <1>4 DEF Settled, Muted
  <2>2. NoResponse(chan[l])
    <3>1. \A i \in DOMAIN chan[l] : FALSE
      OBVIOUS
    <3> QED  BY <3>1 DEF NoResponse
  <2> QED  BY <1>1, <1>4, <1>7, <1>9, <2>1, <2>2 DEF LinkOK, Told
<1> QED  BY <1>8, <1>9

\* In every network in which a router's own interface is its nearest way, and
\* as long as no route that expired in silence becomes valid again: whatever
\* updates, requests, expiries, shutdowns, crashes and restarts there were, a
\* router that uses another has the metric the other announces, or is about to
\* hear of it.
THEOREM NeighboursKeepUp ==
  ASSUME OwnRouteNearest
  PROVE  Spec /\ [][NeverRevived]_vars => []NeighboursAgree
<1>1. Init => Agreement
  BY AgreementInit
<1>2. IndInv /\ Agreement /\ [Next]_vars /\ [NeverRevived]_vars => Agreement'
  BY AgreementNext
<1>3. IndInv /\ Agreement => NeighboursAgree
  BY AgreementMeans
<1> QED  BY <1>1, <1>2, <1>3, Invariant, PTL DEF Spec
=============================================================================
