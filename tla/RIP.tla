-------------------------------- MODULE RIP --------------------------------
(***************************************************************************)
(* RIP, the distance vector protocol (routing/rip/RIPRouting.cc), as seen  *)
(* by one destination network: RIPRouting treats the entries of different  *)
(* destinations independently of each other.                               *)
(*                                                                         *)
(* An interface is a pair of a router and a network.  Time is abstracted   *)
(* to the age of a route: it is refreshed, or it has expired, or it is due *)
(* to be purged; both are noticed only when an update is put together.     *)
(* The IP configuration of the interfaces is fixed.                        *)
(***************************************************************************)
EXTENDS Integers, Sequences, FiniteSets, FiniteSetsExt

CONSTANTS
  Routers, Networks,
  Dest,          \* the destination network
  Attached,      \* Attached[r]: the networks router r has an interface on
  IfMetric,      \* IfMetric[r][n]: attribute metric of the interface
  Mode,          \* Mode[r][n]: attribute mode of the interface
  Infinity,      \* RIP_INFINITE_METRIC, 16 in the code
  NoRoute, NoRouter,
  MaxInFlight,   \* bound: updates of one router to another in flight at once
  MaxFaults,     \* bound: faults of all kinds together
  MaxLost,       \* bound: messages the network loses
  MaxStale,      \* bound: routes that expire although they are announced
  MaxFlaps,      \* bound: interfaces that go down
  MaxStops       \* bound: routers that shut down or crash

Modes == {"NO_RIP", "NO_SPLIT_HORIZON", "SPLIT_HORIZON", "SPLIT_HORIZON_POISONED_REVERSE"}

ASSUME TopologyAssumption ==
  /\ Dest \in Networks
  /\ Attached \in [Routers -> SUBSET Networks]
  /\ Infinity \in Nat \ {0, 1}
  /\ IfMetric \in [Routers -> [Networks -> 1 .. Infinity - 1]]
  /\ Mode \in [Routers -> [Networks -> Modes]]
  /\ NoRouter \notin Routers
ASSUME BoundAssumption ==
  {MaxInFlight, MaxFaults, MaxLost, MaxStale, MaxFlaps, MaxStops} \subseteq Nat

VARIABLES
  phase,       \* "down", "starting" (startupTimer), "running", "stopping" (shutdownTimer)
  ripRoutes,   \* the RIPRoute of the destination, or NoRoute
  triggered,   \* is triggeredUpdateTimer scheduled?
  ifUp,        \* the interfaces that are up
  chan,        \* chan[<<r, n, s>>]: packets of r to s on network n, in order
  faults       \* how many faults of each kind have happened

vars == <<phase, ripRoutes, triggered, ifUp, chan, faults>>

-----------------------------------------------------------------------------
RouteTypes == {"INTERFACE", "RTE"}
Metrics == 1 .. Infinity
Route == [type : RouteTypes, metric : Metrics, ie : Networks, from : Routers \cup {NoRouter},
          route : BOOLEAN,     \* has it a route in the IP routing table?
          changed : BOOLEAN, age : {"valid", "expired", "purge"}]
ASSUME NoRouteAssumption == NoRoute \notin Route

Requests == [command : {"REQUEST"}]
Responses == [command : {"RESPONSE"}, metric : Metrics]
Links == {l \in Routers \X Networks \X Routers :
            l[1] # l[3] /\ l[2] \in Attached[l[1]] \cap Attached[l[3]]}
Interfaces == {i \in Routers \X Networks : i[2] \in Attached[i[1]]}

FaultKinds == {"lost", "stale", "flaps", "stops"}
Happens(kind, max) ==
  /\ faults.lost + faults.stale + faults.flaps + faults.stops < MaxFaults
  /\ faults[kind] < max
  /\ faults' = [faults EXCEPT ![kind] = @ + 1]

TypeOK ==
  /\ phase \in [Routers -> {"down", "starting", "running", "stopping"}]
  /\ ripRoutes \in [Routers -> Route \cup {NoRoute}]
  /\ triggered \in [Routers -> BOOLEAN]
  /\ ifUp \subseteq Interfaces
  /\ chan \in [Links -> Seq(Requests \cup Responses)]
  /\ faults \in [FaultKinds -> Nat]

\* initialize: the startup timer is scheduled.
Init ==
  /\ phase = [r \in Routers |-> "starting"]
  /\ ripRoutes = [r \in Routers |-> NoRoute]
  /\ triggered = [r \in Routers |-> FALSE]
  /\ ifUp = Interfaces
  /\ chan = [l \in Links |-> <<>>]
  /\ faults = [k \in FaultKinds |-> 0]

-----------------------------------------------------------------------------
(* Routes *)

\* configureInitialRoutes, importRoute: the route of a local interface.
Imported(r) ==
  IF Dest \in Attached[r]
  THEN [type |-> "INTERFACE", metric |-> IfMetric[r][Dest], ie |-> Dest, from |-> NoRouter,
        route |-> TRUE, changed |-> FALSE, age |-> "valid"]
  ELSE NoRoute

\* Mutant: the route stays in the IP routing table.
InvalidatedMetric(e) == [e EXCEPT !.metric = Infinity, !.changed = TRUE]

\* invalidateRoute
Invalidated(e) == [type |-> e.type, metric |-> Infinity, ie |-> e.ie, from |-> e.from,
                   route |-> FALSE, changed |-> TRUE, age |-> e.age]

\* checkRouteIsExpired (with purgeRoute): what it makes of a route, and whether
\* it returns it.
IsExpired(e) == e.type = "RTE" /\ e.age # "valid"
\* Mutant: routes never expire.
NeverExpires(e) == e

Checked(e) ==
  IF e = NoRoute \/ ~IsExpired(e) THEN e
  ELSE IF e.age = "purge" THEN NoRoute ELSE Invalidated(e)

\* triggerUpdate: nothing is scheduled if the regular update is due earlier.
triggerUpdate(r) ==
  \E b \in {TRUE, triggered[r]} : triggered' = [triggered EXCEPT ![r] = b]

\* addRoute
Learnt(n, metric, from) ==
  [type |-> "RTE", metric |-> metric, ie |-> n, from |-> from,
   route |-> TRUE, changed |-> TRUE, age |-> "valid"]

\* updateRoute: the type is only set when the route was invalid.
Updated(e, n, metric, from) ==
  [type |-> IF e.metric = Infinity /\ metric < Infinity THEN "RTE" ELSE e.type,
   metric |-> metric, ie |-> n, from |-> from,
   route |-> metric < Infinity, changed |-> TRUE, age |-> "valid"]

-----------------------------------------------------------------------------
(* Sending *)

\* The entry sendRoutes makes of a route on interface n of r: at most one.
Entries(r, e, n, changedOnly) ==
  IF \/ e = NoRoute
     \/ IsExpired(e)
     \/ changedOnly /\ ~e.changed
     \/ e.ie = n /\ Mode[r][n] = "SPLIT_HORIZON"
  THEN <<>>
  ELSE << [command |-> "RESPONSE",
           metric |-> IF e.ie = n /\ Mode[r][n] = "SPLIT_HORIZON_POISONED_REVERSE"
                      THEN Infinity ELSE e.metric] >>

\* sendPacket to the multicast group of the RIP routers on each of the networks
\* ns; those with a NO_RIP interface have not joined it.  What is sent on an
\* interface that is down is dropped.
Hears(l, r, ns) == l[1] = r /\ l[2] \in ns /\ Mode[l[3]][l[2]] # "NO_RIP" /\ <<r, l[2]>> \in ifUp
Multicast(r, ns, packets) ==
  chan' = [l \in Links |-> IF Hears(l, r, ns) THEN chan[l] \o packets[l[2]] ELSE chan[l]]
RipInterfaces(r) == {n \in Attached[r] : Mode[r][n] # "NO_RIP"}

\* The delay of a link is shorter than the time between two updates.
Spaced(r) == \A l \in Links : l[1] = r => Len(chan[l]) < MaxInFlight

\* handleMessage, updateTimer and triggeredUpdateTimer: processUpdate sends on
\* every RIP interface and clears the changed flag.  A route found to have
\* expired is invalidated, which triggers an update anew.
processUpdate(r, changedOnly) ==
  LET e == ripRoutes[r] IN
  /\ phase[r] = "running"
  /\ Spaced(r)
  /\ Multicast(r, RipInterfaces(r), [n \in Networks |-> Entries(r, e, n, changedOnly)])
  /\ ripRoutes' = [ripRoutes EXCEPT ![r] = IF Checked(e) = NoRoute THEN NoRoute
                                           ELSE [Checked(e) EXCEPT !.changed = FALSE]]
  /\ UNCHANGED <<phase, ifUp, faults>>

Triggers(r) ==
  ripRoutes[r] # NoRoute /\ IsExpired(ripRoutes[r]) /\ ripRoutes[r].age = "expired"

RegularUpdate(r) ==
  /\ processUpdate(r, FALSE)
  /\ IF Triggers(r) THEN triggerUpdate(r) ELSE UNCHANGED triggered

TriggeredUpdate(r) ==
  /\ triggered[r]
  /\ processUpdate(r, TRUE)
  /\ IF Triggers(r) THEN \E b \in BOOLEAN : triggered' = [triggered EXCEPT ![r] = b]
     ELSE triggered' = [triggered EXCEPT ![r] = FALSE]

-----------------------------------------------------------------------------
(* Receiving *)

\* A packet arrives at a router that has its socket open, on an interface that
\* is up; any other is dropped.
Arrives(l, command) ==
  /\ chan[l] # <<>>
  /\ Head(chan[l]).command = command
  /\ phase[l[3]] = "running"
  /\ <<l[3], l[2]>> \in ifUp

\* processRequest for the whole table: sendRoutes answers the asker alone.  The
\* changed flag stays.
ProcessRequest(l) ==
  LET r == l[3]
      back == <<r, l[2], l[1]>>
      e == ripRoutes[r]
  IN  /\ Arrives(l, "REQUEST")
      /\ chan' = [chan EXCEPT ![l] = Tail(@),
                              ![back] = @ \o Entries(r, e, l[2], FALSE)]
      /\ ripRoutes' = [ripRoutes EXCEPT ![r] = Checked(e)]
      /\ IF Triggers(r) THEN triggerUpdate(r) ELSE UNCHANGED triggered
      /\ UNCHANGED <<phase, ifUp, faults>>

\* Mutant: the metric is not limited to infinity.
Unlimited(a, b) == a

Min2(a, b) == IF a < b THEN a ELSE b

\* Mutant: bad news from the router in use is not believed.
AdoptsNearer(e, metric, from) ==
  IF e = NoRoute THEN metric # Infinity ELSE metric < e.metric

\* processResponse: a route is adopted if it is new, nearer, or the news of the
\* router that is used; that router's announcement refreshes the route.
Adopts(e, metric, from) ==
  IF e = NoRoute THEN metric # Infinity
  ELSE (e.from = from /\ e.metric # metric) \/ metric < e.metric
Processed(e, n, metric, from) ==
  CASE Adopts(e, metric, from) /\ e = NoRoute -> Learnt(n, metric, from)
    [] Adopts(e, metric, from) /\ e # NoRoute -> Updated(e, n, metric, from)
    [] OTHER -> IF e # NoRoute /\ e.from = from THEN [e EXCEPT !.age = "valid"] ELSE e

\* Mutant: the metric of the interface is not added.
ProcessResponseUncounted(l) ==
  LET r == l[3]
      e == ripRoutes[r]
      metric == Head(chan[l]).metric
  IN  /\ Arrives(l, "RESPONSE")
      /\ chan' = [chan EXCEPT ![l] = Tail(@)]
      /\ ripRoutes' = [ripRoutes EXCEPT ![r] = Processed(e, l[2], metric, l[1])]
      /\ IF Adopts(e, metric, l[1]) THEN triggerUpdate(r) ELSE UNCHANGED triggered
      /\ UNCHANGED <<phase, ifUp, faults>>

ProcessResponse(l) ==
  LET r == l[3]
      e == ripRoutes[r]
      metric == Min2(Head(chan[l]).metric + IfMetric[r][l[2]], Infinity)
  IN  /\ Arrives(l, "RESPONSE")
      /\ chan' = [chan EXCEPT ![l] = Tail(@)]
      /\ ripRoutes' = [ripRoutes EXCEPT ![r] = Processed(e, l[2], metric, l[1])]
      /\ IF Adopts(e, metric, l[1]) THEN triggerUpdate(r) ELSE UNCHANGED triggered
      /\ UNCHANGED <<phase, ifUp, faults>>

Dropped(l) ==
  /\ chan[l] # <<>>
  /\ phase[l[3]] # "running" \/ <<l[3], l[2]>> \notin ifUp
  /\ chan' = [chan EXCEPT ![l] = Tail(@)]
  /\ UNCHANGED <<phase, ripRoutes, triggered, ifUp, faults>>

-----------------------------------------------------------------------------
(* Events of the environment *)

Request == [command |-> "REQUEST"]

\* handleMessage, startupTimer: startRIPRouting imports the routes of the
\* interfaces and asks the neighbours for theirs.
StartRIPRouting(r) ==
  /\ phase[r] = "starting"
  /\ Spaced(r)
  /\ phase' = [phase EXCEPT ![r] = "running"]
  /\ ripRoutes' = [ripRoutes EXCEPT ![r] = Imported(r)]
  /\ Multicast(r, RipInterfaces(r), [n \in Networks |-> <<Request>>])
  /\ UNCHANGED <<triggered, ifUp, faults>>

\* receiveSignal, NF_INTERFACE_STATE_CHANGED, down: invalidateRoutes
InterfaceDown(r, n) ==
  /\ <<r, n>> \in ifUp
  /\ Happens("flaps", MaxFlaps)
  /\ ifUp' = ifUp \ {<<r, n>>}
  /\ IF phase[r] = "running" /\ ripRoutes[r] # NoRoute /\ ripRoutes[r].ie = n
     THEN /\ ripRoutes' = [ripRoutes EXCEPT ![r] = Invalidated(@)]
          /\ triggerUpdate(r)
     ELSE UNCHANGED <<ripRoutes, triggered>>
  /\ UNCHANGED <<phase, chan>>

\* receiveSignal, NF_INTERFACE_STATE_CHANGED, up: the routes of the network are
\* asked for.
InterfaceUp(r, n) ==
  /\ n \in Attached[r]
  /\ <<r, n>> \notin ifUp
  /\ Spaced(r)
  /\ ifUp' = ifUp \cup {<<r, n>>}
  /\ chan' = [l \in Links |->
                IF /\ l[1] = r /\ l[2] = n /\ Mode[l[3]][n] # "NO_RIP"
                   /\ phase[r] = "running" /\ n \in RipInterfaces(r)
                THEN Append(chan[l], Request) ELSE chan[l]]
  /\ UNCHANGED <<phase, ripRoutes, triggered, faults>>

\* stopRIPRouting
Stopped(r, to) ==
  /\ phase' = [phase EXCEPT ![r] = to]
  /\ ripRoutes' = [ripRoutes EXCEPT ![r] = NoRoute]
  /\ triggered' = [triggered EXCEPT ![r] = FALSE]

\* handleOperationStage, NodeShutdownOperation: the routes are announced as
\* unreachable on every interface that is known.
Shutdown(r) ==
  LET e == ripRoutes[r] IN
  /\ phase[r] \in {"starting", "running"}
  /\ Spaced(r)
  /\ Happens("stops", MaxStops)
  /\ Multicast(r, Attached[r],
               [n \in Networks |-> IF e = NoRoute THEN <<>>
                                   ELSE Entries(r, Invalidated(e), n, FALSE)])
  /\ Stopped(r, "stopping")
  /\ UNCHANGED ifUp

\* handleMessage, shutdownTimer
ShutdownDone(r) ==
  /\ phase[r] = "stopping"
  /\ phase' = [phase EXCEPT ![r] = "down"]
  /\ UNCHANGED <<ripRoutes, triggered, ifUp, chan, faults>>

\* handleOperationStage, NodeCrashOperation
Crash(r) ==
  /\ phase[r] \in {"starting", "running"}
  /\ Happens("stops", MaxStops)
  /\ Stopped(r, "down")
  /\ UNCHANGED <<ifUp, chan>>

\* handleOperationStage, NodeStartOperation
NodeStart(r) ==
  /\ phase[r] = "down"
  /\ phase' = [phase EXCEPT ![r] = "starting"]
  /\ UNCHANGED <<ripRoutes, triggered, ifUp, chan, faults>>

\* The network loses a packet.
Lose(l) ==
  /\ chan[l] # <<>>
  /\ Happens("lost", MaxLost)
  /\ chan' = [chan EXCEPT ![l] = Tail(@)]
  /\ UNCHANGED <<phase, ripRoutes, triggered, ifUp>>

\* Does the router a route was learnt from still announce it?
Refreshed(r) ==
  LET e == ripRoutes[r]
      l == <<e.from, e.ie, r>>
      source == ripRoutes[e.from]
  IN  \/ chan[l] # <<>>
      \/ /\ phase[e.from] = "running"
         /\ {<<e.from, e.ie>>, <<r, e.ie>>} \subseteq ifUp
         /\ e.ie \in RipInterfaces(e.from) \cap RipInterfaces(r)
         /\ Entries(e.from, source, e.ie, FALSE) # <<>>

\* What happens within seconds has happened before minutes have passed.
Quiet ==
  /\ \A l \in Links : chan[l] = <<>>
  /\ \A r \in Routers : /\ phase[r] \in {"running", "down"}
                        /\ ripRoutes[r] # NoRoute => ~ripRoutes[r].changed

\* Time passes without a refresh: routeExpiryTime (180 s), and another
\* routePurgeTime (120 s) for a route that an update (every 30 s) has found to
\* have expired.  It takes a source that is silent, or six losses in a row.
Ages(r) ==
  LET e == ripRoutes[r] IN
  /\ phase[r] = "running"
  /\ Quiet
  /\ e # NoRoute
  /\ e.type = "RTE"
  /\ \/ e.age = "valid" /\ ripRoutes' = [ripRoutes EXCEPT ![r].age = "expired"]
     \/ e.age = "expired" /\ e.metric = Infinity
          /\ ripRoutes' = [ripRoutes EXCEPT ![r].age = "purge"]
  /\ UNCHANGED <<phase, triggered, ifUp, chan>>

SourceSilent(r) == Ages(r) /\ ~Refreshed(r) /\ UNCHANGED faults
UpdatesMissed(r) == Ages(r) /\ Refreshed(r) /\ Happens("stale", MaxStale)

-----------------------------------------------------------------------------
Delivery(l) == ProcessRequest(l) \/ ProcessResponse(l) \/ Dropped(l)

Next ==
  \/ \E r \in Routers :
       \/ RegularUpdate(r) \/ TriggeredUpdate(r) \/ StartRIPRouting(r)
       \/ Shutdown(r) \/ ShutdownDone(r) \/ Crash(r) \/ NodeStart(r)
       \/ SourceSilent(r) \/ UpdatesMissed(r)
       \/ \E n \in Attached[r] : InterfaceDown(r, n) \/ InterfaceUp(r, n)
  \/ \E l \in Links : Delivery(l) \/ Lose(l)

Spec == Init /\ [][Next]_vars

\* The kernel executes every scheduled event and packets arrive.  Time passes
\* between two updates, when the links are idle: again and again, not for ever.
\* Nothing is assumed of the environment: a router may stay down, an interface
\* too.
FairSpec ==
  /\ Spec
  /\ \A r \in Routers : /\ WF_vars(RegularUpdate(r))
                        /\ WF_vars(TriggeredUpdate(r))
                        /\ WF_vars(StartRIPRouting(r))
                        /\ WF_vars(ShutdownDone(r))
                        /\ SF_vars(SourceSilent(r))
  /\ \A l \in Links : WF_vars(Delivery(l))
  /\ []<>(\A l \in Links : chan[l] = <<>>)

-----------------------------------------------------------------------------
(* Properties *)

\* updateRoute asserts that a route has an entry in the IP routing table if and
\* only if its metric is finite, whatever invalidated it: a poisoned entry, its
\* age, the interface or the shutdown.
RouteIffFinite ==
  \A r \in Routers : ripRoutes[r] # NoRoute =>
    (ripRoutes[r].route <=> ripRoutes[r].metric < Infinity)

\* The functions that no real distance is below: the distances themselves, when
\* every interface works, are the largest.
LowerBounds ==
  {d \in [Routers -> 0 .. Infinity] :
     /\ \A r \in Routers : Dest \in Attached[r] => d[r] <= IfMetric[r][Dest]
     /\ \A l \in Links : d[l[3]] <= d[l[1]] + IfMetric[l[3]][l[2]]}

\* Counting may raise a metric, but no order of updates, faults and restarts
\* makes a router believe it is nearer to the destination than it can be.
NeverTooNear ==
  \A d \in LowerBounds : \A r \in Routers :
    ripRoutes[r] # NoRoute => ripRoutes[r].metric >= d[r]

\* Triggered updates leave no neighbour behind: as long as nothing was lost and
\* no interface failed, a router that uses another has the metric the other
\* announces, or is about to hear of it.  (A router whose own route has
\* expired or is gone announces nothing.)
NeighboursAgree ==
  faults.lost = 0 /\ faults.flaps = 0 =>
    \A l \in Links :
      LET e == ripRoutes[l[3]]
          s == ripRoutes[l[1]]
          told == Entries(l[1], s, l[2], FALSE)
      IN  /\ e # NoRoute /\ e.from = l[1] /\ e.ie = l[2] /\ e.metric < Infinity
          /\ told # <<>> /\ chan[l] = <<>> /\ ~s.changed
          => e.metric = Min2(told[1].metric + IfMetric[l[3]][l[2]], Infinity)

\* A router's metric, and what the Bellman equation makes of its neighbours'.
Metric(r) == IF ripRoutes[r] = NoRoute THEN Infinity ELSE ripRoutes[r].metric
Live(l) ==
  /\ phase[l[1]] = "running"
  /\ {<<l[1], l[2]>>, <<l[3], l[2]>>} \subseteq ifUp
  /\ "NO_RIP" \notin {Mode[l[1]][l[2]], Mode[l[3]][l[2]]}
OwnRoute(r) == ripRoutes[r] # NoRoute /\ ripRoutes[r].type = "INTERFACE"
Bellman(r) ==
  Min({Infinity} \cup {Metric(l[1]) + IfMetric[r][l[2]] : l \in {k \in Links : k[3] = r /\ Live(k)}})

\* Once the faults are over, the metrics become and remain the distances in what
\* is left of the network: good news spreads, and counting to infinity ends.
Converges ==
  <>[](\A r \in Routers :
         phase[r] = "running" =>
           (OwnRoute(r) /\ Metric(r) < Infinity) \/ Metric(r) = Bellman(r))

=============================================================================
