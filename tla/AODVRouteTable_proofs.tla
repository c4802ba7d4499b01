------------------------ MODULE AODVRouteTable_proofs ------------------------
(***************************************************************************)
(* What the table updates of AODVRouteTable preserve: the type of a table, *)
(* and the soundness of its metrics.                                       *)
(***************************************************************************)
EXTENDS AODVRouteTable, TLAPS

(* What handleRREQ and handleRREP read of a request and of a reply. *)
RequestLike(q) ==
    /\ q.hopCount \in Nat /\ q.orig \in Node /\ q.dest \in Node
    /\ q.origSeqNum \in Nat /\ q.destSeqNum \in Nat /\ q.unknownSeqNum \in BOOLEAN

ReplyLike(p) == p.hopCount \in Nat /\ p.dest \in Node /\ p.destSeqNum \in Nat

LEMMA NoRouteIsNoRoute == \A r \in Route : r # NoRoute
BY NoRouteAssumption

LEMMA LargerType == ASSUME NEW x \in Nat, NEW y \in Nat PROVE Larger(x, y) \in Nat
BY DEF Larger

LEMMA EmptyTableSound == EmptyTable \in RouteTable /\ MetricsSound(EmptyTable)
BY DEF EmptyTable, RouteTable, MetricsSound, HasRoute

(* createRoute and updateRoutingTable. *)
LEMMA UpdateRouteType ==
    ASSUME NEW t \in RouteTable, NEW d \in Node, NEW nh \in Node, NEW h \in Nat,
           NEW v \in BOOLEAN, NEW s \in Nat
    PROVE  /\ UpdateRoute(t, d, nh, h, v, s) \in RouteTable
           /\ HasRoute(UpdateRoute(t, d, nh, h, v, s), d)
<1> DEFINE r == [nextHop |-> nh, metric |-> h, active |-> TRUE, validDestNum |-> v,
                 destSeqNum |-> s, hasPrecursor |-> HasRoute(t, d) /\ t[d].hasPrecursor]
<1>1. (HasRoute(t, d) /\ t[d].hasPrecursor) \in BOOLEAN
    OBVIOUS
<1>2. r \in Route
    BY <1>1 DEF Route
<1>3. UpdateRoute(t, d, nh, h, v, s) = [t EXCEPT ![d] = r]
    BY DEF UpdateRoute
<1> HIDE DEF r
<1> QED
    BY <1>2, <1>3, NoRouteIsNoRoute DEF RouteTable, HasRoute

LEMMA UpdateRouteSound ==
    ASSUME NEW t \in RouteTable, MetricsSound(t), NEW d \in Node, NEW nh \in Node,
           NEW h \in Nat, h >= 1, h = 1 => nh = d, NEW v \in BOOLEAN, NEW s \in Nat
    PROVE  MetricsSound(UpdateRoute(t, d, nh, h, v, s))
<1> DEFINE u == UpdateRoute(t, d, nh, h, v, s)
<1>1. u[d].metric = h /\ u[d].nextHop = nh
    BY DEF UpdateRoute, RouteTable
<1>2. \A e \in Node : e # d => u[e] = t[e]
    BY DEF UpdateRoute, RouteTable
<1> QED
    BY <1>1, <1>2 DEF MetricsSound, HasRoute

LEMMA AddPrecursorSound ==
    ASSUME NEW t \in RouteTable, NEW d \in Node
    PROVE  /\ AddPrecursor(t, d) \in RouteTable
           /\ MetricsSound(t) => MetricsSound(AddPrecursor(t, d))
           /\ \A e \in Node : HasRoute(t, e) => HasRoute(AddPrecursor(t, d), e)
<1> DEFINE u == AddPrecursor(t, d)
<1>1. CASE ~HasRoute(t, d)
    BY <1>1 DEF AddPrecursor
<1>2. CASE HasRoute(t, d)
  <2> DEFINE r == [t[d] EXCEPT !.hasPrecursor = TRUE]
  <2>1. t[d] \in Route
      BY <1>2 DEF RouteTable, HasRoute
  <2>2. r \in Route /\ r.metric = t[d].metric /\ r.nextHop = t[d].nextHop
      BY <2>1 DEF Route
  <2>3. u = [t EXCEPT ![d] = r]
      BY <1>2 DEF AddPrecursor
  <2> HIDE DEF r, u
  <2>4. u[d] = r /\ \A e \in Node : e # d => u[e] = t[e]
      BY <2>3 DEF RouteTable
  <2>5. u \in RouteTable
      BY <2>2, <2>3 DEF RouteTable
  <2>6. MetricsSound(t) => MetricsSound(u)
      BY <1>2, <2>2, <2>4 DEF MetricsSound, HasRoute
  <2>7. \A e \in Node : HasRoute(t, e) => HasRoute(u, e)
      BY <2>2, <2>4, NoRouteIsNoRoute DEF HasRoute
  <2> QED
      BY <2>5, <2>6, <2>7 DEF u
<1> QED
    BY <1>1, <1>2

LEMMA PreviousHopRouteSound ==
    ASSUME NEW t \in RouteTable, NEW src \in Node, NEW s \in Nat
    PROVE  /\ PreviousHopRoute(t, src, s) \in RouteTable
           /\ MetricsSound(t) => MetricsSound(PreviousHopRoute(t, src, s))
<1>1. 1 \in Nat /\ 1 >= 1 /\ FALSE \in BOOLEAN
    OBVIOUS
<1>2. UpdateRoute(t, src, src, 1, FALSE, s) \in RouteTable
    BY <1>1, UpdateRouteType
<1>3. ASSUME MetricsSound(t) PROVE MetricsSound(UpdateRoute(t, src, src, 1, FALSE, s))
    BY <1>1, <1>3, UpdateRouteSound
<1> QED
    BY <1>2, <1>3 DEF PreviousHopRoute

(* The reverse route exists afterwards; metrics stay sound when a request   *)
(* with hop count zero comes from its originator.                           *)
LEMMA ReverseRouteSound ==
    ASSUME NEW t \in RouteTable, NEW src \in Node, NEW q, RequestLike(q)
    PROVE  /\ ReverseRoute(t, src, q) \in RouteTable
           /\ HasRoute(ReverseRoute(t, src, q), q.orig)
           /\ MetricsSound(t) /\ (q.hopCount = 0 => src = q.orig)
                => MetricsSound(ReverseRoute(t, src, q))
<1> DEFINE h == q.hopCount + 1
           old == t[q.orig]
<1>1. /\ h \in Nat /\ h >= 1 /\ (h = 1 => q.hopCount = 0)
      /\ q.orig \in Node /\ q.origSeqNum \in Nat
    BY DEF RequestLike
<1>2. CASE ~HasRoute(t, q.orig)
  <2>1. ReverseRoute(t, src, q) = UpdateRoute(t, q.orig, src, h, TRUE, q.origSeqNum)
      BY <1>2 DEF ReverseRoute, NewHopCount
  <2> HIDE DEF h
  <2> QED
      BY <1>1, <2>1, UpdateRouteType, UpdateRouteSound
<1>3. CASE HasRoute(t, q.orig)
  <2>1. old.destSeqNum \in Nat
      BY <1>1, <1>3 DEF RouteTable, Route, HasRoute
  <2>2. Larger(old.destSeqNum, q.origSeqNum) \in Nat
      BY <1>1, <2>1, LargerType
  <2>3. \/ ReverseRoute(t, src, q) =
             UpdateRoute(t, q.orig, src, h, TRUE, Larger(old.destSeqNum, q.origSeqNum))
        \/ ReverseRoute(t, src, q) = t
      BY <1>3 DEF ReverseRoute, NewHopCount
  <2> HIDE DEF h, old
  <2> QED
      BY <1>1, <1>3, <2>2, <2>3, UpdateRouteType, UpdateRouteSound
<1> QED
    BY <1>2, <1>3

(* The forward route likewise, for a reply from the destination itself.     *)
LEMMA ForwardRouteSound ==
    ASSUME NEW t \in RouteTable, NEW src \in Node, NEW p, ReplyLike(p)
    PROVE  /\ ForwardRoute(t, src, p) \in RouteTable
           /\ HasRoute(ForwardRoute(t, src, p), p.dest)
           /\ MetricsSound(t) /\ (p.hopCount = 0 => src = p.dest)
                => MetricsSound(ForwardRoute(t, src, p))
<1> DEFINE h == p.hopCount + 1
<1>1. /\ h \in Nat /\ h >= 1 /\ (h = 1 => p.hopCount = 0)
      /\ p.dest \in Node /\ p.destSeqNum \in Nat
    BY DEF ReplyLike
<1>2. \/ ForwardRoute(t, src, p) = UpdateRoute(t, p.dest, src, h, TRUE, p.destSeqNum)
      \/ ForwardRoute(t, src, p) = t /\ HasRoute(t, p.dest)
    BY DEF ForwardRoute, NewHopCount
<1> HIDE DEF h
<1> QED
    BY <1>1, <1>2, UpdateRouteType, UpdateRouteSound

(* An update that leaves next hops and metrics alone, entry by entry. *)
LEMMA EntrywiseSound ==
    ASSUME NEW t \in RouteTable, NEW u \in RouteTable,
           \A d \in Node : \/ u[d] = t[d]
                           \/ u[d] = NoRoute
                           \/ /\ t[d] # NoRoute
                              /\ u[d].metric = t[d].metric /\ u[d].nextHop = t[d].nextHop
    PROVE  MetricsSound(t) => MetricsSound(u)
BY DEF MetricsSound, HasRoute

(* handleLinkBreakSendRERR, handleRERR and datagramForwardHook invalidate   *)
(* routes without touching where they go; expungeRoutes also deletes.       *)
LEMMA NextSeqNumType == ASSUME NEW r \in Route PROVE NextSeqNum(r) \in Nat
BY DEF NextSeqNum, Route

LEMMA BreakLinkSound ==
    ASSUME NEW t \in RouteTable, NEW u \in Node
    PROVE  BreakLink(t, u) \in RouteTable
           /\ (MetricsSound(t) => MetricsSound(BreakLink(t, u)))
<1> DEFINE b == BreakLink(t, u)
           e(d) == [t[d] EXCEPT !.active = FALSE, !.destSeqNum = NextSeqNum(t[d])]
<1>1. ASSUME NEW d \in Node, d \in RoutesVia(t, u)
      PROVE  /\ t[d] # NoRoute /\ e(d) \in Route
             /\ e(d).metric = t[d].metric /\ e(d).nextHop = t[d].nextHop
  <2>1. t[d] \in Route /\ t[d] # NoRoute
      BY <1>1 DEF RoutesVia, IsActive, HasRoute, RouteTable
  <2>2. NextSeqNum(t[d]) \in Nat
      BY <2>1, NextSeqNumType
  <2> QED
      BY <2>1, <2>2 DEF Route
<1>2. \A d \in Node : b[d] = IF d \in RoutesVia(t, u) THEN e(d) ELSE t[d]
    BY DEF BreakLink
<1>3. b \in RouteTable
  <2>1. \A d \in Node : b[d] \in Route \cup {NoRoute}
      BY <1>1, <1>2 DEF RouteTable
  <2> QED
      BY <2>1 DEF BreakLink, RouteTable
<1> HIDE DEF b, e
<1> QED
    BY <1>1, <1>2, <1>3, EntrywiseSound DEF b

LEMMA ApplyRERRSound ==
    ASSUME NEW t \in RouteTable, NEW src \in Node, NEW x, x.seqNum \in [Node -> Nat]
    PROVE  ApplyRERR(t, src, x) \in RouteTable
           /\ (MetricsSound(t) => MetricsSound(ApplyRERR(t, src, x)))
<1> DEFINE b == ApplyRERR(t, src, x)
           e(d) == [t[d] EXCEPT !.active = FALSE, !.destSeqNum = x.seqNum[d]]
<1>1. ASSUME NEW d \in Node, d \in RoutesVia(t, src)
      PROVE  /\ t[d] # NoRoute /\ e(d) \in Route
             /\ e(d).metric = t[d].metric /\ e(d).nextHop = t[d].nextHop
  <2>1. t[d] \in Route /\ t[d] # NoRoute
      BY <1>1 DEF RoutesVia, IsActive, HasRoute, RouteTable
  <2>2. x.seqNum[d] \in Nat
      OBVIOUS
  <2> QED
      BY <2>1, <2>2 DEF Route
<1>2. \A d \in Node : b[d] = IF d \in RoutesVia(t, src) \cap x.dests THEN e(d) ELSE t[d]
    BY DEF ApplyRERR
<1>3. b \in RouteTable
  <2>1. \A d \in Node : b[d] \in Route \cup {NoRoute}
      BY <1>1, <1>2 DEF RouteTable
  <2> QED
      BY <2>1 DEF ApplyRERR, RouteTable
<1> HIDE DEF b, e
<1> QED
    BY <1>1, <1>2, <1>3, EntrywiseSound DEF b

LEMMA PenaliseRouteSound ==
    ASSUME NEW t \in RouteTable, NEW d \in Node, HasRoute(t, d)
    PROVE  PenaliseRoute(t, d) \in RouteTable
           /\ (MetricsSound(t) => MetricsSound(PenaliseRoute(t, d)))
<1> DEFINE u == PenaliseRoute(t, d)
           r == [t[d] EXCEPT !.destSeqNum = NextSeqNum(t[d])]
<1>1. t[d] \in Route /\ t[d] # NoRoute
    BY DEF HasRoute, RouteTable
<1>2. r \in Route /\ r.metric = t[d].metric /\ r.nextHop = t[d].nextHop
    BY <1>1, NextSeqNumType DEF Route
<1>3. u = [t EXCEPT ![d] = r]
    BY DEF PenaliseRoute
<1> HIDE DEF u, r
<1>4. u \in RouteTable
    BY <1>2, <1>3 DEF RouteTable
<1>5. u[d] = r /\ \A e \in Node : e # d => u[e] = t[e]
    BY <1>3 DEF RouteTable
<1> QED
    BY <1>1, <1>2, <1>4, <1>5, EntrywiseSound DEF u

LEMMA ExpungeRouteSound ==
    ASSUME NEW t \in RouteTable, NEW d \in Node, HasRoute(t, d)
    PROVE  ExpungeRoute(t, d) \in RouteTable
           /\ (MetricsSound(t) => MetricsSound(ExpungeRoute(t, d)))
<1> DEFINE u == ExpungeRoute(t, d)
           r == IF t[d].active THEN [t[d] EXCEPT !.active = FALSE] ELSE NoRoute
<1>1. t[d] \in Route /\ t[d] # NoRoute
    BY DEF HasRoute, RouteTable
<1>2. \/ r \in Route /\ r.metric = t[d].metric /\ r.nextHop = t[d].nextHop
      \/ r = NoRoute
    BY <1>1 DEF Route
<1>3. u = [t EXCEPT ![d] = r]
    BY DEF ExpungeRoute
<1> HIDE DEF u, r
<1>4. u \in RouteTable
    BY <1>2, <1>3 DEF RouteTable
<1>5. u[d] = r /\ \A e \in Node : e # d => u[e] = t[e]
    BY <1>3 DEF RouteTable
<1> QED
    BY <1>1, <1>2, <1>4, <1>5, EntrywiseSound DEF u
=============================================================================
