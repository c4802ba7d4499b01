--------------------------- MODULE AODVRouteTable ---------------------------
(***************************************************************************)
(* The routing table of one AODV node: the routes AODVRouting installs in  *)
(* the host's IPv4 routing table, and the updates its handlers make.       *)
(*                                                                         *)
(* A table maps every address to a route or to NoRoute.  A route is the    *)
(* IRoute (nextHop, metric) with its AODVRouteData.  Two fields are        *)
(* abstracted: the precursor list to whether it is non-empty (the only     *)
(* thing the code asks of it), and the lifetime to the nondeterministic    *)
(* moment at which ExpungeRoute is applied.                                *)
(***************************************************************************)
EXTENDS Integers

CONSTANTS
    Node,       \* the addresses of the network, one per host
    NoRoute     \* the table has no AODV route for the address

Route ==
    [nextHop : Node, metric : Nat, active : BOOLEAN, validDestNum : BOOLEAN,
     destSeqNum : Nat, hasPrecursor : BOOLEAN]

ASSUME NoRouteAssumption == NoRoute \notin Route

RouteTable == [Node -> Route \cup {NoRoute}]

EmptyTable == [d \in Node |-> NoRoute]

Larger(a, b) == IF a > b THEN a ELSE b

HasRoute(t, d) == t[d] # NoRoute

IsActive(t, d) == HasRoute(t, d) /\ t[d].active

(***************************************************************************)
(* createRoute and updateRoutingTable.  Both leave an active route with    *)
(* the given fields; an update keeps the precursor list, a new route       *)
(* starts with an empty one.                                               *)
(***************************************************************************)
UpdateRoute(t, d, nextHop, hopCount, valid, seqNum) ==
    [t EXCEPT ![d] =
        [nextHop |-> nextHop, metric |-> hopCount, active |-> TRUE,
         validDestNum |-> valid, destSeqNum |-> seqNum,
         hasPrecursor |-> HasRoute(t, d) /\ t[d].hasPrecursor]]

AddPrecursor(t, d) ==
    IF HasRoute(t, d) THEN [t EXCEPT ![d].hasPrecursor = TRUE] ELSE t

(***************************************************************************)
(* The route to the node a control packet came from.  Its sequence number  *)
(* is the one of the packet's originator, marked invalid.                  *)
(***************************************************************************)
(* Mutant: the previous hop's route claims a valid sequence number.         *)
PreviousHopRouteValid(t, src, seqNum) == UpdateRoute(t, src, src, 1, TRUE, seqNum)

PreviousHopRoute(t, src, seqNum) == UpdateRoute(t, src, src, 1, FALSE, seqNum)

(* Mutant: the receiver does not count itself.                              *)
OldHopCount(m) == m.hopCount

(* The hop count of a control packet once its receiver has counted itself.  *)
NewHopCount(m) == m.hopCount + 1

(***************************************************************************)
(* handleRREQ's reverse route to the originator of request q, heard from   *)
(* src.  The validity of the stored number is not consulted, and the U     *)
(* flag, which speaks of the destination, forces the update.               *)
(***************************************************************************)
ReverseRoute(t, src, q) ==
    LET hops == NewHopCount(q)
        old  == t[q.orig]
    IN  IF ~HasRoute(t, q.orig)
        THEN UpdateRoute(t, q.orig, src, hops, TRUE, q.origSeqNum)
        ELSE IF \/ q.origSeqNum > old.destSeqNum
                \/ q.origSeqNum = old.destSeqNum /\ hops < old.metric
                \/ q.unknownSeqNum
             THEN UpdateRoute(t, q.orig, src, hops, TRUE,
                              Larger(old.destSeqNum, q.origSeqNum))
             ELSE t

(***************************************************************************)
(* handleRREP's forward route to the destination of reply p, heard from    *)
(* src: the circumstances (i) to (iv) of the code's comment.               *)
(***************************************************************************)
ForwardRoute(t, src, p) ==
    LET hops == NewHopCount(p)
        old  == t[p.dest]
    IN  IF \/ ~HasRoute(t, p.dest)
           \/ ~old.validDestNum
           \/ p.destSeqNum > old.destSeqNum
           \/ p.destSeqNum = old.destSeqNum /\ (~old.active \/ hops < old.metric)
        THEN UpdateRoute(t, p.dest, src, hops, TRUE, p.destSeqNum)
        ELSE t

(***************************************************************************)
(* Rule (ii) of handleRREQ: an intermediate node may answer from its table.*)
(***************************************************************************)
CanReply(t, q) ==
    /\ IsActive(t, q.dest)
    /\ t[q.dest].validDestNum
    /\ t[q.dest].destSeqNum >= q.destSeqNum

(* Mutant: the reply is sent whatever its next hop.                         *)
ReplyNeverLoops(t, q, src) == FALSE

(* A reply from the table must not go back along the route it advertises.   *)
ReplyWouldLoop(t, q, src) == t[q.dest].nextHop = src

(***************************************************************************)
(* handleLinkBreakSendRERR: the active routes through a lost neighbour.    *)
(***************************************************************************)
RoutesVia(t, u) == {d \in Node : IsActive(t, d) /\ t[d].nextHop = u}

(* Mutant: the sequence number goes down instead of up.                     *)
PreviousSeqNum(r) == IF r.validDestNum THEN r.destSeqNum - 1 ELSE r.destSeqNum

NextSeqNum(r) == IF r.validDestNum THEN r.destSeqNum + 1 ELSE r.destSeqNum

BreakLink(t, u) ==
    [d \in Node |->
        IF d \in RoutesVia(t, u)
        THEN [t[d] EXCEPT !.active = FALSE, !.destSeqNum = NextSeqNum(t[d])]
        ELSE t[d]]

(***************************************************************************)
(* handleRERR: the routes through src that the error lists take the listed *)
(* sequence number, whatever the stored one was, and become inactive.      *)
(***************************************************************************)
ApplyRERR(t, src, e) ==
    [d \in Node |->
        IF d \in RoutesVia(t, src) \cap e.dests
        THEN [t[d] EXCEPT !.active = FALSE, !.destSeqNum = e.seqNum[d]]
        ELSE t[d]]

(***************************************************************************)
(* datagramForwardHook on an inactive route.                               *)
(***************************************************************************)
PenaliseRoute(t, d) == [t EXCEPT ![d].destSeqNum = NextSeqNum(t[d])]

(***************************************************************************)
(* expungeRoutes on one expired route that is not waiting for a RREP: an   *)
(* active route becomes inactive, an inactive one is deleted.              *)
(***************************************************************************)
ExpungeRoute(t, d) ==
    IF t[d].active THEN [t EXCEPT ![d].active = FALSE]
                   ELSE [t EXCEPT ![d] = NoRoute]

(***************************************************************************)
(* What the metrics of a table must satisfy: none is zero, and a route of  *)
(* one hop goes straight to its destination.                               *)
(***************************************************************************)
MetricsSound(t) ==
    \A d \in Node : HasRoute(t, d) =>
        t[d].metric >= 1 /\ (t[d].metric = 1 => t[d].nextHop = d)
=============================================================================
