--------------------------- MODULE MCAODVRouting ---------------------------
(* Instances of AODVRouting for TLC: topologies and traffic.                *)
EXTENDS AODVRouting

CONSTANTS a, b, c, far

Both(pairs) == pairs \cup {<<p[2], p[1]>> : p \in pairs}

(* a - b - c: the hosts at the ends need b to reach each other.             *)
LineLink == Both({<<a, b>>, <<b, c>>})

(* Everybody hears everybody.                                               *)
TriangleLink == Both({<<a, b>>, <<b, c>>, <<a, c>>})

(* A triangle a, b, c with far behind c.                                    *)
KiteLink == TriangleLink \cup Both({<<c, far>>})

KiteTraffic == {[src |-> a, dst |-> far, id |-> 1], [src |-> c, dst |-> far, id |-> 2]}

SharedDestination == {[src |-> a, dst |-> c, id |-> 1], [src |-> b, dst |-> c, id |-> 2]}

EndToEnd == {[src |-> a, dst |-> c, id |-> 1]}
CrossTraffic == {[src |-> a, dst |-> c, id |-> 1], [src |-> c, dst |-> a, id |-> 2]}
=============================================================================
