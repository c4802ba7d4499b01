------------------------------- MODULE MCRIP -------------------------------
(* An instance of RIP for TLC: a row of three routers, the first of them on *)
(* the destination network.                                                 *)
EXTENDS RIP

CONSTANTS r1, r2, r3, dest, n12, n23, Horizon

Row == [r \in Routers |-> CASE r = r1 -> {dest, n12}
                            [] r = r2 -> {n12, n23}
                            [] r = r3 -> {n23}]
HopCount == [r \in Routers |-> [n \in Networks |-> 1]]

(* No RIP packets on the destination network.                               *)
StubAndHorizon == [r \in Routers |-> [n \in Networks |-> IF n = dest THEN "NO_RIP" ELSE Horizon]]
=============================================================================
