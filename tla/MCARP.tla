------------------------------- MODULE MCARP -------------------------------
(* An instance of ARP for TLC: a host and a router on one LAN.              *)
EXTENDS ARP

CONSTANTS host, router, far

(* The router answers for the address far.                                  *)
RouterAnswers == {<<router, far>>}

(* The two resolve each other's addresses at the same time: host needs the  *)
(* router for far, the router needs host.                                   *)
LanTraffic ==
    [c \in Channel |-> CASE c = <<host, far>> -> 2
                         [] c \in {<<router, host>>, <<host, Broadcast>>} -> 1
                         [] OTHER -> 0]
=============================================================================
