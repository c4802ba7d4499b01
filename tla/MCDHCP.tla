------------------------------- MODULE MCDHCP -------------------------------
(* Two clients and a server for TLC. *)
EXTENDS DHCP
CONSTANTS alice, bob

MCClients == {alice, bob}

=============================================================================
