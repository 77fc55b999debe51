---------------------------- MODULE MCDiscovery ----------------------------
(***************************************************************************)
(* Module Discovery for TLC: two bootstrap peers.                          *)
(***************************************************************************)
EXTENDS Discovery

CONSTANTS p1, p2

MCBootstrap == <<p1, p2>>
=============================================================================
