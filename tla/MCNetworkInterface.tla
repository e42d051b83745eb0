-------------------------- MODULE MCNetworkInterface --------------------------
(***************************************************************************)
(* A station with two retries, an Ethernet interface that is started three *)
(* times, and two addresses to get.                                        *)
(***************************************************************************)
EXTENDS NetworkInterface

CONSTANTS ip1, ip2

MCLeases == { ip1, ip2 }
=============================================================================
