------------------------------ MODULE MCGateway ------------------------------
(***************************************************************************)
(* A small instance of Gateway: one telegram per transport, both without   *)
(* data.  Frames are a header and a body.                                  *)
(***************************************************************************)
EXTENDS Gateway

CONSTANTS a, b, u1

MCData     == { a, b }
MCLength == [ t \in MCData |-> 0 ]
MCCemiLength == [ t \in MCData |-> 10 ]
MCSegCount == [ s \in FrameService |-> 2 ]

Tunnel(t)  == [ svc |-> "TUNNELLING_REQUEST", data |-> t, fault |-> "none" ]
UdpTunnels == [ c \in { u1 } |-> { Tunnel(a) } ]
TcpTunnels == { Tunnel(b) }
=============================================================================
