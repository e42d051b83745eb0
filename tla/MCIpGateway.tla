------------------------------ MODULE MCIpGateway ------------------------------
(***************************************************************************)
(* Small instances of IpGateway.  The longest frame is three segments: a   *)
(* header and two parts of a body, so that send can stop inside a body.    *)
(***************************************************************************)
EXTENDS IpGateway, TLC

CONSTANTS a, b, u1, u2

MCData == { a, b }

\* Frames of two lengths, as the code builds them: the acknowledges, the state
\* and the disconnect answers are short.
MCSegCount ==
  [ s \in FrameService |->
      IF s \in { "CONNECTIONSTATE_RESPONSE", "DISCONNECT_RESPONSE",
                 "TUNNELLING_ACK", "T_ACK" } THEN 2 ELSE 3 ]

\* All but one are a header and a body: the smallest frames tasks can mix up.
ShortSegCount ==
  [ s \in FrameService |-> IF s = "CONNECT_RESPONSE" THEN 3 ELSE 2 ]

Good(s)     == [ svc |-> s, data |-> a, fault |-> "none" ]
Bad(s)      == [ svc |-> s, data |-> a, fault |-> "host_protocol" ]
NoLength(s) == [ svc |-> s, data |-> a, fault |-> "zero_length" ]

\* Nothing tells the TCP clients apart but what they are served.
PeerSymmetry == Permutations(TcpPeers)

ConnectRequests    == { Good("CONNECT_REQUEST") }
DisconnectRequests == { Good("DISCONNECT_REQUEST") }
StrangeRequests    == { Good("CONNECT_REQUEST"), Good("UNSUPPORTED") }

\* No client, one that connects, and one that connects beside one whose requests
\* are not answered.
NoRequests  == << >>
OneConnects == u1 :> ConnectRequests
TwoClients  == OneConnects @@ u2 :> { Bad("DISCONNECT_REQUEST") }

\* One of these is not answered, and the task sends what it sent last.
TunnelRequests ==
  { Good("CONNECT_REQUEST"), Good("TUNNELLING_REQUEST"),
    NoLength("TUNNELLING_REQUEST") }
=============================================================================
