------------------------------ MODULE UdpExchange ------------------------------
(***************************************************************************)
(* What the gateway promises a UDP client: an answered request is answered *)
(* once, to the client that sent it and with the length its answer has,    *)
(* before the next request is taken; no other request is answered.         *)
(*                                                                         *)
(* The promise is about the datagrams, not about what is in them.          *)
(***************************************************************************)
EXTENDS IpFrames

CONSTANTS
  Clients,
  Requests,  \* Requests[c]: what client c may ask
  NoReq

VARIABLES
  request,   \* the request that is being worked on
  reply      \* the datagram it was answered with: destinations and length

vars == << request, reply >>

NoReply == [ to |-> {}, length |-> 0 ]

ReplyTo(r) ==
  [ to |-> { r.from }, length |-> SegCount[AnswerService("udp", r.pdu.svc)] ]

Init == request = NoReq /\ reply = NoReply

Ask(c, r) ==
  /\ request = NoReq
  /\ request' = [ from |-> c, pdu |-> r ]
  /\ UNCHANGED reply

Reply ==
  /\ request # NoReq
  /\ Answered("udp", request.pdu)
  /\ reply = NoReply
  /\ reply' = ReplyTo(request)
  /\ UNCHANGED request

Finish ==
  /\ request # NoReq
  /\ Answered("udp", request.pdu) => reply # NoReply
  /\ request' = NoReq
  /\ reply' = NoReply

Next ==
  \/ \E c \in Clients : \E r \in Requests[c] : Ask(c, r)
  \/ Reply \/ Finish

Spec == Init /\ [][Next]_vars
=============================================================================
