------------------------------ MODULE TcpExchange ------------------------------
(***************************************************************************)
(* What the gateway promises a TCP client: what it sends for a request goes *)
(* to the client that sent it and has, in the end, the length of a frame;  *)
(* an answered request is never passed over; and the next request is only  *)
(* taken after that, unless the connection ends first.                     *)
(*                                                                         *)
(* Which frame that is the promise cannot say: a request that has no answer *)
(* may be sent an old one, and the receive task may put its own in between. *)
(***************************************************************************)
EXTENDS IpFrames

CONSTANTS Clients, Requests, NoReq

VARIABLES
  client,    \* the client that is served, if any, as a set
  request,   \* the request that is being worked on
  reply      \* what was sent for it so far: destinations and length

vars == << client, request, reply >>

NoReply == [ to |-> {}, length |-> 0 ]

Lengths == { SegCount[s] : s \in FrameService }

Init == client = {} /\ request = NoReq /\ reply = NoReply

Connect(c) ==
  /\ client = {}
  /\ client' = { c }
  /\ UNCHANGED << request, reply >>

Ask(c, r) ==
  /\ client = { c } /\ request = NoReq
  /\ request' = [ from |-> c, pdu |-> r ]
  /\ UNCHANGED << client, reply >>

\* send takes n more segments.
Send(n) ==
  /\ request # NoReq
  /\ reply' = [ to |-> { request.from }, length |-> reply.length + n ]
  /\ UNCHANGED << client, request >>

Finish ==
  /\ request # NoReq
  /\ reply.length \in Lengths \/ (reply = NoReply /\ ~Answered("tcp", request.pdu))
  /\ request' = NoReq
  /\ reply' = NoReply
  /\ UNCHANGED client

\* The connection ends, or a send fails.
Drop ==
  /\ client # {}
  /\ client' = {}
  /\ request' = NoReq
  /\ reply' = NoReply

Next ==
  \/ \E c \in Clients : Connect(c) \/ \E r \in Requests : Ask(c, r)
  \/ \E n \in 1 .. MaxSegs : Send(n)
  \/ Finish \/ Drop

Spec == Init /\ [][Next]_vars
=============================================================================
