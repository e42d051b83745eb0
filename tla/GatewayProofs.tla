----------------------------- MODULE GatewayProofs -----------------------------
(***************************************************************************)
(* Proofs about the IP side and the way to the bus together.               *)
(*                                                                         *)
(* The composition implements IpGateway and TpTransmit, each beside the    *)
(* other, so that what is proved of either alone holds of it.  CarryInv    *)
(* ties the two together, and from it follow that a confirmation is true   *)
(* and the safety half of what TunnelExchange promises.                    *)
(***************************************************************************)
EXTENDS Gateway, IpGatewayProofs

BusProofs ==
  INSTANCE TpTransmitProofs
    WITH pc <- at, telegram <- given, disturbed <- mixed,
         Telegrams <- Data, Gateway <- GatewayAddress

-----------------------------------------------------------------------------
(***************************************************************************)
(* The IP side.                                                            *)
(***************************************************************************)
USE DEF Tasks, Handlers, Senders, Goto

\* Every step of the composition is one of IpGateway, or none of its variables
\* change.
LEMMA IpStep == [GatewayNext]_gatewayVars => [Next]_vars
<1> SUFFICES ASSUME [GatewayNext]_gatewayVars PROVE [Next]_vars
  OBVIOUS
<1>1. CASE IpSide(Next)
  BY <1>1 DEF IpSide
<1>2. CASE PollArrives \/ UNCHANGED gatewayVars
  BY <1>2 DEF PollArrives, gatewayVars
<1>3. ASSUME NEW h \in Handlers, Tunnelling(h) PROVE [Next]_vars
  <2>1. TunnelIP2TP(h) => Next
    BY DEF Next, UdpStep, TcpStep, HandlerStep
  <2>2. QED
    BY <1>3, <2>1
    DEF Tunnelling, StartTunnelling, KeepTunnelling, ReturnFromTunnelling
<1>4. QED
  BY <1>1, <1>2, <1>3 DEF GatewayNext

\* With the way to the bus in the place of the label "tunnel", the three tasks
\* still do only what IpGateway says they do.
THEOREM IpGatewayImplemented == GatewaySpec => Spec
  BY IpStep, PTL DEF GatewaySpec, GatewayInit, Spec

\* What the clients ask for.
Requested == TcpRequests \cup UNION { UdpRequests[c] : c \in UdpClients }

\* What a step of task t means for its own request, frame and answer.
RequestMoves(h) ==
  \/ req'[h] = req[h] /\ sent'[h] = sent[h]
  \/ /\ req[h] = NoReq /\ sent'[h] = sent[h]
     /\ req'[h] # NoReq /\ req'[h].pdu \in Requested
  \/ /\ req'[h] = req[h] /\ sent'[h] # << >> /\ pc[h] \in { "out", "send" }
  \/ /\ req'[h] = NoReq /\ sent'[h] = << >>
     /\ \/ pc[h] \in { "sent", "dispatch" }
        \/ h = "tcp" /\ pc[h] \in { "check", "send" }

LabelMoves(h) ==
  /\ pc'[h] = "dispatch" => pc[h] = "dispatch" \/ req[h] = NoReq
  /\ pc'[h] = "tunnel" =>
       \/ pc[h] = "tunnel" /\ req'[h] = req[h]
       \/ /\ pc[h] = "dispatch" /\ req'[h] = req[h]
          /\ req[h].pdu.svc = "TUNNELLING_REQUEST"
  /\ pc[h] = "dispatch" /\ pc'[h] \notin { "dispatch", "tunnel" } =>
       req'[h] = NoReq \/ frame'[h] = NoFrame \/ req[h].pdu.svc # "TUNNELLING_REQUEST"
  /\ pc[h] # "dispatch" => frame'[h] = frame[h] \/ req'[h] = NoReq
  /\ h = "udp" /\ pc'[h] = "sent" =>
       sent'[h] # << >> \/ (pc[h] = "sent" /\ sent'[h] = sent[h])

Moves(t) ==
  /\ \A u \in Handlers \ {t} :
       /\ pc'[u] = pc[u] /\ req'[u] = req[u]
       /\ frame'[u] = frame[u] /\ sent'[u] = sent[u]
  /\ t \in Handlers => RequestMoves(t) /\ LabelMoves(t)

LEMMA NotEmpty ==
  ASSUME NEW n \in Nat, n >= 1, NEW s, DOMAIN s = 1 .. n
  PROVE  s # << >>
<1>1. 1 \in DOMAIN s
  OBVIOUS
<1>2. DOMAIN << >> = {}
  OBVIOUS
<1>3. QED
  BY <1>1, <1>2

LEMMA NextMoves ==
  ASSUME TypeInv, ExchangeInv, Next
  PROVE  \E t \in Tasks : Moves(t)
<1> SUFFICES \/ Moves("udp") \/ Moves("tcp") \/ Moves("rx")
  OBVIOUS
<1>0. /\ pc \in [Tasks -> UdpLabel \cup TcpLabel \cup RxLabel]
      /\ req \in [Handlers -> Received \cup {NoReq}]
      /\ frame \in [Tasks -> Frame \cup {NoFrame}]
      /\ sent \in [Tasks -> Seq(Content \cup {Outside})]
      /\ to_write \in [Senders -> 0 .. MaxSegs]
      /\ HandlerShape
      /\ NoReq \notin Received
  BY IpGatewayAssumption DEF TypeInv, TypeOK, Shape, Received
<1> USE <1>0 DEF Moves, RequestMoves, LabelMoves, HandlerShape, AtWork, shared, sockets,
              rxLocals, session, wire
<1>1. CASE CreateSocket
  BY <1>1 DEF CreateSocket
<1>2. CASE CreateSocketFails
  BY <1>2 DEF CreateSocketFails
<1>3. CASE SelectFails
  BY <1>3 DEF SelectFails
<1>4. CASE Restart
  BY <1>4 DEF Restart
<1>5. ASSUME NEW c \in UdpClients, NEW r \in UdpRequests[c], RecvFrom(c, r) PROVE Moves("udp")
  <2>1. r \in Requested
    BY <1>5 DEF Requested
  <2> QED
    BY <1>5, <2>1 DEF RecvFrom, Receive, Received
<1>6. ASSUME NEW r \in TcpRequests, Recv(r) PROVE Moves("tcp")
  <2>1. r \in Requested
    BY <1>6 DEF Requested
  <2> QED
    BY <1>6, <2>1 DEF Recv, Receive, Received
<1>7. CASE RecvEnds
  BY <1>7 DEF RecvEnds
<1>8. CASE Listen
  BY <1>8 DEF Listen
<1>9. CASE ServerFails
  BY <1>9 DEF ServerFails
<1>10. ASSUME NEW p \in TcpPeers, NEW fd \in Fds, Accept(p, fd) PROVE Moves("tcp")
  BY <1>10 DEF Accept
<1>11. CASE PublishSocket
  BY <1>11 DEF PublishSocket
<1>12. CASE CloseConnection
  BY <1>12 DEF CloseConnection
<1>13. ASSUME NEW h \in Handlers, Dispatch(h) PROVE Moves(h)
  BY <1>13 DEF Dispatch
<1>14. ASSUME NEW h \in Handlers, Ignore(h) PROVE Moves(h)
  <2>1. CASE h = "udp"
    <3>1. sent["udp"] = << >>
      BY <1>14, <2>1 DEF Ignore, ExchangeInv, QuietInv
    <3>2. QED
      BY <1>14, <2>1, <3>1 DEF Ignore, Caller
  <2>2. CASE h = "tcp"
    <3>1. frame["tcp"] = NoFrame
      BY <1>14, <2>2 DEF Ignore
    <3>2. QED
      BY <1>14, <2>2, <3>1 DEF Ignore
  <2>3. QED
    BY <2>1, <2>2
<1>15. ASSUME NEW h \in Handlers, TunnelIP2TP(h) PROVE Moves(h)
  BY <1>15 DEF TunnelIP2TP
<1>16. ASSUME NEW t \in Tasks, WriteBody(t) PROVE Moves(t)
  BY <1>16 DEF WriteBody
<1>17. ASSUME NEW t \in Tasks, WriteHeader(t) PROVE Moves(t)
  BY <1>17 DEF WriteHeader
<1>18. CASE CopyRequest
  BY <1>18 DEF CopyRequest
<1>19. CASE PatchRequest
  BY <1>19 DEF PatchRequest
<1>20. ASSUME NEW h \in Handlers, SetConnected(h) PROVE Moves(h)
  BY <1>20 DEF SetConnected
<1>21. CASE UDPSend
  <2>1. frame["udp"] \in Frame
    BY <1>21 DEF UDPSend
  <2>2. sent'["udp"] = [k \in 1 .. SegCount[frame["udp"].svc] |-> IP_TxBuffer[k - 1]]
    BY <1>21 DEF UDPSend
  <2>3. sent'["udp"] # << >>
    <3> DEFINE n == SegCount[frame["udp"].svc]
    <3>1. n \in Nat /\ n >= 1
      BY <2>1, FrameLength
    <3>2. sent'["udp"] = [k \in 1 .. n |-> IP_TxBuffer[k - 1]]
      BY <2>2
    <3> HIDE DEF n
    <3>3. DOMAIN sent'["udp"] = 1 .. n
      BY <3>2
    <3>4. QED
      BY <3>1, <3>3, NotEmpty
  <2>4. QED
    BY <1>21, <2>3 DEF UDPSend
<1>22. ASSUME NEW s \in Senders, TcpUpdateTxBuffer(s) PROVE Moves(s)
  BY <1>22 DEF TcpUpdateTxBuffer
<1>23. ASSUME NEW s \in Senders, StartSend(s) PROVE Moves(s)
  BY <1>23 DEF StartSend
<1>24. ASSUME NEW s \in Senders, NothingToSend(s) PROVE Moves(s)
  BY <1>24 DEF NothingToSend, Clear, Caller
<1>25. ASSUME NEW s \in Senders, NEW n \in 1 .. MaxSegs, SendPart(s, n) PROVE Moves(s)
  <2>1. /\ pc[s] = "send" /\ (pc'[s] = "send" \/ pc'[s] = "sent")
        /\ \A u \in Tasks \ {s} : pc'[u] = pc[u] /\ sent'[u] = sent[u]
        /\ UNCHANGED << req, frame >>
    BY <1>25 DEF SendPart
  <2>2. sent'[s] # << >>
    <3> DEFINE part == [k \in 1 .. n |-> Memory(Tcp_TxLength - to_write[s] + k - 1)]
    <3>1. sent'[s] = sent[s] \o part
      BY <1>25 DEF SendPart
    <3>2. part \in Seq(Content \cup {Outside}) /\ Len(part) = n
      <4>1. part \in [1 .. n -> Content \cup {Outside}]
        <5>1. IP_TxBuffer \in [0 .. MaxSegs - 1 -> Content]
          BY DEF TypeInv, TypeOK
        <5>2. \A i : Memory(i) \in Content \cup {Outside}
          BY <5>1 DEF Memory
        <5> HIDE DEF part
        <5>3. part = [k \in 1 .. n |-> Memory(Tcp_TxLength - to_write[s] + k - 1)]
          BY DEF part
        <5>4. QED
          BY <5>2, <5>3
      <4>2. n \in Nat
        OBVIOUS
      <4> HIDE DEF part
      <4>3. QED
        BY <4>1, <4>2
    <3>3. sent[s] \in Seq(Content \cup {Outside})
      OBVIOUS
    <3> HIDE DEF part
    <3>4. Len(sent[s] \o part) > 0
      BY <3>2, <3>3
    <3>5. QED
      BY <3>1, <3>4
  <2>3. QED
    BY <2>1, <2>2
<1>26. ASSUME NEW s \in Senders, SendFails(s) PROVE Moves(s)
  BY <1>26 DEF SendFails, Clear, Caller
<1>27. ASSUME NEW t \in Tasks, Return(t) PROVE Moves(t)
  <2>1. /\ pc[t] = "sent" /\ pc' = [pc EXCEPT ![t] = Caller(t)]
        /\ frame' = [frame EXCEPT ![t] = NoFrame]
        /\ sent' = [sent EXCEPT ![t] = << >>]
        /\ req' = [h \in Handlers |-> IF h = t THEN NoReq ELSE req[h]]
    BY <1>27 DEF Return, Clear
  <2>2. Caller(t) \notin { "dispatch", "tunnel", "sent" }
    BY DEF Caller
  <2>3. CASE t = "udp"
    BY <2>1, <2>2, <2>3
  <2>4. CASE t = "tcp"
    BY <2>1, <2>2, <2>4
  <2>5. CASE t = "rx"
    BY <2>1, <2>2, <2>5
  <2>6. QED
    BY <2>3, <2>4, <2>5
<1>28. ASSUME NEW d \in Telegrams, NEW c \in BOOLEAN, ReadTelegram(d, c) PROVE Moves("rx")
  BY <1>28 DEF ReadTelegram
<1>29. CASE PassSocket
  BY <1>29 DEF PassSocket
<1>30. CASE Confirm
  BY <1>30 DEF Confirm
<1>31. CASE TelegramDone
  BY <1>31 DEF TelegramDone
<1>37. CASE DispatchUnlengthed
  BY <1>37 DEF DispatchUnlengthed, Unlengthed
<1>38. CASE PatchStray
  BY <1>38 DEF PatchStray
<1> HIDE DEF Moves
<1>33. CASE UdpStep
  BY <1>33, <1>4, <1>13, <1>14, <1>15, <1>16, <1>17, <1>20, <1>27
     DEF UdpStep, HandlerStep
<1>34. CASE TcpStep
  BY <1>34, <1>8, <1>11, <1>12, <1>13, <1>14, <1>15, <1>16, <1>17, <1>18,
     <1>19, <1>20, <1>22, <1>23, <1>24, <1>27, <1>37, <1>38
     DEF TcpStep, HandlerStep, SenderStep
<1>35. CASE RxStep
  BY <1>35, <1>16, <1>17, <1>22, <1>23, <1>24, <1>27, <1>29,
     <1>30, <1>31
     DEF RxStep, SenderStep
<1>36. CASE Environment
  <2>1. CASE ClientSends
    BY <2>1, <1>5, <1>6 DEF ClientSends
  <2>2. CASE \E p \in TcpPeers, fd \in Fds : Accept(p, fd)
    BY <2>2, <1>10
  <2>3. CASE \E d \in Telegrams, c \in BOOLEAN : ReadTelegram(d, c)
    BY <2>3, <1>28
  <2> QED
    BY <1>36, <2>1, <2>2, <2>3, <1>2, <1>3, <1>7, <1>9 DEF Environment
<1>39. CASE UdpCall
  BY <1>39, <1>1, <1>21 DEF UdpCall
<1>40. ASSUME NEW s \in Senders, SendCall(s) PROVE Moves(s)
  BY <1>40, <1>25, <1>26 DEF SendCall
<1> QED
  BY <1>33, <1>34, <1>35, <1>36, <1>39, <1>40 DEF Next

\* A handler's request came from a client, what is tunnelled is a tunnelling
\* request, and a datagram that is sent is not empty.
TunnelInv ==
  \A h \in Handlers :
    /\ req[h] # NoReq => req[h].pdu \in Requested
    /\ pc[h] = "tunnel" =>
         req[h] # NoReq /\ req[h].pdu.svc = "TUNNELLING_REQUEST"
    /\ h = "udp" /\ pc[h] = "sent" => sent[h] # << >>

LEMMA TunnelInvNext == TypeInv /\ ExchangeInv /\ TunnelInv /\ [Next]_vars => TunnelInv'
<1> SUFFICES ASSUME TypeInv, ExchangeInv, TunnelInv, [Next]_vars PROVE TunnelInv'
  OBVIOUS
<1>1. CASE Next
  <2>1. PICK t \in Tasks : Moves(t)
    BY <1>1, NextMoves
  <2> SUFFICES ASSUME NEW h \in Handlers
               PROVE  /\ req'[h] # NoReq => req'[h].pdu \in Requested
                      /\ pc'[h] = "tunnel" =>
                           req'[h] # NoReq /\ req'[h].pdu.svc = "TUNNELLING_REQUEST"
                      /\ h = "udp" /\ pc'[h] = "sent" => sent'[h] # << >>
    BY DEF TunnelInv
  <2>2. CASE h = t
    <3>1. pc[h] = "dispatch" => req[h] # NoReq
      BY DEF TypeInv, Shape, HandlerShape, AtWork
    <3>2. QED
      BY <2>1, <2>2, <3>1 DEF Moves, RequestMoves, LabelMoves, TunnelInv
  <2>3. CASE h # t
    BY <2>1, <2>3 DEF Moves, TunnelInv
  <2>4. QED
    BY <2>2, <2>3
<1>2. CASE UNCHANGED vars
  BY <1>2 DEF vars, wire, TunnelInv
<1>3. QED
  BY <1>1, <1>2

LEMMA IpInvariant == Spec => [](TypeInv /\ ExchangeInv /\ TunnelInv)
<1>1. Init => ExchangeInv /\ TunnelInv
  BY DEF Init, ExchangeInv, QuietInv, DatagramInv, TunnelInv
<1>2. QED
  BY <1>1, TypeInvInit, TypeInvNext, ExchangeInvNext, TunnelInvNext, PTL DEF Spec

-----------------------------------------------------------------------------
(***************************************************************************)
(* The way to the bus.                                                     *)
(***************************************************************************)
LEMMA BusAssumption ==
  /\ BufferSize \in Nat /\ BufferSize > BusProofs!CEMI_TPDU
  /\ IndexRange \in Nat /\ IndexRange > BusProofs!TPDU + 3
  /\ Length \in [Data -> 0 .. IndexRange - 1]
  /\ CemiLength \in [Data -> 0 .. BufferSize]
  /\ Nothing \notin Data /\ GatewayAddress \notin Data /\ GatewayAddress # Nothing
  BY GatewayAssumption
  DEF Bus!CEMI_TPDU, BusProofs!CEMI_TPDU, Bus!TPDU, BusProofs!TPDU

\* What a client asks to be tunnelled is a telegram.
LEMMA TunnelledData ==
  ASSUME NEW r \in Requested, r.svc = "TUNNELLING_REQUEST"
  PROVE  r.data \in Data
  BY GatewayAssumption DEF Requested

LEMMA BusStep ==
  TypeInv /\ TunnelInv /\ [GatewayNext]_gatewayVars => [Bus!Next]_(Bus!vars)
<1> SUFFICES ASSUME TypeInv, TunnelInv, [GatewayNext]_gatewayVars
             PROVE  [Bus!Next]_(Bus!vars)
  OBVIOUS
<1>1. CASE IpSide(Next) \/ UNCHANGED gatewayVars
  BY <1>1 DEF IpSide, gatewayVars, busVars, Bus!vars, Bus!buffers
<1>2. CASE PollArrives
  BY <1>2 DEF PollArrives, Bus!Next
<1>3. ASSUME NEW h \in Handlers, StartTunnelling(h) PROVE Bus!Next
  <2>1. req[h].pdu.data \in Data
    BY <1>3, TunnelledData DEF StartTunnelling, TunnelInv
  <2>2. QED
    BY <1>3, <2>1 DEF StartTunnelling, Bus!Next
<1>4. ASSUME NEW h \in Handlers, KeepTunnelling(h) PROVE Bus!Next
  BY <1>4 DEF KeepTunnelling, Bus!Next
<1>5. ASSUME NEW h \in Handlers, ReturnFromTunnelling(h) PROVE Bus!Next
  BY <1>5 DEF ReturnFromTunnelling, Bus!Next, Bus!HandlerStep
<1>6. QED
  BY <1>1, <1>2, <1>3, <1>4, <1>5 DEF GatewayNext, Tunnelling

\* Beside the three tasks the way to the bus is the one of TpTransmit.
THEOREM BusImplemented == GatewaySpec => Bus!Spec
<1>1. GatewayInit => Bus!Init
  BY DEF GatewayInit
<1>2. QED
  BY <1>1, IpInvariant, IpGatewayImplemented, BusStep, PTL DEF GatewaySpec, Bus!Spec

LEMMA SameInit == Bus!Init => BusProofs!Init
  BY DEF Bus!Init, BusProofs!Init, Bus!Position, BusProofs!Position,
     Bus!TPDU, BusProofs!TPDU, Bus!Octet, BusProofs!Octet

LEMMA SameOffsets ==
  /\ Bus!CTRL1 = BusProofs!CTRL1 /\ Bus!CTRL2 = BusProofs!CTRL2
  /\ Bus!DA = BusProofs!DA /\ Bus!LENGTH = BusProofs!LENGTH
  /\ Bus!CEMI_TPDU = BusProofs!CEMI_TPDU /\ Bus!TPDU = BusProofs!TPDU
  BY DEF Bus!CTRL1, BusProofs!CTRL1, Bus!CTRL2, BusProofs!CTRL2, Bus!DA,
     BusProofs!DA, Bus!LENGTH, BusProofs!LENGTH, Bus!CEMI_TPDU,
     BusProofs!CEMI_TPDU, Bus!TPDU, BusProofs!TPDU

LEMMA SameNext == [Bus!Next]_(Bus!vars) => [BusProofs!Next]_(BusProofs!vars)
<1> USE SameOffsets
    DEF Bus!Position, BusProofs!Position, Bus!RxOctet, BusProofs!RxOctet, Bus!Octet,
        BusProofs!Octet, Bus!Checksum, BusProofs!Checksum, Bus!OctetOf,
        BusProofs!OctetOf, Bus!Step, BusProofs!Step, Bus!Touch, BusProofs!Touch,
        Bus!Put, BusProofs!Put, Bus!Assign, BusProofs!Assign, Bus!LengthField,
        BusProofs!LengthField, Bus!Frame, BusProofs!Frame, Bus!Service,
        BusProofs!Service, Bus!U_L_DataStart, BusProofs!U_L_DataStart,
        Bus!U_L_DataContinue, BusProofs!U_L_DataContinue, Bus!U_L_DataEnd,
        BusProofs!U_L_DataEnd, Bus!vars, BusProofs!vars, Bus!buffers,
        BusProofs!buffers
<1>1. \A h : Bus!SetControlAndSource(h) = BusProofs!SetControlAndSource(h)
  BY DEF Bus!SetControlAndSource, BusProofs!SetControlAndSource
<1>2. \A h : Bus!SetDestination(h) = BusProofs!SetDestination(h)
  BY DEF Bus!SetDestination, BusProofs!SetDestination
<1>3. \A h : Bus!SetLength(h) = BusProofs!SetLength(h)
  BY DEF Bus!SetLength, BusProofs!SetLength
<1>4. \A h : Bus!CopyTpdu(h) = BusProofs!CopyTpdu(h)
  BY DEF Bus!CopyTpdu, BusProofs!CopyTpdu
<1>5. \A h : Bus!AdvanceIndex(h) = BusProofs!AdvanceIndex(h)
  BY DEF Bus!AdvanceIndex, BusProofs!AdvanceIndex
<1>6. \A h : Bus!SetFCS(h) = BusProofs!SetFCS(h)
  BY DEF Bus!SetFCS, BusProofs!SetFCS
<1>7. \A h : Bus!CopyFrame(h) = BusProofs!CopyFrame(h)
  BY DEF Bus!CopyFrame, BusProofs!CopyFrame
<1>8. \A h : Bus!WriteService(h) = BusProofs!WriteService(h)
  BY DEF Bus!WriteService, BusProofs!WriteService
<1>9. \A h : Bus!Return(h) = BusProofs!Return(h)
  BY DEF Bus!Return, BusProofs!Return
<1>10. \A h, t : Bus!Tunnel(h, t) = BusProofs!Tunnel(h, t)
  BY DEF Bus!Tunnel, BusProofs!Tunnel
<1>11. Bus!U_PollingState = BusProofs!U_PollingState
  BY DEF Bus!U_PollingState, BusProofs!U_PollingState
<1>12. QED
  BY <1>1, <1>2, <1>3, <1>4, <1>5, <1>6, <1>7, <1>8, <1>9, <1>10, <1>11
  DEF Bus!Next, BusProofs!Next, Bus!HandlerStep, BusProofs!HandlerStep

\* What is proved of TpTransmit alone.
LEMMA BusCorrect ==
  GatewaySpec => [](Bus!TypeOK /\ Bus!UndisturbedTelegramIsIntact)
<1>1. BusProofs!Spec => []BusProofs!TypeOK
  BY BusAssumption, BusProofs!TypeCorrect
<1>2. BusProofs!Spec => []BusProofs!UndisturbedTelegramIsIntact
  BY BusAssumption, BusProofs!UndisturbedIsIntact
<1>3. Bus!Spec => BusProofs!Spec
  BY SameInit, SameNext, PTL DEF Bus!Spec, BusProofs!Spec
<1>4. BusProofs!TypeOK => Bus!TypeOK
  BY SMTT(40) DEF BusProofs!TypeOK, Bus!TypeOK, BusProofs!Label, Bus!Label,
         BusProofs!Position, Bus!Position, BusProofs!TPDU, Bus!TPDU
<1>5. BusProofs!UndisturbedTelegramIsIntact => Bus!UndisturbedTelegramIsIntact
  BY DEF BusProofs!UndisturbedTelegramIsIntact, Bus!UndisturbedTelegramIsIntact,
         BusProofs!ServicesOf, Bus!ServicesOf, BusProofs!FrameOf, Bus!FrameOf,
         BusProofs!OctetOf, Bus!OctetOf, BusProofs!Octet, Bus!Octet,
         BusProofs!Checksum, Bus!Checksum, BusProofs!Last, Bus!Last,
         BusProofs!TPDU, Bus!TPDU, BusProofs!CEMI_TPDU, Bus!CEMI_TPDU,
         BusProofs!Complete, Bus!Complete,
         BusProofs!U_L_DataStart, Bus!U_L_DataStart,
         BusProofs!U_L_DataContinue, Bus!U_L_DataContinue,
         BusProofs!U_L_DataEnd, Bus!U_L_DataEnd
<1>6. QED
  BY <1>1, <1>2, <1>3, <1>4, <1>5, BusImplemented, PTL

-----------------------------------------------------------------------------
(***************************************************************************)
(* From the request over the way to the bus to the confirmation.           *)
(***************************************************************************)
\* Nothing is carried before the handler is at the label, and overlapped says
\* whatever the way to the bus calls disturbed.
Before(h) ==
  /\ at[h] # "idle" =>
       /\ pc[h] = "tunnel" /\ given[h] = req[h].pdu.data
       /\ mixed[h] => overlapped[h]
       /\ \A g \in Handlers \ {h} : at[g] # "idle" => overlapped[h]
  /\ at[h] = "idle" => ~mixed[h]
  /\ pc[h] \in { "dispatch", "tunnel" } \/ req[h] = NoReq => carried[h] = Nothing
  /\ at[h] = "idle" /\ carried[h] = Nothing => ~overlapped[h]

\* Something else was on the bus too, or the telegram did not come in whole.
Spoilt(h) == overlapped[h] \/ ~Bus!Complete(req[h].pdu.data)

\* After it the telegram is carried, and is the client's unless spoilt.
After(h) ==
  /\ carried[h] # Nothing =>
       /\ req[h].pdu.svc = "TUNNELLING_REQUEST"
       /\ carried[h] = req[h].pdu.data \/ (Spoilt(h) /\ carried[h] = Mixed)
  /\ /\ frame[h] # NoFrame /\ req[h].pdu.svc = "TUNNELLING_REQUEST"
     /\ pc[h] \notin { "dispatch", "tunnel" }
     => carried[h] # Nothing

CarryInv ==
  /\ carried \in [Handlers -> Data \cup { Nothing, Mixed }]
  /\ overlapped \in [Handlers -> BOOLEAN]
  /\ \A h \in Handlers : Before(h) /\ After(h)

\* The invariants of the two sides.
IpInv  == TypeInv /\ ExchangeInv /\ TunnelInv
BusInv == Bus!TypeOK /\ Bus!UndisturbedTelegramIsIntact

LEMMA CarryInit == GatewayInit => CarryInv
<1> SUFFICES ASSUME GatewayInit PROVE CarryInv
  OBVIOUS
<1>1. /\ pc["udp"] = "socket" /\ pc["tcp"] = "bind" /\ req = [h \in Handlers |-> NoReq]
      /\ frame = [t \in Tasks |-> NoFrame] /\ at = [h \in Handlers |-> "idle"]
      /\ carried = [h \in Handlers |-> Nothing] /\ overlapped = [h \in Handlers |-> FALSE]
      /\ mixed = [h \in Handlers |-> FALSE]
  BY DEF GatewayInit, Init, Bus!Init
<1>2. QED
  BY <1>1 DEF CarryInv, Before, After, Spoilt

\* The IP side goes on: nobody leaves the label "tunnel" or gets to it from
\* where something is carried.
LEMMA CarryIpSide ==
  ASSUME IpInv, IpInv', BusInv, CarryInv, IpSide(Next)
  PROVE  CarryInv'
<1>1. PICK t \in Tasks : Moves(t)
  BY NextMoves DEF IpSide, IpInv
<1>2. /\ \A h \in Handlers : pc[h] = "tunnel" => pc'[h] = "tunnel"
      /\ carried' = [h \in Handlers |-> IF req'[h] = NoReq THEN Nothing ELSE carried[h]]
      /\ overlapped' = [h \in Handlers |-> req'[h] # NoReq /\ overlapped[h]]
      /\ UNCHANGED << at, given, mixed >>
  BY DEF IpSide, busVars
<1>3. /\ carried' \in [Handlers -> Data \cup { Nothing, Mixed }]
      /\ overlapped' \in [Handlers -> BOOLEAN]
  BY <1>2 DEF CarryInv
<1>4. ASSUME NEW h \in Handlers, req'[h] = NoReq
      PROVE  Before(h)' /\ After(h)'
  <2>1. pc'[h] # "tunnel"
    BY <1>4 DEF IpInv, TunnelInv
  <2>2. at[h] = "idle" /\ ~mixed[h]
    BY <2>1, <1>2 DEF CarryInv, Before
  <2>3. frame'[h] = NoFrame
    BY <1>4 DEF IpInv, TypeInv, Shape, HandlerShape
  <2>4. QED
    BY <1>2, <1>4, <2>1, <2>2, <2>3 DEF Before, After, Spoilt
<1>5. ASSUME NEW h \in Handlers, req'[h] # NoReq, pc'[h] = pc[h], req'[h] = req[h],
             frame'[h] = frame[h]
      PROVE  Before(h)' /\ After(h)'
  BY <1>2, <1>5 DEF CarryInv, Before, After, Spoilt
<1>6. ASSUME NEW h \in Handlers, req'[h] # NoReq, req[h] # NoReq, h = t
      PROVE  Before(h)' /\ After(h)'
  <2>1. req'[h] = req[h]
    BY <1>1, <1>6 DEF Moves, RequestMoves
  <2>2. /\ pc'[h] = "dispatch" => pc[h] = "dispatch"
        /\ pc'[h] = "tunnel" => pc[h] \in { "dispatch", "tunnel" }
        /\ pc[h] # "dispatch" => frame'[h] = frame[h]
        /\ pc[h] = "dispatch" /\ pc'[h] \notin { "dispatch", "tunnel" } =>
             frame'[h] = NoFrame \/ req[h].pdu.svc # "TUNNELLING_REQUEST"
    BY <1>1, <1>6 DEF Moves, LabelMoves
  <2>3. Before(h)'
    BY <1>2, <1>6, <2>1, <2>2 DEF CarryInv, Before
  <2>4. After(h)'
    BY <1>2, <1>6, <2>1, <2>2 DEF CarryInv, Before, After, Spoilt
  <2>5. QED
    BY <2>3, <2>4
<1>7. ASSUME NEW h \in Handlers, req'[h] # NoReq, req[h] = NoReq, h = t
      PROVE  Before(h)' /\ After(h)'
  <2>1. carried[h] = Nothing /\ at[h] = "idle" /\ ~overlapped[h] /\ ~mixed[h]
    BY <1>7 DEF CarryInv, Before, IpInv, TunnelInv
  <2>2. frame[h] = NoFrame /\ pc[h] # "dispatch"
    BY <1>7 DEF IpInv, TypeInv, Shape, HandlerShape, AtWork
  <2>3. frame'[h] = NoFrame
    BY <1>1, <1>7, <2>2 DEF Moves, LabelMoves
  <2>4. QED
    BY <1>2, <1>7, <2>1, <2>3 DEF Before, After, Spoilt
<1>8. \A h \in Handlers : Before(h)' /\ After(h)'
  BY <1>1, <1>4, <1>5, <1>6, <1>7 DEF Moves
<1>9. QED
  BY <1>3, <1>8 DEF CarryInv

\* A statement of h on the way to the bus.
LEMMA BusMove ==
  ASSUME NEW h \in Handlers, Bus!TypeOK, at[h] # "done", Bus!HandlerStep(h)
  PROVE  /\ given' = given /\ at[h] # "idle" /\ at'[h] # "idle"
         /\ \A g \in Handlers \ {h} : at'[g] = at[g]
         /\ \A g \in Handlers : mixed'[g] => mixed[g] \/ (g # h /\ at[g] # "idle")
<1>0. at \in [Handlers -> Bus!Label] /\ mixed \in [Handlers -> BOOLEAN]
  BY DEF Bus!TypeOK
<1> USE <1>0 DEF Bus!Assign, Bus!Step, Bus!Touch, Bus!buffers
<1>1. CASE Bus!SetControlAndSource(h)
  BY <1>1 DEF Bus!SetControlAndSource
<1>2. CASE Bus!SetDestination(h)
  BY <1>2 DEF Bus!SetDestination
<1>3. CASE Bus!SetLength(h)
  BY <1>3 DEF Bus!SetLength
<1>4. CASE Bus!CopyTpdu(h)
  BY <1>4 DEF Bus!CopyTpdu
<1>5. CASE Bus!AdvanceIndex(h)
  BY <1>5 DEF Bus!AdvanceIndex
<1>6. CASE Bus!SetFCS(h)
  BY <1>6 DEF Bus!SetFCS
<1>7. CASE Bus!CopyFrame(h)
  BY <1>7 DEF Bus!CopyFrame
<1>8. CASE Bus!WriteService(h)
  BY <1>8 DEF Bus!WriteService
<1>9. CASE Bus!Return(h)
  BY <1>9 DEF Bus!Return
<1>10. QED
  BY <1>1, <1>2, <1>3, <1>4, <1>5, <1>6, <1>7, <1>8, <1>9 DEF Bus!HandlerStep

\* A handler sets out, which every handler under way overlaps with.
LEMMA CarryStart ==
  ASSUME IpInv, BusInv, CarryInv, NEW h \in Handlers, StartTunnelling(h)
  PROVE  CarryInv'
<1>1. /\ pc[h] = "tunnel" /\ at[h] = "idle" /\ at' = [at EXCEPT ![h] = "control"]
      /\ given' = [given EXCEPT ![h] = req[h].pdu.data]
      /\ mixed' = [g \in Handlers |-> mixed[g] \/ (g # h /\ at[g] # "idle")]
      /\ UNCHANGED << pc, req, frame, carried >>
  BY DEF StartTunnelling, Bus!Tunnel, Bus!Step, Bus!Touch, vars, session
<1>2. overlapped' = [g \in Handlers |->
                       IF g = h THEN { f \in Handlers \ {h} : at[f] # "idle" } # {}
                       ELSE overlapped[g] \/ g \in { f \in Handlers \ {h} : at[f] # "idle" }]
  BY DEF StartTunnelling
<1>3. at \in [Handlers -> Bus!Label] /\ DOMAIN given = Handlers
  BY DEF BusInv, Bus!TypeOK
<1>4. carried[h] = Nothing
  BY <1>1 DEF CarryInv, Before
<1>5. overlapped' \in [Handlers -> BOOLEAN]
  BY <1>2 DEF CarryInv
<1>6. ASSUME NEW g \in Handlers PROVE Before(g)'
  BY <1>1, <1>2, <1>3, <1>4 DEF CarryInv, Before
<1>7. ASSUME NEW g \in Handlers PROVE After(g)'
  BY <1>1, <1>2, <1>4 DEF CarryInv, After, Spoilt
<1>8. QED
  BY <1>1, <1>5, <1>6, <1>7 DEF CarryInv

LEMMA CarryKeep ==
  ASSUME IpInv, BusInv, CarryInv, NEW h \in Handlers, KeepTunnelling(h)
  PROVE  CarryInv'
<1>1. /\ given' = given /\ at[h] # "idle" /\ at'[h] # "idle"
      /\ \A g \in Handlers \ {h} : at'[g] = at[g]
      /\ \A g \in Handlers : mixed'[g] => mixed[g] \/ (g # h /\ at[g] # "idle")
  BY BusMove DEF KeepTunnelling, BusInv
<1>2. UNCHANGED << pc, req, frame, carried, overlapped >>
  BY DEF KeepTunnelling, vars, session
<1>3. ASSUME NEW g \in Handlers PROVE Before(g)' /\ After(g)'
  BY <1>1, <1>2 DEF CarryInv, Before, After, Spoilt
<1>4. QED
  BY <1>2, <1>3 DEF CarryInv

\* It returns having carried the telegram it was given, if it came in whole and
\* nothing overlapped: that is what TpTransmit promises.
LEMMA CarryReturn ==
  ASSUME IpInv, BusInv, CarryInv, NEW h \in Handlers, ReturnFromTunnelling(h)
  PROVE  CarryInv'
<1>1. /\ pc[h] = "tunnel" /\ \E l \in { "copy", "body", "stray" } : pc' = [pc EXCEPT ![h] = l]
      /\ at[h] = "done" /\ at' = [at EXCEPT ![h] = "idle"]
      /\ given' = [given EXCEPT ![h] = Nothing]
      /\ mixed' = [mixed EXCEPT ![h] = FALSE]
      /\ UNCHANGED << req, frame, overlapped >>
  BY DEF ReturnFromTunnelling, TunnelIP2TP, Bus!Return, Bus!Step
<1>2. carried' = [carried EXCEPT ![h] =
                    IF written[h] = Bus!ServicesOf(req[h].pdu.data)
                    THEN req[h].pdu.data ELSE Mixed]
  BY DEF ReturnFromTunnelling
<1>3. /\ at \in [Handlers -> Bus!Label] /\ mixed \in [Handlers -> BOOLEAN]
      /\ DOMAIN given = Handlers /\ pc \in [Tasks -> UdpLabel \cup TcpLabel \cup RxLabel]
  BY DEF BusInv, Bus!TypeOK, IpInv, TypeInv, TypeOK
<1>4. /\ req[h] # NoReq /\ req[h].pdu.svc = "TUNNELLING_REQUEST"
      /\ req[h].pdu.data \in Data
  BY <1>1, TunnelledData DEF IpInv, TunnelInv
<1>5. carried'[h] # Mixed => carried'[h] = req[h].pdu.data
  BY <1>2 DEF CarryInv
<1>6. carried'[h] = req[h].pdu.data \/ (Spoilt(h) /\ carried'[h] = Mixed)
  <2>1. given[h] = req[h].pdu.data /\ (mixed[h] => overlapped[h])
    BY <1>1 DEF CarryInv, Before
  <2>2. ~mixed[h] /\ Bus!Complete(given[h]) => written[h] = Bus!ServicesOf(given[h])
    BY <1>1 DEF BusInv, Bus!UndisturbedTelegramIsIntact
  <2>3. QED
    BY <1>2, <2>1, <2>2 DEF CarryInv, Spoilt
<1>7. carried'[h] # Nothing
  BY <1>4, <1>6, GatewayAssumption
<1>8. carried' \in [Handlers -> Data \cup { Nothing, Mixed }]
  BY <1>2, <1>4 DEF CarryInv
<1>9. \A g \in Handlers \ {h} : carried'[g] = carried[g] /\ pc'[g] = pc[g]
  BY <1>1, <1>2, <1>3 DEF CarryInv
<1>10. Before(h)' /\ After(h)'
  <2>1. pc'[h] \notin { "dispatch", "tunnel" }
    BY <1>1, <1>3
  <2>2. QED
    BY <1>1, <1>3, <1>4, <1>6, <1>7, <2>1 DEF CarryInv, Before, After, Spoilt
<1>11. ASSUME NEW g \in Handlers \ {h} PROVE Before(g)' /\ After(g)'
  BY <1>1, <1>3, <1>9 DEF CarryInv, Before, After, Spoilt
<1>12. QED
  BY <1>1, <1>8, <1>10, <1>11 DEF CarryInv

LEMMA CarryPoll ==
  ASSUME IpInv, BusInv, CarryInv, PollArrives
  PROVE  CarryInv'
<1>1. /\ overlapped' = [h \in Handlers |-> overlapped[h] \/ at[h] # "idle"]
      /\ mixed' = [h \in Handlers |-> mixed[h] \/ at[h] # "idle"]
      /\ UNCHANGED << pc, req, frame, carried, at, given >>
  BY DEF PollArrives, Bus!U_PollingState, vars, session
<1>2. ASSUME NEW g \in Handlers PROVE Before(g)' /\ After(g)'
  BY <1>1 DEF CarryInv, Before, After, Spoilt
<1>3. QED
  BY <1>1, <1>2 DEF CarryInv

LEMMA CarryNext ==
  IpInv /\ IpInv' /\ BusInv /\ CarryInv /\ [GatewayNext]_gatewayVars => CarryInv'
<1> SUFFICES ASSUME IpInv, IpInv', BusInv, CarryInv, [GatewayNext]_gatewayVars
             PROVE  CarryInv'
  OBVIOUS
<1>1. CASE UNCHANGED gatewayVars
  BY <1>1 DEF gatewayVars, vars, busVars, session, CarryInv, Before, After, Spoilt
<1>2. ASSUME NEW h \in Handlers, Tunnelling(h) PROVE CarryInv'
  BY <1>2, CarryStart, CarryKeep, CarryReturn DEF Tunnelling
<1>3. QED
  BY <1>1, <1>2, CarryIpSide, CarryPoll DEF GatewayNext

LEMMA GatewayInvariant == GatewaySpec => [](IpInv /\ BusInv /\ CarryInv)
<1>1. GatewaySpec => []IpInv
  BY IpGatewayImplemented, IpInvariant, PTL DEF IpInv
<1>2. GatewaySpec => []BusInv
  BY BusCorrect, PTL DEF BusInv
<1>3. QED
  BY <1>1, <1>2, CarryInit, CarryNext, PTL DEF GatewaySpec

\* All variables keep their types.
THEOREM GatewayTypeCorrect == GatewaySpec => []GatewayTypeOK
<1>1. IpInv /\ BusInv /\ CarryInv => GatewayTypeOK
  BY DEF IpInv, BusInv, CarryInv, TypeInv, GatewayTypeOK
<1>2. QED
  BY <1>1, GatewayInvariant, PTL

\* The answer to a tunnelled telegram, and to nothing else.
LEMMA TunnelAnswer ==
  ASSUME NEW h \in Handlers, NEW svc
  PROVE  /\ AnswerService(h, svc) \in { "TUNNELLING_ACK", "L_DATA_CON" } =>
              svc = "TUNNELLING_REQUEST"
         /\ AnswerService(h, "TUNNELLING_REQUEST") =
              IF h = "tcp" THEN "L_DATA_CON" ELSE "TUNNELLING_ACK"
<1>1. AnswerService(h, svc) = "TUNNELLING_ACK" => svc = "TUNNELLING_REQUEST"
  BY DEF AnswerService
<1>2. AnswerService(h, svc) = "L_DATA_CON" => svc = "TUNNELLING_REQUEST"
  BY DEF AnswerService
<1>3. h = "udp" => AnswerService(h, "TUNNELLING_REQUEST") = "TUNNELLING_ACK"
  BY DEF AnswerService
<1>4. h = "tcp" => AnswerService(h, "TUNNELLING_REQUEST") = "L_DATA_CON"
  BY DEF AnswerService
<1>5. QED
  BY <1>1, <1>2, <1>3, <1>4

\* A client that is told its telegram is on the bus is told so after it is, and
\* of its own telegram, if that came in whole and no other task and no other
\* request interfered.
THEOREM ConfirmationTrue == GatewaySpec => []ConfirmationIsTrue
<1>1. ASSUME IpInv, CarryInv, UndisturbedFrameIsIntact PROVE ConfirmationIsTrue
  <2> SUFFICES ASSUME NEW h \in Handlers,
                      pc[h] = "sent", frame[h] # NoFrame,
                      frame[h].svc \in { "TUNNELLING_ACK", "L_DATA_CON" },
                      ~disturbed[h], ~overlapped[h], Bus!Complete(req[h].pdu.data)
               PROVE  /\ carried[h] = req[h].pdu.data
                      /\ sent[h] = Octets([ svc |-> AnswerService(h, "TUNNELLING_REQUEST"),
                                            data |-> IF h = "tcp" THEN carried[h] ELSE Blank ])
    BY DEF ConfirmationIsTrue
  <2>1. frame[h] = Answer(h, req[h].pdu)
    BY <1>1 DEF IpInv, TypeInv, Shape, HandlerShape
  <2>2. frame[h].svc = AnswerService(h, req[h].pdu.svc)
    BY <2>1 DEF Answer
  <2>3. req[h].pdu.svc = "TUNNELLING_REQUEST"
    BY <2>2, TunnelAnswer
  <2>4. carried[h] = req[h].pdu.data
    BY <1>1, <2>3 DEF CarryInv, After, Spoilt
  <2>5. frame[h] = [ svc |-> AnswerService(h, "TUNNELLING_REQUEST"),
                     data |-> IF h = "tcp" THEN req[h].pdu.data ELSE Blank ]
    BY <2>1, <2>3, TunnelAnswer DEF Answer, Echoing
  <2>6. sent[h] = Octets(frame[h])
    BY <1>1 DEF UndisturbedFrameIsIntact
  <2>7. QED
    BY <2>4, <2>5, <2>6
<1>2. GatewaySpec => []UndisturbedFrameIsIntact
  BY IpGatewayImplemented, UndisturbedFramesAreIntact, PTL
<1>3. QED
  BY <1>1, <1>2, GatewayInvariant, PTL

-----------------------------------------------------------------------------
(***************************************************************************)
(* What a client that tunnels is promised.                                 *)
(***************************************************************************)
\* What the client sees of handler h stays as it is.
Still(h) ==
  /\ Phase(h)' = Phase(h) /\ carried'[h] = carried[h]
  /\ overlapped'[h] = overlapped[h]
  /\ Phase(h) # "idle" => req'[h] = req[h]

Asked(h) == IF Phase(h) = "idle" THEN Nothing ELSE req[h].pdu.data

LEMMA PhaseType ==
  ASSUME NEW h PROVE Phase(h) \in { "idle", "carrying", "carried", "confirmed" }
  BY DEF Phase

LEMMA AllStill ==
  ASSUME \A h \in Handlers : Still(h), CarryInv, CarryInv'
  PROVE  UNCHANGED Promise!vars
<1>1. carried' = carried /\ overlapped' = overlapped
  BY DEF Still, CarryInv
<1>2. \A h \in Handlers : Phase(h)' = Phase(h) /\ Asked(h)' = Asked(h)
  BY DEF Still, Asked
<1>3. QED
  BY <1>1, <1>2 DEF Promise!vars, Asked

\* When only handler h moves, what it means for the promise is an update at h.
Update(h) ==
  /\ [g \in Handlers |-> Phase(g)'] = [[g \in Handlers |-> Phase(g)] EXCEPT ![h] = Phase(h)']
  /\ [g \in Handlers |-> Asked(g)'] = [[g \in Handlers |-> Asked(g)] EXCEPT ![h] = Asked(h)']
  /\ carried' = [carried EXCEPT ![h] = carried'[h]]
  /\ overlapped' = [overlapped EXCEPT ![h] = overlapped'[h]]

LEMMA OneMoves ==
  ASSUME NEW h \in Handlers, CarryInv, CarryInv', \A g \in Handlers \ {h} : Still(g)
  PROVE  Update(h)
<1>1. \A g \in Handlers \ {h} : Phase(g)' = Phase(g) /\ Asked(g)' = Asked(g)
  BY DEF Still, Asked
<1>2. /\ carried' = [carried EXCEPT ![h] = carried'[h]]
      /\ overlapped' = [overlapped EXCEPT ![h] = overlapped'[h]]
  BY DEF Still, CarryInv
<1>3. QED
  BY <1>1, <1>2 DEF Update

LEMMA SameFunction ==
  ASSUME NEW S, NEW T, NEW f \in [S -> T], NEW g, NEW x,
         g = [f EXCEPT ![x] = g[x]], g[x] = f[x]
  PROVE  g = f
  OBVIOUS

LEMMA ConfirmMove ==
  ASSUME NEW h \in Handlers, Update(h), Phase(h) = "carried", Phase(h)' = "confirmed",
         req'[h] = req[h], carried'[h] = carried[h], overlapped'[h] = overlapped[h],
         CarryInv
  PROVE  Promise!Confirm(h)
<1>1. Asked(h)' = Asked(h)
  BY DEF Asked
<1>2. carried' = carried /\ overlapped' = overlapped
  <2>1. overlapped \in [Handlers -> BOOLEAN]
    BY DEF CarryInv
  <2>2. overlapped' = [overlapped EXCEPT ![h] = overlapped'[h]]
    BY DEF Update
  <2>3. carried \in [Handlers -> Data \cup { Nothing, Mixed }]
    BY DEF CarryInv
  <2>4. carried' = [carried EXCEPT ![h] = carried'[h]]
    BY DEF Update
  <2>5. overlapped' = overlapped
    BY <2>1, <2>2, SameFunction
  <2>6. carried' = carried
    BY <2>3, <2>4, SameFunction
  <2>7. QED
    BY <2>5, <2>6
<1>3. QED
  BY <1>1, <1>2 DEF Promise!Confirm, Promise!Goto, Asked, Update

LEMMA FinishMove ==
  ASSUME NEW h \in Handlers, Update(h),
         Phase(h) = "confirmed" \/ (h = "tcp" /\ Phase(h) = "carried"),
         Phase(h)' = "idle", carried'[h] = Nothing, overlapped'[h] = FALSE
  PROVE  Promise!Finish(h)
<1>1. Asked(h)' = Nothing
  BY DEF Asked
<1>2. QED
  BY <1>1 DEF Promise!Finish, Promise!Goto, Asked, Update

LEMMA CarryMove ==
  ASSUME NEW h \in Handlers, Update(h),
         Phase(h) = "carrying", Phase(h)' = "carried",
         req'[h] = req[h], overlapped'[h] = overlapped[h], CarryInv,
         \/ carried'[h] = req[h].pdu.data
         \/ Spoilt(h) /\ carried'[h] = Mixed
  PROVE  Promise!Carry(h)
<1>1. Asked(h)' = Asked(h) /\ Asked(h) = req[h].pdu.data
  BY DEF Asked
<1>2. overlapped' = overlapped
  <2>1. overlapped \in [Handlers -> BOOLEAN]
    BY DEF CarryInv
  <2>2. overlapped' = [overlapped EXCEPT ![h] = overlapped'[h]]
    BY DEF Update
  <2>3. QED
    BY <2>1, <2>2, SameFunction
<1>3. [g \in Handlers |-> Asked(g)][h] = req[h].pdu.data
  BY <1>1
<1>4. carried'[h] \in { [g \in Handlers |-> Asked(g)][h] }
                        \cup (IF \/ overlapped[h]
                                  \/ [g \in Handlers |-> Asked(g)][h]
                                       \notin { t \in Data : Bus!Complete(t) }
                              THEN { Mixed } ELSE {})
  BY <1>3 DEF Spoilt
<1>5. QED
  BY <1>1, <1>2, <1>4, ZenonT(60) DEF Promise!Carry, Promise!Goto, Asked, Update

\* A step of the IP side: an answer, or the end of a request.
LEMMA PromiseIpSide ==
  ASSUME IpInv, CarryInv, CarryInv', IpSide(Next)
  PROVE  [Promise!Next]_(Promise!vars)
<1>1. PICK t \in Tasks : Moves(t)
  BY NextMoves DEF IpSide, IpInv
<1>2. /\ \A h \in Handlers : pc[h] = "tunnel" => pc'[h] = "tunnel"
      /\ \A h \in Handlers : carried'[h] = IF req'[h] = NoReq THEN Nothing ELSE carried[h]
      /\ \A h \in Handlers :
           overlapped'[h] = IF req'[h] = NoReq THEN FALSE ELSE overlapped[h]
      /\ at' = at
  <2>1. \A h \in Handlers : overlapped'[h] = (req'[h] # NoReq /\ overlapped[h])
    BY DEF IpSide
  <2>2. \A h \in Handlers : overlapped[h] \in BOOLEAN
    BY DEF CarryInv
  <2>3. QED
    BY <2>1, <2>2 DEF IpSide, busVars
<1>3. \A h \in Handlers :
        /\ req[h] = NoReq => carried[h] = Nothing
        /\ at[h] = "idle" /\ carried[h] = Nothing => overlapped[h] = FALSE
        /\ at[h] # "idle" => pc[h] = "tunnel" /\ req[h] # NoReq
  BY DEF CarryInv, Before, IpInv, TunnelInv
<1>4. ASSUME NEW h \in Handlers, req'[h] = req[h], sent'[h] = sent[h]
      PROVE  Still(h)
  BY <1>2, <1>3, <1>4 DEF Still, Phase
<1>5. \A h \in Handlers \ {t} : Still(h)
  BY <1>1, <1>4 DEF Moves
<1>6. CASE t = "rx" \/ Still(t)
  BY <1>5, <1>6, AllStill
<1>7. CASE t \in Handlers /\ ~Still(t)
  <2>1. Update(t) /\ RequestMoves(t)
    BY <1>1, <1>5, <1>7, OneMoves DEF Moves
  <2>2. CASE /\ req[t] = NoReq /\ sent'[t] = sent[t]
             /\ req'[t] # NoReq /\ req'[t].pdu \in Requested
    BY <1>2, <1>3, <1>7, <2>2 DEF Still, Phase
  <2>3. CASE /\ req'[t] = req[t] /\ sent'[t] # << >> /\ pc[t] \in { "out", "send" }
    <3>1. carried'[t] = carried[t] /\ overlapped'[t] = overlapped[t] /\ at[t] = "idle"
      BY <1>2, <1>3, <1>7, <2>3
    <3>2. Phase(t) = "carried" /\ Phase(t)' = "confirmed"
      BY <1>2, <1>7, <2>3, <3>1 DEF Still, Phase
    <3>3. QED
      BY <1>7, <2>1, <2>3, <3>1, <3>2, ConfirmMove DEF Promise!Next, Promise!Answer
  <2>4. CASE /\ req'[t] = NoReq /\ sent'[t] = << >>
             /\ \/ pc[t] \in { "sent", "dispatch" }
                \/ t = "tcp" /\ pc[t] \in { "check", "send" }
    <3>1. at[t] = "idle" /\ carried'[t] = Nothing /\ overlapped'[t] = FALSE
      BY <1>2, <1>3, <1>7, <2>4
    <3>2. Phase(t)' = "idle" /\ Phase(t) # "idle"
      BY <1>2, <1>3, <1>7, <2>4, <3>1 DEF Still, Phase
    <3>3. pc[t] # "dispatch"
      BY <1>7, <3>1, <3>2 DEF Phase, CarryInv, Before
    <3>4. t = "tcp" \/ sent[t] # << >>
      BY <1>7, <2>4, <3>3 DEF IpInv, TunnelInv
    <3>5. Phase(t) = "confirmed" \/ (t = "tcp" /\ Phase(t) = "carried")
      BY <3>1, <3>2, <3>4 DEF Phase
    <3>6. QED
      BY <1>7, <2>1, <3>1, <3>2, <3>5, FinishMove DEF Promise!Next, Promise!Answer
  <2>5. QED
    BY <1>4, <1>7, <2>1, <2>2, <2>3, <2>4 DEF RequestMoves
<1>8. QED
  BY <1>6, <1>7

\* A handler sets out with the telegram of its request.
LEMMA PromiseStart ==
  ASSUME IpInv, BusInv, CarryInv, CarryInv', NEW h \in Handlers, StartTunnelling(h)
  PROVE  Promise!Next
<1>1. /\ pc[h] = "tunnel" /\ at[h] = "idle" /\ at' = [at EXCEPT ![h] = "control"]
      /\ UNCHANGED << req, sent, carried >>
  BY DEF StartTunnelling, Bus!Tunnel, Bus!Step, vars, wire
<1>2. req[h].pdu.data \in Data /\ carried[h] = Nothing
  BY <1>1, TunnelledData DEF IpInv, TunnelInv, CarryInv, Before
<1>3. at \in [Handlers -> Bus!Label]
  BY DEF BusInv, Bus!TypeOK
<1>4. Phase(h) = "idle" /\ Phase(h)' = "carrying" /\ Asked(h)' = req[h].pdu.data
  BY <1>1, <1>2, <1>3 DEF Phase, Asked
<1>5. \A g \in Handlers \ {h} : Phase(g)' = Phase(g) /\ Asked(g)' = Asked(g)
  BY <1>1, <1>3 DEF Phase, Asked
<1>6. { f \in Handlers \ {h} : at[f] # "idle" } =
        { f \in Handlers \ {h} : [g \in Handlers |-> Phase(g)][f] = "carrying" }
  BY DEF Phase
<1>7. PICK d \in Data : d = req[h].pdu.data
  BY <1>2
<1>8. Promise!Ask(h, d)
  <2>1. Promise!Goto(h, "idle", "carrying")
    BY <1>4, <1>5 DEF Promise!Goto
  <2>2. [g \in Handlers |-> Asked(g)'] =
          [[g \in Handlers |-> Asked(g)] EXCEPT ![h] = d]
    BY <1>4, <1>5, <1>7
  <2>3. overlapped' = [g \in Handlers |->
                         IF g = h THEN { f \in Handlers \ {h} : at[f] # "idle" } # {}
                         ELSE \/ overlapped[g]
                              \/ g \in { f \in Handlers \ {h} : at[f] # "idle" }]
    BY DEF StartTunnelling
  <2>4. QED
    BY <1>1, <1>6, <2>1, <2>2, <2>3, ZenonT(60) DEF Promise!Ask, Asked
<1>9. QED
  BY <1>8 DEF Promise!Next

\* On its way it is nothing the promise speaks of.
LEMMA PromiseKeep ==
  ASSUME IpInv, BusInv, CarryInv, CarryInv', NEW h \in Handlers, KeepTunnelling(h)
  PROVE  UNCHANGED Promise!vars
<1>1. /\ at[h] # "idle" /\ at'[h] # "idle"
      /\ \A g \in Handlers \ {h} : at'[g] = at[g]
  BY BusMove DEF KeepTunnelling, BusInv
<1>2. UNCHANGED << req, sent, carried, overlapped >>
  BY DEF KeepTunnelling, vars, wire
<1>3. \A g \in Handlers : Still(g)
  BY <1>1, <1>2 DEF Still, Phase
<1>4. QED
  BY <1>3, AllStill

LEMMA PromiseReturn ==
  ASSUME IpInv, BusInv, CarryInv, CarryInv', NEW h \in Handlers,
         ReturnFromTunnelling(h)
  PROVE  Promise!Next
<1>1. /\ pc[h] = "tunnel" /\ at[h] = "done" /\ at' = [at EXCEPT ![h] = "idle"]
      /\ UNCHANGED << req, sent, overlapped >>
      /\ carried' = [carried EXCEPT ![h] =
                       IF written[h] = Bus!ServicesOf(req[h].pdu.data)
                       THEN req[h].pdu.data ELSE Mixed]
  BY DEF ReturnFromTunnelling, TunnelIP2TP, Bus!Return, Bus!Step, wire
<1>2. /\ at \in [Handlers -> Bus!Label] /\ pc \in [Tasks -> UdpLabel \cup TcpLabel \cup RxLabel]
  BY DEF BusInv, Bus!TypeOK, IpInv, TypeInv, TypeOK
<1>3. /\ req[h] # NoReq /\ req[h].pdu.data \in Data
      /\ sent[h] = << >>
  BY <1>1, TunnelledData DEF IpInv, TunnelInv, ExchangeInv, QuietInv
<1>4. carried'[h] = req[h].pdu.data \/ (Spoilt(h) /\ carried'[h] = Mixed)
  <2>1. carried'[h] \in { req[h].pdu.data, Mixed }
    BY <1>1 DEF CarryInv
  <2>2. carried'[h] # Nothing
    BY <1>3, <2>1, GatewayAssumption
  <2>3. QED
    BY <1>1, <2>2 DEF CarryInv, After, Spoilt
<1>5. carried'[h] # Nothing
  BY <1>3, <1>4, GatewayAssumption
<1>6. \A g \in Handlers \ {h} : Still(g)
  BY <1>1, <1>2 DEF Still, Phase, CarryInv
<1>7. Update(h)
  BY <1>6, OneMoves
<1>8. Phase(h) = "carrying" /\ Phase(h)' = "carried"
  BY <1>1, <1>2, <1>3, <1>5 DEF Phase
<1>9. Promise!Carry(h)
  BY <1>1, <1>4, <1>7, <1>8, CarryMove
<1>10. QED
  BY <1>9 DEF Promise!Next, Promise!Answer

LEMMA PromisePoll ==
  ASSUME CarryInv, CarryInv', PollArrives
  PROVE  Promise!Next
<1>1. /\ overlapped' = [h \in Handlers |-> overlapped[h] \/ at[h] # "idle"]
      /\ UNCHANGED << req, sent, carried, at >>
  BY DEF PollArrives, Bus!U_PollingState, vars, wire
<1>2. \A h \in Handlers : Phase(h)' = Phase(h) /\ Asked(h)' = Asked(h)
  BY <1>1 DEF Phase, Asked
<1>3. overlapped' = [h \in Handlers |->
                       overlapped[h] \/ [g \in Handlers |-> Phase(g)][h] = "carrying"]
  BY <1>1 DEF Phase
<1>4. Promise!Poll
  BY <1>1, <1>2, <1>3 DEF Promise!Poll, Asked
<1>5. QED
  BY <1>4 DEF Promise!Next

\* Every tunnelled telegram is put on the bus before its client is sent
\* anything, once, and as the client sent it unless the bus was in use for
\* something else too or it did not come in whole: the safety half of TunnelExchangeKept.
THEOREM TunnelExchangeImplemented == GatewaySpec => Promise!Spec
<1>1. ASSUME GatewayInit PROVE Promise!Init
  <2>1. /\ at = [h \in Handlers |-> "idle"]
        /\ carried = [h \in Handlers |-> Nothing] /\ overlapped = [h \in Handlers |-> FALSE]
    BY <1>1 DEF GatewayInit, Bus!Init
  <2>2. QED
    BY <2>1 DEF Promise!Init, Phase
<1>2. ASSUME IpInv, BusInv, CarryInv, CarryInv', [GatewayNext]_gatewayVars
      PROVE  [Promise!Next]_(Promise!vars)
  <2>1. CASE UNCHANGED gatewayVars
    <3>1. UNCHANGED << at, req, sent, carried, overlapped >>
      BY <2>1 DEF gatewayVars, busVars, vars, wire
    <3>2. \A h \in Handlers : Still(h)
      BY <3>1 DEF Still, Phase
    <3>3. QED
      BY <1>2, <3>2, AllStill
  <2>2. ASSUME NEW h \in Handlers, Tunnelling(h)
        PROVE  [Promise!Next]_(Promise!vars)
    BY <1>2, <2>2, PromiseStart, PromiseKeep, PromiseReturn DEF Tunnelling
  <2>3. QED
    BY <1>2, <2>1, <2>2, PromiseIpSide, PromisePoll DEF GatewayNext
<1>3. QED
  BY <1>1, <1>2, GatewayInvariant, PTL DEF GatewaySpec, Promise!Spec

-----------------------------------------------------------------------------
(***************************************************************************)
(* What was proved of either side alone.                                   *)
(***************************************************************************)
\* The way to the bus in the middle of the handlers, which other tasks go on
\* during, breaks none of the promises of the IP side.
THEOREM IpSideCorrect ==
  GatewaySpec =>
    /\ [](EstablishedIsConnected /\ UndisturbedFrameIsIntact /\ SendsOnlyWritten)
    /\ UdpExchangeKept /\ TcpExchangeKept
    /\ [](TcpSendsItsAnswer \/ ~Answered("tcp", req["tcp"].pdu))
  BY IpGatewayImplemented, EstablishedStaysConnected, UndisturbedFramesAreIntact,
     OnlyWrittenIsSent, UdpExchangeImplemented, TcpExchangeImplemented, UnansweredOnly, PTL

\* Nor do the tasks around it change what TpTransmit alone promises: a complete
\* telegram nobody disturbs is written to the UART service by service as it should
\* be, and a source address that is not the gateway's is a checksum that a large
\* length field put there.
THEOREM BusSideCorrect ==
  GatewaySpec => [](Bus!UndisturbedTelegramIsIntact /\ Bus!SourceIsGateway)
<1>1. BusProofs!Spec => []BusProofs!SourceIsGateway
  BY BusAssumption, BusProofs!SourceKept
<1>2. Bus!Spec => BusProofs!Spec
  BY SameInit, SameNext, PTL DEF Bus!Spec, BusProofs!Spec
<1>3. BusProofs!SourceIsGateway => Bus!SourceIsGateway
  BY SameOffsets
  DEF BusProofs!SourceIsGateway, Bus!SourceIsGateway, BusProofs!Octet, Bus!Octet,
      BusProofs!LengthOwners, Bus!LengthOwners, BusProofs!ChecksumAt,
      Bus!ChecksumAt, BusProofs!Last, Bus!Last
<1>4. QED
  BY <1>1, <1>2, <1>3, BusCorrect, BusImplemented, PTL
=============================================================================
