---------------------------- MODULE IpGatewayProofs ----------------------------
(***************************************************************************)
(* Proofs about IpGateway, for every set of clients, requests, telegrams   *)
(* and descriptors, every frame length and every buffer size.              *)
(***************************************************************************)
EXTENDS IpGateway, TLAPS

USE SegCountAssumption

-----------------------------------------------------------------------------
(***************************************************************************)
(* Frames.                                                                 *)
(***************************************************************************)
\* A frame fits the buffer, whatever its service.
LEMMA FrameLength ==
  ASSUME NEW f \in Frame
  PROVE  SegCount[f.svc] \in Nat /\ SegCount[f.svc] >= 2 /\ SegCount[f.svc] <= MaxSegs
BY DEF Frame

\* The answer to a request is a frame, and so is what an L_Data.con is patched
\* from.
LEMMA AnswerIsFrame ==
  ASSUME NEW t, NEW r \in Request
  PROVE  Answer(t, r) \in Frame /\ Answer(t, r).svc = AnswerService(t, r.svc)
<1>1. AnswerService(t, r.svc) \in FrameService
  BY DEF AnswerService, FrameService, Request
<1>2. r.data \in Payload /\ Blank \in Payload
  BY DEF Request, Payload
<1> QED
  BY <1>1, <1>2 DEF Answer, Frame

\* The request an L_Data.con is copied from is a frame too.
LEMMA UnpatchedIsFrame ==
  ASSUME NEW f \in Frame
  PROVE  Unpatched(f) \in Frame
BY DEF Unpatched, Frame, FrameService

\* Every segment of a frame may be in IP_TxBuffer, and is not "unwritten".
LEMMA SegmentIsContent ==
  ASSUME NEW f \in Frame, NEW i \in 0 .. MaxSegs - 1
  PROVE  Segment(f, i) \in Content /\ Segment(f, i) # Unwritten
BY IpGatewayAssumption DEF Content, Octet

\* The frames of the receive task.
LEMMA BusFrame ==
  ASSUME NEW d \in Data, NEW svc \in { "L_DATA_IND", "T_ACK" }
  PROVE  [ svc |-> svc, data |-> d ] \in Frame
BY DEF Frame, FrameService, Payload

\* Store leaves a buffer a buffer.
LEMMA StoreType ==
  ASSUME IP_TxBuffer \in [0 .. MaxSegs - 1 -> Content],
         NEW f \in Frame, NEW segments, Store(segments, f)
  PROVE  IP_TxBuffer' \in [0 .. MaxSegs - 1 -> Content]
BY SegmentIsContent DEF Store

\* What is read from the start of the buffer is a sequence of its contents.
LEMMA PrefixType ==
  ASSUME IP_TxBuffer \in [0 .. MaxSegs - 1 -> Content], NEW n \in 0 .. MaxSegs
  PROVE  [k \in 1 .. n |-> IP_TxBuffer[k - 1]] \in Seq(Content \cup {Outside})
<1>1. \A k \in 1 .. n : IP_TxBuffer[k - 1] \in Content \cup {Outside}
  OBVIOUS
<1>2. [k \in 1 .. n |-> IP_TxBuffer[k - 1]] \in [1 .. n -> Content \cup {Outside}]
  BY <1>1
<1>3. n \in Nat
  OBVIOUS
<1> QED
  BY <1>2, <1>3

\* The book-keeping of `disturbed` keeps its type.
LEMMA TouchType ==
  ASSUME disturbed \in [Tasks -> BOOLEAN], NEW t, Touch(t) \/ FirstTouch(t)
  PROVE  disturbed' \in [Tasks -> BOOLEAN]
<1>1. CASE Touch(t)
  BY <1>1 DEF Touch
<1>2. CASE FirstTouch(t)
  BY <1>2 DEF FirstTouch
<1> QED
  BY <1>1, <1>2

-----------------------------------------------------------------------------
(***************************************************************************)
(* Type correctness.  TypeOK is not inductive: an action that writes a     *)
(* frame needs to know that its task has one.  Shape says what each label  *)
(* implies about the task's locals and about the sockets.                  *)
(***************************************************************************)
AtWork == { "dispatch", "tunnel", "copy", "patch", "stray", "body", "head",
            "flag", "out", "check", "send", "sent" }

HandlerShape ==
  \A h \in Handlers :
    /\ req[h] = NoReq <=> pc[h] \notin AtWork
    /\ frame[h] # NoFrame =>
         /\ req[h] # NoReq
         /\ Answered(h, req[h].pdu)
         /\ frame[h] = Answer(h, req[h].pdu)
    /\ pc[h] \in { "copy", "patch", "body", "head", "flag", "out" } =>
         frame[h] # NoFrame
    /\ pc[h] = "tunnel" /\ frame[h] = NoFrame => Unlengthed(h, req[h].pdu)
    /\ pc[h] = "stray" => frame[h] = NoFrame /\ Unlengthed(h, req[h].pdu)

RxShape ==
  /\ frame["rx"] = NoFrame <=> pc["rx"] \in { "read", "confirm" }
  /\ pc["rx"] # "read" => telegram \in Telegrams

SocketShape ==
  /\ conn = NoConn <=> pc["tcp"] \in { "bind", "accept", "deleted" }
  /\ pc["udp"] # "socket" => KNXnetIP_MulticastSocket = "open"
  /\ pc["udp"] = "sent" => frame["udp"] # NoFrame

Shape == HandlerShape /\ RxShape /\ SocketShape

TypeInv == TypeOK /\ Shape

USE DEF Tasks, Handlers, Senders, Goto

\* The tasks start with nothing written and nothing under way.
LEMMA TypeInvInit == Init => TypeInv
<1> SUFFICES ASSUME Init PROVE TypeInv
  OBVIOUS
<1>1. sent \in [Tasks -> Seq(Content \cup {Outside})]
  <2>1. << >> \in Seq(Content \cup {Outside})
    OBVIOUS
  <2> QED
    BY <2>1 DEF Init
<1>2. IP_TxBuffer \in [0 .. MaxSegs - 1 -> Content]
  BY DEF Init, Content
<1>3. TypeOK
  <2>1. /\ pc \in [Tasks -> UdpLabel \cup TcpLabel \cup RxLabel]
        /\ pc["udp"] \in UdpLabel /\ pc["tcp"] \in TcpLabel
        /\ pc["rx"] \in RxLabel
    BY DEF Init, UdpLabel, TcpLabel, RxLabel
  <2>2.   /\ req \in [Handlers -> Received \cup {NoReq}]
  /\ frame \in [Tasks -> Frame \cup {NoFrame}]
    BY DEF Init
  <2>3.   /\ Tcp_TxLength \in 0 .. MaxSegs
  /\ to_write \in [Senders -> 0 .. MaxSegs]
    BY DEF Init
  <2>4.  /\ KNXnetIP_Connected \in BOOLEAN
  /\ KNXnetIP_TcpSock \in Fds \cup {NoFd}
  /\ KNXnetIP_MulticastSocket \in { "none", "open", "closed" }
  /\ conn \in [ fd : Fds, peer : TcpPeers ] \cup {NoConn}
  /\ rxSock \in Fds \cup {NoFd}
  /\ telegram \in Telegrams \cup {NoTelegram}
  /\ conf \in BOOLEAN BY DEF Init
  <2>5.  sentTo \in [Tasks -> SUBSET (UdpClients \cup TcpPeers)] BY DEF Init
  <2>6. disturbed \in [Tasks -> BOOLEAN]
  /\ established \subseteq UdpClients \cup TcpPeers
  /\ rival \in [Handlers -> BOOLEAN] BY DEF Init
  <2> QED BY <1>1, <1>2, <2>1, <2>2, <2>3, <2>4, <2>5, <2>6 DEF TypeOK
<1>4. Shape
  BY DEF Init, Shape, HandlerShape, RxShape, SocketShape, AtWork
<1> QED
  BY <1>3, <1>4 DEF TypeInv

\* Every step keeps the types and what each label says of the frame, the
\* request and the sockets of its task.
LEMMA TypeInvNext == TypeInv /\ [Next]_vars => TypeInv'
<1> SUFFICES ASSUME TypeInv, [Next]_vars PROVE TypeInv'
  OBVIOUS
<1> USE IpGatewayAssumption, FrameLength, AnswerIsFrame, UnpatchedIsFrame,
        SegmentIsContent
    DEF TypeInv, TypeOK, Shape, HandlerShape, RxShape, SocketShape,
       UdpLabel, TcpLabel, RxLabel, AtWork, shared, sockets, rxLocals, session, wire
<1>1. CASE CreateSocket
  BY <1>1 DEF CreateSocket
<1>2. CASE CreateSocketFails
  BY <1>2 DEF CreateSocketFails
<1>3. CASE SelectFails
  BY <1>3 DEF SelectFails
<1>4. CASE Restart
  BY <1>4 DEF Restart
<1>5. ASSUME NEW c \in UdpClients, NEW r \in UdpRequests[c], RecvFrom(c, r) PROVE TypeInv'
  BY <1>5 DEF RecvFrom, Receive, Received
<1>6. ASSUME NEW r \in TcpRequests, Recv(r) PROVE TypeInv'
  BY <1>6 DEF Recv, Receive, Received
<1>7. CASE RecvEnds
  BY <1>7 DEF RecvEnds
<1>8. CASE Listen
  BY <1>8 DEF Listen
<1>9. CASE ServerFails
  BY <1>9 DEF ServerFails
<1>10. ASSUME NEW p \in TcpPeers, NEW fd \in Fds, Accept(p, fd) PROVE TypeInv'
  BY <1>10 DEF Accept, Touch
<1>11. CASE PublishSocket
  BY <1>11 DEF PublishSocket, Touch
<1>12. CASE CloseConnection
  BY <1>12 DEF CloseConnection, Touch
<1>13. ASSUME NEW h \in Handlers, Dispatch(h) PROVE TypeInv'
  BY <1>13 DEF Dispatch, Received
<1>14. ASSUME NEW h \in Handlers, Ignore(h) PROVE TypeInv'
  BY <1>14 DEF Ignore, Caller
<1>15. ASSUME NEW h \in Handlers, TunnelIP2TP(h) PROVE TypeInv'
  <2>1. CASE h = "udp"
    <3>1. frame["udp"] # NoFrame
      BY <1>15, <2>1 DEF TunnelIP2TP, Unlengthed
    <3> QED
      BY <1>15, <2>1, <3>1 DEF TunnelIP2TP
  <2>2. CASE h = "tcp" /\ frame["tcp"] = NoFrame
    <3>1. Unlengthed("tcp", req["tcp"].pdu)
      BY <1>15, <2>2 DEF TunnelIP2TP
    <3> QED
      BY <1>15, <2>2, <3>1 DEF TunnelIP2TP
  <2>3. CASE h = "tcp" /\ frame["tcp"] # NoFrame
    BY <1>15, <2>3 DEF TunnelIP2TP
  <2> QED
    BY <2>1, <2>2, <2>3
<1>16. ASSUME NEW t \in Tasks, WriteBody(t) PROVE TypeInv'
  <2>1. frame[t] \in Frame
    BY <1>16 DEF WriteBody
  <2>2. IP_TxBuffer' \in [0 .. MaxSegs - 1 -> Content]
    BY <1>16, <2>1, StoreType DEF WriteBody
  <2>3. disturbed' \in [Tasks -> BOOLEAN]
    BY <1>16, TouchType DEF WriteBody
  <2> QED
    BY <1>16, <2>2, <2>3 DEF WriteBody
<1>17. ASSUME NEW t \in Tasks, WriteHeader(t) PROVE TypeInv'
  <2>1. frame[t] \in Frame
    BY <1>17 DEF WriteHeader
  <2>2. IP_TxBuffer' \in [0 .. MaxSegs - 1 -> Content]
    BY <1>17, <2>1, StoreType DEF WriteHeader
  <2>3. disturbed' \in [Tasks -> BOOLEAN]
    BY <1>17, TouchType DEF WriteHeader
  <2> QED
    BY <1>17, <2>2, <2>3 DEF WriteHeader
<1>18. CASE CopyRequest
  BY <1>18 DEF CopyRequest, Header, Body, FirstTouch
<1>19. CASE PatchRequest
  <2>1. frame["tcp"] \in Frame
    BY <1>19 DEF PatchRequest
  <2>2. IP_TxBuffer' \in [0 .. MaxSegs - 1 -> Content]
    BY <1>19, <2>1 DEF PatchRequest, Content
  <2>3. disturbed' \in [Tasks -> BOOLEAN]
    BY <1>19, TouchType DEF PatchRequest
  <2> QED
    BY <1>19, <2>2, <2>3 DEF PatchRequest
<1>20. ASSUME NEW h \in Handlers, SetConnected(h) PROVE TypeInv'
  BY <1>20 DEF SetConnected
<1>21. CASE UDPSend
  <2>1. frame["udp"] \in Frame /\ req["udp"] \in Received
    BY <1>21 DEF UDPSend
  <2>2. [k \in 1 .. SegCount[frame["udp"].svc] |-> IP_TxBuffer[k - 1]]
          \in Seq(Content \cup {Outside})
    <3>1. SegCount[frame["udp"].svc] \in 0 .. MaxSegs
      BY <2>1
    <3>2. IP_TxBuffer \in [0 .. MaxSegs - 1 -> Content]
      OBVIOUS
    <3> QED
      BY ONLY <3>1, <3>2, PrefixType
  <2>3. sent' \in [Tasks -> Seq(Content \cup {Outside})]
    BY <1>21, <2>2 DEF UDPSend
  <2>4. sentTo' \in [Tasks -> SUBSET (UdpClients \cup TcpPeers)]
    BY <1>21, <2>1 DEF UDPSend, Received
  <2>5. established' \subseteq UdpClients \cup TcpPeers
    BY <1>21, <2>1 DEF UDPSend, Answering, Received
  <2> QED
    BY <1>21, <2>3, <2>4, <2>5 DEF UDPSend
<1>22. ASSUME NEW s \in Senders, TcpUpdateTxBuffer(s) PROVE TypeInv'
  BY <1>22 DEF TcpUpdateTxBuffer, Touch
<1>23. ASSUME NEW s \in Senders, StartSend(s) PROVE TypeInv'
  BY <1>23 DEF StartSend
<1>24. ASSUME NEW s \in Senders, NothingToSend(s) PROVE TypeInv'
  BY <1>24 DEF NothingToSend, Clear, Caller
<1>25. ASSUME NEW s \in Senders, NEW n \in 1 .. MaxSegs, SendPart(s, n) PROVE TypeInv'
  <2>1. conn \in [ fd : Fds, peer : TcpPeers ]
    BY <1>25 DEF SendPart, Open
  <2>2. DEFINE part == [k \in 1 .. n |-> Memory(Tcp_TxLength - to_write[s] + k - 1)]
  <2>3. part \in Seq(Content \cup {Outside})
    BY DEF Memory
  <2>4. sent' \in [Tasks -> Seq(Content \cup {Outside})]
    BY <1>25, <2>3 DEF SendPart
  <2>5. sentTo' \in [Tasks -> SUBSET (UdpClients \cup TcpPeers)]
    BY <1>25, <2>1 DEF SendPart
  <2>6. to_write' \in [Senders -> 0 .. MaxSegs]
    BY <1>25 DEF SendPart
  <2>7. established' \subseteq UdpClients \cup TcpPeers
    BY <1>25 DEF SendPart, Answering, Received
  <2>8. disturbed' \in [Tasks -> BOOLEAN]
    BY <1>25, TouchType DEF SendPart
  <2>9. pc' = pc \/ pc' = [pc EXCEPT ![s] = "sent"]
    BY <1>25 DEF SendPart
  <2> QED
    BY <1>25, <2>4, <2>5, <2>6, <2>7, <2>8, <2>9, SMTT(40) DEF SendPart
<1>26. ASSUME NEW s \in Senders, SendFails(s) PROVE TypeInv'
  BY <1>26 DEF SendFails, Clear, Caller
<1>27. ASSUME NEW t \in Tasks, Return(t) PROVE TypeInv'
  BY <1>27 DEF Return, Clear, Caller
<1>28. ASSUME NEW d \in Telegrams, NEW c \in BOOLEAN, ReadTelegram(d, c) PROVE TypeInv'
  <2>1. [ svc |-> "L_DATA_IND", data |-> d ] \in Frame
    BY BusFrame
  <2>2. frame' = frame \/ frame' = [frame EXCEPT !["rx"] = [ svc |-> "L_DATA_IND", data |-> d ]]
    BY <1>28 DEF ReadTelegram
  <2>3. frame' \in [Tasks -> Frame \cup {NoFrame}]
    BY <2>1, <2>2
  <2>4. conf' \in BOOLEAN
    BY <1>28 DEF ReadTelegram
  <2>5. pc["rx"] = "read" /\ telegram' = d
        /\ UNCHANGED << req, shared, sockets, rxSock, session, wire, disturbed >>
    BY <1>28 DEF ReadTelegram
  <2>6. \/ /\ frame' = [frame EXCEPT !["rx"] = [ svc |-> "L_DATA_IND", data |-> d ]]
           /\ pc' = [pc EXCEPT !["rx"] = "head"]
        \/ frame' = frame /\ pc' = [pc EXCEPT !["rx"] = "confirm"]
    BY <1>28 DEF ReadTelegram
  <2> QED
    BY <2>1, <2>3, <2>4, <2>5, <2>6
<1>29. CASE PassSocket
  BY <1>29 DEF PassSocket
<1>30. CASE Confirm
  <2>1. telegram \in Data
    BY <1>30 DEF Confirm
  <2>2. [ svc |-> "T_ACK", data |-> telegram ] \in Frame
    BY <2>1, BusFrame
  <2>3. conf' \in BOOLEAN
    BY <1>30 DEF Confirm
  <2>4. /\ pc["rx"] = "confirm"
        /\ frame' = [frame EXCEPT !["rx"] = [ svc |-> "T_ACK", data |-> telegram ]]
        /\ pc' = [pc EXCEPT !["rx"] = "head"]
        /\ UNCHANGED << req, shared, sockets, rxSock, telegram, session, wire, disturbed >>
    BY <1>30 DEF Confirm
  <2> QED
    BY <2>2, <2>3, <2>4
<1>31. CASE TelegramDone
  BY <1>31 DEF TelegramDone
<1>37. CASE DispatchUnlengthed
  BY <1>37 DEF DispatchUnlengthed
<1>38. CASE PatchStray
  <2>1. IP_TxBuffer' \in [0 .. MaxSegs - 1 -> Content]
    BY <1>38 DEF PatchStray, Content
  <2>2. disturbed' \in [Tasks -> BOOLEAN]
    BY <1>38, TouchType DEF PatchStray
  <2> QED
    BY <1>38, <2>1, <2>2 DEF PatchStray
<1>32. CASE UNCHANGED vars
  BY <1>32 DEF vars
<1> HIDE DEF TypeInv
<1>33. CASE UdpStep
  BY <1>33, <1>4, <1>13, <1>14, <1>15, <1>16, <1>17, <1>20, <1>27
     DEF UdpStep, HandlerStep
<1>34. CASE TcpStep
  BY <1>34, <1>8, <1>11, <1>12, <1>13, <1>14, <1>15, <1>16, <1>17, <1>18,
     <1>19, <1>20, <1>22, <1>23, <1>24, <1>27, <1>37, <1>38
     DEF TcpStep, HandlerStep, SenderStep
<1>35. CASE RxStep
  BY <1>35, <1>16, <1>17, <1>22, <1>23, <1>24, <1>27, <1>29, <1>30, <1>31
     DEF RxStep, SenderStep
<1>36. CASE Environment
  <2>1. CASE ClientSends
    BY <2>1, <1>5, <1>6 DEF ClientSends
  <2>2. CASE \E p \in TcpPeers, fd \in Fds : Accept(p, fd)
    BY <2>2, <1>10
  <2>3. CASE \E d \in Telegrams, c \in BOOLEAN : ReadTelegram(d, c)
    BY <2>3, <1>28
  <2> QED
    BY <1>36, <2>1, <2>2, <2>3, <1>2, <1>3, <1>7, <1>9 DEF Environment
<1>39. CASE UdpCall
  BY <1>39, <1>1, <1>21 DEF UdpCall
<1>40. ASSUME NEW s \in Senders, SendCall(s) PROVE TypeInv'
  BY <1>40, <1>25, <1>26 DEF SendCall
<1> QED
  BY <1>32, <1>33, <1>34, <1>35, <1>36, <1>39, <1>40 DEF Next

\* Every variable of IpGateway keeps its type, whatever the three tasks
\* interleave.
THEOREM TypeCorrect == Spec => []TypeOK
<1>1. Spec => []TypeInv
  BY TypeInvInit, TypeInvNext, PTL DEF Spec
<1>2. TypeInv => TypeOK
  BY DEF TypeInv
<1> QED
  BY <1>1, <1>2, PTL

-----------------------------------------------------------------------------
(***************************************************************************)
(* The connection flag.  While a client counts as established no handler   *)
(* has a DISCONNECT_REQUEST on its way to the flag; a handler whose request *)
(* none overlaps has set the flag when it answers a CONNECT_REQUEST.       *)
(***************************************************************************)

\* Only a CONNECT_REQUEST is answered with a CONNECT_RESPONSE, and only a
\* DISCONNECT_REQUEST with a DISCONNECT_RESPONSE.
LEMMA SessionAnswers ==
  ASSUME NEW t, NEW r
  PROVE  /\ Answer(t, r).svc = "CONNECT_RESPONSE" <=> r.svc = "CONNECT_REQUEST"
         /\ Answer(t, r).svc = "DISCONNECT_RESPONSE" <=> r.svc = "DISCONNECT_REQUEST"
<1>1. /\ AnswerService(t, r.svc) = "CONNECT_RESPONSE" <=> r.svc = "CONNECT_REQUEST"
      /\ AnswerService(t, r.svc) = "DISCONNECT_RESPONSE" <=> r.svc = "DISCONNECT_REQUEST"
  BY DEF AnswerService
<1> QED
  BY <1>1 DEF Answer

SessionShape ==
  \A h \in Handlers :
    /\ pc[h] \in { "tunnel", "copy", "patch" } =>
         req[h].pdu.svc = "TUNNELLING_REQUEST"
    /\ pc[h] = "flag" =>
         req[h].pdu.svc \in { "CONNECT_REQUEST", "DISCONNECT_REQUEST" }

SessionInv ==
  /\ SessionShape
  /\ established # {} => KNXnetIP_Connected
  /\ established # {} => \A h \in Handlers : ~Disconnecting(h)
  /\ \A h \in Handlers :
       req[h] # NoReq /\ ~rival[h] =>
         /\ \A g \in Handlers \ {h} : ~Disconnecting(g)
         /\ frame[h] # NoFrame /\ frame[h].svc = "CONNECT_RESPONSE"
            /\ pc[h] \in { "out", "check", "send" } => KNXnetIP_Connected

\* No step of either handler clears the flag under an established client.
LEMMA SessionInvNext == TypeInv /\ SessionInv /\ [Next]_vars => SessionInv'
<1> SUFFICES ASSUME TypeInv, SessionInv, [Next]_vars PROVE SessionInv'
  OBVIOUS
<1>0. /\ pc \in [Tasks -> UdpLabel \cup TcpLabel \cup RxLabel]
      /\ pc["udp"] \in UdpLabel /\ pc["tcp"] \in TcpLabel
      /\ req \in [Handlers -> Received \cup {NoReq}]
      /\ frame \in [Tasks -> Frame \cup {NoFrame}]
      /\ rival \in [Handlers -> BOOLEAN]
      /\ KNXnetIP_Connected \in BOOLEAN
      /\ HandlerShape
  BY DEF TypeInv, TypeOK, Shape
<1> USE <1>0 DEF SessionInv, SessionShape, HandlerShape, Disconnecting,
       UdpLabel, TcpLabel, AtWork, shared, sockets, rxLocals, session, wire
<1>1. CASE CreateSocket
  BY <1>1, SessionAnswers DEF CreateSocket
<1>2. CASE CreateSocketFails
  BY <1>2, SessionAnswers DEF CreateSocketFails
<1>3. CASE SelectFails
  BY <1>3, SessionAnswers DEF SelectFails
<1>4. CASE Restart
  BY <1>4, SessionAnswers DEF Restart
<1>5. ASSUME NEW c \in UdpClients, NEW r \in UdpRequests[c], RecvFrom(c, r) PROVE SessionInv'
  BY <1>5, SessionAnswers DEF RecvFrom, Receive, Received
<1>6. ASSUME NEW r \in TcpRequests, Recv(r) PROVE SessionInv'
  BY <1>6, SessionAnswers DEF Recv, Receive, Received
<1>7. CASE RecvEnds
  BY <1>7, SessionAnswers DEF RecvEnds
<1>8. CASE Listen
  BY <1>8, SessionAnswers DEF Listen
<1>9. CASE ServerFails
  BY <1>9, SessionAnswers DEF ServerFails
<1>10. ASSUME NEW p \in TcpPeers, NEW fd \in Fds, Accept(p, fd) PROVE SessionInv'
  BY <1>10, SessionAnswers DEF Accept
<1>11. CASE PublishSocket
  BY <1>11, SessionAnswers DEF PublishSocket
<1>12. CASE CloseConnection
  BY <1>12, SessionAnswers DEF CloseConnection
<1>13. ASSUME NEW h \in Handlers, Dispatch(h) PROVE SessionInv'
  BY <1>13, SessionAnswers DEF Dispatch
<1>14. ASSUME NEW h \in Handlers, Ignore(h) PROVE SessionInv'
  BY <1>14, SessionAnswers DEF Ignore, Caller
<1>15. ASSUME NEW h \in Handlers, TunnelIP2TP(h) PROVE SessionInv'
  BY <1>15, SessionAnswers DEF TunnelIP2TP
<1>16. ASSUME NEW t \in Tasks, WriteBody(t) PROVE SessionInv'
  BY <1>16, SessionAnswers DEF WriteBody
<1>17. ASSUME NEW t \in Tasks, WriteHeader(t) PROVE SessionInv'
  BY <1>17, SessionAnswers DEF WriteHeader
<1>18. CASE CopyRequest
  BY <1>18, SessionAnswers DEF CopyRequest
<1>19. CASE PatchRequest
  BY <1>19, SessionAnswers DEF PatchRequest
<1>20. ASSUME NEW h \in Handlers, SetConnected(h) PROVE SessionInv'
  <2>1. /\ req[h] # NoReq /\ frame[h] = Answer(h, req[h].pdu)
        /\ Accepted(req[h].pdu)
        /\ pc[h] = "flag" /\ pc' = [pc EXCEPT ![h] = "out"]
        /\ KNXnetIP_Connected' = (frame[h].svc = "CONNECT_RESPONSE")
        /\ UNCHANGED << req, frame, established, rival >>
    BY <1>20 DEF SetConnected, Answered
  <2>2. CASE frame[h].svc = "CONNECT_RESPONSE"
    <3>1. KNXnetIP_Connected'
      BY <2>1, <2>2
    <3>2. req[h].pdu.svc = "CONNECT_REQUEST"
      BY <2>1, <2>2, SessionAnswers
    <3> QED
      BY <2>1, <3>1, <3>2
  <2>3. CASE frame[h].svc # "CONNECT_RESPONSE"
    <3>1. req[h].pdu.svc = "DISCONNECT_REQUEST"
      BY <2>1, <2>3, SessionAnswers
    <3>2. Disconnecting(h)
      BY <2>1, <3>1
    <3>3. established = {} /\ \A g \in Handlers \ {h} : req[g] # NoReq => rival[g]
      BY <3>2
    <3> QED
      BY <2>1, <2>3, <3>1, <3>3
  <2> QED
    BY <2>2, <2>3
<1>21. CASE UDPSend
  BY <1>21, SessionAnswers DEF UDPSend, Answering
<1>22. ASSUME NEW s \in Senders, TcpUpdateTxBuffer(s) PROVE SessionInv'
  BY <1>22, SessionAnswers DEF TcpUpdateTxBuffer
<1>23. ASSUME NEW s \in Senders, StartSend(s) PROVE SessionInv'
  BY <1>23, SessionAnswers DEF StartSend
<1>24. ASSUME NEW s \in Senders, NothingToSend(s) PROVE SessionInv'
  BY <1>24, SessionAnswers DEF NothingToSend, Clear, Caller
<1>25. ASSUME NEW s \in Senders, NEW n \in 1 .. MaxSegs, SendPart(s, n) PROVE SessionInv'
  BY <1>25, SessionAnswers DEF SendPart, Answering
<1>26. ASSUME NEW s \in Senders, SendFails(s) PROVE SessionInv'
  BY <1>26, SessionAnswers DEF SendFails, Clear, Caller
<1>27. ASSUME NEW t \in Tasks, Return(t) PROVE SessionInv'
  BY <1>27, SessionAnswers DEF Return, Clear, Caller
<1>28. ASSUME NEW d \in Telegrams, NEW c \in BOOLEAN, ReadTelegram(d, c) PROVE SessionInv'
  BY <1>28, SessionAnswers DEF ReadTelegram
<1>29. CASE PassSocket
  BY <1>29, SessionAnswers DEF PassSocket
<1>30. CASE Confirm
  BY <1>30, SessionAnswers DEF Confirm
<1>31. CASE TelegramDone
  BY <1>31, SessionAnswers DEF TelegramDone
<1>37. CASE DispatchUnlengthed
  BY <1>37, SessionAnswers DEF DispatchUnlengthed, Unlengthed
<1>38. CASE PatchStray
  BY <1>38, SessionAnswers DEF PatchStray
<1>32. CASE UNCHANGED vars
  BY <1>32 DEF vars
<1> HIDE DEF SessionInv
<1>33. CASE UdpStep
  BY <1>33, <1>4, <1>13, <1>14, <1>15, <1>16, <1>17, <1>20, <1>27
     DEF UdpStep, HandlerStep
<1>34. CASE TcpStep
  BY <1>34, <1>8, <1>11, <1>12, <1>13, <1>14, <1>15, <1>16, <1>17, <1>18,
     <1>19, <1>20, <1>22, <1>23, <1>24, <1>27, <1>37, <1>38
     DEF TcpStep, HandlerStep, SenderStep
<1>35. CASE RxStep
  BY <1>35, <1>16, <1>17, <1>22, <1>23, <1>24, <1>27, <1>29, <1>30, <1>31
     DEF RxStep, SenderStep
<1>36. CASE Environment
  <2>1. CASE ClientSends
    BY <2>1, <1>5, <1>6 DEF ClientSends
  <2>2. CASE \E p \in TcpPeers, fd \in Fds : Accept(p, fd)
    BY <2>2, <1>10
  <2>3. CASE \E d \in Telegrams, c \in BOOLEAN : ReadTelegram(d, c)
    BY <2>3, <1>28
  <2> QED
    BY <1>36, <2>1, <2>2, <2>3, <1>2, <1>3, <1>7, <1>9 DEF Environment
<1>39. CASE UdpCall
  BY <1>39, <1>1, <1>21 DEF UdpCall
<1>40. ASSUME NEW s \in Senders, SendCall(s) PROVE SessionInv'
  BY <1>40, <1>25, <1>26 DEF SendCall
<1> QED
  BY <1>32, <1>33, <1>34, <1>35, <1>36, <1>39, <1>40 DEF Next

\* A client that was answered a CONNECT_REQUEST stays connected until a
\* DISCONNECT_REQUEST arrives: for any number of clients, whatever IP_L_Data_Ind
\* interleaves in the UDP and the TCP task.
THEOREM EstablishedStaysConnected == Spec => []EstablishedIsConnected
<1>1. Init => SessionInv
  BY DEF Init, SessionInv, SessionShape, Disconnecting
<1>2. Spec => []TypeInv
  BY TypeInvInit, TypeInvNext, PTL DEF Spec
<1>3. SessionInv => EstablishedIsConnected
  BY DEF SessionInv, EstablishedIsConnected
<1> QED
  BY <1>1, <1>2, <1>3, SessionInvNext, PTL DEF Spec

-----------------------------------------------------------------------------
(***************************************************************************)
(* The UDP exchange.  What a task has sent is empty until it sends, and     *)
(* the datagram is what the abstract reply says it is.                     *)
(***************************************************************************)
QuietInv ==
  \A t \in Tasks :
    pc[t] \notin { "send", "sent" } => sent[t] = << >> /\ sentTo[t] = {}

DatagramInv ==
  pc["udp"] = "sent" =>
    /\ Len(sent["udp"]) = SegCount[frame["udp"].svc]
    /\ sentTo["udp"] = { req["udp"].from }

ExchangeInv == QuietInv /\ DatagramInv

\* The reply of the UDP task is of the length of its own frame, whatever the
\* other tasks do to Tcp_TxLength.
LEMMA ExchangeInvNext == TypeInv /\ ExchangeInv /\ [Next]_vars => ExchangeInv'
<1> SUFFICES ASSUME TypeInv, ExchangeInv, [Next]_vars PROVE ExchangeInv'
  OBVIOUS
<1>0. /\ pc \in [Tasks -> UdpLabel \cup TcpLabel \cup RxLabel]
      /\ pc["udp"] \in UdpLabel /\ pc["tcp"] \in TcpLabel /\ pc["rx"] \in RxLabel
      /\ req \in [Handlers -> Received \cup {NoReq}]
      /\ frame \in [Tasks -> Frame \cup {NoFrame}]
      /\ sent \in [Tasks -> Seq(Content \cup {Outside})]
      /\ sentTo \in [Tasks -> SUBSET (UdpClients \cup TcpPeers)]
  BY DEF TypeInv, TypeOK
<1> USE <1>0 DEF ExchangeInv, QuietInv, DatagramInv,
       UdpLabel, TcpLabel, RxLabel, shared, sockets, rxLocals, session, wire
<1>1. CASE CreateSocket
  BY <1>1 DEF CreateSocket
<1>2. CASE CreateSocketFails
  BY <1>2 DEF CreateSocketFails
<1>3. CASE SelectFails
  BY <1>3 DEF SelectFails
<1>4. CASE Restart
  BY <1>4 DEF Restart
<1>5. ASSUME NEW c \in UdpClients, NEW r \in UdpRequests[c], RecvFrom(c, r)
      PROVE  ExchangeInv'
  BY <1>5 DEF RecvFrom, Receive
<1>6. ASSUME NEW r \in TcpRequests, Recv(r) PROVE ExchangeInv'
  BY <1>6 DEF Recv, Receive
<1>7. CASE RecvEnds
  BY <1>7 DEF RecvEnds
<1>8. CASE Listen
  BY <1>8 DEF Listen
<1>9. CASE ServerFails
  BY <1>9 DEF ServerFails
<1>10. ASSUME NEW p \in TcpPeers, NEW fd \in Fds, Accept(p, fd) PROVE ExchangeInv'
  BY <1>10 DEF Accept
<1>11. CASE PublishSocket
  BY <1>11 DEF PublishSocket
<1>12. CASE CloseConnection
  BY <1>12 DEF CloseConnection
<1>13. ASSUME NEW h \in Handlers, Dispatch(h) PROVE ExchangeInv'
  BY <1>13 DEF Dispatch
<1>14. ASSUME NEW h \in Handlers, Ignore(h) PROVE ExchangeInv'
  BY <1>14 DEF Ignore, Caller
<1>15. ASSUME NEW h \in Handlers, TunnelIP2TP(h) PROVE ExchangeInv'
  BY <1>15 DEF TunnelIP2TP
<1>16. ASSUME NEW t \in Tasks, WriteBody(t) PROVE ExchangeInv'
  BY <1>16 DEF WriteBody
<1>17. ASSUME NEW t \in Tasks, WriteHeader(t) PROVE ExchangeInv'
  BY <1>17 DEF WriteHeader
<1>18. CASE CopyRequest
  BY <1>18 DEF CopyRequest
<1>19. CASE PatchRequest
  BY <1>19 DEF PatchRequest
<1>20. ASSUME NEW h \in Handlers, SetConnected(h) PROVE ExchangeInv'
  BY <1>20 DEF SetConnected
<1>21. CASE UDPSend
  <2>1. frame["udp"] \in Frame
    BY <1>21 DEF UDPSend, TypeInv, Shape, HandlerShape, AtWork
  <2>2. SegCount[frame["udp"].svc] \in Nat
    BY <2>1, FrameLength
  <2>3. DEFINE datagram == [k \in 1 .. SegCount[frame["udp"].svc] |-> IP_TxBuffer[k - 1]]
  <2>4. Len(datagram) = SegCount[frame["udp"].svc]
    BY <2>2
  <2>5. sent' = [sent EXCEPT !["udp"] = datagram]
    BY <1>21 DEF UDPSend
  <2> HIDE DEF datagram
  <2> QED
    BY <1>21, <2>4, <2>5 DEF UDPSend
<1>22. ASSUME NEW s \in Senders, TcpUpdateTxBuffer(s) PROVE ExchangeInv'
  BY <1>22 DEF TcpUpdateTxBuffer
<1>23. ASSUME NEW s \in Senders, StartSend(s) PROVE ExchangeInv'
  BY <1>23 DEF StartSend
<1>24. ASSUME NEW s \in Senders, NothingToSend(s) PROVE ExchangeInv'
  BY <1>24 DEF NothingToSend, Clear, Caller
<1>25. ASSUME NEW s \in Senders, NEW n \in 1 .. MaxSegs, SendPart(s, n) PROVE ExchangeInv'
  <2>1. /\ s # "udp" /\ pc[s] = "send" /\ UNCHANGED << req, frame >>
        /\ pc' = pc \/ pc' = [pc EXCEPT ![s] = "sent"]
    BY <1>25 DEF SendPart
  <2>2. \A t \in Tasks \ {s} : sent'[t] = sent[t] /\ sentTo'[t] = sentTo[t]
    BY <1>25 DEF SendPart
  <2>3. QuietInv'
    BY <2>1, <2>2
  <2>4. DatagramInv'
    BY <2>1, <2>2
  <2> QED
    BY <2>3, <2>4
<1>26. ASSUME NEW s \in Senders, SendFails(s) PROVE ExchangeInv'
  BY <1>26 DEF SendFails, Clear, Caller
<1>27. ASSUME NEW t \in Tasks, Return(t) PROVE ExchangeInv'
  BY <1>27 DEF Return, Clear, Caller
<1>28. ASSUME NEW d \in Telegrams, NEW c \in BOOLEAN, ReadTelegram(d, c)
       PROVE  ExchangeInv'
  BY <1>28 DEF ReadTelegram
<1>29. CASE PassSocket
  BY <1>29 DEF PassSocket
<1>30. CASE Confirm
  BY <1>30 DEF Confirm
<1>31. CASE TelegramDone
  BY <1>31 DEF TelegramDone
<1>37. CASE DispatchUnlengthed
  BY <1>37 DEF DispatchUnlengthed
<1>38. CASE PatchStray
  BY <1>38 DEF PatchStray
<1>32. CASE UNCHANGED vars
  BY <1>32 DEF vars
<1> HIDE DEF ExchangeInv
<1>33. CASE UdpStep
  BY <1>33, <1>4, <1>13, <1>14, <1>15, <1>16, <1>17, <1>20, <1>27
     DEF UdpStep, HandlerStep
<1>34. CASE TcpStep
  BY <1>34, <1>8, <1>11, <1>12, <1>13, <1>14, <1>15, <1>16, <1>17, <1>18,
     <1>19, <1>20, <1>22, <1>23, <1>24, <1>27, <1>37, <1>38
     DEF TcpStep, HandlerStep, SenderStep
<1>35. CASE RxStep
  BY <1>35, <1>16, <1>17, <1>22, <1>23, <1>24, <1>27, <1>29, <1>30, <1>31
     DEF RxStep, SenderStep
<1>36. CASE Environment
  <2>1. CASE ClientSends
    BY <2>1, <1>5, <1>6 DEF ClientSends
  <2>2. CASE \E p \in TcpPeers, fd \in Fds : Accept(p, fd)
    BY <2>2, <1>10
  <2>3. CASE \E d \in Telegrams, c \in BOOLEAN : ReadTelegram(d, c)
    BY <2>3, <1>28
  <2> QED
    BY <1>36, <2>1, <2>2, <2>3, <1>2, <1>3, <1>7, <1>9 DEF Environment
<1>39. CASE UdpCall
  BY <1>39, <1>1, <1>21 DEF UdpCall
<1>40. ASSUME NEW s \in Senders, SendCall(s) PROVE ExchangeInv'
  BY <1>40, <1>25, <1>26 DEF SendCall
<1> QED
  BY <1>32, <1>33, <1>34, <1>35, <1>36, <1>39, <1>40 DEF Next

\* The instance reads the frames as this module does.
LEMMA SameFrames ==
  ASSUME NEW r, NEW t, NEW svc
  PROVE  /\ Exchange!Answered(t, r) <=> Answered(t, r)
         /\ Exchange!AnswerService(t, svc) = AnswerService(t, svc)
BY DEF Exchange!Answered, Exchange!Accepted, Exchange!Unlengthed, Answered, Accepted,
       Unlengthed, Exchange!AnswerService, AnswerService

\* Every step of the gateway is a step of UdpExchange or leaves it alone.
LEMMA ExchangeStep ==
  TypeInv /\ ExchangeInv /\ [Next]_vars => [Exchange!Next]_(Exchange!vars)
<1> SUFFICES ASSUME TypeInv, ExchangeInv, [Next]_vars
             PROVE  [Exchange!Next]_(Exchange!vars)
  OBVIOUS
<1>0. /\ pc \in [Tasks -> UdpLabel \cup TcpLabel \cup RxLabel]
      /\ pc["udp"] \in UdpLabel /\ pc["tcp"] \in TcpLabel /\ pc["rx"] \in RxLabel
      /\ req \in [Handlers -> Received \cup {NoReq}]
      /\ frame \in [Tasks -> Frame \cup {NoFrame}]
      /\ sent \in [Tasks -> Seq(Content \cup {Outside})]
      /\ sentTo \in [Tasks -> SUBSET (UdpClients \cup TcpPeers)]
      /\ HandlerShape /\ SocketShape
  BY DEF TypeInv, TypeOK, Shape
<1> USE <1>0 DEF ExchangeInv, QuietInv, DatagramInv, HandlerShape, SocketShape, AtWork,
       UdpLabel, TcpLabel, RxLabel, shared, sockets, rxLocals, session, wire, Exchange!vars, Exchange!Next
<1>1. CASE CreateSocket
  BY <1>1 DEF CreateSocket
<1>2. CASE CreateSocketFails
  BY <1>2 DEF CreateSocketFails
<1>3. CASE SelectFails
  BY <1>3 DEF SelectFails
<1>4. CASE Restart
  BY <1>4 DEF Restart
<1>5. ASSUME NEW c \in UdpClients, NEW r \in UdpRequests[c], RecvFrom(c, r)
      PROVE  [Exchange!Next]_(Exchange!vars)
  BY <1>5 DEF RecvFrom, Receive, Exchange!Ask
<1>6. ASSUME NEW r \in TcpRequests, Recv(r) PROVE [Exchange!Next]_(Exchange!vars)
  BY <1>6 DEF Recv, Receive
<1>7. CASE RecvEnds
  BY <1>7 DEF RecvEnds
<1>8. CASE Listen
  BY <1>8 DEF Listen
<1>9. CASE ServerFails
  BY <1>9 DEF ServerFails
<1>10. ASSUME NEW p \in TcpPeers, NEW fd \in Fds, Accept(p, fd)
       PROVE  [Exchange!Next]_(Exchange!vars)
  BY <1>10 DEF Accept
<1>11. CASE PublishSocket
  BY <1>11 DEF PublishSocket
<1>12. CASE CloseConnection
  BY <1>12 DEF CloseConnection
<1>13. ASSUME NEW h \in Handlers, Dispatch(h) PROVE [Exchange!Next]_(Exchange!vars)
  BY <1>13 DEF Dispatch
<1>14. ASSUME NEW h \in Handlers, Ignore(h) PROVE [Exchange!Next]_(Exchange!vars)
  <2>1. CASE h = "udp"
    <3>1. req["udp"] # NoReq /\ ~Answered("udp", req["udp"].pdu)
      BY <1>14, <2>1 DEF Ignore
    <3>2. req'["udp"] = NoReq /\ UNCHANGED << sent, sentTo >>
      BY <1>14, <2>1 DEF Ignore
    <3>3. sent["udp"] = << >> /\ sentTo["udp"] = {}
      BY <1>14, <2>1 DEF Ignore
    <3>4. Exchange!Finish
      BY <3>1, <3>2, <3>3, SameFrames DEF Exchange!Finish, Exchange!NoReply
    <3> QED
      BY <3>4
  <2>2. CASE h = "tcp"
    BY <1>14, <2>2 DEF Ignore
  <2> QED
    BY <2>1, <2>2
<1>15. ASSUME NEW h \in Handlers, TunnelIP2TP(h) PROVE [Exchange!Next]_(Exchange!vars)
  BY <1>15 DEF TunnelIP2TP
<1>16. ASSUME NEW t \in Tasks, WriteBody(t) PROVE [Exchange!Next]_(Exchange!vars)
  BY <1>16 DEF WriteBody
<1>17. ASSUME NEW t \in Tasks, WriteHeader(t) PROVE [Exchange!Next]_(Exchange!vars)
  BY <1>17 DEF WriteHeader
<1>18. CASE CopyRequest
  BY <1>18 DEF CopyRequest
<1>19. CASE PatchRequest
  BY <1>19 DEF PatchRequest
<1>20. ASSUME NEW h \in Handlers, SetConnected(h) PROVE [Exchange!Next]_(Exchange!vars)
  BY <1>20 DEF SetConnected
<1>21. CASE UDPSend
  <2>1. /\ req["udp"] # NoReq /\ Answered("udp", req["udp"].pdu)
        /\ frame["udp"] = Answer("udp", req["udp"].pdu)
        /\ req["udp"].pdu \in Request
    BY <1>21 DEF UDPSend, Received
  <2>2. frame["udp"].svc = AnswerService("udp", req["udp"].pdu.svc)
    BY <2>1, AnswerIsFrame
  <2>3. sent["udp"] = << >> /\ sentTo["udp"] = {}
    BY <1>21 DEF UDPSend
  <2>4. ExchangeInv'
    BY ExchangeInvNext
  <2>5. pc'["udp"] = "sent" /\ UNCHANGED << req, frame >>
    BY <1>21 DEF UDPSend
  <2>6. /\ Len(sent'["udp"]) = SegCount[AnswerService("udp", req["udp"].pdu.svc)]
        /\ sentTo'["udp"] = { req["udp"].from }
    BY <2>2, <2>4, <2>5
  <2>7. Exchange!Reply
    <3>1. Exchange!Answered("udp", req["udp"].pdu)
      BY <2>1, SameFrames
    <3>2. << sentTo["udp"], Len(sent["udp"]) >> = << {}, 0 >>
      BY <2>3
    <3>3. [ to |-> sentTo["udp"], length |-> Len(sent["udp"]) ] = Exchange!NoReply
      BY <3>2 DEF Exchange!NoReply
    <3>4. [ to |-> sentTo'["udp"], length |-> Len(sent'["udp"]) ]
            = Exchange!ReplyTo(req["udp"])
      <4>1. Exchange!AnswerService("udp", req["udp"].pdu.svc)
              = AnswerService("udp", req["udp"].pdu.svc)
        BY SameFrames, ZenonT(60)
      <4> QED
        BY ONLY <2>6, <4>1 DEF Exchange!ReplyTo
    <3> QED
      BY <2>1, <2>5, <3>1, <3>3, <3>4 DEF Exchange!Reply
  <2> QED
    BY <2>7
<1>22. ASSUME NEW s \in Senders, TcpUpdateTxBuffer(s)
       PROVE  [Exchange!Next]_(Exchange!vars)
  BY <1>22 DEF TcpUpdateTxBuffer
<1>23. ASSUME NEW s \in Senders, StartSend(s) PROVE [Exchange!Next]_(Exchange!vars)
  BY <1>23 DEF StartSend
<1>24. ASSUME NEW s \in Senders, NothingToSend(s) PROVE [Exchange!Next]_(Exchange!vars)
  BY <1>24 DEF NothingToSend, Clear, Caller
<1>25. ASSUME NEW s \in Senders, NEW n \in 1 .. MaxSegs, SendPart(s, n)
       PROVE  [Exchange!Next]_(Exchange!vars)
  BY <1>25 DEF SendPart
<1>26. ASSUME NEW s \in Senders, SendFails(s) PROVE [Exchange!Next]_(Exchange!vars)
  BY <1>26 DEF SendFails, Clear, Caller
<1>27. ASSUME NEW t \in Tasks, Return(t) PROVE [Exchange!Next]_(Exchange!vars)
  BY <1>27 DEF Return, Clear, Caller, Exchange!Finish, Exchange!NoReply
<1>28. ASSUME NEW d \in Telegrams, NEW c \in BOOLEAN, ReadTelegram(d, c)
       PROVE  [Exchange!Next]_(Exchange!vars)
  BY <1>28 DEF ReadTelegram
<1>29. CASE PassSocket
  BY <1>29 DEF PassSocket
<1>30. CASE Confirm
  BY <1>30 DEF Confirm
<1>31. CASE TelegramDone
  BY <1>31 DEF TelegramDone
<1>37. CASE DispatchUnlengthed
  BY <1>37 DEF DispatchUnlengthed
<1>38. CASE PatchStray
  BY <1>38 DEF PatchStray
<1>32. CASE UNCHANGED vars
  BY <1>32 DEF vars
<1> HIDE DEF ExchangeInv, Exchange!Next, Exchange!vars
<1>33. CASE UdpStep
  BY <1>33, <1>4, <1>13, <1>14, <1>15, <1>16, <1>17, <1>20, <1>27
     DEF UdpStep, HandlerStep
<1>34. CASE TcpStep
  BY <1>34, <1>8, <1>11, <1>12, <1>13, <1>14, <1>15, <1>16, <1>17, <1>18,
     <1>19, <1>20, <1>22, <1>23, <1>24, <1>27, <1>37, <1>38
     DEF TcpStep, HandlerStep, SenderStep
<1>35. CASE RxStep
  BY <1>35, <1>16, <1>17, <1>22, <1>23, <1>24, <1>27, <1>29, <1>30, <1>31
     DEF RxStep, SenderStep
<1>36. CASE Environment
  <2>1. CASE ClientSends
    BY <2>1, <1>5, <1>6 DEF ClientSends
  <2>2. CASE \E p \in TcpPeers, fd \in Fds : Accept(p, fd)
    BY <2>2, <1>10
  <2>3. CASE \E d \in Telegrams, c \in BOOLEAN : ReadTelegram(d, c)
    BY <2>3, <1>28
  <2> QED
    BY <1>36, <2>1, <2>2, <2>3, <1>2, <1>3, <1>7, <1>9 DEF Environment
<1>39. CASE UdpCall
  BY <1>39, <1>1, <1>21 DEF UdpCall
<1>40. ASSUME NEW s \in Senders, SendCall(s) PROVE [Exchange!Next]_(Exchange!vars)
  BY <1>40, <1>25, <1>26 DEF SendCall
<1> QED
  BY <1>32, <1>33, <1>34, <1>35, <1>36, <1>39, <1>40 DEF Next

\* The UDP handler implements the exchange: a client gets one answer of the
\* right length to each request it is owed one for, while the other two tasks
\* do what they like to the shared buffer.
THEOREM UdpExchangeImplemented == Spec => UdpExchangeKept
<1>1. Init => ExchangeInv /\ Exchange!Init
  BY DEF Init, ExchangeInv, QuietInv, DatagramInv, Exchange!Init, Exchange!NoReply
<1>2. Spec => []TypeInv
  BY TypeInvInit, TypeInvNext, PTL DEF Spec
<1> QED
  BY <1>1, <1>2, ExchangeInvNext, ExchangeStep, PTL
     DEF Spec, UdpExchangeKept, Exchange!Spec

-----------------------------------------------------------------------------
(***************************************************************************)
(* What is sent was written.  Ready(t) is the part of the buffer t has      *)
(* filled on its way to KNXnetIP_TcpUpdateTxBuffer or sendto; it may be     *)
(* overwritten since, but never becomes unwritten again.                   *)
(***************************************************************************)
Ready(t) ==
  IF pc[t] = "head" /\ t # "rx" THEN Body(frame[t])
  ELSE IF pc[t] = "body" /\ t = "rx" THEN Header
  ELSE IF pc[t] \in { "patch", "flag", "out" } THEN Whole(frame[t])
  ELSE {}

Position == 0 .. MaxSegs - 1

WrittenInv ==
  /\ \A i \in Position : i < Tcp_TxLength => IP_TxBuffer[i] # Unwritten
  /\ \A t \in Tasks : \A i \in Ready(t) : IP_TxBuffer[i] # Unwritten
  /\ SendsOnlyWritten

\* What a task has written of its frame lies inside IP_TxBuffer.
LEMMA ReadyInBuffer ==
  TypeInv => \A t \in Tasks : Ready(t) \subseteq Position
<1> SUFFICES ASSUME TypeInv, NEW t \in Tasks, Ready(t) # {}
             PROVE  Ready(t) \subseteq Position
  OBVIOUS
<1>1. frame[t] \in Frame
  BY DEF Ready, TypeInv, TypeOK, Shape, HandlerShape, RxShape, AtWork
<1>2. SegCount[frame[t].svc] \in 2 .. MaxSegs
  BY <1>1, FrameLength
<1> QED
  BY <1>2 DEF Ready, Body, Header, Whole, Position

\* No step sets a length that reaches past what was written.
LEMMA WrittenInvNext == TypeInv /\ ExchangeInv /\ WrittenInv /\ [Next]_vars => WrittenInv'
<1> SUFFICES ASSUME TypeInv, ExchangeInv, WrittenInv, [Next]_vars PROVE WrittenInv'
  OBVIOUS
<1>0. /\ pc \in [Tasks -> UdpLabel \cup TcpLabel \cup RxLabel]
      /\ pc["udp"] \in UdpLabel /\ pc["tcp"] \in TcpLabel /\ pc["rx"] \in RxLabel
      /\ frame \in [Tasks -> Frame \cup {NoFrame}]
      /\ sent \in [Tasks -> Seq(Content \cup {Outside})]
      /\ IP_TxBuffer \in [0 .. MaxSegs - 1 -> Content]
      /\ Tcp_TxLength \in 0 .. MaxSegs
      /\ to_write \in [Senders -> 0 .. MaxSegs]
  BY DEF TypeInv, TypeOK
<1> USE <1>0 DEF WrittenInv, SendsOnlyWritten, Ready, Position,
       UdpLabel, TcpLabel, RxLabel, shared, sockets, rxLocals, session, wire
<1>1. CASE CreateSocket
  BY <1>1 DEF CreateSocket
<1>2. CASE CreateSocketFails
  BY <1>2 DEF CreateSocketFails
<1>3. CASE SelectFails
  BY <1>3 DEF SelectFails
<1>4. CASE Restart
  BY <1>4 DEF Restart
<1>5. ASSUME NEW c \in UdpClients, NEW r \in UdpRequests[c], RecvFrom(c, r) PROVE WrittenInv'
  BY <1>5 DEF RecvFrom, Receive
<1>6. ASSUME NEW r \in TcpRequests, Recv(r) PROVE WrittenInv'
  BY <1>6 DEF Recv, Receive
<1>7. CASE RecvEnds
  BY <1>7 DEF RecvEnds
<1>8. CASE Listen
  BY <1>8 DEF Listen
<1>9. CASE ServerFails
  BY <1>9 DEF ServerFails
<1>10. ASSUME NEW p \in TcpPeers, NEW fd \in Fds, Accept(p, fd) PROVE WrittenInv'
  BY <1>10 DEF Accept
<1>11. CASE PublishSocket
  BY <1>11 DEF PublishSocket
<1>12. CASE CloseConnection
  BY <1>12 DEF CloseConnection
<1>13. ASSUME NEW h \in Handlers, Dispatch(h) PROVE WrittenInv'
  BY <1>13 DEF Dispatch
<1>14. ASSUME NEW h \in Handlers, Ignore(h) PROVE WrittenInv'
  BY <1>14 DEF Ignore, Caller
<1>15. ASSUME NEW h \in Handlers, TunnelIP2TP(h) PROVE WrittenInv'
  BY <1>15 DEF TunnelIP2TP
<1>16. ASSUME NEW t \in Tasks, WriteBody(t) PROVE WrittenInv'
  <2>1. /\ frame[t] \in Frame
        /\ SegCount[frame[t].svc] \in 2 .. MaxSegs
    BY <1>16, FrameLength DEF WriteBody, TypeInv, Shape, HandlerShape, RxShape, AtWork
  <2>2. \A i \in Position :
          IP_TxBuffer'[i] = IF i \in Body(frame[t]) THEN Segment(frame[t], i)
                            ELSE IP_TxBuffer[i]
    BY <1>16 DEF WriteBody, Store
  <2>3. \A i \in Position :
          IP_TxBuffer[i] # Unwritten \/ i \in Body(frame[t]) => IP_TxBuffer'[i] # Unwritten
    BY <2>1, <2>2, SegmentIsContent
  <2>4. \A u \in Tasks \ {t} : Ready(u)' = Ready(u)
    BY <1>16 DEF WriteBody
  <2>5. \A i \in Ready(t)' : i \in Position /\ (i \in Ready(t) \/ i \in Body(frame[t]))
    BY <1>16, <2>1, SMTT(40) DEF WriteBody, Whole, Body, Header
  <2>6. UNCHANGED << Tcp_TxLength, sent >>
    BY <1>16 DEF WriteBody
  <2>7. \A u \in Tasks : Ready(u) \subseteq Position
    BY ReadyInBuffer
  <2> HIDE DEF Ready, Position
  <2>8. \A u \in Tasks : \A i \in Ready(u)' : IP_TxBuffer'[i] # Unwritten
    BY <2>3, <2>4, <2>5, <2>7
  <2> QED
    BY <2>3, <2>6, <2>8
<1>17. ASSUME NEW t \in Tasks, WriteHeader(t) PROVE WrittenInv'
  <2>1. /\ frame[t] \in Frame
        /\ SegCount[frame[t].svc] \in 2 .. MaxSegs
    BY <1>17, FrameLength DEF WriteHeader, TypeInv, Shape, HandlerShape, RxShape, AtWork
  <2>2. \A i \in Position :
          IP_TxBuffer'[i] = IF i \in Header THEN Segment(frame[t], i)
                            ELSE IP_TxBuffer[i]
    BY <1>17 DEF WriteHeader, Store
  <2>3. \A i \in Position :
          IP_TxBuffer[i] # Unwritten \/ i \in Header => IP_TxBuffer'[i] # Unwritten
    BY <2>1, <2>2, SegmentIsContent
  <2>4. \A u \in Tasks \ {t} : Ready(u)' = Ready(u)
    BY <1>17 DEF WriteHeader
  <2>5. \A i \in Ready(t)' : i \in Position /\ (i \in Ready(t) \/ i \in Header)
    BY <1>17, <2>1, SMTT(40) DEF WriteHeader, Whole, Body, Header
  <2>6. UNCHANGED << Tcp_TxLength, sent >>
    BY <1>17 DEF WriteHeader
  <2>7. \A u \in Tasks : Ready(u) \subseteq Position
    BY ReadyInBuffer
  <2> HIDE DEF Ready, Position
  <2>8. \A u \in Tasks : \A i \in Ready(u)' : IP_TxBuffer'[i] # Unwritten
    BY <2>3, <2>4, <2>5, <2>7
  <2> QED
    BY <2>3, <2>6, <2>8
<1>18. CASE CopyRequest
  <2>1. /\ frame["tcp"] \in Frame
        /\ SegCount[frame["tcp"].svc] \in 2 .. MaxSegs
    BY <1>18, FrameLength DEF CopyRequest, TypeInv, Shape, HandlerShape, AtWork
  <2>2. \A i \in Position :
          IP_TxBuffer'[i] \in { IP_TxBuffer[i], Segment(frame["tcp"], i),
                                Segment(Unpatched(frame["tcp"]), i) }
    BY <1>18 DEF CopyRequest
  <2>3. \A i \in Position : i \in Whole(frame["tcp"]) => IP_TxBuffer'[i] # Unwritten
    BY <1>18, <2>1, SegmentIsContent, UnpatchedIsFrame
       DEF CopyRequest, Whole, Header, Body
  <2>4. \A i \in Position : IP_TxBuffer[i] # Unwritten => IP_TxBuffer'[i] # Unwritten
    BY <2>1, <2>2, SegmentIsContent, UnpatchedIsFrame
  <2>5. \A u \in Tasks \ {"tcp"} : Ready(u)' = Ready(u)
    BY <1>18 DEF CopyRequest
  <2>6. Ready("tcp")' \subseteq Position \cap Whole(frame["tcp"])
    BY <1>18, <2>1 DEF CopyRequest, Whole
  <2>7. UNCHANGED << Tcp_TxLength, sent >>
    BY <1>18 DEF CopyRequest
  <2>8. \A u \in Tasks : Ready(u) \subseteq Position
    BY ReadyInBuffer
  <2> HIDE DEF Ready, Position
  <2>9. \A u \in Tasks : \A i \in Ready(u)' : IP_TxBuffer'[i] # Unwritten
    BY <2>3, <2>4, <2>5, <2>6, <2>8
  <2> QED
    BY <2>4, <2>7, <2>9
<1>19. CASE PatchRequest
  <2>1. frame["tcp"] \in Frame
    BY <1>19 DEF PatchRequest, TypeInv, Shape, HandlerShape, AtWork
  <2>2. \A i \in Position :
          IP_TxBuffer'[i] \in { IP_TxBuffer[i], Segment(frame["tcp"], i), Garbled }
    BY <1>19 DEF PatchRequest
  <2>3. \A i \in Position : IP_TxBuffer[i] # Unwritten => IP_TxBuffer'[i] # Unwritten
    BY <2>1, <2>2, SegmentIsContent, IpGatewayAssumption
  <2>4. \A u \in Tasks : Ready(u)' = Ready(u)
    BY <1>19 DEF PatchRequest
  <2>5. UNCHANGED << Tcp_TxLength, sent >>
    BY <1>19 DEF PatchRequest
  <2>6. \A u \in Tasks : Ready(u) \subseteq Position
    BY ReadyInBuffer
  <2> HIDE DEF Ready, Position
  <2> QED
    BY <2>3, <2>4, <2>5, <2>6
<1>20. ASSUME NEW h \in Handlers, SetConnected(h) PROVE WrittenInv'
  BY <1>20 DEF SetConnected
<1>21. CASE UDPSend
  <2>1. SegCount[frame["udp"].svc] \in 2 .. MaxSegs
    BY <1>21, FrameLength DEF UDPSend, TypeInv, Shape, HandlerShape, AtWork
  <2>2. DEFINE datagram == [k \in 1 .. SegCount[frame["udp"].svc] |-> IP_TxBuffer[k - 1]]
  <2>3. \A k \in 1 .. SegCount[frame["udp"].svc] : k - 1 \in Ready("udp")
    BY <1>21, <2>1 DEF UDPSend, Whole
  <2>4. \A k \in 1 .. Len(datagram) : datagram[k] # Unwritten
    <3> HIDE DEF Ready
    <3>1. \A k \in 1 .. SegCount[frame["udp"].svc] : IP_TxBuffer[k - 1] # Unwritten
      BY <2>3
    <3>2. Len(datagram) = SegCount[frame["udp"].svc]
      BY <2>1
    <3> QED
      BY <3>1, <3>2
  <2>5. sent' = [sent EXCEPT !["udp"] = datagram]
    BY <1>21 DEF UDPSend
  <2> HIDE DEF datagram
  <2>6. SendsOnlyWritten'
    BY <2>4, <2>5
  <2>7. \A u \in Tasks : Ready(u)' \subseteq Ready(u)
    BY <1>21 DEF UDPSend
  <2>8. UNCHANGED shared
    BY <1>21 DEF UDPSend
  <2> QED
    BY <2>6, <2>7, <2>8
<1>22. ASSUME NEW s \in Senders, TcpUpdateTxBuffer(s) PROVE WrittenInv'
  <2>1. SegCount[frame[s].svc] \in 2 .. MaxSegs
    BY <1>22, FrameLength
       DEF TcpUpdateTxBuffer, TypeInv, Shape, HandlerShape, RxShape, AtWork
  <2>2. \A i \in Position : i < SegCount[frame[s].svc] => i \in Ready(s)
    BY <1>22, <2>1 DEF TcpUpdateTxBuffer, Whole
  <2>3. \A u \in Tasks : Ready(u)' \subseteq Ready(u)
    BY <1>22 DEF TcpUpdateTxBuffer
  <2>4. Tcp_TxLength' = SegCount[frame[s].svc] /\ UNCHANGED << IP_TxBuffer, sent >>
    BY <1>22 DEF TcpUpdateTxBuffer
  <2> HIDE DEF Ready
  <2>5. \A i \in Position : i < SegCount[frame[s].svc] => IP_TxBuffer[i] # Unwritten
    BY <2>2
  <2>6. \A u \in Tasks : \A i \in Ready(u)' : IP_TxBuffer'[i] # Unwritten
    BY <2>3, <2>4
  <2>7. \A i \in Position : i < Tcp_TxLength' => IP_TxBuffer'[i] # Unwritten
    BY <2>4, <2>5
  <2>8. SendsOnlyWritten'
    BY <2>4
  <2> QED
    BY <2>6, <2>7, <2>8
<1>23. ASSUME NEW s \in Senders, StartSend(s) PROVE WrittenInv'
  BY <1>23 DEF StartSend
<1>24. ASSUME NEW s \in Senders, NothingToSend(s) PROVE WrittenInv'
  BY <1>24 DEF NothingToSend, Clear, Caller
<1>25. ASSUME NEW s \in Senders, NEW n \in 1 .. MaxSegs, SendPart(s, n) PROVE WrittenInv'
  <2>1. DEFINE part == [k \in 1 .. n |-> Memory(Tcp_TxLength - to_write[s] + k - 1)]
  <2>2. \A k \in 1 .. n : part[k] # Unwritten
    BY <1>25, IpGatewayAssumption, SMTT(40) DEF SendPart, Memory
  <2>3. part \in Seq(Content \cup {Outside}) /\ Len(part) = n
    BY DEF Memory
  <2>4. sent' = [sent EXCEPT ![s] = @ \o part]
    BY <1>25 DEF SendPart
  <2> HIDE DEF part
  <2>5. sent[s] \in Seq(Content \cup {Outside})
    OBVIOUS
  <2>6. \A k \in 1 .. Len(sent[s] \o part) : (sent[s] \o part)[k] # Unwritten
    BY <2>2, <2>3, <2>5
  <2>7. SendsOnlyWritten'
    BY <2>4, <2>6
  <2>8. \A u \in Tasks : Ready(u)' \subseteq Ready(u)
    BY <1>25 DEF SendPart
  <2>9. UNCHANGED shared
    BY <1>25 DEF SendPart
  <2> QED
    BY <2>7, <2>8, <2>9
<1>26. ASSUME NEW s \in Senders, SendFails(s) PROVE WrittenInv'
  BY <1>26 DEF SendFails, Clear, Caller
<1>27. ASSUME NEW t \in Tasks, Return(t) PROVE WrittenInv'
  BY <1>27 DEF Return, Clear, Caller
<1>28. ASSUME NEW d \in Telegrams, NEW c \in BOOLEAN, ReadTelegram(d, c) PROVE WrittenInv'
  BY <1>28 DEF ReadTelegram
<1>29. CASE PassSocket
  BY <1>29 DEF PassSocket
<1>30. CASE Confirm
  BY <1>30 DEF Confirm
<1>31. CASE TelegramDone
  BY <1>31 DEF TelegramDone
<1>37. CASE DispatchUnlengthed
  BY <1>37 DEF DispatchUnlengthed
<1>38. CASE PatchStray
  <2>1. \A i \in Position : IP_TxBuffer[i] # Unwritten => IP_TxBuffer'[i] # Unwritten
    BY <1>38, IpGatewayAssumption DEF PatchStray
  <2>2. \A u \in Tasks : Ready(u)' = Ready(u)
    BY <1>38 DEF PatchStray
  <2>3. UNCHANGED << Tcp_TxLength, sent >>
    BY <1>38 DEF PatchStray
  <2>4. \A u \in Tasks : Ready(u) \subseteq Position
    BY ReadyInBuffer
  <2> HIDE DEF Ready, Position
  <2> QED
    BY <2>1, <2>2, <2>3, <2>4
<1>32. CASE UNCHANGED vars
  BY <1>32 DEF vars
<1> HIDE DEF WrittenInv
<1>33. CASE UdpStep
  BY <1>33, <1>4, <1>13, <1>14, <1>15, <1>16, <1>17, <1>20, <1>27
     DEF UdpStep, HandlerStep
<1>34. CASE TcpStep
  BY <1>34, <1>8, <1>11, <1>12, <1>13, <1>14, <1>15, <1>16, <1>17, <1>18,
     <1>19, <1>20, <1>22, <1>23, <1>24, <1>27, <1>37, <1>38
     DEF TcpStep, HandlerStep, SenderStep
<1>35. CASE RxStep
  BY <1>35, <1>16, <1>17, <1>22, <1>23, <1>24, <1>27, <1>29, <1>30, <1>31
     DEF RxStep, SenderStep
<1>36. CASE Environment
  <2>1. CASE ClientSends
    BY <2>1, <1>5, <1>6 DEF ClientSends
  <2>2. CASE \E p \in TcpPeers, fd \in Fds : Accept(p, fd)
    BY <2>2, <1>10
  <2>3. CASE \E d \in Telegrams, c \in BOOLEAN : ReadTelegram(d, c)
    BY <2>3, <1>28
  <2> QED
    BY <1>36, <2>1, <2>2, <2>3, <1>2, <1>3, <1>7, <1>9 DEF Environment
<1>39. CASE UdpCall
  BY <1>39, <1>1, <1>21 DEF UdpCall
<1>40. ASSUME NEW s \in Senders, SendCall(s) PROVE WrittenInv'
  BY <1>40, <1>25, <1>26 DEF SendCall
<1> QED
  BY <1>32, <1>33, <1>34, <1>35, <1>36, <1>39, <1>40 DEF Next

-----------------------------------------------------------------------------
(***************************************************************************)
(* Frames go out intact.  Held(t) is the part of the buffer that holds the *)
(* frame of t as long as nobody disturbs it.  Every action that changes     *)
(* the buffer, its length or the connection disturbs the other tasks, so a *)
(* task that is not disturbed finds what it left there.                    *)
(***************************************************************************)
Held(t) ==
  IF pc[t] = "head" /\ t # "rx" THEN Body(frame[t])
  ELSE IF pc[t] = "body" /\ t = "rx" THEN Header
  ELSE IF pc[t] \in { "flag", "out", "call", "check", "send" }
       THEN Whole(frame[t])
  ELSE {}

Copied(f) ==
  /\ \A i \in Header : IP_TxBuffer[i] = Segment(f, i)
  /\ \A i \in Body(f) : IP_TxBuffer[i] = Segment(Unpatched(f), i)

Sending(t) ==
  /\ to_write[t] \in 1 .. SegCount[frame[t].svc]
  /\ Len(sent[t]) = SegCount[frame[t].svc] - to_write[t]
  /\ \A k \in 1 .. Len(sent[t]) : sent[t][k] = Segment(frame[t], k - 1)
  /\ \/ to_write[t] = SegCount[frame[t].svc] /\ sentTo[t] = {}
     \/ conn # NoConn /\ sentTo[t] = { conn.peer }

Sent(t) ==
  /\ sent[t] = Octets(frame[t])
  /\ \E c \in UdpClients \cup TcpPeers : sentTo[t] = { c }

Intact(t) ==
  /\ \A i \in Held(t) : IP_TxBuffer[i] = Segment(frame[t], i)
  /\ pc[t] = "patch" => Copied(frame[t])
  /\ pc[t] \in { "call", "check", "send" } =>
       Tcp_TxLength = SegCount[frame[t].svc]
  /\ pc[t] = "send" => Sending(t)
  /\ pc[t] = "sent" => Sent(t)

IntactInv ==
  \A t \in Tasks : frame[t] # NoFrame /\ ~disturbed[t] => Intact(t)

\* A step of another task leaves alone all that Intact(u) is about, unless it
\* disturbs u.
Same(u) ==
  /\ pc'[u] = pc[u] /\ frame'[u] = frame[u]
  /\ sent'[u] = sent[u] /\ sentTo'[u] = sentTo[u]
  /\ u \in Senders => to_write'[u] = to_write[u]
  /\ UNCHANGED << IP_TxBuffer, Tcp_TxLength, conn >>

Spared(u) ==
  frame'[u] # NoFrame /\ ~disturbed'[u] =>
    frame[u] # NoFrame /\ ~disturbed[u] /\ Same(u)

\* The frame rule: Intact(u) only depends on what Same(u) holds still.
LEMMA SameIntact ==
  ASSUME pc["udp"] \in UdpLabel, NEW u \in Tasks, Intact(u), Same(u)
  PROVE  Intact(u)'
<1>1. pc[u] = "send" => u \in Senders
  BY DEF UdpLabel
<1>2. Held(u)' = Held(u)
  BY DEF Held, Same
<1>3. Copied(frame[u])' = Copied(frame[u])
  BY DEF Copied, Same
<1>4. pc[u] = "send" => Sending(u)' = Sending(u)
  BY <1>1 DEF Sending, Same
<1>5. Sent(u)' = Sent(u)
  BY DEF Sent, Same
<1> QED
  BY <1>2, <1>3, <1>4, <1>5 DEF Intact, Same

\* Only the task that takes the step needs a proof of its own.
LEMMA Combine ==
  ASSUME TypeInv, IntactInv, NEW t \in Tasks,
         \A u \in Tasks \ {t} : Spared(u),
         frame'[t] # NoFrame /\ ~disturbed'[t] => Intact(t)'
  PROVE  IntactInv'
<1>1. pc["udp"] \in UdpLabel
  BY DEF TypeInv, TypeOK
<1>2. ASSUME NEW u \in Tasks \ {t}, frame'[u] # NoFrame, ~disturbed'[u]
      PROVE  Intact(u)'
  BY <1>1, <1>2, SameIntact DEF Spared, IntactInv
<1> QED
  BY <1>2 DEF IntactInv

\* Where t has a frame in the buffer or on the way out, it is a frame that fits.
LEMMA FrameFits ==
  ASSUME TypeInv, NEW t \in Tasks, frame[t] # NoFrame
  PROVE  frame[t] \in Frame /\ SegCount[frame[t].svc] \in 2 .. MaxSegs
BY FrameLength DEF TypeInv, TypeOK

\* A task has no frame before it is given a request or a telegram to work on.
LEMMA NoFrameYet ==
  ASSUME TypeInv
  PROVE  /\ pc["udp"] \notin AtWork => frame["udp"] = NoFrame
         /\ pc["tcp"] \notin AtWork => frame["tcp"] = NoFrame
         /\ pc["rx"] \in { "read", "confirm" } => frame["rx"] = NoFrame
         /\ \A h \in Handlers : req[h] = NoReq \/ ~Answered(h, req[h].pdu) => frame[h] = NoFrame
BY DEF TypeInv, Shape, HandlerShape, RxShape

\* A send loop that has w of len segments left and sends n stays in the frame.
LEMMA PartInFrame ==
  ASSUME NEW len \in Nat, NEW w \in 1 .. len, NEW n \in 1 .. w
  PROVE  /\ \A k \in 1 .. n : len - w + k - 1 \in 0 .. len - 1
         /\ n # w => w - n \in 1 .. len
         /\ len - w + n = len - (w - n)
OBVIOUS

\* A sequence that holds the first segments of a frame, and one that goes on
\* where it stops.
LEMMA SegmentsContinue ==
  ASSUME NEW f, NEW S, NEW q \in Seq(S), NEW r \in Seq(S),
         \A k \in 1 .. Len(q) : q[k] = Segment(f, k - 1),
         \A k \in 1 .. Len(r) : r[k] = Segment(f, Len(q) + k - 1)
  PROVE  /\ q \o r \in Seq(S)
         /\ Len(q \o r) = Len(q) + Len(r)
         /\ \A k \in 1 .. Len(q \o r) : (q \o r)[k] = Segment(f, k - 1)
<1>1. q \o r \in Seq(S) /\ Len(q \o r) = Len(q) + Len(r)
  OBVIOUS
<1>2. ASSUME NEW k \in 1 .. Len(q) + Len(r), k <= Len(q)
      PROVE  (q \o r)[k] = Segment(f, k - 1)
  BY <1>2
<1>3. ASSUME NEW k \in 1 .. Len(q) + Len(r), k > Len(q)
      PROVE  (q \o r)[k] = Segment(f, k - 1)
  <2>1. (q \o r)[k] = r[k - Len(q)] /\ k - Len(q) \in 1 .. Len(r)
    BY <1>3
  <2>2. Len(q) + (k - Len(q)) - 1 = k - 1
    BY <1>3
  <2> QED
    BY <2>1, <2>2
<1> QED
  BY <1>1, <1>2, <1>3

\* A sequence of the right length and elements is the frame.
LEMMA OctetsByElements ==
  ASSUME NEW f, NEW S, NEW q \in Seq(S), Len(q) = SegCount[f.svc],
         \A k \in 1 .. Len(q) : q[k] = Segment(f, k - 1)
  PROVE  q = Octets(f)
BY DEF Octets

\* Every step either leaves u's frame as far as it was, advances it, or counts
\* as a disturbance of u.
LEMMA IntactInvNext ==
  TypeInv /\ ExchangeInv /\ IntactInv /\ [Next]_vars => IntactInv'
<1> SUFFICES ASSUME TypeInv, ExchangeInv, IntactInv, [Next]_vars PROVE IntactInv'
  OBVIOUS
<1>0. /\ pc \in [Tasks -> UdpLabel \cup TcpLabel \cup RxLabel]
      /\ pc["udp"] \in UdpLabel /\ pc["tcp"] \in TcpLabel /\ pc["rx"] \in RxLabel
      /\ frame \in [Tasks -> Frame \cup {NoFrame}]
      /\ sent \in [Tasks -> Seq(Content \cup {Outside})]
      /\ sentTo \in [Tasks -> SUBSET (UdpClients \cup TcpPeers)]
      /\ IP_TxBuffer \in [0 .. MaxSegs - 1 -> Content]
      /\ Tcp_TxLength \in 0 .. MaxSegs
      /\ to_write \in [Senders -> 0 .. MaxSegs]
      /\ disturbed \in [Tasks -> BOOLEAN]
  BY DEF TypeInv, TypeOK
<1> USE <1>0 DEF UdpLabel, TcpLabel, RxLabel, AtWork, shared, sockets, rxLocals, session, wire
<1>1. CASE CreateSocket
  <2>1. \A u \in Tasks \ {"udp"} : Spared(u)
    BY <1>1 DEF CreateSocket, Spared, Same
  <2>2. frame'["udp"] = NoFrame
    BY <1>1, NoFrameYet DEF CreateSocket
  <2> QED
    BY <2>1, <2>2, Combine
<1>2. CASE CreateSocketFails
  <2>1. \A u \in Tasks \ {"udp"} : Spared(u)
    BY <1>2 DEF CreateSocketFails, Spared, Same
  <2>2. frame'["udp"] = NoFrame
    BY <1>2, NoFrameYet DEF CreateSocketFails
  <2> QED
    BY <2>1, <2>2, Combine
<1>3. CASE SelectFails
  <2>1. \A u \in Tasks \ {"udp"} : Spared(u)
    BY <1>3 DEF SelectFails, Spared, Same
  <2>2. frame'["udp"] = NoFrame
    BY <1>3, NoFrameYet DEF SelectFails
  <2> QED
    BY <2>1, <2>2, Combine
<1>4. CASE Restart
  <2>1. \A u \in Tasks \ {"udp"} : Spared(u)
    BY <1>4 DEF Restart, Spared, Same
  <2>2. frame'["udp"] = NoFrame
    BY <1>4, NoFrameYet DEF Restart
  <2> QED
    BY <2>1, <2>2, Combine
<1>5. ASSUME NEW c \in UdpClients, NEW r \in UdpRequests[c], RecvFrom(c, r) PROVE IntactInv'
  <2>1. \A u \in Tasks \ {"udp"} : Spared(u)
    BY <1>5 DEF RecvFrom, Receive, Spared, Same
  <2>2. frame'["udp"] = NoFrame
    BY <1>5, NoFrameYet DEF RecvFrom, Receive
  <2> QED
    BY <2>1, <2>2, Combine
<1>6. ASSUME NEW r \in TcpRequests, Recv(r) PROVE IntactInv'
  <2>1. \A u \in Tasks \ {"tcp"} : Spared(u)
    BY <1>6 DEF Recv, Receive, Spared, Same
  <2>2. frame'["tcp"] = NoFrame
    BY <1>6, NoFrameYet DEF Recv, Receive
  <2> QED
    BY <2>1, <2>2, Combine
<1>7. CASE RecvEnds
  <2>1. \A u \in Tasks \ {"tcp"} : Spared(u)
    BY <1>7 DEF RecvEnds, Spared, Same
  <2>2. frame'["tcp"] = NoFrame
    BY <1>7, NoFrameYet DEF RecvEnds
  <2> QED
    BY <2>1, <2>2, Combine
<1>8. CASE Listen
  <2>1. \A u \in Tasks \ {"tcp"} : Spared(u)
    BY <1>8 DEF Listen, Spared, Same
  <2>2. frame'["tcp"] = NoFrame
    BY <1>8, NoFrameYet DEF Listen
  <2> QED
    BY <2>1, <2>2, Combine
<1>9. CASE ServerFails
  <2>1. \A u \in Tasks \ {"tcp"} : Spared(u)
    BY <1>9 DEF ServerFails, Spared, Same
  <2>2. frame'["tcp"] = NoFrame
    BY <1>9, NoFrameYet DEF ServerFails
  <2> QED
    BY <2>1, <2>2, Combine
<1>10. ASSUME NEW p \in TcpPeers, NEW fd \in Fds, Accept(p, fd) PROVE IntactInv'
  <2>1. \A u \in Tasks \ {"tcp"} : Spared(u)
    BY <1>10 DEF Accept, Touch, Spared, Same
  <2>2. frame'["tcp"] = NoFrame
    BY <1>10, NoFrameYet DEF Accept
  <2> QED
    BY <2>1, <2>2, Combine
<1>11. CASE PublishSocket
  <2>1. \A u \in Tasks \ {"tcp"} : Spared(u)
    BY <1>11 DEF PublishSocket, Touch, Spared, Same
  <2>2. frame'["tcp"] = NoFrame
    BY <1>11, NoFrameYet DEF PublishSocket
  <2> QED
    BY <2>1, <2>2, Combine
<1>12. CASE CloseConnection
  <2>1. \A u \in Tasks \ {"tcp"} : Spared(u)
    BY <1>12 DEF CloseConnection, Touch, Spared, Same
  <2>2. frame'["tcp"] = NoFrame
    BY <1>12, NoFrameYet DEF CloseConnection
  <2> QED
    BY <2>1, <2>2, Combine
<1>13. ASSUME NEW h \in Handlers, Dispatch(h) PROVE IntactInv'
  <2>1. \A u \in Tasks \ {h} : Spared(u)
    BY <1>13 DEF Dispatch, Spared, Same
  <2>2. frame'[h] # NoFrame /\ ~disturbed'[h] => Intact(h)'
    BY <1>13 DEF Dispatch, Intact, Held
  <2> QED
    BY <2>1, <2>2, Combine
<1>14. ASSUME NEW h \in Handlers, Ignore(h) PROVE IntactInv'
  <2>1. \A u \in Tasks \ {h} : Spared(u)
    BY <1>14 DEF Ignore, Caller, Spared, Same
  <2>2. frame'[h] = NoFrame
    BY <1>14, NoFrameYet DEF Ignore
  <2> QED
    BY <2>1, <2>2, Combine
<1>15. ASSUME NEW h \in Handlers, TunnelIP2TP(h) PROVE IntactInv'
  <2>1. \A u \in Tasks \ {h} : Spared(u)
    BY <1>15 DEF TunnelIP2TP, Spared, Same
  <2>2. frame'[h] # NoFrame /\ ~disturbed'[h] => Intact(h)'
    BY <1>15 DEF TunnelIP2TP, Intact, Held
  <2> QED
    BY <2>1, <2>2, Combine
<1>16. ASSUME NEW t \in Tasks, WriteBody(t) PROVE IntactInv'
  <2>1. \A u \in Tasks \ {t} : Spared(u)
    BY <1>16 DEF WriteBody, Touch, FirstTouch, Spared, Same
  <2>2. frame'[t] # NoFrame /\ ~disturbed'[t] => Intact(t)'
    <3> SUFFICES ASSUME frame'[t] # NoFrame, ~disturbed'[t] PROVE Intact(t)'
      OBVIOUS
    <3>1. /\ UNCHANGED frame /\ frame[t] # NoFrame
          /\ pc[t] = "body" /\ pc' = [pc EXCEPT ![t] = IF t = "rx" THEN "out" ELSE "head"]
      BY <1>16 DEF WriteBody
    <3>2. SegCount[frame[t].svc] \in 2 .. MaxSegs
      BY <3>1, FrameFits
    <3>3. \A i \in 0 .. MaxSegs - 1 :
            IP_TxBuffer'[i] = IF i \in Body(frame[t]) THEN Segment(frame[t], i)
                              ELSE IP_TxBuffer[i]
      BY <1>16 DEF WriteBody, Store
    <3>4. CASE t # "rx"
      <4>1. Held(t)' = Body(frame[t])
        BY <3>1, <3>4 DEF Held
      <4>2. \A i \in Body(frame[t]) : IP_TxBuffer'[i] = Segment(frame[t], i)
        BY <3>2, <3>3 DEF Body
      <4> QED
        BY <3>1, <3>4, <4>1, <4>2 DEF Intact
    <3>5. CASE t = "rx"
      <4>1. Held(t)' = Whole(frame[t])
        BY <3>1, <3>5 DEF Held
      <4>2. ~disturbed[t] /\ Held(t) = Header
        BY <1>16, <3>1, <3>5 DEF WriteBody, Touch, Held
      <4>3. IP_TxBuffer[0] = Segment(frame[t], 0)
        BY <3>1, <4>2 DEF IntactInv, Intact, Header
      <4>4. ASSUME NEW i \in Whole(frame[t])
            PROVE  IP_TxBuffer'[i] = Segment(frame[t], i)
        <5>1. i \in 0 .. MaxSegs - 1 /\ (i = 0 \/ i \in Body(frame[t]))
          BY <3>2, SMTT(30) DEF Whole, Body
        <5> QED
          BY <3>3, <4>3, <5>1
      <4> QED
        BY <3>1, <3>5, <4>1, <4>4 DEF Intact
    <3> QED
      BY <3>4, <3>5
  <2> QED
    BY <2>1, <2>2, Combine
<1>17. ASSUME NEW t \in Tasks, WriteHeader(t) PROVE IntactInv'
  <2>1. \A u \in Tasks \ {t} : Spared(u)
    BY <1>17 DEF WriteHeader, Touch, FirstTouch, Spared, Same
  <2>2. frame'[t] # NoFrame /\ ~disturbed'[t] => Intact(t)'
    <3> SUFFICES ASSUME frame'[t] # NoFrame, ~disturbed'[t] PROVE Intact(t)'
      OBVIOUS
    <3>1. /\ UNCHANGED frame /\ frame[t] # NoFrame
          /\ pc[t] = "head" /\ pc'[t] \in { "body", "flag", "out" }
          /\ pc'[t] = "body" <=> t = "rx"
      BY <1>17 DEF WriteHeader
    <3>2. SegCount[frame[t].svc] \in 2 .. MaxSegs
      BY <3>1, FrameFits
    <3>3. \A i \in 0 .. MaxSegs - 1 :
            IP_TxBuffer'[i] = IF i \in Header THEN Segment(frame[t], i)
                              ELSE IP_TxBuffer[i]
      BY <1>17 DEF WriteHeader, Store
    <3>4. CASE t = "rx"
      <4>1. Held(t)' = Header
        BY <3>1, <3>4 DEF Held
      <4>2. \A i \in Header : IP_TxBuffer'[i] = Segment(frame[t], i)
        BY <3>2, <3>3 DEF Header
      <4> QED
        BY <3>1, <3>4, <4>1, <4>2 DEF Intact
    <3>5. CASE t # "rx"
      <4>1. Held(t)' = Whole(frame[t])
        BY <3>1, <3>5 DEF Held
      <4>2. ~disturbed[t] /\ Held(t) = Body(frame[t])
        BY <1>17, <3>1, <3>5 DEF WriteHeader, Touch, Held
      <4>3. \A i \in Body(frame[t]) : IP_TxBuffer[i] = Segment(frame[t], i)
        BY <3>1, <4>2 DEF IntactInv, Intact
      <4>4. ASSUME NEW i \in Whole(frame[t])
            PROVE  IP_TxBuffer'[i] = Segment(frame[t], i)
        <5>1. i \in 0 .. MaxSegs - 1 /\ (i \in Header \/ i \in Body(frame[t]))
          BY <3>2, SMTT(30) DEF Whole, Body, Header
        <5> QED
          BY <3>3, <4>3, <5>1
      <4> QED
        BY <3>1, <3>5, <4>1, <4>4 DEF Intact
    <3> QED
      BY <3>4, <3>5
  <2> QED
    BY <2>1, <2>2, Combine
<1>18. CASE CopyRequest
  <2>1. \A u \in Tasks \ {"tcp"} : Spared(u)
    BY <1>18 DEF CopyRequest, FirstTouch, Spared, Same
  <2>2. frame'["tcp"] # NoFrame /\ ~disturbed'["tcp"] => Intact("tcp")'
    <3> SUFFICES ASSUME frame'["tcp"] # NoFrame PROVE Intact("tcp")'
      OBVIOUS
    <3>1. UNCHANGED frame /\ frame["tcp"] # NoFrame /\ pc'["tcp"] = "patch"
      BY <1>18 DEF CopyRequest
    <3>2. SegCount[frame["tcp"].svc] \in 2 .. MaxSegs
      BY <3>1, FrameFits
    <3>3. Copied(frame["tcp"])'
      BY <1>18, <3>1, <3>2 DEF CopyRequest, Copied, Header, Body
    <3>4. Held("tcp")' = {}
      BY <3>1 DEF Held
    <3> QED
      BY <3>1, <3>3, <3>4 DEF Intact
  <2> QED
    BY <2>1, <2>2, Combine
<1>19. CASE PatchRequest
  <2>1. \A u \in Tasks \ {"tcp"} : Spared(u)
    BY <1>19 DEF PatchRequest, Touch, Spared, Same
  <2>2. frame'["tcp"] # NoFrame /\ ~disturbed'["tcp"] => Intact("tcp")'
    <3> SUFFICES ASSUME frame'["tcp"] # NoFrame, ~disturbed'["tcp"]
                 PROVE  Intact("tcp")'
      OBVIOUS
    <3>1. /\ UNCHANGED frame /\ frame["tcp"] # NoFrame
          /\ pc["tcp"] = "patch" /\ pc'["tcp"] = "out" /\ ~disturbed["tcp"]
      BY <1>19 DEF PatchRequest, Touch
    <3>2. SegCount[frame["tcp"].svc] \in 2 .. MaxSegs
      BY <3>1, FrameFits
    <3>3. Copied(frame["tcp"])
      BY <3>1 DEF IntactInv, Intact
    <3>4. \A i \in Whole(frame["tcp"]) : IP_TxBuffer'[i] = Segment(frame["tcp"], i)
      BY <1>19, <3>2, <3>3 DEF PatchRequest, Copied, Whole, Header, Body
    <3>5. Held("tcp")' = Whole(frame["tcp"])
      BY <3>1 DEF Held
    <3> QED
      BY <3>1, <3>4, <3>5 DEF Intact
  <2> QED
    BY <2>1, <2>2, Combine
<1>20. ASSUME NEW h \in Handlers, SetConnected(h) PROVE IntactInv'
  <2>1. \A u \in Tasks \ {h} : Spared(u)
    BY <1>20 DEF SetConnected, Spared, Same
  <2>2. frame'[h] # NoFrame /\ ~disturbed'[h] => Intact(h)'
    BY <1>20, FrameFits DEF SetConnected, Intact, Held, IntactInv
  <2> QED
    BY <2>1, <2>2, Combine
<1>21. CASE UDPSend
  <2>1. \A u \in Tasks \ {"udp"} : Spared(u)
    BY <1>21 DEF UDPSend, Spared, Same
  <2>2. frame'["udp"] # NoFrame /\ ~disturbed'["udp"] => Intact("udp")'
    <3> SUFFICES ASSUME frame'["udp"] # NoFrame, ~disturbed'["udp"]
                 PROVE  Intact("udp")'
      OBVIOUS
    <3>1. /\ UNCHANGED frame /\ frame["udp"] # NoFrame /\ ~disturbed["udp"]
          /\ pc["udp"] = "out" /\ pc'["udp"] = "sent"
      BY <1>21 DEF UDPSend
    <3>2. SegCount[frame["udp"].svc] \in 2 .. MaxSegs
      BY <3>1, FrameFits
    <3>3. \A i \in Whole(frame["udp"]) : IP_TxBuffer[i] = Segment(frame["udp"], i)
      BY <3>1 DEF IntactInv, Intact, Held
    <3>4. [k \in 1 .. SegCount[frame["udp"].svc] |-> IP_TxBuffer[k - 1]]
            = Octets(frame["udp"])
      BY <3>2, <3>3 DEF Octets, Whole
    <3>5. sent'["udp"] = Octets(frame["udp"])
      BY <1>21, <3>4 DEF UDPSend
    <3>6. sentTo'["udp"] = { req["udp"].from } /\ req["udp"].from \in UdpClients \cup TcpPeers
      BY <1>21 DEF UDPSend, TypeInv, TypeOK, Shape, HandlerShape, Received
    <3>7. Held("udp")' = {}
      BY <3>1 DEF Held
    <3> QED
      BY <3>1, <3>5, <3>6, <3>7 DEF Intact, Sent
  <2> QED
    BY <2>1, <2>2, Combine
<1>22. ASSUME NEW s \in Senders, TcpUpdateTxBuffer(s) PROVE IntactInv'
  <2>1. \A u \in Tasks \ {s} : Spared(u)
    BY <1>22 DEF TcpUpdateTxBuffer, Touch, Spared, Same
  <2>2. frame'[s] # NoFrame /\ ~disturbed'[s] => Intact(s)'
    <3> SUFFICES ASSUME frame'[s] # NoFrame, ~disturbed'[s] PROVE Intact(s)'
      OBVIOUS
    <3>1. /\ UNCHANGED << frame, IP_TxBuffer >> /\ frame[s] # NoFrame /\ ~disturbed[s]
          /\ pc[s] = "out" /\ pc'[s] \in { "call", "check" }
          /\ Tcp_TxLength' = SegCount[frame[s].svc]
      BY <1>22 DEF TcpUpdateTxBuffer, Touch
    <3>2. \A i \in Whole(frame[s]) : IP_TxBuffer[i] = Segment(frame[s], i)
      BY <3>1 DEF IntactInv, Intact, Held
    <3>3. Held(s)' = Whole(frame[s])
      BY <3>1 DEF Held
    <3> QED
      BY <3>1, <3>2, <3>3 DEF Intact
  <2> QED
    BY <2>1, <2>2, Combine
<1>23. ASSUME NEW s \in Senders, StartSend(s) PROVE IntactInv'
  <2>1. \A u \in Tasks \ {s} : Spared(u)
    BY <1>23 DEF StartSend, Spared, Same
  <2>2. frame'[s] # NoFrame /\ ~disturbed'[s] => Intact(s)'
    <3> SUFFICES ASSUME frame'[s] # NoFrame, ~disturbed'[s] PROVE Intact(s)'
      OBVIOUS
    <3>1. /\ UNCHANGED << frame, IP_TxBuffer, Tcp_TxLength, sent, sentTo >>
          /\ frame[s] # NoFrame /\ ~disturbed[s]
          /\ pc[s] = "check" /\ pc'[s] = "send" /\ to_write'[s] = Tcp_TxLength
      BY <1>23 DEF StartSend
    <3>2. SegCount[frame[s].svc] \in 2 .. MaxSegs
      BY <3>1, FrameFits
    <3>3. /\ \A i \in Whole(frame[s]) : IP_TxBuffer[i] = Segment(frame[s], i)
          /\ Tcp_TxLength = SegCount[frame[s].svc]
      BY <3>1 DEF IntactInv, Intact, Held
    <3>4. sent[s] = << >> /\ sentTo[s] = {}
      BY <3>1 DEF ExchangeInv, QuietInv
    <3>5. Sending(s)'
      BY <3>1, <3>2, <3>3, <3>4 DEF Sending
    <3>6. Held(s)' = Whole(frame[s])
      BY <3>1 DEF Held
    <3> QED
      BY <3>1, <3>3, <3>5, <3>6 DEF Intact
  <2> QED
    BY <2>1, <2>2, Combine
<1>24. ASSUME NEW s \in Senders, NothingToSend(s) PROVE IntactInv'
  <2>1. \A u \in Tasks \ {s} : Spared(u)
    BY <1>24 DEF NothingToSend, Clear, Spared, Same
  <2>2. frame'[s] = NoFrame
    BY <1>24 DEF NothingToSend, Clear
  <2> QED
    BY <2>1, <2>2, Combine
<1>25. ASSUME NEW s \in Senders, NEW n \in 1 .. MaxSegs, SendPart(s, n) PROVE IntactInv'
  <2>1. \A u \in Tasks \ {s} : Spared(u)
    BY <1>25 DEF SendPart, Touch, Spared, Same
  <2>2. frame'[s] # NoFrame /\ ~disturbed'[s] => Intact(s)'
    <3> SUFFICES ASSUME frame'[s] # NoFrame, ~disturbed'[s] PROVE Intact(s)'
      OBVIOUS
    <3> DEFINE len  == SegCount[frame[s].svc]
               part == [k \in 1 .. n |-> Memory(Tcp_TxLength - to_write[s] + k - 1)]
    <3>1. /\ UNCHANGED << frame, IP_TxBuffer, Tcp_TxLength, conn >>
          /\ frame[s] # NoFrame /\ ~disturbed[s]
          /\ pc[s] = "send" /\ conn # NoConn /\ n <= to_write[s]
          /\ sent' = [sent EXCEPT ![s] = @ \o part]
          /\ sentTo'[s] = sentTo[s] \cup { conn.peer }
          /\ to_write'[s] = to_write[s] - n
      BY <1>25 DEF SendPart, Open, Touch
    <3>2. pc'[s] = IF n = to_write[s] THEN "sent" ELSE "send"
      BY <1>25 DEF SendPart
    <3>3. len \in 2 .. MaxSegs
      BY <3>1, FrameFits
    <3>4. /\ \A i \in Whole(frame[s]) : IP_TxBuffer[i] = Segment(frame[s], i)
          /\ Tcp_TxLength = len /\ Sending(s)
      BY <3>1 DEF IntactInv, Intact, Held
    <3>5. conn.peer \in TcpPeers
      BY <3>1 DEF TypeInv, TypeOK
    <3>6. part \in Seq(Content \cup {Outside}) /\ Len(part) = n
      BY DEF Memory
    <3>7. Len(sent[s]) = Tcp_TxLength - to_write[s] /\ Tcp_TxLength = len
      BY <3>4 DEF Sending
    <3>8. \A k \in 1 .. Len(part) : part[k] = Segment(frame[s], Len(sent[s]) + k - 1)
      <4> SUFFICES ASSUME NEW k \in 1 .. n
                   PROVE  part[k] = Segment(frame[s], Len(sent[s]) + k - 1)
        BY <3>6
      <4>1. to_write[s] \in 1 .. len
        BY <3>4 DEF Sending
      <4>2. Tcp_TxLength - to_write[s] + k - 1 \in 0 .. len - 1
        <5>1. n \in 1 .. to_write[s] /\ len \in Nat /\ k \in 1 .. n /\ Tcp_TxLength = len
          BY <3>1, <3>3, <3>7, <4>1
        <5> HIDE DEF len
        <5> QED
          BY ONLY <4>1, <5>1, PartInFrame
      <4>3. Tcp_TxLength - to_write[s] + k - 1 \in Whole(frame[s])
        BY <4>2 DEF Whole
      <4>4. part[k] = IP_TxBuffer[Tcp_TxLength - to_write[s] + k - 1]
        BY <3>3, <4>2, SMTT(40) DEF Memory
      <4> QED
        BY <3>4, <3>7, <4>3, <4>4
    <3> HIDE DEF part
    <3>9. sent'[s] = sent[s] \o part /\ sentTo'[s] = { conn.peer }
      BY <3>1, <3>4 DEF Sending
    <3>10. /\ sent'[s] \in Seq(Content \cup {Outside})
           /\ Len(sent'[s]) = len - to_write[s] + n
           /\ \A k \in 1 .. Len(sent'[s]) : sent'[s][k] = Segment(frame[s], k - 1)
      <4>1. sent[s] \in Seq(Content \cup {Outside})
        OBVIOUS
      <4>2. \A k \in 1 .. Len(sent[s]) : sent[s][k] = Segment(frame[s], k - 1)
        BY <3>4 DEF Sending
      <4> QED
        BY ONLY <3>6, <3>7, <3>8, <3>9, <4>1, <4>2, SegmentsContinue
    <3>11. CASE n # to_write[s]
      <4>1. to_write'[s] \in 1 .. len /\ Len(sent'[s]) = len - to_write'[s]
        <5>1. to_write[s] \in 1 .. len /\ n \in 1 .. to_write[s] /\ n # to_write[s]
          BY <3>1, <3>4, <3>11 DEF Sending
        <5>2. len \in Nat
          BY <3>3
        <5> HIDE DEF len
        <5>3. to_write'[s] = to_write[s] - n /\ Len(sent'[s]) = len - to_write[s] + n
          BY <3>1, <3>10
        <5> QED
          BY ONLY <5>1, <5>2, <5>3, PartInFrame
      <4>3. Sending(s)'
        BY <3>1, <3>9, <3>10, <4>1 DEF Sending
      <4>2. Held(s)' = Whole(frame[s])
        BY <3>1, <3>2, <3>11 DEF Held
      <4> QED
        BY <3>1, <3>2, <3>4, <3>11, <4>2, <4>3 DEF Intact
    <3>12. CASE n = to_write[s]
      <4>1. sent'[s] \in Seq(Content \cup {Outside}) /\ Len(sent'[s]) = len
        BY <3>3, <3>4, <3>10, <3>12 DEF Sending
      <4>2. sent'[s] = Octets(frame[s])
        BY ONLY <3>10, <4>1, OctetsByElements
      <4>3. Held(s)' = {}
        BY <3>2, <3>12 DEF Held
      <4> QED
        BY <3>1, <3>2, <3>5, <3>9, <3>12, <4>2, <4>3 DEF Intact, Sent
    <3> QED
      BY <3>11, <3>12
  <2> QED
    BY <2>1, <2>2, Combine
<1>26. ASSUME NEW s \in Senders, SendFails(s) PROVE IntactInv'
  <2>1. \A u \in Tasks \ {s} : Spared(u)
    BY <1>26 DEF SendFails, Clear, Spared, Same
  <2>2. frame'[s] = NoFrame
    BY <1>26 DEF SendFails, Clear
  <2> QED
    BY <2>1, <2>2, Combine
<1>27. ASSUME NEW t \in Tasks, Return(t) PROVE IntactInv'
  <2>1. \A u \in Tasks \ {t} : Spared(u)
    BY <1>27 DEF Return, Clear, Spared, Same
  <2>2. frame'[t] = NoFrame
    BY <1>27 DEF Return, Clear
  <2> QED
    BY <2>1, <2>2, Combine
<1>28. ASSUME NEW d \in Telegrams, NEW c \in BOOLEAN, ReadTelegram(d, c) PROVE IntactInv'
  <2>1. \A u \in Tasks \ {"rx"} : Spared(u)
    BY <1>28 DEF ReadTelegram, Spared, Same
  <2>2. frame'["rx"] # NoFrame /\ ~disturbed'["rx"] => Intact("rx")'
    BY <1>28 DEF ReadTelegram, Intact, Held
  <2> QED
    BY <2>1, <2>2, Combine
<1>29. CASE PassSocket
  <2>1. \A u \in Tasks \ {"rx"} : Spared(u)
    BY <1>29 DEF PassSocket, Spared, Same
  <2>2. frame'["rx"] # NoFrame /\ ~disturbed'["rx"] => Intact("rx")'
    BY <1>29, FrameFits DEF PassSocket, Intact, Held, IntactInv
  <2> QED
    BY <2>1, <2>2, Combine
<1>30. CASE Confirm
  <2>1. \A u \in Tasks \ {"rx"} : Spared(u)
    BY <1>30 DEF Confirm, Spared, Same
  <2>2. frame'["rx"] # NoFrame /\ ~disturbed'["rx"] => Intact("rx")'
    BY <1>30 DEF Confirm, Intact, Held
  <2> QED
    BY <2>1, <2>2, Combine
<1>31. CASE TelegramDone
  <2>1. \A u \in Tasks \ {"rx"} : Spared(u)
    BY <1>31 DEF TelegramDone, Spared, Same
  <2>2. frame'["rx"] = NoFrame
    BY <1>31, NoFrameYet DEF TelegramDone
  <2> QED
    BY <2>1, <2>2, Combine
<1>37. CASE DispatchUnlengthed
  <2>1. \A u \in Tasks \ {"tcp"} : Spared(u)
    BY <1>37 DEF DispatchUnlengthed, Spared, Same
  <2>2. frame'["tcp"] = NoFrame
    BY <1>37, NoFrameYet DEF DispatchUnlengthed, Answered
  <2> QED
    BY <2>1, <2>2, Combine
<1>38. CASE PatchStray
  <2>1. \A u \in Tasks \ {"tcp"} : Spared(u)
    BY <1>38 DEF PatchStray, Touch, Spared, Same
  <2>2. frame'["tcp"] = NoFrame
    BY <1>38 DEF PatchStray, TypeInv, Shape, HandlerShape
  <2> QED
    BY <2>1, <2>2, Combine
<1>32. CASE UNCHANGED vars
  <2>1. \A u \in Tasks : Spared(u) /\ Same(u)
    BY <1>32 DEF vars, Spared, Same
  <2> QED
    BY <2>1, SameIntact DEF Spared, IntactInv
<1>33. CASE UdpStep
  BY <1>33, <1>4, <1>13, <1>14, <1>15, <1>16, <1>17, <1>20, <1>27
     DEF UdpStep, HandlerStep
<1>34. CASE TcpStep
  BY <1>34, <1>8, <1>11, <1>12, <1>13, <1>14, <1>15, <1>16, <1>17, <1>18,
     <1>19, <1>20, <1>22, <1>23, <1>24, <1>27, <1>37, <1>38
     DEF TcpStep, HandlerStep, SenderStep
<1>35. CASE RxStep
  BY <1>35, <1>16, <1>17, <1>22, <1>23, <1>24, <1>27, <1>29, <1>30, <1>31
     DEF RxStep, SenderStep
<1>36. CASE Environment
  <2>1. CASE ClientSends
    BY <2>1, <1>5, <1>6 DEF ClientSends
  <2>2. CASE \E p \in TcpPeers, fd \in Fds : Accept(p, fd)
    BY <2>2, <1>10
  <2>3. CASE \E d \in Telegrams, c \in BOOLEAN : ReadTelegram(d, c)
    BY <2>3, <1>28
  <2> QED
    BY <1>36, <2>1, <2>2, <2>3, <1>2, <1>3, <1>7, <1>9 DEF Environment
<1>39. CASE UdpCall
  BY <1>39, <1>1, <1>21 DEF UdpCall
<1>40. ASSUME NEW s \in Senders, SendCall(s) PROVE IntactInv'
  BY <1>40, <1>25, <1>26 DEF SendCall
<1> QED
  BY <1>32, <1>33, <1>34, <1>35, <1>36, <1>39, <1>40 DEF Next

\* Only another task can spoil a frame: for every frame length and however send
\* splits a frame, one that nobody disturbed reaches one client whole.
THEOREM UndisturbedFramesAreIntact == Spec => []UndisturbedFrameIsIntact
<1>1. Init => ExchangeInv /\ IntactInv
  BY DEF Init, ExchangeInv, QuietInv, DatagramInv, IntactInv
<1>2. Spec => []TypeInv
  BY TypeInvInit, TypeInvNext, PTL DEF Spec
<1>3. IntactInv => UndisturbedFrameIsIntact
  BY DEF IntactInv, Intact, Sent, UndisturbedFrameIsIntact
<1> QED
  BY <1>1, <1>2, <1>3, ExchangeInvNext, IntactInvNext, PTL DEF Spec

\* No task sends an octet of IP_TxBuffer that was never written, whatever the
\* others do to the length while it sends.
THEOREM OnlyWrittenIsSent == Spec => []SendsOnlyWritten
<1>1. Init => ExchangeInv /\ WrittenInv
  <2>1. Init => ExchangeInv
    BY DEF Init, ExchangeInv, QuietInv, DatagramInv
  <2>2. Init => WrittenInv
    BY DEF Init, WrittenInv, SendsOnlyWritten, Ready, Position
  <2> QED
    BY <2>1, <2>2
<1>2. Spec => []TypeInv
  BY TypeInvInit, TypeInvNext, PTL DEF Spec
<1>3. WrittenInv => SendsOnlyWritten
  BY DEF WrittenInv
<1> QED
  BY <1>1, <1>2, <1>3, ExchangeInvNext, WrittenInvNext, PTL DEF Spec

-----------------------------------------------------------------------------
(***************************************************************************)
(* What the comments of the TCP task say is true within limits.            *)
(***************************************************************************)
\* A TCP request that is not answered is the only way for the task to send
\* without a frame.
PromptedInv ==
  pc["tcp"] \in { "check", "send" } /\ frame["tcp"] = NoFrame =>
    ~Answered("tcp", req["tcp"].pdu)

LEMMA PromptedInvNext == TypeInv /\ PromptedInv /\ [Next]_vars => PromptedInv'
<1> SUFFICES ASSUME TypeInv, PromptedInv, [Next]_vars PROVE PromptedInv'
  OBVIOUS
<1>0. /\ pc \in [Tasks -> UdpLabel \cup TcpLabel \cup RxLabel]
      /\ pc["udp"] \in UdpLabel /\ pc["tcp"] \in TcpLabel /\ pc["rx"] \in RxLabel
      /\ req \in [Handlers -> Received \cup {NoReq}]
      /\ frame \in [Tasks -> Frame \cup {NoFrame}]
      /\ HandlerShape
  BY DEF TypeInv, TypeOK, Shape
<1> USE <1>0 DEF PromptedInv, HandlerShape, UdpLabel, TcpLabel, RxLabel, AtWork,
       shared, sockets, rxLocals, session, wire
<1>1. CASE CreateSocket
  BY <1>1 DEF CreateSocket
<1>2. CASE CreateSocketFails
  BY <1>2 DEF CreateSocketFails
<1>3. CASE SelectFails
  BY <1>3 DEF SelectFails
<1>4. CASE Restart
  BY <1>4 DEF Restart
<1>5. ASSUME NEW c \in UdpClients, NEW r \in UdpRequests[c], RecvFrom(c, r) PROVE PromptedInv'
  BY <1>5 DEF RecvFrom, Receive
<1>6. ASSUME NEW r \in TcpRequests, Recv(r) PROVE PromptedInv'
  BY <1>6 DEF Recv, Receive
<1>7. CASE RecvEnds
  BY <1>7 DEF RecvEnds
<1>8. CASE Listen
  BY <1>8 DEF Listen
<1>9. CASE ServerFails
  BY <1>9 DEF ServerFails
<1>10. ASSUME NEW p \in TcpPeers, NEW fd \in Fds, Accept(p, fd) PROVE PromptedInv'
  BY <1>10 DEF Accept
<1>11. CASE PublishSocket
  BY <1>11 DEF PublishSocket
<1>12. CASE CloseConnection
  BY <1>12 DEF CloseConnection
<1>13. ASSUME NEW h \in Handlers, Dispatch(h) PROVE PromptedInv'
  BY <1>13 DEF Dispatch
<1>14. ASSUME NEW h \in Handlers, Ignore(h) PROVE PromptedInv'
  BY <1>14 DEF Ignore, Caller
<1>15. ASSUME NEW h \in Handlers, TunnelIP2TP(h) PROVE PromptedInv'
  BY <1>15 DEF TunnelIP2TP
<1>16. ASSUME NEW t \in Tasks, WriteBody(t) PROVE PromptedInv'
  BY <1>16 DEF WriteBody
<1>17. ASSUME NEW t \in Tasks, WriteHeader(t) PROVE PromptedInv'
  BY <1>17 DEF WriteHeader
<1>18. CASE CopyRequest
  BY <1>18 DEF CopyRequest
<1>19. CASE PatchRequest
  BY <1>19 DEF PatchRequest
<1>20. ASSUME NEW h \in Handlers, SetConnected(h) PROVE PromptedInv'
  BY <1>20 DEF SetConnected
<1>21. CASE UDPSend
  BY <1>21 DEF UDPSend
<1>22. ASSUME NEW s \in Senders, TcpUpdateTxBuffer(s) PROVE PromptedInv'
  BY <1>22 DEF TcpUpdateTxBuffer
<1>23. ASSUME NEW s \in Senders, StartSend(s) PROVE PromptedInv'
  BY <1>23 DEF StartSend
<1>24. ASSUME NEW s \in Senders, NothingToSend(s) PROVE PromptedInv'
  BY <1>24 DEF NothingToSend, Clear, Caller
<1>25. ASSUME NEW s \in Senders, NEW n \in 1 .. MaxSegs, SendPart(s, n) PROVE PromptedInv'
  BY <1>25 DEF SendPart
<1>26. ASSUME NEW s \in Senders, SendFails(s) PROVE PromptedInv'
  BY <1>26 DEF SendFails, Clear, Caller
<1>27. ASSUME NEW t \in Tasks, Return(t) PROVE PromptedInv'
  BY <1>27 DEF Return, Clear, Caller
<1>28. ASSUME NEW d \in Telegrams, NEW c \in BOOLEAN, ReadTelegram(d, c) PROVE PromptedInv'
  BY <1>28 DEF ReadTelegram
<1>29. CASE PassSocket
  BY <1>29 DEF PassSocket
<1>30. CASE Confirm
  BY <1>30 DEF Confirm
<1>31. CASE TelegramDone
  BY <1>31 DEF TelegramDone
<1>37. CASE DispatchUnlengthed
  BY <1>37 DEF DispatchUnlengthed
<1>38. CASE PatchStray
  BY <1>38 DEF PatchStray, Answered
<1>32. CASE UNCHANGED vars
  BY <1>32 DEF vars
<1> HIDE DEF PromptedInv
<1>33. CASE UdpStep
  BY <1>33, <1>4, <1>13, <1>14, <1>15, <1>16, <1>17, <1>20, <1>27
     DEF UdpStep, HandlerStep
<1>34. CASE TcpStep
  BY <1>34, <1>8, <1>11, <1>12, <1>13, <1>14, <1>15, <1>16, <1>17, <1>18,
     <1>19, <1>20, <1>22, <1>23, <1>24, <1>27, <1>37, <1>38
     DEF TcpStep, HandlerStep, SenderStep
<1>35. CASE RxStep
  BY <1>35, <1>16, <1>17, <1>22, <1>23, <1>24, <1>27, <1>29, <1>30, <1>31
     DEF RxStep, SenderStep
<1>36. CASE Environment
  <2>1. CASE ClientSends
    BY <2>1, <1>5, <1>6 DEF ClientSends
  <2>2. CASE \E p \in TcpPeers, fd \in Fds : Accept(p, fd)
    BY <2>2, <1>10
  <2>3. CASE \E d \in Telegrams, c \in BOOLEAN : ReadTelegram(d, c)
    BY <2>3, <1>28
  <2> QED
    BY <1>36, <2>1, <2>2, <2>3, <1>2, <1>3, <1>7, <1>9 DEF Environment
<1>39. CASE UdpCall
  BY <1>39, <1>1, <1>21 DEF UdpCall
<1>40. ASSUME NEW s \in Senders, SendCall(s) PROVE PromptedInv'
  BY <1>40, <1>25, <1>26 DEF SendCall
<1> QED
  BY <1>32, <1>33, <1>34, <1>35, <1>36, <1>39, <1>40 DEF Next

\* KNXnetIP_TcpServer.c:78 is right as long as every request is answered: what
\* the TCP task sends without having built it follows a request that
\* IP_L_Data_Ind leaves unanswered, a DISCONNECT_RESPONSE, a faulty one or a
\* telegram whose frame says it has no octets.
THEOREM UnansweredOnly ==
  Spec => [](TcpSendsItsAnswer \/ ~Answered("tcp", req["tcp"].pdu))
<1>1. Init => PromptedInv
  BY DEF Init, PromptedInv
<1>2. Spec => []TypeInv
  BY TypeInvInit, TypeInvNext, PTL DEF Spec
<1>3. PromptedInv => TcpSendsItsAnswer \/ ~Answered("tcp", req["tcp"].pdu)
  BY DEF PromptedInv, TcpSendsItsAnswer
<1> QED
  BY <1>1, <1>2, <1>3, PromptedInvNext, PTL DEF Spec

LEMMA Concatenated ==
  ASSUME NEW S, NEW first \in Seq(S), NEW second \in Seq(S)
  PROVE  Len(first \o second) = Len(first) + Len(second) /\ Len(first) \in Nat
OBVIOUS

\* A call of send makes what a sender has sent longer by what it takes.
LEMMA SentLonger ==
  ASSUME TypeInv, NEW s \in Senders, NEW n \in 1 .. MaxSegs, SendPart(s, n)
  PROVE  /\ Len(sent'[s]) = Len(sent[s]) + n /\ Len(sent[s]) \in Nat
         /\ \A u \in Tasks \ {s} : sent'[u] = sent[u]
<1>1. DEFINE part == [k \in 1 .. n |-> Memory(Tcp_TxLength - to_write[s] + k - 1)]
<1>2. part \in [1 .. n -> Content \cup {Outside}]
  BY DEF Memory, TypeInv, TypeOK
<1>3. n \in Nat
  OBVIOUS
<1>4. sent' = [sent EXCEPT ![s] = @ \o part]
  BY DEF SendPart
<1> HIDE DEF part
<1>5. part \in Seq(Content \cup {Outside}) /\ Len(part) = n
  BY <1>2, <1>3
<1>6. sent[s] \in Seq(Content \cup {Outside}) /\ sent'[s] = sent[s] \o part
  BY <1>4 DEF TypeInv, TypeOK
<1>7. Len(sent'[s]) = Len(sent[s]) + n /\ Len(sent[s]) \in Nat
  BY <1>5, <1>6, Concatenated
<1> QED
  BY <1>4, <1>7 DEF TypeInv, TypeOK

\* One of the two send loops is not in use: no bus telegram is tunnelled, or no
\* TCP client sends a request.
OneSender == Telegrams = {} \/ TcpRequests = {}

\* The loop that is not in use never touches the length.
Unused(s) ==
  /\ s = "rx" => pc["rx"] = "read"
  /\ s = "tcp" => pc["tcp"] \notin AtWork

LoneInv ==
  /\ Telegrams = {} => Unused("rx")
  /\ TcpRequests = {} => Unused("tcp")
  /\ \A s \in Senders :
       pc[s] = "send" => Tcp_TxLength - to_write[s] = Len(sent[s])

LEMMA LoneInvNext ==
  ASSUME OneSender
  PROVE  TypeInv /\ ExchangeInv /\ LoneInv /\ [Next]_vars => LoneInv'
<1> SUFFICES ASSUME TypeInv, ExchangeInv, LoneInv, [Next]_vars PROVE LoneInv'
  OBVIOUS
<1>0. /\ pc \in [Tasks -> UdpLabel \cup TcpLabel \cup RxLabel]
      /\ pc["udp"] \in UdpLabel /\ pc["tcp"] \in TcpLabel /\ pc["rx"] \in RxLabel
      /\ req \in [Handlers -> Received \cup {NoReq}]
      /\ frame \in [Tasks -> Frame \cup {NoFrame}]
      /\ Tcp_TxLength \in 0 .. MaxSegs
      /\ to_write \in [Senders -> 0 .. MaxSegs]
      /\ sent \in [Tasks -> Seq(Content \cup {Outside})]
      /\ QuietInv
  BY DEF TypeInv, TypeOK, ExchangeInv
<1> USE <1>0 DEF OneSender, LoneInv, Unused, QuietInv, UdpLabel,
       TcpLabel, RxLabel, AtWork, shared, sockets, rxLocals, session, wire
<1>1. CASE CreateSocket
  BY <1>1 DEF CreateSocket
<1>2. CASE CreateSocketFails
  BY <1>2 DEF CreateSocketFails
<1>3. CASE SelectFails
  BY <1>3 DEF SelectFails
<1>4. CASE Restart
  BY <1>4 DEF Restart
<1>5. ASSUME NEW c \in UdpClients, NEW r \in UdpRequests[c], RecvFrom(c, r) PROVE LoneInv'
  BY <1>5 DEF RecvFrom, Receive
<1>6. ASSUME NEW r \in TcpRequests, Recv(r) PROVE LoneInv'
  BY <1>6 DEF Recv, Receive
<1>7. CASE RecvEnds
  BY <1>7 DEF RecvEnds
<1>8. CASE Listen
  BY <1>8 DEF Listen
<1>9. CASE ServerFails
  BY <1>9 DEF ServerFails
<1>10. ASSUME NEW p \in TcpPeers, NEW fd \in Fds, Accept(p, fd) PROVE LoneInv'
  BY <1>10 DEF Accept
<1>11. CASE PublishSocket
  BY <1>11 DEF PublishSocket
<1>12. CASE CloseConnection
  BY <1>12 DEF CloseConnection
<1>13. ASSUME NEW h \in Handlers, Dispatch(h) PROVE LoneInv'
  BY <1>13 DEF Dispatch
<1>14. ASSUME NEW h \in Handlers, Ignore(h) PROVE LoneInv'
  BY <1>14 DEF Ignore, Caller
<1>15. ASSUME NEW h \in Handlers, TunnelIP2TP(h) PROVE LoneInv'
  BY <1>15 DEF TunnelIP2TP
<1>16. ASSUME NEW t \in Tasks, WriteBody(t) PROVE LoneInv'
  BY <1>16 DEF WriteBody
<1>17. ASSUME NEW t \in Tasks, WriteHeader(t) PROVE LoneInv'
  BY <1>17 DEF WriteHeader
<1>18. CASE CopyRequest
  BY <1>18 DEF CopyRequest
<1>19. CASE PatchRequest
  BY <1>19 DEF PatchRequest
<1>20. ASSUME NEW h \in Handlers, SetConnected(h) PROVE LoneInv'
  BY <1>20 DEF SetConnected
<1>21. CASE UDPSend
  BY <1>21 DEF UDPSend
<1>22. ASSUME NEW s \in Senders, TcpUpdateTxBuffer(s) PROVE LoneInv'
  BY <1>22 DEF TcpUpdateTxBuffer
<1>23. ASSUME NEW s \in Senders, StartSend(s) PROVE LoneInv'
  BY <1>23 DEF StartSend
<1>24. ASSUME NEW s \in Senders, NothingToSend(s) PROVE LoneInv'
  BY <1>24 DEF NothingToSend, Clear, Caller
<1>25. ASSUME NEW s \in Senders, NEW n \in 1 .. MaxSegs, SendPart(s, n) PROVE LoneInv'
  <2>7. /\ Len(sent'[s]) = Len(sent[s]) + n
        /\ \A u \in Senders \ {s} : sent'[u] = sent[u]
    BY <1>25, SentLonger
  <2>8. /\ to_write' = [to_write EXCEPT ![s] = @ - n]
        /\ pc[s] = "send" /\ UNCHANGED Tcp_TxLength
        /\ pc' = pc \/ pc' = [pc EXCEPT ![s] = "sent"]
    BY <1>25 DEF SendPart
  <2>9. s \in Tasks /\ to_write[s] \in Nat /\ Len(sent[s]) \in Nat
    OBVIOUS
  <2>10. /\ Telegrams = {} => Unused("rx")'
         /\ TcpRequests = {} => Unused("tcp")'
    BY <2>8
  <2>11. ASSUME NEW u \in Senders, pc'[u] = "send"
         PROVE  Tcp_TxLength' - to_write'[u] = Len(sent'[u])
    <3>1. pc[u] = "send"
      BY <2>8, <2>9, <2>11
    <3>2. Tcp_TxLength - to_write[u] = Len(sent[u])
      BY <3>1
    <3>3. CASE u = s
      <4>1. to_write'[s] = to_write[s] - n
        BY <2>8
      <4>2. Tcp_TxLength - to_write[s] = Len(sent[s])
        BY <3>2, <3>3
      <4>3. /\ Tcp_TxLength \in Int /\ to_write[s] \in Int /\ n \in Int
            /\ Tcp_TxLength' = Tcp_TxLength /\ Len(sent'[s]) = Len(sent[s]) + n
        BY <2>7, <2>8, <2>9
      <4> QED
        BY ONLY <3>3, <4>1, <4>2, <4>3
    <3>4. CASE u # s
      BY <2>7, <2>8, <3>2, <3>4
    <3> QED
      BY <3>3, <3>4
  <2> QED
    BY <2>10, <2>11
<1>26. ASSUME NEW s \in Senders, SendFails(s) PROVE LoneInv'
  BY <1>26 DEF SendFails, Clear, Caller
<1>27. ASSUME NEW t \in Tasks, Return(t) PROVE LoneInv'
  BY <1>27 DEF Return, Clear, Caller
<1>28. ASSUME NEW d \in Telegrams, NEW c \in BOOLEAN, ReadTelegram(d, c) PROVE LoneInv'
  BY <1>28 DEF ReadTelegram
<1>29. CASE PassSocket
  BY <1>29 DEF PassSocket
<1>30. CASE Confirm
  BY <1>30 DEF Confirm
<1>31. CASE TelegramDone
  BY <1>31 DEF TelegramDone
<1>37. CASE DispatchUnlengthed
  BY <1>37 DEF DispatchUnlengthed
<1>38. CASE PatchStray
  BY <1>38 DEF PatchStray
<1>32. CASE UNCHANGED vars
  BY <1>32 DEF vars
<1> HIDE DEF LoneInv
<1>33. CASE UdpStep
  BY <1>33, <1>4, <1>13, <1>14, <1>15, <1>16, <1>17, <1>20, <1>27
     DEF UdpStep, HandlerStep
<1>34. CASE TcpStep
  BY <1>34, <1>8, <1>11, <1>12, <1>13, <1>14, <1>15, <1>16, <1>17, <1>18,
     <1>19, <1>20, <1>22, <1>23, <1>24, <1>27, <1>37, <1>38
     DEF TcpStep, HandlerStep, SenderStep
<1>35. CASE RxStep
  BY <1>35, <1>16, <1>17, <1>22, <1>23, <1>24, <1>27, <1>29, <1>30, <1>31
     DEF RxStep, SenderStep
<1>36. CASE Environment
  <2>1. CASE ClientSends
    BY <2>1, <1>5, <1>6 DEF ClientSends
  <2>2. CASE \E p \in TcpPeers, fd \in Fds : Accept(p, fd)
    BY <2>2, <1>10
  <2>3. CASE \E d \in Telegrams, c \in BOOLEAN : ReadTelegram(d, c)
    BY <2>3, <1>28
  <2> QED
    BY <1>36, <2>1, <2>2, <2>3, <1>2, <1>3, <1>7, <1>9 DEF Environment
<1>39. CASE UdpCall
  BY <1>39, <1>1, <1>21 DEF UdpCall
<1>40. ASSUME NEW s \in Senders, SendCall(s) PROVE LoneInv'
  BY <1>40, <1>25, <1>26 DEF SendCall
<1> QED
  BY <1>32, <1>33, <1>34, <1>35, <1>36, <1>39, <1>40 DEF Next

\* The first segments of a frame are as many as they are.
LEMMA FirstSegments ==
  ASSUME NEW f, SegCount[f.svc] \in Nat, NEW n \in Nat, n < SegCount[f.svc]
  PROVE  Len(SubSeq(Octets(f), 1, n)) = n
<1>1. DEFINE q == Octets(f)
<1>2. q \in Seq({f} \X Int) /\ Len(q) = SegCount[f.svc]
  <2>1. q \in [1 .. SegCount[f.svc] -> {f} \X Int]
    BY DEF Octets, Segment
  <2> HIDE DEF q
  <2> QED
    BY <2>1
<1> HIDE DEF q
<1>3. Len(SubSeq(q, 1, n)) = n
  BY <1>2
<1> QED
  BY <1>3 DEF q

\* KNXnetIP_TcpServer.c:86 is right as long as only one of the two send loops is
\* in use: however send splits the frames, each next call starts where the last
\* one stopped.  Only the two loops together break it.
THEOREM LoneSenderContinues ==
  ASSUME OneSender
  PROVE  Spec => []ContinuesWhereItStopped
<1>1. Init => ExchangeInv /\ LoneInv
  BY DEF Init, ExchangeInv, QuietInv, DatagramInv, LoneInv, Unused, AtWork
<1>2. Spec => []TypeInv
  BY TypeInvInit, TypeInvNext, PTL DEF Spec
<1>3. TypeInv /\ LoneInv => ContinuesWhereItStopped
  <2> SUFFICES ASSUME TypeInv, LoneInv, NEW s \in Senders, NEW n \in 1 .. MaxSegs,
                      pc[s] = "send", frame[s] # NoFrame,
                      n < SegCount[frame[s].svc],
                      sent[s] = SubSeq(Octets(frame[s]), 1, n)
               PROVE  Tcp_TxLength - to_write[s] = n
    BY DEF ContinuesWhereItStopped
  <2>1. SegCount[frame[s].svc] \in Nat
    BY FrameLength DEF TypeInv, TypeOK
  <2>2. Len(sent[s]) = n
    BY <2>1, FirstSegments
  <2> QED
    BY <2>2 DEF LoneInv
<1>4. TypeInv /\ ExchangeInv /\ LoneInv /\ [Next]_vars => LoneInv'
  BY LoneInvNext
<1> QED
  BY <1>1, <1>2, <1>3, <1>4, ExchangeInvNext, PTL DEF Spec

-----------------------------------------------------------------------------
(***************************************************************************)
(* The TCP exchange.  The length is always that of a frame, whoever set it; *)
(* the TCP task reads it once, when it starts to send, and counts down.    *)
(***************************************************************************)
LEMMA LengthsAre ==
  /\ \A n \in Service!Lengths : n \in 2 .. MaxSegs
  /\ \A f \in Frame : SegCount[f.svc] \in Service!Lengths
<1>1. FrameService = Service!FrameService
  BY DEF FrameService, Service!FrameService
<1> QED
  BY <1>1 DEF Service!Lengths, Frame

ServiceInv ==
  /\ Tcp_TxLength \in {0} \cup Service!Lengths
  /\ pc["tcp"] \in AtWork => req["tcp"].from = conn.peer
  /\ pc["tcp"] = "check" /\ Answered("tcp", req["tcp"].pdu) => Tcp_TxLength # 0
  /\ pc["tcp"] = "send" =>
       /\ to_write["tcp"] >= 1
       /\ Len(sent["tcp"]) + to_write["tcp"] \in Service!Lengths
       /\ sentTo["tcp"] \subseteq { conn.peer }
  /\ pc["tcp"] = "sent" => Len(sent["tcp"]) \in Service!Lengths

LEMMA ServiceInvNext == TypeInv /\ ExchangeInv /\ ServiceInv /\ [Next]_vars => ServiceInv'
<1> SUFFICES ASSUME TypeInv, ExchangeInv, ServiceInv, [Next]_vars PROVE ServiceInv'
  OBVIOUS
<1>0. /\ pc \in [Tasks -> UdpLabel \cup TcpLabel \cup RxLabel]
      /\ pc["udp"] \in UdpLabel /\ pc["tcp"] \in TcpLabel /\ pc["rx"] \in RxLabel
      /\ req \in [Handlers -> Received \cup {NoReq}]
      /\ frame \in [Tasks -> Frame \cup {NoFrame}]
      /\ Tcp_TxLength \in 0 .. MaxSegs
      /\ to_write \in [Senders -> 0 .. MaxSegs]
      /\ sent \in [Tasks -> Seq(Content \cup {Outside})]
      /\ sentTo \in [Tasks -> SUBSET (UdpClients \cup TcpPeers)]
      /\ HandlerShape /\ RxShape
      /\ QuietInv
  BY DEF TypeInv, TypeOK, Shape, ExchangeInv
<1> USE <1>0 DEF ServiceInv, QuietInv, HandlerShape, RxShape, UdpLabel, TcpLabel,
       RxLabel, AtWork, shared, sockets, rxLocals, session, wire
<1>1. CASE CreateSocket
  BY <1>1 DEF CreateSocket
<1>2. CASE CreateSocketFails
  BY <1>2 DEF CreateSocketFails
<1>3. CASE SelectFails
  BY <1>3 DEF SelectFails
<1>4. CASE Restart
  BY <1>4 DEF Restart
<1>5. ASSUME NEW c \in UdpClients, NEW r \in UdpRequests[c], RecvFrom(c, r) PROVE ServiceInv'
  BY <1>5 DEF RecvFrom, Receive
<1>6. ASSUME NEW r \in TcpRequests, Recv(r) PROVE ServiceInv'
  BY <1>6 DEF Recv, Receive
<1>7. CASE RecvEnds
  BY <1>7 DEF RecvEnds
<1>8. CASE Listen
  BY <1>8 DEF Listen
<1>9. CASE ServerFails
  BY <1>9 DEF ServerFails
<1>10. ASSUME NEW p \in TcpPeers, NEW fd \in Fds, Accept(p, fd) PROVE ServiceInv'
  BY <1>10 DEF Accept
<1>11. CASE PublishSocket
  BY <1>11 DEF PublishSocket
<1>12. CASE CloseConnection
  BY <1>12 DEF CloseConnection
<1>13. ASSUME NEW h \in Handlers, Dispatch(h) PROVE ServiceInv'
  BY <1>13 DEF Dispatch
<1>14. ASSUME NEW h \in Handlers, Ignore(h) PROVE ServiceInv'
  BY <1>14 DEF Ignore, Caller
<1>15. ASSUME NEW h \in Handlers, TunnelIP2TP(h) PROVE ServiceInv'
  BY <1>15 DEF TunnelIP2TP
<1>16. ASSUME NEW t \in Tasks, WriteBody(t) PROVE ServiceInv'
  BY <1>16 DEF WriteBody
<1>17. ASSUME NEW t \in Tasks, WriteHeader(t) PROVE ServiceInv'
  BY <1>17 DEF WriteHeader
<1>18. CASE CopyRequest
  BY <1>18 DEF CopyRequest
<1>19. CASE PatchRequest
  BY <1>19 DEF PatchRequest
<1>20. ASSUME NEW h \in Handlers, SetConnected(h) PROVE ServiceInv'
  BY <1>20 DEF SetConnected
<1>21. CASE UDPSend
  BY <1>21 DEF UDPSend
<1>22. ASSUME NEW s \in Senders, TcpUpdateTxBuffer(s) PROVE ServiceInv'
  <2>1. SegCount[frame[s].svc] \in Service!Lengths /\ SegCount[frame[s].svc] # 0
    BY <1>22, LengthsAre DEF TcpUpdateTxBuffer
  <2> QED
    BY <1>22, <2>1 DEF TcpUpdateTxBuffer
<1>23. ASSUME NEW s \in Senders, StartSend(s) PROVE ServiceInv'
  <2>1. pc[s] = "check" => Len(sent[s]) = 0 /\ sentTo[s] = {}
    OBVIOUS
  <2>2. CASE s = "rx"
    BY <1>23, <2>2 DEF StartSend
  <2>3. CASE s = "tcp"
    <3>5. /\ to_write'["tcp"] = Tcp_TxLength /\ Tcp_TxLength # 0
          /\ pc["tcp"] = "check" /\ sent' = sent /\ sentTo' = sentTo
      BY <1>23, <2>3 DEF StartSend
    <3>6. Tcp_TxLength \in Service!Lengths
      BY <3>5
    <3>1. /\ to_write'["tcp"] = Tcp_TxLength /\ Tcp_TxLength \in Service!Lengths
          /\ Len(sent'["tcp"]) = 0 /\ sentTo'["tcp"] = {}
      BY <2>1, <2>3, <3>5, <3>6
    <3>4. Tcp_TxLength >= 1
      BY <3>1, LengthsAre
    <3>7. Len(sent'["tcp"]) + to_write'["tcp"] = Tcp_TxLength
      BY <3>1
    <3>2. Len(sent'["tcp"]) + to_write'["tcp"] \in Service!Lengths
      BY <3>6, <3>7
    <3>3. /\ pc' = [pc EXCEPT !["tcp"] = "send"]
          /\ UNCHANGED << req, Tcp_TxLength, conn, sentTo, sent >>
      BY <1>23, <2>3 DEF StartSend
    <3>8. pc'["tcp"] = "send" /\ req'["tcp"].from = conn'.peer
      BY <3>3, <3>5
    <3>9. Tcp_TxLength' \in {0} \cup Service!Lengths
      BY <3>3, <3>6
    <3> QED
      BY <3>1, <3>2, <3>4, <3>8, <3>9
  <2> QED
    BY <2>2, <2>3
<1>24. ASSUME NEW s \in Senders, NothingToSend(s) PROVE ServiceInv'
  BY <1>24 DEF NothingToSend, Clear, Caller
<1>25. ASSUME NEW s \in Senders, NEW n \in 1 .. MaxSegs, SendPart(s, n) PROVE ServiceInv'
  <2>4. /\ Len(sent'[s]) = Len(sent[s]) + n /\ Len(sent[s]) \in Nat
        /\ \A u \in Senders \ {s} : sent'[u] = sent[u]
    BY <1>25, SentLonger
  <2>7. /\ to_write' = [to_write EXCEPT ![s] = @ - n]
        /\ sentTo' = [sentTo EXCEPT ![s] = @ \cup { conn.peer }]
        /\ pc[s] = "send" /\ n <= to_write[s]
        /\ UNCHANGED << req, frame, Tcp_TxLength, conn >>
        /\ IF n = to_write[s] THEN pc' = [pc EXCEPT ![s] = "sent"] ELSE pc' = pc
    BY <1>25 DEF SendPart
  <2>8. CASE s = "rx"
    <3>1. /\ pc'["tcp"] = pc["tcp"] /\ to_write'["tcp"] = to_write["tcp"]
          /\ sent'["tcp"] = sent["tcp"] /\ sentTo'["tcp"] = sentTo["tcp"]
      BY <2>4, <2>7, <2>8
    <3> QED
      BY <2>7, <3>1
  <2>9. CASE s = "tcp"
    <3>1. /\ Len(sent'["tcp"]) = Len(sent["tcp"]) + n /\ Len(sent["tcp"]) \in Nat
          /\ to_write'["tcp"] = to_write["tcp"] - n /\ to_write["tcp"] \in Nat
          /\ sentTo'["tcp"] \subseteq { conn.peer }
      BY <2>4, <2>7, <2>9
    <3>2. CASE n = to_write["tcp"]
      <4>1. pc'["tcp"] = "sent"
        BY <2>7, <2>9, <3>2
      <4>2. Len(sent'["tcp"]) = Len(sent["tcp"]) + to_write["tcp"]
        BY <3>1, <3>2
      <4> QED
        BY <2>7, <2>9, <4>1, <4>2
    <3>3. CASE n # to_write["tcp"]
      <4>1. pc' = pc /\ pc["tcp"] = "send"
        BY <2>7, <2>9, <3>3
      <4>2. to_write'["tcp"] >= 1
        BY <2>7, <2>9, <3>1, <3>3
      <4>3. Len(sent'["tcp"]) + to_write'["tcp"] = Len(sent["tcp"]) + to_write["tcp"]
        BY <3>1
      <4> QED
        BY <2>7, <3>1, <4>1, <4>2, <4>3
    <3> QED
      BY <3>2, <3>3
  <2> QED
    BY <2>8, <2>9
<1>26. ASSUME NEW s \in Senders, SendFails(s) PROVE ServiceInv'
  BY <1>26 DEF SendFails, Clear, Caller
<1>27. ASSUME NEW t \in Tasks, Return(t) PROVE ServiceInv'
  BY <1>27 DEF Return, Clear, Caller
<1>28. ASSUME NEW d \in Telegrams, NEW c \in BOOLEAN, ReadTelegram(d, c) PROVE ServiceInv'
  BY <1>28 DEF ReadTelegram
<1>29. CASE PassSocket
  BY <1>29 DEF PassSocket
<1>30. CASE Confirm
  BY <1>30 DEF Confirm
<1>31. CASE TelegramDone
  BY <1>31 DEF TelegramDone
<1>37. CASE DispatchUnlengthed
  BY <1>37 DEF DispatchUnlengthed
<1>38. CASE PatchStray
  BY <1>38 DEF PatchStray, Answered
<1>32. CASE UNCHANGED vars
  BY <1>32 DEF vars
<1> HIDE DEF ServiceInv
<1>33. CASE UdpStep
  BY <1>33, <1>4, <1>13, <1>14, <1>15, <1>16, <1>17, <1>20, <1>27
     DEF UdpStep, HandlerStep
<1>34. CASE TcpStep
  BY <1>34, <1>8, <1>11, <1>12, <1>13, <1>14, <1>15, <1>16, <1>17, <1>18,
     <1>19, <1>20, <1>22, <1>23, <1>24, <1>27, <1>37, <1>38
     DEF TcpStep, HandlerStep, SenderStep
<1>35. CASE RxStep
  BY <1>35, <1>16, <1>17, <1>22, <1>23, <1>24, <1>27, <1>29, <1>30, <1>31
     DEF RxStep, SenderStep
<1>36. CASE Environment
  <2>1. CASE ClientSends
    BY <2>1, <1>5, <1>6 DEF ClientSends
  <2>2. CASE \E p \in TcpPeers, fd \in Fds : Accept(p, fd)
    BY <2>2, <1>10
  <2>3. CASE \E d \in Telegrams, c \in BOOLEAN : ReadTelegram(d, c)
    BY <2>3, <1>28
  <2> QED
    BY <1>36, <2>1, <2>2, <2>3, <1>2, <1>3, <1>7, <1>9 DEF Environment
<1>39. CASE UdpCall
  BY <1>39, <1>1, <1>21 DEF UdpCall
<1>40. ASSUME NEW s \in Senders, SendCall(s) PROVE ServiceInv'
  BY <1>40, <1>25, <1>26 DEF SendCall
<1> QED
  BY <1>32, <1>33, <1>34, <1>35, <1>36, <1>39, <1>40 DEF Next

\* What the TCP task does between two requests, and what the other two tasks do,
\* leaves the exchange alone.
Serving == pc["tcp"] \notin { "bind", "accept", "close", "deleted" }

Unserved ==
  /\ Serving' <=> Serving
  /\ Serving => conn'.peer = conn.peer
  /\ req'["tcp"] = req["tcp"] /\ sent'["tcp"] = sent["tcp"]
  /\ sentTo'["tcp"] = sentTo["tcp"]

LEMMA UnservedStutters == Unserved => UNCHANGED Service!vars
BY DEF Unserved, Serving, Service!vars

\* The task is back where it waits for a request, and has sent what it should.
Done ==
  /\ req["tcp"] # NoReq
  /\ Len(sent["tcp"]) \in Service!Lengths
     \/ (sent["tcp"] = << >> /\ sentTo["tcp"] = {} /\ ~Answered("tcp", req["tcp"].pdu))
  /\ Serving /\ Serving' /\ conn' = conn
  /\ req'["tcp"] = NoReq /\ sent'["tcp"] = << >> /\ sentTo'["tcp"] = {}

LEMMA DoneFinishes == Done => Service!Finish
<1> SUFFICES ASSUME Done PROVE Service!Finish
  OBVIOUS
<1>1. Service!Answered("tcp", req["tcp"].pdu) <=> Answered("tcp", req["tcp"].pdu)
  BY DEF Service!Answered, Service!Accepted, Service!Unlengthed, Answered, Accepted,
         Unlengthed
<1>2. Len(<< >>) = 0
  OBVIOUS
<1> QED
  BY <1>1, <1>2 DEF Done, Serving, Service!Finish, Service!NoReply

\* The connection is given up.
Dropped ==
  /\ Serving /\ ~Serving'
  /\ req'["tcp"] = NoReq /\ sent'["tcp"] = << >> /\ sentTo'["tcp"] = {}

LEMMA DroppedDrops == Dropped => Service!Drop
<1>1. Len(<< >>) = 0
  OBVIOUS
<1> QED
  BY <1>1 DEF Dropped, Serving, Service!Drop, Service!NoReply

\* What a step of the gateway is to the TCP client.
ServiceStep ==
  \/ Unserved \/ Done \/ Dropped
  \/ \E c \in TcpPeers : Service!Connect(c) \/ \E r \in TcpRequests : Service!Ask(c, r)
  \/ \E n \in 1 .. MaxSegs : Service!Send(n)

LEMMA ServiceStepIs == ServiceStep => [Service!Next]_(Service!vars)
BY UnservedStutters, DoneFinishes, DroppedDrops DEF ServiceStep, Service!Next

LEMMA ServiceSteps == TypeInv /\ ExchangeInv /\ ServiceInv /\ [Next]_vars => ServiceStep
<1> SUFFICES ASSUME TypeInv, ExchangeInv, ServiceInv, [Next]_vars PROVE ServiceStep
  OBVIOUS
<1>0. /\ pc \in [Tasks -> UdpLabel \cup TcpLabel \cup RxLabel]
      /\ pc["udp"] \in UdpLabel /\ pc["tcp"] \in TcpLabel /\ pc["rx"] \in RxLabel
      /\ req \in [Handlers -> Received \cup {NoReq}]
      /\ frame \in [Tasks -> Frame \cup {NoFrame}]
      /\ sent \in [Tasks -> Seq(Content \cup {Outside})]
      /\ sentTo \in [Tasks -> SUBSET (UdpClients \cup TcpPeers)]
      /\ conn \in [ fd : Fds, peer : TcpPeers ] \cup {NoConn}
      /\ HandlerShape /\ SocketShape
      /\ QuietInv
  BY DEF TypeInv, TypeOK, Shape, ExchangeInv
<1> USE <1>0 DEF ServiceStep, Unserved, Serving, ServiceInv, QuietInv, HandlerShape,
       SocketShape, UdpLabel, TcpLabel, RxLabel, AtWork, shared, sockets, rxLocals,
       session, wire
<1>1. CASE CreateSocket
  BY <1>1 DEF CreateSocket
<1>2. CASE CreateSocketFails
  BY <1>2 DEF CreateSocketFails
<1>3. CASE SelectFails
  BY <1>3 DEF SelectFails
<1>4. CASE Restart
  BY <1>4 DEF Restart
<1>5. ASSUME NEW c \in UdpClients, NEW r \in UdpRequests[c], RecvFrom(c, r) PROVE ServiceStep
  BY <1>5 DEF RecvFrom, Receive
<1>6. ASSUME NEW r \in TcpRequests, Recv(r) PROVE ServiceStep
  <2>1. /\ pc["tcp"] = "recv" /\ pc'["tcp"] = "dispatch" /\ req["tcp"] = NoReq
        /\ req'["tcp"] = [ from |-> conn.peer, pdu |-> r ]
        /\ UNCHANGED << conn, sent, sentTo >>
    BY <1>6 DEF Recv, Receive
  <2>2. conn.peer \in TcpPeers
    BY <2>1
  <2>3. Service!Ask(conn.peer, r)
    BY <2>1 DEF Service!Ask
  <2> QED
    BY <2>2, <2>3
<1>7. CASE RecvEnds
  BY <1>7 DEF RecvEnds, Dropped
<1>8. CASE Listen
  BY <1>8 DEF Listen
<1>9. CASE ServerFails
  BY <1>9 DEF ServerFails
<1>10. ASSUME NEW p \in TcpPeers, NEW fd \in Fds, Accept(p, fd) PROVE ServiceStep
  <2>1. /\ pc["tcp"] = "accept" /\ pc'["tcp"] = "accepted" /\ conn'.peer = p
        /\ UNCHANGED << req, sent, sentTo >>
    BY <1>10 DEF Accept
  <2>2. Service!Connect(p)
    BY <2>1 DEF Service!Connect
  <2> QED
    BY <2>2
<1>11. CASE PublishSocket
  BY <1>11 DEF PublishSocket
<1>12. CASE CloseConnection
  BY <1>12 DEF CloseConnection
<1>13. ASSUME NEW h \in Handlers, Dispatch(h) PROVE ServiceStep
  BY <1>13 DEF Dispatch
<1>14. ASSUME NEW h \in Handlers, Ignore(h) PROVE ServiceStep
  BY <1>14 DEF Ignore, Caller
<1>15. ASSUME NEW h \in Handlers, TunnelIP2TP(h) PROVE ServiceStep
  BY <1>15 DEF TunnelIP2TP
<1>16. ASSUME NEW t \in Tasks, WriteBody(t) PROVE ServiceStep
  BY <1>16 DEF WriteBody
<1>17. ASSUME NEW t \in Tasks, WriteHeader(t) PROVE ServiceStep
  BY <1>17 DEF WriteHeader
<1>18. CASE CopyRequest
  BY <1>18 DEF CopyRequest
<1>19. CASE PatchRequest
  BY <1>19 DEF PatchRequest
<1>20. ASSUME NEW h \in Handlers, SetConnected(h) PROVE ServiceStep
  BY <1>20 DEF SetConnected
<1>21. CASE UDPSend
  BY <1>21 DEF UDPSend
<1>22. ASSUME NEW s \in Senders, TcpUpdateTxBuffer(s) PROVE ServiceStep
  BY <1>22 DEF TcpUpdateTxBuffer
<1>23. ASSUME NEW s \in Senders, StartSend(s) PROVE ServiceStep
  BY <1>23 DEF StartSend
<1>24. ASSUME NEW s \in Senders, NothingToSend(s) PROVE ServiceStep
  <2>1. CASE s = "tcp"
    <3>1. ~Answered("tcp", req["tcp"].pdu)
      BY <1>24, <2>1 DEF NothingToSend
    <3> QED
      BY <1>24, <2>1, <3>1 DEF NothingToSend, Clear, Caller, Done
  <2>2. CASE s = "rx"
    BY <1>24, <2>2 DEF NothingToSend, Clear, Caller
  <2> QED
    BY <2>1, <2>2
<1>25. ASSUME NEW s \in Senders, NEW n \in 1 .. MaxSegs, SendPart(s, n) PROVE ServiceStep
  <2>1. CASE s = "rx"
    BY <1>25, <2>1 DEF SendPart
  <2>2. CASE s = "tcp"
    <3>6. Len(sent'["tcp"]) = Len(sent["tcp"]) + n
      BY <1>25, <2>2, SentLonger
    <3>7. /\ pc["tcp"] = "send" /\ pc'["tcp"] \in { "send", "sent" }
          /\ sentTo'["tcp"] = sentTo["tcp"] \cup { conn.peer }
          /\ UNCHANGED << req, conn >>
      BY <1>25, <2>2 DEF SendPart
    <3>8. sentTo'["tcp"] = { req["tcp"].from } /\ req["tcp"] # NoReq
      BY <3>7
    <3>9. Service!Send(n)
      BY <3>6, <3>7, <3>8 DEF Service!Send
    <3> QED
      BY <3>9
  <2> QED
    BY <2>1, <2>2
<1>26. ASSUME NEW s \in Senders, SendFails(s) PROVE ServiceStep
  BY <1>26 DEF SendFails, Clear, Caller, Dropped
<1>27. ASSUME NEW t \in Tasks, Return(t) PROVE ServiceStep
  BY <1>27 DEF Return, Clear, Caller, Done
<1>28. ASSUME NEW d \in Telegrams, NEW c \in BOOLEAN, ReadTelegram(d, c) PROVE ServiceStep
  BY <1>28 DEF ReadTelegram
<1>29. CASE PassSocket
  BY <1>29 DEF PassSocket
<1>30. CASE Confirm
  BY <1>30 DEF Confirm
<1>31. CASE TelegramDone
  BY <1>31 DEF TelegramDone
<1>37. CASE DispatchUnlengthed
  BY <1>37 DEF DispatchUnlengthed
<1>38. CASE PatchStray
  BY <1>38 DEF PatchStray
<1>32. CASE UNCHANGED vars
  BY <1>32 DEF vars
<1> HIDE DEF ServiceStep
<1>33. CASE UdpStep
  BY <1>33, <1>4, <1>13, <1>14, <1>15, <1>16, <1>17, <1>20, <1>27
     DEF UdpStep, HandlerStep
<1>34. CASE TcpStep
  BY <1>34, <1>8, <1>11, <1>12, <1>13, <1>14, <1>15, <1>16, <1>17, <1>18,
     <1>19, <1>20, <1>22, <1>23, <1>24, <1>27, <1>37, <1>38
     DEF TcpStep, HandlerStep, SenderStep
<1>35. CASE RxStep
  BY <1>35, <1>16, <1>17, <1>22, <1>23, <1>24, <1>27, <1>29, <1>30, <1>31
     DEF RxStep, SenderStep
<1>36. CASE Environment
  <2>1. CASE ClientSends
    BY <2>1, <1>5, <1>6 DEF ClientSends
  <2>2. CASE \E p \in TcpPeers, fd \in Fds : Accept(p, fd)
    BY <2>2, <1>10
  <2>3. CASE \E d \in Telegrams, c \in BOOLEAN : ReadTelegram(d, c)
    BY <2>3, <1>28
  <2> QED
    BY <1>36, <2>1, <2>2, <2>3, <1>2, <1>3, <1>7, <1>9 DEF Environment
<1>39. CASE UdpCall
  BY <1>39, <1>1, <1>21 DEF UdpCall
<1>40. ASSUME NEW s \in Senders, SendCall(s) PROVE ServiceStep
  BY <1>40, <1>25, <1>26 DEF SendCall
<1> QED
  BY <1>32, <1>33, <1>34, <1>35, <1>36, <1>39, <1>40 DEF Next

\* The TCP task implements the exchange, for every set of clients and requests
\* and every frame length: whatever the receive task does to the length, an
\* answered request is sent something of the length of a frame, and nothing goes
\* to another client than the one that asked.
THEOREM TcpExchangeImplemented == Spec => TcpExchangeKept
<1>1. Init => ExchangeInv /\ ServiceInv
  BY DEF Init, ExchangeInv, QuietInv, DatagramInv, ServiceInv, AtWork
<1>2. Init => Service!Init
  <2>1. Len(<< >>) = 0
    OBVIOUS
  <2> QED
    BY <2>1 DEF Init, Service!Init, Service!NoReply
<1>3. Spec => []TypeInv
  BY TypeInvInit, TypeInvNext, PTL DEF Spec
<1>4. TypeInv /\ ExchangeInv /\ ServiceInv /\ [Next]_vars => [Service!Next]_(Service!vars)
  BY ServiceSteps, ServiceStepIs
<1> QED
  BY <1>1, <1>2, <1>3, <1>4, ExchangeInvNext, ServiceInvNext, PTL
     DEF Spec, TcpExchangeKept, Service!Spec

-----------------------------------------------------------------------------
(***************************************************************************)
(* The end of a session.                                                   *)
(***************************************************************************)
Ends ==
  KNXnetIP_Connected /\ ~KNXnetIP_Connected' => \E h \in Handlers : Disconnecting(h)

LEMMA EndsNext == TypeInv /\ SessionInv /\ [Next]_vars => Ends
<1> SUFFICES ASSUME TypeInv, SessionInv, [Next]_vars PROVE Ends
  OBVIOUS
<1>0. HandlerShape
  BY DEF TypeInv, Shape
<1> USE <1>0 DEF session
<1>kept. UNCHANGED KNXnetIP_Connected => Ends
  BY DEF Ends
<1>1. CASE CreateSocket
  BY <1>1, <1>kept DEF CreateSocket
<1>2. CASE CreateSocketFails
  BY <1>2, <1>kept DEF CreateSocketFails
<1>3. CASE SelectFails
  BY <1>3, <1>kept DEF SelectFails
<1>4. CASE Restart
  BY <1>4, <1>kept DEF Restart
<1>5. ASSUME NEW c \in UdpClients, NEW r \in UdpRequests[c], RecvFrom(c, r) PROVE Ends
  BY <1>5, <1>kept DEF RecvFrom, Receive
<1>6. ASSUME NEW r \in TcpRequests, Recv(r) PROVE Ends
  BY <1>6, <1>kept DEF Recv, Receive
<1>7. CASE RecvEnds
  BY <1>7, <1>kept DEF RecvEnds
<1>8. CASE Listen
  BY <1>8, <1>kept DEF Listen
<1>9. CASE ServerFails
  BY <1>9, <1>kept DEF ServerFails
<1>10. ASSUME NEW p \in TcpPeers, NEW fd \in Fds, Accept(p, fd) PROVE Ends
  BY <1>10, <1>kept DEF Accept
<1>11. CASE PublishSocket
  BY <1>11, <1>kept DEF PublishSocket
<1>12. CASE CloseConnection
  BY <1>12, <1>kept DEF CloseConnection
<1>13. ASSUME NEW h \in Handlers, Dispatch(h) PROVE Ends
  BY <1>13, <1>kept DEF Dispatch
<1>14. ASSUME NEW h \in Handlers, Ignore(h) PROVE Ends
  BY <1>14, <1>kept DEF Ignore, Caller
<1>15. ASSUME NEW h \in Handlers, TunnelIP2TP(h) PROVE Ends
  BY <1>15, <1>kept DEF TunnelIP2TP
<1>16. ASSUME NEW t \in Tasks, WriteBody(t) PROVE Ends
  BY <1>16, <1>kept DEF WriteBody
<1>17. ASSUME NEW t \in Tasks, WriteHeader(t) PROVE Ends
  BY <1>17, <1>kept DEF WriteHeader
<1>18. CASE CopyRequest
  BY <1>18, <1>kept DEF CopyRequest
<1>19. CASE PatchRequest
  BY <1>19, <1>kept DEF PatchRequest
<1>20. ASSUME NEW h \in Handlers, SetConnected(h) PROVE Ends
  <2>1. /\ pc[h] = "flag" /\ req[h] # NoReq /\ Accepted(req[h].pdu)
        /\ frame[h] = Answer(h, req[h].pdu)
        /\ KNXnetIP_Connected' = (frame[h].svc = "CONNECT_RESPONSE")
    BY <1>20 DEF SetConnected, HandlerShape, AtWork, Answered
  <2>2. CASE req[h].pdu.svc = "CONNECT_REQUEST"
    <3>1. Answer(h, req[h].pdu).svc = "CONNECT_RESPONSE"
      BY <2>2, SessionAnswers
    <3> QED
      BY <2>1, <3>1 DEF Ends
  <2>3. CASE req[h].pdu.svc = "DISCONNECT_REQUEST"
    BY <2>1, <2>3 DEF Ends, Disconnecting
  <2> QED
    BY <2>1, <2>2, <2>3 DEF SessionInv, SessionShape
<1>21. CASE UDPSend
  BY <1>21, <1>kept DEF UDPSend
<1>22. ASSUME NEW s \in Senders, TcpUpdateTxBuffer(s) PROVE Ends
  BY <1>22, <1>kept DEF TcpUpdateTxBuffer
<1>23. ASSUME NEW s \in Senders, StartSend(s) PROVE Ends
  BY <1>23, <1>kept DEF StartSend
<1>24. ASSUME NEW s \in Senders, NothingToSend(s) PROVE Ends
  BY <1>24, <1>kept DEF NothingToSend, Clear, Caller
<1>25. ASSUME NEW s \in Senders, NEW n \in 1 .. MaxSegs, SendPart(s, n) PROVE Ends
  BY <1>25, <1>kept DEF SendPart
<1>26. ASSUME NEW s \in Senders, SendFails(s) PROVE Ends
  BY <1>26, <1>kept DEF SendFails, Clear, Caller
<1>27. ASSUME NEW t \in Tasks, Return(t) PROVE Ends
  BY <1>27, <1>kept DEF Return, Clear, Caller
<1>28. ASSUME NEW d \in Telegrams, NEW c \in BOOLEAN, ReadTelegram(d, c) PROVE Ends
  BY <1>28, <1>kept DEF ReadTelegram
<1>29. CASE PassSocket
  BY <1>29, <1>kept DEF PassSocket
<1>30. CASE Confirm
  BY <1>30, <1>kept DEF Confirm
<1>31. CASE TelegramDone
  BY <1>31, <1>kept DEF TelegramDone
<1>37. CASE DispatchUnlengthed
  BY <1>37, <1>kept DEF DispatchUnlengthed
<1>38. CASE PatchStray
  BY <1>38, <1>kept DEF PatchStray
<1>32. CASE UNCHANGED vars
  BY <1>32, <1>kept DEF vars
<1> HIDE DEF Ends
<1>33. CASE UdpStep
  BY <1>33, <1>4, <1>13, <1>14, <1>15, <1>16, <1>17, <1>20, <1>27
     DEF UdpStep, HandlerStep
<1>34. CASE TcpStep
  BY <1>34, <1>8, <1>11, <1>12, <1>13, <1>14, <1>15, <1>16, <1>17, <1>18,
     <1>19, <1>20, <1>22, <1>23, <1>24, <1>27, <1>37, <1>38
     DEF TcpStep, HandlerStep, SenderStep
<1>35. CASE RxStep
  BY <1>35, <1>16, <1>17, <1>22, <1>23, <1>24, <1>27, <1>29, <1>30, <1>31
     DEF RxStep, SenderStep
<1>36. CASE Environment
  <2>1. CASE ClientSends
    BY <2>1, <1>5, <1>6 DEF ClientSends
  <2>2. CASE \E p \in TcpPeers, fd \in Fds : Accept(p, fd)
    BY <2>2, <1>10
  <2>3. CASE \E d \in Telegrams, c \in BOOLEAN : ReadTelegram(d, c)
    BY <2>3, <1>28
  <2> QED
    BY <1>36, <2>1, <2>2, <2>3, <1>2, <1>3, <1>7, <1>9 DEF Environment
<1>39. CASE UdpCall
  BY <1>39, <1>1, <1>21 DEF UdpCall
<1>40. ASSUME NEW s \in Senders, SendCall(s) PROVE Ends
  BY <1>40, <1>25, <1>26 DEF SendCall
<1> QED
  BY <1>32, <1>33, <1>34, <1>35, <1>36, <1>39, <1>40 DEF Next

\* No time-out ends a session, as Knx_Types.h:56 would have it: whatever becomes
\* of its client and of the TCP connection, it lasts until a handler works on a
\* DISCONNECT_REQUEST.
THEOREM OnlyDisconnectEnds ==
  Spec => [][KNXnetIP_Connected /\ ~KNXnetIP_Connected' =>
               \E h \in Handlers : Disconnecting(h)]_vars
<1>1. Init => SessionInv
  BY DEF Init, SessionInv, SessionShape, Disconnecting
<1>2. Spec => []TypeInv
  BY TypeInvInit, TypeInvNext, PTL DEF Spec
<1>3. TypeInv /\ SessionInv /\ [Next]_vars =>
        [KNXnetIP_Connected /\ ~KNXnetIP_Connected' =>
           \E h \in Handlers : Disconnecting(h)]_vars
  BY EndsNext DEF Ends
<1> QED
  BY <1>1, <1>2, <1>3, SessionInvNext, PTL DEF Spec

=============================================================================
