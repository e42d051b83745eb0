------------------------------- MODULE IpGateway -------------------------------
(***************************************************************************)
(* The IP side of the gateway: three FreeRTOS tasks on two cores that share *)
(* one transmit buffer, its length and the connection flag, with no lock.  *)
(*                                                                         *)
(*   udp  udp_mcast_task    answers requests with datagrams                *)
(*   tcp  tcp_server_task   serves one TCP client after another            *)
(*   rx   tpuart_rx_task    tunnels bus telegrams to the TCP client        *)
(*                                                                         *)
(* udp and tcp run the same handler, IP_L_Data_Ind.  pc[t] is where task t *)
(* is; each action makes at most one access to what the tasks share (the   *)
(* body of a frame counts as one).  What the bus side does with a          *)
(* tunnelled telegram is behind the label "tunnel".                        *)
(***************************************************************************)
EXTENDS IpFrames, Integers, Sequences, FiniteSets

CONSTANTS
  UdpClients,    \* address and port of the UDP clients
  TcpPeers,      \* TCP clients
  UdpRequests,   \* UdpRequests[c]: the requests client c sends as datagrams
  TcpRequests,   \* the requests that arrive on the TCP connection
  Telegrams,     \* the bus telegrams the rx task receives
  Fds,           \* socket descriptors accept may return; one may be reused
  NoReq, NoFrame, NoConn, NoFd, NoTelegram,
  Unwritten,     \* an octet of IP_TxBuffer nothing was ever written to
  Garbled,       \* an octet of one frame patched as if it were of another
  Outside        \* an octet of the memory around IP_TxBuffer

\* What an element of IP_TxBuffer may hold.
Octet   == { Segment(f, i) : f \in Frame, i \in 0 .. MaxSegs - 1 }
Content == Octet \cup { Unwritten, Garbled }

ASSUME IpGatewayAssumption ==
  /\ UdpRequests \in [UdpClients -> SUBSET Request]
  /\ TcpRequests \subseteq Request
  /\ Telegrams \subseteq Data
  /\ NoReq \notin [ from : UdpClients \cup TcpPeers, pdu : Request ]
  /\ NoFrame \notin Frame
  /\ NoConn \notin [ fd : Fds, peer : TcpPeers ]
  /\ NoFd \notin Fds
  /\ NoTelegram \notin Data
  /\ Octet \cap { Unwritten, Garbled, Outside } = {}
  /\ Unwritten \notin { Garbled, Outside }

Tasks    == { "udp", "tcp", "rx" }
Handlers == { "udp", "tcp" }    \* the tasks that run IP_L_Data_Ind
Senders  == { "tcp", "rx" }     \* the tasks that send on the TCP connection

UdpLabel == { "socket", "select", "restart", "dispatch", "tunnel", "body",
              "head", "flag", "out", "sent" }
TcpLabel == { "bind", "accept", "accepted", "recv", "close", "deleted",
              "dispatch", "tunnel", "copy", "patch", "stray", "body", "head",
              "flag", "out", "check", "send", "sent" }
RxLabel  == { "read", "head", "body", "out", "call", "check", "send", "sent",
              "confirm" }

VARIABLES
  pc,                        \* pc[t]: the statement task t is at
  req,                       \* req[h]: the request handler h is working on
  frame,                     \* frame[t]: the frame task t builds or sends
  IP_TxBuffer,               \* the shared transmit buffer, by segment
  Tcp_TxLength,              \* how much of it is for the TCP connection
  to_write,                  \* to_write[s]: what sender s has left to send
  KNXnetIP_Connected,        \* some client has connected
  KNXnetIP_TcpSock,          \* the descriptor last accepted; never cleared
  KNXnetIP_MulticastSocket,  \* "none" (-1), "open" or "closed"
  conn,                      \* the open TCP connection: descriptor and peer
  rxSock,                    \* the descriptor the rx task sends on
  telegram, conf,            \* the telegram rx received; is a confirmation due
  \* What the environment saw; the code does not keep it.
  sent,                      \* sent[t]: what t has sent of frame[t] so far
  sentTo,                    \* sentTo[t]: who has received it
  disturbed,                 \* disturbed[t]: another task touched the buffer,
                             \* its length or the connection since t's first write
  established,               \* clients answered a CONNECT_REQUEST, until a
                             \* DISCONNECT_REQUEST arrives
  rival                      \* rival[h]: a DISCONNECT_REQUEST overlaps the
                             \* request of h

shared   == << IP_TxBuffer, Tcp_TxLength >>
sockets  == << KNXnetIP_TcpSock, KNXnetIP_MulticastSocket, conn >>
rxLocals == << rxSock, telegram, conf >>
session  == << KNXnetIP_Connected, established, rival >>
wire     == << sent, sentTo, to_write >>
vars     == << pc, req, frame, shared, sockets, rxLocals, session, wire,
               disturbed >>

Received == [ from : UdpClients \cup TcpPeers, pdu : Request ]

TypeOK ==
  /\ pc \in [Tasks -> UdpLabel \cup TcpLabel \cup RxLabel]
  /\ pc["udp"] \in UdpLabel /\ pc["tcp"] \in TcpLabel /\ pc["rx"] \in RxLabel
  /\ req \in [Handlers -> Received \cup {NoReq}]
  /\ frame \in [Tasks -> Frame \cup {NoFrame}]
  /\ IP_TxBuffer \in [0 .. MaxSegs - 1 -> Content]
  /\ Tcp_TxLength \in 0 .. MaxSegs
  /\ to_write \in [Senders -> 0 .. MaxSegs]
  /\ KNXnetIP_Connected \in BOOLEAN
  /\ KNXnetIP_TcpSock \in Fds \cup {NoFd}
  /\ KNXnetIP_MulticastSocket \in { "none", "open", "closed" }
  /\ conn \in [ fd : Fds, peer : TcpPeers ] \cup {NoConn}
  /\ rxSock \in Fds \cup {NoFd}
  /\ telegram \in Telegrams \cup {NoTelegram}
  /\ conf \in BOOLEAN
  /\ sent \in [Tasks -> Seq(Content \cup {Outside})]
  /\ sentTo \in [Tasks -> SUBSET (UdpClients \cup TcpPeers)]
  /\ disturbed \in [Tasks -> BOOLEAN]
  /\ established \subseteq UdpClients \cup TcpPeers
  /\ rival \in [Handlers -> BOOLEAN]

Init ==
  /\ pc = [t \in Tasks |-> IF t = "udp" THEN "socket"
                           ELSE IF t = "tcp" THEN "bind" ELSE "read"]
  /\ req = [h \in Handlers |-> NoReq]
  /\ frame = [t \in Tasks |-> NoFrame]
  /\ IP_TxBuffer = [i \in 0 .. MaxSegs - 1 |-> Unwritten]
  /\ Tcp_TxLength = 0
  /\ to_write = [s \in Senders |-> 0]
  /\ KNXnetIP_Connected = FALSE
  /\ KNXnetIP_TcpSock = NoFd
  /\ KNXnetIP_MulticastSocket = "none"
  /\ conn = NoConn
  /\ rxSock = NoFd
  /\ telegram = NoTelegram
  /\ conf = FALSE
  /\ sent = [t \in Tasks |-> << >>]
  /\ sentTo = [t \in Tasks |-> {}]
  /\ disturbed = [t \in Tasks |-> FALSE]
  /\ established = {}
  /\ rival = [h \in Handlers |-> FALSE]

-----------------------------------------------------------------------------
Goto(t, l) == pc' = [pc EXCEPT ![t] = l]

\* t writes the buffer or its length, sends, or opens or closes the connection:
\* that disturbs every other task that has a frame under way.
Touch(t) ==
  disturbed' =
    [u \in Tasks |-> disturbed[u] \/ (u # t /\ frame[u] # NoFrame)]

\* The first of these t does for its frame: what came before does not matter.
FirstTouch(t) ==
  disturbed' =
    [u \in Tasks |-> u # t /\ (disturbed[u] \/ frame[u] # NoFrame)]

\* Task t has done with its frame, sent or not.
Clear(t) ==
  /\ frame' = [frame EXCEPT ![t] = NoFrame]
  /\ sent' = [sent EXCEPT ![t] = << >>]
  /\ sentTo' = [sentTo EXCEPT ![t] = {}]
  /\ to_write' = [s \in Senders |-> IF s = t THEN 0 ELSE to_write[s]]
  /\ disturbed' = [disturbed EXCEPT ![t] = FALSE]
  /\ req' = [h \in Handlers |-> IF h = t THEN NoReq ELSE req[h]]

\* Where a task goes when the function that sends its frame returns.
Caller(t) == IF t = "udp" THEN "select"
             ELSE IF t = "tcp" THEN "recv" ELSE "confirm"

\* Put these segments of frame f into the buffer.
Store(segments, f) ==
  IP_TxBuffer' =
    [i \in 0 .. MaxSegs - 1 |->
       IF i \in segments THEN Segment(f, i) ELSE IP_TxBuffer[i]]

-----------------------------------------------------------------------------
(***************************************************************************)
(* The receive loops of the UDP and TCP tasks.                             *)
(***************************************************************************)
CreateSocket ==
  /\ pc["udp"] = "socket"
  /\ KNXnetIP_MulticastSocket' = "open"
  /\ Goto("udp", "select")
  /\ UNCHANGED << req, frame, shared, KNXnetIP_TcpSock, conn, rxLocals,
                  session, wire, disturbed >>

\* The loop tries again at once.
CreateSocketFails ==
  /\ pc["udp"] = "socket"
  /\ KNXnetIP_MulticastSocket' = "none"
  /\ UNCHANGED << pc, req, frame, shared, KNXnetIP_TcpSock, conn, rxLocals,
                  session, wire, disturbed >>

\* select or recvfrom fails.
SelectFails ==
  /\ pc["udp"] = "select"
  /\ Goto("udp", "restart")
  /\ UNCHANGED << req, frame, shared, sockets, rxLocals, session, wire,
                  disturbed >>

Restart ==
  /\ pc["udp"] = "restart"
  /\ KNXnetIP_MulticastSocket' = "closed"
  /\ Goto("udp", "socket")
  /\ UNCHANGED << req, frame, shared, KNXnetIP_TcpSock, conn, rxLocals,
                  session, wire, disturbed >>

\* Handler h is at work on an accepted DISCONNECT_REQUEST and has yet to clear
\* the connection flag.
Disconnecting(h) ==
  /\ req[h] # NoReq
  /\ Accepted(req[h].pdu)
  /\ req[h].pdu.svc = "DISCONNECT_REQUEST"
  /\ pc[h] \in { "dispatch", "body", "head", "flag" }

\* Request r of client c reaches handler h, which calls IP_L_Data_Ind.
Receive(h, c, r) ==
  /\ req' = [req EXCEPT ![h] = [ from |-> c, pdu |-> r ]]
  /\ Goto(h, "dispatch")
  /\ LET disconnect == Accepted(r) /\ r.svc = "DISCONNECT_REQUEST"
     IN  /\ established' = IF disconnect THEN {} ELSE established
         /\ rival' = [g \in Handlers |->
                        \/ disconnect /\ g # h
                        \/ g # h /\ rival[g]
                        \/ g = h /\ \E u \in Handlers \ {h} : Disconnecting(u)]
  /\ UNCHANGED << frame, shared, sockets, rxLocals, KNXnetIP_Connected, wire,
                  disturbed >>

RecvFrom(c, r) == pc["udp"] = "select" /\ Receive("udp", c, r)
Recv(r)        == pc["tcp"] = "recv" /\ Receive("tcp", conn.peer, r)

\* The peer closed the connection, or recv failed.
RecvEnds ==
  /\ pc["tcp"] = "recv"
  /\ Goto("tcp", "close")
  /\ UNCHANGED << req, frame, shared, sockets, rxLocals, session, wire,
                  disturbed >>

Listen ==
  /\ pc["tcp"] = "bind"
  /\ Goto("tcp", "accept")
  /\ UNCHANGED << req, frame, shared, sockets, rxLocals, session, wire,
                  disturbed >>

\* socket, bind or listen, or later accept, fails: the task deletes itself.
ServerFails ==
  /\ pc["tcp"] \in { "bind", "accept" }
  /\ Goto("tcp", "deleted")
  /\ UNCHANGED << req, frame, shared, sockets, rxLocals, session, wire,
                  disturbed >>

Accept(p, fd) ==
  /\ pc["tcp"] = "accept"
  /\ conn' = [ fd |-> fd, peer |-> p ]
  /\ Goto("tcp", "accepted")
  /\ Touch("tcp")
  /\ UNCHANGED << req, frame, shared, KNXnetIP_TcpSock,
                  KNXnetIP_MulticastSocket, rxLocals, session, wire >>

PublishSocket ==
  /\ pc["tcp"] = "accepted"
  /\ KNXnetIP_TcpSock' = conn.fd
  /\ Goto("tcp", "recv")
  /\ Touch("tcp")
  /\ UNCHANGED << req, frame, shared, KNXnetIP_MulticastSocket, conn,
                  rxLocals, session, wire >>

\* Seeded bug: a connection that closes takes the connection flag with it.
CloseConnectionDisconnects ==
  /\ pc["tcp"] = "close"
  /\ conn' = NoConn
  /\ KNXnetIP_Connected' = FALSE
  /\ Goto("tcp", "accept")
  /\ Touch("tcp")
  /\ UNCHANGED << req, frame, shared, KNXnetIP_TcpSock,
                  KNXnetIP_MulticastSocket, rxLocals, established, rival, wire >>

\* KNXnetIP_TcpSock keeps the descriptor that is closed here.
CloseConnection ==
  /\ pc["tcp"] = "close"
  /\ conn' = NoConn
  /\ Goto("tcp", "accept")
  /\ Touch("tcp")
  /\ UNCHANGED << req, frame, shared, KNXnetIP_TcpSock,
                  KNXnetIP_MulticastSocket, rxLocals, session, wire >>

-----------------------------------------------------------------------------
(***************************************************************************)
(* IP_L_Data_Ind: build the answer in IP_TxBuffer and hand it over.        *)
(***************************************************************************)
Dispatch(h) ==
  /\ pc[h] = "dispatch"
  /\ Answered(h, req[h].pdu)
  /\ frame' = [frame EXCEPT ![h] = Answer(h, req[h].pdu)]
  /\ Goto(h, IF req[h].pdu.svc = "TUNNELLING_REQUEST" THEN "tunnel" ELSE "body")
  /\ UNCHANGED << req, shared, sockets, rxLocals, session, wire, disturbed >>

\* A telegram the answer to which is to be of no octets goes to the bus too.
DispatchUnlengthed ==
  /\ pc["tcp"] = "dispatch"
  /\ Unlengthed("tcp", req["tcp"].pdu)
  /\ Goto("tcp", "tunnel")
  /\ UNCHANGED << req, frame, shared, sockets, rxLocals, session, wire,
                  disturbed >>

\* No answer.  The TCP task goes on to send what Tcp_TxLength says all the same.
Ignore(h) ==
  /\ pc[h] = "dispatch"
  /\ ~Answered(h, req[h].pdu) /\ ~Unlengthed(h, req[h].pdu)
  /\ Goto(h, IF h = "udp" THEN Caller(h) ELSE "check")
  /\ req' = IF h = "udp" THEN [req EXCEPT ![h] = NoReq] ELSE req
  /\ UNCHANGED << frame, shared, sockets, rxLocals, session, wire, disturbed >>

\* The telegram is written to the bus: KNXnetIP_TunnelIP2TP.
TunnelIP2TP(h) ==
  /\ pc[h] = "tunnel"
  /\ Goto(h, IF h = "udp" THEN "body"
             ELSE IF frame[h] = NoFrame THEN "stray" ELSE "copy")
  /\ UNCHANGED << req, frame, shared, sockets, rxLocals, session, wire,
                  disturbed >>

\* IP_L_Data_Ind writes the body first and the header after it,
\* KNXnetIP_TunnellingRequest the other way round.
WriteBody(t) ==
  /\ pc[t] = "body"
  /\ Store(Body(frame[t]), frame[t])
  /\ Goto(t, IF t = "rx" THEN "out" ELSE "head")
  /\ IF t = "rx" THEN Touch(t) ELSE FirstTouch(t)
  /\ UNCHANGED << req, frame, Tcp_TxLength, sockets, rxLocals, session, wire >>

\* Seeded bug: the header is forgotten, and what is in its place goes out.
WriteHeaderForgotten(t) ==
  /\ pc[t] = "head"
  /\ Goto(t, IF t = "rx" THEN "body"
             ELSE IF frame[t].svc \in { "CONNECT_RESPONSE",
                                        "DISCONNECT_RESPONSE" }
                  THEN "flag" ELSE "out")
  /\ IF t = "rx" THEN FirstTouch(t) ELSE Touch(t)
  /\ UNCHANGED << req, frame, shared, sockets, rxLocals, session, wire >>

WriteHeader(t) ==
  /\ pc[t] = "head"
  /\ Store(Header, frame[t])
  /\ Goto(t, IF t = "rx" THEN "body"
             ELSE IF frame[t].svc \in { "CONNECT_RESPONSE",
                                        "DISCONNECT_RESPONSE" }
                  THEN "flag" ELSE "out")
  /\ IF t = "rx" THEN FirstTouch(t) ELSE Touch(t)
  /\ UNCHANGED << req, frame, Tcp_TxLength, sockets, rxLocals, session, wire >>

\* The L_Data.con of the TCP transport: the request is copied, then patched.
CopyRequest ==
  /\ pc["tcp"] = "copy"
  /\ IP_TxBuffer' =
       [i \in 0 .. MaxSegs - 1 |->
          IF i \in Header THEN Segment(frame["tcp"], i)
          ELSE IF i \in Body(frame["tcp"])
               THEN Segment(Unpatched(frame["tcp"]), i) ELSE IP_TxBuffer[i]]
  /\ Goto("tcp", "patch")
  /\ FirstTouch("tcp")
  /\ UNCHANGED << req, frame, Tcp_TxLength, sockets, rxLocals, session, wire >>

\* The message code and the source address are written over whatever is in
\* their place by now.
PatchRequest ==
  /\ pc["tcp"] = "patch"
  /\ IP_TxBuffer' =
       [i \in 0 .. MaxSegs - 1 |->
          IF i \notin Body(frame["tcp"]) THEN IP_TxBuffer[i]
          ELSE IF IP_TxBuffer[i] = Segment(Unpatched(frame["tcp"]), i)
               THEN Segment(frame["tcp"], i) ELSE Garbled]
  /\ Goto("tcp", "out")
  /\ Touch("tcp")
  /\ UNCHANGED << req, frame, Tcp_TxLength, sockets, rxLocals, session, wire >>

\* Without an octet of the request copied the patches are made all the same,
\* to the frame that is in the buffer; there is no length to hand over.
PatchStray ==
  /\ pc["tcp"] = "stray"
  /\ IP_TxBuffer' =
       [i \in 0 .. MaxSegs - 1 |->
          IF i \in 1 .. SegCount["L_DATA_CON"] - 1 /\ IP_TxBuffer[i] # Unwritten
          THEN Garbled ELSE IP_TxBuffer[i]]
  /\ Goto("tcp", "check")
  /\ Touch("tcp")
  /\ UNCHANGED << req, frame, Tcp_TxLength, sockets, rxLocals, session, wire >>

SetConnected(h) ==
  /\ pc[h] = "flag"
  /\ KNXnetIP_Connected' = (frame[h].svc = "CONNECT_RESPONSE")
  /\ Goto(h, "out")
  /\ UNCHANGED << req, frame, shared, sockets, rxLocals, established, rival,
                  wire, disturbed >>

\* Task t has handed its whole frame over: a client whose CONNECT_REQUEST no
\* DISCONNECT_REQUEST overlapped counts as established from now on.
Answering(t) ==
  established' =
    IF /\ t \in Handlers
       /\ frame[t] # NoFrame
       /\ frame[t].svc = "CONNECT_RESPONSE"
       /\ ~rival[t]
    THEN established \cup { req[t].from } ELSE established

\* Seeded bug: the length passed on is the one the answer has without its header.
UDPSendBodyLength ==
  /\ pc["udp"] = "out"
  /\ KNXnetIP_MulticastSocket = "open"
  /\ sent' = [sent EXCEPT !["udp"] = [k \in 1 .. SegCount[frame["udp"].svc] - 1 |->
                                        IP_TxBuffer[k - 1]]]
  /\ sentTo' = [sentTo EXCEPT !["udp"] = { req["udp"].from }]
  /\ Answering("udp")
  /\ Goto("udp", "sent")
  /\ UNCHANGED << req, frame, shared, sockets, rxLocals, KNXnetIP_Connected,
                  rival, to_write, disturbed >>

\* sendto succeeds.  While it fails the code calls it again, and nothing else.
UDPSend ==
  /\ pc["udp"] = "out"
  /\ KNXnetIP_MulticastSocket = "open"
  /\ sent' = [sent EXCEPT !["udp"] = [k \in 1 .. SegCount[frame["udp"].svc] |->
                                        IP_TxBuffer[k - 1]]]
  /\ sentTo' = [sentTo EXCEPT !["udp"] = { req["udp"].from }]
  /\ Answering("udp")
  /\ Goto("udp", "sent")
  /\ UNCHANGED << req, frame, shared, sockets, rxLocals, KNXnetIP_Connected,
                  rival, to_write, disturbed >>

-----------------------------------------------------------------------------
(***************************************************************************)
(* The TCP connection: KNXnetIP_TcpUpdateTxBuffer and the two send loops.  *)
(***************************************************************************)
\* Seeded bug: the length is added to the one before.
TcpUpdateTxBufferAdds(s) ==
  /\ pc[s] = "out"
  /\ Tcp_TxLength' = Tcp_TxLength + SegCount[frame[s].svc]
  /\ Goto(s, IF s = "tcp" THEN "check" ELSE "call")
  /\ Touch(s)
  /\ UNCHANGED << req, frame, IP_TxBuffer, sockets, rxLocals, session, wire >>

TcpUpdateTxBuffer(s) ==
  /\ pc[s] = "out"
  /\ Tcp_TxLength' = SegCount[frame[s].svc]
  /\ Goto(s, IF s = "tcp" THEN "check" ELSE "call")
  /\ Touch(s)
  /\ UNCHANGED << req, frame, IP_TxBuffer, sockets, rxLocals, session, wire >>

StartSend(s) ==
  /\ pc[s] = "check"
  /\ Tcp_TxLength # 0
  /\ to_write' = [to_write EXCEPT ![s] = Tcp_TxLength]
  /\ Goto(s, "send")
  /\ UNCHANGED << req, frame, shared, sockets, rxLocals, session, sent, sentTo,
                  disturbed >>

NothingToSend(s) ==
  /\ pc[s] = "check"
  /\ Tcp_TxLength = 0
  /\ Goto(s, Caller(s))
  /\ Clear(s)
  /\ UNCHANGED << shared, sockets, rxLocals, session >>

\* The connection the descriptor of sender s belongs to is open.
Open(s) == conn # NoConn /\ (s = "rx" => rxSock = conn.fd)

\* The i-th segment of memory counted from the start of the buffer.
Memory(i) == IF i \in 0 .. MaxSegs - 1 THEN IP_TxBuffer[i] ELSE Outside

\* Seeded bug: every call of send is given the start of the buffer.
SendPartFromStart(s, n) ==
  /\ pc[s] = "send"
  /\ Open(s)
  /\ n <= to_write[s]
  /\ sent' = [sent EXCEPT ![s] = @ \o [k \in 1 .. n |-> Memory(k - 1)]]
  /\ sentTo' = [sentTo EXCEPT ![s] = @ \cup { conn.peer }]
  /\ to_write' = [to_write EXCEPT ![s] = @ - n]
  /\ IF n = to_write[s]
     THEN Goto(s, "sent") /\ Answering(s)
     ELSE UNCHANGED << pc, established >>
  /\ Touch(s)
  /\ UNCHANGED << req, frame, shared, sockets, rxLocals, KNXnetIP_Connected,
                  rival >>

\* Seeded bug: the loop ends one segment too early.
SendPartTooEarly(s, n) ==
  /\ pc[s] = "send"
  /\ Open(s)
  /\ n <= to_write[s]
  /\ LET offset == Tcp_TxLength - to_write[s]
     IN  sent' = [sent EXCEPT ![s] =
                    @ \o [k \in 1 .. n |-> Memory(offset + k - 1)]]
  /\ sentTo' = [sentTo EXCEPT ![s] = @ \cup { conn.peer }]
  /\ to_write' = [to_write EXCEPT ![s] = @ - n]
  /\ IF n + 1 >= to_write[s]
     THEN Goto(s, "sent") /\ Answering(s)
     ELSE UNCHANGED << pc, established >>
  /\ Touch(s)
  /\ UNCHANGED << req, frame, shared, sockets, rxLocals, KNXnetIP_Connected,
                  rival >>

\* send takes n of the segments it is given, which start where Tcp_TxLength,
\* read again on every call, says they do.
SendPart(s, n) ==
  /\ pc[s] = "send"
  /\ Open(s)
  /\ n <= to_write[s]
  /\ LET offset == Tcp_TxLength - to_write[s]
     IN  sent' = [sent EXCEPT ![s] =
                    @ \o [k \in 1 .. n |-> Memory(offset + k - 1)]]
  /\ sentTo' = [sentTo EXCEPT ![s] = @ \cup { conn.peer }]
  /\ to_write' = [to_write EXCEPT ![s] = @ - n]
  /\ IF n = to_write[s]
     THEN Goto(s, "sent") /\ Answering(s)
     ELSE UNCHANGED << pc, established >>
  /\ Touch(s)
  /\ UNCHANGED << req, frame, shared, sockets, rxLocals, KNXnetIP_Connected,
                  rival >>

\* Seeded bug: a send that fails makes the loop start over.
SendFailsStartsOver(s) ==
  /\ pc[s] = "send"
  /\ Goto(s, "check")
  /\ UNCHANGED << req, frame, shared, sockets, rxLocals, session, wire,
                  disturbed >>

\* send fails: a broken connection, or a descriptor that is closed by now.
SendFails(s) ==
  /\ pc[s] = "send"
  /\ Goto(s, IF s = "tcp" THEN "close" ELSE Caller(s))
  /\ Clear(s)
  /\ UNCHANGED << shared, sockets, rxLocals, session >>

Return(t) ==
  /\ pc[t] = "sent"
  /\ Goto(t, Caller(t))
  /\ Clear(t)
  /\ UNCHANGED << shared, sockets, rxLocals, session >>

-----------------------------------------------------------------------------
(***************************************************************************)
(* The bus receive task: a telegram becomes an L_Data.ind, and a telegram  *)
(* followed by a positive confirmation a transport layer acknowledge too.  *)
(***************************************************************************)
ReadTelegram(d, c) ==
  /\ pc["rx"] = "read"
  /\ telegram' = d
  /\ conf' = c
  /\ IF KNXnetIP_Connected
     THEN /\ frame' = [frame EXCEPT !["rx"] = [ svc |-> "L_DATA_IND", data |-> d ]]
          /\ Goto("rx", "head")
     ELSE /\ Goto("rx", "confirm")
          /\ UNCHANGED frame
  /\ UNCHANGED << req, shared, sockets, rxSock, session, wire, disturbed >>

\* KNXnetIP_TcpSock is passed to tcp_transmitPendingTunnelReq by value.
PassSocket ==
  /\ pc["rx"] = "call"
  /\ rxSock' = KNXnetIP_TcpSock
  /\ Goto("rx", "check")
  /\ UNCHANGED << req, frame, shared, sockets, telegram, conf, session, wire,
                  disturbed >>

\* The acknowledge is sent whether or not a client is connected.
Confirm ==
  /\ pc["rx"] = "confirm"
  /\ conf
  /\ conf' = FALSE
  /\ frame' = [frame EXCEPT !["rx"] = [ svc |-> "T_ACK", data |-> telegram ]]
  /\ Goto("rx", "head")
  /\ UNCHANGED << req, shared, sockets, rxSock, telegram, session, wire,
                  disturbed >>

TelegramDone ==
  /\ pc["rx"] = "confirm"
  /\ ~conf
  /\ telegram' = NoTelegram
  /\ Goto("rx", "read")
  /\ UNCHANGED << req, frame, shared, sockets, rxSock, conf, session, wire,
                  disturbed >>

-----------------------------------------------------------------------------
\* What a task does on its own ...
HandlerStep(h) ==
  \/ Dispatch(h) \/ Ignore(h) \/ TunnelIP2TP(h)
  \/ WriteBody(h) \/ WriteHeader(h) \/ SetConnected(h)

SenderStep(s) == TcpUpdateTxBuffer(s) \/ StartSend(s) \/ NothingToSend(s)

UdpStep == Restart \/ HandlerStep("udp") \/ Return("udp")

TcpStep == Listen \/ PublishSocket \/ CloseConnection \/ HandlerStep("tcp")
           \/ DispatchUnlengthed \/ CopyRequest \/ PatchRequest \/ PatchStray
           \/ SenderStep("tcp") \/ Return("tcp")

RxStep  == WriteHeader("rx") \/ WriteBody("rx") \/ PassSocket
           \/ SenderStep("rx") \/ Return("rx") \/ Confirm \/ TelegramDone

\* ... the system calls nothing in the code keeps from failing or blocking for
\* ever: a socket that cannot be created is tried again, and so is a sendto
\* that fails; a send may block ...
UdpCall     == CreateSocket \/ UDPSend
SendCall(s) == (\E n \in 1 .. MaxSegs : SendPart(s, n)) \/ SendFails(s)

\* ... and what its sockets and the bus bring to it.
ClientSends ==
  \/ \E c \in UdpClients : \E r \in UdpRequests[c] : RecvFrom(c, r)
  \/ \E r \in TcpRequests : Recv(r)

Environment ==
  \/ ClientSends
  \/ \E p \in TcpPeers, fd \in Fds : Accept(p, fd)
  \/ RecvEnds
  \/ CreateSocketFails \/ SelectFails \/ ServerFails
  \/ \E d \in Telegrams, c \in BOOLEAN : ReadTelegram(d, c)

Next ==
  \/ UdpStep \/ TcpStep \/ RxStep
  \/ UdpCall \/ \E s \in Senders : SendCall(s)
  \/ Environment

Spec == Init /\ [][Next]_vars

\* The scheduler runs every task that is not in a system call.
Fairness == WF_vars(UdpStep) /\ WF_vars(TcpStep) /\ WF_vars(RxStep)

FairSpec == Spec /\ Fairness

\* What the code relies on: a system call returns, and in the end succeeds.
CallsEnd == WF_vars(UdpCall) /\ \A s \in Senders : WF_vars(SendCall(s))

SteadySpec == FairSpec /\ CallsEnd

-----------------------------------------------------------------------------
(***************************************************************************)
(* Properties.                                                             *)
(***************************************************************************)
\* A frame goes out whole and in order to one client, unless another task
\* touched the buffer, its length or the connection in the meantime: what
\* IP_L_Data_Ind, KNXnetIP_TunnellingRequest and the two send loops do to each
\* other is the only way a frame can go wrong, however send splits it.
UndisturbedFrameIsIntact ==
  \A t \in Tasks :
    pc[t] = "sent" /\ frame[t] # NoFrame /\ ~disturbed[t] =>
      /\ sent[t] = Octets(frame[t])
      /\ \E c \in UdpClients \cup TcpPeers : sentTo[t] = { c }

\* A client whose CONNECT_REQUEST was answered stays connected until a
\* DISCONNECT_REQUEST arrives, whatever the two handlers interleave: no other
\* request, and no connection that closes, clears KNXnetIP_Connected.
EstablishedIsConnected == established # {} => KNXnetIP_Connected

\* However the length changes under a send loop, it never sends an octet of
\* IP_TxBuffer that was not written: every length set with
\* KNXnetIP_TcpUpdateTxBuffer is of a frame that is in the buffer by then.
SendsOnlyWritten ==
  \A t \in Tasks : \A k \in 1 .. Len(sent[t]) : sent[t][k] # Unwritten

\* The UDP handler keeps the promise of UdpExchange, although the other tasks
\* may change the octets of its answer: destination and length are its own.
Exchange ==
  INSTANCE UdpExchange WITH
    Clients <- UdpClients,
    Requests <- UdpRequests,
    request <- req["udp"],
    reply <- [ to |-> sentTo["udp"], length |-> Len(sent["udp"]) ]

UdpExchangeKept == Exchange!Spec

\* The TCP task keeps the promise of TcpExchange, although the receive task may
\* change the buffer and its length while it sends: an answered request is sent
\* something of the length of a frame, and nothing goes to another client.
Service ==
  INSTANCE TcpExchange WITH
    Clients <- TcpPeers,
    Requests <- TcpRequests,
    client <- IF pc["tcp"] \in { "bind", "accept", "close", "deleted" }
              THEN {} ELSE { conn.peer },
    request <- req["tcp"],
    reply <- [ to |-> sentTo["tcp"], length |-> Len(sent["tcp"]) ]

TcpExchangeKept == Service!Spec

\* Every handler returns: each task is again and again back where it waits for
\* the next client or telegram, or has deleted itself, unless it is for ever in
\* the one system call that goes on failing or blocking.  A task that is does
\* not keep another from its work.
AlwaysListensAgain ==
  /\ \/ []<>(pc["udp"] = "select")
     \/ <>[](pc["udp"] = "socket") \/ <>[](pc["udp"] = "out")
  /\ \/ []<>(pc["tcp"] \in { "accept", "recv", "deleted" })
     \/ <>[](pc["tcp"] = "send")
  /\ []<>(pc["rx"] = "read") \/ <>[](pc["rx"] = "send")

\* KNXnetIP_TcpServer.c:78 says that the data link layer has updated the
\* buffer before the TCP task sends it: what the task sends is the answer to
\* the request it has just received.
TcpSendsItsAnswer == pc["tcp"] = "send" => frame["tcp"] # NoFrame

\* KNXnetIP_TcpServer.c:86 says that the send loops are robust against partial
\* sends: when send has taken the first part of a frame, the next one starts
\* where it stopped.
ContinuesWhereItStopped ==
  \A s \in Senders : \A n \in 1 .. MaxSegs :
    /\ pc[s] = "send" /\ frame[s] # NoFrame
    /\ n < SegCount[frame[s].svc] /\ sent[s] = SubSeq(Octets(frame[s]), 1, n)
    => Tcp_TxLength - to_write[s] = n

\* Knx_Types.h:56 says that the server terminates the connection of a client
\* it no longer hears from.
SilentClientIsDropped ==
  <>[][~ClientSends]_vars => <>[](~KNXnetIP_Connected)
=============================================================================
