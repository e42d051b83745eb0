-------------------------------- MODULE Gateway --------------------------------
(***************************************************************************)
(* The IP side and the way to the bus together: a handler that is at the   *)
(* label "tunnel" of IpGateway runs KNXnetIP_TunnelIP2TP, which is          *)
(* TpTransmit, and leaves the label when it returns.  Meanwhile the other   *)
(* tasks go on with either side.                                           *)
(*                                                                         *)
(* The variables of TpTransmit keep their names, but for three that        *)
(* IpGateway uses too: at, given and mixed are its pc, telegram and        *)
(* disturbed.                                                              *)
(***************************************************************************)
EXTENDS IpGateway

CONSTANTS
  Length, CemiLength, BufferSize, IndexRange,  \* as in TpTransmit
  GatewayAddress, Nothing,                   \* as in TpTransmit
  Mixed  \* more or less than one telegram

VARIABLES
  at, given, IP_RxBuffer, L_TxBuffer, TpUart2_TxBuffer, index, written, mixed,
  \* What the bus saw; the code does not keep it.
  carried,    \* carried[h]: what h has put on the bus for its request
  overlapped  \* overlapped[h]: the bus was in use for something else too while
              \* it was for the request of h

Bus == INSTANCE TpTransmit
         WITH pc <- at, telegram <- given, disturbed <- mixed,
              Telegrams <- Data, Gateway <- GatewayAddress

ASSUME GatewayAssumption ==
  /\ \A r \in TcpRequests \cup UNION { UdpRequests[c] : c \in UdpClients } :
       r.svc = "TUNNELLING_REQUEST" => r.data \in Data
  /\ Mixed \notin Data \cup {Nothing}
  /\ BufferSize \in Nat /\ BufferSize > Bus!CEMI_TPDU    \* as in TpTransmit
  /\ IndexRange \in Nat /\ IndexRange > Bus!TPDU + 3
  /\ Length \in [Data -> 0 .. IndexRange - 1]
  /\ CemiLength \in [Data -> 0 .. BufferSize]
  /\ Nothing \notin Data /\ GatewayAddress \notin Data /\ GatewayAddress # Nothing

busVars == << at, given, IP_RxBuffer, L_TxBuffer, TpUart2_TxBuffer, index,
              written, mixed >>
gatewayVars == << vars, busVars, carried, overlapped >>

GatewayInit ==
  /\ Init
  /\ Bus!Init
  /\ carried = [h \in Handlers |-> Nothing]
  /\ overlapped = [h \in Handlers |-> FALSE]

-----------------------------------------------------------------------------
\* IP_L_Data_Ind copies the telegram to IP_RxBuffer and calls
\* KNXnetIP_TunnelIP2TP;
StartTunnelling(h) ==
  /\ pc[h] = "tunnel"
  /\ Bus!Tunnel(h, req[h].pdu.data)
  /\ LET others == { g \in Handlers \ {h} : at[g] # "idle" }
     IN  overlapped' = [g \in Handlers |->
                          IF g = h THEN others # {} ELSE overlapped[g] \/ g \in others]
  /\ UNCHANGED << vars, carried >>

\* which goes its way to the UART
KeepTunnelling(h) ==
  /\ pc[h] = "tunnel" /\ at[h] # "done"
  /\ Bus!HandlerStep(h)
  /\ UNCHANGED << vars, carried, overlapped >>

\* and returns.
ReturnFromTunnelling(h) ==
  /\ TunnelIP2TP(h)
  /\ carried' = [carried EXCEPT ![h] =
                   IF written[h] = Bus!ServicesOf(req[h].pdu.data)
                   THEN req[h].pdu.data ELSE Mixed]
  /\ Bus!Return(h)
  /\ UNCHANGED overlapped

Tunnelling(h) ==
  StartTunnelling(h) \/ KeepTunnelling(h) \/ ReturnFromTunnelling(h)

\* The receive task finds a poll in what it has read.
PollArrives ==
  /\ pc["rx"] = "read"
  /\ Bus!U_PollingState
  /\ overlapped' = [h \in Handlers |-> overlapped[h] \/ at[h] # "idle"]
  /\ UNCHANGED << vars, carried >>

\* A step of IpGateway that does not skip the way to the bus.
IpSide(step) ==
  /\ step
  /\ \A h \in Handlers : pc[h] = "tunnel" => pc'[h] = "tunnel"
  /\ carried' = [h \in Handlers |-> IF req'[h] = NoReq THEN Nothing ELSE carried[h]]
  /\ overlapped' = [h \in Handlers |-> req'[h] # NoReq /\ overlapped[h]]
  /\ UNCHANGED busVars

GatewayNext ==
  \/ IpSide(Next)
  \/ \E h \in Handlers : Tunnelling(h)
  \/ PollArrives

GatewaySpec == GatewayInit /\ [][GatewayNext]_gatewayVars

\* The scheduler runs every task, and a write to the UART returns.  Unlike in
\* FairSpec of IpGateway the system calls are among the steps taken in the end:
\* that they return, and that a sendto or socket repeated for ever succeeds, is
\* assumed here, as in CallsEnd, since nothing in the code sees to it.
GatewayFairSpec ==
  /\ GatewaySpec
  /\ WF_gatewayVars(IpSide(UdpStep \/ UdpCall) \/ Tunnelling("udp"))
  /\ WF_gatewayVars(IpSide(TcpStep \/ SendCall("tcp")) \/ Tunnelling("tcp"))
  /\ WF_gatewayVars(IpSide(RxStep \/ SendCall("rx")))

-----------------------------------------------------------------------------
(***************************************************************************)
(* Properties.                                                             *)
(***************************************************************************)
GatewayTypeOK ==
  /\ TypeOK /\ Bus!TypeOK
  /\ carried \in [Handlers -> Data \cup { Nothing, Mixed }]
  /\ overlapped \in [Handlers -> BOOLEAN]

\* Where the request of handler h is, for the client that tunnels.
Phase(h) ==
  IF at[h] # "idle" THEN "carrying"
  ELSE IF carried[h] = Nothing THEN "idle"
  ELSE IF sent[h] = << >> THEN "carried" ELSE "confirmed"

Promise ==
  INSTANCE TunnelExchange WITH
    Telegrams <- Data,
    Complete <- { t \in Data : Bus!Complete(t) },
    phase <- [h \in Handlers |-> Phase(h)],
    asked <- [h \in Handlers |->
                IF Phase(h) = "idle" THEN Nothing ELSE req[h].pdu.data]

\* A tunnelled telegram is on the bus before its client is sent anything, and
\* on the bus it is the client's own unless requests overlapped there or it did
\* not come in whole, whatever the tasks do to each other's buffers.  Every
\* request is done with in the end, as long as system calls succeed.
TunnelExchangeKept == Promise!FairSpec

\* An acknowledge or L_Data.con of a whole telegram is true if no other task
\* interfered with it and no other request with its telegram: the telegram the
\* client sent is on the bus, and it is the one the L_Data.con repeats.
ConfirmationIsTrue ==
  \A h \in Handlers :
    /\ pc[h] = "sent" /\ frame[h] # NoFrame
    /\ frame[h].svc \in { "TUNNELLING_ACK", "L_DATA_CON" }
    /\ ~disturbed[h] /\ ~overlapped[h] /\ Bus!Complete(req[h].pdu.data)
    => /\ carried[h] = req[h].pdu.data
       /\ sent[h] = Octets([ svc |-> AnswerService(h, "TUNNELLING_REQUEST"),
                             data |-> IF h = "tcp" THEN carried[h] ELSE Blank ])
=============================================================================
