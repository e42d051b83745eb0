------------------------------ MODULE TpReceive ------------------------------
(***************************************************************************)
(* The way of a telegram from the bus to a KNXnet/IP client, as far as the *)
(* bus receive task works on its own.  The task reads what the UART driver *)
(* has collected, which is any number of octets, looks for the end of a    *)
(* telegram by its checksum, passes the telegram on as a cEMI frame, and   *)
(* looks for the octet with which the TP-UART confirms what the gateway    *)
(* itself has sent.  data is never cleared: it holds the end of earlier,   *)
(* longer chunks behind the octets just read.                              *)
(*                                                                         *)
(* Octets are real: the checksum decides what happens.                     *)
(***************************************************************************)
EXTENDS Naturals, Sequences

CONSTANTS
  BitXor(_, _),\* ^ of two octets
  Telegrams,   \* the telegrams on the bus: standard L_Data frames
  Sum,         \* Sum[t][k]: 0xFF ^ the first k octets of t
  Others,      \* what else comes from the TP-UART: confirmations, polls ...
  Garbage,     \* what malloc may return memory filled with
  MaxChunk,    \* how many octets the task asks the driver for
  MaxItems     \* bound: how many telegrams and others arrive

Octet == 0 .. 255

\* The layer-2 service of a control octet is masked with 0x90 and compared
\* with 0x90 and 0x10: what is left is bit 4.
IsLData(o) == (o \div 16) % 2 = 1
L_POLLDATA_REQ == 240     \* 0xF0
DATACONFIRMSUCCESS == 139 \* 0x8B
L_DATA_IND == 41          \* 0x29

\* The two halves of octet 5: address type and hop count, and length.
AT_HC(o) == o - (o % 16)
LG(o)    == o % 16

ASSUME TpReceiveAssumption ==
  /\ MaxItems \in Nat
  /\ MaxChunk \in Nat /\ MaxChunk >= 22
  /\ Garbage \subseteq Octet
  /\ Others \subseteq Seq(Octet)
  /\ \A a, b \in Octet : BitXor(a, b) \in Octet /\ (BitXor(a, b) = 0 <=> a = b)

\* A telegram: control octet, two addresses, length, TPDU and checksum.
ASSUME TelegramAssumption ==
  \A t \in Telegrams :
    /\ t \in Seq(Octet)
    /\ Len(t) >= 8
    /\ Len(t) = LG(t[6]) + 8
    /\ IsLData(t[1]) /\ t[1] # L_POLLDATA_REQ
    /\ Sum[t] \in [1 .. Len(t) - 1 -> Octet]
    /\ Sum[t][1] = BitXor(255, t[1])
    /\ \A k \in 1 .. Len(t) - 2 : Sum[t][k + 1] = BitXor(Sum[t][k], t[k + 1])
    /\ Sum[t][Len(t) - 1] = t[Len(t)]

Buffer == 0 .. MaxChunk
Label  == { "read", "detect", "invalid", "indicate", "confirm" }

VARIABLES
  pc,         \* where tpuart_rx_task is
  uart,       \* the octets the driver has collected
  arrived,    \* how many items have arrived
  data,       \* the buffer of the task
  rxBytes,    \* how many octets of it are the chunk just read
  index, fcs, \* the loop of TpUart2_DetectEOP
  SduLength,  \* the length it found, without the checksum
  connected,  \* KNXnetIP_Connected, which the server tasks change
  tunnelled   \* the cEMI frames made of this chunk

loop == << index, fcs, SduLength >>
vars == << pc, uart, arrived, data, rxBytes, loop, connected, tunnelled >>

TypeOK ==
  /\ pc \in Label
  /\ uart \in Seq(Octet)
  /\ arrived \in 0 .. MaxItems
  /\ data \in [Buffer -> Octet]
  /\ rxBytes \in 0 .. MaxChunk
  /\ index \in Octet
  /\ fcs \in Octet
  /\ SduLength \in Octet
  /\ connected \in BOOLEAN
  /\ tunnelled \in Seq(Seq(Octet)) /\ Len(tunnelled) <= 2

Init ==
  /\ pc = "read"
  /\ uart = << >>
  /\ arrived = 0
  /\ \E g \in Garbage : data = [i \in Buffer |-> g]
  /\ rxBytes = 0
  /\ index = 0
  /\ fcs = 255
  /\ SduLength = 0
  /\ connected = FALSE
  /\ tunnelled = << >>

-----------------------------------------------------------------------------
\* The bus and the server tasks.
Arrive(item) ==
  /\ arrived < MaxItems
  /\ arrived' = arrived + 1
  /\ uart' = uart \o item
  /\ UNCHANGED << pc, data, rxBytes, loop, connected, tunnelled >>

Connection ==
  /\ connected' = ~connected
  /\ UNCHANGED << pc, uart, arrived, data, rxBytes, loop, tunnelled >>

-----------------------------------------------------------------------------
\* Seeded bug: the chunk is not terminated.
UartReadUnterminated(n) ==
  /\ pc = "read"
  /\ data' = [i \in Buffer |-> IF i < n THEN uart[i + 1] ELSE data[i]]
  /\ uart' = SubSeq(uart, n + 1, Len(uart))
  /\ rxBytes' = n
  /\ pc' = IF IsLData(data'[0]) THEN "detect" ELSE "read"
  /\ index' = 0
  /\ fcs' = 255
  /\ tunnelled' = << >>
  /\ UNCHANGED << arrived, SduLength, connected >>

\* The driver returns what has come in when its time is up or the length asked
\* for is reached.  Only a chunk that starts like a telegram is looked at.
UartRead(n) ==
  /\ pc = "read"
  /\ data' = [i \in Buffer |-> IF i < n THEN uart[i + 1]
                               ELSE IF i = n THEN 0 ELSE data[i]]
  /\ uart' = SubSeq(uart, n + 1, Len(uart))
  /\ rxBytes' = n
  /\ pc' = IF IsLData(data'[0]) THEN "detect" ELSE "read"
  /\ index' = 0
  /\ fcs' = 255
  /\ tunnelled' = << >>
  /\ UNCHANGED << arrived, SduLength, connected >>

\* TpUart2_DetectEOP is given the length of the chunk as a uint8_t.
rxLength == rxBytes % 256

\* One round of its loop; the octet that is compared may be the one after the
\* last of the chunk.
DetectEOP ==
  /\ pc = "detect"
  /\ index < rxLength
  /\ fcs' = BitXor(fcs, data[index])
  /\ IF rxLength >= index + 1 /\ data[index + 1] = fcs'
       THEN /\ SduLength' = index + 1
            /\ pc' = "indicate"
            /\ UNCHANGED index
       ELSE /\ index' = index + 1
            /\ UNCHANGED << pc, SduLength >>
  /\ UNCHANGED << uart, arrived, data, rxBytes, connected, tunnelled >>

DetectNothing ==
  /\ pc = "detect"
  /\ index >= rxLength
  /\ pc' = "invalid"
  /\ UNCHANGED << uart, arrived, data, rxBytes, loop, connected, tunnelled >>

\* The chunk is dropped, with a warning.
Warn ==
  /\ pc = "invalid"
  /\ pc' = "read"
  /\ UNCHANGED << uart, arrived, data, rxBytes, loop, connected, tunnelled >>

-----------------------------------------------------------------------------
\* A destination that equals the source is cleared.
Destination(i) ==
  IF data[1] = data[3] /\ data[2] = data[4] THEN 0 ELSE data[i]

Header(length) ==
  << L_DATA_IND, 0, data[0], AT_HC(data[5]), data[1], data[2],
     Destination(3), Destination(4), length >>

\* The octets of the buffer from the TPDU on.
Tpdu(n) == [k \in 1 .. n |-> data[5 + k]]

\* Seeded bug: the TPDU is taken to end where the checksum was found.
IndicationAsDetected ==
  Header(LG(data[5])) \o Tpdu(IF SduLength > 6 THEN SduLength - 6 ELSE 0)

Indication == Header(LG(data[5])) \o Tpdu(LG(data[5]) + 1)

Acknowledge == Header(0) \o << 194 >>

\* TpUart2_L_Data_Ind; SduLength is never 0 here.
Indicate ==
  /\ pc = "indicate"
  /\ data[0] # L_POLLDATA_REQ
  /\ IsLData(data[0])
  /\ connected
  /\ tunnelled' = Append(tunnelled, Indication)
  /\ pc' = "confirm"
  /\ UNCHANGED << uart, arrived, data, rxBytes, loop, connected >>

NotIndicated ==
  /\ pc = "indicate"
  /\ data[0] # L_POLLDATA_REQ
  /\ ~connected
  /\ pc' = "confirm"
  /\ UNCHANGED << uart, arrived, data, rxBytes, loop, connected, tunnelled >>

\* A poll is answered on the bus (TpTransmit!U_PollingState).
Poll ==
  /\ pc = "indicate"
  /\ data[0] = L_POLLDATA_REQ
  /\ pc' = "confirm"
  /\ UNCHANGED << uart, arrived, data, rxBytes, loop, connected, tunnelled >>

\* Seeded bug: the checksum itself is compared with the confirmation.
ConfirmedAtChecksum ==
  SduLength < rxBytes /\ data[SduLength] = DATACONFIRMSUCCESS

\* Seeded bug: that the chunk goes on is not checked.
ConfirmedUnchecked == data[SduLength + 1] = DATACONFIRMSUCCESS

Confirmed ==
  SduLength < rxBytes /\ data[SduLength + 1] = DATACONFIRMSUCCESS

\* Seeded bug: while for if.
L_Data_Ind_ACKRepeated ==
  /\ pc = "confirm"
  /\ Confirmed
  /\ tunnelled' = Append(tunnelled, Acknowledge)
  /\ UNCHANGED << pc, uart, arrived, data, rxBytes, loop, connected >>

\* The acknowledge is sent whether or not a client is connected.
L_Data_Ind_ACK ==
  /\ pc = "confirm"
  /\ Confirmed
  /\ tunnelled' = Append(tunnelled, Acknowledge)
  /\ pc' = "read"
  /\ UNCHANGED << uart, arrived, data, rxBytes, loop, connected >>

NotConfirmed ==
  /\ pc = "confirm"
  /\ ~Confirmed
  /\ pc' = "read"
  /\ UNCHANGED << uart, arrived, data, rxBytes, loop, connected, tunnelled >>

tpuart_rx_task ==
  \/ \E n \in 1 .. MaxChunk : n <= Len(uart) /\ UartRead(n)
  \/ DetectEOP \/ DetectNothing \/ Warn
  \/ Indicate \/ NotIndicated \/ Poll
  \/ L_Data_Ind_ACK \/ NotConfirmed

Next ==
  \/ \E item \in Telegrams \cup Others : Arrive(item)
  \/ Connection
  \/ tpuart_rx_task

Spec == Init /\ [][Next]_vars

-----------------------------------------------------------------------------
(***************************************************************************)
(* Properties.                                                             *)
(***************************************************************************)
\* The chunk starts with all of telegram t, and TpUart2_DetectEOP, which is told
\* the length of the chunk in eight bits, looks at all of it.
Whole(t) == /\ Len(t) <= rxLength
            /\ \A k \in 1 .. Len(t) : data[k - 1] = t[k]

\* c is telegram t as a cEMI frame (emptied of a destination that is t's own
\* source).
Conveys(c, t) ==
  /\ << c[1], c[3], c[5], c[6] >> = << L_DATA_IND, t[1], t[2], t[3] >>
  /\ << c[7], c[8] >> = IF << t[4], t[5] >> = << t[2], t[3] >>
                        THEN << 0, 0 >> ELSE << t[4], t[5] >>
  /\ c[4] + c[9] = t[6]
  /\ Len(c) = Len(t) + 2
  /\ \A k \in 7 .. Len(t) - 1 : c[k + 3] = t[k]

\* TpUart2_DetectEOP compares the checksum with one octet more than the chunk
\* has (TpUart2_DataLinkLayer.c:112) and tells apart neither the end of a
\* telegram from an octet in it that equals the checksum so far.  Still a
\* telegram the chunk starts with is never dropped as invalid, and with a
\* client connected all of it, and nothing else, is tunnelled.
WholeTelegramIsTunnelled ==
  [][\A t \in Telegrams :
       Whole(t) =>
         /\ pc' # "invalid"
         /\ pc = "indicate" /\ pc' # pc /\ connected =>
              Len(tunnelled') = 1 /\ Conveys(tunnelled'[1], t)]_vars

\* The 0 written behind the chunk (Knx.c:87) makes up for that octet: a
\* checksum is only ever found among the octets received, since up to the
\* octet before it would have been found one round earlier.  The exception is
\* a chunk of the one octet 0xFF.
ChecksumWasReceived ==
  pc \in { "indicate", "confirm" } =>
    SduLength < rxBytes \/ (rxBytes = 1 /\ data[0] = 255)

\* An acknowledge is never sent for a confirmation left behind by an earlier
\* chunk (Knx.c:157 may look at the octet behind the chunk).
ConfirmationWasReceived ==
  [][pc = "confirm" /\ tunnelled' # tunnelled =>
       \E i \in 0 .. rxBytes - 1 :
         i = SduLength + 1 /\ data[i] = DATACONFIRMSUCCESS]_vars

\* No octet of t equals the checksum of those before it, but its last.
Plain(t) == \A k \in 1 .. Len(t) - 2 : Sum[t][k] # t[k + 1]

\* A telegram without such an octet is acknowledged if and only if the octet
\* that follows it in the chunk is the confirmation.
PlainTelegramAckedIffConfirmed ==
  [][\A t \in Telegrams :
       Whole(t) /\ Plain(t) /\ pc = "confirm" /\ pc' # pc =>
         (tunnelled' # tunnelled <=>
            Len(t) < rxBytes /\ data[Len(t)] = DATACONFIRMSUCCESS)]_vars

\* Knx.c:151-155: the octet after a telegram is checked for the confirmation,
\* which "is transmitted to the host if an acknowledge was received".
ConfirmedIsAcknowledged ==
  [][\A t \in Telegrams :
       /\ Whole(t) /\ pc = "confirm" /\ pc' # pc
       /\ Len(t) < rxBytes /\ data[Len(t)] = DATACONFIRMSUCCESS
       => tunnelled' # tunnelled]_vars
=============================================================================
