------------------------------ MODULE TpTransmit ------------------------------
(***************************************************************************)
(* The way of a tunnelled telegram from a KNXnet/IP client to the bus.  The *)
(* UDP and the TCP task both run it: the telegram is copied to IP_RxBuffer, *)
(* rebuilt as a TP frame in L_TxBuffer, given a checksum, copied to         *)
(* TpUart2_TxBuffer and written to the TP-UART one octet at a time.  None   *)
(* of the three buffers, nor the UART, is locked.                           *)
(*                                                                         *)
(* An octet is what it was made from and its position in the TP frame; the *)
(* checksum of some octets stands for exactly these octets.  Each action is *)
(* one statement of the code, a memcpy included.                            *)
(*                                                                         *)
(* How many octets a telegram has and what its length field says are two    *)
(* things: the first says how much is copied to IP_RxBuffer, the second how *)
(* much is taken out of it.                                                 *)
(***************************************************************************)
EXTENDS Naturals, Sequences

CONSTANTS
  Handlers,    \* the tasks that run IP_L_Data_Ind
  Telegrams,   \* the telegrams clients tunnel
  Length,      \* Length[t]: the length field of t, an octet: one less than its
               \* TPDU, if the client is right
  CemiLength,  \* CemiLength[t]: how many octets of its cEMI t has come with
  BufferSize,  \* the octets of IP_RxBuffer: 128
  IndexRange,  \* the values of an octet, which index is: 256
  Gateway,     \* what the gateway's own individual address is made from
  Nothing,     \* what the buffers are made from at first
  Outside      \* what the octets behind IP_RxBuffer are made from

\* Offsets of fields in the cEMI of a telegram and, of the TPDU, in a TP frame.
CTRL1     == 2
CTRL2     == 3
DA        == 6
LENGTH    == 8
CEMI_TPDU == 9
TPDU      == 6

ASSUME TpTransmitAssumption ==
  /\ BufferSize \in Nat /\ BufferSize > CEMI_TPDU
  /\ IndexRange \in Nat /\ IndexRange > TPDU + 3
  /\ Length \in [Telegrams -> 0 .. IndexRange - 1]
  /\ CemiLength \in [Telegrams -> 0 .. BufferSize]
  /\ Nothing \notin Telegrams /\ Gateway \notin Telegrams /\ Gateway # Nothing

Octet(origin, i) == << origin, i >>
Checksum(octets) == << "fcs", octets >>

\* The octets of a TP frame that is all of t: 1 and 2, the source address, are
\* the gateway's own, and 5 is made from two octets of the cEMI.
OctetOf(t, i) ==
  Octet(IF i \in { 1, 2 } THEN Gateway ELSE IF i = 5 THEN << t, t >> ELSE t, i)

\* A TPDU ends at Last(t), and where the longest one ends, so may the frame
\* buffers: they are of 512 octets.
Last(t)  == TPDU + Length[t]
Position == 0 .. TPDU + IndexRange - 1

\* The services of the TP-UART: six bits of the command are the position.
U_L_DataStart(o)       == [ cmd |-> "start", arg |-> 0, octet |-> o ]
U_L_DataContinue(i, o) == [ cmd |-> "continue", arg |-> i % 64, octet |-> o ]
U_L_DataEnd(l, o)      == [ cmd |-> "end", arg |-> l % 64, octet |-> o ]

Label == { "idle", "control", "address", "length", "tpdu", "index", "fcs",
           "copy", "service", "done" }

VARIABLES
  pc,                \* pc[h]: the statement handler h is at
  telegram,          \* telegram[h]: the telegram h was given
  IP_RxBuffer,       \* the telegram each of its octets is from
  L_TxBuffer,        \* the TP frame that is built
  TpUart2_TxBuffer,  \* the TP frame that is written to the UART
  index,             \* index[h]: how long h's frame is, once its TPDU is in,
                     \* as far as an octet can tell
  written,           \* written[h]: the services h has written for it
  disturbed          \* disturbed[h]: another task wrote a buffer or the UART
                     \* since h's telegram came in

buffers == << IP_RxBuffer, L_TxBuffer, TpUart2_TxBuffer >>
vars    == << pc, telegram, buffers, index, written, disturbed >>

TypeOK ==
  /\ pc \in [Handlers -> Label]
  /\ telegram \in [Handlers -> Telegrams \cup {Nothing}]
  /\ IP_RxBuffer \in [0 .. BufferSize - 1 -> Telegrams \cup {Nothing}]
  /\ DOMAIN L_TxBuffer = Position /\ DOMAIN TpUart2_TxBuffer = Position
  /\ index \in [Handlers -> 0 .. IndexRange - 1]
  /\ disturbed \in [Handlers -> BOOLEAN]

Init ==
  /\ pc = [h \in Handlers |-> "idle"]
  /\ telegram = [h \in Handlers |-> Nothing]
  /\ IP_RxBuffer = [k \in 0 .. BufferSize - 1 |-> Nothing]
  /\ L_TxBuffer = [i \in Position |-> Octet(Nothing, i)]
  /\ TpUart2_TxBuffer = [i \in Position |-> Octet(Nothing, i)]
  /\ index = [h \in Handlers |-> 0]
  /\ written = [h \in Handlers |-> << >>]
  /\ disturbed = [h \in Handlers |-> FALSE]

-----------------------------------------------------------------------------
Step(h, from, to) == pc[h] = from /\ pc' = [pc EXCEPT ![h] = to]

\* h writes a buffer or the UART, which every other task that has a telegram
\* under way may notice.
Touch(h) ==
  disturbed' =
    [g \in Handlers |-> disturbed[g] \/ (g # h /\ pc[g] # "idle")]

\* Put octets, given by their positions, into the frame under construction.
Put(octets) ==
  L_TxBuffer' = [i \in Position |-> IF i \in DOMAIN octets THEN octets[i]
                                    ELSE L_TxBuffer[i]]

\* Handler h goes on to the next statement, having put these octets in.
Assign(h, from, to, octets) ==
  /\ Step(h, from, to)
  /\ Put(octets)
  /\ Touch(h)
  /\ UNCHANGED << telegram, IP_RxBuffer, TpUart2_TxBuffer, written >>

\* The octet at offset k of IP_RxBuffer or behind it.
RxOctet(k) == IF k < BufferSize THEN IP_RxBuffer[k] ELSE Outside

\* The length field in IP_RxBuffer, which every statement that needs it reads
\* again; it is 0 before the first telegram.
LengthField ==
  IF IP_RxBuffer[LENGTH] = Nothing THEN 0 ELSE Length[IP_RxBuffer[LENGTH]]

-----------------------------------------------------------------------------
\* A TUNNELLING_REQUEST arrives: the octets it came with are copied to
\* IP_RxBuffer, whatever its length field says; what they do not reach stays
\* there from earlier telegrams.
Tunnel(h, t) ==
  /\ Step(h, "idle", "control")
  /\ telegram' = [telegram EXCEPT ![h] = t]
  /\ IP_RxBuffer' = [k \in 0 .. BufferSize - 1 |->
                       IF k < CemiLength[t] THEN t ELSE IP_RxBuffer[k]]
  /\ Touch(h)
  /\ UNCHANGED << L_TxBuffer, TpUart2_TxBuffer, index, written >>

\* Seeded bug: the source address of the client is passed on.
SetControlAndSourceOfClient(h) ==
  /\ Assign(h, "control", "address",
            [i \in 0 .. 2 |-> Octet(IP_RxBuffer[CTRL1 + i], i)])
  /\ UNCHANGED index

SetControlAndSource(h) ==
  /\ Assign(h, "control", "address",
            [i \in 0 .. 2 |->
               Octet(IF i = 0 THEN IP_RxBuffer[CTRL1] ELSE Gateway, i)])
  /\ UNCHANGED index

SetDestination(h) ==
  /\ Assign(h, "address", "length",
            [i \in 3 .. 4 |-> Octet(IP_RxBuffer[DA + i - 3], i)])
  /\ UNCHANGED index

SetLength(h) ==
  /\ Assign(h, "length", "tpdu",
            [i \in { 5 } |->
               Octet(<< IP_RxBuffer[CTRL2], IP_RxBuffer[LENGTH] >>, i)])
  /\ UNCHANGED index

\* Seeded bug: the length field is taken for the length of the TPDU.
CopyTpduShort(h) ==
  /\ Assign(h, "tpdu", "index",
            [i \in TPDU .. TPDU + LengthField - 1 |->
               Octet(RxOctet(CEMI_TPDU + i - TPDU), i)])
  /\ UNCHANGED index

CopyTpdu(h) ==
  /\ Assign(h, "tpdu", "index",
            [i \in TPDU .. TPDU + LengthField |->
               Octet(RxOctet(CEMI_TPDU + i - TPDU), i)])
  /\ UNCHANGED index

\* Seeded bug: the index is wider than the length it is passed on as.
AdvanceIndexWide(h) ==
  /\ Step(h, "index", "fcs")
  /\ index' = [index EXCEPT ![h] = @ + TPDU + LengthField + 1]
  /\ UNCHANGED << telegram, buffers, written, disturbed >>

AdvanceIndex(h) ==
  /\ Step(h, "index", "fcs")
  /\ index' = [index EXCEPT ![h] = (@ + TPDU + LengthField + 1) % IndexRange]
  /\ UNCHANGED << telegram, buffers, written, disturbed >>

\* The first n octets of the frame under construction.
Frame(n) == [k \in 1 .. n |-> L_TxBuffer[k - 1]]

SetFCS(h) ==
  /\ Assign(h, "fcs", "copy",
            [i \in { index[h] } |-> Checksum(Frame(index[h]))])
  /\ index' = [index EXCEPT ![h] = (index[h] + 1) % IndexRange]

\* TpUart2_L_Data_Req: the frame is copied once more, as long as h built it;
\* nothing is written of one whose index is back at 0.
CopyFrame(h) ==
  /\ Step(h, "copy", IF index[h] = 0 THEN "done" ELSE "service")
  /\ TpUart2_TxBuffer' =
       [i \in Position |->
          IF i < index[h] THEN L_TxBuffer[i] ELSE TpUart2_TxBuffer[i]]
  /\ Touch(h)
  /\ UNCHANGED << telegram, IP_RxBuffer, L_TxBuffer, index, written >>

\* The service for octet i of a frame of length n.
Service(i, n) ==
  LET octet == TpUart2_TxBuffer[i]
  IN  IF i = 0 THEN U_L_DataStart(octet)
      ELSE IF i = n - 1 THEN U_L_DataEnd(n - 1, octet)
      ELSE U_L_DataContinue(i, octet)

\* Seeded bug: the loop ends one octet too early.
WriteServiceButTheLast(h) ==
  LET i == Len(written[h])
  IN  /\ Step(h, "service", IF i = index[h] - 2 THEN "done" ELSE "service")
      /\ written' = [written EXCEPT ![h] = Append(@, Service(i, index[h]))]
      /\ Touch(h)
      /\ UNCHANGED << telegram, buffers, index >>

\* One round of the loop: a service is written and waited for.
WriteService(h) ==
  LET i == Len(written[h])
  IN  /\ Step(h, "service", IF i = index[h] - 1 THEN "done" ELSE "service")
      /\ written' = [written EXCEPT ![h] = Append(@, Service(i, index[h]))]
      /\ Touch(h)
      /\ UNCHANGED << telegram, buffers, index >>

\* TP_GW_L_Data_Req returns; IP_L_Data_Ind goes on to acknowledge the request.
Return(h) ==
  /\ Step(h, "done", "idle")
  /\ telegram' = [telegram EXCEPT ![h] = Nothing]
  /\ index' = [index EXCEPT ![h] = 0]
  /\ written' = [written EXCEPT ![h] = << >>]
  /\ disturbed' = [disturbed EXCEPT ![h] = FALSE]
  /\ UNCHANGED buffers

\* The receive task answers a poll with a service of its own on the same UART.
U_PollingState ==
  /\ disturbed' = [h \in Handlers |-> disturbed[h] \/ pc[h] # "idle"]
  /\ UNCHANGED << pc, telegram, buffers, index, written >>

HandlerStep(h) ==
  \/ SetControlAndSource(h) \/ SetDestination(h) \/ SetLength(h)
  \/ CopyTpdu(h) \/ AdvanceIndex(h) \/ SetFCS(h)
  \/ CopyFrame(h) \/ WriteService(h) \/ Return(h)

Next ==
  \/ \E h \in Handlers : HandlerStep(h) \/ \E t \in Telegrams : Tunnel(h, t)
  \/ U_PollingState

Spec == Init /\ [][Next]_vars

-----------------------------------------------------------------------------
(***************************************************************************)
(* Properties.                                                             *)
(***************************************************************************)
\* The TP frame of telegram t, and the services that put it on the bus.
FrameOf(t) ==
  LET data == [k \in 1 .. Last(t) + 1 |-> OctetOf(t, k - 1)]
  IN  Append(data, Checksum(data))

ServicesOf(t) ==
  LET n == Len(FrameOf(t))
  IN  [k \in 1 .. n |->
         IF k = 1 THEN U_L_DataStart(FrameOf(t)[k])
         ELSE IF k = n THEN U_L_DataEnd(n - 1, FrameOf(t)[k])
         ELSE U_L_DataContinue(k - 1, FrameOf(t)[k])]

\* All of its TPDU has come with t, and its frame can be counted in an octet.
Complete(t) == /\ CEMI_TPDU + Length[t] < CemiLength[t]
               /\ Last(t) + 2 < IndexRange

\* A whole telegram reaches the TP-UART complete, in order and with the
\* checksum of its own octets, unless another task wrote one of the three
\* buffers or the UART in the meantime: nothing an earlier, longer telegram
\* left in them shows in it.
UndisturbedTelegramIsIntact ==
  \A h \in Handlers :
    pc[h] = "done" /\ ~disturbed[h] /\ Complete(telegram[h])
    => written[h] = ServicesOf(telegram[h])

\* Where the checksum of a frame is put if the length field is that of t.
ChecksumAt(t) == (Last(t) + 1) % IndexRange

\* Whose length field h may find in IP_RxBuffer: its own telegram's, if that
\* has come with one and no other task has been there since.
LengthOwners(h) ==
  IF disturbed[h] \/ CemiLength[telegram[h]] <= LENGTH
  THEN Telegrams ELSE { telegram[h] }

\* Whatever the two tasks do to each other's frames, none goes to the bus with
\* a source address that is not the gateway's, with one exception: a length
\* field so large that the index overflows onto the address puts the checksum
\* there.
SourceIsGateway ==
  \A h \in Handlers : \A k \in 2 .. 3 :
    k <= Len(written[h]) /\ written[h][k].octet # Octet(Gateway, k - 1)
    => \E t \in LengthOwners(h) : ChecksumAt(t) = k - 1

\* KnxTpUart2_Services.h:38-39 gives the ranges of the positions a service can
\* carry.
ServicesInRange ==
  \A h \in Handlers : \A k \in 1 .. Len(written[h]) :
    LET s == written[h][k]
    IN  /\ s.cmd = "continue" => s.arg \in 1 .. 62
        /\ s.cmd = "end" => s.arg \in 7 .. 63
=============================================================================
