--------------------------- MODULE TpReceiveProofs ---------------------------
(***************************************************************************)
(* Theorems about TpReceive, for any telegrams, any other octets from the  *)
(* TP-UART, any cut into chunks and a buffer of any size.                  *)
(*                                                                         *)
(* Terminated says that the octet behind the chunk is 0, Unmatched that    *)
(* the checksum so far differs from the octet it was last compared with.   *)
(* Together they exclude a match with the octet behind the chunk.  Summed  *)
(* follows the checksum of a telegram the chunk starts with: the loop      *)
(* cannot pass the end of that telegram.                                   *)
(***************************************************************************)
EXTENDS TpReceive, SequenceTheorems, TLAPS

\* What the variables of the loop and the output are at each label.
Found == { "indicate", "confirm" }

Terminated ==
  pc # "read" => rxBytes \in 1 .. MaxChunk /\ data[rxBytes] = 0

Unmatched ==
  pc = "detect" => /\ index <= rxLength
                   /\ index = 0 => fcs = 255
                   /\ index > 0 => fcs # data[index]

Matched ==
  pc \in Found => /\ SduLength \in 1 .. 255 /\ SduLength <= rxLength
                  /\ IsLData(data[0])

Output ==
  /\ pc \in { "detect", "invalid", "indicate" } => tunnelled = << >>
  /\ pc = "detect" => IsLData(data[0])
  /\ pc = "confirm" => Len(tunnelled) <= 1

LoopInv ==
  TypeOK /\ Terminated /\ Unmatched /\ Matched /\ Output /\ ChecksumWasReceived

Summed ==
  \A t \in Telegrams :
    Whole(t) /\ pc = "detect" =>
      index <= Len(t) - 2 /\ (index > 0 => fcs = Sum[t][index])

NotDropped == \A t \in Telegrams : Whole(t) => pc # "invalid"

PlainMatched ==
  \A t \in Telegrams :
    Whole(t) /\ Plain(t) /\ pc \in Found => SduLength = Len(t) - 1

TelegramInv == Summed /\ NotDropped /\ PlainMatched

-----------------------------------------------------------------------------
\* What is used of the constants.
LEMMA Sizes == MaxChunk \in Nat /\ MaxChunk >= 22 /\ MaxItems \in Nat
BY TpReceiveAssumption

LEMMA XorType ==
  ASSUME NEW a \in Octet, NEW b \in Octet
  PROVE  BitXor(a, b) \in Octet /\ (BitXor(a, b) = 0 <=> a = b)
BY TpReceiveAssumption

\* Octets as numbers.
LEMMA OctetIs == \A n : n \in Octet <=> n \in Nat /\ n <= 255
BY DEF Octet

\* Cutting a length to eight bits.
LEMMA Cut ==
  ASSUME NEW n \in Nat
  PROVE  n % 256 \in Octet /\ n % 256 <= n /\ (n < 256 => n % 256 = n)
BY DEF Octet

\* The two halves of an octet.
LEMMA Halves ==
  ASSUME NEW o \in Octet
  PROVE  /\ LG(o) \in 0 .. 15 /\ LG(o) \in Octet /\ AT_HC(o) \in Octet
         /\ AT_HC(o) + LG(o) = o
BY DEF Octet, LG, AT_HC

\* The buffer holds everything the frames are made of.
LEMMA BufferType ==
  ASSUME TypeOK, NEW i \in 0 .. 22
  PROVE  i \in Buffer /\ data[i] \in Octet
<1>1. i \in Buffer
  BY Sizes DEF Buffer
<1> QED BY <1>1 DEF TypeOK

LEMMA HeaderType ==
  ASSUME TypeOK, NEW n \in Octet
  PROVE  Header(n) \in Seq(Octet) /\ Len(Header(n)) = 9
<1>1. /\ data[0] \in Octet /\ data[1] \in Octet /\ data[2] \in Octet
      /\ data[3] \in Octet /\ data[4] \in Octet /\ data[5] \in Octet
  BY BufferType
<1>2. 0 \in Octet /\ L_DATA_IND \in Octet
  BY DEF Octet, L_DATA_IND
<1>3. Destination(3) \in Octet /\ Destination(4) \in Octet
  BY <1>1, <1>2 DEF Destination
<1>4. AT_HC(data[5]) \in Octet
  BY <1>1, Halves
<1> QED BY <1>1, <1>2, <1>3, <1>4 DEF Header

LEMMA TpduType ==
  ASSUME TypeOK, NEW n \in 0 .. 16
  PROVE  Tpdu(n) \in Seq(Octet) /\ Len(Tpdu(n)) = n
<1>1. \A k \in 1 .. n : data[5 + k] \in Octet
  BY BufferType
<1> QED BY <1>1 DEF Tpdu

LEMMA FrameType ==
  ASSUME TypeOK
  PROVE  /\ Indication \in Seq(Octet)
         /\ Len(Indication) = 10 + LG(data[5])
         /\ Acknowledge \in Seq(Octet)
<1> DEFINE n == LG(data[5])
<1>1. n \in 0 .. 15 /\ n \in Octet
  BY BufferType, Halves
<1>2. 0 \in Octet /\ 194 \in Octet
  BY DEF Octet
<1>3. /\ Header(n) \in Seq(Octet) /\ Len(Header(n)) = 9
      /\ Header(0) \in Seq(Octet)
  BY <1>1, <1>2, HeaderType
<1> HIDE DEF n
<1>4. Tpdu(n + 1) \in Seq(Octet) /\ Len(Tpdu(n + 1)) = n + 1
  <2>1. n + 1 \in 0 .. 16
    BY <1>1
  <2> QED BY <2>1, TpduType
<1>5. /\ Header(n) \o Tpdu(n + 1) \in Seq(Octet)
      /\ Len(Header(n) \o Tpdu(n + 1)) = 10 + n
  <2> DEFINE H == Header(n)  P == Tpdu(n + 1)
  <2>1. H \in Seq(Octet) /\ P \in Seq(Octet) /\ Len(H) = 9 /\ Len(P) = n + 1
    BY <1>3, <1>4
  <2> HIDE DEF H, P
  <2>2. H \o P \in Seq(Octet) /\ Len(H \o P) = Len(H) + Len(P)
    BY <2>1, ConcatProperties
  <2>3. Len(H \o P) = 10 + n
    BY <1>1, <2>1, <2>2
  <2> QED BY <2>2, <2>3 DEF H, P
<1>6. Header(0) \o << 194 >> \in Seq(Octet)
  BY <1>2, <1>3
<1> QED BY <1>5, <1>6 DEF Indication, Acknowledge, n

-----------------------------------------------------------------------------
LEMMA LoopInit == Init => LoopInv
<1> SUFFICES ASSUME Init PROVE LoopInv
  OBVIOUS
<1>1. 0 \in Octet /\ 255 \in Octet
  BY OctetIs
<1>2. PICK g \in Garbage : data = [i \in Buffer |-> g]
  BY DEF Init
<1>3. data \in [Buffer -> Octet]
  BY <1>2, TpReceiveAssumption
<1>4. /\ << >> \in Seq(Octet) /\ << >> \in Seq(Seq(Octet)) /\ Len(<< >>) <= 2
      /\ 0 \in 0 .. MaxItems /\ 0 \in 0 .. MaxChunk
  BY Sizes
<1>5. TypeOK
  BY <1>1, <1>3, <1>4 DEF Init, TypeOK, Label
<1> QED
  BY <1>5 DEF Init, LoopInv, Terminated, Unmatched, Matched, Output,
              ChecksumWasReceived, Found

\* The bus and the server tasks leave the task alone.
LEMMA LoopArrive ==
  ASSUME LoopInv, NEW item \in Telegrams \cup Others, Arrive(item)
  PROVE  LoopInv'
<1> USE DEF LoopInv, Arrive, loop
<1>1. item \in Seq(Octet)
  BY TpReceiveAssumption, TelegramAssumption
<1>2. TypeOK'
  BY <1>1, TpReceiveAssumption DEF TypeOK
<1> QED
  BY <1>2 DEF Terminated, Unmatched, Matched, Output, ChecksumWasReceived,
              rxLength, IsLData

LEMMA LoopConnection ==
  ASSUME LoopInv, Connection
  PROVE  LoopInv'
<1> USE DEF LoopInv, Connection, loop
<1>1. TypeOK'
  BY DEF TypeOK
<1> QED
  BY <1>1 DEF Terminated, Unmatched, Matched, Output, ChecksumWasReceived,
              rxLength, IsLData

LEMMA LoopRead ==
  ASSUME LoopInv, NEW n \in 1 .. MaxChunk, n <= Len(uart), UartRead(n)
  PROVE  LoopInv'
<1> USE DEF LoopInv
<1>1. MaxChunk \in Nat /\ n \in Buffer /\ 0 \in Buffer /\ 0 \in Octet
  BY Sizes, OctetIs DEF Buffer
<1>2. \A i \in Buffer : i < n => uart[i + 1] \in Octet
  BY <1>1 DEF TypeOK, Buffer
<1>3. data' \in [Buffer -> Octet] /\ data'[n] = 0
  BY <1>1, <1>2 DEF UartRead, TypeOK
<1>4. SubSeq(uart, n + 1, Len(uart)) \in Seq(Octet)
  BY <1>1 DEF TypeOK
<1>5. TypeOK'
  <2>1. 255 \in Octet /\ n \in 0 .. MaxChunk
    BY <1>1, OctetIs
  <2> QED BY <1>1, <1>3, <1>4, <2>1 DEF UartRead, TypeOK, Label
<1>6. 0 <= rxLength'
  BY <1>1, Cut, OctetIs DEF UartRead, rxLength
<1>7. Terminated' /\ Unmatched' /\ Output'
  BY <1>3, <1>6 DEF UartRead, Terminated, Unmatched, Output, IsLData
<1>8. Matched' /\ ChecksumWasReceived'
  BY DEF UartRead, Matched, ChecksumWasReceived, Found
<1> QED BY <1>5, <1>7, <1>8

\* What one more round of the loop compares.
LEMMA Round ==
  ASSUME LoopInv, DetectEOP
  PROVE  /\ rxLength \in Octet /\ rxLength <= rxBytes
         /\ rxBytes < 256 => rxLength = rxBytes
         /\ index \in Buffer /\ index + 1 \in Buffer /\ index + 1 \in 1 .. 255
         /\ data[index] \in Octet /\ data[index + 1] \in Octet
         /\ fcs' \in Octet /\ fcs' = BitXor(fcs, data[index])
         /\ fcs' = 0 => index = 0 /\ data[0] = 255
<1>1. /\ rxLength \in Octet /\ rxLength <= rxBytes
      /\ rxBytes < 256 => rxLength = rxBytes
  BY Cut DEF LoopInv, TypeOK, rxLength
<1>2. index \in Octet /\ fcs \in Octet /\ rxBytes \in 0 .. MaxChunk
      /\ index < rxLength /\ pc = "detect"
  BY DEF LoopInv, TypeOK, DetectEOP
<1>3. /\ index \in Buffer /\ index + 1 \in Buffer /\ index + 1 \in 1 .. 255
  BY <1>1, <1>2, Sizes, OctetIs DEF Buffer
<1>4. data[index] \in Octet /\ data[index + 1] \in Octet
  BY <1>3 DEF LoopInv, TypeOK
<1>5. fcs' = BitXor(fcs, data[index])
  BY DEF DetectEOP
<1>6. fcs' \in Octet /\ (fcs' = 0 <=> fcs = data[index])
  BY <1>2, <1>4, <1>5, XorType
<1>7. fcs = data[index] => index = 0 /\ data[0] = 255
  <2>1. index > 0 => fcs # data[index]
    BY <1>2 DEF LoopInv, Unmatched
  <2>2. index = 0 => fcs = 255
    BY <1>2 DEF LoopInv, Unmatched
  <2> QED BY <1>2, <2>1, <2>2, OctetIs
<1> QED BY <1>1, <1>3, <1>4, <1>5, <1>6, <1>7

LEMMA LoopDetectEOP ==
  ASSUME LoopInv, DetectEOP
  PROVE  LoopInv'
<1> USE DEF LoopInv
<1>1. UNCHANGED << uart, arrived, data, rxBytes, connected, tunnelled >>
  BY DEF DetectEOP
<1>2. rxLength' = rxLength
  BY <1>1 DEF rxLength
<1>3. pc = "detect" /\ index < rxLength
  BY DEF DetectEOP
<1>4. CASE rxLength >= index + 1 /\ data[index + 1] = fcs'
  <2>1. SduLength' = index + 1 /\ pc' = "indicate" /\ index' = index
    BY <1>4 DEF DetectEOP
  <2>2. TypeOK'
    <3>1. index + 1 \in Octet /\ fcs' \in Octet
      BY Round, OctetIs
    <3> QED BY <1>1, <2>1, <3>1 DEF TypeOK, Label
  <2>3. Terminated' /\ Unmatched' /\ Output'
    BY <1>1, <1>3, <2>1 DEF Terminated, Unmatched, Output
  <2>4. Matched'
    BY <1>1, <1>2, <1>3, <1>4, <2>1, Round DEF Matched, Found, Output, IsLData
  <2>5. index + 1 = rxBytes => rxBytes = 1 /\ data[0] = 255
    <3>1. index + 1 = rxBytes => fcs' = 0
      BY <1>3, <1>4 DEF Terminated
    <3> QED BY <3>1, Round
  <2>6. ChecksumWasReceived'
    <3>1. index \in Nat /\ rxBytes \in Nat /\ index + 1 <= rxBytes
      BY <1>3, Round, OctetIs, Sizes DEF TypeOK
    <3> QED BY <1>1, <2>1, <2>5, <3>1 DEF ChecksumWasReceived
  <2> QED BY <2>2, <2>3, <2>4, <2>6
<1>5. CASE ~(rxLength >= index + 1 /\ data[index + 1] = fcs')
  <2>1. index' = index + 1 /\ UNCHANGED << pc, SduLength >>
    BY <1>5 DEF DetectEOP
  <2>2. TypeOK'
    <3>1. index + 1 \in Octet /\ fcs' \in Octet
      BY Round, OctetIs
    <3> QED BY <1>1, <2>1, <3>1 DEF TypeOK
  <2>3. Unmatched'
    <3>1. index \in Nat /\ rxLength \in Nat /\ index + 1 <= rxLength
      BY <1>3, Round, OctetIs DEF TypeOK
    <3>2. data[index + 1] # fcs'
      BY <1>5, <3>1
    <3> QED BY <1>1, <1>2, <1>3, <2>1, <3>1, <3>2 DEF Unmatched
  <2>4. Terminated' /\ Matched' /\ Output' /\ ChecksumWasReceived'
    BY <1>1, <1>3, <2>1
    DEF Terminated, Matched, Output, ChecksumWasReceived, Found, IsLData
  <2> QED BY <2>2, <2>3, <2>4
<1> QED BY <1>4, <1>5

\* The other steps leave the loop alone and make at most one frame each.
LEMMA LoopRest ==
  ASSUME LoopInv,
         DetectNothing \/ Warn \/ Indicate \/ NotIndicated \/ Poll
         \/ L_Data_Ind_ACK \/ NotConfirmed
  PROVE  LoopInv'
<1> USE DEF LoopInv
<1>1. /\ UNCHANGED << uart, arrived, data, rxBytes, loop, connected >>
      /\ << pc, pc' >> \in { << "detect", "invalid" >>, << "invalid", "read" >>,
                             << "indicate", "confirm" >>,
                             << "confirm", "read" >> }
  BY DEF DetectNothing, Warn, Indicate, NotIndicated, Poll, L_Data_Ind_ACK,
         NotConfirmed
<1>2. \/ tunnelled' = tunnelled
      \/ \E c \in Seq(Octet) : /\ pc \in Found
                               /\ tunnelled' = Append(tunnelled, c)
  BY FrameType DEF DetectNothing, Warn, Indicate, NotIndicated, Poll,
                   L_Data_Ind_ACK, NotConfirmed, Found
<1>3. \/ tunnelled' = tunnelled
      \/ /\ tunnelled' \in Seq(Seq(Octet))
         /\ Len(tunnelled') = Len(tunnelled) + 1
         /\ pc \in Found
  <2>1. ASSUME NEW c \in Seq(Octet), tunnelled' = Append(tunnelled, c)
        PROVE  /\ tunnelled' \in Seq(Seq(Octet))
               /\ Len(tunnelled') = Len(tunnelled) + 1
    <3> DEFINE Frames == Seq(Octet)
    <3>1. tunnelled \in Seq(Frames) /\ c \in Frames
      BY DEF TypeOK
    <3> HIDE DEF Frames
    <3>2. Append(tunnelled, c) \in Seq(Frames)
          /\ Len(Append(tunnelled, c)) = Len(tunnelled) + 1
      BY <3>1
    <3> QED BY <2>1, <3>2 DEF Frames
  <2> QED BY <1>2, <2>1
<1>4. pc \in { "detect", "invalid", "indicate" } => Len(tunnelled) = 0
  BY DEF Output
<1>5. TypeOK'
  BY <1>1, <1>3, <1>4 DEF TypeOK, Output, Label, Found, loop
<1>6. Output'
  BY <1>1, <1>2, <1>3, <1>4 DEF Output, TypeOK, Found
<1>7. Terminated' /\ Unmatched' /\ Matched' /\ ChecksumWasReceived'
  BY <1>1 DEF Terminated, Unmatched, Matched, ChecksumWasReceived, Found,
              loop, rxLength, IsLData
<1> QED BY <1>5, <1>6, <1>7

LEMMA LoopStep == LoopInv /\ [Next]_vars => LoopInv'
<1> SUFFICES ASSUME LoopInv, [Next]_vars PROVE LoopInv'
  OBVIOUS
<1>1. ASSUME NEW item \in Telegrams \cup Others, Arrive(item) PROVE LoopInv'
  BY <1>1, LoopArrive
<1>2. CASE Connection
  BY <1>2, LoopConnection
<1>3. ASSUME NEW n \in 1 .. MaxChunk, n <= Len(uart), UartRead(n) PROVE LoopInv'
  BY <1>3, LoopRead
<1>4. CASE DetectEOP
  BY <1>4, LoopDetectEOP
<1>5. CASE DetectNothing \/ Warn \/ Indicate \/ NotIndicated \/ Poll
           \/ L_Data_Ind_ACK \/ NotConfirmed
  BY <1>5, LoopRest
<1>6. CASE UNCHANGED vars
  BY <1>6 DEF vars, loop, LoopInv, TypeOK, Terminated, Unmatched, Matched,
              Output, ChecksumWasReceived, rxLength, IsLData
<1> QED BY <1>1, <1>2, <1>3, <1>4, <1>5, <1>6 DEF Next, tpuart_rx_task

\* LoopInv is an invariant.
THEOREM LoopAlways == Spec => []LoopInv
BY LoopInit, LoopStep, PTL DEF Spec

\* Every variable keeps its type: a chunk makes at most two frames.
THEOREM TypeCorrect == Spec => []TypeOK
<1>1. LoopInv => TypeOK
  BY DEF LoopInv
<1> QED BY <1>1, LoopAlways, PTL

\* The octet behind the chunk, which TpUart2_DetectEOP reads, never makes a
\* match, but for a chunk of the one octet 0xFF.
THEOREM ChecksumReceived == Spec => []ChecksumWasReceived
<1>1. LoopInv => ChecksumWasReceived
  BY DEF LoopInv
<1> QED BY <1>1, LoopAlways, PTL

-----------------------------------------------------------------------------
\* What is used of a telegram.
LEMMA TelegramIs ==
  ASSUME NEW t \in Telegrams
  PROVE  /\ t \in Seq(Octet) /\ Len(t) \in 8 .. 23
         /\ t[6] \in Octet /\ Len(t) = LG(t[6]) + 8
         /\ t[1] # L_POLLDATA_REQ
         /\ Sum[t][1] = BitXor(255, t[1])
         /\ \A k \in 1 .. Len(t) - 2 :
              Sum[t][k + 1] = BitXor(Sum[t][k], t[k + 1])
         /\ Sum[t][Len(t) - 1] = t[Len(t)]
<1>1. /\ t \in Seq(Octet) /\ Len(t) >= 8 /\ Len(t) = LG(t[6]) + 8
      /\ t[1] # L_POLLDATA_REQ
      /\ Sum[t][1] = BitXor(255, t[1])
      /\ \A k \in 1 .. Len(t) - 2 :
           Sum[t][k + 1] = BitXor(Sum[t][k], t[k + 1])
      /\ Sum[t][Len(t) - 1] = t[Len(t)]
  BY TelegramAssumption
<1>2. t[6] \in Octet /\ Len(t) \in Nat
  <2>1. t \in Seq(Octet) /\ Len(t) \in Nat /\ Len(t) >= 8
    BY <1>1
  <2>2. 6 \in 1 .. Len(t)
    BY <2>1
  <2> QED BY <2>1, <2>2
<1>3. LG(t[6]) \in 0 .. 15
  BY <1>2, Halves
<1>4. Len(t) \in 8 .. 23
  <2>1. Len(t) = LG(t[6]) + 8
    BY <1>1
  <2>2. \A n \in 0 .. 15 : n + 8 \in 8 .. 23
    OBVIOUS
  <2> QED BY <1>3, <2>1, <2>2
<1> QED BY <1>1, <1>2, <1>4

\* What the buffer holds of a telegram the chunk starts with.
LEMMA WholeIs ==
  ASSUME NEW t \in Telegrams, Whole(t), NEW i \in Nat, i < Len(t)
  PROVE  data[i] = t[i + 1]
<1>1. i + 1 \in 1 .. Len(t) /\ (i + 1) - 1 = i
  BY TelegramIs
<1> QED BY <1>1 DEF Whole

\* A telegram in the part of the chunk that is looked at is in the chunk.
LEMMA WholeFits ==
  ASSUME TypeOK, NEW t \in Telegrams, Whole(t)
  PROVE  rxBytes \in Nat /\ Len(t) <= rxBytes
<1>1. rxBytes \in Nat /\ Len(t) \in Nat /\ Len(t) <= rxLength
  BY Sizes, TelegramIs DEF TypeOK, Whole
<1>2. rxLength \in Nat /\ rxLength <= rxBytes
  BY <1>1, Cut DEF rxLength
<1> QED BY <1>1, <1>2

LEMMA WholeKept ==
  ASSUME NEW t \in Telegrams, UNCHANGED << data, rxBytes >>
  PROVE  Whole(t)' <=> Whole(t)
BY DEF Whole, rxLength

-----------------------------------------------------------------------------
\* One more round adds one more octet of the telegram.
LEMMA SummedRound ==
  ASSUME LoopInv, Summed, DetectEOP, NEW t \in Telegrams, Whole(t)
  PROVE  /\ index \in 0 .. Len(t) - 2
         /\ rxLength >= index + 1
         /\ fcs' = Sum[t][index + 1]
         /\ data[index + 1] = t[index + 2]
<1>1. pc = "detect"
  BY DEF DetectEOP
<1>2. index \in Nat /\ rxBytes \in Nat /\ Len(t) \in 8 .. 23
  BY Sizes, OctetIs, TelegramIs DEF LoopInv, TypeOK
<1>3. index \in 0 .. Len(t) - 2
  BY <1>1, <1>2 DEF Summed
<1>4. rxLength >= index + 1
  <2>1. rxLength \in Nat /\ Len(t) <= rxLength
    BY <1>2, Cut DEF Whole, rxLength
  <2> QED BY <1>2, <1>3, <2>1
<1>5. data[index] = t[index + 1] /\ data[index + 1] = t[index + 2]
  <2>1. /\ index \in Nat /\ index < Len(t)
        /\ index + 1 \in Nat /\ index + 1 < Len(t) /\ (index + 1) + 1 = index + 2
    BY <1>2, <1>3
  <2>2. data[index] = t[index + 1] /\ data[index + 1] = t[(index + 1) + 1]
    BY <2>1, WholeIs
  <2> QED BY <2>1, <2>2
<1>6. fcs' = BitXor(fcs, t[index + 1])
  BY <1>5, Round
<1>7. ASSUME index = 0 PROVE fcs' = Sum[t][index + 1]
  <2>1. fcs = 255
    BY <1>1, <1>7 DEF LoopInv, Unmatched
  <2>2. fcs' = BitXor(255, t[1])
    BY <1>6, <1>7, <2>1
  <2>3. index + 1 = 1
    BY <1>7
  <2> QED BY <2>2, <2>3, TelegramIs
<1>8. ASSUME index > 0 PROVE fcs' = Sum[t][index + 1]
  <2>1. fcs = Sum[t][index]
    BY <1>1, <1>8 DEF Summed
  <2>2. index \in 1 .. Len(t) - 2
    BY <1>2, <1>3, <1>8
  <2>3. Sum[t][index + 1] = BitXor(Sum[t][index], t[index + 1])
    BY <2>2, TelegramIs
  <2> QED BY <1>6, <2>1, <2>3
<1>9. index = 0 \/ index > 0
  BY <1>2
<1>10. fcs' = Sum[t][index + 1]
  BY <1>7, <1>8, <1>9
<1> QED BY <1>3, <1>4, <1>5, <1>10

LEMMA TelegramDetectEOP ==
  ASSUME LoopInv, TelegramInv, DetectEOP
  PROVE  TelegramInv'
<1> USE DEF TelegramInv
<1>1. UNCHANGED << data, rxBytes >> /\ pc = "detect"
  BY DEF DetectEOP
<1>2. NotDropped'
  BY <1>1 DEF DetectEOP, NotDropped
<1>3. ASSUME NEW t \in Telegrams, Whole(t)', pc' = "detect"
      PROVE  index' <= Len(t) - 2 /\ (index' > 0 => fcs' = Sum[t][index'])
  <2>1. Whole(t)
    BY <1>1, <1>3, WholeKept
  <2>2. Len(t) \in Nat
    BY TelegramIs
  <2>3. ~(rxLength >= index + 1 /\ data[index + 1] = fcs') /\ index' = index + 1
    BY <1>1, <1>3 DEF DetectEOP
  <2>4. index # Len(t) - 2
    <3>1. ASSUME index = Len(t) - 2 PROVE FALSE
      <4>1. index + 1 = Len(t) - 1 /\ index + 2 = Len(t)
        BY <2>2, <3>1
      <4>2. fcs' = t[Len(t)] /\ data[index + 1] = t[Len(t)]
        BY <2>1, <4>1, SummedRound, TelegramIs
      <4> QED BY <2>1, <2>3, <4>2, SummedRound
    <3> QED BY <3>1
  <2> QED BY <2>1, <2>2, <2>3, <2>4, SummedRound
<1>4. ASSUME NEW t \in Telegrams, Whole(t)', Plain(t), pc' \in Found
      PROVE  SduLength' = Len(t) - 1
  <2>1. Whole(t)
    BY <1>1, <1>4, WholeKept
  <2>2. Len(t) \in Nat
    BY TelegramIs
  <2>3. data[index + 1] = fcs' /\ SduLength' = index + 1
    BY <1>1, <1>4 DEF DetectEOP, Found
  <2>4. /\ Sum[t][index + 1] = t[index + 2]
        /\ index \in 0 .. Len(t) - 2
    BY <2>1, <2>3, SummedRound
  <2>5. ~ index + 1 \in 1 .. Len(t) - 2
    <3>1. (index + 1) + 1 = index + 2
      BY <2>2, <2>4
    <3> QED BY <1>4, <2>4, <3>1 DEF Plain
  <2> QED BY <2>2, <2>3, <2>4, <2>5
<1>5. Summed'
  BY <1>3 DEF Summed
<1>6. PlainMatched'
  BY <1>4 DEF PlainMatched, Plain
<1> QED BY <1>2, <1>5, <1>6

\* The loop does not come to its end.
LEMMA TelegramDetectNothing ==
  ASSUME LoopInv, TelegramInv, DetectNothing
  PROVE  TelegramInv'
<1> USE DEF TelegramInv
<1>1. ASSUME NEW t \in Telegrams, Whole(t)' PROVE FALSE
  <2>1. Whole(t) /\ pc = "detect" /\ index >= rxLength
    BY <1>1, WholeKept DEF DetectNothing
  <2>2. index \in Nat /\ rxBytes \in Nat /\ Len(t) \in 8 .. 23
    BY Sizes, OctetIs, TelegramIs DEF LoopInv, TypeOK
  <2>3. index <= Len(t) - 2
    BY <2>1 DEF Summed
  <2>4. rxLength \in Nat /\ Len(t) <= rxLength
    BY <2>1, <2>2, Cut DEF Whole, rxLength
  <2> QED BY <2>1, <2>2, <2>3, <2>4
<1> QED BY <1>1 DEF Summed, NotDropped, PlainMatched

LEMMA TelegramRead ==
  ASSUME LoopInv, NEW n \in 1 .. MaxChunk, UartRead(n)
  PROVE  TelegramInv'
<1>1. index' = 0 /\ pc' \in { "read", "detect" }
  BY DEF UartRead
<1>2. \A t \in Telegrams : 0 <= Len(t) - 2
  BY TelegramIs
<1> QED BY <1>1, <1>2 DEF TelegramInv, Summed, NotDropped, PlainMatched, Found

LEMMA TelegramRest ==
  ASSUME LoopInv, TelegramInv, UNCHANGED << data, rxBytes, loop >>,
         pc' = pc \/ pc' = "read" \/ (pc = "indicate" /\ pc' = "confirm")
  PROVE  TelegramInv'
<1> USE DEF TelegramInv, loop
<1>1. ASSUME NEW t \in Telegrams, Whole(t)' PROVE Whole(t)
  BY <1>1, WholeKept
<1>2. Summed'
  BY <1>1 DEF Summed
<1>3. NotDropped'
  BY <1>1 DEF NotDropped
<1>4. PlainMatched'
  BY <1>1 DEF PlainMatched, Plain, Found
<1> QED BY <1>2, <1>3, <1>4

LEMMA TelegramStep == LoopInv /\ TelegramInv /\ [Next]_vars => TelegramInv'
<1> SUFFICES ASSUME LoopInv, TelegramInv, [Next]_vars PROVE TelegramInv'
  OBVIOUS
<1>1. ASSUME NEW n \in 1 .. MaxChunk, UartRead(n) PROVE TelegramInv'
  BY <1>1, TelegramRead
<1>2. CASE DetectEOP
  BY <1>2, TelegramDetectEOP
<1>3. CASE DetectNothing
  BY <1>3, TelegramDetectNothing
<1>4. ASSUME \/ \E item \in Telegrams \cup Others : Arrive(item)
             \/ Connection \/ UNCHANGED vars
      PROVE  TelegramInv'
  <2>1. UNCHANGED << data, rxBytes, loop, pc >>
    BY <1>4 DEF Arrive, Connection, vars
  <2> QED BY <2>1, TelegramRest
<1>5. ASSUME Warn \/ Indicate \/ NotIndicated \/ Poll \/ L_Data_Ind_ACK
             \/ NotConfirmed
      PROVE  TelegramInv'
  <2>1. /\ UNCHANGED << data, rxBytes, loop >>
        /\ pc' = "read" \/ (pc = "indicate" /\ pc' = "confirm")
    BY <1>5 DEF Warn, Indicate, NotIndicated, Poll, L_Data_Ind_ACK, NotConfirmed
  <2> QED BY <2>1, TelegramRest
<1> QED BY <1>1, <1>2, <1>3, <1>4, <1>5 DEF Next, tpuart_rx_task

\* TelegramInv is an invariant.
THEOREM TelegramAlways == Spec => []TelegramInv
<1>1. Init => TelegramInv
  BY DEF Init, TelegramInv, Summed, NotDropped, PlainMatched, Found
<1> QED BY <1>1, TelegramStep, LoopAlways, PTL DEF Spec

-----------------------------------------------------------------------------
\* The cEMI frame made of a chunk that starts with t.
LEMMA IndicationConveys ==
  ASSUME TypeOK, NEW t \in Telegrams, Whole(t)
  PROVE  Conveys(Indication, t)
<1> DEFINE n == LG(t[6])  H == Header(n)  P == Tpdu(n + 1)
<1>1. n \in 0 .. 15 /\ n \in Octet /\ AT_HC(t[6]) + n = t[6] /\ Len(t) = n + 8
  BY TelegramIs, Halves
<1> HIDE DEF n
<1>2. /\ data[0] = t[1] /\ data[1] = t[2] /\ data[2] = t[3]
      /\ data[3] = t[4] /\ data[4] = t[5] /\ data[5] = t[6]
  <2>1. \A i \in 0 .. 5 : data[i] = t[i + 1]
    <3>1. \A i \in 0 .. 5 : i \in Nat /\ i < Len(t)
      BY <1>1
    <3> QED BY <3>1, WholeIs
  <2> QED BY <2>1
<1>3. H \in Seq(Octet) /\ Len(H) = 9
  BY <1>1, HeaderType
<1>4. P \in Seq(Octet) /\ Len(P) = n + 1
  <2>1. n + 1 \in 0 .. 16
    BY <1>1
  <2> QED BY <2>1, TpduType
<1>5. \A j \in 1 .. n + 1 : P[j] = t[j + 6]
  <2>1. ASSUME NEW j \in 1 .. n + 1 PROVE P[j] = t[j + 6]
    <3>1. 5 + j \in Nat /\ 5 + j < Len(t) /\ (5 + j) + 1 = j + 6
      BY <1>1
    <3>2. data[5 + j] = t[(5 + j) + 1]
      BY <3>1, WholeIs
    <3> QED BY <3>1, <3>2 DEF Tpdu
  <2> QED BY <2>1
<1>6. /\ H[1] = L_DATA_IND /\ H[3] = t[1] /\ H[5] = t[2] /\ H[6] = t[3]
      /\ H[4] = AT_HC(t[6]) /\ H[9] = n
      /\ H[7] = Destination(3) /\ H[8] = Destination(4)
  BY <1>2 DEF Header
<1>7. << Destination(3), Destination(4) >> =
        IF << t[4], t[5] >> = << t[2], t[3] >>
        THEN << 0, 0 >> ELSE << t[4], t[5] >>
  BY <1>2 DEF Destination
<1>8. Indication = H \o P
  BY <1>2 DEF Indication, n
<1> HIDE DEF H, P
<1>9. /\ Len(H \o P) = Len(H) + Len(P)
      /\ \A i \in 1 .. Len(H) + Len(P) :
           (H \o P)[i] = IF i <= Len(H) THEN H[i] ELSE P[i - Len(H)]
  BY <1>3, <1>4, ConcatProperties
<1>10. Len(H) + Len(P) = n + 10
  BY <1>1, <1>3, <1>4
<1>11. \A i \in 1 .. 9 : (H \o P)[i] = H[i]
  <2>1. \A i \in 1 .. 9 : i \in 1 .. Len(H) + Len(P) /\ i <= Len(H)
    BY <1>1, <1>3, <1>10
  <2> QED BY <1>9, <2>1
<1>12. \A j \in 1 .. n + 1 : (H \o P)[j + 9] = P[j]
  <2>1. \A j \in 1 .. n + 1 :
          j + 9 \in 1 .. Len(H) + Len(P) /\ ~(j + 9 <= Len(H))
          /\ (j + 9) - Len(H) = j
    BY <1>1, <1>3, <1>10
  <2> QED BY <1>9, <2>1
<1>13. \A k \in 7 .. Len(t) - 1 : (H \o P)[k + 3] = t[k]
  <2>1. ASSUME NEW k \in 7 .. Len(t) - 1 PROVE (H \o P)[k + 3] = t[k]
    <3>1. k - 6 \in 1 .. n + 1 /\ (k - 6) + 9 = k + 3 /\ (k - 6) + 6 = k
      BY <1>1
    <3>2. (H \o P)[(k - 6) + 9] = P[k - 6] /\ P[k - 6] = t[(k - 6) + 6]
      BY <1>5, <1>12, <3>1
    <3> QED BY <3>1, <3>2
  <2> QED BY <2>1
<1>14. Len(H \o P) = Len(t) + 2
  BY <1>1, <1>9, <1>10
<1>15. \A i \in { 1, 3, 4, 5, 6, 7, 8, 9 } : (H \o P)[i] = H[i]
  <2>1. \A i \in { 1, 3, 4, 5, 6, 7, 8, 9 } : i \in 1 .. 9
    OBVIOUS
  <2> QED BY <1>11, <2>1
<1> DEFINE c == H \o P
<1>16. /\ c[1] = L_DATA_IND /\ c[3] = t[1] /\ c[5] = t[2] /\ c[6] = t[3]
       /\ c[4] = AT_HC(t[6]) /\ c[9] = n
       /\ c[7] = Destination(3) /\ c[8] = Destination(4)
  BY <1>6, <1>15
<1>17. Len(c) = Len(t) + 2 /\ \A k \in 7 .. Len(t) - 1 : c[k + 3] = t[k]
  BY <1>13, <1>14
<1> HIDE DEF c
<1>18. Conveys(c, t)
  BY <1>1, <1>7, <1>16, <1>17 DEF Conveys
<1> QED BY <1>8, <1>18 DEF c

\* Appending a frame to the output changes it.
LEMMA Appended ==
  ASSUME TypeOK, NEW c
  PROVE  Append(tunnelled, c) # tunnelled
<1>1. tunnelled \in Seq(Seq(Octet) \cup { c }) /\ Len(tunnelled) \in Nat
  BY DEF TypeOK
<1>2. Len(Append(tunnelled, c)) = Len(tunnelled) + 1
  BY <1>1
<1> QED BY <1>1, <1>2

-----------------------------------------------------------------------------
\* A telegram the chunk starts with is never dropped, and all of it is
\* tunnelled, wherever DetectEOP takes its end to be.
THEOREM WholeTunnelled == Spec => WholeTelegramIsTunnelled
<1>1. ASSUME LoopInv, TelegramInv, TelegramInv', [Next]_vars,
             NEW t \in Telegrams, Whole(t)
      PROVE  /\ pc' # "invalid"
             /\ pc = "indicate" /\ pc' # pc /\ connected =>
                  Len(tunnelled') = 1 /\ Conveys(tunnelled'[1], t)
  <2>1. pc' # "invalid"
    <3>1. UNCHANGED << data, rxBytes >> \/ pc' # "invalid"
      BY <1>1 DEF Next, tpuart_rx_task, Arrive, Connection, UartRead, DetectEOP,
                  DetectNothing, Warn, Indicate, NotIndicated, Poll,
                  L_Data_Ind_ACK, NotConfirmed, vars
    <3> QED BY <1>1, <3>1, WholeKept DEF TelegramInv, NotDropped
  <2>2. ASSUME pc = "indicate", pc' # pc, connected
        PROVE  Len(tunnelled') = 1 /\ Conveys(tunnelled'[1], t)
    <3>1. Indicate \/ Poll
      BY <1>1, <2>2
      DEF Next, tpuart_rx_task, Arrive, Connection, UartRead, DetectEOP,
          DetectNothing, Warn, NotIndicated, L_Data_Ind_ACK, NotConfirmed, vars
    <3>2. data[0] # L_POLLDATA_REQ
      <4>1. 0 \in Nat /\ 0 < Len(t)
        BY TelegramIs
      <4> QED BY <1>1, <4>1, WholeIs, TelegramIs
    <3>3. Indicate
      BY <3>1, <3>2 DEF Poll
    <3>4. tunnelled' = << Indication >>
      BY <1>1, <2>2, <3>3 DEF Indicate, LoopInv, Output
    <3>5. Conveys(Indication, t)
      BY <1>1, IndicationConveys DEF LoopInv
    <3> QED BY <3>4, <3>5
  <2> QED BY <2>1, <2>2
<1>2. LoopInv /\ TelegramInv /\ TelegramInv' /\ [Next]_vars =>
        [\A t \in Telegrams :
           Whole(t) =>
             /\ pc' # "invalid"
             /\ pc = "indicate" /\ pc' # pc /\ connected =>
                  Len(tunnelled') = 1 /\ Conveys(tunnelled'[1], t)]_vars
  BY <1>1
<1> QED
  BY <1>2, LoopAlways, TelegramAlways, PTL DEF Spec, WholeTelegramIsTunnelled

\* The steps after which a chunk is done with.
LEMMA Confirming ==
  ASSUME [Next]_vars, pc = "confirm"
  PROVE  \/ L_Data_Ind_ACK \/ NotConfirmed
         \/ pc' = pc /\ tunnelled' = tunnelled
BY DEF Next, tpuart_rx_task, Arrive, Connection, UartRead, DetectEOP,
       DetectNothing, Warn, Indicate, NotIndicated, Poll, vars

\* An acknowledge answers a confirmation in the chunk: the octet behind the
\* chunk, which is looked at too, is none.
THEOREM ConfirmationReceived == Spec => ConfirmationWasReceived
<1>1. ASSUME LoopInv, [Next]_vars, pc = "confirm", tunnelled' # tunnelled
      PROVE  \E i \in 0 .. rxBytes - 1 :
               i = SduLength + 1 /\ data[i] = DATACONFIRMSUCCESS
  <2>1. L_Data_Ind_ACK
    BY <1>1, Confirming DEF NotConfirmed
  <2>2. SduLength < rxBytes /\ data[SduLength + 1] = 139
    BY <2>1 DEF L_Data_Ind_ACK, Confirmed, DATACONFIRMSUCCESS
  <2>3. SduLength \in Nat /\ rxBytes \in Nat
    BY <1>1, Sizes, OctetIs DEF LoopInv, TypeOK
  <2>4. data[rxBytes] # 139
    BY <1>1 DEF LoopInv, Terminated
  <2>5. SduLength + 1 \in 0 .. rxBytes - 1
    BY <2>2, <2>3, <2>4
  <2> QED BY <2>2, <2>5 DEF DATACONFIRMSUCCESS
<1>2. LoopInv /\ [Next]_vars =>
        [pc = "confirm" /\ tunnelled' # tunnelled =>
           \E i \in 0 .. rxBytes - 1 :
             i = SduLength + 1 /\ data[i] = DATACONFIRMSUCCESS]_vars
  BY <1>1
<1> QED BY <1>2, LoopAlways, PTL DEF Spec, ConfirmationWasReceived

\* A telegram no octet of which equals the checksum of those before it is
\* acknowledged if and only if it is confirmed.
THEOREM PlainAcked == Spec => PlainTelegramAckedIffConfirmed
<1>1. ASSUME LoopInv, TelegramInv, [Next]_vars,
             NEW t \in Telegrams, Whole(t), Plain(t), pc = "confirm", pc' # pc
      PROVE  tunnelled' # tunnelled <=>
               Len(t) < rxBytes /\ data[Len(t)] = DATACONFIRMSUCCESS
  <2>1. SduLength = Len(t) - 1
    BY <1>1 DEF TelegramInv, PlainMatched, Found
  <2>2. Len(t) \in Nat /\ rxBytes \in Nat /\ Len(t) <= rxBytes
    BY <1>1, WholeFits, TelegramIs DEF LoopInv
  <2>3. SduLength < rxBytes /\ SduLength + 1 = Len(t)
    BY <2>1, <2>2
  <2>4. data[rxBytes] # DATACONFIRMSUCCESS
    BY <1>1 DEF LoopInv, Terminated, DATACONFIRMSUCCESS
  <2>5. Confirmed <=> Len(t) < rxBytes /\ data[Len(t)] = DATACONFIRMSUCCESS
    <3>1. Confirmed <=> data[Len(t)] = DATACONFIRMSUCCESS
      BY <2>3 DEF Confirmed
    <3>2. data[Len(t)] = DATACONFIRMSUCCESS => Len(t) < rxBytes
      BY <2>2, <2>4
    <3> QED BY <3>1, <3>2
  <2>6. CASE L_Data_Ind_ACK
    BY <1>1, <2>5, <2>6, Appended DEF L_Data_Ind_ACK, LoopInv
  <2>7. CASE NotConfirmed
    BY <2>5, <2>7 DEF NotConfirmed
  <2> QED BY <1>1, <2>6, <2>7, Confirming
<1>2. LoopInv /\ TelegramInv /\ [Next]_vars =>
        [\A t \in Telegrams :
           Whole(t) /\ Plain(t) /\ pc = "confirm" /\ pc' # pc =>
             (tunnelled' # tunnelled <=>
                Len(t) < rxBytes /\ data[Len(t)] = DATACONFIRMSUCCESS)]_vars
  BY <1>1
<1> QED
  BY <1>2, LoopAlways, TelegramAlways, PTL
  DEF Spec, PlainTelegramAckedIffConfirmed

\* What Knx.c:151-155 says of the confirmation is right as long as no telegram has
\* an octet that equals the checksum of those before it: each confirmation in
\* the chunk of its telegram is then passed on.
THEOREM PlainConfirmed ==
  ASSUME \A t \in Telegrams : Plain(t)
  PROVE  Spec => ConfirmedIsAcknowledged
<1>1. [\A t \in Telegrams :
         Whole(t) /\ Plain(t) /\ pc = "confirm" /\ pc' # pc =>
           (tunnelled' # tunnelled <=>
              Len(t) < rxBytes /\ data[Len(t)] = DATACONFIRMSUCCESS)]_vars
      => [\A t \in Telegrams :
            /\ Whole(t) /\ pc = "confirm" /\ pc' # pc
            /\ Len(t) < rxBytes /\ data[Len(t)] = DATACONFIRMSUCCESS
            => tunnelled' # tunnelled]_vars
  OBVIOUS
<1> QED
  BY <1>1, PlainAcked, PTL DEF PlainTelegramAckedIffConfirmed, ConfirmedIsAcknowledged

=============================================================================
