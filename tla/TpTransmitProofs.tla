--------------------------- MODULE TpTransmitProofs ---------------------------
(***************************************************************************)
(* Theorems about TpTransmit, for any number of tasks and any telegrams.   *)
(*                                                                         *)
(* Indexed says how far the statement a task is at has brought its index   *)
(* and its services.  SourceInv adds that octets 1 and 2 of a buffer are   *)
(* the gateway's as soon as one task has filled it, whoever writes it      *)
(* later, but for a checksum that a large length field moves there.        *)
(* IntactInv says which octets of each buffer are an undisturbed task's    *)
(* own if its telegram is complete, statement by statement.                *)
(***************************************************************************)
EXTENDS TpTransmit, TLAPS

\* Where the frame has its length, and where its services are written.
Counted == { "copy", "service", "done" }
Writing == { "service", "done" }

\* The length fields that may be found in IP_RxBuffer, where they bring the
\* index, and where the checksum brings it then.
LengthFields == { 0 } \cup { Length[t] : t \in Telegrams }
Sums         == { (TPDU + l + 1) % IndexRange : l \in LengthFields }
FrameLengths == { (n + 1) % IndexRange : n \in Sums }

\* The index n of a task at label l.
IndexAt(l, n) ==
  /\ l \notin Counted \cup { "fcs" } => n = 0
  /\ l = "fcs" => n \in Sums
  /\ l \in Counted => n \in FrameLengths

\* The services s that a task at label l has written of n.
WrittenAt(l, n, s) ==
  /\ \E S : s \in Seq(S)
  /\ l \notin Writing => s = << >>
  /\ l = "service" => Len(s) < n
  /\ l = "done" => Len(s) = n

Indexed ==
  /\ DOMAIN written = Handlers
  /\ \A h \in Handlers : /\ IndexAt(pc[h], index[h])
                         /\ WrittenAt(pc[h], index[h], written[h])

\* A task that is under way has a telegram.
Given == \A h \in Handlers : pc[h] # "idle" => telegram[h] \in Telegrams

IndexInv == TypeOK /\ Indexed /\ Given

-----------------------------------------------------------------------------
\* A step of one task changes that task's entries only, so Indexed need be
\* shown for the entries of one task.
LEMMA OneHandler ==
  ASSUME Indexed, NEW h \in Handlers, DOMAIN written' = Handlers,
         \A g \in Handlers \ {h} : /\ pc'[g] = pc[g] /\ index'[g] = index[g]
                                   /\ written'[g] = written[g],
         IndexAt(pc'[h], index'[h]), WrittenAt(pc'[h], index'[h], written'[h])
  PROVE  Indexed'
<1>1. ASSUME NEW g \in Handlers
      PROVE  IndexAt(pc'[g], index'[g])
             /\ WrittenAt(pc'[g], index'[g], written'[g])
  <2>1. CASE g = h
    BY <2>1
  <2>2. CASE g # h
    BY <2>2 DEF Indexed
  <2> QED BY <2>1, <2>2
<1>2. Indexed' = (/\ DOMAIN written' = Handlers
                  /\ \A g \in Handlers :
                       /\ IndexAt(pc'[g], index'[g])
                       /\ WrittenAt(pc'[g], index'[g], written'[g]))
  BY DEF Indexed, IndexAt, WrittenAt
<1> QED BY <1>1, <1>2

\* Appending to a sequence.
LEMMA Appended ==
  ASSUME NEW s, NEW e, \E S : s \in Seq(S)
  PROVE  /\ \E S : Append(s, e) \in Seq(S)
         /\ Len(s) \in Nat /\ Len(Append(s, e)) = Len(s) + 1
         /\ \A k \in 1 .. Len(s) : Append(s, e)[k] = s[k]
         /\ Append(s, e)[Len(s) + 1] = e
<1>1. PICK S : s \in Seq(S)
  OBVIOUS
<1>2. s \in Seq(S \cup {e}) /\ e \in S \cup {e}
  BY <1>1
<1>3. Append(s, e) \in Seq(S \cup {e})
  BY <1>2
<1> QED BY <1>2, <1>3

\* The empty sequence of services is one.
LEMMA NothingWritten == \E S : << >> \in Seq(S)
<1>1. << >> \in Seq({})
  OBVIOUS
<1> QED BY <1>1

\* The length field in IP_RxBuffer.
LEMMA LengthFieldType ==
  ASSUME TypeOK
  PROVE  LengthField \in LengthFields
<1>1. IP_RxBuffer[LENGTH] \in Telegrams \cup {Nothing}
  <2>1. LENGTH \in 0 .. BufferSize - 1
    BY TpTransmitAssumption DEF LENGTH, CEMI_TPDU
  <2> QED BY <2>1 DEF TypeOK
<1> QED BY <1>1 DEF LengthField, LengthFields

\* The index stays an octet.
LEMMA SumsType ==
  /\ LengthFields \subseteq 0 .. IndexRange - 1
  /\ Sums \subseteq 0 .. IndexRange - 1
  /\ FrameLengths \subseteq 0 .. IndexRange - 1 /\ FrameLengths \subseteq Nat
<1>1. \A n \in Nat : n % IndexRange \in 0 .. IndexRange - 1
  BY TpTransmitAssumption DEF TPDU
<1>2. LengthFields \subseteq 0 .. IndexRange - 1
  BY TpTransmitAssumption DEF LengthFields, TPDU
<1>3. Sums \subseteq 0 .. IndexRange - 1
  <2> SUFFICES ASSUME NEW l \in LengthFields
               PROVE  (TPDU + l + 1) % IndexRange \in 0 .. IndexRange - 1
    BY DEF Sums
  <2>1. TPDU + l + 1 \in Nat
    BY <1>2, TpTransmitAssumption DEF TPDU
  <2> QED BY <1>1, <2>1
<1>4. FrameLengths \subseteq 0 .. IndexRange - 1
  <2> SUFFICES ASSUME NEW n \in Sums
               PROVE  (n + 1) % IndexRange \in 0 .. IndexRange - 1
    BY DEF FrameLengths
  <2>1. n + 1 \in Nat
    BY <1>3, TpTransmitAssumption
  <2> QED BY <1>1, <2>1
<1>5. 0 .. IndexRange - 1 \subseteq Nat
  BY TpTransmitAssumption
<1> QED BY <1>2, <1>3, <1>4, <1>5

-----------------------------------------------------------------------------
\* The invariant holds at the start.
LEMMA IndexInit == Init => IndexInv
<1> SUFFICES ASSUME Init PROVE IndexInv
  OBVIOUS
<1>1. TypeOK
  BY TpTransmitAssumption DEF Init, TypeOK, Position, TPDU, Label
<1>2. Indexed
  BY NothingWritten
  DEF Init, Indexed, IndexAt, WrittenAt, Counted, Writing
<1>3. Given
  BY DEF Init, Given
<1> QED BY <1>1, <1>2, <1>3 DEF IndexInv

\* The statements that write the frame's octets up to its TPDU.
LEMMA IndexHead ==
  ASSUME IndexInv, NEW h \in Handlers,
         SetControlAndSource(h) \/ SetDestination(h) \/ SetLength(h)
         \/ CopyTpdu(h)
  PROVE  IndexInv'
<1> USE DEF IndexInv
<1>1. PICK from, to \in Label \ (Counted \cup { "idle", "fcs" }) :
        Step(h, from, to)
  BY DEF Assign,
     SetControlAndSource, SetDestination, SetLength, CopyTpdu, Label,
     Counted
<1>2. DOMAIN L_TxBuffer' = Position
  BY DEF Assign, SetControlAndSource, SetDestination, SetLength, CopyTpdu, Put
<1>3. /\ UNCHANGED << telegram, IP_RxBuffer, TpUart2_TxBuffer, index, written >>
      /\ Touch(h)
  BY DEF Assign, SetControlAndSource, SetDestination, SetLength, CopyTpdu
<1>4. TypeOK'
  BY <1>1, <1>2, <1>3 DEF TypeOK, Step, Touch
<1>5. /\ pc'[h] = to /\ index'[h] = 0 /\ written'[h] = << >>
      /\ \A g \in Handlers \ {h} : pc'[g] = pc[g]
  BY <1>1, <1>3
  DEF TypeOK, Step, Indexed, IndexAt, WrittenAt, Counted, Writing
<1>6. Indexed'
  <2>1. IndexAt(pc'[h], index'[h]) /\ WrittenAt(pc'[h], index'[h], written'[h])
    BY <1>1, <1>5, NothingWritten DEF IndexAt, WrittenAt, Counted, Writing
  <2> QED BY <1>3, <1>5, <2>1, OneHandler DEF Indexed
<1>7. Given'
  BY <1>1, <1>3, <1>5 DEF Given, Step, TypeOK
<1> QED BY <1>4, <1>6, <1>7

\* A telegram comes in.
LEMMA IndexTunnel ==
  ASSUME IndexInv, NEW h \in Handlers, NEW t \in Telegrams, Tunnel(h, t)
  PROVE  IndexInv'
<1> USE DEF IndexInv
<1>2. TypeOK'
  <2>1. IP_RxBuffer' \in [0 .. BufferSize - 1 -> Telegrams \cup {Nothing}]
    BY DEF Tunnel, TypeOK
  <2> QED BY <2>1 DEF Tunnel, TypeOK, Step, Touch, Label
<1>3. /\ pc'[h] = "control" /\ index'[h] = 0 /\ written'[h] = << >>
      /\ \A g \in Handlers \ {h} : pc'[g] = pc[g]
  BY DEF Tunnel, Step, TypeOK, Indexed, IndexAt, WrittenAt, Counted, Writing
<1>4. Indexed'
  <2>1. IndexAt(pc'[h], index'[h]) /\ WrittenAt(pc'[h], index'[h], written'[h])
    BY <1>3, NothingWritten DEF IndexAt, WrittenAt, Counted, Writing
  <2> QED BY <1>3, <2>1, OneHandler DEF Indexed, Tunnel
<1>5. Given'
  BY <1>3 DEF Given, Tunnel, TypeOK
<1> QED BY <1>2, <1>4, <1>5

\* The index takes the length of the TPDU in.
LEMMA IndexAdvance ==
  ASSUME IndexInv, NEW h \in Handlers, AdvanceIndex(h)
  PROVE  IndexInv'
<1> USE DEF IndexInv
<1> DEFINE n == (TPDU + LengthField + 1) % IndexRange
<1>1. n \in Sums /\ n \in 0 .. IndexRange - 1
  BY LengthFieldType, SumsType DEF Sums
<1>2. index[h] = 0 /\ written[h] = << >>
  BY DEF AdvanceIndex, Step, Indexed, IndexAt, WrittenAt, Counted, Writing
<1>3. index[h] + TPDU + LengthField + 1 = TPDU + LengthField + 1
  BY <1>2, LengthFieldType, SumsType, TpTransmitAssumption DEF TPDU
<1>4. index' = [index EXCEPT ![h] = n]
  BY <1>3 DEF AdvanceIndex
<1> HIDE DEF n
<1>5. TypeOK'
  <2>1. index' \in [Handlers -> 0 .. IndexRange - 1]
    BY <1>1, <1>4 DEF TypeOK
  <2>2. pc' \in [Handlers -> Label]
    BY DEF AdvanceIndex, TypeOK, Step, Label
  <2> QED BY <2>1, <2>2 DEF AdvanceIndex, TypeOK, buffers
<1>6. /\ pc'[h] = "fcs" /\ index'[h] = n /\ written'[h] = << >>
      /\ \A g \in Handlers \ {h} : pc'[g] = pc[g] /\ index'[g] = index[g]
  BY <1>2, <1>4 DEF AdvanceIndex, Step, TypeOK
<1>7. Indexed'
  <2>1. IndexAt(pc'[h], index'[h])
    BY <1>1, <1>6 DEF IndexAt, Counted
  <2>2. WrittenAt(pc'[h], index'[h], written'[h])
    BY <1>6, NothingWritten DEF WrittenAt, Writing
  <2> QED BY <1>6, <2>1, <2>2, OneHandler DEF Indexed, AdvanceIndex
<1>8. Given'
  BY <1>6 DEF Given, AdvanceIndex, Step, TypeOK, buffers
<1> QED BY <1>5, <1>7, <1>8

\* The checksum is counted.
LEMMA IndexFCS ==
  ASSUME IndexInv, NEW h \in Handlers, SetFCS(h)
  PROVE  IndexInv'
<1> USE DEF IndexInv
<1> DEFINE n == (index[h] + 1) % IndexRange
<1>1. index[h] \in Sums /\ written[h] = << >>
  BY DEF Assign, SetFCS, Step, Indexed, IndexAt, WrittenAt, Counted, Writing
<1>2. n \in FrameLengths /\ n \in 0 .. IndexRange - 1
  BY <1>1, SumsType DEF FrameLengths
<1>3. index' = [index EXCEPT ![h] = n]
  BY DEF Assign, SetFCS
<1> HIDE DEF n
<1>4. TypeOK'
  <2>1. DOMAIN L_TxBuffer' = Position
    BY DEF Assign, SetFCS, Put
  <2>2. index' \in [Handlers -> 0 .. IndexRange - 1]
    BY <1>2, <1>3 DEF TypeOK
  <2>3. pc' \in [Handlers -> Label] /\ disturbed' \in [Handlers -> BOOLEAN]
    BY DEF Assign, SetFCS, TypeOK, Step, Touch, Label
  <2> QED BY <2>1, <2>2, <2>3 DEF Assign, SetFCS, TypeOK
<1>5. /\ pc'[h] = "copy" /\ index'[h] = n /\ written'[h] = << >>
      /\ \A g \in Handlers \ {h} : pc'[g] = pc[g] /\ index'[g] = index[g]
  BY <1>1, <1>3 DEF Assign, SetFCS, Step, TypeOK
<1>6. Indexed'
  <2>1. IndexAt(pc'[h], index'[h])
    BY <1>2, <1>5 DEF IndexAt, Counted
  <2>2. WrittenAt(pc'[h], index'[h], written'[h])
    BY <1>5, NothingWritten DEF WrittenAt, Writing
  <2> QED BY <1>5, <2>1, <2>2, OneHandler DEF Assign, Indexed, SetFCS
<1>7. Given'
  BY <1>5 DEF Assign, Given, SetFCS, Step, TypeOK
<1> QED BY <1>4, <1>6, <1>7

\* The frame is copied.
LEMMA IndexCopy ==
  ASSUME IndexInv, NEW h \in Handlers, CopyFrame(h)
  PROVE  IndexInv'
<1> USE DEF IndexInv
<1> DEFINE to == IF index[h] = 0 THEN "done" ELSE "service"
<1>1. /\ index[h] \in FrameLengths /\ written[h] = << >>
      /\ index[h] \in Nat /\ index'[h] = index[h]
  <2>1. pc[h] = "copy" /\ index' = index
    BY DEF CopyFrame, Step
  <2>2. index[h] \in FrameLengths /\ written[h] = << >>
    BY <2>1 DEF Indexed, IndexAt, WrittenAt, Counted, Writing
  <2> QED BY <2>1, <2>2, SumsType
<1>2. TypeOK'
  BY DEF CopyFrame, TypeOK, Step, Touch, Label
<1>3. /\ pc'[h] = to /\ written'[h] = << >>
      /\ \A g \in Handlers \ {h} : pc'[g] = pc[g]
  BY <1>1 DEF CopyFrame, Step, TypeOK
<1>4. Indexed'
  <2>1. Len(<< >>) = 0 /\ (to = "service" => 0 < index[h])
        /\ (to = "done" => index[h] = 0)
    BY <1>1
  <2>2. IndexAt(pc'[h], index'[h]) /\ WrittenAt(pc'[h], index'[h], written'[h])
    BY <1>1, <1>3, <2>1, NothingWritten DEF IndexAt, WrittenAt, Counted, Writing
  <2> QED BY <1>3, <2>2, OneHandler DEF Indexed, CopyFrame
<1>5. Given'
  BY <1>3 DEF Given, CopyFrame, Step, TypeOK
<1> QED BY <1>2, <1>4, <1>5

\* A service is written.
LEMMA IndexService ==
  ASSUME IndexInv, NEW h \in Handlers, WriteService(h)
  PROVE  IndexInv'
<1> USE DEF IndexInv
<1> DEFINE i == Len(written[h])
           s == Service(i, index[h])
           to == IF i = index[h] - 1 THEN "done" ELSE "service"
<1>1. /\ index[h] \in FrameLengths /\ index[h] \in Nat
      /\ i < index[h] /\ \E S : written[h] \in Seq(S)
  <2>1. /\ index[h] \in FrameLengths
        /\ i < index[h] /\ \E S : written[h] \in Seq(S)
    BY DEF WriteService, Step, Indexed, IndexAt, WrittenAt, Counted, Writing
  <2> QED BY <2>1, SumsType
<1>2. TypeOK'
  BY DEF WriteService, TypeOK, Step, Touch, Label, buffers
<1>3. /\ pc'[h] = to /\ written'[h] = Append(written[h], s)
      /\ \A g \in Handlers \ {h} : pc'[g] = pc[g] /\ written'[g] = written[g]
      /\ DOMAIN written' = Handlers
  BY DEF WriteService, Step, TypeOK, Indexed
<1>4. Indexed'
  <2>1. /\ \E S : Append(written[h], s) \in Seq(S)
        /\ Len(Append(written[h], s)) = i + 1 /\ i \in Nat
    BY <1>1, Appended
  <2>2. IndexAt(pc'[h], index'[h])
    BY <1>1, <1>3 DEF WriteService, IndexAt, Counted
  <2>3. WrittenAt(pc'[h], index'[h], written'[h])
    <3>1. to = "service" => i + 1 < index[h]
      BY <1>1, <2>1, TpTransmitAssumption DEF TPDU
    <3>2. to = "done" => i + 1 = index[h]
      BY <1>1, <2>1, TpTransmitAssumption DEF TPDU
    <3>3. index'[h] = index[h] /\ to \in Writing
      BY DEF WriteService, Writing
    <3> QED BY <1>3, <2>1, <3>1, <3>2, <3>3 DEF WrittenAt
  <2> QED BY <1>3, <2>2, <2>3, OneHandler DEF WriteService
<1>5. Given'
  BY <1>3 DEF Given, WriteService, Step, TypeOK, buffers
<1> QED BY <1>2, <1>4, <1>5

\* A task is done.
LEMMA IndexReturn ==
  ASSUME IndexInv, NEW h \in Handlers, Return(h)
  PROVE  IndexInv'
<1> USE DEF IndexInv
<1>1. TypeOK'
  BY TpTransmitAssumption DEF Return, TypeOK, Step, Label, buffers, TPDU
<1>2. /\ pc'[h] = "idle" /\ index'[h] = 0 /\ written'[h] = << >>
      /\ \A g \in Handlers \ {h} : /\ pc'[g] = pc[g] /\ index'[g] = index[g]
                                  /\ written'[g] = written[g]
      /\ DOMAIN written' = Handlers
  BY DEF Return, Step, TypeOK, Indexed
<1>3. IndexAt(pc'[h], index'[h]) /\ WrittenAt(pc'[h], index'[h], written'[h])
  BY <1>2, NothingWritten DEF IndexAt, WrittenAt, Counted, Writing
<1>4. Indexed'
  BY <1>2, <1>3, OneHandler
<1>5. Given'
  BY <1>2 DEF Given, Return, TypeOK, buffers
<1> QED BY <1>1, <1>4, <1>5

\* A step that leaves the tasks' own entries and the buffers alone.
LEMMA IndexStutter ==
  ASSUME IndexInv, U_PollingState \/ UNCHANGED vars
  PROVE  IndexInv'
<1>1. /\ UNCHANGED << pc, telegram, buffers, index, written >>
      /\ disturbed' \in [Handlers -> BOOLEAN]
  BY DEF U_PollingState, vars, IndexInv, TypeOK
<1> QED BY <1>1
        DEF IndexInv, TypeOK, Indexed, IndexAt, WrittenAt, Given, buffers

\* Any step keeps the invariant.
LEMMA IndexStep == IndexInv /\ [Next]_vars => IndexInv'
<1> SUFFICES ASSUME IndexInv, [Next]_vars PROVE IndexInv'
  OBVIOUS
<1>1. CASE U_PollingState \/ UNCHANGED vars
  BY <1>1, IndexStutter
<1>2. ASSUME NEW h \in Handlers, NEW t \in Telegrams, Tunnel(h, t)
      PROVE  IndexInv'
  BY <1>2, IndexTunnel
<1>3. ASSUME NEW h \in Handlers, HandlerStep(h) PROVE IndexInv'
  BY <1>3, IndexHead, IndexAdvance, IndexFCS, IndexCopy, IndexService,
     IndexReturn DEF HandlerStep
<1> QED BY <1>1, <1>2, <1>3 DEF Next

\* The tasks' entries and the buffers always have their types, and a task has
\* counted and written what belongs to the statement it is at.
THEOREM IndexAlways == Spec => []IndexInv
BY IndexInit, IndexStep, PTL DEF Spec

\* Every variable keeps its type: no length a task reads, and no index it
\* adds up, leaves the frame buffers.
THEOREM TypeCorrect == Spec => []TypeOK
<1>1. IndexInv => TypeOK
  BY DEF IndexInv
<1> QED BY IndexAlways, <1>1, PTL

\* Who changes a task's entries is that task.
LEMMA Actor ==
  ASSUME IndexInv, [Next]_vars, NEW h \in Handlers,
         ~ UNCHANGED << pc[h], written[h] >>
  PROVE  HandlerStep(h) \/ \E t \in Telegrams : Tunnel(h, t)
<1>1. ASSUME NEW g \in Handlers, g # h,
             HandlerStep(g) \/ \E t \in Telegrams : Tunnel(g, t)
      PROVE  UNCHANGED << pc[h], written[h] >>
  <2>1. pc'[h] = pc[h]
    BY <1>1 DEF Assign, IndexInv, TypeOK, HandlerStep, Step, Tunnel,
       SetControlAndSource, SetDestination, SetLength, CopyTpdu, AdvanceIndex,
       SetFCS, CopyFrame, WriteService, Return
  <2>2. written'[h] = written[h]
    BY <1>1 DEF Assign,
       IndexInv, Indexed, HandlerStep, Tunnel, SetControlAndSource,
       SetDestination, SetLength, CopyTpdu, AdvanceIndex, SetFCS, CopyFrame,
       WriteService, Return
  <2> QED BY <2>1, <2>2
<1>2. U_PollingState \/ UNCHANGED vars => UNCHANGED << pc[h], written[h] >>
  BY DEF U_PollingState, vars
<1> QED BY <1>1, <1>2 DEF Next

-----------------------------------------------------------------------------
\* The source address.

AfterControl == Label \ { "idle", "control" }

\* Octet o at position i of a frame is the gateway's, but for a checksum that
\* the length field of one of the telegrams ts puts there.
OwnBut(o, i, ts) ==
  o # Octet(Gateway, i) => \E t \in ts : ChecksumAt(t) = i

\* The length field h finds is its own telegram's.
Sure(h) == ~(disturbed[h] \/ CemiLength[telegram[h]] <= LENGTH)

SourceOf(h) ==
  /\ pc[h] \in AfterControl =>
       \A i \in { 1, 2 } : OwnBut(L_TxBuffer[i], i, LengthOwners(h))
  /\ pc[h] \in Writing =>
       \A i \in { 1, 2 } :
         i < index[h] => OwnBut(TpUart2_TxBuffer[i], i, LengthOwners(h))
  /\ \A k \in 2 .. 3 :
       k <= Len(written[h]) =>
         OwnBut(written[h][k].octet, k - 1, LengthOwners(h))
  /\ pc[h] # "idle" /\ Sure(h) => IP_RxBuffer[LENGTH] = telegram[h]
  /\ pc[h] = "fcs" /\ Sure(h) => index[h] = ChecksumAt(telegram[h])

SourceInv == \A h \in Handlers : SourceOf(h)

\* Without a telegram in IP_RxBuffer the checksum is behind the source address.
LEMMA SumAtSource ==
  ASSUME NEW i \in { 1, 2 }, i \in Sums
  PROVE  \E t \in Telegrams : ChecksumAt(t) = i
<1>1. PICK l \in LengthFields : (TPDU + l + 1) % IndexRange = i
  BY DEF Sums
<1>2. CASE l = 0
  <2>1. TPDU + l + 1 = 7 /\ 7 % IndexRange = 7
    BY <1>2, TpTransmitAssumption DEF TPDU
  <2> QED BY <1>1, <2>1
<1>3. ASSUME NEW t \in Telegrams, l = Length[t]
      PROVE  ChecksumAt(t) = i
  BY <1>1, <1>3 DEF ChecksumAt, Last
<1> QED BY <1>2, <1>3 DEF LengthFields

\* What a task's step writes to octets 1 and 2 of the frame it builds,
LEMMA BuiltAtSource ==
  ASSUME IndexInv, NEW h \in Handlers, NEW i \in { 1, 2 },
         HandlerStep(h) \/ \E t \in Telegrams : Tunnel(h, t)
  PROVE  \/ L_TxBuffer'[i] = L_TxBuffer[i] /\ ~SetControlAndSource(h)
         \/ SetControlAndSource(h) /\ L_TxBuffer'[i] = Octet(Gateway, i)
         \/ SetFCS(h) /\ i = index[h] /\ index[h] \in Sums
<1>1. /\ i \in Position /\ i \in 0 .. 2 /\ i # 0 /\ i \notin 3 .. 4 /\ i # 5
      /\ i \notin TPDU .. TPDU + LengthField
  BY TpTransmitAssumption, LengthFieldType, SumsType
  DEF Position, TPDU, IndexInv
<1>2. SetControlAndSource(h) => L_TxBuffer'[i] = Octet(Gateway, i)
  BY <1>1 DEF Assign, SetControlAndSource, Put
<1>3. CASE SetDestination(h) \/ SetLength(h) \/ CopyTpdu(h)
  <2>1. L_TxBuffer'[i] = L_TxBuffer[i]
    <3>1. SetDestination(h) => L_TxBuffer'[i] = L_TxBuffer[i]
      BY <1>1 DEF Assign, SetDestination, Put
    <3>2. SetLength(h) => L_TxBuffer'[i] = L_TxBuffer[i]
      BY <1>1 DEF Assign, SetLength, Put
    <3>3. CopyTpdu(h) => L_TxBuffer'[i] = L_TxBuffer[i]
      BY <1>1 DEF Assign, CopyTpdu, Put
    <3> QED BY <1>3, <3>1, <3>2, <3>3
  <2>2. ~SetControlAndSource(h)
    BY <1>3 DEF Assign, Step, SetControlAndSource, SetDestination, SetLength,
       CopyTpdu
  <2> QED BY <2>1, <2>2
<1>4. CASE SetFCS(h)
  <2>1. index[h] \in Sums /\ ~SetControlAndSource(h)
    BY <1>4 DEF SetFCS, SetControlAndSource, Assign, Step, IndexInv, Indexed,
       IndexAt
  <2>2. i # index[h] => L_TxBuffer'[i] = L_TxBuffer[i]
    BY <1>1, <1>4 DEF Assign, SetFCS, Put
  <2> QED BY <1>4, <2>1, <2>2
<1>5. CASE \/ AdvanceIndex(h) \/ CopyFrame(h) \/ WriteService(h) \/ Return(h)
           \/ \E t \in Telegrams : Tunnel(h, t)
  <2>1. UNCHANGED L_TxBuffer
    BY <1>5 DEF AdvanceIndex, CopyFrame, WriteService, Return, Tunnel, buffers
  <2>2. ~SetControlAndSource(h)
    BY <1>5 DEF Assign, Step, SetControlAndSource, AdvanceIndex, CopyFrame,
       WriteService, Return, Tunnel
  <2> QED BY <2>1, <2>2
<1> QED BY <1>2, <1>3, <1>4, <1>5 DEF HandlerStep

\* and to those of the frame that is written.
LEMMA CopiedAtSource ==
  ASSUME NEW h \in Handlers, NEW i \in { 1, 2 },
         HandlerStep(h) \/ \E t \in Telegrams : Tunnel(h, t)
  PROVE  \/ TpUart2_TxBuffer'[i] = TpUart2_TxBuffer[i] /\ ~CopyFrame(h)
         \/ /\ CopyFrame(h)
            /\ TpUart2_TxBuffer'[i] = IF i < index[h] THEN L_TxBuffer[i]
                                      ELSE TpUart2_TxBuffer[i]
<1>1. i \in Position
  BY TpTransmitAssumption DEF Position, TPDU
<1>2. CASE CopyFrame(h)
  BY <1>1, <1>2 DEF CopyFrame
<1>3. CASE ~CopyFrame(h)
  BY <1>3 DEF HandlerStep, Assign, Tunnel, SetControlAndSource, SetDestination,
     SetLength, CopyTpdu, AdvanceIndex, SetFCS, WriteService, Return, buffers
<1> QED BY <1>2, <1>3

\* Whose length field a task may find only grows, up to all telegrams.
LEMMA OwnersGrow ==
  ASSUME IndexInv, NEW h \in Handlers, pc[h] # "idle",
         telegram'[h] = telegram[h], disturbed[h] => disturbed'[h]
  PROVE  /\ LengthOwners(h) \subseteq LengthOwners(h)'
         /\ LengthOwners(h)' \subseteq Telegrams
         /\ Sure(h)' => Sure(h)
         /\ Sure(h) => LengthOwners(h) = { telegram[h] }
         /\ ~Sure(h) => LengthOwners(h) = Telegrams
         /\ disturbed'[h] => LengthOwners(h)' = Telegrams
<1>1. telegram[h] \in Telegrams
  BY DEF IndexInv, Given
<1> QED BY <1>1 DEF LengthOwners, Sure

\* What a step writes to the UART.
LEMMA Wrote ==
  ASSUME IndexInv, [Next]_vars, NEW h \in Handlers,
         NEW k \in 1 .. Len(written'[h])
  PROVE  \/ k \in 1 .. Len(written[h]) /\ written'[h][k] = written[h][k]
         \/ /\ WriteService(h) /\ k = Len(written[h]) + 1
            /\ Len(written[h]) \in Nat /\ Len(written[h]) < index[h]
            /\ index[h] \in FrameLengths /\ index[h] \in Nat
            /\ written'[h][k] = Service(k - 1, index[h])
<1>1. CASE written'[h] = written[h]
  BY <1>1
<1>2. CASE Return(h)
  BY <1>2 DEF Return, IndexInv, Indexed
<1>3. CASE WriteService(h)
  <2>1. /\ \E S : written[h] \in Seq(S)
        /\ Len(written[h]) < index[h]
        /\ index[h] \in FrameLengths
    BY <1>3 DEF WriteService, Step, IndexInv, Indexed, IndexAt, WrittenAt, Counted
  <2>0. index[h] \in Nat
    BY <2>1, SumsType
  <2>2. written'[h] = Append(written[h], Service(Len(written[h]), index[h]))
    BY <1>3 DEF WriteService, IndexInv, Indexed
  <2>3. /\ Len(written[h]) \in Nat /\ Len(written'[h]) = Len(written[h]) + 1
        /\ \A j \in 1 .. Len(written[h]) : written'[h][j] = written[h][j]
        /\ written'[h][Len(written[h]) + 1] = Service(Len(written[h]), index[h])
    BY <2>1, <2>2, Appended
  <2>4. CASE k = Len(written[h]) + 1
    <3>1. k - 1 = Len(written[h])
      BY <2>3, <2>4
    <3> QED BY <1>3, <2>0, <2>1, <2>3, <2>4, <3>1
  <2>5. CASE k # Len(written[h]) + 1
    <3>1. k \in 1 .. Len(written[h])
      BY <2>3, <2>5
    <3> QED BY <2>3, <3>1
  <2> QED BY <2>4, <2>5
<1>4. \/ written'[h] = written[h] \/ Return(h) \/ WriteService(h)
  BY Actor DEF Assign,
     HandlerStep, Tunnel, SetControlAndSource, SetDestination,
     SetLength, CopyTpdu, AdvanceIndex, SetFCS, CopyFrame
<1> QED BY <1>1, <1>2, <1>3, <1>4

\* A task that is idle has nothing to keep.
LEMMA SourceIdle ==
  ASSUME IndexInv', NEW h \in Handlers, pc'[h] = "idle"
  PROVE  SourceOf(h)'
<1>1. written'[h] = << >>
  BY DEF IndexInv, Indexed, WrittenAt, Writing
<1>2. Len(<< >>) = 0
  OBVIOUS
<1>3. \A k \in 2 .. 3 : ~(k <= Len(written'[h]))
  BY <1>1, <1>2
<1>4. pc'[h] \notin AfterControl /\ pc'[h] \notin Writing
  BY DEF AfterControl, Writing
<1> QED BY <1>3, <1>4 DEF SourceOf

\* A step that leaves a task's entries and the buffers alone.
LEMMA SourceUntouched ==
  ASSUME IndexInv, NEW g \in Handlers, SourceOf(g), pc[g] # "idle",
         UNCHANGED << pc[g], telegram[g], index[g], written[g], buffers >>,
         disturbed[g] => disturbed'[g]
  PROVE  SourceOf(g)'
<1>1. /\ LengthOwners(g) \subseteq LengthOwners(g)'
      /\ Sure(g)' => Sure(g)
  BY OwnersGrow
<1>2. UNCHANGED << IP_RxBuffer, L_TxBuffer, TpUart2_TxBuffer >>
  BY DEF buffers
<1>3. ASSUME NEW o, NEW i, OwnBut(o, i, LengthOwners(g))
      PROVE  OwnBut(o, i, LengthOwners(g)')
  BY <1>1, <1>3 DEF OwnBut
<1>4. /\ \A o, i : OwnBut(o, i, LengthOwners(g)) =>
                     OwnBut(o, i, LengthOwners(g)')
  BY <1>3
<1>5. pc'[g] \in AfterControl =>
        \A i \in { 1, 2 } : OwnBut(L_TxBuffer'[i], i, LengthOwners(g)')
  BY <1>2, <1>4 DEF SourceOf
<1>6. pc'[g] \in Writing =>
        \A i \in { 1, 2 } :
          i < index'[g] => OwnBut(TpUart2_TxBuffer'[i], i, LengthOwners(g)')
  BY <1>2, <1>4 DEF SourceOf
<1>7. \A k \in 2 .. 3 :
        k <= Len(written'[g]) =>
          OwnBut(written'[g][k].octet, k - 1, LengthOwners(g)')
  BY <1>4 DEF SourceOf
<1>8. /\ pc'[g] # "idle" /\ Sure(g)' => IP_RxBuffer'[LENGTH] = telegram'[g]
      /\ pc'[g] = "fcs" /\ Sure(g)' => index'[g] = ChecksumAt(telegram'[g])
  BY <1>1, <1>2 DEF SourceOf
<1> QED BY <1>5, <1>6, <1>7, <1>8 DEF SourceOf, OwnBut, Octet, ChecksumAt, Last

\* Another task's step.
LEMMA SourceOther ==
  ASSUME IndexInv, IndexInv', NEW h \in Handlers, NEW g \in Handlers, g # h,
         SourceOf(g), HandlerStep(h) \/ \E t \in Telegrams : Tunnel(h, t)
  PROVE  SourceOf(g)'
<1>1. UNCHANGED << pc[g], telegram[g], index[g], written[g] >>
  BY DEF Assign, IndexInv, TypeOK, Indexed, HandlerStep, Step, Tunnel,
     SetControlAndSource, SetDestination, SetLength, CopyTpdu, AdvanceIndex,
     SetFCS, CopyFrame, WriteService, Return
<1>2. CASE pc[g] = "idle"
  BY <1>1, <1>2, SourceIdle
<1>3. CASE pc[g] # "idle" /\ Touch(h)
  <2>1. disturbed'[g]
    BY <1>3 DEF Touch
  <2>2. /\ LengthOwners(g) \subseteq Telegrams
        /\ LengthOwners(g)' = Telegrams /\ ~Sure(g)'
    BY <1>1, <1>3, <2>1, OwnersGrow DEF Sure
  <2>3. \A o, i : OwnBut(o, i, LengthOwners(g)) => OwnBut(o, i, Telegrams)
    BY <2>2 DEF OwnBut
  <2>4. ASSUME pc[g] \in AfterControl, NEW i \in { 1, 2 }
        PROVE  OwnBut(L_TxBuffer'[i], i, Telegrams)
    <3>1. OwnBut(L_TxBuffer[i], i, Telegrams)
      BY <2>3, <2>4 DEF SourceOf
    <3>2. i \in Sums => \E t \in Telegrams : ChecksumAt(t) = i
      BY SumAtSource
    <3>3. \/ L_TxBuffer'[i] = L_TxBuffer[i]
          \/ L_TxBuffer'[i] = Octet(Gateway, i)
          \/ i \in Sums
      BY BuiltAtSource
    <3> QED BY <3>1, <3>2, <3>3 DEF OwnBut
  <2>5. ASSUME pc[g] \in Writing, NEW i \in { 1, 2 }, i < index[g]
        PROVE  OwnBut(TpUart2_TxBuffer'[i], i, Telegrams)
    <3>1. pc[g] \in AfterControl
      BY <2>5 DEF Writing, AfterControl, Label
    <3>2. /\ OwnBut(L_TxBuffer[i], i, Telegrams)
          /\ OwnBut(TpUart2_TxBuffer[i], i, Telegrams)
      BY <2>3, <2>5, <3>1 DEF SourceOf
    <3>3. \/ TpUart2_TxBuffer'[i] = TpUart2_TxBuffer[i]
          \/ TpUart2_TxBuffer'[i] = L_TxBuffer[i]
      BY CopiedAtSource
    <3> QED BY <3>2, <3>3
  <2>6. \A k \in 2 .. 3 :
          k <= Len(written'[g]) =>
            OwnBut(written'[g][k].octet, k - 1, Telegrams)
    BY <1>1, <2>3 DEF SourceOf
  <2> QED BY <1>1, <2>2, <2>4, <2>5, <2>6
          DEF SourceOf, OwnBut, Octet, ChecksumAt, Last
<1>4. CASE pc[g] # "idle" /\ (AdvanceIndex(h) \/ Return(h))
  <2>1. UNCHANGED buffers /\ (disturbed[g] => disturbed'[g])
    BY <1>4 DEF AdvanceIndex, Return, IndexInv, TypeOK
  <2> QED BY <1>1, <1>4, <2>1, SourceUntouched
<1> QED BY <1>2, <1>3, <1>4 DEF Assign, HandlerStep, Tunnel,
        SetControlAndSource, SetDestination, SetLength, CopyTpdu, SetFCS,
        CopyFrame, WriteService

\* A telegram comes in.
LEMMA SourceTunnel ==
  ASSUME IndexInv, IndexInv', NEW h \in Handlers, NEW t \in Telegrams,
         Tunnel(h, t)
  PROVE  SourceOf(h)'
<1>1. pc'[h] = "control" /\ telegram'[h] = t
  BY DEF Tunnel, Step, IndexInv, TypeOK
<1>2. written'[h] = << >> /\ Len(<< >>) = 0
  BY <1>1 DEF IndexInv, Indexed, WrittenAt, Writing
<1>3. Sure(h)' => IP_RxBuffer'[LENGTH] = t
  <2>1. /\ LENGTH \in 0 .. BufferSize - 1
        /\ ~(CemiLength[t] <= LENGTH) => LENGTH < CemiLength[t]
    BY TpTransmitAssumption DEF LENGTH, CEMI_TPDU
  <2> QED BY <1>1, <2>1 DEF Tunnel, Sure
<1>4. \A k \in 2 .. 3 : ~(k <= Len(written'[h]))
  BY <1>2
<1> QED BY <1>1, <1>3, <1>4 DEF SourceOf, AfterControl, Writing

\* A task's own step.
LEMMA SourceOwn ==
  ASSUME IndexInv, IndexInv', [Next]_vars, NEW h \in Handlers, SourceOf(h),
         HandlerStep(h)
  PROVE  SourceOf(h)'
<1>1. CASE Return(h)
  <2>1. pc'[h] = "idle"
    BY <1>1 DEF Return, Step, IndexInv, TypeOK
  <2> QED BY <2>1, SourceIdle
<1>2. CASE ~Return(h)
  <2> DEFINE t == telegram[h]
             ts == LengthOwners(h)
  <2>1. /\ pc[h] # "idle" /\ telegram'[h] = telegram[h]
        /\ disturbed'[h] = disturbed[h] /\ IP_RxBuffer' = IP_RxBuffer
    BY <1>2 DEF HandlerStep, Step, Assign, Touch, SetControlAndSource,
       SetDestination, SetLength, CopyTpdu, AdvanceIndex, SetFCS, CopyFrame,
       WriteService, buffers, IndexInv, TypeOK
  <2>2. /\ LengthOwners(h)' = ts /\ Sure(h)' = Sure(h) /\ t \in Telegrams
        /\ Sure(h) => ts = { t }
        /\ ~Sure(h) => ts = Telegrams
    BY <2>1, OwnersGrow DEF LengthOwners, Sure, IndexInv, Given
  <2> HIDE DEF ts
  <2>3. /\ pc[h] \in AfterControl =>
             \A i \in { 1, 2 } : OwnBut(L_TxBuffer[i], i, ts)
        /\ pc[h] \in Writing =>
             \A i \in { 1, 2 } :
               i < index[h] => OwnBut(TpUart2_TxBuffer[i], i, ts)
        /\ \A k \in 2 .. 3 : k <= Len(written[h]) =>
             OwnBut(written[h][k].octet, k - 1, ts)
        /\ Sure(h) => IP_RxBuffer[LENGTH] = t
        /\ pc[h] = "fcs" /\ Sure(h) => index[h] = ChecksumAt(t)
    BY <2>1 DEF SourceOf, ts
  <2>4. ASSUME NEW i \in { 1, 2 }, pc'[h] \in AfterControl
        PROVE  OwnBut(L_TxBuffer'[i], i, ts)
    <3>1. CASE L_TxBuffer'[i] = L_TxBuffer[i] /\ ~SetControlAndSource(h)
      <4>1. pc[h] \in AfterControl
        BY <1>2, <3>1 DEF HandlerStep, Step, Assign, SetDestination, SetLength,
           CopyTpdu, AdvanceIndex, SetFCS, CopyFrame, WriteService,
           AfterControl, Label
      <4> QED BY <2>3, <3>1, <4>1
    <3>2. CASE L_TxBuffer'[i] = Octet(Gateway, i)
      BY <3>2 DEF OwnBut
    <3>3. CASE SetFCS(h) /\ i = index[h] /\ index[h] \in Sums
      <4>1. pc[h] = "fcs"
        BY <3>3 DEF SetFCS, Assign, Step
      <4>2. \E u \in Telegrams : ChecksumAt(u) = i
        BY <3>3, SumAtSource
      <4>3. \E u \in ts : ChecksumAt(u) = i
        BY <2>2, <2>3, <3>3, <4>1, <4>2
      <4> QED BY <4>3 DEF OwnBut
    <3> QED BY <3>1, <3>2, <3>3, BuiltAtSource
  <2>5. ASSUME NEW i \in { 1, 2 }, pc'[h] \in Writing, i < index'[h]
        PROVE  OwnBut(TpUart2_TxBuffer'[i], i, ts)
    <3>1. CASE CopyFrame(h)
      <4>1. index'[h] = index[h] /\ pc[h] \in AfterControl
        BY <3>1 DEF CopyFrame, Step, AfterControl, Label
      <4>2. TpUart2_TxBuffer'[i] = L_TxBuffer[i]
        BY <2>5, <3>1, <4>1, CopiedAtSource
      <4> QED BY <2>3, <4>1, <4>2
    <3>2. CASE ~CopyFrame(h)
      <4>1. pc[h] \in Writing /\ index'[h] = index[h]
        BY <1>2, <2>5, <3>2 DEF HandlerStep, Step, Assign, SetControlAndSource,
           SetDestination, SetLength, CopyTpdu, AdvanceIndex, SetFCS,
           WriteService, Writing, IndexInv, TypeOK
      <4>2. TpUart2_TxBuffer'[i] = TpUart2_TxBuffer[i]
        BY <3>2, CopiedAtSource
      <4> QED BY <2>3, <2>5, <4>1, <4>2
    <3> QED BY <3>1, <3>2
  <2>6. ASSUME NEW k \in 2 .. 3, k <= Len(written'[h])
        PROVE  OwnBut(written'[h][k].octet, k - 1, ts)
    <3>1. \E S : written'[h] \in Seq(S)
      BY DEF IndexInv, Indexed, WrittenAt
    <3>2. k \in 1 .. Len(written'[h])
      BY <2>6, <3>1
    <3>3. CASE k \in 1 .. Len(written[h]) /\ written'[h][k] = written[h][k]
      BY <2>3, <3>3
    <3>4. CASE /\ WriteService(h) /\ k = Len(written[h]) + 1
               /\ Len(written[h]) \in Nat /\ Len(written[h]) < index[h]
               /\ written'[h][k] = Service(k - 1, index[h])
      <4>1. /\ pc[h] \in Writing /\ k - 1 \in { 1, 2 } /\ k - 1 < index[h]
        <5>1. pc[h] \in Writing
          BY <3>4 DEF WriteService, Step, Writing
        <5>2. k - 1 = Len(written[h])
          BY <3>4
        <5>3. k - 1 \in { 1, 2 }
          BY <2>6
        <5> QED BY <3>4, <5>1, <5>2, <5>3
      <4>2. OwnBut(TpUart2_TxBuffer[k - 1], k - 1, ts)
        BY <2>3, <4>1
      <4>3. Service(k - 1, index[h]).octet = TpUart2_TxBuffer[k - 1]
        BY DEF Service, U_L_DataStart, U_L_DataContinue, U_L_DataEnd
      <4> QED BY <3>4, <4>2, <4>3
    <3> QED BY <3>2, <3>3, <3>4, Wrote
  <2>7. ASSUME pc'[h] = "fcs", Sure(h) PROVE index'[h] = ChecksumAt(t)
    <3>1. AdvanceIndex(h) /\ index[h] = 0
      BY <1>2, <2>7 DEF HandlerStep, Step, Assign, SetControlAndSource,
         SetDestination, SetLength, CopyTpdu, AdvanceIndex, SetFCS, CopyFrame,
         WriteService, IndexInv, TypeOK, Indexed, IndexAt, Counted
    <3>2. LengthField = Length[t] /\ Length[t] \in Nat
      BY <2>2, <2>3, <2>7, TpTransmitAssumption DEF LengthField
    <3>3. index'[h] = (index[h] + TPDU + LengthField + 1) % IndexRange
      BY <3>1 DEF AdvanceIndex, IndexInv, TypeOK
    <3>4. index[h] + TPDU + LengthField + 1 = Last(t) + 1
      BY <3>1, <3>2 DEF Last, TPDU
    <3> QED BY <3>3, <3>4 DEF ChecksumAt
  <2>8. Sure(h)' => IP_RxBuffer'[LENGTH] = telegram'[h]
    BY <2>1, <2>2, <2>3
  <2> QED BY <2>1, <2>2, <2>4, <2>5, <2>6, <2>7, <2>8
          DEF SourceOf, OwnBut, Octet, ChecksumAt, Last
<1> QED BY <1>1, <1>2

\* Whatever the tasks do to each other's frames, octets 1 and 2 of whatever one
\* writes to the bus are the gateway's address, unless a length field as large
\* as that puts the checksum there: the telegram's own, as long as no other task
\* has interfered.
THEOREM SourceKept == Spec => []SourceIsGateway
<1>1. IndexInv /\ Init => SourceInv
  <2> SUFFICES ASSUME IndexInv, Init, NEW h \in Handlers PROVE SourceOf(h)
    BY DEF SourceInv
  <2>1. written[h] = << >> /\ pc[h] = "idle" /\ Len(<< >>) = 0
    BY DEF Init
  <2>2. \A k \in 2 .. 3 : ~(k <= Len(written[h]))
    BY <2>1
  <2> QED BY <2>1, <2>2 DEF SourceOf, AfterControl, Writing
<1>2. IndexInv /\ SourceInv /\ [Next]_vars => SourceInv'
  <2> SUFFICES ASSUME IndexInv, SourceInv, [Next]_vars, NEW g \in Handlers
               PROVE  SourceOf(g)'
    BY DEF SourceInv
  <2>1. SourceOf(g) /\ IndexInv'
    BY IndexStep DEF SourceInv
  <2>2. CASE U_PollingState \/ UNCHANGED vars
    <3>1. /\ UNCHANGED << pc[g], telegram[g], index[g], written[g], buffers >>
          /\ disturbed[g] => disturbed'[g]
      BY <2>2 DEF U_PollingState, vars
    <3> QED BY <2>1, <3>1, SourceUntouched, SourceIdle
  <2>3. ASSUME NEW h \in Handlers,
               HandlerStep(h) \/ \E t \in Telegrams : Tunnel(h, t)
        PROVE  SourceOf(g)'
    <3>1. CASE g # h
      BY <2>1, <2>3, <3>1, SourceOther
    <3>2. CASE g = h
      BY <2>1, <2>3, <3>2, SourceOwn, SourceTunnel
    <3> QED BY <3>1, <3>2
  <2> QED BY <2>2, <2>3 DEF Next
<1>3. SourceInv => SourceIsGateway
  BY DEF SourceInv, SourceOf, OwnBut, SourceIsGateway
<1> QED BY IndexInit, IndexAlways, <1>1, <1>2, <1>3, PTL DEF Spec

-----------------------------------------------------------------------------
\* The positions.

\* The services for a frame of 64 octets at most keep to their ranges.
LEMMA ServiceRange ==
  ASSUME NEW n \in 8 .. 64, NEW i \in Nat, i < n
  PROVE  /\ Service(i, n).cmd = "continue" => Service(i, n).arg \in 1 .. 62
         /\ Service(i, n).cmd = "end" => Service(i, n).arg \in 7 .. 63
<1>0. n \in 8 .. 64
  OBVIOUS
<1>1. (n - 1) % 64 = n - 1 /\ i % 64 = i
  BY <1>0
<1>2. CASE i = 0
  BY <1>2 DEF Service, U_L_DataStart
<1>3. CASE i # 0 /\ i = n - 1
  <2>1. Service(i, n).cmd = "end" /\ Service(i, n).arg = n - 1
    BY <1>1, <1>3 DEF Service, U_L_DataEnd
  <2> QED BY <1>0, <2>1
<1>4. CASE i # 0 /\ i # n - 1
  <2>1. Service(i, n).cmd = "continue" /\ Service(i, n).arg = i
    BY <1>1, <1>4 DEF Service, U_L_DataContinue
  <2> QED BY <1>0, <1>4, <2>1
<1> QED BY <1>2, <1>3, <1>4

\* A telegram with a length field of at most 56 is written within the ranges
\* of the services, by any number of tasks and whatever they do to each other.
THEOREM RangesKept ==
  ASSUME IndexRange > 64, \A t \in Telegrams : Length[t] <= 56
  PROVE  Spec => []ServicesInRange
<1>0. FrameLengths \subseteq 8 .. 64
  <2> SUFFICES ASSUME NEW l \in LengthFields
               PROVE  (((TPDU + l + 1) % IndexRange) + 1) % IndexRange \in 8 .. 64
    BY DEF FrameLengths, Sums
  <2>1. l \in 0 .. 56
    BY TpTransmitAssumption DEF LengthFields
  <2>2. (TPDU + l + 1) % IndexRange = l + 7 /\ (l + 8) % IndexRange = l + 8
    BY <2>1, TpTransmitAssumption DEF TPDU
  <2>3. (l + 7) + 1 = l + 8 /\ l + 8 \in 8 .. 64
    BY <2>1
  <2> QED BY <2>2, <2>3
<1>1. Init => ServicesInRange
  BY DEF Init, ServicesInRange
<1>2. IndexInv /\ ServicesInRange /\ [Next]_vars => ServicesInRange'
  <2> SUFFICES ASSUME IndexInv, ServicesInRange, [Next]_vars,
                      NEW h \in Handlers, NEW k \in 1 .. Len(written'[h])
               PROVE  /\ written'[h][k].cmd = "continue" =>
                            written'[h][k].arg \in 1 .. 62
                      /\ written'[h][k].cmd = "end" =>
                            written'[h][k].arg \in 7 .. 63
    BY DEF ServicesInRange
  <2>1. CASE k \in 1 .. Len(written[h]) /\ written'[h][k] = written[h][k]
    BY <2>1 DEF ServicesInRange
  <2>2. CASE /\ k = Len(written[h]) + 1
             /\ Len(written[h]) \in Nat /\ Len(written[h]) < index[h]
             /\ index[h] \in FrameLengths
             /\ written'[h][k] = Service(k - 1, index[h])
    <3>1. k - 1 \in Nat /\ k - 1 < index[h] /\ index[h] \in 8 .. 64
      <4>1. k - 1 = Len(written[h])
        BY <2>2
      <4> QED BY <1>0, <2>2, <4>1
    <3> QED BY <2>2, <3>1, ServiceRange, ZenonT(60)
  <2> QED BY <2>1, <2>2, Wrote
<1> QED BY IndexAlways, <1>1, <1>2, PTL DEF Spec

-----------------------------------------------------------------------------
\* The octets of a frame.

FrameLength(t)    == Last(t) + 2
FrameOctet(t, i)  == FrameOf(t)[i + 1]
ServiceOf(t, k)   == ServicesOf(t)[k]

\* After which statement a task has each part of its frame in L_TxBuffer.
AfterAddress == AfterControl \ { "address" }
AfterLength  == AfterAddress \ { "length" }
AfterTpdu    == AfterLength \ { "tpdu" }

BuiltOf(t, l) ==
  /\ l \in AfterControl => \A i \in 0 .. 2 : L_TxBuffer[i] = OctetOf(t, i)
  /\ l \in AfterAddress => \A i \in 3 .. 4 : L_TxBuffer[i] = OctetOf(t, i)
  /\ l \in AfterLength => L_TxBuffer[5] = OctetOf(t, 5)
  /\ l \in AfterTpdu =>
       \A i \in TPDU .. Last(t) : L_TxBuffer[i] = OctetOf(t, i)
  /\ l = "copy" => L_TxBuffer[Last(t) + 1] = FrameOctet(t, Last(t) + 1)

ReceivedOf(t) == \A k \in 0 .. CEMI_TPDU + Length[t] : IP_RxBuffer[k] = t

CountedOf(t, l, n) ==
  /\ l = "fcs" => n = Last(t) + 1
  /\ l \in Counted => n = FrameLength(t)

WrittenOf(t, l, s) ==
  l \in Writing =>
    /\ \A i \in 0 .. FrameLength(t) - 1 : TpUart2_TxBuffer[i] = FrameOctet(t, i)
    /\ \A k \in 1 .. Len(s) : s[k] = ServiceOf(t, k)

IntactOf(t, l, n, s) ==
  ReceivedOf(t) /\ BuiltOf(t, l) /\ CountedOf(t, l, n) /\ WrittenOf(t, l, s)

Intact(h) ==
  pc[h] # "idle" /\ ~disturbed[h] /\ Complete(telegram[h]) =>
    IntactOf(telegram[h], pc[h], index[h], written[h])

IntactInv == \A h \in Handlers : Intact(h)

\* What the frame of a telegram is.
LEMMA FrameFacts ==
  ASSUME NEW t \in Telegrams, Complete(t)
  PROVE  /\ Length[t] \in Nat /\ Last(t) = TPDU + Length[t]
         /\ Last(t) + 2 < IndexRange /\ Last(t) \in Nat /\ TPDU <= Last(t)
         /\ Last(t) + 1 \in Position
         /\ Len(FrameOf(t)) = FrameLength(t)
         /\ \A i \in 0 .. Last(t) : FrameOctet(t, i) = OctetOf(t, i)
         /\ FrameOctet(t, Last(t) + 1) =
              Checksum([k \in 1 .. Last(t) + 1 |-> OctetOf(t, k - 1)])
<1> DEFINE data == [k \in 1 .. Last(t) + 1 |-> OctetOf(t, k - 1)]
<1>1. /\ Length[t] \in Nat /\ Last(t) = TPDU + Length[t]
      /\ Last(t) + 2 < IndexRange /\ Last(t) \in Nat /\ TPDU <= Last(t)
      /\ Last(t) + 1 \in Position
  BY TpTransmitAssumption DEF Complete, Last, TPDU, Position
<1>2. PICK S : data \in [1 .. Last(t) + 1 -> S]
  <2>1. data \in [1 .. Last(t) + 1
                     -> { OctetOf(t, k - 1) : k \in 1 .. Last(t) + 1 }]
    OBVIOUS
  <2> QED BY <2>1
<1>3. data \in Seq(S) /\ Len(data) = Last(t) + 1
  <2> HIDE DEF data
  <2> QED BY <1>1, <1>2
<1>4. /\ Len(FrameOf(t)) = Last(t) + 2
      /\ \A k \in 1 .. Last(t) + 1 : FrameOf(t)[k] = data[k]
      /\ FrameOf(t)[Last(t) + 2] = Checksum(data)
  <2> HIDE DEF data
  <2>1. FrameOf(t) = Append(data, Checksum(data))
    BY DEF FrameOf, data
  <2> QED BY <1>1, <1>2, <1>3, <2>1, Appended
<1>5. ASSUME NEW i \in 0 .. Last(t)
      PROVE  FrameOctet(t, i) = OctetOf(t, i)
  <2>1. i + 1 \in 1 .. Last(t) + 1 /\ (i + 1) - 1 = i
    BY <1>1
  <2>2. data[i + 1] = OctetOf(t, i)
    BY <2>1
  <2> QED BY <1>4, <2>1, <2>2 DEF FrameOctet
<1>6. (Last(t) + 1) + 1 = Last(t) + 2
  BY <1>1
<1> QED BY <1>1, <1>4, <1>5, <1>6 DEF FrameOctet, FrameLength

\* What the services of a telegram are.
LEMMA ServiceFacts ==
  ASSUME NEW t \in Telegrams, Complete(t)
  PROVE  /\ ServicesOf(t) = [k \in 1 .. FrameLength(t) |-> ServiceOf(t, k)]
         /\ \A k \in 1 .. FrameLength(t) :
              ServiceOf(t, k) =
                IF k = 1 THEN U_L_DataStart(FrameOctet(t, k - 1))
                ELSE IF k = FrameLength(t)
                       THEN U_L_DataEnd(FrameLength(t) - 1, FrameOctet(t, k - 1))
                     ELSE U_L_DataContinue(k - 1, FrameOctet(t, k - 1))
<1>1. Len(FrameOf(t)) = FrameLength(t) /\ Last(t) \in Nat
  BY FrameFacts
<1>2. \A k \in 1 .. FrameLength(t) : FrameOctet(t, k - 1) = FrameOf(t)[k]
  BY <1>1 DEF FrameOctet, FrameLength
<1> QED BY <1>1, <1>2 DEF ServicesOf, ServiceOf

\* A task that another one's step disturbs is beyond care, and another one's
\* step that disturbs nothing keeps what a task relies on.
LEMMA IntactOthers ==
  ASSUME IndexInv, NEW g \in Handlers, Intact(g),
         UNCHANGED << pc[g], telegram[g], index[g], written[g] >>,
         \/ pc[g] # "idle" => disturbed'[g]
         \/ UNCHANGED << buffers, disturbed[g] >>
  PROVE  Intact(g)'
<1>1. CASE pc[g] # "idle" => disturbed'[g]
  BY <1>1 DEF Intact
<1>2. CASE UNCHANGED << buffers, disturbed[g] >>
  <2> DEFINE t == telegram[g]
  <2>1. /\ ReceivedOf(t)' = ReceivedOf(t)
        /\ BuiltOf(t, pc[g])' = BuiltOf(t, pc[g])
        /\ CountedOf(t, pc[g], index[g])' = CountedOf(t, pc[g], index[g])
        /\ WrittenOf(t, pc[g], written[g])' = WrittenOf(t, pc[g], written[g])
    BY <1>2 DEF buffers, ReceivedOf, BuiltOf, CountedOf, WrittenOf
  <2> QED BY <1>2, <2>1 DEF Intact, IntactOf
<1> QED BY <1>1, <1>2

\* What a task finds in IP_RxBuffer as long as its telegram is there.
LEMMA ReceivedFacts ==
  ASSUME NEW t \in Telegrams, Complete(t), ReceivedOf(t)
  PROVE  /\ \A i \in 0 .. TPDU + LengthField + 1 : i \in Position
         /\ LengthField = Length[t] /\ LengthField \in Nat
         /\ TPDU + LengthField = Last(t)
         /\ \A i \in 0 .. CEMI_TPDU : IP_RxBuffer[i] = t
         /\ \A i \in TPDU .. Last(t) :
              Octet(RxOctet(CEMI_TPDU + i - TPDU), i) = OctetOf(t, i)
<1>1. /\ Length[t] \in Nat /\ Last(t) + 2 < IndexRange
      /\ Last(t) = TPDU + Length[t] /\ CEMI_TPDU + Length[t] < BufferSize
  <2>1. /\ Length[t] \in Nat /\ Last(t) + 2 < IndexRange
        /\ Last(t) = TPDU + Length[t]
    BY FrameFacts
  <2>2. CEMI_TPDU + Length[t] < CemiLength[t] /\ CemiLength[t] \in 0 .. BufferSize
    BY TpTransmitAssumption DEF Complete
  <2> QED BY <2>1, <2>2, TpTransmitAssumption DEF CEMI_TPDU
<1>2. \A i \in 0 .. CEMI_TPDU : IP_RxBuffer[i] = t
  BY <1>1 DEF ReceivedOf, CEMI_TPDU
<1>3. LengthField = Length[t]
  <2>1. LENGTH \in 0 .. CEMI_TPDU
    BY DEF LENGTH, CEMI_TPDU
  <2> QED BY <1>2, <2>1, TpTransmitAssumption DEF LengthField
<1>4. \A i \in 0 .. TPDU + LengthField + 1 : i \in Position
  BY <1>1, <1>3, TpTransmitAssumption DEF Position, TPDU
<1>5. ASSUME NEW i \in TPDU .. Last(t)
      PROVE  Octet(RxOctet(CEMI_TPDU + i - TPDU), i) = OctetOf(t, i)
  <2> DEFINE k == CEMI_TPDU + i - TPDU
  <2>1. /\ k \in 0 .. CEMI_TPDU + Length[t] /\ k < BufferSize
        /\ i \notin { 1, 2 } /\ i # 5
    BY <1>1, TpTransmitAssumption DEF TPDU, CEMI_TPDU
  <2>2. RxOctet(k) = t
    BY <2>1 DEF RxOctet, ReceivedOf
  <2> QED BY <2>1, <2>2 DEF OctetOf
<1> QED BY <1>1, <1>2, <1>3, <1>4, <1>5

\* The statements that build the frame up to its TPDU.
LEMMA IntactHead ==
  ASSUME IndexInv, NEW h \in Handlers, Intact(h),
         SetControlAndSource(h) \/ SetDestination(h) \/ SetLength(h)
         \/ CopyTpdu(h)
  PROVE  Intact(h)'
<1>1. /\ UNCHANGED << telegram, IP_RxBuffer, index, written >>
      /\ disturbed'[h] = disturbed[h]
      /\ pc[h] # "idle" /\ telegram[h] \in Telegrams
  BY DEF Assign,
     SetControlAndSource, SetDestination, SetLength, CopyTpdu, Touch, Step,
     IndexInv, TypeOK, Given
<1>2. PICK t \in Telegrams : t = telegram[h]
  BY <1>1
<1> SUFFICES ASSUME ~disturbed[h], Complete(t)
             PROVE  IntactOf(t, pc[h], index[h], written[h])'
  BY <1>1, <1>2 DEF Intact, Complete, Last
<1>3. ReceivedOf(t) /\ BuiltOf(t, pc[h]) /\ ReceivedOf(t)'
  BY <1>1, <1>2 DEF Intact, IntactOf, ReceivedOf
<1>4. /\ \A i \in 0 .. 5 : i \in Position
      /\ \A i \in TPDU .. Last(t) : i \in Position /\ i \notin 0 .. 5
      /\ TPDU .. TPDU + LengthField = TPDU .. Last(t)
      /\ \A i \in 0 .. CEMI_TPDU : IP_RxBuffer[i] = t
      /\ \A i \in 3 .. 4 : Octet(t, i) = OctetOf(t, i)
      /\ Octet(<< t, t >>, 5) = OctetOf(t, 5)
  <2>1. ASSUME NEW i \in 0 .. 5 PROVE i \in Position
    BY TpTransmitAssumption DEF Position, TPDU
  <2>2. ASSUME NEW i \in TPDU .. Last(t) PROVE i \in Position /\ i \notin 0 .. 5
    <3>1. Last(t) \in Nat /\ Last(t) + 2 < IndexRange
      BY FrameFacts
    <3> QED BY <3>1, TpTransmitAssumption DEF Position, TPDU
  <2>3. /\ \A i \in 3 .. 4 : Octet(t, i) = OctetOf(t, i)
        /\ Octet(<< t, t >>, 5) = OctetOf(t, 5)
    BY DEF OctetOf
  <2>4. /\ TPDU .. TPDU + LengthField = TPDU .. Last(t)
        /\ \A i \in 0 .. CEMI_TPDU : IP_RxBuffer[i] = t
    BY <1>3, ReceivedFacts
  <2> QED BY <2>1, <2>2, <2>3, <2>4
<1>5. /\ pc'[h] \in AfterControl \ (Counted \cup { "fcs" })
      /\ BuiltOf(t, pc[h])'
  <2> USE DEF AfterControl, AfterAddress, AfterLength, AfterTpdu, Counted, Label
  <2>1. CASE SetControlAndSource(h)
    <3>1. pc'[h] = "address"
      BY <2>1 DEF Assign, SetControlAndSource, Step, IndexInv, TypeOK
    <3>2. \A i \in 0 .. 2 : L_TxBuffer'[i] = OctetOf(t, i)
      BY <1>4, <2>1 DEF Assign, SetControlAndSource, Put, CTRL1, CEMI_TPDU,
         OctetOf
    <3> QED BY <3>1, <3>2 DEF BuiltOf
  <2>2. CASE SetDestination(h)
    <3>1. pc[h] = "address" /\ pc'[h] = "length"
      BY <2>2 DEF Assign, SetDestination, Step, IndexInv, TypeOK
    <3>2. /\ \A i \in 3 .. 4 : L_TxBuffer'[i] = OctetOf(t, i)
          /\ \A i \in 0 .. 2 : L_TxBuffer'[i] = L_TxBuffer[i]
      BY <1>4, <2>2 DEF Assign, SetDestination, Put, DA, CEMI_TPDU
    <3> QED BY <1>3, <3>1, <3>2 DEF BuiltOf
  <2>3. CASE SetLength(h)
    <3>1. pc[h] = "length" /\ pc'[h] = "tpdu"
      BY <2>3 DEF Assign, SetLength, Step, IndexInv, TypeOK
    <3>2. /\ L_TxBuffer'[5] = OctetOf(t, 5)
          /\ \A i \in 0 .. 4 : L_TxBuffer'[i] = L_TxBuffer[i]
      BY <1>4, <2>3 DEF Assign, SetLength, Put, CTRL2, LENGTH, CEMI_TPDU
    <3> QED BY <1>3, <3>1, <3>2 DEF BuiltOf
  <2>4. CASE CopyTpdu(h)
    <3>1. pc[h] = "tpdu" /\ pc'[h] = "index"
      BY <2>4 DEF Assign, CopyTpdu, Step, IndexInv, TypeOK
    <3>2. \A i \in TPDU .. Last(t) : L_TxBuffer'[i] = OctetOf(t, i)
      BY <1>3, <1>4, <2>4, ReceivedFacts DEF Assign, CopyTpdu, Put
    <3>3. \A i \in 0 .. 5 : L_TxBuffer'[i] = L_TxBuffer[i]
      BY <1>4, <2>4 DEF Assign, CopyTpdu, Put
    <3> QED BY <1>3, <3>1, <3>2, <3>3 DEF BuiltOf
  <2> QED BY <2>1, <2>2, <2>3, <2>4
<1>6. /\ CountedOf(t, pc[h], index[h])'
      /\ WrittenOf(t, pc[h], written[h])'
  BY <1>5 DEF CountedOf, WrittenOf, Counted, Writing
<1> QED BY <1>3, <1>5, <1>6 DEF IntactOf

\* A telegram that comes in is all in IP_RxBuffer.
LEMMA IntactTunnel ==
  ASSUME IndexInv, NEW h \in Handlers, NEW t \in Telegrams, Tunnel(h, t)
  PROVE  Intact(h)'
<1>1. telegram'[h] = t /\ pc'[h] = "control"
  BY DEF Tunnel, Step, IndexInv, TypeOK
<1>2. ASSUME Complete(t) PROVE ReceivedOf(t)'
  <2>1. \A k \in 0 .. CEMI_TPDU + Length[t] :
          k \in 0 .. BufferSize - 1 /\ k < CemiLength[t]
    BY <1>2, FrameFacts, TpTransmitAssumption DEF Complete, CEMI_TPDU
  <2> QED BY <2>1 DEF Tunnel, ReceivedOf
<1>3. \A n, s : /\ BuiltOf(t, "control")' /\ CountedOf(t, "control", n)
               /\ WrittenOf(t, "control", s)'
  BY DEF BuiltOf, CountedOf, WrittenOf, AfterControl, AfterAddress, AfterLength,
     AfterTpdu, Counted, Writing
<1> QED BY <1>1, <1>2, <1>3 DEF Intact, IntactOf, Complete, Last

\* The length that is counted is the telegram's.
LEMMA IntactAdvance ==
  ASSUME IndexInv, NEW h \in Handlers, Intact(h), AdvanceIndex(h)
  PROVE  Intact(h)'
<1>1. /\ UNCHANGED << telegram, buffers, written, disturbed >>
      /\ pc[h] = "index" /\ pc'[h] = "fcs" /\ telegram[h] \in Telegrams
      /\ index[h] = 0
      /\ index'[h] = (index[h] + TPDU + LengthField + 1) % IndexRange
  BY DEF AdvanceIndex, Step, IndexInv, TypeOK, Indexed,
     IndexAt, Counted, Given
<1>2. PICK t \in Telegrams : t = telegram[h]
  BY <1>1
<1> SUFFICES ASSUME ~disturbed[h], Complete(t)
             PROVE  IntactOf(t, pc[h], index[h], written[h])'
  BY <1>1, <1>2 DEF Intact, Complete, Last
<1>3. /\ ReceivedOf(t) /\ BuiltOf(t, "index")
      /\ ReceivedOf(t)' /\ BuiltOf(t, "fcs")'
  <2>1. ReceivedOf(t) /\ BuiltOf(t, "index")
    BY <1>1, <1>2 DEF Intact, IntactOf
  <2> QED BY <1>1, <2>1 DEF ReceivedOf, BuiltOf, AfterControl, AfterAddress,
          AfterLength, AfterTpdu, Label, buffers
<1>4. index'[h] = Last(t) + 1
  <2>1. index[h] + TPDU + LengthField + 1 = Last(t) + 1
    BY <1>1, <1>3, ReceivedFacts DEF TPDU
  <2>2. (Last(t) + 1) % IndexRange = Last(t) + 1
    <3>1. Last(t) \in Nat /\ Last(t) + 2 < IndexRange
      BY FrameFacts
    <3> QED BY <3>1, TpTransmitAssumption
  <2> QED BY <1>1, <2>1, <2>2
<1>5. CountedOf(t, pc[h], index[h])' /\ WrittenOf(t, pc[h], written[h])'
  BY <1>1, <1>4 DEF CountedOf, WrittenOf, Counted, Writing
<1> QED BY <1>1, <1>3, <1>5 DEF IntactOf

\* The checksum is made of the telegram's octets and put behind them.
LEMMA IntactFCS ==
  ASSUME IndexInv, NEW h \in Handlers, Intact(h), SetFCS(h)
  PROVE  Intact(h)'
<1>1. /\ UNCHANGED << telegram, IP_RxBuffer, written >>
      /\ disturbed'[h] = disturbed[h]
      /\ pc[h] = "fcs" /\ pc'[h] = "copy" /\ telegram[h] \in Telegrams
      /\ index'[h] = (index[h] + 1) % IndexRange
  BY DEF Assign, SetFCS, Step, Touch, IndexInv, TypeOK, Given
<1>2. PICK t \in Telegrams : t = telegram[h]
  BY <1>1
<1> SUFFICES ASSUME ~disturbed[h], Complete(t)
             PROVE  IntactOf(t, pc[h], index[h], written[h])'
  BY <1>1, <1>2 DEF Intact, Complete, Last
<1>3. ReceivedOf(t) /\ BuiltOf(t, "fcs") /\ index[h] = Last(t) + 1
  BY <1>1, <1>2 DEF Intact, IntactOf, CountedOf
<1>4. /\ Last(t) \in Nat /\ TPDU <= Last(t) /\ Last(t) + 2 < IndexRange
      /\ Last(t) + 1 \in Position
      /\ FrameOctet(t, Last(t) + 1) =
           Checksum([k \in 1 .. Last(t) + 1 |-> OctetOf(t, k - 1)])
  BY FrameFacts, TpTransmitAssumption DEF TPDU
<1>5. ASSUME NEW i \in 0 .. Last(t)
      PROVE  /\ L_TxBuffer[i] = OctetOf(t, i)
             /\ L_TxBuffer'[i] = L_TxBuffer[i]
  <2>1. /\ i \in 0 .. 2 \/ i \in 3 .. 4 \/ i = 5 \/ i \in TPDU .. Last(t)
        /\ i \in Position /\ i # Last(t) + 1
    BY <1>4, TpTransmitAssumption DEF TPDU, Position
  <2>2. L_TxBuffer[i] = OctetOf(t, i)
    BY <1>3, <2>1 DEF BuiltOf, AfterControl, AfterAddress, AfterLength,
       AfterTpdu, Label
  <2> QED BY <1>3, <2>1, <2>2 DEF Assign, SetFCS, Put
<1>6. L_TxBuffer'[Last(t) + 1] = FrameOctet(t, Last(t) + 1)
  <2>1. Frame(Last(t) + 1) = [k \in 1 .. Last(t) + 1 |-> OctetOf(t, k - 1)]
    <3>1. \A k \in 1 .. Last(t) + 1 : k - 1 \in 0 .. Last(t)
      BY <1>4, TpTransmitAssumption DEF TPDU
    <3>2. \A k \in 1 .. Last(t) + 1 : L_TxBuffer[k - 1] = OctetOf(t, k - 1)
      BY <1>5, <3>1
    <3> QED BY <3>2 DEF Frame
  <2>2. L_TxBuffer'[Last(t) + 1] = Checksum(Frame(Last(t) + 1))
    BY <1>3, <1>4 DEF Assign, SetFCS, Put
  <2> QED BY <1>4, <2>1, <2>2
<1>7. BuiltOf(t, pc[h])'
  <2>1. \A i \in 0 .. Last(t) : L_TxBuffer'[i] = OctetOf(t, i)
    BY <1>5
  <2>2. /\ \A i \in 0 .. 5 : i \in 0 .. Last(t)
        /\ \A i \in TPDU .. Last(t) : i \in 0 .. Last(t)
    BY <1>4, TpTransmitAssumption DEF TPDU
  <2> QED BY <1>6, <2>1, <2>2 DEF BuiltOf
<1>8. index'[h] = FrameLength(t)
  <2>1. (Last(t) + 1) + 1 = Last(t) + 2
        /\ (Last(t) + 2) % IndexRange = Last(t) + 2
    <3>1. Last(t) \in Nat /\ Last(t) + 2 < IndexRange /\ IndexRange \in Nat
      BY <1>4, TpTransmitAssumption
    <3> QED BY <3>1
  <2> QED BY <1>1, <1>3, <2>1 DEF FrameLength
<1>9. CountedOf(t, pc[h], index[h])' /\ WrittenOf(t, pc[h], written[h])'
  BY <1>1, <1>8 DEF CountedOf, WrittenOf, Writing
<1> QED BY <1>1, <1>3, <1>7, <1>9 DEF IntactOf, ReceivedOf

\* The copy that is written to the UART is the whole frame.
LEMMA IntactCopy ==
  ASSUME IndexInv, NEW h \in Handlers, Intact(h), CopyFrame(h)
  PROVE  Intact(h)'
<1>1. /\ UNCHANGED << telegram, IP_RxBuffer, L_TxBuffer, index, written >>
      /\ disturbed'[h] = disturbed[h]
      /\ pc[h] = "copy" /\ pc'[h] \in Writing /\ telegram[h] \in Telegrams
      /\ written[h] = << >>
  BY DEF CopyFrame, Step, Touch, IndexInv, TypeOK, Given, Indexed, WrittenAt,
     Writing
<1>2. PICK t \in Telegrams : t = telegram[h]
  BY <1>1
<1> SUFFICES ASSUME ~disturbed[h], Complete(t)
             PROVE  IntactOf(t, pc[h], index[h], written[h])'
  BY <1>1, <1>2 DEF Intact, Complete, Last
<1>3. ReceivedOf(t) /\ BuiltOf(t, "copy") /\ index[h] = FrameLength(t)
  BY <1>1, <1>2 DEF Intact, IntactOf, CountedOf, Counted
<1>4. /\ Last(t) \in Nat /\ TPDU <= Last(t) /\ Last(t) + 2 < IndexRange
      /\ Last(t) + 1 \in Position
      /\ \A i \in 0 .. Last(t) : FrameOctet(t, i) = OctetOf(t, i)
  BY FrameFacts
<1>5. ASSUME NEW i \in 0 .. FrameLength(t) - 1
      PROVE  TpUart2_TxBuffer'[i] = FrameOctet(t, i)
  <2>1. i \in Position /\ i < FrameLength(t)
    BY <1>4, TpTransmitAssumption DEF FrameLength, Position, TPDU
  <2>2. TpUart2_TxBuffer'[i] = L_TxBuffer[i]
    BY <1>3, <2>1 DEF CopyFrame
  <2>3. \/ i \in 0 .. 2 \/ i \in 3 .. 4 \/ i = 5 \/ i \in TPDU .. Last(t)
        \/ i = Last(t) + 1
    BY <1>4, TpTransmitAssumption DEF FrameLength, TPDU
  <2>4. i # Last(t) + 1 => i \in 0 .. Last(t)
    BY <1>4, TpTransmitAssumption DEF FrameLength, TPDU
  <2>5. L_TxBuffer[i] = FrameOctet(t, i)
    BY <1>3, <1>4, <2>3, <2>4 DEF BuiltOf, AfterControl, AfterAddress,
       AfterLength, AfterTpdu, Label
  <2> QED BY <2>2, <2>5
<1>6. WrittenOf(t, pc[h], written[h])'
  BY <1>1, <1>5 DEF WrittenOf
<1>7. /\ ReceivedOf(t)' /\ BuiltOf(t, pc[h])'
      /\ CountedOf(t, pc[h], index[h])'
  BY <1>1, <1>3 DEF ReceivedOf, BuiltOf, CountedOf, AfterControl, AfterAddress,
     AfterLength, AfterTpdu, Label, Writing
<1> QED BY <1>6, <1>7 DEF IntactOf

\* The next service is the telegram's next service.
LEMMA IntactService ==
  ASSUME IndexInv, [Next]_vars, NEW h \in Handlers, Intact(h), WriteService(h)
  PROVE  Intact(h)'
<1>1. /\ UNCHANGED << telegram, buffers, index >>
      /\ disturbed'[h] = disturbed[h]
      /\ pc[h] = "service" /\ pc'[h] \in Writing /\ telegram[h] \in Telegrams
  BY DEF WriteService, Step, Touch, IndexInv, TypeOK, Given, Writing
<1>2. PICK t \in Telegrams : t = telegram[h]
  BY <1>1
<1> SUFFICES ASSUME ~disturbed[h], Complete(t)
             PROVE  IntactOf(t, pc[h], index[h], written[h])'
  BY <1>1, <1>2 DEF Intact, Complete, Last
<1>3. /\ ReceivedOf(t) /\ BuiltOf(t, "service") /\ index[h] = FrameLength(t)
      /\ \A i \in 0 .. FrameLength(t) - 1 : TpUart2_TxBuffer[i] = FrameOctet(t, i)
      /\ \A k \in 1 .. Len(written[h]) : written[h][k] = ServiceOf(t, k)
  BY <1>1, <1>2 DEF Intact, IntactOf, CountedOf, Counted, WrittenOf, Writing
<1>4. ASSUME NEW k \in 1 .. Len(written'[h])
      PROVE  written'[h][k] = ServiceOf(t, k)
  <2>1. CASE k \in 1 .. Len(written[h]) /\ written'[h][k] = written[h][k]
    BY <1>3, <2>1
  <2>2. CASE /\ k = Len(written[h]) + 1
             /\ Len(written[h]) \in Nat /\ Len(written[h]) < index[h]
             /\ written'[h][k] = Service(k - 1, index[h])
    <3> DEFINE n == FrameLength(t)
    <3>1. Last(t) \in Nat
      BY FrameFacts
    <3>2. /\ k \in 1 .. n /\ k - 1 \in 0 .. n - 1 /\ n \in Nat
          /\ (k - 1 = 0) = (k = 1) /\ (k - 1 = n - 1) = (k = n)
      BY <1>3, <2>2, <3>1 DEF FrameLength
    <3>3. TpUart2_TxBuffer[k - 1] = FrameOctet(t, k - 1)
      BY <1>3, <3>2
    <3>4. Service(k - 1, n) =
            IF k = 1 THEN U_L_DataStart(FrameOctet(t, k - 1))
            ELSE IF k = n THEN U_L_DataEnd(n - 1, FrameOctet(t, k - 1))
            ELSE U_L_DataContinue(k - 1, FrameOctet(t, k - 1))
      BY <3>2, <3>3 DEF Service
    <3> QED BY <1>3, <2>2, <3>2, <3>4, ServiceFacts
  <2> QED BY <2>1, <2>2, Wrote
<1>5. WrittenOf(t, pc[h], written[h])'
  BY <1>1, <1>3, <1>4 DEF WrittenOf, buffers
<1>6. /\ ReceivedOf(t)' /\ BuiltOf(t, pc[h])'
      /\ CountedOf(t, pc[h], index[h])'
  BY <1>1, <1>3 DEF ReceivedOf, BuiltOf, CountedOf, AfterControl, AfterAddress,
     AfterLength, AfterTpdu, Label, buffers, Writing
<1> QED BY <1>5, <1>6 DEF IntactOf

\* A step of a task keeps what another one relies on, or disturbs it.
LEMMA IntactOther ==
  ASSUME IndexInv, NEW h \in Handlers, NEW g \in Handlers, g # h, Intact(g),
         HandlerStep(h) \/ \E t \in Telegrams : Tunnel(h, t)
  PROVE  Intact(g)'
<1>1. UNCHANGED << pc[g], telegram[g], index[g], written[g] >>
  BY DEF Assign, IndexInv, TypeOK, Indexed, HandlerStep, Step, Tunnel,
     SetControlAndSource, SetDestination, SetLength, CopyTpdu, AdvanceIndex,
     SetFCS, CopyFrame, WriteService, Return
<1>2. CASE Touch(h)
  <2>1. pc[g] # "idle" => disturbed'[g]
    BY <1>2 DEF Touch
  <2> QED BY <1>1, <2>1, IntactOthers
<1>3. CASE AdvanceIndex(h) \/ Return(h)
  <2>1. UNCHANGED << buffers, disturbed[g] >>
    BY <1>3 DEF AdvanceIndex, Return, IndexInv, TypeOK
  <2> QED BY <1>1, <2>1, IntactOthers
<1> QED BY <1>2, <1>3 DEF Assign, HandlerStep, Tunnel, SetControlAndSource,
        SetDestination, SetLength, CopyTpdu, SetFCS, CopyFrame, WriteService

\* Every step keeps what an undisturbed task relies on.
LEMMA IntactStep == IndexInv /\ IntactInv /\ [Next]_vars => IntactInv'
<1> SUFFICES ASSUME IndexInv, IntactInv, [Next]_vars, NEW g \in Handlers
             PROVE  Intact(g)'
  BY DEF IntactInv
<1>1. Intact(g)
  BY DEF IntactInv
<1>2. ASSUME NEW h \in Handlers, NEW t \in Telegrams, Tunnel(h, t)
      PROVE  Intact(g)'
  BY <1>1, <1>2, IntactTunnel, IntactOther
<1>3. ASSUME HandlerStep(g) PROVE Intact(g)'
  <2>1. CASE Return(g)
    BY <2>1 DEF Return, Step, IndexInv, TypeOK, Intact
  <2> QED BY <1>1, <1>3, <2>1, IntactHead, IntactAdvance, IntactFCS, IntactCopy,
          IntactService DEF HandlerStep
<1>4. ASSUME NEW h \in Handlers, h # g, HandlerStep(h) PROVE Intact(g)'
  BY <1>1, <1>4, IntactOther
<1>5. CASE U_PollingState
  BY <1>1, <1>5, IntactOthers DEF U_PollingState
<1>6. CASE UNCHANGED vars
  BY <1>1, <1>6, IntactOthers DEF vars
<1> QED BY <1>2, <1>3, <1>4, <1>5, <1>6 DEF Next

\* A complete telegram no other task interferes with reaches the TP-UART
\* complete, in order and with the checksum of its own octets, whatever was in
\* the buffers.
THEOREM UndisturbedIsIntact == Spec => []UndisturbedTelegramIsIntact
<1>1. Init => IntactInv
  BY DEF Init, IntactInv, Intact
<1>2. IndexInv /\ IntactInv => UndisturbedTelegramIsIntact
  <2> SUFFICES ASSUME IndexInv, IntactInv, NEW h \in Handlers,
                      pc[h] = "done", ~disturbed[h], Complete(telegram[h])
               PROVE  written[h] = ServicesOf(telegram[h])
    BY DEF UndisturbedTelegramIsIntact
  <2>1. PICK t \in Telegrams : t = telegram[h]
    BY DEF IndexInv, Given
  <2>2. /\ Len(written[h]) = FrameLength(t)
        /\ \A k \in 1 .. Len(written[h]) : written[h][k] = ServiceOf(t, k)
    BY <2>1 DEF IntactInv, Intact, IntactOf, CountedOf, WrittenOf, Counted,
       Writing, IndexInv, Indexed, WrittenAt
  <2>5. Complete(t)
    BY <2>1
  <2>3. PICK S : written[h] \in Seq(S)
    BY DEF IndexInv, Indexed, WrittenAt
  <2>4. written[h] = [k \in 1 .. Len(written[h]) |-> written[h][k]]
    BY <2>3
  <2> QED BY <2>1, <2>2, <2>4, <2>5, ServiceFacts
<1> QED BY IndexAlways, <1>1, IntactStep, <1>2, PTL DEF Spec
=============================================================================
