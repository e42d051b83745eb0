---------------------------- MODULE IpAnswersProofs ----------------------------
(***************************************************************************)
(* What a client is answered, for any identifiers, values, connection      *)
(* types and addresses, and for telegrams of any size IP_RxBuffer takes.   *)
(*                                                                         *)
(* The table.  canHold is the clients' view of it.  The invariant relates  *)
(* the two: what the table holds was left by the sets that have been       *)
(* answered, or stored by one that has not (TableIsKnown).  For a handler  *)
(* that works on a feature this gives two bounds on the table that last    *)
(* until it returns: one from the values known when it was asked           *)
(* (SinceAsked), and, once it has set the feature itself, a closer one     *)
(* (SinceStored), which is what canHold becomes when it returns.           *)
(*                                                                         *)
(* The octets.  A section of a frame is a sequence of octets that can be   *)
(* skipped through by the structure lengths and names no tunnel but        *)
(* 0x11FA.  Every block is one; two sections with different blocks join to *)
(* one; and so every answer is one, with a header that announces its       *)
(* length.  The telegram a client tunnels is not: the source it gives can  *)
(* be anything.  What is kept of it is that nothing behind its headers is  *)
(* a block and that it names a tunnel in two octets only, those an         *)
(* L_Data.con writes over.                                                 *)
(***************************************************************************)
EXTENDS IpAnswers, SequenceTheorems, FiniteSetTheorems, TLAPS

\* TypeOK without the octets of the answers.
TableTyped ==
  /\ pc \in [Handlers -> { "idle", "switch", "build", "answered" }]
  /\ req \in [Handlers -> Request \cup {NoRequest}]
  /\ featureValue \in [Handlers -> Word]
  /\ KNXnetIP_TunnellingFeature \in [Feature -> Word]
  /\ canHold \in [Feature -> SUBSET Word]
  /\ before \in [Handlers -> SUBSET Word]
  /\ overlap \in [Handlers -> SUBSET Word]

\* Handler h works on feature f.
WorksOn(h, f) == req[h] \in FeatureRequest /\ req[h].id = f
Sets(h, f)    == WorksOn(h, f) /\ IsSet(req[h])

\* What h stores, and whether it has.
Value(h, f)     == Stored(f, req[h].value)
HasStored(h, f) == Sets(h, f) /\ pc[h] \in { "build", "answered" }

AtLabels ==
  \A h \in Handlers :
    /\ (pc[h] = "idle") <=> (req[h] = NoRequest)
    /\ pc[h] = "switch" => req[h] \in FeatureRequest

TableIsKnown ==
  \A f \in Feature :
    \/ KNXnetIP_TunnellingFeature[f] \in canHold[f]
    \/ \E h \in Handlers :
         HasStored(h, f) /\ KNXnetIP_TunnellingFeature[f] = Value(h, f)

OverlapIsKnown ==
  \A h \in Handlers, g \in Handlers, f \in Feature :
    h # g /\ WorksOn(h, f) /\ Sets(g, f) => Value(g, f) \in overlap[h]

SinceAsked ==
  \A h \in Handlers, f \in Feature :
    WorksOn(h, f) =>
      \/ KNXnetIP_TunnellingFeature[f] \in before[h] \cup overlap[h]
      \/ HasStored(h, f) /\ KNXnetIP_TunnellingFeature[f] = Value(h, f)

SinceStored ==
  \A h \in Handlers, f \in Feature :
    HasStored(h, f) =>
      KNXnetIP_TunnellingFeature[f] \in { Value(h, f) } \cup overlap[h]

\* What a get has looked up, and what it answers.
LookedUp ==
  \A h \in Handlers, f \in Feature :
    WorksOn(h, f) /\ IsGet(req[h]) /\ pc[h] \in { "build", "answered" } =>
      featureValue[h] \in before[h] \cup overlap[h]

LastOf(s) == s[Len(s)]

Answered ==
  /\ answer = [h \in Handlers |-> answer[h]]
  /\ \A h \in Handlers :
       pc[h] = "answered" /\ IsGet(req[h]) =>
         LastOf(answer[h]).value = featureValue[h] % 256

TableInv ==
  /\ TableTyped /\ AtLabels
  /\ TableIsKnown /\ OverlapIsKnown /\ SinceAsked /\ SinceStored /\ LookedUp

-----------------------------------------------------------------------------
\* The requests.
LEMMA UpTo == \A m \in Nat : \A v : v \in 0 .. m <=> v \in Nat /\ v <= m
  OBVIOUS

\* The bound stays a name in the proof: the provers enumerate an interval of
\* numerals.
LEMMA WordIs == \A v : v \in Word <=> v \in Nat /\ v <= 65535
<1> DEFINE max == 65535
<1>1. Word = 0 .. max
  BY DEF Word
<1>2. max \in Nat
  OBVIOUS
<1> HIDE DEF max
<1>3. \A v : v \in Word <=> v \in Nat /\ v <= max
  BY <1>1, <1>2, UpTo, Zenon
<1>4. QED
  BY <1>3 DEF max

LEMMA OctetIsWord ==
  ASSUME NEW v \in 0 .. 255
  PROVE  v \in Word
  BY WordIs

LEMMA StoredIsOctet ==
  ASSUME NEW f, NEW v \in 0 .. 255
  PROVE  Stored(f, v) \in 0 .. 255
<1>1. Stored(f, v) = v \/ Stored(f, v) = 1
  BY DEF Stored
<1>2. QED
  BY <1>1

LEMMA FeatureValues ==
  ASSUME NEW r \in FeatureRequest
  PROVE  /\ r \in Request /\ r # NoRequest
         /\ r.id \in 0 .. 255 /\ r.value \in 0 .. 255
         /\ IsGet(r) <=> ~IsSet(r)
         /\ \A f \in Feature : Stored(f, r.value) \in Word
<1>1. r \in Request /\ r # NoRequest
  BY NoRequestAssumption DEF Request
<1>2. r.id \in 0 .. 255 /\ r.value \in 0 .. 255
  <2>1. r.id \in Identifiers /\ (r.value = 0 \/ r.value \in Values)
    BY DEF FeatureRequest
  <2>2. /\ \A v \in Identifiers : v \in 0 .. 255
        /\ \A v \in Values : v \in 0 .. 255
    BY IpAnswersAssumption
  <2>3. QED
    BY <2>1, <2>2
<1>3. IsGet(r) <=> ~IsSet(r)
  BY DEF IsGet, IsSet, FeatureRequest
<1>4. \A f \in Feature : Stored(f, r.value) \in Word
  BY <1>2, StoredIsOctet, OctetIsWord, Zenon
<1>5. QED
  BY <1>1, <1>2, <1>3, <1>4

LEMMA NoRequestWorks ==
  ASSUME NEW h, NEW f, req[h] = NoRequest
  PROVE  ~WorksOn(h, f)
  BY FeatureValues DEF WorksOn

LEMMA InitTable == Init => TableInv
<1> SUFFICES ASSUME Init PROVE TableInv
  OBVIOUS
<1>1. TunnellingInit \in [Feature -> Word]
  <2> SUFFICES ASSUME NEW f \in Feature PROVE TunnellingInit[f] \in Word
    BY DEF TunnellingInit
  <2>1. f \in 1 .. 5 \/ f = 8
    BY DEF Feature, INFO_SERVICE_EN
  <2>2. CASE f = 8
    BY <2>2 DEF TunnellingInit, Word, INFO_SERVICE_EN
  <2>3. CASE f \in 1 .. 5
    <3>1. TunnellingInit[f] = << 4, 22277, 1, 131, 3 >>[f]
      BY <2>3 DEF TunnellingInit, INFO_SERVICE_EN
    <3>2. TunnellingInit[f] \in { 4, 22277, 1, 131, 3 }
      BY <3>1, <2>3
    <3>3. 4 \in Word /\ 1 \in Word /\ 131 \in Word /\ 3 \in Word
      BY OctetIsWord
    <3>4. 22277 \in Word
      BY DEF Word
    <3>5. QED
      BY <3>2, <3>3, <3>4
  <2>4. QED
    BY <2>1, <2>2, <2>3
<1>2. TableTyped
  <2>1. 0 \in Word
    BY DEF Word
  <2>2. QED
    BY <1>1, <2>1 DEF Init, TableTyped
<1>3. \A h \in Handlers, f \in Feature : ~WorksOn(h, f)
  BY NoRequestWorks DEF Init
<1>4. AtLabels /\ TableIsKnown
  BY <1>1 DEF Init, AtLabels, TableIsKnown
<1>5. QED
  BY <1>2, <1>3, <1>4
  DEF TableInv, OverlapIsKnown, SinceAsked, SinceStored, HasStored, Sets, LookedUp

-----------------------------------------------------------------------------
\* A step of h leaves alone what another handler works on.
LEMMA OthersKeep ==
  ASSUME NEW h \in Handlers, NEW g \in Handlers, g # h, NEW f \in Feature,
         pc'[g] = pc[g], req'[g] = req[g]
  PROVE  /\ WorksOn(g, f)' = WorksOn(g, f) /\ Sets(g, f)' = Sets(g, f)
         /\ HasStored(g, f)' = HasStored(g, f) /\ Value(g, f)' = Value(g, f)
  BY DEF WorksOn, Sets, HasStored, Value

LEMMA ReceiveTable ==
  ASSUME TableInv, NEW h \in Handlers, NEW r \in Request, Receive(h, r)
  PROVE  TableInv'
<1>1. /\ pc[h] = "idle" /\ req[h] = NoRequest /\ req'[h] = r
      /\ pc'[h] \in { "switch", "build" }
      /\ r \in FeatureRequest <=> pc'[h] = "switch"
      /\ \A g \in Handlers : g # h => pc'[g] = pc[g] /\ req'[g] = req[g]
      /\ UNCHANGED << featureValue, KNXnetIP_TunnellingFeature, canHold >>
  BY DEF Receive, TableInv, TableTyped, AtLabels
<1>2. /\ \A f \in Feature : ~WorksOn(h, f) /\ ~Sets(h, f) /\ ~HasStored(h, f)
      /\ \A f \in Feature : ~HasStored(h, f)'
  BY <1>1, NoRequestWorks DEF Sets, HasStored, WorksOn, IsSet
<1>3. \A g \in Handlers : g # h => before'[g] = before[g]
  BY DEF Receive, TableInv, TableTyped
<1>4. \A g \in Handlers : g # h =>
        /\ overlap[g] \subseteq overlap'[g]
        /\ \A f \in Feature : WorksOn(g, f) /\ Sets(h, f)' => Value(h, f)' \in overlap'[g]
  BY <1>1 DEF Receive, TableInv, TableTyped, WorksOn, Sets, Value, IsSet
<1>5. ASSUME NEW f \in Feature, WorksOn(h, f)'
      PROVE  before'[h] = canHold[f] /\ overlap'[h] = UnderWay(h, f)
  BY <1>1, <1>5 DEF Receive, TableInv, TableTyped, WorksOn
<1>6. \A f \in Feature, g \in Handlers : g # h /\ Sets(g, f) => Value(g, f) \in UnderWay(h, f)
  BY DEF Sets, WorksOn, Value, UnderWay
<1>7. \A f \in Feature : UnderWay(h, f) \subseteq Word
  BY FeatureValues DEF UnderWay, IsSet
<1>8. TableTyped'
  <2>1. /\ pc' \in [Handlers -> { "idle", "switch", "build", "answered" }]
        /\ req' \in [Handlers -> Request \cup {NoRequest}]
    BY DEF Receive, TableInv, TableTyped
  <2>2. before' \in [Handlers -> SUBSET Word]
    BY DEF Receive, TableInv, TableTyped
  <2>3. overlap' \in [Handlers -> SUBSET Word]
    BY <1>7, FeatureValues DEF Receive, TableInv, TableTyped
  <2>4. QED
    BY <1>1, <2>1, <2>2, <2>3 DEF TableInv, TableTyped
<1>9. AtLabels'
  BY <1>1, NoRequestAssumption DEF TableInv, AtLabels
<1>10. TableIsKnown'
  BY <1>1, <1>2, OthersKeep DEF TableInv, TableIsKnown
<1>11. OverlapIsKnown'
  BY <1>1, <1>2, <1>4, <1>5, <1>6, OthersKeep DEF TableInv, OverlapIsKnown
<1>12. SinceAsked'
  <2> SUFFICES ASSUME NEW g \in Handlers, NEW f \in Feature, WorksOn(g, f)'
               PROVE  \/ KNXnetIP_TunnellingFeature'[f] \in before'[g] \cup overlap'[g]
                      \/ HasStored(g, f)' /\ KNXnetIP_TunnellingFeature'[f] = Value(g, f)'
    BY DEF SinceAsked
  <2>1. CASE g = h
    BY <2>1, <1>1, <1>2, <1>5, <1>6 DEF TableInv, TableIsKnown, HasStored
  <2>2. CASE g # h
    BY <2>2, <1>1, <1>3, <1>4, OthersKeep DEF TableInv, SinceAsked
  <2>3. QED
    BY <2>1, <2>2
<1>13. SinceStored' /\ LookedUp'
  BY <1>1, <1>2, <1>3, <1>4, OthersKeep
  DEF TableInv, SinceStored, LookedUp, HasStored, WorksOn
<1>14. QED
  BY <1>8, <1>9, <1>10, <1>11, <1>12, <1>13 DEF TableInv

LEMMA FeatureGetTable ==
  ASSUME TableInv, NEW h \in Handlers, FeatureGet(h)
  PROVE  TableInv'
<1>1. /\ pc[h] = "switch" /\ pc'[h] = "build" /\ IsGet(req[h])
      /\ \A g \in Handlers : g # h =>
           pc'[g] = pc[g] /\ featureValue'[g] = featureValue[g]
      /\ UNCHANGED << req, KNXnetIP_TunnellingFeature, canHold, before, overlap >>
  BY DEF FeatureGet, TableInv, TableTyped
<1>2. \A f \in Feature : WorksOn(h, f) =>
        featureValue'[h] = KNXnetIP_TunnellingFeature[f]
  BY DEF FeatureGet, TableInv, TableTyped, WorksOn
<1>3. \A f \in Feature : ~Sets(h, f)
  BY <1>1, FeatureValues DEF Sets, WorksOn
<1>4. \A g \in Handlers, f \in Feature :
        /\ WorksOn(g, f)' = WorksOn(g, f) /\ Sets(g, f)' = Sets(g, f)
        /\ HasStored(g, f)' = HasStored(g, f) /\ Value(g, f)' = Value(g, f)
  BY <1>1, <1>3 DEF WorksOn, Sets, HasStored, Value
<1>5. TableTyped'
  <2>1. featureValue' \in [Handlers -> Word]
    BY OctetIsWord DEF FeatureGet, TableInv, TableTyped
  <2>2. pc' \in [Handlers -> { "idle", "switch", "build", "answered" }]
    BY DEF FeatureGet, TableInv, TableTyped
  <2>3. QED
    BY <1>1, <2>1, <2>2 DEF TableInv, TableTyped
<1>6. AtLabels'
  BY <1>1 DEF TableInv, AtLabels
<1>7. TableIsKnown' /\ OverlapIsKnown' /\ SinceAsked' /\ SinceStored'
  BY <1>1, <1>4
  DEF TableInv, TableIsKnown, OverlapIsKnown, SinceAsked, SinceStored
<1>8. LookedUp'
  BY <1>1, <1>2, <1>3, <1>4 DEF TableInv, LookedUp, SinceAsked, HasStored
<1>9. QED
  BY <1>5, <1>6, <1>7, <1>8 DEF TableInv

\* The value stored is one the other handlers on this feature know to be under
\* way.
LEMMA FeatureSetTable ==
  ASSUME TableInv, NEW h \in Handlers, FeatureSet(h)
  PROVE  TableInv'
<1>1. /\ pc[h] = "switch" /\ pc'[h] = "build" /\ IsSet(req[h])
      /\ req[h] \in FeatureRequest
      /\ \A g \in Handlers : g # h =>
           pc'[g] = pc[g] /\ featureValue'[g] = featureValue[g]
      /\ UNCHANGED << req, canHold, before, overlap >>
  BY DEF FeatureSet, TableInv, TableTyped, IsSet
<1>2. \A f \in Feature : WorksOn(h, f) =>
        KNXnetIP_TunnellingFeature'[f] = Value(h, f)
  BY DEF FeatureSet, TableInv, TableTyped, WorksOn, Value
<1>3. \A f \in Feature : ~WorksOn(h, f) =>
        KNXnetIP_TunnellingFeature'[f] = KNXnetIP_TunnellingFeature[f]
  BY <1>1 DEF FeatureSet, TableInv, TableTyped, WorksOn
<1>4. \A g \in Handlers, f \in Feature :
        /\ WorksOn(g, f)' = WorksOn(g, f) /\ Sets(g, f)' = Sets(g, f)
        /\ Value(g, f)' = Value(g, f)
        /\ g # h => HasStored(g, f)' = HasStored(g, f)
  BY <1>1 DEF WorksOn, Sets, HasStored, Value
<1>5. \A f \in Feature : HasStored(h, f)' = WorksOn(h, f)
  BY <1>1 DEF WorksOn, Sets, HasStored
<1>6. TableTyped'
  <2>1. req[h].value \in Word
    BY <1>1, FeatureValues, OctetIsWord, SMTT(30)
  <2>2. featureValue' \in [Handlers -> Word]
    BY <2>1 DEF FeatureSet, TableInv, TableTyped
  <2>3. KNXnetIP_TunnellingFeature' \in [Feature -> Word]
    BY <1>1, FeatureValues DEF FeatureSet, TableInv, TableTyped
  <2>4. pc' \in [Handlers -> { "idle", "switch", "build", "answered" }]
    BY DEF FeatureSet, TableInv, TableTyped
  <2>5. QED
    BY <1>1, <2>2, <2>3, <2>4 DEF TableInv, TableTyped
<1>7. AtLabels'
  BY <1>1 DEF TableInv, AtLabels
<1>8. OverlapIsKnown'
  BY <1>1, <1>4 DEF TableInv, OverlapIsKnown
<1>9. TableIsKnown'
  <2> SUFFICES ASSUME NEW f \in Feature
               PROVE  \/ KNXnetIP_TunnellingFeature'[f] \in canHold'[f]
                      \/ \E g \in Handlers :
                           HasStored(g, f)' /\ KNXnetIP_TunnellingFeature'[f] = Value(g, f)'
    BY DEF TableIsKnown
  <2>1. CASE WorksOn(h, f)
    BY <2>1, <1>2, <1>4, <1>5
  <2>2. CASE ~WorksOn(h, f)
    <3>1. KNXnetIP_TunnellingFeature'[f] = KNXnetIP_TunnellingFeature[f]
      BY <2>2, <1>3
    <3>2. CASE KNXnetIP_TunnellingFeature[f] \in canHold[f]
      BY <3>1, <3>2, <1>1
    <3>3. CASE \E g \in Handlers :
                 HasStored(g, f) /\ KNXnetIP_TunnellingFeature[f] = Value(g, f)
      BY <3>1, <3>3, <2>2, <1>4 DEF HasStored, Sets
    <3>4. QED
      BY <3>2, <3>3 DEF TableInv, TableIsKnown
  <2>3. QED
    BY <2>1, <2>2
<1>10. ASSUME NEW g \in Handlers, NEW f \in Feature, g # h, WorksOn(g, f),
              WorksOn(h, f)
       PROVE  KNXnetIP_TunnellingFeature'[f] \in overlap[g]
  BY <1>1, <1>2, <1>10 DEF TableInv, OverlapIsKnown, Sets
<1>11. SinceAsked'
  <2> SUFFICES ASSUME NEW g \in Handlers, NEW f \in Feature, WorksOn(g, f)'
               PROVE  \/ KNXnetIP_TunnellingFeature'[f] \in before'[g] \cup overlap'[g]
                      \/ HasStored(g, f)' /\ KNXnetIP_TunnellingFeature'[f] = Value(g, f)'
    BY DEF SinceAsked
  <2>1. CASE g = h
    BY <2>1, <1>2, <1>4, <1>5
  <2>2. CASE g # h /\ WorksOn(h, f)
    BY <2>2, <1>1, <1>4, <1>10
  <2>3. CASE g # h /\ ~WorksOn(h, f)
    BY <2>3, <1>1, <1>3, <1>4 DEF TableInv, SinceAsked
  <2>4. QED
    BY <2>1, <2>2, <2>3
<1>12. SinceStored'
  <2> SUFFICES ASSUME NEW g \in Handlers, NEW f \in Feature, HasStored(g, f)'
               PROVE  KNXnetIP_TunnellingFeature'[f]
                        \in { Value(g, f)' } \cup overlap'[g]
    BY DEF SinceStored
  <2>1. CASE g = h
    BY <2>1, <1>2, <1>4, <1>5
  <2>2. CASE g # h /\ WorksOn(h, f)
    BY <2>2, <1>1, <1>4, <1>10 DEF HasStored, Sets
  <2>3. CASE g # h /\ ~WorksOn(h, f)
    BY <2>3, <1>1, <1>3, <1>4 DEF TableInv, SinceStored
  <2>4. QED
    BY <2>1, <2>2, <2>3
<1>13. LookedUp'
  BY <1>1, <1>4, FeatureValues DEF TableInv, LookedUp
<1>14. QED
  BY <1>6, <1>7, <1>8, <1>9, <1>11, <1>12, <1>13 DEF TableInv

LEMMA BuildTable ==
  ASSUME TableInv, NEW h \in Handlers, Build(h)
  PROVE  TableInv'
<1>1. /\ pc[h] = "build" /\ pc'[h] = "answered"
      /\ \A g \in Handlers : g # h => pc'[g] = pc[g]
      /\ UNCHANGED << req, featureValue, KNXnetIP_TunnellingFeature, canHold,
                      before, overlap >>
  BY DEF Build, TableInv, TableTyped
<1>2. \A g \in Handlers, f \in Feature :
        /\ WorksOn(g, f)' = WorksOn(g, f) /\ Sets(g, f)' = Sets(g, f)
        /\ HasStored(g, f)' = HasStored(g, f) /\ Value(g, f)' = Value(g, f)
  BY <1>1 DEF WorksOn, Sets, HasStored, Value
<1>3. pc' \in [Handlers -> { "idle", "switch", "build", "answered" }]
  BY DEF Build, TableInv, TableTyped
<1>4. TableTyped' /\ AtLabels'
  BY <1>1, <1>3 DEF TableInv, TableTyped, AtLabels
<1>5. TableIsKnown' /\ OverlapIsKnown' /\ SinceAsked' /\ SinceStored'
  BY <1>1, <1>2
  DEF TableInv, TableIsKnown, OverlapIsKnown, SinceAsked, SinceStored
<1>6. LookedUp'
  BY <1>1, <1>2 DEF TableInv, LookedUp
<1>7. QED
  BY <1>4, <1>5, <1>6 DEF TableInv

\* What SinceStored says of the table is what canHold becomes.
LEMMA ReturnTable ==
  ASSUME TableInv, NEW h \in Handlers, Return(h)
  PROVE  TableInv'
<1>1. /\ pc[h] = "answered" /\ pc'[h] = "idle" /\ req'[h] = NoRequest
      /\ \A g \in Handlers : g # h =>
           /\ pc'[g] = pc[g] /\ req'[g] = req[g] /\ featureValue'[g] = featureValue[g]
           /\ before'[g] = before[g] /\ overlap'[g] = overlap[g]
      /\ UNCHANGED KNXnetIP_TunnellingFeature
  BY DEF Return, TableInv, TableTyped
<1>2. \A f \in Feature : ~WorksOn(h, f)' /\ ~Sets(h, f)' /\ ~HasStored(h, f)'
  <2>1. NoRequest \notin FeatureRequest
    BY FeatureValues
  <2>2. QED
    BY <1>1, <2>1 DEF WorksOn, Sets, HasStored
<1>3. \A f \in Feature :
        canHold'[f] = IF Sets(h, f) THEN { Value(h, f) } \cup overlap[h] ELSE canHold[f]
  BY DEF Return, TableInv, TableTyped, Sets, WorksOn, Value, IsSet
<1>4. TableTyped'
  <2>1. \A f \in Feature : Sets(h, f) => Value(h, f) \in Word
    BY FeatureValues DEF Sets, WorksOn, Value
  <2>2. canHold' \in [Feature -> SUBSET Word]
    <3>1. \A f \in Feature : canHold'[f] \subseteq Word
      BY <1>3, <2>1 DEF TableInv, TableTyped
    <3>2. canHold' = [f \in Feature |-> canHold'[f]]
      BY DEF Return, TableInv, TableTyped
    <3>3. QED
      BY <3>1, <3>2
  <2>3. 0 \in Word
    BY OctetIsWord
  <2>4. /\ featureValue' \in [Handlers -> Word]
        /\ before' \in [Handlers -> SUBSET Word]
        /\ overlap' \in [Handlers -> SUBSET Word]
    BY <2>3 DEF Return, TableInv, TableTyped
  <2>5. /\ pc' \in [Handlers -> { "idle", "switch", "build", "answered" }]
        /\ req' \in [Handlers -> Request \cup {NoRequest}]
    BY DEF Return, TableInv, TableTyped
  <2>6. QED
    BY <1>1, <2>2, <2>4, <2>5 DEF TableInv, TableTyped
<1>5. AtLabels'
  BY <1>1 DEF TableInv, AtLabels
<1>6. TableIsKnown'
  <2> SUFFICES ASSUME NEW f \in Feature
               PROVE  \/ KNXnetIP_TunnellingFeature[f] \in canHold'[f]
                      \/ \E g \in Handlers :
                           HasStored(g, f)' /\ KNXnetIP_TunnellingFeature[f] = Value(g, f)'
    BY <1>1 DEF TableIsKnown
  <2>1. CASE Sets(h, f)
    BY <2>1, <1>1, <1>3 DEF TableInv, SinceStored, HasStored
  <2>2. CASE ~Sets(h, f)
    <3>1. CASE KNXnetIP_TunnellingFeature[f] \in canHold[f]
      BY <3>1, <2>2, <1>3
    <3>2. ASSUME NEW g \in Handlers, HasStored(g, f),
                 KNXnetIP_TunnellingFeature[f] = Value(g, f)
          PROVE  HasStored(g, f)' /\ KNXnetIP_TunnellingFeature[f] = Value(g, f)'
      <4>1. g # h
        BY <3>2, <2>2 DEF HasStored
      <4>2. QED
        BY <4>1, <3>2, <1>1, OthersKeep
    <3>3. QED
      BY <3>1, <3>2 DEF TableInv, TableIsKnown
  <2>3. QED
    BY <2>1, <2>2
<1>7. OverlapIsKnown' /\ SinceAsked' /\ SinceStored'
  BY <1>1, <1>2, OthersKeep
  DEF TableInv, OverlapIsKnown, SinceAsked, SinceStored
<1>8. LookedUp'
  BY <1>1, <1>2, OthersKeep DEF TableInv, LookedUp
<1>9. QED
  BY <1>4, <1>5, <1>6, <1>7, <1>8 DEF TableInv

LEMMA TableNext == TableInv /\ [Next]_vars => TableInv'
<1> SUFFICES ASSUME TableInv, [Next]_vars PROVE TableInv'
  OBVIOUS
<1>1. CASE \E h \in Handlers, r \in Request : Receive(h, r)
  BY <1>1, ReceiveTable
<1>2. CASE \E h \in Handlers : FeatureGet(h) \/ FeatureSet(h) \/ Build(h) \/ Return(h)
  BY <1>2, FeatureGetTable, FeatureSetTable, BuildTable, ReturnTable
<1>3. CASE UNCHANGED vars
  BY <1>3
  DEF vars, TableInv, TableTyped, AtLabels, TableIsKnown, OverlapIsKnown, SinceAsked,
      SinceStored, LookedUp, WorksOn, Sets, HasStored, Value
<1>4. QED
  BY <1>1, <1>2, <1>3 DEF Next

LEMMA TableInvariant == Spec => []TableInv
  BY InitTable, TableNext, PTL DEF Spec

-----------------------------------------------------------------------------
\* Pieces of a frame: octets with values that fit, and how many.
Piece(s, n) == s \in Seq(FrameOctet) /\ Len(s) = n

\* u has the m octets of s and then the n octets of t.
Joins(u, s, m, t, n) ==
  /\ Piece(u, m + n)
  /\ \A i \in 1 .. m : u[i] = s[i]
  /\ \A i \in m + 1 .. m + n : u[i] = t[i - m]

LEMMA Joined ==
  ASSUME NEW m \in Nat, NEW n \in Nat, NEW s, NEW t, Piece(s, m), Piece(t, n)
  PROVE  Joins(s \o t, s, m, t, n)
<1>1. /\ Piece(s \o t, m + n)
      /\ \A i \in 1 .. m + n : (s \o t)[i] = IF i <= m THEN s[i] ELSE t[i - m]
  BY ConcatProperties DEF Piece
<1>2. /\ \A i \in 1 .. m : i \in 1 .. m + n /\ i <= m
      /\ \A i \in m + 1 .. m + n : i \in 1 .. m + n /\ ~ (i <= m)
  OBVIOUS
<1>3. QED
  BY <1>1, <1>2, Zenon DEF Joins

LEMMA OctetsFit ==
  ASSUME NEW n \in Nat, NEW s, Piece(s, n), NEW i \in 1 .. n
  PROVE  s[i] \in FrameOctet /\ s[i].value \in 0 .. 255
<1>1. s[i] \in FrameOctet
  BY DEF Piece
<1>2. QED
  BY <1>1 DEF FrameOctet

\* Wherever two octets of s name the tunnel, they name it 0x11FA.
NamesTunnel(s, n) ==
  \A i \in 1 .. n - 1 :
    s[i].field = "TunnelAddress" /\ s[i + 1].field = "TunnelAddress"
      => s[i].value = 17 /\ s[i + 1].value = 250

\* Octets of block b, none of which names the tunnel.
Part(s, n, b) ==
  /\ Piece(s, n)
  /\ \A i \in 1 .. n : s[i].block = b /\ s[i].field # "TunnelAddress"

\* The first n octets of a block b that announces v of them.
Opening(s, n, b, v) ==
  /\ Piece(s, n) /\ n > 0
  /\ s[1].field = "StructureLength" /\ s[1].value = v
  /\ \A i \in 1 .. n : s[i].block = b
  /\ NamesTunnel(s, n)

LEMMA PartsJoined ==
  ASSUME NEW m \in Nat, NEW n \in Nat, NEW s, NEW t, NEW b, Part(s, m, b), Part(t, n, b)
  PROVE  Part(s \o t, m + n, b)
<1> DEFINE u == s \o t
<1>1. Joins(u, s, m, t, n)
  <2>1. Piece(s, m) /\ Piece(t, n)
    BY DEF Part
  <2>2. QED
    BY <2>1, Joined
<1> HIDE DEF u
<1>2. \A i \in m + 1 .. m + n : i - m \in 1 .. n
  OBVIOUS
<1>3. \A i \in 1 .. m + n : i \in 1 .. m \/ i \in m + 1 .. m + n
  OBVIOUS
<1>4. Part(u, m + n, b)
  BY <1>1, <1>2, <1>3 DEF Part, Joins
<1>5. QED
  BY <1>4 DEF u

\* A pair of octets of s \o t is one of s, one of t, or the two at the joint.
LEMMA TunnelJoined ==
  ASSUME NEW m \in Nat, NEW n \in Nat, NEW s, NEW t, Piece(s, m), Piece(t, n),
         NamesTunnel(s, m), NamesTunnel(t, n),
         \/ m = 0 \/ n = 0
         \/ s[m].field # "TunnelAddress" \/ t[1].field # "TunnelAddress"
  PROVE  NamesTunnel(s \o t, m + n)
<1> DEFINE u == s \o t
<1>0. Joins(u, s, m, t, n)
  BY Joined
<1> HIDE DEF u
<1>1. /\ \A i \in 1 .. m : u[i] = s[i]
      /\ \A i \in m + 1 .. m + n : u[i] = t[i - m]
  BY <1>0 DEF Joins
<1> SUFFICES ASSUME NEW i \in 1 .. (m + n) - 1,
                    u[i].field = "TunnelAddress", u[i + 1].field = "TunnelAddress"
             PROVE  u[i].value = 17 /\ u[i + 1].value = 250
  BY DEF NamesTunnel, u
<1>2. CASE i < m
  <2>1. i \in 1 .. m - 1 /\ u[i] = s[i] /\ u[i + 1] = s[i + 1]
    BY <1>1, <1>2
  <2>2. QED
    BY <2>1 DEF NamesTunnel
<1>3. CASE i = m
  <2>1. u[i] = s[m] /\ u[i + 1] = t[1] /\ m # 0 /\ n # 0
    BY <1>1, <1>3
  <2>2. QED
    BY <2>1
<1>4. CASE i > m
  <2>1. i - m \in 1 .. n - 1 /\ (i + 1) - m = (i - m) + 1
    BY <1>4
  <2>2. u[i] = t[i - m] /\ u[i + 1] = t[(i - m) + 1]
    BY <1>1, <1>4, <2>1
  <2>3. QED
    BY <2>1, <2>2 DEF NamesTunnel
<1>5. QED
  BY <1>2, <1>3, <1>4

LEMMA OpeningJoined ==
  ASSUME NEW m \in Nat, NEW n \in Nat, NEW s, NEW t, NEW b, NEW v,
         Opening(s, m, b, v), Part(t, n, b)
  PROVE  Opening(s \o t, m + n, b, v)
<1> DEFINE u == s \o t
<1>1. Piece(s, m) /\ Piece(t, n) /\ 1 \in 1 .. m /\ m + n > 0
  BY DEF Opening, Part
<1>2. NamesTunnel(u, m + n)
  <2>1. NamesTunnel(t, n) /\ (n = 0 \/ t[1].field # "TunnelAddress")
    BY DEF Part, NamesTunnel
  <2>2. QED
    BY <1>1, <2>1, TunnelJoined DEF Opening
<1>3. Joins(u, s, m, t, n)
  BY <1>1, Joined
<1> HIDE DEF u
<1>4. \A i \in 1 .. m + n : u[i].block = b
  <2>1. \A i \in m + 1 .. m + n : i - m \in 1 .. n
    OBVIOUS
  <2>2. \A i \in 1 .. m + n : i \in 1 .. m \/ i \in m + 1 .. m + n
    OBVIOUS
  <2>3. (\A i \in 1 .. m : s[i].block = b) /\ \A i \in 1 .. n : t[i].block = b
    BY DEF Opening, Part
  <2>4. QED
    BY <1>3, <2>1, <2>2, <2>3 DEF Joins
<1>5. Opening(u, m + n, b, v)
  <2>1. u[1] = s[1] /\ Piece(u, m + n)
    BY <1>1, <1>3 DEF Joins
  <2>2. s[1].field = "StructureLength" /\ s[1].value = v
    BY DEF Opening
  <2>3. QED
    BY <1>1, <1>2, <1>4, <2>1, <2>2 DEF Opening
<1>6. QED
  BY <1>5 DEF u

LEMMA OpeningJoinedThree ==
  ASSUME NEW k \in Nat, NEW l \in Nat, NEW m \in Nat, NEW n \in Nat,
         NEW s, NEW t, NEW u, NEW w, NEW b, NEW v,
         Opening(s, k, b, v), Part(t, l, b), Part(u, m, b), Part(w, n, b)
  PROVE  Opening(s \o t \o u \o w, k + l + m + n, b, v)
<1>1. Opening(s \o t, k + l, b, v)
  BY OpeningJoined
<1>2. Opening(s \o t \o u, k + l + m, b, v)
  BY <1>1, OpeningJoined
<1>3. QED
  BY <1>2, OpeningJoined

\* The names and the numbers that occur in the blocks.
QuietField == Field \ { "TunnelAddress" }

LEMMA OnePart ==
  ASSUME NEW b \in Block, NEW f \in QuietField, NEW v \in 0 .. 255
  PROVE  Part(One(b, f, v), 1, b)
  BY DEF One, Octet, FrameOctet, Piece, Part, QuietField

LEMMA FillPart ==
  ASSUME NEW b \in Block, NEW f \in QuietField, NEW n \in 0 .. 255
  PROVE  Part(Fill(b, f, n), n, b)
  BY DEF Fill, Octet, FrameOctet, Piece, Part, QuietField

LEMMA TwoPiece ==
  ASSUME NEW b \in Block, NEW f \in Field, NEW v \in Word
  PROVE  /\ Piece(Two(b, f, v), 2)
         /\ Two(b, f, v)[1] = Octet(b, f, v \div 256)
         /\ Two(b, f, v)[2] = Octet(b, f, v % 256)
<1>1. v \in Nat /\ v <= 65535
  BY WordIs
<1>2. v \div 256 <= 255
  BY <1>1
<1>3. v \div 256 \in Nat /\ v % 256 \in 0 .. 255
  BY <1>1
<1>4. v \div 256 \in 0 .. 255
  BY <1>2, <1>3
<1>5. /\ Octet(b, f, v \div 256) \in FrameOctet
      /\ Octet(b, f, v % 256) \in FrameOctet
  BY <1>3, <1>4, ZenonT(60) DEF Octet, FrameOctet
<1>6. QED
  BY <1>5 DEF Two, Piece

LEMMA TwoPart ==
  ASSUME NEW b \in Block, NEW f \in QuietField, NEW v \in Word
  PROVE  Part(Two(b, f, v), 2, b)
<1>1. f \in Field /\ f # "TunnelAddress"
  BY DEF QuietField
<1>2. \A i \in 1 .. 2 : i = 1 \/ i = 2
  OBVIOUS
<1>3. /\ Piece(Two(b, f, v), 2)
      /\ Two(b, f, v)[1] = Octet(b, f, v \div 256)
      /\ Two(b, f, v)[2] = Octet(b, f, v % 256)
  BY <1>1, TwoPiece
<1>4. QED
  BY <1>1, <1>2, <1>3 DEF Part, Octet

LEMMA AddressJoined ==
  ASSUME NEW m \in Nat, NEW s, NEW b \in Block, NEW v,
         Opening(s, m, b, v), Part(s, m, b)
  PROVE  Opening(s \o Two(b, "TunnelAddress", 4602), m + 2, b, v)
<1> DEFINE t == Two(b, "TunnelAddress", 4602)
<1>1. 4602 \in Word /\ "TunnelAddress" \in Field
  BY DEF Word, Field
<1>2. /\ Piece(t, 2) /\ t[1] = Octet(b, "TunnelAddress", 17)
      /\ t[2] = Octet(b, "TunnelAddress", 250)
  BY <1>1, TwoPiece
<1> DEFINE u == s \o t
<1> HIDE DEF t
<1>3. NamesTunnel(t, 2) /\ \A i \in 1 .. 2 : t[i].block = b
  BY <1>2 DEF NamesTunnel, Octet
<1>4. /\ Piece(u, m + 2) /\ m + 2 > 0
      /\ \A i \in 1 .. m : u[i] = s[i]
      /\ \A i \in m + 1 .. m + 2 : u[i] = t[i - m]
  <2>1. Piece(s, m) /\ m + 2 > 0 /\ 2 \in Nat
    BY DEF Part
  <2>2. Joins(u, s, m, t, 2)
    BY <1>2, <2>1, Joined
  <2> HIDE DEF u
  <2>3. QED
    BY <2>1, <2>2 DEF Joins
<1> HIDE DEF u
<1>5. NamesTunnel(u, m + 2)
  <2>1. m \in 1 .. m /\ s[m].field # "TunnelAddress"
    BY DEF Opening, Part
  <2>2. QED
    BY <1>2, <1>3, <2>1, TunnelJoined DEF Opening, u
<1>6. \A i \in 1 .. m + 2 : u[i].block = b
  <2>1. \A i \in m + 1 .. m + 2 : i - m \in 1 .. 2
    OBVIOUS
  <2>2. \A i \in 1 .. m + 2 : i \in 1 .. m \/ i \in m + 1 .. m + 2
    OBVIOUS
  <2>3. (\A i \in 1 .. m : s[i].block = b) /\ \A i \in 1 .. 2 : t[i].block = b
    BY <1>3 DEF Opening
  <2>4. QED
    BY <1>4, <2>1, <2>2, <2>3
<1>7. 1 \in 1 .. m /\ s[1].field = "StructureLength" /\ s[1].value = v
  BY DEF Opening
<1>8. Opening(u, m + 2, b, v)
  BY <1>4, <1>5, <1>6, <1>7 DEF Opening
<1>9. QED
  BY <1>8 DEF u, t

-----------------------------------------------------------------------------
\* Octet p of s is the first of a block.
Begins(s, p) == s[p].block # "plain" /\ (p > 1 => s[p - 1].block # s[p].block)

\* The octets of the block that begins with octet p are the next ones, as many
\* as it announces.
Announced(s, n, p) ==
  /\ s[p].field = "StructureLength" /\ s[p].value > 0 /\ p + s[p].value <= n + 1
  /\ \A q \in 1 .. n :
       s[q].block = s[p].block <=> p <= q /\ q < p + s[p].value

\* Octets a client can skip through, of the blocks B and of none.
Parsable(s, n, B) ==
  /\ Piece(s, n)
  /\ \A i \in 1 .. n : s[i].block \in B \cup {"plain"}
  /\ \A p \in 1 .. n : Begins(s, p) => Announced(s, n, p)

\* A section of a frame: moreover, it names no tunnel but 0x11FA.
Section(s, n, B) ==
  /\ Parsable(s, n, B)
  /\ NamesTunnel(s, n)
  /\ n = 0 \/ s[1].field # "TunnelAddress"

LEMMA BlockSection ==
  ASSUME NEW n \in Nat, NEW s, NEW b, b # "plain", Opening(s, n, b, n)
  PROVE  Section(s, n, {b})
<1>1. /\ Piece(s, n) /\ NamesTunnel(s, n) /\ s[1].field # "TunnelAddress"
      /\ \A i \in 1 .. n : s[i].block = b
  BY DEF Opening
<1>2. ASSUME NEW p \in 1 .. n, Begins(s, p) PROVE Announced(s, n, p)
  <2>1. p = 1
    <3>1. p > 1 => p - 1 \in 1 .. n
      OBVIOUS
    <3>2. QED
      BY <1>1, <1>2, <3>1 DEF Begins
  <2>2. s[1].field = "StructureLength" /\ s[1].value = n /\ n > 0
    BY DEF Opening
  <2>3. QED
    BY <1>1, <2>1, <2>2 DEF Announced
<1>3. QED
  BY <1>1, <1>2 DEF Section, Parsable

LEMMA PlainParsable ==
  ASSUME NEW n \in Nat, NEW s, Piece(s, n), \A i \in 1 .. n : s[i].block = "plain"
  PROVE  Parsable(s, n, {})
  BY DEF Parsable, Begins

LEMMA PlainSection ==
  ASSUME NEW n \in Nat, NEW s, Part(s, n, "plain")
  PROVE  Section(s, n, {})
<1>1. Parsable(s, n, {})
  BY PlainParsable DEF Part
<1>2. QED
  BY <1>1 DEF Section, Part, NamesTunnel

LEMMA ParsableJoined ==
  ASSUME NEW m \in Nat, NEW n \in Nat, NEW s, NEW t, NEW B, NEW C,
         Parsable(s, m, B), Parsable(t, n, C),
         \A b \in B : b \notin C /\ b # "plain", \A c \in C : c # "plain"
  PROVE  Parsable(s \o t, m + n, B \cup C)
<1> DEFINE u == s \o t
<1>1. /\ Piece(u, m + n)
      /\ \A i \in 1 .. m : u[i] = s[i]
      /\ \A i \in m + 1 .. m + n : u[i] = t[i - m]
  <2>1. Piece(s, m) /\ Piece(t, n)
    BY DEF Parsable
  <2>2. Joins(u, s, m, t, n)
    BY <2>1, Joined
  <2> HIDE DEF u
  <2>3. QED
    BY <2>2 DEF Joins
<1> HIDE DEF u
<1>3. /\ \A i \in 1 .. m + n : i \in 1 .. m \/ i \in m + 1 .. m + n
      /\ \A i \in m + 1 .. m + n : i - m \in 1 .. n
  OBVIOUS
<1>4. /\ \A i \in 1 .. m : u[i].block \in B \cup {"plain"}
      /\ \A i \in m + 1 .. m + n : u[i].block \in C \cup {"plain"}
  BY <1>1, <1>3 DEF Parsable
<1>5. ASSUME NEW p \in 1 .. m, Begins(u, p) PROVE Announced(u, m + n, p)
  <2>1. p > 1 => p - 1 \in 1 .. m
    OBVIOUS
  <2>2. u[p] = s[p] /\ Begins(s, p)
    BY <1>1, <1>5, <2>1 DEF Begins
  <2>3. Announced(s, m, p)
    BY <2>2 DEF Parsable
  <2>4. u[p].block \in B /\ u[p].block # "plain"
    BY <1>4, <1>5 DEF Begins
  <2>5. ASSUME NEW q \in 1 .. m + n
        PROVE  u[q].block = u[p].block <=> p <= q /\ q < p + u[p].value
    <3>1. CASE q \in 1 .. m
      BY <1>1, <2>2, <2>3, <3>1 DEF Announced
    <3>2. CASE q \in m + 1 .. m + n
      <4>1. u[q].block # u[p].block
        BY <1>4, <2>4, <3>2
      <4>2. s[p].value \in 0 .. 255
        BY OctetsFit DEF Parsable
      <4>3. p + s[p].value <= m + 1 /\ q >= m + 1
        BY <2>3, <3>2 DEF Announced
      <4>4. ~ (q < p + s[p].value)
        BY <4>2, <4>3
      <4>5. QED
        BY <2>2, <4>1, <4>4
    <3>3. QED
      BY <1>3, <3>1, <3>2
  <2>6. /\ s[p].field = "StructureLength" /\ s[p].value > 0
        /\ p + s[p].value <= (m + n) + 1
    <3>1. s[p].value \in 0 .. 255
      BY OctetsFit DEF Parsable
    <3>2. /\ s[p].field = "StructureLength" /\ s[p].value > 0
          /\ p + s[p].value <= m + 1
      BY <2>3 DEF Announced
    <3>3. QED
      BY <3>1, <3>2
  <2>7. QED
    BY <2>2, <2>5, <2>6 DEF Announced
<1>6. ASSUME NEW p \in m + 1 .. m + n, Begins(u, p) PROVE Announced(u, m + n, p)
  <2> DEFINE r == p - m
  <2>1. r \in 1 .. n /\ p = m + r /\ u[p] = t[r]
    BY <1>1
  <2>2. Begins(t, r)
    <3>1. r > 1 => p - 1 \in m + 1 .. m + n /\ (p - 1) - m = r - 1 /\ p > 1
      BY <2>1
    <3>2. QED
      BY <1>1, <1>6, <2>1, <3>1 DEF Begins
  <2> HIDE DEF r
  <2>3. Announced(t, n, r)
    BY <2>1, <2>2 DEF Parsable
  <2>4. u[p].block \in C /\ u[p].block # "plain"
    BY <1>4, <1>6 DEF Begins
  <2>5. t[r].value \in 0 .. 255
    BY <2>1, OctetsFit DEF Parsable
  <2>6. ASSUME NEW q \in 1 .. m + n
        PROVE  u[q].block = u[p].block <=> p <= q /\ q < p + u[p].value
    <3>1. CASE q \in 1 .. m
      <4>1. u[q].block # u[p].block
        BY <1>4, <2>4, <3>1
      <4>2. QED
        BY <3>1, <4>1
    <3>2. CASE q \in m + 1 .. m + n
      <4>1. q - m \in 1 .. n /\ u[q] = t[q - m]
        BY <1>1, <1>3, <3>2
      <4>2. t[q - m].block = t[r].block <=> r <= q - m /\ q - m < r + t[r].value
        BY <2>3, <4>1 DEF Announced
      <4>3. (r <= q - m <=> p <= q) /\ (q - m < r + t[r].value <=> q < p + t[r].value)
        <5>1. PICK v \in 0 .. 255 : v = t[r].value
          BY <2>5
        <5>2. (r <= q - m <=> p <= q) /\ (q - m < r + v <=> q < p + v)
          BY <2>1
        <5>3. QED
          BY <5>1, <5>2
      <4>4. QED
        BY <2>1, <4>1, <4>2, <4>3
    <3>3. QED
      BY <1>3, <3>1, <3>2
  <2>7. /\ t[r].field = "StructureLength" /\ t[r].value > 0
        /\ p + t[r].value <= (m + n) + 1
    <3>1. /\ t[r].field = "StructureLength" /\ t[r].value > 0
          /\ r + t[r].value <= n + 1
      BY <2>3 DEF Announced
    <3>2. QED
      BY <2>1, <2>5, <3>1
  <2>8. QED
    BY <2>1, <2>6, <2>7 DEF Announced
<1>7. QED
  BY <1>1, <1>3, <1>4, <1>5, <1>6 DEF Parsable, u

LEMMA SectionsJoined ==
  ASSUME NEW m \in Nat, NEW n \in Nat, NEW s, NEW t, NEW B, NEW C,
         Section(s, m, B), Section(t, n, C),
         \A b \in B : b \notin C /\ b # "plain", \A c \in C : c # "plain"
  PROVE  Section(s \o t, m + n, B \cup C)
<1> DEFINE u == s \o t
<1>1. Piece(s, m) /\ Piece(t, n) /\ Parsable(u, m + n, B \cup C)
  BY ParsableJoined DEF Section, Parsable
<1>2. NamesTunnel(u, m + n)
  BY <1>1, TunnelJoined DEF Section
<1>3. Joins(u, s, m, t, n)
  BY <1>1, Joined
<1> HIDE DEF u
<1>4. m + n = 0 \/ u[1].field # "TunnelAddress"
  <2>1. CASE m > 0
    BY <1>3, <2>1 DEF Section, Joins
  <2>2. CASE m = 0
    BY <1>3, <2>2 DEF Section, Joins
  <2>3. QED
    BY <2>1, <2>2
<1>5. QED
  BY <1>1, <1>2, <1>4 DEF Section, u

-----------------------------------------------------------------------------
LEMMA Names ==
  /\ "plain" \in Block /\ "HEADER" \in Block /\ "CONNECTION_HEADER" \in Block
  /\ "HPAI" \in Block /\ "CRD" \in Block /\ "DEVICE_INFO" \in Block
  /\ "SUPP_SVC_FAMILIES" \in Block /\ "EXTENDED_DEVICE_INFO" \in Block
  /\ "IP_CONFIG" \in Block /\ "IP_CUR_CONFIG" \in Block
  /\ "KNX_ADDRESSES" \in Block /\ "TUNNELLING_INFO" \in Block
  /\ "StructureLength" \in QuietField /\ "DescriptionTypeCode" \in QuietField
  /\ "HostProtocolCode" \in QuietField /\ "IpAddress" \in QuietField
  /\ "PortNumber" \in QuietField /\ "Medium" \in QuietField
  /\ "Status" \in QuietField /\ "IndividualAddress" \in QuietField
  /\ "ProjectInstallationId" \in QuietField /\ "SerialNumber" \in QuietField
  /\ "RoutingMulticastAddress" \in QuietField /\ "MacAddress" \in QuietField
  /\ "FriendlyName" \in QuietField /\ "Family" \in QuietField
  /\ "MediumStatus" \in QuietField /\ "Reserved" \in QuietField
  /\ "MaximalApduLength" \in QuietField /\ "DeviceDescriptor" \in QuietField
  /\ "SubnetMask" \in QuietField /\ "DefaultGateway" \in QuietField
  /\ "Capabilities" \in QuietField /\ "Assignment" \in QuietField
  /\ "DhcpServer" \in QuietField /\ "SlotStatus" \in QuietField
  /\ "ConnectionTypeCode" \in QuietField /\ "ChannelId" \in QuietField
  /\ "SequenceCounter" \in QuietField /\ "FeatureIdentifier" \in QuietField
  /\ "FeatureValue" \in QuietField /\ "ProtocolVersion" \in QuietField
  /\ "ServiceType" \in QuietField /\ "TotalLength" \in QuietField
  /\ "MessageCode" \in QuietField /\ "AdditionalInfo" \in QuietField
  /\ "Control" \in QuietField /\ "Telegram" \in QuietField
  BY DEF Block, Field, QuietField

LEMMA Numbers ==
  /\ 0 \in 0 .. 255 /\ 1 \in 0 .. 255 /\ 2 \in 0 .. 255 /\ 3 \in 0 .. 255
  /\ 4 \in 0 .. 255 /\ 5 \in 0 .. 255 /\ 6 \in 0 .. 255 /\ 7 \in 0 .. 255
  /\ 8 \in 0 .. 255 /\ 10 \in 0 .. 255 /\ 16 \in 0 .. 255 /\ 17 \in 0 .. 255
  /\ 20 \in 0 .. 255 /\ 30 \in 0 .. 255 /\ 54 \in 0 .. 255
  OBVIOUS

LEMMA LengthOpens ==
  ASSUME NEW b \in Block, NEW n \in 0 .. 255
  PROVE  Opening(Length(b, n), 1, b, n) /\ Part(Length(b, n), 1, b)
<1>1. Part(Length(b, n), 1, b)
  BY OnePart, Names DEF Length
<1>2. Length(b, n)[1] = Octet(b, "StructureLength", n)
  BY DEF Length, One
<1>3. Octet(b, "StructureLength", n).field = "StructureLength"
      /\ Octet(b, "StructureLength", n).value = n
  BY DEF Octet
<1>4. QED
  BY <1>1, <1>2, <1>3 DEF Opening, Part, NamesTunnel

LEMMA DibOpens ==
  ASSUME NEW b \in Block, NEW n \in 0 .. 255, NEW type \in 0 .. 255
  PROVE  Opening(Dib(b, n, type), 2, b, n) /\ Part(Dib(b, n, type), 2, b)
<1>1. /\ Opening(Length(b, n), 1, b, n) /\ Part(Length(b, n), 1, b)
      /\ Part(One(b, "DescriptionTypeCode", type), 1, b)
  BY LengthOpens, OnePart, Names, ZenonT(60)
<1>2. /\ Opening(Length(b, n) \o One(b, "DescriptionTypeCode", type), 1 + 1, b, n)
      /\ Part(Length(b, n) \o One(b, "DescriptionTypeCode", type), 1 + 1, b)
  BY <1>1, OpeningJoined, PartsJoined
<1>3. QED
  BY <1>2 DEF Dib

LEMMA HPAIBlock ==
  ASSUME NEW p \in 0 .. 255
  PROVE  Section(HPAI(p), 8, {"HPAI"})
<1>1. /\ Opening(Length("HPAI", 8), 1, "HPAI", 8)
      /\ Part(One("HPAI", "HostProtocolCode", p), 1, "HPAI")
      /\ Part(Fill("HPAI", "IpAddress", 4), 4, "HPAI")
      /\ Part(Fill("HPAI", "PortNumber", 2), 2, "HPAI")
  BY Names, Numbers, LengthOpens, OnePart, FillPart, ZenonT(60)
<1>2. Opening(HPAI(p), 8, "HPAI", 8)
  BY <1>1, OpeningJoinedThree DEF HPAI
<1>3. QED
  BY <1>2, BlockSection

LEMMA DeviceInfoBlock ==
  ASSUME NEW address \in Word
  PROVE  Section(DeviceInfo(address), 54, {"DEVICE_INFO"})
<1>1. /\ Opening(Dib("DEVICE_INFO", 54, 1), 2, "DEVICE_INFO", 54)
      /\ Part(Fill("DEVICE_INFO", "Medium", 1), 1, "DEVICE_INFO")
      /\ Part(Fill("DEVICE_INFO", "Status", 1), 1, "DEVICE_INFO")
      /\ Part(Two("DEVICE_INFO", "IndividualAddress", address), 2, "DEVICE_INFO")
  BY Names, Numbers, DibOpens, FillPart, TwoPart, ZenonT(60)
<1>2. /\ Part(Fill("DEVICE_INFO", "ProjectInstallationId", 2), 2, "DEVICE_INFO")
      /\ Part(Fill("DEVICE_INFO", "SerialNumber", 6), 6, "DEVICE_INFO")
      /\ Part(Fill("DEVICE_INFO", "RoutingMulticastAddress", 4), 4, "DEVICE_INFO")
      /\ Part(Fill("DEVICE_INFO", "MacAddress", 6), 6, "DEVICE_INFO")
      /\ Part(Fill("DEVICE_INFO", "FriendlyName", 30), 30, "DEVICE_INFO")
  BY Names, Numbers, FillPart, ZenonT(60)
<1>3. Opening(Dib("DEVICE_INFO", 54, 1) \o Fill("DEVICE_INFO", "Medium", 1)
                \o Fill("DEVICE_INFO", "Status", 1)
                \o Two("DEVICE_INFO", "IndividualAddress", address),
              6, "DEVICE_INFO", 54)
  BY <1>1, OpeningJoinedThree
<1>4. Opening(DeviceInfo(address), 54, "DEVICE_INFO", 54)
  BY <1>2, <1>3, OpeningJoined DEF DeviceInfo
<1>5. QED
  BY <1>4, BlockSection

LEMMA FamiliesBlock == Section(SupportedServiceFamilies, 10, {"SUPP_SVC_FAMILIES"})
<1>1. 2 * Len(KnxSupportedServiceFamilies) = 8
  BY DEF KnxSupportedServiceFamilies
<1>2. /\ Opening(Dib("SUPP_SVC_FAMILIES", 10, 2), 2, "SUPP_SVC_FAMILIES", 10)
      /\ Part(Fill("SUPP_SVC_FAMILIES", "Family", 8), 8, "SUPP_SVC_FAMILIES")
  BY Names, Numbers, DibOpens, FillPart, ZenonT(60)
<1>3. Opening(SupportedServiceFamilies, 10, "SUPP_SVC_FAMILIES", 10)
  BY <1>1, <1>2, OpeningJoined DEF SupportedServiceFamilies
<1>4. QED
  BY <1>3, BlockSection

LEMMA ExtendedDeviceInfoBlock ==
  Section(ExtendedDeviceInfo, 8, {"EXTENDED_DEVICE_INFO"})
<1>1. 240 \in Word /\ 22277 \in Word
  BY DEF Word
<1>2. /\ Opening(Dib("EXTENDED_DEVICE_INFO", 8, 8), 2, "EXTENDED_DEVICE_INFO", 8)
      /\ Part(Fill("EXTENDED_DEVICE_INFO", "MediumStatus", 1), 1, "EXTENDED_DEVICE_INFO")
      /\ Part(Fill("EXTENDED_DEVICE_INFO", "Reserved", 1), 1, "EXTENDED_DEVICE_INFO")
  BY Names, Numbers, DibOpens, FillPart, ZenonT(60)
<1>3. /\ Part(Two("EXTENDED_DEVICE_INFO", "MaximalApduLength", 240), 2,
              "EXTENDED_DEVICE_INFO")
      /\ Part(Two("EXTENDED_DEVICE_INFO", "DeviceDescriptor", 22277), 2,
              "EXTENDED_DEVICE_INFO")
  BY <1>1, Names, TwoPart
<1>4. Opening(ExtendedDeviceInfo, 8, "EXTENDED_DEVICE_INFO", 8)
  BY <1>2, <1>3, OpeningJoinedThree, OpeningJoined DEF ExtendedDeviceInfo
<1>5. QED
  BY <1>4, BlockSection

LEMMA IpConfigBlock == Section(IpConfig, 16, {"IP_CONFIG"})
<1>1. /\ Opening(Dib("IP_CONFIG", 16, 3), 2, "IP_CONFIG", 16)
      /\ Part(Fill("IP_CONFIG", "IpAddress", 4), 4, "IP_CONFIG")
      /\ Part(Fill("IP_CONFIG", "SubnetMask", 4), 4, "IP_CONFIG")
      /\ Part(Fill("IP_CONFIG", "DefaultGateway", 4), 4, "IP_CONFIG")
  BY Names, Numbers, DibOpens, FillPart, ZenonT(60)
<1>2. /\ Part(Fill("IP_CONFIG", "Capabilities", 1), 1, "IP_CONFIG")
      /\ Part(Fill("IP_CONFIG", "Assignment", 1), 1, "IP_CONFIG")
  BY Names, Numbers, FillPart, ZenonT(60)
<1>3. Opening(Dib("IP_CONFIG", 16, 3) \o Fill("IP_CONFIG", "IpAddress", 4)
                \o Fill("IP_CONFIG", "SubnetMask", 4)
                \o Fill("IP_CONFIG", "DefaultGateway", 4), 14, "IP_CONFIG", 16)
  BY <1>1, OpeningJoinedThree
<1>4. Opening(IpConfig, 16, "IP_CONFIG", 16)
  BY <1>2, <1>3, OpeningJoined DEF IpConfig
<1>5. QED
  BY <1>4, BlockSection

LEMMA IpCurrentConfigBlock == Section(IpCurrentConfig, 20, {"IP_CUR_CONFIG"})
<1>1. /\ Opening(Dib("IP_CUR_CONFIG", 20, 4), 2, "IP_CUR_CONFIG", 20)
      /\ Part(Fill("IP_CUR_CONFIG", "IpAddress", 4), 4, "IP_CUR_CONFIG")
      /\ Part(Fill("IP_CUR_CONFIG", "SubnetMask", 4), 4, "IP_CUR_CONFIG")
      /\ Part(Fill("IP_CUR_CONFIG", "DefaultGateway", 4), 4, "IP_CUR_CONFIG")
  BY Names, Numbers, DibOpens, FillPart, ZenonT(60)
<1>2. /\ Part(Fill("IP_CUR_CONFIG", "DhcpServer", 4), 4, "IP_CUR_CONFIG")
      /\ Part(Fill("IP_CUR_CONFIG", "Assignment", 1), 1, "IP_CUR_CONFIG")
      /\ Part(Fill("IP_CUR_CONFIG", "Reserved", 1), 1, "IP_CUR_CONFIG")
  BY Names, Numbers, FillPart, ZenonT(60)
<1>3. Opening(Dib("IP_CUR_CONFIG", 20, 4) \o Fill("IP_CUR_CONFIG", "IpAddress", 4)
                \o Fill("IP_CUR_CONFIG", "SubnetMask", 4)
                \o Fill("IP_CUR_CONFIG", "DefaultGateway", 4), 14, "IP_CUR_CONFIG", 20)
  BY <1>1, OpeningJoinedThree
<1>4. Opening(IpCurrentConfig, 20, "IP_CUR_CONFIG", 20)
  BY <1>2, <1>3, OpeningJoinedThree DEF IpCurrentConfig
<1>5. QED
  BY <1>4, BlockSection

LEMMA KnxAddressesBlock == Section(KnxAddresses, 6, {"KNX_ADDRESSES"})
<1> DEFINE s == Dib("KNX_ADDRESSES", 6, 5)
                  \o Two("KNX_ADDRESSES", "IndividualAddress", KNX_INDIVIDUAL_ADDR)
<1>1. KNX_INDIVIDUAL_ADDR \in Word
  BY DEF KNX_INDIVIDUAL_ADDR, Word
<1>2. /\ Opening(Dib("KNX_ADDRESSES", 6, 5), 2, "KNX_ADDRESSES", 6)
      /\ Part(Dib("KNX_ADDRESSES", 6, 5), 2, "KNX_ADDRESSES")
      /\ Part(Two("KNX_ADDRESSES", "IndividualAddress", KNX_INDIVIDUAL_ADDR), 2,
              "KNX_ADDRESSES")
  BY <1>1, Names, Numbers, DibOpens, TwoPart, ZenonT(60)
<1>3. Opening(s, 4, "KNX_ADDRESSES", 6) /\ Part(s, 4, "KNX_ADDRESSES")
  BY <1>2, OpeningJoined, PartsJoined
<1>4. KnxAddresses = s \o Two("KNX_ADDRESSES", "TunnelAddress", 4602)
  BY DEF KnxAddresses, KNXnetIP_KnxIndividualAddresses
<1> HIDE DEF s
<1>5. Opening(KnxAddresses, 6, "KNX_ADDRESSES", 6)
  BY <1>3, <1>4, Names, AddressJoined
<1>6. QED
  BY <1>5, BlockSection

LEMMA TunnellingInfoBlock == Section(TunnellingInfo, 8, {"TUNNELLING_INFO"})
<1> DEFINE s == Dib("TUNNELLING_INFO", 8, 7)
                  \o Two("TUNNELLING_INFO", "MaximalApduLength", 240)
           t == s \o Two("TUNNELLING_INFO", "TunnelAddress", 4602)
<1>1. 240 \in Word
  BY DEF Word
<1>2. /\ Opening(Dib("TUNNELLING_INFO", 8, 7), 2, "TUNNELLING_INFO", 8)
      /\ Part(Dib("TUNNELLING_INFO", 8, 7), 2, "TUNNELLING_INFO")
      /\ Part(Two("TUNNELLING_INFO", "MaximalApduLength", 240), 2, "TUNNELLING_INFO")
      /\ Part(Fill("TUNNELLING_INFO", "Reserved", 1), 1, "TUNNELLING_INFO")
      /\ Part(Fill("TUNNELLING_INFO", "SlotStatus", 1), 1, "TUNNELLING_INFO")
  BY <1>1, Names, Numbers, DibOpens, TwoPart, FillPart, ZenonT(60)
<1>3. Opening(s, 4, "TUNNELLING_INFO", 8) /\ Part(s, 4, "TUNNELLING_INFO")
  BY <1>2, OpeningJoined, PartsJoined
<1>4. TunnellingInfo = t \o Fill("TUNNELLING_INFO", "Reserved", 1)
                         \o Fill("TUNNELLING_INFO", "SlotStatus", 1)
  BY DEF TunnellingInfo, KNXnetIP_TunnelingSlot
<1> HIDE DEF s
<1>5. Opening(t, 6, "TUNNELLING_INFO", 8)
  BY <1>3, Names, AddressJoined
<1> HIDE DEF t
<1>6. Opening(TunnellingInfo, 8, "TUNNELLING_INFO", 8)
  BY <1>2, <1>4, <1>5, OpeningJoined
<1>7. QED
  BY <1>6, BlockSection

LEMMA ConnectionHeaderBlock == Section(ConnectionHeader, 4, {"CONNECTION_HEADER"})
<1>1. ChannelId \in 0 .. 255
  BY DEF ChannelId
<1>2. /\ Opening(Length("CONNECTION_HEADER", 4), 1, "CONNECTION_HEADER", 4)
      /\ Part(One("CONNECTION_HEADER", "ChannelId", ChannelId), 1, "CONNECTION_HEADER")
      /\ Part(Fill("CONNECTION_HEADER", "SequenceCounter", 1), 1, "CONNECTION_HEADER")
      /\ Part(Fill("CONNECTION_HEADER", "Reserved", 1), 1, "CONNECTION_HEADER")
  BY <1>1, Names, Numbers, LengthOpens, OnePart, FillPart, ZenonT(60)
<1>3. Opening(ConnectionHeader, 4, "CONNECTION_HEADER", 4)
  BY <1>2, OpeningJoinedThree DEF ConnectionHeader
<1>4. QED
  BY <1>3, BlockSection

\* A connection that is neither a tunnel nor for management has no CRD.
LEMMA CRDBlock ==
  ASSUME NEW type \in 0 .. 255
  PROVE  \E n \in 0 .. 4, B \in { {}, {"CRD"} } : Section(CRD(type), n, B)
<1> DEFINE s == Length("CRD", 4) \o One("CRD", "ConnectionTypeCode", type)
           t == Length("CRD", 2) \o One("CRD", "ConnectionTypeCode", type)
<1>1. /\ Opening(Length("CRD", 4), 1, "CRD", 4) /\ Part(Length("CRD", 4), 1, "CRD")
      /\ Opening(Length("CRD", 2), 1, "CRD", 2)
      /\ Part(One("CRD", "ConnectionTypeCode", type), 1, "CRD")
  BY Names, Numbers, LengthOpens, OnePart, ZenonT(60)
<1>2. /\ Opening(s, 2, "CRD", 4) /\ Part(s, 2, "CRD")
      /\ Opening(t, 2, "CRD", 2)
  BY <1>1, OpeningJoined, PartsJoined
<1>3. \/ CRD(type) = s \o Two("CRD", "TunnelAddress", 4602)
      \/ CRD(type) = t
      \/ CRD(type) = << >>
  BY DEF CRD, KNXnetIP_TunnelingSlot
<1> HIDE DEF s, t
<1>4. Opening(s \o Two("CRD", "TunnelAddress", 4602), 4, "CRD", 4)
  BY <1>2, Names, AddressJoined
<1>5. Section(s \o Two("CRD", "TunnelAddress", 4602), 4, {"CRD"}) /\ Section(t, 2, {"CRD"})
  BY <1>2, <1>4, BlockSection
<1>6. Section(<< >>, 0, {})
  <2>1. Part(<< >>, 0, "plain") /\ 0 \in Nat
    BY DEF Part, Piece
  <2>2. QED
    BY <2>1, PlainSection
<1>7. 0 \in 0 .. 4 /\ 2 \in 0 .. 4 /\ 4 \in 0 .. 4
  OBVIOUS
<1> DEFINE Kinds == { {}, {"CRD"} }
<1>8. CASE CRD(type) = s \o Two("CRD", "TunnelAddress", 4602)
  <2>1. Section(CRD(type), 4, {"CRD"})
    BY <1>5, <1>8
  <2>2. {"CRD"} \in Kinds
    OBVIOUS
  <2> HIDE DEF Kinds
  <2>3. \E n \in 0 .. 4, B \in Kinds : Section(CRD(type), n, B)
    BY <1>7, <2>1, <2>2
  <2>4. QED
    BY <2>3 DEF Kinds
<1>9. CASE CRD(type) = t
  <2>1. Section(CRD(type), 2, {"CRD"})
    BY <1>5, <1>9
  <2>2. {"CRD"} \in Kinds
    OBVIOUS
  <2> HIDE DEF Kinds
  <2>3. \E n \in 0 .. 4, B \in Kinds : Section(CRD(type), n, B)
    BY <1>7, <2>1, <2>2
  <2>4. QED
    BY <2>3 DEF Kinds
<1>10. CASE CRD(type) = << >>
  <2>1. Section(CRD(type), 0, {})
    BY <1>6, <1>10
  <2>2. {} \in Kinds
    OBVIOUS
  <2> HIDE DEF Kinds
  <2>3. \E n \in 0 .. 4, B \in Kinds : Section(CRD(type), n, B)
    BY <1>7, <2>1, <2>2
  <2>4. QED
    BY <2>3 DEF Kinds
<1>11. QED
  BY <1>3, <1>8, <1>9, <1>10

LEMMA HeaderBlock ==
  ASSUME NEW total \in Word
  PROVE  Section(FrameHeader(total), 6, {"HEADER"})
<1>1. /\ Opening(Length("HEADER", 6), 1, "HEADER", 6)
      /\ Part(Fill("HEADER", "ProtocolVersion", 1), 1, "HEADER")
      /\ Part(Fill("HEADER", "ServiceType", 2), 2, "HEADER")
      /\ Part(Two("HEADER", "TotalLength", total), 2, "HEADER")
  BY Names, Numbers, LengthOpens, FillPart, TwoPart, ZenonT(60)
<1>2. Opening(FrameHeader(total), 6, "HEADER", 6)
  BY <1>1, OpeningJoinedThree DEF FrameHeader
<1>3. QED
  BY <1>2, BlockSection

-----------------------------------------------------------------------------
\* A piece that starts with a header that announces the length v.
Announces(s, n, v) ==
  Piece(s, n) /\ n >= 6 /\ s[5].value = 0 /\ s[6].value = v

LEMMA HeaderAnnounces ==
  ASSUME NEW total \in 0 .. 255
  PROVE  Announces(FrameHeader(total), 6, total)
<1> DEFINE s == Length("HEADER", 6) \o Fill("HEADER", "ProtocolVersion", 1)
                  \o Fill("HEADER", "ServiceType", 2)
           t == Two("HEADER", "TotalLength", total)
<1>1. total \in Word /\ total % 256 = total /\ total \div 256 = 0
  BY WordIs
<1>2. /\ Part(Length("HEADER", 6), 1, "HEADER")
      /\ Part(Fill("HEADER", "ProtocolVersion", 1), 1, "HEADER")
      /\ Part(Fill("HEADER", "ServiceType", 2), 2, "HEADER")
  BY Names, Numbers, LengthOpens, FillPart, ZenonT(60)
<1>3. Part(s, 4, "HEADER")
  BY <1>2, PartsJoined
<1>4. Piece(t, 2) /\ t[1].value = 0 /\ t[2].value = total
  <2>1. "TotalLength" \in Field /\ "HEADER" \in Block
    BY Names DEF QuietField
  <2>2. /\ Piece(t, 2) /\ t[1] = Octet("HEADER", "TotalLength", total \div 256)
        /\ t[2] = Octet("HEADER", "TotalLength", total % 256)
    BY <1>1, <2>1, TwoPiece
  <2>3. QED
    BY <1>1, <2>2 DEF Octet
<1>5. FrameHeader(total) = s \o t
  BY DEF FrameHeader
<1> HIDE DEF s, t
<1> DEFINE u == s \o t
<1>6. Joins(u, s, 4, t, 2)
  BY <1>3, <1>4, Joined DEF Part
<1> HIDE DEF u
<1>7. /\ Piece(FrameHeader(total), 6)
      /\ FrameHeader(total)[5] = t[1] /\ FrameHeader(total)[6] = t[2]
  <2>1. Piece(u, 6) /\ u[5] = t[1] /\ u[6] = t[2]
    BY <1>6 DEF Joins
  <2>2. QED
    BY <1>5, <2>1 DEF u
<1>8. QED
  BY <1>4, <1>7 DEF Announces

LEMMA StillAnnounces ==
  ASSUME NEW m \in Nat, NEW n \in Nat, NEW s, NEW t, NEW v,
         Announces(s, m, v), Piece(t, n)
  PROVE  Announces(s \o t, m + n, v)
<1>1. Piece(s, m) /\ m >= 6
  BY DEF Announces
<1> DEFINE u == s \o t
<1>2. Joins(u, s, m, t, n)
  BY <1>1, Joined
<1> HIDE DEF u
<1>3. 5 \in 1 .. m /\ 6 \in 1 .. m /\ m + n >= 6
  BY <1>1
<1>4. u[5] = s[5] /\ u[6] = s[6] /\ Piece(u, m + n)
  BY <1>2, <1>3 DEF Joins
<1>5. Announces(u, m + n, v)
  BY <1>3, <1>4 DEF Announces
<1>6. QED
  BY <1>5 DEF u

\* The octets of a block as an interval of v octets from octet p on.
LEMMA IntervalOfBlock ==
  ASSUME NEW n \in Nat, NEW p \in 1 .. n, NEW v \in 0 .. 255, p + v <= n + 1
  PROVE  \A q : q \in p .. (p + v) - 1 <=> q \in 1 .. n /\ p <= q /\ q < p + v
  OBVIOUS

\* What a client relies on to read an answer that has at most 255 octets.
Readable(f) ==
  /\ \E n \in 0 .. 255 : Piece(f, n)
  /\ 256 * f[5].value + f[6].value = Len(f)
  /\ \A p \in Starts(f) :
       f[p].field = "StructureLength" /\ f[p].value = BlockLength(f, p)
  /\ NamesTunnel(f, Len(f))

LEMMA ParsableIsReadable ==
  ASSUME NEW n \in 0 .. 255, NEW f, NEW B,
         Parsable(f, n, B), NamesTunnel(f, n), Announces(f, n, n)
  PROVE  Readable(f)
<1>1. n \in Nat /\ Piece(f, n) /\ Len(f) = n
  BY DEF Parsable, Piece
<1>2. 256 * f[5].value + f[6].value = Len(f)
  BY <1>1 DEF Announces
<1>3. ASSUME NEW p \in Starts(f)
      PROVE  f[p].field = "StructureLength" /\ f[p].value = BlockLength(f, p)
  <2>1. p \in 1 .. n /\ Begins(f, p)
    BY <1>1 DEF Starts, Begins
  <2>2. Announced(f, n, p)
    BY <2>1 DEF Parsable
  <2>3. f[p].value \in 0 .. 255
    BY <1>1, <2>1, OctetsFit
  <2>4. { q \in 1 .. Len(f) : f[q].block = f[p].block } = p .. (p + f[p].value) - 1
    <3>1. \A q \in 1 .. n :
            f[q].block = f[p].block <=> p <= q /\ q < p + f[p].value
      BY <2>2 DEF Announced
    <3>2. \A q : q \in p .. (p + f[p].value) - 1 <=>
                   q \in 1 .. n /\ p <= q /\ q < p + f[p].value
      <4>1. p + f[p].value <= n + 1
        BY <2>2 DEF Announced
      <4>2. QED
        BY <1>1, <2>1, <2>3, <4>1, IntervalOfBlock, ZenonT(60)
    <3>3. QED
      BY <1>1, <3>1, <3>2, Zenon
  <2>5. p \in Int /\ (p + f[p].value) - 1 \in Int /\ f[p].value > 0
    <3>1. p \in Int /\ f[p].value \in Int
      BY <2>1, <2>3
    <3>2. f[p].value > 0
      BY <2>2 DEF Announced
    <3>3. QED
      BY <3>1, <3>2
  <2>6. Cardinality(p .. (p + f[p].value) - 1) = f[p].value
    <3>1. PICK last \in Int : last = (p + f[p].value) - 1
      BY <2>5
    <3>2. Cardinality(p .. last) = IF p > last THEN 0 ELSE last - p + 1
      BY <2>5, FS_Interval
    <3>3. ~ (p > last) /\ last - p + 1 = f[p].value
      BY <2>1, <2>3, <2>5, <3>1
    <3>4. QED
      BY <3>1, <3>2, <3>3
  <2>7. QED
    BY <2>2, <2>4, <2>6 DEF Announced, BlockLength
<1>4. QED
  BY <1>1, <1>2, <1>3 DEF Readable

\* A body of at most 249 octets, with the header IP_L_Data_Ind puts in front.
LEMMA FrameReadable ==
  ASSUME NEW n \in 0 .. 249, NEW body, NEW B, Section(body, n, B),
         \A b \in B : b # "HEADER" /\ b # "plain"
  PROVE  Readable(FrameOf(body))
<1>1. 6 + n \in 0 .. 255 /\ n \in Nat
  OBVIOUS
<1>2. 6 + n \in Word
  BY <1>1, OctetIsWord
<1>3. Piece(body, n) /\ FrameOf(body) = FrameHeader(6 + n) \o body
  BY DEF FrameOf, Section, Parsable, Piece
<1>4. Section(FrameOf(body), 6 + n, {"HEADER"} \cup B)
  BY <1>1, <1>2, <1>3, HeaderBlock, SectionsJoined, SMTT(30)
<1>5. Announces(FrameHeader(6 + n), 6, 6 + n)
  BY <1>1, HeaderAnnounces
<1>6. Announces(FrameOf(body), 6 + n, 6 + n)
  BY <1>1, <1>3, <1>5, StillAnnounces
<1>7. QED
  BY <1>1, <1>4, <1>6, ParsableIsReadable DEF Section

LEMMA SearchFrames ==
  /\ Readable(FrameOf(SearchResponse)) /\ Readable(FrameOf(SearchResponseExtended))
  /\ Readable(FrameOf(DescriptionResponse))
<1>1. KNX_INDIVIDUAL_ADDR \in Word /\ 65280 \in Word
  BY DEF KNX_INDIVIDUAL_ADDR, Word
<1>2. /\ Section(HPAI(IPV4_UDP), 8, {"HPAI"})
      /\ Section(DeviceInfo(KNX_INDIVIDUAL_ADDR), 54, {"DEVICE_INFO"})
      /\ Section(DeviceInfo(65280), 54, {"DEVICE_INFO"})
  BY <1>1, HPAIBlock, DeviceInfoBlock DEF IPV4_UDP
<1> DEFINE A == {"HPAI"} \cup {"DEVICE_INFO"}
           B == A \cup {"SUPP_SVC_FAMILIES"}
           C == B \cup {"EXTENDED_DEVICE_INFO"}
           D == C \cup {"IP_CONFIG"}
           E == D \cup {"IP_CUR_CONFIG"}
           F == E \cup {"KNX_ADDRESSES"}
           G == F \cup {"TUNNELLING_INFO"}
<1>3. Section(HPAI(IPV4_UDP) \o DeviceInfo(KNX_INDIVIDUAL_ADDR), 62, A)
  BY <1>2, SectionsJoined
<1>4. Section(SearchResponse, 72, B)
  BY <1>3, FamiliesBlock, SectionsJoined DEF SearchResponse
<1>5. Section(SearchResponse \o ExtendedDeviceInfo, 80, C)
  BY <1>4, ExtendedDeviceInfoBlock, SectionsJoined
<1>6. Section(SearchResponse \o ExtendedDeviceInfo \o IpConfig, 96, D)
  BY <1>5, IpConfigBlock, SectionsJoined
<1>7. Section(SearchResponse \o ExtendedDeviceInfo \o IpConfig \o IpCurrentConfig, 116, E)
  BY <1>6, IpCurrentConfigBlock, SectionsJoined
<1>8. Section(SearchResponse \o ExtendedDeviceInfo \o IpConfig \o IpCurrentConfig
                \o KnxAddresses, 122, F)
  BY <1>7, KnxAddressesBlock, SectionsJoined
<1>9. Section(SearchResponseExtended, 130, G)
  BY <1>8, TunnellingInfoBlock, SectionsJoined DEF SearchResponseExtended
<1>10. Section(DescriptionResponse, 64, {"DEVICE_INFO"} \cup {"SUPP_SVC_FAMILIES"})
  BY <1>2, FamiliesBlock, SectionsJoined DEF DescriptionResponse
<1>11. QED
  BY <1>4, <1>9, <1>10, FrameReadable

LEMMA ConnectionFrames ==
  /\ \A protocol \in 0 .. 255, type \in 0 .. 255 :
       Readable(FrameOf(ConnectResponse(protocol, type)))
  /\ Readable(FrameOf(ConnectionStateResponse)) /\ Readable(FrameOf(DisconnectResponse))
  /\ Readable(FrameOf(TunnellingAck))
<1> DEFINE s == One("plain", "ChannelId", ChannelId) \o One("plain", "Status", 0)
<1>1. ChannelId \in 0 .. 255
  BY DEF ChannelId
<1>2. /\ Part(One("plain", "ChannelId", ChannelId), 1, "plain")
      /\ Part(One("plain", "Status", 0), 1, "plain")
  BY <1>1, Names, Numbers, OnePart, ZenonT(60)
<1>3. Section(s, 2, {})
  BY <1>2, PartsJoined, PlainSection
<1>4. ASSUME NEW protocol \in 0 .. 255, NEW type \in 0 .. 255
      PROVE  Readable(FrameOf(ConnectResponse(protocol, type)))
  <2>1. PICK n \in 0 .. 4, B \in { {}, {"CRD"} } : Section(CRD(type), n, B)
    BY CRDBlock
  <2>2. Section(HPAI(protocol), 8, {"HPAI"})
    BY HPAIBlock
  <2> HIDE DEF s
  <2>3. Section(s \o HPAI(protocol), 10, {} \cup {"HPAI"})
    BY <1>3, <2>2, SectionsJoined
  <2>4. Section(s \o HPAI(protocol) \o CRD(type), 10 + n, ({} \cup {"HPAI"}) \cup B)
    BY <2>1, <2>3, SectionsJoined
  <2>5. ConnectResponse(protocol, type) = s \o HPAI(protocol) \o CRD(type)
    BY DEF ConnectResponse, s
  <2>6. 10 + n \in 0 .. 249
    OBVIOUS
  <2>7. QED
    <3>1. \A b \in ({} \cup {"HPAI"}) \cup B : b # "HEADER" /\ b # "plain"
      BY <2>1
    <3>2. Readable(FrameOf(s \o HPAI(protocol) \o CRD(type)))
      BY <2>4, <2>6, <3>1, FrameReadable, Zenon
    <3>3. QED
      BY <2>5, <3>2
<1>5. /\ Section(ConnectionStateResponse, 2, {}) /\ Section(DisconnectResponse, 2, {})
      /\ Section(TunnellingAck, 4, {"CONNECTION_HEADER"})
  BY <1>3, ConnectionHeaderBlock
  DEF ConnectionStateResponse, DisconnectResponse, TunnellingAck
<1>6. /\ Readable(FrameOf(ConnectionStateResponse))
      /\ Readable(FrameOf(DisconnectResponse)) /\ Readable(FrameOf(TunnellingAck))
  BY <1>5, FrameReadable
<1>7. QED
  BY <1>4, <1>6, Zenon

\* The first n octets of a tunnelled telegram that announces v of them: behind
\* the two headers there are no blocks, and only octets 15 and 16 name a tunnel.
Telegram(s, n, v) ==
  /\ n >= 10 /\ Announces(s, n, v)
  /\ Parsable(s, n, {"HEADER", "CONNECTION_HEADER"})
  /\ NamesTunnel(s, 10)
  /\ \A i \in 11 .. n :
       /\ s[i].block = "plain"
       /\ s[i].field = "TunnelAddress" => i = 15 \/ i = 16

\* Octets of no block, of which the first two may name a tunnel if they come to
\* stand there.
LEMMA TelegramJoined ==
  ASSUME NEW m \in Nat, NEW n \in Nat, NEW s, NEW t, NEW v,
         Telegram(s, m, v), Piece(t, n),
         \A i \in 1 .. n :
           /\ t[i].block = "plain"
           /\ t[i].field = "TunnelAddress" => m + i = 15 \/ m + i = 16
  PROVE  Telegram(s \o t, m + n, v)
<1> DEFINE u == s \o t
<1>1. /\ Piece(s, m) /\ m >= 10 /\ m + n >= 10
      /\ Parsable(s, m, {"HEADER", "CONNECTION_HEADER"})
  BY DEF Telegram, Announces
<1>2. Announces(u, m + n, v)
  BY StillAnnounces DEF Telegram
<1>3. Parsable(u, m + n, {"HEADER", "CONNECTION_HEADER"})
  <2>1. Parsable(t, n, {})
    BY PlainParsable
  <2>2. Parsable(u, m + n, {"HEADER", "CONNECTION_HEADER"} \cup {})
    BY <1>1, <2>1, ParsableJoined
  <2>3. {"HEADER", "CONNECTION_HEADER"} \cup {} = {"HEADER", "CONNECTION_HEADER"}
    OBVIOUS
  <2>4. QED
    BY <2>2, <2>3
<1>4. /\ \A i \in 1 .. m : u[i] = s[i]
      /\ \A i \in m + 1 .. m + n : u[i] = t[i - m]
  <2>1. Joins(u, s, m, t, n)
    BY <1>1, Joined
  <2> HIDE DEF u
  <2>2. QED
    BY <2>1 DEF Joins
<1> HIDE DEF u
<1>5. ASSUME NEW i \in 11 .. m + n
      PROVE  /\ u[i].block = "plain"
             /\ u[i].field = "TunnelAddress" => i = 15 \/ i = 16
  <2>1. CASE i \in 1 .. m
    <3>1. i \in 11 .. m /\ u[i] = s[i]
      BY <1>4, <2>1
    <3>2. QED
      BY <3>1 DEF Telegram
  <2>2. CASE i \in m + 1 .. m + n
    <3>1. i - m \in 1 .. n /\ m + (i - m) = i /\ u[i] = t[i - m]
      BY <1>4, <2>2
    <3>2. QED
      BY <3>1
  <2>3. QED
    BY <2>1, <2>2
<1>6. NamesTunnel(u, 10)
  <2>1. \A i \in 1 .. 10 : u[i] = s[i]
    BY <1>1, <1>4
  <2>2. QED
    BY <2>1 DEF Telegram, NamesTunnel
<1>7. QED
  BY <1>1, <1>2, <1>3, <1>5, <1>6 DEF Telegram, u

\* A tunnelled telegram announces as many octets as it has.
LEMMA TunnelledTelegram ==
  ASSUME NEW n \in 9 .. 128, NEW source \in Word
  PROVE  Telegram(Tunnelled(n, source), 10 + n, 10 + n)
<1> DEFINE a == FrameHeader(10 + n) \o ConnectionHeader
           b == a \o One("plain", "MessageCode", 17)
           c == b \o Fill("plain", "AdditionalInfo", 1)
           d == c \o Fill("plain", "Control", 2)
           e == d \o Two("plain", "TunnelAddress", source)
<1>1. /\ 10 + n \in 0 .. 255 /\ n - 6 \in 0 .. 255 /\ n - 6 \in Nat
      /\ 16 + (n - 6) = 10 + n
  OBVIOUS
<1>2. /\ Part(One("plain", "MessageCode", 17), 1, "plain")
      /\ Part(Fill("plain", "AdditionalInfo", 1), 1, "plain")
      /\ Part(Fill("plain", "Control", 2), 2, "plain")
  BY Names, Numbers, OnePart, FillPart, SMTT(30)
<1>3. Part(Fill("plain", "Telegram", n - 6), n - 6, "plain")
  BY <1>1, Names, FillPart
<1>4. /\ Piece(Two("plain", "TunnelAddress", source), 2)
      /\ \A i \in 1 .. 2 : Two("plain", "TunnelAddress", source)[i].block = "plain"
  <2>1. "TunnelAddress" \in Field /\ "plain" \in Block
    BY DEF Field, Block
  <2>2. /\ Piece(Two("plain", "TunnelAddress", source), 2)
        /\ Two("plain", "TunnelAddress", source)[1]
             = Octet("plain", "TunnelAddress", source \div 256)
        /\ Two("plain", "TunnelAddress", source)[2]
             = Octet("plain", "TunnelAddress", source % 256)
    BY <2>1, TwoPiece
  <2>3. QED
    BY <2>2 DEF Octet
<1>5. Telegram(a, 10, 10 + n)
  <2>1. 10 + n \in Word
    BY <1>1, OctetIsWord
  <2>2. Announces(a, 10, 10 + n)
    <3>1. Announces(FrameHeader(10 + n), 6, 10 + n)
      BY <1>1, HeaderAnnounces
    <3>2. Piece(ConnectionHeader, 4)
      BY ConnectionHeaderBlock DEF Section, Parsable
    <3>3. QED
      BY <3>1, <3>2, StillAnnounces
  <2>3. Section(a, 10, {"HEADER"} \cup {"CONNECTION_HEADER"})
    BY <2>1, HeaderBlock, ConnectionHeaderBlock, SectionsJoined
  <2>4. {"HEADER"} \cup {"CONNECTION_HEADER"} = {"HEADER", "CONNECTION_HEADER"}
    OBVIOUS
  <2> HIDE DEF a
  <2>5. QED
    BY <2>2, <2>3, <2>4 DEF Telegram, Section
<1> HIDE DEF a
<1>6. Telegram(b, 10 + 1, 10 + n)
  BY <1>2, <1>5, TelegramJoined DEF Part
<1>7. Telegram(c, 11 + 1, 10 + n)
  BY <1>2, <1>6, TelegramJoined DEF Part
<1>8. Telegram(d, 12 + 2, 10 + n)
  BY <1>2, <1>7, TelegramJoined DEF Part
<1>9. Telegram(e, 14 + 2, 10 + n)
  BY <1>4, <1>8, TelegramJoined
<1>10. Tunnelled(n, source) = e \o Fill("plain", "Telegram", n - 6)
  BY DEF Tunnelled, a
<1> HIDE DEF e
<1>11. Telegram(e \o Fill("plain", "Telegram", n - 6), 16 + (n - 6), 10 + n)
  BY <1>1, <1>3, <1>9, TelegramJoined DEF Part
<1>12. QED
  BY <1>1, <1>10, <1>11

WithValue(o, v) == [ o EXCEPT !.value = v ]

LEMMA PatchedOctet ==
  ASSUME NEW o \in FrameOctet, NEW v \in 0 .. 255
  PROVE  /\ WithValue(o, v) \in FrameOctet /\ WithValue(o, v).value = v
         /\ WithValue(o, v).block = o.block /\ WithValue(o, v).field = o.field
  BY DEF WithValue, FrameOctet

\* Its confirmation copies no octet it does not have, leaves its blocks alone and
\* names the tunnel 0x11FA, whatever source the client gave.
LEMMA ConfirmationFrame ==
  ASSUME NEW n \in 9 .. 128, NEW source \in Word
  PROVE  Readable(L_Data_con(Tunnelled(n, source)))
<1> DEFINE request == Tunnelled(n, source)
           octet(k) == IF k = 11 THEN [ request[k] EXCEPT !.value = 46 ]
                       ELSE IF k = 15 THEN [ request[k] EXCEPT !.value = 17 ]
                       ELSE IF k = 16 THEN [ request[k] EXCEPT !.value = 250 ]
                       ELSE request[k]
           f == [k \in 1 .. 10 + n |-> octet(k)]
<1>1. Telegram(request, 10 + n, 10 + n) /\ 10 + n \in 0 .. 255 /\ 10 + n \in Nat
  BY TunnelledTelegram
<1> HIDE DEF request
<1>2. /\ Piece(request, 10 + n) /\ request[6].value = 10 + n
      /\ Parsable(request, 10 + n, {"HEADER", "CONNECTION_HEADER"})
      /\ \A i \in 11 .. 10 + n : request[i].block = "plain"
  BY <1>1 DEF Telegram, Announces
<1>3. L_Data_con(request) = f
  BY <1>2 DEF L_Data_con
<1>4. ASSUME NEW k \in 1 .. 10 + n
      PROVE  /\ f[k] \in FrameOctet
             /\ f[k].block = request[k].block /\ f[k].field = request[k].field
             /\ k # 11 /\ k # 15 /\ k # 16 => f[k] = request[k]
             /\ k = 15 => f[k].value = 17
             /\ k = 16 => f[k].value = 250
  <2>1. request[k] \in FrameOctet
    BY <1>1, <1>2, OctetsFit
  <2>2. 46 \in 0 .. 255 /\ 17 \in 0 .. 255 /\ 250 \in 0 .. 255
    OBVIOUS
  <2>3. CASE k = 11
    <3>1. f[k] = WithValue(request[k], 46)
      BY <2>3 DEF WithValue
    <3>2. QED
      BY <2>1, <2>2, <2>3, <3>1, PatchedOctet, SMTT(30)
  <2>4. CASE k = 15
    <3>1. f[k] = WithValue(request[k], 17)
      BY <2>4 DEF WithValue
    <3>2. QED
      BY <2>1, <2>2, <2>4, <3>1, PatchedOctet, SMTT(30)
  <2>5. CASE k = 16
    <3>1. f[k] = WithValue(request[k], 250)
      BY <2>5 DEF WithValue
    <3>2. QED
      BY <2>1, <2>2, <2>5, <3>1, PatchedOctet, SMTT(30)
  <2>6. CASE k # 11 /\ k # 15 /\ k # 16
    BY <2>1, <2>6
  <2>7. QED
    BY <2>3, <2>4, <2>5, <2>6
<1>5. f \in [1 .. 10 + n -> FrameOctet]
  BY <1>4
<1> HIDE DEF f
<1>6. Piece(f, 10 + n)
  BY <1>1, <1>5 DEF Piece
<1>7. Parsable(f, 10 + n, {"HEADER", "CONNECTION_HEADER"})
  <2>1. ASSUME NEW p \in 1 .. 10 + n, Begins(f, p)
        PROVE  Announced(f, 10 + n, p)
    <3>1. p > 1 => p - 1 \in 1 .. 10 + n
      OBVIOUS
    <3>2. Begins(request, p)
      BY <1>4, <2>1, <3>1 DEF Begins
    <3>3. Announced(request, 10 + n, p)
      BY <1>2, <3>2 DEF Parsable
    <3>4. ~ (p \in 11 .. 10 + n)
      BY <1>2, <3>2 DEF Begins
    <3>5. f[p] = request[p]
      BY <1>4, <3>4
    <3>6. \A q \in 1 .. 10 + n : f[q].block = request[q].block
      BY <1>4
    <3>7. QED
      BY <3>3, <3>5, <3>6 DEF Announced
  <2>2. \A i \in 1 .. 10 + n : f[i].block \in {"HEADER", "CONNECTION_HEADER"} \cup {"plain"}
    BY <1>2, <1>4 DEF Parsable
  <2>3. QED
    BY <1>6, <2>1, <2>2 DEF Parsable
<1>8. NamesTunnel(f, 10 + n)
  <2> SUFFICES ASSUME NEW i \in 1 .. (10 + n) - 1, f[i].field = "TunnelAddress",
                      f[i + 1].field = "TunnelAddress"
               PROVE  f[i].value = 17 /\ f[i + 1].value = 250
    BY DEF NamesTunnel
  <2>1. i \in 1 .. 10 + n /\ i + 1 \in 1 .. 10 + n
    OBVIOUS
  <2>2. request[i].field = "TunnelAddress" /\ request[i + 1].field = "TunnelAddress"
    BY <1>4, <2>1
  <2>3. CASE i <= 9
    <3>1. f[i] = request[i] /\ f[i + 1] = request[i + 1]
      BY <1>4, <2>1, <2>3
    <3>2. i \in 1 .. 10 - 1 /\ NamesTunnel(request, 10)
      BY <1>1, <2>3 DEF Telegram
    <3>3. QED
      BY <2>2, <3>1, <3>2 DEF NamesTunnel
  <2>4. CASE i >= 10
    <3>1. i + 1 \in 11 .. 10 + n /\ (i > 10 => i \in 11 .. 10 + n)
      BY <2>4
    <3>2. /\ i + 1 = 15 \/ i + 1 = 16
          /\ i > 10 => i = 15 \/ i = 16
      BY <1>1, <2>2, <3>1 DEF Telegram
    <3>3. i = 15 /\ i + 1 = 16
      BY <3>2
    <3>4. QED
      BY <1>4, <2>1, <3>3
  <2>5. QED
    BY <2>3, <2>4
<1>9. Announces(f, 10 + n, 10 + n)
  <2>1. 5 \in 1 .. 10 + n /\ 6 \in 1 .. 10 + n /\ 10 + n >= 6
    OBVIOUS
  <2>2. f[5] = request[5] /\ f[6] = request[6]
    BY <1>4, <2>1
  <2>3. QED
    BY <1>1, <1>6, <2>1, <2>2 DEF Announces, Telegram
<1>10. Readable(f)
  BY <1>1, <1>7, <1>8, <1>9, ParsableIsReadable
<1>11. QED
  BY <1>3, <1>10 DEF request

-----------------------------------------------------------------------------
\* The octet a piece ends with stays the last one behind another piece.
LEMMA LastOctet ==
  ASSUME NEW m \in Nat, NEW n \in Nat, n > 0, NEW s, NEW t, Piece(s, m), Piece(t, n)
  PROVE  LastOf(s \o t) = LastOf(t)
<1> DEFINE u == s \o t
<1>1. Joins(u, s, m, t, n)
  BY Joined
<1> HIDE DEF u
<1>2. m + n \in m + 1 .. m + n /\ (m + n) - m = n
  OBVIOUS
<1>3. u[m + n] = t[n] /\ Len(u) = m + n /\ Len(t) = n
  BY <1>1, <1>2 DEF Joins, Piece
<1>4. LastOf(u) = LastOf(t)
  BY <1>3 DEF LastOf
<1>5. QED
  BY <1>4 DEF u

LEMMA LastOfThree ==
  ASSUME NEW m \in Nat, NEW n \in Nat, NEW s, NEW t, NEW u,
         Piece(s, m), Piece(t, n), Piece(u, 1)
  PROVE  LastOf(s \o (t \o u)) = u[1]
<1> DEFINE w == t \o u
<1>1. Piece(t \o u, n + 1)
  <2>1. Joins(w, t, n, u, 1)
    BY Joined
  <2> HIDE DEF w
  <2>2. Piece(w, n + 1)
    BY <2>1 DEF Joins
  <2>3. QED
    BY <2>2 DEF w
<1>2. n + 1 \in Nat /\ n + 1 > 0 /\ 1 > 0
  OBVIOUS
<1>3. LastOf(t \o u) = LastOf(u)
  BY <1>2, LastOctet
<1>4. LastOf(s \o (t \o u)) = LastOf(t \o u)
  BY <1>1, <1>2, LastOctet
<1>5. LastOf(u) = u[1]
  BY DEF Piece, LastOf
<1>6. QED
  BY <1>3, <1>4, <1>5

\* The answer to a feature ends with the low octet of its value.
LEMMA FeatureFrame ==
  ASSUME NEW id \in 0 .. 255, NEW v \in Word
  PROVE  /\ Readable(FrameOf(FeatureResponse(id, v)))
         /\ LastOf(FrameOf(FeatureResponse(id, v))).value = v % 256
<1> DEFINE last == One("plain", "FeatureValue", v % 256)
           rest == ConnectionHeader \o One("plain", "FeatureIdentifier", id)
                     \o One("plain", "Status", 0)
<1>1. v % 256 \in 0 .. 255
  BY WordIs
<1>2. /\ Part(One("plain", "FeatureIdentifier", id), 1, "plain")
      /\ Part(One("plain", "Status", 0), 1, "plain") /\ Part(last, 1, "plain")
  BY <1>1, Names, Numbers, OnePart, ZenonT(60)
<1>3. /\ Section(One("plain", "FeatureIdentifier", id), 1, {})
      /\ Section(One("plain", "Status", 0), 1, {}) /\ Section(last, 1, {})
  BY <1>2, PlainSection
<1>4. last[1].value = v % 256
  BY DEF last, One, Octet
<1>5. FeatureResponse(id, v) = rest \o last
  BY DEF FeatureResponse
<1> DEFINE B == ({"CONNECTION_HEADER"} \cup {}) \cup {}
<1>6. Section(rest, 6, B)
  <2>1. Section(ConnectionHeader \o One("plain", "FeatureIdentifier", id), 4 + 1,
                {"CONNECTION_HEADER"} \cup {})
    BY <1>3, ConnectionHeaderBlock, SectionsJoined
  <2>2. Section(rest, (4 + 1) + 1, B)
    BY <1>3, <2>1, SectionsJoined
  <2>3. QED
    BY <2>2
<1> HIDE DEF rest, last
<1>7. Section(FeatureResponse(id, v), 7, B \cup {})
  BY <1>3, <1>5, <1>6, SectionsJoined
<1>8. Readable(FrameOf(FeatureResponse(id, v)))
  BY <1>7, FrameReadable
<1>9. Piece(rest, 6) /\ Piece(last, 1) /\ Len(FeatureResponse(id, v)) = 7
  BY <1>3, <1>6, <1>7 DEF Section, Parsable, Piece
<1>10. FrameOf(FeatureResponse(id, v)) = FrameHeader(13) \o (rest \o last)
  BY <1>5, <1>9 DEF FrameOf
<1>11. Piece(FrameHeader(13), 6)
  <2>1. 13 \in Word
    BY OctetIsWord
  <2>2. QED
    BY <2>1, HeaderBlock DEF Section, Parsable
<1>12. LastOf(FrameHeader(13) \o (rest \o last)) = last[1]
  BY <1>9, <1>11, LastOfThree
<1>13. QED
  BY <1>4, <1>8, <1>10, <1>12

-----------------------------------------------------------------------------
\* The answer to a get is the feature's frame.
LEMMA AnswerToGet ==
  ASSUME NEW h, NEW r, NEW v \in Word, r.svc = "TUNNELLING_FEATURE_GET",
         r.id \in 0 .. 255
  PROVE  LastOf(AnswerTo(h, r, v)).value = v % 256
<1>1. AnswerTo(h, r, v) = FrameOf(FeatureResponse(r.id, v))
  BY Zenon DEF AnswerTo
<1>2. PICK id \in 0 .. 255 : id = r.id
  OBVIOUS
<1>3. LastOf(FrameOf(FeatureResponse(id, v))).value = v % 256
  BY FeatureFrame, ZenonT(60)
<1>4. AnswerTo(h, r, v) = FrameOf(FeatureResponse(id, v))
  BY <1>1, <1>2
<1>5. QED
  BY <1>3, <1>4

\* Whatever a handler answers is readable.
LEMMA AnswerIsReadable ==
  ASSUME NEW h \in Handlers, NEW r \in Request, NEW v \in Word
  PROVE  Readable(AnswerTo(h, r, v))
<1>1. CASE r.svc = "SEARCH_REQUEST"
  <2>1. AnswerTo(h, r, v) = FrameOf(SearchResponse)
    BY <1>1, Zenon DEF AnswerTo
  <2>2. QED
    BY <2>1, SearchFrames
<1>2. CASE r.svc = "SEARCH_REQUEST_EXTENDED"
  <2>1. AnswerTo(h, r, v) = FrameOf(SearchResponseExtended)
    BY <1>2, Zenon DEF AnswerTo
  <2>2. QED
    BY <2>1, SearchFrames
<1>3. CASE r.svc = "DESCRIPTION_REQUEST"
  <2>1. AnswerTo(h, r, v) = FrameOf(DescriptionResponse)
    BY <1>3, Zenon DEF AnswerTo
  <2>2. QED
    BY <2>1, SearchFrames
<1>4. CASE r.svc = "CONNECT_REQUEST"
  <2>1. AnswerTo(h, r, v) = FrameOf(ConnectResponse(r.value, r.id))
    BY <1>4, Zenon DEF AnswerTo
  <2>2. r.id \in 0 .. 255 /\ r.value \in 0 .. 255
    <3>1. r.id \in ConnectionTypes /\ r.value \in { 1, 2 }
      BY <1>4 DEF Request, FeatureRequest, Plain, IPV4_UDP, IPV4_TCP
    <3>2. \A t \in ConnectionTypes : t \in 0 .. 255
      BY IpAnswersAssumption
    <3>3. QED
      BY <3>1, <3>2
  <2>3. QED
    BY <2>1, <2>2, ConnectionFrames, Zenon
<1>5. CASE r.svc = "CONNECTIONSTATE_REQUEST"
  <2>1. AnswerTo(h, r, v) = FrameOf(ConnectionStateResponse)
    BY <1>5, Zenon DEF AnswerTo
  <2>2. QED
    BY <2>1, ConnectionFrames, Zenon
<1>6. CASE r.svc = "DISCONNECT_REQUEST"
  <2>1. AnswerTo(h, r, v) = FrameOf(DisconnectResponse)
    BY <1>6, Zenon DEF AnswerTo
  <2>2. QED
    BY <2>1, ConnectionFrames, Zenon
<1>7. CASE r.svc = "TUNNELLING_REQUEST" /\ h = "udp"
  <2>1. AnswerTo(h, r, v) = FrameOf(TunnellingAck)
    BY <1>7, Zenon DEF AnswerTo
  <2>2. QED
    BY <2>1, ConnectionFrames, Zenon
<1>8. CASE r.svc = "TUNNELLING_REQUEST" /\ h = "tcp"
  <2>1. AnswerTo(h, r, v) = L_Data_con(Tunnelled(r.value, r.id))
    BY <1>8, Zenon DEF AnswerTo
  <2>2. r.value \in 9 .. 128 /\ r.id \in Word
    <3>1. r.id \in Addresses /\ r.value \in Sizes
      BY <1>8 DEF Request, FeatureRequest, Plain
    <3>2. (\A n \in Sizes : n \in 9 .. 128) /\ \A a \in Addresses : a \in Word
      BY IpAnswersAssumption
    <3>3. QED
      BY <3>1, <3>2
  <2>3. QED
    BY <2>1, <2>2, ConfirmationFrame
<1>9. CASE r \in FeatureRequest
  <2>1. AnswerTo(h, r, v) = FrameOf(FeatureResponse(r.id, v))
    <3>1. r.svc = "TUNNELLING_FEATURE_GET" \/ r.svc = "TUNNELLING_FEATURE_SET"
      BY <1>9 DEF FeatureRequest
    <3>2. QED
      BY <3>1, Zenon DEF AnswerTo
  <2>2. PICK id \in 0 .. 255 : id = r.id
    BY <1>9, FeatureValues
  <2>3. Readable(FrameOf(FeatureResponse(id, v)))
    BY FeatureFrame
  <2>4. QED
    BY <2>1, <2>2, <2>3
<1>10. \/ r \in FeatureRequest
       \/ r.svc \in { "SEARCH_REQUEST", "SEARCH_REQUEST_EXTENDED",
                      "DESCRIPTION_REQUEST", "CONNECTIONSTATE_REQUEST",
                      "DISCONNECT_REQUEST", "CONNECT_REQUEST", "TUNNELLING_REQUEST" }
  BY DEF Request, Plain
<1>11. QED
  BY <1>1, <1>2, <1>3, <1>4, <1>5, <1>6, <1>7, <1>8, <1>9, <1>10 DEF Handlers

\* The invariant of the octets: what is sent can be read.
AnswersReadable ==
  /\ answer = [h \in Handlers |-> answer[h]]
  /\ \A h \in Handlers :
       \/ answer[h] = << >> /\ pc[h] # "answered"
       \/ Readable(answer[h])

LEMMA InitAnswered == Init => Answered
  BY DEF Init, Answered

LEMMA BuildAnswered ==
  ASSUME TableInv, Answered, NEW h \in Handlers, Build(h)
  PROVE  Answered'
<1>1. /\ pc[h] = "build" /\ UNCHANGED << req, featureValue >>
      /\ \A g \in Handlers : g # h => pc'[g] = pc[g] /\ answer'[g] = answer[g]
      /\ answer'[h] = AnswerTo(h, req[h], featureValue[h])
      /\ answer' = [g \in Handlers |-> answer'[g]]
  BY ZenonT(60) DEF Build, Answered, TableInv, TableTyped
<1>2. ASSUME IsGet(req[h])
      PROVE  LastOf(answer'[h]).value = featureValue[h] % 256
  <2>1. featureValue[h] \in Word
    BY DEF TableInv, TableTyped
  <2>2. req[h].id \in 0 .. 255 /\ req[h].svc = "TUNNELLING_FEATURE_GET"
    BY <1>2, FeatureValues DEF IsGet
  <2>3. answer'[h] = AnswerTo(h, req[h], featureValue[h])
    BY <1>1
  <2>4. QED
    BY <2>1, <2>2, <2>3, AnswerToGet
<1>3. QED
  BY <1>1, <1>2 DEF Answered

LEMMA AnsweredNext == TableInv /\ Answered /\ [Next]_vars => Answered'
<1> SUFFICES ASSUME TableInv, Answered, [Next]_vars PROVE Answered'
  OBVIOUS
<1>1. ASSUME NEW h \in Handlers, NEW r \in Request, Receive(h, r)
      PROVE  Answered'
  BY <1>1 DEF Receive, Answered, TableInv, TableTyped
<1>2. ASSUME NEW h \in Handlers, FeatureGet(h) PROVE Answered'
  BY <1>2 DEF FeatureGet, Answered, TableInv, TableTyped
<1>3. ASSUME NEW h \in Handlers, FeatureSet(h) PROVE Answered'
  BY <1>3 DEF FeatureSet, Answered, TableInv, TableTyped
<1>4. ASSUME NEW h \in Handlers, Return(h) PROVE Answered'
  BY <1>4 DEF Return, Answered, TableInv, TableTyped
<1>5. CASE UNCHANGED vars
  BY <1>5 DEF vars, Answered
<1>6. QED
  BY <1>1, <1>2, <1>3, <1>4, <1>5, BuildAnswered DEF Next

LEMMA AnswersReadableNext ==
  TableInv /\ AnswersReadable /\ [Next]_vars => AnswersReadable'
<1> SUFFICES ASSUME TableInv, AnswersReadable, [Next]_vars PROVE AnswersReadable'
  OBVIOUS
<1>1. ASSUME NEW h \in Handlers, NEW r \in Request, Receive(h, r)
      PROVE  AnswersReadable'
  BY <1>1 DEF Receive, AnswersReadable, TableInv, TableTyped
<1>2. ASSUME NEW h \in Handlers, FeatureGet(h) \/ FeatureSet(h)
      PROVE  AnswersReadable'
  BY <1>2 DEF FeatureGet, FeatureSet, AnswersReadable, TableInv, TableTyped
<1>3. ASSUME NEW h \in Handlers, Build(h) PROVE AnswersReadable'
  <2>1. req[h] \in Request /\ featureValue[h] \in Word
    BY <1>3 DEF Build, TableInv, TableTyped, AtLabels
  <2>2. Readable(AnswerTo(h, req[h], featureValue[h]))
    BY <2>1, AnswerIsReadable
  <2>3. /\ answer' = [g \in Handlers |-> answer'[g]]
        /\ answer'[h] = AnswerTo(h, req[h], featureValue[h])
        /\ \A g \in Handlers : g # h => answer'[g] = answer[g] /\ pc'[g] = pc[g]
    BY <1>3 DEF Build, AnswersReadable, TableInv, TableTyped
  <2>4. QED
    BY <2>2, <2>3 DEF AnswersReadable
<1>4. ASSUME NEW h \in Handlers, Return(h) PROVE AnswersReadable'
  BY <1>4 DEF Return, AnswersReadable, TableInv, TableTyped
<1>5. CASE UNCHANGED vars
  BY <1>5 DEF vars, AnswersReadable
<1>6. QED
  BY <1>1, <1>2, <1>3, <1>4, <1>5 DEF Next

LEMMA AnswersReadableInvariant == Spec => []AnswersReadable
<1>1. Init => AnswersReadable
  BY DEF Init, AnswersReadable
<1>2. QED
  BY <1>1, TableInvariant, AnswersReadableNext, PTL DEF Spec

\* Every answer is a sequence of octets: no number one of the handlers writes to a
\* single octet is above 255, whichever identifier, value, connection type,
\* address or size of a telegram up to 128 octets it comes from, and the
\* confirmation of a telegram takes no octet from behind the request's end.  And
\* what is stored of a feature stays a number of 16 bits (KNXnetIP_Core.c 29-545,
\* KNXnetIP_Tunnelling.c 134-222, IP_DataLinkLayer.c 286-299).
THEOREM TypeCorrect == Spec => []TypeOK
<1>1. ASSUME TableInv, AnswersReadable
      PROVE  TypeOK
  <2>1. ASSUME NEW h \in Handlers
        PROVE  answer[h] \in Seq(FrameOctet)
    <3>1. CASE answer[h] = << >>
      BY <3>1
    <3>2. CASE Readable(answer[h])
      BY <3>2 DEF Readable, Piece
    <3>3. QED
      BY <1>1, <3>1, <3>2 DEF AnswersReadable
  <2>2. answer \in [Handlers -> Seq(FrameOctet)]
    BY <1>1, <2>1 DEF AnswersReadable
  <2>3. QED
    BY <1>1, <2>2 DEF TableInv, TableTyped, TypeOK
<1>2. QED
  BY <1>1, TableInvariant, AnswersReadableInvariant, PTL

\* Whatever is asked for, with telegrams of up to 128 octets whose length field is
\* right, the structure lengths and TotalLength of the answer a handler puts
\* together lead from block to block to its end (KNXnetIP_Core.c 29-545,
\* IP_DataLinkLayer.c 78-299).
THEOREM AnswersParsed == Spec => []AnswersCanBeParsed
<1>1. AnswersReadable => AnswersCanBeParsed
  <2> SUFFICES ASSUME AnswersReadable, NEW h \in Handlers, pc[h] = "answered"
               PROVE  /\ 256 * answer[h][5].value + answer[h][6].value = Len(answer[h])
                      /\ \A p \in Starts(answer[h]) :
                           /\ answer[h][p].field = "StructureLength"
                           /\ answer[h][p].value = BlockLength(answer[h], p)
    BY DEF AnswersCanBeParsed
  <2>1. Readable(answer[h])
    BY DEF AnswersReadable
  <2>2. QED
    BY <2>1 DEF Readable
<1>2. QED
  BY <1>1, AnswersReadableInvariant, PTL

\* Whatever source a client gives, every answer that names the tunnel names the
\* address 0x11FA (KNXnetIP_Core.c 96-111, 349-414, IP_DataLinkLayer.c 243-266).
THEOREM TunnelIsOne == Spec => []OneTunnelAddress
<1>1. AnswersReadable => OneTunnelAddress
  <2> SUFFICES ASSUME AnswersReadable, NEW h \in Handlers,
                      NEW p \in 1 .. Len(answer[h]) - 1,
                      answer[h][p].field = "TunnelAddress",
                      answer[h][p + 1].field = "TunnelAddress"
               PROVE  answer[h][p].value = 17 /\ answer[h][p + 1].value = 250
    BY DEF OneTunnelAddress
  <2>1. CASE answer[h] = << >>
    <3>1. Len(answer[h]) = 0
      BY <2>1
    <3>2. QED
      BY <3>1
  <2>2. CASE Readable(answer[h])
    BY <2>2 DEF Readable, NamesTunnel
  <2>3. QED
    BY <2>1, <2>2 DEF AnswersReadable
<1>2. QED
  BY <1>1, AnswersReadableInvariant, PTL

\* However the handlers interleave on the table of features, the last octet of the
\* answer to a get of a known feature is the low octet of a value the feature can
\* have had since the request came: one left by the sets answered before, or one
\* of a set that was under way (KNXnetIP_Tunnelling.c 134-222).
THEOREM FeatureCurrent == Spec => []FeatureAnswerIsCurrent
<1>1. TableInv /\ Answered => FeatureAnswerIsCurrent
  <2> SUFFICES ASSUME TableInv, Answered, NEW h \in Handlers,
                      pc[h] = "answered", IsGet(req[h]), req[h].id \in Feature
               PROVE  LastOf(answer[h]).value
                        \in { v % 256 : v \in before[h] \cup overlap[h] }
    BY DEF FeatureAnswerIsCurrent, LastOf
  <2>1. LastOf(answer[h]).value = featureValue[h] % 256
    BY DEF Answered
  <2>2. WorksOn(h, req[h].id)
    BY DEF WorksOn, IsGet
  <2>3. featureValue[h] \in before[h] \cup overlap[h]
    BY <2>2 DEF TableInv, LookedUp
  <2>4. QED
    BY <2>1, <2>3
<1>2. Spec => []Answered
  BY InitAnswered, TableInvariant, AnsweredNext, PTL DEF Spec
<1>3. QED
  BY <1>1, <1>2, TableInvariant, PTL
=============================================================================
