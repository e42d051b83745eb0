------------------------------- MODULE IpAnswers -------------------------------
(***************************************************************************)
(* The two handlers that run IP_L_Data_Ind, seen by a client that reads    *)
(* every octet of an answer, and the table of tunnelling features they     *)
(* share.  Each request is accepted here, and an answer is put together in *)
(* one step: what the handlers do to each other's frames in IP_TxBuffer is *)
(* in IpGateway.  The feature is looked up in a step of its own, before    *)
(* that.  A telegram a client tunnels has no additional information, and   *)
(* its length field is right.                                              *)
(***************************************************************************)
EXTENDS CoreFrames, FiniteSets

CONSTANTS
  Identifiers,      \* the feature identifiers clients name, known or not
  Values,           \* the values they set; one octet of the request
  ConnectionTypes,  \* the connection types they ask for
  Sizes,            \* the lengths of the telegrams they tunnel
  Addresses         \* the source addresses they put in them

ASSUME IpAnswersAssumption ==
  /\ Identifiers \subseteq 0 .. 255
  /\ Values \subseteq 0 .. 255
  /\ ConnectionTypes \subseteq 0 .. 255
  /\ Sizes \subseteq 9 .. 128     \* what IP_RxBuffer takes of a telegram
  /\ Addresses \subseteq Word

Handlers == { "udp", "tcp" }

\* KNXnetIP_FeatureIdentifierType.
SUPPORTED_EMI_TYPE      == 1
HOST_DEVICE_DESC_TYPE_0 == 2
BUS_CONNECTION_STATUS   == 3
KNX_MANUFACTURER_CODE   == 4
ACTIVE_EMI_TYPE         == 5
INFO_SERVICE_EN         == 8
Feature == 1 .. 5 \cup { INFO_SERVICE_EN }

Plain(svc) == [ svc |-> svc, id |-> 0, value |-> 0 ]

\* The requests, with the octet or number the answer depends on: the feature and
\* its value, the connection type and the host protocol, the source and the
\* length of a telegram.
FeatureRequest ==
  [ svc : { "TUNNELLING_FEATURE_GET" }, id : Identifiers, value : {0} ]
    \cup [ svc : { "TUNNELLING_FEATURE_SET" }, id : Identifiers, value : Values ]

Request ==
  FeatureRequest
    \cup { Plain(svc) : svc \in
             { "SEARCH_REQUEST", "SEARCH_REQUEST_EXTENDED",
               "DESCRIPTION_REQUEST", "CONNECTIONSTATE_REQUEST",
               "DISCONNECT_REQUEST" } }
    \cup [ svc : { "CONNECT_REQUEST" }, id : ConnectionTypes,
            value : { IPV4_UDP, IPV4_TCP } ]
    \cup [ svc : { "TUNNELLING_REQUEST" }, id : Addresses, value : Sizes ]

CONSTANT NoRequest
ASSUME NoRequestAssumption == NoRequest \notin Request

VARIABLES
  pc,        \* pc[h]: "idle", "switch", "build" or "answered"
  req,       \* req[h]: the request of handler h
  featureValue,                \* featureValue[h]: what h has looked up
  KNXnetIP_TunnellingFeature,  \* the shared table
  answer,    \* answer[h]: the octets of the answer h has put together
  \* What the clients know, from their requests and answers alone.
  canHold,   \* canHold[f]: the values feature f may have, left by the sets
             \* that have been answered
  before,    \* before[h]: canHold of the feature h was asked for, at that time
  overlap    \* overlap[h]: the values of sets of that feature that were under
             \* way since

vars == << pc, req, featureValue, KNXnetIP_TunnellingFeature, answer,
           canHold, before, overlap >>

TypeOK ==
  /\ pc \in [Handlers -> { "idle", "switch", "build", "answered" }]
  /\ req \in [Handlers -> Request \cup {NoRequest}]
  /\ featureValue \in [Handlers -> Word]
  /\ KNXnetIP_TunnellingFeature \in [Feature -> Word]
  /\ answer \in [Handlers -> Seq(FrameOctet)]
  /\ canHold \in [Feature -> SUBSET Word]
  /\ before \in [Handlers -> SUBSET Word]
  /\ overlap \in [Handlers -> SUBSET Word]

\* KNXnetIP_TunnellingInit, called before the tasks start.  It leaves
\* InfoServiceEnable at the zero of static memory.
TunnellingInit ==
  LET written == << 4,      \* CEMI_ONLY
                    22277,  \* KNXNETIP_SYS7, 0x5705
                    1, 131,
                    3 >>    \* CEMI
  IN  [ f \in Feature |-> IF f = INFO_SERVICE_EN THEN 0 ELSE written[f] ]

Init ==
  /\ pc = [h \in Handlers |-> "idle"]
  /\ req = [h \in Handlers |-> NoRequest]
  /\ featureValue = [h \in Handlers |-> 0]
  /\ KNXnetIP_TunnellingFeature = TunnellingInit
  /\ answer = [h \in Handlers |-> << >>]
  /\ canHold = [f \in Feature |-> { TunnellingInit[f] }]
  /\ before = [h \in Handlers |-> {}]
  /\ overlap = [h \in Handlers |-> {}]

-----------------------------------------------------------------------------
\* Two features are of type bool: what is not zero is stored as one.
Stored(f, v) ==
  IF f \in { BUS_CONNECTION_STATUS, INFO_SERVICE_EN } /\ v # 0 THEN 1 ELSE v

IsGet(r) == r \in FeatureRequest /\ r.svc = "TUNNELLING_FEATURE_GET"
IsSet(r) == r \in FeatureRequest /\ r.svc = "TUNNELLING_FEATURE_SET"

\* The values sets of feature f by handlers other than h are about to store, or
\* have stored without being answered.
UnderWay(h, f) ==
  { Stored(f, req[g].value) :
      g \in { u \in Handlers \ {h} : IsSet(req[u]) /\ req[u].id = f } }

Receive(h, r) ==
  /\ pc[h] = "idle"
  /\ req' = [req EXCEPT ![h] = r]
  /\ pc' = [pc EXCEPT ![h] = IF r \in FeatureRequest THEN "switch" ELSE "build"]
  /\ IF r \in FeatureRequest /\ r.id \in Feature
     THEN /\ before' = [before EXCEPT ![h] = canHold[r.id]]
          /\ overlap' =
               [g \in Handlers |->
                  IF g = h THEN UnderWay(h, r.id)
                  ELSE IF IsSet(r) /\ req[g] \in FeatureRequest /\ req[g].id = r.id
                  THEN overlap[g] \cup { Stored(r.id, r.value) } ELSE overlap[g]]
     ELSE UNCHANGED << before, overlap >>
  /\ UNCHANGED << featureValue, KNXnetIP_TunnellingFeature, answer, canHold >>

\* Seeded bug: one break less, so that the device descriptor is answered with the
\* value of the next case.
FeatureGetNoBreak(h) ==
  /\ pc[h] = "switch"
  /\ IsGet(req[h])
  /\ featureValue' =
       [featureValue EXCEPT ![h] =
          IF req[h].id = HOST_DEVICE_DESC_TYPE_0
          THEN KNXnetIP_TunnellingFeature[BUS_CONNECTION_STATUS]
          ELSE IF req[h].id \in Feature
          THEN KNXnetIP_TunnellingFeature[req[h].id] ELSE 0]
  /\ pc' = [pc EXCEPT ![h] = "build"]
  /\ UNCHANGED << req, KNXnetIP_TunnellingFeature, answer, canHold, before,
                  overlap >>

\* An unknown identifier is answered with 0.
FeatureGet(h) ==
  /\ pc[h] = "switch"
  /\ IsGet(req[h])
  /\ featureValue' =
       [featureValue EXCEPT ![h] =
          IF req[h].id \in Feature
          THEN KNXnetIP_TunnellingFeature[req[h].id] ELSE 0]
  /\ pc' = [pc EXCEPT ![h] = "build"]
  /\ UNCHANGED << req, KNXnetIP_TunnellingFeature, answer, canHold, before,
                  overlap >>

\* Seeded bug: the value is stored as it came, although the field is a bool.
FeatureSetRaw(h) ==
  /\ pc[h] = "switch"
  /\ IsSet(req[h])
  /\ IF req[h].id \in Feature
     THEN KNXnetIP_TunnellingFeature' =
            [KNXnetIP_TunnellingFeature EXCEPT ![req[h].id] = req[h].value]
     ELSE UNCHANGED KNXnetIP_TunnellingFeature
  /\ featureValue' = [featureValue EXCEPT ![h] = req[h].value]
  /\ pc' = [pc EXCEPT ![h] = "build"]
  /\ UNCHANGED << req, answer, canHold, before, overlap >>

\* The answer repeats the value of the request, not what is stored; a set of an
\* unknown identifier stores nothing and is answered all the same.
FeatureSet(h) ==
  /\ pc[h] = "switch"
  /\ IsSet(req[h])
  /\ IF req[h].id \in Feature
     THEN KNXnetIP_TunnellingFeature' =
            [KNXnetIP_TunnellingFeature EXCEPT
               ![req[h].id] = Stored(req[h].id, req[h].value)]
     ELSE UNCHANGED KNXnetIP_TunnellingFeature
  /\ featureValue' = [featureValue EXCEPT ![h] = req[h].value]
  /\ pc' = [pc EXCEPT ![h] = "build"]
  /\ UNCHANGED << req, answer, canHold, before, overlap >>

\* The frame handler h answers request r with; v is what it looked up.
AnswerTo(h, r, v) ==
  CASE r.svc = "SEARCH_REQUEST"          -> FrameOf(SearchResponse)
    [] r.svc = "SEARCH_REQUEST_EXTENDED" -> FrameOf(SearchResponseExtended)
    [] r.svc = "DESCRIPTION_REQUEST"     -> FrameOf(DescriptionResponse)
    [] r.svc = "CONNECT_REQUEST"         -> FrameOf(ConnectResponse(r.value, r.id))
    [] r.svc = "CONNECTIONSTATE_REQUEST" -> FrameOf(ConnectionStateResponse)
    [] r.svc = "DISCONNECT_REQUEST"      -> FrameOf(DisconnectResponse)
    [] r.svc = "TUNNELLING_REQUEST" /\ h = "udp" -> FrameOf(TunnellingAck)
    [] r.svc = "TUNNELLING_REQUEST" /\ h = "tcp" ->
         L_Data_con(Tunnelled(r.value, r.id))
    [] OTHER                             -> FrameOf(FeatureResponse(r.id, v))

Build(h) ==
  /\ pc[h] = "build"
  /\ answer' = [answer EXCEPT ![h] = AnswerTo(h, req[h], featureValue[h])]
  /\ pc' = [pc EXCEPT ![h] = "answered"]
  /\ UNCHANGED << req, featureValue, KNXnetIP_TunnellingFeature, canHold,
                  before, overlap >>

\* The client has the answer: after a set, the feature has the value set or that
\* of a set that overlapped with it.
Return(h) ==
  /\ pc[h] = "answered"
  /\ pc' = [pc EXCEPT ![h] = "idle"]
  /\ req' = [req EXCEPT ![h] = NoRequest]
  /\ featureValue' = [featureValue EXCEPT ![h] = 0]
  /\ answer' = [answer EXCEPT ![h] = << >>]
  /\ before' = [before EXCEPT ![h] = {}]
  /\ overlap' = [overlap EXCEPT ![h] = {}]
  /\ canHold' =
       IF IsSet(req[h]) /\ req[h].id \in Feature
       THEN [canHold EXCEPT ![req[h].id] =
               { Stored(req[h].id, req[h].value) } \cup overlap[h]]
       ELSE canHold
  /\ UNCHANGED KNXnetIP_TunnellingFeature

Next ==
  \E h \in Handlers :
    \/ \E r \in Request : Receive(h, r)
    \/ FeatureGet(h) \/ FeatureSet(h) \/ Build(h) \/ Return(h)

Spec == Init /\ [][Next]_vars

-----------------------------------------------------------------------------
(***************************************************************************)
(* Properties.                                                             *)
(***************************************************************************)
\* Where a block starts in the frame f.
Starts(f) ==
  { p \in 1 .. Len(f) :
      f[p].block # "plain" /\ (p > 1 => f[p - 1].block # f[p].block) }

\* The octets from p on that belong to the block that starts there.
BlockLength(f, p) == Cardinality({ q \in 1 .. Len(f) : f[q].block = f[p].block })

\* A client that skips from block to block by the structure lengths lands on
\* every block of an answer, and stops where TotalLength says the frame ends:
\* the constants KNXnetIP_Core.c writes in front of the blocks agree with the
\* octets it writes behind them, whatever the request.
AnswersCanBeParsed ==
  \A h \in Handlers :
    pc[h] = "answered" =>
      LET f == answer[h]
      IN  /\ 256 * f[5].value + f[6].value = Len(f)
          /\ \A p \in Starts(f) :
               /\ f[p].field = "StructureLength"
               /\ f[p].value = BlockLength(f, p)

\* Wherever an answer names the address of the tunnel it is the same: in the
\* CRD a client is given when it connects, in the search answers, and as the
\* source of its telegrams in every L_Data.con, whatever source it gave.
OneTunnelAddress ==
  \A h \in Handlers :
    \A p \in 1 .. Len(answer[h]) - 1 :
      answer[h][p].field = "TunnelAddress" /\ answer[h][p + 1].field = "TunnelAddress"
        => << answer[h][p].value, answer[h][p + 1].value >> = << 17, 250 >>

\* However the handlers interleave, a client that gets a feature is answered
\* with the low octet of a value the feature can have had in the meantime: one
\* left by the sets answered before it asked, or of a set that was under way.
FeatureAnswerIsCurrent ==
  \A h \in Handlers :
    pc[h] = "answered" /\ IsGet(req[h]) /\ req[h].id \in Feature =>
      answer[h][Len(answer[h])].value
        \in { v % 256 : v \in before[h] \cup overlap[h] }
=============================================================================
