------------------------------- MODULE IpFrames -------------------------------
(***************************************************************************)
(* The KNXnet/IP frames the gateway receives and the ones it builds: which *)
(* requests IP_L_Data_Ind accepts, which of them it answers, and with what.*)
(*                                                                         *)
(* A frame is a service and the data it carries.  Its octets are           *)
(* abstracted to segments: segment 0 is the six-octet KNXnet/IP header,    *)
(* the others cut the rest of the frame.  SegCount plays the part of       *)
(* TotalLength; only its differences between services matter here.         *)
(***************************************************************************)
EXTENDS Naturals

CONSTANTS
  Data,      \* payloads: an HPAI, a bus telegram, a tunnelling feature
  Blank,     \* the payload of a frame whose octets do not depend on a request
  SegCount,  \* SegCount[svc]: the length, in segments, of a frame of service svc
  MaxSegs    \* the capacity of IP_TxBuffer, in segments

RequestService ==
  { "SEARCH_REQUEST", "SEARCH_REQUEST_EXTENDED", "DESCRIPTION_REQUEST",
    "CONNECT_REQUEST", "CONNECTIONSTATE_REQUEST", "DISCONNECT_REQUEST",
    "DISCONNECT_RESPONSE", "TUNNELLING_REQUEST", "TUNNELLING_FEATURE_GET",
    "TUNNELLING_FEATURE_SET", "UNSUPPORTED" }

FrameService ==
  { "SEARCH_RESPONSE", "SEARCH_RESPONSE_EXTENDED", "DESCRIPTION_RESPONSE",
    "CONNECT_RESPONSE", "CONNECTIONSTATE_RESPONSE", "DISCONNECT_RESPONSE",
    "TUNNELLING_ACK", "TUNNELLING_FEATURE_RESPONSE",
    "L_DATA_REQ", "L_DATA_CON", "L_DATA_IND", "T_ACK" }

ASSUME SegCountAssumption ==
  /\ MaxSegs \in Nat
  /\ SegCount \in [FrameService -> 2 .. MaxSegs]

\* What is wrong with a frame, if something is: the first check of IP_L_Data_Ind
\* it fails, or the low octet of its total length, which nothing checks, is 0.
Fault == { "none", "header_size", "version", "host_protocol", "zero_length" }

Payload == Data \cup {Blank}

Request == [ svc : RequestService, data : Payload, fault : Fault ]
Frame   == [ svc : FrameService, data : Payload ]

-----------------------------------------------------------------------------
\* The header, version and host protocol checks.  A frame that fails one is
\* dropped: the error code the code computes for it is never sent.
Accepted(r) == r.fault \in { "none", "zero_length" }

\* A telegram tunnelled over TCP is answered with as many octets as its own
\* total length says: with none, if that is 0.
Unlengthed(task, r) ==
  task = "tcp" /\ r.svc = "TUNNELLING_REQUEST" /\ r.fault = "zero_length"

\* The requests for which the switch of IP_L_Data_Ind builds an answer: it
\* leaves txLength at 0 for DISCONNECT_RESPONSE and in the default case too.
Answered(task, r) ==
  /\ Accepted(r)
  /\ r.svc \notin { "DISCONNECT_RESPONSE", "UNSUPPORTED" }
  /\ ~Unlengthed(task, r)

\* The answer to an answered request, by the transport it came over: a
\* tunnelled telegram is acknowledged on UDP and echoed as an L_Data.con on TCP.
AnswerService(task, svc) ==
  CASE svc = "SEARCH_REQUEST"          -> "SEARCH_RESPONSE"
    [] svc = "SEARCH_REQUEST_EXTENDED" -> "SEARCH_RESPONSE_EXTENDED"
    [] svc = "DESCRIPTION_REQUEST"     -> "DESCRIPTION_RESPONSE"
    [] svc = "CONNECT_REQUEST"         -> "CONNECT_RESPONSE"
    [] svc = "CONNECTIONSTATE_REQUEST" -> "CONNECTIONSTATE_RESPONSE"
    [] svc = "DISCONNECT_REQUEST"      -> "DISCONNECT_RESPONSE"
    [] svc = "TUNNELLING_REQUEST" /\ task = "udp" -> "TUNNELLING_ACK"
    [] svc = "TUNNELLING_REQUEST" /\ task # "udp" -> "L_DATA_CON"
    [] OTHER                           -> "TUNNELLING_FEATURE_RESPONSE"

\* The answers whose octets repeat something of the request: the HPAI of a
\* CONNECT_REQUEST, the feature of a FEATURE request, the telegram of an
\* L_Data.con.  Every other answer is the same for every request.
Echoing == { "CONNECT_RESPONSE", "TUNNELLING_FEATURE_RESPONSE", "L_DATA_CON" }

Answer(task, r) ==
  LET svc == AnswerService(task, r.svc)
  IN  [ svc |-> svc, data |-> IF svc \in Echoing THEN r.data ELSE Blank ]

\* What an L_Data.con is before its message code and source address are
\* patched: the octets of the request it is copied from.
Unpatched(f) == [ f EXCEPT !.svc = "L_DATA_REQ" ]

-----------------------------------------------------------------------------
\* The i-th segment of frame f, and the positions of its header and body.
Segment(f, i) == << f, i >>
Header   == { 0 }
Body(f)  == 1 .. (SegCount[f.svc] - 1)
Whole(f) == 0 .. (SegCount[f.svc] - 1)

\* Frame f as the sequence of segments a reader of the socket should receive.
Octets(f) == [ k \in 1 .. SegCount[f.svc] |-> Segment(f, k - 1) ]
=============================================================================
