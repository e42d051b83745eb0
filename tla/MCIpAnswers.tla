----------------------------- MODULE MCIpAnswers -----------------------------
(* Small instances of IpAnswers for TLC. *)
EXTENDS IpAnswers

\* A bool feature, one of 16 bits and an identifier the code does not know.
MCIdentifiers == { BUS_CONNECTION_STATUS, HOST_DEVICE_DESC_TYPE_0, 9 }
\* Tunnel, device management and object server connections.
MCConnectionTypes == { 3, 4, 8 }
MCValues    == { 0, 2 }
\* A group write of one octet, and the longest that fits into IP_RxBuffer.
MCSizes     == { 11, 128 }
MCAddresses == { 0, 4353 }
=============================================================================
