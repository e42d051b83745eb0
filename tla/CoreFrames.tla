------------------------------ MODULE CoreFrames ------------------------------
(***************************************************************************)
(* What the answers of the gateway are made of, octet by octet: the bodies *)
(* KNXnetIP_Core.c and KNXnetIP_Tunnelling.c write one octet after another *)
(* and the header IP_L_Data_Ind puts in front.                             *)
(*                                                                         *)
(* An octet is written for a block (a structure that announces its own     *)
(* length, or "plain") and a field.  Octets nothing reads again - a serial *)
(* number, a name - are only counted: their value is their place in the    *)
(* field.  Each block is a sequence of its own, as its comments in the     *)
(* code have it; whether the StructureLength written first is the number   *)
(* of octets that follow is what there is to check.                        *)
(***************************************************************************)
EXTENDS Naturals, Sequences

Block ==
  { "plain", "HEADER", "CONNECTION_HEADER", "HPAI", "CRD", "DEVICE_INFO",
    "SUPP_SVC_FAMILIES", "EXTENDED_DEVICE_INFO", "IP_CONFIG", "IP_CUR_CONFIG",
    "KNX_ADDRESSES", "TUNNELLING_INFO" }
Field ==
  { "StructureLength", "DescriptionTypeCode", "HostProtocolCode", "IpAddress",
    "PortNumber", "Medium", "Status", "IndividualAddress", "ProjectInstallationId",
    "SerialNumber", "RoutingMulticastAddress", "MacAddress", "FriendlyName",
    "Family", "MediumStatus", "Reserved", "MaximalApduLength", "DeviceDescriptor",
    "SubnetMask", "DefaultGateway", "Capabilities", "Assignment", "DhcpServer",
    "TunnelAddress", "SlotStatus", "ConnectionTypeCode", "ChannelId",
    "SequenceCounter", "FeatureIdentifier", "FeatureValue", "ProtocolVersion",
    "ServiceType", "TotalLength", "MessageCode", "AdditionalInfo", "Control",
    "Telegram" }
FrameOctet == [ block : Block, field : Field, value : 0 .. 255 ]

Octet(block, field, value) == [ block |-> block, field |-> field, value |-> value ]

\* Numbers of two octets.
Word == 0 .. 65535

\* A field of one octet, of a 16-bit number (high octet first), of n octets.
One(block, field, value) == << Octet(block, field, value) >>
Two(block, field, value) ==
  << Octet(block, field, value \div 256), Octet(block, field, value % 256) >>
Fill(block, field, n) == [ k \in 1 .. n |-> Octet(block, field, k) ]

\* What every block starts with; a DIB has a type after its length.
Length(block, n)    == One(block, "StructureLength", n)
Dib(block, n, type) == Length(block, n) \o One(block, "DescriptionTypeCode", type)

-----------------------------------------------------------------------------
\* The tables of KNXnetIP_Core.c that no code changes.
ChannelId == 1                   \* KNXnetIP_Channel[0].ChannelId
IPV4_UDP  == 1
IPV4_TCP  == 2
KNX_INDIVIDUAL_ADDR == 4353      \* 0x1101
KnxSupportedServiceFamilies == << "CORE", "DEVICEMGMT", "TUNNELLING", "SECURE" >>
KNXnetIP_KnxIndividualAddresses == << KNX_INDIVIDUAL_ADDR, 4602 >>   \* 0x11FA
KNXnetIP_TunnelingSlot == << 4602 >>                                 \* 0x11FA
TUNNEL_CONNECTION      == 4
DEVICE_MGMT_CONNECTION == 3

\* The control endpoint: the gateway's own in a search answer, the one of the
\* request in a connect answer.
HPAI(protocol) ==
  Length("HPAI", 8) \o One("HPAI", "HostProtocolCode", protocol)
    \o Fill("HPAI", "IpAddress", 4) \o Fill("HPAI", "PortNumber", 2)

DeviceInfo(address) ==
  Dib("DEVICE_INFO", 54, 1)
    \o Fill("DEVICE_INFO", "Medium", 1) \o Fill("DEVICE_INFO", "Status", 1)
    \o Two("DEVICE_INFO", "IndividualAddress", address)
    \o Fill("DEVICE_INFO", "ProjectInstallationId", 2)
    \o Fill("DEVICE_INFO", "SerialNumber", 6)
    \o Fill("DEVICE_INFO", "RoutingMulticastAddress", 4)
    \o Fill("DEVICE_INFO", "MacAddress", 6)
    \o Fill("DEVICE_INFO", "FriendlyName", 30)

\* An identifier and a version for each of the families.
SupportedServiceFamilies ==
  Dib("SUPP_SVC_FAMILIES", 10, 2)
    \o Fill("SUPP_SVC_FAMILIES", "Family", 2 * Len(KnxSupportedServiceFamilies))

\* Seeded bug: the structure length of the block before two fields were added.
ExtendedDeviceInfoShort ==
  Dib("EXTENDED_DEVICE_INFO", 6, 8)
    \o Fill("EXTENDED_DEVICE_INFO", "MediumStatus", 1)
    \o Fill("EXTENDED_DEVICE_INFO", "Reserved", 1)
    \o Two("EXTENDED_DEVICE_INFO", "MaximalApduLength", 240)
    \o Two("EXTENDED_DEVICE_INFO", "DeviceDescriptor", 22277)

ExtendedDeviceInfo ==
  Dib("EXTENDED_DEVICE_INFO", 8, 8)
    \o Fill("EXTENDED_DEVICE_INFO", "MediumStatus", 1)
    \o Fill("EXTENDED_DEVICE_INFO", "Reserved", 1)
    \o Two("EXTENDED_DEVICE_INFO", "MaximalApduLength", 240)
    \o Two("EXTENDED_DEVICE_INFO", "DeviceDescriptor", 22277)        \* 0x5705

IpConfig ==
  Dib("IP_CONFIG", 16, 3)
    \o Fill("IP_CONFIG", "IpAddress", 4) \o Fill("IP_CONFIG", "SubnetMask", 4)
    \o Fill("IP_CONFIG", "DefaultGateway", 4)
    \o Fill("IP_CONFIG", "Capabilities", 1) \o Fill("IP_CONFIG", "Assignment", 1)

IpCurrentConfig ==
  Dib("IP_CUR_CONFIG", 20, 4)
    \o Fill("IP_CUR_CONFIG", "IpAddress", 4) \o Fill("IP_CUR_CONFIG", "SubnetMask", 4)
    \o Fill("IP_CUR_CONFIG", "DefaultGateway", 4)
    \o Fill("IP_CUR_CONFIG", "DhcpServer", 4)
    \o Fill("IP_CUR_CONFIG", "Assignment", 1) \o Fill("IP_CUR_CONFIG", "Reserved", 1)

\* The device's own address first, then that of the tunnel.
KnxAddresses ==
  Dib("KNX_ADDRESSES", 6, 5)
    \o Two("KNX_ADDRESSES", "IndividualAddress", KNXnetIP_KnxIndividualAddresses[1])
    \o Two("KNX_ADDRESSES", "TunnelAddress", KNXnetIP_KnxIndividualAddresses[2])

TunnellingInfo ==
  Dib("TUNNELLING_INFO", 8, 7)
    \o Two("TUNNELLING_INFO", "MaximalApduLength", 240)
    \o Two("TUNNELLING_INFO", "TunnelAddress", KNXnetIP_TunnelingSlot[1])
    \o Fill("TUNNELLING_INFO", "Reserved", 1)
    \o Fill("TUNNELLING_INFO", "SlotStatus", 1)

\* The CRD of a connect answer; a connection of any other type gets none.
CRD(type) ==
  IF type = TUNNEL_CONNECTION
  THEN Length("CRD", 4) \o One("CRD", "ConnectionTypeCode", type)
         \o Two("CRD", "TunnelAddress", KNXnetIP_TunnelingSlot[1])
  ELSE IF type = DEVICE_MGMT_CONNECTION
  THEN Length("CRD", 2) \o One("CRD", "ConnectionTypeCode", type)
  ELSE << >>

\* Channel, sequence counter and a reserved octet; the acknowledge has a status
\* in the place of the last.
ConnectionHeader ==
  Length("CONNECTION_HEADER", 4) \o One("CONNECTION_HEADER", "ChannelId", ChannelId)
    \o Fill("CONNECTION_HEADER", "SequenceCounter", 1)
    \o Fill("CONNECTION_HEADER", "Reserved", 1)

-----------------------------------------------------------------------------
\* The bodies, by answer.
SearchResponse ==
  HPAI(IPV4_UDP) \o DeviceInfo(KNX_INDIVIDUAL_ADDR) \o SupportedServiceFamilies

SearchResponseExtended ==
  SearchResponse \o ExtendedDeviceInfo \o IpConfig \o IpCurrentConfig
    \o KnxAddresses \o TunnellingInfo

\* The device information of a description names the address 0xFF00.
DescriptionResponse == DeviceInfo(65280) \o SupportedServiceFamilies

ConnectResponse(protocol, type) ==
  One("plain", "ChannelId", ChannelId) \o One("plain", "Status", 0)
    \o HPAI(protocol) \o CRD(type)

\* The handlers pass no error.
ConnectionStateResponse ==
  One("plain", "ChannelId", ChannelId) \o One("plain", "Status", 0)

DisconnectResponse ==
  One("plain", "ChannelId", ChannelId) \o One("plain", "Status", 0)

TunnellingAck == ConnectionHeader

\* Seeded bug: the value is not cut to the octet it is written to.
FeatureResponseWide(feature, value) ==
  ConnectionHeader \o One("plain", "FeatureIdentifier", feature)
    \o One("plain", "Status", 0) \o One("plain", "FeatureValue", value)

FeatureResponse(feature, value) ==
  ConnectionHeader \o One("plain", "FeatureIdentifier", feature)
    \o One("plain", "Status", 0) \o One("plain", "FeatureValue", value % 256)

-----------------------------------------------------------------------------
\* The header IP_L_Data_Ind writes in front of a body, and the whole frame.
FrameHeader(total) ==
  Length("HEADER", 6) \o Fill("HEADER", "ProtocolVersion", 1)
    \o Fill("HEADER", "ServiceType", 2) \o Two("HEADER", "TotalLength", total)

FrameOf(body) == FrameHeader(6 + Len(body)) \o body

\* A tunnelled telegram as it arrives: n octets of cEMI behind the headers, the
\* address the client gives as its source among them.
Tunnelled(n, source) ==
  FrameHeader(10 + n) \o ConnectionHeader
    \o One("plain", "MessageCode", 17) \o Fill("plain", "AdditionalInfo", 1)
    \o Fill("plain", "Control", 2) \o Two("plain", "TunnelAddress", source)
    \o Fill("plain", "Telegram", n - 6)

\* Seeded bug: the source is replaced by the address of the device.
L_Data_conDeviceAddress(request) ==
  [ k \in 1 .. request[6].value |->
      IF k = 11 THEN [ request[k] EXCEPT !.value = 46 ]
      ELSE IF k = 15 THEN [ request[k] EXCEPT !.value = KNX_INDIVIDUAL_ADDR \div 256 ]
      ELSE IF k = 16 THEN [ request[k] EXCEPT !.value = KNX_INDIVIDUAL_ADDR % 256 ]
      ELSE request[k] ]

\* L_Data.con on TCP: as many octets of the request as the low octet of its
\* TotalLength says, with the message code and the source address replaced.
L_Data_con(request) ==
  [ k \in 1 .. request[6].value |->
      IF k = 11 THEN [ request[k] EXCEPT !.value = 46 ]
      ELSE IF k = 15 THEN [ request[k] EXCEPT !.value = 17 ]
      ELSE IF k = 16 THEN [ request[k] EXCEPT !.value = 250 ]
      ELSE request[k] ]
=============================================================================
