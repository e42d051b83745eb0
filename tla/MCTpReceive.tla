---------------------------- MODULE MCTpReceive ----------------------------
(***************************************************************************)
(* Telegrams as they are on the bus, with the gateway's own address 1.1.250 *)
(* as their source where the TP-UART returns what it has sent.             *)
(***************************************************************************)
EXTENDS TpReceive, Bitwise, SequencesExt

MCBitXor(a, b) == a ^^ b

\* 0xFF ^ the octets of s.
Checksum(s) == FoldLeft(MCBitXor, 255, s)
WithChecksum(s) == Append(s, Checksum(s))

\* A group write to 1/0/1.
write == WithChecksum(<< 188, 17, 250, 8, 1, 225, 0, 129 >>)
\* A connect to 1.1.250 from itself, without data.
self == WithChecksum(<< 176, 17, 250, 17, 250, 96, 128 >>)
\* A group write to 21/0/1: its fourth octet is the checksum of the first three.
early == WithChecksum(<< 188, 17, 250, 168, 1, 225, 0, 129 >>)

MCSum == [t \in Telegrams |-> [k \in 1 .. Len(t) - 1 |->
                                 Checksum(SubSeq(t, 1, k))]]

confirmed   == << 139 >>
unconfirmed == << 11 >>
errors      == << 255 >>   \* a state indication with every error
poll        == WithChecksum(<< 240, 17, 1, 0, 1, 1 >>)

BusTelegrams  == { write, self, early }
ChipOctets    == { confirmed, unconfirmed, errors, poll }
Confirmations == { confirmed, unconfirmed }
MCGarbage     == { 0, DATACONFIRMSUCCESS }
=============================================================================
