----------------------------- MODULE MCTpTransmit -----------------------------
(***************************************************************************)
(* Small instances of TpTransmit.  Two tasks: a telegram with one octet of  *)
(* data, and one that has come with less but announces more, so much that   *)
(* the checksum is put onto the source address.  Or one task: a telegram of *)
(* sixty octets of data.                                                    *)
(***************************************************************************)
EXTENDS TpTransmit, TLC

CONSTANTS short, wild, long

\* The index has ten values in the first instance: (7 + 4) % 10 = 1.
MCLength == [ t \in Telegrams |->
                CASE t = short -> 1 [] t = wild -> 4 [] t = long -> 60 ]
MCCemiLength == [ t \in Telegrams |->
                  CASE t = short -> 11 [] t = wild -> 10 [] t = long -> 70 ]

\* The two tasks run the same code.
Symmetry == Permutations(Handlers)
=============================================================================
