---------------------------- MODULE MCUsbSession ----------------------------
(***************************************************************************)
(* The values TLC gives the constants of UsbSession: a sector is two       *)
(* chunks of two dwords each, the host writes two blocks, and EXT_CSD is   *)
(* the register or zeros.                                                  *)
(***************************************************************************)
EXTENDS UsbSession, TLC

CONSTANTS w1, w2

MCBlocks == {<<w1, w1, w1, w1>>, <<w1, w2, w1, w2>>}
MCExtReplies == {[i \in 1..BlockWords |-> r] : r \in {"ECSD", "ZERO"}}
=============================================================================
