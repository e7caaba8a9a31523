------------------------------ MODULE MCMouse -------------------------------
(***************************************************************************)
(* Mouse, for TLC.  The deltas 170 and 0 look like the announcement of a   *)
(* reset; the wheel byte 8 looks like the first byte of a packet.          *)
(***************************************************************************)
EXTENDS Mouse

MCMasks == SUBSET Button        \* every mask of four buttons
=============================================================================
