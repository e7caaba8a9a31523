------------------------------ MODULE MCFTE0001 ------------------------------
(***************************************************************************)
(* A contact inside the logical range on one axis and beyond it on the     *)
(* other, with bytes that look like headers to interruptOccurred.          *)
(***************************************************************************)
EXTENDS FTE0001

MCContactBytes == {<<9, 250, 31>>}
MCLayouts == {{}, {1}, {0, 1}, {0, 2, 3}, {0, 1, 2, 3}}
=============================================================================
