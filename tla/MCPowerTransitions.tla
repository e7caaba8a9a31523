------------------------- MODULE MCPowerTransitions -------------------------
(* A keyboard and one touchpad, for TLC. *)
EXTENDS PowerTransitions

OneMouse == <<"pad">>
=============================================================================
