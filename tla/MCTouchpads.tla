---------------------------- MODULE MCTouchpads -----------------------------
(***************************************************************************)
(* Touchpads, for TLC: the pads there are.                                 *)
(***************************************************************************)
EXTENDS Touchpads

(* Elan pads of every hardware version *)
ElanPad(fw, protocol, fingers, buttons, stk) ==
    [fw |-> fw, protocol |-> protocol, fingers |-> fingers, buttons |-> buttons,
     stick |-> stk]
Left == {"left"}
Both == {"left", "right"}
MCPads == {ElanPad(\h011000, 1, 1, Left, FALSE), ElanPad(\h020022, 1, 1, Left, FALSE),
           ElanPad(\h020600, 1, 2, Left, FALSE), ElanPad(\h020800, 2, 1, Both, FALSE),
           ElanPad(\h451f01, 3, 2, Both, FALSE), ElanPad(\h361f05, 4, 2, Left, FALSE),
           ElanPad(\h360f05, 4, 1, Left, TRUE)}

(* Synaptics pads: one with extended W packets, one that is on the SMBus,  *)
(* too, and an old one with a trackpoint                                   *)
SynapticsPad(major, queries, extended, smbus, fingers, stk) ==
    [const |-> 71, major |-> major, queries |-> queries, extw |-> extended,
     intertouch |-> smbus, fingers |-> fingers, stick |-> stk]
MCSynapticsPads == {SynapticsPad(8, 4, TRUE, FALSE, 4, FALSE),
                    SynapticsPad(8, 4, TRUE, TRUE, 1, FALSE),
                    SynapticsPad(4, 0, FALSE, FALSE, 2, TRUE)}
=============================================================================
