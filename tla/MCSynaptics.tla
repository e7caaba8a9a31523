---------------------------- MODULE MCSynaptics -----------------------------
(* Synaptics pads, for TLC. *)
EXTENDS Synaptics

SynapticsPad(major, queries, extended, smbus, fingers, stick) ==
    [const |-> 71, major |-> major, queries |-> queries, extw |-> extended,
     intertouch |-> smbus, fingers |-> fingers, stick |-> stick]
MCSynapticsPads == {SynapticsPad(8, 4, TRUE, FALSE, 4, FALSE),
                    SynapticsPad(8, 4, TRUE, TRUE, 1, FALSE),
                    SynapticsPad(4, 0, FALSE, FALSE, 2, TRUE)}
=============================================================================
