--------------------------- MODULE MCPS2Requests ----------------------------
(* Requests as the drivers submit them, for TLC. *)
EXTENDS PS2Requests

Send(says) == [op |-> "send", says |-> says]
Write(says) == [op |-> "write", says |-> says]
Op(op) == [op |-> op]

(* A pad is queried with reporting off while the keyboard's LEDs are set:  *)
(* both drivers follow the advice of VoodooPS2Controller.h.                *)
CarefulPort == [leds |-> "kbd", query |-> "aux"]
CarefulProgram ==
    [leds |-> <<Write("other"), Op("compare"), Write("other"), Op("compare")>>,
     query |-> <<Send("disable"), Send("info"), Op("read"), Send("enable")>>]

ASSUME PromptIsCareful == Prompt => Careful

(* A reset with a flush and a pause, and a command to the keyboard. *)
ResetPort == [leds |-> "kbd", reset |-> "aux"]
ResetProgram ==
    [leds |-> <<Send("other")>>,
     reset |-> <<Op("flush"), Write("other"), Op("sleep"), Op("read")>>]
=============================================================================
