------------------------------- MODULE Mouse --------------------------------
(***************************************************************************)
(* The mouse driver: MouseStream up to the packets, or MouseButtons from   *)
(* the packets on; part tells which.  The variables of the other module    *)
(* keep their first values.                                                *)
(***************************************************************************)
EXTENDS MouseButtons

CONSTANTS
    Kinds, Pressed, Moves, Wheels, ForcedRes, Slots, ResetLimit     \* MouseStream

VARIABLES
    part,
    dev, sent, meant, coming, stream, ring, setup, aligned, still   \* MouseStream

streamVars == <<dev, sent, meant, coming, stream, ring, setup, aligned, still>>

Stream == INSTANCE MouseStream

ASSUME StreamAssumption == Stream!Assumptions

(* The settings and the mouse are fixed where they do not matter. *)
MouseInit ==
    /\ part \in {"buttons", "stream"} /\ Init /\ Stream!Init
    /\ part = "buttons" => dev.kind = CHOOSE kind \in Kinds : TRUE
    /\ part = "stream" => ~ fake /\ count = CHOOSE n \in ButtonCounts : TRUE

MouseNext ==
    \/ part = "buttons" /\ Next /\ UNCHANGED <<part, streamVars>>
    \/ part = "stream" /\ Stream!Next /\ UNCHANGED <<part, vars>>

MouseSpec == MouseInit /\ [][MouseNext]_<<part, vars, streamVars>>

FairMouse == MouseSpec /\ Fairness

(* Driver and mouse agree on the length of a report, and as long as no     *)
(* byte is lost or taken for a reset on where they are in it and on its    *)
(* buttons (resetMouse, setIntellimouseMode, interruptOccurred).           *)
Framed == Stream!Framed

(* However the stream was disturbed, one report without movement brings    *)
(* the driver back to the beginning of a packet (interruptOccurred).       *)
StillReportResyncs == Stream!StillReportResyncs
=============================================================================
