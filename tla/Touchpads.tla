----------------------------- MODULE Touchpads ------------------------------
(***************************************************************************)
(* The touchpad drivers besides FocalTech and FTE0001.  IOKit gives the    *)
(* port to one of them, the one whose probe has the highest score, for     *)
(* good: part is the module that describes it, or one aspect of it that    *)
(* does not depend on the rest.  The other modules' variables keep a fixed *)
(* value.                                                                  *)
(***************************************************************************)
EXTENDS Naturals

CONSTANTS
    Pads,                                               \* Elan
    SynapticsPads, QuietPackets, QuietFingers,          \* Synaptics
    MaxPointers,                                        \* PadGate
    OpcValues                                           \* Sentelic

VARIABLES
    part,
    pad, drv, quiet, client,                            \* Elan, Synaptics
    aligned, ignoreall, exact, whole, stick,            \* Elan
    missed,                                             \* Synaptics
    gate, led, awake,                                   \* PadGate
    line, stream, plain,                                \* PadStream
    button, cause, click, garbled                       \* Sentelic

elan == <<pad, aligned, drv, ignoreall, quiet, client, exact, whole, stick>>
synaptics == <<pad, drv, quiet, client, missed>>
padgate == <<gate, led, awake>>
padstream == <<line, stream, aligned, plain>>
sentelic == <<pad, drv, button, cause, click, garbled>>
vars == <<part, elan, synaptics, padgate, padstream, sentelic>>

Elan == INSTANCE Elan
Synaptics == INSTANCE Synaptics
Gate == INSTANCE PadGate
Stream == INSTANCE PadStream
Sentelic == INSTANCE Sentelic

ASSUME ElanAssumption == Elan!Assumptions
ASSUME SynapticsAssumption == SynapticsPads \subseteq Synaptics!Model
ASSUME GateAssumption == MaxPointers \in Nat
ASSUME SentelicAssumption == OpcValues \subseteq Sentelic!Byte

Off == 0        \* the value of a variable that is not used
NoElan == ignoreall = Off /\ exact = Off /\ whole = Off /\ stick = Off
NoSynaptics == missed = Off
NoGate == gate = Off /\ led = Off /\ awake = Off
NoStream == line = Off /\ stream = Off /\ plain = Off
NoSentelic == button = Off /\ cause = Off /\ click = Off /\ garbled = Off

Init ==
    \/ /\ part = "elan" /\ Elan!Init
       /\ NoSynaptics /\ NoGate /\ NoStream /\ NoSentelic
    \/ /\ part = "synaptics" /\ Synaptics!Init
       /\ NoElan /\ aligned = Off /\ NoGate /\ NoStream /\ NoSentelic
    \/ /\ part = "gate" /\ Gate!Init
       /\ pad = Off /\ drv = Off /\ quiet = Off /\ client = Off /\ aligned = Off
       /\ NoElan /\ NoSynaptics /\ NoStream /\ NoSentelic
    \/ /\ part = "stream" /\ Stream!Init
       /\ pad = Off /\ drv = Off /\ quiet = Off /\ client = Off
       /\ NoElan /\ NoSynaptics /\ NoGate /\ NoSentelic
    \/ /\ part = "sentelic" /\ Sentelic!Init
       /\ quiet = Off /\ client = Off /\ aligned = Off
       /\ NoElan /\ NoSynaptics /\ NoGate /\ NoStream

Next ==
    \/ /\ part = "elan" /\ Elan!Next
       /\ UNCHANGED <<part, missed, padgate, line, stream, plain,
                      button, cause, click, garbled>>
    \/ /\ part = "synaptics" /\ Synaptics!Next
       /\ UNCHANGED <<part, aligned, ignoreall, exact, whole, stick, padgate,
                      line, stream, plain, button, cause, click, garbled>>
    \/ /\ part = "gate" /\ Gate!Next
       /\ UNCHANGED <<part, elan, missed, line, stream, plain,
                      button, cause, click, garbled>>
    \/ /\ part = "stream" /\ Stream!Next
       /\ UNCHANGED <<part, synaptics, ignoreall, exact, whole, stick, padgate,
                      button, cause, click, garbled>>
    \/ /\ part = "sentelic" /\ Sentelic!Next
       /\ UNCHANGED <<part, aligned, ignoreall, quiet, client, exact, whole, stick, missed,
                      padgate, line, stream, plain>>

Spec == Init /\ [][Next]_vars

-----------------------------------------------------------------------------
(***************************************************************************)
(* The properties of the modules, each for its part                        *)
(***************************************************************************)

(* Elan: once a report was handled to its last packet, VoodooInput has the *)
(* fingers that are on the pad, each at its place, whatever packets were   *)
(* ignored, dropped or misread before it (the report routines of the four  *)
(* versions, elantechSetProperties).                                       *)
ReportIsShown == part = "elan" => Elan!ReportIsShown

(* Elan: VoodooInput holds no button that neither the pad's last event nor *)
(* the trackpoint's last packet has down (sendTouchData).                  *)
NoStuckButton == part = "elan" => Elan!NoStuckButton

(* Synaptics: whenever the fingers are about to be reported, each physical *)
(* finger has a virtual finger of its own and no other virtual finger      *)
(* touches, if no packet fell into a quiet time and the pad tells at most  *)
(* four fingers (renumberFingers).                                         *)
ContactsAreFingers == part = "synaptics" => Synaptics!ContactsAreFingers

(* Synaptics: they all have a type then, and no two the same, unless that  *)
(* is the thumb's (assignFingerType, freeAndMarkVirtualFingers).           *)
FingersHaveTypes == part = "synaptics" => Synaptics!FingersHaveTypes

(* Synaptics: only a packet of the trackpoint, or a reset of the pad,      *)
(* releases the trackpoint's button (synaptics_parse_hw_state).            *)
StickButtonKept == [][part = "synaptics" => Synaptics!StickStep]_vars

(* Synaptics and Elan: the pad is ignored only if the keyboard switched it *)
(* off or while a mouse is attached (setPropertiesGated,                   *)
(* notificationHIDAttachedHandlerGated).                                   *)
NotLockedOut == part = "gate" => Gate!NotLockedOut

(* Synaptics and Sentelic: driver and pad are at the same byte of a        *)
(* packet, if they agree on its length and as long as no byte is lost or   *)
(* taken for a reset (interruptOccurred, setDevicePowerState).             *)
PadFramed == part = "stream" => Stream!PadFramed

(* Synaptics and Sentelic: one packet whose other bytes do not look like   *)
(* marked ones brings the driver back to the beginning of a packet         *)
(* (interruptOccurred).                                                    *)
PlainPacketResyncs == part = "stream" => Stream!PlainPacketResyncs

(* Sentelic: with Clicking off a tap presses no button, if the pad has     *)
(* answered (fsp_opctag_enable, dispatchRelativePointerEventWithPacket).   *)
TapsAreFiltered == part = "sentelic" => Sentelic!TapsAreFiltered

=============================================================================
