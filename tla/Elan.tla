-------------------------------- MODULE Elan --------------------------------
(***************************************************************************)
(* The Elan touchpad driver: what it finds out about the pad, how it sets  *)
(* the pad up at start and on wake, and what becomes of the packets of the *)
(* four hardware versions.  A version 3 pad reports two fingers with a     *)
(* head and a tail packet.  A version 4 pad reports which fingers touch    *)
(* (status), then where each of them is (head), then how one or two of     *)
(* them move (motion).                                                     *)
(*                                                                         *)
(* A packet is handled in the step that completes it; PacketRing has the   *)
(* queue in between.  Of a position the model keeps whether it is the      *)
(* one that the pad means.  Of the framing it keeps whether driver and pad *)
(* agree on the first byte: interruptOccurred only counts.                 *)
(***************************************************************************)
EXTENDS Naturals, FiniteSets

CONSTANT Pads       \* the pads there are: [fw, protocol, fingers, buttons, stick]

Button == {"left", "right"}
Finger == 0 .. 4                    \* ETP_MAX_FINGERS

VARIABLES
    pad,        \* the pad; see Pad
    aligned,    \* driver and pad agree on where a packet begins
    drv,        \* the driver's state; see Driver
    ignoreall,  \* the driver ignores the pad; PadGate says when
    quiet,      \* the time after a key or the trackpoint was used
    client,     \* what VoodooInput was told last; see Client
    exact,      \* the fingers whose stored position is the pad's
    whole,      \* history: every packet of the present report was handled,
                \* the last with an event, and every motion since
    stick       \* history: the buttons of the last trackpoint packet

vars == <<pad, aligned, drv, ignoreall, quiet, client, exact, whole, stick>>

Pad == [
    is : Pads,
    on : BOOLEAN,               \* reports are enabled
    absolute : BOOLEAN,         \* it is in absolute mode
    down : SUBSET Finger,       \* the fingers on it
    owed : SUBSET Finger]       \* those still to come in the present report

Driver == [
    running : BOOLEAN,
    published : BOOLEAN,        \* VoodooInputSupported
    touch : SUBSET Finger,      \* virtualFinger[].touch
    held : 0 .. 5,              \* heldFingers
    heads : 0 .. 6,             \* headPacketsCount; above held it never matches
    first : BOOLEAN,            \* etd.mt[0] is of the report under way
    skipped : 0 .. 2,           \* etd.single_finger_reports
    last : SUBSET Button]       \* lastLeftButton, lastRightButton

Client == [
    open : BOOLEAN,             \* voodooInputInstance
    contacts : SUBSET Finger,
    exact : SUBSET Finger,      \* those it was told the right place of
    buttons : SUBSET Button]

NewDriver == [running |-> FALSE, published |-> FALSE, touch |-> {}, held |-> 0,
              heads |-> 0, first |-> FALSE, skipped |-> 0, last |-> {}]
NoClient == [open |-> FALSE, contacts |-> {}, exact |-> {}, buttons |-> {}]

-----------------------------------------------------------------------------
(***************************************************************************)
(* probe                                                                   *)
(***************************************************************************)
Bit(n, i) == (n \div 2^i) % 2 = 1

(* The three bytes of the firmware version, and the version of the IC body *)
FwByte(fw, i) == (fw \div 256^(2 - i)) % 256
IcVersion(fw) == FwByte(fw, 0) % 16

(* elantech_is_signature_valid: a Logitech mouse answers the magic knock   *)
(* too, but then reports a sampling rate.                                  *)
IsSignatureValid(fw) ==
    /\ FwByte(fw, 0) # 0
    /\ \/ FwByte(fw, 1) = 0
       \/ /\ IcVersion(fw) >= 6 /\ FwByte(fw, 2) < 40
          /\ FwByte(fw, 1) % 16 = 15
          /\ ~ Bit(FwByte(fw, 1), 5) /\ ~ Bit(FwByte(fw, 1), 7)
       \/ FwByte(fw, 2) \notin {200, 100, 80, 60, 40, 20, 10}

Early(fw) == fw < \h020030 \/ fw = \h020600

(* elantechSetProperties; 0 is the version it refuses. *)
HwVersion(fw) ==
    CASE Early(fw) -> 1
      [] ~ Early(fw) /\ IcVersion(fw) \in {2, 4} -> 2
      [] ~ Early(fw) /\ IcVersion(fw) = 5 -> 3
      [] ~ Early(fw) /\ IcVersion(fw) \in 6 .. 15 -> 4
      [] OTHER -> 0

(* What the constant must be: each pad speaks the protocol of the version  *)
(* its firmware stands for, if that is one the driver knows.               *)
Assumptions ==
    \A p \in Pads :
        /\ p.protocol \in 1 .. 4 /\ p.fingers \in 0 .. 5
        /\ p.buttons \in SUBSET Button
        /\ HwVersion(p.fw) \in {0, p.protocol}

PacketLength(version) == IF version = 1 THEN 4 ELSE 6
Jumpy(fw) == fw \in {\h020022, \h020600}
IsButtonpad(fw) == Bit(fw, 12)

(* What is asked of the pad; an unanswered question ends probe, but for    *)
(* the resolution.                                                         *)
Question == {"knock", "signature", "version", "capabilities", "sample", "id"}
Asked(fw) ==
    {"knock", "signature", "version", "capabilities"}
    \cup (IF HwVersion(fw) = 1 THEN {} ELSE {"sample"})
    \cup (IF HwVersion(fw) = 1 \/ fw \in {\h020800, \h020b00, \h020030}
          THEN {} ELSE {"id"})

(* elantechDetect and elantechQueryInfo *)
Probe(fw, silent) ==
    /\ silent \cap Asked(fw) = {}
    /\ IsSignatureValid(fw)
    /\ HwVersion(fw) # 0

-----------------------------------------------------------------------------
(***************************************************************************)
(* sendTouchData                                                           *)
(***************************************************************************)

(* Fault: a release is not worth a report. *)
ChangedButtons_Presses(buttons) == [send |-> buttons \ drv.last # {},
                                    buttons |-> buttons \ drv.last]

(* The buttons that changed: a report names those of them that are down,   *)
(* and so forgets one that stays down.                                     *)
ChangedButtons(buttons) == [send |-> buttons # drv.last, buttons |-> buttons \ drv.last]

(* A pad with buttons of its own reports them as the trackpoint's. *)
ButtonsSent(touch, buttons) ==
    CASE IsButtonpad(pad.is.fw) -> client.buttons
      [] ~ IsButtonpad(pad.is.fw) /\ touch = {} -> buttons
      [] ~ IsButtonpad(pad.is.fw) /\ touch # {} ->
            IF ChangedButtons(buttons).send THEN ChangedButtons(buttons).buttons
            ELSE client.buttons

(* d: the driver after the packet; buttons: leftButton and rightButton;    *)
(* right: the positions that are                                           *)
SendTouchData(d, buttons, right) ==
    IF quiet
    THEN drv' = d /\ UNCHANGED client
    ELSE /\ drv' = IF IsButtonpad(pad.is.fw) THEN d ELSE [d EXCEPT !.last = buttons]
         /\ client' = IF ~ client.open THEN client
                      ELSE [client EXCEPT !.contacts = d.touch,
                                          !.exact = d.touch \cap right,
                                          !.buttons = ButtonsSent(d.touch, buttons)]

-----------------------------------------------------------------------------
(***************************************************************************)
(* The packets.  right: the exact positions after the packet.              *)
(***************************************************************************)
(* elantechReportAbsoluteV1 and V2: every packet tells all. *)
ReportAbsoluteV1(packet, right) ==
    LET jumpy == Jumpy(pad.is.fw)
        d == [drv EXCEPT !.skipped = IF packet.count = 1 THEN @ ELSE 0]
    IN  IF jumpy /\ packet.count = 1 /\ drv.skipped < 2
        THEN drv' = [drv EXCEPT !.skipped = @ + 1] /\ UNCHANGED client
        ELSE SendTouchData([(IF jumpy THEN d ELSE drv) EXCEPT
                               !.touch = 0 .. packet.count - 1], packet.buttons, right)
ReportAbsoluteV2(packet, right) ==
    SendTouchData([drv EXCEPT !.touch = 0 .. packet.count - 1], packet.buttons, right)

(* elantechReportAbsoluteV3: the head of a two-finger report is kept. *)
ReportAbsoluteV3(packet, right) ==
    IF packet.type = "head" /\ packet.count = 2
    THEN drv' = [drv EXCEPT !.first = packet.true] /\ UNCHANGED client
    ELSE LET right3 == IF packet.count = 2 /\ ~ drv.first THEN right \ {0} ELSE right
         IN  SendTouchData([drv EXCEPT !.touch = 0 .. packet.count - 1],
                           packet.buttons, right3)

(* Fault: head packets of an interrupted report still count. *)
ProcessPacketStatusV4_KeepsCount(packet, right) ==
    LET d == [drv EXCEPT !.touch = packet.down,
                                      !.held = Cardinality(packet.down)]
    IN  IF packet.down = {} THEN SendTouchData(d, packet.buttons, right)
        ELSE drv' = d /\ UNCHANGED client

ProcessPacketStatusV4(packet, right) ==
    LET d == [drv EXCEPT !.touch = packet.down, !.heads = 0,
                                      !.held = Cardinality(packet.down)]
    IN  IF packet.down = {} THEN SendTouchData(d, packet.buttons, right)
        ELSE drv' = d /\ UNCHANGED client

ProcessPacketHeadV4(packet, right) ==
    LET heads == IF drv.heads < 6 THEN drv.heads + 1 ELSE 6
        d == [drv EXCEPT !.heads = heads]
    IN  IF packet.ids # {} /\ heads = drv.held
        THEN SendTouchData([d EXCEPT !.heads = 0], packet.buttons, right)
        ELSE drv' = d /\ UNCHANGED client

ProcessPacketMotionV4(packet, right) ==
    IF packet.ids = {} THEN UNCHANGED <<drv, client>>
    ELSE SendTouchData(drv, packet.buttons, right)

(* elantechReportTrackpoint, which also begins a quiet time *)
ReportTrackpoint(packet) ==
    /\ quiet' = TRUE
    /\ stick' = packet.buttons
    /\ client' = IF client.open THEN [client EXCEPT !.buttons = packet.buttons] ELSE client
    /\ UNCHANGED drv

(* packetReady for one packet: the checks of elantechPacketCheckV1 to V4   *)
(* have given it its type, "none" if they refused it or it is a debounce.  *)
PacketReady(packet, right) ==
    \/ /\ ignoreall \/ packet.type = "none"
       /\ UNCHANGED <<drv, client, quiet, stick>>
    \/ /\ ~ ignoreall /\ packet.type = "trackpoint"
       /\ ReportTrackpoint(packet)
    \/ /\ ~ ignoreall /\ packet.type \notin {"none", "trackpoint"}
       /\ CASE HwVersion(pad.is.fw) = 1 -> ReportAbsoluteV1(packet, right)
            [] HwVersion(pad.is.fw) = 2 -> ReportAbsoluteV2(packet, right)
            [] HwVersion(pad.is.fw) = 3 -> ReportAbsoluteV3(packet, right)
            [] HwVersion(pad.is.fw) = 4 ->
                 CASE packet.type = "status" -> ProcessPacketStatusV4(packet, right)
                   [] packet.type = "head" -> ProcessPacketHeadV4(packet, right)
                   [] packet.type = "motion" -> ProcessPacketMotionV4(packet, right)
       /\ UNCHANGED <<quiet, stick>>

-----------------------------------------------------------------------------
(***************************************************************************)
(* What the pad sends                                                      *)
(***************************************************************************)
Fingers == 0 .. pad.is.fingers - 1
NoPacket == [type |-> "none"]

(* The buttons of a buttonpad are part of its contacts and not modelled. *)
Pressed == IF IsButtonpad(pad.is.fw) THEN {{}} ELSE SUBSET pad.is.buttons

(* What the checks can make of six bytes that are not a packet.  A         *)
(* trackpoint packet has its own signature.                                *)
Garbage ==
    {NoPacket} \cup
    IF HwVersion(pad.is.fw) = 4
    THEN [type : {"status"}, down : SUBSET Fingers, buttons : Pressed]
         \cup [type : {"head", "motion"}, ids : {{}, {0}}, buttons : Pressed]
    ELSE [type : {"head", "tail"}, count : 0 .. pad.is.fingers, true : {FALSE},
          buttons : Pressed]

Framed == aligned /\ pad.absolute
Handled(fate) == drv.running /\ Framed /\ fate = "arrives" /\ ~ ignoreall

(* The pad sends a packet.  fate: it arrives, is dropped whole by the      *)
(* ring, or loses a byte.  right: the exact positions if it is handled,    *)
(* and kept: those that are still exact if it is not.                      *)
Send(packet, fate, right, kept, begins, ends) ==
    /\ pad.on
    /\ aligned' \in IF fate # "cut" THEN {aligned}
                    ELSE IF aligned THEN {FALSE} ELSE BOOLEAN
    /\ CASE Handled(fate) -> PacketReady(packet, right) /\ exact' = right
         [] ~ Handled(fate) /\ drv.running /\ fate = "arrives" /\ ~ Framed ->
              \E garbage \in Garbage :
                 PacketReady(garbage, {}) /\ exact' = {}
         [] OTHER -> UNCHANGED <<drv, client, quiet, stick>> /\ exact' = kept
    /\ whole' = /\ begins \/ whole
                /\ Handled(fate)
                /\ ends => client.open /\ ~ quiet /\ packet.type # "none"
                           /\ drv'.skipped = drv.skipped
    /\ UNCHANGED ignoreall

(* Versions 1 to 3: the number of fingers, and where one or two are *)
PadReports(count, buttons, fate) ==
    /\ pad.is.protocol < 4 /\ pad.owed = {}
    /\ LET two == pad.is.protocol = 3 /\ count = 2
       IN  /\ pad' = [pad EXCEPT !.down = 0 .. count - 1, !.owed = IF two THEN {1} ELSE {}]
           /\ Send([type |-> "head", count |-> count, true |-> TRUE, buttons |-> buttons],
                   fate, 0 .. count - 1, {}, TRUE, ~ two)

PadReportsTail(buttons, fate) ==
    /\ pad.is.protocol < 4 /\ pad.owed # {}
    /\ pad' = [pad EXCEPT !.owed = {}]
    /\ Send([type |-> "tail", count |-> 2, buttons |-> buttons], fate, {0, 1}, {},
            FALSE, TRUE)

(* Version 4 *)
PadSendsStatus(down, buttons, fate) ==
    /\ pad.is.protocol = 4 /\ pad.owed = {} /\ down # pad.down
    /\ pad' = [pad EXCEPT !.down = down, !.owed = down]
    /\ Send([type |-> "status", down |-> down, buttons |-> buttons], fate,
            exact \cap down \cap pad.down, exact \cap down \cap pad.down,
            TRUE, down = {})

PadSendsHead(finger, buttons, fate) ==
    /\ pad.is.protocol = 4 /\ finger \in pad.owed
    /\ pad' = [pad EXCEPT !.owed = @ \ {finger}]
    /\ Send([type |-> "head", ids |-> {finger}, buttons |-> buttons], fate,
            exact \cup {finger}, exact, FALSE, pad.owed = {finger})

PadSendsMotion(ids, buttons, fate) ==
    /\ pad.is.protocol = 4 /\ pad.owed = {}
    /\ ids # {} /\ ids \subseteq pad.down /\ Cardinality(ids) <= 2
    /\ UNCHANGED pad
    /\ Send([type |-> "motion", ids |-> ids, buttons |-> buttons], fate,
            exact, exact \ ids, FALSE, FALSE)

(* The trackpoint's packets come between any others. *)
StickSends(buttons) ==
    /\ pad.on /\ pad.is.stick /\ drv.running /\ Framed
    /\ PacketReady([type |-> "trackpoint", buttons |-> buttons], exact)
    /\ UNCHANGED <<pad, aligned, ignoreall, exact, whole>>

(* A version 2 or 3 pad that debounces *)
PadDebounces ==
    /\ pad.on /\ pad.is.protocol \in {2, 3} /\ drv.running /\ Framed
    /\ PacketReady(NoPacket, exact)
    /\ UNCHANGED <<pad, aligned, ignoreall, exact, whole>>

-----------------------------------------------------------------------------
(***************************************************************************)
(* start, stop, power, message, the client                                 *)
(***************************************************************************)

(* elantechSetupPS2 and setTouchPadEnable(true).  set: whether             *)
(* elantechSetAbsoluteMode succeeded, which no caller looks at.  early: a  *)
(* byte came between the two enable commands, the second of which makes    *)
(* the pad start its report again.  down: the fingers on the pad by then.  *)
SetUp(set, early, down) ==
    /\ pad' = [pad EXCEPT !.on = TRUE, !.absolute = set, !.down = down,
                          !.owed = IF pad.is.protocol = 4 THEN down ELSE {}]
    /\ aligned' = ~ (set /\ early)
    /\ exact' = {}
    /\ whole' = FALSE

Start(silent, set, early) ==
    /\ ~ drv.running
    /\ Probe(pad.is.fw, silent)
    /\ drv' = [NewDriver EXCEPT !.running = TRUE, !.published = set]
    /\ ignoreall' = FALSE
    /\ SetUp(set, early, {})
    /\ UNCHANGED <<client, quiet, stick>>

Stop ==
    /\ drv.running
    /\ pad' = [pad EXCEPT !.on = FALSE, !.owed = {}]
    /\ drv' = NewDriver
    /\ ignoreall' = FALSE
    /\ client' = NoClient
    /\ quiet' = FALSE /\ whole' = FALSE /\ exact' = {} /\ stick' = {} /\ aligned' = TRUE

(* setDevicePowerState *)
DisableDevice ==
    /\ drv.running /\ pad.on
    /\ pad' = [pad EXCEPT !.on = FALSE, !.owed = {}]
    /\ whole' = FALSE
    /\ UNCHANGED <<aligned, drv, ignoreall, quiet, client, exact, stick>>

EnableDevice(set, early, down) ==
    /\ drv.running /\ ~ pad.on
    /\ drv' = [drv EXCEPT !.published = set \/ @]
    /\ SetUp(set, early, down)
    /\ UNCHANGED <<ignoreall, quiet, client, stick>>

(* kPS2M_resetTouchpad *)
ResetTouchpad(set, early, down) ==
    /\ drv.running /\ pad.on
    /\ ignoreall' = FALSE
    /\ drv' = [drv EXCEPT !.published = set \/ @]
    /\ SetUp(set, early, down)
    /\ UNCHANGED <<quiet, client, stick>>

(* kPS2M_setDisableTouchpad, setProperties and mice that come and go; see  *)
(* PadGate for what they do.                                               *)
IgnoreAll(on) ==
    /\ drv.running /\ ignoreall # on
    /\ ignoreall' = on
    /\ UNCHANGED <<pad, aligned, drv, quiet, client, exact, whole, stick>>

(* kPS2M_notifyKeyTime, and maxaftertyping later *)
KeyPressed ==
    /\ drv.running /\ quiet' = TRUE
    /\ UNCHANGED <<pad, aligned, drv, ignoreall, client, exact, whole, stick>>
QuietEnds ==
    /\ quiet /\ quiet' = FALSE
    /\ UNCHANGED <<pad, aligned, drv, ignoreall, client, exact, whole, stick>>

(* handleOpen: VoodooInput attaches to a service with VoodooInputSupported. *)
HandleOpen ==
    /\ drv.published /\ ~ client.open
    /\ client' = [NoClient EXCEPT !.open = TRUE]
    /\ whole' = FALSE
    /\ UNCHANGED <<pad, aligned, drv, ignoreall, quiet, exact, stick>>
HandleClose ==
    /\ client.open
    /\ client' = NoClient
    /\ whole' = FALSE
    /\ UNCHANGED <<pad, aligned, drv, ignoreall, quiet, exact, stick>>

Init ==
    /\ pad \in [is : Pads, on : {FALSE}, absolute : {FALSE}, down : {{}}, owed : {{}}]
    /\ aligned = TRUE /\ drv = NewDriver /\ ignoreall = FALSE /\ quiet = FALSE
    /\ client = NoClient /\ exact = {} /\ whole = FALSE /\ stick = {}

Fate == {"arrives", "dropped", "cut"}

PadSends ==
    \E buttons \in Pressed, fate \in Fate :
       \/ \E count \in 0 .. pad.is.fingers : PadReports(count, buttons, fate)
       \/ PadReportsTail(buttons, fate)
       \/ \E down \in SUBSET Fingers : PadSendsStatus(down, buttons, fate)
       \/ \E finger \in Fingers : PadSendsHead(finger, buttons, fate)
       \/ \E ids \in SUBSET Fingers : PadSendsMotion(ids, buttons, fate)

Next ==
    \/ PadSends
    \/ \E buttons \in SUBSET pad.is.buttons : StickSends(buttons)
    \/ PadDebounces
    \/ \E set, early \in BOOLEAN :
          \/ \E silent \in {{}} \cup {{q} : q \in Question} : Start(silent, set, early)
          \/ \E down \in SUBSET Fingers :
                EnableDevice(set, early, down) \/ ResetTouchpad(set, early, down)
    \/ Stop
    \/ DisableDevice
    \/ \E on \in BOOLEAN : IgnoreAll(on)
    \/ KeyPressed
    \/ QuietEnds
    \/ HandleOpen
    \/ HandleClose

Spec == Init /\ [][Next]_vars

-----------------------------------------------------------------------------
(***************************************************************************)
(* Properties                                                              *)
(***************************************************************************)

(* The variables have their types. *)
TypeOK ==
    /\ pad \in Pad /\ drv \in Driver /\ client \in Client
    /\ {aligned, ignoreall, quiet, whole} \subseteq BOOLEAN
    /\ exact \subseteq Finger /\ stick \subseteq Button

(* Once a report was handled to its last packet, VoodooInput has the       *)
(* fingers that are on the pad, each at its place, whatever packets were   *)
(* ignored, dropped or misread before it (the report routines of the four  *)
(* versions, elantechSetProperties).                                       *)
ReportIsShown ==
    whole /\ pad.owed = {} => client.contacts = pad.down /\ client.exact = pad.down

(* VoodooInput holds no button that neither the pad's last event nor the   *)
(* trackpoint's last packet has down (sendTouchData).                      *)
NoStuckButton == client.buttons \subseteq drv.last \cup stick
=============================================================================
