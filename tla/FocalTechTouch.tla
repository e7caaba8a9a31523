--------------------------- MODULE FocalTechTouch ---------------------------
(***************************************************************************)
(* What ApplePS2FocalTech makes of the packets of an FLT touchpad: finger  *)
(* state, the side of a physical click, the Force Click emulation, and the *)
(* two channels to VoodooInput (touch events and buttons).                 *)
(*                                                                         *)
(* One action is one handler: a packet (packetReady), the force timer, the *)
(* power actions, open and close.  FocalTechForceRace splits the two       *)
(* handlers that run on different threads.                                 *)
(*                                                                         *)
(* Left out: contact width, previousCoordinates and timestamps, which no   *)
(* decision reads; packets of an unknown type, which change nothing here.  *)
(***************************************************************************)
EXTENDS Integers

CONSTANTS
    MaxFingers,         \* FOC_MAX_FINGERS
    xMax, yMax,         \* the pad's size, as readDimensions reports it
    ForceMoveCancel,    \* kForceMoveCancel
    Position,           \* the <<x, y>> that absolute packets carry
    Delta,              \* the <<dx, dy>> that relative packets carry
    Reach               \* bound on the coordinates relative packets add up to

ASSUME DimensionAssumption ==
    /\ MaxFingers \in Nat /\ MaxFingers > 0
    /\ xMax \in Nat /\ yMax \in Nat /\ ForceMoveCancel \in Nat
ASSUME PacketAssumption == Position \subseteq Int \X Int /\ Delta \subseteq Int \X Int
ASSUME ReachAssumption == Reach \in Nat

Finger == 0 .. MaxFingers - 1
NoFinger == -1

(* Button masks of the trackpoint channel. *)
Left == 1
Right == 2

VARIABLES
    hardware,       \* _hardware: pressed, and active/valid/x/y of each finger
    touching,       \* the fingers whose _finger[].touching is set
    click,          \* _clickWasPressed, _clickRight, the _force* fields, the timer
    buttonMask,     \* _leftButton | _rightButton
    lastButtons,    \* _lastButtons
    power,          \* "on", "off" in a sleep, "dead" after a failed wake
    open,           \* _voodooInput # nullptr
    client,         \* what VoodooInput was told last: buttons, contacts, pressure
    hold,           \* history: the current press, as it was seen in the reports
    slept           \* history: the machine has been asleep

driverVars == <<hardware, touching, click, buttonMask, lastButtons>>
vars == <<hardware, touching, click, buttonMask, lastButtons, power, open,
          client, hold, slept>>

NoTouch == [active |-> FALSE, valid |-> FALSE, x |-> 0, y |-> 0]
Quiet == [pressed |-> FALSE, finger |-> [i \in Finger |-> NoTouch]]
NoClick == [wasPressed |-> FALSE, right |-> FALSE, eligible |-> FALSE,
            active |-> FALSE, finger |-> NoFinger, start |-> <<0, 0>>,
            timer |-> FALSE]
NewClient == [buttons |-> 0, contacts |-> {}, pressure |-> {}]
NoHold == [finger |-> NoFinger, start |-> <<0, 0>>, steady |-> FALSE]

Init ==
    /\ hardware = Quiet
    /\ touching = {}
    /\ click = NoClick
    /\ buttonMask = 0
    /\ lastButtons = 0
    /\ power = "on"
    /\ open = FALSE
    /\ client = NewClient
    /\ hold = NoHold
    /\ slept = FALSE

-----------------------------------------------------------------------------
(***************************************************************************)
(* Packets                                                                 *)
(***************************************************************************)

(* processTouchPacket: a finger that is no longer active loses its position *)
ProcessTouch(pressed, active) ==
    [pressed |-> pressed,
     finger  |-> [i \in Finger |->
                    [hardware.finger[i] EXCEPT !.active = i \in active,
                                               !.valid = @ /\ i \in active]]]

(* processAbsolutePacket: a packet for no known finger is ignored, pressed *)
(* bit included.                                                           *)
ProcessAbsolute(pressed, id, at) ==
    IF id \in Finger
    THEN [pressed |-> pressed,
          finger  |-> [hardware.finger EXCEPT ![id].valid = TRUE,
                                              ![id].x = at[1],
                                              ![id].y = at[2]]]
    ELSE hardware

Shift(fingers, id, by) ==
    IF id \in Finger
    THEN [fingers EXCEPT ![id].x = @ + by[1], ![id].y = @ + by[2]]
    ELSE fingers

(* processRelativePacket: up to two fingers move; nothing clamps the sums. *)
ProcessRelative(pressed, first, by1, second, by2) ==
    [pressed |-> pressed,
     finger  |-> Shift(Shift(hardware.finger, first, by1), second, by2)]

-----------------------------------------------------------------------------
(***************************************************************************)
(* reportState                                                             *)
(***************************************************************************)
Clamp(v, max) == IF v < 0 THEN 0 ELSE IF v > max THEN max ELSE v

Present(hw) == {i \in Finger : hw.finger[i].active /\ hw.finger[i].valid}

At(hw, i) == <<hw.finger[i].x, hw.finger[i].y>>

(* Screen coordinates: clamped to the pad, y counted from the far edge.    *)
ScreenX(hw, i) == Clamp(hw.finger[i].x, xMax)
ScreenY(hw, i) == yMax - Clamp(hw.finger[i].y, yMax)

(* The finger nearest to the user, the first one if several are. *)
ClickFinger(hw) ==
    IF Present(hw) = {} THEN NoFinger
    ELSE CHOOSE i \in Present(hw) : \A j \in Present(hw) :
            \/ ScreenY(hw, j) < ScreenY(hw, i)
            \/ ScreenY(hw, j) = ScreenY(hw, i) /\ i <= j

(* The bottom 30% of the right half. *)
InRightZone(hw, i) ==
    /\ ScreenY(hw, i) >= (yMax * 70) \div 100
    /\ ScreenX(hw, i) >= xMax \div 2

Abs(v) == IF v < 0 THEN -v ELSE v

(* Within kForceMoveCancel of a position, on both axes. *)
Near(hw, i, start) ==
    /\ Abs(hw.finger[i].x - start[1]) <= ForceMoveCancel
    /\ Abs(hw.finger[i].y - start[2]) <= ForceMoveCancel

(* The press: choose the side; a left click on a finger may become a       *)
(* Force Click, so the timer is set.                                       *)
Pressed(c, hw) ==
    LET finger == ClickFinger(hw)
        right  == finger # NoFinger /\ InRightZone(hw, finger)
        left   == finger # NoFinger /\ ~right
    IN  [wasPressed |-> TRUE, right |-> right, eligible |-> left,
         active |-> FALSE, finger |-> IF left THEN finger ELSE NoFinger,
         start |-> IF left THEN At(hw, finger) ELSE c.start, timer |-> left]

(* The release. *)
Released(c) == [NoClick EXCEPT !.start = c.start]

(* A hold whose finger left or moved too far is an ordinary click again. *)
KeepHold(c, hw) ==
    IF /\ c.eligible /\ ~c.active /\ hw.pressed /\ c.finger \in Finger
       /\ ~(c.finger \in Present(hw) /\ Near(hw, c.finger, c.start))
    THEN [c EXCEPT !.eligible = FALSE, !.timer = FALSE]
    ELSE c

(* Faults: a hold survives excursions; the press is not remembered. *)
UpdateClick_NoCancel(c, hw) ==
    IF hw.pressed /\ ~c.wasPressed THEN Pressed(c, hw)
    ELSE IF ~hw.pressed THEN Released(c) ELSE c

UpdateClick_Relatched(c, hw) ==
    IF hw.pressed THEN Pressed(c, hw) ELSE Released(c)

UpdateClick(c, hw) ==
    KeepHold(IF hw.pressed /\ ~c.wasPressed THEN Pressed(c, hw)
             ELSE IF ~hw.pressed THEN Released(c) ELSE c, hw)

Mask(hw, c) == IF ~hw.pressed THEN 0 ELSE IF c.right THEN Right ELSE Left

(* sendTouchData: the touch event first, then the buttons if they changed; *)
(* during a Force Click the left button stays up.                          *)
Buttons(c, mask) == IF c.active /\ mask = Left THEN 0 ELSE mask

Event(c, fingers) == [contacts |-> fingers,
                      pressure |-> IF c.active THEN {c.finger} \cap fingers ELSE {}]

(* Fault: only presses are sent. *)
SendTouchData_PressOnly(c, fingers, mask, last) ==
    /\ lastButtons' = Buttons(c, mask)
    /\ client' = IF ~open THEN client
                 ELSE [contacts |-> Event(c, fingers).contacts,
                       pressure |-> Event(c, fingers).pressure,
                       buttons  |-> IF Buttons(c, mask) \notin {0, last}
                                    THEN Buttons(c, mask) ELSE client.buttons]

SendTouchData(c, fingers, mask, last) ==
    /\ lastButtons' = Buttons(c, mask)
    /\ client' = IF ~open THEN client
                 ELSE [contacts |-> Event(c, fingers).contacts,
                       pressure |-> Event(c, fingers).pressure,
                       buttons  |-> IF Buttons(c, mask) # last
                                    THEN Buttons(c, mask) ELSE client.buttons]

(* What a user would call the press: the finger that clicked, where it     *)
(* was, and whether every report since then has found it there.            *)
UpdateHold(hw) ==
    IF ~hw.pressed THEN NoHold
    ELSE IF ~click.wasPressed
    THEN LET finger == ClickFinger(hw)
         IN  [finger |-> finger, steady |-> finger # NoFinger,
              start |-> IF finger = NoFinger THEN <<0, 0>> ELSE At(hw, finger)]
    ELSE [hold EXCEPT !.steady = /\ @
                                 /\ hold.finger \in Present(hw)
                                 /\ Near(hw, hold.finger, hold.start)]

ReportState(hw) ==
    LET c == UpdateClick(click, hw)
    IN  /\ hardware' = hw
        /\ click' = c
        /\ touching' = Present(hw)
        /\ buttonMask' = Mask(hw, c)
        /\ SendTouchData(c, Present(hw), Mask(hw, c), lastButtons)
        /\ hold' = UpdateHold(hw)
        /\ UNCHANGED <<power, open, slept>>

(* Packets come while the device is enabled; the ones in the ring when it  *)
(* is disabled are still processed.  A dead pad sends none.                *)
PacketsPending == power # "dead"

TouchPacket ==
    /\ PacketsPending
    /\ \E pressed \in BOOLEAN, active \in SUBSET Finger :
          ReportState(ProcessTouch(pressed, active))

AbsolutePacket ==
    /\ PacketsPending
    /\ \E pressed \in BOOLEAN, id \in Finger \cup {NoFinger}, at \in Position :
          ReportState(ProcessAbsolute(pressed, id, at))

WithinReach(hw) ==
    \A i \in Finger : /\ hw.finger[i].x \in -Reach .. xMax + Reach
                      /\ hw.finger[i].y \in -Reach .. yMax + Reach

RelativePacket ==
    /\ PacketsPending
    /\ \E pressed \in BOOLEAN, first, second \in Finger \cup {NoFinger},
          by1, by2 \in Delta :
          LET hw == ProcessRelative(pressed, first, by1, second, by2)
          IN  WithinReach(hw) /\ ReportState(hw)

-----------------------------------------------------------------------------
(***************************************************************************)
(* forceTimerFired                                                         *)
(***************************************************************************)
MayForce == /\ click.eligible /\ ~click.active /\ hardware.pressed
            /\ ~click.right /\ click.finger \in Finger

Steady == /\ click.finger \in Present(hardware)
          /\ Near(hardware, click.finger, click.start)

(* Fault: the left button stays down under the synthetic pressure. *)
ForceTimerFired_KeepsButton ==
    /\ click.timer
    /\ MayForce /\ Steady
    /\ click' = [click EXCEPT !.timer = FALSE, !.eligible = FALSE, !.active = TRUE]
    /\ client' = IF open THEN [client EXCEPT !.pressure = {click.finger} \cap touching]
                 ELSE client
    /\ UNCHANGED <<hardware, touching, buttonMask, lastButtons, power, open, hold, slept>>

ForceTimerFired ==
    /\ click.timer
    /\ IF MayForce /\ Steady
       THEN LET c == [click EXCEPT !.timer = FALSE, !.eligible = FALSE,
                                   !.active = TRUE]
                \* if (_lastButtons & 1) { sendButtons(0); _lastButtons = 0; }
                released == lastButtons = Left
                last     == IF released THEN 0 ELSE lastButtons
                current  == Buttons(c, buttonMask)
            IN  /\ click' = c
                /\ lastButtons' = current
                /\ client' = IF ~open THEN client
                             ELSE [contacts |-> Event(c, touching).contacts,
                                   pressure |-> Event(c, touching).pressure,
                                   buttons  |-> IF current # last THEN current
                                                ELSE IF released THEN 0
                                                ELSE client.buttons]
       ELSE /\ click' = [click EXCEPT !.timer = FALSE,
                                      !.eligible = @ /\ ~MayForce]
            /\ UNCHANGED <<lastButtons, client>>
    /\ UNCHANGED <<hardware, touching, buttonMask, power, open, hold, slept>>

-----------------------------------------------------------------------------
(***************************************************************************)
(* Power and the client                                                    *)
(***************************************************************************)

(* Fault: the force timer is not cancelled. *)
Disable_TimerRuns ==
    /\ power \in {"on", "dead"}
    /\ power' = "off"
    /\ slept' = TRUE
    /\ click' = [click EXCEPT !.eligible = FALSE, !.active = FALSE]
    /\ UNCHANGED <<hardware, touching, buttonMask, lastButtons, open, client, hold>>

(* setDevicePowerState(kPS2C_DisableDevice) *)
Disable ==
    /\ power \in {"on", "dead"}
    /\ power' = "off"
    /\ slept' = TRUE
    /\ click' = [click EXCEPT !.timer = FALSE, !.eligible = FALSE, !.active = FALSE]
    /\ UNCHANGED <<hardware, touching, buttonMask, lastButtons, open, client, hold>>

(* What setupHardware forgets.  Nothing is sent to the client. *)
SetupHardware ==
    /\ hardware' = Quiet
    /\ touching' = {}
    /\ click' = Released(click)
    /\ buttonMask' = 0
    /\ lastButtons' = 0
    /\ hold' = NoHold

(* setDevicePowerState(kPS2C_EnableDevice): the device may not answer the  *)
(* detection (nothing changes), fail in setupHardware (state forgotten,    *)
(* device left disabled) or come back.                                     *)
Enable ==
    /\ power = "off"
    /\ \/ power' = "dead" /\ UNCHANGED <<driverVars, hold>>
       \/ power' \in {"on", "dead"} /\ SetupHardware
    /\ UNCHANGED <<open, client, slept>>

(* handleOpen, handleClose *)
HandleOpen ==
    /\ ~open
    /\ open' = TRUE
    /\ client' = NewClient
    /\ UNCHANGED <<driverVars, power, hold, slept>>

HandleClose ==
    /\ open
    /\ open' = FALSE
    /\ client' = NewClient
    /\ UNCHANGED <<driverVars, power, hold, slept>>

Next ==
    \/ TouchPacket \/ AbsolutePacket \/ RelativePacket
    \/ ForceTimerFired \/ HandleOpen \/ HandleClose
    \/ Disable \/ Enable

Spec == Init /\ [][Next]_vars

-----------------------------------------------------------------------------
(***************************************************************************)
(* Properties                                                              *)
(***************************************************************************)
Contact == [active : BOOLEAN, valid : BOOLEAN, x : Int, y : Int]

TypeOK ==
    /\ hardware \in [pressed : BOOLEAN, finger : [Finger -> Contact]]
    /\ touching \subseteq Finger
    /\ click.wasPressed \in BOOLEAN /\ click.right \in BOOLEAN
    /\ click.eligible \in BOOLEAN /\ click.active \in BOOLEAN
    /\ click.timer \in BOOLEAN
    /\ buttonMask \in {0, Left, Right}
    /\ lastButtons \in {0, Left, Right}
    /\ power \in {"on", "off", "dead"}
    /\ open \in BOOLEAN
    /\ client \in [buttons : {0, Left, Right}, contacts : SUBSET Finger,
                   pressure : SUBSET Finger]

(* Until the first sleep, the client never holds a button that the last    *)
(* packet reported released, whatever mix of packets, promotions, opens    *)
(* and closes came before.  (A wake forgets the press in silence.)         *)
NoPhantomButton == ~slept /\ client.buttons # 0 => hardware.pressed

(* "the driver releases the direct mouse-button channel and emits a        *)
(* synthetic pressure frame" (Docs/HARDWARE.md): until the first sleep, a  *)
(* client that was shown pressure holds no button, the physical click is   *)
(* still down, and only the finger that clicked presses.                   *)
PressureReplacesButton ==
    ~slept /\ client.pressure # {} =>
        /\ hardware.pressed
        /\ client.buttons = 0
        /\ client.pressure = {click.finger}

(* "The selected side is latched until release" (Docs/HARDWARE.md): the    *)
(* client sees one side turn into the other only through a release, across *)
(* moving, lifting and landing fingers, Force Clicks, opens and closes, as *)
(* long as the machine has not slept (a wake forgets _lastButtons).        *)
SideLatchedAwake ==
    [][~slept /\ client.buttons # 0 => client'.buttons \in {client.buttons, 0}]_vars

(* "movement beyond the configured threshold cancels promotion"            *)
(* (Docs/HARDWARE.md): a Force Click begins only if every report since the *)
(* press found the clicking finger within the threshold; coming back in    *)
(* time does not help.                                                     *)
ForceOnlyAfterStillHold ==
    [][click'.active /\ ~click.active => hold.steady /\ hold.finger = click'.finger]_vars

(* A hold that may still become a Force Click has its timer running, and   *)
(* the timer runs for such a hold only: it is never left waiting for a     *)
(* timeout that was cancelled, and no old timer promotes a later press.    *)
TimerMatchesHold ==
    click.timer <=> (click.eligible /\ ~click.active /\ click.wasPressed)

(* The driver's force state is that of the press in progress, also while   *)
(* the machine sleeps and wakes.                                           *)
ForceNeedsPress ==
    click.active => hardware.pressed /\ click.wasPressed /\ ~click.right
=============================================================================
