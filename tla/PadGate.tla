------------------------------ MODULE PadGate -------------------------------
(***************************************************************************)
(* What makes a touchpad driver ignore its pad, and the light that tells.  *)
(* The keyboard switches the pad off and on (message), and mice that come  *)
(* and go do so too, if usb_mouse_stops_trackpad is set.  The Elan driver  *)
(* shares this code, but for the light; the lines are those of the         *)
(* Synaptics driver.                                                       *)
(***************************************************************************)
EXTENDS Naturals

CONSTANT MaxPointers    \* bound: mice attached at the same time

VARIABLES
    gate,           \* see Gate
    led,            \* the pad's light is on
    awake

vars == <<gate, led, awake>>

Gate == [
    ignoreall : BOOLEAN,
    stops : BOOLEAN,             \* usb_mouse_stops_trackpad
    attached : 0 .. MaxPointers, \* attachedHIDPointerDevices
    user : BOOLEAN]              \* history: the keyboard switched the pad off

NewGate == [ignoreall |-> FALSE, stops |-> TRUE, attached |-> 0, user |-> FALSE]

(* updateTouchpadLED; answered: the pad took all twelve bytes. *)
UpdateTouchpadLED(answered) ==
    led' = IF answered THEN gate'.ignoreall ELSE led

Ignore(g, on) == [g EXCEPT !.ignoreall = on, !.user = on /\ @]

(* kPS2M_setDisableTouchpad; the keyboard has asked with                   *)
(* kPS2M_getDisableTouchpad before.                                        *)
SetDisabled(off, answered) ==
    /\ awake /\ off # gate.ignoreall
    /\ gate' = [gate EXCEPT !.ignoreall = off, !.user = off]
    /\ UpdateTouchpadLED(answered)
    /\ UNCHANGED awake

(* notificationHIDAttachedHandlerGated for a device that comes; other      *)
(* bluetooth devices than mice are not counted ...                         *)
Publish(mouse, answered) ==
    /\ mouse => gate.attached < MaxPointers
    /\ LET now == [gate EXCEPT !.attached = IF mouse THEN @ + 1 ELSE @]
       IN  IF gate.stops /\ now.attached > 0
           THEN gate' = Ignore(now, TRUE) /\ UpdateTouchpadLED(answered)
           ELSE gate' = now /\ UNCHANGED led
    /\ UNCHANGED awake

(* ... and for one that goes. *)
Terminate(mouse, answered) ==
    /\ mouse => gate.attached > 0
    /\ LET now == [gate EXCEPT !.attached = IF mouse THEN @ - 1 ELSE @]
       IN  IF gate.stops /\ now.attached = 0
           THEN gate' = Ignore(now, FALSE) /\ UpdateTouchpadLED(answered)
           ELSE gate' = now /\ UNCHANGED led
    /\ UNCHANGED awake

(* Fault: the settings can only switch the pad off. *)
SetProperties_OnlyStops(stops, answered) ==
    /\ LET now == [gate EXCEPT !.stops = stops]
       IN  IF gate.attached > 0 /\ stops
           THEN gate' = Ignore(now, TRUE) /\ UpdateTouchpadLED(answered)
           ELSE gate' = now /\ UNCHANGED led
    /\ UNCHANGED awake

(* setPropertiesGated *)
SetProperties(stops, answered) ==
    /\ LET now == [gate EXCEPT !.stops = stops]
       IN  IF gate.attached > 0
           THEN gate' = Ignore(now, stops) /\ UpdateTouchpadLED(answered)
           ELSE gate' = now /\ UNCHANGED led
    /\ UNCHANGED awake

(* kPS2M_resetTouchpad *)
ResetTouchpad(answered) ==
    /\ awake
    /\ gate' = Ignore(gate, FALSE)
    /\ UpdateTouchpadLED(answered)
    /\ UNCHANGED awake

(* setDevicePowerState; the light is lost in a sleep. *)
DisableDevice ==
    /\ awake /\ awake' = FALSE
    /\ led' = FALSE
    /\ UNCHANGED gate

EnableDevice(answered) ==
    /\ ~ awake /\ awake' = TRUE
    /\ UNCHANGED gate
    /\ UpdateTouchpadLED(answered)

(* stop, and another start: the devices are found again one by one. *)
Restart(answered) ==
    /\ awake
    /\ gate' = NewGate
    /\ UpdateTouchpadLED(answered)
    /\ UNCHANGED awake

Init == gate = NewGate /\ led = FALSE /\ awake = TRUE

Next ==
    \/ DisableDevice
    \/ \E answered \in BOOLEAN :
          \/ \E off \in BOOLEAN : SetDisabled(off, answered)
          \/ \E mouse \in BOOLEAN : Publish(mouse, answered) \/ Terminate(mouse, answered)
          \/ \E stops \in BOOLEAN : SetProperties(stops, answered)
          \/ ResetTouchpad(answered)
          \/ EnableDevice(answered)
          \/ Restart(answered)

Spec == Init /\ [][Next]_vars

-----------------------------------------------------------------------------
(***************************************************************************)
(* Properties                                                              *)
(***************************************************************************)

(* The variables have their types. *)
TypeOK == gate \in Gate /\ led \in BOOLEAN /\ awake \in BOOLEAN

(* The pad is ignored only if the keyboard switched it off or while a      *)
(* mouse is attached: no order of mice coming and going and of settings    *)
(* leaves the user without a pointer (setPropertiesGated,                  *)
(* notificationHIDAttachedHandlerGated).                                   *)
NotLockedOut == gate.ignoreall => gate.user \/ gate.attached > 0

=============================================================================
