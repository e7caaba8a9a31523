------------------------- MODULE FocalTechForceRace -------------------------
(***************************************************************************)
(* One press of a FocalTech pad, with the two handlers that can run at the *)
(* same time split at the fields they share: packetReady, on the device's  *)
(* own work loop (ApplePS2Device::attach), and forceTimerFired, on the     *)
(* work loop the driver inherits from the controller.  Neither takes a     *)
(* lock, and both go through sendTouchData, which compares _lastButtons,   *)
(* sends and stores in three steps.                                        *)
(*                                                                         *)
(* The finger keeps still on the left side of the pad, so a packet says    *)
(* only whether the switch is pressed.  FocalTechTouch has the rest.       *)
(***************************************************************************)
EXTENDS Naturals

VARIABLES
    pressed,        \* _hardware.pressed
    wasPressed,     \* _clickWasPressed
    eligible,       \* _forceEligible
    active,         \* _forceActive
    finger,         \* _forceFinger is the finger on the pad
    left,           \* _leftButton
    lastButtons,    \* _lastButtons
    timer,          \* the force timer: "off", "set", or "due" after 2 s
    pc,             \* where each thread is
    current,        \* each thread's currentButtons
    client          \* what VoodooInput was told last: button, pressure

vars == <<pressed, wasPressed, eligible, active, finger, left, lastButtons,
          timer, pc, current, client>>

Thread == {"packet", "timer"}

Init ==
    /\ pressed = FALSE /\ wasPressed = FALSE
    /\ eligible = FALSE /\ active = FALSE /\ finger = FALSE
    /\ left = 0 /\ lastButtons = 0
    /\ timer = "off"
    /\ pc = [t \in Thread |-> "idle"]
    /\ current = [t \in Thread |-> 0]
    /\ client = [button |-> 0, pressure |-> FALSE]

Goto(t, label) == pc' = [pc EXCEPT ![t] = label]

-----------------------------------------------------------------------------
(***************************************************************************)
(* sendTouchData, run by either thread                                     *)
(***************************************************************************)

(* Build the transducers and send the touch event. *)
SendEvent(t) ==
    /\ pc[t] = "event"
    /\ client' = [client EXCEPT !.pressure = active /\ finger]
    /\ Goto(t, "compute")
    /\ UNCHANGED <<pressed, wasPressed, eligible, active, finger, left,
                   lastButtons, timer, current>>

(* const UInt32 currentButtons = ... *)
ComputeButtons(t) ==
    /\ pc[t] = "compute"
    /\ current' = [current EXCEPT ![t] = IF active THEN 0 ELSE left]
    /\ Goto(t, "compare")
    /\ UNCHANGED <<pressed, wasPressed, eligible, active, finger, left,
                   lastButtons, timer, client>>

(* if (currentButtons != _lastButtons) *)
CompareButtons(t) ==
    /\ pc[t] = "compare"
    /\ Goto(t, IF current[t] # lastButtons THEN "send" ELSE "idle")
    /\ UNCHANGED <<pressed, wasPressed, eligible, active, finger, left,
                   lastButtons, timer, current, client>>

SendButtons(t) ==
    /\ pc[t] = "send"
    /\ client' = [client EXCEPT !.button = current[t]]
    /\ Goto(t, "store")
    /\ UNCHANGED <<pressed, wasPressed, eligible, active, finger, left,
                   lastButtons, timer, current>>

StoreButtons(t) ==
    /\ pc[t] = "store"
    /\ lastButtons' = current[t]
    /\ Goto(t, "idle")
    /\ UNCHANGED <<pressed, wasPressed, eligible, active, finger, left,
                   timer, current, client>>

-----------------------------------------------------------------------------
(***************************************************************************)
(* The packet thread: processPacket and reportState up to sendTouchData    *)
(***************************************************************************)
Packet(down) ==
    /\ pc["packet"] = "idle"
    /\ pressed' = down
    /\ Goto("packet", "report")
    /\ UNCHANGED <<wasPressed, eligible, active, finger, left, lastButtons,
                   timer, current, client>>

(* Fault: the timer is cancelled after it was set. *)
ReportEdge_CancelsLast ==
    /\ pc["packet"] = "report"
    /\ LET edge == pressed /\ ~wasPressed
       IN  IF edge \/ ~pressed
           THEN /\ eligible' = edge
                /\ active' = FALSE
                /\ finger' = edge
                /\ timer' = "off"
                /\ wasPressed' = edge
           ELSE UNCHANGED <<eligible, active, finger, timer, wasPressed>>
    /\ Goto("packet", "buttons")
    /\ UNCHANGED <<pressed, left, lastButtons, current, client>>

(* The press or release edge.  The finger is still, so no hold is cancelled. *)
ReportEdge ==
    /\ pc["packet"] = "report"
    /\ LET edge == pressed /\ ~wasPressed
       IN  IF edge \/ ~pressed
           THEN /\ eligible' = edge
                /\ active' = FALSE
                /\ finger' = edge
                /\ timer' = IF edge THEN "set" ELSE "off"
                /\ wasPressed' = edge
           ELSE UNCHANGED <<eligible, active, finger, timer, wasPressed>>
    /\ Goto("packet", "buttons")
    /\ UNCHANGED <<pressed, left, lastButtons, current, client>>

StoreLeft ==
    /\ pc["packet"] = "buttons"
    /\ left' = IF pressed THEN 1 ELSE 0
    /\ Goto("packet", "event")
    /\ UNCHANGED <<pressed, wasPressed, eligible, active, finger, lastButtons,
                   timer, current, client>>

-----------------------------------------------------------------------------
(***************************************************************************)
(* The timer thread: forceTimerFired up to sendTouchData                   *)
(***************************************************************************)

(* kForceHoldMS after the press: the handler that set the timer is long    *)
(* done, but the handler of a later packet may be running by the time      *)
(* forceTimerFired starts.                                                 *)
HoldElapses ==
    /\ timer = "set" /\ pc["packet"] = "idle"
    /\ timer' = "due"
    /\ UNCHANGED <<pressed, wasPressed, eligible, active, finger, left,
                   lastButtons, pc, current, client>>

TimerFires ==
    /\ pc["timer"] = "idle" /\ timer = "due"
    /\ timer' = "off"
    /\ Goto("timer", IF eligible /\ ~active /\ pressed /\ finger
                     THEN "promote" ELSE "idle")
    /\ UNCHANGED <<pressed, wasPressed, eligible, active, finger, left,
                   lastButtons, current, client>>

Promote ==
    /\ pc["timer"] = "promote"
    /\ eligible' = FALSE
    /\ active' = TRUE
    /\ Goto("timer", "release")
    /\ UNCHANGED <<pressed, wasPressed, finger, left, lastButtons, timer,
                   current, client>>

(* if (_lastButtons & 0x01U) sendButtons(0) *)
ReleaseLeft ==
    /\ pc["timer"] = "release"
    /\ IF lastButtons = 1
       THEN client' = [client EXCEPT !.button = 0] /\ Goto("timer", "released")
       ELSE UNCHANGED client /\ Goto("timer", "event")
    /\ UNCHANGED <<pressed, wasPressed, eligible, active, finger, left,
                   lastButtons, timer, current>>

ForgetLeft ==
    /\ pc["timer"] = "released"
    /\ lastButtons' = 0
    /\ Goto("timer", "event")
    /\ UNCHANGED <<pressed, wasPressed, eligible, active, finger, left, timer,
                   current, client>>

SendTouchData(t) ==
    \/ SendEvent(t) \/ ComputeButtons(t) \/ CompareButtons(t)
    \/ SendButtons(t) \/ StoreButtons(t)

HandlePacket == ReportEdge \/ StoreLeft \/ SendTouchData("packet")

TimerThread ==
    TimerFires \/ Promote \/ ReleaseLeft \/ ForgetLeft \/ SendTouchData("timer")

Next == (\E down \in BOOLEAN : Packet(down)) \/ HandlePacket
        \/ HoldElapses \/ TimerThread

Spec == Init /\ [][Next]_vars

(* Both work loops run, and two seconds pass although packets keep coming: *)
(* strong fairness, because HoldElapses is disabled during each of them.   *)
FairSpec == /\ Spec
            /\ WF_vars(HandlePacket) /\ WF_vars(TimerThread)
            /\ SF_vars(HoldElapses)

-----------------------------------------------------------------------------
(* However the handlers interleave, a still hold is promoted to a Force    *)
(* Click or ends with the release: no order of checks and stores leaves it *)
(* waiting without a timer.                                                *)
HoldIsResolved == eligible ~> (active \/ ~pressed)
=============================================================================
