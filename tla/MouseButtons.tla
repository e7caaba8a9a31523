---------------------------- MODULE MouseButtons ----------------------------
(***************************************************************************)
(* The buttons of the mouse driver: middleButton turns left and right      *)
(* pressed together into the middle button, for which it holds single      *)
(* buttons back until they are joined, released, or a timer fires.         *)
(*                                                                         *)
(* Packets come from MouseStream and are handled one at a time.  The times *)
(* that middleButton compares enter as inputs: whether a packet is late.   *)
(***************************************************************************)
EXTENDS Naturals, Sequences, SequencesExt

CONSTANTS
    Masks,          \* the sets of buttons a packet may show
    ButtonCounts    \* settings of ButtonCount

Left == "left"
Right == "right"
Middle == "middle"
Fourth == "fourth"      \* stands for the buttons 4 and 5
Button == {Left, Right, Middle, Fourth}
Both == {Left, Right}

ASSUME MasksAssumption == Masks \subseteq SUBSET Button
ASSUME ButtonCountsAssumption == ButtonCounts \subseteq 2 .. 5

VARIABLES
    fake,           \* _fakemiddlebutton
    count,          \* _buttonCount
    timed,          \* there is a _buttonTimer
    mb,             \* what middleButton keeps; see MiddleState
    last,           \* lastbuttons
    shown,          \* the button masks that the last step dispatched
    reported,       \* history: the buttons of the last packet
    owed,           \* history: presses of left and right without the fourth
                    \* button that were not shown so far
    switched        \* history: fake was changed with a button down

vars == <<fake, count, timed, mb, last, shown, reported, owed, switched>>

MiddleState == [
    state : {"NOBUTTONS", "WAIT4TWO", "MIDDLE", "WAIT4NONE", "NOOP"},
    pending : SUBSET Button,    \* _pendingbuttons
    timer : BOOLEAN]            \* _buttonTimer is set

(* init *)
NewMiddle == [state |-> "NOBUTTONS", pending |-> {}, timer |-> FALSE]

Init ==
    /\ fake \in BOOLEAN /\ count \in ButtonCounts /\ timed = FALSE
    /\ mb = NewMiddle /\ last = {} /\ shown = << >>
    /\ reported = {} /\ owed = {} /\ switched = FALSE

-----------------------------------------------------------------------------
(***************************************************************************)
(* middleButton: what it keeps, the mask it dispatches itself (if any),    *)
(* and the buttons it returns                                              *)
(***************************************************************************)
Waiting == {"WAIT4TWO", "WAIT4NONE"}

(* Fault: the timer is set only after a middle click. *)
Wait_NoTimer(state, buttons) ==
    [state |-> state, pending |-> buttons, timer |-> state = "WAIT4NONE"]

(* Hold a single button back for _maxmiddleclicktime. *)
Wait(state, buttons) == [state |-> state, pending |-> buttons, timer |-> TRUE]

(* Stop waiting. *)
Settle(state) == [state |-> state, pending |-> {}, timer |-> FALSE]

Settled(buttons) == Settle(IF buttons = {} THEN "NOBUTTONS" ELSE "NOOP")

(* _mbuttonstate after the buttons; expired is the variable timeout *)
NextState(m, buttons, expired) ==
    CASE m.state = "NOBUTTONS" ->
           (CASE Middle \in buttons -> [m EXCEPT !.state = "NOOP"]
              [] buttons = Both -> [m EXCEPT !.state = "MIDDLE"]
              [] buttons = {} -> m
              [] OTHER -> Wait("WAIT4TWO", buttons))
      [] m.state = "WAIT4TWO" ->
           (CASE ~ expired /\ buttons = Both -> Settle("MIDDLE")
              [] ~ expired /\ buttons = m.pending -> m
              [] OTHER -> Settled(buttons))
      [] m.state = "MIDDLE" ->
           (CASE buttons = {} -> [m EXCEPT !.state = "NOBUTTONS"]
              [] Both \subseteq buttons -> m
              [] OTHER -> Wait("WAIT4NONE", buttons))
      [] m.state = "WAIT4NONE" ->
           IF ~ expired /\ buttons = m.pending THEN m ELSE Settled(buttons)
      [] m.state = "NOOP" ->
           IF buttons = {} THEN [m EXCEPT !.state = "NOBUTTONS"] ELSE m

(* Fault: a button that was released before the timer fired is forgotten. *)
Extra_TimerOnly(m, buttons, expired, fromTimer) ==
    IF m.state \in Waiting /\ fromTimer THEN <<buttons \cup m.pending>> ELSE << >>

(* What the two waiting states dispatch when they end: the pending button  *)
(* when the timer fires, and a click that was over before that.            *)
Extra(m, buttons, expired, fromTimer) ==
    IF \/ m.state \in Waiting /\ fromTimer
       \/ /\ m.state = "WAIT4TWO" /\ buttons \cap m.pending = {}
          /\ expired \/ buttons # m.pending
    THEN <<buttons \cup m.pending>>
    ELSE << >>

(* Fault: the middle button is kept until the wait for the second ends. *)
Visible_MiddleWaits(state, buttons) ==
    CASE state \in {"MIDDLE", "WAIT4NONE"} -> {Middle}
      [] state = "WAIT4TWO" -> buttons \ Both
      [] OTHER -> buttons

(* "modify buttons after new state set" *)
Visible(state, buttons) == CASE state = "MIDDLE" -> {Middle}
                             [] state \in Waiting -> buttons \ Both
                             [] OTHER -> buttons

MiddleButton(buttons, late, fromTimer) ==
    LET m == IF fromTimer THEN [mb EXCEPT !.timer = FALSE] ELSE mb
        next == NextState(m, buttons, late \/ fromTimer)
    IN  IF ~ fake \/ count <= 2
        THEN [mb |-> m, extra |-> << >>, buttons |-> buttons]
        ELSE [mb |-> next, extra |-> Extra(m, buttons, late \/ fromTimer, fromTimer),
              buttons |-> Visible(next.state, buttons)]

-----------------------------------------------------------------------------
(* History: presses that no dispatched mask has shown; the middle button   *)
(* shows left and right.                                                   *)
Remember(presses) ==
    owed' = IF mb'.state = "MIDDLE" THEN {}
            ELSE (owed \cup presses) \ UNION ToSet(shown')

(* dispatchRelativePointerEventWithPacket *)
Packet(buttons, late) ==
    /\ timed
    /\ LET result == MiddleButton(buttons, late, FALSE)
       IN  /\ mb' = result.mb
           /\ last' = result.buttons
           /\ shown' = Append(result.extra, result.buttons)
    /\ reported' = buttons
    /\ Remember(IF switched \/ Fourth \in buttons THEN {}
                ELSE (buttons \ reported) \cap Both)
    /\ switched' = (switched /\ mb'.state # "NOBUTTONS")
    /\ UNCHANGED <<fake, count, timed>>

OnButtonTimer ==
    /\ mb.timer
    /\ LET result == MiddleButton(last, FALSE, TRUE)
       IN  mb' = result.mb /\ shown' = result.extra
    /\ Remember({})
    /\ UNCHANGED <<fake, count, timed, last, reported, switched>>

(* setParamPropertiesGated: FakeMiddleButton *)
SetFakeMiddleButton(on) ==
    /\ fake # on
    /\ fake' = on
    /\ switched' = (switched \/ mb.state # "NOBUTTONS")
    /\ shown' = << >> /\ owed' = {}
    /\ UNCHANGED <<count, timed, mb, last, reported>>

(* resetMouse on start and on a wake: _buttonCount follows from what the   *)
(* mouse is (0 for a plain one); with two buttons the middle one is        *)
(* simulated once there is a timer, which start makes after resetMouse.    *)
ResetMouse(type) ==
    /\ count' = CASE type = 4 -> 5
                  [] type = 3 -> 3
                  [] type = 0 -> IF count = 2 /\ fake /\ timed THEN 3 ELSE count
    /\ timed' = TRUE
    /\ shown' = << >>
    /\ switched' = (switched \/ mb.state # "NOBUTTONS")
    /\ owed' = {}
    /\ UNCHANGED <<fake, mb, last, reported>>

Next ==
    \/ \E buttons \in Masks, late \in BOOLEAN : Packet(buttons, late)
    \/ OnButtonTimer
    \/ \E on \in BOOLEAN : SetFakeMiddleButton(on)
    \/ \E type \in {0, 3, 4} : ResetMouse(type)

Spec == Init /\ [][Next]_vars

(* Timers fire. *)
Fairness == WF_vars(OnButtonTimer)

-----------------------------------------------------------------------------
(***************************************************************************)
(* Properties                                                              *)
(***************************************************************************)

(* The variables have their types, and only a waiting state keeps pending  *)
(* buttons (middleButton).                                                 *)
TypeOK ==
    /\ mb \in MiddleState /\ (mb.pending # {} => mb.state \in Waiting)
    /\ count \in 2 .. 5 /\ {fake, timed, switched} \subseteq BOOLEAN
    /\ last \subseteq Button /\ reported \subseteq Button /\ owed \subseteq Both
    /\ shown \in Seq(SUBSET Button)

(* A press of left or right that was not shown is pending, unless          *)
(* FakeMiddleButton was changed or the mouse reset with a button down      *)
(* (middleButton).  A press under the fourth button is excepted: it is not *)
(* shown if it is shorter than the timer.                                  *)
PressIsKept ==
    owed # {} => mb.state = "WAIT4TWO" /\ owed \subseteq mb.pending

(* Such a press is shown, even if no further packet comes (onButtonTimer). *)
PressIsShown == owed # {} ~> owed = {}

(* No button is dispatched that neither the last nor the present packet    *)
(* shows, but for a middle button made of left and right (middleButton,    *)
(* onButtonTimer); a change of FakeMiddleButton with a button down is      *)
(* excepted.                                                               *)
NoPhantomButton ==
    [][ ~ switched => \A i \in 1 .. Len(shown') :
            LET known == reported \cup reported'
            IN  shown'[i] \subseteq
                    known \cup (IF Both \subseteq known THEN {Middle} ELSE {})
      ]_vars
=============================================================================
