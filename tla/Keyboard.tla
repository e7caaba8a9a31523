------------------------------ MODULE Keyboard ------------------------------
(***************************************************************************)
(* The keyboard driver: KeyboardInput up to the packets it dispatches, or  *)
(* KeyboardDispatch from there on; half tells which.  The variables of the *)
(* other module keep their first values.                                   *)
(***************************************************************************)
EXTENDS Naturals, Sequences

CONSTANTS
    Codes, Key, Notified, Breakless, Macros, KeySlots,  \* KeyboardInput
    ScanOrder, Command, Features, MaxHeld               \* KeyboardDispatch

VARIABLES
    half,
    lastReset, extendCount, bits, queue, macro,         \* KeyboardInput
    armed, draining, shift, out,
    down, drv, event                                    \* KeyboardDispatch

inputVars == <<lastReset, extendCount, bits, queue, macro, armed, draining, shift, out>>
dispatchVars == <<down, drv, event>>

Input == INSTANCE KeyboardInput WITH Slots <- KeySlots, down <- bits, ring <- queue
Keys == INSTANCE KeyboardDispatch

ASSUME InputAssumption == Input!Assumptions
ASSUME KeysAssumption == Keys!Assumptions

KeyboardInit == half \in {"input", "dispatch"} /\ Input!Init /\ Keys!Init

KeyboardNext ==
    \/ half = "input" /\ Input!Next /\ UNCHANGED <<half, dispatchVars>>
    \/ half = "dispatch" /\ Keys!Next /\ UNCHANGED <<half, inputVars>>

KeyboardSpec == KeyboardInit /\ [][KeyboardNext]_<<half, inputVars, dispatchVars>>

(* Work loops run what is pending and timers expire, as in KeyboardInput. *)
FairKeyboard == KeyboardSpec /\ Input!Fairness

(* Every packet is dispatched once, in order, by itself or inside one      *)
(* macro (packetReady, invertMacros, dispatchInvertBuffer, message).       *)
DispatchedOnceInOrder == Input!DispatchedOnceInOrder

(* A packet held back is followed by a dispatch, even if no further key is *)
(* touched (onMacroTimer).                                                 *)
HeldBackIsSent == Input!HeldBackIsSent

(* A letter, a modifier or an ordinary special key that is down for the    *)
(* HID system is down on the keyboard, whatever comes between its press    *)
(* and its release (dispatchKeyboardEventWithPacket, initKeyboard).        *)
OrdinaryKeysNeverStick == Keys!OrdinaryKeysNeverStick

(* The machine is put to sleep only while the sleep key is held            *)
(* (onSleepEjectTimer).                                                    *)
SleepNeedsHold == Keys!SleepNeedsHold
=============================================================================
