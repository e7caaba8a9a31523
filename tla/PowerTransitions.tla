-------------------------- MODULE PowerTransitions --------------------------
(***************************************************************************)
(* Sleep and wake (ApplePS2Controller::setPowerStateGated) while drivers   *)
(* start and stop.  Two locks are involved: the controller's command gate, *)
(* recursive and held for a whole transition and for every request, and    *)
(* _cmdbyteLock (lock, unlock), which start holds around its requests and  *)
(* the wake action of the FocalTech drivers takes under the gate.          *)
(*                                                                         *)
(* A request, or a read and write of the command byte, is one step that    *)
(* needs the gate: PS2Requests shows what happens inside.  The thread of a *)
(* transition has the gate already.  ps2kbdonly is not set.                *)
(***************************************************************************)
EXTENDS Naturals, Sequences, FiniteSets

CONSTANTS
    Keyboard,       \* the driver on kPS2KbdIdx
    Mice,           \* the drivers on the aux ports, in the order of their nubs
    LocksOnWake,    \* drivers whose enable action takes _cmdbyteLock
    MouseWakeFirst, \* _mouseWakeFirst
    Overlap         \* drivers may start and stop during a transition

Mouse == {Mice[i] : i \in DOMAIN Mice}
Driver == {Keyboard} \cup Mouse
Line == {"kbd", "aux"}
LineOf(d) == IF d = Keyboard THEN "kbd" ELSE "aux"

ASSUME DriverAssumption ==
    /\ Mice \in Seq(Mouse)
    /\ Keyboard \notin Mouse /\ Cardinality(Mouse) = Len(Mice)
    /\ LocksOnWake \subseteq Driver
    /\ MouseWakeFirst \in BOOLEAN /\ Overlap \in BOOLEAN

VARIABLES
    powerState,     \* _currentPowerState
    pending,        \* the state a thread call is to set, or "none"
    change,         \* the transition that holds the gate, or "none"
    target,         \* its powerState
    todo,           \* the drivers still to be notified
    offline,        \* _hardwareOffline
    ignore,         \* _ignoreInterrupts, as far as transitions count it
    irq,            \* the interrupt lines enabled in the command byte
    installed,      \* _interruptInstalledKeyboard, _interruptInstalledMouse
    lock,           \* who holds _cmdbyteLock, or "none"
    at,             \* where each driver's start or stop is
    powerAction,    \* drivers with _client and _power_action set
    dev             \* each device: "on", "off", or "dead" if a wake did not find it

vars == <<powerState, pending, change, target, todo, offline, ignore, irq,
          installed, lock, at, powerAction, dev>>
system == <<powerState, pending, change, target, todo, offline, ignore>>

PowerState == {"sleep", "doze", "normal"}

(* Before any driver has started. *)
Init ==
    /\ powerState = "normal" /\ pending = "none"
    /\ change = "none" /\ target = "normal" /\ todo = << >>
    /\ offline = FALSE /\ ignore = 0
    /\ irq = {} /\ installed = [l \in Line |-> 0]
    /\ lock = "none"
    /\ at = [d \in Driver |-> "stopped"]
    /\ powerAction = {}
    /\ dev = [d \in Driver |-> "off"]

Settled(d) == at[d] \in {"stopped", "running"}
GateFree == change = "none"

-----------------------------------------------------------------------------
(***************************************************************************)
(* Transitions                                                             *)
(***************************************************************************)

(* setPowerState: the thread call is entered, or, if it is already         *)
(* pending, gets the new argument.                                         *)
SetPowerState(s) ==
    /\ pending # s
    /\ pending' = s
    /\ UNCHANGED <<powerState, change, target, todo, offline, ignore, irq,
                   installed, lock, at, powerAction, dev>>

MayBegin ==
    /\ pending # "none" /\ GateFree
    /\ Overlap \/ \A d \in Driver : Settled(d)
    /\ target' = pending /\ pending' = "none"

(* Nothing to do but to acknowledge: the state is the current one, or both *)
(* are working states.                                                     *)
NoTransition ==
    /\ MayBegin
    /\ pending = powerState \/ "sleep" \notin {pending, powerState}
    /\ powerState' = pending
    /\ UNCHANGED <<change, todo, offline, ignore, irq, installed, lock, at,
                   powerAction, dev>>

(* Fault: the queue is frozen before the drivers are told. *)
BeginSleep_OfflineFirst ==
    /\ MayBegin /\ pending = "sleep" /\ powerState # "sleep"
    /\ change' = "sleep"
    /\ ignore' = ignore + 1
    /\ irq' = {}
    /\ todo' = Append(Mice, Keyboard)
    /\ offline' = TRUE
    /\ UNCHANGED <<powerState, installed, lock, at, powerAction, dev>>

BeginSleep ==
    /\ MayBegin /\ pending = "sleep" /\ powerState # "sleep"
    /\ change' = "sleep"
    /\ ignore' = ignore + 1
    /\ irq' = {}
    /\ todo' = Append(Mice, Keyboard)
    /\ UNCHANGED <<powerState, offline, installed, lock, at, powerAction, dev>>

(* A request of driver d: fails at once if the hardware is offline. *)
Request(d, state) == dev' = IF offline THEN dev ELSE [dev EXCEPT ![d] = state]

NotifyDisable ==
    /\ change = "sleep" /\ todo # << >>
    /\ LET d == Head(todo)
       IN  IF d \in powerAction THEN Request(d, "off") ELSE UNCHANGED dev
    /\ todo' = Tail(todo)
    /\ UNCHANGED <<powerState, pending, change, target, offline, ignore, irq,
                   installed, lock, at, powerAction>>

EndSleep ==
    /\ change = "sleep" /\ todo = << >>
    /\ offline' = TRUE
    /\ powerState' = target
    /\ change' = "none"
    /\ UNCHANGED <<pending, target, todo, ignore, irq, installed, lock, at,
                   powerAction, dev>>

(* Fault: the queue stays blocked. *)
BeginWake_StaysOffline ==
    /\ MayBegin /\ pending # "sleep" /\ powerState = "sleep"
    /\ change' = "wake"
    /\ irq' = {}
    /\ todo' = IF MouseWakeFirst THEN Append(Mice, Keyboard) ELSE <<Keyboard>> \o Mice
    /\ UNCHANGED <<powerState, offline, ignore, installed, lock, at, powerAction, dev>>

(* Reset, clocks on and interrupts still off, then the queue is unblocked. *)
BeginWake ==
    /\ MayBegin /\ pending # "sleep" /\ powerState = "sleep"
    /\ change' = "wake"
    /\ irq' = {}
    /\ offline' = FALSE
    /\ todo' = IF MouseWakeFirst THEN Append(Mice, Keyboard) ELSE <<Keyboard>> \o Mice
    /\ UNCHANGED <<powerState, ignore, installed, lock, at, powerAction, dev>>

(* The enable action of most drivers resets and enables the device.  One   *)
(* of FocalTech looks for it first, and gives up if it is not there.       *)
NotifyEnable ==
    /\ change = "wake" /\ todo # << >>
    /\ LET d == Head(todo)
       IN  \/ /\ d \notin powerAction
              /\ todo' = Tail(todo) /\ UNCHANGED <<change, dev>>
           \/ /\ d \in powerAction \ LocksOnWake
              /\ Request(d, "on") /\ todo' = Tail(todo) /\ UNCHANGED change
           \/ /\ d \in powerAction \cap LocksOnWake
              /\ Request(d, "dead") /\ todo' = Tail(todo) /\ UNCHANGED change
           \/ /\ d \in powerAction \cap LocksOnWake
              /\ change' = "configure" /\ UNCHANGED <<todo, dev>>
    /\ UNCHANGED <<powerState, pending, target, offline, ignore, irq, installed,
                   lock, at, powerAction>>

(* It was found: set up and enabled under _cmdbyteLock, with the gate held. *)
Configure ==
    /\ change = "configure" /\ lock = "none"
    /\ Request(Head(todo), "on") /\ todo' = Tail(todo)
    /\ change' = "wake"
    /\ UNCHANGED <<powerState, pending, target, offline, ignore, irq, installed,
                   lock, at, powerAction>>

EndWake ==
    /\ change = "wake" /\ todo = << >>
    /\ irq' = Line
    /\ ignore' = ignore - 1
    /\ powerState' = target
    /\ change' = "none"
    /\ UNCHANGED <<pending, target, todo, offline, installed, lock, at,
                   powerAction, dev>>

Transition == \/ NoTransition \/ BeginSleep \/ NotifyDisable \/ EndSleep
              \/ BeginWake \/ NotifyEnable \/ Configure \/ EndWake
-----------------------------------------------------------------------------
(***************************************************************************)
(* A driver starts and stops                                               *)
(***************************************************************************)
Goto(d, label) == at' = [at EXCEPT ![d] = label]
MayChange == Overlap \/ (GateFree /\ ~offline)

Start(d) ==
    /\ at[d] = "stopped" /\ MayChange
    /\ lock = "none" /\ lock' = d
    /\ Goto(d, "setup")
    /\ UNCHANGED <<system, irq, installed, powerAction, dev>>

(* Fault: a failed setup returns without unlock. *)
Setup_KeepsLock(d) ==
    /\ at[d] = "setup" /\ GateFree
    /\ \/ ~offline /\ Goto(d, "install") /\ UNCHANGED lock
       \/ Goto(d, "stopped") /\ UNCHANGED lock
    /\ UNCHANGED <<system, irq, installed, powerAction, dev>>

(* setupHardware: its requests fail offline, or the device does not answer. *)
Setup(d) ==
    /\ at[d] = "setup" /\ GateFree
    /\ \/ ~offline /\ Goto(d, "install") /\ UNCHANGED lock
       \/ Goto(d, "stopped") /\ lock' = "none"
    /\ UNCHANGED <<system, irq, installed, powerAction, dev>>

(* installInterruptAction: the line is enabled for the first client. *)
Install(d) ==
    /\ at[d] = "install"
    /\ IF installed[LineOf(d)] = 0
       THEN GateFree /\ irq' = irq \cup {LineOf(d)}
       ELSE UNCHANGED irq
    /\ Goto(d, "count")
    /\ UNCHANGED <<system, installed, lock, powerAction, dev>>

Count(d) ==
    /\ at[d] = "count"
    /\ installed' = [installed EXCEPT ![LineOf(d)] = @ + 1]
    /\ Goto(d, "enable")
    /\ UNCHANGED <<system, irq, lock, powerAction, dev>>

Enable(d) ==
    /\ at[d] = "enable" /\ GateFree
    /\ Request(d, "on")
    /\ lock' = "none"
    /\ Goto(d, "power")
    /\ UNCHANGED <<system, irq, installed, powerAction>>

InstallPower(d) ==
    /\ at[d] = "power"
    /\ powerAction' = powerAction \cup {d}
    /\ Goto(d, "running")
    /\ UNCHANGED <<system, irq, installed, lock, dev>>

(* stop takes no lock: the device is disabled, ... *)
Stop(d) ==
    /\ at[d] = "running" /\ MayChange /\ GateFree
    /\ Request(d, "off")
    /\ Goto(d, "uninstall")
    /\ UNCHANGED <<system, irq, installed, lock, powerAction>>

(* ... the count goes down, for the keyboard after its line was disabled,  *)
(* for a mouse before, ...                                                 *)
Uninstall(d) ==
    /\ at[d] = "uninstall"
    /\ IF d = Keyboard
       THEN GateFree /\ irq' = irq \ {"kbd"} ELSE UNCHANGED irq
    /\ installed' = [installed EXCEPT ![LineOf(d)] = @ - 1]
    /\ Goto(d, IF d # Keyboard /\ installed[LineOf(d)] = 1 THEN "mask" ELSE "leave")
    /\ UNCHANGED <<system, lock, powerAction, dev>>

(* ... the last mouse turns its line off, ... *)
Mask(d) ==
    /\ at[d] = "mask" /\ GateFree
    /\ irq' = irq \ {"aux"}
    /\ Goto(d, "leave")
    /\ UNCHANGED <<system, installed, lock, powerAction, dev>>

(* ... and the client and its actions are removed. *)
Leave(d) ==
    /\ at[d] = "leave"
    /\ powerAction' = powerAction \ {d}
    /\ Goto(d, "stopped")
    /\ UNCHANGED <<system, irq, installed, lock, dev>>

DriverStep(d) == \/ Setup(d) \/ Install(d) \/ Count(d) \/ Enable(d) \/ InstallPower(d)
                 \/ Uninstall(d) \/ Mask(d) \/ Leave(d)

Next ==
    \/ \E s \in PowerState : SetPowerState(s)
    \/ Transition
    \/ \E d \in Driver : Start(d) \/ DriverStep(d) \/ Stop(d)

Spec == Init /\ [][Next]_vars

(* A transition and the steps of start and stop are code that runs to its  *)
(* end; the gate and the lock are granted in turn to those who wait.       *)
FairSpec ==
    /\ Spec
    /\ SF_vars(Transition)
    /\ \A d \in Driver : SF_vars(DriverStep(d))

-----------------------------------------------------------------------------
(***************************************************************************)
(* Properties                                                              *)
(***************************************************************************)
TypeOK ==
    /\ powerState \in PowerState /\ target \in PowerState
    /\ pending \in PowerState \cup {"none"}
    /\ change \in {"none", "sleep", "wake", "configure"}
    /\ todo \in Seq(Driver) /\ offline \in BOOLEAN
    /\ ignore \in 0 .. 1 /\ irq \subseteq Line
    /\ installed \in [Line -> 0 .. Cardinality(Driver)]
    /\ lock \in Driver \cup {"none"}
    /\ at \in [Driver -> {"stopped", "setup", "install", "count", "enable", "power",
                           "running", "uninstall", "mask", "leave"}]
    /\ powerAction \subseteq Driver
    /\ dev \in [Driver -> {"on", "off", "dead"}]

(* Between two transitions interrupts are ignored if and only if the       *)
(* machine sleeps, whatever sequence of sleep, doze and normal led here:   *)
(* the counter that two branches of setPowerStateGated move stays in step. *)
InterruptsIgnoredAsleep ==
    GateFree => /\ ignore > 0 <=> powerState = "sleep"
                /\ offline <=> powerState = "sleep"

(* After a sleep every device whose driver runs is silent and no interrupt *)
(* line is enabled: the disable actions ran before the hardware went       *)
(* offline (setPowerStateGated, steps 2 and 3).                            *)
SleepSilences ==
    GateFree /\ powerState = "sleep" =>
        irq = {} /\ \A d \in powerAction : dev[d] = "off"

(* After a wake every running driver's device is enabled again, unless the *)
(* driver did not find it, and its interrupt line is on.                   *)
WakeRestores ==
    GateFree /\ powerState # "sleep" =>
        \A d \in Driver : at[d] = "running" => dev[d] # "off" /\ LineOf(d) \in irq

(* "Acknowledge the power change before the power management timeout       *)
(* expires" (setPowerStateGated): a transition that began ends.            *)
TransitionEnds == ~GateFree ~> GateFree
=============================================================================
