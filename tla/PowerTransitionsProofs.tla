----------------------- MODULE PowerTransitionsProofs -----------------------
(***************************************************************************)
(* For any number of drivers, whether or not they start and stop during    *)
(* transitions: _ignoreInterrupts and _hardwareOffline follow the power    *)
(* state.  InterruptsIgnoredAsleep speaks of the moments between two       *)
(* transitions only; the induction also needs what holds inside one.       *)
(*                                                                         *)
(* For drivers that do not start or stop during transitions: a sleep       *)
(* silences their devices and a wake restores them, without ever meeting   *)
(* the command byte's lock taken.                                          *)
(***************************************************************************)
EXTENDS PowerTransitions, SequenceTheorems, TLAPS

(* Where a transition is, and what it came from, decides both flags. *)
PhaseInv ==
    /\ powerState \in PowerState /\ target \in PowerState
    /\ pending \in PowerState \cup {"none"}
    /\ change \in {"none", "sleep", "wake", "configure"}
    /\ offline \in BOOLEAN /\ ignore \in Nat
    /\ change = "none" =>
          /\ ignore = IF powerState = "sleep" THEN 1 ELSE 0
          /\ (offline <=> powerState = "sleep")
    /\ change = "sleep" =>
          /\ powerState # "sleep" /\ target = "sleep"
          /\ ignore = 1 /\ ~offline
    /\ change \in {"wake", "configure"} =>
          /\ powerState = "sleep" /\ target # "sleep"
          /\ ignore = 1 /\ ~offline

(* Nothing is ignored and nothing is offline before the first transition. *)
LEMMA PhaseInit == Init => PhaseInv
<1> SUFFICES ASSUME Init PROVE PhaseInv
  OBVIOUS
<1>1. /\ powerState = "normal" /\ target = "normal" /\ pending = "none"
      /\ change = "none" /\ ignore = 0
  BY DEF Init
<1>2. ~offline /\ offline \in BOOLEAN
  BY DEF Init
<1> QED BY <1>1, <1>2 DEF PhaseInv, PowerState

(* Every step of a transition keeps the flags in step with its phase. *)
LEMMA PhaseTransition ==
  ASSUME PhaseInv, Transition
  PROVE  PhaseInv'
<1>1. CASE NoTransition
  BY <1>1 DEF PhaseInv, NoTransition, MayBegin, GateFree, PowerState
<1>2. CASE BeginSleep
  BY <1>2 DEF PhaseInv, BeginSleep, MayBegin, GateFree, PowerState
<1>3. CASE NotifyDisable
  BY <1>3 DEF PhaseInv, NotifyDisable
<1>4. CASE EndSleep
  BY <1>4 DEF PhaseInv, EndSleep, PowerState
<1>5. CASE BeginWake
  BY <1>5 DEF PhaseInv, BeginWake, MayBegin, GateFree, PowerState
<1>6. CASE NotifyEnable
  BY <1>6 DEF PhaseInv, NotifyEnable
<1>7. CASE Configure
  BY <1>7 DEF PhaseInv, Configure
<1>8. CASE EndWake
  BY <1>8 DEF PhaseInv, EndWake, PowerState
<1> QED BY <1>1, <1>2, <1>3, <1>4, <1>5, <1>6, <1>7, <1>8 DEF Transition

(* The steps of a driver leave the controller's own state alone. *)
LEMMA DriverKeepsSystem ==
  ASSUME NEW d, Start(d) \/ DriverStep(d) \/ Stop(d)
  PROVE  UNCHANGED system
BY DEF Start, DriverStep, Stop, Setup, Install, Count, Enable, InstallPower,
       Uninstall, Mask, Leave

LEMMA PhaseNext ==
  ASSUME PhaseInv, [Next]_vars
  PROVE  PhaseInv'
<1>1. CASE \E s \in PowerState : SetPowerState(s)
  BY <1>1 DEF PhaseInv, SetPowerState, PowerState
<1>2. CASE Transition
  BY <1>2, PhaseTransition
<1>3. CASE \E d \in Driver : Start(d) \/ DriverStep(d) \/ Stop(d)
  <2>1. UNCHANGED system
    BY <1>3, DriverKeepsSystem
  <2> QED BY <2>1 DEF PhaseInv, system
<1>4. CASE UNCHANGED vars
  BY <1>4 DEF PhaseInv, vars
<1> QED BY <1>1, <1>2, <1>3, <1>4 DEF Next

(* The phase invariant holds throughout. *)
THEOREM PowerPhases == Spec => []PhaseInv
BY PhaseInit, PhaseNext, PTL DEF Spec

(* Between two transitions interrupts are ignored, and requests refused,   *)
(* exactly while the machine sleeps.                                       *)
THEOREM PowerIgnoresAsleep == Spec => []InterruptsIgnoredAsleep
<1>1. PhaseInv => InterruptsIgnoredAsleep
  BY DEF PhaseInv, InterruptsIgnoredAsleep, GateFree
<1> QED BY <1>1, PowerPhases, PTL

(***************************************************************************)
(* What sleeps and wakes do to the devices, if no driver starts or stops   *)
(* meanwhile.  The properties speak of the moments between two             *)
(* transitions; the invariant says how far a transition has got, by the    *)
(* drivers it still has to notify.                                         *)
(***************************************************************************)
Labels == {"stopped", "setup", "install", "count", "enable", "power",
           "running", "uninstall", "mask", "leave"}

Types ==
    /\ todo \in Seq(Driver) /\ irq \subseteq Line
    /\ at \in [Driver -> Labels] /\ powerAction \subseteq Driver
    /\ dev \in [Driver -> {"on", "off", "dead"}]

(* start and stop are over before a transition begins, and do not begin    *)
(* before the machine is awake again.                                      *)
Quiescent == change # "none" \/ offline => \A d \in Driver : Settled(d)

(* A running driver has its power action installed, and one that has it is *)
(* running or on its way out.                                              *)
ActionsInstalled ==
    \A d \in Driver :
        /\ at[d] = "running" => d \in powerAction
        /\ d \in powerAction => at[d] \in {"running", "uninstall", "mask", "leave"}

InTodo(d) == \E i \in 1 .. Len(todo) : todo[i] = d

(* The sleep has silenced every driver that it has notified ... *)
Silencing == change = "sleep" =>
    irq = {} /\ \A d \in powerAction : dev[d] = "off" \/ InTodo(d)

(* ... and the wake has enabled every device, or not found it. *)
Restoring == change \in {"wake", "configure"} =>
    /\ \A d \in powerAction : dev[d] # "off" \/ InTodo(d)
    /\ change = "configure" => todo # << >>

DeviceInv == /\ PhaseInv /\ Types /\ Quiescent /\ ActionsInstalled
             /\ Silencing /\ Restoring /\ SleepSilences

(* A driver that has been notified leaves the list, and no other. *)
LEMMA Notified ==
  ASSUME NEW s \in Seq(Driver), s # << >>, NEW d \in Driver,
         \E i \in 1 .. Len(s) : s[i] = d
  PROVE  /\ Head(s) \in Driver /\ Tail(s) \in Seq(Driver)
         /\ d = Head(s) \/ \E i \in 1 .. Len(Tail(s)) : Tail(s)[i] = d
<1>1. /\ Head(s) = s[1] /\ Head(s) \in Driver /\ Tail(s) \in Seq(Driver)
      /\ Len(Tail(s)) = Len(s) - 1
      /\ \A j \in 1 .. Len(s) - 1 : Tail(s)[j] = s[j + 1]
  BY HeadTailProperties
<1>2. PICK i \in 1 .. Len(s) : s[i] = d
  OBVIOUS
<1>3. CASE i = 1
  BY <1>1, <1>2, <1>3
<1>4. CASE i # 1
  <2>1. i - 1 \in 1 .. Len(s) - 1 /\ i - 1 + 1 = i
    BY <1>4
  <2>2. Tail(s)[i - 1] = d
    BY <1>1, <1>2, <2>1
  <2> QED
    BY <1>1, <2>1, <2>2
<1> QED
  BY <1>3, <1>4

(* Both orders in which the drivers are notified have all of them. *)
LEMMA Everyone ==
  ASSUME NEW s, s \in {Append(Mice, Keyboard), <<Keyboard>> \o Mice}
  PROVE  s \in Seq(Driver) /\ \A d \in Driver : \E i \in 1 .. Len(s) : s[i] = d
<1>1. Mice \in Seq(Driver) /\ Keyboard \in Driver /\ Len(Mice) \in Nat
  BY DriverAssumption DEF Driver
<1>2. ASSUME NEW d \in Driver, d # Keyboard
      PROVE  \E i \in 1 .. Len(Mice) : Mice[i] = d
  BY <1>1, <1>2 DEF Driver, Mouse
<1>3. CASE s = Append(Mice, Keyboard)
  <2>1. /\ s \in Seq(Driver) /\ Len(s) = Len(Mice) + 1 /\ s[Len(Mice) + 1] = Keyboard
        /\ \A i \in 1 .. Len(Mice) : s[i] = Mice[i]
    BY <1>1, <1>3, AppendProperties
  <2>2. ASSUME NEW d \in Driver PROVE \E i \in 1 .. Len(s) : s[i] = d
    <3>1. CASE d = Keyboard
      BY <1>1, <2>1, <3>1
    <3>2. CASE d # Keyboard
      <4>1. PICK i \in 1 .. Len(Mice) : Mice[i] = d
        BY <1>2, <3>2
      <4>2. i \in 1 .. Len(s) /\ s[i] = d
        BY <1>1, <2>1, <4>1
      <4> QED
        BY <4>2
    <3> QED
      BY <3>1, <3>2
  <2> QED
    BY <2>1, <2>2
<1>4. CASE s = <<Keyboard>> \o Mice
  <2>1. <<Keyboard>> \in Seq(Driver) /\ Len(<<Keyboard>>) = 1
    BY <1>1
  <2>2. /\ s \in Seq(Driver) /\ Len(s) = 1 + Len(Mice) /\ s[1] = Keyboard
        /\ \A i \in 1 .. Len(Mice) : s[i + 1] = Mice[i]
    BY <1>1, <1>4, <2>1
  <2>3. ASSUME NEW d \in Driver PROVE \E i \in 1 .. Len(s) : s[i] = d
    <3>1. CASE d = Keyboard
      BY <1>1, <2>2, <3>1
    <3>2. CASE d # Keyboard
      <4>1. PICK i \in 1 .. Len(Mice) : Mice[i] = d
        BY <1>2, <3>2
      <4>2. i + 1 \in 1 .. Len(s) /\ s[i + 1] = d
        BY <1>1, <2>2, <4>1
      <4> QED
        BY <4>2
    <3> QED
      BY <3>1, <3>2
  <2> QED
    BY <2>2, <2>3
<1> QED
  BY <1>3, <1>4

(* Before any driver has started. *)
LEMMA DeviceInit == Init => DeviceInv
<1> SUFFICES ASSUME Init PROVE DeviceInv
  OBVIOUS
<1>1. PhaseInv
  BY PhaseInit
<1>2. Types
  BY DEF Init, Types, Labels
<1>3. Quiescent /\ ActionsInstalled /\ Silencing /\ Restoring /\ SleepSilences
  BY DEF Init, Quiescent, ActionsInstalled, Silencing, Restoring, SleepSilences, Settled
<1> QED
  BY <1>1, <1>2, <1>3 DEF DeviceInv

(* The sleep has everyone to notify. *)
LEMMA BeginSleepDevice ==
  ASSUME ~Overlap, DeviceInv, BeginSleep
  PROVE  DeviceInv'
<1>1. PhaseInv'
  BY PhaseTransition DEF DeviceInv, Transition
<1>2. todo' \in Seq(Driver) /\ \A d \in Driver : InTodo(d)'
  BY Everyone DEF BeginSleep, InTodo
<1>3. Types'
  BY <1>2 DEF DeviceInv, BeginSleep, Types
<1>4. Quiescent' /\ ActionsInstalled'
  BY DEF DeviceInv, BeginSleep, MayBegin, Quiescent, ActionsInstalled, Settled
<1>5. Silencing' /\ Restoring'
  BY <1>2 DEF DeviceInv, BeginSleep, Types, Silencing, Restoring
<1>6. SleepSilences'
  BY DEF BeginSleep, SleepSilences, GateFree
<1> QED
  BY <1>1, <1>3, <1>4, <1>5, <1>6 DEF DeviceInv

(* The notified driver's device is off, and no other changes. *)
LEMMA NotifyDisableDevice ==
  ASSUME ~Overlap, DeviceInv, NotifyDisable
  PROVE  DeviceInv'
<1> DEFINE d == Head(todo)
<1>1. PhaseInv'
  BY PhaseTransition DEF DeviceInv, Transition
<1>2. todo \in Seq(Driver) /\ todo # << >> /\ todo' = Tail(todo)
  BY DEF DeviceInv, Types, NotifyDisable
<1>3. ~offline /\ d \in Driver /\ todo' \in Seq(Driver)
  BY <1>2 DEF DeviceInv, PhaseInv, NotifyDisable
<1>4. ASSUME NEW e \in Driver, InTodo(e), e # d
      PROVE  InTodo(e)'
  BY <1>2, <1>4, Notified DEF InTodo
<1>5. /\ dev' \in [Driver -> {"on", "off", "dead"}]
      /\ \A e \in Driver : e # d => dev'[e] = dev[e]
      /\ d \in powerAction => dev'[d] = "off"
  BY <1>3 DEF DeviceInv, Types, NotifyDisable, Request
<1>6. Types'
  BY <1>3, <1>5 DEF DeviceInv, NotifyDisable, Types
<1>7. Quiescent' /\ ActionsInstalled'
  BY DEF DeviceInv, NotifyDisable, Quiescent, ActionsInstalled, Settled
<1>8. Silencing'
  <2>1. irq' = {}
    BY DEF DeviceInv, Silencing, NotifyDisable
  <2> SUFFICES ASSUME NEW e \in powerAction PROVE dev'[e] = "off" \/ InTodo(e)'
    BY <2>1 DEF Silencing, NotifyDisable
  <2>2. e \in Driver /\ (dev[e] = "off" \/ InTodo(e))
    BY DEF DeviceInv, Types, Silencing, NotifyDisable
  <2> QED
    BY <1>4, <1>5, <2>2
<1>9. Restoring' /\ SleepSilences'
  BY DEF NotifyDisable, Restoring, SleepSilences, GateFree
<1> QED
  BY <1>1, <1>6, <1>7, <1>8, <1>9 DEF DeviceInv

(* Nobody is left to notify: everyone is silent. *)
LEMMA EndSleepDevice ==
  ASSUME ~Overlap, DeviceInv, EndSleep
  PROVE  DeviceInv'
<1>1. PhaseInv'
  BY PhaseTransition DEF DeviceInv, Transition
<1>2. irq = {} /\ \A d \in powerAction : dev[d] = "off"
  <2>1. ASSUME NEW d PROVE ~InTodo(d)
    BY DEF EndSleep, InTodo
  <2> QED
    BY <2>1 DEF DeviceInv, Silencing, EndSleep
<1>3. Types' /\ Quiescent' /\ ActionsInstalled'
  BY DEF DeviceInv, EndSleep, Types, Quiescent, ActionsInstalled, Settled
<1>4. Silencing' /\ Restoring' /\ SleepSilences'
  BY <1>2 DEF EndSleep, Silencing, Restoring, SleepSilences
<1> QED
  BY <1>1, <1>3, <1>4 DEF DeviceInv

(* So has the wake. *)
LEMMA BeginWakeDevice ==
  ASSUME ~Overlap, DeviceInv, BeginWake
  PROVE  DeviceInv'
<1>1. PhaseInv'
  BY PhaseTransition DEF DeviceInv, Transition
<1>2. todo' \in Seq(Driver) /\ \A d \in Driver : InTodo(d)'
  BY Everyone DEF BeginWake, InTodo
<1>3. Types'
  BY <1>2 DEF DeviceInv, BeginWake, Types
<1>4. Quiescent' /\ ActionsInstalled'
  BY DEF DeviceInv, BeginWake, MayBegin, Quiescent, ActionsInstalled, Settled
<1>5. Silencing' /\ Restoring' /\ SleepSilences'
  BY <1>2 DEF DeviceInv, BeginWake, Types, Silencing, Restoring, SleepSilences, GateFree
<1> QED
  BY <1>1, <1>3, <1>4, <1>5 DEF DeviceInv

(* The device of the notified driver is on or dead, and no other changes. *)
LEMMA EnabledDevice ==
  ASSUME ~Overlap, DeviceInv, NotifyEnable \/ Configure, change' # "configure"
  PROVE  DeviceInv'
<1> DEFINE d == Head(todo)
<1>1. PhaseInv'
  BY PhaseTransition DEF DeviceInv, Transition
<1>2. todo \in Seq(Driver) /\ todo # << >> /\ todo' = Tail(todo)
  BY DEF DeviceInv, Types, Restoring, NotifyEnable, Configure
<1>3. ~offline /\ d \in Driver /\ todo' \in Seq(Driver)
  BY <1>2 DEF DeviceInv, PhaseInv, NotifyEnable, Configure
<1>4. ASSUME NEW e \in Driver, InTodo(e), e # d
      PROVE  InTodo(e)'
  BY <1>2, <1>4, Notified DEF InTodo
<1>5. /\ dev' \in [Driver -> {"on", "off", "dead"}]
      /\ \A e \in Driver : e # d => dev'[e] = dev[e]
      /\ d \in powerAction => dev'[d] # "off"
  BY <1>3 DEF DeviceInv, Types, NotifyEnable, Configure, Request
<1>6. /\ UNCHANGED <<powerState, irq, at, powerAction, offline>>
      /\ change \in {"wake", "configure"}
  BY DEF NotifyEnable, Configure
<1>7. change' = "wake"
  BY DEF NotifyEnable, Configure
<1>8. Types'
  BY <1>3, <1>5, <1>6 DEF DeviceInv, Types
<1>9. Quiescent' /\ ActionsInstalled'
  BY <1>6, <1>7 DEF DeviceInv, Quiescent, ActionsInstalled, Settled
<1>10. Restoring'
  <2> SUFFICES ASSUME NEW e \in powerAction PROVE dev'[e] # "off" \/ InTodo(e)'
    BY <1>6, <1>7 DEF Restoring
  <2>1. e \in Driver /\ (dev[e] # "off" \/ InTodo(e))
    BY <1>6 DEF DeviceInv, Types, Restoring
  <2> QED
    BY <1>4, <1>5, <2>1
<1>11. Silencing' /\ SleepSilences'
  BY <1>7 DEF Silencing, SleepSilences, GateFree
<1> QED
  BY <1>1, <1>8, <1>9, <1>10, <1>11 DEF DeviceInv

(* A device that was found is still to be set up. *)
LEMMA FoundDevice ==
  ASSUME ~Overlap, DeviceInv, NotifyEnable, change' = "configure"
  PROVE  DeviceInv'
<1>1. PhaseInv'
  BY PhaseTransition DEF DeviceInv, Transition
<1>2. /\ UNCHANGED <<powerState, irq, at, powerAction, offline, todo, dev>>
      /\ change = "wake" /\ todo # << >>
  BY DEF NotifyEnable
<1>3. Types' /\ Quiescent' /\ ActionsInstalled'
  BY <1>2 DEF DeviceInv, Types, Quiescent, ActionsInstalled, Settled
<1>4. Silencing' /\ Restoring' /\ SleepSilences'
  BY <1>2 DEF DeviceInv, Silencing, Restoring, SleepSilences, GateFree, InTodo
<1> QED
  BY <1>1, <1>3, <1>4 DEF DeviceInv

(* The wake leaves no sleep behind. *)
LEMMA EndWakeDevice ==
  ASSUME ~Overlap, DeviceInv, EndWake
  PROVE  DeviceInv'
<1>1. PhaseInv'
  BY PhaseTransition DEF DeviceInv, Transition
<1>2. Types' /\ Quiescent' /\ ActionsInstalled'
  BY DEF DeviceInv, EndWake, Types, Quiescent, ActionsInstalled, Settled
<1>3. Silencing' /\ Restoring' /\ SleepSilences'
  BY <1>1 DEF DeviceInv, PhaseInv, EndWake, Silencing, Restoring, SleepSilences
<1> QED
  BY <1>1, <1>2, <1>3 DEF DeviceInv

(* What a request to change the state, or one with nothing to do, leaves. *)
LEMMA IdleDevice ==
  ASSUME ~Overlap, DeviceInv,
         (\E s \in PowerState : SetPowerState(s)) \/ NoTransition \/ UNCHANGED vars
  PROVE  DeviceInv'
<1>1. PhaseInv'
  BY PhaseNext DEF DeviceInv, Next, Transition
<1>2. UNCHANGED <<change, todo, irq, at, powerAction, dev, offline>>
  BY DEF SetPowerState, NoTransition, vars
<1>3. powerState' = "sleep" => powerState = "sleep" \/ change # "none"
  BY DEF SetPowerState, NoTransition, MayBegin, GateFree, vars
<1>4. Types' /\ Quiescent' /\ ActionsInstalled'
  BY <1>2 DEF DeviceInv, Types, Quiescent, ActionsInstalled, Settled
<1>5. Silencing' /\ Restoring' /\ SleepSilences'
  BY <1>2, <1>3 DEF DeviceInv, Silencing, Restoring, SleepSilences, GateFree, InTodo
<1> QED
  BY <1>1, <1>4, <1>5 DEF DeviceInv

(* start and stop run while the machine is awake and the gate is free. *)
LEMMA DriverDevice ==
  ASSUME ~Overlap, DeviceInv, NEW d \in Driver, Start(d) \/ DriverStep(d) \/ Stop(d)
  PROVE  DeviceInv' /\ change = "none" /\ ~offline
<1> USE DEF Start, DriverStep, Stop, Setup, Install, Count, Enable, InstallPower,
            Uninstall, Mask, Leave
<1>1. UNCHANGED system
  BY DriverKeepsSystem
<1>2. PhaseInv'
  BY <1>1 DEF DeviceInv, PhaseInv, system
<1>3. change = "none" /\ ~offline
  <2>1. CASE at[d] \in {"stopped", "running"}
    BY <2>1 DEF MayChange, GateFree
  <2>2. CASE at[d] \notin {"stopped", "running"}
    BY <2>2 DEF DeviceInv, Quiescent, Settled
  <2> QED
    BY <2>1, <2>2
<1>4. /\ at' \in [Driver -> Labels]
      /\ \A e \in Driver : e # d => at'[e] = at[e]
  BY DEF DeviceInv, Types, Labels, Goto
<1>5. Types'
  <2>1. dev' \in [Driver -> {"on", "off", "dead"}]
    BY DEF DeviceInv, Types, Request
  <2>2. irq' \subseteq Line /\ powerAction' \subseteq Driver
    BY DEF DeviceInv, Types, Line, LineOf
  <2> QED
    BY <1>1, <1>4, <2>1, <2>2 DEF DeviceInv, Types, system
<1>6. Quiescent' /\ Silencing' /\ Restoring'
  BY <1>1, <1>3 DEF system, Quiescent, Silencing, Restoring
<1>7. SleepSilences'
  BY <1>1, <1>3 DEF DeviceInv, PhaseInv, system, SleepSilences, GateFree
<1>8. ActionsInstalled'
  BY <1>4 DEF DeviceInv, Types, ActionsInstalled, Goto
<1> QED
  BY <1>2, <1>3, <1>5, <1>6, <1>7, <1>8 DEF DeviceInv

(* Every step preserves the invariant. *)
LEMMA DeviceNext ==
  ASSUME ~Overlap, DeviceInv, [Next]_vars
  PROVE  DeviceInv'
<1>1. CASE BeginSleep
  BY <1>1, BeginSleepDevice
<1>2. CASE NotifyDisable
  BY <1>2, NotifyDisableDevice
<1>3. CASE EndSleep
  BY <1>3, EndSleepDevice
<1>4. CASE BeginWake
  BY <1>4, BeginWakeDevice
<1>5. CASE NotifyEnable \/ Configure
  BY <1>5, EnabledDevice, FoundDevice DEF Configure
<1>6. CASE EndWake
  BY <1>6, EndWakeDevice
<1>7. CASE (\E s \in PowerState : SetPowerState(s)) \/ NoTransition \/ UNCHANGED vars
  BY <1>7, IdleDevice
<1>8. CASE \E d \in Driver : Start(d) \/ DriverStep(d) \/ Stop(d)
  BY <1>8, DriverDevice
<1> QED
  BY <1>1, <1>2, <1>3, <1>4, <1>5, <1>6, <1>7, <1>8 DEF Next, Transition

(* With any number of mouse drivers that do not start or stop during a     *)
(* transition, a sleeping machine is silent.                               *)
THEOREM PowerSleepSilences ==
  ASSUME ~Overlap PROVE Spec => []SleepSilences
<1>1. DeviceInv /\ [Next]_vars => DeviceInv'
  BY DeviceNext
<1>2. DeviceInv => SleepSilences
  BY DEF DeviceInv
<1> QED
  BY <1>1, <1>2, DeviceInit, PTL DEF Spec

(***************************************************************************)
(* What a wake restores was there before: start has enabled the interrupt  *)
(* line and the device.  With two mice a start can meet a stop that has    *)
(* counted down and not yet masked the line; the comment at the count      *)
(* assumes a single one, and so does the theorem.                          *)
(***************************************************************************)
OneMouseDriver == \A d, e \in Mouse : d = e

(* The line's count tells whether its one driver is installed. *)
CountsRight ==
    /\ installed \in [Line -> Int]
    /\ \A d \in Driver :
          installed[LineOf(d)] =
              IF at[d] \in {"enable", "power", "running", "uninstall"} THEN 1 ELSE 0

(* start has enabled the line before it counts, and the device before the  *)
(* power action is installed.                                              *)
Started ==
    change = "none" /\ ~offline => \A d \in Driver :
        /\ at[d] \in {"count", "enable", "power", "running"} => LineOf(d) \in irq
        /\ at[d] \in {"power", "running"} => dev[d] # "off"

(* The keyboard masks its line before it counts down. *)
OnlyMiceMask == at[Keyboard] # "mask"

RestoreInv == DeviceInv /\ CountsRight /\ OnlyMiceMask /\ Started

(* Drivers are told apart by their lines. *)
LEMMA OnePerLine ==
  ASSUME OneMouseDriver, NEW d \in Driver, NEW e \in Driver, LineOf(d) = LineOf(e)
  PROVE  d = e
BY DEF OneMouseDriver, Driver, LineOf

(* Before any driver has started. *)
LEMMA RestoreInit == Init => RestoreInv
<1> SUFFICES ASSUME Init PROVE CountsRight /\ OnlyMiceMask /\ Started
  BY DeviceInit DEF RestoreInv
<1> QED
  BY DEF Init, CountsRight, OnlyMiceMask, Started, Driver, Line, LineOf

(* A transition counts nothing, and its end enables every line. *)
LEMMA TransitionRestores ==
  ASSUME ~Overlap, RestoreInv,
         Transition \/ (\E s \in PowerState : SetPowerState(s)) \/ UNCHANGED vars
  PROVE  CountsRight' /\ OnlyMiceMask' /\ Started'
<1> USE DEF RestoreInv, DeviceInv
<1>1. UNCHANGED <<installed, at>>
  BY DEF Transition, NoTransition, BeginSleep, NotifyDisable, EndSleep, BeginWake,
         NotifyEnable, Configure, EndWake, SetPowerState, vars
<1>2. CountsRight' /\ OnlyMiceMask'
  BY <1>1 DEF CountsRight, OnlyMiceMask
<1>3. CASE EndWake
  <2>1. ASSUME NEW d \in Driver
        PROVE  /\ LineOf(d) \in Line
               /\ at[d] \in {"power", "running"} => dev[d] # "off"
    <3>1. Settled(d) /\ ~InTodo(d)
      BY <1>3 DEF EndWake, Quiescent, InTodo
    <3>2. at[d] = "running" => dev[d] # "off"
      BY <1>3, <3>1 DEF EndWake, Restoring, ActionsInstalled
    <3> QED
      BY <3>1, <3>2 DEF Settled, Line, LineOf
  <2> QED
    BY <1>2, <1>3, <2>1 DEF EndWake, Started
<1>4. CASE NoTransition \/ (\E s \in PowerState : SetPowerState(s)) \/ UNCHANGED vars
  <2>1. UNCHANGED <<change, irq, at, dev, offline>>
    BY <1>4 DEF SetPowerState, NoTransition, vars
  <2> QED
    BY <1>2, <2>1 DEF Started
<1>5. CASE \/ BeginSleep \/ NotifyDisable \/ EndSleep \/ BeginWake \/ NotifyEnable
           \/ Configure
  <2>1. change' # "none" \/ offline'
    BY <1>5 DEF BeginSleep, NotifyDisable, EndSleep, BeginWake, NotifyEnable, Configure
  <2> QED
    BY <1>2, <2>1 DEF Started
<1> QED
  BY <1>2, <1>3, <1>4, <1>5 DEF Transition

(* start and stop touch their own line only. *)
LEMMA DriverRestores ==
  ASSUME ~Overlap, OneMouseDriver, RestoreInv, NEW d \in Driver,
         Start(d) \/ DriverStep(d) \/ Stop(d)
  PROVE  CountsRight' /\ OnlyMiceMask' /\ Started'
<1> USE DEF RestoreInv
<1>1. Types /\ change = "none" /\ ~offline /\ change' = "none" /\ ~offline'
  BY DriverDevice, DriverKeepsSystem DEF DeviceInv, system
<1>2. \A e \in Driver : e # d => at'[e] = at[e] /\ LineOf(e) # LineOf(d)
  <2>1. \A e \in Driver : e # d => at'[e] = at[e]
    BY <1>1 DEF Types, Goto, Start, DriverStep, Stop, Setup, Install, Count, Enable,
                InstallPower, Uninstall, Mask, Leave
  <2> QED
    BY <2>1, OnePerLine
<1>3. LineOf(d) \in Line /\ installed \in [Line -> Int]
  BY DEF LineOf, Line, CountsRight
<1>4. /\ \A e \in Driver :
            /\ at[e] \in {"count", "enable", "power", "running"} => LineOf(e) \in irq
            /\ at[e] \in {"power", "running"} => dev[e] # "off"
      /\ \A e \in Driver : installed[LineOf(e)] =
              IF at[e] \in {"enable", "power", "running", "uninstall"} THEN 1 ELSE 0
  BY <1>1 DEF CountsRight, Started
<1>5. \A e \in Driver : LineOf(e) \in Line
  BY DEF LineOf, Line
<1>6. CountsRight'
  <2>1. installed' \in [Line -> Int]
    BY <1>3 DEF Start, DriverStep, Stop, Setup, Install, Count, Enable,
                InstallPower, Uninstall, Mask, Leave
  <2>2. \A e \in Driver : e # d => installed'[LineOf(e)] = installed[LineOf(e)]
    BY <1>2, <1>3, <1>5 DEF Start, DriverStep, Stop, Setup, Install, Count, Enable,
                InstallPower, Uninstall, Mask, Leave
  <2>3. installed'[LineOf(d)] =
            IF at'[d] \in {"enable", "power", "running", "uninstall"} THEN 1 ELSE 0
    BY <1>1, <1>3, <1>4 DEF Types, Goto, Start, DriverStep, Stop, Setup, Install, Count, Enable,
                InstallPower, Uninstall, Mask, Leave
  <2> QED
    BY <1>2, <1>4, <2>1, <2>2, <2>3 DEF CountsRight
<1>7. Started'
  <2>1. \A e \in Driver : e # d => /\ LineOf(e) \in irq => LineOf(e) \in irq'
                                   /\ dev'[e] = dev[e]
    BY <1>1, <1>2 DEF Types, OnlyMiceMask, Request, LineOf, Start, DriverStep, Stop, Setup, Install, Count,
                Enable, InstallPower, Uninstall, Mask, Leave
  <2>2. at'[d] \in {"count", "enable", "power", "running"} => LineOf(d) \in irq'
    BY <1>1, <1>4 DEF Types, Goto, Start, DriverStep, Stop, Setup, Install, Count,
                Enable, InstallPower, Uninstall, Mask, Leave
  <2>3. at'[d] \in {"power", "running"} => dev'[d] # "off"
    BY <1>1, <1>4 DEF Types, Goto, Request, Start, DriverStep, Stop, Setup, Install, Count,
                Enable, InstallPower, Uninstall, Mask, Leave
  <2> QED
    BY <1>2, <1>4, <2>1, <2>2, <2>3 DEF Started
<1>8. OnlyMiceMask'
  BY <1>1 DEF Types, OnlyMiceMask, Driver, Goto, Start, DriverStep, Stop, Setup, Install,
              Count, Enable, InstallPower, Uninstall, Mask, Leave
<1> QED
  BY <1>6, <1>7, <1>8

(* With one mouse driver, and no driver that starts or stops during a      *)
(* transition, a machine that is awake has every running driver's line and *)
(* device enabled, unless the driver did not find its device.              *)
THEOREM PowerWakeRestores ==
  ASSUME ~Overlap, OneMouseDriver PROVE Spec => []WakeRestores
<1>1. RestoreInv /\ [Next]_vars => RestoreInv'
  <2> SUFFICES ASSUME RestoreInv, [Next]_vars PROVE RestoreInv'
    OBVIOUS
  <2>1. DeviceInv'
    BY DeviceNext DEF RestoreInv
  <2>2. CountsRight' /\ OnlyMiceMask' /\ Started'
    BY TransitionRestores, DriverRestores DEF Next
  <2> QED
    BY <2>1, <2>2 DEF RestoreInv
<1>2. RestoreInv => WakeRestores
  BY DEF RestoreInv, DeviceInv, PhaseInv, Started, WakeRestores, GateFree
<1> QED
  BY <1>1, <1>2, RestoreInit, PTL DEF Spec

(***************************************************************************)
(* The safety that TransitionEnds needs from the code; what is left is     *)
(* that the thread of the transition runs.                                 *)
(***************************************************************************)

(* _cmdbyteLock is held from the beginning of start to its enable, and by  *)
(* nobody else: every way out of start gives it back.                      *)
LockHeldInStart ==
    lock # "none" => lock \in Driver /\ at[lock] \in {"setup", "install", "count", "enable"}

(* The one place where a transition waits, for _cmdbyteLock with the gate  *)
(* held, finds the lock free.                                              *)
LockFreeOnWake == change = "configure" => lock = "none" /\ todo # << >>

(* What a transition has still to do *)
WorkLeft == 2 * Len(todo) + (IF change = "configure" THEN 0 ELSE 1)

(* Each step of the system inside a transition ends it, does not touch it, *)
(* or leaves less of it to do: drivers cannot be added to those it has to  *)
(* notify, and none is asked twice.                                        *)
TransitionNearsEnd ==
    [][ change # "none" =>
          \/ change' = "none"
          \/ UNCHANGED <<change, todo>>
          \/ WorkLeft \in Nat /\ WorkLeft' \in Nat /\ WorkLeft' < WorkLeft
      ]_vars

(* start takes the lock and returns it. *)
LEMMA LockHeldNext ==
  ASSUME DeviceInv, LockHeldInStart, [Next]_vars
  PROVE  LockHeldInStart'
<1>1. CASE \E d \in Driver : Start(d) \/ DriverStep(d) \/ Stop(d)
  <2>1. PICK d \in Driver : Start(d) \/ DriverStep(d) \/ Stop(d)
    BY <1>1
  <2>2. at \in [Driver -> Labels]
    BY DEF DeviceInv, Types
  <2> QED
    BY <2>1, <2>2 DEF LockHeldInStart, Labels, Goto, Start, DriverStep, Stop, Setup, Install,
                      Count, Enable, InstallPower, Uninstall, Mask, Leave
<1>2. CASE ~ \E d \in Driver : Start(d) \/ DriverStep(d) \/ Stop(d)
  <2>1. UNCHANGED <<lock, at>>
    BY <1>2 DEF Next, Transition, NoTransition, BeginSleep, NotifyDisable, EndSleep,
                BeginWake, NotifyEnable, Configure, EndWake, SetPowerState, vars
  <2> QED
    BY <2>1 DEF LockHeldInStart
<1> QED
  BY <1>1, <1>2

(* Without overlap of start with a transition the wake action of a         *)
(* FocalTech driver never blocks on _cmdbyteLock, for any number of        *)
(* drivers: the run with overlap shows that it can otherwise.              *)
THEOREM PowerLockFree ==
  ASSUME ~Overlap PROVE Spec => []LockFreeOnWake
<1> DEFINE Inv == DeviceInv /\ LockHeldInStart
<1>1. Init => Inv
  BY DeviceInit DEF Init, LockHeldInStart
<1>2. Inv /\ [Next]_vars => Inv'
  BY DeviceNext, LockHeldNext
<1>3. Inv => LockFreeOnWake
  <2> SUFFICES ASSUME Inv, change = "configure" PROVE lock = "none" /\ todo # << >>
    BY DEF LockFreeOnWake
  <2>1. todo # << >>
    BY DEF DeviceInv, Restoring
  <2>2. \A d \in Driver : at[d] \in {"stopped", "running"}
    BY DEF DeviceInv, Quiescent, Settled
  <2> QED
    BY <2>1, <2>2 DEF LockHeldInStart
<1> QED
  BY <1>1, <1>2, <1>3, PTL DEF Spec

(* With or without overlap, a transition gets nearer to its end with every *)
(* step it takes (setPowerStateGated, dispatchDriverPowerControl).         *)
THEOREM PowerNearsEnd == Spec => TransitionNearsEnd
<1> DEFINE Inv == /\ change \in {"none", "sleep", "wake", "configure"} /\ todo \in Seq(Driver)
                  /\ change = "configure" => todo # << >>
           Nearer == \/ change' = "none"
                     \/ UNCHANGED <<change, todo>>
                     \/ WorkLeft \in Nat /\ WorkLeft' \in Nat /\ WorkLeft' < WorkLeft
<1>1. Init => Inv
  BY DEF Init
<1>2. ASSUME NEW s \in Seq(Driver), s # << >>
      PROVE  /\ Tail(s) \in Seq(Driver) /\ Len(Tail(s)) \in Nat
             /\ Len(s) \in Nat /\ Len(s) = Len(Tail(s)) + 1
  BY <1>2, HeadTailProperties
<1>3. Inv /\ [Next]_vars => Inv'
  <2> SUFFICES ASSUME Inv, [Next]_vars PROVE Inv'
    OBVIOUS
  <2>1. CASE BeginSleep \/ BeginWake
    BY <2>1, Everyone DEF BeginSleep, BeginWake
  <2>2. CASE NotifyDisable
    BY <1>2, <2>2 DEF NotifyDisable
  <2>3. CASE NotifyEnable
    BY <1>2, <2>3 DEF NotifyEnable
  <2>4. CASE Configure
    BY <1>2, <2>4 DEF Configure
  <2>5. CASE EndSleep \/ EndWake
    BY <2>5 DEF EndSleep, EndWake
  <2>6. CASE (\E s \in PowerState : SetPowerState(s)) \/ NoTransition \/ UNCHANGED vars
    BY <2>6 DEF SetPowerState, NoTransition, vars
  <2>7. CASE \E d \in Driver : Start(d) \/ DriverStep(d) \/ Stop(d)
    BY <2>7, DriverKeepsSystem DEF system
  <2> QED
    BY <2>1, <2>2, <2>3, <2>4, <2>5, <2>6, <2>7 DEF Next, Transition
<1>4. Inv /\ [Next]_vars => [change # "none" => Nearer]_vars
  <2> SUFFICES ASSUME Inv, Next, change # "none" PROVE Nearer
    OBVIOUS
  <2>1. CASE NotifyDisable
    BY <1>2, <2>1 DEF NotifyDisable, WorkLeft
  <2>2. CASE NotifyEnable
    <3>1. CASE todo' = Tail(todo) /\ change' = "wake"
      BY <1>2, <2>2, <3>1 DEF NotifyEnable, WorkLeft
    <3>2. CASE todo' = todo /\ change' = "configure"
      BY <1>2, <2>2, <3>2 DEF NotifyEnable, WorkLeft
    <3> QED
      BY <2>2, <3>1, <3>2 DEF NotifyEnable
  <2>3. CASE Configure
    BY <1>2, <2>3 DEF Configure, WorkLeft
  <2>4. CASE EndSleep \/ EndWake
    BY <2>4 DEF EndSleep, EndWake
  <2>5. CASE \E s \in PowerState : SetPowerState(s)
    BY <2>5 DEF SetPowerState
  <2>6. CASE \E d \in Driver : Start(d) \/ DriverStep(d) \/ Stop(d)
    BY <2>6, DriverKeepsSystem DEF system
  <2>7. ~ (NoTransition \/ BeginSleep \/ BeginWake)
    BY DEF NoTransition, BeginSleep, BeginWake, MayBegin, GateFree
  <2> QED
    BY <2>1, <2>2, <2>3, <2>4, <2>5, <2>6, <2>7 DEF Next, Transition
<1> QED
  BY <1>1, <1>3, <1>4, PTL DEF Spec, TransitionNearsEnd
=============================================================================
