-------------------------- MODULE KeyboardDispatch --------------------------
(***************************************************************************)
(* What the keyboard driver makes of a key: dispatchKeyboardEventWithPacket*)
(* tracks the modifiers, handles the special keys (NumLock, Ctrl+Alt+Del,  *)
(* sleep, PrntScr, the brightness keys, eject), drops keys while input is  *)
(* disabled, and sends the rest to the HID system; one timer serves the    *)
(* sleep and the eject key; initKeyboard releases held keys on a wake.     *)
(*                                                                         *)
(* Packets arrive in order (KeyboardInput) and are handled one at a time.  *)
(* Keys are named by role.  A key the driver presses and releases in one   *)
(* handler leaves no key down: such taps are not recorded.                 *)
(***************************************************************************)
EXTENDS Naturals, Sequences, FiniteSets, SequencesExt

CONSTANTS
    ScanOrder,  \* the keys of the keyboard, by key code
    Command,    \* the key mapped to ADB 0x37: "lalt" or "lwin"
    Features,   \* the settings in force
    MaxHeld     \* bound: keys down, on the keyboard or for the HID system

Modifier == {"lctrl", "lalt", "ralt", "lshift", "lwin"}
BreaklessKey == {"fnup"}
Special == {"del", "plus", "sleep", "eject", "prtsc", "sysrq", "touchpad",
            "fkeys", "caps", "numlock", "header", "f1"}
Letter == {"a"}
AnyKey == Modifier \cup BreaklessKey \cup Special \cup Letter

KeyPresent == ToSet(ScanOrder)

(* What can be down for the HID system: a key, the brightness key that the *)
(* brightness hack sends, or what f1 stands for in its special mode.       *)
Code == AnyKey \cup {"bright", "f1special"}

(* _remapPrntScr, _numLockSupport, _backlightLevels, _brightnessHack,      *)
(* _fkeymodesupported, _maxsleeppresstime and _f12ejectdelay not zero      *)
Feature == {"prntscr", "numlock", "backlight", "brightness", "fkeymode",
            "sleepdelay", "ejectdelay"}

(* What the constants must be *)
Assumptions ==
    /\ ScanOrder \in Seq(AnyKey) /\ Command \in {"lalt", "lwin"}
    /\ Features \subseteq Feature /\ MaxHeld \in Nat

VARIABLES
    down,       \* _keyBitVector
    drv,        \* the state the dispatch works on; see Driver
    event       \* what the last step asked of the rest of the system

vars == <<down, drv, event>>

(* Sleep, the power key, HIDFKeyMode, NumLock, and the touchpad: reset it, *)
(* toggle it, or make it follow the keyboard.                              *)
Request == {"sleep", "power", "fkeymode", "numlock",
            "resetpad", "togglepad", "syncpad"}

Driver == [
    mods : SUBSET Modifier,         \* _PS2modifierState
    client : SUBSET Code,           \* the keys that are down for the HID system
    timer : BOOLEAN,                \* _sleepEjectTimer is set
    func : {"sleep", "eject"},      \* _timerFunc
    off : BOOLEAN,                  \* _disableInput
    fkeymode : BOOLEAN,             \* _fkeymode
    asks : SUBSET Request]          \* what the handler has asked for so far

Init ==
    /\ down = {} /\ event = {}
    /\ drv = [mods |-> {}, client |-> {}, timer |-> FALSE, func |-> "sleep",
              off |-> FALSE, fkeymode |-> FALSE, asks |-> {}]

Has(f) == f \in Features
(* checkModifierStateAny, checkModifierState *)
AnyHeld(d, keys) == d.mods \cap keys # {}
AllHeld(d, keys) == keys \subseteq d.mods
Ask(d, what) == [d EXCEPT !.asks = @ \cup {what}]

-----------------------------------------------------------------------------
(***************************************************************************)
(* Special keys.  Each operator gives the driver's state after the case of *)
(* dispatchKeyboardEventWithPacket that handles the key.                   *)
(***************************************************************************)

(* onSleepEjectTimer *)
OnSleepEjectTimer(d) ==
    IF d.func = "sleep" THEN Ask(d, "sleep")
    ELSE [d EXCEPT !.client = @ \cup {"eject"}]

(* Fault: the sleep key leaves the timer running when it is released. *)
SleepKey_KeepsTimer(d, goingDown) ==
    IF ~ goingDown THEN d
    ELSE LET s == [d EXCEPT !.func = "sleep"]
         IN  IF d.fkeymode \/ ~ Has("sleepdelay")
             THEN OnSleepEjectTimer(s) ELSE [s EXCEPT !.timer = TRUE]

(* 0x015f *)
SleepKey(d, goingDown) ==
    LET s == [d EXCEPT !.func = "sleep"]
    IN  CASE goingDown /\ (d.fkeymode \/ ~ Has("sleepdelay")) ->
               OnSleepEjectTimer(s)
          [] goingDown /\ ~ d.fkeymode /\ Has("sleepdelay") ->
               [s EXCEPT !.timer = TRUE]
          [] ~ goingDown -> [d EXCEPT !.timer = FALSE]

(* ADB 0x92 without modifiers: the press is eaten and waits for the timer. *)
EjectDown(d) ==
    LET s == [d EXCEPT !.func = "eject"]
    IN  IF Has("ejectdelay") THEN [s EXCEPT !.timer = TRUE]
        ELSE OnSleepEjectTimer(s)

(* 0x0153 with Ctrl+Alt: the power key, after Control and Command are up. *)
CtrlAltDelete(d, goingDown) ==
    IF goingDown THEN d
    ELSE Ask([d EXCEPT !.client = @ \ {Command, "lctrl"}], "power")

(* The brightness hack: lift Shift (unless Windows is down) and Control,   *)
(* send the brightness key, press again those that are held.               *)
BrightnessKey(d, held, goingDown) ==
    LET lifted == held \cap (IF AllHeld(d, {"lwin"}) THEN {"lctrl"}
                                                 ELSE {"lshift", "lctrl"})
    IN  [d EXCEPT !.client = (IF goingDown THEN @ \cup {"bright"}
                              ELSE @ \ {"bright"}) \cup lifted]

(* 0x0127: ask IOHIDSystem to change HIDFKeyMode. *)
FKeysToggle(d, goingDown) ==
    IF goingDown /\ Has("fkeymode") THEN Ask(d, "fkeymode") ELSE d

(* 0x0137 when it is remapped.  With Control it goes on into FKeysToggle.  *)
PrntScr(d, goingDown) ==
    CASE ~ goingDown -> d
      [] goingDown /\ AnyHeld(d, {"lctrl"}) ->
           FKeysToggle(IF AnyHeld(d, {"lalt", "ralt"})
                       THEN Ask(d, "resetpad") ELSE d,
                       goingDown)
      [] goingDown /\ ~ AnyHeld(d, {"lctrl"})
                   /\ AnyHeld(d, {"lshift", "lalt", "ralt"}) -> d
      [] goingDown /\ ~ AnyHeld(d, {"lctrl", "lshift", "lalt", "ralt"})
                   /\ AnyHeld(d, {"lwin"}) ->
           Ask([d EXCEPT !.off = ~ @], "syncpad")
      [] goingDown /\ ~ AnyHeld(d, Modifier) -> Ask(d, "togglepad")

(* 0x0054 and 0x0128: pretend that left Alt is down. *)
ForceAlt(d) == [d EXCEPT !.mods = (@ \ {"ralt"}) \cup {"lalt"}]

-----------------------------------------------------------------------------
(***************************************************************************)
(* dispatchKeyboardEventWithPacket                                         *)
(***************************************************************************)

(* Tracking of the modifier keys, before any map. *)
Track(d, k, goingDown) ==
    IF k \notin Modifier THEN d
    ELSE [d EXCEPT !.mods = IF goingDown THEN @ \cup {k} ELSE @ \ {k}]

(* _PS2ToPS2Map and _PS2ToADBMap: f1 is remapped unless _fkeymode is set. *)
Mapped(d, k) == IF k = "f1" /\ ~ d.fkeymode THEN "f1special" ELSE k

(* Fault: input is disabled for releases as well. *)
SendKey_DropsReleases(d, k, goingDown) ==
    IF d.off \/ k \in BreaklessKey \cup {"caps"} THEN d
    ELSE [d EXCEPT !.client = IF goingDown THEN @ \cup {Mapped(d, k)}
                              ELSE @ \ {Mapped(d, k)}]

(* The common tail: disabled input drops presses; eject waits; caps lock   *)
(* and breakless keys are taps; other keys go to the HID system.           *)
SendKey(d, k, goingDown) ==
    CASE d.off /\ goingDown -> d
      [] ~ (d.off /\ goingDown) /\ k = "eject" /\ goingDown /\ d.mods = {} ->
           EjectDown(d)
      [] k \in BreaklessKey \cup {"caps"} -> d
      [] OTHER ->
           [d EXCEPT !.client = IF goingDown THEN @ \cup {Mapped(d, k)}
                                ELSE @ \ {Mapped(d, k)},
                     !.timer = @ /\ ~ (k = "eject" /\ ~ goingDown /\ d.mods = {})]

(* held is the key bit vector that the brightness hack looks at *)
Dispatch(d0, held, k, goingDown) ==
    LET d == Track(d0, k, goingDown)
    IN  CASE k = "header" -> d0
          [] k = "numlock" /\ Has("numlock") ->
               IF goingDown THEN d ELSE Ask(d, "numlock")
          [] k = "plus" /\ Has("backlight") /\ AllHeld(d, {"lctrl", "lalt"}) -> d
          [] k = "plus" /\ ~ (Has("backlight") /\ AllHeld(d, {"lctrl", "lalt"}))
                        /\ Has("brightness") /\ AllHeld(d, {"lctrl", "lshift"}) ->
               BrightnessKey(d, held, goingDown)
          [] k = "del" /\ AllHeld(d, {"lctrl", "lalt"}) -> CtrlAltDelete(d, goingDown)
          [] k = "sleep" -> SleepKey(d, goingDown)
          [] k = "sysrq" /\ Has("prntscr") -> PrntScr(ForceAlt(d), goingDown)
          [] k = "touchpad" /\ Has("prntscr") -> PrntScr(ForceAlt(d), goingDown)
          [] k = "touchpad" /\ ~ Has("prntscr") ->
               SendKey(ForceAlt(d), "prtsc", goingDown)
          [] k = "prtsc" /\ Has("prntscr") -> PrntScr(d, goingDown)
          [] k = "fkeys" -> FKeysToggle(d, goingDown)
          [] OTHER -> SendKey(d, k, goingDown)

-----------------------------------------------------------------------------
(***************************************************************************)
(* Actions                                                                 *)
(***************************************************************************)
Quiet(d) == [d EXCEPT !.asks = {}]
Become(d) == drv' = Quiet(d) /\ event' = d.asks

(* A make: interruptOccurred drops the repeats of a key that is down. *)
Press(k) ==
    /\ k \notin down
    /\ k \in BreaklessKey \/ Cardinality(down \cup drv.client) < MaxHeld
    /\ down' = IF k \in BreaklessKey THEN down ELSE down \cup {k}
    /\ Become(Dispatch(drv, down', k, TRUE))

(* A break, also of a key whose press was before a wake. *)
Release(k) ==
    /\ down' = down \ {k}
    /\ Become(Dispatch(drv, down', k, FALSE))

TimerFires ==
    /\ drv.timer
    /\ Become(OnSleepEjectTimer([drv EXCEPT !.timer = FALSE]))
    /\ UNCHANGED down

(* setParamPropertiesGated: HIDFKeyMode loads the other function-key map. *)
SetFKeyMode(mode) ==
    /\ Has("fkeymode")
    /\ Become([drv EXCEPT !.fkeymode = mode])
    /\ UNCHANGED down

(* message, kPS2K_setKeyboardStatus *)
SetKeyboardStatus(enable) ==
    /\ Become([drv EXCEPT !.off = ~ enable])
    /\ UNCHANGED down

(* initKeyboard: release what is down, in the order of the key codes, then *)
(* clear the bit vector and the modifiers.                                 *)
InitKeyboard ==
    LET Up[i \in 0 .. Len(ScanOrder)] ==       \* after the first i key codes
          IF i = 0 THEN drv
          ELSE IF ScanOrder[i] \in down
               THEN Dispatch(Up[i - 1], down, ScanOrder[i], FALSE)
               ELSE Up[i - 1]
    IN  /\ Become([Up[Len(ScanOrder)] EXCEPT !.mods = {}])
        /\ down' = {}

Next ==
    \/ \E k \in KeyPresent : Press(k) \/ Release(k)
    \/ TimerFires
    \/ \E mode \in BOOLEAN : SetFKeyMode(mode)
    \/ \E enable \in BOOLEAN : SetKeyboardStatus(enable)
    \/ InitKeyboard

Spec == Init /\ [][Next]_vars

-----------------------------------------------------------------------------
(***************************************************************************)
(* Properties                                                              *)
(***************************************************************************)

(* The variables have their types. *)
TypeOK ==
    /\ down \subseteq KeyPresent \ BreaklessKey
    /\ drv \in Driver /\ drv.asks = {}
    /\ event \subseteq Request

(* Keys whose release can be consumed by a special case, or that are sent  *)
(* under another name than they were pressed under.                        *)
CanStick == {"del", "plus", "eject", "bright", "f1", "f1special"}

(* What the keys that are down may be to the HID system: a touchpad key    *)
(* that is not remapped is sent as PrntScr.                                *)
Names == down \cup (IF "touchpad" \in down THEN {"prtsc"} ELSE {})

(* A letter, a modifier or an ordinary special key that is down for the    *)
(* HID system is down on the keyboard, whatever modifiers, disabled input, *)
(* changes of mode and wakes come between its press and its release        *)
(* (dispatchKeyboardEventWithPacket, initKeyboard).                        *)
OrdinaryKeysNeverStick == drv.client \subseteq Names \cup CanStick

(* The machine is put to sleep only while the sleep key is held, although  *)
(* the eject key shares its timer and a wake may come in between           *)
(* (onSleepEjectTimer, the sleep and eject cases).                         *)
SleepNeedsHold == [][ "sleep" \in event' => "sleep" \in down' ]_vars

=============================================================================
