--------------------------- MODULE ControllerBoot ---------------------------
(***************************************************************************)
(* How the controller driver sets the 8042 up: resetController, the        *)
(* multiplexing of the mouse port, the command byte on start, on install   *)
(* and uninstall of interrupt handlers, and through sleep and wake.        *)
(*                                                                         *)
(* Every change of the command byte reads it first, and nothing tells the  *)
(* answer from a byte that a device sends at that moment: what is read is  *)
(* an input.  PowerTransitions has the interleavings of these operations,  *)
(* which are single steps here.                                            *)
(***************************************************************************)
EXTENDS Naturals

CONSTANT Strays     \* what is read in place of the command byte: other bytes,
                    \* and after a time-out zero

(* Of the command byte: the interrupts and the clocks of the two ports,    *)
(* and the translation of scan codes                                       *)
Bits == {"kbdIRQ", "auxIRQ", "kbdOff", "auxOff", "translate"}
CommandByte == SUBSET Bits
ASSUME StraysAssumption == Strays \subseteq CommandByte
IRQs == {"kbdIRQ", "auxIRQ"}
Clocks == {"kbdOff", "auxOff"}

VARIABLES
    chip,       \* the 8042; see Chip
    ctl,        \* the driver; see Controller
    clean       \* history: see Clean

vars == <<chip, ctl, clean>>

MaxMice == 2        \* bound: mouse drivers in the model

Chip == [
    byte : CommandByte,
    capable : BOOLEAN,      \* it can multiplex four mouse ports
    mux : BOOLEAN,          \* and does so
    ports : BOOLEAN]        \* the clocks of the four ports are on

Controller == [
    phase : {"new", "running", "asleep"},
    kbdOnly : BOOLEAN,              \* _kbdOnly
    reset : SUBSET {"boot", "wake"},\* _resetControllerFlag
    mux : BOOLEAN,                  \* _muxPresent
    nubs : {0, 1, 2, 5},            \* _nubsCount
    keyboard : BOOLEAN,             \* _interruptInstalledKeyboard
    mice : 0 .. MaxMice]            \* _interruptInstalledMouse

(* byte: no stray byte was taken for the command byte in the last reset of *)
(* the controller and since; start, mux: nor for an answer of setMuxMode   *)
(* at start and at the last wake.                                          *)
Clean == [byte : BOOLEAN, mux : BOOLEAN, start : BOOLEAN]

-----------------------------------------------------------------------------
(***************************************************************************)
(* The operations on the chip, c                                           *)
(***************************************************************************)
(* setCommandByteGated; old: what was read *)
SetCommandByte(c, old, set, clear) ==
    LET new == (old \cup set) \ clear
    IN  IF new = old THEN c ELSE [c EXCEPT !.byte = new]

(* What readDataPort can give for the command byte *)
Reads(c) == {c.byte} \cup Strays

(* Fault: the translation is left as it was. *)
ResetController_Untranslated(c, kbdOnly, old) ==
    [c EXCEPT !.byte = old \ (IRQs \cup {"kbdOff"} \cup (IF kbdOnly THEN {} ELSE {"auxOff"})),
              !.mux = FALSE, !.ports = FALSE]

(* resetController.  The clocks are switched off and, but for those of the *)
(* mice with ps2kbdonly, on again before the command byte is read.  The    *)
(* tests end the multiplexing.                                             *)
Clocked(c, kbdOnly) == [c EXCEPT !.byte = IF kbdOnly THEN (@ \ Clocks) \cup {"auxOff"}
                                          ELSE @ \ Clocks]
ResetController(c, kbdOnly, old) ==
    LET clear == IRQs \cup {"kbdOff"} \cup (IF kbdOnly THEN {} ELSE {"auxOff"})
    IN  [c EXCEPT !.byte = (old \ clear) \cup {"translate"},
                  !.mux = FALSE, !.ports = FALSE]

(* setMuxMode(true): the chip echoes the first two bytes, and the third    *)
(* unless it can multiplex; right: the answers that are the chip's.  Any   *)
(* other third answer, also a time-out, is taken for a version.            *)
MuxFound(c, right) == {1, 2} \subseteq right /\ (c.capable \/ 3 \notin right)
SetMuxMode(c, right) ==
    [c EXCEPT !.mux = @ \/ (c.capable /\ {1, 2} \subseteq right)]

(* enableMuxPorts *)
EnableMuxPorts(c) == [c EXCEPT !.ports = c.mux]

-----------------------------------------------------------------------------
(***************************************************************************)
(* start, stop and the interrupt handlers                                  *)
(***************************************************************************)
NubsCount(kbdOnly, mux) == CASE kbdOnly -> 1
                             [] ~ kbdOnly -> IF mux THEN 5 ELSE 2

(* start; right: the answers to setMuxMode that were the chip's.  The      *)
(* devices are reset and the buffers flushed after that.                   *)
Start(kbdOnly, reset, right) ==
    /\ ctl.phase = "new"
    /\ \E old \in Reads(Clocked(chip, kbdOnly)) :
          LET first == IF "boot" \in reset THEN ResetController(chip, kbdOnly, old) ELSE chip
              mux == ~ kbdOnly /\ MuxFound(first, right)
          IN  /\ chip' = IF kbdOnly THEN first ELSE SetMuxMode(first, right)
              /\ ctl' = [phase |-> "running", kbdOnly |-> kbdOnly, reset |-> reset,
                         mux |-> mux, nubs |-> NubsCount(kbdOnly, mux),
                         keyboard |-> FALSE, mice |-> 0]
              /\ clean' = [byte |-> "boot" \in reset /\ old = Clocked(chip, kbdOnly).byte,
                           mux |-> TRUE,
                           start |-> IF kbdOnly THEN "boot" \in reset ELSE right = 1 .. 3]

(* stop: "Ensure that the interrupt handlers have been uninstalled".  The  *)
(* chip is left as it is.                                                  *)
Stop ==
    /\ ctl.phase = "running" /\ ~ ctl.keyboard /\ ctl.mice = 0
    /\ ctl' = [ctl EXCEPT !.phase = "new", !.nubs = 0, !.mux = FALSE]
    /\ clean' = [byte |-> FALSE, mux |-> FALSE, start |-> FALSE]
    /\ UNCHANGED chip

Changes(set, clear, c) ==
    \E old \in Reads(c) :
       /\ chip' = SetCommandByte(c, old, set, clear)
       /\ clean' = [clean EXCEPT !.byte = @ /\ old = c.byte]

(* installInterruptAction.  A second keyboard driver installs nothing. *)
InstallKeyboard ==
    /\ ctl.phase = "running" /\ ~ ctl.keyboard
    /\ Changes({"kbdIRQ"}, {}, chip)
    /\ ctl' = [ctl EXCEPT !.keyboard = TRUE]

(* Fault: the ports are not enabled. *)
InstallMouse_NoPorts ==
    /\ ctl.phase = "running" /\ ctl.nubs > 1 /\ ctl.mice < MaxMice
    /\ IF ctl.mice = 0 THEN Changes({"auxIRQ"}, {}, chip)
       ELSE UNCHANGED <<chip, clean>>
    /\ ctl' = [ctl EXCEPT !.mice = @ + 1]

(* Only the first mouse enables ports and interrupt. *)
InstallMouse ==
    /\ ctl.phase = "running" /\ ctl.nubs > 1 /\ ctl.mice < MaxMice
    /\ IF ctl.mice = 0
       THEN Changes({"auxIRQ"}, {}, IF ctl.mux THEN EnableMuxPorts(chip) ELSE chip)
       ELSE UNCHANGED <<chip, clean>>
    /\ ctl' = [ctl EXCEPT !.mice = @ + 1]

(* uninstallInterruptAction *)
UninstallKeyboard ==
    /\ ctl.phase = "running" /\ ctl.keyboard
    /\ Changes({}, {"kbdIRQ"}, chip)
    /\ ctl' = [ctl EXCEPT !.keyboard = FALSE]
UninstallMouse ==
    /\ ctl.phase = "running" /\ ctl.mice > 0
    /\ IF ctl.mice = 1 THEN Changes({}, {"auxIRQ"}, chip)
       ELSE UNCHANGED <<chip, clean>>
    /\ ctl' = [ctl EXCEPT !.mice = @ - 1]

-----------------------------------------------------------------------------
(***************************************************************************)
(* setPowerStateGated                                                      *)
(***************************************************************************)
(* The interrupts are switched off, the drivers told, then the clocks. *)
Sleep ==
    /\ ctl.phase = "running"
    /\ \E old1 \in Reads(chip) :
          LET quiet == SetCommandByte(chip, old1, {}, IRQs)
          IN  \E old2 \in Reads(quiet) :
                 /\ chip' = SetCommandByte(quiet, old2, Clocks, {})
                 /\ clean' = [clean EXCEPT !.byte = @ /\ old1 = chip.byte /\ old2 = quiet.byte]
    /\ ctl' = [ctl EXCEPT !.phase = "asleep"]

(* The chip may lose its power, and the firmware leaves any command byte. *)
PowerLost(byte) ==
    /\ ctl.phase = "asleep"
    /\ chip' = [chip EXCEPT !.byte = byte, !.mux = FALSE, !.ports = FALSE]
    /\ clean' = [clean EXCEPT !.byte = FALSE]
    /\ UNCHANGED ctl

(* The first part of the wake.  The result of setMuxMode is not looked at. *)
Prepared(old, right) ==
    LET first == IF "wake" \in ctl.reset THEN ResetController(chip, ctl.kbdOnly, old)
                 ELSE chip
        muxed == IF ctl.mux THEN SetMuxMode(first, right) ELSE first
    IN  IF ctl.mux THEN EnableMuxPorts(muxed) ELSE muxed

(* The clocks, the drivers, and the interrupts: those of both ports,       *)
(* whether or not a handler is installed.                                  *)
Enabled(first, fine) ==
    LET off == {"kbdOff"} \cup IRQs \cup (IF ctl.kbdOnly THEN {} ELSE {"auxOff"})
        on == IF ctl.kbdOnly THEN {"kbdIRQ"} ELSE IRQs
    IN  \E old1 \in Reads(first) :
           LET clocked == SetCommandByte(first, old1, {}, off)
           IN  \E old2 \in Reads(clocked) :
                  /\ chip' = SetCommandByte(clocked, old2, on, {})
                  /\ fine = (old1 = first.byte /\ old2 = clocked.byte)

Wake(right) ==
    /\ ctl.phase = "asleep" /\ (ctl.mux \/ right = 1 .. 3)
    /\ \E old \in Reads(Clocked(chip, ctl.kbdOnly)) :
          LET known == IF "wake" \in ctl.reset THEN old = Clocked(chip, ctl.kbdOnly).byte
                       ELSE clean.byte
          IN  \E fine \in BOOLEAN :
                 /\ Enabled(Prepared(old, right), fine)
                 /\ clean' = [clean EXCEPT !.byte = known /\ fine,
                                           !.mux = IF ctl.mux THEN right = 1 .. 3 ELSE @]
    /\ ctl' = [ctl EXCEPT !.phase = "running"]

Init ==
    /\ chip \in [byte : CommandByte, capable : BOOLEAN, mux : {FALSE}, ports : {FALSE}]
    /\ ctl = [phase |-> "new", kbdOnly |-> FALSE, reset |-> {}, mux |-> FALSE, nubs |-> 0,
              keyboard |-> FALSE, mice |-> 0]
    /\ clean = [byte |-> FALSE, mux |-> FALSE, start |-> FALSE]

Next ==
    \/ \E kbdOnly \in BOOLEAN, reset \in SUBSET {"boot", "wake"}, right \in SUBSET (1 .. 3) :
          Start(kbdOnly, reset, right)
    \/ Stop
    \/ InstallKeyboard \/ InstallMouse \/ UninstallKeyboard \/ UninstallMouse
    \/ Sleep
    \/ \E byte \in CommandByte : PowerLost(byte)
    \/ \E right \in SUBSET (1 .. 3) : Wake(right)

Spec == Init /\ [][Next]_vars

-----------------------------------------------------------------------------
(***************************************************************************)
(* Properties                                                              *)
(***************************************************************************)

(* The variables have their types. *)
TypeOK == chip \in Chip /\ ctl \in Controller /\ clean \in Clean

(* However badly the command byte was misread before, from one reset of    *)
(* the controller on it is right as long as it is read right: scan codes   *)
(* are translated, every installed handler has its interrupt and its       *)
(* clock, and with ps2kbdonly the mouse port is off, through sleeps in     *)
(* which the chip loses its power (resetController, setCommandByteGated,   *)
(* setPowerStateGated).                                                    *)
CommandByteRight ==
    ctl.phase = "running" /\ clean.byte =>
        /\ "translate" \in chip.byte /\ "kbdOff" \notin chip.byte
        /\ ctl.keyboard => "kbdIRQ" \in chip.byte
        /\ ctl.mice > 0 => "auxIRQ" \in chip.byte /\ "auxOff" \notin chip.byte
        /\ ctl.kbdOnly => "auxOff" \in chip.byte /\ "auxIRQ" \notin chip.byte

(* Driver and chip agree on whether the mouse port is multiplexed, which   *)
(* decides what device a byte is from, and the ports of the mice are on,   *)
(* if the answers at start and at the last wake were the chip's (setMuxMode,*)
(* installInterruptAction, setPowerStateGated, getPortFromStatus).         *)
MuxAgreed ==
    ctl.phase = "running" /\ clean.mux /\ clean.start =>
        /\ ctl.mux = chip.mux
        /\ ctl.mux /\ ctl.mice > 0 => chip.ports
=============================================================================
