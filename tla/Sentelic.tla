------------------------------ MODULE Sentelic ------------------------------
(***************************************************************************)
(* The Sentelic driver: how it reads and writes the pad's registers over   *)
(* commands that some values must not look like, has taps tagged, and      *)
(* tells taps from presses of the button.  PadStream has its framing.      *)
(***************************************************************************)
EXTENDS Integers

CONSTANT
    OpcValues       \* what the register for tags may hold when the pad starts

Byte == 0 .. 255
Bit(n, i) == (n \div 2^i) % 2 = 1

VARIABLES
    pad,        \* the pad; see Pad
    drv,        \* see Driver
    button,     \* what was dispatched last: the left button is down
    cause,      \* history: why, "none", "press" or "tap"
    click,      \* history: taps were allowed to click then: Clicking was on,
                \* or the tag could not be set
    garbled     \* history: an answer was missed when the pad was enabled

vars == <<pad, drv, button, cause, click, garbled>>

Pad == [on : BOOLEAN, sysctl : Byte, opc : Byte]
Driver == [running : BOOLEAN, clicking : BOOLEAN]

-----------------------------------------------------------------------------
(***************************************************************************)
(* Registers.  The values that are sampling rates or commands are sent     *)
(* with their halves swapped or inverted, and another selector says so.    *)
(***************************************************************************)
Rate == {10, 20, 40, 60, 80, 100, 200}
Command == {\he9, \hee, \hf2, \hff}
Reserved == Rate \cup Command

SwapNibbles(b) == (b \div 16) + 16 * (b % 16)

(* As fsp_reg_read and fsp_reg_write send a register or a value.  What is  *)
(* compared is an int; what is sent, its low byte.                         *)
Mangle(value, plain, swapped, inverted) ==
    IF value \in Rate THEN [select |-> swapped, byte |-> SwapNibbles(value)]
    ELSE IF value \in Command THEN [select |-> inverted, byte |-> 255 - value]
         ELSE [select |-> plain, byte |-> value % 256]

RegisterSent(reg) == Mangle(reg, \h55, \h77, \h74)
ValueSent(val) == Mangle(val, \h33, \h44, \h47)

(* What the pad makes of it; a reserved byte is no register and no value. *)
Understood(sent, swapped, inverted) ==
    CASE sent.byte \in Reserved -> -1
      [] sent.byte \notin Reserved /\ sent.select = swapped -> SwapNibbles(sent.byte)
      [] sent.byte \notin Reserved /\ sent.select = inverted -> 255 - sent.byte
      [] sent.byte \notin Reserved /\ sent.select \notin {swapped, inverted} -> sent.byte

SYSCTL1 == \h10
OPC_QDOWN == \h31
RegClk(b) == Bit(b, 5)          \* FSP_BIT_EN_REG_CLK
OpcTag(b) == Bit(b, 7)          \* FSP_BIT_EN_OPC_TAG

(* fsp_reg_write, and what the pad has then: while its register clock is   *)
(* off, only the register that switches it can be written.                 *)
Written(p, reg, val) ==
    LET r == Understood(RegisterSent(reg), \h77, \h74)
        v == Understood(ValueSent(val), \h44, \h47)
    IN  CASE r = SYSCTL1 /\ v # -1 -> [p EXCEPT !.sysctl = v]
          [] r = OPC_QDOWN /\ v # -1 /\ RegClk(p.sysctl) -> [p EXCEPT !.opc = v]
          [] OTHER -> p

(* fsp_reg_read, which gives -1 if the pad does not answer *)
RegRead(value, answered) == IF answered THEN value ELSE -1

With(value, bit, on) ==
    CASE value = -1 -> IF on THEN -1 ELSE -1 - 2^bit
      [] value # -1 /\ on -> IF Bit(value, bit) THEN value ELSE value + 2^bit
      [] value # -1 /\ ~ on -> IF Bit(value, bit) THEN value - 2^bit ELSE value

(* fsp_write_enable *)
WriteEnable(p, enable, answered) ==
    Written(p, SYSCTL1, With(RegRead(p.sysctl, answered), 5, enable))

(* fsp_opctag_enable(true); answered: which of its three reads were *)
OpctagEnable(p, answered) ==
    LET clocked == WriteEnable(p, TRUE, 1 \in answered)
        tagged == Written(clocked, OPC_QDOWN,
                          With(RegRead(p.opc, 2 \in answered), 7, TRUE))
    IN  WriteEnable(tagged, FALSE, 3 \in answered)

-----------------------------------------------------------------------------
(* setTouchPadEnable, which sets the tag also when it disables *)
SetTouchPadEnable(p, on, answered) ==
    /\ pad' = [OpctagEnable(p, answered) EXCEPT !.on = on]
    /\ garbled' = (answered # 1 .. 3)

(* probe and start: the identity was read. *)
Start(answered) ==
    /\ ~ drv.running
    /\ drv' = [drv EXCEPT !.running = TRUE]
    /\ SetTouchPadEnable(pad, TRUE, answered)
    /\ UNCHANGED <<button, cause, click>>

Stop(answered) ==
    /\ drv.running
    /\ drv' = [running |-> FALSE, clicking |-> FALSE]
    /\ SetTouchPadEnable(pad, FALSE, answered)
    /\ button' = FALSE /\ cause' = "none" /\ click' = FALSE

(* setDevicePowerState.  A pad that loses its power loses its registers,   *)
(* and sends nothing of what was pressed then.                             *)
DisableDevice(answered) ==
    /\ drv.running /\ pad.on
    /\ SetTouchPadEnable(pad, FALSE, answered)
    /\ UNCHANGED <<drv, button, cause, click>>

EnableDevice(opc, answered) ==
    /\ drv.running /\ ~ pad.on
    /\ SetTouchPadEnable([pad EXCEPT !.sysctl = 0, !.opc = opc], TRUE, answered)
    /\ UNCHANGED <<drv, button, cause, click>>

(* setParamProperties *)
SetParamProperties(clicking) ==
    /\ drv.running /\ drv' = [drv EXCEPT !.clicking = clicking]
    /\ UNCHANGED <<pad, button, cause, click, garbled>>

(* Fault: the tag is not looked at. *)
DispatchesButton_Untagged(down, tagged) == down

(* The test of dispatchRelativePointerEventWithPacket *)
DispatchesButton(down, tagged) == down /\ (drv.clicking \/ ~ tagged)

(* A packet: the button is up, pressed, or a tap is taken for a press. *)
Packet(why) ==
    /\ drv.running /\ pad.on
    /\ button' = DispatchesButton(why # "none", why = "tap" /\ OpcTag(pad.opc))
    /\ cause' = why /\ click' = (drv.clicking \/ garbled)
    /\ UNCHANGED <<pad, drv, garbled>>

Init ==
    /\ pad \in [on : {FALSE}, sysctl : {0}, opc : OpcValues]
    /\ drv = [running |-> FALSE, clicking |-> FALSE]
    /\ button = FALSE /\ cause = "none" /\ click = FALSE /\ garbled = FALSE

Next ==
    \/ \E answered \in SUBSET (1 .. 3) :
          \/ Start(answered) \/ Stop(answered) \/ DisableDevice(answered)
          \/ \E opc \in OpcValues : EnableDevice(opc, answered)
    \/ \E clicking \in BOOLEAN : SetParamProperties(clicking)
    \/ \E why \in {"none", "press", "tap"} : Packet(why)

Spec == Init /\ [][Next]_vars

-----------------------------------------------------------------------------
(***************************************************************************)
(* Properties                                                              *)
(***************************************************************************)

(* The variables have their types. *)
TypeOK ==
    /\ pad \in Pad /\ drv \in Driver /\ {button, click} \subseteq BOOLEAN /\ garbled \in BOOLEAN
    /\ cause \in {"none", "press", "tap"}

(* With Clicking off a tap presses no button, whatever the registers held  *)
(* when the pad woke up, if it has answered (fsp_opctag_enable,            *)
(* fsp_reg_write, dispatchRelativePointerEventWithPacket).                 *)
TapsAreFiltered == cause = "tap" /\ button => click

=============================================================================
