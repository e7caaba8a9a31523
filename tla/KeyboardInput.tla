--------------------------- MODULE KeyboardInput ---------------------------
(***************************************************************************)
(* The keyboard driver from the bytes of the keyboard to the packets it    *)
(* dispatches: interruptOccurred decodes scan codes, keeps the bit vector  *)
(* of held keys and queues packets; packetReady takes them through         *)
(* invertMacros, which holds back a packet that may begin a macro until    *)
(* the macro is complete, cannot be completed, or is too slow; onMacroTimer*)
(* ends the wait.  KeyboardDispatch has what becomes of a packet.          *)
(*                                                                         *)
(* A handler runs as one step: PacketRing has the interleavings inside the *)
(* ring.  Time enters as the outcome of the comparisons with               *)
(* _macroMaxTime: whether a packet is late is an input.                    *)
(***************************************************************************)
EXTENDS Naturals, Sequences, FiniteSets, SequencesExt, FiniteSetsExt

CONSTANTS
    Codes,      \* scan codes without their up bit; see Shift and Zero
    Key,        \* the keys the keyboard has, <<0 or 1 for extended, code>>
    Notified,   \* the keys that ACPI reports
    Breakless,  \* keys flagged kBreaklessKey in _PS2flags
    Macros,     \* _macroInversion: sequence of [seq |-> ..., when |-> ...]
    Slots       \* the ring holds kPacketLength * Slots bytes

Shift == "2a"   \* left shift, whose break code AA is also kSC_Reset
Zero == "00"    \* the byte after AA that makes it a spontaneous reset

Packet == [key : Key, up : BOOLEAN]
Prefix == {"E0", "E1"}      \* kSC_Extend, kSC_Pause
Answer == {"FA", "FE"}      \* kSC_Acknowledge, kSC_Resend
ScanCode == [code : Codes, up : BOOLEAN]

(* The packet with packet[0] = 0 that reports a spontaneous reset. *)
ResetPacket == [key |-> <<2, Zero>>, up |-> FALSE]

(* A macro applies always, or when the masked modifiers are down or up. *)
When == {"always", "down", "up"}

(* What the constants must be *)
Assumptions ==
    /\ {Shift, Zero} \subseteq Codes /\ Key \subseteq {0, 1} \X Codes
    /\ Notified \subseteq Key /\ Breakless \subseteq Key
    /\ Slots \in Nat /\ Slots > 1
    /\ Macros \in Seq([seq : Seq(Packet), when : When])
    /\ \A i \in 1 .. Len(Macros) : Macros[i].seq # << >>

VARIABLES
    lastReset,      \* _lastdata = kSC_Reset
    extendCount,    \* _extendCount
    down,           \* _keyBitVector
    ring,           \* _ringBuffer
    macro,          \* the first _macroCurrent packets of _macroBuffer
    armed,          \* _macroTimer is set
    draining,       \* onMacroTimer is in its call of packetReady
    shift,          \* _PS2modifierState, of which the macros test shift
    out             \* what the last step gave dispatchKeyboardEventWithPacket:
                    \* a packet (macro 0), or the output of the macro it ends

vars == <<lastReset, extendCount, down, ring, macro, armed, draining, shift, out>>
decoder == <<lastReset, extendCount, down>>

Init ==
    /\ lastReset = FALSE /\ extendCount = 0
    /\ down = {} /\ ring = << >>
    /\ macro = << >> /\ armed = FALSE /\ draining = FALSE
    /\ shift = FALSE /\ out = << >>

-----------------------------------------------------------------------------
(***************************************************************************)
(* interruptOccurred                                                       *)
(***************************************************************************)

(* _ringBuffer.advanceHead, which refuses a packet that would fill the ring *)
Queue(p) ==
    IF Len(ring) < Slots - 1
    THEN ring' = Append(ring, p)
    ELSE UNCHANGED ring

Buffering == UNCHANGED ring

(* AA 00: _lastdata keeps AA, and a pending prefix is forgotten. *)
SpontaneousReset ==
    /\ lastReset
    /\ Queue(ResetPacket)
    /\ extendCount' = 0
    /\ out' = << >>
    /\ UNCHANGED <<lastReset, down, macro, armed, draining, shift>>

AnswerByte ==
    /\ lastReset' = FALSE
    /\ Buffering
    /\ out' = << >>
    /\ UNCHANGED <<extendCount, down, macro, armed, draining, shift>>

PrefixByte(b) ==
    /\ lastReset' = FALSE
    /\ extendCount' = IF b = "E0" THEN 1 ELSE 2
    /\ Buffering
    /\ out' = << >>
    /\ UNCHANGED <<down, macro, armed, draining, shift>>

(* A scan code: the byte after E1 is dropped, a repeated make is dropped,  *)
(* and the bit vector follows the packet unless the key is breakless.      *)
KeyByte(b) ==
    LET key == <<extendCount, b.code>>
    IN  /\ extendCount = 2 \/ key \in Key
        /\ ~ (lastReset /\ b = [code |-> Zero, up |-> FALSE])
        /\ lastReset' = (b = [code |-> Shift, up |-> TRUE])
        /\ extendCount' = IF extendCount = 2 THEN 1 ELSE 0
        /\ \/ /\ extendCount = 2
              /\ UNCHANGED down /\ Buffering
           \/ /\ extendCount # 2 /\ key \in Breakless
              /\ UNCHANGED down
              /\ Queue([key |-> key, up |-> b.up])
           \/ /\ extendCount # 2 /\ key \notin Breakless
              /\ ~ b.up /\ key \in down
              /\ UNCHANGED down /\ Buffering
           \/ /\ extendCount # 2 /\ key \notin Breakless
              /\ b.up \/ key \notin down
              /\ down' = IF b.up THEN down \ {key} ELSE down \cup {key}
              /\ Queue([key |-> key, up |-> b.up])
        /\ out' = << >>
        /\ UNCHANGED <<macro, armed, draining, shift>>

-----------------------------------------------------------------------------
(***************************************************************************)
(* invertMacros, on the state s it works on: macro, armed, shift, and the  *)
(* items dispatched so far                                                 *)
(***************************************************************************)
State == [macro |-> macro, armed |-> armed, shift |-> shift, out |-> << >>]

Become(s) == /\ macro' = s.macro /\ armed' = s.armed
             /\ shift' = s.shift /\ out' = s.out

IsShift(p) == p.key = <<0, Shift>>

Plain(p) == [macro |-> 0, packet |-> p]

(* _PS2modifierState after the packets ps are dispatched *)
ShiftAfter(held, ps) ==
    LET changes == {i \in 1 .. Len(ps) : IsShift(ps[i])}
    IN  IF changes = {} THEN held ELSE ~ ps[Max(changes)].up

(* dispatchKeyboardEventWithPacket, as far as macros depend on it *)
Dispatch(s, p) == [s EXCEPT !.shift = ShiftAfter(@, <<p>>),
                            !.out = Append(@, Plain(p))]

(* Fault: the buffer is forgotten. *)
DispatchInvertBuffer_Forgets(s) ==
    [macro |-> << >>, armed |-> FALSE, shift |-> s.shift, out |-> s.out]

(* dispatchInvertBuffer *)
DispatchInvertBuffer(s) ==
    [macro |-> << >>, armed |-> FALSE,
     shift |-> ShiftAfter(s.shift, s.macro),
     out |-> s.out \o [i \in 1 .. Len(s.macro) |-> Plain(s.macro[i])]]

(* compareMacro: buffer is the beginning of macro i *)
CompareMacro(buffer, i) == IsPrefix(buffer, Macros[i].seq)

Applies(s, i) == CASE Macros[i].when = "always" -> TRUE
                   [] Macros[i].when = "down" -> s.shift
                   [] Macros[i].when = "up" -> ~ s.shift

(* The macros that buffer begins, or completes with the right modifiers. *)
Matching(s, buffer) ==
    {i \in 1 .. Len(Macros) :
        /\ CompareMacro(buffer, i)
        /\ Len(buffer) < Len(Macros[i].seq) \/ Applies(s, i)}

(* Wait for the rest of a macro. *)
Hold(s, buffer) == [s EXCEPT !.macro = buffer, !.armed = TRUE]

(* invertMacros, and the dispatch of a packet it does not take.  late: the *)
(* packet is more than _macroMaxTime younger than the last one buffered.   *)
InvertMacros(s, p, late) ==
    LET fresh == IF s.macro # << >> /\ late THEN DispatchInvertBuffer(s) ELSE s
        buffer == Append(fresh.macro, p)
        matching == Matching(fresh, buffer)
        first == Min(matching)
    IN  CASE matching = {} ->
               Dispatch(IF fresh.macro # << >>
                        THEN DispatchInvertBuffer(fresh) ELSE fresh, p)
          [] matching # {} /\ Len(buffer) = Len(Macros[first].seq) ->
               [fresh EXCEPT !.macro = << >>, !.armed = FALSE,
                             !.out = Append(@, [macro |-> first, packet |-> p])]
          [] matching # {} /\ Len(buffer) < Len(Macros[first].seq) ->
               Hold(fresh, buffer)

-----------------------------------------------------------------------------
(***************************************************************************)
(* The handlers                                                            *)
(***************************************************************************)

(* One round of packetReady, called by the work loop or by onMacroTimer. *)
PacketReady(late) ==
    /\ ring # << >>
    /\ IF Head(ring) = ResetPacket
       THEN out' = << >> /\ UNCHANGED <<macro, armed, shift>>
       ELSE Become(InvertMacros(State, Head(ring), late))
    /\ ring' = Tail(ring)
    /\ UNCHANGED <<decoder, draining>>

(* The timer expires: onMacroTimer calls packetReady first ... *)
OnMacroTimer ==
    /\ armed /\ ~ draining
    /\ armed' = FALSE
    /\ draining' = TRUE
    /\ out' = << >>
    /\ UNCHANGED <<decoder, ring, macro, shift>>

(* Fault: the comparison is turned around. *)
MacroTimerCheck_Swapped ==
    /\ draining /\ ring = << >>
    /\ draining' = FALSE
    /\ IF macro # << >> /\ armed
       THEN Become(DispatchInvertBuffer(State))
       ELSE out' = << >> /\ UNCHANGED <<macro, armed, shift>>
    /\ UNCHANGED <<decoder, ring>>

(* ... and then looks at the clock.  Only a packet that packetReady has    *)
(* just buffered, which set the timer again, can be younger than           *)
(* _macroMaxTime.                                                          *)
MacroTimerCheck ==
    /\ draining /\ ring = << >>
    /\ draining' = FALSE
    /\ \/ macro # << >> /\ Become(DispatchInvertBuffer(State))
       \/ /\ macro = << >> \/ armed
          /\ out' = << >> /\ UNCHANGED <<macro, armed, shift>>
    /\ UNCHANGED <<decoder, ring>>

(* message, kIOACPIMessageDeviceNotification: a packet from ACPI, which    *)
(* does not pass through the ring or the bit vector ...                    *)
Notification(p, late) ==
    /\ Become(InvertMacros(State, p, late))
    /\ UNCHANGED <<decoder, ring, draining>>

(* ... or, with code 3 or 4, a make and its break. *)
NotificationMakeBreak(key, late) ==
    /\ Become(InvertMacros(InvertMacros(State, [key |-> key, up |-> FALSE], late),
                           [key |-> key, up |-> TRUE], FALSE))
    /\ UNCHANGED <<decoder, ring, draining>>

(* initKeyboard, on a wake: a break for every held key, past the macros;   *)
(* then the bit vector, the modifiers, the prefix and the ring are reset.  *)
(* It holds the gate of the controller's work loop, which is also the      *)
(* timer's.                                                                *)
InitKeyboard ==
    LET breaks == {Plain([key |-> k, up |-> TRUE]) : k \in down}
    IN  /\ ~ draining
        /\ out' = SetToSeq(breaks)
        /\ down' = {} /\ shift' = FALSE
        /\ extendCount' = 0
        /\ ring' = << >>
        /\ UNCHANGED <<lastReset, macro, armed, draining>>

InterruptOccurred ==
    \/ SpontaneousReset
    \/ AnswerByte
    \/ \E b \in Prefix : PrefixByte(b)
    \/ \E b \in ScanCode : KeyByte(b)

Next ==
    \/ InterruptOccurred
    \/ \E late \in BOOLEAN : PacketReady(late)
    \/ OnMacroTimer
    \/ MacroTimerCheck
    \/ \E key \in Notified, up \in BOOLEAN, late \in BOOLEAN :
           Notification([key |-> key, up |-> up], late)
    \/ \E key \in Notified, late \in BOOLEAN : NotificationMakeBreak(key, late)
    \/ InitKeyboard

Spec == Init /\ [][Next]_vars

(* Work loops run what is pending, timers expire, and the loop that        *)
(* onMacroTimer runs ends if it finds the ring empty again and again.      *)
Fairness == /\ WF_vars(\E late \in BOOLEAN : PacketReady(late))
            /\ WF_vars(OnMacroTimer)
            /\ SF_vars(MacroTimerCheck)

-----------------------------------------------------------------------------
(***************************************************************************)
(* Properties                                                              *)
(***************************************************************************)

(* The variables have their types, and the ring and the macro buffer keep  *)
(* to their sizes (interruptOccurred, invertMacros).                       *)
TypeOK ==
    /\ lastReset \in BOOLEAN /\ extendCount \in 0 .. 2
    /\ down \subseteq Key \ Breakless
    /\ ring \in Seq(Packet \cup {ResetPacket}) /\ Len(ring) < Slots
    /\ macro \in Seq(Packet)
    /\ armed \in BOOLEAN /\ draining \in BOOLEAN /\ shift \in BOOLEAN
    /\ out \in Seq([macro : 0 .. Len(Macros), packet : Packet])

(* What was dispatched, with every macro's output replaced by the packets  *)
(* the macro stands for.                                                   *)
Unfold(items) ==
    FlattenSeq([i \in 1 .. Len(items) |->
        IF items[i].macro = 0 THEN <<items[i].packet>>
                              ELSE Macros[items[i].macro].seq])

(* The packets in the ring; a reset is not one. *)
Queued(packets) ==
    FlattenSeq([i \in 1 .. Len(packets) |->
        IF packets[i] = ResetPacket THEN << >> ELSE <<packets[i]>>])

Pending == macro \o Queued(ring)

(* Every packet is dispatched once, in order, by itself or inside one      *)
(* macro: each step takes what it dispatches from the front of what was    *)
(* pending, and adds new packets at its end, those of a notification       *)
(* after the macro buffer (packetReady, invertMacros, dispatchInvertBuffer,*)
(* message).  A wake empties the ring (initKeyboard).                      *)
InOrder ==
    \/ Unfold(out') \o Pending' = Pending
    \/ /\ out' = << >>
       /\ \E p \in Packet : Pending' = Append(Pending, p)
    \/ /\ ring' = ring
       /\ \E p \in Packet : Unfold(out') \o macro' = Append(macro, p)
    \/ /\ ring' = ring
       /\ \E k \in Key : Unfold(out') \o macro' =
            macro \o <<[key |-> k, up |-> FALSE], [key |-> k, up |-> TRUE]>>
    \/ /\ ring' = << >> /\ macro' = macro
       /\ ToSet(out') = {Plain([key |-> k, up |-> TRUE]) : k \in down}

DispatchedOnceInOrder == [][InOrder]_vars

(* As long as packetReady keeps up with the keyboard, a packet held back   *)
(* is followed by a dispatch, even if no further key is touched            *)
(* (onMacroTimer); by DispatchedOnceInOrder what is dispatched first is    *)
(* the packet held back.                                                   *)
HeldBackIsSent == []<>(ring = << >>) => (macro # << >> ~> out # << >>)
=============================================================================
