----------------------------- MODULE PadStream ------------------------------
(***************************************************************************)
(* How the Synaptics and the Sentelic driver cut the byte stream of the    *)
(* pad into packets.  A Synaptics packet has six bytes, of which the first *)
(* and the fourth are marked; of a Sentelic packet of three or four bytes  *)
(* only the first is.  Of a byte the model keeps what interruptOccurred    *)
(* can take it for; of a packet, whether its bytes are of one report.      *)
(***************************************************************************)
EXTENDS Naturals

VARIABLES
    line,       \* the pad and its wire; see Line
    stream,     \* what interruptOccurred keeps; see Stream
    aligned,    \* history: no byte missed or misread since driver and pad
                \* were last at the beginning of a packet together
    plain       \* history: all bytes of the present packet, or of the last
                \* one, have arrived and none but the marked ones look so

vars == <<line, stream, aligned, plain>>

Kind == {"synaptics", "sentelic"}

(* A first byte, a fourth byte of Synaptics, kSC_Reset, 0, and any other.  *)
(* The rules of a Sentelic pad know only the first and any other.          *)
Looks == {"first", "fourth", "reset", "zero", "other"}

Line == [
    kind : Kind,
    on : BOOLEAN,
    length : {3, 4, 6},     \* of the packets it sends
    sent : 0 .. 5]          \* bytes of the present packet sent so far

Stream == [
    running : BOOLEAN,
    count : 0 .. 5,         \* _packetByteCount
    size : {3, 4, 6},       \* kPacketLength, _packetSize
    reset : BOOLEAN,        \* _lastdata = kSC_Reset
    agreed : BOOLEAN]       \* history: the pad sends packets of that size

Marked(kind, at) == CASE at = 0 -> "first"
                      [] at = 3 -> IF kind = "synaptics" THEN "fourth" ELSE "other"
                      [] at \in {1, 2, 4, 5} -> "other"

(* What byte at of a packet can look like *)
Bytes(kind, at) ==
    CASE at = 0 \/ (kind = "synaptics" /\ at = 3) -> {Marked(kind, at)}
      [] kind = "synaptics" /\ at \in {1, 2, 4, 5} -> Looks
      [] kind = "sentelic" /\ at \in 1 .. 3 -> {"first", "other"}

-----------------------------------------------------------------------------
(* interruptOccurred of both drivers.  After the reset that AA 00 tells,   *)
(* _lastdata is still AA.                                                  *)
ResetSeen(byte) ==
    line.kind = "synaptics" /\ stream.reset /\ byte = "zero"

(* Fault: any byte may begin a packet. *)
Refused_OnlyFourth(byte) == line.kind = "synaptics" /\ stream.count = 3 /\ byte # "fourth"

Refused(byte) ==
    \/ stream.count = 0 /\ byte # "first"
    \/ line.kind = "synaptics" /\ stream.count = 3 /\ byte # "fourth"

InterruptOccurred(byte) ==
    LET seen == [stream EXCEPT !.reset = byte = "reset"]
        completes == stream.count + 1 = stream.size
    IN  stream' = CASE ResetSeen(byte) -> [stream EXCEPT !.count = 0]
                    [] ~ ResetSeen(byte) /\ Refused(byte) -> [seen EXCEPT !.count = 0]
                    [] ~ ResetSeen(byte) /\ ~ Refused(byte) ->
                         [seen EXCEPT !.count = IF completes THEN 0 ELSE @ + 1]

(* The pad sends a byte, which may be lost. *)
SendByte(byte, lost) ==
    /\ line.on /\ stream.running
    /\ line' = [line EXCEPT !.sent = (@ + 1) % line.length]
    /\ IF lost THEN UNCHANGED stream ELSE InterruptOccurred(byte)
    /\ aligned' = \/ line'.sent = 0 /\ stream'.count = 0
                  \/ aligned /\ ~ lost /\ ~ ResetSeen(byte)
    /\ plain' = /\ ~ lost
                /\ line.sent = 0 \/ plain
                /\ byte = Marked(line.kind, line.sent)

-----------------------------------------------------------------------------
(* Sentelic's setTouchPadEnable, after F4 or F5: fsp_intellimouse_mode.    *)
(* The pad takes the sampling rates and says so, takes them in silence, or *)
(* refuses them.  _packetSize never goes back to three.                    *)
Reply == {"taken", "silent", "refused"}
IntellimouseMode(reply) ==
    LET size == IF reply = "taken" THEN 4 ELSE stream.size
        length == IF reply = "refused" THEN 3 ELSE 4
    IN  [length |-> length, size |-> size, agreed |-> size = length]

(* The pad sends as soon as it is enabled, and the commands after that cut *)
(* off what it sends: early is the number of bytes that were counted.      *)
Enable(early, reply) ==
    LET mode == IF line.kind = "sentelic" THEN IntellimouseMode(reply)
                ELSE [length |-> 6, size |-> 6, agreed |-> TRUE]
    IN  /\ line' = [line EXCEPT !.on = TRUE, !.sent = 0, !.length = mode.length]
        /\ stream' = [stream EXCEPT !.running = TRUE, !.count = early, !.size = mode.size,
                                    !.agreed = mode.agreed]
        /\ aligned' = (early = 0) /\ plain' = FALSE

(* start: the handler is installed after the pad was enabled. *)
Start(reply) ==
    /\ ~ stream.running
    /\ Enable(0, reply)

Stop ==
    /\ stream.running
    /\ line' = [line EXCEPT !.on = FALSE, !.sent = 0]
    /\ stream' = [running |-> FALSE, count |-> 0, reset |-> FALSE, agreed |-> TRUE,
                  size |-> IF line.kind = "synaptics" THEN 6 ELSE 3]
    /\ aligned' = TRUE /\ plain' = FALSE

(* setDevicePowerState: the sleep comes anywhere in a packet. *)
DisableDevice ==
    /\ stream.running /\ line.on
    /\ line' = [line EXCEPT !.on = FALSE, !.sent = 0]
    /\ plain' = FALSE
    /\ UNCHANGED <<stream, aligned>>

(* Fault: the bytes of a packet that the sleep cut off are kept. *)
EnableDevice_KeepsBytes(early, reply) ==
    /\ stream.running /\ ~ line.on
    /\ LET mode == IF line.kind = "sentelic" THEN IntellimouseMode(reply)
                   ELSE [length |-> 6, size |-> 6, agreed |-> TRUE]
       IN  /\ line' = [line EXCEPT !.on = TRUE, !.sent = 0, !.length = mode.length]
           /\ stream' = [stream EXCEPT !.size = mode.size, !.agreed = mode.agreed]
           /\ aligned' = (early = 0) /\ plain' = FALSE

(* The wake clears the count first, and then enables. *)
EnableDevice(early, reply) ==
    /\ stream.running /\ ~ line.on
    /\ Enable(early, reply)

Init ==
    /\ line \in [kind : Kind, on : {FALSE}, length : {6}, sent : {0}]
    /\ stream = [running |-> FALSE, count |-> 0, reset |-> FALSE, agreed |-> TRUE,
                 size |-> IF line.kind = "synaptics" THEN 6 ELSE 3]
    /\ aligned = TRUE /\ plain = FALSE

Next ==
    \/ \E byte \in Bytes(line.kind, line.sent), lost \in BOOLEAN : SendByte(byte, lost)
    \/ \E reply \in Reply :
          \/ Start(reply)
          \/ \E early \in 0 .. 2 : EnableDevice(early, reply)
    \/ Stop
    \/ DisableDevice

Spec == Init /\ [][Next]_vars

-----------------------------------------------------------------------------
(***************************************************************************)
(* Properties                                                              *)
(***************************************************************************)

(* The variables have their types. *)
TypeOK ==
    /\ line \in Line /\ stream \in Stream
    /\ aligned \in BOOLEAN /\ plain \in BOOLEAN

(* Driver and pad are at the same byte of a packet, if they agree on its   *)
(* length and as long as no byte is lost or taken for a reset, through     *)
(* sleeps that cut packets off (interruptOccurred, setDevicePowerState).   *)
PadFramed ==
    line.on /\ stream.agreed /\ aligned => stream.count = line.sent

(* However the stream was disturbed, one packet whose other bytes do not   *)
(* look like marked ones brings the driver back to the beginning of a      *)
(* packet (interruptOccurred).                                             *)
PlainPacketResyncs == stream.agreed /\ line.sent = 0 /\ plain => stream.count = 0
=============================================================================
