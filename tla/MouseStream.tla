----------------------------- MODULE MouseStream -----------------------------
(***************************************************************************)
(* The mouse driver up to its packets: resetMouse finds out what mouse it  *)
(* has and sets it up; interruptOccurred cuts the byte stream into packets,*)
(* of which only bit 3 of the first byte marks the beginning.              *)
(* MouseButtons has what becomes of a packet.                              *)
(*                                                                         *)
(* A handler is one step, and so is resetMouse: the mouse is disabled      *)
(* until its end.  Of the deltas nothing is kept.                          *)
(***************************************************************************)
EXTENDS Naturals, Sequences

CONSTANTS
    Kinds,          \* the mice there are
    Pressed,        \* sets of buttons that can be down together
    Moves, Wheels,  \* bytes of a report after the first: deltas, fourth byte
    ForcedRes,      \* ResolutionMode if it is forced, else the default
    Slots,          \* the ring holds kPacketLengthMax * Slots bytes
    ResetLimit      \* resets asked for in a row (5 in interruptOccurred)

Left == "left"
Right == "right"
Middle == "middle"
Button == {Left, Right, Middle}     \* those of the first byte

Reset == 170            \* kSC_Reset
Acknowledge == 250      \* kSC_Acknowledge
Byte == 0 .. 255
Bit(byte, i) == (byte \div 2^i) % 2 = 1

(* A plain mouse, one with a wheel, one with a wheel and five buttons, and *)
(* one of the latter that answers as such to the first question.           *)
Kind == {"standard", "wheel", "explorer", "early"}

(* What the constants must be *)
Assumptions ==
    /\ Kinds \subseteq Kind /\ Pressed \subseteq SUBSET Button
    /\ Moves \subseteq Byte /\ Wheels \subseteq Byte
    /\ ForcedRes \in 0 .. 3
    /\ Slots \in Nat /\ Slots > 1 /\ ResetLimit \in Nat

VARIABLES
    dev,            \* the mouse; see Device
    sent,           \* how many bytes of its present report it has sent
    meant,          \* the buttons of its present report
    coming,         \* what it sends before the next report: nothing, a late
                    \* acknowledge, or the 00 of its announcement AA 00
    stream,         \* what interruptOccurred keeps; see Stream
    ring,           \* _ringBuffer
    setup,          \* what resetMouse finds out; see Setup
    aligned,        \* history: no byte missed since driver and mouse were
                    \* last at the beginning of a report together
    still           \* history: the bytes of the present report so far, or of
                    \* the last one, have all arrived and show no movement

vars == <<dev, sent, meant, coming, stream, ring, setup, aligned, still>>

Device == [
    kind : Kind,
    on : BOOLEAN,           \* reports are enabled
    id : {0, 3, 4},         \* the mode it is in; 3 and 4 send four bytes
    rate : {80, 100},       \* the sampling rate and
    res : 0 .. 3]           \* the resolution in force

Stream == [
    lastReset : BOOLEAN,    \* _lastdata = kSC_Reset
    count : 0 .. 3,         \* _packetByteCount
    first : SUBSET Button,  \* the buttons in packet[0]
    resets : 0 .. ResetLimit]   \* _mouseResetCount

Setup == [
    running : BOOLEAN,      \* the driver is started
    type : {0, 3, 4},       \* _type, which decides _packetLength
    info : {<< >>} \cup ((0 .. 3) \X {80, 100}),   \* _mouseInfoBytes, << >> for -1
    missed : BOOLEAN]       \* history: getMouseID went unanswered

-----------------------------------------------------------------------------
(***************************************************************************)
(* resetMouse                                                              *)
(***************************************************************************)

(* What the mouse does on kDP_SetDefaults, or when it resets itself *)
Defaults(d) == [d EXCEPT !.on = FALSE, !.id = 0, !.rate = 100, !.res = 2]

(* Its answer to the sampling rates 200, 100, 80 ... *)
Knock(d) == [d EXCEPT !.rate = 80,
                      !.id = CASE d.kind = "standard" -> 0
                               [] d.kind = "early" -> 4
                               [] d.kind \in {"wheel", "explorer"} -> 3]
(* ... and to 200, 200, 80. *)
KnockAgain(d) == [d EXCEPT !.rate = 80,
                           !.id = IF d.kind = "explorer" THEN 4 ELSE @]

ReportLength(d) == IF d.id = 0 THEN 3 ELSE 4
PacketLength(type) == IF type = 0 THEN 3 ELSE 4

(* The requests that ask the mouse for something and may go unanswered *)
Question == {"information", "id", "id again"}

(* setIntellimouseMode, up to the restored sampling rate *)
SetIntellimouseMode(d, silent) ==
    LET first == Knock(d)
        type == IF "id" \in silent THEN 0 ELSE first.id
        second == IF type = 3 THEN KnockAgain(first) ELSE first
    IN  [dev |-> second,
         type |-> IF type = 3 /\ "id again" \notin silent THEN second.id ELSE type]

(* The last step of setIntellimouseMode; no mouse accepts the rate that    *)
(* _mouseInfoBytes = -1 gives.                                             *)
RestoreRate(d, info) == IF info = << >> THEN d ELSE [d EXCEPT !.rate = info[2]]

(* Fault: the bytes of a packet that a sleep cut off are kept. *)
InitPacketBuffer_KeepsBytes == ring' = << >> /\ UNCHANGED stream

InitPacketBuffer ==
    /\ stream' = [stream EXCEPT !.count = 0, !.first = {}]
    /\ ring' = << >>

(* resetMouse.  silent: the questions without an answer.  The unread       *)
(* acknowledge of kDP_SetDefaults may come late.                           *)
ResetMouse(silent) ==
    LET first == setup.info = << >>
        plain == Defaults(dev)
        tuned == [plain EXCEPT !.res = IF first THEN ForcedRes ELSE setup.info[1]]
        info == CASE first /\ "information" \in silent -> << >>
                  [] first /\ "information" \notin silent -> <<tuned.res, tuned.rate>>
                  [] ~ first -> setup.info
        mode == SetIntellimouseMode(tuned, silent)
    IN  /\ dev' = [RestoreRate(mode.dev, info) EXCEPT !.on = TRUE]
        /\ setup' = [running |-> TRUE, type |-> mode.type, info |-> info,
                     missed |-> "id" \in silent]
        /\ InitPacketBuffer
        /\ coming' \in {"nothing", "acknowledge"}
        /\ sent' = 0 /\ aligned' = TRUE /\ still' = FALSE
        /\ UNCHANGED meant

(* init *)
NewDriver == [running |-> FALSE, type |-> 0, info |-> << >>, missed |-> FALSE]
NewStream == [lastReset |-> FALSE, count |-> 0, first |-> {}, resets |-> 0]

Init ==
    /\ \E kind \in Kinds :
          dev = [kind |-> kind, on |-> FALSE, id |-> 0, rate |-> 100, res |-> 2]
    /\ setup = NewDriver /\ stream = NewStream /\ ring = << >>
    /\ sent = 0 /\ meant = {} /\ coming = "nothing"
    /\ aligned = TRUE /\ still = FALSE

(* probe and start *)
Start(silent) == ~ setup.running /\ ResetMouse(silent)

(* setDevicePowerState *)
DisableDevice ==
    /\ setup.running /\ dev.on
    /\ dev' = [dev EXCEPT !.on = FALSE]
    /\ sent' = 0 /\ coming' = "nothing" /\ still' = FALSE
    /\ UNCHANGED <<meant, stream, ring, setup, aligned>>

(* A mouse that has reset itself is off already when the sleep comes. *)
EnableDevice(silent) == setup.running /\ ~ dev.on /\ ResetMouse(silent)

(* stop; another driver object may be made later. *)
Stop ==
    /\ setup.running
    /\ dev' = [dev EXCEPT !.on = FALSE]
    /\ setup' = NewDriver /\ stream' = NewStream /\ ring' = << >>
    /\ sent' = 0 /\ coming' = "nothing"
    /\ aligned' = TRUE /\ still' = FALSE
    /\ UNCHANGED meant

-----------------------------------------------------------------------------
(***************************************************************************)
(* interruptOccurred                                                       *)
(***************************************************************************)
Low(byte) == {b \in Button :
                 Bit(byte, CASE b = Left -> 0 [] b = Right -> 1 [] b = Middle -> 2)}

(* The packets with packet[0] = 0, which ask for a reset *)
ResetPacket == [reset |-> TRUE, buttons |-> {}]

(* advanceHead, which refuses a packet that would fill the ring *)
Queue(packets) ==
    ring' = IF Len(ring) < Slots - 1 THEN ring \o packets ELSE ring

(* Fault: the bit that marks a first byte is not looked at. *)
NoFirstByte_AnyByte(byte) == byte = Acknowledge

NoFirstByte(byte) == byte = Acknowledge \/ ~ Bit(byte, 3)

(* The byte 00 after AA: _lastdata stays AA. *)
ResetSeen(byte) == stream.lastReset /\ byte = 0

InterruptOccurred(byte) ==
    LET s == [stream EXCEPT !.lastReset = byte = Reset]
        completes == s.count + 1 = PacketLength(setup.type)
    IN  \/ /\ ResetSeen(byte)
           /\ stream' = [stream EXCEPT !.count = 0, !.first = {}]
           /\ Queue(<<ResetPacket>>)
        \/ /\ ~ ResetSeen(byte) /\ s.count = 0 /\ NoFirstByte(byte)
           /\ IF s.resets < ResetLimit
              THEN stream' = [s EXCEPT !.resets = @ + 1] /\ Queue(<<ResetPacket>>)
              ELSE stream' = s /\ UNCHANGED ring
        \/ /\ ~ ResetSeen(byte) /\ ~ (s.count = 0 /\ NoFirstByte(byte))
           /\ ~ completes
           /\ stream' = [s EXCEPT !.count = @ + 1,
                                  !.first = IF s.count = 0 THEN Low(byte) ELSE @]
           /\ UNCHANGED ring
        \/ /\ ~ ResetSeen(byte) /\ ~ (s.count = 0 /\ NoFirstByte(byte))
           /\ completes
           /\ stream' = [s EXCEPT !.count = 0, !.first = {}, !.resets = 0]
           /\ Queue(<<[reset |-> FALSE, buttons |-> s.first]>>)

(* The bytes of a report: buttons and bit 3, two deltas, the wheel *)
Value(buttons) == 8 + (IF Left \in buttons THEN 1 ELSE 0)
                    + (IF Right \in buttons THEN 2 ELSE 0)
                    + (IF Middle \in buttons THEN 4 ELSE 0)
ReportBytes(at) == CASE at = 0 -> {Value(buttons) : buttons \in Pressed}
                     [] at \in {1, 2} -> Moves
                     [] at = 3 -> Wheels

(* The mouse sends a byte, which may be lost on the line. *)
SendByte(byte, lost) ==
    /\ dev.on /\ coming = "nothing"
    /\ sent' = (sent + 1) % ReportLength(dev)
    /\ meant' = IF sent = 0 THEN Low(byte) ELSE meant
    /\ IF lost THEN UNCHANGED <<stream, ring>> ELSE InterruptOccurred(byte)
    /\ aligned' = \/ sent' = 0 /\ stream'.count = 0
                  \/ aligned /\ ~ lost /\ ~ ResetSeen(byte)
    /\ still' = (~ lost /\ (sent = 0 \/ (still /\ byte = 0)))
    /\ UNCHANGED <<dev, coming, setup>>

(* The acknowledge that resetMouse did not read *)
LateAcknowledge ==
    /\ coming = "acknowledge"
    /\ InterruptOccurred(Acknowledge)
    /\ coming' = "nothing"
    /\ UNCHANGED <<dev, sent, meant, setup, aligned, still>>

(* The mouse resets itself and says so: AA, then 00. *)
DeviceResets ==
    /\ dev.on /\ coming = "nothing"
    /\ dev' = Defaults(dev)
    /\ InterruptOccurred(Reset)
    /\ coming' = "zero" /\ sent' = 0
    /\ aligned' = FALSE /\ still' = FALSE
    /\ UNCHANGED <<meant, setup>>

DeviceAnnounced ==
    /\ coming = "zero"
    /\ InterruptOccurred(0)
    /\ coming' = "nothing"
    /\ UNCHANGED <<dev, sent, meant, setup, aligned, still>>

(* packetReady; a packet that asks for a reset is thrown away. *)
PacketReady ==
    /\ ring # << >>
    /\ ring' = Tail(ring)
    /\ UNCHANGED <<dev, sent, meant, coming, stream, setup, aligned, still>>

Next ==
    \/ \E silent \in SUBSET Question : Start(silent) \/ EnableDevice(silent)
    \/ DisableDevice
    \/ Stop
    \/ \E byte \in ReportBytes(sent), lost \in BOOLEAN : SendByte(byte, lost)
    \/ LateAcknowledge
    \/ DeviceResets
    \/ DeviceAnnounced
    \/ PacketReady

Spec == Init /\ [][Next]_vars

-----------------------------------------------------------------------------
(***************************************************************************)
(* Properties                                                              *)
(***************************************************************************)

(* The variables have their types. *)
TypeOK ==
    /\ dev \in Device /\ stream \in Stream /\ setup \in Setup
    /\ sent \in 0 .. 3 /\ coming \in {"nothing", "acknowledge", "zero"}
    /\ ring \in Seq([reset : BOOLEAN, buttons : SUBSET Button])
    /\ Len(ring) < Slots
    /\ meant \subseteq Button
    /\ {aligned, still} \subseteq BOOLEAN

(* Driver and mouse agree on the length of a report, and as long as no     *)
(* byte is lost or taken for a reset they agree on where they are in it    *)
(* and on its buttons, through sleeps that cut reports off and late        *)
(* acknowledges (resetMouse, setIntellimouseMode, interruptOccurred).      *)
Framed ==
    dev.on /\ ~ setup.missed =>
        /\ PacketLength(setup.type) = ReportLength(dev)
        /\ aligned => /\ stream.count = sent
                      /\ sent > 0 => stream.first = meant

(* However the stream was disturbed, one report without movement brings    *)
(* the driver back to the beginning of a packet (interruptOccurred).       *)
StillReportResyncs == sent = 0 /\ still => stream.count = 0

=============================================================================
