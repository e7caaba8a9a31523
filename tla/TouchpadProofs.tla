--------------------------- MODULE TouchpadProofs ---------------------------
(***************************************************************************)
(* What the touchpad drivers besides FocalTech and FTE0001 promise, for    *)
(* every value of their constants: whether the pad is ignored (PadGate),   *)
(* its byte stream (PadStream), Sentelic, Elan and Synaptics.              *)
(***************************************************************************)
EXTENDS Touchpads, Integers, FiniteSetTheorems, TLAPS

-----------------------------------------------------------------------------
(***************************************************************************)
(* The composition                                                         *)
(***************************************************************************)

(* A step of the driver in charge of the pad is a step of the module that  *)
(* describes it, and no step hands the pad to another driver.              *)
LEMMA PartSteps ==
    ASSUME [Next]_vars
    PROVE  /\ part' = part
           /\ part = "elan" => [Elan!Next]_(Elan!vars)
           /\ part = "synaptics" => [Synaptics!Next]_(Synaptics!vars)
           /\ part = "gate" => [Gate!Next]_(Gate!vars)
           /\ part = "stream" => [Stream!Next]_(Stream!vars)
           /\ part = "sentelic" => [Sentelic!Next]_(Sentelic!vars)
<1>1. CASE Next
  BY <1>1 DEF Next
<1>2. CASE UNCHANGED vars
  BY <1>2 DEF vars, elan, synaptics, padgate, padstream, sentelic,
              Elan!vars, Synaptics!vars, Gate!vars, Stream!vars, Sentelic!vars
<1> QED BY <1>1, <1>2

-----------------------------------------------------------------------------
(***************************************************************************)
(* PadGate                                                                 *)
(***************************************************************************)

(* The pad is ignored for a mouse only as long as the settings ask for it. *)
GateInv ==
    /\ Gate!TypeOK
    /\ gate.ignoreall /\ ~ gate.user => gate.stops /\ gate.attached > 0

(* g is a state of the gate with these fields. *)
GateIs(g, ignored, stops, attached, user) ==
    /\ g \in Gate!Gate
    /\ (g.ignoreall <=> ignored) /\ (g.stops <=> stops)
    /\ g.attached = attached /\ (g.user <=> user)

(* ignoreall is changed; what the user asked for is forgotten with it. *)
LEMMA Ignored ==
    ASSUME NEW g \in Gate!Gate, NEW on \in BOOLEAN
    PROVE  GateIs(Gate!Ignore(g, on), on, g.stops, g.attached, on /\ g.user)
<1> DEFINE a == [g EXCEPT !.ignoreall = on]
<1>1. GateIs(a, on, g.stops, g.attached, g.user)
  BY DEF Gate!Gate, GateIs
<1>2. Gate!Ignore(g, on) = [a EXCEPT !.user = on /\ a.user]
  BY DEF Gate!Ignore, Gate!Gate
<1> HIDE DEF a
<1>3. GateIs([a EXCEPT !.user = on /\ a.user], a.ignoreall, a.stops, a.attached, on /\ a.user)
  BY <1>1 DEF Gate!Gate, GateIs
<1> QED BY <1>1, <1>2, <1>3 DEF GateIs

(* The number of mice is changed, and nothing else. *)
LEMMA Attached ==
    ASSUME NEW g \in Gate!Gate, NEW n \in 0 .. MaxPointers
    PROVE  GateIs([g EXCEPT !.attached = n], g.ignoreall, g.stops, n, g.user)
BY DEF Gate!Gate, GateIs

(* USBMouseStopsTrackpad is changed, and nothing else. *)
LEMMA Stopping ==
    ASSUME NEW g \in Gate!Gate, NEW stops \in BOOLEAN
    PROVE  GateIs([g EXCEPT !.stops = stops], g.ignoreall, stops, g.attached, g.user)
BY DEF Gate!Gate, GateIs

(* The light follows, or keeps what it shows. *)
LEMMA LightHasType ==
    ASSUME led \in BOOLEAN, gate' \in Gate!Gate, NEW answered \in BOOLEAN,
           Gate!UpdateTouchpadLED(answered) \/ UNCHANGED led
    PROVE  led' \in BOOLEAN
BY DEF Gate!Gate, Gate!UpdateTouchpadLED

(* Every step keeps it. *)
LEMMA GateSteps ==
    ASSUME MaxPointers \in Nat, GateInv, [Gate!Next]_Gate!vars
    PROVE  GateInv'
<1> DEFINE Kept == gate.ignoreall /\ ~ gate.user => gate.stops /\ gate.attached > 0
<1>1. /\ gate \in Gate!Gate /\ gate.attached \in 0 .. MaxPointers /\ Kept
      /\ led \in BOOLEAN /\ awake \in BOOLEAN
  BY DEF GateInv, Gate!TypeOK, Gate!Gate
<1>2. ASSUME gate' \in Gate!Gate, Kept', awake' \in BOOLEAN, NEW answered \in BOOLEAN,
             Gate!UpdateTouchpadLED(answered) \/ UNCHANGED led
      PROVE  GateInv'
  BY <1>1, <1>2, LightHasType DEF GateInv, Gate!TypeOK
<1>3. CASE UNCHANGED Gate!vars
  BY <1>1, <1>3 DEF Gate!vars, GateInv, Gate!TypeOK
<1>4. CASE Gate!DisableDevice
  BY <1>1, <1>4 DEF Gate!DisableDevice, GateInv, Gate!TypeOK
<1>5. ASSUME NEW answered \in BOOLEAN, NEW off \in BOOLEAN, Gate!SetDisabled(off, answered)
      PROVE  GateInv'
  <2> DEFINE a == [gate EXCEPT !.ignoreall = off]
  <2>1. GateIs(a, off, gate.stops, gate.attached, gate.user)
    BY <1>1 DEF Gate!Gate, GateIs
  <2>2. gate' = [a EXCEPT !.user = off] /\ UNCHANGED awake /\ Gate!UpdateTouchpadLED(answered)
    BY <1>5 DEF Gate!SetDisabled
  <2> HIDE DEF a
  <2>3. GateIs(gate', a.ignoreall, a.stops, a.attached, off)
    BY <2>1, <2>2 DEF Gate!Gate, GateIs
  <2>4. gate' \in Gate!Gate /\ Kept'
    BY <2>1, <2>3 DEF GateIs
  <2> QED BY <1>1, <1>2, <2>2, <2>4
<1>6. ASSUME NEW answered \in BOOLEAN, NEW mouse \in BOOLEAN, Gate!Publish(mouse, answered)
      PROVE  GateInv'
  <2> DEFINE n == IF mouse THEN gate.attached + 1 ELSE gate.attached
             now == [gate EXCEPT !.attached = n]
  <2>1. n \in 0 .. MaxPointers /\ n >= gate.attached
    BY <1>1, <1>6 DEF Gate!Publish
  <2>2. /\ IF gate.stops /\ now.attached > 0
           THEN gate' = Gate!Ignore(now, TRUE) /\ Gate!UpdateTouchpadLED(answered)
           ELSE gate' = now /\ UNCHANGED led
        /\ UNCHANGED awake
    BY <1>1, <1>6 DEF Gate!Publish, Gate!Gate
  <2> HIDE DEF n
  <2>3. GateIs(now, gate.ignoreall, gate.stops, n, gate.user)
    BY <1>1, <2>1, Attached
  <2> HIDE DEF now
  <2>4. GateIs(Gate!Ignore(now, TRUE), TRUE, now.stops, now.attached, now.user)
    <3>1. now \in Gate!Gate
      BY <2>3 DEF GateIs
    <3> QED BY <3>1, Ignored DEF GateIs
  <2>5. gate' \in Gate!Gate /\ Kept'
    <3>1. CASE gate.stops /\ now.attached > 0
      BY <2>2, <2>3, <2>4, <3>1 DEF GateIs
    <3>2. CASE ~ (gate.stops /\ now.attached > 0)
      <4>1. GateIs(gate', gate.ignoreall, gate.stops, n, gate.user)
        BY <2>2, <2>3, <3>2
      <4>2. n > 0 \/ ~ (gate.attached > 0)
        BY <1>1, <2>1
      <4> QED BY <1>1, <4>1, <4>2 DEF GateIs
    <3> QED BY <3>1, <3>2
  <2> QED BY <1>1, <1>2, <2>2, <2>5
<1>7. ASSUME NEW answered \in BOOLEAN, NEW mouse \in BOOLEAN, Gate!Terminate(mouse, answered)
      PROVE  GateInv'
  <2> DEFINE n == IF mouse THEN gate.attached - 1 ELSE gate.attached
             now == [gate EXCEPT !.attached = n]
  <2>1. n \in 0 .. MaxPointers
    BY <1>1, <1>7 DEF Gate!Terminate
  <2>2. /\ IF gate.stops /\ now.attached = 0
           THEN gate' = Gate!Ignore(now, FALSE) /\ Gate!UpdateTouchpadLED(answered)
           ELSE gate' = now /\ UNCHANGED led
        /\ UNCHANGED awake
    BY <1>1, <1>7 DEF Gate!Terminate, Gate!Gate
  <2> HIDE DEF n
  <2>3. GateIs(now, gate.ignoreall, gate.stops, n, gate.user)
    BY <1>1, <2>1, Attached
  <2> HIDE DEF now
  <2>4. GateIs(Gate!Ignore(now, FALSE), FALSE, now.stops, now.attached, FALSE)
    <3>1. now \in Gate!Gate
      BY <2>3 DEF GateIs
    <3> QED BY <3>1, Ignored DEF GateIs
  <2>5. gate' \in Gate!Gate /\ Kept'
    <3>1. CASE gate.stops /\ now.attached = 0
      BY <2>2, <2>3, <2>4, <3>1 DEF GateIs
    <3>2. CASE ~ (gate.stops /\ now.attached = 0)
      <4>1. GateIs(gate', gate.ignoreall, gate.stops, n, gate.user)
        BY <2>2, <2>3, <3>2
      <4>2. gate.stops => n > 0
        BY <2>1, <2>3, <3>2 DEF GateIs
      <4> QED BY <1>1, <4>1, <4>2 DEF GateIs
    <3> QED BY <3>1, <3>2
  <2> QED BY <1>1, <1>2, <2>2, <2>5
<1>8. ASSUME NEW answered \in BOOLEAN, NEW stops \in BOOLEAN, Gate!SetProperties(stops, answered)
      PROVE  GateInv'
  <2> DEFINE now == [gate EXCEPT !.stops = stops]
  <2>1. /\ IF gate.attached > 0
           THEN gate' = Gate!Ignore(now, stops) /\ Gate!UpdateTouchpadLED(answered)
           ELSE gate' = now /\ UNCHANGED led
        /\ UNCHANGED awake
    BY <1>8 DEF Gate!SetProperties
  <2>2. GateIs(now, gate.ignoreall, stops, gate.attached, gate.user)
    BY <1>1, Stopping
  <2> HIDE DEF now
  <2>3. GateIs(Gate!Ignore(now, stops), stops, now.stops, now.attached, stops /\ now.user)
    <3>1. now \in Gate!Gate
      BY <2>2 DEF GateIs
    <3> QED BY <3>1, Ignored
  <2>4. gate' \in Gate!Gate /\ Kept'
    BY <1>1, <2>1, <2>2, <2>3 DEF GateIs
  <2> QED BY <1>1, <1>2, <2>1, <2>4
<1>9. ASSUME NEW answered \in BOOLEAN, Gate!ResetTouchpad(answered)
      PROVE  GateInv'
  <2>1. GateIs(gate', FALSE, gate.stops, gate.attached, FALSE)
    BY <1>1, <1>9, Ignored DEF Gate!ResetTouchpad, GateIs
  <2>2. gate' \in Gate!Gate /\ Kept'
    BY <2>1 DEF GateIs
  <2> QED BY <1>1, <1>2, <1>9, <2>2 DEF Gate!ResetTouchpad
<1>10. ASSUME NEW answered \in BOOLEAN, Gate!EnableDevice(answered)
       PROVE  GateInv'
  <2>1. gate' \in Gate!Gate /\ Kept'
    BY <1>1, <1>10 DEF Gate!EnableDevice
  <2> QED BY <1>1, <1>2, <1>10, <2>1 DEF Gate!EnableDevice
<1>11. ASSUME NEW answered \in BOOLEAN, Gate!Restart(answered)
       PROVE  GateInv'
  <2>1. gate' \in Gate!Gate /\ Kept'
    BY <1>11 DEF Gate!Restart, Gate!NewGate, Gate!Gate
  <2> QED BY <1>1, <1>2, <1>11, <2>1 DEF Gate!Restart
<1> QED
  BY <1>3, <1>4, <1>5, <1>6, <1>7, <1>8, <1>9, <1>10, <1>11 DEF Gate!Next

(* The driver starts with a pad that is not ignored (start). *)
LEMMA GateStarts == Gate!Init => GateInv
<1> SUFFICES ASSUME Gate!Init PROVE GateInv
  OBVIOUS
<1>1. gate \in Gate!Gate /\ ~ gate.ignoreall
  BY GateAssumption DEF Gate!Init, Gate!NewGate, Gate!Gate
<1>2. led \in BOOLEAN /\ awake \in BOOLEAN
  BY DEF Gate!Init
<1> QED BY <1>1, <1>2 DEF GateInv, Gate!TypeOK

(* The inductive invariant of the gate holds in every state                *)
(* (setPropertiesGated, notificationHIDAttachedHandlerGated).              *)
THEOREM GateInvariant == Spec => [](part = "gate" => GateInv)
<1>1. Init => (part = "gate" => GateInv)
  BY GateStarts DEF Init
<1>2. (part = "gate" => GateInv) /\ [Next]_vars => (part = "gate" => GateInv)'
  BY PartSteps, GateSteps, GateAssumption
<1> QED BY <1>1, <1>2, PTL DEF Spec

(* For any number of mice, the pad is ignored only if the keyboard         *)
(* switched it off or while a mouse is attached that stops it              *)
(* (setPropertiesGated, notificationHIDAttachedHandlerGated).              *)
THEOREM NeverLockedOut == Spec => []NotLockedOut
<1>1. (part = "gate" => GateInv) => NotLockedOut
  BY DEF NotLockedOut, GateInv, Gate!NotLockedOut
<1> QED BY <1>1, GateInvariant, PTL

-----------------------------------------------------------------------------
(***************************************************************************)
(* PadStream                                                               *)
(***************************************************************************)

(* The two sides, with these fields *)
LineIs(l, kind, on, length, sent) ==
    /\ l \in Stream!Line
    /\ l.kind = kind /\ (l.on <=> on) /\ l.length = length /\ l.sent = sent

StreamIs(s, running, count, size, agreed) ==
    /\ s \in Stream!Stream
    /\ (s.running <=> running) /\ s.count = count /\ s.size = size /\ (s.agreed <=> agreed)

(* One field of the pad's side is changed, and no other: whether it is on, *)
(* ...                                                                     *)
LEMMA LineTurns ==
    ASSUME NEW l \in Stream!Line, NEW on \in BOOLEAN
    PROVE  LineIs([l EXCEPT !.on = on], l.kind, on, l.length, l.sent)
BY DEF Stream!Line, LineIs

(* ... where it is in its packet, ... *)
LEMMA LineSends ==
    ASSUME NEW l \in Stream!Line, NEW sent \in 0 .. 5
    PROVE  LineIs([l EXCEPT !.sent = sent], l.kind, l.on, l.length, sent)
BY DEF Stream!Line, LineIs

(* ... and how long its packets are. *)
LEMMA LineStretches ==
    ASSUME NEW l \in Stream!Line, NEW length, length = 3 \/ length = 4 \/ length = 6
    PROVE  LineIs([l EXCEPT !.length = length], l.kind, l.on, length, l.sent)
BY DEF Stream!Line, LineIs

(* One field of the driver's side is changed, and no other: the count of   *)
(* bytes, ...                                                              *)
LEMMA StreamCounts ==
    ASSUME NEW s \in Stream!Stream, NEW count \in 0 .. 5
    PROVE  StreamIs([s EXCEPT !.count = count], s.running, count, s.size, s.agreed)
BY DEF Stream!Stream, StreamIs

(* ... whether it runs, ... *)
LEMMA StreamRuns ==
    ASSUME NEW s \in Stream!Stream, NEW running \in BOOLEAN
    PROVE  StreamIs([s EXCEPT !.running = running], running, s.count, s.size, s.agreed)
BY DEF Stream!Stream, StreamIs

(* ... the length it expects, ... *)
LEMMA StreamSizes ==
    ASSUME NEW s \in Stream!Stream, NEW size, size = 3 \/ size = 4 \/ size = 6
    PROVE  StreamIs([s EXCEPT !.size = size], s.running, s.count, size, s.agreed)
BY DEF Stream!Stream, StreamIs

(* ... whether both agree on it, ... *)
LEMMA StreamAgrees ==
    ASSUME NEW s \in Stream!Stream, NEW agreed \in BOOLEAN
    PROVE  StreamIs([s EXCEPT !.agreed = agreed], s.running, s.count, s.size, agreed)
BY DEF Stream!Stream, StreamIs

(* ... and the first half of a reset. *)
LEMMA StreamRemembers ==
    ASSUME NEW s \in Stream!Stream, NEW reset \in BOOLEAN
    PROVE  StreamIs([s EXCEPT !.reset = reset], s.running, s.count, s.size, s.agreed)
BY DEF Stream!Stream, StreamIs

(* Both are inside a packet, and the sizes fit the pad. *)
SizesInv ==
    /\ stream.count < stream.size
    /\ line.kind = "synaptics" => stream.size = 6
    /\ line.on => line.sent < line.length /\ (stream.agreed => stream.size = line.length)
    /\ ~ line.on => ~ plain

(* Where the driver can be after the first sent bytes of a plain packet of *)
(* the given length: it waits for a first byte already, or the bytes to    *)
(* come bring it there.  Of a Synaptics packet the fourth byte does.       *)
Settles(kind, count, sent, length) ==
    \/ count = 0
    \/ sent # 0 /\ kind = "sentelic" /\ count + (length - sent) >= length
    \/ kind = "synaptics" /\ sent = 1 /\ count \in {1, 2, 3, 5}
    \/ kind = "synaptics" /\ sent = 2 /\ count \in {2, 3}
    \/ kind = "synaptics" /\ sent \in 3 .. 5 /\ count = sent

(* The driver is where a plain packet can find it. *)
PlainInv ==
    stream.agreed /\ plain => Settles(line.kind, stream.count, line.sent, line.length)

(* The inductive invariant *)
PadInv == Stream!TypeOK /\ SizesInv /\ Stream!PadFramed /\ PlainInv

(* What interruptOccurred makes of a byte: the count starts again, is      *)
(* completed, or goes on.                                                  *)
LEMMA PadInterrupt ==
    ASSUME stream \in Stream!Stream, stream.count < stream.size, NEW byte,
           Stream!InterruptOccurred(byte)
    PROVE  StreamIs(stream', stream.running,
                    IF \/ Stream!ResetSeen(byte) \/ Stream!Refused(byte)
                       \/ stream.count + 1 = stream.size
                    THEN 0 ELSE stream.count + 1,
                    stream.size, stream.agreed)
<1> DEFINE reset == byte = "reset"
           seen == [stream EXCEPT !.reset = reset]
           n == stream.count
           next == IF n + 1 = stream.size THEN 0 ELSE n + 1
<1>1. n \in 0 .. 5 /\ stream.size \in {3, 4, 6} /\ reset \in BOOLEAN
  BY DEF Stream!Stream
<1>2. StreamIs(seen, stream.running, n, stream.size, stream.agreed)
  <2> HIDE DEF reset
  <2> QED BY <1>1, StreamRemembers
<1>3. next \in 0 .. 5 /\ 0 \in 0 .. 5
  BY <1>1
<1>4. /\ Stream!ResetSeen(byte) => stream' = [stream EXCEPT !.count = 0]
      /\ ~ Stream!ResetSeen(byte) /\ Stream!Refused(byte) =>
            stream' = [seen EXCEPT !.count = 0]
      /\ ~ Stream!ResetSeen(byte) /\ ~ Stream!Refused(byte) =>
            stream' = [seen EXCEPT !.count = IF n + 1 = stream.size THEN 0 ELSE seen.count + 1]
  BY DEF Stream!InterruptOccurred
<1>5. seen.count = n /\ seen \in Stream!Stream
  BY <1>2 DEF StreamIs
<1> HIDE DEF seen, next
<1>6. CASE Stream!ResetSeen(byte)
  BY <1>3, <1>4, <1>6, StreamCounts
<1>7. CASE ~ Stream!ResetSeen(byte) /\ Stream!Refused(byte)
  <2>1. StreamIs(stream', seen.running, 0, seen.size, seen.agreed)
    BY <1>3, <1>4, <1>5, <1>7, StreamCounts
  <2> QED BY <1>2, <1>7, <2>1 DEF StreamIs
<1>8. CASE ~ Stream!ResetSeen(byte) /\ ~ Stream!Refused(byte)
  <2>1. stream' = [seen EXCEPT !.count = next]
    BY <1>4, <1>5, <1>8 DEF next
  <2>2. StreamIs(stream', seen.running, next, seen.size, seen.agreed)
    BY <1>3, <1>5, <2>1, StreamCounts
  <2> QED BY <1>2, <1>8, <2>2 DEF StreamIs, next
<1> QED BY <1>6, <1>7, <1>8

(* A marked byte at its place is not refused. *)
LEMMA MarkedBytes ==
    ASSUME line \in Stream!Line, NEW byte \in Stream!Bytes(line.kind, line.sent)
    PROVE  /\ line.sent = 0 => byte = "first"
           /\ line.sent = 3 /\ line.kind = "synaptics" => byte = "fourth"
<1>1. line.sent \in 0 .. 5 /\ line.kind \in Stream!Kind
  BY DEF Stream!Line
<1>2. CASE line.sent = 0
  BY <1>2 DEF Stream!Bytes, Stream!Marked
<1>3. CASE line.sent = 3 /\ line.kind = "synaptics"
  BY <1>3 DEF Stream!Bytes, Stream!Marked
<1> QED BY <1>2, <1>3

(* The pad sends a byte of a packet. *)
LEMMA PadSendStep ==
    ASSUME PadInv, NEW byte \in Stream!Bytes(line.kind, line.sent), NEW lost \in BOOLEAN,
           Stream!SendByte(byte, lost)
    PROVE  PadInv'
<1> DEFINE k == line.sent
           L == line.length
           n == stream.count
           S == stream.size
           kind == line.kind
           next == IF k + 1 = L THEN 0 ELSE k + 1
<1>1. /\ line.on /\ stream.running
      /\ line' = [line EXCEPT !.sent = (k + 1) % L]
      /\ IF lost THEN UNCHANGED stream ELSE Stream!InterruptOccurred(byte)
      /\ aligned' = (\/ line'.sent = 0 /\ stream'.count = 0
                     \/ aligned /\ ~ lost /\ ~ Stream!ResetSeen(byte))
      /\ plain' = (/\ ~ lost
                   /\ line.sent = 0 \/ plain
                   /\ byte = Stream!Marked(line.kind, line.sent))
  BY DEF Stream!SendByte
<1>2. line \in Stream!Line /\ stream \in Stream!Stream
  BY DEF PadInv, Stream!TypeOK
<1>3. /\ k \in 0 .. 5 /\ L \in {3, 4, 6} /\ k < L /\ kind \in {"synaptics", "sentelic"}
      /\ n \in 0 .. 5 /\ S \in {3, 4, 6} /\ n < S
      /\ (stream.agreed => S = L) /\ (kind = "synaptics" => S = 6)
  BY <1>1, <1>2 DEF Stream!Line, Stream!Stream, Stream!Kind, PadInv, SizesInv
<1>4. (k + 1) % L = next /\ next \in 0 .. 5 /\ next < L
  <2> HIDE DEF k, L
  <2> QED BY <1>3
<1>5. LineIs(line', kind, TRUE, L, next)
  <2> HIDE DEF next
  <2> QED BY <1>1, <1>2, <1>4, LineSends DEF LineIs
<1>6. lost => StreamIs(stream', stream.running, n, S, stream.agreed)
  BY <1>1, <1>2 DEF StreamIs
<1>7. ~ lost => StreamIs(stream', stream.running,
                         IF \/ Stream!ResetSeen(byte) \/ Stream!Refused(byte) \/ n + 1 = S
                         THEN 0 ELSE n + 1, S, stream.agreed)
  BY <1>1, <1>2, <1>3, PadInterrupt
<1>8. /\ k = 0 => byte = "first"
      /\ k = 3 /\ kind = "synaptics" => byte = "fourth"
  BY <1>2, MarkedBytes
<1>9. Stream!TypeOK'
  <2>1. line' \in Stream!Line /\ stream' \in Stream!Stream
    BY <1>5, <1>6, <1>7 DEF LineIs, StreamIs
  <2>2. aligned' \in BOOLEAN /\ plain' \in BOOLEAN
    BY <1>1
  <2> QED BY <2>1, <2>2 DEF Stream!TypeOK
<1>10. /\ stream'.size = S /\ (stream'.agreed <=> stream.agreed) /\ stream'.count < S
       /\ stream'.count \in 0 .. 5
  BY <1>3, <1>6, <1>7 DEF StreamIs
<1>11. SizesInv'
  BY <1>3, <1>4, <1>5, <1>10 DEF SizesInv, LineIs
<1>12. Stream!PadFramed'
  <2> SUFFICES ASSUME stream.agreed, aligned'
               PROVE  stream'.count = line'.sent
    BY <1>10 DEF Stream!PadFramed
  <2>1. CASE line'.sent = 0 /\ stream'.count = 0
    BY <2>1
  <2>2. CASE aligned /\ ~ lost /\ ~ Stream!ResetSeen(byte)
    <3>1. n = k /\ S = L
      BY <1>1, <1>3, <2>2 DEF PadInv, Stream!PadFramed
    <3>2. ~ Stream!Refused(byte)
      BY <1>8, <3>1 DEF Stream!Refused
    <3> QED BY <1>5, <1>7, <2>2, <3>1, <3>2 DEF LineIs, StreamIs
  <2> QED BY <1>1, <2>1, <2>2
<1>13. PlainInv'
  <2> SUFFICES ASSUME stream.agreed, plain'
               PROVE  Settles(kind, stream'.count, next, L)
    BY <1>5, <1>10 DEF PlainInv, LineIs
  <2>1. /\ ~ lost /\ byte = Stream!Marked(kind, k)
        /\ k # 0 => Settles(kind, n, k, L)
    BY <1>1 DEF PadInv, PlainInv
  <2>2. byte \in {"first", "fourth", "other"} /\ (byte = "first" <=> k = 0)
        /\ (byte = "fourth" <=> k = 3 /\ kind = "synaptics")
    BY <1>3, <2>1 DEF Stream!Marked
  <2>3. ~ Stream!ResetSeen(byte)
    BY <2>2 DEF Stream!ResetSeen
  <2>4. stream'.count = IF \/ n = 0 /\ k # 0
                           \/ kind = "synaptics" /\ n = 3 /\ k # 3
                           \/ n + 1 = S
                        THEN 0 ELSE n + 1
    BY <1>7, <2>1, <2>2, <2>3 DEF StreamIs, Stream!Refused
  <2>5. S = L
    BY <1>3
  <2> HIDE DEF k, L, n, S, kind
  <2>6. CASE kind = "sentelic"
    BY <1>3, <2>1, <2>4, <2>5, <2>6 DEF Settles
  <2>7. CASE kind = "synaptics"
    BY <1>3, <2>1, <2>4, <2>5, <2>7 DEF Settles
  <2> QED BY <1>3, <2>6, <2>7
<1> QED BY <1>9, <1>11, <1>12, <1>13 DEF PadInv

(* The pad is enabled: at most two bytes of it were counted. *)
LEMMA PadEnableStep ==
    ASSUME PadInv, NEW early \in 0 .. 2, NEW reply \in Stream!Reply,
           Stream!Enable(early, reply)
    PROVE  PadInv'
<1> DEFINE mode == IF line.kind = "sentelic" THEN Stream!IntellimouseMode(reply)
                   ELSE [length |-> 6, size |-> 6, agreed |-> TRUE]
           l1 == [line EXCEPT !.on = TRUE]
           l2 == [l1 EXCEPT !.sent = 0]
           s1 == [stream EXCEPT !.running = TRUE]
           s2 == [s1 EXCEPT !.count = early]
           s3 == [s2 EXCEPT !.size = mode.size]
<1>1. /\ line' = [l2 EXCEPT !.length = mode.length]
      /\ stream' = [s3 EXCEPT !.agreed = mode.agreed]
      /\ aligned' = (early = 0) /\ plain' = FALSE
  BY DEF Stream!Enable
<1>2. /\ line \in Stream!Line /\ stream \in Stream!Stream
      /\ line.kind \in {"synaptics", "sentelic"} /\ stream.size \in {3, 4, 6}
      /\ (line.kind = "synaptics" => stream.size = 6)
  BY DEF PadInv, Stream!TypeOK, Stream!Line, Stream!Stream, Stream!Kind, SizesInv
<1>3. /\ mode.length = 3 \/ mode.length = 4 \/ mode.length = 6
      /\ mode.size = 3 \/ mode.size = 4 \/ mode.size = 6
      /\ mode.agreed \in BOOLEAN /\ (mode.agreed => mode.size = mode.length)
      /\ line.kind = "synaptics" => mode.size = 6
  BY <1>2 DEF Stream!IntellimouseMode, Stream!Reply
<1> HIDE DEF mode
<1>4. LineIs(l1, line.kind, TRUE, line.length, line.sent)
  BY <1>2, LineTurns
<1> HIDE DEF l1
<1>5. 0 \in 0 .. 5 /\ early \in 0 .. 5
  OBVIOUS
<1>6. LineIs(l2, l1.kind, l1.on, l1.length, 0)
  <2>1. l1 \in Stream!Line
    BY <1>4 DEF LineIs
  <2> QED BY <1>5, <2>1, LineSends, Zenon
<1> HIDE DEF l2
<1>7. LineIs(line', l2.kind, l2.on, mode.length, l2.sent)
  BY <1>1, <1>3, <1>6, LineStretches DEF LineIs
<1>8. StreamIs(s1, TRUE, stream.count, stream.size, stream.agreed)
  BY <1>2, StreamRuns
<1> HIDE DEF s1
<1>9. StreamIs(s2, s1.running, early, s1.size, s1.agreed)
  BY <1>5, <1>8, StreamCounts DEF StreamIs
<1> HIDE DEF s2
<1>10. StreamIs(s3, s2.running, s2.count, mode.size, s2.agreed)
  BY <1>3, <1>9, StreamSizes DEF StreamIs
<1> HIDE DEF s3
<1>11. StreamIs(stream', s3.running, s3.count, s3.size, mode.agreed)
  BY <1>1, <1>3, <1>10, StreamAgrees DEF StreamIs
<1>12. LineIs(line', line.kind, TRUE, mode.length, 0)
  BY <1>4, <1>6, <1>7 DEF LineIs
<1>13. StreamIs(stream', TRUE, early, mode.size, mode.agreed)
  BY <1>8, <1>9, <1>10, <1>11 DEF StreamIs
<1>14. Stream!TypeOK'
  <2>1. aligned' \in BOOLEAN /\ plain' \in BOOLEAN
    BY <1>1
  <2> QED BY <1>12, <1>13, <2>1 DEF Stream!TypeOK, LineIs, StreamIs
<1>15. SizesInv'
  BY <1>3, <1>12, <1>13 DEF SizesInv, LineIs, StreamIs
<1>16. Stream!PadFramed'
  BY <1>1, <1>12, <1>13 DEF Stream!PadFramed, LineIs, StreamIs
<1> QED BY <1>1, <1>14, <1>15, <1>16 DEF PadInv, PlainInv

(* Every step of pad and driver keeps the invariant. *)
LEMMA PadSteps == ASSUME PadInv, [Stream!Next]_Stream!vars PROVE PadInv'
<1>1. CASE UNCHANGED Stream!vars
  BY <1>1 DEF Stream!vars, PadInv, Stream!TypeOK, SizesInv, Stream!PadFramed, PlainInv
<1>2. ASSUME NEW byte \in Stream!Bytes(line.kind, line.sent), NEW lost \in BOOLEAN,
             Stream!SendByte(byte, lost)
      PROVE  PadInv'
  BY <1>2, PadSendStep
<1>3. ASSUME NEW reply \in Stream!Reply, Stream!Start(reply)
      PROVE  PadInv'
  <2>1. Stream!Enable(0, reply) /\ 0 \in 0 .. 2
    BY <1>3 DEF Stream!Start
  <2> QED BY <2>1, PadEnableStep, Zenon
<1>4. ASSUME NEW reply \in Stream!Reply, NEW early \in 0 .. 2,
             Stream!EnableDevice(early, reply)
      PROVE  PadInv'
  BY <1>4, PadEnableStep DEF Stream!EnableDevice
<1>5. CASE Stream!Stop \/ Stream!DisableDevice
  <2> DEFINE l1 == [line EXCEPT !.on = FALSE]
             fresh == [running |-> FALSE, count |-> 0, reset |-> FALSE, agreed |-> TRUE,
                       size |-> IF line.kind = "synaptics" THEN 6 ELSE 3]
  <2>1. /\ line' = [l1 EXCEPT !.sent = 0] /\ plain' = FALSE
        /\ (stream' = fresh /\ aligned' = TRUE) \/ UNCHANGED <<stream, aligned>>
    BY <1>5 DEF Stream!Stop, Stream!DisableDevice
  <2>2. /\ line \in Stream!Line /\ stream \in Stream!Stream /\ aligned \in BOOLEAN
        /\ stream.count < stream.size /\ (line.kind = "synaptics" => stream.size = 6)
    BY DEF PadInv, Stream!TypeOK, SizesInv
  <2>3. LineIs(l1, line.kind, FALSE, line.length, line.sent)
    BY <2>2, LineTurns
  <2> HIDE DEF l1
  <2>4. LineIs(line', l1.kind, l1.on, l1.length, 0)
    <3>1. 0 \in 0 .. 5
      OBVIOUS
    <3>2. l1 \in Stream!Line
      BY <2>3 DEF LineIs
    <3>3. LineIs([l1 EXCEPT !.sent = 0], l1.kind, l1.on, l1.length, 0)
      BY <3>1, <3>2, LineSends, Zenon
    <3> QED BY <2>1, <3>3
  <2>5. line' \in Stream!Line /\ line'.kind = line.kind /\ ~ line'.on
    BY <2>3, <2>4 DEF LineIs
  <2>6. /\ stream' \in Stream!Stream /\ aligned' \in BOOLEAN
        /\ stream'.count < stream'.size /\ (line.kind = "synaptics" => stream'.size = 6)
    <3>1. CASE UNCHANGED <<stream, aligned>>
      BY <2>2, <3>1
    <3>2. CASE stream' = fresh /\ aligned' = TRUE
      BY <3>2 DEF Stream!Stream
    <3> QED BY <2>1, <3>1, <3>2
  <2>7. Stream!TypeOK'
    BY <2>1, <2>5, <2>6 DEF Stream!TypeOK
  <2>8. SizesInv'
    BY <2>1, <2>5, <2>6 DEF SizesInv
  <2> QED BY <2>1, <2>5, <2>7, <2>8 DEF PadInv, Stream!PadFramed, PlainInv
<1> QED BY <1>1, <1>2, <1>3, <1>4, <1>5 DEF Stream!Next

(* It holds before the driver starts. *)
LEMMA PadStarts == Stream!Init => PadInv
<1> SUFFICES ASSUME Stream!Init PROVE PadInv
  OBVIOUS
<1>1. line \in [kind : Stream!Kind, on : {FALSE}, length : {6}, sent : {0}]
  BY DEF Stream!Init
<1>2. line \in Stream!Line /\ ~ line.on
  <2>1. /\ line = [kind |-> line.kind, on |-> line.on, length |-> line.length,
                   sent |-> line.sent]
        /\ line.kind \in Stream!Kind /\ line.on = FALSE /\ line.length = 6 /\ line.sent = 0
    BY <1>1
  <2>2. line.on \in BOOLEAN
    BY <2>1
  <2> QED BY <2>1, <2>2 DEF Stream!Line
<1>3. stream \in Stream!Stream /\ stream.count = 0 /\ stream.size \in {3, 6}
      /\ (line.kind = "synaptics" => stream.size = 6)
  BY DEF Stream!Init, Stream!Stream
<1>4. aligned = TRUE /\ plain = FALSE
  BY DEF Stream!Init
<1>5. Stream!TypeOK
  BY <1>2, <1>3, <1>4 DEF Stream!TypeOK
<1> QED BY <1>2, <1>3, <1>4, <1>5 DEF PadInv, SizesInv, Stream!PadFramed, PlainInv

(* The inductive invariant of the byte stream of a Synaptics or Sentelic   *)
(* pad holds in every state (interruptOccurred).                           *)
THEOREM PadInvariant == Spec => [](part = "stream" => PadInv)
<1>1. Init => (part = "stream" => PadInv)
  BY PadStarts DEF Init
<1>2. (part = "stream" => PadInv) /\ [Next]_vars => (part = "stream" => PadInv)'
  BY PartSteps, PadSteps
<1> QED BY <1>1, <1>2, PTL DEF Spec

(* Driver and pad are at the same byte of a packet, if they agree on its   *)
(* length and as long as no byte is lost or taken for a reset              *)
(* (interruptOccurred, setDevicePowerState).                               *)
THEOREM PadStaysFramed == Spec => []PadFramed
<1>1. (part = "stream" => PadInv) => PadFramed
  BY DEF PadFramed, PadInv
<1> QED BY <1>1, PadInvariant, PTL

(* A packet whose other bytes do not look like marked ones brings the      *)
(* driver back to the beginning of a packet (interruptOccurred).           *)
THEOREM PlainPacketsResync == Spec => []PlainPacketResyncs
<1>1. (part = "stream" => PadInv) => PlainPacketResyncs
  BY DEF PlainPacketResyncs, PadInv, PlainInv, Settles, Stream!PlainPacketResyncs
<1> QED BY <1>1, PadInvariant, PTL

-----------------------------------------------------------------------------
(***************************************************************************)
(* Sentelic                                                                *)
(***************************************************************************)

(* Every byte arrives as it was meant, whichever way it is sent. *)
LEMMA ValueArrives ==
    ASSUME NEW v \in Sentelic!Byte
    PROVE  Sentelic!Understood(Sentelic!ValueSent(v), \h44, \h47) = v
<1> USE DEF Sentelic!Understood, Sentelic!ValueSent, Sentelic!Mangle, Sentelic!Rate, Sentelic!Command,
            Sentelic!Reserved, Sentelic!SwapNibbles, Sentelic!Byte
<1>1. CASE v \in Sentelic!Rate
  <2>1. Sentelic!ValueSent(v) = [select |-> \h44, byte |-> (v \div 16) + 16 * (v % 16)]
    BY <1>1
  <2>2. CASE v = 10
    BY <2>1, <2>2
  <2>3. CASE v = 20
    BY <2>1, <2>3
  <2>4. CASE v = 40
    BY <2>1, <2>4
  <2>5. CASE v = 60
    BY <2>1, <2>5
  <2>6. CASE v = 80
    BY <2>1, <2>6
  <2>7. CASE v = 100
    BY <2>1, <2>7
  <2>8. CASE v = 200
    BY <2>1, <2>8
  <2> QED BY <1>1, <2>2, <2>3, <2>4, <2>5, <2>6, <2>7, <2>8
<1>2. CASE v \in Sentelic!Command
  BY <1>2
<1>3. CASE v \notin Sentelic!Reserved
  BY <1>3
<1> QED BY <1>1, <1>2, <1>3

(* So do the registers that the driver writes. *)
LEMMA RegistersArrive ==
    /\ Sentelic!Understood(Sentelic!RegisterSent(Sentelic!SYSCTL1), \h77, \h74) = Sentelic!SYSCTL1
    /\ Sentelic!Understood(Sentelic!RegisterSent(Sentelic!OPC_QDOWN), \h77, \h74) = Sentelic!OPC_QDOWN
BY DEF Sentelic!Understood, Sentelic!RegisterSent, Sentelic!Mangle, Sentelic!Rate, Sentelic!Command,
            Sentelic!Reserved, Sentelic!SwapNibbles, Sentelic!SYSCTL1, Sentelic!OPC_QDOWN

(* Setting a bit of a byte *)
LEMMA SetTag ==
    ASSUME NEW v \in Sentelic!Byte
    PROVE  /\ Sentelic!With(v, 7, TRUE) \in Sentelic!Byte
           /\ Sentelic!OpcTag(Sentelic!With(v, 7, TRUE))
<1>1. 2^7 = 128 /\ v \in 0 .. 255
  BY DEF Sentelic!Byte
<1> QED BY <1>1 DEF Sentelic!With, Sentelic!OpcTag, Sentelic!Bit, Sentelic!Byte

(* Setting or clearing the bit that opens the registers *)
LEMMA SetClock ==
    ASSUME NEW v \in Sentelic!Byte
    PROVE  /\ Sentelic!With(v, 5, TRUE) \in Sentelic!Byte
           /\ Sentelic!RegClk(Sentelic!With(v, 5, TRUE))
           /\ Sentelic!With(v, 5, FALSE) \in Sentelic!Byte
<1>1. 2^5 = 32 /\ v \in 0 .. 255
  BY DEF Sentelic!Byte
<1> QED BY <1>1 DEF Sentelic!With, Sentelic!RegClk, Sentelic!Bit, Sentelic!Byte

(* What the pad makes of a value *)
Arrived(val) == Sentelic!Understood(Sentelic!ValueSent(val), \h44, \h47)

(* What is written back when a register could not be read *)
LEMMA MissedValues ==
    ASSUME NEW x \in {-1, -33}
    PROVE  Arrived(x) \in Sentelic!Byte \/ Arrived(x) = -1
<1>1. x \in Int /\ x \notin Sentelic!Rate /\ x \notin Sentelic!Command
  BY DEF Sentelic!Rate, Sentelic!Command
<1>2. x % 256 \in Sentelic!Byte
  BY <1>1 DEF Sentelic!Byte
<1> DEFINE b == x % 256
<1>3. Sentelic!ValueSent(x) = [select |-> \h33, byte |-> b]
  BY <1>1 DEF Sentelic!ValueSent, Sentelic!Mangle
<1>4. b \in Sentelic!Byte
  BY <1>2
<1> HIDE DEF b
<1> QED BY <1>3, <1>4 DEF Arrived, Sentelic!Understood

(* fsp_reg_write changes the register it means, or nothing. *)
LEMMA SysctlWritten ==
    ASSUME NEW p \in Sentelic!Pad, NEW val, Arrived(val) \in Sentelic!Byte \/ Arrived(val) = -1
    PROVE  LET q == Sentelic!Written(p, Sentelic!SYSCTL1, val)
           IN  /\ q \in Sentelic!Pad /\ q.opc = p.opc
               /\ Arrived(val) # -1 => q.sysctl = Arrived(val)
<1> DEFINE v == Arrived(val)
           q == Sentelic!Written(p, Sentelic!SYSCTL1, val)
<1>0. /\ p.sysctl \in Sentelic!Byte /\ p.opc \in Sentelic!Byte /\ -1 \notin Sentelic!Byte
      /\ Sentelic!SYSCTL1 # Sentelic!OPC_QDOWN
  BY DEF Sentelic!Pad, Sentelic!Byte, Sentelic!SYSCTL1, Sentelic!OPC_QDOWN
<1>1. /\ v # -1 => q = [p EXCEPT !.sysctl = v]
      /\ v = -1 => q = p
  BY <1>0, RegistersArrive DEF Sentelic!Written, Arrived
<1> HIDE DEF v, q
<1>2. CASE v = -1
  BY <1>1, <1>2 DEF q, v
<1>3. CASE v \in Sentelic!Byte
  <2>1. q = [p EXCEPT !.sysctl = v]
    BY <1>0, <1>1, <1>3
  <2>2. q \in Sentelic!Pad /\ q.opc = p.opc /\ q.sysctl = v
    BY <1>3, <2>1 DEF Sentelic!Pad
  <2> QED BY <2>2 DEF q, v
<1> QED BY <1>2, <1>3 DEF v

(* The same for the other register, which must have been opened. *)
LEMMA OpcWritten ==
    ASSUME NEW p \in Sentelic!Pad, NEW val, Arrived(val) \in Sentelic!Byte \/ Arrived(val) = -1
    PROVE  LET q == Sentelic!Written(p, Sentelic!OPC_QDOWN, val)
           IN  /\ q \in Sentelic!Pad
               /\ Arrived(val) # -1 /\ Sentelic!RegClk(p.sysctl) => q.opc = Arrived(val)
<1> DEFINE v == Arrived(val)
           q == Sentelic!Written(p, Sentelic!OPC_QDOWN, val)
<1>0. /\ -1 \notin Sentelic!Byte
      /\ Sentelic!SYSCTL1 # Sentelic!OPC_QDOWN
  BY DEF Sentelic!Byte, Sentelic!SYSCTL1, Sentelic!OPC_QDOWN
<1>1. /\ v # -1 /\ Sentelic!RegClk(p.sysctl) => q = [p EXCEPT !.opc = v]
      /\ ~ (v # -1 /\ Sentelic!RegClk(p.sysctl)) => q = p
  BY <1>0, RegistersArrive DEF Sentelic!Written, Arrived
<1> HIDE DEF v, q
<1>2. CASE ~ (v # -1 /\ Sentelic!RegClk(p.sysctl))
  BY <1>1, <1>2 DEF q, v
<1>3. CASE v \in Sentelic!Byte /\ Sentelic!RegClk(p.sysctl)
  <2>1. q = [p EXCEPT !.opc = v]
    BY <1>0, <1>1, <1>3
  <2>2. q \in Sentelic!Pad /\ q.opc = v
    BY <1>3, <2>1 DEF Sentelic!Pad
  <2> QED BY <2>2 DEF q, v
<1> QED BY <1>2, <1>3 DEF v

(* fsp_reg_write_enable opens the registers if its read is answered. *)
LEMMA ClockWritten ==
    ASSUME NEW p \in Sentelic!Pad, NEW enable \in BOOLEAN, NEW answered \in BOOLEAN
    PROVE  LET q == Sentelic!WriteEnable(p, enable, answered)
           IN  /\ q \in Sentelic!Pad /\ q.opc = p.opc
               /\ enable /\ answered => Sentelic!RegClk(q.sysctl)
<1> DEFINE val == Sentelic!With(Sentelic!RegRead(p.sysctl, answered), 5, enable)
           q == Sentelic!WriteEnable(p, enable, answered)
<1>0. p.sysctl \in Sentelic!Byte /\ -1 \notin Sentelic!Byte
  BY DEF Sentelic!Pad, Sentelic!Byte
<1>1. q = Sentelic!Written(p, Sentelic!SYSCTL1, val)
  BY DEF Sentelic!WriteEnable
<1>2. CASE answered
  <2>1. val = Sentelic!With(p.sysctl, 5, enable)
    BY <1>2 DEF Sentelic!RegRead
  <2>2. val \in Sentelic!Byte /\ (enable => Sentelic!RegClk(val))
    <3>1. CASE enable
      BY <1>0, <2>1, <3>1, SetClock
    <3>2. CASE ~ enable
      BY <1>0, <2>1, <3>2, SetClock
    <3> QED BY <3>1, <3>2
  <2> HIDE DEF val, q
  <2>3. Arrived(val) = val
    BY <2>2, ValueArrives DEF Arrived
  <2>4. q \in Sentelic!Pad /\ q.opc = p.opc /\ q.sysctl = val
    BY <1>0, <1>1, <2>2, <2>3, SysctlWritten
  <2> QED BY <2>2, <2>4 DEF q
<1>3. CASE ~ answered
  <2>1. 2^5 = 32
    OBVIOUS
  <2>2. val = -1 \/ val = -33
    BY <1>3, <2>1 DEF Sentelic!RegRead, Sentelic!With
  <2> HIDE DEF val, q
  <2>3. Arrived(val) \in Sentelic!Byte \/ Arrived(val) = -1
    BY <2>2, MissedValues
  <2>4. q \in Sentelic!Pad /\ q.opc = p.opc
    BY <1>1, <2>3, SysctlWritten
  <2> QED BY <1>3, <2>4 DEF q
<1> QED BY <1>2, <1>3

(* fsp_opctag_enable sets the tag if its three reads are answered, and     *)
(* keeps the registers bytes in any case.                                  *)
LEMMA TagIsSet ==
    ASSUME NEW p \in Sentelic!Pad, NEW answered \in SUBSET (1 .. 3)
    PROVE  LET q == Sentelic!OpctagEnable(p, answered)
           IN  q \in Sentelic!Pad /\ (answered = 1 .. 3 => Sentelic!OpcTag(q.opc))
<1> DEFINE a1 == 1 \in answered
           a2 == 2 \in answered
           a3 == 3 \in answered
           clocked == Sentelic!WriteEnable(p, TRUE, a1)
           val == Sentelic!With(Sentelic!RegRead(p.opc, a2), 7, TRUE)
           tagged == Sentelic!Written(clocked, Sentelic!OPC_QDOWN, val)
           q == Sentelic!OpctagEnable(p, answered)
<1>1. q = Sentelic!WriteEnable(tagged, FALSE, a3)
  BY DEF Sentelic!OpctagEnable
<1>2. a1 \in BOOLEAN /\ a2 \in BOOLEAN /\ a3 \in BOOLEAN
  OBVIOUS
<1>3. answered = 1 .. 3 => a1 /\ a2
  OBVIOUS
<1>4. p.opc \in Sentelic!Byte /\ -1 \notin Sentelic!Byte
  BY DEF Sentelic!Pad, Sentelic!Byte
<1> HIDE DEF a1, a2, a3, q
<1>5. clocked \in Sentelic!Pad /\ (a1 => Sentelic!RegClk(clocked.sysctl))
  BY <1>2, ClockWritten
<1> HIDE DEF clocked
<1>6. /\ Arrived(val) \in Sentelic!Byte \/ Arrived(val) = -1
      /\ a2 => Arrived(val) # -1 /\ Sentelic!OpcTag(Arrived(val))
  <2>1. CASE a2
    <3>1. val = Sentelic!With(p.opc, 7, TRUE)
      BY <2>1 DEF Sentelic!RegRead
    <3>2. val \in Sentelic!Byte /\ Sentelic!OpcTag(val)
      BY <1>4, <3>1, SetTag
    <3> HIDE DEF val
    <3>3. Arrived(val) = val
      BY <3>2, ValueArrives DEF Arrived
    <3> QED BY <1>4, <3>2, <3>3
  <2>2. CASE ~ a2
    <3>1. val = -1
      BY <2>2 DEF Sentelic!RegRead, Sentelic!With
    <3> HIDE DEF val
    <3> QED BY <2>2, <3>1, MissedValues
  <2> QED BY <2>1, <2>2
<1> HIDE DEF val
<1>7. tagged \in Sentelic!Pad /\ (a1 /\ a2 => Sentelic!OpcTag(tagged.opc))
  BY <1>5, <1>6, OpcWritten
<1> HIDE DEF tagged
<1>8. q \in Sentelic!Pad /\ q.opc = tagged.opc
  BY <1>1, <1>2, <1>7, ClockWritten
<1>9. q \in Sentelic!Pad /\ (answered = 1 .. 3 => Sentelic!OpcTag(q.opc))
  BY <1>3, <1>7, <1>8
<1> QED BY <1>9 DEF q

(* The pad tags its taps as long as it answers, and a button that is held  *)
(* for a tap was allowed to be.                                            *)
TagInv ==
    /\ Sentelic!TypeOK
    /\ pad.on /\ ~ garbled => Sentelic!OpcTag(pad.opc)
    /\ Sentelic!TapsAreFiltered

(* A pad that is enabled tags its taps, if it answered. *)
LEMMA EnableSetsTag ==
    ASSUME NEW p \in Sentelic!Pad, NEW on \in BOOLEAN, NEW answered \in SUBSET (1 .. 3),
           Sentelic!SetTouchPadEnable(p, on, answered)
    PROVE  /\ pad' \in Sentelic!Pad /\ garbled' \in BOOLEAN
           /\ ~ garbled' => Sentelic!OpcTag(pad'.opc)
<1> DEFINE q == Sentelic!OpctagEnable(p, answered)
<1>1. pad' = [q EXCEPT !.on = on] /\ garbled' = (answered # 1 .. 3)
  BY DEF Sentelic!SetTouchPadEnable
<1>2. q \in Sentelic!Pad /\ (answered = 1 .. 3 => Sentelic!OpcTag(q.opc))
  BY TagIsSet
<1> HIDE DEF q
<1>3. pad' \in Sentelic!Pad /\ pad'.opc = q.opc
  BY <1>1, <1>2 DEF Sentelic!Pad
<1> QED BY <1>1, <1>2, <1>3

(* Every step keeps the invariant. *)
LEMMA TagSteps ==
    ASSUME OpcValues \subseteq Sentelic!Byte, TagInv, [Sentelic!Next]_Sentelic!vars
    PROVE  TagInv'
<1> DEFINE Held == UNCHANGED <<button, cause, click>>
<1>1. /\ pad \in Sentelic!Pad /\ drv \in Sentelic!Driver
      /\ {button, click} \subseteq BOOLEAN /\ garbled \in BOOLEAN
      /\ cause \in {"none", "press", "tap"}
      /\ pad.on /\ ~ garbled => Sentelic!OpcTag(pad.opc)
      /\ cause = "tap" /\ button => click
  BY DEF TagInv, Sentelic!TypeOK, Sentelic!TapsAreFiltered
<1>2. ASSUME drv' \in Sentelic!Driver, NEW p \in Sentelic!Pad, NEW on \in BOOLEAN,
             NEW answered \in SUBSET (1 .. 3),
             Sentelic!SetTouchPadEnable(p, on, answered),
             Held \/ (button' = FALSE /\ cause' = "none" /\ click' = FALSE)
      PROVE  TagInv'
  <2>1. /\ pad' \in Sentelic!Pad /\ garbled' \in BOOLEAN
        /\ ~ garbled' => Sentelic!OpcTag(pad'.opc)
    BY <1>2, EnableSetsTag
  <2>2. /\ {button', click'} \subseteq BOOLEAN /\ cause' \in {"none", "press", "tap"}
        /\ cause' = "tap" /\ button' => click'
    <3>1. CASE Held
      BY <1>1, <3>1
    <3>2. CASE button' = FALSE /\ cause' = "none" /\ click' = FALSE
      BY <3>2
    <3> QED BY <1>2, <3>1, <3>2
  <2> QED BY <1>2, <2>1, <2>2 DEF TagInv, Sentelic!TypeOK, Sentelic!TapsAreFiltered
<1>3. CASE UNCHANGED Sentelic!vars
  BY <1>1, <1>3 DEF Sentelic!vars, TagInv, Sentelic!TypeOK, Sentelic!TapsAreFiltered
<1>4. ASSUME NEW answered \in SUBSET (1 .. 3), Sentelic!Start(answered)
      PROVE  TagInv'
  <2>1. drv' \in Sentelic!Driver
    BY <1>1, <1>4 DEF Sentelic!Start, Sentelic!Driver
  <2> QED BY <1>1, <1>2, <1>4, <2>1 DEF Sentelic!Start
<1>5. ASSUME NEW answered \in SUBSET (1 .. 3), Sentelic!Stop(answered)
      PROVE  TagInv'
  <2>1. drv' \in Sentelic!Driver
    BY <1>5 DEF Sentelic!Stop, Sentelic!Driver
  <2> QED BY <1>1, <1>2, <1>5, <2>1 DEF Sentelic!Stop
<1>6. ASSUME NEW answered \in SUBSET (1 .. 3), Sentelic!DisableDevice(answered)
      PROVE  TagInv'
  BY <1>1, <1>2, <1>6 DEF Sentelic!DisableDevice
<1>7. ASSUME NEW answered \in SUBSET (1 .. 3), NEW opc \in OpcValues,
             Sentelic!EnableDevice(opc, answered)
      PROVE  TagInv'
  <2> DEFINE a == [pad EXCEPT !.sysctl = 0]
             p == [a EXCEPT !.opc = opc]
  <2>1. a \in Sentelic!Pad
    BY <1>1 DEF Sentelic!Pad, Sentelic!Byte
  <2>2. opc \in Sentelic!Byte
    OBVIOUS
  <2>3. Sentelic!SetTouchPadEnable(p, TRUE, answered) /\ UNCHANGED drv /\ Held
    BY <1>7 DEF Sentelic!EnableDevice
  <2> HIDE DEF a
  <2>4. p \in Sentelic!Pad
    BY <2>1, <2>2 DEF Sentelic!Pad
  <2> HIDE DEF p
  <2> QED BY <1>1, <1>2, <2>3, <2>4
<1>8. ASSUME NEW clicking \in BOOLEAN, Sentelic!SetParamProperties(clicking)
      PROVE  TagInv'
  <2>1. drv' \in Sentelic!Driver /\ UNCHANGED <<pad, button, cause, click, garbled>>
    BY <1>1, <1>8 DEF Sentelic!SetParamProperties, Sentelic!Driver
  <2> QED BY <1>1, <2>1 DEF TagInv, Sentelic!TypeOK, Sentelic!TapsAreFiltered
<1>9. ASSUME NEW why \in {"none", "press", "tap"}, Sentelic!Packet(why)
      PROVE  TagInv'
  <2>1. /\ pad.on /\ cause' = why /\ UNCHANGED <<pad, drv, garbled>>
        /\ button' = (why # "none"
                      /\ (drv.clicking \/ ~ (why = "tap" /\ Sentelic!OpcTag(pad.opc))))
        /\ click' = (drv.clicking \/ garbled)
    BY <1>9 DEF Sentelic!Packet, Sentelic!DispatchesButton
  <2>2. {button', click'} \subseteq BOOLEAN
    BY <2>1
  <2>3. cause' = "tap" /\ button' => click'
    BY <1>1, <2>1
  <2> QED BY <1>1, <2>1, <2>2, <2>3 DEF TagInv, Sentelic!TypeOK, Sentelic!TapsAreFiltered
<1> QED BY <1>3, <1>4, <1>5, <1>6, <1>7, <1>8, <1>9 DEF Sentelic!Next

(* The invariant holds before the pad is set up (init). *)
LEMMA TagStarts ==
    ASSUME OpcValues \subseteq Sentelic!Byte, Sentelic!Init
    PROVE  TagInv
<1>1. pad \in [on : {FALSE}, sysctl : {0}, opc : OpcValues]
  BY DEF Sentelic!Init
<1>2. pad \in Sentelic!Pad /\ ~ pad.on
  <2>1. /\ pad = [on |-> pad.on, sysctl |-> pad.sysctl, opc |-> pad.opc]
        /\ pad.on = FALSE /\ pad.sysctl = 0 /\ pad.opc \in Sentelic!Byte
    BY <1>1
  <2>2. pad.on \in BOOLEAN
    BY <2>1, Zenon
  <2>3. 0 \in Sentelic!Byte
    BY DEF Sentelic!Byte
  <2> QED BY <2>1, <2>2, <2>3 DEF Sentelic!Pad
<1>3. drv \in Sentelic!Driver
  BY DEF Sentelic!Init, Sentelic!Driver
<1>4. button = FALSE /\ cause = "none" /\ click = FALSE /\ garbled = FALSE
  BY DEF Sentelic!Init
<1>5. {button, click} \subseteq BOOLEAN /\ garbled \in BOOLEAN
  BY <1>4
<1> QED BY <1>2, <1>3, <1>4, <1>5 DEF TagInv, Sentelic!TypeOK, Sentelic!TapsAreFiltered

(* The inductive invariant of the tag register holds in every state        *)
(* (fsp_opctag_enable).                                                    *)
THEOREM TagInvariant == Spec => [](part = "sentelic" => TagInv)
<1>1. Init => (part = "sentelic" => TagInv)
  BY TagStarts, SentelicAssumption DEF Init
<1>2. (part = "sentelic" => TagInv) /\ [Next]_vars => (part = "sentelic" => TagInv)'
  BY PartSteps, TagSteps, SentelicAssumption
<1> QED BY <1>1, <1>2, PTL DEF Spec

(* For all first values of the register, with Clicking off a tap presses   *)
(* no button, if the pad has answered (fsp_opctag_enable,                  *)
(* dispatchRelativePointerEventWithPacket).                                *)
THEOREM TapsNeverClick == Spec => []TapsAreFiltered
<1>1. (part = "sentelic" => TagInv) => TapsAreFiltered
  BY DEF TapsAreFiltered, TagInv
<1> QED BY <1>1, TagInvariant, PTL

-----------------------------------------------------------------------------
(***************************************************************************)
(* Elan: the state, changed one field at a time                            *)
(***************************************************************************)

(* q is a state of the driver with these fields. *)
DriverIs(q, running, published, touch, held, heads, first, skipped, last) ==
    /\ q \in Elan!Driver
    /\ (q.running <=> running) /\ (q.published <=> published) /\ q.touch = touch
    /\ q.held = held /\ q.heads = heads /\ (q.first <=> first) /\ q.skipped = skipped
    /\ q.last = last

(* q is d, but for the given last buttons *)
But(q, d, last) ==
    DriverIs(q, d.running, d.published, d.touch, d.held, d.heads, d.first, d.skipped, last)

(* One field is changed, and no other: the last buttons, ... *)
LEMMA LastSet ==
    ASSUME NEW d \in Elan!Driver, NEW b \in SUBSET Elan!Button
    PROVE  But([d EXCEPT !.last = b], d, b)
BY DEF But, DriverIs, Elan!Driver

(* ... the fingers that touch, ... *)
LEMMA TouchSet ==
    ASSUME NEW d \in Elan!Driver, NEW t \in SUBSET Elan!Finger
    PROVE  DriverIs([d EXCEPT !.touch = t], d.running, d.published, t, d.held, d.heads,
                    d.first, d.skipped, d.last)
BY DEF DriverIs, Elan!Driver

(* ... the packets skipped, ... *)
LEMMA SkippedSet ==
    ASSUME NEW d \in Elan!Driver, NEW s \in 0 .. 2
    PROVE  DriverIs([d EXCEPT !.skipped = s], d.running, d.published, d.touch, d.held, d.heads,
                    d.first, s, d.last)
BY DEF DriverIs, Elan!Driver

(* ... whether a first packet waits for its second, ... *)
LEMMA FirstSet ==
    ASSUME NEW d \in Elan!Driver, NEW b \in BOOLEAN
    PROVE  DriverIs([d EXCEPT !.first = b], d.running, d.published, d.touch, d.held, d.heads,
                    b, d.skipped, d.last)
BY DEF DriverIs, Elan!Driver

(* ... whether the driver is published, ... *)
LEMMA PublishedSet ==
    ASSUME NEW d \in Elan!Driver, NEW b \in BOOLEAN
    PROVE  DriverIs([d EXCEPT !.published = b], d.running, b, d.touch, d.held, d.heads,
                    d.first, d.skipped, d.last)
BY DEF DriverIs, Elan!Driver

(* ... the head packets counted, ... *)
LEMMA HeadsSet ==
    ASSUME NEW d \in Elan!Driver, NEW h \in 0 .. 6
    PROVE  DriverIs([d EXCEPT !.heads = h], d.running, d.published, d.touch, d.held, h,
                    d.first, d.skipped, d.last)
BY DEF DriverIs, Elan!Driver

(* ... the fingers held, ... *)
LEMMA HeldSet ==
    ASSUME NEW d \in Elan!Driver, NEW h \in 0 .. 5
    PROVE  DriverIs([d EXCEPT !.held = h], d.running, d.published, d.touch, h, d.heads,
                    d.first, d.skipped, d.last)
BY DEF DriverIs, Elan!Driver

(* ... and what a status packet changes together. *)
LEMMA StatusSet ==
    ASSUME NEW d \in Elan!Driver, NEW t \in SUBSET Elan!Finger, NEW h \in 0 .. 5
    PROVE  DriverIs([d EXCEPT !.touch = t, !.heads = 0, !.held = h], d.running, d.published, t,
                    h, 0, d.first, d.skipped, d.last)
<1> DEFINE q1 == [d EXCEPT !.touch = t]
           q2 == [q1 EXCEPT !.heads = 0]
           q == [d EXCEPT !.touch = t, !.heads = 0, !.held = h]
<1>1. q = [q2 EXCEPT !.held = h]
  OBVIOUS
<1>2. DriverIs(q1, d.running, d.published, t, d.held, d.heads, d.first, d.skipped, d.last)
  BY TouchSet
<1>3. 0 \in 0 .. 6
  OBVIOUS
<1>4. q1 \in Elan!Driver
  BY <1>2 DEF DriverIs
<1> HIDE DEF q1
<1>5. DriverIs(q2, q1.running, q1.published, q1.touch, q1.held, 0, q1.first, q1.skipped, q1.last)
  BY <1>3, <1>4, HeadsSet
<1>6. q2 \in Elan!Driver
  BY <1>5 DEF DriverIs
<1> HIDE DEF q2
<1>7. DriverIs(q, q2.running, q2.published, q2.touch, h, q2.heads, q2.first, q2.skipped, q2.last)
  BY <1>1, <1>6, HeldSet
<1> HIDE DEF q
<1>8. DriverIs(q, d.running, d.published, t, h, 0, d.first, d.skipped, d.last)
  BY <1>2, <1>5, <1>7 DEF DriverIs
<1> QED BY <1>8, Zenon DEF q

(* No field is changed. *)
LEMMA DriverSelf ==
    ASSUME NEW d \in Elan!Driver
    PROVE  But(d, d, d.last)
BY DEF But, DriverIs, Elan!Driver

(* q is a state of the client with these fields. *)
ClientIs(q, open, contacts, right, buttons) ==
    /\ q \in Elan!Client
    /\ (q.open <=> open) /\ q.contacts = contacts /\ q.exact = right /\ q.buttons = buttons

(* What a report changes of the client ... *)
LEMMA ClientSet ==
    ASSUME NEW c \in Elan!Client, NEW x \in SUBSET Elan!Finger, NEW y \in SUBSET Elan!Finger,
           NEW b \in SUBSET Elan!Button
    PROVE  ClientIs([c EXCEPT !.contacts = x, !.exact = y, !.buttons = b], c.open, x, y, b)
BY DEF ClientIs, Elan!Client

(* ... and what the trackpoint does. *)
LEMMA ClientButtonsSet ==
    ASSUME NEW c \in Elan!Client, NEW b \in SUBSET Elan!Button
    PROVE  ClientIs([c EXCEPT !.buttons = b], c.open, c.contacts, c.exact, b)
BY DEF ClientIs, Elan!Client

(* The client has only buttons of the last event or of the trackpoint. *)
ButtonsOf(c, last, stck) ==
    c.buttons \subseteq last \cup stck /\ (~ c.open => c.buttons = {})

(* What a packet does to driver and client, if it leads to d, is reported *)
(* or not, and right is exact then.                                       *)
Outcome(d, reported, right) ==
    /\ drv' \in Elan!Driver
    /\ \E last \in SUBSET Elan!Button : But(drv', d, last)
    /\ client' \in Elan!Client /\ (client'.open <=> client.open)
    /\ IF reported /\ ~ quiet /\ client.open
       THEN client'.contacts = d.touch /\ client'.exact = d.touch \cap right
       ELSE client'.contacts = client.contacts /\ client'.exact = client.exact
    /\ ButtonsOf(client', drv'.last, stick)

(* A packet that is kept for later changes nothing for the client. *)
LEMMA Unreported ==
    ASSUME drv \in Elan!Driver, client \in Elan!Client, ButtonsOf(client, drv.last, stick),
           NEW d \in Elan!Driver, d.last = drv.last, NEW right,
           drv' = d, client' = client
    PROVE  Outcome(d, FALSE, right)
<1>1. d.last \in SUBSET Elan!Button
  BY DEF Elan!Driver
<1>2. But(drv', d, d.last)
  BY DriverSelf
<1> QED BY <1>1, <1>2 DEF Outcome, ButtonsOf

(* sendTouchData: the client has the fingers that touch, and only buttons  *)
(* of the last event or of the trackpoint.                                 *)
LEMMA TouchDataSent ==
    ASSUME drv \in Elan!Driver, client \in Elan!Client, ButtonsOf(client, drv.last, stick),
           quiet \in BOOLEAN,
           NEW d \in Elan!Driver, d.last = drv.last, NEW right, right \subseteq Elan!Finger,
           NEW buttons \in SUBSET Elan!Button,
           Elan!SendTouchData(d, buttons, right)
    PROVE  Outcome(d, TRUE, right)
<1> DEFINE sent == Elan!ButtonsSent(d.touch, buttons)
<1>1. drv.last \in SUBSET Elan!Button /\ client.buttons \in SUBSET Elan!Button
      /\ d.touch \in SUBSET Elan!Finger /\ client.open \in BOOLEAN
  BY DEF Elan!Driver, Elan!Client
<1>2. CASE quiet
  <2>1. drv' = d /\ client' = client
    BY <1>2 DEF Elan!SendTouchData
  <2>2. But(drv', d, d.last)
    BY <2>1, DriverSelf
  <2> QED BY <1>1, <1>2, <2>1, <2>2 DEF Outcome, ButtonsOf
<1>3. CASE ~ quiet
  <2> DEFINE last == IF Elan!IsButtonpad(pad.is.fw) THEN d.last ELSE buttons
  <2>1. last \in SUBSET Elan!Button
    BY <1>1
  <2>2. But(drv', d, last)
    <3>1. CASE Elan!IsButtonpad(pad.is.fw)
      BY <1>3, <3>1, DriverSelf DEF Elan!SendTouchData
    <3>2. CASE ~ Elan!IsButtonpad(pad.is.fw)
      BY <1>3, <3>2, LastSet DEF Elan!SendTouchData
    <3> QED BY <3>1, <3>2
  <2>3. sent \in SUBSET Elan!Button /\ sent \subseteq last \cup stick
    <3>1. CASE Elan!IsButtonpad(pad.is.fw)
      <4>1. sent = client.buttons
        BY <3>1 DEF Elan!ButtonsSent
      <4> QED BY <1>1, <3>1, <4>1 DEF ButtonsOf
    <3>2. CASE ~ Elan!IsButtonpad(pad.is.fw) /\ d.touch = {}
      <4>1. sent = buttons
        BY <3>2 DEF Elan!ButtonsSent
      <4> QED BY <3>2, <4>1
    <3>3. CASE ~ Elan!IsButtonpad(pad.is.fw) /\ d.touch # {}
      <4>1. sent = IF buttons # drv.last THEN buttons \ drv.last ELSE client.buttons
        BY <3>3 DEF Elan!ButtonsSent, Elan!ChangedButtons
      <4> QED BY <1>1, <3>3, <4>1 DEF ButtonsOf
    <3> QED BY <3>1, <3>2, <3>3
  <2>4. But(drv', d, last) => drv' \in Elan!Driver /\ drv'.last = last
    BY DEF But, DriverIs
  <2> HIDE DEF last, sent
  <2>5. CASE ~ client.open
    <3>1. client' = client
      BY <1>3, <2>5 DEF Elan!SendTouchData
    <3> QED BY <1>1, <2>1, <2>2, <2>4, <2>5, <3>1 DEF Outcome, ButtonsOf
  <2>6. CASE client.open
    <3>1. client' = [client EXCEPT !.contacts = d.touch, !.exact = d.touch \cap right,
                                   !.buttons = sent]
      BY <1>3, <2>6 DEF Elan!SendTouchData, sent
    <3>2. ClientIs(client', client.open, d.touch, d.touch \cap right, sent)
      BY <1>1, <2>3, <3>1, ClientSet
    <3> QED BY <1>3, <2>1, <2>2, <2>3, <2>4, <2>6, <3>2 DEF Outcome, ButtonsOf, ClientIs
  <2> QED BY <2>5, <2>6
<1> QED BY <1>2, <1>3

-----------------------------------------------------------------------------
(***************************************************************************)
(* Elan: The report routines                                               *)
(***************************************************************************)

(* What a report routine needs ... *)
Sound ==
    /\ drv \in Elan!Driver /\ client \in Elan!Client /\ quiet \in BOOLEAN
    /\ ButtonsOf(client, drv.last, stick)

(* ... and what it keeps *)
Safe ==
    /\ drv' \in Elan!Driver /\ client' \in Elan!Client
    /\ (drv'.running <=> drv.running) /\ (drv'.published <=> drv.published)
    /\ (client'.open <=> client.open)
    /\ ButtonsOf(client', drv'.last, stick)

(* What is seen of an event that shows the fingers in touch *)
Seen(touch, right) ==
    ~ quiet /\ client.open => client'.contacts = touch /\ client'.exact = touch \cap right

(* The first n fingers are fingers. *)
LEMMA FirstCount ==
    ASSUME NEW n \in 0 .. 5
    PROVE  0 .. n - 1 \in SUBSET Elan!Finger
BY DEF Elan!Finger

(* The report of version 1, which skips packets of jumpy firmware *)
LEMMA V1Reports ==
    ASSUME Sound, NEW packet, packet.count \in 0 .. 5, packet.buttons \in SUBSET Elan!Button,
           NEW right, right \subseteq Elan!Finger, Elan!ReportAbsoluteV1(packet, right)
    PROVE  Safe /\ (drv'.skipped = drv.skipped => Seen(0 .. packet.count - 1, right))
<1> DEFINE touch == 0 .. packet.count - 1
           jumpy == Elan!Jumpy(pad.is.fw)
           skips == jumpy /\ packet.count = 1 /\ drv.skipped < 2
           d1 == [drv EXCEPT !.skipped = IF packet.count = 1 THEN drv.skipped ELSE 0]
           d2 == IF jumpy THEN d1 ELSE drv
           d == [d2 EXCEPT !.touch = touch]
<1>1. touch \in SUBSET Elan!Finger
  BY FirstCount
<1>2. drv.skipped \in 0 .. 2 /\ drv \in Elan!Driver
  BY DEF Sound, Elan!Driver
<1>3. CASE skips
  <2> DEFINE s == drv.skipped + 1
             e == [drv EXCEPT !.skipped = s]
  <2>1. drv' = e /\ client' = client
    BY <1>3 DEF Elan!ReportAbsoluteV1
  <2>2. s \in 0 .. 2 /\ s # drv.skipped
    BY <1>2, <1>3
  <2> HIDE DEF s
  <2>3. DriverIs(e, drv.running, drv.published, drv.touch, drv.held, drv.heads, drv.first, s, drv.last)
    BY <1>2, <2>2, SkippedSet
  <2> QED BY <2>1, <2>2, <2>3 DEF Safe, DriverIs, Sound
<1>4. CASE ~ skips
  <2>1. Elan!SendTouchData(d, packet.buttons, right)
    BY <1>4 DEF Elan!ReportAbsoluteV1
  <2>2. /\ d2 \in Elan!Driver /\ d2.last = drv.last
        /\ (d2.running <=> drv.running) /\ (d2.published <=> drv.published)
    <3> DEFINE s == IF packet.count = 1 THEN drv.skipped ELSE 0
    <3>1. s \in 0 .. 2
      BY <1>2
    <3> HIDE DEF s
    <3>2. DriverIs([drv EXCEPT !.skipped = s], drv.running, drv.published, drv.touch, drv.held,
                   drv.heads, drv.first, s, drv.last)
      BY <1>2, <3>1, SkippedSet
    <3> QED BY <1>2, <3>2 DEF DriverIs, s
  <2> HIDE DEF d2, touch
  <2>3. DriverIs(d, d2.running, d2.published, touch, d2.held, d2.heads, d2.first, d2.skipped, d2.last)
    BY <1>1, <2>2, TouchSet
  <2>4. d \in Elan!Driver /\ d.last = drv.last /\ d.touch = touch
        /\ (d.running <=> drv.running) /\ (d.published <=> drv.published)
    BY <2>2, <2>3 DEF DriverIs
  <2> HIDE DEF d
  <2>5. Outcome(d, TRUE, right)
    BY <2>1, <2>4, TouchDataSent DEF Sound
  <2> QED BY <2>4, <2>5 DEF Safe, Seen, Outcome, But, DriverIs, touch
<1> QED BY <1>3, <1>4

(* A report of the fingers 0 .. count - 1, as versions 1 to 3 end with *)
LEMMA CountReported ==
    ASSUME Sound, NEW n \in 0 .. 5, NEW buttons \in SUBSET Elan!Button,
           NEW right, right \subseteq Elan!Finger,
           Elan!SendTouchData([drv EXCEPT !.touch = 0 .. n - 1], buttons, right)
    PROVE  Safe /\ Seen(0 .. n - 1, right)
<1> DEFINE touch == 0 .. n - 1
           d == [drv EXCEPT !.touch = touch]
<1>1. touch \in SUBSET Elan!Finger
  BY FirstCount
<1>2. drv \in Elan!Driver
  BY DEF Sound
<1> HIDE DEF touch
<1>3. DriverIs(d, drv.running, drv.published, touch, drv.held, drv.heads, drv.first, drv.skipped, drv.last)
  BY <1>1, <1>2, TouchSet
<1>4. d \in Elan!Driver /\ d.last = drv.last /\ d.touch = touch
      /\ (d.running <=> drv.running) /\ (d.published <=> drv.published)
  BY <1>3 DEF DriverIs
<1>6. Elan!SendTouchData(d, buttons, right)
  BY DEF touch
<1> HIDE DEF d
<1>5. Outcome(d, TRUE, right)
  BY <1>4, <1>6, TouchDataSent DEF Sound
<1> QED BY <1>4, <1>5 DEF Safe, Seen, Outcome, But, DriverIs, touch

(* The report of version 2 *)
LEMMA V2Reports ==
    ASSUME Sound, NEW packet, packet.count \in 0 .. 5, packet.buttons \in SUBSET Elan!Button,
           NEW right, right \subseteq Elan!Finger, Elan!ReportAbsoluteV2(packet, right)
    PROVE  Safe /\ Seen(0 .. packet.count - 1, right)
BY CountReported DEF Elan!ReportAbsoluteV2

(* The report of version 3: a first packet of two fingers waits for the    *)
(* second.                                                                 *)
LEMMA V3Reports ==
    ASSUME Sound, NEW packet, packet.count \in 0 .. 5, packet.buttons \in SUBSET Elan!Button,
           packet.type = "head" => packet.true \in BOOLEAN,
           NEW right, right \subseteq Elan!Finger, Elan!ReportAbsoluteV3(packet, right)
    PROVE  /\ Safe
           /\ IF packet.type = "head" /\ packet.count = 2
              THEN drv'.first <=> packet.true
              ELSE Seen(0 .. packet.count - 1,
                        IF packet.count = 2 /\ ~ drv.first THEN right \ {0} ELSE right)
<1> DEFINE right3 == IF packet.count = 2 /\ ~ drv.first THEN right \ {0} ELSE right
<1>1. CASE packet.type = "head" /\ packet.count = 2
  <2>1. drv' = [drv EXCEPT !.first = packet.true] /\ client' = client
    BY <1>1 DEF Elan!ReportAbsoluteV3
  <2>2. drv \in Elan!Driver /\ packet.true \in BOOLEAN
    BY <1>1 DEF Sound
  <2>3. DriverIs(drv', drv.running, drv.published, drv.touch, drv.held, drv.heads, packet.true,
                 drv.skipped, drv.last)
    BY <2>1, <2>2, FirstSet
  <2> QED BY <1>1, <2>1, <2>3 DEF Safe, DriverIs, Sound
<1>2. CASE ~ (packet.type = "head" /\ packet.count = 2)
  <2>1. Elan!SendTouchData([drv EXCEPT !.touch = 0 .. packet.count - 1], packet.buttons, right3)
    BY <1>2 DEF Elan!ReportAbsoluteV3
  <2>2. right3 \subseteq Elan!Finger
    OBVIOUS
  <2> HIDE DEF right3
  <2>3. Safe /\ Seen(0 .. packet.count - 1, right3)
    BY <2>1, <2>2, CountReported
  <2> QED BY <1>2, <2>3 DEF right3
<1> QED BY <1>1, <1>2

(* Cardinality is the same in both modules. *)
LEMMA SameCardinality == \A S : Elan!Cardinality(S) = Cardinality(S)
BY DEF Elan!Cardinality, Cardinality

(* Sets of fingers are finite, and small. *)
LEMMA FingerSets ==
    ASSUME NEW S, S \subseteq Elan!Finger
    PROVE  IsFiniteSet(S) /\ Elan!Cardinality(S) \in 0 .. 5
<1>1. IsFiniteSet(Elan!Finger) /\ Cardinality(Elan!Finger) = 5
  <2>1. 0 \in Int /\ 4 \in Int /\ ~ (0 > 4) /\ 4 - 0 + 1 = 5
    OBVIOUS
  <2>2. IsFiniteSet(0 .. 4) /\ Cardinality(0 .. 4) = 4 - 0 + 1
    BY <2>1, FS_Interval
  <2> QED BY <2>1, <2>2, Zenon DEF Elan!Finger
<1>2. IsFiniteSet(S) /\ Cardinality(S) <= Cardinality(Elan!Finger)
  BY <1>1, FS_Subset
<1>3. Cardinality(S) \in Nat
  BY <1>2, FS_CardinalityType
<1> QED BY <1>1, <1>2, <1>3, SameCardinality

(* Version 4, status packet: the fingers that are down, none reported      *)
(* before their head packets unless there are none                         *)
LEMMA V4Status ==
    ASSUME Sound, NEW packet, packet.down \in SUBSET Elan!Finger,
           packet.buttons \in SUBSET Elan!Button,
           NEW right, right \subseteq Elan!Finger, Elan!ProcessPacketStatusV4(packet, right)
    PROVE  /\ Safe
           /\ drv'.touch = packet.down /\ drv'.heads = 0
           /\ drv'.held = Elan!Cardinality(packet.down) /\ drv'.skipped = drv.skipped
           /\ packet.down = {} => Seen({}, right)
<1> DEFINE many == Elan!Cardinality(packet.down)
           d == [drv EXCEPT !.touch = packet.down, !.heads = 0, !.held = many]
<1>1. drv \in Elan!Driver
  BY DEF Sound
<1>2. many \in 0 .. 5
  BY FingerSets
<1>3. /\ packet.down = {} => Elan!SendTouchData(d, packet.buttons, right)
      /\ packet.down # {} => drv' = d /\ client' = client
  <2>1. CASE packet.down = {}
    BY <2>1 DEF Elan!ProcessPacketStatusV4
  <2>2. CASE packet.down # {}
    BY <2>2 DEF Elan!ProcessPacketStatusV4
  <2> QED BY <2>1, <2>2
<1> HIDE DEF many
<1>4. DriverIs(d, drv.running, drv.published, packet.down, many, 0, drv.first, drv.skipped, drv.last)
  BY <1>1, <1>2, StatusSet
<1>5. /\ d \in Elan!Driver /\ d.last = drv.last /\ d.touch = packet.down
      /\ d.heads = 0 /\ d.held = many /\ d.skipped = drv.skipped
      /\ (d.running <=> drv.running) /\ (d.published <=> drv.published)
  BY <1>4 DEF DriverIs
<1> HIDE DEF d
<1>6. Outcome(d, packet.down = {}, right)
  <2>1. CASE packet.down = {}
    <3>1. Outcome(d, TRUE, right)
      BY <1>3, <1>5, <2>1, TouchDataSent DEF Sound
    <3> QED BY <2>1, <3>1 DEF Outcome
  <2>2. CASE packet.down # {}
    <3>1. Outcome(d, FALSE, right)
      BY <1>3, <1>5, <2>2, Unreported DEF Sound
    <3> QED BY <2>2, <3>1 DEF Outcome
  <2> QED BY <2>1, <2>2
<1> QED BY <1>5, <1>6 DEF Safe, Seen, Outcome, But, DriverIs, many

(* Version 4, head packet: the last of those that are due reports. *)
LEMMA V4Head ==
    ASSUME Sound, NEW packet, packet.buttons \in SUBSET Elan!Button,
           NEW right, right \subseteq Elan!Finger, Elan!ProcessPacketHeadV4(packet, right)
    PROVE  LET heads == IF drv.heads < 6 THEN drv.heads + 1 ELSE 6
               last == packet.ids # {} /\ heads = drv.held
           IN  /\ Safe
               /\ drv'.touch = drv.touch /\ drv'.held = drv.held /\ drv'.skipped = drv.skipped
               /\ drv'.heads = IF last THEN 0 ELSE heads
               /\ last => Seen(drv.touch, right)
<1> DEFINE heads == IF drv.heads < 6 THEN drv.heads + 1 ELSE 6
           last == packet.ids # {} /\ heads = drv.held
           d1 == [drv EXCEPT !.heads = heads]
           d == IF last THEN [d1 EXCEPT !.heads = 0] ELSE d1
<1>1. drv \in Elan!Driver /\ drv.heads \in 0 .. 6
  BY DEF Sound, Elan!Driver
<1>2. heads \in 0 .. 6 /\ 0 \in 0 .. 6
  BY <1>1
<1>3. IF last THEN Elan!SendTouchData(d, packet.buttons, right)
              ELSE drv' = d /\ client' = client
  BY DEF Elan!ProcessPacketHeadV4
<1> HIDE DEF heads, last
<1>4. DriverIs(d1, drv.running, drv.published, drv.touch, drv.held, heads, drv.first, drv.skipped,
               drv.last)
  BY <1>1, <1>2, HeadsSet
<1>41. d1 \in Elan!Driver
  BY <1>4 DEF DriverIs
<1> HIDE DEF d1
<1>42. DriverIs([d1 EXCEPT !.heads = 0], d1.running, d1.published, d1.touch, d1.held, 0, d1.first, d1.skipped,
               d1.last)
  BY <1>41, <1>2, HeadsSet
<1>5. /\ d \in Elan!Driver /\ d.last = drv.last /\ d.touch = drv.touch
      /\ d.heads = (IF last THEN 0 ELSE heads) /\ d.held = drv.held /\ d.skipped = drv.skipped
      /\ (d.running <=> drv.running) /\ (d.published <=> drv.published)
  BY <1>4, <1>42 DEF DriverIs
<1> HIDE DEF d
<1>6. Outcome(d, last, right)
  <2>1. CASE last
    <3>1. Outcome(d, TRUE, right)
      BY <1>3, <1>5, <2>1, TouchDataSent DEF Sound
    <3> QED BY <2>1, <3>1 DEF Outcome
  <2>2. CASE ~ last
    <3>1. Outcome(d, FALSE, right)
      BY <1>3, <1>5, <2>2, Unreported DEF Sound
    <3> QED BY <2>2, <3>1 DEF Outcome
  <2> QED BY <2>1, <2>2
<1>7. /\ Safe
      /\ drv'.touch = drv.touch /\ drv'.held = drv.held /\ drv'.skipped = drv.skipped
      /\ drv'.heads = IF last THEN 0 ELSE heads
      /\ last => Seen(drv.touch, right)
  BY <1>5, <1>6 DEF Safe, Seen, Outcome, But, DriverIs
<1> QED BY <1>7 DEF heads, last

(* Version 4, motion packet *)
LEMMA V4Motion ==
    ASSUME Sound, NEW packet, packet.buttons \in SUBSET Elan!Button,
           NEW right, right \subseteq Elan!Finger, Elan!ProcessPacketMotionV4(packet, right)
    PROVE  /\ Safe
           /\ drv'.touch = drv.touch /\ drv'.held = drv.held /\ drv'.heads = drv.heads
           /\ drv'.skipped = drv.skipped
           /\ \/ client'.contacts = client.contacts /\ client'.exact = client.exact
              \/ client'.contacts = drv.touch /\ client'.exact = drv.touch \cap right
<1>1. drv \in Elan!Driver
  BY DEF Sound
<1>2. CASE packet.ids = {}
  <2>1. drv' = drv /\ client' = client
    BY <1>2 DEF Elan!ProcessPacketMotionV4
  <2> QED BY <2>1 DEF Safe, Sound
<1>3. CASE packet.ids # {}
  <2>1. Elan!SendTouchData(drv, packet.buttons, right)
    BY <1>3 DEF Elan!ProcessPacketMotionV4
  <2>2. Outcome(drv, TRUE, right)
    BY <1>1, <2>1, TouchDataSent DEF Sound
  <2> QED BY <2>2 DEF Safe, Outcome, But, DriverIs
<1> QED BY <1>2, <1>3

-----------------------------------------------------------------------------
(***************************************************************************)
(* Elan: packetReady                                                       *)
(***************************************************************************)

(* A packet as the checks of version v may have made it *)
Readable(packet, v) ==
    \/ packet.type = "none"
    \/ packet.type = "trackpoint" /\ packet.buttons \in SUBSET Elan!Button
    \/ /\ v \in 1 .. 3 /\ packet.type \in {"head", "tail"}
       /\ packet.count \in 0 .. 5 /\ packet.buttons \in SUBSET Elan!Button
       /\ packet.type = "head" => packet.true \in BOOLEAN
    \/ /\ v = 4 /\ packet.type \in {"status", "head", "motion"}
       /\ packet.buttons \in SUBSET Elan!Button
       /\ packet.type = "status" => packet.down \in SUBSET Elan!Finger

(* What packetReady keeps *)
SafeReady ==
    /\ drv' \in Elan!Driver /\ client' \in Elan!Client
    /\ quiet' \in BOOLEAN /\ stick' \in SUBSET Elan!Button
    /\ (drv'.running <=> drv.running) /\ (drv'.published <=> drv.published)
    /\ (client'.open <=> client.open)
    /\ ButtonsOf(client', drv'.last, stick')

(* packetReady hands a packet to the routine of the version. *)
LEMMA ReadyMeans ==
    ASSUME NEW packet, NEW right, Elan!PacketReady(packet, right), ~ ignoreall,
           packet.type \notin {"none", "trackpoint"},
           NEW v \in 1 .. 4, Elan!HwVersion(pad.is.fw) = v, Readable(packet, v)
    PROVE  /\ quiet' = quiet /\ stick' = stick
           /\ v = 1 => Elan!ReportAbsoluteV1(packet, right)
           /\ v = 2 => Elan!ReportAbsoluteV2(packet, right)
           /\ v = 3 => Elan!ReportAbsoluteV3(packet, right)
           /\ v = 4 =>
                /\ packet.type = "status" => Elan!ProcessPacketStatusV4(packet, right)
                /\ packet.type = "head" => Elan!ProcessPacketHeadV4(packet, right)
                /\ packet.type = "motion" => Elan!ProcessPacketMotionV4(packet, right)
<1>1. CASE v = 1
  BY <1>1 DEF Elan!PacketReady
<1>2. CASE v = 2
  BY <1>2 DEF Elan!PacketReady
<1>3. CASE v = 3
  BY <1>3 DEF Elan!PacketReady
<1>4. CASE v = 4 /\ packet.type = "status"
  BY <1>4 DEF Elan!PacketReady
<1>5. CASE v = 4 /\ packet.type = "head"
  BY <1>5 DEF Elan!PacketReady
<1>6. CASE v = 4 /\ packet.type = "motion"
  BY <1>6 DEF Elan!PacketReady
<1>7. CASE v = 4 /\ packet.type \notin {"status", "head", "motion"}
  BY <1>7 DEF Readable
<1> QED BY <1>1, <1>2, <1>3, <1>4, <1>5, <1>6, <1>7

(* A packet of the trackpoint changes only buttons. *)
LEMMA TrackpointReported ==
    ASSUME Sound, NEW packet, packet.buttons \in SUBSET Elan!Button, Elan!ReportTrackpoint(packet)
    PROVE  SafeReady /\ drv' = drv /\ client'.contacts = client.contacts
           /\ client'.exact = client.exact
<1>1. /\ quiet' = TRUE /\ stick' = packet.buttons /\ drv' = drv
      /\ client' = IF client.open THEN [client EXCEPT !.buttons = packet.buttons] ELSE client
  BY DEF Elan!ReportTrackpoint
<1>2. client \in Elan!Client /\ ButtonsOf(client, drv.last, stick) /\ drv \in Elan!Driver
  BY DEF Sound
<1>3. CASE client.open
  <2>1. ClientIs(client', client.open, client.contacts, client.exact, packet.buttons)
    BY <1>1, <1>2, <1>3, ClientButtonsSet
  <2> QED BY <1>1, <1>2, <1>3, <2>1 DEF SafeReady, ButtonsOf, ClientIs
<1>4. CASE ~ client.open
  BY <1>1, <1>2, <1>4 DEF SafeReady, ButtonsOf
<1> QED BY <1>3, <1>4

(* Whatever packet it is, packetReady keeps the types, and the buttons as  *)
(* they should be.                                                         *)
LEMMA PacketSafe ==
    ASSUME Sound, stick \in SUBSET Elan!Button, ignoreall \in BOOLEAN,
           NEW packet, NEW right, right \subseteq Elan!Finger,
           NEW v \in 1 .. 4, Elan!HwVersion(pad.is.fw) = v,
           Readable(packet, v), Elan!PacketReady(packet, right)
    PROVE  SafeReady
<1>1. CASE ignoreall \/ packet.type = "none"
  <2>1. drv' = drv /\ client' = client /\ quiet' = quiet /\ stick' = stick
    BY <1>1 DEF Elan!PacketReady
  <2> QED BY <2>1 DEF SafeReady, Sound
<1>2. CASE ~ ignoreall /\ packet.type = "trackpoint"
  <2>1. Elan!ReportTrackpoint(packet)
    BY <1>2 DEF Elan!PacketReady
  <2>2. packet.buttons \in SUBSET Elan!Button
    BY <1>2 DEF Readable
  <2> QED BY <2>1, <2>2, TrackpointReported
<1>3. CASE ~ ignoreall /\ packet.type \notin {"none", "trackpoint"}
  <2> SUFFICES Safe /\ quiet' = quiet /\ stick' = stick
    BY DEF Safe, SafeReady, Sound
  <2>0. quiet' = quiet /\ stick' = stick
    BY <1>3, ReadyMeans
  <2>1. packet.buttons \in SUBSET Elan!Button
    BY <1>3 DEF Readable
  <2>2. CASE v = 1
    <3>1. Elan!ReportAbsoluteV1(packet, right) /\ packet.count \in 0 .. 5
      BY <1>3, <2>2, ReadyMeans DEF Readable
    <3> QED BY <2>0, <2>1, <3>1, V1Reports
  <2>3. CASE v = 2
    <3>1. Elan!ReportAbsoluteV2(packet, right) /\ packet.count \in 0 .. 5
      BY <1>3, <2>3, ReadyMeans DEF Readable
    <3> QED BY <2>0, <2>1, <3>1, V2Reports
  <2>4. CASE v = 3
    <3>1. /\ Elan!ReportAbsoluteV3(packet, right) /\ packet.count \in 0 .. 5
          /\ packet.type = "head" => packet.true \in BOOLEAN
      BY <1>3, <2>4, ReadyMeans DEF Readable
    <3> QED BY <2>0, <2>1, <3>1, V3Reports
  <2>5. CASE v = 4
    <3>1. CASE packet.type = "status"
      <4>1. Elan!ProcessPacketStatusV4(packet, right) /\ packet.down \in SUBSET Elan!Finger
        BY <1>3, <2>5, <3>1, ReadyMeans DEF Readable
      <4> QED BY <2>0, <2>1, <4>1, V4Status
    <3>2. CASE packet.type = "head"
      <4>1. Elan!ProcessPacketHeadV4(packet, right)
        BY <1>3, <2>5, <3>2, ReadyMeans
      <4> QED BY <2>0, <2>1, <4>1, V4Head
    <3>3. CASE packet.type = "motion"
      <4>1. Elan!ProcessPacketMotionV4(packet, right)
        BY <1>3, <2>5, <3>3, ReadyMeans
      <4> QED BY <2>0, <2>1, <4>1, V4Motion
    <3> QED BY <1>3, <2>5, <3>1, <3>2, <3>3 DEF Readable
  <2> QED BY <2>2, <2>3, <2>4, <2>5
<1> QED BY <1>1, <1>2, <1>3

-----------------------------------------------------------------------------
(***************************************************************************)
(* Elan: The inductive invariant                                           *)
(***************************************************************************)

(* The driver took the pad for the version that it is; the pad owes        *)
(* packets only for fingers that are down.                                 *)
Fit ==
    /\ pad.owed \subseteq pad.down
    /\ drv.running => Elan!HwVersion(pad.is.fw) = pad.is.protocol
    /\ pad.is.protocol < 4 /\ pad.owed # {} => pad.is.protocol = 3 /\ pad.down = {0, 1}

(* Only a driver that runs is published, or has a client. *)
Served == (drv.published => drv.running) /\ (client.open => drv.running)

(* If everything so far was handled: what is due was shown, and what is    *)
(* owed is waited for.                                                     *)
Shown ==
    whole =>
        /\ pad.owed = {} => client.contacts = pad.down /\ client.exact = pad.down
        /\ pad.is.protocol = 4 =>
              /\ drv.touch = pad.down /\ pad.down \subseteq exact \cup pad.owed
              /\ pad.owed # {} => /\ drv.held = Elan!Cardinality(pad.down)
                                  /\ drv.heads = Elan!Cardinality(pad.down \ pad.owed)
        /\ pad.is.protocol # 4 /\ pad.owed # {} => drv.first

(* The inductive invariant *)
ElanInv == Elan!TypeOK /\ Fit /\ Served /\ ButtonsOf(client, drv.last, stick) /\ Shown

(* q is a state of the pad with these fields. *)
PadIs(q, is, on, absolute, down, owed) ==
    /\ q \in Elan!Pad /\ q.is = is /\ (q.on <=> on) /\ (q.absolute <=> absolute)
    /\ q.down = down /\ q.owed = owed

(* The fingers the pad owes are changed, ... *)
LEMMA PadOwedSet ==
    ASSUME NEW p \in Elan!Pad, NEW o \in SUBSET Elan!Finger
    PROVE  PadIs([p EXCEPT !.owed = o], p.is, p.on, p.absolute, p.down, o)
BY DEF PadIs, Elan!Pad

(* ... those that are down as well, ... *)
LEMMA PadDownSet ==
    ASSUME NEW p \in Elan!Pad, NEW d \in SUBSET Elan!Finger, NEW o \in SUBSET Elan!Finger
    PROVE  PadIs([p EXCEPT !.down = d, !.owed = o], p.is, p.on, p.absolute, d, o)
BY DEF PadIs, Elan!Pad

(* ... the pad is switched, ... *)
LEMMA PadOffSet ==
    ASSUME NEW p \in Elan!Pad, NEW on \in BOOLEAN, NEW o \in SUBSET Elan!Finger
    PROVE  PadIs([p EXCEPT !.on = on, !.owed = o], p.is, on, p.absolute, p.down, o)
BY DEF PadIs, Elan!Pad

(* ... or set up. *)
LEMMA PadSet ==
    ASSUME NEW p \in Elan!Pad, NEW on \in BOOLEAN, NEW a \in BOOLEAN,
           NEW d \in SUBSET Elan!Finger, NEW o \in SUBSET Elan!Finger
    PROVE  PadIs([p EXCEPT !.on = on, !.absolute = a, !.down = d, !.owed = o], p.is, on, a, d, o)
BY DEF PadIs, Elan!Pad

(* What is known of a state *)
Known ==
    /\ Sound /\ stick \in SUBSET Elan!Button /\ ignoreall \in BOOLEAN /\ aligned \in BOOLEAN
    /\ whole \in BOOLEAN /\ exact \in SUBSET Elan!Finger
    /\ pad \in Elan!Pad /\ pad.is \in Pads /\ {pad.down, pad.owed} \subseteq SUBSET Elan!Finger
    /\ pad.is.protocol \in 1 .. 4 /\ pad.is.fingers \in 0 .. 5
    /\ pad.is.buttons \in SUBSET Elan!Button
    /\ Elan!Fingers \subseteq Elan!Finger
    /\ \A b \in Elan!Pressed : b \in SUBSET Elan!Button

(* It follows from the invariant. *)
LEMMA StateKnown ==
    ASSUME Elan!Assumptions, ElanInv
    PROVE  Known
<1>1. pad \in Elan!Pad /\ pad.is \in Pads /\ {pad.down, pad.owed} \subseteq SUBSET Elan!Finger
  BY DEF ElanInv, Elan!TypeOK, Elan!Pad
<1>2. pad.is.protocol \in 1 .. 4 /\ pad.is.fingers \in 0 .. 5 /\ pad.is.buttons \in SUBSET Elan!Button
  BY <1>1 DEF Elan!Assumptions
<1>3. Elan!Fingers \subseteq Elan!Finger
  BY <1>2 DEF Elan!Fingers, Elan!Finger
<1>4. \A b \in Elan!Pressed : b \in SUBSET Elan!Button
  BY <1>2 DEF Elan!Pressed
<1>5. Sound /\ stick \in SUBSET Elan!Button /\ ignoreall \in BOOLEAN /\ aligned \in BOOLEAN
      /\ whole \in BOOLEAN /\ exact \in SUBSET Elan!Finger
  BY DEF ElanInv, Elan!TypeOK, Sound
<1> QED BY <1>1, <1>2, <1>3, <1>4, <1>5 DEF Known

(* What is read off the packet boundaries looks like a packet. *)
LEMMA GarbageReadable ==
    ASSUME Known, NEW v \in 1 .. 4, Elan!HwVersion(pad.is.fw) = v, NEW g \in Elan!Garbage
    PROVE  Readable(g, v)
<1>1. CASE g = Elan!NoPacket
  BY <1>1 DEF Elan!NoPacket, Readable
<1>2. CASE v = 4 /\ g \in [type : {"status"}, down : SUBSET Elan!Fingers, buttons : Elan!Pressed]
  BY <1>2 DEF Readable, Known
<1>3. CASE v = 4 /\ g \in [type : {"head", "motion"}, ids : {{}, {0}}, buttons : Elan!Pressed]
  BY <1>3 DEF Readable, Known
<1>4. CASE v # 4 /\ g \in [type : {"head", "tail"}, count : 0 .. pad.is.fingers,
                           true : {FALSE}, buttons : Elan!Pressed]
  <2>1. /\ g.type \in {"head", "tail"} /\ g.count \in 0 .. pad.is.fingers
        /\ g.true = FALSE /\ g.buttons \in Elan!Pressed
    BY <1>4
  <2>2. g.buttons \in SUBSET Elan!Button /\ g.true \in BOOLEAN
    BY <2>1 DEF Known
  <2>3. v \in 1 .. 3
    BY <1>4
  <2>4. pad.is.fingers \in 0 .. 5
    BY DEF Known
  <2>5. g.count \in 0 .. 5
    BY <2>1, <2>4
  <2> QED BY <2>1, <2>2, <2>3, <2>5, Zenon DEF Readable
<1> QED BY <1>1, <1>2, <1>3, <1>4 DEF Elan!Garbage

(* Send, but for what the history variable makes of it *)
Arrives(packet, fate, right, kept) ==
    /\ aligned' \in BOOLEAN /\ ignoreall' = ignoreall
    /\ CASE Elan!Handled(fate) -> Elan!PacketReady(packet, right) /\ exact' = right
         [] ~ Elan!Handled(fate) /\ drv.running /\ fate = "arrives" /\ ~ Elan!Framed ->
              \E garbage \in Elan!Garbage : Elan!PacketReady(garbage, {}) /\ exact' = {}
         [] OTHER -> drv' = drv /\ client' = client /\ quiet' = quiet /\ stick' = stick
                     /\ exact' = kept

(* A packet arrives, arrives as garbage, or does not arrive. *)
LEMMA SendArrives ==
    ASSUME Known, NEW packet, NEW fate, NEW right, NEW kept, NEW begins, NEW ends,
           Elan!Send(packet, fate, right, kept, begins, ends)
    PROVE  Arrives(packet, fate, right, kept) /\ whole' \in BOOLEAN
<1>1. aligned \in BOOLEAN
  BY DEF Known
<1>2. aligned' \in BOOLEAN /\ ignoreall' = ignoreall /\ whole' \in BOOLEAN
  BY <1>1 DEF Elan!Send
<1> QED BY <1>2 DEF Elan!Send, Arrives

(* What Send promises of a packet *)
Sent(packet, fate, right) ==
    /\ SafeReady
    /\ aligned' \in BOOLEAN /\ ignoreall' = ignoreall /\ exact' \in SUBSET Elan!Finger
    /\ Elan!Handled(fate) => /\ drv.running /\ ~ ignoreall
                             /\ Elan!PacketReady(packet, right) /\ exact' = right

(* It keeps what must be kept, and is handled as it was sent if it is      *)
(* handled.                                                                *)
LEMMA Sends ==
    ASSUME Known, Fit, NEW packet, NEW fate, NEW right, NEW kept,
           right \subseteq Elan!Finger, kept \subseteq Elan!Finger,
           packet.type \notin {"none", "trackpoint"},
           Readable(packet, pad.is.protocol),
           Arrives(packet, fate, right, kept)
    PROVE  Sent(packet, fate, right)
<1> USE DEF Sent
<1>1. aligned' \in BOOLEAN /\ ignoreall' = ignoreall
  BY DEF Arrives
<1>4. CASE Elan!Handled(fate)
  <2>1. Elan!PacketReady(packet, right) /\ exact' = right
    BY <1>4 DEF Arrives
  <2>2. drv.running /\ ~ ignoreall
    BY <1>4 DEF Elan!Handled
  <2>3. SafeReady
    BY <2>1, <2>2, PacketSafe DEF Known, Fit
  <2> QED BY <1>1, <2>1, <2>2, <2>3
<1>5. CASE ~ Elan!Handled(fate) /\ drv.running /\ fate = "arrives" /\ ~ Elan!Framed
  <2>1. PICK g \in Elan!Garbage : Elan!PacketReady(g, {}) /\ exact' = {}
    BY <1>5 DEF Arrives
  <2>2. Elan!HwVersion(pad.is.fw) = pad.is.protocol /\ pad.is.protocol \in 1 .. 4
    BY <1>5 DEF Known, Fit
  <2>3. Readable(g, pad.is.protocol)
    BY <2>2, GarbageReadable
  <2>4. SafeReady
    BY <2>1, <2>2, <2>3, PacketSafe DEF Known
  <2> QED BY <1>1, <1>5, <2>1, <2>4
<1>6. CASE /\ ~ Elan!Handled(fate)
           /\ ~ (~ Elan!Handled(fate) /\ drv.running /\ fate = "arrives" /\ ~ Elan!Framed)
  <2>1. drv' = drv /\ client' = client /\ quiet' = quiet /\ stick' = stick /\ exact' = kept
    BY <1>6 DEF Arrives
  <2>2. SafeReady
    BY <2>1 DEF SafeReady, Known, Sound
  <2> QED BY <1>1, <1>6, <2>1, <2>2
<1> QED BY <1>4, <1>5, <1>6

-----------------------------------------------------------------------------
(***************************************************************************)
(* Elan: The pad sends: versions 1 to 3                                    *)
(***************************************************************************)

(* A packet of the pad that left it with the fingers down and owed *)
LEMMA AfterPacket ==
    ASSUME Known, Fit, Served, SafeReady, aligned' \in BOOLEAN, ignoreall' = ignoreall,
           whole' \in BOOLEAN, exact' \in SUBSET Elan!Finger,
           NEW down \in SUBSET Elan!Finger, NEW owed \in SUBSET Elan!Finger,
           PadIs(pad', pad.is, pad.on, pad.absolute, down, owed),
           owed \subseteq down,
           pad.is.protocol < 4 /\ owed # {} => pad.is.protocol = 3 /\ down = {0, 1},
           Shown'
    PROVE  ElanInv'
<1>1. Elan!TypeOK'
  <2>1. pad' \in Elan!Pad /\ drv' \in Elan!Driver /\ client' \in Elan!Client
    BY DEF PadIs, SafeReady
  <2>2. {aligned', ignoreall', quiet', whole'} \subseteq BOOLEAN
    BY DEF SafeReady, Known
  <2>3. exact' \subseteq Elan!Finger /\ stick' \subseteq Elan!Button
    BY DEF SafeReady
  <2> QED BY <2>1, <2>2, <2>3, Zenon DEF Elan!TypeOK
<1>2. Fit'
  BY DEF Fit, PadIs, SafeReady
<1>3. Served'
  BY DEF Served, SafeReady
<1> QED BY <1>1, <1>2, <1>3 DEF ElanInv, SafeReady

(* One lemma for each action, as far as they differ: the one packet, or    *)
(* the first of two, of the versions 1 to 3, ...                           *)
LEMMA PadReportsKeeps ==
    ASSUME Elan!Assumptions, ElanInv, NEW count \in 0 .. pad.is.fingers, NEW buttons \in Elan!Pressed,
           NEW fate, Elan!PadReports(count, buttons, fate)
    PROVE  ElanInv'
<1> DEFINE packet == [type |-> "head", count |-> count, true |-> TRUE, buttons |-> buttons]
           two == pad.is.protocol = 3 /\ count = 2
           down == 0 .. count - 1
           owed == IF two THEN {1} ELSE {}
<1>0. Known /\ Fit /\ Served
  BY StateKnown DEF ElanInv
<1>1. count \in 0 .. 5 /\ buttons \in SUBSET Elan!Button /\ pad.is.protocol \in 1 .. 3
  BY <1>0 DEF Known, Elan!PadReports
<1>2. Elan!Send(packet, fate, down, {}, TRUE, ~ two)
  BY DEF Elan!PadReports
<1>3. pad' = [pad EXCEPT !.down = down, !.owed = owed]
  BY DEF Elan!PadReports
<1>4. /\ packet.type = "head" /\ packet.count = count /\ packet.true = TRUE
      /\ packet.buttons = buttons
  OBVIOUS
<1>5. down \in SUBSET Elan!Finger /\ owed \in SUBSET Elan!Finger
  BY <1>1, FirstCount DEF Elan!Finger
<1>6. /\ two => down = {0, 1} /\ owed = {1}
      /\ ~ two => owed = {}
  BY <1>1
<1>61. two \in BOOLEAN
  OBVIOUS
<1>7. Readable(packet, pad.is.protocol)
  BY <1>1, <1>4 DEF Readable
<1>8. packet.type \notin {"none", "trackpoint"}
  OBVIOUS
<1> HIDE DEF packet, two, down, owed
<1>9. PadIs(pad', pad.is, pad.on, pad.absolute, down, owed)
  BY <1>0, <1>3, <1>5, PadDownSet DEF Known
<1>10. /\ SafeReady /\ aligned' \in BOOLEAN /\ ignoreall' = ignoreall /\ whole' \in BOOLEAN
       /\ exact' \in SUBSET Elan!Finger
       /\ whole' => /\ drv.running /\ ~ ignoreall /\ Elan!PacketReady(packet, down)
                    /\ ~ two => client.open /\ ~ quiet /\ drv'.skipped = drv.skipped
  <2>1. {} \subseteq Elan!Finger /\ down \subseteq Elan!Finger
    BY <1>5
  <2>2. /\ Arrives(packet, fate, down, {}) /\ whole' \in BOOLEAN
        /\ whole' => /\ Elan!Handled(fate)
                     /\ ~ two => client.open /\ ~ quiet /\ drv'.skipped = drv.skipped
    BY <1>0, <1>2, SendArrives DEF Elan!Send
  <2>3. Sent(packet, fate, down)
    BY <1>0, <1>7, <1>8, <2>1, <2>2, Sends
  <2> QED BY <2>2, <2>3 DEF Sent
<1>11. Shown'
  <2> SUFFICES ASSUME whole'
               PROVE  /\ ~ two => client'.contacts = down /\ client'.exact = down
                      /\ two => drv'.first
    BY <1>1, <1>6, <1>9 DEF Shown, PadIs
  <2>1. Elan!HwVersion(pad.is.fw) = pad.is.protocol
    BY <1>0, <1>10 DEF Fit
  <2>2. /\ pad.is.protocol = 1 => Elan!ReportAbsoluteV1(packet, down)
        /\ pad.is.protocol = 2 => Elan!ReportAbsoluteV2(packet, down)
        /\ pad.is.protocol = 3 => Elan!ReportAbsoluteV3(packet, down)
    <3>1. pad.is.protocol \in 1 .. 4
      BY <1>1
    <3> QED BY <1>7, <1>8, <1>10, <2>1, <3>1, ReadyMeans
  <2>3. 0 .. packet.count - 1 = down /\ packet.count \in 0 .. 5
        /\ packet.buttons \in SUBSET Elan!Button /\ down \subseteq Elan!Finger /\ Sound
    BY <1>0, <1>1, <1>4, <1>5 DEF down, Known
  <2>4. CASE pad.is.protocol = 1
    <3>1. drv'.skipped = drv.skipped => Seen(down, down)
      BY <2>2, <2>3, <2>4, V1Reports
    <3>2. ~ two
      BY <2>4 DEF two
    <3> QED BY <1>10, <3>1, <3>2 DEF Seen
  <2>5. CASE pad.is.protocol = 2
    <3>1. Seen(down, down)
      BY <2>2, <2>3, <2>5, V2Reports
    <3>2. ~ two
      BY <2>5 DEF two
    <3> QED BY <1>10, <3>1, <3>2 DEF Seen
  <2>6. CASE pad.is.protocol = 3
    <3>1. packet.type = "head" => packet.true \in BOOLEAN
      BY <1>4
    <3>2. IF packet.type = "head" /\ packet.count = 2
              THEN drv'.first <=> packet.true
              ELSE Seen(0 .. packet.count - 1,
                        IF packet.count = 2 /\ ~ drv.first THEN down \ {0} ELSE down)
      BY <2>2, <2>3, <2>6, <3>1, V3Reports
    <3>3. CASE two
      BY <1>4, <3>2, <3>3 DEF two
    <3>4. CASE ~ two
      <4>1. packet.count # 2
        BY <1>4, <2>6, <3>4 DEF two
      <4>2. Seen(down, down)
        BY <2>3, <3>2, <4>1
      <4> QED BY <1>10, <3>4, <4>2 DEF Seen
    <3> QED BY <3>3, <3>4
  <2> QED BY <1>1, <2>4, <2>5, <2>6
<1>12. owed \subseteq down /\ (owed # {} => pad.is.protocol = 3 /\ down = {0, 1})
  BY <1>6 DEF two
<1> QED BY <1>0, <1>5, <1>9, <1>10, <1>11, <1>12, AfterPacket

(* ... the second of two, ... *)
LEMMA PadReportsTailKeeps ==
    ASSUME Elan!Assumptions, ElanInv, NEW buttons \in Elan!Pressed,
           NEW fate, Elan!PadReportsTail(buttons, fate)
    PROVE  ElanInv'
<1> DEFINE packet == [type |-> "tail", count |-> 2, buttons |-> buttons]
<1>0. Known /\ Fit /\ Served /\ Shown
  BY StateKnown DEF ElanInv
<1>1. /\ buttons \in SUBSET Elan!Button /\ pad.is.protocol \in 1 .. 3 /\ pad.owed # {}
      /\ pad.is.protocol = 3 /\ pad.down = {0, 1}
  BY <1>0 DEF Known, Fit, Elan!PadReportsTail
<1>2. Elan!Send(packet, fate, {0, 1}, {}, FALSE, TRUE)
  BY DEF Elan!PadReportsTail
<1>3. pad' = [pad EXCEPT !.owed = {}]
  BY DEF Elan!PadReportsTail
<1>4. packet.type = "tail" /\ packet.count = 2 /\ packet.buttons = buttons
  OBVIOUS
<1>5. {} \in SUBSET Elan!Finger /\ {0, 1} \subseteq Elan!Finger /\ pad.down \in SUBSET Elan!Finger
  BY <1>1 DEF Elan!Finger
<1>7. Readable(packet, pad.is.protocol)
  BY <1>1, <1>4 DEF Readable
<1>8. packet.type \notin {"none", "trackpoint"}
  OBVIOUS
<1> HIDE DEF packet
<1>9. PadIs(pad', pad.is, pad.on, pad.absolute, pad.down, {})
  BY <1>0, <1>3, <1>5, PadOwedSet DEF Known
<1>10. /\ SafeReady /\ aligned' \in BOOLEAN /\ ignoreall' = ignoreall /\ whole' \in BOOLEAN
       /\ exact' \in SUBSET Elan!Finger
       /\ whole' => /\ whole /\ drv.running /\ ~ ignoreall /\ Elan!PacketReady(packet, {0, 1})
                    /\ client.open /\ ~ quiet
  <2>1. {} \subseteq Elan!Finger
    OBVIOUS
  <2>2. /\ Arrives(packet, fate, {0, 1}, {}) /\ whole' \in BOOLEAN
        /\ whole' => Elan!Handled(fate) /\ whole /\ client.open /\ ~ quiet
    BY <1>0, <1>2, SendArrives DEF Elan!Send
  <2>3. Sent(packet, fate, {0, 1})
    BY <1>0, <1>5, <1>7, <1>8, <2>1, <2>2, Sends
  <2> QED BY <2>2, <2>3 DEF Sent
<1>11. Shown'
  <2> SUFFICES ASSUME whole'
               PROVE  client'.contacts = {0, 1} /\ client'.exact = {0, 1}
    BY <1>1, <1>9 DEF Shown, PadIs
  <2>1. Elan!HwVersion(pad.is.fw) = pad.is.protocol
    BY <1>0, <1>10 DEF Fit
  <2>2. Elan!ReportAbsoluteV3(packet, {0, 1})
    <3>1. 3 \in 1 .. 4
      OBVIOUS
    <3> QED BY <1>1, <1>7, <1>8, <1>10, <2>1, <3>1, ReadyMeans
  <2>3. 0 .. packet.count - 1 = {0, 1} /\ packet.count \in 0 .. 5
        /\ packet.buttons \in SUBSET Elan!Button /\ Sound
    BY <1>0, <1>1, <1>4 DEF Known
  <2>4. packet.type # "head"
    BY <1>4
  <2>5. Seen(0 .. packet.count - 1,
             IF packet.count = 2 /\ ~ drv.first THEN {0, 1} \ {0} ELSE {0, 1})
    BY <1>5, <2>2, <2>3, <2>4, V3Reports
  <2>6. drv.first
    BY <1>0, <1>1, <1>10 DEF Shown
  <2> QED BY <1>10, <2>3, <2>5, <2>6 DEF Seen
<1>12. {} \subseteq pad.down
  OBVIOUS
<1> QED BY <1>0, <1>5, <1>9, <1>10, <1>11, <1>12, AfterPacket

-----------------------------------------------------------------------------
(***************************************************************************)
(* Elan: Version 4                                                         *)
(***************************************************************************)

(* A packet of version 4 goes to the routine of its type. *)
LEMMA HandledV4 ==
    ASSUME Known, Fit, pad.is.protocol = 4, NEW packet, NEW fate, NEW right,
           packet.type \notin {"none", "trackpoint"}, Readable(packet, 4),
           Sent(packet, fate, right), Elan!Handled(fate)
    PROVE  /\ packet.type = "status" => Elan!ProcessPacketStatusV4(packet, right)
           /\ packet.type = "head" => Elan!ProcessPacketHeadV4(packet, right)
           /\ packet.type = "motion" => Elan!ProcessPacketMotionV4(packet, right)
           /\ exact' = right
<1>1. drv.running /\ ~ ignoreall /\ Elan!PacketReady(packet, right) /\ exact' = right
  BY DEF Sent
<1>2. Elan!HwVersion(pad.is.fw) = 4 /\ 4 \in 1 .. 4
  BY <1>1 DEF Fit
<1> QED BY <1>1, <1>2, ReadyMeans

(* ... a status packet of version 4, ... *)
LEMMA PadSendsStatusKeeps ==
    ASSUME Elan!Assumptions, ElanInv, NEW down \in SUBSET Elan!Fingers, NEW buttons \in Elan!Pressed,
           NEW fate, Elan!PadSendsStatus(down, buttons, fate)
    PROVE  ElanInv'
<1> DEFINE packet == [type |-> "status", down |-> down, buttons |-> buttons]
           right == exact \cap down \cap pad.down
<1>0. Known /\ Fit /\ Served
  BY StateKnown DEF ElanInv
<1>1. down \in SUBSET Elan!Finger /\ buttons \in SUBSET Elan!Button /\ pad.is.protocol = 4
  BY <1>0 DEF Known, Elan!PadSendsStatus
<1>2. Elan!Send(packet, fate, right, right, TRUE, down = {})
  BY DEF Elan!PadSendsStatus
<1>3. pad' = [pad EXCEPT !.down = down, !.owed = down]
  BY DEF Elan!PadSendsStatus
<1>4. packet.type = "status" /\ packet.down = down /\ packet.buttons = buttons
  OBVIOUS
<1>5. right \subseteq Elan!Finger
  BY <1>1
<1>7. Readable(packet, 4)
  BY <1>1, <1>4 DEF Readable
<1>8. packet.type \notin {"none", "trackpoint"}
  OBVIOUS
<1> HIDE DEF packet, right
<1>9. PadIs(pad', pad.is, pad.on, pad.absolute, down, down)
  BY <1>0, <1>1, <1>3, PadDownSet DEF Known
<1>10. /\ Arrives(packet, fate, right, right) /\ whole' \in BOOLEAN
       /\ whole' => Elan!Handled(fate) /\ (down = {} => client.open /\ ~ quiet)
  BY <1>0, <1>2, SendArrives DEF Elan!Send
<1>11. Sent(packet, fate, right)
  BY <1>0, <1>1, <1>5, <1>7, <1>8, <1>10, Sends
<1>12. Shown'
  <2> SUFFICES ASSUME whole'
               PROVE  /\ down = {} => client'.contacts = {} /\ client'.exact = {}
                      /\ drv'.touch = down
                      /\ drv'.held = Elan!Cardinality(down)
                      /\ drv'.heads = Elan!Cardinality(down \ down)
    BY <1>1, <1>9 DEF Shown, PadIs
  <2>1. Elan!ProcessPacketStatusV4(packet, right)
    BY <1>0, <1>1, <1>4, <1>7, <1>8, <1>10, <1>11, HandledV4
  <2>2. packet.down \in SUBSET Elan!Finger /\ packet.buttons \in SUBSET Elan!Button /\ Sound
    BY <1>0, <1>1, <1>4 DEF Known
  <2>3. /\ drv'.touch = down /\ drv'.heads = 0 /\ drv'.held = Elan!Cardinality(down)
        /\ down = {} => Seen({}, right)
    BY <1>4, <1>5, <2>1, <2>2, V4Status
  <2>4. Elan!Cardinality(down \ down) = 0
    <3>1. down \ down = {}
      OBVIOUS
    <3>2. Cardinality({}) = 0
      BY FS_EmptySet
    <3> QED BY <3>1, <3>2, SameCardinality
  <2> QED BY <1>10, <2>3, <2>4 DEF Seen
<1> QED BY <1>0, <1>1, <1>9, <1>10, <1>11, <1>12, AfterPacket DEF Sent

(* One of the owed fingers less *)
Counted(D, O, f) ==
    /\ Elan!Cardinality(D \ (O \ {f})) = Elan!Cardinality(D \ O) + 1
    /\ Elan!Cardinality(D \ O) \in 0 .. 4
    /\ O = {f} => Elan!Cardinality(D) = Elan!Cardinality(D \ O) + 1
    /\ O # {f} => Elan!Cardinality(D) # Elan!Cardinality(D \ O) + 1

(* A head packet pays for one finger of those that are owed. *)
LEMMA OneLess ==
    ASSUME NEW D \in SUBSET Elan!Finger, NEW O \in SUBSET D, NEW f \in O
    PROVE  Counted(D, O, f)
<1> DEFINE S == D \ O
           T == D \ (O \ {f})
<1>1. /\ S \subseteq Elan!Finger /\ T \subseteq Elan!Finger /\ D \subseteq Elan!Finger
      /\ T = S \cup {f} /\ f \notin S /\ T \subseteq D
      /\ O = {f} => T = D
      /\ O # {f} => T # D
  OBVIOUS
<1> HIDE DEF S, T
<1>2. /\ IsFiniteSet(S) /\ IsFiniteSet(T) /\ IsFiniteSet(D)
      /\ Cardinality(S) \in 0 .. 5 /\ Cardinality(T) \in 0 .. 5 /\ Cardinality(D) \in 0 .. 5
  BY <1>1, FingerSets, SameCardinality
<1>3. Cardinality(T) = Cardinality(S) + 1
  BY <1>1, <1>2, FS_AddElement
<1>4. T # D => Cardinality(T) < Cardinality(D)
  BY <1>1, <1>2, FS_Subset
<1>5. /\ Cardinality(S) \in 0 .. 4
      /\ O = {f} => Cardinality(D) = Cardinality(S) + 1
      /\ O # {f} => Cardinality(D) # Cardinality(S) + 1
  BY <1>1, <1>2, <1>3, <1>4
<1> QED BY <1>3, <1>5, SameCardinality DEF S, T, Counted

(* ... a head packet, ... *)
LEMMA PadSendsHeadKeeps ==
    ASSUME Elan!Assumptions, ElanInv, NEW finger \in Elan!Fingers, NEW buttons \in Elan!Pressed,
           NEW fate, Elan!PadSendsHead(finger, buttons, fate)
    PROVE  ElanInv'
<1> DEFINE packet == [type |-> "head", ids |-> {finger}, buttons |-> buttons]
           right == exact \cup {finger}
           owed == pad.owed \ {finger}
<1>0. Known /\ Fit /\ Served /\ Shown
  BY StateKnown DEF ElanInv
<1>1. /\ finger \in Elan!Finger /\ buttons \in SUBSET Elan!Button /\ pad.is.protocol = 4
      /\ finger \in pad.owed /\ pad.owed \subseteq pad.down
      /\ pad.down \in SUBSET Elan!Finger /\ owed \in SUBSET Elan!Finger
      /\ exact \subseteq Elan!Finger
  BY <1>0 DEF Known, Fit, Elan!PadSendsHead
<1>2. Elan!Send(packet, fate, right, exact, FALSE, pad.owed = {finger})
  BY DEF Elan!PadSendsHead
<1>3. pad' = [pad EXCEPT !.owed = owed]
  BY DEF Elan!PadSendsHead
<1>4. packet.type = "head" /\ packet.ids # {} /\ packet.buttons = buttons
  OBVIOUS
<1>5. right \subseteq Elan!Finger
  BY <1>1
<1>7. Readable(packet, 4)
  BY <1>1, <1>4 DEF Readable
<1>8. packet.type \notin {"none", "trackpoint"}
  OBVIOUS
<1> HIDE DEF packet
<1>9. PadIs(pad', pad.is, pad.on, pad.absolute, pad.down, owed)
  BY <1>0, <1>1, <1>3, PadOwedSet DEF Known
<1>10. /\ Arrives(packet, fate, right, exact) /\ whole' \in BOOLEAN
       /\ whole' => /\ Elan!Handled(fate) /\ whole
                    /\ pad.owed = {finger} => client.open /\ ~ quiet
  BY <1>0, <1>2, SendArrives DEF Elan!Send
<1>11. Sent(packet, fate, right)
  BY <1>0, <1>1, <1>5, <1>7, <1>8, <1>10, Sends
<1>12. Shown'
  <2> SUFFICES ASSUME whole'
               PROVE  /\ owed = {} => client'.contacts = pad.down /\ client'.exact = pad.down
                      /\ drv'.touch = pad.down
                      /\ pad.down \subseteq exact' \cup owed
                      /\ owed # {} => /\ drv'.held = Elan!Cardinality(pad.down)
                                      /\ drv'.heads = Elan!Cardinality(pad.down \ owed)
    BY <1>1, <1>9 DEF Shown, PadIs
  <2>1. Elan!ProcessPacketHeadV4(packet, right) /\ exact' = right
    BY <1>0, <1>1, <1>4, <1>7, <1>8, <1>10, <1>11, HandledV4
  <2>2. packet.buttons \in SUBSET Elan!Button /\ Sound
    BY <1>0, <1>1, <1>4 DEF Known
  <2> DEFINE sent == Elan!Cardinality(pad.down \ pad.owed)
             all == Elan!Cardinality(pad.down)
             heads == IF drv.heads < 6 THEN drv.heads + 1 ELSE 6
             last == packet.ids # {} /\ heads = drv.held
  <2>3. /\ drv.touch = pad.down /\ pad.down \subseteq exact \cup pad.owed
        /\ drv.held = all /\ drv.heads = sent
    BY <1>0, <1>1, <1>10 DEF Shown
  <2>4. /\ drv'.touch = drv.touch /\ drv'.held = drv.held
        /\ drv'.heads = IF last THEN 0 ELSE heads
        /\ last => Seen(drv.touch, right)
    BY <1>5, <2>1, <2>2, V4Head
  <2>5. /\ Elan!Cardinality(pad.down \ owed) = sent + 1 /\ sent \in 0 .. 4
        /\ pad.owed = {finger} => all = sent + 1
        /\ pad.owed # {finger} => all # sent + 1
    <3>1. pad.owed \in SUBSET pad.down
      BY <1>1
    <3>2. Counted(pad.down, pad.owed, finger)
      BY <1>1, <3>1, OneLess
    <3> QED BY <3>2 DEF Counted
  <2> HIDE DEF sent, all
  <2>6. heads = sent + 1
    BY <2>3, <2>5
  <2>7. last <=> pad.owed = {finger}
    BY <1>4, <2>3, <2>5, <2>6
  <2>8. owed = {} <=> pad.owed = {finger}
    BY <1>1
  <2> HIDE DEF heads, last
  <2>9. pad.down \subseteq exact' \cup owed
    BY <2>1, <2>3
  <2>10. CASE last
    <3>1. owed = {} /\ pad.down \subseteq right
      BY <2>1, <2>7, <2>8, <2>9, <2>10
    <3>2. client'.contacts = pad.down /\ client'.exact = pad.down
      BY <1>10, <2>3, <2>4, <2>7, <2>10, <3>1 DEF Seen
    <3> QED BY <2>3, <2>4, <2>9, <3>1, <3>2
  <2>11. CASE ~ last
    BY <2>3, <2>4, <2>5, <2>6, <2>7, <2>8, <2>9, <2>11 DEF all
  <2> QED BY <2>10, <2>11
<1> QED BY <1>0, <1>1, <1>9, <1>10, <1>11, <1>12, AfterPacket DEF Sent

(* ... a motion packet, ... *)
LEMMA PadSendsMotionKeeps ==
    ASSUME Elan!Assumptions, ElanInv, NEW ids \in SUBSET Elan!Fingers, NEW buttons \in Elan!Pressed,
           NEW fate, Elan!PadSendsMotion(ids, buttons, fate)
    PROVE  ElanInv'
<1> DEFINE packet == [type |-> "motion", ids |-> ids, buttons |-> buttons]
<1>0. Known /\ Fit /\ Served /\ Shown
  BY StateKnown DEF ElanInv
<1>1. /\ buttons \in SUBSET Elan!Button /\ pad.is.protocol = 4 /\ pad.owed = {}
      /\ pad.down \in SUBSET Elan!Finger /\ {} \in SUBSET Elan!Finger
      /\ exact \subseteq Elan!Finger /\ exact \ ids \subseteq Elan!Finger
  BY <1>0 DEF Known, Elan!PadSendsMotion
<1>2. Elan!Send(packet, fate, exact, exact \ ids, FALSE, FALSE)
  BY DEF Elan!PadSendsMotion
<1>3. pad' = pad
  BY DEF Elan!PadSendsMotion
<1>4. packet.type = "motion" /\ packet.buttons = buttons
  OBVIOUS
<1>7. Readable(packet, 4)
  BY <1>1, <1>4 DEF Readable
<1>8. packet.type \notin {"none", "trackpoint"}
  OBVIOUS
<1> HIDE DEF packet
<1>9. PadIs(pad', pad.is, pad.on, pad.absolute, pad.down, {})
  BY <1>0, <1>1, <1>3 DEF Known, PadIs
<1>10. /\ Arrives(packet, fate, exact, exact \ ids) /\ whole' \in BOOLEAN
       /\ whole' => Elan!Handled(fate) /\ whole
  BY <1>0, <1>2, SendArrives DEF Elan!Send
<1>11. Sent(packet, fate, exact)
  BY <1>0, <1>1, <1>7, <1>8, <1>10, Sends
<1>12. Shown'
  <2> SUFFICES ASSUME whole'
               PROVE  /\ client'.contacts = pad.down /\ client'.exact = pad.down
                      /\ drv'.touch = pad.down
                      /\ pad.down \subseteq exact'
    BY <1>1, <1>9 DEF Shown, PadIs
  <2>1. Elan!ProcessPacketMotionV4(packet, exact) /\ exact' = exact
    BY <1>0, <1>1, <1>4, <1>7, <1>8, <1>10, <1>11, HandledV4
  <2>2. packet.buttons \in SUBSET Elan!Button /\ Sound
    BY <1>0, <1>1, <1>4 DEF Known
  <2>3. /\ drv'.touch = drv.touch
        /\ \/ client'.contacts = client.contacts /\ client'.exact = client.exact
           \/ client'.contacts = drv.touch /\ client'.exact = drv.touch \cap exact
    BY <1>1, <2>1, <2>2, V4Motion
  <2>4. /\ client.contacts = pad.down /\ client.exact = pad.down
        /\ drv.touch = pad.down /\ pad.down \subseteq exact
    BY <1>0, <1>1, <1>10 DEF Shown
  <2> QED BY <2>1, <2>3, <2>4
<1> QED BY <1>0, <1>1, <1>9, <1>10, <1>11, <1>12, AfterPacket DEF Sent

-----------------------------------------------------------------------------
(***************************************************************************)
(* Elan: The other steps                                                   *)
(***************************************************************************)

(* ... a packet of the trackpoint, ... *)
LEMMA StickSendsKeeps ==
    ASSUME Elan!Assumptions, ElanInv, NEW buttons \in SUBSET pad.is.buttons, Elan!StickSends(buttons)
    PROVE  ElanInv'
<1> DEFINE packet == [type |-> "trackpoint", buttons |-> buttons]
<1>0. Known /\ Fit /\ Served /\ Shown
  BY StateKnown DEF ElanInv
<1>1. /\ buttons \in SUBSET Elan!Button /\ drv.running
      /\ pad.down \in SUBSET Elan!Finger /\ pad.owed \in SUBSET Elan!Finger
      /\ pad' = pad /\ aligned' = aligned /\ ignoreall' = ignoreall /\ exact' = exact
      /\ whole' = whole
  BY <1>0 DEF Known, Elan!StickSends
<1>2. Elan!PacketReady(packet, exact)
  BY DEF Elan!StickSends
<1>3. packet.type = "trackpoint" /\ packet.buttons = buttons
  OBVIOUS
<1> HIDE DEF packet
<1>4. /\ SafeReady /\ drv' = drv /\ client'.contacts = client.contacts
      /\ client'.exact = client.exact
  <2>1. CASE ignoreall
    <3>1. drv' = drv /\ client' = client /\ quiet' = quiet /\ stick' = stick
      BY <1>2, <1>3, <2>1 DEF Elan!PacketReady
    <3> QED BY <1>0, <3>1 DEF SafeReady, Known, Sound
  <2>2. CASE ~ ignoreall
    <3>1. Elan!ReportTrackpoint(packet)
      BY <1>2, <1>3, <2>2 DEF Elan!PacketReady
    <3> QED BY <1>0, <1>1, <1>3, <3>1, TrackpointReported DEF Known
  <2> QED BY <2>1, <2>2
<1>5. Shown'
  BY <1>0, <1>1, <1>4 DEF Shown
<1>6. PadIs(pad', pad.is, pad.on, pad.absolute, pad.down, pad.owed)
  BY <1>0, <1>1 DEF Known, PadIs
<1>7. /\ aligned' \in BOOLEAN /\ whole' \in BOOLEAN /\ exact' \in SUBSET Elan!Finger
      /\ pad.owed \subseteq pad.down
      /\ pad.is.protocol < 4 /\ pad.owed # {} => pad.is.protocol = 3 /\ pad.down = {0, 1}
  BY <1>0, <1>1 DEF Known, Fit
<1> QED BY <1>0, <1>1, <1>4, <1>5, <1>6, <1>7, AfterPacket

(* ... a debounce packet, ... *)
LEMMA PadDebouncesKeeps ==
    ASSUME Elan!Assumptions, ElanInv, Elan!PadDebounces
    PROVE  ElanInv'
<1>1. /\ drv' = drv /\ client' = client /\ quiet' = quiet /\ stick' = stick
      /\ pad' = pad /\ aligned' = aligned /\ ignoreall' = ignoreall /\ exact' = exact
      /\ whole' = whole
  BY DEF Elan!PadDebounces, Elan!PacketReady, Elan!NoPacket
<1> QED BY <1>1 DEF ElanInv, Elan!TypeOK, Fit, Served, Shown, ButtonsOf

(* The steps that set pad and driver up again keep what the client has. *)
LEMMA AfterSetUp ==
    ASSUME Known, NEW set \in BOOLEAN, NEW early \in BOOLEAN, NEW down \in SUBSET Elan!Finger,
           Elan!SetUp(set, early, down), ignoreall' \in BOOLEAN,
           drv' \in Elan!Driver, drv'.running,
           Elan!HwVersion(pad.is.fw) = pad.is.protocol,
           client' = client, quiet' = quiet, stick' = stick,
           ButtonsOf(client, drv'.last, stick)
    PROVE  ElanInv'
<1> DEFINE owed == IF pad.is.protocol = 4 THEN down ELSE {}
<1>1. /\ pad' = [pad EXCEPT !.on = TRUE, !.absolute = set, !.down = down, !.owed = owed]
      /\ aligned' \in BOOLEAN /\ exact' = {} /\ whole' = FALSE
  BY DEF Elan!SetUp
<1>2. owed \in SUBSET Elan!Finger /\ owed \subseteq down /\ TRUE \in BOOLEAN
      /\ (owed # {} => pad.is.protocol = 4)
  OBVIOUS
<1> HIDE DEF owed
<1>3. PadIs(pad', pad.is, TRUE, set, down, owed)
  BY <1>1, <1>2, PadSet DEF Known
<1>4. Elan!TypeOK'
  <2>1. pad' \in Elan!Pad /\ drv' \in Elan!Driver /\ client' \in Elan!Client
    BY <1>3 DEF PadIs, Known, Sound
  <2>2. {aligned', ignoreall', quiet', whole'} \subseteq BOOLEAN
    BY <1>1 DEF Known, Sound
  <2>3. exact' \subseteq Elan!Finger /\ stick' \subseteq Elan!Button
    BY <1>1 DEF Known
  <2> QED BY <2>1, <2>2, <2>3, Zenon DEF Elan!TypeOK
<1>5. Fit'
  BY <1>2, <1>3 DEF Fit, PadIs
<1>6. Served' /\ Shown'
  BY <1>1 DEF Served, Shown
<1> QED BY <1>4, <1>5, <1>6 DEF ElanInv

(* The driver, as it is created *)
LEMMA NewDriverIs ==
    DriverIs(Elan!NewDriver, FALSE, FALSE, {}, 0, 0, FALSE, 0, {})
BY DEF DriverIs, Elan!NewDriver, Elan!Driver

(* ... the start, ... *)
LEMMA StartKeeps ==
    ASSUME Elan!Assumptions, ElanInv, NEW silent, NEW set \in BOOLEAN, NEW early \in BOOLEAN,
           Elan!Start(silent, set, early)
    PROVE  ElanInv'
<1> DEFINE n1 == [Elan!NewDriver EXCEPT !.running = TRUE]
<1>1. Known
  BY StateKnown
<1>2. /\ drv' = [n1 EXCEPT !.published = set]
      /\ Elan!SetUp(set, early, {}) /\ ignoreall' = FALSE
      /\ client' = client /\ quiet' = quiet /\ stick' = stick
      /\ ~ drv.running
  BY DEF Elan!Start
<1>3. DriverIs(n1, TRUE, FALSE, {}, 0, 0, FALSE, 0, {})
  BY NewDriverIs DEF DriverIs, Elan!NewDriver, Elan!Driver
<1>4. n1 \in Elan!Driver
  BY <1>3 DEF DriverIs
<1> HIDE DEF n1
<1>5. DriverIs(drv', n1.running, set, n1.touch, n1.held, n1.heads, n1.first, n1.skipped, n1.last)
  BY <1>2, <1>4, PublishedSet
<1>6. drv' \in Elan!Driver /\ drv'.running /\ drv'.last = {}
  BY <1>3, <1>5 DEF DriverIs
<1>7. Elan!HwVersion(pad.is.fw) = pad.is.protocol
  <2>1. Elan!HwVersion(pad.is.fw) # 0
    BY DEF Elan!Start, Elan!Probe
  <2> QED BY <1>1, <2>1 DEF Elan!Assumptions, Known
<1>8. ButtonsOf(client, drv'.last, stick)
  BY <1>2 DEF ElanInv, Served, ButtonsOf
<1>9. {} \in SUBSET Elan!Finger /\ ignoreall' \in BOOLEAN
  BY <1>2
<1> QED BY <1>1, <1>2, <1>6, <1>7, <1>8, <1>9, AfterSetUp

(* ... a wake or a reset, ... *)
LEMMA SetUpAgainKeeps ==
    ASSUME Elan!Assumptions, ElanInv, NEW set \in BOOLEAN, NEW early \in BOOLEAN,
           NEW down \in SUBSET Elan!Fingers,
           Elan!EnableDevice(set, early, down) \/ Elan!ResetTouchpad(set, early, down)
    PROVE  ElanInv'
<1> DEFINE published == set \/ drv.published
<1>1. Known
  BY StateKnown
<1>2. /\ drv' = [drv EXCEPT !.published = published]
      /\ Elan!SetUp(set, early, down) /\ ignoreall' \in BOOLEAN
      /\ client' = client /\ quiet' = quiet /\ stick' = stick
      /\ drv.running
  BY <1>1 DEF Elan!EnableDevice, Elan!ResetTouchpad, Known
<1>3. published \in BOOLEAN /\ drv \in Elan!Driver /\ down \in SUBSET Elan!Finger
  BY <1>1 DEF Known, Sound
<1> HIDE DEF published
<1>4. DriverIs(drv', drv.running, published, drv.touch, drv.held, drv.heads, drv.first,
               drv.skipped, drv.last)
  BY <1>2, <1>3, PublishedSet
<1>5. drv' \in Elan!Driver /\ drv'.running /\ drv'.last = drv.last
  BY <1>2, <1>4 DEF DriverIs
<1>6. Elan!HwVersion(pad.is.fw) = pad.is.protocol
  BY <1>2 DEF ElanInv, Fit
<1>7. ButtonsOf(client, drv'.last, stick)
  BY <1>5 DEF ElanInv
<1> QED BY <1>1, <1>2, <1>3, <1>5, <1>6, <1>7, AfterSetUp

(* ... the end, ... *)
LEMMA StopKeeps ==
    ASSUME Elan!Assumptions, ElanInv, Elan!Stop
    PROVE  ElanInv'
<1>1. Known /\ Fit
  BY StateKnown DEF ElanInv
<1>2. /\ pad' = [pad EXCEPT !.on = FALSE, !.owed = {}]
      /\ drv' = Elan!NewDriver /\ client' = Elan!NoClient /\ ignoreall' = FALSE
      /\ quiet' = FALSE /\ whole' = FALSE /\ exact' = {} /\ stick' = {} /\ aligned' = TRUE
  BY DEF Elan!Stop
<1>3. DriverIs(drv', FALSE, FALSE, {}, 0, 0, FALSE, 0, {})
  BY <1>2, NewDriverIs
<1>4. ClientIs(client', FALSE, {}, {}, {})
  BY <1>2 DEF ClientIs, Elan!NoClient, Elan!Client
<1>5. PadIs(pad', pad.is, FALSE, pad.absolute, pad.down, {})
  <2>1. {} \in SUBSET Elan!Finger /\ FALSE \in BOOLEAN
    OBVIOUS
  <2> QED BY <1>1, <1>2, <2>1, PadOffSet DEF Known
<1>6. Elan!TypeOK'
  <2>1. pad' \in Elan!Pad /\ drv' \in Elan!Driver /\ client' \in Elan!Client
    BY <1>3, <1>4, <1>5 DEF PadIs, DriverIs, ClientIs
  <2>2. {aligned', ignoreall', quiet', whole'} \subseteq BOOLEAN
    BY <1>2
  <2>3. exact' \subseteq Elan!Finger /\ stick' \subseteq Elan!Button
    BY <1>2
  <2> QED BY <2>1, <2>2, <2>3, Zenon DEF Elan!TypeOK
<1>7. Fit' /\ Served' /\ Shown' /\ ButtonsOf(client', drv'.last, stick')
  BY <1>2, <1>3, <1>4, <1>5 DEF Fit, Served, Shown, ButtonsOf, PadIs, DriverIs, ClientIs
<1> QED BY <1>6, <1>7 DEF ElanInv

(* ... a sleep, ... *)
LEMMA DisableDeviceKeeps ==
    ASSUME Elan!Assumptions, ElanInv, Elan!DisableDevice
    PROVE  ElanInv'
<1>1. Known /\ Fit /\ Served
  BY StateKnown DEF ElanInv
<1>2. /\ pad' = [pad EXCEPT !.on = FALSE, !.owed = {}] /\ whole' = FALSE
      /\ aligned' = aligned /\ drv' = drv /\ ignoreall' = ignoreall /\ quiet' = quiet
      /\ client' = client /\ exact' = exact /\ stick' = stick
  BY DEF Elan!DisableDevice
<1>3. PadIs(pad', pad.is, FALSE, pad.absolute, pad.down, {})
  <2>1. {} \in SUBSET Elan!Finger /\ FALSE \in BOOLEAN
    OBVIOUS
  <2> QED BY <1>1, <1>2, <2>1, PadOffSet DEF Known
<1>4. Elan!TypeOK'
  <2>1. pad' \in Elan!Pad /\ drv' \in Elan!Driver /\ client' \in Elan!Client
    BY <1>1, <1>2, <1>3 DEF PadIs, Known, Sound
  <2>2. {aligned', ignoreall', quiet', whole'} \subseteq BOOLEAN
    BY <1>1, <1>2 DEF Known, Sound
  <2>3. exact' \subseteq Elan!Finger /\ stick' \subseteq Elan!Button
    BY <1>1, <1>2 DEF Known
  <2> QED BY <2>1, <2>2, <2>3, Zenon DEF Elan!TypeOK
<1>5. Fit' /\ Served' /\ Shown'
  BY <1>1, <1>2, <1>3 DEF Fit, Served, Shown, PadIs
<1>6. ButtonsOf(client', drv'.last, stick')
  BY <1>2 DEF ElanInv
<1> QED BY <1>4, <1>5, <1>6 DEF ElanInv

(* ... being ignored, or quiet, ... *)
LEMMA FlagsKeep ==
    ASSUME ElanInv,
           (\E on \in BOOLEAN : Elan!IgnoreAll(on)) \/ Elan!KeyPressed \/ Elan!QuietEnds
    PROVE  ElanInv'
<1>1. /\ pad' = pad /\ aligned' = aligned /\ drv' = drv /\ client' = client
      /\ exact' = exact /\ whole' = whole /\ stick' = stick
      /\ ignoreall' \in BOOLEAN /\ quiet' \in BOOLEAN
  BY DEF ElanInv, Elan!TypeOK, Elan!IgnoreAll, Elan!KeyPressed, Elan!QuietEnds
<1>2. Elan!TypeOK'
  <2>1. {aligned', ignoreall', quiet', whole'} \subseteq BOOLEAN
    BY <1>1 DEF ElanInv, Elan!TypeOK
  <2> QED BY <1>1, <2>1 DEF ElanInv, Elan!TypeOK
<1> QED BY <1>1, <1>2 DEF ElanInv, Fit, Served, Shown, ButtonsOf

(* ... and VoodooInput's coming and going. *)
LEMMA ClientComesAndGoes ==
    ASSUME ElanInv, Elan!HandleOpen \/ Elan!HandleClose
    PROVE  ElanInv'
<1>1. /\ pad' = pad /\ aligned' = aligned /\ drv' = drv /\ ignoreall' = ignoreall
      /\ quiet' = quiet /\ exact' = exact /\ stick' = stick /\ whole' = FALSE
  BY DEF Elan!HandleOpen, Elan!HandleClose
<1>2. /\ client' \in Elan!Client /\ client'.buttons = {}
      /\ client'.open => drv.running
  <2>1. CASE Elan!HandleOpen
    <3>1. client' = [Elan!NoClient EXCEPT !.open = TRUE] /\ drv.running
      BY <2>1 DEF Elan!HandleOpen, ElanInv, Served
    <3> QED BY <3>1 DEF Elan!NoClient, Elan!Client
  <2>2. CASE Elan!HandleClose
    <3>1. client' = Elan!NoClient
      BY <2>2 DEF Elan!HandleClose
    <3> QED BY <3>1 DEF Elan!NoClient, Elan!Client
  <2> QED BY <2>1, <2>2
<1>3. Elan!TypeOK'
  <2>1. {aligned', ignoreall', quiet', whole'} \subseteq BOOLEAN
    BY <1>1 DEF ElanInv, Elan!TypeOK
  <2> QED BY <1>1, <1>2, <2>1 DEF ElanInv, Elan!TypeOK
<1> QED BY <1>1, <1>2, <1>3 DEF ElanInv, Fit, Served, Shown, ButtonsOf

(* The invariant holds at first. *)
LEMMA ElanInit ==
    ASSUME Elan!Assumptions, Elan!Init
    PROVE  ElanInv
<1>1. /\ pad.is \in Pads /\ pad.on = FALSE /\ pad.absolute = FALSE /\ pad.down = {} /\ pad.owed = {}
      /\ pad = [is |-> pad.is, on |-> pad.on, absolute |-> pad.absolute, down |-> pad.down,
                owed |-> pad.owed]
  BY DEF Elan!Init
<1>2. pad \in Elan!Pad
  <2>1. pad.on \in BOOLEAN /\ pad.absolute \in BOOLEAN
        /\ pad.down \in SUBSET Elan!Finger /\ pad.owed \in SUBSET Elan!Finger
    BY <1>1, Zenon
  <2> QED BY <1>1, <2>1 DEF Elan!Pad
<1>3. /\ drv = Elan!NewDriver /\ client = Elan!NoClient /\ aligned = TRUE /\ ignoreall = FALSE
      /\ quiet = FALSE /\ exact = {} /\ whole = FALSE /\ stick = {}
  BY DEF Elan!Init
<1>4. DriverIs(drv, FALSE, FALSE, {}, 0, 0, FALSE, 0, {})
  BY <1>3, NewDriverIs
<1>5. ClientIs(client, FALSE, {}, {}, {})
  BY <1>3 DEF ClientIs, Elan!NoClient, Elan!Client
<1>6. Elan!TypeOK
  <2>1. {aligned, ignoreall, quiet, whole} \subseteq BOOLEAN
    BY <1>3
  <2>2. exact \subseteq Elan!Finger /\ stick \subseteq Elan!Button
    BY <1>3
  <2> QED BY <1>2, <1>4, <1>5, <2>1, <2>2 DEF Elan!TypeOK, DriverIs, ClientIs
<1> QED BY <1>1, <1>3, <1>4, <1>5, <1>6
     DEF ElanInv, Fit, Served, Shown, ButtonsOf, DriverIs, ClientIs

(* Every step keeps it. *)
LEMMA ElanStep ==
    ASSUME Elan!Assumptions, ElanInv, [Elan!Next]_(Elan!vars)
    PROVE  ElanInv'
<1>1. CASE Elan!PadSends
  <2>1. PICK buttons \in Elan!Pressed, fate \in Elan!Fate :
           \/ \E count \in 0 .. pad.is.fingers : Elan!PadReports(count, buttons, fate)
           \/ Elan!PadReportsTail(buttons, fate)
           \/ \E down \in SUBSET Elan!Fingers : Elan!PadSendsStatus(down, buttons, fate)
           \/ \E finger \in Elan!Fingers : Elan!PadSendsHead(finger, buttons, fate)
           \/ \E ids \in SUBSET Elan!Fingers : Elan!PadSendsMotion(ids, buttons, fate)
    BY <1>1 DEF Elan!PadSends
  <2> QED BY <2>1, PadReportsKeeps, PadReportsTailKeeps, PadSendsStatusKeeps, PadSendsHeadKeeps,
             PadSendsMotionKeeps
<1>2. CASE \E buttons \in SUBSET pad.is.buttons : Elan!StickSends(buttons)
  BY <1>2, StickSendsKeeps
<1>3. CASE Elan!PadDebounces
  BY <1>3, PadDebouncesKeeps
<1>4. CASE \E set, early \in BOOLEAN :
              \E silent \in {{}} \cup {{q} : q \in Elan!Question} : Elan!Start(silent, set, early)
  BY <1>4, StartKeeps
<1>5. CASE \E set, early \in BOOLEAN : \E down \in SUBSET Elan!Fingers :
              Elan!EnableDevice(set, early, down) \/ Elan!ResetTouchpad(set, early, down)
  BY <1>5, SetUpAgainKeeps
<1>6. CASE Elan!Stop
  BY <1>6, StopKeeps
<1>7. CASE Elan!DisableDevice
  BY <1>7, DisableDeviceKeeps
<1>8. CASE (\E on \in BOOLEAN : Elan!IgnoreAll(on)) \/ Elan!KeyPressed \/ Elan!QuietEnds
  BY <1>8, FlagsKeep
<1>9. CASE Elan!HandleOpen \/ Elan!HandleClose
  BY <1>9, ClientComesAndGoes
<1>10. CASE UNCHANGED Elan!vars
  BY <1>10 DEF Elan!vars, ElanInv, Elan!TypeOK, Fit, Served, Shown, ButtonsOf
<1> QED BY <1>1, <1>2, <1>3, <1>4, <1>5, <1>6, <1>7, <1>8, <1>9, <1>10 DEF Elan!Next

(* The inductive invariant of the Elan driver holds in every state         *)
(* (packetReady, elantechSetProperties).                                   *)
THEOREM ElanInvariant == Spec => [](part = "elan" => ElanInv)
<1>1. Init => (part = "elan" => ElanInv)
  BY ElanInit, ElanAssumption DEF Init
<1>2. (part = "elan" => ElanInv) /\ [Next]_vars => (part = "elan" => ElanInv)'
  BY PartSteps, ElanStep, ElanAssumption
<1> QED BY <1>1, <1>2, PTL DEF Spec

(* For all pads of the four versions, once a report was handled to its     *)
(* last packet VoodooInput has the fingers that are on the pad, each at    *)
(* its place (the report routines, elantechSetProperties).                 *)
THEOREM ReportsAreShown == Spec => []ReportIsShown
<1>1. (part = "elan" => ElanInv) => ReportIsShown
  BY DEF ReportIsShown, ElanInv, Shown, Elan!ReportIsShown
<1> QED BY <1>1, ElanInvariant, PTL

(* VoodooInput holds no button that neither the pad's last event nor the   *)
(* trackpoint's last packet has down (sendTouchData).                      *)
THEOREM ButtonsNeverStick == Spec => []NoStuckButton
<1>1. (part = "elan" => ElanInv) => NoStuckButton
  BY DEF NoStuckButton, ElanInv, ButtonsOf, Elan!NoStuckButton
<1> QED BY <1>1, ElanInvariant, PTL

-----------------------------------------------------------------------------
(***************************************************************************)
(* Synaptics                                                               *)
(***************************************************************************)

(* The physical fingers D have the virtual fingers that touch, each one of its own. *)
Numbered(f, D) ==
    /\ f.touch = {f.index[i] : i \in D}
    /\ \A i, j \in D : f.index[i] = f.index[j] => i = j

(* The fingers T have types, and no two the same one unless that is the    *)
(* thumb's.                                                                *)
Distinct(f, T) ==
    /\ \A v \in T : f.type[v] # Synaptics!Undefined
    /\ \A u, v \in T : u # v => f.type[u] # f.type[v] \/ f.type[u] = Synaptics!Thumb

(* ... and the types that nobody has are free. *)
Typed(f) ==
    /\ Distinct(f, f.touch)
    /\ \A v \in f.touch : f.type[v] \notin f.free
    /\ \A t \in Synaptics!Index .. Synaptics!Little :
          t \in f.free \/ \E v \in f.touch : f.type[v] = t

(* Both *)
Fits(f, D) == f \in Synaptics!Driver /\ Numbered(f, D) /\ Typed(f)

(* g is a state of the driver with the counts and the trackpoint's button  *)
(* of f.                                                                   *)
SameCounts(f, g) ==
    /\ g \in Synaptics!Driver
    /\ g.agm = f.agm /\ g.count = f.count /\ g.last = f.last /\ (g.pass <=> f.pass)

(* ... and with these fingers *)
FingersAre(g, f, index, touch, type, free) ==
    SameCounts(f, g) /\ g.index = index /\ g.touch = touch /\ g.type = type /\ g.free = free

(* The fields of the driver have their types. *)
LEMMA DriverFields ==
    ASSUME NEW f \in Synaptics!Driver
    PROVE  /\ f.index \in [Synaptics!Finger -> Synaptics!Finger \cup {Synaptics!None}]
           /\ f.touch \subseteq Synaptics!Finger
           /\ f.type \in [Synaptics!Finger -> Synaptics!Type]
           /\ f.free \subseteq Synaptics!Type
           /\ f.agm \in 0 .. 5 /\ f.count \in 0 .. 5 /\ f.last \in 0 .. 5
BY DEF Synaptics!Driver, Synaptics!Count

(* Storing the physical fingers' links changes nothing else, ... *)
LEMMA SetIndex ==
    ASSUME NEW f \in Synaptics!Driver,
           NEW index \in [Synaptics!Finger -> Synaptics!Finger \cup {Synaptics!None}]
    PROVE  FingersAre([f EXCEPT !.index = index], f, index, f.touch, f.type, f.free)
BY DEF Synaptics!Driver, FingersAre, SameCounts

(* ... nor does storing which virtual fingers touch, ... *)
LEMMA SetTouch ==
    ASSUME NEW f \in Synaptics!Driver, NEW touch \in SUBSET Synaptics!Finger
    PROVE  FingersAre([f EXCEPT !.touch = touch], f, f.index, touch, f.type, f.free)
BY DEF Synaptics!Driver, FingersAre, SameCounts

(* ... nor their types, ... *)
LEMMA SetType ==
    ASSUME NEW f \in Synaptics!Driver, NEW type \in [Synaptics!Finger -> Synaptics!Type]
    PROVE  FingersAre([f EXCEPT !.type = type], f, f.index, f.touch, type, f.free)
BY DEF Synaptics!Driver, FingersAre, SameCounts

(* ... nor the free types, ... *)
LEMMA SetFree ==
    ASSUME NEW f \in Synaptics!Driver, NEW free \in SUBSET Synaptics!Type
    PROVE  FingersAre([f EXCEPT !.free = free], f, f.index, f.touch, f.type, free)
BY DEF Synaptics!Driver, FingersAre, SameCounts

(* ... nor both of the latter, ... *)
LEMMA SetTypes ==
    ASSUME NEW f \in Synaptics!Driver, NEW type \in [Synaptics!Finger -> Synaptics!Type],
           NEW free \in SUBSET Synaptics!Type
    PROVE  FingersAre([f EXCEPT !.type = type, !.free = free], f, f.index, f.touch, type, free)
<1> DEFINE a == [f EXCEPT !.type = type]
<1>1. FingersAre(a, f, f.index, f.touch, type, f.free)
  BY SetType
<1>2. [f EXCEPT !.type = type, !.free = free] = [a EXCEPT !.free = free]
  BY DEF Synaptics!Driver
<1> HIDE DEF a
<1>3. FingersAre([a EXCEPT !.free = free], a, a.index, a.touch, a.type, free)
  BY <1>1, SetFree DEF FingersAre, SameCounts
<1> QED BY <1>1, <1>2, <1>3 DEF FingersAre, SameCounts

(* ... nor both of the former. *)
LEMMA SetLinks ==
    ASSUME NEW f \in Synaptics!Driver,
           NEW index \in [Synaptics!Finger -> Synaptics!Finger \cup {Synaptics!None}],
           NEW touch \in SUBSET Synaptics!Finger
    PROVE  FingersAre([f EXCEPT !.index = index, !.touch = touch],
                      f, index, touch, f.type, f.free)
<1> DEFINE a == [f EXCEPT !.index = index]
<1>1. FingersAre(a, f, index, f.touch, f.type, f.free)
  BY SetIndex
<1>2. [f EXCEPT !.index = index, !.touch = touch] = [a EXCEPT !.touch = touch]
  BY DEF Synaptics!Driver
<1> HIDE DEF a
<1>3. FingersAre([a EXCEPT !.touch = touch], a, a.index, touch, a.type, a.free)
  BY <1>1, SetTouch DEF FingersAre, SameCounts
<1> QED BY <1>1, <1>2, <1>3 DEF FingersAre, SameCounts

(* A set of numbers up to a bound has a least one. *)
LEMMA LeastOf ==
    ASSUME NEW S, S \subseteq 0 .. 5, S # {}
    PROVE  Synaptics!Min(S) \in S /\ \A x \in S : Synaptics!Min(S) <= x
<1>1. \E x \in S : \A y \in S : x <= y
  <2>1. CASE 0 \in S
    BY <2>1
  <2>2. CASE 0 \notin S /\ 1 \in S
    BY <2>2
  <2>3. CASE 0 \notin S /\ 1 \notin S /\ 2 \in S
    BY <2>3
  <2>4. CASE 0 \notin S /\ 1 \notin S /\ 2 \notin S /\ 3 \in S
    BY <2>4
  <2>5. CASE 0 \notin S /\ 1 \notin S /\ 2 \notin S /\ 3 \notin S /\ 4 \in S
    BY <2>5
  <2>6. CASE 0 \notin S /\ 1 \notin S /\ 2 \notin S /\ 3 \notin S /\ 4 \notin S /\ 5 \in S
    BY <2>6
  <2>7. PICK s \in S : s \in 0 .. 5
    OBVIOUS
  <2> QED BY <2>1, <2>2, <2>3, <2>4, <2>5, <2>6, <2>7
<1> QED BY <1>1 DEF Synaptics!Min

(* assignFingerType changes the type of one finger, and takes it from the  *)
(* free ones if there is one among those that it looks at.                 *)
LEMMA TypeGiven ==
    ASSUME NEW f \in Synaptics!Driver, NEW v \in Synaptics!Finger
    PROVE  LET g == Synaptics!AssignFingerType(f, v)
               free == f.free \cap Synaptics!Index .. Synaptics!Little
           IN  /\ SameCounts(f, g) /\ g.index = f.index /\ g.touch = f.touch
               /\ free # {} => \E t \in free : /\ g.type = [f.type EXCEPT ![v] = t]
                                              /\ g.free = f.free \ {t}
<1> DEFINE free == f.free \cap Synaptics!Index .. Synaptics!Little
           t == Synaptics!FreeType(f)
           type == [f.type EXCEPT ![v] = t]
           rest == f.free \ ({t} \ {Synaptics!Undefined})
<1>1. f.type \in [Synaptics!Finger -> Synaptics!Type] /\ f.free \subseteq Synaptics!Type
  BY DriverFields
<1>2. (free # {} => t \in free) /\ (free = {} => t = Synaptics!Undefined)
  <2>1. free \subseteq 0 .. 5
    BY DEF Synaptics!Index, Synaptics!Little
  <2>2. t = IF free = {} THEN Synaptics!Undefined ELSE Synaptics!Min(free)
    BY DEF Synaptics!FreeType
  <2> HIDE DEF free, t
  <2> QED BY <2>1, <2>2, LeastOf
<1> HIDE DEF t
<1>3. t \in Synaptics!Type
  <2>1. Synaptics!Undefined \in Synaptics!Type
    BY DEF Synaptics!Undefined, Synaptics!Type, Synaptics!Little
  <2> QED BY <1>1, <1>2, <2>1
<1>4. type \in [Synaptics!Finger -> Synaptics!Type] /\ rest \in SUBSET Synaptics!Type
  BY <1>1, <1>3
<1>5. Synaptics!AssignFingerType(f, v) = [f EXCEPT !.type = type, !.free = rest]
  <2>1. Synaptics!AssignFingerType(f, v) = Synaptics!GiveType(f, v, t)
    BY DEF Synaptics!AssignFingerType, t
  <2>2. Synaptics!GiveType(f, v, t) = [f EXCEPT !.type = type, !.free = rest]
    BY DEF Synaptics!Driver, Synaptics!GiveType
  <2> QED BY <2>1, <2>2
<1>6. free # {} => rest = f.free \ {t}
  BY <1>2 DEF Synaptics!Index, Synaptics!Little, Synaptics!Undefined
<1> HIDE DEF type, rest
<1>7. FingersAre(Synaptics!AssignFingerType(f, v), f, f.index, f.touch, type, rest)
  BY <1>4, <1>5, SetTypes
<1> HIDE DEF free
<1>8. free # {} => \E u \in free : type = [f.type EXCEPT ![v] = u] /\ rest = f.free \ {u}
  BY <1>2, <1>6 DEF type
<1> QED BY <1>7, <1>8 DEF FingersAre, free

(* Three fingers leave a type to give to the fourth. *)
LEMMA TypeLeft ==
    ASSUME NEW f \in Synaptics!Driver, Typed(f), Cardinality(f.touch) < 4
    PROVE  f.free \cap Synaptics!Index .. Synaptics!Little # {}
<1> SUFFICES ASSUME f.free \cap Synaptics!Index .. Synaptics!Little = {} PROVE FALSE
  OBVIOUS
<1> DEFINE S == Synaptics!Index .. Synaptics!Little
           h == [t \in S |-> CHOOSE v \in f.touch : f.type[v] = t]
<1>1. \A t \in S : \E v \in f.touch : f.type[v] = t
  BY DEF Typed
<1>2. h \in [S -> f.touch] /\ \A t \in S : f.type[h[t]] = t
  BY <1>1
<1>3. IsFiniteSet(S) /\ Cardinality(S) = 4
  <2>1. S = 2 .. 5 /\ 2 \in Int /\ 5 \in Int
    BY DEF Synaptics!Index, Synaptics!Little
  <2>2. IsFiniteSet(2 .. 5) /\ Cardinality(2 .. 5) = IF 2 > 5 THEN 0 ELSE 5 - 2 + 1
    BY <2>1, FS_Interval, Zenon
  <2>3. Cardinality(2 .. 5) = 4
    BY <2>2
  <2> QED BY <2>1, <2>2, <2>3, Zenon
<1>4. IsFiniteSet(f.touch)
  <2>1. IsFiniteSet(0 .. 4)
    <3>1. 0 \in Int /\ 4 \in Int
      OBVIOUS
    <3> QED BY <3>1, FS_Interval, Zenon
  <2> QED BY <2>1, FS_Subset, DriverFields DEF Synaptics!Finger
<1> HIDE DEF S, h
<1>5. \E x, y \in S : x # y /\ h[x] = h[y]
  BY <1>2, <1>3, <1>4, FS_PigeonHole
<1> QED BY <1>2, <1>5

(* A further finger with a type of its own keeps the types apart. *)
LEMMA TypeTaken ==
    ASSUME NEW f \in Synaptics!Driver, Typed(f), NEW v \in Synaptics!Finger, v \notin f.touch,
           NEW t \in f.free \cap Synaptics!Index .. Synaptics!Little,
           NEW g \in Synaptics!Driver, g.touch = f.touch \cup {v},
           g.type = [f.type EXCEPT ![v] = t], g.free = f.free \ {t}
    PROVE  Typed(g)
<1>1. f.type \in [Synaptics!Finger -> Synaptics!Type] /\ f.touch \subseteq Synaptics!Finger
  BY DriverFields
<1>2. g.type[v] = t /\ \A u \in f.touch : g.type[u] = f.type[u]
  BY <1>1
<1>3. t # Synaptics!Undefined
  BY DEF Synaptics!Index, Synaptics!Little, Synaptics!Undefined
<1>4. Distinct(g, g.touch)
  BY <1>2, <1>3 DEF Typed, Distinct
<1>5. \A u \in g.touch : g.type[u] \notin g.free
  BY <1>2 DEF Typed
<1>6. \A s \in Synaptics!Index .. Synaptics!Little :
          s \in g.free \/ \E u \in g.touch : g.type[u] = s
  BY <1>2 DEF Typed
<1> QED BY <1>4, <1>5, <1>6 DEF Typed

(* A further finger with a virtual finger of its own is numbered. *)
LEMMA LinkTaken ==
    ASSUME NEW f \in Synaptics!Driver, NEW D \in SUBSET Synaptics!Finger, Numbered(f, D),
           NEW i \in Synaptics!Finger \ D, NEW v \in Synaptics!Finger \ f.touch,
           NEW g, g.index = [f.index EXCEPT ![i] = v], g.touch = f.touch \cup {v}
    PROVE  Numbered(g, D \cup {i})
<1>1. f.index \in [Synaptics!Finger -> Synaptics!Finger \cup {Synaptics!None}]
  BY DriverFields
<1>2. g.index[i] = v /\ \A j \in D : g.index[j] = f.index[j]
  BY <1>1
<1>3. f.touch = {f.index[j] : j \in D} /\ \A j, k \in D : f.index[j] = f.index[k] => j = k
  BY DEF Numbered
<1>4. g.touch = {g.index[j] : j \in D \cup {i}}
  BY <1>2, <1>3
<1>5. ASSUME NEW j \in D \cup {i}, NEW k \in D \cup {i}, g.index[j] = g.index[k]
      PROVE  j = k
  BY <1>2, <1>3, <1>5
<1> QED BY <1>4, <1>5 DEF Numbered

(* With less than four fingers, one does not touch. *)
LEMMA NotAllTouch ==
    ASSUME NEW S, S \subseteq Synaptics!Finger, Cardinality(S) < 4
    PROVE  S # Synaptics!Finger
<1>1. 0 \in Int /\ 4 \in Int
  OBVIOUS
<1>2. Cardinality(0 .. 4) = IF 0 > 4 THEN 0 ELSE 4 - 0 + 1
  BY <1>1, FS_Interval, Zenon
<1>3. Cardinality(0 .. 4) = 5
  BY <1>2
<1>4. Synaptics!Finger = 0 .. 4
  BY DEF Synaptics!Finger
<1> QED BY <1>3, <1>4

(* Physical finger i gets virtual finger v, which nobody has, and a type. *)
Linked(f, i, v) ==
    Synaptics!AssignFingerType([f EXCEPT !.index[i] = v, !.touch = @ \cup {v}], v)

(* What assignVirtualFinger stores before it looks for a type *)
LEMMA LinkIs ==
    ASSUME NEW f \in Synaptics!Driver, NEW i \in Synaptics!Finger, NEW v \in Synaptics!Finger
    PROVE  FingersAre([f EXCEPT !.index[i] = v, !.touch = @ \cup {v}], f,
                      [f.index EXCEPT ![i] = v], f.touch \cup {v}, f.type, f.free)
<1> DEFINE index == [f.index EXCEPT ![i] = v]
           touch == f.touch \cup {v}
<1>1. [f EXCEPT !.index[i] = v, !.touch = @ \cup {v}]
        = [f EXCEPT !.index = index, !.touch = touch]
  BY DEF Synaptics!Driver
<1>2. /\ index \in [Synaptics!Finger -> Synaptics!Finger \cup {Synaptics!None}]
      /\ touch \in SUBSET Synaptics!Finger
  BY DriverFields
<1>3. [f EXCEPT !.index[i] = v, !.touch = @ \cup {v}].index = [f.index EXCEPT ![i] = v]
  BY DEF Synaptics!Driver
<1> HIDE DEF index, touch
<1>4. FingersAre([f EXCEPT !.index = index, !.touch = touch], f, index, touch, f.type, f.free)
  BY <1>2, SetLinks
<1> QED BY <1>1, <1>4 DEF index, touch

(* With that link and a type, the new finger is one more of those that are *)
(* numbered.                                                               *)
LEMMA LinkedFits ==
    ASSUME NEW f, NEW D \in SUBSET Synaptics!Finger, Fits(f, D), Cardinality(f.touch) < 4,
           NEW i \in Synaptics!Finger \ D, NEW v \in Synaptics!Finger \ f.touch
    PROVE  /\ Fits(Linked(f, i, v), D \cup {i}) /\ SameCounts(f, Linked(f, i, v))
           /\ Linked(f, i, v).touch = f.touch \cup {v}
<1> DEFINE a == [f EXCEPT !.index[i] = v, !.touch = @ \cup {v}]
           g == Linked(f, i, v)
<1>1. f \in Synaptics!Driver /\ Numbered(f, D) /\ Typed(f)
  BY DEF Fits
<1>2. FingersAre(a, f, [f.index EXCEPT ![i] = v], f.touch \cup {v}, f.type, f.free)
  BY <1>1, LinkIs
<1>3. g = Synaptics!AssignFingerType(a, v)
  BY DEF Linked
<1> HIDE DEF a, g
<1>4. a \in Synaptics!Driver /\ a.free = f.free /\ a.type = f.type
  BY <1>2 DEF FingersAre, SameCounts
<1>5. a.free \cap Synaptics!Index .. Synaptics!Little # {}
  BY <1>1, <1>4, TypeLeft
<1>6. /\ SameCounts(a, g) /\ g.index = a.index /\ g.touch = a.touch
      /\ \E t \in a.free \cap Synaptics!Index .. Synaptics!Little :
            g.type = [a.type EXCEPT ![v] = t] /\ g.free = a.free \ {t}
  BY <1>3, <1>4, <1>5, TypeGiven
<1>7. PICK t \in a.free \cap Synaptics!Index .. Synaptics!Little :
            g.type = [a.type EXCEPT ![v] = t] /\ g.free = a.free \ {t}
  BY <1>6
<1>8. /\ t \in f.free \cap Synaptics!Index .. Synaptics!Little
      /\ g.type = [f.type EXCEPT ![v] = t] /\ g.free = f.free \ {t}
  BY <1>4, <1>7
<1>9. /\ g \in Synaptics!Driver /\ SameCounts(f, g)
      /\ g.index = [f.index EXCEPT ![i] = v] /\ g.touch = f.touch \cup {v}
  BY <1>2, <1>6 DEF FingersAre, SameCounts
<1>10. Typed(g)
  BY <1>1, <1>8, <1>9, TypeTaken
<1>11. Numbered(g, D \cup {i})
  BY <1>1, <1>9, LinkTaken
<1> QED BY <1>9, <1>10, <1>11 DEF Fits, g

(* assignVirtualFinger finds a virtual finger unless all of them touch. *)
LEMMA AssignIs ==
    ASSUME NEW f \in Synaptics!Driver, f.touch # Synaptics!Finger
    PROVE  \E v \in Synaptics!Finger \ f.touch :
              \A i : Synaptics!AssignVirtualFinger(f, i) = Linked(f, i, v)
<1> DEFINE v == Synaptics!Min(Synaptics!Finger \ f.touch)
<1>1. v \in Synaptics!Finger \ f.touch
  <2>1. Synaptics!Finger \ f.touch \subseteq 0 .. 5 /\ Synaptics!Finger \ f.touch # {}
    BY DriverFields DEF Synaptics!Finger
  <2> QED BY <2>1, LeastOf
<1>2. \A i : Synaptics!AssignVirtualFinger(f, i) = Linked(f, i, v)
  BY DEF Synaptics!AssignVirtualFinger, Linked
<1> QED BY <1>1, <1>2

(* A new physical finger gets a virtual finger and a type of its own. *)
LEMMA NewFinger ==
    ASSUME NEW f, NEW D \in SUBSET Synaptics!Finger, Fits(f, D), Cardinality(f.touch) < 4,
           NEW i \in Synaptics!Finger \ D
    PROVE  /\ Fits(Synaptics!AssignVirtualFinger(f, i), D \cup {i})
           /\ SameCounts(f, Synaptics!AssignVirtualFinger(f, i))
<1>1. f \in Synaptics!Driver /\ f.touch # Synaptics!Finger
  BY NotAllTouch, DriverFields DEF Fits
<1>2. PICK v \in Synaptics!Finger \ f.touch :
          Synaptics!AssignVirtualFinger(f, i) = Linked(f, i, v)
  BY <1>1, AssignIs
<1>3. Fits(Linked(f, i, v), D \cup {i}) /\ SameCounts(f, Linked(f, i, v))
  BY LinkedFits
<1> QED BY <1>2, <1>3, Zenon

(* When physical finger src becomes another finger, dst is what it was. *)
LEMMA FingersSwapped ==
    ASSUME NEW f, NEW D \in SUBSET Synaptics!Finger, Fits(f, D), Cardinality(f.touch) < 4,
           NEW src \in D, NEW dst \in Synaptics!Finger \ D
    PROVE  /\ Fits(Synaptics!SwapFingers(f, dst, src), D \cup {dst})
           /\ SameCounts(f, Synaptics!SwapFingers(f, dst, src))
<1> DEFINE index == [f.index EXCEPT ![dst] = f.index[src]]
           a == [f EXCEPT !.index[dst] = f.index[src]]
           E == (D \ {src}) \cup {dst}
           g == Synaptics!SwapFingers(f, dst, src)
<1>1. f \in Synaptics!Driver /\ Numbered(f, D) /\ Typed(f)
  BY DEF Fits
<1>2. f.index \in [Synaptics!Finger -> Synaptics!Finger \cup {Synaptics!None}]
  BY <1>1, DriverFields
<1>3. a = [f EXCEPT !.index = index]
  BY <1>1 DEF Synaptics!Driver
<1>4. index \in [Synaptics!Finger -> Synaptics!Finger \cup {Synaptics!None}]
  BY <1>2
<1>5. g = Synaptics!AssignVirtualFinger(a, src)
  BY DEF Synaptics!SwapFingers
<1>6. index[dst] = f.index[src] /\ \A j \in D : index[j] = f.index[j]
  BY <1>2
<1> HIDE DEF index, a
<1>7. FingersAre(a, f, index, f.touch, f.type, f.free)
  BY <1>1, <1>3, <1>4, SetIndex
<1>8. a \in Synaptics!Driver /\ Typed(a)
  BY <1>1, <1>7 DEF FingersAre, SameCounts, Typed, Distinct
<1>9. Numbered(a, E)
  <2>1. f.touch = {f.index[j] : j \in D} /\ \A j, k \in D : f.index[j] = f.index[k] => j = k
    BY <1>1 DEF Numbered
  <2>2. a.index = index /\ a.touch = f.touch
    BY <1>7 DEF FingersAre
  <2>3. a.touch = {a.index[j] : j \in E}
    BY <1>6, <2>1, <2>2
  <2>4. ASSUME NEW j \in E, NEW k \in E, a.index[j] = a.index[k] PROVE j = k
    BY <1>6, <2>1, <2>2, <2>4
  <2> QED BY <2>3, <2>4 DEF Numbered
<1>10. E \in SUBSET Synaptics!Finger /\ src \in Synaptics!Finger \ E /\ E \cup {src} = D \cup {dst}
  OBVIOUS
<1>11. Cardinality(a.touch) < 4
  BY <1>7 DEF FingersAre
<1> HIDE DEF E, g
<1>12. Fits(a, E)
  BY <1>8, <1>9 DEF Fits
<1>13. Fits(g, E \cup {src}) /\ SameCounts(a, g)
  BY <1>5, <1>10, <1>11, <1>12, NewFinger
<1>14. SameCounts(f, a)
  BY <1>7 DEF FingersAre
<1> QED BY <1>10, <1>13, <1>14 DEF SameCounts, g

-----------------------------------------------------------------------------
(* The first n physical fingers are there. *)
FitsFirst(f, n) == Fits(f, 0 .. n - 1)

(* Each physical finger has one virtual finger, so there are as many. *)
LEMMA TouchCount ==
    ASSUME NEW f, NEW n \in 0 .. 5, FitsFirst(f, n)
    PROVE  Cardinality(f.touch) = n
<1> DEFINE D == 0 .. n - 1
           h == [i \in D |-> f.index[i]]
<1>1. f.touch = {f.index[i] : i \in D} /\ \A i, j \in D : f.index[i] = f.index[j] => i = j
  BY DEF FitsFirst, Fits, Numbered
<1>2. IsFiniteSet(D) /\ Cardinality(D) = n
  <2>1. 0 \in Int /\ n - 1 \in Int
    OBVIOUS
  <2>2. /\ IsFiniteSet(0 .. n - 1)
        /\ Cardinality(0 .. n - 1) = IF 0 > n - 1 THEN 0 ELSE (n - 1) - 0 + 1
    BY <2>1, FS_Interval, Zenon
  <2>3. (IF 0 > n - 1 THEN 0 ELSE (n - 1) - 0 + 1) = n
    OBVIOUS
  <2>4. Cardinality(0 .. n - 1) = n
    BY <2>2, <2>3
  <2> QED BY <2>2, <2>4, Zenon DEF D
<1> HIDE DEF D
<1>3. h \in Bijection(D, f.touch)
  <2>1. h \in [D -> f.touch] /\ \A i \in D : h[i] = f.index[i]
    BY <1>1
  <2>2. \A y \in f.touch : \E i \in D : h[i] = y
    BY <1>1
  <2>3. \A i, j \in D : h[i] = h[j] => i = j
    BY <1>1
  <2> HIDE DEF h
  <2> QED BY <2>1, <2>2, <2>3 DEF Bijection, Injection, Surjection, IsInjective
<1> HIDE DEF h
<1>4. ExistsBijection(D, f.touch)
  BY <1>3 DEF ExistsBijection
<1>5. Cardinality(D) = Cardinality(f.touch)
  BY <1>2, <1>4, FS_Bijection
<1> QED BY <1>2, <1>5

-----------------------------------------------------------------------------
(* freeAndMarkVirtualFingers leaves the virtual fingers of the physical    *)
(* ones, and their types, if these were different ones.                    *)
LEMMA MarkIs ==
    ASSUME NEW f \in Synaptics!Driver
    PROVE  FingersAre(Synaptics!FreeAndMarkVirtualFingers(f), f, f.index, Synaptics!Shown(f),
              [v \in Synaptics!Finger |-> IF v \in Synaptics!Shown(f) THEN f.type[v]
                                          ELSE Synaptics!Undefined],
              (Synaptics!Type \ {Synaptics!Undefined}) \ {f.type[v] : v \in Synaptics!Shown(f)})
<1> DEFINE S == Synaptics!Shown(f)
           type == [v \in Synaptics!Finger |-> IF v \in S THEN f.type[v] ELSE Synaptics!Undefined]
           free == (Synaptics!Type \ {Synaptics!Undefined}) \ {f.type[v] : v \in S}
           a == [f EXCEPT !.touch = S]
           b == [a EXCEPT !.free = free]
<1>1. /\ f.index \in [Synaptics!Finger -> Synaptics!Finger \cup {Synaptics!None}]
      /\ f.type \in [Synaptics!Finger -> Synaptics!Type]
      /\ f.count \in 0 .. 5
  BY DriverFields
<1>2. S \in SUBSET Synaptics!Finger
  BY <1>1 DEF Synaptics!Shown, Synaptics!Finger
<1>3. Synaptics!Undefined \in Synaptics!Type
  BY DEF Synaptics!Undefined, Synaptics!Type, Synaptics!Little
<1>4. Synaptics!FreeAndMarkVirtualFingers(f) =
        [f EXCEPT !.touch = S, !.free = free, !.type = type]
  BY DEF Synaptics!FreeAndMarkVirtualFingers, Synaptics!Driver
<1>5. [f EXCEPT !.touch = S, !.free = free, !.type = type] = [b EXCEPT !.type = type]
  BY DEF Synaptics!Driver
<1> HIDE DEF S
<1>6. type \in [Synaptics!Finger -> Synaptics!Type] /\ free \in SUBSET Synaptics!Type
  BY <1>1, <1>3
<1> HIDE DEF type, free
<1>7. FingersAre(a, f, f.index, S, f.type, f.free)
  BY <1>2, SetTouch
<1> HIDE DEF a
<1>8. FingersAre(b, a, a.index, a.touch, a.type, free)
  BY <1>6, <1>7, SetFree DEF FingersAre, SameCounts
<1> HIDE DEF b
<1>9. FingersAre([b EXCEPT !.type = type], b, b.index, b.touch, type, b.free)
  BY <1>6, <1>8, SetType DEF FingersAre, SameCounts
<1>10. FingersAre([b EXCEPT !.type = type], f, f.index, S, type, free)
  BY <1>7, <1>8, <1>9 DEF FingersAre, SameCounts
<1>11. FingersAre(Synaptics!FreeAndMarkVirtualFingers(f), f, f.index, S, type, free)
  BY <1>4, <1>5, <1>10
<1> QED BY <1>11 DEF S, type, free

(* If the physical fingers were given different virtual fingers with       *)
(* different types, they are numbered after freeAndMarkVirtualFingers.     *)
LEMMA Marked ==
    ASSUME NEW f \in Synaptics!Driver, NEW T \in SUBSET Synaptics!Finger, Distinct(f, T),
           \A i \in 0 .. f.count - 1 : f.index[i] \in T,
           \A i, j \in 0 .. f.count - 1 : f.index[i] = f.index[j] => i = j
    PROVE  /\ Fits(Synaptics!FreeAndMarkVirtualFingers(f), 0 .. f.count - 1)
           /\ SameCounts(f, Synaptics!FreeAndMarkVirtualFingers(f))
<1> DEFINE D == 0 .. f.count - 1
           S == Synaptics!Shown(f)
           g == Synaptics!FreeAndMarkVirtualFingers(f)
<1>1. f.type \in [Synaptics!Finger -> Synaptics!Type]
  BY DriverFields
<1>2. S = {f.index[i] : i \in D} /\ S \subseteq T
  BY DEF Synaptics!Shown, Synaptics!None, Synaptics!Finger
<1>3. /\ SameCounts(f, g) /\ g.index = f.index /\ g.touch = S
      /\ g.type = [v \in Synaptics!Finger |-> IF v \in S THEN f.type[v] ELSE Synaptics!Undefined]
      /\ g.free = (Synaptics!Type \ {Synaptics!Undefined}) \ {f.type[v] : v \in S}
  BY MarkIs DEF FingersAre
<1> HIDE DEF S, g
<1>4. Numbered(g, D)
  BY <1>2, <1>3 DEF Numbered
<1>5. \A v \in S : g.type[v] = f.type[v]
  BY <1>2, <1>3
<1>6. Typed(g)
  <2>1. Distinct(g, g.touch)
    BY <1>2, <1>3, <1>5 DEF Distinct
  <2>2. \A v \in g.touch : g.type[v] \notin g.free
    BY <1>3, <1>5
  <2>3. \A t \in Synaptics!Index .. Synaptics!Little :
          t \in g.free \/ \E v \in g.touch : g.type[v] = t
    <3>1. \A t \in Synaptics!Index .. Synaptics!Little :
             t \in Synaptics!Type \ {Synaptics!Undefined}
      BY DEF Synaptics!Index, Synaptics!Little, Synaptics!Type, Synaptics!Undefined
    <3> QED BY <1>3, <1>5, <3>1
  <2> QED BY <2>1, <2>2, <2>3 DEF Typed
<1> QED BY <1>3, <1>4, <1>6 DEF Fits, SameCounts, g

(* The thumb's type may be shared, the type it had is free again. *)
LEMMA ThumbIs ==
    ASSUME NEW f \in Synaptics!Driver, NEW v \in Synaptics!Finger
    PROVE  FingersAre(Synaptics!WithThumb(f, v), f, f.index, f.touch,
              [f.type EXCEPT ![v] = Synaptics!Thumb],
              (f.free \cup {f.type[v]}) \ {Synaptics!Thumb})
<1> DEFINE type == [f.type EXCEPT ![v] = Synaptics!Thumb]
           free == (f.free \cup {f.type[v]}) \ {Synaptics!Thumb}
<1>1. f.type \in [Synaptics!Finger -> Synaptics!Type] /\ f.free \subseteq Synaptics!Type
  BY DriverFields
<1>2. Synaptics!WithThumb(f, v) = [f EXCEPT !.type = type, !.free = free]
  BY DEF Synaptics!Driver, Synaptics!WithThumb
<1>3. Synaptics!Thumb \in Synaptics!Type
  BY DEF Synaptics!Undefined, Synaptics!Type, Synaptics!Little, Synaptics!Thumb
<1>4. type \in [Synaptics!Finger -> Synaptics!Type] /\ free \in SUBSET Synaptics!Type
  BY <1>1, <1>3
<1> HIDE DEF type, free
<1>5. FingersAre(Synaptics!WithThumb(f, v), f, f.index, f.touch, type, free)
  BY <1>2, <1>4, SetTypes
<1> QED BY <1>5 DEF type, free

(* The thumb keeps the fingers numbered. *)
LEMMA ThumbFits ==
    ASSUME NEW f, NEW D, Fits(f, D), NEW v \in f.touch
    PROVE  Fits(Synaptics!WithThumb(f, v), D) /\ SameCounts(f, Synaptics!WithThumb(f, v))
<1> DEFINE g == Synaptics!WithThumb(f, v)
<1>1. f \in Synaptics!Driver /\ Numbered(f, D) /\ Typed(f)
  BY DEF Fits
<1>2. /\ f.type \in [Synaptics!Finger -> Synaptics!Type] /\ f.touch \subseteq Synaptics!Finger
      /\ v \in Synaptics!Finger
  BY <1>1, DriverFields
<1>3. FingersAre(g, f, f.index, f.touch, [f.type EXCEPT ![v] = Synaptics!Thumb],
                 (f.free \cup {f.type[v]}) \ {Synaptics!Thumb})
  BY <1>1, <1>2, ThumbIs
<1> HIDE DEF g
<1>4. /\ SameCounts(f, g) /\ g.index = f.index /\ g.touch = f.touch
      /\ g.free = (f.free \cup {f.type[v]}) \ {Synaptics!Thumb}
      /\ g.type[v] = Synaptics!Thumb /\ \A u \in f.touch \ {v} : g.type[u] = f.type[u]
  BY <1>2, <1>3 DEF FingersAre
<1>5. Numbered(g, D)
  BY <1>1, <1>4 DEF Numbered
<1>6. Typed(g)
  <2>1. Synaptics!Thumb # Synaptics!Undefined
        /\ Synaptics!Thumb \notin Synaptics!Index .. Synaptics!Little
    BY DEF Synaptics!Thumb, Synaptics!Undefined, Synaptics!Index, Synaptics!Little
  <2>2. Distinct(g, g.touch)
    BY <1>1, <1>4, <2>1 DEF Typed, Distinct
  <2>3. \A u \in g.touch : g.type[u] \notin g.free
    BY <1>1, <1>4 DEF Typed, Distinct
  <2>4. \A t \in Synaptics!Index .. Synaptics!Little :
          t \in g.free \/ \E u \in g.touch : g.type[u] = t
    BY <1>1, <1>4, <2>1 DEF Typed
  <2> QED BY <2>2, <2>3, <2>4 DEF Typed
<1> QED BY <1>4, <1>5, <1>6 DEF Fits, SameCounts, g

-----------------------------------------------------------------------------
(* After the first n fingers, a new one is the next (assignVirtualFinger); *)
LEMMA NextFinger ==
    ASSUME NEW f, NEW n \in 0 .. 3, FitsFirst(f, n)
    PROVE  /\ FitsFirst(Synaptics!AssignVirtualFinger(f, n), n + 1)
           /\ SameCounts(f, Synaptics!AssignVirtualFinger(f, n))
<1> DEFINE D == 0 .. n - 1
<1>0. n \in 0 .. 5
  OBVIOUS
<1>1. Fits(f, D) /\ Cardinality(f.touch) < 4
  <2>1. Cardinality(f.touch) = n
    BY <1>0, TouchCount
  <2> QED BY <2>1 DEF FitsFirst
<1>2. /\ D \in SUBSET Synaptics!Finger /\ n \in Synaptics!Finger \ D
      /\ D \cup {n} = 0 .. (n + 1) - 1
  BY DEF Synaptics!Finger
<1> HIDE DEF D
<1>3. /\ Fits(Synaptics!AssignVirtualFinger(f, n), D \cup {n})
      /\ SameCounts(f, Synaptics!AssignVirtualFinger(f, n))
  BY <1>1, <1>2, NewFinger
<1> QED BY <1>2, <1>3 DEF FitsFirst

(* ... and so is it when an old finger becomes the new one (swapFingers). *)
LEMMA NextSwapped ==
    ASSUME NEW f, NEW n \in 1 .. 3, FitsFirst(f, n), NEW src \in 0 .. n - 1
    PROVE  /\ FitsFirst(Synaptics!SwapFingers(f, n, src), n + 1)
           /\ SameCounts(f, Synaptics!SwapFingers(f, n, src))
<1> DEFINE D == 0 .. n - 1
<1>0. n \in 0 .. 5
  OBVIOUS
<1>1. Fits(f, D) /\ Cardinality(f.touch) < 4
  <2>1. Cardinality(f.touch) = n
    BY <1>0, TouchCount
  <2> QED BY <2>1 DEF FitsFirst
<1>2. /\ D \in SUBSET Synaptics!Finger /\ n \in Synaptics!Finger \ D
      /\ D \cup {n} = 0 .. (n + 1) - 1 /\ src \in D
  BY DEF Synaptics!Finger
<1> HIDE DEF D
<1>3. /\ Fits(Synaptics!SwapFingers(f, n, src), D \cup {n})
      /\ SameCounts(f, Synaptics!SwapFingers(f, n, src))
  BY <1>1, <1>2, FingersSwapped
<1> QED BY <1>2, <1>3 DEF FitsFirst

(* One round of the loop over the first fingers *)
FirstTouch(n, g, i) == IF i < n THEN Linked(g, i, i) ELSE g

(* The fingers below i, of n, are virtual fingers of the same numbers. *)
FirstUpTo(g, n, i) ==
    LET m == IF i < n THEN i ELSE n IN FitsFirst(g, m) /\ g.touch = 0 .. m - 1

(* Each round of the loop numbers one finger more. *)
LEMMA FirstStep ==
    ASSUME NEW n \in 0 .. 4, NEW i \in 0 .. 4, NEW f, NEW g, FirstUpTo(g, n, i), SameCounts(f, g)
    PROVE  FirstUpTo(FirstTouch(n, g, i), n, i + 1) /\ SameCounts(f, FirstTouch(n, g, i))
<1>1. CASE i < n
  <2> DEFINE D == 0 .. i - 1
  <2>1. FitsFirst(g, i) /\ Fits(g, D) /\ g.touch = D
    BY <1>1 DEF FirstUpTo, FitsFirst
  <2>2. i \in 0 .. 5
    OBVIOUS
  <2>3. Cardinality(g.touch) < 4
    <3>1. Cardinality(g.touch) = i
      BY <2>1, <2>2, TouchCount
    <3> QED BY <1>1, <3>1
  <2>4. /\ D \in SUBSET Synaptics!Finger /\ i \in Synaptics!Finger \ D
        /\ D \cup {i} = 0 .. (i + 1) - 1
    BY DEF Synaptics!Finger
  <2> HIDE DEF D
  <2>5. i \in Synaptics!Finger \ g.touch
    BY <2>1, <2>4
  <2>6. /\ Fits(Linked(g, i, i), D \cup {i}) /\ SameCounts(g, Linked(g, i, i))
        /\ Linked(g, i, i).touch = g.touch \cup {i}
    BY <2>1, <2>3, <2>4, <2>5, LinkedFits
  <2>7. (IF i + 1 < n THEN i + 1 ELSE n) = i + 1 /\ FirstTouch(n, g, i) = Linked(g, i, i)
    BY <1>1 DEF FirstTouch
  <2>8. FitsFirst(Linked(g, i, i), i + 1) /\ Linked(g, i, i).touch = 0 .. (i + 1) - 1
    BY <2>1, <2>4, <2>6 DEF FitsFirst
  <2>9. FirstUpTo(FirstTouch(n, g, i), n, i + 1)
    BY <2>7, <2>8 DEF FirstUpTo
  <2>10. SameCounts(f, FirstTouch(n, g, i))
    BY <2>6, <2>7 DEF SameCounts
  <2> QED BY <2>9, <2>10
<1>2. CASE ~ (i < n)
  <2>1. FirstTouch(n, g, i) = g
    BY <1>2 DEF FirstTouch
  <2>2. (IF i + 1 < n THEN i + 1 ELSE n) = n /\ (IF i < n THEN i ELSE n) = n
    BY <1>2
  <2> QED BY <2>1, <2>2 DEF FirstUpTo
<1> QED BY <1>1, <1>2

(* The first fingers are the virtual fingers of the same numbers. *)
LEMMA FirstFits ==
    ASSUME NEW f, FitsFirst(f, 0), f.count \in 0 .. 4
    PROVE  /\ FitsFirst(Synaptics!FirstFingers(f), f.count)
           /\ SameCounts(f, Synaptics!FirstFingers(f))
<1> DEFINE n == f.count
           a == FirstTouch(n, f, 0)
           b == FirstTouch(n, a, 1)
           c == FirstTouch(n, b, 2)
           d == FirstTouch(n, c, 3)
           e == FirstTouch(n, d, 4)
<1>1. Synaptics!FirstFingers(f) = e
  BY DEF Synaptics!FirstFingers, FirstTouch, Linked
<1>2. FirstUpTo(f, n, 0) /\ SameCounts(f, f)
  <2>1. f.touch = {} /\ f \in Synaptics!Driver
    BY DEF FitsFirst, Fits, Numbered
  <2>2. (IF 0 < n THEN 0 ELSE n) = 0
    OBVIOUS
  <2>3. 0 .. 0 - 1 = {}
    OBVIOUS
  <2> QED BY <2>1, <2>2, <2>3 DEF FirstUpTo, SameCounts
<1> HIDE DEF n, a, b, c, d, e
<1>3. n \in 0 .. 4
  BY DEF n
<1>4. FirstUpTo(a, n, 1) /\ SameCounts(f, a)
  <2>1. FirstUpTo(a, n, 0 + 1) /\ SameCounts(f, a)
    BY <1>2, <1>3, FirstStep DEF a
  <2> QED BY <2>1
<1>5. FirstUpTo(b, n, 2) /\ SameCounts(f, b)
  <2>1. FirstUpTo(b, n, 1 + 1) /\ SameCounts(f, b)
    BY <1>3, <1>4, FirstStep DEF b
  <2> QED BY <2>1
<1>6. FirstUpTo(c, n, 3) /\ SameCounts(f, c)
  <2>1. FirstUpTo(c, n, 2 + 1) /\ SameCounts(f, c)
    BY <1>3, <1>5, FirstStep DEF c
  <2> QED BY <2>1
<1>7. FirstUpTo(d, n, 4) /\ SameCounts(f, d)
  <2>1. FirstUpTo(d, n, 3 + 1) /\ SameCounts(f, d)
    BY <1>3, <1>6, FirstStep DEF d
  <2> QED BY <2>1
<1>8. FirstUpTo(e, n, 5) /\ SameCounts(f, e)
  <2>1. FirstUpTo(e, n, 4 + 1) /\ SameCounts(f, e)
    BY <1>3, <1>7, FirstStep DEF e
  <2> QED BY <2>1
<1>9. FitsFirst(e, n)
  <2>1. (IF 5 < n THEN 5 ELSE n) = n
    BY <1>3
  <2> QED BY <1>8, <2>1 DEF FirstUpTo
<1> QED BY <1>1, <1>8, <1>9 DEF n

(* Fingers were added: the ones there keep their virtual fingers, but the  *)
(* second, which is taken for one of the new ones.                         *)
LEMMA MoreFits ==
    ASSUME NEW f, f.last \in 1 .. 3, f.count \in 2 .. 4, f.last < f.count,
           FitsFirst(f, f.last)
    PROVE  FitsFirst(Synaptics!MoreFingers(f), f.count) /\ SameCounts(f, Synaptics!MoreFingers(f))
<1>0. f \in Synaptics!Driver /\ SameCounts(f, f)
  BY DEF FitsFirst, Fits, SameCounts
<1>1. CASE f.last = 1
  <2> DEFINE two == Synaptics!AssignVirtualFinger(f, 1)
             three == Synaptics!AssignIf(two, 2, f.count > 2)
             four == Synaptics!AssignIf(three, 3, f.count > 3)
  <2>1. Synaptics!MoreFingers(f) = Synaptics!AssignIf(four, 4, f.count > 4)
    BY <1>1 DEF Synaptics!MoreFingers
  <2>2. Synaptics!AssignIf(four, 4, f.count > 4) = four
    BY DEF Synaptics!AssignIf
  <2>3. FitsFirst(two, 1 + 1) /\ SameCounts(f, two)
    BY <1>1, NextFinger
  <2>4. /\ f.count > 2 => three = Synaptics!AssignVirtualFinger(two, 2)
        /\ ~ (f.count > 2) => three = two
        /\ f.count > 3 => four = Synaptics!AssignVirtualFinger(three, 3)
        /\ ~ (f.count > 3) => four = three
    BY DEF Synaptics!AssignIf
  <2> HIDE DEF two, three, four
  <2>5. CASE f.count = 2
    <3>1. four = two
      BY <2>4, <2>5
    <3> QED BY <2>1, <2>2, <2>3, <2>5, <3>1
  <2>6. f.count > 2 => FitsFirst(three, 3) /\ SameCounts(f, three)
    <3>1. FitsFirst(two, 2)
      BY <2>3
    <3>2. /\ FitsFirst(Synaptics!AssignVirtualFinger(two, 2), 2 + 1)
          /\ SameCounts(two, Synaptics!AssignVirtualFinger(two, 2))
      BY <3>1, NextFinger
    <3> QED BY <2>3, <2>4, <3>2 DEF SameCounts
  <2>7. CASE f.count = 3
    <3>1. four = three
      BY <2>4, <2>7
    <3> QED BY <2>1, <2>2, <2>6, <2>7, <3>1
  <2>8. CASE f.count = 4
    <3>1. FitsFirst(three, 3) /\ SameCounts(f, three)
      BY <2>6, <2>8
    <3>2. /\ FitsFirst(Synaptics!AssignVirtualFinger(three, 3), 3 + 1)
          /\ SameCounts(three, Synaptics!AssignVirtualFinger(three, 3))
      BY <3>1, NextFinger
    <3>3. FitsFirst(four, 4) /\ SameCounts(f, four)
      BY <2>4, <2>8, <3>1, <3>2 DEF SameCounts
    <3> QED BY <2>1, <2>2, <2>8, <3>3
  <2> QED BY <2>5, <2>7, <2>8
<1>2. CASE f.last # 1
  <2> DEFINE a == Synaptics!SwapFingers(f, f.last, 1)
  <2>1. f.last \in 1 .. 3 /\ 1 \in 0 .. f.last - 1
    BY <1>2
  <2>2. FitsFirst(a, f.last + 1) /\ SameCounts(f, a)
    BY <2>1, NextSwapped
  <2>3. CASE f.count - f.last = 1
    <3>1. Synaptics!MoreFingers(f) = a
      BY <1>2, <2>3 DEF Synaptics!MoreFingers
    <3>2. f.count = f.last + 1
      BY <2>3
    <3> QED BY <2>2, <3>1, <3>2
  <2>4. CASE f.count - f.last = 2
    <3>1. Synaptics!MoreFingers(f) = Synaptics!AssignVirtualFinger(a, 3)
      <4>1. f.last # 1 /\ f.count - f.last # 1
        BY <1>2, <2>4
      <4> QED BY <2>4, <4>1 DEF Synaptics!MoreFingers
    <3>2. f.last + 1 = 3 /\ f.count = 4
      BY <1>2, <2>4
    <3> HIDE DEF a
    <3>3. FitsFirst(a, 3)
      BY <2>2, <3>2
    <3>4. /\ FitsFirst(Synaptics!AssignVirtualFinger(a, 3), 3 + 1)
          /\ SameCounts(a, Synaptics!AssignVirtualFinger(a, 3))
      BY <3>3, NextFinger
    <3> QED BY <2>2, <3>1, <3>2, <3>4 DEF SameCounts
  <2> QED BY <1>2, <2>3, <2>4
<1> QED BY <1>1, <1>2

-----------------------------------------------------------------------------
(* Cardinality is the same in both modules. *)
LEMMA SynapticsCardinality == \A S : Synaptics!Cardinality(S) = Cardinality(S)
BY DEF Synaptics!Cardinality, Cardinality

(* The virtual fingers that are given to physical ones, the lower first *)
Taken(f) == {v \in f.touch : Synaptics!Cardinality({u \in f.touch : u < v}) < f.last}

(* m is the inverse of at: the virtual finger at each physical one. *)
MatchedBy(m, T, at) ==
    m = [i \in Synaptics!Finger |-> IF \E v \in T : at[v] = i
                                    THEN CHOOSE v \in T : at[v] = i ELSE Synaptics!None]

(* A choice of renumberFingers after a lift is an injection of the virtual *)
(* fingers into the physical ones.                                         *)
LEMMA MatchingIs ==
    ASSUME NEW f, NEW m \in Synaptics!Matchings(f)
    PROVE  \E at \in [Taken(f) -> 0 .. f.last - 1] :
              /\ \A u, v \in Taken(f) : u # v => at[u] # at[v]
              /\ MatchedBy(m, Taken(f), at)
BY DEF Synaptics!Matchings, MatchedBy, Taken

(* It has the type of the links. *)
LEMMA MatchingType ==
    ASSUME NEW f \in Synaptics!Driver, NEW m \in Synaptics!Matchings(f)
    PROVE  m \in [Synaptics!Finger -> Synaptics!Finger \cup {Synaptics!None}]
<1>1. PICK at \in [Taken(f) -> 0 .. f.last - 1] : MatchedBy(m, Taken(f), at)
  BY MatchingIs
<1>2. Taken(f) \subseteq Synaptics!Finger
  BY DriverFields DEF Taken
<1> QED BY <1>1, <1>2 DEF MatchedBy

(* The fingers that touch are finitely many. *)
LEMMA TouchFinite ==
    ASSUME NEW f \in Synaptics!Driver
    PROVE  IsFiniteSet(f.touch)
<1>1. IsFiniteSet(0 .. 4)
  <2>1. 0 \in Int /\ 4 \in Int
    OBVIOUS
  <2> QED BY <2>1, FS_Interval, Zenon
<1> QED BY <1>1, FS_Subset, DriverFields DEF Synaptics!Finger

(* No finger is left over: there are as many virtual fingers as physical   *)
(* ones before.                                                            *)
LEMMA AllTaken ==
    ASSUME NEW f, f.last \in 0 .. 5, FitsFirst(f, f.last)
    PROVE  Taken(f) = f.touch
<1>1. IsFiniteSet(f.touch) /\ Cardinality(f.touch) = f.last
  BY TouchFinite, TouchCount DEF FitsFirst, Fits
<1>2. ASSUME NEW v \in f.touch PROVE Cardinality({u \in f.touch : u < v}) < f.last
  <2> DEFINE S == f.touch \ {v}
             L == {u \in f.touch : u < v}
  <2>1. IsFiniteSet(S) /\ Cardinality(S) = IF v \in f.touch THEN Cardinality(f.touch) - 1
                                            ELSE Cardinality(f.touch)
    BY <1>1, FS_RemoveElement, Zenon
  <2>2. Cardinality(S) = f.last - 1
    BY <1>1, <1>2, <2>1
  <2>3. L \in SUBSET S
    <3>1. \A u \in f.touch : u \in Int
      BY DriverFields DEF FitsFirst, Fits, Synaptics!Finger
    <3> QED BY <3>1
  <2> HIDE DEF S, L
  <2>4. IsFiniteSet(L) /\ Cardinality(L) <= Cardinality(S)
    BY <2>1, <2>3, FS_Subset
  <2>5. Cardinality(L) \in Nat
    BY <2>4, FS_CardinalityType
  <2> QED BY <2>2, <2>4, <2>5 DEF L
<1> QED BY <1>2, SynapticsCardinality DEF Taken

(* The fingers that are matched anew have virtual fingers of their own. *)
LEMMA Matched ==
    ASSUME NEW f, f.last \in 1 .. 4, FitsFirst(f, f.last), NEW m \in Synaptics!Matchings(f)
    PROVE  LET g == [f EXCEPT !.index = m]
           IN  /\ FitsFirst(g, f.last) /\ SameCounts(f, g) /\ g.index = m
               /\ \A i \in Synaptics!Finger : m[i] # Synaptics!None <=> i < f.last
<1> DEFINE g == [f EXCEPT !.index = m]
           T == f.touch
           P == 0 .. f.last - 1
<1>1. f \in Synaptics!Driver /\ Typed(f)
  BY DEF FitsFirst, Fits
<1>2. f.last \in 0 .. 5
  OBVIOUS
<1>3. Taken(f) = T
  BY <1>2, AllTaken
<1>4. PICK at \in [T -> P] : (\A u, v \in T : u # v => at[u] # at[v]) /\ MatchedBy(m, T, at)
  BY <1>3, MatchingIs
<1>5. IsFiniteSet(P) /\ Cardinality(P) = f.last
  <2>1. 0 \in Int /\ f.last - 1 \in Int
    OBVIOUS
  <2>2. /\ IsFiniteSet(0 .. f.last - 1)
        /\ Cardinality(0 .. f.last - 1) = IF 0 > f.last - 1 THEN 0 ELSE (f.last - 1) - 0 + 1
    BY <2>1, FS_Interval, Zenon
  <2>3. (IF 0 > f.last - 1 THEN 0 ELSE (f.last - 1) - 0 + 1) = f.last
    OBVIOUS
  <2>4. Cardinality(0 .. f.last - 1) = f.last
    BY <2>2, <2>3
  <2> QED BY <2>2, <2>4, Zenon DEF P
<1>6. Cardinality(T) = f.last
  BY <1>2, TouchCount
<1>7. T \subseteq Synaptics!Finger /\ P \subseteq Synaptics!Finger
  BY <1>1, DriverFields DEF Synaptics!Finger
<1>8. \A i \in Synaptics!Finger : i \in P <=> i < f.last
  BY DEF Synaptics!Finger
<1> HIDE DEF T, P
<1>9. \A i \in P : \E v \in T : at[v] = i
  <2>1. at \in Injection(T, P)
    BY <1>4 DEF Injection, IsInjective
  <2>2. at \in Surjection(T, P)
    BY <1>5, <1>6, <2>1, FS_Injection
  <2> QED BY <2>2 DEF Surjection
<1>10. \A i \in P : m[i] \in T /\ at[m[i]] = i
  BY <1>7, <1>9, <1>4 DEF MatchedBy
<1>11. \A i \in Synaptics!Finger \ P : m[i] = Synaptics!None
  BY <1>4 DEF MatchedBy
<1>12. m \in [Synaptics!Finger -> Synaptics!Finger \cup {Synaptics!None}]
  BY <1>1, MatchingType
<1>13. FingersAre(g, f, m, T, f.type, f.free)
  BY <1>1, <1>12, SetIndex DEF T
<1>14. Numbered(g, P)
  <2>1. \A v \in T : m[at[v]] = v
    BY <1>4, <1>10
  <2>2. T = {m[i] : i \in P}
    BY <1>4, <1>10, <2>1
  <2>3. \A i, j \in P : m[i] = m[j] => i = j
    BY <1>10
  <2> HIDE DEF g
  <2> QED BY <1>13, <2>2, <2>3 DEF Numbered, FingersAre
<1>15. Typed(g)
  <2> HIDE DEF g
  <2> QED BY <1>1, <1>13 DEF Typed, Distinct, FingersAre, T
<1>16. Synaptics!None \notin T
  BY <1>7 DEF Synaptics!Finger, Synaptics!None
<1>17. \A i \in Synaptics!Finger : m[i] # Synaptics!None <=> i < f.last
  BY <1>8, <1>10, <1>11, <1>16
<1>18. FitsFirst(g, f.last)
  <2> HIDE DEF g
  <2> QED BY <1>13, <1>14, <1>15 DEF FitsFirst, Fits, FingersAre, SameCounts, P
<1>19. SameCounts(f, g) /\ g.index = m
  <2> HIDE DEF g
  <2> QED BY <1>13 DEF FingersAre
<1> QED BY <1>17, <1>18, <1>19

-----------------------------------------------------------------------------
(* Marking fingers that are numbered already changes nothing about that. *)
LEMMA MarkedFits ==
    ASSUME NEW f, FitsFirst(f, f.count)
    PROVE  /\ FitsFirst(Synaptics!FreeAndMarkVirtualFingers(f), f.count)
           /\ SameCounts(f, Synaptics!FreeAndMarkVirtualFingers(f))
<1>1. f \in Synaptics!Driver /\ f.touch \in SUBSET Synaptics!Finger
  BY DriverFields DEF FitsFirst, Fits
<1>2. Distinct(f, f.touch)
  BY DEF FitsFirst, Fits, Typed
<1>3. /\ \A i \in 0 .. f.count - 1 : f.index[i] \in f.touch
      /\ \A i, j \in 0 .. f.count - 1 : f.index[i] = f.index[j] => i = j
  BY DEF FitsFirst, Fits, Numbered
<1>4. /\ Fits(Synaptics!FreeAndMarkVirtualFingers(f), 0 .. f.count - 1)
      /\ SameCounts(f, Synaptics!FreeAndMarkVirtualFingers(f))
  BY <1>1, <1>2, <1>3, Marked
<1> QED BY <1>4 DEF FitsFirst

(* Either way of adding a finger: as a new one, or in the place of src *)
Added(f, n, src) ==
    IF src # Synaptics!None THEN Synaptics!SwapFingers(f, n, src)
    ELSE Synaptics!AssignVirtualFinger(f, n)

(* Both ways number one finger more. *)
LEMMA AddedFits ==
    ASSUME NEW f, NEW n \in 1 .. 3, FitsFirst(f, n), NEW src \in (0 .. n - 1) \cup {Synaptics!None}
    PROVE  FitsFirst(Added(f, n, src), n + 1) /\ SameCounts(f, Added(f, n, src))
<1>1. CASE src # Synaptics!None
  <2>1. src \in 0 .. n - 1 /\ Added(f, n, src) = Synaptics!SwapFingers(f, n, src)
    BY <1>1 DEF Added
  <2>2. /\ FitsFirst(Synaptics!SwapFingers(f, n, src), n + 1)
        /\ SameCounts(f, Synaptics!SwapFingers(f, n, src))
    BY <2>1, NextSwapped
  <2> QED BY <2>1, <2>2
<1>2. CASE src = Synaptics!None
  <2>1. n \in 0 .. 3 /\ Added(f, n, src) = Synaptics!AssignVirtualFinger(f, n)
    BY <1>2 DEF Added
  <2>2. /\ FitsFirst(Synaptics!AssignVirtualFinger(f, n), n + 1)
        /\ SameCounts(f, Synaptics!AssignVirtualFinger(f, n))
    BY <2>1, NextFinger
  <2> QED BY <2>1, <2>2
<1> QED BY <1>1, <1>2

(* The fingers of MoreAfterLift before their marking *)
AfterLift(f, far, far2) ==
    LET two == Synaptics!AssignIf(Synaptics!AssignIf(f, 0, f.index[0] = Synaptics!None),
                                  1, f.index[1] = Synaptics!None)
        three == Added(two, 2, far)
        four == IF f.last < 3
                THEN Added(three, 3, IF far = Synaptics!None THEN Synaptics!None ELSE far2)
                ELSE Added(two, 3, far)
    IN  CASE f.count = 2 -> two
          [] f.count = 3 -> three
          [] f.count = 4 -> four
          [] f.count = 5 -> Synaptics!AssignVirtualFinger(four, 4)

(* MoreAfterLift adds the fingers and marks them. *)
LEMMA AfterLiftIs ==
    ASSUME NEW f, f.last \in 0 .. 5, f.count \in 2 .. 5, NEW far, NEW far2
    PROVE  Synaptics!MoreAfterLift(f, far, far2)
              = Synaptics!FreeAndMarkVirtualFingers(AfterLift(f, far, far2))
<1>1. CASE f.last < 3 /\ far # Synaptics!None /\ far2 # Synaptics!None
  <2>1. ~ (f.last >= 3)
    BY <1>1
  <2> QED BY <1>1, <2>1 DEF Synaptics!MoreAfterLift, AfterLift, Added
<1>2. CASE f.last < 3 /\ ~ (far # Synaptics!None /\ far2 # Synaptics!None)
  <2>1. ~ (f.last >= 3)
    BY <1>2
  <2> QED BY <1>2, <2>1 DEF Synaptics!MoreAfterLift, AfterLift, Added
<1>3. CASE ~ (f.last < 3)
  <2>1. f.last >= 3
    BY <1>3
  <2> QED BY <1>3, <2>1 DEF Synaptics!MoreAfterLift, AfterLift, Added
<1> QED BY <1>1, <1>2, <1>3

(* Each of the cases numbers as many fingers as there are now. *)
LEMMA AfterLiftFits ==
    ASSUME NEW f, f.last \in 1 .. 3, f.count \in 2 .. 4, f.last < f.count,
           FitsFirst(f, f.last),
           \A i \in Synaptics!Finger : f.index[i] # Synaptics!None <=> i < f.last,
           NEW far \in (0 .. f.last - 1) \cup {Synaptics!None},
           NEW far2 \in (0 .. f.last - 1) \cup {Synaptics!None}
    PROVE  /\ FitsFirst(AfterLift(f, far, far2), f.count)
           /\ SameCounts(f, AfterLift(f, far, far2))
<1> DEFINE two == Synaptics!AssignIf(Synaptics!AssignIf(f, 0, f.index[0] = Synaptics!None),
                                     1, f.index[1] = Synaptics!None)
           far3 == IF far = Synaptics!None THEN Synaptics!None ELSE far2
           three == Added(two, 2, far)
           four == Added(three, 3, far3)
           other == Added(two, 3, far)
<1>1. f \in Synaptics!Driver /\ SameCounts(f, f)
  BY DEF FitsFirst, Fits, SameCounts
<1>2. (f.last = 1 => two = Synaptics!AssignVirtualFinger(f, 1)) /\ (f.last # 1 => two = f)
  <2>1. 0 \in Synaptics!Finger /\ 1 \in Synaptics!Finger
    BY DEF Synaptics!Finger
  <2>2. f.index[0] # Synaptics!None /\ (f.index[1] = Synaptics!None <=> f.last = 1)
    BY <2>1
  <2>3. CASE f.last = 1
    BY <2>2, <2>3 DEF Synaptics!AssignIf
  <2>4. CASE f.last # 1
    BY <2>2, <2>4 DEF Synaptics!AssignIf
  <2> QED BY <2>3, <2>4
<1>3. /\ f.count = 2 => AfterLift(f, far, far2) = two
      /\ f.count = 3 => AfterLift(f, far, far2) = three
      /\ f.count = 4 /\ f.last < 3 => AfterLift(f, far, far2) = four
      /\ f.count = 4 /\ ~ (f.last < 3) => AfterLift(f, far, far2) = other
  BY DEF AfterLift
<1> HIDE DEF two, three, four, other, far3
<1>4. SameCounts(f, two) /\ (f.last < 3 => FitsFirst(two, 2)) /\ (f.last = 3 => FitsFirst(two, 3))
  <2>1. CASE f.last = 1
    <3>1. /\ FitsFirst(Synaptics!AssignVirtualFinger(f, 1), 1 + 1)
          /\ SameCounts(f, Synaptics!AssignVirtualFinger(f, 1))
      BY <2>1, NextFinger
    <3> QED BY <1>2, <2>1, <3>1
  <2>2. CASE f.last # 1
    BY <1>1, <1>2, <2>2
  <2> QED BY <2>1, <2>2
<1>5. f.last < 3 => FitsFirst(three, 3) /\ SameCounts(two, three)
  <2>1. f.last < 3 => far \in (0 .. 2 - 1) \cup {Synaptics!None} /\ 2 \in 1 .. 3
    OBVIOUS
  <2>2. f.last < 3 => FitsFirst(three, 2 + 1) /\ SameCounts(two, three)
    BY <1>4, <2>1, AddedFits DEF three
  <2> QED BY <2>2
<1>6. f.last < 3 => FitsFirst(four, 4) /\ SameCounts(three, four)
  <2>1. f.last < 3 => far3 \in (0 .. 3 - 1) \cup {Synaptics!None} /\ 3 \in 1 .. 3
    BY DEF far3
  <2>2. f.last < 3 => FitsFirst(four, 3 + 1) /\ SameCounts(three, four)
    BY <1>5, <2>1, AddedFits DEF four
  <2> QED BY <2>2
<1>7. f.last = 3 => FitsFirst(other, 4) /\ SameCounts(two, other)
  <2>1. f.last = 3 => far \in (0 .. 3 - 1) \cup {Synaptics!None} /\ 3 \in 1 .. 3
    OBVIOUS
  <2>2. f.last = 3 => FitsFirst(other, 3 + 1) /\ SameCounts(two, other)
    BY <1>4, <2>1, AddedFits DEF other
  <2> QED BY <2>2
<1>8. CASE f.count = 2
  BY <1>3, <1>4, <1>8
<1>9. CASE f.count = 3
  BY <1>3, <1>4, <1>5, <1>9 DEF SameCounts
<1>10. CASE f.count = 4 /\ f.last < 3
  BY <1>3, <1>4, <1>5, <1>6, <1>10 DEF SameCounts
<1>11. CASE f.count = 4 /\ ~ (f.last < 3)
  BY <1>3, <1>4, <1>7, <1>11 DEF SameCounts
<1> QED BY <1>8, <1>9, <1>10, <1>11

(* So the fingers added after a lift are numbered (renumberFingers). *)
LEMMA MoreAfterLiftFits ==
    ASSUME NEW f, f.last \in 1 .. 3, f.count \in 2 .. 4, f.last < f.count,
           FitsFirst(f, f.last),
           \A i \in Synaptics!Finger : f.index[i] # Synaptics!None <=> i < f.last,
           NEW far \in (0 .. f.last - 1) \cup {Synaptics!None},
           NEW far2 \in (0 .. f.last - 1) \cup {Synaptics!None}
    PROVE  /\ FitsFirst(Synaptics!MoreAfterLift(f, far, far2), f.count)
           /\ SameCounts(f, Synaptics!MoreAfterLift(f, far, far2))
<1> DEFINE a == AfterLift(f, far, far2)
<1>1. FitsFirst(a, f.count) /\ SameCounts(f, a)
  BY AfterLiftFits
<1>2. Synaptics!MoreAfterLift(f, far, far2) = Synaptics!FreeAndMarkVirtualFingers(a)
  BY AfterLiftIs
<1> HIDE DEF a
<1>3. a.count = f.count
  BY <1>1 DEF SameCounts
<1>4. /\ FitsFirst(Synaptics!FreeAndMarkVirtualFingers(a), f.count)
      /\ SameCounts(a, Synaptics!FreeAndMarkVirtualFingers(a))
  BY <1>1, <1>3, MarkedFits
<1> QED BY <1>1, <1>2, <1>4 DEF SameCounts

-----------------------------------------------------------------------------
(* Some were lifted: new links change nothing else. *)
LEMMA ReindexIs ==
    ASSUME NEW f \in Synaptics!Driver,
           NEW index \in [Synaptics!Finger -> Synaptics!Finger \cup {Synaptics!None}]
    PROVE  FingersAre([f EXCEPT !.lift = f.count > 0, !.index = index],
                      f, index, f.touch, f.type, f.free)
<1> DEFINE b == f.count > 0
           a == [f EXCEPT !.lift = b]
<1>1. b \in BOOLEAN
  OBVIOUS
<1> HIDE DEF b
<1>2. FingersAre(a, f, f.index, f.touch, f.type, f.free)
  BY <1>1 DEF FingersAre, SameCounts, Synaptics!Driver
<1>3. [f EXCEPT !.lift = b, !.index = index] = [a EXCEPT !.index = index]
  BY DEF Synaptics!Driver
<1> HIDE DEF a
<1>4. FingersAre([a EXCEPT !.index = index], a, index, a.touch, a.type, a.free)
  BY <1>2, SetIndex DEF FingersAre, SameCounts
<1>5. FingersAre([f EXCEPT !.lift = b, !.index = index], f, index, f.touch, f.type, f.free)
  BY <1>2, <1>3, <1>4 DEF FingersAre, SameCounts
<1> QED BY <1>5 DEF b

(* The driver once the remaining fingers have their links *)
Lifted(f, nearest) ==
    [f EXCEPT !.lift = f.count > 0,
              !.index = [i \in Synaptics!Finger |-> IF i < f.count THEN nearest[i]
                                                    ELSE Synaptics!None]]

(* What the choices of FewerFingers are *)
LEMMA NearestIs ==
    ASSUME NEW f, NEW n \in Synaptics!Nearest(f)
    PROVE  /\ n \in [0 .. f.count - 1 -> f.touch \cup {Synaptics!None}]
           /\ \A i, j \in 0 .. f.count - 1 : i # j /\ n[i] # Synaptics!None => n[i] # n[j]
           /\ \A i \in 0 .. f.count - 1 :
                 n[i] = Synaptics!None <=> i >= Synaptics!Cardinality(f.touch)
BY DEF Synaptics!Nearest

(* The links before the marking *)
LEMMA LiftedIs ==
    ASSUME NEW f \in Synaptics!Driver, NEW n \in Synaptics!Nearest(f)
    PROVE  LET index == [i \in Synaptics!Finger |-> IF i < f.count THEN n[i]
                                                    ELSE Synaptics!None]
           IN  FingersAre(Lifted(f, n), f, index, f.touch, f.type, f.free)
<1> DEFINE index == [i \in Synaptics!Finger |-> IF i < f.count THEN n[i] ELSE Synaptics!None]
<1>1. n \in [0 .. f.count - 1 -> f.touch \cup {Synaptics!None}]
  BY NearestIs
<1>2. f.count \in 0 .. 5 /\ f.touch \subseteq Synaptics!Finger
  BY DriverFields
<1>3. index \in [Synaptics!Finger -> Synaptics!Finger \cup {Synaptics!None}]
  BY <1>1, <1>2 DEF Synaptics!Finger
<1>4. Lifted(f, n) = [f EXCEPT !.lift = f.count > 0, !.index = index]
  BY DEF Lifted
<1> HIDE DEF index
<1>5. FingersAre(Lifted(f, n), f, index, f.touch, f.type, f.free)
  BY <1>3, <1>4, ReindexIs
<1> QED BY <1>5 DEF index

(* The remaining fingers keep virtual fingers that were different before. *)
LEMMA FewerFits ==
    ASSUME NEW f \in Synaptics!Driver, f.count < f.last, NEW n \in Synaptics!Nearest(f),
           FitsFirst(f, f.last) \/ f.count = 0
    PROVE  /\ FitsFirst(Synaptics!FewerFingers(f, n), f.count)
           /\ SameCounts(f, Synaptics!FewerFingers(f, n))
<1> DEFINE a == Lifted(f, n)
           T == IF f.count = 0 THEN {} ELSE f.touch
           index == [i \in Synaptics!Finger |-> IF i < f.count THEN n[i] ELSE Synaptics!None]
<1>1. Synaptics!FewerFingers(f, n) = Synaptics!FreeAndMarkVirtualFingers(a)
  BY DEF Synaptics!FewerFingers, Lifted
<1>2. FingersAre(a, f, index, f.touch, f.type, f.free)
  BY LiftedIs
<1>3. f.count \in 0 .. 5 /\ f.last \in 0 .. 5 /\ f.touch \subseteq Synaptics!Finger
  BY DriverFields
<1> HIDE DEF a
<1>4. a \in Synaptics!Driver /\ a.count = f.count /\ a.index = index /\ a.type = f.type
  BY <1>2 DEF FingersAre, SameCounts
<1>5. T \in SUBSET Synaptics!Finger /\ Distinct(a, T)
  <2>1. CASE f.count = 0
    BY <2>1 DEF Distinct
  <2>2. CASE f.count # 0
    <3>1. Distinct(f, f.touch)
      BY <2>2 DEF FitsFirst, Fits, Typed
    <3> QED BY <1>3, <1>4, <2>2, <3>1 DEF Distinct
  <2> QED BY <2>1, <2>2
<1>6. \A i \in 0 .. f.count - 1 : i \in Synaptics!Finger /\ i < f.count
  BY <1>3 DEF Synaptics!Finger
<1>7. \A i \in 0 .. f.count - 1 : a.index[i] = n[i]
  BY <1>4, <1>6
<1>8. \A i \in 0 .. f.count - 1 : n[i] \in T /\ n[i] # Synaptics!None
  <2> SUFFICES ASSUME NEW i \in 0 .. f.count - 1 PROVE n[i] \in T /\ n[i] # Synaptics!None
    OBVIOUS
  <2>1. f.count # 0
    BY <1>3
  <2>2. Synaptics!Cardinality(f.touch) = f.last
    BY <1>3, <2>1, TouchCount, SynapticsCardinality
  <2>3. n[i] # Synaptics!None
    <3>1. n[i] = Synaptics!None <=> i >= f.last
      BY <2>2, NearestIs
    <3> QED BY <1>3, <3>1
  <2>4. n[i] \in f.touch \cup {Synaptics!None}
    BY NearestIs
  <2>5. T = f.touch
    BY <2>1
  <2> HIDE DEF T
  <2> QED BY <2>3, <2>4, <2>5
<1>9. \A i, j \in 0 .. f.count - 1 : n[i] = n[j] => i = j
  BY <1>8, NearestIs
<1> HIDE DEF T, index
<1>10. /\ \A i \in 0 .. a.count - 1 : a.index[i] \in T
       /\ \A i, j \in 0 .. a.count - 1 : a.index[i] = a.index[j] => i = j
  BY <1>4, <1>7, <1>8, <1>9
<1>11. /\ Fits(Synaptics!FreeAndMarkVirtualFingers(a), 0 .. a.count - 1)
       /\ SameCounts(a, Synaptics!FreeAndMarkVirtualFingers(a))
  BY <1>4, <1>5, <1>10, Marked
<1>12. SameCounts(f, a)
  BY <1>2 DEF FingersAre
<1> QED BY <1>1, <1>4, <1>11, <1>12 DEF FitsFirst, SameCounts

-----------------------------------------------------------------------------
(* Whatever fingers there are, renumbering them leaves the counts and the  *)
(* trackpoint's button alone.                                              *)
LEMMA CountsSelf == ASSUME NEW f \in Synaptics!Driver PROVE SameCounts(f, f)
BY DEF SameCounts

(* The counts are kept by two steps if they are kept by each. *)
LEMMA CountsTwice ==
    ASSUME NEW f, NEW g, NEW h, SameCounts(f, g), SameCounts(g, h)
    PROVE  SameCounts(f, h)
BY DEF SameCounts

(* What keeps the counts is a state of the driver. *)
LEMMA CountsType == ASSUME NEW f, NEW g, SameCounts(f, g) PROVE g \in Synaptics!Driver
BY DEF SameCounts

(* A new link and type, ... *)
LEMMA LinkedKeeps ==
    ASSUME NEW f \in Synaptics!Driver, NEW i \in Synaptics!Finger, NEW v \in Synaptics!Finger
    PROVE  SameCounts(f, Linked(f, i, v))
<1> DEFINE a == [f EXCEPT !.index[i] = v, !.touch = @ \cup {v}]
<1>1. SameCounts(f, a)
  BY LinkIs DEF FingersAre
<1>2. Linked(f, i, v) = Synaptics!AssignFingerType(a, v)
  BY DEF Linked
<1> HIDE DEF a
<1>3. a \in Synaptics!Driver
  BY <1>1, CountsType
<1>4. SameCounts(a, Synaptics!AssignFingerType(a, v))
  BY <1>3, TypeGiven
<1> QED BY <1>1, <1>2, <1>4, CountsTwice

(* ... assignVirtualFinger, ... *)
LEMMA AssignKeeps ==
    ASSUME NEW f \in Synaptics!Driver, NEW i \in Synaptics!Finger
    PROVE  SameCounts(f, Synaptics!AssignVirtualFinger(f, i))
<1>1. CASE f.touch = Synaptics!Finger
  BY <1>1, CountsSelf DEF Synaptics!AssignVirtualFinger
<1>2. CASE f.touch # Synaptics!Finger
  <2>1. PICK v \in Synaptics!Finger \ f.touch :
            Synaptics!AssignVirtualFinger(f, i) = Linked(f, i, v)
    BY <1>2, AssignIs
  <2>2. SameCounts(f, Linked(f, i, v))
    BY LinkedKeeps
  <2> QED BY <2>1, <2>2
<1> QED BY <1>1, <1>2

(* ... swapFingers, ... *)
LEMMA SwapKeeps ==
    ASSUME NEW f \in Synaptics!Driver, NEW dst \in Synaptics!Finger, NEW src \in Synaptics!Finger
    PROVE  SameCounts(f, Synaptics!SwapFingers(f, dst, src))
<1> DEFINE index == [f.index EXCEPT ![dst] = f.index[src]]
           a == [f EXCEPT !.index[dst] = f.index[src]]
<1>1. index \in [Synaptics!Finger -> Synaptics!Finger \cup {Synaptics!None}]
  BY DriverFields
<1>2. a = [f EXCEPT !.index = index]
  BY DEF Synaptics!Driver
<1>3. Synaptics!SwapFingers(f, dst, src) = Synaptics!AssignVirtualFinger(a, src)
  BY DEF Synaptics!SwapFingers
<1> HIDE DEF index, a
<1>4. SameCounts(f, a)
  BY <1>1, <1>2, SetIndex DEF FingersAre
<1>5. a \in Synaptics!Driver
  BY <1>4, CountsType
<1>6. SameCounts(a, Synaptics!AssignVirtualFinger(a, src))
  BY <1>5, AssignKeeps
<1> QED BY <1>3, <1>4, <1>6, CountsTwice

(* ... a round for the first fingers ... *)
LEMMA FirstTouchKeeps ==
    ASSUME NEW f, NEW g, SameCounts(f, g), NEW n \in 0 .. 5, NEW i \in Synaptics!Finger
    PROVE  SameCounts(f, FirstTouch(n, g, i))
<1>1. g \in Synaptics!Driver
  BY CountsType
<1>2. SameCounts(g, Linked(g, i, i))
  BY <1>1, LinkedKeeps
<1>3. SameCounts(f, Linked(g, i, i))
  BY <1>2, CountsTwice
<1> QED BY <1>3 DEF FirstTouch

(* ... and all of them, ... *)
LEMMA FirstKeeps ==
    ASSUME NEW f \in Synaptics!Driver
    PROVE  SameCounts(f, Synaptics!FirstFingers(f))
<1> DEFINE n == f.count
           a == FirstTouch(n, f, 0)
           b == FirstTouch(n, a, 1)
           c == FirstTouch(n, b, 2)
           d == FirstTouch(n, c, 3)
           e == FirstTouch(n, d, 4)
<1>1. Synaptics!FirstFingers(f) = e
  BY DEF Synaptics!FirstFingers, FirstTouch, Linked
<1>2. n \in 0 .. 5 /\ SameCounts(f, f)
  BY DriverFields, CountsSelf
<1>3. {0, 1, 2, 3, 4} \subseteq Synaptics!Finger
  BY DEF Synaptics!Finger
<1> HIDE DEF n, a, b, c, d, e
<1>4. SameCounts(f, a)
  BY <1>2, <1>3, FirstTouchKeeps DEF a
<1>5. SameCounts(f, b)
  BY <1>2, <1>3, <1>4, FirstTouchKeeps DEF b
<1>6. SameCounts(f, c)
  BY <1>2, <1>3, <1>5, FirstTouchKeeps DEF c
<1>7. SameCounts(f, d)
  BY <1>2, <1>3, <1>6, FirstTouchKeeps DEF d
<1>8. SameCounts(f, e)
  BY <1>2, <1>3, <1>7, FirstTouchKeeps DEF e
<1> QED BY <1>1, <1>8

(* ... fingers that are added, ... *)
LEMMA MoreKeeps ==
    ASSUME NEW f \in Synaptics!Driver, f.last > 0, f.count > f.last
    PROVE  SameCounts(f, Synaptics!MoreFingers(f))
<1>0. f.count \in 0 .. 5 /\ f.last \in 0 .. 5 /\ 1 \in Synaptics!Finger
      /\ 2 \in Synaptics!Finger /\ 3 \in Synaptics!Finger /\ 4 \in Synaptics!Finger
  BY DriverFields DEF Synaptics!Finger
<1>1. CASE f.last = 1
  <2> DEFINE two == Synaptics!AssignVirtualFinger(f, 1)
             three == Synaptics!AssignIf(two, 2, f.count > 2)
             four == Synaptics!AssignIf(three, 3, f.count > 3)
             five == Synaptics!AssignIf(four, 4, f.count > 4)
  <2>1. Synaptics!MoreFingers(f) = five
    BY <1>1 DEF Synaptics!MoreFingers
  <2>2. /\ three = two \/ three = Synaptics!AssignVirtualFinger(two, 2)
        /\ four = three \/ four = Synaptics!AssignVirtualFinger(three, 3)
        /\ five = four \/ five = Synaptics!AssignVirtualFinger(four, 4)
    BY DEF Synaptics!AssignIf
  <2>3. SameCounts(f, two)
    BY <1>0, AssignKeeps
  <2> HIDE DEF two, three, four, five
  <2>4. SameCounts(f, three)
    BY <1>0, <2>2, <2>3, CountsType, AssignKeeps, CountsTwice
  <2>5. SameCounts(f, four)
    BY <1>0, <2>2, <2>4, CountsType, AssignKeeps, CountsTwice
  <2>6. SameCounts(f, five)
    BY <1>0, <2>2, <2>5, CountsType, AssignKeeps, CountsTwice
  <2> QED BY <2>1, <2>6
<1>2. CASE f.last # 1
  <2> DEFINE a == Synaptics!SwapFingers(f, f.last, 1)
             b == Synaptics!AssignVirtualFinger(f, 1)
             c == Synaptics!AssignVirtualFinger(b, 2)
  <2>0. f.last \in Synaptics!Finger
    BY <1>0 DEF Synaptics!Finger
  <2>1. SameCounts(f, a)
    BY <1>0, <2>0, SwapKeeps
  <2>2. SameCounts(f, b)
    BY <1>0, AssignKeeps
  <2>3. CASE f.count - f.last = 1
    BY <1>2, <2>1, <2>3 DEF Synaptics!MoreFingers
  <2>4. CASE f.count - f.last = 2
    <3>1. Synaptics!MoreFingers(f) = Synaptics!AssignVirtualFinger(a, 3)
      <4>1. f.last # 1 /\ f.count - f.last # 1
        BY <1>2, <2>4
      <4> QED BY <2>4, <4>1 DEF Synaptics!MoreFingers
    <3> HIDE DEF a
    <3>2. SameCounts(a, Synaptics!AssignVirtualFinger(a, 3))
      BY <1>0, <2>1, CountsType, AssignKeeps
    <3> QED BY <2>1, <3>1, <3>2, CountsTwice
  <2>5. CASE f.count - f.last = 3
    <3>1. Synaptics!MoreFingers(f) = Synaptics!AssignVirtualFinger(c, 3)
      <4>1. f.last # 1 /\ f.count - f.last # 1 /\ f.count - f.last # 2
        BY <1>2, <2>5
      <4> QED BY <2>5, <4>1 DEF Synaptics!MoreFingers
    <3> HIDE DEF b
    <3>2. SameCounts(b, c)
      BY <1>0, <2>2, CountsType, AssignKeeps
    <3>3. SameCounts(f, c)
      BY <2>2, <3>2, CountsTwice
    <3> HIDE DEF c
    <3>4. SameCounts(c, Synaptics!AssignVirtualFinger(c, 3))
      BY <1>0, <3>3, CountsType, AssignKeeps
    <3> QED BY <3>1, <3>3, <3>4, CountsTwice
  <2>6. f.count - f.last \in 1 .. 3
    BY <1>0, <1>2
  <2> QED BY <2>3, <2>4, <2>5, <2>6
<1> QED BY <1>1, <1>2

(* ... one of them ... *)
LEMMA AddedKeeps ==
    ASSUME NEW f, NEW g, SameCounts(f, g), NEW n \in Synaptics!Finger,
           NEW src \in Synaptics!Finger \cup {Synaptics!None}
    PROVE  SameCounts(f, Added(g, n, src))
<1>1. g \in Synaptics!Driver
  BY CountsType
<1>2. src # Synaptics!None => SameCounts(g, Synaptics!SwapFingers(g, n, src))
  BY <1>1, SwapKeeps
<1>3. SameCounts(g, Synaptics!AssignVirtualFinger(g, n))
  BY <1>1, AssignKeeps
<1>4. SameCounts(g, Added(g, n, src))
  BY <1>2, <1>3 DEF Added
<1> QED BY <1>4, CountsTwice

(* ... after a lift, ... *)
LEMMA MoreAfterLiftKeeps ==
    ASSUME NEW f \in Synaptics!Driver, f.count \in 2 .. 5,
           NEW far \in Synaptics!Finger \cup {Synaptics!None},
           NEW far2 \in Synaptics!Finger \cup {Synaptics!None}
    PROVE  SameCounts(f, Synaptics!MoreAfterLift(f, far, far2))
<1> DEFINE one == Synaptics!AssignIf(f, 0, f.index[0] = Synaptics!None)
           two == Synaptics!AssignIf(one, 1, f.index[1] = Synaptics!None)
           far3 == IF far = Synaptics!None THEN Synaptics!None ELSE far2
           three == Added(two, 2, far)
           four == Added(three, 3, far3)
           other == Added(two, 3, far)
           a == AfterLift(f, far, far2)
<1>0. f.last \in 0 .. 5 /\ {0, 1, 2, 3, 4} \subseteq Synaptics!Finger
  BY DriverFields DEF Synaptics!Finger
<1>1. /\ one = f \/ one = Synaptics!AssignVirtualFinger(f, 0)
      /\ two = one \/ two = Synaptics!AssignVirtualFinger(one, 1)
  BY DEF Synaptics!AssignIf
<1>2. /\ f.count = 2 => a = two
      /\ f.count = 3 => a = three
      /\ f.count = 4 /\ f.last < 3 => a = four
      /\ f.count = 4 /\ ~ (f.last < 3) => a = other
      /\ f.count = 5 /\ f.last < 3 => a = Synaptics!AssignVirtualFinger(four, 4)
      /\ f.count = 5 /\ ~ (f.last < 3) => a = Synaptics!AssignVirtualFinger(other, 4)
  BY DEF AfterLift
<1>3. far3 \in Synaptics!Finger \cup {Synaptics!None}
  OBVIOUS
<1>4. Synaptics!MoreAfterLift(f, far, far2) = Synaptics!FreeAndMarkVirtualFingers(a)
  BY <1>0, AfterLiftIs
<1> HIDE DEF one, two, far3, three, four, other, a
<1>5. SameCounts(f, one)
  BY <1>0, <1>1, CountsSelf, AssignKeeps
<1>6. SameCounts(f, two)
  BY <1>0, <1>1, <1>5, CountsType, AssignKeeps, CountsTwice
<1>7. SameCounts(f, three)
  BY <1>0, <1>6, AddedKeeps DEF three
<1>8. SameCounts(f, four)
  BY <1>0, <1>3, <1>7, AddedKeeps DEF four
<1>9. SameCounts(f, other)
  BY <1>0, <1>6, AddedKeeps DEF other
<1>10. /\ SameCounts(f, Synaptics!AssignVirtualFinger(four, 4))
       /\ SameCounts(f, Synaptics!AssignVirtualFinger(other, 4))
  BY <1>0, <1>8, <1>9, CountsType, AssignKeeps, CountsTwice
<1>11. SameCounts(f, a)
  BY <1>2, <1>6, <1>7, <1>8, <1>9, <1>10
<1>12. a \in Synaptics!Driver
  BY <1>11, CountsType
<1>13. SameCounts(a, Synaptics!FreeAndMarkVirtualFingers(a))
  BY <1>12, MarkIs DEF FingersAre
<1> QED BY <1>4, <1>11, <1>13, CountsTwice

(* ... and fingers that are lifted keep the counts. *)
LEMMA FewerKeeps ==
    ASSUME NEW f \in Synaptics!Driver, NEW n \in Synaptics!Nearest(f)
    PROVE  SameCounts(f, Synaptics!FewerFingers(f, n))
<1> DEFINE a == Lifted(f, n)
<1>1. Synaptics!FewerFingers(f, n) = Synaptics!FreeAndMarkVirtualFingers(a)
  BY DEF Synaptics!FewerFingers, Lifted
<1>2. SameCounts(f, a)
  BY LiftedIs DEF FingersAre
<1> HIDE DEF a
<1>3. a \in Synaptics!Driver
  BY <1>2, CountsType
<1>4. SameCounts(a, Synaptics!FreeAndMarkVirtualFingers(a))
  BY <1>3, MarkIs DEF FingersAre
<1> QED BY <1>1, <1>2, <1>4, CountsTwice

-----------------------------------------------------------------------------
(* The ways in which the fingers are numbered anew *)
RenumberedAs(f, g) ==
    \/ f.count = f.last /\ g = f
    \/ f.last = 0 /\ f.count > 0 /\ g = Synaptics!FirstFingers(f)
    \/ f.last > 0 /\ f.count > f.last /\ g = Synaptics!MoreFingers(f)
    \/ /\ f.last > 0 /\ f.count > f.last
       /\ \E m \in Synaptics!Matchings(f) :
             \E far, far2 \in {i \in Synaptics!Finger : m[i] # Synaptics!None}
                               \cup {Synaptics!None} :
                g = Synaptics!MoreAfterLift([f EXCEPT !.index = m], far, far2)
    \/ f.count < f.last /\ \E n \in Synaptics!Nearest(f) : g = Synaptics!FewerFingers(f, n)

(* There are no others (renumberFingers). *)
LEMMA RenumberedCases ==
    ASSUME NEW f \in Synaptics!Driver, NEW g \in Synaptics!Renumbered(f)
    PROVE  RenumberedAs(f, g)
<1>0. f.count \in 0 .. 5 /\ f.last \in 0 .. 5
  BY DriverFields
<1>1. CASE f.count = f.last
  BY <1>1 DEF Synaptics!Renumbered, RenumberedAs
<1>2. CASE f.last = 0 /\ f.count > 0
  <2>1. ~ (f.count = f.last) /\ ~ (f.last > 0) /\ ~ (f.count < f.last)
    BY <1>0, <1>2
  <2> QED BY <1>2, <2>1 DEF Synaptics!Renumbered, RenumberedAs
<1>3. CASE f.last > 0 /\ f.count > f.last /\ ~ f.lift
  <2>1. ~ (f.count = f.last) /\ ~ (f.last = 0) /\ ~ (f.count < f.last)
    BY <1>0, <1>3
  <2> QED BY <1>3, <2>1 DEF Synaptics!Renumbered, RenumberedAs
<1>4. CASE f.last > 0 /\ f.count > f.last /\ f.lift
  <2>1. ~ (f.count = f.last) /\ ~ (f.last = 0) /\ ~ (f.count < f.last)
    BY <1>0, <1>4
  <2>2. Synaptics!Renumbered(f) =
            UNION {LET h == [f EXCEPT !.index = m]
                       given == {i \in Synaptics!Finger : m[i] # Synaptics!None}
                   IN  {Synaptics!MoreAfterLift(h, Synaptics!None, Synaptics!None)} \cup
                       UNION {{Synaptics!MoreAfterLift(h, far, far2) :
                                  far2 \in (given \ {far}) \cup {Synaptics!None}} : far \in given} :
                   m \in Synaptics!Matchings(f)}
    BY <1>4, <2>1 DEF Synaptics!Renumbered
  <2>3. PICK m \in Synaptics!Matchings(f) :
            LET h == [f EXCEPT !.index = m]
                given == {i \in Synaptics!Finger : m[i] # Synaptics!None}
            IN  g \in {Synaptics!MoreAfterLift(h, Synaptics!None, Synaptics!None)} \cup
                       UNION {{Synaptics!MoreAfterLift(h, far, far2) :
                                  far2 \in (given \ {far}) \cup {Synaptics!None}} : far \in given}
    BY <2>2
  <2> DEFINE h == [f EXCEPT !.index = m]
             given == {i \in Synaptics!Finger : m[i] # Synaptics!None}
  <2>4. g \in {Synaptics!MoreAfterLift(h, Synaptics!None, Synaptics!None)} \cup
                       UNION {{Synaptics!MoreAfterLift(h, far, far2) :
                                  far2 \in (given \ {far}) \cup {Synaptics!None}} : far \in given}
    BY <2>3
  <2> HIDE DEF h, given
  <2>5. \E far, far2 \in given \cup {Synaptics!None} : g = Synaptics!MoreAfterLift(h, far, far2)
    <3>1. CASE g = Synaptics!MoreAfterLift(h, Synaptics!None, Synaptics!None)
      BY <3>1
    <3>2. CASE g \in UNION {{Synaptics!MoreAfterLift(h, far, far2) :
                                  far2 \in (given \ {far}) \cup {Synaptics!None}} : far \in given}
      BY <3>2
    <3> QED BY <2>4, <3>1, <3>2
  <2> QED BY <1>4, <2>5 DEF RenumberedAs, h, given
<1>5. CASE f.count < f.last
  <2>1. ~ (f.count = f.last) /\ ~ (f.last = 0) /\ ~ (f.count > f.last)
    BY <1>0, <1>5
  <2> QED BY <1>5, <2>1 DEF Synaptics!Renumbered, RenumberedAs
<1> QED BY <1>0, <1>1, <1>2, <1>3, <1>4, <1>5

(* All of them keep the counts. *)
LEMMA RenumberedKeeps ==
    ASSUME NEW f \in Synaptics!Driver, NEW g \in Synaptics!Renumbered(f)
    PROVE  SameCounts(f, g)
<1>0. f.count \in 0 .. 5 /\ f.last \in 0 .. 5
  BY DriverFields
<1>1. RenumberedAs(f, g)
  BY RenumberedCases
<1>2. CASE f.count = f.last /\ g = f
  BY <1>2, CountsSelf
<1>3. CASE f.last = 0 /\ f.count > 0 /\ g = Synaptics!FirstFingers(f)
  BY <1>3, FirstKeeps
<1>4. CASE f.last > 0 /\ f.count > f.last /\ g = Synaptics!MoreFingers(f)
  BY <1>4, MoreKeeps
<1>5. ASSUME f.last > 0, f.count > f.last, NEW m \in Synaptics!Matchings(f),
             NEW far \in {i \in Synaptics!Finger : m[i] # Synaptics!None} \cup {Synaptics!None},
             NEW far2 \in {i \in Synaptics!Finger : m[i] # Synaptics!None} \cup {Synaptics!None},
             g = Synaptics!MoreAfterLift([f EXCEPT !.index = m], far, far2)
      PROVE  SameCounts(f, g)
  <2> DEFINE h == [f EXCEPT !.index = m]
  <2>1. FingersAre(h, f, m, f.touch, f.type, f.free)
    BY MatchingType, SetIndex
  <2> HIDE DEF h
  <2>2. SameCounts(f, h) /\ h \in Synaptics!Driver /\ h.count = f.count
    BY <2>1 DEF FingersAre, SameCounts
  <2>3. h.count \in 2 .. 5
    BY <1>0, <1>5, <2>2
  <2>4. /\ far \in Synaptics!Finger \cup {Synaptics!None}
        /\ far2 \in Synaptics!Finger \cup {Synaptics!None}
    OBVIOUS
  <2>5. SameCounts(h, Synaptics!MoreAfterLift(h, far, far2))
    BY <2>2, <2>3, <2>4, MoreAfterLiftKeeps
  <2>6. g = Synaptics!MoreAfterLift(h, far, far2)
    BY <1>5 DEF h
  <2> QED BY <2>2, <2>5, <2>6, CountsTwice
<1>6. ASSUME NEW n \in Synaptics!Nearest(f), g = Synaptics!FewerFingers(f, n)
      PROVE  SameCounts(f, g)
  BY <1>6, FewerKeeps
<1> QED BY <1>1, <1>2, <1>3, <1>4, <1>5, <1>6 DEF RenumberedAs

(* The fingers that were there before are numbered, or none is left. *)
Numberable(f) ==
    /\ f.count <= 4 /\ f.last <= 4
    /\ FitsFirst(f, f.last) \/ (f.count = 0 /\ f.last > 0)

(* Then the fingers there are now are numbered, too. *)
LEMMA RenumberedFits ==
    ASSUME NEW f \in Synaptics!Driver, Numberable(f), NEW g \in Synaptics!Renumbered(f)
    PROVE  FitsFirst(g, f.count)
<1>0. f.count \in 0 .. 4 /\ f.last \in 0 .. 4
  <2>1. f.count \in 0 .. 5 /\ f.last \in 0 .. 5
    BY DriverFields
  <2> QED BY <2>1 DEF Numberable
<1>1. RenumberedAs(f, g)
  BY RenumberedCases
<1>2. CASE f.count = f.last /\ g = f
  BY <1>2 DEF Numberable
<1>3. CASE f.last = 0 /\ f.count > 0 /\ g = Synaptics!FirstFingers(f)
  <2>1. FitsFirst(f, 0)
    BY <1>3 DEF Numberable
  <2> QED BY <1>0, <1>3, <2>1, FirstFits
<1>4. CASE f.last > 0 /\ f.count > f.last /\ g = Synaptics!MoreFingers(f)
  <2>1. FitsFirst(f, f.last) /\ f.last \in 1 .. 3 /\ f.count \in 2 .. 4
    BY <1>0, <1>4 DEF Numberable
  <2> QED BY <1>4, <2>1, MoreFits
<1>5. ASSUME f.last > 0, f.count > f.last, NEW m \in Synaptics!Matchings(f),
             NEW far \in {i \in Synaptics!Finger : m[i] # Synaptics!None} \cup {Synaptics!None},
             NEW far2 \in {i \in Synaptics!Finger : m[i] # Synaptics!None} \cup {Synaptics!None},
             g = Synaptics!MoreAfterLift([f EXCEPT !.index = m], far, far2)
      PROVE  FitsFirst(g, f.count)
  <2> DEFINE h == [f EXCEPT !.index = m]
  <2>1. FitsFirst(f, f.last) /\ f.last \in 1 .. 3 /\ f.last \in 1 .. 4 /\ f.count \in 2 .. 4
    BY <1>0, <1>5 DEF Numberable
  <2>2. /\ FitsFirst(h, f.last) /\ SameCounts(f, h) /\ h.index = m
        /\ \A i \in Synaptics!Finger : m[i] # Synaptics!None <=> i < f.last
    BY <2>1, Matched
  <2> HIDE DEF h
  <2>3. h.count = f.count /\ h.last = f.last
    BY <2>2 DEF SameCounts
  <2>4. \A i \in Synaptics!Finger : h.index[i] # Synaptics!None <=> i < h.last
    BY <2>2, <2>3
  <2>5. {i \in Synaptics!Finger : m[i] # Synaptics!None} \subseteq 0 .. h.last - 1
    BY <1>0, <2>2, <2>3 DEF Synaptics!Finger
  <2>6. /\ far \in (0 .. h.last - 1) \cup {Synaptics!None}
        /\ far2 \in (0 .. h.last - 1) \cup {Synaptics!None}
    BY <2>5
  <2>7. h.last \in 1 .. 3 /\ h.count \in 2 .. 4 /\ h.last < h.count /\ FitsFirst(h, h.last)
    BY <1>5, <2>1, <2>2, <2>3
  <2>8. FitsFirst(Synaptics!MoreAfterLift(h, far, far2), h.count)
    BY <2>4, <2>6, <2>7, MoreAfterLiftFits
  <2>9. g = Synaptics!MoreAfterLift(h, far, far2)
    BY <1>5 DEF h
  <2> QED BY <2>3, <2>8, <2>9
<1>6. ASSUME f.count < f.last, NEW n \in Synaptics!Nearest(f), g = Synaptics!FewerFingers(f, n)
      PROVE  FitsFirst(g, f.count)
  BY <1>6, FewerFits DEF Numberable
<1> QED BY <1>1, <1>2, <1>3, <1>4, <1>5, <1>6 DEF RenumberedAs

-----------------------------------------------------------------------------
(* g differs from f in neither fingers nor types. *)
SameFingers(f, g) ==
    g.index = f.index /\ g.touch = f.touch /\ g.type = f.type /\ g.free = f.free

(* Nothing but fingers and types decides on that. *)
LEMMA SameFits ==
    ASSUME NEW f, NEW g \in Synaptics!Driver, SameFingers(f, g), NEW n, FitsFirst(f, n)
    PROVE  FitsFirst(g, n)
BY DEF SameFingers, FitsFirst, Fits, Numbered, Typed, Distinct

(* g has the fingers of f and these counts. *)
Recounted(f, g, agm, count, last) ==
    /\ g \in Synaptics!Driver /\ SameFingers(f, g) /\ (g.pass <=> f.pass)
    /\ g.agm = agm /\ g.count = count /\ g.last = last

(* Storing one count changes neither fingers nor the others:               *)
(* clampedFingerCount, ...                                                 *)
LEMMA SetCount ==
    ASSUME NEW f \in Synaptics!Driver, NEW n \in 0 .. 5
    PROVE  Recounted(f, [f EXCEPT !.count = n], f.agm, n, f.last)
BY DEF Synaptics!Driver, Synaptics!Count, Recounted, SameFingers

(* ... lastFingerCount, ... *)
LEMMA SetLast ==
    ASSUME NEW f \in Synaptics!Driver, NEW n \in 0 .. 5
    PROVE  Recounted(f, [f EXCEPT !.last = n], f.agm, f.count, n)
BY DEF Synaptics!Driver, Synaptics!Count, Recounted, SameFingers

(* ... agmFingerCount; ... *)
LEMMA SetAgm ==
    ASSUME NEW f \in Synaptics!Driver, NEW n \in 0 .. 5
    PROVE  Recounted(f, [f EXCEPT !.agm = n], n, f.count, f.last)
BY DEF Synaptics!Driver, Synaptics!Count, Recounted, SameFingers

(* ... nor does storing wasSkipped ... *)
LEMMA SetSkipped ==
    ASSUME NEW f \in Synaptics!Driver, NEW b \in BOOLEAN
    PROVE  Recounted(f, [f EXCEPT !.skipped = b], f.agm, f.count, f.last)
BY DEF Synaptics!Driver, Recounted, SameFingers

(* ... or lastSentFingerCount. *)
LEMMA SetShown ==
    ASSUME NEW f \in Synaptics!Driver, NEW b \in BOOLEAN
    PROVE  Recounted(f, [f EXCEPT !.shown = b], f.agm, f.count, f.last)
BY DEF Synaptics!Driver, Recounted, SameFingers

(* renumberFingers, once the count is known *)
Renumber(f) ==
    LET more == f.count > f.last /\ f.count >= 3
    IN  IF Synaptics!Skips(f) THEN {[f EXCEPT !.skipped = TRUE]}
        ELSE LET done == Synaptics!Renumbered([f EXCEPT !.skipped = @ /\ ~ more])
             IN  IF f.count > f.last /\ f.count >= 4
                 THEN UNION {{Synaptics!WithThumb(g, v) : v \in g.touch} : g \in done}
                 ELSE done

(* A jump is a count of zero. *)
LEMMA RenumberIs ==
    ASSUME NEW old, NEW count, NEW jump
    PROVE  Synaptics!RenumberFingers(old, count, jump)
              = Renumber([old EXCEPT !.count = IF jump THEN 0 ELSE count])
BY DEF Synaptics!RenumberFingers, Renumber

(* renumberFingers keeps the counts; it leaves the fingers alone if it     *)
(* skips the report, and else numbers those there are.                     *)
LEMMA Renumbers ==
    ASSUME NEW f \in Synaptics!Driver, NEW g \in Renumber(f)
    PROVE  /\ SameCounts(f, g)
           /\ Synaptics!Skips(f) => SameFingers(f, g)
           /\ ~ Synaptics!Skips(f) /\ Numberable(f) => FitsFirst(g, f.count)
<1> DEFINE b == f.skipped /\ ~ (f.count > f.last /\ f.count >= 3)
           a == [f EXCEPT !.skipped = b]
           done == Synaptics!Renumbered(a)
<1>1. CASE Synaptics!Skips(f)
  <2>1. g = [f EXCEPT !.skipped = TRUE]
    BY <1>1 DEF Renumber
  <2>2. Recounted(f, g, f.agm, f.count, f.last)
    BY <2>1, SetSkipped
  <2> QED BY <1>1, <2>2 DEF Recounted, SameCounts
<1>2. CASE ~ Synaptics!Skips(f)
  <2>1. b \in BOOLEAN
    OBVIOUS
  <2>2. Renumber(f) = IF f.count > f.last /\ f.count >= 4
                      THEN UNION {{Synaptics!WithThumb(h, v) : v \in h.touch} : h \in done}
                      ELSE done
    <3>1. [f EXCEPT !.skipped = @ /\ ~ (f.count > f.last /\ f.count >= 3)] = a
      BY DEF Synaptics!Driver
    <3> QED BY <1>2, <3>1 DEF Renumber
  <2> HIDE DEF b
  <2>3. Recounted(f, a, f.agm, f.count, f.last)
    BY <2>1, SetSkipped
  <2> HIDE DEF a
  <2>4. a \in Synaptics!Driver /\ SameCounts(f, a) /\ SameFingers(f, a)
        /\ a.count = f.count /\ a.last = f.last
    BY <2>3 DEF Recounted, SameCounts
  <2>5. Numberable(f) => Numberable(a)
    BY <2>4, SameFits DEF Numberable
  <2>6. ASSUME NEW h \in done
        PROVE  SameCounts(f, h) /\ (Numberable(f) => FitsFirst(h, f.count))
    <3>1. SameCounts(a, h)
      BY <2>4, RenumberedKeeps
    <3>2. Numberable(a) => FitsFirst(h, a.count)
      BY <2>4, RenumberedFits
    <3> QED BY <2>4, <2>5, <3>1, <3>2, CountsTwice
  <2> HIDE DEF done
  <2>7. CASE f.count > f.last /\ f.count >= 4
    <3>1. PICK h \in done : \E v \in h.touch : g = Synaptics!WithThumb(h, v)
      BY <2>2, <2>7
    <3>2. PICK v \in h.touch : g = Synaptics!WithThumb(h, v)
      BY <3>1
    <3>3. SameCounts(f, h) /\ h \in Synaptics!Driver /\ (Numberable(f) => FitsFirst(h, f.count))
      BY <2>6, CountsType
    <3>4. v \in Synaptics!Finger
      BY <3>3, DriverFields
    <3>5. SameCounts(h, g)
      BY <3>2, <3>3, <3>4, ThumbIs DEF FingersAre
    <3>6. FitsFirst(h, f.count) => FitsFirst(g, f.count)
      BY <3>2, ThumbFits DEF FitsFirst
    <3> QED BY <1>2, <3>3, <3>5, <3>6, CountsTwice
  <2>8. CASE ~ (f.count > f.last /\ f.count >= 4)
    BY <1>2, <2>2, <2>6, <2>8
  <2> QED BY <2>7, <2>8
<1> QED BY <1>1, <1>2

-----------------------------------------------------------------------------
(* The lesser of two numbers *)
LEMMA LesserOf ==
    ASSUME NEW a \in Int, NEW b \in Int
    PROVE  Synaptics!Min({a, b}) = IF a <= b THEN a ELSE b
<1> DEFINE m == IF a <= b THEN a ELSE b
<1>1. m \in {a, b} /\ \A x \in {a, b} : m <= x
  OBVIOUS
<1>2. \A y \in {a, b} : (\A x \in {a, b} : y <= x) => y = m
  OBVIOUS
<1> HIDE DEF m
<1>3. Synaptics!Min({a, b}) = m
  BY <1>1, <1>2 DEF Synaptics!Min
<1> QED BY <1>3 DEF m

(* The greater of two numbers *)
LEMMA GreaterOf ==
    ASSUME NEW a \in Int, NEW b \in Int
    PROVE  Synaptics!Max({a, b}) = IF a >= b THEN a ELSE b
<1> DEFINE m == IF a >= b THEN a ELSE b
<1>1. m \in {a, b} /\ \A x \in {a, b} : m >= x
  OBVIOUS
<1>2. \A y \in {a, b} : (\A x \in {a, b} : y >= x) => y = m
  OBVIOUS
<1> HIDE DEF m
<1>3. Synaptics!Max({a, b}) = m
  BY <1>1, <1>2 DEF Synaptics!Max
<1> QED BY <1>3 DEF m

(* The driver counts no more fingers than the pad can tell. *)
LEMMA CountBounded ==
    ASSUME NEW n \in 1 .. 5, NEW down \in 0 .. n, NEW agm \in 0 .. n
    PROVE  /\ Synaptics!FingerCount(down, agm) \in 0 .. n
           /\ down = 1 => Synaptics!FingerCount(down, agm) = 1
<1> DEFINE k == IF agm <= 5 THEN agm ELSE 5
<1>0. k = agm /\ k \in Int /\ agm \in Int
  OBVIOUS
<1>1. Synaptics!Min({agm, 5}) = k
  BY <1>0, LesserOf
<1>2. /\ Synaptics!Max({2, k}) = IF 2 >= k THEN 2 ELSE k
      /\ Synaptics!Max({3, k}) = IF 3 >= k THEN 3 ELSE k
  BY <1>0, GreaterOf
<1> HIDE DEF k
<1>3. CASE down < 2
  BY <1>3 DEF Synaptics!FingerCount
<1>4. CASE down = 2
  <2>1. ~ (down < 2) /\ ~ (down > 2)
    BY <1>4
  <2>2. Synaptics!FingerCount(down, agm) = Synaptics!Max({2, k})
    BY <1>1, <1>4, <2>1 DEF Synaptics!FingerCount
  <2> QED BY <1>0, <1>2, <1>4, <2>2
<1>5. CASE down > 2
  <2>1. ~ (down < 2) /\ ~ (down = 2)
    BY <1>5
  <2>2. Synaptics!FingerCount(down, agm) = Synaptics!Max({3, k})
    BY <1>1, <1>5, <2>1 DEF Synaptics!FingerCount
  <2> QED BY <1>0, <1>2, <1>5, <2>2
<1> QED BY <1>3, <1>4, <1>5

(* An event has as many contacts as it has; ... *)
LEMMA ClientSurplus ==
    ASSUME NEW c \in Synaptics!Client, NEW n \in Int
    PROVE  [c EXCEPT !.surplus = n] \in Synaptics!Client
BY DEF Synaptics!Client

(* ... and the trackpoint's button is the one told. *)
LEMMA ClientStick ==
    ASSUME NEW c \in Synaptics!Client, NEW b \in BOOLEAN
    PROVE  /\ [c EXCEPT !.stick = b] \in Synaptics!Client
           /\ [c EXCEPT !.stick = b].stick <=> b
BY DEF Synaptics!Client

(* sendTouchData keeps the fingers, and stores their count unless it is    *)
(* quiet.                                                                  *)
LEMMA SynapticsSent ==
    ASSUME NEW f \in Synaptics!Driver, client \in Synaptics!Client, quiet \in BOOLEAN
    PROVE  /\ Recounted(f, Synaptics!SendTouchData(f).drv, f.agm, f.count,
                        IF quiet THEN f.last ELSE f.count)
           /\ Synaptics!SendTouchData(f).client \in Synaptics!Client
<1>0. f.count \in 0 .. 5 /\ f.last \in 0 .. 5
  BY DriverFields
<1>1. Recounted(f, f, f.agm, f.count, f.last)
  BY DEF Recounted, SameFingers
<1>2. CASE quiet
  BY <1>1, <1>2 DEF Synaptics!SendTouchData
<1>3. CASE ~ quiet /\ f.last # f.count
  <2>1. Synaptics!SendTouchData(f) = [drv |-> [f EXCEPT !.last = f.count], client |-> client]
    BY <1>3 DEF Synaptics!SendTouchData
  <2>2. Recounted(f, [f EXCEPT !.last = f.count], f.agm, f.count, f.count)
    BY <1>0, SetLast
  <2> QED BY <1>3, <2>1, <2>2
<1>4. CASE ~ quiet /\ f.last = f.count
  <2> DEFINE many == Synaptics!Cardinality(f.touch)
             b == many # 0
             c == IF b \/ f.shown THEN [client EXCEPT !.surplus = many - f.count] ELSE client
  <2>1. Synaptics!SendTouchData(f) = [drv |-> [f EXCEPT !.shown = b], client |-> c]
    BY <1>4 DEF Synaptics!SendTouchData
  <2>2. many \in Nat
    BY TouchFinite, FS_CardinalityType, SynapticsCardinality
  <2>3. b \in BOOLEAN
    OBVIOUS
  <2> HIDE DEF many
  <2>4. c \in Synaptics!Client
    <3>1. many - f.count \in Int
      BY <1>0, <2>2
    <3> QED BY <3>1, ClientSurplus
  <2> HIDE DEF b, c
  <2>5. Recounted(f, [f EXCEPT !.shown = b], f.agm, f.count, f.last)
    BY <2>3, SetShown
  <2> QED BY <1>4, <2>1, <2>4, <2>5
<1> QED BY <1>2, <1>3, <1>4

-----------------------------------------------------------------------------
(* The counts are the pad's, and the fingers of the last count have        *)
(* virtual fingers and types of their own.                                 *)
CountsInv ==
    /\ pad \in Synaptics!Pad /\ drv \in Synaptics!Driver /\ client \in Synaptics!Client
    /\ quiet \in BOOLEAN /\ missed \in Nat
    /\ drv.agm <= pad.is.fingers /\ drv.count <= pad.is.fingers /\ drv.last <= pad.is.fingers

(* ... as long as the pad tells four fingers at most and no packet fell    *)
(* into a quiet time.                                                      *)
FingersInv == missed = 0 /\ pad.is.fingers < 5 => FitsFirst(drv, drv.last)

(* The inductive invariant of the Synaptics driver *)
SynapticsInv == CountsInv /\ FingersInv

(* A pad can tell one to five fingers. *)
LEMMA PadFields ==
    ASSUME NEW p \in Synaptics!Pad
    PROVE  p.is \in Synaptics!Model /\ p.is.fingers \in 1 .. 5
BY DEF Synaptics!Pad, Synaptics!Model

(* A packet of the pad keeps the invariant and the trackpoint's button     *)
(* (synaptics_parse_normal_packet).                                        *)
LEMMA NormalPacketKeeps ==
    ASSUME SynapticsInv, NEW down \in 0 .. pad.is.fingers, NEW jump \in BOOLEAN,
           Synaptics!NormalPacket(down, jump)
    PROVE  SynapticsInv' /\ (client'.stick <=> drv.pass) /\ (drv'.pass <=> drv.pass)
<1> DEFINE n == pad.is.fingers
           agm == IF down < 2 THEN 0 ELSE drv.agm
           old == [drv EXCEPT !.agm = IF down < 2 THEN 0 ELSE @]
           count == Synaptics!FingerCount(down, drv.agm)
           c == IF jump THEN 0 ELSE count
           f == [old EXCEPT !.count = c]
           waits == Synaptics!Skips([old EXCEPT !.count = count])
<1>1. /\ pad \in Synaptics!Pad /\ drv \in Synaptics!Driver /\ client \in Synaptics!Client
      /\ quiet \in BOOLEAN /\ missed \in Nat
      /\ drv.agm <= n /\ drv.count <= n /\ drv.last <= n
      /\ FingersInv
  BY DEF SynapticsInv, CountsInv
<1>2. n \in 1 .. 5 /\ drv.agm \in 0 .. n /\ drv.last \in 0 .. n
  BY <1>1, PadFields, DriverFields
<1>3. count \in 0 .. n /\ (jump => count = 1)
  BY <1>2, CountBounded DEF Synaptics!NormalPacket
<1>4. PICK g \in Synaptics!RenumberFingers(old, count, jump) :
          LET sent == IF waits THEN [drv |-> g, client |-> client]
                      ELSE Synaptics!SendTouchData(g)
          IN  /\ drv' = sent.drv
              /\ client' = Synaptics!ReportButtons(sent.client)
              /\ missed' = CASE quiet -> missed + 1
                              [] ~ quiet -> IF g.count = 0 /\ old.last > 0
                                            THEN 0 ELSE missed
  BY DEF Synaptics!NormalPacket
<1>5. pad' = pad /\ quiet' = quiet
  BY DEF Synaptics!NormalPacket
<1>6. old = [drv EXCEPT !.agm = agm]
  BY <1>1 DEF Synaptics!Driver
<1>7. g \in Renumber(f)
  BY <1>4, RenumberIs
<1>8. agm \in 0 .. 5 /\ agm <= n /\ c \in 0 .. 5 /\ count \in 0 .. 5 /\ c <= n
  BY <1>2, <1>3
<1> HIDE DEF agm, count
<1>9. Recounted(drv, old, agm, drv.count, drv.last)
  BY <1>1, <1>6, <1>8, SetAgm
<1> HIDE DEF old
<1>10. old \in Synaptics!Driver /\ old.last = drv.last /\ old.agm = agm /\ (old.pass <=> drv.pass)
  BY <1>9 DEF Recounted
<1>11. Recounted(old, f, agm, c, drv.last)
  BY <1>8, <1>10, SetCount DEF f
<1>12. Synaptics!Skips(f) <=> waits
  <2>1. CASE jump
    <3>1. f.count = 0
      BY <1>11, <2>1 DEF Recounted
    <3>2. [old EXCEPT !.count = count].count = 1
      BY <1>3, <1>10, <2>1 DEF Synaptics!Driver
    <3> QED BY <3>1, <3>2 DEF Synaptics!Skips
  <2>2. CASE ~ jump
    BY <2>2
  <2> QED BY <2>1, <2>2
<1> HIDE DEF f, waits, c
<1>13. f \in Synaptics!Driver /\ f.count = c /\ f.last = drv.last /\ f.agm = agm
       /\ (f.pass <=> drv.pass) /\ SameFingers(drv, f)
  BY <1>9, <1>10, <1>11 DEF Recounted, SameFingers
<1>14. /\ SameCounts(f, g)
       /\ Synaptics!Skips(f) => SameFingers(f, g)
       /\ ~ Synaptics!Skips(f) /\ Numberable(f) => FitsFirst(g, f.count)
  BY <1>7, <1>13, Renumbers
<1>15. /\ g \in Synaptics!Driver /\ g.count = c /\ g.last = drv.last /\ g.agm = agm
       /\ (g.pass <=> drv.pass)
  BY <1>13, <1>14 DEF SameCounts
<1> DEFINE sent == IF waits THEN [drv |-> g, client |-> client] ELSE Synaptics!SendTouchData(g)
<1>16. /\ Recounted(g, sent.drv, agm, c, IF waits \/ quiet THEN drv.last ELSE c)
       /\ sent.client \in Synaptics!Client
  <2>1. CASE waits
    <3>1. Recounted(g, g, agm, c, drv.last)
      BY <1>15 DEF Recounted, SameFingers
    <3> QED BY <1>1, <2>1, <3>1
  <2>2. CASE ~ waits
    <3>1. /\ Recounted(g, Synaptics!SendTouchData(g).drv, g.agm, g.count,
                       IF quiet THEN g.last ELSE g.count)
          /\ Synaptics!SendTouchData(g).client \in Synaptics!Client
      BY <1>1, <1>15, SynapticsSent
    <3> QED BY <1>15, <2>2, <3>1
  <2> QED BY <2>1, <2>2
<1>17. drv' = sent.drv /\ client' = Synaptics!ReportButtons(sent.client)
  BY <1>4
<1>18. missed' = IF quiet THEN missed + 1 ELSE IF c = 0 /\ drv.last > 0 THEN 0 ELSE missed
  BY <1>4, <1>10, <1>15
<1> HIDE DEF sent
<1>19. drv' \in Synaptics!Driver /\ drv'.agm = agm /\ drv'.count = c /\ (drv'.pass <=> drv.pass)
       /\ drv'.last = (IF waits \/ quiet THEN drv.last ELSE c) /\ SameFingers(g, drv')
  BY <1>15, <1>16, <1>17 DEF Recounted
<1>20. client' \in Synaptics!Client /\ (client'.stick <=> drv.pass)
  <2>1. drv.pass \in BOOLEAN
    BY <1>1 DEF Synaptics!Driver
  <2> QED BY <1>16, <1>17, <2>1, ClientStick DEF Synaptics!ReportButtons
<1>21. missed' \in Nat
  BY <1>1, <1>18
<1>22. CountsInv'
  <2>1. drv'.last <= n
    BY <1>2, <1>8, <1>19
  <2> QED BY <1>1, <1>5, <1>8, <1>19, <1>20, <1>21, <2>1 DEF CountsInv
<1>23. FingersInv'
  <2> SUFFICES ASSUME missed' = 0, n < 5 PROVE FitsFirst(drv', drv'.last)
    BY <1>5 DEF FingersInv
  <2>1. ~ quiet
    BY <1>1, <1>18
  <2>2. missed = 0 \/ (c = 0 /\ drv.last > 0)
    BY <1>18, <2>1
  <2>3. missed = 0 => FitsFirst(f, f.last)
    <3>1. missed = 0 => FitsFirst(drv, drv.last)
      BY <1>1 DEF FingersInv
    <3> QED BY <1>13, <3>1, SameFits
  <2>4. CASE waits
    <3>1. c # 0
      BY <1>12, <1>13, <2>4 DEF Synaptics!Skips
    <3>2. FitsFirst(f, f.last)
      BY <2>2, <2>3, <3>1
    <3>3. FitsFirst(g, f.last)
      BY <1>12, <1>14, <1>15, <2>4, <3>2, SameFits
    <3>4. drv'.last = f.last
      BY <1>13, <1>19, <2>4
    <3> QED BY <1>19, <3>3, <3>4, SameFits
  <2>5. CASE ~ waits
    <3>1. Numberable(f)
      BY <1>2, <1>8, <1>13, <2>2, <2>3 DEF Numberable
    <3>2. FitsFirst(g, c)
      BY <1>12, <1>13, <1>14, <2>5, <3>1
    <3>3. drv'.last = c
      BY <1>19, <2>1, <2>5
    <3> QED BY <1>19, <3>2, <3>3, SameFits
  <2> QED BY <2>4, <2>5
<1> QED BY <1>19, <1>20, <1>22, <1>23 DEF SynapticsInv

(* The driver as init leaves it has no fingers. *)
NoFingers(d) ==
    /\ d \in Synaptics!Driver /\ d.agm = 0 /\ d.count = 0 /\ d.last = 0 /\ ~ d.pass
    /\ FitsFirst(d, 0)

(* A driver that has touched nothing and has given no type has none. *)
LEMMA NewHasNoFingers ==
    ASSUME NEW d \in Synaptics!Driver, d.touch = {},
           d.free = Synaptics!Type \ {Synaptics!Undefined},
           d.agm = 0, d.count = 0, d.last = 0, ~ d.pass
    PROVE  NoFingers(d)
<1>1. Numbered(d, 0 .. 0 - 1)
  BY DEF Numbered
<1>2. Synaptics!Index .. Synaptics!Little \subseteq Synaptics!Type \ {Synaptics!Undefined}
  BY DEF Synaptics!Index, Synaptics!Little, Synaptics!Type, Synaptics!Undefined
<1>3. Typed(d)
  BY <1>2 DEF Typed, Distinct
<1> QED BY <1>1, <1>3 DEF NoFingers, FitsFirst, Fits

(* Such are the driver of init and the one that start has set up. *)
LEMMA NewDriverFits ==
    /\ NoFingers(Synaptics!NewDriver)
    /\ \A r \in {"no", "touchpad", "smbus"}, x \in BOOLEAN :
          NoFingers([Synaptics!NewDriver EXCEPT !.running = r, !.extw = x])
<1> DEFINE d == Synaptics!NewDriver
<1>1. Synaptics!Undefined \in Synaptics!Type
  BY DEF Synaptics!Undefined, Synaptics!Type, Synaptics!Little
<1>2. /\ d \in Synaptics!Driver /\ d.touch = {} /\ d.free = Synaptics!Type \ {Synaptics!Undefined}
      /\ d.agm = 0 /\ d.count = 0 /\ d.last = 0 /\ ~ d.pass
  BY <1>1 DEF Synaptics!NewDriver, Synaptics!Driver, Synaptics!Count
<1>3. NoFingers(d)
  BY <1>2, NewHasNoFingers
<1> HIDE DEF d
<1>4. ASSUME NEW r \in {"no", "touchpad", "smbus"}, NEW x \in BOOLEAN
      PROVE  NoFingers([d EXCEPT !.running = r, !.extw = x])
  <2> DEFINE e == [d EXCEPT !.running = r, !.extw = x]
  <2>1. /\ e \in Synaptics!Driver /\ e.touch = d.touch /\ e.free = d.free
        /\ e.agm = d.agm /\ e.count = d.count /\ e.last = d.last /\ e.pass = d.pass
    BY <1>2 DEF Synaptics!Driver
  <2> HIDE DEF e
  <2>2. NoFingers(e)
    BY <1>2, <2>1, NewHasNoFingers
  <2> QED BY <2>2 DEF e
<1> QED BY <1>3, <1>4 DEF d

(* It meets the invariant, whatever the pad. *)
LEMMA NoFingersInv ==
    ASSUME NEW p \in Synaptics!Pad, NEW d, NoFingers(d)
    PROVE  /\ d \in Synaptics!Driver /\ ~ d.pass /\ FitsFirst(d, d.last)
           /\ d.agm <= p.is.fingers /\ d.count <= p.is.fingers /\ d.last <= p.is.fingers
BY PadFields DEF NoFingers

(* The pad remains the one it is. *)
LEMMA PadEntered ==
    ASSUME NEW p \in Synaptics!Pad, NEW extw \in BOOLEAN, NEW set \in BOOLEAN
    PROVE  /\ Synaptics!Enter(p, extw, set) \in Synaptics!Pad
           /\ Synaptics!Enter(p, extw, set).is = p.is
<1> DEFINE b == set /\ extw
<1>1. b \in BOOLEAN
  OBVIOUS
<1>2. Synaptics!Enter(p, extw, set) = [p EXCEPT !.on = TRUE, !.absolute = set, !.extw = b]
  BY DEF Synaptics!Enter
<1> HIDE DEF b
<1> QED BY <1>1, <1>2 DEF Synaptics!Pad

(* A reset of the device leaves it the pad it is. *)
LEMMA PadReset ==
    ASSUME NEW p \in Synaptics!Pad
    PROVE  Synaptics!ResetDevice(p) \in Synaptics!Pad /\ Synaptics!ResetDevice(p).is = p.is
BY DEF Synaptics!ResetDevice, Synaptics!Pad

(* Storing the trackpoint's button changes nothing else. *)
LEMMA SetPass ==
    ASSUME NEW f \in Synaptics!Driver, NEW b \in BOOLEAN
    PROVE  /\ [f EXCEPT !.pass = b] \in Synaptics!Driver /\ SameFingers(f, [f EXCEPT !.pass = b])
           /\ [f EXCEPT !.pass = b].agm = f.agm /\ [f EXCEPT !.pass = b].count = f.count
           /\ [f EXCEPT !.pass = b].last = f.last /\ ([f EXCEPT !.pass = b].pass <=> b)
BY DEF Synaptics!Driver, SameFingers

(* A step that changes neither the pad's kind nor the fingers keeps the    *)
(* invariant.                                                              *)
LEMMA FingersStay ==
    ASSUME SynapticsInv, drv' \in Synaptics!Driver, SameFingers(drv, drv'), drv'.last = drv.last,
           drv'.agm <= pad.is.fingers, drv'.count = drv.count,
           pad' \in Synaptics!Pad, pad'.is = pad.is, client' \in Synaptics!Client,
           quiet' \in BOOLEAN, missed' = missed
    PROVE  SynapticsInv'
<1>1. CountsInv'
  BY DEF SynapticsInv, CountsInv
<1>2. FingersInv'
  <2> SUFFICES ASSUME missed = 0, pad.is.fingers < 5 PROVE FitsFirst(drv', drv.last)
    BY DEF FingersInv
  <2>1. FitsFirst(drv, drv.last)
    BY DEF SynapticsInv, FingersInv
  <2> QED BY <2>1, SameFits
<1> QED BY <1>1, <1>2 DEF SynapticsInv

(* Every step of the Synaptics driver keeps the invariant, and only a      *)
(* packet of the trackpoint or a reset releases its button.                *)
LEMMA SynapticsSteps ==
    ASSUME SynapticsInv, [Synaptics!Next]_(Synaptics!vars)
    PROVE  SynapticsInv' /\ Synaptics!StickStep
<1>1. /\ pad \in Synaptics!Pad /\ drv \in Synaptics!Driver /\ client \in Synaptics!Client
      /\ quiet \in BOOLEAN /\ missed \in Nat /\ drv.agm <= pad.is.fingers
  BY DEF SynapticsInv, CountsInv
<1>2. /\ pad.is.fingers \in 1 .. 5 /\ drv.pass \in BOOLEAN /\ drv.extw \in BOOLEAN
      /\ SameFingers(drv, drv)
  BY <1>1, PadFields DEF Synaptics!Driver, SameFingers
<1>3. ASSUME NEW down \in 0 .. pad.is.fingers, NEW jump \in BOOLEAN,
             Synaptics!NormalPacket(down, jump)
      PROVE  SynapticsInv' /\ Synaptics!StickStep
  BY <1>3, NormalPacketKeeps DEF Synaptics!StickStep
<1>4. ASSUME NEW down \in 0 .. pad.is.fingers, NEW counts \in BOOLEAN,
             Synaptics!AgmPacket(counts, down)
      PROVE  SynapticsInv' /\ Synaptics!StickStep
  <2>1. /\ pad' = pad /\ quiet' = quiet /\ missed' = missed
        /\ drv' = [drv EXCEPT !.agm = down] \/ drv' = drv
        /\ client' = [client EXCEPT !.stick = drv.pass]
    BY <1>4 DEF Synaptics!AgmPacket, Synaptics!ReportButtons
  <2>2. client' \in Synaptics!Client /\ (client'.stick <=> drv.pass)
    BY <1>1, <1>2, <2>1, ClientStick
  <2>3. /\ drv' \in Synaptics!Driver /\ SameFingers(drv, drv') /\ drv'.last = drv.last
        /\ drv'.agm <= pad.is.fingers /\ drv'.count = drv.count /\ (drv'.pass <=> drv.pass)
    <3>1. down \in 0 .. 5 /\ down <= pad.is.fingers
      BY <1>2
    <3>2. Recounted(drv, [drv EXCEPT !.agm = down], down, drv.count, drv.last)
      BY <1>1, <3>1, SetAgm
    <3> QED BY <1>1, <1>2, <2>1, <3>1, <3>2 DEF Recounted
  <2>4. SynapticsInv'
    BY <1>1, <2>1, <2>2, <2>3, FingersStay
  <2> QED BY <2>2, <2>3, <2>4 DEF Synaptics!StickStep
<1>5. ASSUME NEW pressed \in BOOLEAN, Synaptics!PassthruPacket(pressed)
      PROVE  SynapticsInv' /\ Synaptics!StickStep
  <2>1. /\ pad' = pad /\ quiet' = quiet /\ missed' = missed
        /\ drv' = [drv EXCEPT !.pass = pressed] /\ client' = [client EXCEPT !.stick = pressed]
    BY <1>5 DEF Synaptics!PassthruPacket
  <2>2. client' \in Synaptics!Client /\ (client'.stick <=> pressed)
    BY <1>1, <2>1, ClientStick
  <2>3. /\ drv' \in Synaptics!Driver /\ SameFingers(drv, drv') /\ drv'.last = drv.last
        /\ drv'.agm = drv.agm /\ drv'.count = drv.count /\ (drv'.pass <=> pressed)
    BY <1>1, <2>1, SetPass
  <2>4. SynapticsInv'
    BY <1>1, <2>1, <2>2, <2>3, FingersStay
  <2> QED BY <2>2, <2>3, <2>4 DEF Synaptics!StickStep
<1>6. ASSUME NEW silent, NEW companion \in BOOLEAN, NEW set \in BOOLEAN,
             Synaptics!Start(silent, companion, set)
      PROVE  SynapticsInv' /\ Synaptics!StickStep
  <2> DEFINE r == Synaptics!Probe(pad.is, silent, companion)
             x == Synaptics!Capabilities(pad.is, silent).extw
  <2>1. /\ drv' = [Synaptics!NewDriver EXCEPT !.running = r, !.extw = x]
        /\ pad' = IF drv'.running = "smbus" THEN Synaptics!ResetDevice(pad)
                  ELSE Synaptics!Enter(pad, drv'.extw, set)
        /\ missed' = 0 /\ quiet' = quiet /\ client' = client
    BY <1>6 DEF Synaptics!Start
  <2>2. r \in {"no", "touchpad", "smbus"}
    BY DEF Synaptics!Probe
  <2>3. x \in BOOLEAN
    <3>1. pad.is.extw \in BOOLEAN
      BY <1>1 DEF Synaptics!Pad, Synaptics!Model
    <3> QED BY <3>1 DEF Synaptics!Capabilities
  <2> HIDE DEF r, x
  <2>4. NoFingers(drv')
    BY <2>1, <2>2, <2>3, NewDriverFits
  <2>5. drv'.extw \in BOOLEAN
    BY <2>4 DEF NoFingers, Synaptics!Driver
  <2>6. pad' \in Synaptics!Pad /\ pad'.is = pad.is
    BY <1>1, <2>1, <2>5, PadEntered, PadReset
  <2>7. /\ drv' \in Synaptics!Driver /\ ~ drv'.pass /\ FitsFirst(drv', drv'.last)
        /\ drv'.agm <= pad'.is.fingers /\ drv'.count <= pad'.is.fingers
        /\ drv'.last <= pad'.is.fingers
    BY <2>4, <2>6, NoFingersInv
  <2> QED BY <1>1, <2>1, <2>6, <2>7
       DEF SynapticsInv, CountsInv, FingersInv, Synaptics!StickStep
<1>7. ASSUME Synaptics!Stop
      PROVE  SynapticsInv' /\ Synaptics!StickStep
  <2>1. /\ pad' = Synaptics!ResetDevice(pad) /\ drv' = Synaptics!NewDriver
        /\ client' = Synaptics!NoClient /\ quiet' = FALSE /\ missed' = 0
    BY <1>7 DEF Synaptics!Stop
  <2>2. pad' \in Synaptics!Pad /\ pad'.is = pad.is
    BY <1>1, <2>1, PadReset
  <2>3. /\ drv' \in Synaptics!Driver /\ ~ drv'.pass /\ FitsFirst(drv', drv'.last)
        /\ drv'.agm <= pad'.is.fingers /\ drv'.count <= pad'.is.fingers
        /\ drv'.last <= pad'.is.fingers
    BY <2>1, <2>2, NewDriverFits, NoFingersInv
  <2>4. client' \in Synaptics!Client
    BY <2>1 DEF Synaptics!NoClient, Synaptics!Client
  <2> QED BY <2>1, <2>2, <2>3, <2>4
       DEF SynapticsInv, CountsInv, FingersInv, Synaptics!StickStep
<1>8. ASSUME Synaptics!DisableDevice
      PROVE  SynapticsInv' /\ Synaptics!StickStep
  <2>1. /\ pad' = [pad EXCEPT !.on = FALSE, !.absolute = FALSE]
        /\ drv' = drv /\ quiet' = quiet /\ client' = client /\ missed' = missed
    BY <1>8 DEF Synaptics!DisableDevice
  <2>2. pad' \in Synaptics!Pad /\ pad'.is = pad.is
    BY <1>1, <2>1 DEF Synaptics!Pad
  <2>3. SynapticsInv'
    BY <1>1, <1>2, <2>1, <2>2, FingersStay
  <2> QED BY <2>1, <2>3 DEF Synaptics!StickStep
<1>9. ASSUME NEW set \in BOOLEAN, Synaptics!EnableDevice(set) \/ Synaptics!ResetTouchpad(set)
      PROVE  SynapticsInv' /\ Synaptics!StickStep
  <2>1. /\ pad' = Synaptics!Enter(pad, drv.extw, set) /\ drv' = [drv EXCEPT !.pass = FALSE]
        /\ quiet' = quiet /\ client' = client /\ missed' = missed
    BY <1>9 DEF Synaptics!EnableDevice, Synaptics!ResetTouchpad, Synaptics!InitTouchPad
  <2>2. pad' \in Synaptics!Pad /\ pad'.is = pad.is
    BY <1>1, <1>2, <2>1, PadEntered
  <2>3. /\ drv' \in Synaptics!Driver /\ SameFingers(drv, drv') /\ drv'.last = drv.last
        /\ drv'.agm = drv.agm /\ drv'.count = drv.count
    BY <1>1, <2>1, SetPass
  <2>4. SynapticsInv'
    BY <1>1, <2>1, <2>2, <2>3, FingersStay
  <2> QED BY <2>1, <2>4 DEF Synaptics!StickStep
<1>10. ASSUME Synaptics!KeyPressed \/ Synaptics!QuietEnds
       PROVE  SynapticsInv' /\ Synaptics!StickStep
  <2>1. pad' = pad /\ drv' = drv /\ client' = client /\ missed' = missed /\ quiet' \in BOOLEAN
    BY <1>10 DEF Synaptics!KeyPressed, Synaptics!QuietEnds
  <2>2. SynapticsInv'
    BY <1>1, <1>2, <2>1, FingersStay
  <2> QED BY <2>1, <2>2 DEF Synaptics!StickStep
<1>11. CASE UNCHANGED Synaptics!vars
  <2>1. pad' = pad /\ drv' = drv /\ client' = client /\ missed' = missed /\ quiet' = quiet
    BY <1>11 DEF Synaptics!vars
  <2>2. SynapticsInv'
    BY <1>1, <1>2, <2>1, FingersStay
  <2> QED BY <2>1, <2>2 DEF Synaptics!StickStep
<1> QED BY <1>3, <1>4, <1>5, <1>6, <1>7, <1>8, <1>9, <1>10, <1>11 DEF Synaptics!Next

(* The driver starts with no fingers (init). *)
LEMMA SynapticsStarts ==
    ASSUME Synaptics!Init
    PROVE  SynapticsInv
<1>1. /\ pad.is \in SynapticsPads
      /\ pad = [is |-> pad.is, on |-> FALSE, absolute |-> FALSE, extw |-> FALSE]
      /\ drv = Synaptics!NewDriver /\ client = Synaptics!NoClient
      /\ quiet = FALSE /\ missed = 0
  BY DEF Synaptics!Init
<1>2. pad \in Synaptics!Pad
  <2>1. pad.is \in Synaptics!Model
    BY <1>1, SynapticsAssumption
  <2>2. \A m \in Synaptics!Model :
          [is |-> m, on |-> FALSE, absolute |-> FALSE, extw |-> FALSE] \in Synaptics!Pad
    BY DEF Synaptics!Pad
  <2> QED BY <1>1, <2>1, <2>2, Zenon
<1>3. /\ drv \in Synaptics!Driver /\ FitsFirst(drv, drv.last)
      /\ drv.agm <= pad.is.fingers /\ drv.count <= pad.is.fingers /\ drv.last <= pad.is.fingers
  BY <1>1, <1>2, NewDriverFits, NoFingersInv
<1>4. client \in Synaptics!Client
  BY <1>1 DEF Synaptics!NoClient, Synaptics!Client
<1> QED BY <1>1, <1>2, <1>3, <1>4 DEF SynapticsInv, CountsInv, FingersInv

(* The inductive invariant of the Synaptics driver holds in every state    *)
(* (renumberFingers, sendTouchData).                                       *)
THEOREM SynapticsInvariant == Spec => [](part = "synaptics" => SynapticsInv)
<1>1. Init => (part = "synaptics" => SynapticsInv)
  BY SynapticsStarts DEF Init
<1>2. (part = "synaptics" => SynapticsInv) /\ [Next]_vars => (part = "synaptics" => SynapticsInv)'
  BY PartSteps, SynapticsSteps
<1> QED BY <1>1, <1>2, PTL DEF Spec

(* For all pads of up to four fingers: however fingers come, go, jump or   *)
(* are miscounted, each physical finger that is about to be reported has a *)
(* virtual finger of its own and no other one touches, if no packet fell   *)
(* into a quiet time (renumberFingers).                                    *)
THEOREM ContactsStayFingers == Spec => []ContactsAreFingers
<1>1. SynapticsInv => Synaptics!ContactsAreFingers
  <2> SUFFICES ASSUME CountsInv, FitsFirst(drv, drv.last), drv.last = drv.count
               PROVE  /\ Synaptics!Cardinality(drv.touch) = drv.count
                      /\ drv.touch = {drv.index[i] : i \in 0 .. drv.count - 1}
    BY DEF SynapticsInv, FingersInv, Synaptics!ContactsAreFingers
  <2>1. drv.last \in 0 .. 5
    BY DriverFields DEF CountsInv
  <2>2. Synaptics!Cardinality(drv.touch) = drv.last
    BY <2>1, TouchCount, SynapticsCardinality
  <2>3. drv.touch = {drv.index[i] : i \in 0 .. drv.last - 1}
    BY DEF FitsFirst, Fits, Numbered
  <2> QED BY <2>2, <2>3
<1>2. (part = "synaptics" => SynapticsInv) => ContactsAreFingers
  BY <1>1 DEF ContactsAreFingers
<1> QED BY <1>2, SynapticsInvariant, PTL

(* These fingers all have a type, and no two the same one unless that is   *)
(* the thumb's (assignFingerType, freeAndMarkVirtualFingers).              *)
THEOREM FingersKeepTypes == Spec => []FingersHaveTypes
<1>1. SynapticsInv => Synaptics!FingersHaveTypes
  BY DEF SynapticsInv, FingersInv, FitsFirst, Fits, Typed, Distinct, Synaptics!FingersHaveTypes
<1>2. (part = "synaptics" => SynapticsInv) => FingersHaveTypes
  BY <1>1 DEF FingersHaveTypes
<1> QED BY <1>2, SynapticsInvariant, PTL

(* For all pads, whatever fingers do: only a packet of the trackpoint, or  *)
(* a reset of the pad, releases the trackpoint's button                    *)
(* (synaptics_parse_passthru, synaptics_parse_hw_state).                   *)
THEOREM StickKeepsButton == Spec => StickButtonKept
<1>1. (part = "synaptics" => SynapticsInv) /\ [Next]_vars
         => [part = "synaptics" => Synaptics!StickStep]_vars
  BY PartSteps, SynapticsSteps
<1> QED BY <1>1, SynapticsInvariant, PTL DEF Spec, StickButtonKept
=============================================================================
