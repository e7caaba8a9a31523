------------------------------ MODULE FTE0001 -------------------------------
(***************************************************************************)
(* ApplePS2FTE0001: cutting the byte stream of an FTE pad into records,    *)
(* decoding them, and telling VoodooInput.                                 *)
(*                                                                         *)
(* The pad sends reports of 8 bytes (up to two contacts) or 16; the fifth  *)
(* byte says which.  Every record in the driver's ring has 16 bytes.       *)
(* PacketRing shows that the ring is a queue of records; here it is one.   *)
(* The pad itself is external: it is modelled by the layout that           *)
(* interruptOccurred and processPacket assume.                             *)
(***************************************************************************)
EXTENDS Integers, Sequences, FiniteSets

CONSTANTS
    ContactBytes,   \* the byte triples a touched contact slot can hold
    Layouts,        \* the sets of slots a report can have contacts in
    Buttons,        \* the button masks the pad can report
    RingBound       \* bound on the records waiting for packetReady

ASSUME ContactAssumption ==
    /\ ContactBytes \subseteq ((0 .. 255) \X (0 .. 255) \X (0 .. 255)) \ {<<255, 255, 255>>}
    /\ Buttons \subseteq 0 .. 3
    /\ \A l \in Layouts : /\ l \subseteq 0 .. 3
                          /\ l \subseteq 0 .. 1 \/ Cardinality(l) > 2
ASSUME RingBoundAssumption == RingBound \in Nat \ {0}

Slot == 0 .. 3              \* FTE_MAX_FINGERS
ShortLength == 8            \* FTE_PACKET_SHORT_LENGTH
LongLength == 16            \* FTE_PACKET_LONG_LENGTH, FTE_PACKET_MAX_LENGTH
xMax == 2272                \* FTE_LOGICAL_MAX_X
yMax == 992                 \* FTE_LOGICAL_MAX_Y
Absent == <<255, 255, 255>>

VARIABLES
    sending,            \* the bytes of the pad's current report still to come
    packet,             \* the bytes at head(); its length is _packetByteCount
    packetFingerCount,  \* _packetFingerCount
    ring,               \* the records waiting for packetReady
    fingers,            \* position of each touching finger, << >> if not touching
    lastButtons,        \* _lastButtons
    power,              \* "on", "off" in a sleep, "dead" after a failed wake
    client,             \* what VoodooInput was told last
    sent,               \* history: the reports behind packet and ring, oldest first
    seen,               \* history: the report behind the last record processed
    slept               \* history: the machine has been asleep

vars == <<sending, packet, packetFingerCount, ring, fingers, lastButtons,
          power, client, sent, seen, slept>>

-----------------------------------------------------------------------------
(***************************************************************************)
(* The pad.  A report without coordinates carries the buttons only.        *)
(***************************************************************************)
Report == [buttons : Buttons, coordinates : BOOLEAN,
           slot : {s \in [Slot -> ContactBytes \cup {Absent}] :
                      {i \in Slot : s[i] # Absent} \in Layouts}]

Contacts(r) == {i \in Slot : r.slot[i] # Absent}

(* Contact count in the layout that interruptOccurred decodes. *)
CountByte(n) == (n % 4) + 16 * (n \div 4)

Header(r) == 8 + r.buttons + (IF r.coordinates THEN 0 ELSE 16)

Encode(r) ==
    <<Header(r)>> \o r.slot[0] \o <<CountByte(Cardinality(Contacts(r)))>> \o r.slot[1]
    \o (IF Cardinality(Contacts(r)) <= 2 THEN << >>
        ELSE <<0>> \o r.slot[2] \o <<0>> \o r.slot[3])

NoReport == [buttons |-> 0, coordinates |-> TRUE, slot |-> [i \in Slot |-> Absent]]

Init ==
    /\ sending = << >>
    /\ packet = << >>
    /\ packetFingerCount = 0
    /\ ring = << >>
    /\ fingers = [i \in Slot |-> << >>]
    /\ lastButtons = 0
    /\ power = "on"
    /\ client = [buttons |-> 0, fingers |-> [i \in Slot |-> << >>]]
    /\ sent = << >>
    /\ seen = NoReport
    /\ slept = FALSE

SendReport ==
    /\ power = "on" /\ sending = << >> /\ Len(ring) < RingBound
    /\ \E r \in Report : sending' = Encode(r) /\ sent' = Append(sent, r)
    /\ UNCHANGED <<packet, packetFingerCount, ring, fingers, lastButtons, power,
                   client, seen, slept>>

-----------------------------------------------------------------------------
(***************************************************************************)
(* interruptOccurred                                                       *)
(***************************************************************************)

(* (data & 0xC8) == 0x08 || (data & 0xF8) == 0xF8 *)
IsHeader(data) == \/ data \div 64 = 0 /\ (data \div 8) % 2 = 1
                  \/ data >= 248

(* (data & 0x03) + ((data & 0x30) >> 2) *)
FingerCount(data) == (data % 4) + 4 * ((data \div 16) % 4)

(* Fault: the rest of a short record is left as it was. *)
Padded_Unwritten(p) == p \o [i \in 1 .. LongLength - Len(p) |-> 0]

(* A short record is padded with contacts that are not there. *)
Padded(p) == p \o [i \in 1 .. LongLength - Len(p) |-> 255]

InterruptOccurred ==
    /\ sending # << >>
    /\ sending' = Tail(sending)
    /\ LET data  == Head(sending)
           p     == Append(packet, data)
           count == IF Len(p) = 5 THEN FingerCount(data) ELSE packetFingerCount
           whole == \/ Len(p) = ShortLength /\ count <= 2
                    \/ Len(p) = LongLength
       IN  IF packet = << >> /\ ~IsHeader(data)
           THEN UNCHANGED <<packet, packetFingerCount, ring>>
           ELSE /\ packet' = IF whole THEN << >> ELSE p
                /\ packetFingerCount' = count
                /\ ring' = IF whole THEN Append(ring, Padded(p)) ELSE ring
    /\ UNCHANGED <<fingers, lastButtons, power, client, sent, seen, slept>>

-----------------------------------------------------------------------------
(***************************************************************************)
(* packetReady: processPacket, reportState, sendTouchData                  *)
(***************************************************************************)
Clamp(v, max) == IF v > max THEN max ELSE v

(* A contact's three bytes as screen coordinates. *)
Position(b) == <<Clamp(b[1] * 16 + (b[3] \div 16), xMax),
                 yMax - Clamp(b[2] * 16 + (b[3] % 16), yMax)>>

SlotBytes(p, i) == <<p[4 * i + 2], p[4 * i + 3], p[4 * i + 4]>>

Decode(p) == [i \in Slot |-> IF SlotBytes(p, i) = Absent THEN << >>
                             ELSE Position(SlotBytes(p, i))]

(* (packet[0] & 0x30) == 0x10 *)
ButtonsOnly(header) == (header \div 16) % 4 = 1

ProcessPacket ==
    /\ ring # << >>
    /\ LET p == Head(ring)
           buttons == p[1] % 4
       IN  IF ~IsHeader(p[1])
           THEN UNCHANGED <<fingers, lastButtons, client>>
           ELSE /\ fingers' = IF ButtonsOnly(p[1]) THEN fingers ELSE Decode(p)
                /\ lastButtons' = buttons
                /\ client' = [fingers |-> fingers',
                              buttons |-> IF buttons # lastButtons THEN buttons
                                          ELSE client.buttons]
    /\ ring' = Tail(ring)
    /\ seen' = Head(sent)
    /\ sent' = Tail(sent)
    /\ UNCHANGED <<sending, packet, packetFingerCount, power, slept>>

-----------------------------------------------------------------------------
(***************************************************************************)
(* Power.  The disable command stops the pad in the middle of a report.    *)
(***************************************************************************)
Disable ==
    /\ power \in {"on", "dead"}
    /\ power' = "off"
    /\ slept' = TRUE
    /\ sending' = << >>
    /\ sent' = IF Len(sent) > Len(ring) THEN SubSeq(sent, 1, Len(ring)) ELSE sent
    /\ UNCHANGED <<packet, packetFingerCount, ring, fingers, lastButtons, client, seen>>

(* Fault: a packet cut off by the sleep is continued after the wake. *)
Enable_KeepsPacket ==
    /\ power = "off"
    /\ power' \in {"on", "dead"}
    /\ packetFingerCount' = 0
    /\ ring' = << >>
    /\ fingers' = [i \in Slot |-> << >>]
    /\ lastButtons' = 0
    /\ sent' = << >>
    /\ UNCHANGED <<sending, packet, client, seen, slept>>

(* setDevicePowerState(kPS2C_EnableDevice): setupHardware forgets the old  *)
(* state first and may then fail, which leaves the pad disabled.           *)
Enable ==
    /\ power = "off"
    /\ power' \in {"on", "dead"}
    /\ packet' = << >>
    /\ packetFingerCount' = 0
    /\ ring' = << >>
    /\ fingers' = [i \in Slot |-> << >>]
    /\ lastButtons' = 0
    /\ sent' = << >>
    /\ UNCHANGED <<sending, client, seen, slept>>

Next == SendReport \/ InterruptOccurred \/ ProcessPacket \/ Disable \/ Enable

Spec == Init /\ [][Next]_vars

-----------------------------------------------------------------------------
(* A record is never longer than its slot in the ring, and what waits in   *)
(* the ring are whole records.                                             *)
TypeOK ==
    /\ Len(packet) < LongLength
    /\ packetFingerCount \in 0 .. 15
    /\ \A k \in 1 .. Len(ring) : Len(ring[k]) = LongLength
    /\ lastButtons \in 0 .. 3
    /\ power \in {"on", "off", "dead"}

(* Short and long reports in any order are cut where the pad cut them,     *)
(* also when a sleep interrupts one of them: the k-th record waiting is    *)
(* the k-th report, padded.                                                *)
RecordsAreReports ==
    /\ Len(sent) \in {Len(ring), Len(ring) + 1}
    /\ \A k \in 1 .. Len(ring) : ring[k] = Padded(Encode(sent[k]))

(* Until the first sleep, the client holds the buttons of the last report  *)
(* and, if it had coordinates, exactly its contacts.  (A wake forgets the  *)
(* state without telling the client.)                                      *)
ClientFollowsReports ==
    ~slept =>
        /\ client.buttons = seen.buttons
        /\ seen.coordinates =>
              \A i \in Slot : (client.fingers[i] # << >>) <=> i \in Contacts(seen)

=============================================================================
