----------------------------- MODULE PacketRing -----------------------------
(***************************************************************************)
(* The packet path of the FocalTech driver: RingBuffer (ApplePS2Device.h), *)
(* filled byte by byte by interruptOccurred in interrupt context and       *)
(* emptied by packetReady on the device's own work loop, on another CPU.   *)
(* No lock protects the indices, so every load or store that the other     *)
(* side can observe is a step of its own:                                  *)
(*   - the interrupt stores one byte; advanceHead loads m_tail twice;      *)
(*   - packetReady tests count(), reads the packet at tail() byte by byte  *)
(*     and calls advanceTail, whose `+=` and wrap are two stores.          *)
(* ApplePS2Device::packetActionInterrupt signals the work loop; signals    *)
(* that arrive before packetReady starts collapse into one.                *)
(***************************************************************************)
EXTENDS Naturals, Sequences

CONSTANTS
    Byte,           \* the byte values a device sends
    PacketLength,   \* FOC_PACKET_LENGTH
    Slots           \* the ring holds PacketLength * Slots bytes

ASSUME PacketLengthAssumption == PacketLength \in Nat /\ PacketLength > 0
ASSUME SlotsAssumption == Slots \in Nat /\ Slots > 1

(* The template argument N of RingBuffer<UInt8, FOC_PACKET_LENGTH * 32>. *)
N == Slots * PacketLength

VARIABLES
    m_buffer,           \* the bytes of the ring
    m_head,             \* where the interrupt assembles the next packet
    m_tail,             \* the oldest packet; N for the instant before it wraps
    packetByteCount,    \* bytes of the packet under assembly
    isr,                \* "idle", or "advance": inside advanceHead
    newCount,           \* advanceHead: its first count(), of the moved head
    signalled,          \* the work loop has been asked to run packetReady
    ready,              \* where packetReady is: see ReadyState
    taken,              \* the bytes processPacket has read so far
    handled             \* the packet that packetReady finished with last

isrVars == <<m_buffer, m_head, packetByteCount, isr, newCount>>
readyVars == <<m_tail, ready, taken, handled>>
vars == <<m_buffer, m_head, m_tail, packetByteCount, isr, newCount,
          signalled, ready, taken, handled>>

(* idle; test: at the loop's condition; read: in processPacket;            *)
(* wrap: advanceTail has added and not yet compared with N                 *)
ReadyState == {"idle", "test", "read", "wrap"}

(***************************************************************************)
(* count(head, tail)                                                       *)
(***************************************************************************)
Count(head, tail) == IF head >= tail THEN head - tail ELSE N - tail + head

Moved(index) == IF index + PacketLength >= N
                THEN index + PacketLength - N ELSE index + PacketLength

Init ==
    /\ m_buffer \in [0 .. N - 1 -> Byte]
    /\ m_head = 0
    /\ m_tail = 0
    /\ packetByteCount = 0
    /\ isr = "idle"
    /\ newCount = 0
    /\ signalled = FALSE
    /\ ready = "idle"
    /\ taken = << >>
    /\ handled = << >>

-----------------------------------------------------------------------------
(***************************************************************************)
(* Interrupt context                                                       *)
(***************************************************************************)

(* interruptOccurred stores a byte at head(); the byte that completes a    *)
(* packet goes on into advanceHead, which first computes the count() that  *)
(* the moved head would have.                                              *)
StoreByte(data) ==
    /\ isr = "idle"
    /\ m_buffer' = [m_buffer EXCEPT ![m_head + packetByteCount] = data]
    /\ packetByteCount' = packetByteCount + 1
    /\ IF packetByteCount' = PacketLength
       THEN isr' = "advance" /\ newCount' = Count(Moved(m_head), m_tail)
       ELSE UNCHANGED <<isr, newCount>>
    /\ UNCHANGED <<m_head, signalled, readyVars>>

(* Faults: no overflow check; a second slot kept free. *)
AdvanceHead_Unchecked ==
    /\ isr = "advance"
    /\ m_head' = Moved(m_head)
    /\ packetByteCount' = 0
    /\ isr' = "idle"
    /\ newCount' = 0
    /\ signalled' = TRUE
    /\ UNCHANGED <<m_buffer, readyVars>>

AdvanceHead_SpareSlot ==
    /\ isr = "advance"
    /\ m_head' = IF newCount \in Count(m_head, m_tail) .. N - 2 * PacketLength
                 THEN Moved(m_head) ELSE m_head
    /\ packetByteCount' = 0
    /\ isr' = "idle"
    /\ newCount' = 0
    /\ signalled' = TRUE
    /\ UNCHANGED <<m_buffer, readyVars>>

(* advanceHead loads m_tail again for the count() it compares with and     *)
(* moves the head unless the ring would overflow; the driver starts a new  *)
(* packet in either case and asks for packetReady.                         *)
AdvanceHead ==
    /\ isr = "advance"
    /\ m_head' = IF newCount >= Count(m_head, m_tail)
                 THEN Moved(m_head) ELSE m_head
    /\ packetByteCount' = 0
    /\ isr' = "idle"
    /\ newCount' = 0
    /\ signalled' = TRUE
    /\ UNCHANGED <<m_buffer, readyVars>>

-----------------------------------------------------------------------------
(***************************************************************************)
(* The device's work loop                                                  *)
(***************************************************************************)

(* IOInterruptEventSource consumes the pending signals, then calls the     *)
(* action, packetReady.                                                    *)
Dispatch ==
    /\ ready = "idle" /\ signalled
    /\ ready' = "test"
    /\ signalled' = FALSE
    /\ UNCHANGED <<isrVars, m_tail, taken, handled>>

(* while (_ringBuffer.count() >= FOC_PACKET_LENGTH) *)
TestCount ==
    /\ ready = "test"
    /\ ready' = IF Count(m_head, m_tail) >= PacketLength
                THEN "read" ELSE "idle"
    /\ UNCHANGED <<isrVars, signalled, m_tail, taken, handled>>

(* processPacket reads the packet through tail() *)
ReadByte ==
    /\ ready = "read" /\ Len(taken) < PacketLength
    /\ taken' = Append(taken, m_buffer[m_tail + Len(taken)])
    /\ UNCHANGED <<isrVars, signalled, m_tail, ready, handled>>

(* advanceTail: m_tail += move *)
AdvanceTail ==
    /\ ready = "read" /\ Len(taken) = PacketLength
    /\ m_tail' = m_tail + PacketLength
    /\ ready' = "wrap"
    /\ handled' = taken
    /\ taken' = << >>
    /\ UNCHANGED <<isrVars, signalled>>

(* Fault: `if` for the `while` of packetReady. *)
WrapTail_OnePacket ==
    /\ ready = "wrap"
    /\ m_tail' = IF m_tail >= N THEN m_tail - N ELSE m_tail
    /\ ready' = "idle"
    /\ UNCHANGED <<isrVars, signalled, taken, handled>>

(* advanceTail: if (m_tail >= N) m_tail -= N; then the loop's next test *)
WrapTail ==
    /\ ready = "wrap"
    /\ m_tail' = IF m_tail >= N THEN m_tail - N ELSE m_tail
    /\ ready' = "test"
    /\ UNCHANGED <<isrVars, signalled, taken, handled>>

IsrNext == (\E data \in Byte : StoreByte(data)) \/ AdvanceHead
ReadyNext == Dispatch \/ TestCount \/ ReadByte \/ AdvanceTail \/ WrapTail

Next == IsrNext \/ ReadyNext

Spec == Init /\ [][Next]_vars

(* The interrupt returns and the kernel runs the device's work loop        *)
(* whenever it has something to do.  Nothing makes the device send bytes.  *)
FairSpec == Spec /\ WF_vars(AdvanceHead) /\ WF_vars(ReadyNext)

-----------------------------------------------------------------------------
(***************************************************************************)
(* Properties                                                              *)
(***************************************************************************)

(* A packet offset: what m_head and m_tail hold between two moves. *)
Aligned(index) == \E k \in 0 .. Slots - 1 : index = k * PacketLength

(* Indices stay packet-aligned and inside the ring; only advanceTail's     *)
(* intermediate store may leave m_tail at N, one past the last byte.       *)
TypeOK ==
    /\ m_buffer \in [0 .. N - 1 -> Byte]
    /\ Aligned(m_head)
    /\ Aligned(m_tail) \/ (m_tail = N /\ ready = "wrap")
    /\ isr \in {"idle", "advance"}
    /\ packetByteCount \in 0 .. PacketLength
    /\ (isr = "advance") <=> (packetByteCount = PacketLength)
    /\ newCount \in 0 .. N
    /\ signalled \in BOOLEAN
    /\ ready \in ReadyState
    /\ taken \in Seq(Byte) /\ Len(taken) <= PacketLength
    /\ handled \in Seq(Byte)

(* The bytes that processPacket has read are still the ones the ring holds *)
(* at tail(): the interrupt never assembles a packet over the one being    *)
(* processed, even when packets arrive faster than they are handled.       *)
NoTornRead ==
    ready = "read" =>
        \A i \in 1 .. Len(taken) : taken[i] = m_buffer[m_tail + i - 1]

(* RingBuffer: "don't advance or try to fetch data that doesn't exist      *)
(* (need to check result from count() first)": while packetReady works on  *)
(* a packet, count() still covers it.                                      *)
FetchedDataExists == ready = "read" => Count(m_head, m_tail) >= PacketLength

(* advanceHead gives a packet up only if the ring was full when it began:  *)
(* a tail that moves between its two loads of m_tail costs no packet.      *)
DropsOnlyWhenFull ==
    [][(isr = "advance" /\ isr' = "idle" /\ m_head' = m_head) => newCount = 0]_vars

(* No accepted packet is stranded by a signal that was consumed too early: *)
(* as long as a packet is in the ring, packetReady gets to the next one.   *)
EveryPacketHandled ==
    (Count(m_head, m_tail) >= PacketLength) ~> (ready = "wrap")

(* What a step of either side may rely on, inductive: the count that       *)
(* advanceHead took first is 0 (the ring was full) or exceeds the present  *)
(* count by at least a packet, because the tail only moves towards the     *)
(* head in between; and nothing has been read outside processPacket.       *)
RingInv ==
    /\ TypeOK
    /\ FetchedDataExists
    /\ NoTornRead
    /\ newCount <= N - PacketLength
    /\ isr = "advance" =>
          newCount = 0 \/ newCount >= Count(m_head, m_tail) + PacketLength
    /\ ready # "read" => taken = << >>

(***************************************************************************)
(* The ring implements the queue of packets.                               *)
(***************************************************************************)
PacketAt(index) == [i \in 1 .. PacketLength |-> m_buffer[index + i - 1]]

(* The k-th packet behind tail(), k = 0 for the oldest. *)
Offset(k) == (m_tail + k * PacketLength) % N

Queue == [k \in 1 .. Count(m_head, m_tail) \div PacketLength |->
             PacketAt(Offset(k - 1))]

Fifo == INSTANCE PacketFifo
            WITH Packet <- [1 .. PacketLength -> Byte],
                 Capacity <- Slots - 1,
                 queue <- Queue

(* Every step of the lock-free ring is a step of the queue: no packet is   *)
(* lost after it was accepted, duplicated, reordered or mixed with         *)
(* another.                                                                *)
ImplementsFifo == Fifo!Spec
=============================================================================
