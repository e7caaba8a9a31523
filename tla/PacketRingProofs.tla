-------------------------- MODULE PacketRingProofs --------------------------
(***************************************************************************)
(* The packet ring is safe for every packet length and every ring of at    *)
(* least two slots, and implements the queue of packets, PacketFifo:       *)
(* theorems about the specification of PacketRing.  No packet is left in   *)
(* it without a packetReady that will come for it.                         *)
(***************************************************************************)
EXTENDS PacketRing, SequenceTheorems, TLAPS

USE PacketLengthAssumption, SlotsAssumption

(***************************************************************************)
(* Arithmetic of packet offsets.  The products of slot numbers and         *)
(* PacketLength are met only here; every later step is linear.             *)
(***************************************************************************)

(* Two different multiples of p are at least p apart. *)
LEMMA Spacing ==
    ASSUME NEW j \in Nat, NEW k \in Nat, NEW p \in Nat, j < k
    PROVE  j * p + p <= k * p
<1> DEFINE d == k - j - 1
<1>1. d \in Nat /\ k = j + 1 + d
  OBVIOUS
<1>2. d * p \in Nat
  BY <1>1
<1>3. k * p = j * p + p + d * p
  BY <1>1
<1> QED
  BY <1>2, <1>3

(* The ring has room for at least two packets. *)
LEMMA RingSize == N \in Nat /\ N >= 2 * PacketLength
<1>1. 1 * PacketLength + PacketLength <= Slots * PacketLength
  BY Spacing
<1> QED
  BY <1>1 DEF N

(* A packet offset leaves room for a whole packet in front of the end of   *)
(* the ring, so head() and tail() never hand out memory beyond m_buffer.   *)
LEMMA AlignedFits ==
    ASSUME NEW index, Aligned(index)
    PROVE  index \in Nat /\ index + PacketLength <= N
<1>1. PICK k \in 0 .. Slots - 1 : index = k * PacketLength
  BY DEF Aligned
<1>2. k * PacketLength + PacketLength <= Slots * PacketLength
  BY Spacing
<1> QED
  BY <1>1, <1>2 DEF N

(* Different packet offsets are at least a packet apart. *)
LEMMA AlignedApart ==
    ASSUME NEW a, NEW b, Aligned(a), Aligned(b), a # b
    PROVE  a + PacketLength <= b \/ b + PacketLength <= a
<1>1. PICK j \in 0 .. Slots - 1 : a = j * PacketLength
  BY DEF Aligned
<1>2. PICK k \in 0 .. Slots - 1 : b = k * PacketLength
  BY DEF Aligned
<1>3. CASE j < k
  BY <1>1, <1>2, <1>3, Spacing
<1>4. CASE k < j
  BY <1>1, <1>2, <1>4, Spacing
<1> QED
  BY <1>1, <1>2, <1>3, <1>4

LEMMA AlignedZero == Aligned(0)
<1>1. 0 \in 0 .. Slots - 1 /\ 0 = 0 * PacketLength
  OBVIOUS
<1> QED
  BY <1>1 DEF Aligned

(* Adding a packet to an offset yields the end of the ring or an offset. *)
LEMMA AlignedStep ==
    ASSUME NEW index, Aligned(index)
    PROVE  index + PacketLength = N \/ Aligned(index + PacketLength)
<1>1. PICK k \in 0 .. Slots - 1 : index = k * PacketLength
  BY DEF Aligned
<1>2. index + PacketLength = (k + 1) * PacketLength
  BY <1>1
<1>3. CASE k + 1 = Slots
  BY <1>2, <1>3 DEF N
<1>4. CASE k + 1 # Slots
  <2>1. k + 1 \in 0 .. Slots - 1
    BY <1>4
  <2> QED
    BY <1>2, <2>1 DEF Aligned
<1> QED
  BY <1>3, <1>4

(* The head that advanceHead would move to is a packet offset, and one     *)
(* different from the present head.                                        *)
LEMMA MovedAligned ==
    ASSUME NEW index, Aligned(index)
    PROVE  Aligned(Moved(index)) /\ Moved(index) # index
<1>1. index \in Nat /\ index + PacketLength <= N
  BY AlignedFits
<1>2. CASE index + PacketLength = N
  <2>1. Moved(index) = 0
    BY <1>1, <1>2, RingSize DEF Moved
  <2> QED
    BY <1>1, <1>2, <2>1, AlignedZero, RingSize
<1>3. CASE index + PacketLength # N
  <2>1. Moved(index) = index + PacketLength
    BY <1>1, <1>3, RingSize DEF Moved
  <2> QED
    BY <1>1, <1>3, <2>1, AlignedStep
<1> QED
  BY <1>2, <1>3

(***************************************************************************)
(* count()                                                                 *)
(***************************************************************************)

(* Tails the other side can see: a packet offset, or N before the wrap. *)
SeenTail(index) == Aligned(index) \/ index = N

(* The ring never holds more than Slots - 1 packets, and count() is 0 or   *)
(* at least a packet; an unwrapped tail counts like the wrapped one.       *)
LEMMA CountRange ==
    ASSUME NEW head, NEW tail, Aligned(head), SeenTail(tail)
    PROVE  /\ Count(head, tail) \in Nat
           /\ Count(head, tail) <= N - PacketLength
           /\ Count(head, tail) >= PacketLength \/ Count(head, tail) = 0
           /\ Count(head, N) = Count(head, 0)
<1>1. head \in Nat /\ head + PacketLength <= N
  BY AlignedFits
<1>2. tail \in Nat /\ tail <= N
  BY AlignedFits, RingSize DEF SeenTail
<1>3. head = tail \/ head + PacketLength <= tail \/ tail + PacketLength <= head
  BY <1>1, AlignedApart DEF SeenTail
<1>4. Count(head, N) = Count(head, 0)
  BY <1>1, RingSize DEF Count
<1>5. head = 0 \/ head >= PacketLength
  BY <1>1, AlignedApart, AlignedZero
<1>6. tail = N \/ tail + PacketLength <= N
  BY AlignedFits DEF SeenTail
<1> QED
  BY <1>1, <1>2, <1>3, <1>4, <1>5, <1>6, RingSize DEF Count

(* A tail that moves over a packet takes exactly that packet out. *)
LEMMA CountAfterTake ==
    ASSUME NEW head, NEW tail, Aligned(head), Aligned(tail),
           Count(head, tail) >= PacketLength
    PROVE  Count(head, tail + PacketLength) = Count(head, tail) - PacketLength
<1>1. head \in Nat /\ head + PacketLength <= N
  BY AlignedFits
<1>2. tail \in Nat /\ tail + PacketLength <= N
  BY AlignedFits
<1>3. head # tail
  BY <1>1, <1>2 DEF Count
<1>4. head + PacketLength <= tail \/ tail + PacketLength <= head
  BY <1>3, AlignedApart
<1> QED
  BY <1>1, <1>2, <1>4, RingSize DEF Count

(* A head that moves puts exactly one packet in, or the ring was full and  *)
(* would look empty.                                                       *)
LEMMA CountAfterPut ==
    ASSUME NEW head, NEW tail, Aligned(head), SeenTail(tail)
    PROVE  \/ Count(Moved(head), tail) = Count(head, tail) + PacketLength
           \/ /\ Count(Moved(head), tail) = 0
              /\ Count(head, tail) = N - PacketLength
<1>1. head \in Nat /\ head + PacketLength <= N
  BY AlignedFits
<1>2. tail \in Nat /\ tail <= N
  BY AlignedFits, RingSize DEF SeenTail
<1>3. head = tail \/ head + PacketLength <= tail \/ tail + PacketLength <= head
  BY <1>1, AlignedApart DEF SeenTail
<1>4. tail = 0 \/ tail >= PacketLength
  BY <1>2, AlignedApart, AlignedZero, RingSize DEF SeenTail
<1>5. CASE head + PacketLength = N
  <2>1. Moved(head) = 0
    BY <1>1, <1>5, RingSize DEF Moved
  <2> QED
    BY <1>1, <1>2, <1>3, <1>4, <1>5, <2>1, RingSize DEF Count
<1>6. CASE head + PacketLength # N
  <2>1. Moved(head) = head + PacketLength
    BY <1>1, <1>6, RingSize DEF Moved
  <2> QED
    BY <1>1, <1>2, <1>3, <1>4, <1>6, <2>1, RingSize DEF Count
<1> QED
  BY <1>5, <1>6

(***************************************************************************)
(* The invariant.                                                          *)
(***************************************************************************)

LEMMA InitInv == Init => RingInv
<1> SUFFICES ASSUME Init PROVE RingInv
  OBVIOUS
<1>1. Count(0, 0) = 0
  BY DEF Count
<1>2. TypeOK
  <2>1. << >> \in Seq(Byte) /\ Len(<< >>) = 0
    OBVIOUS
  <2>2. Aligned(m_head) /\ Aligned(m_tail)
    BY AlignedZero DEF Init
  <2>3. taken \in Seq(Byte) /\ Len(taken) <= PacketLength /\ handled \in Seq(Byte)
    BY <2>1 DEF Init
  <2>4. /\ packetByteCount \in 0 .. PacketLength /\ newCount \in 0 .. N
        /\ (isr = "advance") <=> (packetByteCount = PacketLength)
    BY RingSize DEF Init
  <2> QED
    BY <2>2, <2>3, <2>4 DEF Init, TypeOK, ReadyState
<1> QED
  BY <1>1, <1>2, RingSize DEF Init, RingInv, FetchedDataExists, NoTornRead

(* What the type part of the invariant says of the two indices. *)
LEMMA Indices ==
    ASSUME RingInv
    PROVE  /\ m_head \in Nat /\ m_head + PacketLength <= N /\ Aligned(m_head)
           /\ SeenTail(m_tail)
           /\ ready = "read" => /\ Aligned(m_tail)
                               /\ m_tail \in Nat /\ m_tail + PacketLength <= N
                               /\ \/ m_head + PacketLength <= m_tail
                                  \/ m_tail + PacketLength <= m_head
<1>1. Aligned(m_head) /\ SeenTail(m_tail)
  BY DEF RingInv, TypeOK, SeenTail
<1>2. m_head \in Nat /\ m_head + PacketLength <= N
  BY <1>1, AlignedFits
<1>3. ASSUME ready = "read"
      PROVE  Aligned(m_tail) /\ m_tail \in Nat /\ m_tail + PacketLength <= N
  BY <1>3, AlignedFits DEF RingInv, TypeOK
<1>4. ASSUME ready = "read"
      PROVE  m_head + PacketLength <= m_tail \/ m_tail + PacketLength <= m_head
  <2>1. m_head # m_tail
    BY <1>2, <1>3, <1>4 DEF RingInv, FetchedDataExists, Count
  <2> QED
    BY <1>1, <1>3, <1>4, <2>1, AlignedApart
<1> QED
  BY <1>1, <1>2, <1>3, <1>4

LEMMA StoreByteInv ==
    ASSUME RingInv, NEW data \in Byte, StoreByte(data)
    PROVE  RingInv'
<1> USE Indices DEF StoreByte, readyVars
<1>1. packetByteCount \in 0 .. PacketLength - 1
  BY DEF RingInv, TypeOK
<1>2. m_head + packetByteCount \in 0 .. N - 1
  BY <1>1, RingSize
<1>3. isr' = "advance" => newCount' = Count(Moved(m_head), m_tail)
  BY DEF RingInv, TypeOK
<1>4. \/ newCount' = newCount /\ isr' = "idle"
      \/ newCount' = Count(Moved(m_head), m_tail) /\ isr' = "advance"
  OBVIOUS
<1>5. Count(Moved(m_head), m_tail) \in 0 .. N - PacketLength
  BY CountRange, MovedAligned, RingSize
<1>6. newCount' \in 0 .. N /\ newCount' <= N - PacketLength
  BY <1>4, <1>5, RingSize DEF RingInv, TypeOK
<1>7. isr' = "advance" =>
        newCount' = 0 \/ newCount' >= Count(m_head, m_tail) + PacketLength
  BY <1>3, CountAfterPut, CountRange
<1>8. TypeOK'
  <2>1. m_buffer' \in [0 .. N - 1 -> Byte]
    BY <1>2 DEF RingInv, TypeOK
  <2>2. packetByteCount' \in 0 .. PacketLength
    BY <1>1
  <2>3. /\ isr' \in {"idle", "advance"}
        /\ (isr' = "advance") <=> (packetByteCount' = PacketLength)
    BY <1>1
  <2> QED
    BY <1>6, <2>1, <2>2, <2>3 DEF RingInv, TypeOK, Aligned, ReadyState
<1>9. NoTornRead'
  <2> SUFFICES ASSUME ready = "read", NEW i \in 1 .. Len(taken)
               PROVE  taken[i] = m_buffer'[m_tail + i - 1]
    BY DEF NoTornRead
  <2>1. Len(taken) \in Nat /\ Len(taken) <= PacketLength
    BY DEF RingInv, TypeOK
  <2>2. m_tail + i - 1 # m_head + packetByteCount
    BY <1>1, <2>1
  <2>3. m_tail + i - 1 \in 0 .. N - 1
    BY <2>1, RingSize
  <2> QED
    BY <2>2, <2>3 DEF RingInv, TypeOK, NoTornRead
<1> QED
  BY <1>6, <1>7, <1>8, <1>9
  DEF RingInv, FetchedDataExists, Count

LEMMA AdvanceHeadInv ==
    ASSUME RingInv, AdvanceHead
    PROVE  RingInv'
<1> USE Indices DEF AdvanceHead, readyVars
<1>1. m_head' = m_head \/ m_head' = Moved(m_head)
  OBVIOUS
<1>2. Aligned(m_head')
  BY <1>1, MovedAligned
<1>3. TypeOK'
  BY <1>2, RingSize DEF RingInv, TypeOK, Aligned, ReadyState
<1>4. FetchedDataExists'
  <2> SUFFICES ASSUME ready = "read"
               PROVE  Count(m_head', m_tail) >= PacketLength
    BY DEF FetchedDataExists, Count
  <2>1. Count(m_head, m_tail) >= PacketLength
    BY DEF RingInv, FetchedDataExists
  <2>2. CASE m_head' = m_head
    BY <2>1, <2>2
  <2>3. CASE m_head' # m_head
    <3>1. newCount >= Count(m_head, m_tail) /\ m_head' = Moved(m_head)
      BY <2>3
    <3>2. newCount \in Nat /\ newCount <= N - PacketLength
      BY RingSize DEF RingInv, TypeOK
    <3>3. newCount >= Count(m_head, m_tail) + PacketLength
      BY <2>1, <3>1, <3>2, CountRange DEF RingInv
    <3>4. Count(m_head, m_tail) # N - PacketLength
      BY <3>2, <3>3, RingSize
    <3> QED
      BY <2>1, <3>1, <3>4, CountAfterPut, CountRange
  <2> QED
    BY <2>2, <2>3
<1>5. NoTornRead'
  BY DEF RingInv, NoTornRead
<1> QED
  BY <1>3, <1>4, <1>5, RingSize DEF RingInv

LEMMA ReadyInv ==
    ASSUME RingInv, ReadyNext
    PROVE  RingInv'
<1> USE Indices DEF isrVars
<1>1. CASE Dispatch
  BY <1>1 DEF Dispatch, RingInv, TypeOK, FetchedDataExists, NoTornRead,
              Count, Aligned, ReadyState
<1>2. CASE TestCount
  <2>1. TypeOK'
    BY <1>2 DEF TestCount, RingInv, TypeOK, Aligned, ReadyState
  <2>2. FetchedDataExists'
    BY <1>2 DEF TestCount, FetchedDataExists, Count
  <2> QED
    BY <1>2, <2>1, <2>2 DEF TestCount, RingInv, NoTornRead, Count
<1>3. CASE ReadByte
  <2>1. m_buffer[m_tail + Len(taken)] \in Byte
    BY <1>3, RingSize DEF ReadByte, RingInv, TypeOK
  <2>2. taken' \in Seq(Byte) /\ Len(taken') = Len(taken) + 1
    BY <1>3, <2>1 DEF ReadByte, RingInv, TypeOK
  <2>3. TypeOK'
    BY <1>3, <2>2 DEF ReadByte, RingInv, TypeOK, Aligned, ReadyState
  <2>4. NoTornRead'
    BY <1>3, <2>1, <2>2 DEF ReadByte, RingInv, TypeOK, NoTornRead
  <2> QED
    BY <1>3, <2>3, <2>4 DEF ReadByte, RingInv, FetchedDataExists, Count
<1>4. CASE AdvanceTail
  <2>1. m_tail + PacketLength = N \/ Aligned(m_tail + PacketLength)
    BY <1>4, AlignedStep DEF AdvanceTail
  <2>2. TypeOK'
    <3>1. taken' \in Seq(Byte) /\ Len(taken') <= PacketLength
      BY <1>4 DEF AdvanceTail
    <3>2. handled' \in Seq(Byte)
      BY <1>4 DEF AdvanceTail, RingInv, TypeOK
    <3>3. Aligned(m_head)' /\ (Aligned(m_tail)' \/ m_tail' = N)
      BY <1>4, <2>1 DEF AdvanceTail, Aligned
    <3> QED
      BY <1>4, <3>1, <3>2, <3>3 DEF AdvanceTail, RingInv, TypeOK, ReadyState
  <2>3. Count(m_head, m_tail') = Count(m_head, m_tail) - PacketLength
    BY <1>4, CountAfterTake DEF AdvanceTail, RingInv, FetchedDataExists
  <2>4. Count(m_head, m_tail) \in Nat
    BY CountRange
  <2>5. isr' = "advance" =>
          newCount' = 0 \/ newCount' >= Count(m_head', m_tail') + PacketLength
    BY <1>4, <2>3, <2>4 DEF AdvanceTail, RingInv, TypeOK
  <2> QED
    BY <1>4, <2>2, <2>5
    DEF AdvanceTail, RingInv, FetchedDataExists, NoTornRead
<1>5. CASE WrapTail
  <2>1. \/ m_tail' = 0 /\ m_tail = N
        \/ m_tail' = m_tail /\ Aligned(m_tail)
    BY <1>5, AlignedFits, RingSize DEF WrapTail, SeenTail
  <2>2. Aligned(m_tail')
    BY <2>1, AlignedZero
  <2>3. Count(m_head, m_tail') = Count(m_head, m_tail)
    BY <2>1, CountRange
  <2>4. TypeOK'
    BY <1>5, <2>2 DEF WrapTail, RingInv, TypeOK, Aligned, ReadyState
  <2>5. isr' = "advance" =>
          newCount' = 0 \/ newCount' >= Count(m_head', m_tail') + PacketLength
    BY <1>5, <2>3 DEF WrapTail, RingInv
  <2> QED
    BY <1>5, <2>4, <2>5
    DEF WrapTail, RingInv, FetchedDataExists, NoTornRead
<1> QED
  BY <1>1, <1>2, <1>3, <1>4, <1>5 DEF ReadyNext

(* Every step of the interrupt and of the work loop preserves RingInv. *)
LEMMA StepInv == RingInv /\ [Next]_vars => RingInv'
<1> SUFFICES ASSUME RingInv, [Next]_vars PROVE RingInv'
  OBVIOUS
<1>1. CASE IsrNext
  BY <1>1, StoreByteInv, AdvanceHeadInv DEF IsrNext
<1>2. CASE ReadyNext
  BY <1>2, ReadyInv
<1>3. CASE UNCHANGED vars
  BY <1>3 DEF vars, RingInv, TypeOK, FetchedDataExists, NoTornRead,
              Count, Aligned, ReadyState
<1> QED
  BY <1>1, <1>2, <1>3 DEF Next

THEOREM RingInvariant == Spec => []RingInv
  BY InitInv, StepInv, PTL DEF Spec

(* Interrupt and work loop keep both indices packet-aligned and inside the *)
(* ring, for every ring size and packet length.                            *)
THEOREM RingTypeOK == Spec => []TypeOK
<1>1. RingInv => TypeOK
  BY DEF RingInv
<1> QED
  BY <1>1, RingInvariant, PTL

(* processPacket never sees a byte of a later packet. *)
THEOREM RingNoTornRead == Spec => []NoTornRead
<1>1. RingInv => NoTornRead
  BY DEF RingInv
<1> QED
  BY <1>1, RingInvariant, PTL

(* packetReady never advances over data that is not in the ring. *)
THEOREM RingFetchedDataExists == Spec => []FetchedDataExists
<1>1. RingInv => FetchedDataExists
  BY DEF RingInv
<1> QED
  BY <1>1, RingInvariant, PTL

(* advanceHead drops a packet only if it found the ring full. *)
THEOREM RingDropsOnlyWhenFull == Spec => DropsOnlyWhenFull
<1>1. RingInv /\ [Next]_vars =>
        [(isr = "advance" /\ isr' = "idle" /\ m_head' = m_head)
            => newCount = 0]_vars
  <2> SUFFICES ASSUME RingInv, [Next]_vars, isr = "advance", isr' = "idle",
                      m_head' = m_head
               PROVE  newCount = 0
    OBVIOUS
  <2>1. AdvanceHead
    BY DEF Next, IsrNext, ReadyNext, StoreByte, Dispatch, TestCount,
           ReadByte, AdvanceTail, WrapTail, isrVars, vars
  <2>2. ~(newCount >= Count(m_head, m_tail))
    BY <2>1, Indices, MovedAligned DEF AdvanceHead
  <2>3. Count(m_head, m_tail) \in Nat /\ newCount \in Nat
    BY Indices, CountRange, RingSize DEF RingInv, TypeOK
  <2> QED
    BY <2>2, <2>3 DEF RingInv
<1> QED
  BY <1>1, RingInvariant, PTL DEF Spec, DropsOnlyWhenFull

(***************************************************************************)
(* The safety that EveryPacketHandled needs from the code; what is left is *)
(* that the work loop runs.                                                *)
(***************************************************************************)
Waiting == Count(m_head, m_tail) >= PacketLength

(* No wake-up is lost, although Dispatch consumes signals that come before *)
(* packetReady starts: with a packet in the ring packetReady is running    *)
(* and will test count() again, or a signal for it is pending.             *)
NoLostSignal == Waiting => signalled \/ ready # "idle"

(* The steps of packetReady until it is done with a packet *)
Distance == CASE ready = "idle" -> PacketLength + 3
              [] ready = "test" -> PacketLength + 2
              [] ready = "read" -> PacketLength - Len(taken) + 1
              [] ready = "wrap" -> 0

(* While a packet waits, each step of the work loop brings packetReady     *)
(* closer to the end of one, and no step of the interrupt takes it further *)
(* from that or takes the packet away.                                     *)
Closer ==
    [][ Waiting /\ ready # "wrap" =>
          /\ Waiting' \/ ready' = "wrap"
          /\ Distance' \in Nat
          /\ IF readyVars' = readyVars THEN Distance' = Distance ELSE Distance' < Distance
      ]_vars

(* interruptOccurred never leaves a packet to a packetReady that has       *)
(* already decided to return.                                              *)
THEOREM RingNoLostSignal == Spec => []NoLostSignal
<1>1. Init => NoLostSignal
  BY DEF Init, NoLostSignal, Waiting, Count
<1>2. NoLostSignal /\ [Next]_vars => NoLostSignal'
  <2> SUFFICES ASSUME NoLostSignal, [Next]_vars PROVE NoLostSignal'
    OBVIOUS
  <2>1. CASE \E data \in Byte : StoreByte(data)
    BY <2>1 DEF StoreByte, readyVars, NoLostSignal, Waiting, Count
  <2>2. CASE AdvanceHead
    BY <2>2 DEF AdvanceHead, NoLostSignal
  <2>3. CASE TestCount
    BY <2>3 DEF TestCount, isrVars, NoLostSignal, Waiting, Count
  <2>4. CASE Dispatch \/ ReadByte \/ AdvanceTail \/ WrapTail
    BY <2>4 DEF Dispatch, ReadByte, AdvanceTail, WrapTail, NoLostSignal
  <2>5. CASE UNCHANGED vars
    BY <2>5 DEF vars, NoLostSignal, Waiting, Count
  <2> QED
    BY <2>1, <2>2, <2>3, <2>4, <2>5 DEF Next, IsrNext, ReadyNext
<1> QED
  BY <1>1, <1>2, PTL DEF Spec

(* A full ring or a fast pad does not hold packetReady up. *)
THEOREM RingGetsCloser == Spec => Closer
<1>1. RingInv /\ RingInv' /\ [Next]_vars =>
        [ Waiting /\ ready # "wrap" =>
            /\ Waiting' \/ ready' = "wrap"
            /\ Distance' \in Nat
            /\ IF readyVars' = readyVars THEN Distance' = Distance
                                         ELSE Distance' < Distance ]_vars
  <2> SUFFICES ASSUME RingInv, RingInv', Next, Waiting, ready # "wrap"
               PROVE  /\ Waiting' \/ ready' = "wrap"
                      /\ Distance' \in Nat
                      /\ IF readyVars' = readyVars THEN Distance' = Distance
                                                   ELSE Distance' < Distance
    BY DEF vars
  <2>1. /\ ready \in ReadyState /\ taken \in Seq(Byte) /\ Len(taken) \in Nat
        /\ Len(taken) <= PacketLength
        /\ ready' \in ReadyState /\ taken' \in Seq(Byte) /\ Len(taken)' \in Nat
        /\ Len(taken)' <= PacketLength
    BY DEF RingInv, TypeOK
  <2>2. Distance \in Nat /\ Distance' \in Nat
    BY <2>1 DEF Distance, ReadyState
  <2>3. CASE \E data \in Byte : StoreByte(data)
    BY <2>2, <2>3 DEF StoreByte, readyVars, Waiting, Count, Distance
  <2>4. CASE AdvanceHead
    <3>1. /\ UNCHANGED readyVars /\ Distance' = Distance
      BY <2>4 DEF AdvanceHead, readyVars, Distance
    <3>2. Waiting'
      <4> DEFINE c == Count(m_head, m_tail)
      <4>1. /\ c \in Nat /\ c <= N - PacketLength /\ c >= PacketLength /\ newCount \in Nat
            /\ newCount <= N - PacketLength
            /\ newCount = 0 \/ newCount >= c + PacketLength
        BY <2>4, Indices, CountRange, RingSize DEF AdvanceHead, RingInv, TypeOK, Waiting
      <4>2. \/ Count(Moved(m_head), m_tail) = c + PacketLength
            \/ Count(Moved(m_head), m_tail) = 0 /\ c = N - PacketLength
        BY Indices, CountAfterPut
      <4>3. /\ m_tail' = m_tail
            /\ m_head' = IF newCount >= c THEN Moved(m_head) ELSE m_head
        BY <2>4 DEF AdvanceHead, readyVars
      <4>4. CASE newCount >= c
        <5>1. Count(Moved(m_head), m_tail) = c + PacketLength
          BY <4>1, <4>2, <4>4, RingSize
        <5> QED
          BY <4>1, <4>3, <4>4, <5>1 DEF Waiting
      <4>5. CASE ~ (newCount >= c)
        BY <4>3, <4>5 DEF Waiting
      <4> QED
        BY <4>4, <4>5
    <3> QED
      BY <2>2, <3>1, <3>2
  <2>5. CASE Dispatch
    <3>1. UNCHANGED <<m_head, m_tail>> /\ ready = "idle" /\ ready' = "test"
      BY <2>5 DEF Dispatch, isrVars
    <3> QED
      BY <2>2, <3>1 DEF Waiting, Count, Distance, readyVars
  <2>6. CASE TestCount
    <3>1. UNCHANGED <<m_head, m_tail>> /\ ready = "test" /\ ready' = "read"
      BY <2>6 DEF TestCount, isrVars, Waiting
    <3> QED
      BY <2>1, <2>2, <3>1 DEF Waiting, Count, Distance, readyVars
  <2>7. CASE ReadByte
    <3>1. /\ UNCHANGED <<m_head, m_tail>> /\ ready = "read" /\ ready' = "read"
          /\ Len(taken)' = Len(taken) + 1
      BY <2>1, <2>7 DEF ReadByte, isrVars
    <3> QED
      BY <2>1, <2>2, <3>1 DEF Waiting, Count, Distance, readyVars
  <2>8. CASE AdvanceTail
    <3>1. ready = "read" /\ ready' = "wrap"
      BY <2>8 DEF AdvanceTail
    <3> QED
      BY <2>1, <2>2, <3>1 DEF Distance, readyVars
  <2>9. ~ WrapTail
    BY DEF WrapTail
  <2> QED
    BY <2>3, <2>4, <2>5, <2>6, <2>7, <2>8, <2>9 DEF Next, IsrNext, ReadyNext
<1> QED
  BY <1>1, RingInvariant, PTL DEF Spec, Closer

-----------------------------------------------------------------------------
(***************************************************************************)
(* The ring implements the queue of packets, PacketFifo: each store of the *)
(* interrupt and of the work loop is a step of the queue or no step.       *)
(***************************************************************************)

(***************************************************************************)
(* Arithmetic.  Division and remainder are met only here.                  *)
(***************************************************************************)

(* k packets of p bytes are k packets. *)
LEMMA Division ==
    ASSUME NEW k \in Nat, NEW p \in Nat, p > 0
    PROVE  (k * p) \div p = k
<1> DEFINE q == (k * p) \div p
<1>1. k * p \in Nat
  OBVIOUS
<1>2. q \in Nat /\ q * p <= k * p /\ k * p < q * p + p
  BY <1>1
<1>3. ~(q < k)
  BY <1>2, Spacing
<1>4. ~(k < q)
  BY <1>2, Spacing
<1> QED
  BY <1>2, <1>3, <1>4

(* A remainder of what is less than twice the divisor is one comparison. *)
LEMMA Remainder ==
    ASSUME NEW n \in Nat, NEW x \in Nat, n > 0
    PROVE  /\ x < n => x % n = x
           /\ n <= x /\ x < 2 * n => x % n = x - n
<1>1. x < n => x % n = x
  OBVIOUS
<1>2. n <= x /\ x < 2 * n => x % n = x - n
  OBVIOUS
<1> QED
  BY <1>1, <1>2

(* One packet more. *)
LEMMA NextMultiple ==
    ASSUME NEW k \in Nat
    PROVE  /\ k * PacketLength \in Nat
           /\ (k + 1) * PacketLength = k * PacketLength + PacketLength
  OBVIOUS

(* A tail is a multiple of the packet length, wrapped or not. *)
LEMMA TailSlot ==
    ASSUME NEW tail, SeenTail(tail)
    PROVE  \E t \in 0 .. Slots : tail = t * PacketLength
<1>1. CASE Aligned(tail)
  <2>1. PICK t \in 0 .. Slots - 1 : tail = t * PacketLength
    BY <1>1 DEF Aligned
  <2>2. t \in 0 .. Slots
    OBVIOUS
  <2> QED
    BY <2>1, <2>2
<1>2. CASE tail = N
  <2>1. Slots \in 0 .. Slots /\ tail = Slots * PacketLength
    BY <1>2 DEF N
  <2> QED
    BY <2>1
<1> QED
  BY <1>1, <1>2 DEF SeenTail

(* The bytes in the ring are whole packets. *)
LEMMA CountIsPackets ==
    ASSUME NEW head, NEW tail, Aligned(head), SeenTail(tail)
    PROVE  \E n \in 0 .. Slots - 1 : Count(head, tail) = n * PacketLength
<1>1. PICK h \in 0 .. Slots - 1 : head = h * PacketLength
  BY DEF Aligned
<1>2. PICK t \in 0 .. Slots : tail = t * PacketLength
  BY TailSlot
<1>3. CASE h >= t
  <2>1. head >= tail
    BY <1>1, <1>2, <1>3, Spacing
  <2>2. h - t \in 0 .. Slots - 1 /\ (h - t) * PacketLength = head - tail
    BY <1>1, <1>2, <1>3
  <2>3. Count(head, tail) = (h - t) * PacketLength
    BY <2>1, <2>2 DEF Count
  <2> QED
    BY <2>2, <2>3
<1>4. CASE h < t
  <2>1. head < tail
    BY <1>1, <1>2, <1>4, Spacing
  <2>2. /\ Slots - t + h \in 0 .. Slots - 1
        /\ (Slots - t + h) * PacketLength = N - tail + head
    BY <1>1, <1>2, <1>4 DEF N
  <2>3. head \in Nat /\ tail \in Nat
    BY <1>1, <1>2
  <2>4. Count(head, tail) = (Slots - t + h) * PacketLength
    BY <2>1, <2>2, <2>3 DEF Count
  <2> QED
    BY <2>2, <2>4
<1> QED
  BY <1>3, <1>4

(***************************************************************************)
(* The slots behind the tail.                                              *)
(***************************************************************************)

(* Offset for any tail. *)
Slot(tail, k) == (tail + k * PacketLength) % N

(* Where the k-th packet behind a tail is, wrapped at most once. *)
LEMMA SlotValue ==
    ASSUME NEW tail, SeenTail(tail), NEW k \in 0 .. Slots - 1
    PROVE  /\ tail \in Nat /\ tail <= N
           /\ k * PacketLength \in Nat /\ k * PacketLength + PacketLength <= N
           /\ Slot(tail, k) = IF tail + k * PacketLength < N
                              THEN tail + k * PacketLength
                              ELSE tail + k * PacketLength - N
<1>1. tail \in Nat /\ tail <= N
  BY AlignedFits, RingSize DEF SeenTail
<1>2. k * PacketLength \in Nat /\ k * PacketLength + PacketLength <= N
  BY Spacing DEF N
<1>3. tail + k * PacketLength \in Nat /\ tail + k * PacketLength < 2 * N
  BY <1>1, <1>2, RingSize
<1> QED
  BY <1>1, <1>2, <1>3, Remainder, RingSize DEF Slot

(* It is a packet offset. *)
LEMMA SlotAligned ==
    ASSUME NEW tail, SeenTail(tail), NEW k \in 0 .. Slots - 1
    PROVE  Aligned(Slot(tail, k))
<1>1. PICK t \in 0 .. Slots : tail = t * PacketLength
  BY TailSlot
<1>2. tail + k * PacketLength = (t + k) * PacketLength
  BY <1>1
<1>3. CASE t + k < Slots
  <2>1. (t + k) * PacketLength < N
    BY <1>3, Spacing DEF N
  <2>2. Slot(tail, k) = (t + k) * PacketLength
    BY <1>2, <2>1, SlotValue
  <2>3. t + k \in 0 .. Slots - 1
    BY <1>3
  <2> QED
    BY <2>2, <2>3 DEF Aligned
<1>4. CASE t + k >= Slots
  <2>1. (t + k) * PacketLength - N = (t + k - Slots) * PacketLength
    BY <1>4 DEF N
  <2>2. t + k - Slots \in 0 .. Slots - 1
    BY <1>4
  <2>3. (t + k - Slots) * PacketLength \in Nat
    BY <2>2
  <2>4. (t + k) * PacketLength >= N
    BY <2>1, <2>3, RingSize
  <2>5. Slot(tail, k) = (t + k - Slots) * PacketLength
    BY <1>2, <2>1, <2>3, <2>4, SlotValue, RingSize
  <2> QED
    BY <2>2, <2>5 DEF Aligned
<1> QED
  BY <1>3, <1>4

(* The slot under assembly is none of those that hold packets ... *)
LEMMA SlotApart ==
    ASSUME NEW head, NEW tail, Aligned(head), SeenTail(tail),
           NEW k \in 0 .. Slots - 1,
           k * PacketLength + PacketLength <= Count(head, tail)
    PROVE  \/ Slot(tail, k) + PacketLength <= head
           \/ head + PacketLength <= Slot(tail, k)
<1>1. head \in Nat /\ head + PacketLength <= N
  BY AlignedFits
<1>2. Slot(tail, k) # head
  BY <1>1, SlotValue, RingSize DEF Count
<1> QED
  BY <1>2, SlotAligned, AlignedApart

(* ... but the one behind them. *)
LEMMA SlotOfHead ==
    ASSUME NEW head, NEW tail, Aligned(head), SeenTail(tail),
           NEW k \in 0 .. Slots - 1, k * PacketLength = Count(head, tail)
    PROVE  Slot(tail, k) = head
<1>1. head \in Nat /\ head + PacketLength <= N
  BY AlignedFits
<1> QED
  BY <1>1, SlotValue, RingSize DEF Count

(* A tail that moved over a packet has the others one place nearer. *)
LEMMA SlotAfterTake ==
    ASSUME NEW tail \in Nat, NEW k \in Nat
    PROVE  Slot(tail + PacketLength, k) = Slot(tail, k + 1)
<1>1. tail + PacketLength + k * PacketLength = tail + (k + 1) * PacketLength
  BY NextMultiple
<1> QED
  BY <1>1 DEF Slot

(* Where the tail wraps makes no difference. *)
LEMMA SlotAfterWrap ==
    ASSUME NEW k \in 0 .. Slots - 1
    PROVE  Slot(0, k) = Slot(N, k)
<1>1. k * PacketLength \in Nat /\ k * PacketLength < N
  BY Spacing DEF N
<1>2. Slot(0, k) = k * PacketLength
  <2>1. 0 + k * PacketLength = k * PacketLength
    BY <1>1
  <2> QED
    BY <1>1, <2>1, Remainder, RingSize DEF Slot
<1>3. Slot(N, k) = k * PacketLength
  <2> DEFINE x == N + k * PacketLength
  <2>1. x \in Nat /\ N <= x /\ x < 2 * N /\ x - N = k * PacketLength
    BY <1>1, RingSize
  <2> HIDE DEF x
  <2>2. x % N = k * PacketLength
    BY <2>1, Remainder, RingSize
  <2> QED
    BY <2>2 DEF Slot, x
<1> QED
  BY <1>2, <1>3

(***************************************************************************)
(* The queue that a ring stands for.                                       *)
(***************************************************************************)
Packet == [1 .. PacketLength -> Byte]
PacketIn(buffer, index) == [i \in 1 .. PacketLength |-> buffer[index + i - 1]]
Packets(head, tail) == Count(head, tail) \div PacketLength
QueueOf(buffer, head, tail) ==
    [k \in 1 .. Packets(head, tail) |-> PacketIn(buffer, Slot(tail, k - 1))]

(* Queue of PacketRing, for the present and for the next ring *)
LEMMA QueueIs == /\ Queue = QueueOf(m_buffer, m_head, m_tail)
                 /\ Queue' = QueueOf(m_buffer', m_head', m_tail')
  BY DEF Queue, QueueOf, Packets, PacketAt, PacketIn, Offset, Slot, Count

(* It has at most Slots - 1 packets, and they are what count() counts. *)
LEMMA PacketsRange ==
    ASSUME NEW head, NEW tail, Aligned(head), SeenTail(tail)
    PROVE  /\ Packets(head, tail) \in 0 .. Slots - 1
           /\ Count(head, tail) = Packets(head, tail) * PacketLength
<1>1. PICK n \in 0 .. Slots - 1 : Count(head, tail) = n * PacketLength
  BY CountIsPackets
<1>2. Packets(head, tail) = n
  BY <1>1, Division DEF Packets
<1> QED
  BY <1>1, <1>2

(* A packet in the queue is in front of the head. *)
LEMMA PacketsCovered ==
    ASSUME NEW head, NEW tail, Aligned(head), SeenTail(tail),
           NEW k \in 1 .. Packets(head, tail)
    PROVE  /\ k - 1 \in 0 .. Slots - 1
           /\ (k - 1) * PacketLength + PacketLength <= Count(head, tail)
<1>1. Packets(head, tail) \in 0 .. Slots - 1
  BY PacketsRange
<1>2. (k - 1) * PacketLength + PacketLength <= Packets(head, tail) * PacketLength
  BY <1>1, Spacing
<1> QED
  BY <1>1, <1>2, PacketsRange

(* At a packet offset there is a packet ... *)
LEMMA PacketInBuffer ==
    ASSUME NEW buffer \in [0 .. N - 1 -> Byte], NEW index, Aligned(index)
    PROVE  PacketIn(buffer, index) \in Packet
<1>1. index \in Nat /\ index + PacketLength <= N
  BY AlignedFits
<1>2. \A i \in 1 .. PacketLength : index + i - 1 \in 0 .. N - 1
  BY <1>1, RingSize
<1> QED
  BY <1>2 DEF PacketIn, Packet

(* ... so that the queue is a sequence of packets. *)
LEMMA QueueIsSeq ==
    ASSUME NEW buffer \in [0 .. N - 1 -> Byte],
           NEW head, NEW tail, Aligned(head), SeenTail(tail)
    PROVE  /\ QueueOf(buffer, head, tail) \in Seq(Packet)
           /\ Len(QueueOf(buffer, head, tail)) = Packets(head, tail)
<1>1. Packets(head, tail) \in Nat
  BY PacketsRange
<1>2. \A k \in 1 .. Packets(head, tail) : PacketIn(buffer, Slot(tail, k - 1)) \in Packet
  BY PacketsCovered, SlotAligned, PacketInBuffer
<1> QED
  BY <1>1, <1>2 DEF QueueOf

(***************************************************************************)
(* The steps.                                                              *)
(***************************************************************************)

(* The initial ring is the empty queue. *)
LEMMA InitFifo == Init => Fifo!Init
<1> SUFFICES ASSUME Init PROVE Queue = << >> /\ handled = << >>
  BY DEF Fifo!Init
<1>1. Packets(0, 0) = 0
  <2>1. Count(0, 0) = 0 * PacketLength
    BY DEF Count
  <2> QED
    BY <2>1, Division DEF Packets
<1>2. Queue = QueueOf(m_buffer, 0, 0)
  BY QueueIs DEF Init
<1>3. Queue = << >>
  BY <1>1, <1>2 DEF QueueOf
<1> QED
  BY <1>3 DEF Init

(* A byte of the packet under assembly is in no packet of the queue. *)
LEMMA StoreByteFifo ==
    ASSUME RingInv, NEW data \in Byte, StoreByte(data)
    PROVE  UNCHANGED Fifo!vars
<1> USE Indices
<1>1. packetByteCount \in 0 .. PacketLength - 1
  BY DEF StoreByte, RingInv, TypeOK
<1>2. m_buffer \in [0 .. N - 1 -> Byte]
  BY DEF RingInv, TypeOK
<1>3. ASSUME NEW k \in 1 .. Packets(m_head, m_tail)
      PROVE  PacketIn(m_buffer', Slot(m_tail, k - 1)) = PacketIn(m_buffer, Slot(m_tail, k - 1))
  <2> DEFINE s == Slot(m_tail, k - 1)
  <2>1. Aligned(s) /\ (s + PacketLength <= m_head \/ m_head + PacketLength <= s)
    BY PacketsCovered, SlotAligned, SlotApart
  <2>2. s \in Nat /\ s + PacketLength <= N
    BY <2>1, AlignedFits
  <2> HIDE DEF s
  <2>3. ASSUME NEW i \in 1 .. PacketLength
        PROVE  m_buffer'[s + i - 1] = m_buffer[s + i - 1]
    <3>1. s + i - 1 # m_head + packetByteCount
      BY <1>1, <2>1, <2>2
    <3>2. s + i - 1 \in 0 .. N - 1
      BY <2>2, RingSize
    <3> QED
      BY <1>2, <3>1, <3>2 DEF StoreByte
  <2>4. PacketIn(m_buffer', s) = PacketIn(m_buffer, s)
    BY <2>3 DEF PacketIn
  <2> QED
    BY <2>4 DEF s
<1>4. QueueOf(m_buffer', m_head, m_tail) = QueueOf(m_buffer, m_head, m_tail)
  BY <1>3 DEF QueueOf
<1> QED
  BY <1>4, QueueIs DEF StoreByte, readyVars, Fifo!vars

(* The packet under assembly enters at the end of the queue, or is refused. *)
LEMMA AdvanceHeadFifo ==
    ASSUME RingInv, AdvanceHead
    PROVE  (\E p \in Packet : Fifo!Accept(p)) \/ UNCHANGED Fifo!vars
<1> USE Indices
<1> DEFINE n == Packets(m_head, m_tail)
           p == PacketIn(m_buffer, m_head)
           q == QueueOf(m_buffer, m_head, m_tail)
           r == QueueOf(m_buffer, Moved(m_head), m_tail)
<1>1. m_buffer \in [0 .. N - 1 -> Byte] /\ m_buffer' = m_buffer
  BY DEF AdvanceHead, RingInv, TypeOK
<1>2. UNCHANGED <<m_tail, handled>>
  BY DEF AdvanceHead, readyVars
<1>3. CASE m_head' = m_head
  BY <1>1, <1>2, <1>3, QueueIs DEF Fifo!vars
<1>4. CASE m_head' # m_head
  <2>1. m_head' = Moved(m_head) /\ newCount >= Count(m_head, m_tail)
    BY <1>4 DEF AdvanceHead
  <2>2. Aligned(Moved(m_head))
    BY MovedAligned
  <2>3. Count(Moved(m_head), m_tail) = Count(m_head, m_tail) + PacketLength
    <3>1. /\ newCount \in Nat /\ newCount <= N - PacketLength
          /\ newCount = 0 \/ newCount >= Count(m_head, m_tail) + PacketLength
      BY RingSize DEF AdvanceHead, RingInv, TypeOK
    <3>2. Count(m_head, m_tail) \in Nat
      BY CountRange
    <3>3. Count(m_head, m_tail) # N - PacketLength
      BY <2>1, <3>1, <3>2, RingSize
    <3> QED
      BY <3>3, CountAfterPut
  <2>4. n \in 0 .. Slots - 1 /\ Count(m_head, m_tail) = n * PacketLength
    BY PacketsRange
  <2>5. Packets(Moved(m_head), m_tail) = n + 1
    <3>1. Count(Moved(m_head), m_tail) = (n + 1) * PacketLength
      BY <2>3, <2>4, NextMultiple
    <3> QED
      BY <2>4, <3>1, Division DEF Packets
  <2>6. n + 1 <= Slots - 1
    BY <2>2, <2>5, PacketsRange
  <2>7. Slot(m_tail, n) = m_head
    BY <2>4, SlotOfHead
  <2>8. p \in Packet
    BY <1>1, PacketInBuffer
  <2>9. q \in Seq(Packet) /\ Len(q) = n
    BY <1>1, QueueIsSeq
  <2> HIDE DEF n
  <2>10. r = Append(q, p)
    <3>1. r = [k \in 1 .. n + 1 |-> PacketIn(m_buffer, Slot(m_tail, k - 1))]
      BY <2>5 DEF QueueOf
    <3>2. q = [k \in 1 .. n |-> PacketIn(m_buffer, Slot(m_tail, k - 1))]
      BY DEF QueueOf, n
    <3>3. r \in Seq(Packet) /\ Len(r) = n + 1
      BY <1>1, <2>2, <2>5, QueueIsSeq
    <3> HIDE DEF q, p, r
    <3>4. ASSUME NEW k \in 1 .. n
          PROVE  r[k] = Append(q, p)[k]
      <4>1. r[k] = q[k]
        BY <2>4, <3>1, <3>2
      <4>2. Append(q, p)[k] = q[k]
        BY <2>8, <2>9, AppendProperties
      <4> QED
        BY <4>1, <4>2
    <3>5. ASSUME NEW k \in 1 .. n + 1, k - 1 = n
          PROVE  r[k] = Append(q, p)[k]
      <4>1. r[k] = PacketIn(m_buffer, Slot(m_tail, k - 1))
        BY <3>1
      <4>2. r[k] = p
        BY <2>7, <3>5, <4>1 DEF p
      <4>3. k = Len(q) + 1
        BY <2>4, <2>9, <3>5
      <4>4. Append(q, p)[k] = p
        BY <2>8, <2>9, <4>3, AppendProperties
      <4> QED
        BY <4>2, <4>4
    <3>6. Append(q, p) \in Seq(Packet) /\ Len(Append(q, p)) = n + 1
      BY <2>8, <2>9, AppendProperties
    <3>7. ASSUME NEW k \in 1 .. Len(r)
          PROVE  r[k] = Append(q, p)[k]
      <4>1. k \in 1 .. n \/ (k \in 1 .. n + 1 /\ k - 1 = n)
        BY <2>4, <3>3
      <4> QED
        BY <3>4, <3>5, <4>1
    <3> QED
      BY <3>3, <3>6, <3>7, SeqEqual
  <2>11. Queue = q /\ Queue' = r
    BY <1>1, <1>2, <2>1, QueueIs
  <2>12. Len(Queue) < Slots - 1
    BY <2>4, <2>6, <2>9, <2>11
  <2>13. Fifo!Accept(p)
    BY <1>2, <2>10, <2>11, <2>12 DEF Fifo!Accept
  <2> QED
    BY <2>8, <2>13
<1> QED
  BY <1>3, <1>4

(* advanceTail takes the oldest packet out, the one that was read. *)
LEMMA AdvanceTailFifo ==
    ASSUME RingInv, AdvanceTail
    PROVE  Fifo!Handle
<1> USE Indices
<1> DEFINE n == Packets(m_head, m_tail)
           q == QueueOf(m_buffer, m_head, m_tail)
           r == QueueOf(m_buffer, m_head, m_tail + PacketLength)
<1>1. m_buffer \in [0 .. N - 1 -> Byte] /\ UNCHANGED <<m_buffer, m_head>>
  BY DEF AdvanceTail, isrVars, RingInv, TypeOK
<1>2. Aligned(m_tail) /\ m_tail \in Nat /\ m_tail + PacketLength <= N
  BY DEF AdvanceTail
<1>3. Count(m_head, m_tail) >= PacketLength
  BY DEF AdvanceTail, RingInv, FetchedDataExists
<1>4. n \in 0 .. Slots - 1 /\ Count(m_head, m_tail) = n * PacketLength
  BY PacketsRange
<1>5. n >= 1
  BY <1>3, <1>4
<1>6. Packets(m_head, m_tail + PacketLength) = n - 1
  <2>1. Count(m_head, m_tail + PacketLength) = Count(m_head, m_tail) - PacketLength
    BY <1>2, <1>3, CountAfterTake
  <2>2. n - 1 \in Nat /\ n * PacketLength = (n - 1) * PacketLength + PacketLength
    BY <1>4, <1>5
  <2>3. Count(m_head, m_tail + PacketLength) = (n - 1) * PacketLength
    BY <1>4, <2>1, <2>2
  <2> QED
    BY <2>2, <2>3, Division DEF Packets
<1>7. q \in Seq(Packet) /\ Len(q) = n
  BY <1>1, QueueIsSeq
<1>8. q[1] = taken
  <2>1. Slot(m_tail, 0) = m_tail
    <3>1. m_tail + 0 * PacketLength = m_tail
      BY <1>2
    <3> QED
      BY <1>2, <3>1, Remainder, RingSize DEF Slot
  <2>2. q[1] = PacketIn(m_buffer, m_tail)
    BY <1>4, <1>5, <2>1 DEF QueueOf
  <2>3. taken \in Seq(Byte) /\ Len(taken) = PacketLength
    BY DEF AdvanceTail, RingInv, TypeOK
  <2>4. \A i \in 1 .. PacketLength : taken[i] = m_buffer[m_tail + i - 1]
    BY <2>3 DEF AdvanceTail, RingInv, NoTornRead
  <2>5. taken = [i \in 1 .. PacketLength |-> taken[i]]
    BY <2>3
  <2> QED
    BY <2>2, <2>4, <2>5 DEF PacketIn
<1> HIDE DEF n
<1>9. r = Tail(q)
  <2>1. r = [k \in 1 .. n - 1 |-> PacketIn(m_buffer, Slot(m_tail + PacketLength, k - 1))]
    BY <1>6 DEF QueueOf
  <2>2. q = [k \in 1 .. n |-> PacketIn(m_buffer, Slot(m_tail, k - 1))]
    BY DEF QueueOf, n
  <2>3. /\ Tail(q) \in Seq(Packet) /\ Len(Tail(q)) = n - 1
        /\ \A k \in 1 .. n - 1 : Tail(q)[k] = q[k + 1]
    <3>1. q # << >>
      BY <1>5, <1>7
    <3> QED
      BY <1>7, <3>1, HeadTailProperties
  <2>4. ASSUME NEW k \in 1 .. n - 1
        PROVE  r[k] = q[k + 1]
    <3>1. k - 1 \in Nat /\ k + 1 \in 1 .. n /\ k - 1 + 1 = k /\ k + 1 - 1 = k
      BY <1>4
    <3>2. Slot(m_tail + PacketLength, k - 1) = Slot(m_tail, k)
      BY <1>2, <3>1, SlotAfterTake
    <3>3. r[k] = PacketIn(m_buffer, Slot(m_tail + PacketLength, k - 1))
      BY <2>1
    <3>4. q[k + 1] = PacketIn(m_buffer, Slot(m_tail, k + 1 - 1))
      BY <2>2, <3>1
    <3> QED
      BY <3>1, <3>2, <3>3, <3>4
  <2>5. SeenTail(m_tail + PacketLength)
    BY <1>2, AlignedStep DEF SeenTail
  <2>6. r \in Seq(Packet) /\ Len(r) = n - 1
    BY <1>1, <1>6, <2>5, QueueIsSeq
  <2>7. \A k \in 1 .. Len(r) : r[k] = Tail(q)[k]
    BY <2>3, <2>4, <2>6
  <2> HIDE DEF q, r
  <2> QED
    BY <2>3, <2>6, <2>7, SeqEqual
<1>10. Queue = q /\ Queue' = r
  BY <1>1, QueueIs DEF AdvanceTail
<1> HIDE DEF q, r
<1>11. Queue # << >> /\ Head(Queue) = taken
  BY <1>4, <1>5, <1>7, <1>8, <1>10
<1> QED
  BY <1>9, <1>10, <1>11 DEF AdvanceTail, Fifo!Handle

(* The second store of advanceTail changes no packet. *)
LEMMA WrapTailFifo ==
    ASSUME RingInv, WrapTail
    PROVE  UNCHANGED Fifo!vars
<1> USE Indices
<1>1. \/ m_tail' = 0 /\ m_tail = N
      \/ m_tail' = m_tail
  BY AlignedFits, RingSize DEF WrapTail, SeenTail
<1>2. CASE m_tail' = 0 /\ m_tail = N
  <2>1. Packets(m_head, 0) = Packets(m_head, N)
    BY <1>2, CountRange DEF Packets
  <2>2. \A k \in 1 .. Packets(m_head, N) : Slot(0, k - 1) = Slot(N, k - 1)
    BY <1>2, PacketsCovered, SlotAfterWrap
  <2>3. QueueOf(m_buffer, m_head, 0) = QueueOf(m_buffer, m_head, N)
    BY <2>1, <2>2 DEF QueueOf
  <2> QED
    BY <1>2, <2>3, QueueIs DEF WrapTail, isrVars, Fifo!vars
<1>3. CASE m_tail' = m_tail
  BY <1>3, QueueIs DEF WrapTail, isrVars, Fifo!vars
<1> QED
  BY <1>1, <1>2, <1>3

(* The other steps of packetReady touch neither the ring nor handled. *)
LEMMA SilentFifo ==
    ASSUME Dispatch \/ TestCount \/ ReadByte \/ UNCHANGED vars
    PROVE  UNCHANGED Fifo!vars
<1>1. UNCHANGED <<m_buffer, m_head, m_tail, handled>>
  BY DEF Dispatch, TestCount, ReadByte, isrVars, vars
<1> QED
  BY <1>1, QueueIs DEF Fifo!vars

(* Every step of the ring is a step of the queue or leaves it alone. *)
LEMMA StepFifo == RingInv /\ [Next]_vars => [Fifo!Next]_(Fifo!vars)
<1> SUFFICES ASSUME RingInv, [Next]_vars
             PROVE  Fifo!Next \/ UNCHANGED Fifo!vars
  OBVIOUS
<1>1. CASE \E data \in Byte : StoreByte(data)
  BY <1>1, StoreByteFifo
<1>2. CASE AdvanceHead
  BY <1>2, AdvanceHeadFifo DEF Fifo!Next, Packet
<1>3. CASE AdvanceTail
  BY <1>3, AdvanceTailFifo DEF Fifo!Next
<1>4. CASE WrapTail
  BY <1>4, WrapTailFifo
<1>5. CASE Dispatch \/ TestCount \/ ReadByte \/ UNCHANGED vars
  BY <1>5, SilentFifo
<1> QED
  BY <1>1, <1>2, <1>3, <1>4, <1>5 DEF Next, IsrNext, ReadyNext

(* For every packet length and ring size, interruptOccurred and            *)
(* packetReady on two CPUs hand packets over as a bounded queue does: each *)
(* accepted packet whole, once and in order (RingBuffer).                  *)
THEOREM RingImplementsFifo == Spec => ImplementsFifo
  BY InitFifo, StepFifo, RingInvariant, PTL DEF Spec, ImplementsFifo, Fifo!Spec
=============================================================================
