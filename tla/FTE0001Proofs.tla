--------------------------- MODULE FTE0001Proofs ----------------------------
(***************************************************************************)
(* Theorem about FTE0001: the driver cuts the byte stream where the pad    *)
(* cut it, for any contacts, layouts and buttons and a ring of any length. *)
(***************************************************************************)
EXTENDS FTE0001, SequenceTheorems, FiniteSetTheorems, TLAPS

Data == 0 .. 255

-----------------------------------------------------------------------------
(***************************************************************************)
(* The inductive invariant                                                 *)
(***************************************************************************)

Types ==
    /\ sending \in Seq(Data) /\ packet \in Seq(Data)
    /\ ring \in Seq(Seq(Data)) /\ sent \in Seq(Report)
    /\ power \in {"on", "off", "dead"}

(* The report that the pad is sending, and what the driver has of it. *)
Assembling ==
    /\ power = "on"
    /\ Len(sent) = Len(ring) + 1
    /\ packet \o sending = Encode(sent[Len(sent)])
    /\ Len(packet) >= 5 => packetFingerCount = FingerCount(packet[5])

(* Between reports nothing is begun, unless a sleep cut one off. *)
Between ==
    /\ Len(sent) = Len(ring)
    /\ power = "on" => packet = << >>

Framed == IF sending = << >> THEN Between ELSE Assembling

FTEInv == Types /\ Framed /\ RecordsAreReports

-----------------------------------------------------------------------------
(***************************************************************************)
(* The reports                                                             *)
(***************************************************************************)

(* A slot of a report holds three bytes. *)
LEMMA SlotIsThree ==
    ASSUME NEW r \in Report, NEW i \in Slot
    PROVE  r.slot[i] \in Seq(Data) /\ Len(r.slot[i]) = 3
  <1>1. r.slot[i] \in ContactBytes \cup {Absent}
    BY DEF Report
  <1>2. r.slot[i] \in Data \X Data \X Data
    BY <1>1, ContactAssumption DEF ContactAssumption, Absent, Data
  <1>3. PICK a \in Data, b \in Data, c \in Data : r.slot[i] = <<a, b, c>>
    BY <1>2
  <1>4. <<a, b, c>> \in Seq(Data) /\ Len(<<a, b, c>>) = 3
    OBVIOUS
  <1> QED
    BY <1>3, <1>4

(* Two sequences of bytes, one behind the other. *)
LEMMA Joined ==
    ASSUME NEW s \in Seq(Data), NEW t \in Seq(Data)
    PROVE  /\ s \o t \in Seq(Data)
           /\ Len(s \o t) = Len(s) + Len(t) /\ Len(s) \in Nat /\ Len(t) \in Nat
           /\ \A i \in 1 .. Len(s) : (s \o t)[i] = s[i]
           /\ \A i \in 1 .. Len(t) : (s \o t)[Len(s) + i] = t[i]
  OBVIOUS

(* A sequence of bytes, one byte and more of them. *)
LEMMA Regrouped ==
    ASSUME NEW s \in Seq(Data), NEW b \in Data, NEW t \in Seq(Data)
    PROVE  Append(s, b) \o t = s \o (<<b>> \o t)
  <1>1. <<b>> \in Seq(Data) /\ Append(s, b) = s \o <<b>>
    OBVIOUS
  <1> QED
    BY <1>1, ConcatAssociative

(* A report has at most four contacts. *)
LEMMA ContactCount ==
    ASSUME NEW r \in Report
    PROVE  Cardinality(Contacts(r)) \in 0 .. 4
  <1>1. IsFiniteSet(Slot) /\ Cardinality(Slot) = 4
    <2>1. 0 \in Int /\ 3 \in Int /\ ~(0 > 3) /\ 3 - 0 + 1 = 4
      OBVIOUS
    <2> QED
      BY <2>1, FS_Interval, Zenon DEF Slot
  <1>2. Contacts(r) \subseteq Slot
    BY DEF Contacts
  <1>3. Cardinality(Contacts(r)) <= 4 /\ Cardinality(Contacts(r)) \in Nat
    BY <1>1, <1>2, FS_Subset, FS_CardinalityType
  <1> QED
    BY <1>3

(* The count that the driver reads is the one that the pad wrote. *)
LEMMA CountIsRead ==
    ASSUME NEW n \in 0 .. 4
    PROVE  CountByte(n) \in Data /\ FingerCount(CountByte(n)) = n
  <1>1. n = 0 \/ n = 1 \/ n = 2 \/ n = 3 \/ n = 4
    OBVIOUS
  <1> QED
    BY <1>1 DEF CountByte, FingerCount, Data

(* The first byte of a report is taken for one. *)
LEMMA HeaderIsHeader ==
    ASSUME NEW r \in Report
    PROVE  Header(r) \in Data /\ IsHeader(Header(r))
  <1>1. r.buttons \in 0 .. 3 /\ r.coordinates \in BOOLEAN
    BY ContactAssumption DEF Report, ContactAssumption
  <1>2. Header(r) \in 8 .. 11 \/ Header(r) \in 24 .. 27
    BY <1>1 DEF Header
  <1>3. Header(r) \div 64 = 0 /\ (Header(r) \div 8) % 2 = 1
    BY <1>2
  <1> QED
    BY <1>2, <1>3 DEF IsHeader, Data

(* Eight bytes: one and the three of a slot, twice. *)
Eight(h, s, n, t) == <<h>> \o s \o <<n>> \o t

LEMMA EightBytes ==
    ASSUME NEW h \in Data, NEW s \in Seq(Data), Len(s) = 3,
           NEW n \in Data, NEW t \in Seq(Data), Len(t) = 3
    PROVE  /\ Eight(h, s, n, t) \in Seq(Data) /\ Len(Eight(h, s, n, t)) = 8
           /\ Eight(h, s, n, t)[1] = h /\ Eight(h, s, n, t)[5] = n
  <1> DEFINE a == <<h>> \o s
             b == a \o <<n>>
             c == b \o t
  <1>1. /\ <<h>> \in Seq(Data) /\ Len(<<h>>) = 1 /\ <<h>>[1] = h
        /\ <<n>> \in Seq(Data) /\ Len(<<n>>) = 1 /\ <<n>>[1] = n
    OBVIOUS
  <1>2. a \in Seq(Data) /\ Len(a) = 4 /\ a[1] = h
    <2>1. /\ a \in Seq(Data) /\ Len(a) = Len(<<h>>) + Len(s)
          /\ \A i \in 1 .. Len(<<h>>) : a[i] = <<h>>[i]
      BY <1>1, Joined, Zenon
    <2>2. 1 \in 1 .. Len(<<h>>) /\ Len(<<h>>) + Len(s) = 4
      BY <1>1
    <2> QED
      BY <2>1, <2>2, <1>1, Zenon
  <1> HIDE DEF a
  <1>3. b \in Seq(Data) /\ Len(b) = 5 /\ b[1] = h /\ b[5] = n
    <2>1. /\ b \in Seq(Data) /\ Len(b) = Len(a) + Len(<<n>>)
          /\ \A i \in 1 .. Len(a) : b[i] = a[i]
          /\ \A i \in 1 .. Len(<<n>>) : b[Len(a) + i] = <<n>>[i]
      BY <1>1, <1>2, Joined, Zenon
    <2>2. /\ 1 \in 1 .. Len(a) /\ 1 \in 1 .. Len(<<n>>)
          /\ Len(a) + 1 = 5 /\ Len(a) + Len(<<n>>) = 5
      BY <1>1, <1>2
    <2> QED
      BY <2>1, <2>2, <1>1, <1>2, Zenon
  <1> HIDE DEF b
  <1>4. c \in Seq(Data) /\ Len(c) = 8 /\ c[1] = h /\ c[5] = n
    <2>1. /\ c \in Seq(Data) /\ Len(c) = Len(b) + Len(t)
          /\ \A i \in 1 .. Len(b) : c[i] = b[i]
      BY <1>3, Joined, Zenon
    <2>2. 1 \in 1 .. Len(b) /\ 5 \in 1 .. Len(b) /\ Len(b) + Len(t) = 8
      BY <1>3
    <2> QED
      BY <2>1, <2>2, <1>3, Zenon
  <1> QED
    BY <1>4, Zenon DEF a, b, Eight

(* Where the bytes of the two slots are. *)
TwoSlots(e, s, t) == \A i \in 1 .. 3 : e[1 + i] = s[i] /\ e[5 + i] = t[i]

LEMMA EightSlots ==
    ASSUME NEW h \in Data, NEW s \in Seq(Data), Len(s) = 3,
           NEW n \in Data, NEW t \in Seq(Data), Len(t) = 3
    PROVE  TwoSlots(Eight(h, s, n, t), s, t)
  <1>1. ASSUME NEW i \in 1 .. 3
        PROVE  Eight(h, s, n, t)[1 + i] = s[i] /\ Eight(h, s, n, t)[5 + i] = t[i]
    <2> DEFINE a == <<h>> \o s
               b == a \o <<n>>
               c == b \o t
    <2>1. /\ <<h>> \in Seq(Data) /\ Len(<<h>>) = 1
          /\ <<n>> \in Seq(Data) /\ Len(<<n>>) = 1
      OBVIOUS
    <2>2. a \in Seq(Data) /\ Len(a) = 4 /\ a[1 + i] = s[i]
      <3>1. /\ a \in Seq(Data) /\ Len(a) = Len(<<h>>) + Len(s)
            /\ \A j \in 1 .. Len(s) : a[Len(<<h>>) + j] = s[j]
        BY <2>1, Joined, Zenon
      <3>2. i \in 1 .. Len(s) /\ Len(<<h>>) + Len(s) = 4
        BY <2>1
      <3> QED
        BY <3>1, <3>2, <2>1, Zenon
    <2> HIDE DEF a
    <2>3. b \in Seq(Data) /\ Len(b) = 5 /\ b[1 + i] = s[i]
      <3>1. /\ b \in Seq(Data) /\ Len(b) = Len(a) + Len(<<n>>)
            /\ \A j \in 1 .. Len(a) : b[j] = a[j]
        BY <2>1, <2>2, Joined, Zenon
      <3>2. 1 + i \in 1 .. Len(a) /\ Len(a) + Len(<<n>>) = 5
        BY <2>1, <2>2
      <3> QED
        BY <3>1, <3>2, <2>2, Zenon
    <2> HIDE DEF b
    <2>4. c[1 + i] = s[i] /\ c[5 + i] = t[i]
      <3>1. /\ \A j \in 1 .. Len(b) : c[j] = b[j]
            /\ \A j \in 1 .. Len(t) : c[Len(b) + j] = t[j]
        BY <2>3, Joined, Zenon
      <3>2. 1 + i \in 1 .. Len(b) /\ i \in 1 .. Len(t)
        BY <2>3
      <3> QED
        BY <3>1, <3>2, <2>3, Zenon
    <2> QED
      BY <2>4, Zenon DEF a, b, Eight
  <1> QED
    BY <1>1, Zenon DEF TwoSlots

(* Length, first and fifth byte of a report. *)
LEMMA EncodeLayout ==
    ASSUME NEW r \in Report
    PROVE  /\ Encode(r) \in Seq(Data)
           /\ Len(Encode(r)) = IF Cardinality(Contacts(r)) <= 2 THEN 8 ELSE 16
           /\ Encode(r)[1] = Header(r)
           /\ Encode(r)[5] = CountByte(Cardinality(Contacts(r)))
  <1> DEFINE h == Header(r)
             n == CountByte(Cardinality(Contacts(r)))
             s0 == r.slot[0]
             s1 == r.slot[1]
             s2 == r.slot[2]
             s3 == r.slot[3]
             c == Eight(h, s0, n, s1)
             d == Eight(0, s2, 0, s3)
  <1>1. h \in Data /\ n \in Data /\ 0 \in Data
    BY HeaderIsHeader, ContactCount, CountIsRead DEF Data
  <1>2. /\ s0 \in Seq(Data) /\ Len(s0) = 3 /\ s1 \in Seq(Data) /\ Len(s1) = 3
        /\ s2 \in Seq(Data) /\ Len(s2) = 3 /\ s3 \in Seq(Data) /\ Len(s3) = 3
    BY SlotIsThree DEF Slot
  <1>3. Encode(r) = c \o (IF Cardinality(Contacts(r)) <= 2 THEN << >> ELSE d)
    BY Zenon DEF Encode, Eight
  <1> HIDE DEF h, n, s0, s1, s2, s3
  <1>4. c \in Seq(Data) /\ Len(c) = 8 /\ c[1] = h /\ c[5] = n
    BY <1>1, <1>2, EightBytes
  <1>5. d \in Seq(Data) /\ Len(d) = 8
    BY <1>1, <1>2, EightBytes
  <1> HIDE DEF c, d
  <1>6. c \o << >> = c
    BY <1>4, ConcatEmptySeq
  <1>7. /\ c \o d \in Seq(Data) /\ Len(c \o d) = 16
        /\ (c \o d)[1] = h /\ (c \o d)[5] = n
    <2>1. /\ c \o d \in Seq(Data) /\ Len(c \o d) = Len(c) + Len(d)
          /\ \A i \in 1 .. Len(c) : (c \o d)[i] = c[i]
      BY <1>4, <1>5, Joined, Zenon
    <2>2. 1 \in 1 .. Len(c) /\ 5 \in 1 .. Len(c) /\ Len(c) + Len(d) = 16
      BY <1>4, <1>5
    <2> QED
      BY <2>1, <2>2, <1>4, Zenon
  <1> QED
    BY <1>3, <1>4, <1>6, <1>7 DEF h, n

(* The record of a report: its header, and its slots, of which a short     *)
(* report leaves two to the padding.                                       *)
LEMMA RecordBytes ==
    ASSUME NEW r \in Report
    PROVE  /\ Padded(Encode(r))[1] = Header(r)
           /\ \A i \in 1 .. 3 :
                 /\ Padded(Encode(r))[1 + i] = r.slot[0][i]
                 /\ Padded(Encode(r))[5 + i] = r.slot[1][i]
                 /\ Padded(Encode(r))[9 + i] = r.slot[2][i]
                 /\ Padded(Encode(r))[13 + i] = r.slot[3][i]
  <1> DEFINE h == Header(r)
             n == CountByte(Cardinality(Contacts(r)))
             s0 == r.slot[0]
             s1 == r.slot[1]
             s2 == r.slot[2]
             s3 == r.slot[3]
             c == Eight(h, s0, n, s1)
             d == Eight(0, s2, 0, s3)
  <1>1. h \in Data /\ n \in Data /\ 0 \in Data
    BY HeaderIsHeader, ContactCount, CountIsRead DEF Data
  <1>2. /\ s0 \in Seq(Data) /\ Len(s0) = 3 /\ s1 \in Seq(Data) /\ Len(s1) = 3
        /\ s2 \in Seq(Data) /\ Len(s2) = 3 /\ s3 \in Seq(Data) /\ Len(s3) = 3
    BY SlotIsThree DEF Slot
  <1>3. Encode(r) = c \o (IF Cardinality(Contacts(r)) <= 2 THEN << >> ELSE d)
    BY Zenon DEF Encode, Eight
  <1>4. Cardinality(Contacts(r)) <= 2 => s2 = Absent /\ s3 = Absent
    <2>1. Contacts(r) \in Layouts
      BY DEF Report, Contacts
    <2>2. \/ Contacts(r) \subseteq 0 .. 1
          \/ Cardinality(Contacts(r)) > 2
      BY <2>1, ContactAssumption DEF ContactAssumption
    <2>3. Cardinality(Contacts(r)) <= 2 => 2 \notin Contacts(r) /\ 3 \notin Contacts(r)
      BY <2>2, ContactCount
    <2> QED
      BY <2>3 DEF Contacts, Slot
  <1> HIDE DEF h, n, s0, s1, s2, s3
  <1>5. /\ c \in Seq(Data) /\ Len(c) = 8 /\ c[1] = h
        /\ \A i \in 1 .. 3 : c[1 + i] = s0[i] /\ c[5 + i] = s1[i]
    <2>1. c \in Seq(Data) /\ Len(c) = 8 /\ c[1] = h
      BY <1>1, <1>2, EightBytes
    <2>2. TwoSlots(c, s0, s1)
      BY <1>1, <1>2, EightSlots
    <2> QED
      BY <2>1, <2>2, Zenon DEF TwoSlots
  <1>6. /\ d \in Seq(Data) /\ Len(d) = 8
        /\ \A i \in 1 .. 3 : d[1 + i] = s2[i] /\ d[5 + i] = s3[i]
    <2>1. d \in Seq(Data) /\ Len(d) = 8
      BY <1>1, <1>2, EightBytes
    <2>2. TwoSlots(d, s2, s3)
      BY <1>1, <1>2, EightSlots
    <2> QED
      BY <2>1, <2>2, Zenon DEF TwoSlots
  <1> HIDE DEF c, d
  <1> DEFINE p == Padded(Encode(r))
  <1>7. ASSUME NEW e \in Seq(Data), Len(e) = 8, p = c \o e
        PROVE  /\ p[1] = h
               /\ \A i \in 1 .. 3 : /\ p[1 + i] = s0[i] /\ p[5 + i] = s1[i]
                                     /\ p[9 + i] = e[1 + i] /\ p[13 + i] = e[5 + i]
    <2> HIDE DEF p
    <2>1. /\ \A j \in 1 .. Len(c) : (c \o e)[j] = c[j]
          /\ \A j \in 1 .. Len(e) : (c \o e)[Len(c) + j] = e[j]
      BY <1>5, Joined, Zenon
    <2>2. p[1] = h
      <3>1. 1 \in 1 .. Len(c)
        BY <1>5
      <3> QED
        BY <3>1, <2>1, <1>5, <1>7, Zenon
    <2>3. ASSUME NEW i \in 1 .. 3
          PROVE  /\ p[1 + i] = s0[i] /\ p[5 + i] = s1[i]
                 /\ p[9 + i] = e[1 + i] /\ p[13 + i] = e[5 + i]
      <3>1. /\ 1 + i \in 1 .. Len(c) /\ 5 + i \in 1 .. Len(c)
            /\ 1 + i \in 1 .. Len(e) /\ 5 + i \in 1 .. Len(e)
            /\ Len(c) + (1 + i) = 9 + i /\ Len(c) + (5 + i) = 13 + i
        BY <1>5, <1>7
      <3>2. (c \o e)[1 + i] = c[1 + i] /\ (c \o e)[5 + i] = c[5 + i]
        BY <3>1, <2>1, Zenon
      <3>3. (c \o e)[9 + i] = e[1 + i] /\ (c \o e)[13 + i] = e[5 + i]
        BY <3>1, <2>1, Zenon
      <3> QED
        BY <3>2, <3>3, <1>5, <1>7, Zenon
    <2> QED
      BY <2>2, <2>3
  <1>8. CASE Cardinality(Contacts(r)) <= 2
    <2> DEFINE fill == [i \in 1 .. 8 |-> 255]
    <2>1. fill \in Seq(Data) /\ Len(fill) = 8
      BY DEF Data
    <2>2. \A i \in 1 .. 3 : fill[1 + i] = s2[i] /\ fill[5 + i] = s3[i]
      <3>1. s2 = <<255, 255, 255>> /\ s3 = <<255, 255, 255>>
        BY <1>4, <1>8 DEF Absent
      <3> QED
        BY <3>1
    <2>3. Encode(r) = c
      BY <1>3, <1>5, <1>8, ConcatEmptySeq
    <2>4. p = c \o [i \in 1 .. LongLength - Len(c) |-> 255]
      BY <2>3 DEF Padded
    <2>5. LongLength - Len(c) = 8
      BY <1>5 DEF LongLength
    <2>6. p = c \o fill
      BY <2>4, <2>5, Zenon
    <2> HIDE DEF fill, p
    <2>7. /\ p[1] = h
          /\ \A i \in 1 .. 3 : /\ p[1 + i] = s0[i] /\ p[5 + i] = s1[i]
                                /\ p[9 + i] = fill[1 + i] /\ p[13 + i] = fill[5 + i]
      BY <1>7, <2>1, <2>6, Zenon
    <2> QED
      BY <2>2, <2>7, Zenon DEF p, h, s0, s1, s2, s3
  <1>9. CASE ~(Cardinality(Contacts(r)) <= 2)
    <2> DEFINE fill == [i \in 1 .. 0 |-> 255]
    <2>1. fill = << >>
      OBVIOUS
    <2>2. Encode(r) = c \o d
      BY <1>3, <1>9
    <2>3. LongLength - Len(c \o d) = 0 /\ c \o d \in Seq(Data)
      <3>1. Len(c \o d) = Len(c) + Len(d) /\ c \o d \in Seq(Data)
        BY <1>5, <1>6, Joined, Zenon
      <3>2. 16 - (Len(c) + Len(d)) = 0
        BY <1>5, <1>6
      <3> QED
        BY <3>1, <3>2, Zenon DEF LongLength
    <2>4. p = (c \o d) \o [i \in 1 .. LongLength - Len(c \o d) |-> 255]
      BY <2>2, Zenon DEF Padded
    <2>5. p = (c \o d) \o << >>
      BY <2>1, <2>3, <2>4, Zenon
    <2>6. p = c \o d
      BY <2>3, <2>5, ConcatEmptySeq, Zenon
    <2> HIDE DEF p
    <2>7. /\ p[1] = h
          /\ \A i \in 1 .. 3 : /\ p[1 + i] = s0[i] /\ p[5 + i] = s1[i]
                                /\ p[9 + i] = d[1 + i] /\ p[13 + i] = d[5 + i]
      BY <1>7, <1>6, <2>6, Zenon
    <2> QED
      BY <1>6, <2>7, Zenon DEF p, h, s0, s1, s2, s3
  <1> QED
    BY <1>8, <1>9

-----------------------------------------------------------------------------
(***************************************************************************)
(* The steps                                                               *)
(***************************************************************************)

(* A padded record is a sequence of bytes. *)
LEMMA PaddedBytes ==
    ASSUME NEW r \in Report
    PROVE  Padded(Encode(r)) \in Seq(Data)
  <1> DEFINE n == LongLength - Len(Encode(r))
             fill == [i \in 1 .. n |-> 255]
  <1>1. Encode(r) \in Seq(Data) /\ n \in Nat
    <2> DEFINE size == Len(Encode(r))
    <2>1. Encode(r) \in Seq(Data) /\ (size = 8 \/ size = 16)
      BY EncodeLayout, Zenon
    <2> HIDE DEF size
    <2>2. 16 - size \in Nat
      BY <2>1
    <2> QED
      BY <2>1, <2>2, Zenon DEF LongLength, size
  <1>2. fill \in [1 .. n -> Data]
    BY DEF Data
  <1> HIDE DEF n
  <1>3. fill \in Seq(Data)
    BY <1>1, <1>2
  <1> HIDE DEF fill
  <1>4. Encode(r) \o fill \in Seq(Data)
    BY <1>1, <1>3, Joined, Zenon
  <1> QED
    BY <1>4, Zenon DEF Padded, fill, n

(* processPacket finds in the record what the pad put into the report. *)
LEMMA RecordSlots ==
    ASSUME NEW r \in Report, NEW i \in Slot
    PROVE  SlotBytes(Padded(Encode(r)), i) = r.slot[i]
  <1> DEFINE p == Padded(Encode(r))
  <1>1. PICK a \in Data, b \in Data, c \in Data : r.slot[i] = <<a, b, c>>
    <2>1. r.slot[i] \in ContactBytes \cup {Absent}
      BY DEF Report
    <2>2. r.slot[i] \in Data \X Data \X Data
      BY <2>1, ContactAssumption DEF ContactAssumption, Absent, Data
    <2> QED
      BY <2>2
  <1>2. \A j \in 1 .. 3 : /\ p[1 + j] = r.slot[0][j] /\ p[5 + j] = r.slot[1][j]
                          /\ p[9 + j] = r.slot[2][j] /\ p[13 + j] = r.slot[3][j]
    BY RecordBytes, Zenon
  <1> HIDE DEF p
  <1>3. /\ p[4 * i + 2] = r.slot[i][1] /\ p[4 * i + 3] = r.slot[i][2]
        /\ p[4 * i + 4] = r.slot[i][3]
    <2>1. /\ p[2] = r.slot[0][1] /\ p[3] = r.slot[0][2] /\ p[4] = r.slot[0][3]
          /\ p[6] = r.slot[1][1] /\ p[7] = r.slot[1][2] /\ p[8] = r.slot[1][3]
      BY <1>2
    <2>2. /\ p[10] = r.slot[2][1] /\ p[11] = r.slot[2][2] /\ p[12] = r.slot[2][3]
          /\ p[14] = r.slot[3][1] /\ p[15] = r.slot[3][2] /\ p[16] = r.slot[3][3]
      BY <1>2
    <2>3. CASE i = 0
      BY <2>1, <2>3
    <2>4. CASE i = 1
      BY <2>1, <2>4
    <2>5. CASE i = 2
      BY <2>2, <2>5
    <2>6. CASE i = 3
      BY <2>2, <2>6
    <2> QED
      BY <2>3, <2>4, <2>5, <2>6 DEF Slot
  <1>4. r.slot[i][1] = a /\ r.slot[i][2] = b /\ r.slot[i][3] = c
    BY <1>1
  <1>5. SlotBytes(p, i) = <<a, b, c>>
    BY <1>3, <1>4 DEF SlotBytes
  <1> QED
    BY <1>1, <1>5, Zenon DEF p

(* A finger touches after the record exactly if the report had a contact.  *)
LEMMA DecodeContacts ==
    ASSUME NEW r \in Report, NEW i \in Slot
    PROVE  Decode(Padded(Encode(r)))[i] # << >> <=> i \in Contacts(r)
  <1>1. Decode(Padded(Encode(r)))[i] = IF r.slot[i] = Absent THEN << >>
                                       ELSE Position(r.slot[i])
    BY RecordSlots, Zenon DEF Decode
  <1>2. Position(r.slot[i]) # << >>
    BY DEF Position
  <1> QED
    BY <1>1, <1>2, Zenon DEF Contacts

(* The header carries the buttons, and whether there are coordinates. *)
LEMMA HeaderIsRead ==
    ASSUME NEW r \in Report
    PROVE  /\ Padded(Encode(r))[1] = Header(r) /\ IsHeader(Header(r))
           /\ Header(r) % 4 = r.buttons
           /\ r.coordinates => ~ButtonsOnly(Header(r))
  <1>1. r.buttons \in 0 .. 3 /\ r.coordinates \in BOOLEAN
    BY ContactAssumption DEF Report, ContactAssumption
  <1>2. Header(r) = 8 + r.buttons \/ (~r.coordinates /\ Header(r) = 24 + r.buttons)
    BY <1>1 DEF Header
  <1>3. Header(r) % 4 = r.buttons
    <2> DEFINE b == r.buttons
    <2>1. b \in 0 .. 3
      BY <1>1
    <2> HIDE DEF b
    <2>2. (8 + b) % 4 = b /\ (24 + b) % 4 = b
      BY <2>1
    <2> QED
      BY <1>2, <2>2 DEF b
  <1>4. r.coordinates => ~ButtonsOnly(Header(r))
    <2> SUFFICES ASSUME r.coordinates PROVE ~ButtonsOnly(Header(r))
      OBVIOUS
    <2>1. Header(r) \in 8 .. 11
      BY <1>1 DEF Header
    <2> QED
      BY <2>1 DEF ButtonsOnly
  <1> QED
    BY <1>3, <1>4, RecordBytes, HeaderIsHeader, Zenon

LEMMA InitFramed == Init => FTEInv
  <1> SUFFICES ASSUME Init PROVE FTEInv
    OBVIOUS
  <1>1. Types
    BY DEF Init, Types
  <1>2. Framed
    BY DEF Init, Framed, Between
  <1>3. RecordsAreReports
    BY DEF Init, RecordsAreReports
  <1> QED
    BY <1>1, <1>2, <1>3 DEF FTEInv

(* A report begins: the driver has nothing of it yet. *)
LEMMA SendFramed ==
    ASSUME FTEInv, SendReport
    PROVE  FTEInv'
  <1>1. PICK r \in Report : sending' = Encode(r) /\ sent' = Append(sent, r)
    BY DEF SendReport
  <1>2. Encode(r) \in Seq(Data) /\ Len(Encode(r)) # 0
    <2> DEFINE size == Len(Encode(r))
    <2>1. Encode(r) \in Seq(Data) /\ (size = 8 \/ size = 16)
      BY EncodeLayout, Zenon
    <2> HIDE DEF size
    <2>2. size # 0
      BY <2>1
    <2> QED
      BY <2>1, <2>2, Zenon DEF size
  <1>3. /\ sending = << >> /\ power = "on" /\ packet = << >> /\ Len(sent) = Len(ring)
        /\ sent \in Seq(Report) /\ ring \in Seq(Seq(Data))
        /\ UNCHANGED <<packet, packetFingerCount, ring, power>>
    BY DEF SendReport, FTEInv, Types, Framed, Between
  <1>4. /\ sent' \in Seq(Report) /\ Len(sent) \in Nat /\ Len(sent') = Len(sent) + 1
        /\ sent'[Len(sent')] = r /\ \A k \in 1 .. Len(sent) : sent'[k] = sent[k]
    BY <1>1, <1>3, AppendProperties, LenProperties
  <1>5. Types'
    BY <1>1, <1>2, <1>3, <1>4 DEF FTEInv, Types
  <1>6. packet' \o sending' = Encode(r) /\ Len(packet') = 0
    BY <1>1, <1>2, <1>3, ConcatEmptySeq
  <1>7. sending' # << >>
    BY <1>1, <1>2, EmptySeq, Zenon
  <1>8. Framed'
    BY <1>3, <1>4, <1>6, <1>7 DEF Framed, Assembling
  <1>9. RecordsAreReports'
    BY <1>3, <1>4 DEF FTEInv, RecordsAreReports
  <1> QED
    BY <1>5, <1>8, <1>9 DEF FTEInv

(* A byte of the report arrives; with its last byte the record is whole.   *)
(* The report's fifth byte, by which the driver knows its length, is in    *)
(* the packet by then.                                                     *)
LEMMA InterruptFramed ==
    ASSUME FTEInv, InterruptOccurred
    PROVE  FTEInv'
  <1> DEFINE data == Head(sending)
             p == Append(packet, data)
             count == IF Len(p) = 5 THEN FingerCount(data) ELSE packetFingerCount
             whole == \/ Len(p) = ShortLength /\ count <= 2
                      \/ Len(p) = LongLength
             r == sent[Len(sent)]
  <1>1. /\ sending # << >> /\ sending' = Tail(sending)
        /\ UNCHANGED <<power, sent>>
    BY DEF InterruptOccurred
  <1>2. /\ sending \in Seq(Data) /\ packet \in Seq(Data)
        /\ ring \in Seq(Seq(Data)) /\ sent \in Seq(Report)
        /\ power = "on" /\ Len(sent) = Len(ring) + 1
        /\ packet \o sending = Encode(r)
        /\ Len(packet) >= 5 => packetFingerCount = FingerCount(packet[5])
    BY <1>1 DEF FTEInv, Types, Framed, Assembling
  <1>3. Len(ring) \in Nat /\ Len(sent) \in Nat /\ Len(packet) \in Nat /\ r \in Report
    BY <1>2, LenProperties, ElementOfSeq
  <1>4. /\ data \in Data /\ Tail(sending) \in Seq(Data)
        /\ Len(sending) \in Nat \ {0} /\ Len(Tail(sending)) = Len(sending) - 1
        /\ Tail(sending) = << >> <=> Len(sending) = 1
    <2>1. /\ data \in Data /\ Tail(sending) \in Seq(Data)
          /\ Len(sending) \in Nat \ {0} /\ Len(Tail(sending)) = Len(sending) - 1
      BY <1>1, <1>2, HeadTailProperties, EmptySeq
    <2>2. Tail(sending) = << >> <=> Len(Tail(sending)) = 0
      BY <2>1, EmptySeq
    <2>3. Len(sending) - 1 = 0 <=> Len(sending) = 1
      BY <2>1
    <2> QED
      BY <2>1, <2>2, <2>3
  <1>5. p \in Seq(Data) /\ Len(p) = Len(packet) + 1
    BY <1>2, <1>4, AppendProperties
  <1>6. p \o Tail(sending) = Encode(r)
    <2>1. sending = <<data>> \o Tail(sending) /\ <<data>> \in Seq(Data)
      BY <1>1, <1>2, <1>4
    <2>2. p \o Tail(sending) = packet \o (<<data>> \o Tail(sending))
      BY <1>2, <1>4, Regrouped
    <2> QED
      BY <1>2, <2>1, <2>2, Zenon
  <1> DEFINE n == Cardinality(Contacts(r))
  <1>7. /\ n \in 0 .. 4 /\ Len(Encode(r)) = IF n <= 2 THEN 8 ELSE 16
        /\ Encode(r)[1] = Header(r) /\ FingerCount(Encode(r)[5]) = n
    BY <1>3, EncodeLayout, ContactCount, CountIsRead
  <1> HIDE DEF p, data, r, n
  <1>8. /\ Len(Encode(r)) = Len(p) + Len(Tail(sending))
        /\ \A i \in 1 .. Len(p) : Encode(r)[i] = p[i]
    <2> DEFINE rest == Tail(sending)
    <2>1. rest \in Seq(Data) /\ p \in Seq(Data) /\ p \o rest = Encode(r)
      BY <1>4, <1>5, <1>6
    <2> HIDE DEF rest
    <2>2. /\ Len(p \o rest) = Len(p) + Len(rest)
          /\ \A i \in 1 .. Len(p) : (p \o rest)[i] = p[i]
      BY <2>1, Joined, Zenon
    <2> QED
      BY <2>1, <2>2, Zenon DEF rest
  <1>9. /\ p[Len(packet) + 1] = data
        /\ \A i \in 1 .. Len(packet) : p[i] = packet[i]
    BY <1>2, <1>4, AppendProperties DEF p
  <1>10. packet = << >> => IsHeader(data)
    <2> SUFFICES ASSUME packet = << >> PROVE IsHeader(data)
      OBVIOUS
    <2>1. Len(packet) = 0
      OBVIOUS
    <2>2. Len(p) = 1 /\ p[1] = data
      BY <2>1, <1>5, <1>9
    <2>3. Encode(r)[1] = p[1]
      BY <2>2, <1>8
    <2> QED
      BY <2>2, <2>3, <1>3, <1>7, HeaderIsHeader
  <1>11. /\ packet' = IF whole THEN << >> ELSE p
         /\ packetFingerCount' = count
         /\ ring' = IF whole THEN Append(ring, Padded(p)) ELSE ring
    BY <1>10 DEF InterruptOccurred, p, data
  <1>12. Len(p) >= 5 => count = FingerCount(p[5]) /\ count = n
    <2> SUFFICES ASSUME Len(p) >= 5
                 PROVE  count = FingerCount(p[5]) /\ count = n
      OBVIOUS
    <2>1. Encode(r)[5] = p[5]
      <3>1. 5 \in 1 .. Len(p)
        BY <1>3, <1>5
      <3> QED
        BY <3>1, <1>8, Zenon
    <2>2. CASE Len(p) = 5
      BY <2>1, <2>2, <1>3, <1>5, <1>7, <1>9
    <2>3. CASE Len(p) # 5
      <3>1. Len(packet) >= 5 /\ p[5] = packet[5]
        BY <2>3, <1>3, <1>5, <1>9
      <3> QED
        BY <2>1, <2>3, <3>1, <1>2, <1>7
    <2> QED
      BY <2>2, <2>3
  <1> HIDE DEF count
  <1>13. whole <=> Tail(sending) = << >>
    <2>1. Tail(sending) = << >> <=> Len(p) = Len(Encode(r))
      BY <1>3, <1>4, <1>5, <1>8
    <2>2. Len(p) <= Len(Encode(r)) /\ Len(p) \in Nat
      BY <1>3, <1>4, <1>5, <1>8
    <2>3. CASE n <= 2
      <3>1. Len(Encode(r)) = 8
        BY <2>3, <1>7
      <3> QED
        <4> DEFINE size == Len(p)
        <4>1. /\ size \in Nat /\ size <= 8 /\ (size >= 5 => count = n)
              /\ Tail(sending) = << >> <=> size = 8
          BY <2>1, <2>2, <3>1, <1>12
        <4>2. whole <=> (size = 8 /\ count <= 2) \/ size = 16
          BY Zenon DEF ShortLength, LongLength
        <4> HIDE DEF size, whole
        <4> QED
          BY <4>1, <4>2, <2>3
    <2>4. CASE ~(n <= 2)
      <3>1. Len(Encode(r)) = 16
        BY <2>4, <1>7
      <3>2. ~(Len(p) = 8 /\ count <= 2)
        BY <2>2, <2>4, <1>12
      <3> QED
        BY <2>1, <3>1, <3>2 DEF ShortLength, LongLength
    <2> QED
      BY <2>3, <2>4
  <1> HIDE DEF whole
  <1>14. CASE whole
    <2>1. p = Encode(r)
      BY <1>5, <1>6, <1>13, <1>14, ConcatEmptySeq
    <2>2. /\ sending' = << >> /\ packet' = << >> /\ ring' = Append(ring, Padded(Encode(r)))
      BY <1>1, <1>11, <1>13, <1>14, <2>1
    <2>3. Padded(Encode(r)) \in Seq(Data)
      BY <1>3, PaddedBytes
    <2>4. /\ ring' \in Seq(Seq(Data)) /\ Len(ring') = Len(ring) + 1
          /\ ring'[Len(ring) + 1] = Padded(Encode(r))
          /\ \A k \in 1 .. Len(ring) : ring'[k] = ring[k]
      BY <1>2, <2>2, <2>3, AppendProperties
    <2>5. Types'
      BY <1>1, <1>2, <2>2, <2>4 DEF Types
    <2>6. Framed'
      BY <1>1, <1>2, <2>2, <2>4 DEF Framed, Between
    <2>7. RecordsAreReports'
      <3>1. Len(sent') = Len(ring')
        BY <1>1, <1>2, <2>4
      <3>2. ASSUME NEW k \in 1 .. Len(ring') PROVE ring'[k] = Padded(Encode(sent'[k]))
        <4>1. CASE k = Len(ring) + 1
          BY <4>1, <1>1, <1>2, <2>4 DEF r
        <4>2. CASE k # Len(ring) + 1
          <5>1. k \in 1 .. Len(ring)
            BY <4>2, <2>4, <1>3
          <5> QED
            BY <5>1, <1>1, <2>4 DEF FTEInv, RecordsAreReports
        <4> QED
          BY <4>1, <4>2
      <3> QED
        BY <3>1, <3>2 DEF RecordsAreReports
    <2> QED
      BY <2>5, <2>6, <2>7 DEF FTEInv
  <1>15. CASE ~whole
    <2>1. /\ sending' # << >> /\ packet' = p /\ ring' = ring
          /\ packetFingerCount' = count
      BY <1>1, <1>11, <1>13, <1>15
    <2>2. Types'
      BY <1>1, <1>2, <1>4, <1>5, <2>1 DEF Types
    <2>3. Assembling'
      BY <1>1, <1>2, <1>6, <1>12, <2>1 DEF Assembling, r
    <2>4. RecordsAreReports'
      BY <1>1, <2>1 DEF FTEInv, RecordsAreReports
    <2> QED
      BY <2>1, <2>2, <2>3, <2>4 DEF FTEInv, Framed
  <1> QED
    BY <1>14, <1>15

(* The oldest record and the oldest report leave together. *)
LEMMA ProcessFramed ==
    ASSUME FTEInv, ProcessPacket
    PROVE  FTEInv'
  <1>1. /\ ring # << >> /\ ring' = Tail(ring) /\ sent' = Tail(sent)
        /\ UNCHANGED <<sending, packet, packetFingerCount, power>>
    BY DEF ProcessPacket
  <1>2. /\ ring \in Seq(Seq(Data)) /\ sent \in Seq(Report)
        /\ Len(sent) \in {Len(ring), Len(ring) + 1}
    BY DEF FTEInv, Types, RecordsAreReports
  <1>3. Len(ring) \in Nat \ {0} /\ Len(sent) \in Nat \ {0} /\ sent # << >>
    BY <1>1, <1>2, EmptySeq
  <1>4. /\ ring' \in Seq(Seq(Data)) /\ Len(ring') = Len(ring) - 1
        /\ \A k \in 1 .. Len(ring') : ring'[k] = ring[k + 1]
    BY <1>1, <1>2, HeadTailProperties
  <1>5. /\ sent' \in Seq(Report) /\ Len(sent') = Len(sent) - 1
        /\ \A k \in 1 .. Len(sent') : sent'[k] = sent[k + 1]
    BY <1>1, <1>2, <1>3, HeadTailProperties
  <1>6. Types'
    BY <1>1, <1>4, <1>5 DEF FTEInv, Types
  <1>7. Framed'
    <2>1. CASE sending = << >>
      BY <2>1, <1>1, <1>4, <1>5 DEF FTEInv, Framed, Between
    <2>2. CASE sending # << >>
      <3>1. Assembling
        BY <2>2 DEF FTEInv, Framed
      <3>2. Len(sent') = Len(ring') + 1 /\ sent'[Len(sent')] = sent[Len(sent)]
        <4>1. Len(sent) = Len(ring) + 1
          BY <3>1 DEF Assembling
        <4>2. Len(sent') \in 1 .. Len(sent') /\ Len(sent') + 1 = Len(sent)
          BY <4>1, <1>3, <1>5
        <4> QED
          BY <4>1, <4>2, <1>3, <1>4, <1>5
      <3> QED
        BY <2>2, <3>1, <3>2, <1>1 DEF Framed, Assembling
    <2> QED
      BY <2>1, <2>2
  <1>8. RecordsAreReports'
    <2>1. Len(sent') \in {Len(ring'), Len(ring') + 1}
      BY <1>2, <1>3, <1>4, <1>5
    <2>2. ASSUME NEW k \in 1 .. Len(ring') PROVE ring'[k] = Padded(Encode(sent'[k]))
      <3>1. k + 1 \in 1 .. Len(ring) /\ k \in 1 .. Len(sent')
        BY <2>1, <1>3, <1>4, <1>5
      <3>2. ring[k + 1] = Padded(Encode(sent[k + 1]))
        BY <3>1 DEF FTEInv, RecordsAreReports
      <3> QED
        BY <3>1, <3>2, <1>4, <1>5
    <2> QED
      BY <2>1, <2>2 DEF RecordsAreReports
  <1> QED
    BY <1>6, <1>7, <1>8 DEF FTEInv

(* A sleep cuts off the report that is being sent. *)
LEMMA DisableFramed ==
    ASSUME FTEInv, Disable
    PROVE  FTEInv'
  <1>1. /\ power' = "off" /\ sending' = << >> /\ << >> \in Seq(Data)
        /\ sent' = IF Len(sent) > Len(ring) THEN SubSeq(sent, 1, Len(ring)) ELSE sent
        /\ UNCHANGED <<packet, packetFingerCount, ring>>
    BY DEF Disable
  <1>2. /\ ring \in Seq(Seq(Data)) /\ sent \in Seq(Report)
        /\ Len(sent) \in {Len(ring), Len(ring) + 1}
    BY DEF FTEInv, Types, RecordsAreReports
  <1>3. Len(ring) \in Nat /\ Len(sent) \in Nat
    BY <1>2, LenProperties
  <1>4. /\ sent' \in Seq(Report) /\ Len(sent') = Len(ring)
        /\ \A k \in 1 .. Len(ring) : sent'[k] = sent[k]
    <2>1. CASE Len(sent) > Len(ring)
      <3>1. sent' = SubSeq(sent, 1, Len(ring))
        BY <2>1, <1>1
      <3>2. \A i \in 1 .. Len(ring) : sent[i] \in Report
        BY <2>1, <1>2, <1>3, ElementOfSeq
      <3> QED
        BY <3>1, <3>2, <1>3, SubSeqProperties
    <2>2. CASE ~(Len(sent) > Len(ring))
      BY <2>2, <1>1, <1>2, <1>3
    <2> QED
      BY <2>1, <2>2
  <1>5. Types'
    BY <1>1, <1>4 DEF FTEInv, Types
  <1>6. Framed'
    BY <1>1, <1>4 DEF Framed, Between
  <1>7. RecordsAreReports'
    BY <1>1, <1>4 DEF FTEInv, RecordsAreReports
  <1> QED
    BY <1>5, <1>6, <1>7 DEF FTEInv

(* A wake begins with nothing. *)
LEMMA EnableFramed ==
    ASSUME FTEInv, Enable
    PROVE  FTEInv'
  <1>1. /\ power = "off" /\ power' \in {"on", "dead"} /\ packet' = << >>
        /\ ring' = << >> /\ sent' = << >> /\ sending' = sending
    BY DEF Enable
  <1>2. sending = << >>
    BY <1>1 DEF FTEInv, Framed, Assembling
  <1>3. Types'
    BY <1>1, <1>2 DEF Types
  <1>4. Framed'
    BY <1>1, <1>2 DEF Framed, Between
  <1>5. RecordsAreReports'
    BY <1>1 DEF RecordsAreReports
  <1> QED
    BY <1>3, <1>4, <1>5 DEF FTEInv

(* Reports of eight and of sixteen bytes, in any order and with sleeps in  *)
(* the middle of them, are cut where the pad cut them, and the k-th record *)
(* in the ring is the k-th report, padded (interruptOccurred).             *)
THEOREM FTERecordsAreReports == Spec => []RecordsAreReports
  <1>1. FTEInv /\ [Next]_vars => FTEInv'
    <2> SUFFICES ASSUME FTEInv, [Next]_vars PROVE FTEInv'
      OBVIOUS
    <2>1. CASE UNCHANGED vars
      BY <2>1 DEF vars, FTEInv, Types, Framed, Assembling, Between, RecordsAreReports
    <2> QED
      BY <2>1, SendFramed, InterruptFramed, ProcessFramed, DisableFramed, EnableFramed
      DEF Next
  <1>2. FTEInv => RecordsAreReports
    BY DEF FTEInv
  <1> QED
    BY <1>1, <1>2, InitFramed, PTL DEF Spec

-----------------------------------------------------------------------------
(***************************************************************************)
(* The client                                                              *)
(***************************************************************************)

(* Until the first sleep the client and the driver agree on the buttons.   *)
ClientInv ==
    /\ FTEInv /\ ClientFollowsReports
    /\ ~slept => client.buttons = lastButtons /\ power = "on"

LEMMA ProcessFollows ==
    ASSUME ClientInv, ProcessPacket
    PROVE  ClientInv'
  <1> DEFINE r == Head(sent)
             p == Head(ring)
  <1>1. FTEInv /\ FTEInv'
    BY ProcessFramed DEF ClientInv
  <1>2. r \in Report /\ p = Padded(Encode(r))
    <2>1. /\ ring # << >> /\ ring \in Seq(Seq(Data)) /\ sent \in Seq(Report)
          /\ Len(sent) \in {Len(ring), Len(ring) + 1}
      BY <1>1 DEF ProcessPacket, FTEInv, Types, RecordsAreReports
    <2>2. Len(ring) \in Nat \ {0} /\ Len(sent) \in Nat \ {0} /\ sent # << >>
      BY <2>1, EmptySeq
    <2>3. /\ Head(ring) = ring[1] /\ Head(sent) = sent[1] /\ 1 \in 1 .. Len(ring)
          /\ 1 \in 1 .. Len(sent)
      BY <2>1, <2>2
    <2>4. ring[1] = Padded(Encode(sent[1])) /\ sent[1] \in Report
      BY <1>1, <2>1, <2>3, ElementOfSeq DEF FTEInv, RecordsAreReports
    <2> QED
      BY <2>3, <2>4, Zenon
  <1>3. /\ p[1] = Header(r) /\ IsHeader(p[1]) /\ p[1] % 4 = r.buttons
        /\ r.coordinates => ~ButtonsOnly(p[1])
    BY <1>2, HeaderIsRead, Zenon
  <1>4. /\ fingers' = IF ButtonsOnly(p[1]) THEN fingers ELSE Decode(p)
        /\ lastButtons' = p[1] % 4
        /\ client' = [fingers |-> fingers',
                      buttons |-> IF p[1] % 4 # lastButtons THEN p[1] % 4
                                  ELSE client.buttons]
        /\ seen' = r /\ slept' = slept /\ power' = power
    BY <1>3 DEF ProcessPacket
  <1> HIDE DEF p, r
  <1>5. ~slept => /\ client'.buttons = lastButtons' /\ lastButtons' = seen'.buttons
                  /\ power' = "on"
    <2>1. ~slept => client.buttons = lastButtons /\ power = "on"
      BY DEF ClientInv
    <2> QED
      BY <1>3, <1>4, <2>1
  <1>6. seen'.coordinates =>
           \A i \in Slot : (client'.fingers[i] # << >>) <=> i \in Contacts(seen')
    <2> SUFFICES ASSUME seen'.coordinates, NEW i \in Slot
                 PROVE  client'.fingers[i] # << >> <=> i \in Contacts(seen')
      OBVIOUS
    <2>1. client'.fingers = Decode(p) /\ seen' = r
      BY <1>3, <1>4
    <2> QED
      BY <2>1, <1>2, DecodeContacts, Zenon
  <1> QED
    BY <1>1, <1>4, <1>5, <1>6 DEF ClientInv, ClientFollowsReports

(* Until the first sleep VoodooInput holds the buttons of the last report  *)
(* processed and, if it had coordinates, a finger in each of its contact   *)
(* slots and no other (processPacket, reportState, sendTouchData).         *)
THEOREM FTEClientFollowsReports == Spec => []ClientFollowsReports
  <1>1. Init => ClientInv
    <2> SUFFICES ASSUME Init PROVE ClientInv
      OBVIOUS
    <2>1. Contacts(NoReport) = {} /\ NoReport.buttons = 0
      BY DEF Contacts, NoReport
    <2>2. ClientFollowsReports
      BY <2>1 DEF Init, ClientFollowsReports
    <2>3. client.buttons = lastButtons /\ power = "on"
      BY DEF Init
    <2> QED
      BY <2>2, <2>3, InitFramed DEF ClientInv
  <1>2. ClientInv /\ [Next]_vars => ClientInv'
    <2> SUFFICES ASSUME ClientInv, [Next]_vars PROVE ClientInv'
      OBVIOUS
    <2>1. FTEInv'
      <3>1. CASE UNCHANGED vars
        BY <3>1 DEF vars, ClientInv, FTEInv, Types, Framed, Assembling, Between,
                    RecordsAreReports
      <3> QED
        BY <3>1, SendFramed, InterruptFramed, ProcessFramed, DisableFramed, EnableFramed
        DEF Next, ClientInv
    <2>2. CASE SendReport \/ InterruptOccurred \/ UNCHANGED vars
      <3>1. UNCHANGED <<client, lastButtons, seen, slept, power>>
        BY <2>2 DEF SendReport, InterruptOccurred, vars
      <3> QED
        BY <2>1, <3>1 DEF ClientInv, ClientFollowsReports
    <2>3. CASE Disable
      BY <2>1, <2>3 DEF Disable, ClientInv, ClientFollowsReports
    <2>4. CASE Enable
      BY <2>1, <2>4 DEF Enable, ClientInv, ClientFollowsReports
    <2> QED
      BY <2>2, <2>3, <2>4, ProcessFollows DEF Next
  <1>3. ClientInv => ClientFollowsReports
    BY DEF ClientInv
  <1> QED
    BY <1>1, <1>2, <1>3, PTL DEF Spec
=============================================================================
