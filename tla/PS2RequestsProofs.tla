------------------------- MODULE PS2RequestsProofs --------------------------
(***************************************************************************)
(* Theorems about PS2Requests: types, and the order in which requests are  *)
(* completed, for any ports, requests, programs and answers of devices,    *)
(* on one CPU or several; that none is forgotten; and, where everyone is   *)
(* careful, that no data is lost, doubled or reordered and that every      *)
(* request succeeds.                                                       *)
(***************************************************************************)
EXTENDS PS2Requests, SequenceTheorems, TLAPS

Entry == [request : Request, ok : BOOLEAN, reads : Seq(Byte)]

-----------------------------------------------------------------------------
(***************************************************************************)
(* The inductive invariant                                                 *)
(***************************************************************************)

(* Where processRequest is fixes _ignoreInterrupts, and it has a request   *)
(* in hand unless the work loop is free.                                   *)
Working ==
    /\ index \in Nat
    /\ pc = "free" <=> local = << >>
    /\ ignore = IF pc \in {"free", "begin"} THEN 0 ELSE 1

(* The requests in the order in which they are worked on: those completed, *)
(* those taken from the queue, those in the queue.                         *)
Completed == [i \in 1 .. Len(done) |-> done[i].request]
line == Completed \o (local \o queue)

At(s, r) == {i \in 1 .. Len(s) : s[i] = r}

(* Only what was submitted is worked on, and a request that does not block *)
(* is in the line from its submission on.                                  *)
LineIsSubmitted ==
    /\ \A r \in Request : At(line, r) # {} => At(submitted, r) # {}
    /\ \A r \in waiting : At(submitted, r) # {}
    /\ \A i \in 1 .. Len(submitted) :
          submitted[i] \notin Blocking => At(line, submitted[i]) # {}

(* In the line it precedes everything submitted after it. *)
LineInOrder ==
    \A i, j \in 1 .. Len(submitted) :
        i < j /\ submitted[i] \notin Blocking =>
            \E k \in At(line, submitted[i]) : \A l \in At(line, submitted[j]) : k < l

TypeInv == TypeOK /\ Working
OrderInv == TypeInv /\ LineIsSubmitted /\ LineInOrder

-----------------------------------------------------------------------------
(***************************************************************************)
(* Types                                                                   *)
(***************************************************************************)

(* The bytes that the model puts on the wire are bytes. *)
LEMMA AnswerByte ==
    ASSUME NEW p \in Port, NEW kind \in {"data", "ack", "nak", "reply", "none"}
    PROVE  /\ Answer(p, kind) \in Byte /\ NoByte(p) \in Byte
           /\ Answer(p, kind).kind = kind
  BY RequestAssumption DEF Answer, NoByte, Byte, RequestAssumption

(* What a device answers is a sequence of bytes. *)
LEMMA ResponseBytes ==
    ASSUME NEW p \in Port, NEW says, NEW response \in Responses(p, says)
    PROVE  response \in Seq(Byte)
  <1>1. PICK a \in Answers : response = IF a = "none" THEN << >>
                 ELSE IF a = "ack" /\ says = "info"
                      THEN <<Answer(p, "ack"), Answer(p, "reply")>>
                      ELSE <<Answer(p, a)>>
    BY DEF Responses
  <1>2. a \in {"ack", "nak", "none"}
    BY RequestAssumption DEF RequestAssumption
  <1> QED
    BY <1>1, <1>2, AnswerByte

(* A sequence of at most one byte, if not empty, has a first one. *)
LEMMA FirstByte ==
    ASSUME NEW s \in Seq(Byte), s # << >>
    PROVE  s[1] \in Byte /\ Head(s) \in Byte /\ Tail(s) \in Seq(Byte)
  BY HeadTailProperties, EmptySeq, LenProperties, ElementOfSeq

(* The data port gives a byte, and reading it empties the buffer. *)
LEMMA DataPortByte ==
    ASSUME TypeOK
    PROVE  DataPort \in Byte
  BY FirstByte DEF DataPort, TypeOK

(* The request in hand, its port and what a byte's port is. *)
LEMMA InHand ==
    ASSUME TypeOK, local # << >>
    PROVE  /\ request \in Request /\ port \in Port
           /\ Tail(local) \in Seq(Request) /\ Len(local) \in Nat \ {0}
           /\ Len(local) = 1 <=> Tail(local) = << >>
  <1>1. local \in Seq(Request)
    BY DEF TypeOK
  <1>2. /\ Head(local) \in Request /\ Tail(local) \in Seq(Request)
        /\ Len(local) \in Nat \ {0} /\ Len(Tail(local)) = Len(local) - 1
    BY <1>1, HeadTailProperties, EmptySeq
  <1>3. Tail(local) = << >> <=> Len(Tail(local)) = 0
    BY <1>2, EmptySeq
  <1>4. PortOf[Head(local)] \in Port
    BY <1>2, RequestAssumption DEF RequestAssumption
  <1> QED
    BY <1>2, <1>3, <1>4 DEF request, port

(* All of the invariant that is about types holds at first. *)
LEMMA InitTypes == Init => TypeInv
  <1> SUFFICES ASSUME Init PROVE TypeInv
    OBVIOUS
  <1>1. PICK q : q = CHOOSE p \in Port : TRUE
    OBVIOUS
  <1>2. q \in Port
    BY <1>1, RequestAssumption DEF RequestAssumption
  <1>3. latch = NoByte(q) /\ latch \in Byte /\ latch.port = q
    BY <1>1, <1>2, AnswerByte DEF Init, NoByte
  <1>4. /\ wire \in [Port -> Seq(Byte)] /\ rx \in [Port -> Seq(Byte)]
        /\ sent \in [Port -> 0 .. DataBound]
    BY RequestAssumption DEF Init, RequestAssumption
  <1>5. /\ out \in Seq(Byte) /\ Len(out) <= 1 /\ held \in Seq(Byte) /\ Len(held) <= 1
        /\ queue \in Seq(Request) /\ local \in Seq(Request) /\ submitted \in Seq(Request)
        /\ got \in Seq(Byte) /\ done \in Seq(Entry)
    BY DEF Init
  <1>6. Working
    BY DEF Init, Working
  <1>7. /\ streaming \subseteq Port /\ irq \in BOOLEAN /\ latch \in Byte
        /\ waiting \subseteq Blocking /\ ignore \in 0 .. 1
        /\ pc = "free" /\ isr = "idle"
    <2>1. /\ streaming = Port /\ waiting = {} /\ ignore = 0
          /\ pc = "free" /\ isr = "idle"
      BY DEF Init
    <2>2. irq \in BOOLEAN
      BY Zenon DEF Init
    <2>3. ignore \in 0 .. 1
      BY <2>1
    <2> QED
      BY <1>3, <2>1, <2>2, <2>3
  <1>8. pollPort = latch.port /\ isrPort = latch.port /\ isrByte = latch
    BY DEF Init
  <1>9. pollPort \in Port /\ isrPort \in Port /\ isrByte \in Byte
    BY <1>2, <1>3, <1>8
  <1> QED
    BY <1>4, <1>5, <1>6, <1>7, <1>9 DEF TypeInv, TypeOK, Entry

(* The devices, the 8042 and the interrupt handler keep the types. *)
LEMMA HardwareTypes ==
    ASSUME TypeInv,
           \/ \E p \in Port : DeviceSends(p) \/ Fill(p)
           \/ InterruptHandler
    PROVE  TypeInv'
  <1> USE DEF TypeInv, Working
  <1>1. ASSUME NEW p \in Port, DeviceSends(p) PROVE TypeInv'
    <2>1. sent[p] + 1 \in 0 .. DataBound
      <3>1. sent[p] \in 0 .. DataBound /\ DataBound \in Nat /\ sent[p] < DataBound
        BY <1>1, RequestAssumption DEF DeviceSends, Datum, TypeOK, RequestAssumption
      <3> QED
        BY <3>1
    <2>2. sent' \in [Port -> 0 .. DataBound] /\ sent'[p] \in 0 .. DataBound
      BY <1>1, <2>1 DEF DeviceSends, Datum, TypeOK
    <2>3. [port |-> p, kind |-> "data", n |-> sent'[p]] \in Byte
      BY <2>2 DEF Byte
    <2>4. wire' \in [Port -> Seq(Byte)]
      BY <1>1, <2>3 DEF DeviceSends, Datum, TypeOK
    <2> QED
      BY <1>1, <2>2, <2>4 DEF DeviceSends, Datum, TypeOK, handler, requests, polling
  <1>2. ASSUME NEW p \in Port, Fill(p) PROVE TypeInv'
    <2>1. wire[p] \in Seq(Byte) /\ wire[p] # << >>
      BY <1>2 DEF Fill, TypeOK
    <2>2. Head(wire[p]) \in Byte /\ Tail(wire[p]) \in Seq(Byte)
      BY <2>1, FirstByte
    <2>3. wire' \in [Port -> Seq(Byte)] /\ out' \in Seq(Byte) /\ Len(out') <= 1
      BY <1>2, <2>2 DEF Fill, TypeOK
    <2> QED
      BY <1>2, <2>3 DEF Fill, TypeOK, handler, requests, polling
  <1>3. CASE TakeInterrupt
    BY <1>3 DEF TakeInterrupt, TypeOK, requests, polling
  <1>4. CASE InterruptStatus
    <2>1. out # << >> => out[1].port \in Port
      BY FirstByte DEF TypeOK, Byte
    <2> QED
      BY <1>4, <2>1 DEF InterruptStatus, TypeOK, device, requests, polling
  <1>5. CASE InterruptData
    BY <1>5, DataPortByte DEF InterruptData, ReadDataPort, TypeOK, requests, polling
  <1>6. CASE InterruptDispatch
    <2>1. rx' \in [Port -> Seq(Byte)]
      BY <1>6 DEF InterruptDispatch, Dispatch, TypeOK
    <2> QED
      BY <1>6, <2>1 DEF InterruptDispatch, TypeOK, device, requests, polling
  <1> QED
    BY <1>1, <1>2, <1>3, <1>4, <1>5, <1>6 DEF InterruptHandler

(* Submitting and taking requests from the queue keep the types. *)
LEMMA QueueTypes ==
    ASSUME TypeInv,
           \/ \E r \in Request : \/ SubmitRequest(r) \/ SubmitRequestAndBlock(r)
                                 \/ SubmitRequestAndBlockGated(r)
           \/ ProcessRequestQueue
    PROVE  TypeInv'
  <1> USE DEF TypeInv, Working
  <1>1. ASSUME NEW r \in Request, SubmitRequest(r) PROVE TypeInv'
    <2>1. queue' \in Seq(Request) /\ submitted' \in Seq(Request)
      BY <1>1 DEF SubmitRequest, TypeOK
    <2> QED
      BY <1>1, <2>1 DEF SubmitRequest, TypeOK, device, handler, polling
  <1>2. ASSUME NEW r \in Request, SubmitRequestAndBlock(r) PROVE TypeInv'
    <2>1. waiting' \subseteq Blocking /\ submitted' \in Seq(Request)
      BY <1>2 DEF SubmitRequestAndBlock, TypeOK
    <2> QED
      BY <1>2, <2>1 DEF SubmitRequestAndBlock, TypeOK, device, handler, polling
  <1>3. ASSUME NEW r \in Request, SubmitRequestAndBlockGated(r) PROVE TypeInv'
    <2>1. /\ local' \in Seq(Request) /\ local' # << >>
          /\ queue' \in Seq(Request) /\ waiting' \subseteq Blocking
      <3>1. queue \in Seq(Request) /\ waiting \subseteq Blocking
        BY DEF TypeOK
      <3>2. Append(queue, r) \in Seq(Request) /\ Append(queue, r) # << >>
        BY <3>1, AppendProperties
      <3> QED
        BY <1>3, <3>1, <3>2 DEF SubmitRequestAndBlockGated
    <2> QED
      BY <1>3, <2>1 DEF SubmitRequestAndBlockGated, TypeOK, device, handler
  <1>4. CASE ProcessRequestQueue
    <2>1. local' \in Seq(Request) /\ local' # << >> /\ queue' \in Seq(Request)
      BY <1>4 DEF ProcessRequestQueue, TypeOK
    <2> QED
      BY <1>4, <2>1 DEF ProcessRequestQueue, TypeOK, device, handler
  <1> QED
    BY <1>1, <1>2, <1>3, <1>4

(* The end of a polled read keeps what it touches in its types. *)
LEMMA ReturnTypes ==
    ASSUME TypeInv, NEW b \in Byte, Return(b)
    PROVE  /\ held' = << >> /\ got' \in Seq(Byte) /\ index' \in Nat
           /\ pc' \in {"command", "end"}
  <1>1. Append(got, b) \in Seq(Byte) /\ got \in Seq(Byte)
    BY DEF TypeInv, TypeOK
  <1>2. index \in Nat /\ index + 1 \in Nat
    BY DEF TypeInv, Working
  <1> QED
    BY <1>1, <1>2 DEF Return

(* processRequest keeps the types. *)
LEMMA ProcessTypes ==
    ASSUME TypeInv, ProcessRequest
    PROVE  TypeInv'
  <1> USE DEF TypeInv, Working
  <1>1. CASE Begin
    BY <1>1 DEF Begin, TypeOK, device, handler, requests
  <1>2. CASE WriteCommand
    <2>1. local # << >> /\ port \in Port
      BY <1>2, InHand DEF WriteCommand
    <2>2. PICK response \in Responses(port, command.says) :
             /\ wire' = [wire EXCEPT ![port] = @ \o response]
             /\ streaming' \in {streaming, streaming \ {port}, streaming \cup {port}}
      BY <1>2 DEF WriteCommand, Tell
    <2>3. wire' \in [Port -> Seq(Byte)] /\ streaming' \subseteq Port
      BY <2>1, <2>2, ResponseBytes DEF TypeOK
    <2>4. pc' \in {"command", "status"} /\ index' \in Nat
      BY <1>2 DEF WriteCommand
    <2> QED
      BY <1>2, <2>3, <2>4 DEF WriteCommand, Tell, TypeOK, handler, requests
  <1>3. CASE ReadCommand
    BY <1>3 DEF ReadCommand, TypeOK, device, handler, requests
  <1>4. CASE FlushCommand
    <2>1. /\ out' \in Seq(Byte) /\ Len(out') <= 1 /\ latch' \in Byte
          /\ UNCHANGED <<streaming, wire, irq, sent>> /\ index' \in Nat
      <3>1. CASE out = << >>
        BY <1>4, <3>1 DEF FlushCommand, TypeOK, device
      <3>2. CASE out # << >>
        BY <1>4, <3>2, DataPortByte DEF FlushCommand, ReadDataPort, TypeOK
      <3> QED
        BY <3>1, <3>2
    <2> QED
      BY <1>4, <2>1 DEF FlushCommand, TypeOK, handler, requests
  <1>5. CASE SleepCommand
    BY <1>5 DEF SleepCommand, TypeOK, device, handler, requests
  <1>6. CASE PollStatus
    <2>1. out[1].port \in Port
      BY <1>6, FirstByte DEF PollStatus, TypeOK, Byte
    <2> QED
      BY <1>6, <2>1 DEF PollStatus, TypeOK, device, handler, requests
  <1>7. CASE PollTimeout
    <2>1. port \in Port
      BY <1>7, InHand DEF PollTimeout
    <2>2. (IF held = << >> THEN NoByte(port) ELSE held[1]) \in Byte
      BY <2>1, AnswerByte, FirstByte DEF TypeOK
    <2>3. /\ held' = << >> /\ got' \in Seq(Byte) /\ index' \in Nat
          /\ pc' \in {"command", "end"}
      BY <1>7, <2>2, ReturnTypes DEF PollTimeout
    <2> QED
      BY <1>7, <2>3 DEF PollTimeout, TypeOK, device, handler, requests
  <1>8. CASE PollData
    <2> DEFINE b == DataPort
    <2>1. b \in Byte /\ port \in Port
      BY <1>8, DataPortByte, InHand DEF PollData
    <2>2. held # << >> => held[1] \in Byte
      BY FirstByte DEF TypeOK
    <2>3. /\ held \in Seq(Byte) /\ Len(held) <= 1 /\ got \in Seq(Byte)
          /\ index \in Nat /\ rx \in [Port -> Seq(Byte)] /\ pollPort \in Port
      BY DEF TypeOK
    <2>4. ASSUME NEW p \in Port, NEW c \in Byte, Dispatch(p, c)
          PROVE  rx' \in [Port -> Seq(Byte)]
      BY <2>3, <2>4 DEF Dispatch
    <2>5. /\ held' \in Seq(Byte) /\ Len(held') <= 1 /\ got' \in Seq(Byte)
          /\ index' \in Nat /\ pc' \in {"status", "command", "end"}
          /\ rx' \in [Port -> Seq(Byte)]
      <3> HIDE DEF b
      <3>1. CASE /\ Dispatch(pollPort, b) /\ pc' = "status"
                 /\ UNCHANGED <<index, held, got>>
        BY <3>1, <2>1, <2>3, <2>4
      <3>2. CASE PutAside(b)
        BY <3>2, <2>1, <2>3 DEF PutAside
      <3>3. CASE held # << >> /\ Dispatch(port, b) /\ Return(held[1])
        <4>1. /\ held' = << >> /\ got' \in Seq(Byte) /\ index' \in Nat
              /\ pc' \in {"command", "end"}
          BY <3>3, <2>2, ReturnTypes
        <4> QED
          BY <4>1, <3>3, <2>1, <2>4
      <3>4. CASE /\ IF held = << >> THEN UNCHANGED rx ELSE Dispatch(port, held[1])
                 /\ Return(b)
        <4>1. rx' \in [Port -> Seq(Byte)]
          BY <3>4, <2>1, <2>2, <2>3, <2>4
        <4>2. /\ held' = << >> /\ got' \in Seq(Byte) /\ index' \in Nat
              /\ pc' \in {"command", "end"}
          BY <3>4, <2>1, ReturnTypes
        <4> QED
          BY <4>1, <4>2
      <3> QED
        BY <1>8, <3>1, <3>2, <3>3, <3>4 DEF PollData, b
    <2>6. /\ out' \in Seq(Byte) /\ Len(out') <= 1 /\ latch' \in Byte
          /\ UNCHANGED <<streaming, wire, irq, sent, handler, requests, pollPort, ignore>>
      BY <1>8, <2>1 DEF PollData, ReadDataPort
    <2>7. pc = "data"
      BY <1>8 DEF PollData
    <2> HIDE DEF b
    <2>8. Working'
      BY <2>5, <2>6, <2>7 DEF requests
    <2>9. TypeOK'
      BY <2>5, <2>6 DEF TypeOK, handler, requests
    <2> QED
      BY <2>8, <2>9
  <1>9. CASE End
    <2>1. /\ local # << >> /\ request \in Request /\ Tail(local) \in Seq(Request)
          /\ Len(local) = 1 <=> Tail(local) = << >>
      BY <1>9, InHand DEF End
    <2>2. [request |-> request, ok |-> ~More, reads |-> got] \in Entry
      BY <2>1 DEF Entry, TypeOK
    <2>3. done' \in Seq(Entry)
      BY <1>9, <2>2 DEF End, TypeOK, Entry
    <2>4. /\ ignore = 1 /\ ignore' = 0
          /\ pc' = IF Len(local) = 1 THEN "free" ELSE "begin"
          /\ local' = Tail(local)
      BY <1>9 DEF End
    <2>5. Working'
      BY <1>9, <2>1, <2>4 DEF End
    <2>6. UNCHANGED <<device, handler, queue, waiting, submitted, held, pollPort, got, rx>>
      BY <1>9 DEF End
    <2>7. TypeOK'
      BY <2>1, <2>3, <2>4, <2>6 DEF TypeOK, Entry, device, handler
    <2> QED
      BY <2>5, <2>7
  <1> QED
    BY <1>1, <1>2, <1>3, <1>4, <1>5, <1>6, <1>7, <1>8, <1>9 DEF ProcessRequest

(* Every step keeps the types. *)
LEMMA StepTypes == TypeInv /\ [Next]_vars => TypeInv'
  <1> SUFFICES ASSUME TypeInv, [Next]_vars PROVE TypeInv'
    OBVIOUS
  <1>1. CASE UNCHANGED vars
    BY <1>1 DEF vars, device, handler, requests, polling, TypeInv, TypeOK, Working
  <1>2. CASE Next
    BY <1>2, HardwareTypes, QueueTypes, ProcessTypes DEF Next, WorkLoop
  <1> QED
    BY <1>1, <1>2

(* The variables of the request queue and the polled reads keep their      *)
(* types: one byte at most is put aside, and _ignoreInterrupts never rises *)
(* above one nor falls below zero (processRequest).                        *)
THEOREM RequestsTypeOK == Spec => []TypeOK
  <1>1. TypeInv => TypeOK
    BY DEF TypeInv
  <1> QED
    BY <1>1, InitTypes, StepTypes, PTL DEF Spec

-----------------------------------------------------------------------------
(***************************************************************************)
(* The line                                                                *)
(***************************************************************************)

(* The requests completed, and the line, are sequences of requests. *)
LEMMA LineTypes ==
    ASSUME TypeOK
    PROVE  /\ Completed \in Seq(Request) /\ Len(Completed) = Len(done)
           /\ local \in Seq(Request) /\ queue \in Seq(Request)
           /\ local \o queue \in Seq(Request)
           /\ line \in Seq(Request)
  <1>1. done \in Seq(Entry) /\ local \in Seq(Request) /\ queue \in Seq(Request)
    BY DEF TypeOK, Entry
  <1>2. Len(done) \in Nat /\ \A i \in 1 .. Len(done) : done[i] \in Entry
    BY <1>1, LenProperties, ElementOfSeq
  <1>3. \A i \in 1 .. Len(done) : done[i].request \in Request
    BY <1>2 DEF Entry
  <1>4. Completed \in Seq(Request) /\ Len(Completed) = Len(done)
    BY <1>2, <1>3 DEF Completed
  <1> QED
    BY <1>1, <1>4, ConcatProperties DEF line

(* What is taken from the queue, and a request that is completed, keep     *)
(* their place in the line.                                                *)
LEMMA LineKept ==
    ASSUME TypeInv, TypeInv', ProcessRequestQueue \/ End
    PROVE  line' = line
  <1> USE DEF TypeInv, Working
  <1>1. CASE ProcessRequestQueue
    <2>1. local = << >> /\ local' = queue /\ queue' = << >> /\ done' = done
      BY <1>1 DEF ProcessRequestQueue
    <2>2. local \o queue = queue /\ local' \o queue' = queue
      BY <2>1, LineTypes, ConcatEmptySeq
    <2> QED
      BY <2>1, <2>2 DEF line, Completed
  <1>2. CASE End
    <2>1. /\ local # << >> /\ local' = Tail(local) /\ queue' = queue
          /\ done' = Append(done, [request |-> request, ok |-> ~More, reads |-> got])
      BY <1>2 DEF End
    <2>2. local = <<Head(local)>> \o Tail(local)
      BY <2>1, LineTypes, HeadTailProperties
    <2>3. Completed' = Completed \o <<request>>
      <3>1. done \in Seq(Entry) /\ Len(done) \in Nat
        BY LenProperties DEF TypeOK, Entry
      <3>2. /\ Len(done') = Len(done) + 1
            /\ \A i \in 1 .. Len(done) : done'[i] = done[i]
            /\ done'[Len(done) + 1].request = request
        BY <2>1, <3>1
      <3>3. <<request>> \in Seq(Request) /\ Len(<<request>>) = 1
        BY <2>1, InHand
      <3>4. Completed \o <<request>> = Append(Completed, request)
        BY <3>3, LineTypes
      <3>5. Completed' = [i \in 1 .. Len(done) + 1 |-> done'[i].request]
        BY <3>2 DEF Completed
      <3>6. \A i \in 1 .. Len(done) : Completed[i] = done[i].request
        BY DEF Completed
      <3>7. /\ Append(Completed, request) \in Seq(Request)
            /\ Len(Append(Completed, request)) = Len(done) + 1
            /\ \A i \in 1 .. Len(done) : Append(Completed, request)[i] = Completed[i]
            /\ Append(Completed, request)[Len(done) + 1] = request
        BY <2>1, LineTypes, InHand, AppendProperties
      <3>8. \A i \in 1 .. Len(done) + 1 :
               done'[i].request = Append(Completed, request)[i]
        BY <3>1, <3>2, <3>6, <3>7
      <3>9. Append(Completed, request)
              = [i \in 1 .. Len(done) + 1 |-> Append(Completed, request)[i]]
        BY <3>7, LenProperties
      <3> QED
        BY <3>4, <3>5, <3>8, <3>9
    <2>4. <<request>> \in Seq(Request) /\ Tail(local) \in Seq(Request)
      BY <2>1, InHand
    <2>5. local \o queue = <<request>> \o (Tail(local) \o queue)
      BY <2>2, <2>4, LineTypes, ConcatAssociative DEF request
    <2>6. line' = (Completed \o <<request>>) \o (Tail(local) \o queue)
      BY <2>1, <2>3 DEF line
    <2> DEFINE rest == Tail(local) \o queue
    <2>7. rest \in Seq(Request) /\ Completed \in Seq(Request)
      BY <2>4, LineTypes, ConcatProperties
    <2> HIDE DEF rest
    <2>8. (Completed \o <<request>>) \o rest = Completed \o (<<request>> \o rest)
      BY <2>4, <2>7, ConcatAssociative
    <2> QED
      BY <2>5, <2>6, <2>8 DEF line, rest
  <1> QED
    BY <1>1, <1>2

(* A request that is queued, or that gets through the gate, joins the line *)
(* at its end.                                                             *)
LEMMA LineGrows ==
    ASSUME TypeInv, NEW r \in Request,
           SubmitRequest(r) \/ SubmitRequestAndBlockGated(r)
    PROVE  line' = Append(line, r)
  <1> USE DEF TypeInv, Working
  <1>1. local' \o queue' = Append(local \o queue, r)
    <2>1. CASE SubmitRequest(r)
      BY <2>1, LineTypes DEF SubmitRequest
    <2>2. CASE SubmitRequestAndBlockGated(r)
      <3>1. local = << >> /\ local' = Append(queue, r) /\ queue' = << >>
        BY <2>2 DEF SubmitRequestAndBlockGated
      <3>2. local \o queue = queue /\ Append(queue, r) \in Seq(Request)
        BY <3>1, LineTypes, ConcatEmptySeq, AppendProperties
      <3> QED
        BY <3>1, <3>2, ConcatEmptySeq
    <2> QED
      BY <2>1, <2>2
  <1>2. Completed' = Completed
    BY DEF SubmitRequest, SubmitRequestAndBlockGated, Completed
  <1> QED
    BY <1>1, <1>2, LineTypes DEF line

(* The positions of a request in a sequence to which one was appended. *)
LEMMA AtAppend ==
    ASSUME NEW s \in Seq(Request), NEW e \in Request, NEW r \in Request
    PROVE  /\ Len(s) \in Nat /\ At(s, r) \subseteq 1 .. Len(s)
           /\ At(Append(s, e), r) = IF r = e THEN At(s, r) \cup {Len(s) + 1} ELSE At(s, r)
  <1>1. /\ Len(s) \in Nat /\ Len(Append(s, e)) = Len(s) + 1
        /\ \A i \in 1 .. Len(s) : Append(s, e)[i] = s[i]
        /\ Append(s, e)[Len(s) + 1] = e
    BY AppendProperties, LenProperties
  <1>2. 1 .. Len(s) + 1 = (1 .. Len(s)) \cup {Len(s) + 1}
    BY <1>1
  <1> QED
    BY <1>1, <1>2 DEF At

(* The line has its order at first: it is empty. *)
LEMMA InitOrder == Init => OrderInv
  <1> SUFFICES ASSUME Init PROVE OrderInv
    OBVIOUS
  <1>1. TypeInv
    BY InitTypes
  <1>2. submitted = << >> /\ waiting = {} /\ Len(submitted) = 0
    BY DEF Init
  <1>3. done = << >> /\ local = << >> /\ queue = << >>
    BY DEF Init
  <1>4. local \o queue = << >> /\ Len(Completed) = 0
    BY <1>1, <1>3, LineTypes DEF TypeInv
  <1>5. Len(line) = 0
    BY <1>1, <1>4, LineTypes DEF line, TypeInv
  <1>6. LineIsSubmitted
    BY <1>2, <1>5 DEF LineIsSubmitted, At
  <1>7. LineInOrder
    BY <1>2 DEF LineInOrder
  <1> QED
    BY <1>1, <1>6, <1>7 DEF OrderInv

(* A request that is submitted and queued comes behind all the others. *)
LEMMA SubmitOrder ==
    ASSUME OrderInv, TypeInv', NEW r \in Request, SubmitRequest(r)
    PROVE  OrderInv'
  <1> DEFINE n == Len(submitted)
             m == Len(line)
  <1>1. TypeOK /\ TypeInv
    BY DEF OrderInv, TypeInv
  <1>2. line' = Append(line, r) /\ line \in Seq(Request)
    BY <1>1, LineGrows, LineTypes
  <1>3. submitted' = Append(submitted, r) /\ submitted \in Seq(Request) /\ waiting' = waiting
    BY <1>1 DEF SubmitRequest, TypeOK
  <1>4. At(submitted, r) = {}
    BY DEF SubmitRequest, New, Contains, At
  <1>5. \A q \in Request :
           At(line', q) = IF q = r THEN At(line, q) \cup {m + 1} ELSE At(line, q)
    BY <1>2, AtAppend
  <1>6. \A q \in Request :
           At(submitted', q) = IF q = r THEN At(submitted, q) \cup {n + 1}
                                        ELSE At(submitted, q)
    BY <1>3, AtAppend
  <1>7. m \in Nat /\ n \in Nat /\ \A q \in Request : At(line, q) \subseteq 1 .. m
    BY <1>2, <1>3, AtAppend
  <1>8. /\ Len(submitted') = n + 1 /\ submitted'[n + 1] = r
        /\ \A i \in 1 .. n : submitted'[i] = submitted[i] /\ submitted[i] \in Request
    BY <1>3, AppendProperties, ElementOfSeq
  <1>9. waiting \subseteq Request
    BY <1>1, RequestAssumption DEF TypeOK, RequestAssumption
  <1> HIDE DEF n, m
  <1>10. LineIsSubmitted'
    <2>1. \A q \in Request : At(line', q) # {} => At(submitted', q) # {}
      BY <1>5, <1>6 DEF OrderInv, LineIsSubmitted
    <2>2. \A q \in waiting' : At(submitted', q) # {}
      BY <1>3, <1>6, <1>9 DEF OrderInv, LineIsSubmitted
    <2>3. ASSUME NEW i \in 1 .. n + 1, submitted'[i] \notin Blocking
          PROVE  At(line', submitted'[i]) # {}
      <3>1. CASE i = n + 1
        BY <3>1, <1>5, <1>8
      <3>2. CASE i # n + 1
        <4>1. i \in 1 .. n
          BY <3>2, <1>7
        <4>2. At(line, submitted[i]) # {}
          BY <4>1, <2>3, <1>8 DEF OrderInv, LineIsSubmitted, n
        <4> QED
          BY <4>1, <4>2, <1>5, <1>8
      <3> QED
        BY <3>1, <3>2
    <2> QED
      BY <2>1, <2>2, <2>3, <1>8 DEF LineIsSubmitted
  <1>11. LineInOrder'
    <2> SUFFICES ASSUME NEW i \in 1 .. n + 1, NEW j \in 1 .. n + 1, i < j,
                        submitted'[i] \notin Blocking
                 PROVE  \E k \in At(line', submitted'[i]) :
                           \A l \in At(line', submitted'[j]) : k < l
      BY <1>8 DEF LineInOrder
    <2>1. i \in 1 .. n /\ submitted'[i] = submitted[i] /\ submitted[i] \in Request
      BY <1>7, <1>8
    <2>2. submitted[i] # r
      BY <1>4, <2>1 DEF At, n
    <2>3. At(line', submitted'[i]) = At(line, submitted[i])
      BY <2>1, <2>2, <1>5
    <2>4. CASE j = n + 1
      <3>1. At(line, r) = {}
        BY <1>4 DEF OrderInv, LineIsSubmitted
      <3>2. PICK k \in At(line, submitted[i]) : TRUE
        BY <2>1 DEF OrderInv, LineIsSubmitted, n
      <3>3. At(line', submitted'[j]) = {m + 1} /\ k \in 1 .. m
        BY <2>1, <2>4, <3>1, <3>2, <1>5, <1>7, <1>8
      <3> QED
        BY <2>3, <3>3, <1>7
    <2>5. CASE j # n + 1
      <3>1. j \in 1 .. n /\ submitted'[j] = submitted[j] /\ submitted[j] \in Request
        BY <2>5, <1>7, <1>8
      <3>2. submitted[j] # r
        BY <1>4, <3>1 DEF At, n
      <3>3. At(line', submitted'[j]) = At(line, submitted[j])
        BY <3>1, <3>2, <1>5
      <3> QED
        BY <2>1, <2>3, <3>1, <3>3 DEF OrderInv, LineInOrder, n
    <2> QED
      BY <2>4, <2>5
  <1> QED
    BY <1>10, <1>11 DEF OrderInv

(* A caller that waits for the gate is not in the line yet. *)
LEMMA BlockOrder ==
    ASSUME OrderInv, TypeInv', NEW r \in Request, SubmitRequestAndBlock(r)
    PROVE  OrderInv'
  <1> DEFINE n == Len(submitted)
  <1>1. TypeOK
    BY DEF OrderInv, TypeInv
  <1>2. line' = line
    BY DEF SubmitRequestAndBlock, line, Completed
  <1>3. /\ submitted' = Append(submitted, r) /\ submitted \in Seq(Request)
        /\ waiting' = waiting \cup {r} /\ waiting' \subseteq Request /\ r \in Blocking
    BY <1>1, RequestAssumption DEF SubmitRequestAndBlock, TypeOK, RequestAssumption
  <1>4. At(submitted, r) = {}
    BY DEF SubmitRequestAndBlock, New, Contains, At
  <1>5. \A q \in Request :
           At(submitted', q) = IF q = r THEN At(submitted, q) \cup {n + 1}
                                        ELSE At(submitted, q)
    BY <1>3, AtAppend
  <1>6. /\ n \in Nat /\ Len(submitted') = n + 1 /\ submitted'[n + 1] = r
        /\ \A i \in 1 .. n : submitted'[i] = submitted[i] /\ submitted[i] \in Request
    BY <1>3, AppendProperties, ElementOfSeq, LenProperties
  <1>7. At(line, r) = {}
    BY <1>4 DEF OrderInv, LineIsSubmitted
  <1> HIDE DEF n
  <1>8. LineIsSubmitted'
    <2>1. \A q \in Request : At(line', q) # {} => At(submitted', q) # {}
      BY <1>2, <1>5 DEF OrderInv, LineIsSubmitted
    <2>2. \A q \in waiting' : At(submitted', q) # {}
      BY <1>3, <1>5 DEF OrderInv, LineIsSubmitted
    <2>3. ASSUME NEW i \in 1 .. n + 1, submitted'[i] \notin Blocking
          PROVE  At(line', submitted'[i]) # {}
      <3>1. i \in 1 .. n /\ submitted'[i] = submitted[i]
        BY <1>3, <1>6, <2>3
      <3> QED
        BY <3>1, <2>3, <1>2 DEF OrderInv, LineIsSubmitted, n
    <2> QED
      BY <2>1, <2>2, <2>3, <1>6 DEF LineIsSubmitted
  <1>9. LineInOrder'
    <2> SUFFICES ASSUME NEW i \in 1 .. n + 1, NEW j \in 1 .. n + 1, i < j,
                        submitted'[i] \notin Blocking
                 PROVE  \E k \in At(line', submitted'[i]) :
                           \A l \in At(line', submitted'[j]) : k < l
      BY <1>6 DEF LineInOrder
    <2>1. i \in 1 .. n /\ submitted'[i] = submitted[i]
      BY <1>6
    <2>2. CASE j = n + 1
      <3>1. PICK k \in At(line, submitted[i]) : TRUE
        BY <2>1 DEF OrderInv, LineIsSubmitted, n
      <3> QED
        BY <2>1, <2>2, <3>1, <1>2, <1>6, <1>7
    <2>3. CASE j # n + 1
      <3>1. j \in 1 .. n /\ submitted'[j] = submitted[j]
        BY <2>3, <1>6
      <3> QED
        BY <2>1, <3>1, <1>2 DEF OrderInv, LineInOrder, n
    <2> QED
      BY <2>2, <2>3
  <1> QED
    BY <1>8, <1>9 DEF OrderInv

(* A caller that gets through the gate comes behind the queue. *)
LEMMA GatedOrder ==
    ASSUME OrderInv, TypeInv', NEW r \in Request, SubmitRequestAndBlockGated(r)
    PROVE  OrderInv'
  <1> DEFINE n == Len(submitted)
             m == Len(line)
  <1>1. TypeOK /\ TypeInv
    BY DEF OrderInv, TypeInv
  <1>2. line' = Append(line, r) /\ line \in Seq(Request)
    BY <1>1, LineGrows, LineTypes
  <1>3. /\ submitted' = submitted /\ submitted \in Seq(Request)
        /\ r \in waiting /\ waiting' \subseteq waiting
    BY <1>1 DEF SubmitRequestAndBlockGated, TypeOK
  <1>4. At(submitted, r) # {}
    BY <1>3 DEF OrderInv, LineIsSubmitted
  <1>5. \A q \in Request :
           At(line', q) = IF q = r THEN At(line, q) \cup {m + 1} ELSE At(line, q)
    BY <1>2, AtAppend
  <1>6. m \in Nat /\ \A q \in Request : At(line, q) \subseteq 1 .. m
    BY <1>2, AtAppend
  <1>7. \A i \in 1 .. n : submitted[i] \in Request
    BY <1>3, ElementOfSeq
  <1> HIDE DEF m
  <1>8. LineIsSubmitted'
    BY <1>3, <1>4, <1>5, <1>7 DEF OrderInv, LineIsSubmitted
  <1>9. LineInOrder'
    <2> SUFFICES ASSUME NEW i \in 1 .. n, NEW j \in 1 .. n, i < j,
                        submitted[i] \notin Blocking
                 PROVE  \E k \in At(line', submitted[i]) :
                           \A l \in At(line', submitted[j]) : k < l
      BY <1>3 DEF LineInOrder
    <2>1. PICK k \in At(line, submitted[i]) : \A l \in At(line, submitted[j]) : k < l
      BY DEF OrderInv, LineInOrder
    <2>2. k \in At(line', submitted[i]) /\ k \in 1 .. m
      BY <2>1, <1>5, <1>6, <1>7
    <2>3. \A l \in At(line', submitted[j]) : l \in At(line, submitted[j]) \/ l = m + 1
      BY <1>5, <1>7
    <2> QED
      BY <2>1, <2>2, <2>3, <1>6
  <1> QED
    BY <1>8, <1>9 DEF OrderInv

(* Every other step leaves the line as it is. *)
LEMMA OtherOrder ==
    ASSUME OrderInv, TypeInv', line' = line, UNCHANGED <<submitted, waiting>>
    PROVE  OrderInv'
  BY DEF OrderInv, LineIsSubmitted, LineInOrder

(* Every step keeps the order. *)
LEMMA StepOrder == OrderInv /\ [Next]_vars => OrderInv'
  <1> SUFFICES ASSUME OrderInv, [Next]_vars PROVE OrderInv'
    OBVIOUS
  <1>1. TypeInv /\ TypeInv'
    BY StepTypes DEF OrderInv
  <1>2. CASE \/ UNCHANGED vars
             \/ \E p \in Port : DeviceSends(p) \/ Fill(p)
             \/ InterruptHandler
             \/ ProcessRequest /\ ~End
    <2>1. UNCHANGED requests
      BY <1>2 DEF vars, DeviceSends, Fill, InterruptHandler, TakeInterrupt, InterruptStatus,
                  InterruptData, InterruptDispatch, ProcessRequest, Begin, WriteCommand,
                  ReadCommand, FlushCommand, SleepCommand, PollStatus, PollTimeout, PollData
    <2>2. line' = line /\ UNCHANGED <<submitted, waiting>>
      BY <2>1 DEF requests, line, Completed
    <2> QED
      BY <1>1, <2>2, OtherOrder
  <1>3. CASE ProcessRequestQueue \/ End
    <2>1. UNCHANGED <<submitted, waiting>>
      BY <1>3 DEF ProcessRequestQueue, End
    <2> QED
      BY <1>1, <1>3, <2>1, LineKept, OtherOrder
  <1>4. CASE \E r \in Request : \/ SubmitRequest(r) \/ SubmitRequestAndBlock(r)
                                \/ SubmitRequestAndBlockGated(r)
    BY <1>1, <1>4, SubmitOrder, BlockOrder, GatedOrder
  <1> QED
    BY <1>2, <1>3, <1>4 DEF Next, WorkLoop

(* What was completed in order was in the line in order. *)
LEMMA OrderCompleted == OrderInv => QueuedFirst
  <1> SUFFICES ASSUME OrderInv,
                      NEW i \in DOMAIN submitted, NEW j \in DOMAIN submitted, i < j,
                      submitted[i] \notin Blocking, Position(submitted[j]) # {}
               PROVE  \E k \in Position(submitted[i]) :
                         \A l \in Position(submitted[j]) : k < l
    BY DEF QueuedFirst
  <1>1. TypeOK
    BY DEF OrderInv, TypeInv
  <1>2. i \in 1 .. Len(submitted) /\ j \in 1 .. Len(submitted)
    BY <1>1, LenProperties DEF TypeOK
  <1>3. DOMAIN done = 1 .. Len(done) /\ Len(done) \in Nat
    BY <1>1, LenProperties DEF TypeOK
  <1>4. /\ Len(line) \in Nat /\ Len(done) <= Len(line)
        /\ \A k \in 1 .. Len(done) : line[k] = done[k].request
    <2>1. /\ Completed \in Seq(Request) /\ local \o queue \in Seq(Request)
          /\ Len(Completed) = Len(done)
      BY <1>1, LineTypes
    <2>2. \A k \in 1 .. Len(done) : Completed[k] = done[k].request
      BY DEF Completed
    <2> QED
      BY <2>1, <2>2, <1>3, ConcatProperties, LenProperties DEF line
  <1>5. \A r : Position(r) = {k \in At(line, r) : k <= Len(done)}
    BY <1>3, <1>4 DEF Position, At
  <1>6. PICK k \in At(line, submitted[i]) : \A l \in At(line, submitted[j]) : k < l
    BY <1>2 DEF OrderInv, LineInOrder
  <1>7. PICK l \in Position(submitted[j]) : TRUE
    OBVIOUS
  <1>8. k < l /\ l <= Len(done) /\ k \in Nat /\ l \in Nat
    BY <1>3, <1>4, <1>5, <1>6, <1>7 DEF At
  <1>9. k \in Position(submitted[i])
    BY <1>3, <1>5, <1>6, <1>8
  <1> QED
    BY <1>5, <1>6, <1>9

(* A request is completed before any that was submitted after it, where    *)
(* the earlier one was queued: submitRequestAndBlock does not overtake the *)
(* queue, whatever the interrupt handler, the devices and the other        *)
(* drivers do in between.                                                  *)
THEOREM RequestsQueuedFirst == Spec => []QueuedFirst
  BY InitOrder, StepOrder, OrderCompleted, PTL DEF Spec

(***************************************************************************)
(* Nothing is forgotten or done twice: the safety that RequestsComplete    *)
(* needs from the handling of the queue.                                   *)
(***************************************************************************)

(* A request that was submitted waits for the gate or has one place in the *)
(* line: it is completed, or in localQueue, or in the queue.               *)
AccountedFor ==
    \A r \in Request :
        /\ \A k, l \in At(line, r) : k = l
        /\ r \in waiting => At(line, r) = {}
        /\ At(submitted, r) # {} => r \in waiting \/ At(line, r) # {}

(* A request is completed at most once; one that is not completed waits    *)
(* for the gate or is in one of the queues, of which localQueue is not     *)
(* left before it is empty (submitRequest, submitRequestAndBlock,          *)
(* processRequestQueue).                                                   *)
NoRequestForgotten ==
    /\ \A i, j \in DOMAIN done : done[i].request = done[j].request => i = j
    /\ \A i \in DOMAIN submitted :
          \/ Position(submitted[i]) # {}
          \/ submitted[i] \in waiting
          \/ \E k \in DOMAIN local : local[k] = submitted[i]
          \/ \E k \in DOMAIN queue : queue[k] = submitted[i]
    /\ pc = "free" <=> local = << >>

(* Nothing is submitted at first. *)
LEMMA InitAccounted == Init => AccountedFor
  <1> SUFFICES ASSUME Init PROVE AccountedFor
    OBVIOUS
  <1>1. OrderInv
    BY InitOrder
  <1>2. \A r \in Request : At(submitted, r) = {}
    BY DEF Init, At
  <1>3. \A r \in Request : At(line, r) = {}
    BY <1>1, <1>2 DEF OrderInv, LineIsSubmitted
  <1> QED
    BY <1>2, <1>3 DEF Init, AccountedFor

(* Each request joins the line once, when it is queued or when it gets     *)
(* through the gate, and leaves it never.                                  *)
LEMMA StepAccounted == OrderInv /\ AccountedFor /\ [Next]_vars => AccountedFor'
  <1> SUFFICES ASSUME OrderInv, AccountedFor, [Next]_vars PROVE AccountedFor'
    OBVIOUS
  <1>1. TypeOK /\ TypeInv /\ TypeInv'
    BY StepTypes DEF OrderInv, TypeInv
  <1>2. /\ line \in Seq(Request) /\ submitted \in Seq(Request)
        /\ \A q \in Request : At(line, q) # {} \/ q \in waiting => At(submitted, q) # {}
    BY <1>1, LineTypes DEF TypeOK, OrderInv, LineIsSubmitted
  <1>3. CASE line' = line /\ UNCHANGED <<submitted, waiting>>
    BY <1>3 DEF AccountedFor
  <1>4. ASSUME NEW r \in Request, SubmitRequest(r) PROVE AccountedFor'
    <2>1. /\ line' = Append(line, r) /\ submitted' = Append(submitted, r)
          /\ waiting' = waiting
      BY <1>1, <1>4, LineGrows DEF SubmitRequest
    <2>2. At(submitted, r) = {}
      BY <1>4 DEF SubmitRequest, New, Contains, At
    <2>3. At(line, r) = {} /\ r \notin waiting
      BY <1>2, <2>2
    <2>4. \A q \in Request :
             /\ At(line', q) = IF q = r THEN {Len(line) + 1} ELSE At(line, q)
             /\ q # r => At(submitted', q) = At(submitted, q)
      BY <1>2, <2>1, <2>3, AtAppend
    <2> QED
      BY <2>1, <2>3, <2>4 DEF AccountedFor
  <1>5. ASSUME NEW r \in Request, SubmitRequestAndBlock(r) PROVE AccountedFor'
    <2>1. /\ line' = line /\ submitted' = Append(submitted, r)
          /\ waiting' = waiting \cup {r}
      BY <1>5 DEF SubmitRequestAndBlock, line, Completed
    <2>2. At(submitted, r) = {}
      BY <1>5 DEF SubmitRequestAndBlock, New, Contains, At
    <2>3. At(line, r) = {}
      BY <1>2, <2>2
    <2>4. \A q \in Request : q # r => At(submitted', q) = At(submitted, q)
      BY <1>2, <2>1, AtAppend
    <2> QED
      BY <2>1, <2>3, <2>4 DEF AccountedFor
  <1>6. ASSUME NEW r \in Request, SubmitRequestAndBlockGated(r) PROVE AccountedFor'
    <2>1. /\ line' = Append(line, r) /\ submitted' = submitted
          /\ waiting' = waiting \ {r} /\ r \in waiting
      BY <1>1, <1>6, LineGrows DEF SubmitRequestAndBlockGated
    <2>2. At(line, r) = {}
      BY <2>1 DEF AccountedFor
    <2>3. \A q \in Request : At(line', q) = IF q = r THEN {Len(line) + 1} ELSE At(line, q)
      BY <1>2, <2>1, <2>2, AtAppend
    <2> QED
      BY <2>1, <2>3 DEF AccountedFor
  <1>7. CASE \/ UNCHANGED vars
             \/ \E p \in Port : DeviceSends(p) \/ Fill(p)
             \/ InterruptHandler
             \/ ProcessRequest /\ ~End
    <2>1. UNCHANGED requests
      BY <1>7 DEF vars, DeviceSends, Fill, InterruptHandler, TakeInterrupt, InterruptStatus,
                  InterruptData, InterruptDispatch, ProcessRequest, Begin, WriteCommand,
                  ReadCommand, FlushCommand, SleepCommand, PollStatus, PollTimeout, PollData
    <2> QED
      BY <1>3, <2>1 DEF requests, line, Completed
  <1>8. CASE ProcessRequestQueue \/ End
    <2>1. UNCHANGED <<submitted, waiting>>
      BY <1>8 DEF ProcessRequestQueue, End
    <2> QED
      BY <1>1, <1>3, <1>8, <2>1, LineKept
  <1> QED
    BY <1>4, <1>5, <1>6, <1>7, <1>8 DEF Next, WorkLoop

(* A place in the line is a completion, or a place in one of the queues. *)
LEMMA AccountedMeans == OrderInv /\ AccountedFor => NoRequestForgotten
  <1> SUFFICES ASSUME OrderInv, AccountedFor PROVE NoRequestForgotten
    OBVIOUS
  <1>1. TypeOK /\ TypeInv
    BY DEF OrderInv, TypeInv
  <1>2. /\ DOMAIN done = 1 .. Len(done) /\ Len(done) \in Nat
        /\ DOMAIN local = 1 .. Len(local) /\ Len(local) \in Nat
        /\ DOMAIN queue = 1 .. Len(queue) /\ Len(queue) \in Nat
        /\ DOMAIN submitted = 1 .. Len(submitted) /\ Len(submitted) \in Nat
    BY <1>1, LenProperties DEF TypeOK
  <1> DEFINE rest == local \o queue
  <1>3. /\ Len(rest) = Len(local) + Len(queue)
        /\ \A k \in 1 .. Len(rest) : rest[k] = IF k <= Len(local) THEN local[k]
                                               ELSE queue[k - Len(local)]
    BY <1>1, LineTypes, ConcatProperties
  <1>4. rest \in Seq(Request) /\ Completed \in Seq(Request) /\ Len(Completed) = Len(done)
    BY <1>1, LineTypes
  <1>5. line = Completed \o rest
    BY DEF line
  <1> HIDE DEF rest
  <1>6. /\ Len(line) = Len(done) + Len(rest)
        /\ \A k \in 1 .. Len(line) : line[k] = IF k <= Len(done) THEN Completed[k]
                                               ELSE rest[k - Len(done)]
    <2>1. /\ Len(Completed \o rest) = Len(Completed) + Len(rest)
          /\ \A k \in 1 .. Len(Completed) + Len(rest) :
                (Completed \o rest)[k] = IF k <= Len(Completed) THEN Completed[k]
                                         ELSE rest[k - Len(Completed)]
      BY <1>4, ConcatProperties
    <2> QED
      BY <1>4, <1>5, <2>1
  <1>7. \A k \in 1 .. Len(done) : Completed[k] = done[k].request /\ Completed[k] \in Request
    BY <1>4, ElementOfSeq DEF Completed
  <1>8. ASSUME NEW i \in DOMAIN done, NEW j \in DOMAIN done, done[i].request = done[j].request
        PROVE  i = j
    <2>1. i \in At(line, done[i].request) /\ j \in At(line, done[i].request)
      BY <1>2, <1>3, <1>6, <1>7, <1>8 DEF At
    <2> QED
      BY <1>2, <1>7, <2>1 DEF AccountedFor
  <1>9. ASSUME NEW i \in DOMAIN submitted, submitted[i] \notin waiting,
               Position(submitted[i]) = {}
        PROVE  \/ \E k \in DOMAIN local : local[k] = submitted[i]
               \/ \E k \in DOMAIN queue : queue[k] = submitted[i]
    <2>1. submitted[i] \in Request /\ i \in At(submitted, submitted[i])
      BY <1>1, <1>2, ElementOfSeq DEF TypeOK, At
    <2>2. PICK k \in At(line, submitted[i]) : TRUE
      BY <1>9, <2>1 DEF AccountedFor
    <2>3. k \in 1 .. Len(line) /\ line[k] = submitted[i]
      BY <2>2 DEF At
    <2>4. ~ (k <= Len(done))
      BY <1>2, <1>6, <1>7, <1>9, <2>3 DEF Position
    <2>5. k - Len(done) \in 1 .. Len(rest) /\ rest[k - Len(done)] = submitted[i]
      BY <1>2, <1>3, <1>6, <2>3, <2>4
    <2>6. PICK m \in 1 .. Len(rest) : rest[m] = submitted[i]
      BY <2>5
    <2>7. CASE m <= Len(local)
      BY <1>2, <1>3, <2>6, <2>7
    <2>8. CASE ~ (m <= Len(local))
      <3>1. m - Len(local) \in 1 .. Len(queue) /\ queue[m - Len(local)] = submitted[i]
        BY <1>2, <1>3, <2>6, <2>8
      <3> QED
        BY <1>2, <3>1
    <2> QED
      BY <2>7, <2>8
  <1>10. pc = "free" <=> local = << >>
    BY <1>1 DEF TypeInv, Working
  <1> QED
    BY <1>8, <1>9, <1>10 DEF NoRequestForgotten

(* However submissions, callers that block and the work loop interleave,   *)
(* no request is lost between the queues and none is processed twice.      *)
THEOREM RequestsNoneForgotten == Spec => []NoRequestForgotten
  BY InitOrder, StepOrder, InitAccounted, StepAccounted, AccountedMeans, PTL DEF Spec

-----------------------------------------------------------------------------
(***************************************************************************)
(* Bytes in sequence                                                       *)
(***************************************************************************)

(* InSequence, byte by byte *)
LEMMA InSequenceMeans ==
    ASSUME NEW p, NEW n \in Nat, NEW r \in Seq(Byte), NEW u \in Seq(Byte)
    PROVE  InSequence(r, u, p, n) <=>
             /\ Len(r) <= n
             /\ \A i \in 1 .. Len(r) : r[i] = Datum(p, i)
             /\ \A i \in 1 .. Len(u) : IsData(u[i]) =>
                   \E m \in Len(r) + 1 .. n : u[i] = Datum(p, m)
             /\ \A m \in Len(r) + 1 .. n : \E i \in 1 .. Len(u) : u[i] = Datum(p, m)
             /\ \A i, j \in 1 .. Len(u) : IsData(u[i]) /\ IsData(u[j]) /\ i < j => u[i].n < u[j].n
  <1> DEFINE k == Len(r)
             data == {i \in 1 .. Len(u) : IsData(u[i])}
             A == k <= n /\ r = [i \in 1 .. k |-> Datum(p, i)]
             B == {u[i] : i \in data} = {Datum(p, m) : m \in k + 1 .. n}
             C == \A i, j \in data : i < j => u[i].n < u[j].n
  <1>1. InSequence(r, u, p, n) <=> A /\ B /\ C
    BY DEF InSequence
  <1>2. A <=> k <= n /\ \A i \in 1 .. k : r[i] = Datum(p, i)
    <2>1. r = [i \in 1 .. k |-> r[i]]
      OBVIOUS
    <2> QED BY <2>1
  <1>3. B <=> /\ \A i \in 1 .. Len(u) : IsData(u[i]) => \E m \in k + 1 .. n : u[i] = Datum(p, m)
              /\ \A m \in k + 1 .. n : \E i \in 1 .. Len(u) : u[i] = Datum(p, m)
    <2>1. \A m : IsData(Datum(p, m))
      BY DEF IsData, Datum
    <2>2. ASSUME B, NEW i \in 1 .. Len(u), IsData(u[i])
          PROVE  \E m \in k + 1 .. n : u[i] = Datum(p, m)
      <3>1. u[i] \in {u[j] : j \in data}
        BY <2>2
      <3> QED BY <2>2, <3>1
    <2>3. ASSUME B, NEW m \in k + 1 .. n
          PROVE  \E i \in 1 .. Len(u) : u[i] = Datum(p, m)
      <3>1. Datum(p, m) \in {u[i] : i \in data}
        BY <2>3
      <3> QED BY <3>1
    <2>4. ASSUME \A i \in 1 .. Len(u) : IsData(u[i]) => \E m \in k + 1 .. n : u[i] = Datum(p, m),
                 \A m \in k + 1 .. n : \E i \in 1 .. Len(u) : u[i] = Datum(p, m)
          PROVE  B
      <3>1. ASSUME NEW b \in {u[i] : i \in data} PROVE b \in {Datum(p, m) : m \in k + 1 .. n}
        BY <2>4
      <3>2. ASSUME NEW m \in k + 1 .. n PROVE Datum(p, m) \in {u[i] : i \in data}
        <4>1. PICK i \in 1 .. Len(u) : u[i] = Datum(p, m)
          BY <2>4
        <4>2. i \in data
          BY <2>1, <4>1
        <4> QED BY <4>1, <4>2
      <3> QED BY <3>1, <3>2
    <2> HIDE DEF B
    <2> QED BY <2>2, <2>3, <2>4
  <1>4. C <=> \A i, j \in 1 .. Len(u) : IsData(u[i]) /\ IsData(u[j]) /\ i < j => u[i].n < u[j].n
    OBVIOUS
  <1> HIDE DEF A, B, C
  <1> QED BY <1>1, <1>2, <1>3, <1>4

(* The device sends another byte. *)
LEMMA SequenceGrows ==
    ASSUME NEW p \in Port, NEW n \in Nat, NEW r \in Seq(Byte), NEW u \in Seq(Byte),
           InSequence(r, u, p, n), Datum(p, n + 1) \in Byte
    PROVE  InSequence(r, Append(u, Datum(p, n + 1)), p, n + 1)
  <1> DEFINE b == Datum(p, n + 1)
             v == Append(u, b)
             k == Len(r)
             z == Len(u)
  <1>0. k \in Nat /\ z \in Nat /\ b.n = n + 1 /\ \A m : Datum(p, m).n = m
    BY DEF Datum
  <1>1. /\ v \in Seq(Byte) /\ Len(v) = z + 1 /\ v[z + 1] = b
        /\ \A i \in 1 .. z : v[i] = u[i]
    OBVIOUS
  <1>2. /\ k <= n /\ \A i \in 1 .. k : r[i] = Datum(p, i)
        /\ \A i \in 1 .. z : IsData(u[i]) => \E m \in k + 1 .. n : u[i] = Datum(p, m)
        /\ \A m \in k + 1 .. n : \E i \in 1 .. z : u[i] = Datum(p, m)
        /\ \A i, j \in 1 .. z : IsData(u[i]) /\ IsData(u[j]) /\ i < j => u[i].n < u[j].n
    BY InSequenceMeans
  <1> HIDE DEF b, v, k, z
  <1>3. ASSUME NEW i \in 1 .. z + 1, IsData(v[i]) PROVE \E m \in k + 1 .. n + 1 : v[i] = Datum(p, m)
    <2>1. CASE i = z + 1
      <3>1. n + 1 \in k + 1 .. n + 1
        BY <1>0, <1>2
      <3> QED BY <1>1, <2>1, <3>1 DEF b
    <2>2. CASE i \in 1 .. z
      <3>1. PICK m \in k + 1 .. n : u[i] = Datum(p, m)
        BY <1>1, <1>2, <1>3, <2>2
      <3>2. m \in k + 1 .. n + 1
        BY <1>0
      <3> QED BY <1>1, <2>2, <3>1, <3>2
    <2> QED BY <1>0, <2>1, <2>2
  <1>4. ASSUME NEW m \in k + 1 .. n + 1 PROVE \E i \in 1 .. z + 1 : v[i] = Datum(p, m)
    <2>1. CASE m = n + 1
      BY <1>0, <1>1, <2>1 DEF b
    <2>2. CASE m \in k + 1 .. n
      <3>1. PICK i \in 1 .. z : u[i] = Datum(p, m)
        BY <1>2, <2>2
      <3>2. i \in 1 .. z + 1
        BY <1>0
      <3> QED BY <1>1, <3>1, <3>2
    <2> QED BY <1>0, <2>1, <2>2
  <1>5. ASSUME NEW i \in 1 .. z + 1, NEW j \in 1 .. z + 1, IsData(v[i]), IsData(v[j]), i < j
        PROVE  v[i].n < v[j].n
    <2>1. i \in 1 .. z
      BY <1>0, <1>5
    <2>2. CASE j \in 1 .. z
      BY <1>1, <1>2, <1>5, <2>1, <2>2
    <2>3. CASE j = z + 1
      <3>1. PICK m \in k + 1 .. n : u[i] = Datum(p, m)
        BY <1>1, <1>2, <1>5, <2>1
      <3>2. v[i].n = m /\ v[j].n = n + 1
        BY <1>0, <1>1, <2>1, <2>3, <3>1
      <3> QED BY <1>0, <3>2
    <2> QED BY <1>0, <2>2, <2>3
  <1>6. n + 1 \in Nat
    OBVIOUS
  <1>7. InSequence(r, v, p, n + 1)
    <2> HIDE DEF IsData
    <2>1. Len(r) <= n + 1 /\ \A i \in 1 .. Len(r) : r[i] = Datum(p, i)
      BY <1>0, <1>2 DEF k
    <2>2. \A i \in 1 .. Len(v) : IsData(v[i]) => \E m \in Len(r) + 1 .. n + 1 : v[i] = Datum(p, m)
      BY <1>1, <1>3 DEF k
    <2>3. \A m \in Len(r) + 1 .. n + 1 : \E i \in 1 .. Len(v) : v[i] = Datum(p, m)
      BY <1>1, <1>4 DEF k
    <2>4. \A i, j \in 1 .. Len(v) : IsData(v[i]) /\ IsData(v[j]) /\ i < j => v[i].n < v[j].n
      BY <1>1, <1>5
    <2> QED BY <1>1, <1>6, <2>1, <2>2, <2>3, <2>4, InSequenceMeans
  <1> QED BY <1>7 DEF v, b

(* Answers at the end change nothing. *)
LEMMA SequenceAnswered ==
    ASSUME NEW p, NEW n \in Nat, NEW r \in Seq(Byte), NEW u \in Seq(Byte), NEW b \in Byte,
           InSequence(r, u, p, n), ~ IsData(b)
    PROVE  InSequence(r, Append(u, b), p, n)
  <1> DEFINE v == Append(u, b)
             k == Len(r)
             z == Len(u)
  <1>0. k \in Nat /\ z \in Nat
    OBVIOUS
  <1>1. /\ v \in Seq(Byte) /\ Len(v) = z + 1 /\ v[z + 1] = b
        /\ \A i \in 1 .. z : v[i] = u[i]
    OBVIOUS
  <1>2. /\ k <= n /\ \A i \in 1 .. k : r[i] = Datum(p, i)
        /\ \A i \in 1 .. z : IsData(u[i]) => \E m \in k + 1 .. n : u[i] = Datum(p, m)
        /\ \A m \in k + 1 .. n : \E i \in 1 .. z : u[i] = Datum(p, m)
        /\ \A i, j \in 1 .. z : IsData(u[i]) /\ IsData(u[j]) /\ i < j => u[i].n < u[j].n
    BY InSequenceMeans
  <1> HIDE DEF v, k, z
  <1>3. \A i \in 1 .. z + 1 : IsData(v[i]) => i \in 1 .. z
    BY <1>0, <1>1
  <1>4. \A i \in 1 .. z : i \in 1 .. z + 1
    BY <1>0
  <1>5. \A i \in 1 .. z + 1 : IsData(v[i]) => \E m \in k + 1 .. n : v[i] = Datum(p, m)
    BY <1>1, <1>2, <1>3
  <1>6. ASSUME NEW m \in k + 1 .. n PROVE \E i \in 1 .. z + 1 : v[i] = Datum(p, m)
    <2>1. PICK i \in 1 .. z : u[i] = Datum(p, m)
      BY <1>2
    <2> QED BY <1>1, <1>4, <2>1
  <1>7. \A i, j \in 1 .. z + 1 : IsData(v[i]) /\ IsData(v[j]) /\ i < j => v[i].n < v[j].n
    BY <1>1, <1>2, <1>3
  <1>8. InSequence(r, v, p, n)
    BY <1>1, <1>2, <1>5, <1>6, <1>7, InSequenceMeans DEF k
  <1> QED BY <1>8 DEF v

(* The first byte of the unread ones is an answer and is taken away. *)
LEMMA SequenceDrops ==
    ASSUME NEW p, NEW n \in Nat, NEW r \in Seq(Byte), NEW u \in Seq(Byte), NEW b \in Byte,
           InSequence(r, <<b>> \o u, p, n), ~ IsData(b)
    PROVE  InSequence(r, u, p, n)
  <1> DEFINE v == <<b>> \o u
             k == Len(r)
             z == Len(u)
  <1>0. k \in Nat /\ z \in Nat
    OBVIOUS
  <1>1. /\ v \in Seq(Byte) /\ Len(v) = z + 1 /\ v[1] = b
        /\ \A i \in 1 .. z : v[i + 1] = u[i]
    OBVIOUS
  <1>2. /\ k <= n /\ \A i \in 1 .. k : r[i] = Datum(p, i)
        /\ \A i \in 1 .. z + 1 : IsData(v[i]) => \E m \in k + 1 .. n : v[i] = Datum(p, m)
        /\ \A m \in k + 1 .. n : \E i \in 1 .. z + 1 : v[i] = Datum(p, m)
        /\ \A i, j \in 1 .. z + 1 : IsData(v[i]) /\ IsData(v[j]) /\ i < j => v[i].n < v[j].n
    <2>1. InSequence(r, v, p, n)
      OBVIOUS
    <2> HIDE DEF v, IsData
    <2>2. /\ Len(r) <= n /\ \A i \in 1 .. Len(r) : r[i] = Datum(p, i)
          /\ \A i \in 1 .. Len(v) : IsData(v[i]) => \E m \in Len(r) + 1 .. n : v[i] = Datum(p, m)
          /\ \A m \in Len(r) + 1 .. n : \E i \in 1 .. Len(v) : v[i] = Datum(p, m)
          /\ \A i, j \in 1 .. Len(v) : IsData(v[i]) /\ IsData(v[j]) /\ i < j => v[i].n < v[j].n
      BY <1>1, <2>1, InSequenceMeans
    <2>3. Len(v) = z + 1
      BY <1>1
    <2> HIDE DEF z
    <2> QED BY <2>2, <2>3
  <1> HIDE DEF v, k, z
  <1>3. \A i \in 1 .. z : i + 1 \in 1 .. z + 1
    BY <1>0
  <1>4. \A i \in 1 .. z : IsData(u[i]) => \E m \in k + 1 .. n : u[i] = Datum(p, m)
    BY <1>1, <1>2, <1>3
  <1>5. ASSUME NEW m \in k + 1 .. n PROVE \E i \in 1 .. z : u[i] = Datum(p, m)
    <2>1. PICK i \in 1 .. z + 1 : v[i] = Datum(p, m)
      BY <1>2
    <2>2. i # 1
      BY <1>1, <2>1 DEF IsData, Datum
    <2>3. i - 1 \in 1 .. z /\ (i - 1) + 1 = i
      BY <1>0, <2>2
    <2>4. u[i - 1] = v[i]
      BY <1>1, <2>3
    <2> QED BY <2>1, <2>3, <2>4
  <1>6. ASSUME NEW i \in 1 .. z, NEW j \in 1 .. z, IsData(u[i]), IsData(u[j]), i < j
        PROVE  u[i].n < u[j].n
    <2>1. i + 1 \in 1 .. z + 1 /\ j + 1 \in 1 .. z + 1 /\ i + 1 < j + 1
      BY <1>0, <1>6
    <2> QED BY <1>1, <1>2, <1>6, <2>1
  <1> QED BY <1>2, <1>4, <1>5, <1>6, InSequenceMeans DEF k, z

(* The first byte of the unread ones is data, and the driver gets it. *)
LEMMA SequenceReceived ==
    ASSUME NEW p, NEW n \in Nat, NEW r \in Seq(Byte), NEW u \in Seq(Byte), NEW b \in Byte,
           InSequence(r, <<b>> \o u, p, n), IsData(b)
    PROVE  InSequence(Append(r, b), u, p, n)
  <1> DEFINE v == <<b>> \o u
             k == Len(r)
             z == Len(u)
             s == Append(r, b)
  <1>0. k \in Nat /\ z \in Nat /\ \A m : Datum(p, m).n = m
    BY DEF Datum
  <1>1. /\ v \in Seq(Byte) /\ Len(v) = z + 1 /\ v[1] = b
        /\ \A i \in 1 .. z : v[i + 1] = u[i]
    OBVIOUS
  <1>2. /\ k <= n /\ \A i \in 1 .. k : r[i] = Datum(p, i)
        /\ \A i \in 1 .. z + 1 : IsData(v[i]) => \E m \in k + 1 .. n : v[i] = Datum(p, m)
        /\ \A m \in k + 1 .. n : \E i \in 1 .. z + 1 : v[i] = Datum(p, m)
        /\ \A i, j \in 1 .. z + 1 : IsData(v[i]) /\ IsData(v[j]) /\ i < j => v[i].n < v[j].n
    <2>1. InSequence(r, v, p, n)
      OBVIOUS
    <2> HIDE DEF v, IsData
    <2>2. /\ Len(r) <= n /\ \A i \in 1 .. Len(r) : r[i] = Datum(p, i)
          /\ \A i \in 1 .. Len(v) : IsData(v[i]) => \E m \in Len(r) + 1 .. n : v[i] = Datum(p, m)
          /\ \A m \in Len(r) + 1 .. n : \E i \in 1 .. Len(v) : v[i] = Datum(p, m)
          /\ \A i, j \in 1 .. Len(v) : IsData(v[i]) /\ IsData(v[j]) /\ i < j => v[i].n < v[j].n
      BY <1>1, <2>1, InSequenceMeans
    <2>3. Len(v) = z + 1
      BY <1>1
    <2> HIDE DEF z
    <2> QED BY <2>2, <2>3
  <1>3. /\ s \in Seq(Byte) /\ Len(s) = k + 1 /\ s[k + 1] = b /\ \A i \in 1 .. k : s[i] = r[i]
    OBVIOUS
  <1> HIDE DEF v, k, z, s
  <1>4. \A i \in 1 .. z : i + 1 \in 1 .. z + 1
    BY <1>0
  <1>5. 1 \in 1 .. z + 1
    BY <1>0
  <1>6. PICK m1 \in k + 1 .. n : b = Datum(p, m1)
    BY <1>1, <1>2, <1>5
  <1>7. k + 1 \in k + 1 .. n /\ k < n
    BY <1>0, <1>6
  <1>8. b = Datum(p, k + 1)
    <2>1. PICK i \in 1 .. z + 1 : v[i] = Datum(p, k + 1)
      BY <1>2, <1>7
    <2>2. CASE i = 1
      BY <1>1, <2>1, <2>2
    <2>3. CASE i # 1
      <3>1. 1 < i
        BY <1>0, <2>3
      <3>2. IsData(v[i])
        BY <2>1 DEF IsData, Datum
      <3>3. v[1].n < v[i].n
        BY <1>1, <1>2, <1>5, <3>1, <3>2
      <3>4. m1 < k + 1
        BY <1>0, <1>1, <1>6, <2>1, <3>3
      <3> QED BY <1>0, <1>6, <3>4
    <2> QED BY <2>2, <2>3
  <1>9. \A i \in 1 .. k + 1 : s[i] = Datum(p, i)
    <2> TAKE i \in 1 .. k + 1
    <2>1. CASE i = k + 1
      BY <1>3, <1>8, <2>1
    <2>2. CASE i \in 1 .. k
      BY <1>2, <1>3, <2>2
    <2> QED BY <1>0, <2>1, <2>2
  <1>10. ASSUME NEW i \in 1 .. z, IsData(u[i])
         PROVE  \E m \in (k + 1) + 1 .. n : u[i] = Datum(p, m)
    <2>1. i + 1 \in 1 .. z + 1 /\ 1 < i + 1 /\ v[i + 1] = u[i]
      BY <1>0, <1>1
    <2>2. PICK m \in k + 1 .. n : u[i] = Datum(p, m)
      BY <1>2, <1>10, <2>1
    <2>3. v[1].n < v[i + 1].n
      BY <1>1, <1>2, <1>5, <1>10, <2>1
    <2>4. k + 1 < m
      BY <1>0, <1>1, <1>8, <2>1, <2>2, <2>3
    <2>5. m \in (k + 1) + 1 .. n
      BY <1>0, <2>4
    <2> QED BY <2>2, <2>5
  <1>11. ASSUME NEW m \in (k + 1) + 1 .. n PROVE \E i \in 1 .. z : u[i] = Datum(p, m)
    <2>1. m \in k + 1 .. n /\ m # k + 1
      BY <1>0
    <2>2. PICK i \in 1 .. z + 1 : v[i] = Datum(p, m)
      BY <1>2, <2>1
    <2>3. i # 1
      BY <1>0, <1>1, <1>8, <2>1, <2>2
    <2>4. i - 1 \in 1 .. z /\ (i - 1) + 1 = i
      BY <1>0, <2>3
    <2>5. u[i - 1] = v[i]
      BY <1>1, <2>4
    <2> QED BY <2>2, <2>4, <2>5
  <1>12. ASSUME NEW i \in 1 .. z, NEW j \in 1 .. z, IsData(u[i]), IsData(u[j]), i < j
         PROVE  u[i].n < u[j].n
    <2>1. i + 1 \in 1 .. z + 1 /\ j + 1 \in 1 .. z + 1 /\ i + 1 < j + 1
      BY <1>0, <1>12
    <2> QED BY <1>1, <1>2, <1>12, <2>1
  <1>13. InSequence(s, u, p, n)
    <2> HIDE DEF IsData
    <2>0. Len(s) <= n
      BY <1>0, <1>3, <1>7
    <2>1. \A i \in 1 .. Len(s) : s[i] = Datum(p, i)
      BY <1>3, <1>9
    <2>2. \A i \in 1 .. Len(u) : IsData(u[i]) => \E m \in Len(s) + 1 .. n : u[i] = Datum(p, m)
      BY <1>3, <1>10 DEF z
    <2>3. \A m \in Len(s) + 1 .. n : \E i \in 1 .. Len(u) : u[i] = Datum(p, m)
      BY <1>3, <1>11 DEF z
    <2>4. \A i, j \in 1 .. Len(u) : IsData(u[i]) /\ IsData(u[j]) /\ i < j => u[i].n < u[j].n
      BY <1>12 DEF z
    <2> QED BY <1>3, <2>0, <2>1, <2>2, <2>3, <2>4, InSequenceMeans
  <1> QED BY <1>7, <1>13 DEF s, k

-----------------------------------------------------------------------------
(***************************************************************************)
(* The bytes that come                                                     *)
(***************************************************************************)

(* What the stream of a port looks like while acks acknowledges and        *)
(* replies replies are due (0 or 1 of each): at most one data byte before  *)
(* the acknowledge, the reply at once behind it, at most one more byte.    *)
Shape(L, acks, replies) ==
    \E a \in 0 .. 1 :
        /\ acks = 0 => a = 0
        /\ Len(L) \in a + acks + replies .. a + acks + replies + 1
        /\ \A i \in 1 .. Len(L) :
              L[i].kind = IF acks = 1 /\ i = a + 1 THEN "ack"
                          ELSE IF replies = 1 /\ i = a + acks + 1 THEN "reply" ELSE "data"

(* A byte in front of others *)
LEMMA ConsIs ==
    ASSUME NEW w \in Seq(Byte), NEW b \in Byte
    PROVE  /\ <<b>> \o w \in Seq(Byte) /\ Len(<<b>> \o w) = Len(w) + 1
           /\ Len(w) \in Nat /\ (<<b>> \o w)[1] = b
           /\ \A i \in 1 .. Len(w) : (<<b>> \o w)[i + 1] = w[i]
  OBVIOUS

(* Without an acknowledge due, no byte comes before the reply. *)
LEMMA ShapeNoAck ==
    ASSUME NEW L, NEW replies \in 0 .. 1, Shape(L, 0, replies)
    PROVE  /\ Len(L) \in replies .. replies + 1
           /\ \A i \in 1 .. Len(L) :
                 L[i].kind = IF replies = 1 /\ i = 1 THEN "reply" ELSE "data"
  <1>1. PICK a \in 0 .. 1 :
          /\ a = 0
          /\ Len(L) \in a + 0 + replies .. a + 0 + replies + 1
          /\ \A i \in 1 .. Len(L) :
                L[i].kind = IF replies = 1 /\ i = a + 0 + 1 THEN "reply" ELSE "data"
    BY DEF Shape
  <1>2. a + 0 + replies = replies /\ a + 0 + 1 = 1
    BY <1>1
  <1> QED BY <1>1, <1>2

(* Nothing is due: at most one byte, and it is data. *)
LEMMA ShapeIdle ==
    ASSUME NEW w \in Seq(Byte), NEW b \in Byte, Shape(<<b>> \o w, 0, 0)
    PROVE  IsData(b) /\ Shape(w, 0, 0)
  <1> DEFINE L == <<b>> \o w
  <1>1. /\ Len(L) = Len(w) + 1 /\ Len(w) \in Nat /\ L[1] = b
    BY ConsIs
  <1>2. Shape(L, 0, 0)
    OBVIOUS
  <1> HIDE DEF L
  <1>3. Len(L) \in 0 .. 1 /\ \A i \in 1 .. Len(L) : L[i].kind = "data"
    BY <1>2, ShapeNoAck
  <1>4. Len(w) = 0 /\ b.kind = "data"
    BY <1>1, <1>3
  <1>5. Shape(w, 0, 0)
    <2>1. 0 \in 0 .. 1
      OBVIOUS
    <2> QED BY <1>4, <2>1 DEF Shape
  <1> QED BY <1>4, <1>5 DEF IsData

(* An acknowledge or a reply that is due is on its way. *)
LEMMA ShapeDue ==
    ASSUME NEW L \in Seq(Byte), NEW acks \in 0 .. 1, NEW replies \in 0 .. 1,
           Shape(L, acks, replies), acks = 1 \/ replies = 1
    PROVE  /\ L # << >>
           /\ acks = 1 => \E i \in 1 .. Len(L) : L[i].kind = "ack"
  <1>1. PICK a \in 0 .. 1 :
          /\ Len(L) \in a + acks + replies .. a + acks + replies + 1
          /\ \A i \in 1 .. Len(L) :
                L[i].kind = IF acks = 1 /\ i = a + 1 THEN "ack"
                            ELSE IF replies = 1 /\ i = a + acks + 1 THEN "reply" ELSE "data"
    BY DEF Shape
  <1>2. Len(L) >= 1
    BY <1>1
  <1>3. ASSUME acks = 1 PROVE a + 1 \in 1 .. Len(L) /\ L[a + 1].kind = "ack"
    <2>1. a + 1 \in 1 .. Len(L)
      BY <1>1, <1>3
    <2> QED BY <1>1, <1>3, <2>1
  <1> QED BY <1>2, <1>3

(* The acknowledge comes first, and is read. *)
LEMMA ShapeAck ==
    ASSUME NEW w \in Seq(Byte), NEW b \in Byte, NEW replies \in 0 .. 1,
           Shape(<<b>> \o w, 1, replies), b.kind = "ack"
    PROVE  Shape(w, 0, replies)
  <1> DEFINE L == <<b>> \o w
             z == Len(w)
  <1>1. /\ Len(L) = z + 1 /\ z \in Nat /\ L[1] = b
        /\ \A i \in 1 .. z : L[i + 1] = w[i]
    BY ConsIs
  <1>2. Shape(L, 1, replies)
    OBVIOUS
  <1> HIDE DEF L
  <1>3. PICK a \in 0 .. 1 :
          /\ Len(L) \in a + 1 + replies .. a + 1 + replies + 1
          /\ \A i \in 1 .. Len(L) :
                L[i].kind = IF i = a + 1 THEN "ack"
                            ELSE IF replies = 1 /\ i = a + 1 + 1 THEN "reply" ELSE "data"
    BY <1>2 DEF Shape
  <1> HIDE DEF z
  <1>4. a = 0
    <2>1. 1 \in 1 .. Len(L)
      BY <1>1
    <2>2. a = 1 => L[1].kind = "data"
      BY <1>3, <2>1
    <2> QED BY <1>1, <1>3, <2>2
  <1>5. z \in replies .. replies + 1
    BY <1>1, <1>3, <1>4
  <1>6. ASSUME NEW i \in 1 .. z
        PROVE  w[i].kind = IF replies = 1 /\ i = 1 THEN "reply" ELSE "data"
    <2>1. i + 1 \in 1 .. Len(L) /\ i + 1 # a + 1 /\ (i = 1 <=> i + 1 = a + 1 + 1)
      BY <1>1, <1>4
    <2> QED BY <1>1, <1>3, <2>1
  <1>7. 0 \in 0 .. 1
    OBVIOUS
  <1> QED BY <1>5, <1>6, <1>7 DEF Shape, z

(* A byte before the acknowledge is data, and the acknowledge is next. *)
LEMMA ShapeAside ==
    ASSUME NEW w \in Seq(Byte), NEW b \in Byte, NEW replies \in 0 .. 1,
           Shape(<<b>> \o w, 1, replies), b.kind # "ack"
    PROVE  IsData(b) /\ Shape(w, 1, replies) /\ w # << >> /\ w[1].kind = "ack"
  <1> DEFINE L == <<b>> \o w
             z == Len(w)
  <1>1. /\ Len(L) = z + 1 /\ z \in Nat /\ L[1] = b
        /\ \A i \in 1 .. z : L[i + 1] = w[i]
    BY ConsIs
  <1>2. Shape(L, 1, replies)
    OBVIOUS
  <1> HIDE DEF L
  <1>3. PICK a \in 0 .. 1 :
          /\ Len(L) \in a + 1 + replies .. a + 1 + replies + 1
          /\ \A i \in 1 .. Len(L) :
                L[i].kind = IF i = a + 1 THEN "ack"
                            ELSE IF replies = 1 /\ i = a + 1 + 1 THEN "reply" ELSE "data"
    BY <1>2 DEF Shape
  <1>4. a = 1 /\ b.kind = "data"
    <2>1. 1 \in 1 .. Len(L)
      BY <1>1
    <2>2. a = 0 => L[1].kind = "ack"
      BY <1>3, <2>1
    <2>3. a = 1
      BY <1>1, <1>3, <2>2
    <2> QED BY <1>1, <1>3, <2>1, <2>3
  <1> HIDE DEF z
  <1>5. z \in 1 + replies .. 1 + replies + 1
    BY <1>1, <1>3, <1>4
  <1>6. ASSUME NEW i \in 1 .. z
        PROVE  w[i].kind = IF i = 1 THEN "ack"
                           ELSE IF replies = 1 /\ i = 2 THEN "reply" ELSE "data"
    <2>1. /\ i + 1 \in 1 .. Len(L) /\ (i = 1 <=> i + 1 = a + 1)
          /\ (i = 2 <=> i + 1 = a + 1 + 1)
      BY <1>1, <1>4
    <2> QED BY <1>1, <1>3, <2>1
  <1>7. Shape(w, 1, replies)
    <2>1. /\ 0 \in 0 .. 1 /\ z \in 0 + 1 + replies .. 0 + 1 + replies + 1
          /\ \A i \in 1 .. z : w[i].kind = IF i = 0 + 1 THEN "ack"
               ELSE IF replies = 1 /\ i = 0 + 1 + 1 THEN "reply" ELSE "data"
      BY <1>5, <1>6
    <2> QED BY <2>1 DEF Shape, z
  <1>8. w # << >> /\ w[1].kind = "ack"
    <2>1. 1 \in 1 .. z
      BY <1>5
    <2> QED BY <1>5, <1>6, <2>1 DEF z
  <1> QED BY <1>4, <1>7, <1>8 DEF IsData

(* Only a reply is due: it is first. *)
LEMMA ShapeReply ==
    ASSUME NEW w \in Seq(Byte), NEW b \in Byte, Shape(<<b>> \o w, 0, 1)
    PROVE  b.kind = "reply" /\ Shape(w, 0, 0)
  <1> DEFINE L == <<b>> \o w
             z == Len(w)
  <1>1. /\ Len(L) = z + 1 /\ z \in Nat /\ L[1] = b
        /\ \A i \in 1 .. z : L[i + 1] = w[i]
    BY ConsIs
  <1>2. Shape(L, 0, 1)
    OBVIOUS
  <1> HIDE DEF L, z
  <1>3. /\ Len(L) \in 1 .. 2
        /\ \A i \in 1 .. Len(L) : L[i].kind = IF i = 1 THEN "reply" ELSE "data"
    BY <1>2, ShapeNoAck
  <1>4. b.kind = "reply" /\ z \in 0 .. 1
    BY <1>1, <1>3
  <1>5. ASSUME NEW i \in 1 .. z PROVE w[i].kind = "data"
    <2>1. i + 1 \in 1 .. Len(L) /\ i + 1 # 1
      BY <1>1
    <2> QED BY <1>1, <1>3, <2>1
  <1>6. Shape(w, 0, 0)
    <2>1. 0 \in 0 .. 1
      OBVIOUS
    <2> QED BY <1>4, <1>5, <2>1 DEF Shape, z
  <1> QED BY <1>4, <1>6

(* A device may send: the stream is empty or ends with an answer. *)
LEMMA ShapeSends ==
    ASSUME NEW L \in Seq(Byte), NEW acks \in 0 .. 1, NEW replies \in 0 .. 1,
           NEW b \in Byte, IsData(b), Shape(L, acks, replies),
           L = << >> \/ ~ IsData(L[Len(L)])
    PROVE  Shape(Append(L, b), acks, replies)
  <1> DEFINE K == Append(L, b)
             z == Len(L)
  <1>1. /\ z \in Nat /\ Len(K) = z + 1 /\ K[z + 1] = b /\ \A i \in 1 .. z : K[i] = L[i]
        /\ (L = << >> <=> z = 0)
    OBVIOUS
  <1>2. PICK a \in 0 .. 1 :
          /\ acks = 0 => a = 0
          /\ z \in a + acks + replies .. a + acks + replies + 1
          /\ \A i \in 1 .. z :
                L[i].kind = IF acks = 1 /\ i = a + 1 THEN "ack"
                            ELSE IF replies = 1 /\ i = a + acks + 1 THEN "reply" ELSE "data"
    BY DEF Shape
  <1> HIDE DEF K, z
  <1>3. z = a + acks + replies
    <2> SUFFICES ASSUME z = a + acks + replies + 1 PROVE FALSE
      BY <1>1, <1>2
    <2>1. z \in 1 .. z /\ ~ (acks = 1 /\ z = a + 1) /\ ~ (replies = 1 /\ z = a + acks + 1)
      BY <1>1
    <2>2. L[z].kind = "data"
      BY <1>2, <2>1
    <2>3. L # << >>
      BY <1>1, <2>1
    <2> QED BY <2>2, <2>3 DEF IsData, z
  <1>4. ASSUME NEW i \in 1 .. z + 1
        PROVE  K[i].kind = IF acks = 1 /\ i = a + 1 THEN "ack"
                           ELSE IF replies = 1 /\ i = a + acks + 1 THEN "reply" ELSE "data"
    <2>1. CASE i \in 1 .. z
      BY <1>1, <1>2, <2>1
    <2>2. CASE i = z + 1
      <3>1. ~ (acks = 1 /\ i = a + 1) /\ ~ (replies = 1 /\ i = a + acks + 1)
        BY <1>3, <2>2
      <3> QED BY <1>1, <2>2, <3>1 DEF IsData
    <2> QED BY <1>1, <2>1, <2>2
  <1>5. z + 1 \in a + acks + replies .. a + acks + replies + 1
    BY <1>1, <1>3
  <1>6. Shape(K, acks, replies)
    BY <1>1, <1>2, <1>4, <1>5 DEF Shape
  <1> QED BY <1>6 DEF K

(* A device is told something and answers. *)
LEMMA ShapeTold ==
    ASSUME NEW L \in Seq(Byte), NEW b \in Byte, NEW c \in Byte, Shape(L, 0, 0),
           b.kind = "ack", c.kind = "reply"
    PROVE  Shape(Append(L, b), 1, 0) /\ Shape(Append(Append(L, b), c), 1, 1)
  <1> DEFINE K == Append(L, b)
             M == Append(K, c)
             z == Len(L)
  <1>1. /\ z \in Nat /\ Len(K) = z + 1 /\ K[z + 1] = b /\ \A i \in 1 .. z : K[i] = L[i]
        /\ K \in Seq(Byte)
    OBVIOUS
  <1>2. /\ Len(M) = (z + 1) + 1 /\ M[(z + 1) + 1] = c /\ \A i \in 1 .. z + 1 : M[i] = K[i]
    <2> HIDE DEF K
    <2> QED BY <1>1
  <1>3. z \in 0 .. 1 /\ \A i \in 1 .. z : L[i].kind = "data"
    BY ShapeNoAck
  <1> HIDE DEF K, M, z
  <1>4. \A i \in 1 .. z + 1 : K[i].kind = IF i = z + 1 THEN "ack" ELSE "data"
    <2> TAKE i \in 1 .. z + 1
    <2>1. CASE i = z + 1
      BY <1>1, <2>1
    <2>2. CASE i # z + 1
      BY <1>1, <1>3, <2>2
    <2> QED BY <2>1, <2>2
  <1>5. \A i \in 1 .. (z + 1) + 1 :
           M[i].kind = IF i = z + 1 THEN "ack" ELSE IF i = (z + 1) + 1 THEN "reply" ELSE "data"
    <2> TAKE i \in 1 .. (z + 1) + 1
    <2>1. CASE i = (z + 1) + 1
      BY <1>2, <1>3, <2>1
    <2>2. CASE i # (z + 1) + 1
      <3>1. i \in 1 .. z + 1
        BY <1>3, <2>2
      <3> QED BY <1>2, <1>4, <2>2, <3>1
    <2> QED BY <2>1, <2>2
  <1>6. Shape(K, 1, 0)
    BY <1>1, <1>3, <1>4 DEF Shape
  <1>7. Shape(M, 1, 1)
    BY <1>2, <1>3, <1>5 DEF Shape
  <1> QED BY <1>6, <1>7 DEF K, M

-----------------------------------------------------------------------------
(***************************************************************************)
(* What is due                                                             *)
(***************************************************************************)

(* At command i of request r, with processRequest at a place, it has still *)
(* to read an acknowledge, and a reply.                                    *)
AckDueAt(r, i, place) ==
    /\ place \in {"command", "status", "data"} /\ i \in 1 .. Len(Program[r])
    /\ \/ Program[r][i].op = "compare"
       \/ Program[r][i].op = "send" /\ place # "command"
ReplyDueAt(r, i, place) ==
    /\ place \in {"command", "status", "data"} /\ i \in 1 .. Len(Program[r])
    /\ \/ Program[r][i].op = "read"
       \/ AckDueAt(r, i, place) /\ Asks(Program[r], i)

(* The request in hand owes it to its own port only. *)
AckDue(p) == IF local # << >> /\ p = port /\ AckDueAt(request, index, pc) THEN 1 ELSE 0
ReplyDue(p) == IF local # << >> /\ p = port /\ ReplyDueAt(request, index, pc) THEN 1 ELSE 0

(* A command of a careful program, and what comes after it *)
LEMMA CarefulCommand ==
    ASSUME Careful, NEW r \in Request, NEW i \in 1 .. Len(Program[r])
    PROVE  /\ Program[r] \in Seq(Command)
           /\ Len(Program[r]) \in Nat
           /\ Program[r][i].op \in {"send", "write", "compare", "read", "sleep"}
           /\ Program[r][i].op = "write" <=>
                 i + 1 \in 1 .. Len(Program[r]) /\ Program[r][i + 1].op = "compare"
           /\ Asks(Program[r], i) <=>
                 i + 1 \in 1 .. Len(Program[r]) /\ Program[r][i + 1].op = "read"
  <1> DEFINE c == Program[r][i]
             next == IF i = Len(Program[r]) THEN "none" ELSE Program[r][i + 1].op
  <1>1. /\ Program[r] \in Seq(Command) /\ c.op # "flush"
        /\ c.op = "write" <=> next = "compare"
        /\ Asks(Program[r], i) <=> next = "read"
    BY DEF Careful
  <1>2. Len(Program[r]) \in Nat /\ c \in Command
    BY <1>1, LenProperties, ElementOfSeq
  <1>3. c.op \in {"send", "write", "compare", "read", "flush", "sleep"}
    <2> HIDE DEF c
    <2> QED BY <1>2 DEF Command
  <1>4. i = Len(Program[r]) <=> ~ (i + 1 \in 1 .. Len(Program[r]))
    BY <1>2
  <1> QED BY <1>1, <1>2, <1>3, <1>4

(* What is due at a command, and at the next one *)
LEMMA DueAt ==
    ASSUME Careful, NEW r \in Request, NEW i \in 1 .. Len(Program[r]), NEW place,
           place \in {"command", "status", "data"}
    PROVE  LET op == Program[r][i].op IN
           /\ op = "send" /\ place = "command" =>
                 /\ ~ AckDueAt(r, i, place) /\ ~ ReplyDueAt(r, i, place)
                 /\ AckDueAt(r, i, "status")
                 /\ ReplyDueAt(r, i, "status") <=> Program[r][i].says = "info"
           /\ op = "write" =>
                 /\ ~ AckDueAt(r, i, place) /\ ~ ReplyDueAt(r, i, place)
                 /\ AckDueAt(r, i + 1, "command")
                 /\ ReplyDueAt(r, i + 1, "command") <=> Program[r][i].says = "info"
           /\ op = "sleep" =>
                 /\ ~ AckDueAt(r, i, place) /\ ~ ReplyDueAt(r, i, place)
                 /\ ~ AckDueAt(r, i + 1, "command") /\ ~ ReplyDueAt(r, i + 1, "command")
           /\ op = "read" =>
                 /\ ~ AckDueAt(r, i, place) /\ ReplyDueAt(r, i, place)
                 /\ ~ AckDueAt(r, i + 1, "command") /\ ~ ReplyDueAt(r, i + 1, "command")
           /\ op = "compare" \/ (op = "send" /\ place # "command") =>
                 /\ AckDueAt(r, i, place) /\ ~ AckDueAt(r, i + 1, "command")
                 /\ ReplyDueAt(r, i + 1, "command") <=> ReplyDueAt(r, i, place)
  <1> DEFINE op == Program[r][i].op
             there == i + 1 \in 1 .. Len(Program[r])
             next == Program[r][i + 1].op
  <1>1. /\ op \in {"send", "write", "compare", "read", "sleep"}
        /\ op = "write" <=> there /\ next = "compare"
        /\ Asks(Program[r], i) <=> there /\ next = "read"
    BY CarefulCommand
  <1>2. /\ AckDueAt(r, i, place) <=> op = "compare" \/ (op = "send" /\ place # "command")
        /\ ReplyDueAt(r, i, place) <=>
              op = "read" \/ (AckDueAt(r, i, place) /\ Asks(Program[r], i))
        /\ AckDueAt(r, i, "status") <=> op \in {"compare", "send"}
        /\ ReplyDueAt(r, i, "status") <=>
              op = "read" \/ (AckDueAt(r, i, "status") /\ Asks(Program[r], i))
    BY DEF AckDueAt, ReplyDueAt
  <1>3. /\ AckDueAt(r, i + 1, "command") <=> there /\ next = "compare"
        /\ ReplyDueAt(r, i + 1, "command") <=>
              there /\ (next = "read" \/ (next = "compare" /\ Asks(Program[r], i + 1)))
    BY DEF AckDueAt, ReplyDueAt
  <1>4. /\ op = "send" => (Asks(Program[r], i) <=> Program[r][i].says = "info")
        /\ op \notin {"send", "compare"} => ~ Asks(Program[r], i)
    BY DEF Asks
  <1>5. next = "compare" => (Asks(Program[r], i + 1) <=> Program[r][i].says = "info")
    <2>1. i + 1 > 1 /\ (i + 1) - 1 = i
      OBVIOUS
    <2> QED BY <2>1 DEF Asks
  <1> HIDE DEF op, there, next
  <1>6. op = "send" /\ place = "command" =>
                   /\ ~ AckDueAt(r, i, place) /\ ~ ReplyDueAt(r, i, place)
                   /\ AckDueAt(r, i, "status")
                   /\ ReplyDueAt(r, i, "status") <=> Program[r][i].says = "info"
    BY <1>2, <1>4
  <1>7. op = "write" =>
                   /\ ~ AckDueAt(r, i, place) /\ ~ ReplyDueAt(r, i, place)
                   /\ AckDueAt(r, i + 1, "command")
                   /\ ReplyDueAt(r, i + 1, "command") <=> Program[r][i].says = "info"
    BY <1>1, <1>2, <1>3, <1>5
  <1>8. op = "sleep" =>
                   /\ ~ AckDueAt(r, i, place) /\ ~ ReplyDueAt(r, i, place)
                   /\ ~ AckDueAt(r, i + 1, "command") /\ ~ ReplyDueAt(r, i + 1, "command")
    BY <1>1, <1>2, <1>3, <1>4
  <1>9. op = "read" =>
                   /\ ~ AckDueAt(r, i, place) /\ ReplyDueAt(r, i, place)
                   /\ ~ AckDueAt(r, i + 1, "command") /\ ~ ReplyDueAt(r, i + 1, "command")
    BY <1>1, <1>2, <1>3, <1>4
  <1>10. op = "compare" \/ (op = "send" /\ place # "command") =>
                   /\ AckDueAt(r, i, place) /\ ~ AckDueAt(r, i + 1, "command")
                   /\ ReplyDueAt(r, i + 1, "command") <=> ReplyDueAt(r, i, place)
    BY <1>1, <1>2, <1>3
  <1> QED BY <1>6, <1>7, <1>8, <1>9, <1>10 DEF op

(* Nothing is due outside a command, before the first and after the last. *)
LEMMA NothingDue ==
    ASSUME Careful, NEW r \in Request, NEW i, NEW place,
           \/ place \notin {"command", "status", "data"}
           \/ i = 1 /\ place = "command"
           \/ i \notin 1 .. Len(Program[r])
    PROVE  ~ AckDueAt(r, i, place) /\ ~ ReplyDueAt(r, i, place)
  <1>1. CASE i = 1 /\ place = "command" /\ 1 \in 1 .. Len(Program[r])
    <2>1. Program[r] \in Seq(Command)
      BY DEF Careful
    <2>2. Program[r] # << >>
      BY <1>1, <2>1
    <2>3. Program[r][1].op \notin {"compare", "read"}
      BY <2>2 DEF Careful
    <2> QED BY <1>1, <2>3 DEF AckDueAt, ReplyDueAt
  <1>2. CASE place \notin {"command", "status", "data"} \/ i \notin 1 .. Len(Program[r])
    BY <1>2 DEF AckDueAt, ReplyDueAt
  <1> QED BY <1>1, <1>2

-----------------------------------------------------------------------------
(***************************************************************************)
(* The buffers                                                             *)
(***************************************************************************)

(* A buffer of at most one byte, seen from a port *)
LEMMA OfPort ==
    ASSUME NEW p, NEW s \in Seq(Byte), Len(s) <= 1
    PROVE  /\ Of(p, s) \in Seq(Byte)
           /\ s = << >> => Of(p, s) = << >>
           /\ s # << >> => /\ s[1] \in Byte /\ s = <<s[1]>>
                           /\ s[1].port = p => Of(p, s) = <<s[1]>>
                           /\ s[1].port # p => Of(p, s) = << >>
  <1>1. s # << >> => s[1] \in Byte /\ s = <<s[1]>>
    <2> SUFFICES ASSUME s # << >> PROVE s[1] \in Byte /\ s = <<s[1]>>
      OBVIOUS
    <2>1. Len(s) = 1 /\ s[1] \in Byte
      <3>1. Len(s) \in Nat /\ Len(s) # 0
        BY LenProperties, EmptySeq
      <3> QED BY <3>1, FirstByte
    <2>2. Len(<<s[1]>>) = 1 /\ <<s[1]>>[1] = s[1] /\ <<s[1]>> \in Seq(Byte)
      BY <2>1
    <2> QED BY <2>1, <2>2, SeqEqual
  <1>2. << >> \in Seq(Byte)
    OBVIOUS
  <1> QED BY <1>1, <1>2 DEF Of

(* Coming and Unread of a port, from what the buffers hold *)
Incoming(p, h, o, w) == (Of(p, h) \o Of(p, o)) \o w
InHandler(p, place, b) == IF place = "dispatch" THEN Of(p, <<b>>) ELSE << >>

(* What comes is put aside, in the buffer, or on the wire, in this order. *)
LEMMA IncomingIs ==
    ASSUME NEW p, NEW h \in Seq(Byte), Len(h) <= 1, NEW o \in Seq(Byte), Len(o) <= 1,
           NEW w \in Seq(Byte)
    PROVE  /\ Incoming(p, h, o, w) \in Seq(Byte)
           /\ h = << >> \/ h[1].port # p =>
                /\ o = << >> \/ o[1].port # p => Incoming(p, h, o, w) = w
                /\ o # << >> /\ o[1].port = p => Incoming(p, h, o, w) = Cons(o[1], w)
           /\ h # << >> /\ h[1].port = p =>
                /\ o = << >> \/ o[1].port # p => Incoming(p, h, o, w) = Cons(h[1], w)
                /\ o # << >> /\ o[1].port = p =>
                      Incoming(p, h, o, w) = Cons(h[1], Cons(o[1], w))
  <1> DEFINE H == h # << >> /\ h[1].port = p
             O == o # << >> /\ o[1].port = p
             x == Of(p, h)
             y == Of(p, o)
  <1>3. x \in Seq(Byte) /\ (H => x = <<h[1]>>) /\ (~ H => x = << >>)
    BY OfPort
  <1>4. y \in Seq(Byte) /\ (O => y = <<o[1]>>) /\ (~ O => y = << >>)
    BY OfPort
  <1>5. Incoming(p, h, o, w) = (x \o y) \o w
    BY DEF Incoming
  <1> HIDE DEF H, O, x, y
  <1>6. /\ y \o w \in Seq(Byte) /\ (x \o y) \o w = x \o (y \o w) /\ (x \o y) \o w \in Seq(Byte)
        /\ << >> \o w = w /\ << >> \o (y \o w) = y \o w
    <2>1. x \o y \in Seq(Byte) /\ y \o w \in Seq(Byte)
      BY <1>3, <1>4, ConcatProperties
    <2>2. (x \o y) \o w \in Seq(Byte)
      BY <2>1, ConcatProperties
    <2>3. (x \o y) \o w = x \o (y \o w)
      BY <1>3, <1>4
    <2>4. << >> \o w = w /\ << >> \o (y \o w) = y \o w
      BY <2>1, ConcatEmptySeq
    <2> QED BY <2>1, <2>2, <2>3, <2>4
  <1>7. ~ H /\ ~ O => Incoming(p, h, o, w) = w
    BY <1>3, <1>4, <1>5, <1>6
  <1>8. ~ H /\ O => Incoming(p, h, o, w) = Cons(o[1], w)
    BY <1>3, <1>4, <1>5, <1>6 DEF Cons
  <1>9. H /\ ~ O => Incoming(p, h, o, w) = Cons(h[1], w)
    BY <1>3, <1>4, <1>5, <1>6 DEF Cons
  <1>10. H /\ O => Incoming(p, h, o, w) = Cons(h[1], Cons(o[1], w))
    BY <1>3, <1>4, <1>5, <1>6 DEF Cons
  <1> QED BY <1>5, <1>6, <1>7, <1>8, <1>9, <1>10 DEF H, O

(* The byte that the interrupt handler read, seen from a port *)
LEMMA InHandlerIs ==
    ASSUME NEW p, NEW place, NEW b \in Byte
    PROVE  /\ InHandler(p, place, b) \in Seq(Byte)
           /\ place # "dispatch" \/ b.port # p => InHandler(p, place, b) = << >>
           /\ place = "dispatch" /\ b.port = p => InHandler(p, place, b) = <<b>>
  <1> DEFINE s == <<b>>
  <1>1. << >> \in Seq(Byte) /\ s \in Seq(Byte) /\ Len(s) <= 1 /\ s # << >> /\ s[1] = b
    OBVIOUS
  <1>2. /\ Of(p, s) \in Seq(Byte)
        /\ b.port = p => Of(p, s) = <<b>>
        /\ b.port # p => Of(p, s) = << >>
    <2> HIDE DEF s
    <2> QED BY <1>1, OfPort
  <1> QED BY <1>1, <1>2 DEF InHandler

(* Both before and after a step *)
LEMMA Buffers ==
    ASSUME TypeOK, TypeOK', NEW p \in Port
    PROVE  /\ Coming(p) = Incoming(p, held, out, wire[p])
           /\ Coming(p)' = Incoming(p, held', out', wire'[p])
           /\ Unread(p) = InHandler(p, isr, isrByte) \o Coming(p)
           /\ Unread(p)' = InHandler(p, isr', isrByte') \o Coming(p)'
           /\ held \in Seq(Byte) /\ Len(held) <= 1 /\ held' \in Seq(Byte) /\ Len(held') <= 1
           /\ out \in Seq(Byte) /\ Len(out) <= 1 /\ out' \in Seq(Byte) /\ Len(out') <= 1
           /\ wire[p] \in Seq(Byte) /\ wire'[p] \in Seq(Byte)
           /\ isrByte \in Byte /\ isrByte' \in Byte
           /\ Coming(p) \in Seq(Byte) /\ Coming(p)' \in Seq(Byte)
           /\ Unread(p) \in Seq(Byte) /\ Unread(p)' \in Seq(Byte)
           /\ rx[p] \in Seq(Byte) /\ sent[p] \in Nat /\ sent[p] <= DataBound
  <1>1. /\ Coming(p) = Incoming(p, held, out, wire[p])
        /\ Coming(p)' = Incoming(p, held', out', wire'[p])
    BY DEF Coming, Incoming, Of
  <1>2. /\ Unread(p) = InHandler(p, isr, isrByte) \o Coming(p)
        /\ Unread(p)' = InHandler(p, isr', isrByte') \o Coming(p)'
    BY DEF Unread, InHandler, Of
  <1>3. /\ held \in Seq(Byte) /\ Len(held) <= 1 /\ held' \in Seq(Byte) /\ Len(held') <= 1
        /\ out \in Seq(Byte) /\ Len(out) <= 1 /\ out' \in Seq(Byte) /\ Len(out') <= 1
        /\ wire[p] \in Seq(Byte) /\ wire'[p] \in Seq(Byte)
        /\ isrByte \in Byte /\ isrByte' \in Byte
    BY DEF TypeOK
  <1>4. Coming(p) \in Seq(Byte) /\ Coming(p)' \in Seq(Byte)
    <2>1. Incoming(p, held, out, wire[p]) \in Seq(Byte)
      BY <1>3, IncomingIs
    <2>2. Incoming(p, held', out', wire'[p]) \in Seq(Byte)
      BY <1>3, IncomingIs
    <2> QED BY <1>1, <2>1, <2>2
  <1>5. /\ InHandler(p, isr, isrByte) \in Seq(Byte)
        /\ InHandler(p, isr', isrByte') \in Seq(Byte)
    BY <1>3, InHandlerIs
  <1>6. Unread(p) \in Seq(Byte) /\ Unread(p)' \in Seq(Byte)
    BY <1>2, <1>4, <1>5, ConcatProperties
  <1>7. rx[p] \in Seq(Byte) /\ sent[p] \in Nat /\ sent[p] <= DataBound
    BY RequestAssumption DEF TypeOK, RequestAssumption
  <1> QED BY <1>1, <1>2, <1>3, <1>4, <1>6, <1>7

-----------------------------------------------------------------------------
(***************************************************************************)
(* The inductive invariant                                                 *)
(***************************************************************************)

(* The interrupt handler and processRequest never both read: what each saw *)
(* in the buffer is still there.  A byte is put aside only while an        *)
(* acknowledge is due, and the command in hand is one that reads.          *)
OneReader ==
    /\ index >= 1 /\ pc # "end"
    /\ isr # "idle" => pc \in {"free", "begin"}
    /\ isr = "data" => out # << >> /\ out[1].port = isrPort
    /\ isr = "dispatch" => IsData(isrByte) /\ isrByte.port = isrPort
    /\ pc = "data" => out # << >> /\ out[1].port = pollPort
    /\ pc \in {"status", "data"} => More /\ command.op \in {"send", "compare", "read"}
    /\ held # << >> => /\ pc \in {"status", "data"} /\ command.op # "read"
                       /\ held[1].port = port /\ IsData(held[1])

OwnWire == \A p \in Port : \A i \in 1 .. Len(wire[p]) : wire[p][i].port = p

(* The stream of a port holds the answers due, where they must be,         *)
(* and all the data that the driver has not got.                           *)
PortInv(p) ==
    /\ Shape(Coming(p), AckDue(p), ReplyDue(p))
    /\ InSequence(rx[p], Unread(p), p, sent[p])

Replies == \A j \in 1 .. Len(got) : got[j].kind = "reply"

CarefulInv ==
    /\ TypeInv /\ OneReader /\ OwnWire
    /\ \A p \in Port : PortInv(p)
    /\ Replies /\ RequestsSucceed

(* PortInv after a step *)
LEMMA PortPrimed ==
    ASSUME NEW p
    PROVE  PortInv(p)' <=> /\ Shape(Coming(p)', AckDue(p)', ReplyDue(p)')
                           /\ InSequence(rx'[p], Unread(p)', p, sent'[p])
  BY DEF PortInv, Shape, InSequence, IsData, Datum

(* What is due, before and after a step *)
LEMMA DueTypes ==
    ASSUME NEW p
    PROVE  /\ AckDue(p) \in 0 .. 1 /\ ReplyDue(p) \in 0 .. 1
           /\ AckDue(p)' \in 0 .. 1 /\ ReplyDue(p)' \in 0 .. 1
  BY DEF AckDue, ReplyDue

(* The same command at the same place has the same due. *)
LEMMA DueKept ==
    ASSUME NEW p, UNCHANGED <<local, index, pc>>
    PROVE  AckDue(p)' = AckDue(p) /\ ReplyDue(p)' = ReplyDue(p)
  BY DEF AckDue, ReplyDue, AckDueAt, ReplyDueAt, Asks, request, port

(* In terms of the request, the command and the place *)
LEMMA DueIs ==
    ASSUME NEW p
    PROVE  /\ AckDue(p) = IF local # << >> /\ p = port /\ AckDueAt(request, index, pc)
                          THEN 1 ELSE 0
           /\ ReplyDue(p) = IF local # << >> /\ p = port /\ ReplyDueAt(request, index, pc)
                            THEN 1 ELSE 0
           /\ AckDue(p)' = IF local' # << >> /\ p = PortOf[Head(local')]
                                /\ AckDueAt(Head(local'), index', pc')
                           THEN 1 ELSE 0
           /\ ReplyDue(p)' = IF local' # << >> /\ p = PortOf[Head(local')]
                                /\ ReplyDueAt(Head(local'), index', pc')
                             THEN 1 ELSE 0
  <1>1. /\ AckDue(p) = IF local # << >> /\ p = port /\ AckDueAt(request, index, pc)
                            THEN 1 ELSE 0
        /\ ReplyDue(p) = IF local # << >> /\ p = port /\ ReplyDueAt(request, index, pc)
                              THEN 1 ELSE 0
    BY DEF AckDue, ReplyDue
  <1>2. AckDue(p)' = IF local' # << >> /\ p = PortOf[Head(local')]
                        /\ AckDueAt(Head(local'), index', pc') THEN 1 ELSE 0
    BY DEF AckDue, AckDueAt, port, request
  <1>3. ReplyDue(p)' = IF local' # << >> /\ p = PortOf[Head(local')]
                        /\ ReplyDueAt(Head(local'), index', pc') THEN 1 ELSE 0
    BY DEF ReplyDue, ReplyDueAt, AckDueAt, Asks, port, request
  <1> QED BY <1>1, <1>2, <1>3

(* Nothing is due while no command is being worked on. *)
LEMMA NoneDue ==
    ASSUME NEW p
    PROVE  /\ pc \in {"free", "begin", "end"} => AckDue(p) = 0 /\ ReplyDue(p) = 0
           /\ pc' \in {"free", "begin", "end"} => AckDue(p)' = 0 /\ ReplyDue(p)' = 0
  <1>1. ASSUME NEW r, NEW i, NEW place \in {"free", "begin", "end"}
        PROVE ~ AckDueAt(r, i, place) /\ ~ ReplyDueAt(r, i, place)
    BY DEF AckDueAt, ReplyDueAt
  <1> QED BY <1>1, DueIs

(* The stream and what is due stay as they are. *)
LEMMA PortKept ==
    ASSUME NEW p, PortInv(p), Coming(p)' = Coming(p), Unread(p)' = Unread(p),
           AckDue(p)' = AckDue(p), ReplyDue(p)' = ReplyDue(p),
           rx'[p] = rx[p], sent'[p] = sent[p]
    PROVE  PortInv(p)'
  BY PortPrimed DEF PortInv

(* No byte moves. *)
LEMMA IncomingKept ==
    ASSUME NEW p, UNCHANGED <<held, out, wire>>
    PROVE  Coming(p)' = Coming(p) /\ (UNCHANGED <<isr, isrByte>> => Unread(p)' = Unread(p))
  BY DEF Coming, Unread, Of

(* Apart from the byte that the interrupt handler read *)
LEMMA UnreadIsComing ==
    ASSUME TypeOK, TypeOK', NEW p \in Port
    PROVE  /\ isr # "dispatch" \/ isrByte.port # p => Unread(p) = Coming(p)
           /\ isr' # "dispatch" \/ isrByte'.port # p => Unread(p)' = Coming(p)'
           /\ isr = "dispatch" /\ isrByte.port = p => Unread(p) = <<isrByte>> \o Coming(p)
           /\ isr' = "dispatch" /\ isrByte'.port = p => Unread(p)' = <<isrByte'>> \o Coming(p)'
  <1>1. /\ Unread(p) = InHandler(p, isr, isrByte) \o Coming(p)
        /\ Unread(p)' = InHandler(p, isr', isrByte') \o Coming(p)'
        /\ isrByte \in Byte /\ isrByte' \in Byte
        /\ Coming(p) \in Seq(Byte) /\ Coming(p)' \in Seq(Byte)
    BY Buffers
  <1>2. << >> \o Coming(p) = Coming(p) /\ << >> \o Coming(p)' = Coming(p)'
    BY <1>1, ConcatEmptySeq
  <1>3. /\ isr # "dispatch" \/ isrByte.port # p => InHandler(p, isr, isrByte) = << >>
        /\ isr = "dispatch" /\ isrByte.port = p => InHandler(p, isr, isrByte) = <<isrByte>>
    BY <1>1, InHandlerIs
  <1>4. /\ isr' # "dispatch" \/ isrByte'.port # p => InHandler(p, isr', isrByte') = << >>
        /\ isr' = "dispatch" /\ isrByte'.port = p => InHandler(p, isr', isrByte') = <<isrByte'>>
    BY <1>1, InHandlerIs
  <1> QED BY <1>1, <1>2, <1>3, <1>4

(* The invariant holds at first. *)
LEMMA InitCareful == Init => CarefulInv
  <1> SUFFICES ASSUME Init PROVE CarefulInv
    OBVIOUS
  <1>1. TypeInv
    BY InitTypes
  <1>2. /\ index = 1 /\ pc = "free" /\ isr = "idle" /\ held = << >> /\ out = << >>
        /\ got = << >> /\ done = << >>
    BY DEF Init
  <1>3. OneReader
    BY <1>2 DEF OneReader
  <1>4. ASSUME NEW p \in Port
        PROVE  wire[p] = << >> /\ rx[p] = << >> /\ sent[p] = 0
    BY DEF Init
  <1>5. OwnWire
    BY <1>4 DEF OwnWire
  <1>6. ASSUME NEW p \in Port PROVE PortInv(p)
    <2>1. Coming(p) = << >> /\ Unread(p) = << >>
      BY <1>2, <1>4 DEF Coming, Unread, Of
    <2>2. AckDue(p) = 0 /\ ReplyDue(p) = 0
      BY <1>2, NoneDue
    <2>3. Shape(<< >>, 0, 0)
      <3>1. 0 \in 0 .. 1 /\ Len(<< >>) = 0
        OBVIOUS
      <3> QED BY <3>1 DEF Shape
    <2>4. InSequence(<< >>, << >>, p, 0)
      <3>1. 0 \in Nat
        OBVIOUS
      <3> DEFINE e == << >>
      <3>2. e \in Seq(Byte) /\ Len(e) = 0
        OBVIOUS
      <3> HIDE DEF e
      <3>3. Len(e) <= 0 /\ 1 .. Len(e) = {} /\ Len(e) + 1 .. 0 = {}
        BY <3>2
      <3>4. InSequence(e, e, p, 0)
        BY <3>1, <3>2, <3>3, InSequenceMeans
      <3> QED BY <3>4 DEF e
    <2> QED BY <1>4, <2>1, <2>2, <2>3, <2>4 DEF PortInv
  <1>7. Replies /\ RequestsSucceed
    <2>1. Len(<< >>) = 0 /\ DOMAIN << >> = {}
      OBVIOUS
    <2> QED BY <1>2, <2>1 DEF Replies, RequestsSucceed
  <1> QED BY <1>1, <1>3, <1>5, <1>6, <1>7 DEF CarefulInv

(* Steps that leave processRequest and the interrupt handler alone *)
LEMMA ReadersKept ==
    ASSUME OneReader, UNCHANGED <<index, pc, isr, isrPort, isrByte, out, held, pollPort, local>>
    PROVE  OneReader'
  BY DEF OneReader, More, command, request, port, IsData

(* Steps that complete nothing and return nothing *)
LEMMA HistoryKept ==
    ASSUME Replies, RequestsSucceed, UNCHANGED <<got, done>>
    PROVE  Replies' /\ RequestsSucceed'
  BY DEF Replies, RequestsSucceed

(* A byte joins the stream at its end. *)
LEMMA IncomingAppend ==
    ASSUME NEW p, NEW h \in Seq(Byte), Len(h) <= 1, NEW o \in Seq(Byte), Len(o) <= 1,
           NEW w \in Seq(Byte), NEW b \in Byte
    PROVE  Incoming(p, h, o, Append(w, b)) = Append(Incoming(p, h, o, w), b)
  <1> DEFINE x == Of(p, h) \o Of(p, o)
  <1>1. x \in Seq(Byte)
    BY OfPort, ConcatProperties
  <1>2. Incoming(p, h, o, Append(w, b)) = x \o Append(w, b) /\ Incoming(p, h, o, w) = x \o w
    BY DEF Incoming
  <1> HIDE DEF x
  <1> QED BY <1>1, <1>2

(* The byte in the buffer of its port was the first on the wire. *)
LEMMA IncomingFill ==
    ASSUME NEW p, NEW h \in Seq(Byte), Len(h) <= 1, NEW w \in Seq(Byte), NEW b \in Byte
    PROVE  /\ b.port = p => Incoming(p, h, <<b>>, w) = Incoming(p, h, << >>, <<b>> \o w)
           /\ b.port # p => Incoming(p, h, <<b>>, w) = Incoming(p, h, << >>, w)
  <1> DEFINE x == Of(p, h)
  <1>1. x \in Seq(Byte) /\ x \o << >> = x
    BY OfPort, ConcatEmptySeq
  <1>2. /\ Of(p, << >>) = << >> /\ <<b>>[1] = b /\ <<b>> # << >>
        /\ b.port = p => Of(p, <<b>>) = <<b>>
        /\ b.port # p => Of(p, <<b>>) = << >>
    BY DEF Of
  <1>3. \A o, v : Incoming(p, h, o, v) = (x \o Of(p, o)) \o v
    BY DEF Incoming
  <1> HIDE DEF x
  <1>4. (x \o <<b>>) \o w = x \o (<<b>> \o w)
    BY <1>1
  <1>5. b.port = p => Incoming(p, h, <<b>>, w) = Incoming(p, h, << >>, <<b>> \o w)
    BY <1>1, <1>2, <1>3, <1>4
  <1>6. b.port # p => Incoming(p, h, <<b>>, w) = Incoming(p, h, << >>, w)
    BY <1>2, <1>3
  <1> QED BY <1>5, <1>6

(* A device sends data where the window lets it. *)
LEMMA SendsCareful ==
    ASSUME Careful, CarefulInv, TypeInv', NEW p \in Port, DeviceSends(p)
    PROVE  CarefulInv'
  <1>1. TypeOK /\ TypeOK'
    BY DEF CarefulInv, TypeInv
  <1> DEFINE b == Datum(p, sent[p] + 1)
  <1>2. /\ sent'[p] = sent[p] + 1 /\ wire'[p] = Append(wire[p], b)
        /\ \A q \in Port : q # p => sent'[q] = sent[q] /\ wire'[q] = wire[q]
    <2>1. sent \in [Port -> 0 .. DataBound] /\ wire \in [Port -> Seq(Byte)]
      BY <1>1 DEF TypeOK
    <2>2. sent' = [sent EXCEPT ![p] = @ + 1]
      BY DEF DeviceSends
    <2>3. sent'[p] = sent[p] + 1
      BY <2>1, <2>2
    <2>4. wire' = [wire EXCEPT ![p] = Append(@, b)]
      BY <2>3 DEF DeviceSends
    <2> QED BY <2>1, <2>2, <2>4
  <1>3. UNCHANGED <<out, held, index, pc, isr, isrPort, isrByte, pollPort, local, got, done, rx>>
    BY DEF DeviceSends, handler, requests, polling
  <1>4. b \in Byte /\ IsData(b) /\ b.port = p
    <2>1. sent[p] + 1 \in 0 .. DataBound
      BY <1>1, RequestAssumption DEF TypeOK, DeviceSends, RequestAssumption
    <2> QED BY <2>1 DEF Byte, Datum, IsData
  <1>5. OneReader' /\ Replies' /\ RequestsSucceed'
    BY <1>3, ReadersKept, HistoryKept DEF CarefulInv
  <1>6. OwnWire'
    <2> SUFFICES ASSUME NEW q \in Port, NEW i \in 1 .. Len(wire'[q]) PROVE wire'[q][i].port = q
      BY DEF OwnWire
    <2>1. CASE q # p
      BY <1>2, <2>1 DEF CarefulInv, OwnWire
    <2>2. CASE q = p
      <3>1. wire[p] \in Seq(Byte)
        BY <1>1 DEF TypeOK
      <3> HIDE DEF b
      <3>2. /\ Len(wire'[p]) = Len(wire[p]) + 1 /\ wire'[p][Len(wire[p]) + 1] = b
            /\ \A j \in 1 .. Len(wire[p]) : wire'[p][j] = wire[p][j]
            /\ Len(wire[p]) \in Nat
        BY <1>2, <1>4, <3>1
      <3>3. CASE i = Len(wire[p]) + 1
        BY <1>4, <2>2, <3>2, <3>3
      <3>4. CASE i \in 1 .. Len(wire[p])
        BY <2>2, <3>2, <3>4 DEF CarefulInv, OwnWire
      <3> QED BY <2>2, <3>2, <3>3, <3>4
    <2> QED BY <2>1, <2>2
  <1>7. ASSUME NEW q \in Port, q # p PROVE PortInv(q)'
    <2>1. Coming(q)' = Coming(q) /\ Unread(q)' = Unread(q)
      BY <1>1, <1>2, <1>3, <1>7, Buffers
    <2> QED BY <1>2, <1>3, <1>7, <2>1, DueKept, PortKept DEF CarefulInv
  <1>8. PortInv(p)'
    <2> DEFINE C == Coming(p)
               U == Unread(p)
               x == InHandler(p, isr, isrByte)
    <2>1. /\ C \in Seq(Byte) /\ U \in Seq(Byte) /\ rx[p] \in Seq(Byte) /\ sent[p] \in Nat
          /\ U = x \o C
      BY <1>1, Buffers
    <2>2. Coming(p)' = Append(C, b)
      <3> HIDE DEF b
      <3>1. /\ C = Incoming(p, held, out, wire[p])
            /\ Coming(p)' = Incoming(p, held', out', wire'[p])
            /\ held \in Seq(Byte) /\ Len(held) <= 1 /\ out \in Seq(Byte) /\ Len(out) <= 1
            /\ wire[p] \in Seq(Byte)
        BY <1>1, Buffers
      <3>2. Incoming(p, held, out, Append(wire[p], b)) = Append(Incoming(p, held, out, wire[p]), b)
        BY <1>4, <3>1, IncomingAppend
      <3> QED BY <1>2, <1>3, <3>1, <3>2
    <2>3. x \in Seq(Byte)
      BY <1>1, InHandlerIs DEF TypeOK
    <2>4. Unread(p)' = x \o Append(C, b)
      BY <1>1, <1>3, <2>2, Buffers
    <2>5. C = << >> \/ ~ IsData(C[Len(C)])
      <3> SUFFICES ASSUME C # << >>, IsData(C[Len(C)]) PROVE WindowFull(p)
        BY DEF DeviceSends
      <3>1. Len(C) \in Nat \ {0}
        BY <2>1
      <3>2. Window \in 0 .. 1
        BY DEF Careful
      <3>3. ASSUME NEW i \in Len(C) + 1 - Window .. Len(C) PROVE i = Len(C)
        BY <3>1, <3>2
      <3>4. Len(C) >= Window
        BY <3>1, <3>2
      <3> QED BY <3>3, <3>4 DEF WindowFull
    <2>6. Shape(C, AckDue(p), ReplyDue(p)) /\ InSequence(rx[p], U, p, sent[p])
      BY DEF CarefulInv, PortInv
    <2>7. AckDue(p)' = AckDue(p) /\ ReplyDue(p)' = ReplyDue(p)
      BY <1>3, DueKept
    <2> HIDE DEF C, U, x
    <2>8. Shape(Append(C, b), AckDue(p), ReplyDue(p))
      <3> HIDE DEF b
      <3> QED BY <1>4, <2>1, <2>5, <2>6, DueTypes, ShapeSends
    <2>9. InSequence(rx[p], Append(U, b), p, sent[p] + 1)
      BY <1>4, <2>1, <2>6, SequenceGrows
    <2>10. x \o Append(C, b) = Append(U, b)
      <3> HIDE DEF b
      <3> QED BY <1>4, <2>1, <2>3
    <2> QED BY <1>2, <1>3, <2>2, <2>4, <2>7, <2>8, <2>9, <2>10, PortPrimed
  <1> QED BY <1>5, <1>6, <1>7, <1>8 DEF CarefulInv

(* The 8042 moves a byte: the stream stays as it is. *)
LEMMA FillCareful ==
    ASSUME Careful, CarefulInv, TypeInv', NEW p \in Port, Fill(p)
    PROVE  CarefulInv'
  <1>1. TypeOK /\ TypeOK'
    BY DEF CarefulInv, TypeInv
  <1> DEFINE b == Head(wire[p])
  <1>2. /\ out = << >> /\ out' = <<b>> /\ wire[p] # << >> /\ wire'[p] = Tail(wire[p])
        /\ \A q \in Port : q # p => wire'[q] = wire[q]
    BY <1>1 DEF Fill, TypeOK
  <1>3. UNCHANGED <<held, index, pc, isr, isrPort, isrByte, pollPort, local, got, done, rx, sent>>
    BY DEF Fill, handler, requests, polling
  <1>4. wire[p] \in Seq(Byte)
    BY <1>1 DEF TypeOK
  <1>5. /\ b = wire[p][1] /\ b \in Byte /\ Tail(wire[p]) \in Seq(Byte)
        /\ Len(wire[p]) \in Nat \ {0} /\ Len(Tail(wire[p])) = Len(wire[p]) - 1
        /\ \A i \in 1 .. Len(Tail(wire[p])) : Tail(wire[p])[i] = wire[p][i + 1]
    BY <1>2, <1>4
  <1>6. b.port = p
    <2>1. 1 \in 1 .. Len(wire[p])
      BY <1>5
    <2> QED BY <1>5, <2>1 DEF CarefulInv, OwnWire
  <1>7. wire[p] = <<b>> \o Tail(wire[p])
    BY <1>2, <1>4
  <1> HIDE DEF b
  <1>8. out' # << >> /\ out'[1] = b
    BY <1>2
  <1>9. OneReader'
    BY <1>2, <1>3 DEF CarefulInv, OneReader, More, command, request, port, IsData
  <1>10. Replies' /\ RequestsSucceed'
    BY <1>3, HistoryKept DEF CarefulInv
  <1>11. OwnWire'
    <2> SUFFICES ASSUME NEW q \in Port, NEW i \in 1 .. Len(wire'[q]) PROVE wire'[q][i].port = q
      BY DEF OwnWire
    <2>1. CASE q # p
      BY <1>2, <2>1 DEF CarefulInv, OwnWire
    <2>2. CASE q = p
      <3>0. i \in 1 .. Len(Tail(wire[p]))
        BY <1>2, <2>2
      <3>1. i + 1 \in 1 .. Len(wire[p])
        BY <1>5, <3>0
      <3>2. wire'[q][i] = wire[p][i + 1]
        BY <1>2, <1>5, <2>2, <3>0
      <3> QED BY <2>2, <3>1, <3>2 DEF CarefulInv, OwnWire
    <2> QED BY <2>1, <2>2
  <1>12. ASSUME NEW q \in Port
         PROVE  Incoming(q, held, out, wire[q]) = Incoming(q, held, out', wire'[q])
    <2>1. held \in Seq(Byte) /\ Len(held) <= 1 /\ wire[q] \in Seq(Byte) /\ wire'[q] \in Seq(Byte)
      BY <1>1 DEF TypeOK
    <2>2. CASE q = p
      <3>1. Incoming(q, held, <<b>>, wire'[q]) = Incoming(q, held, << >>, <<b>> \o wire'[q])
        BY <1>5, <1>6, <2>1, <2>2, IncomingFill
      <3> QED BY <1>2, <1>7, <2>2, <3>1
    <2>3. CASE q # p
      <3>1. Incoming(q, held, <<b>>, wire[q]) = Incoming(q, held, << >>, wire[q])
        BY <1>5, <1>6, <2>1, <2>3, IncomingFill
      <3> QED BY <1>2, <2>3, <3>1
    <2> QED BY <2>2, <2>3
  <1>13. ASSUME NEW q \in Port PROVE PortInv(q)'
    <2>1. Coming(q)' = Coming(q)
      BY <1>1, <1>3, <1>12, Buffers
    <2>2. Unread(q)' = Unread(q)
      BY <1>1, <1>3, <2>1, Buffers
    <2> QED BY <1>3, <2>1, <2>2, DueKept, PortKept DEF CarefulInv
  <1> QED BY <1>9, <1>10, <1>11, <1>13 DEF CarefulInv

(* The interrupt handler starts only while processRequest does not read,   *)
(* and what it saw in the buffer is what it reads.                         *)
LEMMA StatusCareful ==
    ASSUME Careful, CarefulInv, TypeInv', TakeInterrupt \/ InterruptStatus
    PROVE  CarefulInv'
  <1>1. TypeOK /\ TypeOK' /\ Working
    BY DEF CarefulInv, TypeInv
  <1>2. /\ UNCHANGED <<held, out, wire, index, pc, isrByte, pollPort, local, got, done, rx, sent>>
        /\ isr # "dispatch" /\ isr' # "dispatch"
        /\ isr' # "idle" => pc \in {"free", "begin"}
        /\ isr' = "data" => out # << >> /\ out[1].port = isrPort'
    <2>1. CASE TakeInterrupt
      <3>1. ignore = 0 => pc \in {"free", "begin"}
        BY <1>1 DEF Working
      <3>2. ignore = 0 \/ ignore > 0
        BY <1>1 DEF TypeOK
      <3> QED BY <2>1, <3>1, <3>2 DEF TakeInterrupt, requests, polling
    <2>2. CASE InterruptStatus
      BY <2>2 DEF InterruptStatus, CarefulInv, OneReader, device, requests, polling
    <2> QED BY <2>1, <2>2
  <1>3. OneReader'
    BY <1>2 DEF CarefulInv, OneReader, More, command, request, port, IsData
  <1>4. Replies' /\ RequestsSucceed' /\ OwnWire'
    BY <1>2, HistoryKept DEF CarefulInv, OwnWire
  <1>5. ASSUME NEW p \in Port PROVE PortInv(p)'
    <2>1. Coming(p)' = Coming(p)
      BY <1>2, IncomingKept
    <2>2. Unread(p)' = Unread(p)
      BY <1>1, <1>2, <2>1, UnreadIsComing
    <2> QED BY <1>2, <2>1, <2>2, DueKept, PortKept DEF CarefulInv
  <1> QED BY <1>3, <1>4, <1>5 DEF CarefulInv

(* The byte in the buffer is read by whoever. *)
LEMMA ByteRead ==
    ASSUME TypeOK, TypeOK', out # << >>, ReadDataPort, NEW p \in Port
    PROVE  /\ out[1] \in Byte /\ DataPort = out[1] /\ out' = << >> /\ wire' = wire
           /\ wire[p] \in Seq(Byte)
           /\ p # out[1].port /\ held' = held => Coming(p)' = Coming(p)
           /\ p # out[1].port /\ (held' = << >> \/ held'[1].port # p)
                /\ (held = << >> \/ held[1].port # p) => Coming(p)' = Coming(p)
           /\ p = out[1].port /\ (held = << >> \/ held[1].port # p) =>
                 Coming(p) = Cons(out[1], wire[p])
           /\ p = out[1].port /\ held # << >> /\ held[1].port = p =>
                 Coming(p) = Cons(held[1], Cons(out[1], wire[p]))
           /\ held' = << >> \/ held'[1].port # p => Coming(p)' = wire[p]
           /\ held' = <<out[1]>> /\ p = out[1].port => Coming(p)' = Cons(out[1], wire[p])
  <1>1. out[1] \in Byte /\ DataPort = out[1] /\ out' = << >> /\ wire' = wire
    BY FirstByte DEF TypeOK, DataPort, ReadDataPort
  <1> DEFINE h == held
             k == held'
             o == out
             w == wire[p]
             e == << >>
  <1>2. /\ Coming(p) = Incoming(p, h, o, w) /\ Coming(p)' = Incoming(p, k, e, w)
        /\ h \in Seq(Byte) /\ Len(h) <= 1 /\ k \in Seq(Byte) /\ Len(k) <= 1
        /\ o \in Seq(Byte) /\ Len(o) <= 1 /\ w \in Seq(Byte) /\ e \in Seq(Byte) /\ Len(e) <= 1
    BY <1>1, Buffers
  <1>3. e = << >> \/ e[1].port # p
    OBVIOUS
  <1> HIDE DEF h, k, o, w, e
  <1>4. /\ o # << >> /\ o[1].port # p /\ (h = << >> \/ h[1].port # p) => Incoming(p, h, o, w) = w
        /\ o # << >> /\ o[1].port # p /\ h # << >> /\ h[1].port = p =>
              Incoming(p, h, o, w) = Cons(h[1], w)
        /\ o # << >> /\ o[1].port = p /\ (h = << >> \/ h[1].port # p) =>
              Incoming(p, h, o, w) = Cons(o[1], w)
        /\ o # << >> /\ o[1].port = p /\ h # << >> /\ h[1].port = p =>
              Incoming(p, h, o, w) = Cons(h[1], Cons(o[1], w))
    BY <1>2, IncomingIs
  <1>5. /\ k = << >> \/ k[1].port # p => Incoming(p, k, e, w) = w
        /\ k # << >> /\ k[1].port = p => Incoming(p, k, e, w) = Cons(k[1], w)
    BY <1>2, <1>3, IncomingIs
  <1>6. k = <<o[1]>> => k # << >> /\ k[1] = o[1]
    OBVIOUS
  <1>7. /\ p # o[1].port /\ k = h => Incoming(p, k, e, w) = Incoming(p, h, o, w)
        /\ p # o[1].port /\ (k = << >> \/ k[1].port # p)
                  /\ (h = << >> \/ h[1].port # p) => Incoming(p, k, e, w) = Incoming(p, h, o, w)
    BY <1>4, <1>5 DEF o
  <1>8. k = <<o[1]>> /\ p = o[1].port => Incoming(p, k, e, w) = Cons(o[1], w)
    BY <1>5, <1>6
  <1> QED BY <1>1, <1>2, <1>4, <1>5, <1>7, <1>8 DEF h, k, o, w

(* The interrupt handler reads while nothing is due: the byte is data. *)
LEMMA DataCareful ==
    ASSUME Careful, CarefulInv, TypeInv', InterruptData
    PROVE  CarefulInv'
  <1>1. TypeOK /\ TypeOK'
    BY DEF CarefulInv, TypeInv
  <1> DEFINE b == out[1]
  <1>2. /\ pc \in {"free", "begin"} /\ held = << >> /\ out # << >> /\ b.port = isrPort
        /\ isr = "data" /\ isr' = "dispatch" /\ ReadDataPort /\ isrByte' = DataPort
    BY DEF CarefulInv, OneReader, InterruptData
  <1>3. UNCHANGED <<held, index, pc, isrPort, pollPort, local, got, done, rx, sent, wire>>
    BY DEF InterruptData, ReadDataPort, requests, polling
  <1>4. PICK q \in Port : q = isrPort
    BY <1>1 DEF TypeOK
  <1>5. b \in Byte /\ isrByte' = b /\ out' = << >>
    BY <1>1, <1>2, <1>4, ByteRead
  <1> DEFINE w == wire[q]
  <1>6. /\ Coming(q) = <<b>> \o w /\ Coming(q)' = w /\ w \in Seq(Byte)
    BY <1>1, <1>2, <1>3, <1>4, ByteRead DEF Cons
  <1>7. /\ AckDue(q) = 0 /\ ReplyDue(q) = 0
        /\ AckDue(q)' = 0 /\ ReplyDue(q)' = 0
    BY <1>2, <1>3, NoneDue
  <1>8. PortInv(q)
    BY <1>4 DEF CarefulInv
  <1> HIDE DEF b, w
  <1>9. Shape(<<b>> \o w, 0, 0)
    BY <1>6, <1>7, <1>8 DEF PortInv
  <1>10. IsData(b) /\ Shape(w, 0, 0)
    BY <1>5, <1>6, <1>9, ShapeIdle
  <1>11. OneReader'
    <2>1. IsData(isrByte)' <=> IsData(isrByte')
      BY DEF IsData
    <2>2. IsData(isrByte)' /\ isrByte'.port = isrPort'
      BY <1>2, <1>3, <1>5, <1>10, <2>1 DEF b
    <2> QED BY <1>2, <1>3, <2>2 DEF CarefulInv, OneReader
  <1>12. Replies' /\ RequestsSucceed' /\ OwnWire'
    BY <1>3, HistoryKept DEF CarefulInv, OwnWire
  <1>13. PortInv(q)'
    <2>1. Unread(q) = <<b>> \o w
      BY <1>1, <1>2, <1>4, <1>6, UnreadIsComing
    <2>2. isrByte'.port = q
      BY <1>2, <1>4, <1>5 DEF b
    <2>3. Unread(q)' = <<b>> \o w
      BY <1>1, <1>2, <1>4, <1>5, <1>6, <2>2, UnreadIsComing
    <2>4. InSequence(rx[q], <<b>> \o w, q, sent[q])
      BY <1>8, <2>1 DEF PortInv
    <2> QED BY <1>3, <1>6, <1>7, <1>10, <2>3, <2>4, PortPrimed
  <1>14. ASSUME NEW p \in Port, p # q PROVE PortInv(p)'
    <2>1. Coming(p)' = Coming(p)
      BY <1>1, <1>2, <1>3, <1>4, <1>14, ByteRead DEF b
    <2>2. isrByte'.port # p
      BY <1>2, <1>4, <1>5, <1>14 DEF b
    <2>3. Unread(p)' = Unread(p)
      BY <1>1, <1>2, <2>1, <2>2, UnreadIsComing
    <2> QED BY <1>3, <2>1, <2>3, DueKept, PortKept DEF CarefulInv
  <1> QED BY <1>11, <1>12, <1>13, <1>14 DEF CarefulInv

(* The driver gets the byte that the interrupt handler read. *)
LEMMA DispatchCareful ==
    ASSUME Careful, CarefulInv, TypeInv', InterruptDispatch
    PROVE  CarefulInv'
  <1>1. TypeOK /\ TypeOK'
    BY DEF CarefulInv, TypeInv
  <1>2. /\ isr = "dispatch" /\ isr' = "status" /\ isrByte.port = isrPort /\ IsData(isrByte)
        /\ pc \in {"free", "begin"} /\ isrPort \in Port /\ isrByte \in Byte
    BY <1>1 DEF InterruptDispatch, CarefulInv, OneReader, TypeOK
  <1>0. PICK q \in Port : q = isrPort
    BY <1>2
  <1>3. UNCHANGED <<held, out, index, pc, isrPort, isrByte, pollPort, local, got, done, sent, wire>>
    BY DEF InterruptDispatch, device, requests, polling
  <1>4. /\ rx'[q] = Append(rx[q], isrByte)
        /\ \A p \in Port : p # q => rx'[p] = rx[p]
    BY <1>0, <1>1, <1>2 DEF InterruptDispatch, Dispatch, TypeOK
  <1>5. OneReader'
    BY <1>2, <1>3 DEF CarefulInv, OneReader, More, command, request, port, IsData
  <1>6. Replies' /\ RequestsSucceed' /\ OwnWire'
    BY <1>3, HistoryKept DEF CarefulInv, OwnWire
  <1>7. ASSUME NEW p \in Port
        PROVE  /\ Coming(p)' = Coming(p) /\ AckDue(p)' = AckDue(p) /\ ReplyDue(p)' = ReplyDue(p)
               /\ Unread(p)' = Coming(p)
               /\ p # q => Unread(p) = Coming(p)
               /\ PortInv(p)
    <2>1. Coming(p)' = Coming(p)
      BY <1>3, IncomingKept
    <2>2. Unread(p)' = Coming(p)
      BY <1>1, <1>2, <2>1, UnreadIsComing
    <2>3. p # q => Unread(p) = Coming(p)
      BY <1>0, <1>1, <1>2, UnreadIsComing
    <2> QED BY <1>3, <2>1, <2>2, <2>3, DueKept DEF CarefulInv
  <1>8. ASSUME NEW p \in Port, p # q PROVE PortInv(p)'
    <2>1. Unread(p)' = Unread(p) /\ Coming(p)' = Coming(p)
      BY <1>7, <1>8
    <2> QED BY <1>3, <1>4, <1>7, <1>8, <2>1, PortKept
  <1>9. PortInv(q)'
    <2> DEFINE C == Coming(q)
               r == rx[q]
               n == sent[q]
    <2>1. C \in Seq(Byte) /\ r \in Seq(Byte) /\ n \in Nat
      BY <1>1, <1>2, Buffers
    <2>2. Unread(q) = <<isrByte>> \o C
      BY <1>0, <1>1, <1>2, UnreadIsComing
    <2>3. InSequence(r, <<isrByte>> \o C, q, n)
      BY <1>2, <1>7, <2>2 DEF PortInv
    <2>4. Shape(C, AckDue(q), ReplyDue(q))
      BY <1>2, <1>7 DEF PortInv
    <2> HIDE DEF C, r, n
    <2>5. InSequence(Append(r, isrByte), C, q, n)
      BY <1>2, <2>1, <2>3, SequenceReceived
    <2>6. /\ Coming(q)' = C /\ Unread(q)' = C
          /\ AckDue(q)' = AckDue(q) /\ ReplyDue(q)' = ReplyDue(q)
      BY <1>2, <1>7 DEF C
    <2>7. rx'[q] = Append(r, isrByte) /\ sent'[q] = n
      BY <1>3, <1>4 DEF r, n
    <2>8. Shape(Coming(q)', AckDue(q)', ReplyDue(q)')
      BY <2>4, <2>6
    <2>9. InSequence(rx'[q], Unread(q)', q, sent'[q])
      BY <2>5, <2>6, <2>7
    <2> QED BY <2>8, <2>9, PortPrimed
  <1> QED BY <1>5, <1>6, <1>8, <1>9 DEF CarefulInv

(* Submitting and taking requests: no byte moves and nothing is due. *)
LEMMA QueueCareful ==
    ASSUME Careful, CarefulInv, TypeInv',
           \/ \E r \in Request : \/ SubmitRequest(r) \/ SubmitRequestAndBlock(r)
                                 \/ SubmitRequestAndBlockGated(r)
           \/ ProcessRequestQueue
    PROVE  CarefulInv'
  <1>1. TypeOK /\ TypeOK'
    BY DEF CarefulInv, TypeInv
  <1>2. UNCHANGED <<held, out, wire, index, isr, isrPort, isrByte, pollPort, got, done, rx, sent>>
    BY DEF SubmitRequest, SubmitRequestAndBlock, SubmitRequestAndBlockGated,
           ProcessRequestQueue, device, handler, polling
  <1>3. UNCHANGED <<local, pc>> \/ (pc = "free" /\ pc' = "begin")
    BY DEF SubmitRequest, SubmitRequestAndBlock, SubmitRequestAndBlockGated,
           ProcessRequestQueue, device, handler, polling
  <1>4. OneReader'
    <2>1. CASE UNCHANGED <<local, pc>>
      BY <1>2, <2>1, ReadersKept DEF CarefulInv
    <2>2. CASE pc = "free" /\ pc' = "begin"
      BY <1>2, <2>2 DEF CarefulInv, OneReader, IsData
    <2> QED BY <1>3, <2>1, <2>2
  <1>5. Replies' /\ RequestsSucceed' /\ OwnWire'
    BY <1>2, HistoryKept DEF CarefulInv, OwnWire
  <1>6. ASSUME NEW p \in Port PROVE PortInv(p)'
    <2>1. Coming(p)' = Coming(p) /\ Unread(p)' = Unread(p)
      BY <1>2, IncomingKept
    <2>2. AckDue(p)' = AckDue(p) /\ ReplyDue(p)' = ReplyDue(p)
      BY <1>2, <1>3, DueKept, NoneDue
    <2> QED BY <1>2, <2>1, <2>2, PortKept DEF CarefulInv
  <1> QED BY <1>4, <1>5, <1>6 DEF CarefulInv

(* The request that processRequest has in hand, and the interrupt handler  *)
(* that does not run meanwhile *)
LEMMA AtWork ==
    ASSUME Careful, CarefulInv, TypeInv', Running, UNCHANGED handler, pc # "free"
    PROVE  /\ isr = "idle" /\ isr' = "idle"
           /\ local # << >> /\ request \in Request /\ port \in Port
           /\ index \in Nat /\ index >= 1 /\ Len(Program[request]) \in Nat
           /\ More <=> index \in 1 .. Len(Program[request])
           /\ \A p \in Port : Unread(p) = Coming(p) /\ Unread(p)' = Coming(p)'
  <1>1. TypeOK /\ TypeOK' /\ Working
    BY DEF CarefulInv, TypeInv
  <1>2. isr = "idle" /\ isr' = "idle"
    BY DEF Careful, Running, handler
  <1>3. local # << >> /\ request \in Request /\ port \in Port
    BY <1>1, InHand DEF Working
  <1>4. index \in Nat /\ index >= 1
    BY <1>1 DEF Working, CarefulInv, OneReader
  <1>5. Len(Program[request]) \in Nat
    BY <1>3 DEF Careful
  <1>6. More <=> index \in 1 .. Len(Program[request])
    BY <1>4, <1>5 DEF More
  <1>7. \A p \in Port : Unread(p) = Coming(p) /\ Unread(p)' = Coming(p)'
    BY <1>1, <1>2, UnreadIsComing
  <1> QED BY <1>2, <1>3, <1>4, <1>5, <1>6, <1>7

(* What is due while processRequest goes on with the same request *)
LEMMA DueStep ==
    ASSUME NEW p, local # << >>, local' = local
    PROVE  /\ AckDue(p) = IF p = port /\ AckDueAt(request, index, pc) THEN 1 ELSE 0
           /\ ReplyDue(p) = IF p = port /\ ReplyDueAt(request, index, pc) THEN 1 ELSE 0
           /\ AckDue(p)' = IF p = port /\ AckDueAt(request, index', pc') THEN 1 ELSE 0
           /\ ReplyDue(p)' = IF p = port /\ ReplyDueAt(request, index', pc') THEN 1 ELSE 0
  BY DueIs DEF port, request

(* No byte moves, and what is due stays the same. *)
LEMMA StillCareful ==
    ASSUME Careful, CarefulInv, TypeInv', Running, UNCHANGED handler, pc # "free",
           UNCHANGED <<held, out, wire, rx, sent>>,
           \A p \in Port : AckDue(p)' = AckDue(p) /\ ReplyDue(p)' = ReplyDue(p)
    PROVE  OwnWire' /\ \A p \in Port : PortInv(p)'
  <1>1. OwnWire'
    BY DEF CarefulInv, OwnWire
  <1>2. ASSUME NEW p \in Port PROVE PortInv(p)'
    <2>1. Coming(p)' = Coming(p)
      BY IncomingKept
    <2>2. Unread(p)' = Unread(p)
      BY <2>1, AtWork
    <2> QED BY <2>1, <2>2, PortKept DEF CarefulInv
  <1> QED BY <1>1, <1>2

(* A request begins: its first command has nothing due. *)
LEMMA BeginCareful ==
    ASSUME Careful, CarefulInv, TypeInv', Begin
    PROVE  CarefulInv'
  <1>1. /\ Running /\ UNCHANGED handler /\ pc = "begin" /\ pc' = "command"
        /\ index' = 1 /\ held' = << >> /\ got' = << >>
        /\ UNCHANGED <<out, wire, rx, sent, local, done, isr, isrPort, isrByte, pollPort>>
    BY DEF Begin, device, handler, requests
  <1>2. held = << >>
    BY <1>1 DEF CarefulInv, OneReader
  <1>3. isr = "idle" /\ isr' = "idle" /\ local # << >> /\ request \in Request
    BY <1>1, AtWork
  <1>4. ASSUME NEW p \in Port PROVE AckDue(p)' = AckDue(p) /\ ReplyDue(p)' = ReplyDue(p)
    <2>1. ~ AckDueAt(request, index', pc') /\ ~ ReplyDueAt(request, index', pc')
      BY <1>1, <1>3, NothingDue
    <2> QED BY <1>1, <1>3, <2>1, DueStep, NoneDue
  <1>5. OwnWire' /\ \A p \in Port : PortInv(p)'
    BY <1>1, <1>2, <1>4, StillCareful
  <1>6. OneReader'
    BY <1>1, <1>3 DEF OneReader
  <1>7. Replies' /\ RequestsSucceed'
    <2>1. Len(<< >>) = 0
      OBVIOUS
    <2> QED BY <1>1, <2>1 DEF CarefulInv, Replies, RequestsSucceed
  <1> QED BY <1>5, <1>6, <1>7 DEF CarefulInv

(* A comparison or a read begins to poll; a pause passes. *)
LEMMA PlainCareful ==
    ASSUME Careful, CarefulInv, TypeInv', ReadCommand \/ SleepCommand \/ PollStatus
    PROVE  CarefulInv'
  <1>1. /\ Running /\ UNCHANGED handler /\ pc \in {"command", "status"} /\ pc # "free"
        /\ UNCHANGED <<held, got, out, wire, rx, sent, local, done, isr, isrPort, isrByte>>
    BY DEF ReadCommand, SleepCommand, PollStatus, device, handler, requests
  <1>2. /\ isr = "idle" /\ isr' = "idle" /\ local # << >> /\ request \in Request
        /\ index \in Nat /\ index >= 1
        /\ More <=> index \in 1 .. Len(Program[request])
    BY <1>1, AtWork
  <1>3. More
    BY DEF ReadCommand, SleepCommand, PollStatus, CarefulInv, OneReader
  <1> DEFINE op == Program[request][index].op
  <1>4. \/ /\ op \in {"compare", "read"} /\ pc = "command" /\ pc' = "status" /\ index' = index
           /\ UNCHANGED pollPort
        \/ op = "sleep" /\ pc = "command" /\ pc' = "command" /\ index' = index + 1
           /\ UNCHANGED pollPort
        \/ /\ op \in {"send", "compare", "read"} /\ pc = "status" /\ pc' = "data"
           /\ index' = index /\ out # << >> /\ pollPort' = out[1].port
    BY DEF ReadCommand, SleepCommand, PollStatus, CarefulInv, OneReader, command
  <1>5. /\ AckDueAt(request, index', pc') <=> AckDueAt(request, index, pc)
        /\ ReplyDueAt(request, index', pc') <=> ReplyDueAt(request, index, pc)
    <2>1. CASE index' = index /\ (op = "send" => pc # "command" /\ pc' # "command")
      BY <1>4, <2>1 DEF AckDueAt, ReplyDueAt
    <2>2. CASE op = "sleep" /\ pc = "command" /\ pc' = "command" /\ index' = index + 1
      <3>1. /\ ~ AckDueAt(request, index, pc) /\ ~ ReplyDueAt(request, index, pc)
            /\ ~ AckDueAt(request, index + 1, "command")
            /\ ~ ReplyDueAt(request, index + 1, "command")
        BY <1>2, <1>3, <2>2, DueAt
      <3> QED BY <2>2, <3>1
    <2> QED BY <1>4, <2>1, <2>2
  <1>6. ASSUME NEW p \in Port PROVE AckDue(p)' = AckDue(p) /\ ReplyDue(p)' = ReplyDue(p)
    BY <1>1, <1>2, <1>5, DueStep
  <1>7. OwnWire' /\ \A p \in Port : PortInv(p)'
    BY <1>1, <1>6, StillCareful
  <1>8. Replies' /\ RequestsSucceed'
    BY <1>1, HistoryKept DEF CarefulInv
  <1>9. OneReader'
    <2>1. command' = Program[request][index'] /\ (More' <=> index' <= Len(Program[request]))
          /\ port' = port
      BY <1>1 DEF command, More, request, port
    <2>2. CASE index' = index
      <3>1. /\ command' = command /\ More' /\ port' = port /\ command.op = op
            /\ command'.op = op
        BY <1>3, <2>1, <2>2 DEF command, More
      <3>2. pc' \in {"status", "data"} /\ op \in {"send", "compare", "read"}
        BY <1>4, <2>2, <1>2
      <3>3. held # << >> => op # "read" /\ held[1].port = port /\ IsData(held[1])
        BY <3>1 DEF CarefulInv, OneReader
      <3>4. pc' = "data" => out' # << >> /\ out'[1].port = pollPort'
        BY <1>1, <1>4, <1>2, <2>2
      <3> HIDE DEF op
      <3> QED BY <1>1, <1>2, <2>2, <3>1, <3>2, <3>3, <3>4 DEF OneReader, IsData
    <2>3. CASE op = "sleep" /\ pc = "command" /\ pc' = "command" /\ index' = index + 1
      <3>1. held = << >> /\ held' = << >>
        BY <1>1, <2>3 DEF CarefulInv, OneReader
      <3>2. index' >= 1
        BY <1>2, <2>3
      <3> QED BY <1>2, <2>3, <3>1, <3>2 DEF OneReader
    <2> QED BY <1>4, <2>2, <2>3
  <1> QED BY <1>7, <1>8, <1>9 DEF CarefulInv

(* The request ends with its last command done. *)
LEMMA EndCareful ==
    ASSUME Careful, CarefulInv, TypeInv', End
    PROVE  CarefulInv'
  <1>1. /\ Running /\ UNCHANGED handler /\ pc = "command" /\ pc # "free" /\ ~ More
        /\ pc' \in {"free", "begin"}
        /\ UNCHANGED <<held, got, index, pollPort, out, wire, rx, sent, isr, isrPort, isrByte>>
        /\ done' = Append(done, [request |-> request, ok |-> TRUE, reads |-> got])
    <2>1. pc # "end"
      BY DEF CarefulInv, OneReader
    <2>2. pc = "command" /\ ~ More
      BY <2>1 DEF End
    <2>3. pc' \in {"free", "begin"}
      BY DEF End
    <2>4. ~ More = TRUE
      BY <2>2
    <2> QED BY <2>2, <2>3, <2>4 DEF End, device, handler
  <1>2. /\ isr = "idle" /\ isr' = "idle" /\ local # << >> /\ request \in Request
        /\ index \notin 1 .. Len(Program[request])
    BY <1>1, AtWork
  <1>3. ASSUME NEW p \in Port PROVE AckDue(p)' = AckDue(p) /\ ReplyDue(p)' = ReplyDue(p)
    <2>1. ~ AckDueAt(request, index, pc) /\ ~ ReplyDueAt(request, index, pc)
      BY <1>2, NothingDue
    <2>2. AckDue(p) = 0 /\ ReplyDue(p) = 0
      BY <2>1, DueIs
    <2>3. AckDue(p)' = 0 /\ ReplyDue(p)' = 0
      BY <1>1, NoneDue
    <2> QED BY <2>2, <2>3
  <1>4. OwnWire' /\ \A p \in Port : PortInv(p)'
    BY <1>1, <1>3, StillCareful
  <1>5. held = << >>
    BY <1>1 DEF CarefulInv, OneReader
  <1>6. OneReader'
    BY <1>1, <1>2, <1>5 DEF OneReader, CarefulInv
  <1>7. Replies'
    BY <1>1 DEF Replies, CarefulInv
  <1>8. RequestsSucceed'
    <2> DEFINE e == [request |-> request, ok |-> TRUE, reads |-> got]
    <2>1. e.ok = TRUE /\ e.reads = got
      OBVIOUS
    <2>2. done \in Seq(Entry) /\ got \in Seq(Byte)
      BY DEF CarefulInv, TypeInv, TypeOK, Entry
    <2>3. e \in Entry
      BY <1>2, <2>2 DEF Entry
    <2> HIDE DEF e
    <2>4. /\ Len(done) \in Nat /\ DOMAIN done = 1 .. Len(done)
          /\ DOMAIN done' = 1 .. Len(done) + 1
          /\ done'[Len(done) + 1] = e
          /\ \A i \in 1 .. Len(done) : done'[i] = done[i]
      BY <1>1, <2>2, <2>3, AppendProperties, LenProperties DEF e
    <2>5. DOMAIN got = 1 .. Len(got)
      BY <2>2
    <2>6. \A j \in DOMAIN e.reads : e.reads[j].kind = "reply"
      BY <2>1, <2>5 DEF CarefulInv, Replies
    <2> SUFFICES ASSUME NEW i \in DOMAIN done'
                 PROVE  /\ done'[i].ok
                        /\ \A j \in DOMAIN done'[i].reads : done'[i].reads[j].kind = "reply"
      BY DEF RequestsSucceed
    <2>7. CASE i = Len(done) + 1
      BY <2>1, <2>4, <2>6, <2>7
    <2>8. CASE i \in DOMAIN done
      BY <2>4, <2>8 DEF CarefulInv, RequestsSucceed
    <2> QED BY <2>4, <2>7, <2>8
  <1> QED BY <1>4, <1>6, <1>7, <1>8 DEF CarefulInv

(* The answers of a device that acknowledges *)
LEMMA Acknowledged ==
    ASSUME Careful, NEW p \in Port, NEW says, NEW response \in Responses(p, says),
           NEW w \in Seq(Byte)
    PROVE  w \o response = IF says = "info"
                           THEN Append(Append(w, Answer(p, "ack")), Answer(p, "reply"))
                           ELSE Append(w, Answer(p, "ack"))
  <1>1. response = IF says = "info" THEN <<Answer(p, "ack"), Answer(p, "reply")>>
                                    ELSE <<Answer(p, "ack")>>
    BY DEF Careful, Responses
  <1>2. Answer(p, "ack") \in Byte /\ Answer(p, "reply") \in Byte
    BY AnswerByte
  <1> DEFINE a == Answer(p, "ack")
             c == Answer(p, "reply")
  <1> HIDE DEF a, c
  <1>3. a \in Byte /\ c \in Byte
    BY <1>2 DEF a, c
  <1>4. w \o <<a>> = Append(w, a)
    BY <1>3
  <1>5. w \o <<a, c>> = Append(Append(w, a), c)
    BY <1>3
  <1> QED BY <1>1, <1>4, <1>5 DEF a, c

(* A command is written: nothing was due, and its answers join the stream. *)
LEMMA WriteCareful ==
    ASSUME Careful, CarefulInv, TypeInv', WriteCommand
    PROVE  CarefulInv'
  <1>1. /\ Running /\ UNCHANGED handler /\ pc = "command" /\ pc # "free" /\ More
        /\ UNCHANGED <<held, got, out, rx, sent, local, done, isr, isrPort, isrByte, pollPort>>
    BY DEF WriteCommand, Tell, handler, requests
  <1>2. /\ isr = "idle" /\ isr' = "idle" /\ local # << >> /\ request \in Request /\ port \in Port
        /\ index \in Nat /\ index >= 1
        /\ More <=> index \in 1 .. Len(Program[request])
        /\ \A p \in Port : Unread(p) = Coming(p) /\ Unread(p)' = Coming(p)'
    BY <1>1, AtWork
  <1>3. TypeOK /\ TypeOK'
    BY DEF CarefulInv, TypeInv
  <1>4. held = << >> /\ held' = << >>
    BY <1>1 DEF CarefulInv, OneReader
  <1> DEFINE op == Program[request][index].op
             says == Program[request][index].says
  <1>5. \/ op = "send" /\ pc' = "status" /\ index' = index
        \/ op = "write" /\ pc' = "command" /\ index' = index + 1
    BY <1>1 DEF WriteCommand, command
  <1>6. /\ ~ AckDueAt(request, index, pc) /\ ~ ReplyDueAt(request, index, pc)
        /\ AckDueAt(request, index', pc')
        /\ ReplyDueAt(request, index', pc') <=> says = "info"
    <2>1. index \in 1 .. Len(Program[request])
      BY <1>1, <1>2
    <2>2. CASE op = "send" /\ pc' = "status" /\ index' = index
      BY <1>1, <1>2, <2>1, <2>2, DueAt
    <2>3. CASE op = "write" /\ pc' = "command" /\ index' = index + 1
      <3>1. /\ ~ AckDueAt(request, index, pc) /\ ~ ReplyDueAt(request, index, pc)
            /\ AckDueAt(request, index + 1, "command")
            /\ ReplyDueAt(request, index + 1, "command") <=> says = "info"
        BY <1>1, <1>2, <2>1, <2>3, DueAt
      <3> QED BY <2>3, <3>1
    <2> QED BY <1>5, <2>2, <2>3
  <1>7. PICK q \in Port : q = port
    BY <1>2
  <1>8. PICK response \in Responses(q, says) : wire' = [wire EXCEPT ![q] = @ \o response]
    BY <1>7 DEF WriteCommand, Tell, command
  <1> DEFINE a == Answer(q, "ack")
             c == Answer(q, "reply")
             info == says = "info"
  <1>9. /\ a \in Byte /\ c \in Byte /\ a.kind = "ack" /\ c.kind = "reply"
        /\ a.port = q /\ c.port = q /\ ~ IsData(a) /\ ~ IsData(c)
    BY AnswerByte DEF Answer, IsData
  <1>10. /\ wire[q] \in Seq(Byte)
         /\ wire'[q] = IF info THEN Append(Append(wire[q], a), c) ELSE Append(wire[q], a)
         /\ \A p \in Port : p # q => wire'[p] = wire[p]
    <2>1. wire \in [Port -> Seq(Byte)]
      BY <1>3 DEF TypeOK
    <2>2. wire'[q] = wire[q] \o response
      BY <1>8, <2>1
    <2>3. wire[q] \in Seq(Byte)
      BY <2>1
    <2>4. wire[q] \o response = IF info THEN Append(Append(wire[q], a), c) ELSE Append(wire[q], a)
      BY <2>3, Acknowledged
    <2> QED BY <1>8, <2>1, <2>2, <2>3, <2>4
  <1> HIDE DEF a, c, info
  <1>11. OwnWire'
    <2> DEFINE w == wire[q]
               v == Append(w, a)
               u == Append(v, c)
    <2>1. /\ w \in Seq(Byte) /\ v \in Seq(Byte) /\ Len(v) = Len(w) + 1 /\ v[Len(w) + 1] = a
          /\ Len(w) \in Nat /\ \A i \in 1 .. Len(w) : v[i] = w[i]
      BY <1>9, <1>10
    <2>2. \A i \in 1 .. Len(w) : w[i].port = q
      BY DEF CarefulInv, OwnWire
    <2> HIDE DEF v, w
    <2>3. /\ Len(u) = Len(v) + 1 /\ u[Len(v) + 1] = c /\ \A i \in 1 .. Len(v) : u[i] = v[i]
      BY <1>9, <2>1
    <2> HIDE DEF u
    <2>4. \A i \in 1 .. Len(v) : v[i].port = q
      <3> TAKE i \in 1 .. Len(v)
      <3>1. i = Len(w) + 1 \/ i \in 1 .. Len(w)
        BY <2>1
      <3> QED BY <1>9, <2>1, <2>2, <3>1
    <2>5. \A i \in 1 .. Len(u) : u[i].port = q
      <3> TAKE i \in 1 .. Len(u)
      <3>1. i = Len(v) + 1 \/ i \in 1 .. Len(v)
        BY <2>1, <2>3
      <3> QED BY <1>9, <2>3, <2>4, <3>1
    <2>6. wire'[q] = u \/ wire'[q] = v
      BY <1>10 DEF u, v, w
    <2> SUFFICES ASSUME NEW p \in Port, NEW i \in 1 .. Len(wire'[p]) PROVE wire'[p][i].port = p
      BY DEF OwnWire
    <2>7. CASE p # q
      BY <1>10, <2>7 DEF CarefulInv, OwnWire
    <2>8. CASE p = q
      BY <2>4, <2>5, <2>6, <2>8
    <2> QED BY <2>7, <2>8
  <1>12. ASSUME NEW p \in Port, p # q PROVE PortInv(p)'
    <2>1. /\ Coming(p) = Incoming(p, held, out, wire[p])
          /\ Coming(p)' = Incoming(p, held', out', wire'[p])
      BY <1>3, Buffers
    <2>2. Coming(p)' = Coming(p)
      BY <1>1, <1>10, <1>12, <2>1
    <2>3. Unread(p)' = Unread(p)
      BY <1>2, <2>2
    <2>4. AckDue(p)' = AckDue(p) /\ ReplyDue(p)' = ReplyDue(p)
      BY <1>1, <1>2, <1>7, <1>12, DueStep
    <2> QED BY <1>1, <2>2, <2>3, <2>4, PortKept DEF CarefulInv
  <1>13. PortInv(q)'
    <2> DEFINE C == Coming(q)
               r == rx[q]
               n == sent[q]
    <2>1. AckDue(q) = 0 /\ ReplyDue(q) = 0 /\ AckDue(q)' = 1 /\ ReplyDue(q)' = IF info THEN 1 ELSE 0
      BY <1>1, <1>2, <1>6, <1>7, DueStep DEF info
    <2>2. Shape(C, 0, 0) /\ InSequence(r, C, q, n)
      BY <1>2, <2>1 DEF CarefulInv, PortInv
    <2>3. C \in Seq(Byte) /\ r \in Seq(Byte) /\ n \in Nat
      BY <1>3, Buffers
    <2>4. Coming(q)' = IF info THEN Append(Append(C, a), c) ELSE Append(C, a)
      <3> DEFINE w == wire[q]
      <3>1. /\ C = Incoming(q, held, out, w) /\ Coming(q)' = Incoming(q, held, out, wire'[q])
            /\ held \in Seq(Byte) /\ Len(held) <= 1 /\ out \in Seq(Byte) /\ Len(out) <= 1
            /\ w \in Seq(Byte)
        BY <1>1, <1>3, Buffers
      <3> HIDE DEF w
      <3>2. Incoming(q, held, out, Append(w, a)) = Append(Incoming(q, held, out, w), a)
        BY <1>9, <3>1, IncomingAppend
      <3> DEFINE v == Append(w, a)
      <3>3. v \in Seq(Byte)
        BY <1>9, <3>1
      <3> HIDE DEF v
      <3>4. Incoming(q, held, out, Append(v, c)) = Append(Incoming(q, held, out, v), c)
        BY <1>9, <3>1, <3>3, IncomingAppend
      <3> QED BY <1>10, <3>1, <3>2, <3>4 DEF v, w
    <2> HIDE DEF C, r, n
    <2>5. Shape(Append(C, a), 1, 0) /\ Shape(Append(Append(C, a), c), 1, 1)
      BY <1>9, <2>2, <2>3, ShapeTold
    <2>6. InSequence(r, Append(C, a), q, n)
      BY <1>9, <2>2, <2>3, SequenceAnswered
    <2>7. InSequence(r, Append(Append(C, a), c), q, n)
      <3> DEFINE D == Append(C, a)
      <3>1. D \in Seq(Byte) /\ InSequence(r, D, q, n)
        BY <1>9, <2>3, <2>6
      <3> HIDE DEF D
      <3>2. InSequence(r, Append(D, c), q, n)
        BY <1>9, <2>3, <3>1, SequenceAnswered
      <3> QED BY <3>2 DEF D
    <2>8. Shape(Coming(q)', AckDue(q)', ReplyDue(q)')
      BY <2>1, <2>4, <2>5
    <2>9. Unread(q)' = Coming(q)' /\ rx'[q] = r /\ sent'[q] = n
      BY <1>1, <1>2 DEF r, n
    <2>10. InSequence(rx'[q], Unread(q)', q, sent'[q])
      BY <2>4, <2>6, <2>7, <2>9
    <2> QED BY <2>8, <2>10, PortPrimed
  <1>14. Replies' /\ RequestsSucceed'
    BY <1>1, HistoryKept DEF CarefulInv
  <1>15. OneReader'
    <2>1. command' = Program[request][index'] /\ (More' <=> index' <= Len(Program[request]))
      BY <1>1 DEF command, More, request
    <2>2. pc' = "status" => More' /\ command'.op = "send"
      BY <1>1, <1>5, <2>1 DEF More
    <2>3. index' >= 1
      BY <1>2, <1>5
    <2>4. pc' \in {"status", "command"}
      BY <1>5
    <2> HIDE DEF op, says
    <2> QED BY <1>2, <1>4, <2>2, <2>3, <2>4 DEF OneReader
  <1> QED BY <1>11, <1>12, <1>13, <1>14, <1>15 DEF CarefulInv

(* Careful drivers flush nothing, and no polled read times out. *)
LEMMA NeverLate ==
    ASSUME Careful, CarefulInv, TypeInv', FlushCommand \/ PollTimeout
    PROVE  FALSE
  <1>1. TypeOK /\ TypeOK'
    BY DEF CarefulInv, TypeInv
  <1>2. Running /\ UNCHANGED handler /\ pc # "free" /\ More /\ local' = local
    BY DEF FlushCommand, PollTimeout, CarefulInv, OneReader, requests
  <1>3. /\ local # << >> /\ request \in Request /\ port \in Port
        /\ index \in 1 .. Len(Program[request])
    BY <1>2, AtWork
  <1>4. CASE FlushCommand
    BY <1>3, <1>4, CarefulCommand DEF FlushCommand, command
  <1>5. CASE PollTimeout
    <2>1. /\ pc = "status" /\ command.op \in {"send", "compare", "read"}
          /\ out = << >> /\ wire[port] = << >>
      BY <1>3, <1>5 DEF PollTimeout, Careful, CarefulInv, OneReader
    <2> DEFINE C == Coming(port)
               e == << >>
    <2>2. /\ C = Incoming(port, held, e, e) /\ C \in Seq(Byte)
          /\ held \in Seq(Byte) /\ Len(held) <= 1
          /\ e \in Seq(Byte) /\ Len(e) <= 1
      BY <1>1, <1>3, <2>1, Buffers
    <2>3. e = << >> \/ e[1].port # port
      OBVIOUS
    <2>4. held # << >> => held[1].port = port /\ IsData(held[1]) /\ command.op # "read"
      BY DEF CarefulInv, OneReader
    <2>5. /\ command.op = "read" => ReplyDue(port) = 1 /\ AckDue(port) = 0
          /\ command.op # "read" => AckDue(port) = 1
      <3>1. /\ command.op = "read" =>
                  ~ AckDueAt(request, index, pc) /\ ReplyDueAt(request, index, pc)
            /\ command.op # "read" => AckDueAt(request, index, pc)
        BY <1>3, <2>1, DueAt DEF command
      <3> QED BY <1>2, <1>3, <3>1, DueStep
    <2>6. Shape(C, AckDue(port), ReplyDue(port))
      BY <1>3 DEF CarefulInv, PortInv
    <2>7. /\ C # << >>
          /\ command.op # "read" => \E i \in 1 .. Len(C) : C[i].kind = "ack"
      <3> HIDE DEF C
      <3> QED BY <2>2, <2>5, <2>6, DueTypes, ShapeDue
    <2>8. CASE held = << >>
      <3> HIDE DEF C, e
      <3>0. held = << >> \/ held[1].port # port
        BY <2>8
      <3>1. C = e
        BY <2>2, <2>3, <3>0, IncomingIs
      <3> QED BY <2>7, <3>1 DEF e
    <2>9. CASE held # << >>
      <3> HIDE DEF C, e
      <3>1. C = Cons(held[1], e)
        BY <2>2, <2>3, <2>4, <2>9, IncomingIs
      <3>2. held[1] \in Byte
        BY <2>2, <2>9, FirstByte
      <3>3. Len(C) = 1 /\ C[1] = held[1]
        BY <3>1, <3>2 DEF Cons, e
      <3> QED BY <2>4, <2>7, <2>9, <3>3 DEF IsData
    <2> QED BY <2>8, <2>9
  <1> QED BY <1>4, <1>5

(* A polled read finds a byte. *)
LEMMA Polled ==
    ASSUME Careful, CarefulInv, TypeInv', PollData
    PROVE  /\ TypeOK /\ TypeOK'
           /\ Running /\ UNCHANGED handler /\ pc = "data" /\ pc # "free"
           /\ out # << >> /\ out[1] \in Byte /\ out[1].port = pollPort /\ DataPort = out[1]
           /\ out' = << >> /\ wire' = wire /\ ReadDataPort
           /\ UNCHANGED <<sent, done, pollPort, local, isr, isrPort, isrByte>>
           /\ pollPort \in Port /\ port \in Port /\ local # << >> /\ request \in Request
           /\ isr = "idle" /\ isr' = "idle"
           /\ \A p \in Port : Unread(p) = Coming(p) /\ Unread(p)' = Coming(p)'
           /\ index \in 1 .. Len(Program[request]) /\ More
           /\ command.op \in {"send", "compare", "read"}
           /\ held # << >> => /\ command.op # "read" /\ held[1].port = port
                              /\ IsData(held[1]) /\ held[1] \in Byte
  <1>1. TypeOK /\ TypeOK'
    BY DEF CarefulInv, TypeInv
  <1>2. /\ Running /\ UNCHANGED handler /\ pc = "data" /\ pc # "free" /\ ReadDataPort
        /\ out # << >> /\ out[1].port = pollPort
        /\ UNCHANGED <<sent, done, pollPort, local, isr, isrPort, isrByte, wire>> /\ out' = << >>
    BY DEF PollData, CarefulInv, OneReader, handler, requests, ReadDataPort
  <1>3. out[1] \in Byte /\ DataPort = out[1] /\ pollPort \in Port
    BY <1>1, <1>2, FirstByte DEF TypeOK, DataPort
  <1>4. /\ isr = "idle" /\ isr' = "idle" /\ local # << >> /\ request \in Request /\ port \in Port
        /\ More <=> index \in 1 .. Len(Program[request])
        /\ \A p \in Port : Unread(p) = Coming(p) /\ Unread(p)' = Coming(p)'
    BY <1>2, AtWork
  <1>5. /\ More /\ command.op \in {"send", "compare", "read"}
        /\ held # << >> => command.op # "read" /\ held[1].port = port /\ IsData(held[1])
    BY <1>2 DEF CarefulInv, OneReader
  <1>6. held # << >> => held[1] \in Byte
    BY <1>1, FirstByte DEF TypeOK
  <1> QED BY <1>1, <1>2, <1>3, <1>4, <1>5, <1>6

(* What is due while it polls, if it goes on polling, and once it has read *)
LEMMA PolledDue ==
    ASSUME Careful, CarefulInv, TypeInv', PollData, NEW p \in Port
    PROVE  /\ p # port => /\ AckDue(p) = 0 /\ ReplyDue(p) = 0
                          /\ AckDue(p)' = 0 /\ ReplyDue(p)' = 0
           /\ index' = index /\ pc' = "status" =>
                AckDue(p)' = AckDue(p) /\ ReplyDue(p)' = ReplyDue(p)
           /\ p = port /\ command.op = "read" => AckDue(p) = 0 /\ ReplyDue(p) = 1
           /\ p = port /\ command.op # "read" => AckDue(p) = 1
           /\ p = port /\ index' = index + 1 /\ pc' = "command" =>
                /\ AckDue(p)' = 0
                /\ ReplyDue(p)' = IF command.op = "read" THEN 0 ELSE ReplyDue(p)
  <1>1. /\ local # << >> /\ local' = local /\ request \in Request /\ pc = "data"
        /\ index \in 1 .. Len(Program[request])
        /\ command.op \in {"send", "compare", "read"}
        /\ command.op = Program[request][index].op
    BY Polled DEF command
  <1>2. /\ AckDue(p) = IF p = port /\ AckDueAt(request, index, pc) THEN 1 ELSE 0
        /\ ReplyDue(p) = IF p = port /\ ReplyDueAt(request, index, pc) THEN 1 ELSE 0
        /\ AckDue(p)' = IF p = port /\ AckDueAt(request, index', pc') THEN 1 ELSE 0
        /\ ReplyDue(p)' = IF p = port /\ ReplyDueAt(request, index', pc') THEN 1 ELSE 0
    BY <1>1, DueStep
  <1>3. /\ command.op = "read" => ~ AckDueAt(request, index, pc) /\ ReplyDueAt(request, index, pc)
        /\ command.op # "read" => AckDueAt(request, index, pc)
        /\ ~ AckDueAt(request, index + 1, "command")
        /\ ReplyDueAt(request, index + 1, "command") <=>
              command.op # "read" /\ ReplyDueAt(request, index, pc)
    <2>1. /\ command.op = "read" =>
                /\ ~ AckDueAt(request, index, pc) /\ ReplyDueAt(request, index, pc)
                /\ ~ AckDueAt(request, index + 1, "command")
                /\ ~ ReplyDueAt(request, index + 1, "command")
          /\ command.op # "read" =>
                /\ AckDueAt(request, index, pc) /\ ~ AckDueAt(request, index + 1, "command")
                /\ ReplyDueAt(request, index + 1, "command") <=> ReplyDueAt(request, index, pc)
      BY <1>1, DueAt
    <2> QED BY <2>1
  <1>4. /\ AckDueAt(request, index, "status") <=> AckDueAt(request, index, pc)
        /\ ReplyDueAt(request, index, "status") <=> ReplyDueAt(request, index, pc)
    BY <1>1 DEF AckDueAt, ReplyDueAt
  <1>5. index' = index /\ pc' = "status" =>
                  AckDue(p)' = AckDue(p) /\ ReplyDue(p)' = ReplyDue(p)
    BY <1>2, <1>4
  <1>6. p = port /\ index' = index + 1 /\ pc' = "command" =>
                  /\ AckDue(p)' = 0
                  /\ ReplyDue(p)' = IF command.op = "read" THEN 0 ELSE ReplyDue(p)
    BY <1>2, <1>3
  <1> QED BY <1>2, <1>3, <1>5, <1>6

(* It goes on polling with the same command. *)
LEMMA PollsOn ==
    ASSUME Careful, CarefulInv, TypeInv', PollData,
           pc' = "status", UNCHANGED <<index, got>>,
           held' = held \/ (held' = <<out[1]>> /\ Unexpected(out[1])
                              /\ out[1].port = port /\ IsData(out[1]))
    PROVE  OneReader' /\ OwnWire' /\ Replies' /\ RequestsSucceed'
  <1>1. Replies' /\ RequestsSucceed' /\ OwnWire'
    BY Polled, HistoryKept DEF CarefulInv, OwnWire
  <1>2. /\ command' = command /\ (More' <=> More) /\ port' = port
    BY Polled DEF command, More, request, port
  <1>3. held' # << >> => /\ command'.op # "read" /\ held'[1].port = port' /\ IsData(held'[1])
    <2>1. CASE held' = held
      BY <1>2, <2>1, Polled
    <2>2. CASE held' = <<out[1]>> /\ Unexpected(out[1]) /\ out[1].port = port /\ IsData(out[1])
      <3>1. held'[1] = out[1] /\ command.op # "read"
        BY <2>2 DEF Unexpected
      <3> QED BY <1>2, <2>2, <3>1
    <2> QED BY <2>1, <2>2
  <1>4. index' >= 1 /\ isr' = "idle" /\ More' /\ command'.op \in {"send", "compare", "read"}
    BY <1>2, Polled
  <1> QED BY <1>1, <1>3, <1>4 DEF OneReader, IsData

(* A byte of another port goes to its driver at once. *)
LEMMA OtherPortCareful ==
    ASSUME Careful, CarefulInv, TypeInv', PollData,
           pollPort # port, Dispatch(pollPort, out[1]), pc' = "status",
           UNCHANGED <<index, held, got>>
    PROVE  CarefulInv'
  <1>1. OneReader' /\ OwnWire' /\ Replies' /\ RequestsSucceed'
    BY PollsOn
  <1>2. PICK q \in Port : q = pollPort
    BY Polled
  <1> DEFINE b == out[1]
             w == wire[q]
             r == rx[q]
             n == sent[q]
  <1>3. /\ TypeOK /\ TypeOK' /\ b \in Byte /\ b.port = q /\ q # port
        /\ held # << >> => held[1].port # q
    BY <1>2, Polled
  <1>4. rx'[q] = Append(r, b) /\ \A p \in Port : p # q => rx'[p] = rx[p]
    BY <1>2, <1>3 DEF Dispatch, TypeOK
  <1>5. w \in Seq(Byte) /\ r \in Seq(Byte) /\ n \in Nat
    BY <1>3, Buffers
  <1>6. PortInv(q)'
    <2>1. Coming(q) = Cons(b, w) /\ Coming(q)' = w
      BY <1>2, <1>3, Polled, ByteRead
    <2>2. Unread(q) = Cons(b, w) /\ Unread(q)' = w
      BY <2>1, Polled
    <2>3. AckDue(q) = 0 /\ ReplyDue(q) = 0 /\ AckDue(q)' = 0 /\ ReplyDue(q)' = 0
      BY <1>3, PolledDue
    <2>4. PortInv(q)
      BY DEF CarefulInv
    <2> HIDE DEF b, w, r, n
    <2>5. Shape(<<b>> \o w, 0, 0) /\ InSequence(r, <<b>> \o w, q, n)
      BY <2>1, <2>2, <2>3, <2>4 DEF PortInv, Cons, r, n
    <2>6. IsData(b) /\ Shape(w, 0, 0)
      BY <1>3, <1>5, <2>5, ShapeIdle
    <2>7. InSequence(Append(r, b), w, q, n)
      BY <1>3, <1>5, <2>5, <2>6, SequenceReceived
    <2>8. sent'[q] = n
      BY Polled DEF n
    <2>9. Shape(Coming(q)', AckDue(q)', ReplyDue(q)')
      BY <2>1, <2>3, <2>6
    <2>10. InSequence(rx'[q], Unread(q)', q, sent'[q])
      BY <1>4, <2>2, <2>7, <2>8
    <2> QED BY <2>9, <2>10, PortPrimed
  <1>7. ASSUME NEW p \in Port, p # q PROVE PortInv(p)'
    <2>1. Coming(p)' = Coming(p)
      BY <1>3, <1>7, Polled, ByteRead
    <2>2. Unread(p)' = Unread(p)
      BY <2>1, Polled
    <2>3. AckDue(p)' = AckDue(p) /\ ReplyDue(p)' = ReplyDue(p)
      BY PolledDue
    <2>4. sent'[p] = sent[p] /\ rx'[p] = rx[p]
      BY <1>4, <1>7, Polled
    <2> QED BY <2>1, <2>2, <2>3, <2>4, PortKept DEF CarefulInv
  <1> QED BY <1>1, <1>6, <1>7 DEF CarefulInv

(* The first byte before the acknowledge is put aside. *)
LEMMA PutAsideCareful ==
    ASSUME Careful, CarefulInv, TypeInv', PollData,
           pollPort = port, Unexpected(out[1]), held = << >>, PutAside(out[1])
    PROVE  CarefulInv'
  <1>1. PICK q \in Port : q = port
    BY Polled
  <1> DEFINE b == out[1]
             w == wire[q]
  <1>2. /\ TypeOK /\ TypeOK' /\ b \in Byte /\ b.port = q /\ command.op # "read" /\ b.kind # "ack"
        /\ held' = <<b>> /\ pc' = "status" /\ UNCHANGED <<index, got, rx>>
    BY <1>1, Polled DEF Unexpected, PutAside
  <1>3. Coming(q) = Cons(b, w) /\ Coming(q)' = Cons(b, w) /\ w \in Seq(Byte)
    BY <1>2, Polled, ByteRead
  <1>4. IsData(b)
    <2>1. AckDue(q) = 1 /\ ReplyDue(q) \in 0 .. 1
      BY <1>1, <1>2, PolledDue, DueTypes
    <2>2. Shape(Coming(q), AckDue(q), ReplyDue(q))
      BY DEF CarefulInv, PortInv
    <2> HIDE DEF b, w
    <2>3. Shape(<<b>> \o w, 1, ReplyDue(q))
      BY <1>3, <2>1, <2>2 DEF Cons
    <2> QED BY <1>2, <1>3, <2>1, <2>3, ShapeAside
  <1>5. OneReader' /\ OwnWire' /\ Replies' /\ RequestsSucceed'
    BY <1>1, <1>2, <1>4, PollsOn
  <1>6. ASSUME NEW p \in Port PROVE PortInv(p)'
    <2>1. Coming(p)' = Coming(p)
      <3>1. CASE p = q
        BY <1>3, <3>1
      <3>2. CASE p # q
        <4>1. p # out[1].port /\ held'[1].port # p
          BY <1>2, <3>2
        <4> QED BY <1>2, <4>1, Polled, ByteRead
      <3> QED BY <3>1, <3>2
    <2>2. Unread(p)' = Unread(p)
      BY <2>1, Polled
    <2>3. AckDue(p)' = AckDue(p) /\ ReplyDue(p)' = ReplyDue(p)
      BY <1>2, PolledDue
    <2>4. sent'[p] = sent[p] /\ rx'[p] = rx[p]
      BY <1>2, Polled
    <2> QED BY <2>1, <2>2, <2>3, <2>4, PortKept DEF CarefulInv
  <1> QED BY <1>5, <1>6 DEF CarefulInv

(* No second byte comes before the acknowledge. *)
LEMMA NoSecondByte ==
    ASSUME Careful, CarefulInv, TypeInv', PollData,
           pollPort = port, Unexpected(out[1]), held # << >>
    PROVE  FALSE
  <1>1. PICK q \in Port : q = port
    BY Polled
  <1> DEFINE b == out[1]
             h == held[1]
             w == wire[q]
  <1>2. /\ TypeOK /\ TypeOK' /\ b \in Byte /\ b.port = q /\ command.op # "read" /\ b.kind # "ack"
        /\ h \in Byte /\ h.port = q /\ IsData(h)
    BY <1>1, Polled DEF Unexpected
  <1>3. Coming(q) = Cons(h, Cons(b, w)) /\ w \in Seq(Byte)
    BY <1>2, Polled, ByteRead
  <1>4. AckDue(q) = 1 /\ ReplyDue(q) \in 0 .. 1
    BY <1>1, <1>2, PolledDue, DueTypes
  <1>5. Shape(Coming(q), AckDue(q), ReplyDue(q))
    BY DEF CarefulInv, PortInv
  <1> DEFINE v == <<b>> \o w
  <1> HIDE DEF b, h, w
  <1>6. v \in Seq(Byte) /\ v[1] = b
    BY <1>2, <1>3, ConsIs
  <1>7. Shape(<<h>> \o v, 1, ReplyDue(q))
    BY <1>3, <1>4, <1>5 DEF Cons
  <1> HIDE DEF v
  <1>8. v[1].kind = "ack"
    BY <1>2, <1>4, <1>6, <1>7, ShapeAside DEF IsData
  <1> QED BY <1>2, <1>6, <1>8

(* The answer that is due arrives; a byte put aside goes to the driver. *)
LEMMA AnswerCareful ==
    ASSUME Careful, CarefulInv, TypeInv', PollData,
           pollPort = port, ~ Unexpected(out[1]),
           IF held = << >> THEN UNCHANGED rx ELSE Dispatch(port, held[1]),
           Return(out[1])
    PROVE  CarefulInv'
  <1>1. PICK q \in Port : q = port
    BY Polled
  <1> DEFINE b == out[1]
             h == held[1]
             w == wire[q]
             r == rx[q]
             n == sent[q]
             R == ReplyDue(q)
  <1>2. /\ TypeOK /\ TypeOK' /\ b \in Byte /\ b.port = q /\ held' = << >>
        /\ command.op = "read" \/ b.kind = "ack"
        /\ held # << >> => h \in Byte /\ h.port = q /\ IsData(h) /\ command.op # "read"
    BY <1>1, Polled DEF Unexpected, Return
  <1>3. w \in Seq(Byte) /\ r \in Seq(Byte) /\ n \in Nat /\ R \in 0 .. 1
    BY <1>2, Buffers, DueTypes
  <1>4. pc' = "command" /\ index' = index + 1
    BY <1>2 DEF Return
  <1>5. /\ held = << >> => Coming(q) = Cons(b, w)
        /\ held # << >> => Coming(q) = Cons(h, Cons(b, w))
        /\ Coming(q)' = w
    BY <1>2, Polled, ByteRead
  <1>6. /\ command.op = "read" => /\ AckDue(q) = 0 /\ R = 1
                                  /\ AckDue(q)' = 0 /\ ReplyDue(q)' = 0
        /\ command.op # "read" => AckDue(q) = 1 /\ AckDue(q)' = 0 /\ ReplyDue(q)' = R
    BY <1>1, <1>4, PolledDue
  <1>7. Shape(Coming(q), AckDue(q), R) /\ InSequence(r, Coming(q), q, n)
    BY Polled DEF CarefulInv, PortInv
  <1>8. /\ held = << >> => rx' = rx
        /\ held # << >> => rx'[q] = Append(r, h)
        /\ \A p \in Port : p # q => rx'[p] = rx[p]
    BY <1>1, <1>2 DEF Dispatch, TypeOK
  <1>9. Unread(q)' = w /\ sent'[q] = n
    BY <1>5, Polled
  <1> HIDE DEF b, h, w, r, n, R
  <1>10. /\ Shape(w, 0, ReplyDue(q)') /\ InSequence(rx'[q], w, q, n)
         /\ command.op = "read" => b.kind = "reply"
    <2>1. CASE held = << >>
      <3>1. /\ Shape(<<b>> \o w, AckDue(q), R) /\ InSequence(r, <<b>> \o w, q, n)
        BY <1>5, <1>7, <2>1 DEF Cons
      <3>2. CASE command.op = "read"
        <4>1. b.kind = "reply" /\ Shape(w, 0, 0)
          BY <1>2, <1>3, <1>6, <3>1, <3>2, ShapeReply
        <4> QED BY <1>2, <1>3, <1>6, <1>8, <2>1, <3>1, <3>2, <4>1, SequenceDrops DEF IsData, r
      <3>3. CASE command.op # "read"
        <4>1. Shape(w, 0, R)
          BY <1>2, <1>3, <1>6, <3>1, <3>3, ShapeAck
        <4> QED BY <1>2, <1>3, <1>6, <1>8, <2>1, <3>1, <3>3, <4>1, SequenceDrops DEF IsData, r
      <3> QED BY <3>2, <3>3
    <2>2. CASE held # << >>
      <3> DEFINE v == <<b>> \o w
      <3>1. v \in Seq(Byte)
        BY <1>2, <1>3
      <3>2. Shape(<<h>> \o v, 1, R) /\ InSequence(r, <<h>> \o v, q, n)
        BY <1>2, <1>5, <1>6, <1>7, <2>2 DEF Cons
      <3> HIDE DEF v
      <3>3. Shape(v, 1, R)
        BY <1>2, <1>3, <2>2, <3>1, <3>2, ShapeAside DEF IsData
      <3>4. InSequence(Append(r, h), v, q, n)
        BY <1>2, <1>3, <2>2, <3>1, <3>2, SequenceReceived
      <3>5. Shape(w, 0, R)
        BY <1>2, <1>3, <2>2, <3>3, ShapeAck DEF v
      <3> DEFINE s == Append(r, h)
      <3>6. s \in Seq(Byte)
        BY <1>2, <1>3, <2>2
      <3> HIDE DEF s
      <3>7. InSequence(s, <<b>> \o w, q, n)
        BY <3>4 DEF s, v
      <3>8. InSequence(s, w, q, n)
        BY <1>2, <1>3, <2>2, <3>6, <3>7, SequenceDrops DEF IsData
      <3> QED BY <1>2, <1>6, <1>8, <2>2, <3>5, <3>8 DEF s
    <2> QED BY <2>1, <2>2
  <1>11. PortInv(q)'
    <2>1. Shape(Coming(q)', AckDue(q)', ReplyDue(q)')
      BY <1>5, <1>6, <1>10
    <2>2. InSequence(rx'[q], Unread(q)', q, sent'[q])
      BY <1>9, <1>10
    <2> QED BY <2>1, <2>2, PortPrimed
  <1>12. ASSUME NEW p \in Port, p # q PROVE PortInv(p)'
    <2>1. p # out[1].port /\ (held = << >> \/ held[1].port # p)
      BY <1>2, <1>12 DEF b, h
    <2>2. Coming(p)' = Coming(p)
      BY <1>2, <2>1, Polled, ByteRead
    <2>3. Unread(p)' = Unread(p)
      BY <2>2, Polled
    <2>4. AckDue(p)' = AckDue(p) /\ ReplyDue(p)' = ReplyDue(p)
      BY <1>1, <1>12, PolledDue
    <2>5. sent'[p] = sent[p] /\ rx'[p] = rx[p]
      BY <1>8, <1>12, Polled
    <2> QED BY <2>2, <2>3, <2>4, <2>5, PortKept DEF CarefulInv
  <1>13. OwnWire' /\ RequestsSucceed'
    BY Polled DEF CarefulInv, OwnWire, RequestsSucceed
  <1>14. OneReader'
    <2>1. isr' = "idle" /\ index' >= 1
      BY <1>4, Polled
    <2> QED BY <1>2, <1>4, <2>1 DEF OneReader
  <1>15. Replies'
    <2>1. CASE command.op # "read"
      BY <2>1 DEF Return, CarefulInv, Replies
    <2>2. CASE command.op = "read"
      <3>1. got' = Append(got, b) /\ got \in Seq(Byte)
        BY <1>2, <2>2 DEF Return, TypeOK, b
      <3>2. /\ Len(got') = Len(got) + 1 /\ got'[Len(got) + 1] = b /\ Len(got) \in Nat
            /\ \A j \in 1 .. Len(got) : got'[j] = got[j]
        BY <1>2, <3>1
      <3>3. \A j \in 1 .. Len(got) + 1 : j = Len(got) + 1 \/ j \in 1 .. Len(got)
        BY <3>2
      <3> QED BY <1>10, <2>2, <3>2, <3>3 DEF CarefulInv, Replies
    <2> QED BY <2>1, <2>2
  <1> QED BY <1>11, <1>12, <1>13, <1>14, <1>15 DEF CarefulInv

(* All that a polled read may find *)
LEMMA PollCareful ==
    ASSUME Careful, CarefulInv, TypeInv', PollData
    PROVE  CarefulInv'
  <1>1. DataPort = out[1]
    BY Polled
  <1>2. \/ /\ pollPort # port /\ Dispatch(pollPort, out[1]) /\ pc' = "status"
           /\ UNCHANGED <<index, held, got>>
        \/ pollPort = port /\ Unexpected(out[1]) /\ held = << >> /\ PutAside(out[1])
        \/ pollPort = port /\ Unexpected(out[1]) /\ held # << >>
        \/ /\ pollPort = port /\ ~ Unexpected(out[1]) /\ Return(out[1])
           /\ IF held = << >> THEN UNCHANGED rx ELSE Dispatch(port, held[1])
    BY <1>1, Zenon DEF PollData
  <1> QED BY <1>2, OtherPortCareful, PutAsideCareful, NoSecondByte, AnswerCareful

(* Every step keeps the invariant. *)
LEMMA StepCareful ==
    ASSUME Careful, CarefulInv, [Next]_vars
    PROVE  CarefulInv'
  <1>1. TypeInv'
    BY StepTypes DEF CarefulInv
  <1>2. CASE UNCHANGED vars
    <2>1. UNCHANGED <<held, out, wire, index, pc, isr, isrPort, isrByte, pollPort, local, got,
                      done, rx, sent>>
      BY <1>2 DEF vars, device, handler, requests, polling
    <2>2. OneReader' /\ OwnWire' /\ Replies' /\ RequestsSucceed'
      BY <2>1, ReadersKept, HistoryKept DEF CarefulInv, OwnWire
    <2>3. ASSUME NEW p \in Port PROVE PortInv(p)'
      BY <2>1, IncomingKept, DueKept, PortKept DEF CarefulInv
    <2> QED BY <1>1, <2>2, <2>3 DEF CarefulInv
  <1>3. CASE Next
    BY <1>1, <1>3, SendsCareful, FillCareful, StatusCareful, DataCareful, DispatchCareful,
       QueueCareful, BeginCareful, WriteCareful, PlainCareful, NeverLate, PollCareful, EndCareful
       DEF Next, InterruptHandler, WorkLoop, ProcessRequest
  <1> QED BY <1>2, <1>3

(* "Everyone wins" when everyone is careful: with prompt answers, one      *)
(* byte of data at most before an answer, the interrupt handler run to its *)
(* end and programs that compare every acknowledge and read every reply,   *)
(* the drivers get all data of their devices, once and in order, whatever  *)
(* is polled in between (processRequest, interruptOccurred).               *)
THEOREM EveryoneWinsIfCareful == Careful => (Spec => []EveryoneWins)
  <1> SUFFICES ASSUME Careful PROVE Spec => []EveryoneWins
    OBVIOUS
  <1>1. CarefulInv /\ [Next]_vars => CarefulInv'
    BY StepCareful
  <1>2. CarefulInv => EveryoneWins
    BY DEF CarefulInv, PortInv, EveryoneWins
  <1> QED BY <1>1, <1>2, InitCareful, PTL DEF Spec

(* Under the same conditions every request runs to its end, and its plain  *)
(* reads return replies, never data (processRequest).                      *)
THEOREM RequestsSucceedIfCareful == Careful => (Spec => []RequestsSucceed)
  <1> SUFFICES ASSUME Careful PROVE Spec => []RequestsSucceed
    OBVIOUS
  <1>1. CarefulInv /\ [Next]_vars => CarefulInv'
    BY StepCareful
  <1>2. CarefulInv => RequestsSucceed
    BY DEF CarefulInv
  <1> QED BY <1>1, <1>2, InitCareful, PTL DEF Spec
=============================================================================
