---------------------------- MODULE PS2Requests -----------------------------
(***************************************************************************)
(* ApplePS2Controller: the request queue, processRequest with its polled   *)
(* reads, and the interrupt handler, all competing for the one output      *)
(* buffer of the 8042.  The machine is awake (_hardwareOffline is false).  *)
(*                                                                         *)
(* The 8042 and the devices are external: a device sends data when it      *)
(* likes, answers what it is sent, and the controller passes on one byte   *)
(* at a time, raising an interrupt when the buffer becomes full and not    *)
(* again before it was read.                                               *)
(***************************************************************************)
EXTENDS Naturals, Sequences, SequencesExt

CONSTANTS
    Port,           \* kPS2KbdIdx, kPS2AuxIdx, ...
    Request,        \* the requests that drivers submit, each once
    Blocking,       \* those submitted with submitRequestAndBlock
    PortOf,         \* request->port
    Program,        \* request->commands: a sequence of Command
    Answers,        \* how a device may answer a command: "ack", "nak", "none"
    OneCpu,         \* the interrupt handler preempts the work loop's CPU
    Prompt,         \* answers arrive before the polling loop times out
    Window,         \* data bytes a device may send ahead of an answer
    DataBound       \* bound on the data bytes a device sends

(* "send" is kPS2C_SendCommandAndCompareAck; "write", "compare" and "read" *)
(* are kPS2C_WriteDataPort, kPS2C_ReadDataPortAndCompare (with 0xFA) and   *)
(* kPS2C_ReadDataPort.  What is said matters to the device only.           *)
Command == [op : {"send", "write"}, says : {"disable", "enable", "info", "other"}]
           \cup [op : {"compare", "read", "flush", "sleep"}]

ASSUME RequestAssumption ==
    /\ Port # {} /\ Blocking \subseteq Request
    /\ PortOf \in [Request -> Port]
    /\ DOMAIN Program = Request
    /\ \A r \in Request : Range(Program[r]) \subseteq Command
    /\ Answers \subseteq {"ack", "nak", "none"}
    /\ OneCpu \in BOOLEAN /\ Prompt \in BOOLEAN
    /\ Window \in Nat /\ DataBound \in Nat

VARIABLES
    \* the devices and the 8042
    streaming,      \* the ports whose device reports data by itself
    wire,           \* per port, the bytes on their way to the output buffer
    out,            \* the output buffer: empty or one byte
    latch,          \* what the data port returns once the buffer is empty
    irq,            \* an interrupt was raised and not yet taken
    sent,           \* history: the number of data bytes sent per port
    \* the controller
    queue,          \* _requestQueue
    waiting,        \* blocking requests whose thread waits for the gate
    local,          \* localQueue, and behind it the request that blocked
    ignore,         \* _ignoreInterrupts
    pc,             \* where processRequest is
    index,          \* its command (from 1)
    held,           \* firstByte if firstByteHeld
    pollPort,       \* port of the status that the polling loop read
    isr,            \* where the interrupt handler is
    isrPort,        \* port of the status it read
    isrByte,        \* the byte it read
    \* what the drivers see
    rx,             \* per port, the bytes passed to interruptAction
    got,            \* history: the bytes returned to the current request's reads
    submitted,      \* history: the requests in the order of their submission
    done            \* history: the requests completed, and how

device == <<streaming, wire, out, latch, irq, sent>>
handler == <<isr, isrPort, isrByte>>
requests == <<queue, waiting, local, submitted, done>>
polling == <<pc, index, held, pollPort, got>>
vars == <<device, handler, requests, polling, ignore, rx>>

Byte == [port : Port, kind : {"data", "ack", "nak", "reply", "none"}, n : 0 .. DataBound]
NoByte(p) == [port |-> p, kind |-> "none", n |-> 0]
Answer(p, kind) == [port |-> p, kind |-> kind, n |-> 0]

Init ==
    /\ streaming = Port
    /\ wire = [p \in Port |-> << >>]
    /\ out = << >> /\ irq = FALSE
    /\ latch = NoByte(CHOOSE p \in Port : TRUE)
    /\ sent = [p \in Port |-> 0]
    /\ queue = << >> /\ waiting = {} /\ local = << >>
    /\ ignore = 0
    /\ pc = "free" /\ index = 1 /\ held = << >>
    /\ pollPort = latch.port
    /\ isr = "idle" /\ isrPort = latch.port /\ isrByte = latch
    /\ rx = [p \in Port |-> << >>]
    /\ got = << >> /\ submitted = << >> /\ done = << >>

-----------------------------------------------------------------------------
(***************************************************************************)
(* The devices and the 8042                                                *)
(***************************************************************************)

IsData(b) == b.kind = "data"
Datum(p, n) == [port |-> p, kind |-> "data", n |-> n]

(* The bytes of port p that no driver has yet, a byte put aside included *)
Of(p, buffer) == IF buffer # << >> /\ buffer[1].port = p THEN buffer ELSE << >>
Coming(p) == (Of(p, held) \o Of(p, out)) \o wire[p]

(* Window data bytes would come before the answer to a command sent now. *)
WindowFull(p) ==
    LET n == Len(Coming(p))
    IN  n >= Window /\ \A i \in n + 1 - Window .. n : IsData(Coming(p)[i])

DeviceSends(p) ==
    /\ p \in streaming
    /\ sent[p] < DataBound
    /\ ~WindowFull(p)
    /\ sent' = [sent EXCEPT ![p] = @ + 1]
    /\ wire' = [wire EXCEPT ![p] = Append(@, Datum(p, sent'[p]))]
    /\ UNCHANGED <<streaming, out, latch, irq, handler, requests, polling, ignore, rx>>

(* The next byte enters the output buffer, and the interrupt line rises. *)
Fill(p) ==
    /\ out = << >> /\ wire[p] # << >>
    /\ out' = <<Head(wire[p])>>
    /\ wire' = [wire EXCEPT ![p] = Tail(@)]
    /\ irq' = TRUE
    /\ UNCHANGED <<streaming, latch, sent, handler, requests, polling, ignore, rx>>

(* What device p puts on the line when the host tells it something. *)
Responses(p, says) ==
    {IF a = "none" THEN << >>
     ELSE IF a = "ack" /\ says = "info" THEN <<Answer(p, "ack"), Answer(p, "reply")>>
     ELSE <<Answer(p, a)>> : a \in Answers}

Tell(p, says) ==
    /\ \E response \in Responses(p, says) :
          /\ wire' = [wire EXCEPT ![p] = @ \o response]
          /\ streaming' = IF response = << >> \/ response[1].kind # "ack" THEN streaming
                          ELSE CASE says = "disable" -> streaming \ {p}
                                 [] says = "enable" -> streaming \cup {p}
                                 [] OTHER -> streaming
    /\ UNCHANGED <<out, latch, irq, sent>>

(* inb(kDataPort): the byte in the buffer, or the last one once more. *)
DataPort == IF out = << >> THEN latch ELSE out[1]
ReadDataPort == out' = << >> /\ latch' = DataPort /\ UNCHANGED <<streaming, wire, irq, sent>>

-----------------------------------------------------------------------------
(***************************************************************************)
(* The interrupt handler                                                   *)
(***************************************************************************)

(* Fault: the handler does not look at _ignoreInterrupts. *)
TakeInterrupt_Always ==
    /\ isr = "idle" /\ irq
    /\ irq' = FALSE
    /\ isr' = "status"
    /\ UNCHANGED <<streaming, wire, out, latch, sent, isrPort, isrByte, requests,
                   polling, ignore, rx>>

TakeInterrupt ==
    /\ isr = "idle" /\ irq
    /\ irq' = FALSE
    /\ isr' = IF ignore > 0 THEN "idle" ELSE "status"
    /\ UNCHANGED <<streaming, wire, out, latch, sent, isrPort, isrByte, requests,
                   polling, ignore, rx>>

InterruptStatus ==
    /\ isr = "status"
    /\ IF out = << >> THEN isr' = "idle" /\ UNCHANGED isrPort
                      ELSE isr' = "data" /\ isrPort' = out[1].port
    /\ UNCHANGED <<device, isrByte, requests, polling, ignore, rx>>

InterruptData ==
    /\ isr = "data"
    /\ ReadDataPort
    /\ isrByte' = DataPort
    /\ isr' = "dispatch"
    /\ UNCHANGED <<isrPort, requests, polling, ignore, rx>>

(* dispatchDriverInterrupt: the driver of the port takes the byte. *)
Dispatch(p, b) == rx' = [rx EXCEPT ![p] = Append(@, b)]

InterruptDispatch ==
    /\ isr = "dispatch"
    /\ Dispatch(isrPort, isrByte)
    /\ isr' = "status"
    /\ UNCHANGED <<device, isrPort, isrByte, requests, polling, ignore>>

InterruptHandler ==
    TakeInterrupt \/ InterruptStatus \/ InterruptData \/ InterruptDispatch
-----------------------------------------------------------------------------
(***************************************************************************)
(* Submitting                                                              *)
(***************************************************************************)
New(r) == ~Contains(submitted, r)

SubmitRequest(r) ==
    /\ New(r) /\ r \notin Blocking
    /\ queue' = Append(queue, r)
    /\ submitted' = Append(submitted, r)
    /\ UNCHANGED <<device, handler, polling, waiting, local, done, ignore, rx>>

(* The caller enters submitRequestAndBlock and waits for the gate. *)
SubmitRequestAndBlock(r) ==
    /\ New(r) /\ r \in Blocking
    /\ waiting' = waiting \cup {r}
    /\ submitted' = Append(submitted, r)
    /\ UNCHANGED <<device, handler, polling, queue, local, done, ignore, rx>>

(* With one CPU the work loop goes on when the interrupt handler is done. *)
Running == OneCpu => isr = "idle"

(* processRequestQueue on the work loop. *)
ProcessRequestQueue ==
    /\ Running /\ pc = "free" /\ queue # << >>
    /\ local' = queue /\ queue' = << >>
    /\ pc' = "begin"
    /\ UNCHANGED <<device, handler, waiting, submitted, done, index, held, pollPort,
                   got, ignore, rx>>

(* Fault: the queue is not drained first. *)
SubmitRequestAndBlockGated_JumpsQueue(r) ==
    /\ Running /\ pc = "free" /\ r \in waiting
    /\ local' = <<r>> /\ waiting' = waiting \ {r}
    /\ pc' = "begin"
    /\ UNCHANGED <<device, handler, queue, submitted, done, index, held, pollPort,
                   got, ignore, rx>>

(* submitRequestAndBlockGated: the queue first, then the caller's own. *)
SubmitRequestAndBlockGated(r) ==
    /\ Running /\ pc = "free" /\ r \in waiting
    /\ local' = Append(queue, r) /\ queue' = << >>
    /\ waiting' = waiting \ {r}
    /\ pc' = "begin"
    /\ UNCHANGED <<device, handler, submitted, done, index, held, pollPort, got,
                   ignore, rx>>

-----------------------------------------------------------------------------
(***************************************************************************)
(* processRequest                                                          *)
(***************************************************************************)
request == Head(local)
port == PortOf[request]
command == Program[request][index]
More == index <= Len(Program[request])

Begin ==
    /\ Running /\ pc = "begin"
    /\ ignore' = ignore + 1
    /\ pc' = "command"
    /\ index' = 1 /\ held' = << >> /\ got' = << >>
    /\ UNCHANGED <<device, handler, requests, pollPort, rx>>

(* Write the byte; kPS2C_SendCommandAndCompareAck goes on to read. *)
WriteCommand ==
    /\ Running /\ pc = "command" /\ More /\ command.op \in {"send", "write"}
    /\ Tell(port, command.says)
    /\ IF command.op = "send" THEN pc' = "status" /\ UNCHANGED index
                              ELSE index' = index + 1 /\ UNCHANGED pc
    /\ UNCHANGED <<handler, requests, held, pollPort, got, ignore, rx>>

ReadCommand ==
    /\ Running /\ pc = "command" /\ More /\ command.op \in {"compare", "read"}
    /\ pc' = "status"
    /\ UNCHANGED <<device, handler, requests, index, held, pollPort, got, ignore, rx>>

(* One round of the flush loop, or its end. *)
FlushCommand ==
    /\ Running /\ pc = "command" /\ More /\ command.op = "flush"
    /\ IF out = << >> THEN index' = index + 1 /\ UNCHANGED device
                       ELSE ReadDataPort /\ UNCHANGED index
    /\ UNCHANGED <<handler, requests, pc, held, pollPort, got, ignore, rx>>

SleepCommand ==
    /\ Running /\ pc = "command" /\ More /\ command.op = "sleep"
    /\ index' = index + 1
    /\ UNCHANGED <<device, handler, requests, pc, held, pollPort, got, ignore, rx>>

(* readDataPort ends with byte b: a comparison that fails ends the request. *)
Return(b) ==
    /\ held' = << >>
    /\ IF command.op = "read"
       THEN pc' = "command" /\ index' = index + 1 /\ got' = Append(got, b)
       ELSE /\ UNCHANGED got
            /\ IF b.kind = "ack" THEN pc' = "command" /\ index' = index + 1
                                 ELSE pc' = "end" /\ UNCHANGED index

PollStatus ==
    /\ Running /\ pc = "status" /\ out # << >>
    /\ pollPort' = out[1].port
    /\ pc' = "data"
    /\ UNCHANGED <<device, handler, requests, index, held, got, ignore, rx>>

(* Fault: only a read that put a byte aside gives up. *)
PollTimeout_OnlyHeld ==
    /\ Running /\ pc = "status" /\ out = << >> /\ held # << >>
    /\ Prompt => \A p \in Port : wire[p] = << >>
    /\ Return(held[1])
    /\ UNCHANGED <<device, handler, requests, pollPort, ignore, rx>>

(* timeoutCounter reaches 0: the byte put aside, or a zero. *)
PollTimeout ==
    /\ Running /\ pc = "status" /\ out = << >>
    /\ Prompt => \A p \in Port : wire[p] = << >>
    /\ Return(IF held = << >> THEN NoByte(port) ELSE held[1])
    /\ UNCHANGED <<device, handler, requests, pollPort, ignore, rx>>

(* A byte of the requested stream that is not the expected one. *)
Unexpected(b) == command.op # "read" /\ b.kind # "ack"

PutAside(b) ==
    /\ held' = <<b>> /\ pc' = "status"
    /\ UNCHANGED <<index, got, rx>>

(* Fault: the byte put aside is forgotten when the answer arrives. *)
PollData_DropsFirst ==
    /\ Running /\ pc = "data"
    /\ ReadDataPort
    /\ LET b == DataPort
       IN  \/ /\ pollPort # port
              /\ Dispatch(pollPort, b)
              /\ pc' = "status"
              /\ UNCHANGED <<index, held, got>>
           \/ /\ pollPort = port /\ Unexpected(b) /\ held = << >>
              /\ PutAside(b)
           \/ /\ pollPort = port /\ Unexpected(b) /\ held # << >>
              /\ Dispatch(port, b) /\ Return(held[1])
           \/ /\ pollPort = port /\ ~Unexpected(b)
              /\ UNCHANGED rx /\ Return(b)
    /\ UNCHANGED <<handler, requests, pollPort, ignore>>

PollData ==
    /\ Running /\ pc = "data"
    /\ ReadDataPort
    /\ LET b == DataPort
       IN  \/ /\ pollPort # port
              /\ Dispatch(pollPort, b)
              /\ pc' = "status"
              /\ UNCHANGED <<index, held, got>>
           \/ /\ pollPort = port /\ Unexpected(b) /\ held = << >>
              /\ PutAside(b)
           \/ /\ pollPort = port /\ Unexpected(b) /\ held # << >>
              /\ Dispatch(port, b) /\ Return(held[1])
           \/ /\ pollPort = port /\ ~Unexpected(b)
              /\ IF held = << >> THEN UNCHANGED rx ELSE Dispatch(port, held[1])
              /\ Return(b)
    /\ UNCHANGED <<handler, requests, pollPort, ignore>>

(* Interrupts count again; the request is completed. *)
End ==
    /\ Running
    /\ pc = "end" \/ (pc = "command" /\ ~More)
    /\ ignore' = ignore - 1
    /\ done' = Append(done, [request |-> request, ok |-> ~More, reads |-> got])
    /\ local' = Tail(local)
    /\ pc' = IF Len(local) = 1 THEN "free" ELSE "begin"
    /\ UNCHANGED <<device, handler, queue, waiting, submitted, index, held, pollPort,
                   got, rx>>

ProcessRequest ==
    \/ Begin \/ WriteCommand \/ ReadCommand \/ FlushCommand \/ SleepCommand
    \/ PollStatus \/ PollTimeout \/ PollData \/ End

WorkLoop == ProcessRequestQueue \/ ProcessRequest

Next ==
    \/ \E p \in Port : DeviceSends(p) \/ Fill(p)
    \/ InterruptHandler
    \/ \E r \in Request : SubmitRequest(r) \/ SubmitRequestAndBlock(r)
                             \/ SubmitRequestAndBlockGated(r)
    \/ WorkLoop

Spec == Init /\ [][Next]_vars

(* The 8042 passes bytes on, interrupts are taken, the work loop runs and  *)
(* the gate lets every waiting thread in.  No device has to send and no    *)
(* driver has to submit anything.                                          *)
FairSpec ==
    /\ Spec
    /\ \A p \in Port : WF_vars(Fill(p))
    /\ WF_vars(InterruptHandler) /\ WF_vars(WorkLoop)
    /\ \A r \in Request : SF_vars(SubmitRequestAndBlockGated(r))

-----------------------------------------------------------------------------
(***************************************************************************)
(* Properties                                                              *)
(***************************************************************************)
TypeOK ==
    /\ streaming \subseteq Port /\ irq \in BOOLEAN /\ latch \in Byte
    /\ wire \in [Port -> Seq(Byte)] /\ rx \in [Port -> Seq(Byte)]
    /\ out \in Seq(Byte) /\ Len(out) <= 1
    /\ held \in Seq(Byte) /\ Len(held) <= 1
    /\ sent \in [Port -> 0 .. DataBound]
    /\ queue \in Seq(Request) /\ waiting \subseteq Blocking
    /\ local \in Seq(Request) /\ submitted \in Seq(Request)
    /\ ignore \in 0 .. 1
    /\ pc \in {"free", "begin", "command", "status", "data", "end"}
    /\ isr \in {"idle", "status", "data", "dispatch"}
    /\ pollPort \in Port /\ isrPort \in Port /\ isrByte \in Byte
    /\ got \in Seq(Byte)
    /\ done \in Seq([request : Request, ok : BOOLEAN, reads : Seq(Byte)])

(* "Everyone wins" (VoodooPS2Controller.h): of the data bytes that the     *)
(* device of a port sent, the driver got the first ones, in order, and the *)
(* interrupt handler, a polled read and the hardware hold the others, in   *)
(* order.  Nothing is lost, doubled or reordered, and no answer to a       *)
(* command reaches a driver as data.                                       *)
Unread(p) == (IF isr = "dispatch" THEN Of(p, <<isrByte>>) ELSE << >>) \o Coming(p)
InSequence(bytes, unread, p, n) ==
    LET data == {i \in 1 .. Len(unread) : IsData(unread[i])}
    IN  /\ Len(bytes) <= n /\ bytes = [i \in 1 .. Len(bytes) |-> Datum(p, i)]
        /\ {unread[i] : i \in data} = {Datum(p, m) : m \in Len(bytes) + 1 .. n}
        /\ \A i, j \in data : i < j => unread[i].n < unread[j].n
EveryoneWins == \A p \in Port : InSequence(rx[p], Unread(p), p, sent[p])

(* What EveryoneWins and RequestsSucceed rest on.  The interrupt handler   *)
(* runs to its end, the devices answer what they are told and in time, and *)
(* at most one byte of data is ahead of an answer.  Every byte written is  *)
(* followed by a comparison of the acknowledge, a request for information, *)
(* and only that, by a read, and nothing is flushed.                       *)
Asks(program, i) ==
    \/ program[i].op = "send" /\ program[i].says = "info"
    \/ i > 1 /\ program[i].op = "compare" /\ program[i - 1].says = "info"
Careful ==
    /\ OneCpu /\ Prompt /\ Answers = {"ack"} /\ Window \in 0 .. 1
    /\ \A r \in Request :
          /\ Program[r] \in Seq(Command)
          /\ \A i \in 1 .. Len(Program[r]) :
                LET c == Program[r][i]
                    next == IF i = Len(Program[r]) THEN "none" ELSE Program[r][i + 1].op
                IN  /\ c.op # "flush"
                    /\ c.op = "write" <=> next = "compare"
                    /\ Asks(Program[r], i) <=> next = "read"
          /\ Program[r] # << >> => Program[r][1].op \notin {"compare", "read"}

(* A driver that turns reporting off before commands with unknown answers, *)
(* as VoodooPS2Controller.h suggests, completes every request, and its     *)
(* plain reads return the device's reply, never a data byte.               *)
RequestsSucceed ==
    \A i \in DOMAIN done : /\ done[i].ok
                           /\ \A j \in DOMAIN done[i].reads : done[i].reads[j].kind = "reply"

(* A request is completed before any that was submitted after it, where    *)
(* the earlier one was queued; a blocking call does not overtake the queue.*)
Position(r) == {i \in DOMAIN done : done[i].request = r}
QueuedFirst ==
    \A i, j \in DOMAIN submitted :
        i < j /\ submitted[i] \notin Blocking /\ Position(submitted[j]) # {} =>
            \E k \in Position(submitted[i]) : \A l \in Position(submitted[j]) : k < l

(* Devices that are silent, refuse or answer late do not block the queue:  *)
(* every request submitted is completed.                                   *)
RequestsComplete ==
    \A r \in Request : Contains(submitted, r) ~> Position(r) # {}
=============================================================================
