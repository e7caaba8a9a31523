----------------------------- MODULE Synaptics ------------------------------
(***************************************************************************)
(* The Synaptics touchpad driver: how it finds, starts and wakes the pad,  *)
(* and how it numbers the fingers.  The pad tells the position of at most  *)
(* two fingers, and in packets of their own (advanced gesture mode) how    *)
(* many there are.  renumberFingers makes fingers with an identity and a   *)
(* type out of that: physical finger i is shown as virtual finger          *)
(* virtualFingerIndex[i].                                                  *)
(*                                                                         *)
(* Of the positions nothing is kept: which virtual finger is nearest, and  *)
(* whether a finger jumped, is a choice.  PadStream has how bytes become   *)
(* packets.  Packets may be missing, which is also what happens while the  *)
(* driver ignores the pad: PadGate has when it does.                       *)
(***************************************************************************)
EXTENDS Integers, FiniteSets, FiniteSetsExt

CONSTANTS
    SynapticsPads,  \* the pads there are; see Model
    QuietPackets,   \* packets in the model that fall into quiet times before
                    \* all fingers are found lifted again
    QuietFingers    \* pads of more fingers have no quiet time in the model

Finger == 0 .. 4                    \* SYNAPTICS_MAX_FINGERS
Count == 0 .. 5
None == -1

(* MT2FingerType *)
Undefined == 0
Thumb == 1
Index == 2
Little == 5
Type == Undefined .. Little

VARIABLES
    pad,        \* the pad; see Pad
    drv,        \* the driver's state; see Driver
    quiet,      \* the time after a key was used
    client,     \* what VoodooInput was told last; see Client
    missed      \* history: the packets that fell into a quiet time since the
                \* last time that all fingers were found lifted

vars == <<pad, drv, quiet, client, missed>>

Model == [
    const : 0 .. 255,           \* the middle byte of its identity
    major : 0 .. 15,            \* its version
    queries : 0 .. 7,           \* how many extended queries it knows
    extw : BOOLEAN,             \* it can send extended W packets
    intertouch : BOOLEAN,       \* it is on the SMBus, too
    fingers : 1 .. 5,           \* as many as it can tell apart
    stick : BOOLEAN]            \* a trackpoint sends through it

Pad == [
    is : Model,
    on : BOOLEAN,               \* reports are enabled
    absolute : BOOLEAN,         \* and are of the mode the driver wants
    extw : BOOLEAN]             \* extended W packets are enabled

Driver == [
    running : {"no", "touchpad", "smbus"},
    extw : BOOLEAN,             \* the pad knows extended W packets
    index : [Finger -> Finger \cup {None}],  \* fingerStates[].virtualFingerIndex
    touch : SUBSET Finger,      \* virtualFingerStates[].touch
    type : [Finger -> Type],    \* virtualFingerStates[].fingerType
    free : SUBSET Type,         \* freeFingerTypes
    agm : Count,                \* agmFingerCount
    count : Count,              \* clampedFingerCount
    last : Count,               \* lastFingerCount
    shown : BOOLEAN,            \* lastSentFingerCount # 0
    lift : BOOLEAN,             \* hadLiftFinger
    skipped : BOOLEAN,          \* wasSkipped
    pass : BOOLEAN]             \* _lastPassthruButtons

Client == [
    surplus : Int,              \* contact_count - clampedFingerCount of the last event
    stick : BOOLEAN]            \* the trackpoint's button

(* init *)
NewDriver == [
    running |-> "no", extw |-> FALSE, index |-> [i \in Finger |-> None], touch |-> {},
    type |-> [i \in Finger |-> Undefined], free |-> Type \ {Undefined},
    agm |-> 0, count |-> 0, last |-> 0, shown |-> FALSE,
    lift |-> FALSE, skipped |-> FALSE, pass |-> FALSE]
NoClient == [surplus |-> 0, stick |-> FALSE]

-----------------------------------------------------------------------------
(***************************************************************************)
(* Fingers and their types.  f is the driver's state.                      *)
(***************************************************************************)
(* The lowest type that is free; the thumb's is not given here. *)
FreeType(f) ==
    LET free == f.free \cap Index .. Little
    IN  IF free = {} THEN Undefined ELSE Min(free)

GiveType(f, v, type) ==
    [f EXCEPT !.type[v] = type, !.free = @ \ ({type} \ {Undefined})]

AssignFingerType(f, v) == GiveType(f, v, FreeType(f))

AssignVirtualFinger(f, i) ==
    IF f.touch = Finger THEN f
    ELSE LET v == Min(Finger \ f.touch)
         IN  AssignFingerType([f EXCEPT !.index[i] = v, !.touch = @ \cup {v}], v)

(* Fault: the new finger gets no virtual finger of its own. *)
SwapFingers_Shared(f, dst, src) == [f EXCEPT !.index[dst] = f.index[src]]

(* Physical finger src has become another finger; dst is now what src was. *)
SwapFingers(f, dst, src) ==
    AssignVirtualFinger([f EXCEPT !.index[dst] = f.index[src]], src)

Shown(f) == {f.index[i] : i \in 0 .. f.count - 1} \ {None}

(* Fault: the types of lifted fingers stay taken. *)
FreeAndMarkVirtualFingers_KeepsTypes(f) ==
    [f EXCEPT !.touch = Shown(f),
              !.type = [v \in Finger |-> IF v \in Shown(f) THEN @[v] ELSE Undefined]]

FreeAndMarkVirtualFingers(f) ==
    [f EXCEPT !.touch = Shown(f),
              !.free = (Type \ {Undefined}) \ {f.type[v] : v \in Shown(f)},
              !.type = [v \in Finger |-> IF v \in Shown(f) THEN @[v] ELSE Undefined]]

-----------------------------------------------------------------------------
(***************************************************************************)
(* renumberFingers, case by case.  f.count differs from f.last.            *)
(***************************************************************************)
(* The first fingers: physical and virtual fingers are the same. *)
FirstFingers(f) ==
    LET Touch(g, i) ==
            IF i < f.count
            THEN AssignFingerType([g EXCEPT !.index[i] = i, !.touch = @ \cup {i}], i)
            ELSE g
    IN  Touch(Touch(Touch(Touch(Touch(f, 0), 1), 2), 3), 4)

(* One round of its loops *)
AssignIf(f, i, wanted) == IF wanted THEN AssignVirtualFinger(f, i) ELSE f

(* Fingers were added and none was lifted yet: the second finger is new. *)
MoreFingers(f) ==
    IF f.last = 1
    THEN LET two == AssignVirtualFinger(f, 1)
             three == AssignIf(two, 2, f.count > 2)
             four == AssignIf(three, 3, f.count > 3)
         IN  AssignIf(four, 4, f.count > 4)
    ELSE CASE f.count - f.last = 1 -> SwapFingers(f, f.last, 1)
           [] f.count - f.last = 2 ->
                AssignVirtualFinger(SwapFingers(f, f.last, 1), 3)
           [] f.count - f.last = 3 ->
                AssignVirtualFinger(AssignVirtualFinger(AssignVirtualFinger(f, 1), 2), 3)

(* The ways to give each touching virtual finger, lower ones first, one of *)
(* the f.last physical fingers.                                            *)
Matchings(f) ==
    LET taken == {v \in f.touch : Cardinality({u \in f.touch : u < v}) < f.last}
        places == 0 .. f.last - 1
    IN  {[i \in Finger |-> IF \E v \in taken : at[v] = i
                           THEN CHOOSE v \in taken : at[v] = i ELSE None] :
            at \in {p \in [taken -> places] :
                       \A u, v \in taken : u # v => p[u] # p[v]}}

(* Fingers were added after others were lifted.  far and far2: the         *)
(* physical fingers that are far from the virtual finger they were given,  *)
(* the farthest first; None if there is no such finger.                    *)
MoreAfterLift(f, far, far2) ==
    LET two == AssignIf(AssignIf(f, 0, f.index[0] = None), 1, f.index[1] = None)
        three == IF far # None THEN SwapFingers(two, 2, far)
                 ELSE AssignVirtualFinger(two, 2)
        four == CASE f.last < 3 /\ far # None /\ far2 # None ->
                        SwapFingers(three, 3, far2)
                  [] f.last < 3 /\ ~ (far # None /\ far2 # None) ->
                        AssignVirtualFinger(three, 3)
                  [] f.last >= 3 /\ far # None -> SwapFingers(two, 3, far)
                  [] f.last >= 3 /\ far = None -> AssignVirtualFinger(two, 3)
        all == CASE f.count = 2 -> two
                 [] f.count = 3 -> three
                 [] f.count = 4 -> four
                 [] f.count = 5 -> AssignVirtualFinger(four, 4)
    IN  FreeAndMarkVirtualFingers(all)

(* Some were lifted: each remaining one gets the nearest virtual finger. *)
FewerFingers(f, nearest) ==
    FreeAndMarkVirtualFingers([f EXCEPT !.lift = f.count > 0,
       !.index = [i \in Finger |-> IF i < f.count THEN nearest[i] ELSE None]])

(* The choices of FewerFingers: as many virtual fingers as there are *)
Nearest(f) ==
    LET many == Cardinality(f.touch)
        Fits(n) == /\ \A i, j \in DOMAIN n : i # j /\ n[i] # None => n[i] # n[j]
                   /\ \A i \in DOMAIN n : (n[i] = None) <=> (i >= many)
    IN  {n \in [0 .. f.count - 1 -> f.touch \cup {None}] : Fits(n)}

Renumbered(f) ==
    CASE f.count = f.last -> {f}
      [] f.last = 0 /\ f.count > 0 -> {FirstFingers(f)}
      [] f.last > 0 /\ f.count > f.last /\ ~ f.lift -> {MoreFingers(f)}
      [] f.last > 0 /\ f.count > f.last /\ f.lift ->
            UNION {LET g == [f EXCEPT !.index = m]
                       given == {i \in Finger : m[i] # None}
                   IN  {MoreAfterLift(g, None, None)} \cup
                       UNION {{MoreAfterLift(g, far, far2) :
                                  far2 \in (given \ {far}) \cup {None}} : far \in given} :
                   m \in Matchings(f)}
      [] f.count < f.last -> {FewerFingers(f, n) : n \in Nearest(f)}

(* With the fourth finger, the lowest one becomes the thumb. *)
WithThumb(f, v) ==
    [f EXCEPT !.free = (@ \cup {f.type[v]}) \ {Thumb}, !.type[v] = Thumb]

(* A first report of three fingers or more is skipped once. *)
Skips(f) == f.count > f.last /\ f.count >= 3 /\ ~ f.skipped

(* All results of renumberFingers.  jump: a single finger is far from      *)
(* where it was, and is taken as lifted.                                   *)
RenumberFingers(old, count, jump) ==
    LET f == [old EXCEPT !.count = IF jump THEN 0 ELSE count]
        more == f.count > f.last /\ f.count >= 3
    IN  IF Skips(f) THEN {[f EXCEPT !.skipped = TRUE]}
        ELSE LET done == Renumbered([f EXCEPT !.skipped = @ /\ ~ more])
             IN  IF f.count > f.last /\ f.count >= 4
                 THEN UNION {{WithThumb(g, v) : v \in g.touch} : g \in done}
                 ELSE done

-----------------------------------------------------------------------------
(***************************************************************************)
(* packetReady and synaptics_parse_hw_state                                *)
(***************************************************************************)
(* The driver and the client after sendTouchData.  A count that changes is *)
(* not reported yet; "no fingers" is reported only once.                   *)
SendTouchData(f) ==
    LET many == Cardinality(f.touch)
    IN  CASE quiet -> [drv |-> f, client |-> client]
          [] ~ quiet /\ f.last # f.count ->
                [drv |-> [f EXCEPT !.last = f.count], client |-> client]
          [] ~ quiet /\ f.last = f.count ->
                [drv |-> [f EXCEPT !.shown = many # 0],
                 client |-> IF many # 0 \/ f.shown
                            THEN [client EXCEPT !.surplus = many - f.count]
                            ELSE client]

(* Fault: only the trackpoint's own packets tell its button. *)
ReportButtons_OwnOnly(c) == [c EXCEPT !.stick = FALSE]

(* The last part of synaptics_parse_hw_state: every packet of the pad      *)
(* reports the trackpoint's button, too.                                   *)
ReportButtons(c) == [c EXCEPT !.stick = drv.pass]

(* The driver's count, if there are down fingers: a packet tells only       *)
(* whether there are none, one, two or more.                               *)
FingerCount(down, agm) ==
    CASE down < 2 -> down
      [] down = 2 -> Max({2, Min({agm, 5})})
      [] down > 2 -> Max({3, Min({agm, 5})})

(* A packet arrives, and synaptics_parse_hw_state looks at it. *)
Handled == pad.on /\ pad.absolute /\ drv.running = "touchpad"

(* synaptics_parse_normal_packet *)
NormalPacket(down, jump) ==
    /\ Handled /\ (jump => down = 1 /\ drv.last = 1)
    /\ quiet => missed < QuietPackets
    /\ LET old == [drv EXCEPT !.agm = IF down < 2 THEN 0 ELSE @]
           count == FingerCount(down, drv.agm)
           waits == Skips([old EXCEPT !.count = count])
       IN  /\ \E f \in RenumberFingers(old, count, jump) :
                LET sent == IF waits THEN [drv |-> f, client |-> client]
                            ELSE SendTouchData(f)
                IN  /\ drv' = sent.drv
                    /\ client' = ReportButtons(sent.client)
                    /\ missed' = CASE quiet -> missed + 1
                                    [] ~ quiet -> IF f.count = 0 /\ old.last > 0
                                                  THEN 0 ELSE missed
    /\ UNCHANGED <<pad, quiet>>

(* synaptics_parse_agm_packet: where the second finger is, or how many *)
AgmPacket(counts, down) ==
    /\ Handled /\ pad.extw /\ down > 1
    /\ drv' = IF counts THEN [drv EXCEPT !.agm = down] ELSE drv
    /\ client' = ReportButtons(client)
    /\ UNCHANGED <<pad, quiet, missed>>

(* synaptics_parse_passthru: a packet of the trackpoint *)
PassthruPacket(pressed) ==
    /\ Handled /\ pad.is.stick
    /\ drv' = [drv EXCEPT !.pass = pressed]
    /\ client' = [client EXCEPT !.stick = pressed]
    /\ UNCHANGED <<pad, quiet, missed>>

-----------------------------------------------------------------------------
(***************************************************************************)
(* probe, start and stop                                                   *)
(***************************************************************************)

(* The requests of probe.  A pad that does not answer the first is not     *)
(* taken; without the others it has fewer capabilities.                    *)
Question == {"identity", "capabilities", "continued"}

(* queryCapabilities, up to what decides on the mode and the driver *)
Capabilities(is, silent) ==
    LET queries == IF "capabilities" \in silent THEN 0 ELSE is.queries
    IN  [extw |-> "capabilities" \notin silent /\ is.extw,
         intertouch |-> queries >= 4 /\ "continued" \notin silent /\ is.intertouch]

(* probe: the driver that takes the pad.  companion: an SMBus driver is    *)
(* there.                                                                  *)
Probe(is, silent, companion) ==
    CASE "identity" \in silent \/ is.const # 71 \/ is.major < 4 -> "no"
      [] ~ ("identity" \in silent \/ is.const # 71 \/ is.major < 4) ->
            IF Capabilities(is, silent).intertouch /\ companion THEN "smbus"
            ELSE "touchpad"

(* enterAdvancedGestureMode: setModeByte, and reports are enabled whether  *)
(* or not that was successful.                                             *)
Enter(p, extw, set) ==
    [p EXCEPT !.on = TRUE, !.absolute = set, !.extw = set /\ extw]

(* ApplePS2SmbusDevice::resetDevice: defaults, and no reports *)
ResetDevice(p) == [p EXCEPT !.on = FALSE, !.absolute = FALSE, !.extw = FALSE]

(* set: the mode byte was accepted.  A pad whose capabilities were not     *)
(* learnt is never asked for extended W packets.                           *)
Start(silent, companion, set) ==
    /\ drv.running = "no"
    /\ Probe(pad.is, silent, companion) # "no"
    /\ drv' = [NewDriver EXCEPT !.running = Probe(pad.is, silent, companion),
                                !.extw = Capabilities(pad.is, silent).extw]
    /\ pad' = IF drv'.running = "smbus" THEN ResetDevice(pad)
              ELSE Enter(pad, drv'.extw, set)
    /\ missed' = 0
    /\ UNCHANGED <<quiet, client>>

(* stop of this driver, or of ApplePS2SmbusDevice *)
Stop ==
    /\ drv.running # "no"
    /\ pad' = ResetDevice(pad)
    /\ drv' = NewDriver /\ client' = NoClient
    /\ quiet' = FALSE /\ missed' = 0

-----------------------------------------------------------------------------
(***************************************************************************)
(* setDevicePowerState and message                                         *)
(***************************************************************************)
(* The pad may sleep, too (setModeByte); it is woken by another mode byte. *)
DisableDevice ==
    /\ drv.running = "touchpad" /\ pad.on
    /\ pad' = [pad EXCEPT !.on = FALSE, !.absolute = FALSE]
    /\ UNCHANGED <<drv, quiet, client, missed>>

(* initTouchPad, which keeps the state of the fingers *)
InitTouchPad(set) ==
    /\ pad' = Enter(pad, drv.extw, set)
    /\ drv' = [drv EXCEPT !.pass = FALSE]

EnableDevice(set) ==
    /\ drv.running = "touchpad" /\ ~ pad.on
    /\ InitTouchPad(set)
    /\ UNCHANGED <<quiet, client, missed>>

(* kPS2M_resetTouchpad *)
ResetTouchpad(set) ==
    /\ drv.running = "touchpad" /\ pad.on
    /\ InitTouchPad(set)
    /\ UNCHANGED <<quiet, client, missed>>

(* kPS2M_notifyKeyPressed, and maxaftertyping later *)
KeyPressed ==
    /\ drv.running = "touchpad" /\ pad.is.fingers <= QuietFingers
    /\ ~ quiet /\ quiet' = TRUE
    /\ UNCHANGED <<pad, drv, client, missed>>
QuietEnds ==
    /\ quiet /\ quiet' = FALSE
    /\ UNCHANGED <<pad, drv, client, missed>>

Init ==
    /\ pad \in [is : SynapticsPads, on : {FALSE}, absolute : {FALSE}, extw : {FALSE}]
    /\ drv = NewDriver /\ client = NoClient
    /\ quiet = FALSE /\ missed = 0

Next ==
    \/ \E down \in 0 .. pad.is.fingers :
          \/ \E jump \in BOOLEAN : NormalPacket(down, jump)
          \/ \E counts \in BOOLEAN : AgmPacket(counts, down)
    \/ \E pressed \in BOOLEAN : PassthruPacket(pressed)
    \/ \E silent \in SUBSET Question, companion, set \in BOOLEAN :
          Start(silent, companion, set)
    \/ Stop
    \/ DisableDevice
    \/ \E set \in BOOLEAN : EnableDevice(set) \/ ResetTouchpad(set)
    \/ KeyPressed
    \/ QuietEnds

Spec == Init /\ [][Next]_vars

-----------------------------------------------------------------------------
(***************************************************************************)
(* Properties                                                              *)
(***************************************************************************)

(* The variables have their types. *)
TypeOK ==
    /\ pad \in Pad /\ client \in Client /\ drv.running \in {"no", "touchpad", "smbus"}
    /\ drv.index \in [Finger -> Finger \cup {None}] /\ drv.type \in [Finger -> Type]
    /\ drv.touch \subseteq Finger /\ drv.free \subseteq Type
    /\ {drv.agm, drv.count, drv.last} \subseteq Count
    /\ {drv.extw, drv.lift, drv.skipped, drv.shown, drv.pass, quiet} \subseteq BOOLEAN
    /\ missed \in 0 .. QuietPackets

(* Whenever the fingers are about to be reported, each physical finger has *)
(* a virtual finger of its own and no other virtual finger touches, in     *)
(* whatever order fingers came, went, jumped or were miscounted, if no     *)
(* packet fell into a quiet time and the pad tells at most four fingers    *)
(* (renumberFingers, swapFingers, freeAndMarkVirtualFingers).              *)
ContactsAreFingers ==
    pad.is.fingers < 5 /\ missed = 0 /\ drv.last = drv.count =>
        /\ Cardinality(drv.touch) = drv.count
        /\ drv.touch = {drv.index[i] : i \in 0 .. drv.count - 1}

(* They all have a type then, and no two the same, unless that is the      *)
(* thumb's (assignFingerType, freeAndMarkVirtualFingers).                  *)
FingersHaveTypes ==
    pad.is.fingers < 5 /\ missed = 0 /\ drv.last = drv.count =>
        \A u, v \in drv.touch :
           /\ drv.type[u] \notin {Undefined} \cup drv.free
           /\ u # v => drv.type[u] # drv.type[v] \/ drv.type[u] = Thumb

(* The number of contacts in an event is the number of fingers:            *)
(* sendTouchData logs "WTF?! tducers_count %d clampedFingerCount %d" if    *)
(* not.  The quiet time breaks it.                                         *)
EventMatchesCount == client.surplus = 0

(* Only a packet of the trackpoint, or a reset of the pad, releases the    *)
(* trackpoint's button: the pad's own packets never do                     *)
(* (synaptics_parse_passthru, synaptics_parse_hw_state).                   *)
StickStep == client.stick /\ ~ client'.stick => ~ drv'.pass
=============================================================================
