# A verification project for VoodooPS2-FocalTech

VoodooPS2-FocalTech is a macOS kernel extension for PS/2 keyboards, mice and
touchpads. Upstream VoodooPS2 supplies the controller (`VoodooPS2Controller/`), the
keyboard, the mouse and four touchpad families; this fork adds two FocalTech drivers
(`FocalTech/`): FLT pads, with a Force Click emulation, and FTE0001 pads.

The modules here model the parts of that code where the order of events decides
whether it is right. TLC checks each model on small instances; TLAPS proves some of
the results for every value of the constants. `PROJECT.json` ties each definition to
the source lines it models and each property to a fault of the model it catches.

## 1. The system

### Components, their state and operations

| Component | State | Operations |
|---|---|---|
| Packet ring (`ApplePS2Device.h`) | `m_buffer`, `m_head`, `m_tail` | `head`, `advanceHead` in the interrupt; `count`, `tail`, `advanceTail` on a work loop; `reset` on wake |
| FLT driver (`FocalTech/Source/VoodooPS2FocalTech.part00-05.inc`) | `_hardware`, `_finger[]`, the click and force fields, `_lastButtons`, force timer, `_voodooInput` | `interruptOccurred`, `packetReady`, three packet handlers, `reportState`, `sendTouchData`, `forceTimerFired`, `setDevicePowerState`, `handleOpen`, `handleClose`, `probe`, `start`, `stop` |
| FTE0001 driver (`FTE0001.inc`) | packet under assembly and its finger count, fingers, `_lastButtons` | the same skeleton with reports of variable length |
| Controller: requests (`VoodooPS2Controller.cpp`) | `_requestQueue`, `_ignoreInterrupts`, the position in a request | `submitRequest`, `submitRequestAndBlock`, `processRequest`, `readDataPort`, the interrupt handlers |
| Controller: power | `_currentPowerState`, `_hardwareOffline`, `_ignoreInterrupts`, installed counts, command byte, command gate, `_cmdbyteLock` | `setPowerState` to `setPowerStateGated`, install and uninstall of interrupt and power actions |
| Controller: start-up | command byte, `_muxPresent`, `_nubsCount`, `_kbdOnly` | `start`, `stop`, `resetController`, `setMuxMode`, `enableMuxPorts`, `setCommandByte` |
| Controller: configuration | Platform Profile, `_rmcfCache`, `_wakedelay`, `_mouseWakeFirst` | `makeConfigurationNode`, `getConfigurationNode`, `getConfigurationOverride`, `translateArray` |
| Keyboard | `_keyBitVector`, `_extendCount`, `_macroBuffer`, `_PS2modifierState`, `_disableInput`, `_fkeymode`, macro timer, sleep/eject timer | `interruptOccurred`, `packetReady`, `invertMacros`, `dispatchKeyboardEventWithPacket`, `onMacroTimer`, `onSleepEjectTimer`, `message`, `setParamPropertiesGated`, `initKeyboard` |
| Mouse | `_packetByteCount`, `_lastdata`, `_mouseResetCount`, `_type`, `_mouseInfoBytes`, `_mbuttonstate`, `_pendingbuttons`, button timer | `interruptOccurred`, `packetReady`, `middleButton`, `onButtonTimer`, `resetMouse`, `setIntellimouseMode`, `setParamPropertiesGated` |
| Synaptics | packet under assembly, `fingerStates`, `virtualFinger`, `lastFingerCount`, `agmFingerCount`, `ignoreall`, quiet time, attached mice | `interruptOccurred`, `packetReady`, three packet parsers, `renumberFingers`, `sendTouchData`, `message`, `setPropertiesGated`, `notificationHIDAttachedHandlerGated` |
| Elan | hardware version, `virtualFinger`, `heldFingers`, `headPacketsCount`, last buttons | detection, packet checks and report routines of four versions, `sendTouchData` |
| Sentelic | `_packetSize`, `_packetByteCount`, registers of the pad, `clicking` | `fsp_reg_read`, `fsp_reg_write`, `setTouchPadEnable`, `dispatchRelativePointerEventWithPacket` |
| ALPS | packet state, fingers | the same skeleton, nine protocols |
| SMBus companion | - | takes the port over from the Synaptics driver, resets the pad |
| ACPI nub, build scripts | - | start-up or build time only |

### How they interact

* A device byte raises an interrupt. The controller's handler reads status and data
  port and calls the driver's `interruptOccurred`, **in interrupt context**, which puts
  the byte into the driver's ring. A complete packet signals an event source of the
  **device's own work loop**, which runs `packetReady`.
* A driver talks to its device by requests. They run on the **controller's work loop**
  or, when the caller blocks, on the caller's thread under the controller's command
  gate. Meanwhile interrupts are ignored and the answers are polled from the same port
  on which the devices go on sending data.
* Timers that a driver creates on `getWorkLoop()` run on the controller's work loop,
  not on the device's. `packetReady` and `forceTimerFired` therefore run concurrently.
* Sleep and wake run on a thread call under the gate and call every driver's power
  action. `start` and `stop` of drivers run on IOKit matching threads; they use
  `_cmdbyteLock` and, for each request, the gate.

### What is hard

`PROJECT.json` lists the hazards at the lines where they bite. The groups: a ring
without locks; two readers of one hardware buffer; handlers on different work loops
sharing fields; sleeps that cut packets, holds and clicks in half; two locks; framing
by counting bytes; answers that come late, wrong or never.

### What makes each component correct

* **Ring**: an unbroken FIFO of whole packets; an overflow costs the newest packet
  only; no packet waits for ever.
* **FLT driver**: a button the client holds is pressed on the pad; a click keeps its
  side; pressure and button exclude each other; a Force Click needs a still hold.
* **FTE0001**: records are reports; the client shows the last report.
* **Requests**: no data byte is lost, doubled or reordered; every request gets its own
  answers; every request ends.
* **Power**: a sleeping machine is silent, an awake one works, transitions end.
* **Keyboard**: a key that is up on the keyboard is up for the HID system; every packet
  is dispatched once and in order, by itself or inside one macro; nothing is held back
  for ever; the machine sleeps only while the sleep key is held.
* **Mouse**: driver and mouse agree on the length of a report and, after a lost byte,
  find back to its beginning; a wake restores the settings; the middle-button emulation
  loses no click and invents none.
* **Elan**: a report of several packets is shown whole or not at all; no button stays
  down that neither pad nor trackpoint holds.
* **Synaptics**: every physical finger has a virtual finger of its own, with a type of its
  own, however fingers land and lift between two packets; the trackpoint's button is the
  trackpoint's.
* **Synaptics, Sentelic**: driver and pad agree on the first byte of a packet, and agree
  again after a lost byte. Taps are told from presses.
* **Synaptics, Elan**: a pad is ignored only while somebody wants it so.
* **Start-up**: the command byte suits the handlers that are installed; driver and chip
  agree on the multiplexing.
* **Configuration**: a driver gets the settings that its profile, the computer and RMCF mean.

## 2. Modules

| Module | Models | Uses |
|---|---|---|
| `PacketFifo` | what the packet ring promises: a bounded queue of packets | |
| `PacketRing` | the ring, `interruptOccurred` and `packetReady` at the grain of loads and stores | refines `PacketFifo` |
| `PacketRingProofs` | theorems about `PacketRing`, and the proof that it implements `PacketFifo` | |
| `FocalTechTouch` | packets, click, Force Click, client and power of the FLT driver, one action per handler | |
| `FocalTechForceRace` | the two handlers of the FLT driver that run concurrently, split at the fields they share | |
| `FocalTechTouchProofs` | theorems about `FocalTechTouch` and `FocalTechForceRace` | |
| `FTE0001` | framing, padding, decoding, reporting and power of the FTE driver | |
| `FTE0001Proofs` | theorems about `FTE0001` | |
| `PS2Requests` | request queue, `processRequest`, polled reads, interrupt handler, 8042, devices | |
| `PS2RequestsProofs` | theorems about `PS2Requests` | |
| `PowerTransitions` | sleep and wake against starting and stopping drivers | |
| `PowerTransitionsProofs` | theorems about `PowerTransitions` | |
| `KeyboardInput` | the keyboard driver from bytes to dispatched packets: decoder, bit vector, ring, macro inversion | ring as in `PacketRing` |
| `KeyboardDispatch` | the keyboard driver from packets to the HID system: modifiers, special keys, sleep and eject timer | packets as from `KeyboardInput` |
| `Keyboard` | the keyboard driver | `KeyboardInput`, `KeyboardDispatch` |
| `MouseStream` | the mouse driver from bytes to packets: detection of the mouse, framing, sleep, reset | ring as in `PacketRing` |
| `MouseButtons` | the mouse driver's middle-button emulation and its timer | packets as from `MouseStream` |
| `Mouse` | the mouse driver | `MouseStream`, `MouseButtons` |
| `KeyboardMouseProofs` | theorems about the two modules of each driver | `Keyboard`, `Mouse` |
| `Elan` | the Elan driver: detection, reports of four hardware versions, buttons, quiet time, power | packets as from `PacketRing` |
| `Synaptics` | the Synaptics driver: detection, hand-over to the SMBus, packets, numbering of fingers, power | packets as from `PadStream` |
| `PadStream` | how the Synaptics and the Sentelic driver frame the byte stream | |
| `PadGate` | what makes the Synaptics and the Elan driver ignore their pads | |
| `Sentelic` | register protocol, tags and buttons of the Sentelic driver | packets as from `PadStream` |
| `Touchpads` | the pad drivers other than FocalTech and FTE0001 | `Elan`, `Synaptics`, `PadGate`, `PadStream`, `Sentelic` |
| `TouchpadProofs` | theorems about these five | `Touchpads` |
| `ControllerBoot` | command byte and multiplexing of the 8042 from start to stop, through sleep and wake | operations that interleave in `PowerTransitions` |
| `Configuration` | the merge of Platform Profile and RMCF, against a reference definition | |
| `ControllerBootProofs` | theorems about `ControllerBoot` and `Configuration` | |
| `MC...` | constants of these modules for TLC; see below | |

`Keyboard`, `Mouse` and `Touchpads` join modules that do not share state: a variable (`half`
in `Keyboard`, `part` in the others), chosen in the initial state, says which module's
next-state relation applies, and the variables of the others keep one value. A behaviour of
the whole is a behaviour of one of them. They have the parameters of the modules they join,
so that the theorems speak of the formulas that the runs check; `MCKeyboard`, `MCMouse`,
`MCTouchpads` and `MCSynaptics` only give the parameters values. `MCFocalTechTouch` and
`MCController` join two modules each in the same way.

### PacketRing

Each variable is a member of `RingBuffer` or of the driver (`m_buffer`, `m_head`,
`m_tail`, `_packetByteCount`) or a program position. `StoreByte` and `AdvanceHead` are
the interrupt; `advanceHead` calls `count()` twice and `packetReady` may move the tail
between the two, so the first result is kept in `newCount` and the second load is a
step of its own. `AdvanceTail` and `WrapTail` are the two stores of `advanceTail`: in
between, the interrupt sees `m_tail = N`. `Dispatch` is the work loop taking the
collapsed signals. `reset()` on wake is not an action here: see the hazard at its line.

The refinement maps the ring to the sequence of packets between tail and head, wrapped
at `N`. In `PacketFifo` a packet enters or is refused at a full queue, and the oldest
leaves; the spec of the queue is the run's property `ImplementsFifo`.

### FocalTechTouch

`hardware` is `_hardware`; `touching` the `touching` flags of `_finger[]`; `click` holds
`_clickWasPressed`, `_clickRight`, `_forceEligible`, `_forceActive`, `_forceFinger`, the
start position and whether the timer is set. `client` is what VoodooInput was told last.
`ReportState` is the whole of `reportState` with `sendTouchData`; the packet actions
apply one of the three packet handlers and then `ReportState`. Two history variables
serve the properties: `hold` records the press as the reports showed it, and `slept` is
TRUE after the first sleep, because a wake forgets the click state without telling the
client (`_lastButtons` is cleared while the client may still hold a button; see the hazard
at that line).

Coordinates are integers; screen positions are clamped as in the code, the stored sums
are not. Contact width, timestamps and previous coordinates decide nothing and are left
out. The bounds in `MCFocalTechTouch` are a pad of the least size `readDimensions`
accepts, one position in the right-click zone, one outside it and further than
`kForceMoveCancel` from it, and a relative step of which one stays within the threshold
and two do not.

### FocalTechForceRace

The finger keeps still, so a packet carries the switch only. The `packet` thread is
`processPacket`, `reportState`, `sendTouchData`; the `timer` thread `forceTimerFired`,
`sendTouchData`. Each step reads or writes one shared field or client channel. The
timer becomes due only while no packet handler is running: two seconds are longer than
a handler, but a later packet's handler may run when the timer's starts. A packet handler
that computed its buttons before the promotion may then send them after it, so in this
module pressure and button do not exclude each other as they do in `FocalTechTouch`, where
a handler is one step. The run checks that the hold is resolved all the same.

### FTE0001

The pad is external: `Encode` lays a report out as the driver expects it. The driver's
`interruptOccurred` takes the stream byte by byte; `ring` is a queue of records,
justified by `PacketRing`. `sent` and `seen` are history variables: the reports behind
the records and the last one processed. A sleep stops the pad at any byte.

### PS2Requests

`wire`, `out`, `latch` and `irq` are the 8042 and the lines of the devices (external).
The interrupt line rises when the output buffer fills and not again before it was read.
`latch` is what the data port returns once more when it is empty. `pc`, `index` and
`held` are the position in `processRequest` and in `readDataPort`; `isr...` the handler.
Both routines named `readDataPort` are covered: `compare` and `send` use the one that
expects an acknowledge and puts one early byte aside, `read` the plain one. Assumptions
are constants: `OneCpu` (the handler preempts the CPU of the work loop, so it runs to
its end first), `Prompt` (answers arrive before the timeout), `Window` (data bytes a
device may send ahead of an acknowledge), `DataBound`. `Coming` is what is on its way to
a port: a byte put aside, the output buffer, the line. `Careful` collects the conditions
under which everyone wins; the run `requests_careful` meets it (the assumption
`PromptIsCareful`, which TLC evaluates). `kPS2C_ModifyCommandByte` never
reaches `processRequest` and is not a command of the model.

### PowerTransitions

`change` is the transition that holds the gate, `todo` the drivers it still has to
notify. A request of `start` is one step that needs the gate; `Setup`, `Install`,
`Count`, ... `Leave` are the positions in `start` and `stop` at which another thread
can run. `Overlap` tells whether drivers may start and stop during a transition. The
boot argument `ps2kbdonly` is not set.

### KeyboardInput

`lastReset`, `extendCount` and `down` are the decoder of `interruptOccurred`
(`_lastdata`, `_extendCount`, `_keyBitVector`); `ring` is its ring as a bounded queue;
`macro`, `armed` and `draining` are `_macroBuffer`, `_macroTimer` and the position of
`onMacroTimer` between its call of `packetReady` and its look at the clock. `shift` is
the part of `_PS2modifierState` that the macros of the run test. A handler is one step.
Time enters as the result of the comparisons with `_macroMaxTime`: whether a packet is
late is an input of the step. `out` is what the last step handed to
`dispatchKeyboardEventWithPacket`, a macro's output being one item with the number of
the macro; `Unfold` turns it back into the packets the macro stands for, so that
`DispatchedOnceInOrder` can compare packets in with packets out. In `Keyboard`, `down` and `ring` of
this module are called `bits` and `queue`.

### KeyboardDispatch

Keys are named by role (`AnyKey`): modifiers, the special keys of the `switch` in
`dispatchKeyboardEventWithPacket`, a function key whose meaning depends on `_fkeymode`, a
letter, and a key without break codes. `drv` is the state the dispatch works on, one
record, so that the loop over the held keys in `initKeyboard`, a recursive function on the
positions of `ScanOrder`, applies the same operator as a single dispatch. `client` is what the HID system believes to be down; presses that the
driver releases in the same handler leave no trace there and are not recorded. `Features`
are the settings that add special cases, `Command` the key that is mapped to ADB Command
(`Swap command and option`). `MaxHeld` bounds the keys that are down at a time. `event`
is what a step asked of the rest of the system (sleep, power key, touchpad, mode).

`OrdinaryKeysNeverStick` leaves out the keys of `CanStick`, and for each of them TLC finds
a key that is up on the keyboard and down for the HID system if it is not left out: a
Delete pressed before Ctrl+Alt and released after them, whose release the Ctrl+Alt+Delete
case takes; the brightness keys, when a wake or a modifier comes before the release; an
eject timer that outlives the key; a function key across a change of `HIDFKeyMode`. The
property says that there are no others.

### MouseStream

`dev` is the mouse (external): its kind, what it answers to the sampling rates by which
`setIntellimouseMode` asks it for its type, and the reports it sends. `stream` is what
`interruptOccurred` keeps, `setup` what `resetMouse` finds out. `resetMouse` is one step,
since the mouse is disabled until its end; which of its questions go unanswered is an
input. Bytes are numbers, because the framing looks at their bits: a first byte has bit 3,
a delta may have it too, and AA 00 is read as the announcement of a reset wherever it
occurs. Disturbances are a lost byte, a late acknowledge, a mouse that resets itself, and a
sleep after any byte. `aligned`, `still` and `meant` are history variables: whether
bytes were missed since driver and mouse were last together at the beginning of a
report, whether the present report showed no movement, and its buttons. `ResetLimit` stands
for the 5 in the code. The driver throws away the packets that ask for a reset, since the
call of `initMouse` is commented out: a mouse that resets itself is silent until a wake.

### MouseButtons

`mb` is the state machine of `middleButton` (`_mbuttonstate`, `_pendingbuttons`, the timer);
`late` says whether a packet comes more than `_maxmiddleclicktime` after `_buttontime`.
`shown` has the masks that the last step dispatched. `owed` collects presses that no mask
has shown. Two cases are outside the properties, and they are what the code does: a press
of left or right under the fourth or fifth button is not shown if it is shorter than the
timer, and a change of `FakeMiddleButton` or a reset while a button is down leaves the state
machine where it was (`switched`).

### Elan

`pad` is the touchpad (external): one of the `Pads`, the fingers on it and those still to
come in the report under way. `Probe` asks the questions of `elantechDetect` and
`elantechQueryInfo`, any of which may go unanswered, and derives hardware version and
packet length from the firmware version as the code does. `drv` holds what the report
routines keep: which virtual fingers touch, `heldFingers`, `headPacketsCount`, for version 3
whether the head packet was seen, for version 2 how many single-finger packets were
skipped. Of a position the model keeps whether it is the pad's (`exact`). `whole` is a
history variable: every packet of the present report was handled. Packets may be ignored
(`ignoreall`), unreadable (`Garbage`, `elantechPacketCheckV4`), or fall into the quiet time.
`interruptOccurred` only counts bytes, so `aligned` is all there is to say about framing.

### Synaptics

Physical fingers carry positions, virtual fingers identity and type; `virtualFingerIndex`
links them, and `renumberFingers` keeps the link when the number of fingers changes.
Positions are left out: which virtual finger is nearest, and whether a finger jumped, is a
choice (`Nearest`, `Matchings`), so the properties hold for all positions. `NormalPacket`,
`AgmPacket` and `PassthruPacket` are the parsers with all they call up to
`sendTouchData`. Fingers on the pad may change arbitrarily between two packets. `Start` has
the hand-over of a pad that is on the SMBus as well, with the resets of the companion
(`ResetDevice`). `missed` counts the packets that fell into a quiet time:
`ContactsAreFingers` is stated for behaviours without any, and the run `synaptics_quiet`
shows why.

`ContactsAreFingers` and `FingersHaveTypes` are stated for pads that tell up to four fingers.
Both fail for a fifth, and that is what the code does: `assignFingerType` has four types to
give besides the thumb's, and when three fingers join two, `renumberFingers` leaves one of
them with the virtual finger it had before, which may be another's by then.

### PadStream

Of a byte the model keeps what `interruptOccurred` can take it for: a first byte, a fourth
byte, AA, 00, anything else. Bytes may be lost, and a sleep cuts a packet off anywhere.
`plain` says of a packet that only its marked bytes look marked; one such packet suffices to
get back in step. A Sentelic driver that misses the answer of `fsp_intellimouse_mode` and
the pad may disagree on the length of a packet; `agreed` records it.

### PadGate

`ignoreall` is set and cleared by the keyboard (`message`), by settings and by mice that
come and go. `user` remembers that the keyboard switched the pad off last. `led` is the light
on the pad, which follows if the pad answers.

### Sentelic

Registers are read and written by sampling-rate commands; values that look like a rate or a
command are sent swapped or inverted, and `Understood` is the pad's side of that. `Packet`
is a packet of the pad caused by a press or by a tap, tagged if the register says so.
An answer that is missed is an input; `garbled` remembers it, since what is written back then is
the low byte of -1.

### ControllerBoot

`chip` is the 8042: command byte (as a set of bits), whether it can multiplex and does, and the
clocks of the four mouse ports. `ctl` is the driver. `Reads` is what `setCommandByteGated` may
take for the command byte: the byte itself or one of `Strays`, a key byte or what a time-out
leaves; nothing in the code tells them apart. `clean` remembers since which reset the reads,
and at which calls of `setMuxMode` the answers, were right. `PowerLost` is a sleep in which
the firmware sets the chip up anew.

### Configuration

A value is a number, string, Boolean, array or dictionary (`Values`, nested at most `Depth`
deep). `Writes` says how the tables in `Docs/ACPI` write a value as an ACPI object, a
dictionary as a package of names and values (external); `TranslateEntry` is what the code
makes of an object, a function that is recursive in packages as `translateEntry` and
`translateArray` are. `FollowLinks` are the entries of a profile that name another: an
entry that is a string is looked up again, until one is a dictionary or absent. A
name that may be missing is a sequence of at most one. `Probe` is the
call of `makeConfigurationNode` by a driver; RMCF may not be ready at the first probe, and
`_rmcfCache` keeps the first answer. The reference definition (`NodeMeant`, `LayersMeant`,
`Overlaid`) does not follow the code: it says where a chain of links leads, and for each key
which of the layers has the last word.

## 3. Runs

| Run | Shows | Instance |
|---|---|---|
| `ring` | whole packets in order, no torn read, no drop below capacity, FIFO refinement, no stranded packet | 2 byte values, packets of 2 bytes, 4 slots |
| `touch` | the promises of `Docs/HARDWARE.md` on clicks and Force Click; the timer matches the hold through sleeps and failed wakes; with interleaved handlers, a hold ends as a Force Click or with its release | 2 fingers, 2 positions, 1 step |
| `fte` | records are reports, the client shows the last report | 5 contact layouts, 2 button masks, 2 records waiting |
| `requests_careful` | "Everyone wins": no data byte lost, doubled or reordered; requests get their own answers | keyboard and aux, 2 requests, up to 3 data bytes each |
| `requests_answers` | silent, refusing and late devices block no request; the queue is not overtaken | 2 requests, 1 data byte each |
| `power` | sleep silences, wake restores, transitions end | keyboard and one pad |
| `keyboard` | every packet is dispatched once and in order, what is held back for a macro is sent; ordinary keys never stick, sleep needs a hold | input: 3 keys, 2 macros with a common beginning, ring of 3 slots; dispatch: 16 keys in scan order, 3 down at a time, every setting on |
| `mouse` | driver and mouse agree on their place in a report; a report without movement brings them together again; no click of left or right is lost, a held one is shown, no button is invented | 4 kinds of mouse, 3 button sets, deltas 0 and AA, wheel 0 and 8, ring of 3 slots; every mask of 4 buttons |
| `touchpads` | Elan reports are shown whole and leave no button down; Synaptics fingers have identities and types of their own, and the trackpoint keeps its button; framing; nobody is locked out; taps are filtered | 7 Elan pads (`MCPads`), 3 Synaptics pads, 2 mice, 9 register values |
| `controller` | the command byte suits the installed handlers, driver and chip agree on the multiplexing; drivers get the configuration that is meant | every command byte of the firmware, 3 strays, 2 mouse drivers; 3 profiles, 25 platforms, 5 overrides, 2 drivers |

Why the bounds are enough: packets of two bytes tell whole packets from torn ones, and
four slots make the ring full, wrapped and partly full; the proofs remove the bound.
Two fingers give a clicking and a bystanding one and a change of the lower finger. The
FTE layouts have every length (short with 0, 1, 2 contacts, long with 3 and 4) and two
waiting records show any mixture. Two requests suffice to queue and to block, three
data bytes for one put aside, one in the buffer and one on the line. One pad suffices
for the lock order; the number of drivers is arbitrary in the proof. Of the two macros
one ends where the other goes on and they need opposite modifiers, so a packet can
complete, extend or break a match and a broken match can begin another; two packets fill
the ring, so it overflows. Every special case of the keyboard looks at two modifiers and
one key, hence three keys at a time. The bytes of the mouse are the ones that the framing
can mistake: AA and 00, and a wheel byte and deltas with bit 3, like a first byte.
The Elan pads have every hardware version and, for versions 1 and 4, the variants the code
distinguishes (early firmware, trackpoint). Four fingers on a Synaptics pad reach every
branch of `renumberFingers`, the choice of a thumb included. `QuietFingers` and `QuietPackets`
are 2: one packet in a quiet time for the number of fingers to change and one to come back.
Two mice (`MaxPointers`, `MaxMice`) tell the first from a further one and the last from one
before it. The register values of `OpcValues` have every way of mangling and the bits that
the driver sets, each set and clear. The strays are a time-out (zero), a byte that clears the
bits that matter and one that sets them. The proofs remove the bound on the strays.

`TypeOK` documents the state of each module and is part of the inductive invariants;
the proofs establish it where there are proofs.

`CHECK_DEADLOCK FALSE` appears in the requests runs only: each request is submitted
once and the devices send a bounded number of bytes, so they come to rest.

### Runs that disagree with the repository

`power_lock_order`: a comment in `setPowerStateGated` says "Acknowledge the power change
before the power management timeout expires". With drivers that start during a wake, it is
never acknowledged: `start` takes the gate under `_cmdbyteLock`, the wake action
`_cmdbyteLock` under the gate.

`synaptics_quiet`: `sendTouchData` logs "WTF?! tducers_count %d clampedFingerCount %d" when the
number of contacts in an event is not the number of fingers, and then sends the event all the
same. In the quiet time after a key press it returns before it stores `lastFingerCount`, while
`renumberFingers` has already changed the virtual fingers; after the quiet time the stale
count may equal the new one, nothing is renumbered, and the counts differ.

### Fairness

* `ring`: the interrupt handler returns; the kernel runs a work loop that was signalled.
  Nothing makes the device send.
* `touch`: of the interleaved handlers, both work loops run (weak fairness); two seconds pass although packets
  keep coming (strong fairness, since each packet disables the step for a moment).
* `requests_*`: the 8042 passes bytes on, interrupts are taken, the work loop runs
  (weak); the gate eventually lets each waiting thread in (strong: it is taken and
  released in between). No device has to answer.
* `keyboard`: a signalled work loop runs `packetReady`, an armed timer expires
  (weak); `onMacroTimer` leaves its loop if it finds the ring empty again and again
  (strong). `HeldBackIsSent` is stated for runs in which the ring is empty infinitely
  often: a keyboard that outpaces the work loop for ever can keep the timer's handler
  inside `packetReady`.
* `mouse`: the button timer fires (weak). No packet has to come.
* `power*`: code that has begun runs to its end, and the gate and the lock are granted in
  turn to those who wait (strong). That is the best the system can do, so the deadlock of
  `power_lock_order` is not an artefact of the scheduler.

## 4. Theorems

**PacketRing**, for every packet length above 0 and every ring of at least two slots:
`RingTypeOK`, `RingNoTornRead`, `RingFetchedDataExists`, `RingDropsOnlyWhenFull`. The
inductive invariant is `RingInv`: type correctness, the two safety properties, and what
`advanceHead` relies on. `NoTornRead` alone is not inductive: the interrupt may move the
head only because the count it took first is 0 or exceeds the present one by a packet,
and that survives steps of `packetReady` because the tail only moves towards the head.
The arithmetic of offsets (multiples of the packet length are a packet apart) is in
lemmas at the top of the module; every later step is linear.

`RingImplementsFifo` proves the refinement itself, for the same lengths and rings: the
mapping takes the slots from the tail to the head for the queue. Of all stores of both
handlers only two are steps of `PacketFifo`: the store of `advanceHead` adds a packet, and
the first store of `advanceTail` takes the oldest away; its second one, the wrap, changes no
packet. The lemmas say which slot the n-th packet is in, that the slot at the head is none of
them (so that storing a byte there is silent), and that they are the same slots, but for
one, after either index has moved. `RingInv` supplies the rest.

**FocalTechTouch**, for every number of fingers, size of the pad, threshold and set of
packets: the safety properties of the run `touch`, as `TouchTypeOK`,
`TouchTimerMatchesHold`, `TouchForceNeedsPress`, `TouchNoPhantomButton`,
`TouchPressureReplacesButton`, `TouchForceOnlyAfterStillHold` and
`TouchSideLatchedAwake`. The inductive invariant is `TouchInv`. `ClickInv` says that
eligible, active and right exclude each other and need the press; without it a timer
that fires could leave a hold eligible for ever. `HoldInv` ties an eligible hold to the
history of the reports. `ClientInv` says that the buttons last computed, and the
client's, follow from `hardware` and `click` as long as the machine has not slept.
That a press with a finger on the pad finds one (`ClickFingerPresent`) rests on the
well-foundedness of the natural numbers.

**FTE0001**, for any contacts, layouts and buttons that the constants' assumption allows and
a ring of any length: `FTERecordsAreReports`, `FTEClientFollowsReports`. The inductive
invariant of the first is `FTEInv`: what the driver has of a report and what the pad has
still to send are together that report, and from the fifth byte on the driver knows its
length; between reports it has nothing, unless a sleep cut one off. The second adds that
driver and client agree on the buttons until the first sleep, and rests on `RecordBytes`,
the place of each byte in the padded record. A short report has no contacts in the slots it
leaves to the padding, which is where the assumption on `Layouts` is needed.

**PS2Requests**, for any ports, requests, programs and answers, on one CPU or several:
`RequestsTypeOK`, `RequestsQueuedFirst`. `QueuedFirst` says nothing of requests that are
not completed, so it is not inductive; `OrderInv` says the same of the line that consists
of the completed requests, those in `localQueue` and those in the queue. Taking requests
from the queue and completing one leave the line as it is; submitting, and getting through
the gate, add to its end.

`EveryoneWinsIfCareful` and `RequestsSucceedIfCareful` hold for any ports and requests that
meet `Careful`: the handler runs to its end, devices acknowledge before the timeout, at most
one data byte comes before an answer, and every program compares each acknowledge, reads
each reply and flushes nothing. Each of these is needed: two CPUs, two early bytes and a
late answer lose or misplace a byte (section 5), a flush drops data on purpose, and an
acknowledge that nobody compares reaches a driver as data. The invariant is `CarefulInv`. Its
core is `Shape`: from the command in hand it follows which answers are due (`AckDue`,
`ReplyDue`), and what comes to the port of the request is at most one data byte, then
exactly these answers, then at most one data byte; on every other port it is at most one
data byte. `OneReader` says that the handler and the polled reads never both read, so that
what either saw in the output buffer is still there. From `Shape` it follows that no poll times out (`NeverLate`), that no
second byte has to be put aside (`NoSecondByte`), and that the handler meets no answer; so
each step either leaves the bytes in sequence or takes the first of them.

**PowerTransitions**: `PowerPhases` and `PowerIgnoresAsleep` hold for any drivers, with or
without overlap. Inside a transition the phase, the old and the new state fix
`_ignoreInterrupts` and `_hardwareOffline`. `PowerSleepSilences` holds for any number of
drivers that do not start or stop during a transition (`~Overlap`; with overlap the
locks may be taken in the opposite order, see section 3), and `PowerWakeRestores` if, besides,
there is one mouse at most, as the comment at line 812 assumes. Their invariants, `DeviceInv`
and `RestoreInv`, say how far a transition has got: the drivers that were told are silent,
or enabled, and the others are those still in `todo`. `CountsRight` ties the counters of the
interrupt lines to the drivers that run, and `Started` says that a start has enabled line
and device before it counts as running.

**The compositions.** What is proved about a module joined by `Keyboard`, `Mouse` or
`Touchpads` is stated of the composition, as the run checks it. `MouseHalves`,
`KeyboardHalves` and `PartSteps` are the link: every step of the whole is a step of the
module it belongs to and leaves the others as they are.

**MouseButtons**, for every set of masks and every setting: `ButtonsPressIsKept`,
`ButtonsNoPhantomButton`. The inductive invariant is `ButtonsInv`. `OwedInv` says that the
press that is owed is a single button and all that is pending: otherwise a packet that
shows one of two pending buttons would end the wait and forget the other. `FollowsPacket`
says that what is pending, the middle button and `lastbuttons` come from the last packet, which
is what the timer's handler dispatches without having seen a packet. `TimerInv`
says that the timer is set only in the waiting states. `Outcome` reduces `middleButton` to
the three ways in which it ends, and each step has a lemma of its own.

**ControllerBoot**, for every set of stray bytes: `BootInvariant`, `BootCommandByteRight`,
`BootMuxAgreed`. The inductive invariant is `BootInv`. `CommandByteRight` alone is not
inductive: it says nothing of the mouse port's clock while no mouse driver is installed, and
the first one installs its handler without looking at it. `AuxClocked` says that the
clock is on all the time; `Stopped`, `NoMouse` and `ByteAsleep` say what a driver that has
not started, one that has only the keyboard, and a sleeping one leave behind. For the
multiplexing, `MuxKnown` says that a driver that was answered right at its start knows what
the chip can do, which is what a wake relies on, since it does not look at the result of
`setMuxMode`. Each operation on the chip has a lemma, each action a step of the proof.

**MouseStream**, for every set of mice, button sets, deltas, wheel values and ring length
that the assumption allows: `MouseStaysFramed`, `StillReportsResync`. The inductive invariant
is `StreamInv`. `LengthsInv` says that the driver's packet length is the mouse's unless a
question about its type went unanswered, and never more; `PlacesInv` and `ComingInv` say where
each is in its packet and which bytes are to come, and
`AlignedInv` that the driver has what the mouse sent. `SettlingInv` makes the second property
inductive: in a report without movement the driver either waits for a first byte, or needs
no more bytes for its packet than the mouse has still to send, so that the end of the report
finds it waiting.

**KeyboardDispatch**, for every keyboard (`ScanOrder`), every set of features and either
Command key: `KeysInvariant`, `KeysNeverStick`, `SleepIsHeld`. The inductive invariant is
`KeysInv`: type correctness and `Good`, which relates what the client believes to be down,
and the driver's modifiers and pending timers, to the keys that are down. Each special case of
`dispatchKeyboardEventWithPacket` has a lemma. `initKeyboard` is a loop over the keyboard:
since an induction theorem cannot be instantiated by these provers, the proof takes a least
position at which the loop would have broken the invariant and shows that there is none.

**KeyboardInput**, for every keyboard, ring length and list of macros: `InputInvariant`,
`PacketsGoOnceInOrder`. The invariant is little more than type correctness; the work is in what
a handler does to sequences. `Inverted` is the central lemma: what `invertMacros` has
dispatched, macros unfolded, and what it holds back are together what it held back before and
the new packet, in the three cases (no macro goes on, one is complete, one may follow), with
and without a late packet. A buffer that is as long as the macro it matches is that macro
(`Completed`). `FlattenSeq` is a recursive function: the lemmas `FlattenEnds` and `FlattenOnce`
show that its loop exists and is unique, and `FlattenAppend` and `FlattenCons` what an element
at either end adds.

**PadGate**, for any number of mice: `NeverLockedOut`. `GateInv` says that a pad ignored for
a mouse has a mouse attached and the setting that asks for it.

**PadStream**: `PadStaysFramed`, `PlainPacketsResync`. The inductive invariant is `PadInv`.
`Settles` lists where the driver can be after the first bytes of a plain packet: a Sentelic
driver has no more to wait for than the pad has to send; a Synaptics driver is at one of a few
places, from which the marked fourth byte brings it back.

**Sentelic**, for any register values: `TapsNeverClick`. `TagInv` says that a pad that is on and
has answered tags its taps. It rests on the lemmas about the register protocol: the pad
understands every value as it was meant, however it was mangled, and setting one bit keeps
the others.

**Elan**, for every set of pads that the assumption allows: `ElanInvariant`,
`ReportsAreShown`, `ButtonsNeverStick`. The inductive invariant is `ElanInv`. `Fit` says that
the driver took the pad for the version it is; `Shown` says what a driver that handled
everything so far has: the fingers that were shown, and for those still to come the counters
`heldFingers` and `headPacketsCount` (version 4), or that the first of two packets was seen
(version 3). The property itself speaks only of finished reports, and whether one can be
finished rightly is decided in the middle of it.

**Synaptics**, for every set of pads: `SynapticsInvariant`, `ContactsStayFingers`,
`FingersKeepTypes`, `StickKeepsButton`. The inductive invariant is `SynapticsInv`. `CountsInv`
says that the counts of fingers are at most the pad's. `FingersInv` says that the first
`lastFingerCount` physical fingers are mapped one-to-one onto the virtual fingers that
touch, that the types of these differ, and that a type nobody has is free. The last
part is not in the properties: without it a finger might land and find no type, although
fewer than five touch. Each case of `renumberFingers` has a lemma; that any matching of
fingers is one-to-one and onto is counting (`FiniteSetTheorems`). For `StickKeepsButton` it
is proved for five fingers too that renumbering leaves counts and trackpoint alone.

**Configuration**, for any profiles, platforms, overrides and lists that meet the
assumptions of the module: `FollowLinksMeant`, `PackagesTranslated`, `ProbesInvariant` and
`ProbesConfigureAsMeant`, which is `ConfiguredAsMeant`. The two operations are recursive
functions, and a function defined by an equation has the value of a solution once one is
known to exist. The reference definition is shown to be a solution. Where another solution
differed from it, there would be a shallowest value at which they differ, whose parts,
being shallower, agree: a contradiction. This takes the well-foundedness of the natural
numbers (`WFMin`) and no induction over data. The assumptions are that links between
profiles make no cycle, and that values are ones an ACPI package can carry: no
empty dictionary, and no string `>>y` or `>>n`, which in a package mean `>y` and `>n`.
That `"Default"` is a string is spelled out in `ListsAssumption` because the provers have no
rule for string literals.

**The safety behind the liveness properties.** What must eventually happen is model-checked
(below). What makes it happen is proved, for every value of the constants:

- `RingNoLostSignal` and `RingGetsCloser`, behind `EveryPacketHandled`. While a packet is in
  the ring, a signal is pending or `packetReady` is running and has yet to look at the count;
  and every step of `packetReady` brings it closer to the end of a packet, which no step of
  the interrupt undoes.
- `RaceHoldHasTimer`, behind `HoldIsResolved` (`FocalTechForceRace`). A hold that may become
  a Force Click has its timer set or due, its promotion begun, or its release in hand,
  wherever either handler is stopped. The invariant adds that the hold outlives the press
  only inside the handler that will end it.
- `RequestsNoneForgotten`, behind `RequestsComplete`. Each submitted request waits at the
  gate, is in the queue or `localQueue`, or was completed, and it is completed once. It is
  read off the line of `OrderInv` together with `AccountedFor`: every request has at most
  one place in that line, and one that waits has none.
- `PowerLockFree` and `PowerNearsEnd`, behind `TransitionEnds`. Without overlap the lock that a
  wake takes under the gate is free, since only a start or stop in progress holds it; and, with
  or without overlap, each step of a transition ends it or leaves less of it to do.
- `ButtonsHeldHaveTimer` and `ButtonsTimerShowsPress`, behind `PressIsShown`. A button held
  back has its timer set, unless the setting was changed or the mouse reset meanwhile; the
  timer of a press that is owed shows it.
- `HeldBackTimed`, behind `HeldBackIsSent`. A packet held back for a macro has the macro timer
  set, or `onMacroTimer` at work and still to look at it; a wake keeps both.

Only model-checked: the six liveness properties themselves. That an enabled step is taken
is fairness, which speaks of ENABLED, and both are beyond TLAPS. Every invariant and
every action property of a passing run is stated by a theorem. The two runs that expect a
violation are counterexamples, and there is nothing in them to prove.

## 5. Not modelled

* Transducer geometry, widths, pressure values, timestamps, diagnostics and properties:
  no decision of the modelled code reads them.
* Loss of single bytes on the line to a FocalTech pad. The FLT protocol has no
  resynchronisation at all and FTE0001 only its header test, which also accepts the bytes
  FA and FF that occur inside reports; the repository promises nothing about it.
* More than one CPU in `PS2Requests`: with `OneCpu` FALSE a poll and a handler read one
  byte twice. More than one early data byte (`Window` above 1): the second is delivered,
  the first is taken for the answer, as the comment at line 1510 admits.
* Two mice in the run of `PowerTransitions`: the comment at line 812 assumes one. With two
  and overlapping start and stop, the module reaches an installed driver whose interrupt
  line is off.
* Mouse: deltas, acceleration and the scroll wheel's arithmetic; no state depends on them.
* Keyboard: LEDs and the caps-lock workaround, backlight and brightness levels, parsing
  of the maps in the configuration, `kPS2K_notifyKeystroke`, and `packetReady` running on
  two work loops at once (a hazard without a property).
* ALPS: nine protocols that differ in bit layouts and register scripts. Decoding them is data
  and not control; what is control in them (framing, reports of two packets, mice and the
  switch) is of the kinds modelled for the other pads.
* Pads: coordinates, pressure, scaling of the trackpoint, clickpad buttons, and the values
  of the Elan registers; which finger is nearest is a choice instead.
* Controller: `resetDevices`, a `start` that fails half-way, `dispatchMessage`, and cyclic
  links in a profile, on which `_getConfigurationNode` would not return; the profiles that
  ship have none.
* IOKit plumbing (attach, matching, property publication), the ACPI nub, the matching of the
  SMBus companion, the build scripts.

## 6. Plan

1. **Keyboard**: the composition of its two modules, for a wake that meets a held-back
   packet, and `packetReady` with two consumers of one ring.
2. **Composition**: wake requests together with packet assembly; `PadStream` with the
   packets of `Synaptics`.
3. **ALPS**: the reports of two packets of protocols 3 and 5, on the pattern of `Elan`.
4. **Proofs**: every invariant of the runs that is within TLAPS has its theorem; new
   components bring theirs.

Bounds stay where a run takes well under five minutes; where a bound would have to
shrink below the interesting cases, the property is a candidate for a proof.
