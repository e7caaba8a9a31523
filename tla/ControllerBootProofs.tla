------------------------ MODULE ControllerBootProofs ------------------------
(***************************************************************************)
(* CommandByteRight and MuxAgreed hold in every reachable state of         *)
(* ControllerBoot, whatever bytes are misread and whenever the chip loses  *)
(* its power; ConfiguredAsMeant in every one of Configuration, whatever    *)
(* the profiles, the computer and RMCF are.                                *)
(*                                                                         *)
(* What the two recursions of Configuration compute is proved without      *)
(* induction over data.  A recursive function is the solution of its       *)
(* equation if there is one; what the names and packages mean is shown to  *)
(* be one, and a value of least depth where another solution differs to be *)
(* no such value.                                                          *)
(***************************************************************************)
EXTENDS ControllerBoot, Configuration, TLAPS, WellFoundedInduction, SequenceTheorems

(* ps2kbdonly leaves no nub on which a mouse driver could start. *)
NoMouse == ctl.phase # "new" /\ ctl.kbdOnly => ctl.nubs = 1 /\ ctl.mice = 0

(* A stopped driver knows nothing of the chip; a sleeping one knows that   *)
(* the translation is on and, with ps2kbdonly, that the mouse port is off. *)
Stopped == ctl.phase = "new" => ~ clean.byte /\ ~ clean.start
ByteAsleep ==
    ctl.phase = "asleep" /\ clean.byte =>
        /\ "translate" \in chip.byte
        /\ ctl.kbdOnly => "auxOff" \in chip.byte /\ "auxIRQ" \notin chip.byte

(* Without ps2kbdonly the mouse port is on before any mouse is there. *)
AuxClocked ==
    ctl.phase = "running" /\ clean.byte /\ ~ ctl.kbdOnly => "auxOff" \notin chip.byte

(* Only a capable chip multiplexes, and a driver that was told right knows *)
(* whether it may.                                                         *)
MuxCapable == chip.mux => chip.capable
MuxKnown ==
    ctl.phase # "new" /\ clean.start =>
        (ctl.mux => chip.capable) /\ (chip.mux => ctl.mux)

BootInv == /\ TypeOK /\ NoMouse /\ Stopped /\ ByteAsleep /\ AuxClocked
           /\ CommandByteRight /\ MuxCapable /\ MuxKnown /\ MuxAgreed

-----------------------------------------------------------------------------
(***************************************************************************)
(* What the operations on the chip leave                                   *)
(***************************************************************************)
(* The command byte that is read is a command byte, right or not. *)
LEMMA ReadsAreBytes == ASSUME NEW c \in Chip PROVE Reads(c) \subseteq CommandByte
  BY StraysAssumption DEF Reads, Chip

(* setCommandByteGated changes nothing but the command byte, and sets what *)
(* it should if the byte was read right.                                   *)
LEMMA SetByte ==
  ASSUME NEW c \in Chip, NEW old \in CommandByte,
         NEW set \in CommandByte, NEW clear \in CommandByte,
         NEW d, d = SetCommandByte(c, old, set, clear)
  PROVE  /\ d \in Chip
         /\ d.capable = c.capable /\ d.mux = c.mux /\ d.ports = c.ports
         /\ old = c.byte => d.byte = (old \cup set) \ clear
  BY DEF SetCommandByte, Chip, CommandByte

(* resetController ends the multiplexing and sets the translation. *)
LEMMA ResetByte ==
  ASSUME NEW c \in Chip, NEW k \in BOOLEAN, NEW old \in CommandByte,
         NEW d, d = ResetController(c, k, old)
  PROVE  /\ d \in Chip /\ d.capable = c.capable
         /\ ~ d.mux /\ ~ d.ports
         /\ "translate" \in d.byte /\ "kbdOff" \notin d.byte
         /\ "kbdIRQ" \notin d.byte /\ "auxIRQ" \notin d.byte
         /\ k /\ "auxOff" \in old => "auxOff" \in d.byte
         /\ ~ k => "auxOff" \notin d.byte
  BY DEF ResetController, Chip, CommandByte, Bits, IRQs

(* With ps2kbdonly the mouse port is off when resetController reads. *)
LEMMA ClockedByte ==
  ASSUME NEW c \in Chip, NEW k \in BOOLEAN
  PROVE  Clocked(c, k) \in Chip /\ (k => "auxOff" \in Clocked(c, k).byte)
  BY DEF Clocked, Chip, CommandByte, Bits, Clocks

(* setMuxMode and enableMuxPorts leave the command byte. *)
LEMMA MuxSet ==
  ASSUME NEW c \in Chip, NEW right \in SUBSET (1 .. 3), NEW d, d = SetMuxMode(c, right)
  PROVE  /\ d \in Chip /\ d.byte = c.byte /\ d.capable = c.capable
         /\ d.ports = c.ports
         /\ d.mux <=> c.mux \/ (c.capable /\ {1, 2} \subseteq right)
  BY DEF SetMuxMode, Chip
LEMMA PortsSet ==
  ASSUME NEW c \in Chip, NEW d, d = EnableMuxPorts(c)
  PROVE  /\ d \in Chip /\ d.byte = c.byte /\ d.capable = c.capable
         /\ d.mux = c.mux /\ d.ports = c.mux
  BY DEF EnableMuxPorts, Chip

-----------------------------------------------------------------------------
(***************************************************************************)
(* The invariant                                                           *)
(***************************************************************************)
LEMMA BootInit == Init => BootInv
<1> SUFFICES ASSUME Init PROVE BootInv
  OBVIOUS
<1>1. chip \in Chip /\ chip.mux = FALSE
  BY DEF Init, Chip
<1>2. ctl \in Controller /\ ctl.phase = "new"
  BY DEF Init, Controller, MaxMice
<1>3. clean \in Clean /\ clean.byte = FALSE /\ clean.start = FALSE
  BY DEF Init, Clean
<1> QED
  BY <1>1, <1>2, <1>3 DEF BootInv, TypeOK, NoMouse, Stopped, ByteAsleep, AuxClocked, CommandByteRight,
                          MuxCapable, MuxKnown, MuxAgreed

(* start: the reset, then setMuxMode, whose answers decide on the nubs *)
LEMMA BootStart ==
  ASSUME BootInv, NEW k \in BOOLEAN, NEW reset \in SUBSET {"boot", "wake"},
         NEW right \in SUBSET (1 .. 3), Start(k, reset, right)
  PROVE  BootInv'
<1> DEFINE byte == Clocked(chip, k).byte
<1>1. chip \in Chip /\ Clocked(chip, k) \in Chip /\ (k => "auxOff" \in byte)
  BY ClockedByte DEF BootInv, TypeOK
<1>2. PICK old \in Reads(Clocked(chip, k)) :
        LET first == IF "boot" \in reset THEN ResetController(chip, k, old) ELSE chip
            mux == ~ k /\ MuxFound(first, right)
        IN  /\ chip' = IF k THEN first ELSE SetMuxMode(first, right)
            /\ ctl' = [phase |-> "running", kbdOnly |-> k, reset |-> reset,
                       mux |-> mux, nubs |-> NubsCount(k, mux),
                       keyboard |-> FALSE, mice |-> 0]
            /\ clean' = [byte |-> "boot" \in reset /\ old = byte, mux |-> TRUE,
                         start |-> IF k THEN "boot" \in reset ELSE right = 1 .. 3]
  BY DEF Start
<1> DEFINE first == IF "boot" \in reset THEN ResetController(chip, k, old) ELSE chip
           mux == ~ k /\ MuxFound(first, right)
<1>3. old \in CommandByte
  BY <1>1, ReadsAreBytes
<1>4. /\ first \in Chip /\ first.capable = chip.capable
      /\ first.mux => chip.mux
      /\ "boot" \in reset => ~ first.mux
      /\ "boot" \in reset /\ old = byte =>
            /\ "translate" \in first.byte /\ "kbdOff" \notin first.byte
            /\ "auxIRQ" \notin first.byte
            /\ k <=> "auxOff" \in first.byte
  <2>1. CASE "boot" \in reset
    <3>1. first = ResetController(chip, k, old)
      BY <2>1
    <3>2. (old = byte /\ k) => "auxOff" \in old
      BY <1>1
    <3> HIDE DEF first, byte
    <3>3. /\ first \in Chip /\ first.capable = chip.capable /\ ~ first.mux
          /\ "translate" \in first.byte /\ "kbdOff" \notin first.byte
          /\ "auxIRQ" \notin first.byte
          /\ k /\ "auxOff" \in old => "auxOff" \in first.byte
          /\ ~ k => "auxOff" \notin first.byte
      BY <3>1, <1>1, <1>3, ResetByte DEF Chip
    <3> QED BY <2>1, <3>2, <3>3
  <2>2. CASE "boot" \notin reset
    BY <2>2, <1>1
  <2> QED BY <2>1, <2>2
<1> DEFINE last == IF k THEN first ELSE SetMuxMode(first, right)
<1>5. /\ last \in Chip /\ last.byte = first.byte /\ last.capable = first.capable
      /\ k => last = first
      /\ ~ k => (last.mux <=> first.mux \/ (first.capable /\ {1, 2} \subseteq right))
  BY <1>4, MuxSet
<1>6. right = 1 .. 3 => (MuxFound(first, right) <=> first.capable)
  BY DEF MuxFound
<1> HIDE DEF byte
<1>7. chip' = last /\ last.capable = chip.capable
  BY <1>2, <1>4, <1>5
<1>8. /\ ctl' \in Controller /\ ctl'.phase = "running" /\ ctl'.kbdOnly = k
      /\ ctl'.mice = 0 /\ ctl'.keyboard = FALSE /\ (k => ctl'.nubs = 1)
      /\ ctl'.mux <=> mux
  <2> HIDE DEF first
  <2>1. mux \in BOOLEAN
    BY DEF MuxFound
  <2>2. NubsCount(k, mux) \in {1, 2, 5} /\ (k => NubsCount(k, mux) = 1)
    BY DEF NubsCount
  <2>3. ctl' = [phase |-> "running", kbdOnly |-> k, reset |-> reset,
                mux |-> mux, nubs |-> NubsCount(k, mux), keyboard |-> FALSE, mice |-> 0]
    BY <1>2 DEF first
  <2> HIDE DEF mux
  <2> QED BY <2>1, <2>2, <2>3 DEF Controller, MaxMice
<1>9. /\ clean' \in Clean
      /\ clean'.byte <=> "boot" \in reset /\ old = byte
      /\ clean'.start <=> IF k THEN "boot" \in reset ELSE right = 1 .. 3
  <2> DEFINE read == "boot" \in reset /\ old = byte
             answered == IF k THEN "boot" \in reset ELSE right = 1 .. 3
  <2>1. read \in BOOLEAN
    OBVIOUS
  <2>a. answered \in BOOLEAN
    <3>1. CASE k
      BY <3>1
    <3>2. CASE ~ k
      BY <3>2
    <3> QED BY <3>1, <3>2
  <2>2. clean' = [byte |-> read, mux |-> TRUE, start |-> answered]
    BY <1>2
  <2> HIDE DEF read, answered
  <2>3. clean' \in Clean /\ clean'.byte = read /\ clean'.start = answered
    BY <2>1, <2>a, <2>2 DEF Clean
  <2> QED BY <2>3 DEF read, answered
<1> HIDE DEF last
<1>10. TypeOK' /\ NoMouse' /\ Stopped' /\ ByteAsleep'
  BY <1>5, <1>7, <1>8, <1>9 DEF TypeOK, NoMouse, Stopped, ByteAsleep
<1>11. CommandByteRight' /\ AuxClocked'
  BY <1>4, <1>5, <1>7, <1>8, <1>9 DEF CommandByteRight, AuxClocked
<1>12. MuxCapable'
  BY <1>4, <1>5, <1>7 DEF MuxCapable, BootInv
<1>13. clean'.start => (ctl'.mux <=> chip'.mux)
  <2>1. CASE k
    BY <2>1, <1>4, <1>5, <1>7, <1>8, <1>9
  <2>2. CASE ~ k
    <3>1. first.mux => first.capable
      BY <1>4 DEF BootInv, MuxCapable
    <3> QED BY <2>2, <3>1, <1>5, <1>6, <1>7, <1>8, <1>9
  <2> QED BY <2>1, <2>2
<1>14. MuxKnown' /\ MuxAgreed'
  BY <1>5, <1>7, <1>8, <1>9, <1>12, <1>13
     DEF MuxKnown, MuxAgreed, MuxCapable, Controller, Chip
<1> QED BY <1>10, <1>11, <1>12, <1>14 DEF BootInv

LEMMA BootStop ==
  ASSUME BootInv, Stop
  PROVE  BootInv'
<1>1. /\ ctl' \in Controller /\ ctl'.phase = "new" /\ clean' \in Clean /\ chip' = chip
      /\ ~ clean'.byte /\ ~ clean'.start
  BY DEF BootInv, TypeOK, Stop, Controller, Clean
<1> QED
  BY <1>1 DEF BootInv, TypeOK, NoMouse, Stopped, ByteAsleep, AuxClocked, CommandByteRight,
              MuxCapable, MuxKnown, MuxAgreed

(* What Changes does to the chip and to what is known of it *)
LEMMA ChangedByte ==
  ASSUME NEW c \in Chip, clean \in Clean,
         NEW set \in CommandByte, NEW clear \in CommandByte, Changes(set, clear, c)
  PROVE  /\ chip' \in Chip /\ clean' \in Clean
         /\ chip'.capable = c.capable /\ chip'.mux = c.mux /\ chip'.ports = c.ports
         /\ clean'.mux = clean.mux /\ clean'.start = clean.start
         /\ clean'.byte => clean.byte /\ chip'.byte = (c.byte \cup set) \ clear
<1>1. PICK old \in Reads(c) : /\ chip' = SetCommandByte(c, old, set, clear)
                              /\ clean' = [clean EXCEPT !.byte = @ /\ old = c.byte]
  BY DEF Changes
<1>2. old \in CommandByte
  BY ReadsAreBytes
<1>3. /\ chip' \in Chip
      /\ chip'.capable = c.capable /\ chip'.mux = c.mux /\ chip'.ports = c.ports
      /\ old = c.byte => chip'.byte = (c.byte \cup set) \ clear
  BY <1>1, <1>2, SetByte DEF Chip
<1>4. /\ clean' \in Clean
      /\ clean'.mux = clean.mux /\ clean'.start = clean.start
      /\ clean'.byte <=> clean.byte /\ old = c.byte
  BY <1>1 DEF Clean
<1> QED BY <1>3, <1>4

(* installInterruptAction and uninstallInterruptAction: one bit changes,   *)
(* and with it what the driver has installed.                              *)
LEMMA BootKeyboard ==
  ASSUME BootInv, InstallKeyboard \/ UninstallKeyboard
  PROVE  BootInv'
<1>1. /\ ctl.phase = "running" /\ ctl' \in Controller
      /\ \E on \in BOOLEAN : ctl' = [ctl EXCEPT !.keyboard = on]
      /\ chip \in Chip /\ clean \in Clean
  BY DEF BootInv, TypeOK, InstallKeyboard, UninstallKeyboard, Controller
<1>2. /\ ctl'.phase = "running" /\ ctl'.kbdOnly = ctl.kbdOnly /\ ctl'.mice = ctl.mice
      /\ ctl'.nubs = ctl.nubs /\ ctl'.mux = ctl.mux
  BY <1>1 DEF BootInv, TypeOK, Controller
<1>3. PICK set \in CommandByte, clear \in CommandByte :
        /\ Changes(set, clear, chip)
        /\ set \subseteq {"kbdIRQ"} /\ clear \subseteq {"kbdIRQ"}
        /\ ctl'.keyboard => set = {"kbdIRQ"} /\ clear = {}
  <2>1. CASE InstallKeyboard
    BY <2>1 DEF InstallKeyboard, CommandByte, Bits
  <2>2. CASE UninstallKeyboard
    BY <2>2 DEF UninstallKeyboard, CommandByte, Bits, BootInv, TypeOK, Controller
  <2> QED BY <2>1, <2>2
<1>4. /\ chip' \in Chip /\ clean' \in Clean
      /\ chip'.capable = chip.capable /\ chip'.mux = chip.mux /\ chip'.ports = chip.ports
      /\ clean'.mux = clean.mux /\ clean'.start = clean.start
      /\ clean'.byte => clean.byte /\ chip'.byte = (chip.byte \cup set) \ clear
  BY <1>1, <1>3, ChangedByte DEF Chip, Clean
<1>5. clean'.byte => /\ \A b \in {"auxIRQ", "kbdOff", "auxOff", "translate"} :
                            b \in chip'.byte <=> b \in chip.byte
                     /\ ctl'.keyboard => "kbdIRQ" \in chip'.byte
  BY <1>3, <1>4
<1> QED
  BY <1>1, <1>2, <1>4, <1>5 DEF BootInv, TypeOK, NoMouse, Stopped, ByteAsleep,
     AuxClocked, CommandByteRight, MuxCapable, MuxKnown, MuxAgreed

LEMMA BootMouse ==
  ASSUME BootInv, InstallMouse \/ UninstallMouse
  PROVE  BootInv'
<1>1. /\ ctl.phase = "running" /\ ctl' \in Controller
      /\ \E n \in 0 .. MaxMice : ctl' = [ctl EXCEPT !.mice = n]
      /\ chip \in Chip /\ clean \in Clean
      /\ ctl.mice \in 0 .. MaxMice
  BY DEF BootInv, TypeOK, InstallMouse, UninstallMouse, Controller, MaxMice
<1>2. /\ ctl'.phase = "running" /\ ctl'.kbdOnly = ctl.kbdOnly
      /\ ctl'.nubs = ctl.nubs /\ ctl'.mux = ctl.mux /\ ctl'.keyboard = ctl.keyboard
  BY <1>1 DEF BootInv, TypeOK, Controller
<1>3. ~ ctl.kbdOnly
  BY DEF BootInv, NoMouse, InstallMouse, UninstallMouse
<1>4. CASE chip' = chip /\ clean' = clean /\ ctl.mice > 0
  BY <1>1, <1>2, <1>3, <1>4 DEF BootInv, TypeOK, NoMouse, Stopped, ByteAsleep,
     AuxClocked, CommandByteRight, MuxCapable, MuxKnown, MuxAgreed
<1>5. CASE InstallMouse /\ ctl.mice = 0
  <2> DEFINE c == IF ctl.mux THEN EnableMuxPorts(chip) ELSE chip
  <2>1. Changes({"auxIRQ"}, {}, c)
    BY <1>5 DEF InstallMouse
  <2>2. /\ c \in Chip /\ c.byte = chip.byte /\ c.capable = chip.capable
        /\ c.mux = chip.mux /\ (ctl.mux => c.ports = chip.mux)
    <3>1. CASE ctl.mux
      <4>1. c = EnableMuxPorts(chip)
        BY <3>1
      <4> HIDE DEF c
      <4> QED BY <4>1, <1>1, PortsSet DEF Chip
    <3>2. CASE ~ ctl.mux
      BY <3>2, <1>1
    <3> QED BY <3>1, <3>2
  <2> HIDE DEF c
  <2>3. {"auxIRQ"} \in CommandByte /\ {} \in CommandByte
    BY DEF CommandByte, Bits
  <2>4. /\ chip' \in Chip /\ clean' \in Clean
        /\ chip'.capable = c.capable /\ chip'.mux = c.mux /\ chip'.ports = c.ports
        /\ clean'.mux = clean.mux /\ clean'.start = clean.start
        /\ clean'.byte => clean.byte /\ chip'.byte = (c.byte \cup {"auxIRQ"}) \ {}
    BY <1>1, <2>1, <2>2, <2>3, ChangedByte DEF Chip, Clean
  <2>5. clean'.byte => /\ \A b \in {"kbdIRQ", "kbdOff", "auxOff", "translate"} :
                              b \in chip'.byte <=> b \in chip.byte
                       /\ "auxIRQ" \in chip'.byte
    BY <2>2, <2>4
  <2>6. TypeOK' /\ NoMouse' /\ Stopped' /\ ByteAsleep' /\ MuxCapable' /\ MuxKnown'
    BY <1>1, <1>2, <1>3, <2>2, <2>4
       DEF BootInv, TypeOK, NoMouse, Stopped, ByteAsleep, MuxCapable, MuxKnown
  <2>7. CommandByteRight' /\ AuxClocked'
    BY <1>1, <1>2, <1>3, <2>4, <2>5 DEF BootInv, CommandByteRight, AuxClocked
  <2>8. MuxAgreed'
    <3>1. chip'.ports = c.ports /\ chip'.mux = chip.mux /\ (ctl.mux => chip'.ports = chip.mux)
      BY <2>2, <2>4 DEF Chip
    <3> QED BY <1>1, <1>2, <2>4, <3>1 DEF BootInv, MuxAgreed
  <2> QED BY <2>6, <2>7, <2>8 DEF BootInv
<1>6. CASE UninstallMouse /\ ctl.mice = 1
  <2>1. Changes({}, {"auxIRQ"}, chip) /\ ctl'.mice = 0
    BY <1>6 DEF UninstallMouse, BootInv, TypeOK, Controller
  <2>2. {"auxIRQ"} \in CommandByte /\ {} \in CommandByte
    BY DEF CommandByte, Bits
  <2>3. /\ chip' \in Chip /\ clean' \in Clean
        /\ chip'.capable = chip.capable /\ chip'.mux = chip.mux /\ chip'.ports = chip.ports
        /\ clean'.mux = clean.mux /\ clean'.start = clean.start
        /\ clean'.byte => clean.byte /\ chip'.byte = (chip.byte \cup {}) \ {"auxIRQ"}
    BY <1>1, <2>1, <2>2, ChangedByte DEF Chip, Clean
  <2>4. clean'.byte => \A b \in {"kbdIRQ", "kbdOff", "auxOff", "translate"} :
                              b \in chip'.byte <=> b \in chip.byte
    BY <2>3
  <2> QED
    BY <1>1, <1>2, <1>3, <2>1, <2>3, <2>4 DEF BootInv, TypeOK, NoMouse, Stopped, ByteAsleep,
       AuxClocked, CommandByteRight, MuxCapable, MuxKnown, MuxAgreed
<1>7. \/ chip' = chip /\ clean' = clean /\ ctl.mice > 0
      \/ InstallMouse /\ ctl.mice = 0
      \/ UninstallMouse /\ ctl.mice = 1
  <2>1. ctl.mice # 0 => ctl.mice > 0
    BY <1>1 DEF MaxMice
  <2> QED BY <2>1 DEF InstallMouse, UninstallMouse
<1> QED BY <1>4, <1>5, <1>6, <1>7

(* The power transitions change the command byte twice. *)
LEMMA BootSleep ==
  ASSUME BootInv, Sleep
  PROVE  BootInv'
<1>1. chip \in Chip /\ clean \in Clean /\ ctl \in Controller
  BY DEF BootInv, TypeOK
<1>2. PICK old1 \in Reads(chip) :
        LET quiet == SetCommandByte(chip, old1, {}, IRQs)
        IN  \E old2 \in Reads(quiet) :
               /\ chip' = SetCommandByte(quiet, old2, Clocks, {})
               /\ clean' = [clean EXCEPT !.byte = @ /\ old1 = chip.byte /\ old2 = quiet.byte]
  BY DEF Sleep
<1> DEFINE quiet == SetCommandByte(chip, old1, {}, IRQs)
<1>3. PICK old2 \in Reads(quiet) :
        /\ chip' = SetCommandByte(quiet, old2, Clocks, {})
        /\ clean' = [clean EXCEPT !.byte = @ /\ old1 = chip.byte /\ old2 = quiet.byte]
  BY <1>2
<1>4. {} \in CommandByte /\ IRQs \in CommandByte /\ Clocks \in CommandByte
  BY DEF CommandByte, Bits, IRQs, Clocks
<1>5. PICK mid : mid = quiet
  OBVIOUS
<1>6. old1 \in CommandByte
  BY <1>1, ReadsAreBytes
<1>7. /\ mid \in Chip /\ mid.capable = chip.capable /\ mid.mux = chip.mux
      /\ old1 = chip.byte => mid.byte = (old1 \cup {}) \ IRQs
  BY <1>1, <1>4, <1>5, <1>6, SetByte DEF Chip
<1>8. /\ old2 \in Reads(mid) /\ chip' = SetCommandByte(mid, old2, Clocks, {})
      /\ clean' = [clean EXCEPT !.byte = @ /\ old1 = chip.byte /\ old2 = mid.byte]
  BY <1>3, <1>5
<1> HIDE DEF quiet
<1>9. old2 \in CommandByte
  BY <1>7, <1>8, ReadsAreBytes
<1>10. /\ chip' \in Chip /\ chip'.capable = mid.capable /\ chip'.mux = mid.mux
       /\ old2 = mid.byte => chip'.byte = (old2 \cup Clocks) \ {}
  BY <1>4, <1>7, <1>8, <1>9, SetByte DEF Chip
<1>11. /\ clean' \in Clean /\ clean'.mux = clean.mux /\ clean'.start = clean.start
       /\ clean'.byte => clean.byte /\ old1 = chip.byte /\ old2 = mid.byte
  BY <1>1, <1>8 DEF Clean
<1>12. /\ ctl.phase = "running" /\ ctl' \in Controller /\ ctl'.phase = "asleep"
       /\ ctl'.kbdOnly = ctl.kbdOnly /\ ctl'.mux = ctl.mux
       /\ ctl'.nubs = ctl.nubs /\ ctl'.mice = ctl.mice
  BY <1>1 DEF Sleep, Controller
<1>13. clean'.byte => /\ "auxOff" \in chip'.byte /\ "auxIRQ" \notin chip'.byte
                      /\ "translate" \in chip.byte => "translate" \in chip'.byte
  BY <1>7, <1>10, <1>11 DEF IRQs, Clocks
<1>14. ByteAsleep'
  BY <1>11, <1>12, <1>13 DEF BootInv, CommandByteRight, ByteAsleep
<1>15. /\ TypeOK' /\ NoMouse' /\ Stopped' /\ AuxClocked' /\ CommandByteRight' /\ MuxAgreed'
  BY <1>10, <1>11, <1>12
     DEF BootInv, TypeOK, NoMouse, Stopped, AuxClocked, CommandByteRight, MuxAgreed
<1>16. MuxCapable' /\ MuxKnown'
  BY <1>7, <1>10, <1>11, <1>12 DEF BootInv, MuxCapable, MuxKnown
<1> QED BY <1>14, <1>15, <1>16 DEF BootInv

LEMMA BootPowerLost ==
  ASSUME BootInv, NEW byte \in CommandByte, PowerLost(byte)
  PROVE  BootInv'
<1>1. /\ chip' \in Chip /\ chip'.capable = chip.capable /\ ~ chip'.mux
      /\ ctl.phase = "asleep" /\ ctl' = ctl
      /\ clean' \in Clean /\ ~ clean'.byte /\ clean'.start = clean.start
  BY DEF BootInv, TypeOK, PowerLost, Chip, Clean
<1> QED
  BY <1>1 DEF BootInv, TypeOK, NoMouse, Stopped, ByteAsleep, AuxClocked, CommandByteRight,
              MuxCapable, MuxKnown, MuxAgreed

(* The first part of the wake: the reset, if any, and the multiplexing *)
LEMMA WakePrepared ==
  ASSUME BootInv, ctl.phase = "asleep", NEW right \in SUBSET (1 .. 3),
         NEW old \in Reads(Clocked(chip, ctl.kbdOnly)), NEW d, d = Prepared(old, right)
  PROVE  /\ d \in Chip /\ d.capable = chip.capable
         /\ d.mux => chip.mux \/ (ctl.mux /\ chip.capable)
         /\ ctl.mux => d.ports = d.mux /\ (chip.capable /\ {1, 2} \subseteq right => d.mux)
         /\ (IF "wake" \in ctl.reset THEN old = Clocked(chip, ctl.kbdOnly).byte ELSE clean.byte)
            => "translate" \in d.byte /\ (ctl.kbdOnly => "auxOff" \in d.byte)
<1> DEFINE byte == Clocked(chip, ctl.kbdOnly).byte
           base == IF "wake" \in ctl.reset THEN ResetController(chip, ctl.kbdOnly, old) ELSE chip
<1>1. chip \in Chip /\ ctl.kbdOnly \in BOOLEAN
  BY DEF BootInv, TypeOK, Controller
<1>2. Clocked(chip, ctl.kbdOnly) \in Chip /\ (ctl.kbdOnly => "auxOff" \in byte)
  BY <1>1, ClockedByte
<1>3. old \in CommandByte
  BY <1>2, ReadsAreBytes
<1> HIDE DEF byte
<1>4. PICK first : first = base
  OBVIOUS
<1>5. /\ first \in Chip /\ first.capable = chip.capable /\ (first.mux => chip.mux)
      /\ (IF "wake" \in ctl.reset THEN old = byte ELSE clean.byte)
         => "translate" \in first.byte /\ (ctl.kbdOnly => "auxOff" \in first.byte)
  <2>1. CASE "wake" \in ctl.reset
    <3>1. first = ResetController(chip, ctl.kbdOnly, old)
      BY <2>1, <1>4
    <3>2. /\ first \in Chip /\ first.capable = chip.capable /\ ~ first.mux
          /\ "translate" \in first.byte
          /\ ctl.kbdOnly /\ "auxOff" \in old => "auxOff" \in first.byte
      BY <3>1, <1>1, <1>3, ResetByte DEF Chip
    <3> QED BY <2>1, <3>2, <1>2
  <2>2. CASE "wake" \notin ctl.reset
    <3>1. first = chip
      BY <2>2, <1>4
    <3> QED BY <2>2, <3>1, <1>1 DEF BootInv, ByteAsleep
  <2> QED BY <2>1, <2>2
<1>6. d = IF ctl.mux THEN EnableMuxPorts(SetMuxMode(first, right)) ELSE first
  BY <1>4 DEF Prepared
<1> HIDE DEF base
<1>7. CASE ctl.mux
  <2>1. PICK muxed : muxed = SetMuxMode(first, right)
    OBVIOUS
  <2>2. /\ muxed \in Chip /\ muxed.byte = first.byte /\ muxed.capable = first.capable
        /\ muxed.mux <=> first.mux \/ (first.capable /\ {1, 2} \subseteq right)
    BY <1>5, <2>1, MuxSet DEF Chip
  <2>3. d = EnableMuxPorts(muxed)
    BY <1>6, <1>7, <2>1
  <2>4. /\ d \in Chip /\ d.byte = muxed.byte /\ d.capable = muxed.capable
        /\ d.mux = muxed.mux /\ d.ports = muxed.mux
    BY <2>2, <2>3, PortsSet DEF Chip
  <2>5. d.capable = chip.capable /\ d.ports = d.mux /\ d.byte = first.byte
    BY <1>5, <2>2, <2>4
  <2>6. d.mux <=> first.mux \/ (first.capable /\ {1, 2} \subseteq right)
    BY <2>2, <2>4
  <2> QED BY <1>5, <1>7, <2>4, <2>5, <2>6 DEF byte
<1>8. CASE ~ ctl.mux
  <2>1. d = first
    BY <1>6, <1>8
  <2> QED BY <1>5, <1>8, <2>1 DEF byte
<1> QED BY <1>7, <1>8

(* The second part: the clocks and the interrupts *)
LEMMA WakeEnabled ==
  ASSUME NEW first \in Chip, NEW fine \in BOOLEAN, ctl \in Controller, Enabled(first, fine)
  PROVE  /\ chip' \in Chip /\ chip'.capable = first.capable
         /\ chip'.mux = first.mux /\ chip'.ports = first.ports
         /\ fine => /\ "translate" \in first.byte => "translate" \in chip'.byte
                    /\ "kbdOff" \notin chip'.byte /\ "kbdIRQ" \in chip'.byte
                    /\ ~ ctl.kbdOnly => "auxIRQ" \in chip'.byte /\ "auxOff" \notin chip'.byte
                    /\ ctl.kbdOnly => /\ "auxIRQ" \notin chip'.byte
                                      /\ "auxOff" \in first.byte => "auxOff" \in chip'.byte
<1> DEFINE off == {"kbdOff"} \cup IRQs \cup (IF ctl.kbdOnly THEN {} ELSE {"auxOff"})
           on == IF ctl.kbdOnly THEN {"kbdIRQ"} ELSE IRQs
<1>1. PICK old1 \in Reads(first) :
        \E old2 \in Reads(SetCommandByte(first, old1, {}, off)) :
           /\ chip' = SetCommandByte(SetCommandByte(first, old1, {}, off), old2, on, {})
           /\ fine = (old1 = first.byte /\ old2 = SetCommandByte(first, old1, {}, off).byte)
  BY DEF Enabled
<1>2. off \in CommandByte /\ on \in CommandByte /\ {} \in CommandByte
  BY DEF CommandByte, Bits, IRQs
<1>3. PICK clocked : clocked = SetCommandByte(first, old1, {}, off)
  OBVIOUS
<1>4. PICK old2 \in Reads(clocked) :
        /\ chip' = SetCommandByte(clocked, old2, on, {})
        /\ fine = (old1 = first.byte /\ old2 = clocked.byte)
  BY <1>1, <1>3
<1>5. /\ "kbdOff" \in off /\ "auxIRQ" \in off /\ "translate" \notin off
      /\ "auxOff" \in off <=> ~ ctl.kbdOnly
      /\ "kbdIRQ" \in on /\ "kbdOff" \notin on /\ "auxOff" \notin on
      /\ "auxIRQ" \in on <=> ~ ctl.kbdOnly
  BY DEF IRQs, Controller
<1> HIDE DEF off, on
<1>6. old1 \in CommandByte
  BY ReadsAreBytes
<1>7. /\ clocked \in Chip /\ clocked.capable = first.capable
      /\ clocked.mux = first.mux /\ clocked.ports = first.ports
      /\ old1 = first.byte => clocked.byte = (old1 \cup {}) \ off
  BY <1>2, <1>3, <1>6, SetByte DEF Chip
<1>8. old2 \in CommandByte
  BY <1>7, ReadsAreBytes
<1>9. /\ chip' \in Chip /\ chip'.capable = clocked.capable
      /\ chip'.mux = clocked.mux /\ chip'.ports = clocked.ports
      /\ old2 = clocked.byte => chip'.byte = (old2 \cup on) \ {}
  BY <1>2, <1>4, <1>7, <1>8, SetByte DEF Chip
<1>10. fine => \A b \in Bits : b \in chip'.byte <=> (b \in first.byte /\ b \notin off) \/ b \in on
  BY <1>4, <1>7, <1>9
<1>11. fine => /\ "translate" \in first.byte => "translate" \in chip'.byte
               /\ "kbdOff" \notin chip'.byte /\ "kbdIRQ" \in chip'.byte
               /\ ~ ctl.kbdOnly => "auxIRQ" \in chip'.byte /\ "auxOff" \notin chip'.byte
               /\ ctl.kbdOnly => /\ "auxIRQ" \notin chip'.byte
                                 /\ "auxOff" \in first.byte => "auxOff" \in chip'.byte
  BY <1>5, <1>10 DEF Bits
<1> QED BY <1>7, <1>9, <1>11 DEF Chip

LEMMA BootWake ==
  ASSUME BootInv, NEW right \in SUBSET (1 .. 3), Wake(right)
  PROVE  BootInv'
<1>1. chip \in Chip /\ clean \in Clean /\ ctl \in Controller /\ ctl.phase = "asleep"
  BY DEF BootInv, TypeOK, Wake
<1>2. PICK old \in Reads(Clocked(chip, ctl.kbdOnly)), fine \in BOOLEAN :
        /\ Enabled(Prepared(old, right), fine)
        /\ clean' = [clean EXCEPT
              !.byte = (IF "wake" \in ctl.reset THEN old = Clocked(chip, ctl.kbdOnly).byte
                        ELSE clean.byte) /\ fine,
              !.mux = IF ctl.mux THEN right = 1 .. 3 ELSE @]
  BY DEF Wake
<1> DEFINE known == IF "wake" \in ctl.reset THEN old = Clocked(chip, ctl.kbdOnly).byte
                    ELSE clean.byte
<1>3. PICK first : first = Prepared(old, right)
  OBVIOUS
<1>4. /\ first \in Chip /\ first.capable = chip.capable
      /\ first.mux => chip.mux \/ (ctl.mux /\ chip.capable)
      /\ ctl.mux => first.ports = first.mux /\ (chip.capable /\ {1, 2} \subseteq right => first.mux)
      /\ known => "translate" \in first.byte /\ (ctl.kbdOnly => "auxOff" \in first.byte)
  BY <1>1, <1>3, WakePrepared
<1>5. Enabled(first, fine)
  BY <1>2, <1>3
<1>6. /\ chip' \in Chip /\ chip'.capable = first.capable
      /\ chip'.mux = first.mux /\ chip'.ports = first.ports
      /\ fine => /\ "translate" \in first.byte => "translate" \in chip'.byte
                 /\ "kbdOff" \notin chip'.byte /\ "kbdIRQ" \in chip'.byte
                 /\ ~ ctl.kbdOnly => "auxIRQ" \in chip'.byte /\ "auxOff" \notin chip'.byte
                 /\ ctl.kbdOnly => /\ "auxIRQ" \notin chip'.byte
                                   /\ "auxOff" \in first.byte => "auxOff" \in chip'.byte
  BY <1>1, <1>4, <1>5, WakeEnabled DEF Chip
<1>7. /\ clean' \in Clean /\ (clean'.byte => known /\ fine)
      /\ clean'.mux /\ ctl.mux => right = 1 .. 3
      /\ clean'.start = clean.start
  <2> DEFINE answered == IF ctl.mux THEN right = 1 .. 3 ELSE clean.mux
             read == known /\ fine
  <2>1. read \in BOOLEAN
    OBVIOUS
  <2>2. answered \in BOOLEAN
    <3>1. CASE ctl.mux
      BY <3>1
    <3>2. CASE ~ ctl.mux
      BY <3>2, <1>1 DEF Clean
    <3> QED BY <3>1, <3>2
  <2>3. clean' = [clean EXCEPT !.byte = read, !.mux = answered]
    BY <1>1, <1>2 DEF Clean
  <2> HIDE DEF read, answered
  <2>4. clean' \in Clean /\ clean'.byte = read /\ clean'.mux = answered /\ clean'.start = clean.start
    BY <1>1, <2>1, <2>2, <2>3 DEF Clean
  <2> QED BY <2>4 DEF read, answered
<1> HIDE DEF known
<1>8. /\ ctl' \in Controller /\ ctl'.phase = "running"
      /\ ctl'.kbdOnly = ctl.kbdOnly /\ ctl'.mux = ctl.mux
      /\ ctl'.nubs = ctl.nubs /\ ctl'.mice = ctl.mice /\ ctl'.keyboard = ctl.keyboard
  BY <1>1 DEF Wake, Controller
<1>9. TypeOK' /\ NoMouse' /\ Stopped' /\ ByteAsleep'
  BY <1>1, <1>6, <1>7, <1>8 DEF BootInv, TypeOK, NoMouse, Stopped, ByteAsleep
<1>10. ctl.kbdOnly => ctl.mice = 0
  BY <1>1 DEF BootInv, NoMouse
<1>11. CommandByteRight' /\ AuxClocked'
  BY <1>4, <1>6, <1>7, <1>8, <1>10 DEF CommandByteRight, AuxClocked
<1>12. MuxCapable'
  BY <1>4, <1>6 DEF BootInv, MuxCapable
<1>13. MuxKnown'
  BY <1>1, <1>4, <1>6, <1>7, <1>8 DEF BootInv, MuxKnown
<1>14. MuxAgreed'
  <2> SUFFICES ASSUME clean'.mux, clean'.start
               PROVE  ctl'.mux = chip'.mux /\ (ctl'.mux => chip'.ports)
    BY DEF MuxAgreed
  <2>1. (ctl.mux => chip.capable) /\ (chip.mux => ctl.mux)
    BY <1>1, <1>7 DEF BootInv, MuxKnown
  <2>2. CASE ctl.mux
    <3>1. right = 1 .. 3
      BY <2>2, <1>7
    <3>2. {1, 2} \subseteq right
      BY <3>1
    <3>3. first.mux /\ first.ports
      BY <2>1, <2>2, <3>2, <1>4
    <3> QED BY <2>2, <3>3, <1>1, <1>4, <1>6, <1>8 DEF Chip, Controller
  <2>3. CASE ~ ctl.mux
    <3>1. ~ first.mux
      BY <2>1, <2>3, <1>4
    <3> QED BY <2>3, <3>1, <1>1, <1>4, <1>6, <1>8 DEF Chip, Controller
  <2> QED BY <2>2, <2>3
<1> QED BY <1>9, <1>11, <1>12, <1>13, <1>14 DEF BootInv

LEMMA BootNext == BootInv /\ [Next]_vars => BootInv'
<1> SUFFICES ASSUME BootInv, [Next]_vars PROVE BootInv'
  OBVIOUS
<1>1. CASE \E kbdOnly \in BOOLEAN, reset \in SUBSET {"boot", "wake"}, right \in SUBSET (1 .. 3) :
             Start(kbdOnly, reset, right)
  BY <1>1, BootStart
<1>2. CASE Stop
  BY <1>2, BootStop
<1>3. CASE InstallKeyboard \/ UninstallKeyboard
  BY <1>3, BootKeyboard
<1>4. CASE InstallMouse \/ UninstallMouse
  BY <1>4, BootMouse
<1>5. CASE Sleep
  BY <1>5, BootSleep
<1>6. CASE \E byte \in CommandByte : PowerLost(byte)
  BY <1>6, BootPowerLost
<1>7. CASE \E right \in SUBSET (1 .. 3) : Wake(right)
  BY <1>7, BootWake
<1>8. CASE UNCHANGED vars
  BY <1>8 DEF vars, BootInv, TypeOK, NoMouse, Stopped, ByteAsleep, AuxClocked,
     CommandByteRight, MuxCapable, MuxKnown, MuxAgreed
<1> QED BY <1>1, <1>2, <1>3, <1>4, <1>5, <1>6, <1>7, <1>8 DEF Next

-----------------------------------------------------------------------------
(***************************************************************************)
(* The theorems                                                            *)
(***************************************************************************)
(* The inductive invariant of the set-up of the chip: what the controller  *)
(* driver knows of command byte and multiplexing while it is stopped, runs *)
(* and sleeps.                                                             *)
THEOREM BootInvariant == Spec => []BootInv
  BY BootInit, BootNext, PTL DEF Spec

(* From one reset of the controller on the command byte is right for the   *)
(* installed handlers, as long as setCommandByteGated and resetController  *)
(* read it right: for every set of bytes that are read in its place.       *)
THEOREM BootCommandByteRight == Spec => []CommandByteRight
<1>1. BootInv => CommandByteRight
  BY DEF BootInv
<1> QED BY <1>1, BootInvariant, PTL

(* Driver and chip agree on the multiplexing if the answers to setMuxMode  *)
(* were the chip's, through any number of starts, stops, sleeps and wakes. *)
THEOREM BootMuxAgreed == Spec => []MuxAgreed
<1>1. BootInv => MuxAgreed
  BY DEF BootInv
<1> QED BY <1>1, BootInvariant, PTL

-----------------------------------------------------------------------------
(***************************************************************************)
(* Packages: translateEntry finds what was written                         *)
(***************************************************************************)
(* A set of natural numbers with an element has a least one. *)
LEMMA LeastNatural ==
    ASSUME NEW T, T \subseteq Nat, T # {}
    PROVE  \E m \in T : \A n \in T : m <= n
<1>1. PICK m \in T : \A n \in T : ~ (<<n, m>> \in OpToRel(<, Nat))
  BY NatLessThanWellFounded, WFMin, Zenon
<1>2. ASSUME NEW n \in T PROVE m <= n
  <2>1. <<n, m>> \notin {ss \in Nat \X Nat : ss[1] < ss[2]}
    BY <1>1 DEF OpToRel
  <2> QED BY <2>1
<1> QED BY <1>2

(* Among values one is nested least. *)
LEMMA Shallowest ==
  ASSUME NEW S, S \subseteq Values, S # {}
  PROVE  \E v \in S : \A w \in S : Depth[v] <= Depth[w]
<1> DEFINE D == {Depth[v] : v \in S}
<1>1. D \subseteq Nat /\ D # {}
  BY ValuesAssumption
<1>2. PICK n \in D : \A m \in D : n <= m
  BY <1>1, LeastNatural
<1>4. PICK v \in S : n = Depth[v]
  OBVIOUS
<1>5. \A w \in S : Depth[w] \in D /\ Depth[w] \in Nat
  BY <1>1
<1> HIDE DEF D
<1>6. \A w \in S : Depth[v] <= Depth[w]
  BY <1>2, <1>4, <1>5
<1> QED BY <1>6

(* The parts of a value are values, nested less. *)
LEMMA PartsBelow ==
  ASSUME NEW v \in Values
  PROVE  /\ ProperValue(v)
         /\ v[1] = "array" => \A i \in 1 .. Len(v[2]) : v[2][i] \in Values /\ Depth[v[2][i]] < Depth[v]
         /\ v[1] = "dict" => \A k \in DOMAIN v[2] : v[2][k] \in Values /\ Depth[v[2][k]] < Depth[v]
<1>1. ProperValue(v) /\ \A w \in Parts(v) : w \in Values /\ Depth[w] < Depth[v]
  BY ValuesAssumption
<1>2. ASSUME v[1] = "array" PROVE DOMAIN v[2] = 1 .. Len(v[2])
  BY <1>1, <1>2 DEF ProperValue
<1> QED BY <1>1, <1>2 DEF Parts

(* No value is Null. *)
LEMMA ValueNotNull == ASSUME NEW v \in Values PROVE v # Null
<1>1. ProperValue(v) /\ Null[1] = "null"
  BY PartsBelow DEF Null
<1> QED BY <1>1 DEF ProperValue

(* The kinds of values, and how each is written *)
Plain(v) == v[1] = "num" \/ (v[1] = "str" /\ v[2] \notin {">y", ">n", ">>y", ">>n"})
Escaped(v) == v[1] = "str" /\ v[2] \in {">y", ">n"}

(* Every value is of one of them. *)
LEMMA Kinds ==
  ASSUME NEW v \in Values
  PROVE  v[1] = "bool" \/ Escaped(v) \/ v[1] = "array" \/ v[1] = "dict" \/ Plain(v)
<1>1. ProperValue(v)
  BY PartsBelow
<1> QED BY <1>1 DEF ProperValue, Plain, Escaped

(* A Boolean *)
LEMMA WritesBool ==
  ASSUME NEW v \in Values, v[1] = "bool"
  PROVE  /\ v = <<"bool", v[2]>> /\ v[2] \in BOOLEAN
         /\ Package[v] = <<"str", IF v[2] THEN ">y" ELSE ">n">>
<1>1. ProperValue(v) /\ Writes(Package[v], v)
  BY PartsBelow, PackageAssumption
<1> QED BY <1>1 DEF ProperValue, Writes
(* A string that looks like a Boolean *)
LEMMA WritesEscaped ==
  ASSUME NEW v \in Values, Escaped(v)
  PROVE  \/ v = <<"str", ">y">> /\ Package[v] = <<"str", ">>y">>
         \/ v = <<"str", ">n">> /\ Package[v] = <<"str", ">>n">>
<1>1. ProperValue(v) /\ Writes(Package[v], v)
  BY PartsBelow, PackageAssumption
<1> QED BY <1>1 DEF ProperValue, Writes, Escaped
(* A number or another string *)
LEMMA WritesPlain ==
  ASSUME NEW v \in Values, Plain(v)
  PROVE  v = <<v[1], v[2]>> /\ Package[v] = v
<1>1. ProperValue(v) /\ Writes(Package[v], v)
  BY PartsBelow, PackageAssumption
<1>2. v = <<v[1], v[2]>> /\ v # <<"str", ">y">> /\ v # <<"str", ">n">>
  BY <1>1 DEF ProperValue, Plain
<1>3. v[1] # "bool" /\ v[1] # "array" /\ v[1] # "dict"
  BY DEF Plain
<1> QED BY <1>1, <1>2, <1>3 DEF Writes
(* An array *)
LEMMA WritesArray ==
  ASSUME NEW v \in Values, v[1] = "array"
  PROVE  /\ v = <<"array", v[2]>> /\ v[2] \in Seq(Values)
         /\ \E a : /\ Package[v] = <<"array", a>>
                   /\ a = <<EmptyPackage>> \o [i \in 1 .. Len(v[2]) |-> Package[v[2][i]]]
<1>1. ProperValue(v) /\ Writes(Package[v], v)
  BY PartsBelow, PackageAssumption
<1>2. v = <<"array", v[2]>> /\ v[2] \in Seq(Values)
  BY <1>1 DEF ProperValue
<1>3. v # <<"str", ">y">> /\ v # <<"str", ">n">>
  OBVIOUS
<1> QED BY <1>1, <1>2, <1>3 DEF Writes
(* A dictionary *)
LEMMA WritesDict ==
  ASSUME NEW v \in Values, v[1] = "dict"
  PROVE  /\ v = Dict([k \in DOMAIN v[2] |-> v[2][k]]) /\ DOMAIN v[2] # {}
         /\ \E a :
              /\ Package[v] = <<"array", a>>
              /\ a \in Seq(Objects \cup {<<"str", k>> : k \in DOMAIN v[2]})
              /\ Len(a) % 2 = 0
              /\ \A i \in KeyPlaces(a) : \E k \in DOMAIN v[2] :
                    a[i] = <<"str", k>> /\ a[i + 1] = Package[v[2][k]]
              /\ \A k \in DOMAIN v[2] : \E i \in KeyPlaces(a) : a[i] = <<"str", k>>
<1>1. ProperValue(v) /\ Writes(Package[v], v)
  BY PartsBelow, PackageAssumption
<1>2. ProperDict(v) /\ DOMAIN v[2] # {}
  BY <1>1 DEF ProperValue
<1>3. v # <<"str", ">y">> /\ v # <<"str", ">n">>
  OBVIOUS
<1> DEFINE p == Package[v]
<1>4. /\ p = <<"array", p[2]>>
      /\ p[2] \in Seq(Objects \cup {<<"str", k>> : k \in DOMAIN v[2]})
      /\ Len(p[2]) % 2 = 0
      /\ \A i \in KeyPlaces(p[2]) : \E k \in DOMAIN v[2] :
            p[2][i] = <<"str", k>> /\ p[2][i + 1] = Package[v[2][k]]
      /\ \A k \in DOMAIN v[2] : \E i \in KeyPlaces(p[2]) : p[2][i] = <<"str", k>>
  BY <1>1, <1>3 DEF Writes
<1> QED BY <1>2, <1>4 DEF ProperDict

(* What is written for an array is its parts, after the empty package. *)
ArrayAt(v, a) ==
    /\ a # <<>> /\ a[1] = EmptyPackage /\ Len(a) = Len(v[2]) + 1 /\ Len(v[2]) \in Nat
    /\ \A i \in 1 .. Len(v[2]) : a[i + 1] = Package[v[2][i]]
LEMMA ArrayPlaces ==
  ASSUME NEW v \in Values, v[1] = "array", NEW a, Package[v] = <<"array", a>>
  PROVE  ArrayAt(v, a)
<1>1. v[2] \in Seq(Values) /\ Len(v[2]) \in Nat
  BY WritesArray
<1> DEFINE s == [i \in 1 .. Len(v[2]) |-> Package[v[2][i]]]
           U == {EmptyPackage} \cup Objects
<1>2. a = <<EmptyPackage>> \o s
  <2>1. PICK b : Package[v] = <<"array", b>> /\ b = <<EmptyPackage>> \o s
    BY WritesArray
  <2>2. <<"array", a>>[2] = a /\ <<"array", b>>[2] = b
    OBVIOUS
  <2> QED BY <2>1, <2>2
<1>3. \A i \in 1 .. Len(v[2]) : v[2][i] \in Values
  BY PartsBelow
<1>4. s \in Seq(U) /\ Len(s) = Len(v[2])
  BY <1>1, <1>3 DEF Objects
<1>5. <<EmptyPackage>> \in Seq(U) /\ Len(<<EmptyPackage>>) = 1 /\ <<EmptyPackage>>[1] = EmptyPackage
  OBVIOUS
<1>8. \A i \in 1 .. Len(v[2]) : s[i] = Package[v[2][i]]
  OBVIOUS
<1> HIDE DEF s, U
<1>6. /\ Len(a) = 1 + Len(s) /\ a[1] = EmptyPackage
      /\ \A i \in 1 .. Len(s) : a[i + 1] = s[i]
  BY <1>1, <1>2, <1>4, <1>5, ConcatProperties
<1>7. a # <<>>
  BY <1>1, <1>4, <1>6
<1> QED BY <1>1, <1>4, <1>6, <1>7, <1>8 DEF ArrayAt
(* What is written for a dictionary is each key, followed by its value;    *)
(* if a key is there twice, by the same one.  The last place of a key is   *)
(* one.                                                                    *)
LEMMA LastPlaceExists ==
  ASSUME NEW a, Len(a) \in Nat, NEW k, \E i \in KeyPlaces(a) : a[i] = <<"str", k>>
  PROVE  LastPlace(a, k) \in KeyPlaces(a) /\ a[LastPlace(a, k)] = <<"str", k>>
<1> DEFINE P == {i \in KeyPlaces(a) : a[i] = <<"str", k>>}
           T == {Len(a) - i : i \in P}
<1>1. P \subseteq 1 .. Len(a) /\ P # {}
  BY DEF KeyPlaces
<1>2. T \subseteq Nat /\ T # {}
  BY <1>1
<1>3. PICK m \in T : \A n \in T : m <= n
  BY <1>2, LeastNatural
<1>4. PICK i \in P : m = Len(a) - i
  OBVIOUS
<1>5. ASSUME NEW j \in P PROVE j <= i
  <2>1. Len(a) - j \in T /\ j \in Int /\ i \in Int
    BY <1>1
  <2>2. m <= Len(a) - j
    BY <2>1, <1>3
  <2> QED BY <2>1, <2>2, <1>4
<1>6. \E x \in KeyPlaces(a) : a[x] = <<"str", k>> /\ \A j \in KeyPlaces(a) : a[j] = <<"str", k>> => j <= x
  BY <1>5
<1> HIDE DEF P, T
<1> QED BY <1>6 DEF LastPlace

DictAt(v, a) ==
    /\ a # <<>> /\ a[1] # EmptyPackage /\ ~ (Len(a) % 2 = 1)
    /\ \A i \in KeyPlaces(a) : a[i][1] = "str"
    /\ {a[i][2] : i \in KeyPlaces(a)} = DOMAIN v[2]
    /\ \A k \in DOMAIN v[2] : a[LastPlace(a, k) + 1] = Package[v[2][k]]
(* The places of the keys and of the values that count *)
LEMMA DictPlaces ==
  ASSUME NEW v \in Values, v[1] = "dict", NEW a, Package[v] = <<"array", a>>
  PROVE  DictAt(v, a)
<1>1. /\ a \in Seq(Objects \cup {<<"str", k>> : k \in DOMAIN v[2]})
      /\ Len(a) % 2 = 0 /\ DOMAIN v[2] # {}
      /\ \A i \in KeyPlaces(a) : \E k \in DOMAIN v[2] :
            a[i] = <<"str", k>> /\ a[i + 1] = Package[v[2][k]]
      /\ \A k \in DOMAIN v[2] : \E i \in KeyPlaces(a) : a[i] = <<"str", k>>
  <2>1. PICK b : /\ Package[v] = <<"array", b>>
                 /\ b \in Seq(Objects \cup {<<"str", k>> : k \in DOMAIN v[2]})
                 /\ Len(b) % 2 = 0
                 /\ \A i \in KeyPlaces(b) : \E k \in DOMAIN v[2] :
                       b[i] = <<"str", k>> /\ b[i + 1] = Package[v[2][k]]
                 /\ \A k \in DOMAIN v[2] : \E i \in KeyPlaces(b) : b[i] = <<"str", k>>
    BY WritesDict
  <2>2. <<"array", a>>[2] = a /\ <<"array", b>>[2] = b
    OBVIOUS
  <2>3. a = b
    BY <2>1, <2>2
  <2> QED BY <2>1, <2>3, WritesDict
<1>2. Len(a) \in Nat
  BY <1>1
<1>3. 1 \in KeyPlaces(a)
  <2>1. PICK i \in KeyPlaces(a) : TRUE
    BY <1>1
  <2>2. i \in 1 .. Len(a)
    BY DEF KeyPlaces
  <2> QED BY <2>2, <1>2 DEF KeyPlaces
<1>4. a # <<>>
  BY <1>2, <1>3 DEF KeyPlaces
<1>5. a[1] # EmptyPackage
  BY <1>1, <1>3 DEF EmptyPackage
<1>6. \A i \in KeyPlaces(a) : a[i][1] = "str"
  BY <1>1
<1>7. {a[i][2] : i \in KeyPlaces(a)} = DOMAIN v[2]
  <2>1. \A i \in KeyPlaces(a) : a[i][2] \in DOMAIN v[2]
    BY <1>1
  <2>2. \A k \in DOMAIN v[2] : \E i \in KeyPlaces(a) : a[i][2] = k
    BY <1>1
  <2> QED BY <2>1, <2>2
<1>8. ASSUME NEW k \in DOMAIN v[2] PROVE a[LastPlace(a, k) + 1] = Package[v[2][k]]
  <2> DEFINE i == LastPlace(a, k)
  <2>1. i \in KeyPlaces(a) /\ a[i] = <<"str", k>>
    BY <1>1, <1>2, LastPlaceExists
  <2>2. PICK m \in DOMAIN v[2] : a[i] = <<"str", m>> /\ a[i + 1] = Package[v[2][m]]
    BY <1>1, <2>1
  <2>3. <<"str", m>>[2] = m /\ <<"str", k>>[2] = k
    OBVIOUS
  <2> QED BY <2>1, <2>2, <2>3
<1>9. ~ (Len(a) % 2 = 1)
  BY <1>1
<1> QED BY <1>4, <1>5, <1>6, <1>7, <1>8, <1>9 DEF DictAt

(* translateEntry returns nothing for a value that is written as it is,    *)
(* else the value.                                                         *)
Decoded(v) == IF Plain(v) THEN Null ELSE v

(* translateArray takes what translateEntry returns, or the entry. *)
LEMMA DecodedTranslates ==
  ASSUME NEW t, NEW v \in Values, t[Package[v]] = Decoded(v)
  PROVE  Translated(t, Package[v]) = v
<1>1. v # Null
  BY ValueNotNull
<1>2. Plain(v) => Package[v] = v
  BY WritesPlain
<1> QED BY <1>1, <1>2 DEF Translated, Decoded

(* The four strings that translateEntry knows *)
LEMMA TranslatesStrings ==
  ASSUME NEW t
  PROVE  /\ TranslateObject(t, <<"str", ">y">>) = <<"bool", TRUE>>
         /\ TranslateObject(t, <<"str", ">n">>) = <<"bool", FALSE>>
         /\ TranslateObject(t, <<"str", ">>y">>) = <<"str", ">y">>
         /\ TranslateObject(t, <<"str", ">>n">>) = <<"str", ">n">>
<1>1. \A s : TranslateObject(t, <<"str", s>>) = TranslateString(s)
  BY DEF TranslateObject
<1>2. TranslateString(">y") = <<"bool", TRUE>>
  BY DEF TranslateString
<1>3. TranslateString(">n") = <<"bool", FALSE>>
  BY DEF TranslateString
<1>4. TranslateString(">>y") = <<"str", ">y">>
  BY DEF TranslateString
<1>5. TranslateString(">>n") = <<"str", ">n">>
  BY DEF TranslateString
<1> QED BY <1>1, <1>2, <1>3, <1>4, <1>5

(* If the parts of a value are found again, so is the value. *)
LEMMA TranslatesParts ==
  ASSUME NEW t, NEW v \in Values, \A w \in Parts(v) : t[Package[w]] = Decoded(w)
  PROVE  TranslateObject(t, Package[v]) = Decoded(v)
<1>1. CASE v[1] = "bool"
  <2>1. v = <<"bool", v[2]>> /\ v[2] \in BOOLEAN /\ Package[v] = <<"str", IF v[2] THEN ">y" ELSE ">n">>
    BY <1>1, WritesBool
  <2>2. ~ Plain(v)
    BY <1>1 DEF Plain
  <2>3. CASE v[2] = TRUE
    <3>1. v = <<"bool", TRUE>> /\ Package[v] = <<"str", ">y">>
      BY <2>1, <2>3, Zenon
    <3> QED BY <3>1, <2>2, TranslatesStrings, Zenon DEF Decoded
  <2>4. CASE v[2] = FALSE
    <3>1. v = <<"bool", FALSE>> /\ Package[v] = <<"str", ">n">>
      BY <2>1, <2>4, Zenon
    <3> QED BY <3>1, <2>2, TranslatesStrings, Zenon DEF Decoded
  <2> QED BY <2>1, <2>3, <2>4
<1>2. CASE Escaped(v)
  <2>1. \/ v = <<"str", ">y">> /\ Package[v] = <<"str", ">>y">>
        \/ v = <<"str", ">n">> /\ Package[v] = <<"str", ">>n">>
    BY <1>2, WritesEscaped
  <2>2. ~ Plain(v)
    BY <1>2 DEF Plain, Escaped
  <2> QED BY <2>1, <2>2, TranslatesStrings, Zenon DEF Decoded
<1>3. CASE v[1] = "array"
  <2>1. v = <<"array", v[2]>> /\ v[2] \in Seq(Values)
    BY <1>3, WritesArray
  <2>2. PICK a : Package[v] = <<"array", a>>
    BY <1>3, WritesArray
  <2>3. /\ a # <<>> /\ a[1] = EmptyPackage /\ Len(a) = Len(v[2]) + 1 /\ Len(v[2]) \in Nat
        /\ \A i \in 1 .. Len(v[2]) : a[i + 1] = Package[v[2][i]]
    BY <1>3, <2>2, ArrayPlaces DEF ArrayAt
  <2>4. \A i \in 1 .. Len(v[2]) : Translated(t, a[i + 1]) = v[2][i]
    <3> TAKE i \in 1 .. Len(v[2])
    <3>1. v[2][i] \in Values /\ v[2][i] \in Parts(v)
      BY <1>3, <2>1, PartsBelow DEF Parts
    <3> QED BY <3>1, <2>3, DecodedTranslates
  <2>5. [i \in 1 .. Len(a) - 1 |-> Translated(t, a[i + 1])] = v[2]
    <3>1. v[2] = [i \in 1 .. Len(v[2]) |-> v[2][i]] /\ Len(a) - 1 = Len(v[2])
      BY <2>1, <2>3
    <3> QED BY <3>1, <2>4
  <2>6. TranslateArray(t, a) = <<"array", v[2]>>
    BY <2>3, <2>5 DEF TranslateArray
  <2>7. ~ Plain(v)
    BY <1>3 DEF Plain
  <2> QED BY <2>1, <2>2, <2>6, <2>7 DEF TranslateObject, Decoded
<1>4. CASE v[1] = "dict"
  <2>1. v = Dict([k \in DOMAIN v[2] |-> v[2][k]])
    BY <1>4, WritesDict
  <2>2. PICK a : Package[v] = <<"array", a>>
    BY <1>4, WritesDict
  <2>3. /\ a # <<>> /\ a[1] # EmptyPackage /\ ~ (Len(a) % 2 = 1)
        /\ \A i \in KeyPlaces(a) : a[i][1] = "str"
        /\ {a[i][2] : i \in KeyPlaces(a)} = DOMAIN v[2]
        /\ \A k \in DOMAIN v[2] : a[LastPlace(a, k) + 1] = Package[v[2][k]]
    BY <1>4, <2>2, DictPlaces DEF DictAt
  <2>4. \A k \in DOMAIN v[2] : Translated(t, a[LastPlace(a, k) + 1]) = v[2][k]
    <3> TAKE k \in DOMAIN v[2]
    <3>1. v[2][k] \in Values /\ v[2][k] \in Parts(v)
      BY <1>4, PartsBelow DEF Parts
    <3> QED BY <3>1, <2>3, DecodedTranslates
  <2>5. [k \in {a[i][2] : i \in KeyPlaces(a)} |-> Translated(t, a[LastPlace(a, k) + 1])]
        = [k \in DOMAIN v[2] |-> v[2][k]]
    BY <2>3, <2>4
  <2>6. TranslateArray(t, a) = v
    BY <2>1, <2>3, <2>5 DEF TranslateArray
  <2>7. ~ Plain(v)
    BY <1>4 DEF Plain
  <2> QED BY <2>2, <2>6, <2>7 DEF TranslateObject, Decoded
<1>5. CASE Plain(v)
  <2>1. Package[v] = v
    BY <1>5, WritesPlain
  <2> QED BY <1>5, <2>1 DEF TranslateObject, TranslateString, Decoded, Plain
<1> QED BY <1>1, <1>2, <1>3, <1>4, <1>5, Kinds
(* What is written for a value tells its kind. *)
LEMMA WrittenKinds ==
  ASSUME NEW v \in Values
  PROVE  /\ v[1] \in {"array", "dict"} <=> Package[v][1] = "array"
         /\ v[1] = "array" => Package[v][2][1] = EmptyPackage
         /\ v[1] = "dict" => Package[v][2][1] # EmptyPackage
<1>1. CASE v[1] = "bool"
  BY <1>1, WritesBool
<1>2. CASE Escaped(v)
  <2>1. Package[v][1] = "str" /\ v[1] = "str"
    BY <1>2, WritesEscaped DEF Escaped
  <2> QED BY <2>1
<1>3. CASE Plain(v)
  <2>1. Package[v][1] = v[1] /\ (v[1] = "num" \/ v[1] = "str")
    BY <1>3, WritesPlain DEF Plain
  <2> QED BY <2>1
<1>4. CASE v[1] = "array"
  <2>1. PICK a : Package[v] = <<"array", a>>
    BY <1>4, WritesArray
  <2>2. a[1] = EmptyPackage
    BY <1>4, <2>1, ArrayPlaces DEF ArrayAt
  <2> QED BY <1>4, <2>1, <2>2
<1>5. CASE v[1] = "dict"
  <2>1. PICK a : Package[v] = <<"array", a>>
    BY <1>5, WritesDict
  <2>2. a[1] # EmptyPackage
    BY <1>5, <2>1, DictPlaces DEF DictAt
  <2> QED BY <1>5, <2>1, <2>2
<1> QED BY <1>1, <1>2, <1>3, <1>4, <1>5, Kinds

(* No two values that hold no other are written alike. *)
LEMMA AtomsWrittenApart ==
  ASSUME NEW v \in Values, NEW w \in Values, Package[v] = Package[w],
         v[1] \notin {"array", "dict"}, w[1] \notin {"array", "dict"}
  PROVE  v = w
<1>1. ASSUME NEW x \in Values, x[1] \notin {"array", "dict"}
      PROVE  \/ x = <<"bool", TRUE>> /\ Package[x] = <<"str", ">y">>
             \/ x = <<"bool", FALSE>> /\ Package[x] = <<"str", ">n">>
             \/ x = <<"str", ">y">> /\ Package[x] = <<"str", ">>y">>
             \/ x = <<"str", ">n">> /\ Package[x] = <<"str", ">>n">>
             \/ /\ Package[x] = x
                /\ x \notin {<<"str", ">y">>, <<"str", ">n">>, <<"str", ">>y">>, <<"str", ">>n">>}
  <2>1. CASE x[1] = "bool"
    <3>1. x = <<"bool", x[2]>> /\ x[2] \in BOOLEAN
          /\ Package[x] = <<"str", IF x[2] THEN ">y" ELSE ">n">>
      BY <2>1, WritesBool
    <3>2. CASE x[2] = TRUE
      BY <3>1, <3>2, Zenon
    <3>3. CASE x[2] = FALSE
      BY <3>1, <3>3, Zenon
    <3> QED BY <3>1, <3>2, <3>3
  <2>2. CASE Escaped(x)
    BY <2>2, WritesEscaped
  <2>3. CASE Plain(x)
    <3>1. Package[x] = x
      BY <2>3, WritesPlain
    <3>2. x \notin {<<"str", ">y">>, <<"str", ">n">>, <<"str", ">>y">>, <<"str", ">>n">>}
      BY <2>3 DEF Plain
    <3> QED BY <3>1, <3>2
  <2> QED BY <1>1, <2>1, <2>2, <2>3, Kinds
<1>2. /\ <<"str", ">y">> # <<"str", ">n">> /\ <<"str", ">y">> # <<"str", ">>y">>
      /\ <<"str", ">y">> # <<"str", ">>n">> /\ <<"str", ">n">> # <<"str", ">>y">>
      /\ <<"str", ">n">> # <<"str", ">>n">> /\ <<"str", ">>y">> # <<"str", ">>n">>
  OBVIOUS
<1>3. PICK y, n, yy, nn, yes, no :
        /\ y = <<"str", ">y">> /\ n = <<"str", ">n">> /\ yy = <<"str", ">>y">> /\ nn = <<"str", ">>n">>
        /\ yes = <<"bool", TRUE>> /\ no = <<"bool", FALSE>>
  OBVIOUS
<1>4. y # n /\ y # yy /\ y # nn /\ n # yy /\ n # nn /\ yy # nn
  BY <1>2, <1>3, Zenon
<1>5. ASSUME NEW x \in {v, w}
      PROVE  \/ x = yes /\ Package[x] = y
             \/ x = no /\ Package[x] = n
             \/ x = y /\ Package[x] = yy
             \/ x = n /\ Package[x] = nn
             \/ Package[x] = x /\ x # y /\ x # n /\ x # yy /\ x # nn
  <2>1. x \in Values /\ x[1] \notin {"array", "dict"}
    OBVIOUS
  <2> QED BY <2>1, <1>1, <1>3, Zenon
<1>6. v \in {v, w} /\ w \in {v, w}
  OBVIOUS
<1>7. CASE v = yes /\ Package[v] = y
  BY <1>4, <1>5, <1>6, <1>7
<1>8. CASE v = no /\ Package[v] = n
  BY <1>4, <1>5, <1>6, <1>8
<1>9. CASE v = y /\ Package[v] = yy
  BY <1>4, <1>5, <1>6, <1>9
<1>10. CASE v = n /\ Package[v] = nn
  BY <1>4, <1>5, <1>6, <1>10
<1>11. CASE Package[v] = v /\ v # y /\ v # n /\ v # yy /\ v # nn
  BY <1>4, <1>5, <1>6, <1>11
<1> QED BY <1>5, <1>6, <1>7, <1>8, <1>9, <1>10, <1>11

(* No two values are written alike. *)
LEMMA WrittenApart ==
  ASSUME NEW v \in Values, NEW w \in Values, Package[v] = Package[w]
  PROVE  v = w
<1> DEFINE Twice == {x \in Values : \E y \in Values : Package[x] = Package[y] /\ x # y}
<1> SUFFICES Twice = {}
  OBVIOUS
<1> SUFFICES ASSUME Twice # {} PROVE FALSE
  OBVIOUS
<1>1. PICK x \in Twice : \A y \in Twice : Depth[x] <= Depth[y]
  BY Shallowest
<1>2. PICK y \in Values : Package[x] = Package[y] /\ x # y
  OBVIOUS
<1>3. x \in Values
  OBVIOUS
<1>4. ASSUME NEW p \in Values, NEW q \in Values, Depth[p] < Depth[x], Package[p] = Package[q]
      PROVE  p = q
  <2>1. Depth[p] \in Nat /\ Depth[x] \in Nat
    BY <1>3, ValuesAssumption
  <2>2. p \notin Twice
    BY <1>1, <1>4, <2>1
  <2> QED BY <2>2, <1>4
<1> HIDE DEF Twice
<1>5. CASE x[1] = "array"
  <2>1. y[1] = "array"
    BY <1>2, <1>3, <1>5, WrittenKinds
  <2>2. PICK a : Package[x] = <<"array", a>>
    BY <1>3, <1>5, WritesArray
  <2>3. /\ Len(a) = Len(x[2]) + 1 /\ Len(x[2]) \in Nat
        /\ \A i \in 1 .. Len(x[2]) : a[i + 1] = Package[x[2][i]]
    BY <1>3, <1>5, <2>2, ArrayPlaces DEF ArrayAt
  <2>10. Package[y] = <<"array", a>>
    BY <1>2, <2>2
  <2>4. /\ Len(a) = Len(y[2]) + 1 /\ Len(y[2]) \in Nat
        /\ \A i \in 1 .. Len(y[2]) : a[i + 1] = Package[y[2][i]]
    BY <1>2, <2>1, <2>10, ArrayPlaces DEF ArrayAt
  <2>5. Len(x[2]) = Len(y[2])
    BY <2>3, <2>4
  <2>6. \A i \in 1 .. Len(x[2]) : x[2][i] = y[2][i]
    <3> TAKE i \in 1 .. Len(x[2])
    <3>1. x[2][i] \in Values /\ Depth[x[2][i]] < Depth[x]
      BY <1>3, <1>5, PartsBelow
    <3>2. y[2][i] \in Values
      BY <1>2, <2>1, <2>5, PartsBelow
    <3>3. Package[x[2][i]] = Package[y[2][i]]
      BY <2>3, <2>4, <2>5
    <3> QED BY <3>1, <3>2, <3>3, <1>4
  <2>7. /\ x = <<"array", x[2]>> /\ x[2] \in Seq(Values)
        /\ y = <<"array", y[2]>> /\ y[2] \in Seq(Values)
    BY <1>2, <1>3, <1>5, <2>1, WritesArray
  <2>8. x[2] = y[2]
    <3>1. x[2] = [i \in 1 .. Len(x[2]) |-> x[2][i]] /\ y[2] = [i \in 1 .. Len(y[2]) |-> y[2][i]]
      BY <2>7
    <3> QED BY <3>1, <2>5, <2>6
  <2> QED BY <1>2, <2>7, <2>8
<1>6. CASE x[1] = "dict"
  <2>1. y[1] = "dict"
    BY <1>2, <1>3, <1>6, WrittenKinds
  <2>2. PICK a : Package[x] = <<"array", a>>
    BY <1>3, <1>6, WritesDict
  <2>3. /\ {a[i][2] : i \in KeyPlaces(a)} = DOMAIN x[2]
        /\ \A k \in DOMAIN x[2] : a[LastPlace(a, k) + 1] = Package[x[2][k]]
    <3>1. DictAt(x, a)
      BY <1>3, <1>6, <2>2, DictPlaces
    <3> QED BY <3>1, Zenon DEF DictAt
  <2>10. Package[y] = <<"array", a>>
    BY <1>2, <2>2
  <2>4. /\ {a[i][2] : i \in KeyPlaces(a)} = DOMAIN y[2]
        /\ \A k \in DOMAIN y[2] : a[LastPlace(a, k) + 1] = Package[y[2][k]]
    <3>1. DictAt(y, a)
      BY <1>2, <2>1, <2>10, DictPlaces
    <3> QED BY <3>1, Zenon DEF DictAt
  <2>5. DOMAIN x[2] = DOMAIN y[2]
    BY <2>3, <2>4
  <2>6. \A k \in DOMAIN x[2] : x[2][k] = y[2][k]
    <3> TAKE k \in DOMAIN x[2]
    <3>1. x[2][k] \in Values /\ Depth[x[2][k]] < Depth[x]
      BY <1>3, <1>6, PartsBelow
    <3>2. y[2][k] \in Values
      BY <1>2, <2>1, <2>5, PartsBelow
    <3>3. Package[x[2][k]] = Package[y[2][k]]
      BY <2>3, <2>4, <2>5
    <3> QED BY <3>1, <3>2, <3>3, <1>4
  <2>7. x = Dict([k \in DOMAIN x[2] |-> x[2][k]]) /\ y = Dict([k \in DOMAIN y[2] |-> y[2][k]])
    BY <1>2, <1>3, <1>6, <2>1, WritesDict
  <2>8. [k \in DOMAIN x[2] |-> x[2][k]] = [k \in DOMAIN y[2] |-> y[2][k]]
    BY <2>5, <2>6
  <2> QED BY <1>2, <2>7, <2>8
<1>7. CASE x[1] \notin {"array", "dict"}
  <2>1. y[1] \notin {"array", "dict"}
    BY <1>2, <1>3, <1>7, WrittenKinds
  <2> QED BY <1>2, <1>3, <1>7, <2>1, AtomsWrittenApart
<1> QED BY <1>5, <1>6, <1>7

(* translateEntry is a function of the objects: the recursion of           *)
(* translateEntry and translateArray has a solution,                       *)
LEMMA TranslateEntryDef ==
  \A p \in Objects : TranslateEntry[p] = TranslateObject(TranslateEntry, p)
<1> DEFINE Fixed(g) == g = [p \in Objects |-> TranslateObject(g, p)]
           means(p) == CHOOSE v \in Values : Package[v] = p
           decode == [p \in Objects |-> Decoded(means(p))]
<1>1. ASSUME NEW v \in Values PROVE decode[Package[v]] = Decoded(v)
  <2>1. Package[v] \in Objects
    BY DEF Objects
  <2>2. means(Package[v]) \in Values /\ Package[means(Package[v])] = Package[v]
    OBVIOUS
  <2>3. means(Package[v]) = v
    BY <2>2, WrittenApart
  <2> QED BY <2>1, <2>3
<1> HIDE DEF decode
<1>2. ASSUME NEW p \in Objects PROVE decode[p] = TranslateObject(decode, p)
  <2>1. PICK v \in Values : p = Package[v]
    BY DEF Objects
  <2>2. \A w \in Parts(v) : w \in Values
    BY ValuesAssumption
  <2>3. \A w \in Parts(v) : decode[Package[w]] = Decoded(w)
    BY <2>2, <1>1
  <2>4. TranslateObject(decode, Package[v]) = Decoded(v)
    BY <2>3, TranslatesParts
  <2> QED BY <2>1, <2>4, <1>1
<1>3. Fixed(decode)
  <2>1. decode = [p \in Objects |-> decode[p]]
    BY DEF decode
  <2> QED BY <2>1, <1>2
<1>4. Fixed(CHOOSE g : Fixed(g))
  <2> HIDE DEF Fixed
  <2> QED BY <1>3
<1>5. TranslateEntry = CHOOSE g : Fixed(g)
  BY Zenon DEF TranslateEntry
<1>6. Fixed(TranslateEntry)
  <2> HIDE DEF Fixed
  <2> QED BY <1>4, <1>5
<1> QED BY <1>6

(* and only one: it finds every value again that was written.              *)
LEMMA TranslateEntryDecodes ==
  ASSUME NEW v \in Values
  PROVE  TranslateEntry[Package[v]] = Decoded(v)
<1> DEFINE Wrong == {x \in Values : TranslateEntry[Package[x]] # Decoded(x)}
<1> SUFFICES ASSUME Wrong # {} PROVE FALSE
  OBVIOUS
<1>1. PICK x \in Wrong : \A y \in Wrong : Depth[x] <= Depth[y]
  BY Shallowest
<1>2. x \in Values /\ TranslateEntry[Package[x]] # Decoded(x)
  OBVIOUS
<1>3. ASSUME NEW w \in Parts(x) PROVE TranslateEntry[Package[w]] = Decoded(w)
  <2>1. w \in Values /\ Depth[w] < Depth[x] /\ Depth[w] \in Nat /\ Depth[x] \in Nat
    BY <1>2, ValuesAssumption
  <2>2. w \notin Wrong
    BY <1>1, <2>1
  <2> QED BY <2>1, <2>2
<1>4. TranslateObject(TranslateEntry, Package[x]) = Decoded(x)
  BY <1>2, <1>3, TranslatesParts
<1>5. Package[x] \in Objects
  BY <1>2 DEF Objects
<1> QED BY <1>2, <1>4, <1>5, TranslateEntryDef

-----------------------------------------------------------------------------
(***************************************************************************)
(* Links: _getConfigurationNode finds what a name means                    *)
(***************************************************************************)
(* An entry that is a dictionary or a link is there, and not both. *)
LEMMA EntryKinds ==
  ASSUME NEW root, NEW n
  PROVE  /\ IsDict(At(root, n)) => n \in DOMAIN root[2] /\ n \notin Linked(root)
         /\ IsLink(At(root, n)) <=> n \in Linked(root)
         /\ n \in DOMAIN root[2] => At(root, n) = root[2][n]
<1>1. Null[1] = "null"
  BY DEF Null
<1> QED BY <1>1 DEF At, IsDict, IsLink, Linked

(* The names that links lead to from name are the least set that has name  *)
(* and is closed under the links.                                          *)
LEMMA ReachedLeast ==
  ASSUME NEW root, NEW name, NEW S, name \in S, Closed(root, S)
  PROVE  Reached(root, name) \subseteq S
<1> DEFINE names == {name} \cup {Target(root[2][n]) : n \in Linked(root)}
<1>1. name \in S \cap names /\ Closed(root, S \cap names)
  BY DEF Closed
<1>2. S \cap names \in SUBSET names
  OBVIOUS
<1>3. ASSUME NEW n \in Reached(root, name) PROVE n \in S
  BY <1>1, <1>2, <1>3 DEF Reached
<1> QED BY <1>3
(* It has name and is closed itself. *)
LEMMA ReachedClosed ==
  ASSUME NEW root, NEW name
  PROVE  name \in Reached(root, name) /\ Closed(root, Reached(root, name))
<1> DEFINE names == {name} \cup {Target(root[2][n]) : n \in Linked(root)}
<1>1. name \in Reached(root, name)
  BY DEF Reached
<1>2. ASSUME NEW n \in Reached(root, name) \cap Linked(root)
      PROVE  Target(root[2][n]) \in Reached(root, name)
  <2>1. Target(root[2][n]) \in names
    BY <1>2
  <2>2. ASSUME NEW S \in SUBSET names, name \in S, Closed(root, S)
        PROVE  Target(root[2][n]) \in S
    <3>1. n \in S
      BY <1>2, <2>2, ReachedLeast
    <3> QED BY <3>1, <1>2, <2>2 DEF Closed
  <2> QED BY <2>1, <2>2 DEF Reached
<1> QED BY <1>1, <1>2 DEF Closed

(* What a link names is a string, *)
LEMMA TargetString ==
  ASSUME NEW root, ProperRoot(root), NEW n \in Linked(root)
  PROVE  Target(root[2][n]) \in STRING
  BY DEF ProperRoot, Linked

(* and so is what is reached. *)
LEMMA ReachedStrings ==
  ASSUME NEW root, ProperRoot(root), NEW name \in STRING
  PROVE  Reached(root, name) \subseteq STRING
  BY TargetString DEF Reached

(* Where there is no link, no other name is reached. *)
LEMMA ReachedAlone ==
  ASSUME NEW root, NEW name, name \notin Linked(root)
  PROVE  Reached(root, name) = {name}
<1>1. Closed(root, {name})
  BY DEF Closed
<1> QED BY <1>1, ReachedLeast, ReachedClosed

(* A link reaches what its target reaches. *)
LEMMA ReachedOver ==
  ASSUME NEW root, NEW name \in Linked(root)
  PROVE  Reached(root, name) = {name} \cup Reached(root, Target(root[2][name]))
<1> DEFINE t == Target(root[2][name])
<1>1. t \in Reached(root, name)
  BY ReachedClosed DEF Closed
<1>2. Reached(root, t) \subseteq Reached(root, name)
  BY <1>1, ReachedClosed, ReachedLeast
<1>3. Closed(root, {name} \cup Reached(root, t))
  <2>1. t \in Reached(root, t) /\ Closed(root, Reached(root, t))
    BY ReachedClosed
  <2> QED BY <2>1 DEF Closed
<1>4. Reached(root, name) \subseteq {name} \cup Reached(root, t)
  BY <1>3, ReachedLeast
<1> QED BY <1>2, <1>4, ReachedClosed

(* The meaning of names is one that _getConfigurationNode computes. *)
LEMMA MeantFollows ==
  ASSUME NEW root, ProperRoot(root), NEW name \in STRING,
         NEW f, f = [n \in STRING |-> NodeMeant(root, n)]
  PROVE  f[name] = FollowLink(f, root, name)
<1>1. CASE IsDict(At(root, name))
  <2>1. Led(root, name) = {name}
    BY <1>1, EntryKinds, ReachedAlone DEF Led
  <2>2. NodeMeant(root, name) = At(root, name)
    BY <2>1 DEF NodeMeant
  <2>3. ~ IsLink(At(root, name))
    BY <1>1, EntryKinds
  <2> QED BY <2>2, <2>3, <1>1 DEF FollowLink
<1>2. CASE IsLink(At(root, name))
  <2>1. name \in Linked(root) /\ At(root, name) = root[2][name] /\ ~ IsDict(At(root, name))
    BY <1>2, EntryKinds DEF Linked
  <2>2. Led(root, name) = Led(root, Target(root[2][name]))
    <3>1. Reached(root, name) = {name} \cup Reached(root, Target(root[2][name]))
      BY <2>1, ReachedOver
    <3> QED BY <2>1, <3>1 DEF Led
  <2>3. NodeMeant(root, name) = NodeMeant(root, Target(root[2][name]))
    BY <2>2 DEF NodeMeant
  <2>4. Target(root[2][name]) \in STRING
    BY <2>1, TargetString
  <2> QED BY <2>1, <2>3, <2>4, <1>2 DEF FollowLink
<1>3. CASE ~ IsDict(At(root, name)) /\ ~ IsLink(At(root, name))
  <2>1. Led(root, name) = {}
    <3>1. Reached(root, name) = {name}
      BY <1>3, EntryKinds, ReachedAlone
    <3> QED BY <1>3, <3>1 DEF Led
  <2>2. NodeMeant(root, name) = Null
    BY <2>1 DEF NodeMeant
  <2> QED BY <2>2, <1>3 DEF FollowLink
<1> QED BY <1>1, <1>2, <1>3

(* And there is no other: along links that do not go in circles, one entry *)
(* decides.                                                                *)
LEMMA OneMeaning ==
  ASSUME NEW root, ProperRoot(root), NEW name \in STRING,
         NEW f, \A n \in STRING : f[n] = FollowLink(f, root, n)
  PROVE  f[name] = NodeMeant(root, name)
<1> DEFINE R == Reached(root, name)
<1>1. R \subseteq STRING /\ name \in R /\ Closed(root, R)
  BY ReachedStrings, ReachedClosed
<1>2. \A n \in R : f[n] = f[name]
  <2> DEFINE S == {n \in STRING : f[n] = f[name]}
  <2>1. Closed(root, S)
    <3> SUFFICES ASSUME NEW n \in S \cap Linked(root) PROVE Target(root[2][n]) \in S
      BY DEF Closed
    <3>1. IsLink(At(root, n)) /\ ~ IsDict(At(root, n)) /\ At(root, n) = root[2][n]
      BY EntryKinds DEF Linked
    <3>2. Target(root[2][n]) \in STRING
      BY TargetString
    <3>3. f[n] = f[Target(root[2][n])]
      BY <3>1 DEF FollowLink
    <3> QED BY <3>2, <3>3
  <2>2. R \subseteq S
    BY <2>1, ReachedLeast
  <2> QED BY <2>2
<1>3. PICK m \in R : m \notin Linked(root)
  <2>1. CASE R \subseteq Linked(root)
    <3>1. R \in SUBSET DOMAIN root[2] /\ R # {}
      BY <2>1, <1>1 DEF Linked
    <3>2. PICK n \in R : ~ (IsLink(root[2][n]) /\ Target(root[2][n]) \in R)
      BY <3>1 DEF ProperRoot
    <3>3. n \in Linked(root) /\ Target(root[2][n]) \in R
      BY <2>1, <1>1 DEF Closed
    <3> QED BY <3>2, <3>3 DEF Linked
  <2> QED BY <2>1
<1>4. f[name] = IF IsDict(At(root, m)) THEN At(root, m) ELSE Null
  <2>1. ~ IsLink(At(root, m))
    BY <1>3, EntryKinds
  <2>2. f[m] = FollowLink(f, root, m) /\ f[m] = f[name]
    BY <1>1, <1>2
  <2> QED BY <2>1, <2>2 DEF FollowLink
<1>5. \A n \in Led(root, name) : f[name] = At(root, n)
  <2> TAKE n \in Led(root, name)
  <2>1. n \in R /\ IsDict(At(root, n)) /\ ~ IsLink(At(root, n))
    BY EntryKinds DEF Led
  <2>2. f[n] = FollowLink(f, root, n) /\ f[n] = f[name]
    BY <1>1, <1>2, <2>1
  <2> QED BY <2>1, <2>2 DEF FollowLink
<1>6. CASE Led(root, name) = {}
  <2>1. NodeMeant(root, name) = Null
    BY <1>6 DEF NodeMeant
  <2> QED BY <2>1, <1>4, <1>6 DEF Led
<1>7. CASE Led(root, name) # {}
  <2>1. (CHOOSE n \in Led(root, name) : TRUE) \in Led(root, name)
    BY <1>7
  <2>2. NodeMeant(root, name) = At(root, CHOOSE n \in Led(root, name) : TRUE)
    BY <1>7 DEF NodeMeant
  <2> QED BY <2>1, <2>2, <1>5
<1> QED BY <1>6, <1>7

(* _getConfigurationNode finds the dictionary that a name means, over any  *)
(* number of links, as long as they do not go in circles.                  *)
THEOREM FollowLinksMeant ==
  ASSUME NEW root, ProperRoot(root), NEW name \in STRING
  PROVE  FollowLinks(root, name) = NodeMeant(root, name)
<1> DEFINE Fixed(g) == g = [n \in STRING |-> FollowLink(g, root, n)]
           f == CHOOSE g : Fixed(g)
           meant == [n \in STRING |-> NodeMeant(root, n)]
<1>1. \A n \in STRING : meant[n] = FollowLink(meant, root, n)
  BY MeantFollows
<1>2. Fixed(meant)
  BY <1>1
<1>3. Fixed(f)
  <2> HIDE DEF Fixed
  <2> QED BY <1>2
<1>4. FollowLinks(root, name) = f[name]
  BY Zenon DEF FollowLinks
<1> HIDE DEF f
<1>5. \A n \in STRING : f[n] = FollowLink(f, root, n)
  BY <1>3
<1> QED BY <1>4, <1>5, OneMeaning
(* What a name means is a dictionary, and a proper one, or nothing. *)
LEMMA NodeProper ==
  ASSUME NEW root, ProperRoot(root), NEW name
  PROVE  \/ NodeMeant(root, name) = Null
         \/ IsDict(NodeMeant(root, name)) /\ ProperDict(NodeMeant(root, name))
<1> DEFINE n == CHOOSE m \in Led(root, name) : TRUE
<1>1. CASE Led(root, name) # {}
  <2>1. n \in Led(root, name) /\ NodeMeant(root, name) = At(root, n)
    BY <1>1 DEF NodeMeant
  <2>2. IsDict(At(root, n)) /\ n \in DOMAIN root[2] /\ At(root, n) = root[2][n]
    BY <2>1, EntryKinds DEF Led
  <2> QED BY <2>1, <2>2 DEF ProperRoot
<1> QED BY <1>1 DEF NodeMeant

-----------------------------------------------------------------------------
(***************************************************************************)
(* What the sources of a configuration give                                *)
(***************************************************************************)
(* Whatever RMCF means, how deeply it is nested and in which order its     *)
(* keys are written: translateEntry and translateArray give every value    *)
(* back that was written as the tables in Docs/ACPI do.                    *)
THEOREM PackagesTranslated == \A v \in Values : Translated(TranslateEntry, Package[v]) = v
  BY TranslateEntryDecodes, DecodedTranslates

(* RMCF gives what it means, once it can be evaluated. *)
LEMMA OverrideMeant ==
  ASSUME over \in Overrides
  PROVE  GetConfigurationOverride = IF ready /\ IsDict(over) THEN over ELSE Null
<1> DEFINE obj == IF Package[over][1] = "array" THEN TranslateArray(TranslateEntry, Package[over][2])
                  ELSE Null
<1>1. over \in Values
  BY ValuesAssumption
<1>2. TranslateObject(TranslateEntry, Package[over]) = Decoded(over)
  <2>1. \A w \in Parts(over) : w \in Values
    BY <1>1, ValuesAssumption
  <2> QED BY <1>1, <2>1, TranslateEntryDecodes, TranslatesParts
<1>3. CASE over[1] \in {"array", "dict"}
  <2>1. Package[over][1] = "array" /\ ~ Plain(over)
    BY <1>1, <1>3, WrittenKinds DEF Plain
  <2>2. obj = over
    BY <1>2, <2>1 DEF TranslateObject, Decoded
  <2> QED BY <2>2 DEF GetConfigurationOverride
<1>4. CASE over[1] \notin {"array", "dict"}
  <2>1. Package[over][1] # "array" /\ ~ IsDict(over)
    BY <1>1, <1>4, WrittenKinds DEF IsDict
  <2>2. obj = Null /\ ~ IsDict(Null)
    BY <2>1 DEF Null, IsDict
  <2> QED BY <2>1, <2>2 DEF GetConfigurationOverride
<1> QED BY <1>3, <1>4

(* A section of RMCF that is a dictionary is a proper one. *)
LEMMA SectionProper ==
  ASSUME NEW o \in Overrides, IsDict(o), NEW s, IsDict(At(o, s))
  PROVE  ProperDict(At(o, s))
<1>1. o \in Values /\ s \in DOMAIN o[2] /\ At(o, s) = o[2][s]
  BY ValuesAssumption DEF At, Null, IsDict
<1>2. At(o, s) \in Values
  BY <1>1, PartsBelow DEF IsDict
<1>3. ProperValue(At(o, s))
  BY <1>2, PartsBelow
<1> QED BY <1>3 DEF ProperValue, IsDict

(* The computer's own profile is found. *)
LEMMA ProfileFound ==
  ASSUME platform \in Platforms, NEW list \in Lists, IsDict(list)
  PROVE  /\ GetConfigurationNode(list) = ProfileMeant(list)
         /\ FollowLinks(list, "Default") = NodeMeant(list, "Default")
         /\ ProfileMeant(list) = Null \/ (IsDict(ProfileMeant(list)) /\ ProperDict(ProfileMeant(list)))
         /\ \/ NodeMeant(list, "Default") = Null
            \/ IsDict(NodeMeant(list, "Default")) /\ ProperDict(NodeMeant(list, "Default"))
<1>1. /\ ProperRoot(list)
      /\ \A n \in DOMAIN list[2] : IsDict(list[2][n]) => ProperRoot(list[2][n])
  <2>1. list # Null
    BY DEF Null, IsDict
  <2> QED BY <2>1, ListsAssumption
<1>7. "Default" \in STRING
  BY ListsAssumption
<1>2. FollowLinks(list, "Default") = NodeMeant(list, "Default")
  BY <1>1, <1>7, FollowLinksMeant
<1> DEFINE oem == NameMeant(platform.oemOver, platform.oem)
           table == NameMeant(platform.tableOver, platform.table)
<1>3. Manufacturer = oem /\ Product = table
  BY DEF Manufacturer, Product, PlatformName, NameMeant, Named, StripTrailingSpaces
<1>4. table # <<>> => table[1] \in STRING
  BY PlatformsAssumption DEF NameMeant
<1> HIDE DEF oem, table
<1> DEFINE root == At(list, oem[1])
           name == IF table = <<>> THEN "Default" ELSE table[1]
<1>5. CASE oem # <<>> /\ IsDict(root)
  <2>1. ProperRoot(root)
    <3>1. oem[1] \in DOMAIN list[2] /\ root = list[2][oem[1]]
      BY <1>5, EntryKinds
    <3> QED BY <1>1, <1>5, <3>1
  <2>2. name \in STRING
    BY <1>4, <1>7
  <2>3. ProfileMeant(list) = NodeMeant(root, name)
    BY <1>5 DEF ProfileMeant, oem, table
  <2>4. GetConfigurationNode(list) = FollowLinks(root, name)
    BY <1>3, <1>5 DEF GetConfigurationNode
  <2> HIDE DEF root, name
  <2>5. FollowLinks(root, name) = NodeMeant(root, name)
    BY <2>1, <2>2, FollowLinksMeant
  <2>6. \/ NodeMeant(root, name) = Null
        \/ IsDict(NodeMeant(root, name)) /\ ProperDict(NodeMeant(root, name))
    BY <2>1, NodeProper
  <2>7. \/ NodeMeant(list, "Default") = Null
        \/ IsDict(NodeMeant(list, "Default")) /\ ProperDict(NodeMeant(list, "Default"))
    BY <1>1, NodeProper
  <2> QED BY <1>2, <2>3, <2>4, <2>5, <2>6, <2>7
<1>6. CASE ~ (oem # <<>> /\ IsDict(root))
  <2>1. ProfileMeant(list) = Null
    BY <1>6 DEF ProfileMeant, oem, table
  <2>2. GetConfigurationNode(list) = Null
    BY <1>3, <1>6 DEF GetConfigurationNode
  <2> QED BY <1>1, <1>2, <2>1, <2>2, NodeProper
<1> QED BY <1>5, <1>6

-----------------------------------------------------------------------------
(***************************************************************************)
(* The three layers of a configuration                                     *)
(***************************************************************************)
(* Three layers, the first on top *)
KeysOf(d) == IF IsDict(d) THEN DOMAIN d[2] ELSE {}
TopValue(a, b, c, k) ==
    IF k \in KeysOf(a) THEN a[2][k] ELSE IF k \in KeysOf(b) THEN b[2][k] ELSE c[2][k]

(* Every key has the value of the topmost layer that has it. *)
LEMMA OverlaidValue ==
  ASSUME NEW a, NEW b, NEW c, NEW layers, layers = <<a, b, c>>,
         IsDict(a) \/ IsDict(b) \/ IsDict(c)
  PROVE  Overlaid(layers) = Dict([k \in KeysOf(a) \cup KeysOf(b) \cup KeysOf(c) |-> TopValue(a, b, c, k)])
<1> DEFINE dicts == {i \in 1 .. 3 : IsDict(layers[i])}
<1>1. layers[1] = a /\ layers[2] = b /\ layers[3] = c /\ 1 .. 3 = {1, 2, 3}
  OBVIOUS
<1>2. dicts # {}
  BY <1>1
<1>3. UNION {DOMAIN layers[i][2] : i \in dicts} = KeysOf(a) \cup KeysOf(b) \cup KeysOf(c)
  BY <1>1 DEF KeysOf
<1>4. ASSUME NEW k \in KeysOf(a) \cup KeysOf(b) \cup KeysOf(c)
      PROVE  layers[Topmost(layers, k)][2][k] = TopValue(a, b, c, k)
  <2> DEFINE H == Having(layers, k)
  <2>1. /\ H \subseteq {1, 2, 3}
        /\ 1 \in H <=> k \in KeysOf(a)
        /\ 2 \in H <=> k \in KeysOf(b)
        /\ 3 \in H <=> k \in KeysOf(c)
    BY <1>1 DEF Having, KeysOf
  <2> HIDE DEF H
  <2>2. \E i \in H : \A j \in H : i <= j
    <3>1. CASE 1 \in H
      BY <3>1, <2>1
    <3>2. CASE 1 \notin H /\ 2 \in H
      BY <3>2, <2>1
    <3>3. CASE 1 \notin H /\ 2 \notin H
      BY <3>3, <2>1
    <3> QED BY <3>1, <3>2, <3>3
  <2>3. Topmost(layers, k) \in H /\ \A j \in H : Topmost(layers, k) <= j
    BY <2>2 DEF Topmost, H
  <2>4. PICK t : t = Topmost(layers, k)
    OBVIOUS
  <2>5. \/ t = 1 /\ k \in KeysOf(a)
        \/ t = 2 /\ k \notin KeysOf(a) /\ k \in KeysOf(b)
        \/ t = 3 /\ k \notin KeysOf(a) /\ k \notin KeysOf(b)
    <3>1. t \in H /\ \A j \in H : t <= j
      BY <2>3, <2>4
    <3>2. t = 1 \/ t = 2 \/ t = 3
      BY <3>1, <2>1
    <3>3. t # 1 => 1 \notin H
      BY <3>1, <3>2
    <3>4. t = 3 => 2 \notin H
      BY <3>1
    <3> QED BY <2>1, <3>1, <3>2, <3>3, <3>4
  <2> QED BY <1>1, <2>4, <2>5 DEF TopValue
<1>5. Overlaid(layers) = Dict([k \in UNION {DOMAIN layers[i][2] : i \in dicts} |-> layers[Topmost(layers, k)][2][k]])
  BY <1>2 DEF Overlaid
<1> HIDE DEF dicts
<1>6. [k \in UNION {DOMAIN layers[i][2] : i \in dicts} |-> layers[Topmost(layers, k)][2][k]]
      = [k \in KeysOf(a) \cup KeysOf(b) \cup KeysOf(c) |-> TopValue(a, b, c, k)]
  BY <1>3, <1>4
<1> QED BY <1>5, <1>6

(* Without layers there is no configuration. *)
LEMMA OverlaidNothing ==
  ASSUME NEW a, NEW b, NEW c, ~ IsDict(a), ~ IsDict(b), ~ IsDict(c)
  PROVE  Overlaid(<<a, b, c>>) = Null
<1>1. {i \in 1 .. 3 : IsDict(<<a, b, c>>[i])} = {}
  OBVIOUS
<1> QED BY <1>1 DEF Overlaid
(* makeConfigurationNode lays the three sources over each other. *)
LEMMA MadeOfLayers ==
  ASSUME NEW sect, NEW own, NEW base, NEW profile, NEW result,
         IsDict(sect) => ProperDict(sect),
         own = Null \/ (IsDict(own) /\ ProperDict(own)),
         base = Null \/ (IsDict(base) /\ ProperDict(base)),
         profile = (CASE IsDict(base) /\ IsDict(own) -> Merge(base, own)
                      [] IsDict(base) /\ ~ IsDict(own) -> base
                      [] OTHER -> own),
         result = (CASE ~ IsDict(sect) -> profile
                     [] IsDict(sect) /\ IsDict(profile) -> Merge(profile, sect)
                     [] OTHER -> sect)
  PROVE  result = Overlaid(<<sect, own, base>>)
<1> DEFINE keys == KeysOf(sect) \cup KeysOf(own) \cup KeysOf(base)
           all == [k \in keys |-> TopValue(sect, own, base, k)]
<1>1. ~ IsDict(Null)
  BY DEF IsDict, Null
<1>2. \A f : IsDict(Dict(f)) /\ Dict(f)[2] = f
  BY DEF IsDict, Dict
<1>3. \A d, e : IsDict(Merge(d, e))
  BY <1>2 DEF Merge
<1>4. ASSUME IsDict(sect) \/ IsDict(own) \/ IsDict(base)
      PROVE  Overlaid(<<sect, own, base>>) = Dict(all)
  BY <1>4, OverlaidValue
<1>5. CASE ~ IsDict(sect) /\ ~ IsDict(own) /\ ~ IsDict(base)
  <2>1. result = Null
    BY <1>5
  <2> QED BY <1>5, <2>1, OverlaidNothing
<1>6. CASE ~ IsDict(sect) /\ ~ IsDict(own) /\ IsDict(base)
  <2>1. result = base /\ ProperDict(base)
    BY <1>1, <1>6
  <2>2. all = [k \in DOMAIN base[2] |-> base[2][k]]
    BY <1>6 DEF KeysOf, TopValue
  <2> QED BY <1>4, <1>6, <2>1, <2>2 DEF ProperDict
<1>7. CASE ~ IsDict(sect) /\ IsDict(own) /\ ~ IsDict(base)
  <2>1. result = own /\ ProperDict(own)
    BY <1>1, <1>7
  <2>2. all = [k \in DOMAIN own[2] |-> own[2][k]]
    BY <1>7 DEF KeysOf, TopValue
  <2> QED BY <1>4, <1>7, <2>1, <2>2 DEF ProperDict
<1>8. CASE ~ IsDict(sect) /\ IsDict(own) /\ IsDict(base)
  <2>1. result = Merge(base, own)
    BY <1>8
  <2>2. all = [k \in DOMAIN base[2] \cup DOMAIN own[2] |->
                 IF k \in DOMAIN own[2] THEN own[2][k] ELSE base[2][k]]
    BY <1>8 DEF KeysOf, TopValue
  <2> QED BY <1>4, <1>8, <2>1, <2>2 DEF Merge
<1>9. CASE IsDict(sect) /\ ~ IsDict(own) /\ ~ IsDict(base)
  <2>1. result = sect /\ ProperDict(sect)
    BY <1>1, <1>9
  <2>2. all = [k \in DOMAIN sect[2] |-> sect[2][k]]
    BY <1>9 DEF KeysOf, TopValue
  <2> QED BY <1>4, <1>9, <2>1, <2>2 DEF ProperDict
<1>10. CASE IsDict(sect) /\ ~ IsDict(own) /\ IsDict(base)
  <2>1. result = Merge(base, sect)
    BY <1>10
  <2>2. all = [k \in DOMAIN base[2] \cup DOMAIN sect[2] |->
                 IF k \in DOMAIN sect[2] THEN sect[2][k] ELSE base[2][k]]
    BY <1>10 DEF KeysOf, TopValue
  <2> QED BY <1>4, <1>10, <2>1, <2>2 DEF Merge
<1>11. CASE IsDict(sect) /\ IsDict(own) /\ ~ IsDict(base)
  <2>1. result = Merge(own, sect)
    BY <1>11
  <2>2. all = [k \in DOMAIN own[2] \cup DOMAIN sect[2] |->
                 IF k \in DOMAIN sect[2] THEN sect[2][k] ELSE own[2][k]]
    BY <1>11 DEF KeysOf, TopValue
  <2> QED BY <1>4, <1>11, <2>1, <2>2 DEF Merge
<1>12. CASE IsDict(sect) /\ IsDict(own) /\ IsDict(base)
  <2>1. profile = Merge(base, own) /\ IsDict(profile)
    BY <1>3, <1>12
  <2>2. result = Merge(profile, sect)
    BY <1>12, <2>1
  <2>3. profile[2] = [k \in DOMAIN base[2] \cup DOMAIN own[2] |->
                        IF k \in DOMAIN own[2] THEN own[2][k] ELSE base[2][k]]
    BY <1>2, <2>1 DEF Merge
  <2>4. all = [k \in DOMAIN profile[2] \cup DOMAIN sect[2] |->
                 IF k \in DOMAIN sect[2] THEN sect[2][k] ELSE profile[2][k]]
    BY <1>12, <2>3 DEF KeysOf, TopValue
  <2> QED BY <1>4, <1>12, <2>2, <2>4 DEF Merge
<1> QED BY <1>5, <1>6, <1>7, <1>8, <1>9, <1>10, <1>11, <1>12

-----------------------------------------------------------------------------
(***************************************************************************)
(* The probes                                                              *)
(***************************************************************************)
(* What _rmcfCache holds is RMCF as it is meant, and only once it can be   *)
(* evaluated.                                                              *)
CacheRight == cache = Null \/ (ready /\ IsDict(over) /\ cache = over)

ConfTypeOK ==
    /\ lists \in [Sections -> Lists] /\ platform \in Platforms /\ over \in Overrides
    /\ ready \in BOOLEAN /\ told \in [Sections -> BOOLEAN] /\ DOMAIN conf = Sections

ConfInv == ConfTypeOK /\ CacheRight /\ ConfiguredAsMeant

(* What a probe gets from its three sources *)
LEMMA ProbeResult ==
  ASSUME ConfTypeOK, CacheRight, NEW section \in Sections, IsDict(lists[section])
  PROVE  LET made == MakeConfigurationNode(lists[section], section)
             rmcf == IF ready /\ IsDict(over) THEN over ELSE Null
         IN  /\ made.cache = rmcf
             /\ made.result = Overlaid(<<IF ready /\ IsDict(over) THEN At(over, section) ELSE Null,
                                         ProfileMeant(lists[section]),
                                         NodeMeant(lists[section], "Default")>>)
<1>1. PICK list \in Lists : list = lists[section]
  BY DEF ConfTypeOK
<1>2. PICK base : base = NodeMeant(list, "Default")
  OBVIOUS
<1>3. PICK own : own = ProfileMeant(list)
  OBVIOUS
<1>4. PICK profile : profile = (CASE IsDict(base) /\ IsDict(own) -> Merge(base, own)
                                  [] IsDict(base) /\ ~ IsDict(own) -> base
                                  [] OTHER -> own)
  OBVIOUS
<1>5. PICK rmcf : rmcf = IF ready /\ IsDict(over) THEN over ELSE Null
  OBVIOUS
<1>6. PICK sect : sect = IF ready /\ IsDict(over) THEN At(over, section) ELSE Null
  OBVIOUS
<1>7. PICK result : result = (CASE ~ IsDict(sect) -> profile
                                [] IsDict(sect) /\ IsDict(profile) -> Merge(profile, sect)
                                [] OTHER -> sect)
  OBVIOUS
<1>8. /\ FollowLinks(list, "Default") = base
      /\ GetConfigurationNode(list) = own
      /\ own = Null \/ (IsDict(own) /\ ProperDict(own))
      /\ base = Null \/ (IsDict(base) /\ ProperDict(base))
  BY <1>1, <1>2, <1>3, ProfileFound DEF ConfTypeOK
<1>9. rmcf = IF cache # Null THEN cache ELSE GetConfigurationOverride
  <2>1. GetConfigurationOverride = rmcf
    BY <1>5, OverrideMeant DEF ConfTypeOK
  <2>2. CASE cache # Null
    BY <1>5, <2>2 DEF CacheRight
  <2> QED BY <2>1, <2>2
<1>10. ~ IsDict(Null)
  BY DEF IsDict, Null
<1>11. sect = IF rmcf # Null THEN At(rmcf, section) ELSE Null
  BY <1>5, <1>6, <1>10
<1>12. MakeConfigurationNode(list, section) = [result |-> result, cache |-> rmcf]
  BY <1>4, <1>7, <1>8, <1>9, <1>11 DEF MakeConfigurationNode
<1>13. IsDict(sect) => ProperDict(sect)
  BY <1>6, <1>10, SectionProper DEF ConfTypeOK
<1>14. result = Overlaid(<<sect, own, base>>)
  BY <1>4, <1>7, <1>8, <1>13, MadeOfLayers
<1>15. [result |-> result, cache |-> rmcf].result = result /\ [result |-> result, cache |-> rmcf].cache = rmcf
  OBVIOUS
<1> QED BY <1>1, <1>2, <1>3, <1>5, <1>6, <1>12, <1>14, <1>15, Zenon
(* The invariant holds before the first probe, *)
LEMMA ConfInitInv == ConfInit => ConfInv
<1> SUFFICES ASSUME ConfInit PROVE ConfInv
  OBVIOUS
<1>1. "Controller" \in Sections
  BY ListsAssumption
<1>2. conf["Controller"] = <<"none">> /\ ~ IsDict(<<"none">>)
  BY <1>1 DEF ConfInit, IsDict
<1>3. ConfiguredAsMeant
  BY <1>2 DEF ConfInit, ConfiguredAsMeant
<1>4. ConfTypeOK /\ CacheRight
  BY DEF ConfInit, ConfTypeOK, CacheRight
<1> QED BY <1>3, <1>4 DEF ConfInv

(* What is meant for a driver does not change but by its own probe. *)
LEMMA MeantStays ==
  ASSUME UNCHANGED <<lists, platform, over>>, NEW s, told'[s] = told[s]
  PROVE  LayersMeant(s)' = LayersMeant(s)
  BY DEF LayersMeant, ProfileMeant, NameMeant

(* after a probe, whether or not RMCF could be evaluated, *)
LEMMA ProbeStep ==
  ASSUME ConfInv, NEW section \in Sections, Probe(section)
  PROVE  ConfInv'
<1>1. ConfTypeOK /\ CacheRight /\ ConfiguredAsMeant
  BY DEF ConfInv
<1>2. PICK made : made = IF IsDict(lists[section]) THEN MakeConfigurationNode(lists[section], section)
                         ELSE [result |-> Null, cache |-> cache]
  OBVIOUS
<1>3. /\ conf' = [conf EXCEPT ![section] = made.result]
      /\ cache' = made.cache
      /\ settings' = IF section = "Controller" /\ IsDict(made.result)
                     THEN SetProperties(made.result) ELSE settings
      /\ told' = [told EXCEPT ![section] = ready]
      /\ UNCHANGED <<lists, platform, over, ready>>
  BY <1>2, Zenon DEF Probe
<1>4. ConfTypeOK'
  BY <1>1, <1>3 DEF ConfTypeOK
<1>5. CacheRight'
  <2>1. CASE IsDict(lists[section])
    <3>1. made.cache = IF ready /\ IsDict(over) THEN over ELSE Null
      BY <1>1, <1>2, <2>1, ProbeResult
    <3> QED BY <1>3, <3>1 DEF CacheRight
  <2>2. CASE ~ IsDict(lists[section])
    <3>1. made.cache = cache
      BY <1>2, <2>2
    <3> QED BY <1>1, <1>3, <3>1 DEF CacheRight
  <2> QED BY <2>1, <2>2
<1>6. told'[section] = ready /\ conf'[section] = made.result /\ lists'[section] = lists[section]
  BY <1>1, <1>3 DEF ConfTypeOK
<1>7. made.result = Overlaid(LayersMeant(section)')
  <2>1. CASE IsDict(lists[section])
    <3>1. made.result = Overlaid(<<IF ready /\ IsDict(over) THEN At(over, section) ELSE Null,
                                   ProfileMeant(lists[section]), NodeMeant(lists[section], "Default")>>)
      BY <1>1, <1>2, <2>1, ProbeResult
    <3>2. ProfileMeant(lists[section])' = ProfileMeant(lists[section])
      BY <1>3 DEF ProfileMeant, NameMeant
    <3>3. LayersMeant(section)' = <<IF ready /\ IsDict(over) THEN At(over, section) ELSE Null,
                                    ProfileMeant(lists[section]), NodeMeant(lists[section], "Default")>>
      BY <1>3, <1>6, <2>1, <3>2 DEF LayersMeant
    <3> QED BY <3>1, <3>3
  <2>2. CASE ~ IsDict(lists[section])
    <3>1. made.result = Null /\ ~ IsDict(Null)
      BY <1>2, <2>2 DEF IsDict, Null
    <3>2. LayersMeant(section)' = <<Null, Null, Null>>
      BY <1>3, <2>2 DEF LayersMeant
    <3> QED BY <3>1, <3>2, OverlaidNothing
  <2> QED BY <2>1, <2>2
<1>8. ASSUME NEW s \in Sections, conf'[s] # <<"none">>
      PROVE  conf'[s] = Overlaid(LayersMeant(s)')
  <2>1. CASE s = section
    BY <1>6, <1>7, <2>1
  <2>2. CASE s # section
    <3>1. conf'[s] = conf[s] /\ told'[s] = told[s]
      BY <1>1, <1>3, <2>2 DEF ConfTypeOK
    <3>2. LayersMeant(s)' = LayersMeant(s)
      BY <1>3, <3>1, MeantStays
    <3> QED BY <1>1, <1>8, <3>1, <3>2 DEF ConfiguredAsMeant
  <2> QED BY <2>1, <2>2
<1>9. ASSUME IsDict(conf'["Controller"]), At(conf'["Controller"], "WakeDelay")[1] = "num"
      PROVE  settings'.wakedelay = At(conf'["Controller"], "WakeDelay")[2]
  <2>1. CASE section = "Controller"
    <3>1. conf'["Controller"] = made.result
      BY <1>6, <2>1
    <3>2. settings' = SetProperties(made.result)
      BY <1>3, <1>9, <2>1, <3>1
    <3> QED BY <1>9, <3>1, <3>2 DEF SetProperties
  <2>2. CASE section # "Controller"
    <3>1. conf'["Controller"] = conf["Controller"] /\ settings' = settings
      BY <1>1, <1>3, <2>2, ListsAssumption DEF ConfTypeOK
    <3> QED BY <1>1, <1>9, <3>1 DEF ConfiguredAsMeant
  <2> QED BY <2>1, <2>2
<1>10. ConfiguredAsMeant'
  BY <1>8, <1>9 DEF ConfiguredAsMeant
<1> QED BY <1>4, <1>5, <1>10 DEF ConfInv

(* and after every step. *)
LEMMA ConfStep == ConfInv /\ [ConfNext]_confVars => ConfInv'
<1> SUFFICES ASSUME ConfInv, [ConfNext]_confVars PROVE ConfInv'
  OBVIOUS
<1>1. CASE \E section \in Sections : Probe(section)
  BY <1>1, ProbeStep
<1>2. ASSUME UNCHANGED <<lists, platform, over, cache, conf, told, settings>>,
             ready' = ready \/ ready' = TRUE
      PROVE  ConfInv'
  <2>1. ConfTypeOK' /\ CacheRight'
    BY <1>2 DEF ConfInv, ConfTypeOK, CacheRight
  <2>2. \A s \in Sections : LayersMeant(s)' = LayersMeant(s)
    BY <1>2, MeantStays
  <2>3. ConfiguredAsMeant'
    BY <1>2, <2>2 DEF ConfInv, ConfiguredAsMeant
  <2> QED BY <2>1, <2>3 DEF ConfInv
<1>3. CASE AcpiReady
  BY <1>2, <1>3 DEF AcpiReady
<1>4. CASE UNCHANGED confVars
  BY <1>2, <1>4 DEF confVars
<1> QED BY <1>1, <1>3, <1>4 DEF ConfNext

(* The inductive invariant of the probes: _rmcfCache is empty or holds     *)
(* what RMCF means (makeConfigurationNode, getConfigurationOverride).      *)
THEOREM ProbesInvariant == ConfSpec => []ConfInv
  BY ConfInitInv, ConfStep, PTL DEF ConfSpec

(* Every driver that probed has the configuration that its three sources   *)
(* mean, for any drivers, profiles, computers and RMCF, in whatever order  *)
(* they probe and whenever ACPI is ready (makeConfigurationNode).          *)
THEOREM ProbesConfigureAsMeant == ConfSpec => []ConfiguredAsMeant
<1>1. ConfInv => ConfiguredAsMeant
  BY DEF ConfInv
<1> QED BY <1>1, ProbesInvariant, PTL
=============================================================================
