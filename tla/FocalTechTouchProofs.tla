------------------------ MODULE FocalTechTouchProofs ------------------------
(***************************************************************************)
(* The FLT driver keeps its promises about clicks and Force Clicks for     *)
(* every number of fingers, size of the pad, threshold and choice of       *)
(* packets: theorems about the specification of FocalTechTouch.  The last  *)
(* part is about FocalTechForceRace, the same hold with its two handlers   *)
(* interleaved.                                                            *)
(***************************************************************************)
EXTENDS FocalTechTouch, WellFoundedInduction, TLAPS

USE DimensionAssumption

Hardware == [pressed : BOOLEAN, finger : [Finger -> Contact]]
Click == [wasPressed : BOOLEAN, right : BOOLEAN, eligible : BOOLEAN, active : BOOLEAN,
          finger : Int, start : Int \X Int, timer : BOOLEAN]
Hold == [finger : Int, start : Int \X Int, steady : BOOLEAN]

(***************************************************************************)
(* ClickFinger: the loop of reportState finds a finger if one is there.    *)
(***************************************************************************)

(* A set of natural numbers with an element has a least one. *)
LEMMA LeastNatural ==
    ASSUME NEW T, T \subseteq Nat, T # {}
    PROVE  \E m \in T : \A n \in T : m <= n
<1> DEFINE R == OpToRel(<, Nat)
<1>1. IsWellFoundedOn(R, Nat)
  BY NatLessThanWellFounded
<1> HIDE DEF R
<1>2. PICK m \in T : \A n \in T : <<n, m>> \notin R
  BY <1>1, WFMin
<1>3. ASSUME NEW n \in T PROVE m <= n
  <2>1. <<n, m>> \notin {ss \in Nat \X Nat : ss[1] < ss[2]}
    BY <1>2 DEF R, OpToRel
  <2> QED BY <2>1
<1> QED BY <1>3

(* A screen coordinate lies on the pad. *)
LEMMA ScreenRange ==
    ASSUME NEW hw \in Hardware, NEW i \in Finger
    PROVE  ScreenY(hw, i) \in 0 .. yMax
<1>1. hw.finger[i].y \in Int
  BY DEF Hardware, Contact
<1> QED BY <1>1 DEF ScreenY, Clamp

(* The finger chosen for a press is one of those on the pad. *)
LEMMA ClickFingerPresent ==
    ASSUME NEW hw \in Hardware, ClickFinger(hw) # NoFinger
    PROVE  ClickFinger(hw) \in Present(hw)
<1> DEFINE Far(i) == yMax - ScreenY(hw, i)
           Depth == {Far(i) : i \in Present(hw)}
<1>1. Present(hw) # {} /\ Present(hw) \subseteq Finger
  BY DEF ClickFinger, Present
<1>2. \A i \in Present(hw) : ScreenY(hw, i) \in 0 .. yMax
  BY <1>1, ScreenRange
<1>3. Depth \subseteq Nat /\ Depth # {}
  BY <1>1, <1>2
<1>4. PICK d \in Depth : \A e \in Depth : d <= e
  BY <1>3, LeastNatural
<1> DEFINE Nearest == {i \in Present(hw) : Far(i) = d}
<1>5. Nearest \subseteq Nat /\ Nearest # {}
  BY <1>1, <1>4 DEF Finger
<1> HIDE DEF Nearest
<1>6. PICK i \in Nearest : \A j \in Nearest : i <= j
  BY <1>5, LeastNatural
<1>7. i \in Present(hw) /\ Far(i) = d
  BY <1>6 DEF Nearest
<1>8. ASSUME NEW j \in Present(hw)
      PROVE  \/ ScreenY(hw, j) < ScreenY(hw, i)
             \/ ScreenY(hw, j) = ScreenY(hw, i) /\ i <= j
  <2>1. Far(j) >= d
    BY <1>4
  <2>2. CASE Far(j) = d
    <3>1. j \in Nearest
      BY <2>2 DEF Nearest
    <3> QED BY <3>1, <2>2, <1>6, <1>7, <1>2
  <2>3. CASE Far(j) # d
    BY <2>1, <2>3, <1>2, <1>7, <1>3
  <2> QED BY <2>2, <2>3
<1>9. \E k \in Present(hw) : \A j \in Present(hw) :
          \/ ScreenY(hw, j) < ScreenY(hw, k)
          \/ ScreenY(hw, j) = ScreenY(hw, k) /\ k <= j
  BY <1>7, <1>8
<1> HIDE DEF Depth, Far
<1> QED BY <1>1, <1>9 DEF ClickFinger

(***************************************************************************)
(* The click state.  Eligible, active and right exclude each other, all of *)
(* them need the press, and the timer runs for an eligible hold only.      *)
(***************************************************************************)
ClickInv(c) ==
    /\ c.timer <=> c.eligible
    /\ c.eligible => c.wasPressed /\ ~c.right /\ ~c.active /\ c.finger \in Finger
    /\ c.active => c.wasPressed /\ ~c.right

(* A press starts a hold on the finger that clicked, or none. *)
LEMMA PressedFacts ==
    ASSUME NEW c \in Click, NEW hw \in Hardware
    PROVE  /\ Pressed(c, hw) \in Click
           /\ ClickInv(Pressed(c, hw))
           /\ Pressed(c, hw).wasPressed /\ ~Pressed(c, hw).active
           /\ Pressed(c, hw).eligible =>
                 /\ ClickFinger(hw) # NoFinger
                 /\ Pressed(c, hw).finger = ClickFinger(hw)
                 /\ Pressed(c, hw).start = At(hw, ClickFinger(hw))
<1> DEFINE finger == ClickFinger(hw)
           right == finger # NoFinger /\ InRightZone(hw, finger)
           left == finger # NoFinger /\ ~right
<1>1. Pressed(c, hw) =
         [wasPressed |-> TRUE, right |-> right, eligible |-> left,
          active |-> FALSE, finger |-> IF left THEN finger ELSE NoFinger,
          start |-> IF left THEN At(hw, finger) ELSE c.start, timer |-> left]
  BY DEF Pressed
<1>2. left => finger \in Finger
  BY ClickFingerPresent DEF Present
<1>3. left => finger \in Int /\ At(hw, finger) \in Int \X Int
  BY <1>2 DEF At, Hardware, Contact, Finger
<1>4. right \in BOOLEAN /\ left \in BOOLEAN
  OBVIOUS
<1>5. left => ~right /\ finger # NoFinger
  OBVIOUS
<1> HIDE DEF finger, right, left
<1>6. Pressed(c, hw) \in Click
  BY <1>1, <1>3, <1>4 DEF Click, NoFinger
<1>7. ClickInv(Pressed(c, hw))
  BY <1>1, <1>2, <1>4, <1>5 DEF ClickInv
<1>8. /\ Pressed(c, hw).wasPressed /\ ~Pressed(c, hw).active
      /\ Pressed(c, hw).eligible =>
            /\ finger # NoFinger
            /\ Pressed(c, hw).finger = finger
            /\ Pressed(c, hw).start = At(hw, finger)
  BY <1>1, <1>4, <1>5
<1> QED BY <1>6, <1>7, <1>8 DEF finger

(* The release leaves nothing of the click. *)
LEMMA ReleasedFacts ==
    ASSUME NEW c \in Click
    PROVE  /\ Released(c) \in Click
           /\ ClickInv(Released(c))
           /\ ~Released(c).wasPressed /\ ~Released(c).active /\ ~Released(c).eligible
<1>1. NoClick \in Click
  BY DEF NoClick, Click, NoFinger
<1>2. Released(c) \in Click
  BY <1>1 DEF Released, Click
<1>3. /\ ~Released(c).wasPressed /\ ~Released(c).active
      /\ ~Released(c).eligible /\ ~Released(c).timer
  BY DEF Released, NoClick
<1> QED BY <1>2, <1>3 DEF ClickInv

(* What KeepHold leaves eligible is still where it was pressed. *)
LEMMA KeepHoldFacts ==
    ASSUME NEW c \in Click, NEW hw \in Hardware, ClickInv(c), c.wasPressed = hw.pressed
    PROVE  LET k == KeepHold(c, hw)
           IN  /\ k \in Click
               /\ ClickInv(k)
               /\ k.wasPressed = c.wasPressed /\ k.right = c.right
               /\ k.active = c.active /\ k.finger = c.finger /\ k.start = c.start
               /\ k.eligible => /\ c.eligible
                                /\ c.finger \in Present(hw)
                                /\ Near(hw, c.finger, c.start)
<1> DEFINE cancel == [c EXCEPT !.eligible = FALSE, !.timer = FALSE]
<1>1. /\ cancel \in Click /\ ~cancel.eligible /\ ~cancel.timer
      /\ cancel.wasPressed = c.wasPressed /\ cancel.right = c.right
      /\ cancel.active = c.active /\ cancel.finger = c.finger /\ cancel.start = c.start
  BY DEF Click
<1>2. ClickInv(cancel)
  BY <1>1 DEF ClickInv
<1> DEFINE stray == ~(c.finger \in Present(hw) /\ Near(hw, c.finger, c.start))
<1>3. CASE c.eligible /\ stray
  <2>1. KeepHold(c, hw) = cancel
    BY <1>3 DEF KeepHold, ClickInv
  <2> HIDE DEF cancel
  <2> QED BY <2>1, <1>1, <1>2
<1>4. CASE ~(c.eligible /\ stray)
  <2>1. KeepHold(c, hw) = c
    BY <1>4 DEF KeepHold
  <2> QED BY <2>1, <1>4
<1> QED BY <1>3, <1>4

(* One report: the press is remembered, a Force Click never begins, the    *)
(* side never changes during a press, and a hold that is left is the one   *)
(* there was or the one that begins.                                       *)
LEMMA UpdateClickFacts ==
    ASSUME NEW c \in Click, NEW hw \in Hardware, ClickInv(c)
    PROVE  LET u == UpdateClick(c, hw)
           IN  /\ u \in Click
               /\ ClickInv(u)
               /\ u.wasPressed = hw.pressed
               /\ u.active => c.active
               /\ u.eligible => /\ hw.pressed
                                /\ u.finger \in Present(hw)
                                /\ Near(hw, u.finger, u.start)
               /\ hw.pressed /\ c.wasPressed => u.right = c.right
               /\ u.eligible /\ c.wasPressed =>
                     c.eligible /\ u.finger = c.finger /\ u.start = c.start
               /\ u.eligible /\ ~c.wasPressed =>
                     /\ ClickFinger(hw) # NoFinger
                     /\ u.finger = ClickFinger(hw)
                     /\ u.start = At(hw, ClickFinger(hw))
<1> DEFINE v == IF hw.pressed /\ ~c.wasPressed THEN Pressed(c, hw)
                ELSE IF ~hw.pressed THEN Released(c) ELSE c
<1>1. UpdateClick(c, hw) = KeepHold(v, hw)
  BY DEF UpdateClick
<1>2. hw.pressed \in BOOLEAN /\ c.wasPressed \in BOOLEAN
  BY DEF Hardware, Click
<1> DEFINE u == UpdateClick(c, hw)
           Kept == /\ u \in Click /\ ClickInv(u) /\ u.wasPressed = v.wasPressed
                   /\ u.right = v.right /\ u.active = v.active
                   /\ u.finger = v.finger /\ u.start = v.start
                   /\ u.eligible => /\ v.eligible
                                    /\ v.finger \in Present(hw)
                                    /\ Near(hw, v.finger, v.start)
<1> HIDE DEF v
<1>kept. ASSUME v \in Click, ClickInv(v), v.wasPressed = hw.pressed PROVE Kept
  BY <1>1, <1>kept, KeepHoldFacts
<1> USE DEF v
<1>3. CASE hw.pressed /\ ~c.wasPressed
  <2>1. v = Pressed(c, hw)
    BY <1>3
  <2> HIDE DEF v
  <2>2. /\ v \in Click /\ ClickInv(v) /\ v.wasPressed /\ ~v.active
        /\ v.eligible => /\ ClickFinger(hw) # NoFinger
                         /\ v.finger = ClickFinger(hw)
                         /\ v.start = At(hw, ClickFinger(hw))
    BY <2>1, PressedFacts
  <2>3. v.wasPressed = hw.pressed
    BY <2>2, <1>2, <1>3 DEF Click
  <2>4. Kept
    BY <1>kept, <2>2, <2>3
  <2> QED BY <1>3, <2>2, <2>3, <2>4
<1>4. CASE ~hw.pressed
  <2>1. v = Released(c)
    BY <1>4
  <2> HIDE DEF v
  <2>2. v \in Click /\ ClickInv(v) /\ ~v.wasPressed /\ ~v.active /\ ~v.eligible
    BY <2>1, ReleasedFacts
  <2>3. v.wasPressed = hw.pressed
    BY <2>2, <1>2, <1>4 DEF Click
  <2>4. Kept
    BY <1>kept, <2>2, <2>3
  <2> QED BY <1>4, <2>2, <2>3, <2>4
<1>5. CASE hw.pressed /\ c.wasPressed
  <2>1. v = c
    BY <1>5
  <2> HIDE DEF v
  <2>2. v \in Click /\ ClickInv(v)
    BY <2>1
  <2>3. v.wasPressed = hw.pressed
    BY <2>1, <1>2, <1>5
  <2>4. Kept
    BY <1>kept, <2>2, <2>3
  <2> QED BY <1>5, <2>1, <2>2, <2>3, <2>4
<1> QED BY <1>2, <1>3, <1>4, <1>5

(***************************************************************************)
(* The packet handlers keep the shape of _hardware.                        *)
(***************************************************************************)
LEMMA ProcessTouchType ==
    ASSUME hardware \in Hardware, NEW pressed \in BOOLEAN, NEW active \in SUBSET Finger
    PROVE  ProcessTouch(pressed, active) \in Hardware
<1>1. ASSUME NEW i \in Finger
      PROVE  [hardware.finger[i] EXCEPT !.active = i \in active,
                                        !.valid = @ /\ i \in active] \in Contact
  <2> DEFINE f == hardware.finger[i]
             on == i \in active
             known == f.valid /\ on
  <2>1. f \in Contact
    BY DEF Hardware
  <2>2. on \in BOOLEAN /\ known \in BOOLEAN
    OBVIOUS
  <2> HIDE DEF f, on, known
  <2>3. [f EXCEPT !.active = on, !.valid = known] \in Contact
    BY <2>1, <2>2 DEF Contact
  <2> QED BY <2>3 DEF f, on, known
<1> QED BY <1>1 DEF ProcessTouch, Hardware

LEMMA ProcessAbsoluteType ==
    ASSUME hardware \in Hardware, NEW pressed \in BOOLEAN, NEW id, NEW at \in Position
    PROVE  ProcessAbsolute(pressed, id, at) \in Hardware
<1>1. at[1] \in Int /\ at[2] \in Int
  BY PacketAssumption
<1>2. CASE id \in Finger
  <2> DEFINE f == hardware.finger
             g == [f EXCEPT ![id].valid = TRUE, ![id].x = at[1], ![id].y = at[2]]
  <2>1. f \in [Finger -> Contact]
    BY DEF Hardware
  <2>2. g \in [Finger -> Contact]
    BY <1>1, <1>2, <2>1 DEF Contact
  <2> QED BY <1>2, <2>2 DEF ProcessAbsolute, Hardware
<1>3. CASE id \notin Finger
  BY <1>3 DEF ProcessAbsolute
<1> QED BY <1>2, <1>3

LEMMA ShiftType ==
    ASSUME NEW f \in [Finger -> Contact], NEW id, NEW by \in Delta
    PROVE  Shift(f, id, by) \in [Finger -> Contact]
<1>1. by[1] \in Int /\ by[2] \in Int
  BY PacketAssumption
<1>2. CASE id \in Finger
  <2>1. f[id] \in Contact
    BY <1>2
  <2>2. f[id].x + by[1] \in Int /\ f[id].y + by[2] \in Int
    BY <1>1, <2>1 DEF Contact
  <2> DEFINE x == f[id].x + by[1]
             y == f[id].y + by[2]
  <2> HIDE DEF x, y
  <2>3. [f EXCEPT ![id].x = x, ![id].y = y] \in [Finger -> Contact]
    BY <1>2, <2>1, <2>2 DEF Contact, x, y
  <2> QED BY <1>2, <2>3 DEF Shift, x, y
<1>3. CASE id \notin Finger
  BY <1>3 DEF Shift
<1> QED BY <1>2, <1>3

LEMMA ProcessRelativeType ==
    ASSUME hardware \in Hardware, NEW pressed \in BOOLEAN,
           NEW first, NEW by1 \in Delta, NEW second, NEW by2 \in Delta
    PROVE  ProcessRelative(pressed, first, by1, second, by2) \in Hardware
<1>1. hardware.finger \in [Finger -> Contact]
  BY DEF Hardware
<1>2. Shift(Shift(hardware.finger, first, by1), second, by2) \in [Finger -> Contact]
  BY <1>1, ShiftType
<1> QED BY <1>2 DEF ProcessRelative, Hardware

(***************************************************************************)
(* The inductive invariant                                                 *)
(***************************************************************************)

(* A hold that may still be promoted is the one the reports showed, and    *)
(* the finger has been where it was pressed in all of them.                *)
HoldInv ==
    /\ hold \in Hold
    /\ click.eligible =>
          hold.steady /\ hold.finger = click.finger /\ hold.start = click.start

(* Without a client nothing was told.  Until the first sleep the buttons   *)
(* last computed, the client's buttons and its pressure follow from the    *)
(* packets and the click state.                                            *)
ClientInv ==
    /\ ~open => client = NewClient
    /\ ~slept => /\ buttonMask = Mask(hardware, click)
                 /\ lastButtons = Buttons(click, buttonMask)
                 /\ client.buttons \in {0, lastButtons}
                 /\ client.pressure # {} =>
                       click.active /\ client.pressure = {click.finger}

TouchInv ==
    /\ TypeOK
    /\ click \in Click /\ ClickInv(click)
    /\ click.wasPressed = hardware.pressed
    /\ power = "on" \/ slept
    /\ HoldInv
    /\ ClientInv

Client == [buttons : {0, Left, Right}, contacts : SUBSET Finger, pressure : SUBSET Finger]

(* Nothing is pressed and nothing was told at the start. *)
LEMMA TouchInit == Init => TouchInv
<1> SUFFICES ASSUME Init PROVE TouchInv
  OBVIOUS
<1>1. hardware \in Hardware
  BY DEF Init, Quiet, NoTouch, Hardware, Contact
<1>2. click \in Click /\ ClickInv(click)
  BY DEF Init, NoClick, Click, ClickInv, NoFinger
<1>3. client \in Client
  BY DEF Init, NewClient, Client
<1>4. TypeOK
  BY <1>1, <1>2, <1>3 DEF Init, TypeOK, Hardware, Click, Client
<1>5. HoldInv
  BY DEF Init, HoldInv, Hold, NoHold, NoClick, NoFinger
<1>6. ClientInv
  BY DEF Init, ClientInv, NewClient, Mask, Buttons, Quiet, NoClick
<1>7. click.wasPressed = hardware.pressed /\ power = "on"
  BY DEF Init, NoClick, Quiet
<1> QED BY <1>2, <1>4, <1>5, <1>6, <1>7 DEF TouchInv

(* What a report may do to the client. *)
LEMMA MaskRange ==
    ASSUME NEW hw, NEW c
    PROVE  /\ Mask(hw, c) \in {0, Left, Right}
           /\ Buttons(c, Mask(hw, c)) \in {0, Left, Right}
           /\ Buttons(c, Mask(hw, c)) \in {0, Mask(hw, c)}
BY DEF Mask, Buttons

LEMMA EventRange ==
    ASSUME NEW c, NEW fingers \in SUBSET Finger
    PROVE  /\ Event(c, fingers).contacts \in SUBSET Finger
           /\ Event(c, fingers).pressure \in SUBSET Finger
           /\ Event(c, fingers).pressure # {} =>
                 c.active /\ Event(c, fingers).pressure = {c.finger}
BY DEF Event

(* A report, whatever packet brought it, keeps the invariant. *)
LEMMA TouchReport ==
    ASSUME TouchInv, NEW hw \in Hardware, ReportState(hw)
    PROVE  TouchInv'
<1> DEFINE c == UpdateClick(click, hw)
<1>1. click \in Click /\ ClickInv(click)
  BY DEF TouchInv
<1>2. /\ c \in Click /\ ClickInv(c)
      /\ c.wasPressed = hw.pressed
      /\ c.active => click.active
      /\ c.eligible => /\ hw.pressed
                       /\ c.finger \in Present(hw)
                       /\ Near(hw, c.finger, c.start)
      /\ c.eligible /\ click.wasPressed =>
            click.eligible /\ c.finger = click.finger /\ c.start = click.start
      /\ c.eligible /\ ~click.wasPressed =>
            /\ ClickFinger(hw) # NoFinger
            /\ c.finger = ClickFinger(hw)
            /\ c.start = At(hw, ClickFinger(hw))
  BY <1>1, UpdateClickFacts
<1>3. /\ hardware' = hw /\ click' = c /\ touching' = Present(hw)
      /\ buttonMask' = Mask(hw, c)
      /\ SendTouchData(c, Present(hw), Mask(hw, c), lastButtons)
      /\ hold' = UpdateHold(hw)
      /\ power' = power /\ open' = open /\ slept' = slept
  BY DEF ReportState
<1> HIDE DEF c
<1>4. Present(hw) \in SUBSET Finger
  BY DEF Present
<1> DEFINE e == Event(c, Present(hw))
           b == Buttons(c, Mask(hw, c))
           told == [contacts |-> e.contacts, pressure |-> e.pressure,
                    buttons |-> IF b # lastButtons THEN b ELSE client.buttons]
<1>5. lastButtons' = b /\ client' = IF ~open THEN client ELSE told
  BY <1>3 DEF SendTouchData
<1>6. /\ e.contacts \in SUBSET Finger /\ e.pressure \in SUBSET Finger
      /\ e.pressure # {} => c.active /\ e.pressure = {c.finger}
  BY <1>4, EventRange
<1>7. Mask(hw, c) \in {0, Left, Right} /\ b \in {0, Left, Right}
  BY MaskRange
<1> HIDE DEF e, b
<1>8. TypeOK'
  <2>1. client \in Client
    BY DEF TouchInv, TypeOK, Client
  <2>2. told \in Client
    BY <1>6, <1>7, <2>1 DEF Client
  <2>3. client' \in Client
    BY <1>5, <2>1, <2>2
  <2>4. power \in {"on", "off", "dead"} /\ open \in BOOLEAN
    BY DEF TouchInv, TypeOK
  <2> QED BY <1>2, <1>3, <1>4, <1>5, <1>7, <2>3, <2>4
          DEF TypeOK, Hardware, Click, Client
<1>9. HoldInv'
  <2>1. hold \in Hold /\ HoldInv /\ click.wasPressed \in BOOLEAN /\ hw.pressed \in BOOLEAN
    BY <1>1 DEF TouchInv, HoldInv, Click, Hardware
  <2>2. CASE ~hw.pressed
    <3>1. hold' = NoHold
      BY <1>3, <2>2 DEF UpdateHold
    <3> QED BY <3>1, <1>2, <1>3, <2>2 DEF HoldInv, Hold, NoHold, NoFinger
  <2>3. CASE hw.pressed /\ ~click.wasPressed
    <3> DEFINE f == ClickFinger(hw)
    <3>1. hold' = [finger |-> f, steady |-> f # NoFinger,
                   start |-> IF f = NoFinger THEN <<0, 0>> ELSE At(hw, f)]
      BY <1>3, <2>3 DEF UpdateHold
    <3>2. f # NoFinger => f \in Finger
      BY ClickFingerPresent DEF Present
    <3>3. f # NoFinger => f \in Int /\ At(hw, f) \in Int \X Int
      BY <3>2 DEF At, Hardware, Contact, Finger
    <3>4. f \in Int
      BY <3>3 DEF NoFinger
    <3> HIDE DEF f
    <3>5. hold' \in Hold
      BY <3>1, <3>3, <3>4 DEF Hold
    <3>6. c.eligible => f # NoFinger /\ c.finger = f /\ c.start = At(hw, f)
      BY <1>2, <2>3 DEF f
    <3>7. c.eligible => hold'.steady /\ hold'.finger = c.finger /\ hold'.start = c.start
      BY <3>1, <3>6
    <3> QED BY <3>5, <3>7, <1>3 DEF HoldInv
  <2>4. CASE hw.pressed /\ click.wasPressed
    <3> DEFINE still == hold.steady /\ hold.finger \in Present(hw)
                                    /\ Near(hw, hold.finger, hold.start)
    <3>1. hold' = [hold EXCEPT !.steady = still]
      BY <1>3, <2>4 DEF UpdateHold
    <3>2. still \in BOOLEAN
      BY <2>1 DEF Hold
    <3>3. c.eligible => still /\ hold.finger = c.finger /\ hold.start = c.start
      BY <1>2, <2>1, <2>4 DEF HoldInv
    <3> HIDE DEF still
    <3>4. /\ hold' \in Hold /\ hold'.steady = still
          /\ hold'.finger = hold.finger /\ hold'.start = hold.start
      BY <3>1, <3>2, <2>1 DEF Hold
    <3> QED BY <3>3, <3>4, <1>3 DEF HoldInv
  <2> QED BY <2>1, <2>2, <2>3, <2>4
<1>10. ClientInv'
  <2>1. CASE ~open
    <3>1. client = NewClient /\ client' = client
      BY <2>1, <1>5 DEF TouchInv, ClientInv
    <3> QED BY <3>1, <1>3, <1>5 DEF ClientInv, NewClient, b
  <2>2. CASE open
    <3>1. client' = told
      BY <2>2, <1>5
    <3>2. /\ client'.pressure = e.pressure
          /\ client'.buttons = IF b # lastButtons THEN b ELSE client.buttons
      BY <3>1
    <3>3. ~slept => client.buttons \in {0, lastButtons}
      BY DEF TouchInv, ClientInv
    <3> QED BY <2>2, <3>2, <3>3, <1>3, <1>5, <1>6 DEF ClientInv, b
  <2> QED BY <2>1, <2>2
<1> QED BY <1>2, <1>3, <1>8, <1>9, <1>10 DEF TouchInv

LEMMA TouchPackets ==
    ASSUME TouchInv, TouchPacket \/ AbsolutePacket \/ RelativePacket
    PROVE  TouchInv'
<1>1. hardware \in Hardware
  BY DEF TouchInv, TypeOK, Hardware
<1>2. CASE TouchPacket
  <2>1. PICK pressed \in BOOLEAN, active \in SUBSET Finger :
           ReportState(ProcessTouch(pressed, active))
    BY <1>2 DEF TouchPacket
  <2> QED BY <1>1, <2>1, ProcessTouchType, TouchReport
<1>3. CASE AbsolutePacket
  <2>1. PICK pressed \in BOOLEAN, id \in Finger \cup {NoFinger}, at \in Position :
           ReportState(ProcessAbsolute(pressed, id, at))
    BY <1>3 DEF AbsolutePacket
  <2> QED BY <1>1, <2>1, ProcessAbsoluteType, TouchReport
<1>4. CASE RelativePacket
  <2>1. PICK pressed \in BOOLEAN, first \in Finger \cup {NoFinger},
             second \in Finger \cup {NoFinger}, by1 \in Delta, by2 \in Delta :
           ReportState(ProcessRelative(pressed, first, by1, second, by2))
    BY <1>4 DEF RelativePacket
  <2> QED BY <1>1, <2>1, ProcessRelativeType, TouchReport
<1> QED BY <1>2, <1>3, <1>4

(* A promotion releases the button and shows the pressure of the finger    *)
(* that clicked; a timer that comes too late changes only the force state. *)
LEMMA TouchForceTimer ==
    ASSUME TouchInv, ForceTimerFired
    PROVE  TouchInv'
<1>1. /\ click \in Click /\ ClickInv(click) /\ click.timer
      /\ click.wasPressed = hardware.pressed
  BY DEF TouchInv, ForceTimerFired
<1>2. /\ click.eligible /\ click.wasPressed /\ hardware.pressed
      /\ ~click.right /\ ~click.active /\ click.finger \in Finger
  BY <1>1 DEF ClickInv, Click
<1>3. /\ UNCHANGED <<hardware, touching, buttonMask, power, open, hold, slept>>
      /\ MayForce
  BY <1>2 DEF ForceTimerFired, MayForce
<1>4. TypeOK /\ HoldInv /\ ClientInv
  BY DEF TouchInv
<1>5. CASE Steady
  <2> DEFINE c == [click EXCEPT !.timer = FALSE, !.eligible = FALSE, !.active = TRUE]
             b == Buttons(c, buttonMask)
             e == Event(c, touching)
             released == lastButtons = Left
             last == IF released THEN 0 ELSE lastButtons
             told == [contacts |-> e.contacts, pressure |-> e.pressure,
                      buttons |-> IF b # last THEN b
                                  ELSE IF released THEN 0 ELSE client.buttons]
  <2>1. click' = c /\ lastButtons' = b /\ client' = IF ~open THEN client ELSE told
    BY <1>3, <1>5 DEF ForceTimerFired
  <2>2. /\ c \in Click /\ ~c.timer /\ ~c.eligible /\ c.active
        /\ c.wasPressed = click.wasPressed /\ c.right = click.right
        /\ c.finger = click.finger
    BY <1>1 DEF Click
  <2> HIDE DEF c
  <2>3. ClickInv(c)
    BY <2>2, <1>2 DEF ClickInv
  <2>4. /\ e.contacts \in SUBSET Finger /\ e.pressure \in SUBSET Finger
        /\ e.pressure # {} => c.active /\ e.pressure = {c.finger}
    BY <1>4, EventRange DEF TypeOK
  <2>5. b \in {0, Left, Right}
    BY <1>4 DEF Buttons, TypeOK
  <2>6. ~slept => buttonMask = Mask(hardware, c)
    BY <1>4, <2>2 DEF ClientInv, Mask
  <2> HIDE DEF e
  <2>7. client \in Client
    BY <1>4 DEF TypeOK, Client
  <2>8. told \in Client
    BY <2>4, <2>5, <2>7 DEF Client
  <2>9. client' \in Client
    BY <2>1, <2>7, <2>8
  <2>10. TypeOK'
    BY <1>3, <1>4, <2>1, <2>2, <2>5, <2>9 DEF TypeOK, Click, Client
  <2>11. HoldInv'
    BY <1>3, <1>4, <2>1, <2>2 DEF HoldInv
  <2>12. ClientInv'
    <3>1. CASE ~open
      BY <3>1, <1>3, <1>4, <2>1, <2>6 DEF ClientInv, NewClient
    <3>2. CASE open
      <4>1. /\ client'.pressure = e.pressure
            /\ client'.buttons = IF b # last THEN b
                                 ELSE IF released THEN 0 ELSE client.buttons
        BY <3>2, <2>1
      <4>2. ~slept => client.buttons \in {0, lastButtons}
        BY <1>4 DEF ClientInv
      <4>3. ~slept => client'.buttons \in {0, b}
        BY <4>1, <4>2
      <4> QED BY <3>2, <4>1, <4>3, <1>3, <2>1, <2>4, <2>6 DEF ClientInv
    <3> QED BY <3>1, <3>2
  <2> QED BY <1>1, <1>3, <2>1, <2>2, <2>3, <2>10, <2>11, <2>12 DEF TouchInv
<1>6. CASE ~Steady
  <2>1. /\ click' = [click EXCEPT !.timer = FALSE, !.eligible = @ /\ ~MayForce]
        /\ UNCHANGED <<lastButtons, client>>
    BY <1>6 DEF ForceTimerFired
  <2>2. /\ click' \in Click /\ ~click'.timer /\ ~click'.eligible
        /\ click'.active = click.active /\ click'.wasPressed = click.wasPressed
        /\ click'.right = click.right /\ click'.finger = click.finger
    <3>1. (click.eligible /\ ~MayForce) = FALSE
      BY <1>3
    <3>2. click' = [click EXCEPT !.timer = FALSE, !.eligible = FALSE]
      BY <2>1, <3>1
    <3> QED BY <3>2, <1>1 DEF Click
  <2>3. ClickInv(click')
    BY <2>2, <1>2 DEF ClickInv
  <2>4. TypeOK'
    BY <1>3, <1>4, <2>1, <2>2 DEF TypeOK, Click
  <2>5. HoldInv'
    BY <1>3, <1>4, <2>2 DEF HoldInv
  <2>6. ClientInv'
    BY <1>3, <1>4, <2>1, <2>2 DEF ClientInv, Mask, Buttons
  <2> QED BY <1>1, <1>3, <2>2, <2>3, <2>4, <2>5, <2>6 DEF TouchInv
<1> QED BY <1>5, <1>6

(* A sleep gives the hold up; what the client was told stays as it is. *)
LEMMA TouchDisable ==
    ASSUME TouchInv, Disable
    PROVE  TouchInv'
<1>1. click \in Click /\ ClickInv(click) /\ TypeOK /\ HoldInv /\ ClientInv
  BY DEF TouchInv
<1>2. /\ click' = [click EXCEPT !.timer = FALSE, !.eligible = FALSE, !.active = FALSE]
      /\ power' = "off" /\ slept' = TRUE
      /\ UNCHANGED <<hardware, touching, buttonMask, lastButtons, open, client, hold>>
  BY DEF Disable
<1>3. /\ click' \in Click /\ ~click'.timer /\ ~click'.eligible /\ ~click'.active
      /\ click'.wasPressed = click.wasPressed
  BY <1>1, <1>2 DEF Click
<1>4. ClickInv(click')
  BY <1>3 DEF ClickInv
<1>5. TypeOK'
  BY <1>1, <1>2, <1>3 DEF TypeOK, Click
<1>6. HoldInv'
  BY <1>1, <1>2, <1>3 DEF HoldInv
<1>7. ClientInv'
  BY <1>1, <1>2 DEF ClientInv
<1> QED BY <1>2, <1>3, <1>4, <1>5, <1>6, <1>7 DEF TouchInv

(* A wake that gets as far as setupHardware starts from nothing. *)
LEMMA TouchEnable ==
    ASSUME TouchInv, Enable
    PROVE  TouchInv'
<1>1. /\ click \in Click /\ ClickInv(click) /\ TypeOK /\ HoldInv /\ ClientInv
      /\ power = "off" /\ slept
      /\ UNCHANGED <<open, client, slept>>
  BY DEF TouchInv, Enable
<1>2. CASE power' = "dead" /\ UNCHANGED <<driverVars, hold>>
  <2>1. UNCHANGED <<hardware, touching, click, buttonMask, lastButtons, hold>>
    BY <1>2 DEF driverVars
  <2>2. TypeOK'
    BY <1>1, <1>2, <2>1 DEF TypeOK
  <2>3. HoldInv'
    BY <1>1, <2>1 DEF HoldInv
  <2>4. ClientInv'
    BY <1>1, <2>1 DEF ClientInv
  <2> QED BY <1>1, <2>1, <2>2, <2>3, <2>4 DEF TouchInv
<1>3. CASE power' \in {"on", "dead"} /\ SetupHardware
  <2>1. /\ hardware' = Quiet /\ touching' = {} /\ click' = Released(click)
        /\ buttonMask' = 0 /\ lastButtons' = 0 /\ hold' = NoHold
    BY <1>3 DEF SetupHardware
  <2>2. /\ click' \in Click /\ ClickInv(click')
        /\ ~click'.wasPressed /\ ~click'.active /\ ~click'.eligible
    BY <1>1, <2>1, ReleasedFacts
  <2>3. hardware' \in Hardware /\ ~hardware'.pressed
    BY <2>1 DEF Quiet, NoTouch, Hardware, Contact
  <2>4. TypeOK'
    BY <1>1, <1>3, <2>1, <2>2, <2>3 DEF TypeOK, Hardware, Click
  <2>5. HoldInv'
    BY <2>1, <2>2 DEF HoldInv, Hold, NoHold, NoFinger
  <2>6. ClientInv'
    BY <1>1 DEF ClientInv
  <2>7. click'.wasPressed = hardware'.pressed
    BY <2>2, <2>3 DEF Click, Hardware
  <2> QED BY <1>1, <2>2, <2>4, <2>5, <2>6, <2>7 DEF TouchInv
<1> QED BY <1>2, <1>3 DEF Enable

(* A client that comes or goes has been told nothing. *)
LEMMA TouchClient ==
    ASSUME TouchInv, HandleOpen \/ HandleClose
    PROVE  TouchInv'
<1>1. /\ click \in Click /\ ClickInv(click) /\ TypeOK /\ HoldInv /\ ClientInv
      /\ client' = NewClient /\ open' \in BOOLEAN
      /\ UNCHANGED <<hardware, touching, click, buttonMask, lastButtons, power, hold, slept>>
  BY DEF TouchInv, HandleOpen, HandleClose, driverVars
<1>2. NewClient \in Client
  BY DEF NewClient, Client
<1>3. TypeOK'
  BY <1>1, <1>2 DEF TypeOK, Client
<1>4. HoldInv'
  BY <1>1 DEF HoldInv
<1>5. ClientInv'
  BY <1>1 DEF ClientInv, NewClient
<1> QED BY <1>1, <1>3, <1>4, <1>5 DEF TouchInv

LEMMA TouchStutter ==
    ASSUME TouchInv, UNCHANGED vars
    PROVE  TouchInv'
BY DEF TouchInv, TypeOK, HoldInv, ClientInv, vars

LEMMA TouchNext ==
    ASSUME TouchInv, [Next]_vars
    PROVE  TouchInv'
BY TouchPackets, TouchForceTimer, TouchClient, TouchDisable, TouchEnable, TouchStutter
   DEF Next

(***************************************************************************)
(* Theorems                                                                *)
(***************************************************************************)
THEOREM TouchInvariant == Spec => []TouchInv
BY TouchInit, TouchNext, PTL DEF Spec

(* Every field keeps its range. *)
THEOREM TouchTypeOK == Spec => []TypeOK
<1>1. TouchInv => TypeOK
  BY DEF TouchInv
<1> QED BY <1>1, TouchInvariant, PTL

(* The timer runs exactly for a hold that may still be promoted. *)
THEOREM TouchTimerMatchesHold == Spec => []TimerMatchesHold
<1>1. TouchInv => TimerMatchesHold
  BY DEF TouchInv, ClickInv, Click, TimerMatchesHold
<1> QED BY <1>1, TouchInvariant, PTL

(* The force state is that of a left press in progress. *)
THEOREM TouchForceNeedsPress == Spec => []ForceNeedsPress
<1>1. TouchInv => ForceNeedsPress
  BY DEF TouchInv, ClickInv, ForceNeedsPress
<1> QED BY <1>1, TouchInvariant, PTL

(* Until the first sleep the client holds no button that is not pressed. *)
THEOREM TouchNoPhantomButton == Spec => []NoPhantomButton
<1>1. TouchInv => NoPhantomButton
  BY DEF TouchInv, ClientInv, NoPhantomButton, Mask, Buttons
<1> QED BY <1>1, TouchInvariant, PTL

(* Until the first sleep pressure and button exclude each other. *)
THEOREM TouchPressureReplacesButton == Spec => []PressureReplacesButton
<1>1. TouchInv => PressureReplacesButton
  BY DEF TouchInv, ClickInv, ClientInv, PressureReplacesButton, Mask, Buttons
<1> QED BY <1>1, TouchInvariant, PTL

(* Every packet action is a report of some state of _hardware. *)
LEMMA PacketReports ==
    ASSUME TouchInv, TouchPacket \/ AbsolutePacket \/ RelativePacket
    PROVE  \E hw \in Hardware : ReportState(hw)
<1>1. hardware \in Hardware
  BY DEF TouchInv, TypeOK, Hardware
<1>2. CASE TouchPacket
  BY <1>1, <1>2, ProcessTouchType DEF TouchPacket
<1>3. CASE AbsolutePacket
  BY <1>1, <1>3, ProcessAbsoluteType DEF AbsolutePacket
<1>4. CASE RelativePacket
  BY <1>1, <1>4, ProcessRelativeType DEF RelativePacket
<1> QED BY <1>2, <1>3, <1>4

(* A Force Click begins only for a hold that was still in every report. *)
THEOREM TouchForceOnlyAfterStillHold == Spec => ForceOnlyAfterStillHold
<1>1. TouchInv /\ [Next]_vars =>
        [click'.active /\ ~click.active => hold.steady /\ hold.finger = click'.finger]_vars
  <2> SUFFICES ASSUME TouchInv, [Next]_vars, click'.active, ~click.active
               PROVE  hold.steady /\ hold.finger = click'.finger
    OBVIOUS
  <2>1. click \in Click /\ ClickInv(click) /\ HoldInv
    BY DEF TouchInv
  <2>2. CASE ForceTimerFired
    <3>1. click.eligible
      BY <2>1, <2>2 DEF ForceTimerFired, ClickInv
    <3>2. click'.finger = click.finger
      BY <2>1, <2>2 DEF ForceTimerFired, Click
    <3> QED BY <2>1, <3>1, <3>2 DEF HoldInv
  <2>3. CASE TouchPacket \/ AbsolutePacket \/ RelativePacket
    <3>1. PICK hw \in Hardware : ReportState(hw)
      BY <2>3, PacketReports
    <3>2. click' = UpdateClick(click, hw)
      BY <3>1 DEF ReportState
    <3> QED BY <2>1, <3>2, UpdateClickFacts
  <2>4. CASE HandleOpen \/ HandleClose
    BY <2>4 DEF HandleOpen, HandleClose, driverVars
  <2>5. CASE Disable
    BY <2>1, <2>5 DEF Disable, Click
  <2>6. CASE Enable
    <3>1. click' = click \/ click' = Released(click)
      BY <2>6 DEF Enable, SetupHardware, driverVars
    <3> QED BY <2>1, <3>1, ReleasedFacts
  <2>7. CASE UNCHANGED vars
    BY <2>7 DEF vars
  <2> QED BY <2>2, <2>3, <2>4, <2>5, <2>6, <2>7 DEF Next
<1> QED BY <1>1, TouchInvariant, PTL DEF Spec, ForceOnlyAfterStillHold

(* Until the first sleep a click keeps its side to the release. *)
THEOREM TouchSideLatchedAwake == Spec => SideLatchedAwake
<1>1. TouchInv /\ [Next]_vars =>
        [~slept /\ client.buttons # 0 => client'.buttons \in {client.buttons, 0}]_vars
  <2> SUFFICES ASSUME TouchInv, [Next]_vars, ~slept, client.buttons # 0
               PROVE  client'.buttons \in {client.buttons, 0}
    OBVIOUS
  <2>1. /\ click \in Click /\ ClickInv(click) /\ power = "on"
        /\ click.wasPressed = hardware.pressed
    BY DEF TouchInv
  <2>2. /\ open /\ client.buttons = lastButtons
        /\ lastButtons = Buttons(click, Mask(hardware, click))
    BY DEF TouchInv, ClientInv, NewClient
  <2>3. /\ hardware.pressed /\ click.wasPressed
        /\ lastButtons = Mask(hardware, click)
    BY <2>1, <2>2, MaskRange DEF Mask, Buttons
  <2>4. CASE TouchPacket \/ AbsolutePacket \/ RelativePacket
    <3>1. PICK hw \in Hardware : ReportState(hw)
      BY <2>4, PacketReports
    <3> DEFINE u == UpdateClick(click, hw)
    <3>2. SendTouchData(u, Present(hw), Mask(hw, u), lastButtons)
      BY <3>1 DEF ReportState
    <3>3. hw.pressed => u.right = click.right
      BY <2>1, <2>3, UpdateClickFacts
    <3> HIDE DEF u
    <3>4. Mask(hw, u) \in {0, lastButtons}
      BY <2>3, <3>3 DEF Mask
    <3>5. Buttons(u, Mask(hw, u)) \in {0, lastButtons}
      BY <3>4, MaskRange
    <3>6. client'.buttons = IF Buttons(u, Mask(hw, u)) # lastButtons
                            THEN Buttons(u, Mask(hw, u)) ELSE client.buttons
      BY <2>2, <3>2 DEF SendTouchData
    <3> QED BY <2>2, <3>5, <3>6
  <2>5. CASE ForceTimerFired
    <3>1. client' = client \/ client'.buttons \in {0, Buttons(click', buttonMask), client.buttons}
      BY <2>2, <2>5 DEF ForceTimerFired
    <3>2. buttonMask = lastButtons
      BY <2>3 DEF TouchInv, ClientInv
    <3> QED BY <2>2, <3>1, <3>2 DEF Buttons
  <2>6. CASE HandleOpen \/ HandleClose
    BY <2>6 DEF HandleOpen, HandleClose, NewClient
  <2>7. CASE Disable \/ Enable
    BY <2>7 DEF Disable, Enable
  <2>8. CASE UNCHANGED vars
    BY <2>8 DEF vars
  <2> QED BY <2>4, <2>5, <2>6, <2>7, <2>8 DEF Next
<1> QED BY <1>1, TouchInvariant, PTL DEF Spec, SideLatchedAwake

-----------------------------------------------------------------------------
(***************************************************************************)
(* The same hold with packetReady and forceTimerFired interleaved          *)
(* (FocalTechForceRace): the safety that HoldIsResolved needs from the     *)
(* code; what is left is that both work loops run.                         *)
(***************************************************************************)
VARIABLES
    pressed, wasPressed, eligible, active, finger, left, raceButtons, timer, pc,
    current, raceClient         \* of FocalTechForceRace

Race == INSTANCE FocalTechForceRace WITH lastButtons <- raceButtons, client <- raceClient

(* A hold that may become a Force Click is not one yet, and either its     *)
(* timer runs or is due, or forceTimerFired has found it and is about to   *)
(* promote it, or its release is being handled: no order of the checks of  *)
(* one handler and the stores of the other leaves it waiting.              *)
HoldHasTimer ==
    eligible =>
        /\ ~active /\ finger
        /\ \/ timer \in {"set", "due"}
           \/ pc["timer"] = "promote"
           \/ ~pressed /\ pc["packet"] = "report"

RaceLabels == {"idle", "report", "buttons", "event", "compute", "compare", "send",
               "store", "promote", "release", "released"}

(* Each thread is at a label; a release is forgotten only by the handler   *)
(* that ends the hold.                                                     *)
RaceInv ==
    /\ pc \in [Race!Thread -> RaceLabels]
    /\ pressed \in BOOLEAN /\ eligible \in BOOLEAN /\ active \in BOOLEAN
    /\ finger \in BOOLEAN /\ wasPressed \in BOOLEAN
    /\ timer \in {"off", "set", "due"}
    /\ eligible /\ ~pressed => pc["packet"] = "report"
    /\ HoldHasTimer

(* Neither handler, stopped anywhere, leaves a hold without its end        *)
(* (reportState, forceTimerFired, sendTouchData).                          *)
THEOREM RaceHoldHasTimer == Race!Spec => []HoldHasTimer
<1> USE DEF Race!Thread, RaceLabels
<1>1. Race!Init => RaceInv
  BY DEF Race!Init, RaceInv, HoldHasTimer
<1>2. RaceInv /\ [Race!Next]_Race!vars => RaceInv'
  <2> SUFFICES ASSUME RaceInv, [Race!Next]_Race!vars PROVE RaceInv'
    OBVIOUS
  <2> USE DEF RaceInv, HoldHasTimer, Race!Goto
  <2>1. CASE \E down \in BOOLEAN : Race!Packet(down)
    BY <2>1 DEF Race!Packet
  <2>2. CASE Race!ReportEdge
    BY <2>2 DEF Race!ReportEdge
  <2>3. CASE Race!StoreLeft
    BY <2>3 DEF Race!StoreLeft
  <2>4. CASE Race!HoldElapses
    BY <2>4 DEF Race!HoldElapses
  <2>5. CASE Race!TimerFires
    BY <2>5 DEF Race!TimerFires
  <2>6. CASE Race!Promote
    BY <2>6 DEF Race!Promote
  <2>7. CASE Race!ReleaseLeft \/ Race!ForgetLeft
    BY <2>7 DEF Race!ReleaseLeft, Race!ForgetLeft
  <2>8. CASE \E t \in Race!Thread : Race!SendTouchData(t)
    BY <2>8 DEF Race!SendTouchData, Race!SendEvent, Race!ComputeButtons,
                Race!CompareButtons, Race!SendButtons, Race!StoreButtons
  <2>9. CASE UNCHANGED Race!vars
    BY <2>9 DEF Race!vars
  <2> QED
    BY <2>1, <2>2, <2>3, <2>4, <2>5, <2>6, <2>7, <2>8, <2>9
       DEF Race!Next, Race!HandlePacket, Race!TimerThread
<1>3. RaceInv => HoldHasTimer
  BY DEF RaceInv
<1> QED
  BY <1>1, <1>2, <1>3, PTL DEF Race!Spec
=============================================================================
