------------------------ MODULE KeyboardMouseProofs -------------------------
(***************************************************************************)
(* What the keyboard and the mouse driver promise, for every value of      *)
(* their constants: the buttons of the mouse (MouseButtons), its byte      *)
(* stream (MouseStream), the keys (KeyboardDispatch), and the packets      *)
(* they come in (KeyboardInput).                                           *)
(***************************************************************************)
EXTENDS Mouse, Keyboard, SequenceTheorems, FiniteSetTheorems, WellFoundedInduction,
        TLAPS

-----------------------------------------------------------------------------
(***************************************************************************)
(* The buttons of the mouse: the inductive invariant                       *)
(***************************************************************************)

(* Together with the middle button that left and right stand for *)
WithMiddle(known) == known \cup (IF Both \subseteq known THEN {Middle} ELSE {})

(* Only a single button is owed, and it is all that is pending; nothing is *)
(* owed once FakeMiddleButton was changed with a button down.              *)
OwedInv == owed # {} => ~ switched /\ owed = mb.pending /\ owed # Both

(* The timer is set only while a button is held back. *)
TimerInv == mb.timer => mb.state \in Waiting

(* Unless FakeMiddleButton was so changed, the state machine keeps only    *)
(* what the last packet showed, and leaves STATE_NOBUTTONS only while it   *)
(* is in use.                                                              *)
FollowsPacket ==
    ~ switched =>
        /\ mb.pending \subseteq reported
        /\ mb.state = "MIDDLE" => Both \subseteq reported
        /\ (fake /\ count > 2) \/ mb.state = "NOBUTTONS"
        /\ last \subseteq WithMiddle(reported)

ButtonsInv == TypeOK /\ PressIsKept /\ OwedInv /\ TimerInv /\ FollowsPacket

-----------------------------------------------------------------------------
(***************************************************************************)
(* What middleButton returns                                               *)
(***************************************************************************)

(* What the invariant says of the state machine by itself *)
Clean(m) == /\ m \in MiddleState
            /\ m.pending # {} => m.state \in Waiting
            /\ m.timer => m.state \in Waiting

(* The state machine keeps only buttons that it is shown, and calls only   *)
(* left and right together the middle button (middleButton).               *)
LEMMA NextStateFollows ==
    ASSUME NEW m, Clean(m), NEW buttons \in SUBSET Button, NEW expired \in BOOLEAN
    PROVE  LET n == NextState(m, buttons, expired)
           IN  /\ Clean(n)
               /\ n.pending \subseteq buttons
               /\ n.state = "MIDDLE" => Both \subseteq buttons
<1> DEFINE n == NextState(m, buttons, expired)
<1>0. /\ m = [state |-> m.state, pending |-> m.pending, timer |-> m.timer]
      /\ m.state \in {"NOBUTTONS", "WAIT4TWO", "MIDDLE", "WAIT4NONE", "NOOP"}
      /\ m.pending \subseteq Button /\ m.timer \in BOOLEAN
  BY DEF Clean, MiddleState
<1>1. CASE m.state = "NOBUTTONS"
  BY <1>0, <1>1 DEF Clean, MiddleState, NextState, Wait, Waiting, Both
<1>2. CASE m.state = "WAIT4TWO"
  BY <1>0, <1>2 DEF Clean, MiddleState, NextState, Settle, Settled, Waiting, Both
<1>3. CASE m.state = "MIDDLE"
  BY <1>0, <1>3 DEF Clean, MiddleState, NextState, Wait, Waiting, Both
<1>4. CASE m.state = "WAIT4NONE"
  BY <1>0, <1>4 DEF Clean, MiddleState, NextState, Settle, Settled, Waiting, Both
<1>5. CASE m.state = "NOOP"
  BY <1>0, <1>5 DEF Clean, MiddleState, NextState, Waiting, Both
<1>6. QED
  BY <1>0, <1>1, <1>2, <1>3, <1>4, <1>5

(* The three ways in which middleButton ends: the state machine rests and  *)
(* the buttons are passed on, it has a middle button, or it waits.         *)
Rests(m, buttons, n, extra) ==
    /\ n.state \in {"NOBUTTONS", "NOOP"}
    /\ Visible(n.state, buttons) = buttons
    /\ n.state = "NOBUTTONS" <=> buttons = {}
    /\ m.state = "WAIT4TWO" =>
          m.pending \cap buttons # {} \/ extra = <<buttons \cup m.pending>>

Waits(m, buttons, n, extra, expired) ==
    /\ n.state \in Waiting
    /\ n.pending = buttons
    /\ Visible(n.state, buttons) = buttons \ Both
    /\ \/ /\ m.state = "NOBUTTONS" /\ n.state = "WAIT4TWO"
          /\ Middle \notin buttons /\ buttons # Both
       \/ m.state = "MIDDLE" /\ n.state = "WAIT4NONE"
       \/ m.state \in Waiting /\ n.state = m.state /\ buttons = m.pending /\ ~ expired

(* middleButton ends in one of them, and what it dispatches itself is made *)
(* of the present and the pending buttons.                                 *)
LEMMA Outcome ==
    ASSUME NEW m, Clean(m), NEW buttons \in SUBSET Button,
           NEW expired \in BOOLEAN, NEW fromTimer \in BOOLEAN
    PROVE  LET n == NextState(m, buttons, expired)
               extra == Extra(m, buttons, expired, fromTimer)
           IN  /\ \/ Rests(m, buttons, n, extra)
                  \/ n.state = "MIDDLE" /\ Visible(n.state, buttons) = {Middle}
                  \/ Waits(m, buttons, n, extra, expired)
               /\ extra = << >> \/ extra = <<buttons \cup m.pending>>
<1> DEFINE n == NextState(m, buttons, expired)
           extra == Extra(m, buttons, expired, fromTimer)
<1>0. /\ m.state \in {"NOBUTTONS", "WAIT4TWO", "MIDDLE", "WAIT4NONE", "NOOP"}
      /\ m.pending \subseteq Button
  BY DEF Clean, MiddleState
<1>a. extra = << >> \/ extra = <<buttons \cup m.pending>>
  BY DEF Extra
<1>b. /\ n.state = "MIDDLE" => Visible(n.state, buttons) = {Middle}
      /\ n.state \in Waiting => Visible(n.state, buttons) = buttons \ Both
      /\ n.state \in {"NOBUTTONS", "NOOP"} => Visible(n.state, buttons) = buttons
  BY DEF Visible, Waiting
<1>1. CASE m.state = "NOBUTTONS"
  <2>1. \/ n.state \in {"NOBUTTONS", "NOOP"} /\ (n.state = "NOBUTTONS" <=> buttons = {})
        \/ n.state = "MIDDLE"
        \/ /\ n.state = "WAIT4TWO" /\ n.pending = buttons
           /\ Middle \notin buttons /\ buttons # Both
    BY <1>1 DEF Clean, MiddleState, NextState, Wait
  <2>2. QED
    BY <1>1, <1>a, <1>b, <2>1 DEF Rests, Waits, Waiting
<1>2. CASE m.state = "WAIT4TWO"
  <2>1. CASE n.state = "MIDDLE"
    BY <1>a, <1>b, <2>1
  <2>2. CASE n = m /\ buttons = m.pending /\ ~ expired
    BY <1>2, <1>a, <1>b, <2>2 DEF Waits, Waiting
  <2>3. CASE n = Settled(buttons) /\ (expired \/ buttons # m.pending)
    <3>1. m.pending \cap buttons # {} \/ extra = <<buttons \cup m.pending>>
      BY <1>2, <2>3 DEF Extra
    <3>2. n.state \in {"NOBUTTONS", "NOOP"} /\ (n.state = "NOBUTTONS" <=> buttons = {})
      BY <2>3 DEF Settled, Settle
    <3>3. QED
      BY <1>a, <1>b, <3>1, <3>2 DEF Rests
  <2>4. QED
    BY <1>2, <2>1, <2>2, <2>3 DEF NextState, Settle
<1>3. CASE m.state = "MIDDLE"
  <2>1. \/ n.state = "NOBUTTONS" /\ buttons = {}
        \/ n.state = "MIDDLE"
        \/ n.state = "WAIT4NONE" /\ n.pending = buttons
    BY <1>3 DEF Clean, MiddleState, NextState, Wait
  <2>2. QED
    BY <1>3, <1>a, <1>b, <2>1 DEF Rests, Waits, Waiting
<1>4. CASE m.state = "WAIT4NONE"
  <2>1. \/ n = m /\ buttons = m.pending /\ ~ expired
        \/ n.state \in {"NOBUTTONS", "NOOP"} /\ (n.state = "NOBUTTONS" <=> buttons = {})
    BY <1>4 DEF NextState, Settled, Settle
  <2>2. QED
    BY <1>4, <1>a, <1>b, <2>1 DEF Rests, Waits, Waiting
<1>5. CASE m.state = "NOOP"
  <2>1. n.state \in {"NOBUTTONS", "NOOP"} /\ (n.state = "NOBUTTONS" <=> buttons = {})
    BY <1>5 DEF Clean, MiddleState, NextState
  <2>2. QED
    BY <1>5, <1>a, <1>b, <2>1 DEF Rests
<1>6. QED
  BY <1>0, <1>1, <1>2, <1>3, <1>4, <1>5

-----------------------------------------------------------------------------
(***************************************************************************)
(* The steps                                                               *)
(***************************************************************************)

(* NoPhantomButton for one step *)
NoPhantomStep ==
    ~ switched => \A i \in 1 .. Len(shown') :
                     shown'[i] \subseteq WithMiddle(reported \cup reported')

(* The masks that one step dispatches: none, one or two *)
LEMMA SequencesOfMasks ==
    ASSUME NEW x \in SUBSET Button, NEW y \in SUBSET Button
    PROVE  /\ Append(<< >>, y) = <<y>> /\ Append(<<x>>, y) = <<x, y>>
           /\ <<y>> \in Seq(SUBSET Button) /\ <<x, y>> \in Seq(SUBSET Button)
           /\ << >> \in Seq(SUBSET Button)
           /\ UNION ToSet(<<y>>) = y /\ UNION ToSet(<<x, y>>) = x \cup y
           /\ UNION ToSet(<< >>) = {}
<1>1. ToSet(<<y>>) = {y} /\ ToSet(<<x, y>>) = {x, y} /\ ToSet(<< >>) = {}
  BY DEF ToSet
<1>2. UNION {y} = y /\ UNION {x, y} = x \cup y
  OBVIOUS
<1>3. Append(<< >>, y) = <<y>> /\ Append(<<x>>, y) = <<x, y>>
  <2> DEFINE s == <<x>>
             t == Append(s, y)
  <2>1. s \in Seq(SUBSET Button) /\ Len(s) = 1
    OBVIOUS
  <2>2. t \in Seq(SUBSET Button) /\ Len(t) = 2 /\ t[1] = x /\ t[2] = y
    BY <2>1
  <2> HIDE DEF t
  <2>3. t = <<x, y>>
    BY <2>2
  <2>4. Append(<< >>, y) = <<y>>
    OBVIOUS
  <2>5. QED
    BY <2>3, <2>4 DEF t
<1>4. /\ << >> \in Seq(SUBSET Button) /\ <<y>> \in Seq(SUBSET Button)
      /\ <<x, y>> \in Seq(SUBSET Button)
  OBVIOUS
<1>5. UNION ToSet(<< >>) = {}
  BY <1>1
<1>6. QED
  BY <1>1, <1>2, <1>3, <1>4, <1>5

(* They are within a set of buttons if each of them is. *)
LEMMA MasksWithin ==
    ASSUME NEW x, NEW y, NEW known
    PROVE  /\ y \subseteq known => \A i \in 1 .. Len(<<y>>) : <<y>>[i] \subseteq known
           /\ x \subseteq known /\ y \subseteq known =>
                 \A i \in 1 .. Len(<<x, y>>) : <<x, y>>[i] \subseteq known
           /\ \A i \in 1 .. Len(<< >>) : << >>[i] \subseteq known
<1>1. \A i \in 1 .. Len(<<y>>) : <<y>>[i] = y
  OBVIOUS
<1>2. \A i \in 1 .. Len(<<x, y>>) : <<x, y>>[i] = x \/ <<x, y>>[i] = y
  OBVIOUS
<1>3. 1 .. Len(<< >>) = {}
  OBVIOUS
<1>4. QED
  BY <1>1, <1>2, <1>3

(* init *)
LEMMA InitButtons == Init => ButtonsInv
<1>1. SUFFICES ASSUME Init
               PROVE  ButtonsInv
  OBVIOUS
<1>2. mb \in MiddleState /\ mb.pending = {} /\ mb.state = "NOBUTTONS" /\ ~ mb.timer
  BY <1>1 DEF Init, NewMiddle, MiddleState
<1>3. TypeOK
  <2>1. count \in 2 .. 5 /\ shown \in Seq(SUBSET Button)
    BY <1>1, ButtonCountsAssumption DEF Init
  <2>2. QED
    BY <1>1, <1>2, <2>1 DEF Init, TypeOK
<1>4. QED
  BY <1>1, <1>2, <1>3 DEF Init, ButtonsInv, PressIsKept, OwedInv, TimerInv, FollowsPacket

(* A packet that middleButton passes through *)
LEMMA PacketPassed ==
    ASSUME ButtonsInv, NEW buttons \in Masks, NEW late \in BOOLEAN,
           Packet(buttons, late), ~ fake \/ count <= 2
    PROVE  ButtonsInv' /\ NoPhantomStep
<1>1. /\ mb' = mb /\ last' = buttons /\ shown' = <<buttons>>
      /\ buttons \in SUBSET Button
  BY MasksAssumption, SequencesOfMasks DEF Packet, MiddleButton
<1>2. owed = {} /\ (~ switched => mb.state = "NOBUTTONS")
  BY DEF ButtonsInv, TypeOK, PressIsKept, OwedInv, FollowsPacket
<1>3. owed' = {}
  BY <1>1, <1>2, SequencesOfMasks DEF Packet, Remember
<1>4. NoPhantomStep
  <2>1. buttons \subseteq WithMiddle(reported \cup reported')
    BY DEF Packet, WithMiddle
  <2>2. QED
    BY <1>1, <2>1, MasksWithin DEF NoPhantomStep
<1>5. TypeOK'
  <2>1. shown' \in Seq(SUBSET Button)
    BY <1>1, SequencesOfMasks
  <2>2. QED
    BY <1>1, <1>3, <2>1 DEF ButtonsInv, TypeOK, Packet
<1>6. FollowsPacket'
  <2>1. SUFFICES ASSUME ~ switched'
                 PROVE  FollowsPacket'
    BY DEF FollowsPacket
  <2>2. mb.state = "NOBUTTONS" /\ mb.pending = {}
    BY <1>1, <1>2, <2>1 DEF Packet, ButtonsInv, TypeOK, Waiting
  <2>3. last' \subseteq WithMiddle(reported')
    BY <1>1 DEF Packet, WithMiddle
  <2>4. QED
    BY <1>1, <2>2, <2>3 DEF FollowsPacket
<1>7. QED
  BY <1>1, <1>3, <1>4, <1>5, <1>6 DEF ButtonsInv, PressIsKept, OwedInv, TimerInv

(* A packet that middleButton works on *)
LEMMA PacketTracked ==
    ASSUME ButtonsInv, NEW buttons \in Masks, NEW late \in BOOLEAN,
           Packet(buttons, late), fake, count > 2
    PROVE  ButtonsInv' /\ NoPhantomStep
<1> DEFINE n == NextState(mb, buttons, late)
           extra == Extra(mb, buttons, late, FALSE)
           visible == Visible(n.state, buttons)
           presses == IF switched \/ Fourth \in buttons THEN {}
                      ELSE (buttons \ reported) \cap Both
<1>1. buttons \in SUBSET Button
  BY MasksAssumption
<1>2. Clean(mb)
  BY DEF ButtonsInv, TypeOK, TimerInv, Clean
<1>3. /\ Clean(n) /\ n.pending \subseteq buttons
      /\ n.state = "MIDDLE" => Both \subseteq buttons
  BY <1>1, <1>2, NextStateFollows
<1>4. /\ \/ Rests(mb, buttons, n, extra)
         \/ n.state = "MIDDLE" /\ visible = {Middle}
         \/ Waits(mb, buttons, n, extra, late)
      /\ extra = << >> \/ extra = <<buttons \cup mb.pending>>
  BY <1>1, <1>2, Outcome
<1>5. /\ mb' = n /\ last' = visible /\ shown' = Append(extra, visible)
      /\ reported' = buttons
      /\ switched' = (switched /\ n.state # "NOBUTTONS")
      /\ fake' = fake /\ count' = count /\ timed' = timed
  <2>1. ~ (~ fake \/ count <= 2)
    BY DEF ButtonsInv, TypeOK
  <2>2. (late \/ FALSE) = late
    OBVIOUS
  <2> DEFINE result == MiddleButton(buttons, late, FALSE)
  <2>3. result = [mb |-> n, extra |-> extra, buttons |-> visible]
    BY <2>1, <2>2 DEF MiddleButton
  <2>4. /\ mb' = result.mb /\ last' = result.buttons
        /\ shown' = Append(result.extra, result.buttons)
        /\ reported' = buttons
        /\ switched' = (switched /\ mb'.state # "NOBUTTONS")
        /\ fake' = fake /\ count' = count /\ timed' = timed
    BY DEF Packet
  <2> HIDE DEF n, extra, visible, result
  <2>5. result.mb = n /\ result.extra = extra /\ result.buttons = visible
    BY <2>3
  <2>6. QED
    BY <2>4, <2>5
<1>6. owed' = IF n.state = "MIDDLE" THEN {}
              ELSE (owed \cup presses) \ UNION ToSet(shown')
  BY <1>5 DEF Packet, Remember
<1> HIDE DEF n, extra, visible
<1>7. visible \subseteq WithMiddle(buttons) /\ visible \subseteq Button
  BY <1>1, <1>3, <1>4 DEF Rests, Waits, WithMiddle, visible, Button
<1>8. mb.pending \subseteq Button /\ (~ switched => mb.pending \subseteq reported)
  BY DEF ButtonsInv, TypeOK, MiddleState, FollowsPacket
<1>9. \/ shown' = <<visible>> /\ extra = << >>
      \/ /\ shown' = <<buttons \cup mb.pending, visible>>
         /\ extra = <<buttons \cup mb.pending>>
  BY <1>1, <1>4, <1>5, <1>7, <1>8, SequencesOfMasks
<1>s. /\ shown' \in Seq(SUBSET Button)
      /\ UNION ToSet(shown') = IF extra = << >> THEN visible
                               ELSE (buttons \cup mb.pending) \cup visible
  <2> DEFINE both == buttons \cup mb.pending
  <2>1. both \in SUBSET Button /\ visible \in SUBSET Button
    BY <1>1, <1>7, <1>8
  <2>2. \/ shown' = <<visible>> /\ extra = << >>
        \/ shown' = <<both, visible>> /\ extra = <<both>>
    BY <1>9
  <2> HIDE DEF both
  <2>3. <<both>> # << >>
    OBVIOUS
  <2>4. /\ shown' \in Seq(SUBSET Button)
        /\ UNION ToSet(shown') = IF extra = << >> THEN visible ELSE both \cup visible
    <3>1. CASE extra = << >>
      BY <2>1, <2>2, <2>3, <3>1, SequencesOfMasks
    <3>2. CASE extra # << >>
      <4>1. shown' = <<both, visible>>
        BY <2>2, <3>2
      <4>2. QED
        BY <2>1, <3>2, <4>1, SequencesOfMasks
    <3>3. QED
      BY <3>1, <3>2
  <2>5. QED
    BY <2>4 DEF both
<1>10. NoPhantomStep
  <2>1. SUFFICES ASSUME ~ switched
                 PROVE  \A i \in 1 .. Len(shown') :
                           shown'[i] \subseteq WithMiddle(reported \cup reported')
    BY DEF NoPhantomStep
  <2>2. /\ visible \subseteq WithMiddle(reported \cup reported')
        /\ buttons \cup mb.pending \subseteq WithMiddle(reported \cup reported')
    BY <1>5, <1>7, <1>8, <2>1 DEF WithMiddle
  <2>3. QED
    BY <1>9, <2>2, MasksWithin
<1>11. FollowsPacket'
  BY <1>3, <1>5, <1>7 DEF FollowsPacket
<1>12. owed' # {} => /\ ~ switched' /\ owed' = mb'.pending /\ owed' # Both
                     /\ mb'.state = "WAIT4TWO"
  <2>0. /\ owed # {} => /\ ~ switched /\ owed = mb.pending /\ owed # Both
                        /\ mb.state = "WAIT4TWO"
        /\ owed \subseteq Both
    BY DEF ButtonsInv, TypeOK, PressIsKept, OwedInv
  <2>2. presses \subseteq buttons
    OBVIOUS
  <2>3. CASE Rests(mb, buttons, n, extra)
    <3>1. visible = buttons
      BY <2>3 DEF Rests, visible
    <3>2. owed \subseteq UNION ToSet(shown')
      <4>1. CASE owed = {}
        BY <4>1
      <4>2. CASE owed # {} /\ mb.pending \cap buttons # {}
        <5>1. owed = {Left} \/ owed = {Right}
          BY <2>0, <4>2 DEF Both
        <5>2. owed \subseteq visible
          BY <2>0, <3>1, <4>2, <5>1
        <5>3. QED
          BY <1>s, <5>2
      <4>3. CASE owed # {} /\ extra = <<buttons \cup mb.pending>>
        BY <1>s, <2>0, <4>3
      <4>4. QED
        BY <2>0, <2>3, <4>1, <4>2, <4>3 DEF Rests
    <3>3. QED
      BY <1>6, <1>s, <2>2, <3>1, <3>2
  <2>4. CASE n.state = "MIDDLE"
    BY <1>6, <2>4
  <2>5. CASE Waits(mb, buttons, n, extra, late)
    <3>0. owed' \subseteq owed \cup presses /\ n.pending = buttons
      BY <1>6, <2>5 DEF Waits
    <3>1. CASE /\ mb.state = "NOBUTTONS" /\ n.state = "WAIT4TWO"
               /\ Middle \notin buttons /\ buttons # Both
      <4>1. SUFFICES ASSUME owed' # {}
                     PROVE  ~ switched' /\ owed' = buttons
        BY <1>5, <3>0, <3>1
      <4>2. owed = {}
        BY <2>0, <3>1
      <4>3. ~ switched /\ Fourth \notin buttons /\ owed' \subseteq buttons
        BY <3>0, <4>1, <4>2
      <4>4. buttons = {Left} \/ buttons = {Right}
        BY <1>1, <3>1, <4>1, <4>3 DEF Button, Both
      <4>5. QED
        BY <1>5, <4>1, <4>3, <4>4
    <3>2. CASE mb.state = "MIDDLE"
      <4>1. owed = {} /\ (~ switched => Both \subseteq reported)
        BY <2>0, <3>2 DEF ButtonsInv, FollowsPacket
      <4>2. QED
        BY <3>0, <4>1
    <3>3. CASE mb.state \in Waiting /\ n.state = mb.state /\ buttons = mb.pending
      <4>1. presses = {}
        BY <1>8, <3>3
      <4>2. SUFFICES ASSUME owed' # {}
                     PROVE  ~ switched' /\ owed' = owed
        BY <1>5, <2>0, <3>0, <3>3, <4>1
      <4>3. owed # {} /\ owed' \subseteq owed
        BY <3>0, <4>1, <4>2
      <4>4. owed = {Left} \/ owed = {Right}
        BY <2>0, <4>3 DEF Both
      <4>5. QED
        BY <1>5, <2>0, <4>2, <4>3, <4>4
    <3>4. QED
      BY <2>5, <3>1, <3>2, <3>3 DEF Waits
  <2>6. QED
    BY <1>4, <2>3, <2>4, <2>5
<1>13. TypeOK'
  <2>2. owed' \subseteq Both
    BY <1>6 DEF ButtonsInv, TypeOK
  <2>3. /\ n \in MiddleState
        /\ n.pending # {} => n.state \in Waiting
    BY <1>3 DEF Clean
  <2>4. QED
    BY <1>1, <1>5, <1>7, <1>s, <2>2, <2>3 DEF ButtonsInv, TypeOK
<1>14. TimerInv'
  BY <1>3, <1>5 DEF TimerInv, Clean
<1>15. QED
  BY <1>10, <1>11, <1>12, <1>13, <1>14 DEF ButtonsInv, PressIsKept, OwedInv

(* onButtonTimer ends the wait and shows what was pending. *)
LEMMA TimerFires ==
    ASSUME ButtonsInv, OnButtonTimer
    PROVE  ButtonsInv' /\ NoPhantomStep /\ owed' = {}
<1> DEFINE m == [mb EXCEPT !.timer = FALSE]
           result == MiddleButton(last, FALSE, TRUE)
           mask == last \cup mb.pending
<1>1. /\ mb.state \in Waiting /\ mb \in MiddleState
      /\ last \in SUBSET Button /\ mb.pending \in SUBSET Button
  BY DEF OnButtonTimer, ButtonsInv, TypeOK, TimerInv, MiddleState
<1>2. /\ mb' = result.mb /\ shown' = result.extra
      /\ fake' = fake /\ count' = count /\ timed' = timed
      /\ last' = last /\ reported' = reported /\ switched' = switched
  BY DEF OnButtonTimer
<1>3. /\ m \in MiddleState /\ m.state = mb.state /\ m.pending = mb.pending
      /\ m.timer = FALSE
  BY <1>1 DEF MiddleState
<1>4. \/ /\ ~ (fake /\ count > 2)
         /\ mb' = m /\ shown' = << >>
      \/ /\ fake /\ count > 2
         /\ mb' = Settled(last) /\ shown' = <<mask>>
  <2>1. Extra(m, last, TRUE, TRUE) = <<mask>>
    BY <1>1, <1>3 DEF Extra
  <2>2. NextState(m, last, TRUE) = Settled(last)
    BY <1>1, <1>3 DEF NextState, Waiting
  <2>3. (count <= 2 <=> ~ (count > 2)) /\ (FALSE \/ TRUE) = TRUE
    BY DEF ButtonsInv, TypeOK
  <2>4. CASE ~ fake \/ count <= 2
    <3>1. result = [mb |-> m, extra |-> << >>, buttons |-> last]
      BY <2>4 DEF MiddleButton
    <3> HIDE DEF m, result
    <3>2. result.mb = m /\ result.extra = << >>
      BY <3>1
    <3>3. QED
      BY <1>2, <2>3, <2>4, <3>2
  <2>5. CASE ~ (~ fake \/ count <= 2)
    <3>1. /\ result.mb = NextState(m, last, TRUE)
          /\ result.extra = Extra(m, last, TRUE, TRUE)
      BY <2>3, <2>5 DEF MiddleButton
    <3> HIDE DEF m, result, mask
    <3>2. QED
      BY <1>2, <2>1, <2>2, <2>3, <2>5, <3>1
  <2>6. QED
    BY <2>4, <2>5
<1> HIDE DEF m, result
<1>5. Settled(last) \in MiddleState /\ Settled(last).pending = {}
      /\ ~ Settled(last).timer /\ Settled(last).state \in {"NOBUTTONS", "NOOP"}
  BY DEF Settled, Settle, MiddleState
<1>6. owed' = {}
  <2>1. owed # {} => fake /\ count > 2 /\ owed \subseteq mb.pending
    BY <1>1 DEF ButtonsInv, PressIsKept, OwedInv, FollowsPacket, Waiting
  <2>2. owed' \subseteq owed \ UNION ToSet(shown')
    BY DEF OnButtonTimer, Remember
  <2>3. CASE shown' = <<mask>>
    <3>1. UNION ToSet(<<mask>>) = mask
      BY <1>1, SequencesOfMasks
    <3>2. QED
      BY <2>1, <2>2, <2>3, <3>1
  <2>4. QED
    BY <1>4, <2>1, <2>2, <2>3
<1>7. NoPhantomStep
  <2>1. SUFFICES ASSUME ~ switched
                 PROVE  \A i \in 1 .. Len(shown') :
                           shown'[i] \subseteq WithMiddle(reported \cup reported')
    BY DEF NoPhantomStep
  <2>2. mask \subseteq WithMiddle(reported \cup reported')
    BY <1>2, <2>1 DEF ButtonsInv, FollowsPacket, WithMiddle
  <2>3. QED
    BY <1>4, <2>2, MasksWithin
<1>8. TypeOK'
  <2>1. shown' \in Seq(SUBSET Button)
    <3>1. mask \in SUBSET Button
      BY <1>1
    <3> HIDE DEF mask
    <3>2. << >> \in Seq(SUBSET Button) /\ <<mask>> \in Seq(SUBSET Button)
      BY <3>1
    <3>3. shown' = << >> \/ shown' = <<mask>>
      BY <1>4
    <3>4. QED
      BY <3>2, <3>3
  <2>2. mb' \in MiddleState /\ (mb'.pending # {} => mb'.state \in Waiting)
    BY <1>1, <1>3, <1>4, <1>5
  <2>3. QED
    BY <1>2, <1>6, <2>1, <2>2 DEF ButtonsInv, TypeOK
<1>9. FollowsPacket' /\ TimerInv'
  BY <1>1, <1>2, <1>3, <1>4, <1>5
     DEF ButtonsInv, FollowsPacket, TimerInv, Waiting
<1>10. QED
  BY <1>6, <1>7, <1>8, <1>9 DEF ButtonsInv, PressIsKept, OwedInv

(* A change of the setting and a reset dispatch nothing. *)
LEMMA SettingChanges ==
    ASSUME ButtonsInv,
           (\E on \in BOOLEAN : SetFakeMiddleButton(on))
               \/ (\E type \in {0, 3, 4} : ResetMouse(type))
    PROVE  ButtonsInv' /\ NoPhantomStep
<1> DEFINE Quiet == /\ mb' = mb /\ last' = last /\ reported' = reported
                    /\ shown' = << >> /\ owed' = {}
                    /\ switched' = (switched \/ mb.state # "NOBUTTONS")
                    /\ fake' \in BOOLEAN /\ timed' \in BOOLEAN /\ count' \in 2 .. 5
<1>1. Quiet
  <2>0. count \in 2 .. 5 /\ fake \in BOOLEAN /\ timed \in BOOLEAN
    BY DEF ButtonsInv, TypeOK
  <2>1. CASE \E on \in BOOLEAN : SetFakeMiddleButton(on)
    BY <2>0, <2>1 DEF SetFakeMiddleButton
  <2>2. ASSUME NEW type \in {0, 3, 4}, ResetMouse(type)
        PROVE  Quiet
    <3>1. count' \in 2 .. 5
      <4>1. CASE type = 0
        BY <2>0, <2>2, <4>1 DEF ResetMouse
      <4>2. CASE type = 3
        BY <2>2, <4>2 DEF ResetMouse
      <4>3. CASE type = 4
        BY <2>2, <4>3 DEF ResetMouse
      <4>4. QED
        BY <4>1, <4>2, <4>3
    <3>2. QED
      BY <2>0, <2>2, <3>1 DEF ResetMouse
  <2>3. QED
    BY <2>1, <2>2
<1>2. TypeOK'
  <2>1. << >> \in Seq(SUBSET Button)
    OBVIOUS
  <2>2. QED
    BY <1>1, <2>1 DEF ButtonsInv, TypeOK
<1>3. FollowsPacket'
  BY <1>1 DEF ButtonsInv, FollowsPacket
<1>4. NoPhantomStep
  BY <1>1, MasksWithin DEF NoPhantomStep
<1>5. QED
  BY <1>1, <1>2, <1>3, <1>4 DEF ButtonsInv, PressIsKept, OwedInv, TimerInv

(* Every step preserves the invariant and dispatches no phantom button. *)
LEMMA NextButtons == ButtonsInv /\ Next => ButtonsInv' /\ NoPhantomStep
<1>1. SUFFICES ASSUME ButtonsInv, Next
               PROVE  ButtonsInv' /\ NoPhantomStep
  OBVIOUS
<1>2. CASE \E buttons \in Masks, late \in BOOLEAN : Packet(buttons, late)
  <2>1. count \in Nat
    BY <1>1 DEF ButtonsInv, TypeOK
  <2>2. QED
    BY <1>1, <1>2, <2>1, PacketPassed, PacketTracked
<1>3. CASE OnButtonTimer
  BY <1>1, <1>3, TimerFires
<1>4. CASE \/ \E on \in BOOLEAN : SetFakeMiddleButton(on)
           \/ \E type \in {0, 3, 4} : ResetMouse(type)
  BY <1>1, <1>4, SettingChanges
<1>5. QED
  BY <1>1, <1>2, <1>3, <1>4 DEF Next

-----------------------------------------------------------------------------
(***************************************************************************)
(* Theorems about the buttons                                              *)
(***************************************************************************)

(* The inductive invariant holds in every state of the mouse driver's      *)
(* buttons (middleButton, onButtonTimer).                                  *)
THEOREM ButtonsInvariant == Spec => []ButtonsInv
<1>1. ButtonsInv /\ [Next]_vars => ButtonsInv'
  <2>1. ButtonsInv /\ UNCHANGED vars => ButtonsInv'
    BY DEF vars, ButtonsInv, TypeOK, PressIsKept, OwedInv, TimerInv, FollowsPacket
  <2>2. QED
    BY <2>1, NextButtons
<1>2. QED
  BY <1>1, InitButtons, PTL DEF Spec

(* No press of left or right is forgotten: it was shown or it is pending   *)
(* (middleButton).                                                         *)
THEOREM ButtonsPressIsKept == Spec => []PressIsKept
BY ButtonsInvariant, PTL DEF ButtonsInv

(* No button is dispatched that neither of two successive packets shows    *)
(* (middleButton, onButtonTimer).                                          *)
THEOREM ButtonsNoPhantomButton == Spec => NoPhantomButton
<1>1. ButtonsInv /\ Next => NoPhantomStep
  BY NextButtons
<1>2. NoPhantomStep =>
        (~ switched => \A i \in 1 .. Len(shown') :
            LET known == reported \cup reported'
            IN  shown'[i] \subseteq
                    known \cup (IF Both \subseteq known THEN {Middle} ELSE {}))
  BY DEF NoPhantomStep, WithMiddle
<1>3. QED
  BY <1>1, <1>2, ButtonsInvariant, PTL DEF Spec, NoPhantomButton

(***************************************************************************)
(* The safety that PressIsShown needs from the code; what is left is that  *)
(* timers fire.                                                            *)
(***************************************************************************)

(* A button that is held back has its timer running, unless                *)
(* FakeMiddleButton was changed or the mouse reset meanwhile: whichever    *)
(* state middleButton goes through, no wait is left without its end.       *)
HeldButtonHasTimer == ~ switched /\ mb.state \in Waiting => mb.timer

(* A press that was not shown has a timer, and that timer shows it. *)
TimerShowsPress ==
    /\ [](owed # {} => mb.timer)
    /\ [][OnButtonTimer => owed' = {}]_vars

(* What middleButton keeps when it waits is new and timed, or as before. *)
LEMMA WaitIsTimed ==
    ASSUME NEW m, Clean(m), NEW buttons \in SUBSET Button, NEW expired \in BOOLEAN,
           NextState(m, buttons, expired).state \in Waiting
    PROVE  LET n == NextState(m, buttons, expired)
           IN  n.timer \/ n = m
<1> DEFINE n == NextState(m, buttons, expired)
<1>1. m.state \in {"NOBUTTONS", "WAIT4TWO", "MIDDLE", "WAIT4NONE", "NOOP"} /\ m \in MiddleState
  BY DEF Clean, MiddleState
<1>2. Settled(buttons).state \notin Waiting /\ Settle("MIDDLE").state \notin Waiting
  BY DEF Settled, Settle, Waiting
<1>3. \A st : Wait(st, buttons).timer
  BY DEF Wait
<1>4. \A st \in {"NOOP", "MIDDLE", "NOBUTTONS"} : [m EXCEPT !.state = st].state \notin Waiting
  BY <1>1 DEF MiddleState, Waiting
<1>5. CASE m.state = "NOBUTTONS"
  BY <1>3, <1>4, <1>5 DEF NextState
<1>6. CASE m.state = "WAIT4TWO"
  BY <1>2, <1>6 DEF NextState
<1>7. CASE m.state = "MIDDLE"
  BY <1>3, <1>4, <1>7 DEF NextState
<1>8. CASE m.state = "WAIT4NONE"
  BY <1>2, <1>8 DEF NextState
<1>9. CASE m.state = "NOOP"
  BY <1>4, <1>9 DEF NextState
<1> QED BY <1>1, <1>5, <1>6, <1>7, <1>8, <1>9

(* Every step keeps the timer of a button that stays held back. *)
LEMMA HeldButtonNext ==
    ASSUME ButtonsInv, HeldButtonHasTimer, [Next]_vars
    PROVE  HeldButtonHasTimer'
<1>0. count \in Nat
  BY DEF ButtonsInv, TypeOK
<1>1. CASE \E buttons \in Masks, late \in BOOLEAN : Packet(buttons, late)
  <2>1. PICK buttons \in Masks, late \in BOOLEAN : Packet(buttons, late)
    BY <1>1
  <2>2. switched' = (switched /\ mb'.state # "NOBUTTONS")
    BY <2>1 DEF Packet
  <2>3. CASE ~ fake \/ count <= 2
    <3>1. mb' = mb
      BY <2>1, <2>3 DEF Packet, MiddleButton
    <3> QED BY <2>2, <3>1 DEF HeldButtonHasTimer, Waiting
  <2>4. CASE ~ (~ fake \/ count <= 2)
    <3>1. buttons \in SUBSET Button /\ Clean(mb)
      BY MasksAssumption DEF ButtonsInv, TypeOK, TimerInv, Clean
    <3> DEFINE n == NextState(mb, buttons, late)
    <3>2. mb' = n
      <4> DEFINE result == MiddleButton(buttons, late, FALSE)
      <4>1. (late \/ FALSE) = late
        OBVIOUS
      <4>2. result.mb = n
        BY <2>4, <4>1 DEF MiddleButton
      <4>3. mb' = result.mb
        BY <2>1 DEF Packet
      <4> HIDE DEF n, result
      <4> QED BY <4>2, <4>3
    <3>3. n.state \in Waiting => n.timer \/ n = mb
      BY <3>1, WaitIsTimed
    <3> HIDE DEF n
    <3> QED BY <2>2, <3>2, <3>3 DEF HeldButtonHasTimer, Waiting
  <2> QED BY <2>3, <2>4
<1>2. CASE OnButtonTimer
  <2>1. switched' = switched /\ mb.state \in Waiting /\ mb \in MiddleState
    BY <1>2 DEF OnButtonTimer, ButtonsInv, TypeOK, TimerInv
  <2>2. SUFFICES ASSUME ~ switched PROVE mb'.state \notin Waiting
    BY <2>1 DEF HeldButtonHasTimer
  <2>3. ~ (~ fake \/ count <= 2)
    BY <1>0, <2>1, <2>2 DEF ButtonsInv, FollowsPacket, Waiting
  <2> DEFINE m == [mb EXCEPT !.timer = FALSE]
  <2>4. m.state = mb.state
    BY <2>1 DEF MiddleState
  <2>5. mb' = NextState(m, last, TRUE)
    <3>1. (FALSE \/ TRUE) = TRUE
      OBVIOUS
    <3> QED BY <1>2, <2>3, <3>1 DEF OnButtonTimer, MiddleButton
  <2> HIDE DEF m
  <2>6. NextState(m, last, TRUE) = Settled(last)
    BY <2>1, <2>4 DEF NextState, Waiting
  <2>7. Settled(last).state \in {"NOBUTTONS", "NOOP"}
    BY DEF Settled, Settle
  <2> QED BY <2>5, <2>6, <2>7 DEF Waiting
<1>3. CASE \/ \E on \in BOOLEAN : SetFakeMiddleButton(on)
           \/ \E type \in {0, 3, 4} : ResetMouse(type)
  <2>1. mb' = mb /\ switched' = (switched \/ mb.state # "NOBUTTONS")
    BY <1>3 DEF SetFakeMiddleButton, ResetMouse
  <2> QED BY <2>1 DEF HeldButtonHasTimer, Waiting
<1>4. CASE UNCHANGED vars
  BY <1>4 DEF vars, HeldButtonHasTimer
<1> QED BY <1>1, <1>2, <1>3, <1>4 DEF Next

(* No wait for a second button goes without a timer (middleButton). *)
THEOREM ButtonsHeldHaveTimer == Spec => []HeldButtonHasTimer
<1>1. Init => HeldButtonHasTimer
  BY DEF Init, NewMiddle, HeldButtonHasTimer, Waiting
<1> QED BY <1>1, HeldButtonNext, ButtonsInvariant, PTL DEF Spec

(* A press that was held back is due to be shown by a timer that is set,   *)
(* and is shown when it fires (onButtonTimer).                             *)
THEOREM ButtonsTimerShowsPress == Spec => TimerShowsPress
<1>1. ButtonsInv /\ HeldButtonHasTimer => (owed # {} => mb.timer)
  BY DEF ButtonsInv, PressIsKept, OwedInv, HeldButtonHasTimer, Waiting
<1>2. ButtonsInv /\ OnButtonTimer => owed' = {}
  BY TimerFires
<1> QED BY <1>1, <1>2, ButtonsInvariant, ButtonsHeldHaveTimer, PTL DEF Spec, TimerShowsPress

-----------------------------------------------------------------------------
(***************************************************************************)
(* The byte stream of the mouse: the inductive invariant                   *)
(***************************************************************************)

(* The driver takes no report of the mouse for longer than it is, and for  *)
(* as long as it is unless getMouseID went unanswered.                     *)
LengthsInv ==
    dev.on => /\ Stream!PacketLength(setup.type) <= Stream!ReportLength(dev)
              /\ ~ setup.missed =>
                    Stream!PacketLength(setup.type) = Stream!ReportLength(dev)

(* Both are inside a report; a mouse that is off is at its beginning. *)
PlacesInv ==
    /\ stream.count < Stream!PacketLength(setup.type)
    /\ dev.on => sent < Stream!ReportLength(dev)
    /\ ~ dev.on => sent = 0 /\ ~ still

(* What comes before the next report finds the driver waiting for a first  *)
(* byte, or comes from a mouse that is off.                                *)
ComingInv ==
    /\ coming = "acknowledge" => dev.on /\ sent = 0 /\ stream.count = 0 /\ ~ still
    /\ coming = "zero" => ~ dev.on

AlignedInv ==
    dev.on /\ ~ setup.missed /\ aligned =>
        stream.count = sent /\ (sent > 0 => stream.first = meant)

(* In a report without movement the driver either waits for a first byte   *)
(* already, or needs no more bytes than are still to come.                 *)
SettlingInv ==
    still => /\ sent = 0 => stream.count = 0
             /\ sent > 0 => /\ ~ stream.lastReset
                            /\ \/ stream.count = 0
                               \/ stream.count + (Stream!ReportLength(dev) - sent)
                                     >= Stream!PacketLength(setup.type)

StreamInv == Stream!TypeOK /\ LengthsInv /\ PlacesInv /\ ComingInv /\ AlignedInv /\ SettlingInv

(* The first byte of a report is one that interruptOccurred takes for a    *)
(* first byte.                                                             *)
LEMMA FirstBytes ==
    ASSUME NEW byte \in Stream!ReportBytes(0)
    PROVE  /\ byte \in 8 .. 15
           /\ ~ Stream!NoFirstByte(byte)
<1>1. PICK buttons \in Pressed : byte = Stream!Value(buttons)
  BY DEF Stream!ReportBytes
<1>2. byte \in 8 .. 15
  BY <1>1 DEF Stream!Value
<1>3. 2^3 = 8
  OBVIOUS
<1>4. (byte \div 8) % 2 = 1
  BY <1>2
<1> QED BY <1>2, <1>3, <1>4 DEF Stream!NoFirstByte, Stream!Bit, Stream!Acknowledge

(* It takes neither 0 nor an acknowledge for one. *)
LEMMA RefusedBytes == Stream!NoFirstByte(0) /\ Stream!NoFirstByte(Stream!Acknowledge)
<1>1. 2^3 = 8
  OBVIOUS
<1>2. (0 \div 8) % 2 = 0
  OBVIOUS
<1> QED BY <1>1, <1>2 DEF Stream!NoFirstByte, Stream!Bit

(* advanceHead keeps the ring below its size. *)
LEMMA QueueKeepsSize ==
    ASSUME Stream!Assumptions, Stream!TypeOK,
           NEW p \in [reset : BOOLEAN, buttons : SUBSET Stream!Button],
           Stream!Queue(<<p>>)
    PROVE  /\ ring' \in Seq([reset : BOOLEAN, buttons : SUBSET Stream!Button])
           /\ Len(ring') < Slots
<1> DEFINE P == [reset : BOOLEAN, buttons : SUBSET Stream!Button]
           size == Len(ring)
<1>1. ring \in Seq(P) /\ size < Slots /\ Slots \in Nat
  BY DEF Stream!TypeOK, Stream!Assumptions
<1>2. size \in Nat
  BY <1>1, LenProperties, Zenon
<1>3. <<p>> \in Seq(P) /\ Len(<<p>>) = 1
  BY DEF Stream!Button
<1>4. /\ ring \o <<p>> \in Seq(P)
      /\ Len(ring \o <<p>>) = size + Len(<<p>>)
  BY <1>1, <1>3, ConcatProperties, Zenon
<1>5. ring' = IF size < Slots - 1 THEN ring \o <<p>> ELSE ring
  BY DEF Stream!Queue
<1> HIDE DEF size, P
<1>6. CASE size < Slots - 1
  <2>1. ring' = ring \o <<p>>
    BY <1>5, <1>6, Zenon
  <2>2. Len(ring') = size + 1
    BY <2>1, <1>3, <1>4, Zenon
  <2> QED BY <1>1, <1>2, <1>4, <1>6, <2>1, <2>2 DEF P
<1>7. CASE ~ (size < Slots - 1)
  BY <1>1, <1>5, <1>7 DEF size, P
<1> QED BY <1>6, <1>7

(* The fields of what interruptOccurred keeps, changed one at a time *)
Fields(q, reset, n, first, resets) ==
    /\ q \in Stream!Stream
    /\ (q.lastReset <=> reset) /\ q.count = n /\ q.first = first /\ q.resets = resets

(* lastReset is changed, and nothing else. *)
LEMMA SetReset ==
    ASSUME NEW r \in Stream!Stream, NEW reset \in BOOLEAN
    PROVE  Fields([r EXCEPT !.lastReset = reset], reset, r.count, r.first, r.resets)
BY DEF Stream!Stream, Fields

(* count is changed, and nothing else. *)
LEMMA SetCount ==
    ASSUME NEW r \in Stream!Stream, NEW n \in 0 .. 3
    PROVE  Fields([r EXCEPT !.count = n], r.lastReset, n, r.first, r.resets)
BY DEF Stream!Stream, Fields

(* The first byte is changed, and nothing else. *)
LEMMA SetFirst ==
    ASSUME NEW r \in Stream!Stream, NEW first \in SUBSET Stream!Button
    PROVE  Fields([r EXCEPT !.first = first], r.lastReset, r.count, first, r.resets)
BY DEF Stream!Stream, Fields

(* The number of resets is changed, and nothing else. *)
LEMMA SetResets ==
    ASSUME NEW r \in Stream!Stream, NEW resets \in 0 .. ResetLimit
    PROVE  Fields([r EXCEPT !.resets = resets], r.lastReset, r.count, r.first, resets)
BY DEF Stream!Stream, Fields

(* What interruptOccurred makes of a byte *)
Taken(byte) ==
    /\ stream' \in Stream!Stream
    /\ ring' \in Seq([reset : BOOLEAN, buttons : SUBSET Stream!Button])
    /\ Len(ring') < Slots
    /\ stream'.count < Stream!PacketLength(setup.type)
    /\ stream'.lastReset => Stream!ResetSeen(byte) \/ byte = Stream!Reset
    /\ Stream!ResetSeen(byte) => stream'.count = 0
    /\ stream.count = 0 /\ Stream!NoFirstByte(byte) => stream'.count = 0
    /\ ~ Stream!ResetSeen(byte) /\ ~ (stream.count = 0 /\ Stream!NoFirstByte(byte)) =>
          IF stream.count + 1 = Stream!PacketLength(setup.type) THEN stream'.count = 0
          ELSE /\ stream'.count = stream.count + 1
               /\ stream'.first = IF stream.count = 0 THEN Stream!Low(byte) ELSE stream.first

(* A byte is refused at the beginning of a packet, announces a reset, or   *)
(* is counted (interruptOccurred).                                         *)
LEMMA InterruptTakes ==
    ASSUME Stream!Assumptions, Stream!TypeOK, PlacesInv, NEW byte,
           Stream!InterruptOccurred(byte)
    PROVE  Taken(byte)
<1> DEFINE reset == byte = Stream!Reset
           s == [stream EXCEPT !.lastReset = reset]
           length == Stream!PacketLength(setup.type)
           low == Stream!Low(byte)
           P == [reset : BOOLEAN, buttons : SUBSET Stream!Button]
           Ring == ring' \in Seq(P) /\ Len(ring') < Slots
<1>1. /\ stream \in Stream!Stream
      /\ ResetLimit \in Nat /\ length \in {3, 4} /\ stream.count < length
      /\ low \in SUBSET Stream!Button
  BY DEF Stream!TypeOK, PlacesInv, Stream!PacketLength, Stream!Assumptions, Stream!Low
<1>2. ring \in Seq(P) /\ Len(ring) < Slots
  BY DEF Stream!TypeOK
<1>3. Stream!ResetPacket \in P
  BY DEF Stream!ResetPacket
<1>4. Fields(s, reset, stream.count, stream.first, stream.resets)
  BY <1>1, SetReset
<1>5. /\ stream.count \in 0 .. 3 /\ stream.first \in SUBSET Stream!Button
      /\ stream.resets \in 0 .. ResetLimit
  BY <1>1 DEF Stream!Stream
<1>6. CASE Stream!ResetSeen(byte) /\ stream' = [stream EXCEPT !.count = 0, !.first = {}]
           /\ Stream!Queue(<<Stream!ResetPacket>>)
  <2>1. Ring
    BY <1>3, <1>6, QueueKeepsSize
  <2> DEFINE q == [stream EXCEPT !.count = 0]
  <2>2. Fields(q, stream.lastReset, 0, stream.first, stream.resets)
    <3>1. 0 \in 0 .. 3
      OBVIOUS
    <3> QED BY <1>1, <3>1, SetCount, Zenon
  <2>3. stream' = [q EXCEPT !.first = {}]
    BY <1>6
  <2> HIDE DEF P, s, length, low, reset, q
  <2>4. Fields(stream', q.lastReset, q.count, {}, q.resets)
    BY <2>2, <2>3, SetFirst DEF Fields
  <2>5. stream' \in Stream!Stream /\ stream'.count = 0
    BY <2>2, <2>4 DEF Fields
  <2> QED BY <1>1, <1>6, <2>1, <2>5 DEF Taken, P, length
<1>7. CASE /\ ~ Stream!ResetSeen(byte) /\ s.count = 0 /\ Stream!NoFirstByte(byte)
           /\ IF s.resets < ResetLimit
              THEN stream' = [s EXCEPT !.resets = @ + 1] /\ Stream!Queue(<<Stream!ResetPacket>>)
              ELSE stream' = s /\ UNCHANGED ring
  <2>1. Ring
    BY <1>2, <1>3, <1>7, QueueKeepsSize
  <2>2. stream' = s \/ (s.resets < ResetLimit /\ stream' = [s EXCEPT !.resets = s.resets + 1])
    BY <1>7
  <2> HIDE DEF P, s, length, low, reset
  <2>3. stream' \in Stream!Stream /\ stream'.count = 0 /\ (stream'.lastReset <=> reset)
    <3>1. s \in Stream!Stream /\ s.resets \in 0 .. ResetLimit
      BY <1>4, <1>5 DEF Fields
    <3>2. CASE stream' = s
      BY <1>4, <1>7, <3>2 DEF Fields
    <3>3. CASE s.resets < ResetLimit /\ stream' = [s EXCEPT !.resets = s.resets + 1]
      <4>1. s.resets + 1 \in 0 .. ResetLimit
        BY <1>1, <3>1, <3>3
      <4>2. Fields(stream', s.lastReset, s.count, s.first, s.resets + 1)
        BY <3>1, <3>3, <4>1, SetResets
      <4> QED BY <1>4, <1>7, <4>2 DEF Fields
    <3> QED BY <2>2, <3>2, <3>3
  <2> QED BY <1>1, <1>4, <1>7, <2>1, <2>3 DEF Taken, P, length, reset, Fields
<1>8. CASE /\ ~ Stream!ResetSeen(byte) /\ ~ (s.count = 0 /\ Stream!NoFirstByte(byte))
           /\ ~ (s.count + 1 = length)
           /\ stream' = [s EXCEPT !.count = s.count + 1,
                                  !.first = IF s.count = 0 THEN low ELSE s.first]
           /\ UNCHANGED ring
  <2>1. Ring
    BY <1>2, <1>8
  <2> DEFINE q == [s EXCEPT !.count = s.count + 1]
             first == IF s.count = 0 THEN low ELSE s.first
  <2>2. stream' = [q EXCEPT !.first = first]
    BY <1>8
  <2> HIDE DEF P, s, length, low, reset
  <2>3. s.count + 1 \in 0 .. 3 /\ s.count + 1 < length /\ first \in SUBSET Stream!Button
    BY <1>1, <1>4, <1>5, <1>8 DEF Fields
  <2>4. Fields(q, s.lastReset, s.count + 1, s.first, s.resets)
    BY <1>4, <2>3, SetCount DEF Fields
  <2> HIDE DEF q, first
  <2>5. Fields(stream', q.lastReset, q.count, first, q.resets)
    BY <2>2, <2>3, <2>4, SetFirst DEF Fields
  <2>6. /\ stream' \in Stream!Stream /\ stream'.count = stream.count + 1
        /\ (stream'.lastReset <=> reset)
        /\ stream'.first = IF stream.count = 0 THEN low ELSE stream.first
        /\ stream'.count < length
    BY <1>4, <2>3, <2>4, <2>5 DEF Fields, first
  <2> QED BY <1>1, <1>4, <1>8, <2>1, <2>6 DEF Taken, P, length, reset, low, Fields
<1>9. CASE /\ ~ Stream!ResetSeen(byte) /\ ~ (s.count = 0 /\ Stream!NoFirstByte(byte))
           /\ s.count + 1 = length
           /\ stream' = [s EXCEPT !.count = 0, !.first = {}, !.resets = 0]
           /\ Stream!Queue(<<[reset |-> FALSE, buttons |-> s.first]>>)
  <2>1. [reset |-> FALSE, buttons |-> s.first] \in P
    BY <1>4, <1>5 DEF Fields
  <2>2. Ring
    BY <2>1, <1>9, QueueKeepsSize
  <2> DEFINE q == [s EXCEPT !.count = 0]
             q2 == [q EXCEPT !.first = {}]
  <2>3. stream' = [q2 EXCEPT !.resets = 0]
    BY <1>9
  <2> HIDE DEF P, s, length, low, reset
  <2>4. Fields(q, s.lastReset, 0, s.first, s.resets)
    <3>1. 0 \in 0 .. 3
      OBVIOUS
    <3>2. s \in Stream!Stream
      BY <1>4 DEF Fields
    <3> QED BY <3>1, <3>2, SetCount, Zenon
  <2> HIDE DEF q
  <2>5. Fields(q2, q.lastReset, q.count, {}, q.resets)
    BY <2>4, SetFirst DEF Fields
  <2> HIDE DEF q2
  <2>6. Fields(stream', q2.lastReset, q2.count, q2.first, 0)
    BY <1>1, <2>3, <2>5, SetResets DEF Fields
  <2>7. /\ stream' \in Stream!Stream /\ stream'.count = 0 /\ (stream'.lastReset <=> reset)
    BY <1>4, <2>4, <2>5, <2>6 DEF Fields
  <2> QED BY <1>1, <1>4, <1>9, <2>2, <2>7 DEF Taken, P, length, reset, Fields
<1> QED BY <1>6, <1>7, <1>8, <1>9 DEF Stream!InterruptOccurred

(* The mouse, changed one field at a time *)
MouseIs(d, kind, on, id, rate, res) ==
    /\ d \in Stream!Device
    /\ d.kind = kind /\ (d.on <=> on) /\ d.id = id /\ d.rate = rate /\ d.res = res

(* The mouse is switched on or off. *)
LEMMA SetOn ==
    ASSUME NEW d \in Stream!Device, NEW on \in BOOLEAN
    PROVE  MouseIs([d EXCEPT !.on = on], d.kind, on, d.id, d.rate, d.res)
BY DEF Stream!Device, MouseIs

(* Its mode is changed. *)
LEMMA SetId ==
    ASSUME NEW d \in Stream!Device, NEW id \in {0, 3, 4}
    PROVE  MouseIs([d EXCEPT !.id = id], d.kind, d.on, id, d.rate, d.res)
BY DEF Stream!Device, MouseIs

(* Its sample rate is changed. *)
LEMMA SetRate ==
    ASSUME NEW d \in Stream!Device, NEW rate \in {80, 100}
    PROVE  MouseIs([d EXCEPT !.rate = rate], d.kind, d.on, d.id, rate, d.res)
BY DEF Stream!Device, MouseIs

(* Its resolution is changed. *)
LEMMA SetRes ==
    ASSUME NEW d \in Stream!Device, NEW res \in 0 .. 3
    PROVE  MouseIs([d EXCEPT !.res = res], d.kind, d.on, d.id, d.rate, res)
BY DEF Stream!Device, MouseIs

(* kDP_SetDefaults switches the mouse off and makes it a plain one. *)
LEMMA DefaultsApply ==
    ASSUME NEW d \in Stream!Device
    PROVE  MouseIs(Stream!Defaults(d), d.kind, FALSE, 0, 100, 2)
<1> DEFINE a == [d EXCEPT !.on = FALSE]
           b == [a EXCEPT !.id = 0]
           c == [b EXCEPT !.rate = 100]
           e == [c EXCEPT !.res = 2]
<1>1. Stream!Defaults(d) = e
  BY DEF Stream!Defaults
<1>2. MouseIs(a, d.kind, FALSE, d.id, d.rate, d.res)
  BY SetOn, Zenon
<1> HIDE DEF a
<1>3. MouseIs(b, a.kind, a.on, 0, a.rate, a.res)
  BY <1>2, SetId DEF MouseIs
<1> HIDE DEF b
<1>4. MouseIs(c, b.kind, b.on, b.id, 100, b.res)
  BY <1>3, SetRate DEF MouseIs
<1> HIDE DEF c
<1>5. 2 \in 0 .. 3
  OBVIOUS
<1>6. c \in Stream!Device
  BY <1>4 DEF MouseIs
<1>7. MouseIs(e, c.kind, c.on, c.id, c.rate, 2)
  BY <1>5, <1>6, SetRes, Zenon
<1> HIDE DEF e
<1> QED BY <1>1, <1>2, <1>3, <1>4, <1>7 DEF MouseIs

(* The mode in which the knocks leave a mouse *)
Mode(kind) == CASE kind = "standard" -> 0
                [] kind = "early" -> 4
                [] kind \in {"wheel", "explorer"} -> 3

(* The first knock, three sample rates in a row (setIntellimouseMode). *)
LEMMA KnockApplies ==
    ASSUME NEW d \in Stream!Device
    PROVE  MouseIs(Stream!Knock(d), d.kind, d.on, Mode(d.kind), 80, d.res)
<1> DEFINE a == [d EXCEPT !.rate = 80]
           id == Mode(d.kind)
<1>0. d.kind \in Stream!Kind
  BY DEF Stream!Device
<1>1. Stream!Knock(d) = [a EXCEPT !.id = id]
  BY DEF Stream!Knock, Mode
<1>2. id \in {0, 3, 4}
  BY <1>0 DEF Stream!Kind, Mode
<1>3. MouseIs(a, d.kind, d.on, d.id, 80, d.res)
  BY SetRate
<1> HIDE DEF a, id
<1>4. MouseIs([a EXCEPT !.id = id], a.kind, a.on, id, a.rate, a.res)
  BY <1>2, <1>3, SetId DEF MouseIs
<1> QED BY <1>1, <1>3, <1>4 DEF MouseIs, id

(* The second knock, for a mouse with five buttons. *)
LEMMA KnockAgainApplies ==
    ASSUME NEW d \in Stream!Device
    PROVE  MouseIs(Stream!KnockAgain(d), d.kind, d.on,
                   IF d.kind = "explorer" THEN 4 ELSE d.id, 80, d.res)
<1> DEFINE a == [d EXCEPT !.rate = 80]
           id == IF d.kind = "explorer" THEN 4 ELSE a.id
<1>1. Stream!KnockAgain(d) = [a EXCEPT !.id = id]
  BY DEF Stream!KnockAgain, Stream!Device
<1>3. MouseIs(a, d.kind, d.on, d.id, 80, d.res)
  BY SetRate
<1>2. id \in {0, 3, 4}
  BY DEF Stream!Device
<1>4. id = IF d.kind = "explorer" THEN 4 ELSE d.id
  BY <1>3 DEF MouseIs
<1> HIDE DEF a, id
<1>5. MouseIs([a EXCEPT !.id = id], a.kind, a.on, id, a.rate, a.res)
  BY <1>2, <1>3, SetId DEF MouseIs
<1> QED BY <1>1, <1>3, <1>4, <1>5 DEF MouseIs

(* What setIntellimouseMode learns is never longer than what the mouse     *)
(* sends, and is exactly that if getMouseID was answered.                  *)
LEMMA ModeIsLearnt ==
    ASSUME NEW d \in Stream!Device, NEW silent
    PROVE  LET mode == Stream!SetIntellimouseMode(d, silent)
           IN  /\ mode.dev \in Stream!Device /\ mode.type \in {0, 3, 4}
               /\ Stream!PacketLength(mode.type) <= Stream!ReportLength(mode.dev)
               /\ "id" \notin silent =>
                     Stream!PacketLength(mode.type) = Stream!ReportLength(mode.dev)
<1> DEFINE first == Stream!Knock(d)
           type == IF "id" \in silent THEN 0 ELSE first.id
           again == Stream!KnockAgain(first)
           second == IF type = 3 THEN again ELSE first
           learnt == IF type = 3 /\ "id again" \notin silent THEN second.id ELSE type
           mode == Stream!SetIntellimouseMode(d, silent)
<1>1. mode = [dev |-> second, type |-> learnt]
  BY DEF Stream!SetIntellimouseMode
<1>2. MouseIs(first, d.kind, d.on, Mode(d.kind), 80, d.res) /\ d.kind \in Stream!Kind
  BY KnockApplies DEF Stream!Device
<1>3. MouseIs(again, first.kind, first.on,
              IF first.kind = "explorer" THEN 4 ELSE first.id, 80, first.res)
  BY <1>2, KnockAgainApplies DEF MouseIs
<1> HIDE DEF first, again, mode
<1>4. /\ first.kind \in Stream!Kind /\ first.id = Mode(first.kind)
      /\ first.id \in {0, 3, 4} /\ first \in Stream!Device
      /\ again.id = (IF first.kind = "explorer" THEN 4 ELSE first.id)
      /\ again \in Stream!Device
  BY <1>2, <1>3 DEF MouseIs, Stream!Kind, Mode
<1>5. second \in Stream!Device /\ learnt \in {0, 3, 4}
  BY <1>4
<1>6. mode.dev = second /\ mode.type = learnt
  BY <1>1
<1>7. second.id = IF type = 3 THEN again.id ELSE first.id
  OBVIOUS
<1> HIDE DEF second
<1>8. /\ Stream!PacketLength(learnt) <= Stream!ReportLength(second)
      /\ "id" \notin silent => Stream!PacketLength(learnt) = Stream!ReportLength(second)
  <2>1. CASE type = 3
    <3>1. first.id = 3
      BY <2>1
    <3>2. second.id \in {3, 4}
      BY <1>4, <1>7, <2>1, <3>1
    <3>3. learnt \in {3, 4}
      BY <2>1, <3>2
    <3> HIDE DEF learnt, type
    <3> QED BY <3>2, <3>3 DEF Stream!PacketLength, Stream!ReportLength
  <2>2. CASE type # 3
    BY <1>4, <1>7, <2>2 DEF Stream!PacketLength, Stream!ReportLength
  <2> QED BY <2>1, <2>2
<1> HIDE DEF learnt
<1> QED BY <1>5, <1>6, <1>8 DEF mode

(* The invariant holds before the driver starts. *)
LEMMA StreamStarts == ASSUME Stream!Assumptions PROVE Stream!Init => StreamInv
<1> SUFFICES ASSUME Stream!Init PROVE StreamInv
  OBVIOUS
<1> USE DEF Stream!Init, Stream!NewDriver, Stream!NewStream
<1>1. PICK kind \in Kinds :
        dev = [kind |-> kind, on |-> FALSE, id |-> 0, rate |-> 100, res |-> 2]
  OBVIOUS
<1>2. kind \in Stream!Kind /\ Slots > 1 /\ Slots \in Nat /\ ResetLimit \in Nat
  BY DEF Stream!Assumptions
<1>3. dev \in Stream!Device /\ ~ dev.on
  BY <1>1, <1>2 DEF Stream!Device
<1>4. stream \in Stream!Stream /\ stream.count = 0
  BY <1>2 DEF Stream!Stream
<1>5. setup \in Stream!Setup /\ setup.type = 0
  BY DEF Stream!Setup
<1>6. ring \in Seq([reset : BOOLEAN, buttons : SUBSET Stream!Button]) /\ Len(ring) < Slots
  BY <1>2
<1>7. Stream!TypeOK
  <2>1. sent \in 0 .. 3 /\ coming \in {"nothing", "acknowledge", "zero"} /\ meant = {}
    OBVIOUS
  <2>2. {aligned, still} \subseteq BOOLEAN
    OBVIOUS
  <2> QED BY <1>3, <1>4, <1>5, <1>6, <2>1, <2>2, Zenon DEF Stream!TypeOK
<1> QED BY <1>3, <1>4, <1>5, <1>7 DEF StreamInv, LengthsInv, PlacesInv, ComingInv,
             AlignedInv, SettlingInv, Stream!PacketLength

(* resetMouse brings driver and mouse to the beginning of a report whose   *)
(* length they agree on.                                                   *)
LEMMA ResetStep ==
    ASSUME Stream!Assumptions, StreamInv, NEW silent, Stream!ResetMouse(silent)
    PROVE  StreamInv'
<1> DEFINE first == setup.info = << >>
           plain == Stream!Defaults(dev)
           res == IF first THEN ForcedRes ELSE setup.info[1]
           tuned == [plain EXCEPT !.res = res]
           info == CASE first /\ "information" \in silent -> << >>
                     [] first /\ "information" \notin silent -> <<tuned.res, tuned.rate>>
                     [] ~ first -> setup.info
           mode == Stream!SetIntellimouseMode(tuned, silent)
           restored == Stream!RestoreRate(mode.dev, info)
           Info == {<< >>} \cup ((0 .. 3) \X {80, 100})
<1>1. /\ dev' = [restored EXCEPT !.on = TRUE]
      /\ setup' = [running |-> TRUE, type |-> mode.type, info |-> info,
                   missed |-> "id" \in silent]
      /\ stream' = [stream EXCEPT !.count = 0, !.first = {}] /\ ring' = << >>
      /\ coming' \in {"nothing", "acknowledge"}
      /\ sent' = 0 /\ aligned' = TRUE /\ still' = FALSE /\ meant' = meant
  BY DEF Stream!ResetMouse, Stream!InitPacketBuffer
<1>2. /\ dev \in Stream!Device /\ stream \in Stream!Stream /\ setup \in Stream!Setup
      /\ meant \subseteq Stream!Button
      /\ Slots > 1 /\ Slots \in Nat /\ ForcedRes \in 0 .. 3
  BY DEF StreamInv, Stream!TypeOK, Stream!Assumptions
<1>3. setup.info \in Info
  BY <1>2 DEF Stream!Setup
<1>4. res \in 0 .. 3
  BY <1>2, <1>3
<1>5. MouseIs(plain, dev.kind, FALSE, 0, 100, 2)
  BY <1>2, DefaultsApply
<1> HIDE DEF plain, res
<1>6. MouseIs(tuned, plain.kind, plain.on, plain.id, plain.rate, res)
  BY <1>4, <1>5, SetRes DEF MouseIs
<1> HIDE DEF tuned
<1>7. tuned.res \in 0 .. 3 /\ tuned.rate = 100 /\ tuned \in Stream!Device
  BY <1>4, <1>5, <1>6 DEF MouseIs
<1>8. info \in Info
  BY <1>3, <1>7
<1>9. /\ mode.dev \in Stream!Device /\ mode.type \in {0, 3, 4}
      /\ Stream!PacketLength(mode.type) <= Stream!ReportLength(mode.dev)
      /\ "id" \notin silent =>
            Stream!PacketLength(mode.type) = Stream!ReportLength(mode.dev)
  BY <1>7, ModeIsLearnt
<1> HIDE DEF mode, info
<1>10. restored \in Stream!Device /\ restored.id = mode.dev.id
  <2>1. CASE info = << >>
    BY <1>9, <2>1 DEF Stream!RestoreRate
  <2>2. CASE info # << >>
    <3>1. info[2] \in {80, 100}
      BY <1>8, <2>2
    <3>2. restored = [mode.dev EXCEPT !.rate = info[2]]
      BY <2>2 DEF Stream!RestoreRate
    <3> DEFINE rate == info[2]
               m == mode.dev
    <3>3. m \in Stream!Device /\ rate \in {80, 100} /\ restored = [m EXCEPT !.rate = rate]
      BY <1>9, <3>1, <3>2
    <3> HIDE DEF rate, m, restored
    <3>4. MouseIs([m EXCEPT !.rate = rate], m.kind, m.on, m.id, rate, m.res)
      <4>1. CASE rate = 80
        BY <3>3, <4>1, SetRate
      <4>2. CASE rate = 100
        BY <3>3, <4>2, SetRate
      <4> QED BY <3>3, <4>1, <4>2
    <3>5. MouseIs(restored, m.kind, m.on, m.id, rate, m.res)
      BY <3>3, <3>4, Zenon
    <3> QED BY <3>5 DEF MouseIs, m
  <2> QED BY <2>1, <2>2
<1> HIDE DEF restored
<1>11. dev' \in Stream!Device /\ dev'.id = mode.dev.id /\ dev'.on
  BY <1>1, <1>10, SetOn DEF MouseIs
<1>12. setup' \in Stream!Setup /\ setup'.type = mode.type
       /\ (setup'.missed <=> "id" \in silent)
  <2> DEFINE lost == "id" \in silent
             type == mode.type
  <2>1. lost \in BOOLEAN /\ type \in {0, 3, 4}
    BY <1>9
  <2>2. setup' = [running |-> TRUE, type |-> type, info |-> info, missed |-> lost]
    BY <1>1
  <2> HIDE DEF lost, type
  <2>3. setup' \in [running : BOOLEAN, type : {0, 3, 4}, info : Info, missed : BOOLEAN]
    <3> HIDE DEF Info
    <3> QED BY <1>8, <2>1, <2>2
  <2>4. setup'.type = type /\ (setup'.missed <=> lost)
    BY <2>2
  <2> QED BY <2>3, <2>4 DEF Stream!Setup, lost, type
<1>13. stream' \in Stream!Stream /\ stream'.count = 0
  <2> DEFINE q == [stream EXCEPT !.count = 0]
  <2>1. 0 \in 0 .. 3
    OBVIOUS
  <2>2. Fields(q, stream.lastReset, 0, stream.first, stream.resets)
    BY <1>2, <2>1, SetCount, Zenon
  <2>3. stream' = [q EXCEPT !.first = {}]
    BY <1>1
  <2> HIDE DEF q
  <2>4. Fields(stream', q.lastReset, q.count, {}, q.resets)
    BY <2>2, <2>3, SetFirst DEF Fields
  <2> QED BY <2>2, <2>4 DEF Fields
<1>14. /\ ring' \in Seq([reset : BOOLEAN, buttons : SUBSET Stream!Button])
       /\ Len(ring') < Slots
  BY <1>1, <1>2
<1>15. Stream!TypeOK'
  <2>1. sent' \in 0 .. 3 /\ coming' \in {"nothing", "acknowledge", "zero"}
        /\ meant' \subseteq Stream!Button
    BY <1>1, <1>2
  <2>2. {aligned', still'} \subseteq BOOLEAN
    BY <1>1
  <2> QED BY <1>11, <1>12, <1>13, <1>14, <2>1, <2>2, Zenon DEF Stream!TypeOK
<1>16. LengthsInv'
  BY <1>9, <1>11, <1>12 DEF LengthsInv, Stream!ReportLength
<1> QED BY <1>1, <1>9, <1>11, <1>12, <1>13, <1>15, <1>16 DEF StreamInv, PlacesInv,
             ComingInv, AlignedInv, SettlingInv, Stream!PacketLength, Stream!ReportLength

(* The mouse sends a byte of a report. *)
LEMMA SendStep ==
    ASSUME Stream!Assumptions, StreamInv, NEW byte \in Stream!ReportBytes(sent),
           NEW lost \in BOOLEAN, Stream!SendByte(byte, lost)
    PROVE  StreamInv'
<1> DEFINE R == Stream!ReportLength(dev)
           P == Stream!PacketLength(setup.type)
           n == stream.count
<1>1. /\ dev.on /\ coming = "nothing" /\ sent' = (sent + 1) % R
      /\ meant' = IF sent = 0 THEN Stream!Low(byte) ELSE meant
      /\ IF lost THEN UNCHANGED <<stream, ring>> ELSE Stream!InterruptOccurred(byte)
      /\ aligned' = (\/ sent' = 0 /\ stream'.count = 0
                     \/ aligned /\ ~ lost /\ ~ Stream!ResetSeen(byte))
      /\ still' = (~ lost /\ (sent = 0 \/ (still /\ byte = 0)))
      /\ UNCHANGED <<dev, coming, setup>>
  BY DEF Stream!SendByte
<1>2. /\ R \in {3, 4} /\ P \in {3, 4} /\ P <= R /\ (~ setup.missed => P = R)
      /\ sent \in 0 .. 3 /\ sent < R /\ n \in 0 .. 3 /\ n < P
  BY <1>1 DEF StreamInv, LengthsInv, PlacesInv, Stream!TypeOK, Stream!Stream,
              Stream!ReportLength, Stream!PacketLength
<1>3. /\ dev \in Stream!Device /\ stream \in Stream!Stream /\ setup \in Stream!Setup
      /\ meant \subseteq Stream!Button /\ Stream!Low(byte) \subseteq Stream!Button
      /\ coming \in {"nothing", "acknowledge", "zero"}
  BY DEF StreamInv, Stream!TypeOK, Stream!Low
<1>4. /\ ring \in Seq([reset : BOOLEAN, buttons : SUBSET Stream!Button])
      /\ Len(ring) < Slots
  BY DEF StreamInv, Stream!TypeOK
<1>5. R' = R /\ P' = P
  BY <1>1
<1> HIDE DEF R, P
<1>6. sent' = IF sent + 1 = R THEN 0 ELSE sent + 1
  BY <1>1, <1>2
<1>7. ~ lost => Taken(byte)
  BY <1>1, InterruptTakes DEF StreamInv
<1>8. sent = 0 => byte \in 8 .. 15 /\ ~ Stream!NoFirstByte(byte)
  BY FirstBytes
<1>9. Stream!TypeOK'
  <2>1. stream' \in Stream!Stream
    BY <1>1, <1>3, <1>7 DEF Taken
  <2>2. /\ ring' \in Seq([reset : BOOLEAN, buttons : SUBSET Stream!Button])
        /\ Len(ring') < Slots
    BY <1>1, <1>4, <1>7 DEF Taken
  <2>3. /\ sent' \in 0 .. 3 /\ coming' \in {"nothing", "acknowledge", "zero"}
        /\ meant' \subseteq Stream!Button
    BY <1>1, <1>2, <1>3, <1>6
  <2>4. {aligned', still'} \subseteq BOOLEAN
    BY <1>1
  <2>5. dev' \in Stream!Device /\ setup' \in Stream!Setup
    BY <1>1, <1>3
  <2> QED BY <2>1, <2>2, <2>3, <2>4, <2>5, Zenon DEF Stream!TypeOK
<1>10. LengthsInv'
  BY <1>1, <1>2, <1>5 DEF LengthsInv, R, P
<1>11. n' < P
  BY <1>1, <1>2, <1>7 DEF Taken, P
<1>12. PlacesInv'
  <2>1. sent' < R
    BY <1>2, <1>6
  <2> QED BY <1>1, <1>5, <1>11, <2>1 DEF PlacesInv, R, P
<1>13. ComingInv'
  BY <1>1 DEF ComingInv
<1>14. AlignedInv'
  <2> SUFFICES ASSUME ~ setup.missed, aligned'
               PROVE  n' = sent' /\ (sent' > 0 => stream'.first = meant')
    BY <1>1 DEF AlignedInv
  <2>1. CASE sent' = 0 /\ n' = 0
    BY <2>1
  <2>2. CASE aligned /\ ~ lost /\ ~ Stream!ResetSeen(byte)
    <3>1. n = sent /\ (sent > 0 => stream.first = meant) /\ P = R
      BY <1>1, <1>2, <2>2 DEF StreamInv, AlignedInv
    <3>2. ~ (n = 0 /\ Stream!NoFirstByte(byte))
      BY <1>8, <3>1
    <3>3. IF n + 1 = P THEN n' = 0
          ELSE /\ n' = n + 1
               /\ stream'.first = IF n = 0 THEN Stream!Low(byte) ELSE stream.first
      BY <1>7, <2>2, <3>2 DEF Taken, P
    <3> HIDE DEF n
    <3> QED BY <1>1, <1>2, <1>6, <3>1, <3>3
  <2> QED BY <1>1, <2>1, <2>2
<1>15. SettlingInv'
  <2> SUFFICES ASSUME still'
               PROVE  /\ sent' = 0 => n' = 0
                      /\ sent' > 0 => ~ stream'.lastReset /\ (n' = 0 \/ n' + (R - sent') >= P)
    BY <1>5 DEF SettlingInv, R, P
  <2>1. ~ lost /\ (sent = 0 \/ (still /\ byte = 0))
    BY <1>1
  <2>2. CASE sent = 0
    <3>1. ~ Stream!ResetSeen(byte) /\ byte # Stream!Reset
      BY <1>8, <2>2 DEF Stream!ResetSeen, Stream!Reset
    <3>2. ~ stream'.lastReset /\ (IF n + 1 = P THEN n' = 0 ELSE n' = n + 1)
      BY <1>7, <1>8, <2>1, <2>2, <3>1 DEF Taken, P
    <3> HIDE DEF n
    <3> QED BY <1>2, <1>6, <2>2, <3>2
  <2>3. CASE sent > 0 /\ still /\ byte = 0
    <3>1. ~ stream.lastReset /\ (n = 0 \/ n + (R - sent) >= P)
      BY <2>3 DEF StreamInv, SettlingInv, R, P
    <3>2. ~ Stream!ResetSeen(byte) /\ byte # Stream!Reset
      BY <2>3, <3>1 DEF Stream!ResetSeen, Stream!Reset
    <3>3. /\ ~ stream'.lastReset
          /\ IF n = 0 \/ n + 1 = P THEN n' = 0 ELSE n' = n + 1
      BY <1>7, <2>1, <2>3, <3>2, RefusedBytes DEF Taken, P
    <3> HIDE DEF n
    <3> QED BY <1>2, <1>6, <2>3, <3>1, <3>3
  <2> QED BY <1>2, <2>1, <2>2, <2>3
<1> QED BY <1>9, <1>10, <1>12, <1>13, <1>14, <1>15 DEF StreamInv

(* A byte that is not part of a report: where the mouse is in its report   *)
(* does not change.                                                        *)
LEMMA OtherByteStep ==
    ASSUME Stream!Assumptions, StreamInv, NEW byte, Stream!InterruptOccurred(byte),
           UNCHANGED <<dev, sent, meant, setup>>, coming' = "nothing",
           UNCHANGED <<aligned, still>>,
           dev.on => sent = 0 /\ stream.count = 0 /\ ~ still /\ Stream!NoFirstByte(byte)
    PROVE  StreamInv'
<1>1. Taken(byte)
  BY InterruptTakes DEF StreamInv
<1>2. /\ dev \in Stream!Device /\ setup \in Stream!Setup /\ sent \in 0 .. 3
      /\ meant \subseteq Stream!Button /\ {aligned, still} \subseteq BOOLEAN
  BY DEF StreamInv, Stream!TypeOK
<1>3. Stream!TypeOK'
  <2>1. /\ dev' \in Stream!Device /\ setup' \in Stream!Setup /\ sent' \in 0 .. 3
        /\ meant' \subseteq Stream!Button /\ {aligned', still'} \subseteq BOOLEAN
    BY <1>2
  <2>2. coming' \in {"nothing", "acknowledge", "zero"}
    OBVIOUS
  <2> QED BY <1>1, <2>1, <2>2, Zenon DEF Taken, Stream!TypeOK
<1>4. LengthsInv'
  BY DEF StreamInv, LengthsInv
<1>5. stream'.count < Stream!PacketLength(setup.type) /\ (dev.on => stream'.count = 0)
  BY <1>1 DEF Taken
<1>6. PlacesInv'
  BY <1>5 DEF StreamInv, PlacesInv
<1>7. ComingInv'
  BY DEF ComingInv
<1>8. AlignedInv'
  BY <1>5 DEF AlignedInv
<1>9. SettlingInv'
  BY DEF StreamInv, PlacesInv, SettlingInv
<1> QED BY <1>3, <1>4, <1>6, <1>7, <1>8, <1>9 DEF StreamInv

(* The mouse resets itself, which the driver is told by AA. *)
LEMMA DeviceResetsStep ==
    ASSUME Stream!Assumptions, StreamInv, Stream!DeviceResets
    PROVE  StreamInv'
<1>1. /\ dev' = Stream!Defaults(dev) /\ coming' = "zero" /\ sent' = 0
      /\ aligned' = FALSE /\ still' = FALSE /\ meant' = meant /\ setup' = setup
      /\ Stream!InterruptOccurred(Stream!Reset)
  BY DEF Stream!DeviceResets
<1>2. Taken(Stream!Reset)
  BY <1>1, InterruptTakes DEF StreamInv
<1>3. dev \in Stream!Device /\ setup \in Stream!Setup /\ meant \subseteq Stream!Button
  BY DEF StreamInv, Stream!TypeOK
<1>4. dev' \in Stream!Device /\ ~ dev'.on
  BY <1>1, <1>3, DefaultsApply DEF MouseIs
<1>5. Stream!TypeOK'
  <2>1. /\ setup' \in Stream!Setup /\ sent' \in 0 .. 3 /\ meant' \subseteq Stream!Button
        /\ coming' \in {"nothing", "acknowledge", "zero"}
    BY <1>1, <1>3
  <2>2. {aligned', still'} \subseteq BOOLEAN
    BY <1>1
  <2> QED BY <1>2, <1>4, <2>1, <2>2, Zenon DEF Taken, Stream!TypeOK
<1>6. stream'.count < Stream!PacketLength(setup'.type)
  BY <1>1, <1>2 DEF Taken
<1> QED BY <1>1, <1>4, <1>5, <1>6 DEF StreamInv, LengthsInv, PlacesInv, ComingInv,
             AlignedInv, SettlingInv

(* The mouse is switched off for a sleep, or for good. *)
LEMMA DisableStep ==
    ASSUME Stream!Assumptions, StreamInv, Stream!DisableDevice \/ Stream!Stop
    PROVE  StreamInv'
<1>1. /\ dev' = [dev EXCEPT !.on = FALSE] /\ coming' = "nothing" /\ sent' = 0
      /\ still' = FALSE /\ meant' = meant
  BY DEF Stream!DisableDevice, Stream!Stop
<1>2. /\ dev \in Stream!Device /\ meant \subseteq Stream!Button
      /\ stream \in Stream!Stream /\ setup \in Stream!Setup
      /\ {aligned, still} \subseteq BOOLEAN
      /\ stream.count < Stream!PacketLength(setup.type)
      /\ Slots \in Nat /\ Slots > 1 /\ ResetLimit \in Nat
  BY DEF StreamInv, Stream!TypeOK, PlacesInv, Stream!Assumptions
<1>3. dev' \in Stream!Device /\ ~ dev'.on
  BY <1>1, <1>2, SetOn DEF MouseIs
<1>4. CASE UNCHANGED <<stream, ring, setup, aligned>>
  <2>1. /\ ring \in Seq([reset : BOOLEAN, buttons : SUBSET Stream!Button])
        /\ Len(ring) < Slots
    BY DEF StreamInv, Stream!TypeOK
  <2>2. Stream!TypeOK'
    <3>1. /\ setup' \in Stream!Setup /\ sent' \in 0 .. 3 /\ meant' \subseteq Stream!Button
          /\ coming' \in {"nothing", "acknowledge", "zero"} /\ stream' \in Stream!Stream
      BY <1>1, <1>2, <1>4
    <3>2. {aligned', still'} \subseteq BOOLEAN
      BY <1>1, <1>2, <1>4
    <3>3. /\ ring' \in Seq([reset : BOOLEAN, buttons : SUBSET Stream!Button])
          /\ Len(ring') < Slots
      BY <1>4, <2>1
    <3> QED BY <1>3, <3>1, <3>2, <3>3, Zenon DEF Stream!TypeOK
  <2> QED BY <1>1, <1>2, <1>3, <1>4, <2>2 DEF StreamInv, LengthsInv, PlacesInv,
               ComingInv, AlignedInv, SettlingInv
<1>5. CASE /\ setup' = Stream!NewDriver /\ stream' = Stream!NewStream
           /\ ring' = << >> /\ aligned' = TRUE
  <2>1. stream' \in Stream!Stream /\ stream'.count = 0
    BY <1>2, <1>5 DEF Stream!NewStream, Stream!Stream
  <2>2. setup' \in Stream!Setup /\ setup'.type = 0
    BY <1>5 DEF Stream!NewDriver, Stream!Setup
  <2>3. Stream!TypeOK'
    <3>1. /\ sent' \in 0 .. 3 /\ meant' \subseteq Stream!Button
          /\ coming' \in {"nothing", "acknowledge", "zero"}
      BY <1>1, <1>2
    <3>2. {aligned', still'} \subseteq BOOLEAN
      BY <1>1, <1>5
    <3>3. /\ ring' \in Seq([reset : BOOLEAN, buttons : SUBSET Stream!Button])
          /\ Len(ring') < Slots
      BY <1>2, <1>5
    <3> QED BY <1>3, <2>1, <2>2, <3>1, <3>2, <3>3, Zenon DEF Stream!TypeOK
  <2> QED BY <1>1, <1>3, <2>1, <2>2, <2>3 DEF StreamInv, LengthsInv, PlacesInv,
               ComingInv, AlignedInv, SettlingInv, Stream!PacketLength
<1> QED BY <1>4, <1>5 DEF Stream!DisableDevice, Stream!Stop

(* Every step of the mouse and of its driver keeps the invariant. *)
LEMMA StreamSteps ==
    ASSUME Stream!Assumptions, StreamInv, [Stream!Next]_Stream!vars
    PROVE  StreamInv'
<1>1. CASE UNCHANGED Stream!vars
  BY <1>1 DEF Stream!vars, StreamInv, Stream!TypeOK, LengthsInv, PlacesInv, ComingInv,
              AlignedInv, SettlingInv, Stream!ReportLength, Stream!PacketLength
<1>2. ASSUME NEW silent \in SUBSET Stream!Question,
             Stream!Start(silent) \/ Stream!EnableDevice(silent)
      PROVE  StreamInv'
  BY <1>2, ResetStep DEF Stream!Start, Stream!EnableDevice
<1>3. CASE Stream!DisableDevice \/ Stream!Stop
  BY <1>3, DisableStep
<1>4. ASSUME NEW byte \in Stream!ReportBytes(sent), NEW lost \in BOOLEAN,
             Stream!SendByte(byte, lost)
      PROVE  StreamInv'
  BY <1>4, SendStep
<1>5. CASE Stream!LateAcknowledge
  <2>1. /\ coming = "acknowledge" /\ Stream!InterruptOccurred(Stream!Acknowledge)
        /\ UNCHANGED <<dev, sent, meant, setup>> /\ coming' = "nothing"
        /\ UNCHANGED <<aligned, still>>
    BY <1>5 DEF Stream!LateAcknowledge
  <2>2. sent = 0 /\ stream.count = 0 /\ ~ still
    BY <2>1 DEF StreamInv, ComingInv
  <2> QED BY <2>1, <2>2, RefusedBytes, OtherByteStep
<1>6. CASE Stream!DeviceResets
  BY <1>6, DeviceResetsStep
<1>7. CASE Stream!DeviceAnnounced
  <2>1. /\ coming = "zero" /\ Stream!InterruptOccurred(0)
        /\ UNCHANGED <<dev, sent, meant, setup>> /\ coming' = "nothing"
        /\ UNCHANGED <<aligned, still>>
    BY <1>7 DEF Stream!DeviceAnnounced
  <2>2. ~ dev.on
    BY <2>1 DEF StreamInv, ComingInv
  <2> QED BY <2>1, <2>2, OtherByteStep
<1>8. CASE Stream!PacketReady
  <2> DEFINE P == [reset : BOOLEAN, buttons : SUBSET Stream!Button]
             size == Len(ring)
  <2>1. /\ ring # << >> /\ ring' = Tail(ring)
        /\ UNCHANGED <<dev, sent, meant, coming, stream, setup, aligned, still>>
    BY <1>8 DEF Stream!PacketReady
  <2>2. ring \in Seq(P) /\ size < Slots /\ Slots \in Nat
    BY DEF StreamInv, Stream!TypeOK, Stream!Assumptions
  <2>3. Tail(ring) \in Seq(P) /\ Len(Tail(ring)) = size - 1 /\ size \in Nat
    BY <2>1, <2>2, HeadTailProperties, LenProperties, Zenon
  <2>4. ring' \in Seq(P) /\ Len(ring') = size - 1
    BY <2>1, <2>3
  <2> HIDE DEF size
  <2>5. Len(ring') < Slots
    BY <2>2, <2>3, <2>4
  <2>6. Stream!TypeOK'
    <3>1. /\ dev \in Stream!Device /\ stream \in Stream!Stream /\ setup \in Stream!Setup
          /\ sent \in 0 .. 3 /\ coming \in {"nothing", "acknowledge", "zero"}
          /\ meant \subseteq Stream!Button /\ {aligned, still} \subseteq BOOLEAN
      BY DEF StreamInv, Stream!TypeOK
    <3>2. /\ dev' \in Stream!Device /\ stream' \in Stream!Stream /\ setup' \in Stream!Setup
          /\ sent' \in 0 .. 3 /\ coming' \in {"nothing", "acknowledge", "zero"}
          /\ meant' \subseteq Stream!Button /\ {aligned', still'} \subseteq BOOLEAN
      BY <2>1, <3>1
    <3> QED BY <2>4, <2>5, <3>2, Zenon DEF Stream!TypeOK
  <2> QED BY <2>1, <2>6 DEF StreamInv, LengthsInv, PlacesInv, ComingInv, AlignedInv,
               SettlingInv, Stream!ReportLength, Stream!PacketLength
<1> QED BY <1>1, <1>2, <1>3, <1>4, <1>5, <1>6, <1>7, <1>8 DEF Stream!Next

(* The inductive invariant of the byte stream of the mouse holds in every  *)
(* state (interruptOccurred, resetMouse).                                  *)
THEOREM StreamInvariant == Stream!Spec => []StreamInv
<1>1. Stream!Init => StreamInv
  BY StreamStarts, StreamAssumption
<1>2. StreamInv /\ [Stream!Next]_Stream!vars => StreamInv'
  BY StreamSteps, StreamAssumption
<1> QED BY <1>1, <1>2, PTL DEF Stream!Spec

(* The driver as a whole does what its two halves do. *)
THEOREM MouseHalves == MouseSpec => Spec /\ Stream!Spec
<1>1. MouseInit => Init /\ Stream!Init
  BY DEF MouseInit
<1>2. [MouseNext]_<<part, vars, streamVars>> => [Next]_vars /\ [Stream!Next]_Stream!vars
  BY DEF MouseNext, vars, streamVars, Stream!vars
<1> QED BY <1>1, <1>2, PTL DEF MouseSpec, Spec, Stream!Spec

(* For every kind of mouse, ring and limit on resets, driver and mouse are *)
(* at the same byte of a report as long as no byte is lost or taken for a  *)
(* reset (interruptOccurred, setIntellimouseMode).                         *)
THEOREM MouseStaysFramed == MouseSpec => []Framed
<1>1. StreamInv => Framed
  BY DEF StreamInv, LengthsInv, AlignedInv, Framed, Stream!Framed
<1> QED BY <1>1, StreamInvariant, MouseHalves, PTL

(* A report without movement brings the driver back to the beginning of a  *)
(* report, whatever bytes were lost before it (interruptOccurred).         *)
THEOREM StillReportsResync == MouseSpec => []StillReportResyncs
<1>1. StreamInv => StillReportResyncs
  BY DEF StreamInv, SettlingInv, StillReportResyncs, Stream!StillReportResyncs
<1> QED BY <1>1, StreamInvariant, MouseHalves, PTL

-----------------------------------------------------------------------------
(***************************************************************************)
(* Loops                                                                   *)
(***************************************************************************)

(* A set of naturals that is not empty has a least element. *)
LEMMA Least ==
    ASSUME NEW T, T \subseteq Nat, T # {}
    PROVE  \E x \in T : \A y \in T : x <= y
<1> DEFINE R == OpToRel(<, Nat)
<1>1. IsWellFoundedOn(R, Nat)
  BY NatLessThanWellFounded, Zenon
<1>2. \A x, y \in Nat : y < x => <<y, x>> \in R
  BY DEF OpToRel
<1> HIDE DEF R
<1>3. PICK x \in T : \A y \in T : ~ (<<y, x>> \in R)
  BY <1>1, WFMin, Zenon
<1>4. ASSUME NEW y \in T PROVE x <= y
  <2>1. x \in Nat /\ y \in Nat
    OBVIOUS
  <2>2. ~ (y < x)
    BY <1>2, <1>3, <2>1, Zenon
  <2> QED BY <2>1, <2>2
<1> QED BY <1>4

(* Induction: a set with 0 and all successors has all naturals. *)
LEMMA Induct ==
    ASSUME NEW S, 0 \in S, \A n \in Nat : n \in S => n + 1 \in S
    PROVE  Nat \subseteq S
<1> SUFFICES ASSUME ~ (Nat \subseteq S) PROVE FALSE
  OBVIOUS
<1> DEFINE T == Nat \ S
<1>1. PICK x \in T : \A y \in T : x <= y
  <2>1. T \subseteq Nat /\ T # {}
    OBVIOUS
  <2> HIDE DEF T
  <2> QED BY <2>1, Least
<1>2. x # 0 /\ x \in Nat
  OBVIOUS
<1>3. x - 1 \in S
  BY <1>1, <1>2
<1> QED BY <1>2, <1>3

(* A loop of n rounds: round i makes G[i][d] of d. *)
Loop(f, n, base, G) ==
    f = [i \in 0 .. n |-> IF i = 0 THEN base ELSE G[i][f[i - 1]]]

(* Such a loop always comes to an end. *)
LEMMA LoopEnds ==
    ASSUME NEW D, NEW base \in D, NEW G \in [Nat -> [D -> D]], NEW n \in Nat
    PROVE  \E f \in [0 .. n -> D] : Loop(f, n, base, G)
<1> DEFINE S == {m \in Nat : \E f \in [0 .. m -> D] : Loop(f, m, base, G)}
<1>1. 0 \in S
  <2> DEFINE f == [i \in 0 .. 0 |-> base]
  <2>1. f \in [0 .. 0 -> D] /\ Loop(f, 0, base, G)
    BY DEF Loop
  <2> QED BY <2>1
<1>2. ASSUME NEW m \in Nat, m \in S PROVE m + 1 \in S
  <2>1. PICK f \in [0 .. m -> D] : Loop(f, m, base, G)
    BY <1>2
  <2> DEFINE g == [i \in 0 .. m + 1 |-> IF i \in 0 .. m THEN f[i] ELSE G[m + 1][f[m]]]
  <2>2. g \in [0 .. m + 1 -> D]
    OBVIOUS
  <2>3. ASSUME NEW i \in 0 .. m + 1
        PROVE  g[i] = IF i = 0 THEN base ELSE G[i][g[i - 1]]
    <3>1. CASE i = 0
      BY <2>1, <3>1 DEF Loop
    <3>2. CASE i \in 1 .. m
      <4>1. f[i] = G[i][f[i - 1]]
        BY <2>1, <3>2 DEF Loop
      <4>2. g[i] = f[i] /\ g[i - 1] = f[i - 1]
        BY <3>2
      <4> QED BY <3>2, <4>1, <4>2
    <3>3. CASE i = m + 1
      <4>1. g[i] = G[m + 1][f[m]] /\ g[i - 1] = f[m] /\ i # 0
        BY <3>3
      <4> QED BY <3>3, <4>1
    <3> QED BY <3>1, <3>2, <3>3
  <2>4. Loop(g, m + 1, base, G)
    BY <2>2, <2>3 DEF Loop
  <2> HIDE DEF g
  <2> QED BY <2>2, <2>4
<1> HIDE DEF S
<1>3. Nat \subseteq S
  BY <1>1, <1>2, Induct
<1> QED BY <1>3 DEF S

-----------------------------------------------------------------------------
(***************************************************************************)
(* The state of the key dispatch, changed one field at a time              *)
(***************************************************************************)

(* q is a state of the driver with these fields. *)
DrvIs(q, mods, keys, timer, func, off, fkeymode, asks) ==
    /\ q \in Keys!Driver
    /\ q.mods = mods /\ q.client = keys /\ (q.timer <=> timer) /\ q.func = func
    /\ (q.off <=> off) /\ (q.fkeymode <=> fkeymode) /\ q.asks = asks

(* A state of the driver has the fields that Driver gives it. *)
LEMMA DriverFields ==
    ASSUME NEW d \in Keys!Driver
    PROVE  /\ DrvIs(d, d.mods, d.client, d.timer, d.func, d.off, d.fkeymode, d.asks)
           /\ d.mods \in SUBSET Keys!Modifier /\ d.client \in SUBSET Keys!Code
           /\ d.timer \in BOOLEAN /\ d.func \in {"sleep", "eject"} /\ d.off \in BOOLEAN
           /\ d.fkeymode \in BOOLEAN /\ d.asks \in SUBSET Keys!Request
BY DEF DrvIs, Keys!Driver

(* The modifiers are changed, and nothing else. *)
LEMMA ModsSet ==
    ASSUME NEW d \in Keys!Driver, NEW x \in SUBSET Keys!Modifier
    PROVE  DrvIs([d EXCEPT !.mods = x], x, d.client, d.timer, d.func, d.off, d.fkeymode, d.asks)
BY DEF DrvIs, Keys!Driver

(* What is down for the HID system is changed, and nothing else. *)
LEMMA ClientSet ==
    ASSUME NEW d \in Keys!Driver, NEW x \in SUBSET Keys!Code
    PROVE  DrvIs([d EXCEPT !.client = x], d.mods, x, d.timer, d.func, d.off, d.fkeymode, d.asks)
BY DEF DrvIs, Keys!Driver

(* The timer is changed, and nothing else. *)
LEMMA TimerSet ==
    ASSUME NEW d \in Keys!Driver, NEW x \in BOOLEAN
    PROVE  DrvIs([d EXCEPT !.timer = x], d.mods, d.client, x, d.func, d.off, d.fkeymode, d.asks)
BY DEF DrvIs, Keys!Driver

(* The function of the timer is changed, and nothing else. *)
LEMMA FuncSet ==
    ASSUME NEW d \in Keys!Driver, NEW x \in {"sleep", "eject"}
    PROVE  DrvIs([d EXCEPT !.func = x], d.mods, d.client, d.timer, x, d.off, d.fkeymode, d.asks)
BY DEF DrvIs, Keys!Driver

(* Input is disabled or enabled, and nothing else. *)
LEMMA OffSet ==
    ASSUME NEW d \in Keys!Driver, NEW x \in BOOLEAN
    PROVE  DrvIs([d EXCEPT !.off = x], d.mods, d.client, d.timer, d.func, x, d.fkeymode, d.asks)
BY DEF DrvIs, Keys!Driver

(* The mode of the function keys is changed, and nothing else. *)
LEMMA FKeyModeSet ==
    ASSUME NEW d \in Keys!Driver, NEW x \in BOOLEAN
    PROVE  DrvIs([d EXCEPT !.fkeymode = x], d.mods, d.client, d.timer, d.func, d.off, x, d.asks)
BY DEF DrvIs, Keys!Driver

(* What was asked for is changed, and nothing else. *)
LEMMA AsksSet ==
    ASSUME NEW d \in Keys!Driver, NEW x \in SUBSET Keys!Request
    PROVE  DrvIs([d EXCEPT !.asks = x], d.mods, d.client, d.timer, d.func, d.off, d.fkeymode, x)
BY DEF DrvIs, Keys!Driver

-----------------------------------------------------------------------------
(***************************************************************************)
(* What is true of the driver between two steps                            *)
(***************************************************************************)

(* The keys that are never sent under their own name *)
Silent ==
    {"header", "sleep", "touchpad", "fkeys", "caps", "fnup"}
    \cup (IF Keys!Has("numlock") THEN {"numlock"} ELSE {})
    \cup (IF Keys!Has("prntscr") THEN {"sysrq", "prtsc"} ELSE {})

(* What is down for the HID system, if D is down on the keyboard *)
Held(codes, D) ==
    /\ \A c \in codes : \/ c \in Keys!CanStick \cup D
                        \/ c = "prtsc" /\ "touchpad" \in D
    /\ codes \cap Silent = {}
Shift(mods, D) == mods \cap {"lctrl", "lshift"} \subseteq D
Timed(d, D) == d.timer /\ d.func = "sleep" => "sleep" \in D

Good(d, D) ==
    d \in Keys!Driver /\ Held(d.client, D) /\ Shift(d.mods, D) /\ Timed(d, D)

(* Nothing is asked for in between but what the step may ask for. *)
NoSleep(q, d) == "sleep" \in q.asks => "sleep" \in d.asks

(* Asking for something changes nothing else. *)
LEMMA Asked ==
    ASSUME NEW D, NEW d, Good(d, D), NEW what \in Keys!Request
    PROVE  /\ Good(Keys!Ask(d, what), D)
           /\ Keys!Ask(d, what).asks = d.asks \cup {what}
           /\ what # "sleep" => NoSleep(Keys!Ask(d, what), d)
<1> DEFINE x == d.asks \cup {what}
           q == Keys!Ask(d, what)
<1>1. d \in Keys!Driver /\ x \in SUBSET Keys!Request
  BY DriverFields DEF Good
<1>2. q = [d EXCEPT !.asks = x]
  BY DEF Keys!Ask
<1> HIDE DEF x, q
<1>3. DrvIs(q, d.mods, d.client, d.timer, d.func, d.off, d.fkeymode, x)
  BY <1>1, <1>2, AsksSet
<1>4. Good(q, D) /\ q.asks = x
  BY <1>3 DEF DrvIs, Good, Timed
<1> QED BY <1>4 DEF q, x, NoSleep

(* Track keeps what is true of the keys D before the step, but for the     *)
(* modifiers: those are of the keys E after it.                            *)
Tracked(q, d, D, E) ==
    /\ q \in Keys!Driver /\ Held(q.client, D) /\ Shift(q.mods, E) /\ Timed(q, D)
    /\ q.asks = d.asks

(* The tracking of the modifiers, when a key comes up ... *)
LEMMA TrackUp ==
    ASSUME NEW D, NEW d, Good(d, D), NEW k
    PROVE  Tracked(Keys!Track(d, k, FALSE), d, D, D \ {k})
<1> DEFINE x == d.mods \ {k}
           q == Keys!Track(d, k, FALSE)
<1>1. d \in Keys!Driver /\ x \in SUBSET Keys!Modifier /\ d.mods \in SUBSET Keys!Modifier
  BY DriverFields DEF Good
<1>2. CASE k \in Keys!Modifier
  <2>1. q = [d EXCEPT !.mods = x]
    BY <1>2 DEF Keys!Track
  <2>2. Shift(x, D \ {k})
    BY DEF Good, Shift
  <2> HIDE DEF x, q
  <2>3. DrvIs(q, x, d.client, d.timer, d.func, d.off, d.fkeymode, d.asks)
    BY <1>1, <2>1, ModsSet
  <2>4. Tracked(q, d, D, D \ {k})
    BY <2>2, <2>3 DEF DrvIs, Good, Timed, Tracked
  <2> QED BY <2>4 DEF q
<1>3. CASE k \notin Keys!Modifier
  <2>1. q = d
    BY <1>3 DEF Keys!Track
  <2>2. Shift(d.mods, D \ {k})
    BY <1>1, <1>3 DEF Good, Shift
  <2> QED BY <2>1, <2>2 DEF Tracked, Good
<1> QED BY <1>2, <1>3

(* ... and when a key goes down. *)
LEMMA TrackDown ==
    ASSUME NEW D, NEW d, Good(d, D), NEW k, NEW E, D \subseteq E, k \in E \cup Keys!BreaklessKey
    PROVE  Tracked(Keys!Track(d, k, TRUE), d, D, E)
<1> DEFINE x == d.mods \cup {k}
           q == Keys!Track(d, k, TRUE)
<1>1. d \in Keys!Driver /\ d.mods \in SUBSET Keys!Modifier
  BY DriverFields DEF Good
<1>2. CASE k \in Keys!Modifier
  <2>1. q = [d EXCEPT !.mods = x]
    BY <1>2 DEF Keys!Track
  <2>2. Shift(x, E) /\ x \in SUBSET Keys!Modifier
    <3>1. k \in E
      BY <1>2 DEF Keys!Modifier, Keys!BreaklessKey
    <3> QED BY <1>1, <1>2, <3>1 DEF Good, Shift
  <2> HIDE DEF x, q
  <2>3. DrvIs(q, x, d.client, d.timer, d.func, d.off, d.fkeymode, d.asks)
    BY <1>1, <2>1, <2>2, ModsSet
  <2>4. Tracked(q, d, D, E)
    BY <2>2, <2>3 DEF DrvIs, Good, Timed, Tracked
  <2> QED BY <2>4 DEF q
<1>3. CASE k \notin Keys!Modifier
  <2>1. q = d
    BY <1>3 DEF Keys!Track
  <2>2. Shift(d.mods, E)
    BY <1>1, <1>3 DEF Good, Shift
  <2> QED BY <2>1, <2>2 DEF Tracked, Good
<1> QED BY <1>2, <1>3

-----------------------------------------------------------------------------
(***************************************************************************)
(* Releases                                                                *)
(***************************************************************************)

(* A release that leaves no more codes down, and not the one of its key *)
LEMMA Released ==
    ASSUME NEW D, NEW k, NEW d, NEW q, Tracked(q, d, D, D \ {k}),
           NEW r \in Keys!Driver, r.client \subseteq q.client, Shift(r.mods, D \ {k}),
           r.timer => q.timer, r.func = q.func,
           k \in r.client => k \in Keys!CanStick,
           k = "touchpad" => "prtsc" \notin r.client,
           k = "sleep" => ~ r.timer
    PROVE  Good(r, D \ {k})
<1>1. Held(r.client, D \ {k})
  BY DEF Tracked, Held
<1>2. Timed(r, D \ {k})
  BY DEF Tracked, Timed
<1> QED BY <1>1, <1>2 DEF Good

(* A key that is silent is not in what is down for the HID system. *)
LEMMA SilentReleased ==
    ASSUME NEW D, NEW k, NEW d, NEW q, Tracked(q, d, D, D \ {k}),
           k \in Silent \cup Keys!CanStick, k # "sleep",
           k = "touchpad" => "prtsc" \in Silent
    PROVE  Good(q, D \ {k})
<1>1. q \in Keys!Driver /\ Shift(q.mods, D \ {k}) /\ q.client \cap Silent = {}
  BY DEF Tracked, Held
<1>2. k \in q.client => k \in Keys!CanStick
  BY <1>1
<1>3. k = "touchpad" => "prtsc" \notin q.client
  BY <1>1
<1> QED BY <1>1, <1>2, <1>3, Released

(* Pretending that left Alt is down disturbs nothing but Alt. *)
LEMMA AltForced ==
    ASSUME NEW D, NEW E, NEW d, NEW q, Tracked(q, d, D, E)
    PROVE  Tracked(Keys!ForceAlt(q), d, D, E)
<1> DEFINE x == (q.mods \ {"ralt"}) \cup {"lalt"}
           r == Keys!ForceAlt(q)
<1>1. q \in Keys!Driver /\ x \in SUBSET Keys!Modifier
  BY DriverFields DEF Tracked, Keys!Modifier
<1>2. r = [q EXCEPT !.mods = x]
  BY DEF Keys!ForceAlt
<1>3. Shift(x, E)
  BY DEF Tracked, Shift
<1> HIDE DEF x, r
<1>4. DrvIs(r, x, q.client, q.timer, q.func, q.off, q.fkeymode, q.asks)
  BY <1>1, <1>2, ModsSet
<1>5. Tracked(r, d, D, E)
  BY <1>3, <1>4 DEF DrvIs, Tracked, Timed
<1> QED BY <1>5 DEF r

(* A release takes the code of its key from what is down, and may stop the *)
(* timer (the common tail of dispatchKeyboardEventWithPacket).             *)
LEMMA SendUp ==
    ASSUME NEW q \in Keys!Driver, NEW k \in Keys!AnyKey
    PROVE  LET r == Keys!SendKey(q, k, FALSE)
           IN  /\ r \in Keys!Driver /\ r.client \subseteq q.client /\ r.mods = q.mods
               /\ r.timer => q.timer
               /\ r.func = q.func /\ r.asks = q.asks
               /\ k \notin {"f1", "fnup", "caps"} => k \notin r.client
<1> DEFINE r == Keys!SendKey(q, k, FALSE)
           x == q.client \ {Keys!Mapped(q, k)}
           t == q.timer /\ ~ (k = "eject" /\ ~ FALSE /\ q.mods = {})
           m == [q EXCEPT !.client = x]
<1>1. CASE k \in Keys!BreaklessKey \cup {"caps"}
  <2>1. r = q
    BY <1>1 DEF Keys!SendKey
  <2> QED BY <1>1, <2>1 DEF Keys!BreaklessKey
<1>2. CASE k \notin Keys!BreaklessKey \cup {"caps"}
  <2>1. r = [m EXCEPT !.timer = t]
    BY <1>2 DEF Keys!SendKey
  <2>2. x \in SUBSET Keys!Code /\ t \in BOOLEAN /\ (t => q.timer)
    BY DriverFields
  <2>3. k \notin {"f1", "fnup", "caps"} => k \notin x
    BY DEF Keys!Mapped
  <2>4. x \subseteq q.client
    OBVIOUS
  <2> HIDE DEF x, t
  <2>5. DrvIs(m, q.mods, x, q.timer, q.func, q.off, q.fkeymode, q.asks)
    BY <2>2, ClientSet
  <2>6. m \in Keys!Driver
    BY <2>5 DEF DrvIs
  <2> HIDE DEF m
  <2>7. DrvIs([m EXCEPT !.timer = t], m.mods, m.client, t, m.func, m.off, m.fkeymode, m.asks)
    BY <2>2, <2>6, TimerSet
  <2>8. DrvIs(r, m.mods, m.client, t, m.func, m.off, m.fkeymode, m.asks)
    BY <2>1, <2>7
  <2> HIDE DEF r
  <2>9. /\ r \in Keys!Driver /\ r.client \subseteq q.client /\ r.mods = q.mods
        /\ r.timer => q.timer
        /\ r.func = q.func /\ r.asks = q.asks
        /\ k \notin {"f1", "fnup", "caps"} => k \notin r.client
    BY <2>2, <2>3, <2>4, <2>5, <2>8 DEF DrvIs
  <2> QED BY <2>9 DEF r
<1> QED BY <1>1, <1>2

(* r is what the brightness hack makes of q. *)
Bright(r, q, held) ==
    r = Keys!BrightnessKey(q, held, TRUE) \/ r = Keys!BrightnessKey(q, held, FALSE)

(* The brightness hack presses again only Shift and Control, which are     *)
(* down on the keyboard then.                                              *)
LEMMA BrightnessHack ==
    ASSUME NEW D, NEW E, NEW d, NEW q, Tracked(q, d, D, E), NEW held, NEW r, Bright(r, q, held),
           Keys!AllHeld(q, {"lctrl", "lshift"}), D \subseteq E \cup {"plus"}
    PROVE  Good(r, E) /\ r.asks = d.asks
<1> DEFINE lifted == held \cap (IF Keys!AllHeld(q, {"lwin"}) THEN {"lctrl"} ELSE {"lshift", "lctrl"})
<1>1. PICK x \in {(q.client \cup {"bright"}) \cup lifted, (q.client \ {"bright"}) \cup lifted} :
         r = [q EXCEPT !.client = x]
  BY DEF Bright, Keys!BrightnessKey
<1>2. {"lctrl", "lshift"} \subseteq E
  BY DEF Keys!AllHeld, Tracked, Shift
<1>3. q \in Keys!Driver /\ q.client \in SUBSET Keys!Code
  BY DriverFields DEF Tracked
<1>4. lifted \subseteq {"lctrl", "lshift"}
  OBVIOUS
<1>5. x \subseteq q.client \cup {"bright", "lctrl", "lshift"}
  BY <1>4
<1> HIDE DEF lifted
<1>6. x \in SUBSET Keys!Code
  BY <1>3, <1>5 DEF Keys!Code, Keys!AnyKey, Keys!Modifier
<1>7. Held(x, E)
  <2>1. Held(q.client, D)
    BY DEF Tracked
  <2>2. {"bright", "lctrl", "lshift"} \cap Silent = {}
    BY DEF Silent
  <2>3. \A c \in x : c \in Keys!CanStick \cup E \/ (c = "prtsc" /\ "touchpad" \in E)
    BY <1>2, <1>5, <2>1 DEF Held, Keys!CanStick
  <2> QED BY <1>5, <2>1, <2>2, <2>3 DEF Held
<1>8. Timed(q, E)
  BY DEF Tracked, Timed
<1>9. DrvIs(r, q.mods, x, q.timer, q.func, q.off, q.fkeymode, q.asks)
  BY <1>1, <1>3, <1>6, ClientSet
<1> QED BY <1>7, <1>8, <1>9 DEF DrvIs, Good, Tracked, Timed

-----------------------------------------------------------------------------
(***************************************************************************)
(* dispatchKeyboardEventWithPacket                                         *)
(***************************************************************************)

(* The guards of dispatchKeyboardEventWithPacket, in their order *)
Backlight(q) == Keys!Has("backlight") /\ Keys!AllHeld(q, {"lctrl", "lalt"})
Brightness(q) == Keys!Has("brightness") /\ Keys!AllHeld(q, {"lctrl", "lshift"})
Reset(q) == Keys!AllHeld(q, {"lctrl", "lalt"})
Special(q, k) ==
    \/ k \in {"header", "sleep", "touchpad", "fkeys"}
    \/ k = "numlock" /\ Keys!Has("numlock")
    \/ k = "plus" /\ (Backlight(q) \/ Brightness(q))
    \/ k = "del" /\ Reset(q)
    \/ k \in {"sysrq", "prtsc"} /\ Keys!Has("prntscr")

Cases(r, q, d, held, k, goingDown) ==
    /\ k = "header" => r = d
    /\ k = "numlock" /\ Keys!Has("numlock") =>
          r = IF goingDown THEN q ELSE Keys!Ask(q, "numlock")
    /\ k = "plus" /\ Backlight(q) => r = q
    /\ k = "plus" /\ ~ Backlight(q) /\ Brightness(q) =>
          r = Keys!BrightnessKey(q, held, goingDown)
    /\ k = "del" /\ Reset(q) => r = Keys!CtrlAltDelete(q, goingDown)
    /\ k = "sleep" => r = Keys!SleepKey(q, goingDown)
    /\ k \in {"sysrq", "touchpad"} /\ Keys!Has("prntscr") =>
          r = Keys!PrntScr(Keys!ForceAlt(q), goingDown)
    /\ k = "touchpad" /\ ~ Keys!Has("prntscr") =>
          r = Keys!SendKey(Keys!ForceAlt(q), "prtsc", goingDown)
    /\ k = "prtsc" /\ Keys!Has("prntscr") => r = Keys!PrntScr(q, goingDown)
    /\ k = "fkeys" => r = Keys!FKeysToggle(q, goingDown)
    /\ ~ Special(q, k) => r = Keys!SendKey(q, k, goingDown)

(* Exactly one case of dispatchKeyboardEventWithPacket handles a key. *)
LEMMA DispatchIs ==
    ASSUME NEW d, NEW held, NEW k, NEW goingDown \in BOOLEAN
    PROVE  Cases(Keys!Dispatch(d, held, k, goingDown), Keys!Track(d, k, goingDown), d, held, k,
                 goingDown)
<1> DEFINE q == Keys!Track(d, k, goingDown)
           r == Keys!Dispatch(d, held, k, goingDown)
<1> USE DEF Backlight, Brightness, Reset
<1>1. k = "header" => r = d
  BY DEF Keys!Dispatch
<1>2. k = "numlock" /\ Keys!Has("numlock") => r = IF goingDown THEN q ELSE Keys!Ask(q, "numlock")
  BY DEF Keys!Dispatch
<1>3. k = "plus" /\ Backlight(q) => r = q
  BY DEF Keys!Dispatch
<1>4. k = "plus" /\ ~ Backlight(q) /\ Brightness(q) => r = Keys!BrightnessKey(q, held, goingDown)
  BY DEF Keys!Dispatch
<1>5. k = "del" /\ Reset(q) => r = Keys!CtrlAltDelete(q, goingDown)
  BY DEF Keys!Dispatch
<1>6. k = "sleep" => r = Keys!SleepKey(q, goingDown)
  BY DEF Keys!Dispatch
<1>7. k \in {"sysrq", "touchpad"} /\ Keys!Has("prntscr") =>
         r = Keys!PrntScr(Keys!ForceAlt(q), goingDown)
  BY DEF Keys!Dispatch
<1>8. k = "touchpad" /\ ~ Keys!Has("prntscr") =>
         r = Keys!SendKey(Keys!ForceAlt(q), "prtsc", goingDown)
  BY DEF Keys!Dispatch
<1>9. k = "prtsc" /\ Keys!Has("prntscr") => r = Keys!PrntScr(q, goingDown)
  BY DEF Keys!Dispatch
<1>10. k = "fkeys" => r = Keys!FKeysToggle(q, goingDown)
  BY DEF Keys!Dispatch
<1>11. ~ Special(q, k) => r = Keys!SendKey(q, k, goingDown)
  BY DEF Keys!Dispatch, Special
<1> HIDE DEF q, r
<1>12. Cases(r, q, d, held, k, goingDown)
  BY <1>1, <1>2, <1>3, <1>4, <1>5, <1>6, <1>7, <1>8, <1>9, <1>10, <1>11 DEF Cases
<1> QED BY <1>12, Zenon DEF q, r

(* After a release, what is true of the keys D that were down is true of   *)
(* the others; and no release puts the machine to sleep.                   *)
LEMMA DispatchUp ==
    ASSUME Command \in {"lalt", "lwin"}, NEW D, NEW d, Good(d, D), NEW held, NEW k \in Keys!AnyKey
    PROVE  LET r == Keys!Dispatch(d, held, k, FALSE)
           IN  Good(r, D \ {k}) /\ NoSleep(r, d)
<1> DEFINE r == Keys!Dispatch(d, held, k, FALSE)
           q == Keys!Track(d, k, FALSE)
           E == D \ {k}
<1>1. Tracked(q, d, D, E)
  BY TrackUp
<1>2. Cases(r, q, d, held, k, FALSE)
  BY DispatchIs
<1>3. q \in Keys!Driver /\ q.asks = d.asks /\ Shift(q.mods, E)
  BY <1>1 DEF Tracked
<1> HIDE DEF r, q
<1> SUFFICES Good(r, E) /\ NoSleep(r, d)
  BY DEF r
<1>4. CASE k = "header"
  <2>1. r = d
    BY <1>2, <1>4 DEF Cases
  <2>2. q = d
    BY <1>4 DEF q, Keys!Track, Keys!Modifier
  <2>3. k \in Silent
    BY <1>4 DEF Silent
  <2>4. Good(q, E)
    BY <1>1, <1>4, <2>3, SilentReleased
  <2> QED BY <2>1, <2>2, <2>4 DEF NoSleep
<1>5. CASE k = "numlock" /\ Keys!Has("numlock")
  <2>1. r = Keys!Ask(q, "numlock")
    BY <1>2, <1>5 DEF Cases
  <2>2. Good(q, E)
    <3>1. k \in Silent
      BY <1>5 DEF Silent
    <3> QED BY <1>1, <1>5, <3>1, SilentReleased
  <2>3. "numlock" \in Keys!Request
    BY DEF Keys!Request
  <2>4. Good(r, E) /\ NoSleep(r, q)
    BY <2>1, <2>2, <2>3, Asked
  <2> QED BY <1>3, <2>4 DEF NoSleep
<1>6. CASE k = "plus" /\ Backlight(q)
  <2>1. r = q
    BY <1>2, <1>6 DEF Cases
  <2>2. k \in Keys!CanStick
    BY <1>6 DEF Keys!CanStick
  <2> QED BY <1>1, <1>3, <1>6, <2>1, <2>2, SilentReleased DEF NoSleep
<1>7. CASE k = "plus" /\ ~ Backlight(q) /\ Brightness(q)
  <2>1. r = Keys!BrightnessKey(q, held, FALSE)
    BY <1>2, <1>7 DEF Cases
  <2>2. Keys!AllHeld(q, {"lctrl", "lshift"}) /\ D \subseteq E \cup {"plus"}
    BY <1>7 DEF Brightness
  <2>3. Good(r, E) /\ r.asks = d.asks
    <3>1. Bright(r, q, held)
      BY <2>1 DEF Bright
    <3> HIDE DEF E
    <3> QED BY <1>1, <2>2, <3>1, BrightnessHack
  <2> QED BY <2>3 DEF NoSleep
<1>8. CASE k = "del" /\ Reset(q)
  <2> DEFINE x == q.client \ {Command, "lctrl"}
             m == [q EXCEPT !.client = x]
  <2>1. r = Keys!Ask(m, "power")
    BY <1>2, <1>8 DEF Cases, Keys!CtrlAltDelete
  <2>2. x \in SUBSET Keys!Code /\ x \subseteq q.client
    BY <1>3, DriverFields
  <2> HIDE DEF x
  <2>3. DrvIs(m, q.mods, x, q.timer, q.func, q.off, q.fkeymode, q.asks)
    BY <1>3, <2>2, ClientSet
  <2> HIDE DEF m
  <2>4. /\ m \in Keys!Driver /\ m.client \subseteq q.client /\ Shift(m.mods, E)
        /\ m.timer => q.timer
        /\ m.func = q.func /\ m.asks = q.asks
    BY <1>3, <2>2, <2>3 DEF DrvIs
  <2>5. k \in Keys!CanStick /\ k # "touchpad" /\ k # "sleep"
    BY <1>8 DEF Keys!CanStick
  <2>6. Good(m, E)
    BY <1>1, <2>4, <2>5, Released
  <2>7. "power" \in Keys!Request
    BY DEF Keys!Request
  <2>8. Good(r, E) /\ NoSleep(r, m)
    BY <2>1, <2>6, <2>7, Asked
  <2> QED BY <1>3, <2>4, <2>8 DEF NoSleep
<1>9. CASE k = "sleep"
  <2>1. r = [q EXCEPT !.timer = FALSE]
    BY <1>2, <1>9 DEF Cases, Keys!SleepKey
  <2>2. DrvIs(r, q.mods, q.client, FALSE, q.func, q.off, q.fkeymode, q.asks)
    <3>1. FALSE \in BOOLEAN
      OBVIOUS
    <3> QED BY <1>3, <2>1, <3>1, TimerSet
  <2>3. /\ r \in Keys!Driver /\ r.client \subseteq q.client /\ Shift(r.mods, E)
        /\ ~ r.timer /\ r.func = q.func /\ r.asks = q.asks
    BY <1>3, <2>2 DEF DrvIs
  <2>4. k \notin r.client
    BY <1>1, <1>9, <2>3 DEF Tracked, Held, Silent
  <2>5. Good(r, E)
    BY <1>1, <1>9, <2>3, <2>4, Released
  <2> QED BY <1>3, <2>3, <2>5 DEF NoSleep
<1>10. CASE k \in {"sysrq", "touchpad"} /\ Keys!Has("prntscr")
  <2>1. r = Keys!ForceAlt(q)
    BY <1>2, <1>10 DEF Cases, Keys!PrntScr
  <2>2. Tracked(r, d, D, E)
    BY <1>1, <2>1, AltForced
  <2>3. k \in Silent /\ "prtsc" \in Silent /\ k # "sleep"
    BY <1>10 DEF Silent
  <2>4. Good(r, E)
    BY <2>2, <2>3, SilentReleased
  <2> QED BY <2>2, <2>4 DEF NoSleep, Tracked
<1>11. CASE k = "touchpad" /\ ~ Keys!Has("prntscr")
  <2> DEFINE f == Keys!ForceAlt(q)
  <2>1. r = Keys!SendKey(f, "prtsc", FALSE)
    BY <1>2, <1>11 DEF Cases
  <2>2. Tracked(f, d, D, E)
    BY <1>1, AltForced
  <2> HIDE DEF f
  <2>3. f \in Keys!Driver /\ "prtsc" \in Keys!AnyKey
    BY <2>2 DEF Tracked, Keys!AnyKey, Keys!Special
  <2>4. /\ r \in Keys!Driver /\ r.client \subseteq f.client /\ r.mods = f.mods
        /\ r.timer => f.timer
        /\ r.func = f.func /\ r.asks = f.asks
        /\ "prtsc" \notin r.client
    BY <2>1, <2>3, SendUp
  <2>5. k \notin r.client
    BY <1>11, <2>2, <2>4 DEF Tracked, Held, Silent
  <2>6. Good(r, E)
    BY <1>11, <2>2, <2>4, <2>5, Released DEF Tracked
  <2> QED BY <2>2, <2>4, <2>6 DEF NoSleep, Tracked
<1>12. CASE k = "prtsc" /\ Keys!Has("prntscr")
  <2>1. r = q
    BY <1>2, <1>12 DEF Cases, Keys!PrntScr
  <2>2. k \in Silent /\ k # "sleep"
    BY <1>12 DEF Silent
  <2> QED BY <1>1, <1>3, <1>12, <2>1, <2>2, SilentReleased DEF NoSleep
<1>13. CASE k = "fkeys"
  <2>1. r = q
    BY <1>2, <1>13 DEF Cases, Keys!FKeysToggle
  <2>2. k \in Silent /\ k # "sleep"
    BY <1>13 DEF Silent
  <2> QED BY <1>1, <1>3, <1>13, <2>1, <2>2, SilentReleased DEF NoSleep
<1>14. CASE ~ Special(q, k)
  <2>1. r = Keys!SendKey(q, k, FALSE)
    BY <1>2, <1>14 DEF Cases
  <2>2. /\ r \in Keys!Driver /\ r.client \subseteq q.client /\ r.mods = q.mods
        /\ r.timer => q.timer
        /\ r.func = q.func /\ r.asks = q.asks
        /\ k \notin {"f1", "fnup", "caps"} => k \notin r.client
    BY <1>3, <2>1, SendUp
  <2>3. k # "touchpad" /\ k # "sleep"
    BY <1>14 DEF Special
  <2>4. k \in r.client => k \in Keys!CanStick
    BY <1>1, <2>2 DEF Tracked, Held, Silent, Keys!CanStick
  <2>5. Good(r, E)
    BY <1>1, <1>3, <2>2, <2>3, <2>4, Released
  <2> QED BY <1>3, <2>2, <2>5 DEF NoSleep
<1> QED BY <1>4, <1>5, <1>6, <1>7, <1>8, <1>9, <1>10, <1>11, <1>12, <1>13, <1>14 DEF Special

-----------------------------------------------------------------------------
(***************************************************************************)
(* Presses                                                                 *)
(***************************************************************************)

(* What a press makes of q, if E is down on the keyboard then *)
Fine(r, q, E) == Good(r, E) /\ NoSleep(r, q)

(* To do nothing is fine; ... *)
LEMMA FineSelf ==
    ASSUME NEW E, NEW q, Good(q, E)
    PROVE  Fine(q, q, E)
BY DEF Fine, NoSleep

(* ... so is to ask for anything but sleep, ... *)
LEMMA FineAsk ==
    ASSUME NEW E, NEW q, NEW r, Fine(r, q, E), NEW what \in Keys!Request \ {"sleep"}
    PROVE  Fine(Keys!Ask(r, what), q, E)
<1>1. Good(Keys!Ask(r, what), E) /\ NoSleep(Keys!Ask(r, what), r)
  BY Asked DEF Fine
<1> QED BY <1>1 DEF Fine, NoSleep

(* ... and to press a key that is down on the keyboard. *)
LEMMA FineMore ==
    ASSUME NEW E, NEW q, Good(q, E), NEW c \in Keys!Code,
           c \in Keys!CanStick \cup E \/ (c = "prtsc" /\ "touchpad" \in E), c \notin Silent
    PROVE  Fine([q EXCEPT !.client = q.client \cup {c}], q, E)
<1> DEFINE x == q.client \cup {c}
           r == [q EXCEPT !.client = x]
<1>1. q \in Keys!Driver /\ x \in SUBSET Keys!Code
  BY DriverFields DEF Good
<1>2. Held(x, E)
  BY DEF Good, Held
<1> HIDE DEF x
<1>3. DrvIs(r, q.mods, x, q.timer, q.func, q.off, q.fkeymode, q.asks)
  BY <1>1, ClientSet
<1> HIDE DEF r
<1>4. Fine(r, q, E)
  BY <1>2, <1>3 DEF DrvIs, Good, Timed, Fine, NoSleep
<1> QED BY <1>4 DEF r, x

(* onSleepEjectTimer *)
(* What the timer does needs no key but that of its function. *)
LEMMA TimerDone ==
    ASSUME NEW E, NEW q, Good(q, E)
    PROVE  LET r == Keys!OnSleepEjectTimer(q)
           IN  Good(r, E) /\ (q.func # "sleep" => NoSleep(r, q))
<1>1. CASE q.func = "sleep"
  <2>1. Keys!OnSleepEjectTimer(q) = Keys!Ask(q, "sleep") /\ "sleep" \in Keys!Request
    BY <1>1 DEF Keys!OnSleepEjectTimer, Keys!Request
  <2> QED BY <1>1, <2>1, Asked
<1>2. CASE q.func # "sleep"
  <2>1. Keys!OnSleepEjectTimer(q) = [q EXCEPT !.client = q.client \cup {"eject"}]
    BY <1>2 DEF Keys!OnSleepEjectTimer
  <2>2. "eject" \in Keys!Code /\ "eject" \in Keys!CanStick /\ "eject" \notin Silent
    BY DEF Keys!Code, Keys!AnyKey, Keys!Special, Keys!CanStick, Silent
  <2>3. Fine(Keys!OnSleepEjectTimer(q), q, E)
    BY <2>1, <2>2, FineMore
  <2> QED BY <2>3 DEF Fine
<1> QED BY <1>1, <1>2

(* The sleep key sets the timer, or asks at once. *)
LEMMA SleepDown ==
    ASSUME NEW E, NEW q, Good(q, E), "sleep" \in E
    PROVE  Good(Keys!SleepKey(q, TRUE), E)
<1> DEFINE s == [q EXCEPT !.func = "sleep"]
           r == Keys!SleepKey(q, TRUE)
<1>1. q \in Keys!Driver
  BY DEF Good
<1>2. DrvIs(s, q.mods, q.client, q.timer, "sleep", q.off, q.fkeymode, q.asks)
  BY <1>1, FuncSet
<1>3. r = Keys!OnSleepEjectTimer(s) \/ r = [s EXCEPT !.timer = TRUE]
  BY DEF Keys!SleepKey
<1> HIDE DEF s, r
<1>4. Good(s, E)
  BY <1>2 DEF DrvIs, Good, Timed
<1>5. CASE r = Keys!OnSleepEjectTimer(s)
  <2>1. Good(r, E)
    BY <1>4, <1>5, TimerDone
  <2> QED BY <2>1 DEF r
<1>6. CASE r = [s EXCEPT !.timer = TRUE]
  <2>1. s \in Keys!Driver /\ TRUE \in BOOLEAN
    BY <1>4 DEF Good
  <2>2. DrvIs([s EXCEPT !.timer = TRUE], s.mods, s.client, TRUE, s.func, s.off, s.fkeymode, s.asks)
    BY <2>1, TimerSet
  <2>3. Good(r, E)
    BY <1>4, <1>6, <2>2 DEF DrvIs, Good, Timed
  <2> QED BY <2>3 DEF r
<1> QED BY <1>3, <1>5, <1>6

(* The eject key takes over the timer. *)
LEMMA EjectPressed ==
    ASSUME NEW E, NEW q, Good(q, E)
    PROVE  Fine(Keys!EjectDown(q), q, E)
<1> DEFINE s == [q EXCEPT !.func = "eject"]
           r == Keys!EjectDown(q)
<1>1. q \in Keys!Driver
  BY DEF Good
<1>2. DrvIs(s, q.mods, q.client, q.timer, "eject", q.off, q.fkeymode, q.asks)
  BY <1>1, FuncSet
<1>3. r = Keys!OnSleepEjectTimer(s) \/ r = [s EXCEPT !.timer = TRUE]
  BY DEF Keys!EjectDown
<1> HIDE DEF s, r
<1>4. Good(s, E) /\ s.func # "sleep" /\ s.asks = q.asks
  BY <1>2 DEF DrvIs, Good, Timed
<1>5. CASE r = Keys!OnSleepEjectTimer(s)
  <2>1. Good(r, E) /\ NoSleep(r, s)
    BY <1>4, <1>5, TimerDone
  <2> QED BY <1>4, <2>1 DEF r, Fine, NoSleep
<1>6. CASE r = [s EXCEPT !.timer = TRUE]
  <2>1. s \in Keys!Driver /\ TRUE \in BOOLEAN
    BY <1>4 DEF Good
  <2>2. DrvIs([s EXCEPT !.timer = TRUE], s.mods, s.client, TRUE, s.func, s.off, s.fkeymode, s.asks)
    BY <2>1, TimerSet
  <2>3. Fine(r, q, E)
    BY <1>4, <1>6, <2>2 DEF DrvIs, Good, Timed, Fine, NoSleep
  <2> QED BY <2>3 DEF r
<1> QED BY <1>3, <1>5, <1>6

(* The key for the mode of the function keys only asks. *)
LEMMA FKeysDown ==
    ASSUME NEW E, NEW q, NEW d, Fine(q, d, E)
    PROVE  Fine(Keys!FKeysToggle(q, TRUE), d, E)
<1>1. "fkeymode" \in Keys!Request \ {"sleep"}
  BY DEF Keys!Request
<1>2. Keys!FKeysToggle(q, TRUE) = Keys!Ask(q, "fkeymode") \/ Keys!FKeysToggle(q, TRUE) = q
  BY DEF Keys!FKeysToggle
<1>3. Fine(Keys!Ask(q, "fkeymode"), d, E)
  BY <1>1, FineAsk
<1> QED BY <1>2, <1>3

(* PrntScr, as it is remapped, only asks or disables input. *)
LEMMA PrntScrDown ==
    ASSUME NEW E, NEW q, Good(q, E)
    PROVE  Fine(Keys!PrntScr(q, TRUE), q, E)
<1> DEFINE r == Keys!PrntScr(q, TRUE)
           off == ~ q.off
           o == [q EXCEPT !.off = off]
           pad == Keys!Ask(q, "resetpad")
<1>1. q.mods \in SUBSET Keys!Modifier /\ q \in Keys!Driver /\ off \in BOOLEAN
  BY DriverFields DEF Good
<1>2. {"resetpad", "syncpad", "togglepad"} \subseteq Keys!Request \ {"sleep"}
  BY DEF Keys!Request
<1>3. Fine(q, q, E)
  BY FineSelf
<1>4. \/ r = Keys!FKeysToggle(pad, TRUE) \/ r = Keys!FKeysToggle(q, TRUE) \/ r = q
      \/ r = Keys!Ask(o, "syncpad") \/ r = Keys!Ask(q, "togglepad")
  <2>1. CASE Keys!AnyHeld(q, {"lctrl"})
    <3>1. Keys!AnyHeld(q, {"lctrl", "lshift", "lalt", "ralt"}) /\ Keys!AnyHeld(q, Keys!Modifier)
      BY <2>1 DEF Keys!AnyHeld, Keys!Modifier
    <3>2. r = Keys!FKeysToggle(IF Keys!AnyHeld(q, {"lalt", "ralt"}) THEN pad ELSE q, TRUE)
      <4> HIDE DEF o, off
      <4> QED BY <2>1, <3>1 DEF Keys!PrntScr
    <3> HIDE DEF r, o, pad
    <3>3. CASE Keys!AnyHeld(q, {"lalt", "ralt"})
      BY <3>2, <3>3
    <3>4. CASE ~ Keys!AnyHeld(q, {"lalt", "ralt"})
      BY <3>2, <3>4
    <3> QED BY <3>3, <3>4
  <2>2. CASE ~ Keys!AnyHeld(q, {"lctrl"}) /\ Keys!AnyHeld(q, {"lshift", "lalt", "ralt"})
    <3>1. Keys!AnyHeld(q, {"lctrl", "lshift", "lalt", "ralt"}) /\ Keys!AnyHeld(q, Keys!Modifier)
      BY <2>2 DEF Keys!AnyHeld, Keys!Modifier
    <3>2. r = q
      BY <2>2, <3>1 DEF Keys!PrntScr
    <3> QED BY <3>2
  <2>3. CASE ~ Keys!AnyHeld(q, {"lctrl", "lshift", "lalt", "ralt"}) /\ Keys!AnyHeld(q, {"lwin"})
    <3>1. ~ Keys!AnyHeld(q, {"lctrl"}) /\ ~ Keys!AnyHeld(q, {"lshift", "lalt", "ralt"})
      BY <2>3 DEF Keys!AnyHeld
    <3>2. Keys!AnyHeld(q, Keys!Modifier)
      BY <2>3 DEF Keys!AnyHeld, Keys!Modifier
    <3> QED BY <2>3, <3>1, <3>2 DEF Keys!PrntScr
  <2>4. CASE ~ Keys!AnyHeld(q, Keys!Modifier)
    <3>1. ~ Keys!AnyHeld(q, {"lctrl"}) /\ ~ Keys!AnyHeld(q, {"lshift", "lalt", "ralt"})
          /\ ~ Keys!AnyHeld(q, {"lwin"})
      BY <2>4 DEF Keys!AnyHeld, Keys!Modifier
    <3> QED BY <2>4, <3>1 DEF Keys!PrntScr
  <2> QED BY <1>1, <2>1, <2>2, <2>3, <2>4 DEF Keys!AnyHeld, Keys!Modifier
<1>5. Fine(pad, q, E)
  BY <1>2, <1>3, FineAsk
<1>6. Fine(o, q, E)
  <2> HIDE DEF off
  <2>1. DrvIs(o, q.mods, q.client, q.timer, q.func, off, q.fkeymode, q.asks)
    BY <1>1, OffSet
  <2> HIDE DEF o
  <2> QED BY <2>1 DEF DrvIs, Good, Timed, Fine, NoSleep
<1> HIDE DEF r, pad, o
<1>7. Fine(r, q, E)
  <2>1. Fine(Keys!FKeysToggle(pad, TRUE), q, E)
    BY <1>5, FKeysDown
  <2>2. Fine(Keys!FKeysToggle(q, TRUE), q, E)
    BY <1>3, FKeysDown
  <2>3. Fine(Keys!Ask(o, "syncpad"), q, E)
    BY <1>2, <1>6, FineAsk
  <2>4. Fine(Keys!Ask(q, "togglepad"), q, E)
    BY <1>2, <1>3, FineAsk
  <2> QED BY <1>3, <1>4, <2>1, <2>2, <2>3, <2>4
<1> QED BY <1>7 DEF r

(* A press adds the code of a key that is down on the keyboard. *)
LEMMA SendDown ==
    ASSUME NEW E, NEW q, Good(q, E), NEW k \in Keys!AnyKey,
           k \in Keys!BreaklessKey \cup {"caps"} \/ k \notin Silent,
           k \in E \cup Keys!BreaklessKey \/ (k = "prtsc" /\ "touchpad" \in E)
    PROVE  Fine(Keys!SendKey(q, k, TRUE), q, E)
<1> DEFINE r == Keys!SendKey(q, k, TRUE)
<1>1. Fine(q, q, E)
  BY FineSelf
<1>2. CASE q.off
  <2>1. r = q
    BY <1>2 DEF Keys!SendKey
  <2> QED BY <1>1, <2>1
<1>3. CASE ~ q.off /\ k = "eject" /\ q.mods = {}
  <2>1. r = Keys!EjectDown(q)
    BY <1>3 DEF Keys!SendKey, Keys!BreaklessKey
  <2> QED BY <2>1, EjectPressed
<1>4. CASE ~ q.off /\ k \in Keys!BreaklessKey \cup {"caps"}
  <2>1. r = q
    BY <1>4 DEF Keys!SendKey, Keys!BreaklessKey
  <2> QED BY <1>1, <2>1
<1>5. CASE ~ q.off /\ ~ (k = "eject" /\ q.mods = {}) /\ k \notin Keys!BreaklessKey \cup {"caps"}
  <2> DEFINE c == Keys!Mapped(q, k)
             t == q.timer /\ ~ (k = "eject" /\ ~ TRUE /\ q.mods = {})
             m == [q EXCEPT !.client = q.client \cup {c}]
  <2>1. r = [m EXCEPT !.timer = t]
    BY <1>5 DEF Keys!SendKey
  <2>2. c = k \/ (k = "f1" /\ c = "f1special")
    BY DEF Keys!Mapped
  <2>3. t \in BOOLEAN /\ (t => q.timer)
    BY DriverFields DEF Good
  <2> HIDE DEF c, t
  <2>4. c \in Keys!Code /\ c \notin Silent
        /\ (c \in Keys!CanStick \cup E \/ (c = "prtsc" /\ "touchpad" \in E))
    <3>1. CASE c = k
      BY <1>5, <3>1 DEF Keys!Code
    <3>2. CASE k = "f1" /\ c = "f1special"
      BY <3>2 DEF Keys!Code, Silent, Keys!CanStick
    <3> QED BY <2>2, <3>1, <3>2
  <2>5. Fine(m, q, E)
    BY <2>4, FineMore
  <2>51. DrvIs(m, q.mods, q.client \cup {c}, q.timer, q.func, q.off, q.fkeymode, q.asks)
    <3>1. q \in Keys!Driver /\ q.client \cup {c} \in SUBSET Keys!Code
      BY <2>4, DriverFields DEF Good
    <3> QED BY <3>1, ClientSet
  <2>6. m \in Keys!Driver
    BY <2>5 DEF Fine, Good
  <2> HIDE DEF m
  <2>7. DrvIs([m EXCEPT !.timer = t], m.mods, m.client, t, m.func, m.off, m.fkeymode, m.asks)
    BY <2>3, <2>6, TimerSet
  <2> HIDE DEF r
  <2>8. Fine(r, q, E)
    BY <2>1, <2>3, <2>5, <2>51, <2>7 DEF DrvIs, Good, Timed, Fine, NoSleep
  <2> QED BY <2>8 DEF r
<1> QED BY <1>2, <1>3, <1>4, <1>5

(* After a press, what is true of the keys D that were down is true of the *)
(* keys E that are; only the sleep key asks for sleep.                     *)
LEMMA DispatchDown ==
    ASSUME NEW D, NEW d, Good(d, D), NEW held, NEW k \in Keys!AnyKey, NEW E, D \subseteq E,
           k \in E \cup Keys!BreaklessKey
    PROVE  LET r == Keys!Dispatch(d, held, k, TRUE)
           IN  Good(r, E) /\ (k # "sleep" => NoSleep(r, d))
<1> DEFINE r == Keys!Dispatch(d, held, k, TRUE)
           q == Keys!Track(d, k, TRUE)
<1>1. Tracked(q, d, D, E)
  BY TrackDown
<1>2. Cases(r, q, d, held, k, TRUE)
  BY DispatchIs
<1>3. Good(q, E) /\ q.asks = d.asks
  BY <1>1 DEF Tracked, Good, Held, Timed
<1> HIDE DEF r, q
<1>4. SUFFICES (k # "sleep" => Fine(r, q, E)) /\ (k = "sleep" => Good(r, E))
  BY <1>3 DEF r, Fine, NoSleep
<1>5. Fine(q, q, E)
  BY <1>3, FineSelf
<1>6. CASE k = "header"
  <2>1. r = d
    BY <1>2, <1>6 DEF Cases
  <2>2. q = d
    BY <1>6 DEF q, Keys!Track, Keys!Modifier
  <2> QED BY <1>5, <1>6, <2>1, <2>2
<1>7. CASE (k = "numlock" /\ Keys!Has("numlock")) \/ (k = "plus" /\ Backlight(q))
  <2>1. r = q
    BY <1>2, <1>7 DEF Cases
  <2> QED BY <1>5, <1>7, <2>1
<1>8. CASE k = "plus" /\ ~ Backlight(q) /\ Brightness(q)
  <2>1. r = Keys!BrightnessKey(q, held, TRUE)
    BY <1>2, <1>8 DEF Cases
  <2>2. Keys!AllHeld(q, {"lctrl", "lshift"}) /\ D \subseteq E \cup {"plus"}
    BY <1>8 DEF Brightness
  <2>3. Bright(r, q, held)
    BY <2>1 DEF Bright
  <2>4. Good(r, E) /\ r.asks = d.asks
    BY <1>1, <2>2, <2>3, BrightnessHack
  <2> QED BY <1>3, <1>8, <2>4 DEF Fine, NoSleep
<1>9. CASE k = "del" /\ Reset(q)
  <2>1. r = q
    BY <1>2, <1>9 DEF Cases, Keys!CtrlAltDelete
  <2> QED BY <1>5, <1>9, <2>1
<1>10. CASE k = "sleep"
  <2>1. r = Keys!SleepKey(q, TRUE)
    BY <1>2, <1>10 DEF Cases
  <2>2. "sleep" \in E
    BY <1>10 DEF Keys!BreaklessKey
  <2> QED BY <1>3, <1>10, <2>1, <2>2, SleepDown
<1>11. CASE k \in {"sysrq", "touchpad"}
  <2> DEFINE f == Keys!ForceAlt(q)
  <2>1. Tracked(f, d, D, E)
    BY <1>1, AltForced
  <2> HIDE DEF f
  <2>2. Good(f, E) /\ f.asks = q.asks
    BY <1>3, <2>1 DEF Tracked, Good, Held, Timed
  <2>3. CASE Keys!Has("prntscr")
    <3>1. r = Keys!PrntScr(f, TRUE)
      BY <1>2, <1>11, <2>3 DEF Cases, f
    <3>2. Fine(r, f, E)
      BY <2>2, <3>1, PrntScrDown
    <3> QED BY <1>11, <2>2, <3>2 DEF Fine, NoSleep
  <2>4. CASE k = "touchpad" /\ ~ Keys!Has("prntscr")
    <3>1. r = Keys!SendKey(f, "prtsc", TRUE)
      BY <1>2, <2>4 DEF Cases, f
    <3>2. "prtsc" \in Keys!AnyKey /\ "prtsc" \notin Silent /\ "touchpad" \in E
      BY <2>4 DEF Keys!AnyKey, Keys!Special, Silent, Keys!BreaklessKey
    <3>3. Fine(r, f, E)
      BY <2>2, <3>1, <3>2, SendDown
    <3> QED BY <1>11, <2>2, <3>3 DEF Fine, NoSleep
  <2>5. CASE k = "sysrq" /\ ~ Keys!Has("prntscr")
    <3>1. r = Keys!SendKey(q, k, TRUE)
      BY <1>2, <2>5 DEF Cases, Special
    <3>2. k \notin Silent
      BY <2>5 DEF Silent
    <3>3. Fine(r, q, E)
      BY <1>3, <3>1, <3>2, SendDown
    <3> QED BY <1>11, <3>3
  <2> QED BY <1>11, <2>3, <2>4, <2>5
<1>12. CASE k = "prtsc" /\ Keys!Has("prntscr")
  <2>1. r = Keys!PrntScr(q, TRUE)
    BY <1>2, <1>12 DEF Cases
  <2> QED BY <1>3, <1>12, <2>1, PrntScrDown
<1>13. CASE k = "fkeys"
  <2>1. r = Keys!FKeysToggle(q, TRUE)
    BY <1>2, <1>13 DEF Cases
  <2> QED BY <1>5, <1>13, <2>1, FKeysDown
<1>14. CASE ~ Special(q, k)
  <2>1. r = Keys!SendKey(q, k, TRUE)
    BY <1>2, <1>14 DEF Cases
  <2>2. k \in Keys!BreaklessKey \cup {"caps"} \/ k \notin Silent
    BY <1>14 DEF Special, Silent, Keys!BreaklessKey
  <2>3. k # "sleep"
    BY <1>14 DEF Special
  <2> QED BY <1>3, <2>1, <2>2, <2>3, SendDown
<1> QED BY <1>6, <1>7, <1>8, <1>9, <1>10, <1>11, <1>12, <1>13, <1>14 DEF Special

-----------------------------------------------------------------------------
(***************************************************************************)
(* The inductive invariant, and the actions                                *)
(***************************************************************************)

KeysInv == Keys!TypeOK /\ Good(drv, down)

(* What a step that ends in state d leaves behind *)
LEMMA Becoming ==
    ASSUME NEW d, NEW D, Good(d, D), Keys!Become(d), down' = D,
           D \subseteq Keys!KeyPresent \ Keys!BreaklessKey
    PROVE  KeysInv' /\ event' = d.asks
<1> DEFINE q == Keys!Quiet(d)
<1>1. d \in Keys!Driver /\ d.asks \in SUBSET Keys!Request /\ {} \in SUBSET Keys!Request
  BY DriverFields DEF Good
<1>2. drv' = q /\ event' = d.asks
  BY DEF Keys!Become
<1>3. q = [d EXCEPT !.asks = {}]
  BY DEF Keys!Quiet
<1> HIDE DEF q
<1>4. DrvIs(q, d.mods, d.client, d.timer, d.func, d.off, d.fkeymode, {})
  BY <1>1, <1>3, AsksSet
<1>5. Good(q, D) /\ q.asks = {} /\ q \in Keys!Driver
  BY <1>4 DEF DrvIs, Good, Timed
<1>6. Good(drv, down)'
  <2>1. Good(drv', down')
    BY <1>2, <1>5
  <2> QED BY <2>1 DEF Good, Held, Shift, Timed
<1>7. /\ down' \subseteq Keys!KeyPresent \ Keys!BreaklessKey
      /\ drv' \in Keys!Driver /\ drv'.asks = {} /\ event' \subseteq Keys!Request
  BY <1>1, <1>2, <1>5
<1>8. Keys!TypeOK'
  BY <1>7 DEF Keys!TypeOK
<1> QED BY <1>2, <1>6, <1>8 DEF KeysInv

(* The invariant holds before the first key. *)
LEMMA KeysStart ==
    Keys!Init => KeysInv
<1> SUFFICES ASSUME Keys!Init PROVE KeysInv
  OBVIOUS
<1>1. drv \in Keys!Driver /\ drv.asks = {} /\ drv.client = {} /\ drv.mods = {} /\ ~ drv.timer
  BY DEF Keys!Init, Keys!Driver
<1>2. Good(drv, down)
  BY <1>1 DEF Good, Held, Shift, Timed
<1>3. Keys!TypeOK
  BY <1>1 DEF Keys!TypeOK, Keys!Init
<1> QED BY <1>2, <1>3 DEF KeysInv

(* What every step leaves behind *)
Step == KeysInv' /\ ("sleep" \in event' => "sleep" \in down')

(* The keyboard has only keys that the model knows. *)
LEMMA PresentKeys ==
    ASSUME Keys!Assumptions
    PROVE  Keys!KeyPresent \subseteq Keys!AnyKey
BY DEF Keys!Assumptions, Keys!KeyPresent, Keys!ToSet

(* One lemma for each action: a key is pressed, ... *)
LEMMA PressSteps ==
    ASSUME Keys!Assumptions, KeysInv, NEW k \in Keys!KeyPresent, Keys!Press(k)
    PROVE  Step
<1> DEFINE E == IF k \in Keys!BreaklessKey THEN down ELSE down \cup {k}
           r == Keys!Dispatch(drv, E, k, TRUE)
<1>1. down' = E /\ Keys!Become(r)
  BY DEF Keys!Press
<1>2. /\ k \in Keys!AnyKey /\ down \subseteq E /\ k \in E \cup Keys!BreaklessKey
      /\ E \subseteq Keys!KeyPresent \ Keys!BreaklessKey
      /\ k = "sleep" => "sleep" \in E
  BY PresentKeys DEF KeysInv, Keys!TypeOK, Keys!BreaklessKey
<1>3. Good(drv, down) /\ "sleep" \notin drv.asks
  BY DEF KeysInv, Keys!TypeOK
<1> HIDE DEF E
<1>4. Good(r, E) /\ (k # "sleep" => NoSleep(r, drv))
  BY <1>2, <1>3, DispatchDown
<1> HIDE DEF r
<1>5. KeysInv' /\ event' = r.asks
  BY <1>1, <1>2, <1>4, Becoming
<1> QED BY <1>1, <1>2, <1>3, <1>4, <1>5 DEF Step, NoSleep

(* ... a key is released, ... *)
LEMMA ReleaseSteps ==
    ASSUME Keys!Assumptions, KeysInv, NEW k \in Keys!KeyPresent, Keys!Release(k)
    PROVE  Step
<1> DEFINE E == down \ {k}
           r == Keys!Dispatch(drv, E, k, FALSE)
<1>1. down' = E /\ Keys!Become(r)
  BY DEF Keys!Release
<1>2. k \in Keys!AnyKey /\ E \subseteq Keys!KeyPresent \ Keys!BreaklessKey
  BY PresentKeys DEF KeysInv, Keys!TypeOK
<1>3. Good(drv, down) /\ "sleep" \notin drv.asks /\ Command \in {"lalt", "lwin"}
  BY DEF KeysInv, Keys!TypeOK, Keys!Assumptions
<1>4. Good(r, down \ {k}) /\ NoSleep(r, drv)
  <2> HIDE DEF E
  <2> QED BY <1>2, <1>3, DispatchUp
<1> HIDE DEF r
<1>5. KeysInv' /\ event' = r.asks
  BY <1>1, <1>2, <1>4, Becoming
<1> QED BY <1>3, <1>4, <1>5 DEF Step, NoSleep

(* ... the timer fires, ... *)
LEMMA TimerSteps ==
    ASSUME KeysInv, Keys!TimerFires
    PROVE  Step
<1> DEFINE s == [drv EXCEPT !.timer = FALSE]
           r == Keys!OnSleepEjectTimer(s)
<1>1. down' = down /\ Keys!Become(r) /\ drv.timer
  BY DEF Keys!TimerFires
<1>2. Good(drv, down) /\ "sleep" \notin drv.asks /\ drv \in Keys!Driver /\ FALSE \in BOOLEAN
      /\ down \subseteq Keys!KeyPresent \ Keys!BreaklessKey
  BY DEF KeysInv, Keys!TypeOK
<1>3. DrvIs(s, drv.mods, drv.client, FALSE, drv.func, drv.off, drv.fkeymode, drv.asks)
  BY <1>2, TimerSet
<1> HIDE DEF s
<1>4. Good(s, down) /\ s.asks = drv.asks /\ s.func = drv.func
  BY <1>2, <1>3 DEF DrvIs, Good, Timed
<1>5. Good(r, down) /\ (s.func # "sleep" => NoSleep(r, s))
  BY <1>4, TimerDone
<1>6. s.func = "sleep" => "sleep" \in down
  BY <1>1, <1>2, <1>4 DEF Good, Timed
<1> HIDE DEF r
<1>7. KeysInv' /\ event' = r.asks
  BY <1>1, <1>2, <1>5, Becoming
<1> QED BY <1>1, <1>2, <1>4, <1>5, <1>6, <1>7 DEF Step, NoSleep

(* ... the mode of the function keys changes, ... *)
LEMMA ModeSteps ==
    ASSUME KeysInv, NEW mode \in BOOLEAN, Keys!SetFKeyMode(mode)
    PROVE  Step
<1> DEFINE r == [drv EXCEPT !.fkeymode = mode]
<1>1. down' = down /\ Keys!Become(r)
  BY DEF Keys!SetFKeyMode
<1>2. Good(drv, down) /\ "sleep" \notin drv.asks /\ drv \in Keys!Driver
      /\ down \subseteq Keys!KeyPresent \ Keys!BreaklessKey
  BY DEF KeysInv, Keys!TypeOK
<1>3. DrvIs(r, drv.mods, drv.client, drv.timer, drv.func, drv.off, mode, drv.asks)
  BY <1>2, FKeyModeSet
<1> HIDE DEF r
<1>4. Good(r, down) /\ r.asks = drv.asks
  BY <1>2, <1>3 DEF DrvIs, Good, Timed
<1>5. KeysInv' /\ event' = r.asks
  BY <1>1, <1>2, <1>4, Becoming
<1> QED BY <1>2, <1>4, <1>5 DEF Step

(* ... another driver disables or enables the keyboard. *)
LEMMA StatusSteps ==
    ASSUME KeysInv, NEW enable \in BOOLEAN, Keys!SetKeyboardStatus(enable)
    PROVE  Step
<1> DEFINE off == ~ enable
           r == [drv EXCEPT !.off = off]
<1>1. down' = down /\ Keys!Become(r)
  BY DEF Keys!SetKeyboardStatus
<1>2. Good(drv, down) /\ "sleep" \notin drv.asks /\ drv \in Keys!Driver /\ off \in BOOLEAN
      /\ down \subseteq Keys!KeyPresent \ Keys!BreaklessKey
  BY DEF KeysInv, Keys!TypeOK
<1> HIDE DEF off
<1>3. DrvIs(r, drv.mods, drv.client, drv.timer, drv.func, off, drv.fkeymode, drv.asks)
  BY <1>2, OffSet
<1> HIDE DEF r
<1>4. Good(r, down) /\ r.asks = drv.asks
  BY <1>2, <1>3 DEF DrvIs, Good, Timed
<1>5. KeysInv' /\ event' = r.asks
  BY <1>1, <1>2, <1>4, Becoming
<1> QED BY <1>2, <1>4, <1>5 DEF Step

(* The keys of the first i key codes *)
Done(i) == {ScanOrder[j] : j \in 1 .. i}

(* The rounds of initKeyboard *)
Round == [i \in Nat |-> [d \in Keys!Driver |->
             IF i \in 1 .. Len(ScanOrder) /\ ScanOrder[i] \in down
                /\ Keys!Dispatch(d, down, ScanOrder[i], FALSE) \in Keys!Driver
             THEN Keys!Dispatch(d, down, ScanOrder[i], FALSE) ELSE d]]

(* After each round the keys of the codes so far are up, for the HID       *)
(* system as well.                                                         *)
LEMMA RoundsEnd ==
    ASSUME Keys!Assumptions, KeysInv
    PROVE  \E f \in [0 .. Len(ScanOrder) -> Keys!Driver] :
             /\ Loop(f, Len(ScanOrder), drv, Round)
             /\ \A i \in 0 .. Len(ScanOrder) : Good(f[i], down \ Done(i)) /\ NoSleep(f[i], drv)
<1> DEFINE n == Len(ScanOrder)
<1>1. n \in Nat /\ ScanOrder \in Seq(Keys!AnyKey)
  BY DEF Keys!Assumptions
<1>2. drv \in Keys!Driver
  BY DEF KeysInv, Keys!TypeOK
<1>3. Round \in [Nat -> [Keys!Driver -> Keys!Driver]]
  BY DEF Round
<1> HIDE DEF n
<1>4. PICK f \in [0 .. n -> Keys!Driver] : Loop(f, n, drv, Round)
  BY <1>1, <1>2, <1>3, LoopEnds
<1> DEFINE P(i) == i \in 0 .. n => Good(f[i], down \ Done(i)) /\ NoSleep(f[i], drv)
           S == {i \in Nat : P(i)}
<1>5. 0 \in S
  <2>1. f[0] = drv
    BY <1>1, <1>4 DEF Loop
  <2>2. down \ Done(0) = down
    BY DEF Done
  <2>3. Good(drv, down) /\ NoSleep(drv, drv)
    BY DEF KeysInv, NoSleep
  <2> QED BY <2>1, <2>2, <2>3
<1>6. ASSUME NEW i \in Nat, i \in S PROVE i + 1 \in S
  <2> SUFFICES ASSUME i + 1 \in 0 .. n
               PROVE  Good(f[i + 1], down \ Done(i + 1)) /\ NoSleep(f[i + 1], drv)
    OBVIOUS
  <2> DEFINE k == ScanOrder[i + 1]
             r == Keys!Dispatch(f[i], down, k, FALSE)
  <2>1. i \in 0 .. n /\ i + 1 \in 1 .. n
    BY <1>1
  <2>2. Good(f[i], down \ Done(i)) /\ NoSleep(f[i], drv)
    BY <1>6, <2>1
  <2>3. k \in Keys!AnyKey
    BY <1>1, <2>1 DEF n
  <2>4. Command \in {"lalt", "lwin"}
    BY DEF Keys!Assumptions
  <2>5. down \ Done(i + 1) = (down \ Done(i)) \ {k}
    <3>1. Done(i + 1) = Done(i) \cup {k}
      <4>1. 1 .. i + 1 = (1 .. i) \cup {i + 1}
        OBVIOUS
      <4> QED BY <4>1 DEF Done
    <3> QED BY <3>1
  <2>6. f[i + 1] = Round[i + 1][f[i]]
    <3>1. f[i + 1] = IF i + 1 = 0 THEN drv ELSE Round[i + 1][f[(i + 1) - 1]]
      BY <1>4 DEF Loop
    <3>2. (i + 1) - 1 = i /\ i + 1 # 0
      OBVIOUS
    <3> QED BY <3>1, <3>2, Zenon
  <2>7. f[i] \in Keys!Driver
    BY <2>1
  <2>8. f[i + 1] = IF k \in down /\ r \in Keys!Driver THEN r ELSE f[i]
    <3>1. i + 1 \in Nat /\ i + 1 \in 1 .. Len(ScanOrder)
      BY <2>1 DEF n
    <3> QED BY <2>6, <2>7, <3>1 DEF Round
  <2> HIDE DEF k
  <2>9. Good(r, (down \ Done(i)) \ {k}) /\ NoSleep(r, f[i])
    BY <2>2, <2>3, <2>4, DispatchUp
  <2>10. CASE k \in down
    <3>1. f[i + 1] = r
      BY <2>8, <2>9, <2>10 DEF Good
    <3> HIDE DEF r
    <3> QED BY <2>2, <2>5, <2>9, <3>1 DEF NoSleep
  <2>11. CASE k \notin down
    <3>1. f[i + 1] = f[i] /\ down \ Done(i + 1) = down \ Done(i)
      BY <2>5, <2>8, <2>11
    <3> QED BY <2>2, <3>1
  <2> QED BY <2>10, <2>11
<1>7. Nat \subseteq S
  <2> HIDE DEF S
  <2> QED BY <1>5, <1>6, Induct
<1>8. \A i \in 0 .. n : Good(f[i], down \ Done(i)) /\ NoSleep(f[i], drv)
  <2> TAKE i \in 0 .. n
  <2>1. i \in Nat
    BY <1>1
  <2>2. i \in S
    <3> HIDE DEF S
    <3> QED BY <1>7, <2>1
  <2> QED BY <2>2
<1> QED BY <1>4, <1>8 DEF n

(* The loop of initKeyboard, as KeyboardDispatch writes it *)
Runs(f) ==
    f = [i \in 0 .. Len(ScanOrder) |->
           IF i = 0 THEN drv
           ELSE IF ScanOrder[i] \in down
                THEN Keys!Dispatch(f[i - 1], down, ScanOrder[i], FALSE)
                ELSE f[i - 1]]

(* What InitKeyboard takes it to be *)
AllUp == CHOOSE f : Runs(f)

(* There is one way to run the loop, ... *)
LEMMA OneRun ==
    ASSUME Keys!Assumptions, NEW f, Runs(f), NEW g, Runs(g)
    PROVE  f = g
<1> DEFINE n == Len(ScanOrder)
           S == {i \in Nat : i \in 0 .. n => f[i] = g[i]}
<1>1. n \in Nat
  BY DEF Keys!Assumptions
<1> HIDE DEF n
<1>2. 0 \in S
  BY <1>1 DEF Runs, n
<1>3. ASSUME NEW i \in Nat, i \in S PROVE i + 1 \in S
  <2> SUFFICES ASSUME i + 1 \in 0 .. n PROVE f[i + 1] = g[i + 1]
    OBVIOUS
  <2>1. f[i] = g[i]
    BY <1>1, <1>3
  <2>2. i + 1 > 0 /\ (i + 1) - 1 = i /\ i + 1 # 0
    OBVIOUS
  <2>3. CASE ScanOrder[i + 1] \in down
    <3>1. f[i + 1] = Keys!Dispatch(f[i], down, ScanOrder[i + 1], FALSE)
      BY <2>2, <2>3 DEF Runs, n
    <3>2. g[i + 1] = Keys!Dispatch(g[i], down, ScanOrder[i + 1], FALSE)
      BY <2>2, <2>3 DEF Runs, n
    <3> QED BY <2>1, <3>1, <3>2
  <2>4. CASE ScanOrder[i + 1] \notin down
    <3>1. f[i + 1] = f[i] /\ g[i + 1] = g[i]
      BY <2>2, <2>4 DEF Runs, n
    <3> QED BY <2>1, <3>1
  <2> QED BY <2>3, <2>4
<1>4. Nat \subseteq S
  <2> HIDE DEF S
  <2> QED BY <1>2, <1>3, Induct
<1>5. \A i \in 0 .. n : f[i] = g[i]
  <2> TAKE i \in 0 .. n
  <2>1. i \in S
    BY <1>1, <1>4
  <2> QED BY <2>1
<1> QED BY <1>5 DEF Runs, n

(* ... and it ends with no ordinary key down. *)
LEMMA AllUpEnds ==
    ASSUME Keys!Assumptions, KeysInv
    PROVE  /\ Good(AllUp[Len(ScanOrder)], {})
           /\ NoSleep(AllUp[Len(ScanOrder)], drv)
<1> DEFINE n == Len(ScanOrder)
           u == AllUp
<1>1. n \in Nat /\ ScanOrder \in Seq(Keys!AnyKey)
  BY DEF Keys!Assumptions
<1>2. PICK f \in [0 .. n -> Keys!Driver] :
         /\ Loop(f, n, drv, Round)
         /\ \A i \in 0 .. n : Good(f[i], down \ Done(i)) /\ NoSleep(f[i], drv)
  BY RoundsEnd
<1>3. Runs(f)
  <2>1. ASSUME NEW i \in 0 .. n
        PROVE  f[i] = IF i = 0 THEN drv
                      ELSE IF ScanOrder[i] \in down
                           THEN Keys!Dispatch(f[i - 1], down, ScanOrder[i], FALSE)
                           ELSE f[i - 1]
    <3>1. CASE i = 0
      BY <1>2, <3>1 DEF Loop
    <3>2. CASE i > 0
      <4> DEFINE k == ScanOrder[i]
                 r == Keys!Dispatch(f[i - 1], down, k, FALSE)
      <4>1. i \in 1 .. Len(ScanOrder) /\ i \in Nat /\ i - 1 \in 0 .. n /\ k \in Keys!AnyKey
        BY <1>1, <3>2
      <4>2. Good(f[i - 1], down \ Done(i - 1)) /\ f[i - 1] \in Keys!Driver
        BY <1>2, <4>1
      <4>3. Command \in {"lalt", "lwin"}
        BY DEF Keys!Assumptions
      <4>4. r \in Keys!Driver
        <5> HIDE DEF k
        <5>1. Good(r, (down \ Done(i - 1)) \ {k})
          BY <4>1, <4>2, <4>3, DispatchUp
        <5> QED BY <5>1 DEF Good
      <4>5. f[i] = Round[i][f[i - 1]]
        BY <1>2, <3>2 DEF Loop
      <4>6. f[i] = IF k \in down THEN r ELSE f[i - 1]
        BY <4>1, <4>2, <4>4, <4>5 DEF Round
      <4>7. CASE k \in down
        <5>1. f[i] = r
          BY <4>6, <4>7
        <5> QED BY <3>2, <4>7, <5>1
      <4>8. CASE k \notin down
        <5>1. f[i] = f[i - 1]
          BY <4>6, <4>8
        <5> QED BY <3>2, <4>8, <5>1
      <4> QED BY <4>7, <4>8
    <3> QED BY <1>1, <3>1, <3>2
  <2> QED BY <2>1 DEF Runs
<1>4. Runs(u)
  <2>1. u = CHOOSE g : Runs(g)
    BY DEF AllUp
  <2> HIDE DEF u
  <2> QED BY <1>3, <2>1
<1>5. u = f
  <2> HIDE DEF u
  <2> QED BY <1>3, <1>4, OneRun
<1>6. n \in 0 .. n
  BY <1>1
<1>7. Good(f[n], down \ Done(n)) /\ NoSleep(f[n], drv)
  BY <1>2, <1>6
<1>8. down \ Done(n) = {}
  <2>1. Keys!KeyPresent = Done(n)
    BY <1>1 DEF Keys!KeyPresent, Keys!ToSet, Done
  <2>2. down \subseteq Keys!KeyPresent
    BY DEF KeysInv, Keys!TypeOK
  <2> QED BY <2>1, <2>2
<1> QED BY <1>5, <1>7, <1>8

(* initKeyboard, on a wake *)
LEMMA WakeSteps ==
    ASSUME Keys!Assumptions, KeysInv, Keys!InitKeyboard
    PROVE  Step
<1> DEFINE u == AllUp[Len(ScanOrder)]
           r == [u EXCEPT !.mods = {}]
<1>1. down' = {} /\ Keys!Become(r)
  BY DEF Keys!InitKeyboard, AllUp, Runs
<1>2. Good(u, {}) /\ NoSleep(u, drv)
  BY AllUpEnds
<1> HIDE DEF u
<1>3. u \in Keys!Driver /\ {} \in SUBSET Keys!Modifier /\ "sleep" \notin u.asks
  BY <1>2 DEF Good, KeysInv, Keys!TypeOK, NoSleep
<1>4. DrvIs(r, {}, u.client, u.timer, u.func, u.off, u.fkeymode, u.asks)
  BY <1>3, ModsSet
<1> HIDE DEF r
<1>5. Good(r, {}) /\ r.asks = u.asks
  BY <1>2, <1>4 DEF DrvIs, Good, Shift, Timed
<1>6. KeysInv' /\ event' = r.asks
  BY <1>1, <1>5, Becoming
<1> QED BY <1>3, <1>5, <1>6 DEF Step

(* Every step keeps the invariant, and asks for sleep only while the sleep *)
(* key is held.                                                            *)
LEMMA KeysStep ==
    ASSUME Keys!Assumptions, KeysInv, Keys!Next
    PROVE  Step
BY PressSteps, ReleaseSteps, TimerSteps, ModeSteps, StatusSteps, WakeSteps DEF Keys!Next

(* The inductive invariant of the key dispatch holds in every state        *)
(* (dispatchKeyboardEventWithPacket, onSleepEjectTimer, initKeyboard).     *)
THEOREM KeysInvariant == Keys!Spec => []KeysInv
<1>1. Keys!Init => KeysInv
  BY KeysStart
<1>2. KeysInv /\ [Keys!Next]_Keys!vars => KeysInv'
  <2> SUFFICES ASSUME KeysInv, [Keys!Next]_Keys!vars PROVE KeysInv'
    OBVIOUS
  <2>1. CASE Keys!Next
    BY <2>1, KeysStep, KeysAssumption DEF Step
  <2>2. CASE UNCHANGED Keys!vars
    BY <2>2 DEF Keys!vars, KeysInv, Keys!TypeOK, Good, Held, Shift, Timed
  <2> QED BY <2>1, <2>2
<1> QED BY <1>1, <1>2, PTL DEF Keys!Spec

(* The driver as a whole does what its two halves do. *)
THEOREM KeyboardHalves == KeyboardSpec => Input!Spec /\ Keys!Spec
<1>1. KeyboardInit => Input!Init /\ Keys!Init
  BY DEF KeyboardInit
<1>2. [KeyboardNext]_<<half, inputVars, dispatchVars>>
        => [Input!Next]_Input!vars /\ [Keys!Next]_Keys!vars
  BY DEF KeyboardNext, inputVars, dispatchVars, Input!vars, Keys!vars
<1> QED BY <1>1, <1>2, PTL DEF KeyboardSpec, Input!Spec, Keys!Spec

(* For every keyboard and all settings, an ordinary key that is down for   *)
(* the HID system is down on the keyboard                                  *)
(* (dispatchKeyboardEventWithPacket, initKeyboard).                        *)
THEOREM KeysNeverStick == KeyboardSpec => []OrdinaryKeysNeverStick
<1>1. KeysInv => OrdinaryKeysNeverStick
  BY DEF KeysInv, Good, Held, OrdinaryKeysNeverStick, Keys!OrdinaryKeysNeverStick, Keys!Names
<1> QED BY <1>1, KeysInvariant, KeyboardHalves, PTL

(* The machine is put to sleep only while the sleep key is held, although  *)
(* the eject key shares its timer (onSleepEjectTimer).                     *)
THEOREM SleepIsHeld == KeyboardSpec => SleepNeedsHold
<1>1. KeysInv /\ [Keys!Next]_Keys!vars => ["sleep" \in event' => "sleep" \in down']_Keys!vars
  BY KeysStep, KeysAssumption DEF Step
<1> QED BY <1>1, KeysInvariant, KeyboardHalves, PTL DEF Keys!Spec, SleepNeedsHold, Keys!SleepNeedsHold

-----------------------------------------------------------------------------
(***************************************************************************)
(* Sequences of sequences                                                  *)
(***************************************************************************)

(* f is the loop by which FlattenSeq goes through s. *)
Flattens(f, s) ==
    f = [i \in 1 .. Len(s) |-> IF i = 1 THEN s[i] ELSE f[i - 1] \o s[i]]

(* Append, as a function *)
LEMMA AppendIs ==
    ASSUME NEW S, NEW s \in Seq(S), NEW x \in S
    PROVE  Append(s, x) = [i \in 1 .. Len(s) + 1 |-> IF i = Len(s) + 1 THEN x ELSE s[i]]
<1> DEFINE t == Append(s, x)
           n == Len(s)
<1>1. /\ n \in Nat /\ t \in Seq(S) /\ Len(t) = n + 1 /\ t[n + 1] = x
      /\ \A i \in 1 .. n : t[i] = s[i]
  OBVIOUS
<1> HIDE DEF t, n
<1>2. t = [i \in 1 .. n + 1 |-> t[i]]
  BY <1>1
<1>3. ASSUME NEW i \in 1 .. n + 1 PROVE t[i] = IF i = n + 1 THEN x ELSE s[i]
  <2>1. CASE i # n + 1
    <3>1. i \in 1 .. n
      BY <1>1, <2>1
    <3> QED BY <1>1, <2>1, <3>1
  <2> QED BY <1>1, <2>1
<1> QED BY <1>2, <1>3 DEF t, n

(* There is such a loop, and it stays among the sequences. *)
LEMMA FlattenEnds ==
    ASSUME NEW S, NEW s \in Seq(Seq(S)), s # << >>
    PROVE  \E f \in [1 .. Len(s) -> Seq(S)] : Flattens(f, s)
<1> DEFINE n == Len(s)
           D == Seq(S)
           G == [i \in Nat |-> [d \in D |-> IF i \in 1 .. n THEN d \o s[i] ELSE d]]
<1>1. n \in Nat /\ n > 0 /\ << >> \in D
  BY EmptySeq
<1>2. \A i \in 1 .. n : s[i] \in D
  OBVIOUS
<1>3. G \in [Nat -> [D -> D]]
  <2>1. ASSUME NEW i \in Nat, NEW d \in D PROVE (IF i \in 1 .. n THEN d \o s[i] ELSE d) \in D
    BY <1>2, ConcatProperties
  <2> QED BY <2>1
<1>4. PICK h \in [0 .. n -> D] : Loop(h, n, << >>, G)
  <2> HIDE DEF n, D, G
  <2> QED BY <1>1, <1>3, LoopEnds
<1> DEFINE f == [i \in 1 .. n |-> h[i]]
<1>5. f \in [1 .. n -> D]
  BY <1>1
<1>6. ASSUME NEW i \in 1 .. n
      PROVE  f[i] = IF i = 1 THEN s[i] ELSE f[i - 1] \o s[i]
  <2>1. h[i] = G[i][h[i - 1]] /\ h[i - 1] \in D /\ i \in Nat
    <3>1. i \in 0 .. n /\ i # 0 /\ i - 1 \in 0 .. n /\ i \in Nat
      BY <1>1
    <3> HIDE DEF G, n, D
    <3>2. h[i] = IF i = 0 THEN << >> ELSE G[i][h[i - 1]]
      BY <1>4, <3>1 DEF Loop
    <3> QED BY <1>4, <3>1, <3>2
  <2>2. h[i] = h[i - 1] \o s[i]
    BY <2>1
  <2>3. CASE i = 1
    <3>1. h[i - 1] = << >>
      <4> HIDE DEF G
      <4> QED BY <1>1, <1>4, <2>3 DEF Loop
    <3>2. h[i - 1] \o s[i] = s[i]
      BY <1>2, <3>1, ConcatEmptySeq
    <3> QED BY <2>2, <2>3, <3>2
  <2>4. CASE i # 1
    <3>1. i - 1 \in 1 .. n
      BY <1>1, <2>4
    <3> QED BY <2>2, <2>4, <3>1
  <2> QED BY <2>3, <2>4
<1>7. Flattens(f, s)
  <2> HIDE DEF f
  <2>1. f = [i \in 1 .. n |-> f[i]]
    BY <1>5
  <2> QED BY <1>6, <2>1 DEF Flattens
<1> HIDE DEF f, D
<1> QED BY <1>5, <1>7 DEF D

(* There is only one. *)
LEMMA FlattenOnce ==
    ASSUME NEW s, Len(s) \in Nat, NEW f, Flattens(f, s), NEW g, Flattens(g, s)
    PROVE  f = g
<1> DEFINE n == Len(s)
           T == {i \in Nat : i \in 1 .. n => f[i] = g[i]}
<1> HIDE DEF n
<1>1. n \in Nat
  BY DEF n
<1>2. 0 \in T
  OBVIOUS
<1>3. ASSUME NEW i \in Nat, i \in T PROVE i + 1 \in T
  <2> SUFFICES ASSUME i + 1 \in 1 .. n PROVE f[i + 1] = g[i + 1]
    OBVIOUS
  <2>1. (i + 1) - 1 = i
    OBVIOUS
  <2>2. CASE i = 0
    <3>1. f[1] = s[1] /\ g[1] = s[1]
      BY <1>1, <2>2 DEF Flattens, n
    <3> QED BY <2>2, <3>1
  <2>3. CASE i # 0
    <3>1. i \in 1 .. n /\ i + 1 # 1
      BY <1>1, <2>3
    <3>2. f[i] = g[i]
      BY <1>3, <3>1
    <3>3. f[i + 1] = f[i] \o s[i + 1]
      BY <2>1, <3>1 DEF Flattens, n
    <3>4. g[i + 1] = g[i] \o s[i + 1]
      BY <2>1, <3>1 DEF Flattens, n
    <3> QED BY <3>2, <3>3, <3>4
  <2> QED BY <2>2, <2>3
<1>4. Nat \subseteq T
  <2> HIDE DEF T
  <2> QED BY <1>2, <1>3, Induct
<1>5. \A i \in 1 .. n : f[i] = g[i]
  <2> TAKE i \in 1 .. n
  <2>1. i \in T
    BY <1>1, <1>4
  <2> QED BY <2>1
<1> QED BY <1>5 DEF Flattens, n

(* FlattenSeq is what the loop ends with. *)
LEMMA FlattenIs ==
    ASSUME NEW s, Len(s) \in Nat, Len(s) # 0, NEW f, Flattens(f, s)
    PROVE  Input!FlattenSeq(s) = f[Len(s)]
<1> DEFINE u == CHOOSE g : Flattens(g, s)
<1>1. Flattens(u, s)
  <2> QED BY Zenon
<1>2. Input!FlattenSeq(s) = u[Len(s)]
  BY DEF Input!FlattenSeq, Flattens
<1> HIDE DEF u
<1>3. u = f
  BY <1>1, FlattenOnce
<1> QED BY <1>2, <1>3

(* Nothing flattens to nothing. *)
LEMMA FlattenNone == Input!FlattenSeq(<< >>) = << >>
BY DEF Input!FlattenSeq

(* A sequence at the end is appended. *)
LEMMA FlattenAppend ==
    ASSUME NEW S, NEW s \in Seq(Seq(S)), NEW x \in Seq(S)
    PROVE  /\ Input!FlattenSeq(Append(s, x)) = Input!FlattenSeq(s) \o x
           /\ Input!FlattenSeq(s) \in Seq(S)
           /\ Append(s, x) \in Seq(Seq(S))
<1> DEFINE t == Append(s, x)
           n == Len(s)
<1>0. /\ n \in Nat /\ t \in Seq(Seq(S)) /\ Len(t) = n + 1 /\ t[n + 1] = x
      /\ \A i \in 1 .. n : t[i] = s[i]
  OBVIOUS
<1> HIDE DEF t, n
<1>1. CASE s = << >>
  <2> DEFINE g == [i \in 1 .. 1 |-> x]
  <2>1. n = 0
    BY <1>1 DEF n
  <2>2. Flattens(g, t)
    BY <1>0, <2>1 DEF Flattens
  <2>3. g[1] = x
    OBVIOUS
  <2> HIDE DEF g
  <2>4. Input!FlattenSeq(t) = x
    <3>1. Len(t) = 1 /\ Len(t) \in Nat /\ Len(t) # 0
      BY <1>0, <2>1
    <3>2. Input!FlattenSeq(t) = g[Len(t)]
      BY <2>2, <3>1, FlattenIs
    <3> QED BY <2>3, <3>1, <3>2
  <2>5. Input!FlattenSeq(s) = << >> /\ << >> \o x = x /\ << >> \in Seq(S)
    BY <1>1, FlattenNone, ConcatEmptySeq, EmptySeq
  <2> QED BY <1>0, <2>4, <2>5 DEF t
<1>2. CASE s # << >>
  <2>1. PICK f \in [1 .. n -> Seq(S)] : Flattens(f, s)
    BY <1>2, FlattenEnds DEF n
  <2>2. n # 0
    BY <1>2 DEF n
  <2> DEFINE g == [i \in 1 .. n + 1 |-> IF i \in 1 .. n THEN f[i] ELSE f[n] \o x]
  <2>3. ASSUME NEW i \in 1 .. n + 1
        PROVE  g[i] = IF i = 1 THEN t[i] ELSE g[i - 1] \o t[i]
    <3>1. CASE i = 1
      <4>1. f[1] = s[1]
        BY <1>0, <2>1, <2>2 DEF Flattens, n
      <4>2. g[i] = f[1] /\ t[i] = s[1]
        BY <1>0, <2>2, <3>1
      <4> QED BY <3>1, <4>1, <4>2
    <3>2. CASE i \in 2 .. n
      <4>0. i \in 1 .. n /\ i - 1 \in 1 .. n /\ i # 1
        BY <1>0, <3>2
      <4>1. f[i] = f[i - 1] \o s[i]
        BY <2>1, <4>0 DEF Flattens, n
      <4>2. g[i] = f[i] /\ g[i - 1] = f[i - 1] /\ t[i] = s[i]
        BY <1>0, <4>0
      <4> HIDE DEF g
      <4>3. g[i] = g[i - 1] \o t[i]
        BY <4>1, <4>2
      <4> QED BY <4>0, <4>3
    <3>3. CASE i = n + 1
      <4>1. g[i] = f[n] \o x /\ g[i - 1] = f[n] /\ t[i] = x /\ i # 1
        BY <1>0, <2>2, <3>3
      <4> QED BY <4>1
    <3> QED BY <1>0, <3>1, <3>2, <3>3
  <2>4. Flattens(g, t)
    BY <1>0, <2>3 DEF Flattens
  <2>5. g[n + 1] = f[n] \o x
    BY <1>0
  <2> HIDE DEF g
  <2>6. Input!FlattenSeq(t) = f[n] \o x
    <3>1. Len(t) \in Nat /\ Len(t) # 0
      BY <1>0
    <3>2. Input!FlattenSeq(t) = g[Len(t)]
      BY <2>4, <3>1, FlattenIs
    <3> QED BY <1>0, <2>5, <3>2
  <2>7. Input!FlattenSeq(s) = f[n] /\ f[n] \in Seq(S)
    <3>1. Input!FlattenSeq(s) = f[Len(s)]
      BY <1>0, <2>1, <2>2, FlattenIs DEF n
    <3>2. n \in 1 .. n /\ Len(s) = n
      BY <1>0, <2>2 DEF n
    <3> QED BY <2>1, <3>1, <3>2
  <2> QED BY <1>0, <2>6, <2>7 DEF t
<1> QED BY <1>1, <1>2

(* A sequence at the beginning is prepended. *)
LEMMA FlattenCons ==
    ASSUME NEW S, NEW x \in Seq(S)
    PROVE  \A s \in Seq(Seq(S)) :
              /\ Input!FlattenSeq(<<x>> \o s) = x \o Input!FlattenSeq(s)
              /\ Input!FlattenSeq(s) \in Seq(S)
<1> DEFINE Q == Seq(S)
           T == {n \in Nat : \A s \in Seq(Q) : Len(s) = n =>
                    Input!FlattenSeq(<<x>> \o s) = x \o Input!FlattenSeq(s)}
<1>0. <<x>> \in Seq(Q)
  OBVIOUS
<1>1. 0 \in T
  <2> SUFFICES ASSUME NEW s \in Seq(Q), Len(s) = 0
               PROVE  Input!FlattenSeq(<<x>> \o s) = x \o Input!FlattenSeq(s)
    OBVIOUS
  <2>1. s = << >>
    BY EmptySeq
  <2>2. <<x>> \o s = Append(s, x)
    BY <2>1
  <2>3. Input!FlattenSeq(Append(s, x)) = Input!FlattenSeq(s) \o x
    BY FlattenAppend
  <2>4. Input!FlattenSeq(s) = << >>
    BY <2>1, FlattenNone
  <2>5. << >> \o x = x /\ x \o << >> = x
    BY ConcatEmptySeq
  <2> QED BY <2>2, <2>3, <2>4, <2>5
<1>2. ASSUME NEW n \in Nat, n \in T PROVE n + 1 \in T
  <2> SUFFICES ASSUME NEW s \in Seq(Q), Len(s) = n + 1
               PROVE  Input!FlattenSeq(<<x>> \o s) = x \o Input!FlattenSeq(s)
    <3>1. n + 1 \in Nat
      OBVIOUS
    <3> QED BY <3>1, Zenon
  <2> DEFINE r == SubSeq(s, 1, n)
             y == s[n + 1]
  <2>1. r \in Seq(Q) /\ Len(r) = n /\ y \in Q /\ s = Append(r, y)
    OBVIOUS
  <2> HIDE DEF r, y
  <2>2. Input!FlattenSeq(<<x>> \o r) = x \o Input!FlattenSeq(r)
    BY <1>2, <2>1
  <2>3. <<x>> \o r \in Seq(Q) /\ <<x>> \o s = Append(<<x>> \o r, y)
    BY <1>0, <2>1
  <2> HIDE DEF Q, T
  <2>4. Input!FlattenSeq(<<x>> \o s) = Input!FlattenSeq(<<x>> \o r) \o y
    BY <2>1, <2>3, FlattenAppend DEF Q
  <2>5. Input!FlattenSeq(s) = Input!FlattenSeq(r) \o y /\ Input!FlattenSeq(r) \in Seq(S)
    BY <2>1, FlattenAppend DEF Q
  <2>6. (x \o Input!FlattenSeq(r)) \o y = x \o (Input!FlattenSeq(r) \o y)
    BY <2>1, <2>5, ConcatAssociative DEF Q
  <2> QED BY <2>2, <2>4, <2>5, <2>6
<1>3. Nat \subseteq T
  <2> HIDE DEF T
  <2> QED BY <1>1, <1>2, Induct
<1>4. ASSUME NEW s \in Seq(Q) PROVE Input!FlattenSeq(s) \in Seq(S)
  BY EmptySeq, FlattenAppend
<1>5. ASSUME NEW s \in Seq(Q)
      PROVE  Input!FlattenSeq(<<x>> \o s) = x \o Input!FlattenSeq(s)
  <2>1. Len(s) \in Nat
    OBVIOUS
  <2>2. Len(s) \in T
    <3> HIDE DEF T
    <3> QED BY <1>3, <2>1
  <2> QED BY <2>2
<1> QED BY <1>4, <1>5

-----------------------------------------------------------------------------
(***************************************************************************)
(* What the dispatched items stand for                                     *)
(***************************************************************************)

Item == [macro : 0 .. Len(Macros), packet : Input!Packet]
Parts(x) == IF x.macro = 0 THEN <<x.packet>> ELSE Macros[x.macro].seq

(* An item stands for packets. *)
LEMMA PartsAre ==
    ASSUME Input!Assumptions, NEW x \in Item
    PROVE  Parts(x) \in Seq(Input!Packet)
<1>1. x.macro \in 0 .. Len(Macros) /\ x.packet \in Input!Packet
  BY DEF Item
<1>2. CASE x.macro = 0
  BY <1>1, <1>2 DEF Parts
<1>3. CASE x.macro # 0
  <2>1. Macros \in Seq([seq : Seq(Input!Packet), when : Input!When])
    BY DEF Input!Assumptions
  <2>2. x.macro \in 1 .. Len(Macros)
    BY <1>1, <1>3, <2>1
  <2>3. Macros[x.macro] \in [seq : Seq(Input!Packet), when : Input!When]
    BY <2>1, <2>2, ElementOfSeq
  <2>4. Macros[x.macro].seq \in Seq(Input!Packet)
    BY <2>3
  <2> QED BY <1>3, <2>4 DEF Parts
<1> QED BY <1>2, <1>3

(* Nothing stands for nothing. *)
LEMMA UnfoldNone == Input!Unfold(<< >>) = << >>
<1>1. [i \in 1 .. Len(<< >>) |-> IF << >>[i].macro = 0 THEN <<<< >>[i].packet>>
                                 ELSE Macros[<< >>[i].macro].seq] = << >>
  OBVIOUS
<1> QED BY <1>1, FlattenNone DEF Input!Unfold

(* One more item stands for one more part. *)
LEMMA UnfoldAppend ==
    ASSUME Input!Assumptions, NEW s \in Seq(Item), NEW x \in Item
    PROVE  /\ Input!Unfold(Append(s, x)) = Input!Unfold(s) \o Parts(x)
           /\ Input!Unfold(s) \in Seq(Input!Packet)
<1> DEFINE t == Append(s, x)
           n == Len(s)
           F == [i \in 1 .. n |-> Parts(s[i])]
           H == [i \in 1 .. n + 1 |-> Parts(t[i])]
<1>1. /\ n \in Nat /\ Len(t) = n + 1 /\ t[n + 1] = x
      /\ \A i \in 1 .. n : t[i] = s[i] /\ s[i] \in Item
  OBVIOUS
<1>2. Input!Unfold(s) = Input!FlattenSeq(F)
  BY DEF Input!Unfold, Parts
<1>3. Input!Unfold(t) = Input!FlattenSeq(H)
  <2> HIDE DEF t, n
  <2>1. Input!Unfold(t) = Input!FlattenSeq([i \in 1 .. Len(t) |-> Parts(t[i])])
    BY DEF Input!Unfold, Parts
  <2> QED BY <1>1, <2>1
<1> HIDE DEF t, n
<1>4. Parts(x) \in Seq(Input!Packet) /\ \A i \in 1 .. n : Parts(s[i]) \in Seq(Input!Packet)
  BY <1>1, PartsAre
<1>5. F \in Seq(Seq(Input!Packet)) /\ Len(F) = n
  BY <1>1, <1>4
<1>6. H = Append(F, Parts(x))
  <2> DEFINE A == Append(F, Parts(x))
  <2>1. A = [i \in 1 .. n + 1 |-> IF i = n + 1 THEN Parts(x) ELSE F[i]]
    <3> HIDE DEF F
    <3> QED BY <1>4, <1>5, AppendIs
  <2>2. ASSUME NEW i \in 1 .. n + 1 PROVE Parts(t[i]) = IF i = n + 1 THEN Parts(x) ELSE F[i]
    <3>1. CASE i = n + 1
      BY <1>1, <3>1
    <3>2. CASE i # n + 1
      <4>1. i \in 1 .. n
        BY <1>1, <3>2
      <4> QED BY <1>1, <3>2, <4>1
    <3> QED BY <3>1, <3>2
  <2> HIDE DEF F
  <2> QED BY <2>1, <2>2
<1> HIDE DEF F, H
<1>7. Input!FlattenSeq(Append(F, Parts(x))) = Input!FlattenSeq(F) \o Parts(x)
      /\ Input!FlattenSeq(F) \in Seq(Input!Packet)
  BY <1>4, <1>5, FlattenAppend
<1> QED BY <1>2, <1>3, <1>6, <1>7 DEF t

(* What is dispatched stands for packets. *)
LEMMA UnfoldType ==
    ASSUME Input!Assumptions, NEW s \in Seq(Item)
    PROVE  Input!Unfold(s) \in Seq(Input!Packet)
<1>1. CASE s = << >>
  BY <1>1, UnfoldNone, EmptySeq
<1>2. CASE s # << >>
  <2>1. s[1] \in Item
    BY <1>2
  <2> QED BY <2>1, UnfoldAppend
<1> QED BY <1>1, <1>2

(* A packet by itself stands for itself. *)
LEMMA PlainIs ==
    ASSUME Input!Assumptions, NEW p \in Input!Packet
    PROVE  Input!Plain(p) \in Item /\ Parts(Input!Plain(p)) = <<p>>
<1>1. Len(Macros) \in Nat
  BY DEF Input!Assumptions
<1> QED BY <1>1 DEF Input!Plain, Item, Parts

(* Packets one by one stand for themselves. *)
LEMMA UnfoldPlains ==
    ASSUME Input!Assumptions, NEW s \in Seq(Item)
    PROVE  \A ps \in Seq(Input!Packet) :
              LET t == s \o [i \in 1 .. Len(ps) |-> Input!Plain(ps[i])]
              IN  t \in Seq(Item) /\ Input!Unfold(t) = Input!Unfold(s) \o ps
<1> DEFINE P == Input!Packet
           M(ps) == [i \in 1 .. Len(ps) |-> Input!Plain(ps[i])]
           T == {n \in Nat : \A ps \in Seq(P) : Len(ps) = n =>
                    Input!Unfold(s \o M(ps)) = Input!Unfold(s) \o ps}
<1>1. ASSUME NEW ps \in Seq(P) PROVE M(ps) \in Seq(Item) /\ Len(M(ps)) = Len(ps)
  <2>1. \A i \in 1 .. Len(ps) : Input!Plain(ps[i]) \in Item
    BY PlainIs
  <2>2. Len(ps) \in Nat
    OBVIOUS
  <2> QED BY <2>1, <2>2
<1>2. 0 \in T
  <2> SUFFICES ASSUME NEW ps \in Seq(P), Len(ps) = 0
               PROVE  Input!Unfold(s \o M(ps)) = Input!Unfold(s) \o ps
    BY Zenon
  <2>1. ps = << >> /\ M(ps) = << >>
    OBVIOUS
  <2> HIDE DEF M
  <2>2. s \o << >> = s
    BY ConcatEmptySeq
  <2>3. Input!Unfold(s) \in Seq(P)
    BY UnfoldType
  <2>4. Input!Unfold(s) \o << >> = Input!Unfold(s)
    BY <2>3, ConcatEmptySeq
  <2> QED BY <2>1, <2>2, <2>4
<1>3. ASSUME NEW n \in Nat, n \in T PROVE n + 1 \in T
  <2> SUFFICES ASSUME NEW ps \in Seq(P), Len(ps) = n + 1
               PROVE  Input!Unfold(s \o M(ps)) = Input!Unfold(s) \o ps
    <3>1. n + 1 \in Nat
      OBVIOUS
    <3> QED BY <3>1, Zenon
  <2> DEFINE r == SubSeq(ps, 1, n)
             y == ps[n + 1]
  <2>1. r \in Seq(P) /\ Len(r) = n /\ y \in P /\ ps = Append(r, y)
    OBVIOUS
  <2>2. M(ps) = Append(M(r), Input!Plain(y))
    <3>1. Len(M(r)) = n /\ M(r) \in Seq(Item)
      BY <1>1, <2>1
    <3>2. Append(M(r), Input!Plain(y))
             = [i \in 1 .. n + 1 |-> IF i = n + 1 THEN Input!Plain(y) ELSE M(r)[i]]
      <4> HIDE DEF M, r, y
      <4> QED BY <2>1, <3>1, PlainIs, AppendIs
    <3>3. ASSUME NEW i \in 1 .. n + 1
          PROVE  Input!Plain(ps[i]) = IF i = n + 1 THEN Input!Plain(y) ELSE M(r)[i]
      <4>1. CASE i # n + 1
        <5>1. i \in 1 .. Len(r) /\ r[i] = ps[i]
          BY <2>1, <4>1
        <5> HIDE DEF r, y
        <5> QED BY <4>1, <5>1
      <4> QED BY <4>1
    <3> QED BY <3>2, <3>3
  <2> HIDE DEF r, y
  <2>3. Input!Unfold(s \o M(r)) = Input!Unfold(s) \o r
    BY <1>3, <2>1
  <2>4. M(r) \in Seq(Item) /\ Input!Plain(y) \in Item /\ Parts(Input!Plain(y)) = <<y>>
    BY <1>1, <2>1, PlainIs
  <2> HIDE DEF M, P, T
  <2>5. s \o M(r) \in Seq(Item) /\ s \o M(ps) = Append(s \o M(r), Input!Plain(y))
    BY <2>2, <2>4
  <2>6. Input!Unfold(s \o M(ps)) = (Input!Unfold(s) \o r) \o <<y>>
    BY <2>3, <2>4, <2>5, UnfoldAppend
  <2>7. Input!Unfold(s) \in Seq(P)
    BY <2>4, UnfoldAppend DEF P
  <2>8. (Input!Unfold(s) \o r) \o <<y>> = Input!Unfold(s) \o ps
    <3>1. <<y>> \in Seq(P) /\ ps = r \o <<y>>
      BY <2>1
    <3> QED BY <2>1, <2>7, <3>1, ConcatAssociative
  <2> QED BY <2>6, <2>8
<1>4. Nat \subseteq T
  <2> HIDE DEF T
  <2> QED BY <1>2, <1>3, Induct
<1>5. ASSUME NEW ps \in Seq(P)
      PROVE  s \o M(ps) \in Seq(Item) /\ Input!Unfold(s \o M(ps)) = Input!Unfold(s) \o ps
  <2>1. Len(ps) \in T
    <3>1. Len(ps) \in Nat
      OBVIOUS
    <3> HIDE DEF T
    <3> QED BY <1>4, <3>1
  <2>2. M(ps) \in Seq(Item)
    BY <1>1
  <2>3. Input!Unfold(s \o M(ps)) = Input!Unfold(s) \o ps
    BY <2>1
  <2> HIDE DEF M
  <2>4. s \o M(ps) \in Seq(Item)
    BY <2>2, ConcatProperties
  <2> QED BY <2>3, <2>4
<1> QED BY <1>5


-----------------------------------------------------------------------------
(***************************************************************************)
(* invertMacros                                                            *)
(***************************************************************************)

(* What invertMacros works on *)
InputState == [macro : Seq(Input!Packet), armed : BOOLEAN, shift : BOOLEAN, out : Seq(Item)]

(* All it has been given: what it dispatched and what it holds back *)
Given(s) == Input!Unfold(s.out) \o s.macro

(* s is such a state with these fields. *)
InputIs(s, buffer, items) == s \in InputState /\ s.macro = buffer /\ s.out = items

(* A state that invertMacros works on has the fields InputState gives it. *)
LEMMA InputFields ==
    ASSUME NEW s \in InputState
    PROVE  /\ s.macro \in Seq(Input!Packet) /\ s.armed \in BOOLEAN
           /\ s.shift \in BOOLEAN /\ s.out \in Seq(Item)
BY DEF InputState

(* What it has been given is a sequence of packets. *)
LEMMA GivenType ==
    ASSUME Input!Assumptions, NEW s \in InputState
    PROVE  Given(s) \in Seq(Input!Packet)
<1>1. s.macro \in Seq(Input!Packet) /\ Input!Unfold(s.out) \in Seq(Input!Packet)
  BY InputFields, UnfoldType
<1> QED BY <1>1, ConcatProperties DEF Given

(* dispatchInvertBuffer dispatches what is held back. *)
LEMMA BufferSent ==
    ASSUME Input!Assumptions, NEW s \in InputState
    PROVE  LET r == Input!DispatchInvertBuffer(s)
           IN  r \in InputState /\ r.macro = << >> /\ Given(r) = Given(s)
<1> DEFINE r == Input!DispatchInvertBuffer(s)
           items == s.out \o [i \in 1 .. Len(s.macro) |-> Input!Plain(s.macro[i])]
           b == Input!ShiftAfter(s.shift, s.macro)
<1>1. s.macro \in Seq(Input!Packet) /\ s.shift \in BOOLEAN /\ s.out \in Seq(Item)
  BY InputFields
<1>2. items \in Seq(Item) /\ Input!Unfold(items) = Input!Unfold(s.out) \o s.macro
  BY <1>1, UnfoldPlains
<1>3. b \in BOOLEAN
  BY <1>1 DEF Input!ShiftAfter
<1>4. r = [macro |-> << >>, armed |-> FALSE, shift |-> b, out |-> items]
  BY DEF Input!DispatchInvertBuffer
<1> HIDE DEF items, b, r
<1>5. << >> \in Seq(Input!Packet)
  BY EmptySeq
<1>6. r \in InputState /\ r.macro = << >> /\ r.out = items
  BY <1>2, <1>3, <1>4, <1>5 DEF InputState
<1>7. Input!Unfold(items) \o << >> = Input!Unfold(items)
  BY <1>2, UnfoldType, ConcatEmptySeq
<1>8. Given(r) = Given(s)
  BY <1>2, <1>6, <1>7 DEF Given
<1> QED BY <1>6, <1>8 DEF r

(* Items that end a wait: nothing is held back afterwards. *)
LEMMA ItemSent ==
    ASSUME Input!Assumptions, NEW s \in InputState, NEW x \in Item, NEW r \in InputState,
           r.macro = << >>, r.out = Append(s.out, x)
    PROVE  Given(r) = Input!Unfold(s.out) \o Parts(x)
<1>1. s.out \in Seq(Item)
  BY InputFields
<1>2. Input!Unfold(r.out) = Input!Unfold(s.out) \o Parts(x)
  BY <1>1, UnfoldAppend
<1>3. r.out \in Seq(Item)
  BY InputFields
<1>4. Input!Unfold(r.out) \o << >> = Input!Unfold(r.out)
  BY <1>3, UnfoldType, ConcatEmptySeq
<1> QED BY <1>2, <1>4 DEF Given

(* A packet that is dispatched by itself while nothing is held back *)
LEMMA PacketSent ==
    ASSUME Input!Assumptions, NEW s \in InputState, s.macro = << >>, NEW p \in Input!Packet
    PROVE  LET r == Input!Dispatch(s, p)
           IN  r \in InputState /\ r.macro = << >> /\ Given(r) = Append(Given(s), p)
<1> DEFINE r == Input!Dispatch(s, p)
           b == Input!ShiftAfter(s.shift, <<p>>)
           x == Input!Plain(p)
           items == Append(s.out, x)
<1>1. s.macro \in Seq(Input!Packet) /\ s.shift \in BOOLEAN /\ s.out \in Seq(Item)
  BY InputFields
<1>2. x \in Item /\ Parts(x) = <<p>>
  BY PlainIs
<1>3. b \in BOOLEAN
  BY <1>1 DEF Input!ShiftAfter
<1>4. r = [s EXCEPT !.shift = b, !.out = items]
  BY DEF Input!Dispatch
<1> HIDE DEF x
<1>5. items \in Seq(Item)
  BY <1>1, <1>2, AppendProperties
<1> HIDE DEF items, b, r
<1>6. r \in InputState /\ r.macro = << >> /\ r.out = items
  BY <1>3, <1>4, <1>5 DEF InputState
<1>7. Given(r) = Input!Unfold(s.out) \o <<p>>
  BY <1>2, <1>6, ItemSent DEF items
<1>8. Given(s) = Input!Unfold(s.out) /\ Input!Unfold(s.out) \in Seq(Input!Packet)
  BY <1>1, UnfoldType, ConcatEmptySeq DEF Given
<1>9. Input!Unfold(s.out) \o <<p>> = Append(Input!Unfold(s.out), p)
  BY <1>8
<1> QED BY <1>6, <1>7, <1>8, <1>9 DEF r

(* A buffer as long as the macro it begins is the macro (compareMacro). *)
LEMMA Completed ==
    ASSUME NEW S, NEW b \in Seq(S), NEW m \in Seq(S), Input!IsPrefix(b, m)
    PROVE  Len(b) <= Len(m) /\ (Len(b) = Len(m) => b = m)
<1>1. Len(b) <= Len(m) /\ SubSeq(b, 1, Len(b)) = SubSeq(m, 1, Len(b))
  BY DEF Input!IsPrefix
<1>2. \A i \in 1 .. Len(b) : SubSeq(b, 1, Len(b))[i] = b[i] /\ SubSeq(m, 1, Len(b))[i] = m[i]
  BY <1>1
<1>3. Len(b) \in Nat /\ Len(m) \in Nat
  OBVIOUS
<1>4. ASSUME Len(b) = Len(m) PROVE b = m
  <2>1. \A i \in 1 .. Len(b) : b[i] = m[i]
    BY <1>1, <1>2
  <2> QED BY <1>4, <2>1, SeqEqual
<1> QED BY <1>1, <1>4

(* The packet at the end of a buffer is the last that was given. *)
LEMMA GivenAppend ==
    ASSUME NEW S, NEW u \in Seq(S), NEW m \in Seq(S), NEW p \in S
    PROVE  u \o Append(m, p) = Append(u \o m, p)
<1>1. <<p>> \in Seq(S) /\ Append(m, p) = m \o <<p>> /\ u \o m \in Seq(S)
  BY ConcatProperties
<1>2. Append(u \o m, p) = (u \o m) \o <<p>>
  BY <1>1
<1> QED BY <1>1, <1>2, ConcatAssociative

(* invertMacros loses no packet and doubles none: it dispatches or holds   *)
(* back what it was given before, and then the new packet; and it holds    *)
(* nothing back without setting the timer.                                 *)
LEMMA Inverted ==
    ASSUME Input!Assumptions, NEW s \in InputState, NEW p \in Input!Packet, NEW late \in BOOLEAN
    PROVE  LET r == Input!InvertMacros(s, p, late)
           IN  /\ r \in InputState /\ Given(r) = Append(Given(s), p)
               /\ r.macro = << >> \/ r.armed
<1> DEFINE r == Input!InvertMacros(s, p, late)
           fresh == IF s.macro # << >> /\ late THEN Input!DispatchInvertBuffer(s) ELSE s
           buffer == Append(fresh.macro, p)
           matching == Input!Matching(fresh, buffer)
           first == Input!Min(matching)
           d == IF fresh.macro # << >> THEN Input!DispatchInvertBuffer(fresh) ELSE fresh
           x == [macro |-> first, packet |-> p]
           ended == [fresh EXCEPT !.macro = << >>, !.armed = FALSE, !.out = Append(@, x)]
<1>1. fresh \in InputState /\ Given(fresh) = Given(s)
  BY BufferSent
<1>2. r = CASE matching = {} -> Input!Dispatch(d, p)
            [] matching # {} /\ Len(buffer) = Len(Macros[first].seq) -> ended
            [] matching # {} /\ Len(buffer) < Len(Macros[first].seq) -> Input!Hold(fresh, buffer)
  BY DEF Input!InvertMacros
<1> HIDE DEF r, fresh
<1>3. /\ fresh.macro \in Seq(Input!Packet) /\ fresh.out \in Seq(Item)
      /\ Input!Unfold(fresh.out) \in Seq(Input!Packet)
  BY <1>1, InputFields, UnfoldType
<1>4. buffer \in Seq(Input!Packet)
  BY <1>3, AppendProperties
<1>5. Input!Unfold(fresh.out) \o buffer = Append(Given(s), p)
  <2>1. Input!Unfold(fresh.out) \o buffer = Append(Input!Unfold(fresh.out) \o fresh.macro, p)
    <3> DEFINE u == Input!Unfold(fresh.out)
               m == fresh.macro
               P == Input!Packet
    <3>1. u \in Seq(P) /\ m \in Seq(P) /\ p \in P
      BY <1>3
    <3> HIDE DEF u, m, P
    <3>2. u \o Append(m, p) = Append(u \o m, p)
      BY <3>1, GivenAppend
    <3> QED BY <3>2 DEF u, m
  <2>2. Given(fresh) = Input!Unfold(fresh.out) \o fresh.macro
    BY DEF Given
  <2> QED BY <1>1, <2>1, <2>2
<1> HIDE DEF buffer
<1>6. CASE matching = {}
  <2>1. d \in InputState /\ d.macro = << >> /\ Given(d) = Given(s)
    BY <1>1, BufferSent
  <2>2. r = Input!Dispatch(d, p)
    BY <1>2, <1>6
  <2> HIDE DEF d
  <2> QED BY <2>1, <2>2, PacketSent DEF r
<1>7. CASE matching # {}
  <2>1. matching \subseteq 1 .. Len(Macros) /\ \A i \in matching : Input!IsPrefix(buffer, Macros[i].seq)
    BY DEF Input!Matching, Input!CompareMacro
  <2>2. Macros \in Seq([seq : Seq(Input!Packet), when : Input!When])
    BY DEF Input!Assumptions
  <2>3. first \in matching
    <3> HIDE DEF matching
    <3>1. matching \subseteq Nat
      BY <2>1, <2>2
    <3>2. \E i \in matching : \A j \in matching : i <= j
      BY <1>7, <3>1, Least
    <3> QED BY <3>2 DEF Input!Min
  <2> HIDE DEF matching, first
  <2>4. first \in 1 .. Len(Macros) /\ first \in 0 .. Len(Macros) /\ first # 0
    BY <2>1, <2>2, <2>3
  <2>5. Macros[first].seq \in Seq(Input!Packet)
    <3>1. Macros[first] \in [seq : Seq(Input!Packet), when : Input!When]
      BY <2>2, <2>4, ElementOfSeq
    <3> QED BY <3>1
  <2>6. /\ Len(buffer) <= Len(Macros[first].seq)
        /\ Len(buffer) = Len(Macros[first].seq) => buffer = Macros[first].seq
    BY <1>4, <2>1, <2>3, <2>5, Completed
  <2>7. CASE Len(buffer) = Len(Macros[first].seq)
    <3>1. r = ended
      BY <1>2, <1>7, <2>7
    <3>2. x \in Item /\ Parts(x) = buffer
      BY <2>4, <2>6, <2>7 DEF Item, Parts
    <3> HIDE DEF x
    <3>3. Append(fresh.out, x) \in Seq(Item) /\ << >> \in Seq(Input!Packet)
      BY <1>3, <3>2, AppendProperties, EmptySeq
    <3>4. r \in InputState /\ r.macro = << >> /\ r.out = Append(fresh.out, x)
      BY <1>1, <3>1, <3>3 DEF InputState
    <3>5. Given(r) = Input!Unfold(fresh.out) \o buffer
      BY <1>1, <3>2, <3>4, ItemSent
    <3> QED BY <1>5, <3>4, <3>5 DEF r
  <2>8. CASE Len(buffer) < Len(Macros[first].seq)
    <3>0. Len(buffer) # Len(Macros[first].seq)
      BY <1>4, <2>5, <2>8
    <3>1. r = [fresh EXCEPT !.macro = buffer, !.armed = TRUE]
      BY <1>2, <1>7, <2>8, <3>0 DEF Input!Hold
    <3>2. r \in InputState /\ r.macro = buffer /\ r.out = fresh.out /\ r.armed
      BY <1>1, <1>4, <3>1 DEF InputState
    <3>3. Given(r) = Append(Given(s), p)
      BY <1>5, <3>2 DEF Given
    <3> QED BY <3>2, <3>3 DEF r
  <2> QED BY <1>4, <2>5, <2>6, <2>7, <2>8
<1> QED BY <1>6, <1>7

-----------------------------------------------------------------------------
(***************************************************************************)
(* The ring of the keyboard                                                *)
(***************************************************************************)

Slot == Input!Packet \cup {Input!ResetPacket}
One(x) == IF x = Input!ResetPacket THEN << >> ELSE <<x>>

(* A slot holds a packet or none. *)
LEMMA OneType == ASSUME NEW x \in Slot PROVE One(x) \in Seq(Input!Packet)
<1>1. << >> \in Seq(Input!Packet)
  BY EmptySeq
<1> QED BY <1>1 DEF One, Slot

(* The packets in the ring are those of its slots, joined. *)
LEMMA QueuedIs ==
    ASSUME NEW s \in Seq(Slot)
    PROVE  /\ Input!Queued(s) = Input!FlattenSeq([i \in 1 .. Len(s) |-> One(s[i])])
           /\ [i \in 1 .. Len(s) |-> One(s[i])] \in Seq(Seq(Input!Packet))
           /\ Len([i \in 1 .. Len(s) |-> One(s[i])]) = Len(s)
<1>1. \A i \in 1 .. Len(s) : One(s[i]) \in Seq(Input!Packet)
  BY OneType, ElementOfSeq
<1>2. Len(s) \in Nat
  OBVIOUS
<1> QED BY <1>1, <1>2 DEF Input!Queued, One

(* An empty ring holds no packet. *)
LEMMA QueuedNone == Input!Queued(<< >>) = << >>
<1>1. << >> \in Seq(Slot)
  BY EmptySeq
<1>2. [i \in 1 .. Len(<< >>) |-> One(<< >>[i])] = << >>
  OBVIOUS
<1> QED BY <1>1, <1>2, QueuedIs, FlattenNone

(* What enters the ring is queued last. *)
LEMMA QueuedAppend ==
    ASSUME NEW s \in Seq(Slot), NEW x \in Slot
    PROVE  /\ Input!Queued(Append(s, x)) = Input!Queued(s) \o One(x)
           /\ Input!Queued(s) \in Seq(Input!Packet)
<1> DEFINE t == Append(s, x)
           F == [i \in 1 .. Len(s) |-> One(s[i])]
           H == [i \in 1 .. Len(t) |-> One(t[i])]
<1>1. t \in Seq(Slot) /\ Len(t) = Len(s) + 1 /\ Len(s) \in Nat
  BY AppendProperties
<1>2. /\ Input!Queued(s) = Input!FlattenSeq(F) /\ F \in Seq(Seq(Input!Packet)) /\ Len(F) = Len(s)
      /\ Input!Queued(t) = Input!FlattenSeq(H)
  BY <1>1, QueuedIs
<1>3. One(x) \in Seq(Input!Packet)
  BY OneType
<1>4. H = Append(F, One(x))
  <2>1. t = [i \in 1 .. Len(s) + 1 |-> IF i = Len(s) + 1 THEN x ELSE s[i]]
    BY AppendIs
  <2>2. Append(F, One(x)) = [i \in 1 .. Len(s) + 1 |-> IF i = Len(s) + 1 THEN One(x) ELSE F[i]]
    <3> HIDE DEF F
    <3> QED BY <1>2, <1>3, AppendIs
  <2> HIDE DEF t
  <2>3. ASSUME NEW i \in 1 .. Len(s) + 1
        PROVE  One(t[i]) = IF i = Len(s) + 1 THEN One(x) ELSE F[i]
    <3>1. CASE i = Len(s) + 1
      BY <2>1, <3>1
    <3>2. CASE i # Len(s) + 1
      <4>1. i \in 1 .. Len(s)
        BY <1>1, <3>2
      <4> QED BY <2>1, <3>2, <4>1
    <3> QED BY <3>1, <3>2
  <2> HIDE DEF F
  <2> QED BY <1>1, <2>2, <2>3
<1> HIDE DEF F, H
<1> QED BY <1>2, <1>3, <1>4, FlattenAppend DEF t

(* The ring holds packets. *)
LEMMA QueuedType ==
    ASSUME NEW s \in Seq(Slot)
    PROVE  Input!Queued(s) \in Seq(Input!Packet)
<1>1. Input!ResetPacket \in Slot
  BY DEF Slot
<1> QED BY <1>1, QueuedAppend

(* What leaves the ring was queued first. *)
LEMMA QueuedHead ==
    ASSUME NEW s \in Seq(Slot), s # << >>
    PROVE  /\ Head(s) \in Slot /\ Tail(s) \in Seq(Slot)
           /\ Input!Queued(s) = One(Head(s)) \o Input!Queued(Tail(s))
<1> DEFINE x == Head(s)
           t == Tail(s)
           F == [i \in 1 .. Len(s) |-> One(s[i])]
           H == [i \in 1 .. Len(t) |-> One(t[i])]
<1>1. /\ x \in Slot /\ t \in Seq(Slot) /\ Len(s) = Len(t) + 1 /\ Len(t) \in Nat
      /\ x = s[1] /\ \A i \in 1 .. Len(t) : t[i] = s[i + 1]
  BY HeadTailProperties
<1> HIDE DEF x, t
<1>2. /\ Input!Queued(s) = Input!FlattenSeq(F) /\ F \in Seq(Seq(Input!Packet))
      /\ Input!Queued(t) = Input!FlattenSeq(H) /\ H \in Seq(Seq(Input!Packet))
      /\ Len(F) = Len(s) /\ Len(H) = Len(t)
  BY <1>1, QueuedIs
<1>3. One(x) \in Seq(Input!Packet)
  BY <1>1, OneType
<1>4. F = <<One(x)>> \o H
  <2> DEFINE C == <<One(x)>> \o H
  <2>1. /\ <<One(x)>> \in Seq(Seq(Input!Packet)) /\ Len(<<One(x)>>) = 1 /\ <<One(x)>>[1] = One(x)
    BY <1>3
  <2>2. /\ C \in Seq(Seq(Input!Packet)) /\ Len(C) = 1 + Len(t)
        /\ \A i \in 1 .. 1 + Len(t) : C[i] = IF i <= 1 THEN <<One(x)>>[i] ELSE H[i - 1]
    <3> HIDE DEF H
    <3> QED BY <1>2, <2>1, ConcatProperties
  <2> HIDE DEF C
  <2>3. ASSUME NEW i \in 1 .. Len(s) PROVE F[i] = C[i]
    <3>1. CASE i = 1
      <4>1. F[i] = One(x)
        BY <1>1, <3>1
      <4>2. i \in 1 .. 1 + Len(t) /\ i <= 1
        BY <1>1, <3>1
      <4>3. C[i] = <<One(x)>>[1]
        <5> HIDE DEF H
        <5> QED BY <2>2, <3>1, <4>2
      <4> QED BY <2>1, <4>1, <4>3
    <3>2. CASE i # 1
      <4>1. i - 1 \in 1 .. Len(t) /\ i \in 1 .. 1 + Len(t) /\ ~ (i <= 1) /\ (i - 1) + 1 = i
        BY <1>1, <3>2
      <4>2. t[i - 1] = s[i]
        BY <1>1, <4>1
      <4>3. H[i - 1] = One(s[i])
        BY <4>1, <4>2
      <4>4. C[i] = H[i - 1]
        <5> HIDE DEF H
        <5> QED BY <2>2, <4>1
      <4> QED BY <4>3, <4>4
    <3> QED BY <3>1, <3>2
  <2>4. Len(C) = Len(F)
    BY <1>1, <1>2, <2>2
  <2> HIDE DEF F
  <2>5. F = C
    BY <1>2, <2>2, <2>3, <2>4, SeqEqual
  <2> QED BY <2>5 DEF C
<1> HIDE DEF F, H
<1>5. Input!FlattenSeq(<<One(x)>> \o H) = One(x) \o Input!FlattenSeq(H)
  BY <1>2, <1>3, FlattenCons
<1> QED BY <1>1, <1>2, <1>4, <1>5 DEF x, t

-----------------------------------------------------------------------------
(***************************************************************************)
(* The steps of the keyboard's input                                       *)
(***************************************************************************)

(* The inductive invariant; finitely many keys are down. *)
InputInv == Input!TypeOK /\ IsFiniteSet(bits)

(* What a step has to show *)
InputStep == InputInv' /\ Input!InOrder

(* What the invariant says of each variable *)
LEMMA InputTypes ==
    ASSUME InputInv
    PROVE  /\ lastReset \in BOOLEAN /\ extendCount \in 0 .. 2 /\ bits \subseteq Key \ Breakless
           /\ queue \in Seq(Slot) /\ Len(queue) < KeySlots /\ macro \in Seq(Input!Packet)
           /\ armed \in BOOLEAN /\ draining \in BOOLEAN /\ shift \in BOOLEAN
           /\ out \in Seq(Item) /\ IsFiniteSet(bits)
BY DEF InputInv, Input!TypeOK, Slot, Item

(* ... and what a step must show of each *)
LEMMA InputTypesKept ==
    ASSUME lastReset' \in BOOLEAN, extendCount' \in 0 .. 2, bits' \subseteq Key \ Breakless,
           queue' \in Seq(Slot), Len(queue') < KeySlots, macro' \in Seq(Input!Packet),
           armed' \in BOOLEAN, draining' \in BOOLEAN, shift' \in BOOLEAN,
           out' \in Seq(Item), IsFiniteSet(bits')
    PROVE  InputInv'
BY DEF InputInv, Input!TypeOK, Slot, Item

(* What is pending is a sequence of packets. *)
LEMMA PendingType ==
    ASSUME InputInv
    PROVE  /\ Input!Pending \in Seq(Input!Packet)
           /\ Input!Queued(queue) \in Seq(Input!Packet) /\ macro \in Seq(Input!Packet)
<1>1. Input!Queued(queue) \in Seq(Input!Packet) /\ macro \in Seq(Input!Packet)
  BY InputTypes, QueuedType
<1> QED BY <1>1, ConcatProperties DEF Input!Pending

(* A step that dispatches nothing and leaves what is pending *)
LEMMA Silently ==
    ASSUME InputInv, out' = << >>, Input!Pending' = Input!Pending
    PROVE  Input!InOrder /\ out' \in Seq(Item)
<1>1. << >> \o Input!Pending = Input!Pending
  BY PendingType, ConcatEmptySeq
<1>2. Input!Unfold(out') = << >>
  BY UnfoldNone
<1>3. Input!Unfold(out') \o Input!Pending' = Input!Pending
  BY <1>1, <1>2
<1> QED BY <1>3, EmptySeq DEF Input!InOrder

(* A packet enters the ring, or does not fit. *)
LEMMA Queueing ==
    ASSUME InputInv, NEW x \in Slot, Input!Queue(x), out' = << >>, macro' = macro
    PROVE  /\ Input!InOrder /\ out' \in Seq(Item)
           /\ queue' \in Seq(Slot) /\ Len(queue') < KeySlots
<1>0. queue \in Seq(Slot) /\ Len(queue) < KeySlots
  BY InputTypes
<1>1. CASE queue' = queue
  <2>1. Input!Pending' = Input!Pending
    BY <1>1 DEF Input!Pending
  <2> QED BY <1>0, <1>1, <2>1, Silently
<1>2. CASE Len(queue) < KeySlots - 1 /\ queue' = Append(queue, x)
  <2>1. queue' \in Seq(Slot) /\ Len(queue') = Len(queue) + 1
    BY <1>0, <1>2, AppendProperties
  <2>2. Len(queue') < KeySlots
    <3>1. Len(queue) \in Nat
      BY <1>0
    <3>2. KeySlots \in Nat
      BY InputAssumption DEF Input!Assumptions
    <3> QED BY <1>2, <2>1, <3>1, <3>2
  <2>3. Input!Queued(queue') = Input!Queued(queue) \o One(x)
    BY <1>0, <1>2, QueuedAppend
  <2>4. One(x) \in Seq(Input!Packet)
    BY OneType
  <2>5. Input!Pending' = Input!Pending \o One(x)
    <3>1. Input!Pending' = macro \o (Input!Queued(queue) \o One(x))
      BY <2>3 DEF Input!Pending
    <3>2. Input!Queued(queue) \in Seq(Input!Packet) /\ macro \in Seq(Input!Packet)
      BY PendingType
    <3>3. (macro \o Input!Queued(queue)) \o One(x) = macro \o (Input!Queued(queue) \o One(x))
      BY <2>4, <3>2, ConcatAssociative
    <3> QED BY <3>1, <3>3 DEF Input!Pending
  <2>6. CASE x = Input!ResetPacket
    <3>1. Input!Pending' = Input!Pending
      BY <2>5, <2>6, PendingType, ConcatEmptySeq DEF One
    <3> QED BY <2>1, <2>2, <3>1, Silently
  <2>7. CASE x # Input!ResetPacket
    <3>1. x \in Input!Packet
      BY <2>7 DEF Slot
    <3>2. Input!Pending' = Append(Input!Pending, x)
      BY <2>5, <2>7, <3>1, PendingType DEF One
    <3> QED BY <2>1, <2>2, <3>1, <3>2, EmptySeq DEF Input!InOrder
  <2> QED BY <2>6, <2>7
<1> QED BY <1>1, <1>2 DEF Input!Queue

(* interruptOccurred: the keyboard was reset. *)
LEMMA ResetByteSteps ==
    ASSUME InputInv, Input!SpontaneousReset PROVE InputStep
<1>1. /\ Input!Queue(Input!ResetPacket) /\ extendCount' = 0 /\ out' = << >> /\ bits' = bits
      /\ UNCHANGED <<lastReset, macro, armed, draining, shift>>
  BY DEF Input!SpontaneousReset
<1>2. Input!ResetPacket \in Slot
  BY DEF Slot
<1>3. Input!InOrder /\ out' \in Seq(Item) /\ queue' \in Seq(Slot) /\ Len(queue') < KeySlots
  BY <1>1, <1>2, Queueing
<1>4. InputInv'
  BY <1>1, <1>3, InputTypes, InputTypesKept
<1> QED BY <1>3, <1>4 DEF InputStep

(* interruptOccurred: an answer, or a prefix *)
LEMMA OtherByteSteps ==
    ASSUME InputInv, Input!AnswerByte \/ \E b \in Input!Prefix : Input!PrefixByte(b)
    PROVE  InputStep
<1>1. /\ lastReset' = FALSE /\ extendCount' \in 0 .. 2 /\ out' = << >> /\ queue' = queue /\ bits' = bits
      /\ UNCHANGED <<macro, armed, draining, shift>>
  BY InputTypes DEF Input!AnswerByte, Input!PrefixByte, Input!Buffering
<1>2. Input!Pending' = Input!Pending
  BY <1>1 DEF Input!Pending
<1>3. Input!InOrder /\ out' \in Seq(Item)
  BY <1>1, <1>2, Silently
<1>4. InputInv'
  BY <1>1, <1>3, InputTypes, InputTypesKept
<1> QED BY <1>3, <1>4 DEF InputStep

(* interruptOccurred: a scan code *)
LEMMA KeyByteSteps ==
    ASSUME InputInv, NEW b \in Input!ScanCode, Input!KeyByte(b) PROVE InputStep
<1> DEFINE key == <<extendCount, b.code>>
           p == [key |-> key, up |-> b.up]
<1>1. /\ lastReset' \in BOOLEAN /\ extendCount' \in 0 .. 2 /\ out' = << >>
      /\ macro' = macro /\ armed' = armed /\ draining' = draining /\ shift' = shift
  BY DEF Input!KeyByte
<1>2. b.up \in BOOLEAN
  BY DEF Input!ScanCode
<1>3. \/ bits' = bits /\ queue' = queue
      \/ key \in Key /\ Input!Queue(p) /\ bits' \in {bits, bits \ {key}}
      \/ key \in Key \ Breakless /\ Input!Queue(p) /\ bits' = bits \cup {key}
  BY DEF Input!KeyByte, Input!Buffering
<1> HIDE DEF key
<1>4. CASE bits' = bits /\ queue' = queue
  <2>1. Input!Pending' = Input!Pending
    BY <1>1, <1>4 DEF Input!Pending
  <2>2. Input!InOrder /\ out' \in Seq(Item)
    BY <1>1, <2>1, Silently
  <2>3. InputInv'
    BY <1>1, <1>4, <2>2, InputTypes, InputTypesKept
  <2> QED BY <2>2, <2>3 DEF InputStep
<1>5. CASE key \in Key /\ Input!Queue(p)
  <2>1. p \in Slot
    BY <1>2, <1>5 DEF Slot, Input!Packet
  <2>2. Input!InOrder /\ out' \in Seq(Item) /\ queue' \in Seq(Slot) /\ Len(queue') < KeySlots
    <3> HIDE DEF p
    <3> QED BY <1>1, <1>5, <2>1, Queueing
  <2>3. bits' \subseteq Key \ Breakless /\ IsFiniteSet(bits')
    <3>1. bits \subseteq Key \ Breakless /\ IsFiniteSet(bits)
      BY InputTypes
    <3>2. IsFiniteSet(bits \ {key}) /\ IsFiniteSet(bits \cup {key})
      BY <3>1, FS_RemoveElement, FS_AddElement
    <3>3. CASE bits' \in {bits, bits \ {key}}
      <4>1. CASE bits' = bits
        BY <3>1, <4>1
      <4>2. CASE bits' = bits \ {key}
        BY <3>1, <3>2, <4>2
      <4> QED BY <3>3, <4>1, <4>2
    <3>4. CASE key \in Key \ Breakless /\ bits' = bits \cup {key}
      BY <3>1, <3>2, <3>4
    <3>5. CASE bits' = bits
      BY <3>1, <3>5
    <3> QED BY <1>3, <3>3, <3>4, <3>5
  <2>4. InputInv'
    BY <1>1, <2>2, <2>3, InputTypes, InputTypesKept
  <2> QED BY <2>2, <2>4 DEF InputStep
<1> QED BY <1>3, <1>4, <1>5

(* The state invertMacros starts with has the macro buffer and no output. *)
LEMMA InputStateIs ==
    ASSUME InputInv
    PROVE  /\ Input!State \in InputState /\ Given(Input!State) = macro
           /\ Input!State.macro = macro
<1>1. /\ macro \in Seq(Input!Packet) /\ armed \in BOOLEAN /\ shift \in BOOLEAN
      /\ << >> \in Seq(Item)
  BY InputTypes, EmptySeq
<1>2. Input!State \in InputState /\ Input!State.macro = macro /\ Input!State.out = << >>
  BY <1>1 DEF Input!State, InputState
<1>3. << >> \o macro = macro
  BY <1>1, ConcatEmptySeq
<1> QED BY <1>2, <1>3, UnfoldNone DEF Given

(* A handler leaves what invertMacros made. *)
LEMMA Became ==
    ASSUME NEW s \in InputState, Input!Become(s)
    PROVE  /\ macro' \in Seq(Input!Packet) /\ armed' \in BOOLEAN /\ shift' \in BOOLEAN
           /\ out' \in Seq(Item) /\ Input!Unfold(out') \o macro' = Given(s)
BY InputFields DEF Input!Become, Given

(* packetReady takes a packet from the ring. *)
LEMMA PacketReadySteps ==
    ASSUME InputInv, NEW late \in BOOLEAN, Input!PacketReady(late) PROVE InputStep
<1> DEFINE x == Head(queue)
           t == Tail(queue)
<1>1. /\ queue # << >> /\ queue' = t
      /\ bits' = bits /\ UNCHANGED <<lastReset, extendCount, draining>>
  BY DEF Input!PacketReady, Input!decoder
<1>2. queue \in Seq(Slot) /\ Len(queue) < KeySlots /\ KeySlots \in Nat
  BY InputTypes, InputAssumption DEF Input!Assumptions
<1>3. x \in Slot /\ t \in Seq(Slot) /\ Input!Queued(queue) = One(x) \o Input!Queued(t)
  BY <1>1, <1>2, QueuedHead
<1>4. Len(t) < KeySlots
  BY <1>1, <1>2, HeadTailProperties
<1>5. /\ macro \in Seq(Input!Packet) /\ One(x) \in Seq(Input!Packet)
      /\ Input!Queued(t) \in Seq(Input!Packet)
  BY <1>3, InputTypes, OneType, QueuedType
<1>6. CASE x = Input!ResetPacket
  <2>1. out' = << >> /\ UNCHANGED <<macro, armed, shift>>
    BY <1>6 DEF Input!PacketReady
  <2>2. Input!Queued(queue) = Input!Queued(t)
    <3> HIDE DEF t, x
    <3>1. << >> \o Input!Queued(t) = Input!Queued(t)
      BY <1>5, ConcatEmptySeq
    <3> QED BY <1>3, <1>6, <3>1 DEF One
  <2>3. Input!Pending' = Input!Pending
    <3> HIDE DEF t
    <3> QED BY <1>1, <2>1, <2>2 DEF Input!Pending
  <2>4. Input!InOrder /\ out' \in Seq(Item)
    BY <2>1, <2>3, Silently
  <2> HIDE DEF t
  <2>5. InputInv'
    BY <1>1, <1>3, <1>4, <2>1, <2>4, InputTypes, InputTypesKept
  <2> QED BY <2>4, <2>5 DEF InputStep
<1>7. CASE x # Input!ResetPacket
  <2> DEFINE r == Input!InvertMacros(Input!State, x, late)
  <2>1. Input!Become(r)
    BY <1>7 DEF Input!PacketReady
  <2>2. x \in Input!Packet /\ One(x) = <<x>>
    BY <1>3, <1>7 DEF Slot, One
  <2> HIDE DEF t, x
  <2>3. r \in InputState /\ Given(r) = Append(macro, x)
    <3>1. Input!State \in InputState /\ Given(Input!State) = macro
      BY InputStateIs
    <3> QED BY <2>2, <3>1, Inverted, InputAssumption
  <2> HIDE DEF r
  <2>4. /\ macro' \in Seq(Input!Packet) /\ armed' \in BOOLEAN /\ shift' \in BOOLEAN
        /\ out' \in Seq(Item) /\ Input!Unfold(out') \o macro' = Append(macro, x)
    BY <2>1, <2>3, Became
  <2>5. Input!Unfold(out') \o Input!Pending' = Input!Pending
    <3> DEFINE u == Input!Unfold(out')
               w == Input!Queued(t)
    <3>1. u \in Seq(Input!Packet) /\ w \in Seq(Input!Packet)
      BY <1>5, <2>4, UnfoldType, InputAssumption
    <3>2. Input!Pending' = macro' \o w
      BY <1>1 DEF Input!Pending
    <3>3. Input!Pending = macro \o (<<x>> \o w)
      BY <1>3, <2>2 DEF Input!Pending
    <3> DEFINE y == <<x>>
               m == macro'
               P == Input!Packet
    <3>0. /\ u \in Seq(P) /\ w \in Seq(P) /\ m \in Seq(P) /\ macro \in Seq(P)
          /\ y \in Seq(P)
      BY <1>5, <2>2, <2>4, <3>1
    <3> HIDE DEF u, w, y, m, P
    <3>4. u \o (macro' \o w) = (u \o macro') \o w
      <4>1. \A a, b, c \in Seq(P) : a \o (b \o c) = (a \o b) \o c
        BY ConcatAssociative
      <4>2. u \o (m \o w) = (u \o m) \o w
        BY <3>0, <4>1, Zenon
      <4> QED BY <4>2 DEF m
    <3>5. macro \o (<<x>> \o w) = (macro \o <<x>>) \o w
      <4>1. macro \o (y \o w) = (macro \o y) \o w
        BY <3>0, ConcatAssociative
      <4> QED BY <4>1 DEF y
    <3>6. macro \o <<x>> = Append(macro, x)
      BY <1>5, <2>2
    <3>7. u \o macro' = Append(macro, x)
      BY <2>4 DEF u
    <3>8. u \o Input!Pending' = Input!Pending
      BY <3>2, <3>3, <3>4, <3>5, <3>6, <3>7
    <3> QED BY <3>8 DEF u
  <2>6. Input!InOrder
    BY <2>5 DEF Input!InOrder
  <2>7. InputInv'
    BY <1>1, <1>3, <1>4, <2>4, InputTypes, InputTypesKept
  <2> QED BY <2>6, <2>7 DEF InputStep
<1> QED BY <1>6, <1>7

(* onMacroTimer, up to its call of packetReady *)
LEMMA MacroTimerSteps ==
    ASSUME InputInv, Input!OnMacroTimer PROVE InputStep
<1>1. /\ armed' = FALSE /\ draining' = TRUE /\ out' = << >> /\ queue' = queue /\ bits' = bits
      /\ UNCHANGED <<lastReset, extendCount, macro, shift>>
  BY DEF Input!OnMacroTimer, Input!decoder
<1>2. Input!Pending' = Input!Pending
  BY <1>1 DEF Input!Pending
<1>3. Input!InOrder /\ out' \in Seq(Item)
  BY <1>1, <1>2, Silently
<1>4. InputInv'
  BY <1>1, <1>3, InputTypes, InputTypesKept
<1> QED BY <1>3, <1>4 DEF InputStep

(* onMacroTimer, from there on *)
LEMMA TimerCheckSteps ==
    ASSUME InputInv, Input!MacroTimerCheck PROVE InputStep
<1>1. /\ queue = << >> /\ draining' = FALSE /\ queue' = queue /\ bits' = bits
      /\ UNCHANGED <<lastReset, extendCount>>
  BY DEF Input!MacroTimerCheck, Input!decoder
<1>2. CASE Input!Become(Input!DispatchInvertBuffer(Input!State))
  <2> DEFINE r == Input!DispatchInvertBuffer(Input!State)
  <2>1. r \in InputState /\ Given(r) = macro /\ r.macro = << >>
    BY InputStateIs, BufferSent, InputAssumption
  <2> HIDE DEF r
  <2>2. /\ macro' \in Seq(Input!Packet) /\ armed' \in BOOLEAN /\ shift' \in BOOLEAN
        /\ out' \in Seq(Item) /\ Input!Unfold(out') \o macro' = macro
    BY <1>2, <2>1, Became DEF r
  <2>3. Input!Queued(queue) = << >> /\ Input!Queued(queue') = << >>
    BY <1>1, QueuedNone
  <2>4. Input!Pending = macro /\ Input!Pending' = macro'
    <3>1. macro \in Seq(Input!Packet)
      BY InputTypes
    <3>2. macro \o << >> = macro /\ macro' \o << >> = macro'
      BY <2>2, <3>1, ConcatEmptySeq
    <3>3. Input!Pending = macro \o Input!Queued(queue) /\ Input!Pending' = macro' \o Input!Queued(queue')
      BY DEF Input!Pending
    <3> QED BY <2>3, <3>2, <3>3
  <2>5. Input!InOrder
    BY <2>2, <2>4 DEF Input!InOrder
  <2>6. InputInv'
    BY <1>1, <2>2, InputTypes, InputTypesKept
  <2> QED BY <2>5, <2>6 DEF InputStep
<1>3. CASE out' = << >> /\ UNCHANGED <<macro, armed, shift>>
  <2>1. Input!Pending' = Input!Pending
    BY <1>1, <1>3 DEF Input!Pending
  <2>2. Input!InOrder /\ out' \in Seq(Item)
    BY <1>3, <2>1, Silently
  <2>3. InputInv'
    BY <1>1, <1>3, <2>2, InputTypes, InputTypesKept
  <2> QED BY <2>2, <2>3 DEF InputStep
<1> QED BY <1>2, <1>3 DEF Input!MacroTimerCheck

(* message: a packet from ACPI *)
LEMMA NotificationSteps ==
    ASSUME InputInv, NEW p \in Input!Packet, NEW late \in BOOLEAN, Input!Notification(p, late)
    PROVE  InputStep
<1> DEFINE r == Input!InvertMacros(Input!State, p, late)
<1>1. /\ Input!Become(r) /\ queue' = queue /\ bits' = bits
      /\ UNCHANGED <<lastReset, extendCount, draining>>
  BY DEF Input!Notification, Input!decoder
<1>2. r \in InputState /\ Given(r) = Append(macro, p)
  <2>1. Input!State \in InputState /\ Given(Input!State) = macro
    BY InputStateIs
  <2> QED BY <2>1, Inverted, InputAssumption
<1> HIDE DEF r
<1>3. /\ macro' \in Seq(Input!Packet) /\ armed' \in BOOLEAN /\ shift' \in BOOLEAN
      /\ out' \in Seq(Item) /\ Input!Unfold(out') \o macro' = Append(macro, p)
  BY <1>1, <1>2, Became
<1>4. Input!InOrder
  BY <1>1, <1>3 DEF Input!InOrder
<1>5. InputInv'
  BY <1>1, <1>3, InputTypes, InputTypesKept
<1> QED BY <1>4, <1>5 DEF InputStep

(* message: a make and its break from ACPI *)
LEMMA MakeBreakSteps ==
    ASSUME InputInv, NEW k \in Key, NEW late \in BOOLEAN, Input!NotificationMakeBreak(k, late)
    PROVE  InputStep
<1> DEFINE p == [key |-> k, up |-> FALSE]
           q == [key |-> k, up |-> TRUE]
           s == Input!InvertMacros(Input!State, p, late)
           r == Input!InvertMacros(s, q, FALSE)
<1>1. /\ Input!Become(r) /\ queue' = queue /\ bits' = bits
      /\ UNCHANGED <<lastReset, extendCount, draining>>
  BY DEF Input!NotificationMakeBreak, Input!decoder
<1>2. p \in Input!Packet /\ q \in Input!Packet
  BY DEF Input!Packet
<1> HIDE DEF p, q
<1>3. s \in InputState /\ Given(s) = Append(macro, p)
  <2>1. Input!State \in InputState /\ Given(Input!State) = macro
    BY InputStateIs
  <2> QED BY <1>2, <2>1, Inverted, InputAssumption
<1> HIDE DEF s
<1>4. r \in InputState /\ Given(r) = Append(Append(macro, p), q)
  BY <1>2, <1>3, Inverted, InputAssumption
<1> HIDE DEF r
<1>5. Append(Append(macro, p), q) = macro \o <<p, q>>
  <2>1. macro \in Seq(Input!Packet)
    BY InputTypes
  <2> QED BY <1>2, <2>1
<1>6. /\ macro' \in Seq(Input!Packet) /\ armed' \in BOOLEAN /\ shift' \in BOOLEAN
      /\ out' \in Seq(Item) /\ Input!Unfold(out') \o macro' = macro \o <<p, q>>
  BY <1>1, <1>4, <1>5, Became
<1>7. Input!InOrder
  BY <1>1, <1>6 DEF Input!InOrder, p, q
<1>8. InputInv'
  BY <1>1, <1>6, InputTypes, InputTypesKept
<1> QED BY <1>7, <1>8 DEF InputStep

(* SetToSeq lists the elements of a finite set. *)
LEMMA Listed ==
    ASSUME NEW S, IsFiniteSet(S)
    PROVE  Input!SetToSeq(S) \in Seq(S) /\ Input!ToSet(Input!SetToSeq(S)) = S
<1> DEFINE n == Cardinality(S)
           g == Input!SetToSeq(S)
<1>1. Input!Cardinality(S) = Cardinality(S)
  BY DEF Input!Cardinality, Cardinality
<1>2. n \in Nat /\ \E f \in Bijection(1 .. n, S) : TRUE
  BY FS_CardinalityType, FS_NatBijection, Zenon DEF ExistsBijection
<1>3. PICK f \in Bijection(1 .. n, S) : TRUE
  BY <1>2
<1> HIDE DEF n
<1>4. f \in [1 .. n -> S] /\ Input!IsInjective(f)
  BY <1>3 DEF Bijection, Injection, IsInjective, Input!IsInjective
<1>5. g = CHOOSE h \in [1 .. n -> S] : Input!IsInjective(h)
  BY <1>1 DEF Input!SetToSeq, n
<1> HIDE DEF g
<1>6. g \in [1 .. n -> S] /\ Input!IsInjective(g)
  BY <1>4, <1>5, Zenon
<1>7. g \in Injection(1 .. n, S)
  BY <1>6 DEF Injection, IsInjective, Input!IsInjective
<1>8. IsFiniteSet(1 .. n) /\ Cardinality(1 .. n) = n
  BY <1>2, FS_Interval
<1>9. g \in Surjection(1 .. n, S)
  BY <1>7, <1>8, FS_Injection DEF n
<1>10. g \in Seq(S)
  BY <1>2, <1>6
<1>11. Input!ToSet(g) = S
  BY <1>6, <1>9 DEF Input!ToSet, Surjection
<1> QED BY <1>10, <1>11 DEF g

(* initKeyboard, on a wake *)
LEMMA WakeInputSteps ==
    ASSUME InputInv, Input!InitKeyboard PROVE InputStep
<1> DEFINE F == [k \in bits |-> Input!Plain([key |-> k, up |-> TRUE])]
           breaks == {Input!Plain([key |-> k, up |-> TRUE]) : k \in bits}
<1>1. /\ out' = Input!SetToSeq(breaks) /\ bits' = {} /\ shift' = FALSE /\ extendCount' = 0
      /\ queue' = << >> /\ UNCHANGED <<lastReset, macro, armed, draining>>
  BY DEF Input!InitKeyboard
<1>2. bits \subseteq Key /\ IsFiniteSet(bits)
  BY InputTypes
<1>3. breaks \subseteq Item
  <2>1. ASSUME NEW k \in bits PROVE Input!Plain([key |-> k, up |-> TRUE]) \in Item
    <3>1. [key |-> k, up |-> TRUE] \in Input!Packet
      BY <1>2 DEF Input!Packet
    <3> QED BY <3>1, PlainIs, InputAssumption
  <2> QED BY <2>1
<1>4. IsFiniteSet(breaks)
  <2>1. F \in Surjection(bits, breaks)
    BY DEF Surjection
  <2> HIDE DEF F, breaks
  <2> QED BY <1>2, <2>1, FS_Surjection
<1>5. out' \in Seq(breaks) /\ Input!ToSet(out') = breaks
  <2> HIDE DEF breaks
  <2> QED BY <1>1, <1>4, Listed
<1>6. out' \in Seq(Item)
  <2> HIDE DEF breaks
  <2> QED BY <1>3, <1>5
<1>7. Input!InOrder
  BY <1>1, <1>5 DEF Input!InOrder
<1>8. InputInv'
  <2>1. << >> \in Seq(Slot) /\ Len(<< >>) < KeySlots /\ IsFiniteSet({})
    <3>1. KeySlots \in Nat /\ KeySlots > 1
      BY InputAssumption DEF Input!Assumptions
    <3>2. Len(<< >>) < KeySlots
      BY <3>1
    <3>3. IsFiniteSet({})
      BY FS_EmptySet
    <3> QED BY <3>2, <3>3, EmptySeq
  <2>2. queue' \in Seq(Slot) /\ Len(queue') < KeySlots /\ IsFiniteSet(bits')
    BY <1>1, <2>1, Zenon
  <2>3. bits' \subseteq Key \ Breakless /\ extendCount' \in 0 .. 2 /\ shift' \in BOOLEAN
    <3>1. bits' = {} /\ extendCount' = 0 /\ shift' = FALSE
      BY <1>1, Zenon
    <3>2. bits' \subseteq Key \ Breakless
      BY <3>1
    <3>3. extendCount' \in 0 .. 2
      BY <3>1
    <3>4. shift' \in BOOLEAN
      BY <3>1, Zenon
    <3> QED BY <3>2, <3>3, <3>4
  <2>4. /\ lastReset' \in BOOLEAN /\ macro' \in Seq(Input!Packet) /\ armed' \in BOOLEAN
        /\ draining' \in BOOLEAN
    BY <1>1, InputTypes
  <2> QED BY <1>6, <2>2, <2>3, <2>4, InputTypesKept
<1> QED BY <1>7, <1>8 DEF InputStep

(* Every step keeps the invariant and the order. *)
LEMMA InputSteps ==
    ASSUME InputInv, Input!Next
    PROVE  InputStep
<1>1. CASE Input!InterruptOccurred
  BY <1>1, ResetByteSteps, OtherByteSteps, KeyByteSteps DEF Input!InterruptOccurred
<1>2. CASE \E late \in BOOLEAN : Input!PacketReady(late)
  BY <1>2, PacketReadySteps
<1>3. CASE \E key \in Notified, up \in BOOLEAN, late \in BOOLEAN :
              Input!Notification([key |-> key, up |-> up], late)
  <2>1. PICK key \in Notified, up \in BOOLEAN, late \in BOOLEAN :
              Input!Notification([key |-> key, up |-> up], late)
    BY <1>3
  <2>2. [key |-> key, up |-> up] \in Input!Packet
    BY InputAssumption DEF Input!Assumptions, Input!Packet
  <2> QED BY <2>1, <2>2, NotificationSteps
<1>4. CASE \E key \in Notified, late \in BOOLEAN : Input!NotificationMakeBreak(key, late)
  <2>1. Notified \subseteq Key
    BY InputAssumption DEF Input!Assumptions
  <2> QED BY <1>4, <2>1, MakeBreakSteps
<1> QED BY <1>1, <1>2, <1>3, <1>4, MacroTimerSteps, TimerCheckSteps, WakeInputSteps DEF Input!Next

(* The inductive invariant of the keyboard's input holds in every state    *)
(* (interruptOccurred, packetReady).                                       *)
THEOREM InputInvariant == Input!Spec => []InputInv
<1>1. Input!Init => InputInv
  <2>1. << >> \in Seq(Slot) /\ << >> \in Seq(Input!Packet) /\ << >> \in Seq(Item)
    BY EmptySeq
  <2>2. Len(<< >>) < KeySlots /\ IsFiniteSet({})
    <3>1. KeySlots \in Nat /\ KeySlots > 1
      BY InputAssumption DEF Input!Assumptions
    <3>2. Len(<< >>) < KeySlots
      BY <3>1
    <3>3. IsFiniteSet({})
      BY FS_EmptySet
    <3> QED BY <3>2, <3>3, EmptySeq
  <2> SUFFICES ASSUME Input!Init PROVE InputInv
    OBVIOUS
  <2>3. /\ lastReset = FALSE /\ extendCount = 0 /\ bits = {} /\ queue = << >> /\ macro = << >>
        /\ armed = FALSE /\ draining = FALSE /\ shift = FALSE /\ out = << >>
    BY DEF Input!Init
  <2>4. queue \in Seq(Slot) /\ macro \in Seq(Input!Packet) /\ out \in Seq(Item)
    BY <2>1, <2>3, Zenon
  <2>5. Len(queue) < KeySlots /\ IsFiniteSet(bits)
    BY <2>2, <2>3, Zenon
  <2>6. bits \subseteq Key \ Breakless /\ extendCount \in 0 .. 2
    BY <2>3
  <2> QED BY <2>3, <2>4, <2>5, <2>6 DEF InputInv, Input!TypeOK, Slot, Item
<1>2. InputInv /\ [Input!Next]_Input!vars => InputInv'
  <2> SUFFICES ASSUME InputInv, [Input!Next]_Input!vars PROVE InputInv'
    OBVIOUS
  <2>1. CASE Input!Next
    BY <2>1, InputSteps DEF InputStep
  <2>2. CASE UNCHANGED Input!vars
    BY <2>2 DEF Input!vars, InputInv, Input!TypeOK
  <2> QED BY <2>1, <2>2
<1> QED BY <1>1, <1>2, PTL DEF Input!Spec

(* For every keyboard, ring and list of macros, a packet is dispatched     *)
(* once, in order, by itself or inside one macro (packetReady,             *)
(* invertMacros, dispatchInvertBuffer, message).                           *)
THEOREM PacketsGoOnceInOrder == KeyboardSpec => DispatchedOnceInOrder
<1>1. InputInv /\ [Input!Next]_Input!vars => [Input!InOrder]_Input!vars
  BY InputSteps DEF InputStep
<1> QED BY <1>1, InputInvariant, KeyboardHalves, PTL
        DEF Input!Spec, DispatchedOnceInOrder, Input!DispatchedOnceInOrder

(***************************************************************************)
(* The safety that HeldBackIsSent needs from the code; what is left is     *)
(* that timers fire and that the ring is empty again and again.            *)
(***************************************************************************)

(* A packet that is held back has the timer set, or onMacroTimer is at     *)
(* work and has still to look at it: also after a handler that took the    *)
(* timer's turn, a macro that ended, and a wake, which keeps the buffer.   *)
HeldBackHasTimer == macro # << >> => armed \/ draining

(* What a handler that becomes the result of invertMacros leaves *)
LEMMA BecomesTimed ==
    ASSUME NEW s, s.macro = << >> \/ s.armed, Input!Become(s)
    PROVE  HeldBackHasTimer'
BY DEF Input!Become, HeldBackHasTimer

(* A packet held back always has the timer set, or onMacroTimer about to   *)
(* deal with it (invertMacros, onMacroTimer, message, initKeyboard).       *)
THEOREM HeldBackTimed == KeyboardSpec => []HeldBackHasTimer
<1>1. Input!Init => HeldBackHasTimer
  BY DEF Input!Init, HeldBackHasTimer
<1>2. InputInv /\ HeldBackHasTimer /\ [Input!Next]_Input!vars => HeldBackHasTimer'
  <2> SUFFICES ASSUME InputInv, HeldBackHasTimer, [Input!Next]_Input!vars
               PROVE  HeldBackHasTimer'
    OBVIOUS
  <2>0. Input!State \in InputState /\ Input!Assumptions
    BY InputStateIs, InputAssumption
  <2>1. CASE Input!InterruptOccurred \/ Input!InitKeyboard \/ UNCHANGED Input!vars
    <3>1. UNCHANGED <<macro, armed, draining>>
      BY <2>1 DEF Input!InterruptOccurred, Input!SpontaneousReset, Input!AnswerByte,
                  Input!PrefixByte, Input!KeyByte, Input!InitKeyboard, Input!vars
    <3> QED BY <3>1 DEF HeldBackHasTimer
  <2>2. CASE \E late \in BOOLEAN : Input!PacketReady(late)
    <3>1. PICK late \in BOOLEAN : Input!PacketReady(late)
      BY <2>2
    <3> DEFINE r == Input!InvertMacros(Input!State, Head(queue), late)
    <3>2. CASE Head(queue) = Input!ResetPacket
      BY <3>1, <3>2 DEF Input!PacketReady, HeldBackHasTimer
    <3>3. CASE Head(queue) # Input!ResetPacket
      <4>1. Head(queue) \in Input!Packet
        <5>1. queue \in Seq(Slot) /\ queue # << >>
          BY <3>1, InputTypes DEF Input!PacketReady
        <5> QED BY <3>3, <5>1, HeadTailProperties DEF Slot
      <4>2. r.macro = << >> \/ r.armed
        BY <2>0, <4>1, Inverted
      <4>3. Input!Become(r)
        BY <3>1, <3>3 DEF Input!PacketReady
      <4> HIDE DEF r
      <4> QED BY <4>2, <4>3, BecomesTimed
    <3> QED BY <3>2, <3>3
  <2>3. CASE Input!OnMacroTimer
    BY <2>3 DEF Input!OnMacroTimer, HeldBackHasTimer
  <2>4. CASE Input!MacroTimerCheck
    <3> DEFINE r == Input!DispatchInvertBuffer(Input!State)
    <3>1. r.macro = << >>
      BY <2>0, BufferSent
    <3>2. \/ Input!Become(r)
          \/ (macro = << >> \/ armed) /\ macro' = macro /\ armed' = armed
      BY <2>4 DEF Input!MacroTimerCheck
    <3> HIDE DEF r
    <3> QED BY <3>1, <3>2, BecomesTimed DEF HeldBackHasTimer
  <2>5. CASE \E key \in Notified, up \in BOOLEAN, late \in BOOLEAN :
                Input!Notification([key |-> key, up |-> up], late)
    <3>1. PICK key \in Notified, up \in BOOLEAN, late \in BOOLEAN :
                Input!Notification([key |-> key, up |-> up], late)
      BY <2>5
    <3> DEFINE p == [key |-> key, up |-> up]
               r == Input!InvertMacros(Input!State, p, late)
    <3>2. p \in Input!Packet
      BY <2>0 DEF Input!Assumptions, Input!Packet
    <3>3. Input!Become(r)
      BY <3>1 DEF Input!Notification
    <3> HIDE DEF p
    <3>4. r.macro = << >> \/ r.armed
      BY <2>0, <3>2, Inverted
    <3> HIDE DEF r
    <3> QED BY <3>3, <3>4, BecomesTimed
  <2>6. CASE \E key \in Notified, late \in BOOLEAN : Input!NotificationMakeBreak(key, late)
    <3>1. PICK key \in Notified, late \in BOOLEAN : Input!NotificationMakeBreak(key, late)
      BY <2>6
    <3> DEFINE p == [key |-> key, up |-> FALSE]
               q == [key |-> key, up |-> TRUE]
               s == Input!InvertMacros(Input!State, p, late)
               r == Input!InvertMacros(s, q, FALSE)
    <3>2. p \in Input!Packet /\ q \in Input!Packet
      BY <2>0 DEF Input!Assumptions, Input!Packet
    <3>3. Input!Become(r)
      BY <3>1 DEF Input!NotificationMakeBreak
    <3> HIDE DEF p, q
    <3>4. s \in InputState
      BY <2>0, <3>2, Inverted
    <3> HIDE DEF s
    <3>5. r.macro = << >> \/ r.armed
      BY <2>0, <3>2, <3>4, Inverted
    <3> HIDE DEF r
    <3> QED BY <3>3, <3>5, BecomesTimed
  <2> QED BY <2>1, <2>2, <2>3, <2>4, <2>5, <2>6 DEF Input!Next
<1> QED BY <1>1, <1>2, InputInvariant, KeyboardHalves, PTL DEF Input!Spec
=============================================================================
