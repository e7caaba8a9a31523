-------------------------- MODULE MCFocalTechTouch --------------------------
(***************************************************************************)
(* The FocalTech driver, for TLC: either FocalTechTouch, whose handlers    *)
(* are steps, or FocalTechForceRace, where they interleave; part tells     *)
(* which.  The variables of the other module keep their first values.      *)
(*                                                                         *)
(* The pad has the smallest size readDimensions accepts.  One absolute     *)
(* position lies in the right-click zone, the other is more than           *)
(* kForceMoveCancel away from it; a relative step from the far edge stays  *)
(* within the threshold and two of them leave it.                          *)
(***************************************************************************)
EXTENDS FocalTechTouch

MCPosition == {<<100, 10>>, <<20, 120>>}
MCDelta == {<<0, -60>>}

VARIABLES
    part,
    pressed, wasPressed, eligible, active, finger, left, raceButtons, timer, pc,
    current, raceClient         \* of FocalTechForceRace

race == <<pressed, wasPressed, eligible, active, finger, left, raceButtons, timer, pc,
          current, raceClient>>

Race == INSTANCE FocalTechForceRace WITH lastButtons <- raceButtons, client <- raceClient

InitEither == part \in {"touch", "race"} /\ Init /\ Race!Init

NextEither ==
    \/ part = "touch" /\ Next /\ UNCHANGED <<part, race>>
    \/ part = "race" /\ Race!Next /\ UNCHANGED <<part, vars>>

(* Both work loops run, and two seconds pass although packets keep coming. *)
FairEither ==
    /\ InitEither /\ [][NextEither]_<<part, vars, race>>
    /\ WF_race(Race!HandlePacket) /\ WF_race(Race!TimerThread)
    /\ SF_race(Race!HoldElapses)

(* However packetReady and forceTimerFired interleave, a still hold is     *)
(* promoted to a Force Click or ends with the release.                     *)
HoldIsResolved == Race!HoldIsResolved
=============================================================================
