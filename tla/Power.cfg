CONSTANTS
    Keyboard = "keyboard"
    Mice <- OneMouse
    LocksOnWake = {"pad"}
    MouseWakeFirst = FALSE
    Overlap = FALSE
SPECIFICATION FairSpec
INVARIANTS SleepSilences WakeRestores
PROPERTIES TransitionEnds
