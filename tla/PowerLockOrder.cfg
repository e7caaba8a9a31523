CONSTANTS
    Keyboard = "keyboard"
    Mice <- OneMouse
    LocksOnWake = {"pad"}
    MouseWakeFirst = FALSE
    Overlap = TRUE
SPECIFICATION FairSpec
PROPERTIES TransitionEnds
