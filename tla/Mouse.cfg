CONSTANTS
    Masks <- MCMasks
    ButtonCounts = {2, 3}
    Kinds = {"standard", "wheel", "explorer", "early"}
    Pressed = {{}, {"left", "right"}, {"middle"}}
    Moves = {0, 170}
    Wheels = {0, 8}
    ForcedRes = 1
    Slots = 3
    ResetLimit = 2
SPECIFICATION FairMouse
INVARIANTS PressIsKept Framed StillReportResyncs
PROPERTIES PressIsShown 
