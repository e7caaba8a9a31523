CONSTANTS
    Port = {"kbd", "aux"}
    Request = {"leds", "reset"}
    Blocking = {"reset"}
    PortOf <- ResetPort
    Program <- ResetProgram
    Answers = {"ack", "nak", "none"}
    OneCpu = TRUE
    Prompt = FALSE
    Window = 1
    DataBound = 1
SPECIFICATION FairSpec
INVARIANTS QueuedFirst
PROPERTIES RequestsComplete
CHECK_DEADLOCK FALSE
