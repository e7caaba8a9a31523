\* The extended key has no break codes and is also reported by ACPI; two
\* packets fill the ring.  Every setting that adds a special case is made.
CONSTANTS
    Codes = {"2a", "00", "x"}
    Key <- MCKey
    Notified <- MCExtended
    Breakless <- MCExtended
    Macros <- MCMacros
    KeySlots = 3
    ScanOrder <- MCScanOrder
    Command = "lalt"
    Features = {"prntscr", "numlock", "backlight", "brightness", "fkeymode",
                "sleepdelay", "ejectdelay"}
    MaxHeld = 3
SPECIFICATION FairKeyboard
 
PROPERTIES  HeldBackIsSent SleepNeedsHold
