CONSTANTS
    Pads <- MCPads
    SynapticsPads <- MCSynapticsPads
    QuietPackets = 2
    QuietFingers = 2
    MaxPointers = 2
    OpcValues = {0, 3, 20, 72, 105, 110, 114, 127, 255}
SPECIFICATION Spec
INVARIANTS  NoStuckButton ContactsAreFingers 
    NotLockedOut  PlainPacketResyncs TapsAreFiltered
PROPERTIES StickButtonKept
