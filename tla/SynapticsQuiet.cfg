CONSTANTS
    SynapticsPads <- MCSynapticsPads
    QuietPackets = 2
    QuietFingers = 2
SPECIFICATION Spec
INVARIANTS EventMatchesCount
