\* A ring that holds three packets; packets of two bytes tell
\* torn packets from whole ones.
CONSTANTS
    Byte = {b0, b1}
    PacketLength = 2
    Slots = 4
SPECIFICATION FairSpec
INVARIANTS NoTornRead
PROPERTIES EveryPacketHandled DropsOnlyWhenFull ImplementsFifo
