SPECIFICATION Spec
CONSTANTS
    Byte <- MCByte
    Sends <- MCSends
    Size = 3
    WriteCounts <- OneByte
INVARIANTS TypeOK StoresIntoRoom AvailableStaysTrue
PROPERTY PortsArePipes
