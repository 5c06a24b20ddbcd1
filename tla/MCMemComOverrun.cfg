SPECIFICATION Spec
CONSTANTS
    Byte <- MCByte
    Sends <- MCSends
    Size = 3
    WriteCounts <- TwoBytes
INVARIANT StoresIntoRoom
