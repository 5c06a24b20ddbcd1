SPECIFICATION Spec
CONSTANTS
    Base = 4
    Datas <- MCDatas
    Peers <- MCPeers
    Exact = 4096
    Capacity = 6
    MinAlloc = 3
    DefCapacity = 4
    HeaderSize = 5
    Lengths <- MCLengths
INVARIANTS TypeOK FillsItsBuffer RecognizedAsBuilt ServedAsBuilt PrintedAsBuilt
    LosesNothingElse TextFits
