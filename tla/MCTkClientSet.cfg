SPECIFICATION Spec
CONSTANTS
    c1 = c1
    c2 = c2
    Consoles = {c1}
    Orders <- MCOne
    MaxCommands = 1
    TxnTimeout = 1
    SyncTimeout = 2
    MaxWait = 3
INVARIANT SetMeansSet
