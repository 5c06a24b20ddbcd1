SPECIFICATION Spec
CONSTANTS
    c1 = c1
    c2 = c2
    Consoles = {c1, c2}
    Orders <- MCOrders
    MaxCommands = 2
    TxnTimeout = 1
    SyncTimeout = 2
    MaxWait = 3
INVARIANTS TypeOK SuccessMeansServedOnce ShownWasTrue FailsForAReason
PROPERTIES ObeysOrder CommandReturns
