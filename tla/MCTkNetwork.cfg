SPECIFICATION Spec
CONSTANTS
    Nodes = {1, 2}
    Routes <- MCMixed
    FlagSets <- MCSync
    MaxCommands = 2
INVARIANTS
    TypeOK
    CleanPassReachedAll
    NeverOwnMaster
    SoleMasterKeepsRole
PROPERTIES
    PassEnds
    CallEnds
    NodesKeepPromise
