SPECIFICATION Spec
CONSTANTS
    Nodes = {1, 2}
    Routes <- MCMixed
    FlagSets <- MCStart
    MaxCommands = 2
INVARIANT SomeoneKeepsSyncing
