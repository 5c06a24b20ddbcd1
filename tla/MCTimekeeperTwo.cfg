SPECIFICATION Spec
CONSTANTS
    Handlers = {h1, h2}
    Addr <- MCAddr
    Self = 1
    Routes <- MCRoutes
    Masters = {2}
    FlagSets <- MCRoles
    Freqs <- MCFreqsNone
    Times = {0}
    TimeMod = 1
    LongMod = 8
    TickMod = 8
    DefFrequency = 5
    Garbage = {7}
    ServeDuringBoot = FALSE
INVARIANTS
    WaiterSeesCompletion
    ActiveIsMaster
PROPERTIES
    KeepsPromise
SYMMETRY MCSymmetry
