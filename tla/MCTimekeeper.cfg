SPECIFICATION Spec
CONSTANTS
    Handlers = {h1}
    Addr <- MCAddr
    Self = 1
    Routes <- MCRoutesPeer
    Masters = {2}
    FlagSets <- MCConsole
    Freqs <- MCFreqs
    Times = {0}
    TimeMod = 1
    LongMod = 8
    TickMod = 8
    DefFrequency = 5
    Garbage = {7}
    ServeDuringBoot = TRUE
INVARIANTS
    TypeOK
    PassErrorAccurate
    SleepIsBounded
PROPERTIES
    RequestAnswered
    ContinuousKeepsSyncing
    OnceEnds
    RestingGoesQuiet
