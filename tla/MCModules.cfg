SPECIFICATION ModulesSpec
CONSTANTS
    Sets = {s1}
    Addr = {1, 2, 3, 4}
    Associativity = 2
    HistoryMultiplier = 3
    MaxAccesses = 9
    NumWays = 3
    ArchRegs = {1, 2}
    RegisterFileSize = 4
    InstrIds = {1, 2, 3}
    Operands = {1, 2}
    NumLRUWay = 3
    MaxCycle = 7
    NumWay = 2
    Line = {a, b, c}
    IP = {p, q}
    NoLine = NoLine
    NoIP = NoIP
    maxRRPV = 3
    BrripMax = 2
    CounterSpan = 4
    PselMax = 2
    ShctMax = 2
    MaxSteps = 5
    NUM_WAY = 2
    Tag = {1, 2, 3}
    Value = {1, 2}
    DefaultTag = 1
    DefaultValue = 1
    MaxUses = 5
    IPs = {1, 2}
    Block = {0, 1, 2, 4}
    TRACKER_WAYS = 1
    PREFETCH_DEGREE = 2
    PageBlocks = 4
    virtual_prefetch = FALSE
    MaxLoads = 5
    Traces <- MCTraces
    buffer_size = 3
    refresh_thresh = 1
    Records <- MCRecords
    FirstBump = 1
    NumSources = 4
    MaxRecords = 2
INVARIANTS
    WindowInv
    MatchesOptimal
    EvictionOrder
    RegistersPartitioned
    VictimsAreOldest
    LookaheadContinuesStride
    TablesRemember
    TracesKeepTheProgram
PROPERTIES
    ImplementsReuseIntervals
    SearchEnds
    ImplementsRRIP
    SimulationEnds
CHECK_DEADLOCK FALSE
