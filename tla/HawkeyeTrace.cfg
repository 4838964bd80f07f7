SPECIFICATION HawkeyeTraceSpec
CONSTANTS
    Sets = {s1}
    Addr = {a1, a2, a3}
    Associativity = 2
    NumWays = 2
    HistoryMultiplier = 1
    MaxAccesses = 5
    p1 = p1
    p2 = p2
    PC <- MCPC
    NoPC = NoPC
    Entries = {0, 1}
    PcIndex <- MCPcIndex
    NoLine = NoLine
SYMMETRY Permuted
INVARIANTS
    MirrorCoherent
PROPERTY
    TrainingIsAttributed
CHECK_DEADLOCK FALSE
