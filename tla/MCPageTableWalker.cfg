SPECIFICATION FairPTWSpec
CONSTANTS
    Cpu = {1}
    cpu = 1
    pt_levels = 3
    Offset = {1, 2}
    Frame = {1, 2, 3, 4, 5, 6}
    FirstFrame = 0
    PtePages = 2
    Upper = {u1}
    BlockOf <- MCBlockOf
    PSCL_WAY = 1
    MAX_READ = 1
    MAX_FILL = 1
    HIT_LATENCY = 1
    minor_fault_penalty = 1
    WalkPages <- MCWalkPages
    UpperSize = 1
    LowerSize = 1
    MaxSame = 1
INVARIANTS
    StepsOutstanding
    WalkStaysOnPath
    WalksOwedOnce
    FramesDistinct
PROPERTIES
    EveryWalkEnds
