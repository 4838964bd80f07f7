SPECIFICATION CacheSpec
CONSTANTS
    u1 = u1
    u2 = u2
    a1 = a1
    a2 = a2
    a3 = a3
    s1 = s1
    Line = {a1, a2}
    CacheSets = {s1}
    SetOf <- OneSet
    PqSize = 1
    MaxFill = 1
    HitLatency = 1
    FillLatency = 1
    LowerSize = 1
    PrefetchAsLoad = FALSE
    Translates = FALSE
    VirtualPrefetch = FALSE
    PageOf <- OwnPage
    NoBlock = NoBlock
    Upper = {u1}
    NumWay = 1
    MshrSize = 1
    MaxTag = 2
    UpperSize = 1
    MatchOffsetBits = FALSE
    MaxRequests = 3
INVARIANT
    WrittenIsDirty
