SPECIFICATION PolicySpec
CONSTANTS
    NumWay = 2
    Line = {a, b, c}
    IP = {p}
    NoLine = NoLine
    NoIP = NoIP
    maxRRPV = 3
    BrripMax = 2
    CounterSpan = 4
    PselMax = 2
    ShctMax = 2
    MaxSteps = 4
PROPERTY FilledIsLong
CHECK_DEADLOCK FALSE
