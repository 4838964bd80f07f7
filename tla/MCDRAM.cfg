SPECIFICATION FairDRAMSpec
CONSTANTS
    u1 = u1
    AddressBits = 12
    NoPacket = NoPacket
    NoRow = NoRow
    Upper = {u1}
    Line = {0, 4}
    NumBanks = 2
    BankOf <- MCBankOf
    RowOf <- MCRowOf
    GroupOf <- MCGroupOf
    RQ_SIZE = 2
    WQ_SIZE = 2
    tCAS = 1
    tRP = 1
    tRCD = 1
    tRFC = 1
    tREF = 3
    TURN_AROUND = 1
    RETURN = 2
    STALL = 0
    UpperSize = 1
    MaxWrites = 1
INVARIANTS
    BankPacketsExist
    EveryReadOwedOnce
PROPERTIES
    RefreshNotForgotten
    EveryReadAnswered
