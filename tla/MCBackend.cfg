SPECIFICATION FairBackendSpec
CONSTANTS
    ArchRegs = {1, 2}
    RegisterFileSize = 4
    NoEntry = NoEntry
    Never = 99
    Addresses = {1, 2, 3}
    Programs <- MCPrograms
    Configs <- MCConfigs
    BlockOf <- MCBlockOf
INVARIANTS
    MemOpsAccounted
    NoLoadPassesItsStore
    RegistersAreAccounted
    SourcesAreLatestWriters
PROPERTY
    EveryInstructionRetires
