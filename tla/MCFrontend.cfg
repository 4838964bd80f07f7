SPECIFICATION FairFrontendSpec
CONSTANTS
    Programs <- MCPrograms
    Configs <- MCConfigs
INVARIANTS ProgramOrderRestored FetchIsOutstanding StoppedFetchHasCause
PROPERTY EveryInstructionDelivered
