SPECIFICATION FairSpec
CONSTANTS
    Address = {1, 2, 3, 4, 5, 6, 7, 8, 9, 10, 11, 12, 13}
    Pda <- MCPda
    NonceProgram = 9
    ExecutorProgram = 10
    SignerProgram = 11
    DurableKeys = {12}
    MaxSignatures = 4
    MaxAddresses = 14
    MaxUnits = 40
    NoDurable = NoDurable
    NoHash = NoHash
    Chain <- MCChain
    KeyHolder = {2, 4, 6}
    RelayKeyHolder = {4, 6}
    FeePayer = 4
    Durable <- MCDurable
    Nothing = Nothing
    Salt = Salt
    MaxRecent = 1
    MaxDurable = 1
    MaxCollected = 2
    MaxInFlight = 1
INVARIANTS
    OneRelayTransaction
    EveryoneConsented
    ReportIsTrue
PROPERTIES
    SignedAheadRuns
CHECK_DEADLOCK FALSE
