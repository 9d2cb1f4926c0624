SPECIFICATION Spec
CONSTANTS
    Address = {1, 2, 3, 4, 5, 6, 7, 8, 9, 10, 11, 12, 13}
    Pda <- MCPda
    NonceProgram = 9
    ExecutorProgram = 10
    SignerProgram = 11
    DurableKeys = {12}
    MaxSignatures = 4
    MaxAddresses = 12
    MaxUnits = 26
    NoDurable = NoDurable
    NoHash = NoHash
    Participant = {1, 2}
    Requests <- MCRequests
    Listings <- MCListings
    KeyHolder <- MCKeyHolder
    FeePayers = {4, 6}
    Durables <- MCDurables
    NotYet = NotYet
INVARIANTS
    OneEnvelope
    HeaderIsExact
    RolesAgree
    SubmittedIsAccepted
    Completable
    SimulationPredicts
CHECK_DEADLOCK FALSE
