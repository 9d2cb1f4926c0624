SPECIFICATION Spec
CONSTANTS
    n1 = n1
    n2 = n2
    a = a
    b = b
    r = r
    np = np
    Zeroed = Zeroed
    Address <- MCAddress
    NonceAddress <- MCNonceAddress
    NonceProgram = np
    KeyHolder <- MCKeyHolder
    Commitment <- MCCommitment
    MinBalance <- MCMinBalance
    InitLedger <- MCInitLedger
    Body <- MCBody
    DirectCall <- MCDirectCall
    U64Max = 7
    MaxMessages = 2
    MaxSteps = 3
    MaxSlot = 3
    MaxInstructions = 2
INVARIANTS
    TypeOK
    OneExecutionPerNonce
    AllOrNothing
PROPERTIES
    WithinHeader
CHECK_DEADLOCK FALSE
