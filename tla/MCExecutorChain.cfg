SPECIFICATION Spec
CONSTANTS
    n1 = n1
    n2 = n2
    a = a
    b = b
    r = r
    np = np
    Zeroed = Zeroed
    Address <- MCAddress
    NonceAddress <- MCOneNonceAddress
    NonceProgram = np
    KeyHolder <- MCChainKeyHolder
    Commitment <- MCCommitment
    MinBalance <- MCMinBalance
    InitLedger <- MCInitLedger
    Body <- MCChainBody
    DirectCall <- MCChainDirectCall
    U64Max = 7
    MaxMessages = 3
    MaxSteps = 3
    MaxSlot = 2
    MaxInstructions = 2
INVARIANTS
    ChainInOrder
CHECK_DEADLOCK FALSE
