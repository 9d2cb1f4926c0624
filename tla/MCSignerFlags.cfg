SPECIFICATION SignerSpec
CONSTANTS
    a = a
    h = h
    pa = pa
    ph = ph
    b = b
    n1 = n1
    n2 = n2
    np = np
    ex = ex
    Zeroed = Zeroed
    NoEnvelope = NoEnvelope
    Address <- MCAddress
    NonceAddress <- MCNonceAddress
    NonceProgram = np
    ExecutorProgram = ex
    KeyHolder <- MCKeyHolder
    Commitment <- MCCommitment
    MinBalance <- MCMinBalance
    InitLedger <- MCInitLedger
    Body <- MCBody
    DirectCall <- MCDirectCall
    Authority <- MCAuthority
    Pda <- MCPda
    EnvelopeShape <- MCShape
    RelayWritable <- MCSomeWritable
    U64Max = 8
    MaxMessages = 2
    MaxSteps = 2
    MaxSlot = 2
    MaxInstructions = 2
    MaxApprovals = 2
INVARIANT
    WritableFlagsMatch
CHECK_DEADLOCK FALSE
