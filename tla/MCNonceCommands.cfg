SPECIFICATION FairSpec
CONSTANTS
    r1 = r1
    r2 = r2
    w = w
    h = h
    a = a
    ph = ph
    pa = pa
    pn = pn
    b = b
    n = n
    stranger = stranger
    Zeroed = Zeroed
    All = All
    NoNonce = NoNonce
    Unknown = Unknown
    MaxSigned = 1
    MaxInFlight = 1
    Run = {r1, r2}
    Persistent = r1
    FeePayer = w
    Stranger = stranger
    Address <- MCAddress
    Commitment <- MCCommitment
    MinBalance <- MCMinBalance
    Pda <- MCPda
    Asks <- MCAsks
    InitLedgers <- MCLedgers
    DepositAmounts <- MCDeposits
    U64Max = 8
    MaxSlot = 3
    MaxAdvances = 2
INVARIANTS
    TypeOK
    AdvanceReportIsTrue
PROPERTIES
    CreatedForItsAuthority
    GuardedPartialStaysOpen
    AdvancePrevails
CHECK_DEADLOCK FALSE
