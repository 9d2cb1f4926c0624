SPECIFICATION Spec
CONSTANTS
    n1 = n1
    n2 = n2
    wallet = wallet
    cold = cold
    c1 = c1
    c2 = c2
    Zeroed = Zeroed
    Address <- MCAddress
    NonceAddress <- MCNonceAddress
    Commitment <- MCCommitment
    MinBalance <- MCMinBalance
    Supply <- MCSupply
    Cold <- MCCold
    TransactionSigners <- MCTransactionSigners
    U64Max = 4
    MaxSlot = 3
    MaxSteps = 1
INVARIANTS
    TypeOK
    RetiredStaysRetired
    StaysRentExempt
    NeverStranded
    Conserved
PROPERTIES
    ColdAuthorityUntouched
    ImplementsSingleUse
CHECK_DEADLOCK FALSE
