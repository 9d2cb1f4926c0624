SPECIFICATION Spec
CONSTANTS
    a = a
    b = b
    v = v
    pa = pa
    pb = pb
    clock = clock
    stake = stake
    vote = vote
    mint = mint
    program = program
    data = data
    ata = ata
    pata = pata
    patb = patb
    other = other
    nowhere = nowhere
    Address <- MCAddress
    OnCurve = {a, b}
    Pda <- MCPda
    Ata <- MCAta
    Clock = clock
    Nobody = Nobody
    Default = Default
    Rent = 2
    TokenRent = 2
    Cases <- MCCases
    Strangers = {b}
    Nothing = Nothing
    Refusal = Refusal
    MaxChanges = 1
INVARIANTS
    RunsIfUnchanged
    ListsWhatIsControlled
    SuggestionsStand
PROPERTIES
    MovesWhatItReports
CHECK_DEADLOCK FALSE
