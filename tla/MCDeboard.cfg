SPECIFICATION FairSpec
CONSTANTS
    a1 = a1  a2 = a2  p1 = p1
    Wallet = Wallet
    Elsewhere = Elsewhere
    Children = {a1, a2}
    Passes = {p1}
INVARIANTS
    TypeOK
    ReportsAreTrue
    EveryChildReported
PROPERTIES
    OriginalDeleterStays
    WalletEmpties
