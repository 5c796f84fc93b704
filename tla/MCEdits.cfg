SPECIFICATION Spec
CONSTANTS
    w1 = w1  w2 = w2  e1 = e1  e2 = e2  d1 = d1  d2 = d2  r1 = r1  r2 = r2
    NoWallet = NoWallet
    Wallets = {w1, w2}
    Editors = {e1, e2}
    Deliveries = {d1, d2}
    Runners = {}
    MaxCommits = 3
    MaxClaims = 3
    MaxToggles = 0
    MaxPushes = 0
    MaxRuns = 2
    Redelivery = FALSE
    Resumes = {}
    Faults = {"git", "editor", "stuck_build", "capp", "record"}
SYMMETRY MCSymmetry
\* The bounds end every behaviour, and a deleted automation stays deleted.
CHECK_DEADLOCK FALSE
INVARIANTS
    IInv
    DriftIsLogged
    DeploymentInRowWallet
    BuildLockSound
PROPERTIES
    CutoverIsNewestRequest
