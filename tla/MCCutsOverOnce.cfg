SPECIFICATION Spec
CONSTANTS
    w1 = w1  w2 = w2  e1 = e1  e2 = e2  d1 = d1  d2 = d2  r1 = r1  r2 = r2
    NoWallet = NoWallet
    Wallets = {w1, w2}
    Editors = {e1}
    Deliveries = {d1, d2}
    Runners = {}
    MaxCommits = 2
    MaxClaims = 2
    MaxToggles = 0
    MaxPushes = 0
    MaxRuns = 1
    Redelivery = TRUE
    Resumes = {}
    Faults = {"stuck_build"}
SYMMETRY MCSymmetry
\* The bounds end every behaviour, and a deleted automation stays deleted.
CHECK_DEADLOCK FALSE
INVARIANTS
    CutsOverOnce
