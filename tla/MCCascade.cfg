SPECIFICATION FairSpec
CONSTANTS
    w1 = w1  w2 = w2  e1 = e1  e2 = e2  d1 = d1  d2 = d2  r1 = r1  r2 = r2
    NoWallet = NoWallet
    Wallets = {w1}
    Editors = {}
    Deliveries = {d1}
    Runners = {r1, r2}
    MaxCommits = 1
    MaxClaims = 1
    MaxToggles = 0
    MaxPushes = 1
    MaxRuns = 1
    Redelivery = TRUE
    Resumes = {r1}
    Faults = {"insert", "webhook"}
\* The bounds end every behaviour, and a deleted automation stays deleted.
CHECK_DEADLOCK FALSE
INVARIANTS
    TypeOK
    ArtifactsReclaimed
    CascadeMakesProgress
PROPERTIES
    CheckpointNeverSkips
    DeletionCompletes
