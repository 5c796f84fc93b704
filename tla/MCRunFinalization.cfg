SPECIFICATION Spec
CONSTANTS
    w1 = w1
    w2 = w2
    f1 = f1
    f2 = f2
    Workers = {w1, w2}
    Finalizers = {f1, f2}
SYMMETRY MCSymmetry
INVARIANTS
    RunInv
    StartedNeverSuppressed
    AnswersTerminal
    BlamesOnlyDeletion
PROPERTY TerminalStands
