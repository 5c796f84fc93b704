SPECIFICATION SignalsFairSpec
CONSTANTS
    Threads = {t1, t2}
    NoThread = NoThread
    MaxChanges = 3
INVARIANTS
    TypeOK
    PromptIndex
    EventsTruthful
    ClientBuiltOnce
PROPERTIES
    HeldUpOnlyByResolver
