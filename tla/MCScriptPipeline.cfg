SPECIFICATION PipelineSpec
CONSTANTS
    q1 = q1  q2 = q2  q3 = q3  f1 = f1  f2 = f2  f3 = f3
    Fields = {f1, f2, f3}
    Unknown = Unknown
    NULL = NULL
    Dot = Dot  DotDot = DotDot  Empty = Empty  Nested = Nested
    Names <- MCNames
    CharsOf <- MCCharsOf
    Requests = {q1, q2, q3}
    Calls = {q1, q2, q3}
    Post = q1
    Entries = {1}
    Lookups <- MCLookups
    Drafts <- MCDrafts
\* Every request is answered and the reclaim may stop for good.
CHECK_DEADLOCK FALSE
INVARIANTS
    TypeOK
    ReadsWhatWasCommitted
    AcceptedIsLanded
    AnswerBounded
PROPERTIES
    AcceptsExactlyValid
    ReportsEveryFault
    ImplementsScriptRepo
    EmptiedMeansEmpty
    DeletesOnlyListed
    CommitEnds
