SPECIFICATION FairSpec
CONSTANTS
    MaxNumber = 4
    Pull = {2}
    Long = {3, 4}
    PageSize = 2
    MaxPages = 2
    Capacity = 4
    Byte = {0, 1, 2, 3, 4}
INVARIANTS
    TypeOK
    MissesNoMoreThanVanished
    EachIssueOnce
    TailHoldsEnd
PROPERTY
    RetrySucceeds
