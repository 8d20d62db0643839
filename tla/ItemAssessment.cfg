SPECIFICATION FairSpec
CONSTANTS
    Issue = {i1}
    PR = {p1}
    Rev = {r1, r2}
    Retried = {p1}
    NoItem = NoItem
    NoRev = NoRev
INVARIANTS
    TypeOK
    AgentStartsAtTarget
    ReportedAsFound
    OnlyGitsLockBlocks
PROPERTY StaleIsRebuilt
