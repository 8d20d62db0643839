\* Servers and runs end, so the system may stop.
CHECK_DEADLOCK FALSE
SPECIFICATION FairSpec
CONSTANTS
    Server = {s1, s2}
    r1 = r1
    r2 = r2
    Scans = {r1}
    Assessments = {r2}
    MaxProgress <- MCMaxProgress
    Nobody = Nobody
INVARIANTS
    TypeOK
    StreamTellsOutcome
    EndingMeansDone
    CutOnlyForCause
    PathLeadsToServer
    AloneInClone
PROPERTIES
    StopEnds
    LeavingFreesClone
