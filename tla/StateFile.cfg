SPECIFICATION Spec
CONSTANTS
    State = {s1, s2, s3}
    Torn = torn
INVARIANTS
    TypeOK
    NilMeansDurable
    NothingOlderReturns
PROPERTY ReplacesWhole
