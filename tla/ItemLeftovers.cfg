SPECIFICATION Spec
CONSTANTS
    Issue = {}
    PR = {p1}
    Rev = {r1, r2}
    Retried = {}
    NoItem = NoItem
    NoRev = NoRev
INVARIANT ReusedIsFresh
