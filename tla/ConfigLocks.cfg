\* Every process makes one attempt and ends, so the system may stop.
CHECK_DEADLOCK FALSE
SPECIFICATION Spec
CONSTANTS
    p1 = p1
    p2 = p2
    p3 = p3
    r1 = r1
    r2 = r2
    d1 = d1
    d2 = d2
    link = link
    Process = {p1, p2, p3}
    Repo = {r1, r2}
    Name = {d1, d2, link}
    Target <- MCTarget
    Nobody = Nobody
SYMMETRY Symmetry
INVARIANTS
    TypeOK
    Exclusive
    NothingLeaks
    NotAllRefused
