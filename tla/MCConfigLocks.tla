---------------------------- MODULE MCConfigLocks ----------------------------
(* Three processes whose configurations overlap in every way that two        *)
(* repositories and two directories, one of them with a second name, allow.  *)
(* The processes and the repositories are interchangeable.                   *)
EXTENDS ConfigLocks, TLC

CONSTANTS p1, p2, p3, r1, r2, d1, d2, link

Symmetry == Permutations({p1, p2, p3}) \cup Permutations({r1, r2})

MCTarget == [n \in {d1, d2, link} |-> IF n = link THEN d1 ELSE n]
=============================================================================
