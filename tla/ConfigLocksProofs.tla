------------------------- MODULE ConfigLocksProofs -------------------------
(***************************************************************************)
(* Mutual exclusion, absence of leaks and progress of ConfigLocks, for any *)
(* number of processes, repositories, directories and names of them.       *)
(***************************************************************************)
EXTENDS ConfigLocks, TLAPS

\* A process that holds `level` locks holds the first `level` of its list.
Ownership ==
    \A p \in Process, l \in Lock :
        owner[l] = p <=> \E i \in 1..3 : i <= level[p] /\ l = LockAt(config[p], i)

\* How many locks each phase and each outcome leave.
Levels ==
    \A p \in Process :
        /\ phase[p] \in {"idle", "done"} => level[p] = 0
        /\ phase[p] = "climb" => level[p] < 3
        /\ phase[p] = "hold" => level[p] = 3
        /\ outcome[p] = "none" <=> phase[p] \in {"idle", "climb", "hold"}
        /\ outcome[p] = "repo" => level[p] = 0
        /\ outcome[p] = "state" => level[p] <= 1
        /\ outcome[p] = "checkout" => level[p] <= 2

Won == \E p \in Process : NotRefused(p) \/ phase[p] = "hold"
Climbs(n) == \E p \in Process : phase[p] = "climb" /\ level[p] >= n

\* A refusal at one lock implies that somebody is past that lock for good or
\* still climbs beyond it.
Refusals ==
    \A p \in Process :
        /\ outcome[p] = "checkout" => Won
        /\ outcome[p] = "state" => Won \/ Climbs(2)
        /\ outcome[p] = "repo" => Won \/ Climbs(1)

\* The locks are on the directories themselves, not on their other names.
Resolved ==
    \A p \in Process : phase[p] \in {"climb", "hold"} =>
        /\ Target[config[p].state] = config[p].state
        /\ Target[config[p].checkout] = config[p].checkout

IInv == TypeOK /\ Ownership /\ Levels /\ Refusals /\ Resolved

LEMMA PreparedIsConfig ==
    \A c \in Config :
        /\ Prepared(c) \in Config
        /\ Target[Prepared(c).state] = Prepared(c).state
        /\ Target[Prepared(c).checkout] = Prepared(c).checkout
BY TargetAssumption DEF Config, Prepared

LEMMA LockKinds ==
    /\ \A c \in Config, i \in 1..3 : LockAt(c, i) \in Lock
    /\ \A c, d \in Config, i, j \in 1..3 : LockAt(c, i) = LockAt(d, j) => i = j
BY DEF Config, Lock, LockAt

\* The invariant holds before any process calls lockConfig.
LEMMA InitInvariant == Init => IInv
BY NobodyAssumption DEF Init, IInv, TypeOK, Ownership, Levels, Refusals, Resolved

\* Types survive every step.
LEMMA TypeStep == TypeOK /\ Levels /\ [Next]_vars => TypeOK'
<1> SUFFICES ASSUME TypeOK, Levels, [Next]_vars PROVE TypeOK'
    OBVIOUS
<1> USE DEF TypeOK
<1>1. CASE UNCHANGED vars
    BY <1>1 DEF vars
<1>2. ASSUME NEW p \in Process, Call(p) PROVE TypeOK'
    BY <1>2, PreparedIsConfig DEF Call
<1>10. ASSUME NEW p \in Process, CallFails(p) PROVE TypeOK'
    BY <1>10 DEF CallFails
<1>3. ASSUME NEW p \in Process, Acquire(p) PROVE TypeOK'
    <2>1. Wanted(p) \in Lock /\ level[p] < 3
        BY <1>3, LockKinds DEF Acquire, Wanted, Levels
    <2> QED
        BY <1>3, <2>1 DEF Acquire
<1>4. ASSUME NEW p \in Process, Refused(p) PROVE TypeOK'
    <2>1. Wanted(p)[1] \in {"repo", "state", "checkout"}
        BY <1>4 DEF Refused, Wanted, LockAt
    <2> QED
        BY <1>4, <2>1 DEF Refused
<1>5. ASSUME NEW p \in Process, LockFileFails(p) PROVE TypeOK'
    BY <1>5 DEF LockFileFails
<1>6. ASSUME NEW p \in Process, Finish(p) PROVE TypeOK'
    BY <1>6 DEF Finish
<1>7. ASSUME NEW p \in Process, Release(p) PROVE TypeOK'
    <2>1. LockAt(config[p], level[p]) \in Lock
        BY <1>7, LockKinds DEF Release
    <2> QED
        BY <1>7, <2>1 DEF Release
<1>8. ASSUME NEW p \in Process, Return(p) PROVE TypeOK'
    BY <1>8 DEF Return
<1>9. ASSUME NEW p \in Process, Killed(p) PROVE TypeOK'
    BY <1>9 DEF Killed
<1> QED
    BY <1>1, <1>2, <1>3, <1>4, <1>5, <1>6, <1>7, <1>8, <1>9, <1>10 DEF Next, Step

\* A process takes and gives back locks one at a time, from the top.
LEMMA OwnershipStep == IInv /\ [Next]_vars => Ownership'
<1> SUFFICES ASSUME IInv, [Next]_vars,
                    NEW q \in Process, NEW l \in Lock
             PROVE (owner[l] = q <=>
                        \E i \in 1..3 : i <= level[q] /\ l = LockAt(config[q], i))'
    BY DEF Ownership
<1> DEFINE Before == owner[l] = q <=>
                        \E i \in 1..3 : i <= level[q] /\ l = LockAt(config[q], i)
<1>0. Before /\ TypeOK /\ config[q] \in Config /\ level[q] \in 0..3
    BY DEF IInv, Ownership, TypeOK
<1>1. CASE UNCHANGED <<owner, level, config>>
    BY <1>0, <1>1
<1>2. ASSUME NEW p \in Process, Acquire(p) PROVE Before'
    <2>1. /\ Wanted(p) = LockAt(config[p], level[p] + 1)
          /\ level[p] \in 0..2 /\ Wanted(p) \in Lock
          /\ owner[Wanted(p)] = Nobody
        BY <1>2, LockKinds DEF Acquire, Wanted, IInv, TypeOK, Levels
    <2>2. CASE p = q
        <3>1. level'[q] = level[q] + 1 /\ config' = config
            BY <1>0, <1>2, <2>2 DEF Acquire, TypeOK
        <3>2. CASE l = Wanted(p)
            <4>1. owner'[l] = q
                BY <1>2, <2>1, <2>2, <3>2 DEF Acquire, IInv, TypeOK
            <4>2. level[q] + 1 \in 1..3 /\ l = LockAt(config[q], level[q] + 1)
                BY <2>1, <2>2, <3>2
            <4> QED
                BY <3>1, <4>1, <4>2
        <3>3. CASE l # Wanted(p)
            <4>1. owner'[l] = owner[l]
                BY <1>2, <3>3 DEF Acquire, TypeOK
            <4>2. \A i \in 1..3 : i <= level[q] + 1 /\ l = LockAt(config[q], i)
                                    => i <= level[q]
                BY <2>1, <2>2, <3>3
            <4> QED
                BY <1>0, <2>1, <2>2, <3>1, <4>1, <4>2
        <3> QED
            BY <3>2, <3>3
    <2>3. CASE p # q
        <3>1. level'[q] = level[q] /\ config' = config
            BY <1>2, <2>3 DEF Acquire, IInv, TypeOK
        <3>2. CASE l = Wanted(p)
            BY <1>0, <1>2, <2>1, <2>3, <3>1, <3>2, NobodyAssumption DEF Acquire, TypeOK
        <3>3. CASE l # Wanted(p)
            BY <1>0, <1>2, <3>1, <3>3 DEF Acquire, TypeOK
        <3> QED
            BY <3>2, <3>3
    <2> QED
        BY <2>2, <2>3
<1>3. ASSUME NEW p \in Process, Release(p) PROVE Before'
    <2> DEFINE top == LockAt(config[p], level[p])
    <2>1. /\ level[p] \in 1..3 /\ top \in Lock
          /\ owner[top] = p
        BY <1>3, LockKinds DEF Release, IInv, TypeOK, Ownership
    <2>2. CASE p = q
        <3>1. level'[q] = level[q] - 1 /\ config' = config
            BY <1>0, <1>3, <2>2 DEF Release, TypeOK
        <3>2. CASE l = top
            <4>1. owner'[l] = Nobody
                BY <1>3, <2>1, <3>2 DEF Release, IInv, TypeOK
            <4>2. \A i \in 1..3 : l = LockAt(config[q], i) => i = level[q]
                BY <1>0, <2>1, <2>2, <3>2, LockKinds
            <4> QED
                BY <1>0, <2>2, <3>1, <4>1, <4>2, NobodyAssumption
        <3>3. CASE l # top
            <4>1. owner'[l] = owner[l]
                BY <1>3, <3>3 DEF Release, IInv, TypeOK
            <4>2. \A i \in 1..3 : i <= level[q] /\ l = LockAt(config[q], i)
                                    => i <= level[q] - 1
                BY <2>1, <2>2, <3>3
            <4> QED
                BY <1>0, <2>1, <2>2, <3>1, <4>1, <4>2
        <3> QED
            BY <3>2, <3>3
    <2>3. CASE p # q
        <3>1. level'[q] = level[q] /\ config' = config
            BY <1>3, <2>3 DEF Release, IInv, TypeOK
        <3>2. CASE l = top
            BY <1>0, <1>3, <2>1, <2>3, <3>1, <3>2, NobodyAssumption DEF Release, TypeOK
        <3>3. CASE l # top
            BY <1>0, <1>3, <3>1, <3>3 DEF Release, TypeOK
        <3> QED
            BY <3>2, <3>3
    <2> QED
        BY <2>2, <2>3
<1>5. ASSUME NEW p \in Process, Call(p) PROVE Before'
    <2>1. owner' = owner /\ level' = level
        BY <1>5 DEF Call
    <2>2. CASE p = q
        <3>1. level[q] = 0
            BY <1>5, <2>2 DEF Call, IInv, Levels
        <3> QED
            BY <1>0, <2>1, <3>1
    <2>3. CASE p # q
        BY <1>0, <1>5, <2>1, <2>3 DEF Call, TypeOK
    <2> QED
        BY <2>2, <2>3
<1>4. ASSUME NEW p \in Process, Killed(p) PROVE Before'
    <2>1. owner'[l] = IF owner[l] = p THEN Nobody ELSE owner[l]
        BY <1>4 DEF Killed
    <2>2. CASE p = q
        <3>1. level'[q] = 0
            BY <1>0, <1>4, <2>2 DEF Killed, TypeOK
        <3> QED
            BY <2>1, <2>2, <3>1, NobodyAssumption
    <2>3. CASE p # q
        <3>1. level'[q] = level[q] /\ config' = config
            BY <1>4, <2>3 DEF Killed, IInv, TypeOK
        <3>2. owner'[l] = q <=> owner[l] = q
            BY <2>1, <2>3, NobodyAssumption
        <3> QED
            BY <1>0, <3>1, <3>2
    <2> QED
        BY <2>2, <2>3
<1> QED
    BY <1>1, <1>2, <1>3, <1>4, <1>5
       DEF Next, Step, vars, CallFails, Refused, LockFileFails, Finish, Return

\* Every phase and outcome keeps to its number of locks.
LEMMA LevelsStep == TypeOK /\ Levels /\ [Next]_vars => Levels'
<1> SUFFICES ASSUME TypeOK, Levels, [Next]_vars PROVE Levels'
    OBVIOUS
<1> USE DEF TypeOK, Levels
<1>1. CASE UNCHANGED vars
    BY <1>1 DEF vars
<1>2. ASSUME NEW p \in Process, Call(p) PROVE Levels'
    BY <1>2 DEF Call
<1>10. ASSUME NEW p \in Process, CallFails(p) PROVE Levels'
    BY <1>10 DEF CallFails
<1>3. ASSUME NEW p \in Process, Acquire(p) PROVE Levels'
    BY <1>3 DEF Acquire
<1>4. ASSUME NEW p \in Process, Refused(p) PROVE Levels'
    <2>1. /\ Wanted(p)[1] = "repo" => level[p] = 0
          /\ Wanted(p)[1] = "state" => level[p] = 1
          /\ Wanted(p)[1] = "checkout" => level[p] = 2
          /\ Wanted(p)[1] # "none"
        BY <1>4 DEF Refused, Wanted, LockAt
    <2> QED
        BY <1>4, <2>1 DEF Refused
<1>5. ASSUME NEW p \in Process, LockFileFails(p) PROVE Levels'
    BY <1>5 DEF LockFileFails
<1>6. ASSUME NEW p \in Process, Finish(p) PROVE Levels'
    BY <1>6 DEF Finish
<1>7. ASSUME NEW p \in Process, Release(p) PROVE Levels'
    BY <1>7 DEF Release
<1>8. ASSUME NEW p \in Process, Return(p) PROVE Levels'
    BY <1>8 DEF Return
<1>9. ASSUME NEW p \in Process, Killed(p) PROVE Levels'
    BY <1>9 DEF Killed
<1> QED
    BY <1>1, <1>2, <1>3, <1>4, <1>5, <1>6, <1>7, <1>8, <1>9, <1>10 DEF Next, Step

\* Whoever is past a lock stays past it, or passes the refusal on to a process
\* that is past a later one.
LEMMA RefusalsStep == IInv /\ [Next]_vars => Refusals'
<1> SUFFICES ASSUME IInv, [Next]_vars PROVE Refusals'
    OBVIOUS
<1> USE DEF IInv, TypeOK
<1>1. CASE UNCHANGED vars
    BY <1>1 DEF vars, Refusals, Won, Climbs, NotRefused
<1>2. ASSUME NEW p \in Process, Call(p) PROVE Refusals'
    <2>1. (Won => Won') /\ \A n \in 1..2 : Climbs(n) => Climbs(n)'
        BY <1>2 DEF Call, Won, Climbs, NotRefused, Levels
    <2> QED
        BY <1>2, <2>1 DEF Call, Refusals
<1>10. ASSUME NEW p \in Process, CallFails(p) PROVE Refusals'
    <2>1. Won'
        BY <1>10 DEF CallFails, Won, NotRefused
    <2> QED
        BY <2>1 DEF Refusals
<1>3. ASSUME NEW p \in Process, Acquire(p) PROVE Refusals'
    <2>1. (Won => Won') /\ \A n \in 1..2 : Climbs(n) => Climbs(n)' \/ Won'
        BY <1>3 DEF Acquire, Won, Climbs, NotRefused, Levels
    <2> QED
        BY <1>3, <2>1 DEF Acquire, Refusals
<1>4. ASSUME NEW p \in Process, Refused(p) PROVE Refusals'
    <2> DEFINE l == Wanted(p)
    <2>1. PICK q \in Process : owner[l] = q
        BY <1>4, LockKinds DEF Refused, Wanted, Levels
    <2>2. level[p] \in 0..2 /\ phase[p] = "climb" /\ outcome[p] = "none" /\ l \in Lock
        BY <1>4, LockKinds DEF Refused, Wanted, Levels
    <2>3. PICK i \in 1..3 : i <= level[q] /\ l = LockAt(config[q], i)
        BY <2>1, <2>2 DEF Ownership
    <2>4. level[q] > level[p] /\ q # p
        <3>1. i = level[p] + 1
            BY <2>2, <2>3, LockKinds DEF Wanted
        <3> QED
            BY <2>2, <2>3, <3>1
    <2>5. Won => Won'
        BY <1>4, <2>2 DEF Refused, Won, NotRefused
    <2>6. level[p] = 2 => Won
        BY <2>4 DEF Levels, Won, NotRefused
    <2>7. level[p] = 1 => Won \/ (phase[q] = "climb" /\ level[q] = 2)
        BY <2>4 DEF Levels, Refusals, Won, NotRefused
    <2>8. level[p] = 0 => Won \/ Climbs(2) \/ (phase[q] = "climb" /\ level[q] >= 1)
        BY <2>4 DEF Levels, Refusals, Won, NotRefused
    <2>9. \A n \in 1..2, r \in Process :
              r # p /\ phase[r] = "climb" /\ level[r] >= n => Climbs(n)'
        BY <1>4 DEF Refused, Climbs
    <2>10. Climbs(2) => Won' \/ Climbs(2)'
        BY <2>5, <2>6, <2>9, <2>2 DEF Climbs
    <2>11. Climbs(1) => Won' \/ Climbs(1)'
        <3>1. CASE level[p] = 0
            BY <2>9, <3>1 DEF Climbs
        <3>2. CASE level[p] >= 1
            BY <2>2, <2>4, <2>5, <2>6, <2>7, <2>9, <3>2
        <3> QED
            BY <2>2, <3>1, <3>2
    <2>12. Climbs(2)' => Climbs(1)'
        BY <1>4 DEF Climbs, Refused
    <2>13. /\ outcome' = [outcome EXCEPT ![p] = l[1]]
           /\ l[1] = "repo" => level[p] = 0
           /\ l[1] = "state" => level[p] = 1
           /\ l[1] = "checkout" => level[p] = 2
        BY <1>4, <2>2 DEF Refused, Wanted, LockAt
    <2>14. /\ l[1] = "checkout" => Won'
           /\ l[1] = "state" => Won' \/ Climbs(2)'
           /\ l[1] = "repo" => Won' \/ Climbs(1)'
        BY <2>4, <2>5, <2>6, <2>7, <2>8, <2>9, <2>10, <2>12, <2>13
    <2> QED
        BY <2>5, <2>10, <2>11, <2>13, <2>14 DEF Refusals
<1>5. ASSUME NEW p \in Process, LockFileFails(p) PROVE Refusals'
    <2>1. Won'
        BY <1>5 DEF LockFileFails, Won, NotRefused
    <2> QED
        BY <2>1 DEF Refusals
<1>6. ASSUME NEW p \in Process, Finish(p) PROVE Refusals'
    <2>1. Won'
        BY <1>6 DEF Finish, Won, NotRefused
    <2> QED
        BY <2>1 DEF Refusals
<1>7. ASSUME NEW p \in Process, Release(p) PROVE Refusals'
    <2>1. (Won => Won') /\ \A n \in 1..2 : Climbs(n) => Climbs(n)'
        BY <1>7 DEF Release, Won, Climbs, NotRefused
    <2> QED
        BY <1>7, <2>1 DEF Release, Refusals
<1>8. ASSUME NEW p \in Process, Return(p) PROVE Refusals'
    <2>1. (Won => Won') /\ \A n \in 1..2 : Climbs(n) => Climbs(n)'
        BY <1>8 DEF Return, Won, Climbs, NotRefused
    <2> QED
        BY <1>8, <2>1 DEF Return, Refusals
<1>9. ASSUME NEW p \in Process, Killed(p) PROVE Refusals'
    <2>1. CASE outcome[p] = "none"
        <3>1. Won'
            BY <1>9, <2>1 DEF Killed, Won, NotRefused
        <3> QED
            BY <3>1 DEF Refusals
    <2>2. CASE outcome[p] # "none"
        <3>1. outcome' = outcome /\ phase[p] = "release"
            BY <1>9, <2>2 DEF Killed, Levels
        <3>2. (Won => Won') /\ \A n \in 1..2 : Climbs(n) => Climbs(n)'
            BY <1>9, <3>1 DEF Killed, Won, Climbs, NotRefused
        <3> QED
            BY <3>1, <3>2 DEF Refusals
    <2> QED
        BY <2>1, <2>2
<1> QED
    BY <1>1, <1>2, <1>3, <1>4, <1>5, <1>6, <1>7, <1>8, <1>9, <1>10 DEF Next, Step

\* Directories are resolved before the first lock and not renamed after.
LEMMA ResolvedStep == IInv /\ [Next]_vars => Resolved'
<1> SUFFICES ASSUME IInv, [Next]_vars PROVE Resolved'
    OBVIOUS
<1> USE DEF IInv, TypeOK, Resolved
<1>1. ASSUME NEW p \in Process, Call(p) PROVE Resolved'
    BY <1>1, PreparedIsConfig DEF Call
<1>2. CASE UNCHANGED <<phase, config>>
    BY <1>2
<1>3. ASSUME NEW p \in Process,
             CallFails(p) \/ Acquire(p) \/ Refused(p) \/ LockFileFails(p) \/ Finish(p)
                 \/ Release(p) \/ Return(p) \/ Killed(p)
      PROVE  Resolved'
    <2>1. config' = config
        BY <1>3 DEF CallFails, Acquire, Refused, LockFileFails, Finish, Release, Return, Killed
    <2>2. \A q \in Process : phase'[q] \in {"climb", "hold"} => phase[q] \in {"climb", "hold"}
        BY <1>3 DEF CallFails, Acquire, Refused, LockFileFails, Finish, Release, Return, Killed
    <2> QED
        BY <2>1, <2>2
<1> QED
    BY <1>1, <1>2, <1>3 DEF Next, Step, vars

\* The invariant is inductive.
THEOREM LocksInvariant == Spec => []IInv
<1>1. IInv /\ [Next]_vars => IInv'
    BY TypeStep, OwnershipStep, LevelsStep, RefusalsStep, ResolvedStep DEF IInv
<1> QED
    BY <1>1, InitInvariant, PTL DEF Spec

\* Every variable of the locks keeps its type.
THEOREM LocksTypes == Spec => []TypeOK
<1>1. IInv => TypeOK
    BY DEF IInv
<1> QED
    BY <1>1, LocksInvariant, PTL

\* However configurations overlap, two processes never work on the same
\* repository, in the same state directory or in the same clone.
THEOREM LocksExclude == Spec => []Exclusive
<1>1. IInv => Exclusive
    <2> SUFFICES ASSUME IInv, NEW p \in Process, NEW q \in Process, p # q,
                        phase[p] = "hold", phase[q] = "hold"
                 PROVE \A i \in 1..3 : LockAt(config[p], i) # LockAt(config[q], i)
        BY DEF Exclusive, LockAt, IInv, Resolved
    <2>1. \A i \in 1..3 : /\ LockAt(config[p], i) \in Lock
                          /\ LockAt(config[q], i) \in Lock
        BY LockKinds DEF IInv, TypeOK
    <2>2. \A i \in 1..3 : /\ owner[LockAt(config[p], i)] = p
                          /\ owner[LockAt(config[q], i)] = q
        BY <2>1 DEF IInv, Ownership, Levels
    <2> QED
        BY <2>2
<1> QED
    BY <1>1, LocksInvariant, PTL

\* Refusals, I/O errors and kills give every lock back.
THEOREM LocksDoNotLeak == Spec => []NothingLeaks
<1>1. IInv => NothingLeaks
    BY DEF IInv, TypeOK, Ownership, Levels, NothingLeaks
<1> QED
    BY <1>1, LocksInvariant, PTL

\* Processes contending in any number never all refuse each other.
THEOREM LocksLetSomeoneWork == Spec => []NotAllRefused
<1>1. IInv => NotAllRefused
    BY DEF IInv, TypeOK, Levels, Refusals, Won, Climbs, NotRefused, NotAllRefused
<1> QED
    BY <1>1, LocksInvariant, PTL
=============================================================================
