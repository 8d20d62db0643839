---------------------------- MODULE ConfigLocks ----------------------------
(***************************************************************************)
(* lockConfig and lockFile (state.go): Run and Assess resolve the          *)
(* directories they are given (prepareConfig) and take three flocks, one   *)
(* after the other and without waiting, on the repository, the state       *)
(* directory and the checkout.  A refusal releases what was taken; a       *)
(* killed process loses its locks to the kernel.  Every process makes one  *)
(* attempt; the lock files themselves are never removed.                   *)
(***************************************************************************)
EXTENDS Integers

CONSTANTS
    Process,
    Repo,       \* hosts and repository names, lower-cased
    Name,       \* names of directories, with and without symbolic links
    Target,     \* the directory, by its canonical name, that each name leads to
    Nobody

ASSUME NobodyAssumption == Nobody \notin Process
ASSUME TargetAssumption ==
    Target \in [Name -> Name] /\ \A n \in Name : Target[Target[n]] = Target[n]

VARIABLES
    phase,      \* what each process does
    level,      \* how many of the three locks it holds
    config,     \* its Config, as given and then as prepared
    outcome,    \* how its attempt ended; the kind of the lock that refused it
    owner       \* the process that holds each lock file

vars == <<phase, level, config, outcome, owner>>

Config == [repo : Repo, state : Name, checkout : Name]
Lock   == {"repo"} \X Repo \cup {"state", "checkout"} \X Name

\* canonical, for both directories.
Prepared(c) == [c EXCEPT !.state = Target[@], !.checkout = Target[@]]

LockAt_ByDirectory(c, i) ==
    IF i = 2 THEN <<"repo", c.repo>>
    ELSE IF (i = 1) = (c.state = c.checkout) THEN <<"state", c.state>>
    ELSE <<"checkout", c.checkout>>

\* The i-th lock file lockConfig opens.
LockAt(c, i) ==
    IF i = 1 THEN <<"repo", c.repo>>
    ELSE IF i = 2 THEN <<"state", c.state>>
    ELSE <<"checkout", c.checkout>>

Wanted(p) == LockAt(config[p], level[p] + 1)
NotRefused(p) == outcome[p] \in {"worked", "failed"}

Call_Unresolved(p) ==
    /\ phase[p] = "idle"
    /\ config[p].state # config[p].checkout
    /\ phase' = [phase EXCEPT ![p] = "climb"]
    /\ UNCHANGED <<level, config, outcome, owner>>

\* prepareConfig validates the names as they are given, then resolves them.
Call(p) ==
    /\ phase[p] = "idle"
    /\ config[p].state # config[p].checkout
    /\ phase' = [phase EXCEPT ![p] = "climb"]
    /\ config' = [config EXCEPT ![p] = Prepared(@)]
    /\ UNCHANGED <<level, outcome, owner>>

\* The configuration is invalid or a directory's name cannot be resolved.
CallFails(p) ==
    /\ phase[p] = "idle"
    /\ phase' = [phase EXCEPT ![p] = "done"]
    /\ outcome' = [outcome EXCEPT ![p] = "failed"]
    /\ UNCHANGED <<level, config, owner>>

Acquire(p) ==
    /\ phase[p] = "climb"
    /\ owner[Wanted(p)] = Nobody
    /\ owner' = [owner EXCEPT ![Wanted(p)] = p]
    /\ level' = [level EXCEPT ![p] = @ + 1]
    /\ phase' = [phase EXCEPT ![p] = IF level[p] = 2 THEN "hold" ELSE "climb"]
    /\ UNCHANGED <<config, outcome>>

Refused_KeepsLocks(p) ==
    /\ phase[p] = "climb"
    /\ owner[Wanted(p)] # Nobody
    /\ phase' = [phase EXCEPT ![p] = "done"]
    /\ outcome' = [outcome EXCEPT ![p] = Wanted(p)[1]]
    /\ UNCHANGED <<level, config, owner>>

\* flock reports EWOULDBLOCK.
Refused(p) ==
    /\ phase[p] = "climb"
    /\ owner[Wanted(p)] # Nobody
    /\ phase' = [phase EXCEPT ![p] = "release"]
    /\ outcome' = [outcome EXCEPT ![p] = Wanted(p)[1]]
    /\ UNCHANGED <<level, config, owner>>

\* The lock's directory or file cannot be made or opened.
LockFileFails(p) ==
    /\ phase[p] = "climb"
    /\ phase' = [phase EXCEPT ![p] = "release"]
    /\ outcome' = [outcome EXCEPT ![p] = "failed"]
    /\ UNCHANGED <<level, config, owner>>

Finish(p) ==
    /\ phase[p] = "hold"
    /\ phase' = [phase EXCEPT ![p] = "release"]
    /\ outcome' = [outcome EXCEPT ![p] = "worked"]
    /\ UNCHANGED <<level, config, owner>>

Release_Twice(p) ==
    /\ phase[p] = "release"
    /\ owner' = [owner EXCEPT ![LockAt(config[p], level[p])] = Nobody]
    /\ level' = [level EXCEPT ![p] = @ - 1]
    /\ UNCHANGED <<phase, config, outcome>>

\* The locks are released in the reverse order, one at a time.
Release(p) ==
    /\ phase[p] = "release"
    /\ level[p] > 0
    /\ owner' = [owner EXCEPT ![LockAt(config[p], level[p])] = Nobody]
    /\ level' = [level EXCEPT ![p] = @ - 1]
    /\ UNCHANGED <<phase, config, outcome>>

Return(p) ==
    /\ phase[p] = "release"
    /\ level[p] = 0
    /\ phase' = [phase EXCEPT ![p] = "done"]
    /\ UNCHANGED <<level, config, outcome, owner>>

Killed(p) ==
    /\ phase[p] \in {"climb", "hold", "release"}
    /\ phase' = [phase EXCEPT ![p] = "done"]
    /\ outcome' = [outcome EXCEPT ![p] = IF @ = "none" THEN "failed" ELSE @]
    /\ level' = [level EXCEPT ![p] = 0]
    /\ owner' = [l \in Lock |-> IF owner[l] = p THEN Nobody ELSE owner[l]]
    /\ UNCHANGED config

Init ==
    /\ phase = [p \in Process |-> "idle"]
    /\ level = [p \in Process |-> 0]
    /\ config \in [Process -> Config]
    /\ outcome = [p \in Process |-> "none"]
    /\ owner = [l \in Lock |-> Nobody]

Step(p) ==
    Call(p) \/ CallFails(p) \/ Acquire(p) \/ Refused(p) \/ LockFileFails(p) \/ Finish(p)
        \/ Release(p) \/ Return(p) \/ Killed(p)

Next == \E p \in Process : Step(p)

Spec == Init /\ [][Next]_vars
-----------------------------------------------------------------------------
TypeOK ==
    /\ phase \in [Process -> {"idle", "climb", "hold", "release", "done"}]
    /\ level \in [Process -> 0..3]
    /\ config \in [Process -> Config]
    /\ outcome \in [Process -> {"none", "worked", "failed", "repo", "state", "checkout"}]
    /\ owner \in [Lock -> Process \cup {Nobody}]

\* While one process works, no other works on the same repository, in the same
\* state directory or in the same clone, however their configurations overlap
\* and by whatever names they call the directories.
Exclusive ==
    \A p, q \in Process : p # q /\ phase[p] = "hold" /\ phase[q] = "hold" =>
        /\ config[p].repo     # config[q].repo
        /\ Target[config[p].state]    # Target[config[q].state]
        /\ Target[config[p].checkout] # Target[config[q].checkout]

\* A lock never outlives the call that took it: the refusal of a later lock, an
\* I/O error and a kill all give back every lock taken before.
NothingLeaks ==
    \A p \in Process : phase[p] \in {"idle", "done"} => \A l \in Lock : owner[l] # p

\* Processes that contend for overlapping locks never all refuse each other:
\* unless one failed for another reason, one of them gets to work.
NotAllRefused ==
    (\E p \in Process : phase[p] = "done") /\ (\A p \in Process : phase[p] \in {"idle", "done"})
        => \E p \in Process : NotRefused(p)
=============================================================================
