------------------------ MODULE DiscoveryScanProofs ------------------------
(***************************************************************************)
(* Type correctness of discovery and the facts its safety rests on, for    *)
(* every bound, poll interval, retry count and set of options.             *)
(***************************************************************************)
EXTENDS DiscoveryScan, TLAPS

Label == {"down", "paused", "scan", "reconcile", "saveReconciled", "gate", "open", "fetch",
          "compare", "saveIdle"} \cup UnderDeadline

\* TypeOK in two halves: what the process holds, and all the rest.
ProcessOK ==
    /\ pc \in Label
    /\ mem \in State
    /\ opts \in [once : BOOLEAN, force : BOOLEAN, dryRun : BOOLEAN]
    /\ ctx \in {"live", "expired", "canceled"}
    /\ cur \in RequestId \cup {0}
    /\ commit \in Commit \cup {NoCommit}
    /\ attempt \in 0..MaxRetries
    /\ wake \in 0..MaxTime

WorldOK ==
    /\ file \in State
    /\ survivors \subseteq State
    /\ now \in 0..MaxTime
    /\ remote \in Commit
    /\ checkout \in Checkout
    /\ posts \in [RequestId -> Nat]
    /\ filed \in [RequestId -> Nat]
    /\ statedAt \in [RequestId -> Commit \cup {NoCommit}]
    /\ wire \subseteq RequestId
    /\ nextId \in 0..MaxRequests
    /\ foundAt \in [RequestId -> Commit \cup {NoCommit}]

LEMMA TypeSplit == TypeOK <=> ProcessOK /\ WorldOK
BY DEF TypeOK, ProcessOK, WorldOK, Label, Store!StoreTypeOK

LEMMA TypeJoin == ProcessOK' /\ WorldOK' => TypeOK'
<1>1. (ProcessOK /\ WorldOK => TypeOK)'
    BY TypeSplit, PTL
<1> QED
    BY <1>1

-----------------------------------------------------------------------------
(***************************************************************************)
(* The inductive invariant.  Good(s) is what holds of every State the bot  *)
(* holds or may find again; Aims is what the process relies on where it is.*)
(***************************************************************************)
Clear(s) == \A r \in RequestId : s.status[r] # "posting"

Good(s) ==
    /\ \A r \in RequestId : posts[r] > 0 => Remembers(s, r)
    /\ \A r \in RequestId : r > nextId => s.status[r] = "none"
    /\ \A r \in RequestId : s.status[r] = "submitted" => filed[r] > 0
    /\ \A r, q \in RequestId : s.status[r] = "posting" /\ s.status[q] = "posting" => r = q
    /\ \A r \in RequestId : s.status[r] # "none" => foundAt[r] <= s.lastCommit
    /\ s.lastCommit <= remote

StatesGood ==
    /\ \A s \in survivors : Good(s)
    /\ pc # "down" => Good(mem)
    /\ file \in survivors

Counts ==
    \A r \in RequestId :
        /\ posts[r] <= 1
        /\ filed[r] <= posts[r]
        /\ r \in wire => filed[r] = 0 /\ posts[r] = 1

Aims ==
    /\ pc = "down" => mem = newState
    /\ pc \in {"gate", "open", "fetch", "compare", "agent", "verify", "record"} =>
           Clear(mem) /\ \A s \in survivors : Clear(s)
    /\ pc \in {"saveReconciled", "saveIdle", "saveScan", "file", "saveSubmitted"} => Clear(mem)
    /\ pc \in {"compare", "agent", "verify", "record"} =>
           mem.lastCommit <= commit /\ commit <= remote
    /\ pc \in {"savePosting", "create", "await"} =>
           /\ cur \in RequestId
           /\ mem.status[cur] = "posting"
           /\ \A r \in RequestId : mem.status[r] = "posting" => r = cur
    /\ pc \in {"savePosting", "create"} => posts[cur] = 0
    /\ pc = "create" => survivors = {mem}

Safe == StatesGood /\ Counts /\ Aims
IInv == TypeOK /\ Safe
-----------------------------------------------------------------------------
\* A missing state.json reads as a State.
LEMMA NewStateIsState ==
    /\ newState \in State
    /\ \A r \in RequestId : newState.status[r] = "none"
BY ConstantsAssumption DEF newState, State, NoCommit

\* Mark changes one proposal's status and nothing else.
LEMMA Marking ==
    ASSUME NEW s \in State, NEW r \in RequestId, NEW status \in Status
    PROVE  /\ Mark(s, r, status) \in State
           /\ Mark(s, r, status).status[r] = status
           /\ \A q \in RequestId : q # r => Mark(s, r, status).status[q] = s.status[q]
           /\ Mark(s, r, status).lastCommit = s.lastCommit
           /\ Mark(s, r, status).nextScan = s.nextScan
BY DEF Mark, State

LEMMA PollIsTime == WorldOK => AfterPoll \in 0..MaxTime
BY ConstantsAssumption DEF WorldOK, AfterPoll

LEMMA ExitOK == Exit => ProcessOK'
BY NewStateIsState, ConstantsAssumption
   DEF Exit, ResetLocals, ProcessOK, Label, NoOpts, NoCommit

LEMMA ReturnOK ==
    ASSUME TypeOK, NEW err, Return(err)
    PROVE  ProcessOK'
<1>1. ProcessOK /\ WorldOK
    BY TypeSplit
<1>2. CASE Exit
    BY <1>2, ExitOK
<1>3. CASE pc' = "paused" /\ ctx' = "live" /\ wake' = AfterPoll /\ ResetLocals
           /\ UNCHANGED <<mem, opts>>
    BY <1>1, <1>3, PollIsTime, ConstantsAssumption DEF ProcessOK, Label, ResetLocals, NoCommit
<1> QED
    BY <1>2, <1>3 DEF Return

LEMMA GotoOK ==
    ASSUME TypeOK, NEW label \in Label, Goto(label)
    PROVE  ProcessOK'
BY TypeSplit DEF Goto, ProcessOK, local

LEMMA ElsewhereOK ==
    ASSUME TypeOK, Elsewhere
    PROVE  WorldOK'
BY TypeSplit DEF Elsewhere, WorldOK, store, world, github, history

LEMMA InitTypes == Init => TypeOK
<1> SUFFICES ASSUME Init PROVE ProcessOK /\ WorldOK
    BY TypeSplit
<1>1. ProcessOK
    BY NewStateIsState, ConstantsAssumption DEF Init, ProcessOK, Label, NoOpts, NoCommit
<1>2. file \in State
    BY ConstantsAssumption DEF Init, State, newState, NoCommit
<1>3. WorldOK
    BY <1>2, ConstantsAssumption
       DEF Init, WorldOK, Commit, Checkout, NoClone, NoCommit
<1> QED
    BY <1>1, <1>3

\* Saving changes the store and no other part of the world.
LEMMA SaveTypes ==
    ASSUME TypeOK
    PROVE  /\ \A next \in Label : SaveThen(next) => TypeOK'
           /\ SaveAndReturn => TypeOK'
<1> USE TypeSplit
<1>1. ASSUME Store!Committed(mem) \/ Store!Unconfirmed(mem) \/ Store!Unwritten,
             UNCHANGED <<world, checkout, github, history>>
      PROVE  WorldOK'
    BY <1>1 DEF Store!Committed, Store!Unconfirmed, Store!Unwritten, Store!store,
                ProcessOK, WorldOK, world, github, history
<1>2. ASSUME NEW next \in Label, SaveThen(next) PROVE TypeOK'
    BY <1>1, <1>2, ReturnOK, GotoOK, TypeJoin DEF SaveThen
<1>3. ASSUME SaveAndReturn PROVE TypeOK'
    BY <1>1, <1>3, ReturnOK, TypeJoin DEF SaveAndReturn
<1> QED
    BY <1>2, <1>3

\* Run and the reconcile loop keep the types.
LEMMA TypeStepBegin ==
    ASSUME TypeOK,
           \/ Start \/ Resume \/ ScanBegins
           \/ ReconcileFound \/ ReconcileRefused \/ ReconcileDone \/ SaveReconciled \/ Gate
    PROVE  TypeOK'
<1>0. ProcessOK /\ WorldOK /\ (ProcessOK' /\ WorldOK' => TypeOK')
    BY TypeSplit, TypeJoin
<1>1. CASE Start
    <2>1. ProcessOK'
        BY <1>0, <1>1, ConstantsAssumption DEF Start, ProcessOK, WorldOK, Label, local
    <2> QED
        BY <1>0, <1>1, <2>1, ElsewhereOK DEF Start
<1>2. CASE Resume
    <2>1. ProcessOK'
        BY <1>0, <1>2, ExitOK, ConstantsAssumption DEF Resume, ProcessOK, Label
    <2> QED
        BY <1>0, <1>2, <2>1, ElsewhereOK DEF Resume
<1>3. CASE ScanBegins
    BY <1>0, <1>3, ElsewhereOK, ReturnOK, GotoOK DEF ScanBegins, Label
<1>4. CASE ReconcileFound
    <2>1. mem' \in State
        BY <1>0, <1>4, Marking DEF ReconcileFound, ProcessOK, Status
    <2>2. ProcessOK'
        BY <1>0, <1>4, <2>1 DEF ReconcileFound, ProcessOK, local
    <2> QED
        BY <1>0, <1>4, <2>2, ElsewhereOK DEF ReconcileFound
<1>5. CASE ReconcileRefused
    BY <1>0, <1>5, ElsewhereOK, ReturnOK DEF ReconcileRefused
<1>6. CASE ReconcileDone
    BY <1>0, <1>6, ElsewhereOK, GotoOK DEF ReconcileDone, Label
<1>7. CASE SaveReconciled
    BY <1>7, SaveTypes DEF SaveReconciled, Label
<1>8. CASE Gate
    BY <1>0, <1>8, ElsewhereOK, ReturnOK, GotoOK DEF Gate, Label
<1> QED
    BY <1>1, <1>2, <1>3, <1>4, <1>5, <1>6, <1>7, <1>8

LEMMA ClonesAreCheckouts ==
    /\ NoClone \in Checkout
    /\ \A c \in Commit \cup {NoCommit} : ClonedAt(c) \in Checkout
BY DEF NoClone, ClonedAt, Checkout

\* Whatever the agent does to the clone, it stays a clone.
LEMMA AgentTypes == WorldOK /\ AgentActs => WorldOK'
<1> SUFFICES ASSUME WorldOK, AgentActs PROVE WorldOK'
    OBVIOUS
<1>1. checkout' \in Checkout
    BY ZenonT(30) DEF AgentActs, WorldOK, Checkout
<1> QED
    BY <1>1 DEF AgentActs, WorldOK, store, world, github, history

\* The clone's commands, the agent and verify keep the types.
LEMMA TypeStepInspect ==
    ASSUME TypeOK,
           \/ OpenClones \/ OpenFinds \/ OpenFails \/ Fetch
           \/ CompareUnchanged \/ SaveIdle \/ CompareChanged
           \/ AgentAnswers \/ AgentFails \/ AgentStartupRetry \/ AgentStartupFails
           \/ Verify
    PROVE  TypeOK'
<1>0. ProcessOK /\ WorldOK /\ (ProcessOK' /\ WorldOK' => TypeOK')
    BY TypeSplit, TypeJoin
<1> USE DEF UnderDeadline
<1>1. CASE OpenClones
    <2>1. WorldOK'
        BY <1>0, <1>1, ClonesAreCheckouts
           DEF OpenClones, WorldOK, store, world, github, history
    <2> QED
        BY <1>0, <1>1, <2>1, GotoOK DEF OpenClones, Label
<1>2. CASE OpenFinds
    BY <1>0, <1>2, ElsewhereOK, GotoOK DEF OpenFinds, Label
<1>3. CASE OpenFails
    <2>1. WorldOK'
        BY <1>0, <1>3, ClonesAreCheckouts
           DEF OpenFails, WorldOK, store, world, github, history
    <2> QED
        BY <1>0, <1>3, <2>1, ReturnOK DEF OpenFails
<1>4. CASE Fetch
    <2>1. ProcessOK'
        BY <1>0, <1>4 DEF Fetch, ProcessOK, WorldOK, Label
    <2> QED
        BY <1>0, <1>4, <2>1, ElsewhereOK DEF Fetch
<1>5. CASE CompareUnchanged
    <2>1. mem' \in State
        BY <1>0, <1>5, PollIsTime DEF CompareUnchanged, ProcessOK, State
    <2>2. ProcessOK'
        BY <1>0, <1>5, <2>1 DEF CompareUnchanged, ProcessOK, Label, local
    <2> QED
        BY <1>0, <1>5, <2>2, ElsewhereOK DEF CompareUnchanged
<1>6. CASE SaveIdle
    BY <1>6, SaveTypes DEF SaveIdle
<1>7. CASE CompareChanged
    BY <1>0, <1>7, ElsewhereOK, GotoOK DEF CompareChanged, Label
<1>8. CASE AgentAnswers
    BY <1>0, <1>8, AgentTypes, GotoOK DEF AgentAnswers, Label
<1>9. CASE AgentFails
    BY <1>0, <1>9, AgentTypes, ReturnOK DEF AgentFails
<1>10. CASE AgentStartupRetry
    <2>1. ProcessOK'
        BY <1>0, <1>10, ConstantsAssumption DEF AgentStartupRetry, ProcessOK
    <2> QED
        BY <1>0, <1>10, <2>1, ElsewhereOK DEF AgentStartupRetry
<1>11. CASE AgentStartupFails
    BY <1>0, <1>11, ElsewhereOK, ReturnOK DEF AgentStartupFails
<1>12. CASE Verify
    BY <1>0, <1>12, ElsewhereOK, GotoOK DEF Verify, Label
<1> QED
    BY <1>1, <1>2, <1>3, <1>4, <1>5, <1>6, <1>7, <1>8, <1>9, <1>10, <1>11, <1>12

\* What Record puts into the State.
LEMMA RecordMem ==
    ASSUME TypeOK, Record
    PROVE  /\ mem' \in State
           /\ \E n \in Nat :
                  /\ nextId' = nextId + n /\ nextId' <= MaxRequests
                  /\ \A r \in RequestId :
                         IF r \in Batch(n)
                         THEN mem'.status[r] \in {"dry_run", "pending"}
                         ELSE mem'.status[r] = mem.status[r]
                  /\ foundAt' = [r \in RequestId |->
                                    IF r \in Batch(n) THEN commit ELSE foundAt[r]]
<1>0. ProcessOK /\ WorldOK
    BY TypeSplit
<1>1. PICK n \in 0..MaxProposals :
           /\ nextId + n <= MaxRequests
           /\ mem' = [lastCommit |-> commit,
                      nextScan   |-> AfterPoll,
                      status     |-> [r \in RequestId |->
                          IF r \notin Batch(n) THEN mem.status[r]
                          ELSE IF opts.dryRun THEN "dry_run" ELSE "pending"]]
           /\ foundAt' = [r \in RequestId |->
                             IF r \in Batch(n) THEN commit ELSE foundAt[r]]
           /\ nextId' = nextId + n
    BY DEF Record
<1>2. mem' \in State
    BY <1>0, <1>1, PollIsTime DEF ProcessOK, State, Status
<1>3. n \in Nat /\ nextId' <= MaxRequests
    BY <1>0, <1>1, ConstantsAssumption DEF WorldOK
<1> QED
    BY <1>1, <1>2, <1>3

\* Recording and filing keep the types.
LEMMA TypeStepFile ==
    ASSUME TypeOK, Aims,
           \/ Record \/ SaveScan \/ FileNext \/ FileDone \/ SavePosting
           \/ Create \/ CreateConfirmed \/ SaveSubmitted \/ StepFails
    PROVE  TypeOK'
<1>0. ProcessOK /\ WorldOK /\ (ProcessOK' /\ WorldOK' => TypeOK')
    BY TypeSplit, TypeJoin
<1> USE DEF UnderDeadline
<1>1. CASE Record
    <2>1. ProcessOK'
        BY <1>0, <1>1, RecordMem DEF Record, ProcessOK, Label, local
    <2>2. nextId' \in 0..MaxRequests /\ foundAt' \in [RequestId -> Commit \cup {NoCommit}]
        BY <1>0, <1>1, RecordMem, ConstantsAssumption DEF ProcessOK, WorldOK
    <2>3. WorldOK'
        BY <1>0, <1>1, <2>2 DEF Record, WorldOK, store, world, github
    <2> QED
        BY <1>0, <2>1, <2>3
<1>2. CASE SaveScan
    BY <1>2, SaveTypes DEF SaveScan, Label
<1>3. CASE FileNext
    <2>1. mem' \in State /\ cur' \in RequestId
        BY <1>0, <1>3, Marking DEF FileNext, ProcessOK, Status
    <2>2. ProcessOK'
        BY <1>0, <1>3, <2>1 DEF FileNext, ProcessOK, Label
    <2> QED
        BY <1>0, <1>3, <2>2, ElsewhereOK DEF FileNext
<1>4. CASE FileDone
    BY <1>0, <1>4, ElsewhereOK, ReturnOK DEF FileDone
<1>5. CASE SavePosting
    BY <1>5, SaveTypes DEF SavePosting, Label
<1>6. CASE Create
    <2>1. WorldOK'
        BY <1>0, <1>6 DEF Create, Aims, ProcessOK, WorldOK, store, world, github, history
    <2> QED
        BY <1>0, <1>6, <2>1, GotoOK DEF Create, Label
<1>7. CASE CreateConfirmed
    <2>1. mem' \in State
        BY <1>0, <1>7, Marking DEF CreateConfirmed, Aims, ProcessOK, Status
    <2>2. ProcessOK'
        BY <1>0, <1>7, <2>1 DEF CreateConfirmed, ProcessOK, Label, local
    <2> QED
        BY <1>0, <1>7, <2>2, ElsewhereOK DEF CreateConfirmed
<1>8. CASE SaveSubmitted
    BY <1>8, SaveTypes DEF SaveSubmitted, Label
<1>9. CASE StepFails
    BY <1>0, <1>9, ElsewhereOK, ReturnOK DEF StepFails
<1> QED
    BY <1>1, <1>2, <1>3, <1>4, <1>5, <1>6, <1>7, <1>8, <1>9

\* The environment keeps the types.
LEMMA TypeStepEnvironment ==
    ASSUME TypeOK, Environment
    PROVE  TypeOK'
<1>0. ProcessOK /\ WorldOK /\ (ProcessOK' /\ WorldOK' => TypeOK')
    BY TypeSplit, TypeJoin
<1>1. CASE Deadline \/ Cancel
    <2>1. ProcessOK'
        BY <1>0, <1>1 DEF Deadline, Cancel, ProcessOK, local
    <2> QED
        BY <1>0, <1>1, <2>1, ElsewhereOK DEF Deadline, Cancel
<1>2. CASE Crash
    <2>1. checkout' \in Checkout
        BY <1>0, <1>2, ClonesAreCheckouts DEF Crash, WorldOK
    <2>2. WorldOK'
        BY <1>0, <1>2, <2>1 DEF Crash, WorldOK, store, world, github, history
    <2> QED
        BY <1>0, <1>2, <2>2, ExitOK DEF Crash
<1>3. CASE PowerFails
    <2>1. WorldOK'
        BY <1>0, <1>3 DEF PowerFails, Store!PowerLoss, WorldOK, world, github, history
    <2> QED
        BY <1>0, <1>3, <2>1, ExitOK DEF PowerFails
<1>4. CASE GitHubCreates \/ PostIsLost
    <2>1. ProcessOK'
        BY <1>0, <1>4 DEF GitHubCreates, PostIsLost, ProcessOK, process, local
    <2>2. WorldOK'
        BY <1>0, <1>4 DEF GitHubCreates, PostIsLost, WorldOK, store, world, history
    <2> QED
        BY <1>0, <2>1, <2>2
<1>5. CASE BranchAdvances \/ Tick \/ CloneRemoved
    <2>1. ProcessOK'
        BY <1>0, <1>5 DEF BranchAdvances, Tick, CloneRemoved, ProcessOK, process, local
    <2>2. WorldOK'
        BY <1>0, <1>5, ClonesAreCheckouts, ConstantsAssumption
           DEF BranchAdvances, Tick, CloneRemoved, WorldOK, Commit, store, world, github, history
    <2> QED
        BY <1>0, <2>1, <2>2
<1> QED
    BY <1>1, <1>2, <1>3, <1>4, <1>5 DEF Environment

\* Every step keeps the types.
LEMMA TypeStep == TypeOK /\ Aims /\ [Next]_vars => TypeOK'
<1> SUFFICES ASSUME TypeOK, Aims, [Next]_vars PROVE TypeOK'
    OBVIOUS
<1>1. CASE UNCHANGED vars
    <2>1. ProcessOK' /\ WorldOK'
        BY <1>1, TypeSplit
           DEF vars, process, local, store, world, github, history, ProcessOK, WorldOK
    <2> QED
        BY <2>1, TypeJoin
<1>2. CASE Start \/ Resume
    BY <1>2, TypeStepBegin
<1>3. CASE Scan
    BY <1>3, TypeStepBegin, TypeStepInspect, TypeStepFile DEF Scan
<1>4. CASE Environment
    BY <1>4, TypeStepEnvironment
<1> QED
    BY <1>1, <1>2, <1>3, <1>4 DEF Next
-----------------------------------------------------------------------------
(***************************************************************************)
(* Preservation of the rest, one group of actions at a time.               *)
(***************************************************************************)
\* What is good stays good while no request id is drawn and no POST starts.
LEMMA GoodStays ==
    ASSUME TypeOK, NEW s \in State, Good(s),
           UNCHANGED <<posts, nextId, foundAt>>,
           remote' \in Nat, remote <= remote',
           \A r \in RequestId : filed[r] > 0 => filed'[r] > 0
    PROVE  Good(s)'
BY TypeSplit, ConstantsAssumption
   DEF Good, WorldOK, State, Remembers, Commit, NoCommit

\* Nothing that Good, Counts and Aims speak of changes but where the process is.
Quiet == UNCHANGED <<file, survivors, posts, wire, filed, nextId, foundAt, remote>>

LEMMA ElsewhereIsQuiet == Elsewhere => Quiet
BY DEF Elsewhere, Quiet, store, world, github, history

LEMMA QuietCounts == Counts /\ Quiet => Counts'
BY DEF Counts, Quiet

LEMMA QuietGood ==
    ASSUME TypeOK, Quiet, NEW s \in State, Good(s)
    PROVE  Good(s)'
<1>1. remote \in Nat
    BY TypeSplit, ConstantsAssumption DEF WorldOK, Commit
<1> QED
    BY <1>1, GoodStays DEF Quiet

\* A quiet step that leaves memory alone, or ends the process.
LEMMA QuietStates ==
    ASSUME IInv, Quiet, pc' = "down" \/ (pc # "down" /\ mem' = mem)
    PROVE  StatesGood'
<1>1. ASSUME NEW s \in State, Good(s) PROVE Good(s)'
    BY <1>1, QuietGood DEF IInv
<1>2. survivors' = survivors /\ file' = file
    BY DEF Quiet
<1>3. survivors \subseteq State /\ mem \in State
    BY TypeSplit DEF IInv, WorldOK, ProcessOK
<1>4. pc' # "down" => Good(mem)'
    <2> SUFFICES ASSUME pc' # "down" PROVE Good(mem)'
        OBVIOUS
    <2>1. Good(mem) /\ mem' = mem
        BY DEF IInv, Safe, StatesGood
    <2>2. ASSUME NEW s, s = mem, Good(s)' PROVE Good(mem)'
        BY <2>1, <2>2 DEF Good, Remembers
    <2> QED
        BY <1>1, <1>3, <2>1, <2>2
<1> QED
    BY <1>1, <1>2, <1>3, <1>4 DEF IInv, Safe, StatesGood

\* Leaving scan, whatever the reason.
LEMMA Leaving ==
    ASSUME IInv, pc # "down", NEW err, Return(err)
    PROVE  Aims' /\ (pc' = "down" \/ mem' = mem)
BY DEF Return, Exit, Aims

LEMMA QuietReturn ==
    ASSUME IInv, pc # "down", NEW err, Return(err), Quiet
    PROVE  Safe'
BY Leaving, QuietStates, QuietCounts DEF IInv, Safe

\* Going on at a label where only memory matters.
LEMMA QuietGoto ==
    ASSUME IInv, pc # "down", NEW label, Goto(label), Quiet,
           label \in {"reconcile", "open", "fetch", "verify", "saveReconciled", "record", "agent"},
           label = "saveReconciled" => Clear(mem),
           label \in {"open", "fetch", "agent", "verify", "record"} =>
               pc \in {"gate", "open", "fetch", "compare", "agent", "verify"},
           label \in {"agent", "verify", "record"} => pc \in {"compare", "agent", "verify"}
    PROVE  Safe'
<1>1. StatesGood' /\ Counts'
    BY QuietStates, QuietCounts DEF Goto, IInv, Safe
<1>2. Aims'
    BY DEF Goto, local, Quiet, IInv, Safe, Aims, Clear
<1> QED
    BY <1>1, <1>2 DEF Safe

\* Saving a good State leaves only good States to find.
LEMMA SaveStates ==
    ASSUME IInv, pc # "down", pc' = "down" \/ mem' = mem,
           Store!Committed(mem) \/ Store!Unconfirmed(mem) \/ Store!Unwritten,
           UNCHANGED <<world, checkout, github, history>>
    PROVE  StatesGood' /\ Counts'
<1>1. UNCHANGED <<posts, wire, filed, nextId, foundAt, remote>>
    BY DEF world, github, history
<1>2. Counts'
    BY <1>1 DEF IInv, Safe, Counts
<1>3. ASSUME NEW s \in State, Good(s) PROVE Good(s)'
    <2>1. remote \in Nat
        BY TypeSplit, ConstantsAssumption DEF IInv, WorldOK, Commit
    <2> QED
        BY <1>1, <1>3, <2>1, GoodStays DEF IInv
<1>4. survivors \subseteq State /\ mem \in State /\ Good(mem)
      /\ (\A s \in survivors : Good(s)) /\ file \in survivors
    BY TypeSplit DEF IInv, Safe, StatesGood, WorldOK, ProcessOK
<1>5. file' \in survivors' /\ \A s \in survivors' : s \in survivors \/ s = mem
    BY <1>4 DEF Store!Committed, Store!Unconfirmed, Store!Unwritten, Store!store
<1>6. \A s \in survivors' : Good(s)'
    BY <1>3, <1>4, <1>5
<1>7. pc' # "down" => Good(mem)'
    <2>1. ASSUME NEW s, s = mem', Good(s)' PROVE Good(mem)'
        BY <2>1 DEF Good, Remembers
    <2> QED
        BY <1>3, <1>4, <2>1
<1> QED
    BY <1>2, <1>5, <1>6, <1>7 DEF StatesGood

\* After a save the scan goes on only if the State is committed.
LEMMA SaveSafe ==
    ASSUME IInv
    PROVE  /\ pc = "saveReconciled" /\ SaveThen("gate") => Safe'
           /\ pc \in {"saveScan", "saveSubmitted"} /\ SaveThen("file") => Safe'
           /\ pc = "savePosting" /\ SaveThen("create") => Safe'
           /\ pc = "saveIdle" /\ SaveAndReturn => Safe'
<1>1. ASSUME pc \in {"saveReconciled", "saveScan", "saveSubmitted", "savePosting", "saveIdle"},
             NEW err, Return(err),
             Store!Committed(mem) \/ Store!Unconfirmed(mem) \/ Store!Unwritten,
             UNCHANGED <<world, checkout, github, history>>
      PROVE  Safe'
    BY <1>1, Leaving, SaveStates DEF Safe
<1>2. ASSUME pc \in {"saveReconciled", "saveScan", "saveSubmitted", "savePosting"},
             NEW next \in {"gate", "file", "create"},
             next = "gate" => pc = "saveReconciled",
             next = "file" => pc \in {"saveScan", "saveSubmitted"},
             next = "create" => pc = "savePosting",
             Goto(next), Store!Committed(mem),
             UNCHANGED <<world, checkout, github, history>>
      PROVE  Safe'
    <2>1. StatesGood' /\ Counts'
        BY <1>2, SaveStates DEF Goto
    <2>2. survivors' = {mem} /\ mem' = mem /\ cur' = cur /\ pc' = next
          /\ posts' = posts
        BY <1>2 DEF Goto, local, Store!Committed, github
    <2>3. Aims'
        BY <1>2, <2>2 DEF IInv, Safe, Aims, Clear
    <2> QED
        BY <2>1, <2>3 DEF Safe
<1>3. ASSUME pc = "saveReconciled", SaveThen("gate") PROVE Safe'
    BY <1>1, <1>2, <1>3 DEF SaveThen
<1>4. ASSUME pc \in {"saveScan", "saveSubmitted"}, SaveThen("file") PROVE Safe'
    BY <1>1, <1>2, <1>4 DEF SaveThen
<1>5. ASSUME pc = "savePosting", SaveThen("create") PROVE Safe'
    BY <1>1, <1>2, <1>5 DEF SaveThen
<1>6. ASSUME pc = "saveIdle", SaveAndReturn PROVE Safe'
    BY <1>1, <1>6 DEF SaveAndReturn
<1> QED
    BY <1>3, <1>4, <1>5, <1>6

\* Changing one proposal's status the way reconciling and filing do.
LEMMA GoodMark ==
    ASSUME TypeOK, NEW s \in State, Good(s), NEW r \in RequestId, NEW status \in Status,
           \/ status = "submitted" /\ s.status[r] = "posting" /\ filed[r] > 0
           \/ status = "posting" /\ s.status[r] = "pending" /\ Clear(s)
    PROVE  Good(Mark(s, r, status))
<1> DEFINE m == Mark(s, r, status)
<1>1. /\ m.status[r] = status
      /\ \A q \in RequestId : q # r => m.status[q] = s.status[q]
      /\ m.lastCommit = s.lastCommit
    BY Marking
<1> HIDE DEF m
<1> QED
    <2>1. Good(m)
        BY <1>1 DEF Good, Remembers, Clear
    <2> QED
        BY <2>1 DEF m

\* A step that changes memory to another good State, and nothing else.
LEMMA QuietChange ==
    ASSUME IInv, Quiet, Good(mem'), mem' \in State
    PROVE  StatesGood' /\ Counts'
<1>1. survivors \subseteq State
    BY TypeSplit DEF IInv, WorldOK
<1>2. \A s \in survivors' : Good(s)'
    BY <1>1, QuietGood DEF IInv, Safe, StatesGood, Quiet
<1>3. Good(mem)'
    <2>1. ASSUME NEW s, s = mem', Good(s)' PROVE Good(mem)'
        BY <2>1 DEF Good, Remembers
    <2> QED
        BY <2>1, QuietGood DEF IInv
<1> QED
    BY <1>2, <1>3, QuietCounts DEF IInv, Safe, StatesGood, Quiet

\* Run and the reconcile loop.
LEMMA SafeStepBegin ==
    ASSUME IInv,
           \/ Start \/ Resume \/ ScanBegins
           \/ ReconcileFound \/ ReconcileRefused \/ ReconcileDone \/ SaveReconciled \/ Gate
    PROVE  Safe'
<1>0. TypeOK /\ ProcessOK /\ WorldOK
    BY TypeSplit DEF IInv
<1>1. CASE Start
    <2>1. mem' = file /\ file \in State /\ Good(file) /\ pc' = "scan" /\ Quiet
        BY <1>0, <1>1, ElsewhereIsQuiet DEF Start, WorldOK, IInv, Safe, StatesGood
    <2>2. Aims'
        BY <2>1 DEF Aims
    <2> QED
        BY <2>1, <2>2, QuietChange DEF Safe
<1>2. CASE Resume
    <2>1. Quiet /\ (pc' = "down" \/ (pc # "down" /\ mem' = mem))
        BY <1>2, ElsewhereIsQuiet DEF Resume, Exit
    <2>2. Aims'
        BY <1>2 DEF Resume, Exit, Aims
    <2> QED
        BY <2>1, <2>2, QuietStates, QuietCounts DEF IInv, Safe
<1>3. CASE ScanBegins
    BY <1>3, ElsewhereIsQuiet, QuietReturn, QuietGoto DEF ScanBegins
<1>4. CASE ReconcileFound
    <2>1. PICK r \in RequestId :
              /\ IsFirst(r, With(mem, "posting"))
              /\ filed[r] > 0
              /\ mem' = Mark(mem, r, "submitted")
        BY <1>4 DEF ReconcileFound
    <2>2. mem.status[r] = "posting" /\ Good(mem) /\ mem \in State
        BY <1>0, <1>4, <2>1
           DEF IsFirst, With, ReconcileFound, IInv, Safe, StatesGood, ProcessOK
    <2>3. Good(mem') /\ mem' \in State
        BY <1>0, <2>1, <2>2, GoodMark, Marking DEF Status
    <2>4. Aims'
        BY <1>4 DEF ReconcileFound, Aims
    <2> QED
        BY <1>4, <2>3, <2>4, ElsewhereIsQuiet, QuietChange DEF ReconcileFound, Safe
<1>5. CASE ReconcileRefused
    BY <1>5, ElsewhereIsQuiet, QuietReturn DEF ReconcileRefused
<1>6. CASE ReconcileDone
    <2>1. Clear(mem)
        BY <1>6 DEF ReconcileDone, With, Clear
    <2> QED
        BY <1>6, <2>1, ElsewhereIsQuiet, QuietGoto DEF ReconcileDone
<1>7. CASE SaveReconciled
    BY <1>7, SaveSafe DEF SaveReconciled
<1>8. CASE Gate
    BY <1>8, ElsewhereIsQuiet, QuietReturn, QuietGoto DEF Gate
<1> QED
    BY <1>1, <1>2, <1>3, <1>4, <1>5, <1>6, <1>7, <1>8

\* The clone, the agent and verify: they change nothing the bot has saved.
LEMMA SafeStepInspect ==
    ASSUME IInv,
           \/ OpenClones \/ OpenFinds \/ OpenFails \/ Fetch
           \/ CompareUnchanged \/ SaveIdle \/ CompareChanged
           \/ AgentAnswers \/ AgentFails \/ AgentStartupRetry \/ AgentStartupFails
           \/ Verify
    PROVE  Safe'
<1>0. TypeOK /\ ProcessOK /\ WorldOK
    BY TypeSplit DEF IInv
<1>1. CASE OpenClones \/ OpenFinds
    <2>1. Quiet
        BY <1>1, ElsewhereIsQuiet
           DEF OpenClones, OpenFinds, Quiet, store, world, github, history
    <2> QED
        BY <1>1, <2>1, QuietGoto DEF OpenClones, OpenFinds
<1>2. CASE OpenFails
    BY <1>2, QuietReturn DEF OpenFails, Quiet, store, world, github, history
<1>3. CASE Fetch
    <2>1. Quiet /\ mem' = mem /\ pc # "down"
        BY <1>3, ElsewhereIsQuiet DEF Fetch
    <2>2. Good(mem)
        BY <2>1 DEF IInv, Safe, StatesGood
    <2>3. Aims'
        BY <1>0, <1>3, <2>1, <2>2, ConstantsAssumption
           DEF Fetch, Quiet, IInv, Safe, Aims, Clear, Good, WorldOK, Commit
    <2> QED
        BY <2>1, <2>3, QuietStates, QuietCounts DEF IInv, Safe
<1>4. CASE CompareUnchanged
    <2>1. /\ mem' \in State /\ mem'.status = mem.status /\ mem'.lastCommit = mem.lastCommit
        BY <1>0, <1>4, PollIsTime DEF CompareUnchanged, ProcessOK, State
    <2>2. Good(mem) /\ Clear(mem)
        BY <1>4 DEF CompareUnchanged, IInv, Safe, StatesGood, Aims
    <2>3. Good(mem')
        BY <2>1, <2>2 DEF Good, Remembers
    <2>4. Aims'
        BY <1>4, <2>1, <2>2 DEF CompareUnchanged, Aims, Clear
    <2> QED
        BY <1>4, <2>1, <2>3, <2>4, ElsewhereIsQuiet, QuietChange DEF CompareUnchanged, Safe
<1>5. CASE SaveIdle
    BY <1>5, SaveSafe DEF SaveIdle
<1>6. CASE CompareChanged \/ Verify
    BY <1>6, ElsewhereIsQuiet, QuietGoto DEF CompareChanged, Verify
<1>7. CASE AgentAnswers \/ AgentFails
    <2>1. Quiet
        BY <1>7 DEF AgentAnswers, AgentFails, AgentActs, Quiet, store, world, github, history
    <2> QED
        BY <1>7, <2>1, QuietGoto, QuietReturn DEF AgentAnswers, AgentFails
<1>8. CASE AgentStartupRetry
    <2>1. Quiet /\ mem' = mem /\ pc # "down" /\ pc' = pc /\ pc = "agent" /\ commit' = commit
        BY <1>8, ElsewhereIsQuiet DEF AgentStartupRetry
    <2>2. Aims'
        BY <2>1 DEF Quiet, IInv, Safe, Aims, Clear
    <2> QED
        BY <2>1, <2>2, QuietStates, QuietCounts DEF IInv, Safe
<1>9. CASE AgentStartupFails
    BY <1>9, ElsewhereIsQuiet, QuietReturn DEF AgentStartupFails
<1> QED
    BY <1>1, <1>2, <1>3, <1>4, <1>5, <1>6, <1>7, <1>8, <1>9

\* A batch of new proposals is dated with the commit it was found at, and no
\* State saved before knows its request ids.
LEMMA SafeRecord ==
    ASSUME IInv, Record
    PROVE  Safe'
<1>0. TypeOK /\ ProcessOK /\ WorldOK /\ mem' \in State /\ Good(mem) /\ Clear(mem)
    BY TypeSplit, RecordMem DEF Record, IInv, Safe, StatesGood, Aims
<1>1. PICK n \in Nat :
          /\ nextId' = nextId + n
          /\ \A r \in RequestId :
                 IF r \in Batch(n)
                 THEN mem'.status[r] \in {"dry_run", "pending"}
                 ELSE mem'.status[r] = mem.status[r]
          /\ foundAt' = [r \in RequestId |-> IF r \in Batch(n) THEN commit ELSE foundAt[r]]
    BY <1>0, RecordMem
<1>2. /\ mem'.lastCommit = commit /\ pc' = "saveScan"
      /\ mem.lastCommit <= commit /\ commit <= remote
      /\ UNCHANGED <<file, survivors, posts, wire, filed, remote>>
    BY DEF Record, IInv, Safe, Aims, store, world, github
<1>3. /\ nextId \in Nat /\ nextId' \in Nat /\ nextId <= nextId'
      /\ RequestId \subseteq Nat
      /\ \A r \in RequestId : r \in Batch(n) <=> r > nextId /\ r <= nextId'
    BY <1>0, <1>1, ConstantsAssumption DEF WorldOK, RequestId, Batch
<1>4. ASSUME NEW s \in State, Good(s) PROVE Good(s)'
    <2>1. \A r \in RequestId : s.status[r] # "none" => foundAt'[r] = foundAt[r]
        BY <1>1, <1>3, <1>4 DEF Good
    <2>2. \A r \in RequestId : r > nextId' => s.status[r] = "none"
        BY <1>3, <1>4 DEF Good
    <2> QED
        BY <1>2, <1>4, <2>1, <2>2 DEF Good, Remembers
<1>5. Good(mem)'
    <2>1. \A r \in RequestId : r \in Batch(n) => posts[r] = 0 /\ mem.status[r] = "none"
        BY <1>0, <1>3 DEF Good, Remembers, WorldOK
    <2>2. \A r \in RequestId : posts[r] > 0 => Remembers(mem', r)
        BY <1>0, <1>1, <2>1 DEF Good, Remembers, WorldOK
    <2>3. \A r \in RequestId : r > nextId' => mem'.status[r] = "none"
        BY <1>0, <1>1, <1>3 DEF Good
    <2>4. \A r \in RequestId : mem'.status[r] = "submitted" => filed[r] > 0
        BY <1>0, <1>1 DEF Good
    <2>5. \A r \in RequestId : mem'.status[r] # "posting"
        BY <1>0, <1>1 DEF Clear
    <2>6. \A r \in RequestId : mem'.status[r] # "none" => foundAt'[r] <= mem'.lastCommit
        <3> SUFFICES ASSUME NEW r \in RequestId, mem'.status[r] # "none"
                     PROVE  foundAt'[r] <= commit
            BY <1>2
        <3>1. CASE r \in Batch(n)
            BY <1>0, <1>1, <3>1, ConstantsAssumption DEF ProcessOK, Commit, NoCommit
        <3>2. CASE r \notin Batch(n)
            <4>1. foundAt'[r] = foundAt[r] /\ foundAt[r] <= mem.lastCommit
                BY <1>0, <1>1, <3>2 DEF Good
            <4>2. foundAt[r] \in Nat /\ mem.lastCommit \in Nat /\ commit \in Nat
                BY <1>0, ConstantsAssumption DEF ProcessOK, WorldOK, State, Commit, NoCommit
            <4> QED
                BY <1>2, <4>1, <4>2
        <3> QED
            BY <3>1, <3>2
    <2> QED
        BY <1>2, <2>2, <2>3, <2>4, <2>5, <2>6 DEF Good, Remembers
<1>6. StatesGood' /\ Counts'
    BY <1>0, <1>2, <1>4, <1>5 DEF IInv, Safe, StatesGood, Counts, WorldOK
<1>7. Aims'
    BY <1>0, <1>1, <1>2 DEF Aims, Clear
<1> QED
    BY <1>6, <1>7 DEF Safe

\* A POST starts only for a request id that every State to be found knows.
LEMMA SafeCreate ==
    ASSUME IInv, Create
    PROVE  Safe'
<1>0. TypeOK /\ ProcessOK /\ WorldOK
    BY TypeSplit DEF IInv
<1>1. /\ cur \in RequestId /\ mem.status[cur] = "posting" /\ posts[cur] = 0
      /\ survivors = {mem} /\ Good(mem) /\ file \in survivors
      /\ \A r \in RequestId : mem.status[r] = "posting" => r = cur
    BY DEF Create, IInv, Safe, StatesGood, Aims
<1>2. /\ posts' = [posts EXCEPT ![cur] = 1] /\ wire' = wire \cup {cur}
      /\ UNCHANGED <<mem, cur, commit, file, survivors, remote, filed, nextId, foundAt>>
      /\ pc' = "await"
    BY <1>0, <1>1 DEF Create, Goto, local, store, world, history, WorldOK
<1>3. Good(mem)'
    BY <1>0, <1>1, <1>2 DEF Good, Remembers, WorldOK
<1>4. StatesGood'
    <2>1. \A s \in survivors' : s = mem'
        BY <1>1, <1>2
    <2>2. ASSUME NEW s \in survivors' PROVE Good(s)'
        BY <1>3, <2>1, <2>2 DEF Good, Remembers
    <2> QED
        BY <1>1, <1>2, <1>3, <2>2 DEF StatesGood
<1>5. Counts'
    BY <1>0, <1>1, <1>2 DEF IInv, Safe, Counts, WorldOK
<1>6. Aims'
    BY <1>1, <1>2 DEF Aims
<1> QED
    BY <1>4, <1>5, <1>6 DEF Safe

\* Recording and filing.
LEMMA SafeStepFile ==
    ASSUME IInv,
           \/ Record \/ SaveScan \/ FileNext \/ FileDone \/ SavePosting
           \/ Create \/ CreateConfirmed \/ SaveSubmitted \/ StepFails
    PROVE  Safe'
<1>0. TypeOK /\ ProcessOK /\ WorldOK
    BY TypeSplit DEF IInv
<1>1. CASE Record
    BY <1>1, SafeRecord
<1>2. CASE SaveScan \/ SaveSubmitted
    BY <1>2, SaveSafe DEF SaveScan, SaveSubmitted
<1>3. CASE FileNext
    <2>1. PICK r \in RequestId :
              IsFirst(r, With(mem, "pending")) /\ mem' = Mark(mem, r, "posting") /\ cur' = r
        BY <1>3 DEF FileNext
    <2>2. /\ mem.status[r] = "pending" /\ Good(mem) /\ mem \in State /\ Clear(mem)
          /\ pc' = "savePosting" /\ Quiet
        BY <1>0, <1>3, <2>1, ElsewhereIsQuiet
           DEF IsFirst, With, FileNext, IInv, Safe, StatesGood, Aims, ProcessOK
    <2>3. /\ Good(mem') /\ mem' \in State /\ mem'.status[r] = "posting"
          /\ \A q \in RequestId : q # r => mem'.status[q] = mem.status[q]
        <3>1. Good(mem')
            BY <1>0, <2>1, <2>2, GoodMark DEF Status
        <3>2. "posting" \in Status
            BY DEF Status
        <3>3. /\ mem' \in State /\ mem'.status[r] = "posting"
              /\ \A q \in RequestId : q # r => mem'.status[q] = mem.status[q]
            <4> DEFINE m == Mark(mem, r, "posting")
            <4>1. /\ m \in State /\ m.status[r] = "posting"
                  /\ \A q \in RequestId : q # r => m.status[q] = mem.status[q]
                BY <2>2, <3>2, Marking
            <4> HIDE DEF m
            <4>2. mem' = m
                BY <2>1 DEF m
            <4> QED
                BY <4>1, <4>2
        <3> QED
            BY <3>1, <3>3
    <2>4. posts'[r] = 0
        BY <1>0, <2>2 DEF Good, Remembers, Quiet, WorldOK
    <2>5. Aims'
        BY <2>1, <2>2, <2>3, <2>4 DEF Aims, Clear
    <2> QED
        BY <2>2, <2>3, <2>5, QuietChange DEF Safe
<1>4. CASE FileDone \/ StepFails
    BY <1>4, ElsewhereIsQuiet, QuietReturn DEF FileDone, StepFails
<1>5. CASE SavePosting
    BY <1>5, SaveSafe DEF SavePosting
<1>6. CASE Create
    BY <1>6, SafeCreate
<1>7. CASE CreateConfirmed
    <2>1. /\ cur \in RequestId /\ mem.status[cur] = "posting" /\ Good(mem) /\ mem \in State
          /\ \A r \in RequestId : mem.status[r] = "posting" => r = cur
          /\ filed[cur] > 0 /\ mem' = Mark(mem, cur, "submitted")
          /\ pc' = "saveSubmitted" /\ Quiet
        BY <1>0, <1>7, ElsewhereIsQuiet
           DEF CreateConfirmed, IInv, Safe, StatesGood, Aims, ProcessOK
    <2>2. /\ Good(mem') /\ mem' \in State /\ mem'.status[cur] = "submitted"
          /\ \A q \in RequestId : q # cur => mem'.status[q] = mem.status[q]
        <3>1. Good(mem')
            BY <1>0, <2>1, GoodMark DEF Status
        <3>2. "submitted" \in Status
            BY DEF Status
        <3>3. /\ mem' \in State /\ mem'.status[cur] = "submitted"
              /\ \A q \in RequestId : q # cur => mem'.status[q] = mem.status[q]
            <4> DEFINE m == Mark(mem, cur, "submitted")
            <4>1. /\ m \in State /\ m.status[cur] = "submitted"
                  /\ \A q \in RequestId : q # cur => m.status[q] = mem.status[q]
                BY <2>1, <3>2, Marking
            <4> HIDE DEF m
            <4>2. mem' = m
                BY <2>1 DEF m
            <4> QED
                BY <4>1, <4>2
        <3> QED
            BY <3>1, <3>3
    <2>3. Aims'
        BY <2>1, <2>2 DEF Aims, Clear
    <2> QED
        BY <2>1, <2>2, <2>3, QuietChange DEF Safe
<1> QED
    BY <1>1, <1>2, <1>3, <1>4, <1>5, <1>6, <1>7

\* Deadlines, crashes, power loss, GitHub and the clock.
LEMMA SafeStepEnvironment ==
    ASSUME IInv, Environment
    PROVE  Safe'
<1>0. TypeOK /\ ProcessOK /\ WorldOK
    BY TypeSplit DEF IInv
<1>1. CASE Deadline \/ Cancel
    <2>1. Quiet /\ UNCHANGED <<pc, mem, cur, commit>>
        BY <1>1, ElsewhereIsQuiet DEF Deadline, Cancel, local
    <2>2. Aims'
        BY <2>1 DEF Quiet, IInv, Safe, Aims, Clear
    <2>3. pc # "down"
        BY <1>1 DEF Deadline, Cancel, UnderDeadline
    <2> QED
        BY <2>1, <2>2, <2>3, QuietStates, QuietCounts DEF IInv, Safe
<1>2. CASE Crash
    <2>1. Quiet /\ pc' = "down" /\ mem' = newState
        BY <1>2 DEF Crash, Exit, Quiet, store, world, github, history
    <2>2. Aims'
        BY <2>1 DEF Aims
    <2> QED
        BY <2>1, <2>2, QuietStates, QuietCounts DEF IInv, Safe
<1>3. CASE PowerFails
    <2>1. /\ file' \in survivors /\ survivors' = {file'}
          /\ pc' = "down" /\ mem' = newState
          /\ UNCHANGED <<posts, wire, filed, nextId, foundAt, remote>>
        BY <1>3 DEF PowerFails, Exit, Store!PowerLoss, world, github, history
    <2>2. remote \in Nat /\ file' \in State /\ Good(file')
        BY <1>0, <2>1, ConstantsAssumption DEF WorldOK, Commit, IInv, Safe, StatesGood
    <2>3. ASSUME NEW s, s = file' PROVE Good(s)'
        BY <1>0, <2>1, <2>2, <2>3, GoodStays
    <2>4. StatesGood' /\ Counts' /\ Aims'
        BY <2>1, <2>3 DEF IInv, Safe, StatesGood, Counts, Aims
    <2> QED
        BY <2>4 DEF Safe
<1>4. CASE GitHubCreates \/ PostIsLost
    <2>1. /\ UNCHANGED <<pc, mem, cur, commit, file, survivors, posts, nextId, foundAt, remote>>
          /\ remote \in Nat
        BY <1>0, <1>4, ConstantsAssumption
           DEF GitHubCreates, PostIsLost, process, local, store, world, history, WorldOK, Commit
    <2>2. Counts' /\ \A r \in RequestId : filed[r] > 0 => filed'[r] > 0
        BY <1>0, <1>4 DEF GitHubCreates, PostIsLost, IInv, Safe, Counts, WorldOK
    <2>3. ASSUME NEW s \in State, Good(s) PROVE Good(s)'
        BY <1>0, <2>1, <2>2, <2>3, GoodStays
    <2>4. StatesGood'
        <3>1. ASSUME NEW s, s = mem', Good(s)' PROVE Good(mem)'
            BY <3>1 DEF Good, Remembers
        <3> QED
            BY <1>0, <2>1, <2>3, <3>1 DEF IInv, Safe, StatesGood, ProcessOK, WorldOK
    <2>5. Aims'
        BY <2>1 DEF IInv, Safe, Aims, Clear
    <2> QED
        BY <2>2, <2>4, <2>5 DEF Safe
<1>5. CASE BranchAdvances \/ Tick \/ CloneRemoved
    <2>1. /\ UNCHANGED <<pc, mem, cur, commit, file, survivors, posts, wire, filed, nextId, foundAt>>
          /\ remote \in Nat /\ remote' \in Nat /\ remote <= remote'
        BY <1>0, <1>5, ConstantsAssumption
           DEF BranchAdvances, Tick, CloneRemoved, process, local, store, world, github, history,
               WorldOK, Commit
    <2>2. ASSUME NEW s \in State, Good(s) PROVE Good(s)'
        BY <1>0, <2>1, <2>2, GoodStays
    <2>3. StatesGood'
        <3>1. ASSUME NEW s, s = mem', Good(s)' PROVE Good(mem)'
            BY <3>1 DEF Good, Remembers
        <3> QED
            BY <1>0, <2>1, <2>2, <3>1 DEF IInv, Safe, StatesGood, ProcessOK, WorldOK
    <2>4. Aims'
        BY <1>0, <2>1, ConstantsAssumption
           DEF IInv, Safe, Aims, Clear, ProcessOK, Commit, NoCommit
    <2>5. Counts'
        BY <2>1 DEF IInv, Safe, Counts
    <2> QED
        BY <2>3, <2>4, <2>5 DEF Safe
<1> QED
    BY <1>1, <1>2, <1>3, <1>4, <1>5 DEF Environment

LEMMA InitSafe == Init => Safe
<1> SUFFICES ASSUME Init PROVE Safe
    OBVIOUS
<1>1. TypeOK /\ WorldOK
    BY InitTypes, TypeSplit
<1>2. Good(file)
    BY <1>1, ConstantsAssumption
       DEF Init, Good, newState, WorldOK, RequestId, Commit, NoCommit, Remembers
<1>3. StatesGood /\ Counts /\ Aims
    BY <1>2 DEF Init, StatesGood, Counts, Aims
<1> QED
    BY <1>3 DEF Safe

LEMMA InvariantStep == IInv /\ [Next]_vars => IInv'
<1> SUFFICES ASSUME IInv, [Next]_vars PROVE IInv'
    OBVIOUS
<1>1. TypeOK'
    BY TypeStep DEF IInv, Safe
<1>2. Safe'
    <2>1. CASE UNCHANGED vars
        <3>1. /\ Quiet
              /\ UNCHANGED <<pc, mem, cur, commit, posts, file, survivors, remote>>
            BY <2>1 DEF vars, process, local, store, world, github, history, Quiet
        <3>2. Aims' /\ Counts'
            BY <3>1 DEF IInv, Safe, Aims, Clear, Counts, Quiet
        <3>3. StatesGood'
            <4>1. CASE pc = "down"
                BY <3>1, <4>1, QuietStates
            <4>2. CASE pc # "down"
                BY <3>1, <4>2, QuietStates
            <4> QED
                BY <4>1, <4>2
        <3> QED
            BY <3>2, <3>3 DEF Safe
    <2>2. CASE Start \/ Resume
        BY <2>2, SafeStepBegin
    <2>3. CASE Scan
        BY <2>3, SafeStepBegin, SafeStepInspect, SafeStepFile DEF Scan
    <2>4. CASE Environment
        BY <2>4, SafeStepEnvironment
    <2> QED
        BY <2>1, <2>2, <2>3, <2>4 DEF Next
<1> QED
    BY <1>1, <1>2 DEF IInv
-----------------------------------------------------------------------------
(***************************************************************************)
(* Theorems.                                                               *)
(***************************************************************************)
THEOREM DiscoveryInvariant == Spec => []IInv
<1>1. Init => IInv
    BY InitTypes, InitSafe DEF IInv
<1> QED
    BY <1>1, InvariantStep, PTL DEF Spec

\* Every variable keeps to its values.
THEOREM DiscoveryTypes == Spec => []TypeOK
<1>1. IInv => TypeOK
    BY DEF IInv
<1> QED
    BY <1>1, DiscoveryInvariant, PTL

\* One request id leads to one POST and at most one issue, however often scans
\* are interrupted, retried or restarted.
THEOREM NoRepost == Spec => []NeverReposted
<1>1. IInv => NeverReposted
    <2> SUFFICES ASSUME IInv, NEW r \in RequestId PROVE posts[r] <= 1 /\ filed[r] <= 1
        BY DEF NeverReposted
    <2>1. posts[r] \in Nat /\ filed[r] \in Nat
        BY TypeSplit DEF IInv, WorldOK
    <2> QED
        BY <2>1 DEF IInv, Safe, Counts
<1> QED
    BY <1>1, DiscoveryInvariant, PTL

\* The request marker is saved, for good, before its publication starts.
THEOREM IntentIsDurable == Spec => []IntentSurvives
<1>1. IInv => IntentSurvives
    BY DEF IInv, Safe, StatesGood, Good, IntentSurvives, Published
<1> QED
    BY <1>1, DiscoveryInvariant, PTL

\* "submitted" is never claimed of an issue that does not exist.
THEOREM SubmittedIsFiled == Spec => []SubmittedExists
<1>1. IInv => SubmittedExists
    BY NewStateIsState
       DEF IInv, Safe, StatesGood, Good, Aims, SubmittedExists, With
<1> QED
    BY <1>1, DiscoveryInvariant, PTL

\* At most one creation is ever in doubt, and none while a scan works.
THEOREM OneDoubtAtATime == Spec => []DoubtIsSettledFirst
<1>1. IInv => DoubtIsSettledFirst
    BY NewStateIsState
       DEF IInv, Safe, StatesGood, Good, Aims, Clear, DoubtIsSettledFirst, With
<1> QED
    BY <1>1, DiscoveryInvariant, PTL

\* Proposals are saved together with the commit they were found at.
THEOREM CommitIsSavedWithProposals == Spec => []SavedWithItsCommit
<1>1. IInv => SavedWithItsCommit
    BY DEF IInv, Safe, StatesGood, Good, SavedWithItsCommit
<1> QED
    BY <1>1, DiscoveryInvariant, PTL
-----------------------------------------------------------------------------
(***************************************************************************)
(* A dry run never gets to the statements that publish.                    *)
(***************************************************************************)
Publishing == {"savePosting", "create", "await", "saveSubmitted"}
NotDry     == pc \in Publishing => ~opts.dryRun

LEMMA NotDryStep == NotDry /\ [Next]_vars => NotDry'
<1> SUFFICES ASSUME NotDry, [Next]_vars PROVE NotDry'
    OBVIOUS
<1> USE DEF NotDry, Publishing
<1>1. ASSUME NEW err, Return(err) PROVE NotDry'
    BY <1>1 DEF Return, Exit
<1>2. ASSUME NEW label, Goto(label), label \in Publishing => pc \in Publishing PROVE NotDry'
    BY <1>2 DEF Goto
<1>3. CASE UNCHANGED vars \/ Start
    BY <1>3 DEF vars, process, Start
<1>4. CASE Resume
    BY <1>4 DEF Resume, Exit
<1>5. CASE ScanBegins \/ Gate \/ ReconcileRefused \/ ReconcileDone \/ OpenClones
           \/ OpenFinds \/ OpenFails \/ CompareChanged \/ AgentAnswers \/ AgentFails
           \/ AgentStartupFails \/ Verify \/ FileDone \/ StepFails
    BY <1>1, <1>2, <1>5
       DEF ScanBegins, Gate, ReconcileRefused, ReconcileDone, OpenClones, OpenFinds, OpenFails,
           CompareChanged, AgentAnswers, AgentFails, AgentStartupFails, Verify, FileDone, StepFails
<1>6. CASE ReconcileFound \/ Fetch \/ CompareUnchanged \/ AgentStartupRetry \/ Record
    BY <1>6 DEF ReconcileFound, Fetch, CompareUnchanged, AgentStartupRetry, Record
<1>7. ASSUME NEW label, SaveThen(label), label \in Publishing => pc \in Publishing PROVE NotDry'
    BY <1>1, <1>2, <1>7 DEF SaveThen
<1>8. CASE SaveReconciled \/ SaveScan \/ SavePosting \/ SaveSubmitted
    BY <1>7, <1>8 DEF SaveReconciled, SaveScan, SavePosting, SaveSubmitted
<1>9. CASE SaveIdle
    BY <1>1, <1>9 DEF SaveIdle, SaveAndReturn
<1>10. CASE FileNext \/ Create \/ CreateConfirmed
    BY <1>2, <1>10 DEF FileNext, Create, CreateConfirmed
<1>11. CASE Environment
    BY <1>11 DEF Environment, Deadline, Cancel, Crash, PowerFails, GitHubCreates, PostIsLost,
                 BranchAdvances, Tick, CloneRemoved, Exit, process
<1> QED
    BY <1>3, <1>4, <1>5, <1>6, <1>8, <1>9, <1>10, <1>11 DEF Next, Scan

\* Only Create starts POSTs, and only for the proposal at hand.
LEMMA OnlyCreatePosts ==
    ASSUME TypeOK, [Next]_vars, NEW r \in RequestId, posts'[r] # posts[r]
    PROVE  Create /\ r = cur
<1>1. posts' # posts
    OBVIOUS
<1>2. Create
    BY <1>1
       DEF Next, vars, process, Start, Resume, Scan, Environment, Elsewhere, github, SaveThen,
           SaveAndReturn, ScanBegins, ReconcileFound, ReconcileRefused, ReconcileDone,
           SaveReconciled, Gate, OpenClones, OpenFinds, OpenFails, Fetch, CompareUnchanged,
           SaveIdle, CompareChanged, AgentActs, AgentAnswers, AgentFails, AgentStartupRetry,
           AgentStartupFails, Verify, Record, SaveScan, FileNext, FileDone, SavePosting,
           CreateConfirmed, SaveSubmitted, StepFails, Deadline, Cancel, Crash, PowerFails,
           GitHubCreates, PostIsLost, BranchAdvances, Tick, CloneRemoved
<1> QED
    BY <1>2 DEF Create, TypeOK

\* A dry run starts no POST, and a proposal a dry run recorded is never posted.
THEOREM DryRunsAreDry == Spec => DryRunFilesNothing
<1>1. Init => NotDry
    BY DEF Init, NotDry, Publishing
<1>2. IInv /\ NotDry /\ [Next]_vars =>
          [\A r \in RequestId :
              posts'[r] # posts[r] =>
                  ~opts.dryRun /\ \A s \in survivors : s.status[r] # "dry_run"]_vars
    <2> SUFFICES ASSUME IInv, NotDry, [Next]_vars, NEW r \in RequestId, posts'[r] # posts[r]
                 PROVE  ~opts.dryRun /\ \A s \in survivors : s.status[r] # "dry_run"
        OBVIOUS
    <2>1. pc = "create" /\ r = cur
        BY OnlyCreatePosts DEF IInv, Create
    <2> QED
        BY <2>1 DEF NotDry, Publishing, IInv, Safe, Aims
<1> QED
    BY <1>1, <1>2, NotDryStep, DiscoveryInvariant, PTL DEF Spec, DryRunFilesNothing

\* Request ids are drawn in Record only.
LEMMA OnlyRecordDraws ==
    ASSUME [Next]_vars, nextId' # nextId
    PROVE  Record
BY DEF Next, vars, process, Start, Resume, Scan, Environment, Elsewhere, history, SaveThen,
       SaveAndReturn, ScanBegins, ReconcileFound, ReconcileRefused, ReconcileDone,
       SaveReconciled, Gate, OpenClones, OpenFinds, OpenFails, Fetch, CompareUnchanged,
       SaveIdle, CompareChanged, AgentActs, AgentAnswers, AgentFails, AgentStartupRetry,
       AgentStartupFails, Verify, SaveScan, FileNext, FileDone, SavePosting, Create,
       CreateConfirmed, SaveSubmitted, StepFails, Deadline, Cancel, Crash, PowerFails,
       GitHubCreates, PostIsLost, BranchAdvances, Tick, CloneRemoved

\* "refusing to repost" (run.go:203): once a POST was lost the bot is stuck until
\* an operator helps; through restarts and power loss it records and posts nothing.
LostPostStopsBot ==
    [][(\E r \in RequestId : Published(r) /\ r \notin wire /\ filed[r] = 0)
           => UNCHANGED <<posts, nextId>>]_vars

\* Once a POST was lost, no scan records or posts anything again: every State
\* that can come back has that proposal as posting, so the reconcile loop
\* refuses in each of them, and at create no id is in doubt but the one posted.
THEOREM LostPostIsTheEnd == Spec => LostPostStopsBot
<1>1. IInv /\ [Next]_vars =>
          [(\E r \in RequestId : Published(r) /\ r \notin wire /\ filed[r] = 0)
               => UNCHANGED <<posts, nextId>>]_vars
    <2> SUFFICES ASSUME IInv, [Next]_vars,
                        NEW r \in RequestId, Published(r), filed[r] = 0
                 PROVE  UNCHANGED <<posts, nextId>>
        OBVIOUS
    <2>1. /\ file \in survivors /\ file.status[r] = "posting"
          /\ \A s \in survivors : s.status[r] = "posting"
        BY DEF IInv, Safe, StatesGood, Good, Remembers, Published
    <2>2. nextId' = nextId
        <3> SUFFICES ASSUME nextId' # nextId PROVE FALSE
            OBVIOUS
        <3>1. pc = "record"
            BY OnlyRecordDraws DEF Record
        <3> QED
            BY <2>1, <3>1 DEF IInv, Safe, Aims, Clear
    <2>3. ASSUME NEW q \in RequestId, posts'[q] # posts[q] PROVE FALSE
        <3>1. pc = "create" /\ q = cur
            BY <2>3, OnlyCreatePosts DEF IInv, Create
        <3>2. survivors = {mem} /\ posts[cur] = 0
              /\ \A p \in RequestId : mem.status[p] = "posting" => p = cur
            BY <3>1 DEF IInv, Safe, Aims
        <3> QED
            BY <2>1, <3>2 DEF Published
    <2>4. posts' \in [RequestId -> Nat] /\ posts \in [RequestId -> Nat]
        BY InvariantStep, TypeSplit DEF IInv, TypeOK
    <2>5. posts' = posts
        BY <2>3, <2>4
    <2> QED
        BY <2>2, <2>5
<1> QED
    BY <1>1, DiscoveryInvariant, PTL DEF Spec, LostPostStopsBot
-----------------------------------------------------------------------------
(***************************************************************************)
(* What the test at the gate (run.go:209) means for a bot that is run the  *)
(* way Run runs it and has no state.json yet.                              *)
(***************************************************************************)
NeverLooks == pc \in {"down", "paused", "scan", "reconcile", "saveReconciled", "gate"}

\* Nothing that is saved ever moves NextScan from its zero value.
StillNew ==
    /\ NeverLooks
    /\ opts.force = FALSE
    /\ \A s \in survivors : s.nextScan = 0
    /\ file \in survivors
    /\ mem.nextScan = 0

LEMMA StillNewStep ==
    ASSUME Forces = {FALSE}, IInv, StillNew, [Next]_vars
    PROVE  StillNew'
<1>0. ProcessOK /\ WorldOK /\ newState.nextScan = 0
    BY TypeSplit DEF IInv, newState
<1>1. ASSUME NEW err, Return(err), UNCHANGED <<file, survivors>> PROVE StillNew'
    BY <1>0, <1>1 DEF Return, Exit, StillNew, NeverLooks, NoOpts
<1>2. ASSUME NEW label \in {"reconcile", "saveReconciled", "gate"}, Goto(label),
             UNCHANGED <<file, survivors>>
      PROVE  StillNew'
    BY <1>2 DEF Goto, StillNew, NeverLooks
<1>3. CASE UNCHANGED vars
    BY <1>3 DEF vars, process, store, StillNew, NeverLooks
<1>4. CASE Start
    <2>1. opts' \in [once : BOOLEAN, force : {FALSE}, dryRun : BOOLEAN]
        BY <1>4, ConstantsAssumption DEF Start
    <2> QED
        BY <1>4, <2>1 DEF Start, Elsewhere, store, StillNew, NeverLooks
<1>5. CASE Resume
    BY <1>0, <1>5 DEF Resume, Exit, Elsewhere, store, StillNew, NeverLooks, NoOpts
<1>6. CASE ScanBegins \/ ReconcileRefused \/ ReconcileDone
    BY <1>1, <1>2, <1>6
       DEF ScanBegins, ReconcileRefused, ReconcileDone, Elsewhere, store
<1>7. CASE ReconcileFound
    <2>1. mem'.nextScan = 0
        <3>1. PICK r \in RequestId : mem' = Mark(mem, r, "submitted")
            BY <1>7 DEF ReconcileFound
        <3>2. "submitted" \in Status /\ mem \in State /\ mem.nextScan = 0
            BY <1>0 DEF Status, ProcessOK, StillNew
        <3> QED
            BY <3>1, <3>2, Marking
    <2> QED
        BY <1>7, <2>1 DEF ReconcileFound, Elsewhere, store, StillNew, NeverLooks
<1>8. CASE SaveReconciled
    <2>1. /\ file' \in survivors' /\ \A s \in survivors' : s.nextScan = 0
          /\ (Goto("gate") \/ Return("error"))
        BY <1>8 DEF SaveReconciled, SaveThen, StillNew,
                    Store!Committed, Store!Unconfirmed, Store!Unwritten, Store!store
    <2> QED
        BY <1>0, <2>1 DEF Return, Exit, Goto, StillNew, NeverLooks, NoOpts
<1>9. CASE Gate
    <2>1. ~opts.force /\ Due
        BY <1>0 DEF StillNew, Due, WorldOK
    <2> QED
        BY <1>1, <1>9, <2>1 DEF Gate, Elsewhere, store
<1>10. CASE Environment
    BY <1>0, <1>10
       DEF Environment, Deadline, Cancel, Crash, PowerFails, GitHubCreates, PostIsLost,
           BranchAdvances, Tick, CloneRemoved, Exit, Elsewhere, Store!PowerLoss,
           process, store, StillNew, NeverLooks, NoOpts
<1>11. Scan => ScanBegins \/ ReconcileFound \/ ReconcileRefused \/ ReconcileDone
               \/ SaveReconciled \/ Gate
    BY DEF StillNew, NeverLooks, Scan, OpenClones, OpenFinds, OpenFails, Fetch,
           CompareUnchanged, SaveIdle, CompareChanged, AgentAnswers, AgentFails,
           AgentStartupRetry, AgentStartupFails, Verify, Record, SaveScan, FileNext,
           FileDone, SavePosting, Create, CreateConfirmed, SaveSubmitted, StepFails
<1> QED
    BY <1>3, <1>4, <1>5, <1>6, <1>7, <1>8, <1>9, <1>10, <1>11 DEF Next

\* A bot installed without a state.json never opens its clone, asks its agent
\* or files an issue: the scan that is due at once is the one that is skipped.
THEOREM FreshInstallNeverScans ==
    ASSUME Forces = {FALSE}, SavedNextScans = {0}
    PROVE  Spec => []NeverLooks
<1>1. Init => StillNew
    BY DEF Init, StillNew, NeverLooks, newState, NoOpts
<1>2. IInv /\ StillNew /\ [Next]_vars => StillNew'
    BY StillNewStep
<1>3. StillNew => NeverLooks
    BY DEF StillNew
<1> QED
    BY <1>1, <1>2, <1>3, DiscoveryInvariant, PTL DEF Spec
-----------------------------------------------------------------------------
(***************************************************************************)
(* What it means that open fetches but never moves the clone's HEAD        *)
(* (git.go:21-51): verify compares the one with the other.                 *)
(***************************************************************************)
\* Every proposal was found at the commit the clone was made at.
InvestigatesOneCommit == \A r \in 1..nextId : foundAt[r] = checkout.head

InClone == {"fetch", "compare", "agent", "verify", "record"}

Pinned ==
    /\ InvestigatesOneCommit
    /\ nextId > 0 \/ pc \in InClone => checkout.present
    /\ pc = "record" => Verified

\* Neither an agent nor the operator changes the clone in this step.
Undisturbed == ~checkout'.touched /\ ~CloneRemoved

LEMMA PinnedStep ==
    ASSUME IInv, Pinned, [Next]_vars, vars' # vars => Undisturbed
    PROVE  Pinned'
<1>0. ProcessOK /\ WorldOK /\ nextId \in Nat
    BY TypeSplit, ConstantsAssumption DEF IInv, WorldOK
<1>1. ASSUME UNCHANGED <<checkout, history>>, pc' \notin InClone
      PROVE  Pinned'
    BY <1>1 DEF Pinned, InvestigatesOneCommit, history, InClone
<1>2. ASSUME UNCHANGED <<checkout, commit, history>>,
             pc' = pc \/ (pc \in InClone /\ pc' # "record")
      PROVE  Pinned'
    BY <1>2 DEF Pinned, InvestigatesOneCommit, history, Verified, InClone
<1>3. CASE UNCHANGED vars
    BY <1>2, <1>3 DEF vars, process, local
<1> SUFFICES ASSUME vars' # vars, Undisturbed PROVE Pinned'
    BY <1>3
<1>4. CASE OpenClones \/ OpenFails \/ (Crash /\ pc = "open" /\ ~checkout.present)
    <2>1. nextId = 0 /\ nextId' = 0
        BY <1>0, <1>4 DEF Pinned, OpenClones, OpenFails, Crash, history
    <2>2. pc' \in InClone => pc' = "fetch" /\ checkout'.present
        BY <1>4 DEF OpenClones, OpenFails, Crash, Goto, Return, Exit, InClone, ClonedAt, NoClone
    <2> QED
        BY <2>1, <2>2 DEF Pinned, InvestigatesOneCommit, InClone
<1>5. CASE AgentAnswers \/ AgentFails
    <2>1. /\ checkout'.head = checkout.head /\ checkout'.present = checkout.present
          /\ UNCHANGED history /\ pc' # "record" /\ pc = "agent"
        <3>1. PICK c \in {checkout.head, remote, NoCommit}, d \in {checkout.dirty, TRUE} :
                  checkout' = [checkout EXCEPT !.head = c, !.dirty = d,
                                  !.touched = @ \/ c # checkout.head \/ d # checkout.dirty]
            BY <1>5 DEF AgentAnswers, AgentFails, AgentActs
        <3>2. checkout \in Checkout /\ ~checkout'.touched
            BY <1>0 DEF WorldOK, Undisturbed
        <3>3. c = checkout.head
            BY <3>1, <3>2 DEF Checkout
        <3>4. checkout'.head = checkout.head /\ checkout'.present = checkout.present
            BY <3>1, <3>2, <3>3 DEF Checkout
        <3> QED
            BY <1>5, <3>4
               DEF AgentAnswers, AgentFails, AgentActs, Goto, Return, Exit
    <2> QED
        BY <2>1 DEF Pinned, InvestigatesOneCommit, history, InClone
<1>6. CASE Verify
    BY <1>6 DEF Verify, Goto, Elsewhere, history, Pinned, InvestigatesOneCommit, Verified, InClone,
                local
<1>7. CASE Record
    <2>1. PICK n \in 0..MaxProposals :
              /\ nextId + n <= MaxRequests /\ nextId' = nextId + n
              /\ foundAt' = [r \in RequestId |-> IF r \in Batch(n) THEN commit ELSE foundAt[r]]
        BY <1>7 DEF Record
    <2>2. pc' = "saveScan" /\ UNCHANGED checkout /\ checkout.head = commit /\ checkout.present
        BY <1>7 DEF Record, Pinned, Verified, InClone
    <2>3. ASSUME NEW r \in 1..nextId' PROVE foundAt'[r] = checkout.head
        <3>1. n \in Nat /\ r \in RequestId
            BY <1>0, <2>1, <2>3, ConstantsAssumption DEF RequestId
        <3>2. CASE r <= nextId
            BY <1>0, <2>1, <3>1, <3>2 DEF Batch, Pinned, InvestigatesOneCommit, RequestId
        <3>3. CASE r > nextId
            BY <1>0, <2>1, <2>2, <2>3, <3>1, <3>3 DEF Batch, RequestId
        <3> QED
            BY <1>0, <3>1, <3>2, <3>3 DEF RequestId
    <2> QED
        BY <2>2, <2>3 DEF Pinned, InvestigatesOneCommit, InClone
<1>8. CASE OpenFinds
    BY <1>8 DEF OpenFinds, Goto, Elsewhere, history, Pinned, InvestigatesOneCommit, InClone
<1>9. CASE \/ Start \/ Resume \/ ScanBegins \/ ReconcileFound \/ ReconcileRefused \/ ReconcileDone
           \/ SaveReconciled \/ Gate \/ CompareUnchanged \/ SaveIdle \/ AgentStartupFails
           \/ SaveScan \/ FileNext \/ FileDone \/ SavePosting \/ Create \/ CreateConfirmed
           \/ SaveSubmitted \/ StepFails \/ PowerFails \/ (Crash /\ UNCHANGED checkout)
    <2>1. UNCHANGED <<checkout, history>>
        BY <1>9
           DEF Start, Resume, ScanBegins, ReconcileFound, ReconcileRefused, ReconcileDone,
               SaveReconciled, Gate, CompareUnchanged, SaveIdle, AgentStartupFails, SaveScan,
               FileNext, FileDone, SavePosting, Create, CreateConfirmed, SaveSubmitted,
               StepFails, PowerFails, Crash, SaveThen, SaveAndReturn, Elsewhere
    <2>2. pc' \notin InClone
        BY <1>9
           DEF Start, Resume, ScanBegins, ReconcileFound, ReconcileRefused, ReconcileDone,
               SaveReconciled, Gate, CompareUnchanged, SaveIdle, AgentStartupFails, SaveScan,
               FileNext, FileDone, SavePosting, Create, CreateConfirmed, SaveSubmitted,
               StepFails, PowerFails, Crash, SaveThen, SaveAndReturn, Goto, Return, Exit, InClone
    <2> QED
        BY <1>1, <2>1, <2>2
<1>10. CASE Fetch
    BY <1>10 DEF Fetch, Elsewhere, history, Pinned, InvestigatesOneCommit, InClone
<1>11. CASE CompareChanged \/ AgentStartupRetry
    BY <1>2, <1>11 DEF CompareChanged, AgentStartupRetry, Goto, Elsewhere, local, InClone
<1>12. CASE Deadline \/ Cancel \/ GitHubCreates \/ PostIsLost \/ BranchAdvances \/ Tick
    BY <1>2, <1>12
       DEF Deadline, Cancel, GitHubCreates, PostIsLost, BranchAdvances, Tick, Elsewhere, process,
           local
<1>13. ~CloneRemoved
    BY DEF Undisturbed
<1>14. Crash => (pc = "open" /\ ~checkout.present) \/ UNCHANGED checkout
    BY DEF Crash
<1> QED
    BY <1>3, <1>4, <1>5, <1>6, <1>7, <1>8, <1>9, <1>10, <1>11, <1>12, <1>13, <1>14
       DEF Next, Scan, Environment

\* While agents leave the clone as they find it and nobody deletes it, all the
\* proposals a bot ever records were found at one commit, the one it cloned:
\* however far the branch advances, no later commit is investigated.
THEOREM UntouchedCloneSeesOneCommit ==
    Spec /\ [][Undisturbed]_vars => []InvestigatesOneCommit
<1>1. Init => Pinned
    BY ConstantsAssumption DEF Init, Pinned, InvestigatesOneCommit, InClone
<1>2. IInv /\ Pinned /\ [Next]_vars /\ [Undisturbed]_vars => Pinned'
    BY PinnedStep
<1>3. Pinned => InvestigatesOneCommit
    BY DEF Pinned
<1> QED
    BY <1>1, <1>2, <1>3, DiscoveryInvariant, PTL DEF Spec
=============================================================================
