--------------------- MODULE DiscoveryRefinementProofs ---------------------
(***************************************************************************)
(* Discovery implements IssueFiling, for every bound: the next creation is *)
(* not recorded before the one before it is settled for good.              *)
(***************************************************************************)
EXTENDS DiscoveryScanProofs

Stages == [r \in RequestId |-> Stage(r)]

AllRemember(r) == \A s \in survivors : Remembers(s, r)
AllSubmitted(r) == \A s \in survivors : s.status[r] = "submitted"

(***************************************************************************)
(* What the refinement needs beyond IInv: memory is not behind what every  *)
(* survivor knows, one id alone is in doubt anywhere, and while a scan     *)
(* files proposals the survivors have no doubt left from before.           *)
(***************************************************************************)
MemoryKeepsUp ==
    pc # "down" =>
        \A r \in RequestId :
            /\ AllRemember(r) => Remembers(mem, r)
            /\ AllSubmitted(r) => mem.status[r] = "submitted"

OneDoubtAnywhere ==
    \A s, t \in survivors \cup {mem} : \A r, q \in RequestId :
        s.status[r] = "posting" /\ t.status[q] = "posting" => r = q

ClearOnDisk ==
    pc \in {"saveIdle", "saveScan", "file", "savePosting"} => \A s \in survivors : Clear(s)

RInv == MemoryKeepsUp /\ OneDoubtAnywhere /\ ClearOnDisk
-----------------------------------------------------------------------------
Filling == {"saveIdle", "saveScan", "file", "savePosting"}

\* A step that changes neither the store nor, unless the process ends, memory.
LEMMA StaysInv ==
    ASSUME RInv, survivors' = survivors,
           (pc' = "down" /\ mem' = newState) \/ (pc # "down" /\ mem' = mem),
           pc' \notin Filling \/ pc' = pc
    PROVE  RInv'
<1>1. MemoryKeepsUp'
    BY DEF RInv, MemoryKeepsUp, AllRemember, AllSubmitted, Remembers
<1>2. OneDoubtAnywhere'
    BY NewStateIsState DEF RInv, OneDoubtAnywhere
<1>3. ClearOnDisk'
    BY DEF RInv, ClearOnDisk, Filling, Clear
<1> QED
    BY <1>1, <1>2, <1>3 DEF RInv

LEMMA ReturnInv ==
    ASSUME RInv, pc # "down", survivors' = survivors, NEW err, Return(err)
    PROVE  RInv'
BY StaysInv DEF Return, Exit, Filling

LEMMA GotoInv ==
    ASSUME RInv, pc # "down", survivors' = survivors, NEW label, Goto(label), label \notin Filling
    PROVE  RInv'
BY StaysInv DEF Goto

\* e.save: the store forgets what it held, keeps it beside mem, or is as it was.
LEMMA SaveInv ==
    ASSUME RInv, pc # "down",
           Store!Committed(mem) \/ Store!Unconfirmed(mem) \/ Store!Unwritten,
           (pc' = "down" /\ mem' = newState) \/ mem' = mem,
           pc' \notin Filling \/ (Store!Committed(mem) /\ Clear(mem))
    PROVE  RInv'
<1> USE DEF Store!Committed, Store!Unconfirmed, Store!Unwritten, Store!store
<1>1. MemoryKeepsUp'
    <2>1. CASE pc' = "down"
        BY <2>1 DEF MemoryKeepsUp
    <2>2. CASE mem' = mem /\ mem \in survivors'
        BY <2>2 DEF MemoryKeepsUp, AllRemember, AllSubmitted
    <2>3. CASE mem' = mem /\ survivors' = survivors
        BY <2>3 DEF RInv, MemoryKeepsUp, AllRemember, AllSubmitted, Remembers
    <2> QED
        BY <2>1, <2>2, <2>3
<1>2. OneDoubtAnywhere'
    <2>1. survivors' \cup {mem'} \subseteq survivors \cup {mem, newState}
        OBVIOUS
    <2> QED
        BY <2>1, NewStateIsState DEF RInv, OneDoubtAnywhere
<1>3. ClearOnDisk'
    BY DEF RInv, ClearOnDisk, Filling, Clear
<1> QED
    BY <1>1, <1>2, <1>3 DEF RInv

LEMMA SaveThenInv ==
    ASSUME RInv, pc # "down", NEW label, SaveThen(label), label \in Filling => Clear(mem)
    PROVE  RInv'
BY SaveInv DEF SaveThen, Goto, Return, Exit, Filling

\* Memory changes, the store does not: the change may not lose what every
\* survivor knows, and may not open a second doubt.
LEMMA MemoryInv ==
    ASSUME IInv, RInv, survivors' = survivors,
           pc' \in Filling => \A s \in survivors : Clear(s),
           \A r \in RequestId :
               /\ AllRemember(r) => Remembers(mem', r)
               /\ AllSubmitted(r) => mem'.status[r] = "submitted",
           \/ \A r \in RequestId : mem'.status[r] = "posting" => mem.status[r] = "posting"
           \/ mem' \in survivors
           \/ /\ \A s \in survivors : Clear(s)
              /\ \A r, q \in RequestId :
                     mem'.status[r] = "posting" /\ mem'.status[q] = "posting" => r = q
    PROVE  RInv'
<1>1. MemoryKeepsUp'
    BY DEF MemoryKeepsUp, AllRemember, AllSubmitted, Remembers
<1>2. OneDoubtAnywhere'
    <2>1. CASE \A r \in RequestId : mem'.status[r] = "posting" => mem.status[r] = "posting"
        BY <2>1 DEF RInv, OneDoubtAnywhere
    <2>2. CASE mem' \in survivors
        BY <2>2 DEF RInv, OneDoubtAnywhere
    <2>3. CASE /\ \A s \in survivors : Clear(s)
               /\ \A r, q \in RequestId :
                      mem'.status[r] = "posting" /\ mem'.status[q] = "posting" => r = q
        BY <2>3 DEF OneDoubtAnywhere, Clear
    <2> QED
        BY <2>1, <2>2, <2>3
<1>3. ClearOnDisk'
    BY DEF ClearOnDisk, Filling, Clear
<1> QED
    BY <1>1, <1>2, <1>3 DEF RInv
LEMMA InitRInv == Init => RInv
BY NewStateIsState
   DEF Init, RInv, MemoryKeepsUp, OneDoubtAnywhere, ClearOnDisk, newState

\* The steps that leave memory and store as they are.
LEMMA RInvStepStays ==
    ASSUME IInv, RInv,
           \/ UNCHANGED vars
           \/ Resume \/ ScanBegins \/ ReconcileRefused \/ ReconcileDone \/ Gate
           \/ OpenClones \/ OpenFinds \/ OpenFails \/ Fetch \/ CompareChanged
           \/ AgentAnswers \/ AgentFails \/ AgentStartupRetry \/ AgentStartupFails
           \/ Verify \/ FileDone \/ Create \/ StepFails
           \/ Deadline \/ Cancel \/ Crash
           \/ GitHubCreates \/ PostIsLost \/ BranchAdvances \/ Tick \/ CloneRemoved
    PROVE  RInv'
<1>0. pc = "down" => mem = newState
    BY DEF IInv, Safe, Aims
<1>1. CASE UNCHANGED vars \/ GitHubCreates \/ PostIsLost \/ BranchAdvances \/ Tick
           \/ CloneRemoved \/ Deadline \/ Cancel \/ AgentStartupRetry
    <2>1. UNCHANGED <<pc, mem, survivors>>
        BY <1>1 DEF vars, process, store, GitHubCreates, PostIsLost, BranchAdvances, Tick,
                    CloneRemoved, Deadline, Cancel, AgentStartupRetry, Elsewhere
    <2> QED
        BY <1>0, <2>1, StaysInv
<1>2. CASE ScanBegins \/ ReconcileRefused \/ ReconcileDone \/ Gate
           \/ OpenFinds \/ CompareChanged \/ AgentStartupFails \/ Verify \/ FileDone \/ StepFails
    BY <1>2, ReturnInv, GotoInv
       DEF ScanBegins, ReconcileRefused, ReconcileDone, Gate, OpenFinds, CompareChanged,
           AgentStartupFails, Verify, FileDone, StepFails, Elsewhere, store, Filling
<1>3. CASE OpenClones \/ OpenFails \/ AgentAnswers \/ AgentFails \/ Create
    BY <1>3, ReturnInv, GotoInv
       DEF OpenClones, OpenFails, AgentAnswers, AgentFails, AgentActs, Create, store, Filling
<1>4. CASE Resume \/ Fetch \/ Crash
    BY <1>4, StaysInv DEF Resume, Fetch, Crash, Exit, Elsewhere, store, Filling
<1> QED
    BY <1>1, <1>2, <1>3, <1>4

\* The steps that change memory.
LEMMA RInvStepMemory ==
    ASSUME IInv, RInv,
           \/ Start \/ ReconcileFound \/ CompareUnchanged \/ Record
           \/ FileNext \/ CreateConfirmed
    PROVE  RInv'
<1>0. /\ TypeOK /\ ProcessOK /\ WorldOK /\ file \in survivors
      /\ \A s \in survivors : Good(s)
    BY TypeSplit DEF IInv, Safe, StatesGood
<1>1. survivors' = survivors
    BY DEF Start, ReconcileFound, CompareUnchanged, Record, FileNext, CreateConfirmed,
           Elsewhere, store
<1>2. CASE Start
    BY <1>0, <1>1, <1>2, MemoryInv DEF Start, Filling, AllRemember, AllSubmitted
<1>3. pc # "down" =>
          \A r \in RequestId :
              /\ AllRemember(r) => Remembers(mem, r)
              /\ AllSubmitted(r) => mem.status[r] = "submitted"
    BY DEF RInv, MemoryKeepsUp
<1>4. ASSUME NEW r \in RequestId, mem' = Mark(mem, r, "submitted"), pc # "down",
             pc' \notin Filling, mem.status[r] = "posting"
      PROVE  RInv'
    <2>1. /\ mem'.status[r] = "submitted"
          /\ \A q \in RequestId : q # r => mem'.status[q] = mem.status[q]
        <3>1. mem \in State /\ "submitted" \in Status
            BY <1>0 DEF ProcessOK, Status
        <3> QED
            BY <1>4, <3>1, Marking
    <2>2. \A q \in RequestId :
              /\ AllRemember(q) => Remembers(mem', q)
              /\ AllSubmitted(q) => mem'.status[q] = "submitted"
        BY <1>3, <1>4, <2>1 DEF Remembers
    <2>3. \A q \in RequestId : mem'.status[q] = "posting" => mem.status[q] = "posting"
        BY <2>1
    <2> QED
        BY <1>1, <1>4, <2>2, <2>3, MemoryInv
<1>5. CASE ReconcileFound
    BY <1>4, <1>5 DEF ReconcileFound, IsFirst, With, Filling
<1>6. CASE CreateConfirmed
    BY <1>4, <1>6 DEF CreateConfirmed, IInv, Safe, Aims, Filling
<1>7. CASE CompareUnchanged
    <2>1. mem'.status = mem.status /\ pc = "compare" /\ pc' = "saveIdle"
        BY <1>0, <1>7 DEF CompareUnchanged, ProcessOK, State
    <2>2. \A s \in survivors : Clear(s)
        BY <2>1 DEF IInv, Safe, Aims
    <2> QED
        BY <1>1, <1>3, <2>1, <2>2, MemoryInv DEF Remembers
<1>8. CASE Record
    <2>1. /\ \A r \in RequestId :
                 \/ mem'.status[r] = mem.status[r]
                 \/ r > nextId /\ mem'.status[r] \in {"dry_run", "pending"}
          /\ pc = "record" /\ pc' = "saveScan"
        BY <1>0, <1>8, RecordMem DEF Record, Batch, WorldOK, RequestId
    <2>2. \A s \in survivors : Clear(s)
        BY <2>1 DEF IInv, Safe, Aims
    <2>3. \A r \in RequestId : r > nextId => ~AllRemember(r) /\ ~AllSubmitted(r)
        BY <1>0 DEF AllRemember, AllSubmitted, Good, Remembers
    <2> QED
        BY <1>1, <1>3, <2>1, <2>2, <2>3, MemoryInv DEF Remembers
<1>9. CASE FileNext
    <2>1. PICK r \in RequestId : mem' = Mark(mem, r, "posting") /\ mem.status[r] = "pending"
        BY <1>9 DEF FileNext, IsFirst, With
    <2>2. pc = "file" /\ Clear(mem) /\ \A s \in survivors : Clear(s)
        BY <1>9 DEF FileNext, IInv, Safe, Aims, RInv, ClearOnDisk
    <2>3. /\ mem'.status[r] = "posting"
          /\ \A q \in RequestId : q # r => mem'.status[q] = mem.status[q]
        <3>1. mem \in State /\ "posting" \in Status
            BY <1>0 DEF ProcessOK, Status
        <3> QED
            BY <2>1, <3>1, Marking
    <2>4. \A q \in RequestId :
              /\ AllRemember(q) => Remembers(mem', q)
              /\ AllSubmitted(q) => mem'.status[q] = "submitted"
        BY <1>3, <2>1, <2>2, <2>3 DEF Remembers
    <2>5. \A p, q \in RequestId :
              mem'.status[p] = "posting" /\ mem'.status[q] = "posting" => p = q
        BY <2>2, <2>3 DEF Clear
    <2> QED
        BY <1>1, <2>2, <2>4, <2>5, MemoryInv
<1> QED
    BY <1>2, <1>5, <1>6, <1>7, <1>8, <1>9

LEMMA RInvStep == IInv /\ RInv /\ [Next]_vars => RInv'
<1> SUFFICES ASSUME IInv, RInv, [Next]_vars PROVE RInv'
    OBVIOUS
<1>1. CASE SaveReconciled \/ SaveScan \/ SavePosting \/ SaveSubmitted
    <2>1. PICK label \in {"gate", "file", "create"} :
              /\ SaveThen(label) /\ pc # "down"
              /\ label = "file" => Clear(mem)
        BY <1>1 DEF SaveReconciled, SaveScan, SavePosting, SaveSubmitted, IInv, Safe, Aims
    <2> QED
        BY <2>1, SaveThenInv DEF Filling
<1>2. CASE SaveIdle
    BY <1>2, SaveInv DEF SaveIdle, SaveAndReturn, Return, Exit, Filling
<1>3. CASE PowerFails
    <2>1. survivors' \subseteq survivors /\ pc' = "down" /\ mem' = newState
        BY <1>3 DEF PowerFails, Exit, Store!PowerLoss
    <2> QED
        BY <2>1, NewStateIsState DEF RInv, MemoryKeepsUp, OneDoubtAnywhere, ClearOnDisk
<1> QED
    BY <1>1, <1>2, <1>3, RInvStepStays, RInvStepMemory DEF Next, Scan, Environment
-----------------------------------------------------------------------------
(***************************************************************************)
(* The steps of IssueFiling.                                               *)
(***************************************************************************)
\* One id moves, all others stay.
LEMMA OneMoves ==
    ASSUME NEW r \in RequestId, NEW from, NEW to,
           Stage(r) = from, Stage(r)' = to,
           \A q \in RequestId : q # r => Stage(q)' = Stage(q)
    PROVE  Filing!Moves(r, from, to)
<1>1. Stages[r] = from
    BY DEF Stages
<1>2. Stages' = [Stages EXCEPT ![r] = to]
    BY DEF Stages
<1> QED
    BY <1>1, <1>2 DEF Filing!Moves, Stages

LEMMA NoneMoves ==
    ASSUME \A r \in RequestId : Stage(r)' = Stage(r)
    PROVE  Stages' = Stages
BY DEF Stages

\* A step of the store that loses nothing every survivor knew, with GitHub as
\* it was, records one intent, confirms one issue, or shows nothing.
LEMMA StoreMaps ==
    ASSUME IInv, RInv, UNCHANGED <<posts, wire, filed>>,
           survivors' # {}, survivors' \subseteq survivors \cup {mem},
           \A s \in survivors' : Good(s),
           \A r \in RequestId :
               /\ AllRemember(r) => AllRemember(r)'
               /\ AllSubmitted(r) => AllSubmitted(r)'
    PROVE  Filing!Next \/ Stages' = Stages
<1>0. /\ posts \in [RequestId -> Nat] /\ filed \in [RequestId -> Nat]
      /\ survivors # {} /\ \A s \in survivors : Good(s)
      /\ Counts
    BY TypeSplit DEF IInv, Safe, StatesGood, WorldOK
<1>1. \A s \in survivors \cup survivors' : \A r \in RequestId :
          posts[r] = 0 /\ Remembers(s, r) => s.status[r] = "posting"
    BY <1>0 DEF Good, Counts, Remembers
<1>2. \A r \in RequestId : posts[r] # 0 => AllRemember(r) /\ AllRemember(r)'
    BY <1>0 DEF Good, AllRemember, Remembers
<1>3. \A r \in RequestId :
          AllSubmitted(r) \/ AllSubmitted(r)' => posts[r] # 0 /\ filed[r] # 0 /\ r \notin wire
    BY <1>0 DEF Good, Counts, AllSubmitted
<1>4. \A s, t \in survivors \cup survivors' : \A r, q \in RequestId :
          s.status[r] = "posting" /\ t.status[q] = "posting" => r = q
    BY DEF RInv, OneDoubtAnywhere
<1>5. \A r \in RequestId :
          Stage(r) = IF posts[r] = 0
                     THEN IF AllRemember(r) THEN "intended" ELSE "unsent"
                     ELSE IF r \in wire THEN "underway"
                     ELSE IF filed[r] = 0 THEN "lost"
                     ELSE IF AllSubmitted(r) THEN "confirmed" ELSE "filed"
    BY DEF Stage, AllRemember, AllSubmitted
<1>6. \A r \in RequestId :
          Stage(r)' = IF posts[r] = 0
                      THEN IF AllRemember(r)' THEN "intended" ELSE "unsent"
                      ELSE IF r \in wire THEN "underway"
                      ELSE IF filed[r] = 0 THEN "lost"
                      ELSE IF AllSubmitted(r)' THEN "confirmed" ELSE "filed"
    BY DEF Stage, AllRemember, AllSubmitted
<1>7. CASE \A r \in RequestId :
               /\ AllRemember(r)' => AllRemember(r)
               /\ AllSubmitted(r)' => AllSubmitted(r)
    BY <1>5, <1>6, <1>7, NoneMoves
<1>8. ASSUME NEW r \in RequestId, AllRemember(r)', ~AllRemember(r)
      PROVE  Filing!Next
    <2>1. posts[r] = 0
        BY <1>2, <1>8
    <2>2. PICK s \in survivors' : s.status[r] = "posting"
        BY <1>1, <1>8, <2>1 DEF AllRemember
    <2>3. \A q \in RequestId : q # r =>
              /\ posts[q] = 0 => ~AllRemember(q) /\ ~AllRemember(q)'
              /\ posts[q] # 0 => AllSubmitted(q)
        <3> SUFFICES ASSUME NEW q \in RequestId, q # r
                     PROVE  /\ posts[q] = 0 => ~AllRemember(q) /\ ~AllRemember(q)'
                            /\ posts[q] # 0 => AllSubmitted(q)
            OBVIOUS
        <3>1. \A t \in survivors \cup survivors' : t.status[q] # "posting"
            BY <1>4, <2>2
        <3> QED
            BY <1>0, <1>1, <1>2, <3>1 DEF AllRemember, AllSubmitted, Remembers
    <2>4. \A q \in RequestId : q # r =>
              Stage(q)' = Stage(q) /\ Stage(q) \in {"unsent", "confirmed"}
        BY <1>3, <1>5, <1>6, <2>3
    <2>5. Stage(r) = "unsent" /\ Stage(r)' = "intended"
        BY <1>5, <1>6, <1>8, <2>1
    <2>6. Filing!Settled = RequestId
        BY <2>4, <2>5 DEF Filing!Settled
    <2> QED
        BY <2>4, <2>5, <2>6, OneMoves DEF Filing!Next, Filing!Intend
<1>9. ASSUME NEW r \in RequestId, AllSubmitted(r)', ~AllSubmitted(r)
      PROVE  Filing!Next
    <2>1. posts[r] # 0 /\ filed[r] # 0 /\ r \notin wire
        BY <1>3, <1>9
    <2>2. PICK s \in survivors : s.status[r] = "posting"
        BY <1>2, <1>9, <2>1 DEF AllRemember, AllSubmitted, Remembers
    <2>3. \A q \in RequestId : q # r =>
              /\ AllRemember(q)' => posts[q] # 0 \/ AllRemember(q)
              /\ AllSubmitted(q)' => AllSubmitted(q)
        <3> SUFFICES ASSUME NEW q \in RequestId, q # r
                     PROVE  /\ AllRemember(q)' => posts[q] # 0 \/ AllRemember(q)
                            /\ AllSubmitted(q)' => AllSubmitted(q)
            OBVIOUS
        <3>1. \A t \in survivors \cup survivors' : t.status[q] # "posting"
            BY <1>4, <2>2
        <3>2. AllRemember(q)' => posts[q] # 0
            BY <1>1, <3>1 DEF AllRemember
        <3>3. AllSubmitted(q)' => AllSubmitted(q)
            BY <1>2, <1>3, <3>1 DEF AllRemember, AllSubmitted, Remembers
        <3> QED
            BY <3>2, <3>3
    <2>4. \A q \in RequestId : q # r => Stage(q)' = Stage(q)
        BY <1>5, <1>6, <2>3
    <2>5. Stage(r) = "filed" /\ Stage(r)' = "confirmed"
        BY <1>5, <1>6, <1>9, <2>1
    <2> QED
        BY <2>4, <2>5, OneMoves DEF Filing!Next, Filing!Confirm
<1> QED
    BY <1>7, <1>8, <1>9

\* Create and GitHub's own steps apart, a step changes at most the store.
LEMMA StoreOrGitHub ==
    ASSUME [Next]_vars
    PROVE  \/ Create \/ GitHubCreates \/ PostIsLost
           \/ /\ UNCHANGED <<posts, wire, filed>>
              /\ \/ UNCHANGED survivors
                 \/ pc # "down" /\ (Store!Committed(mem) \/ Store!Unconfirmed(mem))
                 \/ Store!PowerLoss
<1>1. CASE SaveReconciled \/ SaveIdle \/ SaveScan \/ SavePosting \/ SaveSubmitted
    BY <1>1 DEF SaveReconciled, SaveIdle, SaveScan, SavePosting, SaveSubmitted, SaveThen,
                SaveAndReturn, Store!Unwritten, Store!store, github
<1>2. CASE PowerFails
    BY <1>2 DEF PowerFails, github
<1>3. CASE UNCHANGED vars
    BY <1>3 DEF vars, store, github
<1>4. CASE \/ Start \/ Resume \/ ScanBegins \/ ReconcileFound \/ ReconcileRefused
           \/ ReconcileDone \/ Gate \/ OpenClones \/ OpenFinds \/ OpenFails \/ Fetch
           \/ CompareUnchanged \/ CompareChanged \/ AgentAnswers \/ AgentFails
           \/ AgentStartupRetry \/ AgentStartupFails \/ Verify \/ Record \/ FileNext
           \/ FileDone \/ CreateConfirmed \/ StepFails
           \/ Deadline \/ Cancel \/ Crash \/ BranchAdvances \/ Tick \/ CloneRemoved
    BY <1>4
       DEF Start, Resume, ScanBegins, ReconcileFound, ReconcileRefused, ReconcileDone, Gate,
           OpenClones, OpenFinds, OpenFails, Fetch, CompareUnchanged, CompareChanged, AgentActs,
           AgentAnswers, AgentFails, AgentStartupRetry, AgentStartupFails, Verify, Record,
           FileNext, FileDone, CreateConfirmed, StepFails, Deadline, Cancel, Crash,
           BranchAdvances, Tick, CloneRemoved, Elsewhere, store, github
<1> QED
    BY <1>1, <1>2, <1>3, <1>4 DEF Next, Scan, Environment

\* The POST starts for the one id that is intended.
LEMMA CreateMaps ==
    ASSUME IInv, Create
    PROVE  Filing!Next
<1>1. PICK r \in RequestId :
          /\ r = cur /\ posts[r] = 0 /\ posts \in [RequestId -> Nat]
          /\ survivors = {mem} /\ Remembers(mem, r)
    BY TypeSplit DEF Create, IInv, Safe, Aims, WorldOK, Remembers
<1>2. /\ posts' = [posts EXCEPT ![r] = 1] /\ wire' = wire \cup {r}
      /\ UNCHANGED <<filed, survivors>>
    BY <1>1 DEF Create, store
<1>3. Stage(r) = "intended" /\ Stage(r)' = "underway"
    BY <1>1, <1>2 DEF Stage, Remembers
<1>4. \A q \in RequestId : q # r => Stage(q)' = Stage(q)
    BY <1>1, <1>2 DEF Stage, Remembers
<1> QED
    BY <1>3, <1>4, OneMoves DEF Filing!Next, Filing!Send

\* What GitHub makes of a POST that is on its way.
LEMMA GitHubMaps ==
    ASSUME IInv, GitHubCreates \/ PostIsLost
    PROVE  Filing!Next
<1>0. /\ filed \in [RequestId -> Nat] /\ wire \subseteq RequestId
      /\ file \in survivors /\ \A s \in survivors : Good(s)
    BY TypeSplit DEF IInv, Safe, StatesGood, WorldOK
<1>1. PICK r \in wire :
          /\ wire' = wire \ {r}
          /\ filed' = [filed EXCEPT ![r] = @ + 1] \/ filed' = filed
          /\ UNCHANGED <<posts, survivors>>
    BY DEF GitHubCreates, PostIsLost, store
<1>2. /\ r \in RequestId /\ filed[r] = 0 /\ posts[r] = 1
      /\ \E s \in survivors : s.status[r] # "submitted"
    BY <1>0, <1>1 DEF IInv, Safe, Counts, Good
<1>3. Stage(r) = "underway"
    BY <1>1, <1>2 DEF Stage
<1>4. \A q \in RequestId : q # r => Stage(q)' = Stage(q)
    BY <1>0, <1>1, <1>2 DEF Stage, Remembers
<1>5. CASE filed' = filed
    <2>1. Stage(r)' = "lost"
        BY <1>1, <1>2, <1>5 DEF Stage
    <2> QED
        BY <1>2, <1>3, <1>4, <2>1, OneMoves DEF Filing!Next, Filing!Vanish
<1>6. CASE filed' = [filed EXCEPT ![r] = @ + 1]
    <2>1. filed'[r] = 1
        BY <1>0, <1>2, <1>6
    <2>2. Stage(r)' = "filed"
        BY <1>1, <1>2, <2>1 DEF Stage
    <2> QED
        BY <1>2, <1>3, <1>4, <2>2, OneMoves DEF Filing!Next, Filing!Land
<1> QED
    BY <1>1, <1>5, <1>6

LEMMA StepMaps == IInv /\ RInv /\ [Next]_vars => Filing!Next \/ Stages' = Stages
<1> SUFFICES ASSUME IInv, RInv, [Next]_vars PROVE Filing!Next \/ Stages' = Stages
    OBVIOUS
<1>1. CASE Create \/ GitHubCreates \/ PostIsLost
    BY <1>1, CreateMaps, GitHubMaps
<1>2. CASE /\ UNCHANGED <<posts, wire, filed>>
           /\ \/ UNCHANGED survivors
              \/ pc # "down" /\ (Store!Committed(mem) \/ Store!Unconfirmed(mem))
              \/ Store!PowerLoss
    <2>1. file \in survivors /\ (\A s \in survivors : Good(s)) /\ (pc # "down" => Good(mem))
        BY DEF IInv, Safe, StatesGood
    <2>2. /\ survivors' # {} /\ survivors' \subseteq survivors \cup {mem}
          /\ \A s \in survivors' : Good(s)
        BY <1>2, <2>1 DEF Store!Committed, Store!Unconfirmed, Store!PowerLoss
    <2>3. ASSUME NEW r \in RequestId
          PROVE  /\ AllRemember(r) => AllRemember(r)'
                 /\ AllSubmitted(r) => AllSubmitted(r)'
        <3>1. CASE survivors' \subseteq survivors
            BY <3>1 DEF AllRemember, AllSubmitted, Remembers
        <3>2. CASE pc # "down"
            BY <2>2, <3>2 DEF RInv, MemoryKeepsUp, AllRemember, AllSubmitted, Remembers
        <3> QED
            BY <1>2, <3>1, <3>2 DEF Store!PowerLoss
    <2> QED
        BY <1>2, <2>2, <2>3, StoreMaps
<1> QED
    BY <1>1, <1>2, StoreOrGitHub

\* Discovery implements IssueFiling: an issue is intended before it is posted,
\* posted once, and settled for good before the next one is intended.
THEOREM DiscoveryImplementsFiling == Spec => FilesOneAtATime
<1>1. Init => IInv /\ RInv
    BY InitTypes, InitSafe, InitRInv DEF IInv
<1>2. IInv /\ RInv /\ [Next]_vars => IInv' /\ RInv'
    BY InvariantStep, RInvStep
<1>3. Init => Filing!Init
    BY ConstantsAssumption
       DEF Init, Filing!Init, Stage, Remembers, newState
<1>4. IInv /\ RInv /\ [Next]_vars => [Filing!Next]_Stages
    BY StepMaps
<1>5. IInv /\ RInv /\ [Next]_vars => [Filing!Next]_([r \in RequestId |-> Stage(r)])
    BY <1>4 DEF Stages
<1> QED
    BY <1>1, <1>2, <1>3, <1>5, PTL DEF Spec, FilesOneAtATime, Filing!Spec

\* What the abstract specification promises, and discovery inherits: of all the
\* request ids, over every State that can come back and over GitHub together,
\* one at most is anywhere between its first intent and its confirmation.
OneUnsettled == \A q, r \in RequestId \ Filing!Settled : q = r

THEOREM OneCreationUnderway == Spec => []OneUnsettled
<1>1. Filing!Init => OneUnsettled
    BY DEF Filing!Init, Filing!Settled, OneUnsettled
<1>2. OneUnsettled /\ [Filing!Next]_([r \in RequestId |-> Stage(r)]) => OneUnsettled'
    <2> SUFFICES ASSUME OneUnsettled, [Filing!Next]_([r \in RequestId |-> Stage(r)])
                 PROVE  OneUnsettled'
        OBVIOUS
    <2>1. CASE UNCHANGED [r \in RequestId |-> Stage(r)]
        BY <2>1 DEF OneUnsettled, Filing!Settled
    <2>2. ASSUME NEW r \in RequestId, Filing!Intend(r) PROVE OneUnsettled'
        BY <2>2 DEF OneUnsettled, Filing!Settled, Filing!Intend, Filing!Moves
    <2>3. ASSUME NEW r \in RequestId,
                 Filing!Send(r) \/ Filing!Land(r) \/ Filing!Vanish(r) \/ Filing!Confirm(r)
          PROVE  OneUnsettled'
        BY <2>3
           DEF OneUnsettled, Filing!Settled, Filing!Moves, Filing!Send, Filing!Land,
               Filing!Vanish, Filing!Confirm
    <2> QED
        BY <2>1, <2>2, <2>3 DEF Filing!Next
<1> QED
    BY <1>1, <1>2, DiscoveryImplementsFiling, PTL DEF FilesOneAtATime, Filing!Spec
=============================================================================
