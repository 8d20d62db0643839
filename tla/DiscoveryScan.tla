---------------------------- MODULE DiscoveryScan ----------------------------
(***************************************************************************)
(* Repository discovery: Run and engine.scan (run.go) with the create and  *)
(* issues calls of githubClient (github.go) and the open, head and verify  *)
(* steps of the managed clone (git.go).                                    *)
(*                                                                         *)
(* One process scans at a time: lockConfig sees to that, and ConfigLocks   *)
(* checks it.  Every write of state.json is a step of StateStore, which    *)
(* StateFile shows writeState to implement.  The process may die, and the  *)
(* machine lose power, between any two steps; a POST that has been started *)
(* may take effect at any later time, or never.                            *)
(***************************************************************************)
EXTENDS Integers

CONSTANTS
    MaxRequests,     \* bound: request ids that can be drawn
    MaxProposals,    \* cfg.MaxProposals
    MaxCommit,       \* bound: commits the remote branch goes through
    MaxTime,         \* bound: stands for every time from then on
    Poll,            \* cfg.Poll
    MaxRetries,      \* len(startupRetryDelays)
    Forces,          \* the values callers give scan's parameter `force`
    DryRuns,         \* the values of cfg.DryRun a process may start with
    SavedNextScans   \* next_scan of the state.json found first; 0: no file yet

ASSUME ConstantsAssumption ==
    /\ MaxRequests \in Nat
    /\ MaxProposals \in Nat
    /\ MaxCommit \in Nat \ {0}
    /\ MaxTime \in Nat
    /\ Poll \in Nat \ {0}
    /\ MaxRetries \in Nat
    /\ Forces \subseteq BOOLEAN
    /\ DryRuns \subseteq BOOLEAN
    /\ SavedNextScans \subseteq 0..MaxTime

VARIABLES
    pc,          \* where the process is; "down": no process runs
    mem,         \* the *State that Run holds
    opts,        \* once, force and cfg.DryRun of the running process
    ctx,         \* the context of the current call
    cur,         \* the proposal being filed; 0 when none is
    commit,      \* scan's local `commit`
    attempt,     \* execute's loop counter i
    wake,        \* when the pause between two scans ends
    file, survivors,   \* state.json, see StateStore
    now,         \* time.Now()
    remote,      \* the commit the remote branch is at
    checkout,    \* the managed clone at cfg.Directory; its field `touched`: an
                 \* agent has changed it since it was made (history)
    posts,       \* POSTs started for each request id (history)
    wire,        \* POSTs whose fate is not settled yet
    filed,       \* issues on GitHub that carry each request id's marker
    nextId,      \* request ids drawn so far (history: requestID never repeats)
    foundAt,     \* the commit each proposal was found at (history)
    statedAt     \* the commit proposalBody states in each issue

local    == <<cur, commit, attempt, wake>>
process  == <<pc, mem, opts, ctx, local>>
store    == <<file, survivors>>
world    == <<now, remote>>
github   == <<posts, wire, filed, statedAt>>
history  == <<nextId, foundAt>>
vars     == <<process, store, world, checkout, github, history>>
-----------------------------------------------------------------------------
RequestId == 1..MaxRequests
Commit    == 1..MaxCommit
NoCommit  == 0
Status    == {"pending", "posting", "submitted", "dry_run"}

\* Request ids are drawn in increasing order, so the order of s.Proposals is
\* the order of the ids; a proposal the State does not hold has status "none".
State == [lastCommit : Commit \cup {NoCommit},
          nextScan   : 0..MaxTime,
          status     : [RequestId -> Status \cup {"none"}]]

newState == [lastCommit |-> NoCommit,
             nextScan   |-> 0,
             status     |-> [r \in RequestId |-> "none"]]

Store == INSTANCE StateStore

HasProposals(s) == \E r \in RequestId : s.status[r] # "none"
With(s, status) == {r \in RequestId : s.status[r] = status}
IsFirst(r, S)   == r \in S /\ \A q \in S : r <= q
Mark(s, r, status) == [s EXCEPT !.status[r] = status]

\* HEAD is NoCommit when it is unborn (a clone that was killed) or names a
\* commit the remote never had (the agent's own).
Checkout == [present : BOOLEAN, head : Commit \cup {NoCommit},
             dirty : BOOLEAN, touched : BOOLEAN]
NoClone == [present |-> FALSE, head |-> NoCommit, dirty |-> FALSE, touched |-> FALSE]
ClonedAt(c) == [NoClone EXCEPT !.present = TRUE, !.head = c]

Live   == ctx = "live"
NoOpts == [once |-> TRUE, force |-> FALSE, dryRun |-> FALSE]

\* time.Now().Add(cfg.Poll)
AfterPoll == IF now + Poll < MaxTime THEN now + Poll ELSE MaxTime

\* A step that only changes what the process itself holds.
Elsewhere == UNCHANGED <<store, world, checkout, github, history>>

\* On to the next statement, everything else the process holds as it was.
Goto(label) == pc' = label /\ UNCHANGED <<mem, opts, ctx, local>>

ResetLocals == cur' = 0 /\ commit' = NoCommit /\ attempt' = 0

\* The process is gone; the kernel drops its locks and its memory.
Exit ==
    /\ pc' = "down" /\ mem' = newState /\ opts' = NoOpts /\ ctx' = "live" /\ wake' = 0
    /\ ResetLocals

\* scan returns to Run, which returns to its caller or pauses for cfg.Poll.
\* The scan's own deadline ends with it: only the caller's context remains.
Return(err) ==
    IF opts.once \/ err = "startup" \/ ctx = "canceled"
    THEN Exit
    ELSE /\ pc' = "paused" /\ ctx' = "live" /\ wake' = AfterPoll
         /\ ResetLocals
         /\ UNCHANGED <<mem, opts>>

\* e.save(s): on nil the scan goes on at label `next`, else it returns err.
SaveThen_IgnoresErrors(next) ==
    /\ Store!Committed(mem) \/ Store!Unconfirmed(mem) \/ Store!Unwritten
    /\ Goto(next)
    /\ UNCHANGED <<world, checkout, github, history>>

SaveThen(next) ==
    /\ \/ Store!Committed(mem) /\ Goto(next)
       \/ (Store!Unconfirmed(mem) \/ Store!Unwritten) /\ Return("error")
    /\ UNCHANGED <<world, checkout, github, history>>

\* e.save(s) as the last call of scan: its result is scan's result.
SaveAndReturn ==
    /\ \/ Store!Committed(mem) /\ Return("nil")
       \/ (Store!Unconfirmed(mem) \/ Store!Unwritten) /\ Return("error")
    /\ UNCHANGED <<world, checkout, github, history>>
-----------------------------------------------------------------------------
(***************************************************************************)
(* Run: the process starts, holds the locks, reads state.json and scans.   *)
(***************************************************************************)
Start ==
    /\ pc = "down"
    /\ \E once \in BOOLEAN, force \in Forces, dryRun \in DryRuns :
           opts' = [once |-> once, force |-> force, dryRun |-> dryRun]
    /\ mem' = file
    /\ pc' = "scan"
    /\ UNCHANGED <<ctx, local>>
    /\ Elsewhere

Resume ==
    /\ pc = "paused"
    /\ \/ /\ now >= wake
          /\ pc' = "scan" /\ wake' = 0
          /\ UNCHANGED <<mem, opts, ctx, cur, commit, attempt>>
       \/ ~Live /\ Exit
    /\ Elsewhere

\* scan's first statement: a canceled context ends it at once.
ScanBegins ==
    /\ pc = "scan"
    /\ IF Live THEN Goto("reconcile") ELSE Return("error")
    /\ Elsewhere

\* The loop over proposals left in doubt, oldest first.
ReconcileFound ==
    /\ pc = "reconcile"
    /\ Live
    /\ \E r \in RequestId :
           /\ IsFirst(r, With(mem, "posting"))
           /\ filed[r] > 0
           /\ mem' = Mark(mem, r, "submitted")
    /\ UNCHANGED <<pc, opts, ctx, local>>
    /\ Elsewhere

ReconcileRefused_Reposts ==
    /\ pc = "reconcile"
    /\ \E r \in RequestId :
           /\ IsFirst(r, With(mem, "posting"))
           /\ mem' = Mark(mem, r, "pending")
    /\ UNCHANGED <<pc, opts, ctx, local>>
    /\ Elsewhere

\* The listing failed, or shows no marker yet: scan refuses to go on.
ReconcileRefused ==
    /\ pc = "reconcile"
    /\ With(mem, "posting") # {}
    /\ Return("error")
    /\ Elsewhere

ReconcileDone_LeavesDoubt == pc = "reconcile" /\ Goto("saveReconciled") /\ Elsewhere

ReconcileDone_SavesNothing ==
    /\ pc = "reconcile"
    /\ With(mem, "posting") = {}
    /\ Goto("gate")
    /\ Elsewhere

ReconcileDone ==
    /\ pc = "reconcile"
    /\ With(mem, "posting") = {}
    /\ Goto("saveReconciled")
    /\ Elsewhere

SaveReconciled == pc = "saveReconciled" /\ SaveThen("gate")

\* `if !force && !time.Now().Before(s.NextScan) { return nil }`
Due == now >= mem.nextScan

Gate ==
    /\ pc = "gate"
    /\ IF ~opts.force /\ Due THEN Return("nil") ELSE Goto("open")
    /\ Elsewhere
-----------------------------------------------------------------------------
(***************************************************************************)
(* checkout.open and head: clone when the directory is missing, fetch the  *)
(* branch into its remote-tracking ref, and take that ref as `commit`.     *)
(* The clone's own HEAD moves in none of these steps after the clone.      *)
(***************************************************************************)
OpenClones ==
    /\ pc = "open"
    /\ ~checkout.present
    /\ Live
    /\ checkout' = ClonedAt(remote)
    /\ Goto("fetch")
    /\ UNCHANGED <<store, world, github, history>>

OpenFinds ==
    /\ pc = "open"
    /\ checkout.present
    /\ Goto("fetch")
    /\ Elsewhere

\* git clone is killed, at worst after it made the directory a repository.
OpenFails ==
    /\ pc = "open"
    /\ ~checkout.present
    /\ checkout' \in {NoClone, ClonedAt(NoCommit)}
    /\ Return("error")
    /\ UNCHANGED <<store, world, github, history>>

Fetch ==
    /\ pc = "fetch"
    /\ Live
    /\ commit' = remote
    /\ pc' = "compare"
    /\ UNCHANGED <<mem, opts, ctx, cur, attempt, wake>>
    /\ Elsewhere

Unchanged == commit = mem.lastCommit /\ HasProposals(mem)

\* Nothing new on the branch: only the next scan's time is saved.
CompareUnchanged ==
    /\ pc = "compare"
    /\ Unchanged
    /\ mem' = [mem EXCEPT !.nextScan = AfterPoll]
    /\ pc' = "saveIdle"
    /\ UNCHANGED <<opts, ctx, local>>
    /\ Elsewhere

SaveIdle == pc = "saveIdle" /\ SaveAndReturn

\* The issue history and the instruction files have been read.
CompareChanged ==
    /\ pc = "compare"
    /\ ~Unchanged
    /\ Live
    /\ Goto("agent")
    /\ Elsewhere
-----------------------------------------------------------------------------
(***************************************************************************)
(* execute: the agent runs with the clone as its directory and every tool  *)
(* approved, so it may check out another commit or edit tracked source.    *)
(***************************************************************************)
AgentActs ==
    /\ \E c \in {checkout.head, remote, NoCommit}, d \in {checkout.dirty, TRUE} :
           checkout' = [checkout EXCEPT
                           !.head = c, !.dirty = d,
                           !.touched = @ \/ c # checkout.head \/ d # checkout.dirty]
    /\ UNCHANGED <<store, world, github, history>>

AgentAnswers ==
    /\ pc = "agent"
    /\ Live
    /\ AgentActs
    /\ Goto("verify")

AgentFails == pc = "agent" /\ AgentActs /\ Return("error")

AgentStartupRetry_OnceMore ==
    /\ pc = "agent"
    /\ Live
    /\ attempt <= MaxRetries
    /\ attempt' = attempt + 1
    /\ UNCHANGED <<pc, mem, opts, ctx, cur, commit, wake>>
    /\ Elsewhere

\* A SetupError: sleep and retry, up to the last delay; with none left, or
\* when the command does not exist, Run returns the error even as a daemon.
AgentStartupRetry ==
    /\ pc = "agent"
    /\ Live
    /\ attempt < MaxRetries
    /\ attempt' = attempt + 1
    /\ UNCHANGED <<pc, mem, opts, ctx, cur, commit, wake>>
    /\ Elsewhere

AgentStartupFails == pc = "agent" /\ Return("startup") /\ Elsewhere

\* base.verify(ctx, commit): HEAD is the commit and no tracked file differs.
Verified == checkout.head = commit /\ ~checkout.dirty

Verify ==
    /\ pc = "verify"
    /\ Live
    /\ Verified
    /\ Goto("record")
    /\ Elsewhere

\* parseScan accepted n proposals: each gets a fresh request id and a status,
\* and the batch goes into the State together with the commit it is for.
Batch(n) == (nextId + 1)..(nextId + n)

Record_KeepsLastCommit ==
    /\ pc = "record"
    /\ \E n \in 0..MaxProposals :
           /\ nextId + n <= MaxRequests
           /\ mem' = [mem EXCEPT !.nextScan = AfterPoll,
                                 !.status = [r \in RequestId |->
                          IF r \in Batch(n) THEN "pending" ELSE mem.status[r]]]
           /\ foundAt' = [r \in RequestId |->
                             IF r \in Batch(n) THEN commit ELSE foundAt[r]]
           /\ nextId' = nextId + n
    /\ pc' = "saveScan"
    /\ UNCHANGED <<opts, ctx, local, store, world, checkout, github>>

Record ==
    /\ pc = "record"
    /\ \E n \in 0..MaxProposals :
           /\ nextId + n <= MaxRequests
           /\ mem' = [lastCommit |-> commit,
                      nextScan   |-> AfterPoll,
                      status     |-> [r \in RequestId |->
                          IF r \notin Batch(n) THEN mem.status[r]
                          ELSE IF opts.dryRun THEN "dry_run" ELSE "pending"]]
           /\ foundAt' = [r \in RequestId |->
                             IF r \in Batch(n) THEN commit ELSE foundAt[r]]
           /\ nextId' = nextId + n
    /\ pc' = "saveScan"
    /\ UNCHANGED <<opts, ctx, local, store, world, checkout, github>>

SaveScan == pc = "saveScan" /\ SaveThen("file")
-----------------------------------------------------------------------------
(***************************************************************************)
(* Filing: every pending proposal, oldest first, is saved as "posting"     *)
(* before its POST starts and as "submitted" after GitHub confirmed it.    *)
(***************************************************************************)
FileNext_DryRunToo ==
    /\ pc = "file"
    /\ \E r \in RequestId :
           /\ IsFirst(r, With(mem, "pending"))
           /\ mem' = Mark(mem, r, "posting")
           /\ cur' = r
    /\ pc' = "savePosting"
    /\ UNCHANGED <<opts, ctx, commit, attempt, wake>>
    /\ Elsewhere

FileNext ==
    /\ pc = "file"
    /\ ~opts.dryRun
    /\ \E r \in RequestId :
           /\ IsFirst(r, With(mem, "pending"))
           /\ mem' = Mark(mem, r, "posting")
           /\ cur' = r
    /\ pc' = "savePosting"
    /\ UNCHANGED <<opts, ctx, commit, attempt, wake>>
    /\ Elsewhere

FileDone ==
    /\ pc = "file"
    /\ opts.dryRun \/ With(mem, "pending") = {}
    /\ Return("nil")
    /\ Elsewhere

SavePosting == pc = "savePosting" /\ SaveThen("create")

\* gh starts; from here on the issue may come to exist whatever the process,
\* its deadline or its death do.
Create ==
    /\ pc = "create"
    /\ Live
    /\ posts' = [posts EXCEPT ![cur] = @ + 1]
    /\ wire' = wire \cup {cur}
    /\ statedAt' = [statedAt EXCEPT ![cur] = commit]
    /\ Goto("await")
    /\ UNCHANGED <<store, world, checkout, filed, history>>

CreateConfirmed_AnyAnswer ==
    /\ pc = "await"
    /\ mem' = Mark(mem, cur, "submitted")
    /\ pc' = "saveSubmitted"
    /\ UNCHANGED <<opts, ctx, local>>
    /\ Elsewhere

CreateConfirmed ==
    /\ pc = "await"
    /\ Live
    /\ filed[cur] > 0
    /\ mem' = Mark(mem, cur, "submitted")
    /\ pc' = "saveSubmitted"
    /\ UNCHANGED <<opts, ctx, local>>
    /\ Elsewhere

SaveSubmitted_IgnoresErrors == pc = "saveSubmitted" /\ SaveThen_IgnoresErrors("file")

SaveSubmitted == pc = "saveSubmitted" /\ SaveThen("file")

\* Any other call of scan fails, its answer is unusable, its context is done,
\* verify refuses or gh is refused: scan returns err with mem as it stands.
StepFails ==
    /\ pc \in {"fetch", "compare", "verify", "record", "create", "await"}
    /\ pc = "compare" => ~Unchanged
    /\ Return("error")
    /\ Elsewhere
-----------------------------------------------------------------------------
(***************************************************************************)
(* The environment.                                                        *)
(***************************************************************************)
UnderDeadline_AgentOnly == {"agent"}

UnderDeadline == {"agent", "verify", "record", "saveScan", "file",
                  "savePosting", "create", "await", "saveSubmitted"}

\* context.WithTimeout(ctx, cfg.Timeout) covers the agent and all that follows.
Deadline ==
    /\ pc \in UnderDeadline
    /\ Live
    /\ ctx' = "expired"
    /\ UNCHANGED <<pc, mem, opts, local>>
    /\ Elsewhere

\* The worker's client disconnects, or its server closes.
Cancel ==
    /\ pc # "down"
    /\ ctx # "canceled"
    /\ ctx' = "canceled"
    /\ UNCHANGED <<pc, mem, opts, local>>
    /\ Elsewhere

\* The process is killed.  A git clone under way may stop anywhere.
Crash ==
    /\ pc # "down"
    /\ Exit
    /\ IF pc = "open" /\ ~checkout.present
       THEN checkout' \in {NoClone, ClonedAt(NoCommit), ClonedAt(remote)}
       ELSE UNCHANGED checkout
    /\ UNCHANGED <<store, world, github, history>>

PowerFails ==
    /\ Exit
    /\ Store!PowerLoss
    /\ UNCHANGED <<world, checkout, github, history>>

\* GitHub executes a POST that was started, or it turns out never to arrive.
GitHubCreates ==
    /\ \E r \in wire :
           /\ filed' = [filed EXCEPT ![r] = @ + 1]
           /\ wire' = wire \ {r}
    /\ UNCHANGED <<process, store, world, checkout, posts, statedAt, history>>

PostIsLost ==
    /\ \E r \in wire : wire' = wire \ {r}
    /\ UNCHANGED <<process, store, world, checkout, posts, filed, statedAt, history>>

BranchAdvances ==
    /\ remote < MaxCommit
    /\ remote' = remote + 1
    /\ UNCHANGED <<process, store, now, checkout, github, history>>

Tick ==
    /\ now < MaxTime
    /\ now' = now + 1
    /\ UNCHANGED <<process, store, remote, checkout, github, history>>

\* The operator deletes the clone; open makes a new one.
CloneRemoved ==
    /\ pc = "down"
    /\ checkout.present
    /\ checkout' = NoClone
    /\ UNCHANGED <<process, store, world, github, history>>
-----------------------------------------------------------------------------
Init ==
    /\ pc = "down" /\ mem = newState /\ opts = NoOpts /\ ctx = "live"
    /\ cur = 0 /\ commit = NoCommit /\ attempt = 0 /\ wake = 0
    /\ \E t \in SavedNextScans : file = [newState EXCEPT !.nextScan = t]
    /\ survivors = {file}
    /\ now = 0 /\ remote = 1
    /\ checkout = NoClone
    /\ posts = [r \in RequestId |-> 0]
    /\ filed = [r \in RequestId |-> 0]
    /\ statedAt = [r \in RequestId |-> NoCommit]
    /\ wire = {}
    /\ nextId = 0
    /\ foundAt = [r \in RequestId |-> NoCommit]

Scan ==
    \/ ScanBegins
    \/ ReconcileFound \/ ReconcileRefused \/ ReconcileDone \/ SaveReconciled
    \/ Gate
    \/ OpenClones \/ OpenFinds \/ OpenFails \/ Fetch
    \/ CompareUnchanged \/ SaveIdle \/ CompareChanged
    \/ AgentAnswers \/ AgentFails \/ AgentStartupRetry \/ AgentStartupFails
    \/ Verify \/ Record \/ SaveScan
    \/ FileNext \/ FileDone \/ SavePosting
    \/ Create \/ CreateConfirmed \/ SaveSubmitted
    \/ StepFails

Environment ==
    \/ Deadline \/ Cancel \/ Crash \/ PowerFails
    \/ GitHubCreates \/ PostIsLost
    \/ BranchAdvances \/ Tick \/ CloneRemoved

Next == Start \/ Resume \/ Scan \/ Environment

Spec == Init /\ [][Next]_vars

(***************************************************************************)
(* Fairness.  The bot's own statements run, and gh's listings return (gh   *)
(* has a minute for each call).  Nothing is assumed of git at open and     *)
(* fetch, which have no timeout at all, nor of the agent, of verify or of  *)
(* gh's create, except that the expiry of cfg.Timeout ends these (osrun    *)
(* kills the process group).  The bot is started again after it ends, and  *)
(* failures do not hit the same step of every single run.                  *)
(***************************************************************************)
Fairness ==
    /\ WF_vars(Start) /\ WF_vars(Resume) /\ WF_vars(Tick)
    /\ WF_vars(pc \notin {"open", "fetch", "agent", "verify", "create", "await"} /\ Scan)
    /\ WF_vars(Deadline)
    /\ WF_vars(~Live /\ (AgentFails \/ StepFails))
    /\ SF_vars(Live /\ ScanBegins)
    /\ SF_vars(ReconcileFound)
    /\ SF_vars(ReconcileDone)
    /\ SF_vars(SaveReconciled /\ pc' = "gate")

FairSpec == Spec /\ Fairness
-----------------------------------------------------------------------------
TypeOK ==
    /\ pc \in {"down", "paused", "scan", "reconcile", "saveReconciled", "gate", "open", "fetch",
               "compare", "saveIdle"} \cup UnderDeadline
    /\ mem \in State
    /\ opts \in [once : BOOLEAN, force : BOOLEAN, dryRun : BOOLEAN]
    /\ ctx \in {"live", "expired", "canceled"}
    /\ cur \in RequestId \cup {0}
    /\ commit \in Commit \cup {NoCommit}
    /\ attempt \in 0..MaxRetries
    /\ wake \in 0..MaxTime
    /\ Store!StoreTypeOK
    /\ now \in 0..MaxTime
    /\ remote \in Commit
    /\ checkout \in Checkout
    /\ posts \in [RequestId -> Nat]
    /\ filed \in [RequestId -> Nat]
    /\ statedAt \in [RequestId -> Commit \cup {NoCommit}]
    /\ wire \subseteq RequestId
    /\ nextId \in 0..MaxRequests
    /\ foundAt \in [RequestId -> Commit \cup {NoCommit}]
-----------------------------------------------------------------------------
(***************************************************************************)
(* Properties.                                                             *)
(***************************************************************************)
Remembers(s, r) == s.status[r] \in {"posting", "submitted"}
Published(r)    == posts[r] > 0

\* "never blindly reposted" (README.md:43): however scans are interrupted,
\* retried and restarted, one request id leads to one POST and one issue.
NeverReposted ==
    \A r \in RequestId : posts[r] <= 1 /\ filed[r] <= 1

\* "a random durable request marker saved before publication" (README.md:42):
\* once a POST has started, every State that a crash or a power loss can leave
\* behind knows the proposal as posting or submitted.
IntentSurvives ==
    \A r \in RequestId : Published(r) => \A s \in survivors : Remembers(s, r)

\* A proposal is called submitted, in memory or in any file that can come
\* back, only when its issue exists.
SubmittedExists ==
    \A s \in survivors \cup {mem} :
        \A r \in With(s, "submitted") : filed[r] > 0

\* No State leaves more than one creation in doubt, and none while a scan
\* works on new proposals: the reconcile loop settled them first.
DoubtIsSettledFirst ==
    /\ \A s \in survivors \cup {mem} :
           \A r, q \in With(s, "posting") : r = q
    /\ pc \in {"gate", "open", "fetch", "compare", "agent", "verify", "record"} =>
           \A s \in survivors \cup {mem} : With(s, "posting") = {}

\* Proposals never reach the disk without the commit they were found at: no
\* State that can come back holds a proposal newer than its LastCommit, so
\* that commit is not investigated a second time.
SavedWithItsCommit ==
    \A s \in survivors : \A r \in RequestId :
        s.status[r] # "none" => foundAt[r] <= s.lastCommit

\* A dry run starts no POST, not even for what an earlier run left pending,
\* and what it recorded is never filed by a later run.
DryRunFilesNothing ==
    [][\A r \in RequestId :
          posts'[r] # posts[r] => ~opts.dryRun /\ \A s \in survivors : s.status[r] # "dry_run"]_vars

\* The refinement mapping to IssueFiling: what GitHub holds for a request id
\* together with what every State that can come back says of it.
Stage(r) ==
    IF posts[r] = 0
    THEN IF \A s \in survivors : Remembers(s, r) THEN "intended" ELSE "unsent"
    ELSE IF r \in wire THEN "underway"
    ELSE IF filed[r] = 0 THEN "lost"
    ELSE IF \A s \in survivors : s.status[r] = "submitted" THEN "confirmed" ELSE "filed"

Filing == INSTANCE IssueFiling WITH stage <- [r \in RequestId |-> Stage(r)]

\* Discovery implements IssueFiling: the next creation is not even recorded
\* before the one before it is settled for good.
FilesOneAtATime == Filing!Spec

\* "an unknown outcome is reconciled by marker" (README.md:42): an issue that
\* came to exist is in the end saved for good as submitted, also when the POST's
\* answer was lost, the scan timed out or the process died before it was saved.
FilingReconciled ==
    []<>(\A r \in RequestId :
            filed[r] > 0 => \A s \in survivors : s.status[r] = "submitted")

\* A scan that has come to its agent ends: cfg.Timeout (run.go:238) alone ends
\* it, at whichever call from there on the agent, git or gh never returns.
DeadlineEndsScan == pc \in UnderDeadline ~> pc \in {"down", "paused"}
-----------------------------------------------------------------------------
(***************************************************************************)
(* What the source says of itself and the code does not do.                *)
(***************************************************************************)
\* "not a command that bypasses this bot's own saved scan interval"
\* (run.go:50): scan works on the repository only once NextScan has come.
IntervalHonoured == [][pc = "gate" /\ pc' = "open" => opts.force \/ Due]_vars

\* "agent changed the assessment commit" (git.go:140): verify refuses a clone
\* only after an agent changed it.
VerifyRefusesOnlyAgents == pc = "verify" /\ ~Verified => checkout.touched

\* "Investigated at commit" (github.go:171): the commit an issue states is the
\* one its proposal was found at.
StatesInvestigatedCommit ==
    \A r \in RequestId : Published(r) => statedAt[r] = foundAt[r]
=============================================================================
