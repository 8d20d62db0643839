# A verification project for simplifier-bot

`bsb` (simplifier-bot) scans a repository with an agent and files issues that
propose to remove complexity, and it assesses single issues and pull requests
for Brokk Town. It is a small program with hard obligations: it must not file
an issue twice, whatever is killed, times out or loses its answer; a save that
was acknowledged must survive power loss; two processes must not work on one
repository, state directory or clone; an agent must look at exactly the
revision it is asked about; and Brokk Town, which starts the runs over a socket,
must be told the truth about how they ended.

This directory holds TLA+ modules translated from the source, TLC
configurations that check them on small instances, and proofs, checked by
TLAPS, of the safety properties for every value of the constants. File and line
numbers refer to the repository root (`run.go:209` is `src/run.go`, line 209,
in `PROJECT.json`).

## Inventory

| Part | State | Operations | Modelled in |
|---|---|---|---|
| Discovery scan (`run.go` `Run`, `engine.scan`, `engine.execute`; `agent.go`) | the `*State` that `Run` holds, scan's locals, the context | reconcile, gate, open, compare, agent, verify, record, file | `DiscoveryScan` |
| State store (`state.go` `ReadState`, `writeState`) | `state.json` | read, replace | `StateFile`, `StateStore` |
| Locks (`state.go` `lockConfig`, `lockFile`) | three flocks per configuration | lock, refuse, unlock | `ConfigLocks` |
| Managed clone (`git.go`) | the clone's HEAD, its remote-tracking ref, item worktrees and their registrations | open, head, fetchItem, itemWorktree, pristine, discard, verify | `DiscoveryScan`, `ItemAssessment` |
| Item assessment (`run.go` `Assess`) | the revision under assessment, one worktree path per item | read the target, prepare the worktree, run the agent, verify, report | `ItemAssessment` |
| GitHub client (`github.go`) | a listing's pages so far; GitHub's issues | issues, pages, issue, pull, create | `GitHubListing`; `create`, `issue` and `pull` as steps of `DiscoveryScan` and `ItemAssessment`, abstract filing in `IssueFiling` |
| Worker server (`internal/worker/server.go`, `cmd/bsb/worker.go`, `progress.go`) | socket, event stream of each run | Serve, initialize, runs, shutdown | `WorkerServer` |
| Command runner (`internal/osrun/run.go`) | output tails | start, write to a tail, kill the process group | `OutputTail`; process groups in `WorkerServer`, kills as steps of `ItemAssessment` |
| Prompts and receipts (`prompt.go`) | none | build a prompt, find and check the receipt | `AgentReceipt`; accepted or refused in the other modules |
| Configuration (`config.go`, `paths.go`, `prepareConfig`) | none | read, validate, resolve paths | validation and resolution before the locks in `ConfigLocks` |
| Command line (`cmd/bsb/main.go`) | the context that signals end | dispatch, exit | signals and the end of the process in `WorkerServer` |
| Installer, npm launcher, release scripts | none while running | | not modelled |

How they interact. Town starts `bsb worker`; each `POST /v1/runs` calls `Run`
(once) or `Assess`, under a context that ends when the client goes away. Both
take the three locks first, so at most one of them works on a repository, state
directory or clone at a time; this is what lets the other modules have a single
process. A scan alternates between memory and `state.json` (`writeState`), git
commands in the clone, one agent, and `gh` for GitHub. Every external command
runs in a process group that is killed when its context ends.

What is hard here:

* a `POST /issues` whose answer is lost may have created the issue, or do so
  later; `gh` is not told apart from GitHub, and the process may die in between;
* `state.json` and the memory of a daemon disagree after a failed save, and
  after a save whose rename took effect but whose directory sync failed;
* the deadline of the scan may expire between any two statements;
* the three locks are taken one by one, by configurations that may overlap in
  any way;
* a worktree is two things, a directory and git's registration, and a kill or a
  deletion can leave either one, or git's lock, behind;
* a worker may be stopped, fail or be killed under a run, and the next one
  started, while the commands of that run live on in process groups of their
  own; a client may go, or close only its sending side;
* a listing takes many pages of a list that changes meanwhile, each of them the
  output of a command of which only the last 8 MiB are kept;
* an agent's answer is free text that may quote receipts, and what is accepted of
  it is validated again at every start, where a refusal stops the bot.

`PROJECT.json` lists these, and the ones not covered yet, as hazards at the
lines where they bite.

## Modules

| Module | What it is |
|---|---|
| `StateStore` | what a save promises: committed, unconfirmed or unwritten; power loss picks a survivor |
| `StateFile` | `writeState`, one action per system call, over files that may be torn and renames that may be lost; implements `StateStore` |
| `IssueFiling` | what discovery promises about each request id; abstract |
| `DiscoveryScan` | `Run` and `scan`; saves through `StateStore`; implements `IssueFiling` |
| `ConfigLocks` | `prepareConfig` and `lockConfig`/`lockFile` for any number of processes |
| `ItemAssessment` | `Assess` with `itemWorktree`, `pristine`, `discard`, `fetchItem`, `verify` |
| `WorkerServer` | `Serve` and the handler of a run for any number of servers on one path, with their clients |
| `OutputTail` | `Tail`: the end of a command's output, and what it admits to have lost |
| `GitHubListing` | `issues` and `pages` against a list that changes; extends `OutputTail`, through which every page comes |
| `AgentReceipt` | `receipt`, `parseScan`, `parseAssessment`; the proposals' way through the State |
| `MC*` | the modules TLC is run on |
| `*Proofs` | inductive invariants and theorems of the module they name; `DiscoveryRefinementProofs`: `DiscoveryScan` implements `IssueFiling` |

`DiscoveryScan` takes every save as a step of `StateStore` (`Store ==
INSTANCE StateStore`), and `StateFile` is shown, by TLC and by proof, to
implement it (`ReplacesWhole`, `FileImplementsStore`): a scan never needs to
look inside a save. Definitions named `X_Y` (`SaveThen_IgnoresErrors`) are
plausible bugs in the definition `X` that follows them; the specification does
not use them. `PROJECT.json` names the property each of them breaks.

### DiscoveryScan and the code

`pc` names the statement of `scan` that comes next, `mem` is the `*State` `s`,
`cur`, `commit` and `attempt` are locals, `wake` is the timer of `pause`, and
`file`/`survivors` are the store. Request ids are numbered in the order they are
drawn, so `With`/`IsFirst` walk `s.Proposals` in order and a status function
stands for the list.

| Actions | Code |
|---|---|
| `Start`, `Resume`, `ScanBegins` | `run.go:29-77`, `181-184` |
| `ReconcileFound`, `ReconcileRefused`, `ReconcileDone`, `SaveReconciled` | `run.go:185-208` |
| `Gate` | `run.go:209-211` |
| `OpenClones`, `OpenFinds`, `OpenFails`, `Fetch` | `git.go:18-51` |
| `CompareUnchanged`, `SaveIdle`, `CompareChanged` | `run.go:221-239` |
| `AgentAnswers`, `AgentFails`, `AgentStartupRetry`, `AgentStartupFails` | `run.go:97-110`, `244-247` |
| `Verify`, `Record`, `SaveScan` | `run.go:248-272` |
| `FileNext`, `SavePosting`, `Create`, `CreateConfirmed`, `SaveSubmitted`, `FileDone` | `run.go:273-294`, `github.go:173-187` |
| `StepFails` | the error returns from `run.go:214` to `288` |
| `Deadline`, `Cancel`, `Crash`, `PowerFails` | the timeout of `run.go:238`; the caller's context; kills; power |
| `GitHubCreates`, `PostIsLost`, `BranchAdvances`, `Tick`, `CloneRemoved` | GitHub, the clock, the operator |

Abstractions. Texts, titles and prompts are left out. A listing may or may not
show a marker that exists (GitHub's list lags), so `ReconcileRefused` needs no
reason. `gh` that was started may take effect after the bot gave up on it or
died. The clock saturates at `MaxTime`, which stands for every later time, and
the saved `next_scan` of the first start may be any of `SavedNextScans`: a
State written by an earlier configuration is one of them. `rand.Read` is taken
never to fail and never to repeat. A clone too broken for `open` (killed at the
wrong moment) is one whose every `Fetch` fails. A scan's agent has every tool
approved and may leave the clone at another commit or with edits. `force` is a
parameter because `scan` has it; `Run` passes FALSE, and so do the
configurations.

### StateFile and the code

One action per call of `writeState` (`state.go:64-96`): `MkdirAll`,
`CreateTemp`, `Write`, `Sync`, `Close`, `Rename`, `OpenDir`, `SyncDir`. `Fails`
is any of them returning an error, with the deferred removal of the temporary
file; `Killed` and `PowerLoss` come at any point. Data is safe after `Sync`,
the rename after `SyncDir`. Not modelled: that a state directory made by
`MkdirAll` in a parent that is never synced may itself be lost (the sync of a
directory is taken to make its ancestors durable), the JSON encoding, and the
temporary file a killed process leaves in the directory.

### ConfigLocks and the code

`Acquire`, `Refused` and `LockFileFails` are the outcomes of `lockFile`
(`state.go:104-117`), in the order repository, state directory, checkout
(`state.go:118-133`); `Release` undoes them in reverse, after the work, a
refusal or a failure; `Killed` is the kernel dropping the locks of a dead
process. `Call` is `prepareConfig` (`run.go:78-96`): it refuses a configuration
whose checkout and state directory have the same name (which stands for every
overlap `Validate` finds by comparing names) and then resolves both names;
`Target` says which directory a name leads to. So a configuration whose two
directories are one after resolution passes, as it does in the code. A
directory is one model value in both roles, as it may be one configuration's
state directory and another's checkout. Nested directories are not modelled.

### ItemAssessment and the code

`dir` and `reg` are the two halves of a worktree: the directory (absent,
without a link to git, or linked, with its HEAD and the three kinds of
leftovers) and git's registration (none, registered, locked). `Open` to
`FetchItem` determine the revision (`run.go:132-161`, `git.go:56-68`); `Reuse`
to `VerifyNew` are `itemWorktree` (`git.go:77-126`); then the agent, `Verify`
and `Report`. What `git worktree add`, `remove` and `prune` do with each
combination of the two halves was taken from git's behaviour (2.39): `remove`
refuses a locked registration and a path that is not a worktree, `prune` keeps
locked registrations and drops those that lost their directory, `add` refuses
an existing path and a registered one, and holds the lock "initializing" while
it works. A call may end at every step; a canceled context kills git with
SIGKILL, so `AddKilled` and `RemoveInterrupted` leave what git leaves then.
What is left in
a directory is one of nothing, ignored files, untracked files and edits, the
last of which is the only one that matters to the code's tests.
Not modelled: an agent that rewrites git's own bookkeeping, and the retries of
`execute` (they change nothing here; `DiscoveryScan` counts them).

### WorkerServer and the code

`pc` is where a server is in `Serve`, `stage` where a run's handler is. A
server goes through `Listen`, `Secure` (`server.go:110-127`), then `ServeFails`
with `FailedExit`, or `Signal`/`ShutdownRequested` (`133-144`, `228-235`) with
`Drained` or `GraceOver`: `Shutdown` returning, or its five seconds and `Close`,
each merged with the deferred `os.Remove` and the end of the process
(`main.go:15-22`), which nothing in the code lies between. Closing a Unix
listener removes its path by name, and so does the deferred `os.Remove`; the
latter comes too late to remove the server's own socket, so what it can remove
is the socket of another (`PathLeadsToServer` says when).
A handler goes through `Refused`, `Begin` or `BeginFails`, then `Progress`,
`CommandStarts`, `CommandEnds`, `Returns`, `WriteResult`, `WriteEnd`
(`164-226`; `worker.go:33-54`). `lock` stands for the three locks and all runs
are about one clone; what else they do is in the other modules. A client may
close its connection or only its sending side, which net/http takes for a close
and cancels the request's context; only the latter client can receive
`canceled`. `StaleSocketRemoved` is whoever removes the socket a killed worker
left. An event's `Seq` is its place in `events`. Left out: `GET /v1/initialize`
and the contents of progress events.

### GitHubListing, OutputTail and the code

`list` is what GitHub has, in the order of creation; `Call` to `Comments` are
`issues` and `pages` (`github.go:69-111`, `150-168`), a page per `Ask`,
`GhWrites`, and `NextPage`, `LastPage` or `PageRefused`. A page travels as `JSON`,
a sequence of the units that are the `Tail`'s bytes here: 0 opens the array, the
number of an item opens the item, and a long item takes one more unit. `GhWrites`
puts any number of them at a time into the `Tail` (`osrun/run.go:24-38`), `Run`
refuses what was cut (`82-88`), and `api` decodes what was not: `Answered(items)`
is that the bytes are whole and are the JSON of `items`, so decoding is stated by
its inverse and a page that is no array is one that answers nothing. `Check`
refuses a listing that is not `Unique`, and `Comments` sorts it: `issues` is a
rearrangement of the issues found in which no number comes after a greater one,
which is all `sort.Slice` promises. The comments, which take pages of their own
in the same way, are one step, and what they hold is left out. GitHub may insert
at any place (a transfer keeps the old date of creation) and remove from any.

### AgentReceipt and the code

`Split`, `Search`, `Unfinished` and `Decode` are `receipt` (`prompt.go:93-120`):
`line` is the last line of the trimmed text, `at` how much of it `strings.Cut`
has cut off, `raw` the JSON that is decoded. `CheckAssessment` and `CheckScan`
are the rest of `parseAssessment` and `parseScan`; `Record` and `File` are what
`scan` makes of the proposals (`run.go:256-293`), and `ReadState` validates them
as the next run does (`state.go:46-50`), at any stage of their filing. A text is
a sequence of six symbols; JSON keeps what the search can stumble over, nesting
and strings, and leaves out keys and further members. What the object decodes to
is given with the text. The second `Decode` of `receipt` can only meet the end of
its input, as `raw` was valid as a whole, and is left out. `validateProposal`
looks at each piece of evidence and not at how many there are, so a proposal
without any is valid, here as in the code.

## What the runs check

| Run | Question | Bounds |
|---|---|---|
| `discovery` | is every request id posted once, durable before it is posted, settled before the next; is every filed issue in the end saved as submitted; does every scan that comes to its agent end? | 2 request ids, batches up to 2, 2 commits, time 0..1, 1 retry; 155 thousand states |
| `state_file` | does `writeState` implement the store? | 3 States |
| `config_locks` | exclusion, no leak, no mutual refusal | 3 processes, 2 repositories, 2 directories, one with a second name, symmetry; 114 thousand states |
| `item_assessment` | does an agent start, and its answer count, only at the reported revision; is a stale worktree rebuilt? | 1 issue, 1 pull request (assessed again and again), 2 revisions; 140 thousand states |
| `worker_server` | is the client told the truth, are clone and locks free when it is, does a stop end, does the path lead to the server? | 2 servers, 1 scan, 1 assessment with 1 progress event; 265 thousand states |
| `github_listing` | what may a listing miss or list twice, is cut output ever taken for a page, does a retry succeed? | 4 numbers, one a pull request, two long; 2 pages of 2; a `Tail` of 4 units; 400 thousand states |
| `agent_receipt` | is the right receipt read of any text, and can a State always be read again? | every text of up to 7 symbols; up to 3 proposals, one of them arbitrary, `max_proposals` 2; 1.3 million states |
| `discovery_interval`, `discovery_verify`, `discovery_commit`, `item_discard`, `item_leftovers` | findings, see below | the smallest instances that show them |

Why the bounds are enough. Two request ids are the least with which one
creation can be in doubt while the next begins, and a batch of two is the least
for a filing loop that goes round; two commits give the change of the branch
between two scans, and time 0..1 with `Poll = 1` gives a time before and one at `NextScan`,
which is all the gate tells apart, and a second scan before it. Three processes and
two names of each kind give a cycle of overlapping configurations. Two
revisions give a pull request that moves away and, by force, back. Two servers
are the least with which one is started while another is stopping; two runs of
both kinds contend for the clone, on one server or on two. Two pages of two
give a full last page, an empty one, a shift between pages and the page limit;
a page of two long items is just longer than the `Tail`, one with a single
long item just fits. Seven symbols hold a receipt
whose string quotes the prefix, with prose or blank lines around it. The
theorems below do not depend on these bounds.

Properties, grouped by what could go wrong:

* no double filing: `NeverReposted`, `IntentSurvives`, `SubmittedExists`,
  `DoubtIsSettledFirst`, and `FilesOneAtATime`, the refinement of
  `IssueFiling`;
* nothing forgotten or reinvestigated: `SavedWithItsCommit`,
  `FilingReconciled`;
* a dry run files nothing, and nothing it recorded is filed later:
  `DryRunFilesNothing`;
* a scan that has come to its agent ends, its timeout alone sees to it:
  `DeadlineEndsScan`;
* saves: `NilMeansDurable`, `NothingOlderReturns`, `ReplacesWhole`;
* locks: `Exclusive`, `NothingLeaks`, `NotAllRefused`;
* assessments: `AgentStartsAtTarget`, `ReportedAsFound`,
  `OnlyGitsLockBlocks`, `StaleIsRebuilt`;
* the worker: `StreamTellsOutcome`, `CutOnlyForCause` (what a client is told),
  `EndingMeansDone`, `AloneInClone` (what is free when it is told),
  `PathLeadsToServer` (the socket path), `StopEnds`, `LeavingFreesClone`;
* listings: `MissesNoMoreThanVanished`, `EachIssueOnce`, `TailHoldsEnd`,
  `RetrySucceeds`;
* receipts: `ReceiptIsOutermost`, `FinishedIsUnderstood`, `AcceptedIsReadable`.

`config_locks`, `worker_server` and `agent_receipt` go without
deadlock checking: their processes, runs and answers make one attempt each and
end.

Two things these runs make plain. A listing that succeeds can miss an issue
that was there all the while, one for each that vanished between two pages,
without any sign of it; `MissesNoMoreThanVanished` is the exact bound. And a
worker that exits under a run leaves git and gh at work in the clone beside the
next run: `AloneInClone` holds only up to that.

### Fairness

`DiscoveryScan!Fairness`: the bot's own statements run (WF), and listings return,
as `gh` has a minute for each call (`github.go:63`). Nothing is assumed of git at
`open` and `fetch` (`run.go:214-217`): these calls come before the timeout and
have none of their own, so a clone or fetch that hangs holds a scan until its
caller cancels it. `DeadlineEndsScan` therefore speaks of scans from the agent
on, and `FilingReconciled` holds even if every scan hangs there, as all doubt is
settled and saved by then. Of the agent, of verify and of `gh`'s create nothing
is assumed except that the expiry of `cfg.Timeout` ends them, which `osrun` does
by killing the process group. Time passes. The bot is started again after it
stops, as Town does. Strong fairness on the reconcile steps says that failures
and kills do not hit the same step of every single scan, and that a listing
shows an existing issue eventually; with nothing of the kind no bot could ever
learn anything. `FilingReconciled` would be false without the retry that the
code makes in every scan, and is broken by leaving out the save after the
reconcile loop.

`ItemAssessment!Fairness` is the same for one item: an item that is assessed
over and over (`Retried`) is not interrupted at the same step of `itemWorktree`
each time. That includes that git returns there, where it has no timeout either.

`WorkerServer!Fairness`: once asked to stop, or failing to serve, `Serve` goes
on, as `Shutdown` returns when the runs are over or its timer fires; and net/http
notices a closed connection, whereupon `osrun` kills the command under way and
`Run` or `Assess`, whose every further call fails with the context, returns. No
assumption is made about clients, signals, or commands that nobody killed, so
`StopEnds` and `LeavingFreesClone` hold for runs that hang.

`GitHubListing!Fairness`: the statements run, the caller lists again after a
listing, and neither the same page nor the comments fail every time. That it
lists again is an assumption about the caller: a scan lists when a proposal is
posting (`run.go:190`), or when it gets past the gate and finds a new commit
(`run.go:225`); with a creation in doubt every scan does. That a listing is refused as unstable, or cut, is not excluded by fairness.
GitHub itself gets none: it becomes quiet because the model has finitely many
numbers.

## What the proofs show

| Module | Theorems |
|---|---|
| `DiscoveryScanProofs` | `DiscoveryTypes`, `NoRepost`, `IntentIsDurable`, `SubmittedIsFiled`, `OneDoubtAtATime`, `CommitIsSavedWithProposals`, `DryRunsAreDry`, `LostPostIsTheEnd`, `UntouchedCloneSeesOneCommit`, `FreshInstallNeverScans` |
| `DiscoveryRefinementProofs` | `DiscoveryImplementsFiling`, `OneCreationUnderway` |
| `StateFileProofs` | `FileTypes`, `NilIsDurable`, `NothingOlder`, `FileImplementsStore` |
| `ConfigLocksProofs` | `LocksTypes`, `LocksExclude`, `LocksDoNotLeak`, `LocksLetSomeoneWork` |
| `ItemAssessmentProofs` | `AssessmentTypes`, `StartsAtTarget`, `ReportsAsFound`, `DiscardIsThorough` |
| `WorkerServerProofs` | `WorkerTypes`, `PathIsKept`, `CloneIsShared`, `EndingIsTheEnd`, `StreamIsTrue`, `CutsHaveCause` |
| `GitHubListingProofs` | `TailKeepsEnd`, `ListingTypes`, `ListingTail`, `ListingMissesFew`, `ListingNamesOnce`, `ListingComplete` |
| `AgentReceiptProofs` | `ReceiptTypes`, `SearchIsRight`, `FinishedIsRead`, `ScanIsReadable` |

They hold for every number of request ids, proposals, commits, processes,
directories, items, revisions, servers, runs and events, and every capacity of
a `Tail`, for pages of any size and any number of them, and for texts of any
length; the assumptions are the `ASSUME`s of the
modules (constants are naturals, model values differ).

The arguments. *Discovery*: none of the properties is inductive alone. The
invariant `IInv` has three parts beside the types. `StatesGood` says of memory
and of every survivor that it remembers each id that was posted, knows no id
that was not drawn, calls submitted only what is filed, has at most one open
posting, and holds nothing newer than its own `LastCommit`. `Counts` ties the
POSTs made, on the wire and filed of an id to each other. `Aims` says what the
process relies on where it is; the one that matters most is that at `create`
memory is the only survivor, has `cur` as posting and no POST was made for it.
`NoRepost` then follows because an id whose POST was made is posting or
submitted in every State there is, and filing starts from pending ones only.
`DryRunsAreDry` adds that no dry run is at the statements that publish.
Three theorems say what the code comes to, for good or ill, rather than what it
is meant for. `LostPostIsTheEnd`: a POST that never arrived leaves its proposal
posting in every State, so the bot records and posts nothing any more until an
operator helps ("refusing to repost", `run.go:203`). `UntouchedCloneSeesOneCommit`:
the clone's HEAD is moved by nobody but an agent, and a scan gets past `Verify`
only there, so as long as agents leave the clone alone (the step formula
`Undisturbed`) all proposals ever recorded are of one commit. `FreshInstallNeverScans`
is about the gate. The last two are the general form of two of the findings.

*The refinement* needs three facts that speak of several States at once
(`RInv`): what every survivor knows, memory knows too; one id alone is open
anywhere, in memory or in any survivor; and while proposals are filed no
survivor has one open from before. A save that makes an intent durable then
finds every other id either never posted or submitted in every survivor, which
is `Settled` in `IssueFiling`; a save or a power loss that makes an issue
confirmed does so for the one open id. `OneCreationUnderway` is proved of
`IssueFiling` alone and holds of discovery because of the refinement.

*Locks*: who holds `level`
locks owns exactly the first `level` of its list; a refusal at lock `n` implies
that somebody has passed it, for good or still climbing, which makes a round of
refusals impossible. *State file*: the temporary file is synced from `Sync` on,
so only whole files are ever named. *Assessment*: from the reuse test on the
local revision is the one GitHub reported, and each statement of
`itemWorktree` narrows what may be at the path. *Worker*: a listening server
that was started while no other lived is alone, and the path is its own
(`PathKept`); the locks are held by exactly the run that is at work, and a
command belongs to it or to a run whose server ended (`LockKept`); a second
invariant (`StreamKept`) says what a stream holds at each stage of its handler.
*Tail*: what a write leaves is again an end of all that was written (`Ends`),
and an end is determined by its length (`TailKeepsEnd`, of `OutputTail` by
itself). *Listing*: that a result misses few is not inductive, as it says nothing
before the end. `IInv` speaks of `Missed(list, stayed, found, m)`, the items among
the first `m` of GitHub's list that stayed and were not found: with `m` the places
on the pages read so far they are never more than have `vanished`. A page that is
read adds its own places to both sides. An item that vanishes moves the ones
behind it one place forward (`RemoveShifts`), so it lets at most one other slip
onto the pages already read, and counts itself; an item that appears only pushes
others back onto the pages to come (`InsertShifts`). The page itself was right
when GitHub answered but is read later, so `Printing` keeps the bound for it while
its JSON is under way; that what comes out of the `Tail` is that page needs that
two pages never have the same JSON (`JSONInjective`) and that a `Tail` which
admits no loss holds all that was printed. A page with room left was the last, as
GitHub had nothing behind it. `ListingComplete` draws the conclusion a caller
needs: if nothing vanished, what the listing does not name was not there.
Induction over places in a page is done by taking the least counterexample, as
the order of the naturals is known to be well-founded. *Receipt*: nothing the search has passed
is a receipt (`SearchInv`); JSON begins with an object or a string, so in prose
without either nothing before the true receipt is one; and recording or filing a
proposal changes nothing that `validateProposal` looks at (`SavedInv`).

Checked by TLC only: liveness (`FilingReconciled`, `DeadlineEndsScan`,
`StaleIsRebuilt`, `StopEnds`, `LeavingFreesClone`, `RetrySucceeds`), which is
outside what TLAPS proves here. Every safety property and refinement the
passing runs check is a theorem as well.

## Findings

Each is a run that TLC finds violated; the counterexample is the story.

1. `discovery_interval`: the gate of `run.go:209` is inverted. A scan goes on
   when `NextScan` has *not* come and returns when it has, against the comment
   at `run.go:50`. Started without a `state.json`, `Run` never scans at all;
   that is the theorem `FreshInstallNeverScans`. The other discovery runs start
   from saved `next_scan` times in the future too, so that everything behind the
   gate is exercised; their properties hold whichever way the gate goes.
2. `discovery_verify`: `open` fetches but never moves the clone's HEAD, so once
   the branch has advanced `verify` refuses with "agent changed the assessment
   commit" (`git.go:140`) although no agent touched the clone.
3. `discovery_commit`: a proposal left pending by one scan is filed by a later
   one with "Investigated at commit" (`github.go:171`) naming that later commit.
4. `item_discard`: a `git worktree add` killed by a canceled request leaves a
   locked registration that `discard` does not clear (`git.go:111`,
   `git.go:74-76`); every later assessment of the item fails.
5. `item_leftovers`: `pristine` does not see ignored files, so a reused worktree
   is not "exactly the checkout a fresh one would be" (`git.go:95`).

## Not modelled, and why

* Installer, npm launcher, release and notices scripts: single sequential passes
  of network and file I/O around the program.
* Prompts (`prompt.go:41-92`): text out, without state.
* The syntax of configurations: remotes, slugs, durations are valid or not.
* The shape of a creation's response: `createdResponse` and `validateCreated`
  accept or refuse. As `createdResponse` looks for `" http 2"` while `gh
  --include` prints `HTTP/2.0 201 Created`, refusing may well be the rule; the
  creation is then in doubt, and `FilingReconciled` and `NeverReposted` say that
  a later listing settles it.
* JSON encodings, progress texts, labels, `GET /v1/initialize`.

## Plan

Written: `StateStore`, `StateFile`, `IssueFiling`, `DiscoveryScan`,
`ConfigLocks`, `ItemAssessment`, `WorkerServer`, `OutputTail`,
`GitHubListing`, `AgentReceipt`, and the proofs.

Left: a scan that takes its listings through `GitHubListing` instead of one that
may show a marker or not, to say how often a creation in doubt can be missed; and
what a page of comments adds to a listing.
