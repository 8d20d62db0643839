---------------------------- MODULE ItemAssessment ----------------------------
(***************************************************************************)
(* Assess (run.go) and the item worktrees it runs agents in (git.go).      *)
(*                                                                         *)
(* Each issue and pull request has one worktree path, kept from one        *)
(* assessment to the next.  Git keeps a registration of it in the managed  *)
(* clone, and directory and registration can each outlive the other.  The  *)
(* calls take the locks of ConfigLocks, so one assessment runs at a time.  *)
(*                                                                         *)
(* A call may end at every step: by an error, by a canceled context, which *)
(* kills the git command under way (osrun.Kill), or with its process.      *)
(***************************************************************************)
CONSTANTS
    Issue, PR,   \* the items that are assessed
    Rev,         \* revisions of the branch and of the pull requests
    Retried,     \* the items whose assessments are retried (FairSpec)
    NoItem, NoRev

Item == Issue \cup PR

ASSUME ItemsAssumption ==
    /\ Issue \cap PR = {}
    /\ NoItem \notin Item
    /\ Retried \subseteq Item
    /\ NoRev \notin Rev

VARIABLES
    pc,         \* the statement of Assess that comes next; "idle": none runs
    item,       \* the item being assessed
    target,     \* the revision GitHub reported for it
    revision,   \* Assess's local `revision`
    heads,      \* what each item's ref on GitHub is at
    dir,        \* the directory at each item's worktree path
    reg         \* git's registration of each item's worktree

locals == <<item, target, revision>>
trees  == <<dir, reg>>
vars   == <<pc, locals, heads, trees>>
-----------------------------------------------------------------------------
\* "linked": the directory has the .git file that makes it a worktree.  Its HEAD
\* is NoRev when it names a commit of the agent's own, or none yet.  left is the
\* most visible thing an agent left there: a tracked edit, else an untracked
\* file, else an ignored one.
Tree == [kind : {"absent", "unlinked", "linked"}, head : Rev \cup {NoRev},
         left : {"nothing", "ignored", "untracked", "edit"}]
Dir(kind, head, left) == [kind |-> kind, head |-> head, left |-> left]
NoTree         == Dir("absent", NoRev, "nothing")
Unlinked       == Dir("unlinked", NoRev, "nothing")
FreshTree(rev) == Dir("linked", rev, "nothing")

\* Git sees a worktree only where directory and registration meet.
IsWorktree(i) == dir[i].kind = "linked" /\ reg[i] # "none"

\* What an interrupted removal, or checkout, leaves of directory d.
Remains(d) ==
    IF d.kind = "linked" THEN {d, Dir("linked", d.head, "edit"), Unlinked, NoTree}
                         ELSE {d, NoTree}

\* On to the next statement.
Goto(from, to) == pc = from /\ pc' = to

\* Assess returns.
Return ==
    /\ pc' = "idle" /\ item' = NoItem /\ target' = NoRev /\ revision' = NoRev
    /\ UNCHANGED heads
-----------------------------------------------------------------------------
(***************************************************************************)
(* The call up to the revision it is about.                                *)
(***************************************************************************)
Call(i) ==
    /\ Goto("idle", "open")
    /\ item' = i
    /\ UNCHANGED <<target, revision, heads, trees>>

Open_WithoutHead ==
    /\ Goto("open", "read")
    /\ UNCHANGED <<locals, heads, trees>>

\* base.open fetches the branch and base.head resolves it: an issue is assessed
\* at that revision, a pull request at the one fetchItem resolves.
Open ==
    /\ Goto("open", "read")
    /\ revision' = IF item \in Issue THEN heads[item] ELSE NoRev
    /\ UNCHANGED <<item, target, heads, trees>>

ReadIssue ==
    /\ Goto("read", "reuse")
    /\ item \in Issue
    /\ target' = revision
    /\ UNCHANGED <<item, revision, heads, trees>>

ReadPull ==
    /\ Goto("read", "fetch")
    /\ item \in PR
    /\ target' = heads[item]
    /\ UNCHANGED <<item, revision, heads, trees>>

FetchItem_Unchecked ==
    /\ Goto("fetch", "reuse")
    /\ revision' = heads[item]
    /\ UNCHANGED <<item, target, heads, trees>>

\* The pull request's ref is fetched; a revision that is not the one the API
\* reported fails the call (Interrupted).
FetchItem ==
    /\ Goto("fetch", "reuse")
    /\ heads[item] = target
    /\ revision' = heads[item]
    /\ UNCHANGED <<item, target, heads, trees>>
-----------------------------------------------------------------------------
(***************************************************************************)
(* itemWorktree: reuse a pristine worktree, else discard it and add one.   *)
(***************************************************************************)
\* git status lists tracked edits and untracked files, not ignored ones.
Pristine(i, rev) ==
    IsWorktree(i) /\ dir[i].head = rev /\ dir[i].left \in {"nothing", "ignored"}

Reuse ==
    /\ Goto("reuse", "agent")
    /\ Pristine(item, revision)
    /\ UNCHANGED <<locals, heads, trees>>

\* Also when one of pristine's git commands fails.
NotReused ==
    /\ Goto("reuse", "remove")
    /\ UNCHANGED <<locals, heads, trees>>

NothingToRemove ==
    /\ Goto("remove", "prune")
    /\ dir[item].kind = "absent"
    /\ UNCHANGED <<locals, heads, trees>>

\* git worktree remove --force takes directory and registration, unless git
\* locked the registration.
Remove ==
    /\ Goto("remove", "prune")
    /\ IsWorktree(item)
    /\ reg[item] # "locked"
    /\ dir' = [dir EXCEPT ![item] = NoTree]
    /\ reg' = [reg EXCEPT ![item] = "none"]
    /\ UNCHANGED <<locals, heads>>

RemoveAll_GivesUp ==
    /\ pc = "remove"
    /\ dir[item].kind # "absent"
    /\ Return
    /\ UNCHANGED trees

\* Where that fails, os.RemoveAll takes the directory.
RemoveAll ==
    /\ Goto("remove", "prune")
    /\ dir[item].kind # "absent"
    /\ dir' = [dir EXCEPT ![item] = NoTree]
    /\ UNCHANGED <<locals, heads, reg>>

Prune_Skipped ==
    /\ Goto("prune", "add")
    /\ UNCHANGED <<locals, heads, trees>>

\* git worktree prune drops every registration, of whatever item, that has lost
\* its directory, except the locked ones.
Prune ==
    /\ Goto("prune", "add")
    /\ reg' = [i \in Item |->
                  IF reg[i] = "registered" /\ dir[i].kind # "linked" THEN "none" ELSE reg[i]]
    /\ UNCHANGED <<locals, heads, dir>>

\* git worktree add refuses a path that exists or is registered.
Add ==
    /\ Goto("add", "verifyNew")
    /\ dir[item].kind = "absent"
    /\ reg[item] = "none"
    /\ dir' = [dir EXCEPT ![item] = FreshTree(revision)]
    /\ reg' = [reg EXCEPT ![item] = "registered"]
    /\ UNCHANGED <<locals, heads>>

\* worktree.verify: HEAD is the revision and no tracked file differs.
Verified_CommitOnly(i, rev) == IsWorktree(i) /\ dir[i].head = rev

Verified(i, rev) == IsWorktree(i) /\ dir[i].head = rev /\ dir[i].left # "edit"

VerifyNew ==
    /\ Goto("verifyNew", "agent")
    /\ Verified(item, revision)
    /\ UNCHANGED <<locals, heads, trees>>
-----------------------------------------------------------------------------
(***************************************************************************)
(* The agent, with the worktree as its directory and every tool approved,  *)
(* and what is made of its answer.  A start that failed and is retried     *)
(* (execute) changes nothing here; DiscoveryScan counts the retries.       *)
(***************************************************************************)
AgentActs ==
    /\ \E t \in Tree : t.kind = "linked" /\ dir' = [dir EXCEPT ![item] = t]
    /\ UNCHANGED reg

AgentAnswers == Goto("agent", "verify") /\ AgentActs /\ UNCHANGED <<locals, heads>>

AgentFails == pc = "agent" /\ AgentActs /\ Return

Verify ==
    /\ Goto("verify", "report")
    /\ Verified(item, revision)
    /\ UNCHANGED <<locals, heads, trees>>

\* parseAssessment: the receipt is returned, or an error when it is malformed.
Report == pc = "report" /\ Return /\ UNCHANGED trees
-----------------------------------------------------------------------------
\* The call ends at a step other than the agent's.
Interrupted ==
    /\ pc \in {"open", "read", "fetch", "reuse", "prune", "verifyNew", "verify"}
    /\ Return
    /\ UNCHANGED trees

\* ... while it removes a directory.
RemoveInterrupted ==
    /\ pc = "remove"
    /\ Return
    /\ \E d \in Remains(dir[item]) : dir' = [dir EXCEPT ![item] = d]
    /\ UNCHANGED reg

\* git worktree add refuses, or fails and takes back what it made.
AddFails == pc = "add" /\ Return /\ UNCHANGED trees

\* git worktree add is killed.  It locks the registration while it works, then
\* makes the directory, links it, sets HEAD, checks out and unlocks.
AddKilled ==
    /\ pc = "add"
    /\ dir[item].kind = "absent"
    /\ reg[item] = "none"
    /\ Return
    /\ reg' = [reg EXCEPT ![item] = "locked"]
    /\ \E d \in Remains(FreshTree(revision)) \cup {Dir("linked", NoRev, "edit")} :
           dir' = [dir EXCEPT ![item] = d]

\* The operator deletes a worktree's directory, or the managed clone and with
\* it every registration; the next open clones anew.
DirectoryDeleted(i) ==
    /\ pc = "idle"
    /\ dir[i].kind # "absent"
    /\ dir' = [dir EXCEPT ![i] = NoTree]
    /\ UNCHANGED <<pc, locals, heads, reg>>

CloneDeleted ==
    /\ pc = "idle"
    /\ \E i \in Item : reg[i] # "none"
    /\ reg' = [i \in Item |-> "none"]
    /\ UNCHANGED <<pc, locals, heads, dir>>

\* Commits are pushed to the branch or to a pull request, by force or not.
Push(i) ==
    /\ \E r \in Rev \ {heads[i]} : heads' = [heads EXCEPT ![i] = r]
    /\ UNCHANGED <<pc, locals, trees>>
-----------------------------------------------------------------------------
Init ==
    /\ pc = "idle"
    /\ item = NoItem /\ target = NoRev /\ revision = NoRev
    /\ heads \in [Item -> Rev]
    /\ dir = [i \in Item |-> NoTree]
    /\ reg = [i \in Item |-> "none"]

Assess ==
    \/ \E i \in Item : Call(i)
    \/ Open \/ ReadIssue \/ ReadPull \/ FetchItem
    \/ Reuse \/ NotReused
    \/ NothingToRemove \/ Remove \/ RemoveAll \/ Prune \/ Add \/ VerifyNew
    \/ AgentAnswers \/ AgentFails \/ Verify \/ Report
    \/ Interrupted \/ RemoveInterrupted \/ AddFails \/ AddKilled

Environment ==
    CloneDeleted \/ \E i \in Item : DirectoryDeleted(i) \/ Push(i)

Next == Assess \/ Environment

Spec == Init /\ [][Next]_vars

(***************************************************************************)
(* Fairness: a retried item that is assessed over and over is not          *)
(* interrupted at the same step of itemWorktree every single time.  Of the *)
(* other items nothing is assumed.                                         *)
(***************************************************************************)
Fairness ==
    \A i \in Retried :
        /\ SF_vars(item = i /\ (Reuse \/ NotReused))
        /\ SF_vars(item = i /\ (NothingToRemove \/ Remove \/ RemoveAll))
        /\ SF_vars(item = i /\ Prune)
        /\ SF_vars(item = i /\ Add)
        /\ SF_vars(item = i /\ VerifyNew)

FairSpec == Spec /\ Fairness
-----------------------------------------------------------------------------
TypeOK ==
    /\ pc \in {"idle", "open", "read", "fetch", "reuse", "remove", "prune", "add",
               "verifyNew", "agent", "verify", "report"}
    /\ item \in Item \cup {NoItem}
    /\ item = NoItem <=> pc = "idle"
    /\ target \in Rev \cup {NoRev}
    /\ revision \in Rev \cup {NoRev}
    /\ pc \notin {"idle", "open", "read", "fetch"} => target \in Rev /\ revision \in Rev
    /\ heads \in [Item -> Rev]
    /\ dir \in [Item -> Tree]
    /\ reg \in [Item -> {"none", "registered", "locked"}]

\* "detached and exact-revision checked" (README.md:40): whatever earlier
\* assessments, kills and deletions left at the path, an agent starts in a
\* worktree at the revision GitHub reported for its target, with neither
\* tracked edits nor untracked files of an earlier agent.
AgentStartsAtTarget ==
    pc = "agent" =>
        /\ IsWorktree(item)
        /\ dir[item].head = target
        /\ dir[item].left \in {"nothing", "ignored"}

\* "Tracked edits and revision movement fail the run" (README.md:40): an answer
\* is used only while the worktree still is at the target's revision.
ReportedAsFound ==
    pc = "report" => dir[item].head = target /\ dir[item].left # "edit"

\* discard leaves nothing in the way of git worktree add, whichever half of a
\* worktree has outlived the other, unless git had locked the registration.
OnlyGitsLockBlocks ==
    pc = "add" => dir[item].kind = "absent" /\ reg[item] # "registered"

\* A stale worktree does not "fail every later assessment of the same issue or
\* pull request" (git.go:75): a retried item that is assessed over and over is in the
\* end seen by an agent, unless git's lock stays on its registration for good.
StaleIsRebuilt ==
    \A i \in Retried :
        []<>(pc = "reuse" /\ item = i) =>
            []<>(pc = "agent" /\ item = i) \/ <>[](reg[i] = "locked")
-----------------------------------------------------------------------------
(***************************************************************************)
(* What the source says of itself and the code does not do.                *)
(***************************************************************************)
\* "discard clears both halves of a stale item worktree" (git.go:111).
DiscardClearsBoth == pc = "add" => reg[item] = "none"

\* "exactly the checkout a fresh one would be" (git.go:95): an agent finds no
\* file that an earlier agent left.
ReusedIsFresh == pc = "agent" => dir[item] = FreshTree(revision)
=============================================================================
