--------------------------- MODULE GitHubListing ---------------------------
(***************************************************************************)
(* issues and pages (github.go): the listing of all issues, page by page,  *)
(* while issues are opened, deleted and transferred on GitHub.  Every page *)
(* is what one gh command prints into a Tail (OutputTail).                 *)
(*                                                                         *)
(* The listing decides whether a creation in doubt took effect and what an *)
(* agent is told of the past, so what it may miss matters.                 *)
(***************************************************************************)
EXTENDS OutputTail, SequencesExt, FiniteSets

CONSTANTS
    MaxNumber,    \* bound: numbers of issues and pull requests
    Pull,         \* the numbers of pull requests
    Long,         \* the items whose JSON takes two units of output, not one
    PageSize,     \* per_page, 100
    MaxPages      \* 10000

Number == 1..MaxNumber

(***************************************************************************)
(* The Tail's bytes are units of output here: n is the unit that begins    *)
(* item n, 0 the opening bracket or the rest of an item.                   *)
(***************************************************************************)
ASSUME ListingAssumption ==
    /\ MaxNumber \in Nat /\ Pull \subseteq Number /\ Long \subseteq Number
    /\ PageSize \in Nat \ {0} /\ MaxPages \in Nat \ {0} /\ Capacity \in Nat
    /\ 0..MaxNumber \subseteq Byte

VARIABLES
    list,       \* what GitHub lists, in the order of creation
    unused,     \* numbers that nothing has had yet
    pc,         \* the statement of issues that comes next, or how it ended
    page,       \* the page it is at
    all,        \* the items of the pages so far
    output,     \* what gh has still to print
    issues,     \* the result of the last listing that succeeded
    stayed,     \* history: items on GitHub from the call on to now
    vanished    \* history: how many items vanished since the call

github  == <<list, unused>>
history == <<stayed, vanished>>
stdout  == <<output, tail>>
vars    == <<github, pc, page, all, issues, history, stdout>>

\* Where there is an issue among the items, not a pull request.
Issues == {k \in DOMAIN all : all[k] \notin Pull}
Goto(from, to) == pc = from /\ pc' = to
-----------------------------------------------------------------------------
\* GitHub's answer for a page, and the JSON array of its items.
PageOf(l, p) == SubSeq(l, (p - 1) * PageSize + 1, IF p * PageSize < Len(l) THEN p * PageSize ELSE Len(l))
Begin(items, k) == 1 + k + Cardinality({j \in 1..k - 1 : items[j] \in Long})
JSON(items) == [u \in 1..Begin(items, Len(items) + 1) - 1 |->
                   IF \E k \in DOMAIN items : u = Begin(items, k)
                   THEN items[CHOOSE k \in DOMAIN items : u = Begin(items, k)] ELSE 0]

Call ==
    /\ pc \in {"idle", "listed", "failed"}
    /\ pc' = "ask" /\ page' = 1 /\ all' = <<>>
    /\ stayed' = ToSet(list) /\ vanished' = 0
    /\ UNCHANGED <<github, issues, stdout>>

\* A command's output goes with it.
Discard == output' = <<>> /\ Reset

\* request starts gh, and GitHub answers it with the page as it is now.
Ask ==
    /\ Goto("ask", "print")
    /\ output' = JSON(PageOf(list, page))
    /\ UNCHANGED <<github, page, all, issues, history, tail>>

\* gh writes some of its output.
GhWrites ==
    /\ pc = "print"
    /\ \E n \in 1..Len(output) :
           /\ Write(SubSeq(output, 1, n))
           /\ output' = SubSeq(output, n + 1, Len(output))
    /\ UNCHANGED <<github, pc, page, all, issues, history>>

\* gh has printed all of it, and issues goes on at to.
Printed(to) == Goto("print", to) /\ output = <<>>

Page == BoundedSeq(Number, PageSize)

\* Run refuses output that was cut, and api JSON that is not whole.
Answered(items) == ~truncated /\ bytes = JSON(items)

NextPage ==
    /\ Printed("ask") /\ page < MaxPages
    /\ \E items \in Page :
           /\ Answered(items) /\ Len(items) >= PageSize
           /\ all' = all \o items
    /\ page' = page + 1
    /\ UNCHANGED <<github, issues, history>>
    /\ Discard

LastPage_FullToo ==
    /\ Printed("check")
    /\ \E items \in Page :
           /\ Answered(items) /\ Len(items) <= PageSize
           /\ all' = all \o items
    /\ UNCHANGED <<github, page, issues, history>>
    /\ Discard

LastPage ==
    /\ Printed("check")
    /\ \E items \in Page :
           /\ Answered(items) /\ Len(items) < PageSize
           /\ all' = all \o items
    /\ UNCHANGED <<github, page, issues, history>>
    /\ Discard

\* The output was cut or is no array, or the last page that pages asks for is full.
PageRefused ==
    /\ Printed("failed")
    /\ \A items \in Page :
           Answered(items) => page = MaxPages /\ Len(items) >= PageSize
    /\ UNCHANGED <<github, page, all, issues, history>>
    /\ Discard

\* gh fails before it has printed its answer, or its context is done.
GhFails ==
    /\ pc = "print" /\ output # <<>>
    /\ pc' = "failed"
    /\ UNCHANGED <<github, page, all, issues, history>>
    /\ Discard

Check_Trusting ==
    /\ Goto("check", "comments")
    /\ UNCHANGED <<github, page, all, issues, history, stdout>>

Unique == \A j, k \in Issues : all[j] = all[k] => j = k

Check_KeepsNumbers ==
    /\ pc = "check"
    /\ pc' = IF Unique /\ \A k \in Issues : all[k] \notin ToSet(issues) THEN "comments" ELSE "failed"
    /\ UNCHANGED <<github, page, all, issues, history, stdout>>

\* "unstable issue pagination": an issue was listed twice.
Check ==
    /\ pc = "check"
    /\ pc' = IF Unique THEN "comments" ELSE "failed"
    /\ UNCHANGED <<github, page, all, issues, history, stdout>>

\* The comments, which are paged in the same way, are attached to the issues,
\* and sort.Slice puts these in the order of their numbers.
Comments ==
    /\ Goto("comments", "listed")
    /\ \E order \in Bijection(1..Cardinality(Issues), Issues) :
           /\ issues' = [k \in DOMAIN order |-> all[order[k]]]
           /\ \A j, k \in DOMAIN order : j < k => issues'[j] <= issues'[k]
    /\ UNCHANGED <<github, page, all, history, stdout>>

CommentsFail ==
    /\ Goto("comments", "failed")
    /\ UNCHANGED <<github, page, all, issues, history, stdout>>
-----------------------------------------------------------------------------
(***************************************************************************)
(* GitHub: items are opened, transferred here with their old date of       *)
(* creation, deleted or transferred away.                                  *)
(***************************************************************************)
Appears ==
    /\ \E n \in unused, k \in 1..Len(list) + 1 :
           /\ list' = InsertAt(list, k, n)
           /\ unused' = unused \ {n}
    /\ UNCHANGED <<pc, page, all, issues, history, stdout>>

Vanishes ==
    /\ \E k \in DOMAIN list :
           /\ list' = RemoveAt(list, k)
           /\ stayed' = stayed \ {list[k]}
    /\ vanished' = vanished + 1
    /\ UNCHANGED <<unused, pc, page, all, issues, stdout>>
-----------------------------------------------------------------------------
Init ==
    /\ \E n \in 0..MaxNumber :
           list = [k \in 1..n |-> k] /\ unused = (n + 1)..MaxNumber
    /\ pc = "idle" /\ page = 0
    /\ all = <<>> /\ output = <<>> /\ issues = <<>>
    /\ stayed = {} /\ vanished = 0
    /\ Empty

Next ==
    \/ Call \/ Ask \/ GhWrites \/ NextPage \/ LastPage \/ PageRefused \/ GhFails
    \/ Check \/ Comments \/ CommentsFail
    \/ Appears \/ Vanishes

Spec == Init /\ [][Next]_vars

(***************************************************************************)
(* Fairness: the caller lists again and again (Call), and a page that is   *)
(* asked for over and over does not fail every single time.                *)
(***************************************************************************)
Fairness ==
    /\ WF_vars(Call \/ Ask \/ NextPage \/ LastPage \/ PageRefused \/ Check)
    /\ \A p \in 1..MaxPages : SF_vars(page = p /\ output' = <<>> /\ GhWrites)
    /\ SF_vars(Comments)

FairSpec == Spec /\ Fairness
-----------------------------------------------------------------------------
TypeOK ==
    /\ list \in Seq(Number) /\ unused \subseteq Number
    /\ pc \in {"idle", "ask", "print", "check", "comments", "listed", "failed"}
    /\ page \in 0..MaxPages
    /\ all \in Seq(Number) /\ Len(all) <= PageSize * MaxPages
    /\ output \in Seq(Byte)
    /\ issues \in Seq(Number)
    /\ stayed \subseteq Number /\ vanished \in Nat
    /\ bytes \in Seq(Byte) /\ Len(bytes) <= Capacity
    /\ truncated \in BOOLEAN /\ printed \in Seq(Byte)

\* A listing that succeeds misses no more of the issues that were there all the
\* while than have vanished meanwhile: none, if nothing was deleted or
\* transferred away, however many pages it has and whatever was added.
MissesNoMoreThanVanished ==
    pc = "listed" => Cardinality({n \in stayed \ Pull : n \notin ToSet(issues)}) <= vanished

\* The result names each issue once, in the order of numbers, so a comment is
\* attached to exactly one; and it names no pull request.
EachIssueOnce ==
    /\ \A j, k \in DOMAIN issues : j < k => issues[j] < issues[k]
    /\ ToSet(issues) \cap Pull = {}

\* GitHub has too many items for MaxPages, or a page too long for the Tail.
Unlistable ==
    \/ Len(list) >= PageSize * MaxPages
    \/ \E p \in 1..MaxPages : Len(JSON(PageOf(list, p))) > Capacity

\* "retry snapshot" (github.go:85): once GitHub is quiet, which it is in the end
\* here because numbers are not used again, a later listing succeeds.
RetrySucceeds == <>[]Unlistable \/ []<>(pc = "listed")
=============================================================================
