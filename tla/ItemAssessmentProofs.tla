------------------------ MODULE ItemAssessmentProofs ------------------------
(***************************************************************************)
(* Whatever is left at a worktree path, an agent starts at the revision    *)
(* GitHub reported: for any items and any revisions.                       *)
(***************************************************************************)
EXTENDS ItemAssessment, TLAPS

\* From the reuse test on, the revision at hand is the one GitHub reported.
Working == {"reuse", "remove", "prune", "add", "verifyNew", "agent", "verify", "report"}
RevisionIsTarget == pc \in Working => revision = target

\* What each statement of Assess may take for granted of the worktree.
Ready ==
    /\ pc = "read" /\ item \in Issue => revision \in Rev
    /\ pc = "fetch" => target \in Rev
    /\ pc = "prune" => dir[item].kind = "absent"
    /\ pc \in {"verifyNew", "agent"} => IsWorktree(item) /\ dir[item].left # "untracked"
    /\ pc \in {"agent", "report"} => dir[item].head = revision /\ dir[item].left # "edit"

IInv == TypeOK /\ RevisionIsTarget /\ Ready /\ OnlyGitsLockBlocks

\* The trees the actions make are trees.
LEMMA Trees ==
    /\ NoTree \in Tree /\ NoTree.kind = "absent"
    /\ \A r \in Rev \cup {NoRev} :
           /\ FreshTree(r) \in Tree /\ Dir("linked", r, "edit") \in Tree
           /\ FreshTree(r).kind = "linked" /\ FreshTree(r).head = r
           /\ FreshTree(r).left = "nothing"
    /\ \A d \in Tree : Remains(d) \subseteq Tree
<1>1. \A r \in Rev \cup {NoRev}, b \in {"nothing", "edit"}, k \in {"absent", "unlinked", "linked"} :
          Dir(k, r, b) \in Tree
    BY DEF Dir, Tree
<1>2. /\ NoTree \in Tree /\ NoTree.kind = "absent"
      /\ Unlinked \in Tree
    BY <1>1 DEF NoTree, Unlinked, Dir
<1>3. ASSUME NEW r \in Rev \cup {NoRev}
      PROVE  /\ FreshTree(r) \in Tree /\ Dir("linked", r, "edit") \in Tree
             /\ FreshTree(r).kind = "linked" /\ FreshTree(r).head = r
             /\ FreshTree(r).left = "nothing"
    <2>1. FreshTree(r) \in Tree /\ Dir("linked", r, "edit") \in Tree
        BY <1>1 DEF FreshTree
    <2> QED
        BY <2>1 DEF FreshTree, Dir
<1>4. ASSUME NEW d \in Tree PROVE Remains(d) \subseteq Tree
    <2>1. d.head \in Rev \cup {NoRev}
        BY DEF Tree
    <2>2. Dir("linked", d.head, "edit") \in Tree
        BY <1>1, <2>1
    <2> QED
        BY <1>2, <2>2 DEF Remains
<1> QED
    BY <1>2, <1>3, <1>4

\* The invariant holds before the first call.
LEMMA InitInvariant == Init => IInv
<1> SUFFICES ASSUME Init PROVE IInv
    OBVIOUS
<1>1. TypeOK
    <2>1. dir \in [Item -> Tree]
        BY Trees DEF Init
    <2> QED
        BY <2>1, ItemsAssumption DEF Init, TypeOK
<1> QED
    BY <1>1 DEF Init, IInv, RevisionIsTarget, Ready, OnlyGitsLockBlocks, Working

\* A call that returns leaves the invariant, whatever it leaves at the path.
LEMMA ReturnKeeps ==
    ASSUME IInv, Return, dir' \in [Item -> Tree],
           reg' \in [Item -> {"none", "registered", "locked"}]
    PROVE  IInv'
BY ItemsAssumption
   DEF IInv, TypeOK, RevisionIsTarget, Ready, OnlyGitsLockBlocks, Working, Return

\* Every statement of Assess preserves the invariant.
LEMMA AssessKeeps == IInv /\ Assess => IInv'
<1> SUFFICES ASSUME IInv, Assess PROVE IInv'
    OBVIOUS
<1> USE DEF IInv, TypeOK, RevisionIsTarget, Ready, OnlyGitsLockBlocks, Working
<1>t. item = NoItem \/ item \in Item
    OBVIOUS
<1>1. ASSUME NEW i \in Item, Call(i) PROVE IInv'
    BY <1>1, ItemsAssumption DEF Call, Goto, trees, IsWorktree
<1>2. CASE Open
    BY <1>2 DEF Open, Goto, trees, IsWorktree
<1>3. CASE ReadIssue
    BY <1>3 DEF ReadIssue, Goto, trees, IsWorktree
<1>4. CASE ReadPull
    BY <1>4, ItemsAssumption DEF ReadPull, Goto, trees, IsWorktree, Item
<1>5. CASE FetchItem
    BY <1>5 DEF FetchItem, Goto, trees, IsWorktree
<1>6. CASE Reuse
    BY <1>6 DEF Reuse, Goto, locals, trees, IsWorktree, Pristine
<1>7. CASE NotReused
    BY <1>7 DEF NotReused, Goto, locals, trees, IsWorktree
<1>8. CASE NothingToRemove
    BY <1>8 DEF NothingToRemove, Goto, locals, trees, IsWorktree
<1>9. CASE Remove
    BY <1>9, Trees DEF Remove, Goto, locals, IsWorktree
<1>10. CASE RemoveAll
    BY <1>10, Trees DEF RemoveAll, Goto, locals, IsWorktree
<1>11. CASE Prune
    BY <1>11 DEF Prune, Goto, locals, IsWorktree
<1>12. CASE Add
    <2>1. dir'[item] = FreshTree(revision) /\ FreshTree(revision) \in Tree
        BY <1>12, <1>t, Trees, ItemsAssumption DEF Add, Goto
    <2>2. TypeOK'
        BY <1>12, <2>1 DEF Add, Goto, locals
    <2>3. IsWorktree(item)' /\ dir'[item].left = "nothing"
        BY <1>12, <1>t, <2>1, Trees DEF Add, Goto, locals, IsWorktree
    <2> QED
        BY <1>12, <2>2, <2>3 DEF Add, Goto, locals
<1>13. CASE VerifyNew
    BY <1>13 DEF VerifyNew, Goto, locals, trees, IsWorktree, Verified
<1>14. CASE AgentAnswers
    BY <1>14 DEF AgentAnswers, AgentActs, Goto, locals, IsWorktree
<1>15. CASE AgentFails
    BY <1>15, ReturnKeeps DEF AgentFails, AgentActs
<1>16. CASE Verify
    BY <1>16 DEF Verify, Goto, locals, trees, IsWorktree, Verified
<1>17. CASE Report \/ Interrupted \/ AddFails
    BY <1>17, ReturnKeeps DEF Report, Interrupted, AddFails, trees
<1>18. CASE RemoveInterrupted
    <2>1. dir' \in [Item -> Tree]
        BY <1>18, <1>t, ItemsAssumption, Trees DEF RemoveInterrupted
    <2> QED
        BY <1>18, <2>1, ReturnKeeps DEF RemoveInterrupted
<1>19. CASE AddKilled
    <2>1. \A d \in Remains(FreshTree(revision))
                     \cup {Dir("linked", NoRev, "edit")} : d \in Tree
        BY Trees
    <2>2. dir' \in [Item -> Tree] /\ reg' \in [Item -> {"none", "registered", "locked"}]
        BY <1>19, <2>1 DEF AddKilled
    <2> QED
        BY <1>19, <2>2, ReturnKeeps DEF AddKilled
<1> QED
    BY <1>1, <1>2, <1>3, <1>4, <1>5, <1>6, <1>7, <1>8, <1>9, <1>10, <1>11, <1>12,
       <1>13, <1>14, <1>15, <1>16, <1>17, <1>18, <1>19 DEF Assess

\* The operator and GitHub preserve it as well.
LEMMA EnvironmentKeeps == IInv /\ Environment => IInv'
<1> SUFFICES ASSUME IInv, Environment PROVE IInv'
    OBVIOUS
<1> USE DEF IInv, TypeOK, RevisionIsTarget, Ready, OnlyGitsLockBlocks, Working
<1>1. ASSUME NEW i \in Item, DirectoryDeleted(i) PROVE IInv'
    BY <1>1, Trees DEF DirectoryDeleted, locals, IsWorktree
<1>2. CASE CloneDeleted
    BY <1>2 DEF CloneDeleted, locals, IsWorktree
<1>3. ASSUME NEW i \in Item, Push(i) PROVE IInv'
    BY <1>3 DEF Push, locals, trees, IsWorktree
<1> QED
    BY <1>1, <1>2, <1>3 DEF Environment

\* IInv is an inductive invariant of item assessment.
THEOREM AssessmentInvariant == Spec => []IInv
<1>1. Init => IInv
    BY InitInvariant
<1>2. IInv /\ [Next]_vars => IInv'
    <2> SUFFICES ASSUME IInv, [Next]_vars PROVE IInv'
        OBVIOUS
    <2>1. CASE Next
        BY <2>1, AssessKeeps, EnvironmentKeeps DEF Next
    <2>2. CASE UNCHANGED vars
        BY <2>2 DEF vars, locals, trees, IInv, TypeOK, RevisionIsTarget, Ready,
                    OnlyGitsLockBlocks, IsWorktree, Working
    <2> QED
        BY <2>1, <2>2
<1> QED
    BY <1>1, <1>2, PTL DEF Spec

\* Every variable of the assessment keeps its type.
THEOREM AssessmentTypes == Spec => []TypeOK
<1>1. IInv => TypeOK
    BY DEF IInv
<1> QED
    BY <1>1, AssessmentInvariant, PTL

\* Whatever was left at the path, an agent starts in a worktree at the revision
\* GitHub reported, without tracked edits and untracked files.
THEOREM StartsAtTarget == Spec => []AgentStartsAtTarget
<1>1. ASSUME IInv, pc = "agent"
      PROVE  IsWorktree(item) /\ dir[item].head = target
             /\ dir[item].left \in {"nothing", "ignored"}
    <2>1. dir[item] \in Tree
        BY <1>1 DEF IInv, TypeOK
    <2> QED
        BY <1>1, <2>1 DEF IInv, Ready, RevisionIsTarget, Working, Tree
<1>2. IInv => AgentStartsAtTarget
    BY <1>1 DEF AgentStartsAtTarget
<1> QED
    BY <1>2, AssessmentInvariant, PTL

\* An answer is used only while the worktree is at the target's revision.
THEOREM ReportsAsFound == Spec => []ReportedAsFound
<1>1. IInv => ReportedAsFound
    BY DEF IInv, Ready, RevisionIsTarget, Working, ReportedAsFound
<1> QED
    BY <1>1, AssessmentInvariant, PTL

\* discard leaves nothing in the way of git worktree add but git's own lock.
THEOREM DiscardIsThorough == Spec => []OnlyGitsLockBlocks
<1>1. IInv => OnlyGitsLockBlocks
    BY DEF IInv
<1> QED
    BY <1>1, AssessmentInvariant, PTL
=============================================================================
