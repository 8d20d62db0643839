-------------------------- MODULE StateFileProofs --------------------------
(***************************************************************************)
(* writeState implements StateStore, for any set of States.                *)
(***************************************************************************)
EXTENDS StateFile, TLAPS

\* What the call has done to the temporary file and to state.json so far.
Progress ==
    /\ step = "sync" => temp.data = arg
    /\ step \in {"close", "rename"} => temp = Saved(arg)
    /\ step \in {"openDir", "syncDir"} => name = Saved(arg)

\* What may be read now or later, and what a nil error tells.
Durability ==
    /\ name \in names
    /\ arg \in allowed
    /\ \A f \in names : f.data \in allowed
    /\ result = "nil" => step = "idle" /\ name = Saved(arg) /\ names = {name}

IInv == TypeOK /\ Progress /\ Durability

\* The files a call makes.
LEMMA Files ==
    /\ NoTemp \in File
    /\ \A s \in State :
           /\ Saved(s) \in Whole /\ Saved(s) \in File /\ Saved(s).data = s
           /\ [data |-> s, synced |-> FALSE] \in File
           /\ [data |-> s, synced |-> FALSE].data = s
BY DEF File, NoTemp, Saved, Whole

\* Everything state.json may name is synced: power loss tears none of it.
LEMMA NothingTears ==
    TypeOK => /\ \A f \in names : AfterLoss(f) = {f} /\ f.data \in State
              /\ survivors = {f.data : f \in names}
<1> SUFFICES ASSUME TypeOK
             PROVE  /\ \A f \in names : AfterLoss(f) = {f} /\ f.data \in State
                    /\ survivors = {f.data : f \in names}
    OBVIOUS
<1>1. \A f \in names : AfterLoss(f) = {f} /\ f.data \in State
    BY DEF TypeOK, Whole, AfterLoss
<1>2. UNION {AfterLoss(f) : f \in names} = names
    BY <1>1
<1> QED
    BY <1>1, <1>2 DEF survivors

LEMMA InitInvariant == Init => IInv
BY Files DEF Init, IInv, TypeOK, Progress, Durability, Steps

\* Every system call, failure, kill and power loss keeps the invariant.
LEMMA InvariantStep == IInv /\ [Next]_vars => IInv'
<1> SUFFICES ASSUME IInv, [Next]_vars PROVE IInv'
    OBVIOUS
<1>0. TypeOK /\ Progress /\ Durability
    BY DEF IInv
<1>1. CASE UNCHANGED vars
    BY <1>0, <1>1 DEF vars, IInv, TypeOK, Progress, Durability
<1>2. ASSUME NEW s \in State, Call(s) PROVE IInv'
    <2>1. TypeOK'
        BY <1>0, <1>2 DEF Call, TypeOK, Steps
    <2>2. Progress' /\ Durability'
        BY <1>0, <1>2 DEF Call, TypeOK, Progress, Durability
    <2> QED
        BY <2>1, <2>2 DEF IInv
<1>3. CASE MkdirAll \/ CreateTemp \/ Close \/ OpenDir
    <2>1. TypeOK'
        BY <1>0, <1>3 DEF MkdirAll, CreateTemp, Close, OpenDir, Succeeds, TypeOK, Steps
    <2>2. Progress' /\ Durability'
        BY <1>0, <1>3
           DEF MkdirAll, CreateTemp, Close, OpenDir, Succeeds, Progress, Durability
    <2> QED
        BY <2>1, <2>2 DEF IInv
<1>4. CASE Write
    <2>1. TypeOK' /\ temp'.data = arg
        BY <1>0, <1>4, Files DEF Write, Succeeds, TypeOK, Steps
    <2>2. Progress' /\ Durability'
        BY <1>0, <1>4, <2>1 DEF Write, Succeeds, Progress, Durability
    <2> QED
        BY <2>1, <2>2 DEF IInv
<1>5. CASE Sync
    <2>1. temp' = Saved(arg)
        BY <1>0, <1>5 DEF Sync, Succeeds, Progress
    <2>2. TypeOK'
        BY <1>0, <1>5, <2>1, Files DEF Sync, Succeeds, TypeOK, Steps
    <2>3. Progress' /\ Durability'
        BY <1>0, <1>5, <2>1 DEF Sync, Succeeds, Progress, Durability
    <2> QED
        BY <2>2, <2>3 DEF IInv
<1>6. CASE Rename
    <2>1. name' = Saved(arg) /\ names' = names \cup {name'} /\ arg \in State
        BY <1>0, <1>6 DEF Rename, Succeeds, TypeOK, Progress
    <2>2. name' \in Whole /\ name'.data = arg /\ temp' \in File
        BY <1>6, <2>1, Files DEF Rename
    <2>3. TypeOK'
        BY <1>0, <1>6, <2>1, <2>2 DEF Rename, Succeeds, TypeOK, Steps
    <2>4. step' = "openDir" /\ result' # "nil" /\ arg' = arg /\ allowed' = allowed
        BY <1>0, <1>6 DEF Rename, Succeeds, Durability
    <2>5. Progress'
        BY <2>1, <2>4 DEF Progress
    <2>6. Durability'
        BY <1>0, <2>1, <2>2, <2>4 DEF Durability
    <2> QED
        BY <2>3, <2>5, <2>6 DEF IInv
<1>7. CASE SyncDir
    <2>1. name = Saved(arg) /\ arg \in State
        BY <1>0, <1>7 DEF SyncDir, TypeOK, Progress
    <2>2. TypeOK'
        BY <1>0, <1>7 DEF SyncDir, TypeOK, Steps
    <2>3. Progress' /\ Durability'
        BY <1>0, <1>7, <2>1, Files DEF SyncDir, Progress, Durability
    <2> QED
        BY <2>2, <2>3 DEF IInv
<1>8. CASE Fails \/ Killed
    <2>1. TypeOK'
        BY <1>0, <1>8, Files DEF Fails, Killed, TypeOK, Steps
    <2>2. Progress' /\ Durability'
        BY <1>0, <1>8 DEF Fails, Killed, Progress, Durability
    <2> QED
        BY <2>1, <2>2 DEF IInv
<1>9. CASE PowerLoss
    <2>1. name' \in names /\ names' = {name'}
        BY <1>0, <1>9, NothingTears DEF PowerLoss
    <2>2. TypeOK'
        BY <1>0, <1>9, <2>1, Files DEF PowerLoss, TypeOK, Steps
    <2>3. Progress' /\ Durability'
        BY <1>0, <1>9, <2>1 DEF PowerLoss, Progress, Durability
    <2> QED
        BY <2>2, <2>3 DEF IInv
<1> QED
    BY <1>1, <1>2, <1>3, <1>4, <1>5, <1>6, <1>7, <1>8, <1>9 DEF Next

\* The invariant is inductive; with it, the types.
THEOREM FileTypes == Spec => []TypeOK
<1>1. IInv => TypeOK
    BY DEF IInv
<1> QED
    BY <1>1, InitInvariant, InvariantStep, PTL DEF Spec

\* A nil error is returned only for a State that no power loss can undo.
THEOREM NilIsDurable == Spec => []NilMeansDurable
<1>1. IInv => NilMeansDurable
    <2> SUFFICES ASSUME IInv, result = "nil" PROVE name.data = arg /\ survivors = {arg}
        BY DEF NilMeansDurable
    <2>1. name.data = arg /\ names = {name}
        BY Files DEF IInv, TypeOK, Durability
    <2> QED
        BY <2>1, NothingTears DEF IInv
<1> QED
    BY <1>1, InitInvariant, InvariantStep, PTL DEF Spec

\* Nothing older than the last acknowledged State ever comes back.
THEOREM NothingOlder == Spec => []NothingOlderReturns
<1>1. IInv => NothingOlderReturns
    BY NothingTears DEF IInv, Durability, NothingOlderReturns
<1> QED
    BY <1>1, InitInvariant, InvariantStep, PTL DEF Spec

\* writeState with its failures, kills and power losses implements the store
\* that discovery's saves are steps of.
THEOREM FileImplementsStore == Spec => ReplacesWhole
<1>1. Init => Store!StoreInit
    <2> SUFFICES ASSUME Init PROVE Store!StoreInit
        OBVIOUS
    <2>1. TypeOK
        BY InitInvariant DEF IInv
    <2>2. survivors = {name.data}
        BY <2>1, NothingTears DEF Init
    <2>3. name.data \in State
        BY <2>1, NothingTears DEF Init
    <2> QED
        BY <2>2, <2>3 DEF Store!StoreInit
<1>2. IInv /\ IInv' /\ [Next]_vars => [Store!StoreNext]_(Store!store)
    <2> SUFFICES ASSUME IInv, IInv', [Next]_vars
                 PROVE  Store!StoreNext \/ UNCHANGED Store!store
        OBVIOUS
    <2>1. survivors = {f.data : f \in names} /\ survivors' = {f.data : f \in names'}
        <3>1. TypeOK' => (survivors = {f.data : f \in names})'
            BY NothingTears, PTL
        <3> QED
            BY <3>1, NothingTears DEF IInv
    <2>2. CASE UNCHANGED <<name, names>>
        BY <2>1, <2>2 DEF Store!store
    <2>3. CASE Rename
        <3>1. name'.data = arg /\ names' = names \cup {name'} /\ arg \in State
            BY <2>3, Files DEF Rename, Succeeds, IInv, Progress, TypeOK
        <3>2. survivors' = survivors \cup {arg}
            BY <2>1, <3>1
        <3> QED
            BY <3>1, <3>2 DEF Store!StoreNext, Store!Unconfirmed
    <2>4. CASE SyncDir
        <3>1. name'.data = arg /\ names' = {name'} /\ arg \in State
            BY <2>4, Files DEF SyncDir, IInv, Progress, TypeOK
        <3>2. survivors' = {arg}
            BY <2>1, <3>1
        <3> QED
            BY <3>1, <3>2 DEF Store!StoreNext, Store!Committed
    <2>5. CASE PowerLoss
        <3>1. name' \in names /\ names' = {name'}
            BY <2>5, NothingTears DEF PowerLoss, IInv
        <3>2. name'.data \in survivors /\ survivors' = {name'.data}
            BY <2>1, <3>1
        <3> QED
            BY <3>2 DEF Store!StoreNext, Store!PowerLoss
    <2> QED
        BY <2>2, <2>3, <2>4, <2>5
           DEF Next, vars, Call, MkdirAll, CreateTemp, Write, Sync, Close, OpenDir,
               Fails, Killed, Succeeds
<1> QED
    BY <1>1, <1>2, InitInvariant, InvariantStep, PTL
       DEF Spec, ReplacesWhole, Store!StoreSpec
=============================================================================
