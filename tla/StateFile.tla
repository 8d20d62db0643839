----------------------------- MODULE StateFile -----------------------------
(***************************************************************************)
(* writeState (state.go), system call by system call, over a file system   *)
(* that keeps what was synced and may lose or tear the rest: a file's data *)
(* is safe after f.Sync, a rename after dir.Sync.  The process may be      *)
(* killed, or the machine lose power, between any two calls.               *)
(***************************************************************************)
CONSTANTS
    State,      \* every State the bot can save
    Torn        \* what power loss leaves of data that was not synced

ASSUME TornAssumption == Torn \notin State

VARIABLES
    step,       \* the system call that comes next; "idle": no writeState runs
    arg,        \* the State of the current or latest call
    result,     \* what the latest call returned; "none" while one runs
    temp,       \* the temporary file of the current call
    name,       \* the file that state.json names
    names,      \* the files that state.json may name after power is lost
    allowed     \* the last State acknowledged and all handed over since (history)

vars == <<step, arg, result, temp, name, names, allowed>>

File   == [data : State \cup {Torn}, synced : BOOLEAN]
NoTemp == [data |-> Torn, synced |-> FALSE]
Whole  == [data : State, synced : {TRUE}]
Saved(s) == [data |-> s, synced |-> TRUE]

Steps == {"mkdir", "createTemp", "write", "sync", "close", "rename", "openDir", "syncDir"}
BeforeRename == Steps \ {"openDir", "syncDir"}

\* What is read of file f once the machine is up again.
AfterLoss(f) == IF f.synced THEN {f} ELSE {f, [f EXCEPT !.data = Torn]}

Call(s) ==
    /\ step = "idle"
    /\ step' = "mkdir"
    /\ arg' = s
    /\ result' = "none"
    /\ allowed' = allowed \cup {s}
    /\ UNCHANGED <<temp, name, names>>

Succeeds(from, to) ==
    /\ step = from
    /\ step' = to
    /\ UNCHANGED <<arg, result, allowed>>

MkdirAll   == Succeeds("mkdir", "createTemp") /\ UNCHANGED <<temp, name, names>>
CreateTemp == Succeeds("createTemp", "write") /\ UNCHANGED <<temp, name, names>>

Write ==
    /\ Succeeds("write", "sync")
    /\ temp' = [data |-> arg, synced |-> FALSE]
    /\ UNCHANGED <<name, names>>

Sync_Skipped == Succeeds("sync", "close") /\ UNCHANGED <<temp, name, names>>

Sync ==
    /\ Succeeds("sync", "close")
    /\ temp' = Saved(temp.data)
    /\ UNCHANGED <<name, names>>

Close == Succeeds("close", "rename") /\ UNCHANGED <<temp, name, names>>

Rename ==
    /\ Succeeds("rename", "openDir")
    /\ name' = temp
    /\ names' = names \cup {temp}
    /\ temp' = NoTemp

OpenDir == Succeeds("openDir", "syncDir") /\ UNCHANGED <<temp, name, names>>

SyncDir_Skipped ==
    /\ step = "syncDir"
    /\ step' = "idle"
    /\ result' = "nil"
    /\ allowed' = {arg}
    /\ UNCHANGED <<arg, temp, name, names>>

SyncDir ==
    /\ step = "syncDir"
    /\ step' = "idle"
    /\ result' = "nil"
    /\ names' = {name}
    /\ allowed' = {arg}
    /\ UNCHANGED <<arg, temp, name>>

\* Any call fails: writeState returns its error and the deferred os.Remove
\* takes away a temporary file that has not been renamed.
Fails ==
    /\ step \in Steps
    /\ step' = "idle"
    /\ result' = "error"
    /\ temp' = NoTemp
    /\ UNCHANGED <<arg, name, names, allowed>>

Killed ==
    /\ step # "idle"
    /\ step' = "idle"
    /\ temp' = NoTemp
    /\ UNCHANGED <<arg, result, name, names, allowed>>

\* The machine comes up with one of the files state.json may name, and with
\* whatever of its data reached the disk.
PowerLoss ==
    /\ step' = "idle"
    /\ result' = "none"
    /\ temp' = NoTemp
    /\ \E f \in names : name' \in AfterLoss(f)
    /\ names' = {name'}
    /\ UNCHANGED <<arg, allowed>>

Init ==
    /\ step = "idle"
    /\ result = "none"
    /\ arg \in State
    /\ temp = NoTemp
    /\ name = Saved(arg)
    /\ names = {name}
    /\ allowed = {arg}

Next ==
    \/ \E s \in State : Call(s)
    \/ MkdirAll \/ CreateTemp \/ Write \/ Sync \/ Close \/ Rename \/ OpenDir \/ SyncDir
    \/ Fails \/ Killed \/ PowerLoss

Spec == Init /\ [][Next]_vars
-----------------------------------------------------------------------------
\* In particular, state.json only ever names a file that was synced whole.
TypeOK ==
    /\ step \in Steps \cup {"idle"}
    /\ arg \in State
    /\ result \in {"none", "nil", "error"}
    /\ temp \in File
    /\ name \in Whole
    /\ names \subseteq Whole
    /\ allowed \subseteq State

\* What ReadState finds now, and what it may find after power loss now.
survivors == {g.data : g \in UNION {AfterLoss(f) : f \in names}}

Store == INSTANCE StateStore WITH file <- name.data

\* writeState is the store discovery relies on: whatever is interrupted, a
\* State is replaced whole or not at all.
ReplacesWhole == Store!StoreSpec

\* A nil error is only returned for a State that no power loss can undo.
NilMeansDurable == result = "nil" => name.data = arg /\ survivors = {arg}

\* Power loss never brings back a State older than the last acknowledged one.
NothingOlderReturns == survivors \cup {name.data} \subseteq allowed
=============================================================================
