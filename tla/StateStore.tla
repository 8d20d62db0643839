----------------------------- MODULE StateStore -----------------------------
(***************************************************************************)
(* What the bot may rely on when it saves its State: the promise that      *)
(* writeState (state.go) makes and that StateFile is shown to keep.        *)
(*                                                                         *)
(* `file` is the State a ReadState of state.json returns now; a missing    *)
(* file reads as the State newState builds.  `survivors` are the States a  *)
(* ReadState could return after the machine loses power now: a rename that *)
(* the directory has not been synced for may or may not have happened.     *)
(***************************************************************************)
CONSTANT State      \* every State the bot can save

VARIABLES file, survivors

store == <<file, survivors>>

StoreTypeOK ==
    /\ file \in State
    /\ survivors \subseteq State

StoreInit ==
    /\ file \in State
    /\ survivors = {file}

\* writeState returned nil: s is what every later read finds.
Committed(s) ==
    /\ file' = s
    /\ survivors' = {s}

\* The rename took effect and the call then failed (or the process died): s is
\* read from now on, but power loss may still bring an older State back.
Unconfirmed(s) ==
    /\ file' = s
    /\ survivors' = survivors \cup {s}

\* writeState failed before the rename.
Unwritten == UNCHANGED store

PowerLoss ==
    /\ file' \in survivors
    /\ survivors' = {file'}

StoreNext ==
    \/ \E s \in State : Committed(s) \/ Unconfirmed(s)
    \/ PowerLoss

StoreSpec == StoreInit /\ [][StoreNext]_store
=============================================================================
