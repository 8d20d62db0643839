---------------------------- MODULE IssueFiling ----------------------------
(***************************************************************************)
(* What discovery promises about the issues it files, whatever crashes,    *)
(* timeouts and lost calls happen: a request id is recorded before it is   *)
(* used, used for one POST only, and settled before the next one is        *)
(* recorded.  DiscoveryScan is shown to implement it.                      *)
(***************************************************************************)
CONSTANT RequestId

VARIABLE stage      \* how far the issue of each request id has come

Stage == {"unsent",     \* no POST, and a crash may still forget the intent
          "intended",   \* saved for good as about to be posted
          "underway",   \* the POST has started and is not settled
          "lost",       \* the POST will never take effect
          "filed",      \* the issue exists; the bot may not know it
          "confirmed"}  \* the issue exists and is saved for good as submitted

Settled == {r \in RequestId : stage[r] \in {"unsent", "confirmed"}}

Init == stage = [r \in RequestId |-> "unsent"]

Moves(r, from, to) ==
    /\ stage[r] = from
    /\ stage' = [stage EXCEPT ![r] = to]

Intend(r)  == Settled = RequestId /\ Moves(r, "unsent", "intended")
Send(r)    == Moves(r, "intended", "underway")
Land(r)    == Moves(r, "underway", "filed")
Vanish(r)  == Moves(r, "underway", "lost")
Confirm(r) == Moves(r, "filed", "confirmed")

Next == \E r \in RequestId :
            Intend(r) \/ Send(r) \/ Land(r) \/ Vanish(r) \/ Confirm(r)

Spec == Init /\ [][Next]_stage
=============================================================================
