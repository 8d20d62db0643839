---------------------------- MODULE WorkerServer ----------------------------
(***************************************************************************)
(* The worker service (internal/worker/server.go, cmd/bsb/worker.go): its  *)
(* life on a Unix socket and the runs it streams to its clients.           *)
(*                                                                         *)
(* A server process listens on a path, is asked to stop by a request or a  *)
(* signal, gives the runs under way a grace period and exits.  Another     *)
(* server may be started on the same path at any time.  A run's handler    *)
(* calls Run or Assess, which holds the locks of ConfigLocks (all runs are *)
(* about one clone here) and starts git and gh in process groups of their  *)
(* own, so a command outlives a server that dies.                          *)
(***************************************************************************)
EXTENDS Naturals, Sequences, SequencesExt

CONSTANTS
    Server,        \* server processes
    Scans,         \* run requests for a discovery scan (Run) ...
    Assessments,   \* ... and for an assessment (Assess)
    MaxProgress,   \* bound: progress events of each run
    Nobody

Run == Scans \cup Assessments

ASSUME WorkerAssumption ==
    /\ Nobody \notin Server /\ Nobody \notin Run
    /\ Scans \cap Assessments = {}
    /\ MaxProgress \in [Run -> Nat]

VARIABLES
    pc,         \* where each server is in Serve
    path,       \* whose socket file is at the socket path, if any
    overlap,    \* history: servers that began to listen before another was gone
    stage,      \* where each run's handler is
    host,       \* the server that handles it
    canceled,   \* is its context done? (no context outlives the handler)
    command,    \* is a git or gh command of its under way?
    outcome,    \* what Run or Assess returned to its handler
    lock,       \* the run that holds the locks, if any
    link,       \* its client's connection
    events      \* the events its client received

server == <<pc, path, overlap>>
work   == <<command, outcome, lock>>
client == <<link, events>>
run    == <<stage, host, canceled, work, client>>
vars   == <<server, run>>
-----------------------------------------------------------------------------
Alive(s) == pc[s] \notin {"off", "gone", "crashed"}

\* The handler of r has been called and has not returned.
UnderWay(r) == stage[r] \in {"working", "returned", "reported"}

Closing == {"refused", "complete", "error", "canceled"}   \* a stream's last event

\* On to the next statement of Serve, or of a handler.
Goto(s, from, to) == pc[s] = from /\ pc' = [pc EXCEPT ![s] = to]
Step(r, from, to) == stage[r] = from /\ stage' = [stage EXCEPT ![r] = to]

\* An event reaches the client unless it, or the server, has closed.
Write(r, e) ==
    events' = IF link[r] \in {"open", "half"} THEN [events EXCEPT ![r] = Append(@, e)] ELSE events
-----------------------------------------------------------------------------
(***************************************************************************)
(* Serve: listen, serve, stop.                                             *)
(***************************************************************************)
\* Replaces whatever socket is at the path.
Listen_Replaces(s) ==
    /\ Goto(s, "off", "bound")
    /\ path' = s
    /\ overlap' = IF \E t \in Server : Alive(t) THEN overlap \cup {s} ELSE overlap
    /\ UNCHANGED run

\* net.Listen refuses a path that exists, the socket of a dead server included.
Listen(s) ==
    /\ Goto(s, "off", "bound")
    /\ path = Nobody
    /\ path' = s
    /\ overlap' = IF \E t \in Server : Alive(t) THEN overlap \cup {s} ELSE overlap
    /\ UNCHANGED run

ListenFails(s) == Goto(s, "off", "gone") /\ UNCHANGED <<path, overlap, run>>

\* os.Chmod by name, then the goroutine that serves.
Secure(s) ==
    /\ Goto(s, "bound", "serving")
    /\ path # Nobody
    /\ UNCHANGED <<path, overlap, run>>

\* Closing a listener removes its path by name, whoever's socket is there now.
SecureFails(s) ==
    /\ Goto(s, "bound", "gone")
    /\ path' = Nobody
    /\ overlap' = overlap \ {s}
    /\ UNCHANGED run

\* Accepting fails, and http.Server.Serve closes the listener.
ServeFails(s) ==
    /\ Goto(s, "serving", "failing")
    /\ path' = Nobody
    /\ UNCHANGED <<overlap, run>>

\* A signal to main, whose context is not the runs', or POST /v1/shutdown:
\* Serve calls httpServer.Shutdown, which closes the listener.
Signal(s) ==
    /\ Goto(s, "serving", "draining")
    /\ path' = Nobody
    /\ UNCHANGED <<overlap, run>>

ShutdownRequested(s) == path = s /\ Signal(s)

\* Serve removes the path, deferred, and main returns without awaiting handlers
\* that are still under way.  The kernel closes their connections and drops
\* their locks; commands go on.
ProcessEnds(s, how) ==
    /\ overlap' = overlap \ {s}
    /\ stage' = [r \in Run |-> IF host[r] = s /\ UnderWay(r) THEN "dead" ELSE stage[r]]
    /\ link' = [r \in Run |-> IF host[r] = s /\ UnderWay(r) /\ link[r] \in {"open", "half"}
                              THEN how ELSE link[r]]
    /\ lock' = IF \E r \in Run : lock = r /\ host[r] = s THEN Nobody ELSE lock
    /\ canceled' = [r \in Run |-> canceled[r] /\ host[r] # s]
    /\ UNCHANGED <<host, command, outcome, events>>

Drained_AtOnce(s) ==
    /\ Goto(s, "draining", "gone")
    /\ path' = Nobody
    /\ ProcessEnds(s, "lost")

\* Shutdown returns once no handler is under way ...
Drained(s) ==
    /\ Goto(s, "draining", "gone")
    /\ \A r \in Run : host[r] = s => ~UnderWay(r)
    /\ path' = Nobody
    /\ ProcessEnds(s, "lost")

GraceOver_AwaitsWork(s) ==
    /\ Goto(s, "draining", "gone")
    /\ \A r \in Run : host[r] = s => lock # r
    /\ path' = Nobody
    /\ ProcessEnds(s, "cut")

\* ... or after five seconds, and Close cuts every connection.
GraceOver(s) ==
    /\ Goto(s, "draining", "gone")
    /\ \E r \in Run : host[r] = s /\ UnderWay(r)
    /\ path' = Nobody
    /\ ProcessEnds(s, "cut")

FailedExit(s) ==
    /\ Goto(s, "failing", "crashed")
    /\ path' = Nobody
    /\ ProcessEnds(s, "lost")

Killed(s) ==
    /\ Alive(s)
    /\ pc' = [pc EXCEPT ![s] = "crashed"]
    /\ ProcessEnds(s, "lost")
    /\ UNCHANGED path

\* Whoever starts servers removes the socket that a killed one left.
StaleSocketRemoved ==
    /\ \E s \in Server : path = s /\ pc[s] = "crashed"
    /\ path' = Nobody
    /\ UNCHANGED <<pc, overlap, run>>
-----------------------------------------------------------------------------
(***************************************************************************)
(* runs: one request's handler, and its client.                            *)
(***************************************************************************)
Dial_Unserved(r) ==
    /\ host' = [host EXCEPT ![r] = path]
    /\ link' = [link EXCEPT ![r] = "open"]

\* A client dials the path, and the server there accepts its POST /v1/runs.
Dial(r) ==
    /\ \E s \in Server : path = s /\ pc[s] = "serving" /\ host' = [host EXCEPT ![r] = s]
    /\ link' = [link EXCEPT ![r] = "open"]

\* 415, 400 or 412.
Refused(r) ==
    /\ Step(r, "new", "over")
    /\ Dial(r)
    /\ events' = [events EXCEPT ![r] = <<"refused">>]
    /\ UNCHANGED <<server, canceled, work>>

\* Run and Assess take the locks ...
Begin(r) ==
    /\ Step(r, "new", "working")
    /\ Dial(r)
    /\ lock = Nobody
    /\ lock' = r
    /\ UNCHANGED <<server, canceled, command, outcome, events>>

\* ... and fail when another run holds them, or on an invalid configuration.
BeginFails(r) ==
    /\ Step(r, "new", "returned")
    /\ Dial(r)
    /\ outcome' = [outcome EXCEPT ![r] = "error"]
    /\ UNCHANGED <<server, canceled, command, lock, events>>

\* The progress callback, which is silent once the context is done.
Progress(r) ==
    /\ stage[r] = "working"
    /\ ~command[r] /\ ~canceled[r]
    /\ Len(events[r]) < MaxProgress[r]
    /\ Write(r, "progress")
    /\ UNCHANGED <<server, stage, host, canceled, work, link>>

CommandStarts(r) ==
    /\ stage[r] = "working"
    /\ ~command[r] /\ ~canceled[r]
    /\ command' = [command EXCEPT ![r] = TRUE]
    /\ UNCHANGED <<server, stage, host, canceled, outcome, lock, client>>

\* By itself, or killed with its process group because the context is done.
CommandEnds(r) ==
    /\ command[r]
    /\ command' = [command EXCEPT ![r] = FALSE]
    /\ UNCHANGED <<server, stage, host, canceled, outcome, lock, client>>

\* What workerCommand makes of a run: Run has no result.
Outcomes(r) == {IF r \in Scans THEN "nothing" ELSE "result", "error"}

Returns_CommandLeft(r) ==
    /\ Step(r, "working", "returned")
    /\ lock' = Nobody
    /\ \E o \in Outcomes(r) : outcome' = [outcome EXCEPT ![r] = o]
    /\ UNCHANGED <<server, host, canceled, command, client>>

Returns_LocksKept(r) ==
    /\ Step(r, "working", "returned")
    /\ ~command[r]
    /\ \E o \in Outcomes(r) : outcome' = [outcome EXCEPT ![r] = o]
    /\ UNCHANGED <<server, host, canceled, command, lock, client>>

\* The locks are released when Run or Assess returns.
Returns(r) ==
    /\ Step(r, "working", "returned")
    /\ ~command[r]
    /\ lock' = Nobody
    /\ \E o \in Outcomes(r) : outcome' = [outcome EXCEPT ![r] = o]
    /\ UNCHANGED <<server, host, canceled, command, client>>

WriteResult(r) ==
    /\ Step(r, "returned", "reported")
    /\ outcome[r] = "result"
    /\ Write(r, "result")
    /\ UNCHANGED <<server, host, canceled, work, link>>

WriteEnd_ContextFirst(r) ==
    /\ Step(r, IF outcome[r] = "result" THEN "reported" ELSE "returned", "over")
    /\ Write(r, IF canceled[r] THEN "canceled"
                ELSE IF outcome[r] = "error" THEN "error" ELSE "complete")
    /\ canceled' = [canceled EXCEPT ![r] = FALSE]
    /\ UNCHANGED <<server, host, work, link>>

WriteEnd(r) ==
    /\ Step(r, IF outcome[r] = "result" THEN "reported" ELSE "returned", "over")
    /\ Write(r, IF outcome[r] # "error" THEN "complete"
                ELSE IF canceled[r] THEN "canceled" ELSE "error")
    /\ canceled' = [canceled EXCEPT ![r] = FALSE]
    /\ UNCHANGED <<server, host, work, link>>

\* The client goes, or ends its side of the connection and goes on reading.
ClientCloses(r) ==
    /\ UnderWay(r)
    /\ \/ link[r] = "open" /\ link' = [link EXCEPT ![r] = "half"]
       \/ link[r] \in {"open", "half"} /\ link' = [link EXCEPT ![r] = "closed"]
    /\ UNCHANGED <<server, stage, host, canceled, work, events>>

CancelSeen_Idle(r) ==
    /\ UnderWay(r) /\ ~command[r]
    /\ link[r] # "open" /\ ~canceled[r]
    /\ canceled' = [canceled EXCEPT ![r] = TRUE]
    /\ UNCHANGED <<server, stage, host, work, client>>

\* net/http notices and cancels the request's context: the only thing that does.
CancelSeen(r) ==
    /\ UnderWay(r)
    /\ link[r] # "open" /\ ~canceled[r]
    /\ canceled' = [canceled EXCEPT ![r] = TRUE]
    /\ UNCHANGED <<server, stage, host, work, client>>
-----------------------------------------------------------------------------
Init ==
    /\ pc = [s \in Server |-> "off"]
    /\ path = Nobody
    /\ overlap = {}
    /\ stage = [r \in Run |-> "new"]
    /\ host = [r \in Run |-> Nobody]
    /\ canceled = [r \in Run |-> FALSE]
    /\ command = [r \in Run |-> FALSE]
    /\ outcome = [r \in Run |-> "none"]
    /\ lock = Nobody
    /\ link = [r \in Run |-> "none"]
    /\ events = [r \in Run |-> <<>>]

Serve(s) ==
    \/ Listen(s) \/ ListenFails(s) \/ Secure(s) \/ SecureFails(s) \/ ServeFails(s)
    \/ ShutdownRequested(s) \/ Signal(s) \/ Drained(s) \/ GraceOver(s)
    \/ FailedExit(s) \/ Killed(s)

Handle(r) ==
    \/ Refused(r) \/ Begin(r) \/ BeginFails(r)
    \/ Progress(r) \/ CommandStarts(r) \/ CommandEnds(r) \/ Returns(r)
    \/ WriteResult(r) \/ WriteEnd(r) \/ ClientCloses(r) \/ CancelSeen(r)

Next == StaleSocketRemoved \/ (\E s \in Server : Serve(s)) \/ (\E r \in Run : Handle(r))

Spec == Init /\ [][Next]_vars

(***************************************************************************)
(* Fairness: Serve goes on where nothing blocks it and its timer fires;    *)
(* net/http notices a closed connection, a killed command ends, and a run  *)
(* whose context is done starts nothing new and returns.  Nothing is       *)
(* assumed of clients, of signals or of commands that were not killed.     *)
(***************************************************************************)
Fairness ==
    /\ \A s \in Server : WF_vars(Drained(s) \/ GraceOver(s) \/ FailedExit(s))
    /\ \A r \in Run :
           WF_vars(CancelSeen(r) \/ (canceled[r] /\ (CommandEnds(r) \/ Returns(r))))

FairSpec == Spec /\ Fairness
-----------------------------------------------------------------------------
TypeOK ==
    /\ pc \in [Server -> {"off", "bound", "serving", "draining", "failing", "gone", "crashed"}]
    /\ path \in Server \cup {Nobody}
    /\ overlap \subseteq Server
    /\ stage \in [Run -> {"new", "working", "returned", "reported", "over", "dead"}]
    /\ host \in [Run -> Server \cup {Nobody}]
    /\ \A r \in Run : host[r] = Nobody <=> stage[r] = "new"
    /\ canceled \in [Run -> BOOLEAN]
    /\ command \in [Run -> BOOLEAN]
    /\ outcome \in [Run -> {"none", "result", "nothing", "error"}]
    /\ lock \in Run \cup {Nobody}
    /\ link \in [Run -> {"none", "open", "half", "closed", "cut", "lost"}]
    /\ events \in [Run -> Seq({"progress", "result"} \cup Closing)]

\* What a client receives is progress, then at most one ending, and the ending
\* says what Run or Assess returned: "complete" for a success, after the result
\* if there is one, and "error" or "canceled" for a failure.  A client that stays
\* is never told "canceled": only its own leaving cancels a run.
StreamTellsOutcome ==
    \A r \in Run : \A i \in DOMAIN events[r] :
        LET e == events[r][i] IN
        /\ i < Len(events[r]) => e \notin Closing
        /\ e = "result" /\ i < Len(events[r]) => events[r][i + 1] = "complete"
        /\ e = "complete" => outcome[r] = IF i > 1 /\ events[r][i - 1] = "result"
                                          THEN "result" ELSE "nothing"
        /\ e = "error" => outcome[r] = "error"
        /\ e = "canceled" => outcome[r] = "error" /\ link[r] = "half"

\* A client that has its ending can submit the next run: this one neither holds
\* the locks nor has a command at work in the clone.
EndingMeansDone ==
    \A r \in Run : \A e \in ToSet(events[r]) : e \in Closing => lock # r /\ ~command[r]

\* A stop by request or by signal lets a run that ends within the grace period
\* tell so: a client that stays misses its ending only when the grace period is
\* over or the process is killed or fails.
CutOnlyForCause ==
    \A r \in Run : stage[r] \in {"over", "dead"} =>
        \/ events[r] # <<>> /\ Last(events[r]) \in Closing
        \/ link[r] \in {"closed", "cut"}
        \/ link[r] = "lost" /\ pc[host[r]] = "crashed"

\* The path leads to the server that serves there, unless that one was started
\* before its predecessor was gone; and the socket is no longer a server's own
\* when its deferred os.Remove comes to remove it.
PathLeadsToServer ==
    \A s \in Server :
        /\ pc[s] = "serving" /\ s \notin overlap => path = s
        /\ pc[s] \in {"draining", "failing", "gone"} => path # s

\* Two commands work in the clone at once only if a server ended under one of
\* them.
AloneInClone ==
    \A q, r \in Run : q # r /\ command[q] /\ command[r] => stage[q] = "dead" \/ stage[r] = "dead"

\* A server that was asked to stop, or cannot serve, is gone in the end, whatever
\* its runs do.
StopEnds ==
    \A s \in Server : pc[s] \in {"draining", "failing"} ~> pc[s] \in {"gone", "crashed"}

\* A run whose client left gives the locks back in the end.
LeavingFreesClone == \A r \in Run : (lock = r /\ link[r] # "open") ~> lock # r
=============================================================================
