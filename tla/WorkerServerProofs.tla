------------------------- MODULE WorkerServerProofs -------------------------
(***************************************************************************)
(* The worker service with any number of servers, started one after the    *)
(* other or at once, and any number of runs.                               *)
(***************************************************************************)
EXTENDS WorkerServer, TLAPS

\* A listening server that no other was there to see start is alone, and the
\* path is its own.
PathKept ==
    \A s \in Server :
        /\ pc[s] \in {"bound", "serving"} /\ s \notin overlap =>
               path = s /\ \A t \in Server : t # s => ~Alive(t)
        /\ pc[s] \in {"off", "draining", "failing", "gone"} => path # s

\* Who holds the locks is at work; who commands is, or its server ended.
LockKept ==
    \A r \in Run :
        /\ lock = r <=> stage[r] = "working"
        /\ command[r] => stage[r] \in {"working", "dead"}

\* Only a run that is over has been told its ending.
EndingLast ==
    \A r \in Run : \A i \in DOMAIN events[r] : events[r][i] \in Closing => stage[r] = "over"

IInv == TypeOK /\ PathKept /\ LockKept /\ EndingLast

\* The invariant holds before anything is started.
LEMMA InitInvariant == Init => IInv
BY WorkerAssumption DEF Init, IInv, TypeOK, PathKept, LockKept, EndingLast, Closing, Alive

\* What a server's steps share: they leave the clients' events, and the handlers
\* that are not its own, alone.
LEMMA ServerStep ==
    ASSUME IInv, pc' \in [Server -> {"off", "bound", "serving", "draining", "failing", "gone", "crashed"}],
           path' \in Server \cup {Nobody}, overlap' \subseteq Server, UNCHANGED run, PathKept'
    PROVE  IInv'
BY DEF IInv, TypeOK, LockKept, EndingLast, Closing, run, work, client

\* The end of a server's process preserves what concerns runs.
LEMMA EndKeeps ==
    ASSUME IInv, NEW s \in Server, NEW how \in {"cut", "lost"}, ProcessEnds(s, how)
    PROVE  /\ stage' \in [Run -> {"new", "working", "returned", "reported", "over", "dead"}]
           /\ host' = host /\ canceled' \in [Run -> BOOLEAN]
           /\ command' = command /\ outcome' = outcome /\ events' = events
           /\ lock' \in Run \cup {Nobody}
           /\ link' \in [Run -> {"none", "open", "half", "closed", "cut", "lost"}]
           /\ overlap' = overlap \ {s}
           /\ \A r \in Run : host'[r] = Nobody <=> stage'[r] = "new"
           /\ LockKept' /\ EndingLast'
<1> USE DEF IInv, TypeOK, ProcessEnds
<1>1. /\ stage' \in [Run -> {"new", "working", "returned", "reported", "over", "dead"}]
      /\ link' \in [Run -> {"none", "open", "half", "closed", "cut", "lost"}]
      /\ canceled' \in [Run -> BOOLEAN] /\ lock' \in Run \cup {Nobody}
  OBVIOUS
<1>2. \A r \in Run : stage'[r] = IF host[r] = s /\ UnderWay(r) THEN "dead" ELSE stage[r]
  OBVIOUS
<1>3. \A r \in Run : host'[r] = Nobody <=> stage'[r] = "new"
  BY <1>2 DEF UnderWay
<1>4. LockKept'
  <2>1. ASSUME NEW r \in Run PROVE lock' = r <=> stage'[r] = "working"
    <3>1. CASE lock = r
      <4>1. stage[r] = "working" /\ UnderWay(r)
        BY <3>1 DEF LockKept, UnderWay
      <4>2. lock' = IF host[r] = s THEN Nobody ELSE r
        BY <3>1
      <4> QED
        BY <1>2, <4>1, <4>2, WorkerAssumption
    <3>2. CASE lock # r
      BY <1>2, <3>2, WorkerAssumption DEF LockKept
    <3> QED
      BY <3>1, <3>2
  <2>2. ASSUME NEW r \in Run PROVE command'[r] => stage'[r] \in {"working", "dead"}
    BY <1>2 DEF LockKept
  <2> QED
    BY <2>1, <2>2 DEF LockKept
<1>5. EndingLast'
  BY <1>2 DEF EndingLast, UnderWay
<1> QED
  BY <1>1, <1>3, <1>4, <1>5

\* A server that is gone from the path, or dead, disturbs no other.
LEMMA LeaveKeeps ==
    ASSUME IInv, NEW s \in Server, NEW how \in {"cut", "lost"}, ProcessEnds(s, how), Alive(s),
           NEW end \in {"gone", "crashed"}, pc' = [pc EXCEPT ![s] = end],
           path' = Nobody \/ (end = "crashed" /\ path' = path),
           pc[s] \in {"draining", "failing"} \/ path' = path
    PROVE  IInv'
<1> USE DEF IInv, TypeOK
<1>1. pc' \in [Server -> {"off", "bound", "serving", "draining", "failing", "gone", "crashed"}]
  OBVIOUS
<1>2. path' \in Server \cup {Nobody} /\ overlap' = overlap \ {s}
  BY EndKeeps
<1>3. PathKept'
  <2> SUFFICES ASSUME NEW t \in Server
               PROVE  /\ pc'[t] \in {"bound", "serving"} /\ t \notin overlap' =>
                             path' = t /\ \A u \in Server : u # t => ~Alive(u)'
                      /\ pc'[t] \in {"off", "draining", "failing", "gone"} => path' # t
    BY DEF PathKept
  <2>1. CASE t = s
    BY <1>1, <2>1, WorkerAssumption DEF PathKept
  <2>2. CASE t # s
    <3>1. pc'[t] = pc[t] /\ (t \notin overlap' <=> t \notin overlap)
      BY <1>2, <2>2
    <3>2. pc[t] \in {"bound", "serving"} => t \in overlap
      BY <2>2 DEF PathKept
    <3>3. pc[t] \in {"off", "draining", "failing", "gone"} => path # t
      BY DEF PathKept
    <3> QED
      BY <3>1, <3>2, <3>3, WorkerAssumption
  <2> QED
    BY <2>1, <2>2
<1> QED
  BY <1>1, <1>2, <1>3, EndKeeps

\* Every step of a server preserves the invariant.
LEMMA ServeKeeps == ASSUME IInv, NEW s \in Server, Serve(s) PROVE IInv'
<1> USE DEF IInv, TypeOK, Goto, Alive
<1>1. CASE Listen(s)
  <2>1. PathKept'
    BY <1>1, WorkerAssumption DEF Listen, PathKept
  <2> QED
    BY <1>1, <2>1, ServerStep DEF Listen
<1>2. CASE ListenFails(s)
  <2>1. PathKept'
    BY <1>2, WorkerAssumption DEF ListenFails, PathKept
  <2> QED
    BY <1>2, <2>1, ServerStep DEF ListenFails
<1>3. CASE Secure(s)
  <2>1. PathKept'
    BY <1>3, WorkerAssumption DEF Secure, PathKept
  <2> QED
    BY <1>3, <2>1, ServerStep DEF Secure
<1>4. CASE SecureFails(s)
  <2>1. PathKept'
    BY <1>4, WorkerAssumption DEF SecureFails, PathKept
  <2> QED
    BY <1>4, <2>1, ServerStep DEF SecureFails
<1>5. CASE ServeFails(s)
  <2>1. PathKept'
    BY <1>5, WorkerAssumption, ZenonT(30) DEF ServeFails, PathKept
  <2> QED
    BY <1>5, <2>1, ServerStep DEF ServeFails
<1>6. CASE Signal(s) \/ ShutdownRequested(s)
  <2>1. Signal(s)
    BY <1>6 DEF ShutdownRequested
  <2>2. PathKept'
    BY <2>1, WorkerAssumption, ZenonT(30) DEF Signal, PathKept
  <2> QED
    BY <2>1, <2>2, ServerStep DEF Signal
<1>7. CASE Drained(s)
  BY <1>7, LeaveKeeps DEF Drained
<1>8. CASE GraceOver(s)
  BY <1>8, LeaveKeeps DEF GraceOver
<1>9. CASE FailedExit(s)
  BY <1>9, LeaveKeeps DEF FailedExit
<1>10. CASE Killed(s)
  BY <1>10, LeaveKeeps DEF Killed
<1> QED
  BY <1>1, <1>2, <1>3, <1>4, <1>5, <1>6, <1>7, <1>8, <1>9, <1>10 DEF Serve

\* A written event is one more at the end, or none.
LEMMA WriteAppends ==
    ASSUME IInv, NEW r \in Run, NEW e \in {"progress", "result"} \cup Closing, Write(r, e)
    PROVE  /\ events' \in [Run -> Seq({"progress", "result"} \cup Closing)]
           /\ \A q \in Run : q # r => events'[q] = events[q]
           /\ \A i \in DOMAIN events'[r] :
                  events'[r][i] = e \/ (i \in DOMAIN events[r] /\ events'[r][i] = events[r][i])
<1> DEFINE E == {"progress", "result"} \cup Closing
<1>1. events \in [Run -> Seq(E)] /\ e \in E
  BY DEF IInv, TypeOK
<1> HIDE DEF E
<1>2. CASE link[r] \in {"open", "half"}
  <2>1. events' = [events EXCEPT ![r] = Append(@, e)]
    BY <1>2 DEF Write
  <2>2. PICK old \in Seq(E) : old = events[r]
    BY <1>1
  <2>3. /\ Append(old, e) \in Seq(E)
        /\ \A i \in DOMAIN Append(old, e) :
               Append(old, e)[i] = e \/ (i \in DOMAIN old /\ Append(old, e)[i] = old[i])
    BY <1>1
  <2> QED
    BY <1>1, <2>1, <2>2, <2>3 DEF E
<1>3. CASE ~(link[r] \in {"open", "half"})
  BY <1>1, <1>3 DEF Write, E
<1> QED
  BY <1>2, <1>3

\* Every step of a handler and its client preserves the invariant.
LEMMA HandleKeeps == ASSUME IInv, NEW r \in Run, Handle(r) PROVE IInv'
<1> USE DEF IInv, TypeOK, Step, UnderWay, server, work, client
<1>p. UNCHANGED server => PathKept'
  BY DEF PathKept, Alive
<1>1. CASE Refused(r)
  <2>1. \E s \in Server : host' = [host EXCEPT ![r] = s]
    BY <1>1 DEF Refused, Dial
  <2>2. events' \in [Run -> Seq({"progress", "result"} \cup Closing)]
    BY <1>1 DEF Refused, Closing
  <2> QED
    BY <1>1, <1>p, <2>1, <2>2, WorkerAssumption DEF Refused, Dial, LockKept, EndingLast, Closing
<1>2. CASE Begin(r)
  BY <1>2, <1>p, WorkerAssumption DEF Begin, Dial, LockKept, EndingLast, Closing
<1>3. CASE BeginFails(r)
  BY <1>3, <1>p, WorkerAssumption DEF BeginFails, Dial, LockKept, EndingLast, Closing
<1>4. CASE Progress(r)
  <2>2. /\ events' \in [Run -> Seq({"progress", "result"} \cup Closing)]
        /\ \A q \in Run : q # r => events'[q] = events[q]
        /\ \A i \in DOMAIN events'[r] :
               events'[r][i] = "progress" \/ (i \in DOMAIN events[r] /\ events'[r][i] = events[r][i])
    BY <1>4, WriteAppends DEF Progress
  <2>3. stage' \in [Run -> {"new", "working", "returned", "reported", "over", "dead"}] /\ LockKept'
    BY <1>4 DEF Progress, LockKept
  <2>4. EndingLast'
    BY <1>4, <2>2, <2>3, ZenonT(30) DEF Progress, EndingLast, Closing
  <2> QED
    BY <1>4, <1>p, <2>2, <2>3, <2>4 DEF Progress
<1>5. CASE CommandStarts(r)
  BY <1>5, <1>p DEF CommandStarts, LockKept, EndingLast
<1>6. CASE CommandEnds(r)
  BY <1>6, <1>p DEF CommandEnds, LockKept, EndingLast
<1>7. CASE Returns(r)
  BY <1>7, <1>p, WorkerAssumption DEF Returns, Outcomes, LockKept, EndingLast
<1>8. CASE WriteResult(r)
  <2>2. /\ events' \in [Run -> Seq({"progress", "result"} \cup Closing)]
        /\ \A q \in Run : q # r => events'[q] = events[q]
        /\ \A i \in DOMAIN events'[r] :
               events'[r][i] = "result" \/ (i \in DOMAIN events[r] /\ events'[r][i] = events[r][i])
    BY <1>8, WriteAppends DEF WriteResult
  <2>3. stage' \in [Run -> {"new", "working", "returned", "reported", "over", "dead"}] /\ LockKept'
    BY <1>8 DEF WriteResult, LockKept
  <2>4. EndingLast'
    <3>1. \A i \in DOMAIN events[r] : events[r][i] \notin Closing
      BY <1>8 DEF WriteResult, EndingLast
    <3>2. \A i \in DOMAIN events'[r] : events'[r][i] \notin Closing
      BY <2>2, <3>1 DEF Closing
    <3>3. \A q \in Run : q # r => stage'[q] = stage[q] /\ events'[q] = events[q]
      BY <1>8, <2>2 DEF WriteResult
    <3> QED
      BY <3>2, <3>3 DEF EndingLast
  <2> QED
    BY <1>8, <1>p, <2>2, <2>3, <2>4 DEF WriteResult
<1>9. CASE WriteEnd(r)
  <2>1. PICK e \in Closing : Write(r, e)
    BY <1>9 DEF WriteEnd, Closing
  <2>2. /\ events' \in [Run -> Seq({"progress", "result"} \cup Closing)]
        /\ \A q \in Run : q # r => events'[q] = events[q]
        /\ \A i \in DOMAIN events'[r] :
               events'[r][i] = e \/ (i \in DOMAIN events[r] /\ events'[r][i] = events[r][i])
    BY <1>9, <2>1, WriteAppends, ZenonT(30) DEF WriteEnd
  <2>3. stage' \in [Run -> {"new", "working", "returned", "reported", "over", "dead"}] /\ LockKept'
    BY <1>9 DEF WriteEnd, LockKept
  <2>4. EndingLast'
    BY <1>9, <2>2, <2>3 DEF WriteEnd, EndingLast, Closing
  <2> QED
    BY <1>9, <1>p, <2>2, <2>3, <2>4 DEF WriteEnd
<1>10. CASE ClientCloses(r)
  BY <1>10, <1>p DEF ClientCloses, LockKept, EndingLast
<1>11. CASE CancelSeen(r)
  BY <1>11, <1>p DEF CancelSeen, LockKept, EndingLast
<1> QED
  BY <1>1, <1>2, <1>3, <1>4, <1>5, <1>6, <1>7, <1>8, <1>9, <1>10, <1>11 DEF Handle

\* IInv is an inductive invariant of the worker service.
THEOREM WorkerInvariant == Spec => []IInv
<1>1. IInv /\ [Next]_vars => IInv'
  <2> SUFFICES ASSUME IInv, [Next]_vars PROVE IInv'
    OBVIOUS
  <2>1. CASE StaleSocketRemoved
    <3>1. PathKept'
      BY <2>1, WorkerAssumption DEF StaleSocketRemoved, IInv, TypeOK, PathKept, Alive
    <3> QED
      BY <2>1, <3>1, ServerStep DEF StaleSocketRemoved, IInv, TypeOK
  <2>2. CASE UNCHANGED vars
    BY <2>2 DEF vars, server, run, work, client, IInv, TypeOK, PathKept, Alive, LockKept, EndingLast
  <2> QED
    BY <2>1, <2>2, ServeKeeps, HandleKeeps DEF Next
<1> QED
  BY <1>1, InitInvariant, PTL DEF Spec

\* Every variable of the service keeps its type.
THEOREM WorkerTypes == Spec => []TypeOK
<1>1. IInv => TypeOK
  BY DEF IInv
<1> QED
  BY <1>1, WorkerInvariant, PTL

\* However many servers are started, and whichever fail, are stopped or killed:
\* the path leads to a serving server that was started alone, and a server never
\* removes its own socket when Serve returns, because it is gone by then.
THEOREM PathIsKept == Spec => []PathLeadsToServer
<1>1. IInv => PathLeadsToServer
  BY DEF IInv, PathKept, PathLeadsToServer
<1> QED
  BY <1>1, WorkerInvariant, PTL

\* Two commands work in a clone at once only if a server ended under one.
THEOREM CloneIsShared == Spec => []AloneInClone
<1>1. IInv => AloneInClone
  BY DEF IInv, LockKept, AloneInClone
<1> QED
  BY <1>1, WorkerInvariant, PTL

\* A run whose client was told the end holds no lock and has no command left.
THEOREM EndingIsTheEnd == Spec => []EndingMeansDone
<1>1. IInv => EndingMeansDone
  BY DEF IInv, LockKept, EndingLast, EndingMeansDone, ToSet
<1> QED
  BY <1>1, WorkerInvariant, PTL
-----------------------------------------------------------------------------
(***************************************************************************)
(* What a client is told.  The first invariant says what is known of one   *)
(* run's stream and connection at each stage of its handler.               *)
(***************************************************************************)
Told(r) ==
    \A i \in DOMAIN events[r] :
        LET e == events[r][i] IN
        /\ i < Len(events[r]) => e \notin Closing
        /\ e = "result" /\ i < Len(events[r]) => events[r][i + 1] = "complete"
        /\ e = "complete" => outcome[r] = IF i > 1 /\ events[r][i - 1] = "result"
                                          THEN "result" ELSE "nothing"
        /\ e = "error" => outcome[r] = "error"
        /\ e = "canceled" => outcome[r] = "error" /\ link[r] = "half"

\* Progress, and perhaps the result.
Unfinished(r) ==
    \A i \in DOMAIN events[r] :
        /\ events[r][i] \in {"progress", "result"}
        /\ i < Len(events[r]) => events[r][i] = "progress"

Ended(r) == events[r] # <<>> /\ events[r][Len(events[r])] \in Closing

StreamKept(r) ==
    /\ stage[r] = "new" => events[r] = <<>> /\ link[r] = "none"
    /\ stage[r] \in {"working", "returned"} => \A i \in DOMAIN events[r] : events[r][i] = "progress"
    /\ stage[r] = "returned" => outcome[r] \in {"result", "nothing", "error"}
    /\ stage[r] = "reported" => outcome[r] = "result" /\ Unfinished(r)
    /\ stage[r] = "reported" /\ link[r] \in {"open", "half"} =>
           events[r] # <<>> /\ events[r][Len(events[r])] = "result"
    /\ stage[r] = "dead" => Unfinished(r)
    /\ stage[r] = "over" => Told(r)
    /\ UnderWay(r) => link[r] \in {"open", "half", "closed"}
    /\ canceled[r] => UnderWay(r) /\ link[r] # "open"
    /\ stage[r] = "dead" => \/ link[r] \in {"closed", "cut"}
                            \/ link[r] = "lost" /\ pc[host[r]] = "crashed"
    /\ stage[r] = "over" => Ended(r) \/ link[r] = "closed"

StreamsKept == \A r \in Run : StreamKept(r)

\* A step that leaves a run alone, and no dead server, keeps its part.
LEMMA OtherStream ==
    ASSUME IInv, NEW q \in Run, StreamKept(q),
           stage'[q] = stage[q], events'[q] = events[q], outcome'[q] = outcome[q],
           link'[q] = link[q], host'[q] = host[q], canceled'[q] => canceled[q],
           \A s \in Server : pc[s] = "crashed" => pc'[s] = "crashed"
    PROVE  StreamKept(q)'
<1>1. host[q] \in Server \/ stage[q] = "new"
  BY DEF IInv, TypeOK
<1>2. (UnderWay(q)' <=> UnderWay(q)) /\ (Told(q)' <=> Told(q))
      /\ (Unfinished(q)' <=> Unfinished(q)) /\ (Ended(q)' <=> Ended(q))
  BY DEF UnderWay, Told, Unfinished, Ended
<1> QED
  BY <1>1, <1>2 DEF StreamKept

\* The end of a server's process.
LEMMA ProcessEndStream ==
    ASSUME IInv, StreamsKept, NEW s \in Server, NEW how \in {"cut", "lost"}, ProcessEnds(s, how),
           NEW end \in {"gone", "crashed"}, pc' = [pc EXCEPT ![s] = end], Alive(s),
           \/ how = "cut"
           \/ end = "crashed"
           \/ \A r \in Run : host[r] = s => ~UnderWay(r)
    PROVE  StreamsKept'
<1> SUFFICES ASSUME NEW r \in Run PROVE StreamKept(r)'
  BY DEF StreamsKept
<1>1. StreamKept(r) /\ (host[r] \in Server \/ stage[r] = "new")
  BY DEF StreamsKept, IInv, TypeOK
<1>2. /\ events' = events /\ host' = host /\ outcome' = outcome
      /\ canceled'[r] = (canceled[r] /\ host[r] # s)
      /\ stage'[r] = IF host[r] = s /\ UnderWay(r) THEN "dead" ELSE stage[r]
      /\ link'[r] = IF host[r] = s /\ UnderWay(r) /\ link[r] \in {"open", "half"} THEN how ELSE link[r]
  BY DEF ProcessEnds
<1>3. \A t \in Server : pc[t] = "crashed" => pc'[t] = "crashed"
  BY DEF Alive, IInv, TypeOK
<1>4. CASE host[r] = s /\ UnderWay(r)
  <2>1. stage'[r] = "dead" /\ ~canceled'[r]
    BY <1>2, <1>4
  <2>2. Unfinished(r)
    BY <1>1, <1>4 DEF StreamKept, UnderWay, Unfinished
  <2>3. Unfinished(r)'
    BY <1>2, <2>2 DEF Unfinished
  <2>4. link'[r] \in {"closed", "cut"} \/ (link'[r] = "lost" /\ pc'[host'[r]] = "crashed")
    <3>1. link[r] \in {"open", "half", "closed"}
      BY <1>1, <1>4 DEF StreamKept
    <3>2. pc'[s] = end
      BY DEF IInv, TypeOK
    <3> QED
      BY <1>2, <1>4, <3>1, <3>2
  <2> QED
    BY <2>1, <2>3, <2>4 DEF StreamKept, UnderWay
<1>5. CASE ~(host[r] = s /\ UnderWay(r))
  BY <1>1, <1>2, <1>3, <1>5, OtherStream
<1> QED
  BY <1>4, <1>5

\* Every step of a server keeps every stream's part.
LEMMA ServeStreams == ASSUME IInv, StreamsKept, NEW s \in Server, Serve(s) PROVE StreamsKept'
<1>1. CASE \/ Listen(s) \/ ListenFails(s) \/ Secure(s) \/ SecureFails(s) \/ ServeFails(s)
           \/ Signal(s) \/ ShutdownRequested(s)
  <2>1. UNCHANGED run /\ \A t \in Server : pc[t] = "crashed" => pc'[t] = "crashed"
    BY <1>1 DEF IInv, TypeOK, Listen, ListenFails, Secure, SecureFails, ServeFails, Signal,
                ShutdownRequested, Goto
  <2> QED
    BY <2>1, OtherStream DEF run, work, client, StreamsKept
<1>2. CASE Drained(s)
  BY <1>2, ProcessEndStream DEF Drained, Goto, Alive
<1>3. CASE GraceOver(s)
  BY <1>3, ProcessEndStream DEF GraceOver, Goto, Alive
<1>4. CASE FailedExit(s)
  BY <1>4, ProcessEndStream DEF FailedExit, Goto, Alive
<1>5. CASE Killed(s)
  BY <1>5, ProcessEndStream DEF Killed
<1> QED
  BY <1>1, <1>2, <1>3, <1>4, <1>5 DEF Serve

\* What Write does to a stream, to the letter.
LEMMA WriteLast ==
    ASSUME IInv, NEW r \in Run, NEW e \in {"progress", "result"} \cup Closing, Write(r, e)
    PROVE  /\ \A q \in Run : q # r => events'[q] = events[q]
           /\ link[r] \notin {"open", "half"} => events'[r] = events[r]
           /\ link[r] \in {"open", "half"} =>
                  /\ Len(events'[r]) = Len(events[r]) + 1
                  /\ DOMAIN events'[r] = 1..Len(events[r]) + 1
                  /\ events'[r][Len(events[r]) + 1] = e
                  /\ \A i \in 1..Len(events[r]) : events'[r][i] = events[r][i]
           /\ Len(events[r]) \in Nat /\ DOMAIN events[r] = 1..Len(events[r])
<1> DEFINE E == {"progress", "result"} \cup Closing
<1>1. events \in [Run -> Seq(E)] /\ e \in E
  BY DEF IInv, TypeOK
<1> HIDE DEF E
<1>2. PICK old \in Seq(E) : old = events[r]
  BY <1>1
<1>3. /\ Len(Append(old, e)) = Len(old) + 1 /\ DOMAIN Append(old, e) = 1..Len(old) + 1
      /\ Append(old, e)[Len(old) + 1] = e
      /\ \A i \in 1..Len(old) : Append(old, e)[i] = old[i]
      /\ Len(old) \in Nat /\ DOMAIN old = 1..Len(old)
  BY <1>1
<1>4. CASE link[r] \in {"open", "half"}
  BY <1>1, <1>2, <1>3, <1>4 DEF Write
<1>5. CASE ~(link[r] \in {"open", "half"})
  BY <1>2, <1>3, <1>5 DEF Write
<1> QED
  BY <1>4, <1>5

\* The end of a stream.
LEMMA EndStream == ASSUME IInv, StreamsKept, NEW r \in Run, WriteEnd(r) PROVE StreamKept(r)'
<1> DEFINE e == IF outcome[r] # "error" THEN "complete"
                ELSE IF canceled[r] THEN "canceled" ELSE "error"
           n == Len(events[r])
<1>1. StreamKept(r)
  BY DEF StreamsKept
<1>2. /\ stage[r] = IF outcome[r] = "result" THEN "reported" ELSE "returned"
      /\ stage'[r] = "over" /\ Write(r, e) /\ ~canceled'[r] /\ outcome' = outcome /\ link' = link
  <2>1. Write(r, e)
    BY DEF WriteEnd
  <2>2. stage[r] = IF outcome[r] = "result" THEN "reported" ELSE "returned"
    BY DEF WriteEnd, Step
  <2>3. stage'[r] = "over" /\ ~canceled'[r] /\ outcome' = outcome /\ link' = link
    BY DEF WriteEnd, Step, work, IInv, TypeOK
  <2> QED
    BY <2>1, <2>2, <2>3
<1>3. e \in {"progress", "result"} \cup Closing /\ e \in Closing
  BY DEF Closing
<1>4. UnderWay(r)
  BY <1>2 DEF UnderWay
<1> HIDE DEF e
<1>5. /\ link[r] \notin {"open", "half"} => events'[r] = events[r]
      /\ link[r] \in {"open", "half"} =>
             /\ Len(events'[r]) = n + 1 /\ DOMAIN events'[r] = 1..n + 1
             /\ events'[r][n + 1] = e
             /\ \A i \in 1..n : events'[r][i] = events[r][i]
      /\ n \in Nat /\ DOMAIN events[r] = 1..n
  BY <1>2, <1>3, WriteLast
<1>6. Unfinished(r)
  BY <1>1, <1>2 DEF StreamKept, Unfinished
<1>7. Told(r)'
  <2>1. CASE link[r] \in {"open", "half"}
    <3> SUFFICES ASSUME NEW i \in 1..n + 1
                 PROVE  /\ i < n + 1 => events'[r][i] \notin Closing
                        /\ events'[r][i] = "result" /\ i < n + 1 => events'[r][i + 1] = "complete"
                        /\ events'[r][i] = "complete" =>
                               outcome[r] = IF i > 1 /\ events'[r][i - 1] = "result"
                                            THEN "result" ELSE "nothing"
                        /\ events'[r][i] = "error" => outcome[r] = "error"
                        /\ events'[r][i] = "canceled" => outcome[r] = "error" /\ link[r] = "half"
      BY <1>2, <1>5, <2>1 DEF Told
    <3>1. CASE i \in 1..n
      <4>1. events'[r][i] = events[r][i] /\ events[r][i] \in {"progress", "result"}
            /\ (i < n => events[r][i] = "progress")
        BY <1>5, <1>6, <2>1, <3>1 DEF Unfinished
      <4>2. events[r][i] = "result" => i = n /\ outcome[r] = "result"
        BY <1>1, <1>2, <1>5, <3>1, <4>1 DEF StreamKept
      <4> QED
        BY <1>5, <2>1, <4>1, <4>2 DEF e, Closing
    <3>2. CASE i = n + 1
      <4>1. events'[r][i] = e
        BY <1>5, <2>1, <3>2
      <4>2. e = "complete" => outcome[r] = IF i > 1 /\ events'[r][i - 1] = "result"
                                            THEN "result" ELSE "nothing"
        <5>1. CASE outcome[r] = "result"
          <6>1. n > 0 /\ events[r][n] = "result"
            BY <1>1, <1>2, <1>5, <2>1, <5>1 DEF StreamKept
          <6>2. i > 1 /\ i - 1 = n /\ n \in 1..n
            BY <1>5, <3>2, <6>1
          <6> QED
            BY <1>5, <2>1, <5>1, <6>1, <6>2
        <5>2. CASE outcome[r] # "result"
          <6>1. e = "complete" => outcome[r] = "nothing"
            BY <1>1, <1>2, <5>2 DEF e, StreamKept
          <6>2. \A k \in 1..n : events'[r][k] = "progress"
            BY <1>1, <1>2, <1>5, <2>1, <5>2 DEF StreamKept
          <6>3. i > 1 => i - 1 \in 1..n
            BY <1>5, <3>2
          <6> QED
            BY <6>1, <6>2, <6>3
        <5> QED
          BY <5>1, <5>2
      <4>3. e = "error" => outcome[r] = "error"
        BY DEF e
      <4>4. e = "canceled" => outcome[r] = "error" /\ link[r] = "half"
        BY <1>1, <2>1 DEF e, StreamKept
      <4>5. e # "result" /\ ~(i < n + 1)
        BY <1>5, <3>2 DEF e
      <4> QED
        BY <4>1, <4>2, <4>3, <4>4, <4>5
    <3> QED
      BY <1>5, <3>1, <3>2
  <2>2. CASE link[r] \notin {"open", "half"}
    <3>1. events'[r] = events[r]
      BY <1>5, <2>2
    <3>2. \A i \in DOMAIN events[r] :
              events[r][i] \in {"progress", "result"} /\ (i < n => events[r][i] = "progress")
      BY <1>6 DEF Unfinished
    <3> QED
      BY <1>2, <3>1, <3>2 DEF Told, Closing
  <2> QED
    BY <2>1, <2>2
<1>8. Ended(r)' \/ link'[r] = "closed"
  <2>1. CASE link[r] \in {"open", "half"}
    <3>1. Len(events'[r]) = n + 1 /\ n + 1 \in DOMAIN events'[r] /\ events'[r][n + 1] \in Closing
      BY <1>3, <1>5, <2>1
    <3>2. events'[r] # <<>>
      BY <3>1
    <3> QED
      BY <3>1, <3>2 DEF Ended
  <2>2. CASE link[r] \notin {"open", "half"}
    BY <1>1, <1>2, <1>4, <2>2 DEF StreamKept
  <2> QED
    BY <2>1, <2>2
<1> QED
  BY <1>2, <1>7, <1>8 DEF StreamKept, UnderWay

\* Every step of a handler and its client keeps every stream's part.
LEMMA HandleStreams == ASSUME IInv, StreamsKept, NEW r \in Run, Handle(r) PROVE StreamsKept'
<1>1. UNCHANGED server
  BY DEF Handle, Refused, Begin, BeginFails, Progress, CommandStarts, CommandEnds, Returns,
         WriteResult, WriteEnd, ClientCloses, CancelSeen, server
<1>2. ASSUME NEW q \in Run, q # r
      PROVE  /\ stage'[q] = stage[q] /\ events'[q] = events[q] /\ outcome'[q] = outcome[q]
             /\ link'[q] = link[q] /\ host'[q] = host[q] /\ canceled'[q] = canceled[q]
  <2> USE DEF Handle, Refused, Begin, BeginFails, Progress, CommandStarts, CommandEnds, Returns,
              WriteResult, WriteEnd, ClientCloses, CancelSeen, Step, Dial, Write, work, client,
              IInv, TypeOK
  <2>1. stage'[q] = stage[q] /\ outcome'[q] = outcome[q] /\ link'[q] = link[q]
    BY <1>2
  <2>2. events'[q] = events[q]
    BY <1>2
  <2>3. host'[q] = host[q] /\ canceled'[q] = canceled[q]
    BY <1>2
  <2> QED
    BY <2>1, <2>2, <2>3
<1>3. \A q \in Run : q # r => StreamKept(q)'
  BY <1>1, <1>2, OtherStream DEF server, StreamsKept
<1>4. StreamKept(r)
  BY DEF StreamsKept
<1>5. StreamKept(r)'
  <2> USE DEF StreamKept, UnderWay, Step, work, client, IInv, TypeOK
  <2>1. CASE Refused(r)
    <3>1. events'[r] = <<"refused">> /\ stage'[r] = "over" /\ ~canceled'[r]
      BY <1>4, <2>1 DEF Refused
    <3>2. Told(r)' /\ Ended(r)'
      BY <3>1 DEF Told, Ended, Closing
    <3> QED
      BY <3>1, <3>2
  <2>2. CASE Begin(r)
    BY <1>4, <2>2 DEF Begin, Dial
  <2>3. CASE BeginFails(r)
    BY <1>4, <2>3 DEF BeginFails, Dial
  <2>4. CASE Progress(r)
    <3>1. \A i \in DOMAIN events'[r] :
              events'[r][i] = "progress" \/ (i \in DOMAIN events[r] /\ events'[r][i] = events[r][i])
      BY <2>4, WriteAppends DEF Progress
    <3> QED
      BY <1>4, <2>4, <3>1 DEF Progress
  <2>5. CASE CommandStarts(r) \/ CommandEnds(r)
    BY <1>1, <1>4, <2>5, OtherStream DEF CommandStarts, CommandEnds, server
  <2>6. CASE Returns(r)
    BY <1>4, <2>6 DEF Returns, Outcomes
  <2>7. CASE WriteResult(r)
    <3>1. Unfinished(r)'
      <4>1. \A i \in DOMAIN events[r] : events[r][i] = "progress"
        BY <1>4, <2>7 DEF WriteResult
      <4>2. /\ link[r] \notin {"open", "half"} => events'[r] = events[r]
            /\ link[r] \in {"open", "half"} =>
                   /\ Len(events'[r]) = Len(events[r]) + 1
                   /\ DOMAIN events'[r] = 1..Len(events[r]) + 1
                   /\ events'[r][Len(events[r]) + 1] = "result"
                   /\ \A i \in 1..Len(events[r]) : events'[r][i] = events[r][i]
            /\ Len(events[r]) \in Nat /\ DOMAIN events[r] = 1..Len(events[r])
        BY <2>7, WriteLast DEF WriteResult
      <4>3. CASE link[r] \in {"open", "half"}
        <5>1. PICK n \in Nat : n = Len(events[r])
          BY <4>2
        <5>2. /\ events'[r][n + 1] = "result"
              /\ \A i \in 1..n : events'[r][i] = "progress"
              /\ DOMAIN events'[r] = 1..n + 1 /\ Len(events'[r]) = n + 1
          BY <4>1, <4>2, <4>3, <5>1
        <5>3. \A i \in 1..n + 1 : i \in 1..n \/ (i = n + 1 /\ ~(i < n + 1))
          BY <5>1
        <5> QED
          BY <5>2, <5>3 DEF Unfinished
      <4>4. CASE link[r] \notin {"open", "half"}
        BY <4>1, <4>2, <4>4 DEF Unfinished
      <4> QED
        BY <4>3, <4>4
    <3>2. link[r] \in {"open", "half"} =>
              events'[r] # <<>> /\ events'[r][Len(events'[r])] = "result"
      BY <2>7, WriteLast DEF WriteResult
    <3> QED
      BY <1>4, <2>7, <3>1, <3>2 DEF WriteResult
  <2>8. CASE WriteEnd(r)
    BY <2>8, EndStream
  <2>9. CASE ClientCloses(r)
    <3>1. Unfinished(r)' <=> Unfinished(r)
      BY <2>9 DEF ClientCloses, Unfinished
    <3> QED
      BY <1>4, <2>9, <3>1 DEF ClientCloses
  <2>10. CASE CancelSeen(r)
    <3>1. Unfinished(r)' <=> Unfinished(r)
      BY <2>10 DEF CancelSeen, Unfinished
    <3> QED
      BY <1>4, <2>10, <3>1 DEF CancelSeen
  <2> QED
    BY <2>1, <2>2, <2>3, <2>4, <2>5, <2>6, <2>7, <2>8, <2>9, <2>10 DEF Handle
<1> QED
  BY <1>3, <1>5 DEF StreamsKept

\* What is known of every stream holds in every reachable state.
THEOREM StreamInvariant == Spec => []StreamsKept
<1>1. Init => StreamsKept
  BY DEF Init, StreamsKept, StreamKept, UnderWay
<1>2. IInv /\ StreamsKept /\ [Next]_vars => StreamsKept'
  <2> SUFFICES ASSUME IInv, StreamsKept, [Next]_vars PROVE StreamsKept'
    OBVIOUS
  <2>1. CASE StaleSocketRemoved \/ UNCHANGED vars
    <3>1. UNCHANGED <<pc, run>>
      BY <2>1 DEF StaleSocketRemoved, vars, server
    <3> QED
      BY <3>1, OtherStream DEF run, work, client, StreamsKept
  <2> QED
    BY <2>1, ServeStreams, HandleStreams DEF Next
<1> QED
  BY <1>1, <1>2, WorkerInvariant, PTL DEF Spec

\* The last event says what Run or Assess returned, nothing follows it, and only
\* a client that left is told that its run was canceled.
THEOREM StreamIsTrue == Spec => []StreamTellsOutcome
<1>1. IInv /\ StreamsKept => StreamTellsOutcome
  <2> SUFFICES ASSUME IInv, StreamsKept, NEW r \in Run PROVE Told(r)
    BY DEF StreamTellsOutcome, Told
  <2>1. StreamKept(r) /\ stage[r] \in {"new", "working", "returned", "reported", "over", "dead"}
    BY DEF StreamsKept, IInv, TypeOK
  <2>2. CASE stage[r] = "over"
    BY <2>1, <2>2 DEF StreamKept
  <2>3. CASE stage[r] # "over"
    <3>1. Unfinished(r)
      BY <2>1, <2>3 DEF StreamKept, Unfinished
    <3> QED
      BY <3>1 DEF Unfinished, Told, Closing
  <2> QED
    BY <2>2, <2>3
<1> QED
  BY <1>1, StreamInvariant, WorkerInvariant, PTL

\* A client that stays misses its ending only when the grace period is over or
\* the process is killed or fails.
THEOREM CutsHaveCause == Spec => []CutOnlyForCause
<1>1. StreamsKept => CutOnlyForCause
  BY DEF StreamsKept, StreamKept, Ended, CutOnlyForCause, Last
<1> QED
  BY <1>1, StreamInvariant, PTL
=============================================================================
