---------------------------- MODULE MCWorkerServer ----------------------------
(* Two servers on one path, one after the other or at once, a scan and an    *)
(* assessment.  Only the assessment reports progress.                        *)
EXTENDS WorkerServer

CONSTANTS r1, r2

MCMaxProgress == [r \in {r1, r2} |-> IF r = r2 THEN 1 ELSE 0]
=============================================================================
