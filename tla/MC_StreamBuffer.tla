-------------------------- MODULE MC_StreamBuffer --------------------------
(* Viewers whose names start with o watch on the worker that pulls the       *)
(* stream, those with f on another worker.                                    *)
EXTENDS StreamBuffer, TLC

CONSTANTS o1, o2, f1, f2, puller, follower

MCWorkerOf == [v \in Viewer |-> IF v \in {o1, o2} THEN puller ELSE follower]
=============================================================================
