--------------------------- MODULE MCWorkerQueue ---------------------------
(* Instances of WorkerQueue for TLC. *)
EXTENDS WorkerQueue

CONSTANTS c1, c2, c3
=============================================================================
