---------------------------- MODULE MCDbWorkerPool ----------------------------
(* Instance of DbWorkerPool for TLC: two slots and a queue of one, so that *)
(* a fourth task is refused.  No symmetry: the run checks liveness.        *)
EXTENDS DbWorkerPool
=============================================================================
