----------------------------- MODULE PoolContract -----------------------------
(***************************************************************************)
(* What DenoPool.run promises its caller, RunService: the life of one call *)
(* as seen from outside the pool.  A call may wait, its onStart callback   *)
(* is called at most once, and it ends in one of four ways:                *)
(*                                                                         *)
(*   result    the answer a runner gave for this job                       *)
(*   crashed   WORKER_PROCESS_CRASHED, only after onStart was called       *)
(*   refused   POOL_BUSY, only when onStart was never called               *)
(*   rejected  the promise rejects with the error onStart threw            *)
(*                                                                         *)
(* or, once it runs, in none: a call that was dropped never returns.       *)
(*                                                                         *)
(* Several calls may move in one step: the event that settles one call     *)
(* dispatches the next one before it returns.  A closed pool lets no call  *)
(* in and starts none.                                                     *)
(***************************************************************************)
CONSTANT Jobs

VARIABLES
  call,      \* call[j]: where the pool.run call for job j is
  closing    \* close() was called

cvars == <<call, closing>>

Settled == {"result", "crashed", "refused", "rejected"}
CallState == {"new", "waiting", "starting", "running", "dropped"} \cup Settled

(* The moves a call can make. Only "starting" leads to "running", and      *)
(* "refused" is out of reach once a call is starting.                      *)
Admit == {<<"new", "waiting">>, <<"new", "starting">>, <<"waiting", "starting">>}
Advance == {<<"new", "refused">>, <<"waiting", "refused">>,
            <<"starting", "running">>, <<"starting", "crashed">>,
            <<"starting", "rejected">>, <<"running", "crashed">>,
            <<"running", "result">>, <<"running", "dropped">>}

TypeOK == /\ call \in [Jobs -> CallState]
          /\ closing \in BOOLEAN

Init == /\ call = [j \in Jobs |-> "new"]
        /\ closing = FALSE

Moves(edges) ==
  /\ call' \in [Jobs -> CallState]
  /\ \A j \in Jobs : call'[j] = call[j] \/ <<call[j], call'[j]>> \in edges

(* Calls move while the pool is open.                                      *)
Work == /\ ~closing
        /\ Moves(Admit \cup Advance)
        /\ UNCHANGED closing

(* close(): whoever waits is refused, and nobody is admitted from here on. *)
Close == /\ ~closing
         /\ closing' = TRUE
         /\ call' = [j \in Jobs |-> IF call[j] = "waiting" THEN "refused" ELSE call[j]]

(* Calls that had started go on in a closing pool.                         *)
WindDown == /\ closing
            /\ Moves(Advance)
            /\ UNCHANGED closing

Next == Work \/ Close \/ WindDown

Spec == Init /\ [][Next]_cvars
=============================================================================
