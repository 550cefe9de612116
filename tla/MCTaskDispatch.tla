---------------------------- MODULE MCTaskDispatch ----------------------------
(* TaskDispatch with two workers on the queue. *)
EXTENDS TaskDispatch

CONSTANTS w1, w2
MCWorkers == {w1, w2}

\* One verdict that ends well and one that makes the task FAILED.
DoneOrFailed == {"approved", "failed"}
EveryVerdict == {"approved", "changes_requested", "blocked", "failed"}
=============================================================================
