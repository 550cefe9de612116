---------------------------- MODULE MCRunLifecycle ----------------------------
(* RunLifecycle with two tasks, so that a second task of the run could exist. *)
EXTENDS RunLifecycle

CONSTANTS t1, t2
MCTasks == {t1, t2}
MCHumanNodes == {2}
BothSavers == {"postgres", "memory"}
OnlyPostgres == {"postgres"}
=============================================================================
