---------------------------- MODULE MCQueryTasks ----------------------------
(* QueryTasks with a small set of tasks. *)
EXTENDS QueryTasks, TLC
CONSTANTS t1, t2, t3
=============================================================================
