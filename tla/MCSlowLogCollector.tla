-------------------------- MODULE MCSlowLogCollector --------------------------
(* Instances of SlowLogCollector for TLC: the budgets. *)
EXTENDS SlowLogCollector, TLC

\* A step fails, or the service restarts, or the clock goes on for longer.
Either == {[tick |-> 2, fault |-> 1, restart |-> 0], [tick |-> 2, fault |-> 0, restart |-> 1],
           [tick |-> 3, fault |-> 0, restart |-> 0]}
=============================================================================
