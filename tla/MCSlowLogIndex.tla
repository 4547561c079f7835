---------------------------- MODULE MCSlowLogIndex ----------------------------
(* Instances of SlowLogIndex for TLC: what the parts hold, and budgets. *)
EXTENDS SlowLogIndex, TLC

\* A batch whose poll failed after its commit was read again with one more record.
Overlap == <<{1}, {1, 2}>>

NoBudget == [lose |-> 0, fail |-> 0, age |-> 0, crash |-> 0, repair |-> 0]

\* Steps of the collector, the worker or a query fail or are late, and a part is removed.
Some == {[NoBudget EXCEPT !.lose = 1, !.fail = 1, !.age = 1],
         [NoBudget EXCEPT !.age = 1, !.repair = 1],
         [NoBudget EXCEPT !.age = 1, !.crash = 1]}
=============================================================================
