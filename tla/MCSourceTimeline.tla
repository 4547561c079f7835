---------------------------- MODULE MCSourceTimeline ----------------------------
(* Instances of SourceTimeline for TLC: the budgets. *)
EXTENDS SourceTimeline

NoBudget == [switch |-> 0, expire |-> 0, end |-> 0]

\* The primary moves, or a job ends, or a file expires.
Either == {[NoBudget EXCEPT !.switch = 1], [NoBudget EXCEPT !.end = 1], [NoBudget EXCEPT !.expire = 1]}
=============================================================================
