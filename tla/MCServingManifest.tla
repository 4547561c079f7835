--------------------------- MODULE MCServingManifest ---------------------------
(* Instances of ServingManifest for TLC: parts as model values, and budgets. *)
EXTENDS ServingManifest, TLC

CONSTANTS p1, p2

NoBudget == [change |-> 0, hide |-> 0, age |-> 0, late |-> 0, fault |-> 0, crash |-> 0]

\* A part is hidden and shown again, or mutations of one delete outlast the look at the
\* rows, or a part falls out of the history.
Either == {[NoBudget EXCEPT !.change = 1, !.hide = 1, !.fault = 1],
           [NoBudget EXCEPT !.change = 2, !.late = 1],
           [NoBudget EXCEPT !.change = 1, !.late = 1, !.crash = 1],
           [NoBudget EXCEPT !.change = 1, !.age = 1]}

\* Both in one behaviour.
Both == {[NoBudget EXCEPT !.hide = 1, !.late = 1]}
=============================================================================
