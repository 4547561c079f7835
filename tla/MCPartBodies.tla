----------------------------- MODULE MCPartBodies -----------------------------
(* Instances of PartBodies for TLC: model values for the parts. *)
EXTENDS PartBodies, TLC

CONSTANTS p1, p2

Symmetry == Permutations(Parts)
=============================================================================
