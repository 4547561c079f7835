---------------------------- MODULE MCRawCollector ----------------------------
(* Instances of RawCollector for TLC: model values for the files, no renaming *)
(* unless a configuration asks for it.                                        *)
EXTENDS RawCollector, TLC

CONSTANTS f1, f2

NoSuccessor == [f \in {} |-> f]
Renaming == f1 :> f2
=============================================================================
