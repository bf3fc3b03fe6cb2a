----------------------------- MODULE MCManager -----------------------------
(***************************************************************************)
(* Manager for TLC: events are interchangeable, and so are the versions    *)
(* of the CRD other than "vacuum".                                         *)
(***************************************************************************)
EXTENDS Manager, TLC

Symmetry == Permutations(Handlers) \cup Permutations(Versions \ {Vacuum})
=============================================================================
