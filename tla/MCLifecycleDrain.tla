-------------------------- MODULE MCLifecycleDrain --------------------------
(* Small instances of LifecycleDrain for TLC. *)
EXTENDS LifecycleDrain, TLC

\* Tasks and requests are interchangeable where no liveness is checked.
Symmetry == Permutations(Tasks) \cup Permutations(Requests)
=============================================================================
