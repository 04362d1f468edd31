------------------------- MODULE MCManagementLease -------------------------
(* Small instances of ManagementLease for TLC. *)
EXTENDS ManagementLease, TLC

\* Installations, handlers and request ids are interchangeable.
Symmetry == Permutations(Installations) \cup Permutations(Handlers)
              \cup Permutations(RequestIds)
============================================================================
