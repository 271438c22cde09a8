----------------------------- MODULE MCUserAdmin -----------------------------
(* TLC instance of UserAdmin. *)
EXTENDS UserAdmin, TLC

\* The goroutines are interchangeable.
ProcSymmetry == Permutations(Procs)
=============================================================================
