------------------------------ MODULE MCInstance ------------------------------
(* TLC instance of Instance. *)
EXTENDS Instance, TLC

\* The goroutines are interchangeable.
ProcSymmetry == Permutations(Procs)
=============================================================================
