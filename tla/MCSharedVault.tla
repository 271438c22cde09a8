---------------------------- MODULE MCSharedVault ----------------------------
(* TLC instance of SharedVault. *)
EXTENDS SharedVault, TLC

\* Accounts are interchangeable, and so are goroutines.
Symmetry == Permutations(People) \cup Permutations(Threads)
=============================================================================
