-------------------------------- MODULE MCKeys --------------------------------
(* TLC instance of Keys. *)
EXTENDS Keys, TLC

\* The devices are interchangeable.
DeviceSymmetry == Permutations(Devices)
=============================================================================
