------------------------ MODULE MCOneTimeEntitlement ------------------------
(* TLC instance of OneTimeEntitlement: see the .cfg files for the constants. *)
EXTENDS OneTimeEntitlement, TLC

Symmetry == Permutations(Disputes)
=============================================================================
