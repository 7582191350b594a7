------------------------ MODULE MCConflictResolution ------------------------
(***************************************************************************)
(* Model values for checking ConflictResolution.                           *)
(***************************************************************************)
EXTENDS ConflictResolution, TLC

Symmetry == Permutations(Workers) \cup Permutations(Resolvers)

=============================================================================
