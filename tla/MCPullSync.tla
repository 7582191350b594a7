----------------------------- MODULE MCPullSync -----------------------------
(***************************************************************************)
(* Model values for checking PullSync.  Devices and sweeps are alike;      *)
(* entity keys are ordered and are not.                                    *)
(***************************************************************************)
EXTENDS PullSync, TLC

Symmetry == Permutations(Devices) \cup Permutations(Sweepers)

=============================================================================
