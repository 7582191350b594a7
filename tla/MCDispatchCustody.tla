-------------------------- MODULE MCDispatchCustody --------------------------
(***************************************************************************)
(* Model values for checking DispatchCustody.  Requests that override are  *)
(* told from those that do not.                                            *)
(***************************************************************************)
EXTENDS DispatchCustody, TLC

Symmetry == Permutations(Requests \ Overriding) \cup Permutations(Lines)

=============================================================================
