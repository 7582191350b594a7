------------------------------ MODULE MCApprovals ------------------------------
(* Instances of Approvals for TLC: the requests are interchangeable.        *)
EXTENDS Approvals, TLC

Alike == Permutations(Requests)

=============================================================================
