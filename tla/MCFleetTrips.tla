----------------------------- MODULE MCFleetTrips -----------------------------
(* Instances of FleetTrips for TLC.  Requests are interchangeable as long   *)
(* as the set of overriding ones is kept.                                   *)
EXTENDS FleetTrips, TLC

Alike == Permutations(Requests \ Overriding)

=============================================================================
