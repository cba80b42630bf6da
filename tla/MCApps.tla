------------------------------- MODULE MCApps --------------------------------
(* Instances of Apps for TLC. *)
EXTENDS Apps, TLC

Symmetry == Permutations(Bookings) \cup Permutations(Slots)
=============================================================================
