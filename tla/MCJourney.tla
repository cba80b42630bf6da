----------------------------- MODULE MCJourney ------------------------------
(* Model values and symmetry for the runs of Journey. *)
EXTENDS CoreJourney, TLC

Interchangeable == Permutations(Bookings) \cup Permutations(Drivers)
=============================================================================
