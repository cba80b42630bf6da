------------------------- MODULE MCFatigueHandover --------------------------
(* Model values and symmetry for the runs of FatigueHandover. *)
EXTENDS FatigueHandover, TLC

Interchangeable == Permutations(Bookings) \cup Permutations(Operators)
=============================================================================
