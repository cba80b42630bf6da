----------------------------- MODULE MCDispatch -----------------------------
(* Model values and symmetry for the runs of Dispatch. *)
EXTENDS Dispatch, TLC

Interchangeable == Permutations(Bookings) \cup Permutations(Drivers)
=============================================================================
