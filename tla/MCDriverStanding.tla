-------------------------- MODULE MCDriverStanding --------------------------
(* Model values and symmetry for the run of DriverStanding. *)
EXTENDS DriverStanding, TLC

AssessedServices == {"SCHOOL", "HOSPITAL"}
Interchangeable == Permutations(StartKeys)
=============================================================================
