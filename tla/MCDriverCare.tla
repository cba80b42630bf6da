---------------------------- MODULE MCDriverCare ----------------------------
(* Two requests of one Driver under one key, with two decisions to appeal. *)
EXTENDS DriverCare, TLC

Symmetry == Permutations(Subjects)
=============================================================================
