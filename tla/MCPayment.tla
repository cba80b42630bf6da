------------------------------ MODULE MCPayment ------------------------------
(* Instances of Payment for TLC. *)
EXTENDS Payment, TLC

Symmetry ==
    UNION {Permutations(Bookings), Permutations(Intents), Permutations(Payments),
           Permutations(Keys), Permutations(Requests)}

==============================================================================
