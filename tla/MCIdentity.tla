------------------------------ MODULE MCIdentity ------------------------------
(* Instances of Identity for TLC. *)
EXTENDS Identity, TLC

Symmetry ==
    UNION {Permutations(Accounts), Permutations(Challenges), Permutations(Sessions),
           Permutations(Keys), Permutations(Requests)}

==============================================================================
