---------------------------- MODULE MCMagicLogin ----------------------------
(* Model-checking instances of MagicLogin. *)
EXTENDS MagicLogin, TLC

Symmetry ==
    Permutations(Calls) \cup Permutations(Flows)
        \cup Permutations(Users) \cup Permutations(Addresses)
=============================================================================
