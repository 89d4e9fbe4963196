----------------------------- MODULE MCAccount -----------------------------
(* Model-checking instances of Account. *)
EXTENDS Account, TLC

Symmetry ==
    Permutations(Calls) \cup Permutations(Users) \cup Permutations(Sessions)
        \cup Permutations(Addresses)
=============================================================================
