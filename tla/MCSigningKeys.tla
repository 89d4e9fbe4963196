--------------------------- MODULE MCSigningKeys ---------------------------
(* Model-checking instances of SigningKeys. *)
EXTENDS SigningKeys, TLC

Symmetry == Permutations(Instances) \cup Permutations(Keys) \cup Permutations(Apis)
=============================================================================
