-------------------------- MODULE MCRefreshTokens --------------------------
(* Model-checking instances of RefreshTokens. *)
EXTENDS RefreshTokensProofs, TLC

Symmetry ==
    Permutations(Requests) \cup Permutations(Tokens)
        \cup Permutations(Sessions) \cup Permutations(Clients)
=============================================================================
