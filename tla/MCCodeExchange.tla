--------------------------- MODULE MCCodeExchange ---------------------------
(* Model-checking instances of CodeExchange. *)
EXTENDS CodeExchangeProofs, TLC

Symmetry ==
    Permutations(Calls) \cup Permutations(Codes) \cup Permutations(Sessions)
        \cup Permutations(Clients) \cup Permutations(Uris) \cup Permutations(Verifiers)
=============================================================================
