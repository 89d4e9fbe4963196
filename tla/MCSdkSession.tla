---------------------------- MODULE MCSdkSession ----------------------------
(* Model-checking instances of SdkSession. *)
EXTENDS SdkSession, TLC

Symmetry ==
    Permutations(Tabs) \cup Permutations(Calls)
        \cup Permutations(Sessions)
=============================================================================
