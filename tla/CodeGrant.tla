----------------------------- MODULE CodeGrant -----------------------------
(***************************************************************************)
(* What an authorization code promises, with no transactions, bindings or  *)
(* clocks: it is issued, it opens one session in the step that spends it,  *)
(* and that session may be revoked.                                        *)
(*                                                                         *)
(* Module CodeExchange implements it.                                      *)
(***************************************************************************)
CONSTANTS
    Codes,
    Sessions,
    None

VARIABLES
    issued,    \* the codes that have been issued
    spent,     \* the codes that have been exchanged
    opened,    \* the code that opened each session
    revoked    \* the sessions that were revoked

vars == <<issued, spent, opened, revoked>>

Issue(k) ==
    /\ k \notin issued
    /\ issued' = issued \cup {k}
    /\ UNCHANGED <<spent, opened, revoked>>

\* The code is spent and its session opened together, and never again.
Exchange(k, s) ==
    /\ k \in issued \ spent
    /\ opened[s] = None
    /\ spent' = spent \cup {k}
    /\ opened' = [opened EXCEPT ![s] = k]
    /\ UNCHANGED <<issued, revoked>>

Revoke(s) ==
    /\ opened[s] # None
    /\ revoked' = revoked \cup {s}
    /\ UNCHANGED <<issued, spent, opened>>

Init ==
    /\ issued = {}
    /\ spent = {}
    /\ opened = [s \in Sessions |-> None]
    /\ revoked = {}

Next ==
    \/ \E k \in Codes : Issue(k) \/ \E s \in Sessions : Exchange(k, s)
    \/ \E s \in Sessions : Revoke(s)

Spec == Init /\ [][Next]_vars
=============================================================================
