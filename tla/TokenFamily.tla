---------------------------- MODULE TokenFamily ----------------------------
(***************************************************************************)
(* What refresh-token rotation promises, with no transactions, locks or    *)
(* clocks: a session has a tree of tokens, and every refresh is one step   *)
(* that marks the token it was given as used, adds one successor and, when *)
(* it takes the call for a retry, kills the successors nobody has used.    *)
(*                                                                         *)
(* Module RefreshTokens implements it.                                     *)
(***************************************************************************)
CONSTANTS
    Tokens,
    Sessions,
    None

VARIABLES
    sessions,  \* "unopened", "open" or "revoked"
    tokens     \* state, session and parent of each token

vars == <<sessions, tokens>>

Token == [state : {"unissued", "fresh", "used", "dead"},
          session : Sessions \cup {None}, parent : Tokens \cup {None}]

Unissued == [state |-> "unissued", session |-> None, parent |-> None]

FreshSuccessors(t) == {c \in Tokens : tokens[c].parent = t /\ tokens[c].state = "fresh"}

\* The tokens once t has been used and the tokens in D were replaced.
Used(t, D) == [c \in Tokens |-> [tokens[c] EXCEPT !.state = CASE c = t -> "used"
                                                             [] c \in D -> "dead"
                                                             [] OTHER -> @]]

\* A token that may be used: a dead one never is.
Usable(t) == tokens[t].state \in {"fresh", "used"}

\* A session starts with one token.
Open(s, n) ==
    /\ sessions[s] = "unopened"
    /\ tokens[n] = Unissued
    /\ sessions' = [sessions EXCEPT ![s] = "open"]
    /\ tokens' = [tokens EXCEPT ![n] = [state |-> "fresh", session |-> s, parent |-> None]]

\* A refresh of t issues n.  A retry replaces every successor nobody has used, a
\* second tab none of them.
Refresh(t, n) ==
    /\ Usable(t)
    /\ tokens[n] = Unissued
    /\ \E D \in {{}, FreshSuccessors(t)} :
          tokens' = [Used(t, D) EXCEPT ![n] = [state |-> "fresh", parent |-> t,
                                               session |-> tokens[t].session]]
    /\ UNCHANGED sessions

\* A refresh of t revokes its session instead: its user is disabled.
Expel(t) ==
    /\ Usable(t)
    /\ \E D \in {{}, FreshSuccessors(t)} : tokens' = Used(t, D)
    /\ sessions' = [sessions EXCEPT ![tokens[t].session] = "revoked"]

\* A logout, a stolen token, a replayed code.
Revoke(s) ==
    /\ sessions[s] # "unopened"
    /\ sessions' = [sessions EXCEPT ![s] = "revoked"]
    /\ UNCHANGED tokens

Init ==
    /\ sessions = [s \in Sessions |-> "unopened"]
    /\ tokens = [t \in Tokens |-> Unissued]

Next ==
    \/ \E s \in Sessions : Revoke(s) \/ \E n \in Tokens : Open(s, n)
    \/ \E t \in Tokens : Expel(t) \/ \E n \in Tokens : Refresh(t, n)

Spec == Init /\ [][Next]_vars
=============================================================================
