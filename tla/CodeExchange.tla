---------------------------- MODULE CodeExchange ----------------------------
(***************************************************************************)
(* Exchanging an authorization code: POST /oauth/token with                *)
(* grant_type=authorization_code, and what a replayed code brings about    *)
(* (bauth_server/src/routes/oauth.rs, sessions.rs,                         *)
(* queries/authorization_codes.rs, queries/sessions.rs).                   *)
(*                                                                         *)
(* The exchange is one READ COMMITTED transaction; refusing a code that    *)
(* cannot be used runs two more statements outside it.  One action is one  *)
(* statement with the code up to the next.  What the transaction writes    *)
(* (consumed_at, the session, its first refresh token) becomes visible     *)
(* when it commits, which the action OpenSession does.  The life of the    *)
(* session after that is module RefreshTokens.                             *)
(***************************************************************************)
EXTENDS Integers, FiniteSets

CONSTANTS
    Calls,      \* calls of the token endpoint; each is made once
    Codes,      \* identifiers of authorization_codes rows
    Sessions,   \* identifiers of sessions rows
    Users,
    Clients,
    Uris,       \* redirect URIs
    Verifiers,  \* PKCE verifiers; a challenge determines its verifier
    None,
    CodeTTL,    \* login_flow::CODE_TTL
    MaxClock    \* bound: the last instant of the clock

ASSUME ConstantsAssumption ==
    /\ CodeTTL \in Nat
    /\ MaxClock \in Nat
    /\ None \notin Codes \cup Users \cup Clients
    \* A code opens one session at most: no exchange runs out of identifiers.
    /\ IsFiniteSet(Sessions) /\ IsFiniteSet(Codes)
    /\ Cardinality(Sessions) >= Cardinality(Codes)

VARIABLES
    clock,
    codes,     \* bauth.authorization_codes, each with what its flow binds it to
    sessions,  \* bauth.sessions
    disabled,  \* the users whose disabled_at is set
    calls

vars == <<clock, codes, sessions, disabled, calls>>

-----------------------------------------------------------------------------
(* Rows and calls *)

Instant == 0 .. MaxClock

\* What the flow was started with, and what a call presents.
Binding == [client : Clients, redirect_uri : Uris, verifier : Verifiers]

\* A code; user = None: no such row.
Code == [user : Users \cup {None}, binding : Binding \cup {None},
         expires_at : Nat, consumed : BOOLEAN]

NoCode == [user |-> None, binding |-> None, expires_at |-> 0, consumed |-> FALSE]

\* A session; code = None: no such row.
Session == [code : Codes \cup {None}, user : Users \cup {None},
            client : Clients \cup {None}, revoked : BOOLEAN]

NoSession == [code |-> None, user |-> None, client |-> None, revoked |-> FALSE]

\* The statement a call runs next, or the answer it got.
Steps == {"consume", "user", "open", "replay", "revoke"}

Answers == {"tokens", "invalid_grant", "error"}

\* code = None: the tables do not know the code.  start is the transaction's
\* now().  late is a history variable: the code had been exchanged already when
\* the call arrived.
Call == [step : {"idle"} \cup Steps \cup Answers, code : Codes \cup {None},
         presents : Binding \cup {None}, start : Instant, late : BOOLEAN]

Idle == [step |-> "idle", code |-> None, presents |-> None, start |-> 0, late |-> FALSE]

-----------------------------------------------------------------------------
(* Reading the tables *)

Issued(k) == codes[k].user # None

Opened(s) == sessions[s].code # None

\* consumed_at IS NULL AND expires_at > now()
Usable(c) ==
    /\ calls[c].code # None
    /\ ~codes[calls[c].code].consumed
    /\ codes[calls[c].code].expires_at > calls[c].start

\* The client, the redirect URI and the PKCE verifier are those of the flow.
Matches(c) ==
    LET given == calls[c].presents
        bound == codes[calls[c].code].binding IN
    /\ given.client = bound.client
    /\ given.redirect_uri = bound.redirect_uri
    /\ given.verifier = bound.verifier

\* The row lock consume takes, kept to the end of the transaction.
Holds(c, k) == calls[c].step \in {"user", "open"} /\ calls[c].code = k

\* Fault: the code is read without locking its row.
NeverLocked(c, k) == FALSE

LockedByOther(c, k) == \E d \in Calls \ {c} : Holds(d, k)

Goto(c, step) == calls' = [calls EXCEPT ![c].step = step]

-----------------------------------------------------------------------------
(* The login that issues the code *)

\* login_flow::complete: the code of a completed flow.
CreateCode(k, u, b) ==
    /\ ~Issued(k)
    /\ u \notin disabled
    /\ codes' = [codes EXCEPT ![k] = [user |-> u, binding |-> b,
                                      expires_at |-> clock + CodeTTL,
                                      consumed |-> FALSE]]
    /\ UNCHANGED <<clock, sessions, disabled, calls>>

-----------------------------------------------------------------------------
(* POST /oauth/token, grant_type=authorization_code *)

\* The call arrives, of a known client, and its transaction begins.
Receive(c, k, b) ==
    /\ calls[c].step = "idle"
    /\ k # None => Issued(k)
    /\ calls' = [calls EXCEPT ![c] =
                   [step |-> "consume", code |-> k, presents |-> b, start |-> clock,
                    late |-> k # None /\ codes[k].consumed]]
    /\ UNCHANGED <<clock, codes, sessions, disabled>>

\* Fault: the code is spent by a mismatch, which commits.
ConsumeAnyway(c) ==
    /\ calls[c].step = "consume"
    /\ Usable(c)
    /\ ~LockedByOther(c, calls[c].code)
    /\ codes' = [codes EXCEPT ![calls[c].code].consumed = @ \/ ~Matches(c)]
    /\ Goto(c, IF Matches(c) THEN "user" ELSE "invalid_grant")
    /\ UNCHANGED <<clock, sessions, disabled>>

\* authorization_codes::consume waits for the row and checks it as last
\* committed.  Any mismatch rolls back.
Consume(c) ==
    /\ calls[c].step = "consume"
    /\ Usable(c)
    /\ ~LockedByOther(c, calls[c].code)
    /\ Goto(c, IF Matches(c) THEN "user" ELSE "invalid_grant")
    /\ UNCHANGED <<clock, codes, sessions, disabled>>

\* consume selects no row.  A code past its time is not waited for: the row
\* already fails the WHERE clause.
FindUnusable(c) ==
    /\ calls[c].step = "consume"
    /\ ~Usable(c)
    /\ Goto(c, "replay")
    /\ UNCHANGED <<clock, codes, sessions, disabled>>

\* users::find_by_id; a disabled account rolls back.
FindUser(c) ==
    /\ calls[c].step = "user"
    /\ Goto(c, IF codes[calls[c].code].user \in disabled THEN "invalid_grant" ELSE "open")
    /\ UNCHANGED <<clock, codes, sessions, disabled>>

\* Fault: the session is opened in a transaction of its own, and the one that
\* consumes the code is not committed.
OpenSeparately(c) ==
    /\ calls[c].step = "open"
    /\ \E s \in Sessions :
         /\ ~Opened(s)
         /\ sessions' = [sessions EXCEPT ![s] =
                           [code |-> calls[c].code, user |-> codes[calls[c].code].user,
                            client |-> calls[c].presents.client, revoked |-> FALSE]]
    /\ Goto(c, "tokens")
    /\ UNCHANGED <<clock, codes, disabled>>

\* sessions::open, access_token::issue and COMMIT.
OpenSession(c) ==
    /\ calls[c].step = "open"
    /\ \E s \in Sessions :
         /\ ~Opened(s)
         /\ sessions' = [sessions EXCEPT ![s] =
                           [code |-> calls[c].code, user |-> codes[calls[c].code].user,
                            client |-> calls[c].presents.client, revoked |-> FALSE]]
    /\ codes' = [codes EXCEPT ![calls[c].code].consumed = TRUE]
    /\ Goto(c, "tokens")
    /\ UNCHANGED <<clock, disabled>>

-----------------------------------------------------------------------------
(* reject_unusable_code, after the rollback *)

\* find_consumed, on the committed tables.
FindConsumed(c) ==
    LET k == calls[c].code IN
    /\ calls[c].step = "replay"
    /\ Goto(c, IF k # None /\ codes[k].consumed THEN "revoke" ELSE "invalid_grant")
    /\ UNCHANGED <<clock, codes, sessions, disabled>>

\* Fault: the replay is refused and nothing else.
RevokeNothing(c) ==
    /\ calls[c].step = "revoke"
    /\ Goto(c, "invalid_grant")
    /\ UNCHANGED <<clock, codes, sessions, disabled>>

\* sessions::revoke_by_authorization_code
RevokeByAuthorizationCode(c) ==
    /\ calls[c].step = "revoke"
    /\ sessions' = [s \in Sessions |-> IF sessions[s].code = calls[c].code
                                       THEN [sessions[s] EXCEPT !.revoked = TRUE]
                                       ELSE sessions[s]]
    /\ Goto(c, "invalid_grant")
    /\ UNCHANGED <<clock, codes, disabled>>

\* A database error, or a caller that goes away: what is not committed is lost.
Abort(c) ==
    /\ calls[c].step \in Steps
    /\ Goto(c, "error")
    /\ UNCHANGED <<clock, codes, sessions, disabled>>

-----------------------------------------------------------------------------
(* The rest of the server, and the operator *)

\* A logout, or a refresh that finds a stolen token.
RevokeSession(s) ==
    /\ Opened(s)
    /\ ~sessions[s].revoked
    /\ sessions' = [sessions EXCEPT ![s].revoked = TRUE]
    /\ UNCHANGED <<clock, codes, disabled, calls>>

\* The operator sets disabled_at; no route of the server does.
DisableUser(u) ==
    /\ u \notin disabled
    /\ disabled' = disabled \cup {u}
    /\ UNCHANGED <<clock, codes, sessions, calls>>

Tick ==
    /\ clock < MaxClock
    /\ clock' = clock + 1
    /\ UNCHANGED <<codes, sessions, disabled, calls>>

-----------------------------------------------------------------------------
Init ==
    /\ clock = 0
    /\ codes = [k \in Codes |-> NoCode]
    /\ sessions = [s \in Sessions |-> NoSession]
    /\ disabled = {}
    /\ calls = [c \in Calls |-> Idle]

\* The steps a call takes on its own once it has been received.
Handle(c) ==
    \/ Consume(c)
    \/ FindUnusable(c)
    \/ FindUser(c)
    \/ OpenSession(c)
    \/ FindConsumed(c)
    \/ RevokeByAuthorizationCode(c)

Next ==
    \/ \E k \in Codes, u \in Users, b \in Binding : CreateCode(k, u, b)
    \/ \E c \in Calls, k \in Codes \cup {None}, b \in Binding : Receive(c, k, b)
    \/ \E c \in Calls : Handle(c) \/ Abort(c)
    \/ \E s \in Sessions : RevokeSession(s)
    \/ \E u \in Users : DisableUser(u)
    \/ Tick

Spec == Init /\ [][Next]_vars

-----------------------------------------------------------------------------
(* Properties *)

\* Every variable holds rows and calls of the shape the code gives them.
TypeOK ==
    /\ clock \in Instant
    /\ codes \in [Codes -> Code]
    /\ sessions \in [Sessions -> Session]
    /\ disabled \in SUBSET Users
    /\ calls \in [Calls -> Call]

\* "Call inside the transaction that consumes the authorization code, so both
\* happen or neither does." (sessions.rs): a code is consumed exactly when it
\* has opened a session, and it opens one only, so the UNIQUE constraint on
\* authorization_code_id never turns an exchange into a server error.
OneSessionPerCode ==
    /\ \A k \in Codes : codes[k].consumed <=> \E s \in Sessions : sessions[s].code = k
    /\ \A s, t \in Sessions :
          s # t /\ Opened(s) => sessions[s].code # sessions[t].code

\* An exchange of a known code with the right client, URI and verifier, begun
\* before the code expired.
Rightful(c) == /\ calls[c].code # None
               /\ Matches(c)
               /\ codes[calls[c].code].expires_at > calls[c].start

\* "Any mismatch rolls back: the code stays usable by the legitimate app until
\* it expires." (routes/oauth.rs): a rightful exchange is refused only if
\* another rightful one took the code, or the account is disabled; whatever
\* calls with a wrong client, URI or verifier ran before it or beside it.
MismatchKeepsCode ==
    \A c \in Calls : calls[c].step = "invalid_grant" /\ Rightful(c) =>
        \/ codes[calls[c].code].user \in disabled
        \/ \E d \in Calls : /\ calls[d].step = "tokens" /\ calls[d].code = calls[c].code
                            /\ Rightful(d)

\* "If it was already used, someone replayed it: revoke the session it opened"
\* (routes/oauth.rs): once a code has been presented twice, by calls that came
\* one after the other or by two rightful calls at the same moment, and both
\* are answered, the session it opened is revoked.
ReplayRevokes ==
    \A c, d \in Calls :
        (/\ calls[c].step = "tokens"
         /\ calls[d].step = "invalid_grant"
         /\ calls[c].code = calls[d].code
         /\ calls[d].late \/ Rightful(d)) =>
            \A s \in Sessions : sessions[s].code = calls[d].code => sessions[s].revoked

-----------------------------------------------------------------------------
(* Refinement *)

Grant == INSTANCE CodeGrant WITH
           issued <- {k \in Codes : Issued(k)},
           spent <- {k \in Codes : codes[k].consumed},
           opened <- [s \in Sessions |-> sessions[s].code],
           revoked <- {s \in Sessions : sessions[s].revoked}

\* The calls of the token endpoint, whatever they overlap with and wherever they
\* are cut off, amount to the single steps of CodeGrant: a code is spent in the
\* step that opens its session, once.
RefinesCodeGrant == Grant!Spec
=============================================================================
