--------------------------- MODULE RefreshTokens ---------------------------
(***************************************************************************)
(* Refresh-token rotation: POST /oauth/token with grant_type=refresh_token,*)
(* POST /oauth/revoke, and the other writers of a session                  *)
(* (bauth_server/src/routes/oauth.rs, sessions.rs, queries/sessions.rs,    *)
(* queries/refresh_tokens.rs).                                             *)
(*                                                                         *)
(* One request is one PostgreSQL transaction at READ COMMITTED, and one    *)
(* action is one SQL statement with the code that follows it up to the     *)
(* next statement.  What a transaction has written is kept in its request  *)
(* record (rotates, supersedes) and reaches the tables when it commits;    *)
(* every read sees the committed tables.  A row lock is held by the        *)
(* transaction that took it until that transaction ends, so the lock table *)
(* is not a variable: Holds(r, t) reads it off the request records.        *)
(***************************************************************************)
EXTENDS Integers, FiniteSets

CONSTANTS
    Requests,    \* concurrent calls of the token endpoint
    Tokens,      \* identifiers of refresh_tokens rows
    Sessions,    \* identifiers of sessions rows
    Users,
    Clients,
    None,        \* SQL NULL, and "no row"
    Grace,       \* REFRESH_REUSE_GRACE
    SessionTTL,  \* SESSION_TTL
    MaxClock     \* bound: the last instant of the clock

ASSUME ConstantsAssumption ==
    /\ Grace \in Nat
    /\ SessionTTL \in Nat
    /\ MaxClock \in Nat
    /\ None \notin Nat
    /\ None \notin Tokens \cup Sessions \cup Users \cup Clients

VARIABLES
    clock,     \* the database's and the server's clock
    sessions,  \* bauth.sessions
    tokens,    \* bauth.refresh_tokens
    disabled,  \* the users whose disabled_at is set
    requests   \* the calls in progress

vars == <<clock, sessions, tokens, disabled, requests>>

-----------------------------------------------------------------------------
(* Rows and requests *)

Instant == 0 .. MaxClock

\* A sessions row; user = None: no such row.
Session == [user : Users \cup {None}, client : Clients \cup {None},
            expires_at : Nat, revoked : BOOLEAN]

NoSession == [user |-> None, client |-> None, expires_at |-> 0, revoked |-> FALSE]

\* A refresh_tokens row; session = None: no such row.  iat is the issue time of
\* the access token that the same response carries.
Token == [session : Sessions \cup {None}, parent : Tokens \cup {None},
          rotated_at : Instant \cup {None}, superseded_at : Instant \cup {None},
          iat : Instant]

NoToken == [session |-> None, parent |-> None, rotated_at |-> None,
            superseded_at |-> None, iat |-> 0]

\* Where a call stands: "waiting" for the row lock of its token, holding it and
\* about to run has_used_successor ("retry"), the supersede statement, the read
\* of the account ("user"), the insert ("issue"), or the revocation ("revoke").
Steps == {"idle", "received", "waiting", "retry", "supersede", "user",
          "issue", "revoke"}

\* A call: its input, the instant read by Utc::now(), the instant its
\* transaction began, the session row as its first statement saw it, and what
\* the transaction has written so far.  hopeless is a history variable: the
\* token could not be refreshed any more when the call arrived.
Request == [step : Steps, token : Tokens \cup {None}, client : Clients \cup {None},
            now : Instant, start : Instant, session : Session,
            rotates : BOOLEAN, supersedes : SUBSET Tokens, hopeless : BOOLEAN]

Idle == [step |-> "idle", token |-> None, client |-> None, now |-> 0, start |-> 0,
         session |-> NoSession, rotates |-> FALSE, supersedes |-> {},
         hopeless |-> FALSE]

-----------------------------------------------------------------------------
(* Reading the tables *)

Exists(t) == tokens[t].session # None

Opened(s) == sessions[s].user # None

SessionOf(t) == sessions[tokens[t].session]

Children(t) == {c \in Tokens : Exists(c) /\ tokens[c].parent = t}

\* Fault: successors that were replaced before are replaced again.
NeverUsed(t) == {c \in Children(t) : tokens[c].rotated_at = None}

\* The rows the supersede statement's WHERE clause selects.
UnusedSuccessors(t) == {c \in Children(t) : /\ tokens[c].rotated_at = None
                                            /\ tokens[c].superseded_at = None}

\* has_used_successor: reads committed rows only.
HasUsedSuccessor(t) == \E c \in Children(t) : tokens[c].rotated_at # None

\* Fault: the row is read FOR SHARE first and the lock upgraded later.
SharedLockUpgraded(r) == requests[r].step \notin {"idle", "received"}

InTransaction(r) == requests[r].step \notin {"idle", "received", "waiting"}

\* The transaction of r has the row of t locked.
Holds(r, t) == /\ InTransaction(r)
               /\ t = requests[r].token \/ t \in requests[r].supersedes

LockedByOther(r, t) == \E q \in Requests \ {r} : Holds(q, t)

InFlight == {r \in Requests : requests[r].step # "idle"}

Unused == {t \in Tokens : ~Exists(t)}

\* An instant more than the grace period after the rotation of t.
PastGrace(t, i) == /\ tokens[t].rotated_at # None
                   /\ i - tokens[t].rotated_at > Grace

\* Nobody may refresh this token any more: its session is over, its account is
\* disabled, or it is a copy of a token that was replaced or is past its use.
Refusable(t) ==
    \/ SessionOf(t).revoked
    \/ SessionOf(t).expires_at <= clock
    \/ SessionOf(t).user \in disabled
    \/ tokens[t].superseded_at # None
    \/ PastGrace(t, clock) /\ HasUsedSuccessor(t)

Goto(r, step) == requests' = [requests EXCEPT ![r].step = step]

Finish(r) == requests' = [requests EXCEPT ![r] = Idle]

-----------------------------------------------------------------------------
(* POST /oauth/token, grant_type=refresh_token *)

\* The call arrives: Utc::now() is read before the transaction begins.  A token
\* the tables do not know is None.  Bound: every call in flight can still insert.
Receive(r, t, c) ==
    /\ requests[r].step = "idle"
    /\ t \in {None} \cup (Tokens \ Unused)
    /\ Cardinality(Unused) > Cardinality(InFlight)
    /\ requests' = [requests EXCEPT ![r] =
                     [Idle EXCEPT !.step = "received", !.token = t, !.client = c,
                                  !.now = clock,
                                  !.hopeless = t # None /\ Refusable(t)]]
    /\ UNCHANGED <<clock, sessions, tokens, disabled>>

\* BEGIN, and the snapshot of find_for_update.  FOR UPDATE OF r locks the token
\* alone: the session's columns stay those of this snapshot, however long the
\* statement then waits for the token's row.
FindForUpdate(r) ==
    /\ requests[r].step = "received"
    /\ IF requests[r].token = None
       THEN Finish(r)
       ELSE requests' = [requests EXCEPT
                ![r].step = "waiting", ![r].start = clock,
                ![r].session = SessionOf(requests[r].token)]
    /\ UNCHANGED <<clock, sessions, tokens, disabled>>

\* Fault: find_for_update without FOR UPDATE.
FindWithoutLock(r) == requests[r].step = "waiting"

\* find_for_update returns: the row is locked and read as last committed.
GetsLock(r) ==
    /\ requests[r].step = "waiting"
    /\ ~LockedByOther(r, requests[r].token)

\* Fault: the revocation of the session is not looked at.
AdmitsRevoked(r) ==
    /\ requests[r].session.client = requests[r].client
    /\ requests[r].session.expires_at > requests[r].now

\* The client and session checks, on the row find_for_update returned.
Admits(r) ==
    LET q == requests[r] IN
    /\ q.session.client = q.client
    /\ ~q.session.revoked
    /\ q.session.expires_at > q.now

\* Fault: < for <=.
WithinGraceStrictly(r) ==
    requests[r].now - tokens[requests[r].token].rotated_at < Grace

\* now - rotated_at <= REFRESH_REUSE_GRACE
WithinGrace(r) ==
    requests[r].now - tokens[requests[r].token].rotated_at <= Grace

\* Wrong client, or a session that is over: rolled back.
Refuse(r) ==
    /\ GetsLock(r)
    /\ ~Admits(r)
    /\ Finish(r)
    /\ UNCHANGED <<clock, sessions, tokens, disabled>>

\* (Some(_), _) => stolen
FindSuperseded(r) ==
    /\ GetsLock(r)
    /\ Admits(r)
    /\ tokens[requests[r].token].superseded_at # None
    /\ Goto(r, "revoke")
    /\ UNCHANGED <<clock, sessions, tokens, disabled>>

\* (None, None) => mark_rotated
MarkRotated(r) ==
    /\ GetsLock(r)
    /\ Admits(r)
    /\ tokens[requests[r].token].superseded_at = None
    /\ tokens[requests[r].token].rotated_at = None
    /\ requests' = [requests EXCEPT ![r].step = "user", ![r].rotates = TRUE]
    /\ UNCHANGED <<clock, sessions, tokens, disabled>>

\* (None, Some(rotated_at)): let a second tab through, or treat it as a retry.
FindRotated(r) ==
    /\ GetsLock(r)
    /\ Admits(r)
    /\ tokens[requests[r].token].superseded_at = None
    /\ tokens[requests[r].token].rotated_at # None
    /\ Goto(r, IF WithinGrace(r) THEN "user" ELSE "retry")
    /\ UNCHANGED <<clock, sessions, tokens, disabled>>

\* A retry after the grace period: stolen if a successor has been used.
CheckSuccessors(r) ==
    /\ requests[r].step = "retry"
    /\ Goto(r, IF HasUsedSuccessor(requests[r].token) THEN "revoke" ELSE "supersede")
    /\ UNCHANGED <<clock, sessions, tokens, disabled>>

\* Fault: the retry leaves the earlier successors alone.
SupersedeNothing(r) ==
    /\ requests[r].step = "supersede"
    /\ Goto(r, "user")
    /\ UNCHANGED <<clock, sessions, tokens, disabled>>

\* supersede_unused_successors: the UPDATE waits for the rows it selects that
\* other transactions hold, and evaluates its WHERE clause again on what those
\* transactions left.  Only the holder of the parent inserts successors, so the
\* set it scans cannot grow while it waits.
SupersedeUnusedSuccessors(r) ==
    LET selected == UnusedSuccessors(requests[r].token) IN
    /\ requests[r].step = "supersede"
    /\ \A c \in selected : ~LockedByOther(r, c)
    /\ requests' = [requests EXCEPT ![r].step = "user", ![r].supersedes = selected]
    /\ UNCHANGED <<clock, sessions, tokens, disabled>>

\* users::find_by_id
FindUser(r) ==
    /\ requests[r].step = "user"
    /\ Goto(r, IF requests[r].session.user \in disabled THEN "revoke" ELSE "issue")
    /\ UNCHANGED <<clock, sessions, tokens, disabled>>

\* Fault: the marks are made outside of the transaction that issues, and lost.
WrittenNothing(r) == tokens

\* What the transaction of r wrote in the refresh_tokens rows; now() is the
\* start of the transaction.  mark_rotated leaves a mark that is there.
Written(r) ==
    [t \in Tokens |->
        CASE requests[r].rotates /\ t = requests[r].token /\ tokens[t].rotated_at = None ->
                [tokens[t] EXCEPT !.rotated_at = requests[r].start]
          [] t \in requests[r].supersedes ->
                [tokens[t] EXCEPT !.superseded_at = requests[r].start]
          [] OTHER -> tokens[t]]

RevokeSession(s) == sessions' = [sessions EXCEPT ![s].revoked = TRUE]

\* sessions::revoke and COMMIT, for a stolen token or a disabled account.
Revoke(r) ==
    /\ requests[r].step = "revoke"
    /\ RevokeSession(tokens[requests[r].token].session)
    /\ tokens' = Written(r)
    /\ Finish(r)
    /\ UNCHANGED <<clock, disabled>>

\* new_refresh_token, access_token::issue with the instant of arrival, COMMIT.
Issue(r) ==
    /\ requests[r].step = "issue"
    /\ \E t \in Unused :
         tokens' = [Written(r) EXCEPT ![t] =
                     [NoToken EXCEPT !.session = tokens[requests[r].token].session,
                                     !.parent = requests[r].token,
                                     !.iat = requests[r].now]]
    /\ Finish(r)
    /\ UNCHANGED <<clock, sessions, disabled>>

\* A database error, or a caller that goes away: the transaction is dropped.
Abort(r) ==
    /\ requests[r].step # "idle"
    /\ Finish(r)
    /\ UNCHANGED <<clock, sessions, tokens, disabled>>

-----------------------------------------------------------------------------
(* The other writers *)

\* sessions::open, committed with the exchange of an authorization code.
OpenSession(s, u, c) ==
    /\ ~Opened(s)
    /\ u \notin disabled
    /\ Cardinality(Unused) > Cardinality(InFlight)
    /\ sessions' = [sessions EXCEPT ![s] =
                      [user |-> u, client |-> c, expires_at |-> clock + SessionTTL,
                       revoked |-> FALSE]]
    /\ \E t \in Unused :
         tokens' = [tokens EXCEPT ![t] = [NoToken EXCEPT !.session = s, !.iat = clock]]
    /\ UNCHANGED <<clock, disabled, requests>>

\* POST /oauth/revoke: one UPDATE, for a token of the caller's own client.
RevokeByRefreshToken(t, c) ==
    /\ Exists(t)
    /\ SessionOf(t).client = c
    /\ ~SessionOf(t).revoked
    /\ RevokeSession(tokens[t].session)
    /\ UNCHANGED <<clock, tokens, disabled, requests>>

\* DELETE /me/sessions/{id}, by the session's user: one UPDATE.
RevokeForUser(s, u) ==
    /\ sessions[s].user = u
    /\ ~sessions[s].revoked
    /\ RevokeSession(s)
    /\ UNCHANGED <<clock, tokens, disabled, requests>>

\* The authorization code that opened the session was presented again: one UPDATE.
RevokeByAuthorizationCode(s) ==
    /\ Opened(s)
    /\ ~sessions[s].revoked
    /\ RevokeSession(s)
    /\ UNCHANGED <<clock, tokens, disabled, requests>>

\* The operator sets disabled_at; no route of the server does.
DisableUser(u) ==
    /\ u \notin disabled
    /\ disabled' = disabled \cup {u}
    /\ UNCHANGED <<clock, sessions, tokens, requests>>

Tick ==
    /\ clock < MaxClock
    /\ clock' = clock + 1
    /\ UNCHANGED <<sessions, tokens, disabled, requests>>

-----------------------------------------------------------------------------
Init ==
    /\ clock = 0
    /\ sessions = [s \in Sessions |-> NoSession]
    /\ tokens = [t \in Tokens |-> NoToken]
    /\ disabled = {}
    /\ requests = [r \in Requests |-> Idle]

\* The steps a call takes on its own once it has been received.
Handle(r) ==
    \/ FindForUpdate(r)
    \/ Refuse(r)
    \/ FindSuperseded(r)
    \/ MarkRotated(r)
    \/ FindRotated(r)
    \/ CheckSuccessors(r)
    \/ SupersedeUnusedSuccessors(r)
    \/ FindUser(r)
    \/ Revoke(r)
    \/ Issue(r)

Next ==
    \/ \E r \in Requests, t \in Tokens \cup {None}, c \in Clients : Receive(r, t, c)
    \/ \E r \in Requests : Handle(r) \/ Abort(r)
    \/ \E s \in Sessions, u \in Users, c \in Clients : OpenSession(s, u, c)
    \/ \E t \in Tokens, c \in Clients : RevokeByRefreshToken(t, c)
    \/ \E s \in Sessions, u \in Users : RevokeForUser(s, u)
    \/ \E s \in Sessions : RevokeByAuthorizationCode(s)
    \/ \E u \in Users : DisableUser(u)
    \/ Tick

Spec == Init /\ [][Next]_vars

-----------------------------------------------------------------------------
(* Properties *)

\* Every variable holds rows and calls of the shape the code gives them.
TypeOK ==
    /\ clock \in Instant
    /\ sessions \in [Sessions -> Session]
    /\ tokens \in [Tokens -> Token]
    /\ disabled \in SUBSET Users
    /\ requests \in [Requests -> Request]

\* A successor that a retry of its parent replaced never comes back
\* (queries/refresh_tokens.rs, supersede_unused_successors): it has not been
\* rotated and no token was issued from it, though its own refresh may run at
\* the same time as the retry that replaces it.
SupersededStaysDead ==
    \A t \in Tokens : tokens[t].superseded_at # None =>
        tokens[t].rotated_at = None /\ Children(t) = {}

\* Two tabs that refresh with the same token within REFRESH_REUSE_GRACE both
\* keep a working token (sessions.rs): a token is only ever replaced by a
\* transaction that began more than the grace period after its parent's rotation.
TabsKeepWorking ==
    \A t \in Tokens : tokens[t].superseded_at # None =>
        /\ tokens[t].parent # None
        /\ PastGrace(tokens[t].parent, tokens[t].superseded_at)

\* A call that arrived when its token could no longer be refreshed (session
\* over, account disabled, token replaced, or a used token past its grace whose
\* successor was used) never gets to issue tokens, whatever runs beside it.
LateCallsAreRefused ==
    \A r \in Requests : requests[r].step = "issue" => ~requests[r].hopeless

\* Rotation, replacement and revocation are final: no later transaction moves
\* or clears the mark of an earlier one.
MarksAreFinal ==
    [][/\ \A t \in Tokens :
             /\ tokens[t].rotated_at # None =>
                    tokens'[t].rotated_at = tokens[t].rotated_at
             /\ tokens[t].superseded_at # None =>
                    tokens'[t].superseded_at = tokens[t].superseded_at
       /\ \A s \in Sessions : sessions[s].revoked => sessions'[s].revoked]_vars

\* Each retry past the grace period replaces what the one before it was sent
\* (supersede_unused_successors): of the successors issued so late, at most one
\* is neither used nor replaced, however the retries overlap.
OneRetryLives ==
    \A p \in Tokens : \A b, c \in UnusedSuccessors(p) :
        PastGrace(p, tokens[b].iat) /\ PastGrace(p, tokens[c].iat) => b = c

\* "A retry after a lost response (flaky mobile network) is fine as long as the
\* app never used what we sent. If it did, this token is a stolen copy."
\* (routes/oauth.rs): a call past the grace period that is about to issue tokens
\* has no successor that was used.
UsedSuccessorMeansStolen ==
    \A r \in Requests : requests[r].step = "issue" =>
        LET t == requests[r].token IN
        ~(PastGrace(t, requests[r].now) /\ HasUsedSuccessor(t))

\* A call whose next statement does not wait for a row another call has locked.
CanGoOn(r) ==
    /\ requests[r].step = "waiting" => ~LockedByOther(r, requests[r].token)
    /\ requests[r].step = "supersede" =>
          \A c \in UnusedSuccessors(requests[r].token) : ~LockedByOther(r, c)

\* Waiting for the rows of a token and of its successors never closes a circle:
\* while there are calls, one of them can go on.
SomeCallCanGoOn == InFlight # {} => \E r \in InFlight : CanGoOn(r)

-----------------------------------------------------------------------------
(* Refinement *)

AbstractToken(t) ==
    [state |-> CASE ~Exists(t) -> "unissued"
                 [] tokens[t].superseded_at # None -> "dead"
                 [] tokens[t].rotated_at # None -> "used"
                 [] OTHER -> "fresh",
     session |-> tokens[t].session,
     parent |-> tokens[t].parent]

AbstractSession(s) ==
    CASE ~Opened(s) -> "unopened"
      [] sessions[s].revoked -> "revoked"
      [] OTHER -> "open"

Family == INSTANCE TokenFamily WITH
            sessions <- [s \in Sessions |-> AbstractSession(s)],
            tokens <- [t \in Tokens |-> AbstractToken(t)]

\* The transactions of the token endpoint, whatever they overlap with and wherever
\* they are cut off, amount to the single steps of TokenFamily: a token is never
\* marked without the successor that answers for it, a replaced one is never used,
\* and a retry replaces all of the unused successors or none.
RefinesTokenFamily == Family!Spec
=============================================================================
