------------------------------ MODULE Account ------------------------------
(***************************************************************************)
(* The sensitive changes of an account: the codes that confirm them        *)
(* (POST /me/confirmation), the change of address (POST /me/email and      *)
(* POST /email-change/confirm) and deletion (DELETE /me)                   *)
(* (bauth_server/src/routes/me.rs, routes/email_change.rs,                 *)
(* queries/confirmations.rs, queries/email_changes.rs, queries/users.rs,   *)
(* current_user.rs).                                                       *)
(*                                                                         *)
(* One action is one statement at READ COMMITTED with the code up to the   *)
(* next; a last write and its COMMIT are one action.  CurrentUser is read  *)
(* once, when the call arrives, and used to the end.  Deleting an account  *)
(* is two actions: the users row is locked, then the cascade has to wait   *)
(* for rows of the account that other transactions hold.  Row locks are    *)
(* read off the calls' records.  Logins, exchanges of codes and refreshes  *)
(* are here for the rows of the account that they lock and add; what they  *)
(* do with them is MagicLogin, CodeExchange and RefreshTokens.  The expiry *)
(* and the revocation of a session are one event, its end.                 *)
(***************************************************************************)
EXTENDS Integers, Sequences, FiniteSets, FiniteSetsExt

CONSTANTS
    Calls,              \* concurrent HTTP requests
    Users,              \* identifiers of users rows
    Sessions,           \* sessions rows
    Addresses,          \* email addresses, already lower(btrim(...))
    None,
    MaxFailuresPerCode, \* MAX_FAILURES_PER_CODE
    MaxFailuresPerDay,  \* MAX_FAILURES_PER_DAY
    CodeTTL,            \* magic_code::CODE_TTL
    ChangeTTL,          \* EMAIL_CHANGE_TTL
    Day,                \* interval '1 day'
    Returning,          \* bound: the accounts that log in again, once, by which of their
                        \* sessions are live ({}: they have none)
    MaxCodes,           \* bound: codes emailed in all
    MaxClock            \* bound: the last instant of the clock

ASSUME ConstantsAssumption ==
    /\ {MaxFailuresPerCode, MaxFailuresPerDay} \subseteq Nat \ {0}
    /\ {CodeTTL, ChangeTTL, Day, MaxCodes, MaxClock} \subseteq Nat
    /\ Returning \subseteq SUBSET BOOLEAN
    /\ None \notin Nat \cup Users \cup Sessions \cup Addresses

VARIABLES
    clock,
    users,          \* bauth.users
    sessions,       \* bauth.sessions
    confirmations,  \* bauth.confirmations, oldest first
    changes,        \* bauth.email_changes, oldest first
    logins,         \* what the login of an account has added to the other tables
    calls           \* the HTTP requests in progress

vars == <<clock, users, sessions, confirmations, changes, logins, calls>>

-----------------------------------------------------------------------------
(* Rows and calls *)

Instant == 0 .. MaxClock

\* ConfirmationAction
Acts == {"change_email", "delete_account"}

\* email = None: no such account; known: the identifier has been given out.
User == [known : BOOLEAN, email : Addresses \cup {None}, disabled : BOOLEAN]

NoUser == [known |-> FALSE, email |-> None, disabled |-> FALSE]

\* In this and the next two, user = None: the row has been deleted; only its
\* place is left.
Session == [user : Users \cup {None}, live : BOOLEAN]

Confirmation == [user : Users \cup {None}, session : Sessions \cup {None},
                 act : Acts \cup {None}, email : Addresses \cup {None},
                 created_at : Instant, expires_at : Nat, failures : Nat,
                 consumed : BOOLEAN]

NoConfirmation == [user |-> None, session |-> None, act |-> None, email |-> None,
                   created_at |-> 0, expires_at |-> 0, failures |-> 0, consumed |-> TRUE]

Change == [user : Users \cup {None}, from : Addresses \cup {None},
           to : Addresses \cup {None}, expires_at : Nat, consumed : BOOLEAN]

NoChange == [user |-> None, from |-> None, to |-> None, expires_at |-> 0, consumed |-> TRUE]

\* The rows of a login that refer to its account, in the order they are added.
LoginRows == {"magic_link", "authorization_code", "session"}

\* The statement a call runs next.
Steps == {"idle", "send", "candidate", "wrong", "right", "lookup", "link",
          "delete", "cascade", "consume", "user", "move", "rotate",
          "email", "verify", "open"}

\* user, session and email are CurrentUser.  act is what the call asks or uses a
\* code for; guess is the confirmation whose code was typed, 0 for none's.  row
\* is the confirmation or the change the call works on, start its now().  A field
\* the rest of the call does not read is given back its value in Idle.
Call == [step : Steps, user : Users \cup {None}, session : Sessions \cup {None},
         email : Addresses \cup {None}, act : Acts \cup {None}, guess : Nat,
         to : Addresses \cup {None}, row : Nat, start : Instant]

Idle == [step |-> "idle", user |-> None, session |-> None, email |-> None,
         act |-> None, guess |-> 0, to |-> None, row |-> 0, start |-> 0]

-----------------------------------------------------------------------------
(* Reading the tables *)

AccountOf(a) == {u \in Users : users[u].email = a}

\* find_authenticated, for CurrentUser
Authenticated(s) ==
    /\ sessions[s].live
    /\ sessions[s].user # None
    /\ ~users[sessions[s].user].disabled

\* The call of the user of s, as CurrentUser describes it.
From(s) == [Idle EXCEPT !.user = sessions[s].user, !.session = s,
                        !.email = users[sessions[s].user].email]

\* The confirmations of a session for an act; the newest counts.
Sent(s, act) == {k \in DOMAIN confirmations :
                   /\ confirmations[k].user # None
                   /\ confirmations[k].session = s
                   /\ confirmations[k].act = act}

Failures(k) == confirmations[k].failures

\* Wrong codes on the account's confirmations created in the day before now: each
\* is the n-th that was typed for a confirmation.
WrongCodes(u, now) ==
    UNION {{k} \X (1 .. Failures(k)) : k \in {k \in DOMAIN confirmations :
                                                /\ confirmations[k].user = u
                                                /\ confirmations[k].created_at > now - Day}}

\* sum(failures)
DayFailures(u, now) == Cardinality(WrongCodes(u, now))

-----------------------------------------------------------------------------
(* Row locks: what a call holds until its transaction ends, and waits for *)

\* DELETE FROM bauth.users; leaving find_code_candidate without a lock would make
\* this the only holder of the users row.
Deletes(d, u) == calls[d].user = u /\ calls[d].step = "cascade"

\* The users row is locked: FOR NO KEY UPDATE while a code is checked, or by the
\* DELETE.
HoldsAccount(d, u) == calls[d].user = u /\ calls[d].step \in {"wrong", "right", "cascade"}

\* Fault: the row is read FOR SHARE first and the lock upgraded later.
SharesChange(d, x) == calls[d].row = x /\ calls[d].step \in {"consume", "user", "move"}

\* The row lock of email_changes::consume.
HoldsChange(d, x) == calls[d].row = x /\ calls[d].step \in {"user", "move"}

\* A refresh has locked the token of the session.
HoldsToken(d, s) == calls[d].session = s /\ calls[d].step = "rotate"

\* A login has locked its magic link, an exchange its authorization code.
HoldsLogin(d, u) == calls[d].user = u /\ calls[d].step \in {"verify", "open"}

\* d holds a row that the next statement of c needs.  The foreign key of an INSERT
\* needs the users row to stay, which only the DELETE is against; an UPDATE of it
\* needs it for itself; the cascade needs every row of the account.
Blocks(d, c) ==
    LET call == calls[c] IN
    \/ call.step \in {"send", "link", "rotate", "email", "open"} /\ Deletes(d, call.user)
    \/ call.step \in {"candidate", "delete", "verify"} /\ HoldsAccount(d, call.user)
    \/ call.step = "consume" /\ HoldsChange(d, call.row)
    \/ call.step = "move" /\ HoldsAccount(d, changes[call.row].user)
    \/ /\ call.step = "cascade"
       /\ \/ \E x \in DOMAIN changes : changes[x].user = call.user /\ HoldsChange(d, x)
          \/ \E s \in Sessions : sessions[s].user = call.user /\ HoldsToken(d, s)
          \/ HoldsLogin(d, call.user)

WaitsFor(c) == {d \in Calls \ {c} : Blocks(d, c)}

Goto(c, step) == calls' = [calls EXCEPT ![c].step = step]

Finish(c) == calls' = [calls EXCEPT ![c] = Idle]

-----------------------------------------------------------------------------
(* POST /me/confirmation *)

Asking == {c \in Calls : calls[c].step = "send"}

RequestConfirmation(c, s, act) ==
    /\ calls[c].step = "idle"
    /\ Authenticated(s)
    /\ Len(confirmations) + Cardinality(Asking) < MaxCodes
    /\ calls' = [calls EXCEPT ![c] = [From(s) EXCEPT !.step = "send", !.act = act]]
    /\ UNCHANGED <<clock, users, sessions, confirmations, changes, logins>>

\* Fault: the table has no foreign keys.
CreateUnchecked(c) ==
    /\ calls[c].step = "send"
    /\ confirmations' = Append(confirmations,
            [user |-> calls[c].user, session |-> calls[c].session,
             act |-> calls[c].act, email |-> calls[c].email, created_at |-> clock,
             expires_at |-> clock + CodeTTL, failures |-> 0, consumed |-> FALSE])
    /\ Finish(c)
    /\ UNCHANGED <<clock, users, sessions, changes, logins>>

\* confirmations::create; its foreign keys wait for a deletion, and then fail.
CreateConfirmation(c) ==
    /\ calls[c].step = "send"
    /\ WaitsFor(c) = {}
    /\ confirmations' =
         IF users[calls[c].user].email = None THEN confirmations
         ELSE Append(confirmations,
                [user |-> calls[c].user, session |-> calls[c].session,
                 act |-> calls[c].act, email |-> calls[c].email, created_at |-> clock,
                 expires_at |-> clock + CodeTTL, failures |-> 0, consumed |-> FALSE])
    /\ Finish(c)
    /\ UNCHANGED <<clock, users, sessions, changes, logins>>

-----------------------------------------------------------------------------
(* check_code, for POST /me/email and DELETE /me *)

\* The call arrives with a code; a change is refused at once for the address
\* the account has.
UseCode(c, s, act, guess, to) ==
    /\ calls[c].step = "idle"
    /\ Authenticated(s)
    /\ to # users[sessions[s].user].email
    /\ act = "change_email" <=> to # None
    /\ calls' = [calls EXCEPT ![c] =
                   [From(s) EXCEPT !.step = "candidate", !.act = act,
                                   !.guess = guess, !.to = to, !.start = clock]]
    /\ UNCHANGED <<clock, users, sessions, confirmations, changes, logins>>

\* The newest confirmation of the session for the act, still pending, its
\* account under the budget of the day.
Candidate(c, k) ==
    /\ ~confirmations[k].consumed
    /\ confirmations[k].expires_at > calls[c].start
    /\ Failures(k) < MaxFailuresPerCode
    /\ DayFailures(calls[c].user, calls[c].start) < MaxFailuresPerDay

\* find_code_candidate under the account's lock, and the checks of the address
\* the code went to and of the code.
FindCodeCandidate(c) ==
    LET sent == Sent(calls[c].session, calls[c].act) IN
    /\ calls[c].step = "candidate"
    /\ WaitsFor(c) = {}
    /\ \/ \E k \in sent :
            /\ k = Max(sent)
            /\ Candidate(c, k)
            /\ confirmations[k].email = calls[c].email
            /\ calls' = [calls EXCEPT ![c] =
                  IF calls[c].guess = k
                  THEN [@ EXCEPT !.step = "right", !.row = k, !.session = None,
                                 !.guess = 0, !.start = 0]
                  ELSE [Idle EXCEPT !.step = "wrong", !.row = k, !.user = calls[c].user]]
       \/ /\ \A k \in sent : k = Max(sent) => ~Candidate(c, k) \/ confirmations[k].email # calls[c].email
          /\ Finish(c)
    /\ UNCHANGED <<clock, users, sessions, confirmations, changes, logins>>

\* record_code_failure and COMMIT; consumed_at is written either way.
RecordCodeFailure(c) ==
    LET k == calls[c].row IN
    /\ calls[c].step = "wrong"
    /\ confirmations' = [confirmations EXCEPT
            ![k].failures = @ + 1,
            ![k].consumed = Failures(k) + 1 >= MaxFailuresPerCode]
    /\ Finish(c)
    /\ UNCHANGED <<clock, users, sessions, changes, logins>>

\* consume_by_id and COMMIT, which gives the account's lock back.
ConsumeById(c) ==
    /\ calls[c].step = "right"
    /\ confirmations' = [confirmations EXCEPT ![calls[c].row].consumed = TRUE]
    /\ calls' = [calls EXCEPT
            ![c].step = IF calls[c].act = "change_email" THEN "lookup" ELSE "delete",
            ![c].row = 0]
    /\ UNCHANGED <<clock, users, sessions, changes, logins>>

-----------------------------------------------------------------------------
(* POST /me/email, once the code is spent *)

\* find_by_email: a taken address gets no link.
FindByEmail(c) ==
    /\ calls[c].step = "lookup"
    /\ IF AccountOf(calls[c].to) = {} THEN Goto(c, "link") ELSE Finish(c)
    /\ UNCHANGED <<clock, users, sessions, confirmations, changes, logins>>

\* email_changes::create, from the address CurrentUser was read with.
CreateChange(c) ==
    /\ calls[c].step = "link"
    /\ WaitsFor(c) = {}
    /\ changes' =
         IF users[calls[c].user].email = None THEN changes
         ELSE Append(changes, [user |-> calls[c].user, from |-> calls[c].email,
                               to |-> calls[c].to,
                               expires_at |-> clock + ChangeTTL, consumed |-> FALSE])
    /\ Finish(c)
    /\ UNCHANGED <<clock, users, sessions, confirmations, logins>>

-----------------------------------------------------------------------------
(* DELETE /me, once the code is spent *)

\* DELETE FROM bauth.users locks the row; nothing is left to do if it is gone.
Delete(c) ==
    /\ calls[c].step = "delete"
    /\ WaitsFor(c) = {}
    /\ IF users[calls[c].user].email = None THEN Finish(c) ELSE Goto(c, "cascade")
    /\ UNCHANGED <<clock, users, sessions, confirmations, changes, logins>>

\* ON DELETE CASCADE waits for the rows that others hold; COMMIT.
Cascade(c) ==
    LET u == calls[c].user IN
    /\ calls[c].step = "cascade"
    /\ WaitsFor(c) = {}
    /\ users' = [users EXCEPT ![u] = [NoUser EXCEPT !.known = TRUE]]
    /\ sessions' = [s \in Sessions |->
                      IF sessions[s].user = u THEN [user |-> None, live |-> FALSE]
                      ELSE sessions[s]]
    /\ confirmations' = [k \in DOMAIN confirmations |->
                           IF confirmations[k].user = u THEN NoConfirmation
                           ELSE confirmations[k]]
    /\ changes' = [x \in DOMAIN changes |->
                     IF changes[x].user = u THEN NoChange ELSE changes[x]]
    /\ logins' = [logins EXCEPT ![u] = {}]
    /\ Finish(c)
    /\ UNCHANGED clock

-----------------------------------------------------------------------------
(* POST /email-change/confirm *)

ConfirmChange(c, x) ==
    /\ calls[c].step = "idle"
    /\ calls' = [calls EXCEPT ![c] = [Idle EXCEPT !.step = "consume", !.row = x,
                                                  !.start = clock]]
    /\ UNCHANGED <<clock, users, sessions, confirmations, changes, logins>>

\* email_changes::consume waits for the row, then checks it as last committed.
ConsumeChange(c) ==
    LET x == calls[c].row IN
    /\ calls[c].step = "consume"
    /\ WaitsFor(c) = {}
    /\ IF /\ changes[x].user # None
          /\ ~changes[x].consumed
          /\ changes[x].expires_at > calls[c].start
       THEN calls' = [calls EXCEPT ![c].step = "user", ![c].start = 0]
       ELSE Finish(c)
    /\ UNCHANGED <<clock, users, sessions, confirmations, changes, logins>>

\* users::find_by_id: the row the change refers to cannot go while it is held.
FindUser(c) ==
    /\ calls[c].step = "user"
    /\ IF users[changes[calls[c].row].user].disabled THEN Finish(c) ELSE Goto(c, "move")
    /\ UNCHANGED <<clock, users, sessions, confirmations, changes, logins>>

\* Fault: the account moves whatever its address.
MoveAnyway(c) ==
    LET x == calls[c].row
        u == changes[x].user IN
    /\ calls[c].step = "move"
    /\ WaitsFor(c) = {}
    /\ IF AccountOf(changes[x].to) = {}
       THEN /\ users' = [users EXCEPT ![u].email = changes[x].to]
            /\ changes' = [changes EXCEPT ![x].consumed = TRUE]
       ELSE UNCHANGED <<users, changes>>
    /\ Finish(c)
    /\ UNCHANGED <<clock, sessions, confirmations, logins>>

\* users::change_email and COMMIT; an account that moved since, or an address
\* that was taken since, rolls everything back.
ChangeEmail(c) ==
    LET x == calls[c].row
        u == changes[x].user IN
    /\ calls[c].step = "move"
    /\ WaitsFor(c) = {}
    /\ IF users[u].email = changes[x].from /\ AccountOf(changes[x].to) = {}
       THEN /\ users' = [users EXCEPT ![u].email = changes[x].to]
            /\ changes' = [changes EXCEPT ![x].consumed = TRUE]
       ELSE UNCHANGED <<users, changes>>
    /\ Finish(c)
    /\ UNCHANGED <<clock, sessions, confirmations, logins>>

-----------------------------------------------------------------------------
(* POST /oauth/token, grant_type=refresh_token; its rows are module RefreshTokens *)

\* find_for_update locks the token, which the deletion of the account may already
\* have sentenced.
FindForUpdate(c, s) ==
    /\ calls[c].step = "idle"
    /\ sessions[s].live
    /\ \A d \in Calls : ~HoldsToken(d, s)
    /\ calls' = [calls EXCEPT ![c] = [Idle EXCEPT !.step = "rotate",
                                                  !.session = s,
                                                  !.user = sessions[s].user]]
    /\ UNCHANGED <<clock, users, sessions, confirmations, changes, logins>>

\* refresh_tokens::create and COMMIT: the foreign key waits for the session's row,
\* which the deletion takes before the token's.
InsertToken(c) ==
    /\ calls[c].step = "rotate"
    /\ WaitsFor(c) = {}
    /\ Finish(c)
    /\ UNCHANGED <<clock, users, sessions, confirmations, changes, logins>>

-----------------------------------------------------------------------------
(* A login by email and the exchange of its code: the rows of the account *)

\* An INSERT with a foreign key to users.
Insert(u, row) ==
    logins' = IF users[u].email = None THEN logins ELSE [logins EXCEPT ![u] = @ \cup {row}]

\* POST /flows/login/{id}/magic-link has found the account of the address.
RequestLink(c, u) ==
    /\ calls[c].step = "idle"
    /\ users[u].email # None /\ ~users[u].disabled
    /\ logins[u] = {}
    /\ {sessions[s].live : s \in {s \in Sessions : sessions[s].user = u}} \in Returning
    /\ \A d \in Calls : ~(calls[d].step = "email" /\ calls[d].user = u)
    /\ calls' = [calls EXCEPT ![c] = [Idle EXCEPT !.step = "email", !.user = u]]
    /\ UNCHANGED <<clock, users, sessions, confirmations, changes, logins>>

\* magic_links::create
CreateLink(c) ==
    /\ calls[c].step = "email"
    /\ WaitsFor(c) = {}
    /\ Insert(calls[c].user, "magic_link")
    /\ Finish(c)
    /\ UNCHANGED <<clock, users, sessions, confirmations, changes>>

\* magic_links::consume locks the link; log_in then refuses a disabled account (and
\* one that has left the address of the link, which is an Abort here).
ConsumeLink(c, u) ==
    /\ calls[c].step = "idle"
    /\ logins[u] = {"magic_link"}
    /\ ~users[u].disabled
    /\ \A d \in Calls : ~HoldsLogin(d, u)
    /\ calls' = [calls EXCEPT ![c] = [Idle EXCEPT !.step = "verify", !.user = u]]
    /\ UNCHANGED <<clock, users, sessions, confirmations, changes, logins>>

\* mark_email_verified waits for the users row; then authorization_codes::create
\* and COMMIT.
MarkEmailVerified(c) ==
    /\ calls[c].step = "verify"
    /\ WaitsFor(c) = {}
    /\ Insert(calls[c].user, "authorization_code")
    /\ Finish(c)
    /\ UNCHANGED <<clock, users, sessions, confirmations, changes>>

\* authorization_codes::consume locks the code; a disabled account is refused.
ConsumeCode(c, u) ==
    /\ calls[c].step = "idle"
    /\ logins[u] = {"magic_link", "authorization_code"}
    /\ ~users[u].disabled
    /\ \A d \in Calls : ~HoldsLogin(d, u)
    /\ calls' = [calls EXCEPT ![c] = [Idle EXCEPT !.step = "open", !.user = u]]
    /\ UNCHANGED <<clock, users, sessions, confirmations, changes, logins>>

\* sessions::create and COMMIT
OpenSession(c) ==
    /\ calls[c].step = "open"
    /\ WaitsFor(c) = {}
    /\ Insert(calls[c].user, "session")
    /\ Finish(c)
    /\ UNCHANGED <<clock, users, sessions, confirmations, changes>>

-----------------------------------------------------------------------------
(* The database, the rest of the server, the operator *)

\* Two calls wait for one another: PostgreSQL ends one of the two.
DetectDeadlock(c) ==
    /\ \E d \in WaitsFor(c) : c \in WaitsFor(d)
    /\ Finish(c)
    /\ UNCHANGED <<clock, users, sessions, confirmations, changes, logins>>

\* A database error, or a caller that goes away.
Abort(c) ==
    /\ calls[c].step # "idle"
    /\ Finish(c)
    /\ UNCHANGED <<clock, users, sessions, confirmations, changes, logins>>

\* DELETE /me/sessions/{id}, another revocation, or the session's expiry.
EndSession(s) ==
    /\ sessions[s].live
    /\ sessions' = [sessions EXCEPT ![s].live = FALSE]
    /\ UNCHANGED <<clock, users, confirmations, changes, logins, calls>>

\* A login by email creates the account.
SignUp(u, a) ==
    /\ ~users[u].known
    /\ AccountOf(a) = {}
    /\ users' = [users EXCEPT ![u] = [known |-> TRUE, email |-> a, disabled |-> FALSE]]
    /\ UNCHANGED <<clock, sessions, confirmations, changes, logins, calls>>

\* The operator sets disabled_at; no route of the server does.  No call here reads
\* it of an account that has never had a session.
DisableUser(u) ==
    /\ \E s \in Sessions : sessions[s].user = u
    /\ ~users[u].disabled
    /\ users' = [users EXCEPT ![u].disabled = TRUE]
    /\ UNCHANGED <<clock, sessions, confirmations, changes, logins, calls>>

Tick ==
    /\ clock < MaxClock
    /\ clock' = clock + 1
    /\ UNCHANGED <<users, sessions, confirmations, changes, logins, calls>>

-----------------------------------------------------------------------------
\* One account, with live sessions.
Init ==
    /\ clock = 0
    /\ \E u \in Users, a \in Addresses :
         /\ users = [v \in Users |-> IF v = u THEN [NoUser EXCEPT !.known = TRUE, !.email = a]
                                     ELSE NoUser]
         /\ sessions = [s \in Sessions |-> [user |-> u, live |-> TRUE]]
    /\ confirmations = << >>
    /\ changes = << >>
    /\ logins = [u \in Users |-> {}]
    /\ calls = [c \in Calls |-> Idle]

Arrive(c) ==
    \/ \E s \in Sessions, act \in Acts : RequestConfirmation(c, s, act)
    \/ \E s \in Sessions, act \in Acts, guess \in {0} \cup DOMAIN confirmations,
          to \in Addresses \cup {None} : UseCode(c, s, act, guess, to)
    \/ \E x \in DOMAIN changes : ConfirmChange(c, x)
    \/ \E s \in Sessions : FindForUpdate(c, s)
    \/ \E u \in Users : RequestLink(c, u) \/ ConsumeLink(c, u) \/ ConsumeCode(c, u)

Handle(c) ==
    \/ CreateConfirmation(c)
    \/ FindCodeCandidate(c)
    \/ RecordCodeFailure(c)
    \/ ConsumeById(c)
    \/ FindByEmail(c)
    \/ CreateChange(c)
    \/ Delete(c)
    \/ Cascade(c)
    \/ ConsumeChange(c)
    \/ FindUser(c)
    \/ ChangeEmail(c)
    \/ InsertToken(c)
    \/ CreateLink(c)
    \/ MarkEmailVerified(c)
    \/ OpenSession(c)
    \/ DetectDeadlock(c)

Next ==
    \/ \E c \in Calls : Arrive(c) \/ Handle(c) \/ Abort(c)
    \/ \E s \in Sessions : EndSession(s)
    \/ \E u \in Users, a \in Addresses : SignUp(u, a)
    \/ \E u \in Users : DisableUser(u)
    \/ Tick

Spec == Init /\ [][Next]_vars

-----------------------------------------------------------------------------
(* Properties *)

\* Every variable holds rows and calls of the shape the code gives them.
TypeOK ==
    /\ clock \in Instant
    /\ users \in [Users -> User]
    /\ sessions \in [Sessions -> Session]
    /\ confirmations \in Seq(Confirmation)
    /\ changes \in Seq(Change)
    /\ logins \in [Users -> SUBSET LoginRows]
    /\ calls \in [Calls -> Call]

\* "Locks the account until the transaction ends, so concurrent guesses are
\* checked one after another" (find_code_candidate): wrong codes from all the
\* sessions of an account stay within the budgets of a code and of a day.
GuessBudget ==
    /\ \A k \in DOMAIN confirmations : Failures(k) <= MaxFailuresPerCode
    /\ \A u \in Users : DayFailures(u, clock) <= MaxFailuresPerDay

\* The account's codes for the act that were typed right.
Spent(u, act) == {k \in DOMAIN confirmations :
                    /\ confirmations[k].user = u /\ confirmations[k].act = act
                    /\ confirmations[k].consumed /\ Failures(k) < MaxFailuresPerCode}

\* The calls that are past check_code for the act, on the account.
Acting(u, act) == {c \in Calls :
                     /\ calls[c].user = u /\ calls[c].act = act
                     /\ calls[c].step \in {"lookup", "link", "delete", "cascade"}}

Links(u, act) == {x \in DOMAIN changes : act = "change_email" /\ changes[x].user = u}

\* "a stolen access token alone can't change the email or delete the account"
\* (request_confirmation): every change link sent and every deletion under way
\* has a code of its own, emailed for that act, and no code serves twice.
OneActPerCode ==
    \A u \in Users, act \in Acts : users[u].email # None =>
        Cardinality(Acting(u, act)) + Cardinality(Links(u, act)) <= Cardinality(Spent(u, act))

\* "Moves the account to a new, now verified, address, only if it still uses
\* from_email" (users::change_email): an account leaves an address only by an
\* unused link sent when it had that address, for the address of the link, with
\* several links confirmed at once.
MovesFollowLinks ==
    [][\A u \in Users :
         users[u].email # None /\ users'[u].email \notin {None, users[u].email} =>
             \E x \in DOMAIN changes :
                 /\ changes[x].user = u
                 /\ changes[x].from = users[u].email
                 /\ changes[x].to = users'[u].email
                 /\ ~changes[x].consumed /\ changes'[x].consumed]_vars

\* "Deletes the account; its sessions, tokens and pending emails go with it"
\* (users::delete): no row of a deleted account is left, in any table, nor added by
\* a call that was authenticated, or had found the account, before.
DeletionIsComplete ==
    \A u \in Users : users[u].email = None =>
        /\ \A s \in Sessions : sessions[s].user # u
        /\ \A k \in DOMAIN confirmations : confirmations[k].user # u
        /\ \A x \in DOMAIN changes : changes[x].user # u
        /\ logins[u] = {}

\* Calls none of which can go on unless another of them ends.
Deadlocked(S) == S # {} /\ \A c \in S : WaitsFor(c) \cap S # {}

\* Calls do wait in circles: DELETE /me locks the account and then needs its rows,
\* while a change of address, a login, an exchange or a refresh locks one of those
\* and then needs the account.  There are no others: in every circle a deletion and
\* one call that holds a row of the same account wait for one another, so no two
\* calls that are not deletions ever end up so, and it is over as soon as the
\* database ends either of the two.
OnlyDeletionsDeadlock ==
    \A S \in SUBSET Calls : Deadlocked(S) =>
        \E c, d \in S :
            /\ calls[d].step = "cascade" /\ calls[c].step # "cascade"
            /\ d \in WaitsFor(c) /\ c \in WaitsFor(d)

=============================================================================
