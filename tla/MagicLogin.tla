----------------------------- MODULE MagicLogin -----------------------------
(***************************************************************************)
(* Logging in by email: a login flow, the magic-link emails asked for on   *)
(* it, the link or the 6-digit code that completes it                      *)
(* (bauth_server/src/routes/login.rs, routes/magic_link.rs, login_flow.rs, *)
(* magic_code.rs, queries/login_flows.rs, queries/magic_links.rs,          *)
(* queries/users.rs).                                                      *)
(*                                                                         *)
(* POST magic-link runs its statements one by one without a transaction;   *)
(* confirming a link or a code is one READ COMMITTED transaction.  One     *)
(* action is one statement with the code up to the next; the last writes   *)
(* of a transaction are one action with its COMMIT, because the rows they  *)
(* lock are not read before.  Uncommitted writes stay in the call's        *)
(* record.  The flow's redirect and PKCE data matter only when the         *)
(* authorization code is exchanged (module CodeExchange); rate limits by   *)
(* IP and by address only refuse calls, which any call may also suffer     *)
(* here by never being made.                                               *)
(***************************************************************************)
EXTENDS Integers, Sequences, FiniteSets, FiniteSetsExt

CONSTANTS
    Calls,              \* concurrent HTTP requests
    Flows,              \* identifiers of login_flows rows
    SignupFlows,        \* the flows of clients that allow sign-up
    Users,              \* identifiers of users rows
    Addresses,          \* email addresses, already lower(btrim(...))
    None,
    MaxEmailsPerFlow,   \* MAX_EMAILS_PER_FLOW
    MaxFailuresPerCode, \* MAX_FAILURES_PER_CODE
    MaxFailuresPerDay,  \* MAX_FAILURES_PER_DAY
    FlowTTL,            \* FLOW_TTL
    LinkTTL,            \* magic_code::CODE_TTL
    Day,                \* interval '1 day'
    MaxLinks,           \* bound: emails sent in all
    MaxClock            \* bound: the last instant of the clock

ASSUME ConstantsAssumption ==
    /\ {MaxEmailsPerFlow, MaxFailuresPerCode, MaxFailuresPerDay} \subseteq Nat \ {0}
    /\ SignupFlows \subseteq Flows
    /\ {FlowTTL, LinkTTL, Day, MaxLinks, MaxClock} \subseteq Nat
    /\ None \notin Nat
    /\ None \notin Flows \cup Users \cup Addresses
    \* Accounts have distinct addresses: no sign-up runs out of identifiers.
    /\ IsFiniteSet(Users) /\ Cardinality(Users) >= Cardinality(Addresses)

VARIABLES
    clock,
    flows,  \* bauth.login_flows, with the authorization codes issued for them
    links,  \* bauth.magic_links, oldest first
    users,  \* bauth.users
    calls   \* the HTTP requests in progress

vars == <<clock, flows, links, users, calls>>

-----------------------------------------------------------------------------
(* Rows and calls *)

Instant == 0 .. MaxClock

\* user # None: completed_at is set, and the code issued logs this user in.
\* codes counts the codes issued; that the table has room for one (UNIQUE
\* flow_id), a barrier behind complete's, is left out.
Flow == [created : BOOLEAN, requests : Nat, expires_at : Nat,
         user : Users \cup {None}, codes : Nat]

NoFlow == [created |-> FALSE, requests |-> 0, expires_at |-> 0, user |-> None, codes |-> 0]

\* user = None: the email is for a sign-up.
Link == [flow : Flows, user : Users \cup {None}, email : Addresses,
         created_at : Instant, expires_at : Nat, consumed : BOOLEAN,
         code_failures : Nat]

\* email = None: no such account.
User == [email : Addresses \cup {None}, verified : BOOLEAN, disabled : BOOLEAN]

NoUser == [email |-> None, verified |-> FALSE, disabled |-> FALSE]

\* The statement a call runs next.
Steps == {"idle", "count", "recipient", "send", "consume", "candidate", "wrong",
          "right", "user", "taken", "complete"}

\* kind: asking for an email, confirming a link, or submitting a code.  guess is
\* the link whose code was typed, 0 for a code that no email carries.  start is
\* the transaction's now().  creates: the account is inserted by this
\* transaction.  spent is a history variable: when the call arrived the link or
\* code could no longer log anybody in.
Call == [step : Steps, kind : {None, "email", "link", "code"},
         flow : Flows \cup {None}, email : Addresses \cup {None}, link : Nat,
         guess : Nat, user : Users \cup {None}, creates : BOOLEAN,
         start : Instant, expires_at : Nat, spent : BOOLEAN]

Idle == [step |-> "idle", kind |-> None, flow |-> None, email |-> None, link |-> 0,
         guess |-> 0, user |-> None, creates |-> FALSE, start |-> 0,
         expires_at |-> 0, spent |-> FALSE]

-----------------------------------------------------------------------------
(* Reading the tables *)

\* Fault: a completed flow is still pending.
PendingUntilExpiry(f, now) == flows[f].created /\ flows[f].expires_at > now

Pending(f, now) == /\ flows[f].created
                   /\ flows[f].user = None
                   /\ flows[f].expires_at > now

LinksOf(f) == {l \in DOMAIN links : links[l].flow = f}

\* ORDER BY created_at DESC LIMIT 1
Newest(f) == Max(LinksOf(f))

Failures(l) == links[l].code_failures

\* Wrong codes on the links of the address created in the day before now: each is
\* the n-th that was typed for a link.
WrongCodes(a, now) ==
    UNION {{l} \X (1 .. Failures(l)) : l \in {l \in DOMAIN links :
                                                /\ links[l].email = a
                                                /\ links[l].created_at > now - Day}}

\* sum(code_failures)
DayFailures(a, now) == Cardinality(WrongCodes(a, now))

AccountOf(a) == {u \in Users : users[u].email = a}

\* Fault: the row is read FOR SHARE first and the lock upgraded later.
LinkShared(c, l) ==
    \E d \in Calls \ {c} :
        calls[d].link = l /\ calls[d].step \in {"consume", "right", "user", "taken", "complete"}

\* Row lock on a link: taken by consume and consume_by_id, kept to the end.
LinkLocked(c, l) ==
    \E d \in Calls \ {c} : calls[d].link = l /\ calls[d].step \in {"user", "taken", "complete"}

\* Fault: attempts on one address are not serialized.
AddressNotLocked(c, a) == FALSE

\* pg_advisory_xact_lock on the address: taken by find_code_candidate.
AddressLocked(c, a) ==
    \E d \in Calls \ {c} : /\ calls[d].kind = "code"
                           /\ calls[d].email = a
                           /\ calls[d].step \in {"wrong", "right", "user", "taken", "complete"}

\* Another transaction has inserted an account with this address and not ended.
BeingCreated(c, a) ==
    \E d \in Calls \ {c} : calls[d].creates /\ calls[d].email = a

\* The link can no longer log anybody in: past its time, its flow completed, or
\* its account disabled.
Spent(l) ==
    \/ links[l].expires_at <= clock
    \/ flows[links[l].flow].user # None
    \/ links[l].user # None /\ users[links[l].user].disabled

Goto(c, step) == calls' = [calls EXCEPT ![c].step = step]

Finish(c) == calls' = [calls EXCEPT ![c] = Idle]

-----------------------------------------------------------------------------
(* POST /flows/login *)

\* The client is known, and its redirect URI and challenge are acceptable.
CreateFlow(f) ==
    /\ ~flows[f].created
    /\ flows' = [flows EXCEPT ![f] = [NoFlow EXCEPT !.created = TRUE,
                                                    !.expires_at = clock + FlowTTL]]
    /\ UNCHANGED <<clock, links, users, calls>>

-----------------------------------------------------------------------------
(* POST /flows/login/{flow_id}/magic-link *)

Asking == {c \in Calls : calls[c].kind = "email"}

\* The early checks pass, and the email's expiry is fixed.
AskForEmail(c, f, a) ==
    /\ calls[c].step = "idle"
    /\ Len(links) + Cardinality(Asking) < MaxLinks
    /\ Pending(f, clock)
    /\ flows[f].requests < MaxEmailsPerFlow
    /\ calls' = [calls EXCEPT ![c] =
                   [Idle EXCEPT !.step = "count", !.kind = "email", !.flow = f,
                                !.email = a, !.expires_at = clock + LinkTTL]]
    /\ UNCHANGED <<clock, flows, links, users>>

\* Fault: the count was checked when the request arrived and is not checked again.
CountUnchecked(c) ==
    LET f == calls[c].flow IN
    /\ calls[c].step = "count"
    /\ flows' = [flows EXCEPT ![f].requests = @ + 1,
                              ![f].expires_at = Max({@, calls[c].expires_at})]
    /\ Goto(c, "recipient")
    /\ UNCHANGED <<clock, links, users>>

\* Fault: the email does not keep the flow alive.
CountOnly(c) ==
    LET f == calls[c].flow IN
    /\ calls[c].step = "count"
    /\ Pending(f, clock) /\ flows[f].requests < MaxEmailsPerFlow
    /\ flows' = [flows EXCEPT ![f].requests = @ + 1]
    /\ Goto(c, "recipient")
    /\ UNCHANGED <<clock, links, users>>

\* count_magic_link_request: the UPDATE checks again, and keeps the flow alive.
CountRequest(c) ==
    LET f == calls[c].flow IN
    /\ calls[c].step = "count"
    /\ IF Pending(f, clock) /\ flows[f].requests < MaxEmailsPerFlow
       THEN /\ flows' = [flows EXCEPT
                  ![f].requests = @ + 1,
                  ![f].expires_at = Max({@, calls[c].expires_at})]
            /\ Goto(c, "recipient")
       ELSE Finish(c) /\ UNCHANGED flows
    /\ UNCHANGED <<clock, links, users>>

\* find_by_email: an account that is not disabled, a sign-up, or nobody.
FindRecipient(c) ==
    LET found == AccountOf(calls[c].email) IN
    /\ calls[c].step = "recipient"
    /\ \/ \E u \in found : /\ ~users[u].disabled
                           /\ calls' = [calls EXCEPT ![c].step = "send", ![c].user = u]
       \/ found = {} /\ calls[c].flow \in SignupFlows /\ Goto(c, "send")
       \/ found = {} /\ calls[c].flow \notin SignupFlows /\ Finish(c)
       \/ \E u \in found : users[u].disabled /\ Finish(c)
    /\ UNCHANGED <<clock, flows, links, users>>

\* magic_links::create; the mail goes out in the background.
CreateLink(c) ==
    /\ calls[c].step = "send"
    /\ links' = Append(links, [flow |-> calls[c].flow, user |-> calls[c].user,
                               email |-> calls[c].email, created_at |-> clock,
                               expires_at |-> calls[c].expires_at,
                               consumed |-> FALSE, code_failures |-> 0])
    /\ Finish(c)
    /\ UNCHANGED <<clock, flows, users>>

-----------------------------------------------------------------------------
(* POST /magic-link/confirm *)

ConfirmLink(c, l) ==
    /\ calls[c].step = "idle"
    /\ calls' = [calls EXCEPT ![c] =
                   [Idle EXCEPT !.step = "consume", !.kind = "link",
                                !.flow = links[l].flow, !.email = links[l].email,
                                !.link = l, !.start = clock, !.spent = Spent(l)]]
    /\ UNCHANGED <<clock, flows, links, users>>

\* magic_links::consume waits for the row, then checks it as last committed.
Consume(c) ==
    LET l == calls[c].link IN
    /\ calls[c].step = "consume"
    /\ ~LinkLocked(c, l)
    /\ IF ~links[l].consumed /\ links[l].expires_at > calls[c].start
       THEN Goto(c, "user")
       ELSE Finish(c)
    /\ UNCHANGED <<clock, flows, links, users>>

-----------------------------------------------------------------------------
(* POST /flows/login/{flow_id}/magic-code *)

\* The first statement of find_code_candidate reads the address of the newest
\* email, which may not be the newest any more once the address is locked.
SubmitCode(c, f, guess) ==
    /\ calls[c].step = "idle"
    /\ LinksOf(f) # {}
    /\ calls' = [calls EXCEPT ![c] =
                   [Idle EXCEPT !.step = "candidate", !.kind = "code", !.flow = f,
                                !.email = links[Newest(f)].email, !.guess = guess,
                                !.start = clock,
                                !.spent = guess # 0 /\ \/ Spent(guess)
                                                       \/ links[guess].flow # f
                                                       \/ guess # Newest(f)
                                                       \/ Failures(guess) >= MaxFailuresPerCode]]
    /\ UNCHANGED <<clock, flows, links, users>>

\* The link the typed code is checked against.
Candidate(c, l) ==
    /\ links[l].email = calls[c].email
    /\ ~links[l].consumed
    /\ links[l].expires_at > calls[c].start
    /\ Failures(l) < MaxFailuresPerCode
    /\ DayFailures(calls[c].email, calls[c].start) < MaxFailuresPerDay

\* The address lock, the candidate read under it, and the check of the code.
FindCodeCandidate(c) ==
    LET l == Newest(calls[c].flow) IN
    /\ calls[c].step = "candidate"
    /\ ~AddressLocked(c, calls[c].email)
    /\ IF Candidate(c, l)
       THEN calls' = [calls EXCEPT
                ![c].step = IF calls[c].guess = l THEN "right" ELSE "wrong",
                ![c].link = l]
       ELSE Finish(c)
    /\ UNCHANGED <<clock, flows, links, users>>

\* record_code_failure waits for the row, counts, and sets consumed_at either
\* way: now() at the last failure, NULL before.  Committed at once.
RecordCodeFailure(c) ==
    LET l == calls[c].link IN
    /\ calls[c].step = "wrong"
    /\ ~LinkLocked(c, l)
    /\ links' = [links EXCEPT ![l].code_failures = @ + 1,
                              ![l].consumed = Failures(l) + 1 >= MaxFailuresPerCode]
    /\ Finish(c)
    /\ UNCHANGED <<clock, flows, users>>

\* consume_by_id waits for the row and takes it whatever its state.
ConsumeById(c) ==
    /\ calls[c].step = "right"
    /\ ~LinkLocked(c, calls[c].link)
    /\ Goto(c, "user")
    /\ UNCHANGED <<clock, flows, links, users>>

-----------------------------------------------------------------------------
(* log_in, shared by the link and the code *)

\* Fault: disabled_at is not looked at.
FindDisabledUser(c) ==
    LET u == links[calls[c].link].user IN
    /\ calls[c].step = "user"
    /\ u # None
    /\ IF users[u].email = calls[c].email
       THEN calls' = [calls EXCEPT ![c].step = "complete", ![c].user = u]
       ELSE Finish(c)
    /\ UNCHANGED <<clock, flows, links, users>>

\* The account the email was sent for, if it is still at that address.
FindUser(c) ==
    LET u == links[calls[c].link].user IN
    /\ calls[c].step = "user"
    /\ u # None
    /\ IF ~users[u].disabled /\ users[u].email = calls[c].email
       THEN calls' = [calls EXCEPT ![c].step = "complete", ![c].user = u]
       ELSE Finish(c)
    /\ UNCHANGED <<clock, flows, links, users>>

\* A sign-up: INSERT ... ON CONFLICT DO NOTHING waits for a transaction that is
\* inserting the same address, and adds nothing if there is an account.
CreateUser(c) ==
    LET found == AccountOf(calls[c].email) IN
    /\ calls[c].step = "user"
    /\ links[calls[c].link].user = None
    /\ ~BeingCreated(c, calls[c].email)
    /\ \/ \E u \in Users :
            /\ found = {} /\ users[u] = NoUser
            /\ \A d \in Calls : ~(calls[d].creates /\ calls[d].user = u)
            /\ calls' = [calls EXCEPT ![c].step = "complete", ![c].user = u,
                                      ![c].creates = TRUE]
       \/ found # {} /\ Goto(c, "taken")
    /\ UNCHANGED <<clock, flows, links, users>>

\* find_by_email: the account that has the address, unless it is disabled or has
\* moved away since the INSERT.
FindByEmail(c) ==
    LET found == AccountOf(calls[c].email) IN
    /\ calls[c].step = "taken"
    /\ \/ \E u \in found : /\ ~users[u].disabled
                           /\ calls' = [calls EXCEPT ![c].step = "complete", ![c].user = u]
       \/ (\A u \in found : users[u].disabled) /\ Finish(c)
    /\ UNCHANGED <<clock, flows, links, users>>

\* mark_email_verified, which matches no row if the address moved meanwhile.
MarkEmailVerified(c, u) ==
    users' = [users EXCEPT ![u] =
        IF calls[c].creates
        THEN [NoUser EXCEPT !.email = calls[c].email, !.verified = TRUE]
        ELSE [@ EXCEPT !.verified = users[u].verified \/ users[u].email = calls[c].email]]

\* mark_email_verified, login_flow::complete and COMMIT; everything is rolled
\* back if the flow is not pending any more.
Complete(c) ==
    LET call == calls[c] IN
    /\ call.step = "complete"
    /\ IF Pending(call.flow, call.start)
       THEN /\ flows' = [flows EXCEPT ![call.flow].user = call.user, ![call.flow].codes = @ + 1]
            /\ links' = [links EXCEPT ![call.link].consumed = TRUE]
            /\ MarkEmailVerified(c, call.user)
       ELSE UNCHANGED <<flows, links, users>>
    /\ Finish(c)
    /\ UNCHANGED clock

\* A database error, or a caller that goes away.
Abort(c) ==
    /\ calls[c].step # "idle"
    /\ Finish(c)
    /\ UNCHANGED <<clock, flows, links, users>>

-----------------------------------------------------------------------------
(* The rest of the server, and the operator *)

\* POST /email-change/confirm: the account moves to an address nobody has.
ChangeEmail(u, a) ==
    /\ users[u].email # None
    /\ ~users[u].disabled
    /\ AccountOf(a) = {}
    /\ \A c \in Calls : ~(calls[c].creates /\ calls[c].email = a)
    /\ users' = [users EXCEPT ![u].email = a, ![u].verified = TRUE]
    /\ UNCHANGED <<clock, flows, links, calls>>

\* The operator sets disabled_at; no route of the server does.
DisableUser(u) ==
    /\ users[u].email # None
    /\ ~users[u].disabled
    /\ users' = [users EXCEPT ![u].disabled = TRUE]
    /\ UNCHANGED <<clock, flows, links, calls>>

Tick ==
    /\ clock < MaxClock
    /\ clock' = clock + 1
    /\ UNCHANGED <<flows, links, users, calls>>

-----------------------------------------------------------------------------
\* Accounts may exist from the start, imported and not verified.
Init ==
    /\ clock = 0
    /\ flows = [f \in Flows |-> NoFlow]
    /\ links = << >>
    /\ \E imported \in SUBSET Addresses :
         users \in {db \in [Users -> User] :
             /\ \A u \in Users : ~db[u].verified /\ ~db[u].disabled
             /\ \A u, v \in Users : u # v /\ db[u].email = db[v].email => db[u].email = None
             /\ {db[u].email : u \in Users} \ {None} = imported}
    /\ calls = [c \in Calls |-> Idle]

Handle(c) ==
    \/ CountRequest(c)
    \/ FindRecipient(c)
    \/ CreateLink(c)
    \/ Consume(c)
    \/ FindCodeCandidate(c)
    \/ RecordCodeFailure(c)
    \/ ConsumeById(c)
    \/ FindUser(c)
    \/ CreateUser(c)
    \/ FindByEmail(c)
    \/ Complete(c)

Arrive(c) ==
    \/ \E f \in Flows, a \in Addresses : AskForEmail(c, f, a)
    \/ \E l \in DOMAIN links : ConfirmLink(c, l)
    \/ \E f \in Flows, guess \in {0} \cup DOMAIN links : SubmitCode(c, f, guess)

Next ==
    \/ \E f \in Flows : CreateFlow(f)
    \/ \E c \in Calls : Arrive(c) \/ Handle(c) \/ Abort(c)
    \/ \E u \in Users, a \in Addresses : ChangeEmail(u, a)
    \/ \E u \in Users : DisableUser(u)
    \/ Tick

Spec == Init /\ [][Next]_vars

\* Waiters of a row and of an advisory lock are queued; the server polls every
\* live request.
FairSpec == Spec /\ \A c \in Calls : SF_vars(Handle(c))

-----------------------------------------------------------------------------
(* Properties *)

\* Every variable holds rows and calls of the shape the code gives them.
TypeOK ==
    /\ clock \in Instant
    /\ flows \in [Flows -> Flow]
    /\ links \in Seq(Link)
    /\ users \in [Users -> User]
    /\ calls \in [Calls -> Call]

\* Wrong codes are rationed per address, across flows and emails and whatever
\* runs at once (find_code_candidate): never more than MAX_FAILURES_PER_CODE on
\* an email, nor MAX_FAILURES_PER_DAY on the emails of an address' last day.
GuessBudget ==
    /\ \A l \in DOMAIN links : Failures(l) <= MaxFailuresPerCode
    /\ \A a \in Addresses : DayFailures(a, clock) <= MaxFailuresPerDay

\* A flow never has more than MAX_EMAILS_PER_FLOW emails, counting the ones
\* about to go out, though asking for one is not a transaction
\* (count_magic_link_request).
EmailsAreCapped ==
    \A f \in Flows :
        Cardinality(LinksOf(f))
            + Cardinality({c \in Calls : calls[c].flow = f /\ calls[c].step \in {"recipient", "send"}})
                <= MaxEmailsPerFlow

\* "The flow lives as long as the email [...] or a link used at minute 14 would
\* find it expired" (routes/magic_link.rs): no flow expires before one of its
\* links, in whatever order the requests that extend it are counted.
FlowOutlivesItsEmails ==
    \A l \in DOMAIN links : flows[links[l].flow].expires_at >= links[l].expires_at

\* A flow completes once: two links of the flow, its link and its code, or a link
\* that a wrong code has made usable again, confirmed at the same moment or one
\* after the other, by one account or by two, give one authorization code, and it
\* stays that of the account it was issued for (login_flows::complete).
FlowCompletesOnce ==
    [][\A f \in Flows : flows[f].codes > 0 =>
         /\ flows'[f].codes = flows[f].codes
         /\ flows'[f].user = flows[f].user]_vars

\* A link or code that came too late (expired, its flow completed, its account
\* disabled; for a code, not the newest email's or out of attempts) never
\* completes a flow.
SpentNeverLogsIn ==
    [][\A c \in Calls :
         calls[c].spent /\ calls'[c] # calls[c] => flows' = flows]_vars

\* Every call gets its answer: the waits for rows, addresses and accounts being
\* created never close a circle.
CallsComplete ==
    \A c \in Calls : calls[c].step # "idle" ~> calls[c].step = "idle"
=============================================================================
