----------------------------- MODULE SdkSession -----------------------------
(***************************************************************************)
(* The browser session of the SDK: refresh, accessToken, save, logout, the *)
(* fetcher and the openapi-fetch middleware (bauth_sdk/src/session.ts,     *)
(* middleware.ts, stores.ts), in tabs that share one store, against bauth  *)
(* over a network that delays and loses requests and answers.              *)
(*                                                                         *)
(* One action is what a tab runs between two events of the network.  The   *)
(* stores of stores.ts that a browser uses, memory and localStorage,       *)
(* answer at once, so what a tab reads and the request it sends with it    *)
(* are one turn, and so are an answer and the write of its tokens.  On the *)
(* side of bauth a refresh is one step, the whole handler; its statements  *)
(* are module RefreshTokens.                                               *)
(***************************************************************************)
EXTENDS Integers, Sequences

CONSTANTS
    Tabs,       \* each has its own createSession
    Calls,      \* calls of a session's functions, in any tab
    Sessions,   \* sessions of bauth
    None,       \* undefined, and "no row"
    Threw,      \* a promise that rejects
    Grace,      \* REFRESH_REUSE_GRACE
    AccessTTL,  \* lifetime of an access token
    Margin,     \* expiryMarginMs
    MaxTokens,  \* bound: the rows of refresh_tokens
    MaxClock    \* bound: the last instant of the clock

ASSUME ConstantsAssumption ==
    /\ {Grace, AccessTTL, Margin, MaxTokens, MaxClock} \subseteq Nat
    /\ Threw # None
    /\ None \notin [token : Nat, expires : Nat]
    /\ {None, Threw} \cap (Nat \cup Sessions \cup Tabs \cup Calls) = {}

VARIABLES
    clock,
    store,    \* the TokenStore the tabs share
    calls,    \* the calls in progress
    tokens,   \* bauth.refresh_tokens, in the order they were issued
    over,     \* the sessions that are revoked, expired or of a disabled account
    history   \* what happened, for the properties only

vars == <<clock, store, calls, tokens, over, history>>

-----------------------------------------------------------------------------
(* The store, the calls and the tables *)

Instant == 0 .. MaxClock

\* A refresh token, and the access token that came in the same answer.
Token == 1 .. MaxTokens

\* StoredTokens; expires is expiresAt, reckoned by the browser.
Stored == [token : Token, expires : Nat]

\* A refresh_tokens row; parent = None: the token of a login.  exp is the exp
\* claim of the access token issued with it.
Row == [session : Sessions, parent : Token \cup {None},
        rotated_at : Instant \cup {None}, superseded : BOOLEAN, exp : Nat]

Kinds == {"fetcher", "middleware", "refresh", "logout"}

\* Where a call stands: waiting for the promise of another call (joined), its
\* request to bauth on the way (ask) or the answer (reply), the app's request on
\* the way (send) or its replay, about to call onUnauthorized (report); a logout
\* whose request to bauth is on the way (revoke).
Steps == {"idle", "joined", "ask", "reply", "send", "replay", "report", "revoke"}

\* had is what the store held at first, sent the access token of the app's
\* request, with the refresh token a call of bauth carries and since when it
\* was read, answer what bauth replied, owner the call whose refresh is shared.
\* retrying: the app's request got a 401.  A request in flight that belongs to no
\* tab is one whose caller gave up: bauth may still handle it.
Call == [kind : Kinds \cup {None}, tab : Tabs \cup {None}, step : Steps,
         had : Stored \cup {None}, sent : Token \cup {None},
         with : Token \cup {None}, since : Instant, answer : Token \cup {None},
         owner : Calls \cup {None}, retrying : BOOLEAN]

Idle == [kind |-> None, tab |-> None, step |-> "idle", had |-> None, sent |-> None,
         with |-> None, since |-> 0, answer |-> None, owner |-> None,
         retrying |-> FALSE]

\* trouble: an answer to a refresh got lost, or a refresh took more than half the
\* grace period from its read of the store to its write.  overlap: two refreshes
\* were on the way at once, of two tabs or of one that had given up on the first.
History == [trouble : BOOLEAN, overlap : BOOLEAN]

SessionOf(t) == tokens[t].session

Children(t) == {c \in DOMAIN tokens : tokens[c].parent = t}

InFlight(c) == calls[c].step \in {"ask", "reply"}

\* isExpiring
IsExpiring(stored, margin) == stored.expires - clock < margin

Update(c, call) == calls' = [calls EXCEPT ![c] = call]

-----------------------------------------------------------------------------
(* refresh() *)

\* Fault: every caller sends a request of its own.
NotShared(tab) == {}

\* The call whose request the tab's `refreshing` promise stands for, if any.
\* The middleware's own promise settles with it.
Refreshing(tab) == {c \in Calls : calls[c].tab = tab /\ InFlight(c)}

Send(call, token) == [Idle EXCEPT !.kind = call.kind, !.tab = call.tab,
                                  !.step = "send", !.sent = token]

\* Fault: a refresh that failed is taken for a session that ended.
ContinueAnyhow(call, value) ==
    IF call.retrying /\ value \in Token
    THEN [call EXCEPT !.step = "replay", !.sent = value]
    ELSE IF call.retrying THEN [call EXCEPT !.step = "report"]
    ELSE IF call.kind # "refresh" /\ value \in Token THEN Send(call, value)
    ELSE Idle

\* What a call does with the value refresh() resolves to, or when it rejects:
\* after a 401 ...
Retry(call, value) ==
    CASE value \in Token -> [call EXCEPT !.step = "replay", !.sent = value]
      \* Nothing left to refresh with: onUnauthorized.
      [] value = None -> [call EXCEPT !.step = "report"]
      \* bauth unreachable: the 401 (fetcher) or the error (middleware) is returned.
      [] value = Threw -> Idle

\* What is sent although the refresh brought no token: the middleware's
\* `?? accessToken`; in the fetcher, after an error, "the current token is still
\* worth sending until it really expires".
WorthSending(call, value) ==
    \/ call.kind = "middleware"
    \/ call.kind = "fetcher" /\ value = Threw /\ ~IsExpiring(call.had, 0)

\* ... and before the first send; without a token the fetcher's request goes out
\* without Authorization.
Continue(call, value) ==
    IF call.retrying THEN Retry(call, value)
    ELSE IF call.kind = "refresh" THEN Idle
    ELSE IF value \in Token THEN Send(call, value)
    ELSE IF WorthSending(call, value) THEN Send(call, call.had.token)
    ELSE Idle

\* The promise settles: its caller and those who share it go on.
Settled(c, value) ==
    [d \in Calls |->
        IF d = c \/ (calls[d].step = "joined" /\ calls[d].owner = c)
        THEN Continue([calls[d] EXCEPT !.with = None, !.since = 0,
                                       !.answer = None, !.owner = None], value)
        ELSE calls[d]]

\* refreshing ??= ...: share the refresh that is under way in this tab, or read
\* the store and, if it holds tokens, ask bauth.
CallRefresh(c, call) ==
    LET others == Refreshing(call.tab) IN
    \/ /\ \E o \in others : Update(c, [call EXCEPT !.step = "joined", !.owner = o])
       /\ UNCHANGED history
    \/ /\ others = {} /\ store = None
       /\ Update(c, Continue(call, None))
       /\ UNCHANGED history
    \/ /\ others = {} /\ store # None
       /\ Update(c, [call EXCEPT !.step = "ask", !.with = store.token, !.since = clock])
       /\ history' = [history EXCEPT !.overlap = @ \/
             \E d \in Calls : InFlight(d) /\ calls[d].tab # call.tab]

-----------------------------------------------------------------------------
(* bauth: POST /oauth/token with grant_type=refresh_token, one call at a time *)

PastGrace(t) == clock - tokens[t].rotated_at > Grace

UsedSuccessor(t) == \E n \in Children(t) : tokens[n].rotated_at # None

\* Replaced by a retry of its parent, or a retry of a token whose successor was used.
LooksStolen(t) ==
    \/ tokens[t].superseded
    \/ tokens[t].rotated_at # None /\ PastGrace(t) /\ UsedSuccessor(t)

NewRow(s, parent) == [session |-> s, parent |-> parent, rotated_at |-> None,
                      superseded |-> FALSE, exp |-> clock + AccessTTL]

\* The rows after t was presented: its first use, a second tab within the grace
\* period, or a retry past it, which replaces the successors nobody used.
Presented(t) ==
    CASE tokens[t].rotated_at = None -> [tokens EXCEPT ![t].rotated_at = clock]
      [] tokens[t].rotated_at # None /\ ~PastGrace(t) -> tokens
      [] OTHER -> [n \in DOMAIN tokens |->
                     IF n \in Children(t) THEN [tokens[n] EXCEPT !.superseded = TRUE]
                                          ELSE tokens[n]]

HandleRefresh(c) ==
    LET t == calls[c].with IN
    /\ calls[c].step = "ask"
    /\ SessionOf(t) \notin over
    /\ ~LooksStolen(t)
    /\ Len(tokens) < MaxTokens
    /\ tokens' = Append(Presented(t), NewRow(SessionOf(t), t))
    /\ Update(c, [calls[c] EXCEPT !.step = "reply", !.answer = Len(tokens')])
    /\ UNCHANGED <<clock, store, over, history>>

\* invalid_grant: the session is over, or ends here because the token looks stolen.
RefuseRefresh(c) ==
    LET t == calls[c].with IN
    /\ calls[c].step = "ask"
    /\ SessionOf(t) \in over \/ LooksStolen(t)
    /\ over' = over \cup {SessionOf(t)}
    /\ Update(c, [calls[c] EXCEPT !.step = "reply"])
    /\ UNCHANGED <<clock, store, tokens, history>>

\* Revoked from another device, expired, or the account is disabled.
EndSession(s) ==
    /\ s \notin over
    /\ \E t \in DOMAIN tokens : SessionOf(t) = s
    /\ over' = over \cup {s}
    /\ UNCHANGED <<clock, store, calls, tokens, history>>

-----------------------------------------------------------------------------
(* The answer *)

\* toStored
ToStored(t) == [token |-> t, expires |-> clock + AccessTTL]

\* Tokens: written to the store, and the access token to the callers.
StoreTokens(c) ==
    /\ calls[c].step = "reply"
    /\ calls[c].tab # None
    /\ calls[c].answer # None
    /\ store' = ToStored(calls[c].answer)
    /\ calls' = Settled(c, calls[c].answer)
    /\ UNCHANGED <<clock, tokens, over, history>>

\* invalid_grant: store.write(undefined), and undefined to the callers.
ForgetTokens(c) ==
    /\ calls[c].step = "reply"
    /\ calls[c].tab # None
    /\ calls[c].answer = None
    /\ store' = None
    /\ calls' = Settled(c, None)
    /\ UNCHANGED <<clock, tokens, over, history>>

\* Fault: any error ends the session.
ForgetOnError(c) ==
    /\ InFlight(c)
    /\ store' = None
    /\ calls' = Settled(c, None)
    /\ history' = [history EXCEPT !.trouble = @ \/ calls[c].step = "reply"]
    /\ UNCHANGED <<clock, tokens, over>>

\* Any other error: bauth never saw the request or failed, or its answer got
\* lost, as it does when nobody waits for it any more.
FailRefresh(c) ==
    /\ InFlight(c)
    /\ calls' = Settled(c, Threw)
    /\ history' = [history EXCEPT !.trouble = @ \/ calls[c].step = "reply"]
    /\ UNCHANGED <<clock, store, tokens, over>>

\* The client gives up on a request that is still on its way: it goes on as e,
\* which no tab waits for.
Abandon(c, e) ==
    /\ calls[c].step = "ask"
    /\ calls[c].tab # None
    /\ calls[e].step = "idle"
    /\ calls' = [Settled(c, Threw) EXCEPT ![e] =
                   [Idle EXCEPT !.kind = "refresh", !.step = "ask", !.with = calls[c].with,
                                !.since = calls[c].since]]
    /\ UNCHANGED <<clock, store, tokens, over, history>>

-----------------------------------------------------------------------------
(* The fetcher, the middleware and refresh() *)

Refresh(c, tab) ==
    /\ calls[c].step = "idle"
    /\ CallRefresh(c, [Idle EXCEPT !.kind = "refresh", !.tab = tab])
    /\ UNCHANGED <<clock, store, tokens, over>>

\* accessToken() in the fetcher, onRequest in the middleware: a token about to
\* expire is refreshed first.  Without tokens the request goes out as it is; the
\* middleware looks at the answer even so.
Begin(c, kind, tab) ==
    LET call == [Idle EXCEPT !.kind = kind, !.tab = tab, !.had = store] IN
    /\ calls[c].step = "idle"
    /\ \/ /\ store # None
          /\ IsExpiring(store, Margin)
          /\ CallRefresh(c, call)
       \/ /\ store # None
          /\ ~IsExpiring(store, Margin)
          /\ Update(c, Send(call, store.token))
          /\ UNCHANGED history
       \/ /\ store = None /\ kind = "middleware"
          /\ Update(c, Send(call, None))
          /\ UNCHANGED history
    /\ UNCHANGED <<clock, store, tokens, over>>

\* Any answer but 401, or none.
Accepted(c) ==
    /\ calls[c].step \in {"send", "replay"}
    /\ Update(c, Idle)
    /\ UNCHANGED <<clock, store, tokens, over, history>>

\* An API answers 401 to a request without a token, to an expired one and, if it
\* asks bauth, to one whose session is over.
Refuses(t) == t # None => tokens[t].exp <= clock \/ SessionOf(t) \in over

\* Another request may have refreshed meanwhile: use its token.
Newer(call) == call.kind = "fetcher" /\ store # None /\ store.token # call.sent

\* The first 401: refresh, or take the newer token, and replay.
Unauthorized(c) ==
    LET call == [calls[c] EXCEPT !.retrying = TRUE, !.sent = None] IN
    /\ calls[c].step = "send"
    /\ Refuses(calls[c].sent)
    /\ \/ /\ Newer(calls[c])
          /\ Update(c, Retry(call, store.token))
          /\ UNCHANGED history
       \/ ~Newer(calls[c]) /\ CallRefresh(c, call)
    /\ UNCHANGED <<clock, store, tokens, over>>

\* A 401 to the replay.
StillUnauthorized(c) ==
    /\ calls[c].step = "replay"
    /\ Refuses(calls[c].sent)
    /\ Update(c, [calls[c] EXCEPT !.step = "report"])
    /\ UNCHANGED <<clock, store, tokens, over, history>>

\* onUnauthorized
Report(c) ==
    /\ calls[c].step = "report"
    /\ Update(c, Idle)
    /\ UNCHANGED <<clock, store, tokens, over, history>>

-----------------------------------------------------------------------------
(* save() and logout() *)

\* save: the tokens of a login that has just been exchanged.
Save(s) ==
    /\ \A t \in DOMAIN tokens : SessionOf(t) # s
    /\ Len(tokens) < MaxTokens
    /\ tokens' = Append(tokens, NewRow(s, None))
    /\ store' = ToStored(Len(tokens'))
    /\ UNCHANGED <<clock, calls, over, history>>

\* logout() reads the store and clears it ...
Logout(c) ==
    /\ calls[c].step = "idle"
    /\ store # None
    /\ store' = None
    /\ Update(c, [Idle EXCEPT !.kind = "logout", !.step = "revoke", !.had = store])
    /\ UNCHANGED <<clock, tokens, over, history>>

\* ... and has the session revoked: best effort.
RevokeAtBauth(c) ==
    /\ calls[c].step = "revoke"
    /\ over' \in {over, over \cup {SessionOf(calls[c].had.token)}}
    /\ Update(c, Idle)
    /\ UNCHANGED <<clock, store, tokens, history>>

-----------------------------------------------------------------------------
Tick ==
    /\ clock < MaxClock
    /\ clock' = clock + 1
    /\ history' = [history EXCEPT !.trouble = @ \/
            \E c \in Calls : InFlight(c) /\ 2 * (clock' - calls[c].since) > Grace]
    /\ UNCHANGED <<store, calls, tokens, over>>

Init ==
    /\ clock = 0
    /\ store = None
    /\ calls = [c \in Calls |-> Idle]
    /\ tokens = <<>>
    /\ over = {}
    /\ history = [trouble |-> FALSE, overlap |-> FALSE]

\* The steps a call takes once it has begun; the network answers or fails.
GoOn(c) ==
    \/ HandleRefresh(c) \/ RefuseRefresh(c)
    \/ StoreTokens(c) \/ ForgetTokens(c) \/ FailRefresh(c)
    \/ \E e \in Calls : Abandon(c, e)
    \/ Accepted(c) \/ Unauthorized(c) \/ StillUnauthorized(c) \/ Report(c)
    \/ RevokeAtBauth(c)

Next ==
    \/ \E c \in Calls, tab \in Tabs : Refresh(c, tab)
    \/ \E c \in Calls, kind \in {"fetcher", "middleware"}, tab \in Tabs : Begin(c, kind, tab)
    \/ \E c \in Calls : Logout(c) \/ GoOn(c)
    \/ \E s \in Sessions : Save(s) \/ EndSession(s)
    \/ Tick

Spec == Init /\ [][Next]_vars

-----------------------------------------------------------------------------
(* Properties *)

\* Every variable holds tokens, rows and calls of the shape the code gives them.
TypeOK ==
    /\ clock \in Instant
    /\ store \in Stored \cup {None}
    /\ calls \in [Calls -> Call]
    /\ tokens \in Seq(Row) /\ Len(tokens) <= MaxTokens
    /\ over \in SUBSET Sessions
    /\ history \in History

\* "Concurrent calls share one request: bauth rotates refresh tokens, and
\* replaying a rotated one ends the session." (session.ts): bauth only takes its
\* own user for a thief when two refreshes were on the way at once, in two tabs or
\* because a tab gave up on one that bauth handled later, and one of them was
\* slower than half the grace period or an answer got lost.
NoFalseAlarm ==
    \A c \in Calls : calls[c].step = "ask" /\ LooksStolen(calls[c].with) =>
        history.overlap /\ history.trouble

\* "Only invalid_grant ends the session - offline or bauth down keeps it."
\* (bauth_sdk/README.md): but for logout(), the store is only emptied by a
\* refresh whose session is over at bauth.
OnlyDeadSessionsAreForgotten ==
    [][store # None /\ store' = None =>
          \E c \in Calls :
             \/ calls[c].step = "idle" /\ calls'[c].step = "revoke"
             \/ InFlight(c) /\ ~InFlight(c)' /\ SessionOf(calls[c].with) \in over]_vars

\* "The session fetcher reports an ended session, not an unreachable bauth"
\* (test/auth.test.js): onUnauthorized is called when the store is empty, or when
\* the API refused the replay too; whoever of the callers that share a refresh.
UnauthorizedIsDeserved ==
    [][\A c \in Calls : calls[c].step # "report" /\ calls'[c].step = "report" =>
          store' = None \/ calls[c].step = "replay"]_vars

\* "undefined when logged out or when the session is over" (session.ts): only a
\* login puts tokens into an empty store.
OnlyLoginsFillTheStore ==
    [][store = None /\ store' # None => tokens'[store'.token].parent = None]_vars

=============================================================================
