----------------------------- MODULE RateLimits -----------------------------
(***************************************************************************)
(* The in-memory rate limits (bauth_server/src/rate_limit.rs) and the      *)
(* handlers that spend them: whose budget a request is charged to, and     *)
(* what is left of it while other requests and the cleanup run.            *)
(*                                                                         *)
(* One process: "Budgets live in this process: with several instances,     *)
(* each enforces its own."  The buckets are those of the governor crate.   *)
(*                                                                         *)
(* An IP address is a family ("v4", "v6", or "mapped": an IPv4 address     *)
(* written as an IPv6 one), the part that names its owner and the part the *)
(* owner chooses, which only IPv6 has.                                     *)
(***************************************************************************)
EXTENDS Integers, SequencesExt

CONSTANTS
    Callers,      \* who sends requests: end users, and the proxies themselves
    Owns,         \* the IP addresses of each caller
    Trusted,      \* trusted_proxies
    Mailboxes,    \* who receives emails
    Spellings,    \* ways to write an address that the database takes for the same one
    Garbage,      \* a hop that is not an IP address
    None,
    Burst,        \* for each limiter, its burst
    Period,       \* for each limiter, replenish_one_every
    MaxForged,    \* bound: hops a caller puts in X-Forwarded-For itself
    MaxProxies,   \* bound: trusted proxies on the way
    MaxTime,      \* bound: the last instant of the clock
    MaxCalls      \* bound: requests

Limits == {"email_per_address", "email_per_ip", "token_per_ip"}

Addresses == UNION Range(Owns)

ASSUME ConstantsAssumption ==
    /\ Owns \in [Callers -> SUBSET [family : {"v4", "v6", "mapped"}, net : Nat, host : Nat]]
    /\ Trusted \subseteq Addresses
    /\ \A c \in Callers : Owns[c] \cap Trusted # {} => Owns[c] \subseteq Trusted
    /\ Burst \in [Limits -> Nat \ {0}]
    /\ Period \in [Limits -> Nat \ {0}]
    /\ {MaxForged, MaxProxies, MaxTime, MaxCalls} \subseteq Nat
    /\ Garbage \notin Addresses

VARIABLES
    now,
    cells,   \* for each limiter, the keys in its map, each with the instant its budget is full
    calls,   \* the request each caller has in flight
    used,    \* for each limiter, the instants at which each subject was let through
    left     \* requests that may still start

vars == <<now, cells, calls, used, left>>

-----------------------------------------------------------------------------
(* Whose request is it? *)

\* ClientIp::key: an IPv6 user owns a /64, an IPv4 one an address however written.
IpKey(ip) == [family |-> IF ip.family = "v6" THEN "v6" ELSE "v4", net |-> ip.net]

\* A caller is whoever owns what a key stands for: a /64, or an IPv4 address.
ASSUME OwnersAssumption ==
    \A c, d \in Callers : \A ip \in Owns[c], other \in Owns[d] :
        IpKey(ip) = IpKey(other) <=> c = d

\* email_key
EmailKey(email) == email.box

\* Fault: the header's first hop is the client, as most documentation shows it.
ResolveLeftmost(peer, hops) ==
    IF peer \in Trusted /\ hops # <<>> /\ Head(hops) # Garbage THEN Head(hops) ELSE peer

\* Walks X-Forwarded-For from the closest hop and stops at the first address that
\* is not trusted, or before the first hop that is not an address.
Resolve(peer, hops) ==
    LET stop == Max({0} \cup {i \in DOMAIN hops : hops[i] \notin Trusted})
        hop == IF stop > 0 /\ hops[stop] # Garbage THEN stop ELSE stop + 1
    IN IF peer \in Trusted /\ hop <= Len(hops) THEN hops[hop] ELSE peer

\* An end user writes what it likes in the header; a proxy writes nothing.
Headers(c) ==
    IF Owns[c] \subseteq Trusted THEN {<<>>}
    ELSE SeqOf(Addresses \cup {Garbage}, MaxForged)

\* From an address of the caller through any trusted proxies.
Routes(c) == {Cons(ip, via) : ip \in Owns[c], via \in SeqOf(Trusted, MaxProxies)}

\* Whom an address belongs to.
OwnerOf(ip) == CHOOSE c \in Callers : ip \in Owns[c]

\* What the server sees of a request: the TCP peer and the hops of the header, to
\* which every proxy on the way adds the address it was called from.  from: whose
\* request that is, by what is left of its trace.
Traced(c) ==
    {[peer |-> Last(route), hops |-> forged \o Front(route), from |-> c] :
       forged \in Headers(c), route \in Routes(c)}

\* A header value that is not visible ASCII is dropped whole, with the hops of the
\* proxies that wrote theirs into the same value, up to the k-th.  What is left
\* leads to that proxy.  (A proxy adds a line of its own, or joins all it got.)
Untraced(c) ==
    {[peer |-> Last(way[1]), hops |-> SubSeq(way[1], way[2] + 1, Len(way[1]) - 1),
      from |-> OwnerOf(way[1][way[2] + 1])] :
       way \in {w \in Routes(c) \X (1 .. MaxProxies) : w[2] < Len(w[1])}}

\* Only an end user writes such a value.
Arrivals(c) ==
    Traced(c) \cup IF Owns[c] \subseteq Trusted THEN {} ELSE Untraced(c)

-----------------------------------------------------------------------------
(* Limiter *)

Keys(l) ==
    IF l = "email_per_address" THEN {EmailKey([box |-> b, spelling |-> s]) :
                                       b \in Mailboxes, s \in Spellings}
    ELSE {IpKey(ip) : ip \in Addresses}

\* The bucket has room for one more request: it is not more than a burst behind.
Allows(l, full) ==
    Max({full, now}) + Period[l] <= now + Burst[l] * Period[l]

\* A key that is not in the map has its whole budget.
FullAt(l, key) == IF key \in DOMAIN cells[l] THEN cells[l][key] ELSE now

\* check_key
Spend(l, key) ==
    cells' = [cells EXCEPT ![l] =
                [k \in DOMAIN cells[l] \cup {key} |->
                   IF k = key THEN Max({FullAt(l, key), now}) + Period[l]
                   ELSE cells[l][k]]]

-----------------------------------------------------------------------------
(* Handlers *)

\* The limits each handler checks, in this order: request stands for
\* request_confirmation too, confirm for the other handlers that take a code or a token.
Checks ==
    [request      |-> <<"email_per_ip", "email_per_address">>,
     change_email |-> <<"email_per_address", "token_per_ip">>,
     confirm      |-> <<"token_per_ip">>]

\* A request in flight: the checks to come, the keys they use, whose request it is
\* and the recipient.
Call == [todo : Seq(Limits), ip : Keys("email_per_ip"), email : Keys("email_per_address"),
         from : Callers, box : Mailboxes]

\* The ClientIp that is extracted from the requests of a caller, as keys, and whom
\* they are traced to.
ClientIps ==
    [c \in Callers |-> {[key |-> IpKey(Resolve(a.peer, a.hops)), from |-> a.from] :
                          a \in Arrivals(c)}]

\* A request arrives, and its ClientIp is extracted.
Arrive(c, handler) ==
    /\ calls[c] = None
    /\ left > 0
    /\ \E client \in ClientIps[c], b \in Mailboxes :
       \E email \in {EmailKey([box |-> b, spelling |-> s]) : s \in Spellings} :
          calls' = [calls EXCEPT ![c] = [todo |-> Checks[handler], ip |-> client.key,
                                         email |-> email, from |-> client.from, box |-> b]]
    /\ left' = left - 1
    /\ UNCHANGED <<now, cells, used>>

\* The limiter a call checks next.
Limit(c) == Head(calls[c].todo)

\* The key it is checked with.
Key(c) == IF Limit(c) = "email_per_address" THEN calls[c].email ELSE calls[c].ip

\* Whose budget that should be.
Subject(c) == IF Limit(c) = "email_per_address" THEN calls[c].box ELSE calls[c].from

\* The call after a check that let it through.
Rest(c) == IF Len(calls[c].todo) = 1 THEN None
           ELSE [calls[c] EXCEPT !.todo = Tail(@)]

\* The next check of a call lets it through.
LetThrough(c) ==
    /\ calls[c] # None
    /\ Allows(Limit(c), FullAt(Limit(c), Key(c)))
    /\ Spend(Limit(c), Key(c))
    /\ used' = [used EXCEPT ![Limit(c)][Subject(c)] = Append(@, now)]
    /\ calls' = [calls EXCEPT ![c] = Rest(c)]
    /\ UNCHANGED <<now, left>>

\* 429: nothing is spent.
Refuse(c) ==
    /\ calls[c] # None
    /\ ~Allows(Limit(c), FullAt(Limit(c), Key(c)))
    /\ calls' = [calls EXCEPT ![c] = None]
    /\ UNCHANGED <<now, cells, used, left>>

\* The handler returns for another reason before its next check.
Leave(c) ==
    /\ calls[c] # None
    /\ calls' = [calls EXCEPT ![c] = None]
    /\ UNCHANGED <<now, cells, used, left>>

-----------------------------------------------------------------------------
(* spawn_cleanup *)

Full(l, key) == cells[l][key] <= now

\* Fault: a key is forgotten once it may be let through again.
RetainRefused(l) ==
    Restrict(cells[l], {k \in DOMAIN cells[l] : ~Allows(l, cells[l][k])})

\* retain_recent: forgets the keys whose budget is full again.
RetainRecent(l) ==
    Restrict(cells[l], {k \in DOMAIN cells[l] : ~Full(l, k)})

\* Fault: the limiter of the email addresses is left out.
CleanupIps ==
    /\ cells' = [l \in Limits |-> IF l = "email_per_address" THEN cells[l]
                                  ELSE RetainRecent(l)]
    /\ UNCHANGED <<now, calls, used, left>>

Cleanup ==
    /\ cells' = [l \in Limits |-> RetainRecent(l)]
    /\ UNCHANGED <<now, calls, used, left>>

-----------------------------------------------------------------------------
Tick ==
    /\ now < MaxTime
    /\ now' = now + 1
    /\ UNCHANGED <<cells, calls, used, left>>

Init ==
    /\ now = 0
    /\ cells = [l \in Limits |-> <<>>]
    /\ calls = [c \in Callers |-> None]
    /\ used = [l \in Limits |-> [s \in Callers \cup Mailboxes |-> <<>>]]
    /\ left = MaxCalls

Next ==
    \/ \E c \in Callers :
          \/ \E handler \in DOMAIN Checks : Arrive(c, handler)
          \/ LetThrough(c) \/ Refuse(c) \/ Leave(c)
    \/ Cleanup
    \/ Tick

Spec == Init /\ [][Next]_vars

\* The cleanup's timer fires every five minutes.
FairSpec == Spec /\ WF_vars(Cleanup)

-----------------------------------------------------------------------------
(* Properties *)

\* Every variable holds what the code gives it: only keys of its kind in each map.
TypeOK ==
    /\ now \in 0 .. MaxTime
    /\ cells = [l \in Limits |-> cells[l]]
    /\ \A l \in Limits :
          /\ DOMAIN cells[l] \subseteq Keys(l)
          /\ cells[l] \in [DOMAIN cells[l] -> Nat]
    /\ calls \in [Callers -> Call \cup {None}]
    /\ used \in [Limits -> [Callers \cup Mailboxes -> Seq(0 .. MaxTime)]]
    /\ left \in 0 .. MaxCalls

\* How often a subject was let through since an instant.
Since(l, s, t) == Cardinality({i \in DOMAIN used[l][s] : used[l][s][i] >= t})

\* What a limiter owes a subject over the time since an instant.
Owed(l, t) == Burst[l] + (now - t) \div Period[l]

\* "Allows `burst` requests at once, then one more every `replenish_one_every`"
\* (rate_limit.rs), to every user, proxy and mailbox, over every stretch of time,
\* whichever of its addresses and spellings it uses and though the cleanup forgets
\* keys in between.  Whatever headers a user forges, its requests come out of its
\* own budget; or, if a header it garbled took the trace with it, out of the one
\* budget that all such requests share with the proxy they came through.
WindowBudget ==
    \A l \in Limits, s \in Callers \cup Mailboxes, t \in 0 .. now :
       Since(l, s, t) <= Owed(l, t)

\* A 429 is deserved: a user or a mailbox is refused only if its own requests have
\* used what it is owed.  No user pays for another, behind the same proxies or
\* named in a forged header, nor for the requests that were refused.  Only the
\* requests of a proxy itself, and those that lost their trace at it, pay for one
\* another.
RefusalIsDeserved ==
    \A c \in Callers :
       calls[c] # None /\ ~Allows(Limit(c), FullAt(Limit(c), Key(c))) =>
          \E t \in 0 .. now : Since(Limit(c), Subject(c), t) = Owed(Limit(c), t)

\* "so memory doesn't grow with every IP seen" (spawn_cleanup): time and again the
\* maps hold no key but those whose budget is in use.
FullKeysAreForgotten ==
    []<>(\A l \in Limits : \A k \in DOMAIN cells[l] : ~Full(l, k))
=============================================================================
