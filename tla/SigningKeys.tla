---------------------------- MODULE SigningKeys ----------------------------
(***************************************************************************)
(* The Ed25519 keys that sign access tokens: first start, rotation, the    *)
(* key set each server instance holds in memory, and the JWKS an API keeps *)
(* (bauth_server/src/signing_keys.rs, queries/signing_keys.rs,             *)
(* jobs/mod.rs, access_token.rs, current_user.rs, routes/well_known.rs;    *)
(* bauth_client/src/verifier.rs).                                          *)
(*                                                                         *)
(* One action is one SQL statement, or one transaction where nothing reads *)
(* between its statements.  ensure_and_load is not a transaction: its      *)
(* read, its insert, its second read and the swap of the shared key set    *)
(* are steps of their own, so two instances and the two jobs of one        *)
(* instance interleave.  A key is its identifier: encryption at rest and   *)
(* the JWK encoding are left out.                                          *)
(***************************************************************************)
EXTENDS Integers, FiniteSets

CONSTANTS
    Instances,       \* server processes on one database
    Keys,            \* key identifiers (kid)
    Apis,            \* users of bauth_client::Verifier
    None,
    Interval,        \* ROTATION_INTERVAL
    Prepublication,  \* PREPUBLICATION
    RetiredGrace,    \* RETIRED_KEY_GRACE
    TokenTTL,        \* ACCESS_TOKEN_TTL
    CacheAge,        \* JWKS_MAX_AGE
    Refetch,         \* MIN_REFETCH_INTERVAL
    Staleness,       \* how old a key set in memory gets: reloads are hourly
    LeakTimes,       \* bound: the instants at which the operator may retire every key
    MaxClock         \* bound: the last instant of the clock

\* "Must exceed the JWKS cache lifetime", "Must exceed the access token lifetime".
ASSUME ConstantsAssumption ==
    /\ {Interval, Prepublication, RetiredGrace, TokenTTL, CacheAge, Refetch,
        Staleness, MaxClock} \subseteq Nat
    /\ LeakTimes \subseteq Nat
    /\ 0 < Refetch /\ Refetch <= CacheAge
    /\ Staleness + Refetch <= Prepublication
    /\ TokenTTL <= RetiredGrace
    /\ None \notin Int \cup Keys \cup Instances

VARIABLES
    clock,
    rows,         \* bauth.signing_keys
    loaded,       \* per instance, the shared SigningKeys; None while it is down
    jobs,         \* per instance and job, where the job stands
    signed,       \* per key, when the last token it signed expires
    caches,       \* per API, the verifier's KeyCache
    leak          \* when the operator retired every key by hand, and which keys

vars == <<clock, rows, loaded, jobs, signed, caches, leak>>

-----------------------------------------------------------------------------
(* Rows, key sets and jobs *)

Instant == 0 .. MaxClock

\* A signing_keys row; created_at = None: no such row.  rotated is a history
\* variable: rotate_if_due published the key.
Row == [created_at : Instant \cup {None}, active_at : Nat,
        retired_at : Int \cup {None}, rotated : BOOLEAN]

NoRow == [created_at |-> None, active_at |-> 0, retired_at |-> None, rotated |-> FALSE]

\* What load returns: the published rows as they were at an instant.
KeySet == [at : Instant, rows : [Keys -> Row]]

JobNames == {"reload", "rotate"}

Steps == {"idle", "load", "insert", "again", "store", "publish"}

\* set: the key set the job has read and is about to store.
Job == [step : Steps \ {"store"}, set : {None}] \cup [step : {"store"}, set : KeySet]

Idle == [step |-> "idle", set |-> None]

Cache == [keys : SUBSET Keys, fetched_at : Instant \cup {None}]

NoLeak == [at |-> None, keys |-> {}]

Exists(row) == row.created_at # None

Up(i) == loaded[i] # None

-----------------------------------------------------------------------------
(* Reading the keys *)

\* list_published: not retired, or retired less than the grace ago.
Published(row, now) ==
    /\ Exists(row)
    /\ row.retired_at = None \/ row.retired_at > now - RetiredGrace

\* Fault: the key that takes over starts an instant after the other one stops.
CanSignLate(row, now) ==
    /\ Exists(row)
    /\ row.active_at < now
    /\ row.retired_at = None \/ row.retired_at > now

\* LoadedKey::can_sign
CanSign(row, now) ==
    /\ Exists(row)
    /\ row.active_at <= now
    /\ row.retired_at = None \/ row.retired_at > now

\* SigningKeys::signing_key: the newest that can sign (ORDER BY active_at DESC).
SigningKey(set, now) ==
    {k \in Keys : /\ CanSign(set.rows[k], now)
                  /\ \A l \in Keys : CanSign(set.rows[l], now) =>
                        set.rows[l].active_at <= set.rows[k].active_at}

\* SigningKeys::load, at this instant.
Load == [at |-> clock,
         rows |-> [k \in Keys |-> IF Published(rows[k], clock) THEN rows[k] ELSE NoRow]]

\* The JWKS of a key set.
Jwks(set) == {k \in Keys : Exists(set.rows[k])}

Unused == {k \in Keys : ~Exists(rows[k])}

-----------------------------------------------------------------------------
(* ensure_and_load, at startup and in both jobs *)

\* Where a job's first load finds it: the reload job begins with it, at startup
\* and every hour; the rotation job loads after its COMMIT.
BeforeLoad(j) == IF j = "reload" THEN "idle" ELSE "load"

\* Fault: a key set that can sign is not read again.
LoadWhenNeeded(i, j) ==
    /\ jobs[i][j].step = BeforeLoad(j)
    /\ jobs' = [jobs EXCEPT ![i][j] =
                  IF Up(i) /\ SigningKey(loaded[i], clock) # {}
                  THEN [step |-> "store", set |-> [loaded[i] EXCEPT !.at = clock]]
                  ELSE IF SigningKey(Load, clock) # {}
                  THEN [step |-> "store", set |-> Load]
                  ELSE [step |-> "insert", set |-> None]]
    /\ UNCHANGED <<clock, rows, loaded, signed, caches, leak>>

\* The first load: a key is created only if none can sign.
LoadKeys(i, j) ==
    /\ jobs[i][j].step = BeforeLoad(j)
    /\ jobs' = [jobs EXCEPT ![i][j] =
                  IF SigningKey(Load, clock) # {}
                  THEN [step |-> "store", set |-> Load]
                  ELSE [step |-> "insert", set |-> None]]
    /\ UNCHANGED <<clock, rows, loaded, signed, caches, leak>>

\* A key that signs right away.
InsertKey(i, j) ==
    /\ jobs[i][j].step = "insert"
    /\ \E k \in Unused :
         rows' = [rows EXCEPT ![k] = [created_at |-> clock, active_at |-> clock,
                                      retired_at |-> None, rotated |-> FALSE]]
    /\ jobs' = [jobs EXCEPT ![i][j].step = "again"]
    /\ UNCHANGED <<clock, loaded, signed, caches, leak>>

LoadAgain(i, j) ==
    /\ jobs[i][j].step = "again"
    /\ jobs' = [jobs EXCEPT ![i][j] = [step |-> "store", set |-> Load]]
    /\ UNCHANGED <<clock, rows, loaded, signed, caches, leak>>

\* SharedSigningKeys::store: the key set is swapped; a starting instance begins to serve.
StoreKeys(i, j) ==
    /\ jobs[i][j].step = "store"
    /\ loaded' = [loaded EXCEPT ![i] = jobs[i][j].set]
    /\ jobs' = [jobs EXCEPT ![i][j] = Idle]
    /\ UNCHANGED <<clock, rows, signed, caches, leak>>

\* A database error: the job is over, its instance keeps the key set it has.
FailJob(i, j) ==
    /\ jobs[i][j] # Idle
    /\ jobs' = [jobs EXCEPT ![i][j] = Idle]
    /\ UNCHANGED <<clock, rows, loaded, signed, caches, leak>>

-----------------------------------------------------------------------------
(* rotate_if_due *)

\* Fault: no advisory lock.
NeverLocked == FALSE

\* pg_try_advisory_xact_lock is taken by a transaction that is about to publish.
RotationLocked == \E i \in Instances : jobs[i]["rotate"].step = "publish"

\* No key is pending, and the newest that can sign is old enough.
Due ==
    /\ \A k \in Keys : Published(rows[k], clock) => rows[k].active_at <= clock
    /\ \A k \in Keys : CanSign(rows[k], clock) => clock - rows[k].active_at >= Interval

\* The daily cron fires: the lock, the list, the decision to publish.  Without
\* the lock or a due key the job ends as it began.
StartRotation(i) ==
    /\ Up(i)
    /\ jobs[i]["rotate"] = Idle
    /\ ~RotationLocked
    /\ Due
    /\ jobs' = [jobs EXCEPT ![i]["rotate"].step = "publish"]
    /\ UNCHANGED <<clock, rows, loaded, signed, caches, leak>>

\* Fault: the other keys are retired now, not when the new one takes over.
PublishRetiringNow(i) ==
    /\ jobs[i]["rotate"].step = "publish"
    /\ \E new \in Unused :
         rows' = [k \in Keys |->
             IF k = new
             THEN [created_at |-> clock, active_at |-> clock + Prepublication,
                   retired_at |-> None, rotated |-> TRUE]
             ELSE IF Exists(rows[k]) /\ (rows[k].retired_at = None \/ rows[k].retired_at > clock)
                  THEN [rows[k] EXCEPT !.retired_at = clock]
                  ELSE rows[k]]
    /\ jobs' = [jobs EXCEPT ![i]["rotate"].step = "load"]
    /\ UNCHANGED <<clock, loaded, signed, caches, leak>>

\* Fault: the new key signs at once.
PublishActive(i) ==
    /\ jobs[i]["rotate"].step = "publish"
    /\ \E new \in Unused :
         rows' = [k \in Keys |->
             IF k = new
             THEN [created_at |-> clock, active_at |-> clock,
                   retired_at |-> None, rotated |-> TRUE]
             ELSE IF Exists(rows[k]) /\ (rows[k].retired_at = None \/ rows[k].retired_at > clock)
                  THEN [rows[k] EXCEPT !.retired_at = clock]
                  ELSE rows[k]]
    /\ jobs' = [jobs EXCEPT ![i]["rotate"].step = "load"]
    /\ UNCHANGED <<clock, loaded, signed, caches, leak>>

\* The insert, retire_all_except and COMMIT; then this instance reloads.
Publish(i) ==
    LET takes_over_at == clock + Prepublication IN
    /\ jobs[i]["rotate"].step = "publish"
    /\ \E new \in Unused :
         rows' = [k \in Keys |->
             IF k = new
             THEN [created_at |-> clock, active_at |-> takes_over_at,
                   retired_at |-> None, rotated |-> TRUE]
             ELSE IF /\ Exists(rows[k])
                     /\ rows[k].retired_at = None \/ rows[k].retired_at > takes_over_at
                  THEN [rows[k] EXCEPT !.retired_at = takes_over_at]
                  ELSE rows[k]]
    /\ jobs' = [jobs EXCEPT ![i]["rotate"].step = "load"]
    /\ UNCHANGED <<clock, loaded, signed, caches, leak>>

-----------------------------------------------------------------------------
(* Signing and verifying *)

\* access_token::issue
Issue(i) ==
    /\ Up(i)
    /\ \E k \in SigningKey(loaded[i], clock) :
         signed' = [signed EXCEPT ![k] = clock + TokenTTL]
    /\ UNCHANGED <<clock, rows, loaded, jobs, caches, leak>>

\* KeyCache::is_stale and KeyCache::can_refetch
OlderThan(v, age) == caches[v].fetched_at # None => clock - caches[v].fetched_at >= age

\* Fault: a cached key is used however old the cache.
FreshForever(v, k) == k \in caches[v].keys

\* The cached key is used as it is.
Fresh(v, k) == k \in caches[v].keys /\ ~OlderThan(v, CacheAge)

\* Verifier::decoding_key finds a key for this kid, if this instance answers the
\* fetch of the JWKS.  If none does (None), "keep verifying with the keys we
\* already have", however old they are.
Accepts(v, k, answer) ==
    k \in IF ~Fresh(v, k) /\ OlderThan(v, Refetch) /\ answer # None
          THEN Jwks(loaded[answer]) ELSE caches[v].keys

\* decoding_key fetches the JWKS, for a token with this kid (None: one that no
\* key of bauth has) and from whichever instance answers.  A fetch that fails
\* leaves the cache as it is.
FetchJwks(v, k, i) ==
    /\ Up(i)
    /\ ~Fresh(v, k)
    /\ OlderThan(v, Refetch)
    /\ caches' = [caches EXCEPT ![v] = [keys |-> Jwks(loaded[i]), fetched_at |-> clock]]
    /\ UNCHANGED <<clock, rows, loaded, jobs, signed, leak>>

-----------------------------------------------------------------------------
(* Processes, the operator, and time *)

\* The process stops or crashes; its jobs and its key set go with it.
Stop(i) ==
    /\ Up(i) \/ \E j \in JobNames : jobs[i][j] # Idle
    /\ loaded' = [loaded EXCEPT ![i] = None]
    /\ jobs' = [jobs EXCEPT ![i] = [j \in JobNames |-> Idle]]
    /\ UNCHANGED <<clock, rows, signed, caches, leak>>

\* Emergency: the operator retires every key by hand, long enough ago that it
\* leaves the JWKS at once (as tests/key_rotation.rs does).
RetireByHand ==
    /\ clock \in LeakTimes
    /\ leak = NoLeak
    /\ leak' = [at |-> clock, keys |-> {k \in Keys : Exists(rows[k])}]
    /\ rows' = [k \in Keys |->
                  IF Exists(rows[k])
                  THEN [rows[k] EXCEPT !.retired_at = clock - RetiredGrace]
                  ELSE rows[k]]
    /\ UNCHANGED <<clock, loaded, jobs, signed, caches>>

\* Time passes.  The schedule keeps a key set in memory, or on its way there,
\* from growing older than Staleness, and a rotation's transaction is shorter
\* than a tick.
Tick ==
    /\ clock < MaxClock
    /\ \A i \in Instances : Up(i) => clock - loaded[i].at < Staleness
    /\ \A i \in Instances, j \in JobNames :
         jobs[i][j].step = "store" => clock - jobs[i][j].set.at < Staleness
    /\ ~RotationLocked
    /\ clock' = clock + 1
    /\ UNCHANGED <<rows, loaded, jobs, signed, caches, leak>>

-----------------------------------------------------------------------------
Init ==
    /\ clock = 0
    /\ rows = [k \in Keys |-> NoRow]
    /\ loaded = [i \in Instances |-> None]
    /\ jobs = [i \in Instances |-> [j \in JobNames |-> Idle]]
    /\ signed = [k \in Keys |-> 0]
    /\ caches = [v \in Apis |-> [keys |-> {}, fetched_at |-> None]]
    /\ leak = NoLeak

RunJob(i, j) ==
    \/ LoadKeys(i, j)
    \/ InsertKey(i, j)
    \/ LoadAgain(i, j)
    \/ StoreKeys(i, j)

Next ==
    \/ \E i \in Instances : StartRotation(i) \/ Publish(i)
    \/ \E i \in Instances, j \in JobNames : RunJob(i, j) \/ FailJob(i, j)
    \/ \E i \in Instances : Issue(i) \/ Stop(i)
    \/ \E v \in Apis, k \in Keys \cup {None}, i \in Instances : FetchJwks(v, k, i)
    \/ RetireByHand
    \/ Tick

Spec == Init /\ [][Next]_vars

-----------------------------------------------------------------------------
(* Properties *)

\* Every variable holds rows, key sets and jobs of the shape the code gives them.
TypeOK ==
    /\ clock \in Instant
    /\ rows \in [Keys -> Row]
    /\ loaded \in [Instances -> KeySet \cup {None}]
    /\ jobs \in [Instances -> [JobNames -> Job]]
    /\ signed \in [Keys -> Nat]
    /\ caches \in [Apis -> Cache]
    /\ leak \in [at : Instant \cup {None}, keys : SUBSET Keys]

\* Every instance and every API has had the time to learn of the key.
Settled(k) == rows[k].rotated \/ clock >= rows[k].created_at + Staleness + Refetch

\* "Published before signing, so APIs caching the JWKS know K2 before seeing its
\* tokens; published after retirement, so tokens K1 signed stay verifiable until
\* they expire." (signing_keys.rs): a token that has not expired is accepted by
\* every instance's /me and by every API, whatever its cache holds and whichever
\* instance serves it the JWKS.  Tokens of a key made at startup are exempt
\* until the other instances have reloaded; tokens of a leaked key, for good.
TokensVerify ==
    \A k \in Keys \ leak.keys : signed[k] > clock /\ Settled(k) =>
        \A i \in Instances : Up(i) =>
            /\ k \in Jwks(loaded[i])
            /\ \A v \in Apis : Accepts(v, k, i)

\* "a pending key takes over exactly at its active_at, whenever the key set was
\* loaded" (signing_keys.rs): at every instant an instance that serves has a key
\* to sign with, however old its key set, whichever instance rotated.
AlwaysSigns == \A i \in Instances : Up(i) => SigningKey(loaded[i], clock) # {}

\* "only one instance rotates at a time" (signing_keys.rs): two instances whose
\* jobs fire at the same second publish one key between them.
OnePending ==
    Cardinality({k \in Keys : Exists(rows[k]) /\ rows[k].active_at > clock}) <= 1

\* A rotation ends a key's signing life exactly where its row says: no instance,
\* whenever it loaded its key set, signs with the key at or after retired_at.
RetiredNeverSigns ==
    \A k \in Keys : rows[k].retired_at # None =>
        signed[k] < rows[k].retired_at + TokenTTL

\* After an emergency every instance has another key within one reload: the last
\* token a leaked key signed expires one token lifetime after that, whatever the
\* instances and their two jobs had read before.
LeakedKeyStopsSigning ==
    \A k \in leak.keys : signed[k] <= leak.at + Staleness + TokenTTL

\* Once the key sets read before the emergency, and the caches filled from them,
\* are out of date, no instance accepts the leaked key at /me or serves it, and no
\* API trusts it when it reaches bauth.  The exception is an API that has not
\* reached bauth since those key sets went out of date, and does not now: it goes
\* on trusting what it has (verifier.rs), for as long as that lasts.
LeakedKeyIsForgotten ==
    leak # NoLeak /\ clock >= leak.at + Staleness + CacheAge =>
        \A k \in leak.keys :
            LET answers == {i \in Instances : Up(i)} IN
            /\ \A i \in answers : k \notin Jwks(loaded[i])
            /\ \A v \in Apis, answer \in answers \cup {None} :
                  Accepts(v, k, answer) =>
                      answer = None /\ caches[v].fetched_at <= leak.at + Staleness
=============================================================================
