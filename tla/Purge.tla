------------------------------- MODULE Purge -------------------------------
(***************************************************************************)
(* The hourly purge (bauth_server/src/jobs/purge.rs, jobs/mod.rs), run by  *)
(* every instance beside the rest of the server.                           *)
(*                                                                         *)
(* A row is modelled by the instant its retention is counted from (ends):  *)
(* when it stopped being usable (the earlier of expiry and use or          *)
(* revocation), when a key was retired, when an account that is not        *)
(* verified was created; and by the rows it goes with (of).                *)
(*                                                                         *)
(* A DELETE is two steps: its sub-select reads a snapshot, then the rows   *)
(* it named are deleted, with what cascades from them.  At READ COMMITTED  *)
(* a row that changed in between is checked against id IN (...) only, and  *)
(* not against the condition of the sub-select.                            *)
(***************************************************************************)
EXTENDS Integers, Sequences, FiniteSetsExt

CONSTANTS
    Instances,
    Flows, Links, Codes, Changes, Confirmations, Sessions, Users, Keys,  \* rows of each table
    None,
    BatchSize,     \* BATCH_SIZE
    Day,           \* a day: the retention of flows, and the window of the guess budget
    Week,          \* the retention of changes, confirmations and unverified accounts
    Month,         \* the retention of sessions and keys
    FlowTTL,       \* lifetime of a flow
    LinkTTL,       \* CODE_TTL: lifetime of an email, which keeps its flow alive, and of a confirmation
    CodeTTL,       \* lifetime of an authorization code
    SessionTTL,    \* lifetime of a session, and here of changes
    Prepublication,  \* from the rotation to when the new key takes over
    MaxRows,       \* bound: rows inserted in all, by any calls but a last login
    MaxClock,      \* bound: the last instant of the clock
    MaxFaults      \* bound: failures, crashes and lost connections

\* The rows of an account, a flow or a session, which go with it.
Owned == Links \cup Codes \cup Changes \cup Confirmations \cup Sessions

Rows == Flows \cup Users \cup Keys \cup Owned

\* A code and a confirmation are over long before what they go with is purged.
ASSUME ConstantsAssumption ==
    /\ {Day, Week, Month, FlowTTL, LinkTTL, CodeTTL, SessionTTL, Prepublication,
        MaxRows, MaxClock, MaxFaults} \subseteq Nat
    /\ CodeTTL <= Day /\ LinkTTL <= Month
    /\ BatchSize \in Nat \ {0}
    /\ IsFiniteSet(Rows)
    /\ None \notin Nat \cup Rows \cup Instances

VARIABLES
    clock,
    rows,
    lock,   \* the holder of the advisory lock LOCK_KEY
    jobs,   \* where the purge of each instance stands
    faults  \* how often a purge was disturbed

vars == <<clock, rows, lock, jobs, faults>>

-----------------------------------------------------------------------------
(* Rows *)

Instant == 0 .. MaxClock

\* ends = None: a verified account, or a key that is not retired.  of: the rows it
\* references with ON DELETE CASCADE.  born is created_at, of an email and of an
\* account that was not verified when it was created.
Row == [state : {"unborn", "kept", "deleted"}, ends : Nat \cup {None},
        of : SUBSET Rows, born : Instant \cup {None}]

Unborn == [state |-> "unborn", ends |-> None, of |-> {}, born |-> None]

Kept(r) == rows[r].state = "kept"

\* Not yet expired, used, revoked or retired.
Live(r) == Kept(r) /\ rows[r].ends \notin 0 .. clock

\* The tables in the order of purge(), each with its retention.
Tables == <<[rows |-> Flows, retention |-> Day],
            [rows |-> Changes, retention |-> Week],
            [rows |-> Confirmations, retention |-> Week],
            [rows |-> Sessions, retention |-> Month],
            [rows |-> Users, retention |-> Week],
            [rows |-> Keys, retention |-> Month]>>

UnlockStep == 7

\* A row is in one table; links and codes only go with others.
ASSUME TablesAssumption ==
    /\ \A m, n \in DOMAIN Tables : m # n => Tables[m].rows \cap Tables[n].rows = {}
    /\ \A n \in DOMAIN Tables : Tables[n].rows \cap (Links \cup Codes) = {}
    /\ Links \cap Codes = {}

\* The WHERE clause of the n-th DELETE.
Stale(n, r) ==
    /\ Kept(r)
    /\ r \in Tables[n].rows
    /\ rows[r].ends # None
    /\ rows[r].ends < clock - Tables[n].retention

\* ON DELETE CASCADE: the links and codes of a flow, the confirmations of a
\* session, and every row of an account.
WithCascades(S) == S \cup {r \in Rows : Kept(r) /\ rows[r].of \cap S # {}}

-----------------------------------------------------------------------------
(* The rest of the server *)

\* There is room for a row that is not there yet.
HasRoom(r) ==
    /\ rows[r].state = "unborn"
    /\ Cardinality({x \in Rows : rows[x].state # "unborn"}) < MaxRows

\* What an INSERT adds.
New(ends, of, born) == [state |-> "kept", ends |-> ends, of |-> of, born |-> born]

\* An INSERT.
Insert(r, row) ==
    /\ HasRoom(r)
    /\ rows' = [rows EXCEPT ![r] = row]
    /\ UNCHANGED <<clock, lock, jobs, faults>>

StartFlow(f) == Insert(f, New(clock + FlowTTL, {}, None))

\* Fault: an email is sent for a flow that has expired, and revives it.
ReviveFlow(f, l, owner) ==
    /\ Kept(f)
    /\ \A u \in owner : Kept(u)
    /\ HasRoom(l)
    /\ rows' = [rows EXCEPT ![f].ends = Max({@, clock + LinkTTL}),
                            ![l] = New(clock + LinkTTL, {f} \cup owner, clock)]
    /\ UNCHANGED <<clock, lock, jobs, faults>>

\* Asking for an email on a flow that is still open keeps the flow as long as the
\* email, which is for an account, verified or not, or for a sign-up (owner = {}).
AskForEmail(f, l, owner) ==
    /\ Live(f)
    /\ \A u \in owner : Kept(u)
    /\ HasRoom(l)
    /\ rows' = [rows EXCEPT ![f].ends = Max({@, clock + LinkTTL}),
                            ![l] = New(clock + LinkTTL, {f} \cup owner, clock)]
    /\ UNCHANGED <<clock, lock, jobs, faults>>

\* An account that is imported, or left from an older version, is not verified.
ImportUser(u) == Insert(u, New(clock, {}, clock))

\* The account a link logs in: the one it was sent to, or for a sign-up a new one,
\* or one that has appeared meanwhile.
LogsIn(l, u) ==
    \/ u \in rows[l].of
    \/ rows[l].of \cap Users = {} /\ rows[u].state # "deleted"

\* The link or its code is used: log_in verifies the account, and the flow gets
\* its authorization code, its only one.
LogIn(l, f, u, c) ==
    /\ Live(l)
    /\ f \in rows[l].of /\ Live(f)
    /\ \A d \in Codes : f \notin rows[d].of
    /\ LogsIn(l, u)
    /\ HasRoom(c)
    /\ rows' = [rows EXCEPT ![l].ends = clock,
                            ![u] = [@ EXCEPT !.state = "kept", !.ends = None],
                            ![c] = New(clock + CodeTTL, {f, u}, None)]
    /\ UNCHANGED <<clock, lock, jobs, faults>>

\* A session, or a change of address, of an account; one from an older version may
\* have them unverified.
CreateOwned(r, u) ==
    /\ Kept(u)
    /\ Insert(r, New(clock + SessionTTL, {u}, None))

\* A code that confirms a change goes with its session, too.
CreateConfirmation(k, s) ==
    /\ Live(s)
    /\ Insert(k, New(clock + LinkTTL, {s} \cup rows[s].of, None))

\* Used, used up or revoked: consumed_at and revoked_at are set once, while usable.
EndOwned(r) ==
    /\ Live(r)
    /\ rows' = [rows EXCEPT ![r].ends = clock]
    /\ UNCHANGED <<clock, lock, jobs, faults>>

CreateKey(k) == Insert(k, New(None, {}, None))

\* A rotation retires the other keys when the new one takes over, the operator at
\* once; a retirement that was announced may be brought forward.
RetireKey(k, at) ==
    /\ Kept(k)
    /\ rows[k].ends \notin 0 .. at
    /\ rows' = [rows EXCEPT ![k].ends = at]
    /\ UNCHANGED <<clock, lock, jobs, faults>>

-----------------------------------------------------------------------------
(* run() and purge() *)

\* table is the DELETE that runs, or UnlockStep; 0: no purge.  selected is what
\* its sub-select returned, None before it ran.  lost: the connection that took
\* the lock is gone.
Job == [table : 0 .. UnlockStep, selected : (SUBSET Rows) \cup {None}, lost : BOOLEAN]

NoJob == [table |-> 0, selected |-> None, lost |-> FALSE]

\* Advisory locks belong to a connection.
ReleasedBy(i) == IF lock = i THEN None ELSE lock

\* Fault: the answer of pg_try_advisory_lock is not looked at.
LockAnyway(i) ==
    /\ jobs[i] = NoJob
    /\ lock' = i
    /\ jobs' = [jobs EXCEPT ![i].table = 1]
    /\ UNCHANGED <<clock, rows, faults>>

\* pg_try_advisory_lock; if another instance has it, the purge is skipped.
TryLock(i) ==
    /\ jobs[i] = NoJob
    /\ lock = None
    /\ lock' = i
    /\ jobs' = [jobs EXCEPT ![i].table = 1]
    /\ UNCHANGED <<clock, rows, faults>>

Deletes(i) == jobs[i].table \in DOMAIN Tables

\* LIMIT; the last DELETE has none.
Limit(n, S) == IF n = Len(Tables) THEN Cardinality(S)
               ELSE Min({BatchSize, Cardinality(S)})

\* The snapshot of the n-th DELETE.
Select(i, n) ==
    LET stale == {r \in Rows : Stale(n, r)} IN
    /\ jobs[i].table = n
    /\ jobs[i].selected = None
    /\ stale # {}
    /\ \E S \in kSubset(Limit(n, stale), stale) :
         jobs' = [jobs EXCEPT ![i].selected = S]
    /\ UNCHANGED <<clock, rows, lock, faults>>

\* A DELETE whose sub-select finds nothing is the last of its table.
SelectNothing(i, n) ==
    /\ jobs[i].table = n
    /\ jobs[i].selected = None
    /\ \A r \in Rows : ~Stale(n, r)
    /\ jobs' = [jobs EXCEPT ![i].table = n + 1]
    /\ UNCHANGED <<clock, rows, lock, faults>>

\* The rows still there go, with what cascades; a short batch is the last.
Delete(i, n) ==
    LET found == {r \in jobs[i].selected : Kept(r)} IN
    /\ jobs[i].table = n
    /\ jobs[i].selected # None
    /\ rows' = [r \in Rows |-> IF r \in WithCascades(found)
                               THEN [Unborn EXCEPT !.state = "deleted"]
                               ELSE rows[r]]
    /\ jobs' = [jobs EXCEPT ![i].selected = None,
                            ![i].table = IF \/ Cardinality(found) < BatchSize
                                            \/ n = Len(Tables)
                                         THEN n + 1 ELSE n]
    /\ UNCHANGED <<clock, lock, faults>>

Disturb ==
    /\ faults < MaxFaults
    /\ faults' = faults + 1

\* Fault: a DELETE that fails returns before the unlock.
FailLocked(i) ==
    /\ Disturb
    /\ Deletes(i)
    /\ jobs' = [jobs EXCEPT ![i] = NoJob]
    /\ UNCHANGED <<clock, rows, lock>>

\* A DELETE fails: the others are left for the next hour, and the lock is given back.
Fail(i) ==
    /\ Disturb
    /\ Deletes(i)
    /\ jobs' = [jobs EXCEPT ![i].table = UnlockStep, ![i].selected = None]
    /\ UNCHANGED <<clock, rows, lock>>

\* The connection that took the lock breaks, and PostgreSQL gives the lock back;
\* the DELETEs go on over the other connections of the pool.
LoseConnection(i) ==
    /\ Disturb
    /\ jobs[i] # NoJob
    /\ ~jobs[i].lost
    /\ lock' = ReleasedBy(i)
    /\ jobs' = [jobs EXCEPT ![i].lost = TRUE]
    /\ UNCHANGED <<clock, rows>>

\* pg_advisory_unlock; on a lost connection it fails, and there is nothing to unlock.
Unlock(i) ==
    /\ jobs[i].table = UnlockStep
    /\ lock' = ReleasedBy(i)
    /\ jobs' = [jobs EXCEPT ![i] = NoJob]
    /\ UNCHANGED <<clock, rows, faults>>

\* The instance stops: its connections close, and with them goes its lock.
Crash(i) ==
    /\ Disturb
    /\ jobs[i] # NoJob
    /\ lock' = ReleasedBy(i)
    /\ jobs' = [jobs EXCEPT ![i] = NoJob]
    /\ UNCHANGED <<clock, rows>>

-----------------------------------------------------------------------------
Tick ==
    /\ clock < MaxClock
    /\ clock' = clock + 1
    /\ UNCHANGED <<rows, lock, jobs, faults>>

Init ==
    /\ clock = 0
    /\ rows = [r \in Rows |-> Unborn]
    /\ lock = None
    /\ jobs = [i \in Instances |-> NoJob]
    /\ faults = 0

Serve ==
    \/ \E f \in Flows : StartFlow(f)
    \/ \E f \in Flows, l \in Links, owner \in {{}} \cup {{u} : u \in Users} :
          AskForEmail(f, l, owner)
    \/ \E l \in Links, f \in Flows, u \in Users, c \in Codes : LogIn(l, f, u, c)
    \/ \E u \in Users : ImportUser(u)
    \/ \E r \in Sessions \cup Changes, u \in Users : CreateOwned(r, u)
    \/ \E k \in Confirmations, s \in Sessions : CreateConfirmation(k, s)
    \/ \E r \in Owned : EndOwned(r)
    \/ \E k \in Keys : CreateKey(k)
    \/ \E k \in Keys, at \in {clock, clock + Prepublication} : RetireKey(k, at)

\* The steps of a purge that nothing disturbs.
Proceed(i) ==
    \/ \E n \in DOMAIN Tables : Select(i, n) \/ SelectNothing(i, n) \/ Delete(i, n)
    \/ Unlock(i)

Next ==
    \/ Serve
    \/ \E i \in Instances :
          TryLock(i) \/ Proceed(i) \/ Fail(i) \/ LoseConnection(i) \/ Crash(i)
    \/ Tick

Spec == Init /\ [][Next]_vars

\* The scheduler fires every hour, on some instance that finds the lock free, and
\* the server polls the job to its end.
FairSpec ==
    /\ Spec
    /\ WF_vars(\E i \in Instances : TryLock(i))
    /\ \A i \in Instances : WF_vars(Proceed(i))

-----------------------------------------------------------------------------
(* Properties *)

\* Every variable holds rows and jobs of the shape the code gives them.
TypeOK ==
    /\ clock \in Instant
    /\ rows \in [Rows -> Row]
    /\ lock \in Instances \cup {None}
    /\ jobs \in [Instances -> Job]
    /\ faults \in 0 .. MaxFaults

\* "so only one instance purges at a time" (jobs/purge.rs): the instances that
\* fire at the same second take turns, whichever fails or crashes half-way,
\* unless the connection that took the lock was lost.
OnePurger ==
    \A i, j \in Instances :
       jobs[i] # NoJob /\ jobs[j] # NoJob => i = j \/ jobs[i].lost \/ jobs[j].lost

\* The rows a step deletes.
Deleted(r) == Kept(r) /\ rows'[r].state = "deleted"

\* The account of a row goes, which was not verified a week after it was created,
\* or not yet when the DELETE selected it.
GoesWithAccount(r) ==
    \E u \in Users : /\ r = u \/ u \in rows[r].of
                     /\ Deleted(u)
                     /\ rows[u].born # None /\ rows[u].born < clock - Week

\* "Deletes rows that stopped being useful" (jobs/purge.rs): what a DELETE
\* selected is still past its retention when it goes, though the server writes in
\* between, and what goes with a flow or a session is over.  The exception are
\* "users never verified (+ everything of theirs)", useful or not.
UselessRowsOnly ==
    [][\A r \in Rows : Deleted(r) =>
          \/ \E n \in DOMAIN Tables : Stale(n, r)
          \/ ~Live(r) /\ \E p \in rows[r].of, n \in DOMAIN Tables : Deleted(p) /\ Stale(n, p)
          \/ GoesWithAccount(r)]_vars

\* The purge never gives guesses back (queries/magic_links.rs counts the wrong
\* codes of the emails created within a day): an email that is deleted has left
\* that window, unless its account goes for never having been verified.
PurgeKeepsBudget ==
    [][\A l \in Links : Deleted(l) => rows[l].born <= clock - Day \/ GoesWithAccount(l)]_vars

\* "so token tables don't grow forever" (jobs/purge.rs): whatever fails, crashes
\* or overlaps half-way, the purge catches up, time and again, with every row
\* that is past its retention.
StaleRowsGo ==
    []<>(\A n \in DOMAIN Tables : \A r \in Tables[n].rows : ~Stale(n, r))
=============================================================================
