------------------------ MODULE RefreshTokensProofs ------------------------
(***************************************************************************)
(* The inductive invariant of RefreshTokens and the theorems it gives, for *)
(* any number of calls, tokens, sessions, users and clients.               *)
(***************************************************************************)
EXTENDS RefreshTokens, TLAPS

-----------------------------------------------------------------------------
(* The inductive invariant *)

\* At most one transaction holds a row of refresh_tokens.
LocksExclude ==
    \A r, q \in Requests, t \in Tokens : Holds(r, t) /\ Holds(q, t) => r = q

\* The rows: no identifier is half inserted, and a token has successors only
\* once it was rotated and as long as it was not replaced.
RowsInv ==
    \A t \in Tokens :
        /\ ~Exists(t) => tokens[t] = NoToken
        /\ Exists(t) => Opened(tokens[t].session)
        /\ tokens[t].parent # None =>
              /\ tokens[tokens[t].parent].rotated_at # None
              /\ tokens[tokens[t].parent].superseded_at = None
        /\ tokens[t].superseded_at # None => tokens[t].rotated_at = None

\* Only a session that was opened can have been revoked.
SessionsInv == \A s \in Sessions : Opened(s) \/ ~sessions[s].revoked

\* A call: its instants are ordered, its token exists, and what it read under
\* the lock of its token, and has written, still agrees with the rows.
CallInv(r) ==
    LET q == requests[r] IN
    /\ q.now <= clock
    /\ q.start <= clock
    /\ q.step \notin {"idle", "received"} =>
          q.token # None /\ q.now <= q.start
    /\ q.token # None => Exists(q.token)
    /\ q.hopeless => q.token # None
    /\ ~InTransaction(r) => ~q.rotates /\ q.supersedes = {}
    /\ q.step \in {"retry", "supersede"} =>
          PastGrace(q.token, q.now) /\ ~q.rotates /\ q.supersedes = {}
    /\ q.step \in {"retry", "supersede", "user", "issue"} =>
          /\ tokens[q.token].superseded_at = None
          /\ q.rotates \/ tokens[q.token].rotated_at # None
    /\ q.rotates => /\ tokens[q.token].rotated_at = None
                    /\ tokens[q.token].superseded_at = None
                    /\ q.supersedes = {}
    /\ \A c \in q.supersedes :
          /\ tokens[c].parent = q.token
          /\ tokens[c].rotated_at = None
          /\ tokens[c].superseded_at = None
          /\ PastGrace(q.token, q.start)

\* What makes a hopeless call hopeless is still there for the check that is to
\* stop it, as far as the call has come.
HopelessInv(r) ==
    LET q == requests[r]
        accountDisabled == SessionOf(q.token).user \in disabled
        tokenSpent == \/ tokens[q.token].superseded_at # None
                      \/ PastGrace(q.token, q.now) /\ HasUsedSuccessor(q.token)
    IN
    q.hopeless =>
        /\ q.step = "received" => \/ SessionOf(q.token).revoked
                                 \/ SessionOf(q.token).expires_at <= q.now
                                 \/ accountDisabled
                                 \/ tokenSpent
        /\ q.step = "waiting" => ~Admits(r) \/ accountDisabled \/ tokenSpent
        /\ q.step = "retry" => accountDisabled \/ tokenSpent
        /\ q.step \in {"supersede", "user"} => accountDisabled
        /\ q.step # "issue"

\* The session a call copied is the session its token still belongs to.
SnapshotInv(r) ==
    requests[r].step \notin {"idle", "received"} =>
        requests[r].session.user = SessionOf(requests[r].token).user

\* The inductive invariant behind the theorems below: row locks exclude,
\* so what a transaction saw and staged cannot be overtaken by another one.
IInv ==
    /\ TypeOK
    /\ LocksExclude
    /\ RowsInv
    /\ SessionsInv
    /\ TabsKeepWorking
    /\ \A r \in Requests : CallInv(r) /\ SnapshotInv(r) /\ HopelessInv(r)

-----------------------------------------------------------------------------
(* The invariant is inductive *)

\* The initial tables are empty and no call is in progress.
LEMMA InitEstablishesIInv == Init => IInv
<1> SUFFICES ASSUME Init PROVE IInv
  OBVIOUS
<1> USE ConstantsAssumption DEF Init
<1>1. NoSession \in Session /\ NoToken \in Token /\ Idle \in Request
  BY DEF NoSession, Session, NoToken, Token, Idle, Request, Instant, Steps
<1>2. TypeOK
  BY <1>1 DEF TypeOK, Instant
<1>3. LocksExclude
  BY DEF LocksExclude, Holds, InTransaction, Idle
<1>4. RowsInv /\ SessionsInv
  BY DEF RowsInv, SessionsInv, NoToken, NoSession, Exists
<1>5. TabsKeepWorking
  BY DEF TabsKeepWorking, NoToken
<1>6. ASSUME NEW r \in Requests
      PROVE  CallInv(r) /\ SnapshotInv(r) /\ HopelessInv(r)
  BY DEF CallInv, SnapshotInv, HopelessInv, InTransaction, Idle
<1> QED
  BY <1>2, <1>3, <1>4, <1>5, <1>6 DEF IInv

\* A step that changes nothing but the record of one call, and leaves every
\* other call's locks alone, keeps the invariant if that call's own part holds.
LEMMA CallStep ==
    ASSUME IInv, NEW r \in Requests,
           UNCHANGED <<clock, sessions, tokens, disabled>>,
           requests' \in [Requests -> Request],
           \A q \in Requests \ {r} : requests'[q] = requests[q],
           \A t \in Tokens : Holds(r, t)' => ~LockedByOther(r, t),
           CallInv(r)', SnapshotInv(r)', HopelessInv(r)'
    PROVE  IInv'
<1>1. TypeOK'
  BY DEF IInv, TypeOK
<1>2. RowsInv' /\ SessionsInv' /\ TabsKeepWorking'
  BY DEF IInv, RowsInv, SessionsInv, TabsKeepWorking, Exists, Opened, PastGrace
<1>3. \A q \in Requests \ {r}, t \in Tokens : Holds(q, t)' <=> Holds(q, t)
  BY DEF Holds, InTransaction
<1>4. LocksExclude'
  BY <1>3 DEF IInv, LocksExclude, LockedByOther
<1>5. ASSUME NEW q \in Requests, q # r
      PROVE  CallInv(q)' /\ SnapshotInv(q)' /\ HopelessInv(q)'
  <2>1. CallInv(q)'
    BY <1>5 DEF IInv, CallInv, InTransaction, Exists, PastGrace
  <2>2. SnapshotInv(q)'
    BY <1>5 DEF IInv, SnapshotInv, SessionOf
  <2>3. requests'[q] = requests[q]
    BY <1>5
  <2>4. /\ SessionOf(requests[q].token)' = SessionOf(requests[q].token)
        /\ HasUsedSuccessor(requests[q].token)' <=> HasUsedSuccessor(requests[q].token)
        /\ PastGrace(requests[q].token, requests[q].now)'
              <=> PastGrace(requests[q].token, requests[q].now)
    BY <2>3 DEF SessionOf, PastGrace, HasUsedSuccessor, Children, Exists
  <2>5. Admits(q)' <=> Admits(q)
    BY <2>3 DEF Admits
  <2>6. HopelessInv(q)
    BY DEF IInv
  <2>7. HopelessInv(q)'
    BY <2>3, <2>4, <2>5, <2>6 DEF HopelessInv
  <2> QED
    BY <2>1, <2>2, <2>7
<1> QED
  BY <1>1, <1>2, <1>4, <1>5 DEF IInv

\* What a transaction may do to the tables: rows keep their session and parent,
\* marks once set stay, nothing touches the rows that calls still in progress
\* hold, and calls only end.
TablesMoveOn ==
    /\ clock <= clock'
    /\ disabled \subseteq disabled'
    /\ \A q \in Requests : requests'[q] \in {requests[q], Idle}
    /\ \A q \in Requests, t \in Tokens :
          Holds(q, t) /\ requests'[q] # Idle => tokens'[t] = tokens[t]
    /\ \A t \in Tokens : Exists(t) =>
          /\ tokens'[t].session = tokens[t].session
          /\ tokens'[t].parent = tokens[t].parent
          /\ tokens[t].rotated_at # None => tokens'[t].rotated_at = tokens[t].rotated_at
          /\ tokens[t].superseded_at # None =>
                tokens'[t].superseded_at = tokens[t].superseded_at
    /\ \A s \in Sessions : Opened(s) =>
          /\ sessions'[s].user = sessions[s].user
          /\ sessions'[s].expires_at = sessions[s].expires_at
          /\ sessions[s].revoked => sessions'[s].revoked

\* Such a step keeps the invariant if the rows it leaves are well formed.
LEMMA TablesStep ==
    ASSUME IInv, TablesMoveOn, TypeOK', RowsInv', SessionsInv', TabsKeepWorking'
    PROVE  IInv'
<1> USE ConstantsAssumption
<1>1. LocksExclude'
  <2>1. \A q \in Requests, t \in Tokens : Holds(q, t)' => Holds(q, t)
    BY DEF TablesMoveOn, Holds, InTransaction, Idle
  <2> QED
    BY <2>1 DEF IInv, LocksExclude
<1>2. ASSUME NEW q \in Requests
      PROVE  CallInv(q)' /\ SnapshotInv(q)' /\ HopelessInv(q)'
  <2>1. CASE requests'[q] = Idle
    BY <2>1 DEF TypeOK, Instant, CallInv, SnapshotInv, HopelessInv, InTransaction, Idle
  <2>2. CASE requests'[q] = requests[q] /\ requests'[q] # Idle
    <3>1. /\ requests[q] \in Request
          /\ requests[q].token # None =>
                requests[q].token \in Tokens /\ Exists(requests[q].token)
          /\ clock \in Nat /\ clock' \in Nat
      BY DEF IInv, TypeOK, CallInv, Request, Instant
    <3>2. \A t \in Tokens : Exists(t) =>
            /\ Exists(t)'
            /\ SessionOf(t)'.user = SessionOf(t).user
            /\ SessionOf(t)'.expires_at = SessionOf(t).expires_at
            /\ SessionOf(t).revoked => SessionOf(t)'.revoked
            /\ HasUsedSuccessor(t) => HasUsedSuccessor(t)'
      <4> SUFFICES ASSUME NEW t \in Tokens, Exists(t)
                   PROVE  /\ Exists(t)'
                          /\ SessionOf(t)'.user = SessionOf(t).user
                          /\ SessionOf(t)'.expires_at = SessionOf(t).expires_at
                          /\ SessionOf(t).revoked => SessionOf(t)'.revoked
                          /\ HasUsedSuccessor(t) => HasUsedSuccessor(t)'
        OBVIOUS
      <4>1. tokens[t].session \in Sessions /\ Opened(tokens[t].session)
        BY DEF IInv, RowsInv, TypeOK, Token, Exists
      <4> QED
        BY <4>1 DEF TablesMoveOn, Exists, SessionOf, HasUsedSuccessor, Children
    <3>3. CallInv(q)'
      BY <2>2, <3>1, <3>2
      DEF IInv, TablesMoveOn, CallInv, InTransaction, Holds, PastGrace, Request, Steps, Instant
    <3>4. SnapshotInv(q)'
      BY <2>2, <3>1, <3>2 DEF IInv, SnapshotInv, CallInv
    <3>5. HopelessInv(q)'
      BY <2>2, <3>1, <3>2
      DEF IInv, TablesMoveOn, CallInv, HopelessInv, PastGrace, Exists, Admits
    <3> QED
      BY <3>3, <3>4, <3>5
  <2> QED
    BY <2>1, <2>2 DEF TablesMoveOn
<1> QED
  BY <1>1, <1>2 DEF IInv

\* Ending a call leaves an idle record, which satisfies its part trivially.
LEMMA FinishStep ==
    ASSUME IInv, NEW r \in Requests, Finish(r),
           UNCHANGED <<clock, sessions, tokens, disabled>>
    PROVE  IInv'
<1>1. Idle \in Request
  BY ConstantsAssumption
  DEF Idle, Request, Instant, Steps, NoSession, Session
<1>2. TablesMoveOn
  BY DEF IInv, TypeOK, TablesMoveOn, Finish, Instant
<1>3. TypeOK'
  BY <1>1 DEF IInv, TypeOK, Finish
<1>4. RowsInv' /\ SessionsInv' /\ TabsKeepWorking'
  BY DEF IInv, RowsInv, SessionsInv, TabsKeepWorking, Exists, Opened, PastGrace
<1> QED
  BY <1>2, <1>3, <1>4, TablesStep

\* Every statement before the last one of a transaction, and its beginning.
LEMMA StatementStep ==
    ASSUME IInv, NEW r \in Requests,
           \/ \E t \in Tokens \cup {None}, c \in Clients : Receive(r, t, c)
           \/ FindForUpdate(r)
           \/ Refuse(r)
           \/ FindSuperseded(r)
           \/ MarkRotated(r)
           \/ FindRotated(r)
           \/ CheckSuccessors(r)
           \/ SupersedeUnusedSuccessors(r)
           \/ FindUser(r)
           \/ Abort(r)
    PROVE  IInv'
<1> USE ConstantsAssumption
<1>0. /\ clock \in Instant /\ clock \in Nat
      /\ requests \in [Requests -> Request]
      /\ requests[r] \in Request
      /\ requests[r].now \in Nat /\ requests[r].start \in Nat
      /\ tokens \in [Tokens -> Token]
      /\ requests[r].token # None =>
            requests[r].token \in Tokens /\ Exists(requests[r].token)
      /\ CallInv(r) /\ SnapshotInv(r) /\ HopelessInv(r)
  BY DEF IInv, TypeOK, CallInv, Request, Instant
<1>1. ASSUME NEW t \in Tokens \cup {None}, NEW c \in Clients, Receive(r, t, c)
      PROVE  IInv'
  <2> DEFINE dead == t # None /\ Refusable(t)
  <2>1. dead \in BOOLEAN
    OBVIOUS
  <2>2. /\ requests' = [requests EXCEPT ![r] =
                          [Idle EXCEPT !.step = "received", !.token = t, !.client = c,
                                       !.now = clock, !.hopeless = dead]]
        /\ t # None => t \in Tokens /\ Exists(t)
        /\ UNCHANGED <<clock, sessions, tokens, disabled>>
    BY <1>1 DEF Receive, Unused
  <2>3. dead => t # None /\ Refusable(t)
    OBVIOUS
  <2> HIDE DEF dead
  <2>4. requests' \in [Requests -> Request]
    <3>1. Idle \in Request
      BY DEF Request, Idle, Steps, Instant, NoSession, Session
    <3>2. [Idle EXCEPT !.step = "received", !.token = t, !.client = c,
                       !.now = clock, !.hopeless = dead] \in Request
      BY <1>0, <2>1, <3>1 DEF Request, Steps
    <3> QED
      BY <1>0, <2>2, <3>2
  <2>5. CallInv(r)'
    BY <1>0, <2>1, <2>2, <2>3 DEF CallInv, InTransaction, Idle, Exists, Instant
  <2>6. SnapshotInv(r)' /\ \A u \in Tokens : ~Holds(r, u)'
    BY <1>0, <2>2 DEF SnapshotInv, Holds, InTransaction, Idle
  <2>7. HopelessInv(r)'
    BY <1>0, <2>1, <2>2, <2>3
    DEF HopelessInv, Idle, Refusable, SessionOf, PastGrace, HasUsedSuccessor,
        Children, Exists
  <2> QED
    BY <1>0, <2>2, <2>4, <2>5, <2>6, <2>7, CallStep
<1>2. ASSUME FindForUpdate(r)
      PROVE  IInv'
  <2>1. CASE requests[r].token = None
    BY <1>2, <2>1, FinishStep DEF FindForUpdate
  <2>2. CASE requests[r].token # None
    <3>1. SessionOf(requests[r].token) \in Session
      BY <1>0, <2>2 DEF IInv, TypeOK, SessionOf, Token, Exists
    <3>2. requests'[r] = [requests[r] EXCEPT !.step = "waiting", !.start = clock,
                              !.session = SessionOf(requests[r].token)]
      BY <1>0, <1>2, <2>2 DEF FindForUpdate
    <3>3. requests' \in [Requests -> Request]
      BY <1>0, <1>2, <2>2, <3>1 DEF FindForUpdate, Request, Steps
    <3>4. CallInv(r)'
      BY <1>0, <1>2, <2>2, <3>2
      DEF FindForUpdate, CallInv, InTransaction, Request, Exists, PastGrace
    <3>5. SnapshotInv(r)' /\ \A u \in Tokens : ~Holds(r, u)'
      BY <1>0, <1>2, <2>2, <3>2 DEF FindForUpdate, SnapshotInv, Holds, InTransaction, Request, SessionOf
    <3>6. HopelessInv(r)'
      <4>1. /\ requests'[r].step = "waiting" /\ requests'[r].token = requests[r].token
            /\ requests'[r].now = requests[r].now /\ requests'[r].hopeless = requests[r].hopeless
            /\ requests'[r].session = SessionOf(requests[r].token)
        BY <1>0, <3>2 DEF Request
      <4>2. requests[r].step = "received" /\ UNCHANGED <<clock, sessions, tokens, disabled>>
        BY <1>2 DEF FindForUpdate
      <4>3. requests[r].hopeless =>
              \/ ~Admits(r)'
              \/ SessionOf(requests[r].token).user \in disabled
              \/ tokens[requests[r].token].superseded_at # None
              \/ PastGrace(requests[r].token, requests[r].now) /\ HasUsedSuccessor(requests[r].token)
        <5>1. SessionOf(requests[r].token).expires_at \in Nat
          BY <3>1 DEF Session
        <5>2. Admits(r)' => /\ ~SessionOf(requests[r].token).revoked
                            /\ ~(SessionOf(requests[r].token).expires_at <= requests[r].now)
          BY <1>0, <4>1, <5>1 DEF Admits
        <5> QED
          BY <1>0, <4>2, <5>2 DEF HopelessInv
      <4> QED
        BY <4>1, <4>2, <4>3
        DEF HopelessInv, SessionOf, PastGrace, HasUsedSuccessor, Children, Exists
    <3> QED
      BY <1>0, <1>2, <2>2, <3>3, <3>4, <3>5, <3>6, CallStep DEF FindForUpdate
  <2> QED
    BY <2>1, <2>2
<1>3. ASSUME Refuse(r) \/ Abort(r)
      PROVE  IInv'
  BY <1>3, FinishStep DEF Refuse, Abort
<1>4. ASSUME GetsLock(r)
      PROVE  /\ requests[r].token \in Tokens /\ requests[r].step = "waiting"
             /\ ~requests[r].rotates /\ requests[r].supersedes = {}
             /\ requests[r].now <= requests[r].start
             /\ tokens[requests[r].token] \in Token
             /\ \A t \in Tokens : t = requests[r].token => ~LockedByOther(r, t)
  BY <1>0, <1>4 DEF GetsLock, CallInv, InTransaction
<1>5. ASSUME FindSuperseded(r)
      PROVE  IInv'
  <2>1. requests' = [requests EXCEPT ![r].step = "revoke"]
    BY <1>5 DEF FindSuperseded, Goto
  <2>2. requests' \in [Requests -> Request]
    BY <1>0, <2>1 DEF Request, Steps
  <2>3. \A t \in Tokens : Holds(r, t)' => ~LockedByOther(r, t)
    BY <1>0, <1>4, <1>5, <2>1 DEF FindSuperseded, Holds, InTransaction, Request
  <2>4. CallInv(r)' /\ SnapshotInv(r)' /\ HopelessInv(r)'
    BY <1>0, <1>4, <1>5, <2>1
    DEF FindSuperseded, CallInv, SnapshotInv, HopelessInv, InTransaction, Request, Exists, SessionOf
  <2> QED
    BY <1>0, <1>5, <2>1, <2>2, <2>3, <2>4, CallStep DEF FindSuperseded
<1>6. ASSUME MarkRotated(r)
      PROVE  IInv'
  <2>1. requests' = [requests EXCEPT ![r].step = "user", ![r].rotates = TRUE]
    BY <1>6 DEF MarkRotated
  <2>2. requests' \in [Requests -> Request]
    BY <1>0, <2>1 DEF Request, Steps
  <2>3. \A t \in Tokens : Holds(r, t)' => ~LockedByOther(r, t)
    BY <1>0, <1>4, <1>6, <2>1 DEF MarkRotated, Holds, InTransaction, Request
  <2>4. CallInv(r)' /\ SnapshotInv(r)'
    BY <1>0, <1>4, <1>6, <2>1
    DEF MarkRotated, CallInv, SnapshotInv, InTransaction, Request, Exists, SessionOf
  <2>5. HopelessInv(r)'
    <3>1. /\ requests'[r].step = "user" /\ requests'[r].token = requests[r].token
          /\ requests'[r].hopeless = requests[r].hopeless
          /\ UNCHANGED <<clock, sessions, tokens, disabled>>
      BY <1>0, <1>6, <2>1 DEF MarkRotated, Request
    <3>2. requests[r].hopeless => SessionOf(requests[r].token).user \in disabled
      BY <1>0, <1>4, <1>6 DEF MarkRotated, GetsLock, HopelessInv, PastGrace
    <3> QED
      BY <3>1, <3>2 DEF HopelessInv, SessionOf
  <2> QED
    BY <1>0, <1>6, <2>1, <2>2, <2>3, <2>4, <2>5, CallStep DEF MarkRotated
<1>7. ASSUME FindRotated(r)
      PROVE  IInv'
  <2>0. WithinGrace(r) <=> ~PastGrace(requests[r].token, requests[r].now)
    <3>1. GetsLock(r) /\ tokens[requests[r].token].rotated_at # None
      BY <1>7 DEF FindRotated
    <3>2. tokens[requests[r].token].rotated_at \in Nat
      BY <1>4, <3>1 DEF Token, Instant
    <3> QED
      BY <1>0, <3>1, <3>2 DEF WithinGrace, PastGrace
  <2>1. PICK step \in {"user", "retry"} :
          /\ requests' = [requests EXCEPT ![r].step = step]
          /\ step = "retry" <=> PastGrace(requests[r].token, requests[r].now)
    BY <1>7, <2>0 DEF FindRotated, Goto
  <2>2. requests' \in [Requests -> Request]
    BY <1>0, <2>1 DEF Request, Steps
  <2>3. \A t \in Tokens : Holds(r, t)' => ~LockedByOther(r, t)
    BY <1>0, <1>4, <1>7, <2>1 DEF FindRotated, Holds, InTransaction, Request
  <2>4. CallInv(r)' /\ SnapshotInv(r)'
    BY <1>0, <1>4, <1>7, <2>1
    DEF FindRotated, CallInv, SnapshotInv, InTransaction, Request, Exists, SessionOf, PastGrace
  <2>5. HopelessInv(r)'
    BY <1>0, <1>4, <1>7, <2>1
    DEF FindRotated, HopelessInv, Request, SessionOf, PastGrace, HasUsedSuccessor, Children, Exists
  <2> QED
    BY <1>0, <1>7, <2>1, <2>2, <2>3, <2>4, <2>5, CallStep DEF FindRotated
<1>8. ASSUME CheckSuccessors(r) \/ FindUser(r)
      PROVE  IInv'
  <2>1. PICK step \in {"revoke", "supersede", "issue"} :
          requests' = [requests EXCEPT ![r].step = step]
    BY <1>8 DEF CheckSuccessors, FindUser, Goto
  <2>2. requests' \in [Requests -> Request]
    BY <1>0, <2>1 DEF Request, Steps
  <2>3. \A t \in Tokens : Holds(r, t)' => Holds(r, t)
    BY <1>0, <1>8, <2>1 DEF CheckSuccessors, FindUser, Holds, InTransaction, Request
  <2>4. \A t \in Tokens : Holds(r, t)' => ~LockedByOther(r, t)
    BY <2>3 DEF IInv, LocksExclude, LockedByOther
  <2>5. ASSUME CheckSuccessors(r)
        PROVE  CallInv(r)' /\ SnapshotInv(r)' /\ HopelessInv(r)'
    <3>1. CallInv(r)' /\ SnapshotInv(r)'
      BY <1>0, <2>5
      DEF CheckSuccessors, Goto, CallInv, SnapshotInv, InTransaction, Request, Exists, SessionOf, PastGrace
    <3>2. HopelessInv(r)'
      BY <1>0, <2>5
      DEF CheckSuccessors, Goto, CallInv, HopelessInv, Request, SessionOf
    <3> QED
      BY <3>1, <3>2
  <2>6. ASSUME FindUser(r)
        PROVE  CallInv(r)' /\ SnapshotInv(r)' /\ HopelessInv(r)'
    <3>1. CallInv(r)' /\ SnapshotInv(r)'
      BY <1>0, <2>6
      DEF FindUser, Goto, CallInv, SnapshotInv, InTransaction, Request, Exists, SessionOf, PastGrace
    <3>2. HopelessInv(r)'
      BY <1>0, <2>6
      DEF FindUser, Goto, SnapshotInv, HopelessInv, Request, SessionOf
    <3> QED
      BY <3>1, <3>2
  <2> QED
    BY <1>0, <1>8, <2>1, <2>2, <2>4, <2>5, <2>6, CallStep DEF CheckSuccessors, FindUser
<1>9. ASSUME SupersedeUnusedSuccessors(r)
      PROVE  IInv'
  <2> DEFINE selected == UnusedSuccessors(requests[r].token)
  <2>1. /\ requests' = [requests EXCEPT ![r].step = "user", ![r].supersedes = selected]
        /\ requests[r].step = "supersede"
        /\ \A c \in selected : ~LockedByOther(r, c)
        /\ UNCHANGED <<clock, sessions, tokens, disabled>>
    BY <1>9 DEF SupersedeUnusedSuccessors
  <2>2. /\ selected \subseteq Tokens
        /\ \A c \in selected : /\ tokens[c].parent = requests[r].token
                               /\ tokens[c].rotated_at = None
                               /\ tokens[c].superseded_at = None
    BY DEF UnusedSuccessors, Children
  <2> HIDE DEF selected
  <2>3. requests' \in [Requests -> Request]
    BY <1>0, <2>1, <2>2 DEF Request, Steps
  <2>4. \A t \in Tokens : Holds(r, t)' => ~LockedByOther(r, t)
    <3>1. Holds(r, requests[r].token) /\ requests[r].token \in Tokens
      BY <1>0, <2>1 DEF Holds, InTransaction, CallInv
    <3>2. \A t \in Tokens : Holds(r, t)' => t = requests[r].token \/ t \in selected
      BY <1>0, <2>1 DEF Holds, Request
    <3> QED
      BY <2>1, <3>1, <3>2 DEF IInv, LocksExclude, LockedByOther
  <2>5. requests[r].token \in Tokens /\ tokens[requests[r].token] \in Token
    BY <1>0, <2>1 DEF CallInv
  <2>6. PastGrace(requests[r].token, requests[r].start)
    BY <1>0, <2>1, <2>5 DEF CallInv, PastGrace, Token, Instant
  <2>7. CallInv(r)'
    BY <1>0, <2>1, <2>2, <2>6 DEF CallInv, InTransaction, Request, Exists, PastGrace
  <2>8. SnapshotInv(r)' /\ HopelessInv(r)'
    BY <1>0, <2>1 DEF SnapshotInv, HopelessInv, Request, SessionOf
  <2> QED
    BY <1>0, <2>1, <2>3, <2>4, <2>7, <2>8, CallStep
<1> QED
  BY <1>1, <1>2, <1>3, <1>5, <1>6, <1>7, <1>8, <1>9

\* The two ways a transaction commits.
LEMMA CommitStep ==
    ASSUME IInv, NEW r \in Requests, Issue(r) \/ Revoke(r)
    PROVE  TablesMoveOn /\ TypeOK' /\ RowsInv' /\ SessionsInv' /\ TabsKeepWorking'
<1> USE ConstantsAssumption
<1> DEFINE p == requests[r].token
           w == Written(r)
<1>1. /\ p \in Tokens /\ Exists(p) /\ tokens[p].session \in Sessions
      /\ Opened(tokens[p].session)
      /\ tokens \in [Tokens -> Token]
      /\ requests[r] \in Request
      /\ Holds(r, p)
  BY DEF IInv, TypeOK, CallInv, RowsInv, Issue, Revoke, Request, Token, Exists, Holds, InTransaction
<1>2. /\ w \in [Tokens -> Token]
      /\ \A t \in Tokens :
           /\ w[t].session = tokens[t].session
           /\ w[t].parent = tokens[t].parent
           /\ w[t].iat = tokens[t].iat
           /\ ~Holds(r, t) => w[t] = tokens[t]
           /\ tokens[t].rotated_at # None => w[t].rotated_at = tokens[t].rotated_at
           /\ tokens[t].superseded_at # None => w[t].superseded_at = tokens[t].superseded_at
           /\ w[t].rotated_at # None => \/ tokens[t].rotated_at # None
                                        \/ t = p /\ requests[r].rotates
           /\ w[t].superseded_at # None =>
                \/ tokens[t].superseded_at # None
                \/ /\ t \in requests[r].supersedes
                   /\ w[t].superseded_at = requests[r].start
  BY <1>1 DEF Written, IInv, CallInv, Holds, InTransaction, Request, Token
<1>3. /\ requests[r].rotates => /\ tokens[p].superseded_at = None /\ requests[r].supersedes = {}
                              /\ tokens[p].rotated_at = None
      /\ \A c \in requests[r].supersedes :
           /\ tokens[c].parent = p
           /\ tokens[c].rotated_at = None
           /\ tokens[c].superseded_at = None
           /\ PastGrace(p, requests[r].start)
           /\ c \in Tokens
      /\ requests[r].step = "issue" =>
           /\ tokens[p].superseded_at = None
           /\ requests[r].rotates \/ tokens[p].rotated_at # None
  BY <1>1 DEF IInv, CallInv, Request
<1>4. w[p].rotated_at = IF requests[r].rotates THEN requests[r].start ELSE tokens[p].rotated_at
  BY <1>1, <1>3 DEF Written, Token
<1>5. requests[r].start \in Nat /\ requests[r].now \in Instant /\ clock \in Nat
  BY <1>1 DEF IInv, TypeOK, Request, Instant
<1>6. \A t \in Tokens : w[t].superseded_at # None => w[t].rotated_at = None
  BY <1>1, <1>2, <1>3 DEF IInv, RowsInv
<1>7. \A t \in Tokens : w[t].parent # None =>
        w[w[t].parent].rotated_at # None /\ w[w[t].parent].superseded_at = None
  <2> SUFFICES ASSUME NEW t \in Tokens, w[t].parent # None
               PROVE  w[w[t].parent].rotated_at # None /\ w[w[t].parent].superseded_at = None
    OBVIOUS
  <2>1. tokens[t].parent # None /\ w[t].parent = tokens[t].parent /\ tokens[t].parent \in Tokens
    BY <1>1, <1>2 DEF Token
  <2>2. tokens[tokens[t].parent].rotated_at # None /\ tokens[tokens[t].parent].superseded_at = None
    BY <2>1 DEF IInv, RowsInv
  <2> QED
    BY <1>2, <1>3, <2>1, <2>2
<1>8. \A t \in Tokens : w[t].superseded_at # None =>
        /\ w[t].parent # None
        /\ w[w[t].parent].rotated_at # None
        /\ w[t].superseded_at - w[w[t].parent].rotated_at > Grace
  <2> SUFFICES ASSUME NEW t \in Tokens, w[t].superseded_at # None
               PROVE  /\ w[t].parent # None
                      /\ w[w[t].parent].rotated_at # None
                      /\ w[t].superseded_at - w[w[t].parent].rotated_at > Grace
    OBVIOUS
  <2>1. CASE tokens[t].superseded_at # None
    <3>1. tokens[t].parent # None /\ PastGrace(tokens[t].parent, tokens[t].superseded_at)
      BY <2>1 DEF IInv, TabsKeepWorking
    <3>2. tokens[t].parent \in Tokens
      BY <1>1, <3>1 DEF Token
    <3> QED
      BY <1>2, <2>1, <3>1, <3>2 DEF PastGrace
  <2>2. CASE tokens[t].superseded_at = None
    <3>1. t \in requests[r].supersedes /\ w[t].superseded_at = requests[r].start
      BY <1>2, <2>2
    <3> QED
      BY <1>1, <1>2, <1>3, <3>1 DEF PastGrace
  <2> QED
    BY <2>1, <2>2
<1> HIDE DEF w
<1>9. Idle \in Request
  BY DEF Idle, Request, Instant, Steps, NoSession, Session
<1>10. CASE Revoke(r)
  <2>1. /\ tokens' = w
        /\ sessions' = [sessions EXCEPT ![tokens[p].session].revoked = TRUE]
        /\ requests' = [requests EXCEPT ![r] = Idle]
        /\ UNCHANGED <<clock, disabled>>
    BY <1>10 DEF Revoke, RevokeSession, Finish, w
  <2>2. TypeOK'
    <3>1. [sessions[tokens[p].session] EXCEPT !.revoked = TRUE] \in Session
      BY <1>1 DEF IInv, TypeOK, Session
    <3>2. sessions' \in [Sessions -> Session]
      BY <1>1, <2>1, <3>1 DEF IInv, TypeOK
    <3> QED
      BY <1>2, <1>9, <2>1, <3>2 DEF IInv, TypeOK
  <2>3. TablesMoveOn
    <3>1. \A q \in Requests, t \in Tokens :
            Holds(q, t) /\ requests'[q] # Idle => tokens'[t] = tokens[t]
      BY <1>2, <2>1 DEF IInv, TypeOK, LocksExclude
    <3>2. \A q \in Requests : requests'[q] \in {requests[q], Idle}
      BY <2>1 DEF IInv, TypeOK
    <3>3. \A t \in Tokens : Exists(t) =>
            /\ tokens'[t].session = tokens[t].session
            /\ tokens'[t].parent = tokens[t].parent
            /\ tokens[t].rotated_at # None => tokens'[t].rotated_at = tokens[t].rotated_at
            /\ tokens[t].superseded_at # None =>
                  tokens'[t].superseded_at = tokens[t].superseded_at
      BY <1>2, <2>1
    <3>4. \A s \in Sessions :
            /\ sessions'[s].user = sessions[s].user
            /\ sessions'[s].expires_at = sessions[s].expires_at
            /\ sessions[s].revoked => sessions'[s].revoked
      <4>1. \A s \in Sessions : sessions[s] \in Session
        BY DEF IInv, TypeOK
      <4> QED
        BY <2>1, <4>1 DEF IInv, TypeOK, Session
    <3>5. clock <= clock' /\ disabled \subseteq disabled'
      BY <1>5, <2>1
    <3> QED
      BY <3>1, <3>2, <3>3, <3>4, <3>5, ZenonT(60) DEF TablesMoveOn
  <2>4. \A s \in Sessions : Opened(s)' <=> Opened(s)
    BY <1>1, <2>1 DEF IInv, TypeOK, Session, Opened
  <2>5. RowsInv'
    <3> SUFFICES ASSUME NEW t \in Tokens
                 PROVE  /\ ~Exists(t)' => tokens'[t] = NoToken
                        /\ Exists(t)' => Opened(tokens[t].session)'
      BY <1>6, <1>7, <2>1 DEF RowsInv
    <3>1. ~Exists(t) => ~Holds(r, t)
      BY <1>1, <1>3 DEF IInv, RowsInv, NoToken, Holds
    <3>2. Exists(t)' <=> Exists(t)
      BY <1>2, <2>1 DEF Exists
    <3>3. Exists(t) => tokens[t].session \in Sessions /\ Opened(tokens[t].session)
      BY <1>1 DEF IInv, RowsInv, Exists, Token
    <3> QED
      BY <1>2, <2>1, <2>4, <3>1, <3>2, <3>3 DEF IInv, RowsInv
  <2>6. SessionsInv'
    BY <1>1, <2>1, <2>4 DEF IInv, TypeOK, SessionsInv, Session
  <2>7. TabsKeepWorking'
    BY <1>8, <2>1 DEF TabsKeepWorking, PastGrace
  <2> QED
    BY <2>2, <2>3, <2>5, <2>6, <2>7
<1>11. CASE Issue(r)
  <2>1. PICK n \in Tokens :
          /\ ~Exists(n)
          /\ tokens' = [w EXCEPT ![n] = [NoToken EXCEPT !.session = tokens[p].session,
                                                        !.parent = p,
                                                        !.iat = requests[r].now]]
          /\ requests' = [requests EXCEPT ![r] = Idle]
          /\ requests[r].step = "issue"
          /\ UNCHANGED <<clock, sessions, disabled>>
    BY <1>11 DEF Issue, Finish, w, Unused
  <2> DEFINE row == [NoToken EXCEPT !.session = tokens[p].session, !.parent = p,
                                    !.iat = requests[r].now]
  <2>2. /\ row \in Token
        /\ row.session = tokens[p].session /\ row.parent = p
        /\ row.rotated_at = None /\ row.superseded_at = None
    BY <1>1, <1>5 DEF Token, NoToken, Instant
  <2>3. tokens' = [w EXCEPT ![n] = row]
    BY <2>1
  <2> HIDE DEF row
  <2>4. n # p /\ \A q \in Requests : ~Holds(q, n)
    <3> SUFFICES ASSUME NEW q \in Requests, Holds(q, n)
                 PROVE  FALSE
      BY <1>1, <2>1
    <3>1. requests[q].token # None => Exists(requests[q].token)
      BY DEF IInv, CallInv
    <3>2. requests[q].step \notin {"idle", "received"} /\ requests[q].token # None
      BY DEF IInv, CallInv, Holds, InTransaction
    <3>3. n \in requests[q].supersedes => tokens[n].parent # None
      BY <3>2 DEF IInv, CallInv
    <3> QED
      BY <2>1, <3>1, <3>2, <3>3 DEF Holds, IInv, RowsInv, NoToken
  <2>5. TypeOK'
    BY <1>2, <1>9, <2>1, <2>2, <2>3 DEF IInv, TypeOK
  <2>6. TablesMoveOn
    <3>1. \A q \in Requests, t \in Tokens :
            Holds(q, t) /\ requests'[q] # Idle => tokens'[t] = tokens[t]
      BY <1>2, <2>1, <2>3, <2>4 DEF IInv, TypeOK, LocksExclude
    <3> QED
      BY <1>2, <1>5, <2>1, <2>3, <3>1 DEF TablesMoveOn, IInv, TypeOK
  <2>7. w[p].rotated_at # None /\ w[p].superseded_at = None
    BY <1>1, <1>2, <1>3, <1>4, <1>5, <2>1
  <2>8. \A t \in Tokens : t # n /\ tokens'[t].parent # None => tokens'[t].parent # n
    <3> SUFFICES ASSUME NEW t \in Tokens, t # n, tokens'[t].parent = n
                 PROVE  FALSE
      OBVIOUS
    <3>1. tokens[t].parent = n
      BY <1>2, <2>3
    <3>2. tokens[n].rotated_at # None
      BY <3>1 DEF IInv, RowsInv
    <3> QED
      BY <2>1, <3>2 DEF IInv, RowsInv, NoToken
  <2>9. RowsInv'
    <3> SUFFICES ASSUME NEW t \in Tokens
                 PROVE  /\ ~Exists(t)' => tokens'[t] = NoToken
                        /\ Exists(t)' => Opened(tokens[t].session)'
                        /\ tokens'[t].parent # None =>
                              /\ tokens'[tokens'[t].parent].rotated_at # None
                              /\ tokens'[tokens'[t].parent].superseded_at = None
                        /\ tokens'[t].superseded_at # None => tokens'[t].rotated_at = None
      BY DEF RowsInv
    <3>1. CASE t = n
      <4>1. tokens'[n] = row /\ tokens'[p] = w[p]
        BY <1>1, <1>2, <2>3, <2>4
      <4>2. Exists(n)' /\ Opened(tokens[n].session)'
        BY <1>1, <2>1, <2>2, <4>1 DEF Exists, Opened
      <4> QED
        BY <2>2, <2>7, <3>1, <4>1, <4>2
    <3>2. CASE t # n
      <4>1. tokens'[t] = w[t]
        BY <1>2, <2>3, <3>2
      <4>2. ~Exists(t) => ~Holds(r, t)
        BY <1>1, <1>3 DEF IInv, RowsInv, NoToken, Holds
      <4>3. Exists(t)' <=> Exists(t)
        BY <1>2, <4>1 DEF Exists
      <4>4. Exists(t) => Opened(tokens[t].session)
        BY DEF IInv, RowsInv
      <4>5. tokens'[t].parent # None => tokens'[tokens'[t].parent] = w[tokens'[t].parent]
        BY <1>1, <1>2, <2>3, <2>8, <3>2, <4>1 DEF Token
      <4>6. ~Exists(t)' => tokens'[t] = NoToken
        BY <1>2, <4>1, <4>2, <4>3 DEF IInv, RowsInv
      <4>7. Exists(t)' => Opened(tokens[t].session)'
        BY <1>2, <2>1, <4>1, <4>3, <4>4 DEF Opened
      <4> QED
        BY <1>6, <1>7, <4>1, <4>5, <4>6, <4>7
    <3> QED
      BY <3>1, <3>2
  <2>10. SessionsInv'
    BY <2>1 DEF IInv, SessionsInv, Opened
  <2>11. TabsKeepWorking'
    <3> SUFFICES ASSUME NEW t \in Tokens, tokens'[t].superseded_at # None
                 PROVE  tokens'[t].parent # None /\ PastGrace(tokens[t].parent, tokens[t].superseded_at)'
      BY DEF TabsKeepWorking
    <3>1. t # n
      BY <1>2, <2>2, <2>3
    <3>2. tokens'[t] = w[t]
      BY <1>2, <2>3, <3>1
    <3>3. tokens'[t].parent # None /\ tokens'[tokens'[t].parent] = w[tokens'[t].parent]
      BY <1>1, <1>2, <1>8, <2>3, <2>8, <3>1, <3>2 DEF Token
    <3> QED
      BY <1>8, <3>2, <3>3 DEF PastGrace
  <2> QED
    BY <2>5, <2>6, <2>9, <2>10, <2>11
<1> QED
  BY <1>10, <1>11

\* The writers that are not token requests, and the clock.
LEMMA OtherStep ==
    ASSUME IInv,
           \/ \E s \in Sessions, u \in Users, c \in Clients : OpenSession(s, u, c)
           \/ \E t \in Tokens, c \in Clients : RevokeByRefreshToken(t, c)
           \/ \E s \in Sessions, u \in Users : RevokeForUser(s, u)
           \/ \E s \in Sessions : RevokeByAuthorizationCode(s)
           \/ \E u \in Users : DisableUser(u)
           \/ Tick
    PROVE  TablesMoveOn /\ TypeOK' /\ RowsInv' /\ SessionsInv' /\ TabsKeepWorking'
<1> USE ConstantsAssumption
<1>0. /\ clock \in Instant /\ clock \in Nat
      /\ tokens \in [Tokens -> Token]
      /\ sessions \in [Sessions -> Session]
      /\ \A t \in Tokens : Exists(t) => tokens[t].session \in Sessions
  BY DEF IInv, TypeOK, Instant, Token, Exists
<1>1. ASSUME NEW s \in Sessions, NEW u \in Users, NEW c \in Clients, OpenSession(s, u, c)
      PROVE  TablesMoveOn /\ TypeOK' /\ RowsInv' /\ SessionsInv' /\ TabsKeepWorking'
  <2>1. PICK n \in Tokens :
          /\ ~Exists(n)
          /\ tokens' = [tokens EXCEPT ![n] = [NoToken EXCEPT !.session = s, !.iat = clock]]
    BY <1>1 DEF OpenSession, Unused
  <2> DEFINE row == [NoToken EXCEPT !.session = s, !.iat = clock]
             new == [user |-> u, client |-> c, expires_at |-> clock + SessionTTL,
                     revoked |-> FALSE]
  <2>2. /\ row \in Token /\ row.session = s /\ row.parent = None
        /\ row.rotated_at = None /\ row.superseded_at = None
        /\ new \in Session /\ new.user # None
    <3>1. /\ row \in Token /\ row.session = s /\ row.parent = None
          /\ row.rotated_at = None /\ row.superseded_at = None
      BY <1>0 DEF Token, NoToken, Instant
    <3>2. new \in Session /\ new.user # None
      BY <1>0 DEF Session
    <3> QED
      BY <3>1, <3>2
  <2>3. /\ tokens' = [tokens EXCEPT ![n] = row]
        /\ sessions' = [sessions EXCEPT ![s] = new]
        /\ ~Opened(s)
        /\ UNCHANGED <<clock, disabled, requests>>
    BY <1>1, <2>1 DEF OpenSession
  <2> HIDE DEF row, new
  <2>4. TypeOK'
    BY <2>2, <2>3 DEF IInv, TypeOK
  <2>5. \A q \in Requests : ~Holds(q, n)
    <3> SUFFICES ASSUME NEW q \in Requests, Holds(q, n)
                 PROVE  FALSE
      OBVIOUS
    <3>1. requests[q].step \notin {"idle", "received"} /\ requests[q].token # None
      BY DEF IInv, CallInv, Holds, InTransaction
    <3>2. n \in requests[q].supersedes => tokens[n].parent # None
      BY <3>1 DEF IInv, CallInv
    <3> QED
      BY <2>1, <3>1, <3>2 DEF Holds, IInv, CallInv, RowsInv, NoToken
  <2>6. TablesMoveOn
    BY <1>0, <2>1, <2>3, <2>5 DEF TablesMoveOn
  <2>7. \A t \in Sessions : Opened(t) => Opened(t)'
    BY <1>0, <2>3 DEF Opened
  <2>8. tokens'[n] = row /\ \A t \in Tokens : t # n => tokens'[t] = tokens[t]
    BY <1>0, <2>3
  <2>9. \A t \in Tokens : tokens[t].parent # None => tokens[t].parent \in Tokens /\ tokens[t].parent # n
    BY <1>0, <2>1 DEF IInv, RowsInv, NoToken, Token
  <2>10. RowsInv'
    <3> SUFFICES ASSUME NEW t \in Tokens
                 PROVE  /\ ~Exists(t)' => tokens'[t] = NoToken
                        /\ Exists(t)' => Opened(tokens[t].session)'
                        /\ tokens'[t].parent # None =>
                              /\ tokens'[tokens'[t].parent].rotated_at # None
                              /\ tokens'[tokens'[t].parent].superseded_at = None
                        /\ tokens'[t].superseded_at # None => tokens'[t].rotated_at = None
      BY DEF RowsInv
    <3>1. CASE t = n
      BY <1>0, <2>2, <2>3, <2>8, <3>1 DEF Exists, Opened
    <3>2. CASE t # n
      <4>1. Exists(t)' => Opened(tokens[t].session)'
        BY <1>0, <2>7, <2>8, <3>2 DEF IInv, RowsInv, Exists, Opened
      <4> QED
        BY <2>8, <2>9, <3>2, <4>1 DEF IInv, RowsInv, Exists
    <3> QED
      BY <3>1, <3>2
  <2>11. SessionsInv'
    BY <1>0, <2>2, <2>3 DEF IInv, SessionsInv, Opened, new
  <2>12. TabsKeepWorking'
    BY <2>2, <2>8, <2>9 DEF IInv, TabsKeepWorking, PastGrace
  <2> QED
    BY <2>4, <2>6, <2>10, <2>11, <2>12
<1>2. ASSUME NEW s \in Sessions, Opened(s), RevokeSession(s),
             UNCHANGED <<clock, tokens, disabled, requests>>
      PROVE  TablesMoveOn /\ TypeOK' /\ RowsInv' /\ SessionsInv' /\ TabsKeepWorking'
  <2>1. [sessions[s] EXCEPT !.revoked = TRUE] \in Session
    BY <1>0 DEF Session
  <2>2. sessions' = [sessions EXCEPT ![s] = [sessions[s] EXCEPT !.revoked = TRUE]]
    BY <1>0, <1>2 DEF RevokeSession
  <2>3. TypeOK'
    BY <1>2, <2>1, <2>2 DEF IInv, TypeOK
  <2>4. TablesMoveOn
    BY <1>0, <1>2, <2>2 DEF TablesMoveOn, Session, Opened
  <2>5. \A t \in Sessions : Opened(t)' <=> Opened(t)
    BY <1>0, <2>2 DEF Opened, Session
  <2>6. RowsInv'
    BY <1>0, <1>2, <2>5 DEF IInv, RowsInv, Exists, Opened
  <2>7. SessionsInv'
    BY <1>0, <1>2, <2>2, <2>5 DEF IInv, SessionsInv
  <2>8. TabsKeepWorking'
    BY <1>2 DEF IInv, TabsKeepWorking, PastGrace
  <2> QED
    BY <2>3, <2>4, <2>6, <2>7, <2>8
<1>3. ASSUME NEW t \in Tokens, NEW c \in Clients, RevokeByRefreshToken(t, c)
      PROVE  TablesMoveOn /\ TypeOK' /\ RowsInv' /\ SessionsInv' /\ TabsKeepWorking'
  <2>1. tokens[t].session \in Sessions /\ Opened(tokens[t].session)
    BY <1>0, <1>3 DEF RevokeByRefreshToken, IInv, RowsInv
  <2> QED
    BY <1>2, <1>3, <2>1 DEF RevokeByRefreshToken
<1>4. ASSUME NEW s \in Sessions, NEW u \in Users, RevokeForUser(s, u)
      PROVE  TablesMoveOn /\ TypeOK' /\ RowsInv' /\ SessionsInv' /\ TabsKeepWorking'
  BY <1>2, <1>4 DEF RevokeForUser, Opened
<1>5. ASSUME NEW s \in Sessions, RevokeByAuthorizationCode(s)
      PROVE  TablesMoveOn /\ TypeOK' /\ RowsInv' /\ SessionsInv' /\ TabsKeepWorking'
  BY <1>2, <1>5 DEF RevokeByAuthorizationCode
<1>6. ASSUME Tick \/ \E u \in Users : DisableUser(u)
      PROVE  TablesMoveOn /\ TypeOK' /\ RowsInv' /\ SessionsInv' /\ TabsKeepWorking'
  <2>1. UNCHANGED <<sessions, tokens, requests>> /\ clock <= clock' /\ disabled \subseteq disabled'
    BY <1>0, <1>6 DEF Tick, DisableUser
  <2>2. TypeOK'
    BY <1>0, <1>6 DEF IInv, TypeOK, Tick, DisableUser, Instant
  <2>3. RowsInv' /\ SessionsInv' /\ TabsKeepWorking'
    BY <2>1 DEF IInv, RowsInv, SessionsInv, TabsKeepWorking, Exists, Opened, PastGrace
  <2> QED
    BY <2>1, <2>2, <2>3 DEF TablesMoveOn
<1> QED
  BY <1>1, <1>3, <1>4, <1>5, <1>6

\* Every step of the system keeps the invariant.
LEMMA NextKeepsIInv == IInv /\ [Next]_vars => IInv'
<1> SUFFICES ASSUME IInv, [Next]_vars
             PROVE  IInv'
  OBVIOUS
<1>1. CASE UNCHANGED vars
  <2>1. TablesMoveOn
    BY <1>1 DEF IInv, TypeOK, Instant, TablesMoveOn, vars
  <2>2. TypeOK' /\ RowsInv' /\ SessionsInv' /\ TabsKeepWorking'
    BY <1>1 DEF vars, IInv, TypeOK, RowsInv, SessionsInv, TabsKeepWorking, Exists, Opened, PastGrace
  <2> QED
    BY <2>1, <2>2, TablesStep
<1>2. CASE \E r \in Requests, t \in Tokens \cup {None}, c \in Clients : Receive(r, t, c)
  BY <1>2, StatementStep
<1>3. CASE \E r \in Requests : Handle(r) \/ Abort(r)
  <2>1. PICK r \in Requests : Handle(r) \/ Abort(r)
    BY <1>3
  <2>2. CASE Issue(r) \/ Revoke(r)
    BY <2>2, CommitStep, TablesStep
  <2>3. CASE ~(Issue(r) \/ Revoke(r))
    BY <2>1, <2>3, StatementStep DEF Handle
  <2> QED
    BY <2>2, <2>3
<1>4. CASE \/ \E s \in Sessions, u \in Users, c \in Clients : OpenSession(s, u, c)
           \/ \E t \in Tokens, c \in Clients : RevokeByRefreshToken(t, c)
           \/ \E s \in Sessions, u \in Users : RevokeForUser(s, u)
           \/ \E s \in Sessions : RevokeByAuthorizationCode(s)
           \/ \E u \in Users : DisableUser(u)
           \/ Tick
  BY <1>4, OtherStep, TablesStep
<1> QED
  BY <1>1, <1>2, <1>3, <1>4 DEF Next

-----------------------------------------------------------------------------
(* The theorems *)

\* The invariant holds in every reachable state, for any number of concurrent
\* calls and any sequence of them.
THEOREM IInvHolds == Spec => []IInv
BY InitEstablishesIInv, NextKeepsIInv, PTL DEF Spec

\* The tables and the calls always have their types.
THEOREM TypeCorrect == Spec => []TypeOK
<1>1. IInv => TypeOK
  BY DEF IInv
<1> QED
  BY <1>1, IInvHolds, PTL

\* A replaced successor never comes back, whichever way its own refresh and the
\* retry of its parent interleave (supersede_unused_successors, find_for_update).
THEOREM ReplacedTokensStayDead == Spec => []SupersededStaysDead
<1>1. IInv => SupersededStaysDead
  <2> SUFFICES ASSUME IInv, NEW t \in Tokens, tokens[t].superseded_at # None
               PROVE  tokens[t].rotated_at = None /\ Children(t) = {}
    BY DEF SupersededStaysDead
  <2>1. \A c \in Tokens : tokens[c].parent # t
    BY ConstantsAssumption DEF IInv, RowsInv
  <2>2. Children(t) = {}
    BY <2>1 DEF Children
  <2> QED
    BY <2>2 DEF IInv, RowsInv
<1> QED
  BY <1>1, IInvHolds, PTL

\* No token is replaced within the grace period of its parent's rotation.
THEOREM GraceProtectsTabs == Spec => []TabsKeepWorking
<1>1. IInv => TabsKeepWorking
  BY DEF IInv
<1> QED
  BY <1>1, IInvHolds, PTL

\* A call that arrives too late never issues tokens.
THEOREM TooLateMeansRefused == Spec => []LateCallsAreRefused
<1>1. IInv => LateCallsAreRefused
  BY DEF IInv, HopelessInv, LateCallsAreRefused
<1> QED
  BY <1>1, IInvHolds, PTL

\* No transaction moves or clears the mark of an earlier one.
THEOREM MarksNeverMove == Spec => MarksAreFinal
<1> DEFINE Final ==
      /\ \A t \in Tokens :
           /\ tokens[t].rotated_at # None => tokens'[t].rotated_at = tokens[t].rotated_at
           /\ tokens[t].superseded_at # None =>
                 tokens'[t].superseded_at = tokens[t].superseded_at
      /\ \A s \in Sessions : sessions[s].revoked => sessions'[s].revoked
<1>1. ASSUME IInv, TablesMoveOn
      PROVE  Final
  BY <1>1 DEF IInv, TypeOK, Session, RowsInv, SessionsInv, TablesMoveOn, NoToken
<1>2. ASSUME IInv, [Next]_vars
      PROVE  [Final]_vars
  <2>1. CASE UNCHANGED <<sessions, tokens>>
    BY <2>1
  <2>2. CASE \E r \in Requests : Issue(r) \/ Revoke(r)
    BY <1>1, <1>2, <2>2, CommitStep
  <2>3. CASE \/ \E s \in Sessions, u \in Users, c \in Clients : OpenSession(s, u, c)
             \/ \E t \in Tokens, c \in Clients : RevokeByRefreshToken(t, c)
             \/ \E s \in Sessions, u \in Users : RevokeForUser(s, u)
             \/ \E s \in Sessions : RevokeByAuthorizationCode(s)
             \/ \E u \in Users : DisableUser(u)
             \/ Tick
    BY <1>1, <1>2, <2>3, OtherStep
  <2> QED
    BY <1>2, <2>1, <2>2, <2>3
    DEF Next, vars, Handle, Receive, FindForUpdate, Refuse, FindSuperseded, MarkRotated,
        FindRotated, CheckSuccessors, SupersedeUnusedSuccessors, FindUser, Abort
<1> QED
  BY <1>2, IInvHolds, PTL DEF Spec, MarksAreFinal

\* A chain of waiting calls has two links at most: who waits for a token waits for
\* a call that holds it; who waits to replace a successor waits for a call that
\* holds an unused token, and such a call does not replace successors itself.
THEOREM NoCircularWait == Spec => []SomeCallCanGoOn
<1>1. ASSUME IInv, NEW r \in Requests, requests[r].step = "supersede", ~CanGoOn(r)
      PROVE  \E h \in InFlight : CanGoOn(h)
  <2>1. PICK c \in UnusedSuccessors(requests[r].token) : LockedByOther(r, c)
    BY <1>1 DEF CanGoOn
  <2>2. PICK h \in Requests : Holds(h, c)
    BY <2>1 DEF LockedByOther
  <2>3. tokens[c].rotated_at = None
    BY DEF UnusedSuccessors
  <2>4. requests[h].step # "supersede"
    BY <1>1, <2>2, <2>3 DEF IInv, CallInv, Holds, PastGrace
  <2>5. requests[h].step \notin {"idle", "waiting"}
    BY <2>2 DEF Holds, InTransaction
  <2> QED
    BY <2>4, <2>5 DEF CanGoOn, InFlight
<1>2. IInv => SomeCallCanGoOn
  <2> SUFFICES ASSUME IInv, NEW r \in InFlight, ~CanGoOn(r)
               PROVE  \E h \in InFlight : CanGoOn(h)
    BY DEF SomeCallCanGoOn
  <2>1. r \in Requests
    BY DEF InFlight
  <2>2. CASE requests[r].step = "supersede"
    BY <1>1, <2>1, <2>2
  <2>3. CASE requests[r].step # "supersede"
    <3>1. PICK h \in Requests : Holds(h, requests[r].token)
      BY <2>1, <2>3 DEF CanGoOn, LockedByOther
    <3>2. h \in InFlight /\ requests[h].step # "waiting"
      BY <3>1 DEF Holds, InTransaction, InFlight
    <3>3. CASE requests[h].step = "supersede"
      BY <1>1, <3>2, <3>3
    <3>4. CASE requests[h].step # "supersede"
      BY <3>2, <3>4 DEF CanGoOn
    <3> QED
      BY <3>3, <3>4
  <2> QED
    BY <2>2, <2>3
<1> QED
  BY <1>2, IInvHolds, PTL

-----------------------------------------------------------------------------
(* Retries, and the refinement of TokenFamily *)

\* A transaction that replaces successors replaces all that nobody has used: the
\* rows it read cannot change, nor their number grow, while it holds them and
\* their parent.  A call past the grace period that may still issue has done so.
RetryInv(r) ==
    LET q == requests[r] IN
    /\ InTransaction(r) => q.supersedes \in {{}, UnusedSuccessors(q.token)}
    /\ q.step \in {"user", "issue"} /\ PastGrace(q.token, q.now) =>
          q.supersedes = UnusedSuccessors(q.token)

\* The second inductive invariant, on top of IInv.
RetriesInv == OneRetryLives /\ \A r \in Requests : RetryInv(r)

\* What a commit writes: the mark of the token it refreshes, the marks of the
\* successors it replaces and, if it issues, one new row (the set new).
Commits(r, new) ==
    LET q == requests[r] IN
    /\ Revoke(r) => new = {}
    /\ Issue(r) => \E n \in Unused : new = {n}
    /\ \A t \in new : tokens'[t] = [session |-> tokens[q.token].session,
                                    parent |-> q.token, rotated_at |-> None,
                                    superseded_at |-> None, iat |-> q.now]
    /\ \A t \in Tokens \ new :
         tokens'[t] = [tokens[t] EXCEPT
           !.rotated_at = IF q.rotates /\ t = q.token THEN q.start ELSE @,
           !.superseded_at = IF t \in q.supersedes THEN q.start ELSE @]

\* Commits is what the last statement of a transaction does.
LEMMA CommitRows ==
    ASSUME IInv, NEW r \in Requests, Issue(r) \/ Revoke(r)
    PROVE  /\ requests[r].token \in Tokens /\ Exists(requests[r].token) /\ InTransaction(r)
           /\ requests' = [requests EXCEPT ![r] = Idle]
           /\ \E new \in SUBSET Unused : Commits(r, new)
<1> DEFINE q == requests[r]
           w == Written(r)
<1> USE ConstantsAssumption
<1>1. q.token \in Tokens /\ Exists(q.token) /\ InTransaction(r) /\ tokens \in [Tokens -> Token]
  BY DEF IInv, TypeOK, CallInv, Request, Issue, Revoke, InTransaction
<1>2. q.rotates => q.supersedes = {} /\ tokens[q.token].rotated_at = None
  BY DEF IInv, CallInv
<1>3. w \in [Tokens -> Token] /\ \A t \in Tokens :
        w[t] = [tokens[t] EXCEPT
                  !.rotated_at = IF q.rotates /\ t = q.token THEN q.start ELSE @,
                  !.superseded_at = IF t \in q.supersedes THEN q.start ELSE @]
  <2>1. q.start \in Instant
    BY DEF IInv, TypeOK, Request
  <2> QED
    BY ZenonT(60), <1>1, <1>2, <2>1 DEF Written, Token
<1>4. requests' = [requests EXCEPT ![r] = Idle]
  BY DEF Issue, Revoke, Finish
<1>5. CASE Revoke(r)
  <2>1. tokens' = w /\ ~Issue(r)
    BY <1>5 DEF Revoke, Issue
  <2> HIDE DEF w
  <2>2. Commits(r, {})
    BY <1>3, <2>1 DEF Commits
  <2> QED
    BY <1>1, <1>4, <2>2
<1>6. CASE Issue(r)
  <2>1. PICK n \in Unused :
          tokens' = [w EXCEPT ![n] = [NoToken EXCEPT !.session = tokens[q.token].session,
                                                     !.parent = q.token, !.iat = q.now]]
    BY <1>6 DEF Issue
  <2> HIDE DEF w
  <2>2. tokens'[n] = [session |-> tokens[q.token].session, parent |-> q.token,
                      rotated_at |-> None, superseded_at |-> None, iat |-> q.now]
    BY <1>3, <2>1 DEF NoToken, Unused
  <2>3. \A t \in Tokens \ {n} : tokens'[t] = w[t]
    BY <1>3, <2>1
  <2>4. ~Revoke(r) /\ {n} \in SUBSET Unused
    BY <1>6 DEF Issue, Revoke
  <2>5. Commits(r, {n})
    BY <1>3, <2>2, <2>3, <2>4 DEF Commits
  <2> QED
    BY <1>1, <1>4, <2>4, <2>5
<1> QED
  BY <1>5, <1>6

\* A commit leaves at most one late successor, and cannot touch what a call
\* still in progress has read: it would have to hold the same rows.
LEMMA CommitKeepsRetries ==
    ASSUME IInv, RetriesInv, NEW r \in Requests, Issue(r) \/ Revoke(r)
    PROVE  RetriesInv'
<1> DEFINE p == requests[r].token
<1> USE ConstantsAssumption
<1>1. /\ p \in Tokens /\ Exists(p) /\ InTransaction(r)
      /\ requests' = [requests EXCEPT ![r] = Idle]
  BY CommitRows
<1>2. PICK new \in SUBSET Unused : Commits(r, new)
  BY CommitRows
<1>3. /\ requests[r] \in Request /\ requests \in [Requests -> Request]
      /\ tokens \in [Tokens -> Token]
      /\ new \subseteq Tokens
      /\ \A t \in new : ~Exists(t) /\ tokens[t] = NoToken
  BY DEF IInv, TypeOK, RowsInv, Unused
<1>4. /\ new # {} => requests[r].step = "issue"
      /\ \A b, c \in new : b = c
  BY <1>2 DEF Commits, Issue, Revoke
<1>5. \A t \in new : /\ tokens'[t].parent = p /\ tokens'[t].iat = requests[r].now
                     /\ tokens'[t].rotated_at = None /\ tokens'[t].superseded_at = None
  <2>1. \A t \in new : tokens'[t] = [session |-> tokens[p].session, parent |-> p,
                                     rotated_at |-> None, superseded_at |-> None,
                                     iat |-> requests[r].now]
    BY <1>2, Zenon DEF Commits
  <2> QED
    BY <2>1
<1>6. \A t \in Tokens \ new :
        /\ tokens'[t].session = tokens[t].session /\ tokens'[t].parent = tokens[t].parent
        /\ tokens'[t].iat = tokens[t].iat
        /\ tokens'[t].rotated_at = IF requests[r].rotates /\ t = p
                                   THEN requests[r].start ELSE tokens[t].rotated_at
        /\ tokens'[t].superseded_at = IF t \in requests[r].supersedes
                                      THEN requests[r].start ELSE tokens[t].superseded_at
  <2>1. \A t \in Tokens \ new :
          tokens'[t] = [tokens[t] EXCEPT
            !.rotated_at = IF requests[r].rotates /\ t = p THEN requests[r].start ELSE @,
            !.superseded_at = IF t \in requests[r].supersedes THEN requests[r].start ELSE @]
    BY <1>2, Zenon DEF Commits
  <2> TAKE t \in Tokens \ new
  <2>2. tokens[t] \in Token
    BY <1>3
  <2>3. tokens'[t] = [tokens[t] EXCEPT
          !.rotated_at = IF requests[r].rotates /\ t = p THEN requests[r].start ELSE @,
          !.superseded_at = IF t \in requests[r].supersedes THEN requests[r].start ELSE @]
    BY <2>1, Zenon
  <2> QED
    BY <2>2, <2>3 DEF Token
<1>7. /\ requests[r].start \in Nat
      /\ requests[r].rotates => tokens[p].rotated_at = None
      /\ \A c \in requests[r].supersedes : tokens[c].parent = p
  BY <1>3 DEF IInv, CallInv, Request, Instant
<1>8. \A x, c \in Tokens :
        /\ c \in UnusedSuccessors(x)' => \/ c \in new /\ x = p
                                         \/ c \in UnusedSuccessors(x) \ requests[r].supersedes
        /\ c \in UnusedSuccessors(x) /\ c # p /\ x # p => c \in UnusedSuccessors(x)'
  BY <1>3, <1>5, <1>6, <1>7 DEF UnusedSuccessors, Children, Exists, NoToken
<1>9. OneRetryLives'
  <2> SUFFICES ASSUME NEW x \in Tokens, NEW b \in UnusedSuccessors(x)',
                      NEW c \in UnusedSuccessors(x)',
                      PastGrace(x, tokens[b].iat)', PastGrace(x, tokens[c].iat)'
               PROVE  b = c
    BY DEF OneRetryLives
  <2>1. b \in Tokens /\ c \in Tokens /\ x \notin new
    BY <1>5 DEF UnusedSuccessors, Children, PastGrace
  <2>2. CASE requests[r].rotates /\ x = p
    <3>1. UnusedSuccessors(p) = {}
      BY <1>1, <1>7, <2>2 DEF IInv, RowsInv, UnusedSuccessors, Children
    <3> QED
      BY <1>4, <1>8, <2>1, <2>2, <3>1
  <2>3. CASE ~(requests[r].rotates /\ x = p)
    <3>1. PastGrace(x, tokens'[b].iat) /\ PastGrace(x, tokens'[c].iat)
      BY <1>6, <2>1, <2>3 DEF PastGrace
    <3>2. b \in new \/ c \in new => requests[r].supersedes = UnusedSuccessors(p) /\ x = p
      <4> SUFFICES ASSUME b \in new \/ c \in new
                   PROVE  requests[r].supersedes = UnusedSuccessors(p) /\ x = p
        OBVIOUS
      <4>1. x = p
        BY <1>3, <1>8, <2>1 DEF UnusedSuccessors, Children
      <4>2. PastGrace(p, requests[r].now) /\ requests[r].step = "issue"
        BY <1>4, <1>5, <3>1, <4>1
      <4> QED
        BY <4>1, <4>2 DEF RetriesInv, RetryInv
    <3>3. CASE b \in new \/ c \in new
      BY <1>4, <1>8, <2>1, <3>2, <3>3
    <3>4. CASE b \notin new /\ c \notin new
      <4>1. b \in UnusedSuccessors(x) /\ c \in UnusedSuccessors(x)
        BY <1>8, <2>1, <3>4
      <4>2. tokens'[b].iat = tokens[b].iat /\ tokens'[c].iat = tokens[c].iat
        BY <1>6, <2>1, <3>4
      <4> QED
        BY <3>1, <4>1, <4>2 DEF RetriesInv, OneRetryLives
    <3> QED
      BY <3>3, <3>4
  <2> QED
    BY <2>2, <2>3
<1>10. ASSUME NEW q \in Requests
       PROVE  RetryInv(q)'
  <2>1. CASE q = r
    BY <1>1, <1>3, <2>1 DEF RetryInv, InTransaction, Idle
  <2>2. CASE q # r /\ ~InTransaction(q)
    BY <1>1, <1>3, <2>2 DEF RetryInv, InTransaction
  <2>3. CASE q # r /\ InTransaction(q)
    <3> DEFINE x == requests[q].token
    <3>1. requests'[q] = requests[q] /\ RetryInv(q) /\ InTransaction(q)'
      BY <1>1, <1>3, <2>3 DEF RetriesInv, InTransaction
    <3>2. x \in Tokens /\ Exists(x) /\ Holds(q, x) /\ x # p /\ x \notin new
      BY <1>1, <1>3, <2>3 DEF IInv, TypeOK, CallInv, Request, InTransaction, Holds, LocksExclude
    <3>3. tokens'[x].rotated_at = tokens[x].rotated_at
      BY <1>6, <3>2
    <3>4. PastGrace(x, requests[q].now)' <=> PastGrace(x, requests[q].now)
      BY <3>1, <3>3 DEF PastGrace
    <3>5. ASSUME requests[q].supersedes = UnusedSuccessors(x)
          PROVE  requests[q].supersedes = UnusedSuccessors(x)'
      <4>1. p \notin UnusedSuccessors(x)
        BY <1>1, <2>3, <3>5 DEF IInv, LocksExclude, Holds
      <4>2. UnusedSuccessors(x)' \subseteq Tokens /\ UnusedSuccessors(x) \subseteq Tokens
        BY DEF UnusedSuccessors, Children
      <4> QED
        BY <1>8, <3>1, <3>2, <3>5, <4>1, <4>2
    <3> QED
      <4>1. /\ requests[q].supersedes \in {{}, UnusedSuccessors(x)}
            /\ requests[q].step \in {"user", "issue"} /\ PastGrace(x, requests[q].now) =>
                  requests[q].supersedes = UnusedSuccessors(x)
        BY <2>3, <3>1 DEF RetryInv
      <4>2. /\ requests'[q].supersedes \in {{}, UnusedSuccessors(x)'}
            /\ requests'[q].step \in {"user", "issue"} /\ PastGrace(x, requests[q].now)' =>
                  requests'[q].supersedes = UnusedSuccessors(x)'
        BY <3>1, <3>4, <3>5, <4>1
      <4> QED
        BY <4>2 DEF RetryInv
  <2> QED
    BY <2>1, <2>2, <2>3
<1> QED
  BY <1>9, <1>10 DEF RetriesInv

\* A step that leaves the tokens alone keeps it if the calls it moves have read
\* what their step says.
LEMMA UnchangedTokensKeepRetries ==
    ASSUME RetriesInv, UNCHANGED tokens,
           \A q \in Requests : requests'[q] = requests[q] \/ RetryInv(q)'
    PROVE  RetriesInv'
<1>1. \A x \in Tokens \cup {None} : UnusedSuccessors(x)' = UnusedSuccessors(x)
  BY DEF UnusedSuccessors, Children, Exists
<1>2. OneRetryLives'
  BY <1>1 DEF RetriesInv, OneRetryLives, PastGrace
<1>3. ASSUME NEW q \in Requests, requests'[q] = requests[q]
      PROVE  RetryInv(q)'
  BY <1>1, <1>3 DEF RetriesInv, RetryInv, PastGrace, InTransaction, UnusedSuccessors,
                    Children, Exists
<1> QED
  BY <1>2, <1>3 DEF RetriesInv

\* Every step of the system keeps the second invariant.
LEMMA NextKeepsRetriesInv == IInv /\ RetriesInv /\ [Next]_vars => RetriesInv'
<1> SUFFICES ASSUME IInv, RetriesInv, [Next]_vars
             PROVE  RetriesInv'
  OBVIOUS
<1> USE ConstantsAssumption
<1>0. requests \in [Requests -> Request] /\ tokens \in [Tokens -> Token]
  BY DEF IInv, TypeOK
<1>1. ASSUME UNCHANGED <<tokens, requests>>
      PROVE  RetriesInv'
  BY <1>1, UnchangedTokensKeepRetries
<1>2. ASSUME NEW r \in Requests, UNCHANGED tokens,
             \A q \in Requests \ {r} : requests'[q] = requests[q],
             RetryInv(r)'
      PROVE  RetriesInv'
  BY <1>2, UnchangedTokensKeepRetries
<1>3. ASSUME NEW r \in Requests,
             \/ \E t \in Tokens \cup {None}, c \in Clients : Receive(r, t, c)
             \/ FindForUpdate(r) \/ Refuse(r) \/ Abort(r)
      PROVE  RetriesInv'
  <2>1. requests'[r].step \in {"idle", "received", "waiting"}
    <3>1. ASSUME NEW t \in Tokens \cup {None}, NEW c \in Clients, Receive(r, t, c)
          PROVE  requests'[r].step = "received"
      BY <1>0, <3>1 DEF Receive, Idle
    <3>2. ASSUME FindForUpdate(r) \/ Refuse(r) \/ Abort(r)
          PROVE  requests'[r].step \in {"idle", "waiting"}
      <4>1. CASE Finish(r)
        BY <1>0, <4>1 DEF Finish, Idle
      <4>2. CASE requests' = [requests EXCEPT
                  ![r].step = "waiting", ![r].start = clock,
                  ![r].session = SessionOf(requests[r].token)]
        BY <1>0, <4>2 DEF Request
      <4> QED
        BY <3>2, <4>1, <4>2 DEF FindForUpdate, Refuse, Abort
    <3> QED
      BY <1>3, <3>1, <3>2
  <2>2. RetryInv(r)'
    BY <2>1 DEF RetryInv, InTransaction
  <2> QED
    BY <1>0, <1>2, <1>3, <2>2 DEF Receive, FindForUpdate, Refuse, Abort, Finish
<1>4. ASSUME NEW r \in Requests, FindSuperseded(r) \/ MarkRotated(r) \/ FindRotated(r)
      PROVE  RetriesInv'
  <2>1. requests[r].supersedes = {} /\ requests[r].token \in Tokens
    BY <1>0, <1>4 DEF IInv, CallInv, InTransaction, FindSuperseded, MarkRotated, FindRotated,
                      GetsLock, Request
  <2>2. /\ requests'[r].supersedes = {} /\ requests'[r].token = requests[r].token
        /\ requests'[r].now = requests[r].now
        /\ requests'[r].step = "user" => ~PastGrace(requests[r].token, requests[r].now)
        /\ requests'[r].step # "issue"
    BY <1>0, <1>4, <2>1 DEF FindSuperseded, MarkRotated, FindRotated, Goto, PastGrace,
                            WithinGrace, Request, Token, Instant
  <2>3. tokens' = tokens
    BY <1>4 DEF FindSuperseded, MarkRotated, FindRotated
  <2>4. RetryInv(r)'
    BY <2>2, <2>3 DEF RetryInv, PastGrace
  <2> QED
    BY <1>0, <1>2, <1>4, <2>3, <2>4 DEF FindSuperseded, MarkRotated, FindRotated, Goto
<1>5. ASSUME NEW r \in Requests, CheckSuccessors(r)
      PROVE  RetriesInv'
  <2>1. requests[r].supersedes = {}
    BY <1>5 DEF IInv, CallInv, CheckSuccessors
  <2>2. RetryInv(r)'
    BY <1>0, <1>5, <2>1 DEF CheckSuccessors, Goto, RetryInv
  <2> QED
    BY <1>0, <1>2, <1>5, <2>2 DEF CheckSuccessors, Goto
<1>6. ASSUME NEW r \in Requests, SupersedeUnusedSuccessors(r)
      PROVE  RetriesInv'
  <2>1. RetryInv(r)'
    BY <1>0, <1>6 DEF SupersedeUnusedSuccessors, RetryInv, UnusedSuccessors, Children, Exists
  <2> QED
    BY <1>0, <1>2, <1>6, <2>1 DEF SupersedeUnusedSuccessors
<1>7. ASSUME NEW r \in Requests, FindUser(r)
      PROVE  RetriesInv'
  <2>1. RetryInv(r)
    BY DEF RetriesInv
  <2>2. RetryInv(r)'
    BY <1>0, <1>7, <2>1 DEF FindUser, Goto, RetryInv, InTransaction, PastGrace,
                            UnusedSuccessors, Children, Exists
  <2> QED
    BY <1>0, <1>2, <1>7, <2>2 DEF FindUser, Goto
<1>8. ASSUME NEW s \in Sessions, NEW u \in Users, NEW c \in Clients, OpenSession(s, u, c)
      PROVE  RetriesInv'
  <2>1. PICK n \in Tokens :
          /\ ~Exists(n)
          /\ tokens' = [tokens EXCEPT ![n] = [NoToken EXCEPT !.session = s, !.iat = clock]]
          /\ requests' = requests
    BY <1>8 DEF OpenSession, Unused
  <2>2. /\ tokens[n] = NoToken /\ tokens'[n].parent = None /\ tokens'[n].rotated_at = None
        /\ \A t \in Tokens \ {n} : tokens'[t] = tokens[t]
    BY <1>0, <2>1 DEF IInv, RowsInv, NoToken
  <2>3. \A x \in Tokens : UnusedSuccessors(x)' = UnusedSuccessors(x)
    BY <2>1, <2>2 DEF UnusedSuccessors, Children, Exists, NoToken
  <2>4. \A x \in Tokens : \A i : PastGrace(x, i)' <=> PastGrace(x, i)
    BY <2>2 DEF PastGrace, NoToken
  <2>5. \A x, t \in Tokens : t \in UnusedSuccessors(x) => tokens'[t].iat = tokens[t].iat
    BY <2>1, <2>2 DEF UnusedSuccessors, Children
  <2>6. OneRetryLives'
    BY <2>2, <2>3, <2>5 DEF RetriesInv, OneRetryLives, PastGrace, UnusedSuccessors, Children,
                            NoToken
  <2>7. ASSUME NEW q \in Requests
        PROVE  RetryInv(q)'
    <3>1. InTransaction(q) => requests[q].token \in Tokens \ {n}
      BY <1>0, <2>1 DEF IInv, CallInv, InTransaction, Request
    <3> QED
      BY <2>1, <2>2, <2>3, <3>1 DEF RetriesInv, RetryInv, InTransaction, PastGrace
  <2> QED
    BY <2>6, <2>7 DEF RetriesInv
<1>9. CASE Next
  BY <1>1, <1>3, <1>4, <1>5, <1>6, <1>7, <1>8, <1>9, CommitKeepsRetries
  DEF Next, Handle, RevokeByRefreshToken, RevokeForUser, RevokeByAuthorizationCode,
      DisableUser, Tick
<1> QED
  BY <1>1, <1>9 DEF vars

\* Transactions replace all the unused successors of their token or none.
THEOREM RetriesInvHolds == Spec => []RetriesInv
<1>1. Init => RetriesInv
  BY DEF Init, RetriesInv, OneRetryLives, UnusedSuccessors, Children, Exists, NoToken,
         RetryInv, InTransaction, Idle
<1> QED
  BY <1>1, IInvHolds, NextKeepsRetriesInv, PTL DEF Spec

\* Of the successors that retries past the grace period were sent, one at most is
\* neither used nor replaced, however many retries overlap.
THEOREM OneLateSuccessor == Spec => []OneRetryLives
<1>1. RetriesInv => OneRetryLives
  BY DEF RetriesInv
<1> QED
  BY <1>1, RetriesInvHolds, PTL
\* The empty tables are TokenFamily's initial state.
LEMMA InitImplements == Init => Family!Init
<1> SUFFICES ASSUME Init PROVE Family!Init
  OBVIOUS
<1>1. \A t \in Tokens : AbstractToken(t) = Family!Unissued
  BY DEF Init, AbstractToken, Exists, NoToken, Family!Unissued
<1>2. \A s \in Sessions : AbstractSession(s) = "unopened"
  BY DEF Init, AbstractSession, Opened, NoSession
<1> QED
  BY <1>1, <1>2 DEF Family!Init

\* The fields of an abstract token, and the successors a retry may replace.
LEMMA AbstractFields ==
    ASSUME IInv
    PROVE  /\ \A t \in Tokens :
                /\ AbstractToken(t).session = tokens[t].session
                /\ AbstractToken(t).parent = tokens[t].parent
                /\ ~Exists(t) => AbstractToken(t) = Family!Unissued
                /\ AbstractToken(t).state = IF ~Exists(t) THEN "unissued"
                                            ELSE IF tokens[t].superseded_at # None THEN "dead"
                                            ELSE IF tokens[t].rotated_at # None THEN "used"
                                            ELSE "fresh"
           /\ \A t \in Tokens : Family!FreshSuccessors(t) = UnusedSuccessors(t)
<1>1. \A t \in Tokens :
        /\ AbstractToken(t).session = tokens[t].session
        /\ AbstractToken(t).parent = tokens[t].parent
        /\ AbstractToken(t).state = IF ~Exists(t) THEN "unissued"
                                    ELSE IF tokens[t].superseded_at # None THEN "dead"
                                    ELSE IF tokens[t].rotated_at # None THEN "used"
                                    ELSE "fresh"
  <2> TAKE t \in Tokens
  <2>1. CASE ~Exists(t)
    BY <2>1 DEF IInv, RowsInv, NoToken, AbstractToken
  <2>2. CASE Exists(t) /\ tokens[t].superseded_at # None
    BY <2>2 DEF IInv, RowsInv, AbstractToken
  <2>3. CASE Exists(t) /\ tokens[t].superseded_at = None /\ tokens[t].rotated_at # None
    BY <2>3 DEF AbstractToken
  <2>4. CASE Exists(t) /\ tokens[t].superseded_at = None /\ tokens[t].rotated_at = None
    BY <2>4 DEF AbstractToken
  <2> QED
    BY <2>1, <2>2, <2>3, <2>4
<1>2. \A t \in Tokens : ~Exists(t) => AbstractToken(t) = Family!Unissued
  BY DEF IInv, RowsInv, NoToken, AbstractToken, Family!Unissued
<1>3. \A t \in Tokens : Family!FreshSuccessors(t) = UnusedSuccessors(t)
  BY <1>1 DEF Family!FreshSuccessors, UnusedSuccessors, Children
<1> QED
  BY <1>1, <1>2, <1>3

\* The marks of a refresh: the token is used, the successors it replaces are dead.
LEMMA MarksImplement ==
    ASSUME IInv, NEW r \in Requests, Issue(r) \/ Revoke(r),
           NEW new \in SUBSET Unused, Commits(r, new),
           tokens[requests[r].token].superseded_at = None,
           requests[r].rotates \/ tokens[requests[r].token].rotated_at # None
    PROVE  /\ Family!Usable(requests[r].token)
           /\ \A t \in Tokens \ new :
                AbstractToken(t)' = Family!Used(requests[r].token, requests[r].supersedes)[t]
<1> DEFINE p == requests[r].token
<1> USE ConstantsAssumption
<1>1. /\ p \in Tokens /\ Exists(p) /\ tokens \in [Tokens -> Token]
      /\ requests[r].start \in Nat
  BY CommitRows DEF IInv, TypeOK, Request, Instant
<1>2. Family!Usable(p)
  BY <1>1, AbstractFields DEF Family!Usable
<1>3. ASSUME NEW t \in Tokens \ new
      PROVE  AbstractToken(t)' = Family!Used(p, requests[r].supersedes)[t]
  <2>1. tokens'[t] = [tokens[t] EXCEPT
          !.rotated_at = IF requests[r].rotates /\ t = p THEN requests[r].start ELSE @,
          !.superseded_at = IF t \in requests[r].supersedes THEN requests[r].start ELSE @]
    BY <1>3, Zenon DEF Commits
  <2>2. /\ tokens'[t].session = tokens[t].session /\ tokens'[t].parent = tokens[t].parent
        /\ tokens'[t].rotated_at = IF requests[r].rotates /\ t = p
                                   THEN requests[r].start ELSE tokens[t].rotated_at
        /\ tokens'[t].superseded_at = IF t \in requests[r].supersedes
                                      THEN requests[r].start ELSE tokens[t].superseded_at
    <3>1. tokens[t] \in Token
      BY <1>1
    <3> QED
      BY <2>1, <3>1 DEF Token
  <2>3. \A c \in requests[r].supersedes :
          c # p /\ tokens[c].parent = p /\ tokens[c].rotated_at = None
    BY <1>1 DEF IInv, CallInv
  <2>4. t \in requests[r].supersedes => Exists(t)
    BY <1>1, <2>3 DEF IInv, RowsInv, NoToken
  <2>5. Exists(t)' <=> Exists(t)
    BY <2>2 DEF Exists
  <2> DEFINE state == CASE t = p -> "used"
                        [] t \in requests[r].supersedes -> "dead"
                        [] OTHER -> AbstractToken(t).state
  <2>6. AbstractToken(t)' = [state |-> state, session |-> tokens[t].session,
                             parent |-> tokens[t].parent]
    <3>1. CASE t = p
      BY <1>1, <2>2, <2>3, <2>5, <3>1 DEF AbstractToken
    <3>2. CASE t # p /\ t \in requests[r].supersedes
      BY <1>1, <2>2, <2>3, <2>4, <2>5, <3>2 DEF AbstractToken
    <3>3. CASE t # p /\ t \notin requests[r].supersedes
      <4>1. /\ tokens'[t].rotated_at = tokens[t].rotated_at
            /\ tokens'[t].superseded_at = tokens[t].superseded_at
        BY <2>2, <3>3
      <4>2. state = AbstractToken(t).state
        BY <3>3
      <4>3. AbstractToken(t)' = AbstractToken(t)
        BY <2>2, <2>5, <4>1 DEF AbstractToken
      <4>4. AbstractToken(t) = [state |-> AbstractToken(t).state,
                                session |-> tokens[t].session, parent |-> tokens[t].parent]
        BY DEF AbstractToken
      <4> HIDE DEF state
      <4> QED
        BY <4>2, <4>3, <4>4
    <3> QED
      BY <3>1, <3>2, <3>3
  <2>7. Family!Used(p, requests[r].supersedes)[t] = [AbstractToken(t) EXCEPT !.state = state]
    BY DEF Family!Used
  <2>8. [AbstractToken(t) EXCEPT !.state = state] =
          [state |-> state, session |-> tokens[t].session, parent |-> tokens[t].parent]
    BY DEF AbstractToken
  <2> QED
    BY <2>6, <2>7, <2>8
<1> QED
  BY <1>2, <1>3

\* Every step of the endpoint is one step of TokenFamily, or none: only a commit
\* shows in its state.
LEMMA StepImplements == IInv /\ RetriesInv /\ [Next]_vars => [Family!Next]_(Family!vars)
<1> SUFFICES ASSUME IInv, RetriesInv, [Next]_vars
             PROVE  [Family!Next]_(Family!vars)
  OBVIOUS
<1> USE ConstantsAssumption
<1>0. sessions \in [Sessions -> Session] /\ tokens \in [Tokens -> Token]
  BY DEF IInv, TypeOK
<1>1. ASSUME UNCHANGED <<sessions, tokens>>
      PROVE  UNCHANGED Family!vars
  BY <1>1 DEF Family!vars, AbstractSession, AbstractToken, Opened, Exists
<1>2. ASSUME NEW s \in Sessions, Opened(s), RevokeSession(s)
      PROVE  /\ AbstractSession(s) # "unopened"
             /\ [z \in Sessions |-> AbstractSession(z)]'
                  = [[z \in Sessions |-> AbstractSession(z)] EXCEPT ![s] = "revoked"]
  <2>1. \A z \in Sessions : /\ sessions'[z].user = sessions[z].user
                            /\ sessions'[z].revoked = IF z = s THEN TRUE ELSE sessions[z].revoked
    BY <1>0, <1>2 DEF RevokeSession, Session
  <2>2. AbstractSession(s) # "unopened" /\ AbstractSession(s)' = "revoked"
    BY <1>2, <2>1 DEF AbstractSession, Opened
  <2>3. \A z \in Sessions \ {s} : AbstractSession(z)' = AbstractSession(z)
    BY <2>1 DEF AbstractSession, Opened
  <2> QED
    BY <2>2, <2>3
<1>3. ASSUME NEW s \in Sessions, Opened(s), RevokeSession(s), UNCHANGED tokens
      PROVE  Family!Next
  <2>1. [t \in Tokens |-> AbstractToken(t)]' = [t \in Tokens |-> AbstractToken(t)]
    BY <1>3 DEF AbstractToken, Exists
  <2>2. Family!Revoke(s)
    BY <1>2, <1>3, <2>1 DEF Family!Revoke
  <2> QED
    BY <2>2 DEF Family!Next
<1>4. ASSUME NEW s \in Sessions, NEW u \in Users, NEW c \in Clients, OpenSession(s, u, c)
      PROVE  Family!Next
  <2>1. PICK n \in Tokens :
          /\ ~Exists(n)
          /\ tokens' = [tokens EXCEPT ![n] = [NoToken EXCEPT !.session = s, !.iat = clock]]
    BY <1>4 DEF OpenSession, Unused
  <2>2. /\ \A t \in Tokens \ {n} : tokens'[t] = tokens[t]
        /\ tokens'[n].session = s /\ tokens'[n].parent = None
        /\ tokens'[n].rotated_at = None /\ tokens'[n].superseded_at = None
    BY <1>0, <2>1 DEF NoToken
  <2>3. [t \in Tokens |-> AbstractToken(t)]'
          = [[t \in Tokens |-> AbstractToken(t)] EXCEPT
               ![n] = [state |-> "fresh", session |-> s, parent |-> None]]
    BY <2>2 DEF AbstractToken, Exists
  <2>4. /\ AbstractSession(s) = "unopened"
        /\ [z \in Sessions |-> AbstractSession(z)]'
             = [[z \in Sessions |-> AbstractSession(z)] EXCEPT ![s] = "open"]
    <3>1. AbstractSession(s) = "unopened" /\ AbstractSession(s)' = "open"
      BY <1>0, <1>4 DEF OpenSession, AbstractSession, Opened, IInv, SessionsInv
    <3>2. \A z \in Sessions \ {s} : sessions'[z] = sessions[z]
      BY <1>0, <1>4 DEF OpenSession
    <3>3. \A z \in Sessions \ {s} : AbstractSession(z)' = AbstractSession(z)
      BY <3>2 DEF AbstractSession, Opened
    <3> QED
      BY <3>1, <3>3
  <2>5. Family!Open(s, n)
    BY <2>1, <2>3, <2>4, AbstractFields DEF Family!Open
  <2> QED
    BY <2>5 DEF Family!Next
<1>5. ASSUME NEW r \in Requests, Issue(r) \/ Revoke(r)
      PROVE  [Family!Next]_(Family!vars)
  <2> DEFINE p == requests[r].token
             D == requests[r].supersedes
  <2>1. p \in Tokens /\ Exists(p) /\ InTransaction(r) /\ tokens[p].session \in Sessions
    BY <1>0, <1>5, CommitRows DEF Exists, Token
  <2>2. PICK new \in SUBSET Unused : Commits(r, new)
    BY <1>5, CommitRows
  <2>3. D \in {{}, Family!FreshSuccessors(p)}
    BY <2>1, AbstractFields DEF RetriesInv, RetryInv
  <2>4. CASE Issue(r)
    <3>1. PICK n \in Tokens : new = {n} /\ ~Exists(n)
      BY <2>2, <2>4 DEF Commits, Unused
    <3>2. /\ tokens[p].superseded_at = None
          /\ requests[r].rotates \/ tokens[p].rotated_at # None
      BY <2>4 DEF IInv, CallInv, Issue
    <3>3. /\ Family!Usable(p)
          /\ \A t \in Tokens \ {n} : AbstractToken(t)' = Family!Used(p, D)[t]
      BY <2>2, <2>4, <3>1, <3>2, MarksImplement
    <3>4. tokens'[n] = [session |-> tokens[p].session, parent |-> p, rotated_at |-> None,
                        superseded_at |-> None, iat |-> requests[r].now]
      BY <2>2, <3>1, Zenon DEF Commits
    <3>5. AbstractToken(n)' = [state |-> "fresh", parent |-> p, session |-> tokens[p].session]
      BY <2>1, <3>4 DEF AbstractToken, Exists
    <3>6. Family!Used(p, D) = [t \in Tokens |-> Family!Used(p, D)[t]]
      BY DEF Family!Used
    <3>7. [t \in Tokens |-> AbstractToken(t)]'
            = [Family!Used(p, D) EXCEPT ![n] = [state |-> "fresh", parent |-> p,
                                                session |-> tokens[p].session]]
      BY <3>3, <3>5, <3>6
    <3>8. [s \in Sessions |-> AbstractSession(s)]' = [s \in Sessions |-> AbstractSession(s)]
      BY <2>4 DEF Issue, AbstractSession, Opened
    <3>9. Family!Refresh(p, n)
      BY <2>1, <2>3, <3>1, <3>3, <3>7, <3>8, AbstractFields DEF Family!Refresh
    <3> QED
      BY <2>1, <3>9 DEF Family!Next
  <2>5. CASE Revoke(r)
    <3>1. Opened(tokens[p].session) /\ RevokeSession(tokens[p].session) /\ new = {}
      BY <2>1, <2>2, <2>5 DEF IInv, RowsInv, Revoke, Commits
    <3>2. CASE ~requests[r].rotates /\ D = {}
      <4>1. tokens' = tokens
        BY <1>0, <2>5, <3>2 DEF Revoke, Written
      <4> QED
        BY <1>3, <2>1, <3>1, <4>1
    <3>3. CASE requests[r].rotates \/ D # {}
      <4>1. /\ tokens[p].superseded_at = None
            /\ requests[r].rotates \/ tokens[p].rotated_at # None
        <5>1. CASE requests[r].rotates
          BY <5>1 DEF IInv, CallInv
        <5>2. CASE D # {}
          <6>1. PICK c \in Tokens : tokens[c].parent = p
            BY <5>2 DEF IInv, TypeOK, Request, CallInv
          <6> QED
            BY <2>1, <6>1 DEF IInv, RowsInv
        <5> QED
          BY <3>3, <5>1, <5>2
      <4>2. Family!Usable(p) /\ \A t \in Tokens : AbstractToken(t)' = Family!Used(p, D)[t]
        BY <2>2, <2>5, <3>1, <4>1, MarksImplement
      <4>3. Family!Used(p, D) = [t \in Tokens |-> Family!Used(p, D)[t]]
        BY DEF Family!Used
      <4>4. [t \in Tokens |-> AbstractToken(t)]' = Family!Used(p, D)
        BY <4>2, <4>3
      <4>5. Family!Expel(p)
        BY <1>2, <2>1, <2>3, <3>1, <4>2, <4>4, AbstractFields DEF Family!Expel
      <4> QED
        BY <2>1, <4>5 DEF Family!Next
    <3> QED
      BY <3>2, <3>3
  <2> QED
    BY <1>5, <2>4, <2>5
<1>6. ASSUME NEW r \in Requests, Handle(r) \/ Abort(r)
      PROVE  [Family!Next]_(Family!vars)
  BY <1>1, <1>5, <1>6
  DEF Handle, FindForUpdate, Refuse, FindSuperseded, MarkRotated, FindRotated,
      CheckSuccessors, SupersedeUnusedSuccessors, FindUser, Abort
<1>7. ASSUME NEW t \in Tokens, NEW c \in Clients, RevokeByRefreshToken(t, c)
      PROVE  Family!Next
  <2>1. tokens[t].session \in Sessions /\ Opened(tokens[t].session)
    BY <1>0, <1>7 DEF RevokeByRefreshToken, IInv, RowsInv, Exists, Token
  <2> QED
    BY <1>3, <1>7, <2>1 DEF RevokeByRefreshToken
<1>8. ASSUME NEW s \in Sessions,
             RevokeByAuthorizationCode(s) \/ \E u \in Users : RevokeForUser(s, u)
      PROVE  Family!Next
  BY <1>3, <1>8 DEF RevokeByAuthorizationCode, RevokeForUser, Opened
<1>9. CASE \/ \E r \in Requests, t \in Tokens \cup {None}, c \in Clients : Receive(r, t, c)
           \/ \E u \in Users : DisableUser(u)
           \/ Tick
           \/ UNCHANGED vars
  BY <1>1, <1>9 DEF Receive, DisableUser, Tick, vars
<1> QED
  BY <1>4, <1>6, <1>7, <1>8, <1>9 DEF Next

\* The transactions of the token endpoint, whatever number of them overlap and
\* wherever they are cut off, implement the single steps of TokenFamily.
THEOREM RefreshImplementsFamily == Spec => RefinesTokenFamily
<1> QED
  BY InitImplements, StepImplements, IInvHolds, RetriesInvHolds, PTL
     DEF Spec, RefinesTokenFamily, Family!Spec
=============================================================================
