------------------------- MODULE CodeExchangeProofs -------------------------
(***************************************************************************)
(* The inductive invariant of CodeExchange and the theorems it gives, for  *)
(* any number of calls, codes, sessions, users, clients, URIs and          *)
(* verifiers.                                                              *)
(***************************************************************************)
EXTENDS CodeExchange, TLAPS

-----------------------------------------------------------------------------
(* The inductive invariant *)

\* At most one transaction holds a row of authorization_codes.
LocksExclude ==
    \A c, d \in Calls, k \in Codes : Holds(c, k) /\ Holds(d, k) => c = d

\* Only a code that was issued is consumed, and a rightful call consumed it.
CodesInv ==
    \A k \in Codes :
        codes[k].consumed =>
            /\ Issued(k)
            /\ \E d \in Calls : /\ calls[d].step = "tokens" /\ calls[d].code = k
                                /\ Rightful(d)

\* Every session of the code is revoked.
SessionsRevoked(k) ==
    \A s \in Sessions : sessions[s].code = k => sessions[s].revoked

\* What a call has established about its code, and nobody can undo.
CallInv(c) ==
    LET q == calls[c] IN
    /\ q.code # None => Issued(q.code)
    /\ q.late => q.code # None /\ codes[q.code].consumed
    /\ q.step \in {"user", "open"} => Rightful(c) /\ ~codes[q.code].consumed
    /\ q.step = "replay" /\ Rightful(c) => codes[q.code].consumed
    /\ q.step \in {"revoke", "tokens"} => q.code # None /\ codes[q.code].consumed
    /\ q.step # "idle" => q.presents \in Binding

\* Why a call that should have been served, or that came late, was refused: the
\* code was taken, and then its session is revoked, or the account is disabled,
\* and then no other transaction is past the check of the account.
RefusedInv(c) ==
    LET k == calls[c].code IN
    calls[c].step = "invalid_grant" /\ (calls[c].late \/ Rightful(c)) =>
        \/ codes[k].consumed /\ SessionsRevoked(k)
        \/ /\ ~codes[k].consumed
           /\ codes[k].user \in disabled
           /\ \A d \in Calls : ~(calls[d].step = "open" /\ calls[d].code = k)

\* The inductive invariant: the row lock of consume excludes, so what a call saw
\* of its code holds until the call ends.
IInv ==
    /\ TypeOK
    /\ LocksExclude
    /\ CodesInv
    /\ OneSessionPerCode
    /\ \A c \in Calls : CallInv(c) /\ RefusedInv(c)

-----------------------------------------------------------------------------
(* The invariant is inductive *)

\* The initial tables are empty and no call is in progress.
LEMMA InitEstablishesIInv == Init => IInv
<1> SUFFICES ASSUME Init PROVE IInv
  OBVIOUS
<1> USE ConstantsAssumption DEF Init
<1>1. NoCode \in Code /\ NoSession \in Session /\ Idle \in Call
  BY DEF NoCode, Code, NoSession, Session, Idle, Call, Instant
<1>2. TypeOK
  BY <1>1 DEF TypeOK, Instant
<1>3. LocksExclude
  BY DEF LocksExclude, Holds, Idle
<1>4. CodesInv
  BY DEF CodesInv, NoCode
<1>5. OneSessionPerCode
  BY DEF OneSessionPerCode, NoCode, NoSession, Opened
<1>6. ASSUME NEW c \in Calls
      PROVE  CallInv(c) /\ RefusedInv(c)
  BY DEF CallInv, RefusedInv, Idle
<1> QED
  BY <1>2, <1>3, <1>4, <1>5, <1>6 DEF IInv

\* A step that changes nothing but the record of one call that has no answer
\* yet, and respects the locks of the others, keeps the invariant if that call's
\* own part holds and it reaches "open" only for an account that is not disabled.
LEMMA CallStep ==
    ASSUME IInv, NEW c \in Calls,
           UNCHANGED <<clock, codes, sessions, disabled>>,
           calls' \in [Calls -> Call],
           \A d \in Calls \ {c} : calls'[d] = calls[d],
           calls[c].step \notin Answers,
           \A k \in Codes : Holds(c, k)' => ~LockedByOther(c, k),
           calls'[c].step = "open" => codes[calls'[c].code].user \notin disabled,
           CallInv(c)', RefusedInv(c)'
    PROVE  IInv'
<1>1. TypeOK'
  BY DEF IInv, TypeOK
<1>2. \A d \in Calls \ {c}, k \in Codes : Holds(d, k)' <=> Holds(d, k)
  BY DEF Holds
<1>3. LocksExclude'
  BY <1>2 DEF IInv, LocksExclude, LockedByOther
<1>4. \A d \in Calls \ {c} : Rightful(d)' <=> Rightful(d)
  BY DEF Rightful, Matches
<1>5. CodesInv'
  BY <1>4 DEF IInv, CodesInv, Issued, Answers
<1>6. OneSessionPerCode'
  BY DEF IInv, OneSessionPerCode, Opened
<1>7. ASSUME NEW d \in Calls, d # c
      PROVE  CallInv(d)' /\ RefusedInv(d)'
  <2>1. CallInv(d)'
    BY <1>4, <1>7 DEF IInv, CallInv, Issued
  <2>2. RefusedInv(d)'
    BY <1>4, <1>7 DEF IInv, RefusedInv, SessionsRevoked
  <2> QED
    BY <2>1, <2>2
<1> QED
  BY <1>1, <1>3, <1>5, <1>6, <1>7 DEF IInv

\* Arriving, the statements that write nothing, and dropping a transaction.
LEMMA StatementStep ==
    ASSUME IInv, NEW c \in Calls,
           \/ \E k \in Codes \cup {None}, b \in Binding : Receive(c, k, b)
           \/ Consume(c) \/ FindUnusable(c) \/ FindUser(c) \/ FindConsumed(c) \/ Abort(c)
    PROVE  IInv'
<1> USE ConstantsAssumption
<1>a. TypeOK /\ CallInv(c) /\ RefusedInv(c)
  BY DEF IInv
<1>1. ASSUME NEW k \in Codes \cup {None}, NEW b \in Binding, Receive(c, k, b)
      PROVE  IInv'
  <2>1. calls' \in [Calls -> Call]
    BY <1>a, <1>1 DEF TypeOK, Receive, Call, Steps, Code
  <2>2. CallInv(c)' /\ RefusedInv(c)'
    BY <1>a, <1>1 DEF TypeOK, Receive, CallInv, RefusedInv, Issued
  <2>3. \A j \in Codes : ~Holds(c, j)'
    BY <1>a, <1>1 DEF TypeOK, Receive, Holds
  <2> QED
    BY <1>a, <1>1, <2>1, <2>2, <2>3, CallStep DEF Receive, TypeOK, Answers
<1>2. CASE Consume(c)
  <2>1. calls' \in [Calls -> Call]
    BY <1>a, <1>2 DEF TypeOK, Consume, Goto, Call, Steps, Answers
  <2>2. CallInv(c)' /\ RefusedInv(c)'
    <3>1. /\ calls'[c].step = IF Matches(c) THEN "user" ELSE "invalid_grant"
          /\ calls'[c].code = calls[c].code /\ calls'[c].presents = calls[c].presents
          /\ calls'[c].start = calls[c].start /\ calls'[c].late = calls[c].late
      BY <1>a, <1>2 DEF TypeOK, Consume, Goto, Call
    <3>2. UNCHANGED <<clock, codes, sessions, disabled>> /\ Usable(c) /\ calls[c].step = "consume"
      BY <1>2 DEF Consume
    <3>3. (Matches(c)' <=> Matches(c)) /\ (Rightful(c)' <=> Rightful(c))
      BY <3>1, <3>2 DEF Matches, Rightful
    <3>4. (Rightful(c) <=> Matches(c)) /\ ~calls[c].late
      BY <1>a, <3>2 DEF Rightful, Usable, CallInv
    <3>5. RefusedInv(c)'
      BY <3>1, <3>3, <3>4 DEF RefusedInv
    <3>6. CallInv(c)'
      BY <1>a, <3>1, <3>2, <3>3, <3>4 DEF CallInv, Issued, Usable
    <3> QED
      BY <3>5, <3>6
  <2>3. \A k \in Codes : Holds(c, k)' => ~LockedByOther(c, k)
    BY <1>a, <1>2 DEF TypeOK, Consume, Goto, Holds
  <2> QED
    BY <1>a, <1>2, <2>1, <2>2, <2>3, CallStep DEF Consume, Goto, TypeOK, Answers
<1>3. CASE FindUnusable(c)
  <2>1. calls' \in [Calls -> Call]
    BY <1>a, <1>3 DEF TypeOK, FindUnusable, Goto, Call, Steps
  <2>2. CallInv(c)' /\ RefusedInv(c)'
    BY <1>a, <1>3 DEF TypeOK, FindUnusable, Goto, CallInv, RefusedInv, Issued, Usable,
                      Rightful, Matches
  <2>3. \A k \in Codes : ~Holds(c, k)'
    BY <1>a, <1>3 DEF TypeOK, FindUnusable, Goto, Holds
  <2> QED
    BY <1>a, <1>3, <2>1, <2>2, <2>3, CallStep DEF FindUnusable, Goto, TypeOK, Answers
<1>4. CASE FindUser(c)
  <2>1. calls' \in [Calls -> Call]
    BY <1>a, <1>4 DEF TypeOK, FindUser, Goto, Call, Steps, Answers
  <2>2. CallInv(c)'
    BY <1>a, <1>4 DEF TypeOK, FindUser, Goto, CallInv, Issued, Rightful, Matches
  <2>3. \A k \in Codes : Holds(c, k)' => ~LockedByOther(c, k)
    BY <1>a, <1>4 DEF TypeOK, FindUser, Goto, Holds, LockedByOther, LocksExclude, IInv
  <2>4. calls[c].code \in Codes /\ Holds(c, calls[c].code)
    BY <1>a, <1>4 DEF TypeOK, FindUser, Holds, CallInv, Rightful, Call
  <2>5. \A d \in Calls \ {c} : ~(calls[d].step = "open" /\ calls[d].code = calls[c].code)
    BY <2>4 DEF IInv, LocksExclude, Holds
  <2>6. RefusedInv(c)'
    BY <1>a, <1>4, <2>5 DEF TypeOK, FindUser, Goto, CallInv, RefusedInv, SessionsRevoked
  <2> QED
    BY <1>a, <1>4, <2>1, <2>2, <2>3, <2>6, CallStep DEF FindUser, Goto, TypeOK, Answers
<1>5. CASE FindConsumed(c)
  <2>1. calls' \in [Calls -> Call]
    BY <1>a, <1>5 DEF TypeOK, FindConsumed, Goto, Call, Steps, Answers
  <2>2. CallInv(c)' /\ RefusedInv(c)'
    BY <1>a, <1>5 DEF TypeOK, FindConsumed, Goto, CallInv, RefusedInv, Issued,
                      Rightful, Matches
  <2>3. \A k \in Codes : ~Holds(c, k)'
    BY <1>a, <1>5 DEF TypeOK, FindConsumed, Goto, Holds
  <2> QED
    BY <1>a, <1>5, <2>1, <2>2, <2>3, CallStep DEF FindConsumed, Goto, TypeOK, Answers
<1>6. CASE Abort(c)
  <2>1. calls' \in [Calls -> Call]
    BY SMTT(30), <1>a, <1>6 DEF TypeOK, Abort, Goto, Call, Steps, Answers
  <2>2. CallInv(c)' /\ RefusedInv(c)'
    BY <1>a, <1>6 DEF TypeOK, Abort, Goto, CallInv, RefusedInv, Issued, Steps
  <2>3. \A k \in Codes : ~Holds(c, k)'
    BY <1>a, <1>6 DEF TypeOK, Abort, Goto, Holds
  <2> QED
    BY <1>a, <1>6, <2>1, <2>2, <2>3, CallStep DEF Abort, Goto, TypeOK, Steps, Answers
<1> QED
  BY <1>1, <1>2, <1>3, <1>4, <1>5, <1>6

\* The commit of an exchange.
LEMMA OpenStep ==
    ASSUME IInv, NEW c \in Calls, OpenSession(c)
    PROVE  IInv'
<1> DEFINE k == calls[c].code
<1> USE ConstantsAssumption
<1>a. TypeOK /\ CallInv(c) /\ calls[c].step = "open"
  BY DEF IInv, OpenSession
<1>b. k \in Codes /\ Issued(k) /\ ~codes[k].consumed /\ Rightful(c) /\ Holds(c, k)
  BY <1>a DEF TypeOK, CallInv, Rightful, Call, Holds
<1>c. PICK s \in Sessions :
        /\ ~Opened(s)
        /\ sessions' = [sessions EXCEPT ![s] =
                          [code |-> k, user |-> codes[k].user,
                           client |-> calls[c].presents.client, revoked |-> FALSE]]
  BY DEF OpenSession
<1>d. codes' = [codes EXCEPT ![k].consumed = TRUE]
  BY DEF OpenSession
<1>e. calls' = [calls EXCEPT ![c].step = "tokens"] /\ clock' = clock /\ disabled' = disabled
  BY DEF OpenSession, Goto
<1>f. \A d \in Calls : Rightful(d)' <=> Rightful(d)
  BY <1>a, <1>b, <1>d, <1>e DEF TypeOK, Rightful, Matches, Call, Code
<1>g. \A j \in Codes : Issued(j)' <=> Issued(j)
  BY <1>a, <1>b, <1>d DEF TypeOK, Issued, Code
<1>1. TypeOK'
  <2>1. codes' \in [Codes -> Code]
    BY <1>a, <1>b, <1>d DEF TypeOK, Code
  <2>2. calls' \in [Calls -> Call]
    BY SMTT(30), <1>a, <1>e DEF TypeOK, Call, Answers
  <2>3. calls[c].presents.client \in Clients
    BY <1>a DEF CallInv, Binding
  <2>4. sessions' \in [Sessions -> Session]
    BY <1>a, <1>b, <1>c, <2>3 DEF TypeOK, Session, Code
  <2> QED
    BY <1>a, <1>e, <2>1, <2>2, <2>4 DEF TypeOK
<1>2. LocksExclude'
  BY <1>a, <1>e DEF IInv, TypeOK, LocksExclude, Holds
<1>3. CodesInv'
  BY <1>a, <1>b, <1>d, <1>e, <1>f, <1>g DEF IInv, TypeOK, CodesInv, Code, Call
<1>4. OneSessionPerCode'
  <2>1. \A t \in Sessions : sessions[t].code # k
    BY <1>b DEF IInv, OneSessionPerCode
  <2>2. \A t \in Sessions : sessions'[t].code = IF t = s THEN k ELSE sessions[t].code
    BY <1>a, <1>c DEF TypeOK
  <2>3. \A j \in Codes : codes'[j].consumed = IF j = k THEN TRUE ELSE codes[j].consumed
    BY <1>a, <1>b, <1>d DEF TypeOK, Code
  <2>4. sessions[s].code = None
    BY <1>c DEF Opened
  <2>5. ASSUME NEW j \in Codes
        PROVE  codes'[j].consumed <=> \E t \in Sessions : sessions'[t].code = j
    <3>1. CASE j = k
      BY <2>2, <2>3, <3>1
    <3>2. CASE j # k
      <4>1. (\E t \in Sessions : sessions'[t].code = j) <=> \E t \in Sessions : sessions[t].code = j
        BY <2>2, <2>4, <3>2
      <4>2. codes'[j] = codes[j]
        BY <1>a, <1>d, <3>2 DEF TypeOK
      <4> QED
        BY <4>1, <4>2 DEF IInv, OneSessionPerCode
    <3> QED
      BY <3>1, <3>2
  <2>6. ASSUME NEW t \in Sessions, NEW v \in Sessions, t # v, Opened(t)'
        PROVE  sessions'[t].code # sessions'[v].code
    BY <1>b, <2>1, <2>2, <2>4, <2>6 DEF IInv, OneSessionPerCode, Opened
  <2> QED
    BY <2>5, <2>6 DEF OneSessionPerCode
<1>5. ASSUME NEW d \in Calls
      PROVE  CallInv(d)' /\ RefusedInv(d)'
  <2>1. d # c => ~Holds(d, k)
    BY <1>b DEF IInv, LocksExclude
  <2>2. /\ calls'[d].code = calls[d].code /\ calls'[d].late = calls[d].late
        /\ calls'[d].presents = calls[d].presents
        /\ calls'[d].step = IF d = c THEN "tokens" ELSE calls[d].step
    BY <1>a, <1>e DEF TypeOK, Call
  <2>3. \A j \in Codes : codes'[j].consumed = IF j = k THEN TRUE ELSE codes[j].consumed
    BY <1>a, <1>b, <1>d DEF TypeOK, Code
  <2>4. calls[d].code \in Codes \cup {None}
    BY <1>a DEF TypeOK, Call
  <2>5. CallInv(d)'
    <3>1. Rightful(d) => calls[d].code \in Codes
      BY <2>4 DEF Rightful
    <3>2. CallInv(d)
      BY DEF IInv
    <3> QED
      BY <1>a, <1>b, <1>f, <1>g, <2>1, <2>2, <2>3, <2>4, <3>1, <3>2 DEF CallInv, Holds
  <2>6. ASSUME calls[d].code # k
        PROVE  RefusedInv(d)'
    <3>1. \A t \in Sessions : sessions'[t].code = calls[d].code => sessions'[t] = sessions[t]
      BY <1>a, <1>c, <2>6 DEF TypeOK
    <3>2. \A j \in Codes \ {k} : codes'[j] = codes[j]
      BY <1>a, <1>d DEF TypeOK
    <3>3. calls[d].late \/ Rightful(d) => calls[d].code \in Codes
      BY <2>4 DEF IInv, CallInv, Rightful
    <3>4. \A e \in Calls : calls'[e].step = "open" => calls[e].step = "open" /\ calls'[e].code = calls[e].code
      BY <1>a, <1>e DEF TypeOK, Call
    <3> QED
      BY <1>e, <1>f, <2>2, <2>6, <3>1, <3>2, <3>3, <3>4 DEF IInv, RefusedInv, SessionsRevoked
  <2>7. ASSUME calls[d].code = k
        PROVE  RefusedInv(d)'
    \* A call refused for the account would have met this one at "open".
    BY <1>a, <1>b, <1>f, <2>2, <2>7 DEF IInv, RefusedInv
  <2> QED
    BY <2>5, <2>6, <2>7
<1> QED
  BY <1>1, <1>2, <1>3, <1>4, <1>5 DEF IInv

\* A step on the sessions alone, which revokes some and opens none.
LEMMA RevokeStep ==
    ASSUME IInv, UNCHANGED <<clock, codes, disabled, calls>>,
           sessions' \in [Sessions -> Session],
           \A s \in Sessions : /\ sessions'[s].code = sessions[s].code
                               /\ sessions[s].revoked => sessions'[s].revoked
    PROVE  IInv'
<1>1. TypeOK'
  BY DEF IInv, TypeOK
<1>2. LocksExclude' /\ CodesInv'
  BY DEF IInv, LocksExclude, Holds, CodesInv, Issued, Rightful, Matches
<1>3. OneSessionPerCode'
  BY DEF IInv, OneSessionPerCode, Opened
<1>4. ASSUME NEW c \in Calls
      PROVE  CallInv(c)' /\ RefusedInv(c)'
  BY DEF IInv, CallInv, RefusedInv, SessionsRevoked, Issued, Rightful, Matches
<1> QED
  BY <1>1, <1>2, <1>3, <1>4 DEF IInv

\* The revocation a replay brings about.
LEMMA ReplayStep ==
    ASSUME IInv, NEW c \in Calls, RevokeByAuthorizationCode(c)
    PROVE  IInv'
<1> DEFINE k == calls[c].code
<1> USE ConstantsAssumption
<1>a. TypeOK /\ CallInv(c) /\ calls[c].step = "revoke"
  BY DEF IInv, RevokeByAuthorizationCode
<1>b. k \in Codes /\ codes[k].consumed
  BY <1>a DEF TypeOK, CallInv, Call
<1>c. /\ calls' = [calls EXCEPT ![c].step = "invalid_grant"]
      /\ clock' = clock /\ disabled' = disabled /\ codes' = codes
  BY DEF RevokeByAuthorizationCode, Goto
<1>d. \A s \in Sessions : /\ sessions'[s].code = sessions[s].code
                          /\ sessions[s].revoked => sessions'[s].revoked
                          /\ sessions[s].code = k => sessions'[s].revoked
  BY <1>a DEF TypeOK, RevokeByAuthorizationCode, Session
<1>e. \A d \in Calls : /\ calls'[d].code = calls[d].code
                       /\ calls'[d].late = calls[d].late
                       /\ calls'[d].presents = calls[d].presents
                       /\ calls'[d].step = IF d = c THEN "invalid_grant" ELSE calls[d].step
  BY <1>a, <1>c DEF TypeOK, Call
<1>f. \A d \in Calls : Rightful(d)' <=> Rightful(d)
  BY <1>a, <1>c DEF TypeOK, Rightful, Matches, Call
<1>1. TypeOK'
  <2>1. sessions' \in [Sessions -> Session]
    BY ZenonT(60), <1>a DEF TypeOK, RevokeByAuthorizationCode, Session
  <2>2. calls' \in [Calls -> Call]
    BY ZenonT(60), <1>a, <1>c DEF TypeOK, Call, Answers
  <2> QED
    BY <1>a, <1>c, <2>1, <2>2 DEF TypeOK
<1>2. LocksExclude'
  BY <1>e DEF IInv, LocksExclude, Holds
<1>3. CodesInv'
  BY <1>a, <1>c, <1>e, <1>f DEF IInv, CodesInv, Issued
<1>4. OneSessionPerCode'
  BY <1>c, <1>d DEF IInv, OneSessionPerCode, Opened
<1>5. ASSUME NEW d \in Calls
      PROVE  CallInv(d)' /\ RefusedInv(d)'
  <2>1. CallInv(d)'
    BY <1>a, <1>c, <1>e, <1>f DEF IInv, CallInv, Issued
  <2>2. RefusedInv(d)'
    BY <1>b, <1>c, <1>d, <1>e, <1>f DEF IInv, RefusedInv, SessionsRevoked
  <2> QED
    BY <2>1, <2>2
<1> QED
  BY <1>1, <1>2, <1>3, <1>4, <1>5 DEF IInv

\* Every step of the specification keeps the invariant.
LEMMA NextKeepsIInv == IInv /\ [Next]_vars => IInv'
<1> SUFFICES ASSUME IInv, [Next]_vars PROVE IInv'
  OBVIOUS
<1> USE ConstantsAssumption
<1>a. TypeOK
  BY DEF IInv
<1>1. ASSUME NEW c \in Calls,
             \/ \E k \in Codes \cup {None}, b \in Binding : Receive(c, k, b)
             \/ Handle(c) \/ Abort(c)
      PROVE  IInv'
  BY <1>1, StatementStep, OpenStep, ReplayStep DEF Handle
<1>2. ASSUME NEW k \in Codes, NEW u \in Users, NEW b \in Binding, CreateCode(k, u, b)
      PROVE  IInv'
  <2>1. codes' \in [Codes -> Code]
    BY <1>a, <1>2 DEF TypeOK, CreateCode, Code, Instant
  <2>2. TypeOK'
    BY <1>a, <1>2, <2>1 DEF TypeOK, CreateCode
  <2>3. \A j \in Codes : Issued(j) => codes'[j] = codes[j] /\ Issued(j)'
    BY <1>a, <1>2 DEF TypeOK, CreateCode, Issued
  <2>4. \A j \in Codes : codes'[j].consumed = codes[j].consumed
    <3>1. codes[k].consumed = FALSE
      BY <1>a, <1>2 DEF IInv, TypeOK, CodesInv, CreateCode, Code
    <3> QED
      BY <1>a, <1>2, <3>1 DEF TypeOK, CreateCode
  <2>5. \A d \in Calls : calls[d].code = None \/ (calls[d].code \in Codes /\ Issued(calls[d].code))
    BY <1>a DEF IInv, CallInv, TypeOK, Call
  <2>6. \A d \in Calls : Rightful(d)' <=> Rightful(d)
    BY <1>2, <2>3, <2>5 DEF CreateCode, Rightful, Matches
  <2>7. LocksExclude' /\ OneSessionPerCode'
    BY <1>2, <2>4 DEF IInv, CreateCode, LocksExclude, Holds, OneSessionPerCode, Opened
  <2>8. CodesInv'
    BY <1>2, <2>3, <2>4, <2>6 DEF IInv, CreateCode, CodesInv
  <2>9. ASSUME NEW d \in Calls
        PROVE  CallInv(d)' /\ RefusedInv(d)'
    <3>1. CallInv(d)'
      BY <1>2, <2>3, <2>5, <2>6 DEF IInv, CreateCode, CallInv, Rightful
    <3>2. RefusedInv(d)'
      BY <1>2, <2>3, <2>5, <2>6 DEF IInv, CreateCode, CallInv, RefusedInv, SessionsRevoked, Rightful
    <3> QED
      BY <3>1, <3>2
  <2> QED
    BY <2>2, <2>7, <2>8, <2>9 DEF IInv
<1>3. ASSUME NEW s \in Sessions, RevokeSession(s)
      PROVE  IInv'
  <2>1. sessions' \in [Sessions -> Session]
    BY <1>a, <1>3 DEF TypeOK, RevokeSession, Session
  <2>2. \A t \in Sessions : /\ sessions'[t].code = sessions[t].code
                            /\ sessions[t].revoked => sessions'[t].revoked
    BY <1>a, <1>3 DEF TypeOK, RevokeSession, Session
  <2> QED
    BY <1>3, <2>1, <2>2, RevokeStep DEF RevokeSession
<1>4. CASE \E u \in Users : DisableUser(u)
  <2>1. TypeOK'
    BY <1>a, <1>4 DEF TypeOK, DisableUser
  <2>2. \A d \in Calls : CallInv(d)' /\ RefusedInv(d)'
    BY <1>4 DEF IInv, DisableUser, CallInv, RefusedInv, SessionsRevoked, Issued,
                Rightful, Matches
  <2>3. LocksExclude' /\ CodesInv' /\ OneSessionPerCode'
    BY <1>4 DEF IInv, DisableUser, LocksExclude, Holds, CodesInv, OneSessionPerCode,
                Issued, Opened, Rightful, Matches
  <2> QED
    BY <2>1, <2>2, <2>3 DEF IInv
<1>5. CASE Tick \/ UNCHANGED vars
  <2>1. TypeOK'
    BY <1>a, <1>5 DEF TypeOK, Tick, vars, Instant
  <2>2. \A d \in Calls : CallInv(d)' /\ RefusedInv(d)'
    BY <1>5 DEF IInv, Tick, vars, CallInv, RefusedInv, SessionsRevoked, Issued,
                Rightful, Matches
  <2>3. LocksExclude' /\ CodesInv' /\ OneSessionPerCode'
    BY <1>5 DEF IInv, Tick, vars, LocksExclude, Holds, CodesInv, OneSessionPerCode,
                Issued, Opened, Rightful, Matches
  <2> QED
    BY <2>1, <2>2, <2>3 DEF IInv
<1> QED
  BY <1>1, <1>2, <1>3, <1>4, <1>5 DEF Next

\* The invariant holds in every reachable state.
THEOREM IInvHolds == Spec => []IInv
<1> QED
  BY InitEstablishesIInv, NextKeepsIInv, PTL DEF Spec

-----------------------------------------------------------------------------
(* What it gives *)

\* The rows and calls keep their shape.
THEOREM TypeCorrect == Spec => []TypeOK
<1>1. IInv => TypeOK
  BY DEF IInv
<1> QED
  BY <1>1, IInvHolds, PTL

\* A code is consumed exactly when its one session is open, whatever number of
\* exchanges of it run at once.
THEOREM CodeOpensOneSession == Spec => []OneSessionPerCode
<1>1. IInv => OneSessionPerCode
  BY DEF IInv
<1> QED
  BY <1>1, IInvHolds, PTL

\* A call with a wrong client, URI or verifier never spends a code.
THEOREM MismatchNeverBurnsCode == Spec => []MismatchKeepsCode
<1>1. IInv => MismatchKeepsCode
  <2> SUFFICES ASSUME IInv, NEW c \in Calls,
                      calls[c].step = "invalid_grant", Rightful(c),
                      codes[calls[c].code].user \notin disabled
               PROVE  \E d \in Calls : /\ calls[d].step = "tokens"
                                       /\ calls[d].code = calls[c].code
                                       /\ Rightful(d)
    BY DEF MismatchKeepsCode
  <2>1. calls[c].code \in Codes
    BY DEF IInv, TypeOK, Call, Rightful
  <2>2. codes[calls[c].code].consumed
    BY DEF IInv, RefusedInv
  <2> QED
    BY <2>1, <2>2 DEF IInv, CodesInv
<1> QED
  BY <1>1, IInvHolds, PTL

\* Once a replay has been answered, no session of the code is left.
THEOREM ReplayEndsSession == Spec => []ReplayRevokes
<1>1. IInv => ReplayRevokes
  <2> SUFFICES ASSUME IInv, NEW c \in Calls, NEW d \in Calls,
                      calls[c].step = "tokens", calls[d].step = "invalid_grant",
                      calls[c].code = calls[d].code,
                      calls[d].late \/ Rightful(d)
               PROVE  SessionsRevoked(calls[d].code)
    BY DEF ReplayRevokes, SessionsRevoked
  <2>1. codes[calls[d].code].consumed
    BY DEF IInv, CallInv
  <2> QED
    BY <2>1 DEF IInv, RefusedInv
<1> QED
  BY <1>1, IInvHolds, PTL

-----------------------------------------------------------------------------
(* The refinement of CodeGrant *)

\* A session is revoked after it was opened.
RevokedInv == \A s \in Sessions : sessions[s].revoked => Opened(s)

\* A replay revokes only the sessions of its code, and there is one.
LEMMA NextKeepsRevokedInv == IInv /\ RevokedInv /\ [Next]_vars => RevokedInv'
<1> SUFFICES ASSUME IInv, RevokedInv, [Next]_vars
             PROVE  RevokedInv'
  OBVIOUS
<1> USE ConstantsAssumption
<1>a. TypeOK
  BY DEF IInv
<1>1. ASSUME UNCHANGED sessions
      PROVE  RevokedInv'
  BY <1>1 DEF RevokedInv, Opened
<1>2. ASSUME NEW c \in Calls, OpenSession(c)
      PROVE  RevokedInv'
  BY <1>a, <1>2 DEF TypeOK, RevokedInv, Opened, OpenSession
<1>3. ASSUME NEW s \in Sessions, RevokeSession(s)
      PROVE  RevokedInv'
  BY <1>a, <1>3 DEF TypeOK, RevokedInv, Opened, RevokeSession
<1>4. ASSUME NEW c \in Calls, RevokeByAuthorizationCode(c)
      PROVE  RevokedInv'
  <2>1. calls[c].code \in Codes
    BY <1>a, <1>4 DEF IInv, TypeOK, CallInv, Call, RevokeByAuthorizationCode
  <2> QED
    BY <1>a, <1>4, <2>1 DEF TypeOK, RevokedInv, Opened, RevokeByAuthorizationCode
<1> QED
  BY <1>1, <1>2, <1>3, <1>4 DEF Next, vars, Handle, Abort, Consume, FindUnusable,
       FindUser, FindConsumed, CreateCode, Receive, DisableUser, Tick

\* The empty tables are CodeGrant's initial state.
LEMMA InitImplements == Init => Grant!Init
<1> USE ConstantsAssumption
<1> QED
  BY DEF Init, Grant!Init, Issued, NoCode, NoSession

\* Every step of the endpoint is one step of CodeGrant, or none: only the INSERT
\* of a code, the COMMIT of an exchange and a revocation show in its state.
LEMMA StepImplements == IInv /\ RevokedInv /\ [Next]_vars => [Grant!Next]_(Grant!vars)
<1> SUFFICES ASSUME IInv, RevokedInv, [Next]_vars
             PROVE  [Grant!Next]_(Grant!vars)
  OBVIOUS
<1> USE ConstantsAssumption
<1>a. TypeOK
  BY DEF IInv
<1>1. ASSUME UNCHANGED <<codes, sessions>>
      PROVE  UNCHANGED Grant!vars
  BY <1>1 DEF Grant!vars, Issued
<1>2. ASSUME NEW k \in Codes, NEW u \in Users, NEW b \in Binding, CreateCode(k, u, b)
      PROVE  Grant!Issue(k)
  <2>1. \A j \in Codes : codes'[j].consumed <=> codes[j].consumed
    BY <1>a, <1>2 DEF IInv, TypeOK, CodesInv, CreateCode, Code
  <2>2. \A j \in Codes : codes'[j].user = IF j = k THEN u ELSE codes[j].user
    BY <1>a, <1>2 DEF TypeOK, CreateCode
  <2> QED
    BY <1>2, <2>1, <2>2 DEF Grant!Issue, CreateCode, Issued
<1>3. ASSUME NEW c \in Calls, OpenSession(c)
      PROVE  \E k \in Codes, s \in Sessions : Grant!Exchange(k, s)
  <2> DEFINE k == calls[c].code
  <2>1. k \in Codes /\ Issued(k) /\ ~codes[k].consumed
    BY <1>a, <1>3 DEF IInv, TypeOK, CallInv, Rightful, Call, OpenSession
  <2>2. PICK s \in Sessions :
          /\ ~Opened(s)
          /\ sessions' = [sessions EXCEPT ![s] =
                            [code |-> k, user |-> codes[k].user,
                             client |-> calls[c].presents.client, revoked |-> FALSE]]
    BY <1>3 DEF OpenSession
  <2>3. \A j \in Codes : /\ codes'[j].user = codes[j].user
                         /\ codes'[j].consumed = IF j = k THEN TRUE ELSE codes[j].consumed
    BY <1>a, <1>3, <2>1 DEF TypeOK, Code, OpenSession
  <2>4. ~sessions[s].revoked
    BY <2>2 DEF RevokedInv
  <2>5. /\ {t \in Sessions : sessions'[t].revoked} = {t \in Sessions : sessions[t].revoked}
        /\ [t \in Sessions |-> sessions'[t].code]
             = [[t \in Sessions |-> sessions[t].code] EXCEPT ![s] = k]
    BY <1>a, <2>2, <2>4 DEF TypeOK
  <2> QED
    <3>1. /\ {j \in Codes : codes'[j].user # None} = {j \in Codes : codes[j].user # None}
          /\ {j \in Codes : codes'[j].consumed} = {j \in Codes : codes[j].consumed} \cup {k}
      BY ZenonT(60), <2>1, <2>3
    <3>2. [t \in Sessions |-> sessions[t].code][s] = None
      BY <2>2 DEF Opened
    <3>3. Grant!Exchange(k, s)
      BY <2>1, <2>5, <3>1, <3>2 DEF Grant!Exchange, Issued
    <3> QED
      BY <2>1, <3>3
<1>4. ASSUME NEW s \in Sessions, RevokeSession(s)
      PROVE  Grant!Revoke(s)
  <2>1. \A t \in Sessions : /\ sessions'[t].code = sessions[t].code
                            /\ sessions'[t].revoked <=> sessions[t].revoked \/ t = s
    BY <1>a, <1>4 DEF TypeOK, RevokeSession, Session
  <2> QED
    BY <1>4, <2>1 DEF RevokeSession, Grant!Revoke, Opened, Issued
<1>5. ASSUME NEW c \in Calls, RevokeByAuthorizationCode(c)
      PROVE  \E s \in Sessions : Grant!Revoke(s)
  \* The code that was replayed has been consumed, by the one session it opened.
  <2> DEFINE k == calls[c].code
  <2>1. k \in Codes /\ codes[k].consumed
    BY <1>a, <1>5 DEF IInv, TypeOK, CallInv, Call, RevokeByAuthorizationCode
  <2>2. PICK s \in Sessions : sessions[s].code = k
    BY <2>1 DEF IInv, OneSessionPerCode
  <2>3. \A t \in Sessions : sessions[t].code = k => t = s
    BY <2>1, <2>2 DEF IInv, OneSessionPerCode, Opened
  <2>4. \A t \in Sessions : /\ sessions'[t].code = sessions[t].code
                            /\ sessions'[t].revoked <=> sessions[t].revoked \/ t = s
    BY <1>a, <1>5, <2>2, <2>3 DEF TypeOK, RevokeByAuthorizationCode, Session
  <2> QED
    BY <1>5, <2>1, <2>2, <2>4 DEF RevokeByAuthorizationCode, Grant!Revoke, Issued
<1>6. CASE Next
  <2>1. ASSUME NEW c \in Calls, Handle(c) \/ Abort(c)
        PROVE  [Grant!Next]_(Grant!vars)
    BY <1>1, <1>3, <1>5, <2>1 DEF Handle, Abort, Consume, FindUnusable, FindUser,
                                  FindConsumed, Grant!Next
  <2>2. ASSUME \/ \E c \in Calls, k \in Codes \cup {None}, b \in Binding : Receive(c, k, b)
               \/ \E u \in Users : DisableUser(u)
               \/ Tick
        PROVE  [Grant!Next]_(Grant!vars)
    BY <1>1, <2>2 DEF Receive, DisableUser, Tick
  <2> QED
    BY <1>2, <1>4, <1>6, <2>1, <2>2 DEF Next, Grant!Next
<1> QED
  BY <1>1, <1>6 DEF vars

\* The calls of the token endpoint, whatever number of them overlap and wherever
\* they are cut off, implement the single steps of CodeGrant.
THEOREM ExchangeImplementsGrant == Spec => RefinesCodeGrant
<1>1. Init => RevokedInv
  BY DEF Init, RevokedInv, NoSession
<1>2. Spec => []RevokedInv
  BY <1>1, NextKeepsRevokedInv, IInvHolds, PTL DEF Spec
<1> QED
  BY <1>2, InitImplements, StepImplements, IInvHolds, PTL
     DEF Spec, RefinesCodeGrant, Grant!Spec
=============================================================================
