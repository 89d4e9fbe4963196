--------------------------- MODULE AccountProofs ---------------------------
(***************************************************************************)
(* The inductive invariant of Account and the theorems it gives, for any   *)
(* number of calls, users, sessions and addresses, and any budgets.        *)
(***************************************************************************)
EXTENDS Account, FiniteSetTheorems, TLAPS

-----------------------------------------------------------------------------
(* The inductive invariant *)

\* Identifiers are given out before an account uses them.
UserInv(u) == users[u].email # None => users[u].known

\* What a call has made sure of by the time it stands at a step, and still can
\* count on there.
CallOk(call) ==
    /\ call.user # None => users[call.user].known
    /\ call.step \in {"send", "candidate", "wrong", "right", "lookup", "link", "delete", "cascade",
                      "email", "verify", "open"}
          => call.user # None
    /\ call.step \in {"send", "candidate"} =>
          /\ call.session # None
          /\ sessions[call.session].user \in {call.user, None}
          /\ users[call.user].email # None => sessions[call.session].user # None
    /\ call.step = "rotate" =>
          call.session # None /\ sessions[call.session].user \in {call.user, None}
    /\ call.step \in {"candidate", "right"} =>
          call.act \in Acts /\ (call.act = "change_email" => call.to # None)
    /\ call.step = "candidate" => call.start <= clock
    /\ call.step \in {"lookup", "link"} => call.to # None /\ call.act = "change_email"
    /\ call.step \in {"wrong", "right"} =>
          /\ call.row \in DOMAIN confirmations
          /\ confirmations[call.row].user = call.user
          /\ ~confirmations[call.row].consumed
          /\ Failures(call.row) < MaxFailuresPerCode
    /\ call.step = "right" => confirmations[call.row].act = call.act
    /\ call.step \in {"consume", "user", "move"} => call.row \in DOMAIN changes
    /\ call.step \in {"user", "move"} =>
          changes[call.row].user # None /\ ~changes[call.row].consumed

\* Another call than c holds the account, the change.
AccountLocked(c, u) == \E d \in Calls \ {c} : HoldsAccount(d, u)

ChangeLocked(c, x) == \E d \in Calls \ {c} : HoldsChange(d, x)

\* Who holds the lock of an account, and of a change.
LockInv ==
    /\ \A c, d \in Calls :
          /\ calls[c].step \in {"wrong", "right", "cascade"}
          /\ calls[d].step \in {"wrong", "right", "cascade"}
          /\ calls[c].user = calls[d].user
          => c = d
    /\ \A c, d \in Calls :
          /\ calls[c].step \in {"user", "move"}
          /\ calls[d].step \in {"user", "move"}
          /\ calls[c].row = calls[d].row
          => c = d

\* A code is of the account of its session; its failures are limited.
ConfirmationInv(k) ==
    /\ confirmations[k].user # None =>
          /\ confirmations[k].session # None
          /\ sessions[confirmations[k].session].user = confirmations[k].user
    /\ Failures(k) <= MaxFailuresPerCode

\* A link leads to an address.
ChangeInv(x) == changes[x].user # None => changes[x].to # None

\* The inductive invariant behind the theorems below.
IInv ==
    /\ TypeOK
    /\ \A u \in Users : UserInv(u)
    /\ \A c \in Calls : CallOk(calls[c])
    /\ LockInv
    /\ \A x \in DOMAIN changes : ChangeInv(x)
    /\ \A k \in DOMAIN confirmations : ConfirmationInv(k)
    /\ DeletionIsComplete

-----------------------------------------------------------------------------
(* Lemmas about sequences *)

\* A row is added at the end.
LEMMA AppendedRow ==
    ASSUME NEW S, NEW s \in Seq(S), NEW e \in S
    PROVE  /\ Append(s, e) \in Seq(S)
           /\ DOMAIN Append(s, e) = DOMAIN s \cup {Len(s) + 1}
           /\ Len(s) + 1 \notin DOMAIN s
           /\ \A k \in DOMAIN s : Append(s, e)[k] = s[k]
           /\ Append(s, e)[Len(s) + 1] = e
OBVIOUS

\* A row is written over.
LEMMA UpdatedRow ==
    ASSUME NEW S, NEW s \in Seq(S), NEW k \in DOMAIN s, NEW e \in S
    PROVE  /\ [s EXCEPT ![k] = e] \in Seq(S)
           /\ DOMAIN [s EXCEPT ![k] = e] = DOMAIN s
           /\ \A l \in DOMAIN s \ {k} : [s EXCEPT ![k] = e][l] = s[l]
           /\ [s EXCEPT ![k] = e][k] = e
OBVIOUS

-----------------------------------------------------------------------------
(* The invariant is inductive *)

\* One account, its sessions, and nothing else.
LEMMA InitEstablishesIInv == Init => IInv
<1> SUFFICES ASSUME Init PROVE IInv
  OBVIOUS
<1> USE ConstantsAssumption
<1>1. PICK u \in Users, a \in Addresses :
         /\ users = [v \in Users |-> IF v = u THEN [NoUser EXCEPT !.known = TRUE, !.email = a]
                                     ELSE NoUser]
         /\ sessions = [s \in Sessions |-> [user |-> u, live |-> TRUE]]
  BY DEF Init
<1>2. NoUser \in User /\ [NoUser EXCEPT !.known = TRUE, !.email = a] \in User
  BY DEF NoUser, User
<1>3. Idle \in Call /\ Idle.step = "idle" /\ Idle.user = None
  BY DEF Idle, Call, Steps, Instant
<1>4. TypeOK
  <2>1. users \in [Users -> User] /\ sessions \in [Sessions -> Session]
    BY <1>1, <1>2 DEF Session
  <2>2. clock \in Instant /\ calls \in [Calls -> Call]
    BY <1>3 DEF Init, Instant
  <2>3. /\ confirmations \in Seq(Confirmation) /\ changes \in Seq(Change)
        /\ logins \in [Users -> SUBSET LoginRows]
    BY DEF Init
  <2> QED
    BY <2>1, <2>2, <2>3 DEF TypeOK
<1>5. \A v \in Users : UserInv(v)
  BY <1>1 DEF UserInv, NoUser
<1>6. \A c \in Calls : CallOk(calls[c])
  BY <1>3 DEF Init, CallOk
<1>7. LockInv
  BY <1>3 DEF Init, LockInv
<1>8. DOMAIN changes = {} /\ DOMAIN confirmations = {} /\ \A v \in Users : logins[v] = {}
  BY DEF Init
<1>9. DeletionIsComplete
  BY <1>1, <1>8 DEF DeletionIsComplete, NoUser
<1> QED
  BY <1>4, <1>5, <1>6, <1>7, <1>8, <1>9 DEF IInv

\* A step of one call that writes nothing.
LEMMA CallStep ==
    ASSUME IInv, NEW c \in Calls, NEW call \in Call,
           calls' = [calls EXCEPT ![c] = call],
           UNCHANGED <<clock, users, sessions, confirmations, changes, logins>>,
           CallOk(call),
           call.step \in {"wrong", "right", "cascade"} => ~AccountLocked(c, call.user),
           call.step \in {"user", "move"} => ~ChangeLocked(c, call.row)
    PROVE  IInv'
<1>1. calls \in [Calls -> Call]
  BY DEF IInv, TypeOK
<1>2. calls' \in [Calls -> Call] /\ calls'[c] = call /\ \A d \in Calls \ {c} : calls'[d] = calls[d]
  BY <1>1
<1>3. TypeOK'
  BY <1>2 DEF IInv, TypeOK
<1>4. \A d \in Calls : CallOk(calls[d])'
  BY <1>2 DEF IInv, CallOk, Failures
<1>5. LockInv'
  BY <1>2 DEF IInv, LockInv, AccountLocked, ChangeLocked, HoldsAccount, HoldsChange
<1>6. /\ \A u \in Users : UserInv(u)'
      /\ \A x \in DOMAIN changes' : ChangeInv(x)'
      /\ \A k \in DOMAIN confirmations' : ConfirmationInv(k)'
      /\ DeletionIsComplete'
  BY DEF IInv, UserInv, ChangeInv, ConfirmationInv, Failures, DeletionIsComplete
<1> QED
  BY <1>3, <1>4, <1>5, <1>6 DEF IInv

\* A call whose next statement waits for nobody finds its rows unlocked.
LEMMA NothingHeld ==
    ASSUME NEW c \in Calls, WaitsFor(c) = {}
    PROVE  /\ calls[c].step \in {"candidate", "delete"} => ~AccountLocked(c, calls[c].user)
           /\ calls[c].step = "consume" => ~ChangeLocked(c, calls[c].row)
           /\ calls[c].step = "cascade" =>
                 \A x \in DOMAIN changes : changes[x].user = calls[c].user => ~ChangeLocked(c, x)
<1>1. \A d \in Calls \ {c} : ~Blocks(d, c)
  BY DEF WaitsFor
<1> QED
  BY <1>1 DEF Blocks, AccountLocked, ChangeLocked

\* The call ends, having written nothing.
LEMMA FinishStep ==
    ASSUME IInv, NEW c \in Calls, Finish(c),
           UNCHANGED <<clock, users, sessions, confirmations, changes, logins>>
    PROVE  IInv'
<1>1. Idle \in Call /\ CallOk(Idle) /\ Idle.step = "idle"
  BY ConstantsAssumption DEF Idle, Call, Steps, Instant, CallOk
<1> QED
  BY <1>1, CallStep DEF Finish

\* The call moves to its next statement.
LEMMA GotoStep ==
    ASSUME IInv, NEW c \in Calls, NEW step \in Steps, Goto(c, step),
           UNCHANGED <<clock, users, sessions, confirmations, changes, logins>>,
           \A call \in Call :
              /\ call.step = step /\ call.user = calls[c].user /\ call.act = calls[c].act
              /\ call.row = calls[c].row /\ call.to = calls[c].to
              => CallOk(call),
           step \in {"wrong", "right", "cascade"} => ~AccountLocked(c, calls[c].user),
           step \in {"user", "move"} => ~ChangeLocked(c, calls[c].row)
    PROVE  IInv'
<1> DEFINE call == [calls[c] EXCEPT !.step = step]
<1>0. calls \in [Calls -> Call]
  BY DEF IInv, TypeOK
<1>1. calls' = [calls EXCEPT ![c] = call]
  BY <1>0 DEF Goto
<1>2. /\ call \in Call /\ call.step = step /\ call.user = calls[c].user /\ call.act = calls[c].act
      /\ call.row = calls[c].row /\ call.to = calls[c].to
  BY <1>0 DEF Call
<1> HIDE DEF call
<1>3. CallOk(call)
  BY <1>2
<1> QED
  BY <1>1, <1>2, <1>3, CallStep

\* The statements of a login that add a row for its account.
LoginWrites(c) == CreateLink(c) \/ MarkEmailVerified(c) \/ OpenSession(c)

\* The calls of a login arrive.
LoginArrives(c, u) == RequestLink(c, u) \/ ConsumeLink(c, u) \/ ConsumeCode(c, u)

\* Such a statement is the last of its call, and writes nothing else.
LEMMA LoginWrite ==
    ASSUME NEW c \in Calls, LoginWrites(c)
    PROVE  /\ calls[c].step \in {"email", "verify", "open"}
           /\ Finish(c)
           /\ UNCHANGED <<clock, users, sessions, confirmations, changes>>
           /\ \E row \in LoginRows : Insert(calls[c].user, row)
BY DEF LoginWrites, CreateLink, MarkEmailVerified, OpenSession, LoginRows

\* Such a call arrives with the account alone.
LEMMA LoginArrival ==
    ASSUME NEW c \in Calls, NEW u \in Users, LoginArrives(c, u)
    PROVE  /\ users[u].email # None \/ logins[u] # {}
           /\ \E step \in {"email", "verify", "open"} :
                 calls' = [calls EXCEPT ![c] = [Idle EXCEPT !.step = step, !.user = u]]
           /\ UNCHANGED <<clock, users, sessions, confirmations, changes, logins>>
BY DEF LoginArrives, RequestLink, ConsumeLink, ConsumeCode

\* CurrentUser: the session's row says whose call it is.
LEMMA CallerKnown ==
    ASSUME IInv, NEW s \in Sessions, sessions[s].user # None
    PROVE  /\ From(s) \in Call
           /\ From(s).user = sessions[s].user
           /\ From(s).session = s
           /\ sessions[s].user \in Users
           /\ users[sessions[s].user].email \in Addresses
           /\ users[sessions[s].user].known
<1>1. sessions[s].user \in Users
  BY DEF IInv, TypeOK, Session
<1>2. users[sessions[s].user] \in User /\ users[sessions[s].user].email # None
  BY <1>1 DEF IInv, TypeOK, DeletionIsComplete
<1>3. users[sessions[s].user].known
  BY <1>1, <1>2 DEF IInv, UserInv
<1>4. users[sessions[s].user].email \in Addresses
  BY <1>2 DEF User
<1>5. Idle \in Call
  BY ConstantsAssumption DEF Idle, Call, Steps, Instant
<1>6. From(s) \in Call /\ From(s).user = sessions[s].user /\ From(s).session = s
  BY <1>1, <1>4, <1>5 DEF From, Call
<1> QED
  BY <1>1, <1>3, <1>4, <1>6

\* A request arrives.
LEMMA ArriveStep ==
    ASSUME IInv, NEW c \in Calls, Arrive(c)
    PROVE  IInv'
<1> USE ConstantsAssumption
<1>0. clock \in Instant /\ clock \in Nat /\ 0 \in Instant
  BY DEF IInv, TypeOK, Instant
<1>1. ASSUME NEW s \in Sessions, NEW act \in Acts, RequestConfirmation(c, s, act)
      PROVE  IInv'
  <2>1. sessions[s].user # None
    BY <1>1 DEF RequestConfirmation, Authenticated
  <2> DEFINE call == [From(s) EXCEPT !.step = "send", !.act = act]
  <2>2. call \in Call /\ call.step = "send" /\ call.user = sessions[s].user /\ call.session = s
    <3>1. From(s) \in Call /\ From(s).user = sessions[s].user /\ From(s).session = s
      BY <2>1, CallerKnown
    <3> QED
      BY <3>1 DEF Call, Steps
  <2> HIDE DEF call
  <2>4. CallOk(call)
    BY <2>1, <2>2, CallerKnown DEF CallOk
  <2>5. calls' = [calls EXCEPT ![c] = call]
        /\ UNCHANGED <<clock, users, sessions, confirmations, changes, logins>>
    BY <1>1 DEF RequestConfirmation, call
  <2> QED
    BY <2>2, <2>4, <2>5, CallStep
<1>2. ASSUME NEW s \in Sessions, NEW act \in Acts, NEW guess \in {0} \cup DOMAIN confirmations,
             NEW to \in Addresses \cup {None}, UseCode(c, s, act, guess, to)
      PROVE  IInv'
  <2>1. sessions[s].user # None /\ guess \in Nat /\ (act = "change_email" <=> to # None)
    <3>1. confirmations \in Seq(Confirmation)
      BY DEF IInv, TypeOK
    <3>2. guess \in Nat
      BY <3>1
    <3> QED
      BY <1>2, <3>2 DEF UseCode, Authenticated
  <2> DEFINE call == [From(s) EXCEPT !.step = "candidate", !.act = act, !.guess = guess,
                                     !.to = to, !.start = clock]
  <2>2. /\ call \in Call /\ call.step = "candidate" /\ call.user = sessions[s].user
        /\ call.session = s /\ call.act = act /\ call.to = to /\ call.start = clock
    <3>1. From(s) \in Call /\ From(s).user = sessions[s].user /\ From(s).session = s
      BY <2>1, CallerKnown
    <3> QED
      BY <1>0, <2>1, <3>1 DEF Call, Steps
  <2> HIDE DEF call
  <2>4. CallOk(call)
    BY <1>0, <2>1, <2>2, CallerKnown DEF CallOk
  <2>5. calls' = [calls EXCEPT ![c] = call]
        /\ UNCHANGED <<clock, users, sessions, confirmations, changes, logins>>
    BY <1>2 DEF UseCode, call
  <2> QED
    BY <2>2, <2>4, <2>5, CallStep
<1>3. ASSUME NEW x \in DOMAIN changes, ConfirmChange(c, x)
      PROVE  IInv'
  <2>1. x \in Nat
    BY DEF IInv, TypeOK
  <2> DEFINE call == [Idle EXCEPT !.step = "consume", !.row = x, !.start = clock]
  <2>2. call \in Call /\ call.step = "consume" /\ call.row = x /\ call.user = None
    BY <1>0, <2>1 DEF Call, Steps, Idle
  <2>3. CallOk(call)
    BY <2>2 DEF CallOk
  <2>4. calls' = [calls EXCEPT ![c] = call]
        /\ UNCHANGED <<clock, users, sessions, confirmations, changes, logins>>
    BY <1>3 DEF ConfirmChange
  <2> HIDE DEF call
  <2> QED
    BY <2>2, <2>3, <2>4, CallStep
<1>4. ASSUME NEW s \in Sessions, FindForUpdate(c, s)
      PROVE  IInv'
  <2>1. sessions[s].user \in Users \cup {None}
    BY DEF IInv, TypeOK, Session
  <2> DEFINE call == [Idle EXCEPT !.step = "rotate", !.session = s, !.user = sessions[s].user]
  <2>2. call \in Call /\ call.step = "rotate" /\ call.user = sessions[s].user
    BY <1>0, <2>1 DEF Call, Steps, Idle
  <2>3. CallOk(call)
    BY <2>2, CallerKnown DEF CallOk
  <2>4. calls' = [calls EXCEPT ![c] = call]
        /\ UNCHANGED <<clock, users, sessions, confirmations, changes, logins>>
    BY <1>4 DEF FindForUpdate
  <2> HIDE DEF call
  <2> QED
    BY <2>2, <2>3, <2>4, CallStep
<1>5. ASSUME NEW u \in Users, LoginArrives(c, u)
      PROVE  IInv'
  <2>1. PICK step \in {"email", "verify", "open"} :
           calls' = [calls EXCEPT ![c] = [Idle EXCEPT !.step = step, !.user = u]]
    BY <1>5, LoginArrival
  <2>2. users[u].known
    BY <1>5, LoginArrival DEF IInv, UserInv, DeletionIsComplete
  <2> DEFINE call == [Idle EXCEPT !.step = step, !.user = u]
  <2>3. call \in Call /\ call.step = step /\ call.user = u
    BY <1>0 DEF Call, Steps, Idle
  <2>4. calls' = [calls EXCEPT ![c] = call]
        /\ UNCHANGED <<clock, users, sessions, confirmations, changes, logins>>
    BY <1>5, <2>1, LoginArrival
  <2> HIDE DEF call
  <2>5. CallOk(call)
    BY <2>2, <2>3 DEF CallOk
  <2> QED
    BY <2>3, <2>4, <2>5, CallStep
<1> QED
  BY <1>1, <1>2, <1>3, <1>4, <1>5, ConstantsAssumption DEF Arrive, LoginArrives

\* The statements of a call that read.
LEMMA ReadStep ==
    ASSUME IInv, NEW c \in Calls,
           \/ FindCodeCandidate(c) \/ FindByEmail(c) \/ Delete(c) \/ ConsumeChange(c)
           \/ FindUser(c) \/ InsertToken(c) \/ DetectDeadlock(c) \/ Abort(c)
    PROVE  IInv'
<1> USE ConstantsAssumption
<1>0. /\ clock \in Instant /\ clock \in Nat /\ 0 \in Instant
      /\ calls \in [Calls -> Call] /\ calls[c] \in Call /\ CallOk(calls[c])
      /\ confirmations \in Seq(Confirmation) /\ changes \in Seq(Change)
  BY DEF IInv, TypeOK, Instant
<1>1. CASE FindCodeCandidate(c)
  <2> DEFINE sent == Sent(calls[c].session, calls[c].act)
  <2>0. UNCHANGED <<clock, users, sessions, confirmations, changes, logins>> /\ calls[c].step = "candidate"
        /\ ~AccountLocked(c, calls[c].user)
    BY <1>1, NothingHeld DEF FindCodeCandidate
  <2>1. ASSUME NEW k \in sent, Candidate(c, k),
               calls' = [calls EXCEPT ![c] =
                  IF calls[c].guess = k
                  THEN [@ EXCEPT !.step = "right", !.row = k, !.session = None,
                                 !.guess = 0, !.start = 0]
                  ELSE [Idle EXCEPT !.step = "wrong", !.row = k, !.user = calls[c].user]]
        PROVE  IInv'
    <3>1. k \in DOMAIN confirmations /\ k \in Nat /\ confirmations[k].act = calls[c].act
          /\ confirmations[k].session = calls[c].session
      BY <1>0 DEF Sent
    <3>2. ~confirmations[k].consumed /\ Failures(k) < MaxFailuresPerCode
      BY <2>1 DEF Candidate
    <3>u. confirmations[k].user = calls[c].user
      BY <1>0, <2>0, <3>1 DEF IInv, CallOk, ConfirmationInv, Sent
    <3>3. CASE calls[c].guess = k
      <4> DEFINE call == [calls[c] EXCEPT !.step = "right", !.row = k, !.session = None,
                                          !.guess = 0, !.start = 0]
      <4>1. calls' = [calls EXCEPT ![c] = call]
        BY <2>1, <3>3
      <4>2. call \in Call /\ call.step = "right" /\ call.row = k /\ call.user = calls[c].user
            /\ call.act = calls[c].act /\ call.to = calls[c].to
        BY <1>0, <3>1 DEF Call, Steps
      <4> HIDE DEF call
      <4>3. CallOk(call)
        BY <1>0, <2>0, <3>1, <3>2, <3>u, <4>2 DEF CallOk
      <4> QED
        BY <2>0, <4>1, <4>2, <4>3, CallStep
    <3>4. CASE calls[c].guess # k
      <4> DEFINE call == [Idle EXCEPT !.step = "wrong", !.row = k, !.user = calls[c].user]
      <4>1. calls' = [calls EXCEPT ![c] = call]
        BY <2>1, <3>4
      <4>2. call \in Call /\ call.step = "wrong" /\ call.row = k /\ call.user = calls[c].user
        BY <1>0, <3>1 DEF Call, Steps, Idle
      <4> HIDE DEF call
      <4>3. CallOk(call)
        BY <1>0, <2>0, <3>1, <3>2, <3>u, <4>2 DEF CallOk
      <4> QED
        BY <2>0, <4>1, <4>2, <4>3, CallStep
    <3> QED
      BY <3>3, <3>4
  <2>2. CASE Finish(c)
    BY <2>0, <2>2, FinishStep
  <2> QED
    BY <1>1, <2>1, <2>2 DEF FindCodeCandidate
<1>2. CASE FindByEmail(c)
  <2>0. UNCHANGED <<clock, users, sessions, confirmations, changes, logins>> /\ calls[c].step = "lookup"
    BY <1>2 DEF FindByEmail
  <2>1. CASE Goto(c, "link")
    <3>g. \A call \in Call :
            /\ call.step = "link" /\ call.user = calls[c].user /\ call.act = calls[c].act
            /\ call.row = calls[c].row /\ call.to = calls[c].to
            => CallOk(call)
      BY <1>0, <2>0 DEF CallOk
    <3>s. "link" \in Steps
      BY DEF Steps
    <3> QED
      BY <2>0, <2>1, <3>g, <3>s, GotoStep
  <2>2. CASE Finish(c)
    BY <2>0, <2>2, FinishStep
  <2> QED
    BY <1>2, <2>1, <2>2 DEF FindByEmail
<1>3. CASE Delete(c)
  <2>0. UNCHANGED <<clock, users, sessions, confirmations, changes, logins>> /\ calls[c].step = "delete"
        /\ ~AccountLocked(c, calls[c].user)
    BY <1>3, NothingHeld DEF Delete
  <2>1. CASE Goto(c, "cascade")
    <3>g. \A call \in Call :
            /\ call.step = "cascade" /\ call.user = calls[c].user /\ call.act = calls[c].act
            /\ call.row = calls[c].row /\ call.to = calls[c].to
            => CallOk(call)
      BY <1>0, <2>0 DEF CallOk
    <3>s. "cascade" \in Steps
      BY DEF Steps
    <3> QED
      BY <2>0, <2>1, <3>g, <3>s, GotoStep
  <2>2. CASE Finish(c)
    BY <2>0, <2>2, FinishStep
  <2> QED
    BY <1>3, <2>1, <2>2 DEF Delete
<1>4. CASE ConsumeChange(c)
  <2> DEFINE x == calls[c].row
  <2>0. /\ UNCHANGED <<clock, users, sessions, confirmations, changes, logins>>
        /\ calls[c].step = "consume" /\ ~ChangeLocked(c, x)
    BY <1>4, NothingHeld DEF ConsumeChange
  <2>1. ASSUME changes[x].user # None, ~changes[x].consumed,
               calls' = [calls EXCEPT ![c].step = "user", ![c].start = 0]
        PROVE  IInv'
    <3> DEFINE call == [calls[c] EXCEPT !.step = "user", !.start = 0]
    <3>1. calls' = [calls EXCEPT ![c] = call]
      BY <1>0, <2>1
    <3>2. call \in Call /\ call.step = "user" /\ call.row = x /\ call.user = calls[c].user
      BY <1>0 DEF Call, Steps
    <3> HIDE DEF call
    <3>3. CallOk(call)
      BY <1>0, <2>0, <2>1, <3>2 DEF CallOk
    <3> QED
      BY <2>0, <3>1, <3>2, <3>3, CallStep
  <2>2. CASE Finish(c)
    BY <2>0, <2>2, FinishStep
  <2> QED
    BY <1>4, <2>1, <2>2 DEF ConsumeChange
<1>5. CASE FindUser(c)
  <2>0. UNCHANGED <<clock, users, sessions, confirmations, changes, logins>> /\ calls[c].step = "user"
    BY <1>5 DEF FindUser
  <2>1. CASE Goto(c, "move")
    <3>1. ~ChangeLocked(c, calls[c].row)
      BY <2>0 DEF IInv, LockInv, ChangeLocked, HoldsChange
    <3>g. \A call \in Call :
            /\ call.step = "move" /\ call.user = calls[c].user /\ call.act = calls[c].act
            /\ call.row = calls[c].row /\ call.to = calls[c].to
            => CallOk(call)
      BY <1>0, <2>0 DEF CallOk
    <3>s. "move" \in Steps
      BY DEF Steps
    <3> QED
      BY <2>0, <2>1, <3>g, <3>s, <3>1, GotoStep
  <2>2. CASE Finish(c)
    BY <2>0, <2>2, FinishStep
  <2> QED
    BY <1>5, <2>1, <2>2 DEF FindUser
<1>6. CASE InsertToken(c) \/ DetectDeadlock(c) \/ Abort(c)
  BY <1>6, FinishStep DEF InsertToken, DetectDeadlock, Abort
<1> QED
  BY <1>1, <1>2, <1>3, <1>4, <1>5, <1>6

\* The rows and the other calls are in order: so is everything.
LEMMA LastWrite ==
    ASSUME IInv, NEW c \in Calls, NEW call \in Call,
           calls' = [calls EXCEPT ![c] = call],
           call.step \notin {"wrong", "right", "cascade", "user", "move"},
           clock' = clock,
           users' \in [Users -> User], sessions' \in [Sessions -> Session],
           confirmations' \in Seq(Confirmation), changes' \in Seq(Change),
           logins' \in [Users -> SUBSET LoginRows],
           \A u \in Users : UserInv(u)',
           CallOk(call)', \A d \in Calls \ {c} : CallOk(calls[d])',
           \A x \in DOMAIN changes' : ChangeInv(x)',
           \A k \in DOMAIN confirmations' : ConfirmationInv(k)',
           DeletionIsComplete'
    PROVE  IInv'
<1>0. calls \in [Calls -> Call] /\ clock \in Instant
  BY DEF IInv, TypeOK
<1>1. calls' \in [Calls -> Call] /\ calls'[c] = call /\ \A d \in Calls \ {c} : calls'[d] = calls[d]
  BY <1>0
<1>2. TypeOK'
  BY <1>0, <1>1 DEF TypeOK
<1>3. LockInv'
  BY <1>1 DEF IInv, LockInv
<1>4. \A d \in Calls : CallOk(calls[d])'
  <2> TAKE d \in Calls
  <2>1. CASE d = c
    BY <1>1, <2>1
  <2> QED
    BY <2>1
<1> QED
  BY <1>2, <1>3, <1>4 DEF IInv

\* confirmations::create and email_changes::create.
LEMMA CreateStep ==
    ASSUME IInv, NEW c \in Calls, CreateConfirmation(c) \/ CreateChange(c)
    PROVE  IInv'
<1> USE ConstantsAssumption
<1>0. /\ clock \in Instant /\ clock \in Nat /\ CodeTTL \in Nat /\ ChangeTTL \in Nat
      /\ calls \in [Calls -> Call] /\ calls[c] \in Call /\ CallOk(calls[c])
      /\ users \in [Users -> User] /\ sessions \in [Sessions -> Session]
      /\ confirmations \in Seq(Confirmation) /\ changes \in Seq(Change)
      /\ logins \in [Users -> SUBSET LoginRows]
      /\ clock + CodeTTL \in Nat /\ clock + ChangeTTL \in Nat
  BY DEF IInv, TypeOK, Instant
<1>i. Idle \in Call /\ Idle.step = "idle" /\ Idle.user = None
  BY DEF Idle, Call, Steps, Instant
<1>1. CASE CreateConfirmation(c)
  <2>0. /\ calls[c].step = "send" /\ calls[c].user \in Users /\ calls[c].session \in Sessions
        /\ UNCHANGED <<clock, users, sessions, changes, logins>> /\ calls' = [calls EXCEPT ![c] = Idle]
        /\ calls[c].act \in Acts \cup {None} /\ calls[c].email \in Addresses \cup {None}
    BY <1>0, <1>1 DEF CreateConfirmation, CallOk, Call, Finish
  <2>1. CASE users[calls[c].user].email = None
    BY <1>1, <2>0, <2>1, FinishStep DEF CreateConfirmation
  <2>2. CASE users[calls[c].user].email # None
    <3> DEFINE row == [user |-> calls[c].user, session |-> calls[c].session,
                       act |-> calls[c].act, email |-> calls[c].email, created_at |-> clock,
                       expires_at |-> clock + CodeTTL, failures |-> 0, consumed |-> FALSE]
    <3>1. row \in Confirmation /\ row.user = calls[c].user /\ row.session = calls[c].session
          /\ row.failures = 0
      BY <1>0, <2>0 DEF Confirmation
    <3>2. confirmations' = Append(confirmations, row)
      BY <1>1, <2>2 DEF CreateConfirmation
    <3> HIDE DEF row
    <3>3. /\ confirmations' \in Seq(Confirmation)
          /\ DOMAIN confirmations' = DOMAIN confirmations \cup {Len(confirmations) + 1}
          /\ \A k \in DOMAIN confirmations : confirmations'[k] = confirmations[k]
          /\ confirmations'[Len(confirmations) + 1] = row
      BY SMTT(30), <1>0, <3>1, <3>2, AppendedRow
    <3>4. sessions[row.session].user = row.user
      BY <1>0, <2>0, <2>2, <3>1 DEF CallOk
    <3>5. ASSUME NEW k \in DOMAIN confirmations'
          PROVE  ConfirmationInv(k)' /\ (confirmations'[k].user # None =>
                    users[confirmations'[k].user].email # None)
      <4>1. CASE k \in DOMAIN confirmations
        <5>1. ConfirmationInv(k) /\ confirmations[k] \in Confirmation
          BY <1>0, <4>1 DEF IInv
        <5> QED
          BY <2>0, <3>3, <4>1, <5>1 DEF IInv, ConfirmationInv, Failures, DeletionIsComplete, Confirmation
      <4>2. CASE k = Len(confirmations) + 1
        BY <2>0, <2>2, <3>1, <3>3, <3>4, <4>2 DEF ConfirmationInv, Failures
      <4> QED
        BY <3>3, <4>1, <4>2
    <3>6. DeletionIsComplete'
      BY <2>0, <3>5 DEF IInv, DeletionIsComplete
    <3>7. \A d \in Calls \ {c} : CallOk(calls[d])'
      <4> TAKE d \in Calls \ {c}
      <4>1. CallOk(calls[d]) /\ calls'[d] = calls[d]
        BY <1>0, <2>0 DEF IInv
      <4> QED
        BY <2>0, <3>3, <4>1 DEF CallOk, Failures
    <3>8. CallOk(Idle)'
      BY <1>i DEF CallOk
    <3>9. /\ \A u \in Users : UserInv(u)'
          /\ \A x \in DOMAIN changes' : ChangeInv(x)'
      BY <2>0 DEF IInv, UserInv, ChangeInv
    <3> QED
      BY <1>0, <1>i, <2>0, <3>3, <3>5, <3>6, <3>7, <3>8, <3>9, LastWrite
  <2> QED
    BY <2>1, <2>2
<1>2. CASE CreateChange(c)
  <2>0. /\ calls[c].step = "link" /\ calls[c].user \in Users /\ calls[c].to \in Addresses
        /\ UNCHANGED <<clock, users, sessions, confirmations, logins>> /\ calls' = [calls EXCEPT ![c] = Idle]
        /\ calls[c].email \in Addresses \cup {None}
    BY <1>0, <1>2 DEF CreateChange, CallOk, Call, Finish
  <2>1. CASE users[calls[c].user].email = None
    BY <1>2, <2>0, <2>1, FinishStep DEF CreateChange
  <2>2. CASE users[calls[c].user].email # None
    <3> DEFINE row == [user |-> calls[c].user, from |-> calls[c].email, to |-> calls[c].to,
                       expires_at |-> clock + ChangeTTL, consumed |-> FALSE]
    <3>1. row \in Change /\ row.user = calls[c].user /\ row.to = calls[c].to
      BY <1>0, <2>0 DEF Change
    <3>2. changes' = Append(changes, row)
      BY <1>2, <2>2 DEF CreateChange
    <3> HIDE DEF row
    <3>3. /\ changes' \in Seq(Change)
          /\ DOMAIN changes' = DOMAIN changes \cup {Len(changes) + 1}
          /\ \A x \in DOMAIN changes : changes'[x] = changes[x]
          /\ changes'[Len(changes) + 1] = row
      BY <1>0, <3>1, <3>2, AppendedRow
    <3>5. ASSUME NEW x \in DOMAIN changes'
          PROVE  ChangeInv(x)' /\ (changes'[x].user # None =>
                    users[changes'[x].user].email # None)
      <4>1. CASE x \in DOMAIN changes
        <5>1. ChangeInv(x) /\ changes[x] \in Change
          BY <1>0, <4>1 DEF IInv
        <5> QED
          BY <3>3, <4>1, <5>1 DEF IInv, ChangeInv, DeletionIsComplete, Change
      <4>2. CASE x = Len(changes) + 1
        BY <2>0, <2>2, <3>1, <3>3, <4>2 DEF ChangeInv
      <4> QED
        BY <3>3, <4>1, <4>2
    <3>6. DeletionIsComplete'
      BY <2>0, <3>5 DEF IInv, DeletionIsComplete
    <3>7. \A d \in Calls \ {c} : CallOk(calls[d])'
      <4> TAKE d \in Calls \ {c}
      <4>1. CallOk(calls[d]) /\ calls'[d] = calls[d]
        BY <1>0, <2>0 DEF IInv
      <4> QED
        BY <2>0, <3>3, <4>1 DEF CallOk, Failures
    <3>8. CallOk(Idle)'
      BY <1>i DEF CallOk
    <3>9. /\ \A u \in Users : UserInv(u)'
          /\ \A k \in DOMAIN confirmations' : ConfirmationInv(k)'
      BY <2>0 DEF IInv, UserInv, ConfirmationInv, Failures
    <3> QED
      BY <1>0, <1>i, <2>0, <3>3, <3>5, <3>6, <3>7, <3>8, <3>9, LastWrite
  <2> QED
    BY <2>1, <2>2
<1> QED
  BY <1>1, <1>2

\* magic_links::create, authorization_codes::create and sessions::create.
LEMMA LoginStep ==
    ASSUME IInv, NEW c \in Calls, LoginWrites(c)
    PROVE  IInv'
<1>0. /\ calls \in [Calls -> Call] /\ calls[c] \in Call /\ CallOk(calls[c])
      /\ users \in [Users -> User] /\ sessions \in [Sessions -> Session]
      /\ confirmations \in Seq(Confirmation) /\ changes \in Seq(Change)
      /\ logins \in [Users -> SUBSET LoginRows]
      /\ calls[c].step \in {"email", "verify", "open"}
      /\ calls' = [calls EXCEPT ![c] = Idle]
      /\ UNCHANGED <<clock, users, sessions, confirmations, changes>>
  BY LoginWrite DEF IInv, TypeOK, Finish
<1>1. calls[c].user \in Users
  BY <1>0 DEF CallOk, Call
<1>2. /\ logins' \in [Users -> SUBSET LoginRows]
      /\ \A v \in Users : users[v].email = None => logins'[v] = logins[v]
  BY <1>0, <1>1, LoginWrite DEF Insert
<1>3. Idle \in Call /\ Idle.step = "idle" /\ Idle.user = None
  BY ConstantsAssumption DEF Idle, Call, Steps, Instant
<1>4. CallOk(Idle)'
  BY <1>3 DEF CallOk
<1>5. \A d \in Calls \ {c} : CallOk(calls[d])'
  <2> TAKE d \in Calls \ {c}
  <2>1. CallOk(calls[d]) /\ calls'[d] = calls[d]
    BY <1>0 DEF IInv
  <2> QED
    BY <1>0, <2>1 DEF CallOk, Failures
<1>6. /\ \A u \in Users : UserInv(u)'
      /\ \A x \in DOMAIN changes' : ChangeInv(x)'
      /\ \A k \in DOMAIN confirmations' : ConfirmationInv(k)'
  BY <1>0 DEF IInv, UserInv, ChangeInv, ConfirmationInv, Failures
<1>7. DeletionIsComplete'
  BY <1>0, <1>2 DEF IInv, DeletionIsComplete
<1> QED
  BY <1>0, <1>2, <1>3, <1>4, <1>5, <1>6, <1>7, LastWrite

\* What checking a code writes to its confirmation.
LEMMA CheckedRow ==
    ASSUME IInv, NEW c \in Calls, RecordCodeFailure(c) \/ ConsumeById(c)
    PROVE  LET k == calls[c].row IN
           /\ k \in DOMAIN confirmations /\ calls[c].user \in Users
           /\ confirmations[k].user = calls[c].user /\ ~confirmations[k].consumed
           /\ Failures(k) \in Nat /\ Failures(k) < MaxFailuresPerCode
           /\ confirmations' \in Seq(Confirmation) /\ DOMAIN confirmations' = DOMAIN confirmations
           /\ \A l \in DOMAIN confirmations \ {k} : confirmations'[l] = confirmations[l]
           /\ confirmations'[k].user = confirmations[k].user
           /\ confirmations'[k].session = confirmations[k].session
           /\ confirmations'[k].act = confirmations[k].act
           /\ confirmations'[k].created_at = confirmations[k].created_at
           /\ RecordCodeFailure(c) =>
                 /\ confirmations'[k].failures = confirmations[k].failures + 1
                 /\ confirmations'[k].consumed = (Failures(k) + 1 >= MaxFailuresPerCode)
           /\ ConsumeById(c) =>
                 /\ confirmations'[k].failures = confirmations[k].failures
                 /\ confirmations'[k].consumed
<1> USE ConstantsAssumption
<1> DEFINE k == calls[c].row
<1>0. /\ calls[c] \in Call /\ CallOk(calls[c]) /\ confirmations \in Seq(Confirmation)
      /\ MaxFailuresPerCode \in Nat
  BY DEF IInv, TypeOK
<1>1. /\ k \in DOMAIN confirmations /\ calls[c].user \in Users
      /\ confirmations[k].user = calls[c].user /\ ~confirmations[k].consumed
      /\ Failures(k) < MaxFailuresPerCode
  BY <1>0 DEF CallOk, RecordCodeFailure, ConsumeById, Call
<1> HIDE DEF k
<1>2. confirmations[k] \in Confirmation /\ confirmations[k].failures \in Nat
      /\ Failures(k) = confirmations[k].failures
  <2>1. confirmations[k] \in Confirmation
    BY <1>0, <1>1
  <2> QED
    BY <2>1 DEF Confirmation, Failures
<1>3. CASE RecordCodeFailure(c)
  <2> DEFINE last == Failures(k) + 1 >= MaxFailuresPerCode
             row == [confirmations[k] EXCEPT !.failures = @ + 1, !.consumed = last]
  <2>1. confirmations' = [confirmations EXCEPT ![k] = row]
    BY <1>0, <1>1, <1>2, <1>3 DEF RecordCodeFailure, k
  <2>2. /\ row \in Confirmation /\ row.user = confirmations[k].user
        /\ row.session = confirmations[k].session /\ row.act = confirmations[k].act
        /\ row.created_at = confirmations[k].created_at
        /\ row.failures = confirmations[k].failures + 1
        /\ row.consumed = last
    <3>1. last \in BOOLEAN
      OBVIOUS
    <3>2. confirmations[k].failures + 1 \in Nat
      BY <1>2
    <3> HIDE DEF last
    <3>3. row \in Confirmation
      BY <1>2, <3>1, <3>2 DEF Confirmation
    <3>4. row.consumed = last
      BY <1>2, Zenon DEF Confirmation
    <3> QED
      BY <1>2, <3>3, <3>4 DEF Confirmation
  <2> HIDE DEF row
  <2>3. /\ confirmations' \in Seq(Confirmation) /\ DOMAIN confirmations' = DOMAIN confirmations
        /\ \A l \in DOMAIN confirmations \ {k} : confirmations'[l] = confirmations[l]
        /\ confirmations'[k] = row
    BY <1>0, <1>1, <2>1, <2>2, UpdatedRow
  <2>4. ~ConsumeById(c)
    BY <1>3 DEF RecordCodeFailure, ConsumeById
  <2> QED
    BY <1>1, <1>2, <2>2, <2>3, <2>4 DEF k
<1>4. CASE ConsumeById(c)
  <2> DEFINE row == [confirmations[k] EXCEPT !.consumed = TRUE]
  <2>1. confirmations' = [confirmations EXCEPT ![k] = row]
    BY <1>0, <1>1, <1>2, <1>4 DEF ConsumeById, k
  <2>2. /\ row \in Confirmation /\ row.user = confirmations[k].user
        /\ row.session = confirmations[k].session /\ row.act = confirmations[k].act
        /\ row.created_at = confirmations[k].created_at
        /\ row.failures = confirmations[k].failures /\ row.consumed
    BY <1>2 DEF Confirmation
  <2> HIDE DEF row
  <2>3. /\ confirmations' \in Seq(Confirmation) /\ DOMAIN confirmations' = DOMAIN confirmations
        /\ \A l \in DOMAIN confirmations \ {k} : confirmations'[l] = confirmations[l]
        /\ confirmations'[k] = row
    BY <1>0, <1>1, <2>1, <2>2, UpdatedRow
  <2>4. ~RecordCodeFailure(c)
    BY <1>4 DEF RecordCodeFailure, ConsumeById
  <2> QED
    BY <1>1, <1>2, <2>2, <2>3, <2>4 DEF k
<1> QED
  BY <1>3, <1>4

\* record_code_failure and consume_by_id, under the account's lock.
LEMMA CheckStep ==
    ASSUME IInv, NEW c \in Calls, RecordCodeFailure(c) \/ ConsumeById(c)
    PROVE  IInv'
<1> USE ConstantsAssumption
<1> DEFINE k == calls[c].row
<1>0. /\ calls \in [Calls -> Call] /\ calls[c] \in Call /\ CallOk(calls[c])
      /\ MaxFailuresPerCode \in Nat /\ MaxFailuresPerCode > 0
      /\ users \in [Users -> User] /\ sessions \in [Sessions -> Session] /\ changes \in Seq(Change)
      /\ logins \in [Users -> SUBSET LoginRows]
  BY DEF IInv, TypeOK
<1>1. /\ k \in DOMAIN confirmations /\ Failures(k) \in Nat /\ Failures(k) < MaxFailuresPerCode
      /\ calls[c].user \in Users /\ confirmations[k].user = calls[c].user
      /\ confirmations' \in Seq(Confirmation) /\ DOMAIN confirmations' = DOMAIN confirmations
      /\ \A l \in DOMAIN confirmations \ {k} : confirmations'[l] = confirmations[l]
      /\ confirmations'[k].user = confirmations[k].user
      /\ confirmations'[k].session = confirmations[k].session
      /\ confirmations'[k].failures <= MaxFailuresPerCode
  <2>1. confirmations'[calls[c].row].failures \in {Failures(calls[c].row), Failures(calls[c].row) + 1}
    BY CheckedRow DEF Failures
  <2> QED
    BY <1>0, <2>1, CheckedRow
<1> HIDE DEF k
<1>2. UNCHANGED <<clock, users, sessions, changes, logins>>
  BY DEF RecordCodeFailure, ConsumeById
<1>3. PICK call \in Call :
         /\ calls' = [calls EXCEPT ![c] = call]
         /\ \/ call = Idle
            \/ /\ call.step \in {"lookup", "delete"} /\ call.user = calls[c].user
               /\ call.step = "lookup" => call.to # None /\ call.act = "change_email"
  <2>1. CASE RecordCodeFailure(c)
    <3>1. Idle \in Call
      BY DEF Idle, Call, Steps, Instant
    <3> QED
      BY <2>1, <3>1 DEF RecordCodeFailure, Finish
  <2>2. CASE ConsumeById(c)
    <3> DEFINE next == IF calls[c].act = "change_email" THEN "lookup" ELSE "delete"
               call == [calls[c] EXCEPT !.step = next, !.row = 0]
    <3>1. calls' = [calls EXCEPT ![c] = call]
      BY <1>0, <2>2 DEF ConsumeById
    <3>2. /\ call \in Call /\ call.step = next /\ call.user = calls[c].user
          /\ call.to = calls[c].to /\ call.act = calls[c].act
      BY ZenonT(60), <1>0 DEF Call, Steps
    <3>3. calls[c].act = "change_email" => calls[c].to # None
      BY <1>0, <2>2 DEF ConsumeById, CallOk
    <3>4. /\ call.step \in {"lookup", "delete"} /\ call.user = calls[c].user
          /\ call.step = "lookup" => call.to # None /\ call.act = "change_email"
      BY <3>2, <3>3
    <3> QED
      BY <3>1, <3>2, <3>4
  <2> QED
    BY <2>1, <2>2
<1>4. CallOk(call)'
  <2>1. Idle.step = "idle" /\ Idle.user = None
    BY DEF Idle
  <2>2. users[calls[c].user].known
    BY <1>0, <1>1 DEF CallOk
  <2> QED
    BY <1>1, <1>2, <1>3, <2>1, <2>2 DEF CallOk
<1>5. \A d \in Calls \ {c} : CallOk(calls[d])'
  <2> TAKE d \in Calls \ {c}
  <2>1. CallOk(calls[d]) /\ calls'[d] = calls[d]
    BY <1>0, <1>3 DEF IInv
  <2>2. calls[d].step \in {"wrong", "right"} => calls[d].row # k
    <3>1. calls[c].step \in {"wrong", "right"}
      BY DEF RecordCodeFailure, ConsumeById
    <3>2. calls[d].step \in {"wrong", "right"} /\ calls[d].row = k => calls[d].user = calls[c].user
      BY <1>1, <2>1 DEF CallOk
    <3>3. LockInv
      BY DEF IInv
    <3> QED
      BY <3>1, <3>2, <3>3 DEF LockInv
  <2> QED
    BY <1>1, <1>2, <2>1, <2>2 DEF CallOk, Failures
<1>6. \A l \in DOMAIN confirmations' : ConfirmationInv(l)'
  <2> TAKE l \in DOMAIN confirmations'
  <2>1. ConfirmationInv(l)
    BY <1>1 DEF IInv
  <2> QED
    BY <1>1, <1>2, <2>1 DEF ConfirmationInv, Failures
<1>7. /\ \A u \in Users : UserInv(u)'
      /\ \A x \in DOMAIN changes' : ChangeInv(x)'
      /\ DeletionIsComplete'
  BY <1>1, <1>2 DEF IInv, UserInv, ChangeInv, DeletionIsComplete
<1>8. call.step \notin {"wrong", "right", "cascade", "user", "move"}
  BY <1>3 DEF Idle
<1> QED
  BY <1>0, <1>1, <1>2, <1>3, <1>4, <1>5, <1>6, <1>7, <1>8, LastWrite

\* users::delete: the account and every row that is its own.
LEMMA CascadeStep ==
    ASSUME IInv, NEW c \in Calls, Cascade(c)
    PROVE  IInv'
<1> USE ConstantsAssumption
<1> DEFINE u == calls[c].user
<1>0. /\ calls \in [Calls -> Call] /\ calls[c] \in Call /\ CallOk(calls[c])
      /\ users \in [Users -> User] /\ sessions \in [Sessions -> Session]
      /\ confirmations \in Seq(Confirmation) /\ changes \in Seq(Change)
      /\ logins \in [Users -> SUBSET LoginRows]
      /\ u \in Users /\ calls[c].step = "cascade"
  BY DEF IInv, TypeOK, CallOk, Cascade, Call
<1> HIDE DEF u
<1>1. NoConfirmation \in Confirmation /\ NoConfirmation.user = None /\ NoConfirmation.failures = 0
  BY DEF NoConfirmation, Confirmation, Instant
<1>2. NoChange \in Change /\ NoChange.user = None
  BY DEF NoChange, Change
<1>3. Idle \in Call /\ Idle.step = "idle" /\ Idle.user = None
  BY DEF Idle, Call, Steps, Instant
<1>4. /\ users' \in [Users -> User] /\ users'[u].email = None /\ users'[u].known
      /\ \A v \in Users \ {u} : users'[v] = users[v]
  <2>1. [NoUser EXCEPT !.known = TRUE] \in User /\ [NoUser EXCEPT !.known = TRUE].email = None
        /\ [NoUser EXCEPT !.known = TRUE].known
    BY DEF NoUser, User
  <2>2. users' = [users EXCEPT ![u] = [NoUser EXCEPT !.known = TRUE]]
    BY DEF Cascade, u
  <2> QED
    BY <1>0, <2>1, <2>2
<1>5. /\ sessions' \in [Sessions -> Session]
      /\ \A s \in Sessions : IF sessions[s].user = u THEN sessions'[s].user = None
                             ELSE sessions'[s] = sessions[s]
  <2>1. [user |-> None, live |-> FALSE] \in Session
    BY DEF Session
  <2> QED
    BY <1>0, <2>1 DEF Cascade, u
<1>6. /\ confirmations' \in Seq(Confirmation) /\ DOMAIN confirmations' = DOMAIN confirmations
      /\ \A k \in DOMAIN confirmations : confirmations'[k] =
            IF confirmations[k].user = u THEN NoConfirmation ELSE confirmations[k]
  <2>1. confirmations' = [k \in 1 .. Len(confirmations) |->
                            IF confirmations[k].user = u THEN NoConfirmation ELSE confirmations[k]]
    BY <1>0 DEF Cascade, u
  <2> QED
    BY <1>0, <1>1, <2>1
<1>7. /\ changes' \in Seq(Change) /\ DOMAIN changes' = DOMAIN changes
      /\ \A x \in DOMAIN changes : changes'[x] =
            IF changes[x].user = u THEN NoChange ELSE changes[x]
  <2>1. changes' = [x \in 1 .. Len(changes) |->
                      IF changes[x].user = u THEN NoChange ELSE changes[x]]
    BY <1>0 DEF Cascade, u
  <2> QED
    BY <1>0, <1>2, <2>1
<1>8. clock' = clock /\ calls' = [calls EXCEPT ![c] = Idle]
  BY DEF Cascade, Finish
<1>l. /\ logins' \in [Users -> SUBSET LoginRows] /\ logins'[u] = {}
      /\ \A v \in Users \ {u} : logins'[v] = logins[v]
  BY <1>0 DEF Cascade, u
<1>9. ASSUME NEW d \in Calls \ {c}
      PROVE  CallOk(calls[d])'
  <2>1. CallOk(calls[d]) /\ calls'[d] = calls[d] /\ calls[d] \in Call
    BY <1>0, <1>8 DEF IInv
  <2>2. /\ calls[d].user # None => users'[calls[d].user].known
        /\ calls[d].user \in Users /\ users'[calls[d].user].email # None =>
              users[calls[d].user].email # None /\ calls[d].user # u
    BY <1>4, <2>1 DEF CallOk, Call
  <2>3. calls[d].step \in {"send", "candidate"} =>
           /\ sessions'[calls[d].session].user \in {calls[d].user, None}
           /\ users'[calls[d].user].email # None => sessions'[calls[d].session].user # None
    BY <1>0, <1>5, <2>1, <2>2 DEF CallOk, Call
  <2>r. calls[d].step = "rotate" =>
           sessions'[calls[d].session].user \in {calls[d].user, None}
    BY <1>0, <1>5, <2>1 DEF CallOk, Call
  <2>4. calls[d].step \in {"wrong", "right"} =>
           /\ calls[d].row \in DOMAIN confirmations
           /\ confirmations'[calls[d].row] = confirmations[calls[d].row]
    <3>1. calls[d].step \in {"wrong", "right"} => calls[d].user # u
      BY <1>0 DEF IInv, LockInv, u
    <3> QED
      BY <1>6, <2>1, <3>1 DEF CallOk
  <2>5. calls[d].step \in {"user", "move"} =>
           /\ calls[d].row \in DOMAIN changes
           /\ changes'[calls[d].row] = changes[calls[d].row]
    <3> SUFFICES ASSUME calls[d].step \in {"user", "move"}
                 PROVE  /\ calls[d].row \in DOMAIN changes
                        /\ changes'[calls[d].row] = changes[calls[d].row]
      OBVIOUS
    <3>1. calls[d].row \in DOMAIN changes
      BY <2>1 DEF CallOk
    <3>2. changes[calls[d].row].user # u
      BY <3>1, NothingHeld DEF Cascade, ChangeLocked, HoldsChange, u
    <3> QED
      BY <1>7, <3>1, <3>2
  <2> QED
    BY <1>6, <1>7, <1>8, <2>1, <2>2, <2>3, <2>r, <2>4, <2>5 DEF CallOk, Failures
<1>10. CallOk(Idle)'
  BY <1>3 DEF CallOk
<1>11. \A v \in Users : UserInv(v)'
  BY <1>4 DEF IInv, UserInv
<1>12. \A x \in DOMAIN changes' : ChangeInv(x)'
  BY <1>2, <1>7 DEF IInv, ChangeInv
<1>13. ASSUME NEW k \in DOMAIN confirmations'
       PROVE  ConfirmationInv(k)'
  <2>1. ConfirmationInv(k) /\ confirmations[k] \in Confirmation
    BY <1>0, <1>6 DEF IInv
  <2>2. CASE confirmations[k].user = u
    BY <1>1, <1>6, <2>2 DEF ConfirmationInv, Failures
  <2>3. CASE confirmations[k].user # u
    BY <1>5, <1>6, <2>1, <2>3 DEF ConfirmationInv, Failures, Confirmation
  <2> QED
    BY <2>2, <2>3
<1>14. DeletionIsComplete'
  <2> SUFFICES ASSUME NEW v \in Users, users'[v].email = None
               PROVE  /\ \A s \in Sessions : sessions'[s].user # v
                      /\ \A k \in DOMAIN confirmations' : confirmations'[k].user # v
                      /\ \A x \in DOMAIN changes' : changes'[x].user # v
                      /\ logins'[v] = {}
    BY DEF DeletionIsComplete
  <2>1. v # None
    OBVIOUS
  <2>2. CASE v = u
    BY <1>1, <1>2, <1>5, <1>6, <1>7, <1>l, <2>1, <2>2
  <2>3. CASE v # u
    <3>1. users[v].email = None
      BY <1>4, <2>3
    <3>2. /\ \A s \in Sessions : sessions[s].user # v
          /\ \A k \in DOMAIN confirmations : confirmations[k].user # v
          /\ \A x \in DOMAIN changes : changes[x].user # v
          /\ logins[v] = {}
      BY <3>1 DEF IInv, DeletionIsComplete
    <3> QED
      BY <1>1, <1>2, <1>5, <1>6, <1>7, <1>l, <2>1, <2>3, <3>2
  <2> QED
    BY <2>2, <2>3
<1> QED
  BY <1>3, <1>4, <1>5, <1>6, <1>7, <1>8, <1>l, <1>9, <1>10, <1>11, <1>12, <1>13, <1>14, LastWrite

\* What users::change_email writes, if the account is where the link was sent from.
LEMMA MovedAccount ==
    ASSUME IInv, NEW c \in Calls, ChangeEmail(c)
    PROVE  LET x == calls[c].row
               u == changes[x].user IN
           /\ x \in DOMAIN changes /\ u \in Users /\ ~changes[x].consumed
           /\ changes[x].to \in Addresses /\ users[u].email # None
           /\ \/ UNCHANGED <<users, changes>>
              \/ /\ users[u].email = changes[x].from
                 /\ users' \in [Users -> User]
                 /\ \A v \in Users \ {u} : users'[v] = users[v]
                 /\ users'[u].email = changes[x].to /\ users'[u].known = users[u].known
                 /\ changes' \in Seq(Change) /\ DOMAIN changes' = DOMAIN changes
                 /\ \A y \in DOMAIN changes \ {x} : changes'[y] = changes[y]
                 /\ changes'[x].user = changes[x].user /\ changes'[x].to = changes[x].to
                 /\ changes'[x].consumed
<1> USE ConstantsAssumption
<1> DEFINE x == calls[c].row
           u == changes[x].user
<1>0. /\ calls[c] \in Call /\ CallOk(calls[c]) /\ calls[c].step = "move"
      /\ users \in [Users -> User] /\ changes \in Seq(Change)
  BY DEF IInv, TypeOK, ChangeEmail
<1>1. x \in DOMAIN changes /\ u # None /\ ~changes[x].consumed
  BY <1>0 DEF CallOk
<1>2. changes[x] \in Change
  BY <1>0, <1>1
<1>3. u \in Users /\ changes[x].to \in Addresses
  BY <1>1, <1>2 DEF Change, IInv, ChangeInv
<1>4. users[u].email # None /\ users[u] \in User
  BY <1>0, <1>1, <1>3 DEF IInv, DeletionIsComplete
<1>5. ASSUME users[u].email = changes[x].from,
             users' = [users EXCEPT ![u].email = changes[x].to],
             changes' = [changes EXCEPT ![x].consumed = TRUE]
      PROVE  /\ users' \in [Users -> User]
             /\ \A v \in Users \ {u} : users'[v] = users[v]
             /\ users'[u].email = changes[x].to /\ users'[u].known = users[u].known
             /\ changes' \in Seq(Change) /\ DOMAIN changes' = DOMAIN changes
             /\ \A y \in DOMAIN changes \ {x} : changes'[y] = changes[y]
             /\ changes'[x].user = changes[x].user /\ changes'[x].to = changes[x].to
             /\ changes'[x].consumed
  <2> DEFINE user == [users[u] EXCEPT !.email = changes[x].to]
             row == [changes[x] EXCEPT !.consumed = TRUE]
  <2> HIDE DEF x, u
  <2>1. users' = [users EXCEPT ![u] = user] /\ changes' = [changes EXCEPT ![x] = row]
    BY <1>0, <1>1, <1>3, <1>5
  <2>2. user \in User /\ user.email = changes[x].to /\ user.known = users[u].known
    BY <1>3, <1>4 DEF User
  <2>3. row \in Change /\ row.user = changes[x].user /\ row.to = changes[x].to /\ row.consumed
    BY <1>2 DEF Change
  <2> HIDE DEF user, row
  <2>4. /\ changes' \in Seq(Change) /\ DOMAIN changes' = DOMAIN changes
        /\ \A y \in DOMAIN changes \ {x} : changes'[y] = changes[y]
        /\ changes'[x] = row
    BY <1>0, <1>1, <2>1, <2>3, UpdatedRow
  <2> QED
    BY <1>0, <1>3, <2>1, <2>2, <2>3, <2>4
<1>6. \/ UNCHANGED <<users, changes>>
      \/ /\ users[u].email = changes[x].from
         /\ users' = [users EXCEPT ![u].email = changes[x].to]
         /\ changes' = [changes EXCEPT ![x].consumed = TRUE]
  BY DEF ChangeEmail
<1> QED
  BY <1>1, <1>3, <1>4, <1>5, <1>6

\* users::change_email, under the lock of the change.
LEMMA MoveStep ==
    ASSUME IInv, NEW c \in Calls, ChangeEmail(c)
    PROVE  IInv'
<1> USE ConstantsAssumption
<1> DEFINE x == calls[c].row
           u == changes[x].user
<1>0. /\ calls \in [Calls -> Call] /\ calls[c].step = "move"
      /\ users \in [Users -> User] /\ sessions \in [Sessions -> Session]
      /\ confirmations \in Seq(Confirmation) /\ changes \in Seq(Change)
      /\ logins \in [Users -> SUBSET LoginRows]
      /\ UNCHANGED <<clock, sessions, confirmations, logins>> /\ calls' = [calls EXCEPT ![c] = Idle]
  BY DEF IInv, TypeOK, ChangeEmail, Finish
<1>1. CASE UNCHANGED <<users, changes>>
  BY <1>0, <1>1, FinishStep DEF Finish
<1>2. CASE ~UNCHANGED <<users, changes>>
  <2>1. /\ x \in DOMAIN changes /\ u \in Users /\ changes[x].to \in Addresses
        /\ users[u].email # None
        /\ users' \in [Users -> User]
        /\ \A v \in Users \ {u} : users'[v] = users[v]
        /\ users'[u].email = changes[x].to /\ users'[u].known = users[u].known
        /\ changes' \in Seq(Change) /\ DOMAIN changes' = DOMAIN changes
        /\ \A y \in DOMAIN changes \ {x} : changes'[y] = changes[y]
        /\ changes'[x].user = changes[x].user /\ changes'[x].to = changes[x].to
    BY <1>2, MovedAccount
  <2> HIDE DEF x, u
  <2>2. users'[u].email # None /\ users'[u].known
    BY <2>1 DEF IInv, UserInv
  <2>3. \A v \in Users : /\ users'[v].known = users[v].known
                         /\ users'[v].email = None <=> users[v].email = None
    BY <2>1, <2>2
  <2>4. Idle \in Call /\ Idle.step = "idle" /\ Idle.user = None
    BY DEF Idle, Call, Steps, Instant
  <2>5. CallOk(Idle)'
    BY <2>4 DEF CallOk
  <2>6. ASSUME NEW d \in Calls \ {c}
        PROVE  CallOk(calls[d])'
    <3>1. CallOk(calls[d]) /\ calls'[d] = calls[d] /\ calls[d] \in Call
      BY <1>0 DEF IInv
    <3>2. calls[d].step \in {"user", "move"} => calls[d].row # x
      BY <1>0 DEF IInv, LockInv, x
    <3>3. calls[d].user \in Users \cup {None}
      BY <3>1 DEF Call
    <3> QED
      BY <1>0, <2>1, <2>3, <3>1, <3>2, <3>3 DEF CallOk, Failures
  <2>7. \A v \in Users : UserInv(v)'
    BY <2>3 DEF IInv, UserInv
  <2>8. \A y \in DOMAIN changes' : ChangeInv(y)'
    BY <2>1 DEF IInv, ChangeInv
  <2>9. \A k \in DOMAIN confirmations' : ConfirmationInv(k)'
    BY <1>0 DEF IInv, ConfirmationInv, Failures
  <2>10. DeletionIsComplete'
    <3>1. \A y \in DOMAIN changes : changes'[y].user = changes[y].user
      BY <2>1
    <3>2. ASSUME NEW v \in Users, users'[v].email = None
          PROVE  /\ \A s \in Sessions : sessions[s].user # v
                 /\ \A k \in DOMAIN confirmations : confirmations[k].user # v
                 /\ \A y \in DOMAIN changes : changes[y].user # v
                 /\ logins[v] = {}
      <4>1. users[v].email = None
        BY <2>3, <3>2
      <4> QED
        BY <4>1 DEF IInv, DeletionIsComplete
    <3>3. DOMAIN changes' = DOMAIN changes
      BY <2>1
    <3> QED
      BY <1>0, <3>1, <3>2, <3>3 DEF DeletionIsComplete
  <2> QED
    BY <1>0, <2>1, <2>4, <2>5, <2>6, <2>7, <2>8, <2>9, <2>10, LastWrite
<1> QED
  BY <1>1, <1>2

\* The steps of nobody's call: the end of a session, a sign-up, the operator, time.
LEMMA OtherStep ==
    ASSUME IInv,
           \/ \E s \in Sessions : EndSession(s)
           \/ \E u \in Users, a \in Addresses : SignUp(u, a)
           \/ \E u \in Users : DisableUser(u)
           \/ Tick
    PROVE  IInv'
<1> USE ConstantsAssumption
<1>0. /\ users \in [Users -> User] /\ sessions \in [Sessions -> Session]
      /\ calls \in [Calls -> Call] /\ clock \in Instant /\ clock \in Nat
      /\ UNCHANGED <<confirmations, changes, logins, calls>>
  BY DEF IInv, TypeOK, Instant, EndSession, SignUp, DisableUser, Tick
<1>1. /\ sessions' \in [Sessions -> Session]
      /\ \A s \in Sessions : sessions'[s].user = sessions[s].user
  <2>1. ASSUME NEW s \in Sessions, EndSession(s)
        PROVE  /\ sessions' \in [Sessions -> Session]
               /\ \A t \in Sessions : sessions'[t].user = sessions[t].user
    <3>1. sessions[s] \in Session
      BY <1>0
    <3>2. [sessions[s] EXCEPT !.live = FALSE] \in Session
          /\ [sessions[s] EXCEPT !.live = FALSE].user = sessions[s].user
      BY <3>1 DEF Session
    <3>3. sessions' = [sessions EXCEPT ![s] = [sessions[s] EXCEPT !.live = FALSE]]
      BY <1>0, <2>1 DEF EndSession
    <3> QED
      BY <1>0, <3>2, <3>3
  <2> QED
    BY <1>0, <2>1 DEF SignUp, DisableUser, Tick
<1>2. /\ users' \in [Users -> User]
      /\ \A u \in Users :
            /\ users[u].known => users'[u].known
            /\ \/ users'[u].email = users[u].email
               \/ ~users[u].known /\ users'[u].known
  <2>1. ASSUME NEW u \in Users, NEW a \in Addresses, SignUp(u, a)
        PROVE  /\ users' \in [Users -> User]
               /\ \A v \in Users : \/ users'[v] = users[v]
                                   \/ ~users[v].known /\ users'[v].known
    <3> DEFINE user == [known |-> TRUE, email |-> a, disabled |-> FALSE]
    <3>1. user \in User /\ user.known
      BY DEF User
    <3>2. users' = [users EXCEPT ![u] = user] /\ ~users[u].known
      BY <2>1 DEF SignUp
    <3> HIDE DEF user
    <3> QED
      BY <1>0, <3>1, <3>2
  <2>2. ASSUME NEW u \in Users, DisableUser(u)
        PROVE  /\ users' \in [Users -> User]
               /\ \A v \in Users : users'[v].email = users[v].email /\ users'[v].known = users[v].known
    <3> DEFINE user == [users[u] EXCEPT !.disabled = TRUE]
    <3>0. users[u] \in User
      BY <1>0
    <3>1. user \in User /\ user.known = users[u].known /\ user.email = users[u].email
      BY <3>0 DEF User
    <3>2. users' = [users EXCEPT ![u] = user]
      BY <1>0, <2>2 DEF DisableUser
    <3> HIDE DEF user
    <3> QED
      BY <1>0, <3>1, <3>2
  <2> QED
    BY <1>0, <2>1, <2>2 DEF EndSession, Tick
<1>3. clock' \in Instant /\ clock' \in Nat /\ clock' >= clock
  BY <1>0 DEF EndSession, SignUp, DisableUser, Tick, Instant
<1>4. TypeOK'
  BY <1>0, <1>1, <1>2, <1>3 DEF IInv, TypeOK
<1>5. ASSUME NEW c \in Calls
      PROVE  CallOk(calls[c])'
  <2>1. CallOk(calls[c]) /\ calls[c] \in Call /\ calls'[c] = calls[c]
    BY <1>0 DEF IInv
  <2>2. calls[c].user \in Users \cup {None} /\ calls[c].session \in Sessions \cup {None}
        /\ calls[c].start \in Nat
    BY <2>1 DEF Call, Instant
  <2>3. calls[c].user # None => users'[calls[c].user].known
           /\ users'[calls[c].user].email = users[calls[c].user].email
    BY <1>2, <2>1, <2>2 DEF CallOk
  <2>4. calls[c].session # None =>
           sessions'[calls[c].session].user = sessions[calls[c].session].user
    BY <1>1, <2>2
  <2> QED
    BY <1>0, <1>3, <2>1, <2>2, <2>3, <2>4 DEF CallOk, Failures
<1>6. LockInv' /\ (\A x \in DOMAIN changes' : ChangeInv(x)')
  BY <1>0 DEF IInv, LockInv, ChangeInv
<1>7. ASSUME NEW k \in DOMAIN confirmations'
      PROVE  ConfirmationInv(k)'
  <2>1. ConfirmationInv(k) /\ confirmations[k] \in Confirmation
    BY <1>0 DEF IInv, TypeOK
  <2>2. confirmations[k].session \in Sessions \cup {None}
    BY <2>1 DEF Confirmation
  <2> QED
    BY <1>0, <1>1, <2>1, <2>2 DEF ConfirmationInv, Failures
<1>8. \A u \in Users : UserInv(u)'
  BY <1>2 DEF IInv, UserInv
<1>9. ASSUME NEW u \in Users, users'[u].email = None
      PROVE  users[u].email = None
  BY <1>2, <1>9 DEF IInv, UserInv
<1>10. DeletionIsComplete'
  BY <1>0, <1>1, <1>9 DEF IInv, DeletionIsComplete
<1> QED
  BY <1>4, <1>5, <1>6, <1>7, <1>8, <1>10 DEF IInv

\* Every step keeps the invariant.
LEMMA NextKeepsIInv == IInv /\ [Next]_vars => IInv'
<1> SUFFICES ASSUME IInv, [Next]_vars PROVE IInv'
  OBVIOUS
<1>1. ASSUME NEW c \in Calls, Arrive(c) PROVE IInv'
  BY <1>1, ArriveStep
<1>2. ASSUME NEW c \in Calls, Handle(c) \/ Abort(c)
      PROVE  IInv'
  <2>1. CASE \/ FindCodeCandidate(c) \/ FindByEmail(c) \/ Delete(c) \/ ConsumeChange(c)
             \/ FindUser(c) \/ InsertToken(c) \/ DetectDeadlock(c) \/ Abort(c)
    BY <2>1, ReadStep
  <2>2. CASE CreateConfirmation(c) \/ CreateChange(c)
    BY <2>2, CreateStep
  <2>3. CASE RecordCodeFailure(c) \/ ConsumeById(c)
    BY <2>3, CheckStep
  <2>4. CASE Cascade(c)
    BY <2>4, CascadeStep
  <2>5. CASE ChangeEmail(c)
    BY <2>5, MoveStep
  <2>6. CASE LoginWrites(c)
    BY <2>6, LoginStep
  <2> QED
    BY <1>2, <2>1, <2>2, <2>3, <2>4, <2>5, <2>6 DEF Handle, LoginWrites
<1>3. CASE \/ \E s \in Sessions : EndSession(s)
           \/ \E u \in Users, a \in Addresses : SignUp(u, a)
           \/ \E u \in Users : DisableUser(u)
           \/ Tick
  BY <1>3, OtherStep
<1>4. CASE UNCHANGED vars
  <2> USE <1>4 DEF vars
  <2>1. TypeOK' /\ LockInv' /\ DeletionIsComplete'
    BY DEF IInv, TypeOK, LockInv, DeletionIsComplete
  <2>2. \A c \in Calls : CallOk(calls[c])'
    BY DEF IInv, CallOk, Failures
  <2>3. /\ \A u \in Users : UserInv(u)'
        /\ \A x \in DOMAIN changes' : ChangeInv(x)'
        /\ \A k \in DOMAIN confirmations' : ConfirmationInv(k)'
    BY DEF IInv, UserInv, ChangeInv, ConfirmationInv, Failures
  <2> QED
    BY <2>1, <2>2, <2>3 DEF IInv
<1> QED
  BY <1>1, <1>2, <1>3, <1>4 DEF Next

-----------------------------------------------------------------------------
(* The theorems *)

\* However calls, the database, the operator and the clock interleave, the
\* inductive invariant holds.
THEOREM IInvHolds == Spec => []IInv
<1>1. Init => IInv
  BY InitEstablishesIInv
<1>2. IInv /\ [Next]_vars => IInv'
  BY NextKeepsIInv
<1> QED
  BY <1>1, <1>2, PTL DEF Spec

\* Rows and calls keep the shape the code gives them.
THEOREM TypeCorrect == Spec => []TypeOK
<1>1. IInv => TypeOK
  BY DEF IInv
<1> QED
  BY <1>1, IInvHolds, PTL

\* users::delete leaves no session, code or link of the account, and no call that
\* was authenticated before the deletion adds one.
THEOREM NothingOutlivesItsAccount == Spec => []DeletionIsComplete
<1>1. IInv => DeletionIsComplete
  BY DEF IInv
<1> QED
  BY <1>1, IInvHolds, PTL

\* users::change_email is the only statement that moves an account, and it moves
\* it along an unused link from the address the account has.
THEOREM LinksMoveAccounts == Spec => MovesFollowLinks
<1> DEFINE Moves ==
      \A u \in Users :
         users[u].email # None /\ users'[u].email \notin {None, users[u].email} =>
             \E x \in DOMAIN changes :
                 /\ changes[x].user = u
                 /\ changes[x].from = users[u].email
                 /\ changes[x].to = users'[u].email
                 /\ ~changes[x].consumed /\ changes'[x].consumed
<1>1. IInv /\ [Next]_vars => [Moves]_vars
  <2> SUFFICES ASSUME IInv, Next,
                      NEW u \in Users, users[u].email # None,
                      users'[u].email \notin {None, users[u].email}
               PROVE  \E x \in DOMAIN changes :
                         /\ changes[x].user = u
                         /\ changes[x].from = users[u].email
                         /\ changes[x].to = users'[u].email
                         /\ ~changes[x].consumed /\ changes'[x].consumed
    BY DEF vars
  <2>0. users \in [Users -> User] /\ users[u].known
    BY DEF IInv, TypeOK, UserInv
  <2>1. ASSUME NEW c \in Calls, ChangeEmail(c)
        PROVE  \E x \in DOMAIN changes :
                  /\ changes[x].user = u
                  /\ changes[x].from = users[u].email
                  /\ changes[x].to = users'[u].email
                  /\ ~changes[x].consumed /\ changes'[x].consumed
    <3> DEFINE x == calls[c].row
    <3>1. users' # users
      OBVIOUS
    <3>2. /\ x \in DOMAIN changes /\ ~changes[x].consumed /\ changes'[x].consumed
          /\ users[changes[x].user].email = changes[x].from
          /\ users'[changes[x].user].email = changes[x].to
          /\ \A v \in Users \ {changes[x].user} : users'[v] = users[v]
      BY <2>1, <3>1, MovedAccount
    <3>3. changes[x].user = u
      BY <3>2
    <3> QED
      BY <3>2, <3>3
  <2>2. ASSUME NEW c \in Calls, Cascade(c)
        PROVE  FALSE
    <3>1. \A v \in Users : users'[v] = users[v] \/ users'[v].email = None
      BY <2>0, <2>2 DEF Cascade, NoUser
    <3> QED
      BY <3>1
  <2>3. ASSUME NEW v \in Users, NEW a \in Addresses, SignUp(v, a)
        PROVE  FALSE
    BY <2>0, <2>3 DEF SignUp
  <2>4. ASSUME NEW v \in Users, DisableUser(v)
        PROVE  FALSE
    <3>1. users[v] \in User
      BY <2>0
    <3>2. users'[u].email = users[u].email
      BY <2>0, <2>4, <3>1 DEF DisableUser, User
    <3> QED
      BY <3>2
  <2>5. CASE users' = users
    BY <2>5
  <2>6. ASSUME NEW c \in Calls, Arrive(c) PROVE users' = users
    BY <2>6 DEF Arrive, RequestConfirmation, UseCode, ConfirmChange, FindForUpdate,
                RequestLink, ConsumeLink, ConsumeCode
  <2>7. ASSUME NEW c \in Calls, Handle(c) \/ Abort(c) PROVE users' = users \/ ChangeEmail(c) \/ Cascade(c)
    BY <2>7 DEF Handle, Abort, CreateConfirmation, FindCodeCandidate, RecordCodeFailure,
                ConsumeById, FindByEmail, CreateChange, Delete, ConsumeChange, FindUser,
                InsertToken, CreateLink, MarkEmailVerified, OpenSession, DetectDeadlock
  <2>8. (Tick \/ \E s \in Sessions : EndSession(s)) => users' = users
    BY DEF Tick, EndSession
  <2> QED
    BY <2>1, <2>2, <2>3, <2>4, <2>5, <2>6, <2>7, <2>8 DEF Next
<1> QED
  BY <1>1, IInvHolds, PTL DEF Spec, MovesFollowLinks

-----------------------------------------------------------------------------
(* Guesses: the second layer of the invariant *)

\* A call that is about to count a wrong code found room for it under the
\* account's lock, and has kept the lock.
BudgetInv ==
    \A u \in Users :
       /\ DayFailures(u, clock) <= MaxFailuresPerDay
       /\ (\E c \in Calls : calls[c].step = "wrong" /\ calls[c].user = u)
             => DayFailures(u, clock) < MaxFailuresPerDay

\* The wrong codes of an account can be counted.
LEMMA WrongCodesAreFinite ==
    ASSUME IInv, NEW u \in Users, NEW now \in Nat
    PROVE  IsFiniteSet(WrongCodes(u, now)) /\ DayFailures(u, now) \in Nat
<1> USE ConstantsAssumption
<1> DEFINE all == (1 .. Len(confirmations)) \X (1 .. MaxFailuresPerCode)
<1>0. /\ confirmations \in Seq(Confirmation) /\ MaxFailuresPerCode \in Int
      /\ Len(confirmations) \in Int /\ 1 \in Int
  BY DEF IInv, TypeOK
<1>1. IsFiniteSet(1 .. Len(confirmations)) /\ IsFiniteSet(1 .. MaxFailuresPerCode)
  BY <1>0, FS_Interval
<1>2. IsFiniteSet(all)
  BY <1>1, FS_Product
<1>3. ASSUME NEW k \in DOMAIN confirmations, NEW n \in 1 .. Failures(k)
      PROVE  k \in 1 .. Len(confirmations) /\ n \in 1 .. MaxFailuresPerCode
  <2>1. confirmations[k] \in Confirmation
    BY <1>0
  <2>2. Failures(k) \in Nat /\ Failures(k) <= MaxFailuresPerCode
    BY <2>1 DEF Confirmation, Failures, IInv, ConfirmationInv
  <2> QED
    BY <1>0, <1>3, <2>2
<1>4. WrongCodes(u, now) \subseteq all
  BY <1>3 DEF WrongCodes
<1> HIDE DEF all
<1>5. IsFiniteSet(WrongCodes(u, now))
  BY <1>2, <1>4, FS_Subset
<1> QED
  BY <1>5, FS_CardinalityType DEF DayFailures

\* Codes leave the day's budget as time passes.
LEMMA DayMovesOn ==
    ASSUME IInv, NEW u \in Users, NEW start \in Nat, NEW now \in Nat, start <= now
    PROVE  DayFailures(u, now) <= DayFailures(u, start)
<1> USE ConstantsAssumption
<1>1. \A k \in DOMAIN confirmations :
         confirmations[k].created_at > now - Day => confirmations[k].created_at > start - Day
  <2> TAKE k \in DOMAIN confirmations
  <2>1. confirmations[k] \in Confirmation
    BY DEF IInv, TypeOK
  <2>2. confirmations[k].created_at \in Nat
    BY <2>1 DEF Confirmation, Instant
  <2> QED
    BY <2>2
<1>2. WrongCodes(u, now) \subseteq WrongCodes(u, start)
  BY <1>1 DEF WrongCodes
<1> QED
  BY <1>2, WrongCodesAreFinite, FS_Subset DEF DayFailures

\* After the step a confirmation has no failures, or those it had.
CountsNothing ==
    \A k \in DOMAIN confirmations' :
       \/ confirmations'[k].failures = 0
       \/ /\ k \in DOMAIN confirmations
          /\ confirmations'[k].user = confirmations[k].user
          /\ confirmations'[k].created_at = confirmations[k].created_at
          /\ confirmations'[k].failures = confirmations[k].failures

\* No wrong code is counted: the account's sum does not grow.
LEMMA FewerFailures ==
    ASSUME IInv, IInv', clock' >= clock,
           CountsNothing,
           NEW u \in Users
    PROVE  DayFailures(u, clock)' \in Nat /\ DayFailures(u, clock)' <= DayFailures(u, clock)
<1> USE ConstantsAssumption
<1>0. clock \in Nat /\ clock' \in Nat /\ confirmations \in Seq(Confirmation)
  BY DEF IInv, TypeOK, Instant
<1>1. WrongCodes(u, clock)' \subseteq WrongCodes(u, clock)
  <2> SUFFICES ASSUME NEW k \in DOMAIN confirmations', confirmations'[k].user = u,
                      confirmations'[k].created_at > clock' - Day,
                      NEW n \in 1 .. confirmations'[k].failures
               PROVE  /\ k \in DOMAIN confirmations /\ confirmations[k].user = u
                      /\ confirmations[k].created_at > clock - Day
                      /\ n \in 1 .. confirmations[k].failures
    BY DEF WrongCodes, Failures
  <2>1. confirmations'[k].failures # 0
    OBVIOUS
  <2>2. /\ k \in DOMAIN confirmations
        /\ confirmations'[k].user = confirmations[k].user
        /\ confirmations'[k].created_at = confirmations[k].created_at
        /\ confirmations'[k].failures = confirmations[k].failures
    BY <2>1 DEF CountsNothing
  <2>3. confirmations[k] \in Confirmation
    BY <1>0, <2>2
  <2>4. confirmations[k].created_at \in Nat
    BY <2>3 DEF Confirmation, Instant
  <2> QED
    BY <1>0, <2>2, <2>4
<1>2. IsFiniteSet(WrongCodes(u, clock))
  BY <1>0, WrongCodesAreFinite
<1> QED
  BY <1>1, <1>2, FS_Subset, FS_CardinalityType DEF DayFailures

\* The steps that count no wrong code, and begin to count none.
LEMMA BudgetKept ==
    ASSUME IInv, IInv', BudgetInv, clock' >= clock,
           CountsNothing,
           \A d \in Calls : calls'[d].step = "wrong" => calls'[d] = calls[d]
    PROVE  BudgetInv'
<1> SUFFICES ASSUME NEW u \in Users
             PROVE  /\ DayFailures(u, clock)' <= MaxFailuresPerDay
                    /\ (\E c \in Calls : calls'[c].step = "wrong" /\ calls'[c].user = u)
                          => DayFailures(u, clock)' < MaxFailuresPerDay
  BY DEF BudgetInv
<1>1. clock \in Nat /\ clock' \in Nat /\ MaxFailuresPerDay \in Nat
  BY ConstantsAssumption DEF IInv, TypeOK, Instant
<1>2. DayFailures(u, clock) \in Nat
  BY <1>1, WrongCodesAreFinite
<1>4. DayFailures(u, clock)' \in Nat /\ DayFailures(u, clock)' <= DayFailures(u, clock)
  BY FewerFailures
<1>5. (\E c \in Calls : calls'[c].step = "wrong" /\ calls'[c].user = u) =>
         \E c \in Calls : calls[c].step = "wrong" /\ calls[c].user = u
  OBVIOUS
<1> QED
  BY <1>1, <1>2, <1>4, <1>5 DEF BudgetInv

\* find_code_candidate sums the failures under the lock.
LEMMA CandidateBudget ==
    ASSUME IInv, IInv', BudgetInv, NEW c \in Calls, FindCodeCandidate(c)
    PROVE  BudgetInv'
<1>0. /\ UNCHANGED <<clock, confirmations>> /\ calls \in [Calls -> Call]
      /\ calls[c] \in Call /\ CallOk(calls[c]) /\ calls[c].step = "candidate"
      /\ clock \in Nat /\ MaxFailuresPerDay \in Nat
  <2>1. /\ calls \in [Calls -> Call] /\ calls[c] \in Call /\ CallOk(calls[c])
        /\ clock \in Nat /\ MaxFailuresPerDay \in Nat
    BY ConstantsAssumption DEF IInv, TypeOK, Instant
  <2>2. UNCHANGED <<clock, confirmations>> /\ calls[c].step = "candidate"
    BY DEF FindCodeCandidate
  <2> QED
    BY <2>1, <2>2
<1>1. calls[c].user \in Users /\ calls[c].start \in Nat /\ calls[c].start <= clock
  BY <1>0 DEF CallOk, Call, Instant
<1>2. \A d \in Calls \ {c} : calls'[d] = calls[d]
  BY <1>0 DEF FindCodeCandidate, Finish
<1>3. calls'[c].step = "wrong" =>
         calls'[c].user = calls[c].user
            /\ DayFailures(calls[c].user, clock) < MaxFailuresPerDay
  <2>1. ASSUME NEW k \in Sent(calls[c].session, calls[c].act), Candidate(c, k)
        PROVE  DayFailures(calls[c].user, clock) < MaxFailuresPerDay
    <3>1. DayFailures(calls[c].user, calls[c].start) < MaxFailuresPerDay
      BY <2>1 DEF Candidate
    <3>2. /\ DayFailures(calls[c].user, clock) \in Nat
          /\ DayFailures(calls[c].user, calls[c].start) \in Nat
      BY <1>0, <1>1, WrongCodesAreFinite
    <3> QED
      BY <1>0, <1>1, <3>1, <3>2, DayMovesOn
  <2>2. ASSUME calls' = [calls EXCEPT ![c] = Idle]
        PROVE  calls'[c].step # "wrong"
    BY <1>0, <2>2 DEF Idle
  <2>3. ASSUME NEW k, calls' = [calls EXCEPT ![c] =
                  IF calls[c].guess = k
                  THEN [@ EXCEPT !.step = "right", !.row = k, !.session = None,
                                 !.guess = 0, !.start = 0]
                  ELSE [Idle EXCEPT !.step = "wrong", !.row = k, !.user = calls[c].user]]
        PROVE  calls'[c].step = "wrong" => calls'[c].user = calls[c].user
    <3>1. calls'[c] = IF calls[c].guess = k
                      THEN [calls[c] EXCEPT !.step = "right", !.row = k, !.session = None,
                                            !.guess = 0, !.start = 0]
                      ELSE [Idle EXCEPT !.step = "wrong", !.row = k, !.user = calls[c].user]
      BY <1>0, <2>3
    <3> QED
      BY <1>0, <3>1 DEF Call, Idle
  <2> QED
    BY <2>1, <2>2, <2>3 DEF FindCodeCandidate, Finish
<1> SUFFICES ASSUME NEW u \in Users
             PROVE  /\ DayFailures(u, clock)' <= MaxFailuresPerDay
                    /\ (\E d \in Calls : calls'[d].step = "wrong" /\ calls'[d].user = u)
                          => DayFailures(u, clock)' < MaxFailuresPerDay
  BY DEF BudgetInv
<1>4. DayFailures(u, clock)' = DayFailures(u, clock)
  BY <1>0 DEF DayFailures, WrongCodes, Failures
<1> QED
  BY <1>2, <1>3, <1>4 DEF BudgetInv

\* record_code_failure counts one more, for which there was room.
LEMMA FailureBudget ==
    ASSUME IInv, IInv', BudgetInv, NEW c \in Calls, RecordCodeFailure(c)
    PROVE  BudgetInv'
<1> USE ConstantsAssumption
<1> DEFINE k == calls[c].row
           one == <<k, Failures(k) + 1>>
<1>0. /\ clock' = clock /\ clock \in Nat /\ MaxFailuresPerDay \in Nat
      /\ calls \in [Calls -> Call] /\ calls' = [calls EXCEPT ![c] = Idle]
      /\ calls[c].step = "wrong" /\ calls[c].user \in Users
  <2>1. clock \in Nat /\ MaxFailuresPerDay \in Nat /\ calls \in [Calls -> Call]
    BY DEF IInv, TypeOK, Instant
  <2>2. calls[c].user \in Users
    BY CheckedRow
  <2> QED
    BY <2>1, <2>2 DEF RecordCodeFailure, Finish
<1>1. /\ DOMAIN confirmations' = DOMAIN confirmations /\ k \in DOMAIN confirmations
      /\ \A l \in DOMAIN confirmations \ {k} : confirmations'[l] = confirmations[l]
      /\ confirmations'[k].user = calls[c].user /\ confirmations[k].user = calls[c].user
      /\ confirmations'[k].created_at = confirmations[k].created_at
      /\ confirmations[k].failures \in Nat
      /\ confirmations'[k].failures = confirmations[k].failures + 1
  BY CheckedRow DEF Failures
<1> HIDE DEF k
<1> SUFFICES ASSUME NEW u \in Users
             PROVE  /\ DayFailures(u, clock)' <= MaxFailuresPerDay
                    /\ (\E d \in Calls : calls'[d].step = "wrong" /\ calls'[d].user = u)
                          => DayFailures(u, clock)' < MaxFailuresPerDay
  BY DEF BudgetInv
<1>2. IsFiniteSet(WrongCodes(u, clock)) /\ DayFailures(u, clock) \in Nat
  BY <1>0, WrongCodesAreFinite
<1>3. CASE u = calls[c].user
  <2>1. ASSUME NEW l \in DOMAIN confirmations', confirmations'[l].user = u,
               confirmations'[l].created_at > clock' - Day,
               NEW n \in 1 .. confirmations'[l].failures
        PROVE  <<l, n>> \in WrongCodes(u, clock) \cup {one}
    <3>1. l \in DOMAIN confirmations /\ confirmations[l].user = u
          /\ confirmations[l].created_at > clock - Day
      BY <1>0, <1>1, <1>3, <2>1
    <3>2. CASE n \in 1 .. confirmations[l].failures
      BY <3>1, <3>2 DEF WrongCodes, Failures
    <3>3. CASE n \notin 1 .. confirmations[l].failures
      <4>1. l = k
        BY <1>1, <3>1, <3>3
      <4>2. n = confirmations[k].failures + 1
        BY <1>1, <3>3, <4>1
      <4> QED
        BY <4>1, <4>2 DEF Failures
    <3> QED
      BY <3>2, <3>3
  <2>2. WrongCodes(u, clock)' \subseteq WrongCodes(u, clock) \cup {one}
    BY <2>1 DEF WrongCodes, Failures
  <2> HIDE DEF one
  <2>3. /\ IsFiniteSet(WrongCodes(u, clock) \cup {one})
        /\ Cardinality(WrongCodes(u, clock) \cup {one}) \in Nat
        /\ Cardinality(WrongCodes(u, clock) \cup {one}) <= DayFailures(u, clock) + 1
    <3>1. /\ IsFiniteSet(WrongCodes(u, clock) \cup {one})
          /\ Cardinality(WrongCodes(u, clock) \cup {one}) =
                IF one \in WrongCodes(u, clock) THEN Cardinality(WrongCodes(u, clock))
                ELSE Cardinality(WrongCodes(u, clock)) + 1
      BY <1>2, FS_AddElement
    <3> QED
      BY <1>2, <3>1 DEF DayFailures
  <2>4. DayFailures(u, clock)' \in Nat /\ DayFailures(u, clock)' <= DayFailures(u, clock) + 1
    <3>1. /\ IsFiniteSet(WrongCodes(u, clock)')
          /\ Cardinality(WrongCodes(u, clock)')
                <= Cardinality(WrongCodes(u, clock) \cup {one})
      BY <2>2, <2>3, FS_Subset
    <3>2. Cardinality(WrongCodes(u, clock)') \in Nat
      BY <3>1, FS_CardinalityType
    <3> QED
      BY <1>2, <2>3, <3>1, <3>2 DEF DayFailures
  <2>5. DayFailures(u, clock) < MaxFailuresPerDay
    BY <1>0, <1>3 DEF BudgetInv
  <2>6. ~\E d \in Calls : calls'[d].step = "wrong" /\ calls'[d].user = u
    <3>1. calls'[c].step # "wrong"
      BY <1>0 DEF Idle
    <3>2. \A d \in Calls \ {c} : calls'[d] = calls[d]
      BY <1>0
    <3> QED
      BY <1>0, <1>3, <3>1, <3>2 DEF IInv, LockInv
  <2> QED
    BY <1>0, <1>2, <2>4, <2>5, <2>6
<1>4. CASE u # calls[c].user
  <2>1. WrongCodes(u, clock)' = WrongCodes(u, clock)
    BY <1>0, <1>1, <1>4 DEF WrongCodes, Failures
  <2>2. DayFailures(u, clock)' = DayFailures(u, clock)
    BY <2>1 DEF DayFailures
  <2>3. (\E d \in Calls : calls'[d].step = "wrong" /\ calls'[d].user = u) =>
           \E d \in Calls : calls[d].step = "wrong" /\ calls[d].user = u
    BY <1>0 DEF Idle
  <2> QED
    BY <2>2, <2>3 DEF BudgetInv
<1> QED
  BY <1>3, <1>4

\* The steps of a call that count no wrong code.
LEMMA CallBudget ==
    ASSUME IInv, IInv', BudgetInv, NEW c \in Calls,
           \/ CreateConfirmation(c) \/ ConsumeById(c) \/ FindByEmail(c) \/ CreateChange(c)
           \/ Delete(c) \/ Cascade(c) \/ ConsumeChange(c) \/ FindUser(c) \/ ChangeEmail(c)
           \/ InsertToken(c) \/ LoginWrites(c) \/ DetectDeadlock(c) \/ Abort(c) \/ Arrive(c)
    PROVE  BudgetInv'
<1>0. /\ clock \in Nat /\ calls \in [Calls -> Call] /\ calls[c] \in Call
      /\ confirmations \in Seq(Confirmation)
  BY DEF IInv, TypeOK, Instant
<1>1. clock' = clock
  BY DEF CreateConfirmation, ConsumeById, FindByEmail, CreateChange, Delete, Cascade,
         ConsumeChange, FindUser, ChangeEmail, InsertToken, DetectDeadlock, Abort, Arrive,
         RequestConfirmation, UseCode, ConfirmChange, FindForUpdate, RequestLink, ConsumeLink,
         ConsumeCode, LoginWrites, CreateLink, MarkEmailVerified, OpenSession
<1>2. \A d \in Calls : calls'[d].step = "wrong" => calls'[d] = calls[d]
  <2>1. CASE \/ CreateConfirmation(c) \/ CreateChange(c) \/ Cascade(c) \/ ChangeEmail(c)
             \/ InsertToken(c) \/ LoginWrites(c) \/ DetectDeadlock(c) \/ Abort(c)
    <3>1. Finish(c)
      BY <2>1, LoginWrite DEF CreateConfirmation, CreateChange, Cascade, ChangeEmail, InsertToken,
                  DetectDeadlock, Abort
    <3> QED
      BY <1>0, <3>1 DEF Finish, Idle
  <2>2. CASE \/ FindByEmail(c) \/ Delete(c) \/ ConsumeChange(c) \/ FindUser(c)
    <3>1. \/ Finish(c)
          \/ \E step \in {"link", "cascade", "move"} : Goto(c, step)
          \/ calls' = [calls EXCEPT ![c].step = "user", ![c].start = 0]
      BY <2>2 DEF FindByEmail, Delete, ConsumeChange, FindUser
    <3> QED
      BY <1>0, <3>1 DEF Finish, Goto, Idle, Call
  <2>3. CASE ConsumeById(c)
    <3>1. calls' = [calls EXCEPT
             ![c].step = IF calls[c].act = "change_email" THEN "lookup" ELSE "delete",
             ![c].row = 0]
      BY <2>3 DEF ConsumeById
    <3> QED
      BY <1>0, <3>1 DEF Call
  <2>4. CASE Arrive(c)
    <3>1. ASSUME NEW s \in Sessions, NEW act \in Acts, RequestConfirmation(c, s, act)
          PROVE  calls'[c].step # "wrong"
      BY <1>0, <3>1 DEF RequestConfirmation, From, Idle
    <3>2. ASSUME NEW s \in Sessions, NEW act \in Acts, NEW guess, NEW to, UseCode(c, s, act, guess, to)
          PROVE  calls'[c].step # "wrong"
      BY <1>0, <3>2 DEF UseCode, From, Idle
    <3>3. ASSUME NEW x \in DOMAIN changes, ConfirmChange(c, x)
          PROVE  calls'[c].step # "wrong"
      BY <1>0, <3>3 DEF ConfirmChange, Idle
    <3>4. ASSUME NEW s \in Sessions, FindForUpdate(c, s)
          PROVE  calls'[c].step # "wrong"
      BY <1>0, <3>4 DEF FindForUpdate, Idle
    <3>l. ASSUME NEW u \in Users, LoginArrives(c, u)
          PROVE  calls'[c].step # "wrong"
      <4>1. PICK step \in {"email", "verify", "open"} :
               calls' = [calls EXCEPT ![c] = [Idle EXCEPT !.step = step, !.user = u]]
        BY <3>l, LoginArrival
      <4>2. calls'[c] = [Idle EXCEPT !.step = step, !.user = u]
        BY <1>0, <4>1
      <4> QED
        BY <4>2 DEF Idle
    <3>5. \A d \in Calls \ {c} : calls'[d] = calls[d]
      BY <2>4, <1>0 DEF Arrive, RequestConfirmation, UseCode, ConfirmChange, FindForUpdate,
                        RequestLink, ConsumeLink, ConsumeCode
    <3>6. calls'[c].step # "wrong"
      BY <2>4, <3>1, <3>2, <3>3, <3>4, <3>l, ConstantsAssumption DEF Arrive, LoginArrives
    <3> QED
      BY <3>5, <3>6
  <2> QED
    BY <2>1, <2>2, <2>3, <2>4
<1>3. CountsNothing
  <2>1. CASE confirmations' = confirmations
    BY <2>1 DEF CountsNothing
  <2>2. CASE CreateConfirmation(c)
    <3>1. PICK row : /\ row.failures = 0
                     /\ confirmations' = confirmations \/ confirmations' = Append(confirmations, row)
      BY <2>2 DEF CreateConfirmation
    <3>2. CASE confirmations' = Append(confirmations, row)
      <4>1. \A k \in DOMAIN confirmations' :
               IF k = Len(confirmations) + 1 THEN confirmations'[k] = row
               ELSE k \in DOMAIN confirmations /\ confirmations'[k] = confirmations[k]
        BY <1>0, <3>2
      <4> QED
        BY <3>1, <4>1 DEF CountsNothing
    <3> QED
      BY <2>1, <3>1, <3>2
  <2>3. CASE ConsumeById(c)
    BY <2>3, CheckedRow DEF CountsNothing
  <2>4. CASE Cascade(c)
    BY <2>4 DEF Cascade, CountsNothing, NoConfirmation
  <2> QED
    BY <2>1, <2>2, <2>3, <2>4
       DEF FindByEmail, CreateChange, Delete, ConsumeChange, FindUser, ChangeEmail, InsertToken,
           DetectDeadlock, Abort, Arrive, RequestConfirmation, UseCode, ConfirmChange,
           FindForUpdate, RequestLink, ConsumeLink, ConsumeCode, LoginWrites, CreateLink,
           MarkEmailVerified, OpenSession
<1> QED
  BY <1>0, <1>1, <1>2, <1>3, BudgetKept

\* Every step keeps the counts within the budget of the day.
LEMMA NextKeepsBudget == IInv /\ IInv' /\ BudgetInv /\ [Next]_vars => BudgetInv'
<1> SUFFICES ASSUME IInv, IInv', BudgetInv, [Next]_vars PROVE BudgetInv'
  OBVIOUS
<1>1. ASSUME NEW c \in Calls, Arrive(c) \/ Handle(c) \/ Abort(c)
      PROVE  BudgetInv'
  <2>1. CASE FindCodeCandidate(c)
    BY <2>1, CandidateBudget
  <2>2. CASE RecordCodeFailure(c)
    BY <2>2, FailureBudget
  <2>3. CASE \/ CreateConfirmation(c) \/ ConsumeById(c) \/ FindByEmail(c) \/ CreateChange(c)
             \/ Delete(c) \/ Cascade(c) \/ ConsumeChange(c) \/ FindUser(c) \/ ChangeEmail(c)
             \/ InsertToken(c) \/ LoginWrites(c) \/ DetectDeadlock(c) \/ Abort(c) \/ Arrive(c)
    BY <2>3, CallBudget
  <2> QED
    BY <1>1, <2>1, <2>2, <2>3 DEF Handle, LoginWrites
<1>2. CASE \/ \E s \in Sessions : EndSession(s)
           \/ \E u \in Users, a \in Addresses : SignUp(u, a)
           \/ \E u \in Users : DisableUser(u)
           \/ Tick
  <2>1. UNCHANGED <<confirmations, calls>> /\ clock' >= clock
    <3>1. clock \in Nat
      BY DEF IInv, TypeOK, Instant
    <3> QED
      BY <1>2, <3>1 DEF EndSession, SignUp, DisableUser, Tick
  <2> QED
    BY <2>1, BudgetKept DEF CountsNothing
<1>3. CASE UNCHANGED vars
  <2>1. clock' >= clock
    <3>1. clock \in Nat
      BY DEF IInv, TypeOK, Instant
    <3> QED
      BY <1>3, <3>1 DEF vars
  <2> QED
    BY <1>3, <2>1, BudgetKept DEF CountsNothing, vars
<1> QED
  BY <1>1, <1>2, <1>3 DEF Next

\* find_code_candidate's lock makes the guesses take turns: all the sessions of an
\* account, at once, never have more wrong codes counted than a code and a day
\* allow.
THEOREM GuessesAreLimited == Spec => []GuessBudget
<1>1. Init => BudgetInv
  <2> SUFFICES ASSUME Init PROVE BudgetInv
    OBVIOUS
  <2>1. confirmations = << >> /\ \A c \in Calls : calls[c].step # "wrong"
    BY DEF Init, Idle
  <2>2. \A u \in Users : WrongCodes(u, clock) = {}
    BY <2>1 DEF WrongCodes
  <2>3. \A u \in Users : DayFailures(u, clock) = 0
    BY <2>2, FS_EmptySet DEF DayFailures
  <2> QED
    BY <2>1, <2>3, ConstantsAssumption DEF BudgetInv
<1>2. IInv /\ IInv' /\ BudgetInv /\ [Next]_vars => BudgetInv'
  BY NextKeepsBudget
<1>3. IInv /\ BudgetInv => GuessBudget
  BY DEF IInv, ConfirmationInv, BudgetInv, GuessBudget
<1> QED
  BY <1>1, <1>2, <1>3, IInvHolds, PTL DEF Spec

-----------------------------------------------------------------------------
(* One act per code: the third layer of the invariant *)

\* What OneActPerCode says of an act on an account; the calls may be infinite, not
\* those past check_code.
ActInv(u, act) ==
    /\ IsFiniteSet(Acting(u, act))
    /\ users[u].email # None =>
          Cardinality(Acting(u, act)) + Cardinality(Links(u, act)) <= Cardinality(Spent(u, act))

ActsInv == \A u \in Users, act \in Acts : ActInv(u, act)

\* The places of a table are finitely many.
LEMMA PlacesAreFinite ==
    ASSUME NEW S, NEW s \in Seq(S)
    PROVE  IsFiniteSet(DOMAIN s)
<1>1. Len(s) \in Int /\ 1 \in Int /\ DOMAIN s = 1 .. Len(s)
  OBVIOUS
<1> QED
  BY <1>1, FS_Interval

\* Codes and links can be counted before and after a step.
LEMMA ActsAreFinite ==
    ASSUME IInv, IInv', NEW u, NEW act
    PROVE  /\ IsFiniteSet(Links(u, act)) /\ IsFiniteSet(Links(u, act)')
           /\ IsFiniteSet(Spent(u, act)) /\ IsFiniteSet(Spent(u, act)')
           /\ Cardinality(Links(u, act)) \in Nat /\ Cardinality(Links(u, act)') \in Nat
           /\ Cardinality(Spent(u, act)) \in Nat /\ Cardinality(Spent(u, act)') \in Nat
<1>1. /\ confirmations \in Seq(Confirmation) /\ confirmations' \in Seq(Confirmation)
      /\ changes \in Seq(Change) /\ changes' \in Seq(Change)
  BY DEF IInv, TypeOK
<1>2. /\ IsFiniteSet(DOMAIN confirmations) /\ IsFiniteSet(DOMAIN confirmations')
      /\ IsFiniteSet(DOMAIN changes) /\ IsFiniteSet(DOMAIN changes')
  BY <1>1, PlacesAreFinite
<1>3. /\ Links(u, act) \subseteq DOMAIN changes
      /\ Links(u, act)' \subseteq DOMAIN changes'
      /\ Spent(u, act) \subseteq DOMAIN confirmations
      /\ Spent(u, act)' \subseteq DOMAIN confirmations'
  BY DEF Links, Spent
<1>4. /\ IsFiniteSet(Links(u, act)) /\ IsFiniteSet(Links(u, act)')
      /\ IsFiniteSet(Spent(u, act)) /\ IsFiniteSet(Spent(u, act)')
  BY <1>2, <1>3, FS_Subset
<1> QED
  BY <1>4, FS_CardinalityType

\* No call passes check_code, no link is sent and no code is unspent.
LEMMA ActKept ==
    ASSUME IInv, IInv', NEW u \in Users, NEW act \in Acts, ActInv(u, act),
           Acting(u, act)' \subseteq Acting(u, act),
           Links(u, act)' \subseteq Links(u, act),
           users'[u].email # None =>
              users[u].email # None /\ Spent(u, act) \subseteq Spent(u, act)'
    PROVE  ActInv(u, act)'
<1>1. /\ IsFiniteSet(Acting(u, act)') /\ IsFiniteSet(Acting(u, act))
      /\ Cardinality(Acting(u, act)') <= Cardinality(Acting(u, act))
  BY FS_Subset DEF ActInv
<1>2. Cardinality(Acting(u, act)') \in Nat /\ Cardinality(Acting(u, act)) \in Nat
  BY <1>1, FS_CardinalityType
<1>3. Cardinality(Links(u, act)') <= Cardinality(Links(u, act))
  BY ActsAreFinite, FS_Subset
<1>4. users'[u].email # None => Cardinality(Spent(u, act)) <= Cardinality(Spent(u, act)')
  BY ActsAreFinite, FS_Subset
<1> QED
  BY <1>1, <1>2, <1>3, <1>4, ActsAreFinite DEF ActInv

\* A code is spent, and its call goes on to the act it was emailed for.
LEMMA ConsumeAct ==
    ASSUME IInv, IInv', ActsInv, NEW c \in Calls, ConsumeById(c)
    PROVE  ActsInv'
<1> USE ConstantsAssumption
<1> DEFINE k == calls[c].row
<1>0. /\ calls \in [Calls -> Call] /\ calls[c] \in Call /\ calls[c].step = "right"
      /\ calls[c].user \in Users /\ calls[c].act \in Acts /\ confirmations[k].act = calls[c].act
      /\ UNCHANGED <<users, changes>>
  <2>1. calls \in [Calls -> Call] /\ CallOk(calls[c]) /\ calls[c].step = "right"
        /\ UNCHANGED <<users, changes>>
    BY DEF IInv, TypeOK, ConsumeById
  <2> QED
    BY <2>1, CheckedRow DEF CallOk
<1>1. /\ DOMAIN confirmations' = DOMAIN confirmations /\ k \in DOMAIN confirmations
      /\ \A l \in DOMAIN confirmations \ {k} : confirmations'[l] = confirmations[l]
      /\ confirmations'[k].user = calls[c].user /\ confirmations[k].user = calls[c].user
      /\ confirmations'[k].act = confirmations[k].act
      /\ confirmations'[k].failures = confirmations[k].failures
      /\ confirmations[k].failures < MaxFailuresPerCode
      /\ ~confirmations[k].consumed /\ confirmations'[k].consumed
  BY CheckedRow DEF Failures
<1>2. /\ \A d \in Calls \ {c} : calls'[d] = calls[d]
      /\ calls'[c].user = calls[c].user /\ calls'[c].act = calls[c].act
  <2>1. calls' = [calls EXCEPT
            ![c].step = IF calls[c].act = "change_email" THEN "lookup" ELSE "delete",
            ![c].row = 0]
    BY DEF ConsumeById
  <2> QED
    BY <1>0, <2>1 DEF Call
<1> HIDE DEF k
<1> SUFFICES ASSUME NEW u \in Users, NEW act \in Acts PROVE ActInv(u, act)'
  BY DEF ActsInv
<1>3. ActInv(u, act)
  BY DEF ActsInv
<1>4. Links(u, act)' = Links(u, act) /\ users'[u] = users[u]
  BY <1>0 DEF Links
<1>5. CASE u = calls[c].user /\ act = calls[c].act
  <2>1. Acting(u, act)' \subseteq Acting(u, act) \cup {c}
    BY <1>2 DEF Acting
  <2>2. c \notin Acting(u, act)
    BY <1>0 DEF Acting
  <2>3. k \notin Spent(u, act)
    BY <1>1 DEF Spent
  <2>4. Spent(u, act) \cup {k} \subseteq Spent(u, act)'
    BY <1>0, <1>1, <1>5 DEF Spent, Failures
  <2>5. IsFiniteSet(Acting(u, act)) /\ IsFiniteSet(Spent(u, act)) /\ IsFiniteSet(Spent(u, act)')
    BY <1>3, ActsAreFinite DEF ActInv
  <2>6. /\ IsFiniteSet(Acting(u, act) \cup {c})
        /\ Cardinality(Acting(u, act) \cup {c}) = Cardinality(Acting(u, act)) + 1
    BY <2>2, <2>5, FS_AddElement
  <2>7. /\ IsFiniteSet(Spent(u, act) \cup {k})
        /\ Cardinality(Spent(u, act) \cup {k}) = Cardinality(Spent(u, act)) + 1
    BY <2>3, <2>5, FS_AddElement
  <2>8. Cardinality(Spent(u, act)) + 1 <= Cardinality(Spent(u, act)')
    <3>1. Cardinality(Spent(u, act) \cup {k}) <= Cardinality(Spent(u, act)')
      BY <2>4, <2>5, FS_Subset
    <3> QED
      BY <2>7, <3>1
  <2>9. /\ IsFiniteSet(Acting(u, act)')
        /\ Cardinality(Acting(u, act)') <= Cardinality(Acting(u, act)) + 1
    <3>1. IsFiniteSet(Acting(u, act)')
          /\ Cardinality(Acting(u, act)') <= Cardinality(Acting(u, act) \cup {c})
      BY <2>1, <2>6, FS_Subset
    <3> QED
      BY <2>6, <3>1
  <2>10. Cardinality(Acting(u, act)') \in Nat /\ Cardinality(Acting(u, act)) \in Nat
    BY <2>5, <2>9, FS_CardinalityType
  <2>11. /\ Cardinality(Links(u, act)) \in Nat
         /\ Cardinality(Spent(u, act)) \in Nat /\ Cardinality(Spent(u, act)') \in Nat
    BY ActsAreFinite
  <2> QED
    BY <1>3, <1>4, <2>8, <2>9, <2>10, <2>11 DEF ActInv
<1>6. CASE ~(u = calls[c].user /\ act = calls[c].act)
  <2>1. Acting(u, act)' \subseteq Acting(u, act)
    BY <1>2, <1>6 DEF Acting
  <2>2. Spent(u, act) \subseteq Spent(u, act)'
    BY <1>0, <1>1 DEF Spent, Failures
  <2> QED
    BY <1>3, <1>4, <2>1, <2>2, ActKept
<1> QED
  BY <1>5, <1>6

\* A call that sends its link is over.
LEMMA LinkAct ==
    ASSUME IInv, IInv', ActsInv, NEW c \in Calls, CreateChange(c)
    PROVE  ActsInv'
<1> USE ConstantsAssumption
<1>0. /\ calls \in [Calls -> Call] /\ calls[c].step = "link" /\ calls[c].user \in Users
      /\ calls[c].act = "change_email" /\ UNCHANGED <<users, confirmations>>
      /\ calls' = [calls EXCEPT ![c] = Idle]
      /\ changes \in Seq(Change)
  <2>1. calls \in [Calls -> Call] /\ CallOk(calls[c]) /\ calls[c] \in Call /\ changes \in Seq(Change)
    BY DEF IInv, TypeOK
  <2>2. calls[c].step = "link" /\ UNCHANGED <<users, confirmations>>
        /\ calls' = [calls EXCEPT ![c] = Idle]
    BY DEF CreateChange, Finish
  <2> QED
    BY <2>1, <2>2 DEF CallOk, Call
<1> DEFINE new == Len(changes) + 1
<1>1. \/ changes' = changes
      \/ /\ DOMAIN changes' = DOMAIN changes \cup {new} /\ new \notin DOMAIN changes
         /\ \A x \in DOMAIN changes : changes'[x] = changes[x]
         /\ changes'[new].user = calls[c].user
  BY <1>0 DEF CreateChange
<1>2. calls'[c].step = "idle" /\ \A d \in Calls \ {c} : calls'[d] = calls[d]
  BY <1>0 DEF Idle
<1> HIDE DEF new
<1> SUFFICES ASSUME NEW u \in Users, NEW act \in Acts PROVE ActInv(u, act)'
  BY DEF ActsInv
<1>3. ActInv(u, act)
  BY DEF ActsInv
<1>4. Acting(u, act)' \subseteq Acting(u, act) \ {c}
  BY <1>2 DEF Acting
<1>5. Spent(u, act)' = Spent(u, act) /\ users'[u] = users[u]
  BY <1>0 DEF Spent, Failures
<1>6. CASE u = calls[c].user /\ act = "change_email"
  <2>1. c \in Acting(u, act)
    BY <1>0, <1>6 DEF Acting
  <2>2. Links(u, act)' \subseteq Links(u, act) \cup {new}
    BY <1>1 DEF Links
  <2>3. IsFiniteSet(Acting(u, act)) /\ IsFiniteSet(Links(u, act))
    BY <1>3, ActsAreFinite DEF ActInv
  <2>4. /\ IsFiniteSet(Links(u, act) \cup {new})
        /\ Cardinality(Links(u, act) \cup {new}) =
              IF new \in Links(u, act) THEN Cardinality(Links(u, act))
              ELSE Cardinality(Links(u, act)) + 1
    BY <2>3, FS_AddElement
  <2>5. Cardinality(Links(u, act)') <= Cardinality(Links(u, act) \cup {new})
    BY <2>2, <2>4, FS_Subset
  <2>6. /\ IsFiniteSet(Acting(u, act) \ {c})
        /\ Cardinality(Acting(u, act) \ {c}) = Cardinality(Acting(u, act)) - 1
    BY <2>1, <2>3, FS_RemoveElement
  <2>7. /\ IsFiniteSet(Acting(u, act)')
        /\ Cardinality(Acting(u, act)') <= Cardinality(Acting(u, act) \ {c})
    BY <1>4, <2>6, FS_Subset
  <2>8. Cardinality(Acting(u, act)') \in Nat /\ Cardinality(Acting(u, act)) \in Nat
    BY <2>3, <2>7, FS_CardinalityType
  <2>9. /\ Cardinality(Links(u, act)) \in Nat /\ Cardinality(Links(u, act)') \in Nat
        /\ Cardinality(Spent(u, act)) \in Nat
    BY ActsAreFinite
  <2> QED
    BY <1>3, <1>5, <2>4, <2>5, <2>6, <2>7, <2>8, <2>9 DEF ActInv
<1>7. CASE ~(u = calls[c].user /\ act = "change_email")
  <2>1. Links(u, act)' \subseteq Links(u, act)
    BY <1>1, <1>7 DEF Links
  <2> QED
    BY <1>3, <1>4, <1>5, <2>1, ActKept
<1> QED
  BY <1>6, <1>7

\* The other steps of a call: the call that passes from one statement of its act
\* to the next keeps its account and its act.
LEMMA CallAct ==
    ASSUME IInv, IInv', ActsInv, NEW c \in Calls,
           \/ CreateConfirmation(c) \/ FindCodeCandidate(c) \/ RecordCodeFailure(c)
           \/ FindByEmail(c) \/ Delete(c) \/ Cascade(c) \/ ConsumeChange(c) \/ FindUser(c)
           \/ ChangeEmail(c) \/ InsertToken(c) \/ LoginWrites(c) \/ DetectDeadlock(c)
           \/ Abort(c) \/ Arrive(c)
    PROVE  ActsInv'
<1> USE ConstantsAssumption
<1>0. /\ calls \in [Calls -> Call] /\ calls[c] \in Call /\ confirmations \in Seq(Confirmation)
      /\ users \in [Users -> User]
  BY DEF IInv, TypeOK
<1> DEFINE acting == {"lookup", "link", "delete", "cascade"}
<1>1. /\ \A d \in Calls \ {c} : calls'[d] = calls[d]
      /\ calls'[c].step \in acting =>
            /\ calls[c].step \in acting
            /\ calls'[c].user = calls[c].user /\ calls'[c].act = calls[c].act
  <2>1. ASSUME calls' = [calls EXCEPT ![c] = Idle]
        PROVE  (\A d \in Calls \ {c} : calls'[d] = calls[d]) /\ calls'[c].step \notin acting
    BY <1>0, <2>1 DEF Idle
  <2>2. CASE \/ CreateConfirmation(c) \/ RecordCodeFailure(c) \/ Cascade(c) \/ ChangeEmail(c)
             \/ InsertToken(c) \/ LoginWrites(c) \/ DetectDeadlock(c) \/ Abort(c)
    BY <2>1, <2>2, LoginWrite DEF CreateConfirmation, RecordCodeFailure, Cascade, ChangeEmail, InsertToken,
                  DetectDeadlock, Abort, Finish
  <2>3. CASE FindByEmail(c) \/ Delete(c)
    <3>1. \/ calls' = [calls EXCEPT ![c] = Idle]
          \/ calls[c].step \in acting /\ \E step \in acting : calls' = [calls EXCEPT ![c].step = step]
      BY <2>3 DEF FindByEmail, Delete, Finish, Goto
    <3> QED
      BY <1>0, <2>1, <3>1 DEF Call
  <2>4. CASE ConsumeChange(c) \/ FindUser(c)
    <3>1. \/ calls' = [calls EXCEPT ![c] = Idle]
          \/ calls' = [calls EXCEPT ![c].step = "move"]
          \/ calls' = [calls EXCEPT ![c].step = "user", ![c].start = 0]
      BY <2>4 DEF ConsumeChange, FindUser, Finish, Goto
    <3> QED
      BY <1>0, <2>1, <3>1 DEF Call
  <2>5. CASE FindCodeCandidate(c)
    <3>1. ASSUME NEW k, calls' = [calls EXCEPT ![c] =
                  IF calls[c].guess = k
                  THEN [@ EXCEPT !.step = "right", !.row = k, !.session = None,
                                 !.guess = 0, !.start = 0]
                  ELSE [Idle EXCEPT !.step = "wrong", !.row = k, !.user = calls[c].user]]
          PROVE  (\A d \in Calls \ {c} : calls'[d] = calls[d]) /\ calls'[c].step \notin acting
      <4>1. calls'[c] = IF calls[c].guess = k
                        THEN [calls[c] EXCEPT !.step = "right", !.row = k, !.session = None,
                                              !.guess = 0, !.start = 0]
                        ELSE [Idle EXCEPT !.step = "wrong", !.row = k, !.user = calls[c].user]
        BY <1>0, <3>1
      <4>2. calls'[c].step \in {"right", "wrong"}
        BY <1>0, <4>1 DEF Call, Idle
      <4> QED
        BY <1>0, <3>1, <4>2
    <3> QED
      BY <2>1, <2>5, <3>1 DEF FindCodeCandidate, Finish
  <2>6. CASE Arrive(c)
    <3>1. ASSUME NEW s \in Sessions, NEW act \in Acts, RequestConfirmation(c, s, act)
          PROVE  calls'[c].step = "send"
      BY <1>0, <3>1 DEF RequestConfirmation, From, Idle
    <3>2. ASSUME NEW s \in Sessions, NEW act \in Acts, NEW guess, NEW to, UseCode(c, s, act, guess, to)
          PROVE  calls'[c].step = "candidate"
      BY <1>0, <3>2 DEF UseCode, From, Idle
    <3>3. ASSUME NEW x \in DOMAIN changes, ConfirmChange(c, x)
          PROVE  calls'[c].step = "consume"
      BY <1>0, <3>3 DEF ConfirmChange, Idle
    <3>4. ASSUME NEW s \in Sessions, FindForUpdate(c, s)
          PROVE  calls'[c].step = "rotate"
      BY <1>0, <3>4 DEF FindForUpdate, Idle
    <3>l. ASSUME NEW u \in Users, LoginArrives(c, u)
          PROVE  calls'[c].step \in {"email", "verify", "open"}
      <4>1. PICK step \in {"email", "verify", "open"} :
               calls' = [calls EXCEPT ![c] = [Idle EXCEPT !.step = step, !.user = u]]
        BY <3>l, LoginArrival
      <4>2. calls'[c] = [Idle EXCEPT !.step = step, !.user = u]
        BY <1>0, <4>1
      <4> QED
        BY <4>2 DEF Idle
    <3>5. \A d \in Calls \ {c} : calls'[d] = calls[d]
      BY <2>6, <1>0 DEF Arrive, RequestConfirmation, UseCode, ConfirmChange, FindForUpdate,
                        RequestLink, ConsumeLink, ConsumeCode
    <3>6. calls'[c].step \in {"send", "candidate", "consume", "rotate", "email", "verify", "open"}
      BY <2>6, <3>1, <3>2, <3>3, <3>4, <3>l DEF Arrive, LoginArrives
    <3> QED
      BY <3>5, <3>6
  <2> QED
    BY <2>2, <2>3, <2>4, <2>5, <2>6
<1> HIDE DEF acting
<1> SUFFICES ASSUME NEW u \in Users, NEW act \in Acts PROVE ActInv(u, act)'
  BY DEF ActsInv
<1>2. ActInv(u, act)
  BY DEF ActsInv
<1>3. Acting(u, act)' \subseteq Acting(u, act)
  <2> SUFFICES ASSUME NEW d \in Calls, d \in Acting(u, act)'
               PROVE  d \in Acting(u, act)
    BY DEF Acting
  <2>1. calls'[d].user = u /\ calls'[d].act = act /\ calls'[d].step \in acting
    BY DEF Acting, acting
  <2>2. calls[d].user = u /\ calls[d].act = act /\ calls[d].step \in acting
    BY <1>1, <2>1
  <2> QED
    BY <2>2 DEF Acting, acting
<1>4. Links(u, act)' \subseteq Links(u, act)
  <2>1. CASE changes' = changes
    BY <2>1 DEF Links
  <2>2. CASE Cascade(c)
    <3>1. changes' = [x \in DOMAIN changes |->
                        IF changes[x].user = calls[c].user THEN NoChange ELSE changes[x]]
      BY <2>2 DEF Cascade
    <3> QED
      BY <3>1 DEF Links, NoChange
  <2>3. CASE ChangeEmail(c)
    <3>1. DOMAIN changes' = DOMAIN changes /\ \A x \in DOMAIN changes : changes'[x].user = changes[x].user
      BY <2>3, MovedAccount
    <3> QED
      BY <3>1 DEF Links
  <2> QED
    BY <2>1, <2>2, <2>3
       DEF CreateConfirmation, FindCodeCandidate, RecordCodeFailure, FindByEmail, Delete,
           ConsumeChange, FindUser, InsertToken, DetectDeadlock, Abort, Arrive,
           RequestConfirmation, UseCode, ConfirmChange, FindForUpdate, RequestLink, ConsumeLink,
           ConsumeCode, LoginWrites, CreateLink, MarkEmailVerified, OpenSession
<1>5. ASSUME users'[u].email # None
      PROVE  users[u].email # None /\ Spent(u, act) \subseteq Spent(u, act)'
  <2>1. CASE Cascade(c)
    <3>1. u # calls[c].user
      BY <1>0, <1>5, <2>1 DEF Cascade, NoUser
    <3>2. users'[u] = users[u]
      BY <1>0, <2>1, <3>1 DEF Cascade
    <3>3. confirmations' = [k \in DOMAIN confirmations |->
                              IF confirmations[k].user = calls[c].user THEN NoConfirmation
                              ELSE confirmations[k]]
      BY <2>1 DEF Cascade
    <3> QED
      BY <1>5, <3>1, <3>2, <3>3 DEF Spent, Failures
  <2>2. CASE CreateConfirmation(c)
    <3>1. users' = users
      BY <2>2 DEF CreateConfirmation
    <3>2. \A k \in DOMAIN confirmations : k \in DOMAIN confirmations' /\ confirmations'[k] = confirmations[k]
      BY <1>0, <2>2 DEF CreateConfirmation
    <3> QED
      BY <1>5, <3>1, <3>2 DEF Spent, Failures
  <2>3. CASE RecordCodeFailure(c)
    <3>1. users' = users
      BY <2>3 DEF RecordCodeFailure
    <3>2. /\ DOMAIN confirmations' = DOMAIN confirmations /\ ~confirmations[calls[c].row].consumed
          /\ \A l \in DOMAIN confirmations \ {calls[c].row} : confirmations'[l] = confirmations[l]
      BY <2>3, CheckedRow
    <3> QED
      BY <1>5, <3>1, <3>2 DEF Spent, Failures
  <2>4. CASE ChangeEmail(c)
    <3>1. confirmations' = confirmations
      BY <2>4 DEF ChangeEmail
    <3>2. users[u].email # None
      BY <1>5, <2>4, MovedAccount
    <3> QED
      BY <3>1, <3>2 DEF Spent, Failures
  <2>5. CASE UNCHANGED <<users, confirmations>>
    BY <1>5, <2>5 DEF Spent, Failures
  <2> QED
    BY <2>1, <2>2, <2>3, <2>4, <2>5
       DEF FindCodeCandidate, FindByEmail, Delete, ConsumeChange, FindUser, InsertToken,
           DetectDeadlock, Abort, Arrive, RequestConfirmation, UseCode, ConfirmChange,
           FindForUpdate, RequestLink, ConsumeLink, ConsumeCode, LoginWrites, CreateLink,
           MarkEmailVerified, OpenSession
<1> QED
  BY <1>2, <1>3, <1>4, <1>5, ActKept

\* The steps outside the calls; a new account has had no code, call or link.
LEMMA OtherAct ==
    ASSUME IInv, IInv', ActsInv,
           \/ \E s \in Sessions : EndSession(s)
           \/ \E u \in Users, a \in Addresses : SignUp(u, a)
           \/ \E u \in Users : DisableUser(u)
           \/ Tick
           \/ UNCHANGED vars
    PROVE  ActsInv'
<1> USE ConstantsAssumption
<1>0. UNCHANGED <<confirmations, changes, logins, calls>>
  BY DEF EndSession, SignUp, DisableUser, Tick, vars
<1> SUFFICES ASSUME NEW u \in Users, NEW act \in Acts PROVE ActInv(u, act)'
  BY DEF ActsInv
<1>1. ActInv(u, act)
  BY DEF ActsInv
<1>2. /\ Acting(u, act)' = Acting(u, act) /\ Links(u, act)' = Links(u, act)
      /\ Spent(u, act)' = Spent(u, act)
  BY <1>0 DEF Acting, Links, Spent, Failures
<1>3. CASE users'[u].email # None => users[u].email # None
  BY <1>1, <1>2, <1>3, ActKept
<1>4. CASE users'[u].email # None /\ users[u].email = None
  <2>1. ~users[u].known
    <3>1. users \in [Users -> User]
      BY DEF IInv, TypeOK
    <3>2. ASSUME NEW v \in Users, DisableUser(v)
          PROVE  users'[u].email = users[u].email
      BY <3>1, <3>2 DEF DisableUser, User
    <3>3. ASSUME NEW v \in Users, NEW a \in Addresses, SignUp(v, a)
          PROVE  users'[u] = users[u] \/ ~users[u].known
      BY <3>1, <3>3 DEF SignUp
    <3> QED
      BY <1>4, <3>2, <3>3 DEF EndSession, Tick, vars
  <2>2. Acting(u, act) = {}
    BY <2>1 DEF Acting, IInv, CallOk
  <2>3. Links(u, act) = {}
    BY <1>4 DEF Links, IInv, DeletionIsComplete
  <2>4. Cardinality({}) = 0 /\ IsFiniteSet({})
    BY FS_EmptySet
  <2> QED
    BY <1>2, <2>2, <2>3, <2>4, ActsAreFinite DEF ActInv
<1> QED
  BY <1>3, <1>4

\* A stolen access token does not change the address or delete the account: every
\* link sent, and every call that acts, has spent a code emailed for that act, of
\* the same account, and no code serves twice, with any number of calls at once.
THEOREM NoCodeServesTwice == Spec => []OneActPerCode
<1>1. Init => ActsInv
  <2> SUFFICES ASSUME Init PROVE ActsInv
    OBVIOUS
  <2>1. confirmations = << >> /\ changes = << >> /\ \A c \in Calls : calls[c].step = "idle"
    BY DEF Init, Idle
  <2>2. \A u \in Users, act \in Acts :
           Acting(u, act) = {} /\ Links(u, act) = {} /\ Spent(u, act) = {}
    BY <2>1 DEF Acting, Links, Spent
  <2>3. Cardinality({}) = 0 /\ IsFiniteSet({})
    BY FS_EmptySet
  <2> QED
    BY <2>2, <2>3 DEF ActsInv, ActInv
<1>2. IInv /\ IInv' /\ ActsInv /\ [Next]_vars => ActsInv'
  <2> SUFFICES ASSUME IInv, IInv', ActsInv, [Next]_vars PROVE ActsInv'
    OBVIOUS
  <2>1. ASSUME NEW c \in Calls, Arrive(c) \/ Handle(c) \/ Abort(c)
        PROVE  ActsInv'
    <3>1. CASE ConsumeById(c)
      BY <3>1, ConsumeAct
    <3>2. CASE CreateChange(c)
      BY <3>2, LinkAct
    <3>3. CASE \/ CreateConfirmation(c) \/ FindCodeCandidate(c) \/ RecordCodeFailure(c)
               \/ FindByEmail(c) \/ Delete(c) \/ Cascade(c) \/ ConsumeChange(c) \/ FindUser(c)
               \/ ChangeEmail(c) \/ InsertToken(c) \/ LoginWrites(c) \/ DetectDeadlock(c)
               \/ Abort(c) \/ Arrive(c)
      BY <3>3, CallAct
    <3> QED
      BY <2>1, <3>1, <3>2, <3>3 DEF Handle, LoginWrites
  <2>2. CASE \/ \E s \in Sessions : EndSession(s)
             \/ \E u \in Users, a \in Addresses : SignUp(u, a)
             \/ \E u \in Users : DisableUser(u)
             \/ Tick
             \/ UNCHANGED vars
    BY <2>2, OtherAct
  <2> QED
    BY <2>1, <2>2 DEF Next
<1>3. ActsInv => OneActPerCode
  BY DEF ActsInv, ActInv, OneActPerCode
<1> QED
  BY <1>1, <1>2, <1>3, IInvHolds, PTL DEF Spec

-----------------------------------------------------------------------------
(* Circles of waits *)

\* What a call that waits for a row stands at, and what its holder does there.
LEMMA WaitingCalls ==
    ASSUME IInv, NEW c \in Calls, NEW d \in WaitsFor(c)
    PROVE  /\ d \in Calls /\ d # c
           /\ calls[c].step \in {"send", "link", "rotate", "email", "open"} =>
                 calls[d].step = "cascade" /\ calls[d].user = calls[c].user
           /\ calls[c].step \in {"candidate", "delete", "verify"} =>
                 calls[d].step \in {"wrong", "right", "cascade"} /\ calls[d].user = calls[c].user
           /\ calls[c].step = "consume" => calls[d].step \in {"user", "move"}
           /\ calls[c].step = "move" =>
                 /\ calls[d].step \in {"wrong", "right", "cascade"}
                 /\ calls[d].user = changes[calls[c].row].user
           /\ calls[c].step = "cascade" =>
                 \/ calls[d].step \in {"user", "move"} /\ changes[calls[d].row].user = calls[c].user
                 \/ calls[d].step \in {"rotate", "verify", "open"} /\ calls[d].user = calls[c].user
           /\ calls[c].step \notin {"wrong", "right", "user", "lookup", "idle"}
<1>1. d \in Calls /\ d # c /\ Blocks(d, c)
  BY DEF WaitsFor
<1>2. ASSUME NEW s \in Sessions, sessions[s].user = calls[c].user, HoldsToken(d, s),
             calls[c].step = "cascade"
      PROVE  calls[d].step = "rotate" /\ calls[d].user = calls[c].user
  <2>1. CallOk(calls[d]) /\ CallOk(calls[c])
    BY <1>1 DEF IInv
  <2> QED
    BY <1>2, <2>1 DEF CallOk, HoldsToken
<1>3. calls[c].step = "cascade" =>
         \/ calls[d].step \in {"user", "move"} /\ changes[calls[d].row].user = calls[c].user
         \/ calls[d].step \in {"rotate", "verify", "open"} /\ calls[d].user = calls[c].user
  BY <1>1, <1>2 DEF Blocks, Deletes, HoldsAccount, HoldsChange, HoldsLogin
<1> QED
  BY <1>1, <1>3 DEF Blocks, Deletes, HoldsAccount, HoldsChange

\* For whatever number of calls, on whatever accounts: a call that checks a code, or
\* reads its user, waits for nobody, so a circle of waits leads to a deletion; a
\* deletion waits for a call that holds a row of its account, and if that call
\* waits at all, it is for the account, which one deletion at a time has.
THEOREM NoOtherCircles == Spec => []OnlyDeletionsDeadlock
<1>1. IInv => OnlyDeletionsDeadlock
  <2> SUFFICES ASSUME IInv, NEW S \in SUBSET Calls, Deadlocked(S)
               PROVE  \E c, d \in S :
                         /\ calls[d].step = "cascade" /\ calls[c].step # "cascade"
                         /\ d \in WaitsFor(c) /\ c \in WaitsFor(d)
    BY DEF OnlyDeletionsDeadlock
  <2>1. /\ S # {}
        /\ \A c \in S : c \in Calls /\ \E d \in S : d \in WaitsFor(c)
    BY DEF Deadlocked
  <2>2. \A c \in S : calls[c].step \notin {"wrong", "right", "user"}
    BY <2>1, WaitingCalls
  <2>3. \E d \in S : calls[d].step = "cascade"
    <3>1. PICK c \in S : TRUE
      BY <2>1
    <3>2. PICK d \in S : d \in WaitsFor(c)
      BY <2>1, <3>1
    <3>3. PICK e \in S : e \in WaitsFor(d)
      BY <2>1
    <3>4. CASE calls[c].step = "consume"
      <4>1. calls[d].step = "move"
        BY <2>1, <2>2, <3>2, <3>4, WaitingCalls
      <4>2. calls[e].step = "cascade"
        BY <2>1, <2>2, <3>3, <4>1, WaitingCalls
      <4> QED
        BY <4>2
    <3>5. CASE calls[c].step = "cascade"
      BY <3>5
    <3>6. CASE calls[c].step \notin {"consume", "cascade"}
      <4>1. calls[c].step \in Steps
        BY <2>1 DEF IInv, TypeOK, Call
      <4>2. calls[d].step = "cascade"
        BY <2>1, <2>2, <3>2, <3>6, <4>1, WaitingCalls DEF Steps
      <4> QED
        BY <4>2
    <3> QED
      BY <3>4, <3>5, <3>6
  <2>4. PICK d \in S : calls[d].step = "cascade"
    BY <2>3
  <2>5. PICK c \in S : c \in WaitsFor(d)
    BY <2>1
  <2>6. PICK e \in S : e \in WaitsFor(c)
    BY <2>1
  <2>7. \/ calls[c].step = "move" /\ changes[calls[c].row].user = calls[d].user
        \/ calls[c].step \in {"rotate", "verify", "open"} /\ calls[c].user = calls[d].user
    BY <2>1, <2>2, <2>4, <2>5, WaitingCalls
  <2>8. calls[e].step = "cascade" /\ calls[e].user = calls[d].user
    BY <2>1, <2>2, <2>6, <2>7, WaitingCalls
  <2>9. e = d
    BY <2>1, <2>4, <2>8 DEF IInv, LockInv
  <2> QED
    BY <2>4, <2>5, <2>6, <2>7, <2>9
<1> QED
  BY <1>1, IInvHolds, PTL

=============================================================================
