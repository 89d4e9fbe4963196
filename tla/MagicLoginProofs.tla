-------------------------- MODULE MagicLoginProofs --------------------------
(***************************************************************************)
(* The inductive invariant of MagicLogin and the theorems it gives, for    *)
(* any number of calls, flows, users and addresses, and any budgets.       *)
(***************************************************************************)
EXTENDS MagicLogin, FiniteSetTheorems, WellFoundedInduction, TLAPS

-----------------------------------------------------------------------------
(* The inductive invariant *)

\* A flow that does not exist yet is blank; one that issued a code is some
\* account's; the emails counted are limited.
FlowInv(f) ==
    /\ ~flows[f].created => flows[f] = NoFlow
    /\ flows[f].codes > 0 => flows[f].user # None
    /\ flows[f].requests <= MaxEmailsPerFlow

\* A link belongs to a flow that outlives it; its failures are limited.
LinkInv(l) ==
    /\ flows[links[l].flow].created
    /\ links[l].expires_at <= flows[links[l].flow].expires_at
    /\ Failures(l) <= MaxFailuresPerCode

\* An identifier without an account is blank.
UserInv(u) == users[u].email = None => users[u] = NoUser

\* What a call has made sure of by the time it stands at a step.  It stays true
\* whatever the other calls do.
CallOk(call) ==
    /\ call.step \in {"count", "recipient", "send"} =>
          /\ call.kind = "email" /\ call.flow \in Flows /\ call.email \in Addresses
          /\ flows[call.flow].created
    /\ call.step \in {"recipient", "send"} => call.expires_at <= flows[call.flow].expires_at
    /\ call.step = "consume" => call.kind = "link"
    /\ call.step = "candidate" =>
          /\ call.kind = "code" /\ call.flow \in Flows /\ call.email \in Addresses
          /\ LinksOf(call.flow) # {}
          /\ call.start <= clock
    /\ call.step \in {"wrong", "right"} => call.kind = "code"
    /\ call.step \in {"user", "taken", "complete"} => call.kind \in {"link", "code"}
    /\ call.step \in {"consume", "wrong", "right", "user", "taken", "complete"} =>
          /\ call.link \in DOMAIN links
          /\ links[call.link].flow = call.flow
          /\ links[call.link].email = call.email
    /\ call.step = "taken" => links[call.link].user = None
    /\ call.step = "complete" => call.user \in Users

\* A link that logs nobody in any more, whenever it is used.
Dead(l) ==
    \/ flows[links[l].flow].user # None
    \/ links[l].user # None /\ users[links[l].user].disabled

\* Why a call that came too late will not complete its flow: the statements it has
\* left still refuse it.
SpentOk(call) ==
    call.spent =>
       /\ call.step \notin {"count", "recipient", "send"}
       /\ call.step = "consume" =>
             links[call.link].expires_at <= call.start \/ Dead(call.link)
       /\ call.step = "candidate" =>
             /\ call.guess \in DOMAIN links
             /\ \/ links[call.guess].expires_at <= call.start
                \/ Dead(call.guess)
                \/ links[call.guess].flow # call.flow
                \/ \E l \in LinksOf(call.flow) : l > call.guess
                \/ Failures(call.guess) >= MaxFailuresPerCode
       /\ call.step \in {"right", "user", "taken"} => Dead(call.link)
       /\ call.step = "complete" => flows[call.flow].user # None

\* The calls that hold the lock of their address.
Checking == {c \in Calls : /\ calls[c].kind = "code"
                           /\ calls[c].step \in {"wrong", "right", "user", "taken", "complete"}}

\* One call at a time holds the lock of an address, and so its link has room for
\* the failure it is about to count.
LockInv ==
    /\ \A c, d \in Checking : calls[c].email = calls[d].email => c = d
    /\ \A c \in Calls : calls[c].step = "wrong" => Failures(calls[c].link) < MaxFailuresPerCode

\* An account being created is nobody's yet, and one call's.
CreatesInv ==
    /\ \A c \in Calls : calls[c].creates =>
          calls[c].step = "complete" /\ users[calls[c].user] = NoUser
    /\ \A c, d \in Calls :
          calls[c].creates /\ calls[d].creates /\ calls[c].user = calls[d].user => c = d

\* The inductive invariant behind the theorems below.
IInv ==
    /\ TypeOK
    /\ \A f \in Flows : FlowInv(f)
    /\ \A l \in DOMAIN links : LinkInv(l)
    /\ \A u \in Users : UserInv(u)
    /\ \A c \in Calls : CallOk(calls[c]) /\ SpentOk(calls[c])
    /\ LockInv
    /\ CreatesInv

-----------------------------------------------------------------------------
(* Lemmas about the operators *)

\* A bounded set of numbers has a largest one.
LEMMA LargestExists ==
    ASSUME NEW T, T \subseteq Nat, T # {}, NEW b \in Nat, \A x \in T : x <= b
    PROVE  \E x \in T : \A y \in T : y <= x
<1> DEFINE below == {b - x : x \in T}
<1>1. \A x \in T : b - x \in Nat
  OBVIOUS
<1>2. below \subseteq Nat /\ below # {}
  BY <1>1
<1>3. PICK m \in below : \A y \in below : ~(<<y, m>> \in OpToRel(<, Nat))
  BY <1>2, WFMin, NatLessThanWellFounded
<1>4. ASSUME NEW y \in below
      PROVE  m <= y
  <2>1. y \in Nat /\ m \in Nat
    BY <1>2
  <2>2. y < m => <<y, m>> \in OpToRel(<, Nat)
    BY <2>1 DEF OpToRel
  <2>3. ~(y < m)
    BY <1>3, <2>2, Zenon
  <2> QED
    BY <2>1, <2>3
<1>5. PICK x \in T : m = b - x
  OBVIOUS
<1>6. ASSUME NEW y \in T
      PROVE  y <= x
  <2>1. y \in Nat /\ x \in Nat
    OBVIOUS
  <2>2. b - y \in below
    OBVIOUS
  <2> HIDE DEF below
  <2>3. b - x <= b - y
    BY <1>4, <1>5, <2>2
  <2> QED
    BY <2>1, <2>3
<1> QED
  BY <1>6

\* The later of two instants.
LEMMA LaterOfTwo ==
    ASSUME NEW a \in Nat, NEW b \in Nat
    PROVE  Max({a, b}) \in Nat /\ Max({a, b}) >= a /\ Max({a, b}) >= b
<1>1. \E x \in {a, b} : \A y \in {a, b} : x >= y
  OBVIOUS
<1> QED
  BY <1>1 DEF Max

\* A row is added at the end.
LEMMA AppendedRow ==
    ASSUME NEW S, NEW s \in Seq(S), NEW e \in S
    PROVE  /\ Append(s, e) \in Seq(S)
           /\ DOMAIN Append(s, e) = DOMAIN s \cup {Len(s) + 1}
           /\ Len(s) + 1 \notin DOMAIN s
           /\ \A k \in DOMAIN s : Append(s, e)[k] = s[k]
           /\ Append(s, e)[Len(s) + 1] = e
OBVIOUS

\* A row is written over.
LEMMA UpdatedRow ==
    ASSUME NEW S, NEW s \in Seq(S), NEW k \in DOMAIN s, NEW e \in S
    PROVE  /\ [s EXCEPT ![k] = e] \in Seq(S)
           /\ DOMAIN [s EXCEPT ![k] = e] = DOMAIN s
           /\ \A l \in DOMAIN s \ {k} : [s EXCEPT ![k] = e][l] = s[l]
           /\ [s EXCEPT ![k] = e][k] = e
OBVIOUS

\* Where a flow has links, one of them is the newest.
LEMMA NewestExists ==
    ASSUME IInv, NEW f, LinksOf(f) # {}
    PROVE  Newest(f) \in LinksOf(f) /\ \A l \in LinksOf(f) : l <= Newest(f)
<1>1. links \in Seq(Link)
  BY DEF IInv, TypeOK
<1>2. LinksOf(f) \subseteq Nat /\ \A l \in LinksOf(f) : l <= Len(links)
  BY <1>1 DEF LinksOf
<1>3. Len(links) \in Nat
  BY <1>1
<1>4. \E x \in LinksOf(f) : \A y \in LinksOf(f) : y <= x
  BY <1>2, <1>3, LargestExists
<1>5. \E x \in LinksOf(f) : \A y \in LinksOf(f) : x >= y
  BY <1>2, <1>4
<1>6. Newest(f) \in LinksOf(f) /\ \A y \in LinksOf(f) : Newest(f) >= y
  BY <1>5 DEF Newest, Max
<1> QED
  BY <1>2, <1>6

-----------------------------------------------------------------------------
(* What the tables never take back *)

\* A link keeps its flow, its address and its expiry, and its failures; a flow
\* lives on and stays completed; an account stays disabled.
Forward ==
    /\ clock' >= clock
    /\ \A f \in Flows :
          /\ flows[f].created => flows'[f].created
          /\ flows'[f].expires_at >= flows[f].expires_at
          /\ flows[f].user # None =>
                flows'[f].user = flows[f].user /\ flows'[f].codes = flows[f].codes
    /\ DOMAIN links \subseteq DOMAIN links'
    /\ \A l \in DOMAIN links :
          /\ links'[l].flow = links[l].flow /\ links'[l].user = links[l].user
          /\ links'[l].email = links[l].email /\ links'[l].expires_at = links[l].expires_at
          /\ links'[l].code_failures >= links[l].code_failures
    /\ \A u \in Users : users[u].disabled => users'[u].disabled

\* The rows as their types give them.
LEMMA RowTypes ==
    ASSUME IInv
    PROVE  /\ clock \in Nat /\ clock \in Instant
           /\ flows \in [Flows -> Flow] /\ users \in [Users -> User]
           /\ calls \in [Calls -> Call] /\ links \in Seq(Link)
           /\ \A f \in Flows : /\ flows[f] \in Flow /\ flows[f].requests \in Nat
                               /\ flows[f].expires_at \in Nat /\ flows[f].codes \in Nat
                               /\ flows[f].user \in Users \cup {None}
           /\ \A l \in DOMAIN links :
                 /\ l \in Nat \ {0} /\ links[l] \in Link /\ links[l].flow \in Flows
                 /\ links[l].user \in Users \cup {None} /\ links[l].email \in Addresses
                 /\ links[l].created_at \in Nat /\ links[l].expires_at \in Nat
                 /\ links[l].code_failures \in Nat
<1>1. /\ clock \in Instant /\ flows \in [Flows -> Flow] /\ users \in [Users -> User]
      /\ calls \in [Calls -> Call] /\ links \in Seq(Link)
  BY DEF IInv, TypeOK
<1>2. clock \in Nat
  BY <1>1 DEF Instant
<1>3. \A f \in Flows : /\ flows[f] \in Flow /\ flows[f].requests \in Nat
                       /\ flows[f].expires_at \in Nat /\ flows[f].codes \in Nat
                       /\ flows[f].user \in Users \cup {None}
  BY <1>1 DEF Flow
<1>4. \A l \in DOMAIN links : l \in Nat \ {0} /\ links[l] \in Link
  BY <1>1
<1>5. \A l \in DOMAIN links :
         /\ links[l].flow \in Flows
         /\ links[l].user \in Users \cup {None} /\ links[l].email \in Addresses
         /\ links[l].created_at \in Nat /\ links[l].expires_at \in Nat
         /\ links[l].code_failures \in Nat
  BY <1>4 DEF Link, Instant
<1> QED
  BY <1>1, <1>2, <1>3, <1>4, <1>5

\* A call that stands still can count on what it has made sure of.
LEMMA OldCalls ==
    ASSUME IInv, TypeOK', Forward
    PROVE  \A d \in Calls : calls'[d] = calls[d] => CallOk(calls[d])' /\ SpentOk(calls[d])'
<1> SUFFICES ASSUME NEW d \in Calls, calls'[d] = calls[d]
             PROVE  CallOk(calls[d])' /\ SpentOk(calls[d])'
  OBVIOUS
<1>0. /\ calls[d] \in Call /\ calls[d].start \in Nat /\ calls[d].expires_at \in Nat
      /\ calls[d].guess \in Nat /\ clock \in Nat
      /\ CallOk(calls[d]) /\ SpentOk(calls[d])
  <2>1. calls[d] \in Call /\ clock \in Nat
    BY RowTypes
  <2>2. CallOk(calls[d]) /\ SpentOk(calls[d])
    BY DEF IInv
  <2> QED
    BY <2>1, <2>2 DEF Call, Instant
<1>5. /\ clock' \in Nat
      /\ \A f \in Flows : flows'[f].expires_at \in Nat
      /\ \A l \in DOMAIN links' : links'[l].code_failures \in Nat
  <2>1. clock' \in Instant /\ flows' \in [Flows -> Flow] /\ links' \in Seq(Link)
    BY DEF TypeOK
  <2>2. \A l \in DOMAIN links' : links'[l] \in Link
    BY <2>1
  <2> QED
    BY SMTT(30), <2>1, <2>2 DEF Instant, Flow, Link
<1>1. \A l \in DOMAIN links : Dead(l) => Dead(l)'
  <2> SUFFICES ASSUME NEW l \in DOMAIN links, Dead(l) PROVE Dead(l)'
    OBVIOUS
  <2>1. links[l].flow \in Flows /\ links[l].user \in Users \cup {None}
    BY RowTypes
  <2>2. links'[l].flow = links[l].flow /\ links'[l].user = links[l].user
    BY DEF Forward
  <2>3. flows[links[l].flow].user # None => flows'[links[l].flow].user # None
    BY <2>1 DEF Forward
  <2>4. links[l].user # None /\ users[links[l].user].disabled => users'[links[l].user].disabled
    BY <2>1 DEF Forward
  <2> QED
    BY <2>2, <2>3, <2>4 DEF Dead
<1>2. \A f \in Flows : LinksOf(f) \subseteq LinksOf(f)'
  BY DEF LinksOf, Forward
<1>3. CallOk(calls[d])'
  <2>1. calls[d].flow \in Flows /\ flows[calls[d].flow].created => flows'[calls[d].flow].created
    BY DEF Forward
  <2>2. calls[d].flow \in Flows /\ calls[d].expires_at <= flows[calls[d].flow].expires_at
           => calls[d].expires_at <= flows'[calls[d].flow].expires_at
    <3> SUFFICES ASSUME calls[d].flow \in Flows,
                        calls[d].expires_at <= flows[calls[d].flow].expires_at
                 PROVE  calls[d].expires_at <= flows'[calls[d].flow].expires_at
      OBVIOUS
    <3>1. flows'[calls[d].flow].expires_at >= flows[calls[d].flow].expires_at
      BY DEF Forward
    <3>2. flows[calls[d].flow].expires_at \in Nat
      BY RowTypes
    <3> QED
      BY <1>0, <1>5, <3>1, <3>2
  <2>3. calls[d].flow \in Flows /\ LinksOf(calls[d].flow) # {} => LinksOf(calls[d].flow)' # {}
    <3> SUFFICES ASSUME calls[d].flow \in Flows, LinksOf(calls[d].flow) # {}
                 PROVE  LinksOf(calls[d].flow)' # {}
      OBVIOUS
    <3>1. PICK l \in DOMAIN links : links[l].flow = calls[d].flow
      BY DEF LinksOf
    <3>2. l \in DOMAIN links' /\ links'[l].flow = calls[d].flow
      BY <3>1 DEF Forward
    <3> QED
      BY <3>2 DEF LinksOf
  <2>4. calls[d].start <= clock => calls[d].start <= clock'
    BY <1>0, <1>5 DEF Forward
  <2>5. calls[d].link \in DOMAIN links =>
           /\ calls[d].link \in DOMAIN links'
           /\ links'[calls[d].link].flow = links[calls[d].link].flow
           /\ links'[calls[d].link].email = links[calls[d].link].email
           /\ links'[calls[d].link].user = links[calls[d].link].user
    BY DEF Forward
  <2> QED
    BY <1>0, <2>1, <2>2, <2>3, <2>4, <2>5 DEF CallOk
<1>4. SpentOk(calls[d])'
  <2> SUFFICES ASSUME calls[d].spent PROVE SpentOk(calls[d])'
    BY DEF SpentOk
  <2>1. calls[d].step \notin {"count", "recipient", "send"}
    BY <1>0 DEF SpentOk
  <2>2. calls[d].step = "consume" =>
           links'[calls[d].link].expires_at <= calls[d].start \/ Dead(calls[d].link)'
    <3> SUFFICES ASSUME calls[d].step = "consume"
                 PROVE  links'[calls[d].link].expires_at <= calls[d].start \/ Dead(calls[d].link)'
      OBVIOUS
    <3>1. PICK l \in DOMAIN links : l = calls[d].link
      BY <1>0 DEF CallOk
    <3>2. links[l].expires_at <= calls[d].start \/ Dead(l)
      BY <1>0, <3>1 DEF SpentOk
    <3>3. links'[l].expires_at = links[l].expires_at
      BY DEF Forward
    <3>4. Dead(l) => Dead(l)'
      BY <1>1
    <3> QED
      BY <3>1, <3>2, <3>3, <3>4 DEF Dead
  <2>3. calls[d].step = "candidate" =>
           /\ calls[d].guess \in DOMAIN links'
           /\ \/ links'[calls[d].guess].expires_at <= calls[d].start
              \/ Dead(calls[d].guess)'
              \/ links'[calls[d].guess].flow # calls[d].flow
              \/ \E l \in LinksOf(calls[d].flow)' : l > calls[d].guess
              \/ links'[calls[d].guess].code_failures >= MaxFailuresPerCode
    <3> SUFFICES ASSUME calls[d].step = "candidate"
                 PROVE  /\ calls[d].guess \in DOMAIN links'
                        /\ \/ links'[calls[d].guess].expires_at <= calls[d].start
                           \/ Dead(calls[d].guess)'
                           \/ links'[calls[d].guess].flow # calls[d].flow
                           \/ \E l \in LinksOf(calls[d].flow)' : l > calls[d].guess
                           \/ links'[calls[d].guess].code_failures >= MaxFailuresPerCode
      OBVIOUS
    <3>1. PICK g \in DOMAIN links : g = calls[d].guess
      BY <1>0 DEF SpentOk
    <3>2. \/ links[g].expires_at <= calls[d].start
          \/ Dead(g)
          \/ links[g].flow # calls[d].flow
          \/ \E l \in LinksOf(calls[d].flow) : l > g
          \/ links[g].code_failures >= MaxFailuresPerCode
      BY <1>0, <3>1 DEF SpentOk, Failures
    <3>3. /\ g \in DOMAIN links' /\ links'[g].expires_at = links[g].expires_at
          /\ links'[g].flow = links[g].flow
          /\ links'[g].code_failures >= links[g].code_failures
      BY DEF Forward
    <3>4. Dead(g) => Dead(g)'
      BY <1>1
    <3>5. \A l \in LinksOf(calls[d].flow) : l \in LinksOf(calls[d].flow)'
      BY DEF LinksOf, Forward
    <3>6. links[g].code_failures >= MaxFailuresPerCode => links'[g].code_failures >= MaxFailuresPerCode
      <4>1. links[g].code_failures \in Nat /\ MaxFailuresPerCode \in Nat
        BY RowTypes, ConstantsAssumption
      <4>2. links'[g].code_failures \in Int
        BY <1>5, <3>3
      <4> QED
        BY <3>3, <4>1, <4>2
    <3> QED
      BY <3>1, <3>2, <3>3, <3>4, <3>5, <3>6 DEF Dead
  <2>4. calls[d].step \in {"right", "user", "taken"} => Dead(calls[d].link)'
    <3> SUFFICES ASSUME calls[d].step \in {"right", "user", "taken"}
                 PROVE  Dead(calls[d].link)'
      OBVIOUS
    <3>1. PICK l \in DOMAIN links : l = calls[d].link
      BY <1>0 DEF CallOk
    <3>2. Dead(l)
      BY <1>0, <3>1 DEF SpentOk
    <3>3. Dead(l)'
      BY <1>1, <3>2
    <3> QED
      BY <3>1, <3>3 DEF Dead
  <2>5. calls[d].step = "complete" => flows'[calls[d].flow].user # None
    <3> SUFFICES ASSUME calls[d].step = "complete"
                 PROVE  flows'[calls[d].flow].user # None
      OBVIOUS
    <3>1. calls[d].link \in DOMAIN links /\ links[calls[d].link].flow = calls[d].flow
      BY <1>0 DEF CallOk
    <3>2. calls[d].flow \in Flows
      BY <3>1, RowTypes
    <3>3. flows[calls[d].flow].user # None
      BY <1>0 DEF SpentOk
    <3> QED
      BY <3>2, <3>3 DEF Forward
  <2> QED
    BY <2>1, <2>2, <2>3, <2>4, <2>5 DEF SpentOk, Failures
<1> QED
  BY <1>3, <1>4

-----------------------------------------------------------------------------
(* The invariant is inductive *)

\* No flow, no link, no call; the accounts that were imported.
LEMMA InitEstablishesIInv == Init => IInv
<1> SUFFICES ASSUME Init PROVE IInv
  OBVIOUS
<1> USE ConstantsAssumption
<1>1. /\ clock = 0 /\ flows = [f \in Flows |-> NoFlow] /\ links = << >>
      /\ calls = [c \in Calls |-> Idle] /\ users \in [Users -> User]
      /\ \A u \in Users : ~users[u].verified /\ ~users[u].disabled
  BY DEF Init
<1>2. Idle \in Call /\ Idle.step = "idle" /\ ~Idle.spent /\ ~Idle.creates
  BY DEF Idle, Call, Steps, Instant
<1>3. NoFlow \in Flow /\ NoFlow.requests = 0 /\ NoFlow.codes = 0 /\ 0 \in Instant
  BY DEF NoFlow, Flow, Instant
<1>4. TypeOK
  BY <1>1, <1>2, <1>3 DEF TypeOK
<1>5. \A f \in Flows : FlowInv(f)
  BY <1>1, <1>3 DEF FlowInv
<1>6. \A u \in Users : UserInv(u)
  <2> SUFFICES ASSUME NEW u \in Users, users[u].email = None
               PROVE  users[u] = NoUser
    BY DEF UserInv
  <2>1. users[u] \in User /\ users[u].verified = FALSE /\ users[u].disabled = FALSE
    BY <1>1 DEF User
  <2> QED
    BY <2>1 DEF User, NoUser
<1>7. \A c \in Calls : CallOk(calls[c]) /\ SpentOk(calls[c])
  BY <1>1, <1>2 DEF CallOk, SpentOk
<1>8. LockInv /\ CreatesInv
  BY <1>1, <1>2 DEF LockInv, CreatesInv, Checking
<1>9. DOMAIN links = {}
  BY <1>1
<1> QED
  BY <1>4, <1>5, <1>6, <1>7, <1>8, <1>9 DEF IInv

\* A step that leaves the tables alone moves them forward.
LEMMA QuietIsForward ==
    ASSUME IInv, UNCHANGED <<clock, flows, links, users>>
    PROVE  /\ Forward
           /\ \A f \in Flows : FlowInv(f)'
           /\ \A l \in DOMAIN links' : LinkInv(l)'
           /\ \A u \in Users : UserInv(u)'
<1>1. Forward
  BY RowTypes DEF Forward
<1>2. \A l \in DOMAIN links' : LinkInv(l)'
  BY DEF IInv, LinkInv, Failures
<1>3. (\A f \in Flows : FlowInv(f)') /\ (\A u \in Users : UserInv(u)')
  BY DEF IInv, FlowInv, UserInv
<1> QED
  BY <1>1, <1>2, <1>3

\* A step of one call.
LEMMA CallStep ==
    ASSUME IInv, NEW c \in Calls, NEW call \in Call,
           calls' = [calls EXCEPT ![c] = call],
           clock' \in Instant, flows' \in [Flows -> Flow], links' \in Seq(Link),
           users' \in [Users -> User],
           \A f \in Flows : FlowInv(f)',
           \A l \in DOMAIN links' : LinkInv(l)',
           \A u \in Users : UserInv(u)',
           Forward,
           CallOk(call)', SpentOk(call)',
           call.kind = "code" /\ call.step \in {"wrong", "right", "user", "taken", "complete"} =>
              ~AddressLocked(c, call.email) \/ (c \in Checking /\ calls[c].email = call.email),
           call.step = "wrong" => links'[call.link].code_failures < MaxFailuresPerCode,
           \A d \in Calls \ {c} : calls[d].step = "wrong" =>
              links'[calls[d].link].code_failures = links[calls[d].link].code_failures,
           call.creates =>
              /\ call.step = "complete" /\ users'[call.user] = NoUser
              /\ \A d \in Calls \ {c} : ~(calls[d].creates /\ calls[d].user = call.user),
           \A d \in Calls \ {c} : calls[d].creates => users'[calls[d].user] = NoUser
    PROVE  IInv'
<1>1. calls \in [Calls -> Call]
  BY RowTypes
<1>2. calls' \in [Calls -> Call] /\ calls'[c] = call /\ \A d \in Calls \ {c} : calls'[d] = calls[d]
  BY <1>1
<1>3. TypeOK'
  BY <1>2 DEF TypeOK
<1>4. \A d \in Calls : CallOk(calls[d])' /\ SpentOk(calls[d])'
  <2>1. \A d \in Calls : calls'[d] = calls[d] => CallOk(calls[d])' /\ SpentOk(calls[d])'
    BY <1>3, OldCalls
  <2>2. CallOk(calls[c])' /\ SpentOk(calls[c])'
    BY <1>2 DEF CallOk, SpentOk, LinksOf, Dead, Failures
  <2> QED
    BY <1>2, <2>1, <2>2
<1>5. LockInv'
  <2>1. \A d, e \in Checking' : calls'[d].email = calls'[e].email => d = e
    <3>1. \A d \in Calls \ {c} : d \in Checking' <=> d \in Checking
      BY <1>2 DEF Checking
    <3>2. \A d, e \in Checking : calls[d].email = calls[e].email => d = e
      BY DEF IInv, LockInv
    <3>3. c \in Checking' =>
             ~AddressLocked(c, call.email) \/ (c \in Checking /\ calls[c].email = call.email)
      BY <1>2 DEF Checking
    <3>4. ASSUME NEW d \in Checking', c \in Checking', d # c, calls'[d].email = calls'[c].email
          PROVE  FALSE
      <4>1. d \in Checking /\ d \in Calls /\ calls[d].email = call.email
        BY <1>2, <3>1, <3>4 DEF Checking
      <4>2. AddressLocked(c, call.email)
        BY <3>4, <4>1 DEF AddressLocked, Checking
      <4>3. c \in Checking /\ calls[c].email = call.email
        BY <3>3, <3>4, <4>2
      <4> QED
        BY <3>2, <3>4, <4>1, <4>3
    <3>5. Checking' \subseteq Calls
      BY DEF Checking
    <3> QED
      BY <1>2, <3>1, <3>2, <3>4, <3>5
  <2>2. \A d \in Calls : calls'[d].step = "wrong"
            => links'[calls'[d].link].code_failures < MaxFailuresPerCode
    BY <1>2 DEF IInv, LockInv, Failures
  <2> QED
    BY <2>1, <2>2 DEF LockInv, Failures
<1>6. CreatesInv'
  <2>1. \A d \in Calls \ {c} : calls[d].creates => calls[d].step = "complete"
    BY DEF IInv, CreatesInv
  <2>2. \A d, e \in Calls \ {c} :
           calls[d].creates /\ calls[e].creates /\ calls[d].user = calls[e].user => d = e
    BY DEF IInv, CreatesInv
  <2> QED
    BY <1>2, <2>1, <2>2 DEF CreatesInv
<1> QED
  BY <1>3, <1>4, <1>5, <1>6 DEF IInv

\* A step of one call that writes nothing.
LEMMA QuietStep ==
    ASSUME IInv, NEW c \in Calls, NEW call \in Call,
           calls' = [calls EXCEPT ![c] = call],
           UNCHANGED <<clock, flows, links, users>>,
           CallOk(call), SpentOk(call),
           call.kind = "code" /\ call.step \in {"wrong", "right", "user", "taken", "complete"} =>
              ~AddressLocked(c, call.email) \/ (c \in Checking /\ calls[c].email = call.email),
           call.step = "wrong" => Failures(call.link) < MaxFailuresPerCode,
           call.creates =>
              /\ call.step = "complete" /\ users[call.user] = NoUser
              /\ \A d \in Calls \ {c} : ~(calls[d].creates /\ calls[d].user = call.user)
    PROVE  IInv'
<1>1. /\ clock' \in Instant /\ flows' \in [Flows -> Flow] /\ links' \in Seq(Link)
      /\ users' \in [Users -> User]
  BY RowTypes
<1>2. CallOk(call)' /\ SpentOk(call)'
  BY DEF CallOk, SpentOk, LinksOf, Dead, Failures
<1>3. /\ Forward
      /\ \A f \in Flows : FlowInv(f)'
      /\ \A l \in DOMAIN links' : LinkInv(l)'
      /\ \A u \in Users : UserInv(u)'
  BY QuietIsForward
<1>4. \A d \in Calls \ {c} : calls[d].creates => users'[calls[d].user] = NoUser
  BY DEF IInv, CreatesInv
<1>5. call.step = "wrong" => links'[call.link].code_failures < MaxFailuresPerCode
  BY DEF Failures
<1>6. call.creates =>
         /\ call.step = "complete" /\ users'[call.user] = NoUser
         /\ \A d \in Calls \ {c} : ~(calls[d].creates /\ calls[d].user = call.user)
  OBVIOUS
<1>7. \A d \in Calls \ {c} : calls[d].step = "wrong" =>
         links'[calls[d].link].code_failures = links[calls[d].link].code_failures
  OBVIOUS
<1> QED
  BY <1>1, <1>2, <1>3, <1>4, <1>5, <1>6, <1>7, CallStep

\* A call that is over.
LEMMA IdleOk == Idle \in Call /\ Idle.step = "idle" /\ ~Idle.spent /\ ~Idle.creates
                  /\ Idle.kind = None
BY ConstantsAssumption DEF Idle, Call, Steps, Instant

\* The call ends, having written nothing.
LEMMA FinishStep ==
    ASSUME IInv, NEW c \in Calls, Finish(c), UNCHANGED <<clock, flows, links, users>>
    PROVE  IInv'
<1>1. CallOk(Idle) /\ SpentOk(Idle)
  BY IdleOk DEF CallOk, SpentOk
<1> QED
  BY <1>1, IdleOk, QuietStep DEF Finish

\* A request arrives.
LEMMA ArriveStep ==
    ASSUME IInv, NEW c \in Calls, Arrive(c)
    PROVE  IInv'
<1> USE ConstantsAssumption
<1>0. UNCHANGED <<clock, flows, links, users>>
  BY DEF Arrive, AskForEmail, ConfirmLink, SubmitCode
<1>1. ASSUME NEW f \in Flows, NEW a \in Addresses, AskForEmail(c, f, a)
      PROVE  IInv'
  <2> DEFINE call == [Idle EXCEPT !.step = "count", !.kind = "email", !.flow = f,
                                  !.email = a, !.expires_at = clock + LinkTTL]
  <2>0. clock + LinkTTL \in Nat
    BY RowTypes
  <2>1. /\ call \in Call /\ call.step = "count" /\ call.kind = "email" /\ call.flow = f
        /\ call.email = a /\ ~call.spent /\ ~call.creates
    BY <2>0, IdleOk DEF Call, Steps
  <2>2. calls' = [calls EXCEPT ![c] = call] /\ flows[f].created
    BY <1>1 DEF AskForEmail, Pending
  <2> HIDE DEF call
  <2>3. CallOk(call) /\ SpentOk(call)
    BY <2>1, <2>2 DEF CallOk, SpentOk
  <2> QED
    BY <1>0, <2>1, <2>2, <2>3, QuietStep
<1>2. ASSUME NEW l \in DOMAIN links, ConfirmLink(c, l)
      PROVE  IInv'
  <2> DEFINE call == [Idle EXCEPT !.step = "consume", !.kind = "link",
                                  !.flow = links[l].flow, !.email = links[l].email,
                                  !.link = l, !.start = clock, !.spent = Spent(l)]
  <2>0. Spent(l) \in BOOLEAN
    BY RowTypes DEF Spent, User
  <2>1. /\ call \in Call /\ call.step = "consume" /\ call.kind = "link"
        /\ call.flow = links[l].flow /\ call.email = links[l].email /\ call.link = l
        /\ call.start = clock /\ (call.spent <=> Spent(l)) /\ ~call.creates
    BY ZenonT(60), <2>0, RowTypes, IdleOk DEF Call, Steps
  <2>2. calls' = [calls EXCEPT ![c] = call]
    BY <1>2 DEF ConfirmLink
  <2> HIDE DEF call
  <2>3. CallOk(call) /\ SpentOk(call)
    BY <2>1 DEF CallOk, SpentOk, Spent, Dead
  <2> QED
    BY <1>0, <2>1, <2>2, <2>3, QuietStep
<1>3. ASSUME NEW f \in Flows, NEW guess \in {0} \cup DOMAIN links, SubmitCode(c, f, guess)
      PROVE  IInv'
  <2> DEFINE late == guess # 0 /\ \/ Spent(guess)
                                  \/ links[guess].flow # f
                                  \/ guess # Newest(f)
                                  \/ Failures(guess) >= MaxFailuresPerCode
             call == [Idle EXCEPT !.step = "candidate", !.kind = "code", !.flow = f,
                                  !.email = links[Newest(f)].email, !.guess = guess,
                                  !.start = clock, !.spent = late]
  <2>1. LinksOf(f) # {} /\ calls' = [calls EXCEPT ![c] = call]
    BY <1>3 DEF SubmitCode
  <2>2. late \in BOOLEAN
    OBVIOUS
  <2>3. late => /\ guess \in DOMAIN links
                /\ \/ links[guess].expires_at <= clock
                   \/ Dead(guess)
                   \/ links[guess].flow # f
                   \/ \E l \in LinksOf(f) : l > guess
                   \/ Failures(guess) >= MaxFailuresPerCode
    <3> SUFFICES ASSUME guess \in DOMAIN links, links[guess].flow = f, guess # Newest(f)
                 PROVE  \E l \in LinksOf(f) : l > guess
      BY DEF Spent, Dead
    <3>1. guess \in LinksOf(f)
      BY DEF LinksOf
    <3>2. Newest(f) \in LinksOf(f) /\ guess <= Newest(f)
      BY <2>1, <3>1, NewestExists
    <3>3. Newest(f) \in Nat /\ guess \in Nat
      BY <3>2, RowTypes DEF LinksOf
    <3> QED
      BY <3>2, <3>3
  <2> HIDE DEF late
  <2>4. links[Newest(f)].email \in Addresses
    BY <2>1, NewestExists, RowTypes DEF LinksOf
  <2>5. guess \in Nat /\ clock \in Instant
    BY RowTypes
  <2>6. /\ call \in Call /\ call.step = "candidate" /\ call.kind = "code" /\ call.flow = f
        /\ call.email \in Addresses /\ call.guess = guess /\ call.start = clock
        /\ (call.spent <=> late) /\ ~call.creates
    BY ZenonT(60), <2>2, <2>4, <2>5, IdleOk DEF Call, Steps
  <2> HIDE DEF call
  <2>7. CallOk(call) /\ SpentOk(call)
    <3>1. clock <= clock
      BY RowTypes
    <3> QED
      BY <2>1, <2>3, <2>6, <3>1 DEF CallOk, SpentOk
  <2> QED
    BY <1>0, <2>1, <2>6, <2>7, QuietStep
<1> QED
  BY <1>1, <1>2, <1>3 DEF Arrive

\* A call that only moves on to its next statement.
LEMMA GotoStep ==
    ASSUME IInv, NEW c \in Calls, NEW step \in Steps, Goto(c, step),
           UNCHANGED <<clock, flows, links, users>>,
           ~calls[c].creates, step # "wrong",
           \A call \in Call :
              /\ call.step = step /\ call.kind = calls[c].kind /\ call.flow = calls[c].flow
              /\ call.email = calls[c].email /\ call.link = calls[c].link
              /\ call.user = calls[c].user /\ call.expires_at = calls[c].expires_at
              /\ (call.spent <=> calls[c].spent)
              => CallOk(call) /\ SpentOk(call),
           calls[c].kind = "code" /\ step \in {"wrong", "right", "user", "taken", "complete"} =>
              ~AddressLocked(c, calls[c].email) \/ c \in Checking
    PROVE  IInv'
<1> DEFINE call == [calls[c] EXCEPT !.step = step]
<1>0. calls \in [Calls -> Call]
  BY RowTypes
<1>1. calls' = [calls EXCEPT ![c] = call]
  BY <1>0 DEF Goto
<1>2. /\ call \in Call /\ call.step = step /\ call.kind = calls[c].kind
      /\ call.flow = calls[c].flow /\ call.email = calls[c].email /\ call.link = calls[c].link
      /\ call.user = calls[c].user /\ call.expires_at = calls[c].expires_at
      /\ (call.spent <=> calls[c].spent) /\ ~call.creates
  BY <1>0 DEF Call
<1> HIDE DEF call
<1>3. CallOk(call) /\ SpentOk(call)
  BY <1>2
<1> QED
  BY <1>1, <1>2, <1>3, QuietStep

\* The first statements of a call: whom the email is for, the link and the code.
LEMMA ReadStep ==
    ASSUME IInv, NEW c \in Calls, FindRecipient(c) \/ Consume(c) \/ ConsumeById(c)
    PROVE  IInv'
<1> USE ConstantsAssumption
<1>0. /\ UNCHANGED <<clock, flows, links, users>> /\ calls \in [Calls -> Call]
      /\ calls[c] \in Call /\ CallOk(calls[c]) /\ SpentOk(calls[c])
      /\ (calls[c].creates => calls[c].step = "complete")
  <2>1. /\ calls \in [Calls -> Call] /\ CallOk(calls[c]) /\ SpentOk(calls[c])
        /\ (calls[c].creates => calls[c].step = "complete")
    BY DEF IInv, TypeOK, CreatesInv
  <2>2. UNCHANGED <<clock, flows, links, users>>
    BY DEF FindRecipient, Consume, ConsumeById
  <2> QED
    BY <2>1, <2>2
<1>1. CASE Finish(c)
  BY <1>0, <1>1, FinishStep
<1>2. CASE FindRecipient(c)
  <2>1. calls[c].step = "recipient"
    BY <1>2 DEF FindRecipient
  <2>2. ASSUME NEW u \in Users \cup {None},
               calls' = [calls EXCEPT ![c].step = "send", ![c].user = u]
        PROVE  IInv'
    <3> DEFINE call == [calls[c] EXCEPT !.step = "send", !.user = u]
    <3>1. calls' = [calls EXCEPT ![c] = call]
      BY <1>0, <2>2
    <3>2. /\ call \in Call /\ call.step = "send" /\ call.kind = calls[c].kind
          /\ call.flow = calls[c].flow /\ call.email = calls[c].email
          /\ call.expires_at = calls[c].expires_at
          /\ (call.spent <=> calls[c].spent) /\ (call.creates <=> calls[c].creates)
      BY <1>0 DEF Call, Steps
    <3> HIDE DEF call
    <3>3. CallOk(call) /\ SpentOk(call)
      BY <1>0, <2>1, <3>2 DEF CallOk, SpentOk
    <3> QED
      BY <1>0, <2>1, <3>1, <3>2, <3>3, QuietStep
  <2>3. CASE Goto(c, "send")
    <3>1. calls' = [calls EXCEPT ![c].step = "send", ![c].user = calls[c].user]
      <4>1. [calls[c] EXCEPT !.step = "send"] = [calls[c] EXCEPT !.step = "send", !.user = calls[c].user]
        BY <1>0 DEF Call
      <4> QED
        BY <1>0, <2>3, <4>1 DEF Goto
    <3>2. calls[c].user \in Users \cup {None}
      BY <1>0 DEF Call
    <3> QED
      BY <2>2, <3>1, <3>2
  <2> QED
    BY <1>1, <1>2, <2>2, <2>3 DEF FindRecipient, AccountOf
<1>3. CASE Consume(c)
  <2>1. calls[c].step = "consume" /\ (Finish(c) \/ Goto(c, "user"))
    BY <1>3 DEF Consume
  <2>2. CASE Goto(c, "user")
    <3>1. calls[c].kind = "link" /\ "user" \in Steps
      BY <1>0, <2>1 DEF CallOk, Steps
    <3>2. calls[c].spent => Dead(calls[c].link)
      <4>1. calls'[c] # Idle
        BY <1>0, <2>2 DEF Goto, Idle
      <4>2. ~Finish(c)
        BY <1>0, <4>1 DEF Finish
      <4>3. links[calls[c].link].expires_at > calls[c].start
        BY <1>3, <4>2 DEF Consume
      <4>4. calls[c].link \in DOMAIN links
        BY <1>0, <2>1 DEF CallOk
      <4>5. links[calls[c].link].expires_at \in Nat /\ calls[c].start \in Nat
        BY <1>0, <4>4, RowTypes DEF Call, Instant
      <4> QED
        BY <1>0, <2>1, <4>3, <4>5 DEF SpentOk
    <3>3. \A call \in Call :
              /\ call.step = "user" /\ call.kind = calls[c].kind /\ call.flow = calls[c].flow
              /\ call.email = calls[c].email /\ call.link = calls[c].link
              /\ (call.spent <=> calls[c].spent)
              => CallOk(call) /\ SpentOk(call)
      BY <1>0, <2>1, <3>1, <3>2 DEF CallOk, SpentOk
    <3> QED
      BY <1>0, <2>1, <2>2, <3>1, <3>3, GotoStep
  <2> QED
    BY <1>1, <2>1, <2>2
<1>4. CASE ConsumeById(c)
  <2>1. calls[c].step = "right" /\ Goto(c, "user") /\ "user" \in Steps
    BY <1>4 DEF ConsumeById, Steps
  <2>2. c \in Checking
    BY <1>0, <2>1 DEF Checking, CallOk
  <2>3. \A call \in Call :
            /\ call.step = "user" /\ call.kind = calls[c].kind /\ call.flow = calls[c].flow
            /\ call.email = calls[c].email /\ call.link = calls[c].link
            /\ (call.spent <=> calls[c].spent)
            => CallOk(call) /\ SpentOk(call)
    BY <1>0, <2>1 DEF CallOk, SpentOk
  <2> QED
    BY <1>0, <2>1, <2>2, <2>3, GotoStep
<1> QED
  BY <1>2, <1>3, <1>4

\* find_code_candidate: the newest link, under the lock of its address.
LEMMA CandidateStep ==
    ASSUME IInv, NEW c \in Calls, FindCodeCandidate(c)
    PROVE  IInv'
<1> DEFINE l == Newest(calls[c].flow)
<1>0. /\ UNCHANGED <<clock, flows, links, users>> /\ calls[c].step = "candidate"
      /\ ~AddressLocked(c, calls[c].email)
  BY DEF FindCodeCandidate
<1>1. /\ calls \in [Calls -> Call] /\ calls[c] \in Call /\ CallOk(calls[c]) /\ SpentOk(calls[c])
      /\ calls[c].start \in Nat
  <2>1. calls \in [Calls -> Call] /\ calls[c] \in Call
    BY RowTypes
  <2>2. CallOk(calls[c]) /\ SpentOk(calls[c])
    BY DEF IInv
  <2> QED
    BY <2>1, <2>2 DEF Call, Instant
<1>c. ~calls[c].creates
  BY <1>0 DEF IInv, CreatesInv
<1>2. LinksOf(calls[c].flow) # {}
  BY <1>0, <1>1 DEF CallOk
<1>3. l \in LinksOf(calls[c].flow) /\ \A k \in LinksOf(calls[c].flow) : k <= l
  BY <1>2, NewestExists
<1>4. l \in DOMAIN links /\ links[l].flow = calls[c].flow
  BY <1>3 DEF LinksOf
<1>5. CASE Candidate(c, l)
  <2>1. /\ links[l].email = calls[c].email /\ links[l].expires_at > calls[c].start
        /\ Failures(l) < MaxFailuresPerCode
    BY <1>5 DEF Candidate
  <2> DEFINE step == IF calls[c].guess = l THEN "right" ELSE "wrong"
             call == [calls[c] EXCEPT !.step = step, !.link = l]
  <2>2. calls' = [calls EXCEPT ![c].step = step, ![c].link = l]
    BY <1>5 DEF FindCodeCandidate
  <2>3. calls' = [calls EXCEPT ![c] = call]
    BY <1>1, <2>2
  <2>4. l \in Nat /\ step \in {"right", "wrong"} /\ step \in Steps
    BY <1>4, RowTypes DEF Steps
  <2>5. (step = "right" <=> calls[c].guess = l)
    OBVIOUS
  <2>6. calls[c].spent /\ calls[c].guess = l => Dead(l)
    <3> SUFFICES ASSUME calls[c].spent, calls[c].guess = l PROVE Dead(l)
      OBVIOUS
    <3>1. \/ links[l].expires_at <= calls[c].start
          \/ Dead(l)
          \/ links[l].flow # calls[c].flow
          \/ \E k \in LinksOf(calls[c].flow) : k > l
          \/ Failures(l) >= MaxFailuresPerCode
      BY <1>0, <1>1 DEF SpentOk
    <3>2. links[l].expires_at \in Nat /\ Failures(l) \in Nat /\ MaxFailuresPerCode \in Nat
      BY <1>4, RowTypes, ConstantsAssumption DEF Failures
    <3>3. \A k \in LinksOf(calls[c].flow) : k \in Nat
      BY RowTypes DEF LinksOf
    <3> QED
      BY <1>1, <1>3, <1>4, <2>1, <2>4, <3>1, <3>2, <3>3
  <2> HIDE DEF step
  <2>7. /\ call \in Call /\ call.step = step /\ call.link = l /\ call.kind = calls[c].kind
        /\ call.flow = calls[c].flow /\ call.email = calls[c].email
        /\ (call.spent <=> calls[c].spent) /\ (call.creates <=> calls[c].creates)
    BY <1>1, <2>4 DEF Call
  <2> HIDE DEF call, l
  <2>8. CallOk(call)
    BY <1>0, <1>1, <1>4, <2>1, <2>4, <2>7 DEF CallOk
  <2>9. SpentOk(call)
    BY <2>4, <2>5, <2>6, <2>7 DEF SpentOk
  <2> QED
    BY <1>0, <1>c, <2>1, <2>3, <2>7, <2>8, <2>9, QuietStep
<1>6. CASE ~Candidate(c, l)
  <2>1. Finish(c)
    BY <1>6 DEF FindCodeCandidate
  <2> QED
    BY <1>0, <2>1, FinishStep
<1> QED
  BY <1>5, <1>6

\* log_in finds or inserts the account.
LEMMA AccountStep ==
    ASSUME IInv, NEW c \in Calls, FindUser(c) \/ CreateUser(c) \/ FindByEmail(c)
    PROVE  IInv'
<1> USE ConstantsAssumption
<1> DEFINE l == calls[c].link
<1>0. UNCHANGED <<clock, flows, links, users>> /\ calls[c].step \in {"user", "taken"}
  BY DEF FindUser, CreateUser, FindByEmail
<1>1. /\ calls \in [Calls -> Call] /\ calls[c] \in Call /\ CallOk(calls[c]) /\ SpentOk(calls[c])
      /\ ~calls[c].creates
  <2>1. calls \in [Calls -> Call] /\ calls[c] \in Call
    BY RowTypes
  <2>2. CallOk(calls[c]) /\ SpentOk(calls[c]) /\ ~calls[c].creates
    BY <1>0 DEF IInv, CreatesInv
  <2> QED
    BY <2>1, <2>2
<1>2. /\ l \in DOMAIN links /\ links[l].flow = calls[c].flow
      /\ links[l].email = calls[c].email /\ calls[c].kind \in {"link", "code"}
  BY <1>0, <1>1 DEF CallOk
<1>3. calls[c].kind = "code" => c \in Checking
  BY <1>0 DEF Checking
<1>4. ASSUME NEW u \in Users, NEW creates \in BOOLEAN,
             calls' = [calls EXCEPT ![c].step = "complete", ![c].user = u, ![c].creates = creates],
             links[l].user # None => ~users[links[l].user].disabled,
             creates => users[u] = NoUser /\ \A d \in Calls : ~(calls[d].creates /\ calls[d].user = u)
      PROVE  IInv'
  <2> DEFINE call == [calls[c] EXCEPT !.step = "complete", !.user = u, !.creates = creates]
  <2>1. calls' = [calls EXCEPT ![c] = call]
    BY <1>1, <1>4
  <2>2. /\ call \in Call /\ call.step = "complete" /\ call.link = l /\ call.kind = calls[c].kind
        /\ call.flow = calls[c].flow /\ call.email = calls[c].email /\ call.user = u
        /\ (call.spent <=> calls[c].spent) /\ (call.creates <=> creates)
    BY <1>1 DEF Call, Steps
  <2> HIDE DEF call
  <2>3. CallOk(call)
    BY <1>2, <2>2 DEF CallOk
  <2>4. SpentOk(call)
    BY <1>0, <1>1, <1>2, <1>4, <2>2 DEF SpentOk, Dead
  <2> QED
    BY <1>0, <1>3, <1>4, <2>1, <2>2, <2>3, <2>4, QuietStep
<1>5. ASSUME NEW u \in Users, calls' = [calls EXCEPT ![c].step = "complete", ![c].user = u],
             links[l].user # None => ~users[links[l].user].disabled
      PROVE  IInv'
  <2>1. [calls[c] EXCEPT !.step = "complete", !.user = u]
           = [calls[c] EXCEPT !.step = "complete", !.user = u, !.creates = FALSE]
    BY <1>1 DEF Call
  <2>2. calls' = [calls EXCEPT ![c].step = "complete", ![c].user = u, ![c].creates = FALSE]
    BY <1>1, <1>5, <2>1
  <2> QED
    BY <1>4, <1>5, <2>2
<1>6. CASE Finish(c)
  BY <1>0, <1>6, FinishStep
<1>7. CASE FindUser(c)
  <2>1. links[l].user \in Users /\ links[l].user # None
    BY <1>2, <1>7, RowTypes DEF FindUser
  <2>2. \/ Finish(c)
        \/ /\ ~users[links[l].user].disabled
           /\ calls' = [calls EXCEPT ![c].step = "complete", ![c].user = links[l].user]
    BY <1>7 DEF FindUser
  <2> QED
    BY <1>5, <1>6, <2>1, <2>2
<1>8. CASE CreateUser(c)
  <2>1. links[l].user = None
    BY <1>8 DEF CreateUser
  <2>2. \/ Goto(c, "taken")
        \/ \E u \in Users :
              /\ users[u] = NoUser /\ \A d \in Calls : ~(calls[d].creates /\ calls[d].user = u)
              /\ calls' = [calls EXCEPT ![c].step = "complete", ![c].user = u, ![c].creates = TRUE]
    BY <1>8 DEF CreateUser
  <2>3. CASE Goto(c, "taken")
    <3>1. "taken" \in Steps
      BY DEF Steps
    <3>2. calls[c].spent => Dead(l)
      BY <1>0, <1>1 DEF SpentOk
    <3>3. \A call \in Call :
              /\ call.step = "taken" /\ call.kind = calls[c].kind /\ call.flow = calls[c].flow
              /\ call.email = calls[c].email /\ call.link = calls[c].link
              /\ (call.spent <=> calls[c].spent)
              => CallOk(call) /\ SpentOk(call)
      BY <1>2, <2>1, <3>2 DEF CallOk, SpentOk
    <3> QED
      BY <1>0, <1>1, <1>3, <2>3, <3>1, <3>3, GotoStep
  <2> QED
    BY <1>4, <2>1, <2>2, <2>3
<1>9. CASE FindByEmail(c)
  <2>1. links[l].user = None
    BY <1>1, <1>9 DEF FindByEmail, CallOk
  <2>2. \/ Finish(c)
        \/ \E u \in Users : calls' = [calls EXCEPT ![c].step = "complete", ![c].user = u]
    BY <1>9 DEF FindByEmail, AccountOf
  <2> QED
    BY <1>5, <1>6, <2>1, <2>2
<1> QED
  BY <1>7, <1>8, <1>9

\* A step that writes flows but neither links nor users.
LEMMA FlowsForward ==
    ASSUME IInv, flows' \in [Flows -> Flow], UNCHANGED <<clock, links, users>>,
           \A f \in Flows :
              /\ flows[f].created => flows'[f].created
              /\ flows'[f].expires_at >= flows[f].expires_at
              /\ flows[f].user # None =>
                    flows'[f].user = flows[f].user /\ flows'[f].codes = flows[f].codes
    PROVE  /\ Forward
           /\ \A l \in DOMAIN links' : LinkInv(l)'
           /\ \A u \in Users : UserInv(u)'
<1>1. Forward
  BY RowTypes DEF Forward
<1>2. \A f \in Flows : flows'[f].expires_at \in Nat
  BY DEF Flow
<1>3. ASSUME NEW l \in DOMAIN links'
      PROVE  LinkInv(l)'
  <2>1. l \in DOMAIN links /\ LinkInv(l) /\ links'[l] = links[l]
    BY DEF IInv
  <2>2. links[l].flow \in Flows /\ links[l].expires_at \in Nat
    BY <2>1, RowTypes
  <2>3. flows[links[l].flow].expires_at \in Nat
    BY <2>2, RowTypes
  <2> QED
    BY <1>2, <2>1, <2>2, <2>3 DEF LinkInv, Failures
<1>4. \A u \in Users : UserInv(u)'
  BY DEF IInv, UserInv
<1> QED
  BY <1>1, <1>3, <1>4

\* count_magic_link_request checks again and extends the flow.
LEMMA CountStep ==
    ASSUME IInv, NEW c \in Calls, CountRequest(c)
    PROVE  IInv' /\ Forward
<1> USE ConstantsAssumption
<1> DEFINE f == calls[c].flow
           later == Max({flows[f].expires_at, calls[c].expires_at})
<1>0. UNCHANGED <<clock, links, users>> /\ calls[c].step = "count"
  BY DEF CountRequest
<1>1. /\ calls \in [Calls -> Call] /\ calls[c] \in Call /\ CallOk(calls[c]) /\ SpentOk(calls[c])
      /\ ~calls[c].creates /\ calls[c].expires_at \in Nat
  <2>1. calls \in [Calls -> Call] /\ calls[c] \in Call
    BY RowTypes
  <2>2. CallOk(calls[c]) /\ SpentOk(calls[c]) /\ ~calls[c].creates
    BY <1>0 DEF IInv, CreatesInv
  <2> QED
    BY <2>1, <2>2 DEF Call
<1>2. f \in Flows /\ flows[f].created /\ calls[c].kind = "email" /\ calls[c].email \in Addresses
  BY <1>0, <1>1 DEF CallOk
<1>3. /\ later \in Nat /\ later >= flows[f].expires_at /\ later >= calls[c].expires_at
  <2>1. flows[f].expires_at \in Nat /\ calls[c].expires_at \in Nat
    BY <1>1, <1>2, RowTypes DEF Call
  <2> QED
    BY <2>1, LaterOfTwo
<1>4. CASE Pending(f, clock) /\ flows[f].requests < MaxEmailsPerFlow
  <2> DEFINE row == [flows[f] EXCEPT !.requests = flows[f].requests + 1, !.expires_at = later]
  <2>1. flows' = [flows EXCEPT ![f].requests = @ + 1, ![f].expires_at = later] /\ Goto(c, "recipient")
    BY <1>4 DEF CountRequest
  <2>2. flows' = [flows EXCEPT ![f] = row]
    BY <1>2, <2>1, RowTypes
  <2> HIDE DEF later, f
  <2>3. /\ row \in Flow /\ row.created /\ row.requests = flows[f].requests + 1
        /\ row.expires_at = later /\ row.user = flows[f].user /\ row.codes = flows[f].codes
    <3>1. flows[f] \in Flow /\ flows[f].requests + 1 \in Nat
      BY <1>2, RowTypes
    <3> QED
      BY <1>2, <1>3, <3>1 DEF Flow
  <2> HIDE DEF row
  <2>4. /\ flows' \in [Flows -> Flow] /\ flows'[f] = row
        /\ \A g \in Flows \ {f} : flows'[g] = flows[g]
    BY <1>2, <2>2, <2>3, RowTypes
  <2>5. \A g \in Flows :
           /\ flows[g].created => flows'[g].created
           /\ flows'[g].expires_at >= flows[g].expires_at
           /\ flows[g].user # None =>
                 flows'[g].user = flows[g].user /\ flows'[g].codes = flows[g].codes
    <3>1. \A g \in Flows : flows[g].expires_at \in Nat
      BY RowTypes
    <3> QED
      BY <1>3, <2>3, <2>4, <3>1
  <2>6. \A g \in Flows : FlowInv(g)'
    <3>1. \A g \in Flows : FlowInv(g) /\ flows[g].requests \in Nat
      BY RowTypes DEF IInv
    <3>2. MaxEmailsPerFlow \in Nat
      OBVIOUS
    <3> QED
      BY <1>2, <1>4, <2>3, <2>4, <3>1, <3>2 DEF FlowInv
  <2>7. /\ Forward
        /\ \A k \in DOMAIN links' : LinkInv(k)'
        /\ \A u \in Users : UserInv(u)'
    BY <1>0, <2>4, <2>5, FlowsForward
  <2>8. PICK call : call = [calls[c] EXCEPT !.step = "recipient"]
    OBVIOUS
  <2>9. /\ call \in Call /\ call.step = "recipient" /\ call.kind = "email" /\ call.flow = f
        /\ call.email = calls[c].email /\ call.expires_at = calls[c].expires_at
        /\ (call.spent <=> calls[c].spent) /\ ~call.creates
        /\ calls' = [calls EXCEPT ![c] = call]
    BY <1>1, <1>2, <2>1, <2>8 DEF Call, Steps, Goto, f
  <2>10. ~calls[c].spent
    BY <1>0, <1>1 DEF SpentOk
  <2>11. CallOk(call)'
    BY <1>1, <1>2, <1>3, <2>3, <2>4, <2>9 DEF CallOk
  <2>12. SpentOk(call)'
    BY <2>9, <2>10 DEF SpentOk
  <2>13. /\ clock' \in Instant /\ links' \in Seq(Link) /\ users' \in [Users -> User]
    BY <1>0, RowTypes
  <2>14. /\ \A d \in Calls \ {c} : calls[d].creates => users'[calls[d].user] = NoUser
         /\ \A d \in Calls \ {c} : calls[d].step = "wrong" =>
               links'[calls[d].link].code_failures = links[calls[d].link].code_failures
    BY <1>0 DEF IInv, CreatesInv
  <2>15. IInv'
    BY <1>0, <2>4, <2>6, <2>7, <2>9, <2>11, <2>12, <2>13, <2>14, CallStep
  <2> QED
    BY <2>7, <2>15
<1>5. CASE ~(Pending(f, clock) /\ flows[f].requests < MaxEmailsPerFlow)
  <2>1. Finish(c) /\ UNCHANGED <<clock, flows, links, users>>
    BY <1>0, <1>5 DEF CountRequest
  <2> QED
    BY <2>1, FinishStep, QuietIsForward
<1> QED
  BY <1>4, <1>5

\* magic_links::create adds a link of a flow that lives long enough.
LEMMA CreateLinkStep ==
    ASSUME IInv, NEW c \in Calls, CreateLink(c)
    PROVE  IInv' /\ Forward
<1> USE ConstantsAssumption
<1> DEFINE row == [flow |-> calls[c].flow, user |-> calls[c].user,
                   email |-> calls[c].email, created_at |-> clock,
                   expires_at |-> calls[c].expires_at,
                   consumed |-> FALSE, code_failures |-> 0]
<1>n. PICK new : new = Len(links) + 1
  OBVIOUS
<1>0. /\ UNCHANGED <<clock, flows, users>> /\ calls[c].step = "send"
      /\ links' = Append(links, row) /\ calls' = [calls EXCEPT ![c] = Idle]
  BY DEF CreateLink, Finish
<1>1. calls \in [Calls -> Call] /\ calls[c] \in Call /\ CallOk(calls[c])
  BY RowTypes DEF IInv
<1>2. /\ calls[c].flow \in Flows /\ flows[calls[c].flow].created /\ calls[c].email \in Addresses
      /\ calls[c].expires_at <= flows[calls[c].flow].expires_at
  BY <1>0, <1>1 DEF CallOk
<1>3. /\ row \in Link /\ row.flow = calls[c].flow /\ row.expires_at = calls[c].expires_at
      /\ row.code_failures = 0
  BY <1>1, <1>2, RowTypes DEF Link, Call
<1> HIDE DEF row
<1>4. /\ links' \in Seq(Link) /\ DOMAIN links' = DOMAIN links \cup {new}
      /\ \A l \in DOMAIN links : links'[l] = links[l]
      /\ links'[new] = row
  <2>1. links \in Seq(Link)
    BY RowTypes
  <2> QED
    BY <1>n, <1>0, <1>3, <2>1, AppendedRow
<1>5. Forward
  <2>1. /\ \A l \in DOMAIN links : links[l].code_failures \in Nat
        /\ \A f \in Flows : flows[f].expires_at \in Nat
        /\ clock \in Nat
    BY RowTypes
  <2> QED
    BY SMTT(30), <1>0, <1>4, <2>1 DEF Forward
<1>6. \A l \in DOMAIN links' : LinkInv(l)'
  <2>1. LinkInv(new)'
    BY <1>0, <1>2, <1>3, <1>4 DEF LinkInv, Failures
  <2>2. \A l \in DOMAIN links : LinkInv(l)'
    BY <1>0, <1>4 DEF IInv, LinkInv, Failures
  <2> QED
    BY <1>4, <2>1, <2>2
<1>7. (\A f \in Flows : FlowInv(f)') /\ (\A u \in Users : UserInv(u)')
  BY <1>0 DEF IInv, FlowInv, UserInv
<1>8. CallOk(Idle)' /\ SpentOk(Idle)'
  BY IdleOk DEF CallOk, SpentOk
<1>9. clock' \in Instant /\ flows' \in [Flows -> Flow] /\ users' \in [Users -> User]
  BY <1>0, RowTypes
<1>10. /\ \A d \in Calls \ {c} : calls[d].creates => users'[calls[d].user] = NoUser
       /\ \A d \in Calls \ {c} : calls[d].step = "wrong" =>
             links'[calls[d].link].code_failures = links[calls[d].link].code_failures
  <2>1. \A d \in Calls : calls[d].step = "wrong" => calls[d].link \in DOMAIN links
    BY DEF IInv, CallOk
  <2> QED
    BY <1>0, <1>4, <2>1 DEF IInv, CreatesInv
<1>11. IInv'
  BY <1>0, <1>4, <1>5, <1>6, <1>7, <1>8, <1>9, <1>10, IdleOk, CallStep
<1> QED
  BY <1>5, <1>11

\* A step that writes the marks of one link, and no other link.
LEMMA MarkedLink ==
    ASSUME IInv, NEW k \in DOMAIN links, NEW failures \in Nat, NEW consumed \in BOOLEAN,
           links' = [links EXCEPT ![k] =
                       [links[k] EXCEPT !.code_failures = failures, !.consumed = consumed]],
           failures >= Failures(k)
    PROVE  /\ links' \in Seq(Link) /\ DOMAIN links' = DOMAIN links
           /\ \A l \in DOMAIN links \ {k} : links'[l] = links[l]
           /\ links'[k].code_failures = failures
           /\ \A l \in DOMAIN links :
                 /\ links'[l].flow = links[l].flow /\ links'[l].user = links[l].user
                 /\ links'[l].email = links[l].email /\ links'[l].created_at = links[l].created_at
                 /\ links'[l].expires_at = links[l].expires_at
                 /\ links'[l].code_failures >= links[l].code_failures
<1>0. links \in Seq(Link) /\ links[k] \in Link
  BY RowTypes
<1> DEFINE row == [links[k] EXCEPT !.code_failures = failures, !.consumed = consumed]
<1>1. /\ row \in Link /\ row.code_failures = failures
      /\ row.flow = links[k].flow /\ row.user = links[k].user /\ row.email = links[k].email
      /\ row.created_at = links[k].created_at /\ row.expires_at = links[k].expires_at
  BY <1>0 DEF Link
<1> HIDE DEF row
<1>2. links' = [links EXCEPT ![k] = row]
  BY DEF row
<1>3. /\ links' \in Seq(Link) /\ DOMAIN links' = DOMAIN links
      /\ \A l \in DOMAIN links \ {k} : links'[l] = links[l]
      /\ links'[k] = row
  BY <1>0, <1>1, <1>2, UpdatedRow
<1>4. \A l \in DOMAIN links : links[l].code_failures \in Nat
  BY RowTypes
<1> QED
  BY <1>1, <1>3, <1>4 DEF Failures

\* record_code_failure: the call holds the lock of the address.
LEMMA FailureStep ==
    ASSUME IInv, NEW c \in Calls, RecordCodeFailure(c)
    PROVE  /\ IInv' /\ Forward
           /\ LET k == calls[c].link IN
                 /\ k \in DOMAIN links /\ DOMAIN links' = DOMAIN links
                 /\ \A l \in DOMAIN links \ {k} : links'[l] = links[l]
                 /\ links'[k].email = links[k].email /\ links[k].email = calls[c].email
                 /\ links'[k].created_at = links[k].created_at
                 /\ links'[k].code_failures = links[k].code_failures + 1
<1> USE ConstantsAssumption
<1>0. UNCHANGED <<clock, flows, users>> /\ calls[c].step = "wrong"
      /\ calls' = [calls EXCEPT ![c] = Idle]
  BY DEF RecordCodeFailure, Finish
<1>1. calls \in [Calls -> Call] /\ calls[c] \in Call /\ CallOk(calls[c])
  BY RowTypes DEF IInv
<1>k. PICK k : k = calls[c].link
  OBVIOUS
<1>2. /\ k \in DOMAIN links /\ links[k].email = calls[c].email /\ calls[c].kind = "code"
      /\ Failures(k) < MaxFailuresPerCode /\ Failures(k) \in Nat /\ MaxFailuresPerCode \in Nat
      /\ links \in Seq(Link) /\ links[k] \in Link
  <2>1. k \in DOMAIN links /\ links[k].email = calls[c].email /\ calls[c].kind = "code"
    BY <1>0, <1>1, <1>k DEF CallOk
  <2>2. Failures(k) < MaxFailuresPerCode
    BY <1>0, <1>k DEF IInv, LockInv
  <2> QED
    BY <2>1, <2>2, RowTypes DEF Failures
<1> DEFINE consumed == Failures(k) + 1 >= MaxFailuresPerCode
<1>3. /\ consumed \in BOOLEAN /\ Failures(k) + 1 \in Nat /\ Failures(k) + 1 >= Failures(k)
      /\ Failures(k) + 1 <= MaxFailuresPerCode
  BY <1>2
<1>4. links' = [links EXCEPT ![k] =
                  [links[k] EXCEPT !.code_failures = Failures(k) + 1, !.consumed = consumed]]
  <2>1. links' = [links EXCEPT ![k].code_failures = @ + 1, ![k].consumed = consumed]
    BY <1>k DEF RecordCodeFailure
  <2> HIDE DEF consumed
  <2> QED
    BY <1>2, <2>1 DEF Failures
<1> HIDE DEF consumed
<1>5. /\ links' \in Seq(Link) /\ DOMAIN links' = DOMAIN links
      /\ \A l \in DOMAIN links \ {k} : links'[l] = links[l]
      /\ links'[k].code_failures = Failures(k) + 1
      /\ \A l \in DOMAIN links :
            /\ links'[l].flow = links[l].flow /\ links'[l].user = links[l].user
            /\ links'[l].email = links[l].email /\ links'[l].created_at = links[l].created_at
            /\ links'[l].expires_at = links[l].expires_at
            /\ links'[l].code_failures >= links[l].code_failures
  BY <1>2, <1>3, <1>4, MarkedLink
<1>6. Forward
  BY <1>0, <1>5, RowTypes DEF Forward
<1>7. \A l \in DOMAIN links' : LinkInv(l)'
  <2> SUFFICES ASSUME NEW l \in DOMAIN links PROVE LinkInv(l)'
    BY <1>5
  <2>1. LinkInv(l)
    BY DEF IInv
  <2>2. links'[l].code_failures <= MaxFailuresPerCode
    BY <1>3, <1>5, <2>1 DEF LinkInv, Failures
  <2> QED
    BY <1>0, <1>5, <2>1, <2>2 DEF LinkInv, Failures
<1>8. (\A f \in Flows : FlowInv(f)') /\ (\A u \in Users : UserInv(u)')
  BY <1>0 DEF IInv, FlowInv, UserInv
<1>9. CallOk(Idle)' /\ SpentOk(Idle)'
  BY IdleOk DEF CallOk, SpentOk
<1>10. clock' \in Instant /\ flows' \in [Flows -> Flow] /\ users' \in [Users -> User]
  BY <1>0, RowTypes
<1>11. \A d \in Calls \ {c} : calls[d].step = "wrong" =>
             links'[calls[d].link].code_failures = links[calls[d].link].code_failures
  <2> SUFFICES ASSUME NEW d \in Calls \ {c}, calls[d].step = "wrong"
               PROVE  links'[calls[d].link].code_failures = links[calls[d].link].code_failures
    OBVIOUS
  <2>1. CallOk(calls[d])
    BY DEF IInv
  <2>2. calls[d].link \in DOMAIN links /\ links[calls[d].link].email = calls[d].email
        /\ calls[d].kind = "code"
    BY <2>1 DEF CallOk
  <2>3. c \in Checking /\ d \in Checking
    BY <1>0, <1>2, <2>2 DEF Checking
  <2>4. calls[d].link # k
    BY <1>2, <2>2, <2>3 DEF IInv, LockInv
  <2> QED
    BY <1>5, <2>2, <2>4
<1>12. \A d \in Calls \ {c} : calls[d].creates => users'[calls[d].user] = NoUser
  BY <1>0 DEF IInv, CreatesInv
<1>13. IInv'
  BY <1>0, <1>5, <1>6, <1>7, <1>8, <1>9, <1>10, <1>11, <1>12, IdleOk, CallStep
<1> QED
  BY <1>k, <1>2, <1>5, <1>6, <1>13 DEF Failures

\* login_flow::complete: the flow that is still pending takes its account, the
\* link is used up, and the address is verified.
LEMMA CompleteStep ==
    ASSUME IInv, NEW c \in Calls, Complete(c)
    PROVE  /\ IInv' /\ Forward
           /\ calls[c].spent => flows' = flows
           /\ DOMAIN links' = DOMAIN links
           /\ \A l \in DOMAIN links :
                 /\ links'[l].flow = links[l].flow
                 /\ links'[l].email = links[l].email /\ links'[l].created_at = links[l].created_at
                 /\ links'[l].code_failures = links[l].code_failures
<1> USE ConstantsAssumption
<1> DEFINE call == calls[c]
<1>0. UNCHANGED clock /\ call.step = "complete" /\ calls' = [calls EXCEPT ![c] = Idle]
  BY DEF Complete, Finish
<1>1. /\ calls \in [Calls -> Call] /\ call \in Call /\ CallOk(call) /\ SpentOk(call)
  <2>1. CallOk(calls[c]) /\ SpentOk(calls[c])
    BY DEF IInv
  <2> QED
    BY <2>1, RowTypes
<1>2. PICK k, f, u : k = call.link /\ f = call.flow /\ u = call.user
  OBVIOUS
<1>3. /\ k \in DOMAIN links /\ links[k].flow = f /\ f \in Flows /\ u \in Users
      /\ links[k].email = call.email /\ call.email \in Addresses /\ links[k] \in Link
  <2>1. k \in DOMAIN links /\ links[k].flow = f /\ links[k].email = call.email /\ u \in Users
    BY <1>0, <1>1, <1>2 DEF CallOk
  <2> QED
    BY <2>1, RowTypes
<1>4. CASE ~Pending(call.flow, call.start)
  <2>1. UNCHANGED <<clock, flows, links, users>> /\ Finish(c)
    BY <1>4 DEF Complete
  <2>2. IInv' /\ Forward
    BY <2>1, FinishStep, QuietIsForward
  <2> QED
    BY <2>1, <2>2
<1>5. CASE Pending(call.flow, call.start)
  <2>0. flows[f].created /\ flows[f].user = None
    BY <1>2, <1>5 DEF Pending
  <2>1. /\ flows' = [flows EXCEPT ![f].user = u, ![f].codes = @ + 1]
        /\ links' = [links EXCEPT ![k].consumed = TRUE]
        /\ MarkEmailVerified(c, u)
    BY <1>2, <1>5 DEF Complete
  <2> DEFINE flow == [flows[f] EXCEPT !.user = u, !.codes = flows[f].codes + 1]
  <2>2. /\ flow \in Flow /\ flow.user = u /\ flow.created /\ flow.requests = flows[f].requests
        /\ flow.expires_at = flows[f].expires_at
    <3>1. flows[f] \in Flow /\ flows[f].codes + 1 \in Nat
      BY <1>3, RowTypes
    <3> QED
      BY ZenonT(60), <1>3, <2>0, <3>1 DEF Flow
  <2>3. flows' = [flows EXCEPT ![f] = flow]
    BY <1>3, <2>1, RowTypes
  <2> HIDE DEF flow
  <2>4. /\ flows' \in [Flows -> Flow] /\ flows'[f] = flow
        /\ \A g \in Flows \ {f} : flows'[g] = flows[g]
    BY <1>3, <2>2, <2>3, RowTypes
  <2>5. links' = [links EXCEPT ![k] =
                    [links[k] EXCEPT !.code_failures = Failures(k), !.consumed = TRUE]]
    <3>1. [links[k] EXCEPT !.consumed = TRUE]
            = [links[k] EXCEPT !.code_failures = Failures(k), !.consumed = TRUE]
      BY <1>3 DEF Link, Failures
    <3>2. links' = [links EXCEPT ![k] = [links[k] EXCEPT !.consumed = TRUE]]
      BY <1>3, <2>1, RowTypes
    <3> QED
      BY <3>1, <3>2
  <2>6. /\ links' \in Seq(Link) /\ DOMAIN links' = DOMAIN links
        /\ \A l \in DOMAIN links \ {k} : links'[l] = links[l]
        /\ links'[k].code_failures = Failures(k)
        /\ \A l \in DOMAIN links :
              /\ links'[l].flow = links[l].flow /\ links'[l].user = links[l].user
              /\ links'[l].email = links[l].email /\ links'[l].created_at = links[l].created_at
              /\ links'[l].expires_at = links[l].expires_at
              /\ links'[l].code_failures >= links[l].code_failures
    <3>1. Failures(k) \in Nat /\ Failures(k) >= Failures(k)
      BY <1>3, RowTypes DEF Failures
    <3> QED
      BY <1>3, <2>5, <3>1, MarkedLink
  <2>7. \A l \in DOMAIN links : links'[l].code_failures = links[l].code_failures
    BY <2>6 DEF Failures
  <2> DEFINE user == IF call.creates
                     THEN [NoUser EXCEPT !.email = call.email, !.verified = TRUE]
                     ELSE [users[u] EXCEPT !.verified = users[u].verified \/ users[u].email = call.email]
  <2>8. users' = [users EXCEPT ![u] = user]
    <3>1. CASE call.creates
      BY <2>1, <3>1 DEF MarkEmailVerified
    <3>2. CASE ~call.creates
      <4>1. users' = [users EXCEPT ![u] =
                        [@ EXCEPT !.verified = users[u].verified \/ users[u].email = call.email]]
        BY <2>1, <3>2 DEF MarkEmailVerified
      <4>2. users \in [Users -> User]
        BY RowTypes
      <4> QED
        BY <1>3, <3>2, <4>1, <4>2
    <3> QED
      BY <3>1, <3>2
  <2>9. /\ user \in User
        /\ user.email = None => ~call.creates /\ users[u].email = None /\ user = users[u]
        /\ ~call.creates /\ users[u].email = None => user = users[u]
        /\ user.disabled <=> (~call.creates /\ users[u].disabled)
    <3>1. users[u] \in User
      BY <1>3, RowTypes
    <3>2. CASE call.creates
      BY <1>3, <3>2 DEF NoUser, User
    <3>3. CASE ~call.creates
      <4> DEFINE verified == users[u].verified \/ users[u].email = call.email
      <4>1. verified \in BOOLEAN
        OBVIOUS
      <4>2. users[u].email = None => (verified <=> users[u].verified)
        BY <1>3
      <4> HIDE DEF verified
      <4>3. user = [users[u] EXCEPT !.verified = verified]
        BY <3>3 DEF verified
      <4>4. /\ user \in User /\ user.email = users[u].email /\ user.disabled = users[u].disabled
            /\ (users[u].email = None => user = users[u])
        BY ZenonT(60), <3>1, <4>1, <4>2, <4>3 DEF User
      <4> QED
        BY <3>3, <4>4
    <3> QED
      BY <3>2, <3>3
  <2> HIDE DEF user
  <2>10. /\ users' \in [Users -> User] /\ users'[u] = user
         /\ \A v \in Users \ {u} : users'[v] = users[v]
    BY <1>3, <2>8, <2>9, RowTypes
  <2>11. call.creates => users[u] = NoUser
    BY <1>2 DEF IInv, CreatesInv
  <2>12. Forward
    <3>1. \A g \in Flows : flows'[g].expires_at >= flows[g].expires_at
      <4>1. \A g \in Flows : flows[g].expires_at \in Nat
        BY RowTypes
      <4> QED
        BY <2>2, <2>4, <4>1
    <3>2. \A g \in Flows : /\ flows[g].created => flows'[g].created
                           /\ flows[g].user # None =>
                                 flows'[g].user = flows[g].user /\ flows'[g].codes = flows[g].codes
      BY <2>0, <2>2, <2>4
    <3>3. \A v \in Users : users[v].disabled => users'[v].disabled
      BY <2>9, <2>10, <2>11 DEF NoUser
    <3>4. clock' >= clock
      BY <1>0, RowTypes
    <3> QED
      BY <2>6, <3>1, <3>2, <3>3, <3>4 DEF Forward
  <2>13. \A g \in Flows : FlowInv(g)'
    <3>1. u # None
      BY <1>3
    <3> QED
      BY <2>0, <2>2, <2>4, <3>1 DEF IInv, FlowInv
  <2>14. \A l \in DOMAIN links' : LinkInv(l)'
    <3> SUFFICES ASSUME NEW l \in DOMAIN links PROVE LinkInv(l)'
      BY <2>6
    <3>1. LinkInv(l) /\ links[l].flow \in Flows
      BY RowTypes DEF IInv
    <3>2. flows'[links[l].flow].created /\ flows'[links[l].flow].expires_at = flows[links[l].flow].expires_at
      BY <2>2, <2>4, <3>1 DEF LinkInv
    <3> QED
      BY <2>6, <2>7, <3>1, <3>2 DEF LinkInv, Failures
  <2>15. \A v \in Users : UserInv(v)'
    BY <2>9, <2>10 DEF IInv, UserInv
  <2>16. CallOk(Idle)' /\ SpentOk(Idle)'
    BY IdleOk DEF CallOk, SpentOk
  <2>17. \A d \in Calls \ {c} : calls[d].step = "wrong" =>
             links'[calls[d].link].code_failures = links[calls[d].link].code_failures
    <3>1. \A d \in Calls : calls[d].step = "wrong" => calls[d].link \in DOMAIN links
      BY DEF IInv, CallOk
    <3> QED
      BY <2>7, <3>1
  <2>18. \A d \in Calls \ {c} : calls[d].creates => users'[calls[d].user] = NoUser
    <3> SUFFICES ASSUME NEW d \in Calls \ {c}, calls[d].creates
                 PROVE  users'[calls[d].user] = NoUser
      OBVIOUS
    <3>1. users[calls[d].user] = NoUser /\ calls[d].step = "complete"
      BY DEF IInv, CreatesInv
    <3>2. calls[d].user \in Users
      BY <3>1 DEF IInv, CallOk
    <3>3. CASE calls[d].user = u
      <4>1. ~call.creates
        BY <1>2, <3>3 DEF IInv, CreatesInv
      <4>2. users[u].email = None
        BY <3>1, <3>3 DEF NoUser
      <4> QED
        BY <2>9, <2>10, <3>1, <3>3, <4>1, <4>2
    <3>4. CASE calls[d].user # u
      BY <2>10, <3>1, <3>2, <3>4
    <3> QED
      BY <3>3, <3>4
  <2>19. clock' \in Instant
    BY <1>0, RowTypes
  <2>20. IInv'
    BY <1>0, <2>4, <2>6, <2>10, <2>12, <2>13, <2>14, <2>15, <2>16, <2>17, <2>18, <2>19,
       IdleOk, CallStep
  <2>21. ~call.spent
    BY <1>0, <1>1, <1>2, <2>0 DEF SpentOk
  <2> QED
    BY <2>6, <2>7, <2>12, <2>20, <2>21
<1> QED
  BY <1>4, <1>5

\* A step of no call: the calls stay where they are.
LEMMA TablesStep ==
    ASSUME IInv, UNCHANGED <<links, calls>>,
           clock' \in Instant, flows' \in [Flows -> Flow], users' \in [Users -> User],
           \A f \in Flows : FlowInv(f)',
           \A l \in DOMAIN links : LinkInv(l)',
           \A u \in Users : UserInv(u)' /\ (users[u] = NoUser => users'[u] = NoUser),
           Forward
    PROVE  IInv'
<1>1. TypeOK'
  BY RowTypes DEF TypeOK
<1>2. \A d \in Calls : CallOk(calls[d])' /\ SpentOk(calls[d])'
  BY <1>1, OldCalls
<1>3. LockInv'
  BY DEF IInv, LockInv, Checking, Failures
<1>4. CreatesInv'
  BY DEF IInv, CreatesInv, CallOk
<1> QED
  BY <1>1, <1>2, <1>3, <1>4 DEF IInv

\* The rest of the server, the operator and the clock.
LEMMA OtherStep ==
    ASSUME IInv,
           \/ \E f \in Flows : CreateFlow(f)
           \/ \E u \in Users, a \in Addresses : ChangeEmail(u, a)
           \/ \E u \in Users : DisableUser(u)
           \/ Tick
    PROVE  IInv' /\ Forward
<1> USE ConstantsAssumption
<1>0. /\ UNCHANGED <<links, calls>>
      /\ \A l \in DOMAIN links : links[l].code_failures \in Nat
      /\ \A f \in Flows : flows[f].expires_at \in Nat
      /\ clock \in Nat
  <2>1. UNCHANGED <<links, calls>>
    BY DEF CreateFlow, ChangeEmail, DisableUser, Tick
  <2> QED
    BY <2>1, RowTypes
<1>1. ASSUME NEW f \in Flows, CreateFlow(f)
      PROVE  IInv' /\ Forward
  <2> DEFINE flow == [NoFlow EXCEPT !.created = TRUE, !.expires_at = clock + FlowTTL]
  <2>0. clock + FlowTTL \in Nat
    BY RowTypes
  <2>1. /\ flow \in Flow /\ flow.created /\ flow.requests = 0 /\ flow.expires_at \in Nat
        /\ flow.codes = 0
    BY <2>0 DEF Flow, NoFlow
  <2>2. ~flows[f].created /\ flows' = [flows EXCEPT ![f] = flow] /\ UNCHANGED <<clock, users>>
    BY <1>1 DEF CreateFlow
  <2> HIDE DEF flow
  <2>3. /\ flows' \in [Flows -> Flow] /\ flows'[f] = flow
        /\ \A g \in Flows \ {f} : flows'[g] = flows[g]
    BY <2>1, <2>2, RowTypes
  <2>4. flows[f].expires_at = 0 /\ flows[f].user = None
    BY <2>2 DEF IInv, FlowInv, NoFlow
  <2>5. Forward
    <3>1. \A g \in Flows : /\ flows[g].created => flows'[g].created
                           /\ flows'[g].expires_at >= flows[g].expires_at
                           /\ flows[g].user # None =>
                                 flows'[g].user = flows[g].user /\ flows'[g].codes = flows[g].codes
      BY <1>0, <2>1, <2>2, <2>3, <2>4
    <3> QED
      BY <1>0, <2>2, <3>1 DEF Forward
  <2>6. \A g \in Flows : FlowInv(g)'
    BY <2>1, <2>3 DEF IInv, FlowInv
  <2>7. \A l \in DOMAIN links : LinkInv(l)'
    <3> SUFFICES ASSUME NEW l \in DOMAIN links PROVE LinkInv(l)'
      OBVIOUS
    <3>1. LinkInv(l) /\ links[l].flow \in Flows
      BY RowTypes DEF IInv
    <3>2. links[l].flow # f
      BY <2>2, <3>1 DEF LinkInv
    <3> QED
      BY <1>0, <2>3, <3>1, <3>2 DEF LinkInv, Failures
  <2>8. \A u \in Users : UserInv(u)' /\ (users[u] = NoUser => users'[u] = NoUser)
    BY <2>2 DEF IInv, UserInv
  <2> QED
    BY <1>0, <2>2, <2>3, <2>5, <2>6, <2>7, <2>8, RowTypes, TablesStep
<1>2. ASSUME NEW u \in Users, NEW user \in User, users' = [users EXCEPT ![u] = user],
             UNCHANGED <<clock, flows>>,
             users[u].email # None, user.email # None,
             users[u].disabled => user.disabled
      PROVE  IInv' /\ Forward
  <2>1. /\ users' \in [Users -> User] /\ users'[u] = user
        /\ \A v \in Users \ {u} : users'[v] = users[v]
    BY <1>2, RowTypes
  <2>2. Forward
    BY <1>0, <1>2, <2>1 DEF Forward
  <2>3. \A v \in Users : UserInv(v)' /\ (users[v] = NoUser => users'[v] = NoUser)
    <3>1. users[u] # NoUser
      BY <1>2 DEF NoUser
    <3>2. \A v \in Users : UserInv(v)
      BY DEF IInv
    <3> QED
      BY <1>2, <2>1, <3>1, <3>2 DEF UserInv
  <2>4. (\A f \in Flows : FlowInv(f)') /\ (\A l \in DOMAIN links : LinkInv(l)')
    BY <1>0, <1>2 DEF IInv, FlowInv, LinkInv, Failures
  <2> QED
    BY <1>0, <1>2, <2>1, <2>2, <2>3, <2>4, RowTypes, TablesStep
<1>3. ASSUME NEW u \in Users, NEW a \in Addresses, ChangeEmail(u, a)
      PROVE  IInv' /\ Forward
  <2> DEFINE user == [users[u] EXCEPT !.email = a, !.verified = TRUE]
  <2>1. user \in User /\ user.email = a /\ user.disabled = users[u].disabled
    BY ZenonT(60), RowTypes DEF User
  <2>2. users' = [users EXCEPT ![u] = user]
    BY <1>3, RowTypes DEF ChangeEmail
  <2>3. users[u].email # None /\ UNCHANGED <<clock, flows>> /\ a # None
    BY <1>3 DEF ChangeEmail
  <2> HIDE DEF user
  <2> QED
    BY <1>2, <2>1, <2>2, <2>3
<1>4. ASSUME NEW u \in Users, DisableUser(u)
      PROVE  IInv' /\ Forward
  <2> DEFINE user == [users[u] EXCEPT !.disabled = TRUE]
  <2>1. user \in User /\ user.email = users[u].email /\ user.disabled
    <3>1. users[u] \in User
      BY RowTypes
    <3> QED
      BY <3>1 DEF User
  <2>2. users' = [users EXCEPT ![u] = user]
    BY <1>4, RowTypes DEF DisableUser
  <2>3. users[u].email # None /\ UNCHANGED <<clock, flows>>
    BY <1>4 DEF DisableUser
  <2> HIDE DEF user
  <2> QED
    BY <1>2, <2>1, <2>2, <2>3
<1>5. CASE Tick
  <2>1. clock' \in Instant /\ clock' >= clock /\ UNCHANGED <<flows, users>>
    BY <1>0, <1>5 DEF Tick, Instant
  <2>2. Forward
    BY <1>0, <2>1 DEF Forward
  <2>3. /\ \A f \in Flows : FlowInv(f)'
        /\ \A l \in DOMAIN links : LinkInv(l)'
        /\ \A u \in Users : UserInv(u)' /\ (users[u] = NoUser => users'[u] = NoUser)
    BY <1>0, <2>1 DEF IInv, FlowInv, LinkInv, UserInv, Failures
  <2> QED
    BY <1>0, <2>1, <2>2, <2>3, RowTypes, TablesStep
<1> QED
  BY <1>1, <1>3, <1>4, <1>5

\* Every step keeps the invariant, and moves the tables forward.
LEMMA NextKeepsIInv == IInv /\ [Next]_vars => IInv' /\ Forward
<1> SUFFICES ASSUME IInv, [Next]_vars PROVE IInv' /\ Forward
  OBVIOUS
<1>1. ASSUME NEW c \in Calls, Arrive(c) \/ Handle(c) \/ Abort(c)
      PROVE  IInv' /\ Forward
  <2>1. CASE \/ Arrive(c) \/ FindRecipient(c) \/ Consume(c) \/ ConsumeById(c) \/ FindCodeCandidate(c)
             \/ FindUser(c) \/ CreateUser(c) \/ FindByEmail(c) \/ Abort(c)
    <3>1. UNCHANGED <<clock, flows, links, users>>
      BY <2>1 DEF Arrive, AskForEmail, ConfirmLink, SubmitCode, FindRecipient, Consume,
                  ConsumeById, FindCodeCandidate, FindUser, CreateUser, FindByEmail, Abort
    <3>2. Abort(c) => Finish(c)
      BY DEF Abort
    <3>3. IInv'
      BY <2>1, <3>1, <3>2, ArriveStep, ReadStep, CandidateStep, AccountStep, FinishStep
    <3> QED
      BY <3>1, <3>3, QuietIsForward
  <2>2. CASE CountRequest(c)
    BY <2>2, CountStep
  <2>3. CASE CreateLink(c)
    BY <2>3, CreateLinkStep
  <2>4. CASE RecordCodeFailure(c)
    BY <2>4, FailureStep
  <2>5. CASE Complete(c)
    BY <2>5, CompleteStep
  <2> QED
    BY <1>1, <2>1, <2>2, <2>3, <2>4, <2>5 DEF Handle
<1>2. CASE \/ \E f \in Flows : CreateFlow(f)
           \/ \E u \in Users, a \in Addresses : ChangeEmail(u, a)
           \/ \E u \in Users : DisableUser(u)
           \/ Tick
  BY <1>2, OtherStep
<1>3. CASE UNCHANGED vars
  <2>1. UNCHANGED <<clock, flows, links, users, calls>>
    BY <1>3 DEF vars
  <2>2. /\ Forward
        /\ \A f \in Flows : FlowInv(f)'
        /\ \A l \in DOMAIN links' : LinkInv(l)'
        /\ \A u \in Users : UserInv(u)'
    BY <2>1, QuietIsForward
  <2> QED
    BY <2>1, <2>2, RowTypes, TablesStep
<1> QED
  BY <1>1, <1>2, <1>3 DEF Next

-----------------------------------------------------------------------------
(* The theorems *)

\* However calls, confirmations, the operator and the clock interleave, the
\* inductive invariant holds.
THEOREM IInvHolds == Spec => []IInv
<1>1. Init => IInv
  BY InitEstablishesIInv
<1>2. IInv /\ [Next]_vars => IInv'
  BY NextKeepsIInv
<1> QED
  BY <1>1, <1>2, PTL DEF Spec

\* Rows and calls keep the shape the code gives them.
THEOREM TypeCorrect == Spec => []TypeOK
<1>1. IInv => TypeOK
  BY DEF IInv
<1> QED
  BY <1>1, IInvHolds, PTL

\* count_magic_link_request never lets a flow expire before one of its links.
THEOREM FlowsOutliveLinks == Spec => []FlowOutlivesItsEmails
<1>1. IInv => FlowOutlivesItsEmails
  <2> SUFFICES ASSUME IInv, NEW l \in DOMAIN links
               PROVE  flows[links[l].flow].expires_at >= links[l].expires_at
    BY DEF FlowOutlivesItsEmails
  <2>1. LinkInv(l) /\ links[l].flow \in Flows /\ links[l].expires_at \in Nat
    BY RowTypes DEF IInv
  <2>2. flows[links[l].flow].expires_at \in Nat
    BY <2>1, RowTypes
  <2> QED
    BY <2>1, <2>2 DEF LinkInv
<1> QED
  BY <1>1, IInvHolds, PTL

\* login_flows::complete: once a flow has issued an authorization code it issues no
\* other and keeps the account, whatever links and codes are confirmed at the same
\* moment or later.
THEOREM FlowsLogInOnce == Spec => FlowCompletesOnce
<1> DEFINE Once == \A f \in Flows : flows[f].codes > 0 =>
                      /\ flows'[f].codes = flows[f].codes
                      /\ flows'[f].user = flows[f].user
<1>1. IInv /\ [Next]_vars => [Once]_vars
  <2> SUFFICES ASSUME IInv, Forward PROVE Once
    BY NextKeepsIInv
  <2>1. \A f \in Flows : flows[f].codes > 0 => flows[f].user # None
    BY DEF IInv, FlowInv
  <2> QED
    BY <2>1 DEF Forward
<1> QED
  BY <1>1, IInvHolds, PTL DEF Spec, FlowCompletesOnce

\* No call that came too late with its link or code completes a flow: it expired,
\* its flow was completed or its account disabled, or the code was not the newest
\* or out of attempts, when the call arrived.
THEOREM TooLateIsRefused == Spec => SpentNeverLogsIn
<1> DEFINE Refused == \A c \in Calls : calls[c].spent /\ calls'[c] # calls[c] => flows' = flows
<1>1. IInv /\ [Next]_vars => [Refused]_vars
  <2> SUFFICES ASSUME IInv, Next, NEW c \in Calls, calls[c].spent, calls'[c] # calls[c]
               PROVE  flows' = flows
    OBVIOUS
  <2>1. ASSUME NEW d \in Calls, CountRequest(d) \/ Complete(d)
        PROVE  flows' = flows
    <3>1. calls \in [Calls -> Call] /\ SpentOk(calls[c])
      BY RowTypes DEF IInv
    <3>2. d = c
      BY <2>1, <3>1 DEF CountRequest, Complete, Goto, Finish
    <3>3. CASE CountRequest(d)
      BY <3>1, <3>2, <3>3 DEF SpentOk, CountRequest
    <3>4. CASE Complete(d)
      BY <3>2, <3>4, CompleteStep
    <3> QED
      BY <2>1, <3>3, <3>4
  <2>2. ASSUME NEW d \in Calls, \/ Arrive(d) \/ FindRecipient(d) \/ CreateLink(d) \/ Consume(d)
                                \/ FindCodeCandidate(d) \/ RecordCodeFailure(d) \/ ConsumeById(d)
                                \/ FindUser(d) \/ CreateUser(d) \/ FindByEmail(d) \/ Abort(d)
        PROVE  flows' = flows
    BY <2>2 DEF Arrive, AskForEmail, ConfirmLink, SubmitCode, FindRecipient, CreateLink, Consume,
                FindCodeCandidate, RecordCodeFailure, ConsumeById, FindUser, CreateUser, FindByEmail, Abort
  <2>3. CASE \/ \E f \in Flows : CreateFlow(f)
             \/ \E u \in Users, a \in Addresses : ChangeEmail(u, a)
             \/ \E u \in Users : DisableUser(u)
             \/ Tick
    BY <2>3 DEF CreateFlow, ChangeEmail, DisableUser, Tick
  <2> QED
    BY <2>1, <2>2, <2>3 DEF Next, Handle
<1> QED
  BY <1>1, IInvHolds, PTL DEF Spec, SpentNeverLogsIn

-----------------------------------------------------------------------------
(* Emails: the second layer of the invariant *)

\* The calls about to send an email of a flow.
Sending(f) == {c \in Calls : calls[c].flow = f /\ calls[c].step \in {"recipient", "send"}}

\* Each email sent, and each about to be, has been counted; the calls may be
\* infinite, not those about to send.
EmailInv(f) ==
    /\ IsFiniteSet(Sending(f))
    /\ Cardinality(LinksOf(f)) + Cardinality(Sending(f)) <= flows[f].requests

EmailsInv == \A f \in Flows : EmailInv(f)

\* The places of a table are finitely many.
LEMMA PlacesAreFinite ==
    ASSUME NEW S, NEW s \in Seq(S)
    PROVE  IsFiniteSet(DOMAIN s)
<1>1. Len(s) \in Int /\ 1 \in Int /\ DOMAIN s = 1 .. Len(s)
  OBVIOUS
<1> QED
  BY <1>1, FS_Interval

\* Links can be counted before and after a step.
LEMMA LinksAreFinite ==
    ASSUME IInv, IInv', NEW f
    PROVE  /\ IsFiniteSet(LinksOf(f)) /\ IsFiniteSet(LinksOf(f)')
           /\ Cardinality(LinksOf(f)) \in Nat /\ Cardinality(LinksOf(f)') \in Nat
<1>1. links \in Seq(Link) /\ links' \in Seq(Link)
  BY DEF IInv, TypeOK
<1>2. IsFiniteSet(DOMAIN links) /\ IsFiniteSet(DOMAIN links')
  BY <1>1, PlacesAreFinite
<1>3. LinksOf(f) \subseteq DOMAIN links /\ LinksOf(f)' \subseteq DOMAIN links'
  BY DEF LinksOf
<1>4. IsFiniteSet(LinksOf(f)) /\ IsFiniteSet(LinksOf(f)')
  BY <1>2, <1>3, FS_Subset
<1> QED
  BY <1>4, FS_CardinalityType

\* The counts of a flow, before and after a step.
LEMMA RequestsAreCounted ==
    ASSUME IInv, IInv', NEW f \in Flows
    PROVE  flows[f].requests \in Nat /\ flows'[f].requests \in Nat
<1>1. flows[f] \in Flow /\ flows'[f] \in Flow
  BY DEF IInv, TypeOK
<1> QED
  BY <1>1 DEF Flow

\* No call comes nearer to sending an email, and no email is sent.
LEMMA EmailKept ==
    ASSUME IInv, IInv', NEW f \in Flows, EmailInv(f),
           Sending(f)' \subseteq Sending(f), LinksOf(f)' \subseteq LinksOf(f),
           flows'[f].requests >= flows[f].requests
    PROVE  EmailInv(f)'
<1>1. /\ IsFiniteSet(Sending(f)') /\ IsFiniteSet(Sending(f))
      /\ Cardinality(Sending(f)') <= Cardinality(Sending(f))
  BY FS_Subset DEF EmailInv
<1>2. Cardinality(Sending(f)') \in Nat /\ Cardinality(Sending(f)) \in Nat
  BY <1>1, FS_CardinalityType
<1>3. Cardinality(LinksOf(f)') <= Cardinality(LinksOf(f))
  BY LinksAreFinite, FS_Subset
<1> QED
  BY <1>1, <1>2, <1>3, LinksAreFinite, RequestsAreCounted DEF EmailInv

\* count_magic_link_request counts the email its call is about to send.
LEMMA CountEmail ==
    ASSUME IInv, IInv', EmailsInv, NEW c \in Calls, CountRequest(c)
    PROVE  EmailsInv'
<1>0. /\ UNCHANGED links /\ calls[c].step = "count" /\ calls[c].flow \in Flows
      /\ calls \in [Calls -> Call] /\ flows \in [Flows -> Flow]
  <2>1. CallOk(calls[c]) /\ calls \in [Calls -> Call] /\ flows \in [Flows -> Flow]
    BY DEF IInv, TypeOK
  <2>2. UNCHANGED links /\ calls[c].step = "count"
    BY DEF CountRequest
  <2> QED
    BY <2>1, <2>2 DEF CallOk
<1>1. \/ /\ flows'[calls[c].flow].requests = flows[calls[c].flow].requests + 1
         /\ \A g \in Flows \ {calls[c].flow} : flows'[g] = flows[g]
         /\ calls'[c].flow = calls[c].flow
      \/ flows' = flows /\ calls'[c].step = "idle"
  <2>1. CASE Finish(c) /\ UNCHANGED flows
    BY <1>0, <2>1, IdleOk DEF Finish
  <2>2. CASE Goto(c, "recipient")
    <3>1. \E later : flows' = [flows EXCEPT ![calls[c].flow].requests = @ + 1,
                                            ![calls[c].flow].expires_at = later]
      <4>1. calls'[c].step = "recipient"
        BY <1>0, <2>2 DEF Goto, Call
      <4>2. ~Finish(c)
        BY <1>0, <4>1, IdleOk DEF Finish
      <4> QED
        BY <4>2 DEF CountRequest
    <3>2. PICK later : flows' = [flows EXCEPT ![calls[c].flow].requests = @ + 1,
                                              ![calls[c].flow].expires_at = later]
      BY <3>1
    <3>3. /\ flows'[calls[c].flow].requests = flows[calls[c].flow].requests + 1
          /\ \A g \in Flows \ {calls[c].flow} : flows'[g] = flows[g]
      BY <1>0, <3>2 DEF Flow
    <3>4. calls'[c].flow = calls[c].flow
      BY <1>0, <2>2 DEF Goto, Call
    <3> QED
      BY <3>3, <3>4
  <2> QED
    BY <2>1, <2>2 DEF CountRequest
<1>2. \A d \in Calls \ {c} : calls'[d] = calls[d]
  BY <1>0 DEF CountRequest, Goto, Finish
<1> SUFFICES ASSUME NEW f \in Flows PROVE EmailInv(f)'
  BY DEF EmailsInv
<1>3. EmailInv(f) /\ LinksOf(f)' = LinksOf(f)
  BY <1>0 DEF EmailsInv, LinksOf
<1>4. CASE f = calls[c].flow /\ flows'[f].requests = flows[f].requests + 1
  <2>1. Sending(f)' \subseteq Sending(f) \cup {c}
    BY <1>2 DEF Sending
  <2>2. IsFiniteSet(Sending(f)) /\ c \notin Sending(f)
    BY <1>0, <1>3 DEF EmailInv, Sending
  <2>3. /\ IsFiniteSet(Sending(f) \cup {c})
        /\ Cardinality(Sending(f) \cup {c}) = Cardinality(Sending(f)) + 1
    BY <2>2, FS_AddElement
  <2>4. /\ IsFiniteSet(Sending(f)')
        /\ Cardinality(Sending(f)') <= Cardinality(Sending(f) \cup {c})
    BY <2>1, <2>3, FS_Subset
  <2>5. Cardinality(Sending(f)') \in Nat /\ Cardinality(Sending(f)) \in Nat
    BY <2>2, <2>4, FS_CardinalityType
  <2> QED
    BY <1>3, <1>4, <2>3, <2>4, <2>5, LinksAreFinite, RequestsAreCounted DEF EmailInv
<1>5. CASE ~(f = calls[c].flow /\ flows'[f].requests = flows[f].requests + 1)
  <2>1. flows'[f].requests >= flows[f].requests
    BY <1>0, <1>1, <1>5, RequestsAreCounted
  <2>2. Sending(f)' \subseteq Sending(f)
    BY <1>1, <1>2, <1>5 DEF Sending
  <2> QED
    BY <1>3, <2>1, <2>2, EmailKept
<1> QED
  BY <1>4, <1>5

\* magic_links::create sends the email that was counted.
LEMMA SendEmail ==
    ASSUME IInv, IInv', EmailsInv, NEW c \in Calls, CreateLink(c)
    PROVE  EmailsInv'
<1>n. PICK new : new = Len(links) + 1
  OBVIOUS
<1>0. /\ UNCHANGED flows /\ calls[c].step = "send"
      /\ calls' = [calls EXCEPT ![c] = Idle]
      /\ calls \in [Calls -> Call] /\ links \in Seq(Link)
  <2>1. calls \in [Calls -> Call] /\ links \in Seq(Link)
    BY DEF IInv, TypeOK
  <2> QED
    BY <2>1 DEF CreateLink, Finish
<1>1. /\ DOMAIN links' = DOMAIN links \cup {new}
      /\ \A l \in DOMAIN links : links'[l] = links[l]
      /\ links'[new].flow = calls[c].flow
  BY <1>n, <1>0 DEF CreateLink
<1>2. calls'[c].step = "idle" /\ \A d \in Calls \ {c} : calls'[d] = calls[d]
  BY <1>0, IdleOk
<1> SUFFICES ASSUME NEW f \in Flows PROVE EmailInv(f)'
  BY DEF EmailsInv
<1>3. EmailInv(f) /\ flows'[f] = flows[f]
  BY <1>0 DEF EmailsInv
<1>4. Sending(f)' \subseteq Sending(f) \ {c}
  BY <1>2 DEF Sending
<1>5. CASE f = calls[c].flow
  <2>1. c \in Sending(f) /\ IsFiniteSet(Sending(f))
    BY <1>0, <1>3, <1>5 DEF Sending, EmailInv
  <2>2. /\ IsFiniteSet(Sending(f) \ {c})
        /\ Cardinality(Sending(f) \ {c}) = Cardinality(Sending(f)) - 1
    BY <2>1, FS_RemoveElement
  <2>3. /\ IsFiniteSet(Sending(f)')
        /\ Cardinality(Sending(f)') <= Cardinality(Sending(f) \ {c})
    BY <1>4, <2>2, FS_Subset
  <2>4. Cardinality(Sending(f)') \in Nat /\ Cardinality(Sending(f)) \in Nat
    BY <2>1, <2>3, FS_CardinalityType
  <2>5. LinksOf(f)' \subseteq LinksOf(f) \cup {new}
    BY <1>1 DEF LinksOf
  <2>6. IsFiniteSet(LinksOf(f))
    BY LinksAreFinite
  <2>7. /\ IsFiniteSet(LinksOf(f) \cup {new})
        /\ Cardinality(LinksOf(f) \cup {new}) =
              IF new \in LinksOf(f) THEN Cardinality(LinksOf(f)) ELSE Cardinality(LinksOf(f)) + 1
    BY <2>6, FS_AddElement
  <2>8. Cardinality(LinksOf(f)') <= Cardinality(LinksOf(f) \cup {new})
    BY <2>5, <2>7, FS_Subset
  <2> QED
    BY <1>3, <2>2, <2>3, <2>4, <2>7, <2>8, LinksAreFinite, RequestsAreCounted DEF EmailInv
<1>6. CASE f # calls[c].flow
  <2>1. LinksOf(f)' \subseteq LinksOf(f)
    BY <1>1, <1>6 DEF LinksOf
  <2>2. flows'[f].requests >= flows[f].requests
    BY <1>3, RequestsAreCounted
  <2> QED
    BY <1>3, <1>4, <2>1, <2>2, EmailKept
<1> QED
  BY <1>5, <1>6

\* Where the other statements lead: to the sending of an email only from the search
\* for whom it is for, and to the count of a failure only from the check of a code.
LEMMA CallMoves ==
    ASSUME IInv, NEW c \in Calls, Arrive(c) \/ Handle(c) \/ Abort(c), ~CountRequest(c)
    PROVE  /\ \A d \in Calls \ {c} : calls'[d] = calls[d]
           /\ calls'[c].step \in {"recipient", "send"} =>
                 calls[c].step \in {"recipient", "send"} /\ calls'[c].flow = calls[c].flow
           /\ calls'[c].step = "wrong" => FindCodeCandidate(c)
<1>0. calls \in [Calls -> Call] /\ calls[c] \in Call
  BY RowTypes
<1> DEFINE sending == {"recipient", "send"}
           moved == /\ \A d \in Calls \ {c} : calls'[d] = calls[d]
                    /\ calls'[c].step \in sending =>
                          calls[c].step \in sending /\ calls'[c].flow = calls[c].flow
                    /\ calls'[c].step # "wrong"
<1>1. ASSUME calls' = [calls EXCEPT ![c] = Idle]
      PROVE  moved
  BY <1>0, <1>1, IdleOk
<1>2. CASE CreateLink(c) \/ RecordCodeFailure(c) \/ Complete(c) \/ Abort(c)
  BY <1>1, <1>2 DEF CreateLink, RecordCodeFailure, Complete, Abort, Finish
<1>3. CASE FindRecipient(c)
  <2>1. calls[c].step = "recipient"
    BY <1>3 DEF FindRecipient
  <2>2. \/ calls' = [calls EXCEPT ![c] = Idle]
        \/ calls' = [calls EXCEPT ![c].step = "send"]
        \/ \E u \in Users : calls' = [calls EXCEPT ![c].step = "send", ![c].user = u]
    BY <1>3 DEF FindRecipient, Finish, Goto, AccountOf
  <2>3. ASSUME NEW u \in Users, calls' = [calls EXCEPT ![c].step = "send", ![c].user = u]
        PROVE  moved
    <3>1. calls' = [calls EXCEPT ![c] = [calls[c] EXCEPT !.step = "send", !.user = u]]
      BY <1>0, <2>3
    <3> QED
      BY <1>0, <2>1, <3>1 DEF Call
  <2>4. ASSUME calls' = [calls EXCEPT ![c].step = "send"]
        PROVE  moved
    BY <1>0, <2>1, <2>4 DEF Call
  <2> QED
    BY <1>1, <2>2, <2>3, <2>4
<1>4. CASE Consume(c) \/ ConsumeById(c)
  <2>1. calls' = [calls EXCEPT ![c] = Idle] \/ calls' = [calls EXCEPT ![c].step = "user"]
    BY <1>4 DEF Consume, ConsumeById, Finish, Goto
  <2>2. ASSUME calls' = [calls EXCEPT ![c].step = "user"]
        PROVE  moved
    BY <1>0, <2>2 DEF Call
  <2> QED
    BY <1>1, <2>1, <2>2
<1>5. CASE FindUser(c) \/ CreateUser(c) \/ FindByEmail(c)
  <2>1. \/ calls' = [calls EXCEPT ![c] = Idle]
        \/ calls' = [calls EXCEPT ![c].step = "taken"]
        \/ \E u : calls' = [calls EXCEPT ![c].step = "complete", ![c].user = u]
        \/ \E u : calls' = [calls EXCEPT ![c].step = "complete", ![c].user = u, ![c].creates = TRUE]
    BY <1>5 DEF FindUser, CreateUser, FindByEmail, Finish, Goto
  <2>2. ASSUME NEW u, \/ calls' = [calls EXCEPT ![c].step = "complete", ![c].user = u]
                      \/ calls' = [calls EXCEPT ![c].step = "complete", ![c].user = u, ![c].creates = TRUE]
        PROVE  moved
    <3>1. \/ calls' = [calls EXCEPT ![c] = [calls[c] EXCEPT !.step = "complete", !.user = u]]
          \/ calls' = [calls EXCEPT ![c] =
                          [calls[c] EXCEPT !.step = "complete", !.user = u, !.creates = TRUE]]
      BY <1>0, <2>2
    <3> QED
      BY ZenonT(60), <1>0, <3>1 DEF Call
  <2>3. ASSUME calls' = [calls EXCEPT ![c].step = "taken"]
        PROVE  moved
    BY <1>0, <2>3 DEF Call
  <2> QED
    BY <1>1, <2>1, <2>2, <2>3
<1>6. CASE FindCodeCandidate(c)
  <2>1. \/ calls' = [calls EXCEPT ![c] = Idle]
        \/ \E k : \E step \in {"right", "wrong"} : calls' = [calls EXCEPT ![c].step = step, ![c].link = k]
    <3>1. (IF calls[c].guess = Newest(calls[c].flow) THEN "right" ELSE "wrong") \in {"right", "wrong"}
      OBVIOUS
    <3> QED
      BY <1>6, <3>1 DEF FindCodeCandidate, Finish
  <2>2. ASSUME NEW k, NEW step \in {"right", "wrong"},
               calls' = [calls EXCEPT ![c].step = step, ![c].link = k]
        PROVE  /\ \A d \in Calls \ {c} : calls'[d] = calls[d]
               /\ calls'[c].step \notin sending
    <3>1. calls' = [calls EXCEPT ![c] = [calls[c] EXCEPT !.step = step, !.link = k]]
      BY <1>0, <2>2
    <3> QED
      BY <1>0, <3>1 DEF Call
  <2> QED
    BY <1>1, <1>6, <2>1, <2>2
<1>7. CASE Arrive(c)
  <2>1. \E call : calls' = [calls EXCEPT ![c] = call] /\ call.step \in {"count", "consume", "candidate"}
    <3>1. ASSUME NEW f \in Flows, NEW a \in Addresses, AskForEmail(c, f, a)
          PROVE  calls'[c].step = "count"
      BY <1>0, <3>1 DEF AskForEmail, Idle
    <3>2. ASSUME NEW l \in DOMAIN links, ConfirmLink(c, l)
          PROVE  calls'[c].step = "consume"
      BY <1>0, <3>2 DEF ConfirmLink, Idle
    <3>3. ASSUME NEW f \in Flows, NEW guess \in {0} \cup DOMAIN links, SubmitCode(c, f, guess)
          PROVE  calls'[c].step = "candidate"
      BY <1>0, <3>3 DEF SubmitCode, Idle
    <3>4. calls'[c].step \in {"count", "consume", "candidate"}
      BY <1>7, <3>1, <3>2, <3>3 DEF Arrive
    <3>5. \E call : calls' = [calls EXCEPT ![c] = call]
      BY <1>7 DEF Arrive, AskForEmail, ConfirmLink, SubmitCode
    <3> QED
      BY <1>0, <3>4, <3>5
  <2> QED
    BY <1>0, <2>1
<1> QED
  BY <1>2, <1>3, <1>4, <1>5, <1>6, <1>7 DEF Handle

\* The steps that neither count nor send an email.
LEMMA OtherEmail ==
    ASSUME IInv, IInv', EmailsInv, [Next]_vars,
           \A c \in Calls : ~CountRequest(c) /\ ~CreateLink(c)
    PROVE  EmailsInv'
<1>1. \A f \in Flows : Sending(f)' \subseteq Sending(f)
  <2>1. ASSUME NEW c \in Calls, Arrive(c) \/ Handle(c) \/ Abort(c)
        PROVE  \A f \in Flows : Sending(f)' \subseteq Sending(f)
    BY <2>1, CallMoves DEF Sending
  <2>2. UNCHANGED calls => \A f \in Flows : Sending(f)' \subseteq Sending(f)
    BY DEF Sending
  <2> QED
    BY <2>1, <2>2 DEF Next, CreateFlow, ChangeEmail, DisableUser, Tick, vars
<1>2. \A f \in Flows : LinksOf(f)' \subseteq LinksOf(f)
  <2>1. ASSUME NEW c \in Calls, RecordCodeFailure(c) \/ Complete(c)
        PROVE  \A f \in Flows : LinksOf(f)' \subseteq LinksOf(f)
    <3>1. DOMAIN links' = DOMAIN links /\ \A l \in DOMAIN links : links'[l].flow = links[l].flow
      <4>1. CASE RecordCodeFailure(c)
        BY <4>1, FailureStep DEF Forward
      <4>2. CASE Complete(c)
        BY <4>2, CompleteStep
      <4> QED
        BY <2>1, <4>1, <4>2
    <3> QED
      BY <3>1 DEF LinksOf
  <2>2. UNCHANGED links => \A f \in Flows : LinksOf(f)' \subseteq LinksOf(f)
    BY DEF LinksOf
  <2>3. ASSUME NEW c \in Calls, Arrive(c) \/ Handle(c) \/ Abort(c)
        PROVE  UNCHANGED links \/ RecordCodeFailure(c) \/ Complete(c)
    BY <2>3 DEF Handle, Arrive, AskForEmail, ConfirmLink, SubmitCode, FindRecipient, Consume,
                FindCodeCandidate, ConsumeById, FindUser, CreateUser, FindByEmail, Abort
  <2> QED
    BY <2>1, <2>2, <2>3 DEF Next, CreateFlow, ChangeEmail, DisableUser, Tick, vars
<1>3. \A f \in Flows : flows'[f].requests >= flows[f].requests
  <2> SUFFICES ASSUME NEW f \in Flows PROVE flows'[f].requests >= flows[f].requests
    OBVIOUS
  <2>1. flows[f].requests \in Nat /\ flows'[f].requests \in Nat
    BY RequestsAreCounted
  <2>2. ASSUME NEW c \in Calls, Complete(c)
        PROVE  flows'[f].requests = flows[f].requests
    <3>1. \/ flows' = flows
          \/ flows' = [flows EXCEPT ![calls[c].flow].user = calls[c].user,
                                    ![calls[c].flow].codes = @ + 1]
      BY <2>2 DEF Complete
    <3> DEFINE row == [flows[f] EXCEPT !.user = calls[c].user, !.codes = flows[f].codes + 1]
    <3>2. flows[f] \in Flow /\ flows \in [Flows -> Flow]
      BY RowTypes
    <3>3. row.requests = flows[f].requests
      BY <3>2 DEF Flow
    <3>4. flows'[f] = flows[f] \/ flows'[f] = row
      BY <3>1, <3>2
    <3> QED
      BY <3>3, <3>4
  <2>3. ASSUME NEW g \in Flows, CreateFlow(g)
        PROVE  flows'[f].requests = flows[f].requests
    <3>1. flows[g] = NoFlow
      BY <2>3 DEF CreateFlow, IInv, FlowInv
    <3> QED
      BY <2>3, <3>1, RowTypes DEF CreateFlow, NoFlow
  <2>4. ASSUME NEW c \in Calls, Arrive(c) \/ Handle(c) \/ Abort(c)
        PROVE  UNCHANGED flows \/ Complete(c)
    BY <2>4 DEF Handle, Arrive, AskForEmail, ConfirmLink, SubmitCode, FindRecipient, Consume,
                FindCodeCandidate, RecordCodeFailure, ConsumeById, FindUser, CreateUser, FindByEmail, Abort
  <2>5. UNCHANGED flows => flows'[f].requests >= flows[f].requests
    BY <2>1
  <2>6. UNCHANGED flows \/ (\E c \in Calls : Complete(c)) \/ (\E g \in Flows : CreateFlow(g))
    BY <2>4 DEF Next, ChangeEmail, DisableUser, Tick, vars
  <2> QED
    BY <2>1, <2>2, <2>3, <2>5, <2>6
<1> QED
  BY <1>1, <1>2, <1>3, EmailKept DEF EmailsInv

\* count_magic_link_request: a flow never has more emails than it is allowed, though
\* asking for one is not a transaction.
THEOREM EmailsAreLimited == Spec => []EmailsAreCapped
<1>1. Init => EmailsInv
  <2> SUFFICES ASSUME Init, NEW f \in Flows PROVE EmailInv(f)
    BY DEF EmailsInv
  <2>1. LinksOf(f) = {} /\ Sending(f) = {} /\ flows[f].requests = 0
    BY IdleOk DEF Init, LinksOf, Sending, NoFlow
  <2> QED
    BY <2>1, FS_EmptySet DEF EmailInv
<1>2. IInv /\ IInv' /\ EmailsInv /\ [Next]_vars => EmailsInv'
  BY CountEmail, SendEmail, OtherEmail
<1>3. IInv /\ IInv' /\ EmailsInv => EmailsAreCapped
  <2> SUFFICES ASSUME IInv, IInv', EmailsInv, NEW f \in Flows
               PROVE  Cardinality(LinksOf(f)) + Cardinality(Sending(f)) <= MaxEmailsPerFlow
    BY DEF EmailsAreCapped, Sending
  <2>1. EmailInv(f) /\ FlowInv(f)
    BY DEF EmailsInv, IInv
  <2>2. Cardinality(Sending(f)) \in Nat
    BY <2>1, FS_CardinalityType DEF EmailInv
  <2>3. MaxEmailsPerFlow \in Nat
    BY ConstantsAssumption
  <2> QED
    BY <2>1, <2>2, <2>3, LinksAreFinite, RequestsAreCounted DEF EmailInv, FlowInv
<1> QED
  BY <1>1, <1>2, <1>3, IInvHolds, PTL DEF Spec

-----------------------------------------------------------------------------
(* Guesses: the third layer of the invariant *)

\* A call that is about to count a wrong code found room for it under the
\* address' lock, and has kept the lock.
BudgetInv ==
    \A a \in Addresses :
       /\ DayFailures(a, clock) <= MaxFailuresPerDay
       /\ (\E c \in Calls : calls[c].step = "wrong" /\ calls[c].email = a)
             => DayFailures(a, clock) < MaxFailuresPerDay

\* The wrong codes of an address can be counted.
LEMMA WrongCodesAreFinite ==
    ASSUME IInv, NEW a \in Addresses, NEW now \in Nat
    PROVE  IsFiniteSet(WrongCodes(a, now)) /\ DayFailures(a, now) \in Nat
<1> USE ConstantsAssumption
<1> DEFINE all == (1 .. Len(links)) \X (1 .. MaxFailuresPerCode)
<1>0. links \in Seq(Link) /\ MaxFailuresPerCode \in Int /\ Len(links) \in Int /\ 1 \in Int
  BY RowTypes
<1>1. IsFiniteSet(1 .. Len(links)) /\ IsFiniteSet(1 .. MaxFailuresPerCode)
  BY <1>0, FS_Interval
<1>2. IsFiniteSet(all)
  BY <1>1, FS_Product
<1>3. ASSUME NEW l \in DOMAIN links, NEW n \in 1 .. Failures(l)
      PROVE  l \in 1 .. Len(links) /\ n \in 1 .. MaxFailuresPerCode
  <2>1. Failures(l) \in Nat /\ Failures(l) <= MaxFailuresPerCode
    BY RowTypes DEF Failures, IInv, LinkInv
  <2> QED
    BY <1>0, <1>3, <2>1
<1>4. WrongCodes(a, now) \subseteq all
  BY <1>3 DEF WrongCodes
<1> HIDE DEF all
<1>5. IsFiniteSet(WrongCodes(a, now))
  BY <1>2, <1>4, FS_Subset
<1> QED
  BY <1>5, FS_CardinalityType DEF DayFailures

\* Codes leave the day's budget as time passes.
LEMMA DayMovesOn ==
    ASSUME IInv, NEW a \in Addresses, NEW start \in Nat, NEW now \in Nat, start <= now
    PROVE  DayFailures(a, now) <= DayFailures(a, start)
<1> USE ConstantsAssumption
<1>1. \A l \in DOMAIN links :
         links[l].created_at > now - Day => links[l].created_at > start - Day
  <2>1. \A l \in DOMAIN links : links[l].created_at \in Nat
    BY RowTypes
  <2> QED
    BY <2>1
<1>2. WrongCodes(a, now) \subseteq WrongCodes(a, start)
  BY <1>1 DEF WrongCodes
<1> QED
  BY <1>2, WrongCodesAreFinite, FS_Subset DEF DayFailures

\* After the step a link has no failures, or those it had.
CountsNothing ==
    \A l \in DOMAIN links' :
       \/ links'[l].code_failures = 0
       \/ /\ l \in DOMAIN links
          /\ links'[l].email = links[l].email
          /\ links'[l].created_at = links[l].created_at
          /\ links'[l].code_failures = links[l].code_failures

\* No wrong code is counted: the address' sum does not grow.
LEMMA FewerFailures ==
    ASSUME IInv, IInv', Forward, CountsNothing, NEW a \in Addresses
    PROVE  DayFailures(a, clock)' \in Nat /\ DayFailures(a, clock)' <= DayFailures(a, clock)
<1> USE ConstantsAssumption
<1>0. clock \in Nat /\ clock' \in Nat /\ clock' >= clock
  BY DEF IInv, TypeOK, Instant, Forward
<1>1. WrongCodes(a, clock)' \subseteq WrongCodes(a, clock)
  <2> SUFFICES ASSUME NEW l \in DOMAIN links', links'[l].email = a,
                      links'[l].created_at > clock' - Day,
                      NEW n \in 1 .. links'[l].code_failures
               PROVE  /\ l \in DOMAIN links /\ links[l].email = a
                      /\ links[l].created_at > clock - Day
                      /\ n \in 1 .. links[l].code_failures
    BY DEF WrongCodes, Failures
  <2>1. links'[l].code_failures # 0
    OBVIOUS
  <2>2. /\ l \in DOMAIN links
        /\ links'[l].email = links[l].email
        /\ links'[l].created_at = links[l].created_at
        /\ links'[l].code_failures = links[l].code_failures
    BY <2>1 DEF CountsNothing
  <2>3. links[l].created_at \in Nat
    BY <2>2, RowTypes
  <2> QED
    BY <1>0, <2>2, <2>3
<1>2. IsFiniteSet(WrongCodes(a, clock))
  BY <1>0, WrongCodesAreFinite
<1> QED
  BY <1>1, <1>2, FS_Subset, FS_CardinalityType DEF DayFailures

\* The steps that count no wrong code, and begin to count none.
LEMMA BudgetKept ==
    ASSUME IInv, IInv', BudgetInv, Forward, CountsNothing,
           \A d \in Calls : calls'[d].step = "wrong" => calls'[d] = calls[d]
    PROVE  BudgetInv'
<1> SUFFICES ASSUME NEW a \in Addresses
             PROVE  /\ DayFailures(a, clock)' <= MaxFailuresPerDay
                    /\ (\E c \in Calls : calls'[c].step = "wrong" /\ calls'[c].email = a)
                          => DayFailures(a, clock)' < MaxFailuresPerDay
  BY DEF BudgetInv
<1>1. clock \in Nat /\ MaxFailuresPerDay \in Nat
  BY ConstantsAssumption, RowTypes
<1>2. DayFailures(a, clock) \in Nat
  BY <1>1, WrongCodesAreFinite
<1>3. DayFailures(a, clock)' \in Nat /\ DayFailures(a, clock)' <= DayFailures(a, clock)
  BY FewerFailures
<1>4. (\E c \in Calls : calls'[c].step = "wrong" /\ calls'[c].email = a) =>
         \E c \in Calls : calls[c].step = "wrong" /\ calls[c].email = a
  OBVIOUS
<1> QED
  BY <1>1, <1>2, <1>3, <1>4 DEF BudgetInv

\* find_code_candidate sums the failures under the lock.
LEMMA CandidateBudget ==
    ASSUME IInv, IInv', BudgetInv, NEW c \in Calls, FindCodeCandidate(c)
    PROVE  BudgetInv'
<1>0. /\ UNCHANGED <<clock, links>> /\ calls \in [Calls -> Call]
      /\ calls[c] \in Call /\ CallOk(calls[c]) /\ calls[c].step = "candidate"
      /\ clock \in Nat /\ MaxFailuresPerDay \in Nat
  <2>1. calls \in [Calls -> Call] /\ calls[c] \in Call /\ clock \in Nat /\ MaxFailuresPerDay \in Nat
    BY ConstantsAssumption, RowTypes
  <2>2. UNCHANGED <<clock, links>> /\ calls[c].step = "candidate"
    BY DEF FindCodeCandidate
  <2>3. CallOk(calls[c])
    BY DEF IInv
  <2> QED
    BY <2>1, <2>2, <2>3
<1>1. calls[c].email \in Addresses /\ calls[c].start \in Nat /\ calls[c].start <= clock
  BY <1>0 DEF CallOk, Call, Instant
<1>2. \A d \in Calls \ {c} : calls'[d] = calls[d]
  BY <1>0 DEF FindCodeCandidate, Finish
<1>3. calls'[c].step = "wrong" =>
         calls'[c].email = calls[c].email
            /\ DayFailures(calls[c].email, clock) < MaxFailuresPerDay
  <2>1. CASE Candidate(c, Newest(calls[c].flow))
    <3>1. DayFailures(calls[c].email, calls[c].start) < MaxFailuresPerDay
      BY <2>1 DEF Candidate
    <3>2. /\ DayFailures(calls[c].email, clock) \in Nat
          /\ DayFailures(calls[c].email, calls[c].start) \in Nat
      BY <1>0, <1>1, WrongCodesAreFinite
    <3>3. DayFailures(calls[c].email, clock) <= DayFailures(calls[c].email, calls[c].start)
      BY <1>0, <1>1, DayMovesOn
    <3>4. \E step, l : calls' = [calls EXCEPT ![c].step = step, ![c].link = l]
      BY <2>1 DEF FindCodeCandidate
    <3>5. calls'[c].email = calls[c].email
      BY <1>0, <3>4 DEF Call
    <3> QED
      BY <1>0, <3>1, <3>2, <3>3, <3>5
  <2>2. CASE ~Candidate(c, Newest(calls[c].flow))
    BY <1>0, <2>2, IdleOk DEF FindCodeCandidate, Finish
  <2> QED
    BY <2>1, <2>2
<1> SUFFICES ASSUME NEW a \in Addresses
             PROVE  /\ DayFailures(a, clock)' <= MaxFailuresPerDay
                    /\ (\E d \in Calls : calls'[d].step = "wrong" /\ calls'[d].email = a)
                          => DayFailures(a, clock)' < MaxFailuresPerDay
  BY DEF BudgetInv
<1>4. DayFailures(a, clock)' = DayFailures(a, clock)
  BY <1>0 DEF DayFailures, WrongCodes, Failures
<1> QED
  BY <1>2, <1>3, <1>4 DEF BudgetInv

\* record_code_failure counts one more, for which there was room.
LEMMA FailureBudget ==
    ASSUME IInv, IInv', BudgetInv, NEW c \in Calls, RecordCodeFailure(c)
    PROVE  BudgetInv'
<1> USE ConstantsAssumption
<1>k. PICK k : k = calls[c].link
  OBVIOUS
<1> DEFINE one == <<k, Failures(k) + 1>>
<1>0. /\ clock' = clock /\ clock \in Nat /\ MaxFailuresPerDay \in Nat
      /\ calls \in [Calls -> Call] /\ calls' = [calls EXCEPT ![c] = Idle]
      /\ calls[c].step = "wrong" /\ calls[c].kind = "code"
  <2>1. clock \in Nat /\ MaxFailuresPerDay \in Nat /\ calls \in [Calls -> Call]
    BY RowTypes
  <2>2. clock' = clock /\ calls' = [calls EXCEPT ![c] = Idle] /\ calls[c].step = "wrong"
    BY DEF RecordCodeFailure, Finish
  <2>3. calls[c].kind = "code"
    BY <2>2 DEF IInv, CallOk
  <2> QED
    BY <2>1, <2>2, <2>3
<1>1. /\ DOMAIN links' = DOMAIN links /\ k \in DOMAIN links
      /\ \A l \in DOMAIN links \ {k} : links'[l] = links[l]
      /\ links'[k].email = calls[c].email /\ links[k].email = calls[c].email
      /\ links'[k].created_at = links[k].created_at
      /\ links[k].code_failures \in Nat
      /\ links'[k].code_failures = links[k].code_failures + 1
  BY <1>k, FailureStep, RowTypes
<1> SUFFICES ASSUME NEW a \in Addresses
             PROVE  /\ DayFailures(a, clock)' <= MaxFailuresPerDay
                    /\ (\E d \in Calls : calls'[d].step = "wrong" /\ calls'[d].email = a)
                          => DayFailures(a, clock)' < MaxFailuresPerDay
  BY DEF BudgetInv
<1>2. IsFiniteSet(WrongCodes(a, clock)) /\ DayFailures(a, clock) \in Nat
  BY <1>0, WrongCodesAreFinite
<1>3. CASE a = calls[c].email
  <2>1. ASSUME NEW l \in DOMAIN links', links'[l].email = a,
               links'[l].created_at > clock' - Day,
               NEW n \in 1 .. links'[l].code_failures
        PROVE  <<l, n>> \in WrongCodes(a, clock) \cup {one}
    <3>1. l \in DOMAIN links /\ links[l].email = a /\ links[l].created_at > clock - Day
      BY <1>0, <1>1, <1>3, <2>1
    <3>2. CASE n \in 1 .. links[l].code_failures
      BY <3>1, <3>2 DEF WrongCodes, Failures
    <3>3. CASE n \notin 1 .. links[l].code_failures
      <4>1. l = k
        BY <1>1, <3>1, <3>3
      <4>2. n = links[k].code_failures + 1
        BY <1>1, <3>3, <4>1
      <4> QED
        BY <4>1, <4>2 DEF Failures
    <3> QED
      BY <3>2, <3>3
  <2>2. WrongCodes(a, clock)' \subseteq WrongCodes(a, clock) \cup {one}
    BY <2>1 DEF WrongCodes, Failures
  <2> HIDE DEF one
  <2>3. /\ IsFiniteSet(WrongCodes(a, clock) \cup {one})
        /\ Cardinality(WrongCodes(a, clock) \cup {one}) \in Nat
        /\ Cardinality(WrongCodes(a, clock) \cup {one}) <= DayFailures(a, clock) + 1
    <3>1. /\ IsFiniteSet(WrongCodes(a, clock) \cup {one})
          /\ Cardinality(WrongCodes(a, clock) \cup {one}) =
                IF one \in WrongCodes(a, clock) THEN Cardinality(WrongCodes(a, clock))
                ELSE Cardinality(WrongCodes(a, clock)) + 1
      BY <1>2, FS_AddElement
    <3> QED
      BY <1>2, <3>1 DEF DayFailures
  <2>4. DayFailures(a, clock)' \in Nat /\ DayFailures(a, clock)' <= DayFailures(a, clock) + 1
    <3>1. /\ IsFiniteSet(WrongCodes(a, clock)')
          /\ Cardinality(WrongCodes(a, clock)') <= Cardinality(WrongCodes(a, clock) \cup {one})
      BY <2>2, <2>3, FS_Subset
    <3>2. Cardinality(WrongCodes(a, clock)') \in Nat
      BY <3>1, FS_CardinalityType
    <3> QED
      BY <1>2, <2>3, <3>1, <3>2 DEF DayFailures
  <2>5. DayFailures(a, clock) < MaxFailuresPerDay
    BY <1>0, <1>3 DEF BudgetInv
  <2>6. ~\E d \in Calls : calls'[d].step = "wrong" /\ calls'[d].email = a
    <3> SUFFICES ASSUME NEW d \in Calls, calls'[d].step = "wrong", calls'[d].email = a
                 PROVE  FALSE
      OBVIOUS
    <3>1. d # c /\ calls[d].step = "wrong" /\ calls[d].email = a
      BY <1>0, IdleOk
    <3>2. calls[d].kind = "code"
      BY <3>1 DEF IInv, CallOk
    <3>3. c \in Checking /\ d \in Checking
      BY <1>0, <3>1, <3>2 DEF Checking
    <3> QED
      BY <1>3, <3>1, <3>3 DEF IInv, LockInv
  <2> QED
    BY <1>0, <1>2, <2>4, <2>5, <2>6
<1>4. CASE a # calls[c].email
  <2>1. WrongCodes(a, clock)' = WrongCodes(a, clock)
    BY <1>0, <1>1, <1>4 DEF WrongCodes, Failures
  <2>2. DayFailures(a, clock)' = DayFailures(a, clock)
    BY <2>1 DEF DayFailures
  <2>3. (\E d \in Calls : calls'[d].step = "wrong" /\ calls'[d].email = a) =>
           \E d \in Calls : calls[d].step = "wrong" /\ calls[d].email = a
    BY <1>0, IdleOk
  <2> QED
    BY <2>2, <2>3 DEF BudgetInv
<1> QED
  BY <1>3, <1>4

\* The other steps count no wrong code.
LEMMA OtherBudget ==
    ASSUME IInv, IInv', BudgetInv, [Next]_vars,
           \A c \in Calls : ~FindCodeCandidate(c) /\ ~RecordCodeFailure(c)
    PROVE  BudgetInv'
<1>1. Forward
  BY NextKeepsIInv
<1>2. \A d \in Calls : calls'[d].step = "wrong" => calls'[d] = calls[d]
  <2>1. ASSUME NEW c \in Calls, Arrive(c) \/ Handle(c) \/ Abort(c)
        PROVE  \A d \in Calls : calls'[d].step = "wrong" => calls'[d] = calls[d]
    <3>1. CASE CountRequest(c)
      <4>1. calls \in [Calls -> Call]
        BY RowTypes
      <4>2. calls' = [calls EXCEPT ![c] = Idle] \/ calls' = [calls EXCEPT ![c].step = "recipient"]
        BY <3>1 DEF CountRequest, Finish, Goto
      <4> QED
        BY <4>1, <4>2, IdleOk DEF Call
    <3>2. CASE ~CountRequest(c)
      BY <2>1, <3>2, CallMoves
    <3> QED
      BY <3>1, <3>2
  <2>2. UNCHANGED calls \/ \E c \in Calls : Arrive(c) \/ Handle(c) \/ Abort(c)
    BY DEF Next, CreateFlow, ChangeEmail, DisableUser, Tick, vars
  <2> QED
    BY <2>1, <2>2
<1>3. CountsNothing
  <2>1. ASSUME NEW c \in Calls, CreateLink(c)
        PROVE  CountsNothing
    <3>1. links \in Seq(Link)
      BY RowTypes
    <3>2. PICK row : row.code_failures = 0 /\ links' = Append(links, row)
      BY <2>1 DEF CreateLink
    <3>3. \A l \in DOMAIN links' :
             IF l = Len(links) + 1 THEN links'[l] = row
             ELSE l \in DOMAIN links /\ links'[l] = links[l]
      BY <3>1, <3>2
    <3> QED
      BY <3>2, <3>3 DEF CountsNothing
  <2>2. ASSUME NEW c \in Calls, Complete(c)
        PROVE  CountsNothing
    BY <2>2, CompleteStep DEF CountsNothing
  <2>3. UNCHANGED links => CountsNothing
    BY DEF CountsNothing
  <2>4. \/ UNCHANGED links
        \/ \E c \in Calls : CreateLink(c) \/ Complete(c)
    BY DEF Next, Handle, Arrive, AskForEmail, ConfirmLink, SubmitCode, CountRequest, FindRecipient,
           Consume, ConsumeById, FindUser, CreateUser, FindByEmail, Abort, CreateFlow, ChangeEmail,
           DisableUser, Tick, vars
  <2> QED
    BY <2>1, <2>2, <2>3, <2>4
<1> QED
  BY <1>1, <1>2, <1>3, BudgetKept

\* find_code_candidate's lock makes the guesses on an address take turns: across
\* flows and emails, and whatever runs at once, no more wrong codes are counted than
\* an email and a day allow.
THEOREM GuessesAreLimited == Spec => []GuessBudget
<1>1. Init => BudgetInv
  <2> SUFFICES ASSUME Init PROVE BudgetInv
    OBVIOUS
  <2>1. links = << >> /\ \A c \in Calls : calls[c].step # "wrong"
    BY IdleOk DEF Init
  <2>2. \A a \in Addresses : WrongCodes(a, clock) = {}
    BY <2>1 DEF WrongCodes
  <2>3. \A a \in Addresses : DayFailures(a, clock) = 0
    BY <2>2, FS_EmptySet DEF DayFailures
  <2> QED
    BY <2>1, <2>3, ConstantsAssumption DEF BudgetInv
<1>2. IInv /\ IInv' /\ BudgetInv /\ [Next]_vars => BudgetInv'
  BY CandidateBudget, FailureBudget, OtherBudget
<1>3. IInv /\ BudgetInv => GuessBudget
  BY DEF IInv, LinkInv, BudgetInv, GuessBudget
<1> QED
  BY <1>1, <1>2, <1>3, IInvHolds, PTL DEF Spec
=============================================================================
