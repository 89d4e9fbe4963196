-------------------------- MODULE SdkSessionProofs --------------------------
(***************************************************************************)
(* Proofs about module SdkSession: for any number of tabs, calls, sessions *)
(* and tokens and any grace period, when a tab may make bauth see a theft, *)
(* empty the store or call onUnauthorized.                                 *)
(***************************************************************************)
EXTENDS SdkSession, TLAPS

-----------------------------------------------------------------------------
(* The invariant *)

\* A successor is newer than its parent and of the same session.
RowsInv ==
    \A t \in DOMAIN tokens :
        /\ tokens[t].parent # None =>
              /\ tokens[t].parent \in DOMAIN tokens
              /\ tokens[t].parent < t
              /\ SessionOf(tokens[t].parent) = SessionOf(t)
        /\ tokens[t].rotated_at # None => tokens[t].rotated_at <= clock

\* The store holds a token that bauth issued.
StoreInv == store # None => store.token \in DOMAIN tokens

\* A call that will send or revoke what the store held at first has it, belongs to
\* a tab unless its caller gave up, and has an answer only until it is told its
\* callers.
CallInv(call) ==
    /\ call.step \in {"joined", "ask", "reply"} /\ ~call.retrying
           /\ call.kind \in {"fetcher", "middleware"} => call.had # None
    /\ call.step = "revoke" => call.had # None /\ call.had.token \in DOMAIN tokens
    /\ call.step \notin {"idle", "revoke"} =>
           \/ call.tab \in Tabs
           \/ call.step \in {"ask", "reply"} /\ call.kind = "refresh" /\ ~call.retrying
    /\ call.step # "reply" => call.answer = None

\* A request to bauth carries a token that bauth issued, and a refusal is of a
\* session that is over.
AskInv(c) ==
    InFlight(c) =>
        /\ calls[c].with \in DOMAIN tokens
        /\ calls[c].since <= clock
        /\ calls[c].step = "reply" /\ calls[c].answer = None => SessionOf(calls[c].with) \in over

\* bauth has answered with new tokens.
Answered(c) == calls[c].step = "reply" /\ calls[c].answer # None

\* Nobody has used the tokens of an answer that is on its way.
AnswerInv(c) ==
    Answered(c) =>
        /\ calls[c].answer \in DOMAIN tokens
        /\ tokens[calls[c].answer].parent = calls[c].with
        /\ tokens[calls[c].answer].rotated_at = None
        /\ Children(calls[c].answer) = {}
        /\ store # None => store.token # calls[c].answer
        /\ \A d \in Calls : InFlight(d) => calls[d].with # calls[c].answer
        /\ \A d \in Calls : Answered(d) /\ calls[d].answer = calls[c].answer => d = c

\* Neither replaced nor a token whose successor was used.
Clean(t) == ~tokens[t].superseded /\ ~UsedSuccessor(t)

\* As long as refreshes went one at a time, however slow and whatever got lost, the
\* tokens that may be presented are clean.
AloneInv ==
    ~history.overlap =>
        /\ \A c, d \in Calls : InFlight(c) /\ InFlight(d) => c = d
        /\ store # None => Clean(store.token)
        /\ \A c \in Calls :
              /\ InFlight(c) /\ store # None /\ store.token # calls[c].with =>
                     SessionOf(store.token) # SessionOf(calls[c].with)
              /\ calls[c].step = "ask" => Clean(calls[c].with)
              /\ Answered(c) => ~tokens[calls[c].answer].superseded

\* Whoever rotated the token in the store is about to replace it there.
Rotating(c, t) == Answered(c) /\ calls[c].with = t /\ calls[c].since <= tokens[t].rotated_at

\* As long as every refresh took at most half the grace period and no answer got
\* lost, however many overlapped, no token is presented past its grace period.
PromptInv ==
    ~history.trouble =>
        /\ \A t \in DOMAIN tokens : ~tokens[t].superseded
        /\ store # None /\ tokens[store.token].rotated_at # None =>
               \E c \in Calls : Rotating(c, store.token)
        /\ \A c \in Calls : InFlight(c) =>
               /\ 2 * (clock - calls[c].since) <= Grace
               /\ calls[c].step = "ask" /\ tokens[calls[c].with].rotated_at # None =>
                      2 * (calls[c].since - tokens[calls[c].with].rotated_at) <= Grace

IInv ==
    /\ TypeOK
    /\ RowsInv
    /\ StoreInv
    /\ \A c \in Calls : CallInv(calls[c]) /\ AskInv(c) /\ AnswerInv(c)
    /\ AloneInv
    /\ PromptInv

-----------------------------------------------------------------------------
(* What a call does when a refresh settles *)

\* Tokens, undefined and an error are three things.
LEMMA Distinct ==
  /\ None \notin Token /\ Threw \notin Token /\ Threw # None
  /\ None \notin Stored
  /\ None \notin Instant /\ None \notin Tabs
  /\ Grace \in Nat /\ MaxTokens \in Nat /\ MaxClock \in Nat /\ AccessTTL \in Nat
  /\ 0 \in Instant
  /\ Token \subseteq Nat /\ Instant \subseteq Nat
<1>1. None \notin Nat /\ Threw \notin Nat /\ None \notin Tabs
  BY ConstantsAssumption
<1>2. Grace \in Nat /\ MaxTokens \in Nat /\ MaxClock \in Nat /\ AccessTTL \in Nat
  BY ConstantsAssumption
<1>3. Token \subseteq Nat /\ Instant \subseteq Nat /\ 0 \in Instant
  BY <1>2 DEF Token, Instant
<1>4. None \notin Stored
  <2>1. Stored \subseteq [token : Nat, expires : Nat]
    BY <1>3 DEF Stored
  <2> QED
    BY <2>1, ConstantsAssumption
<1> QED
  BY <1>1, <1>2, <1>3, <1>4, ConstantsAssumption

\* A call that is not in progress.
LEMMA IdleCall == Idle \in Call /\ Idle.step = "idle" /\ Idle.answer = None
BY Distinct DEF Idle, Call, Steps

\* Send makes a call that sends the app's request.
LEMMA SendCall ==
  ASSUME NEW call \in Call, NEW token \in Token \cup {None}
  PROVE  /\ Send(call, token) \in Call
         /\ Send(call, token).step = "send"
         /\ Send(call, token).answer = None
         /\ Send(call, token).tab = call.tab
<1>1. call.kind \in Kinds \cup {None} /\ call.tab \in Tabs \cup {None}
  BY DEF Call
<1> QED
  BY <1>1, Distinct DEF Send, Idle, Call, Steps

\* After a 401: replay with the token, report an ended session, or give up.
LEMMA RetryCall ==
  ASSUME NEW call \in Call, NEW value \in Token \cup {None, Threw}
  PROVE  /\ Retry(call, value) \in Call
         /\ Retry(call, value).step \in {"idle", "replay", "report"}
         /\ Retry(call, value).step = "report" => value = None
         /\ call.answer = None => Retry(call, value).answer = None
         /\ Retry(call, value).step # "idle" => Retry(call, value).tab = call.tab
<1>1. CASE value \in Token
  <2>1. Retry(call, value) = [call EXCEPT !.step = "replay", !.sent = value]
    BY <1>1, Distinct DEF Retry
  <2> QED
    BY <2>1, <1>1 DEF Call, Steps
<1>2. CASE value = None
  <2>1. Retry(call, value) = [call EXCEPT !.step = "report"]
    BY <1>2, Distinct DEF Retry
  <2> QED
    BY <2>1, <1>2 DEF Call, Steps
<1>3. CASE value = Threw
  <2>1. Retry(call, value) = Idle
    BY <1>3, Distinct DEF Retry
  <2> QED
    BY <2>1, IdleCall
<1> QED
  BY <1>1, <1>2, <1>3

\* Whatever the refresh brought, the call is in flight no more, and it reports only
\* an ended session.
LEMMA ContinueCall ==
  ASSUME NEW call \in Call, NEW value \in Token \cup {None, Threw},
         call.answer = None,
         ~call.retrying /\ call.kind \in {"fetcher", "middleware"} => call.had # None
  PROVE  /\ Continue(call, value) \in Call
         /\ Continue(call, value).step \in {"idle", "send", "replay", "report"}
         /\ Continue(call, value).step = "report" => value = None
         /\ Continue(call, value).answer = None
         /\ Continue(call, value).step # "idle" => Continue(call, value).tab = call.tab
         /\ ~call.retrying /\ call.kind = "refresh" => Continue(call, value).step = "idle"
<1>1. CASE call.retrying
  <2>1. Continue(call, value) = Retry(call, value)
    BY <1>1 DEF Continue
  <2> QED
    BY <1>1, <2>1, RetryCall
<1>2. CASE ~call.retrying /\ call.kind # "refresh" /\ value \in Token
  <2>1. Continue(call, value) = Send(call, value)
    BY <1>2 DEF Continue
  <2> QED
    BY <2>1, <1>2, SendCall
<1>3. CASE ~call.retrying /\ call.kind # "refresh" /\ value \notin Token /\ WorthSending(call, value)
  <2>1. Continue(call, value) = Send(call, call.had.token)
    BY <1>3 DEF Continue
  <2>2. call.kind \in {"fetcher", "middleware"}
    BY <1>3 DEF WorthSending
  <2>3. call.had \in Stored \cup {None} /\ call.had # None
    BY <1>3, <2>2 DEF Call
  <2>4. call.had.token \in Token
    BY <2>3 DEF Stored
  <2> QED
    BY <1>3, <2>1, <2>4, SendCall
<1>4. CASE ~call.retrying /\ (call.kind = "refresh" \/ (value \notin Token /\ ~WorthSending(call, value)))
  <2>1. Continue(call, value) = Idle
    BY <1>4 DEF Continue
  <2> QED
    BY <2>1, IdleCall
<1> QED
  BY <1>1, <1>2, <1>3, <1>4

\* The caller and those who share its refresh go on; nobody else moves.
LEMMA SettledCalls ==
  ASSUME TypeOK, \A d \in Calls : CallInv(calls[d]),
         NEW c \in Calls, InFlight(c), NEW value \in Token \cup {None, Threw}
  PROVE  /\ Settled(c, value) \in [Calls -> Call]
         /\ \A d \in Calls :
              /\ CallInv(Settled(c, value)[d])
              /\ InFlight(d) /\ d # c => Settled(c, value)[d] = calls[d]
              /\ \/ Settled(c, value)[d] = calls[d] /\ d # c
                 \/ /\ Settled(c, value)[d].step \in {"idle", "send", "replay", "report"}
                    /\ Settled(c, value)[d].step = "report" => value = None
<1> DEFINE Shares(d) == d = c \/ (calls[d].step = "joined" /\ calls[d].owner = c)
           Told(d) == [calls[d] EXCEPT !.with = None, !.since = 0, !.answer = None, !.owner = None]
<1>1. ASSUME NEW d \in Calls
      PROVE  Settled(c, value)[d] = IF Shares(d) THEN Continue(Told(d), value) ELSE calls[d]
  BY DEF Settled
<1>2. ASSUME NEW d \in Calls, Shares(d)
      PROVE  /\ Continue(Told(d), value) \in Call
             /\ Continue(Told(d), value).step \in {"idle", "send", "replay", "report"}
             /\ Continue(Told(d), value).step = "report" => value = None
             /\ Continue(Told(d), value).answer = None
             /\ Continue(Told(d), value).step # "idle" => Continue(Told(d), value).tab \in Tabs
  <2>1. calls[d] \in Call
    BY DEF TypeOK
  <2>2. /\ Told(d) \in Call
        /\ Told(d).answer = None
        /\ Told(d).tab = calls[d].tab
        /\ Told(d).retrying = calls[d].retrying
        /\ Told(d).kind = calls[d].kind
        /\ Told(d).had = calls[d].had
    BY <2>1, Distinct DEF Call
  <2>3. calls[d].step \in {"joined", "ask", "reply"}
    BY <1>2 DEF InFlight
  <2>4. /\ calls[d].tab \in Tabs \/ (calls[d].kind = "refresh" /\ ~calls[d].retrying)
        /\ ~calls[d].retrying /\ calls[d].kind \in {"fetcher", "middleware"} => calls[d].had # None
    BY <2>3 DEF CallInv
  <2> HIDE DEF Told
  <2> QED
    BY <2>2, <2>4, ContinueCall
<1>3. ASSUME NEW d \in Calls PROVE Settled(c, value)[d] \in Call
  BY <1>1, <1>2 DEF TypeOK
<1>4. Settled(c, value) \in [Calls -> Call]
  BY <1>3 DEF Settled
<1>5. ASSUME NEW d \in Calls PROVE CallInv(Settled(c, value)[d])
  <2>1. CASE Shares(d)
    <3> HIDE DEF Shares, Told
    <3> QED
      BY <2>1, <1>1, <1>2 DEF CallInv
  <2>2. CASE ~Shares(d)
    BY <2>2, <1>1
  <2> QED
    BY <2>1, <2>2
<1>6. ASSUME NEW d \in Calls, InFlight(d), d # c PROVE Settled(c, value)[d] = calls[d]
  BY <1>1, <1>6 DEF InFlight
<1>7. ASSUME NEW d \in Calls
      PROVE  \/ Settled(c, value)[d] = calls[d] /\ d # c
             \/ /\ Settled(c, value)[d].step \in {"idle", "send", "replay", "report"}
                /\ Settled(c, value)[d].step = "report" => value = None
  BY <1>1, <1>2
<1> QED
  BY <1>4, <1>5, <1>6, <1>7

-----------------------------------------------------------------------------
(* The steps *)

\* No tokens, and no call in progress.
LEMMA InitEstablishesIInv == Init => IInv
<1> SUFFICES ASSUME Init PROVE IInv
  OBVIOUS
<1>1. /\ clock = 0 /\ store = None /\ tokens = << >> /\ over = {}
      /\ history = [trouble |-> FALSE, overlap |-> FALSE]
      /\ \A c \in Calls : calls[c] = Idle
  BY DEF Init
<1>2. TypeOK
  <2>1. calls \in [Calls -> Call]
    BY IdleCall DEF Init
  <2>2. clock \in Instant
    BY <1>1, Distinct
  <2>3. tokens \in Seq(Row) /\ Len(tokens) <= MaxTokens
    BY <1>1, Distinct
  <2>4. history \in History
    BY <1>1 DEF History
  <2> QED
    BY <2>1, <2>2, <2>3, <2>4, <1>1 DEF TypeOK
<1>3. DOMAIN tokens = {}
  BY <1>1
<1>4. \A c \in Calls : calls[c].step = "idle" /\ calls[c].answer = None
  BY <1>1, IdleCall
<1>5. \A c \in Calls : ~InFlight(c) /\ ~Answered(c)
  BY <1>4 DEF InFlight, Answered
<1>6. RowsInv /\ StoreInv
  BY <1>1, <1>3 DEF RowsInv, StoreInv
<1>7. \A c \in Calls : CallInv(calls[c]) /\ AskInv(c) /\ AnswerInv(c)
  BY <1>4, <1>5 DEF CallInv, AskInv, AnswerInv
<1>8. AloneInv
  BY <1>1, <1>4, <1>5 DEF AloneInv
<1>9. PromptInv
  BY <1>1, <1>3, <1>5 DEF PromptInv
<1> QED
  BY <1>2, <1>6, <1>7, <1>8, <1>9 DEF IInv

\* A step that starts no request to bauth and ends one, if any, without writing tokens.
LEMMA CallsMoveOn ==
  ASSUME IInv, TypeOK', UNCHANGED <<clock, tokens>>,
         store' = store \/ store' = None,
         over \subseteq over',
         history.overlap => history'.overlap,
         history.trouble => history'.trouble,
         \A d \in Calls : CallInv(calls'[d]),
         \A d \in Calls : calls'[d].step \in {"ask", "reply"} => calls'[d] = calls[d],
         \A d \in Calls : Answered(d) /\ calls'[d] # calls[d] => history'.trouble \/ store' = None
  PROVE  IInv'
<1>0. /\ RowsInv /\ StoreInv /\ AloneInv /\ PromptInv
      /\ \A c \in Calls : CallInv(calls[c]) /\ AskInv(c) /\ AnswerInv(c)
  BY DEF IInv
<1>1. ASSUME NEW d \in Calls, InFlight(d)'
      PROVE  calls'[d] = calls[d] /\ InFlight(d)
  BY <1>1 DEF InFlight
<1>2. ASSUME NEW d \in Calls, Answered(d)'
      PROVE  calls'[d] = calls[d] /\ Answered(d)
  BY <1>2 DEF Answered
<1>3. RowsInv' /\ StoreInv'
  BY <1>0 DEF RowsInv, StoreInv, SessionOf
<1>4. ASSUME NEW d \in Calls PROVE CallInv(calls[d])'
  BY DEF CallInv
<1>5. ASSUME NEW d \in Calls PROVE AskInv(d)'
  BY <1>0, <1>1 DEF AskInv, SessionOf
<1>6. ASSUME NEW d \in Calls PROVE AnswerInv(d)'
  <2> SUFFICES ASSUME Answered(d)' PROVE AnswerInv(d)'
    BY DEF AnswerInv
  <2>1. calls'[d] = calls[d] /\ Answered(d) /\ AnswerInv(d)
    BY <1>0, <1>2
  <2>2. Children(calls[d].answer)' = Children(calls[d].answer)
    BY <2>1 DEF Children
  <2>3. \A e \in Calls : InFlight(e)' => calls'[e].with # calls[d].answer
    BY <2>1, <1>1 DEF AnswerInv
  <2>4. \A e \in Calls : Answered(e)' /\ calls'[e].answer = calls[d].answer => e = d
    BY <2>1, <1>2 DEF AnswerInv
  <2> QED
    BY <2>1, <2>2, <2>3, <2>4 DEF AnswerInv
<1>7. \A t : Clean(t)' <=> Clean(t)
  BY DEF Clean, UsedSuccessor, Children
<1>8. AloneInv'
  <2> SUFFICES ASSUME ~history'.overlap PROVE AloneInv'
    BY DEF AloneInv
  <2>1. ~history.overlap
    OBVIOUS
  <2>2. \A c, d \in Calls : InFlight(c)' /\ InFlight(d)' => c = d
    BY <2>1, <1>0, <1>1 DEF AloneInv
  <2>3. store' # None => Clean(store.token)'
    BY <2>1, <1>0, <1>7 DEF AloneInv
  <2>4. ASSUME NEW c \in Calls
        PROVE  /\ InFlight(c)' /\ store' # None /\ store'.token # calls'[c].with =>
                    SessionOf(store.token)' # SessionOf(calls[c].with)'
               /\ calls'[c].step = "ask" => Clean(calls[c].with)'
               /\ Answered(c)' => ~tokens'[calls'[c].answer].superseded
    <3>1. InFlight(c)' /\ store' # None /\ store'.token # calls'[c].with =>
                    SessionOf(store.token)' # SessionOf(calls[c].with)'
      BY <2>1, <1>0, <1>1 DEF AloneInv, SessionOf
    <3>2. ASSUME calls'[c].step = "ask" PROVE Clean(calls[c].with)'
      <4>1. calls'[c] = calls[c]
        BY <3>2
      <4>2. Clean(calls[c].with)
        BY <2>1, <3>2, <4>1, <1>0 DEF AloneInv
      <4> QED
        BY <4>1, <4>2 DEF Clean, UsedSuccessor, Children
    <3>3. Answered(c)' => ~tokens'[calls'[c].answer].superseded
      BY <2>1, <1>0, <1>2 DEF AloneInv
    <3> QED
      BY <3>1, <3>2, <3>3
  <2> QED
    BY <2>2, <2>3, <2>4 DEF AloneInv
<1>9. PromptInv'
  <2> SUFFICES ASSUME ~history'.trouble PROVE PromptInv'
    BY DEF PromptInv
  <2>1. ~history.trouble
    OBVIOUS
  <2>2. \A t \in DOMAIN tokens' : ~tokens'[t].superseded
    BY <2>1, <1>0 DEF PromptInv
  <2>3. ASSUME store' # None, tokens'[store'.token].rotated_at # None
        PROVE  \E c \in Calls : Rotating(c, store.token)'
    <3>1. store' = store
      BY <2>3
    <3>2. PICK c \in Calls : Rotating(c, store.token)
      BY <2>1, <2>3, <3>1, <1>0 DEF PromptInv
    <3>3. calls'[c] = calls[c]
      BY <3>2, <2>3 DEF Rotating
    <3> QED
      BY <3>1, <3>2, <3>3 DEF Rotating, Answered
  <2>4. ASSUME NEW c \in Calls, InFlight(c)'
        PROVE  /\ 2 * (clock' - calls'[c].since) <= Grace
               /\ calls'[c].step = "ask" /\ tokens'[calls'[c].with].rotated_at # None =>
                      2 * (calls'[c].since - tokens'[calls'[c].with].rotated_at) <= Grace
    BY <2>1, <2>4, <1>0, <1>1 DEF PromptInv
  <2> QED
    BY <2>2, <2>3, <2>4 DEF PromptInv
<1> QED
  BY <1>3, <1>4, <1>5, <1>6, <1>8, <1>9 DEF IInv

\* A step that does not concern the calls, the store or the rows.
LEMMA NoCallMoves ==
  ASSUME IInv, UNCHANGED <<clock, store, calls, tokens, history>>,
         over \subseteq over', over' \subseteq Sessions
  PROVE  IInv'
<1>1. TypeOK'
  BY DEF IInv, TypeOK
<1> QED
  BY <1>1, CallsMoveOn DEF IInv

\* A tab reads the store and asks bauth.
LEMMA AskStarts ==
  ASSUME IInv, NEW c \in Calls, NEW call \in Call,
         call.tab \in Tabs, call.answer = None, ~InFlight(c),
         ~call.retrying /\ call.kind \in {"fetcher", "middleware"} => call.had # None,
         store # None, Refreshing(call.tab) = {},
         calls' = [calls EXCEPT ![c] =
                     [call EXCEPT !.step = "ask", !.with = store.token, !.since = clock]],
         history' = [history EXCEPT !.overlap = @ \/
                        \E d \in Calls : InFlight(d) /\ calls[d].tab # call.tab],
         UNCHANGED <<clock, store, tokens, over>>
  PROVE  IInv' /\ calls'[c].step = "ask" /\ \A d \in Calls \ {c} : calls'[d] = calls[d]
<1>0. /\ TypeOK /\ RowsInv /\ StoreInv /\ AloneInv /\ PromptInv
      /\ \A d \in Calls : CallInv(calls[d]) /\ AskInv(d) /\ AnswerInv(d)
  BY DEF IInv
<1>1. /\ store \in Stored /\ store.token \in Token /\ store.token \in DOMAIN tokens
      /\ clock \in Instant /\ clock \in Nat
      /\ history \in History
      /\ calls \in [Calls -> Call]
  <2>1. store \in Stored
    BY <1>0 DEF TypeOK
  <2> QED
    BY <2>1, <1>0, Distinct DEF TypeOK, Stored, StoreInv
<1> DEFINE new == [call EXCEPT !.step = "ask", !.with = store.token, !.since = clock]
<1>2. /\ new \in Call
      /\ new.step = "ask" /\ new.with = store.token /\ new.since = clock
      /\ new.answer = None /\ new.tab = call.tab /\ new.had = call.had
      /\ new.retrying = call.retrying /\ new.kind = call.kind
  BY ZenonT(60), <1>1 DEF Call, Steps
<1>3. calls' = [calls EXCEPT ![c] = new]
  OBVIOUS
<1> HIDE DEF new
<1>4. calls'[c] = new /\ \A d \in Calls \ {c} : calls'[d] = calls[d]
  BY <1>1, <1>3
<1>5. /\ InFlight(c)' /\ ~Answered(c) /\ ~Answered(c)'
      /\ \A d \in Calls \ {c} : (InFlight(d)' <=> InFlight(d)) /\ (Answered(d)' <=> Answered(d))
  BY <1>2, <1>4 DEF InFlight, Answered
<1>6. /\ history'.trouble = history.trouble
      /\ ~history'.overlap => ~history.overlap /\ \A d \in Calls : ~InFlight(d)
      /\ history' \in History
  <2> DEFINE across == \E d \in Calls : InFlight(d) /\ calls[d].tab # call.tab
  <2>1. \A d \in Calls : InFlight(d) => calls[d].tab # call.tab
    BY DEF Refreshing
  <2>2. ~across => \A d \in Calls : ~InFlight(d)
    BY <2>1
  <2>3. across \in BOOLEAN
    OBVIOUS
  <2> HIDE DEF across
  <2>4. history' = [history EXCEPT !.overlap = history.overlap \/ across]
    BY DEF across
  <2>5. history.overlap \in BOOLEAN /\ history.trouble \in BOOLEAN
    BY <1>1 DEF History
  <2>6. history'.trouble = history.trouble /\ history'.overlap = (history.overlap \/ across)
    BY <2>4, <1>1 DEF History
  <2>7. history' \in History
    BY <2>3, <2>4, <2>5, <1>1 DEF History
  <2> QED
    BY <2>2, <2>6, <2>7
<1>7. TypeOK'
  <2>1. calls' \in [Calls -> Call]
    BY <1>1, <1>2, <1>3
  <2> QED
    BY <2>1, <1>0, <1>6 DEF TypeOK
<1>8. RowsInv' /\ StoreInv'
  BY <1>0 DEF RowsInv, StoreInv, SessionOf
<1>9. ASSUME NEW d \in Calls PROVE CallInv(calls[d])'
  <2>1. CASE d = c
    BY <2>1, <1>2, <1>4 DEF CallInv
  <2>2. CASE d # c
    BY <2>2, <1>0, <1>4 DEF CallInv
  <2> QED
    BY <2>1, <2>2
<1>10. ASSUME NEW d \in Calls PROVE AskInv(d)'
  <2>1. CASE d = c
    BY <2>1, <1>1, <1>2, <1>4 DEF AskInv
  <2>2. CASE d # c
    BY <2>2, <1>0, <1>4, <1>5 DEF AskInv, SessionOf
  <2> QED
    BY <2>1, <2>2
<1>11. ASSUME NEW d \in Calls PROVE AnswerInv(d)'
  <2> SUFFICES ASSUME Answered(d)' PROVE AnswerInv(d)'
    BY DEF AnswerInv
  <2>1. d # c /\ calls'[d] = calls[d] /\ Answered(d) /\ AnswerInv(d)
    BY <1>0, <1>4, <1>5
  <2>2. Children(calls[d].answer)' = Children(calls[d].answer)
    BY <2>1 DEF Children
  <2>3. \A e \in Calls : InFlight(e)' => calls'[e].with # calls[d].answer
    BY <2>1, <1>2, <1>4, <1>5 DEF AnswerInv
  <2>4. \A e \in Calls : Answered(e)' /\ calls'[e].answer = calls[d].answer => e = d
    BY <2>1, <1>4, <1>5 DEF AnswerInv
  <2> QED
    BY <2>1, <2>2, <2>3, <2>4 DEF AnswerInv
<1>12. AloneInv'
  <2> SUFFICES ASSUME ~history'.overlap PROVE AloneInv'
    BY DEF AloneInv
  <2>1. ~history.overlap /\ \A d \in Calls : ~InFlight(d)
    BY <1>6
  <2>2. \A d \in Calls : InFlight(d)' => d = c
    BY <2>1, <1>5
  <2>3. Clean(store.token)
    BY <2>1, <1>0 DEF AloneInv
  <2>4. Clean(store.token)'
    BY <2>3 DEF Clean, UsedSuccessor, Children
  <2>5. \A d \in Calls : ~Answered(d)'
    BY <2>2, <1>5 DEF Answered, InFlight
  <2>6. Clean(calls[c].with)'
    BY <2>3, <1>2, <1>4 DEF Clean, UsedSuccessor, Children
  <2>7. \A d \in Calls : calls'[d].step = "ask" => d = c
    BY <2>2 DEF InFlight
  <2>8. calls'[c].with = store'.token
    BY <1>2, <1>4
  <2> QED
    BY <2>2, <2>4, <2>5, <2>6, <2>7, <2>8 DEF AloneInv
<1>13. PromptInv'
  <2> SUFFICES ASSUME ~history'.trouble PROVE PromptInv'
    BY DEF PromptInv
  <2>1. ~history.trouble
    BY <1>6
  <2>2. \A t \in DOMAIN tokens' : ~tokens'[t].superseded
    BY <2>1, <1>0 DEF PromptInv
  <2>3. ASSUME tokens[store.token].rotated_at # None
        PROVE  \E d \in Calls : d # c /\ Rotating(d, store.token)
    <3>1. PICK d \in Calls : Rotating(d, store.token)
      BY <2>1, <2>3, <1>0 DEF PromptInv
    <3> QED
      BY <3>1, <1>5 DEF Rotating
  <2>4. ASSUME tokens'[store'.token].rotated_at # None
        PROVE  \E d \in Calls : Rotating(d, store.token)'
    <3>1. PICK d \in Calls : d # c /\ Rotating(d, store.token)
      BY <2>3, <2>4
    <3>2. calls'[d] = calls[d]
      BY <3>1, <1>4
    <3> QED
      BY <3>1, <3>2 DEF Rotating, Answered
  <2>5. ASSUME NEW d \in Calls, InFlight(d)', d # c
        PROVE  /\ 2 * (clock' - calls'[d].since) <= Grace
               /\ calls'[d].step = "ask" /\ tokens'[calls'[d].with].rotated_at # None =>
                      2 * (calls'[d].since - tokens'[calls'[d].with].rotated_at) <= Grace
    BY <2>1, <2>5, <1>0, <1>4, <1>5 DEF PromptInv
  <2>6. 2 * (clock' - calls'[c].since) <= Grace
    BY <1>1, <1>2, <1>4, Distinct
  <2>7. ASSUME tokens'[calls'[c].with].rotated_at # None
        PROVE  2 * (calls'[c].since - tokens'[calls'[c].with].rotated_at) <= Grace
    <3>1. tokens[store.token].rotated_at # None
      BY <2>7, <1>2, <1>4
    <3>2. PICK d \in Calls : d # c /\ Rotating(d, store.token)
      BY <2>3, <3>1
    <3>3. 2 * (clock - calls[d].since) <= Grace
      BY <2>1, <3>2, <1>0 DEF PromptInv, Rotating, Answered, InFlight
    <3>4. calls[d].since \in Nat
      <4>1. calls[d] \in Call
        BY <1>1
      <4> QED
        BY <4>1, Distinct DEF Call
    <3>5. tokens[store.token].rotated_at \in Nat
      <4>1. tokens[store.token] \in Row
        BY <1>0, <1>1 DEF TypeOK
      <4> QED
        BY <4>1, <3>1, Distinct DEF Row
    <3>6. calls[d].since <= tokens[store.token].rotated_at
      BY <3>2 DEF Rotating
    <3>7. 2 * (clock - tokens[store.token].rotated_at) <= Grace
      BY <3>3, <3>4, <3>5, <3>6, <1>1, Distinct
    <3> QED
      BY <3>7, <1>2, <1>4
  <2> QED
    BY <2>2, <2>4, <2>5, <2>6, <2>7 DEF PromptInv
<1> QED
  BY <1>2, <1>4, <1>7, <1>8, <1>9, <1>10, <1>11, <1>12, <1>13 DEF IInv

\* A step of one call that leaves it out of flight, where the store is untouched.
LEMMA OneCallMoves ==
  ASSUME IInv, NEW c \in Calls, NEW call \in Call, ~InFlight(c),
         CallInv(call), call.step \notin {"ask", "reply"},
         Update(c, call), UNCHANGED <<clock, tokens, history>>,
         store' = store \/ store' = None,
         over \subseteq over', over' \subseteq Sessions
  PROVE  IInv' /\ calls'[c] = call /\ \A d \in Calls \ {c} : calls'[d] = calls[d]
<1>0. TypeOK /\ \A d \in Calls : CallInv(calls[d])
  BY DEF IInv
<1>1. calls \in [Calls -> Call]
  BY <1>0 DEF TypeOK
<1>2. calls'[c] = call /\ \A d \in Calls \ {c} : calls'[d] = calls[d]
  BY <1>1 DEF Update
<1>3. TypeOK'
  <2>1. calls' \in [Calls -> Call]
    BY <1>1 DEF Update
  <2> QED
    BY <2>1, <1>0 DEF TypeOK
<1>4. \A d \in Calls : CallInv(calls'[d])
  BY <1>0, <1>2
<1>5. \A d \in Calls : calls'[d].step \in {"ask", "reply"} => calls'[d] = calls[d]
  BY <1>2
<1>6. \A d \in Calls : Answered(d) => calls'[d] = calls[d]
  BY <1>2 DEF Answered, InFlight
<1> QED
  BY <1>2, <1>3, <1>4, <1>5, <1>6, CallsMoveOn

\* refresh(): share, ask, or go on at once because there is nothing to refresh with.
LEMMA CallRefreshKeepsIInv ==
  ASSUME IInv, NEW c \in Calls, NEW call \in Call,
         call.tab \in Tabs, call.answer = None, ~InFlight(c),
         ~call.retrying /\ call.kind \in {"fetcher", "middleware"} => call.had # None,
         CallRefresh(c, call), UNCHANGED <<clock, store, tokens, over>>
  PROVE  /\ IInv'
         /\ calls'[c].step = "report" => store = None
         /\ \A d \in Calls \ {c} : calls'[d] = calls[d]
<1>0. over' \subseteq Sessions
  BY DEF IInv, TypeOK
<1>1. CASE \E o \in Refreshing(call.tab) :
              Update(c, [call EXCEPT !.step = "joined", !.owner = o]) /\ UNCHANGED history
  <2>1. PICK o \in Refreshing(call.tab) :
              Update(c, [call EXCEPT !.step = "joined", !.owner = o]) /\ UNCHANGED history
    BY <1>1
  <2> DEFINE new == [call EXCEPT !.step = "joined", !.owner = o]
  <2>2. o \in Calls
    BY DEF Refreshing
  <2>3. /\ new \in Call
        /\ new.step = "joined" /\ new.answer = None /\ new.tab = call.tab /\ new.had = call.had
        /\ new.retrying = call.retrying /\ new.kind = call.kind
    BY ZenonT(60), <2>2 DEF Call, Steps
  <2>4. Update(c, new)
    BY <2>1
  <2> HIDE DEF new
  <2>5. CallInv(new)
    BY <2>3 DEF CallInv
  <2> QED
    BY <2>1, <2>3, <2>4, <2>5, <1>0, OneCallMoves
<1>2. CASE store = None /\ Update(c, Continue(call, None)) /\ UNCHANGED history
  <2> DEFINE new == Continue(call, None)
  <2>1. /\ new \in Call
        /\ new.step \in {"idle", "send", "replay", "report"}
        /\ new.answer = None
        /\ new.step # "idle" => new.tab = call.tab
    BY ContinueCall
  <2>2. Update(c, new)
    BY <1>2
  <2> HIDE DEF new
  <2>3. CallInv(new)
    BY <2>1 DEF CallInv
  <2> QED
    BY <2>1, <2>2, <2>3, <1>0, <1>2, OneCallMoves
<1>3. CASE /\ Refreshing(call.tab) = {} /\ store # None
           /\ Update(c, [call EXCEPT !.step = "ask", !.with = store.token, !.since = clock])
           /\ history' = [history EXCEPT !.overlap = @ \/
                 \E d \in Calls : InFlight(d) /\ calls[d].tab # call.tab]
  BY <1>3, AskStarts DEF Update
<1> QED
  BY <1>1, <1>2, <1>3 DEF CallRefresh

\* onUnauthorized: an empty store, or a replay that was refused too.
ReportsEnds ==
    \A c \in Calls : calls[c].step # "report" /\ calls'[c].step = "report" =>
        store' = None \/ calls[c].step = "replay"

\* The store is emptied by logout() or by a refresh whose session is over.
ForgetsDead ==
    store # None /\ store' = None =>
        \E c \in Calls :
           \/ calls[c].step = "idle" /\ calls'[c].step = "revoke"
           \/ InFlight(c) /\ ~InFlight(c)' /\ SessionOf(calls[c].with) \in over

Sound == IInv' /\ ReportsEnds /\ ForgetsDead

\* refresh()
LEMMA RefreshIsSound ==
  ASSUME IInv, NEW c \in Calls, NEW tab \in Tabs, Refresh(c, tab)
  PROVE  Sound
<1> DEFINE call == [Idle EXCEPT !.kind = "refresh", !.tab = tab]
<1>1. call \in Call /\ call.tab \in Tabs /\ call.answer = None /\ call.kind = "refresh"
  BY Distinct DEF Call, Idle, Kinds, Steps
<1>2. CallRefresh(c, call) /\ ~InFlight(c) /\ UNCHANGED <<clock, store, tokens, over>>
  BY DEF Refresh, InFlight
<1> HIDE DEF call
<1>3. /\ IInv'
      /\ calls'[c].step = "report" => store = None
      /\ \A d \in Calls \ {c} : calls'[d] = calls[d]
  BY <1>1, <1>2, CallRefreshKeepsIInv
<1> QED
  BY <1>2, <1>3 DEF Sound, ReportsEnds, ForgetsDead

\* accessToken() and onRequest: a refresh first, or the request at once.
LEMMA BeginIsSound ==
  ASSUME IInv, NEW c \in Calls, NEW kind \in {"fetcher", "middleware"}, NEW tab \in Tabs,
         Begin(c, kind, tab)
  PROVE  Sound
<1> DEFINE call == [Idle EXCEPT !.kind = kind, !.tab = tab, !.had = store]
<1>0. store \in Stored \cup {None} /\ over' \subseteq Sessions
  BY DEF IInv, TypeOK, Begin
<1>1. call \in Call /\ call.tab \in Tabs /\ call.answer = None /\ call.had = store
  BY <1>0, Distinct DEF Call, Idle, Kinds, Steps
<1>2. ~InFlight(c) /\ UNCHANGED <<clock, store, tokens, over>>
  BY DEF Begin, InFlight
<1>3. \/ store # None /\ CallRefresh(c, call)
      \/ store # None /\ Update(c, Send(call, store.token)) /\ UNCHANGED history
      \/ Update(c, Send(call, None)) /\ UNCHANGED history
  BY DEF Begin
<1> HIDE DEF call
<1>4. CASE store # None /\ CallRefresh(c, call)
  <2>1. /\ IInv'
        /\ calls'[c].step = "report" => store = None
        /\ \A d \in Calls \ {c} : calls'[d] = calls[d]
    BY <1>1, <1>2, <1>4, CallRefreshKeepsIInv
  <2> QED
    BY <2>1, <1>2 DEF Sound, ReportsEnds, ForgetsDead
<1>5. ASSUME NEW token \in Token \cup {None}, Update(c, Send(call, token)), UNCHANGED history
      PROVE  Sound
  <2> DEFINE new == Send(call, token)
  <2>1. new \in Call /\ new.step = "send" /\ new.answer = None /\ new.tab \in Tabs
    BY <1>1, SendCall
  <2>2. Update(c, new)
    BY <1>5
  <2> HIDE DEF new
  <2>3. CallInv(new)
    BY <2>1 DEF CallInv
  <2>4. IInv' /\ calls'[c] = new /\ \A d \in Calls \ {c} : calls'[d] = calls[d]
    BY <2>1, <2>2, <2>3, <1>0, <1>2, <1>5, OneCallMoves
  <2> QED
    BY <2>1, <2>4, <1>2 DEF Sound, ReportsEnds, ForgetsDead
<1>6. store # None => store.token \in Token
  BY <1>0 DEF Stored
<1> QED
  BY <1>3, <1>4, <1>5, <1>6

\* logout() clears the store.
LEMMA LogoutIsSound ==
  ASSUME IInv, NEW c \in Calls, Logout(c)
  PROVE  Sound
<1> DEFINE new == [Idle EXCEPT !.kind = "logout", !.step = "revoke", !.had = store]
<1>0. /\ store \in Stored \cup {None} /\ store # None /\ store.token \in DOMAIN tokens
      /\ over' \subseteq Sessions
  BY DEF IInv, TypeOK, StoreInv, Logout
<1>1. new \in Call /\ new.step = "revoke" /\ new.answer = None /\ new.had = store
  BY <1>0, Distinct DEF Call, Idle, Kinds, Steps
<1>2. Update(c, new)
  BY DEF Logout
<1> HIDE DEF new
<1>3. CallInv(new)
  BY <1>0, <1>1 DEF CallInv
<1>4. /\ ~InFlight(c) /\ store' = None /\ UNCHANGED <<clock, tokens, over, history>>
      /\ calls[c].step = "idle"
  BY DEF Logout, InFlight
<1>5. IInv' /\ calls'[c] = new /\ \A d \in Calls \ {c} : calls'[d] = calls[d]
  BY <1>0, <1>1, <1>2, <1>3, <1>4, OneCallMoves
<1> QED
  BY <1>1, <1>4, <1>5 DEF Sound, ReportsEnds, ForgetsDead

\* A call returns, reports or takes its 401 to the report.
LEMMA EndIsSound ==
  ASSUME IInv, NEW c \in Calls,
         Accepted(c) \/ StillUnauthorized(c) \/ Report(c) \/ RevokeAtBauth(c)
  PROVE  Sound
<1>0. TypeOK /\ CallInv(calls[c]) /\ calls[c] \in Call /\ over \subseteq Sessions
  BY DEF IInv, TypeOK
<1>1. CASE Accepted(c) \/ Report(c) \/ RevokeAtBauth(c)
  <2>1. Update(c, Idle) /\ ~InFlight(c) /\ UNCHANGED <<clock, store, tokens, history>>
    BY <1>1 DEF Accepted, Report, RevokeAtBauth, InFlight
  <2>2. over \subseteq over' /\ over' \subseteq Sessions
    <3>1. CASE Accepted(c) \/ Report(c)
      BY <3>1, <1>0 DEF Accepted, Report
    <3>2. CASE RevokeAtBauth(c)
      <4>1. calls[c].had.token \in DOMAIN tokens
        BY <3>2, <1>0 DEF RevokeAtBauth, CallInv
      <4>2. tokens[calls[c].had.token] \in Row
        BY <4>1, <1>0 DEF TypeOK
      <4>3. SessionOf(calls[c].had.token) \in Sessions
        BY <4>2 DEF SessionOf, Row
      <4> QED
        BY <4>3, <3>2, <1>0 DEF RevokeAtBauth
    <3> QED
      BY <1>1, <3>1, <3>2
  <2>3. CallInv(Idle)
    BY IdleCall DEF CallInv
  <2>4. IInv' /\ calls'[c] = Idle /\ \A d \in Calls \ {c} : calls'[d] = calls[d]
    BY <2>1, <2>2, <2>3, IdleCall, OneCallMoves
  <2> QED
    BY <2>1, <2>4, IdleCall DEF Sound, ReportsEnds, ForgetsDead
<1>2. CASE StillUnauthorized(c)
  <2> DEFINE new == [calls[c] EXCEPT !.step = "report"]
  <2>1. /\ Update(c, new) /\ ~InFlight(c) /\ UNCHANGED <<clock, store, tokens, over, history>>
        /\ calls[c].step = "replay"
    BY <1>2 DEF StillUnauthorized, InFlight
  <2>2. /\ new \in Call /\ new.step = "report" /\ new.answer = calls[c].answer
        /\ new.tab = calls[c].tab
    BY <1>0 DEF Call, Steps
  <2> HIDE DEF new
  <2>3. CallInv(new)
    BY <2>1, <2>2, <1>0 DEF CallInv
  <2>4. IInv' /\ calls'[c] = new /\ \A d \in Calls \ {c} : calls'[d] = calls[d]
    BY <2>1, <2>2, <2>3, <1>0, OneCallMoves
  <2> QED
    BY <2>1, <2>2, <2>4 DEF Sound, ReportsEnds, ForgetsDead
<1> QED
  BY <1>1, <1>2

\* The first 401 leads to a newer token or to a refresh.
LEMMA UnauthorizedIsSound ==
  ASSUME IInv, NEW c \in Calls, Unauthorized(c)
  PROVE  Sound
<1> DEFINE call == [calls[c] EXCEPT !.retrying = TRUE, !.sent = None]
<1>0. /\ CallInv(calls[c]) /\ calls[c] \in Call /\ over \subseteq Sessions
      /\ store \in Stored \cup {None}
  BY DEF IInv, TypeOK
<1>1. /\ calls[c].step = "send" /\ ~InFlight(c) /\ UNCHANGED <<clock, store, tokens, over>>
      /\ \/ Newer(calls[c]) /\ Update(c, Retry(call, store.token)) /\ UNCHANGED history
         \/ CallRefresh(c, call)
  BY DEF Unauthorized, InFlight
<1>2. call \in Call /\ call.retrying /\ call.tab = calls[c].tab /\ call.answer = calls[c].answer
  BY <1>0 DEF Call
<1>3. call.tab \in Tabs /\ call.answer = None
  BY <1>0, <1>1, <1>2 DEF CallInv
<1> HIDE DEF call
<1>4. CASE CallRefresh(c, call)
  <2>1. /\ IInv'
        /\ calls'[c].step = "report" => store = None
        /\ \A d \in Calls \ {c} : calls'[d] = calls[d]
    BY <1>1, <1>2, <1>3, <1>4, CallRefreshKeepsIInv
  <2> QED
    BY <2>1, <1>1 DEF Sound, ReportsEnds, ForgetsDead
<1>5. CASE Newer(calls[c]) /\ Update(c, Retry(call, store.token)) /\ UNCHANGED history
  <2>1. store.token \in Token
    BY <1>0, <1>5 DEF Newer, Stored
  <2> DEFINE new == Retry(call, store.token)
  <2>2. /\ new \in Call
        /\ new.step \in {"idle", "replay", "report"}
        /\ new.step # "report"
        /\ new.answer = None
        /\ new.step # "idle" => new.tab = call.tab
    BY <2>1, <1>2, <1>3, RetryCall, Distinct
  <2>3. Update(c, new)
    BY <1>5
  <2> HIDE DEF new
  <2>4. CallInv(new)
    BY <2>2, <1>3 DEF CallInv
  <2>5. IInv' /\ calls'[c] = new /\ \A d \in Calls \ {c} : calls'[d] = calls[d]
    BY <2>2, <2>3, <2>4, <1>0, <1>1, <1>5, OneCallMoves
  <2> QED
    BY <2>2, <2>5, <1>1 DEF Sound, ReportsEnds, ForgetsDead
<1> QED
  BY <1>1, <1>4, <1>5

\* bauth ends a session that a store may still hold.
LEMMA EndSessionIsSound ==
  ASSUME IInv, NEW s \in Sessions, EndSession(s)
  PROVE  Sound
<1>1. IInv'
  BY NoCallMoves DEF IInv, TypeOK, EndSession
<1> QED
  BY <1>1 DEF Sound, ReportsEnds, ForgetsDead, EndSession

\* invalid_grant, or an error: the callers are told.
LEMMA FailureIsSound ==
  ASSUME IInv, NEW c \in Calls, ForgetTokens(c) \/ FailRefresh(c)
  PROVE  Sound
<1>0. /\ TypeOK /\ (\A d \in Calls : CallInv(calls[d])) /\ AskInv(c)
      /\ history \in History
  BY DEF IInv, TypeOK
<1>1. PICK value \in {None, Threw} :
        /\ calls' = Settled(c, value)
        /\ value = None => ForgetTokens(c)
        /\ value = Threw => FailRefresh(c)
  BY Distinct DEF ForgetTokens, FailRefresh
<1>2. InFlight(c) /\ UNCHANGED <<clock, tokens, over>>
  BY DEF ForgetTokens, FailRefresh, InFlight
<1>3. /\ calls' \in [Calls -> Call]
      /\ \A d \in Calls :
           /\ CallInv(calls'[d])
           /\ InFlight(d) /\ d # c => calls'[d] = calls[d]
           /\ \/ calls'[d] = calls[d] /\ d # c
              \/ /\ calls'[d].step \in {"idle", "send", "replay", "report"}
                 /\ calls'[d].step = "report" => value = None
  BY <1>0, <1>1, <1>2, SettledCalls
<1>4. /\ store' = store \/ store' = None
      /\ history' \in History
      /\ history.overlap => history'.overlap
      /\ history.trouble => history'.trouble
      /\ Answered(c) => history'.trouble
  <2>1. CASE value = None
    BY <2>1, <1>0, <1>1 DEF ForgetTokens, Answered
  <2>2. CASE value = Threw
    <3> DEFINE lost == calls[c].step = "reply"
    <3>1. history' = [history EXCEPT !.trouble = history.trouble \/ lost] /\ store' = store
      BY <2>2, <1>1 DEF FailRefresh
    <3>2. history.trouble \in BOOLEAN /\ history.overlap \in BOOLEAN /\ lost \in BOOLEAN
      BY <1>0 DEF History
    <3>3. Answered(c) => lost
      BY DEF Answered
    <3> HIDE DEF lost
    <3>4. history'.trouble = (history.trouble \/ lost) /\ history'.overlap = history.overlap
      BY <3>1, <1>0 DEF History
    <3>5. history' \in History
      BY <3>1, <3>2, <1>0 DEF History
    <3> QED
      BY <3>1, <3>2, <3>3, <3>4, <3>5
  <2> QED
    BY <1>1, <2>1, <2>2
<1>5. TypeOK'
  BY <1>0, <1>2, <1>3, <1>4 DEF TypeOK
<1>6. IInv'
  <2>1. \A d \in Calls : calls'[d].step \in {"ask", "reply"} => calls'[d] = calls[d]
    BY <1>3
  <2>2. \A d \in Calls : Answered(d) /\ calls'[d] # calls[d] => history'.trouble \/ store' = None
    BY <1>3, <1>4 DEF Answered, InFlight
  <2> QED
    BY <2>1, <2>2, <1>2, <1>3, <1>4, <1>5, CallsMoveOn
<1>7. ReportsEnds
  BY <1>1, <1>3 DEF ReportsEnds, ForgetTokens
<1>8. ForgetsDead
  <2> SUFFICES ASSUME store # None, store' = None PROVE ForgetsDead
    BY DEF ForgetsDead
  <2>1. ForgetTokens(c)
    BY <1>1 DEF FailRefresh
  <2>2. SessionOf(calls[c].with) \in over
    BY <2>1, <1>0, <1>2 DEF ForgetTokens, AskInv
  <2>3. ~InFlight(c)'
    BY <1>3 DEF InFlight
  <2> QED
    BY <2>2, <2>3, <1>2 DEF ForgetsDead
<1> QED
  BY <1>6, <1>7, <1>8 DEF Sound

\* A client gives up: its callers are told, and its request goes on without them.
LEMMA AbandonIsSound ==
  ASSUME IInv, NEW c \in Calls, NEW e \in Calls, Abandon(c, e)
  PROVE  Sound
<1>0. /\ TypeOK /\ RowsInv /\ StoreInv /\ AloneInv /\ PromptInv
      /\ \A d \in Calls : CallInv(calls[d]) /\ AskInv(d) /\ AnswerInv(d)
  BY DEF IInv
<1> DEFINE stray == [Idle EXCEPT !.kind = "refresh", !.step = "ask", !.with = calls[c].with,
                                 !.since = calls[c].since]
<1>1. /\ calls[c].step = "ask" /\ calls[e].step = "idle" /\ InFlight(c) /\ e # c
      /\ UNCHANGED <<clock, store, tokens, over, history>>
      /\ calls' = [Settled(c, Threw) EXCEPT ![e] = stray]
  BY DEF Abandon, InFlight
<1>2. /\ stray \in Call /\ stray.step = "ask" /\ stray.kind = "refresh" /\ ~stray.retrying
      /\ stray.with = calls[c].with /\ stray.since = calls[c].since /\ stray.answer = None
  <2>1. calls[c] \in Call
    BY <1>0 DEF TypeOK
  <2>2. calls[c].with \in Token \cup {None} /\ calls[c].since \in Instant
    BY <2>1 DEF Call
  <2> QED
    BY ZenonT(60), <2>2, IdleCall DEF Call, Idle, Kinds, Steps
<1> HIDE DEF stray
<1>3. /\ Settled(c, Threw) \in [Calls -> Call]
      /\ \A d \in Calls :
           /\ CallInv(Settled(c, Threw)[d])
           /\ InFlight(d) /\ d # c => Settled(c, Threw)[d] = calls[d]
           /\ \/ Settled(c, Threw)[d] = calls[d] /\ d # c
              \/ /\ Settled(c, Threw)[d].step \in {"idle", "send", "replay", "report"}
                 /\ Settled(c, Threw)[d].step = "report" => Threw = None
  <2>1. Threw \in Token \cup {None, Threw}
    OBVIOUS
  <2> QED
    BY <2>1, <1>0, <1>1, SettledCalls
<1>4. /\ calls' \in [Calls -> Call] /\ calls'[e] = stray
      /\ \A d \in Calls \ {e} :
           /\ CallInv(calls'[d])
           /\ InFlight(d) /\ d # c => calls'[d] = calls[d]
           /\ \/ calls'[d] = calls[d] /\ d # c
              \/ calls'[d].step \in {"idle", "send", "replay"}
  BY <1>1, <1>2, <1>3, Distinct
<1>5. TypeOK'
  BY <1>0, <1>1, <1>4 DEF TypeOK
<1>6. RowsInv' /\ StoreInv'
  BY <1>0, <1>1 DEF RowsInv, StoreInv, SessionOf
<1>7. \A d \in Calls : CallInv(calls[d])'
  <2>1. CallInv(calls[e])'
    BY <1>2, <1>4 DEF CallInv
  <2>2. \A d \in Calls \ {e} : CallInv(calls[d])'
    BY <1>1, <1>4 DEF CallInv
  <2> QED
    BY <2>1, <2>2
\* Whose request it was before.
<1> DEFINE source(d) == IF d = e THEN c ELSE d
<1>8. ASSUME NEW d \in Calls, InFlight(d)'
      PROVE  /\ source(d) \in Calls /\ InFlight(source(d)) /\ d # c
             /\ calls'[d].step = calls[source(d)].step /\ calls'[d].with = calls[source(d)].with
             /\ calls'[d].since = calls[source(d)].since
             /\ calls'[d].answer = calls[source(d)].answer
  <2>1. CASE d = e
    BY <2>1, <1>0, <1>1, <1>2, <1>4 DEF CallInv
  <2>2. CASE d # e
    BY <2>2, <1>4, <1>8 DEF InFlight
  <2> QED
    BY <2>1, <2>2
<1>9. \A d, f \in Calls : InFlight(d)' /\ InFlight(f)' /\ source(d) = source(f) => d = f
  BY <1>8
<1>10. \A d \in Calls : Answered(d)' => d # e /\ Answered(d) /\ calls'[d] = calls[d]
  BY <1>2, <1>4 DEF Answered
<1>11. \A d \in Calls : Answered(d) => Answered(d)' /\ calls'[d] = calls[d]
  BY <1>1, <1>4 DEF Answered, InFlight
<1> HIDE DEF source
<1>12. ASSUME NEW d \in Calls PROVE AskInv(d)'
  <2> SUFFICES ASSUME InFlight(d)' PROVE AskInv(d)'
    BY DEF AskInv
  <2>1. AskInv(source(d))
    BY <1>0, <1>8
  <2> QED
    BY <1>1, <1>8, <2>1 DEF AskInv, SessionOf
<1>13. ASSUME NEW d \in Calls PROVE AnswerInv(d)'
  <2> SUFFICES ASSUME Answered(d)' PROVE AnswerInv(d)'
    BY DEF AnswerInv
  <2>1. calls'[d] = calls[d] /\ Answered(d) /\ AnswerInv(d)
    BY <1>0, <1>10
  <2>2. Children(calls[d].answer)' = Children(calls[d].answer)
    BY <1>1, <2>1 DEF Children
  <2>3. \A f \in Calls : InFlight(f)' => calls'[f].with # calls[d].answer
    BY <1>8, <2>1 DEF AnswerInv
  <2>4. \A f \in Calls : Answered(f)' /\ calls'[f].answer = calls[d].answer => f = d
    BY <1>10, <2>1 DEF AnswerInv
  <2> QED
    BY <1>1, <2>1, <2>2, <2>3, <2>4 DEF AnswerInv
<1>14. \A t : Clean(t)' <=> Clean(t)
  BY <1>1 DEF Clean, UsedSuccessor, Children
<1>15. AloneInv'
  <2> SUFFICES ASSUME ~history'.overlap PROVE AloneInv'
    BY DEF AloneInv
  <2>1. ~history.overlap
    BY <1>1
  <2>2. \A d, f \in Calls : InFlight(d)' /\ InFlight(f)' => d = f
    <3>1. \A d, f \in Calls : InFlight(d) /\ InFlight(f) => d = f
      BY <2>1, <1>0 DEF AloneInv
    <3> QED
      BY <3>1, <1>8, <1>9
  <2>3. store' # None => Clean(store.token)'
    BY <2>1, <1>0, <1>1, <1>14 DEF AloneInv
  <2>4. ASSUME NEW d \in Calls, InFlight(d)', store' # None, store'.token # calls'[d].with
        PROVE  SessionOf(store.token)' # SessionOf(calls[d].with)'
    BY <2>1, <2>4, <1>0, <1>1, <1>8 DEF AloneInv, SessionOf
  <2>5. ASSUME NEW d \in Calls, calls'[d].step = "ask"
        PROVE  Clean(calls[d].with)'
    <3>1. InFlight(d)'
      BY <2>5 DEF InFlight
    <3>2. Clean(calls[source(d)].with)
      BY <2>1, <2>5, <3>1, <1>0, <1>8 DEF AloneInv
    <3>3. calls'[d].with = calls[source(d)].with
      BY <3>1, <1>8
    <3> QED
      BY <3>2, <3>3, <1>1 DEF Clean, UsedSuccessor, Children
  <2>6. \A d \in Calls : Answered(d)' => ~tokens'[calls'[d].answer].superseded
    BY <2>1, <1>0, <1>1, <1>10 DEF AloneInv
  <2> QED
    BY <2>2, <2>3, <2>4, <2>5, <2>6 DEF AloneInv
<1>16. PromptInv'
  <2> SUFFICES ASSUME ~history'.trouble PROVE PromptInv'
    BY DEF PromptInv
  <2>1. ~history.trouble
    BY <1>1
  <2>2. \A t \in DOMAIN tokens' : ~tokens'[t].superseded
    BY <2>1, <1>0, <1>1 DEF PromptInv
  <2>3. ASSUME store' # None, tokens'[store'.token].rotated_at # None
        PROVE  \E d \in Calls : Rotating(d, store.token)'
    <3>1. PICK d \in Calls : Rotating(d, store.token)
      BY <2>1, <2>3, <1>0, <1>1 DEF PromptInv
    <3>2. calls'[d] = calls[d] /\ Answered(d)'
      BY <3>1, <1>11 DEF Rotating
    <3> QED
      BY <3>1, <3>2, <1>1 DEF Rotating
  <2>4. ASSUME NEW d \in Calls, InFlight(d)'
        PROVE  /\ 2 * (clock' - calls'[d].since) <= Grace
               /\ calls'[d].step = "ask" /\ tokens'[calls'[d].with].rotated_at # None =>
                      2 * (calls'[d].since - tokens'[calls'[d].with].rotated_at) <= Grace
    BY <2>1, <2>4, <1>0, <1>1, <1>8 DEF PromptInv
  <2> QED
    BY <2>2, <2>3, <2>4 DEF PromptInv
<1>17. IInv'
  BY <1>5, <1>6, <1>7, <1>12, <1>13, <1>15, <1>16 DEF IInv
<1>18. ReportsEnds
  BY <1>2, <1>4 DEF ReportsEnds
<1> QED
  BY <1>1, <1>17, <1>18 DEF Sound, ForgetsDead

\* The answer's tokens are written, and the callers told.
LEMMA StoreTokensIsSound ==
  ASSUME IInv, NEW c \in Calls, StoreTokens(c)
  PROVE  Sound
<1>0. /\ TypeOK /\ RowsInv /\ AloneInv /\ PromptInv
      /\ \A d \in Calls : CallInv(calls[d]) /\ AskInv(d) /\ AnswerInv(d)
  BY DEF IInv
<1>1. /\ InFlight(c) /\ Answered(c) /\ UNCHANGED <<clock, tokens, over, history>>
      /\ calls' = Settled(c, calls[c].answer)
      /\ store' = ToStored(calls[c].answer)
  BY DEF StoreTokens, InFlight, Answered
<1>2. PICK n : n = calls[c].answer
  OBVIOUS
<1>3. n \in Token
  <2>1. calls[c] \in Call
    BY <1>0 DEF TypeOK
  <2> QED
    BY <2>1, <1>1, <1>2 DEF Call, Answered
<1>4. store' \in Stored /\ store'.token = n /\ store' # None
  <2>1. clock + AccessTTL \in Nat
    BY <1>0, Distinct DEF TypeOK
  <2>2. store' = [token |-> n, expires |-> clock + AccessTTL]
    BY <1>1, <1>2 DEF ToStored
  <2>3. store' \in Stored /\ store'.token = n
    BY <2>1, <2>2, <1>3 DEF Stored
  <2> QED
    BY <2>3, Distinct
<1>5. /\ calls' \in [Calls -> Call]
      /\ \A d \in Calls :
           /\ CallInv(calls'[d])
           /\ InFlight(d) /\ d # c => calls'[d] = calls[d]
           /\ \/ calls'[d] = calls[d] /\ d # c
              \/ /\ calls'[d].step \in {"idle", "send", "replay", "report"}
                 /\ calls'[d].step = "report" => n = None
  BY <1>0, <1>1, <1>2, <1>3, SettledCalls
<1>6. TypeOK'
  BY <1>0, <1>1, <1>4, <1>5 DEF TypeOK
<1>7. ASSUME NEW d \in Calls, InFlight(d)' \/ Answered(d)'
      PROVE  d # c /\ calls'[d] = calls[d]
  BY <1>5, <1>7 DEF InFlight, Answered
<1>8. /\ n \in DOMAIN tokens
      /\ tokens[n].rotated_at = None
      /\ Children(n) = {}
      /\ \A d \in Calls : Answered(d) /\ calls[d].answer = n => d = c
  BY <1>0, <1>1, <1>2 DEF AnswerInv
<1>9. RowsInv' /\ StoreInv'
  BY <1>0, <1>1, <1>4, <1>8 DEF RowsInv, StoreInv, SessionOf
<1>10. ASSUME NEW d \in Calls PROVE CallInv(calls[d])'
  BY <1>1, <1>5 DEF CallInv
<1>11. ASSUME NEW d \in Calls PROVE AskInv(d)'
  <2> SUFFICES ASSUME InFlight(d)' PROVE AskInv(d)'
    BY DEF AskInv
  <2>1. calls'[d] = calls[d] /\ InFlight(d) /\ AskInv(d)
    BY <1>0, <1>7 DEF InFlight
  <2> QED
    BY <2>1, <1>1 DEF AskInv, SessionOf
<1>12. ASSUME NEW d \in Calls PROVE AnswerInv(d)'
  <2> SUFFICES ASSUME Answered(d)' PROVE AnswerInv(d)'
    BY DEF AnswerInv
  <2>1. d # c /\ calls'[d] = calls[d] /\ Answered(d) /\ AnswerInv(d)
    BY <1>0, <1>7 DEF Answered
  <2>2. Children(calls[d].answer)' = Children(calls[d].answer)
    BY <2>1, <1>1 DEF Children
  <2>3. \A e \in Calls : InFlight(e)' => calls'[e].with # calls[d].answer
    <3> SUFFICES ASSUME NEW e \in Calls, InFlight(e)' PROVE calls'[e].with # calls[d].answer
      OBVIOUS
    <3>1. calls'[e] = calls[e] /\ InFlight(e)
      BY <1>7 DEF InFlight
    <3> QED
      BY <3>1, <2>1 DEF AnswerInv
  <2>4. \A e \in Calls : Answered(e)' /\ calls'[e].answer = calls[d].answer => e = d
    <3> SUFFICES ASSUME NEW e \in Calls, Answered(e)', calls'[e].answer = calls[d].answer
                 PROVE  e = d
      OBVIOUS
    <3>1. calls'[e] = calls[e] /\ Answered(e)
      BY <1>7 DEF Answered
    <3> QED
      BY <3>1, <2>1 DEF AnswerInv
  <2>5. store'.token # calls[d].answer
    BY <2>1, <1>4, <1>8
  <2> QED
    BY <2>1, <2>2, <2>3, <2>4, <2>5, <1>1 DEF AnswerInv
<1>13. AloneInv'
  <2> SUFFICES ASSUME ~history'.overlap PROVE AloneInv'
    BY DEF AloneInv
  <2>1. ~history.overlap
    BY <1>1
  <2>2. \A d \in Calls : InFlight(d) => d = c
    BY <2>1, <1>0, <1>1 DEF AloneInv
  <2>3. \A d \in Calls : ~InFlight(d)'
    <3> SUFFICES ASSUME NEW d \in Calls, InFlight(d)' PROVE FALSE
      OBVIOUS
    <3>1. d # c /\ InFlight(d)
      BY <1>7 DEF InFlight
    <3> QED
      BY <3>1, <2>2
  <2>4. \A d \in Calls : calls'[d].step # "ask" /\ ~Answered(d)'
    BY <2>3 DEF InFlight, Answered
  <2>5. ~tokens[n].superseded
    BY <2>1, <1>0, <1>1, <1>2 DEF AloneInv
  <2>6. Clean(store.token)'
    BY <2>5, <1>1, <1>4, <1>8 DEF Clean, UsedSuccessor, Children
  <2> QED
    BY <2>3, <2>4, <2>6 DEF AloneInv
<1>14. PromptInv'
  <2> SUFFICES ASSUME ~history'.trouble PROVE PromptInv'
    BY DEF PromptInv
  <2>1. ~history.trouble
    BY <1>1
  <2>2. tokens'[store'.token].rotated_at = None
    BY <1>1, <1>4, <1>8
  <2>3. ASSUME NEW d \in Calls, InFlight(d)'
        PROVE  /\ 2 * (clock' - calls'[d].since) <= Grace
               /\ calls'[d].step = "ask" /\ tokens'[calls'[d].with].rotated_at # None =>
                      2 * (calls'[d].since - tokens'[calls'[d].with].rotated_at) <= Grace
    <3>1. calls'[d] = calls[d] /\ InFlight(d)
      BY <2>3, <1>7 DEF InFlight
    <3> QED
      BY <2>1, <3>1, <1>0, <1>1 DEF PromptInv
  <2>4. \A t \in DOMAIN tokens' : ~tokens'[t].superseded
    BY <2>1, <1>0, <1>1 DEF PromptInv
  <2> QED
    BY <2>2, <2>3, <2>4 DEF PromptInv
<1>15. IInv'
  BY <1>6, <1>9, <1>10, <1>11, <1>12, <1>13, <1>14 DEF IInv
<1>16. ReportsEnds
  <2>1. n # None
    BY <1>3, Distinct
  <2> QED
    BY <2>1, <1>5 DEF ReportsEnds
<1> QED
  BY <1>4, <1>15, <1>16 DEF Sound, ForgetsDead

\* bauth answers invalid_grant.
LEMMA RefuseRefreshIsSound ==
  ASSUME IInv, NEW c \in Calls, RefuseRefresh(c)
  PROVE  Sound
<1>0. /\ TypeOK /\ RowsInv /\ StoreInv /\ AloneInv /\ PromptInv
      /\ \A d \in Calls : CallInv(calls[d]) /\ AskInv(d) /\ AnswerInv(d)
      /\ calls \in [Calls -> Call]
  BY DEF IInv, TypeOK
<1> DEFINE new == [calls[c] EXCEPT !.step = "reply"]
<1>1. /\ calls[c].step = "ask" /\ UNCHANGED <<clock, store, tokens, history>>
      /\ over' = over \cup {SessionOf(calls[c].with)}
      /\ calls' = [calls EXCEPT ![c] = new]
  BY DEF RefuseRefresh, Update
<1>2. /\ new \in Call /\ new.step = "reply"
      /\ new.with = calls[c].with /\ new.since = calls[c].since /\ new.answer = calls[c].answer
      /\ new.tab = calls[c].tab /\ new.had = calls[c].had
      /\ new.retrying = calls[c].retrying /\ new.kind = calls[c].kind
  BY <1>0 DEF Call, Steps
<1> HIDE DEF new
<1>3. calls'[c] = new /\ \A d \in Calls \ {c} : calls'[d] = calls[d]
  BY <1>0, <1>1
<1>4. /\ InFlight(c) /\ InFlight(c)' /\ ~Answered(c) /\ ~Answered(c)'
      /\ new.answer = None
      /\ \A d \in Calls : (InFlight(d)' <=> InFlight(d)) /\ (Answered(d)' <=> Answered(d))
  <2>1. new.answer = None
    BY <1>0, <1>1, <1>2 DEF CallInv
  <2> QED
    BY <2>1, <1>1, <1>2, <1>3 DEF InFlight, Answered
<1>5. calls[c].with \in DOMAIN tokens
  BY <1>0, <1>4 DEF AskInv
<1>6. TypeOK'
  <2>1. SessionOf(calls[c].with) \in Sessions
    <3>1. tokens[calls[c].with] \in Row
      BY <1>0, <1>5 DEF TypeOK
    <3> QED
      BY <3>1 DEF SessionOf, Row
  <2>2. calls' \in [Calls -> Call]
    BY <1>0, <1>1, <1>2
  <2> QED
    BY <2>1, <2>2, <1>0, <1>1 DEF TypeOK
<1>7. RowsInv' /\ StoreInv'
  BY <1>0, <1>1 DEF RowsInv, StoreInv, SessionOf
<1>8. ASSUME NEW d \in Calls PROVE CallInv(calls[d])'
  <2>1. CASE d = c
    BY <2>1, <1>0, <1>1, <1>2, <1>3 DEF CallInv
  <2>2. CASE d # c
    BY <2>2, <1>0, <1>1, <1>3 DEF CallInv
  <2> QED
    BY <2>1, <2>2
<1>9. ASSUME NEW d \in Calls PROVE AskInv(d)'
  <2>1. CASE d = c
    BY <2>1, <1>0, <1>1, <1>2, <1>3, <1>4 DEF AskInv, SessionOf
  <2>2. CASE d # c
    BY <2>2, <1>0, <1>1, <1>3, <1>4 DEF AskInv, SessionOf
  <2> QED
    BY <2>1, <2>2
<1>10. \A d \in Calls : calls'[d].with = calls[d].with /\ calls'[d].since = calls[d].since
                          /\ calls'[d].answer = calls[d].answer
  BY <1>2, <1>3
<1>11. ASSUME NEW d \in Calls PROVE AnswerInv(d)'
  <2> SUFFICES ASSUME Answered(d)' PROVE AnswerInv(d)'
    BY DEF AnswerInv
  <2>1. Answered(d) /\ AnswerInv(d) /\ calls'[d].answer = calls[d].answer
                    /\ calls'[d].with = calls[d].with
    BY <1>0, <1>4, <1>10
  <2>2. Children(calls[d].answer)' = Children(calls[d].answer)
    BY <2>1, <1>1 DEF Children
  <2>3. \A e \in Calls : InFlight(e)' => calls'[e].with # calls[d].answer
    BY <2>1, <1>4, <1>10 DEF AnswerInv
  <2>4. \A e \in Calls : Answered(e)' /\ calls'[e].answer = calls[d].answer => e = d
    BY <2>1, <1>4, <1>10 DEF AnswerInv
  <2> QED
    BY <2>1, <2>2, <2>3, <2>4, <1>1 DEF AnswerInv
<1>12. AloneInv'
  <2> SUFFICES ASSUME ~history'.overlap PROVE AloneInv'
    BY DEF AloneInv
  <2>1. ~history.overlap
    BY <1>1
  <2>2. \A d, e \in Calls : InFlight(d)' /\ InFlight(e)' => d = e
    BY <2>1, <1>0, <1>4 DEF AloneInv
  <2>3. store' # None => Clean(store.token)'
    BY <2>1, <1>0, <1>1 DEF AloneInv, Clean, UsedSuccessor, Children
  <2>4. ASSUME NEW d \in Calls
        PROVE  InFlight(d)' /\ store' # None /\ store'.token # calls'[d].with =>
                    SessionOf(store.token)' # SessionOf(calls[d].with)'
    BY <2>1, <1>0, <1>1, <1>4, <1>10 DEF AloneInv, SessionOf
  <2>5. ASSUME NEW d \in Calls PROVE calls'[d].step # "ask"
    <3>1. CASE d = c
      BY <3>1, <1>2, <1>3
    <3>2. CASE d # c
      BY <3>2, <2>2, <1>4 DEF InFlight
    <3> QED
      BY <3>1, <3>2
  <2>6. ASSUME NEW d \in Calls PROVE Answered(d)' => ~tokens'[calls'[d].answer].superseded
    BY <2>1, <1>0, <1>1, <1>4, <1>10 DEF AloneInv
  <2> QED
    BY <2>2, <2>3, <2>4, <2>5, <2>6 DEF AloneInv
<1>13. PromptInv'
  <2> SUFFICES ASSUME ~history'.trouble PROVE PromptInv'
    BY DEF PromptInv
  <2>1. ~history.trouble
    BY <1>1
  <2>2. \A t \in DOMAIN tokens' : ~tokens'[t].superseded
    BY <2>1, <1>0, <1>1 DEF PromptInv
  <2>3. ASSUME store' # None, tokens'[store'.token].rotated_at # None
        PROVE  \E d \in Calls : Rotating(d, store.token)'
    <3>1. PICK d \in Calls : Rotating(d, store.token)
      BY <2>1, <2>3, <1>0, <1>1 DEF PromptInv
    <3>2. Answered(d)'
      BY <3>1, <1>4 DEF Rotating
    <3> QED
      BY <3>1, <3>2, <1>1, <1>10 DEF Rotating
  <2>4. ASSUME NEW d \in Calls, InFlight(d)'
        PROVE  /\ 2 * (clock' - calls'[d].since) <= Grace
               /\ calls'[d].step = "ask" /\ tokens'[calls'[d].with].rotated_at # None =>
                      2 * (calls'[d].since - tokens'[calls'[d].with].rotated_at) <= Grace
    <3>1. calls'[d].step = "ask" => calls[d].step = "ask"
      BY <1>1, <1>3
    <3> QED
      BY <2>1, <2>4, <3>1, <1>0, <1>1, <1>4, <1>10 DEF PromptInv
  <2> QED
    BY <2>2, <2>3, <2>4 DEF PromptInv
<1>14. IInv'
  BY <1>6, <1>7, <1>8, <1>9, <1>11, <1>12, <1>13 DEF IInv
<1> QED
  BY <1>1, <1>2, <1>3, <1>14 DEF Sound, ReportsEnds, ForgetsDead

\* Time goes by.
LEMMA TickIsSound ==
  ASSUME IInv, Tick
  PROVE  Sound
<1>0. /\ TypeOK /\ RowsInv /\ StoreInv /\ AloneInv /\ PromptInv
      /\ \A d \in Calls : CallInv(calls[d]) /\ AskInv(d) /\ AnswerInv(d)
      /\ history \in History
  BY DEF IInv, TypeOK
<1>1. UNCHANGED <<store, calls, tokens, over>> /\ clock' = clock + 1 /\ clock \in Nat
  BY <1>0, Distinct DEF Tick, TypeOK
<1> DEFINE slow == \E c \in Calls : InFlight(c) /\ 2 * (clock' - calls[c].since) > Grace
<1>2. /\ history'.trouble = (history.trouble \/ slow)
      /\ history'.overlap = history.overlap
      /\ history' \in History
  <2>1. history' = [history EXCEPT !.trouble = history.trouble \/ slow]
    BY DEF Tick
  <2>2. slow \in BOOLEAN
    OBVIOUS
  <2> HIDE DEF slow
  <2>3. history.trouble \in BOOLEAN
    BY <1>0 DEF History
  <2>4. history'.trouble = (history.trouble \/ slow) /\ history'.overlap = history.overlap
    BY <2>1, <1>0 DEF History
  <2>5. history' \in History
    BY <2>1, <2>2, <2>3, <1>0 DEF History
  <2> QED
    BY <2>4, <2>5
<1>3. TypeOK'
  <2>1. clock' \in Instant
    BY <1>1, Distinct DEF Tick, Instant
  <2> QED
    BY <2>1, <1>0, <1>1, <1>2 DEF TypeOK
<1>4. RowsInv'
  <2> SUFFICES ASSUME NEW t \in DOMAIN tokens, tokens[t].rotated_at # None
               PROVE  tokens[t].rotated_at <= clock + 1
    BY <1>0, <1>1 DEF RowsInv, SessionOf
  <2>1. tokens[t].rotated_at \in Nat
    <3>1. tokens[t] \in Row
      BY <1>0 DEF TypeOK
    <3> QED
      BY <3>1, Distinct DEF Row
  <2>2. tokens[t].rotated_at <= clock
    BY <1>0 DEF RowsInv
  <2> QED
    BY <2>1, <2>2, <1>1
<1>5. StoreInv'
  BY <1>0, <1>1 DEF StoreInv
<1>6. ASSUME NEW d \in Calls PROVE calls[d].since \in Nat
  <2>1. calls[d] \in Call
    BY <1>0 DEF TypeOK
  <2> QED
    BY <2>1, Distinct DEF Call
<1>7. ASSUME NEW d \in Calls PROVE CallInv(calls[d])' /\ AskInv(d)' /\ AnswerInv(d)'
  <2>1. CallInv(calls[d])'
    BY <1>0, <1>1 DEF CallInv
  <2>2. InFlight(d)' => InFlight(d)
    BY <1>1 DEF InFlight
  <2>3. AskInv(d)'
    BY <2>2, <1>0, <1>1, <1>6 DEF AskInv, SessionOf
  <2>4. AnswerInv(d)'
    BY <1>0, <1>1 DEF AnswerInv, Answered, InFlight, Children
  <2> QED
    BY <2>1, <2>3, <2>4
<1>8. AloneInv'
  BY <1>0, <1>1, <1>2 DEF AloneInv, Answered, InFlight, Clean, UsedSuccessor, Children, SessionOf
<1>9. PromptInv'
  <2> SUFFICES ASSUME ~history'.trouble PROVE PromptInv'
    BY DEF PromptInv
  <2>1. ~history.trouble /\ ~slow
    BY <1>2
  <2>2. \A t \in DOMAIN tokens' : ~tokens'[t].superseded
    BY <2>1, <1>0, <1>1 DEF PromptInv
  <2>3. ASSUME store' # None, tokens'[store'.token].rotated_at # None
        PROVE  \E d \in Calls : Rotating(d, store.token)'
    BY <2>1, <2>3, <1>0, <1>1 DEF PromptInv, Rotating, Answered
  <2>4. ASSUME NEW d \in Calls, InFlight(d)'
        PROVE  /\ 2 * (clock' - calls'[d].since) <= Grace
               /\ calls'[d].step = "ask" /\ tokens'[calls'[d].with].rotated_at # None =>
                      2 * (calls'[d].since - tokens'[calls'[d].with].rotated_at) <= Grace
    <3>1. InFlight(d) /\ calls'[d] = calls[d]
      BY <2>4, <1>1 DEF InFlight
    <3>2. ~(2 * (clock' - calls[d].since) > Grace)
      BY <2>1, <3>1
    <3>3. 2 * (clock' - calls[d].since) <= Grace
      BY <3>2, <1>1, <1>6, Distinct
    <3> QED
      BY <2>1, <3>1, <3>3, <1>0, <1>1 DEF PromptInv
  <2> QED
    BY <2>2, <2>3, <2>4 DEF PromptInv
<1> QED
  BY <1>1, <1>3, <1>4, <1>5, <1>7, <1>8, <1>9 DEF IInv, Sound, ReportsEnds, ForgetsDead

-----------------------------------------------------------------------------
(* New rows *)

\* A row is added, and the others keep their session and their parent.
LEMMA RowsGrow ==
  ASSUME TypeOK, RowsInv, NEW rows \in Seq(Row), Len(rows) = Len(tokens),
         \A k \in DOMAIN tokens : rows[k].session = tokens[k].session
                                    /\ rows[k].parent = tokens[k].parent
                                    /\ (rows[k].rotated_at # None => rows[k].rotated_at <= clock),
         NEW s \in Sessions, NEW p \in Token \cup {None},
         p # None => p \in DOMAIN tokens /\ SessionOf(p) = s,
         Len(tokens) < MaxTokens, clock' = clock,
         tokens' = Append(rows, NewRow(s, p)),
         NEW n, n = Len(tokens) + 1
  PROVE  /\ tokens' \in Seq(Row) /\ Len(tokens') = n /\ Len(tokens') <= MaxTokens
         /\ n \in Token /\ n \notin DOMAIN tokens
         /\ DOMAIN tokens' = DOMAIN tokens \cup {n}
         /\ tokens'[n].session = s /\ tokens'[n].parent = p
         /\ tokens'[n].rotated_at = None /\ ~tokens'[n].superseded
         /\ \A k \in DOMAIN tokens : tokens'[k] = rows[k] /\ SessionOf(k)' = SessionOf(k)
         /\ Children(n)' = {}
         /\ \A x \in DOMAIN tokens : x # p => Children(x)' = Children(x)
         /\ p # None => Children(p)' = Children(p) \cup {n}
         /\ RowsInv'
<1>1. /\ tokens \in Seq(Row) /\ Len(tokens) \in Nat /\ MaxTokens \in Nat /\ n \in Nat
      /\ DOMAIN tokens = 1 .. Len(tokens) /\ DOMAIN rows = 1 .. Len(tokens)
  BY Distinct DEF TypeOK
<1> DEFINE row == NewRow(s, p)
<1>2. /\ row \in Row /\ row.session = s /\ row.parent = p /\ row.rotated_at = None
      /\ row.superseded = FALSE
  <2>1. clock + AccessTTL \in Nat
    BY Distinct DEF TypeOK
  <2> QED
    BY <2>1 DEF NewRow, Row
<1> HIDE DEF row
<1>3. tokens' = Append(rows, row)
  BY DEF row
<1>4. /\ tokens' \in Seq(Row) /\ Len(tokens') = n
      /\ DOMAIN tokens' = 1 .. n
      /\ tokens'[n] = row
      /\ \A k \in 1 .. Len(tokens) : tokens'[k] = rows[k]
  BY <1>1, <1>2, <1>3
<1>5. n \in Token /\ n \notin DOMAIN tokens /\ n <= MaxTokens /\ DOMAIN tokens' = DOMAIN tokens \cup {n}
  BY <1>1, <1>4 DEF Token
<1>6. \A k \in DOMAIN tokens :
         tokens'[k] = rows[k] /\ tokens'[k].parent = tokens[k].parent /\ SessionOf(k)' = SessionOf(k)
  BY <1>1, <1>4 DEF SessionOf
<1>7. \A x : x # p => Children(x)' = Children(x)
  BY <1>2, <1>4, <1>5, <1>6 DEF Children
<1>8. n # p
  BY <1>5, Distinct
<1>9. Children(n) = {}
  <2> SUFFICES ASSUME NEW k \in DOMAIN tokens, tokens[k].parent = n PROVE FALSE
    BY DEF Children
  <2>1. n # None
    BY <1>5, Distinct
  <2> QED
    BY <2>1, <1>5 DEF RowsInv
<1>10. p # None => Children(p)' = Children(p) \cup {n}
  BY <1>2, <1>4, <1>5, <1>6 DEF Children
<1>11. RowsInv'
  <2> SUFFICES ASSUME NEW k \in DOMAIN tokens'
               PROVE  /\ tokens'[k].parent # None =>
                            /\ tokens'[k].parent \in DOMAIN tokens'
                            /\ tokens'[k].parent < k
                            /\ SessionOf(tokens[k].parent)' = SessionOf(k)'
                      /\ tokens'[k].rotated_at # None => tokens'[k].rotated_at <= clock'
    BY DEF RowsInv
  <2>1. CASE k \in DOMAIN tokens
    <3>1. tokens'[k].rotated_at # None => tokens'[k].rotated_at <= clock'
      BY <2>1, <1>6
    <3>2. ASSUME tokens'[k].parent # None
          PROVE  /\ tokens'[k].parent \in DOMAIN tokens
                 /\ tokens'[k].parent < k
                 /\ SessionOf(tokens[k].parent) = SessionOf(k)
      BY <2>1, <3>2, <1>6 DEF RowsInv
    <3>3. ASSUME tokens'[k].parent # None
          PROVE  SessionOf(tokens[k].parent)' = SessionOf(k)'
      <4>1. PICK q : q = tokens'[k].parent
        OBVIOUS
      <4>2. q \in DOMAIN tokens /\ SessionOf(q) = SessionOf(k)
        BY <4>1, <3>2, <3>3, <2>1, <1>6
      <4>3. SessionOf(q)' = SessionOf(q) /\ SessionOf(k)' = SessionOf(k)
        BY <4>2, <2>1, <1>6
      <4> QED
        BY <4>1, <4>2, <4>3 DEF SessionOf
    <3> QED
      BY <3>1, <3>2, <3>3, <1>5
  <2>2. CASE k = n
    <3>1. tokens'[k].rotated_at = None /\ tokens'[k].parent = p /\ tokens'[k].session = s
      BY <2>2, <1>2, <1>4
    <3>2. ASSUME p # None
          PROVE  p \in DOMAIN tokens /\ p < n /\ tokens'[p].session = s
      BY <3>2, <1>1, <1>6 DEF SessionOf
    <3> QED
      BY <2>2, <3>1, <3>2, <1>5 DEF SessionOf
  <2> QED
    BY <2>1, <2>2, <1>5
<1> QED
  BY <1>2, <1>4, <1>5, <1>6, <1>7, <1>8, <1>9, <1>10, <1>11

\* A login: a token of a new session in the store.
LEMMA SaveIsSound ==
  ASSUME IInv, NEW s \in Sessions, Save(s)
  PROVE  Sound
<1>0. /\ TypeOK /\ RowsInv /\ StoreInv /\ AloneInv /\ PromptInv
      /\ \A d \in Calls : CallInv(calls[d]) /\ AskInv(d) /\ AnswerInv(d)
  BY DEF IInv
<1>1. /\ UNCHANGED <<clock, calls, over, history>>
      /\ \A t \in DOMAIN tokens : SessionOf(t) # s
      /\ Len(tokens) < MaxTokens
      /\ tokens' = Append(tokens, NewRow(s, None))
      /\ store' = ToStored(Len(tokens'))
  BY DEF Save
<1>2. PICK n : n = Len(tokens) + 1
  OBVIOUS
<1>3. /\ tokens' \in Seq(Row) /\ Len(tokens') = n /\ Len(tokens') <= MaxTokens
      /\ n \in Token /\ n \notin DOMAIN tokens
      /\ DOMAIN tokens' = DOMAIN tokens \cup {n}
      /\ tokens'[n].session = s
      /\ tokens'[n].rotated_at = None /\ ~tokens'[n].superseded
      /\ \A k \in DOMAIN tokens : tokens'[k] = tokens[k] /\ SessionOf(k)' = SessionOf(k)
      /\ Children(n)' = {}
      /\ \A x \in DOMAIN tokens : Children(x)' = Children(x)
      /\ RowsInv'
  <2>1. tokens \in Seq(Row)
    BY <1>0 DEF TypeOK
  <2>2. \A k \in DOMAIN tokens : tokens[k].rotated_at # None => tokens[k].rotated_at <= clock
    BY <1>0 DEF RowsInv
  <2>3. \A k \in DOMAIN tokens : k # None
    <3>1. DOMAIN tokens \subseteq Token
      BY <2>1, <1>0, Distinct DEF TypeOK, Token
    <3> QED
      BY <3>1, Distinct
  <2> QED
    BY <2>1, <2>2, <2>3, <1>0, <1>1, <1>2, RowsGrow
<1>4. store' \in Stored /\ store'.token = n /\ store' # None
  <2>1. clock + AccessTTL \in Nat
    BY <1>0, Distinct DEF TypeOK
  <2>2. store' = [token |-> n, expires |-> clock + AccessTTL]
    BY <1>1, <1>3 DEF ToStored
  <2>3. store' \in Stored /\ store'.token = n
    BY <2>1, <2>2, <1>3 DEF Stored
  <2> QED
    BY <2>3, Distinct
<1>5. TypeOK'
  BY <1>0, <1>1, <1>3, <1>4 DEF TypeOK
<1>6. StoreInv'
  BY <1>3, <1>4 DEF StoreInv
<1>7. ASSUME NEW t \in DOMAIN tokens PROVE Clean(t)' <=> Clean(t)
  <2>1. Children(t)' = Children(t) /\ Children(t) \subseteq DOMAIN tokens
    BY <1>3 DEF Children
  <2> QED
    BY <2>1, <1>3 DEF Clean, UsedSuccessor
<1>8. \A d \in Calls : (InFlight(d)' <=> InFlight(d)) /\ (Answered(d)' <=> Answered(d))
  BY <1>1 DEF InFlight, Answered
<1>9. ASSUME NEW d \in Calls PROVE CallInv(calls[d])'
  BY <1>0, <1>1, <1>3 DEF CallInv
<1>10. ASSUME NEW d \in Calls, InFlight(d)
       PROVE  /\ calls[d].with \in DOMAIN tokens
              /\ tokens'[calls[d].with] = tokens[calls[d].with]
  BY <1>0, <1>3, <1>10 DEF AskInv
<1>11. ASSUME NEW d \in Calls PROVE AskInv(d)'
  BY <1>0, <1>1, <1>3, <1>8, <1>10 DEF AskInv, SessionOf
<1>12. ASSUME NEW d \in Calls PROVE AnswerInv(d)'
  <2> SUFFICES ASSUME Answered(d)' PROVE AnswerInv(d)'
    BY DEF AnswerInv
  <2>1. PICK x : x = calls[d].answer
    OBVIOUS
  <2>2. Answered(d) /\ AnswerInv(d) /\ x \in DOMAIN tokens
    BY <2>1, <1>0, <1>8 DEF AnswerInv
  <2>3. Children(x)' = {} /\ tokens'[x] = tokens[x]
    BY <2>1, <2>2, <1>3 DEF AnswerInv
  <2>4. Children(calls[d].answer)' = {}
    BY <2>1, <2>3, <1>1 DEF Children
  <2>5. store'.token # calls'[d].answer
    BY <2>1, <2>2, <1>1, <1>3, <1>4
  <2>6. /\ \A e \in Calls : InFlight(e)' => calls'[e].with # calls'[d].answer
        /\ \A e \in Calls : Answered(e)' /\ calls'[e].answer = calls'[d].answer => e = d
    BY <2>2, <1>1, <1>8 DEF AnswerInv
  <2> QED
    BY <2>1, <2>2, <2>3, <2>4, <2>5, <2>6, <1>1, <1>3 DEF AnswerInv
<1>13. AloneInv'
  <2> SUFFICES ASSUME ~history'.overlap PROVE AloneInv'
    BY DEF AloneInv
  <2>1. ~history.overlap
    BY <1>1
  <2>2. \A d, e \in Calls : InFlight(d)' /\ InFlight(e)' => d = e
    BY <2>1, <1>0, <1>8 DEF AloneInv
  <2>3. Clean(store.token)'
    BY <1>3, <1>4 DEF Clean, UsedSuccessor, Children
  <2>4. ASSUME NEW d \in Calls, InFlight(d)'
        PROVE  SessionOf(store.token)' # SessionOf(calls[d].with)'
    <3>1. SessionOf(calls[d].with) # s /\ SessionOf(calls[d].with)' = SessionOf(calls[d].with)
      BY <2>4, <1>1, <1>8, <1>10 DEF SessionOf
    <3>2. SessionOf(store.token)' = s
      BY <1>3, <1>4 DEF SessionOf
    <3> QED
      BY <3>1, <3>2
  <2>5. ASSUME NEW d \in Calls, calls'[d].step = "ask" PROVE Clean(calls[d].with)'
    <3>1. PICK t : t = calls[d].with
      OBVIOUS
    <3>2. t \in DOMAIN tokens /\ Clean(t)
      BY <2>1, <2>5, <3>1, <1>0, <1>1, <1>10 DEF AloneInv, InFlight
    <3>3. Clean(t)'
      BY <3>2, <1>7
    <3> QED
      BY <3>1, <3>3, <1>1 DEF Clean, UsedSuccessor, Children
  <2>6. ASSUME NEW d \in Calls, Answered(d)' PROVE ~tokens'[calls'[d].answer].superseded
    <3>1. calls[d].answer \in DOMAIN tokens /\ ~tokens[calls[d].answer].superseded
      BY <2>1, <2>6, <1>0, <1>8 DEF AloneInv, AnswerInv
    <3> QED
      BY <3>1, <1>1, <1>3
  <2> QED
    BY <2>2, <2>3, <2>4, <2>5, <2>6 DEF AloneInv
<1>14. PromptInv'
  <2> SUFFICES ASSUME ~history'.trouble PROVE PromptInv'
    BY DEF PromptInv
  <2>1. ~history.trouble
    BY <1>1
  <2>2. \A t \in DOMAIN tokens' : ~tokens'[t].superseded
    BY <2>1, <1>0, <1>3 DEF PromptInv
  <2>3. tokens'[store'.token].rotated_at = None
    BY <1>3, <1>4
  <2>4. ASSUME NEW d \in Calls, InFlight(d)'
        PROVE  /\ 2 * (clock' - calls'[d].since) <= Grace
               /\ calls'[d].step = "ask" /\ tokens'[calls'[d].with].rotated_at # None =>
                      2 * (calls'[d].since - tokens'[calls'[d].with].rotated_at) <= Grace
    BY <2>1, <2>4, <1>0, <1>1, <1>8, <1>10 DEF PromptInv
  <2> QED
    BY <2>2, <2>3, <2>4 DEF PromptInv
<1>15. IInv'
  BY <1>3, <1>5, <1>6, <1>9, <1>11, <1>12, <1>13, <1>14 DEF IInv
<1> QED
  BY <1>1, <1>4, <1>15 DEF Sound, ReportsEnds, ForgetsDead

-----------------------------------------------------------------------------
(* A refresh *)

\* What presenting a token writes: when it was rotated, or which of its successors
\* a retry past the grace period replaces.
LEMMA PresentedRows ==
  ASSUME TypeOK, RowsInv, NEW t \in DOMAIN tokens
  PROVE  /\ Presented(t) \in Seq(Row) /\ Len(Presented(t)) = Len(tokens)
         /\ \A k \in DOMAIN tokens :
              /\ Presented(t)[k].session = tokens[k].session
              /\ Presented(t)[k].parent = tokens[k].parent
              /\ \/ Presented(t)[k].rotated_at = tokens[k].rotated_at
                 \/ k = t /\ tokens[k].rotated_at = None /\ Presented(t)[k].rotated_at = clock
              /\ \/ Presented(t)[k].superseded = tokens[k].superseded
                 \/ k \in Children(t) /\ tokens[t].rotated_at # None /\ PastGrace(t)
         /\ Presented(t)[t].rotated_at # None
<1>1. tokens \in Seq(Row) /\ clock \in Instant /\ clock # None
  BY Distinct DEF TypeOK
<1>2. \A k \in DOMAIN tokens : tokens[k] \in Row
  BY <1>1
<1>3. CASE tokens[t].rotated_at = None
  <2> DEFINE row == [tokens[t] EXCEPT !.rotated_at = clock]
  <2>1. /\ row \in Row /\ row.session = tokens[t].session /\ row.parent = tokens[t].parent
        /\ row.rotated_at = clock /\ row.superseded = tokens[t].superseded
    BY <1>1, <1>2 DEF Row
  <2>2. Presented(t) = [tokens EXCEPT ![t] = row]
    BY <1>3 DEF Presented
  <2> HIDE DEF row
  <2>3. /\ Presented(t) \in Seq(Row) /\ Len(Presented(t)) = Len(tokens)
        /\ \A k \in DOMAIN tokens : Presented(t)[k] = IF k = t THEN row ELSE tokens[k]
    BY <2>1, <2>2, <1>1
  <2> QED
    BY <2>1, <2>3, <1>1, <1>3
<1>4. CASE tokens[t].rotated_at # None /\ ~PastGrace(t)
  <2>1. Presented(t) = tokens
    BY <1>4 DEF Presented
  <2> QED
    BY <2>1, <1>1, <1>4
<1>5. CASE tokens[t].rotated_at # None /\ PastGrace(t)
  <2> DEFINE new(k) == [tokens[k] EXCEPT !.superseded = TRUE]
  <2>1. ASSUME NEW k \in DOMAIN tokens
        PROVE  /\ new(k) \in Row /\ new(k).session = tokens[k].session
               /\ new(k).parent = tokens[k].parent /\ new(k).rotated_at = tokens[k].rotated_at
    BY <1>2 DEF Row
  <2>2. Presented(t) = [k \in DOMAIN tokens |-> IF k \in Children(t) THEN new(k) ELSE tokens[k]]
    BY <1>5 DEF Presented
  <2> HIDE DEF new
  <2>3. \A k \in DOMAIN tokens : Presented(t)[k] = IF k \in Children(t) THEN new(k) ELSE tokens[k]
    BY <2>2
  <2>4. /\ Len(tokens) \in Nat /\ DOMAIN tokens = 1 .. Len(tokens)
        /\ Presented(t) \in [1 .. Len(tokens) -> Row]
    BY <2>1, <2>2, <1>1, <1>2
  <2>5. Presented(t) \in Seq(Row) /\ Len(Presented(t)) = Len(tokens)
    BY <2>4
  <2> QED
    BY <2>1, <2>3, <2>5, <1>5
<1> QED
  BY <1>3, <1>4, <1>5

\* bauth answers a refresh with new tokens.
LEMMA HandleRefreshIsSound ==
  ASSUME IInv, NEW c \in Calls, HandleRefresh(c)
  PROVE  Sound
<1>0. /\ TypeOK /\ RowsInv /\ StoreInv /\ AloneInv /\ PromptInv
      /\ \A d \in Calls : CallInv(calls[d]) /\ AskInv(d) /\ AnswerInv(d)
      /\ calls \in [Calls -> Call]
  BY DEF IInv, TypeOK
<1>1. PICK t, n : t = calls[c].with /\ n = Len(tokens) + 1
  OBVIOUS
<1>2. /\ calls[c].step = "ask" /\ InFlight(c)
      /\ UNCHANGED <<clock, store, over, history>>
      /\ Len(tokens) < MaxTokens
      /\ tokens' = Append(Presented(t), NewRow(SessionOf(t), t))
      /\ calls' = [calls EXCEPT ![c] = [calls[c] EXCEPT !.step = "reply", !.answer = Len(tokens')]]
  BY <1>1 DEF HandleRefresh, Update, InFlight
<1>3. t \in DOMAIN tokens /\ calls[c].since <= clock
  BY <1>0, <1>1, <1>2 DEF AskInv
<1>4. /\ tokens \in Seq(Row) /\ DOMAIN tokens \subseteq Token
      /\ SessionOf(t) \in Sessions /\ t # None
  <2>1. tokens \in Seq(Row) /\ DOMAIN tokens \subseteq Token
    BY <1>0, Distinct DEF TypeOK, Token
  <2>2. tokens[t] \in Row
    BY <2>1, <1>3
  <2> QED
    BY <2>1, <2>2, <1>3, Distinct DEF SessionOf, Row
<1>5. PICK rows \in Seq(Row) :
        /\ rows = Presented(t) /\ Len(rows) = Len(tokens)
        /\ \A k \in DOMAIN tokens :
              /\ rows[k].session = tokens[k].session
              /\ rows[k].parent = tokens[k].parent
              /\ \/ rows[k].rotated_at = tokens[k].rotated_at
                 \/ k = t /\ tokens[k].rotated_at = None /\ rows[k].rotated_at = clock
              /\ \/ rows[k].superseded = tokens[k].superseded
                 \/ k \in Children(t) /\ tokens[t].rotated_at # None /\ PastGrace(t)
  BY <1>0, <1>3, PresentedRows
<1>6. clock \in Nat
  BY <1>0, Distinct DEF TypeOK
<1>7. \A k \in DOMAIN tokens : rows[k].rotated_at # None => rows[k].rotated_at <= clock
  BY <1>0, <1>5, <1>6 DEF RowsInv
<1>8. /\ tokens' \in Seq(Row) /\ Len(tokens') = n /\ Len(tokens') <= MaxTokens
      /\ n \in Token /\ n \notin DOMAIN tokens
      /\ DOMAIN tokens' = DOMAIN tokens \cup {n}
      /\ tokens'[n].parent = t
      /\ tokens'[n].rotated_at = None /\ ~tokens'[n].superseded
      /\ \A k \in DOMAIN tokens : tokens'[k] = rows[k] /\ SessionOf(k)' = SessionOf(k)
      /\ Children(n)' = {}
      /\ \A x \in DOMAIN tokens : x # t => Children(x)' = Children(x)
      /\ Children(t)' = Children(t) \cup {n}
      /\ RowsInv'
  <2>1. tokens' = Append(rows, NewRow(SessionOf(t), t)) /\ clock' = clock
    BY <1>2, <1>5
  <2>2. t \in Token \cup {None} /\ n = Len(tokens) + 1
    BY <1>1, <1>3, <1>4
  <2>3. \A k \in DOMAIN tokens : rows[k].session = tokens[k].session
                                   /\ rows[k].parent = tokens[k].parent
                                   /\ (rows[k].rotated_at # None => rows[k].rotated_at <= clock)
    BY <1>5, <1>7
  <2>4. Len(rows) = Len(tokens) /\ Len(tokens) < MaxTokens
    BY <1>2, <1>5
  <2>5. PICK s \in Sessions : s = SessionOf(t)
    BY <1>4
  <2>6. tokens' = Append(rows, NewRow(s, t))
    BY <2>1, <2>5
  <2> QED
    BY <2>1, <2>2, <2>3, <2>4, <2>5, <2>6, <1>0, <1>3, <1>4, RowsGrow
<1>9. \A k \in DOMAIN tokens :
         /\ tokens'[k].parent = tokens[k].parent
         /\ \/ tokens'[k].rotated_at = tokens[k].rotated_at
            \/ k = t /\ tokens[k].rotated_at = None /\ tokens'[k].rotated_at = clock
         /\ \/ tokens'[k].superseded = tokens[k].superseded
            \/ k \in Children(t) /\ tokens[t].rotated_at # None /\ PastGrace(t)
  BY <1>5, <1>8
<1> DEFINE new == [calls[c] EXCEPT !.step = "reply", !.answer = n]
<1>10. /\ new \in Call /\ new.step = "reply" /\ new.answer = n
       /\ new.with = t /\ new.since = calls[c].since
       /\ new.tab = calls[c].tab /\ new.had = calls[c].had
       /\ new.retrying = calls[c].retrying /\ new.kind = calls[c].kind
  <2>1. calls[c] \in Call
    BY <1>0
  <2> QED
    BY ZenonT(60), <2>1, <1>1, <1>8 DEF Call, Steps
<1>11. calls' = [calls EXCEPT ![c] = new]
  BY <1>2, <1>8
<1> HIDE DEF new
<1>12. calls'[c] = new /\ \A d \in Calls \ {c} : calls'[d] = calls[d]
  BY <1>0, <1>11
<1>13. /\ Answered(c)' /\ InFlight(c)' /\ ~Answered(c)
       /\ \A d \in Calls : InFlight(d)' <=> InFlight(d)
       /\ \A d \in Calls \ {c} : Answered(d)' <=> Answered(d)
       /\ \A d \in Calls : calls'[d].with = calls[d].with /\ calls'[d].since = calls[d].since
  <2>1. n # None
    BY <1>8, Distinct
  <2> QED
    BY <2>1, <1>1, <1>2, <1>10, <1>12 DEF Answered, InFlight
<1>14. \A d \in Calls : InFlight(d) => calls[d].with \in DOMAIN tokens
  BY <1>0 DEF AskInv
<1>15. TypeOK'
  <2>1. calls' \in [Calls -> Call]
    BY <1>0, <1>10, <1>11
  <2> QED
    BY <2>1, <1>0, <1>2, <1>8 DEF TypeOK
<1>16. StoreInv'
  BY <1>0, <1>2, <1>8 DEF StoreInv
<1>17. ASSUME NEW d \in Calls PROVE CallInv(calls[d])'
  <2>1. CASE d = c
    BY <2>1, <1>0, <1>2, <1>10, <1>12 DEF CallInv
  <2>2. CASE d # c
    BY <2>2, <1>0, <1>8, <1>12 DEF CallInv
  <2> QED
    BY <2>1, <2>2
<1>18. ASSUME NEW d \in Calls PROVE AskInv(d)'
  <2> SUFFICES ASSUME InFlight(d)' PROVE AskInv(d)'
    BY DEF AskInv
  <2>1. PICK x : x = calls[d].with /\ x = calls'[d].with /\ x \in DOMAIN tokens
    BY <1>13, <1>14
  <2>2. calls'[d].since <= clock'
    BY <1>0, <1>2, <1>13 DEF AskInv
  <2>3. ASSUME calls'[d].step = "reply", calls'[d].answer = None
        PROVE  SessionOf(calls[d].with)' \in over'
    <3>1. d # c
      BY <2>3, <1>13 DEF Answered
    <3>2. SessionOf(x) \in over
      BY <2>1, <2>3, <3>1, <1>0, <1>12, <1>13 DEF AskInv
    <3>3. SessionOf(x)' = SessionOf(x)
      BY <2>1, <1>8
    <3> QED
      BY <2>1, <3>2, <3>3, <1>2 DEF SessionOf
  <2> QED
    BY <2>1, <2>2, <2>3, <1>8 DEF AskInv
<1>19. ASSUME NEW d \in Calls PROVE AnswerInv(d)'
  <2> SUFFICES ASSUME Answered(d)' PROVE AnswerInv(d)'
    BY DEF AnswerInv
  <2>1. CASE d = c
    <3>1. calls'[d].answer = n /\ calls'[d].with = t
      BY <2>1, <1>10, <1>12
    <3>2. Children(calls[d].answer)' = {}
      BY <3>1, <1>8 DEF Children
    <3>3. store' # None => store'.token # n
      BY <1>0, <1>2, <1>8 DEF StoreInv
    <3>4. \A e \in Calls : InFlight(e)' => calls'[e].with # n
      BY <1>8, <1>13, <1>14
    <3>5. \A e \in Calls : Answered(e)' /\ calls'[e].answer = n => e = d
      BY <2>1, <1>0, <1>8, <1>12, <1>13 DEF AnswerInv
    <3> QED
      BY <3>1, <3>2, <3>3, <3>4, <3>5, <1>8 DEF AnswerInv
  <2>2. CASE d # c
    <3>1. PICK x : x = calls[d].answer
      OBVIOUS
    <3>2. /\ Answered(d) /\ AnswerInv(d) /\ x \in DOMAIN tokens /\ x # t
          /\ calls'[d].answer = x /\ calls'[d].with = calls[d].with
      BY <2>2, <3>1, <1>0, <1>1, <1>2, <1>12, <1>13 DEF AnswerInv
    <3>3. Children(x)' = {} /\ tokens'[x].rotated_at = None /\ tokens'[x].parent = calls'[d].with
      BY <3>1, <3>2, <1>8, <1>9 DEF AnswerInv
    <3>4. Children(calls[d].answer)' = {}
      BY <3>2, <3>3 DEF Children
    <3>5. store' # None => store'.token # x
      BY <3>1, <3>2, <1>2 DEF AnswerInv
    <3>6. \A e \in Calls : InFlight(e)' => calls'[e].with # x
      BY <3>1, <3>2, <1>13 DEF AnswerInv
    <3>7. ASSUME NEW e \in Calls, Answered(e)', calls'[e].answer = x PROVE e = d
      <4>1. e # c
        BY <3>2, <3>7, <1>8, <1>10, <1>12
      <4> QED
        BY <3>1, <3>2, <3>7, <4>1, <1>12, <1>13 DEF AnswerInv
    <3> QED
      BY <3>2, <3>3, <3>4, <3>5, <3>6, <3>7, <1>8 DEF AnswerInv
  <2> QED
    BY <2>1, <2>2
<1>20. AloneInv'
  <2> SUFFICES ASSUME ~history'.overlap PROVE AloneInv'
    BY DEF AloneInv
  <2>1. ~history.overlap
    BY <1>2
  <2>2. \A d, e \in Calls : InFlight(d)' /\ InFlight(e)' => d = e
    BY <2>1, <1>0, <1>13 DEF AloneInv
  <2>3. Clean(t)
    BY <2>1, <1>0, <1>1, <1>2 DEF AloneInv
  <2>4. ASSUME store' # None PROVE Clean(store.token)'
    <3>1. PICK x : x = store.token
      OBVIOUS
    <3>2. /\ x \in DOMAIN tokens /\ Clean(x)
          /\ x # t => SessionOf(x) # SessionOf(t)
      BY <2>1, <2>4, <3>1, <1>0, <1>1, <1>2 DEF StoreInv, AloneInv
    <3>3. \A k \in Children(t) : k \in DOMAIN tokens /\ k # t /\ SessionOf(k) = SessionOf(t)
      <4> SUFFICES ASSUME NEW k \in Children(t)
                   PROVE  k \in DOMAIN tokens /\ k # t /\ SessionOf(k) = SessionOf(t)
        OBVIOUS
      <4>1. k \in DOMAIN tokens /\ tokens[k].parent = t /\ k \in Nat
        BY <1>4, Distinct DEF Children
      <4>2. t < k /\ SessionOf(t) = SessionOf(k)
        BY <4>1, <1>0, <1>4 DEF RowsInv
      <4> QED
        BY <4>1, <4>2
    <3>4. x \notin Children(t)
      BY <3>2, <3>3
    <3>5. ~tokens'[x].superseded
      BY <3>2, <3>4, <1>9 DEF Clean
    <3>6. ASSUME NEW k \in Children(x) PROVE k # t
      <4>1. k \in DOMAIN tokens /\ tokens[k].parent = x /\ x # None
        BY <3>2, <1>4, Distinct DEF Children
      <4>2. x < k /\ SessionOf(x) = SessionOf(k)
        BY <4>1, <1>0 DEF RowsInv
      <4>3. x \in Nat /\ k \in Nat
        BY <3>2, <4>1, <1>4, Distinct
      <4> QED
        BY <4>2, <4>3, <3>2
    <3>7. \A k \in Children(x)' : tokens'[k].rotated_at = None
      <4>1. \A k \in Children(x) : k \in DOMAIN tokens /\ tokens[k].rotated_at = None
        BY <3>2 DEF Clean, UsedSuccessor, Children
      <4>2. \A k \in Children(x) : tokens'[k].rotated_at = None
        BY <4>1, <3>6, <1>9
      <4>3. Children(x)' \subseteq Children(x) \cup {n}
        BY <3>2, <1>8
      <4> QED
        BY <4>2, <4>3, <1>8
    <3>8. Clean(x)'
      BY <3>5, <3>7 DEF Clean, UsedSuccessor
    <3> QED
      BY <3>1, <3>8, <1>2 DEF Clean, UsedSuccessor, Children
  <2>5. ASSUME NEW d \in Calls, InFlight(d)', store' # None, store'.token # calls'[d].with
        PROVE  SessionOf(store.token)' # SessionOf(calls[d].with)'
    <3>1. PICK x, y : x = store.token /\ y = calls[d].with
      OBVIOUS
    <3>2. SessionOf(x) # SessionOf(y) /\ x \in DOMAIN tokens /\ y \in DOMAIN tokens
      BY <2>1, <2>5, <3>1, <1>0, <1>2, <1>13, <1>14 DEF AloneInv, StoreInv
    <3>3. SessionOf(x)' # SessionOf(y)'
      BY <3>2, <1>8
    <3> QED
      BY <3>1, <3>3, <1>2, <1>13 DEF SessionOf
  <2>6. ASSUME NEW d \in Calls, InFlight(d)' PROVE d = c
    BY <2>2, <2>6, <1>13
  <2>7. ASSUME NEW d \in Calls PROVE calls'[d].step # "ask"
    BY <2>6, <1>10, <1>12 DEF InFlight
  <2>8. ASSUME NEW d \in Calls, Answered(d)' PROVE ~tokens'[calls'[d].answer].superseded
    <3>1. d = c
      BY <2>6, <2>8 DEF Answered, InFlight
    <3> QED
      BY <3>1, <1>8, <1>10, <1>12
  <2> QED
    BY <2>2, <2>4, <2>5, <2>7, <2>8 DEF AloneInv
<1>21. PromptInv'
  <2> SUFFICES ASSUME ~history'.trouble PROVE PromptInv'
    BY DEF PromptInv
  <2>1. ~history.trouble
    BY <1>2
  <2>2. \A d \in Calls : calls[d].since \in Nat
    <3>1. \A d \in Calls : calls[d] \in Call
      BY <1>0
    <3> QED
      BY <3>1, Distinct DEF Call
  <2>3. tokens[t].rotated_at # None => ~PastGrace(t)
    <3> SUFFICES ASSUME tokens[t].rotated_at # None PROVE ~PastGrace(t)
      OBVIOUS
    <3>1. tokens[t].rotated_at \in Nat
      <4>1. tokens[t] \in Row
        BY <1>3, <1>4
      <4> QED
        BY <4>1, Distinct DEF Row
    <3>2. 2 * (clock - calls[c].since) <= Grace /\ 2 * (calls[c].since - tokens[t].rotated_at) <= Grace
      BY <2>1, <1>0, <1>1, <1>2 DEF PromptInv
    <3>3. calls[c].since \in Nat /\ Grace \in Nat
      BY <2>2, Distinct
    <3> QED
      BY SMTT(30), <3>1, <3>2, <3>3, <1>6 DEF PastGrace
  <2>4. ASSUME NEW k \in DOMAIN tokens' PROVE ~tokens'[k].superseded
    <3>1. CASE k = n
      BY <3>1, <1>8
    <3>2. CASE k \in DOMAIN tokens
      BY <3>2, <2>1, <2>3, <1>0, <1>9 DEF PromptInv
    <3> QED
      BY <3>1, <3>2, <1>8
  <2>5. ASSUME store' # None, tokens'[store'.token].rotated_at # None
        PROVE  \E d \in Calls : Rotating(d, store.token)'
    <3>1. PICK x : x = store.token /\ x = store'.token
      BY <1>2
    <3>2. x \in DOMAIN tokens
      BY <2>5, <3>1, <1>0, <1>2 DEF StoreInv
    <3>3. CASE tokens'[x].rotated_at = tokens[x].rotated_at
      <4>1. PICK d \in Calls : Rotating(d, x)
        BY <2>1, <2>5, <3>1, <3>3, <1>0, <1>2 DEF PromptInv
      <4>2. d # c /\ Answered(d)'
        BY <4>1, <1>13 DEF Rotating
      <4>3. Rotating(d, x)'
        BY <4>1, <4>2, <3>3, <1>13 DEF Rotating
      <4> QED
        BY <3>1, <4>3 DEF Rotating
    <3>4. CASE x = t /\ tokens'[x].rotated_at = clock
      <4>1. Rotating(c, x)'
        BY <3>4, <1>1, <1>3, <1>13 DEF Rotating
      <4> QED
        BY <3>1, <4>1 DEF Rotating
    <3> QED
      BY <3>2, <3>3, <3>4, <1>9
  <2>6. ASSUME NEW d \in Calls, InFlight(d)'
        PROVE  /\ 2 * (clock' - calls'[d].since) <= Grace
               /\ calls'[d].step = "ask" /\ tokens'[calls'[d].with].rotated_at # None =>
                      2 * (calls'[d].since - tokens'[calls'[d].with].rotated_at) <= Grace
    <3>1. 2 * (clock' - calls'[d].since) <= Grace
      BY <2>1, <2>6, <1>0, <1>2, <1>13 DEF PromptInv
    <3>2. ASSUME calls'[d].step = "ask", tokens'[calls'[d].with].rotated_at # None
          PROVE  2 * (calls'[d].since - tokens'[calls'[d].with].rotated_at) <= Grace
      <4>1. d # c /\ calls'[d] = calls[d] /\ InFlight(d)
        BY <2>6, <3>2, <1>10, <1>12, <1>13
      <4>2. PICK x : x = calls[d].with /\ x \in DOMAIN tokens
        BY <4>1, <1>14
      <4>3. CASE tokens'[x].rotated_at = tokens[x].rotated_at
        BY <2>1, <3>2, <4>1, <4>2, <4>3, <1>0 DEF PromptInv
      <4>4. CASE tokens'[x].rotated_at = clock
        <5>1. calls[d].since <= clock
          BY <4>1, <1>0 DEF AskInv
        <5>2. 2 * (calls[d].since - clock) <= Grace
          BY <5>1, <2>2, <1>6, Distinct
        <5> QED
          BY <5>2, <4>1, <4>2, <4>4
      <4> QED
        BY <4>2, <4>3, <4>4, <1>9
    <3> QED
      BY <3>1, <3>2
  <2> QED
    BY <2>4, <2>5, <2>6 DEF PromptInv
<1>22. IInv'
  BY <1>8, <1>15, <1>16, <1>17, <1>18, <1>19, <1>20, <1>21 DEF IInv
<1> QED
  BY <1>2, <1>10, <1>12, <1>22 DEF Sound, ReportsEnds, ForgetsDead

-----------------------------------------------------------------------------
(* Theorems *)

\* Every step keeps the invariant, reports only ended sessions and forgets only
\* dead ones.
LEMMA NextIsSound ==
  ASSUME IInv, [Next]_vars
  PROVE  Sound
<1>1. CASE UNCHANGED vars
  <2>1. UNCHANGED <<clock, store, calls, tokens, history>> /\ over' = over /\ over \subseteq Sessions
    BY <1>1 DEF vars, IInv, TypeOK
  <2>2. IInv'
    BY <2>1, NoCallMoves
  <2> QED
    BY <2>1, <2>2 DEF Sound, ReportsEnds, ForgetsDead
<1>2. ASSUME NEW c \in Calls, NEW tab \in Tabs, Refresh(c, tab) PROVE Sound
  BY <1>2, RefreshIsSound
<1>3. ASSUME NEW c \in Calls, NEW kind \in {"fetcher", "middleware"}, NEW tab \in Tabs,
             Begin(c, kind, tab)
      PROVE  Sound
  BY <1>3, BeginIsSound
<1>4. ASSUME NEW c \in Calls, Logout(c) PROVE Sound
  BY <1>4, LogoutIsSound
<1>5. ASSUME NEW c \in Calls, GoOn(c) PROVE Sound
  BY <1>5, HandleRefreshIsSound, RefuseRefreshIsSound, StoreTokensIsSound, FailureIsSound,
     AbandonIsSound, EndIsSound, UnauthorizedIsSound DEF GoOn
<1>6. ASSUME NEW s \in Sessions, Save(s) \/ EndSession(s) PROVE Sound
  BY <1>6, SaveIsSound, EndSessionIsSound
<1>7. CASE Tick
  BY <1>7, TickIsSound
<1> QED
  BY <1>1, <1>2, <1>3, <1>4, <1>5, <1>6, <1>7 DEF Next

\* In every reachable state the invariant holds: what the store, the requests on
\* the way and bauth's rows have to do with each other.
THEOREM IInvHolds == Spec => []IInv
<1>1. IInv /\ [Next]_vars => IInv'
  BY NextIsSound DEF Sound
<1> QED
  BY <1>1, InitEstablishesIInv, PTL DEF Spec

\* Tokens, rows and calls keep the shape session.ts and middleware.ts give them.
THEOREM TypeCorrect == Spec => []TypeOK
<1>1. IInv => TypeOK
  BY DEF IInv
<1> QED
  BY <1>1, IInvHolds, PTL

\* Whatever the tabs do, bauth takes its own user for a thief only after two
\* refreshes were on the way at once, of two tabs or of one that gave up on the
\* first, and a refresh was slower than half the grace period or lost its answer:
\* the shared promise of session.ts and the grace period of bauth are enough for
\* everything else.
THEOREM TabsRaiseNoFalseAlarm == Spec => []NoFalseAlarm
<1>1. IInv => NoFalseAlarm
  <2> SUFFICES ASSUME IInv, NEW c \in Calls, calls[c].step = "ask", LooksStolen(calls[c].with)
               PROVE  history.overlap /\ history.trouble
    BY DEF NoFalseAlarm
  <2>0. TypeOK /\ AloneInv /\ PromptInv /\ AskInv(c) /\ InFlight(c)
    BY DEF IInv, InFlight
  <2>1. calls[c].with \in DOMAIN tokens
    BY <2>0 DEF AskInv
  <2>2. history.overlap
    BY <2>0 DEF AloneInv, Clean, LooksStolen
  <2>3. ASSUME ~history.trouble PROVE FALSE
    <3>1. /\ tokens[calls[c].with].rotated_at # None /\ PastGrace(calls[c].with)
      BY <2>0, <2>1, <2>3 DEF PromptInv, LooksStolen
    <3>2. /\ 2 * (clock - calls[c].since) <= Grace
          /\ 2 * (calls[c].since - tokens[calls[c].with].rotated_at) <= Grace
      BY <2>0, <2>3, <3>1 DEF PromptInv
    <3>3. tokens[calls[c].with] \in Row /\ calls[c] \in Call /\ clock \in Nat /\ Grace \in Nat
      BY <2>0, <2>1, Distinct DEF TypeOK
    <3>4. tokens[calls[c].with].rotated_at \in Nat /\ calls[c].since \in Nat
      BY <3>1, <3>3, Distinct DEF Row, Call
    <3> QED
      BY <3>1, <3>2, <3>3, <3>4 DEF PastGrace
  <2> QED
    BY <2>2, <2>3
<1> QED
  BY <1>1, IInvHolds, PTL

\* But for logout(), only a refresh of a session that is over at bauth empties the
\* store: an unreachable bauth, a lost answer or another tab never does.
THEOREM OnlyTheDeadAreForgotten == Spec => OnlyDeadSessionsAreForgotten
<1>1. IInv /\ [Next]_vars => [store # None /\ store' = None =>
          \E c \in Calls :
             \/ calls[c].step = "idle" /\ calls'[c].step = "revoke"
             \/ InFlight(c) /\ ~InFlight(c)' /\ SessionOf(calls[c].with) \in over]_vars
  BY NextIsSound DEF Sound, ForgetsDead
<1> QED
  BY <1>1, IInvHolds, PTL DEF Spec, OnlyDeadSessionsAreForgotten

\* onUnauthorized is only called with an empty store or after the API refused the
\* replay, for the caller of a refresh and for those who share its promise alike.
THEOREM ReportsAreDeserved == Spec => UnauthorizedIsDeserved
<1>1. IInv /\ [Next]_vars =>
        [\A c \in Calls : calls[c].step # "report" /\ calls'[c].step = "report" =>
            store' = None \/ calls[c].step = "replay"]_vars
  BY NextIsSound DEF Sound, ReportsEnds
<1> QED
  BY <1>1, IInvHolds, PTL DEF Spec, UnauthorizedIsDeserved

=============================================================================
