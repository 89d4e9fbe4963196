-------------------------- MODULE RateLimitsProofs --------------------------
(***************************************************************************)
(* Proofs about module RateLimits: whatever a caller writes in its header, *)
(* its requests are charged to it or to the proxy its trace was lost at,   *)
(* and each subject gets what its limiter owes it over every stretch of    *)
(* time, no more and no less.                                              *)
(***************************************************************************)
EXTENDS RateLimits, FiniteSetTheorems, SequenceTheorems, TLAPS

-----------------------------------------------------------------------------
(* Arithmetic *)

\* The larger of two numbers.
LEMMA MaxOfTwo ==
  ASSUME NEW a \in Int, NEW b \in Int
  PROVE  Max({a, b}) = IF a >= b THEN a ELSE b
BY DEF Max

\* One more request costs one more period.
LEMMA OneMore ==
  ASSUME NEW n \in Int, NEW p \in Int
  PROVE  (n + 1) * p = n * p + p
OBVIOUS

\* Division with a remainder below the divisor.
LEMMA Quotient ==
  ASSUME NEW x \in Nat, NEW p \in Nat \ {0}
  PROVE  /\ x \div p \in Nat
         /\ (x \div p) * p <= x
         /\ x < (x \div p) * p + p
OBVIOUS

\* Fewer periods fit into less time.
LEMMA Cancel ==
  ASSUME NEW m \in Int, NEW n \in Int, NEW p \in Nat \ {0}, m * p < n * p
  PROVE  m < n
OBVIOUS

-----------------------------------------------------------------------------
(* Whose request is it? *)

\* What resolve makes of a header whose last hop that is not trusted is an address,
\* and of one whose hops are all trusted.
LEMMA ResolveStops ==
  ASSUME NEW peer, NEW hops \in Seq(Addresses \cup {Garbage})
  PROVE  /\ peer \notin Trusted => Resolve(peer, hops) = peer
         /\ hops = << >> => Resolve(peer, hops) = peer
         /\ peer \in Trusted /\ hops # << >> /\ (\A i \in DOMAIN hops : hops[i] \in Trusted) =>
               Resolve(peer, hops) = hops[1]
         /\ \A n \in DOMAIN hops :
               peer \in Trusted /\ hops[n] \notin Trusted /\ hops[n] # Garbage
                 /\ (\A i \in DOMAIN hops : i > n => hops[i] \in Trusted) =>
                    Resolve(peer, hops) = hops[n]
<1> DEFINE S == {0} \cup {i \in DOMAIN hops : hops[i] \notin Trusted}
<1>1. Len(hops) \in Nat /\ DOMAIN hops = 1 .. Len(hops)
  OBVIOUS
<1>2. peer \notin Trusted => Resolve(peer, hops) = peer
  BY DEF Resolve
<1>3. ASSUME \A i \in DOMAIN hops : hops[i] \in Trusted
      PROVE  Max(S) = 0
  <2>1. S = {0}
    BY <1>3
  <2> QED
    BY <2>1 DEF Max
<1>4. ASSUME hops = << >>
      PROVE  Resolve(peer, hops) = peer
  <2>1. DOMAIN hops = {} /\ Len(hops) = 0
    BY <1>4
  <2>2. Max(S) = 0
    BY <1>3, <2>1
  <2> QED
    BY <2>1, <2>2 DEF Resolve
<1>5. ASSUME peer \in Trusted, hops # << >>, \A i \in DOMAIN hops : hops[i] \in Trusted
      PROVE  Resolve(peer, hops) = hops[1]
  <2>1. Max(S) = 0
    BY <1>3, <1>5
  <2>2. 1 <= Len(hops)
    BY <1>1, <1>5
  <2> QED
    BY <2>1, <2>2, <1>5 DEF Resolve
<1>6. ASSUME NEW n \in DOMAIN hops, peer \in Trusted, hops[n] \notin Trusted, hops[n] # Garbage,
             \A i \in DOMAIN hops : i > n => hops[i] \in Trusted
      PROVE  Resolve(peer, hops) = hops[n]
  <2>1. n \in S /\ n \in Nat /\ n > 0 /\ n <= Len(hops) /\ \A i \in S : i \in Int /\ n >= i
    BY <1>1, <1>6
  <2>2. Max(S) = n
    BY <2>1 DEF Max
  <2> QED
    BY <2>1, <2>2, <1>6 DEF Resolve
<1> QED
  BY <1>2, <1>4, <1>5, <1>6

\* A concatenation is as long as its parts.
LEMMA LenOfBoth ==
  ASSUME NEW S, NEW s \in Seq(S), NEW t \in Seq(S)
  PROVE  Len(s \o t) = Len(s) + Len(t)
OBVIOUS

\* The tail of a list of two or more has one.
LEMMA TailOfLonger ==
  ASSUME NEW S, NEW s \in Seq(S), s # << >>, Len(s) # 1
  PROVE  Tail(s) \in Seq(S) /\ Tail(s) # << >>
<1>1. Len(s) \in Nat /\ Len(s) > 1
  <2>1. PICK m : m = Len(s)
    OBVIOUS
  <2>2. m \in Nat /\ m # 0 /\ m # 1
    BY <2>1, EmptySeq
  <2>3. m > 1
    BY <2>2
  <2> QED
    BY <2>1, <2>2, <2>3
<1>2. Tail(s) \in Seq(S) /\ Len(Tail(s)) = Len(s) - 1
  BY <1>1
<1>3. Len(Tail(s)) # 0 /\ Len(<< >>) = 0
  BY <1>1, <1>2
<1> QED
  BY <1>2, <1>3

\* SeqOf makes sequences.
LEMMA SeqOfSeq ==
  ASSUME NEW S, NEW b \in Nat, NEW s \in SeqOf(S, b)
  PROVE  s \in Seq(S)
<1>1. PICK k \in 0 .. b : s \in [1 .. k -> S]
  BY DEF SeqOf
<1> QED
  BY <1>1

\* Whatever a caller puts in its header and however many proxies are on the way,
\* the address that is charged is one of the caller's own.
LEMMA ResolveFindsTheCaller ==
  ASSUME NEW c \in Callers, NEW a \in Traced(c)
  PROVE  Resolve(a.peer, a.hops) \in Owns[c] /\ a.from = c
<1>0. PICK forged \in Headers(c), route \in Routes(c) :
         a = [peer |-> route[Len(route)], hops |-> forged \o SubSeq(route, 1, Len(route) - 1),
              from |-> c]
  BY SMTT(30) DEF Traced, Last, Front
<1>1. /\ a.peer = route[Len(route)] /\ a.hops = forged \o SubSeq(route, 1, Len(route) - 1)
      /\ a.from = c
  BY <1>0
<1> SUFFICES Resolve(a.peer, a.hops) \in Owns[c]
  BY <1>1
<1>2. forged \in Headers(c) /\ route \in Routes(c)
  BY <1>0
<1>3. PICK ip \in Owns[c], via \in SeqOf(Trusted, MaxProxies) : route = Cons(ip, via)
  BY <1>2 DEF Routes
<1> DEFINE n == Len(via)
<1>4. /\ ip \in Addresses /\ ip # Garbage
      /\ Trusted \subseteq Addresses
      /\ ip \in Trusted => Owns[c] \subseteq Trusted
  <2>1. Owns[c] \subseteq Addresses
    BY ConstantsAssumption DEF Addresses, Range
  <2> QED
    BY <2>1, ConstantsAssumption
<1>12. forged \in Seq(Addresses \cup {Garbage})
  <2>1. CASE Owns[c] \subseteq Trusted
    BY <2>1, <1>2 DEF Headers
  <2>2. CASE ~(Owns[c] \subseteq Trusted)
    <3>1. forged \in SeqOf(Addresses \cup {Garbage}, MaxForged) /\ MaxForged \in Nat
      BY <2>2, <1>2, ConstantsAssumption DEF Headers
    <3> QED
      BY <3>1, SeqOfSeq
  <2> QED
    BY <2>1, <2>2
<1>5. n \in Nat /\ via \in Seq(Trusted)
  BY <1>3, SeqOfSeq, ConstantsAssumption
<1> HIDE DEF n
<1>6. /\ route \in Seq(Addresses \cup {Garbage})
      /\ Len(route) = n + 1
      /\ route[1] = ip
      /\ \A i \in 2 .. n + 1 : route[i] \in Trusted
  BY <1>3, <1>4, <1>5 DEF n, Cons
<1> DEFINE way == SubSeq(route, 1, n)
           m == Len(forged)
<1>7. /\ way \in Seq(Addresses \cup {Garbage})
      /\ Len(way) = n
      /\ \A i \in 1 .. n : way[i] = route[i]
  BY <1>5, <1>6
<1>8. a.peer = route[n + 1] /\ a.hops = forged \o way
  BY <1>1, <1>5, <1>6
<1> HIDE DEF way, m
<1>9. /\ a.hops \in Seq(Addresses \cup {Garbage})
      /\ n = 0 => a.hops = forged
      /\ m \in Nat
      /\ Len(a.hops) = m + n /\ DOMAIN a.hops = 1 .. m + n
      /\ \A i \in m + 1 .. m + n : a.hops[i] = way[i - m]
  <2>1. m \in Nat /\ Len(forged) = m
    BY <1>12 DEF m
  <2>5. forged \o way \in Seq(Addresses \cup {Garbage})
    BY <1>12, <1>7
  <2>6. Len(forged \o way) = m + n
    BY <2>1, <1>12, <1>7, LenOfBoth
  <2>2. a.hops \in Seq(Addresses \cup {Garbage}) /\ Len(a.hops) = m + n
    BY <2>5, <2>6, <1>8
  <2>3. ASSUME n = 0 PROVE a.hops = forged
    BY <2>3, <1>12, <1>7, <1>8
  <2>4. \A i \in m + 1 .. m + n : a.hops[i] = way[i - m]
    BY <2>1, <1>5, <1>12, <1>7, <1>8
  <2> QED
    BY <2>1, <2>2, <2>3, <2>4, <1>5
<1>10. CASE ip \notin Trusted
  <2>1. CASE n = 0
    <3>1. a.peer = ip
      BY <2>1, <1>6, <1>8
    <3> QED
      BY <3>1, <1>9, <1>10, ResolveStops
  <2>2. CASE n > 0
    <3>1. a.peer \in Trusted
      BY <2>2, <1>5, <1>6, <1>8
    <3>2. m + 1 \in DOMAIN a.hops /\ a.hops[m + 1] = ip
      <4>1. m + 1 \in m + 1 .. m + n /\ m + 1 \in 1 .. m + n /\ (m + 1) - m = 1 /\ 1 \in 1 .. n
        BY <2>2, <1>5, <1>9
      <4> QED
        BY <4>1, <1>6, <1>7, <1>9
    <3>3. \A i \in DOMAIN a.hops : i > m + 1 => a.hops[i] \in Trusted
      BY <1>5, <1>6, <1>7, <1>9
    <3> QED
      BY SMTT(30), <3>1, <3>2, <3>3, <1>4, <1>9, <1>10, ResolveStops
  <2> QED
    BY <2>1, <2>2, <1>5
<1>11. CASE ip \in Trusted
  <2>1. forged = << >> /\ m = 0
    BY <1>2, <1>4, <1>11 DEF Headers, m
  <2>2. CASE n = 0
    <3>1. a.peer = ip /\ a.hops = << >>
      BY <2>1, <2>2, <1>6, <1>8, <1>9
    <3> QED
      BY <3>1, <1>9, ResolveStops
  <2>3. CASE n > 0
    <3>1. a.peer \in Trusted
      BY <2>3, <1>5, <1>6, <1>8
    <3>2. a.hops # << >> /\ 1 \in DOMAIN a.hops /\ a.hops[1] = ip
      BY <2>1, <2>3, <1>5, <1>6, <1>7, <1>9
    <3>3. \A i \in DOMAIN a.hops : a.hops[i] \in Trusted
      <4> SUFFICES ASSUME NEW i \in DOMAIN a.hops
                   PROVE  a.hops[i] \in Trusted
        OBVIOUS
      <4>1. i \in 1 .. n /\ a.hops[i] = route[i]
        BY <2>1, <1>5, <1>7, <1>9
      <4> QED
        BY <4>1, <1>5, <1>6, <1>11
    <3> QED
      BY <3>1, <3>2, <3>3, <1>9, ResolveStops
  <2> QED
    BY <2>2, <2>3, <1>5
<1> QED
  BY <1>10, <1>11

\* A trusted proxy is a caller.
LEMMA TrustedOwner ==
  ASSUME NEW ip \in Trusted
  PROVE  OwnerOf(ip) \in Callers /\ ip \in Owns[OwnerOf(ip)]
<1>1. PICK c \in Callers : ip \in Owns[c]
  BY ConstantsAssumption DEF Addresses, Range
<1> QED
  BY <1>1 DEF OwnerOf

\* A request whose trace was lost up to a proxy is charged to that proxy.
LEMMA ResolveFindsTheProxy ==
  ASSUME NEW c \in Callers, NEW a \in Untraced(c)
  PROVE  a.from \in Callers /\ Resolve(a.peer, a.hops) \in Owns[a.from]
<1>1. PICK way \in {w \in Routes(c) \X (1 .. MaxProxies) : w[2] < Len(w[1])} :
         a = [peer |-> way[1][Len(way[1])],
              hops |-> SubSeq(way[1], way[2] + 1, Len(way[1]) - 1),
              from |-> OwnerOf(way[1][way[2] + 1])]
  BY DEF Untraced, Last
<1>2. PICK route \in Routes(c), k \in 1 .. MaxProxies :
         /\ k < Len(route)
         /\ a.peer = route[Len(route)]
         /\ a.hops = SubSeq(route, k + 1, Len(route) - 1)
         /\ a.from = OwnerOf(route[k + 1])
  BY <1>1
<1>3. PICK ip \in Owns[c], via \in SeqOf(Trusted, MaxProxies) : route = Cons(ip, via)
  BY <1>2 DEF Routes
<1> DEFINE n == Len(via)
<1>4. ip \in Addresses /\ Trusted \subseteq Addresses
  BY ConstantsAssumption DEF Addresses, Range
<1>5. n \in Nat /\ via \in Seq(Trusted)
  BY <1>3, SeqOfSeq, ConstantsAssumption
<1> HIDE DEF n
<1>6. /\ route \in Seq(Addresses \cup {Garbage})
      /\ Len(route) = n + 1
      /\ \A i \in 2 .. n + 1 : route[i] \in Trusted
  BY <1>3, <1>4, <1>5 DEF n, Cons
<1>7. k \in Nat /\ 1 <= k /\ k <= n
  BY <1>2, <1>5, <1>6, ConstantsAssumption
<1>8. route[k + 1] \in Trusted /\ a.peer \in Trusted /\ a.peer = route[n + 1]
  <2>1. k + 1 \in 2 .. n + 1 /\ n + 1 \in 2 .. n + 1
    BY <1>5, <1>7
  <2> QED
    BY <1>2, <1>6, <2>1
<1>9. a.from \in Callers /\ route[k + 1] \in Owns[a.from]
  BY <1>2, <1>8, TrustedOwner
<1>10. a.hops = SubSeq(route, k + 1, n)
  BY <1>2, <1>5, <1>6
<1>11. CASE k = n
  <2>1. a.hops = << >>
    BY <1>5, <1>6, <1>10, <1>11
  <2>2. QED
    <3>1. a.hops \in Seq(Addresses \cup {Garbage})
      BY <2>1
    <3>2. Resolve(a.peer, a.hops) = a.peer
      BY <2>1, <3>1, ResolveStops
    <3> QED
      BY <1>8, <1>9, <1>11, <3>2
<1>12. CASE k < n
  <2>1. /\ a.hops \in Seq(Addresses \cup {Garbage}) /\ Len(a.hops) = n - k
        /\ \A i \in 1 .. n - k : a.hops[i] = route[k + i]
    <3>1. k + 1 \in Nat /\ k + 1 >= 1 /\ k + 1 <= n /\ n <= Len(route) /\ n \in Nat
      BY <1>5, <1>6, <1>7, <1>12
    <3>2. \A i \in k + 1 .. n : i \in 1 .. Len(route)
      BY <1>5, <1>6, <1>7
    <3>3. /\ SubSeq(route, k + 1, n) \in Seq(Addresses \cup {Garbage})
          /\ Len(SubSeq(route, k + 1, n)) = n - (k + 1) + 1
          /\ \A i \in 1 .. n - (k + 1) + 1 :
                SubSeq(route, k + 1, n)[i] = route[(k + 1) + i - 1]
      BY <1>6, <3>1, <3>2
    <3>4. n - (k + 1) + 1 = n - k /\ \A i \in 1 .. n - k : (k + 1) + i - 1 = k + i
      BY <1>5, <1>7
    <3> QED
      BY <1>10, <3>3, <3>4
  <2>2. /\ a.hops # << >> /\ a.hops[1] = route[k + 1]
        /\ \A i \in DOMAIN a.hops : a.hops[i] \in Trusted
    BY <1>5, <1>6, <1>7, <1>12, <2>1, SMTT(20)
  <2> QED
    BY <1>8, <1>9, <2>1, <2>2, ResolveStops
<1> QED
  BY <1>5, <1>7, <1>9, <1>11, <1>12

-----------------------------------------------------------------------------
(* The invariant *)

\* The subject s of limiter l has key k: a mailbox is its own key, a caller has the
\* key of its addresses.
Charges(l, s, k) ==
    IF l = "email_per_address" THEN s \in Mailboxes /\ k = s
    ELSE s \in Callers /\ \E ip \in Owns[s] : k = IpKey(ip)

\* The instant until which the budget of a key is in use.
Busy(l, k) == Max({FullAt(l, k), now})

\* A call in progress has a check to come and the keys of its subjects.
CallInv ==
    \A c \in Callers : calls[c] # None =>
        /\ calls[c].todo # <<>>
        /\ \E ip \in Owns[calls[c].from] : calls[c].ip = IpKey(ip)
        /\ calls[c].email = calls[c].box

\* What was used is of the past, and of a subject that has a key.
UsedInv ==
    \A l \in Limits, s \in Callers \cup Mailboxes :
        /\ \A i \in DOMAIN used[l][s] : used[l][s][i] <= now
        /\ used[l][s] # <<>> => \E k \in Keys(l) : Charges(l, s, k)

\* No bucket is more than a burst behind.
CellInv ==
    \A l \in Limits : \A k \in DOMAIN cells[l] : cells[l][k] <= now + Burst[l] * Period[l]

\* What a subject used since an instant still keeps its bucket busy for as many
\* periods after that instant ...
Charged(l, s, k) ==
    \A t \in 0 .. now : Since(l, s, t) * Period[l] <= Busy(l, k) - t

\* ... and since some instant, when the bucket was full, that is all it has.
Exact(l, s, k) ==
    \E t \in 0 .. now : Since(l, s, t) * Period[l] = Busy(l, k) - t

BucketInv ==
    \A l \in Limits, s \in Callers \cup Mailboxes : \A k \in Keys(l) :
        Charges(l, s, k) => Charged(l, s, k) /\ Exact(l, s, k)

IInv == TypeOK /\ CallInv /\ UsedInv /\ CellInv /\ BucketInv

-----------------------------------------------------------------------------
(* Keys and subjects *)

\* Every ClientIp extracted from a caller's requests has a key of the one it is
\* traced to.
LEMMA ClientIpIsOwn ==
  ASSUME NEW c \in Callers, NEW client \in ClientIps[c]
  PROVE  /\ client.key \in Keys("email_per_ip")
         /\ client.from \in Callers
         /\ \E ip \in Owns[client.from] : client.key = IpKey(ip)
<1>1. PICK a \in Arrivals(c) :
         client.key = IpKey(Resolve(a.peer, a.hops)) /\ client.from = a.from
  BY DEF ClientIps
<1>2. a.from \in Callers /\ Resolve(a.peer, a.hops) \in Owns[a.from]
  BY <1>1, ResolveFindsTheCaller, ResolveFindsTheProxy DEF Arrivals
<1>3. Owns[a.from] \subseteq Addresses
  BY <1>2, ConstantsAssumption DEF Addresses, Range
<1> QED
  BY <1>1, <1>2, <1>3 DEF Keys

\* A subject has one key and a key one subject.
LEMMA OneKeyOneSubject ==
  ASSUME NEW l, NEW s, NEW k, NEW r, NEW j, Charges(l, s, k), Charges(l, r, j)
  PROVE  s = r <=> k = j
<1>1. CASE l = "email_per_address"
  BY <1>1 DEF Charges
<1>2. CASE l # "email_per_address"
  <2>1. PICK ip \in Owns[s] : k = IpKey(ip)
    BY <1>2 DEF Charges
  <2>2. PICK other \in Owns[r] : j = IpKey(other)
    BY <1>2 DEF Charges
  <2>3. s \in Callers /\ r \in Callers
    BY <1>2 DEF Charges
  <2> QED
    BY <2>1, <2>2, <2>3, OwnersAssumption
<1> QED
  BY <1>1, <1>2

\* The next check of a call is charged to its subject.
LEMMA NextCheck ==
  ASSUME TypeOK, CallInv, NEW c \in Callers, calls[c] # None
  PROVE  /\ calls[c] \in Call
         /\ Limit(c) \in Limits
         /\ Key(c) \in Keys(Limit(c))
         /\ Subject(c) \in Callers \cup Mailboxes
         /\ Charges(Limit(c), Subject(c), Key(c))
<1>1. calls[c] \in Call
  BY DEF TypeOK
<1>2. /\ calls[c].todo \in Seq(Limits) /\ calls[c].todo # << >>
      /\ calls[c].ip \in Keys("email_per_ip")
      /\ calls[c].email \in Keys("email_per_address")
      /\ calls[c].box \in Mailboxes
      /\ calls[c].email = calls[c].box
      /\ calls[c].from \in Callers
      /\ \E ip \in Owns[calls[c].from] : calls[c].ip = IpKey(ip)
  BY <1>1 DEF Call, CallInv
<1>3. Limit(c) \in Limits
  BY <1>2 DEF Limit
<1>4. CASE Limit(c) = "email_per_address"
  BY <1>1, <1>2, <1>3, <1>4 DEF Key, Subject, Charges
<1>5. CASE Limit(c) # "email_per_address"
  <2>1. Keys(Limit(c)) = Keys("email_per_ip")
    BY <1>5 DEF Keys
  <2> QED
    BY <2>1, <1>1, <1>2, <1>3, <1>5 DEF Key, Subject, Charges
<1> QED
  BY <1>4, <1>5

-----------------------------------------------------------------------------
(* Counting what was used *)

\* How many of a list of instants are not before t.
CountSince(seq, t) == Cardinality({i \in DOMAIN seq : seq[i] >= t})

\* The count is a number.
LEMMA CountType ==
  ASSUME NEW S, NEW seq \in Seq(S), NEW t
  PROVE  /\ IsFiniteSet({i \in DOMAIN seq : seq[i] >= t})
         /\ CountSince(seq, t) \in Nat
<1> DEFINE D == {i \in DOMAIN seq : seq[i] >= t}
<1>1. DOMAIN seq = 1 .. Len(seq) /\ Len(seq) \in Nat
  OBVIOUS
<1>2. IsFiniteSet(DOMAIN seq)
  BY <1>1, FS_Interval
<1>3. IsFiniteSet(D)
  BY <1>2, FS_Subset
<1> QED
  BY <1>3, FS_CardinalityType DEF CountSince

\* A request that is let through counts once from every instant up to its own.
LEMMA CountAppend ==
  ASSUME NEW S, NEW seq \in Seq(S), NEW x \in S, NEW t
  PROVE  CountSince(Append(seq, x), t) = CountSince(seq, t) + (IF x >= t THEN 1 ELSE 0)
<1> DEFINE D == {i \in DOMAIN seq : seq[i] >= t}
           E == {i \in DOMAIN Append(seq, x) : Append(seq, x)[i] >= t}
           n == Len(seq) + 1
<1>1. /\ DOMAIN seq = 1 .. Len(seq) /\ Len(seq) \in Nat
      /\ DOMAIN Append(seq, x) = 1 .. n
      /\ Append(seq, x)[n] = x
      /\ \A i \in 1 .. Len(seq) : Append(seq, x)[i] = seq[i]
  OBVIOUS
<1>2. IsFiniteSet(D) /\ CountSince(seq, t) \in Nat
  BY CountType
<1>3. n \notin D
  BY <1>1
<1>4. CASE x >= t
  <2>1. E = D \cup {n}
    BY <1>1, <1>4
  <2>2. Cardinality(D \cup {n}) = Cardinality(D) + 1
    BY <1>2, <1>3, FS_AddElement
  <2> QED
    BY <2>1, <2>2, <1>4 DEF CountSince
<1>5. CASE ~(x >= t)
  <2>1. E = D
    BY <1>1, <1>5
  <2>2. CountSince(Append(seq, x), t) = CountSince(seq, t)
    BY <2>1 DEF CountSince
  <2> QED
    BY <2>2, <1>2, <1>5
<1> QED
  BY <1>4, <1>5

\* Nothing is counted from an instant after the last.
LEMMA CountNone ==
  ASSUME NEW seq \in Seq(Nat), NEW t \in Nat, \A i \in DOMAIN seq : seq[i] < t
  PROVE  CountSince(seq, t) = 0
<1>1. {i \in DOMAIN seq : seq[i] >= t} = {}
  OBVIOUS
<1> QED
  BY <1>1, FS_EmptySet DEF CountSince

\* The types of what the limiters are asked for.
LEMMA Types ==
  ASSUME TypeOK, NEW l \in Limits
  PROVE  /\ now \in Nat
         /\ Burst[l] \in Nat \ {0}
         /\ Period[l] \in Nat \ {0}
         /\ \A k : FullAt(l, k) \in Nat
         /\ \A k : Busy(l, k) \in Nat
         /\ \A k : Busy(l, k) = IF FullAt(l, k) >= now THEN FullAt(l, k) ELSE now
         /\ \A s \in Callers \cup Mailboxes : used[l][s] \in Seq(0 .. MaxTime)
         /\ \A s \in Callers \cup Mailboxes : \A t : Since(l, s, t) \in Nat
<1>1. now \in Nat
  BY DEF TypeOK
<1>2. Burst[l] \in Nat \ {0} /\ Period[l] \in Nat \ {0}
  BY ConstantsAssumption
<1>3. ASSUME NEW k PROVE FullAt(l, k) \in Nat
  <2>1. cells[l] \in [DOMAIN cells[l] -> Nat]
    BY DEF TypeOK
  <2> QED
    BY <2>1, <1>1 DEF FullAt
<1>4. ASSUME NEW k PROVE Busy(l, k) = IF FullAt(l, k) >= now THEN FullAt(l, k) ELSE now
  BY <1>1, <1>3, MaxOfTwo DEF Busy
<1>5. ASSUME NEW s \in Callers \cup Mailboxes PROVE used[l][s] \in Seq(0 .. MaxTime)
  BY DEF TypeOK
<1>6. ASSUME NEW s \in Callers \cup Mailboxes, NEW t PROVE Since(l, s, t) \in Nat
  <2>1. CountSince(used[l][s], t) \in Nat
    BY <1>5, CountType
  <2> QED
    BY <2>1 DEF Since, CountSince
<1>7. ASSUME NEW k PROVE Busy(l, k) \in Nat
  BY <1>1, <1>3, <1>4
<1> QED
  BY <1>1, <1>2, <1>3, <1>4, <1>5, <1>6, <1>7

\* A bucket is busy for at most a burst from now.
LEMMA BusyBound ==
  ASSUME TypeOK, CellInv, NEW l \in Limits, NEW k
  PROVE  Busy(l, k) <= now + Burst[l] * Period[l]
<1>1. Burst[l] * Period[l] \in Nat
  BY Types
<1>2. CASE k \in DOMAIN cells[l]
  BY <1>1, <1>2, Types DEF CellInv, FullAt
<1>3. CASE k \notin DOMAIN cells[l]
  BY <1>1, <1>3, Types DEF FullAt
<1> QED
  BY <1>2, <1>3

-----------------------------------------------------------------------------
(* The steps *)

\* Empty buckets and no requests.
LEMMA InitEstablishesIInv == Init => IInv
<1> SUFFICES ASSUME Init PROVE IInv
  OBVIOUS
<1>1. TypeOK
  <2>1. now \in 0 .. MaxTime /\ left \in 0 .. MaxCalls
    BY ConstantsAssumption DEF Init
  <2>2. cells = [l \in Limits |-> cells[l]]
    BY DEF Init
  <2>3. ASSUME NEW l \in Limits
        PROVE  DOMAIN cells[l] \subseteq Keys(l) /\ cells[l] \in [DOMAIN cells[l] -> Nat]
    <3>1. cells[l] = << >> /\ DOMAIN << >> = {}
      BY DEF Init
    <3>2. << >> \in [{} -> Nat]
      OBVIOUS
    <3> QED
      BY <3>1, <3>2
  <2>4. calls \in [Callers -> Call \cup {None}]
    BY DEF Init
  <2>5. used \in [Limits -> [Callers \cup Mailboxes -> Seq(0 .. MaxTime)]]
    BY DEF Init
  <2> QED
    BY <2>1, <2>2, <2>3, <2>4, <2>5 DEF TypeOK
<1>2. CallInv
  BY DEF Init, CallInv
<1>3. \A l \in Limits, s \in Callers \cup Mailboxes : used[l][s] = << >>
  BY DEF Init
<1>4. UsedInv
  BY <1>3 DEF UsedInv
<1>5. \A l \in Limits : cells[l] = << >> /\ DOMAIN cells[l] = {}
  BY DEF Init
<1>6. CellInv
  BY <1>5 DEF CellInv
<1>7. ASSUME NEW l \in Limits, NEW s \in Callers \cup Mailboxes, NEW k
      PROVE  Charged(l, s, k) /\ Exact(l, s, k)
  <2>1. now = 0 /\ Busy(l, k) = 0
    BY <1>1, <1>5, Types DEF Init, FullAt
  <2>2. Since(l, s, 0) = 0
    <3>1. {i \in DOMAIN used[l][s] : used[l][s][i] >= 0} = {}
      BY <1>3
    <3> QED
      BY <3>1, FS_EmptySet DEF Since
  <2>3. Since(l, s, 0) * Period[l] = Busy(l, k) - 0
    BY <2>1, <2>2, <1>1, Types
  <2>4. 0 .. now = {0}
    BY <2>1
  <2> QED
    BY <2>1, <2>3, <2>4 DEF Charged, Exact
<1> QED
  BY <1>1, <1>2, <1>4, <1>6, <1>7 DEF IInv, BucketInv

\* A step that touches no bucket keeps what is known of them.
LEMMA BucketsUntouched ==
  ASSUME IInv, UNCHANGED <<now, cells, used>>
  PROVE  UsedInv' /\ CellInv' /\ BucketInv'
<1>1. UsedInv'
  BY DEF IInv, UsedInv
<1>2. CellInv'
  BY DEF IInv, CellInv
<1>3. ASSUME NEW l \in Limits, NEW s, NEW k
      PROVE  (Charged(l, s, k)' <=> Charged(l, s, k)) /\ (Exact(l, s, k)' <=> Exact(l, s, k))
  BY DEF Charged, Exact, Since, Busy, FullAt
<1>4. BucketInv'
  BY <1>3 DEF IInv, BucketInv
<1> QED
  BY <1>1, <1>2, <1>4

\* A request arrives, with the keys of its caller and its mailbox.
LEMMA ArriveKeepsIInv ==
  ASSUME IInv, NEW c \in Callers, NEW handler \in DOMAIN Checks, Arrive(c, handler)
  PROVE  IInv'
<1>1. PICK client \in ClientIps[c], b \in Mailboxes :
      \E email \in {EmailKey([box |-> b, spelling |-> s]) : s \in Spellings} :
          calls' = [calls EXCEPT ![c] = [todo |-> Checks[handler], ip |-> client.key,
                                         email |-> email, from |-> client.from, box |-> b]]
  BY DEF Arrive
<1>2. PICK email \in {EmailKey([box |-> b, spelling |-> s]) : s \in Spellings} :
          calls' = [calls EXCEPT ![c] = [todo |-> Checks[handler], ip |-> client.key,
                                         email |-> email, from |-> client.from, box |-> b]]
  BY <1>1
<1>3. email = b /\ email \in Keys("email_per_address")
  BY <1>2 DEF EmailKey, Keys
<1> DEFINE ip == client.key
           from == client.from
<1>4. ip \in Keys("email_per_ip") /\ from \in Callers /\ \E own \in Owns[from] : ip = IpKey(own)
  BY ClientIpIsOwn
<1>5. Checks[handler] \in Seq(Limits) /\ Checks[handler] # << >>
  <2>1. handler \in {"request", "change_email", "confirm"}
    BY DEF Checks
  <2>2. CASE handler = "request"
    <3>1. Checks[handler] = <<"email_per_ip", "email_per_address">>
      BY <2>2 DEF Checks
    <3> QED
      BY <3>1 DEF Limits
  <2>3. CASE handler = "change_email"
    <3>1. Checks[handler] = <<"email_per_address", "token_per_ip">>
      BY <2>3 DEF Checks
    <3> QED
      BY <3>1 DEF Limits
  <2>4. CASE handler = "confirm"
    <3>1. Checks[handler] = <<"token_per_ip">>
      BY <2>4 DEF Checks
    <3> QED
      BY <3>1 DEF Limits
  <2> QED
    BY <2>1, <2>2, <2>3, <2>4
<1> DEFINE call == [todo |-> Checks[handler], ip |-> ip, email |-> email, from |-> from,
                    box |-> b]
<1>6. /\ call \in Call
      /\ call.todo # << >>
      /\ \E own \in Owns[call.from] : call.ip = IpKey(own)
      /\ call.email = call.box
  BY <1>3, <1>4, <1>5 DEF Call
<1>7. calls' = [calls EXCEPT ![c] = call]
  BY <1>2
<1> HIDE DEF call
<1>8. TypeOK'
  <2>1. calls' \in [Callers -> Call \cup {None}]
    BY <1>6, <1>7 DEF IInv, TypeOK
  <2>2. left' \in 0 .. MaxCalls
    BY ConstantsAssumption DEF Arrive, IInv, TypeOK
  <2> QED
    BY <2>1, <2>2 DEF Arrive, IInv, TypeOK
<1>9. CallInv'
  BY <1>6, <1>7 DEF IInv, TypeOK, CallInv
<1> QED
  BY <1>8, <1>9, BucketsUntouched DEF Arrive, IInv

\* A request is refused, or its caller goes away.
LEMMA EndKeepsIInv ==
  ASSUME IInv, NEW c \in Callers, Refuse(c) \/ Leave(c)
  PROVE  IInv'
<1>1. calls' = [calls EXCEPT ![c] = None] /\ UNCHANGED <<now, cells, used, left>>
  BY DEF Refuse, Leave
<1>2. TypeOK'
  BY <1>1 DEF IInv, TypeOK
<1>3. CallInv'
  BY <1>1 DEF IInv, TypeOK, CallInv
<1> QED
  BY <1>1, <1>2, <1>3, BucketsUntouched DEF IInv

\* The cleanup takes only buckets that are full, so no budget changes.
LEMMA CleanupKeepsIInv ==
  ASSUME IInv, Cleanup
  PROVE  IInv'
<1>1. TypeOK /\ UNCHANGED <<now, calls, used, left>>
  BY DEF IInv, Cleanup
<1>2. ASSUME NEW l \in Limits
      PROVE  /\ cells'[l] \in [DOMAIN cells'[l] -> Nat]
             /\ DOMAIN cells'[l] \subseteq DOMAIN cells[l]
             /\ \A k \in DOMAIN cells'[l] : cells'[l][k] = cells[l][k]
             /\ \A k \in DOMAIN cells[l] : k \in DOMAIN cells'[l] <=> ~(cells[l][k] <= now)
  <2>1. cells'[l] = [k \in {k \in DOMAIN cells[l] : ~(cells[l][k] <= now)} |-> cells[l][k]]
    BY DEF Cleanup, RetainRecent, Restrict, Full
  <2>2. cells[l] \in [DOMAIN cells[l] -> Nat]
    BY <1>1 DEF TypeOK
  <2> QED
    BY <2>1, <2>2
<1>3. TypeOK'
  <2>1. cells' = [l \in Limits |-> cells'[l]]
    BY DEF Cleanup
  <2>2. \A l \in Limits : DOMAIN cells'[l] \subseteq Keys(l) /\ cells'[l] \in [DOMAIN cells'[l] -> Nat]
    BY <1>1, <1>2 DEF TypeOK
  <2> QED
    BY <2>1, <2>2, <1>1 DEF TypeOK
<1>4. CallInv' /\ UsedInv'
  BY <1>1 DEF IInv, CallInv, UsedInv
<1>5. CellInv'
  BY <1>1, <1>2 DEF IInv, CellInv
<1>6. ASSUME NEW l \in Limits, NEW k
      PROVE  Busy(l, k)' = Busy(l, k)
  <2>1. now' = now /\ now \in Nat /\ FullAt(l, k) \in Nat
    BY <1>1, Types
  <2>2. CASE k \in DOMAIN cells'[l] \/ k \notin DOMAIN cells[l]
    BY <2>1, <2>2, <1>2 DEF Busy, FullAt
  <2>3. CASE k \in DOMAIN cells[l] /\ k \notin DOMAIN cells'[l]
    <3>1. FullAt(l, k) <= now /\ FullAt(l, k)' = now
      BY <2>1, <2>3, <1>2 DEF FullAt
    <3>2. Busy(l, k) = now
      BY <3>1, <2>1, <1>1, Types
    <3>3. Busy(l, k)' = Max({now, now})
      BY <3>1, <2>1 DEF Busy
    <3> QED
      BY <3>2, <3>3, <2>1, MaxOfTwo
  <2> QED
    BY <2>2, <2>3
<1>7. ASSUME NEW l \in Limits, NEW s, NEW k
      PROVE  (Charged(l, s, k) => Charged(l, s, k)') /\ (Exact(l, s, k) => Exact(l, s, k)')
  <2>1. \A t : Since(l, s, t)' = Since(l, s, t)
    BY <1>1 DEF Since
  <2> QED
    BY <2>1, <1>1, <1>6 DEF Charged, Exact
<1>8. BucketInv'
  BY <1>7 DEF IInv, BucketInv, Charges
<1> QED
  BY <1>3, <1>4, <1>5, <1>8 DEF IInv

\* With time a bucket is busy for less long, but no budget is lost.
LEMMA TickKeepsIInv ==
  ASSUME IInv, Tick
  PROVE  IInv'
<1>1. TypeOK /\ now' = now + 1 /\ now \in Nat /\ UNCHANGED <<cells, calls, used, left>>
  <2>1. TypeOK
    BY DEF IInv
  <2>2. now \in Nat
    BY <2>1 DEF TypeOK
  <2> QED
    BY <2>1, <2>2 DEF Tick
<1>2. TypeOK'
  <2>1. MaxTime \in Nat
    BY ConstantsAssumption
  <2>2. now' \in 0 .. MaxTime
    BY <2>1, <1>1 DEF Tick
  <2> QED
    BY <2>2, <1>1 DEF TypeOK
<1>3. CallInv'
  BY <1>1 DEF IInv, CallInv
<1>4. ASSUME NEW l \in Limits, NEW s \in Callers \cup Mailboxes, NEW i \in DOMAIN used[l][s]
      PROVE  used[l][s][i] \in Nat /\ used[l][s][i] <= now
  <2>1. used[l][s] \in Seq(0 .. MaxTime)
    BY <1>1, Types
  <2>2. UsedInv
    BY DEF IInv
  <2>3. used[l][s][i] <= now
    BY <2>2 DEF UsedInv
  <2>4. i \in 1 .. Len(used[l][s])
    BY <2>1
  <2>5. used[l][s][i] \in 0 .. MaxTime
    BY <2>1, <2>4, ElementOfSeq
  <2> QED
    BY <2>3, <2>5
<1>5. UsedInv'
  BY <1>1, <1>4 DEF IInv, UsedInv, Charges
<1>6. CellInv'
  <2> SUFFICES ASSUME NEW l \in Limits, NEW k \in DOMAIN cells[l]
               PROVE  cells[l][k] <= now + 1 + Burst[l] * Period[l]
    BY <1>1 DEF CellInv
  <2>1. cells[l][k] <= now + Burst[l] * Period[l]
    BY DEF IInv, CellInv
  <2>2. cells[l][k] \in Nat /\ Burst[l] * Period[l] \in Nat
    <3>1. cells[l] \in [DOMAIN cells[l] -> Nat]
      BY <1>1 DEF TypeOK
    <3> QED
      BY <3>1, <1>1, Types
  <2> QED
    BY <2>1, <2>2, <1>1
<1>7. ASSUME NEW l \in Limits, NEW s \in Callers \cup Mailboxes, NEW k \in Keys(l),
             Charges(l, s, k)
      PROVE  Charged(l, s, k)' /\ Exact(l, s, k)'
  <2>1. Charged(l, s, k) /\ Exact(l, s, k)
    BY <1>7 DEF IInv, BucketInv
  <2>2. /\ Busy(l, k) \in Nat /\ FullAt(l, k) \in Nat
        /\ Busy(l, k) = IF FullAt(l, k) >= now THEN FullAt(l, k) ELSE now
        /\ Busy(l, k)' = IF FullAt(l, k)' >= now + 1 THEN FullAt(l, k)' ELSE now + 1
        /\ FullAt(l, k)' = IF k \in DOMAIN cells[l] THEN FullAt(l, k) ELSE now + 1
    <3>1. FullAt(l, k)' = IF k \in DOMAIN cells[l] THEN FullAt(l, k) ELSE now + 1
      BY <1>1 DEF FullAt
    <3>2. FullAt(l, k) \in Nat /\ FullAt(l, k)' \in Nat
      BY <3>1, <1>1, Types
    <3>3. Busy(l, k)' = Max({FullAt(l, k)', now + 1})
      BY <1>1 DEF Busy
    <3>4. Busy(l, k)' = IF FullAt(l, k)' >= now + 1 THEN FullAt(l, k)' ELSE now + 1
      BY <3>2, <3>3, <1>1, MaxOfTwo
    <3> QED
      BY <3>1, <3>2, <3>4, <1>1, Types
  <2>3. /\ Busy(l, k)' \in Nat
        /\ Busy(l, k)' >= Busy(l, k)
        /\ Busy(l, k)' >= now + 1
        /\ Busy(l, k)' # Busy(l, k) => Busy(l, k)' = now + 1
    <3>1. CASE k \in DOMAIN cells[l]
      BY <3>1, <2>2, <1>1
    <3>2. CASE k \notin DOMAIN cells[l]
      <4>1. FullAt(l, k) = now
        BY <3>2 DEF FullAt
      <4> QED
        BY <4>1, <3>2, <2>2, <1>1
    <3> QED
      BY <3>1, <3>2
  <2>4. \A t : Since(l, s, t)' = Since(l, s, t)
    BY <1>1 DEF Since
  <2>5. Since(l, s, now + 1) = 0
    <3>0. used[l][s] \in Seq(0 .. MaxTime)
      BY <1>1, Types
    <3>1. used[l][s] \in Seq(Nat)
      <4>1. 0 .. MaxTime \subseteq Nat
        OBVIOUS
      <4> QED
        BY <3>0, <4>1, SeqMonotonic
    <3>2. \A i \in DOMAIN used[l][s] : used[l][s][i] < now + 1
      BY <1>1, <1>4
    <3>3. CountSince(used[l][s], now + 1) = 0
      BY <3>1, <3>2, <1>1, CountNone
    <3> QED
      BY <3>3 DEF Since, CountSince
  <2>6. ASSUME NEW t \in 0 .. now + 1
        PROVE  Since(l, s, t) * Period[l] <= Busy(l, k)' - t
    <3>1. CASE t = now + 1
      BY <3>1, <2>3, <2>5, <1>1, Types
    <3>2. CASE t # now + 1
      <4>1. t \in 0 .. now
        BY <3>2, <1>1
      <4>2. Since(l, s, t) * Period[l] <= Busy(l, k) - t
        BY <4>1, <2>1 DEF Charged
      <4>3. Since(l, s, t) * Period[l] \in Nat
        BY <1>1, Types
      <4> QED
        BY <4>1, <4>2, <4>3, <2>2, <2>3
    <3> QED
      BY <3>1, <3>2
  <2>7. Charged(l, s, k)'
    BY <2>4, <2>6, <1>1 DEF Charged
  <2>8. \E t \in 0 .. now + 1 : Since(l, s, t) * Period[l] = Busy(l, k)' - t
    <3>1. CASE Busy(l, k)' = Busy(l, k)
      <4>1. PICK t \in 0 .. now : Since(l, s, t) * Period[l] = Busy(l, k) - t
        BY <2>1 DEF Exact
      <4>2. t \in 0 .. now + 1
        BY <4>1, <1>1
      <4> QED
        BY <4>1, <4>2, <3>1
    <3>2. CASE Busy(l, k)' = now + 1
      <4>1. now + 1 \in 0 .. now + 1
        BY <1>1
      <4>2. Since(l, s, now + 1) * Period[l] = Busy(l, k)' - (now + 1)
        BY <3>2, <2>5, <1>1, Types
      <4> QED
        BY <4>1, <4>2
    <3> QED
      BY <3>1, <3>2, <2>3
  <2>9. Exact(l, s, k)'
    BY <2>4, <2>8, <1>1 DEF Exact
  <2> QED
    BY <2>7, <2>9
<1>8. BucketInv'
  BY <1>7 DEF BucketInv, Charges
<1> QED
  BY <1>2, <1>3, <1>5, <1>6, <1>8 DEF IInv

\* A request that is let through moves its own bucket by a period, and no other.
LEMMA LetThroughKeepsIInv ==
  ASSUME IInv, NEW c \in Callers, LetThrough(c)
  PROVE  IInv'
<1>0. TypeOK /\ CallInv /\ UsedInv /\ CellInv /\ BucketInv
  BY DEF IInv
<1>1. calls[c] # None /\ UNCHANGED <<now, left>> /\ calls' = [calls EXCEPT ![c] = Rest(c)]
  BY DEF LetThrough
<1>2. PICK lim, key, sub :
         /\ lim \in Limits /\ key \in Keys(lim) /\ sub \in Callers \cup Mailboxes
         /\ lim = Limit(c) /\ key = Key(c) /\ sub = Subject(c)
  <2>1. Limit(c) \in Limits /\ Key(c) \in Keys(Limit(c)) /\ Subject(c) \in Callers \cup Mailboxes
    BY <1>0, <1>1, NextCheck
  <2> QED
    BY <2>1
<1>3. Charges(lim, sub, key)
  BY <1>0, <1>1, <1>2, NextCheck
<1>4. now \in Nat /\ now \in 0 .. MaxTime /\ Period[lim] \in Nat \ {0} /\ Burst[lim] \in Nat \ {0}
  BY <1>0, <1>2, Types DEF TypeOK
<1>5. Busy(lim, key) \in Nat /\ Busy(lim, key) + Period[lim] <= now + Burst[lim] * Period[lim]
  <2>1. Busy(lim, key) \in Nat
    BY <1>0, <1>2, Types
  <2> QED
    BY <2>1, <1>2 DEF LetThrough, Allows, Busy
<1> DEFINE bucket == [k \in DOMAIN cells[lim] \cup {key} |->
                        IF k = key THEN Busy(lim, key) + Period[lim] ELSE cells[lim][k]]
<1>6. cells' = [cells EXCEPT ![lim] = bucket]
  BY <1>2 DEF LetThrough, Spend, Busy
<1>7. /\ bucket \in [DOMAIN cells[lim] \cup {key} -> Nat]
      /\ DOMAIN bucket = DOMAIN cells[lim] \cup {key}
      /\ bucket[key] = Busy(lim, key) + Period[lim]
      /\ \A k \in DOMAIN cells[lim] : k # key => bucket[k] = cells[lim][k]
  <2>1. cells[lim] \in [DOMAIN cells[lim] -> Nat]
    BY <1>0, <1>2 DEF TypeOK
  <2> QED
    BY <2>1, <1>4, <1>5
<1> HIDE DEF bucket
<1>8. /\ DOMAIN cells = Limits
      /\ cells'[lim] = bucket
      /\ \A l \in Limits : l # lim => cells'[l] = cells[l]
  BY <1>0, <1>2, <1>6 DEF TypeOK
<1> DEFINE list == Append(used[lim][sub], now)
<1>9. /\ used' = [used EXCEPT ![lim] = [used[lim] EXCEPT ![sub] = list]]
      /\ used[lim] \in [Callers \cup Mailboxes -> Seq(0 .. MaxTime)]
      /\ used[lim][sub] \in Seq(0 .. MaxTime)
      /\ list \in Seq(0 .. MaxTime)
  <2>1. /\ used[lim] \in [Callers \cup Mailboxes -> Seq(0 .. MaxTime)]
        /\ used[lim][sub] \in Seq(0 .. MaxTime)
    BY <1>0, <1>2 DEF TypeOK
  <2>2. list \in Seq(0 .. MaxTime)
    BY <2>1, <1>4
  <2>3. used' = [used EXCEPT ![lim] = [used[lim] EXCEPT ![sub] = list]]
    BY <1>2 DEF LetThrough
  <2> QED
    BY <2>1, <2>2, <2>3
<1>10. /\ used'[lim][sub] = list
       /\ \A l \in Limits, s \in Callers \cup Mailboxes :
             (l # lim \/ s # sub) => used'[l][s] = used[l][s]
       /\ used' \in [Limits -> [Callers \cup Mailboxes -> Seq(0 .. MaxTime)]]
  BY <1>0, <1>2, <1>9 DEF TypeOK
<1>11. calls[c] \in Call /\ calls[c].todo \in Seq(Limits) /\ calls[c].todo # << >>
  BY <1>0, <1>1, NextCheck DEF Call, CallInv
<1>12. /\ Rest(c) \in Call \cup {None}
       /\ Rest(c) # None =>
            /\ Rest(c).todo # << >>
            /\ Rest(c).ip = calls[c].ip
            /\ Rest(c).email = calls[c].email
            /\ Rest(c).from = calls[c].from
            /\ Rest(c).box = calls[c].box
  <2>1. CASE Len(calls[c].todo) = 1
    BY <2>1 DEF Rest
  <2>2. CASE Len(calls[c].todo) # 1
    <3>1. Tail(calls[c].todo) \in Seq(Limits) /\ Tail(calls[c].todo) # << >>
      BY <2>2, <1>11, TailOfLonger
    <3>2. Rest(c) = [calls[c] EXCEPT !.todo = Tail(calls[c].todo)]
      BY <2>2 DEF Rest
    <3> QED
      BY <3>1, <3>2, <1>11 DEF Call
  <2> QED
    BY <2>1, <2>2
<1>13. TypeOK'
  <2>1. cells' = [l \in Limits |-> cells'[l]]
    BY <1>0, <1>2, <1>6 DEF TypeOK
  <2>2. ASSUME NEW l \in Limits
        PROVE  DOMAIN cells'[l] \subseteq Keys(l) /\ cells'[l] \in [DOMAIN cells'[l] -> Nat]
    BY <1>0, <1>2, <1>7, <1>8 DEF TypeOK
  <2>3. calls' \in [Callers -> Call \cup {None}]
    BY <1>0, <1>1, <1>12 DEF TypeOK
  <2> QED
    BY <2>1, <2>2, <2>3, <1>0, <1>1, <1>10 DEF TypeOK
<1>14. CallInv'
  BY <1>0, <1>1, <1>12 DEF TypeOK, CallInv
<1>15. UsedInv'
  <2> SUFFICES ASSUME NEW l \in Limits, NEW s \in Callers \cup Mailboxes
               PROVE  /\ \A i \in DOMAIN used'[l][s] : used'[l][s][i] <= now
                      /\ used'[l][s] # << >> => \E k \in Keys(l) : Charges(l, s, k)
    BY <1>1 DEF UsedInv, Charges
  <2>1. CASE l # lim \/ s # sub
    BY <2>1, <1>0, <1>10 DEF UsedInv
  <2>2. CASE l = lim /\ s = sub
    <3>1. \A i \in DOMAIN used[lim][sub] : used[lim][sub][i] <= now
      BY <1>0, <1>2 DEF UsedInv
    <3>2. \A i \in DOMAIN list : list[i] <= now
      BY <3>1, <1>4, <1>9
    <3> QED
      BY <3>2, <2>2, <1>2, <1>3, <1>10
  <2> QED
    BY <2>1, <2>2
<1>16. CellInv'
  <2> SUFFICES ASSUME NEW l \in Limits, NEW k \in DOMAIN cells'[l]
               PROVE  cells'[l][k] <= now + Burst[l] * Period[l]
    BY <1>1 DEF CellInv
  <2>1. CASE l # lim
    BY <2>1, <1>0, <1>8 DEF CellInv
  <2>2. CASE l = lim
    <3>1. CASE k = key
      BY <3>1, <2>2, <1>5, <1>7, <1>8
    <3>2. CASE k # key
      BY <3>2, <2>2, <1>0, <1>7, <1>8 DEF CellInv
    <3> QED
      BY <3>1, <3>2
  <2> QED
    BY <2>1, <2>2
<1>17. ASSUME NEW l \in Limits, NEW s \in Callers \cup Mailboxes, NEW k \in Keys(l),
              Charges(l, s, k)
       PROVE  Charged(l, s, k)' /\ Exact(l, s, k)'
  <2>1. Charged(l, s, k) /\ Exact(l, s, k)
    BY <1>0, <1>17 DEF BucketInv
  <2>2. CASE l # lim \/ s # sub
    <3>1. l = lim => k # key
      BY <2>2, <1>3, <1>17, OneKeyOneSubject
    <3>2. FullAt(l, k)' = FullAt(l, k)
      <4>1. CASE l # lim
        BY <4>1, <1>1, <1>8 DEF FullAt
      <4>2. CASE l = lim
        BY <4>2, <3>1, <1>1, <1>7, <1>8 DEF FullAt
      <4> QED
        BY <4>1, <4>2
    <3>3. Busy(l, k)' = Busy(l, k)
      BY <3>2, <1>1 DEF Busy
    <3>4. \A t : Since(l, s, t)' = Since(l, s, t)
      BY <2>2, <1>10 DEF Since
    <3> QED
      BY <3>3, <3>4, <2>1, <1>1 DEF Charged, Exact
  <2>3. CASE l = lim /\ s = sub
    <3>1. k = key
      BY <2>3, <1>3, <1>17, OneKeyOneSubject
    <3>2. Busy(lim, key)' = Busy(lim, key) + Period[lim]
      <4>1. FullAt(lim, key)' = Busy(lim, key) + Period[lim]
        BY <1>7, <1>8 DEF FullAt
      <4>2. Busy(lim, key) >= now
        BY <1>0, <1>2, Types
      <4>3. Busy(lim, key)' = Max({Busy(lim, key) + Period[lim], now})
        BY <4>1, <1>1 DEF Busy
      <4> QED
        BY <4>2, <4>3, <1>4, <1>5, MaxOfTwo
    <3>3. ASSUME NEW t \in 0 .. now
          PROVE  /\ Since(lim, sub, t) \in Nat
                 /\ Since(lim, sub, t)' * Period[lim]
                      = Since(lim, sub, t) * Period[lim] + Period[lim]
      <4>1. Since(lim, sub, t) \in Nat
        BY <1>0, <1>2, Types
      <4>2. CountSince(list, t) = CountSince(used[lim][sub], t) + (IF now >= t THEN 1 ELSE 0)
        BY <1>4, <1>9, CountAppend
      <4>3. now >= t
        BY <1>4
      <4>4. Since(lim, sub, t)' = CountSince(list, t)
        BY <1>10 DEF Since, CountSince
      <4>5. Since(lim, sub, t) = CountSince(used[lim][sub], t)
        BY DEF Since, CountSince
      <4>6. Since(lim, sub, t)' = Since(lim, sub, t) + 1
        BY <4>2, <4>3, <4>4, <4>5
      <4> QED
        BY <4>1, <4>6, <1>4, OneMore
    <3>4. ASSUME NEW t \in 0 .. now
          PROVE  Since(lim, sub, t) * Period[lim] \in Int /\ t \in Int
      BY <3>3, <1>4
    <3>5. \A t \in 0 .. now : Since(lim, sub, t)' * Period[lim] <= Busy(lim, key)' - t
      <4> SUFFICES ASSUME NEW t \in 0 .. now
                   PROVE  Since(lim, sub, t)' * Period[lim] <= Busy(lim, key)' - t
        OBVIOUS
      <4>1. Since(lim, sub, t) * Period[lim] <= Busy(lim, key) - t
        BY <2>1, <2>3, <3>1 DEF Charged
      <4> QED
        BY <4>1, <3>2, <3>3, <3>4, <1>4, <1>5
    <3>6. \E t \in 0 .. now : Since(lim, sub, t)' * Period[lim] = Busy(lim, key)' - t
      <4>1. PICK t \in 0 .. now : Since(lim, sub, t) * Period[lim] = Busy(lim, key) - t
        BY <2>1, <2>3, <3>1 DEF Exact
      <4>2. Since(lim, sub, t)' * Period[lim] = Busy(lim, key)' - t
        BY <4>1, <3>2, <3>3, <3>4, <1>4, <1>5
      <4> QED
        BY <4>1, <4>2
    <3> QED
      BY <3>1, <3>5, <3>6, <2>3, <1>1 DEF Charged, Exact
  <2> QED
    BY <2>2, <2>3
<1>18. BucketInv'
  BY <1>17 DEF BucketInv, Charges
<1> QED
  BY <1>13, <1>14, <1>15, <1>16, <1>18 DEF IInv

\* Every step keeps the invariant.
LEMMA NextKeepsIInv == IInv /\ [Next]_vars => IInv'
<1> SUFFICES ASSUME IInv, [Next]_vars PROVE IInv'
  OBVIOUS
<1>1. CASE \E c \in Callers : \E handler \in DOMAIN Checks : Arrive(c, handler)
  BY <1>1, ArriveKeepsIInv
<1>2. CASE \E c \in Callers : LetThrough(c)
  BY <1>2, LetThroughKeepsIInv
<1>3. CASE \E c \in Callers : Refuse(c) \/ Leave(c)
  BY <1>3, EndKeepsIInv
<1>4. CASE Cleanup
  BY <1>4, CleanupKeepsIInv
<1>5. CASE Tick
  BY <1>5, TickKeepsIInv
<1>6. CASE UNCHANGED vars
  <2>1. TypeOK' /\ CallInv'
    BY <1>6 DEF IInv, TypeOK, CallInv, vars
  <2> QED
    BY <2>1, <1>6, BucketsUntouched DEF IInv, vars
<1> QED
  BY <1>1, <1>2, <1>3, <1>4, <1>5, <1>6 DEF Next

-----------------------------------------------------------------------------
(* Theorems *)

\* The invariant holds in every state the rate limits can reach.
THEOREM IInvHolds == Spec => []IInv
BY InitEstablishesIInv, NextKeepsIInv, PTL DEF Spec

\* The maps, the requests and the records always have their types.
THEOREM TypeCorrect == Spec => []TypeOK
<1>1. IInv => TypeOK
  BY DEF IInv
<1> QED
  BY <1>1, IInvHolds, PTL

\* No subject is let through more often than its limiter owes it (check_key), over
\* any stretch of time, whatever its header says, with the cleanup in between.
THEOREM NoMoreThanOwed == Spec => []WindowBudget
<1>1. IInv => WindowBudget
  <2> SUFFICES ASSUME IInv, NEW l \in Limits, NEW s \in Callers \cup Mailboxes, NEW t \in 0 .. now
               PROVE  Since(l, s, t) <= Owed(l, t)
    BY DEF WindowBudget
  <2>1. TypeOK /\ UsedInv /\ CellInv /\ BucketInv
    BY DEF IInv
  <2>2. /\ now \in Nat /\ t \in Nat /\ now - t \in Nat
        /\ Burst[l] \in Nat /\ Period[l] \in Nat \ {0}
        /\ Since(l, s, t) \in Nat
    BY <2>1, Types
  <2> DEFINE q == (now - t) \div Period[l]
  <2>3. q \in Nat /\ now - t < q * Period[l] + Period[l]
    BY <2>2, Quotient
  <2>4. CASE used[l][s] = << >>
    <3>1. {i \in DOMAIN used[l][s] : used[l][s][i] >= t} = {}
      BY <2>4
    <3>2. Since(l, s, t) = 0
      BY <3>1, FS_EmptySet DEF Since
    <3> QED
      BY <3>2, <2>2, <2>3 DEF Owed
  <2>5. CASE used[l][s] # << >>
    <3>1. PICK k \in Keys(l) : Charges(l, s, k)
      BY <2>1, <2>5 DEF UsedInv
    <3>2. Since(l, s, t) * Period[l] <= Busy(l, k) - t
      BY <3>1, <2>1 DEF BucketInv, Charged
    <3>3. Busy(l, k) <= now + Burst[l] * Period[l] /\ Busy(l, k) \in Nat
      BY <2>1, BusyBound, Types
    <3> HIDE DEF q
    <3>4. /\ Since(l, s, t) * Period[l] \in Nat
          /\ Burst[l] * Period[l] \in Nat
          /\ q * Period[l] \in Nat
          /\ (Burst[l] + q + 1) * Period[l] = Burst[l] * Period[l] + q * Period[l] + Period[l]
      BY <2>2, <2>3
    <3>5. Since(l, s, t) * Period[l] < (Burst[l] + q + 1) * Period[l]
      BY <3>2, <3>3, <3>4, <2>2, <2>3
    <3>6. Since(l, s, t) < Burst[l] + q + 1
      BY <3>5, <2>2, <2>3, Cancel
    <3> QED
      BY <3>6, <2>2, <2>3 DEF Owed, q
  <2> QED
    BY <2>4, <2>5
<1> QED
  BY <1>1, IInvHolds, PTL

\* A check refuses a request only if its own subject has used, since some instant,
\* exactly what the limiter owes it: nobody pays for anybody else.
THEOREM NoLessThanOwed == Spec => []RefusalIsDeserved
<1>1. IInv => RefusalIsDeserved
  <2> SUFFICES ASSUME IInv, NEW c \in Callers, calls[c] # None,
                      ~Allows(Limit(c), FullAt(Limit(c), Key(c)))
               PROVE  \E t \in 0 .. now : Since(Limit(c), Subject(c), t) = Owed(Limit(c), t)
    BY DEF RefusalIsDeserved
  <2>1. TypeOK /\ CallInv /\ CellInv /\ BucketInv
    BY DEF IInv
  <2>2. PICK l, k, s :
           /\ l \in Limits /\ k \in Keys(l) /\ s \in Callers \cup Mailboxes
           /\ l = Limit(c) /\ k = Key(c) /\ s = Subject(c)
    <3>1. Limit(c) \in Limits /\ Key(c) \in Keys(Limit(c)) /\ Subject(c) \in Callers \cup Mailboxes
      BY <2>1, NextCheck
    <3> QED
      BY <3>1
  <2>3. Charges(l, s, k)
    BY <2>1, <2>2, NextCheck
  <2>4. PICK t \in 0 .. now : Since(l, s, t) * Period[l] = Busy(l, k) - t
    BY <2>1, <2>2, <2>3 DEF BucketInv, Exact
  <2>5. /\ now \in Nat /\ t \in Nat /\ now - t \in Nat
        /\ Burst[l] \in Nat /\ Period[l] \in Nat \ {0}
        /\ Since(l, s, t) \in Nat
        /\ Busy(l, k) \in Nat
    BY <2>1, <2>2, <2>4, Types
  <2>6. Busy(l, k) + Period[l] > now + Burst[l] * Period[l]
    <3>1. ~(Busy(l, k) + Period[l] <= now + Burst[l] * Period[l])
      BY <2>2 DEF Allows, Busy
    <3> QED
      BY <3>1, <2>5
  <2>7. Busy(l, k) <= now + Burst[l] * Period[l]
    BY <2>1, <2>2, BusyBound
  <2> DEFINE q == (now - t) \div Period[l]
  <2>8. /\ q \in Nat
        /\ q * Period[l] <= now - t
        /\ now - t < q * Period[l] + Period[l]
    BY <2>5, Quotient
  <2> HIDE DEF q
  <2>9. /\ Burst[l] * Period[l] \in Nat
        /\ q * Period[l] \in Nat
        /\ (Burst[l] + q + 1) * Period[l] = Burst[l] * Period[l] + q * Period[l] + Period[l]
        /\ (Burst[l] + q - 1) * Period[l] = Burst[l] * Period[l] + q * Period[l] - Period[l]
    BY <2>5, <2>8
  <2>10. Since(l, s, t) * Period[l] < (Burst[l] + q + 1) * Period[l]
    BY <2>4, <2>5, <2>7, <2>8, <2>9
  <2>11. (Burst[l] + q - 1) * Period[l] < Since(l, s, t) * Period[l]
    BY <2>4, <2>5, <2>6, <2>8, <2>9
  <2>12. Since(l, s, t) < Burst[l] + q + 1 /\ Burst[l] + q - 1 < Since(l, s, t)
    BY <2>5, <2>8, <2>10, <2>11, Cancel
  <2>13. Since(l, s, t) = Owed(l, t)
    BY <2>5, <2>8, <2>12 DEF Owed, q
  <2> QED
    BY <2>2, <2>4, <2>13
<1> QED
  BY <1>1, IInvHolds, PTL

=============================================================================
