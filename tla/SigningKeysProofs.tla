------------------------- MODULE SigningKeysProofs -------------------------
(***************************************************************************)
(* The inductive invariant of SigningKeys and the theorems it gives, for   *)
(* any number of instances, keys and APIs, and any durations that respect  *)
(* the two "must exceed" comments of signing_keys.rs.                      *)
(***************************************************************************)
EXTENDS SigningKeys, FiniteSetTheorems, WellFoundedInduction, TLAPS

-----------------------------------------------------------------------------
(* The inductive invariant *)

\* The operator acted once, in the past.
LeakInv == leak # NoLeak => leak.at \in Nat /\ leak.at <= clock

\* A key: its row, and what it has signed.  A leaked key was retired by hand, the
\* others by rotations, when the next key takes over.
KeyInv(k) ==
    LET row == rows[k] IN
    /\ Exists(row) => /\ row.created_at <= clock
                      /\ row.active_at =
                           row.created_at + (IF row.rotated THEN Prepublication ELSE 0)
    /\ signed[k] <= clock + TokenTTL
    /\ signed[k] > 0 => Exists(row) /\ row.active_at <= clock
    /\ k \in leak.keys => /\ Exists(row)
                          /\ row.retired_at = leak.at - RetiredGrace
                          /\ signed[k] <= leak.at + Staleness + TokenTTL
    /\ k \notin leak.keys /\ row.retired_at # None =>
          /\ Exists(row)
          /\ row.active_at <= row.retired_at
          /\ signed[k] < row.retired_at + TokenTTL

\* Some key signs at this instant.
Covers(table, now) == \E k \in Keys : CanSign(table[k], now)

\* What a key set says of a key, compared with the key's row now.
SetKnows(set, k) ==
    LET seen == set.rows[k]
        row == rows[k]
    IN
    /\ Exists(seen) => /\ Exists(row)
                       /\ seen.active_at = row.active_at
                       /\ k \in leak.keys => set.at <= leak.at
    /\ k \notin leak.keys =>
          /\ Exists(seen) /\ row.retired_at # None =>
                \/ seen.retired_at = row.retired_at
                \/ row.retired_at >= set.at + Prepublication
          /\ Exists(row) /\ row.created_at < set.at =>
                \/ Exists(seen)
                \/ row.retired_at # None /\ row.retired_at <= set.at - RetiredGrace

\* A key set that is in memory, or on its way there.
SetInv(set) ==
    /\ set.at <= clock
    /\ clock <= set.at + Staleness
    /\ \A k \in Keys : SetKnows(set, k)
    /\ leak = NoLeak => \A t \in Instant : t >= set.at => Covers(set.rows, t)

\* The key sets of an instance, and what its jobs have found out.
InstanceInv(i) ==
    /\ Up(i) => SetInv(loaded[i])
    /\ \A j \in JobNames :
          /\ jobs[i][j].step = "store" => SetInv(jobs[i][j].set)
          /\ jobs[i][j].step \in {"again", "publish"} /\ leak = NoLeak =>
                \E k \in Keys : Exists(rows[k])

\* An API's cache was filled from a key set that was not out of date.
CacheInv(v) ==
    LET filled == caches[v].fetched_at IN
    /\ filled = None => caches[v].keys = {}
    /\ filled # None =>
          /\ filled <= clock
          /\ \A k \in leak.keys : k \in caches[v].keys => filled <= leak.at + Staleness
          /\ \A k \in Keys \ leak.keys :
                Exists(rows[k]) /\ rows[k].created_at < filled - Staleness =>
                   \/ k \in caches[v].keys
                   \/ rows[k].retired_at # None /\ rows[k].retired_at <= filled - RetiredGrace

Pending(k) == Exists(rows[k]) /\ rows[k].active_at > clock

\* The advisory lock, and what it is for; and there is no gap between the keys.
RotationInv ==
    /\ \A i, j \in Instances : jobs[i]["rotate"].step = "publish"
                                  /\ jobs[j]["rotate"].step = "publish" => i = j
    /\ leak = NoLeak =>
          /\ \A k, l \in Keys : Pending(k) /\ Pending(l) => k = l
          /\ RotationLocked => \A k \in Keys : ~Pending(k)
          /\ (\E k \in Keys : Exists(rows[k])) =>
                \A t \in Instant : t >= clock => Covers(rows, t)

\* The inductive invariant behind the theorems below.
IInv ==
    /\ TypeOK
    /\ LeakInv
    /\ \A k \in Keys : KeyInv(k)
    /\ \A i \in Instances : InstanceInv(i)
    /\ \A v \in Apis : CacheInv(v)
    /\ RotationInv

-----------------------------------------------------------------------------
(* Lemmas about the operators *)

\* A bounded set of numbers has a largest one.
LEMMA LargestExists ==
    ASSUME NEW T, T \subseteq Nat, T # {}, NEW b \in Nat, \A x \in T : x <= b
    PROVE  \E x \in T : \A y \in T : y <= x
<1> DEFINE below == {b - x : x \in T}
<1>1. \A x \in T : b - x \in Nat
  OBVIOUS
<1>2. below \subseteq Nat /\ below # {}
  BY <1>1
<1>3. PICK m \in below : \A y \in below : ~(<<y, m>> \in OpToRel(<, Nat))
  BY <1>2, WFMin, NatLessThanWellFounded
<1>4. ASSUME NEW y \in below
      PROVE  m <= y
  <2>1. y \in Nat /\ m \in Nat
    BY <1>2
  <2>2. y < m => <<y, m>> \in OpToRel(<, Nat)
    BY <2>1 DEF OpToRel
  <2>3. ~(y < m)
    BY <1>3, <2>2, Zenon
  <2> QED
    BY <2>1, <2>3
<1>5. PICK x \in T : m = b - x
  OBVIOUS
<1>6. ASSUME NEW y \in T
      PROVE  y <= x
  <2>1. y \in Nat /\ x \in Nat
    OBVIOUS
  <2>2. b - y \in below
    OBVIOUS
  <2> HIDE DEF below
  <2>3. b - x <= b - y
    BY <1>4, <1>5, <2>2
  <2> QED
    BY <2>1, <2>3
<1> QED
  BY <1>6

\* Where some key can sign, signing_key finds one.
LEMMA CoveredMeansSigns ==
    ASSUME NEW set \in KeySet, NEW now \in Nat, Covers(set.rows, now)
    PROVE  SigningKey(set, now) # {}
<1> DEFINE able == {k \in Keys : CanSign(set.rows[k], now)}
           starts == {set.rows[k].active_at : k \in able}
<1>1. \A k \in Keys : set.rows[k] \in Row /\ set.rows[k].active_at \in Nat
  BY DEF KeySet, Row
<1>2. starts \subseteq Nat /\ starts # {} /\ \A x \in starts : x <= now
  BY <1>1 DEF Covers, CanSign
<1>3. PICK x \in starts : \A y \in starts : y <= x
  BY <1>2, LargestExists
<1>4. PICK k \in able : x = set.rows[k].active_at
  OBVIOUS
<1>5. \A l \in able : set.rows[l].active_at <= set.rows[k].active_at
  BY <1>3, <1>4
<1>6. k \in SigningKey(set, now)
  BY <1>5 DEF SigningKey
<1> QED
  BY <1>6

\* What a job that can sign has loaded, and what load leaves out.
LEMMA LoadedSet ==
    ASSUME IInv, leak = NoLeak => \E k \in Keys : Exists(rows[k])
    PROVE  Load \in KeySet /\ SetInv(Load)
<1> USE ConstantsAssumption
<1>0. /\ rows \in [Keys -> Row] /\ clock \in Instant /\ clock \in Nat
      /\ Staleness \in Nat /\ RetiredGrace \in Nat /\ Prepublication \in Nat
  BY DEF IInv, TypeOK, Instant
<1>1. NoRow \in Row /\ ~Exists(NoRow)
  BY DEF NoRow, Row, Exists
<1>2. Load \in KeySet
  BY <1>0, <1>1 DEF Load, KeySet
<1>3. /\ Load.at = clock
      /\ \A k \in Keys : Load.rows[k] = IF Published(rows[k], clock) THEN rows[k] ELSE NoRow
  BY DEF Load
<1>4. ASSUME NEW k \in Keys
      PROVE  SetKnows(Load, k)
  <2>1. rows[k] \in Row
    BY <1>0
  <2>2. k \in leak.keys => ~Published(rows[k], clock)
    <3> SUFFICES ASSUME k \in leak.keys
                 PROVE  ~Published(rows[k], clock)
      OBVIOUS
    <3>1. leak # NoLeak
      BY DEF NoLeak
    <3>2. leak.at \in Nat /\ leak.at <= clock
      BY <3>1 DEF IInv, LeakInv
    <3>3. rows[k].retired_at = leak.at - RetiredGrace
      BY DEF IInv, KeyInv
    <3> QED
      BY <1>0, <3>2, <3>3 DEF Published
  <2>3. ~Published(rows[k], clock) /\ Exists(rows[k]) =>
          rows[k].retired_at # None /\ rows[k].retired_at <= clock - RetiredGrace
    BY <1>0, <2>1 DEF Published, Row
  <2> QED
    BY <1>1, <1>3, <2>2, <2>3 DEF SetKnows, Published
<1>5. ASSUME leak = NoLeak, NEW t \in Instant, t >= clock
      PROVE  Covers(Load.rows, t)
  <2>1. PICK k \in Keys : CanSign(rows[k], t)
    BY <1>5 DEF IInv, RotationInv, Covers
  <2>2. rows[k] \in Row /\ t \in Nat
    BY <1>0 DEF Instant
  <2>3. Published(rows[k], clock)
    BY <1>0, <1>5, <2>1, <2>2 DEF CanSign, Published, Row
  <2> QED
    BY <1>3, <2>1, <2>3 DEF Covers
<1>6. SetInv(Load)
  BY <1>0, <1>3, <1>4, <1>5 DEF SetInv
<1> QED
  BY <1>2, <1>6

-----------------------------------------------------------------------------
(* The invariant is inductive *)

\* No key, no instance, no cache.
LEMMA InitEstablishesIInv == Init => IInv
<1> SUFFICES ASSUME Init PROVE IInv
  OBVIOUS
<1> USE ConstantsAssumption DEF Init
<1>1. NoRow \in Row /\ Idle \in Job /\ ~Exists(NoRow)
  BY DEF NoRow, Row, Idle, Job, Steps, Exists
<1>2. TypeOK
  <2>1. jobs \in [Instances -> [JobNames -> Job]]
    BY <1>1
  <2>2. caches \in [Apis -> Cache]
    BY DEF Cache
  <2>3. leak \in [at : Instant \cup {None}, keys : SUBSET Keys] /\ clock \in Instant
    BY DEF NoLeak, Instant
  <2> QED
    BY <1>1, <2>1, <2>2, <2>3 DEF TypeOK
<1>3. LeakInv /\ leak.keys = {}
  BY DEF LeakInv, NoLeak
<1>4. \A k \in Keys : KeyInv(k)
  BY <1>1, <1>3 DEF KeyInv, NoRow
<1>5. \A i \in Instances : InstanceInv(i)
  BY DEF InstanceInv, Up, Idle
<1>6. \A v \in Apis : CacheInv(v)
  BY DEF CacheInv
<1>7. RotationInv
  BY <1>1 DEF RotationInv, Pending, RotationLocked, Idle, JobNames
<1> QED
  BY <1>2, <1>3, <1>4, <1>5, <1>6, <1>7 DEF IInv

\* A key set is as good as before while the clock, the rows and the leak stay.
LEMMA SameTables ==
    ASSUME UNCHANGED <<clock, rows, leak>>, NEW set, SetInv(set)
    PROVE  SetInv(set)'
BY DEF SetInv, SetKnows, Covers, CanSign, Exists

\* Nor do the key sets of an instance grow worse while it rests.
LEMMA SameInstance ==
    ASSUME UNCHANGED <<clock, rows, leak>>, NEW i \in Instances, InstanceInv(i),
           loaded'[i] = loaded[i], jobs'[i] = jobs[i]
    PROVE  InstanceInv(i)'
<1>1. Up(i)' => SetInv(loaded[i])'
  <2>1. ASSUME NEW set, set = loaded[i], Up(i) PROVE SetInv(set)'
    BY <2>1, SameTables DEF InstanceInv
  <2>2. Up(i)' => Up(i)
    BY DEF Up
  <2> QED
    BY <2>1, <2>2 DEF SetInv, SetKnows
<1>2. ASSUME NEW j \in JobNames, jobs'[i][j].step = "store" PROVE SetInv(jobs[i][j].set)'
  <2>1. ASSUME NEW set, set = jobs[i][j].set PROVE SetInv(set)'
    BY <1>2, <2>1, SameTables DEF InstanceInv
  <2> QED
    BY <2>1 DEF SetInv, SetKnows
<1>3. ASSUME NEW j \in JobNames, jobs'[i][j].step \in {"again", "publish"}, leak' = NoLeak
      PROVE  \E k \in Keys : Exists(rows'[k])
  BY <1>3 DEF InstanceInv, Exists
<1> QED
  BY <1>1, <1>2, <1>3 DEF InstanceInv, Exists

\* A step of the jobs and the key sets in memory alone.
LEMMA JobStep ==
    ASSUME IInv, UNCHANGED <<clock, rows, signed, caches, leak>>,
           NEW i \in Instances,
           loaded' \in [Instances -> KeySet \cup {None}],
           jobs' \in [Instances -> [JobNames -> Job]],
           \A h \in Instances \ {i} : loaded'[h] = loaded[h] /\ jobs'[h] = jobs[h],
           InstanceInv(i)',
           jobs'[i]["rotate"].step = "publish" =>
              \/ jobs[i]["rotate"].step = "publish"
              \/ ~RotationLocked /\ (leak = NoLeak => \A k \in Keys : ~Pending(k))
    PROVE  IInv'
<1>1. TypeOK'
  BY DEF IInv, TypeOK
<1>2. LeakInv' /\ (\A k \in Keys : KeyInv(k)') /\ (\A v \in Apis : CacheInv(v)')
  BY DEF IInv, LeakInv, KeyInv, CacheInv, Exists
<1>3. ASSUME NEW h \in Instances \ {i}
      PROVE  InstanceInv(h)'
  <2>1. loaded'[h] = loaded[h] /\ jobs'[h] = jobs[h] /\ InstanceInv(h)
    BY DEF IInv
  <2>2. Up(h) => SetInv(loaded[h])'
    BY <2>1, SameTables DEF InstanceInv
  <2>3. \A j \in JobNames : jobs[h][j].step = "store" => SetInv(jobs[h][j].set)'
    <3> TAKE j \in JobNames
    <3>1. jobs'[h][j].set = jobs[h][j].set
      BY <2>1
    <3> QED
      BY <2>1, <3>1, SameTables DEF InstanceInv
  <2> QED
    BY <2>1, <2>2, <2>3 DEF InstanceInv, Up, Exists
<1>4. \A k \in Keys : Pending(k)' <=> Pending(k)
  BY DEF Pending, Exists
<1>5. RotationInv'
  <2>1. \A h \in Instances \ {i} : jobs'[h]["rotate"].step = jobs[h]["rotate"].step
    OBVIOUS
  <2>2. \A g, h \in Instances : jobs'[g]["rotate"].step = "publish"
                                   /\ jobs'[h]["rotate"].step = "publish" => g = h
    BY <2>1 DEF IInv, RotationInv, RotationLocked
  <2>3. leak = NoLeak /\ RotationLocked' => \A k \in Keys : ~Pending(k)
    BY <2>1 DEF IInv, RotationInv, RotationLocked
  <2> QED
    BY <1>4, <2>2, <2>3 DEF IInv, RotationInv, Covers, CanSign, Exists
<1> QED
  BY <1>1, <1>2, <1>3, <1>5 DEF IInv

\* The rows after the INSERT of a key, or a rotation, at this instant.
TableMovesOn(new) ==
    /\ rows' \in [Keys -> Row]
    /\ UNCHANGED <<clock, loaded, signed, caches, leak>>
    /\ rows'[new].created_at = clock
    /\ rows'[new].retired_at = None
    /\ rows'[new].active_at = clock + (IF rows'[new].rotated THEN Prepublication ELSE 0)
    /\ \A k \in Keys \ {new} :
          /\ rows'[k].created_at = rows[k].created_at
          /\ rows'[k].active_at = rows[k].active_at
          /\ rows'[k].rotated = rows[k].rotated
          /\ \/ rows'[k].retired_at = rows[k].retired_at
             \/ /\ Exists(rows[k])
                /\ rows'[k].retired_at = clock + Prepublication
                /\ rows[k].retired_at = None \/ rows[k].retired_at > clock + Prepublication

\* Such a step agrees with the key sets that were read before it.
LEMMA TableStep ==
    ASSUME IInv, NEW new \in Unused, TableMovesOn(new)
    PROVE  /\ \A k \in Keys : KeyInv(k)'
           /\ \A set \in KeySet : SetInv(set) => SetInv(set)'
           /\ \A v \in Apis : CacheInv(v)'
           /\ LeakInv'
           /\ \A k \in Keys : Exists(rows'[k]) <=> Exists(rows[k]) \/ k = new
<1> USE ConstantsAssumption
<1>0. /\ rows \in [Keys -> Row] /\ clock \in Instant /\ clock \in Nat /\ clock' = clock
      /\ leak' = leak /\ signed' = signed /\ caches' = caches
      /\ Staleness \in Nat /\ RetiredGrace \in Nat /\ Prepublication \in Nat
      /\ TokenTTL \in Nat /\ Prepublication > 0 /\ None \notin Int
      /\ new \in Keys /\ ~Exists(rows[new])
  BY DEF IInv, TypeOK, Instant, TableMovesOn, Unused
<1>1. new \notin leak.keys
  BY <1>0 DEF IInv, KeyInv
<1>2. \A k \in Keys : Exists(rows'[k]) <=> Exists(rows[k]) \/ k = new
  BY <1>0 DEF TableMovesOn, Exists
<1>3. ASSUME NEW k \in Keys
      PROVE  KeyInv(k)'
  <2>0. KeyInv(k) /\ rows[k] \in Row /\ rows'[k] \in Row /\ signed[k] \in Nat
    BY DEF IInv, TypeOK, TableMovesOn
  <2>1. CASE k = new
    <3>1. signed[k] = 0
      BY <1>0, <2>0, <2>1 DEF KeyInv
    <3> QED
      BY <1>0, <1>1, <1>2, <2>1, <3>1 DEF KeyInv, TableMovesOn
  <2>2. CASE k # new
    <3>1. CASE rows'[k].retired_at = rows[k].retired_at
      BY <1>0, <1>2, <2>0, <2>2, <3>1 DEF KeyInv, TableMovesOn
    <3>2. CASE rows'[k].retired_at # rows[k].retired_at
      <4>1. /\ Exists(rows[k]) /\ rows'[k].retired_at = clock + Prepublication
            /\ rows[k].retired_at = None \/ rows[k].retired_at > clock + Prepublication
        BY <2>2, <3>2 DEF TableMovesOn
      <4>2. k \notin leak.keys
        <5> SUFFICES ASSUME k \in leak.keys PROVE FALSE
          OBVIOUS
        <5>1. leak.at \in Nat /\ leak.at <= clock
          BY DEF IInv, LeakInv, NoLeak
        <5> QED
          BY <1>0, <2>0, <4>1, <5>1 DEF KeyInv
      <4>3. /\ rows[k].active_at <= clock + Prepublication
            /\ signed[k] < clock + Prepublication + TokenTTL
        BY <1>0, <2>0, <4>1 DEF KeyInv, Row, Exists, Instant
      <4> QED
        BY <1>0, <1>2, <2>0, <2>2, <4>1, <4>2, <4>3 DEF KeyInv, TableMovesOn
    <3> QED
      BY <3>1, <3>2
  <2> QED
    BY <2>1, <2>2
<1>4. ASSUME NEW set \in KeySet, SetInv(set)
      PROVE  SetInv(set)'
  <2>0. set.at \in Nat /\ set.at <= clock /\ set.rows \in [Keys -> Row]
    BY <1>4 DEF SetInv, KeySet, Instant
  <2>1. ASSUME NEW k \in Keys
        PROVE  SetKnows(set, k)'
    <3>0. SetKnows(set, k) /\ rows[k] \in Row /\ rows'[k] \in Row
      BY <1>4 DEF IInv, TypeOK, TableMovesOn, SetInv
    <3>1. CASE k = new
      BY <1>0, <1>1, <2>0, <3>0, <3>1 DEF SetKnows, TableMovesOn
    <3>2. CASE k # new
      <4>1. CASE rows'[k].retired_at = rows[k].retired_at
        BY <1>0, <1>2, <3>0, <3>2, <4>1 DEF SetKnows, TableMovesOn
      <4>2. CASE rows'[k].retired_at # rows[k].retired_at
        <5>1. /\ rows'[k].retired_at = clock + Prepublication
              /\ rows[k].retired_at = None \/ rows[k].retired_at > clock + Prepublication
          BY <3>2, <4>2 DEF TableMovesOn
        <5> QED
          BY <1>0, <1>2, <2>0, <3>0, <3>2, <5>1 DEF SetKnows, TableMovesOn, Row
      <4> QED
        BY <4>1, <4>2
    <3> QED
      BY <3>1, <3>2
  <2> QED
    BY <1>0, <1>4, <2>1 DEF SetInv, Covers, CanSign, Exists
<1>5. ASSUME NEW v \in Apis
      PROVE  CacheInv(v)'
  <2>0. CacheInv(v) /\ caches[v] \in Cache
    BY DEF IInv, TypeOK
  <2> DEFINE filled == caches[v].fetched_at
  <2>1. ASSUME filled # None, NEW k \in Keys \ leak.keys, Exists(rows'[k]),
               rows'[k].created_at < filled - Staleness
        PROVE  \/ k \in caches[v].keys
               \/ rows'[k].retired_at # None /\ rows'[k].retired_at <= filled - RetiredGrace
    <3>1. filled \in Nat /\ filled <= clock
      BY <2>0, <2>1 DEF CacheInv, Cache, Instant
    <3>2. k # new
      BY <1>0, <2>1, <3>1 DEF TableMovesOn
    <3>3. \/ k \in caches[v].keys
          \/ rows[k].retired_at # None /\ rows[k].retired_at <= filled - RetiredGrace
      BY <1>2, <2>0, <2>1, <3>2 DEF CacheInv, TableMovesOn
    <3>4. rows[k].retired_at # None => rows[k].retired_at \in Int
      BY <1>0 DEF Row
    <3> QED
      BY <1>0, <3>1, <3>2, <3>3, <3>4 DEF TableMovesOn
  <2> QED
    BY <1>0, <2>0, <2>1 DEF CacheInv
<1> QED
  BY <1>0, <1>2, <1>3, <1>4, <1>5 DEF IInv, LeakInv

\* A step of one job, which changes nothing else.
LEMMA OneJobStep ==
    ASSUME IInv, UNCHANGED <<clock, rows, loaded, signed, caches, leak>>,
           NEW i \in Instances, NEW j \in JobNames, NEW job \in Job,
           jobs' = [jobs EXCEPT ![i][j] = job],
           job.step = "store" => SetInv(job.set),
           job.step \in {"again", "publish"} /\ leak = NoLeak =>
              \E k \in Keys : Exists(rows[k]),
           job.step = "publish" =>
              ~RotationLocked /\ (leak = NoLeak => \A k \in Keys : ~Pending(k))
    PROVE  IInv'
<1>0. loaded \in [Instances -> KeySet \cup {None}] /\ jobs \in [Instances -> [JobNames -> Job]]
  BY DEF IInv, TypeOK
<1>1. /\ jobs' \in [Instances -> [JobNames -> Job]]
      /\ jobs'[i][j] = job
      /\ \A l \in JobNames \ {j} : jobs'[i][l] = jobs[i][l]
      /\ \A h \in Instances \ {i} : jobs'[h] = jobs[h]
  BY <1>0
<1>2. InstanceInv(i)'
  <2>1. Up(i)' => SetInv(loaded[i])'
    BY SameTables DEF IInv, InstanceInv, Up
  <2>2. ASSUME NEW l \in JobNames
        PROVE  /\ jobs'[i][l].step = "store" => SetInv(jobs[i][l].set)'
               /\ jobs'[i][l].step \in {"again", "publish"} /\ leak' = NoLeak =>
                     \E k \in Keys : Exists(rows'[k])
    <3>1. CASE l = j
      <4>1. job.step = "store" => SetInv(job.set)'
        BY <1>1, SameTables
      <4>2. jobs'[i][l].set = job.set
        BY <1>1, <3>1
      <4> QED
        BY <1>1, <3>1, <4>1, <4>2 DEF SetInv, SetKnows, Covers
    <3>2. CASE l # j
      <4>1. jobs'[i][l] = jobs[i][l]
        BY <1>1, <3>2
      <4>2. jobs[i][l].step = "store" => SetInv(jobs[i][l].set)'
        BY <4>1, SameTables DEF IInv, InstanceInv
      <4> QED
        BY <4>1, <4>2 DEF IInv, InstanceInv, Exists
    <3> QED
      BY <3>1, <3>2
  <2> QED
    BY <2>1, <2>2 DEF InstanceInv
<1>3. jobs'[i]["rotate"].step = "publish" =>
         \/ jobs[i]["rotate"].step = "publish"
         \/ ~RotationLocked /\ (leak = NoLeak => \A k \in Keys : ~Pending(k))
  BY <1>1 DEF JobNames
<1> QED
  BY <1>0, <1>1, <1>2, <1>3, JobStep

\* The statements of ensure_and_load that write nothing, and the decision to rotate.
LEMMA ReadStep ==
    ASSUME IInv, NEW i \in Instances,
           \/ StartRotation(i)
           \/ \E j \in JobNames : LoadKeys(i, j) \/ LoadAgain(i, j) \/ FailJob(i, j)
    PROVE  IInv'
<1> USE ConstantsAssumption
<1>0. /\ jobs \in [Instances -> [JobNames -> Job]] /\ rows \in [Keys -> Row]
      /\ loaded \in [Instances -> KeySet \cup {None}]
      /\ clock \in Nat /\ clock \in Instant /\ RetiredGrace \in Nat
      /\ "rotate" \in JobNames
  BY DEF IInv, TypeOK, Instant, JobNames
<1>1. CASE StartRotation(i)
  <2> DEFINE job == [step |-> "publish", set |-> None]
  <2>1. jobs' = [jobs EXCEPT ![i]["rotate"] = job]
    <3>1. [jobs[i]["rotate"] EXCEPT !.step = "publish"] = job
      BY <1>1 DEF StartRotation, Idle
    <3>2. jobs' = [jobs EXCEPT ![i]["rotate"] = [jobs[i]["rotate"] EXCEPT !.step = "publish"]]
      BY <1>0, <1>1 DEF StartRotation
    <3> QED
      BY <3>1, <3>2
  <2>2. job \in Job /\ job.step = "publish"
    BY DEF Job, Steps
  <2>3. leak = NoLeak => \E k \in Keys : Exists(rows[k])
    <3> SUFFICES ASSUME leak = NoLeak
                 PROVE  \E k \in Keys : Exists(rows[k])
      OBVIOUS
    <3>1. SetInv(loaded[i]) /\ loaded[i] \in KeySet
      BY <1>0, <1>1 DEF StartRotation, IInv, InstanceInv, Up
    <3>2. Covers(loaded[i].rows, clock)
      BY <1>0, <3>1 DEF SetInv
    <3> QED
      BY <3>1, <3>2 DEF Covers, CanSign, SetInv, SetKnows
  <2>4. ASSUME leak = NoLeak, NEW k \in Keys
        PROVE  ~Pending(k)
    <3>1. KeyInv(k) /\ rows[k] \in Row /\ k \notin leak.keys
      BY <1>0, <2>4 DEF IInv, NoLeak
    <3>2. Published(rows[k], clock) => rows[k].active_at <= clock
      BY <1>1 DEF StartRotation, Due
    <3>3. ~Published(rows[k], clock) /\ Exists(rows[k]) => rows[k].active_at <= clock
      BY <1>0, <3>1 DEF Published, KeyInv, Row
    <3> QED
      BY <1>0, <3>1, <3>2, <3>3 DEF Pending, Row
  <2> HIDE DEF job
  <2> QED
    BY <1>0, <1>1, <2>1, <2>2, <2>3, <2>4, OneJobStep DEF StartRotation
<1>2. ASSUME NEW j \in JobNames, LoadKeys(i, j)
      PROVE  IInv'
  <2>1. CASE SigningKey(Load, clock) # {}
    <3> DEFINE job == [step |-> "store", set |-> Load]
    <3>1. PICK k \in Keys : CanSign(Load.rows[k], clock)
      BY <2>1 DEF SigningKey
    <3>2. Exists(rows[k])
      BY <3>1 DEF CanSign, Load, Exists, NoRow
    <3>3. Load \in KeySet /\ SetInv(Load)
      BY <3>2, LoadedSet
    <3>4. job \in Job /\ job.step = "store" /\ job.set = Load
      BY <3>3 DEF Job
    <3>5. jobs' = [jobs EXCEPT ![i][j] = job] /\ UNCHANGED <<clock, rows, loaded, signed, caches, leak>>
      BY <1>2, <2>1 DEF LoadKeys
    <3> HIDE DEF job
    <3> QED
      BY <3>3, <3>4, <3>5, OneJobStep
  <2>2. CASE SigningKey(Load, clock) = {}
    <3> DEFINE job == [step |-> "insert", set |-> None]
    <3>1. job \in Job /\ job.step = "insert"
      BY DEF Job, Steps
    <3>2. jobs' = [jobs EXCEPT ![i][j] = job] /\ UNCHANGED <<clock, rows, loaded, signed, caches, leak>>
      BY <1>2, <2>2 DEF LoadKeys
    <3> HIDE DEF job
    <3> QED
      BY <3>1, <3>2, OneJobStep
  <2> QED
    BY <2>1, <2>2
<1>3. ASSUME NEW j \in JobNames, LoadAgain(i, j)
      PROVE  IInv'
  <2> DEFINE job == [step |-> "store", set |-> Load]
  <2>1. leak = NoLeak => \E k \in Keys : Exists(rows[k])
    BY <1>3 DEF LoadAgain, IInv, InstanceInv
  <2>2. Load \in KeySet /\ SetInv(Load)
    BY <2>1, LoadedSet
  <2>3. job \in Job /\ job.step = "store" /\ job.set = Load
    BY <2>2 DEF Job
  <2>4. jobs' = [jobs EXCEPT ![i][j] = job] /\ UNCHANGED <<clock, rows, loaded, signed, caches, leak>>
    BY <1>3 DEF LoadAgain
  <2> HIDE DEF job
  <2> QED
    BY <2>2, <2>3, <2>4, OneJobStep
<1>4. ASSUME NEW j \in JobNames, FailJob(i, j)
      PROVE  IInv'
  <2>1. Idle \in Job /\ Idle.step = "idle"
    BY DEF Idle, Job, Steps
  <2> QED
    BY <1>4, <2>1, OneJobStep DEF FailJob
<1> QED
  BY <1>1, <1>2, <1>3, <1>4

\* The swap of the key set in memory, and the end of a process.
LEMMA MemoryStep ==
    ASSUME IInv, NEW i \in Instances, Stop(i) \/ \E j \in JobNames : StoreKeys(i, j)
    PROVE  IInv'
<1>0. /\ jobs \in [Instances -> [JobNames -> Job]]
      /\ loaded \in [Instances -> KeySet \cup {None}]
  BY DEF IInv, TypeOK
<1>1. Idle \in Job /\ Idle.step = "idle"
  BY DEF Idle, Job, Steps
<1>2. CASE Stop(i)
  <2>1. /\ loaded' \in [Instances -> KeySet \cup {None}]
        /\ jobs' \in [Instances -> [JobNames -> Job]]
        /\ \A h \in Instances \ {i} : loaded'[h] = loaded[h] /\ jobs'[h] = jobs[h]
        /\ loaded'[i] = None /\ \A j \in JobNames : jobs'[i][j] = Idle
    BY <1>0, <1>1, <1>2 DEF Stop
  <2>2. InstanceInv(i)'
    BY <1>1, <2>1 DEF InstanceInv, Up
  <2>3. jobs'[i]["rotate"].step # "publish"
    BY <1>1, <2>1 DEF JobNames
  <2> QED
    BY <1>2, <2>1, <2>2, <2>3, JobStep DEF Stop
<1>3. ASSUME NEW j \in JobNames, StoreKeys(i, j)
      PROVE  IInv'
  <2>1. jobs[i][j].set \in KeySet /\ SetInv(jobs[i][j].set)
    <3>1. jobs[i][j] \in Job /\ jobs[i][j].step = "store"
      BY <1>0, <1>3 DEF StoreKeys
    <3> QED
      BY <3>1 DEF Job, IInv, InstanceInv
  <2>2. /\ loaded' \in [Instances -> KeySet \cup {None}]
        /\ jobs' \in [Instances -> [JobNames -> Job]]
        /\ \A h \in Instances \ {i} : loaded'[h] = loaded[h] /\ jobs'[h] = jobs[h]
        /\ loaded'[i] = jobs[i][j].set /\ jobs'[i][j] = Idle
        /\ \A l \in JobNames \ {j} : jobs'[i][l] = jobs[i][l]
        /\ UNCHANGED <<clock, rows, signed, caches, leak>>
    BY <1>0, <1>1, <1>3, <2>1 DEF StoreKeys
  <2>3. SetInv(loaded[i])'
    <3> DEFINE set == jobs[i][j].set
    <3>1. UNCHANGED <<clock, rows, leak>>
      BY <2>2
    <3>2. SetInv(loaded'[i])
      BY <2>1, <2>2
    <3> QED
      BY <3>1, <3>2 DEF SetInv, SetKnows, Covers, CanSign, Exists
  <2>4. ASSUME NEW l \in JobNames
        PROVE  /\ jobs'[i][l].step = "store" => SetInv(jobs[i][l].set)'
               /\ jobs'[i][l].step \in {"again", "publish"} /\ leak' = NoLeak =>
                     \E k \in Keys : Exists(rows'[k])
    <3>1. CASE l = j
      BY <1>1, <2>2, <3>1
    <3>2. CASE l # j
      <4>1. jobs'[i][l] = jobs[i][l]
        BY <2>2, <3>2
      <4>2. jobs[i][l].step = "store" => SetInv(jobs[i][l].set)'
        BY <2>2, <4>1, SameTables DEF IInv, InstanceInv
      <4> QED
        BY <2>2, <4>1, <4>2 DEF IInv, InstanceInv, Exists
    <3> QED
      BY <3>1, <3>2
  <2>5. InstanceInv(i)'
    BY <2>3, <2>4 DEF InstanceInv
  <2>6. jobs'[i]["rotate"].step = "publish" => jobs[i]["rotate"].step = "publish"
    BY <1>1, <2>2 DEF JobNames
  <2> QED
    BY <2>2, <2>5, <2>6, JobStep
<1> QED
  BY <1>2, <1>3

\* A job that has written to the table goes on to read it.
LEMMA WriteStep ==
    ASSUME IInv, NEW new \in Unused, TableMovesOn(new),
           NEW i \in Instances, NEW j \in JobNames, NEW job \in Job,
           jobs' = [jobs EXCEPT ![i][j] = job], job.step \in {"again", "load"},
           RotationInv'
    PROVE  IInv'
<1>0. /\ loaded \in [Instances -> KeySet \cup {None}] /\ loaded' = loaded
      /\ jobs \in [Instances -> [JobNames -> Job]]
      /\ new \in Keys
  BY DEF IInv, TypeOK, TableMovesOn, Unused
<1>1. /\ jobs' \in [Instances -> [JobNames -> Job]]
      /\ jobs'[i][j] = job
      /\ \A h \in Instances, l \in JobNames : <<h, l>> # <<i, j>> => jobs'[h][l] = jobs[h][l]
  BY <1>0
<1>2. /\ \A k \in Keys : KeyInv(k)'
      /\ \A set \in KeySet : SetInv(set) => SetInv(set)'
      /\ \A v \in Apis : CacheInv(v)'
      /\ LeakInv'
      /\ Exists(rows'[new])
  BY <1>0, TableStep
<1>3. ASSUME NEW h \in Instances
      PROVE  InstanceInv(h)'
  <2>0. InstanceInv(h)
    BY DEF IInv
  <2>1. Up(h)' => SetInv(loaded[h])'
    <3> SUFFICES ASSUME Up(h) PROVE SetInv(loaded[h])'
      BY <1>0 DEF Up
    <3>1. loaded[h] \in KeySet /\ SetInv(loaded[h])
      BY <1>0, <2>0 DEF InstanceInv, Up
    <3>2. PICK set \in KeySet : set = loaded[h]
      BY <3>1
    <3>3. SetInv(set)'
      BY <1>2, <3>1, <3>2
    <3>4. set = loaded'[h]
      BY <1>0, <3>2
    <3> QED
      BY <3>3, <3>4
  <2>2. ASSUME NEW l \in JobNames, jobs'[h][l].step = "store"
        PROVE  SetInv(jobs[h][l].set)'
    <3>1. jobs'[h][l] = jobs[h][l] /\ jobs[h][l] \in Job
      BY <1>0, <1>1, <2>2
    <3>2. jobs[h][l].set \in KeySet /\ SetInv(jobs[h][l].set)
      BY <2>0, <2>2, <3>1 DEF InstanceInv, Job
    <3>3. PICK set \in KeySet : set = jobs[h][l].set
      BY <3>2
    <3>4. SetInv(set)'
      BY <1>2, <3>2, <3>3
    <3>5. set = jobs'[h][l].set
      BY <3>1, <3>3
    <3> QED
      BY <3>4, <3>5
  <2> QED
    BY <1>0, <1>2, <2>1, <2>2 DEF InstanceInv
<1>4. TypeOK'
  BY <1>1 DEF IInv, TypeOK, TableMovesOn
<1> QED
  BY <1>2, <1>3, <1>4 DEF IInv

\* The INSERT of a key that signs right away.
LEMMA InsertStep ==
    ASSUME IInv, NEW i \in Instances, NEW j \in JobNames, InsertKey(i, j)
    PROVE  IInv'
<1> USE ConstantsAssumption
<1>0. /\ jobs \in [Instances -> [JobNames -> Job]] /\ rows \in [Keys -> Row]
      /\ clock \in Nat /\ clock \in Instant
  BY DEF IInv, TypeOK, Instant
<1> DEFINE row == [created_at |-> clock, active_at |-> clock,
                   retired_at |-> None, rotated |-> FALSE]
           job == [step |-> "again", set |-> None]
<1>1. PICK new \in Unused : rows' = [rows EXCEPT ![new] = row]
  BY DEF InsertKey
<1>2. row \in Row /\ new \in Keys /\ ~Exists(rows[new])
  BY <1>0 DEF Row, Unused
<1>3. row.created_at = clock /\ row.active_at = clock /\ row.retired_at = None /\ row.rotated = FALSE
  OBVIOUS
<1>4. job \in Job /\ job.step = "again"
  BY DEF Job, Steps
<1>5. jobs' = [jobs EXCEPT ![i][j] = job]
  <2>1. jobs[i][j] \in Job /\ jobs[i][j].step = "insert"
    BY <1>0 DEF InsertKey
  <2>2. jobs[i][j] = [step |-> "insert", set |-> None]
    BY <2>1 DEF Job
  <2>3. [jobs[i][j] EXCEPT !.step = "again"] = job
    BY <2>2
  <2>4. jobs' = [jobs EXCEPT ![i][j] = [jobs[i][j] EXCEPT !.step = "again"]]
    BY <1>0 DEF InsertKey
  <2> QED
    BY <2>3, <2>4
<1> HIDE DEF row, job
<1>6. rows' \in [Keys -> Row] /\ rows'[new] = row /\ \A k \in Keys \ {new} : rows'[k] = rows[k]
  BY <1>0, <1>1, <1>2
<1>7. TableMovesOn(new)
  <2>1. UNCHANGED <<clock, loaded, signed, caches, leak>>
    BY DEF InsertKey
  <2>2. /\ rows'[new].created_at = clock
        /\ rows'[new].retired_at = None
        /\ rows'[new].active_at = clock + (IF rows'[new].rotated THEN Prepublication ELSE 0)
    BY <1>0, <1>3, <1>6
  <2> QED
    BY <1>6, <2>1, <2>2 DEF TableMovesOn
<1>8. clock' = clock /\ leak' = leak
  BY DEF InsertKey
<1>9. RotationInv'
  <2>1. \A h \in Instances : jobs'[h]["rotate"].step = "publish" => jobs[h]["rotate"].step = "publish"
    BY <1>0, <1>4, <1>5 DEF JobNames
  <2>2. \A k \in Keys : Pending(k)' => Pending(k)
    BY <1>0, <1>3, <1>6, <1>8 DEF Pending, Exists
  <2>3. \A t \in Instant : t >= clock => Covers(rows', t)
    <3> TAKE t \in Instant
    <3>1. t \in Nat
      BY DEF Instant
    <3>2. t >= clock => CanSign(rows'[new], t)
      BY <1>0, <1>3, <1>6, <3>1 DEF CanSign, Exists, Instant
    <3> QED
      BY <1>2, <3>2 DEF Covers
  <2>4. RotationLocked' => RotationLocked
    BY <2>1 DEF RotationLocked
  <2> QED
    BY <1>8, <2>1, <2>2, <2>3, <2>4 DEF IInv, RotationInv
<1> QED
  BY <1>4, <1>5, <1>7, <1>9, WriteStep

\* rotate_if_due: the next key, and the end of the others when it takes over.
LEMMA PublishStep ==
    ASSUME IInv, NEW i \in Instances, Publish(i)
    PROVE  IInv'
<1> USE ConstantsAssumption
<1>0. /\ jobs \in [Instances -> [JobNames -> Job]] /\ rows \in [Keys -> Row]
      /\ clock \in Nat /\ clock \in Instant /\ Prepublication \in Nat /\ Prepublication > 0
      /\ "rotate" \in JobNames /\ None \notin Int
      /\ clock + Prepublication \in Nat
  BY DEF IInv, TypeOK, Instant, JobNames
<1> DEFINE over == clock + Prepublication
           row == [created_at |-> clock, active_at |-> over,
                   retired_at |-> None, rotated |-> TRUE]
           job == [step |-> "load", set |-> None]
<1>1. PICK new \in Unused :
         rows' = [k \in Keys |->
             IF k = new
             THEN row
             ELSE IF /\ Exists(rows[k])
                     /\ rows[k].retired_at = None \/ rows[k].retired_at > over
                  THEN [rows[k] EXCEPT !.retired_at = over]
                  ELSE rows[k]]
  BY DEF Publish
<1>2. row \in Row /\ new \in Keys /\ ~Exists(rows[new])
  BY <1>0 DEF Row, Unused
<1>3. row.created_at = clock /\ row.active_at = over /\ row.retired_at = None /\ row.rotated = TRUE
  OBVIOUS
<1>4. job \in Job /\ job.step = "load"
  BY DEF Job, Steps
<1>5. jobs' = [jobs EXCEPT ![i]["rotate"] = job]
  <2>1. jobs[i]["rotate"] \in Job /\ jobs[i]["rotate"].step = "publish"
    BY <1>0 DEF Publish
  <2>2. jobs[i]["rotate"] = [step |-> "publish", set |-> None]
    BY <2>1 DEF Job
  <2>3. [jobs[i]["rotate"] EXCEPT !.step = "load"] = job
    BY <2>2
  <2>4. jobs' = [jobs EXCEPT ![i]["rotate"] = [jobs[i]["rotate"] EXCEPT !.step = "load"]]
    BY <1>0 DEF Publish
  <2> QED
    BY <2>3, <2>4
<1> HIDE DEF row, job
<1>6. ASSUME NEW k \in Keys \ {new}
      PROVE  /\ rows'[k] \in Row
             /\ rows'[k].created_at = rows[k].created_at
             /\ rows'[k].active_at = rows[k].active_at
             /\ rows'[k].rotated = rows[k].rotated
             /\ \/ rows'[k].retired_at = rows[k].retired_at /\ rows'[k] = rows[k]
                \/ /\ Exists(rows[k])
                   /\ rows'[k].retired_at = over
                   /\ rows[k].retired_at = None \/ rows[k].retired_at > over
  <2>0. rows[k] \in Row
    BY <1>0
  <2>1. CASE Exists(rows[k]) /\ (rows[k].retired_at = None \/ rows[k].retired_at > over)
    <3>1. rows'[k] = [rows[k] EXCEPT !.retired_at = over]
      BY <1>1, <2>1
    <3> QED
      BY <1>0, <2>0, <2>1, <3>1 DEF Row
  <2>2. CASE ~(Exists(rows[k]) /\ (rows[k].retired_at = None \/ rows[k].retired_at > over))
    BY <1>1, <2>0, <2>2
  <2> QED
    BY <2>1, <2>2
<1>7. rows'[new] = row /\ rows' \in [Keys -> Row]
  <2>1. rows'[new] = row
    BY <1>1, <1>2
  <2>2. \A k \in Keys : rows'[k] \in Row
    BY <1>2, <1>6, <2>1
  <2>3. rows' = [k \in Keys |-> rows'[k]]
    BY <1>1
  <2> QED
    BY <2>1, <2>2, <2>3
<1>8. UNCHANGED <<clock, loaded, signed, caches, leak>>
  BY DEF Publish
<1>9. TableMovesOn(new)
  BY <1>0, <1>3, <1>6, <1>7, <1>8 DEF TableMovesOn
<1>10. RotationInv'
  <2>1. \A h \in Instances : jobs'[h]["rotate"].step # "publish"
    <3> TAKE h \in Instances
    <3>1. CASE h = i
      BY <1>0, <1>4, <1>5, <3>1
    <3>2. CASE h # i
      <4>1. jobs'[h] = jobs[h]
        BY <1>0, <1>5, <3>2
      <4> QED
        BY <3>2, <4>1 DEF IInv, RotationInv, Publish
    <3> QED
      BY <3>1, <3>2
  <2>2. ASSUME leak = NoLeak, NEW k \in Keys, Pending(k)'
        PROVE  k = new
    <3>1. ~Pending(k)
      BY <2>2 DEF IInv, RotationInv, RotationLocked, Publish
    <3> QED
      BY <1>6, <1>8, <2>2, <3>1 DEF Pending, Exists
  <2>3. ASSUME leak = NoLeak, NEW t \in Instant, t >= clock
        PROVE  Covers(rows', t)
    <3>0. t \in Nat
      BY DEF Instant
    <3>1. CASE t >= over
      <4>1. CanSign(rows'[new], t)
        BY <1>0, <1>3, <1>7, <3>0, <3>1 DEF CanSign, Exists, Instant
      <4> QED
        BY <1>2, <4>1 DEF Covers
    <3>2. CASE t < over
      <4>1. PICK k \in Keys : CanSign(rows[k], t)
        BY <1>0, <2>3 DEF IInv, RotationInv, InstanceInv, Publish, Covers
      <4>2. k # new /\ rows[k] \in Row
        BY <1>0, <1>2, <4>1 DEF CanSign
      <4>3. CanSign(rows'[k], t)
        BY <1>0, <1>6, <3>0, <3>2, <4>1, <4>2 DEF CanSign, Exists, Row
      <4> QED
        BY <4>3 DEF Covers
    <3> QED
      BY <1>0, <3>0, <3>1, <3>2
  <2> QED
    BY <1>8, <2>1, <2>2, <2>3 DEF RotationInv, RotationLocked
<1> QED
  BY <1>0, <1>4, <1>5, <1>9, <1>10, WriteStep

\* The operator's UPDATE: the keys there are join the leaked ones.
LEMMA RetireStep ==
    ASSUME IInv, RetireByHand
    PROVE  IInv'
<1> USE ConstantsAssumption
<1>0. /\ rows \in [Keys -> Row] /\ clock \in Instant /\ clock \in Nat /\ clock' = clock
      /\ signed' = signed /\ caches' = caches /\ loaded' = loaded /\ jobs' = jobs
      /\ signed \in [Keys -> Nat] /\ leak.keys = {}
      /\ Staleness \in Nat /\ RetiredGrace \in Nat /\ Prepublication \in Nat
      /\ TokenTTL \in Nat /\ None \notin Int /\ clock - RetiredGrace \in Int
  BY DEF IInv, TypeOK, Instant, RetireByHand, NoLeak
<1>1. /\ leak' = [at |-> clock, keys |-> {k \in Keys : Exists(rows[k])}]
      /\ leak'.at = clock /\ leak'.keys = {k \in Keys : Exists(rows[k])}
      /\ leak' # NoLeak
  BY <1>0 DEF RetireByHand, NoLeak
<1>2. ASSUME NEW k \in Keys
      PROVE  /\ rows'[k] \in Row
             /\ rows'[k].created_at = rows[k].created_at
             /\ rows'[k].active_at = rows[k].active_at
             /\ rows'[k].rotated = rows[k].rotated
             /\ Exists(rows'[k]) <=> Exists(rows[k])
             /\ Exists(rows[k]) => rows'[k].retired_at = clock - RetiredGrace
             /\ ~Exists(rows[k]) => rows'[k] = rows[k]
  <2>0. rows[k] \in Row
    BY <1>0
  <2>1. CASE Exists(rows[k])
    <3>1. rows'[k] = [rows[k] EXCEPT !.retired_at = clock - RetiredGrace]
      BY <2>1 DEF RetireByHand
    <3> QED
      BY <1>0, <2>0, <2>1, <3>1 DEF Row, Exists
  <2>2. CASE ~Exists(rows[k])
    BY <2>0, <2>2 DEF RetireByHand
  <2> QED
    BY <2>1, <2>2
<1>3. rows' \in [Keys -> Row]
  <2>1. rows' = [k \in Keys |-> rows'[k]]
    BY DEF RetireByHand
  <2> QED
    BY <1>2, <2>1
<1>4. TypeOK'
  <2>1. leak' \in [at : Instant \cup {None}, keys : SUBSET Keys]
    BY <1>0, <1>1
  <2> QED
    BY <1>0, <1>3, <2>1 DEF IInv, TypeOK
<1>5. LeakInv'
  BY <1>0, <1>1 DEF LeakInv
<1>6. ASSUME NEW k \in Keys
      PROVE  KeyInv(k)'
  <2>0. KeyInv(k) /\ rows[k] \in Row /\ signed[k] \in Nat /\ k \notin leak.keys
    BY <1>0 DEF IInv
  <2>1. CASE Exists(rows[k])
    <3>1. k \in leak'.keys
      BY <1>1, <2>1
    <3>2. signed[k] <= leak'.at + Staleness + TokenTTL
      BY <1>0, <1>1, <2>0 DEF KeyInv
    <3> QED
      BY <1>0, <1>1, <1>2, <2>0, <2>1, <3>1, <3>2 DEF KeyInv
  <2>2. CASE ~Exists(rows[k])
    <3>1. k \notin leak'.keys /\ rows'[k] = rows[k]
      BY <1>1, <1>2, <2>2
    <3> QED
      BY <1>0, <2>0, <2>2, <3>1 DEF KeyInv
  <2> QED
    BY <2>1, <2>2
<1>7. ASSUME NEW set \in KeySet, SetInv(set)
      PROVE  SetInv(set)'
  <2>0. set.at \in Nat /\ set.at <= clock
    BY <1>7 DEF SetInv, KeySet, Instant
  <2>1. ASSUME NEW k \in Keys
        PROVE  SetKnows(set, k)'
    <3>0. SetKnows(set, k) /\ k \notin leak.keys
      BY <1>0, <1>7 DEF SetInv
    <3>1. CASE Exists(rows[k])
      <4>1. k \in leak'.keys
        BY <1>1, <3>1
      <4> QED
        BY <1>0, <1>1, <1>2, <2>0, <3>0, <3>1, <4>1 DEF SetKnows
    <3>2. CASE ~Exists(rows[k])
      <4>1. k \notin leak'.keys /\ rows'[k] = rows[k]
        BY <1>1, <1>2, <3>2
      <4> QED
        BY <1>0, <3>0, <3>2, <4>1 DEF SetKnows
    <3> QED
      BY <3>1, <3>2
  <2> QED
    BY <1>0, <1>1, <1>7, <2>1 DEF SetInv
<1>8. ASSUME NEW i \in Instances
      PROVE  InstanceInv(i)'
  <2>0. /\ InstanceInv(i) /\ loaded[i] \in KeySet \cup {None}
        /\ \A j \in JobNames : jobs[i][j] \in Job
    BY DEF IInv, TypeOK
  <2>1. Up(i)' => SetInv(loaded[i])'
    <3> SUFFICES ASSUME Up(i) PROVE SetInv(loaded[i])'
      BY <1>0 DEF Up
    <3>1. loaded[i] \in KeySet /\ SetInv(loaded[i])
      BY <2>0 DEF InstanceInv, Up
    <3>2. PICK set \in KeySet : set = loaded[i]
      BY <3>1
    <3>3. SetInv(set)'
      BY <1>7, <3>1, <3>2
    <3> QED
      BY <1>0, <3>2, <3>3
  <2>2. ASSUME NEW l \in JobNames, jobs[i][l].step = "store"
        PROVE  SetInv(jobs[i][l].set)'
    <3>2. jobs[i][l].set \in KeySet /\ SetInv(jobs[i][l].set)
      BY <2>0, <2>2 DEF InstanceInv, Job
    <3>3. PICK set \in KeySet : set = jobs[i][l].set
      BY <3>2
    <3>4. SetInv(set)'
      BY <1>7, <3>2, <3>3
    <3> QED
      BY <1>0, <3>3, <3>4
  <2> QED
    BY <1>0, <1>1, <2>1, <2>2 DEF InstanceInv
<1>9. ASSUME NEW v \in Apis
      PROVE  CacheInv(v)'
  <2>0. CacheInv(v) /\ caches[v] \in Cache
    BY DEF IInv, TypeOK
  <2> DEFINE filled == caches[v].fetched_at
  <2>1. ASSUME filled # None
        PROVE  filled <= leak'.at + Staleness
    <3>1. filled \in Nat /\ filled <= clock
      BY <2>0, <2>1 DEF CacheInv, Cache, Instant
    <3> QED
      BY <1>0, <1>1, <3>1
  <2>2. \A k \in Keys \ leak'.keys : ~Exists(rows'[k])
    BY <1>1, <1>2
  <2> QED
    BY <1>0, <2>0, <2>1, <2>2 DEF CacheInv
<1>10. RotationInv'
  BY <1>0, <1>1 DEF IInv, RotationInv
<1> QED
  BY <1>4, <1>5, <1>6, <1>8, <1>9, <1>10 DEF IInv

\* A key set that is not out of date signs with no key whose life is over.
LEMMA IssueStep ==
    ASSUME IInv, NEW i \in Instances, Issue(i)
    PROVE  IInv'
<1> USE ConstantsAssumption
<1>0. /\ rows \in [Keys -> Row] /\ clock \in Instant /\ clock \in Nat /\ clock' = clock
      /\ rows' = rows /\ caches' = caches /\ loaded' = loaded /\ jobs' = jobs /\ leak' = leak
      /\ signed \in [Keys -> Nat]
      /\ Staleness \in Nat /\ RetiredGrace \in Nat /\ Prepublication \in Nat
      /\ TokenTTL \in Nat /\ Refetch \in Nat /\ None \notin Int
      /\ Staleness < Prepublication
  BY DEF IInv, TypeOK, Instant, Issue
<1> DEFINE set == loaded[i]
<1>1. set \in KeySet /\ SetInv(set)
  BY DEF IInv, TypeOK, InstanceInv, Issue, Up
<1>2. PICK k \in SigningKey(set, clock) : signed' = [signed EXCEPT ![k] = clock + TokenTTL]
  BY DEF Issue
<1>3. /\ k \in Keys /\ CanSign(set.rows[k], clock) /\ SetKnows(set, k)
      /\ set.at \in Nat /\ set.at <= clock /\ clock <= set.at + Staleness
      /\ set.rows[k] \in Row /\ rows[k] \in Row /\ KeyInv(k)
  BY <1>0, <1>1 DEF SigningKey, SetInv, KeySet, Instant, IInv
<1> HIDE DEF set
<1>4. signed' \in [Keys -> Nat] /\ signed'[k] = clock + TokenTTL
      /\ \A l \in Keys \ {k} : signed'[l] = signed[l]
  BY <1>0, <1>2, <1>3
<1>5. Exists(rows[k]) /\ rows[k].active_at <= clock
  BY <1>3 DEF CanSign, SetKnows
<1>6. k \in leak.keys => signed'[k] <= leak.at + Staleness + TokenTTL
  <2> SUFFICES ASSUME k \in leak.keys
               PROVE  signed'[k] <= leak.at + Staleness + TokenTTL
    OBVIOUS
  <2>1. leak.at \in Nat
    BY DEF IInv, LeakInv, NoLeak
  <2>2. set.at <= leak.at
    BY <1>3 DEF CanSign, SetKnows
  <2> QED
    BY <1>0, <1>3, <1>4, <2>1, <2>2
<1>7. k \notin leak.keys /\ rows[k].retired_at # None => rows[k].retired_at > clock
  <2> SUFFICES ASSUME k \notin leak.keys, rows[k].retired_at # None
               PROVE  rows[k].retired_at > clock
    OBVIOUS
  <2>1. rows[k].retired_at \in Int
    BY <1>3 DEF Row
  <2>2. \/ set.rows[k].retired_at = rows[k].retired_at
        \/ rows[k].retired_at >= set.at + Prepublication
    BY <1>3 DEF CanSign, SetKnows
  <2> QED
    BY <1>0, <1>3, <2>1, <2>2 DEF CanSign
<1>8. ASSUME NEW l \in Keys
      PROVE  KeyInv(l)'
  <2>0. KeyInv(l) /\ rows[l] \in Row
    BY <1>0 DEF IInv
  <2>1. CASE l = k
    <3>1. k \notin leak.keys /\ rows[k].retired_at # None =>
             signed'[k] < rows[k].retired_at + TokenTTL
      BY <1>0, <1>3, <1>4, <1>7 DEF Row
    <3>2. signed'[k] <= clock + TokenTTL
      BY <1>0, <1>4
    <3> QED
      BY <1>0, <1>5, <1>6, <2>0, <2>1, <3>1, <3>2 DEF KeyInv
  <2>2. CASE l # k
    BY <1>0, <1>4, <2>0, <2>2 DEF KeyInv
  <2> QED
    BY <2>1, <2>2
<1>9. TypeOK' /\ LeakInv' /\ RotationInv' /\ \A v \in Apis : CacheInv(v)'
  <2>1. TypeOK'
    BY <1>0, <1>4 DEF IInv, TypeOK
  <2>2. LeakInv' /\ \A v \in Apis : CacheInv(v)'
    BY <1>0 DEF IInv, LeakInv, CacheInv
  <2>3. RotationInv'
    BY <1>0 DEF IInv, RotationInv, RotationLocked, Pending, Covers
  <2> QED
    BY <2>1, <2>2, <2>3
<1>10. \A h \in Instances : InstanceInv(h)'
  BY <1>0, SameInstance DEF IInv
<1> QED
  BY <1>8, <1>9, <1>10 DEF IInv

\* A JWKS is as recent as the key set it is made from.
LEMMA FetchStep ==
    ASSUME IInv, NEW v \in Apis, NEW k \in Keys \cup {None}, NEW i \in Instances,
           FetchJwks(v, k, i)
    PROVE  IInv'
<1> USE ConstantsAssumption
<1>0. /\ rows \in [Keys -> Row] /\ clock \in Instant /\ clock \in Nat /\ clock' = clock
      /\ rows' = rows /\ signed' = signed /\ loaded' = loaded /\ jobs' = jobs /\ leak' = leak
      /\ caches \in [Apis -> Cache]
      /\ Staleness \in Nat /\ RetiredGrace \in Nat /\ None \notin Int
  BY DEF IInv, TypeOK, Instant, FetchJwks
<1> DEFINE set == loaded[i]
           cache == [keys |-> Jwks(loaded[i]), fetched_at |-> clock]
<1>1. set \in KeySet /\ SetInv(set)
  BY DEF IInv, TypeOK, InstanceInv, FetchJwks, Up
<1>2. cache \in Cache /\ cache.keys = Jwks(set) /\ cache.fetched_at = clock
  BY <1>0 DEF Cache, Jwks
<1>3. caches' = [caches EXCEPT ![v] = cache]
  BY DEF FetchJwks
<1> HIDE DEF set, cache
<1>4. caches' \in [Apis -> Cache] /\ caches'[v] = cache
      /\ \A w \in Apis \ {v} : caches'[w] = caches[w]
  BY <1>0, <1>2, <1>3
<1>5. set.at \in Nat /\ set.at <= clock /\ clock <= set.at + Staleness
  BY <1>1 DEF SetInv, KeySet, Instant
<1>6. ASSUME NEW l \in leak.keys, l \in Jwks(set)
      PROVE  clock <= leak.at + Staleness
  <2>1. l \in Keys /\ leak.at \in Nat
    BY DEF IInv, TypeOK, LeakInv, NoLeak
  <2>2. set.at <= leak.at
    BY <1>1, <1>6, <2>1 DEF SetInv, SetKnows, Jwks
  <2> QED
    BY <1>0, <1>5, <2>1, <2>2
<1>7. ASSUME NEW l \in Keys \ leak.keys, Exists(rows[l]),
             rows[l].created_at < clock - Staleness
      PROVE  \/ l \in Jwks(set)
             \/ rows[l].retired_at # None /\ rows[l].retired_at <= clock - RetiredGrace
  <2>1. SetKnows(set, l) /\ rows[l] \in Row
    BY <1>0, <1>1 DEF SetInv
  <2>2. rows[l].created_at \in Nat
    BY <1>7, <2>1 DEF Row, Exists, Instant
  <2>3. rows[l].created_at < set.at
    BY <1>0, <1>5, <1>7, <2>2
  <2>4. \/ Exists(set.rows[l])
        \/ rows[l].retired_at # None /\ rows[l].retired_at <= set.at - RetiredGrace
    BY <1>7, <2>1, <2>3 DEF SetKnows
  <2>5. rows[l].retired_at # None => rows[l].retired_at \in Int
    BY <2>1 DEF Row
  <2> QED
    BY <1>0, <1>5, <2>4, <2>5 DEF Jwks
<1>8. ASSUME NEW w \in Apis
      PROVE  CacheInv(w)'
  <2>1. CASE w = v
    BY <1>0, <1>2, <1>4, <1>6, <1>7, <2>1 DEF CacheInv
  <2>2. CASE w # v
    BY <1>0, <1>4, <2>2 DEF IInv, CacheInv
  <2> QED
    BY <2>1, <2>2
<1>9. TypeOK' /\ LeakInv' /\ RotationInv' /\ \A l \in Keys : KeyInv(l)'
  <2>1. TypeOK'
    BY <1>0, <1>4 DEF IInv, TypeOK
  <2>2. LeakInv' /\ \A l \in Keys : KeyInv(l)'
    BY <1>0 DEF IInv, LeakInv, KeyInv
  <2>3. RotationInv'
    BY <1>0 DEF IInv, RotationInv, RotationLocked, Pending, Covers
  <2> QED
    BY <2>1, <2>2, <2>3
<1>10. \A h \in Instances : InstanceInv(h)'
  BY <1>0, SameInstance DEF IInv
<1> QED
  BY <1>8, <1>9, <1>10 DEF IInv

\* Time: the schedule keeps the key sets from growing old.
LEMMA TickStep ==
    ASSUME IInv, Tick
    PROVE  IInv'
<1> USE ConstantsAssumption
<1>0. /\ rows \in [Keys -> Row] /\ clock \in Instant /\ clock \in Nat
      /\ clock' = clock + 1 /\ clock' \in Instant /\ clock' \in Nat
      /\ rows' = rows /\ signed' = signed /\ loaded' = loaded /\ jobs' = jobs
      /\ leak' = leak /\ caches' = caches
      /\ signed \in [Keys -> Nat] /\ TokenTTL \in Nat
      /\ Staleness \in Nat /\ RetiredGrace \in Nat /\ None \notin Int
  BY DEF IInv, TypeOK, Instant, Tick
<1>1. TypeOK' /\ LeakInv'
  <2>1. TypeOK'
    BY <1>0 DEF IInv, TypeOK
  <2>2. LeakInv'
    BY <1>0 DEF IInv, LeakInv
  <2> QED
    BY <2>1, <2>2
<1>2. ASSUME NEW k \in Keys
      PROVE  KeyInv(k)'
  <2>1. KeyInv(k) /\ rows[k] \in Row /\ signed[k] \in Nat
    BY <1>0 DEF IInv
  <2>2. /\ Exists(rows[k]) => rows[k].created_at \in Nat
        /\ rows[k].active_at \in Nat
    BY <2>1 DEF Row, Exists, Instant
  <2> QED
    BY <1>0, <2>1, <2>2 DEF KeyInv
<1>3. ASSUME NEW set \in KeySet, SetInv(set), clock - set.at < Staleness
      PROVE  SetInv(set)'
  <2>1. set.at \in Nat
    BY DEF KeySet, Instant
  <2>2. set.at <= clock' /\ clock' <= set.at + Staleness
    BY <1>0, <1>3, <2>1 DEF SetInv
  <2> QED
    BY <1>0, <1>3, <2>2 DEF SetInv, SetKnows
<1>4. ASSUME NEW i \in Instances
      PROVE  InstanceInv(i)'
  <2>0. /\ InstanceInv(i) /\ loaded[i] \in KeySet \cup {None}
        /\ \A j \in JobNames : jobs[i][j] \in Job
    BY DEF IInv, TypeOK
  <2>1. Up(i)' => SetInv(loaded[i])'
    <3> SUFFICES ASSUME Up(i) PROVE SetInv(loaded[i])'
      BY <1>0 DEF Up
    <3>1. loaded[i] \in KeySet /\ SetInv(loaded[i]) /\ clock - loaded[i].at < Staleness
      BY <2>0 DEF InstanceInv, Up, Tick
    <3>2. PICK set \in KeySet : set = loaded[i]
      BY <3>1
    <3>3. SetInv(set)'
      BY <1>3, <3>1, <3>2
    <3> QED
      BY <1>0, <3>2, <3>3
  <2>2. ASSUME NEW l \in JobNames, jobs[i][l].step = "store"
        PROVE  SetInv(jobs[i][l].set)'
    <3>2. /\ jobs[i][l].set \in KeySet /\ SetInv(jobs[i][l].set)
          /\ clock - jobs[i][l].set.at < Staleness
      BY <2>0, <2>2 DEF InstanceInv, Job, Tick
    <3>3. PICK set \in KeySet : set = jobs[i][l].set
      BY <3>2
    <3>4. SetInv(set)'
      BY <1>3, <3>2, <3>3
    <3> QED
      BY <1>0, <3>3, <3>4
  <2> QED
    BY <1>0, <2>0, <2>1, <2>2 DEF InstanceInv
<1>5. ASSUME NEW v \in Apis
      PROVE  CacheInv(v)'
  <2>1. CacheInv(v) /\ caches[v] \in Cache
    BY DEF IInv, TypeOK
  <2> QED
    BY <1>0, <2>1 DEF CacheInv, Cache, Instant
<1>6. RotationInv'
  <2>1. \A k \in Keys : Pending(k)' => Pending(k)
    <3> TAKE k \in Keys
    <3>1. rows[k].active_at \in Nat
      BY <1>0 DEF Row
    <3> QED
      BY <1>0, <3>1 DEF Pending
  <2>2. ~RotationLocked'
    BY <1>0 DEF Tick, RotationLocked
  <2>3. \A t \in Instant : t >= clock' => t >= clock
    BY <1>0 DEF Instant
  <2> QED
    BY <1>0, <2>1, <2>2, <2>3 DEF IInv, RotationInv, Covers
<1> QED
  BY <1>1, <1>2, <1>4, <1>5, <1>6 DEF IInv

\* Every step keeps the invariant.
LEMMA NextKeepsIInv == IInv /\ [Next]_vars => IInv'
<1> SUFFICES ASSUME IInv, [Next]_vars PROVE IInv'
  OBVIOUS
<1>1. ASSUME NEW i \in Instances, StartRotation(i) PROVE IInv'
  BY <1>1, ReadStep
<1>2. ASSUME NEW i \in Instances, Publish(i) PROVE IInv'
  BY <1>2, PublishStep
<1>3. ASSUME NEW i \in Instances, NEW j \in JobNames, RunJob(i, j) \/ FailJob(i, j)
      PROVE  IInv'
  <2>1. CASE LoadKeys(i, j) \/ LoadAgain(i, j) \/ FailJob(i, j)
    BY <2>1, ReadStep
  <2>2. CASE InsertKey(i, j)
    BY <2>2, InsertStep
  <2>3. CASE StoreKeys(i, j)
    BY <2>3, MemoryStep
  <2> QED
    BY <1>3, <2>1, <2>2, <2>3 DEF RunJob
<1>4. ASSUME NEW i \in Instances, Issue(i) PROVE IInv'
  BY <1>4, IssueStep
<1>5. ASSUME NEW i \in Instances, Stop(i) PROVE IInv'
  BY <1>5, MemoryStep
<1>6. ASSUME NEW v \in Apis, NEW k \in Keys \cup {None}, NEW i \in Instances, FetchJwks(v, k, i)
      PROVE  IInv'
  BY <1>6, FetchStep
<1>7. CASE RetireByHand
  BY <1>7, RetireStep
<1>8. CASE Tick
  BY <1>8, TickStep
<1>9. CASE UNCHANGED vars
  <2> USE <1>9 DEF vars
  <2>1. TypeOK' /\ LeakInv' /\ (\A k \in Keys : KeyInv(k)') /\ (\A v \in Apis : CacheInv(v)')
    BY DEF IInv, TypeOK, LeakInv, KeyInv, CacheInv
  <2>2. \A i \in Instances : InstanceInv(i)'
    BY SameInstance DEF IInv
  <2>3. RotationInv'
    BY DEF IInv, RotationInv, RotationLocked, Pending, Covers
  <2> QED
    BY <2>1, <2>2, <2>3 DEF IInv
<1> QED
  BY <1>1, <1>2, <1>3, <1>4, <1>5, <1>6, <1>7, <1>8, <1>9 DEF Next

-----------------------------------------------------------------------------
(* The theorems *)

\* However the steps of the instances, the two jobs, the operator and the clock
\* interleave, the inductive invariant holds.
THEOREM IInvHolds == Spec => []IInv
<1>1. Init => IInv
  BY InitEstablishesIInv
<1>2. IInv /\ [Next]_vars => IInv'
  BY NextKeepsIInv
<1> QED
  BY <1>1, <1>2, PTL DEF Spec

\* Rows, key sets, jobs and caches keep the shape the code gives them.
THEOREM TypeCorrect == Spec => []TypeOK
<1>1. IInv => TypeOK
  BY DEF IInv
<1> QED
  BY <1>1, IInvHolds, PTL

\* Unless the operator retires the keys by hand, an instance that serves always
\* has a key to sign with: SigningKeys::signing_key never fails.
THEOREM AnInstanceAlwaysSigns == Spec => [](leak = NoLeak => AlwaysSigns)
<1>1. IInv => (leak = NoLeak => AlwaysSigns)
  <2> SUFFICES ASSUME IInv, leak = NoLeak, NEW i \in Instances, Up(i)
               PROVE  SigningKey(loaded[i], clock) # {}
    BY DEF AlwaysSigns
  <2>1. loaded[i] \in KeySet /\ SetInv(loaded[i]) /\ clock \in Instant /\ clock \in Nat
    BY DEF IInv, TypeOK, InstanceInv, Up, Instant
  <2>2. Covers(loaded[i].rows, clock)
    BY <2>1 DEF SetInv
  <2> QED
    BY <2>1, <2>2, CoveredMeansSigns
<1> QED
  BY <1>1, IInvHolds, PTL

\* "only one instance rotates at a time": under the advisory lock there is never
\* more than one key that has not taken over yet.
THEOREM OneRotationAtATime == Spec => [](leak = NoLeak => OnePending)
<1>1. IInv => (leak = NoLeak => OnePending)
  <2> SUFFICES ASSUME IInv, leak = NoLeak PROVE OnePending
    OBVIOUS
  <2> DEFINE pending == {k \in Keys : Exists(rows[k]) /\ rows[k].active_at > clock}
  <2>1. \A k, l \in pending : k = l
    BY DEF IInv, RotationInv, Pending
  <2>2. CASE pending = {}
    <3>1. Cardinality(pending) = 0
      BY <2>2, FS_EmptySet
    <3> QED
      BY <3>1 DEF OnePending
  <2>3. CASE pending # {}
    <3>1. PICK k \in pending : TRUE
      BY <2>3
    <3>2. pending = {k}
      BY <2>1, <3>1
    <3>3. Cardinality(pending) = 1
      <4> HIDE DEF pending
      <4> QED
        BY <3>2, FS_Singleton
    <3> QED
      BY <3>3 DEF OnePending
  <2> QED
    BY <2>2, <2>3
<1> QED
  BY <1>1, IInvHolds, PTL

\* A rotation ends a key's signing life at retired_at, whatever the instances
\* hold in memory: LoadedKey::can_sign reads a row that may be a reload old.
THEOREM NoKeySignsPastItsEnd == Spec => [](leak = NoLeak => RetiredNeverSigns)
<1>1. IInv => (leak = NoLeak => RetiredNeverSigns)
  BY DEF IInv, KeyInv, RetiredNeverSigns, NoLeak
<1> QED
  BY <1>1, IInvHolds, PTL

\* Within one reload of an emergency the last instance stops signing with the
\* leaked keys.
THEOREM EmergencyEndsSigning == Spec => []LeakedKeyStopsSigning
<1>1. IInv => LeakedKeyStopsSigning
  BY DEF IInv, TypeOK, KeyInv, LeakedKeyStopsSigning
<1> QED
  BY <1>1, IInvHolds, PTL

\* One JWKS lifetime after that no server accepts the leaked keys, and no API but
\* one that bauth has been out of reach for all that time.
THEOREM EmergencyEndsTrust == Spec => []LeakedKeyIsForgotten
<1>1. IInv => LeakedKeyIsForgotten
  <2> USE ConstantsAssumption
  <2> SUFFICES ASSUME IInv, leak # NoLeak, clock >= leak.at + Staleness + CacheAge,
                      NEW k \in leak.keys
               PROVE  LET answers == {i \in Instances : Up(i)} IN
                      /\ \A i \in answers : k \notin Jwks(loaded[i])
                      /\ \A v \in Apis, answer \in answers \cup {None} :
                            Accepts(v, k, answer) =>
                                answer = None /\ caches[v].fetched_at <= leak.at + Staleness
    BY DEF LeakedKeyIsForgotten
  <2>0. /\ clock \in Nat /\ leak.at \in Nat /\ k \in Keys /\ None \notin Int
        /\ Staleness \in Nat /\ CacheAge \in Nat /\ Refetch \in Nat
        /\ 0 < Refetch /\ Refetch <= CacheAge
    BY DEF IInv, TypeOK, LeakInv, Instant
  <2>1. ASSUME NEW i \in Instances, Up(i)
        PROVE  k \notin Jwks(loaded[i])
    <3>1. loaded[i] \in KeySet /\ SetInv(loaded[i])
      BY <2>1 DEF IInv, TypeOK, InstanceInv, Up
    <3>2. loaded[i].at \in Nat /\ clock <= loaded[i].at + Staleness /\ SetKnows(loaded[i], k)
      BY <2>0, <3>1 DEF SetInv, KeySet, Instant
    <3> QED
      BY <2>0, <3>2 DEF SetKnows, Jwks
  <2>2. ASSUME NEW v \in Apis, k \in caches[v].keys
        PROVE  /\ caches[v].fetched_at <= leak.at + Staleness
               /\ ~Fresh(v, k) /\ OlderThan(v, Refetch)
    <3>1. CacheInv(v) /\ caches[v] \in Cache
      BY DEF IInv, TypeOK
    <3>2. caches[v].fetched_at \in Nat /\ caches[v].fetched_at <= leak.at + Staleness
      BY <2>0, <2>2, <3>1 DEF CacheInv, Cache, Instant
    <3>3. clock - caches[v].fetched_at >= CacheAge /\ clock - caches[v].fetched_at >= Refetch
      BY <2>0, <3>2
    <3> QED
      BY <2>0, <3>2, <3>3 DEF Fresh, OlderThan
  <2>3. ASSUME NEW v \in Apis, NEW answer \in {i \in Instances : Up(i)} \cup {None},
               Accepts(v, k, answer)
        PROVE  answer = None /\ caches[v].fetched_at <= leak.at + Staleness
    BY <2>1, <2>2, <2>3 DEF Accepts
  <2> QED
    BY <2>1, <2>3
<1> QED
  BY <1>1, IInvHolds, PTL

\* The promise of the JWKS: a token that has not expired is accepted by every
\* server and every API, through any number of rotations, restarts and reloads.
THEOREM UnexpiredTokensVerify == Spec => []TokensVerify
<1>1. IInv => TokensVerify
  <2> USE ConstantsAssumption
  <2> SUFFICES ASSUME IInv, NEW k \in Keys \ leak.keys, signed[k] > clock, Settled(k),
                      NEW i \in Instances, Up(i)
               PROVE  /\ k \in Jwks(loaded[i])
                      /\ \A v \in Apis : Accepts(v, k, i)
    BY DEF TokensVerify
  <2>0. /\ clock \in Nat /\ None \notin Int /\ Prepublication \in Nat /\ RetiredGrace \in Nat
        /\ Staleness \in Nat /\ CacheAge \in Nat /\ Refetch \in Nat /\ TokenTTL \in Nat
        /\ 0 < Refetch /\ Refetch <= CacheAge /\ Staleness + Refetch <= Prepublication
        /\ TokenTTL <= RetiredGrace
    BY DEF IInv, TypeOK, Instant
  <2>1. KeyInv(k) /\ rows[k] \in Row /\ signed[k] \in Nat
    BY DEF IInv, TypeOK
  <2>2. Exists(rows[k]) /\ rows[k].active_at <= clock /\ rows[k].created_at \in Nat
    BY <2>0, <2>1 DEF KeyInv, Row, Exists, Instant
  <2>3. clock >= rows[k].created_at + Staleness + Refetch
    BY <2>0, <2>1, <2>2 DEF KeyInv, Settled
  <2>4. rows[k].retired_at # None =>
           rows[k].retired_at \in Int /\ clock < rows[k].retired_at + RetiredGrace
    BY <2>0, <2>1 DEF KeyInv, Row
  <2>5. loaded[i] \in KeySet /\ SetInv(loaded[i])
    BY DEF IInv, TypeOK, InstanceInv, Up
  <2>6. /\ loaded[i].at \in Nat /\ clock <= loaded[i].at + Staleness
        /\ loaded[i].at <= clock /\ SetKnows(loaded[i], k)
    BY <2>5 DEF SetInv, KeySet, Instant
  <2>7. k \in Jwks(loaded[i])
    <3>1. rows[k].created_at < loaded[i].at
      BY <2>0, <2>2, <2>3, <2>6
    <3>2. \/ Exists(loaded[i].rows[k])
          \/ rows[k].retired_at # None /\ rows[k].retired_at <= loaded[i].at - RetiredGrace
      BY <2>2, <2>6, <3>1 DEF SetKnows
    <3>3. Exists(loaded[i].rows[k])
      BY <2>0, <2>4, <2>6, <3>2
    <3> QED
      BY <3>3 DEF Jwks
  <2>8. ASSUME NEW v \in Apis
        PROVE  Accepts(v, k, i)
    <3> SUFFICES ASSUME ~(~Fresh(v, k) /\ OlderThan(v, Refetch))
                 PROVE  k \in caches[v].keys
      BY <2>0, <2>7 DEF Accepts
    <3>1. CASE Fresh(v, k)
      BY <3>1 DEF Fresh
    <3>2. CASE ~OlderThan(v, Refetch)
      <4>1. CacheInv(v) /\ caches[v] \in Cache
        BY DEF IInv, TypeOK
      <4>2. /\ caches[v].fetched_at # None /\ caches[v].fetched_at \in Nat
            /\ caches[v].fetched_at <= clock /\ clock - caches[v].fetched_at < Refetch
        BY <2>0, <3>2, <4>1 DEF OlderThan, CacheInv, Cache, Instant
      <4>3. rows[k].created_at < caches[v].fetched_at - Staleness
        BY <2>0, <2>2, <2>3, <4>2
      <4>4. \/ k \in caches[v].keys
            \/ rows[k].retired_at # None /\ rows[k].retired_at <= caches[v].fetched_at - RetiredGrace
        BY <2>2, <4>1, <4>2, <4>3 DEF CacheInv
      <4> QED
        BY <2>0, <2>4, <4>2, <4>4
    <3> QED
      BY <3>1, <3>2
  <2> QED
    BY <2>7, <2>8
<1> QED
  BY <1>1, IInvHolds, PTL
=============================================================================
