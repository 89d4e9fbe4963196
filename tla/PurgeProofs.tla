---------------------------- MODULE PurgeProofs ----------------------------
(***************************************************************************)
(* The inductive invariant of Purge and the theorems it gives, for any     *)
(* number of instances, rows, faults and any retentions.                   *)
(***************************************************************************)
EXTENDS Purge, TLAPS

-----------------------------------------------------------------------------
(* The inductive invariant *)

\* A purge whose connection stands has the advisory lock.
LockInv == \A i \in Instances : jobs[i] # NoJob /\ ~jobs[i].lost => lock = i

\* A row that is not there holds nothing.  Flows and owned rows always end at some
\* instant, and an owned row no later than its own lifetime after what it goes
\* with; an email is no younger than its flow's end.  An account that is not
\* verified ends when it was created.
RowOk(r) ==
    /\ ~Kept(r) => rows[r].ends = None /\ rows[r].of = {} /\ rows[r].born = None
    /\ Kept(r) /\ r \notin Users \cup Keys => rows[r].ends # None
    /\ r \in Users /\ rows[r].ends # None => rows[r].born = rows[r].ends
    /\ r \in Links /\ Kept(r) => rows[r].born # None
    /\ r \notin Owned => rows[r].of = {}
    /\ r \in Confirmations /\ Kept(r) => rows[r].ends <= clock + LinkTTL
    /\ \A p \in rows[r].of :
          /\ p \in Flows \cup Users \cup Sessions
          /\ Kept(p)
          /\ rows[p].of \subseteq rows[r].of
          /\ p \in Flows => /\ r \in Links \cup Codes
                            /\ rows[r].ends <= rows[p].ends + CodeTTL
                            /\ rows[r].born # None => rows[r].born <= rows[p].ends
          /\ p \in Sessions => /\ r \in Confirmations
                               /\ rows[r].ends <= rows[p].ends + LinkTTL

RowsInv == \A r \in Rows : RowOk(r)

\* The account was created unverified, more than a week ago.
LongAgo(u) == rows[u].born # None /\ rows[u].born < clock - Week

\* What a sub-select returned is of its table, and has not become useful since,
\* except for accounts, which may have been verified.
StillDue(n, r) == IF r \in Users THEN LongAgo(r) ELSE Stale(n, r)

SelectInv(i) ==
    jobs[i].selected # None =>
        /\ Deletes(i)
        /\ \A r \in jobs[i].selected :
              /\ r \in Tables[jobs[i].table].rows
              /\ rows[r].state # "unborn"
              /\ Kept(r) => StillDue(jobs[i].table, r)

\* The inductive invariant behind the theorems below.
IInv ==
    /\ TypeOK
    /\ LockInv
    /\ RowsInv
    /\ \A i \in Instances : SelectInv(i)

-----------------------------------------------------------------------------
(* The invariant is inductive *)

\* The six tables, spelled out.
LEMMA TablesSpelled ==
    /\ DOMAIN Tables = 1 .. 6 /\ Len(Tables) = 6
    /\ Tables[1].rows = Flows /\ Tables[2].rows = Changes /\ Tables[3].rows = Confirmations
    /\ Tables[4].rows = Sessions /\ Tables[5].rows = Users /\ Tables[6].rows = Keys
    /\ Tables[1].retention = Day /\ Tables[4].retention = Month /\ Tables[5].retention = Week
    /\ \A n \in DOMAIN Tables : Tables[n].retention \in Nat /\ Tables[n].rows \subseteq Rows
BY ConstantsAssumption DEF Tables, Rows, Owned

\* No row is in two tables.
LEMMA TablesApart ==
    /\ Flows \cap (Changes \cup Confirmations \cup Sessions \cup Users \cup Keys) = {}
    /\ Users \cap (Changes \cup Confirmations \cup Sessions \cup Keys) = {}
    /\ Keys \cap (Changes \cup Confirmations \cup Sessions) = {}
    /\ Confirmations \cap (Changes \cup Sessions) = {}
    /\ Links \cap (Flows \cup Users \cup Keys) = {}
    /\ Codes \cap (Flows \cup Users \cup Keys) = {}
    /\ (Links \cup Codes) \cap (Changes \cup Confirmations \cup Sessions) = {}
    /\ Links \cap Codes = {}
BY TablesSpelled, TablesAssumption

\* What belongs to something is no flow, account or key.
LEMMA OwnedApart == Owned \cap (Flows \cup Users \cup Keys) = {} /\ Owned \subseteq Rows
BY TablesApart DEF Owned, Rows

\* The later of two instants.
LEMMA LaterOfTwo ==
    ASSUME NEW a \in Nat, NEW b \in Nat
    PROVE  Max({a, b}) \in Nat /\ Max({a, b}) >= a /\ Max({a, b}) >= b
<1>1. \E x \in {a, b} : \A y \in {a, b} : x >= y
  OBVIOUS
<1> QED
  BY <1>1 DEF Max

\* The empty tables, with no purge in progress.
LEMMA InitEstablishesIInv == Init => IInv
<1> SUFFICES ASSUME Init PROVE IInv
  OBVIOUS
<1> USE ConstantsAssumption DEF Init
<1>1. Unborn \in Row /\ NoJob \in Job
  BY DEF Unborn, Row, NoJob, Job, UnlockStep
<1>2. TypeOK
  BY <1>1 DEF TypeOK, Instant
<1>3. LockInv
  BY DEF LockInv
<1>4. RowsInv
  BY DEF RowsInv, RowOk, Unborn, Kept
<1>5. \A i \in Instances : SelectInv(i)
  BY DEF SelectInv, NoJob
<1> QED
  BY <1>2, <1>3, <1>4, <1>5 DEF IInv

\* What the server may do to a row that is there: a row past its end never gets
\* another, but an account may be verified.
Updated(r) ==
    /\ Kept(r)'
    /\ rows'[r].of = rows[r].of
    /\ rows'[r].born = rows[r].born
    /\ \/ rows'[r].ends = rows[r].ends
       \/ r \in Users /\ rows'[r].ends = None
       \/ r \in Keys /\ ~(rows[r].ends \in Nat /\ rows[r].ends < clock)
       \/ /\ r \in Flows /\ rows'[r].ends \in Nat
          /\ rows'[r].ends >= rows[r].ends /\ rows[r].ends >= clock
       \/ r \in Owned /\ rows'[r].ends = clock /\ rows[r].ends >= clock

\* The server updates rows in that way and inserts well-formed ones.
LEMMA ServerWrites ==
    ASSUME IInv, rows' \in [Rows -> Row], UNCHANGED <<clock, lock, jobs, faults>>,
           \A r \in Rows : /\ Kept(r) => Updated(r)
                           /\ ~Kept(r) => \/ rows'[r] = rows[r]
                                          \/ rows[r].state = "unborn" /\ RowOk(r)'
    PROVE  IInv'
<1> USE ConstantsAssumption
<1>0. TypeOK /\ rows \in [Rows -> Row] /\ clock \in Nat
  BY DEF IInv, TypeOK, Instant
<1>1. TypeOK' /\ LockInv'
  BY <1>0 DEF IInv, TypeOK, LockInv
<1>2. \A r \in Rows : rows[r].ends # None => rows[r].ends \in Nat
  BY <1>0 DEF Row
<1>3. ASSUME NEW r \in Rows, Kept(r)
      PROVE  RowOk(r)'
  <2>1. Updated(r) /\ RowOk(r)
    BY <1>3 DEF IInv, RowsInv
  <2>2. rows'[r].ends \in Nat \cup {None}
    BY DEF Row
  <2>3. r \in Owned => /\ rows[r].ends \in Nat /\ rows'[r].ends \in Nat
                       /\ rows'[r].ends <= rows[r].ends
    BY <1>0, <1>2, <1>3, <2>1, OwnedApart DEF Updated, RowOk
  <2>4. /\ r \notin Users \cup Keys => rows'[r].ends # None
        /\ r \in Users /\ rows'[r].ends # None => rows'[r].born = rows'[r].ends
    BY <1>0, <1>3, <2>1, <2>3, OwnedApart, TablesApart DEF Updated, RowOk
  <2>5. r \in Confirmations => rows'[r].ends <= clock + LinkTTL
    BY <1>0, <1>3, <2>1, <2>3 DEF RowOk, Owned
  <2>6. ASSUME NEW p \in rows[r].of
        PROVE  /\ p \in Flows \cup Users \cup Sessions
               /\ Kept(p)'
               /\ rows'[p].of \subseteq rows[r].of
               /\ p \in Flows => /\ r \in Links \cup Codes
                                 /\ rows'[r].ends <= rows'[p].ends + CodeTTL
                                 /\ rows[r].born # None => rows[r].born <= rows'[p].ends
               /\ p \in Sessions => /\ r \in Confirmations
                                    /\ rows'[r].ends <= rows'[p].ends + LinkTTL
    <3>1. /\ p \in Flows \cup Users \cup Sessions /\ p \in Rows
          /\ Kept(p) /\ rows[p].of \subseteq rows[r].of /\ r \in Owned
      BY <2>1, <2>6 DEF RowOk, Rows, Owned
    <3>2. Updated(p)
      BY <3>1
    <3>3. p \in Flows \cup Sessions => rows[p].ends \in Nat
      BY <1>2, <3>1, TablesApart DEF IInv, RowsInv, RowOk
    <3>4. CASE p \in Flows
      <4>1. rows'[p].ends \in Nat /\ rows'[p].ends >= rows[p].ends
        BY <3>2, <3>3, <3>4, TablesApart, OwnedApart DEF Updated
      <4>2. /\ r \in Links \cup Codes
            /\ rows[r].ends <= rows[p].ends + CodeTTL
            /\ rows[r].born # None => rows[r].born \in Nat /\ rows[r].born <= rows[p].ends
        BY <1>0, <2>1, <2>6, <3>4 DEF RowOk, Row, Instant
      <4> QED
        BY <2>3, <3>1, <3>2, <3>3, <3>4, <4>1, <4>2, TablesApart DEF Updated
    <3>5. CASE p \in Sessions
      <4>1. rows'[p].ends \in {rows[p].ends, clock} /\ p \notin Flows
        BY <3>2, <3>5, TablesApart DEF Updated
      <4>2. r \in Confirmations /\ rows[r].ends <= rows[p].ends + LinkTTL
        BY <2>1, <2>6, <3>5 DEF RowOk
      <4> QED
        BY <1>0, <2>3, <2>5, <3>1, <3>2, <3>3, <4>1, <4>2 DEF Updated
    <3>6. CASE p \in Users
      BY <3>1, <3>2, <3>6, TablesApart DEF Updated
    <3> QED
      BY <3>1, <3>4, <3>5, <3>6
  <2>7. rows'[r].of = rows[r].of /\ rows'[r].born = rows[r].born /\ Kept(r)'
    BY <2>1 DEF Updated
  <2>8. /\ r \in Links => rows'[r].born # None
        /\ r \notin Owned => rows'[r].of = {}
    BY <1>3, <2>1, <2>7 DEF RowOk
  <2> QED
    BY <1>0, <2>4, <2>5, <2>6, <2>7, <2>8 DEF RowOk
<1>4. ASSUME NEW r \in Rows, ~Kept(r)
      PROVE  RowOk(r)'
  <2>1. CASE rows'[r] = rows[r]
    BY <1>4, <2>1 DEF IInv, RowsInv, RowOk, Kept
  <2> QED
    BY <1>4, <2>1
<1>5. RowsInv'
  BY <1>3, <1>4 DEF RowsInv
<1>6. ASSUME NEW i \in Instances
      PROVE  SelectInv(i)'
  <2> SUFFICES ASSUME jobs[i].selected # None, NEW z \in jobs[i].selected
               PROVE  /\ z \in Tables[jobs[i].table].rows
                      /\ rows'[z].state # "unborn"
                      /\ Kept(z)' => StillDue(jobs[i].table, z)'
    BY DEF IInv, SelectInv, Deletes
  <2>1. /\ Deletes(i) /\ Tables[jobs[i].table].retention \in Nat
        /\ z \in Tables[jobs[i].table].rows
        /\ rows[z].state # "unborn"
        /\ Kept(z) => StillDue(jobs[i].table, z)
    BY TablesSpelled DEF IInv, SelectInv, Deletes
  <2>2. z \in Rows
    BY <2>1, TablesSpelled DEF Deletes
  <2>3. CASE ~Kept(z)
    BY <2>1, <2>2, <2>3 DEF Kept
  <2>4. CASE Kept(z)
    <3>1. Updated(z) /\ StillDue(jobs[i].table, z)
      BY <2>1, <2>2, <2>4
    <3>2. CASE z \in Users
      BY <2>1, <3>1, <3>2 DEF Updated, StillDue, LongAgo, Kept
    <3>3. CASE z \notin Users
      <4>1. Stale(jobs[i].table, z) /\ rows[z].ends \in Nat /\ rows[z].ends < clock
        BY <1>0, <1>2, <2>1, <2>2, <3>1, <3>3 DEF StillDue, Stale
      <4>2. rows'[z].ends = rows[z].ends
        BY <1>0, <3>1, <3>3, <4>1 DEF Updated
      <4> QED
        BY <2>1, <3>1, <3>3, <4>1, <4>2 DEF Updated, StillDue, Stale, Kept
    <3> QED
      BY <3>2, <3>3
  <2> QED
    BY <2>3, <2>4
<1> QED
  BY <1>1, <1>5, <1>6 DEF IInv

\* A row that is not touched.
LEMMA Untouched ==
    ASSUME NEW r \in Rows, rows'[r] = rows[r], Kept(r)
    PROVE  Updated(r)
BY DEF Updated, Kept

\* An INSERT of a well-formed row.
LEMMA InsertStep ==
    ASSUME IInv, NEW r \in Rows, NEW row \in Row, Insert(r, row), row.state = "kept",
           r \notin Users \cup Keys => row.ends # None,
           r \in Users /\ row.ends # None => row.born = row.ends,
           r \in Links => row.born # None,
           r \notin Owned => row.of = {},
           r \in Confirmations => row.ends <= clock + LinkTTL,
           \A p \in row.of :
              /\ p \in Users \cup Sessions
              /\ Kept(p)
              /\ rows[p].of \subseteq row.of
              /\ p \in Sessions => r \in Confirmations /\ row.ends <= rows[p].ends + LinkTTL
    PROVE  IInv'
<1>0. rows \in [Rows -> Row]
  BY DEF IInv, TypeOK
<1>1. /\ rows' = [rows EXCEPT ![r] = row] /\ UNCHANGED <<clock, lock, jobs, faults>>
      /\ rows[r].state = "unborn"
  BY DEF Insert, HasRoom
<1>2. /\ rows' \in [Rows -> Row] /\ rows'[r] = row /\ Kept(r)'
      /\ \A z \in Rows \ {r} : rows'[z] = rows[z]
  BY <1>0, <1>1 DEF Kept
<1>3. \A p \in row.of : p \in Rows /\ p # r /\ rows'[p] = rows[p] /\ Kept(p)'
  BY <1>1, <1>2 DEF Kept, Rows, Owned
<1>4. \A p \in row.of : p \notin Flows
  BY TablesApart
<1>5. RowOk(r)'
  BY <1>1, <1>2, <1>3, <1>4 DEF RowOk
<1>6. \A z \in Rows : Kept(z) => z # r
  BY <1>1 DEF Kept
<1> QED
  BY <1>1, <1>2, <1>5, <1>6, ServerWrites, Untouched

\* An email extends its flow, which is still open.
LEMMA AskForEmailStep ==
    ASSUME IInv, NEW f \in Flows, NEW l \in Links,
           NEW owner \in {{}} \cup {{u} : u \in Users}, AskForEmail(f, l, owner)
    PROVE  IInv'
<1> USE ConstantsAssumption
<1> DEFINE later == Max({rows[f].ends, clock + LinkTTL})
           new == New(clock + LinkTTL, {f} \cup owner, clock)
<1>0. rows \in [Rows -> Row] /\ clock \in Nat /\ clock \in Instant
  BY DEF IInv, TypeOK, Instant
<1>1. /\ f \in Rows /\ Kept(f) /\ rows[f] \in Row /\ rows[f].ends \notin 0 .. clock
      /\ l \in Rows /\ rows[l].state = "unborn" /\ l # f
      /\ owner \subseteq Users /\ \A u \in owner : Kept(u)
      /\ l \notin Users /\ f \notin Users /\ l \in Owned
  BY <1>0, TablesApart DEF AskForEmail, Live, HasRoom, Rows, Owned
<1>2. rows[f].ends \in Nat /\ rows[f].of = {}
  BY <1>0, <1>1, TablesApart, OwnedApart DEF IInv, RowsInv, RowOk, Row
<1>3. later \in Nat /\ later >= rows[f].ends /\ later >= clock + LinkTTL
  <2>1. clock + LinkTTL \in Nat
    BY <1>0
  <2> QED
    BY <1>2, <2>1, LaterOfTwo
<1>4. rows' = [rows EXCEPT ![f].ends = later, ![l] = new]
  BY DEF AskForEmail
<1> HIDE DEF later
<1>5. /\ new \in Row /\ new.state = "kept" /\ new.ends = clock + LinkTTL
      /\ new.of = {f} \cup owner /\ new.born = clock
  BY <1>0, <1>1 DEF New, Row, Rows
<1> HIDE DEF new
<1>6. /\ rows' \in [Rows -> Row] /\ rows'[l] = new /\ Kept(l)'
      /\ rows'[f] = [rows[f] EXCEPT !.ends = later]
      /\ \A z \in Rows \ {l, f} : rows'[z] = rows[z]
  <2>1. [rows[f] EXCEPT !.ends = later] \in Row
    BY <1>1, <1>3 DEF Row
  <2>2. rows' = [rows EXCEPT ![f] = [rows[f] EXCEPT !.ends = later], ![l] = new]
    BY <1>0, <1>1, <1>4
  <2> QED
    BY <1>0, <1>1, <1>5, <2>1, <2>2 DEF Kept
<1>7. /\ rows'[f].state = rows[f].state /\ rows'[f].of = rows[f].of
      /\ rows'[f].born = rows[f].born /\ rows'[f].ends = later
  BY <1>1, <1>6 DEF Row
<1>8. Updated(f)
  BY <1>0, <1>1, <1>2, <1>3, <1>7 DEF Updated, Kept
<1>9. \A u \in owner : Kept(u)' /\ rows'[u].of = {}
  BY <1>1, <1>6, OwnedApart DEF Kept, IInv, RowsInv, RowOk, Rows
<1>10. clock' = clock /\ UNCHANGED <<clock, lock, jobs, faults>>
  BY DEF AskForEmail
<1>11. RowOk(l)'
  <2>1. ASSUME NEW p \in rows'[l].of
        PROVE  /\ p \in Flows \cup Users \cup Sessions
               /\ Kept(p)'
               /\ rows'[p].of \subseteq rows'[l].of
               /\ p \in Flows => /\ l \in Links \cup Codes
                                 /\ rows'[l].ends <= rows'[p].ends + CodeTTL
                                 /\ rows'[l].born # None => rows'[l].born <= rows'[p].ends
               /\ p \in Sessions => /\ l \in Confirmations
                                    /\ rows'[l].ends <= rows'[p].ends + LinkTTL
    <3>1. CASE p = f
      <4>1. p \notin Sessions
        BY <3>1, TablesApart
      <4>2. rows'[l].ends <= rows'[f].ends + CodeTTL /\ clock <= rows'[f].ends
        BY <1>0, <1>3, <1>5, <1>6, <1>7
      <4>3. Kept(f)' /\ rows'[f].of = {} /\ rows'[l].born = clock
        BY <1>1, <1>2, <1>5, <1>6, <1>7 DEF Kept
      <4> QED
        BY <3>1, <4>1, <4>2, <4>3
    <3>2. CASE p \in owner
      BY <1>1, <1>9, <3>2, TablesApart
    <3> QED
      BY <1>5, <1>6, <2>1, <3>1, <3>2
  <2>2. l \notin Confirmations /\ l \notin Users
    BY TablesApart
  <2>3. new.ends # None /\ new.born # None
    BY <1>0, <1>5
  <2> QED
    BY <1>1, <1>6, <2>1, <2>2, <2>3 DEF RowOk
<1>12. \A z \in Rows : Kept(z) => z # l
  BY <1>1 DEF Kept
<1> QED
  BY <1>1, <1>6, <1>8, <1>10, <1>11, <1>12, ServerWrites, Untouched

\* A login uses the link up, verifies the account and issues the flow's code.
LEMMA LogInStep ==
    ASSUME IInv, NEW l \in Links, NEW f \in Flows, NEW u \in Users, NEW c \in Codes,
           LogIn(l, f, u, c)
    PROVE  IInv'
<1> USE ConstantsAssumption
<1> DEFINE link == [rows[l] EXCEPT !.ends = clock]
           user == [rows[u] EXCEPT !.state = "kept", !.ends = None]
           new == New(clock + CodeTTL, {f, u}, None)
<1>0. rows \in [Rows -> Row] /\ clock \in Nat
  BY DEF IInv, TypeOK, Instant
<1>1. /\ {l, f, u, c} \subseteq Rows /\ l \in Owned /\ c \in Owned
      /\ l # f /\ l # u /\ l # c /\ f # u /\ f # c /\ u # c
  BY TablesApart DEF Rows, Owned
<1>2. /\ Kept(l) /\ rows[l].ends \notin 0 .. clock /\ Kept(f) /\ rows[f].ends \notin 0 .. clock
      /\ rows[c].state = "unborn" /\ f \in rows[l].of
  BY DEF LogIn, Live, HasRoom
<1>3. rows[l].ends \in Nat /\ rows[f].ends \in Nat /\ rows[f].of = {} /\ rows[u].of = {}
  BY <1>0, <1>1, <1>2, TablesApart, OwnedApart DEF IInv, RowsInv, RowOk, Row
<1>4. rows[u].state # "deleted"
  <2>1. CASE u \in rows[l].of
    <3>1. Kept(u)
      BY <1>1, <2>1 DEF IInv, RowsInv, RowOk
    <3> QED
      BY <3>1 DEF Kept
  <2> QED
    BY <2>1 DEF LogIn, LogsIn
<1>5. /\ link \in Row /\ user \in Row /\ new \in Row
      /\ link.state = "kept" /\ link.ends = clock /\ link.of = rows[l].of
      /\ link.born = rows[l].born
      /\ user.state = "kept" /\ user.ends = None /\ user.of = rows[u].of
      /\ user.born = rows[u].born
      /\ new.state = "kept" /\ new.ends = clock + CodeTTL /\ new.of = {f, u} /\ new.born = None
  <2>1. rows[l] \in Row /\ rows[u] \in Row /\ rows[l].state = "kept"
    BY <1>0, <1>1, <1>2 DEF Kept
  <2>2. /\ link \in Row /\ link.state = "kept" /\ link.ends = clock /\ link.of = rows[l].of
        /\ link.born = rows[l].born
    BY <1>0, <2>1 DEF Row
  <2>3. /\ user \in Row /\ user.state = "kept" /\ user.ends = None /\ user.of = rows[u].of
        /\ user.born = rows[u].born
    BY <2>1 DEF Row
  <2>4. /\ new \in Row /\ new.state = "kept" /\ new.ends = clock + CodeTTL
        /\ new.of = {f, u} /\ new.born = None
    BY <1>0, <1>1 DEF New, Row
  <2> QED
    BY <2>2, <2>3, <2>4
<1>6. /\ rows' = [rows EXCEPT ![l] = link, ![u] = user, ![c] = new]
      /\ UNCHANGED <<clock, lock, jobs, faults>>
  BY <1>0, <1>1 DEF LogIn
<1> HIDE DEF link, user, new
<1>7. /\ rows' \in [Rows -> Row] /\ rows'[l] = link /\ rows'[u] = user /\ rows'[c] = new
      /\ \A z \in Rows \ {l, u, c} : rows'[z] = rows[z]
  BY <1>0, <1>1, <1>5, <1>6
<1>8. Updated(l)
  BY <1>0, <1>1, <1>2, <1>3, <1>5, <1>7 DEF Updated, Kept
<1>9. Kept(u) => Updated(u)
  BY <1>5, <1>7 DEF Updated, Kept
<1>10. ~Kept(u) => rows[u].state = "unborn" /\ RowOk(u)'
  <2> SUFFICES ASSUME ~Kept(u) PROVE rows[u].state = "unborn" /\ RowOk(u)'
    OBVIOUS
  <2>1. rows[u].state = "unborn" /\ rows[u].of = {}
    BY <1>0, <1>1, <1>3, <1>4 DEF Kept, Row
  <2>2. u \notin Links \cup Confirmations \cup Owned
    BY TablesApart, OwnedApart
  <2> QED
    BY <1>5, <1>7, <2>1, <2>2 DEF RowOk, Kept
<1>11. RowOk(c)'
  <2>1. rows'[f] = rows[f] /\ Kept(f)' /\ Kept(u)' /\ rows'[u].of = {} /\ Kept(c)'
    BY <1>1, <1>2, <1>3, <1>5, <1>7 DEF Kept
  <2>2. rows[f].ends > clock
    BY <1>0, <1>2, <1>3
  <2>3. f \notin Sessions /\ u \notin Flows \cup Sessions /\ c \notin Links \cup Confirmations \cup Users
    BY TablesApart
  <2>4. clock + CodeTTL <= rows[f].ends + CodeTTL /\ clock + CodeTTL # None
    BY <1>0, <1>3, <2>2
  <2> QED
    BY <1>1, <1>3, <1>5, <1>7, <2>1, <2>3, <2>4 DEF RowOk
<1>12. \A z \in Rows : Kept(z) => z # c
  BY <1>2 DEF Kept
<1>13. \A z \in Rows \ {l, u, c} : Kept(z) => Updated(z)
  BY <1>7, Untouched
<1> QED
  BY <1>2, <1>6, <1>7, <1>8, <1>9, <1>10, <1>11, <1>12, <1>13, ServerWrites

\* A write to one row that is there.
LEMMA UpdateStep ==
    ASSUME IInv, NEW r \in Rows, Kept(r), NEW ends \in Nat,
           rows' = [rows EXCEPT ![r].ends = ends], UNCHANGED <<clock, lock, jobs, faults>>,
           \/ r \in Owned /\ ends = clock /\ rows[r].ends >= clock
           \/ r \in Keys /\ ~(rows[r].ends \in Nat /\ rows[r].ends < clock)
    PROVE  IInv'
<1>0. rows \in [Rows -> Row]
  BY DEF IInv, TypeOK
<1>1. /\ rows'[r].state = rows[r].state /\ rows'[r].of = rows[r].of
      /\ rows'[r].born = rows[r].born /\ rows'[r].ends = ends /\ rows' \in [Rows -> Row]
      /\ \A z \in Rows \ {r} : rows'[z] = rows[z]
  BY <1>0 DEF Row
<1>2. Updated(r)
  BY <1>1 DEF Updated, Kept
<1> QED
  BY <1>1, <1>2, ServerWrites, Untouched

\* What the rest of the server writes.
LEMMA ServeStep == IInv /\ Serve => IInv'
<1> SUFFICES ASSUME IInv, Serve PROVE IInv'
  OBVIOUS
<1> USE ConstantsAssumption
<1>0. rows \in [Rows -> Row] /\ clock \in Nat /\ clock \in Instant
  BY DEF IInv, TypeOK, Instant
<1>1. ASSUME NEW ends \in Nat \cup {None}, NEW of \in SUBSET Rows, NEW born \in Instant \cup {None}
      PROVE  /\ New(ends, of, born) \in Row /\ New(ends, of, born).state = "kept"
             /\ New(ends, of, born).ends = ends /\ New(ends, of, born).of = of
             /\ New(ends, of, born).born = born
  BY DEF New, Row
<1>2. ASSUME NEW f \in Flows, StartFlow(f)
      PROVE  IInv'
  <2>1. f \in Rows /\ f \notin Users \cup Links \cup Confirmations /\ clock + FlowTTL \in Nat
    BY <1>0, TablesApart DEF Rows
  <2> DEFINE row == New(clock + FlowTTL, {}, None)
  <2>2. /\ row \in Row /\ row.state = "kept"
        /\ row.ends = clock + FlowTTL /\ row.of = {} /\ row.born = None
    BY <2>1 DEF New, Row
  <2>3. Insert(f, row) /\ row.ends # None
    BY <1>2, <2>1, <2>2 DEF StartFlow
  <2> HIDE DEF row
  <2> QED
    BY <2>1, <2>2, <2>3, InsertStep
<1>3. ASSUME NEW u \in Users, ImportUser(u)
      PROVE  IInv'
  <2>1. u \in Rows /\ u \notin Links \cup Confirmations
    BY TablesApart DEF Rows
  <2> DEFINE row == New(clock, {}, clock)
  <2>2. /\ row \in Row /\ row.state = "kept"
        /\ row.ends = clock /\ row.of = {} /\ row.born = clock
    BY <1>0 DEF New, Row
  <2>3. Insert(u, row)
    BY <1>3 DEF ImportUser
  <2> HIDE DEF row
  <2> QED
    BY <2>1, <2>2, <2>3, InsertStep
<1>4. ASSUME NEW r \in Sessions \cup Changes, NEW u \in Users, CreateOwned(r, u)
      PROVE  IInv'
  <2>1. r \in Rows /\ r \notin Users \cup Links \cup Confirmations /\ r \in Owned
    BY TablesApart DEF Rows, Owned
  <2>2. /\ u \in Rows /\ u \notin Sessions /\ rows[u].of = {} /\ Kept(u)
        /\ Insert(r, New(clock + SessionTTL, {u}, None))
    BY <1>4, TablesApart, OwnedApart DEF CreateOwned, Rows, IInv, RowsInv, RowOk
  <2>3. clock + SessionTTL \in Nat /\ {u} \in SUBSET Rows
    BY <1>0, <2>2
  <2> DEFINE row == New(clock + SessionTTL, {u}, None)
  <2>4. /\ row \in Row /\ row.state = "kept"
        /\ row.ends = clock + SessionTTL /\ row.of = {u} /\ row.born = None
    BY <2>3 DEF New, Row
  <2>5. Insert(r, row) /\ row.ends # None
    BY <2>2, <2>3, <2>4
  <2> HIDE DEF row
  <2> QED
    BY <2>1, <2>2, <2>4, <2>5, InsertStep
<1>5. ASSUME NEW k \in Confirmations, NEW s \in Sessions, CreateConfirmation(k, s)
      PROVE  IInv'
  <2>1. k \in Rows /\ k \notin Users \cup Links /\ k \in Owned /\ s \in Rows
    BY TablesApart DEF Rows, Owned
  <2>2. /\ Kept(s) /\ rows[s].ends \notin 0 .. clock
        /\ Insert(k, New(clock + LinkTTL, {s} \cup rows[s].of, None))
    BY <1>5 DEF CreateConfirmation, Live
  <2>3. rows[s].ends \in Nat /\ rows[s].of \subseteq Rows
    BY <1>0, <2>1, <2>2, TablesApart DEF IInv, RowsInv, RowOk, Row
  <2>4. ASSUME NEW p \in rows[s].of
        PROVE  p \in Users /\ Kept(p) /\ rows[p].of \subseteq rows[s].of /\ p \notin Sessions
    <3>1. /\ p \in Flows \cup Users \cup Sessions /\ Kept(p) /\ rows[p].of \subseteq rows[s].of
          /\ p \in Flows => s \in Links \cup Codes
          /\ p \in Sessions => s \in Confirmations
      BY <2>1, <2>4 DEF IInv, RowsInv, RowOk
    <3> QED
      BY <3>1, TablesApart
  <2>5. clock + LinkTTL \in Nat /\ clock + LinkTTL <= rows[s].ends + LinkTTL
    BY <1>0, <2>2, <2>3
  <2> DEFINE of == {s} \cup rows[s].of
  <2>6. of \in SUBSET Rows /\ \A p \in of :
              /\ p \in Users \cup Sessions
              /\ Kept(p)
              /\ rows[p].of \subseteq of
              /\ p \in Sessions => clock + LinkTTL <= rows[p].ends + LinkTTL
    BY <2>1, <2>2, <2>3, <2>4, <2>5
  <2>7. Insert(k, New(clock + LinkTTL, of, None))
    BY <2>2
  <2> HIDE DEF of
  <2>8. clock + LinkTTL # None /\ k \notin Keys
    BY <2>5, TablesApart
  <2> QED
    BY <1>1, <2>1, <2>5, <2>6, <2>7, <2>8, InsertStep
<1>6. ASSUME NEW r \in Owned, EndOwned(r)
      PROVE  IInv'
  <2>1. /\ r \in Rows /\ Kept(r) /\ rows[r].ends \notin 0 .. clock
        /\ rows' = [rows EXCEPT ![r].ends = clock] /\ UNCHANGED <<clock, lock, jobs, faults>>
    BY <1>6, OwnedApart DEF EndOwned, Live
  <2>2. rows[r].ends \in Nat
    BY <1>0, <2>1, OwnedApart DEF IInv, RowsInv, RowOk, Row
  <2>3. rows[r].ends >= clock
    BY <1>0, <2>1, <2>2
  <2> QED
    BY <1>0, <2>1, <2>3, UpdateStep
<1>7. ASSUME NEW k \in Keys, CreateKey(k)
      PROVE  IInv'
  <2>1. k \in Rows /\ k \notin Users \cup Links \cup Confirmations
    BY TablesApart DEF Rows
  <2> DEFINE row == New(None, {}, None)
  <2>2. row \in Row /\ row.state = "kept" /\ row.ends = None /\ row.of = {}
    BY DEF New, Row
  <2>3. Insert(k, row)
    BY <1>7 DEF CreateKey
  <2> HIDE DEF row
  <2> QED
    BY <2>1, <2>2, <2>3, InsertStep
<1>8. ASSUME NEW k \in Keys, NEW at \in {clock, clock + Prepublication}, RetireKey(k, at)
      PROVE  IInv'
  <2>1. /\ k \in Rows /\ Kept(k) /\ rows[k].ends \notin 0 .. at /\ at \in Nat /\ at >= clock
        /\ rows' = [rows EXCEPT ![k].ends = at] /\ UNCHANGED <<clock, lock, jobs, faults>>
    BY <1>0, <1>8 DEF RetireKey, Rows
  <2>2. ~(rows[k].ends \in Nat /\ rows[k].ends < clock)
    BY <1>0, <2>1
  <2> QED
    BY <2>1, <2>2, UpdateStep
<1> QED
  BY <1>2, <1>3, <1>4, <1>5, <1>6, <1>7, <1>8, AskForEmailStep, LogInStep DEF Serve

\* A step of one purge that leaves the rows alone.
LEMMA JobStep ==
    ASSUME IInv, NEW i \in Instances, NEW job \in Job,
           jobs' = [jobs EXCEPT ![i] = job], UNCHANGED <<clock, rows>>,
           faults' \in 0 .. MaxFaults, lock' \in Instances \cup {None},
           \A j \in Instances \ {i} : lock = j => lock' = j,
           job # NoJob /\ ~job.lost => lock' = i,
           SelectInv(i)'
    PROVE  IInv'
<1>0. jobs \in [Instances -> Job]
  BY DEF IInv, TypeOK
<1>1. TypeOK'
  BY <1>0 DEF IInv, TypeOK
<1>2. LockInv'
  BY <1>0 DEF IInv, LockInv
<1>3. RowsInv'
  BY DEF IInv, RowsInv, RowOk, Kept
<1>4. ASSUME NEW j \in Instances \ {i}
      PROVE  SelectInv(j)'
  BY <1>0 DEF IInv, SelectInv, Deletes, Kept, StillDue, LongAgo, Stale
<1> QED
  BY <1>1, <1>2, <1>3, <1>4 DEF IInv

\* What a DELETE takes away: the rows it selected, which are still due, and the
\* rows that go with them.
LEMMA DeleteTakes ==
    ASSUME IInv, NEW i \in Instances, NEW n \in DOMAIN Tables, Delete(i, n),
           NEW r \in Rows, Deleted(r)
    PROVE  \/ r \in Tables[n].rows /\ StillDue(n, r)
           \/ \E p \in rows[r].of : p \in Tables[n].rows /\ StillDue(n, p) /\ Deleted(p)
<1> DEFINE found == {z \in jobs[i].selected : Kept(z)}
<1>0. /\ rows \in [Rows -> Row] /\ jobs[i] \in Job /\ jobs[i].table = n
      /\ jobs[i].selected # None /\ jobs[i].selected \subseteq Rows
  BY DEF IInv, TypeOK, Delete, Job
<1>1. \A z \in Rows : rows'[z] = IF z \in WithCascades(found)
                                 THEN [Unborn EXCEPT !.state = "deleted"] ELSE rows[z]
  BY DEF Delete
<1>2. r \in WithCascades(found) /\ Kept(r)
  BY <1>1 DEF Deleted, Kept
<1>3. \A z \in found : z \in Tables[n].rows /\ StillDue(n, z) /\ z \in Rows
  BY <1>0 DEF IInv, SelectInv
<1>4. CASE r \in found
  BY <1>3, <1>4
<1>5. CASE r \notin found
  <2>1. PICK p \in rows[r].of : p \in found
    BY <1>2, <1>5 DEF WithCascades
  <2>2. rows'[p] = [Unborn EXCEPT !.state = "deleted"]
    BY <1>1, <1>3, <2>1 DEF WithCascades
  <2>3. Deleted(p)
    BY <2>1, <2>2 DEF Deleted, Unborn
  <2> QED
    BY <1>3, <2>1, <2>3
<1> QED
  BY <1>4, <1>5

\* A DELETE keeps the invariant: what it leaves keeps all it goes with.
LEMMA DeleteStep ==
    ASSUME IInv, NEW i \in Instances, NEW n \in DOMAIN Tables, Delete(i, n)
    PROVE  IInv'
<1> DEFINE found == {z \in jobs[i].selected : Kept(z)}
           gone == WithCascades(found)
           next == IF Cardinality(found) < BatchSize \/ n = Len(Tables) THEN n + 1 ELSE n
           job == [jobs[i] EXCEPT !.selected = None, !.table = next]
<1> USE ConstantsAssumption
<1>0. /\ rows \in [Rows -> Row] /\ jobs \in [Instances -> Job] /\ jobs[i].table = n
      /\ jobs[i].selected # None /\ jobs[i].selected \subseteq Rows
  BY DEF IInv, TypeOK, Delete, Job
<1>1. jobs' = [jobs EXCEPT ![i] = job] /\ UNCHANGED <<clock, lock, faults>>
  BY <1>0 DEF Delete
<1>2. /\ job \in Job /\ job.selected = None /\ job.lost = jobs[i].lost
      /\ job # NoJob => jobs[i] # NoJob
  <2>1. next \in 0 .. UnlockStep /\ n # 0
    BY TablesSpelled DEF UnlockStep
  <2>2. jobs[i] \in Job /\ None \in (SUBSET Rows) \cup {None}
    BY <1>0
  <2> HIDE DEF next
  <2>3. job \in Job /\ job.selected = None /\ job.lost = jobs[i].lost
    BY <2>1, <2>2 DEF Job
  <2> QED
    BY <1>0, <2>1, <2>3 DEF NoJob
<1> HIDE DEF job
<1>3. /\ rows' \in [Rows -> Row]
      /\ \A z \in Rows : z \in gone => /\ rows'[z].state = "deleted" /\ rows'[z].ends = None
                                       /\ rows'[z].of = {} /\ rows'[z].born = None
      /\ \A z \in Rows : z \notin gone => rows'[z] = rows[z]
  <2>1. [Unborn EXCEPT !.state = "deleted"] \in Row
    BY DEF Unborn, Row
  <2> QED
    BY <1>0, <2>1 DEF Delete, Unborn
<1>4. \A z \in Rows : z \notin gone => rows[z].of \cap gone = {}
  <2> SUFFICES ASSUME NEW z \in Rows, NEW p \in rows[z].of, p \in gone
               PROVE  z \in gone
    OBVIOUS
  <2>1. Kept(z) /\ rows[p].of \subseteq rows[z].of
    BY DEF IInv, RowsInv, RowOk
  <2>2. p \in found \/ rows[p].of \cap found # {}
    BY DEF WithCascades
  <2>3. rows[z].of \cap found # {}
    BY <2>1, <2>2
  <2> QED
    BY <2>1, <2>3 DEF WithCascades
<1> HIDE DEF gone
<1>5. TypeOK'
  BY <1>0, <1>1, <1>2, <1>3 DEF IInv, TypeOK
<1>6. LockInv'
  BY <1>0, <1>1, <1>2 DEF IInv, LockInv
<1>7. RowsInv'
  <2> SUFFICES ASSUME NEW z \in Rows
               PROVE  RowOk(z)'
    BY DEF RowsInv
  <2>1. CASE z \in gone
    BY <1>3, <2>1 DEF RowOk, Kept
  <2>2. CASE z \notin gone
    <3>1. rows'[z] = rows[z] /\ RowOk(z)
      BY <1>3, <2>2 DEF IInv, RowsInv
    <3>2. \A p \in rows[z].of : p \in Rows /\ rows'[p] = rows[p]
      BY <1>0, <1>3, <1>4, <2>2 DEF Row
    <3> QED
      BY <1>1, <3>1, <3>2 DEF RowOk, Kept
  <2> QED
    BY <2>1, <2>2
<1>8. ASSUME NEW j \in Instances
      PROVE  SelectInv(j)'
  <2>1. CASE j = i
    BY <1>0, <1>1, <1>2, <2>1 DEF SelectInv
  <2>2. CASE j # i
    <3>1. jobs'[j] = jobs[j] /\ SelectInv(j)
      BY <1>0, <1>1, <2>2 DEF IInv
    <3>2. jobs[j].selected # None => jobs[j].selected \subseteq Rows
      BY <1>0 DEF Job
    <3>3. \A z \in Rows : \/ rows'[z] = rows[z]
                          \/ rows'[z].state = "deleted"
      BY <1>3
    <3> QED
      BY <1>1, <3>1, <3>2, <3>3 DEF SelectInv, Deletes, Kept, StillDue, LongAgo, Stale
  <2> QED
    BY <2>1, <2>2
<1> QED
  BY <1>5, <1>6, <1>7, <1>8 DEF IInv

\* Every step of the specification keeps the invariant.
LEMMA NextKeepsIInv == IInv /\ [Next]_vars => IInv'
<1> SUFFICES ASSUME IInv, [Next]_vars PROVE IInv'
  OBVIOUS
<1> USE ConstantsAssumption
<1>0. /\ jobs \in [Instances -> Job] /\ clock \in Nat /\ faults \in 0 .. MaxFaults
      /\ lock \in Instances \cup {None} /\ rows \in [Rows -> Row]
      /\ \A i \in Instances : jobs[i] \in Job
  BY DEF IInv, TypeOK, Instant
<1>1. ASSUME NEW i \in Instances, TryLock(i)
      PROVE  IInv'
  <2> DEFINE job == [jobs[i] EXCEPT !.table = 1]
  <2>1. jobs' = [jobs EXCEPT ![i] = job]
    BY <1>0, <1>1 DEF TryLock
  <2>2. job \in Job /\ job.selected = None
    <3>1. jobs[i] \in Job /\ 1 \in 0 .. UnlockStep
      BY <1>0 DEF UnlockStep
    <3>2. jobs[i].selected = None
      BY <1>1 DEF TryLock, NoJob
    <3> QED
      BY <3>1, <3>2 DEF Job
  <2>3. SelectInv(i)'
    BY <1>0, <2>1, <2>2 DEF SelectInv
  <2> HIDE DEF job
  <2> QED
    BY <1>0, <1>1, <2>1, <2>2, <2>3, JobStep DEF TryLock
<1>2. ASSUME NEW i \in Instances, NEW n \in DOMAIN Tables, Select(i, n)
      PROVE  IInv'
  <2> DEFINE stale == {r \in Rows : Stale(n, r)}
  <2>1. PICK S \in kSubset(Limit(n, stale), stale) :
          jobs' = [jobs EXCEPT ![i].selected = S]
    BY <1>2 DEF Select
  <2> DEFINE job == [jobs[i] EXCEPT !.selected = S]
  <2>2. S \subseteq stale
    BY DEF kSubset
  <2>3. /\ jobs[i] \in Job /\ jobs[i].table = n
        /\ jobs' = [jobs EXCEPT ![i] = job] /\ UNCHANGED <<clock, rows, lock, faults>>
    BY <1>0, <1>2, <2>1 DEF Select
  <2>4. job \in Job /\ job.selected = S /\ job.table = n /\ job.lost = jobs[i].lost
    BY <2>2, <2>3 DEF Job
  <2>5. n # 0
    BY TablesSpelled
  <2>6. job # NoJob /\ ~job.lost => lock = i
    BY <2>3, <2>4, <2>5 DEF IInv, LockInv, NoJob
  <2>7. \A r \in S : /\ r \in Tables[n].rows /\ Kept(r) /\ rows[r].state # "unborn"
                     /\ StillDue(n, r)
    <3> TAKE r \in S
    <3>1. r \in Rows /\ Stale(n, r) /\ r \in Tables[n].rows /\ Kept(r)
      BY <2>2 DEF Stale
    <3>2. r \in Users => rows[r].born = rows[r].ends /\ rows[r].ends # None
      BY <3>1 DEF IInv, RowsInv, RowOk, Stale
    <3>3. r \in Users => Tables[n].retention = Week
      BY <3>1, TablesSpelled, TablesAssumption
    <3> QED
      BY <3>1, <3>2, <3>3 DEF StillDue, LongAgo, Stale, Kept
  <2>8. SelectInv(i)'
    BY <1>0, <2>2, <2>3, <2>4, <2>7 DEF SelectInv, Deletes, StillDue, LongAgo, Stale, Kept
  <2> HIDE DEF job
  <2> QED
    BY <1>0, <2>3, <2>4, <2>6, <2>8, JobStep
<1>3. ASSUME NEW i \in Instances, NEW n \in DOMAIN Tables, SelectNothing(i, n)
      PROVE  IInv'
  <2> DEFINE job == [jobs[i] EXCEPT !.table = n + 1]
  <2>1. /\ jobs[i] \in Job /\ jobs[i].table = n /\ jobs[i].selected = None
        /\ jobs' = [jobs EXCEPT ![i] = job] /\ UNCHANGED <<clock, rows, lock, faults>>
    BY <1>0, <1>3 DEF SelectNothing
  <2>2. n # 0 /\ n + 1 \in 0 .. UnlockStep
    BY TablesSpelled DEF UnlockStep
  <2>3. job \in Job /\ job.selected = None /\ job.lost = jobs[i].lost
    BY <2>1, <2>2 DEF Job
  <2>4. job # NoJob /\ ~job.lost => lock = i
    BY <2>1, <2>2, <2>3 DEF IInv, LockInv, NoJob
  <2>5. SelectInv(i)'
    BY <1>0, <2>1, <2>3 DEF SelectInv
  <2> HIDE DEF job
  <2> QED
    BY <1>0, <2>1, <2>3, <2>4, <2>5, JobStep
<1>4. ASSUME NEW i \in Instances, Fail(i)
      PROVE  IInv'
  <2> DEFINE job == [jobs[i] EXCEPT !.table = UnlockStep, !.selected = None]
  <2>1. /\ jobs[i] \in Job /\ jobs[i].table # 0
        /\ jobs' = [jobs EXCEPT ![i] = job] /\ UNCHANGED <<clock, rows, lock>>
        /\ faults' \in 0 .. MaxFaults
    <3>1. jobs[i] \in Job /\ jobs[i].table # 0
      BY <1>0, <1>4, TablesSpelled DEF Fail, Deletes
    <3>2. jobs' = [jobs EXCEPT ![i] = job]
      BY <1>0, <1>4 DEF Fail
    <3>3. UNCHANGED <<clock, rows, lock>> /\ faults' \in 0 .. MaxFaults
      BY <1>0, <1>4 DEF Fail, Disturb
    <3> QED
      BY <3>1, <3>2, <3>3
  <2>2. job \in Job /\ job.selected = None /\ job.lost = jobs[i].lost
    <3>1. UnlockStep \in 0 .. UnlockStep /\ None \in (SUBSET Rows) \cup {None}
      BY DEF UnlockStep
    <3> QED
      BY <2>1, <3>1 DEF Job
  <2>3. job # NoJob /\ ~job.lost => lock = i
    BY <2>1, <2>2 DEF IInv, LockInv, NoJob
  <2>4. SelectInv(i)'
    BY <1>0, <2>1, <2>2 DEF SelectInv
  <2> HIDE DEF job
  <2> QED
    BY <1>0, <2>1, <2>2, <2>3, <2>4, JobStep
<1>5. ASSUME NEW i \in Instances, LoseConnection(i)
      PROVE  IInv'
  <2> DEFINE job == [jobs[i] EXCEPT !.lost = TRUE]
  <2>1. /\ jobs[i] \in Job
        /\ jobs' = [jobs EXCEPT ![i] = job] /\ UNCHANGED <<clock, rows>>
        /\ faults' \in 0 .. MaxFaults /\ lock' = ReleasedBy(i)
    BY <1>0, <1>5 DEF LoseConnection, Disturb
  <2>2. /\ job \in Job /\ job.selected = jobs[i].selected /\ job.lost
        /\ job.table = jobs[i].table
    BY <2>1 DEF Job
  <2>3. SelectInv(i)'
    BY <1>0, <2>1, <2>2 DEF IInv, SelectInv, Deletes, StillDue, LongAgo, Stale, Kept
  <2> HIDE DEF job
  <2> QED
    BY <1>0, <2>1, <2>2, <2>3, JobStep DEF ReleasedBy
<1>6. ASSUME NEW i \in Instances, Unlock(i) \/ Crash(i)
      PROVE  IInv'
  <2>1. /\ jobs' = [jobs EXCEPT ![i] = NoJob] /\ UNCHANGED <<clock, rows>>
        /\ faults' \in 0 .. MaxFaults /\ lock' = ReleasedBy(i)
    BY <1>0, <1>6 DEF Unlock, Crash, Disturb
  <2>2. NoJob \in Job
    BY DEF NoJob, Job, UnlockStep
  <2>3. SelectInv(i)'
    BY <1>0, <2>1 DEF SelectInv, NoJob
  <2> QED
    BY <1>0, <2>1, <2>2, <2>3, JobStep DEF ReleasedBy
<1>7. ASSUME NEW i \in Instances, Proceed(i)
      PROVE  IInv'
  BY <1>2, <1>3, <1>6, <1>7, DeleteStep DEF Proceed
<1>8. CASE Tick
  <2>1. TypeOK'
    BY <1>0, <1>8 DEF IInv, TypeOK, Tick, Instant
  <2>2. LockInv'
    BY <1>8 DEF IInv, LockInv, Tick
  <2>3. RowsInv'
    <3>1. \A r \in Rows : rows[r].ends # None => rows[r].ends \in Nat
      BY <1>0 DEF Row
    <3>2. \A r \in Confirmations : r \in Rows /\ (Kept(r) => rows[r].ends \in Nat)
      BY <3>1, TablesApart DEF IInv, RowsInv, RowOk, Rows, Owned
    <3> QED
      BY <1>0, <1>8, <3>2 DEF IInv, RowsInv, RowOk, Kept, Tick
  <2>4. ASSUME NEW i \in Instances
        PROVE  SelectInv(i)'
    <3>1. Deletes(i) => Tables[jobs[i].table].retention \in Nat
      BY TablesSpelled DEF Deletes
    <3>2. jobs[i].selected # None => jobs[i].selected \subseteq Rows
      BY <1>0 DEF Job
    <3>3. \A r \in Rows : /\ rows[r].ends # None => rows[r].ends \in Nat
                          /\ rows[r].born # None => rows[r].born \in Nat
      BY <1>0 DEF Row, Instant
    <3> QED
      BY <1>0, <1>8, <3>1, <3>2, <3>3
      DEF IInv, SelectInv, Deletes, Kept, StillDue, LongAgo, Stale, Tick
  <2> QED
    BY <2>1, <2>2, <2>3, <2>4 DEF IInv
<1>9. CASE UNCHANGED vars
  BY <1>9 DEF vars, IInv, TypeOK, LockInv, RowsInv, RowOk, SelectInv, Deletes, Kept,
              StillDue, LongAgo, Stale
<1> QED
  BY <1>1, <1>4, <1>5, <1>6, <1>7, <1>8, <1>9, ServeStep DEF Next

-----------------------------------------------------------------------------
(* The theorems *)

\* The invariant holds in every reachable state.
THEOREM IInvHolds == Spec => []IInv
BY InitEstablishesIInv, NextKeepsIInv, PTL DEF Spec

\* The rows and the purges always have their types.
THEOREM TypeCorrect == Spec => []TypeOK
<1>1. IInv => TypeOK
  BY DEF IInv
<1> QED
  BY <1>1, IInvHolds, PTL

\* Any number of instances take turns, unless the connection with the lock is lost.
THEOREM PurgersTakeTurns == Spec => []OnePurger
<1>1. IInv => OnePurger
  BY DEF IInv, LockInv, OnePurger
<1> QED
  BY <1>1, IInvHolds, PTL

\* A step that is not a DELETE deletes nothing.
LEMMA OnlyDeleteDeletes ==
    ASSUME IInv, [Next]_vars, NEW r \in Rows, Deleted(r)
    PROVE  \E i \in Instances : \E n \in DOMAIN Tables : Delete(i, n)
<1>0. rows \in [Rows -> Row] /\ rows[r].state = "kept" /\ rows'[r].state = "deleted"
  BY DEF IInv, TypeOK, Deleted, Kept
<1>1. ASSUME UNCHANGED rows
      PROVE  FALSE
  BY <1>0, <1>1
<1>2. ASSUME NEW z \in Rows, NEW ends, NEW of, NEW born, Insert(z, New(ends, of, born))
      PROVE  FALSE
  BY <1>0, <1>2 DEF Insert, New
<1>3. ASSUME NEW f \in Flows, NEW l \in Links, NEW owner, AskForEmail(f, l, owner)
      PROVE  FALSE
  BY <1>0, <1>3 DEF AskForEmail, New, Row
<1>4. ASSUME NEW l \in Links, NEW f \in Flows, NEW u \in Users, NEW c \in Codes,
             LogIn(l, f, u, c)
      PROVE  FALSE
  BY <1>0, <1>4 DEF LogIn, New, Row
<1>5. ASSUME NEW z \in Rows, EndOwned(z) \/ \E at : RetireKey(z, at)
      PROVE  FALSE
  BY <1>0, <1>5 DEF EndOwned, RetireKey, Row
<1>6. ~Serve
  BY <1>2, <1>3, <1>4, <1>5
  DEF Serve, StartFlow, ImportUser, CreateOwned, CreateConfirmation, CreateKey, Rows, Owned
<1> QED
  BY <1>1, <1>6 DEF Next, Proceed, vars, TryLock, Select, SelectNothing, Fail,
                    LoseConnection, Unlock, Crash, Tick

\* Nothing useful is deleted, whatever the server writes between the sub-select
\* of a DELETE and the deletion, but with an account that was not verified.
THEOREM PurgeSparesUsefulRows == Spec => UselessRowsOnly
<1> DEFINE Sound == \A r \in Rows : Deleted(r) =>
             \/ \E n \in DOMAIN Tables : Stale(n, r)
             \/ ~Live(r) /\ \E p \in rows[r].of, n \in DOMAIN Tables : Deleted(p) /\ Stale(n, p)
             \/ GoesWithAccount(r)
<1> USE ConstantsAssumption
<1>1. ASSUME IInv, [Next]_vars
      PROVE  Sound
  <2> TAKE r \in Rows
  <2> HAVE Deleted(r)
  <2>0. clock \in Nat /\ rows \in [Rows -> Row] /\ Kept(r) /\ RowOk(r)
    BY <1>1 DEF IInv, RowsInv, TypeOK, Instant, Deleted
  <2>1. PICK i \in Instances, n \in DOMAIN Tables : Delete(i, n)
    BY <1>1, OnlyDeleteDeletes
  <2>2. CASE r \in Tables[n].rows /\ StillDue(n, r)
    BY <2>2 DEF StillDue, LongAgo, GoesWithAccount
  <2>3. ASSUME NEW p \in rows[r].of, p \in Tables[n].rows, StillDue(n, p), Deleted(p)
        PROVE  \/ ~Live(r) /\ Stale(n, p)
               \/ GoesWithAccount(r)
    <3>1. CASE p \in Users
      BY <2>3, <3>1 DEF StillDue, LongAgo, GoesWithAccount
    <3>2. CASE p \notin Users
      <4>1. Stale(n, p) /\ p \in Rows
        BY <2>0, <2>3, <3>2 DEF StillDue, Row
      <4>2. rows[p].ends \in Nat /\ rows[p].ends < clock - Tables[n].retention
        BY <2>0, <4>1 DEF Stale, Row
      <4>3. rows[r].ends \in Nat
        BY <2>0, <2>3, OwnedApart DEF RowOk, Row
      <4>4. CASE p \in Flows
        <5>1. Tables[n].retention = Day
          BY <2>3, <4>4, TablesSpelled, TablesAssumption
        <5>2. rows[r].ends <= rows[p].ends + CodeTTL
          BY <2>0, <2>3, <4>4 DEF RowOk
        <5>3. rows[r].ends < clock
          BY <2>0, <4>2, <4>3, <5>1, <5>2
        <5> QED
          BY <2>0, <4>1, <4>3, <5>3 DEF Live
      <4>5. CASE p \in Sessions
        <5>1. Tables[n].retention = Month
          BY <2>3, <4>5, TablesSpelled, TablesAssumption
        <5>2. rows[r].ends <= rows[p].ends + LinkTTL
          BY <2>0, <2>3, <4>5 DEF RowOk
        <5>3. rows[r].ends < clock
          BY <2>0, <4>2, <4>3, <5>1, <5>2
        <5> QED
          BY <2>0, <4>1, <4>3, <5>3 DEF Live
      <4> QED
        BY <2>0, <2>3, <3>2, <4>4, <4>5 DEF RowOk
    <3> QED
      BY <3>1, <3>2
  <2> QED
    BY <1>1, <2>1, <2>2, <2>3, DeleteTakes
<1> QED
  BY <1>1, IInvHolds, PTL DEF Spec, UselessRowsOnly

\* An email that goes with its flow is out of the window of the guess budget; one
\* that goes with an account that was not verified may not be.
THEOREM PurgeGivesNoGuessesBack == Spec => PurgeKeepsBudget
<1> DEFINE Sound == \A l \in Links : Deleted(l) =>
                       rows[l].born <= clock - Day \/ GoesWithAccount(l)
<1> USE ConstantsAssumption
<1>1. ASSUME IInv, [Next]_vars
      PROVE  Sound
  <2> TAKE l \in Links
  <2> HAVE Deleted(l)
  <2>0. /\ l \in Rows /\ clock \in Nat /\ rows \in [Rows -> Row] /\ Kept(l) /\ RowOk(l)
    BY <1>1 DEF IInv, RowsInv, TypeOK, Rows, Owned, Instant, Deleted
  <2>1. PICK i \in Instances, n \in DOMAIN Tables : Delete(i, n)
    BY <1>1, <2>0, OnlyDeleteDeletes
  <2>2. l \notin Tables[n].rows
    BY TablesSpelled, TablesApart
  <2>3. PICK p \in rows[l].of : p \in Tables[n].rows /\ StillDue(n, p) /\ Deleted(p)
    BY <1>1, <2>0, <2>1, <2>2, DeleteTakes
  <2>4. CASE p \in Users
    BY <2>3, <2>4 DEF StillDue, LongAgo, GoesWithAccount
  <2>5. CASE p \in Flows
    <3>1. Tables[n].retention = Day /\ p \notin Users
      BY <2>3, <2>5, TablesSpelled, TablesApart, TablesAssumption
    <3>2. rows[p].ends \in Nat /\ rows[p].ends < clock - Day
      BY <2>0, <2>3, <2>5, <3>1 DEF StillDue, Stale, Row, Rows
    <3>3. rows[l].born \in Nat /\ rows[l].born <= rows[p].ends
      BY <2>0, <2>3, <2>5 DEF RowOk, Row, Instant
    <3> QED
      BY <2>0, <3>2, <3>3
  <2>6. p \notin Sessions
    BY <2>0, <2>3, TablesApart DEF RowOk
  <2> QED
    BY <2>0, <2>3, <2>4, <2>5, <2>6 DEF RowOk
<1> QED
  BY <1>1, IInvHolds, PTL DEF Spec, PurgeKeepsBudget
=============================================================================
