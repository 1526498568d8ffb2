------------------------ MODULE QuicAckRangesProofs ------------------------
(* Proofs about QuicAckRanges, for every table size, frame size and packet
   number bound. *)
EXTENDS QuicAckRanges, DataLemmas, FiniteSetTheorems

(* What qcn-rg-note! keeps true of a table. *)
TableOK(t) ==
  /\ t.n \in 0 .. Cap
  /\ t.rg \in [Index -> [s : Pn, e : Pn]]
  /\ \A i \in 1 .. t.n : t.rg[i].s <= t.rg[i].e
  /\ \A i \in 1 .. (t.n - 1) : t.rg[i].s > t.rg[i + 1].e + 1

(* An empty table means that no packet was noted yet. *)
NothingAtFirst == n = 0 => received = {} /\ largest = -1

IInv == /\ TypeOK
        /\ TableOK(Table)
        /\ CoveredIsReceived
        /\ AckedIsReceived
        /\ TopIsLargest
        /\ NothingAtFirst
        /\ NothingForgottenBelowCap

(* pn, noted in the full table t, touches none of its ranges, and what u gives
   up for it lies below everything u keeps. *)
Overfull(t, u, pn) ==
  /\ t.n = Cap
  /\ \A k \in 1 .. Cap : pn < t.rg[k].s - 1 \/ pn > t.rg[k].e + 1
  /\ \A p \in CoveredBy(t) \ CoveredBy(u) : \A q \in CoveredBy(u) : p < q

(* The result of a table operation that noted pn. *)
Noted(t, u, pn) ==
  /\ TableOK(u)
  /\ CoveredBy(u) \subseteq CoveredBy(t) \cup {pn}
  /\ CoveredBy(t) \cup {pn} \subseteq CoveredBy(u) \/ Overfull(t, u, pn)
  /\ u.n > 0
  /\ u.rg[1].e = IF t.n > 0 /\ pn <= t.rg[1].e THEN t.rg[1].e ELSE pn

USE DEF Pn, Index, Rng, Covers
USE CapAssumption, MaxPnAssumption

-----------------------------------------------------------------------------
(* Of two ranges of a table the earlier one lies above, with a gap. *)
LEMMA Descending ==
  ASSUME NEW t, TableOK(t), NEW i \in 1 .. t.n, NEW j \in 1 .. t.n, i < j
  PROVE  t.rg[i].s > t.rg[j].e + 1
<1>t. /\ t.n \in Nat
      /\ \A k \in 1 .. t.n : t.rg[k].s \in Int /\ t.rg[k].e \in Int
      /\ \A k \in 1 .. t.n : t.rg[k].s <= t.rg[k].e
      /\ \A k \in 1 .. (t.n - 1) : t.rg[k].s > t.rg[k + 1].e + 1
  <2>1. t.n \in Nat /\ t.n <= Cap
    BY DEF TableOK
  <2>2. ASSUME NEW k \in 1 .. t.n PROVE t.rg[k] \in [s : Pn, e : Pn]
    <3>1. k \in Index
      BY <2>1
    <3>2. t.rg \in [Index -> [s : Pn, e : Pn]]
      BY DEF TableOK
    <3> QED
      BY <3>1, <3>2, Zenon
  <2>3. \A k \in 1 .. t.n : t.rg[k].s \in Int /\ t.rg[k].e \in Int
    BY <2>2 DEF Pn
  <2> QED
    BY <2>1, <2>3 DEF TableOK
<1> DEFINE Far == {d \in Nat : i + d + 1 <= t.n => t.rg[i].s > t.rg[i + d + 1].e + 1}
<1>1. ASSUME NEW d \in Nat, \A m \in 0 .. d - 1 : m \in Far PROVE d \in Far
  <2> SUFFICES ASSUME i + d + 1 <= t.n PROVE t.rg[i].s > t.rg[i + d + 1].e + 1
    OBVIOUS
  <2>1. CASE d = 0
    BY <1>t, <2>1
  <2>2. CASE d # 0
    <3>1. t.rg[i].s > t.rg[i + d].e + 1
      <4>1. d - 1 \in 0 .. d - 1 /\ i + (d - 1) + 1 = i + d /\ i + d <= t.n
        BY <1>t, <2>2
      <4> QED
        BY <1>1, <4>1
    <3>2. i + d \in 1 .. (t.n - 1) /\ (i + d) + 1 = i + d + 1 /\ i + d + 1 \in 1 .. t.n
      BY <1>t, <2>2
    <3> QED
      BY <1>t, <3>1, <3>2
  <2> QED
    BY <2>1, <2>2
<1>2. Nat \subseteq Far
  <2> HIDE DEF Far
  <2> QED
    BY <1>1, Induction
<1>3. j - i - 1 \in Nat /\ i + (j - i - 1) + 1 = j
  BY <1>t
<1> QED
  BY <1>2, <1>3

(* One range more, one range less and one range replaced, entry by entry. *)
LEMMA InsertNoted ==
  ASSUME NEW t, TableOK(t), t = [n |-> t.n, rg |-> t.rg],
         NEW pn \in Pn, NEW i \in 1 .. Cap, i <= t.n + 1,
         i <= t.n => pn > t.rg[i].e + 1,
         \A j \in 1 .. (i - 1) : pn < t.rg[j].s - 1
  PROVE  Noted(t, Insert(t, i, Rng(pn, pn)), pn)
<1> DEFINE u == Insert(t, i, Rng(pn, pn))
           last == IF t.n >= Cap THEN Cap ELSE t.n + 1
<1>0. t.n \in 0 .. Cap /\ last \in 1 .. Cap /\ i <= last /\ last <= t.n + 1
  BY DEF TableOK
<1>t. /\ \A k \in 1 .. Cap : t.rg[k].s \in Int /\ t.rg[k].e \in Int
      /\ \A k \in 1 .. t.n : t.rg[k].s <= t.rg[k].e
      /\ \A k \in 1 .. (t.n - 1) : t.rg[k].s > t.rg[k + 1].e + 1
  BY DEF TableOK
<1>1. u.n = last
  BY DEF Insert
<1>2. u.rg \in [Index -> [s : Pn, e : Pn]]
  <2>1. Rng(pn, pn) \in [s : Pn, e : Pn]
    OBVIOUS
  <2>2. \A k \in Index : t.rg[k] \in [s : Pn, e : Pn]
    BY DEF TableOK
  <2>3. \A k \in (i + 1) .. last : k - 1 \in Index
    BY <1>0
  <2> HIDE DEF Range, Pn
  <2> QED
    BY <2>1, <2>2, <2>3 DEF Insert
<1>3. /\ u.rg[i] = [s |-> pn, e |-> pn]
      /\ \A k \in 1 .. (i - 1) : u.rg[k] = t.rg[k]
      /\ \A k \in (i + 1) .. last : u.rg[k] = t.rg[k - 1]
  BY <1>0 DEF Insert
<1> HIDE DEF u, last
<1>4. \A k \in 1 .. last : u.rg[k].s <= u.rg[k].e
  <2> SUFFICES ASSUME NEW k \in 1 .. last PROVE u.rg[k].s <= u.rg[k].e
    OBVIOUS
  <2>1. CASE k < i
    BY <1>0, <1>t, <1>3, <2>1
  <2>2. CASE k = i
    BY <1>3, <2>2
  <2>3. CASE k > i
    BY <1>0, <1>t, <1>3, <2>3
  <2> QED
    BY <1>0, <2>1, <2>2, <2>3
<1>5. \A k \in 1 .. (last - 1) : u.rg[k].s > u.rg[k + 1].e + 1
  <2> SUFFICES ASSUME NEW k \in 1 .. (last - 1) PROVE u.rg[k].s > u.rg[k + 1].e + 1
    OBVIOUS
  <2>1. CASE k + 1 < i
    BY <1>0, <1>t, <1>3, <2>1
  <2>2. CASE k + 1 = i
    BY <1>0, <1>t, <1>3, <2>2
  <2>3. CASE k = i
    BY <1>0, <1>t, <1>3, <2>3
  <2>4. CASE k > i
    BY <1>0, <1>t, <1>3, <2>4
  <2> QED
    BY <1>0, <2>1, <2>2, <2>3, <2>4
<1>6. CoveredBy(u) \subseteq CoveredBy(t) \cup {pn}
  <2> SUFFICES ASSUME NEW k \in 1 .. last, NEW p \in Covers(u.rg[k]), p # pn
               PROVE  \E j \in 1 .. t.n : p \in Covers(t.rg[j])
    BY <1>1 DEF CoveredBy
  <2>1. CASE k < i
    BY <1>0, <1>t, <1>3, <2>1
  <2>2. CASE k = i
    BY <1>3, <2>2
  <2>3. CASE k > i
    BY <1>0, <1>t, <1>3, <2>3
  <2> QED
    BY <1>0, <2>1, <2>2, <2>3
<1>7. u.rg[1].e = IF t.n > 0 /\ pn <= t.rg[1].e THEN t.rg[1].e ELSE pn
  <2>1. CASE i = 1
    BY <1>0, <1>t, <1>3, <2>1
  <2>2. CASE i > 1
    <3>1. t.rg[1].s <= t.rg[1].e /\ u.rg[1] = t.rg[1] /\ t.n > 0
      BY <1>0, <1>t, <1>3, <2>2
    <3>2. pn < t.rg[1].s - 1
      BY <1>0, <2>2
    <3> QED
      BY <3>1, <3>2, <1>0, <1>t
  <2> QED
    BY <2>1, <2>2
<1>8. TableOK(u)
  <2>1. u.n \in 0 .. Cap
    BY <1>0, <1>1
  <2> QED
    BY <1>1, <1>2, <1>4, <1>5, <2>1 DEF TableOK
<1>9. ASSUME t.n < Cap PROVE Noted(t, u, pn)
  <2>1. last = t.n + 1
    BY <1>0, <1>9 DEF last
  <2>2. ASSUME NEW k \in 1 .. t.n PROVE \E m \in 1 .. last : u.rg[m] = t.rg[k]
    <3>1. CASE k < i
      <4>1. k \in 1 .. (i - 1) /\ k \in 1 .. last
        BY <1>0, <3>1
      <4> QED
        BY <1>3, <4>1
    <3>2. CASE k >= i
      <4>1. k + 1 \in (i + 1) .. last /\ (k + 1) - 1 = k
        BY <1>0, <2>1, <3>2
      <4>2. u.rg[k + 1] = t.rg[k] /\ k + 1 \in 1 .. last
        BY <1>0, <1>3, <4>1
      <4> QED
        BY <4>2
    <3> QED
      BY <1>0, <3>1, <3>2
  <2>3. pn \in CoveredBy(u)
    BY <1>0, <1>1, <1>3 DEF CoveredBy
  <2>4. CoveredBy(t) \subseteq CoveredBy(u)
    BY <1>1, <2>2 DEF CoveredBy
  <2>5. CoveredBy(t) \cup {pn} \subseteq CoveredBy(u) /\ u.n > 0
    BY <1>0, <1>1, <2>3, <2>4
  <2> QED
    BY <1>6, <1>7, <1>8, <2>5 DEF Noted
<1>10. ASSUME t.n >= Cap PROVE Noted(t, u, pn)
  <2>1. last = Cap /\ t.n = Cap /\ i <= Cap
    BY <1>0, <1>10 DEF last
  <2>2. ASSUME NEW k \in 1 .. Cap PROVE pn < t.rg[k].s - 1 \/ pn > t.rg[k].e + 1
    <3>1. CASE k <= i
      BY <2>1, <3>1
    <3>2. CASE k > i
      <4>1. t.rg[i].s > t.rg[k].e + 1 /\ t.rg[i].s <= t.rg[i].e
        BY <1>t, <2>1, <3>2, Descending
      <4>2. pn > t.rg[i].e + 1
        BY <2>1
      <4> QED
        BY <1>t, <4>1, <4>2
    <3> QED
      BY <3>1, <3>2
  <2>3. ASSUME NEW p \in CoveredBy(t), p \notin CoveredBy(u) PROVE p \in Covers(t.rg[Cap])
    <3>1. PICK k \in 1 .. Cap : p \in Covers(t.rg[k])
      BY <2>1, <2>3 DEF CoveredBy
    <3>2. k < i => u.rg[k] = t.rg[k]
      BY <1>3
    <3>3. k >= i /\ k < Cap => k + 1 \in 1 .. last /\ u.rg[k + 1] = t.rg[k]
      <4> SUFFICES ASSUME k >= i, k < Cap PROVE k + 1 \in 1 .. last /\ u.rg[k + 1] = t.rg[k]
        OBVIOUS
      <4>1. k + 1 \in (i + 1) .. last /\ (k + 1) - 1 = k
        BY <2>1
      <4> QED
        BY <1>3, <4>1
    <3>4. \A m \in 1 .. last : p \notin Covers(u.rg[m])
      BY <1>1, <2>3 DEF CoveredBy
    <3> QED
      BY <2>1, <3>1, <3>2, <3>3, <3>4
  <2>4. ASSUME NEW q \in CoveredBy(u) PROVE q > t.rg[Cap].e
    <3>1. PICK k \in 1 .. Cap : q \in Covers(u.rg[k])
      BY <1>1, <2>1 DEF CoveredBy
    <3>2. CASE k = i
      <4>1. q = pn /\ pn > t.rg[i].e + 1
        BY <1>3, <2>1, <3>1, <3>2
      <4>2. i < Cap => t.rg[i].s > t.rg[Cap].e + 1 /\ t.rg[i].s <= t.rg[i].e
        BY <1>t, <2>1, Descending
      <4> QED
        BY <1>t, <2>1, <4>1, <4>2
    <3>3. CASE k # i
      <4>1. \E m \in 1 .. Cap - 1 : u.rg[k] = t.rg[m]
        BY <1>3, <2>1, <3>3
      <4>2. PICK m \in 1 .. Cap - 1 : u.rg[k] = t.rg[m]
        BY <4>1
      <4>3. t.rg[m].s > t.rg[Cap].e + 1 /\ m \in 1 .. Cap /\ Cap \in 1 .. Cap
        BY <2>1, <4>2, Descending
      <4>4. t.rg[m].s \in Int /\ t.rg[m].e \in Int /\ t.rg[Cap].e \in Int
        BY <1>t, <4>3
      <4> QED
        BY <3>1, <4>2, <4>3, <4>4
    <3> QED
      BY <3>2, <3>3
  <2>5. \A p \in CoveredBy(t) \ CoveredBy(u) : \A q \in CoveredBy(u) : p < q
    <3> SUFFICES ASSUME NEW p \in CoveredBy(t) \ CoveredBy(u), NEW q \in CoveredBy(u) PROVE p < q
      OBVIOUS
    <3>1. p \in Covers(t.rg[Cap]) /\ q > t.rg[Cap].e
      BY <2>3, <2>4
    <3>2. q \in Int
      BY <1>6, <1>t, <2>1 DEF CoveredBy
    <3> QED
      BY <1>t, <3>1, <3>2
  <2>6. Overfull(t, u, pn)
    BY <2>1, <2>2, <2>5 DEF Overfull
  <2>7. u.n > 0
    BY <1>0, <1>1
  <2> QED
    BY <1>6, <1>7, <1>8, <2>6, <2>7 DEF Noted
<1> QED
  BY <1>0, <1>9, <1>10 DEF u

LEMMA PutNoted ==
  ASSUME NEW t, TableOK(t), t = [n |-> t.n, rg |-> t.rg],
         NEW pn \in Pn, NEW i \in 1 .. t.n, NEW r \in [s : Pn, e : Pn],
         r.s <= r.e,
         Covers(r) = Covers(t.rg[i]) \cup {pn},
         i > 1 => t.rg[i - 1].s > r.e + 1 /\ pn < t.rg[1].s,
         i < t.n => r.s > t.rg[i + 1].e + 1,
         i = 1 => r.e = IF pn <= t.rg[1].e THEN t.rg[1].e ELSE pn
  PROVE  Noted(t, Put(t, i, r), pn)
<1> DEFINE u == Put(t, i, r)
<1>0. t.n \in 1 .. Cap /\ i \in Index
  BY DEF TableOK
<1>t. /\ \A k \in 1 .. Cap : t.rg[k].s \in Int /\ t.rg[k].e \in Int
      /\ \A k \in 1 .. t.n : t.rg[k].s <= t.rg[k].e
      /\ \A k \in 1 .. (t.n - 1) : t.rg[k].s > t.rg[k + 1].e + 1
      /\ r.s \in Int /\ r.e \in Int
  BY DEF TableOK
<1>1. u.n = t.n /\ u.rg = [t.rg EXCEPT ![i] = r]
  BY DEF Put
<1>2. u.rg \in [Index -> [s : Pn, e : Pn]]
  BY <1>1 DEF TableOK
<1>3. /\ u.rg[i] = r
      /\ \A k \in Index \ {i} : u.rg[k] = t.rg[k]
  BY <1>0, <1>1 DEF TableOK
<1> HIDE DEF u
<1>4. \A k \in 1 .. t.n : u.rg[k].s <= u.rg[k].e
  BY <1>0, <1>t, <1>3
<1>5. \A k \in 1 .. (t.n - 1) : u.rg[k].s > u.rg[k + 1].e + 1
  <2> SUFFICES ASSUME NEW k \in 1 .. (t.n - 1) PROVE u.rg[k].s > u.rg[k + 1].e + 1
    OBVIOUS
  <2>1. CASE k = i
    BY <1>0, <1>t, <1>3, <2>1
  <2>2. CASE k + 1 = i
    BY <1>0, <1>t, <1>3, <2>2
  <2>3. CASE k # i /\ k + 1 # i
    BY <1>0, <1>t, <1>3, <2>3
  <2> QED
    BY <2>1, <2>2, <2>3
<1>6. CoveredBy(u) \subseteq CoveredBy(t) \cup {pn}
  <2> SUFFICES ASSUME NEW k \in 1 .. t.n, NEW p \in Covers(u.rg[k]), p # pn
               PROVE  \E j \in 1 .. t.n : p \in Covers(t.rg[j])
    BY <1>1 DEF CoveredBy
  <2> QED
    BY <1>0, <1>t, <1>3
<1>7. u.rg[1].e = IF pn <= t.rg[1].e THEN t.rg[1].e ELSE pn
  BY <1>0, <1>t, <1>3
<1>8. TableOK(u)
  <2>1. u.n \in 0 .. Cap
    BY <1>0, <1>1
  <2> QED
    BY <1>1, <1>2, <1>4, <1>5, <2>1 DEF TableOK
<1>9. CoveredBy(t) \cup {pn} \subseteq CoveredBy(u)
  <2>1. pn \in Covers(u.rg[i]) /\ Covers(t.rg[i]) \subseteq Covers(u.rg[i])
    BY <1>3
  <2>2. \A k \in 1 .. t.n : Covers(t.rg[k]) \subseteq Covers(u.rg[k])
    BY <1>0, <1>3, <2>1
  <2> QED
    BY <1>1, <2>1, <2>2 DEF CoveredBy
<1>10. Noted(t, u, pn)
  BY <1>0, <1>1, <1>6, <1>7, <1>8, <1>9 DEF Noted
<1> QED
  BY <1>10 DEF u

(* Range j + 1 ends two below the start of range j: pn joins them. *)
LEMMA JoinNoted ==
  ASSUME NEW t, TableOK(t), t = [n |-> t.n, rg |-> t.rg],
         NEW pn \in Pn, NEW j \in 1 .. (t.n - 1),
         pn = t.rg[j].s - 1, pn = t.rg[j + 1].e + 1,
         j > 1 => pn < t.rg[1].s - 1
  PROVE  Noted(t, Remove(Put(t, j, Rng(t.rg[j + 1].s, t.rg[j].e)), j + 1), pn)
<1> DEFINE r == Rng(t.rg[j + 1].s, t.rg[j].e)
           u == Remove(Put(t, j, r), j + 1)
<1>0. t.n \in 2 .. Cap /\ j \in Index /\ (j + 1) \in Index
  BY DEF TableOK
<1>t. /\ \A k \in 1 .. Cap : t.rg[k].s \in Int /\ t.rg[k].e \in Int
      /\ \A k \in 1 .. t.n : t.rg[k].s <= t.rg[k].e
      /\ \A k \in 1 .. (t.n - 1) : t.rg[k].s > t.rg[k + 1].e + 1
  BY DEF TableOK
<1>r. r \in [s : Pn, e : Pn] /\ r.s = t.rg[j + 1].s /\ r.e = t.rg[j].e
  BY <1>0 DEF TableOK
<1> HIDE DEF r
<1>1. /\ u.n = t.n - 1
      /\ u.rg = [k \in Index |-> IF k \in (j + 1) .. (t.n - 1)
                                 THEN [t.rg EXCEPT ![j] = r][k + 1]
                                 ELSE [t.rg EXCEPT ![j] = r][k]]
  BY DEF Put, Remove
<1> HIDE DEF u
<1>3. /\ u.rg[j] = r
      /\ \A k \in 1 .. (j - 1) : u.rg[k] = t.rg[k]
      /\ \A k \in (j + 1) .. (t.n - 1) : u.rg[k] = t.rg[k + 1]
  <2> DEFINE v == [t.rg EXCEPT ![j] = r]
  <2>1. v[j] = r /\ \A k \in Index \ {j} : v[k] = t.rg[k]
    BY <1>0 DEF TableOK
  <2>2. \A k \in Index : u.rg[k] = IF k \in (j + 1) .. (t.n - 1) THEN v[k + 1] ELSE v[k]
    BY <1>1
  <2> HIDE DEF v
  <2>3. u.rg[j] = v[j]
    BY <1>0, <2>2
  <2>4. \A k \in 1 .. (j - 1) : u.rg[k] = v[k]
    BY <1>0, <2>2
  <2>5. \A k \in (j + 1) .. (t.n - 1) : u.rg[k] = v[k + 1] /\ k + 1 \in Index \ {j}
    BY <1>0, <2>2
  <2> QED
    BY <1>0, <2>1, <2>3, <2>4, <2>5
<1>2. u.rg \in [Index -> [s : Pn, e : Pn]]
  <2> DEFINE v == [t.rg EXCEPT ![j] = r]
  <2>1. \A k \in Index : v[k] \in [s : Pn, e : Pn]
    BY <1>r DEF TableOK
  <2>2. \A k \in (j + 1) .. (t.n - 1) : k + 1 \in Index
    BY <1>0
  <2> HIDE DEF v, Pn
  <2>3. u.rg = [k \in Index |-> IF k \in (j + 1) .. (t.n - 1) THEN v[k + 1] ELSE v[k]]
    BY <1>1 DEF v
  <2> QED
    BY <2>1, <2>2, <2>3
<1>4. \A k \in 1 .. (t.n - 1) : u.rg[k].s <= u.rg[k].e
  <2> SUFFICES ASSUME NEW k \in 1 .. (t.n - 1) PROVE u.rg[k].s <= u.rg[k].e
    OBVIOUS
  <2>1. CASE k < j
    BY <1>0, <1>t, <1>3, <2>1
  <2>2. CASE k = j
    BY <1>0, <1>t, <1>r, <1>3, <2>2
  <2>3. CASE k > j
    BY <1>0, <1>t, <1>3, <2>3
  <2> QED
    BY <2>1, <2>2, <2>3
<1>5. \A k \in 1 .. (t.n - 2) : u.rg[k].s > u.rg[k + 1].e + 1
  <2> SUFFICES ASSUME NEW k \in 1 .. (t.n - 2) PROVE u.rg[k].s > u.rg[k + 1].e + 1
    OBVIOUS
  <2>1. CASE k + 1 < j
    BY <1>0, <1>t, <1>3, <2>1
  <2>2. CASE k + 1 = j
    BY <1>0, <1>t, <1>r, <1>3, <2>2
  <2>3. CASE k = j
    BY <1>0, <1>t, <1>r, <1>3, <2>3
  <2>4. CASE k > j
    BY <1>0, <1>t, <1>3, <2>4
  <2> QED
    BY <2>1, <2>2, <2>3, <2>4
<1>6. CoveredBy(u) \subseteq CoveredBy(t) \cup {pn}
  <2> SUFFICES ASSUME NEW k \in 1 .. (t.n - 1), NEW p \in Covers(u.rg[k]), p # pn
               PROVE  \E i \in 1 .. t.n : p \in Covers(t.rg[i])
    BY <1>1 DEF CoveredBy
  <2>1. CASE k < j
    BY <1>0, <1>3, <2>1
  <2>2. CASE k = j
    <3>1. p \in Covers(t.rg[j]) \/ p \in Covers(t.rg[j + 1])
      BY <1>0, <1>t, <1>r, <1>3, <2>2
    <3> QED
      BY <1>0, <3>1
  <2>3. CASE k > j
    BY <1>0, <1>3, <2>3
  <2> QED
    BY <2>1, <2>2, <2>3
<1>7. u.rg[1].e = IF pn <= t.rg[1].e THEN t.rg[1].e ELSE pn
  <2>1. pn <= t.rg[1].e
    BY <1>0, <1>t
  <2>2. u.rg[1].e = t.rg[1].e
    BY <1>0, <1>r, <1>3
  <2> QED
    BY <2>1, <2>2
<1>8. TableOK(u)
  <2>1. u.n \in 0 .. Cap /\ u.n - 1 = t.n - 2
    BY <1>0, <1>1
  <2> QED
    BY <1>1, <1>2, <1>4, <1>5, <2>1 DEF TableOK
<1>9. CoveredBy(t) \cup {pn} \subseteq CoveredBy(u)
  <2>1. Covers(u.rg[j]) = t.rg[j + 1].s .. t.rg[j].e /\ j \in 1 .. u.n
    BY <1>0, <1>1, <1>r, <1>3
  <2>2. pn \in Covers(u.rg[j]) /\ Covers(t.rg[j]) \subseteq Covers(u.rg[j])
        /\ Covers(t.rg[j + 1]) \subseteq Covers(u.rg[j])
    <3>1. /\ t.rg[j].s \in Int /\ t.rg[j].e \in Int /\ t.rg[j + 1].s \in Int /\ t.rg[j + 1].e \in Int
          /\ t.rg[j].s <= t.rg[j].e /\ t.rg[j + 1].s <= t.rg[j + 1].e
          /\ t.rg[j].s > t.rg[j + 1].e + 1
      BY <1>0, <1>t
    <3>2. /\ pn \in t.rg[j + 1].s .. t.rg[j].e
          /\ t.rg[j].s .. t.rg[j].e \subseteq t.rg[j + 1].s .. t.rg[j].e
          /\ t.rg[j + 1].s .. t.rg[j + 1].e \subseteq t.rg[j + 1].s .. t.rg[j].e
      BY <3>1
    <3> QED
      BY <2>1, <3>2
  <2>3. ASSUME NEW k \in 1 .. t.n PROVE \E m \in 1 .. u.n : Covers(t.rg[k]) \subseteq Covers(u.rg[m])
    <3>1. CASE k < j
      BY <1>0, <1>1, <1>3, <3>1
    <3>2. CASE k \in {j, j + 1}
      BY <2>1, <2>2, <3>2
    <3>3. CASE k > j + 1
      <4>1. k - 1 \in (j + 1) .. (t.n - 1) /\ (k - 1) + 1 = k
        BY <1>0, <3>3
      <4>2. u.rg[k - 1] = t.rg[k] /\ k - 1 \in 1 .. u.n
        BY <1>0, <1>1, <1>3, <4>1
      <4> QED
        BY <4>2
    <3> QED
      BY <1>0, <3>1, <3>2, <3>3
  <2> QED
    BY <2>1, <2>2, <2>3 DEF CoveredBy
<1>10. Noted(t, u, pn)
  BY <1>0, <1>1, <1>6, <1>7, <1>8, <1>9 DEF Noted
<1> QED
  BY <1>10 DEF u, r

-----------------------------------------------------------------------------
(* Every path of qcn-rg-note!: the table stays sorted, gains nothing but pn,
   and its first range ends at the larger of pn and the old end. *)
LEMMA NoteAtNoted ==
  ASSUME NEW t, TableOK(t), t = [n |-> t.n, rg |-> t.rg],
         NEW pn \in Pn, NEW i \in 1 .. t.n, Decides(t, i, pn)
  PROVE  Noted(t, NoteAt(t, i, pn), pn)
<1>t. /\ t.n \in 1 .. Cap
      /\ \A k \in 1 .. t.n : t.rg[k].s \in Pn /\ t.rg[k].e \in Pn
      /\ \A k \in 1 .. t.n : t.rg[k].s <= t.rg[k].e
      /\ \A k \in 1 .. (t.n - 1) : t.rg[k].s > t.rg[k + 1].e + 1
  BY DEF TableOK
<1>1. pn >= t.rg[i].s - 1
  BY DEF Decides, Candidates
<1>2. \A j \in 1 .. (i - 1) : pn < t.rg[j].s - 1
  BY <1>t DEF Decides, Candidates
<1>3. i > 1 => pn < t.rg[1].s - 1 /\ pn < t.rg[i - 1].s - 1
  BY <1>2
<1>4. CASE pn \in Covers(t.rg[i])
  <2>1. pn <= t.rg[1].e
    BY <1>t, <1>3, <1>4
  <2>2. NoteAt(t, i, pn) = t
    BY <1>4 DEF NoteAt
  <2>3. CoveredBy(t) \cup {pn} \subseteq CoveredBy(t)
    BY <1>4 DEF CoveredBy
  <2> QED
    BY <1>t, <2>1, <2>2, <2>3 DEF Noted
<1>5. CASE pn \notin Covers(t.rg[i]) /\ pn = t.rg[i].e + 1
  <2> DEFINE r == Rng(t.rg[i].s, pn)
  <2>1. NoteAt(t, i, pn) = GrowUp(t, i, pn)
    BY <1>5 DEF NoteAt
  <2>2. ~(i > 1 /\ t.rg[i - 1].s = pn + 1)
    BY <1>t, <1>3
  <2>3. GrowUp(t, i, pn) = Put(t, i, r)
    BY <2>2 DEF GrowUp
  <2>4. r \in [s : Pn, e : Pn] /\ r.s = t.rg[i].s /\ r.e = pn
    BY <1>t
  <2> HIDE DEF r
  <2>5. r.s <= r.e /\ Covers(r) = Covers(t.rg[i]) \cup {pn}
    BY <1>t, <1>5, <2>4
  <2>6. i > 1 => t.rg[i - 1].s > r.e + 1 /\ pn < t.rg[1].s
    BY <1>t, <1>3, <2>4
  <2>7. i < t.n => r.s > t.rg[i + 1].e + 1
    BY <1>t, <2>4
  <2>8. i = 1 => r.e = IF pn <= t.rg[1].e THEN t.rg[1].e ELSE pn
    BY <1>t, <1>5, <2>4
  <2>9. Noted(t, Put(t, i, r), pn)
    BY <2>4, <2>5, <2>6, <2>7, <2>8, PutNoted
  <2> QED
    BY <2>1, <2>3, <2>9
<1>6. CASE pn \notin Covers(t.rg[i]) /\ pn # t.rg[i].e + 1 /\ pn = t.rg[i].s - 1
  <2>1. NoteAt(t, i, pn) = GrowDown(t, i, pn)
    BY <1>6 DEF NoteAt
  <2>2. CASE i < t.n /\ t.rg[i + 1].e = pn - 1
    <3>1. GrowDown(t, i, pn) = Remove(Put(t, i, Rng(t.rg[i + 1].s, t.rg[i].e)), i + 1)
      BY <2>2 DEF GrowDown
    <3>2. pn = t.rg[i + 1].e + 1 /\ i \in 1 .. (t.n - 1)
      BY <1>t, <2>2
    <3> QED
      BY <1>3, <1>6, <2>1, <3>1, <3>2, JoinNoted
  <2>3. CASE ~(i < t.n /\ t.rg[i + 1].e = pn - 1)
    <3> DEFINE r == Rng(pn, t.rg[i].e)
    <3>1. GrowDown(t, i, pn) = Put(t, i, r)
      BY <2>3 DEF GrowDown
    <3>2. r \in [s : Pn, e : Pn] /\ r.s = pn /\ r.e = t.rg[i].e
      BY <1>t
    <3> HIDE DEF r
    <3>3. r.s <= r.e /\ Covers(r) = Covers(t.rg[i]) \cup {pn}
      BY <1>t, <1>6, <3>2
    <3>4. i > 1 => t.rg[i - 1].s > r.e + 1 /\ pn < t.rg[1].s
      <4> SUFFICES ASSUME i > 1 PROVE t.rg[i - 1].s > r.e + 1 /\ pn < t.rg[1].s
        OBVIOUS
      <4>1. i - 1 \in 1 .. (t.n - 1) /\ (i - 1) + 1 = i
        BY <1>t
      <4>2. t.rg[i - 1].s > t.rg[i].e + 1
        BY <1>t, <4>1
      <4> QED
        BY <1>t, <1>3, <3>2, <4>2
    <3>5. i < t.n => r.s > t.rg[i + 1].e + 1
      BY <1>t, <1>6, <2>3, <3>2
    <3>6. i = 1 => r.e = IF pn <= t.rg[1].e THEN t.rg[1].e ELSE pn
      BY <1>t, <1>6, <3>2
    <3>7. Noted(t, Put(t, i, r), pn)
      BY <3>2, <3>3, <3>4, <3>5, <3>6, PutNoted
    <3> QED
      BY <2>1, <3>1, <3>7
  <2> QED
    BY <2>2, <2>3
<1>7. CASE pn \notin Covers(t.rg[i]) /\ pn # t.rg[i].e + 1 /\ pn # t.rg[i].s - 1
  <2>1. NoteAt(t, i, pn) = Insert(t, i, Rng(pn, pn))
    BY <1>7 DEF NoteAt
  <2>2. pn > t.rg[i].e + 1
    BY <1>t, <1>1, <1>7
  <2>3. i \in 1 .. Cap /\ i <= t.n + 1
    BY <1>t
  <2> QED
    BY <1>2, <2>1, <2>2, <2>3, InsertNoted
<1> QED
  BY <1>4, <1>5, <1>6, <1>7

-----------------------------------------------------------------------------
LEMMA InitIInv == Init => IInv
<1> SUFFICES ASSUME Init PROVE IInv
  OBVIOUS
<1>1. Rng(0, 0) \in [s : Pn, e : Pn]
  OBVIOUS
<1>2. n = 0 /\ rg \in [Index -> [s : Pn, e : Pn]]
  BY <1>1 DEF Init
<1>3. Table.n = 0 /\ Table.rg = rg
  BY <1>2 DEF Table
<1>4. TableOK(Table)
  BY <1>2, <1>3 DEF TableOK
<1>5. Covered = {}
  BY <1>3 DEF Covered, CoveredBy
<1>6. pending \in BOOLEAN
  BY DEF Init
<1>7. largest = -1 /\ received = {} /\ runs = 0 /\ acked = {}
  BY DEF Init
<1>8. TypeOK
  BY <1>2, <1>6, <1>7 DEF TypeOK
<1>9. TopIsLargest
  BY <1>2 DEF TopIsLargest
<1> QED
  BY <1>4, <1>5, <1>7, <1>8, <1>9 DEF IInv, NothingAtFirst, CoveredIsReceived, AckedIsReceived, NothingForgottenBelowCap

(* The history counter stays a natural number. *)
LEMMA RunsType == ASSUME NEW S \in SUBSET Pn PROVE RunsOf(S) \in Nat
<1>1. IsFiniteSet(Pn)
  BY FS_Interval
<1>2. IsFiniteSet({p \in S : (p + 1) \notin S})
  BY <1>1, FS_Subset
<1> QED
  BY <1>2, FS_CardinalityType DEF RunsOf

(* A packet number that touches no range of a full table is one run too many
   for it: this is when a range, or the number itself, has to be given up. *)
LEMMA OverfullRuns ==
  ASSUME NEW t, TableOK(t), NEW u, NEW pn \in Pn, Overfull(t, u, pn)
  PROVE  RunsOf(CoveredBy(t) \cup {pn}) > Cap
<1> DEFINE S == CoveredBy(t) \cup {pn}
           E == {p \in S : (p + 1) \notin S}
           f == [k \in 1 .. Cap + 1 |-> IF k = Cap + 1 THEN pn ELSE t.rg[k].e]
<1>t. /\ t.n = Cap
      /\ \A k \in 1 .. Cap : t.rg[k].s \in Pn /\ t.rg[k].e \in Pn /\ t.rg[k].s <= t.rg[k].e
      /\ \A k \in 1 .. Cap : pn < t.rg[k].s - 1 \/ pn > t.rg[k].e + 1
  BY DEF TableOK, Overfull
<1>d. \A j, k \in 1 .. Cap : j < k => t.rg[j].s > t.rg[k].e + 1
  BY <1>t, Descending
<1>s. \A p \in S : p = pn \/ \E k \in 1 .. Cap : p \in Covers(t.rg[k])
  BY <1>t DEF CoveredBy
<1>1. IsFiniteSet(E)
  <2>1. E \subseteq Pn
    BY <1>t, <1>s
  <2>2. IsFiniteSet(Pn)
    BY FS_Interval
  <2> QED
    BY <2>1, <2>2, FS_Subset
<1>2. ASSUME NEW k \in 1 .. Cap PROVE t.rg[k].e \in E
  <2>1. t.rg[k].e \in Covers(t.rg[k])
    BY <1>t
  <2>2. t.rg[k].e \in S
    BY <1>t, <2>1 DEF CoveredBy
  <2>3. ASSUME t.rg[k].e + 1 \in S PROVE FALSE
    <3>1. t.rg[k].e + 1 # pn
      BY <1>t
    <3>2. PICK j \in 1 .. Cap : t.rg[k].e + 1 \in Covers(t.rg[j])
      BY <1>s, <2>3, <3>1
    <3>3. j < k => t.rg[j].s > t.rg[k].e + 1
      BY <1>d
    <3>4. k < j => t.rg[k].s > t.rg[j].e + 1
      BY <1>d
    <3> QED
      BY <1>t, <3>2, <3>3, <3>4
  <2> QED
    BY <2>2, <2>3
<1>3. pn \in E
  <2>1. ASSUME pn + 1 \in S PROVE FALSE
    <3>1. PICK j \in 1 .. Cap : pn + 1 \in Covers(t.rg[j])
      BY <1>s, <2>1
    <3> QED
      BY <1>t, <3>1
  <2> QED
    BY <2>1
<1>4. f \in Injection(1 .. Cap + 1, E)
  <2> HIDE DEF E
  <2>1. f \in [1 .. Cap + 1 -> E]
    BY <1>2, <1>3
  <2>2. ASSUME NEW j \in 1 .. Cap + 1, NEW k \in 1 .. Cap + 1, j < k PROVE f[j] # f[k]
    <3>1. j \in 1 .. Cap /\ f[j] = t.rg[j].e
      BY <2>2
    <3>2. CASE k = Cap + 1
      BY <1>t, <3>1, <3>2
    <3>3. CASE k # Cap + 1
      <4>1. k \in 1 .. Cap /\ f[k] = t.rg[k].e
        BY <3>3
      <4> QED
        BY <1>t, <1>d, <2>2, <3>1, <4>1
    <3> QED
      BY <3>2, <3>3
  <2>3. \A j, k \in 1 .. Cap + 1 : f[j] = f[k] => j = k
    BY <2>2
  <2> QED
    BY <2>1, <2>3 DEF Injection, IsInjective
<1>5. Cardinality(1 .. Cap + 1) = Cap + 1
  BY FS_Interval
<1>6. Cardinality(1 .. Cap + 1) <= Cardinality(E) /\ Cardinality(E) \in Nat
  <2> HIDE DEF E, f
  <2> QED
    BY <1>1, <1>4, FS_Injection, FS_CardinalityType
<1> QED
  BY <1>5, <1>6 DEF RunsOf

(* qcn-note-rx! leaves the table in one of the ways the paths of
   qcn-rg-note! do. *)
LEMMA NoteRxNotes ==
  ASSUME IInv, NEW pn \in Pn, NEW elicits \in BOOLEAN, NoteRx(pn, elicits)
  PROVE  \E u : Noted(Table, u, pn) /\ n' = u.n /\ rg' = u.rg
<1>t. Table = [n |-> Table.n, rg |-> Table.rg] /\ Table.n = n /\ Table.rg = rg
  BY DEF Table
<1>1. CASE Candidates(Table, pn) = {} /\ n' = NoteBelow(Table, pn).n /\ rg' = NoteBelow(Table, pn).rg
  <2>1. n \in 0 .. Cap /\ \A k \in 1 .. n : pn < rg[k].s - 1
    BY <1>t, <1>1 DEF Candidates, IInv, TypeOK
  <2>2. CASE n < Cap
    <3>1. NoteBelow(Table, pn) = Insert(Table, n + 1, Rng(pn, pn))
      BY <1>t, <2>2 DEF NoteBelow
    <3>2. Noted(Table, Insert(Table, n + 1, Rng(pn, pn)), pn)
      <4>1. n + 1 \in 1 .. Cap /\ n + 1 <= Table.n + 1 /\ ~(n + 1 <= Table.n)
        BY <1>t, <2>1, <2>2
      <4>2. \A j \in 1 .. ((n + 1) - 1) : pn < Table.rg[j].s - 1
        BY <1>t, <2>1
      <4> HIDE DEF Rng
      <4> QED
        BY <1>t, <4>1, <4>2, InsertNoted DEF IInv
    <3> QED
      BY <1>1, <3>1, <3>2
  <2>3. CASE ~(n < Cap)
    <3>1. NoteBelow(Table, pn) = Table
      BY <1>t, <2>3 DEF NoteBelow
    <3>2. pn <= rg[1].e /\ n > 0
      <4>1. n > 0 /\ 1 \in 1 .. n /\ 1 \in Index
        BY <2>1, <2>3
      <4>2. rg[1].s \in Int /\ rg[1].e \in Int
        BY <4>1 DEF IInv, TypeOK
      <4>3. rg[1].s <= rg[1].e /\ pn < rg[1].s - 1
        BY <1>t, <2>1, <4>1 DEF IInv, TableOK
      <4> QED
        BY <4>1, <4>2, <4>3
    <3>3. Overfull(Table, Table, pn)
      BY <1>t, <2>1, <2>3 DEF Overfull
    <3>4. Noted(Table, Table, pn)
      BY <1>t, <3>2, <3>3 DEF Noted, IInv
    <3> QED
      BY <1>1, <3>1, <3>4
  <2> QED
    BY <2>2, <2>3
<1>2. ASSUME NEW i \in 1 .. n, Decides(Table, i, pn),
             n' = NoteAt(Table, i, pn).n, rg' = NoteAt(Table, i, pn).rg
      PROVE  \E u : Noted(Table, u, pn) /\ n' = u.n /\ rg' = u.rg
  BY <1>t, <1>2, NoteAtNoted DEF IInv
<1> QED
  BY <1>1, <1>2 DEF NoteRx

LEMMA NextIInv == IInv /\ [Next]_vars => IInv'
<1> SUFFICES ASSUME IInv, [Next]_vars PROVE IInv'
  OBVIOUS
<1>1. CASE UNCHANGED vars
  BY <1>1 DEF IInv, vars, TypeOK, Table, TableOK, CoveredIsReceived, Covered,
              CoveredBy, AckedIsReceived, TopIsLargest, NothingAtFirst, NothingForgottenBelowCap
<1>2. CASE FlushAck
  <2>1. Table' = Table
    BY <1>2 DEF FlushAck, Table
  <2>2. Reported \subseteq Covered
    BY FrameCapAssumption DEF IInv, TypeOK, Reported, FrameRanges, Covered, CoveredBy, Table
  <2>3. pending' \in BOOLEAN
    BY <1>2 DEF FlushAck
  <2>4. acked' \subseteq received' /\ received' = received
    BY <1>2, <2>2 DEF FlushAck, IInv, CoveredIsReceived, AckedIsReceived
  <2>5. TypeOK'
    BY <1>2, <2>3, <2>4 DEF FlushAck, IInv, TypeOK
  <2>6. TopIsLargest' /\ NothingAtFirst'
    BY <1>2 DEF FlushAck, IInv, TopIsLargest, NothingAtFirst
  <2>7. CoveredIsReceived' /\ TableOK(Table)' /\ NothingForgottenBelowCap'
    BY <1>2, <2>1, <2>4 DEF FlushAck, IInv, CoveredIsReceived, Covered, NothingForgottenBelowCap
  <2> QED
    BY <2>4, <2>5, <2>6, <2>7 DEF IInv, AckedIsReceived
<1>3. ASSUME NEW elicits \in BOOLEAN, RefuseRx(elicits) PROVE IInv'
  <2>1. Table' = Table /\ pending' \in BOOLEAN
    BY <1>3 DEF RefuseRx, Table, IInv, TypeOK
  <2> QED
    BY <1>3, <2>1 DEF RefuseRx, IInv, TypeOK, CoveredIsReceived, Covered,
                      AckedIsReceived, TopIsLargest, NothingAtFirst, NothingForgottenBelowCap
<1>4. ASSUME NEW pn \in Pn, NEW elicits \in BOOLEAN, NoteRx(pn, elicits) PROVE IInv'
  <2>t. Table = [n |-> Table.n, rg |-> Table.rg] /\ Table.n = n /\ Table.rg = rg
    BY DEF Table
  <2>1. PICK u : Noted(Table, u, pn) /\ n' = u.n /\ rg' = u.rg
    BY <1>4, NoteRxNotes
  <2>2. TableOK(Table)'
    BY <2>1 DEF Noted, TableOK, Table
  <2>3. Covered' \subseteq Covered \cup {pn}
    BY <2>1 DEF Noted, Covered, CoveredBy, Table
  <2>4. received' = received \cup {pn} /\ acked' = acked
    BY <1>4 DEF NoteRx
  <2>5. largest' = IF pn > largest THEN pn ELSE largest
    BY <1>4 DEF NoteRx
  <2>6. pending' \in BOOLEAN
    BY <1>4 DEF NoteRx, IInv, TypeOK
  <2>7. runs' \in Nat
    BY <1>4, <2>4, RunsType DEF NoteRx, IInv, TypeOK
  <2>8. n' \in 0 .. Cap /\ rg' \in [Index -> [s : Pn, e : Pn]]
    BY <2>1 DEF Noted, TableOK
  <2>9. TypeOK'
    BY <2>4, <2>5, <2>6, <2>7, <2>8 DEF IInv, TypeOK
  <2>10. rg'[1].e = IF n > 0 /\ pn <= rg[1].e THEN rg[1].e ELSE pn
    BY <2>t, <2>1 DEF Noted
  <2>11. n = 0 => received = {} /\ largest = -1
    BY DEF IInv, NothingAtFirst
  <2>12. TopIsLargest'
    <3>1. largest \in Int /\ largest' \in Int /\ \A p \in received : p \in Int
      BY <2>5 DEF IInv, TypeOK
    <3>2. CASE n = 0
      BY <2>4, <2>5, <2>10, <2>11, <3>1, <3>2 DEF TopIsLargest
    <3>3. CASE n > 0
      <4>1. rg[1].e = largest /\ \A p \in received : p <= largest
        BY <3>3 DEF IInv, TopIsLargest
      <4>2. rg'[1].e = largest'
        BY <2>5, <2>10, <3>1, <3>3, <4>1
      <4>3. \A p \in received' : p <= largest'
        BY <2>4, <2>5, <3>1, <4>1
      <4> QED
        BY <4>2, <4>3 DEF TopIsLargest
    <3> QED
      BY <3>2, <3>3 DEF IInv, TypeOK
  <2>13. n' > 0
    BY <2>1 DEF Noted
  <2>14. NothingForgottenBelowCap'
    <3> SUFFICES ASSUME runs' <= Cap PROVE Covered' = received'
      BY DEF NothingForgottenBelowCap
    <3>1. RunsOf(received') \in Nat /\ received' \subseteq Pn
      BY <2>4, RunsType DEF IInv, TypeOK
    <3>2. RunsOf(received') <= Cap /\ runs <= Cap
      BY <1>4, <3>1 DEF NoteRx, IInv, TypeOK
    <3>3. Covered = received
      BY <3>2 DEF IInv, NothingForgottenBelowCap
    <3>4. ~Overfull(Table, u, pn)
      BY <2>4, <3>1, <3>2, <3>3, OverfullRuns DEF IInv, Covered
    <3>5. Covered \cup {pn} \subseteq Covered'
      BY <2>1, <3>4 DEF Noted, Covered, CoveredBy, Table
    <3> QED
      BY <2>3, <2>4, <3>3, <3>5
  <2> QED
    BY <2>2, <2>3, <2>4, <2>9, <2>12, <2>13, <2>14 DEF IInv, CoveredIsReceived, AckedIsReceived, NothingAtFirst
<1> QED
  BY <1>1, <1>2, <1>3, <1>4 DEF Next

-----------------------------------------------------------------------------
(* Every reachable state satisfies the inductive invariant. *)
THEOREM Invariance == Spec => []IInv
<1>1. Init => IInv
  BY InitIInv
<1>2. IInv /\ [Next]_vars => IInv'
  BY NextIInv
<1> QED
  BY <1>1, <1>2, PTL DEF Spec

(* Type correctness of the range slots. *)
THEOREM TypeCorrect == Spec => []TypeOK
<1>1. IInv => TypeOK
  BY DEF IInv
<1> QED
  BY <1>1, Invariance, PTL

(* The ranges stay non-empty, descending and separated by at least one missing
   number, so no gap in an ACK frame is ever negative. *)
THEOREM AlwaysSorted == Spec => []Sorted
<1>1. IInv => Sorted
  BY DEF IInv, TableOK, Table, Sorted
<1> QED
  BY <1>1, Invariance, PTL

(* The client never acknowledges a packet it did not receive. *)
THEOREM NoFalseAck == Spec => []AckedIsReceived
<1>1. IInv => AckedIsReceived
  BY DEF IInv
<1> QED
  BY <1>1, Invariance, PTL

(* However full the table, its first range ends at the largest number
   received: the Largest Acknowledged field is always right. *)
THEOREM TopIsAlwaysLargest == Spec => []TopIsLargest
<1>1. IInv => TopIsLargest
  BY DEF IInv
<1> QED
  BY <1>1, Invariance, PTL

(* As long as the packets received never needed more than Cap ranges at once,
   the table holds exactly those packets: shifting, merging and splitting lose
   none of them (qcn-rg-note!, qcn-rg-insert!, qcn-rg-remove!). *)
THEOREM ForgetsNothingBelowCap == Spec => []NothingForgottenBelowCap
<1>1. IInv => NothingForgottenBelowCap
  BY DEF IInv
<1> QED
  BY <1>1, Invariance, PTL

(* Whatever a step gives up lies below everything it keeps. *)
THEOREM OnlyLowestDropped == Spec => DropsOnlyLowest
<1>1. ASSUME IInv, [Next]_vars
      PROVE  [\A p \in Covered \ Covered' : \A q \in Covered' : p < q]_vars
  <2>1. CASE UNCHANGED vars
    BY <2>1
  <2>2. CASE FlushAck
    <3>1. Covered' = Covered
      BY <2>2 DEF FlushAck, Covered, CoveredBy, Table
    <3> QED
      BY <3>1
  <2>3. ASSUME NEW elicits \in BOOLEAN, RefuseRx(elicits) PROVE Covered' = Covered
    BY <2>3 DEF RefuseRx, Covered, CoveredBy, Table
  <2>4. ASSUME NEW pn \in Pn, NEW elicits \in BOOLEAN, NoteRx(pn, elicits)
        PROVE  \A p \in Covered \ Covered' : \A q \in Covered' : p < q
    <3>1. PICK u : Noted(Table, u, pn) /\ n' = u.n /\ rg' = u.rg
      BY <1>1, <2>4, NoteRxNotes
    <3>2. Covered' = CoveredBy(u)
      BY <3>1 DEF Covered, CoveredBy, Table
    <3> QED
      BY <3>1, <3>2 DEF Noted, Overfull, Covered
  <2> QED
    BY <1>1, <2>1, <2>2, <2>3, <2>4 DEF Next
<1> QED
  BY <1>1, Invariance, PTL DEF Spec, DropsOnlyLowest

-----------------------------------------------------------------------------
(* Decoding a frame of the table gives its ranges back, one by one. *)
LEMMA DecodesToRanges ==
  ASSUME IInv, n > 0
  PROVE  /\ DOMAIN DecodedRanges(AckFrame) = 1 .. FrameRanges
         /\ \A i \in 1 .. FrameRanges : DecodedRanges(AckFrame)[i] = rg[i]
<1> DEFINE F == FrameRanges
           f == AckFrame
           Below(r, i) == LET e == (r.s - f.pairs[i].gap) - 2 IN Rng(e - f.pairs[i].len, e)
           Is(g) == g = [i \in 1 .. F |-> IF i = 1 THEN Rng(f.largest - f.first, f.largest)
                                           ELSE Below(g[i - 1], i)]
           mine == [i \in 1 .. F |-> rg[i]]
<1>0. F \in 1 .. n /\ n \in 1 .. Cap
  BY FrameCapAssumption DEF FrameRanges, IInv, TypeOK
<1>t. \A i \in 1 .. n : rg[i].s \in Int /\ rg[i].e \in Int /\ rg[i] = Rng(rg[i].s, rg[i].e)
  BY <1>0 DEF IInv, TypeOK
<1>1. Cardinality(DOMAIN f.pairs) + 1 = F
  <2>1. DOMAIN f.pairs = 2 .. F
    BY DEF AckFrame
  <2>2. Cardinality(2 .. F) = IF 2 > F THEN 0 ELSE (F - 2) + 1
    BY <1>0, FS_Interval
  <2> HIDE DEF f, F
  <2> QED
    BY <1>0, <2>1, <2>2
<1>2. /\ f.largest = rg[1].e /\ f.first = rg[1].e - rg[1].s
      /\ \A i \in 2 .. F : /\ f.pairs[i].gap = (rg[i - 1].s - rg[i].e) - 2
                            /\ f.pairs[i].len = rg[i].e - rg[i].s
  BY DEF AckFrame
<1>3. DecodedRanges(f) = CHOOSE g : Is(g)
  <2> HIDE DEF f, F
  <2> QED
    BY <1>1 DEF DecodedRanges
<1> HIDE DEF f, F
<1>4. rg[1] = Rng(f.largest - f.first, f.largest)
  <2>1. 1 \in 1 .. n
    BY <1>0
  <2>2. rg[1].s \in Int /\ rg[1].e \in Int /\ rg[1] = Rng(rg[1].s, rg[1].e)
    BY <1>t, <2>1
  <2>3. f.largest - f.first = rg[1].s
    BY <1>2, <2>2
  <2> QED
    BY <1>2, <2>2, <2>3
<1>5. ASSUME NEW i \in 2 .. F PROVE rg[i] = Below(rg[i - 1], i)
  <2>1. i \in 1 .. n /\ i - 1 \in 1 .. n
    BY <1>0
  <2>2. (rg[i - 1].s - f.pairs[i].gap) - 2 = rg[i].e /\ rg[i].e - f.pairs[i].len = rg[i].s
    <3>1. rg[i - 1].s \in Int /\ rg[i].s \in Int /\ rg[i].e \in Int
      BY <1>t, <2>1
    <3>2. f.pairs[i].gap = (rg[i - 1].s - rg[i].e) - 2 /\ f.pairs[i].len = rg[i].e - rg[i].s
      BY <1>2
    <3> QED
      BY <3>1, <3>2
  <2> QED
    BY <1>t, <2>1, <2>2
<1> HIDE DEF Below
<1>6. Is(mine)
  <2> SUFFICES ASSUME NEW i \in 1 .. F
               PROVE  rg[i] = IF i = 1 THEN Rng(f.largest - f.first, f.largest)
                              ELSE Below(mine[i - 1], i)
    BY DEF mine
  <2>1. i # 1 => i \in 2 .. F /\ mine[i - 1] = rg[i - 1]
    BY <1>0
  <2> HIDE DEF mine
  <2> QED
    BY <1>4, <1>5, <2>1
<1>7. Is(DecodedRanges(f))
  <2> HIDE DEF Is, mine
  <2> QED
    BY <1>3, <1>6
<1> DEFINE d == DecodedRanges(f)
           Right == {i \in Nat : i \in 1 .. F => d[i] = rg[i]}
<1>8. /\ DOMAIN d = 1 .. F
      /\ \A i \in 1 .. F : d[i] = IF i = 1 THEN Rng(f.largest - f.first, f.largest)
                                     ELSE Below(d[i - 1], i)
  <2> HIDE DEF d
  <2>1. d = [i \in 1 .. F |-> IF i = 1 THEN Rng(f.largest - f.first, f.largest)
                              ELSE Below(d[i - 1], i)]
    BY <1>7 DEF d
  <2> QED
    BY <2>1
<1> HIDE DEF d
<1>9. ASSUME NEW i \in Nat, \A m \in 0 .. i - 1 : m \in Right PROVE i \in Right
  <2> SUFFICES ASSUME i \in 1 .. F PROVE d[i] = rg[i]
    OBVIOUS
  <2>1. CASE i = 1
    BY <1>4, <1>8, <2>1
  <2>2. CASE i # 1
    <3>1. i - 1 \in 0 .. i - 1 /\ i - 1 \in 1 .. F /\ i \in 2 .. F
      BY <1>0, <2>2
    <3>2. d[i - 1] = rg[i - 1]
      BY <1>9, <3>1
    <3> QED
      BY <1>5, <1>8, <2>2, <3>1, <3>2
  <2> QED
    BY <2>1, <2>2
<1>10. Nat \subseteq Right
  <2> HIDE DEF Right
  <2> QED
    BY <1>9, Induction
<1> QED
  BY <1>0, <1>8, <1>10 DEF d, f, F

(* The peer decodes from every frame exactly the top FrameCap ranges of the
   table, and no gap it carries is negative (qcn-ack-frame, qcn-ack-pairs!;
   the frame is built and read range after range, by recursion). *)
THEOREM FramesRoundTrip == Spec => []FrameRoundTrip
<1>1. ASSUME IInv PROVE FrameRoundTrip
  <2> SUFFICES ASSUME n > 0
               PROVE  /\ \A i \in 2 .. FrameRanges : AckFrame.pairs[i].gap >= 0
                      /\ Decode(AckFrame) = Reported
    BY DEF FrameRoundTrip
  <2>1. FrameRanges \in 1 .. n /\ n \in 1 .. Cap
    BY <1>1, FrameCapAssumption DEF FrameRanges, IInv, TypeOK
  <2>2. ASSUME NEW i \in 2 .. FrameRanges PROVE AckFrame.pairs[i].gap >= 0
    <3>1. i \in 1 .. n /\ i - 1 \in 1 .. (n - 1) /\ (i - 1) + 1 = i /\ i \in Index /\ i - 1 \in Index
      BY <2>1
    <3>2. rg[i - 1].s > rg[i].e + 1
      BY <1>1, <3>1 DEF IInv, TableOK, Table
    <3>3. rg[i - 1].s \in Int /\ rg[i].e \in Int
      BY <1>1, <3>1 DEF IInv, TypeOK
    <3>4. AckFrame.pairs[i].gap = (rg[i - 1].s - rg[i].e) - 2
      BY DEF AckFrame
    <3> QED
      BY <3>2, <3>3, <3>4
  <2>3. Decode(AckFrame) = Reported
    <3> DEFINE d == DecodedRanges(AckFrame)
    <3>1. DOMAIN d = 1 .. FrameRanges /\ \A i \in 1 .. FrameRanges : d[i] = rg[i]
      BY <1>1, DecodesToRanges
    <3>2. Decode(AckFrame) = UNION {Covers(d[i]) : i \in DOMAIN d}
      BY DEF Decode
    <3> HIDE DEF d
    <3> QED
      BY <3>1, <3>2 DEF Reported
  <2> QED
    BY <2>2, <2>3
<1> QED
  BY <1>1, Invariance, PTL
=============================================================================
