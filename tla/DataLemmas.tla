----------------------------- MODULE DataLemmas -----------------------------
(***************************************************************************)
(* What the proofs of several components need to know of numbers and       *)
(* sequences.  Induction and recursion take a form the provers can use: a  *)
(* theorem that has a predicate as a parameter cannot be applied, one      *)
(* about a set of numbers can.                                             *)
(***************************************************************************)
EXTENDS Integers, Sequences, FiniteSetsExt, TLAPS, WellFoundedInduction, SequenceTheorems

(* A non-empty set of naturals has a least element. *)
LEMMA LeastElement ==
  ASSUME NEW C \in SUBSET Nat, C # {}
  PROVE  \E m \in C : \A k \in C : m <= k
<1>1. PICK m \in C : \A k \in C : ~ (<<k, m>> \in OpToRel(<, Nat))
  BY NatLessThanWellFounded, WFMin, Zenon
<1>2. ASSUME NEW k \in C PROVE m <= k
  <2>1. <<k, m>> \in Nat \X Nat
    OBVIOUS
  <2>2. (k < m) => <<k, m>> \in OpToRel(<, Nat)
    BY <2>1 DEF OpToRel
  <2>3. ~ (k < m)
    BY <1>1, <2>2, Zenon
  <2> QED
    BY <2>3
<1> QED
  BY <1>2

(* A set of naturals that contains a number whenever it contains every
   smaller one contains them all. *)
LEMMA Induction ==
  ASSUME NEW C, \A n \in Nat : (\A m \in 0 .. n - 1 : m \in C) => n \in C
  PROVE  Nat \subseteq C
<1> SUFFICES ASSUME Nat \ C # {} PROVE FALSE
  OBVIOUS
<1>1. PICK n \in Nat \ C : \A k \in Nat \ C : n <= k
  <2> DEFINE B == Nat \ C
  <2>1. B \in SUBSET Nat /\ B # {}
    OBVIOUS
  <2> HIDE DEF B
  <2>2. \E n \in B : \A k \in B : n <= k
    BY <2>1, LeastElement
  <2> QED
    BY <2>2 DEF B
<1>2. \A m \in 0 .. n - 1 : m \in C
  BY <1>1
<1> QED
  BY <1>1, <1>2

(* The functions given by their value at 0 and by what each value makes of the
   one before ... *)
Recursions(S, base, step) ==
  {f \in [Nat -> S] : f[0] = base /\ \A k \in Nat \ {0} : f[k] = step[<<k, f[k - 1]>>]}

(* ... exist. *)
LEMMA NatRecursion ==
  ASSUME NEW S, NEW base \in S, NEW step \in [Nat \X S -> S]
  PROVE  Recursions(S, base, step) # {}
<1> DEFINE Upto(g, n) ==
             /\ g \in [0 .. n -> S]
             /\ \A k \in 0 .. n : g[k] = IF k = 0 THEN base ELSE step[<<k, g[k - 1]>>]
           Have == {n \in Nat : \E g : Upto(g, n)}
<1>1. ASSUME NEW n \in Nat, \A m \in 0 .. n - 1 : m \in Have PROVE n \in Have
  <2>1. CASE n = 0
    <3>1. Upto([k \in 0 .. 0 |-> base], 0)
      OBVIOUS
    <3> QED
      BY <2>1, <3>1
  <2>2. CASE n # 0
    <3>1. n - 1 \in 0 .. n - 1 /\ n - 1 \in Nat
      BY <2>2
    <3>2. PICK g : Upto(g, n - 1)
      BY <1>1, <3>1
    <3> DEFINE h == [k \in 0 .. n |-> IF k = n THEN step[<<n, g[n - 1]>>] ELSE g[k]]
    <3>3. g[n - 1] \in S /\ \A k \in 0 .. n - 1 : g[k] \in S
      BY <3>1, <3>2
    <3>4. step[<<n, g[n - 1]>>] \in S
      BY <3>3
    <3>5. h \in [0 .. n -> S]
      BY <3>3, <3>4
    <3>6. ASSUME NEW k \in 0 .. n
          PROVE  h[k] = IF k = 0 THEN base ELSE step[<<k, h[k - 1]>>]
      <4>1. CASE k = n
        <5>1. h[n - 1] = g[n - 1] /\ h[k] = step[<<n, g[n - 1]>>]
          BY <3>1, <4>1
        <5> QED
          BY <2>2, <4>1, <5>1
      <4>2. CASE k # n
        <5>1. k \in 0 .. n - 1 /\ h[k] = g[k]
          BY <4>2
        <5>2. k # 0 => h[k - 1] = g[k - 1]
          BY <4>2
        <5> QED
          BY <3>2, <5>1, <5>2
      <4> QED
        BY <4>1, <4>2
    <3> QED
      BY <3>5, <3>6
  <2> QED
    BY <2>1, <2>2
<1>2. PICK p : \A n \in Nat : Upto(p[n], n)
  <2>1. Nat \subseteq Have
    <3> HIDE DEF Have
    <3> QED
      BY <1>1, Induction
  <2>2. \A n \in Nat : \E g : Upto(g, n)
    BY <2>1
  <2> HIDE DEF Upto, Have
  <2>3. \A n \in Nat : Upto([m \in Nat |-> CHOOSE g : Upto(g, m)][n], n)
    BY <2>2
  <2> QED
    BY <2>3
<1>3. ASSUME NEW n \in Nat, NEW m \in 0 .. n PROVE p[n][m] = p[m][m]
  <2> DEFINE Same == {k \in Nat : k <= m => p[n][k] = p[m][k]}
  <2>1. Upto(p[n], n) /\ Upto(p[m], m)
    BY <1>2
  <2>2. ASSUME NEW k \in Nat, \A i \in 0 .. k - 1 : i \in Same PROVE k \in Same
    <3> SUFFICES ASSUME k <= m PROVE p[n][k] = p[m][k]
      OBVIOUS
    <3>1. k # 0 => p[n][k - 1] = p[m][k - 1]
      BY <2>2
    <3>2. k \in 0 .. n /\ k \in 0 .. m
      OBVIOUS
    <3> QED
      BY <2>1, <3>1, <3>2
  <2>3. Nat \subseteq Same
    <3> HIDE DEF Same
    <3> QED
      BY <2>2, Induction
  <2> QED
    BY <2>3
<1> DEFINE f == [k \in Nat |-> p[k][k]]
<1>4. f \in [Nat -> S]
  BY <1>2
<1>5. ASSUME NEW k \in Nat
      PROVE  f[k] = IF k = 0 THEN base ELSE step[<<k, f[k - 1]>>]
  <2>1. Upto(p[k], k)
    BY <1>2
  <2>2. k # 0 => p[k][k - 1] = p[k - 1][k - 1]
    BY <1>3
  <2>3. f[k] = p[k][k] /\ (k # 0 => f[k - 1] = p[k][k - 1])
    BY <2>2
  <2>4. p[k][k] = IF k = 0 THEN base ELSE step[<<k, p[k][k - 1]>>]
    BY <2>1
  <2> HIDE DEF f
  <2> QED
    BY <2>3, <2>4
<1>6. f[0] = base /\ \A k \in Nat \ {0} : f[k] = step[<<k, f[k - 1]>>]
  <2> HIDE DEF f
  <2> QED
    BY <1>5
<1> QED
  BY <1>4, <1>6 DEF Recursions

(* A function whose value at x is where T puts it when those of lower rank are ... *)
Descends(X, T, f, rank) ==
  /\ rank \in [X -> Nat]
  /\ \A x \in X : (\A y \in X : rank[y] < rank[x] => f[y] \in T[y]) => f[x] \in T[x]

(* ... has all its values there. *)
Within(X, T, f) == \A x \in X : f[x] \in T[x]

(* A function defined by recursion along a rank has its type. *)
LEMMA RankedTyping ==
  ASSUME NEW X, NEW T, NEW f, NEW rank, Descends(X, T, f, rank)
  PROVE  Within(X, T, f)
<1> DEFINE C == {n \in Nat : \A x \in X : rank[x] = n => f[x] \in T[x]}
<1>1. ASSUME NEW n \in Nat, \A m \in 0 .. n - 1 : m \in C PROVE n \in C
  <2> SUFFICES ASSUME NEW x \in X, rank[x] = n PROVE f[x] \in T[x]
    OBVIOUS
  <2>1. ASSUME NEW y \in X, rank[y] < rank[x] PROVE f[y] \in T[y]
    <3>1. rank[y] \in 0 .. n - 1
      BY <2>1 DEF Descends
    <3> QED
      BY <1>1, <3>1
  <2> QED
    BY <2>1 DEF Descends
<1>2. Nat \subseteq C
  <2> HIDE DEF C
  <2> QED
    BY <1>1, Induction
<1> QED
  BY <1>2 DEF Descends, Within

(* The functions whose value at x is given outright in stop, and elsewhere by what
   step makes of the value at next[x] ... *)
Unfoldings(X, S, stop, base, step, next) ==
  {f \in [X -> S] :
     \A x \in X : f[x] = IF x \in stop THEN base[x] ELSE step[<<x, f[next[x]]>>]}

(* ... exist when next leads down in rank, and the ranks are bounded. *)
LEMMA RankedRecursion ==
  ASSUME NEW X, NEW S, NEW stop, NEW base \in [X -> S], NEW step \in [X \X S -> S],
         NEW next \in [X -> X], NEW rank \in [X -> Nat], NEW N \in Nat,
         \A x \in X : rank[x] <= N,
         \A x \in X \ stop : rank[next[x]] < rank[x]
  PROVE  Unfoldings(X, S, stop, base, step, next) # {}
<1> DEFINE Value(f, x) == IF x \in stop THEN base[x] ELSE step[<<x, f[next[x]]>>]
           Below(f, n) == f \in [X -> S] /\ \A x \in X : rank[x] < n => f[x] = Value(f, x)
           C == {n \in Nat : \E f : Below(f, n)}
<1>1. ASSUME NEW n \in Nat, \A m \in 0 .. n - 1 : m \in C PROVE n \in C
  <2>1. CASE n = 0
    <3>1. Below(base, 0)
      OBVIOUS
    <3> QED
      BY <2>1, <3>1
  <2>2. CASE n # 0
    <3>1. n - 1 \in Nat /\ n - 1 \in C
      BY <1>1, <2>2
    <3>2. PICK f : Below(f, n - 1)
      BY <3>1
    <3> DEFINE h == [x \in X |-> IF rank[x] < n - 1 THEN f[x] ELSE Value(f, x)]
    <3>3. h \in [X -> S]
      BY <3>2
    <3>4. ASSUME NEW x \in X, rank[x] < n PROVE h[x] = Value(h, x)
      <4>1. h[x] = Value(f, x)
        BY <3>2
      <4>2. CASE x \in stop
        BY <4>1, <4>2
      <4>3. CASE x \notin stop
        <5>1. rank[next[x]] < rank[x] /\ next[x] \in X
          BY <4>3
        <5>2. h[next[x]] = f[next[x]]
          BY <3>1, <3>4, <5>1
        <5> QED
          BY <4>1, <4>3, <5>2
      <4> QED
        BY <4>2, <4>3
    <3> QED
      BY <3>3, <3>4
  <2> QED
    BY <2>1, <2>2
<1>2. N + 1 \in C
  <2> HIDE DEF C
  <2> QED
    BY <1>1, Induction
<1>3. PICK f : Below(f, N + 1)
  BY <1>2
<1>4. \A x \in X : f[x] = Value(f, x)
  BY <1>3
<1> QED
  BY <1>3, <1>4 DEF Unfoldings

(* The same where the value at x is the one at next[x]. *)
Followings(X, S, stop, base, next) ==
  {f \in [X -> S] : \A x \in X : f[x] = IF x \in stop THEN base[x] ELSE f[next[x]]}

(* One that only follows a path to where it stops exists. *)
LEMMA RankedFollowing ==
  ASSUME NEW X, NEW S, NEW stop, NEW base \in [X -> S],
         NEW next \in [X -> X], NEW rank \in [X -> Nat], NEW N \in Nat,
         \A x \in X : rank[x] <= N,
         \A x \in X \ stop : rank[next[x]] < rank[x]
  PROVE  Followings(X, S, stop, base, next) # {}
<1> DEFINE step == [p \in X \X S |-> p[2]]
<1>1. step \in [X \X S -> S]
  OBVIOUS
<1>2. \A x \in X, v \in S : step[<<x, v>>] = v
  OBVIOUS
<1> HIDE DEF step
<1>3. Unfoldings(X, S, stop, base, step, next) # {}
  BY <1>1, RankedRecursion
<1>4. PICK f \in [X -> S] :
         \A x \in X : f[x] = IF x \in stop THEN base[x] ELSE step[<<x, f[next[x]]>>]
  BY <1>3 DEF Unfoldings
<1>5. \A x \in X : f[x] = IF x \in stop THEN base[x] ELSE f[next[x]]
  BY <1>2, <1>4
<1> QED
  BY <1>5 DEF Followings

-----------------------------------------------------------------------------
(* The operator Min of a non-empty set of naturals. *)
LEMMA MinIsLeast ==
  ASSUME NEW S \in SUBSET Nat, S # {}
  PROVE  Min(S) \in S /\ \A k \in S : Min(S) <= k
<1>1. \E m \in S : \A k \in S : m <= k
  BY LeastElement
<1> QED
  BY <1>1 DEF Min

(* The maximum of a set of numbers is in it, and bounds it. *)
LEMMA MaxIsGreatest ==
  ASSUME NEW n \in Nat, NEW S \in SUBSET (0..n), S # {}
  PROVE  Max(S) \in S /\ \A k \in S : k <= Max(S)
<1> DEFINE C == {m \in Nat : n - m \in S}
<1>1. C \in SUBSET Nat /\ C # {}
  <2>1. PICK k \in S : TRUE
    OBVIOUS
  <2>2. n - k \in Nat /\ n - (n - k) = k
    BY <2>1
  <2> QED
    BY <2>1, <2>2
<1>2. PICK m \in C : \A k \in C : m <= k
  <2> HIDE DEF C
  <2> QED
    BY <1>1, LeastElement
<1>3. n - m \in S
  BY <1>2
<1>4. ASSUME NEW k \in S PROVE k <= n - m
  <2>1. n - k \in C
    <3>1. n - k \in Nat /\ n - (n - k) = k
      OBVIOUS
    <3> QED
      BY <3>1
  <2>2. m <= n - k
    BY <1>2, <2>1
  <2> QED
    BY <1>2, <2>2
<1> QED
  BY <1>3, <1>4 DEF Max

(* The lesser of two ... *)
LEMMA MinOfTwo ==
  ASSUME NEW m \in Int, NEW n \in Int
  PROVE  Min({m, n}) = IF m <= n THEN m ELSE n
BY DEF Min

(* ... and the greater. *)
LEMMA MaxOfTwo ==
  ASSUME NEW m \in Int, NEW n \in Int
  PROVE  Max({m, n}) = IF m >= n THEN m ELSE n
BY DEF Max

-----------------------------------------------------------------------------
(* What a part of a sequence is. *)
LEMMA SubSeqIs ==
  ASSUME NEW S, NEW s \in Seq(S), NEW m \in 0..Len(s), NEW n \in m..Len(s)
  PROVE  /\ SubSeq(s, m + 1, n) \in Seq(S) /\ Len(SubSeq(s, m + 1, n)) = n - m
         /\ \A i \in 1..n - m : SubSeq(s, m + 1, n)[i] = s[m + i]
<1>1. \A i \in m + 1..n : s[i] \in S
  BY ElementOfSeq
<1>2. m + 1 \in Int /\ n \in Int
  BY LenProperties
<1> QED
  BY <1>1, <1>2, SubSeqProperties

(* A prefix, element by element. *)
LEMMA PrefixIs ==
  ASSUME NEW S, NEW s \in Seq(S), NEW n \in 0..Len(s)
  PROVE  /\ SubSeq(s, 1, n) \in Seq(S) /\ Len(SubSeq(s, 1, n)) = n
         /\ \A i \in 1..n : SubSeq(s, 1, n)[i] = s[i]
<1>1. \A i \in 1..n : s[i] \in S
  BY ElementOfSeq
<1>2. 1 \in Int /\ n \in Int
  BY LenProperties
<1> QED
  BY <1>1, <1>2, SubSeqProperties

(* Concatenation under a name of its own: the provers take the sequence operators
   apart element by element, and lose the equations between whole sequences. *)
Cat(s, t) == s \o t

(* Its type ... *)
LEMMA CatIsSeq ==
  ASSUME NEW S, NEW s \in Seq(S), NEW t \in Seq(S)
  PROVE  Cat(s, t) \in Seq(S)
BY DEF Cat

(* ... its length ... *)
LEMMA CatLength ==
  ASSUME NEW S, NEW s \in Seq(S), NEW t \in Seq(S)
  PROVE  Len(Cat(s, t)) = Len(s) + Len(t)
BY ConcatProperties DEF Cat

(* ... its elements ... *)
LEMMA CatElements ==
  ASSUME NEW S, NEW s \in Seq(S), NEW t \in Seq(S)
  PROVE  /\ \A i \in 1..Len(s) : Cat(s, t)[i] = s[i]
         /\ \A i \in 1..Len(t) : Cat(s, t)[Len(s) + i] = t[i]
<1>1. Len(s) \in Nat /\ Len(t) \in Nat
  BY LenProperties
<1> QED
  BY <1>1, ConcatProperties DEF Cat

(* ... and that it associates. *)
LEMMA CatAssociates ==
  ASSUME NEW S, NEW s \in Seq(S), NEW t \in Seq(S), NEW u \in Seq(S)
  PROVE  Cat(Cat(s, t), u) = Cat(s, Cat(t, u))
BY DEF Cat

=============================================================================
