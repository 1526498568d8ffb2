--------------------------- MODULE PrnReaderProofs ---------------------------
(***************************************************************************)
(* The lexer, the formatter and the reader, for every text.                *)
(***************************************************************************)
EXTENDS PrnReader, DataLemmas, FiniteSetTheorems

-----------------------------------------------------------------------------
(* The two scans for brackets, and the formatter.                          *)

(* Where a run of characters ends: the least of the places that stop it, or
   past the end. *)
EndOf(stops, n) == IF stops = {} THEN n + 1 ELSE Min(stops)

(* It lies in the range or just past it. *)
LEMMA EndOfIs ==
  ASSUME NEW n \in Nat, NEW i \in 1..n + 1, NEW stops \in SUBSET (i..n)
  PROVE  EndOf(stops, n) \in i..n + 1
<1>1. CASE stops = {}
  BY <1>1 DEF EndOf
<1>2. CASE stops # {}
  <2>1. stops \in SUBSET Nat
    OBVIOUS
  <2>2. Min(stops) \in stops
    BY <1>2, <2>1, MinIsLeast
  <2>3. Min(stops) \in i..n
    BY <2>2
  <2>4. Min(stops) \in i..n + 1
    BY <2>3
  <2> QED
    BY <1>2, <2>4 DEF EndOf
<1> QED
  BY <1>1, <1>2

(* The end of a string literal is further on. *)
LEMMA AfterQuoteIs ==
  ASSUME NEW s, NEW n \in Nat
  PROVE  \A i \in 1..n + 1 :
           /\ AfterQuote(s, n)[i] \in i..n + 1
           /\ AfterQuote(s, n)[i] =
                IF i > n THEN i ELSE IF s[i] = Quote THEN i + 1
                ELSE AfterQuote(s, n)[IF s[i] = Backslash /\ i < n THEN i + 2 ELSE i + 1]
<1> DEFINE X == 1..n + 1
           onward(i) == IF s[i] = Backslash /\ i < n THEN i + 2 ELSE i + 1
           Is(f) == f = [i \in X |-> IF i > n THEN i
                                     ELSE IF s[i] = Quote THEN i + 1 ELSE f[onward(i)]]
           stop == {i \in X : i > n \/ s[i] = Quote}
           base == [i \in X |-> IF i > n THEN i ELSE i + 1]
           next == [i \in X |-> IF i > n THEN i ELSE onward(i)]
           rank == [i \in X |-> n + 1 - i]
<1>1. /\ base \in [X -> X] /\ next \in [X -> X] /\ rank \in [X -> Nat]
      /\ \A i \in X : rank[i] <= n
      /\ \A i \in X \ stop : rank[next[i]] < rank[i]
  OBVIOUS
<1>2. PICK f \in [X -> X] : \A i \in X : f[i] = IF i \in stop THEN base[i] ELSE f[next[i]]
  <2> HIDE DEF X, stop, base, next, rank
  <2>1. Followings(X, X, stop, base, next) # {}
    BY <1>1, RankedFollowing
  <2> QED
    BY <2>1 DEF Followings
<1>3. Is(f)
  BY <1>2
<1>4. AfterQuote(s, n) = CHOOSE g : Is(g)
  BY DEF AfterQuote
<1> DEFINE after == AfterQuote(s, n)
<1>5. Is(after)
  <2> HIDE DEF Is
  <2> QED
    BY <1>3, <1>4
<1> DEFINE T == [i \in X |-> i..n + 1]
<1>6. \A i \in X : T[i] = i..n + 1 /\ rank[i] = n + 1 - i
  OBVIOUS
<1> HIDE DEF after, T, rank
<1>7. ASSUME NEW i \in X, \A j \in X : rank[j] < rank[i] => after[j] \in T[j]
      PROVE  after[i] \in T[i]
  <2>1. after[i] = IF i > n THEN i ELSE IF s[i] = Quote THEN i + 1 ELSE after[onward(i)]
    BY <1>5
  <2>2. CASE i > n \/ s[i] = Quote
    BY <1>6, <2>1, <2>2
  <2>3. CASE ~(i > n \/ s[i] = Quote)
    <3>1. PICK k \in X : k = onward(i) /\ k > i
      BY <2>3
    <3> HIDE DEF onward
    <3>2. after[k] \in T[k]
      <4>1. rank[k] < rank[i]
        BY <1>6, <3>1
      <4> QED
        BY <1>7, <4>1
    <3>3. after[k] \in k..n + 1 /\ T[i] = i..n + 1 /\ after[i] = after[k]
      BY <1>6, <2>1, <2>3, <3>1, <3>2
    <3> QED
      BY <3>1, <3>3
  <2> QED
    BY <2>2, <2>3
<1>8. Within(X, T, after)
  <2>1. Descends(X, T, after, rank)
    <3> HIDE DEF X
    <3> QED
      BY <1>1, <1>7 DEF Descends
  <2> HIDE DEF X
  <2> QED
    BY <2>1, RankedTyping
<1>9. ASSUME NEW i \in X
      PROVE  after[i] = IF i > n THEN i ELSE IF s[i] = Quote THEN i + 1 ELSE after[onward(i)]
  BY <1>5
<1>10. \A i \in X : after[i] \in i..n + 1
  BY <1>6, <1>8 DEF Within
<1> QED
  BY <1>9, <1>10 DEF after

(* A scan that goes forward from place to place, and may raise or lower the depth on
   the way ... *)
Places(n) == (1..n + 1) \X Nat
Forward(n, stop, next) ==
  next \in [Places(n) -> Places(n)] /\ \A p \in Places(n) \ stop : next[p][1] > p[1]
Scanner(f, n, stop, next) ==
  \A p \in Places(n) : f[p] = IF p \in stop THEN p[2] ELSE f[next[p]]

(* ... ends, and with a depth. *)
LEMMA ScannerExists ==
  ASSUME NEW n \in Nat, NEW stop, NEW next, Forward(n, stop, next)
  PROVE  \E f \in [Places(n) -> Nat] : Scanner(f, n, stop, next)
<1> DEFINE base == [p \in Places(n) |-> p[2]]
           rank == [p \in Places(n) |-> n + 1 - p[1]]
<1>1. base \in [Places(n) -> Nat] /\ \A p \in Places(n) : base[p] = p[2]
  BY DEF Places
<1>2. /\ rank \in [Places(n) -> Nat] /\ \A p \in Places(n) : rank[p] = n + 1 - p[1]
      /\ \A p \in Places(n) : rank[p] <= n
  BY DEF Places
<1>3. next \in [Places(n) -> Places(n)]
  BY DEF Forward
<1>4. \A p \in Places(n) \ stop : rank[next[p]] < rank[p]
  <2> SUFFICES ASSUME NEW p \in Places(n) \ stop PROVE rank[next[p]] < rank[p]
    OBVIOUS
  <2> HIDE DEF rank
  <2>1. next[p] \in Places(n) /\ next[p][1] > p[1]
    BY DEF Forward
  <2>2. next[p][1] \in 1..n + 1 /\ p[1] \in 1..n + 1
    BY <2>1 DEF Places
  <2> QED
    BY <1>2, <2>1, <2>2
<1> HIDE DEF base, rank
<1>5. Followings(Places(n), Nat, stop, base, next) # {}
  BY <1>1, <1>2, <1>3, <1>4, RankedFollowing
<1> QED
  BY <1>1, <1>5 DEF Followings, Scanner

(* A scanner that never goes below zero gives a depth. *)
LEMMA ScannerGivesDepth ==
  ASSUME NEW n \in Nat, NEW stop, NEW next, Forward(n, stop, next),
         NEW f, Scanner(f, n, stop, next)
  PROVE  \A p \in Places(n) : f[p] \in Nat
<1> DEFINE T == [p \in Places(n) |-> Nat]
           rank == [p \in Places(n) |-> n + 1 - p[1]]
<1>1. rank \in [Places(n) -> Nat] /\ \A p \in Places(n) : rank[p] = n + 1 - p[1] /\ T[p] = Nat
  BY DEF Places
<1> HIDE DEF T, rank
<1>2. ASSUME NEW p \in Places(n), \A q \in Places(n) : rank[q] < rank[p] => f[q] \in T[q]
      PROVE  f[p] \in T[p]
  <2>1. CASE p \in stop
    BY <1>1, <2>1 DEF Scanner, Places
  <2>2. CASE p \notin stop
    <3>1. f[p] = f[next[p]] /\ next[p] \in Places(n) /\ next[p][1] > p[1]
      BY <2>2 DEF Scanner, Forward
    <3>2. next[p][1] \in 1..n + 1 /\ p[1] \in 1..n + 1
      BY <3>1 DEF Places
    <3>3. rank[next[p]] < rank[p]
      BY <1>1, <3>1, <3>2
    <3> QED
      BY <1>1, <1>2, <3>1, <3>3
  <2> QED
    BY <2>1, <2>2
<1>3. Descends(Places(n), T, f, rank)
  BY <1>1, <1>2 DEF Descends
<1> QED
  BY <1>1, <1>3, RankedTyping DEF Within

(* What one character of code makes of a place. *)
Onward(text, n, i, k) ==
  IF text[i] = Quote THEN <<AfterQuote(text, n)[i + 1], k>>
  ELSE <<i + 1, IF text[i] \in Openings THEN k + 1
                ELSE IF text[i] \in Closings /\ k > 0 THEN k - 1 ELSE k>>

(* Each step of the scan moves forward and gives a depth again. *)
LEMMA OnwardIs ==
  ASSUME NEW text, NEW n \in Nat, NEW i \in 1..n, NEW k \in Nat
  PROVE  Onward(text, n, i, k) \in Places(n) /\ Onward(text, n, i, k)[1] > i
<1> DEFINE A == AfterQuote(text, n)
<1>1. A[i + 1] \in i + 1..n + 1
  BY AfterQuoteIs
<1> HIDE DEF A
<1>2. CASE text[i] = Quote
  BY <1>1, <1>2 DEF Places, Onward, A
<1>3. CASE text[i] # Quote
  <2> DEFINE m == IF text[i] \in Openings THEN k + 1
                  ELSE IF text[i] \in Closings /\ k > 0 THEN k - 1 ELSE k
  <2>1. m \in Nat /\ i + 1 \in 1..n + 1 /\ i + 1 > i
    OBVIOUS
  <2>2. Onward(text, n, i, k) = <<i + 1, m>>
    BY <1>3 DEF Onward
  <2> HIDE DEF m
  <2> QED
    BY <2>1, <2>2 DEF Places
<1> QED
  BY <1>2, <1>3

(* The formatter's scan of a line, from each place in it and depth there. *)
DepthFrom(line, f, p) ==
  IF p[1] > Len(line) \/ line[p[1]] = Semicolon THEN p[2]
  ELSE IF line[p[1]] = Quote THEN f[<<AfterQuote(line, Len(line))[p[1] + 1], p[2]>>]
  ELSE IF line[p[1]] \in Openings THEN f[<<p[1] + 1, p[2] + 1>>]
  ELSE IF line[p[1]] \in Closings /\ p[2] > 0 THEN f[<<p[1] + 1, p[2] - 1>>]
  ELSE f[<<p[1] + 1, p[2]>>]
DepthScan(line) == CHOOSE f : f = [p \in Places(Len(line)) |-> DepthFrom(line, f, p)]

LEMMA DepthUnfold ==
  ASSUME NEW line, NEW n \in Nat, n = Len(line)
  PROVE  /\ \A d \in Nat : DepthAfter(d, line) = DepthScan(line)[<<1, d>>]
         /\ \A p \in Places(n) : DepthScan(line)[p] \in Nat
         /\ \A i \in 1..n + 1, k \in Nat :
              DepthScan(line)[<<i, k>>] = IF i > n \/ line[i] = Semicolon THEN k
                                          ELSE DepthScan(line)[Onward(line, n, i, k)]
<1> DEFINE stop == {p \in Places(n) : p[1] > n \/ line[p[1]] = Semicolon}
           onward(i, k) == Onward(line, n, i, k)
           next == [p \in Places(n) |-> IF p \in stop THEN p ELSE onward(p[1], p[2])]
           Rest(f, p) == DepthFrom(line, f, p)
           Is(f) == f = [p \in Places(n) |-> Rest(f, p)]
<1>1. ASSUME NEW i \in 1..n, NEW k \in Nat
      PROVE  onward(i, k) \in Places(n) /\ onward(i, k)[1] > i
  BY OnwardIs
<1>2. Forward(n, stop, next)
  <2> HIDE DEF onward
  <2>1. ASSUME NEW p \in Places(n), p \notin stop
        PROVE  next[p] \in Places(n) /\ next[p][1] > p[1]
    <3>1. PICK i \in 1..n, k \in Nat : p = <<i, k>>
      <4>1. PICK i \in 1..n + 1, k \in Nat : p = <<i, k>>
        BY DEF Places
      <4>2. ~(i > n)
        BY <2>1, <4>1
      <4> QED
        BY <4>1, <4>2
    <3>2. next[p] = onward(i, k)
      BY <2>1, <3>1
    <3> HIDE DEF next
    <3> QED
      BY <1>1, <3>1, <3>2
  <2>2. next \in [Places(n) -> Places(n)]
    <3>1. \A p \in Places(n) : next[p] \in Places(n)
      <4> HIDE DEF stop
      <4>1. ASSUME NEW p \in Places(n), p \in stop PROVE next[p] \in Places(n)
        BY <4>1
      <4> HIDE DEF next
      <4> QED
        BY <2>1, <4>1
    <3> QED
      BY <3>1
  <2> HIDE DEF stop, next
  <2> QED
    BY <2>1, <2>2 DEF Forward
<1>3. PICK f : Scanner(f, n, stop, next) /\ f \in [Places(n) -> Nat]
  <2> HIDE DEF stop, next
  <2> QED
    BY <1>2, ScannerExists
<1>4. ASSUME NEW g, NEW p \in Places(n)
      PROVE  Rest(g, p) = IF p \in stop THEN p[2] ELSE g[next[p]]
  BY DEF Onward, DepthFrom
<1>5. Is(f)
  <2> HIDE DEF stop, next, Rest
  <2> QED
    BY <1>3, <1>4 DEF Scanner
<1> DEFINE scan == DepthScan(line)
<1>6. \A d \in Nat : DepthAfter(d, line) = scan[<<1, d>>]
  BY DEF DepthAfter, DepthScan, DepthFrom, Places
<1>7. Is(scan)
  <2>1. scan = CHOOSE g : Is(g)
    BY DEF DepthScan
  <2> HIDE DEF Is
  <2> QED
    BY <1>5, <2>1
<1> HIDE DEF scan
<1>8. Scanner(scan, n, stop, next)
  <2> HIDE DEF stop, next, Rest
  <2> QED
    BY <1>4, <1>7 DEF Scanner
<1>9. \A p \in Places(n) : scan[p] \in Nat
  <2> HIDE DEF stop, next
  <2> QED
    BY <1>2, <1>8, ScannerGivesDepth
<1>10. ASSUME NEW i \in 1..n + 1, NEW k \in Nat
       PROVE  scan[<<i, k>>] = IF i > n \/ line[i] = Semicolon THEN k ELSE scan[onward(i, k)]
  <2> DEFINE p == <<i, k>>
  <2>1. p \in Places(n) /\ p[1] = i /\ p[2] = k
    BY DEF Places
  <2>2. p \in stop <=> (i > n \/ line[i] = Semicolon)
    BY <2>1
  <2>3. p \notin stop => next[p] = onward(i, k)
    BY <2>1
  <2> HIDE DEF p, stop, next, onward
  <2>4. scan[p] = IF p \in stop THEN p[2] ELSE scan[next[p]]
    BY <1>8, <2>1 DEF Scanner
  <2>5. scan[p] = IF i > n \/ line[i] = Semicolon THEN k ELSE scan[onward(i, k)]
    BY <2>1, <2>2, <2>3, <2>4
  <2> QED
    BY <2>5 DEF p
<1> QED
  BY <1>6, <1>9, <1>10 DEF scan

(* It gives a depth, ... *)
LEMMA DepthAfterIs ==
  ASSUME NEW line, NEW n \in Nat, n = Len(line), NEW d \in Nat
  PROVE  DepthAfter(d, line) \in Nat
<1>1. <<1, d>> \in Places(n)
  BY DEF Places
<1>2. \A p \in Places(n) : DepthScan(line)[p] \in Nat
  BY DepthUnfold
<1>3. DepthAfter(d, line) = DepthScan(line)[<<1, d>>]
  BY DepthUnfold
<1> QED
  BY <1>1, <1>2, <1>3

(* A text is cut into lines, ... *)
LEMMA LineStopIs ==
  ASSUME NEW s, NEW n \in Nat, n = Len(s), NEW i \in 1..n + 1
  PROVE  LineStop(s, i) \in i..n + 1
<1> DEFINE stops == {j \in i..n : ~(s[j] # "\n")}
<1>1. LineStop(s, i) = EndOf(stops, n)
  BY DEF LineStop, EndOfRun, EndOf
<1>2. stops \in SUBSET (i..n)
  OBVIOUS
<1> HIDE DEF stops
<1> QED
  BY <1>1, <1>2, EndOfIs

(* A line is a text. *)
LEMMA OneLine ==
  ASSUME NEW C, NEW s \in Seq(C), NEW i \in 1..Len(s) + 1
  PROVE  <<SubSeq(s, i, LineStop(s, i) - 1)>> \in Seq(Seq(C))
<1> DEFINE n == Len(s)
           stop == LineStop(s, i)
<1>1. n \in Nat
  BY LenProperties
<1>2. stop \in i..n + 1
  <2> HIDE DEF stop
  <2> QED
    BY <1>1, LineStopIs DEF stop
<1> HIDE DEF stop
<1>3. i - 1 \in 0..n /\ stop - 1 \in i - 1..n /\ (i - 1) + 1 = i
  BY <1>1, <1>2
<1>4. SubSeq(s, i, stop - 1) \in Seq(C)
  BY <1>3, SubSeqIs
<1> DEFINE line == SubSeq(s, i, stop - 1)
<1> HIDE DEF line
<1>5. <<line>> \in Seq(Seq(C))
  BY <1>4 DEF line
<1> QED
  BY <1>5 DEF line, stop

(* The lines from place i on, given those from later places on. *)
LinesAfter(s, f, i) ==
  Cat(<<SubSeq(s, i, LineStop(s, i) - 1)>>,
      IF LineStop(s, i) > Len(s) THEN <<>> ELSE f[LineStop(s, i) + 1])
LinesFrom(s) == CHOOSE f : f = [i \in 1..Len(s) + 1 |-> LinesAfter(s, f, i)]

LEMMA LinesUnfold ==
  ASSUME NEW C, NEW s \in Seq(C)
  PROVE  /\ LinesOf(s) = LinesFrom(s)[1]
         /\ LinesFrom(s) \in [1..Len(s) + 1 -> Seq(Seq(C))]
         /\ \A i \in 1..Len(s) + 1 : LinesFrom(s)[i] = LinesAfter(s, LinesFrom(s), i)
<1> DEFINE n == Len(s)
           X == 1..n + 1
           S == Seq(Seq(C))
           ends(i) == LineStop(s, i) > n
           piece(i) == <<SubSeq(s, i, LineStop(s, i) - 1)>>
           Rest(f, i) == Cat(piece(i), IF ends(i) THEN <<>> ELSE f[LineStop(s, i) + 1])
           Is(f) == f = [i \in X |-> Rest(f, i)]
           stop == {i \in X : ends(i)}
           base == [i \in X |-> Cat(piece(i), <<>>)]
           step == [p \in X \X S |-> Cat(piece(p[1]), p[2])]
           next == [i \in X |-> IF ends(i) THEN i ELSE LineStop(s, i) + 1]
           rank == [i \in X |-> n + 1 - i]
<1>1. n \in Nat /\ \A i \in X : LineStop(s, i) \in i..n + 1
  BY LineStopIs, LenProperties
<1>2. \A i \in X : piece(i) \in S
  BY OneLine
<1>3. <<>> \in S
  BY EmptySeq
<1> HIDE DEF n, S, piece
<1>4. \A i \in X : \A v \in S : Cat(piece(i), v) \in S
  <2> SUFFICES ASSUME NEW i \in X, NEW v \in S PROVE Cat(piece(i), v) \in S
    OBVIOUS
  <2>1. piece(i) \in S
    BY <1>2
  <2> QED
    BY <2>1, CatIsSeq DEF S
<1>5. base \in [X -> S]
  <2>1. \A i \in X : Cat(piece(i), <<>>) \in S
    BY <1>3, <1>4
  <2> HIDE DEF X
  <2> QED
    BY <2>1
<1>6. step \in [X \X S -> S] /\ \A i \in X : \A v \in S : step[<<i, v>>] = Cat(piece(i), v)
  <2> HIDE DEF X
  <2> QED
    BY <1>4
<1>7. /\ next \in [X -> X] /\ rank \in [X -> Nat] /\ \A i \in X : rank[i] <= n
      /\ \A i \in X \ stop : rank[next[i]] < rank[i]
  <2>1. ASSUME NEW i \in X, ~ends(i)
        PROVE  next[i] \in X /\ next[i] > i
    BY <1>1, <2>1
  <2>2. \A i \in X : ends(i) => next[i] = i
    OBVIOUS
  <2>3. \A i \in X : rank[i] = n + 1 - i /\ rank[i] \in Nat /\ rank[i] <= n
    BY <1>1
  <2>4. next \in [X -> X]
    <3>1. \A i \in X : next[i] \in X
      <4> HIDE DEF next, ends
      <4> QED
        BY <2>1, <2>2
    <3> HIDE DEF ends, X
    <3> QED
      BY <3>1
  <2>5. \A i \in X \ stop : rank[next[i]] < rank[i]
    <3> SUFFICES ASSUME NEW i \in X, ~ends(i) PROVE rank[next[i]] < rank[i]
      OBVIOUS
    <3> HIDE DEF next, rank, ends
    <3>1. PICK j \in X : j = next[i] /\ j > i
      BY <2>1
    <3>2. rank[i] = n + 1 - i /\ rank[j] = n + 1 - j
      BY <2>3
    <3> QED
      BY <1>1, <3>1, <3>2
  <2>6. rank \in [X -> Nat]
    BY <1>1
  <2> QED
    BY <2>3, <2>4, <2>5, <2>6
<1>8. Unfoldings(X, S, stop, base, step, next) # {}
  <2> HIDE DEF X, stop, base, step, next, rank
  <2> QED
    BY <1>1, <1>5, <1>6, <1>7, RankedRecursion
<1>9. PICK f \in [X -> S] :
         \A i \in X : f[i] = IF i \in stop THEN base[i] ELSE step[<<i, f[next[i]]>>]
  <2> HIDE DEF X, stop, base, step, next
  <2> QED
    BY <1>8 DEF Unfoldings
<1>10. ASSUME NEW i \in X PROVE f[i] = Rest(f, i)
  <2>1. CASE ends(i)
    <3>1. f[i] = base[i]
      BY <1>9, <2>1
    <3> QED
      BY <2>1, <3>1
  <2>2. CASE ~ends(i)
    <3>1. f[i] = step[<<i, f[next[i]]>>] /\ next[i] = LineStop(s, i) + 1 /\ next[i] \in X
      BY <1>7, <1>9, <2>2
    <3>2. f[next[i]] \in S
      BY <1>9, <3>1
    <3>3. f[i] = Cat(piece(i), f[LineStop(s, i) + 1])
      <4> HIDE DEF step, next
      <4> QED
        BY <1>6, <3>1, <3>2
    <3> QED
      BY <2>2, <3>3
  <2> QED
    BY <2>1, <2>2
<1>11. Is(f)
  <2> HIDE DEF X, Rest
  <2> QED
    BY <1>9, <1>10
<1>0. ASSUME NEW g, NEW i PROVE Rest(g, i) = LinesAfter(s, g, i)
  BY DEF LinesAfter, n, piece
<1> DEFINE from == LinesFrom(s)
<1>12. LinesOf(s) = from[1]
  BY DEF LinesOf, LinesFrom, LinesAfter, Cat
<1>13. Is(from)
  <2>1. from = CHOOSE g : Is(g)
    BY DEF LinesFrom, LinesAfter, n, piece
  <2> HIDE DEF Is
  <2> QED
    BY <1>11, <2>1
<1> HIDE DEF from
<1>14. \A i \in X : from[i] = Rest(from, i)
  <2> HIDE DEF X, Rest
  <2> QED
    BY <1>13
<1> DEFINE T == [i \in X |-> S]
<1>15. ASSUME NEW i \in X, \A j \in X : rank[j] < rank[i] => from[j] \in T[j]
       PROVE  from[i] \in T[i]
  <2>1. CASE ends(i)
    <3>1. Rest(from, i) = Cat(piece(i), <<>>)
      BY <2>1
    <3> QED
      BY <1>3, <1>4, <1>14, <3>1
  <2>2. CASE ~ends(i)
    <3>1. PICK j \in X : j = LineStop(s, i) + 1 /\ rank[j] < rank[i]
      BY <1>1, <2>2
    <3>2. from[j] \in S
      BY <1>15, <3>1
    <3>3. Rest(from, i) = Cat(piece(i), from[j])
      BY <2>2, <3>1
    <3> HIDE DEF Rest, T, rank
    <3>4. from[i] \in S
      BY <1>4, <1>14, <3>2, <3>3
    <3> QED
      BY <3>4 DEF T
  <2> QED
    BY <2>1, <2>2
<1>16. Within(X, T, from)
  <2>1. Descends(X, T, from, rank)
    <3> HIDE DEF X, T, rank
    <3> QED
      BY <1>7, <1>15 DEF Descends
  <2> HIDE DEF X, T, rank
  <2> QED
    BY <2>1, RankedTyping
<1>17. 1 \in X
  BY <1>1
<1>18. \A i \in X : from[i] \in S
  BY <1>16 DEF Within
<1>19. from \in [X -> S]
  <2> HIDE DEF X, Rest
  <2> QED
    BY <1>13, <1>14, <1>18
<1>20. \A i \in X : from[i] = LinesAfter(s, from, i)
  <2> HIDE DEF Rest
  <2> QED
    BY <1>0, <1>14
<1> QED
  BY <1>12, <1>19, <1>20 DEF S, n, from

(* A text is split into texts. *)
LEMMA LinesOfIs ==
  ASSUME NEW C, NEW s \in Seq(C)
  PROVE  LinesOf(s) \in Seq(Seq(C))
<1>1. 1 \in 1..Len(s) + 1
  BY LenProperties
<1> QED
  BY <1>1, LinesUnfold

(* ... each line trimmed, ... *)
LEMMA TrimmedIs ==
  ASSUME NEW C, NEW line \in Seq(C)
  PROVE  Trimmed(line) \in Seq(C)
<1> DEFINE n == Len(line)
           stops == {j \in 1..n : line[j] \notin Blanks}
           from == EndOf(stops, n)
           ink == {i \in from..n : line[i] \notin Blanks \cup {"\r"}}
<1>1. n \in Nat
  BY LenProperties
<1>2. from \in 1..n + 1
  <2>1. stops \in SUBSET (1..n) /\ 1 \in 1..n + 1
    BY <1>1
  <2> HIDE DEF stops
  <2> QED
    BY <1>1, <2>1, EndOfIs
<1>3. Trimmed(line) = IF ink = {} THEN <<>> ELSE SubSeq(line, from, Max(ink))
  BY DEF Trimmed, EndOfRun, EndOf
<1> HIDE DEF from
<1>4. CASE ink = {}
  BY <1>3, <1>4, EmptySeq
<1>5. CASE ink # {}
  <2>1. ink \in SUBSET (0..n) /\ ink \subseteq from..n
    BY <1>1, <1>2
  <2>2. Max(ink) \in ink
    <3> HIDE DEF ink
    <3> QED
      BY <1>1, <1>5, <2>1, MaxIsGreatest
  <2>3. Max(ink) \in from..n
    BY <2>1, <2>2
  <2> DEFINE last == Max(ink)
  <2> HIDE DEF last, ink
  <2>4. last \in from..n
    BY <2>3 DEF last
  <2>5. from - 1 \in 0..n /\ last \in from - 1..n /\ (from - 1) + 1 = from
    BY <1>1, <1>2, <2>4
  <2>6. SubSeq(line, from, last) \in Seq(C)
    BY <2>5, SubSeqIs DEF n
  <2> QED
    BY <1>3, <1>5, <2>6 DEF last
<1> QED
  BY <1>4, <1>5

(* A run of one character, as an indentation is. *)
LEMMA BlanksAre ==
  ASSUME NEW C, NEW c \in C, NEW k \in Nat
  PROVE  [i \in 1..k |-> c] \in Seq(C) /\ Len([i \in 1..k |-> c]) = k
OBVIOUS

(* The closers a line begins with are counted. *)
LEMMA LeadingClosersIs ==
  ASSUME NEW line, NEW n \in Nat, n = Len(line)
  PROVE  LeadingClosers(line) \in Nat
<1> DEFINE blanks == {j \in 1..n : line[j] \notin Blanks}
           from == EndOf(blanks, n)
           stops == {j \in from..n : line[j] \notin Closings}
<1>1. from \in 1..n + 1
  <2>1. blanks \in SUBSET (1..n) /\ 1 \in 1..n + 1
    OBVIOUS
  <2> HIDE DEF blanks
  <2> QED
    BY <2>1, EndOfIs
<1>2. LeadingClosers(line) = EndOf(stops, n) - from
  BY DEF LeadingClosers, EndOfRun, EndOf
<1> HIDE DEF from
<1>3. stops \in SUBSET (from..n)
  OBVIOUS
<1> HIDE DEF stops
<1>4. EndOf(stops, n) \in from..n + 1
  BY <1>1, <1>3, EndOfIs
<1> QED
  BY <1>1, <1>2, <1>4

(* ... indented by the depth before it, and cut where the output is full. *)
LEMMA IndentIs ==
  ASSUME NEW C, Space \in C, NEW d \in Nat, NEW line \in Seq(C)
  PROVE  Indent(d, line) \in Seq(C)
<1>1. LeadingClosers(line) \in Nat
  BY LeadingClosersIs, LenProperties
<1> DEFINE width == 2 * Max({0, d - LeadingClosers(line)})
<1>2. width \in Nat
  <2> DEFINE k == d - LeadingClosers(line)
  <2>1. k \in Int
    BY <1>1
  <2> HIDE DEF k
  <2>2. Max({0, k}) \in Nat
    BY <2>1, MaxOfTwo
  <2> QED
    BY <2>2 DEF k
<1>3. Indent(d, line) = [i \in 1..width |-> Space]
  BY DEF Indent
<1> HIDE DEF width
<1> QED
  BY <1>2, <1>3, BlanksAre

(* Output cut at the end of its buffer is still a text. *)
LEMMA EmitIs ==
  ASSUME NEW C, NEW out \in Seq(C), NEW text \in Seq(C), NEW cap \in Nat
  PROVE  Emit(out, text, cap) \in Seq(C)
<1> DEFINE all == Cat(out, text)
           cut == Min({Len(all), Max({Len(out), cap})})
<1>1. all \in Seq(C)
  BY CatIsSeq
<1>2. Emit(out, text, cap) = IF Len(all) + 2 > cap THEN SubSeq(all, 1, cut) ELSE all
  BY DEF Emit, Cat
<1> HIDE DEF all
<1>3. Len(all) \in Nat /\ Len(out) \in Nat
  BY <1>1, LenProperties
<1>4. cut \in 0..Len(all)
  <2> DEFINE room == Max({Len(out), cap})
  <2>1. room \in Nat
    BY <1>3, MaxOfTwo
  <2> HIDE DEF room
  <2>2. Min({Len(all), room}) \in 0..Len(all)
    BY <1>3, <2>1, MinOfTwo
  <2> QED
    BY <2>2 DEF room
<1> HIDE DEF cut
<1>5. SubSeq(all, 1, cut) \in Seq(C)
  BY <1>1, <1>4, PrefixIs
<1> QED
  BY <1>1, <1>2, <1>5

(* A formatted line leaves a depth and a text. *)
LEMMA FormatLineIs ==
  ASSUME NEW C, Space \in C, "\n" \in C, NEW d \in Nat, NEW out \in Seq(C),
         NEW line \in Seq(C), NEW last, NEW cap \in Nat
  PROVE  FormatLine([depth |-> d, out |-> out], line, last, cap) \in [depth : Nat, out : Seq(C)]
<1> DEFINE acc == [depth |-> d, out |-> out]
           content == Trimmed(line)
           whole == Cat(Indent(d, line), content)
           shown == IF content = <<>> THEN out ELSE Emit(out, whole, cap)
           newline == ~last \/ (content # <<>> /\ (shown = <<>> \/ Last(shown) # "\n"))
<1>1. content \in Seq(C)
  BY TrimmedIs
<1>2. shown \in Seq(C)
  <2> HIDE DEF content
  <2>1. whole \in Seq(C)
    BY <1>1, IndentIs, CatIsSeq
  <2> HIDE DEF whole
  <2>2. Emit(out, whole, cap) \in Seq(C)
    BY <2>1, EmitIs
  <2> QED
    BY <2>2
<1>3. acc.depth = d /\ acc.out = out
  OBVIOUS
<1>4. FormatLine(acc, line, last, cap) =
        [depth |-> DepthAfter(d, line), out |-> IF newline THEN Append(shown, "\n") ELSE shown]
  BY <1>3 DEF FormatLine, Cat
<1>5. DepthAfter(d, line) \in Nat
  BY DepthAfterIs, LenProperties
<1> HIDE DEF shown, newline
<1>6. Append(shown, "\n") \in Seq(C)
  BY <1>2, AppendProperties
<1> DEFINE depth == DepthAfter(d, line)
           text == IF newline THEN Append(shown, "\n") ELSE shown
<1>7. text \in Seq(C)
  BY <1>2, <1>6
<1> HIDE DEF acc, depth, text
<1>8. FormatLine(acc, line, last, cap) = [depth |-> depth, out |-> text] /\ depth \in Nat
  BY <1>4, <1>5 DEF depth, text
<1> QED
  BY <1>7, <1>8 DEF acc

(* The formatter's passes, one per line. *)
LEMMA PassesAre ==
  ASSUME NEW C, Space \in C, "\n" \in C, NEW s \in Seq(C)
  PROVE  /\ Passes(s)[0] = [depth |-> 0, out |-> <<>>]
         /\ \A k \in 0..Len(LinesOf(s)) : Passes(s)[k] \in [depth : Nat, out : Seq(C)]
         /\ \A k \in 1..Len(LinesOf(s)) :
              Passes(s)[k] = FormatLine(Passes(s)[k - 1], LinesOf(s)[k], k = Len(LinesOf(s)),
                                        2 * Len(s) + OutSlack)
<1> DEFINE lines == LinesOf(s)
           n == Len(lines)
           cap == 2 * Len(s) + OutSlack
           X == 0..n
           S == [depth : Nat, out : Seq(C)]
           start == [depth |-> 0, out |-> <<>>]
           line(acc, k) == FormatLine(acc, lines[k], k = n, cap)
           Rest(f, k) == IF k = 0 THEN start ELSE line(f[k - 1], k)
           Is(f) == f = [k \in X |-> Rest(f, k)]
           stop == {0}
           base == [k \in X |-> start]
           step == [p \in X \X S |-> IF p[1] = 0 THEN start ELSE line(p[2], p[1])]
           next == [k \in X |-> IF k = 0 THEN 0 ELSE k - 1]
           rank == [k \in X |-> k]
<1>1. lines \in Seq(Seq(C)) /\ n \in Nat
  BY LinesOfIs, LenProperties
<1>2. cap \in Nat
  BY LenProperties, FmtAssumption
<1>3. start \in S
  BY EmptySeq
<1> HIDE DEF lines, n, cap, start
<1>4. ASSUME NEW acc \in S, NEW k \in X, k # 0 PROVE line(acc, k) \in S
  <2>1. acc = [depth |-> acc.depth, out |-> acc.out] /\ acc.depth \in Nat /\ acc.out \in Seq(C)
    OBVIOUS
  <2>2. lines[k] \in Seq(C)
    <3>1. k \in 1..Len(lines)
      BY <1>1, <1>4 DEF n
    <3> QED
      BY <1>1, <3>1, ElementOfSeq
  <2> DEFINE b == k = n
             d == acc.depth
             out == acc.out
             l == lines[k]
  <2> HIDE DEF b, d, out, l
  <2>3. FormatLine([depth |-> d, out |-> out], l, b, cap) \in S
    BY <1>2, <2>1, <2>2, FormatLineIs DEF d, out, l
  <2> QED
    BY <2>1, <2>3 DEF b, d, out, l
<1> HIDE DEF S, line
<1>5. base \in [X -> S] /\ next \in [X -> X] /\ rank \in [X -> Nat]
  BY <1>1, <1>3
<1>6. (\A k \in X : rank[k] <= n) /\ (\A k \in X \ stop : rank[next[k]] < rank[k])
  BY <1>1
<1>7. step \in [X \X S -> S]
  <2> SUFFICES ASSUME NEW p \in X \X S
               PROVE  (IF p[1] = 0 THEN start ELSE line(p[2], p[1])) \in S
    OBVIOUS
  <2>1. p[1] \in X /\ p[2] \in S
    OBVIOUS
  <2> HIDE DEF X
  <2> QED
    BY <1>3, <1>4, <2>1
<1>8. Unfoldings(X, S, stop, base, step, next) # {}
  <2> HIDE DEF X, stop, base, step, next, rank
  <2> QED
    BY <1>1, <1>5, <1>6, <1>7, RankedRecursion
<1>9. PICK f \in [X -> S] :
         \A k \in X : f[k] = IF k \in stop THEN base[k] ELSE step[<<k, f[next[k]]>>]
  <2> HIDE DEF X, stop, base, step, next
  <2> QED
    BY <1>8 DEF Unfoldings
<1>10. ASSUME NEW k \in X PROVE f[k] = Rest(f, k)
  <2>1. CASE k = 0
    <3>1. f[k] = base[k]
      BY <1>9, <2>1
    <3> QED
      BY <2>1, <3>1
  <2>2. CASE k # 0
    <3>0. next[k] = k - 1 /\ next[k] \in X
      BY <1>1, <2>2
    <3>1. f[k] = step[<<k, f[next[k]]>>] /\ next[k] = k - 1 /\ next[k] \in X
      <4> HIDE DEF step, next, X
      <4> QED
        BY <1>9, <2>2, <3>0
    <3>2. f[k - 1] \in S
      BY <1>9, <3>1
    <3> HIDE DEF next
    <3>3. step[<<k, f[k - 1]>>] = line(f[k - 1], k)
      BY <2>2, <3>2
    <3> QED
      BY <2>2, <3>1, <3>3
  <2> QED
    BY <2>1, <2>2
<1>11. Is(f)
  <2> HIDE DEF X, Rest
  <2> QED
    BY <1>9, <1>10
<1> DEFINE after == Passes(s)
<1>12. after = CHOOSE g : Is(g)
  BY DEF Passes, lines, n, cap, start, line
<1>13. Is(after)
  <2> HIDE DEF Is
  <2> QED
    BY <1>11, <1>12
<1> HIDE DEF after
<1>14. \A k \in X : after[k] = Rest(after, k)
  <2> HIDE DEF X, Rest
  <2> QED
    BY <1>13
<1> DEFINE T == [k \in X |-> S]
<1>15. ASSUME NEW k \in X, \A j \in X : rank[j] < rank[k] => after[j] \in T[j]
       PROVE  after[k] \in T[k]
  <2>1. CASE k = 0
    BY <1>3, <1>14, <2>1
  <2>2. CASE k # 0
    <3>1. k - 1 \in X /\ rank[k - 1] < rank[k]
      BY <1>1, <2>2
    <3>2. after[k - 1] \in S
      BY <1>15, <3>1
    <3>3. line(after[k - 1], k) \in S
      BY <1>4, <2>2, <3>2
    <3>4. after[k] \in S
      BY <1>14, <2>2, <3>3
    <3> QED
      BY <3>4
  <2> QED
    BY <2>1, <2>2
<1>16. Within(X, T, after)
  <2>1. Descends(X, T, after, rank)
    <3> HIDE DEF X, T, rank
    <3> QED
      BY <1>5, <1>15 DEF Descends
  <2> HIDE DEF X, T, rank
  <2> QED
    BY <2>1, RankedTyping
<1>17. \A k \in X : after[k] \in S
  BY <1>16 DEF Within
<1>18. after[0] = start
  BY <1>1, <1>14
<1>19. \A k \in 1..n : after[k] = line(after[k - 1], k)
  <2>1. \A k \in 1..n : k \in X /\ k # 0
    BY <1>1
  <2> QED
    BY <1>14, <2>1
<1> QED
  BY <1>17, <1>18, <1>19 DEF S, start, line, lines, n, cap, after

(* The formatter makes up no characters but spaces and newlines. *)
LEMMA FormatIs ==
  ASSUME NEW C, Space \in C, "\n" \in C, NEW s \in Seq(C)
  PROVE  Format(s) \in Seq(C)
<1>1. Len(LinesOf(s)) \in 0..Len(LinesOf(s))
  BY LinesOfIs, LenProperties
<1>2. Passes(s)[Len(LinesOf(s))] \in [depth : Nat, out : Seq(C)]
  BY <1>1, PassesAre
<1> QED
  BY <1>2 DEF Format

-----------------------------------------------------------------------------
(* Sequences.                                                              *)

(* Two sequences are the same when they are so element by element. *)
LEMMA SameElements ==
  ASSUME NEW S, NEW s \in Seq(S), NEW t \in Seq(S), Len(s) = Len(t),
         \A i \in 1..Len(s) : s[i] = t[i]
  PROVE  s = t
BY SeqEqual

(* The elements of a concatenation, one at a time. *)
LEMMA CatFirst ==
  ASSUME NEW S, NEW s \in Seq(S), NEW t \in Seq(S), NEW i \in 1..Len(s)
  PROVE  Cat(s, t)[i] = s[i]
BY CatElements

LEMMA CatSecond ==
  ASSUME NEW S, NEW s \in Seq(S), NEW t \in Seq(S), NEW i \in 1..Len(t)
  PROVE  Cat(s, t)[Len(s) + i] = t[i]
BY CatElements

(* A sequence and what follows its first element. *)
LEMMA ConsIs ==
  ASSUME NEW S, NEW x \in S, NEW r \in Seq(S)
  PROVE  /\ Cat(<<x>>, r) \in Seq(S) /\ Len(Cat(<<x>>, r)) = Len(r) + 1
         /\ Cat(<<x>>, r)[1] = x
         /\ \A i \in 1..Len(r) : Cat(<<x>>, r)[i + 1] = r[i]
<1> DEFINE one == <<x>>
<1>1. one \in Seq(S) /\ Len(one) = 1 /\ one[1] = x
  OBVIOUS
<1> HIDE DEF one
<1>2. Cat(one, r) \in Seq(S) /\ Len(Cat(one, r)) = 1 + Len(r)
  BY <1>1, CatIsSeq, CatLength
<1>3. \A i \in 1..Len(one) : Cat(one, r)[i] = one[i]
  BY <1>1, CatElements
<1>4. \A i \in 1..Len(r) : Cat(one, r)[Len(one) + i] = r[i]
  BY <1>1, CatSecond
<1>5. 1 \in 1..1 /\ Len(r) \in Nat /\ \A i \in 1..Len(r) : 1 + i = i + 1
  BY LenProperties
<1>6. /\ Cat(one, r) \in Seq(S) /\ Len(Cat(one, r)) = Len(r) + 1
      /\ Cat(one, r)[1] = x
      /\ \A i \in 1..Len(r) : Cat(one, r)[i + 1] = r[i]
  BY <1>1, <1>2, <1>3, <1>4, <1>5
<1> QED
  BY <1>6 DEF one

(* The same as one fact. *)
Consed(S, x, r, c) ==
  /\ c \in Seq(S) /\ Len(c) = Len(r) + 1 /\ c[1] = x
  /\ \A i \in 1..Len(r) : c[i + 1] = r[i]

LEMMA ConsIsConsed ==
  ASSUME NEW S, NEW x \in S, NEW r \in Seq(S)
  PROVE  Consed(S, x, r, Cat(<<x>>, r))
<1> DEFINE c == Cat(<<x>>, r)
<1>1. /\ c \in Seq(S) /\ Len(c) = Len(r) + 1 /\ c[1] = x
      /\ \A i \in 1..Len(r) : c[i + 1] = r[i]
  BY ConsIs
<1> HIDE DEF c
<1>2. Consed(S, x, r, c)
  BY <1>1 DEF Consed
<1> QED
  BY <1>2 DEF c

(* What a suffix of a sequence begins with, and the suffix after that. *)
Suffix(s, m) == SubSeq(s, m + 1, Len(s))

LEMMA SuffixIs ==
  ASSUME NEW S, NEW s \in Seq(S), NEW m \in 0..Len(s)
  PROVE  /\ Suffix(s, m) \in Seq(S) /\ Len(Suffix(s, m)) = Len(s) - m
         /\ \A i \in 1..Len(s) - m : Suffix(s, m)[i] = s[m + i]
<1>1. Len(s) \in Nat
  BY LenProperties
<1>2. Len(s) \in m..Len(s)
  BY <1>1
<1> QED
  BY <1>2, SubSeqIs DEF Suffix

LEMMA SuffixAdvances ==
  ASSUME NEW S, NEW s \in Seq(S), NEW m \in 0..Len(s), NEW x \in S, NEW r \in Seq(S),
         Suffix(s, m) = Cat(<<x>>, r)
  PROVE  m + 1 \in 1..Len(s) /\ s[m + 1] = x /\ Suffix(s, m + 1) = r
<1>1. Len(s) \in Nat /\ Len(r) \in Nat
  BY LenProperties
<1>2. Len(s) - m = Len(r) + 1
  <2>1. Len(Suffix(s, m)) = Len(s) - m
    BY SuffixIs
  <2>2. Len(Cat(<<x>>, r)) = Len(r) + 1
    BY ConsIs
  <2> QED
    BY <2>1, <2>2
<1>3. m + 1 \in 1..Len(s) /\ m + 1 \in 0..Len(s)
  BY <1>1, <1>2
<1>4. s[m + 1] = x
  <2>1. 1 \in 1..Len(s) - m
    BY <1>1, <1>3
  <2>2. Suffix(s, m)[1] = s[m + 1]
    BY <2>1, SuffixIs
  <2>3. Cat(<<x>>, r)[1] = x
    BY ConsIs
  <2> QED
    BY <2>2, <2>3
<1>5. /\ Suffix(s, m + 1) \in Seq(S) /\ Len(Suffix(s, m + 1)) = Len(s) - (m + 1)
      /\ \A i \in 1..Len(s) - (m + 1) : Suffix(s, m + 1)[i] = s[m + 1 + i]
  BY <1>3, SuffixIs
<1>6. Len(Suffix(s, m + 1)) = Len(r)
  BY <1>1, <1>2, <1>5
<1>7. \A i \in 1..Len(r) : s[m + (i + 1)] = r[i]
  <2> SUFFICES ASSUME NEW i \in 1..Len(r) PROVE s[m + (i + 1)] = r[i]
    OBVIOUS
  <2>1. i + 1 \in 1..Len(s) - m
    BY <1>1, <1>2
  <2>2. Suffix(s, m)[i + 1] = s[m + (i + 1)]
    BY <2>1, SuffixIs
  <2>3. Cat(<<x>>, r)[i + 1] = r[i]
    BY ConsIs
  <2> QED
    BY <2>2, <2>3
<1>8. \A i \in 1..Len(r) : Suffix(s, m + 1)[i] = r[i]
  <2> SUFFICES ASSUME NEW i \in 1..Len(r) PROVE Suffix(s, m + 1)[i] = r[i]
    OBVIOUS
  <2>1. i \in 1..Len(s) - (m + 1) /\ m + 1 + i = m + (i + 1)
    BY <1>1, <1>2
  <2> QED
    BY <1>5, <1>7, <2>1
<1>9. Suffix(s, m + 1) = r
  BY <1>5, <1>6, <1>8, SameElements
<1> QED
  BY <1>3, <1>4, <1>9

-----------------------------------------------------------------------------
(* The brackets of a sequence of tokens.                                   *)
Bracket == Openings \cup Closings

(* What the brackets from place i on are. *)
BracketsAt(ts, f, i) ==
  IF i > Len(ts) THEN <<>>
  ELSE IF ts[i].kind \in Bracket THEN Cat(<<ts[i].kind>>, f[i + 1]) ELSE f[i + 1]

(* The recursion that collects them has a solution. *)
LEMMA BracketsExist ==
  ASSUME NEW ts, Len(ts) \in Nat
  PROVE  \E f \in [1..Len(ts) + 1 -> Seq(Bracket)] :
           \A i \in 1..Len(ts) + 1 : f[i] = BracketsAt(ts, f, i)
<1> DEFINE n == Len(ts)
           X == 1..n + 1
           S == Seq(Bracket)
           stop == {n + 1}
           base == [i \in X |-> <<>>]
           push(i, v) == IF ts[i].kind \in Bracket THEN Cat(<<ts[i].kind>>, v) ELSE v
           step == [p \in X \X S |-> push(p[1], p[2])]
           next == [i \in X |-> IF i > n THEN i ELSE i + 1]
           rank == [i \in X |-> n + 1 - i]
<1>1. <<>> \in S
  BY EmptySeq
<1>2. ASSUME NEW i \in X, NEW v \in S PROVE push(i, v) \in S
  <2>1. CASE ts[i].kind \in Bracket
    <3>1. <<ts[i].kind>> \in S
      BY <2>1
    <3>2. Cat(<<ts[i].kind>>, v) \in S
      BY <3>1, CatIsSeq
    <3> QED
      BY <2>1, <3>2
  <2> QED
    BY <2>1
<1> HIDE DEF S, push
<1>3. base \in [X -> S]
  BY <1>1
<1>4. step \in [X \X S -> S] /\ \A i \in X, v \in S : step[<<i, v>>] = push(i, v)
  <2> HIDE DEF X
  <2> QED
    BY <1>2
<1>5. /\ next \in [X -> X] /\ rank \in [X -> Nat] /\ \A i \in X : rank[i] <= n
      /\ \A i \in X \ stop : rank[next[i]] < rank[i] /\ next[i] = i + 1 /\ i + 1 \in X
  OBVIOUS
<1>6. PICK f \in [X -> S] :
         \A i \in X : f[i] = IF i \in stop THEN base[i] ELSE step[<<i, f[next[i]]>>]
  <2> HIDE DEF X, stop, base, step, next, rank
  <2>1. Unfoldings(X, S, stop, base, step, next) # {}
    BY <1>3, <1>4, <1>5, RankedRecursion
  <2> QED
    BY <2>1 DEF Unfoldings
<1>7. ASSUME NEW i \in X PROVE f[i] = BracketsAt(ts, f, i)
  <2>1. CASE i = n + 1
    <3>1. f[i] = <<>>
      BY <1>6, <2>1
    <3> QED
      BY <2>1, <3>1 DEF BracketsAt
  <2>2. CASE i # n + 1
    <3>0. next[i] = i + 1 /\ i + 1 \in X /\ ~(i > n) /\ i \notin stop
      BY <2>2
    <3>1. f[i] = step[<<i, f[i + 1]>>] /\ f[i + 1] \in S /\ ~(i > n)
      <4> HIDE DEF next, step, X, stop, base
      <4> QED
        BY <1>6, <3>0
    <3> HIDE DEF step, X
    <3>2. f[i] = push(i, f[i + 1])
      BY <1>4, <3>1
    <3> QED
      BY <3>1, <3>2 DEF BracketsAt, push
  <2> QED
    BY <2>1, <2>2
<1> QED
  BY <1>6, <1>7 DEF S

(* The brackets are what its solution gives at the first place. *)
LEMMA BracketsUnfold ==
  ASSUME NEW ts, Len(ts) \in Nat
  PROVE  \E f \in [1..Len(ts) + 1 -> Seq(Bracket)] :
           /\ Brackets(ts) = f[1]
           /\ \A i \in 1..Len(ts) + 1 : f[i] = BracketsAt(ts, f, i)
<1> DEFINE X == 1..Len(ts) + 1
           Is(f) == f = [i \in X |-> BracketsAt(ts, f, i)]
           from == CHOOSE f : Is(f)
<1>1. PICK f \in [X -> Seq(Bracket)] : \A i \in X : f[i] = BracketsAt(ts, f, i)
  BY BracketsExist
<1>2. Is(f)
  BY <1>1
<1>3. Is(from)
  <2> HIDE DEF Is
  <2> QED
    BY <1>2
<1>4. Brackets(ts) = from[1]
  BY DEF Brackets, BracketsAt, Bracket, Cat
<1> HIDE DEF from
<1>5. \A i \in X : from[i] = BracketsAt(ts, from, i)
  BY <1>3
<1> DEFINE T == [i \in X |-> {f[i]}]
           rank == [i \in X |-> Len(ts) + 1 - i]
<1>6. /\ rank \in [X -> Nat]
      /\ \A i \in X : i > Len(ts) \/ (i + 1 \in X /\ rank[i + 1] < rank[i])
  OBVIOUS
<1>7. ASSUME NEW i \in X, \A j \in X : rank[j] < rank[i] => from[j] \in T[j]
      PROVE  from[i] \in T[i]
  <2>1. i > Len(ts) \/ from[i + 1] = f[i + 1]
    <3> HIDE DEF rank
    <3>1. ~(i > Len(ts)) => i + 1 \in X /\ from[i + 1] \in T[i + 1]
      BY <1>6, <1>7
    <3> QED
      BY <3>1
  <2>2. from[i] = f[i]
    BY <1>1, <1>5, <2>1 DEF BracketsAt
  <2> QED
    BY <2>2
<1>8. Within(X, T, from)
  <2>1. Descends(X, T, from, rank)
    <3> HIDE DEF X, T, rank
    <3> QED
      BY <1>6, <1>7 DEF Descends
  <2> HIDE DEF X, T, rank
  <2> QED
    BY <2>1, RankedTyping
<1>9. from[1] = f[1]
  BY <1>8 DEF Within
<1> QED
  BY <1>1, <1>4, <1>9

(* No tokens have no brackets; one token has one or none before the others'. *)
LEMMA BracketsOfNone == Brackets(<<>>) = <<>>
<1>1. Len(<<>>) = 0
  BY EmptySeq
<1> DEFINE none == <<>>
<1> HIDE DEF none
<1>2. Len(none) = 0 /\ Len(none) \in Nat
  BY <1>1 DEF none
<1>3. PICK f : /\ Brackets(none) = f[1]
               /\ \A i \in 1..Len(none) + 1 : f[i] = BracketsAt(none, f, i)
  BY <1>2, BracketsUnfold
<1>4. 1 \in 1..Len(none) + 1 /\ 1 > Len(none)
  BY <1>2
<1>5. Brackets(none) = <<>>
  BY <1>3, <1>4 DEF BracketsAt
<1> QED
  BY <1>5 DEF none

LEMMA BracketsAre ==
  ASSUME NEW ts, Len(ts) \in Nat
  PROVE  Brackets(ts) \in Seq(Bracket)
<1>1. PICK f \in [1..Len(ts) + 1 -> Seq(Bracket)] : Brackets(ts) = f[1]
  BY BracketsUnfold
<1>2. 1 \in 1..Len(ts) + 1
  OBVIOUS
<1> QED
  BY <1>1, <1>2

LEMMA BracketsOfCons ==
  ASSUME NEW S, NEW x \in S, NEW r \in Seq(S)
  PROVE  Brackets(Cat(<<x>>, r)) =
           IF x.kind \in Bracket THEN Cat(<<x.kind>>, Brackets(r)) ELSE Brackets(r)
<1> DEFINE ts == Cat(<<x>>, r)
           n == Len(r)
           X == 1..n + 1
<1>1. n \in Nat /\ Len(ts) = n + 1 /\ ts[1] = x /\ \A i \in 1..n : ts[i + 1] = r[i]
  BY ConsIs, LenProperties
<1> HIDE DEF ts
<1>2. PICK f : /\ Brackets(ts) = f[1]
               /\ \A i \in 1..Len(ts) + 1 : f[i] = BracketsAt(ts, f, i)
  BY <1>1, BracketsUnfold
<1>3. PICK g : Brackets(r) = g[1] /\ \A i \in X : g[i] = BracketsAt(r, g, i)
  BY <1>1, BracketsUnfold
<1> DEFINE h == [i \in X |-> f[i + 1]]
           T == [i \in X |-> {g[i]}]
           rank == [i \in X |-> n + 1 - i]
<1>4. /\ rank \in [X -> Nat]
      /\ \A i \in X : i > n \/ (i + 1 \in X /\ rank[i + 1] < rank[i])
  BY <1>1
<1>5. ASSUME NEW i \in X, \A j \in X : rank[j] < rank[i] => h[j] \in T[j]
      PROVE  h[i] \in T[i]
  <2>1. CASE i > n
    <3>1. i + 1 \in 1..Len(ts) + 1 /\ i + 1 > Len(ts)
      BY <1>1, <2>1
    <3>2. f[i + 1] = <<>> /\ g[i] = <<>>
      BY <1>2, <1>3, <2>1, <3>1 DEF BracketsAt
    <3> QED
      BY <3>2
  <2>2. CASE ~(i > n)
    <3>1. i + 1 \in X /\ h[i + 1] \in T[i + 1]
      <4> HIDE DEF h, T, rank
      <4> QED
        BY <1>4, <1>5, <2>2
    <3>2. f[(i + 1) + 1] = g[i + 1]
      BY <3>1
    <3>3. i + 1 \in 1..Len(ts) + 1 /\ ~(i + 1 > Len(ts)) /\ ts[i + 1] = r[i]
      BY <1>1, <2>2
    <3>4. f[i + 1] = BracketsAt(ts, f, i + 1) /\ g[i] = BracketsAt(r, g, i)
      BY <1>2, <1>3, <3>3
    <3>5. f[i + 1] = g[i]
      BY <2>2, <3>2, <3>3, <3>4 DEF BracketsAt
    <3> QED
      BY <3>5
  <2> QED
    BY <2>1, <2>2
<1>6. Within(X, T, h)
  <2>1. Descends(X, T, h, rank)
    <3> HIDE DEF X, T, rank, h
    <3> QED
      BY <1>4, <1>5 DEF Descends
  <2> HIDE DEF X, T, rank, h
  <2> QED
    BY <2>1, RankedTyping
<1>7. f[2] = Brackets(r)
  <2>1. 1 \in X /\ 1 + 1 = 2
    BY <1>1
  <2>2. h[1] \in T[1]
    BY <1>6, <2>1 DEF Within
  <2> QED
    BY <1>3, <2>1, <2>2
<1>8. 1 \in 1..Len(ts) + 1 /\ ~(1 > Len(ts)) /\ 1 + 1 = 2
  BY <1>1
<1>9. Brackets(ts) = BracketsAt(ts, f, 1)
  BY <1>2, <1>8
<1>10. Brackets(ts) = IF x.kind \in Bracket THEN Cat(<<x.kind>>, Brackets(r)) ELSE Brackets(r)
  BY <1>1, <1>7, <1>8, <1>9 DEF BracketsAt
<1> QED
  BY <1>10 DEF ts

-----------------------------------------------------------------------------
(* Cancelling pairs of brackets.                                           *)
LEMMA BracketsDiffer ==
  /\ Openings \cap Closings = {}
  /\ \A o \in Openings : Closers[o] \in Closings
  /\ Openings = {"(", "[", "{"} /\ Closings = {")", "]", "}"}
<1>1. Openings = {"(", "[", "{"}
  BY DEF Openings, Closers
<1>2. Closings = {Closers[o] : o \in {"(", "[", "{"}}
  BY <1>1 DEF Closings
<1>3. Closers["("] = ")" /\ Closers["["] = "]" /\ Closers["{"] = "}"
  BY DEF Closers
<1> QED
  BY <1>1, <1>2, <1>3

(* A sequence without its i-th element. *)
LEMMA RemoveAtIs ==
  ASSUME NEW S, NEW s \in Seq(S), NEW i \in 1..Len(s)
  PROVE  /\ RemoveAt(s, i) \in Seq(S) /\ Len(RemoveAt(s, i)) = Len(s) - 1
         /\ \A j \in 1..Len(s) - 1 : RemoveAt(s, i)[j] = IF j < i THEN s[j] ELSE s[j + 1]
<1> DEFINE left == SubSeq(s, 1, i - 1)
           right == SubSeq(s, i + 1, Len(s))
<1>1. Len(s) \in Nat
  BY LenProperties
<1>2. i - 1 \in 0..Len(s) /\ i \in 0..Len(s) /\ Len(s) \in i..Len(s)
  BY <1>1
<1>3. /\ left \in Seq(S) /\ Len(left) = i - 1
      /\ \A j \in 1..i - 1 : left[j] = s[j]
  BY <1>2, PrefixIs
<1>4. /\ right \in Seq(S) /\ Len(right) = Len(s) - i
      /\ \A j \in 1..Len(s) - i : right[j] = s[i + j]
  BY <1>2, SubSeqIs
<1>5. RemoveAt(s, i) = Cat(left, right)
  BY DEF RemoveAt, Cat
<1> HIDE DEF left, right
<1>6. Cat(left, right) \in Seq(S) /\ Len(Cat(left, right)) = Len(s) - 1
  <2>1. Cat(left, right) \in Seq(S) /\ Len(Cat(left, right)) = (i - 1) + (Len(s) - i)
    BY <1>3, <1>4, CatIsSeq, CatLength
  <2> QED
    BY <1>1, <2>1
<1>7. ASSUME NEW j \in 1..Len(s) - 1
      PROVE  Cat(left, right)[j] = IF j < i THEN s[j] ELSE s[j + 1]
  <2>1. CASE j < i
    <3>1. j \in 1..Len(left) /\ j \in 1..i - 1
      BY <1>1, <1>3, <2>1
    <3>2. Cat(left, right)[j] = left[j]
      BY <1>3, <1>4, <3>1, CatFirst
    <3> QED
      BY <1>3, <2>1, <3>1, <3>2
  <2>2. CASE ~(j < i)
    <3>1. PICK k \in 1..Len(s) - i : j = (i - 1) + k /\ i + k = j + 1
      <4>1. j - (i - 1) \in 1..Len(s) - i /\ j = (i - 1) + (j - (i - 1)) /\ i + (j - (i - 1)) = j + 1
        BY <1>1, <2>2
      <4> QED
        BY <4>1
    <3>2. left \in Seq(S) /\ right \in Seq(S) /\ k \in 1..Len(right)
      BY <1>3, <1>4
    <3>3. Cat(left, right)[Len(left) + k] = right[k]
      BY <3>2, CatSecond
    <3> QED
      BY <1>3, <1>4, <2>2, <3>1, <3>3
  <2> QED
    BY <2>1, <2>2
<1> QED
  BY <1>5, <1>6, <1>7

(* The adjacent pairs of brackets. *)
Pairs(b) == {i \in 1..Len(b) - 1 : b[i] \in Openings /\ b[i + 1] = Closers[b[i]]}

(* Cancelling removes the leftmost, if there is one. *)
LEMMA NothingToCancel ==
  ASSUME NEW b, Pairs(b) = {}
  PROVE  CancelPair(b) = b
BY DEF CancelPair, Pairs

LEMMA CancelPairIs ==
  ASSUME NEW b \in Seq(Bracket), Pairs(b) # {}
  PROVE  \E m \in Pairs(b) :
           /\ \A k \in Pairs(b) : m <= k
           /\ CancelPair(b) \in Seq(Bracket) /\ Len(CancelPair(b)) = Len(b) - 2
           /\ \A j \in 1..Len(b) - 2 : CancelPair(b)[j] = IF j < m THEN b[j] ELSE b[j + 2]
<1> DEFINE m == Min(Pairs(b))
<1>1. Len(b) \in Nat
  BY LenProperties
<1>2. m \in Pairs(b) /\ \A k \in Pairs(b) : m <= k
  <2>1. Pairs(b) \in SUBSET Nat
    BY <1>1 DEF Pairs
  <2> QED
    BY <2>1, MinIsLeast
<1>3. m \in 1..Len(b) /\ m \in 1..Len(b) - 1
  BY <1>1, <1>2 DEF Pairs
<1> DEFINE one == RemoveAt(b, m)
           two == RemoveAt(one, m)
<1>4. CancelPair(b) = two
  BY DEF CancelPair, Pairs
<1> HIDE DEF m
<1>5. /\ one \in Seq(Bracket) /\ Len(one) = Len(b) - 1
      /\ \A j \in 1..Len(b) - 1 : one[j] = IF j < m THEN b[j] ELSE b[j + 1]
  BY <1>3, RemoveAtIs
<1> HIDE DEF one
<1>6. m \in 1..Len(one)
  BY <1>3, <1>5
<1>7. /\ two \in Seq(Bracket) /\ Len(two) = Len(one) - 1
      /\ \A j \in 1..Len(one) - 1 : two[j] = IF j < m THEN one[j] ELSE one[j + 1]
  BY <1>5, <1>6, RemoveAtIs
<1> HIDE DEF two
<1>8. Len(two) = Len(b) - 2
  BY <1>1, <1>5, <1>7
<1>9. ASSUME NEW j \in 1..Len(b) - 2 PROVE two[j] = IF j < m THEN b[j] ELSE b[j + 2]
  <2>1. j \in 1..Len(one) - 1 /\ j \in 1..Len(b) - 1 /\ j + 1 \in 1..Len(b) - 1
        /\ (j + 1) + 1 = j + 2
    BY <1>1, <1>5
  <2>2. two[j] = IF j < m THEN one[j] ELSE one[j + 1]
    BY <1>7, <2>1
  <2>3. CASE j < m
    BY <1>5, <2>1, <2>2, <2>3
  <2>4. CASE ~(j < m)
    <3>1. ~(j + 1 < m)
      BY <1>3, <2>4
    <3> QED
      BY <1>5, <2>1, <2>2, <2>4, <3>1
  <2> QED
    BY <2>3, <2>4
<1> QED
  BY <1>2, <1>4, <1>7, <1>8, <1>9

(* Cancelled runs that step as often as there are brackets. *)
Cancelling(b, after) ==
  /\ after \in [0..Len(b) -> Seq(Bracket)] /\ after[0] = b
  /\ \A n \in 1..Len(b) : after[n] = CancelPair(after[n - 1])

LEMMA CancelledUnfold ==
  ASSUME NEW b \in Seq(Bracket)
  PROVE  \E after : Cancelling(b, after) /\ Cancelled(b) = after[Len(b)]
<1> DEFINE X == 0..Len(b)
           S == Seq(Bracket)
           Rest(f, n) == IF n = 0 THEN b ELSE CancelPair(f[n - 1])
           Is(f) == f = [n \in X |-> Rest(f, n)]
           step == [p \in Nat \X S |-> CancelPair(p[2])]
<1>1. Len(b) \in Nat
  BY LenProperties
<1>2. \A c \in S : CancelPair(c) \in S
  BY CancelPairIs, NothingToCancel
<1>3. step \in [Nat \X S -> S] /\ \A n \in Nat, c \in S : step[<<n, c>>] = CancelPair(c)
  BY <1>2
<1> HIDE DEF S, step
<1>4. PICK g \in [Nat -> S] : g[0] = b /\ \A k \in Nat \ {0} : g[k] = step[<<k, g[k - 1]>>]
  <2>1. Recursions(S, b, step) # {}
    BY <1>3, NatRecursion DEF S
  <2> QED
    BY <2>1 DEF Recursions
<1>5. \A k \in Nat \ {0} : g[k - 1] \in S /\ g[k] = CancelPair(g[k - 1])
  <2> SUFFICES ASSUME NEW k \in Nat \ {0} PROVE g[k - 1] \in S /\ g[k] = CancelPair(g[k - 1])
    OBVIOUS
  <2>1. k \in Nat /\ k - 1 \in Nat
    OBVIOUS
  <2>2. g[k - 1] \in S /\ g[k] = step[<<k, g[k - 1]>>]
    BY <1>4, <2>1
  <2> QED
    BY <1>3, <2>1, <2>2
<1> DEFINE f == [n \in X |-> g[n]]
<1>6. \A n \in X : f[n] = Rest(f, n)
  <2> SUFFICES ASSUME NEW n \in X PROVE f[n] = Rest(f, n)
    OBVIOUS
  <2>1. CASE n = 0
    BY <1>4, <2>1
  <2>2. CASE n # 0
    BY <1>1, <1>5, <2>2
  <2> QED
    BY <2>1, <2>2
<1>7. Is(f)
  <2>1. f = [n \in X |-> f[n]]
    OBVIOUS
  <2> HIDE DEF f, Rest, X
  <2> QED
    BY <1>6, <2>1
<1> DEFINE after == CHOOSE h : Is(h)
<1>8. Cancelled(b) = after[Len(b)]
  BY DEF Cancelled
<1>9. Is(after)
  <2> HIDE DEF Is
  <2> QED
    BY <1>7
<1> HIDE DEF after, f
<1>10. \A n \in X : after[n] = Rest(after, n)
  BY <1>9
<1>11. after = [n \in X |-> after[n]]
  <2> HIDE DEF Rest, X
  <2>1. DOMAIN after = X
    BY <1>9
  <2>2. after = [n \in DOMAIN after |-> after[n]]
    BY <1>9
  <2> QED
    BY <2>1, <2>2
<1> DEFINE T == [n \in X |-> S]
           rank == [n \in X |-> n]
<1>12. ASSUME NEW n \in X, \A j \in X : rank[j] < rank[n] => after[j] \in T[j]
       PROVE  after[n] \in T[n]
  <2>1. CASE n = 0
    BY <1>10, <2>1 DEF S
  <2>2. CASE n # 0
    <3>1. n - 1 \in X /\ rank[n - 1] < rank[n]
      BY <1>1, <2>2
    <3>2. after[n - 1] \in S
      BY <1>12, <3>1
    <3> QED
      BY <1>2, <1>10, <2>2, <3>2
  <2> QED
    BY <2>1, <2>2
<1>13. Within(X, T, after)
  <2>1. Descends(X, T, after, rank)
    <3>1. rank \in [X -> Nat]
      BY <1>1
    <3> HIDE DEF X, T, rank
    <3> QED
      BY <1>12, <3>1 DEF Descends
  <2> HIDE DEF X, T, rank
  <2> QED
    BY <2>1, RankedTyping
<1>14. after \in [X -> S]
  <2>1. \A n \in X : after[n] \in S
    BY <1>13 DEF Within
  <2> HIDE DEF X
  <2> QED
    BY <1>11, <2>1
<1>15. after[0] = b /\ \A n \in 1..Len(b) : after[n] = CancelPair(after[n - 1])
  BY <1>1, <1>10
<1> QED
  BY <1>8, <1>14, <1>15 DEF S, Cancelling

(* After n steps there is no pair left, or 2 n brackets are gone. *)
LEMMA CancellingShrinks ==
  ASSUME NEW b \in Seq(Bracket), NEW after, Cancelling(b, after), NEW n \in 0..Len(b)
  PROVE  Pairs(after[n]) = {} \/ Len(after[n]) + n + n <= Len(b)
<1> DEFINE X == 0..Len(b)
           Gone(k) == Pairs(after[k]) = {} \/ Len(after[k]) + k + k <= Len(b)
           C == {k \in Nat : k \in X => Gone(k)}
<1>1. Len(b) \in Nat
  BY LenProperties
<1>2. ASSUME NEW k \in Nat, \A j \in 0..k - 1 : j \in C PROVE k \in C
  <2> SUFFICES ASSUME k \in X PROVE Gone(k)
    OBVIOUS
  <2>1. CASE k = 0
    BY <1>1, <2>1 DEF Cancelling
  <2>2. CASE k # 0
    <3>1. k - 1 \in X /\ k - 1 \in 0..k - 1 /\ k \in 1..Len(b)
      BY <1>1, <2>2
    <3>2. Gone(k - 1)
      <4> HIDE DEF Gone
      <4> QED
        BY <1>2, <3>1
    <3>3. after[k] = CancelPair(after[k - 1]) /\ after[k - 1] \in Seq(Bracket)
      BY <3>1 DEF Cancelling
    <3>4. CASE Pairs(after[k - 1]) = {}
      BY <3>3, <3>4, NothingToCancel
    <3>5. CASE Pairs(after[k - 1]) # {}
      <4>1. Len(after[k]) = Len(after[k - 1]) - 2
        BY <3>3, <3>5, CancelPairIs
      <4>2. Len(after[k - 1]) \in Nat
        BY <3>3, LenProperties
      <4>3. Len(after[k - 1]) + (k - 1) + (k - 1) <= Len(b)
        BY <3>2, <3>5
      <4>4. Len(after[k]) + k + k <= Len(b)
        BY <1>1, <4>1, <4>2, <4>3
      <4> QED
        BY <4>4
    <3> QED
      BY <3>4, <3>5
  <2> QED
    BY <2>1, <2>2
<1> HIDE DEF Gone
<1>3. Nat \subseteq C
  <2> HIDE DEF C
  <2> QED
    BY <1>2, Induction
<1>4. Gone(n)
  BY <1>1, <1>3
<1> QED
  BY <1>4 DEF Gone

(* Without a pair nothing is cancelled. *)
LEMMA CancelledStays ==
  ASSUME NEW b \in Seq(Bracket), Pairs(b) = {}
  PROVE  Cancelled(b) = b
<1>1. PICK after : Cancelling(b, after) /\ Cancelled(b) = after[Len(b)]
  BY CancelledUnfold
<1> DEFINE X == 0..Len(b)
           T == [n \in X |-> {b}]
           rank == [n \in X |-> n]
<1>2. Len(b) \in Nat
  BY LenProperties
<1>3. ASSUME NEW n \in X, \A j \in X : rank[j] < rank[n] => after[j] \in T[j]
      PROVE  after[n] \in T[n]
  <2>1. CASE n = 0
    BY <1>1, <2>1 DEF Cancelling
  <2>2. CASE n # 0
    <3>1. n - 1 \in X /\ rank[n - 1] < rank[n] /\ n \in 1..Len(b)
      BY <1>2, <2>2
    <3>2. after[n - 1] = b
      BY <1>3, <3>1
    <3>3. after[n] = CancelPair(after[n - 1])
      BY <1>1, <3>1 DEF Cancelling
    <3> QED
      BY <3>2, <3>3, NothingToCancel
  <2> QED
    BY <2>1, <2>2
<1>4. Within(X, T, after)
  <2>1. Descends(X, T, after, rank)
    <3>1. rank \in [X -> Nat]
      BY <1>2
    <3> HIDE DEF X, T, rank
    <3> QED
      BY <1>3, <3>1 DEF Descends
  <2> HIDE DEF X, T, rank
  <2> QED
    BY <2>1, RankedTyping
<1>5. Len(b) \in X
  BY <1>2
<1> QED
  BY <1>1, <1>4, <1>5 DEF Within

(* With one, it does not matter that it is cancelled first. *)
LEMMA CancelledSteps ==
  ASSUME NEW b \in Seq(Bracket), Pairs(b) # {}
  PROVE  Cancelled(b) = Cancelled(CancelPair(b))
<1> DEFINE c == CancelPair(b)
           n == Len(b)
<1>1. n \in Nat /\ n >= 2 /\ c \in Seq(Bracket) /\ Len(c) = n - 2
  <2>1. n \in Nat
    BY LenProperties
  <2>2. n >= 2
    BY <2>1 DEF Pairs
  <2> QED
    BY <2>1, <2>2, CancelPairIs
<1> HIDE DEF c
<1>2. PICK after : Cancelling(b, after) /\ Cancelled(b) = after[n]
  BY CancelledUnfold
<1>3. PICK then : Cancelling(c, then) /\ Cancelled(c) = then[n - 2]
  BY <1>1, CancelledUnfold
<1>4. \A k \in 1..n : after[k] = CancelPair(after[k - 1])
  BY <1>2 DEF Cancelling
<1>5. \A k \in 1..n - 2 : then[k] = CancelPair(then[k - 1])
  BY <1>1, <1>3 DEF Cancelling
<1> DEFINE X == 0..n - 2
           h == [k \in X |-> after[k + 1]]
           T == [k \in X |-> {then[k]}]
           rank == [k \in X |-> k]
<1>6. ASSUME NEW k \in X, \A j \in X : rank[j] < rank[k] => h[j] \in T[j]
      PROVE  h[k] \in T[k]
  <2>1. CASE k = 0
    <3>1. after[1] = CancelPair(after[0]) /\ after[0] = b
      <4>1. 1 \in 1..n /\ 1 - 1 = 0
        BY <1>1
      <4> QED
        BY <1>2, <1>4, <4>1 DEF Cancelling
    <3>2. then[0] = c
      BY <1>3 DEF Cancelling
    <3> QED
      BY <2>1, <3>1, <3>2 DEF c
  <2>2. CASE k # 0
    <3>1. k - 1 \in X /\ rank[k - 1] < rank[k] /\ k \in 1..n - 2 /\ k + 1 \in 1..n
          /\ (k + 1) - 1 = k /\ (k - 1) + 1 = k
      BY <1>1, <2>2
    <3>2. h[k - 1] = then[k - 1]
      <4>1. h[k - 1] \in T[k - 1]
        BY <1>6, <3>1
      <4> QED
        BY <3>1, <4>1
    <3>3. after[k] = then[k - 1]
      BY <3>1, <3>2
    <3>4. after[k + 1] = then[k]
      BY <1>4, <1>5, <3>1, <3>3
    <3> QED
      BY <3>4
  <2> QED
    BY <2>1, <2>2
<1>7. Within(X, T, h)
  <2>1. Descends(X, T, h, rank)
    <3>1. rank \in [X -> Nat]
      BY <1>1
    <3> HIDE DEF X, T, rank, h
    <3> QED
      BY <1>6, <3>1 DEF Descends
  <2> HIDE DEF X, T, rank, h
  <2> QED
    BY <2>1, RankedTyping
<1>8. after[n - 1] = then[n - 2]
  <2>1. n - 2 \in X /\ (n - 2) + 1 = n - 1
    BY <1>1
  <2>2. h[n - 2] \in T[n - 2]
    BY <1>7, <2>1 DEF Within
  <2> QED
    BY <2>1, <2>2
<1>9. after[n] = CancelPair(after[n - 1]) /\ after[n - 1] \in Seq(Bracket)
  BY <1>1, <1>2, <1>4 DEF Cancelling
<1>10. Pairs(after[n - 1]) = {}
  <2>1. n - 1 \in 0..Len(b)
    BY <1>1
  <2>2. Pairs(after[n - 1]) = {} \/ Len(after[n - 1]) + (n - 1) + (n - 1) <= n
    BY <1>2, <2>1, CancellingShrinks
  <2>3. Len(after[n - 1]) \in Nat
    BY <1>9, LenProperties
  <2>4. Len(after[n - 1]) + (n - 1) + (n - 1) <= n => Len(after[n - 1]) - 1 < 1
    BY <1>1, <2>3
  <2>5. Len(after[n - 1]) - 1 < 1 => 1..Len(after[n - 1]) - 1 = {}
    BY <2>3
  <2> QED
    BY <2>2, <2>4, <2>5 DEF Pairs
<1>11. after[n] = then[n - 2]
  BY <1>8, <1>9, <1>10, NothingToCancel
<1> QED
  BY <1>2, <1>3, <1>11 DEF c

(* Openings alone do not cancel. *)
LEMMA OpeningsStay ==
  ASSUME NEW o \in Seq(Openings)
  PROVE  o \in Seq(Bracket) /\ Cancelled(o) = o
<1>1. Len(o) \in Nat /\ \A i \in 1..Len(o) : o[i] \in Openings
  BY LenProperties, ElementOfSeq
<1>2. o \in Seq(Bracket)
  BY DEF Bracket
<1>3. Pairs(o) = {}
  <2> SUFFICES ASSUME NEW i \in 1..Len(o) - 1, o[i] \in Openings, o[i + 1] = Closers[o[i]]
               PROVE  FALSE
    BY DEF Pairs
  <2>1. i + 1 \in 1..Len(o)
    BY <1>1
  <2>2. o[i + 1] \in Openings /\ o[i + 1] \in Closings
    BY <1>1, <2>1, BracketsDiffer
  <2> QED
    BY <2>2, BracketsDiffer
<1> QED
  BY <1>2, <1>3, CancelledStays

(* The first closer and the opening it closes cancel. *)
LEMMA PairCancels ==
  ASSUME NEW o \in Seq(Openings), NEW x \in Openings, NEW r \in Seq(Bracket)
  PROVE  Cancelled(Cat(o, Cat(<<x>>, Cat(<<Closers[x]>>, r)))) = Cancelled(Cat(o, r))
<1> DEFINE y == Closers[x]
           tail == Cat(<<y>>, r)
           both == Cat(<<x>>, tail)
           b == Cat(o, both)
           n == Len(o)
<1>1. x \in Bracket /\ y \in Bracket /\ o \in Seq(Bracket)
  BY BracketsDiffer, OpeningsStay DEF Bracket
<1>2. n \in Nat /\ Len(r) \in Nat /\ \A i \in 1..n : o[i] \in Openings
  BY LenProperties, ElementOfSeq
<1> HIDE DEF y
<1>3. /\ tail \in Seq(Bracket) /\ Len(tail) = Len(r) + 1 /\ tail[1] = y
      /\ \A i \in 1..Len(r) : tail[i + 1] = r[i]
  <2>1. Consed(Bracket, y, r, Cat(<<y>>, r))
    BY <1>1, ConsIsConsed
  <2> QED
    BY <2>1 DEF Consed
<1> HIDE DEF tail
<1>4. /\ both \in Seq(Bracket) /\ Len(both) = Len(tail) + 1 /\ both[1] = x
      /\ \A i \in 1..Len(tail) : both[i + 1] = tail[i]
  <2>1. Consed(Bracket, x, tail, Cat(<<x>>, tail))
    BY <1>1, <1>3, ConsIsConsed
  <2> QED
    BY <2>1 DEF Consed
<1> HIDE DEF both
<1>5. b \in Seq(Bracket) /\ Len(b) = n + (Len(r) + 2)
  <2>1. b \in Seq(Bracket) /\ Len(b) = n + Len(both)
    BY <1>1, <1>4, CatIsSeq, CatLength
  <2> QED
    BY <1>2, <1>3, <1>4, <2>1
<1>6. \A i \in 1..n : b[i] = o[i]
  BY <1>1, <1>4, CatFirst
<1>7. \A i \in 1..Len(both) : b[n + i] = both[i]
  <2> SUFFICES ASSUME NEW i \in 1..Len(both) PROVE b[n + i] = both[i]
    OBVIOUS
  <2>1. o \in Seq(Bracket) /\ both \in Seq(Bracket)
    BY <1>1, <1>4
  <2> QED
    BY <2>1, CatSecond
<1> HIDE DEF b
<1>8. b[n + 1] = x /\ b[n + 2] = y /\ \A i \in 1..Len(r) : b[(n + i) + 2] = r[i]
  <2>1. 1 \in 1..Len(both) /\ 2 \in 1..Len(both) /\ 1 \in 1..Len(tail) /\ 1 + 1 = 2
    BY <1>2, <1>3, <1>4
  <2>2. b[n + 1] = x
    BY <1>4, <1>7, <2>1
  <2>3. b[n + 2] = y
    <3>1. both[2] = tail[1]
      BY <1>4, <2>1
    <3> QED
      BY <1>3, <1>7, <2>1, <3>1
  <2>4. ASSUME NEW i \in 1..Len(r) PROVE b[(n + i) + 2] = r[i]
    <3>1. i + 2 \in 1..Len(both) /\ i + 1 \in 1..Len(tail) /\ (i + 1) + 1 = i + 2
          /\ n + (i + 2) = (n + i) + 2
      BY <1>2, <1>3, <1>4
    <3>2. both[i + 2] = tail[i + 1] /\ tail[i + 1] = r[i]
      BY <1>3, <1>4, <3>1
    <3>3. b[n + (i + 2)] = both[i + 2]
      BY <1>7, <3>1
    <3> QED
      BY <3>1, <3>2, <3>3
  <2> QED
    BY <2>2, <2>3, <2>4
<1>9. n + 1 \in Pairs(b) /\ \A i \in Pairs(b) : n + 1 <= i
  <2>1. n + 1 \in Pairs(b)
    <3>1. n + 1 \in 1..Len(b) - 1 /\ (n + 1) + 1 = n + 2
      BY <1>2, <1>5
    <3> QED
      BY <1>8, <3>1 DEF Pairs, y
  <2>2. ASSUME NEW i \in Pairs(b), ~(n + 1 <= i) PROVE FALSE
    <3>0. i \in 1..Len(b) - 1 /\ b[i] \in Openings /\ b[i + 1] = Closers[b[i]]
      BY <2>2 DEF Pairs
    <3>1. i \in 1..n /\ b[i] \in Openings /\ b[i + 1] \in Closings
      <4>1. i \in 1..n
        BY <1>2, <1>5, <2>2, <3>0
      <4> QED
        BY <3>0, <4>1, BracketsDiffer
    <3>2. b[i + 1] \in Openings
      <4>1. CASE i = n
        BY <1>8, <4>1
      <4>2. CASE i # n
        <5>1. i + 1 \in 1..n
          BY <1>2, <3>1, <4>2
        <5> QED
          BY <1>2, <1>6, <5>1
      <4> QED
        BY <4>1, <4>2
    <3> QED
      BY <3>1, <3>2, BracketsDiffer
  <2>3. Pairs(b) \subseteq Int
    BY <1>2, <1>5 DEF Pairs
  <2> QED
    BY <2>1, <2>2
<1>10. PICK m \in Pairs(b) :
         /\ \A k \in Pairs(b) : m <= k
         /\ CancelPair(b) \in Seq(Bracket) /\ Len(CancelPair(b)) = Len(b) - 2
         /\ \A j \in 1..Len(b) - 2 : CancelPair(b)[j] = IF j < m THEN b[j] ELSE b[j + 2]
  BY <1>5, <1>9, CancelPairIs
<1>11. m = n + 1
  <2>1. m \in Int
    BY <1>2, <1>5 DEF Pairs
  <2> QED
    BY <1>2, <1>9, <1>10, <2>1
<1>12. /\ Cat(o, r) \in Seq(Bracket) /\ Len(Cat(o, r)) = n + Len(r)
       /\ \A i \in 1..n : Cat(o, r)[i] = o[i]
  BY <1>1, CatIsSeq, CatLength, CatFirst
<1>13. \A i \in 1..Len(r) : Cat(o, r)[n + i] = r[i]
  BY <1>1, CatSecond
<1>14. CancelPair(b) = Cat(o, r)
  <2>1. Len(CancelPair(b)) = n + Len(r)
    BY <1>2, <1>5, <1>10
  <2>2. ASSUME NEW j \in 1..n + Len(r) PROVE CancelPair(b)[j] = Cat(o, r)[j]
    <3>1. j \in 1..Len(b) - 2
      BY <1>2, <1>5
    <3>2. CASE j \in 1..n
      <4>1. j < m
        BY <1>2, <1>11, <3>2
      <4> QED
        BY <1>6, <1>10, <1>12, <3>1, <3>2, <4>1
    <3>3. CASE j \notin 1..n
      <4>1. PICK i \in 1..Len(r) : j = n + i
        <5>1. j - n \in 1..Len(r) /\ j = n + (j - n)
          BY <1>2, <3>3
        <5> QED
          BY <5>1
      <4>2. ~(j < m)
        BY <1>2, <1>11, <4>1
      <4>3. CancelPair(b)[j] = b[j + 2]
        BY <1>10, <3>1, <4>2
      <4> QED
        BY <1>8, <1>13, <4>1, <4>3
    <3> QED
      BY <3>2, <3>3
  <2> HIDE DEF n
  <2> QED
    BY <1>10, <1>12, <2>1, <2>2, SameElements
<1>15. Cancelled(b) = Cancelled(Cat(o, r))
  BY <1>5, <1>9, <1>14, CancelledSteps
<1> QED
  BY <1>15 DEF b, both, tail, y

(* A closer that does not close the last opening before it is never cancelled. *)
Blocked(o, c, b) ==
  /\ b \in Seq(Bracket) /\ Len(o) + 1 <= Len(b)
  /\ b[Len(o) + 1] = c
  /\ \A i \in 1..Len(o) : b[i] = o[i]

LEMMA BlockedStays ==
  ASSUME NEW o \in Seq(Openings), NEW c \in Closings, o = <<>> \/ c # Closers[Last(o)],
         NEW b, Blocked(o, c, b)
  PROVE  Blocked(o, c, CancelPair(b))
<1> DEFINE n == Len(o)
<1>1. n \in Nat /\ b \in Seq(Bracket) /\ Len(b) \in Nat /\ \A i \in 1..n : o[i] \in Openings
  BY LenProperties, ElementOfSeq DEF Blocked
<1>2. CASE Pairs(b) = {}
  BY <1>2, NothingToCancel
<1>3. CASE Pairs(b) # {}
  <2>1. PICK m \in Pairs(b) :
         /\ \A k \in Pairs(b) : m <= k
         /\ CancelPair(b) \in Seq(Bracket) /\ Len(CancelPair(b)) = Len(b) - 2
         /\ \A j \in 1..Len(b) - 2 : CancelPair(b)[j] = IF j < m THEN b[j] ELSE b[j + 2]
    BY <1>1, <1>3, CancelPairIs
  <2>2. m \in 1..Len(b) - 1 /\ b[m] \in Openings /\ b[m + 1] = Closers[b[m]]
    BY DEF Pairs
  <2>3. m > n + 1
    <3> SUFFICES ASSUME ~(m > n + 1) PROVE FALSE
      OBVIOUS
    <3>1. CASE m = n + 1
      <4>1. b[m] = c
        BY <3>1 DEF Blocked
      <4> QED
        BY <2>2, <4>1, BracketsDiffer
    <3>2. CASE m = n
      <4>1. b[m] = o[n] /\ b[m + 1] = c /\ n # 0
        BY <1>1, <2>2, <3>2 DEF Blocked
      <4>2. Last(o) = o[n] /\ o # <<>>
        <5>1. o # <<>>
          BY <4>1, EmptySeq
        <5> QED
          BY <5>1 DEF Last
      <4> QED
        BY <2>2, <4>1, <4>2
    <3>3. CASE m < n
      <4>1. m + 1 \in 1..n
        BY <1>1, <2>2, <3>3
      <4>2. b[m + 1] \in Openings
        BY <1>1, <4>1 DEF Blocked
      <4> QED
        BY <2>2, <4>2, BracketsDiffer
    <3> QED
      BY <1>1, <2>2, <3>1, <3>2, <3>3
  <2>4. n + 1 <= Len(b) - 2
    BY <1>1, <2>2, <2>3
  <2>5. \A i \in 1..n + 1 : i \in 1..Len(b) - 2 /\ i < m
    BY <1>1, <2>2, <2>3, <2>4
  <2>6. \A i \in 1..n + 1 : CancelPair(b)[i] = b[i]
    BY <2>1, <2>5
  <2>7. n + 1 \in 1..n + 1 /\ \A i \in 1..n : i \in 1..n + 1
    BY <1>1
  <2> QED
    BY <2>1, <2>4, <2>6, <2>7 DEF Blocked
<1> QED
  BY <1>2, <1>3

LEMMA WrongCloserStays ==
  ASSUME NEW o \in Seq(Openings), NEW c \in Closings, o = <<>> \/ c # Closers[Last(o)],
         NEW r \in Seq(Bracket)
  PROVE  Cancelled(Cat(o, Cat(<<c>>, r))) # <<>>
<1> DEFINE tail == Cat(<<c>>, r)
           b == Cat(o, tail)
           n == Len(o)
<1>1. c \in Bracket /\ o \in Seq(Bracket) /\ n \in Nat /\ Len(r) \in Nat
  BY OpeningsStay, LenProperties DEF Bracket
<1>2. tail \in Seq(Bracket) /\ Len(tail) = Len(r) + 1 /\ tail[1] = c
  BY <1>1, ConsIs
<1> HIDE DEF tail
<1>3. Blocked(o, c, b)
  <2>1. b \in Seq(Bracket) /\ Len(b) = n + Len(tail)
    BY <1>1, <1>2, CatIsSeq, CatLength
  <2>2. n + 1 <= Len(b) /\ 1 \in 1..Len(tail)
    BY <1>1, <1>2, <2>1
  <2>3. b[n + 1] = c
    <3>1. tail \in Seq(Bracket) /\ 1 \in 1..Len(tail)
      BY <1>2, <2>2
    <3>2. b[n + 1] = tail[1]
      BY <1>1, <3>1, CatSecond
    <3> QED
      BY <1>2, <3>2
  <2>4. \A i \in 1..n : b[i] = o[i]
    BY <1>1, <1>2, CatFirst
  <2> QED
    BY <2>1, <2>2, <2>3, <2>4 DEF Blocked
<1> HIDE DEF b
<1>4. b \in Seq(Bracket)
  BY <1>3 DEF Blocked
<1>5. PICK after : Cancelling(b, after) /\ Cancelled(b) = after[Len(b)]
  BY <1>4, CancelledUnfold
<1> DEFINE X == 0..Len(b)
           C == {k \in Nat : k \in X => Blocked(o, c, after[k])}
<1>6. Len(b) \in Nat
  BY <1>4, LenProperties
<1>7. ASSUME NEW k \in Nat, \A j \in 0..k - 1 : j \in C PROVE k \in C
  <2> SUFFICES ASSUME k \in X PROVE Blocked(o, c, after[k])
    OBVIOUS
  <2>1. CASE k = 0
    BY <1>3, <1>5, <2>1 DEF Cancelling
  <2>2. CASE k # 0
    <3>1. k - 1 \in X /\ k - 1 \in 0..k - 1 /\ k \in 1..Len(b)
      BY <1>6, <2>2
    <3>2. Blocked(o, c, after[k - 1])
      BY <1>7, <3>1
    <3>3. after[k] = CancelPair(after[k - 1])
      BY <1>5, <3>1 DEF Cancelling
    <3> QED
      BY <3>2, <3>3, BlockedStays
  <2> QED
    BY <2>1, <2>2
<1>8. Nat \subseteq C
  <2> HIDE DEF C
  <2> QED
    BY <1>7, Induction
<1>9. Blocked(o, c, Cancelled(b))
  BY <1>5, <1>6, <1>8
<1>10. Len(Cancelled(b)) # 0
  BY <1>1, <1>9 DEF Blocked
<1>11. Cancelled(b) # <<>>
  BY <1>10, EmptySeq
<1> QED
  BY <1>11 DEF b, tail

-----------------------------------------------------------------------------
(* The lexer.                                                              *)

(* A run that begins with a character it keeps is not empty. *)
LEMMA EndOfMoves ==
  ASSUME NEW n \in Nat, NEW i \in 1..n, NEW stops \in SUBSET (i..n), i \notin stops
  PROVE  EndOf(stops, n) \in i + 1..n + 1
<1>1. stops \in SUBSET (i + 1..n)
  <2>1. \A j \in stops : j \in i..n /\ j # i
    OBVIOUS
  <2>2. \A j \in i..n : j # i => j \in i + 1..n
    OBVIOUS
  <2> QED
    BY <2>1, <2>2
<1>2. i + 1 \in 1..n + 1
  OBVIOUS
<1> QED
  BY <1>1, <1>2, EndOfIs

LEMMA CharactersDiffer ==
  /\ Semicolon # "\n" /\ Quote # "\n" /\ Backslash # "\n" /\ Space # "\n"
  /\ Semicolon \notin Spaces /\ Quote \notin Spaces \cup {Semicolon}
  /\ Bracket \cap (Spaces \cup {Semicolon, Quote, ":", "@"}) = {}
  /\ \A d \in Digits : d \notin Spaces \cup {Semicolon}
<1>1. Bracket = {"(", "[", "{", ")", "]", "}"}
  BY BracketsDiffer DEF Bracket
<1> QED
  BY <1>1 DEF Semicolon, Quote, Backslash, Space, Spaces, Digits

(* A line that does not begin with its newline ends further on. *)
LEMMA LineStopMoves ==
  ASSUME NEW s, Len(s) \in Nat, NEW i \in 1..Len(s), s[i] # "\n"
  PROVE  LineStop(s, i) \in i + 1..Len(s) + 1
<1> DEFINE n == Len(s)
           stops == {j \in i..n : ~(s[j] # "\n")}
<1>1. LineStop(s, i) = EndOf(stops, n)
  BY DEF LineStop, EndOfRun, EndOf
<1>2. stops \in SUBSET (i..n) /\ i \notin stops
  OBVIOUS
<1> HIDE DEF stops
<1> QED
  BY <1>1, <1>2, EndOfMoves

(* Where the scan over blanks goes from j. *)
Blank(s, j) == j <= Len(s) /\ s[j] \in Spaces \cup {Semicolon}
PastBlank(s, j) == IF s[j] \in Spaces THEN j + 1 ELSE LineStop(s, j)

LEMMA PastBlankIs ==
  ASSUME NEW s, Len(s) \in Nat, NEW j \in 1..Len(s), Blank(s, j)
  PROVE  PastBlank(s, j) \in j + 1..Len(s) + 1
<1>1. CASE s[j] \in Spaces
  BY <1>1 DEF PastBlank
<1>2. CASE s[j] \notin Spaces
  <2>1. s[j] # "\n"
    BY <1>2, CharactersDiffer DEF Blank
  <2> QED
    BY <1>2, <2>1, LineStopMoves DEF PastBlank
<1> QED
  BY <1>1, <1>2

(* It follows the blanks to the first character that is none. *)
LEMMA SkipBlankUnfolds ==
  ASSUME NEW s, Len(s) \in Nat
  PROVE  \A i \in 1..Len(s) + 1 :
           SkipBlank(s, i) = IF Blank(s, i) THEN SkipBlank(s, PastBlank(s, i)) ELSE i
<1> DEFINE n == Len(s)
           X == 1..n + 1
           Rest(f, j) == IF Blank(s, j) THEN f[PastBlank(s, j)] ELSE j
           Is(f) == f = [j \in X |-> IF j > n THEN j
                                     ELSE IF s[j] \in Spaces THEN f[j + 1]
                                     ELSE IF s[j] = Semicolon THEN f[LineStop(s, j)]
                                     ELSE j]
           stop == {j \in X : ~Blank(s, j)}
           base == [j \in X |-> j]
           next == [j \in X |-> IF Blank(s, j) THEN PastBlank(s, j) ELSE j]
           rank == [j \in X |-> n + 1 - j]
<1>1. \A j \in X : Blank(s, j) => PastBlank(s, j) \in X /\ PastBlank(s, j) > j
  <2> SUFFICES ASSUME NEW j \in X, Blank(s, j)
               PROVE  PastBlank(s, j) \in X /\ PastBlank(s, j) > j
    OBVIOUS
  <2>1. j \in 1..n
    BY DEF Blank
  <2>2. PastBlank(s, j) \in j + 1..n + 1
    BY <2>1, PastBlankIs
  <2> QED
    BY <2>1, <2>2
<1>2. next \in [X -> X] /\ \A j \in X \ stop : next[j] = PastBlank(s, j) /\ next[j] > j /\ next[j] \in X
  BY <1>1
<1>3. base \in [X -> X] /\ rank \in [X -> Nat] /\ \A j \in X : rank[j] = n + 1 - j /\ rank[j] <= n
  OBVIOUS
<1>4. \A j \in X \ stop : rank[next[j]] < rank[j]
  <2> SUFFICES ASSUME NEW j \in X \ stop PROVE rank[next[j]] < rank[j]
    OBVIOUS
  <2> HIDE DEF rank, next, stop
  <2>1. next[j] \in X /\ next[j] > j
    BY <1>2
  <2> QED
    BY <1>3, <2>1
<1>5. PICK f \in [X -> X] : \A j \in X : f[j] = IF j \in stop THEN base[j] ELSE f[next[j]]
  <2> HIDE DEF X, stop, base, next, rank
  <2>1. Followings(X, X, stop, base, next) # {}
    BY <1>2, <1>3, <1>4, RankedFollowing
  <2> QED
    BY <2>1 DEF Followings
<1>6. \A j \in X : f[j] = Rest(f, j)
  <2> SUFFICES ASSUME NEW j \in X PROVE f[j] = Rest(f, j)
    OBVIOUS
  <2>1. f[j] = IF j \in stop THEN base[j] ELSE f[next[j]]
    BY <1>5
  <2> HIDE DEF X
  <2> QED
    BY <1>2, <2>1
<1>7. \A g : \A j \in X : (IF j > n THEN j
                           ELSE IF s[j] \in Spaces THEN g[j + 1]
                           ELSE IF s[j] = Semicolon THEN g[LineStop(s, j)]
                           ELSE j) = Rest(g, j)
  BY DEF Blank, PastBlank
<1>8. Is(f)
  <2>1. f = [j \in X |-> f[j]]
    OBVIOUS
  <2>2. f = [j \in X |-> Rest(f, j)]
    <3> HIDE DEF X, Rest
    <3> QED
      BY <1>6, <2>1
  <2> HIDE DEF X, Rest
  <2> QED
    BY <1>7, <2>2
<1> DEFINE skip == CHOOSE g : Is(g)
<1>9. Is(skip)
  <2> HIDE DEF Is
  <2> QED
    BY <1>8
<1>10. \A i : SkipBlank(s, i) = skip[i]
  BY DEF SkipBlank, LineStop
<1> HIDE DEF skip
<1>11. \A j \in X : skip[j] = Rest(skip, j)
  <2> HIDE DEF X, Rest
  <2> QED
    BY <1>7, <1>9
<1> QED
  BY <1>10, <1>11

LEMMA SkipBlankIs ==
  ASSUME NEW s, Len(s) \in Nat
  PROVE  \A i \in 1..Len(s) + 1 :
           /\ SkipBlank(s, i) \in i..Len(s) + 1
           /\ ~Blank(s, SkipBlank(s, i))
<1> DEFINE n == Len(s)
           X == 1..n + 1
           f == [i \in X |-> SkipBlank(s, i)]
           T == [i \in X |-> {j \in i..n + 1 : ~Blank(s, j)}]
           rank == [i \in X |-> n + 1 - i]
<1>1. rank \in [X -> Nat] /\ \A i \in X : f[i] = SkipBlank(s, i) /\ rank[i] = n + 1 - i
      /\ T[i] = {j \in i..n + 1 : ~Blank(s, j)}
  OBVIOUS
<1> HIDE DEF f, T, rank
<1>2. ASSUME NEW i \in X, \A j \in X : rank[j] < rank[i] => f[j] \in T[j]
      PROVE  f[i] \in T[i]
  <2>1. CASE Blank(s, i)
    <3>1. i \in 1..n
      BY <2>1 DEF Blank
    <3>2. PICK k \in i + 1..n + 1 : k = PastBlank(s, i)
      BY <2>1, <3>1, PastBlankIs
    <3>3. k \in X /\ rank[k] < rank[i]
      BY <1>1, <3>1, <3>2
    <3>4. f[k] \in T[k] /\ f[i] = f[k]
      BY <1>1, <1>2, <2>1, <3>2, <3>3, SkipBlankUnfolds
    <3>5. f[k] \in k..n + 1 /\ ~Blank(s, f[k])
      BY <1>1, <3>3, <3>4
    <3>6. f[k] \in i..n + 1
      BY <3>1, <3>2, <3>5
    <3> QED
      BY <1>1, <3>4, <3>5, <3>6
  <2>2. CASE ~Blank(s, i)
    <3>1. f[i] = i
      BY <1>1, <2>2, SkipBlankUnfolds
    <3> QED
      BY <1>1, <2>2, <3>1
  <2> QED
    BY <2>1, <2>2
<1>3. Within(X, T, f)
  <2>1. Descends(X, T, f, rank)
    <3> HIDE DEF X
    <3> QED
      BY <1>1, <1>2 DEF Descends
  <2> HIDE DEF X
  <2> QED
    BY <2>1, RankedTyping
<1>4. \A i \in X : f[i] \in T[i]
  BY <1>3 DEF Within
<1> QED
  BY <1>1, <1>4

(* The characters of a string literal from place j on, given those from later places on. *)
LiteralAt(s, f, j) ==
  IF j > Len(s) THEN [text |-> <<>>, next |-> 0]
  ELSE IF s[j] = Quote THEN [text |-> <<>>, next |-> j + 1]
  ELSE LET escaped == s[j] = Backslash /\ j < Len(s)
           rest    == f[IF escaped THEN j + 2 ELSE j + 1]
           char    == IF escaped THEN Unescaped(s[j + 1]) ELSE s[j]
       IN  [rest EXCEPT !.text = <<char>> \o @]
LiteralFrom(s) == CHOOSE f : f = [j \in 1..Len(s) + 1 |-> LiteralAt(s, f, j)]

(* What they begin with, and where they go on. *)
LiteralChar(s, j) == IF s[j] = Backslash /\ j < Len(s) THEN Unescaped(s[j + 1]) ELSE s[j]
LiteralOn(s, j) == IF s[j] = Backslash /\ j < Len(s) THEN j + 2 ELSE j + 1
Literal(s, f) ==
  /\ f[Len(s) + 1].next = 0
  /\ \A j \in 1..Len(s) + 1 : f[j].next \in {0} \cup j + 1..Len(s) + 1
  /\ \A j \in 1..Len(s) :
       IF s[j] = Quote THEN f[j].text = <<>> /\ f[j].next = j + 1
       ELSE /\ f[j].text = Cat(<<LiteralChar(s, j)>>, f[LiteralOn(s, j)].text)
            /\ f[j].next = f[LiteralOn(s, j)].next
  /\ \A i \in 1..Len(s) :
       LET whole == f[i + 1]
       IN  StringToken(s, i) = [kind |-> "string", next |-> whole.next,
                                text |-> SubSeq(whole.text, 1, Min({Len(whole.text), StringCap}))]

(* The characters of a literal are read one by one, up to the quote that closes it. *)
LEMMA LiteralIs ==
  ASSUME NEW s, Len(s) \in Nat
  PROVE  Literal(s, LiteralFrom(s))
<1> DEFINE n == Len(s)
           X == 1..n + 1
           V == UNION {{s[j], Unescaped(s[j])} : j \in 1..n}
           S == [text : Seq(V), next : {0} \cup X]
           ends(j) == j > n \/ s[j] = Quote
           escaped(j) == s[j] = Backslash /\ j < n
           onward(j) == IF escaped(j) THEN j + 2 ELSE j + 1
           char(j) == IF escaped(j) THEN Unescaped(s[j + 1]) ELSE s[j]
           put(j, v) == [v EXCEPT !.text = <<char(j)>> \o @]
           end(j) == IF j > n THEN [text |-> <<>>, next |-> 0] ELSE [text |-> <<>>, next |-> j + 1]
           Rest(f, j) == IF ends(j) THEN end(j) ELSE put(j, f[onward(j)])
           Is(f) == f = [j \in X |-> LiteralAt(s, f, j)]
           stop == {j \in X : ends(j)}
           base == [j \in X |-> IF ends(j) THEN end(j) ELSE [text |-> <<>>, next |-> 0]]
           step == [p \in X \X S |-> IF ends(p[1]) THEN p[2] ELSE put(p[1], p[2])]
           next == [j \in X |-> IF ends(j) THEN j ELSE onward(j)]
           rank == [j \in X |-> n + 1 - j]
<1>1. \A j \in X : ~ends(j) => onward(j) \in X /\ onward(j) > j
  OBVIOUS
<1>2. \A j \in X : ~ends(j) => char(j) \in V
  <2> SUFFICES ASSUME NEW j \in X, ~ends(j) PROVE char(j) \in V
    OBVIOUS
  <2>1. CASE escaped(j)
    <3>1. j + 1 \in 1..n
      BY <2>1
    <3> QED
      BY <2>1, <3>1
  <2>2. CASE ~escaped(j)
    BY <2>2
  <2> QED
    BY <2>1, <2>2
<1>3. \A j \in X : ends(j) => end(j) \in [text : {<<>>}, next : {0} \cup X]
  OBVIOUS
<1>4. <<>> \in Seq(V) /\ S # {}
  <2>1. <<>> \in Seq(V)
    OBVIOUS
  <2>2. [text |-> <<>>, next |-> 0] \in S
    BY <2>1
  <2> QED
    BY <2>1, <2>2
<1>5. ASSUME NEW j \in X, ~ends(j), NEW v \in S
      PROVE  put(j, v) \in S /\ put(j, v).next = v.next
  <2>1. char(j) \in V
    BY <1>2, <1>5
  <2> HIDE DEF V, char, X
  <2>2. <<char(j)>> \o v.text \in Seq(V)
    BY <2>1
  <2> QED
    BY <2>2
<1>6. base \in [X -> S]
  <2>1. \A j \in X : base[j] \in S
    BY <1>3, <1>4
  <2> HIDE DEF X, S
  <2> QED
    BY <2>1
<1> HIDE DEF put
<1>7. step \in [X \X S -> S] /\ \A j \in X, v \in S : ~ends(j) => step[<<j, v>>] = put(j, v)
  <2> HIDE DEF X, S, ends
  <2> QED
    BY <1>5
<1>8. /\ next \in [X -> X] /\ rank \in [X -> Nat] /\ \A j \in X : rank[j] = n + 1 - j /\ rank[j] <= n
      /\ \A j \in X \ stop : next[j] = onward(j)
  BY <1>1
<1>9. \A j \in X \ stop : rank[next[j]] < rank[j]
  <2> SUFFICES ASSUME NEW j \in X, ~ends(j) PROVE rank[next[j]] < rank[j]
    OBVIOUS
  <2>1. PICK k \in X : k = onward(j) /\ k > j /\ next[j] = k
    BY <1>1, <1>8
  <2> HIDE DEF rank, next
  <2> QED
    BY <1>8, <2>1
<1>10. PICK f \in [X -> S] : \A j \in X : f[j] = IF j \in stop THEN base[j] ELSE step[<<j, f[next[j]]>>]
  <2> HIDE DEF X, S, stop, base, step, next, rank
  <2>1. Unfoldings(X, S, stop, base, step, next) # {}
    BY <1>6, <1>7, <1>8, <1>9, RankedRecursion
  <2> QED
    BY <2>1 DEF Unfoldings
<1>11. \A j \in X : f[j] = Rest(f, j)
  <2> SUFFICES ASSUME NEW j \in X PROVE f[j] = Rest(f, j)
    OBVIOUS
  <2>1. CASE ends(j)
    <3>1. f[j] = base[j]
      BY <1>10, <2>1
    <3> QED
      BY <2>1, <3>1
  <2>2. CASE ~ends(j)
    <3>1. onward(j) \in X /\ next[j] = onward(j) /\ j \notin stop
      BY <1>1, <1>8, <2>2
    <3> HIDE DEF onward, ends, stop, step, next, base, X, S
    <3>2. f[onward(j)] \in S /\ f[j] = step[<<j, f[onward(j)]>>]
      BY <1>10, <3>1
    <3> QED
      BY <1>7, <2>2, <3>2
  <2> QED
    BY <2>1, <2>2
<1>12. \A g : \A j \in X : LiteralAt(s, g, j) = Rest(g, j)
  BY Zenon DEF put, LiteralAt
<1>13. Is(f)
  <2>1. f = [j \in X |-> f[j]]
    OBVIOUS
  <2>2. f = [j \in X |-> Rest(f, j)]
    <3> HIDE DEF X, Rest, S
    <3> QED
      BY <1>11, <2>1
  <2> HIDE DEF X, Rest, S
  <2> QED
    BY <1>12, <2>2
<1> DEFINE body == CHOOSE g : Is(g)
<1>14. Is(body)
  <2> HIDE DEF Is
  <2> QED
    BY <1>13
<1>15. LiteralFrom(s) = body
  BY DEF LiteralFrom
<1>15a. ASSUME NEW i \in 1..n
        PROVE  StringToken(s, i) = [kind |-> "string", next |-> body[i + 1].next,
                                    text |-> SubSeq(body[i + 1].text, 1, Min({Len(body[i + 1].text), StringCap}))]
  BY DEF StringToken, LiteralAt
<1> HIDE DEF body
<1>16. \A j \in X : body[j] = Rest(body, j)
  <2> HIDE DEF X, Rest
  <2> QED
    BY <1>12, <1>14
<1> DEFINE T == [j \in X |-> {v \in S : v.next \in {0} \cup j + 1..n + 1}]
<1>17. \A j \in X : T[j] = {v \in S : v.next \in {0} \cup j + 1..n + 1}
  <2> HIDE DEF X, S
  <2> QED
    OBVIOUS
<1> HIDE DEF T
<1>18. ASSUME NEW j \in X, \A k \in X : rank[k] < rank[j] => body[k] \in T[k]
       PROVE  body[j] \in T[j]
  <2>1. CASE ends(j)
    <3>1. body[j] = end(j)
      BY <1>16, <2>1
    <3>2. end(j) \in S /\ end(j).next \in {0} \cup j + 1..n + 1
      BY <1>4, <2>1
    <3> QED
      BY <1>17, <3>1, <3>2
  <2>2. CASE ~ends(j)
    <3>1. PICK k \in X : k = onward(j) /\ k > j /\ rank[k] < rank[j]
      BY <1>1, <2>2
    <3> HIDE DEF onward, ends, S, rank
    <3>2. body[k] \in S /\ body[k].next \in {0} \cup k + 1..n + 1
      BY <1>17, <1>18, <3>1
    <3>3. body[j] = put(j, body[k])
      BY <1>16, <2>2, <3>1
    <3>4. body[j] \in S /\ body[j].next = body[k].next
      BY <1>5, <2>2, <3>2, <3>3
    <3>5. body[k].next \in {0} \cup j + 1..n + 1
      <4> DEFINE to == body[k].next
      <4>1. to \in {0} \cup k + 1..n + 1
        BY <3>2
      <4> HIDE DEF to
      <4>2. to \in {0} \cup j + 1..n + 1
        BY <3>1, <4>1
      <4> QED
        BY <4>2 DEF to
    <3> QED
      BY <1>17, <3>4, <3>5
  <2> QED
    BY <2>1, <2>2
<1>19. Within(X, T, body)
  <2>1. Descends(X, T, body, rank)
    <3> HIDE DEF X, rank
    <3> QED
      BY <1>8, <1>18 DEF Descends
  <2> HIDE DEF X, rank
  <2> QED
    BY <2>1, RankedTyping
<1>20. \A j \in X : body[j] \in S /\ body[j].next \in {0} \cup j + 1..n + 1
  <2> SUFFICES ASSUME NEW j \in X PROVE body[j] \in S /\ body[j].next \in {0} \cup j + 1..n + 1
    OBVIOUS
  <2> HIDE DEF X, S
  <2>1. body[j] \in T[j]
    BY <1>19 DEF Within
  <2> QED
    BY <1>17, <2>1
<1>21. n + 1 \in X /\ body[n + 1].next = 0
  <2>1. n + 1 \in X /\ n + 1 > n
    OBVIOUS
  <2>2. body[n + 1] = [text |-> <<>>, next |-> 0]
    BY <1>16, <2>1
  <2> QED
    BY <2>1, <2>2
<1>22. ASSUME NEW j \in 1..n, s[j] = Quote PROVE body[j].text = <<>> /\ body[j].next = j + 1
  <2>1. j \in X /\ ~(j > n)
    OBVIOUS
  <2>2. body[j] = [text |-> <<>>, next |-> j + 1]
    BY <1>16, <1>22, <2>1
  <2> QED
    BY <2>2
<1>23. ASSUME NEW j \in 1..n, s[j] # Quote
       PROVE  /\ body[j].text = Cat(<<LiteralChar(s, j)>>, body[LiteralOn(s, j)].text)
              /\ body[j].next = body[LiteralOn(s, j)].next
  <2>1. j \in X /\ ~ends(j)
    BY <1>23
  <2>2. LiteralOn(s, j) = onward(j) /\ LiteralChar(s, j) = char(j)
    BY DEF LiteralOn, LiteralChar
  <2>3. PICK k \in X : k = onward(j)
    BY <1>1, <2>1
  <2>4. body[j] = put(j, body[k])
    BY <1>16, <2>1, <2>3
  <2> DEFINE v == body[k]
  <2> HIDE DEF onward, ends, X, char, S
  <2>5. put(j, v) = [v EXCEPT !.text = <<char(j)>> \o @] /\ v \in S
    BY <1>20 DEF put
  <2> HIDE DEF v
  <2>6. put(j, v).text = <<char(j)>> \o v.text /\ put(j, v).next = v.next
    BY <2>5 DEF S
  <2> QED
    BY <2>2, <2>3, <2>4, <2>6 DEF v, Cat
<1> QED
  <2> HIDE DEF X, S
  <2>1. Literal(s, body)
    BY <1>15a, <1>20, <1>21, <1>22, <1>23 DEF Literal, X
  <2> QED
    BY <1>15, <2>1

(* A string literal that closes ends further on. *)
LEMMA StringTokenIs ==
  ASSUME NEW s, Len(s) \in Nat, NEW i \in 1..Len(s)
  PROVE  StringToken(s, i).kind = "string" /\ StringToken(s, i).next \in {0} \cup i + 1..Len(s) + 1
<1> DEFINE n == Len(s)
           whole == LiteralFrom(s)[i + 1]
           to == whole.next
           cut == SubSeq(whole.text, 1, Min({Len(whole.text), StringCap}))
<1>1. i + 1 \in 1..n + 1
  OBVIOUS
<1>2. Literal(s, LiteralFrom(s))
  BY LiteralIs
<1>3. StringToken(s, i) = [kind |-> "string", next |-> to, text |-> cut]
  BY <1>2 DEF Literal
<1>4. to \in {0} \cup (i + 1) + 1..n + 1
  BY <1>1, <1>2 DEF Literal
<1> HIDE DEF to, cut
<1>5. to \in {0} \cup i + 1..n + 1
  BY <1>4
<1> QED
  BY <1>3, <1>5

Atoms == {"symbol", "keyword", "string", "number", ":", "@"}

(* A number ends past its first character. *)
LEMMA DigitsEnd ==
  ASSUME NEW s, Len(s) \in Nat, NEW j \in 1..Len(s) + 1
  PROVE  /\ EndOfRun(s, j, LAMBDA c : c \in Digits) \in j..Len(s) + 1
         /\ (j <= Len(s) /\ s[j] \in Digits) =>
              EndOfRun(s, j, LAMBDA c : c \in Digits) \in j + 1..Len(s) + 1
<1> DEFINE n == Len(s)
           stops == {k \in j..n : ~(s[k] \in Digits)}
<1>1. EndOfRun(s, j, LAMBDA c : c \in Digits) = EndOf(stops, n)
  BY DEF EndOfRun, EndOf
<1>2. stops \in SUBSET (j..n) /\ (s[j] \in Digits => j \notin stops)
  OBVIOUS
<1> HIDE DEF stops
<1>3. EndOf(stops, n) \in j..n + 1
  BY <1>2, EndOfIs
<1>4. (j <= n /\ s[j] \in Digits) => EndOf(stops, n) \in j + 1..n + 1
  BY <1>2, EndOfMoves
<1> QED
  BY <1>1, <1>3, <1>4

LEMMA NumberEndIs ==
  ASSUME NEW s, Len(s) \in Nat, NEW i \in 1..Len(s), StartsNumber(s, i)
  PROVE  NumberEnd(s, i) \in i + 1..Len(s) + 1
<1> DEFINE n == Len(s)
           first == IF s[i] \in Digits THEN i ELSE i + 1
           whole == EndOfRun(s, first, LAMBDA c : c \in Digits)
           part == EndOfRun(s, whole + 1, LAMBDA c : c \in Digits)
           pointed == whole < n /\ s[whole] = "." /\ s[whole + 1] \in Digits
<1>1. NumberEnd(s, i) = IF pointed THEN part ELSE whole
  BY DEF NumberEnd
<1>2. whole \in i + 1..n + 1
  <2>1. CASE s[i] \in Digits
    <3>1. i \in 1..n + 1 /\ i <= n /\ first = i
      BY <2>1
    <3> HIDE DEF first
    <3>2. (i <= n /\ s[i] \in Digits) => whole \in i + 1..n + 1
      BY <3>1, DigitsEnd
    <3> QED
      BY <2>1, <3>1, <3>2
  <2>2. CASE s[i] \notin Digits
    <3>1. i + 1 \in 1..n + 1 /\ first = i + 1
      BY <2>2
    <3> HIDE DEF first
    <3>2. whole \in i + 1..n + 1
      BY <3>1, DigitsEnd
    <3> QED
      BY <3>2
  <2> QED
    BY <2>1, <2>2
<1> HIDE DEF whole
<1>3. CASE pointed
  <2>1. whole + 1 \in 1..n + 1
    BY <1>2, <1>3
  <2>2. part \in whole + 1..n + 1
    BY <2>1, DigitsEnd
  <2> HIDE DEF part
  <2> QED
    BY <1>1, <1>2, <1>3, <2>2
<1> QED
  BY <1>1, <1>2, <1>3

(* Where a name ends. *)
LEMMA NameEnds ==
  ASSUME NEW s, Len(s) \in Nat, NEW j \in 1..Len(s) + 1
  PROVE  /\ EndOfRun(s, j, IsSymbolChar) \in j..Len(s) + 1
         /\ (j <= Len(s) /\ IsSymbolChar(s[j])) =>
              EndOfRun(s, j, IsSymbolChar) \in j + 1..Len(s) + 1
<1> DEFINE n == Len(s)
           stops == {k \in j..n : ~IsSymbolChar(s[k])}
<1>1. EndOfRun(s, j, IsSymbolChar) = EndOf(stops, n)
  BY DEF EndOfRun, EndOf
<1>2. stops \in SUBSET (j..n) /\ (IsSymbolChar(s[j]) => j \notin stops)
  OBVIOUS
<1> HIDE DEF stops
<1>3. EndOf(stops, n) \in j..n + 1
  BY <1>2, EndOfIs
<1>4. (j <= n /\ IsSymbolChar(s[j])) => EndOf(stops, n) \in j + 1..n + 1
  BY <1>2, EndOfMoves
<1> QED
  BY <1>1, <1>3, <1>4

(* Every token but the end of the file takes at least a character, or is a string
   that never closes. *)
Taken(s, i, t) ==
  /\ t.kind \in Bracket \cup Atoms
  /\ t.next \in {0} \cup i + 1..Len(s) + 1
  /\ t.next = 0 => t.kind = "string"

LEMMA TokenAtIs ==
  ASSUME NEW s, Len(s) \in Nat, NEW i \in 1..Len(s) + 1, ~Blank(s, i)
  PROVE  IF i > Len(s) THEN TokenAt(s, i).kind = "eof" /\ TokenAt(s, i).next = i
         ELSE Taken(s, i, TokenAt(s, i))
<1> DEFINE n == Len(s)
           t == TokenAt(s, i)
           upTo(kind, end) == [kind |-> kind, next |-> end, text |-> SubSeq(s, i, end - 1)]
           punct(kind)     == [kind |-> kind, next |-> i + 1, text |-> <<>>]
<1>1. CASE i > n
  BY <1>1 DEF TokenAt
<1>2. CASE ~(i > n)
  <2>0. i \in 1..n /\ i + 1 \in 1..n + 1 /\ 0 \notin i + 1..n + 1
    BY <1>2
  <2>1. s[i] \notin Spaces \cup {Semicolon}
    BY <1>2 DEF Blank
  <2>2. ASSUME NEW kind, NEW end PROVE upTo(kind, end).kind = kind /\ upTo(kind, end).next = end
    OBVIOUS
  <2>3. ASSUME NEW kind PROVE punct(kind).kind = kind /\ punct(kind).next = i + 1
    OBVIOUS
  <2>4. t = IF s[i] \in Openings \cup Closings \cup {"@"} THEN punct(s[i])
            ELSE IF s[i] = Quote THEN StringToken(s, i)
            ELSE IF s[i] = ":" THEN
                   IF KeywordAt(s, i) THEN upTo("keyword", EndOfRun(s, i + 1, IsSymbolChar))
                   ELSE punct(":")
            ELSE IF StartsNumber(s, i) THEN upTo("number", NumberEnd(s, i))
            ELSE upTo("symbol", EndOfRun(s, i, IsSymbolChar))
    BY <1>2 DEF TokenAt
  <2> HIDE DEF t, upTo, punct
  <2>5. CASE s[i] \in Openings \cup Closings \cup {"@"}
    <3>1. t = punct(s[i])
      BY <2>4, <2>5
    <3>2. t.kind = s[i] /\ t.next = i + 1
      BY <2>3, <3>1
    <3> QED
      BY <1>2, <2>0, <2>5, <3>2 DEF Taken, Atoms, Bracket, t
  <2>6. CASE s[i] \notin Openings \cup Closings \cup {"@"} /\ s[i] = Quote
    <3>1. t = StringToken(s, i)
      BY <2>4, <2>6
    <3>2. t.kind = "string" /\ t.next \in {0} \cup i + 1..n + 1
      BY <2>0, <3>1, StringTokenIs
    <3> QED
      BY <1>2, <2>0, <3>2 DEF Taken, Atoms, t
  <2>7. CASE s[i] \notin Openings \cup Closings \cup {"@"} /\ s[i] # Quote /\ s[i] = ":"
    <3>1. CASE KeywordAt(s, i)
      <4>1. t = upTo("keyword", EndOfRun(s, i + 1, IsSymbolChar))
        BY <2>4, <2>7, <3>1
      <4>2. EndOfRun(s, i + 1, IsSymbolChar) \in i + 1..n + 1
        BY <2>0, NameEnds
      <4>3. t.kind = "keyword" /\ t.next \in i + 1..n + 1
        BY <2>2, <4>1, <4>2
      <4> QED
        BY <1>2, <2>0, <4>3 DEF Taken, Atoms, t
    <3>2. CASE ~KeywordAt(s, i)
      <4>1. t = punct(":")
        BY <2>4, <2>7, <3>2
      <4>2. t.kind = ":" /\ t.next = i + 1
        BY <2>3, <4>1
      <4> QED
        BY <1>2, <2>0, <4>2 DEF Taken, Atoms, t
    <3> QED
      BY <3>1, <3>2
  <2>8. CASE s[i] \notin Openings \cup Closings \cup {"@"} /\ s[i] # Quote /\ s[i] # ":"
    <3>1. CASE StartsNumber(s, i)
      <4>1. t = upTo("number", NumberEnd(s, i))
        BY <2>4, <2>8, <3>1
      <4>2. NumberEnd(s, i) \in i + 1..n + 1
        BY <2>0, <3>1, NumberEndIs
      <4>3. t.kind = "number" /\ t.next \in i + 1..n + 1
        BY <2>2, <4>1, <4>2
      <4> QED
        BY <1>2, <2>0, <4>3 DEF Taken, Atoms, t
    <3>2. CASE ~StartsNumber(s, i)
      <4>1. t = upTo("symbol", EndOfRun(s, i, IsSymbolChar))
        BY <2>4, <2>8, <3>2
      <4>2. IsSymbolChar(s[i])
        BY <2>1, <2>8 DEF IsSymbolChar
      <4>3. EndOfRun(s, i, IsSymbolChar) \in i + 1..n + 1
        <5>1. i \in 1..n + 1 /\ i <= n
          BY <2>0
        <5>2. (i <= n /\ IsSymbolChar(s[i])) => EndOfRun(s, i, IsSymbolChar) \in i + 1..n + 1
          BY <5>1, NameEnds
        <5> QED
          BY <4>2, <5>1, <5>2
      <4>4. t.kind = "symbol" /\ t.next \in i + 1..n + 1
        BY <2>2, <4>1, <4>3
      <4> QED
        BY <1>2, <2>0, <4>4 DEF Taken, Atoms, t
    <3> QED
      BY <3>1, <3>2
  <2> QED
    BY <2>5, <2>6, <2>7, <2>8
<1> QED
  BY <1>1, <1>2

(* The token after place i, as the reader meets it and as it is recorded. *)
TokenAfter(s, i) == TokenAt(s, SkipBlank(s, i))
Recorded(s, i) == [kind |-> TokenAfter(s, i).kind, text |-> TokenAfter(s, i).text,
                   line |-> LineOf(s, SkipBlank(s, i))]
Broken(s, i) == [Recorded(s, i) EXCEPT !.kind = "unterminated", !.text = <<>>]
TokensIn(s) == {Recorded(s, i) : i \in 1..Len(s) + 1} \cup {Broken(s, i) : i \in 1..Len(s) + 1}

(* The tokens from place i on, given those from later places on. *)
TokensAt(s, f, i) ==
  IF TokenAfter(s, i).kind = "eof" THEN <<>>
  ELSE IF TokenAfter(s, i).next = 0 THEN <<Broken(s, i)>>
  ELSE Cat(<<Recorded(s, i)>>, f[TokenAfter(s, i).next])
TokensFrom(s) == CHOOSE f : f = [i \in 1..Len(s) + 1 |-> TokensAt(s, f, i)]

LEMMA TokenAfterIs ==
  ASSUME NEW s, Len(s) \in Nat, NEW i \in 1..Len(s) + 1
  PROVE  /\ SkipBlank(s, i) \in i..Len(s) + 1
         /\ IF SkipBlank(s, i) > Len(s)
            THEN TokenAfter(s, i).kind = "eof" /\ TokenAfter(s, i).next = Len(s) + 1
            ELSE /\ TokenAfter(s, i).kind \in Bracket \cup Atoms
                 /\ TokenAfter(s, i).next \in {0} \cup i + 1..Len(s) + 1
                 /\ TokenAfter(s, i).next = 0 => TokenAfter(s, i).kind = "string"
<1> DEFINE n == Len(s)
           at == SkipBlank(s, i)
           t == TokenAt(s, at)
<1>1. at \in i..n + 1 /\ ~Blank(s, at)
  BY SkipBlankIs
<1> HIDE DEF at
<1>2. at \in 1..n + 1
  BY <1>1
<1>3. IF at > n THEN t.kind = "eof" /\ t.next = at ELSE Taken(s, at, t)
  BY <1>1, <1>2, TokenAtIs
<1>4. TokenAfter(s, i) = t
  BY DEF TokenAfter, at
<1> HIDE DEF t
<1>5. CASE at > n
  BY <1>1, <1>2, <1>3, <1>4, <1>5 DEF at
<1>6. CASE ~(at > n)
  <2>1. t.kind \in Bracket \cup Atoms /\ (t.next = 0 => t.kind = "string")
        /\ t.next \in {0} \cup at + 1..n + 1
    BY <1>3, <1>6 DEF Taken
  <2> DEFINE to == t.next
  <2>2. to \in {0} \cup at + 1..n + 1
    BY <2>1
  <2> HIDE DEF to
  <2>3. to \in {0} \cup i + 1..n + 1
    BY <1>1, <2>2
  <2> QED
    BY <1>1, <1>4, <1>6, <2>1, <2>3 DEF to, at
<1> QED
  BY <1>5, <1>6

(* No token is the end of the file and a string at once. *)
LEMMA KindsDiffer ==
  /\ "eof" \notin Bracket \cup Atoms /\ "unterminated" \notin Bracket \cup Atoms
  /\ Bracket \cap Atoms = {}
<1>1. Bracket = {"(", "[", "{", ")", "]", "}"}
  BY BracketsDiffer DEF Bracket
<1> QED
  BY <1>1 DEF Atoms

LEMMA TokensUnfold ==
  ASSUME NEW s, Len(s) \in Nat
  PROVE  /\ Tokens(s) = TokensFrom(s)[1]
         /\ TokensFrom(s) \in [1..Len(s) + 1 -> Seq(TokensIn(s))]
         /\ \A i \in 1..Len(s) + 1 : TokensFrom(s)[i] = TokensAt(s, TokensFrom(s), i)
<1> DEFINE n == Len(s)
           X == 1..n + 1
           S == Seq(TokensIn(s))
           ends(i) == TokenAfter(s, i).kind = "eof" \/ TokenAfter(s, i).next = 0
           end(i) == IF TokenAfter(s, i).kind = "eof" THEN <<>> ELSE <<Broken(s, i)>>
           to(i) == TokenAfter(s, i).next
           Is(f) == f = [i \in X |-> TokensAt(s, f, i)]
           stop == {i \in X : ends(i)}
           base == [i \in X |-> end(i)]
           step == [p \in X \X S |-> Cat(<<Recorded(s, p[1])>>, p[2])]
           next == [i \in X |-> IF ends(i) THEN i ELSE to(i)]
           rank == [i \in X |-> n + 1 - i]
<1>1. \A i \in X : ~ends(i) => to(i) \in X /\ to(i) > i
  <2> SUFFICES ASSUME NEW i \in X, ~ends(i) PROVE to(i) \in X /\ to(i) > i
    OBVIOUS
  <2>1. to(i) \in {0} \cup i + 1..n + 1
    BY TokenAfterIs
  <2> QED
    BY <2>1
<1>2. \A i \in X : end(i) \in S
  <2> SUFFICES ASSUME NEW i \in X PROVE end(i) \in S
    OBVIOUS
  <2>1. Broken(s, i) \in TokensIn(s)
    BY DEF TokensIn
  <2> QED
    BY <2>1
<1>3. \A i \in X, v \in S : Cat(<<Recorded(s, i)>>, v) \in S
  <2> SUFFICES ASSUME NEW i \in X, NEW v \in S PROVE Cat(<<Recorded(s, i)>>, v) \in S
    OBVIOUS
  <2>1. Recorded(s, i) \in TokensIn(s)
    BY DEF TokensIn
  <2> QED
    BY <2>1, ConsIs
<1> HIDE DEF S, to, ends, end
<1>4. base \in [X -> S] /\ step \in [X \X S -> S]
      /\ \A i \in X, v \in S : step[<<i, v>>] = Cat(<<Recorded(s, i)>>, v)
  <2> HIDE DEF X
  <2> QED
    BY <1>2, <1>3
<1>5. /\ next \in [X -> X] /\ rank \in [X -> Nat]
      /\ \A i \in X : rank[i] = n + 1 - i /\ rank[i] <= n
      /\ \A i \in X \ stop : next[i] = to(i)
  BY <1>1
<1>6. \A i \in X \ stop : rank[next[i]] < rank[i]
  <2> SUFFICES ASSUME NEW i \in X, ~ends(i) PROVE rank[next[i]] < rank[i]
    OBVIOUS
  <2>1. to(i) \in X /\ to(i) > i /\ next[i] = to(i)
    BY <1>1, <1>5
  <2> HIDE DEF rank, next
  <2> QED
    BY <1>5, <2>1
<1>7. PICK f \in [X -> S] : \A i \in X : f[i] = IF i \in stop THEN base[i] ELSE step[<<i, f[next[i]]>>]
  <2> HIDE DEF X, stop, base, step, next, rank
  <2>1. Unfoldings(X, S, stop, base, step, next) # {}
    BY <1>4, <1>5, <1>6, RankedRecursion
  <2> QED
    BY <2>1 DEF Unfoldings
<1>8. \A i \in X : f[i] = TokensAt(s, f, i)
  <2> SUFFICES ASSUME NEW i \in X PROVE f[i] = TokensAt(s, f, i)
    OBVIOUS
  <2>1. CASE ends(i)
    <3>1. f[i] = end(i)
      BY <1>7, <2>1
    <3> QED
      BY <2>1, <3>1 DEF TokensAt, ends, end
  <2>2. CASE ~ends(i)
    <3>1. to(i) \in X /\ next[i] = to(i) /\ i \notin stop
      BY <1>1, <1>5, <2>2
    <3> HIDE DEF stop, step, next, base, X
    <3>2. f[to(i)] \in S /\ f[i] = step[<<i, f[to(i)]>>]
      BY <1>7, <3>1
    <3>3. f[i] = Cat(<<Recorded(s, i)>>, f[to(i)])
      BY <1>4, <3>2
    <3> QED
      BY <2>2, <3>3 DEF TokensAt, ends, to
  <2> QED
    BY <2>1, <2>2
<1>9. Is(f)
  <2>1. f = [i \in X |-> f[i]]
    OBVIOUS
  <2> HIDE DEF X, S
  <2> QED
    BY <1>8, <2>1
<1> DEFINE from == CHOOSE g : Is(g)
<1>10. Is(from)
  <2> HIDE DEF Is
  <2> QED
    BY <1>9
<1>11. TokensFrom(s) = from
  BY DEF TokensFrom
<1>12. Tokens(s) = from[1]
  BY DEF Tokens, TokensAt, TokenAfter, Recorded, Broken, Cat
<1> HIDE DEF from
<1>13. \A i \in X : from[i] = TokensAt(s, from, i)
  BY <1>10
<1>14. from = [i \in X |-> from[i]]
  <2> HIDE DEF X
  <2>1. DOMAIN from = X
    BY <1>10
  <2>2. from = [i \in DOMAIN from |-> from[i]]
    BY <1>10
  <2> QED
    BY <2>1, <2>2
<1> DEFINE T == [i \in X |-> S]
<1>15. ASSUME NEW i \in X, \A j \in X : rank[j] < rank[i] => from[j] \in T[j]
       PROVE  from[i] \in T[i]
  <2>1. CASE ends(i)
    <3>1. from[i] = end(i)
      BY <1>13, <2>1 DEF TokensAt, ends, end
    <3> QED
      BY <1>2, <3>1
  <2>2. CASE ~ends(i)
    <3>1. to(i) \in X /\ rank[to(i)] < rank[i]
      BY <1>1, <1>5, <1>6, <2>2
    <3>2. from[to(i)] \in S
      BY <1>15, <3>1
    <3>3. from[i] = Cat(<<Recorded(s, i)>>, from[to(i)])
      BY <1>13, <2>2 DEF TokensAt, ends, to
    <3> QED
      BY <1>3, <3>2, <3>3
  <2> QED
    BY <2>1, <2>2
<1>16. Within(X, T, from)
  <2>1. Descends(X, T, from, rank)
    <3> HIDE DEF X, T, rank
    <3> QED
      BY <1>5, <1>15 DEF Descends
  <2> HIDE DEF X, T, rank
  <2> QED
    BY <2>1, RankedTyping
<1>17. from \in [X -> S]
  <2>1. \A i \in X : from[i] \in S
    BY <1>16 DEF Within
  <2> HIDE DEF X
  <2> QED
    BY <1>14, <2>1
<1> QED
  BY <1>11, <1>12, <1>13, <1>17 DEF S

-----------------------------------------------------------------------------
(* The reader's stack, against the tokens.                                 *)

(* A sequence and nothing. *)
LEMMA CatNothing ==
  ASSUME NEW S, NEW s \in Seq(S)
  PROVE  Cat(s, <<>>) = s /\ Cat(<<>>, s) = s
BY ConcatEmptySeq DEF Cat

(* A suffix of a sequence that ends in x. *)
LEMMA SuffixOfCat ==
  ASSUME NEW S, NEW s \in Seq(S), NEW x \in S, NEW m \in 0..Len(s)
  PROVE  Suffix(Cat(s, <<x>>), m) = Cat(Suffix(s, m), <<x>>)
<1> DEFINE one == <<x>>
           t == Cat(s, one)
           n == Len(s)
           left == Suffix(s, m)
<1>1. one \in Seq(S) /\ Len(one) = 1 /\ n \in Nat
  BY LenProperties
<1> HIDE DEF one
<1>2. t \in Seq(S) /\ Len(t) = n + 1
  BY <1>1, CatIsSeq, CatLength
<1>3. \A i \in 1..n : t[i] = s[i]
  BY <1>1, CatFirst
<1>4. t[n + 1] = one[1]
  <2>1. s \in Seq(S) /\ one \in Seq(S) /\ 1 \in 1..Len(one)
    BY <1>1
  <2>2. ASSUME NEW i \in 1..Len(one) PROVE Cat(s, one)[Len(s) + i] = one[i]
    BY <2>1, CatSecond
  <2> QED
    BY <2>1, <2>2
<1> HIDE DEF t
<1>5. m \in 0..Len(t)
  BY <1>1, <1>2
<1>6. /\ Suffix(t, m) \in Seq(S) /\ Len(Suffix(t, m)) = Len(t) - m
      /\ \A i \in 1..Len(t) - m : Suffix(t, m)[i] = t[m + i]
  BY <1>2, <1>5, SuffixIs
<1>7. /\ left \in Seq(S) /\ Len(left) = n - m
      /\ \A i \in 1..n - m : left[i] = s[m + i]
  BY SuffixIs
<1> HIDE DEF left
<1>8. Cat(left, one) \in Seq(S) /\ Len(Cat(left, one)) = (n - m) + 1
  BY <1>1, <1>7, CatIsSeq, CatLength
<1>9. \A i \in 1..n - m : Cat(left, one)[i] = left[i]
  BY <1>1, <1>7, CatFirst
<1>10. Cat(left, one)[(n - m) + 1] = one[1]
  <2>1. 1 \in 1..Len(one) /\ one \in Seq(S) /\ left \in Seq(S)
    BY <1>1, <1>7
  <2>2. Cat(left, one)[Len(left) + 1] = one[1]
    BY <2>1, CatSecond
  <2> QED
    BY <1>7, <2>2
<1>11. Len(Suffix(t, m)) = Len(Cat(left, one))
  BY <1>1, <1>2, <1>6, <1>8
<1>12. ASSUME NEW i \in 1..Len(t) - m PROVE Suffix(t, m)[i] = Cat(left, one)[i]
  <2>1. Suffix(t, m)[i] = t[m + i]
    BY <1>6
  <2>2. CASE i = (n - m) + 1
    <3>1. m + i = n + 1
      BY <1>1, <2>2
    <3> QED
      BY <1>4, <1>10, <2>1, <2>2, <3>1
  <2>3. CASE i # (n - m) + 1
    <3>1. i \in 1..n - m /\ m + i \in 1..n
      BY <1>1, <1>2, <2>3
    <3> QED
      BY <1>3, <1>7, <1>9, <2>1, <3>1
  <2> QED
    BY <2>2, <2>3
<1>13. Suffix(t, m) = Cat(left, one)
  BY <1>6, <1>8, <1>11, <1>12, SameElements
<1> QED
  BY <1>13 DEF t, one, left

(* Of the tokens tk the first m are read and rest is to come.  o are the brackets
   that are open, l the lines of their tokens: for each, what follows its token
   cancels to what is open inside it and what is to come. *)
Opened(tk, m, o, l, rest, d) ==
  \E i \in 0..m :
    /\ IF d = 0 THEN i = 0 ELSE i > 0 /\ tk[i].kind = o[d] /\ tk[i].line = l[d]
    /\ Cancelled(Brackets(Suffix(tk, i))) = Cancelled(Cat(Suffix(o, d), Brackets(rest)))
Tracks(tk, m, o, l, rest) ==
  /\ m \in 0..Len(tk) /\ Suffix(tk, m) = rest
  /\ \A j \in 1..m : tk[j].kind # "unterminated"
  /\ o \in Seq(Openings) /\ l \in Seq(Nat) /\ Len(l) = Len(o)
  /\ \A d \in 0..Len(o) : Opened(tk, m, o, l, rest, d)

(* What every token does to it: the next one is read. *)
Reads(tk, m, x, r, all) ==
  /\ m + 1 \in 1..Len(tk) /\ tk[m + 1] = x /\ Suffix(tk, m + 1) = r
  /\ \A j \in 1..m + 1 : tk[j].kind # "unterminated"
  /\ \A i \in 0..m : i \in 0..m + 1
  /\ Brackets(r) \in Seq(Bracket)
  /\ Brackets(all) = IF x.kind \in Bracket THEN Cat(<<x.kind>>, Brackets(r)) ELSE Brackets(r)

LEMMA TokenIsRead ==
  ASSUME NEW S, NEW tk \in Seq(S), NEW m, NEW o, NEW l, NEW x \in S, NEW r \in Seq(S),
         NEW all, all = Cat(<<x>>, r), Tracks(tk, m, o, l, all), x.kind # "unterminated"
  PROVE  Reads(tk, m, x, r, all)
<1>1. m \in 0..Len(tk) /\ Suffix(tk, m) = Cat(<<x>>, r) /\ \A j \in 1..m : tk[j].kind # "unterminated"
  BY DEF Tracks
<1>2. m + 1 \in 1..Len(tk) /\ tk[m + 1] = x /\ Suffix(tk, m + 1) = r
  BY <1>1, SuffixAdvances
<1>3. \A j \in 1..m + 1 : j \in 1..m \/ j = m + 1
  BY <1>1
<1>4. \A i \in 0..m : i \in 0..m + 1
  BY <1>1
<1>5. Len(r) \in Nat
  BY LenProperties
<1>6. Brackets(r) \in Seq(Bracket)
  BY <1>5, BracketsAre
<1>7. Brackets(all) = IF x.kind \in Bracket THEN Cat(<<x.kind>>, Brackets(r)) ELSE Brackets(r)
  BY BracketsOfCons
<1> QED
  BY <1>1, <1>2, <1>3, <1>4, <1>6, <1>7 DEF Reads

(* An atom, ... *)
LEMMA AtomTracks ==
  ASSUME NEW S, NEW tk \in Seq(S), NEW m, NEW o, NEW l, NEW x \in S, NEW r \in Seq(S),
         NEW all, all = Cat(<<x>>, r), Tracks(tk, m, o, l, all), x.kind # "unterminated", x.kind \notin Bracket
  PROVE  Tracks(tk, m + 1, o, l, r)
<1>1. /\ m + 1 \in 1..Len(tk) /\ Suffix(tk, m + 1) = r /\ Brackets(all) = Brackets(r)
      /\ \A j \in 1..m + 1 : tk[j].kind # "unterminated"
      /\ \A i \in 0..m : i \in 0..m + 1
  <2>1. Reads(tk, m, x, r, all)
    BY TokenIsRead
  <2> QED
    BY <2>1 DEF Reads
<1>2. m + 1 \in 0..Len(tk)
  BY <1>1
<1>3. /\ o \in Seq(Openings) /\ l \in Seq(Nat) /\ Len(l) = Len(o)
      /\ \A d \in 0..Len(o) : Opened(tk, m, o, l, all, d)
  BY DEF Tracks
<1>4. \A d \in 0..Len(o) : Opened(tk, m + 1, o, l, r, d)
  BY <1>1, <1>3 DEF Opened
<1> QED
  BY <1>1, <1>2, <1>3, <1>4 DEF Tracks

(* ... an opening bracket, ... *)
LEMMA OpeningTracks ==
  ASSUME NEW S, NEW tk \in Seq(S), NEW m, NEW o, NEW l, NEW x \in S, NEW r \in Seq(S),
         NEW all, all = Cat(<<x>>, r), Tracks(tk, m, o, l, all), x.kind \in Openings, x.line \in Nat
  PROVE  Tracks(tk, m + 1, Cat(o, <<x.kind>>), Cat(l, <<x.line>>), r)
<1> DEFINE k == x.kind
           o2 == Cat(o, <<k>>)
           l2 == Cat(l, <<x.line>>)
           rs == Brackets(r)
<1>0. k \in Bracket /\ k # "unterminated" /\ k \in Openings
  BY KindsDiffer DEF Bracket
<1>1. /\ m + 1 \in 1..Len(tk) /\ tk[m + 1] = x /\ Suffix(tk, m + 1) = r
      /\ Brackets(all) = Cat(<<k>>, rs) /\ rs \in Seq(Bracket)
      /\ \A j \in 1..m + 1 : tk[j].kind # "unterminated"
      /\ \A i \in 0..m : i \in 0..m + 1
  <2>1. Reads(tk, m, x, r, all)
    BY <1>0, TokenIsRead
  <2> QED
    BY <1>0, <2>1 DEF Reads
<1>2. /\ o \in Seq(Openings) /\ l \in Seq(Nat) /\ Len(l) = Len(o) /\ Len(o) \in Nat
      /\ \A d \in 0..Len(o) : Opened(tk, m, o, l, all, d)
  BY LenProperties DEF Tracks
<1> HIDE DEF rs, k
<1>3. <<k>> \in Seq(Openings) /\ <<k>> \in Seq(Bracket) /\ Len(<<k>>) = 1 /\ <<k>>[1] = k
      /\ <<x.line>> \in Seq(Nat) /\ Len(<<x.line>>) = 1 /\ <<x.line>>[1] = x.line
  BY <1>0
<1> DEFINE one == <<k>>
           line == <<x.line>>
<1> HIDE DEF one, line
<1>4. o2 \in Seq(Openings) /\ Len(o2) = Len(o) + 1 /\ l2 \in Seq(Nat) /\ Len(l2) = Len(o) + 1
  <2>1. Cat(o, one) \in Seq(Openings) /\ Len(Cat(o, one)) = Len(o) + 1
    BY <1>2, <1>3, CatIsSeq, CatLength DEF one
  <2>2. Cat(l, line) \in Seq(Nat) /\ Len(Cat(l, line)) = Len(o) + 1
    BY <1>2, <1>3, CatIsSeq, CatLength DEF line
  <2> QED
    BY <2>1, <2>2 DEF one, line
<1>5. /\ \A d \in 1..Len(o) : o2[d] = o[d] /\ l2[d] = l[d]
      /\ o2[Len(o) + 1] = k /\ l2[Len(o) + 1] = x.line
  <2>1. one \in Seq(Openings) /\ line \in Seq(Nat) /\ 1 \in 1..Len(one) /\ 1 \in 1..Len(line)
    BY <1>3 DEF one, line
  <2>2. \A d \in 1..Len(o) : Cat(o, one)[d] = o[d]
    BY <1>2, <2>1, CatFirst
  <2>3. \A d \in 1..Len(l) : Cat(l, line)[d] = l[d]
    BY <1>2, <2>1, CatFirst
  <2>4. Cat(o, one)[Len(o) + 1] = one[1]
    <3>1. o \in Seq(Openings) /\ one \in Seq(Openings)
      BY <1>2, <2>1
    <3>2. ASSUME NEW i \in 1..Len(one) PROVE Cat(o, one)[Len(o) + i] = one[i]
      BY <3>1, CatSecond
    <3> QED
      BY <2>1, <3>2
  <2>5. Cat(l, line)[Len(l) + 1] = line[1]
    <3>1. l \in Seq(Nat) /\ line \in Seq(Nat)
      BY <1>2, <2>1
    <3>2. ASSUME NEW i \in 1..Len(line) PROVE Cat(l, line)[Len(l) + i] = line[i]
      BY <3>1, CatSecond
    <3> QED
      BY <2>1, <3>2
  <2> QED
    BY <1>2, <1>3, <2>2, <2>3, <2>4, <2>5 DEF one, line
<1>6. ASSUME NEW d \in 0..Len(o) PROVE Opened(tk, m + 1, o2, l2, r, d)
  <2>1. PICK i \in 0..m :
          /\ IF d = 0 THEN i = 0 ELSE i > 0 /\ tk[i].kind = o[d] /\ tk[i].line = l[d]
          /\ Cancelled(Brackets(Suffix(tk, i))) = Cancelled(Cat(Suffix(o, d), Brackets(all)))
    BY <1>2 DEF Opened
  <2>2. i \in 0..m + 1
    BY <1>1
  <2>3. d # 0 => d \in 1..Len(o)
    BY <1>2
  <2>4. Suffix(o2, d) = Cat(Suffix(o, d), <<k>>)
    BY <1>0, <1>2, SuffixOfCat
  <2>5. Cat(Cat(Suffix(o, d), <<k>>), rs) = Cat(Suffix(o, d), Cat(<<k>>, rs))
    <3>1. Suffix(o, d) \in Seq(Openings)
      BY <1>2, SuffixIs
    <3>2. Suffix(o, d) \in Seq(Bracket)
      BY <3>1, OpeningsStay
    <3>3. one \in Seq(Bracket) /\ rs \in Seq(Bracket)
      BY <1>1, <1>3 DEF one
    <3>4. Cat(Cat(Suffix(o, d), one), rs) = Cat(Suffix(o, d), Cat(one, rs))
      BY <3>2, <3>3, CatAssociates
    <3> QED
      BY <3>4 DEF one
  <2>6. Cancelled(Brackets(Suffix(tk, i))) = Cancelled(Cat(Suffix(o2, d), rs))
    BY <1>1, <2>1, <2>4, <2>5
  <2>7. IF d = 0 THEN i = 0 ELSE i > 0 /\ tk[i].kind = o2[d] /\ tk[i].line = l2[d]
    BY <1>5, <2>1, <2>3
  <2> HIDE DEF o2, l2
  <2> QED
    BY <2>2, <2>6, <2>7 DEF Opened, rs
<1>7. Opened(tk, m + 1, o2, l2, r, Len(o) + 1)
  <2>1. Suffix(o2, Len(o) + 1) = <<>>
    <3>1. Len(o) + 1 \in 0..Len(o2)
      BY <1>2, <1>4
    <3>2. Suffix(o2, Len(o) + 1) \in Seq(Openings) /\ Len(Suffix(o2, Len(o) + 1)) = Len(o2) - (Len(o) + 1)
      BY <1>4, <3>1, SuffixIs
    <3>3. Len(Suffix(o2, Len(o) + 1)) = 0
      BY <1>2, <1>4, <3>2
    <3> QED
      BY <3>2, <3>3, EmptySeq
  <2>2. Cat(Suffix(o2, Len(o) + 1), rs) = rs
    BY <1>1, <2>1, CatNothing
  <2>3. m + 1 \in 0..m + 1 /\ m + 1 > 0 /\ Len(o) + 1 # 0
    BY <1>1, <1>2
  <2>4. tk[m + 1].kind = o2[Len(o) + 1] /\ tk[m + 1].line = l2[Len(o) + 1]
    BY <1>1, <1>5 DEF k
  <2> HIDE DEF o2, l2
  <2> QED
    BY <1>1, <2>2, <2>3, <2>4 DEF Opened, rs
<1>8. \A d \in 0..Len(o2) : d \in 0..Len(o) \/ d = Len(o) + 1
  BY <1>2, <1>4
<1>9. m + 1 \in 0..Len(tk) /\ Len(l2) = Len(o2)
  BY <1>1, <1>4
<1> HIDE DEF o2, l2
<1>10. \A d \in 0..Len(o2) : Opened(tk, m + 1, o2, l2, r, d)
  BY <1>6, <1>7, <1>8
<1>11. Tracks(tk, m + 1, o2, l2, r)
  BY <1>1, <1>4, <1>9, <1>10 DEF Tracks
<1> QED
  BY <1>11 DEF o2, l2, k

(* ... and the closer of the last bracket that is open. *)
LEMMA ClosingTracks ==
  ASSUME NEW S, NEW tk \in Seq(S), NEW m, NEW o \in Seq(Openings), NEW b \in Openings,
         NEW l \in Seq(Nat), NEW n \in Nat, Len(l) = Len(o), NEW x \in S, NEW r \in Seq(S),
         NEW all, all = Cat(<<x>>, r),
         Tracks(tk, m, Cat(o, <<b>>), Cat(l, <<n>>), all), x.kind = Closers[b]
  PROVE  Tracks(tk, m + 1, o, l, r)
<1> DEFINE k == x.kind
           o2 == Cat(o, <<b>>)
           l2 == Cat(l, <<n>>)
           rs == Brackets(r)
<1>0. k \in Bracket /\ k # "unterminated" /\ k = Closers[b] /\ b \in Bracket
  BY BracketsDiffer, KindsDiffer DEF Bracket
<1>1. /\ m + 1 \in 1..Len(tk) /\ Suffix(tk, m + 1) = r
      /\ Brackets(all) = Cat(<<k>>, rs) /\ rs \in Seq(Bracket)
      /\ \A j \in 1..m + 1 : tk[j].kind # "unterminated"
      /\ \A i \in 0..m : i \in 0..m + 1
  <2>1. Reads(tk, m, x, r, all)
    BY <1>0, TokenIsRead
  <2> QED
    BY <1>0, <2>1 DEF Reads
<1>2. /\ \A d \in 0..Len(o2) : Opened(tk, m, o2, l2, all, d)
      /\ Len(o) \in Nat
  BY LenProperties DEF Tracks
<1> HIDE DEF rs, k
<1> DEFINE one == <<b>>
           line == <<n>>
<1>3. one \in Seq(Openings) /\ Len(one) = 1 /\ line \in Seq(Nat) /\ one \in Seq(Bracket)
  BY <1>0
<1> HIDE DEF one, line
<1>4. Len(o2) = Len(o) + 1
  <2>1. Len(Cat(o, one)) = Len(o) + 1
    BY <1>3, CatLength
  <2> QED
    BY <2>1 DEF one
<1>5. \A d \in 1..Len(o) : o2[d] = o[d] /\ l2[d] = l[d]
  <2>1. \A d \in 1..Len(o) : Cat(o, one)[d] = o[d]
    BY <1>3, CatFirst
  <2>2. \A d \in 1..Len(l) : Cat(l, line)[d] = l[d]
    BY <1>3, CatFirst
  <2> QED
    BY <2>1, <2>2 DEF one, line
<1>6. ASSUME NEW d \in 0..Len(o) PROVE Opened(tk, m + 1, o, l, r, d)
  <2> DEFINE p == Suffix(o, d)
  <2>0. d \in 0..Len(o2) /\ (d # 0 => d \in 1..Len(o))
    BY <1>2, <1>4
  <2>1. PICK i \in 0..m :
          /\ IF d = 0 THEN i = 0 ELSE i > 0 /\ tk[i].kind = o2[d] /\ tk[i].line = l2[d]
          /\ Cancelled(Brackets(Suffix(tk, i))) = Cancelled(Cat(Suffix(o2, d), Brackets(all)))
    <3> HIDE DEF o2, l2
    <3> QED
      BY <1>2, <2>0 DEF Opened
  <2>2. i \in 0..m + 1
    BY <1>1
  <2>3. p \in Seq(Openings) /\ p \in Seq(Bracket)
    <3>1. p \in Seq(Openings)
      BY SuffixIs
    <3> QED
      BY <3>1, OpeningsStay
  <2>4. Suffix(o2, d) = Cat(p, one)
    <3>1. Suffix(Cat(o, <<b>>), d) = Cat(Suffix(o, d), <<b>>)
      BY SuffixOfCat
    <3> QED
      BY <3>1 DEF one
  <2>5. <<k>> \in Seq(Bracket)
    BY <1>0
  <2>6. Cat(<<k>>, rs) \in Seq(Bracket)
    BY <1>1, <2>5, CatIsSeq
  <2>7. Cat(Cat(p, one), Cat(<<k>>, rs)) = Cat(p, Cat(one, Cat(<<k>>, rs)))
    BY <1>3, <2>3, <2>6, CatAssociates
  <2>8. Cancelled(Cat(p, Cat(<<b>>, Cat(<<Closers[b]>>, rs)))) = Cancelled(Cat(p, rs))
    BY <1>1, <2>3, PairCancels
  <2>9. Cancelled(Brackets(Suffix(tk, i))) = Cancelled(Cat(p, rs))
    BY <1>0, <1>1, <2>1, <2>4, <2>7, <2>8 DEF one
  <2>10. IF d = 0 THEN i = 0 ELSE i > 0 /\ tk[i].kind = o[d] /\ tk[i].line = l[d]
    BY <1>5, <2>0, <2>1
  <2> QED
    BY <2>2, <2>9, <2>10 DEF Opened, rs
<1>7. m + 1 \in 0..Len(tk)
  BY <1>1
<1> QED
  BY <1>1, <1>6, <1>7 DEF Tracks

(* A line has a number. *)
LEMMA LineOfIs ==
  ASSUME NEW s, Len(s) \in Nat, NEW i
  PROVE  LineOf(s, i) \in Nat
<1> DEFINE breaks == {j \in 1..Len(s) : j < i /\ s[j] = "\n"}
<1>1. IsFiniteSet(1..Len(s))
  BY FS_Interval
<1>2. IsFiniteSet(breaks)
  BY <1>1, FS_Subset
<1>3. Cardinality(breaks) \in Nat
  BY <1>2, FS_CardinalityType
<1>4. LineOf(s, i) = 1 + Cardinality(breaks)
  BY DEF LineOf
<1> HIDE DEF breaks
<1> QED
  BY <1>3, <1>4

(* The frames of the stack, and of those above the program the brackets and lines. *)
Frames(K) == [open : {"program"} \cup Openings, line : Nat, kids : K]
Stacked(st) ==
  /\ \E K : st \in Seq(Frames(K))
  /\ Len(st) >= 1 /\ st[1].open = "program"
  /\ \A d \in 2..Len(st) : st[d].open \in Openings
OpensOf(st) == [j \in 1..Len(st) - 1 |-> st[j + 1].open]
LinesAt(st) == [j \in 1..Len(st) - 1 |-> st[j + 1].line]

LEMMA OpensAre ==
  ASSUME NEW st, Stacked(st)
  PROVE  /\ OpensOf(st) \in Seq(Openings) /\ Len(OpensOf(st)) = Len(st) - 1
         /\ LinesAt(st) \in Seq(Nat) /\ Len(LinesAt(st)) = Len(st) - 1
         /\ \A j \in 1..Len(st) - 1 : OpensOf(st)[j] = st[j + 1].open /\ LinesAt(st)[j] = st[j + 1].line
         /\ Len(st) \in Nat \ {0} /\ \A d \in 1..Len(st) : st[d].line \in Nat
<1>1. PICK K : st \in Seq(Frames(K))
  BY DEF Stacked
<1>2. Len(st) \in Nat \ {0} /\ \A d \in 1..Len(st) : st[d] \in Frames(K)
  BY <1>1, LenProperties, ElementOfSeq DEF Stacked
<1>3. \A d \in 1..Len(st) : st[d].line \in Nat
  BY <1>2 DEF Frames
<1>4. \A j \in 1..Len(st) - 1 : j + 1 \in 2..Len(st) /\ j + 1 \in 1..Len(st)
  BY <1>2
<1>5. \A j \in 1..Len(st) - 1 : st[j + 1].open \in Openings /\ st[j + 1].line \in Nat
  BY <1>3, <1>4 DEF Stacked
<1> DEFINE k == Len(st) - 1
           o == OpensOf(st)
           l == LinesAt(st)
<1>6. o \in [1..k -> Openings] /\ l \in [1..k -> Nat] /\ k \in Nat
  BY <1>2, <1>5 DEF OpensOf, LinesAt
<1>7. \A j \in 1..k : o[j] = st[j + 1].open /\ l[j] = st[j + 1].line
  BY DEF OpensOf, LinesAt
<1> HIDE DEF k, o, l
<1>8. o \in Seq(Openings) /\ Len(o) = k /\ l \in Seq(Nat) /\ Len(l) = k
  BY <1>6
<1> QED
  BY <1>2, <1>3, <1>7, <1>8 DEF k, o, l

(* A form is opened: a frame more. *)
LEMMA OpenFrame ==
  ASSUME NEW st, Stacked(st), NEW kind \in Openings, NEW line \in Nat
  PROVE  /\ Stacked(Append(st, Frame(kind, line)))
         /\ OpensOf(Append(st, Frame(kind, line))) = Cat(OpensOf(st), <<kind>>)
         /\ LinesAt(Append(st, Frame(kind, line))) = Cat(LinesAt(st), <<line>>)
<1> DEFINE f == Frame(kind, line)
           n == Len(st)
           up == Append(st, f)
<1>1. PICK K : st \in Seq(Frames(K))
  BY DEF Stacked
<1> DEFINE K2 == K \cup {<<>>}
<1>2. f \in Frames(K2) /\ f.open = kind /\ f.line = line
  BY DEF Frame, Frames
<1>3. st \in Seq(Frames(K2))
  <2>1. Frames(K) \subseteq Frames(K2)
    BY DEF Frames
  <2> HIDE DEF K2
  <2> QED
    BY <1>1, <2>1
<1>4. n \in Nat \ {0}
  BY OpensAre
<1> HIDE DEF f, K2
<1>5. up \in Seq(Frames(K2)) /\ Len(up) = n + 1 /\ (\A d \in 1..n : up[d] = st[d]) /\ up[n + 1] = f
  BY <1>2, <1>3, AppendProperties
<1> HIDE DEF up
<1>6. Stacked(up)
  <2>1. up[1].open = "program"
    BY <1>4, <1>5 DEF Stacked
  <2>2. ASSUME NEW d \in 2..Len(up) PROVE up[d].open \in Openings
    <3>1. CASE d = n + 1
      BY <1>2, <1>5, <3>1
    <3>2. CASE d # n + 1
      <4>1. d \in 2..n /\ d \in 1..n
        BY <1>4, <1>5, <3>2
      <4> QED
        BY <1>5, <4>1 DEF Stacked
    <3> QED
      BY <3>1, <3>2
  <2>3. Len(up) >= 1
    BY <1>4, <1>5
  <2> QED
    BY <1>5, <2>1, <2>2, <2>3 DEF Stacked
<1>7. /\ OpensOf(st) \in Seq(Openings) /\ Len(OpensOf(st)) = n - 1
      /\ LinesAt(st) \in Seq(Nat) /\ Len(LinesAt(st)) = n - 1
      /\ \A j \in 1..n - 1 : OpensOf(st)[j] = st[j + 1].open /\ LinesAt(st)[j] = st[j + 1].line
  BY OpensAre
<1>8. /\ OpensOf(up) \in Seq(Openings) /\ Len(OpensOf(up)) = n
      /\ LinesAt(up) \in Seq(Nat) /\ Len(LinesAt(up)) = n
      /\ \A j \in 1..n : OpensOf(up)[j] = up[j + 1].open /\ LinesAt(up)[j] = up[j + 1].line
  <2>1. Len(up) - 1 = n
    BY <1>4, <1>5
  <2> QED
    BY <1>6, <2>1, OpensAre
<1> DEFINE one == <<kind>>
           at == <<line>>
           o == OpensOf(st)
           l == LinesAt(st)
<1>9. one \in Seq(Openings) /\ Len(one) = 1 /\ one[1] = kind /\ at \in Seq(Nat) /\ Len(at) = 1 /\ at[1] = line
  OBVIOUS
<1> HIDE DEF one, at, o, l
<1>10. Cat(o, one) \in Seq(Openings) /\ Len(Cat(o, one)) = (n - 1) + 1 /\ (\A i \in 1..n - 1 : Cat(o, one)[i] = o[i])
  <2>1. o \in Seq(Openings) /\ one \in Seq(Openings) /\ Len(o) = n - 1 /\ Len(one) = 1
    BY <1>7, <1>9 DEF o
  <2>2. Cat(o, one) \in Seq(Openings)
    BY <2>1, CatIsSeq
  <2>3. Len(Cat(o, one)) = Len(o) + Len(one)
    BY <2>1, CatLength
  <2>4. ASSUME NEW i \in 1..Len(o) PROVE Cat(o, one)[i] = o[i]
    BY <2>1, CatFirst
  <2> QED
    BY <2>1, <2>2, <2>3, <2>4
<1>11. Cat(l, at) \in Seq(Nat) /\ Len(Cat(l, at)) = (n - 1) + 1 /\ (\A i \in 1..n - 1 : Cat(l, at)[i] = l[i])
  <2>1. l \in Seq(Nat) /\ at \in Seq(Nat) /\ Len(l) = n - 1 /\ Len(at) = 1
    BY <1>7, <1>9 DEF l
  <2>2. Cat(l, at) \in Seq(Nat)
    BY <2>1, CatIsSeq
  <2>3. Len(Cat(l, at)) = Len(l) + Len(at)
    BY <2>1, CatLength
  <2>4. ASSUME NEW i \in 1..Len(l) PROVE Cat(l, at)[i] = l[i]
    BY <2>1, CatFirst
  <2> QED
    BY <2>1, <2>2, <2>3, <2>4
<1>12. Cat(o, one)[n] = kind
  <2>1. o \in Seq(Openings) /\ one \in Seq(Openings)
    BY <1>7, <1>9 DEF o
  <2>2. ASSUME NEW i \in 1..Len(one) PROVE Cat(o, one)[Len(o) + i] = one[i]
    BY <2>1, CatSecond
  <2>3. Len(o) + 1 = n /\ 1 \in 1..Len(one)
    BY <1>4, <1>7, <1>9 DEF o
  <2> QED
    BY <1>9, <2>2, <2>3
<1>13. Cat(l, at)[n] = line
  <2>1. l \in Seq(Nat) /\ at \in Seq(Nat)
    BY <1>7, <1>9 DEF l
  <2>2. ASSUME NEW i \in 1..Len(at) PROVE Cat(l, at)[Len(l) + i] = at[i]
    BY <2>1, CatSecond
  <2>3. Len(l) + 1 = n /\ 1 \in 1..Len(at)
    BY <1>4, <1>7, <1>9 DEF l
  <2> QED
    BY <1>9, <2>2, <2>3
<1>14. ASSUME NEW j \in 1..n
       PROVE  OpensOf(up)[j] = Cat(o, one)[j] /\ LinesAt(up)[j] = Cat(l, at)[j]
  <2>1. CASE j = n
    BY <1>2, <1>5, <1>8, <1>12, <1>13, <2>1
  <2>2. CASE j # n
    <3>1. j \in 1..n - 1 /\ j + 1 \in 1..n
      BY <1>4, <2>2
    <3>2. o[j] = st[j + 1].open /\ l[j] = st[j + 1].line
      BY <1>7, <3>1 DEF o, l
    <3>3. Cat(o, one)[j] = o[j] /\ Cat(l, at)[j] = l[j]
      BY <1>10, <1>11, <3>1
    <3>4. OpensOf(up)[j] = st[j + 1].open /\ LinesAt(up)[j] = st[j + 1].line
      BY <1>5, <1>8, <3>1
    <3> QED
      BY <3>2, <3>3, <3>4
  <2> QED
    BY <2>1, <2>2
<1>15. (n - 1) + 1 = n
  BY <1>4
<1> DEFINE b == Cat(o, one)
           c == Cat(l, at)
<1> HIDE DEF b, c
<1>16. OpensOf(up) = b
  <2>1. b \in Seq(Openings) /\ Len(b) = n
    BY <1>10, <1>15 DEF b
  <2>2. \A j \in 1..n : OpensOf(up)[j] = b[j]
    BY <1>14 DEF b
  <2> QED
    BY <1>8, <2>1, <2>2, SameElements
<1>17. LinesAt(up) = c
  <2>1. c \in Seq(Nat) /\ Len(c) = n
    BY <1>11, <1>15 DEF c
  <2>2. \A j \in 1..n : LinesAt(up)[j] = c[j]
    BY <1>14 DEF c
  <2> QED
    BY <1>8, <2>1, <2>2, SameElements
<1> QED
  BY <1>6, <1>16, <1>17 DEF up, f, o, l, one, at, b, c

(* A form is closed: a frame less. *)
LEMMA CloseFrame ==
  ASSUME NEW st, Stacked(st), Last(st).open \in Openings
  PROVE  /\ Stacked(Front(st)) /\ Len(st) >= 2
         /\ Last(st).line \in Nat
         /\ OpensOf(st) = Cat(OpensOf(Front(st)), <<Last(st).open>>)
         /\ LinesAt(st) = Cat(LinesAt(Front(st)), <<Last(st).line>>)
<1> DEFINE n == Len(st)
           f == Last(st)
           down == SubSeq(st, 1, n - 1)
<1>1. PICK K : st \in Seq(Frames(K))
  BY DEF Stacked
<1>2. n \in Nat \ {0} /\ \A d \in 1..n : st[d].line \in Nat
  BY OpensAre
<1>3. st # <<>> /\ f = st[n]
  <2>1. st # <<>>
    BY <1>2, EmptySeq
  <2> QED
    BY <2>1 DEF Last
<1>4. Front(st) = down
  BY DEF Front
<1>5. n >= 2
  <2>1. "program" \notin Openings
    BY BracketsDiffer
  <2> QED
    BY <1>2, <1>3, <2>1 DEF Stacked
<1>6. n - 1 \in 0..Len(st)
  BY <1>2
<1>7. down \in Seq(Frames(K)) /\ Len(down) = n - 1 /\ \A d \in 1..n - 1 : down[d] = st[d]
  BY <1>1, <1>6, PrefixIs
<1> HIDE DEF down, f
<1>8. Stacked(down)
  <2>1. down[1].open = "program" /\ Len(down) >= 1
    BY <1>2, <1>5, <1>7 DEF Stacked
  <2>2. ASSUME NEW d \in 2..Len(down) PROVE down[d].open \in Openings
    <3>1. d \in 2..n /\ d \in 1..n - 1
      BY <1>2, <1>7
    <3> QED
      BY <1>7, <3>1 DEF Stacked
  <2> QED
    BY <1>7, <2>1, <2>2 DEF Stacked
<1>9. /\ OpensOf(st) \in Seq(Openings) /\ Len(OpensOf(st)) = n - 1
      /\ LinesAt(st) \in Seq(Nat) /\ Len(LinesAt(st)) = n - 1
      /\ \A j \in 1..n - 1 : OpensOf(st)[j] = st[j + 1].open /\ LinesAt(st)[j] = st[j + 1].line
  BY OpensAre
<1>10. /\ OpensOf(down) \in Seq(Openings) /\ Len(OpensOf(down)) = n - 2
       /\ LinesAt(down) \in Seq(Nat) /\ Len(LinesAt(down)) = n - 2
       /\ \A j \in 1..n - 2 : OpensOf(down)[j] = down[j + 1].open /\ LinesAt(down)[j] = down[j + 1].line
  <2>1. Len(down) - 1 = n - 2
    BY <1>2, <1>7
  <2> QED
    BY <1>8, <2>1, OpensAre
<1> DEFINE one == <<f.open>>
           at == <<f.line>>
           o == OpensOf(down)
           l == LinesAt(down)
<1>11. f.open \in Openings /\ f.line \in Nat
  BY <1>2, <1>3 DEF f
<1>12. one \in Seq(Openings) /\ Len(one) = 1 /\ one[1] = f.open /\ at \in Seq(Nat) /\ Len(at) = 1 /\ at[1] = f.line
  BY <1>11
<1> HIDE DEF one, at, o, l
<1>13. Cat(o, one) \in Seq(Openings) /\ Len(Cat(o, one)) = (n - 2) + 1 /\ (\A i \in 1..n - 2 : Cat(o, one)[i] = o[i])
  <2>1. o \in Seq(Openings) /\ one \in Seq(Openings) /\ Len(o) = n - 2 /\ Len(one) = 1
    BY <1>10, <1>12 DEF o
  <2>2. Cat(o, one) \in Seq(Openings)
    BY <2>1, CatIsSeq
  <2>3. Len(Cat(o, one)) = Len(o) + Len(one)
    BY <2>1, CatLength
  <2>4. ASSUME NEW i \in 1..Len(o) PROVE Cat(o, one)[i] = o[i]
    BY <2>1, CatFirst
  <2> QED
    BY <2>1, <2>2, <2>3, <2>4
<1>14. Cat(l, at) \in Seq(Nat) /\ Len(Cat(l, at)) = (n - 2) + 1 /\ (\A i \in 1..n - 2 : Cat(l, at)[i] = l[i])
  <2>1. l \in Seq(Nat) /\ at \in Seq(Nat) /\ Len(l) = n - 2 /\ Len(at) = 1
    BY <1>10, <1>12 DEF l
  <2>2. Cat(l, at) \in Seq(Nat)
    BY <2>1, CatIsSeq
  <2>3. Len(Cat(l, at)) = Len(l) + Len(at)
    BY <2>1, CatLength
  <2>4. ASSUME NEW i \in 1..Len(l) PROVE Cat(l, at)[i] = l[i]
    BY <2>1, CatFirst
  <2> QED
    BY <2>1, <2>2, <2>3, <2>4
<1>15. Cat(o, one)[n - 1] = f.open
  <2>1. o \in Seq(Openings) /\ one \in Seq(Openings)
    BY <1>10, <1>12 DEF o
  <2>2. ASSUME NEW i \in 1..Len(one) PROVE Cat(o, one)[Len(o) + i] = one[i]
    BY <2>1, CatSecond
  <2>3. Len(o) + 1 = n - 1 /\ 1 \in 1..Len(one)
    BY <1>2, <1>5, <1>10, <1>12 DEF o
  <2> QED
    BY <1>12, <2>2, <2>3
<1>16. Cat(l, at)[n - 1] = f.line
  <2>1. l \in Seq(Nat) /\ at \in Seq(Nat)
    BY <1>10, <1>12 DEF l
  <2>2. ASSUME NEW i \in 1..Len(at) PROVE Cat(l, at)[Len(l) + i] = at[i]
    BY <2>1, CatSecond
  <2>3. Len(l) + 1 = n - 1 /\ 1 \in 1..Len(at)
    BY <1>2, <1>5, <1>10, <1>12 DEF l
  <2> QED
    BY <1>12, <2>2, <2>3
<1>17. ASSUME NEW j \in 1..n - 1
       PROVE  OpensOf(st)[j] = Cat(o, one)[j] /\ LinesAt(st)[j] = Cat(l, at)[j]
  <2>1. CASE j = n - 1
    <3>1. j + 1 = n
      BY <1>2, <2>1
    <3> QED
      BY <1>3, <1>9, <1>15, <1>16, <2>1, <3>1
  <2>2. CASE j # n - 1
    <3>1. j \in 1..n - 2 /\ j + 1 \in 1..n - 1
      BY <1>2, <2>2
    <3>2. down[j + 1] = st[j + 1]
      BY <1>7, <3>1
    <3>3. o[j] = st[j + 1].open /\ l[j] = st[j + 1].line
      BY <1>10, <3>1, <3>2 DEF o, l
    <3>4. Cat(o, one)[j] = o[j] /\ Cat(l, at)[j] = l[j]
      BY <1>13, <1>14, <3>1
    <3>5. OpensOf(st)[j] = st[j + 1].open /\ LinesAt(st)[j] = st[j + 1].line
      BY <1>9
    <3> QED
      BY <3>3, <3>4, <3>5
  <2> QED
    BY <2>1, <2>2
<1>18. (n - 2) + 1 = n - 1
  BY <1>2
<1>19. OpensOf(st) = Cat(o, one)
  BY <1>9, <1>13, <1>17, <1>18, SameElements
<1>20. LinesAt(st) = Cat(l, at)
  BY <1>9, <1>14, <1>17, <1>18, SameElements
<1> QED
  BY <1>4, <1>5, <1>8, <1>11, <1>19, <1>20 DEF o, l, one, at, f

(* A form that is done changes the kids of the one around it, nothing else. *)
LEMMA ChildPushed ==
  ASSUME NEW st, Stacked(st), NEW node
  PROVE  /\ Stacked(PushChild(st, node))
         /\ OpensOf(PushChild(st, node)) = OpensOf(st)
         /\ LinesAt(PushChild(st, node)) = LinesAt(st)
<1> DEFINE n == Len(st)
           kids == Append(st[n].kids, node)
           up == PushChild(st, node)
<1>1. PICK K : st \in Seq(Frames(K))
  BY DEF Stacked
<1> DEFINE K2 == K \cup {kids}
<1>2. n \in Nat \ {0}
  BY OpensAre
<1>3. \A d \in 1..n : st[d] \in Frames(K)
  BY <1>1, ElementOfSeq
<1>4. up = [st EXCEPT ![n] = [st[n] EXCEPT !.kids = kids]]
  BY DEF PushChild
<1> HIDE DEF kids
<1>5. \A d \in 1..n : st[d] \in Frames(K2)
  BY <1>3 DEF Frames
<1>6. [st[n] EXCEPT !.kids = kids] \in Frames(K2)
      /\ [st[n] EXCEPT !.kids = kids].open = st[n].open
      /\ [st[n] EXCEPT !.kids = kids].line = st[n].line
  <2>1. st[n] \in Frames(K)
    BY <1>2, <1>3
  <2> QED
    BY <2>1 DEF Frames
<1> DEFINE top == [st[n] EXCEPT !.kids = kids]
<1> HIDE DEF top, K2
<1>7. st \in [1..n -> Frames(K2)]
  <2>1. st \in [1..n -> Frames(K)]
    BY <1>1
  <2> QED
    BY <1>5, <2>1
<1>8. up \in [1..n -> Frames(K2)] /\ \A d \in 1..n : up[d] = IF d = n THEN top ELSE st[d]
  BY <1>4, <1>6, <1>7 DEF top
<1> HIDE DEF up
<1>9. up \in Seq(Frames(K2)) /\ Len(up) = n
  BY <1>2, <1>8
<1>10. \A d \in 1..n : up[d].open = st[d].open /\ up[d].line = st[d].line
  BY <1>6, <1>8 DEF top
<1>11. Stacked(up)
  <2>1. Len(up) >= 1 /\ up[1].open = "program"
    BY <1>2, <1>9, <1>10 DEF Stacked
  <2>2. \A d \in 2..Len(up) : up[d].open \in Openings
    <3>1. \A d \in 2..n : d \in 1..n
      BY <1>2
    <3> QED
      BY <1>9, <1>10, <3>1 DEF Stacked
  <2> QED
    BY <1>9, <2>1, <2>2 DEF Stacked
<1>12. \A j \in 1..n - 1 : j + 1 \in 1..n
  BY <1>2
<1>13. OpensOf(up) = OpensOf(st) /\ LinesAt(up) = LinesAt(st)
  BY <1>9, <1>10, <1>12 DEF OpensOf, LinesAt
<1> QED
  BY <1>11, <1>13 DEF up

-----------------------------------------------------------------------------
(* One step of the reader, against the tokens: s is the text, p the place,  *)
(* st the stack.                                                           *)
FollowedIn(s, p, st) == \E m : Tracks(Tokens(s), m, OpensOf(st), LinesAt(st), TokensFrom(s)[p])
Names(s, line) ==
  \E i \in 1..Len(Tokens(s)) :
    /\ Tokens(s)[i].kind = Last(Cancelled(Brackets(Tokens(s))))
    /\ Tokens(s)[i].line = line
    /\ WellFormed(SubSeq(Tokens(s), i + 1, Len(Tokens(s))))

(* The suffix after nothing is all. *)
LEMMA WholeSuffix ==
  ASSUME NEW S, NEW s \in Seq(S)
  PROVE  Suffix(s, 0) = s
<1>1. Len(s) \in Nat /\ 0 \in 0..Len(s)
  BY LenProperties
<1>2. /\ Suffix(s, 0) \in Seq(S) /\ Len(Suffix(s, 0)) = Len(s) - 0
      /\ \A i \in 1..Len(s) - 0 : Suffix(s, 0)[i] = s[0 + i]
  BY <1>1, SuffixIs
<1>3. Len(Suffix(s, 0)) = Len(s) /\ \A i \in 1..Len(s) : Suffix(s, 0)[i] = s[i]
  BY <1>1, <1>2
<1> QED
  BY <1>2, <1>3, SameElements

(* Before anything is read everything is to come. *)
LEMMA StartFollows ==
  ASSUME NEW s, Len(s) \in Nat
  PROVE  Stacked(<<Frame("program", 1)>>) /\ FollowedIn(s, 1, <<Frame("program", 1)>>)
<1> DEFINE f == Frame("program", 1)
           st == <<f>>
           tk == Tokens(s)
           K == {<<>>}
<1>1. f \in Frames(K) /\ f.open = "program"
  BY DEF Frame, Frames
<1> HIDE DEF f, K
<1>2. st \in Seq(Frames(K)) /\ Len(st) = 1 /\ st[1] = f
  BY <1>1
<1> HIDE DEF st
<1>3. Stacked(st)
  <2>1. \A d \in 2..Len(st) : FALSE
    BY <1>2
  <2> QED
    BY <1>1, <1>2, <2>1 DEF Stacked
<1> DEFINE o == OpensOf(st)
           l == LinesAt(st)
<1>4. o \in Seq(Openings) /\ Len(o) = 0 /\ l \in Seq(Nat) /\ Len(l) = 0
  BY <1>2, <1>3, OpensAre
<1> HIDE DEF o, l
<1>5. o = <<>>
  BY <1>4, EmptySeq
<1>6. tk = TokensFrom(s)[1] /\ tk \in Seq(TokensIn(s))
  <2>1. 1 \in 1..Len(s) + 1
    OBVIOUS
  <2> QED
    BY <2>1, TokensUnfold
<1> HIDE DEF tk
<1>7. Len(tk) \in Nat /\ 0 \in 0..Len(tk)
  BY <1>6, LenProperties
<1>8. Suffix(tk, 0) = tk
  BY <1>6, WholeSuffix
<1>9. Brackets(tk) \in Seq(Bracket)
  BY <1>7, BracketsAre
<1>10. Opened(tk, 0, o, l, tk, 0)
  <2>1. Suffix(o, 0) = <<>>
    BY <1>4, <1>5, WholeSuffix
  <2>2. Cat(Suffix(o, 0), Brackets(tk)) = Brackets(tk)
    BY <1>9, <2>1, CatNothing
  <2>3. 0 \in 0..0
    OBVIOUS
  <2> QED
    BY <1>8, <2>2, <2>3 DEF Opened
<1>11. Tracks(tk, 0, o, l, tk)
  <2>1. \A j \in 1..0 : FALSE
    OBVIOUS
  <2>2. \A d \in 0..Len(o) : d = 0
    BY <1>4
  <2> QED
    BY <1>4, <1>7, <1>8, <1>10, <2>1, <2>2 DEF Tracks
<1>12. FollowedIn(s, 1, st)
  BY <1>6, <1>11 DEF FollowedIn, o, l, tk
<1> QED
  BY <1>3, <1>12 DEF st, f

(* The next token is there, ... *)
Follows(s, p, x, r) ==
  /\ TokenAfter(s, p).next \in 1..Len(s) + 1
  /\ x \in TokensIn(s) /\ r \in Seq(TokensIn(s)) /\ Tokens(s) \in Seq(TokensIn(s))
  /\ TokensFrom(s)[p] = Cat(<<x>>, r)
  /\ TokensFrom(s)[TokenAfter(s, p).next] = r
  /\ x.kind = TokenAfter(s, p).kind /\ x.line = LineOf(s, SkipBlank(s, p)) /\ x.line \in Nat

LEMMA TokenFollows ==
  ASSUME NEW s, Len(s) \in Nat, NEW p \in 1..Len(s) + 1,
         TokenAfter(s, p).kind # "eof", TokenAfter(s, p).next # 0
  PROVE  Follows(s, p, Recorded(s, p), TokensFrom(s)[TokenAfter(s, p).next])
<1> DEFINE to == TokenAfter(s, p).next
           x == Recorded(s, p)
<1>1. to \in 1..Len(s) + 1
  BY TokenAfterIs
<1>2. TokensFrom(s)[p] = Cat(<<x>>, TokensFrom(s)[to])
  <2>1. TokensFrom(s)[p] = TokensAt(s, TokensFrom(s), p)
    BY TokensUnfold
  <2> QED
    BY <2>1 DEF TokensAt
<1>3. x \in TokensIn(s)
  BY DEF TokensIn
<1>4. x.kind = TokenAfter(s, p).kind /\ x.line = LineOf(s, SkipBlank(s, p))
  BY DEF Recorded
<1>5. x.line \in Nat
  BY <1>4, LineOfIs
<1>6. TokensFrom(s) \in [1..Len(s) + 1 -> Seq(TokensIn(s))] /\ Tokens(s) = TokensFrom(s)[1]
  BY TokensUnfold
<1>7. TokensFrom(s)[to] \in Seq(TokensIn(s)) /\ Tokens(s) \in Seq(TokensIn(s))
  <2>1. 1 \in 1..Len(s) + 1
    OBVIOUS
  <2> HIDE DEF to
  <2> QED
    BY <1>1, <1>6, <2>1
<1> QED
  BY <1>1, <1>2, <1>3, <1>4, <1>5, <1>7 DEF Follows

(* ... and opens a form, ... *)
LEMMA OpenFollows ==
  ASSUME NEW s, Len(s) \in Nat, NEW p \in 1..Len(s) + 1, NEW st, Stacked(st), FollowedIn(s, p, st),
         TokenAfter(s, p).kind \in Openings
  PROVE  LET up == Append(st, Frame(TokenAfter(s, p).kind, LineOf(s, SkipBlank(s, p))))
         IN  /\ TokenAfter(s, p).next \in 1..Len(s) + 1
             /\ Stacked(up) /\ FollowedIn(s, TokenAfter(s, p).next, up)
<1> DEFINE kind == TokenAfter(s, p).kind
           to == TokenAfter(s, p).next
           line == LineOf(s, SkipBlank(s, p))
           x == Recorded(s, p)
           r == TokensFrom(s)[to]
           all == TokensFrom(s)[p]
           up == Append(st, Frame(kind, line))
<1>1. kind # "eof" /\ to # 0
  <2>1. kind # "eof" /\ kind # "string"
    BY KindsDiffer DEF Bracket, Atoms
  <2> QED
    BY <2>1, TokenAfterIs
<1>2. Follows(s, p, x, r)
  BY <1>1, TokenFollows
<1> HIDE DEF x, r, all, to
<1>3. /\ x \in TokensIn(s) /\ r \in Seq(TokensIn(s)) /\ Tokens(s) \in Seq(TokensIn(s))
      /\ all = Cat(<<x>>, r) /\ x.kind = kind /\ x.line = line /\ x.line \in Nat
      /\ to \in 1..Len(s) + 1 /\ TokensFrom(s)[to] = r
  BY <1>2 DEF Follows, all, to
<1>4. PICK m : Tracks(Tokens(s), m, OpensOf(st), LinesAt(st), all)
  BY DEF FollowedIn, all
<1> HIDE DEF kind, line
<1>5. Tracks(Tokens(s), m + 1, Cat(OpensOf(st), <<x.kind>>), Cat(LinesAt(st), <<x.line>>), r)
  <2>1. x.kind \in Openings
    BY <1>3 DEF kind
  <2> QED
    BY <1>3, <1>4, <2>1, OpeningTracks
<1>6. /\ Stacked(up) /\ OpensOf(up) = Cat(OpensOf(st), <<kind>>) /\ LinesAt(up) = Cat(LinesAt(st), <<line>>)
  <2>1. kind \in Openings /\ line \in Nat
    BY <1>3 DEF kind
  <2> QED
    BY <2>1, OpenFrame
<1> HIDE DEF up
<1>7. FollowedIn(s, to, up)
  BY <1>3, <1>5, <1>6 DEF FollowedIn
<1> QED
  BY <1>3, <1>6, <1>7 DEF up, kind, line, to

(* ... closes the innermost one, ... *)
LEMMA CloseFollows ==
  ASSUME NEW s, Len(s) \in Nat, NEW p \in 1..Len(s) + 1, NEW st, Stacked(st), FollowedIn(s, p, st),
         Last(st).open \in Openings, TokenAfter(s, p).kind = Closers[Last(st).open], NEW node
  PROVE  LET down == PushChild(Front(st), node)
         IN  /\ TokenAfter(s, p).next \in 1..Len(s) + 1
             /\ Stacked(down) /\ FollowedIn(s, TokenAfter(s, p).next, down)
<1> DEFINE kind == TokenAfter(s, p).kind
           to == TokenAfter(s, p).next
           x == Recorded(s, p)
           r == TokensFrom(s)[to]
           all == TokensFrom(s)[p]
           b == Last(st).open
           n == Last(st).line
           low == Front(st)
           down == PushChild(low, node)
<1>1. kind # "eof" /\ to # 0
  <2>1. kind \in Closings
    BY BracketsDiffer
  <2>2. kind # "eof" /\ kind # "string"
    BY <2>1, KindsDiffer DEF Bracket, Atoms
  <2> QED
    BY <2>2, TokenAfterIs
<1>2. Follows(s, p, x, r)
  BY <1>1, TokenFollows
<1> HIDE DEF x, r, all, to
<1>3. /\ x \in TokensIn(s) /\ r \in Seq(TokensIn(s)) /\ Tokens(s) \in Seq(TokensIn(s))
      /\ all = Cat(<<x>>, r) /\ x.kind = kind
      /\ to \in 1..Len(s) + 1 /\ TokensFrom(s)[to] = r
  BY <1>2 DEF Follows, all, to
<1>4. PICK m : Tracks(Tokens(s), m, OpensOf(st), LinesAt(st), all)
  BY DEF FollowedIn, all
<1>5. /\ Stacked(low) /\ n \in Nat
      /\ OpensOf(st) = Cat(OpensOf(low), <<b>>) /\ LinesAt(st) = Cat(LinesAt(low), <<n>>)
  BY CloseFrame
<1>6. /\ Stacked(down) /\ OpensOf(down) = OpensOf(low) /\ LinesAt(down) = LinesAt(low)
  BY <1>5, ChildPushed
<1>7. b \in Openings /\ x.kind = Closers[b]
  BY <1>3
<1> HIDE DEF kind, down, low, b, n
<1>8. OpensOf(low) \in Seq(Openings) /\ LinesAt(low) \in Seq(Nat) /\ Len(LinesAt(low)) = Len(OpensOf(low))
  BY <1>5, OpensAre
<1>9. Tracks(Tokens(s), m + 1, OpensOf(low), LinesAt(low), r)
  <2> DEFINE o == OpensOf(low)
             l == LinesAt(low)
             tk == Tokens(s)
             S == TokensIn(s)
  <2>1. Tracks(tk, m, Cat(o, <<b>>), Cat(l, <<n>>), all)
    BY <1>4, <1>5
  <2>2. o \in Seq(Openings) /\ l \in Seq(Nat) /\ Len(l) = Len(o) /\ n \in Nat
    BY <1>5, <1>8
  <2>3. tk \in Seq(S) /\ x \in S /\ r \in Seq(S) /\ all = Cat(<<x>>, r)
    BY <1>3
  <2> HIDE DEF o, l, tk, S
  <2>4. Tracks(tk, m + 1, o, l, r)
    BY <1>7, <2>1, <2>2, <2>3, ClosingTracks
  <2> QED
    BY <2>4 DEF o, l, tk
<1>10. FollowedIn(s, to, down)
  BY <1>3, <1>6, <1>9 DEF FollowedIn
<1> QED
  BY <1>3, <1>6, <1>10 DEF to, down, low

(* ... or is an atom. *)
LEMMA AtomFollows ==
  ASSUME NEW s, Len(s) \in Nat, NEW p \in 1..Len(s) + 1, NEW st, Stacked(st), FollowedIn(s, p, st),
         TokenAfter(s, p).kind \in Atoms, TokenAfter(s, p).next # 0, NEW node
  PROVE  LET up == PushChild(st, node)
         IN  /\ TokenAfter(s, p).next \in 1..Len(s) + 1
             /\ Stacked(up) /\ FollowedIn(s, TokenAfter(s, p).next, up)
<1> DEFINE kind == TokenAfter(s, p).kind
           to == TokenAfter(s, p).next
           x == Recorded(s, p)
           r == TokensFrom(s)[to]
           all == TokensFrom(s)[p]
           up == PushChild(st, node)
<1>1. kind # "eof" /\ kind # "unterminated" /\ kind \notin Bracket
  BY KindsDiffer
<1>2. Follows(s, p, x, r)
  BY <1>1, TokenFollows
<1> HIDE DEF x, r, all, to
<1>3. /\ x \in TokensIn(s) /\ r \in Seq(TokensIn(s)) /\ Tokens(s) \in Seq(TokensIn(s))
      /\ all = Cat(<<x>>, r) /\ x.kind = kind
      /\ to \in 1..Len(s) + 1 /\ TokensFrom(s)[to] = r
  BY <1>2 DEF Follows, all, to
<1>4. PICK m : Tracks(Tokens(s), m, OpensOf(st), LinesAt(st), all)
  BY DEF FollowedIn, all
<1>5. /\ Stacked(up) /\ OpensOf(up) = OpensOf(st) /\ LinesAt(up) = LinesAt(st)
  BY ChildPushed
<1> HIDE DEF kind, up
<1>6. Tracks(Tokens(s), m + 1, OpensOf(st), LinesAt(st), r)
  BY <1>1, <1>3, <1>4, AtomTracks
<1>7. FollowedIn(s, to, up)
  BY <1>3, <1>5, <1>6 DEF FollowedIn
<1> QED
  BY <1>3, <1>5, <1>7 DEF to, up

(* A closer that is not the innermost form's refuses the text, ... *)
LEMMA WrongCloserRefuses ==
  ASSUME NEW s, Len(s) \in Nat, NEW p \in 1..Len(s) + 1, NEW st, Stacked(st), FollowedIn(s, p, st),
         TokenAfter(s, p).kind \in Closings,
         Last(st).open \in Openings => TokenAfter(s, p).kind # Closers[Last(st).open]
  PROVE  ~WellFormed(Tokens(s)) /\ TokenAfter(s, p).kind # "eof"
<1> DEFINE kind == TokenAfter(s, p).kind
           to == TokenAfter(s, p).next
           x == Recorded(s, p)
           r == TokensFrom(s)[to]
           all == TokensFrom(s)[p]
           o == OpensOf(st)
           l == LinesAt(st)
           tk == Tokens(s)
<1>1. kind # "eof" /\ to # 0
  <2>1. kind # "eof" /\ kind # "string"
    BY KindsDiffer DEF Bracket, Atoms
  <2> QED
    BY <2>1, TokenAfterIs
<1>2. Follows(s, p, x, r)
  BY <1>1, TokenFollows
<1> HIDE DEF x, r, all, to, tk
<1>3. /\ x \in TokensIn(s) /\ r \in Seq(TokensIn(s)) /\ tk \in Seq(TokensIn(s))
      /\ all = Cat(<<x>>, r) /\ x.kind = kind
  BY <1>2 DEF Follows, all, to, tk
<1>4. PICK m : Tracks(tk, m, o, l, all)
  BY DEF FollowedIn, all, tk
<1>5. /\ o \in Seq(Openings) /\ Len(o) = Len(st) - 1 /\ Len(st) \in Nat \ {0}
      /\ \A j \in 1..Len(st) - 1 : o[j] = st[j + 1].open
  BY OpensAre
<1> HIDE DEF o, l, kind
<1>6. o = <<>> \/ kind # Closers[Last(o)]
  <2> SUFFICES ASSUME o # <<>> PROVE kind # Closers[Last(o)]
    OBVIOUS
  <2>1. Len(o) # 0 /\ Len(o) \in Nat
    BY <1>5, EmptySeq, LenProperties
  <2>2. Last(o) = o[Len(o)]
    BY DEF Last
  <2>3. Len(o) \in 1..Len(st) - 1 /\ Len(o) + 1 = Len(st)
    BY <1>5, <2>1
  <2>4. Last(o) = st[Len(st)].open
    BY <1>5, <2>2, <2>3
  <2>5. st # <<>>
    BY <1>5, EmptySeq
  <2>6. Last(st) = st[Len(st)]
    BY <2>5 DEF Last
  <2>7. Last(o) \in Openings
    BY <1>5, <2>1, <2>2, ElementOfSeq
  <2> QED
    BY <2>4, <2>6, <2>7 DEF kind
<1>7. Brackets(r) \in Seq(Bracket)
  BY <1>3, BracketsAre, LenProperties
<1>8. Brackets(all) = Cat(<<kind>>, Brackets(r))
  <2>1. kind \in Bracket
    BY DEF Bracket, kind
  <2> QED
    BY <1>3, <2>1, BracketsOfCons
<1>9. Cancelled(Brackets(tk)) = Cancelled(Cat(o, Brackets(all)))
  <2>1. Len(o) \in Nat /\ 0 \in 0..Len(o)
    BY <1>5, LenProperties
  <2>2. Opened(tk, m, o, l, all, 0)
    BY <1>4, <2>1 DEF Tracks
  <2>3. Cancelled(Brackets(Suffix(tk, 0))) = Cancelled(Cat(Suffix(o, 0), Brackets(all)))
    BY <2>2 DEF Opened
  <2>4. Suffix(tk, 0) = tk /\ Suffix(o, 0) = o
    BY <1>3, <1>5, WholeSuffix
  <2> QED
    BY <2>3, <2>4
<1>10. Cancelled(Brackets(tk)) # <<>>
  <2>1. kind \in Closings
    BY DEF kind
  <2> QED
    BY <1>5, <1>6, <1>7, <1>8, <1>9, <2>1, WrongCloserStays
<1> QED
  BY <1>1, <1>10 DEF WellFormed, tk, kind

(* ... and so does a string that never closes. *)
LEMMA BrokenRefuses ==
  ASSUME NEW s, Len(s) \in Nat, NEW p \in 1..Len(s) + 1, NEW st, Stacked(st), FollowedIn(s, p, st),
         TokenAfter(s, p).next = 0
  PROVE  ~WellFormed(Tokens(s)) /\ TokenAfter(s, p).kind # "eof"
<1> DEFINE x == Broken(s, p)
           tk == Tokens(s)
           S == TokensIn(s)
           all == TokensFrom(s)[p]
<1>1. TokenAfter(s, p).kind # "eof"
  <2>1. Len(s) + 1 # 0
    OBVIOUS
  <2>2. CASE SkipBlank(s, p) > Len(s)
    BY <2>1, <2>2, TokenAfterIs
  <2>3. CASE ~(SkipBlank(s, p) > Len(s))
    BY <2>3, TokenAfterIs, KindsDiffer
  <2> QED
    BY <2>2, <2>3
<1>2. all = <<x>>
  <2>1. TokensFrom(s)[p] = TokensAt(s, TokensFrom(s), p)
    BY TokensUnfold
  <2> QED
    BY <1>1, <2>1 DEF TokensAt
<1>3. x \in S /\ x.kind = "unterminated"
  BY DEF TokensIn, Broken, Recorded
<1>4. tk \in Seq(S)
  <2>1. 1 \in 1..Len(s) + 1
    OBVIOUS
  <2>2. tk = TokensFrom(s)[1] /\ TokensFrom(s) \in [1..Len(s) + 1 -> Seq(S)]
    BY TokensUnfold
  <2> HIDE DEF tk, S
  <2> QED
    BY <2>1, <2>2
<1>5. PICK m : Tracks(tk, m, OpensOf(st), LinesAt(st), all)
  BY DEF FollowedIn
<1> HIDE DEF x, tk, S, all
<1>6. m \in 0..Len(tk) /\ Suffix(tk, m) = <<x>>
  BY <1>2, <1>5 DEF Tracks
<1>7. <<x>> = Cat(<<x>>, <<>>)
  <2>1. <<x>> \in Seq(S)
    BY <1>3
  <2> QED
    BY <2>1, CatNothing
<1>8. m + 1 \in 1..Len(tk) /\ tk[m + 1] = x
  <2> DEFINE none == <<>>
  <2>1. none \in Seq(S)
    OBVIOUS
  <2>2. Suffix(tk, m) = Cat(<<x>>, none)
    BY <1>6, <1>7
  <2> HIDE DEF none
  <2> QED
    BY <1>3, <1>4, <1>6, <2>1, <2>2, SuffixAdvances
<1>9. ~WellFormed(tk)
  BY <1>3, <1>8 DEF WellFormed
<1> QED
  BY <1>1, <1>9 DEF tk

(* At the end of the text the forms that are open are the brackets left over. *)
LEMMA EndIs ==
  ASSUME NEW s, Len(s) \in Nat, NEW p \in 1..Len(s) + 1, NEW st, Stacked(st), FollowedIn(s, p, st),
         TokenAfter(s, p).kind = "eof"
  PROVE  IF Len(st) = 1 THEN WellFormed(Tokens(s))
         ELSE ~WellFormed(Tokens(s)) /\ Names(s, Last(st).line)
<1> DEFINE tk == Tokens(s)
           S == TokensIn(s)
           o == OpensOf(st)
           l == LinesAt(st)
           n == Len(o)
           none == <<>>
<1>1. TokensFrom(s)[p] = none
  <2>1. TokensFrom(s)[p] = TokensAt(s, TokensFrom(s), p)
    BY TokensUnfold
  <2> QED
    BY <2>1 DEF TokensAt
<1>2. tk \in Seq(S)
  <2>1. 1 \in 1..Len(s) + 1
    OBVIOUS
  <2>2. tk = TokensFrom(s)[1] /\ TokensFrom(s) \in [1..Len(s) + 1 -> Seq(S)]
    BY TokensUnfold
  <2> HIDE DEF tk, S
  <2> QED
    BY <2>1, <2>2
<1>3. /\ o \in Seq(Openings) /\ n = Len(st) - 1 /\ Len(st) \in Nat \ {0} /\ n \in Nat
      /\ \A j \in 1..Len(st) - 1 : o[j] = st[j + 1].open /\ l[j] = st[j + 1].line
  BY OpensAre
<1>4. PICK m : Tracks(tk, m, o, l, none)
  BY <1>1 DEF FollowedIn
<1> HIDE DEF tk, S, o, l, n
<1>5. m \in 0..Len(tk) /\ Len(tk) \in Nat /\ Len(Suffix(tk, m)) = Len(tk) - m
  BY <1>2, <1>4, SuffixIs, LenProperties DEF Tracks
<1>6. m = Len(tk)
  <2>1. Suffix(tk, m) = none /\ Len(none) = 0
    BY <1>4 DEF Tracks
  <2> QED
    BY <1>5, <2>1
<1>7. \A j \in 1..Len(tk) : tk[j].kind # "unterminated"
  BY <1>4, <1>6 DEF Tracks
<1>8. ASSUME NEW d \in 0..n
      PROVE  \E i \in 0..m :
               /\ IF d = 0 THEN i = 0 ELSE i > 0 /\ tk[i].kind = o[d] /\ tk[i].line = l[d]
               /\ Cancelled(Brackets(Suffix(tk, i))) = Suffix(o, d)
  <2>1. PICK i \in 0..m :
          /\ IF d = 0 THEN i = 0 ELSE i > 0 /\ tk[i].kind = o[d] /\ tk[i].line = l[d]
          /\ Cancelled(Brackets(Suffix(tk, i))) = Cancelled(Cat(Suffix(o, d), Brackets(none)))
    <3>1. Opened(tk, m, o, l, none, d)
      BY <1>4 DEF Tracks, n
    <3> QED
      BY <3>1 DEF Opened
  <2>2. Suffix(o, d) \in Seq(Openings)
    BY <1>3, SuffixIs DEF n
  <2>3. Cat(Suffix(o, d), Brackets(none)) = Suffix(o, d)
    BY <2>2, BracketsOfNone, CatNothing
  <2>4. Cancelled(Suffix(o, d)) = Suffix(o, d)
    BY <2>2, OpeningsStay
  <2> QED
    BY <2>1, <2>3, <2>4
<1>9. Cancelled(Brackets(tk)) = o
  <2>1. 0 \in 0..n
    BY <1>3
  <2>2. PICK i \in 0..m : i = 0 /\ Cancelled(Brackets(Suffix(tk, i))) = Suffix(o, 0)
    BY <1>8, <2>1
  <2>3. Suffix(tk, 0) = tk /\ Suffix(o, 0) = o
    BY <1>2, <1>3, WholeSuffix
  <2> QED
    BY <2>2, <2>3
<1>10. CASE Len(st) = 1
  <2>1. n = 0
    BY <1>3, <1>10
  <2>2. o = <<>>
    BY <1>3, <2>1, EmptySeq DEF n
  <2>3. WellFormed(tk)
    BY <1>7, <1>9, <2>2 DEF WellFormed
  <2> QED
    BY <1>10, <2>3 DEF tk
<1>11. CASE Len(st) # 1
  <2>1. n \in 1..Len(st) - 1 /\ n \in 0..n /\ n # 0 /\ n + 1 = Len(st)
    BY <1>3, <1>11
  <2>2. o # <<>>
    BY <2>1 DEF n
  <2>3. ~WellFormed(tk)
    BY <1>9, <2>2 DEF WellFormed
  <2>4. PICK i \in 0..m : /\ i > 0 /\ tk[i].kind = o[n] /\ tk[i].line = l[n]
                         /\ Cancelled(Brackets(Suffix(tk, i))) = Suffix(o, n)
    BY <1>8, <2>1
  <2>5. i \in 1..Len(tk) /\ i \in 0..Len(tk)
    BY <1>5, <1>6, <2>4
  <2>6. tk[i].kind = Last(Cancelled(Brackets(tk)))
    BY <1>9, <2>4 DEF Last, n
  <2>7. tk[i].line = Last(st).line
    <3>1. st # <<>>
      BY <1>3, EmptySeq
    <3>2. Last(st) = st[n + 1]
      BY <2>1, <3>1 DEF Last
    <3> QED
      BY <1>3, <2>1, <2>4, <3>2
  <2>8. WellFormed(Suffix(tk, i))
    <3>1. Suffix(o, n) = <<>>
      <4>1. n \in 0..Len(o)
        BY <2>1 DEF n
      <4>2. Suffix(o, n) \in Seq(Openings) /\ Len(Suffix(o, n)) = n - n
        BY <1>3, <4>1, SuffixIs DEF n
      <4>3. Len(Suffix(o, n)) = 0
        BY <1>3, <4>2
      <4> QED
        BY <4>2, <4>3, EmptySeq
    <3>2. /\ Len(Suffix(tk, i)) = Len(tk) - i
          /\ \A j \in 1..Len(tk) - i : Suffix(tk, i)[j] = tk[i + j]
      BY <1>2, <2>5, SuffixIs
    <3>3. ASSUME NEW j \in 1..Len(tk) - i PROVE Suffix(tk, i)[j].kind # "unterminated"
      <4>1. i + j \in 1..Len(tk)
        BY <1>5, <2>5
      <4> QED
        BY <1>7, <3>2, <4>1
    <3> QED
      BY <2>4, <3>1, <3>2, <3>3 DEF WellFormed
  <2>9. Names(s, Last(st).line)
    BY <2>5, <2>6, <2>7, <2>8 DEF Names, Suffix, tk
  <2> QED
    BY <1>11, <2>3, <2>9 DEF tk
<1> QED
  BY <1>10, <1>11

-----------------------------------------------------------------------------
(* The inductive invariant: while the reader reads, its stack follows the   *)
(* tokens it has read; when it has answered, the answer is right.           *)
Verdicts == [state : {"reading", "tree", "error"}, line : Nat]
ReaderInv ==
  /\ src \in Seq(Alphabet) /\ pos \in 1..Len(src) + 1
  /\ Stacked(stack) /\ verdict \in Verdicts
  /\ verdict = Reading => FollowedIn(src, pos, stack)
  /\ AcceptsWellFormed /\ EofErrorNamesOpening

(* The token the reader looks at. *)
LEMMA ReadsTok == Here = SkipBlank(src, pos) /\ Tok = TokenAfter(src, pos)
BY DEF Here, Tok, TokenAfter

LEMMA ReaderStarts == src \in Seq(Alphabet) /\ AtStart => ReaderInv
<1> SUFFICES ASSUME src \in Seq(Alphabet), AtStart PROVE ReaderInv
  OBVIOUS
<1>1. Len(src) \in Nat
  BY LenProperties
<1>2. Stacked(stack) /\ FollowedIn(src, 1, stack)
  BY <1>1, StartFollows DEF AtStart
<1>3. Reading \in Verdicts /\ Reading.state = "reading"
  BY DEF Reading, Verdicts
<1>4. verdict = Reading /\ pos = 1
  BY DEF AtStart
<1>5. AcceptsWellFormed /\ EofErrorNamesOpening
  BY <1>3, <1>4 DEF AcceptsWellFormed, EofErrorNamesOpening
<1> QED
  BY <1>1, <1>2, <1>3, <1>4, <1>5 DEF ReaderInv

(* A step that keeps reading. *)
LEMMA ReadsOn ==
  ASSUME ReaderInv, src' = src, verdict = Reading, verdict' = verdict,
         pos' \in 1..Len(src) + 1, Stacked(stack'), FollowedIn(src, pos', stack')
  PROVE  ReaderInv'
<1>1. Reading.state = "reading"
  BY DEF Reading
<1>2. AcceptsWellFormed' /\ EofErrorNamesOpening'
  BY <1>1 DEF AcceptsWellFormed, EofErrorNamesOpening
<1>3. src \in Seq(Alphabet) /\ verdict \in Verdicts
  BY DEF ReaderInv
<1> QED
  BY <1>2, <1>3 DEF ReaderInv

(* A step that answers. *)
LEMMA Answers ==
  ASSUME ReaderInv, UNCHANGED <<src, pos, stack>>,
         NEW state \in {"tree", "error"}, NEW line \in Nat, Answer(state, line),
         state = "tree" <=> WellFormed(Tokens(src)),
         state = "error" /\ Tok.kind = "eof" => Names(src, line)
  PROVE  ReaderInv'
<1>1. verdict' = [state |-> state, line |-> line]
  BY DEF Answer
<1>2. verdict' \in Verdicts /\ verdict'.state = state /\ verdict'.line = line /\ verdict' # Reading
  BY <1>1 DEF Verdicts, Reading
<1>3. Tok' = Tok
  BY DEF Tok, Here
<1>4. AcceptsWellFormed'
  BY <1>2 DEF AcceptsWellFormed
<1>5. EofErrorNamesOpening'
  BY <1>2, <1>3 DEF EofErrorNamesOpening, Names
<1>6. src \in Seq(Alphabet) /\ pos \in 1..Len(src) + 1 /\ Stacked(stack)
  BY DEF ReaderInv
<1> QED
  BY <1>2, <1>4, <1>5, <1>6 DEF ReaderInv

(* Every step of the reader and of the formatter keeps it. *)
LEMMA ReaderSteps ==
  ASSUME ReaderInv, [ReadNext]_readVars
  PROVE  ReaderInv'
<1>0. /\ src \in Seq(Alphabet) /\ Len(src) \in Nat /\ pos \in 1..Len(src) + 1 /\ Stacked(stack)
      /\ verdict = Reading => FollowedIn(src, pos, stack)
      /\ Here = SkipBlank(src, pos) /\ Tok = TokenAfter(src, pos)
  BY LenProperties, ReadsTok DEF ReaderInv
<1>1. CASE Reformat
  <2>1. src' = Format(src) /\ AtStart'
    BY <1>1 DEF Reformat, AtStart
  <2>2. Format(src) \in Seq(Alphabet)
    <3>1. Space \in Alphabet /\ "\n" \in Alphabet
      BY SourcesAssumption
    <3> QED
      BY <1>0, <3>1, FormatIs
  <2>3. (src \in Seq(Alphabet) /\ AtStart => ReaderInv)'
    BY ReaderStarts, PTL
  <2> QED
    BY <2>1, <2>2, <2>3
<1>2. CASE OpenForm
  <2>1. /\ verdict = Reading /\ Tok.kind \in Openings
        /\ stack' = Append(stack, Frame(Tok.kind, LineOf(src, Here)))
        /\ pos' = Tok.next /\ src' = src /\ verdict' = verdict
    BY <1>2 DEF OpenForm
  <2>2. pos' \in 1..Len(src) + 1 /\ Stacked(stack') /\ FollowedIn(src, pos', stack')
    BY <1>0, <2>1, OpenFollows
  <2> QED
    BY <2>1, <2>2, ReadsOn
<1>3. CASE CloseForm
  <2>1. /\ verdict = Reading /\ Last(stack).open \in Openings /\ Tok.kind = Closers[Last(stack).open]
        /\ stack' = PushChild(Front(stack), [open |-> Top.open, kids |-> Top.kids])
        /\ pos' = Tok.next /\ src' = src /\ verdict' = verdict
    BY <1>3 DEF CloseForm, Top
  <2>2. pos' \in 1..Len(src) + 1 /\ Stacked(stack') /\ FollowedIn(src, pos', stack')
    BY <1>0, <2>1, CloseFollows
  <2> QED
    BY <2>1, <2>2, ReadsOn
<1>4. CASE WrongCloser
  <2>1. /\ verdict = Reading /\ Tok.kind \in Closings
        /\ Last(stack).open \in Openings => Tok.kind # Closers[Last(stack).open]
        /\ Answer("error", LineOf(src, Here)) /\ UNCHANGED <<src, pos, stack>>
    BY <1>4 DEF WrongCloser, Top
  <2>2. ~WellFormed(Tokens(src)) /\ Tok.kind # "eof"
    BY <1>0, <2>1, WrongCloserRefuses
  <2>3. LineOf(src, Here) \in Nat
    BY <1>0, LineOfIs
  <2> QED
    BY <2>1, <2>2, <2>3, Answers
<1>5. CASE Atom
  <2>1. /\ verdict = Reading /\ Tok.kind \in Atoms /\ Tok.next # 0
        /\ stack' = PushChild(stack, [open |-> Tok.kind, kids |-> Tok.text])
        /\ pos' = Tok.next /\ src' = src /\ verdict' = verdict
    BY <1>5 DEF Atom, Atoms
  <2>2. pos' \in 1..Len(src) + 1 /\ Stacked(stack') /\ FollowedIn(src, pos', stack')
    BY <1>0, <2>1, AtomFollows
  <2> QED
    BY <2>1, <2>2, ReadsOn
<1>6. CASE LexError
  <2>1. /\ verdict = Reading /\ Tok.next = 0
        /\ Answer("error", LineOf(src, Len(src) + 1)) /\ UNCHANGED <<src, pos, stack>>
    BY <1>6 DEF LexError
  <2>2. ~WellFormed(Tokens(src)) /\ Tok.kind # "eof"
    BY <1>0, <2>1, BrokenRefuses
  <2>3. LineOf(src, Len(src) + 1) \in Nat
    BY <1>0, LineOfIs
  <2> QED
    BY <2>1, <2>2, <2>3, Answers
<1>7. CASE Finish
  <2>1. /\ verdict = Reading /\ Tok.kind = "eof" /\ UNCHANGED <<src, pos, stack>>
        /\ IF Len(stack) = 1 THEN Answer("tree", 0) ELSE Answer("error", Last(stack).line)
    BY <1>7 DEF Finish, Top
  <2>2. IF Len(stack) = 1 THEN WellFormed(Tokens(src))
        ELSE ~WellFormed(Tokens(src)) /\ Names(src, Last(stack).line)
    BY <1>0, <2>1, EndIs
  <2>3. CASE Len(stack) = 1
    BY <2>1, <2>2, <2>3, Answers
  <2>4. CASE Len(stack) # 1
    <3>1. Last(stack).line \in Nat
      <4>1. Len(stack) \in 1..Len(stack) /\ \A d \in 1..Len(stack) : stack[d].line \in Nat
        BY <1>0, OpensAre
      <4>2. stack # <<>>
        BY <4>1, EmptySeq
      <4> QED
        BY <4>1, <4>2 DEF Last
    <3> QED
      BY <2>1, <2>2, <2>4, <3>1, Answers
  <2> QED
    BY <2>3, <2>4
<1>8. CASE UNCHANGED readVars
  BY <1>8 DEF ReaderInv, readVars, AcceptsWellFormed, EofErrorNamesOpening, Tok, Here
<1> QED
  BY <1>1, <1>2, <1>3, <1>4, <1>5, <1>6, <1>7, <1>8 DEF ReadNext

LEMMA ReaderHolds == ReadSpec => []ReaderInv
<1>1. ReadInit => ReaderInv
  <2>1. ReadInit => src \in Seq(Alphabet) /\ AtStart
    BY SourcesAssumption DEF ReadInit
  <2> QED
    BY <2>1, ReaderStarts
<1>2. ReaderInv /\ [ReadNext]_readVars => ReaderInv'
  BY ReaderSteps
<1> QED
  BY <1>1, <1>2, PTL DEF ReadSpec

(* Type correctness of the reader: parse_compound never leaves the program, *)
(* and only brackets are open above it.                                     *)
THEOREM ReaderTyped == ReadSpec => []ReaderTypeOK
<1>1. ReaderInv => ReaderTypeOK
  BY DEF ReaderInv, Stacked, Verdicts, ReaderTypeOK
<1> QED
  BY <1>1, ReaderHolds, PTL

(* The parser of src/parser.c returns a tree exactly for the texts whose    *)
(* brackets cancel pairwise and whose strings close, whatever their length  *)
(* and nesting, and however often they were formatted before.               *)
THEOREM AcceptsOnlyWellFormed == ReadSpec => []AcceptsWellFormed
<1>1. ReaderInv => AcceptsWellFormed
  BY DEF ReaderInv
<1> QED
  BY <1>1, ReaderHolds, PTL

(* The line parse_compound reports at the end of a file is that of the last *)
(* opening bracket without a closer, for every text.                        *)
THEOREM EofErrorsNameOpenings == ReadSpec => []EofErrorNamesOpening
<1>1. ReaderInv => EofErrorNamesOpening
  BY DEF ReaderInv
<1> QED
  BY <1>1, ReaderHolds, PTL

-----------------------------------------------------------------------------
(* Formatting twice.                                                       *)

(* Where a run ends, told by what is in it. *)
LEMMA EndOfAt ==
  ASSUME NEW n \in Nat, NEW i \in 1..n + 1, NEW stops \in SUBSET (i..n), NEW e \in i..n + 1,
         \A j \in i..e - 1 : j \notin stops, e <= n => e \in stops
  PROVE  EndOf(stops, n) = e
<1>1. CASE e = n + 1
  <2>1. stops = {}
    <3>1. \A j \in i..n : j \notin stops
      BY <1>1
    <3> QED
      BY <3>1
  <2> QED
    BY <1>1, <2>1 DEF EndOf
<1>2. CASE e # n + 1
  <2>1. e \in stops /\ stops # {} /\ stops \in SUBSET Nat
    BY <1>2
  <2>2. Min(stops) \in stops /\ \A k \in stops : Min(stops) <= k
    BY <2>1, MinIsLeast
  <2> DEFINE m == Min(stops)
  <2>3. m \in stops /\ m <= e
    BY <2>1, <2>2
  <2> HIDE DEF m
  <2>4. m \in i..n
    BY <2>3
  <2>5. m = e
    <3>1. ~(m \in i..e - 1)
      BY <2>3
    <3> QED
      BY <2>3, <2>4, <3>1
  <2> QED
    BY <2>1, <2>5 DEF EndOf, m
<1> QED
  BY <1>1, <1>2

LEMMA EndOfTells ==
  ASSUME NEW n \in Nat, NEW i \in 1..n + 1, NEW stops \in SUBSET (i..n)
  PROVE  /\ EndOf(stops, n) \in i..n + 1
         /\ \A j \in i..EndOf(stops, n) - 1 : j \notin stops
         /\ EndOf(stops, n) <= n => EndOf(stops, n) \in stops
<1> DEFINE e == EndOf(stops, n)
<1>1. e \in i..n + 1
  BY EndOfIs
<1>2. CASE stops = {}
  <2>1. e = n + 1
    BY <1>2 DEF EndOf
  <2> HIDE DEF e
  <2>2. ~(e <= n)
    BY <2>1
  <2>3. (\A j \in i..e - 1 : j \notin stops) /\ (e <= n => e \in stops)
    BY <1>2, <2>2
  <2> QED
    BY <1>1, <2>3 DEF e
<1>3. CASE stops # {}
  <2>1. stops \in SUBSET Nat
    OBVIOUS
  <2>2. e = Min(stops)
    BY <1>3 DEF EndOf
  <2>3. e \in stops /\ \A k \in stops : e <= k
    BY <1>3, <2>1, <2>2, MinIsLeast
  <2> HIDE DEF e
  <2>4. \A j \in i..e - 1 : j \notin stops
    BY <1>1, <2>3
  <2> QED
    BY <1>1, <2>3, <2>4 DEF e
<1> QED
  BY <1>2, <1>3

(* A line with something on it: blanks up to m, and nothing but blanks after n. *)
Margin == Blanks \cup {"\r"}
Shape(l, m, n) ==
  /\ m \in 0..Len(l) - 1 /\ n \in m + 1..Len(l)
  /\ \A i \in 1..m : l[i] \in Blanks
  /\ l[m + 1] \notin Blanks /\ l[n] \notin Margin
  /\ \A i \in n + 1..Len(l) : l[i] \in Margin

LEMMA MarginIs ==
  /\ Blanks \subseteq Margin
  /\ \A c \in Margin : c # Quote /\ c # Semicolon /\ c \notin Openings /\ c \notin Closings /\ c # Backslash
  /\ Quote \notin Openings \cup Closings
<1>1. Margin = {" ", "\t", "\r"}
  BY DEF Margin, Blanks, Space
<1>2. Openings = {"(", "[", "{"} /\ Closings = {")", "]", "}"}
  BY BracketsDiffer
<1> QED
  BY <1>1, <1>2 DEF Quote, Semicolon, Backslash, Margin

(* What a line is trimmed to tells its shape, ... *)
TextFrom(l) == EndOf({j \in 1..Len(l) : l[j] \notin Blanks}, Len(l))
InkOf(l) == {i \in TextFrom(l)..Len(l) : l[i] \notin Margin}

LEMMA TrimmedParts ==
  ASSUME NEW l, Len(l) \in Nat
  PROVE  /\ Trimmed(l) = IF InkOf(l) = {} THEN <<>> ELSE SubSeq(l, TextFrom(l), Max(InkOf(l)))
         /\ TextFrom(l) \in 1..Len(l) + 1
         /\ \A j \in 1..TextFrom(l) - 1 : l[j] \in Blanks
         /\ TextFrom(l) <= Len(l) => l[TextFrom(l)] \notin Blanks
<1> DEFINE stops == {j \in 1..Len(l) : l[j] \notin Blanks}
<1>1. Trimmed(l) = IF InkOf(l) = {} THEN <<>> ELSE SubSeq(l, TextFrom(l), Max(InkOf(l)))
  BY DEF Trimmed, EndOfRun, EndOf, TextFrom, InkOf, Margin
<1>2. stops \in SUBSET (1..Len(l)) /\ 1 \in 1..Len(l) + 1
  OBVIOUS
<1>3. TextFrom(l) = EndOf(stops, Len(l))
  BY DEF TextFrom
<1> DEFINE e == TextFrom(l)
<1>4. e \in 1..Len(l) + 1 /\ (\A j \in 1..e - 1 : j \notin stops) /\ (e <= Len(l) => e \in stops)
  <2> HIDE DEF stops, e
  <2> QED
    BY <1>2, <1>3, EndOfTells DEF e
<1> HIDE DEF e
<1>5. \A j \in 1..e - 1 : l[j] \in Blanks
  BY <1>4
<1>6. e <= Len(l) => l[e] \notin Blanks
  BY <1>4
<1> QED
  BY <1>1, <1>4, <1>5, <1>6 DEF e

LEMMA ShapeTells ==
  ASSUME NEW C, NEW l \in Seq(C), NEW m, NEW n, Shape(l, m, n)
  PROVE  /\ TextFrom(l) = m + 1 /\ Trimmed(l) = SubSeq(l, m + 1, n)
         /\ Trimmed(l) \in Seq(C) /\ Len(Trimmed(l)) = n - m
         /\ \A i \in 1..n - m : Trimmed(l)[i] = l[m + i]
         /\ Len(l) \in Nat /\ m \in Nat /\ n \in Nat /\ m < n /\ n <= Len(l)
<1>1. Len(l) \in Nat
  BY LenProperties
<1>2. m \in Nat /\ n \in Nat /\ m < n /\ n <= Len(l) /\ m \in 0..Len(l) /\ n \in m..Len(l)
  BY <1>1 DEF Shape
<1> DEFINE stops == {j \in 1..Len(l) : l[j] \notin Blanks}
           e == m + 1
<1>3. TextFrom(l) = m + 1
  <2>1. stops \in SUBSET (1..Len(l)) /\ 1 \in 1..Len(l) + 1 /\ e \in 1..Len(l) + 1
    BY <1>1, <1>2
  <2>2. (\A j \in 1..e - 1 : j \notin stops) /\ e \in stops
    BY <1>1, <1>2 DEF Shape
  <2> HIDE DEF stops, e
  <2>3. EndOf(stops, Len(l)) = e
    BY <1>1, <2>1, <2>2, EndOfAt
  <2> QED
    BY <2>3 DEF TextFrom, stops, e
<1> DEFINE ink == InkOf(l)
<1>4. ink = {i \in m + 1..Len(l) : l[i] \notin Margin}
  BY <1>3 DEF InkOf
<1>5. n \in ink /\ ink \in SUBSET (0..Len(l)) /\ \A i \in ink : i <= n /\ i \in Nat
  <2>1. n \in ink /\ ink \in SUBSET (0..Len(l))
    BY <1>1, <1>2, <1>4 DEF Shape
  <2>2. ASSUME NEW i \in ink PROVE i <= n /\ i \in Nat
    <3>1. i \in m + 1..Len(l) /\ l[i] \notin Margin
      BY <1>4
    <3>2. ~(i \in n + 1..Len(l))
      BY <3>1 DEF Shape
    <3> QED
      BY <1>1, <1>2, <3>1, <3>2
  <2> QED
    BY <2>1, <2>2
<1> HIDE DEF ink
<1>6. Max(ink) = n
  <2>1. Max(ink) \in ink /\ \A k \in ink : k <= Max(ink)
    BY <1>1, <1>5, MaxIsGreatest
  <2> DEFINE x == Max(ink)
  <2>2. x \in ink /\ n <= x
    BY <1>5, <2>1
  <2> HIDE DEF x
  <2>3. x <= n /\ x \in Nat
    BY <1>5, <2>2
  <2>4. x = n
    BY <1>2, <2>2, <2>3
  <2> QED
    BY <2>4 DEF x
<1>7. Trimmed(l) = SubSeq(l, m + 1, n)
  <2>1. ink # {}
    BY <1>5
  <2>2. Trimmed(l) = IF ink = {} THEN <<>> ELSE SubSeq(l, TextFrom(l), Max(ink))
    BY <1>1, TrimmedParts DEF ink
  <2> QED
    BY <1>3, <1>6, <2>1, <2>2
<1>8. /\ SubSeq(l, m + 1, n) \in Seq(C) /\ Len(SubSeq(l, m + 1, n)) = n - m
      /\ \A i \in 1..n - m : SubSeq(l, m + 1, n)[i] = l[m + i]
  BY <1>2, SubSeqIs
<1> QED
  BY <1>1, <1>2, <1>3, <1>7, <1>8

LEMMA HasShape ==
  ASSUME NEW l, Len(l) \in Nat
  PROVE  \/ /\ Trimmed(l) = <<>>
            /\ \A i \in 1..Len(l) : l[i] \in Margin
         \/ \E m, n : Shape(l, m, n)
<1> DEFINE e == TextFrom(l)
           ink == InkOf(l)
           n == Max(ink)
<1>1. /\ Trimmed(l) = IF ink = {} THEN <<>> ELSE SubSeq(l, e, n)
      /\ e \in 1..Len(l) + 1
      /\ \A j \in 1..e - 1 : l[j] \in Blanks
      /\ e <= Len(l) => l[e] \notin Blanks
  BY TrimmedParts
<1>2. ink = {i \in e..Len(l) : l[i] \notin Margin}
  BY DEF InkOf
<1> HIDE DEF e, ink
<1>3. CASE ink = {}
  <2>1. Trimmed(l) = <<>>
    BY <1>1, <1>3
  <2>2. ASSUME NEW i \in 1..Len(l) PROVE l[i] \in Margin
    <3>1. CASE i < e
      <4>1. i \in 1..e - 1
        BY <1>1, <3>1
      <4> QED
        BY <1>1, <4>1, MarginIs
    <3>2. CASE ~(i < e)
      <4>1. i \in e..Len(l)
        BY <1>1, <3>2
      <4> QED
        BY <1>2, <1>3, <4>1
    <3> QED
      BY <3>1, <3>2
  <2> QED
    BY <2>1, <2>2
<1>4. CASE ink # {}
  <2>1. ink \in SUBSET (0..Len(l))
    BY <1>1, <1>2
  <2>2. n \in ink /\ \A k \in ink : k <= n
    BY <1>4, <2>1, MaxIsGreatest
  <2> HIDE DEF n
  <2>3. n \in e..Len(l) /\ l[n] \notin Margin
    BY <1>2, <2>2
  <2>4. ASSUME NEW i \in n + 1..Len(l) PROVE l[i] \in Margin
    <3>1. i \in e..Len(l) /\ ~(i <= n)
      BY <1>1, <2>3
    <3> QED
      BY <1>2, <2>2, <3>1
  <2> DEFINE m == e - 1
  <2>5. m \in 0..Len(l) - 1 /\ n \in m + 1..Len(l) /\ m + 1 = e /\ e <= Len(l)
    BY <1>1, <2>3
  <2>6. Shape(l, m, n)
    BY <1>1, <2>3, <2>4, <2>5 DEF Shape
  <2> QED
    BY <2>6
<1> QED
  BY <1>3, <1>4

(* ... and that tells the closers it begins with. *)
LEMMA ShapeLeading ==
  ASSUME NEW C, NEW l \in Seq(C), NEW m, NEW n, Shape(l, m, n), NEW t, t = Trimmed(l)
  PROVE  LeadingClosers(l) = EndOf({j \in 1..Len(t) : t[j] \notin Closings}, Len(t)) - 1
<1> DEFINE N == Len(l)
           k == Len(t)
           ours == {j \in 1..k : t[j] \notin Closings}
           theirs == {j \in m + 1..N : l[j] \notin Closings}
           e == EndOf(ours, k)
<1>1. /\ TextFrom(l) = m + 1 /\ k = n - m /\ \A i \in 1..n - m : t[i] = l[m + i]
      /\ N \in Nat /\ m \in Nat /\ n \in Nat /\ m < n /\ n <= N
  BY ShapeTells
<1>2. LeadingClosers(l) = EndOf(theirs, N) - (m + 1)
  <2>1. LeadingClosers(l) = EndOf({j \in TextFrom(l)..N : l[j] \notin Closings}, N) - TextFrom(l)
    BY DEF LeadingClosers, EndOfRun, EndOf, TextFrom
  <2> QED
    BY <1>1, <2>1
<1>3. e \in 1..k + 1 /\ (\A j \in 1..e - 1 : j \notin ours) /\ (e <= k => e \in ours)
  <2>1. k \in Nat /\ 1 \in 1..k + 1 /\ ours \in SUBSET (1..k)
    BY <1>1
  <2> HIDE DEF ours, k
  <2> QED
    BY <2>1, EndOfTells
<1> HIDE DEF e, k
<1>4. EndOf(theirs, N) = m + e
  <2>1. m + 1 \in 1..N + 1 /\ m + e \in m + 1..N + 1 /\ theirs \in SUBSET (m + 1..N)
    BY <1>1, <1>3
  <2>2. ASSUME NEW j \in m + 1..(m + e) - 1 PROVE j \notin theirs
    <3>1. j - m \in 1..e - 1 /\ j - m \in 1..k /\ m + (j - m) = j /\ j - m \in 1..n - m
      BY <1>1, <1>3
    <3>2. t[j - m] \in Closings
      BY <1>3, <3>1
    <3>3. l[j] \in Closings
      BY <1>1, <3>1, <3>2
    <3> QED
      BY <3>3
  <2>3. ASSUME m + e <= N PROVE m + e \in theirs
    <3>1. l[m + e] \notin Closings
      <4>1. CASE e <= k
        <5>1. e \in 1..n - m /\ t[e] \notin Closings
          BY <1>1, <1>3, <4>1
        <5> QED
          BY <1>1, <5>1
      <4>2. CASE ~(e <= k)
        <5>1. m + e \in n + 1..N
          BY <1>1, <1>3, <2>3, <4>2
        <5>2. l[m + e] \in Margin
          BY <5>1 DEF Shape
        <5> QED
          BY <5>2, MarginIs
      <4> QED
        BY <4>1, <4>2
    <3> QED
      BY <1>1, <1>3, <2>3, <3>1
  <2> DEFINE me == m + e
  <2> HIDE DEF theirs, N, me
  <2>4. EndOf(theirs, N) = me
    BY <1>1, <2>1, <2>2, <2>3, EndOfAt DEF me
  <2> QED
    BY <2>4 DEF me
<1> QED
  BY <1>1, <1>2, <1>3, <1>4 DEF e, k

(* Induction from the end of a range of places to its beginning. *)
LEMMA Backwards ==
  ASSUME NEW n \in Nat, NEW G,
         \A i \in 1..n : (\A j \in i + 1..n : j \in G) => i \in G
  PROVE  \A i \in 1..n : i \in G
<1> DEFINE D == {m \in Nat : \A i \in 1..n : n - i = m => i \in G}
<1>1. ASSUME NEW m \in Nat, \A k \in 0..m - 1 : k \in D PROVE m \in D
  <2> SUFFICES ASSUME NEW i \in 1..n, n - i = m PROVE i \in G
    OBVIOUS
  <2>1. ASSUME NEW j \in i + 1..n PROVE j \in G
    <3>1. n - j \in 0..m - 1 /\ j \in 1..n
      OBVIOUS
    <3>2. n - j \in D
      BY <1>1, <3>1
    <3> QED
      BY <3>1, <3>2
  <2> QED
    BY <2>1
<1>2. Nat \subseteq D
  <2> HIDE DEF D
  <2> QED
    BY <1>1, Induction
<1>3. ASSUME NEW i \in 1..n PROVE i \in G
  <2>1. n - i \in D
    BY <1>2
  <2> QED
    BY <2>1
<1> QED
  BY <1>3

(* Margin does not move the depth. *)
LEMMA MarginScan ==
  ASSUME NEW l, NEW n \in Nat, n = Len(l), NEW a \in 1..n + 1, NEW b \in a..n + 1,
         \A i \in a..b - 1 : l[i] \in Margin, NEW d \in Nat
  PROVE  DepthScan(l)[<<a, d>>] = DepthScan(l)[<<b, d>>]
<1> DEFINE scan == DepthScan(l)
           G == {i \in Nat : i \in a..b => scan[<<i, d>>] = scan[<<b, d>>]}
<1>1. \A i \in 1..n + 1, k \in Nat :
        scan[<<i, k>>] = IF i > n \/ l[i] = Semicolon THEN k ELSE scan[Onward(l, n, i, k)]
  BY DepthUnfold
<1> HIDE DEF scan
<1>2. ASSUME NEW i \in 1..b, \A j \in i + 1..b : j \in G PROVE i \in G
  <2> SUFFICES ASSUME i \in a..b, i # b PROVE scan[<<i, d>>] = scan[<<b, d>>]
    OBVIOUS
  <2>1. i \in a..b - 1 /\ i \in 1..n /\ i \in 1..n + 1
    OBVIOUS
  <2>2. l[i] \in Margin
    BY <2>1
  <2>3. Onward(l, n, i, d) = <<i + 1, d>> /\ l[i] # Semicolon
    BY <2>2, MarginIs DEF Onward
  <2>4. scan[<<i, d>>] = scan[<<i + 1, d>>]
    BY <1>1, <2>1, <2>3
  <2>5. i + 1 \in i + 1..b /\ i + 1 \in a..b
    BY <2>1
  <2>6. i + 1 \in G
    BY <1>2, <2>5
  <2> QED
    BY <2>4, <2>5, <2>6
<1>3. a \in G
  <2>1. b \in Nat /\ a \in 1..b
    OBVIOUS
  <2> HIDE DEF G
  <2>2. \A i \in 1..b : i \in G
    BY <1>2, <2>1, Backwards
  <2> QED
    BY <2>1, <2>2
<1>4. a \in a..b
  OBVIOUS
<1>5. scan[<<a, d>>] = scan[<<b, d>>]
  BY <1>3, <1>4
<1> QED
  BY <1>5 DEF scan

LEMMA BlankDepth ==
  ASSUME NEW l, NEW n \in Nat, n = Len(l), \A i \in 1..n : l[i] \in Margin, NEW d \in Nat
  PROVE  DepthAfter(d, l) = d
<1>1. 1 \in 1..n + 1 /\ n + 1 \in 1..n + 1 /\ (n + 1) - 1 = n /\ n + 1 > n
  OBVIOUS
<1>2. DepthScan(l)[<<1, d>>] = DepthScan(l)[<<n + 1, d>>]
  BY <1>1, MarginScan
<1>3. DepthScan(l)[<<n + 1, d>>] = d
  BY <1>1, DepthUnfold
<1>4. DepthAfter(d, l) = DepthScan(l)[<<1, d>>]
  BY DepthUnfold
<1> QED
  BY <1>2, <1>3, <1>4

(* A line that is another with margins around it: the k characters after m. *)
Around(l, n, t, k, m) ==
  /\ n \in Nat /\ n = Len(l) /\ k \in Nat /\ k = Len(t) /\ k >= 1 /\ m \in Nat /\ m + k <= n
  /\ \A i \in 1..k : l[m + i] = t[i]
  /\ \A i \in 1..m : l[i] \in Margin
  /\ \A i \in m + k + 1..n : l[i] \in Margin

(* Strings in it end at the same place, or reach past it in both. *)
LEMMA QuotesAround ==
  ASSUME NEW l, NEW n, NEW t, NEW k, NEW m, Around(l, n, t, k, m), NEW i \in 1..k + 1
  PROVE  \/ AfterQuote(l, n)[m + i] = m + AfterQuote(t, k)[i]
         \/ AfterQuote(t, k)[i] = k + 1 /\ AfterQuote(l, n)[m + i] >= m + k + 1
<1> DEFINE A == AfterQuote(l, n)
           B == AfterQuote(t, k)
           Same(j) == \/ A[m + j] = m + B[j]
                      \/ B[j] = k + 1 /\ A[m + j] >= m + k + 1
           G == {j \in Nat : Same(j)}
<1>1. n \in Nat /\ k \in Nat /\ m \in Nat /\ m + k <= n /\ k >= 1 /\ \A j \in 1..k : l[m + j] = t[j]
  BY DEF Around
<1>2. \A j \in 1..n + 1 : A[j] \in j..n + 1 /\
         A[j] = IF j > n THEN j ELSE IF l[j] = Quote THEN j + 1
                ELSE A[IF l[j] = Backslash /\ j < n THEN j + 2 ELSE j + 1]
  BY <1>1, AfterQuoteIs
<1>3. \A j \in 1..k + 1 : B[j] \in j..k + 1 /\
         B[j] = IF j > k THEN j ELSE IF t[j] = Quote THEN j + 1
                ELSE B[IF t[j] = Backslash /\ j < k THEN j + 2 ELSE j + 1]
  BY <1>1, AfterQuoteIs
<1> HIDE DEF A, B
<1>4. ASSUME NEW j \in 1..k + 1, \A h \in j + 1..k + 1 : h \in G PROVE Same(j)
  <2>1. j \in Nat /\ m + j \in 1..n + 1 /\ \A h \in j + 1..k + 1 : Same(h)
    BY <1>1, <1>4
  <2>2. CASE j = k + 1
    <3>1. B[j] = k + 1
      BY <1>1, <1>3, <2>2
    <3>2. A[m + j] >= m + k + 1
      BY <1>1, <1>2, <2>1, <2>2
    <3> QED
      BY <3>1, <3>2
  <2>3. CASE j # k + 1
    <3>1. j \in 1..k /\ ~(j > k) /\ m + j <= n /\ ~(m + j > n) /\ t[j] = l[m + j]
      BY <1>1, <2>1, <2>3
    <3>2. CASE t[j] = Quote
      <4>1. A[m + j] = m + j + 1 /\ B[j] = j + 1
        BY <1>2, <1>3, <2>1, <3>1, <3>2
      <4> QED
        BY <1>1, <3>1, <4>1
    <3>3. CASE t[j] # Quote /\ t[j] = Backslash /\ j < k
      <4>1. m + j < n /\ j + 2 \in j + 1..k + 1 /\ m + j + 2 = m + (j + 2)
        BY <1>1, <3>1, <3>3
      <4>2. A[m + j] = A[m + (j + 2)] /\ B[j] = B[j + 2]
        BY <1>2, <1>3, <2>1, <3>1, <3>3, <4>1
      <4>3. Same(j + 2)
        BY <2>1, <4>1
      <4> QED
        BY <4>2, <4>3
    <3>4. CASE t[j] # Quote /\ t[j] = Backslash /\ ~(j < k)
      <4>1. j = k /\ k + 1 \in 1..k + 1
        BY <1>1, <3>1, <3>4
      <4>2. B[j] = B[k + 1] /\ B[k + 1] = k + 1
        BY <1>1, <1>3, <3>1, <3>4, <4>1
      <4>3. A[m + j] >= m + k + 1
        <5> DEFINE h == IF m + j < n THEN m + j + 2 ELSE m + j + 1
        <5>1. A[m + j] = A[h]
          BY <1>2, <2>1, <3>1, <3>4
        <5>2. h \in m + k + 1..n + 1
          BY <1>1, <3>1, <4>1
        <5> HIDE DEF h
        <5>3. A[h] \in h..n + 1
          BY <1>1, <1>2, <5>2
        <5> QED
          BY <1>1, <5>1, <5>2, <5>3
      <4> QED
        BY <4>2, <4>3
    <3>5. CASE t[j] # Quote /\ t[j] # Backslash
      <4>1. j + 1 \in j + 1..k + 1 /\ m + j + 1 = m + (j + 1)
        BY <1>1, <3>1
      <4>2. A[m + j] = A[m + (j + 1)] /\ B[j] = B[j + 1]
        BY <1>2, <1>3, <2>1, <3>1, <3>5, <4>1
      <4>3. Same(j + 1)
        BY <2>1, <4>1
      <4> QED
        BY <4>2, <4>3
    <3> QED
      BY <3>2, <3>3, <3>4, <3>5
  <2> QED
    BY <2>2, <2>3
<1>5. i \in G
  <2>1. k + 1 \in Nat
    BY <1>1
  <2>2. \A j \in 1..k + 1 : (\A h \in j + 1..k + 1 : h \in G) => j \in G
    <3> HIDE DEF Same
    <3> QED
      BY <1>4
  <2> HIDE DEF G
  <2>3. \A j \in 1..k + 1 : j \in G
    BY <2>1, <2>2, Backwards
  <2> QED
    BY <2>3
<1>6. Same(i)
  BY <1>5
<1> QED
  BY <1>6 DEF A, B

(* So margins do not move the depth a line reaches. *)
LEMMA ScanAround ==
  ASSUME NEW l, NEW n, NEW t, NEW k, NEW m, Around(l, n, t, k, m), NEW i \in 1..k + 1
  PROVE  \A d \in Nat : DepthScan(t)[<<i, d>>] = DepthScan(l)[<<m + i, d>>]
<1> DEFINE A == AfterQuote(l, n)
           B == AfterQuote(t, k)
           sl == DepthScan(l)
           st == DepthScan(t)
           Same(j) == \A d \in Nat : st[<<j, d>>] = sl[<<m + j, d>>]
           G == {j \in Nat : Same(j)}
<1>1. /\ n \in Nat /\ n = Len(l) /\ k \in Nat /\ k = Len(t) /\ m \in Nat /\ m + k <= n /\ k >= 1
      /\ \A j \in 1..k : l[m + j] = t[j]
  BY DEF Around
<1>2. \A j \in 1..n + 1, d \in Nat :
        sl[<<j, d>>] = IF j > n \/ l[j] = Semicolon THEN d ELSE sl[Onward(l, n, j, d)]
  BY <1>1, DepthUnfold
<1>3. \A j \in 1..k + 1, d \in Nat :
        st[<<j, d>>] = IF j > k \/ t[j] = Semicolon THEN d ELSE st[Onward(t, k, j, d)]
  BY <1>1, DepthUnfold
<1>4. ASSUME NEW j \in m + k + 1..n + 1, NEW d \in Nat PROVE sl[<<j, d>>] = d
  <2>1. j \in 1..n + 1 /\ n + 1 \in j..n + 1 /\ (n + 1) - 1 = n /\ n + 1 \in 1..n + 1 /\ n + 1 > n
    BY <1>1
  <2>2. \A h \in j..(n + 1) - 1 : l[h] \in Margin
    <3> SUFFICES ASSUME NEW h \in j..(n + 1) - 1 PROVE l[h] \in Margin
      OBVIOUS
    <3>1. h \in m + k + 1..n
      BY <1>1, <2>1
    <3> QED
      BY <3>1 DEF Around
  <2>3. sl[<<j, d>>] = sl[<<n + 1, d>>]
    <3> DEFINE e == n + 1
    <3>1. e \in j..n + 1 /\ \A h \in j..e - 1 : l[h] \in Margin
      BY <2>1, <2>2
    <3> HIDE DEF e
    <3>2. n \in Nat /\ n = Len(l) /\ j \in 1..n + 1
      BY <1>1, <2>1
    <3>3. DepthScan(l)[<<j, d>>] = DepthScan(l)[<<e, d>>]
      BY <3>1, <3>2, MarginScan
    <3> QED
      BY <3>3 DEF e, sl
  <2>4. sl[<<n + 1, d>>] = d
    BY <1>2, <2>1
  <2> QED
    BY <2>3, <2>4
<1>5. \A j \in 1..k + 1 : B[j] \in j..k + 1
  BY <1>1, AfterQuoteIs
<1>6. \A j \in 1..n + 1 : A[j] \in j..n + 1
  BY <1>1, AfterQuoteIs
<1>7. \A j \in 1..k + 1 : A[m + j] = m + B[j] \/ (B[j] = k + 1 /\ A[m + j] >= m + k + 1)
  BY QuotesAround
<1>8. ASSUME NEW j \in 1..k, NEW d \in Nat
      PROVE  Onward(t, k, j, d) = IF t[j] = Quote THEN <<B[j + 1], d>>
               ELSE <<j + 1, IF t[j] \in Openings THEN d + 1
                             ELSE IF t[j] \in Closings /\ d > 0 THEN d - 1 ELSE d>>
  BY DEF Onward
<1>9. ASSUME NEW j \in 1..n, NEW d \in Nat
      PROVE  Onward(l, n, j, d) = IF l[j] = Quote THEN <<A[j + 1], d>>
               ELSE <<j + 1, IF l[j] \in Openings THEN d + 1
                             ELSE IF l[j] \in Closings /\ d > 0 THEN d - 1 ELSE d>>
  BY DEF Onward
<1> HIDE DEF A, B, sl, st
<1>10. ASSUME NEW j \in 1..k + 1, \A h \in j + 1..k + 1 : h \in G, NEW d \in Nat
       PROVE  st[<<j, d>>] = sl[<<m + j, d>>]
  <2>1. j \in Nat /\ m + j \in 1..n + 1 /\ \A h \in j + 1..k + 1 : Same(h)
    BY <1>1, <1>10
  <2>2. CASE j = k + 1
    <3>1. st[<<j, d>>] = d
      BY <1>1, <1>3, <2>2
    <3>2. m + j \in m + k + 1..n + 1
      BY <1>1, <2>1, <2>2
    <3> QED
      BY <1>4, <3>1, <3>2
  <2>3. CASE j # k + 1
    <3>1. j \in 1..k /\ ~(j > k) /\ m + j \in 1..n /\ ~(m + j > n) /\ t[j] = l[m + j]
      BY <1>1, <2>1, <2>3
    <3>2. CASE t[j] = Semicolon
      <4>1. st[<<j, d>>] = d /\ sl[<<m + j, d>>] = d
        BY <1>2, <1>3, <2>1, <3>1, <3>2
      <4> QED
        BY <4>1
    <3>3. CASE t[j] # Semicolon
      <4>1. st[<<j, d>>] = st[Onward(t, k, j, d)] /\ sl[<<m + j, d>>] = sl[Onward(l, n, m + j, d)]
        BY <1>2, <1>3, <2>1, <3>1, <3>3
      <4>2. j + 1 \in j + 1..k + 1 /\ j + 1 \in 1..k + 1 /\ m + j + 1 = m + (j + 1) /\ m + j + 1 \in 1..n + 1
        BY <1>1, <3>1
      <4>3. CASE t[j] = Quote
        <5>1. Onward(t, k, j, d) = <<B[j + 1], d>> /\ Onward(l, n, m + j, d) = <<A[m + (j + 1)], d>>
          BY <1>8, <1>9, <3>1, <4>2, <4>3
        <5>2. B[j + 1] \in j + 1..k + 1 /\ A[m + (j + 1)] \in 1..n + 1
          <6> DEFINE x == j + 1
                     y == m + x
          <6>1. x \in 1..k + 1 /\ y \in 1..n + 1
            BY <4>2
          <6>2. n \in Nat
            BY <1>1
          <6> HIDE DEF x, y
          <6>3. B[x] \in x..k + 1 /\ A[y] \in y..n + 1
            BY <1>5, <1>6, <6>1
          <6>4. A[y] \in 1..n + 1
            BY <6>1, <6>2, <6>3
          <6> QED
            BY <6>3, <6>4 DEF x, y
        <5>3. CASE A[m + (j + 1)] = m + B[j + 1]
          <6> DEFINE y == B[j + 1]
          <6>1. y \in j + 1..k + 1
            BY <5>2
          <6>2. Same(y)
            <7> HIDE DEF y, Same
            <7> QED
              BY <2>1, <6>1
          <6> QED
            BY <4>1, <5>1, <5>3, <6>2
        <5>4. CASE B[j + 1] = k + 1 /\ A[m + (j + 1)] >= m + k + 1
          <6>1. A[m + (j + 1)] \in m + k + 1..n + 1
            BY <1>1, <5>2, <5>4
          <6>2. sl[<<A[m + (j + 1)], d>>] = d
            BY <1>4, <6>1
          <6>3. st[<<k + 1, d>>] = d
            BY <1>1, <1>3
          <6> QED
            BY <4>1, <5>1, <5>4, <6>2, <6>3
        <5> QED
          BY <1>7, <4>2, <5>3, <5>4
      <4>4. CASE t[j] # Quote
        <5> DEFINE e == IF t[j] \in Openings THEN d + 1
                        ELSE IF t[j] \in Closings /\ d > 0 THEN d - 1 ELSE d
        <5>1. e \in Nat
          OBVIOUS
        <5>2. Onward(t, k, j, d) = <<j + 1, e>> /\ Onward(l, n, m + j, d) = <<m + (j + 1), e>>
          BY <1>8, <1>9, <3>1, <4>2, <4>4
        <5> HIDE DEF e
        <5>3. Same(j + 1)
          BY <2>1, <4>2
        <5> QED
          BY <4>1, <5>1, <5>2, <5>3
      <4> QED
        BY <4>3, <4>4
    <3> QED
      BY <3>2, <3>3
  <2> QED
    BY <2>2, <2>3
<1>11. i \in G
  <2>1. k + 1 \in Nat
    BY <1>1
  <2>2. \A j \in 1..k + 1 : (\A h \in j + 1..k + 1 : h \in G) => j \in G
    <3> SUFFICES ASSUME NEW j \in 1..k + 1, \A h \in j + 1..k + 1 : h \in G PROVE j \in G
      OBVIOUS
    <3>1. \A d \in Nat : st[<<j, d>>] = sl[<<m + j, d>>]
      <4> HIDE DEF G
      <4> QED
        BY <1>10
    <3>2. j \in Nat
      BY <1>1
    <3> QED
      BY <3>1, <3>2
  <2> HIDE DEF G
  <2>3. \A j \in 1..k + 1 : j \in G
    BY <2>1, <2>2, Backwards
  <2> QED
    BY <2>3
<1>12. Same(i)
  BY <1>11
<1> QED
  BY <1>12 DEF sl, st

(* A line leads to the depth that what it is trimmed to leads to. *)
LEMMA ShapeDepth ==
  ASSUME NEW C, NEW l \in Seq(C), NEW m, NEW n, Shape(l, m, n), NEW d \in Nat
  PROVE  DepthAfter(d, l) = DepthAfter(d, Trimmed(l))
<1> DEFINE t == Trimmed(l)
           k == Len(t)
           N == Len(l)
<1>1. /\ k = n - m /\ \A i \in 1..n - m : t[i] = l[m + i]
      /\ N \in Nat /\ m \in Nat /\ n \in Nat /\ m < n /\ n <= N
  BY ShapeTells
<1> HIDE DEF t, k, N
<1>2. k \in Nat /\ k >= 1 /\ m + k = n
  BY <1>1
<1>3. Around(l, N, t, k, m)
  <2>1. \A i \in 1..m : l[i] \in Margin
    BY MarginIs DEF Shape
  <2>2. \A i \in n + 1..N : l[i] \in Margin
    BY DEF Shape, N
  <2>3. \A i \in 1..k : l[m + i] = t[i]
    BY <1>1
  <2> QED
    BY <1>1, <1>2, <2>1, <2>2, <2>3 DEF Around, N, k
<1>4. 1 \in 1..k + 1 /\ m + 1 \in 1..N + 1 /\ 1 \in 1..N + 1 /\ m + 1 \in 1..N + 1 /\ (m + 1) - 1 = m
  BY <1>1, <1>2
<1>5. DepthScan(t)[<<1, d>>] = DepthScan(l)[<<m + 1, d>>]
  BY <1>3, <1>4, ScanAround
<1>6. DepthScan(l)[<<1, d>>] = DepthScan(l)[<<m + 1, d>>]
  <2>1. \A i \in 1..(m + 1) - 1 : l[i] \in Margin
    BY <1>1, <1>3 DEF Around
  <2>2. N = Len(l) /\ m + 1 \in 1..N + 1
    BY <1>4 DEF N
  <2> DEFINE e == m + 1
  <2>3. e \in 1..N + 1 /\ \A i \in 1..e - 1 : l[i] \in Margin
    BY <1>4, <2>1
  <2> HIDE DEF e
  <2>4. DepthScan(l)[<<1, d>>] = DepthScan(l)[<<e, d>>]
    BY <1>1, <1>4, <2>2, <2>3, MarginScan
  <2> QED
    BY <2>4 DEF e
<1>7. DepthAfter(d, l) = DepthScan(l)[<<1, d>>]
  BY <1>1, DepthUnfold DEF N
<1>8. DepthAfter(d, t) = DepthScan(t)[<<1, d>>]
  BY <1>2, DepthUnfold DEF k
<1> QED
  BY <1>5, <1>6, <1>7, <1>8 DEF t

(* Where a line stops, told by what is in it. *)
LEMMA LineEndsAt ==
  ASSUME NEW s, NEW n \in Nat, n = Len(s), NEW i \in 1..n + 1, NEW e \in i..n + 1,
         \A j \in i..e - 1 : s[j] # "\n", e <= n => s[e] = "\n"
  PROVE  LineStop(s, i) = e
<1> DEFINE stops == {j \in i..n : ~(s[j] # "\n")}
<1>1. LineStop(s, i) = EndOf(stops, n)
  BY DEF LineStop, EndOfRun, EndOf
<1>2. stops \in SUBSET (i..n) /\ (\A j \in i..e - 1 : j \notin stops) /\ (e <= n => e \in stops)
  OBVIOUS
<1> HIDE DEF stops
<1>3. EndOf(stops, n) = e
  BY <1>2, EndOfAt
<1> QED
  BY <1>1, <1>3

LEMMA LineStopTells ==
  ASSUME NEW s, NEW n \in Nat, n = Len(s), NEW i \in 1..n + 1
  PROVE  LineStop(s, i) \in i..n + 1 /\ \A j \in i..LineStop(s, i) - 1 : s[j] # "\n"
<1> DEFINE stops == {j \in i..n : ~(s[j] # "\n")}
           e == LineStop(s, i)
<1>1. e = EndOf(stops, n)
  BY DEF LineStop, EndOfRun, EndOf
<1>2. stops \in SUBSET (i..n) /\ i \in 1..n + 1
  OBVIOUS
<1> HIDE DEF stops, e
<1>3. e \in i..n + 1 /\ \A j \in i..e - 1 : j \notin stops
  BY <1>1, <1>2, EndOfTells
<1>4. \A j \in i..e - 1 : s[j] # "\n"
  BY <1>3 DEF stops
<1> QED
  BY <1>3, <1>4 DEF e

(* The characters of a line. *)
Plain(C) == C \ {"\n"}

LEMMA PlainLine ==
  ASSUME NEW C, NEW s \in Seq(C), NEW i \in 1..Len(s) + 1
  PROVE  SubSeq(s, i, LineStop(s, i) - 1) \in Seq(Plain(C))
<1> DEFINE n == Len(s)
           e == LineStop(s, i)
           t == SubSeq(s, i, e - 1)
<1>1. n \in Nat /\ n = Len(s)
  BY LenProperties
<1>2. e \in i..n + 1 /\ \A j \in i..e - 1 : s[j] # "\n"
  BY <1>1, LineStopTells
<1> HIDE DEF e, n
<1> DEFINE m == i - 1
           k == e - 1
<1>3. m \in 0..Len(s) /\ k \in m..Len(s) /\ m + 1 = i /\ k - m \in Nat
  BY <1>1, <1>2
<1>4. t \in Seq(C) /\ Len(t) = k - m /\ \A j \in 1..k - m : t[j] = s[m + j]
  <2>1. t = SubSeq(s, m + 1, k)
    BY <1>3
  <2> HIDE DEF m, k, t
  <2> QED
    BY <1>3, <2>1, SubSeqIs
<1> HIDE DEF t
<1>5. ASSUME NEW j \in 1..Len(t) PROVE t[j] \in Plain(C)
  <2>1. j \in 1..k - m /\ m + j \in i..e - 1
    BY <1>2, <1>3, <1>4
  <2>2. t[j] # "\n"
    BY <1>2, <1>4, <2>1
  <2>3. t[j] \in C
    BY <1>4, ElementOfSeq
  <2> QED
    BY <2>2, <2>3 DEF Plain
<1>6. t \in Seq(Plain(C))
  <2>1. Len(t) \in Nat /\ t = [j \in 1..Len(t) |-> t[j]]
    BY <1>4, LenProperties
  <2>2. [j \in 1..Len(t) |-> t[j]] \in Seq(Plain(C))
    BY <1>5, <2>1, SeqDef
  <2> QED
    BY <2>1, <2>2
<1> QED
  BY <1>6 DEF t, e

(* Every text has a line, and no line has a newline in it. *)
LEMMA LinesPlain ==
  ASSUME NEW C, NEW s \in Seq(C)
  PROVE  LinesOf(s) \in Seq(Seq(Plain(C))) /\ Len(LinesOf(s)) \in Nat \ {0}
<1> DEFINE n == Len(s)
           S == Seq(Plain(C))
           from == LinesFrom(s)
           piece(i) == SubSeq(s, i, LineStop(s, i) - 1)
           Good(r) == r \in Seq(S) /\ Len(r) \in Nat \ {0}
           G == {i \in Nat : Good(from[i])}
<1>1. n \in Nat /\ n = Len(s)
  BY LenProperties
<1>2. \A i \in 1..n + 1 :
        from[i] = Cat(<<piece(i)>>, IF LineStop(s, i) > n THEN <<>> ELSE from[LineStop(s, i) + 1])
  BY LinesUnfold DEF LinesAfter
<1>3. LinesOf(s) = from[1]
  BY LinesUnfold
<1>4. \A i \in 1..n + 1 : piece(i) \in S /\ LineStop(s, i) \in i..n + 1
  BY <1>1, PlainLine, LineStopTells
<1> HIDE DEF n, from, piece, S
<1>5. ASSUME NEW i \in 1..n + 1, \A j \in i + 1..n + 1 : j \in G PROVE i \in G
  <2> DEFINE rest == IF LineStop(s, i) > n THEN <<>> ELSE from[LineStop(s, i) + 1]
  <2>1. rest \in Seq(S)
    <3>1. CASE LineStop(s, i) > n
      BY <3>1, EmptySeq
    <3>2. CASE ~(LineStop(s, i) > n)
      <4>1. LineStop(s, i) + 1 \in i + 1..n + 1
        BY <1>1, <1>4, <3>2
      <4>2. Good(from[LineStop(s, i) + 1])
        BY <1>5, <4>1
      <4> QED
        BY <3>2, <4>2
    <3> QED
      BY <3>1, <3>2
  <2> DEFINE x == piece(i)
  <2>2. x \in S /\ from[i] = Cat(<<x>>, rest)
    BY <1>2, <1>4
  <2> HIDE DEF x, rest
  <2>3. Cat(<<x>>, rest) \in Seq(S) /\ Len(Cat(<<x>>, rest)) = Len(rest) + 1 /\ Len(rest) \in Nat
    BY <2>1, <2>2, ConsIs, LenProperties
  <2>4. Good(from[i])
    BY <2>2, <2>3
  <2> QED
    BY <1>1, <2>4
<1>6. 1 \in G
  <2>1. n + 1 \in Nat /\ 1 \in 1..n + 1
    BY <1>1
  <2> HIDE DEF G
  <2>2. \A i \in 1..n + 1 : i \in G
    BY <1>5, <2>1, Backwards
  <2> QED
    BY <2>1, <2>2
<1>7. Good(from[1])
  BY <1>6
<1> QED
  BY <1>3, <1>7 DEF S

-----------------------------------------------------------------------------
(* What a row adds to a text: itself and a newline. *)
Grown(o, t, p) ==
  /\ Len(o) \in Nat /\ Len(t) \in Nat /\ Len(p) = Len(o) + Len(t) + 1
  /\ \A i \in 1..Len(o) : p[i] = o[i]
  /\ \A i \in 1..Len(t) : p[Len(o) + i] = t[i]
  /\ p[Len(o) + Len(t) + 1] = "\n"

LEMMA RowGrows ==
  ASSUME NEW C, "\n" \in C, NEW o \in Seq(C), NEW t \in Seq(C)
  PROVE  Grown(o, t, Cat(Cat(o, t), <<"\n">>)) /\ Cat(Cat(o, t), <<"\n">>) \in Seq(C)
<1> DEFINE a == Cat(o, t)
           e == <<"\n">>
           p == Cat(a, e)
<1>1. e \in Seq(C) /\ Len(e) = 1 /\ e[1] = "\n" /\ 1 \in 1..Len(e)
  OBVIOUS
<1>2. a \in Seq(C) /\ Len(a) = Len(o) + Len(t) /\ Len(o) \in Nat /\ Len(t) \in Nat
  BY CatIsSeq, CatLength, LenProperties
<1>3. (\A i \in 1..Len(o) : a[i] = o[i]) /\ (\A i \in 1..Len(t) : a[Len(o) + i] = t[i])
  BY CatElements
<1> HIDE DEF a, e
<1>4. p \in Seq(C) /\ Len(p) = Len(a) + 1
  BY <1>1, <1>2, CatIsSeq, CatLength
<1>5. (\A i \in 1..Len(a) : p[i] = a[i]) /\ (\A i \in 1..Len(e) : p[Len(a) + i] = e[i])
  <2>1. a \in Seq(C) /\ e \in Seq(C)
    BY <1>1, <1>2
  <2> HIDE DEF p
  <2>2. /\ \A i \in 1..Len(a) : Cat(a, e)[i] = a[i]
        /\ \A i \in 1..Len(e) : Cat(a, e)[Len(a) + i] = e[i]
    BY <2>1, CatElements
  <2> QED
    BY <2>2 DEF p
<1> HIDE DEF p
<1>6. \A i \in 1..Len(o) : p[i] = o[i]
  <2> SUFFICES ASSUME NEW i \in 1..Len(o) PROVE p[i] = o[i]
    OBVIOUS
  <2>1. i \in 1..Len(a)
    BY <1>2
  <2> QED
    BY <1>3, <1>5, <2>1
<1>7. \A i \in 1..Len(t) : p[Len(o) + i] = t[i]
  <2> SUFFICES ASSUME NEW i \in 1..Len(t) PROVE p[Len(o) + i] = t[i]
    OBVIOUS
  <2>1. Len(o) + i \in 1..Len(a)
    BY <1>2
  <2> QED
    BY <1>3, <1>5, <2>1
<1>8. p[Len(a) + 1] = "\n"
  BY <1>1, <1>5
<1>9. Grown(o, t, p)
  BY <1>2, <1>4, <1>6, <1>7, <1>8 DEF Grown
<1> QED
  BY <1>4, <1>9 DEF p, a, e

(* A text written row by row, ... *)
Rows(C, n, o, t) ==
  /\ o \in [0..n -> Seq(C)] /\ t \in [1..n -> Seq(Plain(C))] /\ o[0] = <<>>
  /\ \A k \in 1..n : Grown(o[k - 1], t[k], o[k])

(* ... is made of what was written before, whatever row is next. *)
Begins(a, f) == Len(a) \in Nat /\ Len(a) <= Len(f) /\ \A i \in 1..Len(a) : f[i] = a[i]

LEMMA RowsGrow ==
  ASSUME NEW C, NEW n \in Nat, NEW o, NEW t, Rows(C, n, o, t)
  PROVE  \A k \in 0..n : Begins(o[k], o[n])
<1> SUFFICES ASSUME NEW k \in 0..n PROVE Begins(o[k], o[n])
  OBVIOUS
<1> DEFINE Good(j) == Len(o[j]) <= Len(o[n]) /\ \A i \in 1..Len(o[j]) : o[n][i] = o[j][i]
           G == {j \in Nat : Good(j - 1)}
<1>1. \A j \in 0..n : Len(o[j]) \in Nat
  BY LenProperties DEF Rows
<1>2. ASSUME NEW j \in 1..n + 1, \A h \in j + 1..n + 1 : h \in G PROVE j \in G
  <2>1. CASE j = n + 1
    <3>1. j - 1 = n /\ n \in 0..n
      BY <2>1
    <3>2. Good(n)
      BY <1>1, <3>1
    <3> QED
      BY <3>1, <3>2
  <2>2. CASE j # n + 1
    <3>1. j \in 1..n /\ j + 1 \in j + 1..n + 1 /\ (j + 1) - 1 = j /\ j - 1 \in 0..n /\ j \in 0..n
      BY <2>2
    <3>2. Good(j)
      <4>1. j + 1 \in G
        BY <1>2, <3>1
      <4>2. Good((j + 1) - 1)
        BY <4>1
      <4> QED
        BY <3>1, <4>2
    <3>3. Grown(o[j - 1], t[j], o[j])
      BY <3>1 DEF Rows
    <3> DEFINE a == o[j - 1]
               b == o[j]
               f == o[n]
    <3>4. /\ Len(a) \in Nat /\ Len(b) \in Nat /\ Len(f) \in Nat /\ Len(a) <= Len(b)
          /\ \A i \in 1..Len(a) : b[i] = a[i]
      <4>1. n \in 0..n
        OBVIOUS
      <4>2. Len(a) \in Nat /\ Len(b) \in Nat /\ Len(f) \in Nat
        BY <1>1, <3>1, <4>1
      <4>3. Grown(a, t[j], b)
        BY <3>3
      <4> HIDE DEF a, b, f
      <4> QED
        BY <4>2, <4>3 DEF Grown
    <3>5. Len(b) <= Len(f) /\ \A i \in 1..Len(b) : f[i] = b[i]
      BY <3>2
    <3> HIDE DEF a, b, f
    <3>6. Len(a) <= Len(f) /\ \A i \in 1..Len(a) : f[i] = a[i]
      BY <3>4, <3>5
    <3>7. Good(j - 1)
      BY <3>6 DEF a, f
    <3> QED
      BY <3>7
  <2> QED
    BY <2>1, <2>2
<1>3. k + 1 \in G
  <2>1. n + 1 \in Nat /\ k + 1 \in 1..n + 1
    OBVIOUS
  <2> HIDE DEF G
  <2>2. \A j \in 1..n + 1 : j \in G
    BY <1>2, <2>1, Backwards
  <2> QED
    BY <2>1, <2>2
<1>4. Good((k + 1) - 1) /\ (k + 1) - 1 = k
  BY <1>3
<1>5. Good(k)
  BY <1>4
<1> QED
  BY <1>1, <1>5 DEF Begins

(* Its lines are the rows, and the empty one after the last newline. *)
Listed(n, t, k, r) ==
  /\ Len(r) = n - k + 1 /\ r[n - k + 1] = <<>>
  /\ \A j \in 1..n - k : r[j] = t[k + j]

LEMMA LinesListed ==
  ASSUME NEW C, NEW n \in Nat, NEW o, NEW t, Rows(C, n, o, t), NEW k \in 0..n
  PROVE  Listed(n, t, k, LinesFrom(o[n])[Len(o[k]) + 1])
<1> DEFINE f == o[n]
           N == Len(f)
           from == LinesFrom(f)
           at(j) == Len(o[j]) + 1
           stop(i) == LineStop(f, i)
           piece(i) == SubSeq(f, i, stop(i) - 1)
           Good(j) == Listed(n, t, j, from[at(j)])
           G == {j \in Nat : Good(j - 1)}
           T == Seq(C)
<1>1. f \in Seq(C) /\ N \in Nat /\ N = Len(f)
  <2>1. n \in 0..n
    OBVIOUS
  <2> QED
    BY <2>1, LenProperties DEF Rows
<1>2. \A j \in 0..n : Len(o[j]) \in Nat /\ Len(o[j]) <= N /\ \A i \in 1..Len(o[j]) : f[i] = o[j][i]
  <2> SUFFICES ASSUME NEW j \in 0..n
               PROVE  Len(o[j]) \in Nat /\ Len(o[j]) <= N /\ \A i \in 1..Len(o[j]) : f[i] = o[j][i]
    OBVIOUS
  <2>1. Begins(o[j], o[n])
    BY RowsGrow
  <2> QED
    BY <2>1 DEF Begins
<1>3. /\ from \in [1..N + 1 -> Seq(T)]
      /\ \A i \in 1..N + 1 :
           from[i] = Cat(<<piece(i)>>, IF stop(i) > N THEN <<>> ELSE from[stop(i) + 1])
  BY <1>1, LinesUnfold DEF LinesAfter
<1>4. ASSUME NEW i \in 1..N + 1, NEW e \in i..N + 1,
             \A j \in i..e - 1 : f[j] # "\n", e <= N => f[e] = "\n"
      PROVE  stop(i) = e
  BY <1>1, <1>4, LineEndsAt
<1>5. ASSUME NEW i \in 1..N + 1, NEW e \in i..N + 1
      PROVE  /\ SubSeq(f, i, e - 1) \in T /\ Len(SubSeq(f, i, e - 1)) = e - i
             /\ \A j \in 1..e - i : SubSeq(f, i, e - 1)[j] = f[(i - 1) + j]
  <2> DEFINE a == i - 1
             b == e - 1
  <2>1. a \in 0..Len(f) /\ b \in a..Len(f) /\ a + 1 = i /\ b - a = e - i
    BY <1>1
  <2>2. SubSeq(f, i, e - 1) = SubSeq(f, a + 1, b)
    BY <2>1
  <2> HIDE DEF a, b
  <2>3. /\ SubSeq(f, a + 1, b) \in Seq(C) /\ Len(SubSeq(f, a + 1, b)) = b - a
        /\ \A j \in 1..b - a : SubSeq(f, a + 1, b)[j] = f[a + j]
    BY <1>1, <2>1, SubSeqIs
  <2>4. \A j \in 1..e - i : SubSeq(f, i, e - 1)[j] = f[a + j]
    BY <2>1, <2>2, <2>3
  <2> QED
    BY <2>1, <2>2, <2>3, <2>4 DEF a
<1> HIDE DEF f, N, from, stop, T
<1>6. Good(n)
  <2> DEFINE i == N + 1
             e == N + 1
  <2>1. at(n) = i /\ i \in 1..N + 1 /\ e \in i..N + 1 /\ ~(e <= N) /\ i - 1 = N
    BY <1>1 DEF f, N
  <2>2. stop(i) = e
    <3>1. \A j \in i..e - 1 : f[j] # "\n"
      BY <1>1
    <3> QED
      BY <1>4, <2>1, <3>1
  <2>3. SubSeq(f, i, e - 1) \in T /\ Len(SubSeq(f, i, e - 1)) = 0
    BY <1>1, <1>5, <2>1
  <2> DEFINE x == piece(i)
  <2>4. x \in T /\ Len(x) = 0 /\ x = SubSeq(f, i, stop(i) - 1)
    BY <2>2, <2>3
  <2>5. from[i] = Cat(<<x>>, <<>>)
    <3>1. i \in 1..N + 1 /\ stop(i) > N
      BY <1>1, <2>1, <2>2
    <3> DEFINE rest == IF stop(i) > N THEN <<>> ELSE from[stop(i) + 1]
    <3>2. rest = <<>>
      BY <3>1
    <3>3. from[i] = Cat(<<x>>, rest)
      <4> HIDE DEF i
      <4> QED
        BY <1>3, <3>1
    <3> HIDE DEF x, rest
    <3> QED
      BY <3>2, <3>3
  <2> HIDE DEF x, e, i
  <2>6. x = <<>>
    BY <2>4, EmptySeq DEF T
  <2>7. Cat(<<x>>, <<>>) = <<x>>
    BY DEF Cat
  <2>8. Len(<<x>>) = 1 /\ <<x>>[1] = x
    OBVIOUS
  <2>9. n - n + 1 = 1
    OBVIOUS
  <2>10. \A j \in 1..n - n : FALSE
    OBVIOUS
  <2>11. Len(from[i]) = 1 /\ from[i][1] = <<>>
    BY <2>5, <2>6, <2>7, <2>8
  <2>12. Listed(n, t, n, from[i])
    BY <2>9, <2>10, <2>11 DEF Listed
  <2> QED
    BY <2>1, <2>12
<1>7. ASSUME NEW j \in 1..n, Good(j) PROVE Good(j - 1)
  <2> DEFINE a == o[j - 1]
             b == o[j]
             row == t[j]
             i == Len(a) + 1
             e == Len(a) + Len(row) + 1
  <2>1. j - 1 \in 0..n /\ j \in 0..n
    OBVIOUS
  <2>2. Grown(a, row, b) /\ row \in Seq(Plain(C))
    BY DEF Rows
  <2>3. Len(b) \in Nat /\ Len(b) <= N /\ \A h \in 1..Len(b) : f[h] = b[h]
    BY <1>2, <2>1
  <2>4. at(j - 1) = i /\ at(j) = Len(b) + 1
    OBVIOUS
  <2> DEFINE rest == from[Len(b) + 1]
  <2>5. Listed(n, t, j, rest)
    BY <1>7, <2>4
  <2> HIDE DEF a, b, row
  <2>6. Len(a) \in Nat /\ Len(row) \in Nat /\ Len(b) = Len(a) + Len(row) + 1
    BY <2>2 DEF Grown
  <2>7. \A h \in 1..Len(row) : f[Len(a) + h] = row[h]
    <3> SUFFICES ASSUME NEW h \in 1..Len(row) PROVE f[Len(a) + h] = row[h]
      OBVIOUS
    <3>1. Len(a) + h \in 1..Len(b)
      BY <2>6
    <3>2. b[Len(a) + h] = row[h]
      BY <2>2 DEF Grown
    <3> QED
      BY <2>3, <3>1, <3>2
  <2>8. f[e] = "\n"
    <3>1. b[e] = "\n" /\ e \in 1..Len(b)
      BY <2>2, <2>6 DEF Grown
    <3> QED
      BY <2>3, <3>1
  <2>9. i \in 1..N + 1 /\ e \in i..N + 1 /\ e <= N /\ e = Len(b) /\ e - i = Len(row) /\ i - 1 = Len(a)
    BY <1>1, <2>3, <2>6
  <2>10. \A h \in i..e - 1 : f[h] # "\n"
    <3> SUFFICES ASSUME NEW h \in i..e - 1 PROVE f[h] # "\n"
      OBVIOUS
    <3> DEFINE g == h - Len(a)
    <3>1. g \in 1..Len(row) /\ Len(a) + g = h
      BY <2>6
    <3> HIDE DEF g
    <3>2. row[g] \in Plain(C)
      BY <2>2, <3>1, ElementOfSeq
    <3>3. f[h] = row[g]
      BY <2>7, <3>1
    <3> QED
      BY <3>2, <3>3 DEF Plain
  <2> HIDE DEF e, i
  <2>11. stop(i) = e
    BY <1>4, <2>8, <2>9, <2>10
  <2>12. SubSeq(f, i, e - 1) = row
    <3> DEFINE u == SubSeq(f, i, e - 1)
    <3>1. u \in T /\ Len(u) = e - i /\ \A h \in 1..e - i : u[h] = f[(i - 1) + h]
      BY <1>5, <2>9
    <3>2. row \in T
      <4>1. Plain(C) \subseteq C
        BY DEF Plain
      <4>2. \A h \in 1..Len(row) : row[h] \in C
        BY <2>2, <4>1, ElementOfSeq
      <4>3. row = [h \in 1..Len(row) |-> row[h]]
        BY <2>2, LenProperties
      <4>4. [h \in 1..Len(row) |-> row[h]] \in Seq(C)
        BY <2>6, <4>2, SeqDef
      <4> QED
        BY <4>3, <4>4 DEF T
    <3> HIDE DEF u
    <3>3. \A h \in 1..Len(u) : u[h] = row[h]
      BY <2>7, <2>9, <3>1
    <3>4. Len(u) = Len(row)
      BY <2>9, <3>1
    <3>5. u = row
      BY <3>1, <3>2, <3>3, <3>4, SameElements DEF T
    <3> QED
      BY <3>5 DEF u
  <2>13. from[i] = Cat(<<row>>, rest)
    <3>1. from[i] = Cat(<<piece(i)>>, IF stop(i) > N THEN <<>> ELSE from[stop(i) + 1])
      BY <1>3, <2>9
    <3>2. piece(i) = row /\ ~(stop(i) > N) /\ stop(i) + 1 = Len(b) + 1
      BY <1>1, <2>9, <2>11, <2>12
    <3> QED
      BY <3>1, <3>2
  <2>14. rest \in Seq(T) /\ row \in T
    <3>1. Len(b) + 1 \in 1..N + 1
      BY <1>1, <2>3
    <3>2. SubSeq(f, i, e - 1) \in T
      BY <1>5, <2>9
    <3> QED
      BY <1>3, <2>12, <3>1, <3>2
  <2> DEFINE all == Cat(<<row>>, rest)
  <2> HIDE DEF rest
  <2>15. Len(all) = Len(rest) + 1 /\ all[1] = row /\ \A h \in 1..Len(rest) : all[h + 1] = rest[h]
    BY <2>14, ConsIs
  <2> HIDE DEF all
  <2>16. Listed(n, t, j - 1, all)
    <3>1. Len(rest) = n - j + 1 /\ rest[n - j + 1] = <<>> /\ \A h \in 1..n - j : rest[h] = t[j + h]
      BY <2>5 DEF Listed
    <3>2. n - (j - 1) = n - j + 1 /\ n - (j - 1) + 1 = (n - j + 1) + 1 /\ n - j + 1 \in 1..Len(rest)
      BY <3>1
    <3>3. Len(all) = n - (j - 1) + 1
      BY <2>15, <3>1, <3>2
    <3>4. all[n - (j - 1) + 1] = <<>>
      BY <2>15, <3>1, <3>2
    <3>5. ASSUME NEW h \in 1..n - (j - 1) PROVE all[h] = t[(j - 1) + h]
      <4>1. CASE h = 1
        <5>1. (j - 1) + h = j
          BY <4>1
        <5> QED
          BY <2>15, <4>1, <5>1 DEF row
      <4>2. CASE h # 1
        <5> DEFINE g == h - 1
        <5>1. g \in 1..n - j /\ g + 1 = h /\ j + g = (j - 1) + h /\ g \in 1..Len(rest)
          BY <3>1, <4>2
        <5> HIDE DEF g
        <5>2. all[g + 1] = rest[g] /\ rest[g] = t[j + g]
          BY <2>15, <3>1, <5>1
        <5> QED
          BY <5>1, <5>2
      <4> QED
        BY <4>1, <4>2
    <3> QED
      BY <3>3, <3>4, <3>5 DEF Listed
  <2> QED
    BY <2>4, <2>13, <2>16 DEF all
<1> HIDE DEF Good
<1>8. ASSUME NEW j \in 1..n + 1, \A h \in j + 1..n + 1 : h \in G PROVE j \in G
  <2>1. CASE j = n + 1
    <3>1. j - 1 = n
      BY <2>1
    <3> QED
      BY <1>6, <3>1
  <2>2. CASE j # n + 1
    <3>1. j \in 1..n /\ j + 1 \in j + 1..n + 1 /\ (j + 1) - 1 = j
      BY <2>2
    <3>2. Good((j + 1) - 1)
      BY <1>8, <3>1
    <3>3. Good(j)
      BY <3>1, <3>2
    <3> QED
      BY <1>7, <3>1, <3>3
  <2> QED
    BY <2>1, <2>2
<1>9. k + 1 \in G
  <2>1. n + 1 \in Nat /\ k + 1 \in 1..n + 1
    OBVIOUS
  <2> HIDE DEF G
  <2>2. \A j \in 1..n + 1 : j \in G
    BY <1>8, <2>1, Backwards
  <2> QED
    BY <2>1, <2>2
<1>10. Good((k + 1) - 1) /\ (k + 1) - 1 = k
  BY <1>9
<1>11. Good(k)
  BY <1>10
<1> QED
  BY <1>11 DEF Good, from, f

LEMMA LinesOfRows ==
  ASSUME NEW C, NEW n \in Nat, NEW o, NEW t, Rows(C, n, o, t)
  PROVE  Listed(n, t, 0, LinesOf(o[n]))
<1>1. 0 \in 0..n /\ n \in 0..n
  OBVIOUS
<1>2. o[0] = <<>> /\ o[n] \in Seq(C)
  BY <1>1 DEF Rows
<1>3. Len(o[0]) + 1 = 1
  BY <1>2
<1>4. LinesOf(o[n]) = LinesFrom(o[n])[1]
  BY <1>2, LinesUnfold
<1>5. Listed(n, t, 0, LinesFrom(o[n])[Len(o[0]) + 1])
  BY <1>1, LinesListed
<1> QED
  BY <1>3, <1>4, <1>5

(* The row that a line becomes at depth d: its text, indented. *)
RowOf(d, line) == IF Trimmed(line) = <<>> THEN <<>> ELSE Cat(Indent(d, line), Trimmed(line))

LEMMA EmitWhole ==
  ASSUME NEW C, NEW out \in Seq(C), NEW text \in Seq(C), NEW cap \in Nat,
         Len(out) + Len(text) + 2 <= cap
  PROVE  Emit(out, text, cap) = Cat(out, text)
<1> DEFINE all == Cat(out, text)
<1>1. Len(all) = Len(out) + Len(text) /\ Len(out) \in Nat /\ Len(text) \in Nat
  BY CatLength, LenProperties
<1>2. Emit(out, text, cap) = IF Len(all) + 2 > cap THEN SubSeq(all, 1, Min({Len(all), Max({Len(out), cap})})) ELSE all
  BY DEF Emit, Cat
<1> HIDE DEF all
<1>3. ~(Len(all) + 2 > cap)
  BY <1>1
<1>4. Emit(out, text, cap) = all
  BY <1>2, <1>3
<1> QED
  BY <1>4 DEF all

(* A pass writes its row and a newline, ... *)
LEMMA FormatsRow ==
  ASSUME NEW C, Space \in C, "\n" \in C, NEW d \in Nat, NEW o \in Seq(C), NEW line \in Seq(Plain(C)),
         NEW last, NEW cap \in Nat, ~last \/ Trimmed(line) # <<>>,
         Trimmed(line) # <<>> => Emit(o, RowOf(d, line), cap) = Cat(o, RowOf(d, line))
  PROVE  /\ RowOf(d, line) \in Seq(Plain(C)) /\ RowOf(d, line) \in Seq(C)
         /\ FormatLine([depth |-> d, out |-> o], line, last, cap) =
              [depth |-> DepthAfter(d, line), out |-> Cat(Cat(o, RowOf(d, line)), <<"\n">>)]
<1> DEFINE acc == [depth |-> d, out |-> o]
           content == Trimmed(line)
           row == RowOf(d, line)
           shown == IF content = <<>> THEN o ELSE Emit(o, row, cap)
           newline == ~last \/ (content # <<>> /\ (shown = <<>> \/ Last(shown) # "\n"))
<1>1. content \in Seq(Plain(C)) /\ Space \in Plain(C)
  BY TrimmedIs, CharactersDiffer DEF Plain
<1>2. row \in Seq(Plain(C))
  <2>1. Indent(d, line) \in Seq(Plain(C))
    BY <1>1, IndentIs
  <2>2. Cat(Indent(d, line), content) \in Seq(Plain(C))
    BY <1>1, <2>1, CatIsSeq
  <2> QED
    BY <2>2, EmptySeq DEF RowOf
<1>3. \A w \in Seq(Plain(C)) : w \in Seq(C) /\ Len(w) \in Nat /\ \A i \in 1..Len(w) : w[i] # "\n"
  <2> SUFFICES ASSUME NEW w \in Seq(Plain(C))
               PROVE  w \in Seq(C) /\ Len(w) \in Nat /\ \A i \in 1..Len(w) : w[i] # "\n"
    OBVIOUS
  <2>1. Len(w) \in Nat /\ w = [i \in 1..Len(w) |-> w[i]] /\ \A i \in 1..Len(w) : w[i] \in Plain(C)
    BY LenProperties, ElementOfSeq
  <2>2. \A i \in 1..Len(w) : w[i] \in C /\ w[i] # "\n"
    BY <2>1 DEF Plain
  <2>3. [i \in 1..Len(w) |-> w[i]] \in Seq(C)
    BY <2>1, <2>2, SeqDef
  <2> QED
    BY <2>1, <2>2, <2>3
<1>4. acc.depth = d /\ acc.out = o
  OBVIOUS
<1>5. FormatLine(acc, line, last, cap) =
        [depth |-> DepthAfter(d, line), out |-> IF newline THEN Append(shown, "\n") ELSE shown]
  <2>1. content # <<>> => row = Cat(Indent(d, line), content)
    BY DEF RowOf
  <2> QED
    BY <1>4, <2>1 DEF FormatLine, Cat
<1>6. shown = Cat(o, row)
  <2>1. CASE content = <<>>
    <3>1. row = <<>>
      BY <2>1 DEF RowOf
    <3> HIDE DEF row
    <3>2. Cat(o, row) = o
      BY <3>1, CatNothing
    <3> QED
      BY <2>1, <3>2
  <2>2. CASE content # <<>>
    BY <2>2
  <2> QED
    BY <2>1, <2>2
<1>7. newline
  <2>1. CASE content = <<>>
    BY <2>1
  <2>2. CASE content # <<>>
    <3> DEFINE n == Len(content)
               all == Cat(o, row)
    <3>1. n \in Nat /\ n # 0
      BY <1>1, <2>2, LenProperties, EmptySeq
    <3>2. content[n] # "\n" /\ n \in 1..n
      BY <1>1, <1>3, <3>1
    <3> HIDE DEF content
    <3>3. Len(row) \in Nat /\ Len(row) >= 1 /\ row[Len(row)] # "\n"
      <4> DEFINE ind == Indent(d, line)
      <4>1. ind \in Seq(Plain(C)) /\ row = Cat(ind, content)
        BY <1>1, <2>2, IndentIs DEF RowOf, content
      <4> HIDE DEF ind, row
      <4>2. Len(row) = Len(ind) + n /\ Len(ind) \in Nat
        BY <1>1, <4>1, CatLength, LenProperties
      <4>3. Cat(ind, content)[Len(ind) + n] = content[n]
        BY <1>1, <3>2, <4>1, CatSecond
      <4> QED
        BY <3>1, <3>2, <4>1, <4>2, <4>3
    <3>4. row \in Seq(C)
      BY <1>2, <1>3
    <3> HIDE DEF row
    <3>5. Len(all) = Len(o) + Len(row) /\ Len(o) \in Nat
      BY <3>4, CatLength, LenProperties
    <3>6. Len(row) \in 1..Len(row)
      BY <3>3
    <3>7. all[Len(o) + Len(row)] = row[Len(row)]
      BY <3>4, <3>6, CatSecond
    <3>8. Last(all) # "\n"
      BY <3>3, <3>5, <3>7 DEF Last
    <3> QED
      BY <1>6, <2>2, <3>8 DEF content, row
  <2> QED
    BY <2>1, <2>2
<1>8. Append(shown, "\n") = Cat(Cat(o, row), <<"\n">>)
  <2>1. row \in Seq(C)
    BY <1>2, <1>3
  <2> HIDE DEF row, shown
  <2>2. Cat(o, row) \in Seq(C)
    BY <2>1, CatIsSeq
  <2> DEFINE all == Cat(o, row)
  <2> HIDE DEF all
  <2>3. Append(all, "\n") = Cat(all, <<"\n">>)
    BY <2>2, AppendIsConcat DEF all, Cat
  <2> QED
    BY <1>6, <2>3 DEF all
<1> HIDE DEF shown, newline, acc
<1>9. FormatLine(acc, line, last, cap) = [depth |-> DepthAfter(d, line), out |-> Append(shown, "\n")]
  BY <1>5, <1>7
<1>10. FormatLine(acc, line, last, cap) = [depth |-> DepthAfter(d, line), out |-> Cat(Cat(o, row), <<"\n">>)]
  BY <1>8, <1>9
<1>11. row \in Seq(C)
  BY <1>2, <1>3
<1> QED
  BY <1>2, <1>10, <1>11 DEF acc

(* Formatting a row at its depth makes the same row of it, and leads to the same depth. *)
Again(C, d, line, r) ==
  /\ r \in Seq(Plain(C)) /\ Trimmed(r) = Trimmed(line) /\ RowOf(d, r) = r
  /\ DepthAfter(d, r) = DepthAfter(d, line)

LEMMA NothingTrimmed ==
  /\ Trimmed(<<>>) = <<>>
  /\ \A d \in Nat : DepthAfter(d, <<>>) = d
<1> DEFINE none == <<>>
<1>1. Len(none) = 0 /\ 0 \in Nat
  BY EmptySeq
<1> HIDE DEF none
<1>2. Trimmed(none) = <<>>
  <2>1. \/ Trimmed(none) = <<>>
        \/ \E m, n : Shape(none, m, n)
    BY <1>1, HasShape
  <2>2. ASSUME NEW m, NEW n PROVE ~Shape(none, m, n)
    BY <1>1 DEF Shape
  <2> QED
    BY <2>1, <2>2
<1>3. ASSUME NEW d \in Nat PROVE DepthAfter(d, none) = d
  <2>1. \A i \in 1..0 : none[i] \in Margin
    OBVIOUS
  <2> QED
    BY <1>1, <2>1, BlankDepth
<1> QED
  BY <1>2, <1>3 DEF none

LEMMA RowAgain ==
  ASSUME NEW C, Space \in C, NEW d \in Nat, NEW line \in Seq(Plain(C))
  PROVE  Again(C, d, line, RowOf(d, line))
<1> DEFINE P == Plain(C)
           t == Trimmed(line)
           k == Len(t)
           r == RowOf(d, line)
<1>1. Space \in P /\ Len(line) \in Nat /\ t \in Seq(P)
  BY CharactersDiffer, LenProperties, TrimmedIs DEF Plain
<1>0. ASSUME NEW m, NEW n, Shape(line, m, n)
      PROVE  /\ k = n - m /\ m \in Nat /\ n \in Nat /\ m < n
             /\ \A i \in 1..n - m : t[i] = line[m + i]
  <2> HIDE DEF P, t, k, r
  <2>1. line \in Seq(P)
    BY DEF P
  <2>2. /\ Len(Trimmed(line)) = n - m /\ m \in Nat /\ n \in Nat /\ m < n
        /\ \A i \in 1..n - m : Trimmed(line)[i] = line[m + i]
    BY <1>0, <2>1, ShapeTells
  <2> QED
    BY <2>2 DEF t, k
<1>2. CASE t = <<>>
  <2>1. \A i \in 1..Len(line) : line[i] \in Margin
    <3>1. ASSUME NEW m, NEW n, Shape(line, m, n) PROVE FALSE
      <4>1. Len(t) = n - m /\ m \in Nat /\ n \in Nat /\ m < n
        BY <1>0, <3>1
      <4>2. Len(t) = 0
        BY <1>2
      <4> QED
        BY <4>1, <4>2
    <3>2. \/ \A i \in 1..Len(line) : line[i] \in Margin
          \/ \E m, n : Shape(line, m, n)
      BY <1>1, HasShape
    <3> QED
      BY <3>1, <3>2
  <2>2. DepthAfter(d, line) = d
    BY <1>1, <2>1, BlankDepth
  <2>3. r = <<>>
    BY <1>2 DEF RowOf
  <2>4. Trimmed(<<>>) = <<>> /\ DepthAfter(d, <<>>) = d
    BY NothingTrimmed
  <2>5. RowOf(d, <<>>) = <<>>
    BY <2>4 DEF RowOf
  <2>6. <<>> \in Seq(P)
    BY EmptySeq
  <2> HIDE DEF r, t
  <2>7. Again(C, d, line, r)
    BY <1>2, <2>2, <2>3, <2>4, <2>5, <2>6 DEF Again, t
  <2> QED
    BY <2>7 DEF r
<1>3. CASE t # <<>>
  <2>1. PICK m, n : Shape(line, m, n)
    BY <1>1, <1>3, HasShape
  <2>2. /\ k = n - m /\ m \in Nat /\ n \in Nat /\ m < n
        /\ \A i \in 1..n - m : t[i] = line[m + i]
    BY <1>0, <2>1
  <2> DEFINE ind == Indent(d, line)
             w == Len(ind)
  <2>3. ind \in Seq(P) /\ \A i \in 1..w : ind[i] = Space
    <3>1. ind \in Seq(P)
      BY <1>1, IndentIs
    <3>2. \A i \in DOMAIN ind : ind[i] = Space
      BY DEF Indent
    <3>3. DOMAIN ind = 1..w
      <4> HIDE DEF ind
      <4> QED
        BY <3>1, LenProperties
    <3> QED
      BY <3>1, <3>2, <3>3
  <2>4. r = Cat(ind, t)
    BY <1>3 DEF RowOf
  <2> HIDE DEF ind, t, r, P
  <2>5. r \in Seq(P) /\ Len(r) = w + k /\ w \in Nat /\ k \in Nat /\ k >= 1
    <3>1. r \in Seq(P) /\ Len(r) = w + k /\ w \in Nat
      BY <1>1, <2>3, <2>4, CatIsSeq, CatLength, LenProperties
    <3> QED
      BY <2>2, <3>1
  <2>6. (\A i \in 1..w : r[i] = ind[i]) /\ \A i \in 1..k : r[w + i] = t[i]
    BY <1>1, <2>3, <2>4, CatElements
  <2> DEFINE e == w + k
  <2>7. Shape(r, w, e)
    <3>1. w \in 0..Len(r) - 1 /\ e \in w + 1..Len(r)
      BY <2>5
    <3>2. \A i \in 1..w : r[i] \in Blanks
      BY <2>3, <2>6 DEF Blanks
    <3>3. r[w + 1] \notin Blanks
      <4>1. 1 \in 1..k /\ 1 \in 1..n - m
        BY <2>2, <2>5
      <4>2. r[w + 1] = line[m + 1]
        BY <2>2, <2>6, <4>1
      <4> QED
        BY <2>1, <4>2 DEF Shape
    <3>4. r[e] \notin Margin
      <4>1. k \in 1..k /\ k \in 1..n - m /\ m + k = n
        BY <2>2, <2>5
      <4>2. r[w + k] = line[n]
        BY <2>2, <2>6, <4>1
      <4> QED
        BY <2>1, <4>2 DEF Shape
    <3>5. \A i \in e + 1..Len(r) : FALSE
      BY <2>5
    <3> QED
      BY <3>1, <3>2, <3>3, <3>4, <3>5 DEF Shape
  <2> HIDE DEF e
  <2> DEFINE u == Trimmed(r)
  <2>8. u = t
    <3>1. u \in Seq(P) /\ Len(u) = e - w /\ \A i \in 1..e - w : u[i] = r[w + i]
      <4> HIDE DEF w
      <4>1. /\ Trimmed(r) \in Seq(P) /\ Len(Trimmed(r)) = e - w
            /\ \A i \in 1..e - w : Trimmed(r)[i] = r[w + i]
        <5>1. r \in Seq(P)
          BY <2>5
        <5> HIDE DEF u
        <5> QED
          BY <2>7, <5>1, ShapeTells
      <4> QED
        BY <4>1
    <3>2. Len(u) = k /\ e - w = k
      BY <2>5, <3>1 DEF e
    <3> HIDE DEF u
    <3>3. \A i \in 1..Len(u) : u[i] = t[i]
      BY <2>6, <3>1, <3>2
    <3> QED
      BY <1>1, <3>1, <3>2, <3>3, SameElements
  <2>9. LeadingClosers(r) = LeadingClosers(line)
    <3>1. LeadingClosers(r) = EndOf({j \in 1..Len(t) : t[j] \notin Closings}, Len(t)) - 1
      BY <2>5, <2>7, <2>8, ShapeLeading
    <3>2. LeadingClosers(line) = EndOf({j \in 1..Len(t) : t[j] \notin Closings}, Len(t)) - 1
      BY <2>1, ShapeLeading DEF t
    <3> QED
      BY <3>1, <3>2
  <2>10. Indent(d, r) = ind
    BY <2>9 DEF Indent, ind
  <2>11. RowOf(d, r) = r
    BY <1>3, <2>4, <2>8, <2>10 DEF RowOf
  <2>12. DepthAfter(d, r) = DepthAfter(d, line)
    <3>1. DepthAfter(d, r) = DepthAfter(d, u)
      BY <2>5, <2>7, ShapeDepth
    <3>2. DepthAfter(d, line) = DepthAfter(d, t)
      BY <2>1, ShapeDepth DEF t
    <3> QED
      BY <2>8, <3>1, <3>2
  <2>13. Again(C, d, line, r)
    BY <2>5, <2>8, <2>11, <2>12 DEF Again, t, P
  <2> QED
    BY <2>13 DEF r
<1> QED
  BY <1>2, <1>3

(* No line of s is cut at the end of the formatter's buffer. *)
RowAt(s, k) == RowOf(Passes(s)[k - 1].depth, LinesOf(s)[k])
Uncut(s) ==
  \A k \in 1..Len(LinesOf(s)) :
    Trimmed(LinesOf(s)[k]) # <<>> =>
      Emit(Passes(s)[k - 1].out, RowAt(s, k), 2 * Len(s) + OutSlack) = Cat(Passes(s)[k - 1].out, RowAt(s, k))

(* The rows of a text: one for each line, but none for a last line that is blank. *)
RowCount(s) == IF Trimmed(LinesOf(s)[Len(LinesOf(s))]) = <<>> THEN Len(LinesOf(s)) - 1 ELSE Len(LinesOf(s))
Outs(s) == [k \in 0..RowCount(s) |-> Passes(s)[k].out]
RowsOf(s) == [k \in 1..RowCount(s) |-> RowAt(s, k)]

(* What formatting writes, when nothing is cut. *)
LEMMA FormatWrites ==
  ASSUME NEW C, Space \in C, "\n" \in C, NEW s \in Seq(C), Uncut(s)
  PROVE  /\ RowCount(s) \in Nat /\ RowCount(s) <= Len(LinesOf(s)) /\ Len(LinesOf(s)) \in Nat
         /\ Rows(C, RowCount(s), Outs(s), RowsOf(s))
         /\ Format(s) = Outs(s)[RowCount(s)] /\ Format(s) \in Seq(C)
         /\ \A k \in 1..RowCount(s) :
              /\ LinesOf(s)[k] \in Seq(Plain(C))
              /\ Passes(s)[k - 1].depth \in Nat
              /\ Passes(s)[k].depth = DepthAfter(Passes(s)[k - 1].depth, LinesOf(s)[k])
              /\ Passes(s)[k].out = Cat(Cat(Passes(s)[k - 1].out, RowAt(s, k)), <<"\n">>)
         /\ Passes(s)[0].depth = 0 /\ Passes(s)[0].out = <<>>
<1> DEFINE lines == LinesOf(s)
           K == Len(lines)
           P == Passes(s)
           n == RowCount(s)
           cap == 2 * Len(s) + OutSlack
           blank(k) == Trimmed(lines[k]) = <<>>
<1>1. K \in Nat \ {0} /\ \A k \in 1..K : lines[k] \in Seq(Plain(C))
  <2>1. lines \in Seq(Seq(Plain(C))) /\ K \in Nat \ {0}
    BY LinesPlain
  <2> QED
    BY <2>1, ElementOfSeq
<1>2. cap \in Nat
  BY FmtAssumption, LenProperties
<1>3. /\ P[0] = [depth |-> 0, out |-> <<>>]
      /\ \A k \in 0..K : P[k] \in [depth : Nat, out : Seq(C)]
      /\ \A k \in 1..K : P[k] = FormatLine(P[k - 1], lines[k], k = K, cap)
  BY PassesAre
<1>4. n = IF blank(K) THEN K - 1 ELSE K
  BY DEF RowCount
<1>5. Format(s) = P[K].out
  BY DEF Format
<1>6. \A k \in 1..K : ~blank(k) => Emit(P[k - 1].out, RowOf(P[k - 1].depth, lines[k]), cap) =
                                     Cat(P[k - 1].out, RowOf(P[k - 1].depth, lines[k]))
  BY DEF Uncut, RowAt
<1> DEFINE row(k) == RowAt(s, k)
<1>7. \A k : row(k) = RowOf(P[k - 1].depth, lines[k])
  BY DEF RowAt
<1>o. Outs(s) = [k \in 0..n |-> P[k].out] /\ RowsOf(s) = [k \in 1..n |-> row(k)]
  BY DEF Outs, RowsOf
<1> HIDE DEF lines, K, P, n, cap, row, blank
<1>8. n \in Nat /\ n <= K /\ n \in 0..K
  BY <1>1, <1>4
<1>9. ASSUME NEW k \in 1..n
      PROVE  /\ lines[k] \in Seq(Plain(C)) /\ P[k - 1].depth \in Nat /\ P[k - 1].out \in Seq(C)
             /\ row(k) \in Seq(Plain(C)) /\ row(k) \in Seq(C)
             /\ P[k].depth = DepthAfter(P[k - 1].depth, lines[k])
             /\ P[k].out = Cat(Cat(P[k - 1].out, row(k)), <<"\n">>)
  <2>1. k \in 1..K /\ k - 1 \in 0..K
    BY <1>1, <1>8
  <2> DEFINE d == P[k - 1].depth
             o == P[k - 1].out
             line == lines[k]
             last == k = K
  <2>2. P[k - 1] \in [depth : Nat, out : Seq(C)]
    BY <1>3, <2>1
  <2>3. d \in Nat /\ o \in Seq(C) /\ P[k - 1] = [depth |-> d, out |-> o]
    BY <2>2
  <2>4. line \in Seq(Plain(C)) /\ P[k] = FormatLine(P[k - 1], line, last, cap)
    BY <1>1, <1>3, <2>1
  <2>5. ~last \/ Trimmed(line) # <<>>
    BY <1>4, <1>8, <1>1 DEF blank
  <2>6. Trimmed(line) # <<>> => Emit(o, RowOf(d, line), cap) = Cat(o, RowOf(d, line))
    BY <1>6, <2>1 DEF blank
  <2>7. row(k) = RowOf(d, line)
    BY <1>7
  <2> HIDE DEF d, o, line, last
  <2>8. /\ RowOf(d, line) \in Seq(Plain(C)) /\ RowOf(d, line) \in Seq(C)
        /\ FormatLine([depth |-> d, out |-> o], line, last, cap) =
             [depth |-> DepthAfter(d, line), out |-> Cat(Cat(o, RowOf(d, line)), <<"\n">>)]
    BY <1>2, <2>3, <2>4, <2>5, <2>6, FormatsRow
  <2>9. P[k] = [depth |-> DepthAfter(d, line), out |-> Cat(Cat(o, RowOf(d, line)), <<"\n">>)]
    BY <2>3, <2>4, <2>8
  <2>10. P[k].depth = DepthAfter(d, line) /\ P[k].out = Cat(Cat(o, RowOf(d, line)), <<"\n">>)
    BY <2>9
  <2> QED
    BY <2>3, <2>4, <2>7, <2>8, <2>10 DEF d, o, line
<1>10. Rows(C, n, Outs(s), RowsOf(s))
  <2>1. \A k \in 0..n : P[k].out \in Seq(C) /\ Outs(s)[k] = P[k].out
    <3> SUFFICES ASSUME NEW k \in 0..n PROVE P[k].out \in Seq(C) /\ Outs(s)[k] = P[k].out
      OBVIOUS
    <3>1. k \in 0..K
      BY <1>1, <1>8
    <3> QED
      BY <1>3, <1>o, <3>1
  <2>2. \A k \in 1..n : row(k) \in Seq(Plain(C)) /\ RowsOf(s)[k] = row(k)
    BY <1>9, <1>o
  <2>3. Outs(s) \in [0..n -> Seq(C)] /\ RowsOf(s) \in [1..n -> Seq(Plain(C))]
    BY <1>o, <2>1, <2>2
  <2>4. Outs(s)[0] = <<>>
    <3>1. 0 \in 0..n /\ P[0].out = <<>>
      BY <1>3, <1>8
    <3> QED
      BY <2>1, <3>1
  <2>5. ASSUME NEW k \in 1..n PROVE Grown(Outs(s)[k - 1], RowsOf(s)[k], Outs(s)[k])
    <3> DEFINE o == P[k - 1].out
               t == row(k)
    <3>1. o \in Seq(C) /\ t \in Seq(C) /\ P[k].out = Cat(Cat(o, t), <<"\n">>)
      BY <1>9
    <3>2. k - 1 \in 0..n /\ k \in 0..n
      BY <1>8
    <3>3. Outs(s)[k - 1] = o /\ RowsOf(s)[k] = t /\ Outs(s)[k] = P[k].out
      BY <2>1, <2>2, <3>2
    <3> HIDE DEF o, t
    <3>4. Grown(o, t, Cat(Cat(o, t), <<"\n">>))
      BY <3>1, RowGrows
    <3> QED
      BY <3>1, <3>3, <3>4
  <2> QED
    BY <2>3, <2>4, <2>5 DEF Rows
<1>11. P[K].out = P[n].out
  <2>1. CASE blank(K)
    <3> DEFINE d == P[K - 1].depth
               o == P[K - 1].out
               line == lines[K]
    <3>1. K \in 1..K /\ K - 1 \in 0..K /\ n = K - 1
      BY <1>1, <1>4, <2>1
    <3>2. P[K - 1] \in [depth : Nat, out : Seq(C)]
      BY <1>3, <3>1
    <3>3. P[K - 1] = [depth |-> d, out |-> o]
      BY <3>2
    <3>4. P[K] = FormatLine(P[K - 1], line, K = K, cap)
      BY <1>3, <3>1
    <3> DEFINE last == K = K
    <3>5. P[K] = FormatLine(P[K - 1], line, last, cap) /\ last
      BY <3>4
    <3>6. Trimmed(line) = <<>>
      BY <2>1 DEF blank
    <3> HIDE DEF d, o, line, last
    <3>7. FormatLine([depth |-> d, out |-> o], line, last, cap) = [depth |-> DepthAfter(d, line), out |-> o]
      <4>1. last /\ Trimmed(line) = <<>>
        BY <3>5, <3>6
      <4> QED
        BY <4>1 DEF FormatLine
    <3> DEFINE e == DepthAfter(d, line)
    <3> HIDE DEF e
    <3>9. P[K] = [depth |-> e, out |-> o]
      BY <3>3, <3>5, <3>7 DEF e
    <3>8. P[K].out = o
      BY <3>9
    <3> QED
      BY <3>1, <3>8 DEF o
  <2>2. CASE ~blank(K)
    BY <1>4, <2>2
  <2> QED
    BY <2>1, <2>2
<1>12. Outs(s)[n] = P[n].out /\ P[n].out \in Seq(C)
  <2>1. n \in 0..n /\ n \in 0..K
    BY <1>8
  <2> QED
    BY <1>3, <1>o, <2>1
<1>13. P[0].depth = 0 /\ P[0].out = <<>>
  BY <1>3
<1>14. Format(s) = Outs(s)[n] /\ Format(s) \in Seq(C)
  BY <1>5, <1>11, <1>12
<1>15. \A k \in 1..n :
         /\ lines[k] \in Seq(Plain(C)) /\ P[k - 1].depth \in Nat
         /\ P[k].depth = DepthAfter(P[k - 1].depth, lines[k])
         /\ P[k].out = Cat(Cat(P[k - 1].out, row(k)), <<"\n">>)
  BY <1>9
<1> QED
  BY <1>1, <1>8, <1>10, <1>13, <1>14, <1>15 DEF lines, K, P, n, row

(* Formatting once more, line by line. *)
LEMMA FormatAgain ==
  ASSUME NEW C, Space \in C, "\n" \in C, NEW s \in Seq(C), Uncut(s), NEW f, f = Format(s)
  PROVE  Format(f) = f /\ Uncut(f)
<1> DEFINE n == RowCount(s)
           o == Outs(s)
           t == RowsOf(s)
           P == Passes(s)
           Q == Passes(f)
           M == LinesOf(f)
           cap == 2 * Len(f) + OutSlack
           nl == <<"\n">>
<1>1. /\ n \in Nat /\ Rows(C, n, o, t) /\ f = o[n] /\ f \in Seq(C)
      /\ \A k \in 1..n :
              /\ LinesOf(s)[k] \in Seq(Plain(C))
              /\ P[k - 1].depth \in Nat
              /\ P[k].depth = DepthAfter(P[k - 1].depth, LinesOf(s)[k])
              /\ P[k].out = Cat(Cat(P[k - 1].out, RowAt(s, k)), nl)
      /\ P[0].depth = 0 /\ P[0].out = <<>>
  BY FormatWrites
<1>2. (\A k \in 0..n : o[k] = P[k].out) /\ \A k \in 1..n : t[k] = RowOf(P[k - 1].depth, LinesOf(s)[k])
  BY DEF Outs, RowsOf, RowAt
<1>3. (\A k \in 1..n : RowAt(s, k) = t[k])
  BY <1>2 DEF RowAt
<1>4. Len(M) = n + 1 /\ M[n + 1] = <<>> /\ \A k \in 1..n : M[k] = t[k]
  <2>1. Listed(n, t, 0, LinesOf(o[n]))
    <3> HIDE DEF n, o, t
    <3> QED
      BY <1>1, LinesOfRows
  <2> HIDE DEF n, o, t
  <2>2. Len(M) = n - 0 + 1 /\ M[n - 0 + 1] = <<>> /\ \A k \in 1..n - 0 : M[k] = t[0 + k]
    BY <1>1, <2>1 DEF Listed
  <2>3. n - 0 + 1 = n + 1 /\ n - 0 = n /\ \A k \in 1..n : 0 + k = k
    BY <1>1
  <2> QED
    BY <2>2, <2>3
<1>5. /\ Q[0] = [depth |-> 0, out |-> <<>>]
      /\ \A k \in 0..Len(M) : Q[k] \in [depth : Nat, out : Seq(C)]
      /\ \A k \in 1..Len(M) : Q[k] = FormatLine(Q[k - 1], M[k], k = Len(M), cap)
  BY <1>1, PassesAre
<1>6. cap \in Nat /\ Len(f) \in Nat /\ cap >= Len(f) + Len(f)
  BY <1>1, FmtAssumption, LenProperties
<1>7. \A k \in 1..n : RowOf(Q[k - 1].depth, M[k]) = RowAt(f, k)
  BY DEF RowAt
<1>8. Format(f) = Q[Len(M)].out
  BY DEF Format
<1>f. Uncut(f) <=> \A k \in 1..Len(M) : Trimmed(M[k]) # <<>> =>
                     Emit(Q[k - 1].out, RowOf(Q[k - 1].depth, M[k]), cap) =
                       Cat(Q[k - 1].out, RowOf(Q[k - 1].depth, M[k]))
  BY DEF Uncut, RowAt
<1> HIDE DEF n, o, t, P, Q, M, cap
<1>9. ASSUME NEW k \in 1..n, Q[k - 1].depth = P[k - 1].depth, Q[k - 1].out = o[k - 1]
      PROVE  /\ Q[k].depth = P[k].depth /\ Q[k].out = o[k]
             /\ Emit(Q[k - 1].out, RowOf(Q[k - 1].depth, M[k]), cap) =
                  Cat(Q[k - 1].out, RowOf(Q[k - 1].depth, M[k]))
  <2> DEFINE d == P[k - 1].depth
             out == o[k - 1]
             line == LinesOf(s)[k]
             r == t[k]
             last == k = Len(M)
  <2>1. k - 1 \in 0..n /\ k \in 0..n /\ k \in 1..Len(M) /\ k - 1 \in 0..Len(M) /\ ~last
    BY <1>1, <1>4
  <2>2. /\ d \in Nat /\ line \in Seq(Plain(C)) /\ r = RowOf(d, line) /\ M[k] = r
        /\ P[k].depth = DepthAfter(d, line) /\ o[k] = Cat(Cat(out, r), nl)
    BY <1>1, <1>2, <1>3, <1>4, <2>1
  <2>3. out \in Seq(C) /\ Grown(out, r, o[k]) /\ Len(o[k]) <= Len(f)
    <3>1. o \in [0..n -> Seq(C)] /\ Grown(o[k - 1], t[k], o[k])
      BY <1>1 DEF Rows
    <3>2. Begins(o[k], o[n])
      BY <1>1, <2>1, RowsGrow
    <3> QED
      BY <1>1, <2>1, <3>1, <3>2 DEF Begins
  <2>4. Q[k - 1] = [depth |-> d, out |-> out]
    <3>1. Q[k - 1] \in [depth : Nat, out : Seq(C)]
      BY <1>5, <2>1
    <3>2. Q[k - 1] = [depth |-> Q[k - 1].depth, out |-> Q[k - 1].out]
      BY <3>1
    <3> QED
      BY <1>9, <3>2
  <2>5. Q[k] = FormatLine(Q[k - 1], r, last, cap)
    BY <1>5, <2>1, <2>2
  <2> HIDE DEF d, out, line, r, last
  <2>6. Again(C, d, line, r)
    BY <2>2, RowAgain
  <2>7. r \in Seq(Plain(C)) /\ RowOf(d, r) = r /\ DepthAfter(d, r) = DepthAfter(d, line)
    BY <2>6 DEF Again
  <2>8. Emit(out, r, cap) = Cat(out, r)
    <3>1. Len(out) \in Nat /\ Len(r) \in Nat /\ Len(o[k]) = Len(out) + Len(r) + 1
      BY <2>3 DEF Grown
    <3>2. Len(out) + Len(r) + 2 <= cap
      BY <1>6, <2>3, <3>1
    <3>3. r \in Seq(C)
      <4>1. \A i \in 1..Len(r) : r[i] \in C
        BY <2>7, ElementOfSeq DEF Plain
      <4>2. r = [i \in 1..Len(r) |-> r[i]]
        BY <2>7, LenProperties
      <4>3. [i \in 1..Len(r) |-> r[i]] \in Seq(C)
        BY <3>1, <4>1, SeqDef
      <4> QED
        BY <4>2, <4>3
    <3> QED
      BY <1>6, <2>3, <3>2, <3>3, EmitWhole
  <2>9. FormatLine([depth |-> d, out |-> out], r, last, cap) =
          [depth |-> DepthAfter(d, r), out |-> Cat(Cat(out, RowOf(d, r)), <<"\n">>)]
    <3>1. Trimmed(r) # <<>> => Emit(out, RowOf(d, r), cap) = Cat(out, RowOf(d, r))
      BY <2>7, <2>8
    <3>2. ~last
      BY <2>1 DEF last
    <3>3. d \in Nat
      BY <2>2
    <3> QED
      BY <1>6, <2>3, <2>7, <3>1, <3>2, <3>3, FormatsRow
  <2>10. Q[k] = [depth |-> DepthAfter(d, line), out |-> Cat(Cat(out, r), nl)]
    BY <2>4, <2>5, <2>7, <2>9
  <2>11. Q[k].depth = DepthAfter(d, line) /\ Q[k].out = Cat(Cat(out, r), nl)
    BY <2>10
  <2>12. Q[k - 1].depth = d /\ Q[k - 1].out = out /\ M[k] = r
    BY <1>9, <2>2 DEF d, out
  <2> QED
    BY <2>2, <2>7, <2>8, <2>11, <2>12
<1>10. \A k \in 0..n : Q[k].depth = P[k].depth /\ Q[k].out = o[k]
  <2> DEFINE Good(k) == Q[k].depth = P[k].depth /\ Q[k].out = o[k]
             G == {k \in Nat : k <= n => Good(k)}
  <2>1. Good(0)
    BY <1>1, <1>5 DEF Rows
  <2>2. ASSUME NEW k \in Nat, \A j \in 0..k - 1 : j \in G PROVE k \in G
    <3>1. CASE k = 0
      BY <2>1, <3>1
    <3>2. CASE k # 0 /\ k <= n
      <4>1. k - 1 \in 0..k - 1 /\ k - 1 <= n /\ k \in 1..n
        BY <1>1, <3>2
      <4>2. Good(k - 1)
        BY <2>2, <4>1
      <4> QED
        BY <1>9, <4>1, <4>2
    <3>3. CASE ~(k <= n)
      BY <3>3
    <3> QED
      BY <3>1, <3>2, <3>3
  <2>3. Nat \subseteq G
    <3> HIDE DEF G
    <3> QED
      BY <2>2, Induction
  <2>4. ASSUME NEW k \in 0..n PROVE Good(k)
    <3>1. k \in G /\ k <= n
      BY <1>1, <2>3
    <3> QED
      BY <3>1
  <2> QED
    BY <2>4
<1>11. Uncut(f)
  <2> SUFFICES ASSUME NEW k \in 1..Len(M), Trimmed(M[k]) # <<>>
               PROVE  Emit(Q[k - 1].out, RowOf(Q[k - 1].depth, M[k]), cap) =
                        Cat(Q[k - 1].out, RowOf(Q[k - 1].depth, M[k]))
    BY <1>f
  <2>1. k # n + 1
    BY <1>4, NothingTrimmed
  <2>2. k \in 1..n /\ k - 1 \in 0..n
    BY <1>1, <1>4, <2>1
  <2> QED
    BY <1>9, <1>10, <2>2
<1>12. Q[n + 1].out = o[n]
  <2> DEFINE m == n + 1
             d == Q[n].depth
             out == Q[n].out
             none == <<>>
             last == m = Len(M)
  <2>1. m \in 1..Len(M) /\ m = Len(M) /\ m - 1 = n /\ n \in 0..Len(M) /\ n \in 0..n
    BY <1>1, <1>4
  <2>2. Q[m] = FormatLine(Q[m - 1], M[m], last, cap) /\ last
    <3> HIDE DEF m
    <3> QED
      BY <1>5, <2>1
  <2>3. M[m] = none
    BY <1>4
  <2>4. Q[n] = [depth |-> d, out |-> out]
    <3>1. Q[n] \in [depth : Nat, out : Seq(C)]
      BY <1>5, <2>1
    <3> QED
      BY <3>1
  <2>5. Trimmed(none) = <<>>
    BY NothingTrimmed
  <2> HIDE DEF d, out, none, m, last
  <2>6. FormatLine([depth |-> d, out |-> out], none, last, cap) = [depth |-> DepthAfter(d, none), out |-> out]
    <3>1. last /\ Trimmed(none) = <<>>
      BY <2>2, <2>5
    <3> QED
      BY <3>1 DEF FormatLine
  <2> DEFINE e == DepthAfter(d, none)
  <2> HIDE DEF e
  <2>7. Q[m] = [depth |-> e, out |-> out]
    BY <2>1, <2>2, <2>3, <2>4, <2>6 DEF e
  <2>8. Q[m].out = out
    BY <2>7
  <2>9. out = o[n]
    BY <1>10, <2>1 DEF out
  <2> QED
    BY <2>8, <2>9 DEF m
<1> QED
  BY <1>1, <1>4, <1>8, <1>11, <1>12

(* Formatting a formatted source changes nothing: if no line of any source outgrows the *)
(* formatter's buffer, none of a formatted one does, and every line is written again    *)
(* as it stands.                                                                        *)
THEOREM FormattingConverges ==
  ASSUME \A s \in Sources : Uncut(s)
  PROVE  ReadSpec => []Idempotent
<1> DEFINE Inv == src \in Seq(Alphabet) /\ Uncut(src)
<1>1. Space \in Alphabet /\ "\n" \in Alphabet
  BY SourcesAssumption
<1>2. ReadInit => Inv
  BY SourcesAssumption DEF ReadInit
<1>3. Inv /\ [ReadNext]_readVars => Inv'
  <2> SUFFICES ASSUME Inv, [ReadNext]_readVars PROVE Inv'
    OBVIOUS
  <2>1. CASE src' = src
    BY <2>1
  <2>2. CASE src' = Format(src)
    <3>1. Format(src) \in Seq(Alphabet) /\ Uncut(Format(src))
      BY <1>1, FormatWrites, FormatAgain
    <3> QED
      BY <2>2, <3>1
  <2> QED
    BY <2>1, <2>2 DEF ReadNext, Reformat, OpenForm, CloseForm, WrongCloser, Atom, LexError, Finish, readVars
<1>4. Inv => Idempotent
  BY <1>1, FormatAgain DEF Idempotent
<1> QED
  BY <1>2, <1>3, <1>4, PTL DEF ReadSpec

-----------------------------------------------------------------------------
(* The tokens of a formatted text.                                         *)

(* The line of s that has the text t: after a characters, with nothing but margin up to e,
   where the line stops.  The text does not end in a colon of t. *)
Lies(s, t, a, k, e) ==
  /\ Len(s) \in Nat /\ a \in Nat /\ k \in Nat /\ k = Len(t) /\ e \in a + k + 1..Len(s) + 1
  /\ \A i \in 1..k : s[a + i] = t[i] /\ t[i] # "\n"
  /\ \A j \in a + k + 1..e - 1 : s[j] \in Margin
  /\ e <= Len(s) => s[e] = "\n"
  /\ (k >= 1 /\ a + k = Len(s)) => t[k] # ":"

(* Blanks are of no name, number or string. *)
LEMMA SpacesAre ==
  /\ Margin \subseteq Spaces /\ "\n" \in Spaces
  /\ \A c \in Spaces : ~IsSymbolChar(c) /\ c \notin Digits /\ c # "." /\ c # Quote /\ c # Backslash
<1>1. Margin = {" ", "\t", "\r"} /\ Spaces = {" ", "\t", "\n", "\r"}
  BY DEF Margin, Blanks, Space, Spaces
<1> QED
  BY <1>1 DEF IsSymbolChar, Digits, Quote, Backslash

(* What follows the text is a blank. *)
LEMMA BlankFollows ==
  ASSUME NEW s, NEW t, NEW a, NEW k, NEW e, Lies(s, t, a, k, e), a + k < Len(s)
  PROVE  s[a + k + 1] \in Spaces
<1>1. CASE e = a + k + 1
  <2>1. e <= Len(s)
    BY <1>1 DEF Lies
  <2> QED
    BY <1>1, <2>1, SpacesAre DEF Lies
<1>2. CASE e # a + k + 1
  <2>1. a + k + 1 \in a + k + 1..e - 1
    BY <1>2 DEF Lies
  <2> QED
    BY <2>1, SpacesAre DEF Lies
<1> QED
  BY <1>1, <1>2

(* A run that blanks stop ends at the same place of the text. *)
Displaced(n, k, a, i, T, U) ==
  /\ n \in Nat /\ k \in Nat /\ a \in Nat /\ a + k <= n /\ i \in 1..k + 1
  /\ T \in SUBSET (i..k) /\ U \in SUBSET (a + i..n)
  /\ \A j \in i..k : j \in T <=> a + j \in U
  /\ a + k < n => a + k + 1 \in U

(* The first place of a set is a places further on when the set is. *)
LEMMA RunShift ==
  ASSUME NEW n, NEW k, NEW a, NEW i, NEW T, NEW U, Displaced(n, k, a, i, T, U)
  PROVE  EndOf(T, k) \in i..k + 1 /\ EndOf(U, n) = a + EndOf(T, k)
<1> USE DEF Displaced
<1> DEFINE e == EndOf(T, k)
           b == a + i
<1>1. e \in i..k + 1 /\ (\A j \in i..e - 1 : j \notin T) /\ (e <= k => e \in T)
  BY EndOfTells
<1> HIDE DEF e
<1>2. b \in 1..n + 1 /\ a + e \in b..n + 1 /\ U \in SUBSET (b..n)
  BY <1>1
<1>3. ASSUME NEW j \in b..(a + e) - 1 PROVE j \notin U
  <2>1. j - a \in i..e - 1 /\ j - a \in i..k /\ a + (j - a) = j
    BY <1>1
  <2>2. j - a \notin T
    BY <1>1, <2>1
  <2> QED
    BY <2>1, <2>2
<1>4. ASSUME a + e <= n PROVE a + e \in U
  <2>1. CASE e <= k
    BY <1>1, <2>1
  <2>2. CASE e = k + 1
    BY <1>4, <2>2
  <2> QED
    BY <1>1, <2>1, <2>2
<1> DEFINE g == a + e
<1> HIDE DEF b, g
<1>5. EndOf(U, n) = g
  BY <1>2, <1>3, <1>4, EndOfAt DEF g
<1> QED
  BY <1>1, <1>5 DEF e, g

(* A name ends at the same place of the text, ... *)
LEMMA NameShift ==
  ASSUME NEW s, NEW t, NEW a, NEW k, NEW e, Lies(s, t, a, k, e), NEW i \in 1..k + 1
  PROVE  /\ EndOfRun(t, i, IsSymbolChar) \in i..k + 1
         /\ EndOfRun(s, a + i, IsSymbolChar) = a + EndOfRun(t, i, IsSymbolChar)
<1> DEFINE n == Len(s)
           T == {j \in i..k : ~IsSymbolChar(t[j])}
           U == {j \in a + i..n : ~IsSymbolChar(s[j])}
<1>1. n \in Nat /\ k \in Nat /\ a \in Nat /\ a + k <= n /\ k = Len(t)
  BY DEF Lies
<1>2. EndOfRun(t, i, IsSymbolChar) = EndOf(T, k)
  BY <1>1 DEF EndOfRun, EndOf
<1>3. EndOfRun(s, a + i, IsSymbolChar) = EndOf(U, n)
  BY DEF EndOfRun, EndOf
<1>4. \A j \in i..k : j \in T <=> a + j \in U
  <2> SUFFICES ASSUME NEW j \in i..k PROVE j \in T <=> a + j \in U
    OBVIOUS
  <2>1. j \in 1..k /\ a + j \in a + i..n
    BY <1>1
  <2>2. s[a + j] = t[j]
    BY <2>1 DEF Lies
  <2> QED
    BY <2>1, <2>2
<1>5. a + k < n => a + k + 1 \in U
  BY <1>1, BlankFollows, SpacesAre
<1>6. T \in SUBSET (i..k) /\ U \in SUBSET (a + i..n)
  OBVIOUS
<1> HIDE DEF n, T, U
<1>7. n \in Nat /\ k \in Nat /\ a \in Nat /\ a + k <= n
  BY <1>1
<1>8. Displaced(n, k, a, i, T, U)
  BY <1>4, <1>5, <1>6, <1>7 DEF Displaced
<1>9. EndOf(T, k) \in i..k + 1 /\ EndOf(U, n) = a + EndOf(T, k)
  BY <1>8, RunShift
<1> QED
  BY <1>2, <1>3, <1>9

DigitsEndAt(s, i) == EndOfRun(s, i, LAMBDA c : c \in Digits)

(* so do its digits, ... *)
LEMMA DigitsShift ==
  ASSUME NEW s, NEW t, NEW a, NEW k, NEW e, Lies(s, t, a, k, e), NEW i \in 1..k + 1
  PROVE  /\ DigitsEndAt(t, i) \in i..k + 1
         /\ DigitsEndAt(s, a + i) = a + DigitsEndAt(t, i)
<1> DEFINE n == Len(s)
           T == {j \in i..k : ~(t[j] \in Digits)}
           U == {j \in a + i..n : ~(s[j] \in Digits)}
<1>1. n \in Nat /\ k \in Nat /\ a \in Nat /\ a + k <= n /\ k = Len(t)
  BY DEF Lies
<1>2. DigitsEndAt(t, i) = EndOf(T, k)
  BY <1>1 DEF EndOfRun, EndOf, DigitsEndAt
<1>3. DigitsEndAt(s, a + i) = EndOf(U, n)
  BY DEF EndOfRun, EndOf, DigitsEndAt
<1>4. \A j \in i..k : j \in T <=> a + j \in U
  <2> SUFFICES ASSUME NEW j \in i..k PROVE j \in T <=> a + j \in U
    OBVIOUS
  <2>1. j \in 1..k /\ a + j \in a + i..n
    BY <1>1
  <2>2. s[a + j] = t[j]
    BY <2>1 DEF Lies
  <2> QED
    BY <2>1, <2>2
<1>5. a + k < n => a + k + 1 \in U
  BY <1>1, BlankFollows, SpacesAre
<1>6. T \in SUBSET (i..k) /\ U \in SUBSET (a + i..n)
  OBVIOUS
<1> HIDE DEF n, T, U
<1>7. n \in Nat /\ k \in Nat /\ a \in Nat /\ a + k <= n
  BY <1>1
<1>8. Displaced(n, k, a, i, T, U)
  BY <1>4, <1>5, <1>6, <1>7 DEF Displaced
<1>9. EndOf(T, k) \in i..k + 1 /\ EndOf(U, n) = a + EndOf(T, k)
  BY <1>8, RunShift
<1> QED
  BY <1>2, <1>3, <1>9

(* So does a number, ... *)
LEMMA NumberShift ==
  ASSUME NEW s, NEW t, NEW a, NEW k, NEW e, Lies(s, t, a, k, e), NEW i \in 1..k
  PROVE  /\ StartsNumber(s, a + i) <=> StartsNumber(t, i)
         /\ StartsNumber(t, i) => NumberEnd(s, a + i) = a + NumberEnd(t, i)
<1> DEFINE n == Len(s)
<1>1. n \in Nat /\ k \in Nat /\ a \in Nat /\ a + k <= n /\ k = Len(t)
  BY DEF Lies
<1>2. s[a + i] = t[i]
  BY DEF Lies
<1>3. ASSUME NEW j \in 1..k, j < k PROVE s[a + j + 1] = t[j + 1]
  <2>1. j + 1 \in 1..k /\ a + (j + 1) = a + j + 1
    BY <1>1, <1>3
  <2> QED
    BY <2>1 DEF Lies
<1>4. ASSUME a + k < n PROVE s[a + k + 1] \notin Digits /\ s[a + k + 1] # "."
  BY <1>4, BlankFollows, SpacesAre
<1>5. StartsNumber(s, a + i) <=> StartsNumber(t, i)
  <2>1. CASE i < k
    <3>1. a + i < n /\ s[a + i + 1] = t[i + 1]
      BY <1>1, <1>3, <2>1
    <3> QED
      BY <1>1, <1>2, <2>1, <3>1 DEF StartsNumber
  <2>2. CASE i = k
    BY <1>1, <1>2, <1>4, <2>2 DEF StartsNumber
  <2> QED
    BY <1>1, <2>1, <2>2
<1>6. ASSUME StartsNumber(t, i) PROVE NumberEnd(s, a + i) = a + NumberEnd(t, i)
  <2> DEFINE first == IF t[i] \in Digits THEN i ELSE i + 1
             whole == DigitsEndAt(t, first)
             part == DigitsEndAt(t, whole + 1)
             pointed == whole < k /\ t[whole] = "." /\ t[whole + 1] \in Digits
             first2 == IF s[a + i] \in Digits THEN a + i ELSE a + i + 1
             whole2 == DigitsEndAt(s, first2)
             part2 == DigitsEndAt(s, whole2 + 1)
             pointed2 == whole2 < n /\ s[whole2] = "." /\ s[whole2 + 1] \in Digits
  <2>1. NumberEnd(t, i) = IF pointed THEN part ELSE whole
    BY <1>1 DEF NumberEnd, DigitsEndAt
  <2>2. NumberEnd(s, a + i) = IF pointed2 THEN part2 ELSE whole2
    BY DEF NumberEnd, DigitsEndAt
  <2>3. first \in 1..k + 1 /\ first2 = a + first
    BY <1>1, <1>2
  <2> HIDE DEF first, first2
  <2>4. whole \in first..k + 1 /\ whole2 = a + whole
    BY <2>3, DigitsShift
  <2> HIDE DEF whole, whole2
  <2>5. whole \in 1..k + 1
    BY <1>1, <2>3, <2>4
  <2>6. CASE whole < k
    <3>1. whole2 < n /\ s[whole2] = t[whole] /\ s[whole2 + 1] = t[whole + 1] /\ whole + 1 \in 1..k + 1
      <4>1. whole \in 1..k
        BY <1>1, <2>5, <2>6
      <4> QED
        BY <1>1, <1>3, <2>4, <2>6, <4>1 DEF Lies
    <3> DEFINE w == whole + 1
    <3>2. w \in 1..k + 1 /\ whole2 + 1 = a + w
      BY <1>1, <2>4, <2>5, <3>1
    <3> HIDE DEF w
    <3>3. DigitsEndAt(s, a + w) = a + DigitsEndAt(t, w)
      BY <3>2, DigitsShift
    <3>4. part2 = a + part
      BY <3>2, <3>3 DEF w
    <3> HIDE DEF part, part2
    <3> QED
      BY <2>1, <2>2, <2>4, <2>6, <3>1, <3>4
  <2>7. CASE ~(whole < k)
    <3>1. ~pointed2
      <4>1. CASE whole = k
        <5>1. whole2 < n => s[whole2 + 1] \notin Digits
          BY <1>1, <1>4, <2>4, <4>1
        <5> QED
          BY <5>1
      <4>2. CASE whole = k + 1
        <5>1. whole2 < n => s[whole2] # "."
          BY <1>1, <1>4, <2>4, <4>2
        <5> QED
          BY <5>1
      <4> QED
        BY <1>1, <2>5, <2>7, <4>1, <4>2
    <3> QED
      BY <2>1, <2>2, <2>4, <2>7, <3>1
  <2> QED
    BY <2>6, <2>7
<1> QED
  BY <1>5, <1>6

(* ... a string literal that the text closes, ... *)
LEMMA StringShift ==
  ASSUME NEW s, NEW t, NEW a, NEW k, NEW e, Lies(s, t, a, k, e), NEW i \in 1..k,
         StringToken(t, i).next # 0
  PROVE  /\ StringToken(s, a + i).text = StringToken(t, i).text
         /\ StringToken(s, a + i).next = a + StringToken(t, i).next
<1> DEFINE n == Len(s)
           f == LiteralFrom(s)
           g == LiteralFrom(t)
           Same(j) == g[j].next # 0 => f[a + j].text = g[j].text /\ f[a + j].next = a + g[j].next
           G == {j \in 1..k + 1 : Same(j)}
<1>1. n \in Nat /\ k \in Nat /\ a \in Nat /\ a + k <= n /\ k = Len(t)
  BY DEF Lies
<1>2. Literal(s, f) /\ Literal(t, g)
  BY <1>1, LiteralIs
<1> HIDE DEF f, g
<1>3. g[k + 1].next = 0
  BY <1>1, <1>2 DEF Literal
<1>4. ASSUME NEW j \in 1..k, t[j] = Quote PROVE Same(j)
  <2>1. a + j \in 1..n /\ s[a + j] = Quote /\ j \in 1..Len(t)
    BY <1>1, <1>4 DEF Lies
  <2>2. g[j].text = <<>> /\ g[j].next = j + 1
    BY <1>2, <1>4, <2>1 DEF Literal
  <2>3. f[a + j].text = <<>> /\ f[a + j].next = (a + j) + 1
    BY <1>2, <2>1 DEF Literal
  <2> QED
    BY <1>1, <2>2, <2>3
<1>5. ASSUME NEW j \in 1..k, t[j] # Quote, \A m \in j + 1..k + 1 : Same(m) PROVE Same(j)
  <2>1. a + j \in 1..n /\ s[a + j] = t[j] /\ j \in 1..Len(t)
    BY <1>1, <1>5 DEF Lies
  <2> DEFINE on == LiteralOn(t, j)
             c == LiteralChar(t, j)
  <2>2. g[j].text = Cat(<<c>>, g[on].text) /\ g[j].next = g[on].next
    BY <1>2, <1>5, <2>1 DEF Literal
  <2> DEFINE on2 == LiteralOn(s, a + j)
             c2 == LiteralChar(s, a + j)
  <2>3. f[a + j].text = Cat(<<c2>>, f[on2].text) /\ f[a + j].next = f[on2].next
    BY <1>2, <1>5, <2>1 DEF Literal
  <2>4. CASE t[j] = Backslash /\ j = k
    <3>1. on = k + 1
      BY <1>1, <2>4 DEF LiteralOn
    <3> QED
      BY <1>3, <2>2, <3>1
  <2>5. CASE t[j] = Backslash /\ j < k
    <3>1. on = j + 2 /\ c = Unescaped(t[j + 1])
      BY <1>1, <2>5 DEF LiteralOn, LiteralChar
    <3>2. on2 = a + j + 2 /\ c2 = Unescaped(s[a + j + 1])
      BY <1>1, <2>1, <2>5 DEF LiteralOn, LiteralChar
    <3>3. j + 1 \in 1..k /\ a + (j + 1) = a + j + 1
      BY <1>1, <2>5
    <3>4. c2 = c
      BY <3>1, <3>2, <3>3 DEF Lies
    <3>5. on \in j + 1..k + 1 /\ on2 = a + on
      BY <1>1, <2>5, <3>1, <3>2
    <3> HIDE DEF on, c, on2, c2
    <3> QED
      BY <1>5, <2>2, <2>3, <3>4, <3>5
  <2>6. CASE t[j] # Backslash
    <3>1. on = j + 1 /\ c = t[j]
      BY <2>6 DEF LiteralOn, LiteralChar
    <3>2. on2 = a + j + 1 /\ c2 = s[a + j]
      BY <2>1, <2>6 DEF LiteralOn, LiteralChar
    <3>3. c2 = c
      BY <2>1, <3>1, <3>2
    <3>4. on \in j + 1..k + 1 /\ on2 = a + on
      BY <1>1, <3>1, <3>2
    <3> HIDE DEF on, c, on2, c2
    <3> QED
      BY <1>5, <2>2, <2>3, <3>3, <3>4
  <2> QED
    BY <1>1, <2>4, <2>5, <2>6
<1>6. ASSUME NEW j \in 1..k + 1, \A m \in j + 1..k + 1 : m \in G PROVE j \in G
  <2>1. \A m \in j + 1..k + 1 : Same(m)
    BY <1>6
  <2>2. CASE j = k + 1
    BY <1>3, <2>2
  <2>3. CASE j \in 1..k
    <3> HIDE DEF Same
    <3> QED
      BY <1>4, <1>5, <2>1, <2>3
  <2> QED
    BY <1>1, <2>2, <2>3
<1> DEFINE top == k + 1
<1>7. top \in Nat /\ \A j \in 1..top : (\A m \in j + 1..top : m \in G) => j \in G
  BY <1>1, <1>6
<1> HIDE DEF top, G
<1>8. \A j \in 1..top : j \in G
  BY <1>7, Backwards
<1>9. i + 1 \in 1..top
  BY <1>1 DEF top
<1>10. Same(i + 1)
  BY <1>8, <1>9 DEF G
<1> DEFINE whole == g[i + 1]
           to == whole.next
           cut == SubSeq(whole.text, 1, Min({Len(whole.text), StringCap}))
           whole2 == f[a + i + 1]
           cut2 == SubSeq(whole2.text, 1, Min({Len(whole2.text), StringCap}))
<1>11. i \in 1..Len(t) /\ a + i \in 1..n /\ a + (i + 1) = a + i + 1
  BY <1>1
<1>12. StringToken(t, i) = [kind |-> "string", next |-> to, text |-> cut]
  BY <1>2, <1>11 DEF Literal
<1>13. StringToken(s, a + i) = [kind |-> "string", next |-> whole2.next, text |-> cut2]
  BY <1>2, <1>11 DEF Literal
<1>14. whole.next # 0 => whole2.text = whole.text /\ whole2.next = a + whole.next
  BY <1>10, <1>11
<1> HIDE DEF whole, whole2
<1>16. to # 0
  <2> HIDE DEF to, cut
  <2> QED
    BY <1>12
<1>15. cut2 = cut /\ whole2.next = a + whole.next
  BY <1>14, <1>16
<1> HIDE DEF cut, cut2
<1> QED
  BY <1>12, <1>13, <1>15

(* ... and so does what is copied from it. *)
SameText(s, t, a, i, m) == SubSeq(s, a + i, (a + m) - 1) = SubSeq(t, i, m - 1)

(* What stands between two places of the text stands between them in the line. *)
LEMMA TextShift ==
  ASSUME NEW C, NEW s \in Seq(C), NEW t \in Seq(C), NEW a, NEW k, NEW e, Lies(s, t, a, k, e),
         NEW i \in 1..k, NEW m \in i..k + 1
  PROVE  SameText(s, t, a, i, m)
<1> DEFINE n == Len(s)
           from == i - 1
           to == m - 1
           p == a + from
           q == a + to
           x == SubSeq(s, p + 1, q)
           y == SubSeq(t, from + 1, to)
<1>1. n \in Nat /\ k \in Nat /\ a \in Nat /\ a + k <= n /\ k = Len(t)
  BY DEF Lies
<1>2. /\ from \in 0..Len(t) /\ to \in from..Len(t) /\ p \in 0..Len(s) /\ q \in p..Len(s)
      /\ q - p = to - from /\ p + 1 = a + i /\ from + 1 = i /\ q = (a + m) - 1
  BY <1>1
<1>3. \A j \in 1..to - from : from + j \in 1..k /\ p + j = a + (from + j)
  BY <1>1
<1> HIDE DEF from, to, p, q
<1>4. x \in Seq(C) /\ Len(x) = q - p /\ \A j \in 1..q - p : x[j] = s[p + j]
  BY <1>2, SubSeqIs
<1>5. y \in Seq(C) /\ Len(y) = to - from /\ \A j \in 1..to - from : y[j] = t[from + j]
  BY <1>2, SubSeqIs
<1> HIDE DEF x, y
<1>6. \A j \in 1..Len(x) : x[j] = y[j]
  <2> SUFFICES ASSUME NEW j \in 1..Len(x) PROVE x[j] = y[j]
    OBVIOUS
  <2>1. j \in 1..to - from /\ j \in 1..q - p
    BY <1>2, <1>4
  <2>2. x[j] = s[p + j] /\ y[j] = t[from + j]
    BY <1>4, <1>5, <2>1
  <2>3. s[a + (from + j)] = t[from + j]
    BY <1>3, <2>1 DEF Lies
  <2> QED
    BY <1>3, <2>1, <2>2, <2>3
<1>7. Len(x) = Len(y)
  BY <1>2, <1>4, <1>5
<1>8. x = y
  BY <1>4, <1>5, <1>6, <1>7, SameElements
<1>9. SubSeq(s, p + 1, q) = SubSeq(t, from + 1, to)
  BY <1>8 DEF x, y
<1> QED
  BY <1>2, <1>9 DEF to, SameText

UpTo(s, i, kind, end) == [kind |-> kind, next |-> end, text |-> SubSeq(s, i, end - 1)]
Punct(i, kind) == [kind |-> kind, next |-> i + 1, text |-> <<>>]

(* The token at i of a text, case by case. *)
LEMMA TokenSplits ==
  ASSUME NEW s, Len(s) \in Nat, NEW i \in 1..Len(s)
  PROVE  TokenAt(s, i) =
           IF s[i] \in Bracket \cup {"@"} THEN Punct(i, s[i])
           ELSE IF s[i] = Quote THEN StringToken(s, i)
           ELSE IF s[i] = ":" THEN
                  IF KeywordAt(s, i) THEN UpTo(s, i, "keyword", EndOfRun(s, i + 1, IsSymbolChar))
                  ELSE Punct(i, ":")
           ELSE IF StartsNumber(s, i) THEN UpTo(s, i, "number", NumberEnd(s, i))
           ELSE UpTo(s, i, "symbol", EndOfRun(s, i, IsSymbolChar))
<1>1. ~(i > Len(s))
  OBVIOUS
<1> QED
  BY <1>1 DEF TokenAt, UpTo, Punct, Bracket

(* The token at i of a text, as it is read where the text is followed by a blank. *)
TextToken(t, i) ==
  IF t[i] = ":" /\ i = Len(t) THEN Punct(i, ":") ELSE TokenAt(t, i)
Copied(x, y, a) == x.kind = y.kind /\ x.text = y.text /\ x.next = a + y.next

(* Punctuation is copied. *)
LEMMA PunctCopied ==
  ASSUME NEW kind, NEW i \in Nat, NEW a \in Nat
  PROVE  Copied(Punct(a + i, kind), Punct(i, kind), a)
BY DEF Copied, Punct

(* So is a run of characters. *)
LEMMA UpToCopied ==
  ASSUME NEW C, NEW s \in Seq(C), NEW t \in Seq(C), NEW a, NEW k, NEW e, Lies(s, t, a, k, e),
         NEW i \in 1..k, NEW m \in i..k + 1, NEW kind
  PROVE  Copied(UpTo(s, a + i, kind, a + m), UpTo(t, i, kind, m), a)
<1> DEFINE x == SubSeq(s, a + i, (a + m) - 1)
           y == SubSeq(t, i, m - 1)
<1>1. x = y
  <2>1. SameText(s, t, a, i, m)
    BY TextShift
  <2> QED
    BY <2>1 DEF SameText
<1> HIDE DEF x, y
<1>2. UpTo(s, a + i, kind, a + m) = [kind |-> kind, next |-> a + m, text |-> x]
  BY DEF UpTo, x
<1>3. UpTo(t, i, kind, m) = [kind |-> kind, next |-> m, text |-> y]
  BY DEF UpTo, y
<1> QED
  BY <1>1, <1>2, <1>3 DEF Copied

(* A token of the text is the same token of whatever the text is a line of. *)
LEMMA TokenShift ==
  ASSUME NEW C, NEW s \in Seq(C), NEW t \in Seq(C), NEW a, NEW k, NEW e, Lies(s, t, a, k, e),
         NEW i \in 1..k, t[i] \notin Spaces \cup {Semicolon}, TokenAt(t, i).next # 0
  PROVE  /\ Copied(TokenAt(s, a + i), TextToken(t, i), a)
         /\ TextToken(t, i).next = TokenAt(t, i).next
         /\ TokenAt(t, i).next \in i + 1..k + 1
         /\ TextToken(t, i).kind \in Bracket \cup Atoms
<1> DEFINE n == Len(s)
           c == t[i]
           x == TokenAt(s, a + i)
           y == TokenAt(t, i)
<1>1. n \in Nat /\ k \in Nat /\ a \in Nat /\ a + k <= n /\ k = Len(t) /\ i \in 1..Len(t) /\ a + i \in 1..n
      /\ i \in Nat
  BY DEF Lies
<1>2. s[a + i] = c
  BY DEF Lies
<1>3. y = IF c \in Bracket \cup {"@"} THEN Punct(i, c)
          ELSE IF c = Quote THEN StringToken(t, i)
          ELSE IF c = ":" THEN
                 IF KeywordAt(t, i) THEN UpTo(t, i, "keyword", EndOfRun(t, i + 1, IsSymbolChar))
                 ELSE Punct(i, ":")
          ELSE IF StartsNumber(t, i) THEN UpTo(t, i, "number", NumberEnd(t, i))
          ELSE UpTo(t, i, "symbol", EndOfRun(t, i, IsSymbolChar))
  BY <1>1, TokenSplits
<1>4. x = IF c \in Bracket \cup {"@"} THEN Punct(a + i, c)
          ELSE IF c = Quote THEN StringToken(s, a + i)
          ELSE IF c = ":" THEN
                 IF KeywordAt(s, a + i)
                 THEN UpTo(s, a + i, "keyword", EndOfRun(s, a + i + 1, IsSymbolChar))
                 ELSE Punct(a + i, ":")
          ELSE IF StartsNumber(s, a + i) THEN UpTo(s, a + i, "number", NumberEnd(s, a + i))
          ELSE UpTo(s, a + i, "symbol", EndOfRun(s, a + i, IsSymbolChar))
  <2> DEFINE j == a + i
  <2>1. j \in 1..Len(s) /\ s[j] = c /\ Len(s) \in Nat
    BY <1>1, <1>2
  <2> HIDE DEF j, c
  <2>2. x = IF c \in Bracket \cup {"@"} THEN Punct(j, c)
            ELSE IF c = Quote THEN StringToken(s, j)
            ELSE IF c = ":" THEN
                   IF KeywordAt(s, j)
                   THEN UpTo(s, j, "keyword", EndOfRun(s, j + 1, IsSymbolChar))
                   ELSE Punct(j, ":")
            ELSE IF StartsNumber(s, j) THEN UpTo(s, j, "number", NumberEnd(s, j))
            ELSE UpTo(s, j, "symbol", EndOfRun(s, j, IsSymbolChar))
    BY <2>1, TokenSplits DEF j
  <2> QED
    BY <2>2 DEF j
<1>5. y.next \in i + 1..k + 1 /\ y.kind \in Bracket \cup Atoms
  <2>1. ~Blank(t, i) /\ i \in 1..Len(t) + 1 /\ ~(i > Len(t))
    BY <1>1 DEF Blank
  <2>2. Taken(t, i, y)
    BY <1>1, <2>1, TokenAtIs
  <2> DEFINE to == y.next
  <2>3. to \in {0} \cup i + 1..Len(t) + 1 /\ to # 0
    BY <2>2 DEF Taken
  <2> HIDE DEF to
  <2>4. to \in i + 1..k + 1
    BY <1>1, <2>3
  <2> QED
    BY <2>2, <2>4 DEF Taken, to
<1>6. ASSUME c # ":" \/ i # k PROVE TextToken(t, i) = y
  BY <1>1, <1>6 DEF TextToken
<1> HIDE DEF x, y, c
<1>7. CASE c \in Bracket \cup {"@"}
  <2>1. c # ":"
    BY <1>7, CharactersDiffer
  <2>2. Copied(x, y, a)
    BY <1>1, <1>3, <1>4, <1>7, PunctCopied
  <2> QED
    BY <1>5, <1>6, <2>1, <2>2 DEF x, y
<1>8. CASE c \notin Bracket \cup {"@"} /\ c = Quote
  <2>1. c # ":" /\ y = StringToken(t, i) /\ x = StringToken(s, a + i)
    BY <1>3, <1>4, <1>8 DEF Quote
  <2>2. StringToken(t, i).next # 0
    BY <2>1 DEF y
  <2>3. x.text = y.text /\ x.next = a + y.next
    BY <2>1, <2>2, StringShift
  <2>4. x.kind = "string" /\ y.kind = "string"
    BY <1>1, <2>1, StringTokenIs
  <2> QED
    BY <1>5, <1>6, <2>1, <2>3, <2>4 DEF Copied, x, y
<1>9. CASE c \notin Bracket \cup {"@"} /\ c # Quote /\ c = ":"
  <2>1. /\ y = IF KeywordAt(t, i) THEN UpTo(t, i, "keyword", EndOfRun(t, i + 1, IsSymbolChar))
               ELSE Punct(i, ":")
        /\ x = IF KeywordAt(s, a + i)
               THEN UpTo(s, a + i, "keyword", EndOfRun(s, a + i + 1, IsSymbolChar))
               ELSE Punct(a + i, ":")
    BY <1>3, <1>4, <1>9
  <2>2. Copied(Punct(a + i, ":"), Punct(i, ":"), a)
    BY <1>1, PunctCopied
  <2>3. ASSUME i < k, KeywordAt(t, i) PROVE Copied(x, y, a) /\ KeywordAt(s, a + i)
    <3> DEFINE j == i + 1
               m == EndOfRun(t, j, IsSymbolChar)
    <3>1. j \in 1..k + 1 /\ j \in 1..k /\ a + j = a + i + 1
      BY <1>1, <2>3
    <3>2. KeywordAt(s, a + i)
      <4>1. s[a + j] = t[j]
        BY <3>1 DEF Lies
      <4>2. IsSymbolChar(t[j])
        BY <1>1, <2>3 DEF KeywordAt
      <4> QED
        BY <3>1, <4>1, <4>2 DEF KeywordAt
    <3> HIDE DEF j, m
    <3>3. m \in j..k + 1 /\ EndOfRun(s, a + j, IsSymbolChar) = a + m
      BY <3>1, NameShift DEF m
    <3>4. m \in i..k + 1
      BY <1>1, <3>3 DEF j
    <3>5. x = UpTo(s, a + i, "keyword", a + m) /\ y = UpTo(t, i, "keyword", m)
      BY <2>1, <2>3, <3>1, <3>2, <3>3 DEF j, m
    <3>6. Copied(x, y, a)
      BY <3>4, <3>5, UpToCopied
    <3> QED
      BY <3>2, <3>6
  <2>4. ASSUME i < k, ~KeywordAt(t, i) PROVE Copied(x, y, a)
    <3>1. i + 1 \in 1..k /\ a + (i + 1) = a + i + 1 /\ a + i # n
      BY <1>1, <2>4
    <3>2. s[a + (i + 1)] = t[i + 1]
      BY <3>1 DEF Lies
    <3>3. ~KeywordAt(s, a + i)
      BY <2>4, <3>1, <3>2 DEF KeywordAt
    <3> QED
      BY <2>1, <2>2, <2>4, <3>3
  <2>5. ASSUME i = k PROVE x = Punct(a + i, ":")
    <3>1. a + k # n
      BY <1>1, <1>9, <2>5 DEF Lies, c
    <3>2. s[a + k + 1] \in Spaces
      BY <1>1, <3>1, BlankFollows
    <3>3. ~KeywordAt(s, a + i)
      BY <2>5, <3>1, <3>2, SpacesAre DEF KeywordAt
    <3> QED
      BY <2>1, <3>3
  <2>6. CASE i < k
    <3>1. Copied(x, y, a)
      BY <2>3, <2>4, <2>6
    <3>2. TextToken(t, i) = y
      BY <1>1, <1>6, <2>6
    <3> QED
      BY <1>5, <3>1, <3>2 DEF x, y
  <2>7. CASE i = k
    <3>1. TextToken(t, i) = Punct(i, ":")
      BY <1>1, <1>9, <2>7 DEF TextToken, c
    <3>2. TextToken(t, i).next = i + 1 /\ TextToken(t, i).kind = ":"
      BY <3>1 DEF Punct
    <3>3. y.next = i + 1
      <4> DEFINE to == y.next
      <4>1. to \in i + 1..k + 1
        BY <1>5
      <4> HIDE DEF to
      <4>2. to = i + 1
        BY <1>1, <2>7, <4>1
      <4> QED
        BY <4>2 DEF to
    <3>4. Copied(x, TextToken(t, i), a)
      BY <2>2, <2>5, <2>7, <3>1
    <3>5. ":" \in Bracket \cup Atoms
      BY DEF Atoms
    <3> QED
      BY <1>5, <3>2, <3>3, <3>4, <3>5 DEF x, y
  <2> QED
    BY <1>1, <2>6, <2>7
<1>10. CASE c \notin Bracket \cup {"@"} /\ c # Quote /\ c # ":" /\ StartsNumber(t, i)
  <2> DEFINE m == NumberEnd(t, i)
  <2>1. y = UpTo(t, i, "number", m)
    BY <1>3, <1>10
  <2>2. StartsNumber(s, a + i) /\ NumberEnd(s, a + i) = a + m
    BY <1>10, NumberShift
  <2>3. m \in i..k + 1
    <3>1. m \in i + 1..k + 1
      BY <1>1, <1>10, NumberEndIs
    <3> HIDE DEF m
    <3> QED
      BY <1>1, <3>1
  <2> HIDE DEF m
  <2>4. x = UpTo(s, a + i, "number", a + m)
    BY <1>4, <1>10, <2>2
  <2>5. Copied(x, y, a)
    BY <2>1, <2>3, <2>4, UpToCopied
  <2> QED
    BY <1>5, <1>6, <1>10, <2>5 DEF x, y
<1>11. CASE c \notin Bracket \cup {"@"} /\ c # Quote /\ c # ":" /\ ~StartsNumber(t, i)
  <2> DEFINE m == EndOfRun(t, i, IsSymbolChar)
  <2>1. y = UpTo(t, i, "symbol", m)
    BY <1>3, <1>11
  <2>2. ~StartsNumber(s, a + i)
    BY <1>11, NumberShift
  <2>3. i \in 1..k + 1
    BY <1>1
  <2>4. m \in i..k + 1 /\ EndOfRun(s, a + i, IsSymbolChar) = a + m
    BY <2>3, NameShift
  <2> HIDE DEF m
  <2>5. x = UpTo(s, a + i, "symbol", a + m)
    BY <1>4, <1>11, <2>2, <2>4
  <2>6. Copied(x, y, a)
    BY <2>1, <2>4, <2>5, UpToCopied
  <2> QED
    BY <1>5, <1>6, <1>11, <2>6 DEF x, y
<1> QED
  BY <1>7, <1>8, <1>9, <1>10, <1>11

(* Blanks before a token do not show. *)
LEMMA SkipTells ==
  ASSUME NEW s, Len(s) \in Nat, NEW i \in 1..Len(s) + 1, NEW j \in 1..Len(s) + 1,
         SkipBlank(s, i) = SkipBlank(s, j)
  PROVE  TokensFrom(s)[i] = TokensFrom(s)[j]
<1>1. TokenAfter(s, i) = TokenAfter(s, j) /\ Recorded(s, i) = Recorded(s, j)
      /\ Broken(s, i) = Broken(s, j)
  BY DEF TokenAfter, Recorded, Broken
<1> DEFINE f == TokensFrom(s)
<1>2. f[i] = TokensAt(s, f, i) /\ f[j] = TokensAt(s, f, j)
  BY TokensUnfold
<1> HIDE DEF f
<1>3. f[i] = f[j]
  BY <1>1, <1>2 DEF TokensAt
<1> QED
  BY <1>3 DEF f

(* A run of blanks leads to what follows it. *)
LEMMA BlankRun ==
  ASSUME NEW s, Len(s) \in Nat, NEW i \in 1..Len(s) + 1, NEW j \in i..Len(s) + 1,
         \A x \in i..j - 1 : s[x] \in Spaces
  PROVE  TokensFrom(s)[i] = TokensFrom(s)[j]
<1> DEFINE n == Len(s)
           G == {x \in 1..j : x >= i => SkipBlank(s, x) = SkipBlank(s, j)}
<1>1. ASSUME NEW x \in 1..j, \A y \in x + 1..j : y \in G PROVE x \in G
  <2> SUFFICES ASSUME x >= i PROVE SkipBlank(s, x) = SkipBlank(s, j)
    OBVIOUS
  <2>1. CASE x = j
    BY <2>1
  <2>2. CASE x # j
    <3>1. x \in 1..n + 1 /\ x \in i..j - 1 /\ x + 1 \in x + 1..j /\ x <= n /\ x + 1 >= i
      BY <2>2
    <3>2. Blank(s, x) /\ PastBlank(s, x) = x + 1
      BY <3>1 DEF Blank, PastBlank
    <3>3. SkipBlank(s, x) = SkipBlank(s, x + 1)
      BY <3>1, <3>2, SkipBlankUnfolds
    <3>4. SkipBlank(s, x + 1) = SkipBlank(s, j)
      BY <1>1, <3>1
    <3> QED
      BY <3>3, <3>4
  <2> QED
    BY <2>1, <2>2
<1>2. j \in Nat /\ \A x \in 1..j : (\A y \in x + 1..j : y \in G) => x \in G
  BY <1>1
<1> HIDE DEF G
<1>3. \A x \in 1..j : x \in G
  BY <1>2, Backwards
<1>4. i \in 1..j /\ i >= i /\ j \in 1..n + 1
  OBVIOUS
<1>5. SkipBlank(s, i) = SkipBlank(s, j)
  BY <1>3, <1>4 DEF G
<1> QED
  BY <1>4, <1>5, SkipTells

(* Nothing is left at the end of a text. *)
LEMMA NothingAfter ==
  ASSUME NEW s, NEW n \in Nat, n = Len(s)
  PROVE  TokensFrom(s)[n + 1] = <<>>
<1> DEFINE at == SkipBlank(s, n + 1)
           f == TokensFrom(s)
<1>1. n + 1 \in 1..Len(s) + 1
  OBVIOUS
<1>2. at \in n + 1..n + 1
  BY <1>1, TokenAfterIs
<1>3. at > Len(s)
  <2> HIDE DEF at
  <2> QED
    BY <1>2
<1>4. TokenAfter(s, n + 1).kind = "eof"
  BY <1>1, <1>3, TokenAfterIs
<1>5. f[n + 1] = TokensAt(s, f, n + 1)
  BY <1>1, TokensUnfold
<1> HIDE DEF f
<1>6. f[n + 1] = <<>>
  BY <1>4, <1>5 DEF TokensAt
<1> QED
  BY <1>6 DEF f

(* All of a line is on one line, and what follows it is on the next. *)
LEMMA SameLine ==
  ASSUME NEW s, Len(s) \in Nat, NEW i \in 1..Len(s) + 1, NEW j \in i..Len(s) + 1,
         \A x \in i..j - 1 : s[x] # "\n"
  PROVE  LineOf(s, i) = LineOf(s, j)
<1> DEFINE A == {x \in 1..Len(s) : x < i /\ s[x] = "\n"}
           B == {x \in 1..Len(s) : x < j /\ s[x] = "\n"}
<1>1. ASSUME NEW x \in 1..Len(s), s[x] = "\n" PROVE x < i <=> x < j
  <2>1. x \notin i..j - 1
    BY <1>1
  <2> QED
    BY <2>1
<1>2. A = B
  BY <1>1
<1>3. LineOf(s, i) = 1 + Cardinality(A) /\ LineOf(s, j) = 1 + Cardinality(B)
  BY DEF LineOf
<1> HIDE DEF A, B
<1> QED
  BY <1>2, <1>3

(* A newline begins the next line. *)
LEMMA NextLine ==
  ASSUME NEW s, Len(s) \in Nat, NEW i \in 1..Len(s), s[i] = "\n"
  PROVE  LineOf(s, i + 1) = LineOf(s, i) + 1
<1> DEFINE A == {x \in 1..Len(s) : x < i /\ s[x] = "\n"}
           B == {x \in 1..Len(s) : x < i + 1 /\ s[x] = "\n"}
<1>1. B = A \cup {i} /\ i \notin A
  <2>1. \A x \in 1..Len(s) : x < i + 1 <=> x < i \/ x = i
    OBVIOUS
  <2> QED
    BY <2>1
<1>2. IsFiniteSet(A)
  <2>1. IsFiniteSet(1..Len(s)) /\ A \subseteq 1..Len(s)
    BY FS_Interval
  <2> HIDE DEF A
  <2> QED
    BY <2>1, FS_Subset
<1>3. LineOf(s, i) = 1 + Cardinality(A) /\ LineOf(s, i + 1) = 1 + Cardinality(B)
  BY DEF LineOf
<1> HIDE DEF A, B
<1>4. Cardinality(A) \in Nat /\ Cardinality(B) = Cardinality(A) + 1
  BY <1>1, <1>2, FS_AddElement, FS_CardinalityType
<1> QED
  BY <1>3, <1>4

-----------------------------------------------------------------------------
(* Every string literal that begins after place j of t closes in t. *)
ClosesFrom(t, j) == \A x \in 1..Len(TokensFrom(t)[j]) : TokensFrom(t)[j][x].kind # "unterminated"

(* If every literal closes from a token on, then it closes, and so do those after it. *)
LEMMA ClosesOn ==
  ASSUME NEW t, NEW k \in Nat, k = Len(t), NEW j \in 1..k, t[j] \notin Spaces \cup {Semicolon},
         ClosesFrom(t, j)
  PROVE  TokenAt(t, j).next \in j + 1..k + 1 /\ ClosesFrom(t, TokenAt(t, j).next)
<1> DEFINE f == TokensFrom(t)
           y == TokenAt(t, j)
           me == Recorded(t, j)
           S == TokensIn(t)
           to == y.next
<1>1. j \in 1..k + 1 /\ ~Blank(t, j) /\ ~(j > Len(t))
  BY DEF Blank
<1>2. SkipBlank(t, j) = j
  BY <1>1, SkipBlankUnfolds
<1>3. TokenAfter(t, j) = y
  BY <1>2 DEF TokenAfter
<1>4. Taken(t, j, y)
  BY <1>1, TokenAtIs
<1>5. y.kind # "eof" /\ to \in {0} \cup j + 1..k + 1
  BY <1>4, KindsDiffer DEF Taken
<1>6. f \in [1..k + 1 -> Seq(S)] /\ f[j] = TokensAt(t, f, j)
  BY <1>1, TokensUnfold
<1>7. me \in S
  BY <1>1 DEF TokensIn
<1> DEFINE bad == Broken(t, j)
<1>8. bad.kind = "unterminated"
  BY DEF Broken, Recorded
<1>9. f[j] = IF to = 0 THEN <<bad>> ELSE Cat(<<me>>, f[to])
  <2> HIDE DEF f, y
  <2> QED
    BY <1>3, <1>5, <1>6 DEF TokensAt
<1> HIDE DEF f, y, me, S, bad, to
<1>10. \A x \in 1..Len(f[j]) : f[j][x].kind # "unterminated"
  BY DEF ClosesFrom, f
<1>11. to # 0
  <2> SUFFICES ASSUME to = 0 PROVE FALSE
    OBVIOUS
  <2> DEFINE one == <<bad>>
  <2>1. one = f[j]
    BY <1>9
  <2>2. Len(one) = 1 /\ one[1] = bad /\ 1 \in 1..1
    OBVIOUS
  <2> HIDE DEF one
  <2> QED
    BY <1>8, <1>10, <2>1, <2>2
<1>12. to \in j + 1..k + 1
  BY <1>5, <1>11
<1>13. f[to] \in Seq(S) /\ f[j] = Cat(<<me>>, f[to])
  <2>1. to \in 1..k + 1
    BY <1>12
  <2> QED
    BY <1>6, <1>9, <1>11, <2>1
<1> DEFINE r == f[to]
           all == f[j]
<1>14. Consed(S, me, r, all)
  <2>1. r \in Seq(S) /\ all = Cat(<<me>>, r)
    BY <1>13
  <2> HIDE DEF r, all
  <2> QED
    BY <1>7, <2>1, ConsIsConsed
<1>15. \A x \in 1..Len(r) : r[x].kind # "unterminated"
  <2>1. Len(r) \in Nat
    BY <1>13, LenProperties
  <2>2. \A x \in 1..Len(all) : all[x].kind # "unterminated"
    BY <1>10
  <2> HIDE DEF r, all
  <2> SUFFICES ASSUME NEW x \in 1..Len(r) PROVE r[x].kind # "unterminated"
    OBVIOUS
  <2>3. x + 1 \in 1..Len(all) /\ all[x + 1] = r[x]
    BY <1>14, <2>1 DEF Consed
  <2> QED
    BY <2>2, <2>3
<1> QED
  BY <1>12, <1>15 DEF ClosesFrom, f, to, y

(* What a line says of where its blanks, its comments and its tokens lead. *)
LEMMA LineLeads ==
  ASSUME NEW s, NEW t, NEW a, NEW k, NEW e, Lies(s, t, a, k, e)
  PROVE  /\ e \in 1..Len(s) + 1
         /\ TokensFrom(s)[a + k + 1] = TokensFrom(s)[e]
         /\ \A j \in 1..k + 1 : a + j \in 1..e /\ a + j \in 1..Len(s) + 1 /\ LineOf(s, a + j) = LineOf(s, e)
         /\ \A j \in 1..k : t[j] \in Spaces => TokensFrom(s)[a + j] = TokensFrom(s)[a + (j + 1)]
         /\ \A j \in 1..k : t[j] = Semicolon => TokensFrom(s)[a + j] = TokensFrom(s)[e]
<1> DEFINE n == Len(s)
<1>1. n \in Nat /\ k \in Nat /\ a \in Nat /\ a + k <= n /\ k = Len(t) /\ e \in a + k + 1..n + 1
  BY DEF Lies
<1>2. \A x \in a + 1..e - 1 : s[x] # "\n"
  <2> SUFFICES ASSUME NEW x \in a + 1..e - 1 PROVE s[x] # "\n"
    OBVIOUS
  <2>1. CASE x <= a + k
    <3>1. x - a \in 1..k /\ a + (x - a) = x
      BY <1>1, <2>1
    <3> QED
      BY <3>1 DEF Lies
  <2>2. CASE x > a + k
    <3>1. x \in a + k + 1..e - 1
      BY <1>1, <2>2
    <3>2. s[x] \in Margin
      BY <3>1 DEF Lies
    <3> QED
      BY <3>2 DEF Margin, Blanks, Space
  <2> QED
    BY <1>1, <2>1, <2>2
<1>3. e \in 1..n + 1 /\ \A j \in 1..k + 1 : a + j \in 1..e /\ a + j \in 1..n + 1
  BY <1>1
<1>4. TokensFrom(s)[a + k + 1] = TokensFrom(s)[e]
  <2> DEFINE b == a + k + 1
  <2>1. b \in 1..Len(s) + 1 /\ e \in b..Len(s) + 1 /\ Len(s) \in Nat
    BY <1>1
  <2>2. \A x \in b..e - 1 : s[x] \in Spaces
    BY SpacesAre DEF Lies
  <2> HIDE DEF b
  <2>3. TokensFrom(s)[b] = TokensFrom(s)[e]
    BY <2>1, <2>2, BlankRun
  <2> QED
    BY <2>3 DEF b
<1>5. ASSUME NEW j \in 1..k + 1 PROVE LineOf(s, a + j) = LineOf(s, e)
  <2> DEFINE b == a + j
  <2>1. b \in 1..Len(s) + 1 /\ e \in b..Len(s) + 1 /\ Len(s) \in Nat
    BY <1>1
  <2>2. \A x \in b..e - 1 : s[x] # "\n"
    BY <1>1, <1>2
  <2> HIDE DEF b
  <2>3. LineOf(s, b) = LineOf(s, e)
    BY <2>1, <2>2, SameLine
  <2> QED
    BY <2>3 DEF b
<1>6. ASSUME NEW j \in 1..k, t[j] \in Spaces PROVE TokensFrom(s)[a + j] = TokensFrom(s)[a + (j + 1)]
  <2> DEFINE b == a + j
             d == a + (j + 1)
  <2>1. b \in 1..Len(s) + 1 /\ d \in b..Len(s) + 1 /\ d - 1 = b /\ Len(s) \in Nat
    BY <1>1
  <2>2. s[b] \in Spaces
    BY <1>6 DEF Lies
  <2> HIDE DEF b, d
  <2>3. \A x \in b..d - 1 : s[x] \in Spaces
    BY <2>1, <2>2
  <2>4. TokensFrom(s)[b] = TokensFrom(s)[d]
    BY <2>1, <2>3, BlankRun
  <2> QED
    BY <2>4 DEF b, d
<1>7. ASSUME NEW j \in 1..k, t[j] = Semicolon PROVE TokensFrom(s)[a + j] = TokensFrom(s)[e]
  <2> DEFINE b == a + j
  <2>1. b \in 1..Len(s) + 1 /\ e \in b..Len(s) + 1 /\ Len(s) \in Nat /\ b <= Len(s) /\ e \in 1..Len(s) + 1
    BY <1>1
  <2>2. s[b] = Semicolon
    BY <1>7 DEF Lies
  <2>3. (\A x \in b..e - 1 : s[x] # "\n") /\ (e <= Len(s) => s[e] = "\n")
    BY <1>1, <1>2 DEF Lies
  <2> HIDE DEF b
  <2>4. LineStop(s, b) = e
    BY <2>1, <2>3, LineEndsAt
  <2>5. Blank(s, b) /\ PastBlank(s, b) = e
    BY <2>1, <2>2, <2>4, CharactersDiffer DEF Blank, PastBlank
  <2>6. SkipBlank(s, b) = SkipBlank(s, e)
    BY <2>1, <2>5, SkipBlankUnfolds
  <2>7. TokensFrom(s)[b] = TokensFrom(s)[e]
    BY <2>1, <2>6, SkipTells
  <2> QED
    BY <2>7 DEF b
<1> QED
  BY <1>3, <1>4, <1>5, <1>6, <1>7

(* The token that is recorded, of a text that is a line of something. *)
Noted(y, line) == [kind |-> y.kind, text |-> y.text, line |-> line]

(* The token at a place of a line is recorded, and reading goes on after it. *)
LEMMA LineToken ==
  ASSUME NEW C, NEW s \in Seq(C), NEW t \in Seq(C), NEW a, NEW k, NEW e, Lies(s, t, a, k, e),
         NEW i \in 1..k, t[i] \notin Spaces \cup {Semicolon}, TokenAt(t, i).next # 0
  PROVE  TokensFrom(s)[a + i] =
           Cat(<<Noted(TextToken(t, i), LineOf(s, e))>>, TokensFrom(s)[a + TokenAt(t, i).next])
<1> DEFINE b == a + i
           f == TokensFrom(s)
           x == TokenAt(s, b)
           y == TextToken(t, i)
           to == TokenAt(t, i).next
<1>1. Copied(x, y, a) /\ y.next = to /\ to \in i + 1..k + 1 /\ y.kind \in Bracket \cup Atoms
  BY TokenShift
<1>2. Len(s) \in Nat /\ k \in Nat /\ a \in Nat /\ b \in 1..Len(s) /\ b \in 1..Len(s) + 1
  BY DEF Lies
<1>3. s[b] = t[i]
  BY DEF Lies
<1>4. LineOf(s, b) = LineOf(s, e)
  <2>1. i \in 1..k + 1
    BY <1>2
  <2> QED
    BY <2>1, LineLeads
<1> HIDE DEF b, x, y, to, f
<1>5. ~Blank(s, b)
  BY <1>3 DEF Blank
<1>6. SkipBlank(s, b) = b
  BY <1>2, <1>5, SkipBlankUnfolds
<1>7. TokenAfter(s, b) = x /\ Recorded(s, b) = Noted(x, LineOf(s, b))
  BY <1>6 DEF TokenAfter, Recorded, Noted, x
<1>8. x.kind = y.kind /\ x.text = y.text /\ x.next = a + to
  BY <1>1 DEF Copied
<1>9. x.kind # "eof" /\ x.next # 0
  BY <1>1, <1>2, <1>8, KindsDiffer
<1>10. f[b] = TokensAt(s, f, b)
  BY <1>2, TokensUnfold DEF f
<1>11. f[b] = Cat(<<Recorded(s, b)>>, f[x.next])
  BY <1>7, <1>9, <1>10 DEF TokensAt
<1>12. Recorded(s, b) = Noted(y, LineOf(s, e))
  BY <1>4, <1>7, <1>8 DEF Noted
<1>13. f[b] = Cat(<<Noted(y, LineOf(s, e))>>, f[a + to])
  BY <1>8, <1>11, <1>12
<1> QED
  BY <1>13 DEF b, f, y, to

(* Two texts that agree on where a line leads agree from its beginning on. *)
LEMMA LineTells ==
  ASSUME NEW C, NEW s \in Seq(C), NEW u \in Seq(C), NEW t \in Seq(C),
         NEW k, NEW a, NEW e, Lies(s, t, a, k, e), NEW b, NEW g, Lies(u, t, b, k, g),
         LineOf(s, e) = LineOf(u, g), TokensFrom(s)[e] = TokensFrom(u)[g], ClosesFrom(t, 1)
  PROVE  TokensFrom(s)[a + 1] = TokensFrom(u)[b + 1]
<1> DEFINE f == TokensFrom(s)
           h == TokensFrom(u)
           Same(j) == ClosesFrom(t, j) => f[a + j] = h[b + j]
           G == {j \in 1..k + 1 : Same(j)}
<1>1. k \in Nat /\ a \in Nat /\ b \in Nat /\ k = Len(t)
  BY DEF Lies
<1>2. /\ f[a + k + 1] = f[e]
      /\ \A j \in 1..k : t[j] \in Spaces => f[a + j] = f[a + (j + 1)]
      /\ \A j \in 1..k : t[j] = Semicolon => f[a + j] = f[e]
  BY LineLeads
<1>3. /\ h[b + k + 1] = h[g]
      /\ \A j \in 1..k : t[j] \in Spaces => h[b + j] = h[b + (j + 1)]
      /\ \A j \in 1..k : t[j] = Semicolon => h[b + j] = h[g]
  BY LineLeads
<1>4. f[e] = h[g]
  OBVIOUS
<1>5. ASSUME NEW j \in 1..k, t[j] \in Spaces, Same(j + 1) PROVE Same(j)
  <2> SUFFICES ASSUME ClosesFrom(t, j) PROVE f[a + j] = h[b + j]
    OBVIOUS
  <2>1. ClosesFrom(t, j + 1)
    <3>1. j \in 1..Len(t) + 1 /\ j + 1 \in j..Len(t) + 1 /\ \A x \in j..(j + 1) - 1 : t[x] \in Spaces
      BY <1>1, <1>5
    <3> DEFINE m == j + 1
    <3> HIDE DEF m
    <3>2. TokensFrom(t)[j] = TokensFrom(t)[m]
      BY <1>1, <3>1, BlankRun DEF m
    <3>3. ClosesFrom(t, m)
      BY <3>2 DEF ClosesFrom
    <3> QED
      BY <3>3 DEF m
  <2> QED
    BY <1>2, <1>3, <1>5, <2>1
<1>6. ASSUME NEW j \in 1..k, t[j] \notin Spaces \cup {Semicolon}, \A m \in j + 1..k + 1 : Same(m)
      PROVE  Same(j)
  <2> SUFFICES ASSUME ClosesFrom(t, j) PROVE f[a + j] = h[b + j]
    OBVIOUS
  <2> DEFINE to == TokenAt(t, j).next
             y == TextToken(t, j)
  <2>1. to \in j + 1..k + 1 /\ ClosesFrom(t, to)
    BY <1>1, <1>6, ClosesOn
  <2>2. to # 0
    <3> HIDE DEF to
    <3> QED
      BY <1>1, <2>1
  <2>3. f[a + j] = Cat(<<Noted(y, LineOf(s, e))>>, f[a + to])
    BY <1>6, <2>2, LineToken
  <2>4. h[b + j] = Cat(<<Noted(y, LineOf(u, g))>>, h[b + to])
    BY <1>6, <2>2, LineToken
  <2>5. f[a + to] = h[b + to]
    <3> HIDE DEF to, f, h
    <3> QED
      BY <1>6, <2>1
  <2> HIDE DEF to, f, h, y
  <2> QED
    BY <2>3, <2>4, <2>5
<1> HIDE DEF f, h
<1>7. ASSUME NEW j \in 1..k + 1, \A m \in j + 1..k + 1 : m \in G PROVE j \in G
  <2>1. \A m \in j + 1..k + 1 : Same(m)
    BY <1>7
  <2>2. CASE j = k + 1
    <3>1. a + j = a + k + 1 /\ b + j = b + k + 1
      BY <1>1, <2>2
    <3> QED
      BY <1>2, <1>3, <1>4, <3>1
  <2>3. CASE j \in 1..k /\ t[j] \in Spaces
    <3>1. j + 1 \in j + 1..k + 1
      BY <1>1, <2>3
    <3>2. Same(j + 1)
      BY <2>1, <3>1
    <3> HIDE DEF Same
    <3> QED
      BY <1>5, <2>3, <3>2
  <2>4. CASE j \in 1..k /\ t[j] = Semicolon
    BY <1>2, <1>3, <1>4, <2>4
  <2>5. CASE j \in 1..k /\ t[j] \notin Spaces \cup {Semicolon}
    <3> HIDE DEF Same
    <3> QED
      BY <1>6, <2>1, <2>5
  <2> QED
    BY <1>1, <2>2, <2>3, <2>4, <2>5
<1> DEFINE top == k + 1
<1>8. top \in Nat /\ 1 \in 1..top /\ \A j \in 1..top : (\A m \in j + 1..top : m \in G) => j \in G
  BY <1>1, <1>7
<1> HIDE DEF top, G
<1>9. 1 \in G
  BY <1>8, Backwards
<1> QED
  BY <1>9 DEF G, f, h

(* A line ends at a newline or at the end of the text. *)
LEMMA LineStopIsBreak ==
  ASSUME NEW s, NEW n \in Nat, n = Len(s), NEW i \in 1..n + 1, LineStop(s, i) <= n
  PROVE  s[LineStop(s, i)] = "\n"
<1> DEFINE stops == {j \in i..n : ~(s[j] # "\n")}
           e == LineStop(s, i)
<1>1. e = EndOf(stops, n)
  BY DEF LineStop, EndOfRun, EndOf
<1>2. stops \in SUBSET (i..n) /\ e <= n
  OBVIOUS
<1> HIDE DEF stops, e
<1>3. e \in stops
  BY <1>1, <1>2, EndOfTells
<1> QED
  BY <1>3 DEF stops, e

EndsPlain(s) == Len(s) > 0 => s[Len(s)] # ":"

(* Every line of a text holds what it is trimmed to. *)
LEMMA LineHolds ==
  ASSUME NEW C, NEW s \in Seq(C), EndsPlain(s), NEW i \in 1..Len(s) + 1,
         NEW e, e = LineStop(s, i), NEW t, t = Trimmed(SubSeq(s, i, e - 1))
  PROVE  /\ t \in Seq(C) /\ e \in i..Len(s) + 1 /\ LineOf(s, i) = LineOf(s, e)
         /\ \E a : Lies(s, t, a, Len(t), e) /\ TokensFrom(s)[i] = TokensFrom(s)[a + 1]
<1> DEFINE n == Len(s)
           p == i - 1
           q == e - 1
           w == q - p
           line == SubSeq(s, p + 1, q)
<1>1. n \in Nat
  BY LenProperties
<1>2. e \in i..n + 1 /\ \A j \in i..e - 1 : s[j] # "\n"
  BY <1>1, LineStopTells
<1>3. e <= n => s[e] = "\n"
  BY <1>1, LineStopIsBreak
<1>4. LineOf(s, i) = LineOf(s, e)
  BY <1>1, <1>2, SameLine
<1>5. /\ p \in 0..Len(s) /\ q \in p..Len(s) /\ p + 1 = i /\ q + 1 = e /\ w \in Nat /\ p \in Nat
      /\ p + w = q /\ p + w + 1 = e
  BY <1>1, <1>2
<1>6. t = Trimmed(line)
  BY <1>5
<1> HIDE DEF p, q
<1>7. line \in Seq(C) /\ Len(line) = w /\ \A j \in 1..w : line[j] = s[p + j]
  BY <1>5, SubSeqIs
<1> HIDE DEF w, line
<1>8. \A j \in 1..w : p + j \in i..e - 1 /\ p + j \in 1..n
  BY <1>1, <1>2, <1>5
<1>9. t \in Seq(C)
  BY <1>6, <1>7, TrimmedIs
<1>10. ASSUME t = <<>>, \A j \in 1..Len(line) : line[j] \in Margin
       PROVE  \E a : Lies(s, t, a, Len(t), e) /\ TokensFrom(s)[i] = TokensFrom(s)[a + 1]
  <2>1. Len(t) = 0
    BY <1>10
  <2>2. \A j \in p + 0 + 1..e - 1 : s[j] \in Margin
    <3> SUFFICES ASSUME NEW j \in p + 0 + 1..e - 1 PROVE s[j] \in Margin
      OBVIOUS
    <3>1. j - p \in 1..w /\ p + (j - p) = j
      BY <1>2, <1>5
    <3>2. line[j - p] = s[j]
      BY <1>7, <3>1
    <3> QED
      BY <1>7, <1>10, <3>1, <3>2
  <2>3. e \in p + 0 + 1..Len(s) + 1
    BY <1>2, <1>5
  <2>4. Lies(s, t, p, 0, e)
    BY <1>1, <1>3, <1>5, <2>1, <2>2, <2>3 DEF Lies
  <2> QED
    BY <1>5, <2>1, <2>4
<1>11. ASSUME NEW m, NEW b, Shape(line, m, b)
       PROVE  \E a : Lies(s, t, a, Len(t), e) /\ TokensFrom(s)[i] = TokensFrom(s)[a + 1]
  <2> DEFINE k == b - m
             a == p + m
  <2>1. /\ t = Trimmed(line) /\ Len(t) = k /\ \A j \in 1..k : t[j] = line[m + j]
        /\ m \in Nat /\ b \in Nat /\ m < b /\ b <= w
    BY <1>6, <1>7, <1>11, ShapeTells
  <2>2. a \in Nat /\ k \in Nat /\ k >= 1 /\ a + k = p + b /\ a + k <= n /\ e \in a + k + 1..n + 1
    <3>1. k \in Nat /\ k >= 1 /\ a \in Nat /\ a + k = p + b
      BY <1>5, <2>1
    <3>2. p + b <= p + w /\ p + b \in Nat
      BY <1>5, <2>1
    <3>3. e \in Nat /\ e <= n + 1 /\ p + b + 1 <= e
      BY <1>1, <1>2, <1>5, <3>2
    <3> HIDE DEF a, k
    <3> QED
      BY <1>1, <3>1, <3>2, <3>3
  <2>3. \A j \in 1..k : s[a + j] = t[j] /\ t[j] # "\n"
    <3> SUFFICES ASSUME NEW j \in 1..k PROVE s[a + j] = t[j] /\ t[j] # "\n"
      OBVIOUS
    <3>1. m + j \in 1..w /\ p + (m + j) = a + j
      BY <1>5, <2>1
    <3>2. t[j] = line[m + j]
      BY <2>1
    <3>3. line[m + j] = s[p + (m + j)]
      BY <1>7, <3>1
    <3>4. s[p + (m + j)] # "\n"
      BY <1>2, <1>8, <3>1
    <3> QED
      BY <3>1, <3>2, <3>3, <3>4
  <2>4. \A j \in a + k + 1..e - 1 : s[j] \in Margin
    <3> SUFFICES ASSUME NEW j \in a + k + 1..e - 1 PROVE s[j] \in Margin
      OBVIOUS
    <3>1. j - p \in b + 1..Len(line) /\ j - p \in 1..w /\ p + (j - p) = j
      BY <1>2, <1>5, <1>7, <2>1, <2>2
    <3>2. line[j - p] = s[j]
      BY <1>7, <3>1
    <3>3. line[j - p] \in Margin
      BY <1>11, <3>1 DEF Shape
    <3> QED
      BY <3>2, <3>3
  <2>5. (k >= 1 /\ a + k = n) => t[k] # ":"
    <3> SUFFICES ASSUME a + k = n PROVE t[k] # ":"
      OBVIOUS
    <3>1. k \in 1..k /\ n > 0
      BY <2>2
    <3>2. t[k] = s[n]
      BY <2>3, <3>1
    <3> QED
      BY <3>1, <3>2 DEF EndsPlain
  <2>6. Lies(s, t, a, k, e)
    BY <1>1, <1>3, <2>1, <2>2, <2>3, <2>4, <2>5 DEF Lies
  <2>7. TokensFrom(s)[i] = TokensFrom(s)[a + 1]
    <3> DEFINE d == a + 1
    <3>1. d \in i..Len(s) + 1 /\ d - 1 = p + m
      <4>1. a \in Nat /\ a <= n
        BY <1>1, <2>2
      <4>2. p + m >= p /\ i = p + 1 /\ p \in Nat
        BY <1>5, <2>1
      <4> QED
        BY <1>1, <4>1, <4>2
    <3>2. \A x \in i..d - 1 : s[x] \in Spaces
      <4> SUFFICES ASSUME NEW x \in i..d - 1 PROVE s[x] \in Spaces
        OBVIOUS
      <4>1. x - p \in 1..m /\ x - p \in 1..w /\ p + (x - p) = x
        <5>1. i = p + 1 /\ p \in Nat /\ m \in Nat /\ m <= w /\ w \in Nat
          BY <1>5, <2>1
        <5>2. x \in i..p + m
          BY <3>1
        <5> HIDE DEF d
        <5> QED
          BY <5>1, <5>2
      <4>2. line[x - p] = s[x]
        BY <1>7, <4>1
      <4>3. line[x - p] \in Blanks
        BY <1>11, <4>1 DEF Shape
      <4> QED
        BY <4>2, <4>3, MarginIs, SpacesAre
    <3> HIDE DEF d
    <3>3. TokensFrom(s)[i] = TokensFrom(s)[d]
      BY <1>1, <3>1, <3>2, BlankRun
    <3> QED
      BY <3>3 DEF d
  <2> HIDE DEF a, k
  <2> QED
    BY <2>1, <2>6, <2>7
<1>12. Len(line) \in Nat
  BY <1>5, <1>7
<1>13. \E a : Lies(s, t, a, Len(t), e) /\ TokensFrom(s)[i] = TokensFrom(s)[a + 1]
  BY <1>6, <1>10, <1>11, <1>12, HasShape
<1> QED
  BY <1>2, <1>4, <1>9, <1>13

(* The lines from place i on: the line at i, then those after it. *)
Splits(s, i) ==
  LET stop == LineStop(s, i)
      from == LinesFrom(s)
  IN  /\ Len(from[i]) \in Nat \ {0}
      /\ from[i][1] = SubSeq(s, i, stop - 1)
      /\ stop > Len(s) => Len(from[i]) = 1
      /\ stop <= Len(s) =>
           /\ stop + 1 \in i + 1..Len(s) + 1
           /\ Len(from[i]) = Len(from[stop + 1]) + 1
           /\ \A x \in 1..Len(from[stop + 1]) : from[i][x + 1] = from[stop + 1][x]

(* The lines of a text are that line and the lines that follow it. *)
LEMMA LinesSplit ==
  ASSUME NEW C, NEW s \in Seq(C), NEW i \in 1..Len(s) + 1
  PROVE  Splits(s, i)
<1> DEFINE n == Len(s)
           stop == LineStop(s, i)
           from == LinesFrom(s)
           line == SubSeq(s, i, stop - 1)
           S == Seq(C)
           rest == IF stop > n THEN <<>> ELSE from[stop + 1]
           all == from[i]
<1>1. n \in Nat
  BY LenProperties
<1>2. stop \in i..n + 1
  BY <1>1, LineStopTells
<1>3. line \in S
  <2>1. i - 1 \in 0..n /\ stop - 1 \in i - 1..n /\ (i - 1) + 1 = i
    BY <1>1, <1>2
  <2> QED
    BY <2>1, SubSeqIs
<1>4. from \in [1..n + 1 -> Seq(S)] /\ all = Cat(<<line>>, rest)
  BY LinesUnfold DEF LinesAfter
<1> HIDE DEF stop, from, S, line
<1>5. rest \in Seq(S)
  <2>1. CASE stop > n
    BY <2>1, EmptySeq
  <2>2. CASE ~(stop > n)
    <3>1. stop + 1 \in 1..n + 1
      BY <1>1, <1>2, <2>2
    <3> QED
      BY <1>4, <2>2, <3>1
  <2> QED
    BY <2>1, <2>2
<1> HIDE DEF rest, all
<1>6. Consed(S, line, rest, all)
  BY <1>3, <1>4, <1>5, ConsIsConsed
<1>7. Len(rest) \in Nat
  BY <1>5, LenProperties
<1>8. /\ Len(all) = Len(rest) + 1 /\ all[1] = line
      /\ \A x \in 1..Len(rest) : all[x + 1] = rest[x]
  BY <1>6 DEF Consed
<1>9. stop > n => Len(all) = 1
  BY <1>8 DEF rest
<1>10. stop <= n => stop + 1 \in i + 1..n + 1 /\ rest = from[stop + 1]
  BY <1>1, <1>2 DEF rest
<1>11. Len(all) \in Nat \ {0}
  BY <1>7, <1>8
<1> QED
  BY <1>8, <1>9, <1>10, <1>11 DEF Splits, stop, from, line, all

(* Two lists of lines with the same texts, all of whose strings close on their line; the
   second may have an empty line more. *)
Alike(l, m) ==
  /\ Len(m) = Len(l) \/ (Len(m) = Len(l) + 1 /\ m[Len(m)] = <<>>)
  /\ \A k \in 1..Len(l) : Trimmed(l[k]) = Trimmed(m[k]) /\ ClosesFrom(Trimmed(l[k]), 1)

(* Two texts whose lines have the same texts have the same tokens. *)
LEMMA LinesTell ==
  ASSUME NEW C, NEW s \in Seq(C), NEW u \in Seq(C), EndsPlain(s), EndsPlain(u),
         Alike(LinesOf(s), LinesOf(u))
  PROVE  Tokens(s) = Tokens(u)
<1> DEFINE N == Len(s)
           M == Len(u)
           f == TokensFrom(s)
           h == TokensFrom(u)
           l == LinesFrom(s)
           m == LinesFrom(u)
           Same(i, j) == (Alike(l[i], m[j]) /\ LineOf(s, i) = LineOf(u, j)) => f[i] = h[j]
           G == {i \in 1..N + 1 : \A j \in 1..M + 1 : Same(i, j)}
<1>1. N \in Nat /\ M \in Nat
  BY LenProperties
<1>2. ASSUME NEW i \in 1..N + 1, NEW j \in 1..M + 1, Alike(l[i], m[j]), LineOf(s, i) = LineOf(u, j),
             \A x \in i + 1..N + 1 : x \in G
      PROVE  f[i] = h[j]
  <2> DEFINE e == LineStop(s, i)
             g == LineStop(u, j)
             t == Trimmed(SubSeq(s, i, e - 1))
  <2>1. Splits(s, i) /\ Splits(u, j)
    BY LinesSplit
  <2>2. /\ Len(l[i]) \in Nat \ {0} /\ l[i][1] = SubSeq(s, i, e - 1)
        /\ e > N => Len(l[i]) = 1
        /\ e <= N =>
             /\ e + 1 \in i + 1..N + 1
             /\ Len(l[i]) = Len(l[e + 1]) + 1
             /\ \A x \in 1..Len(l[e + 1]) : l[i][x + 1] = l[e + 1][x]
    BY <2>1 DEF Splits
  <2>3. /\ Len(m[j]) \in Nat \ {0} /\ m[j][1] = SubSeq(u, j, g - 1)
        /\ g > M => Len(m[j]) = 1
        /\ g <= M =>
             /\ g + 1 \in j + 1..M + 1
             /\ Len(m[j]) = Len(m[g + 1]) + 1
             /\ \A x \in 1..Len(m[g + 1]) : m[j][x + 1] = m[g + 1][x]
    BY <2>1 DEF Splits
  <2>4. t = Trimmed(SubSeq(u, j, g - 1)) /\ ClosesFrom(t, 1)
    <3>1. 1 \in 1..Len(l[i])
      BY <2>2
    <3> QED
      BY <1>2, <2>2, <2>3, <3>1 DEF Alike
  <2>5. /\ t \in Seq(C) /\ e \in i..N + 1 /\ LineOf(s, i) = LineOf(s, e)
        /\ \E a : Lies(s, t, a, Len(t), e) /\ f[i] = f[a + 1]
    <3>1. e = LineStop(s, i) /\ t = Trimmed(SubSeq(s, i, e - 1))
      OBVIOUS
    <3> HIDE DEF e, t
    <3> QED
      BY <3>1, LineHolds
  <2>6. /\ g \in j..M + 1 /\ LineOf(u, j) = LineOf(u, g)
        /\ \E b : Lies(u, t, b, Len(t), g) /\ h[j] = h[b + 1]
    BY <2>4, LineHolds
  <2> HIDE DEF e, g, t, Same
  <2>7. f[e] = h[g]
    <3>1. CASE e <= N /\ g <= M
      <4> DEFINE x == e + 1
                 y == g + 1
      <4>1. x \in i + 1..N + 1 /\ y \in 1..M + 1 /\ x \in 1..N + 1 /\ e \in 1..N /\ g \in 1..M
        BY <1>1, <2>2, <2>3, <2>5, <2>6, <3>1
      <4>2. s[e] = "\n" /\ u[g] = "\n"
        BY <1>1, <3>1, LineStopIsBreak DEF e, g
      <4>3. f[e] = f[x]
        <5>1. e \in 1..Len(s) + 1 /\ x \in e..Len(s) + 1 /\ \A z \in e..x - 1 : s[z] \in Spaces
          BY <1>1, <4>1, <4>2, SpacesAre
        <5> HIDE DEF x
        <5> QED
          BY <1>1, <5>1, BlankRun
      <4>4. h[g] = h[y]
        <5>1. g \in 1..Len(u) + 1 /\ y \in g..Len(u) + 1 /\ \A z \in g..y - 1 : u[z] \in Spaces
          BY <1>1, <4>1, <4>2, SpacesAre
        <5> HIDE DEF y
        <5> QED
          BY <1>1, <5>1, BlankRun
      <4>5. LineOf(s, x) = LineOf(s, e) + 1 /\ LineOf(u, y) = LineOf(u, g) + 1
        BY <1>1, <4>1, <4>2, NextLine
      <4>6. LineOf(s, x) = LineOf(u, y)
        BY <1>2, <2>5, <2>6, <4>5
      <4>7. Alike(l[x], m[y])
        <5> DEFINE p == l[i]
                   q == m[j]
                   p2 == l[x]
                   q2 == m[y]
        <5>1. Len(p) = Len(p2) + 1 /\ \A z \in 1..Len(p2) : p[z + 1] = p2[z]
          BY <2>2, <3>1
        <5>2. Len(q) = Len(q2) + 1 /\ \A z \in 1..Len(q2) : q[z + 1] = q2[z]
          BY <2>3, <3>1
        <5>3. Alike(p, q)
          BY <1>2
        <5>4. Len(p2) \in Nat /\ Len(q2) \in Nat \ {0}
          <6>1. Splits(s, x) /\ Splits(u, y)
            BY <4>1, LinesSplit
          <6> QED
            BY <6>1 DEF Splits
        <5> HIDE DEF p, q, p2, q2
        <5>5. Len(q2) = Len(p2) \/ (Len(q2) = Len(p2) + 1 /\ q2[Len(q2)] = <<>>)
          <6>1. Len(q) = Len(p) \/ (Len(q) = Len(p) + 1 /\ q[Len(q)] = <<>>)
            BY <5>3 DEF Alike
          <6>2. Len(q2) \in 1..Len(q2)
            BY <5>4
          <6>3. q[Len(q)] = q2[Len(q2)]
            BY <5>2, <6>2
          <6> QED
            BY <5>1, <5>2, <5>4, <6>1, <6>3
        <5>6. ASSUME NEW z \in 1..Len(p2)
              PROVE  Trimmed(p2[z]) = Trimmed(q2[z]) /\ ClosesFrom(Trimmed(p2[z]), 1)
          <6>1. z + 1 \in 1..Len(p) /\ z \in 1..Len(q2)
            BY <5>1, <5>4, <5>5
          <6>2. Trimmed(p[z + 1]) = Trimmed(q[z + 1]) /\ ClosesFrom(Trimmed(p[z + 1]), 1)
            BY <5>3, <6>1 DEF Alike
          <6>3. p[z + 1] = p2[z] /\ q[z + 1] = q2[z]
            BY <5>1, <5>2, <6>1
          <6> QED
            BY <6>2, <6>3
        <5>7. Alike(p2, q2)
          BY <5>5, <5>6 DEF Alike
        <5> QED
          BY <5>7 DEF p2, q2
      <4>8. Same(x, y)
        <5>1. x \in G
          BY <1>2, <4>1
        <5> QED
          BY <4>1, <5>1
      <4>9. f[x] = h[y]
        BY <4>6, <4>7, <4>8 DEF Same
      <4> QED
        BY <4>3, <4>4, <4>9
    <3>2. CASE e > N /\ g > M
      <4>1. e = N + 1 /\ g = M + 1
        BY <1>1, <2>5, <2>6, <3>2
      <4>2. f[N + 1] = <<>> /\ h[M + 1] = <<>>
        BY <1>1, NothingAfter
      <4> QED
        BY <4>1, <4>2
    <3>3. CASE e > N /\ g <= M
      <4> DEFINE y == g + 1
                 z == LineStop(u, y)
      <4>1. e = N + 1 /\ y \in 1..M + 1 /\ g \in 1..M /\ y \in j + 1..M + 1
        BY <1>1, <2>3, <2>5, <2>6, <3>3
      <4>2. Len(m[y]) \in Nat \ {0} /\ m[y][1] = SubSeq(u, y, z - 1) /\ (z <= M => Len(m[y]) > 1)
        <5>1. Splits(u, y)
          BY <4>1, LinesSplit
        <5>2. z <= M => z + 1 \in 1..M + 1
          <6>1. z <= M => z + 1 \in y + 1..M + 1
            BY <5>1 DEF Splits
          <6> HIDE DEF z
          <6> QED
            BY <1>1, <4>1, <6>1
        <5>3. z <= M => Splits(u, z + 1)
          BY <5>2, LinesSplit
        <5>4. Len(m[y]) \in Nat \ {0} /\ m[y][1] = SubSeq(u, y, z - 1)
              /\ (z <= M => Len(m[y]) = Len(m[z + 1]) + 1)
          BY <5>1 DEF Splits
        <5>5. z <= M => Len(m[z + 1]) \in Nat \ {0}
          BY <5>3 DEF Splits
        <5> HIDE DEF z
        <5> QED
          BY <5>4, <5>5
      <4>3. Len(l[i]) = 1 /\ Len(m[j]) = Len(m[y]) + 1
        BY <2>2, <2>3, <3>3
      <4>4. Len(m[j]) = 2 /\ m[j][2] = <<>> /\ Len(m[y]) = 1
        <5> HIDE DEF y
        <5>1. Len(m[j]) = Len(l[i]) + 1 /\ m[j][Len(m[j])] = <<>>
          BY <1>2, <4>2, <4>3 DEF Alike
        <5>2. Len(m[j]) = 2
          <6> DEFINE p == l[i]
                     q == m[j]
          <6>1. Len(p) = 1 /\ Len(q) = Len(p) + 1
            BY <4>3, <5>1
          <6> HIDE DEF p, q
          <6>2. Len(q) = 2
            BY <6>1
          <6> QED
            BY <6>2 DEF q
        <5>3. Len(m[y]) = 1
          <6> DEFINE c == Len(m[y])
          <6>1. c \in Nat /\ 2 = c + 1
            BY <4>2, <4>3, <5>2
          <6> HIDE DEF c
          <6>2. c = 1
            BY <6>1
          <6> QED
            BY <6>2 DEF c
        <5> QED
          BY <5>1, <5>2, <5>3
      <4>5. m[y][1] = <<>>
        <5>1. 1 \in 1..Len(m[g + 1]) /\ 1 + 1 = 2
          BY <4>4
        <5>2. m[j][1 + 1] = m[g + 1][1]
          BY <2>3, <3>3, <5>1
        <5> QED
          BY <4>4, <5>1, <5>2
      <4>6. z \in y..M + 1
        BY <1>1, <4>1, LineStopTells
      <4> HIDE DEF z
      <4>7. z = M + 1
        <5>1. ~(z <= M)
          BY <4>2, <4>4
        <5>2. y \in 1..M + 1
          BY <4>1
        <5> HIDE DEF y
        <5> QED
          BY <1>1, <4>6, <5>1, <5>2
      <4>8. g = M
        <5> DEFINE p == z - 1
        <5>1. SubSeq(u, g + 1, p) = <<>>
          BY <4>2, <4>5
        <5>2. g \in 0..Len(u) /\ p \in g..Len(u) /\ p = M
          BY <1>1, <4>1, <4>7
        <5> HIDE DEF p
        <5>3. Len(SubSeq(u, g + 1, p)) = p - g
          BY <5>2, SubSeqIs
        <5>4. p - g = 0
          BY <5>1, <5>3, EmptySeq
        <5> QED
          BY <1>1, <4>1, <5>2, <5>4
      <4>9. h[g] = h[M + 1]
        <5> DEFINE w == M + 1
        <5>1. u[g] = "\n"
          BY <1>1, <3>3, LineStopIsBreak DEF g
        <5>2. g \in 1..Len(u) + 1 /\ w \in g..Len(u) + 1 /\ \A x \in g..w - 1 : u[x] \in Spaces
          BY <1>1, <4>1, <4>8, <5>1, SpacesAre
        <5> HIDE DEF w
        <5>3. h[g] = h[w]
          BY <1>1, <5>2, BlankRun
        <5> QED
          BY <5>3 DEF w
      <4>10. f[N + 1] = <<>> /\ h[M + 1] = <<>>
        BY <1>1, NothingAfter
      <4> QED
        BY <4>1, <4>9, <4>10
    <3>4. CASE e <= N /\ g > M
      <4>1. Len(l[e + 1]) \in Nat \ {0}
        <5>1. e + 1 \in 1..N + 1
          BY <1>1, <2>2, <3>4
        <5>2. Splits(s, e + 1)
          BY <5>1, LinesSplit
        <5> QED
          BY <5>2 DEF Splits
      <4>2. Len(l[i]) = Len(l[e + 1]) + 1 /\ Len(m[j]) = 1
        BY <2>2, <2>3, <3>4
      <4>3. Len(m[j]) = Len(l[i]) \/ Len(m[j]) = Len(l[i]) + 1
        BY <1>2 DEF Alike
      <4>4. FALSE
        BY <4>1, <4>2, <4>3
      <4> QED
        BY <4>4
    <3>5. e \in Nat /\ g \in Nat
      BY <1>1, <2>5, <2>6
    <3> QED
      BY <1>1, <3>1, <3>2, <3>3, <3>4, <3>5
  <2>8. PICK a : Lies(s, t, a, Len(t), e) /\ f[i] = f[a + 1]
    BY <2>5
  <2>9. PICK b : Lies(u, t, b, Len(t), g) /\ h[j] = h[b + 1]
    BY <2>6
  <2>10. LineOf(s, e) = LineOf(u, g)
    BY <1>2, <2>5, <2>6
  <2>11. f[a + 1] = h[b + 1]
    BY <2>4, <2>5, <2>7, <2>8, <2>9, <2>10, LineTells
  <2> QED
    BY <2>8, <2>9, <2>11
<1> HIDE DEF G
<1>3. ASSUME NEW i \in 1..N + 1, \A x \in i + 1..N + 1 : x \in G PROVE i \in G
  <2>1. \A j \in 1..M + 1 : Same(i, j)
    BY <1>2, <1>3
  <2> QED
    BY <2>1 DEF G
<1> DEFINE top == N + 1
<1>4. top \in Nat /\ 1 \in 1..top /\ \A i \in 1..top : (\A x \in i + 1..top : x \in G) => i \in G
  BY <1>1, <1>3
<1> HIDE DEF top
<1>5. 1 \in G
  BY <1>4, Backwards
<1>6. Same(1, 1)
  <2>1. 1 \in 1..M + 1
    BY <1>1
  <2> QED
    BY <1>5, <2>1 DEF G
<1>7. LinesOf(s) = l[1] /\ LinesOf(u) = m[1]
  BY LinesUnfold
<1>8. LineOf(s, 1) = LineOf(u, 1)
  <2>1. \A x \in 1..Len(s) : ~(x < 1)
    BY <1>1
  <2>2. \A x \in 1..Len(u) : ~(x < 1)
    BY <1>1
  <2>3. {x \in 1..Len(s) : x < 1 /\ s[x] = "\n"} = {} /\ {x \in 1..Len(u) : x < 1 /\ u[x] = "\n"} = {}
    BY <2>1, <2>2
  <2> QED
    BY <2>3 DEF LineOf
<1>9. Tokens(s) = f[1] /\ Tokens(u) = h[1]
  BY <1>1, TokensUnfold
<1> HIDE DEF f, h, l, m
<1> QED
  BY <1>6, <1>7, <1>8, <1>9

(* Every string of s closes on its line. *)
StringsClose(s) ==
  \A k \in 1..Len(LinesOf(s)) :
    LET ts == Tokens(Trimmed(LinesOf(s)[k]))
    IN  \A i \in 1..Len(ts) : ts[i].kind # "unterminated"

(* Formatting keeps the tokens of a text, when nothing is cut. *)
LEMMA FormatKeepsTokens ==
  ASSUME NEW C, Space \in C, "\n" \in C, NEW s \in Seq(C), Uncut(s), StringsClose(s), EndsPlain(s)
  PROVE  Tokens(Format(s)) = Tokens(s)
<1> DEFINE f == Format(s)
           n == RowCount(s)
           N == Len(LinesOf(s))
           o == Outs(s)
           t == RowsOf(s)
           L == LinesOf(s)
           m == LinesOf(f)
<1>1. /\ n \in Nat /\ n <= N /\ N \in Nat
      /\ Rows(C, n, o, t)
      /\ f = o[n] /\ f \in Seq(C)
      /\ \A k \in 1..n : L[k] \in Seq(Plain(C)) /\ Passes(s)[k - 1].depth \in Nat
  BY FormatWrites
<1>2. L \in Seq(Seq(Plain(C))) /\ N \in Nat \ {0}
  BY LinesPlain
<1>3. Listed(n, t, 0, m)
  <2> HIDE DEF n, o, t
  <2> QED
    BY <1>1, LinesOfRows
<1>4. n = IF Trimmed(L[N]) = <<>> THEN N - 1 ELSE N
  BY DEF RowCount
<1>5. ASSUME NEW k \in 1..n PROVE t[k] = RowOf(Passes(s)[k - 1].depth, L[k])
  BY DEF RowsOf, RowAt
<1> HIDE DEF f, n, N, o, t, L, m
<1>6. Len(m) = n + 1 /\ m[n + 1] = <<>> /\ \A j \in 1..n : m[j] = t[j]
  <2>1. n - 0 = n /\ \A j \in 1..n : 0 + j = j
    BY <1>1
  <2> QED
    BY <1>3, <2>1 DEF Listed
<1>7. ASSUME NEW k \in 1..n PROVE Trimmed(m[k]) = Trimmed(L[k])
  <2> DEFINE d == Passes(s)[k - 1].depth
             line == L[k]
  <2>1. d \in Nat /\ line \in Seq(Plain(C)) /\ m[k] = RowOf(d, line)
    BY <1>1, <1>5, <1>6
  <2> HIDE DEF d, line
  <2>2. Again(C, d, line, RowOf(d, line))
    BY <2>1, RowAgain
  <2> QED
    BY <2>1, <2>2 DEF Again, line
<1>8. ASSUME NEW k \in 1..N PROVE Trimmed(L[k]) = Trimmed(m[k])
  <2>1. CASE k \in 1..n
    BY <1>7, <2>1
  <2>2. CASE k \notin 1..n
    <3>1. n = N - 1 /\ k = N /\ Trimmed(L[N]) = <<>>
      BY <1>1, <1>2, <1>4, <2>2
    <3>2. k = n + 1
      BY <1>1, <1>2, <3>1
    <3> QED
      BY <1>6, <3>1, <3>2, NothingTrimmed
  <2> QED
    BY <2>1, <2>2
<1>9. ASSUME NEW k \in 1..N PROVE ClosesFrom(Trimmed(L[k]), 1)
  <2> DEFINE x == Trimmed(L[k])
  <2>1. \A i \in 1..Len(Tokens(x)) : Tokens(x)[i].kind # "unterminated"
    BY DEF StringsClose, L, N
  <2>2. L[k] \in Seq(Plain(C))
    <3> DEFINE S == Seq(Plain(C))
    <3>1. L \in Seq(S) /\ k \in 1..Len(L)
      BY <1>2 DEF N, L
    <3> HIDE DEF S
    <3>2. L[k] \in S
      BY <3>1, ElementOfSeq
    <3> QED
      BY <3>2 DEF S
  <2>3. Len(x) \in Nat
    BY <2>2, TrimmedIs, LenProperties
  <2> HIDE DEF x
  <2>4. Tokens(x) = TokensFrom(x)[1]
    BY <2>3, TokensUnfold
  <2>5. ClosesFrom(x, 1)
    BY <2>1, <2>4 DEF ClosesFrom
  <2> QED
    BY <2>5 DEF x
<1>10. Len(m) = N \/ (Len(m) = N + 1 /\ m[Len(m)] = <<>>)
  BY <1>1, <1>2, <1>4, <1>6
<1>11. Alike(L, m)
  BY <1>8, <1>9, <1>10 DEF Alike, N, L
<1>12. EndsPlain(f)
  <2>1. CASE n = 0
    <3>1. f = <<>>
      BY <1>1, <2>1 DEF Rows
    <3> QED
      BY <3>1 DEF EndsPlain
  <2>2. CASE n # 0
    <3>1. n \in 1..n
      BY <1>1, <2>2
    <3>2. Grown(o[n - 1], t[n], o[n])
      BY <1>1, <3>1 DEF Rows
    <3>3. f[Len(f)] = "\n"
      BY <1>1, <3>2 DEF Grown
    <3> QED
      BY <3>3 DEF EndsPlain
  <2> QED
    BY <2>1, <2>2
<1>13. Tokens(s) = Tokens(f)
  BY <1>1, <1>11, <1>12, LinesTell DEF L, m
<1> QED
  BY <1>13 DEF f

(* The compiler cannot tell whether a source was formatted: if no line of any source   *)
(* outgrows the formatter's buffer, every string closes on its line and no source ends *)
(* in a colon, then formatting, once or again, leaves the same tokens with the same    *)
(* texts on the same lines.                                                            *)
THEOREM FormattingKeepsTokens ==
  ASSUME \A s \in Sources : Uncut(s) /\ StringsClose(s) /\ EndsPlain(s)
  PROVE  ReadSpec => KeepsTokens
<1> DEFINE Inv == /\ src \in Seq(Alphabet)
                  /\ \/ Format(src) = src
                     \/ Uncut(src) /\ StringsClose(src) /\ EndsPlain(src)
<1>1. Space \in Alphabet /\ "\n" \in Alphabet
  BY SourcesAssumption
<1>2. ReadInit => Inv
  BY SourcesAssumption DEF ReadInit
<1>3. ASSUME [ReadNext]_readVars PROVE src' = src \/ src' = Format(src)
  BY <1>3 DEF ReadNext, Reformat, OpenForm, CloseForm, WrongCloser, Atom, LexError, Finish, readVars
<1>4. Inv /\ [ReadNext]_readVars => Inv'
  <2> SUFFICES ASSUME Inv, [ReadNext]_readVars PROVE Inv'
    OBVIOUS
  <2>1. CASE src' = src
    BY <2>1
  <2>2. CASE src' = Format(src) /\ src' # src
    <3>1. Uncut(src) /\ src \in Seq(Alphabet)
      BY <2>2
    <3>2. Format(src) \in Seq(Alphabet) /\ Format(Format(src)) = Format(src)
      BY <1>1, <3>1, FormatWrites, FormatAgain
    <3>3. src' \in Seq(Alphabet) /\ Format(src') = src'
      BY <2>2, <3>2
    <3> QED
      BY <3>3
  <2> QED
    BY <1>3, <2>1, <2>2
<1>5. Inv /\ [ReadNext]_readVars => [src' # src => Tokens(src') = Tokens(src)]_readVars
  <2> SUFFICES ASSUME Inv, [ReadNext]_readVars, src' # src PROVE Tokens(src') = Tokens(src)
    OBVIOUS
  <2>1. src' = Format(src)
    BY <1>3
  <2>2. Uncut(src) /\ StringsClose(src) /\ EndsPlain(src) /\ src \in Seq(Alphabet)
    BY <2>1
  <2> QED
    BY <1>1, <2>1, <2>2, FormatKeepsTokens
<1> QED
  BY <1>2, <1>4, <1>5, PTL DEF ReadSpec, KeepsTokens

-----------------------------------------------------------------------------
(* Nesting.                                                                *)

(* How many forms the first m tokens leave open, counting brackets only. *)
Counted(tk, m, kinds) == {j \in 1..m : tk[j].kind \in kinds}
Height(tk, m) == Cardinality(Counted(tk, m, Openings)) - Cardinality(Counted(tk, m, Closings))

(* One token more is counted or not. *)
LEMMA CountedOnce ==
  ASSUME NEW tk, NEW m \in Nat, NEW kinds
  PROVE  /\ Cardinality(Counted(tk, m, kinds)) \in Nat
         /\ Cardinality(Counted(tk, m + 1, kinds)) =
              IF tk[m + 1].kind \in kinds THEN Cardinality(Counted(tk, m, kinds)) + 1
              ELSE Cardinality(Counted(tk, m, kinds))
<1> DEFINE A == Counted(tk, m, kinds)
           x == m + 1
<1>1. IsFiniteSet(A) /\ Cardinality(A) \in Nat
  <2>1. A \in SUBSET (1..m)
    BY DEF Counted
  <2>2. IsFiniteSet(1..m)
    BY FS_Interval
  <2> HIDE DEF A
  <2>3. IsFiniteSet(A)
    BY <2>1, <2>2, FS_Subset
  <2> QED
    BY <2>3, FS_CardinalityType
<1>2. x \notin A
  BY DEF Counted
<1>3. Counted(tk, x, kinds) = IF tk[x].kind \in kinds THEN A \cup {x} ELSE A
  BY DEF Counted
<1> HIDE DEF A, x
<1>4. Cardinality(A \cup {x}) = Cardinality(A) + 1
  BY <1>1, <1>2, FS_AddElement
<1>5. Cardinality(Counted(tk, x, kinds)) = IF tk[x].kind \in kinds THEN Cardinality(A) + 1 ELSE Cardinality(A)
  BY <1>3, <1>4
<1> QED
  BY <1>1, <1>5 DEF A, x

LEMMA HeightIs ==
  ASSUME NEW tk
  PROVE  /\ Height(tk, 0) = 0
         /\ \A m \in Nat :
              /\ Height(tk, m) \in Int
              /\ tk[m + 1].kind \in Openings => Height(tk, m + 1) = Height(tk, m) + 1
              /\ tk[m + 1].kind \in Closings => Height(tk, m + 1) = Height(tk, m) - 1
              /\ tk[m + 1].kind \notin Bracket => Height(tk, m + 1) = Height(tk, m)
<1>1. Height(tk, 0) = 0
  <2>1. Counted(tk, 0, Openings) = {} /\ Counted(tk, 0, Closings) = {}
    BY DEF Counted
  <2>2. Cardinality({}) = 0
    BY FS_EmptySet
  <2> QED
    BY <2>1, <2>2 DEF Height
<1>2. ASSUME NEW m \in Nat
      PROVE  /\ Height(tk, m) \in Int
             /\ tk[m + 1].kind \in Openings => Height(tk, m + 1) = Height(tk, m) + 1
             /\ tk[m + 1].kind \in Closings => Height(tk, m + 1) = Height(tk, m) - 1
             /\ tk[m + 1].kind \notin Bracket => Height(tk, m + 1) = Height(tk, m)
  <2> DEFINE u == Cardinality(Counted(tk, m, Openings))
             v == Cardinality(Counted(tk, m, Closings))
             u2 == Cardinality(Counted(tk, m + 1, Openings))
             v2 == Cardinality(Counted(tk, m + 1, Closings))
             kind == tk[m + 1].kind
  <2>1. u \in Nat /\ u2 = IF kind \in Openings THEN u + 1 ELSE u
    BY CountedOnce
  <2>2. v \in Nat /\ v2 = IF kind \in Closings THEN v + 1 ELSE v
    BY CountedOnce
  <2>3. Height(tk, m) = u - v /\ Height(tk, m + 1) = u2 - v2
    BY DEF Height
  <2>4. /\ ~(kind \in Openings /\ kind \in Closings)
        /\ kind \notin Bracket => (kind \notin Openings /\ kind \notin Closings)
    BY BracketsDiffer DEF Bracket
  <2> HIDE DEF u, v, u2, v2, kind
  <2>5. CASE kind \in Openings
    BY <2>1, <2>2, <2>3, <2>4, <2>5 DEF kind
  <2>6. CASE kind \in Closings
    BY <2>1, <2>2, <2>3, <2>4, <2>6 DEF kind
  <2>7. CASE kind \notin Openings /\ kind \notin Closings
    BY <2>1, <2>2, <2>3, <2>4, <2>7 DEF kind
  <2> QED
    BY <2>5, <2>6, <2>7
<1> QED
  BY <1>1, <1>2

(* A suffix that is not empty is its first element and the suffix after it. *)
LEMMA SuffixSplits ==
  ASSUME NEW S, NEW s \in Seq(S), NEW m \in Nat, m < Len(s)
  PROVE  /\ s[m + 1] \in S /\ Suffix(s, m + 1) \in Seq(S)
         /\ Suffix(s, m) = Cat(<<s[m + 1]>>, Suffix(s, m + 1))
<1> DEFINE i == m + 1
           x == s[i]
           r == Suffix(s, i)
           all == Suffix(s, m)
           n == Len(s)
<1>1. n \in Nat /\ i \in 0..n /\ i \in 1..n /\ m \in 0..n
  BY LenProperties
<1>2. x \in S
  BY <1>1, ElementOfSeq
<1>3. r \in Seq(S) /\ Len(r) = n - i /\ \A j \in 1..n - i : r[j] = s[i + j]
  <2> HIDE DEF i
  <2> QED
    BY <1>1, SuffixIs
<1>4. all \in Seq(S) /\ Len(all) = n - m /\ \A j \in 1..n - m : all[j] = s[m + j]
  BY <1>1, SuffixIs
<1>5. all[1] = x
  <2>1. 1 \in 1..n - m
    BY <1>1
  <2> QED
    BY <1>4, <2>1
<1>6. Len(r) + 1 = Len(all)
  BY <1>1, <1>3, <1>4
<1>7. ASSUME NEW j \in 1..Len(r) PROVE all[j + 1] = r[j]
  <2>1. j + 1 \in 1..n - m /\ m + (j + 1) = i + j /\ j \in 1..n - i
    BY <1>1, <1>3
  <2> QED
    BY <1>3, <1>4, <2>1
<1> HIDE DEF i, x, r, all, n
<1> DEFINE c == Cat(<<x>>, r)
<1>8. c \in Seq(S) /\ Len(c) = Len(r) + 1 /\ c[1] = x /\ \A j \in 1..Len(r) : c[j + 1] = r[j]
  <2>1. x \in S /\ r \in Seq(S)
    BY <1>2, <1>3
  <2>2. Consed(S, x, r, c)
    BY <2>1, ConsIsConsed
  <2> HIDE DEF c
  <2> QED
    BY <2>2 DEF Consed
<1> HIDE DEF c
<1>9. ASSUME NEW j \in 1..Len(all) PROVE all[j] = c[j]
  <2>1. Len(r) \in Nat
    BY <1>3, LenProperties
  <2>2. CASE j = 1
    BY <1>5, <1>8, <2>2
  <2>3. CASE j # 1
    <3>1. j - 1 \in 1..Len(r) /\ (j - 1) + 1 = j
      BY <1>6, <2>1, <2>3
    <3> QED
      BY <1>7, <1>8, <3>1
  <2> QED
    BY <2>2, <2>3
<1>10. all = c
  BY <1>4, <1>6, <1>8, <1>9, SameElements
<1> QED
  BY <1>2, <1>3, <1>10 DEF i, x, r, all, c

(* A sequence is what comes before its last element, and that element. *)
LEMMA FrontAndLast ==
  ASSUME NEW S, NEW o \in Seq(S), o # <<>>
  PROVE  /\ Last(o) \in S /\ Front(o) \in Seq(S) /\ Len(Front(o)) = Len(o) - 1
         /\ Cat(Front(o), <<Last(o)>>) = o
<1> DEFINE n == Len(o)
           k == n - 1
           p == Front(o)
           y == Last(o)
           one == <<y>>
<1>1. n \in Nat /\ n # 0 /\ k \in 0..n /\ n = k + 1
  BY EmptySeq, LenProperties
<1>2. y = o[n] /\ p = SubSeq(o, 1, k)
  BY DEF Last, Front
<1> HIDE DEF n, k, p, y
<1>3. y \in S
  <2>1. n \in 1..n
    BY <1>1
  <2> QED
    BY <1>2, <2>1, ElementOfSeq DEF n
<1>4. p \in Seq(S) /\ Len(p) = k /\ \A i \in 1..k : p[i] = o[i]
  <2>1. k \in 0..Len(o)
    BY <1>1 DEF n
  <2> QED
    BY <1>2, <2>1, PrefixIs
<1>5. one \in Seq(S) /\ Len(one) = 1 /\ one[1] = y /\ 1 \in 1..Len(one)
  BY <1>3
<1> HIDE DEF one
<1> DEFINE c == Cat(p, one)
<1>6. c \in Seq(S) /\ Len(c) = k + 1
  BY <1>4, <1>5, CatIsSeq, CatLength
<1>7. (\A i \in 1..Len(p) : c[i] = p[i]) /\ (\A i \in 1..Len(one) : c[Len(p) + i] = one[i])
  <2>1. p \in Seq(S) /\ one \in Seq(S)
    BY <1>4, <1>5
  <2>2. /\ \A i \in 1..Len(p) : Cat(p, one)[i] = p[i]
        /\ \A i \in 1..Len(one) : Cat(p, one)[Len(p) + i] = one[i]
    BY <2>1, CatElements
  <2> QED
    BY <2>2
<1> HIDE DEF c
<1>8. ASSUME NEW i \in 1..n PROVE c[i] = o[i]
  <2>1. CASE i = n
    <3>1. c[k + 1] = one[1]
      BY <1>4, <1>5, <1>7
    <3> QED
      BY <1>1, <1>2, <1>5, <2>1, <3>1
  <2>2. CASE i # n
    <3>1. i \in 1..k
      BY <1>1, <2>2
    <3> QED
      BY <1>4, <1>7, <3>1
  <2> QED
    BY <2>1, <2>2
<1>9. c = o
  <2>1. Len(c) = Len(o) /\ \A i \in 1..Len(c) : c[i] = o[i]
    BY <1>1, <1>6, <1>8 DEF n
  <2> QED
    BY <1>6, <2>1, SameElements
<1> QED
  BY <1>3, <1>4, <1>9 DEF c, one, p, y, k, n

(* If all brackets cancel then no prefix has more closers than openings: the openings
   left of it cancel with what follows. *)
Rises(tk, m) ==
  \E o \in Seq(Openings) :
    Len(o) = Height(tk, m) /\ Cancelled(Cat(o, Brackets(Suffix(tk, m)))) = <<>>

LEMMA WellFormedRises ==
  ASSUME NEW S, NEW tk \in Seq(S), Cancelled(Brackets(tk)) = <<>>
  PROVE  \A m \in 0..Len(tk) : Height(tk, m) \in Nat
<1> DEFINE n == Len(tk)
           G == {m \in Nat : m <= n => Rises(tk, m)}
<1>0. n \in Nat
  BY LenProperties
<1>1. Rises(tk, 0)
  <2> DEFINE none == <<>>
  <2>1. none \in Seq(Openings) /\ Len(none) = 0
    OBVIOUS
  <2>2. Suffix(tk, 0) = tk
    BY WholeSuffix
  <2>3. Brackets(tk) \in Seq(Bracket)
    BY <1>0, BracketsAre
  <2>4. Cat(none, Brackets(tk)) = Brackets(tk)
    BY <2>3, CatNothing
  <2>5. Height(tk, 0) = 0
    BY HeightIs
  <2> HIDE DEF none
  <2> QED
    BY <2>1, <2>2, <2>4, <2>5 DEF Rises
<1>2. ASSUME NEW m \in Nat, m < n, Rises(tk, m) PROVE Rises(tk, m + 1)
  <2> DEFINE x == tk[m + 1]
             r == Suffix(tk, m + 1)
             h == Height(tk, m)
             h2 == Height(tk, m + 1)
             b == Brackets(r)
             kind == x.kind
  <2>1. x \in S /\ r \in Seq(S) /\ Suffix(tk, m) = Cat(<<x>>, r)
    BY <1>2, SuffixSplits
  <2>2. b \in Seq(Bracket)
    <3> HIDE DEF r
    <3> QED
      BY <2>1, BracketsAre, LenProperties
  <2>3. Brackets(Suffix(tk, m)) = IF kind \in Bracket THEN Cat(<<kind>>, b) ELSE b
    <3> HIDE DEF x, r
    <3> QED
      BY <2>1, BracketsOfCons
  <2>4. /\ kind \in Openings => h2 = h + 1
        /\ kind \in Closings => h2 = h - 1
        /\ kind \notin Bracket => h2 = h
    BY HeightIs
  <2>5. PICK o \in Seq(Openings) : Len(o) = h /\ Cancelled(Cat(o, Brackets(Suffix(tk, m)))) = <<>>
    BY <1>2 DEF Rises
  <2>6. Rises(tk, m + 1) <=> \E p \in Seq(Openings) : Len(p) = h2 /\ Cancelled(Cat(p, b)) = <<>>
    BY DEF Rises
  <2> HIDE DEF x, r, h, h2, b, kind
  <2>7. o \in Seq(Bracket) /\ Len(o) \in Nat
    BY OpeningsStay, LenProperties
  <2>8. CASE kind \in Openings
    <3> DEFINE one == <<kind>>
    <3>1. one \in Seq(Openings) /\ Len(one) = 1 /\ one \in Seq(Bracket)
      BY <2>8 DEF Bracket
    <3>2. Cancelled(Cat(o, Cat(one, b))) = <<>>
      BY <2>3, <2>5, <2>8 DEF Bracket
    <3> HIDE DEF one
    <3>3. Cat(Cat(o, one), b) = Cat(o, Cat(one, b))
      BY <2>2, <2>7, <3>1, CatAssociates
    <3>4. Cat(o, one) \in Seq(Openings) /\ Len(Cat(o, one)) = Len(o) + 1
      BY <3>1, CatIsSeq, CatLength
    <3> QED
      BY <2>4, <2>5, <2>6, <2>8, <3>2, <3>3, <3>4
  <2>9. CASE kind \in Closings
    <3>1. Cancelled(Cat(o, Cat(<<kind>>, b))) = <<>>
      BY <2>3, <2>5, <2>9 DEF Bracket
    <3>2. o # <<>> /\ kind = Closers[Last(o)]
      BY <2>2, <2>9, <3>1, WrongCloserStays
    <3> DEFINE p == Front(o)
               y == Last(o)
               one == <<y>>
               c == <<kind>>
    <3>3. y \in Openings /\ p \in Seq(Openings) /\ Len(p) = Len(o) - 1 /\ Cat(p, one) = o
      BY <3>2, FrontAndLast
    <3>4. one \in Seq(Openings)
      BY <3>3
    <3> HIDE DEF p, y, one
    <3>5. Cat(o, Cat(c, b)) = Cat(p, Cat(one, Cat(c, b)))
      <4>1. c \in Seq(Bracket)
        BY <2>9 DEF Bracket
      <4> HIDE DEF c
      <4>2. Cat(c, b) \in Seq(Bracket)
        BY <2>2, <4>1, CatIsSeq
      <4>3. p \in Seq(Bracket) /\ one \in Seq(Bracket)
        BY <3>3, <3>4, OpeningsStay
      <4> DEFINE cb == Cat(c, b)
      <4> HIDE DEF cb
      <4>4. Cat(Cat(p, one), cb) = Cat(p, Cat(one, cb))
        BY <4>2, <4>3, CatAssociates DEF cb
      <4> QED
        BY <3>3, <4>4 DEF cb
    <3>6. Cancelled(Cat(p, b)) = <<>>
      <4>1. kind = Closers[y]
        BY <3>2 DEF y
      <4>2. Cancelled(Cat(p, Cat(<<y>>, Cat(<<Closers[y]>>, b)))) = Cancelled(Cat(p, b))
        BY <2>2, <3>3, PairCancels
      <4> QED
        BY <3>1, <3>5, <4>1, <4>2 DEF one
    <3>7. Len(p) = h2
      BY <2>4, <2>5, <2>9, <3>3
    <3> QED
      BY <2>6, <3>3, <3>6, <3>7
  <2>10. CASE kind \notin Bracket
    BY <2>3, <2>4, <2>5, <2>6, <2>10
  <2> QED
    BY <2>8, <2>9, <2>10 DEF Bracket
<1>3. ASSUME NEW m \in Nat, \A k \in 0..m - 1 : k \in G PROVE m \in G
  <2>1. CASE m = 0
    BY <1>1, <2>1
  <2>2. CASE m # 0
    <3> DEFINE k == m - 1
    <3>1. k \in 0..m - 1 /\ k \in Nat /\ k + 1 = m
      BY <2>2
    <3> HIDE DEF k
    <3>2. k \in G
      BY <1>3, <3>1
    <3>3. ASSUME m <= n PROVE Rises(tk, m)
      <4>1. k < n /\ k <= n
        BY <1>0, <3>1, <3>3
      <4>2. Rises(tk, k)
        BY <3>2, <4>1
      <4>3. Rises(tk, k + 1)
        BY <1>2, <3>1, <4>1, <4>2
      <4> QED
        BY <3>1, <4>3
    <3> QED
      BY <3>3
  <2> QED
    BY <2>1, <2>2
<1> HIDE DEF G
<1>4. Nat \subseteq G
  BY <1>3, Induction
<1>5. ASSUME NEW m \in 0..n PROVE Height(tk, m) \in Nat
  <2>1. m \in G /\ m <= n
    BY <1>0, <1>4
  <2>2. Rises(tk, m)
    BY <2>1 DEF G
  <2>3. PICK o \in Seq(Openings) : Len(o) = Height(tk, m)
    BY <2>2 DEF Rises
  <2> QED
    BY <2>3, LenProperties
<1> QED
  BY <1>5

(* What is no bracket, quote or semicolon does not move the depth. *)
Neutral(c) == c # Quote /\ c # Semicolon /\ c \notin Openings /\ c \notin Closings

(* A scan that takes the character at i for what it is, and passes over the neutral *)
(* ones from a up to b.                                                              *)
Takes(scan, t, n, i) ==
  \A d \in Nat : t[i] # Semicolon => scan[<<i, d>>] = scan[Onward(t, n, i, d)]
Passing(scan, t, a, b) ==
  \A i \in a..b - 1, d \in Nat : Neutral(t[i]) => scan[<<i, d>>] = scan[<<i + 1, d>>]

LEMMA NeutralScan ==
  ASSUME NEW scan, NEW l, NEW a \in Nat \ {0}, NEW b \in Nat, a <= b, Passing(scan, l, a, b),
         \A i \in a..b - 1 : Neutral(l[i]), NEW d \in Nat
  PROVE  scan[<<a, d>>] = scan[<<b, d>>]
<1> DEFINE G == {i \in Nat : i \in a..b => scan[<<i, d>>] = scan[<<b, d>>]}
<1>1. ASSUME NEW i \in 1..b, \A j \in i + 1..b : j \in G PROVE i \in G
  <2> SUFFICES ASSUME i \in a..b, i # b PROVE scan[<<i, d>>] = scan[<<b, d>>]
    OBVIOUS
  <2>1. i \in a..b - 1
    OBVIOUS
  <2>2. Neutral(l[i])
    BY <2>1
  <2>4. scan[<<i, d>>] = scan[<<i + 1, d>>]
    BY <2>1, <2>2 DEF Passing
  <2>5. i + 1 \in i + 1..b /\ i + 1 \in a..b
    BY <2>1
  <2>6. i + 1 \in G
    BY <1>1, <2>5
  <2> QED
    BY <2>4, <2>5, <2>6
<1>2. a \in G
  <2>1. b \in Nat /\ a \in 1..b
    OBVIOUS
  <2> HIDE DEF G
  <2>2. \A i \in 1..b : i \in G
    BY <1>1, <2>1, Backwards
  <2> QED
    BY <2>1, <2>2
<1>3. a \in a..b
  OBVIOUS
<1> QED
  BY <1>2, <1>3

(* Names and numbers are neutral. *)
LEMMA NeutralAre ==
  /\ \A c \in Digits \cup {"-", "+", ".", ":", "@"} : Neutral(c)
  /\ \A c : IsSymbolChar(c) => Neutral(c)
  /\ \A c \in Spaces : Neutral(c)
<1>1. Openings = {"(", "[", "{"} /\ Closings = {")", "]", "}"}
  BY BracketsDiffer
<1>2. \A c \in Digits \cup {"-", "+", ".", ":", "@"} : Neutral(c)
  BY <1>1 DEF Digits, Neutral, Quote, Semicolon
<1>3. \A c \in Spaces : Neutral(c)
  BY <1>1 DEF Spaces, Space, Neutral, Quote, Semicolon
<1>4. \A c : IsSymbolChar(c) => Neutral(c)
  BY DEF IsSymbolChar, Neutral
<1> QED
  BY <1>2, <1>3, <1>4

LEMMA NameKeeps ==
  ASSUME NEW s, Len(s) \in Nat, NEW j \in 1..Len(s) + 1
  PROVE  /\ EndOfRun(s, j, IsSymbolChar) \in j..Len(s) + 1
         /\ \A x \in j..EndOfRun(s, j, IsSymbolChar) - 1 : Neutral(s[x])
<1> DEFINE n == Len(s)
           stops == {k \in j..n : ~IsSymbolChar(s[k])}
           e == EndOf(stops, n)
<1>1. EndOfRun(s, j, IsSymbolChar) = e
  BY DEF EndOfRun, EndOf
<1>2. stops \in SUBSET (j..n)
  OBVIOUS
<1>3. e \in j..n + 1 /\ \A x \in j..e - 1 : x \notin stops
  <2> HIDE DEF stops
  <2> QED
    BY <1>2, EndOfTells
<1> HIDE DEF e
<1>4. ASSUME NEW x \in j..e - 1 PROVE Neutral(s[x])
  <2>1. x \in j..n /\ x \notin stops
    BY <1>3
  <2>2. IsSymbolChar(s[x])
    BY <2>1
  <2> QED
    BY <2>2, NeutralAre
<1> QED
  BY <1>1, <1>3, <1>4

LEMMA DigitsKeep ==
  ASSUME NEW s, Len(s) \in Nat, NEW j \in 1..Len(s) + 1
  PROVE  /\ DigitsEndAt(s, j) \in j..Len(s) + 1
         /\ \A x \in j..DigitsEndAt(s, j) - 1 : Neutral(s[x])
<1> DEFINE n == Len(s)
           stops == {k \in j..n : ~(s[k] \in Digits)}
           e == EndOf(stops, n)
<1>1. DigitsEndAt(s, j) = e
  BY DEF EndOfRun, EndOf, DigitsEndAt
<1>2. stops \in SUBSET (j..n)
  OBVIOUS
<1>3. e \in j..n + 1 /\ \A x \in j..e - 1 : x \notin stops
  <2> HIDE DEF stops
  <2> QED
    BY <1>2, EndOfTells
<1> HIDE DEF e
<1>4. ASSUME NEW x \in j..e - 1 PROVE Neutral(s[x])
  <2>1. x \in j..n /\ x \notin stops
    BY <1>3
  <2>2. s[x] \in Digits
    BY <2>1
  <2> QED
    BY <2>2, NeutralAre
<1> QED
  BY <1>1, <1>3, <1>4

LEMMA NumberKeeps ==
  ASSUME NEW s, Len(s) \in Nat, NEW i \in 1..Len(s), StartsNumber(s, i)
  PROVE  \A x \in i..NumberEnd(s, i) - 1 : Neutral(s[x])
<1> DEFINE n == Len(s)
           first == IF s[i] \in Digits THEN i ELSE i + 1
           whole == DigitsEndAt(s, first)
           part == DigitsEndAt(s, whole + 1)
           pointed == whole < n /\ s[whole] = "." /\ s[whole + 1] \in Digits
<1>1. NumberEnd(s, i) = IF pointed THEN part ELSE whole
  BY DEF NumberEnd, DigitsEndAt
<1>2. first \in 1..n + 1 /\ first \in i..i + 1 /\ Neutral(s[i])
  BY NeutralAre DEF StartsNumber
<1> HIDE DEF first
<1>3. whole \in first..n + 1 /\ \A x \in first..whole - 1 : Neutral(s[x])
  BY <1>2, DigitsKeep
<1> HIDE DEF whole
<1>4. \A x \in i..whole - 1 : Neutral(s[x])
  <2> SUFFICES ASSUME NEW x \in i..whole - 1 PROVE Neutral(s[x])
    OBVIOUS
  <2>1. x = i \/ x \in first..whole - 1
    BY <1>2, <1>3
  <2> QED
    BY <1>2, <1>3, <2>1
<1>5. CASE pointed
  <2> DEFINE j == whole + 1
  <2>1. j \in 1..n + 1
    BY <1>2, <1>3, <1>5
  <2> HIDE DEF j
  <2>2. DigitsEndAt(s, j) \in j..n + 1 /\ \A x \in j..DigitsEndAt(s, j) - 1 : Neutral(s[x])
    BY <2>1, DigitsKeep
  <2>3. part \in whole + 1..n + 1 /\ \A x \in whole + 1..part - 1 : Neutral(s[x])
    BY <2>2 DEF j
  <2>4. Neutral(s[whole])
    BY <1>5, NeutralAre
  <2> HIDE DEF part
  <2> SUFFICES ASSUME NEW x \in i..part - 1 PROVE Neutral(s[x])
    BY <1>1, <1>5
  <2>5. x \in i..whole - 1 \/ x = whole \/ x \in whole + 1..part - 1
    BY <1>2, <1>3, <2>3
  <2> QED
    BY <1>4, <2>3, <2>4, <2>5
<1>6. CASE ~pointed
  BY <1>1, <1>4, <1>6
<1> QED
  BY <1>5, <1>6

(* The formatter and the lexer agree where a string ends, if it does. *)
LEMMA StringEnds ==
  ASSUME NEW t, NEW k \in Nat, k = Len(t), NEW i \in 1..k + 1, LiteralFrom(t)[i].next # 0
  PROVE  AfterQuote(t, k)[i] = LiteralFrom(t)[i].next
<1> DEFINE f == LiteralFrom(t)
           A == AfterQuote(t, k)
           top == k + 1
           Same(j) == f[j].next # 0 => A[j] = f[j].next
           G == {j \in 1..top : Same(j)}
<1>1. /\ f[k + 1].next = 0
      /\ \A j \in 1..k :
           IF t[j] = Quote THEN f[j].next = j + 1 ELSE f[j].next = f[LiteralOn(t, j)].next
  <2>1. Literal(t, LiteralFrom(t))
    BY LiteralIs
  <2> QED
    BY <2>1 DEF Literal
<1>2. \A j \in 1..k : A[j] = IF t[j] = Quote THEN j + 1 ELSE A[LiteralOn(t, j)]
  <2> SUFFICES ASSUME NEW j \in 1..k PROVE A[j] = IF t[j] = Quote THEN j + 1 ELSE A[LiteralOn(t, j)]
    OBVIOUS
  <2>1. j \in 1..k + 1 /\ ~(j > k)
    OBVIOUS
  <2>2. A[j] = IF j > k THEN j ELSE IF t[j] = Quote THEN j + 1
               ELSE A[IF t[j] = Backslash /\ j < k THEN j + 2 ELSE j + 1]
    BY <2>1, AfterQuoteIs
  <2> HIDE DEF A
  <2> QED
    BY <2>1, <2>2 DEF LiteralOn
<1>3. ASSUME NEW j \in 1..k PROVE LiteralOn(t, j) \in j + 1..top
  BY DEF LiteralOn
<1> HIDE DEF f, A
<1>4. ASSUME NEW j \in 1..top, \A m \in j + 1..top : m \in G PROVE j \in G
  <2>1. CASE j = top
    BY <1>1, <2>1
  <2>2. CASE j # top
    <3>1. j \in 1..k
      BY <2>2
    <3>2. CASE t[j] = Quote
      BY <1>1, <1>2, <3>1, <3>2
    <3>3. CASE t[j] # Quote
      <4> DEFINE m == LiteralOn(t, j)
      <4>1. m \in j + 1..top
        BY <1>3, <3>1
      <4>2. f[j].next = f[m].next /\ A[j] = A[m]
        BY <1>1, <1>2, <3>1, <3>3
      <4> HIDE DEF m
      <4>3. m \in G
        BY <1>4, <4>1
      <4> QED
        BY <4>2, <4>3
    <3> QED
      BY <3>2, <3>3
  <2> QED
    BY <2>1, <2>2
<1>5. top \in Nat
  OBVIOUS
<1> HIDE DEF G, top
<1>6. \A j \in 1..top : j \in G
  BY <1>4, <1>5, Backwards
<1>7. i \in G
  BY <1>6 DEF top
<1> QED
  BY <1>7 DEF G, f, A

(* What a token that ends before place e is made of: a bracket, a literal, or neutral *)
(* characters only.                                                                   *)
Made(t, j, e, kind) ==
  \/ t[j] \in Bracket /\ e = j + 1 /\ kind = t[j]
  \/ t[j] = Quote /\ kind = "string" /\ e = LiteralFrom(t)[j + 1].next
  \/ kind \in Atoms /\ \A x \in j..e - 1 : Neutral(t[x])

LEMMA TokenMade ==
  ASSUME NEW t, NEW k \in Nat, k = Len(t), NEW j \in 1..k, t[j] \notin Spaces \cup {Semicolon},
         TokenAt(t, j).next \in j + 1..k + 1
  PROVE  Made(t, j, TokenAt(t, j).next, TokenAt(t, j).kind)
<1> DEFINE y == TokenAt(t, j)
           to == y.next
           kind == y.kind
<1> SUFFICES Made(t, j, to, kind)
  OBVIOUS
<1>3. y = IF t[j] \in Bracket \cup {"@"} THEN Punct(j, t[j])
          ELSE IF t[j] = Quote THEN StringToken(t, j)
          ELSE IF t[j] = ":" THEN
                 IF KeywordAt(t, j) THEN UpTo(t, j, "keyword", EndOfRun(t, j + 1, IsSymbolChar))
                 ELSE Punct(j, ":")
          ELSE IF StartsNumber(t, j) THEN UpTo(t, j, "number", NumberEnd(t, j))
          ELSE UpTo(t, j, "symbol", EndOfRun(t, j, IsSymbolChar))
  BY TokenSplits
<1>5. {"keyword", ":", "number", "symbol", "string", "@"} \subseteq Atoms
  BY DEF Atoms
<1>6. Quote \notin Bracket \cup {"@", ":"} /\ "@" \notin Bracket /\ ":" \notin Bracket
  BY CharactersDiffer DEF Quote
<1> HIDE DEF y
<1>7. CASE t[j] \in Bracket
  <2>1. to = j + 1 /\ kind = t[j]
    BY <1>3, <1>7 DEF Punct
  <2> QED
    BY <1>7, <2>1 DEF Made
<1>8. CASE t[j] = "@"
  <2>1. to = j + 1 /\ kind = "@"
    BY <1>3, <1>8 DEF Punct
  <2>2. Neutral(t[j]) /\ \A x \in j..(j + 1) - 1 : x = j
    BY <1>8, NeutralAre
  <2>3. \A x \in j..to - 1 : Neutral(t[x])
    BY <2>1, <2>2
  <2> QED
    BY <1>5, <2>1, <2>3 DEF Made
<1>9. CASE t[j] = Quote
  <2> DEFINE lit == LiteralFrom(t)[j + 1]
             A == AfterQuote(t, k)
  <2>1. y = StringToken(t, j)
    BY <1>3, <1>6, <1>9
  <2>2. StringToken(t, j) = [kind |-> "string", next |-> lit.next,
                             text |-> SubSeq(lit.text, 1, Min({Len(lit.text), StringCap}))]
    <3>1. Literal(t, LiteralFrom(t))
      BY LiteralIs
    <3> QED
      BY <3>1 DEF Literal
  <2>3. kind = "string" /\ to = lit.next
    <3> DEFINE n == lit.next
               c == SubSeq(lit.text, 1, Min({Len(lit.text), StringCap}))
    <3> HIDE DEF n, c
    <3>1. y = [kind |-> "string", next |-> n, text |-> c]
      BY <2>1, <2>2 DEF n, c
    <3> QED
      BY <3>1 DEF n
  <2> HIDE DEF to, kind, lit
  <2>4. lit = LiteralFrom(t)[j + 1]
    BY DEF lit
  <2> QED
    BY <1>9, <2>3, <2>4 DEF Made
<1>10. CASE t[j] = ":"
  <2> DEFINE m == j + 1
             e == EndOfRun(t, m, IsSymbolChar)
  <2>1. (to = e /\ kind = "keyword") \/ (to = m /\ kind = ":")
    BY <1>3, <1>6, <1>10 DEF UpTo, Punct
  <2>2. m \in 1..Len(t) + 1
    OBVIOUS
  <2>3. e \in m..k + 1 /\ \A x \in m..e - 1 : Neutral(t[x])
    <3> HIDE DEF m
    <3> QED
      BY <2>2, NameKeeps
  <2>4. Neutral(t[j])
    BY <1>10, NeutralAre
  <2> HIDE DEF e
  <2>5. \A x \in j..e - 1 : Neutral(t[x])
    <3> SUFFICES ASSUME NEW x \in j..e - 1 PROVE Neutral(t[x])
      OBVIOUS
    <3>1. x = j \/ x \in m..e - 1
      BY <2>3
    <3> QED
      BY <2>3, <2>4, <3>1
  <2>6. \A x \in j..m - 1 : Neutral(t[x])
    BY <2>4
  <2> HIDE DEF m
  <2>7. \A x \in j..to - 1 : Neutral(t[x])
    BY <2>1, <2>5, <2>6
  <2>8. kind \in Atoms
    BY <1>5, <2>1
  <2> QED
    BY <2>7, <2>8 DEF Made
<1>11. CASE t[j] \notin Bracket \cup {"@", Quote, ":"}
  <2>1. \A x \in j..to - 1 : Neutral(t[x])
    <3>1. CASE StartsNumber(t, j)
      <4>1. to = NumberEnd(t, j)
        BY <1>3, <1>11, <3>1 DEF UpTo
      <4> QED
        BY <3>1, <4>1, NumberKeeps
    <3>2. CASE ~StartsNumber(t, j)
      <4>1. to = EndOfRun(t, j, IsSymbolChar)
        BY <1>3, <1>11, <3>2 DEF UpTo
      <4>2. j \in 1..Len(t) + 1
        OBVIOUS
      <4> QED
        BY <4>1, <4>2, NameKeeps
    <3> QED
      BY <3>1, <3>2
  <2>2. kind \in Atoms
    <3>1. kind = "number" \/ kind = "symbol"
      BY <1>3, <1>11 DEF UpTo
    <3> QED
      BY <1>5, <3>1
  <2> QED
    BY <2>1, <2>2 DEF Made
<1> QED
  BY <1>7, <1>8, <1>9, <1>10, <1>11

(* Scanning a token for brackets: what the formatter makes of its characters. *)
Deeper(kind, d) == IF kind \in Openings THEN d + 1 ELSE IF kind \in Closings /\ d > 0 THEN d - 1 ELSE d

LEMMA TokenFollowed ==
  ASSUME NEW scan, NEW t, NEW k \in Nat, k = Len(t), NEW j \in 1..k, t[j] \notin Spaces \cup {Semicolon},
         TokenAt(t, j).next \in j + 1..k + 1, Takes(scan, t, k, j),
         Passing(scan, t, j, TokenAt(t, j).next), NEW d \in Nat
  PROVE  scan[<<j, d>>] = scan[<<TokenAt(t, j).next, Deeper(TokenAt(t, j).kind, d)>>]
<1> DEFINE y == TokenAt(t, j)
           to == y.next
           kind == y.kind
<1> SUFFICES scan[<<j, d>>] = scan[<<to, Deeper(kind, d)>>]
  OBVIOUS
<1>1. Made(t, j, to, kind)
  BY TokenMade
<1>2. to \in j + 1..k + 1 /\ Passing(scan, t, j, to)
  OBVIOUS
<1>3. scan[<<j, d>>] = scan[Onward(t, k, j, d)]
  BY DEF Takes
<1> HIDE DEF y, to, kind
<1>4. \A a \in Atoms : Deeper(a, d) = d
  <2>1. \A a \in Atoms : a \notin Openings /\ a \notin Closings
    BY KindsDiffer DEF Bracket
  <2> QED
    BY <2>1 DEF Deeper
<1>5. CASE t[j] \in Bracket /\ to = j + 1 /\ kind = t[j]
  <2>1. t[j] # Quote
    BY <1>5, CharactersDiffer DEF Quote
  <2>2. Onward(t, k, j, d) = <<j + 1, Deeper(t[j], d)>>
    BY <2>1 DEF Onward, Deeper
  <2> QED
    BY <1>3, <1>5, <2>2
<1>6. CASE t[j] = Quote /\ kind = "string" /\ to = LiteralFrom(t)[j + 1].next
  <2> DEFINE i == j + 1
  <2>1. i \in 1..k + 1 /\ LiteralFrom(t)[i].next = to /\ LiteralFrom(t)[i].next # 0
    BY <1>2, <1>6
  <2> HIDE DEF i
  <2>2. AfterQuote(t, k)[i] = to
    BY <2>1, StringEnds
  <2>3. Onward(t, k, j, d) = <<to, d>>
    BY <1>6, <2>2 DEF Onward, i
  <2>4. kind \in Atoms
    BY <1>6 DEF Atoms
  <2> QED
    BY <1>3, <1>4, <2>3, <2>4
<1>7. CASE kind \in Atoms /\ \A x \in j..to - 1 : Neutral(t[x])
  <2>1. j \in Nat \ {0} /\ to \in Nat /\ j <= to
    BY <1>2
  <2>2. Passing(scan, t, j, to) /\ \A x \in j..to - 1 : Neutral(t[x])
    BY <1>2, <1>7
  <2>3. scan[<<j, d>>] = scan[<<to, d>>]
    BY <2>1, <2>2, NeutralScan
  <2> QED
    BY <1>4, <1>7, <2>3
<1> QED
  BY <1>1, <1>5, <1>6, <1>7 DEF Made

LEMMA TokenScan ==
  ASSUME NEW t, NEW k \in Nat, k = Len(t), NEW j \in 1..k, t[j] \notin Spaces \cup {Semicolon},
         TokenAt(t, j).next \in j + 1..k + 1, NEW d \in Nat
  PROVE  DepthScan(t)[<<j, d>>] = DepthScan(t)[<<TokenAt(t, j).next, Deeper(TokenAt(t, j).kind, d)>>]
<1> DEFINE scan == DepthScan(t)
           to == TokenAt(t, j).next
<1>1. \A i \in 1..k, p \in Nat : t[i] # Semicolon => scan[<<i, p>>] = scan[Onward(t, k, i, p)]
  <2>1. \A i \in 1..k : i \in 1..k + 1 /\ ~(i > k)
    OBVIOUS
  <2> QED
    BY <2>1, DepthUnfold
<1>2. \A i \in 1..k, p \in Nat : Neutral(t[i]) => Onward(t, k, i, p) = <<i + 1, p>> /\ t[i] # Semicolon
  BY DEF Onward, Neutral
<1>3. \A i \in j..to - 1 : i \in 1..k
  OBVIOUS
<1> HIDE DEF scan, to
<1>4. Takes(scan, t, k, j) /\ Passing(scan, t, j, to)
  <2>1. Takes(scan, t, k, j)
    BY <1>1 DEF Takes
  <2>2. ASSUME NEW i \in j..to - 1, NEW p \in Nat, Neutral(t[i]) PROVE scan[<<i, p>>] = scan[<<i + 1, p>>]
    <3>1. i \in 1..k
      BY <1>3
    <3>2. Onward(t, k, i, p) = <<i + 1, p>> /\ t[i] # Semicolon
      BY <1>2, <2>2, <3>1
    <3> QED
      BY <1>1, <3>1, <3>2
  <2> QED
    BY <2>1, <2>2 DEF Passing
<1>5. Passing(scan, t, j, TokenAt(t, j).next)
  BY <1>4 DEF to
<1> QED
  BY <1>4, <1>5, TokenFollowed DEF scan

(* Reading the tokens tk of s is at place i, after m tokens that leave d forms open. *)
Stands(s, tk, i, m, d) ==
  /\ i \in 1..Len(s) + 1 /\ m \in 0..Len(tk) /\ TokensFrom(s)[i] = Suffix(tk, m)
  /\ Height(tk, m) = d
Moves(kind, d) == IF kind \in Openings THEN d + 1 ELSE IF kind \in Closings THEN d - 1 ELSE d

(* The token at a place of a line moves the reading on. *)
LEMMA TokenStands ==
  ASSUME NEW C, NEW s \in Seq(C), NEW t \in Seq(C), NEW a, NEW k, NEW e, Lies(s, t, a, k, e),
         NEW i \in 1..k, t[i] \notin Spaces \cup {Semicolon}, TokenAt(t, i).next # 0,
         NEW tk \in Seq(TokensIn(s)), NEW m, NEW d, Stands(s, tk, a + i, m, d)
  PROVE  Stands(s, tk, a + TokenAt(t, i).next, m + 1, Moves(TextToken(t, i).kind, d))
<1> DEFINE b == a + i
           x == TokenAt(s, b)
           y == TextToken(t, i)
           kind == y.kind
           to == TokenAt(t, i).next
           c == a + to
           v == Recorded(s, b)
           r == TokensFrom(s)[c]
           S == TokensIn(s)
<1>1. Copied(x, y, a) /\ y.next = to /\ to \in i + 1..k + 1 /\ kind \in Bracket \cup Atoms
  BY TokenShift
<1>2. /\ Len(s) \in Nat /\ k \in Nat /\ a \in Nat /\ b \in 1..Len(s) /\ b \in 1..Len(s) + 1
      /\ a + k <= Len(s)
  BY DEF Lies
<1>3. s[b] = t[i]
  BY DEF Lies
<1> HIDE DEF b, x, y, to, kind
<1>4. SkipBlank(s, b) = b
  <2>1. ~Blank(s, b)
    BY <1>3 DEF Blank
  <2> QED
    BY <1>2, <2>1, SkipBlankUnfolds
<1>5. TokenAfter(s, b) = x
  BY <1>4 DEF TokenAfter, x
<1>6. x.kind = kind /\ x.next = c
  BY <1>1 DEF Copied, kind
<1>7. c \in 1..Len(s) + 1 /\ c # 0
  BY <1>1, <1>2
<1> HIDE DEF c
<1>8. TokenAfter(s, b).kind # "eof" /\ TokenAfter(s, b).next # 0
  BY <1>1, <1>5, <1>6, <1>7, KindsDiffer
<1>9. Follows(s, b, Recorded(s, b), TokensFrom(s)[TokenAfter(s, b).next])
  BY <1>2, <1>8, TokenFollows
<1>10. v \in S /\ r \in Seq(S) /\ TokensFrom(s)[b] = Cat(<<v>>, r) /\ v.kind = kind
  BY <1>5, <1>6, <1>9 DEF Follows
<1>11. m \in 0..Len(tk) /\ Suffix(tk, m) = TokensFrom(s)[b] /\ Height(tk, m) = d /\ tk \in Seq(S)
  BY DEF Stands, b
<1> HIDE DEF v, r, S
<1>12. m + 1 \in 1..Len(tk) /\ tk[m + 1] = v /\ Suffix(tk, m + 1) = r
  BY <1>10, <1>11, SuffixAdvances
<1>13. m \in Nat /\ Len(tk) \in Nat
  BY <1>11, LenProperties
<1>14. /\ kind \in Openings => Height(tk, m + 1) = d + 1
       /\ kind \in Closings => Height(tk, m + 1) = d - 1
       /\ kind \notin Bracket => Height(tk, m + 1) = d
  BY <1>10, <1>11, <1>12, <1>13, HeightIs
<1>15. Height(tk, m + 1) = Moves(kind, d)
  BY <1>14 DEF Moves, Bracket
<1>16. m + 1 \in 0..Len(tk)
  BY <1>12, <1>13
<1>17. Stands(s, tk, c, m + 1, Moves(kind, d))
  BY <1>7, <1>12, <1>15, <1>16 DEF Stands, r
<1> QED
  BY <1>17 DEF c, to, kind, y

(* A colon at the end of a text is no bracket either way. *)
LEMMA TextTokenDeepens ==
  ASSUME NEW t, Len(t) \in Nat, NEW i \in 1..Len(t), NEW d
  PROVE  Deeper(TextToken(t, i).kind, d) = Deeper(TokenAt(t, i).kind, d)
<1>1. CASE t[i] = ":" /\ i = Len(t)
  <2>1. TextToken(t, i).kind = ":"
    BY <1>1 DEF TextToken, Punct
  <2>2. TokenAt(t, i).kind = ":" \/ TokenAt(t, i).kind = "keyword"
    <3>1. ":" \notin Bracket \cup {"@"} /\ ":" # Quote
      BY CharactersDiffer DEF Quote
    <3> QED
      BY <1>1, <3>1, TokenSplits DEF UpTo, Punct
  <2>3. \A x \in {":", "keyword"} : x \notin Openings /\ x \notin Closings
    BY KindsDiffer DEF Bracket, Atoms
  <2> QED
    BY <2>1, <2>2, <2>3 DEF Deeper
<1>2. CASE ~(t[i] = ":" /\ i = Len(t))
  BY <1>2 DEF TextToken
<1> QED
  BY <1>1, <1>2

(* The tokens of two texts, read to the same number, that leave as many forms open. *)
Rising(tk) == \A m \in 0..Len(tk) : Height(tk, m) \in Nat
Both(s, u, tk, tv, i, j, m, d) == Stands(s, tk, i, m, d) /\ Stands(u, tv, j, m, d)

(* A line that both have is read in both, and the formatter agrees how deep it leads. *)
LEMMA LineWalks ==
  ASSUME NEW C, NEW s \in Seq(C), NEW u \in Seq(C), NEW t \in Seq(C),
         NEW k, NEW a, NEW e, Lies(s, t, a, k, e), NEW b, NEW g, Lies(u, t, b, k, g),
         ClosesFrom(t, 1), NEW tk \in Seq(TokensIn(s)), NEW tv \in Seq(TokensIn(u)), Rising(tk),
         NEW m, NEW d, Both(s, u, tk, tv, a + 1, b + 1, m, d)
  PROVE  \E h : Both(s, u, tk, tv, e, g, h, DepthAfter(d, t))
<1> DEFINE f == TokensFrom(s)
           w == TokensFrom(u)
           At(i, j, n, p) == Both(s, u, tk, tv, i, j, n, p)
           scan == DepthScan(t)
           Ends(j) == \A n, p : (ClosesFrom(t, j) /\ At(a + j, b + j, n, p)) =>
                        \E h : At(e, g, h, scan[<<j, p>>])
           G == {j \in 1..k + 1 : Ends(j)}
<1>1. k \in Nat /\ a \in Nat /\ b \in Nat /\ k = Len(t)
  BY DEF Lies
<1>2. /\ f[a + k + 1] = f[e] /\ e \in 1..Len(s) + 1
      /\ \A j \in 1..k + 1 : a + j \in 1..Len(s) + 1
      /\ \A j \in 1..k : t[j] \in Spaces => f[a + j] = f[a + (j + 1)]
      /\ \A j \in 1..k : t[j] = Semicolon => f[a + j] = f[e]
  BY LineLeads
<1>3. /\ w[b + k + 1] = w[g] /\ g \in 1..Len(u) + 1
      /\ \A j \in 1..k + 1 : b + j \in 1..Len(u) + 1
      /\ \A j \in 1..k : t[j] \in Spaces => w[b + j] = w[b + (j + 1)]
      /\ \A j \in 1..k : t[j] = Semicolon => w[b + j] = w[g]
  BY LineLeads
<1>4. \A j \in 1..k + 1, p \in Nat :
        scan[<<j, p>>] = IF j > k \/ t[j] = Semicolon THEN p ELSE scan[Onward(t, k, j, p)]
  BY <1>1, DepthUnfold
<1>5. ASSUME NEW i, NEW j, NEW n, NEW p, At(i, j, n, p),
             NEW i2 \in 1..Len(s) + 1, NEW j2 \in 1..Len(u) + 1, f[i] = f[i2], w[j] = w[j2]
      PROVE  At(i2, j2, n, p)
  BY <1>5 DEF Both, Stands
<1>6. ASSUME NEW i, NEW j, NEW n, NEW p, At(i, j, n, p) PROVE p \in Nat
  BY <1>6 DEF Both, Stands, Rising
<1>7. ASSUME NEW j \in 1..k, t[j] \in Spaces, Ends(j + 1) PROVE Ends(j)
  <2> SUFFICES ASSUME NEW n, NEW p, ClosesFrom(t, j), At(a + j, b + j, n, p)
               PROVE  \E h : At(e, g, h, scan[<<j, p>>])
    OBVIOUS
  <2>1. ClosesFrom(t, j + 1)
    <3>1. j \in 1..Len(t) + 1 /\ j + 1 \in j..Len(t) + 1 /\ \A x \in j..(j + 1) - 1 : t[x] \in Spaces
      BY <1>1, <1>7
    <3> DEFINE o == j + 1
    <3> HIDE DEF o
    <3>2. TokensFrom(t)[j] = TokensFrom(t)[o]
      BY <1>1, <3>1, BlankRun DEF o
    <3>3. ClosesFrom(t, o)
      BY <3>2 DEF ClosesFrom
    <3> QED
      BY <3>3 DEF o
  <2>2. p \in Nat
    BY <1>6
  <2>3. scan[<<j, p>>] = scan[<<j + 1, p>>]
    <3>1. Neutral(t[j])
      BY <1>7, NeutralAre
    <3>2. Onward(t, k, j, p) = <<j + 1, p>> /\ t[j] # Semicolon
      BY <3>1 DEF Onward, Neutral
    <3>3. j \in 1..k + 1 /\ ~(j > k)
      BY <1>1
    <3> HIDE DEF scan
    <3> QED
      BY <1>4, <2>2, <3>2, <3>3
  <2>4. f[a + j] = f[a + (j + 1)] /\ w[b + j] = w[b + (j + 1)]
    BY <1>2, <1>3, <1>7
  <2>5. a + (j + 1) \in 1..Len(s) + 1 /\ b + (j + 1) \in 1..Len(u) + 1
    <3> DEFINE o == j + 1
    <3>1. o \in 1..k + 1
      BY <1>1
    <3> HIDE DEF o, f, w
    <3>2. a + o \in 1..Len(s) + 1 /\ b + o \in 1..Len(u) + 1
      BY <1>2, <1>3, <3>1
    <3> QED
      BY <3>2 DEF o
  <2> HIDE DEF f, w, At, scan
  <2>6. At(a + (j + 1), b + (j + 1), n, p)
    BY <1>5, <2>4, <2>5
  <2>7. \E h : At(e, g, h, scan[<<j + 1, p>>])
    BY <1>7, <2>1, <2>6
  <2> QED
    BY <2>3, <2>7
<1>8. ASSUME NEW j \in 1..k, t[j] \notin Spaces \cup {Semicolon}, \A x \in j + 1..k + 1 : Ends(x)
      PROVE  Ends(j)
  <2> SUFFICES ASSUME NEW n, NEW p, ClosesFrom(t, j), At(a + j, b + j, n, p)
               PROVE  \E h : At(e, g, h, scan[<<j, p>>])
    OBVIOUS
  <2> DEFINE to == TokenAt(t, j).next
             kind == TextToken(t, j).kind
             q == Moves(kind, p)
             n2 == n + 1
  <2>1. to \in j + 1..k + 1 /\ ClosesFrom(t, to)
    BY <1>1, <1>8, ClosesOn
  <2>2. to # 0
    <3> HIDE DEF to
    <3> QED
      BY <1>1, <2>1
  <2>3. At(a + to, b + to, n2, q)
    <3>1. Stands(s, tk, a + j, n, p) /\ Stands(u, tv, b + j, n, p)
      BY DEF Both
    <3>2. Stands(s, tk, a + to, n2, q)
      BY <1>8, <2>2, <3>1, TokenStands
    <3>3. Stands(u, tv, b + to, n2, q)
      BY <1>8, <2>2, <3>1, TokenStands
    <3> QED
      BY <3>2, <3>3 DEF Both
  <2>4. p \in Nat
    BY <1>6
  <2>5. q = Deeper(kind, p)
    <3>1. q \in Nat
      <4> HIDE DEF At, q, to, n2
      <4> QED
        BY <1>6, <2>3
    <3> HIDE DEF kind
    <3> QED
      BY <2>4, <3>1 DEF Moves, Deeper
  <2>6. scan[<<j, p>>] = scan[<<to, q>>]
    <3>1. scan[<<j, p>>] = scan[<<to, Deeper(TokenAt(t, j).kind, p)>>]
      <4>1. t[j] \notin Spaces \cup {Semicolon}
        BY <1>8
      <4>2. TokenAt(t, j).next \in j + 1..k + 1
        BY <2>1
      <4>3. DepthScan(t)[<<j, p>>] =
              DepthScan(t)[<<TokenAt(t, j).next, Deeper(TokenAt(t, j).kind, p)>>]
        <5> HIDE DEF f, w, At, scan, to, kind, q, Ends, n2
        <5> DEFINE y == TokenAt(t, j)
        <5>1. Len(t) \in Nat /\ j \in 1..Len(t) /\ y.next \in j + 1..Len(t) + 1
          BY <1>1, <4>2
        <5> QED
          BY <2>4, <4>1, <5>1, TokenScan
      <4> QED
        BY <4>3
    <3>2. Deeper(TokenAt(t, j).kind, p) = Deeper(kind, p)
      BY <1>1, TextTokenDeepens
    <3> HIDE DEF scan, to, q, kind
    <3> QED
      BY <2>5, <3>1, <3>2
  <2> HIDE DEF At, scan, to, kind, q, n2
  <2>7. \E h : At(e, g, h, scan[<<to, q>>])
    BY <1>8, <2>1, <2>3
  <2> QED
    BY <2>6, <2>7
<1> HIDE DEF f, w, At, scan
<1>9. ASSUME NEW j \in 1..k + 1, \A x \in j + 1..k + 1 : x \in G PROVE j \in G
  <2>1. \A x \in j + 1..k + 1 : Ends(x)
    BY <1>9
  <2>2. CASE j = k + 1
    <3> SUFFICES ASSUME NEW n, NEW p, At(a + j, b + j, n, p)
                 PROVE  \E h : At(e, g, h, scan[<<j, p>>])
      OBVIOUS
    <3>1. a + j = a + k + 1 /\ b + j = b + k + 1 /\ j > k
      BY <1>1, <2>2
    <3>2. At(e, g, n, p)
      BY <1>2, <1>3, <1>5, <3>1
    <3>3. scan[<<j, p>>] = p
      BY <1>4, <1>6, <3>1
    <3> QED
      BY <3>2, <3>3
  <2>3. CASE j \in 1..k /\ t[j] \in Spaces
    <3>1. j + 1 \in j + 1..k + 1
      BY <1>1, <2>3
    <3>2. Ends(j + 1)
      BY <2>1, <3>1
    <3> HIDE DEF Ends
    <3> QED
      BY <1>7, <2>3, <3>2
  <2>4. CASE j \in 1..k /\ t[j] = Semicolon
    <3> SUFFICES ASSUME NEW n, NEW p, At(a + j, b + j, n, p)
                 PROVE  \E h : At(e, g, h, scan[<<j, p>>])
      OBVIOUS
    <3>1. At(e, g, n, p)
      BY <1>2, <1>3, <1>5, <2>4
    <3>2. scan[<<j, p>>] = p
      BY <1>4, <1>6, <2>4
    <3> QED
      BY <3>1, <3>2
  <2>5. CASE j \in 1..k /\ t[j] \notin Spaces \cup {Semicolon}
    <3> HIDE DEF Ends
    <3> QED
      BY <1>8, <2>1, <2>5
  <2> QED
    BY <1>1, <2>2, <2>3, <2>4, <2>5
<1> HIDE DEF G
<1> DEFINE top == k + 1
<1>10. top \in Nat /\ 1 \in 1..top /\ \A j \in 1..top : (\A x \in j + 1..top : x \in G) => j \in G
  BY <1>1, <1>9
<1> HIDE DEF top
<1>11. 1 \in G
  BY <1>10, Backwards
<1>12. \E h : At(e, g, h, scan[<<1, d>>])
  <2>1. At(a + 1, b + 1, m, d)
    BY DEF At
  <2>2. Ends(1)
    BY <1>11 DEF G
  <2> QED
    BY <2>1, <2>2
<1>13. scan[<<1, d>>] = DepthAfter(d, t)
  <2>1. At(a + 1, b + 1, m, d)
    BY DEF At
  <2>2. d \in Nat
    BY <1>6, <2>1
  <2> QED
    BY <1>1, <2>2, DepthUnfold DEF scan
<1> QED
  BY <1>12, <1>13 DEF At

(* A text without newlines. *)
LEMMA PlainText ==
  ASSUME NEW C, NEW w \in Seq(Plain(C))
  PROVE  w \in Seq(C) /\ Len(w) \in Nat /\ \A i \in 1..Len(w) : w[i] # "\n"
<1>1. Len(w) \in Nat /\ w = [i \in 1..Len(w) |-> w[i]] /\ \A i \in 1..Len(w) : w[i] \in Plain(C)
  BY LenProperties, ElementOfSeq
<1>2. \A i \in 1..Len(w) : w[i] \in C /\ w[i] # "\n"
  BY <1>1 DEF Plain
<1>3. [i \in 1..Len(w) |-> w[i]] \in Seq(C)
  BY <1>1, <1>2, SeqDef
<1> QED
  BY <1>1, <1>2, <1>3

(* A row is its indentation and its text. *)
Width(d, line) == 2 * Max({0, d - LeadingClosers(line)})
RowParts(row, t, w) ==
  /\ w \in Nat /\ Len(t) \in Nat /\ Len(row) = w + Len(t)
  /\ \A i \in 1..w : row[i] = Space
  /\ \A i \in 1..Len(t) : row[w + i] = t[i]

LEMMA RowHasParts ==
  ASSUME NEW C, Space \in C, NEW d \in Nat, NEW line \in Seq(Plain(C)), NEW t, t = Trimmed(line)
  PROVE  \E w : RowParts(RowOf(d, line), t, w) /\ (t # <<>> => w = Width(d, line))
<1> DEFINE P == Plain(C)
           row == RowOf(d, line)
           ind == Indent(d, line)
           n == Len(ind)
<1>1. Space \in P /\ t \in Seq(P) /\ Len(t) \in Nat
  BY CharactersDiffer, LenProperties, TrimmedIs DEF Plain
<1>2. CASE t = <<>>
  <2>1. row = <<>>
    BY <1>2 DEF RowOf
  <2>2. Len(row) = 0 /\ Len(t) = 0
    BY <1>2, <2>1
  <2> HIDE DEF row
  <2>3. RowParts(row, t, 0)
    BY <2>2 DEF RowParts
  <2> QED
    BY <1>2, <2>3 DEF row
<1>3. CASE t # <<>>
  <2>1. ind \in Seq(P) /\ n \in Nat
    BY <1>1, IndentIs, LenProperties
  <2>2. ind = [i \in 1..Width(d, line) |-> Space]
    BY DEF Indent, Width
  <2>3. Width(d, line) \in Nat
    <3>1. LeadingClosers(line) \in Nat
      BY LeadingClosersIs, LenProperties
    <3> DEFINE h == d - LeadingClosers(line)
    <3>2. h \in Int
      BY <3>1
    <3> HIDE DEF h
    <3>3. Max({0, h}) \in Nat
      BY <3>2, MaxOfTwo
    <3> QED
      BY <3>3 DEF h, Width
  <2>4. row = Cat(ind, t)
    BY <1>3 DEF RowOf
  <2>5. n = Width(d, line) /\ \A i \in 1..n : ind[i] = Space
    <3> DEFINE v == Width(d, line)
    <3> HIDE DEF v
    <3>1. v \in Nat /\ ind = [i \in 1..v |-> Space]
      BY <2>2, <2>3 DEF v
    <3> HIDE DEF ind
    <3>2. Len(ind) = v /\ \A i \in 1..v : ind[i] = Space
      BY <3>1
    <3> QED
      BY <3>2 DEF v
  <2> HIDE DEF ind, row, P
  <2>6. Len(row) = n + Len(t)
    BY <1>1, <2>1, <2>4, CatLength
  <2>7. (\A i \in 1..n : row[i] = ind[i]) /\ \A i \in 1..Len(t) : row[n + i] = t[i]
    BY <1>1, <2>1, <2>4, CatElements
  <2>8. \A i \in 1..n : row[i] = Space
    BY <2>5, <2>7
  <2> HIDE DEF n
  <2>9. RowParts(row, t, n)
    BY <1>1, <2>1, <2>6, <2>7, <2>8 DEF RowParts, n
  <2> QED
    BY <2>5, <2>9 DEF row
<1> QED
  BY <1>2, <1>3

(* Where a row that was written lies in the text. *)
RowIn(C, z, o, p, t, w) ==
  /\ t \in Seq(C) /\ Len(o) \in Nat /\ w \in Nat
  /\ Lies(z, t, Len(o) + w, Len(t), Len(p))
  /\ Len(p) = Len(o) + w + Len(t) + 1 /\ Len(p) \in 1..Len(z) /\ z[Len(p)] = "\n"
  /\ \A j \in Len(o) + 1..Len(o) + w : z[j] = Space
  /\ TokensFrom(z)[Len(o) + 1] = TokensFrom(z)[Len(o) + w + 1]
  /\ TokensFrom(z)[Len(p)] = TokensFrom(z)[Len(p) + 1]

LEMMA RowLies ==
  ASSUME NEW C, NEW t \in Seq(Plain(C)), NEW row, NEW w, RowParts(row, t, w),
         NEW o \in Seq(C), NEW p, Grown(o, row, p), NEW z \in Seq(C), Begins(p, z)
  PROVE  RowIn(C, z, o, p, t, w)
<1> DEFINE m == Len(o)
           k == Len(t)
           e == Len(p)
           a == m + w
           i == m + 1
           j == a + 1
           e1 == e + 1
           n == Len(z)
<1>1. t \in Seq(C) /\ k \in Nat /\ \A x \in 1..k : t[x] # "\n"
  BY PlainText
<1>2. /\ m \in Nat /\ w \in Nat /\ n \in Nat /\ e = m + (w + k) + 1
      /\ \A x \in 1..w + k : p[m + x] = row[x]
      /\ p[m + (w + k) + 1] = "\n" /\ e <= n /\ \A x \in 1..e : z[x] = p[x]
      /\ \A x \in 1..w : row[x] = Space
      /\ \A x \in 1..k : row[w + x] = t[x]
  BY LenProperties DEF Grown, RowParts, Begins
<1> HIDE DEF m, k, e, n
<1>3. /\ a \in Nat /\ e = a + k + 1 /\ e \in 1..n /\ a + k <= n /\ i \in 1..n + 1 /\ j \in i..n + 1
      /\ e \in 1..n + 1 /\ e1 \in e..n + 1 /\ e \in a + k + 1..n + 1
  BY <1>1, <1>2
<1>4. z[e] = "\n"
  BY <1>2, <1>3
<1>5. ASSUME NEW x \in 1..k PROVE z[a + x] = t[x]
  <2>1. w + x \in 1..w + k /\ m + (w + x) = a + x /\ a + x \in 1..e
    BY <1>1, <1>2, <1>3
  <2>2. p[m + (w + x)] = row[w + x]
    BY <1>2, <2>1
  <2> QED
    BY <1>2, <2>1, <2>2
<1>6. ASSUME NEW y \in i..a PROVE z[y] = Space
  <2>1. y - m \in 1..w /\ y - m \in 1..w + k /\ m + (y - m) = y /\ y \in 1..e
    BY <1>1, <1>2, <1>3
  <2>2. p[m + (y - m)] = row[y - m]
    BY <1>2, <2>1
  <2> QED
    BY <1>2, <2>1, <2>2
<1>7. Lies(z, t, a, k, e)
  <2>1. \A x \in 1..k : z[a + x] = t[x] /\ t[x] # "\n"
    BY <1>1, <1>5
  <2>2. \A x \in a + k + 1..e - 1 : FALSE
    BY <1>3
  <2>3. a + k # n
    BY <1>1, <1>2, <1>3
  <2> HIDE DEF a
  <2> QED
    BY <1>1, <1>2, <1>3, <1>4, <2>1, <2>2, <2>3 DEF Lies, n, k
<1>8. TokensFrom(z)[i] = TokensFrom(z)[j]
  <2>1. \A x \in i..j - 1 : z[x] \in Spaces
    BY <1>3, <1>6 DEF Spaces
  <2> HIDE DEF i, j
  <2> QED
    BY <1>2, <1>3, <2>1, BlankRun DEF n
<1>9. TokensFrom(z)[e] = TokensFrom(z)[e1]
  <2>1. \A x \in e..e1 - 1 : z[x] \in Spaces
    BY <1>3, <1>4, SpacesAre
  <2> HIDE DEF e1
  <2> QED
    BY <1>2, <1>3, <2>1, BlankRun DEF n
<1>10. e = m + w + k + 1
  BY <1>1, <1>2
<1> HIDE DEF a
<1>11. /\ t \in Seq(C) /\ m \in Nat /\ w \in Nat /\ Lies(z, t, a, k, e)
       /\ e = m + w + k + 1 /\ e \in 1..n /\ z[e] = "\n"
       /\ \A y \in m + 1..a : z[y] = Space
       /\ TokensFrom(z)[m + 1] = TokensFrom(z)[a + 1]
       /\ TokensFrom(z)[e] = TokensFrom(z)[e + 1]
  BY <1>1, <1>2, <1>3, <1>4, <1>6, <1>7, <1>8, <1>9, <1>10
<1> QED
  BY <1>11 DEF RowIn, a, m, k, e, n

(* The newlines of a text that is written row by row are the ends of its rows. *)
LEMMA NewlinesEndRows ==
  ASSUME NEW C, NEW n \in Nat, NEW o, NEW t, Rows(C, n, o, t), NEW z, z = o[n],
         NEW q \in 1..Len(z), z[q] = "\n"
  PROVE  \E h \in 1..n : q = Len(o[h])
<1> DEFINE Good(k) == \A x \in 1..Len(o[k]) : o[k][x] = "\n" => \E h \in 1..k : x = Len(o[h])
           G == {k \in Nat : k <= n => Good(k)}
<1>1. Good(0)
  <2>1. Len(o[0]) = 0
    BY DEF Rows
  <2> QED
    BY <2>1
<1>2. ASSUME NEW j \in Nat, NEW k \in 1..n, j = k - 1, Good(j) PROVE Good(k)
  <2> DEFINE a == o[j]
             b == o[k]
             row == t[k]
  <2>1. Grown(a, row, b) /\ row \in Seq(Plain(C))
    BY <1>2 DEF Rows
  <2>2. \A x \in 1..Len(row) : row[x] # "\n"
    <3> HIDE DEF row
    <3> QED
      BY <2>1, PlainText
  <2> HIDE DEF a, b, row
  <2>3. /\ Len(a) \in Nat /\ Len(row) \in Nat /\ Len(b) = Len(a) + Len(row) + 1
        /\ \A x \in 1..Len(a) : b[x] = a[x]
        /\ \A x \in 1..Len(row) : b[Len(a) + x] = row[x]
    BY <2>1 DEF Grown
  <2> SUFFICES ASSUME NEW x \in 1..Len(b), b[x] = "\n" PROVE \E h \in 1..k : x = Len(o[h])
    BY DEF b
  <2>4. CASE x \in 1..Len(a)
    <3>1. a[x] = "\n"
      BY <2>3, <2>4
    <3>2. PICK h \in 1..j : x = Len(o[h])
      BY <1>2, <2>4, <3>1 DEF a
    <3>3. h \in 1..k
      BY <1>2
    <3> QED
      BY <3>2, <3>3
  <2>5. CASE x = Len(b)
    <3>1. k \in 1..k
      BY <1>2
    <3> QED
      BY <2>5, <3>1 DEF b
  <2>6. CASE x \notin 1..Len(a) /\ x # Len(b)
    <3>1. x - Len(a) \in 1..Len(row) /\ Len(a) + (x - Len(a)) = x
      BY <2>3, <2>6
    <3> QED
      BY <2>2, <2>3, <3>1
  <2> QED
    BY <2>4, <2>5, <2>6
<1>3. ASSUME NEW k \in Nat, \A j \in 0..k - 1 : j \in G PROVE k \in G
  <2>1. CASE k = 0
    BY <1>1, <2>1
  <2>2. CASE k # 0 /\ k <= n
    <3> DEFINE j == k - 1
    <3>1. j \in 0..k - 1 /\ j <= n /\ k \in 1..n /\ j \in Nat /\ j = k - 1
      BY <2>2
    <3> HIDE DEF j
    <3>2. Good(j)
      BY <1>3, <3>1
    <3> HIDE DEF Good
    <3>3. Good(k)
      BY <1>2, <3>1, <3>2
    <3> QED
      BY <3>3
  <2>3. CASE ~(k <= n)
    BY <2>3
  <2> QED
    BY <2>1, <2>2, <2>3
<1>4. Nat \subseteq G
  <2> HIDE DEF G
  <2> QED
    BY <1>3, Induction
<1>5. Good(n)
  BY <1>4
<1> QED
  BY <1>5

(* So every line begins where a row does. *)
LEMMA LinesBeginRows ==
  ASSUME NEW C, NEW n \in Nat, NEW o, NEW t, Rows(C, n, o, t), NEW z, z = o[n],
         NEW i \in 1..Len(z), i = 1 \/ z[i - 1] = "\n"
  PROVE  \E k \in 1..n : i = Len(o[k - 1]) + 1
<1>1. \A k \in 0..n : Len(o[k]) \in Nat
  BY LenProperties DEF Rows
<1>2. Len(z) \in Nat
  BY <1>1
<1>3. CASE i = 1
  <2>1. o[0] = <<>>
    BY DEF Rows
  <2>2. Len(o[0]) = 0
    BY <2>1
  <2>3. n # 0
    BY <2>2
  <2>4. 1 \in 1..n /\ 1 - 1 = 0
    BY <2>3
  <2> QED
    BY <1>3, <2>2, <2>4
<1>4. CASE i # 1
  <2> DEFINE q == i - 1
  <2>1. q \in 1..Len(z) /\ z[q] = "\n" /\ q + 1 = i
    BY <1>2, <1>4
  <2> HIDE DEF q
  <2>2. PICK h \in 1..n : q = Len(o[h])
    BY <2>1, NewlinesEndRows
  <2>3. h # n
    BY <1>2, <2>1, <2>2
  <2> DEFINE k == h + 1
  <2>4. k \in 1..n /\ k - 1 = h
    BY <2>3
  <2> HIDE DEF k
  <2>5. i = Len(o[k - 1]) + 1
    BY <2>1, <2>2, <2>4
  <2> QED
    BY <2>4, <2>5
<1> QED
  BY <1>3, <1>4

(* A line that begins with closers begins inside as many forms. *)
LEMMA ClosersLead ==
  ASSUME NEW C, NEW s \in Seq(C), NEW t \in Seq(C), NEW a, NEW k, NEW e, Lies(s, t, a, k, e),
         NEW c \in 0..k, \A j \in 1..c : t[j] \in Closings,
         NEW tk \in Seq(TokensIn(s)), Rising(tk), NEW m, NEW d, Stands(s, tk, a + 1, m, d)
  PROVE  c <= d
<1> DEFINE At(j) == Stands(s, tk, a + (j + 1), m + j, d - j)
           G == {j \in Nat : j <= c => At(j)}
<1>1. k \in Nat /\ a \in Nat /\ k = Len(t) /\ c \in Nat
  BY DEF Lies
<1>2. m \in Nat /\ d \in Nat
  <2>1. m \in 0..Len(tk) /\ Height(tk, m) = d
    BY DEF Stands
  <2> QED
    BY <2>1, LenProperties DEF Rising
<1>3. At(0)
  <2>1. a + (0 + 1) = a + 1 /\ m + 0 = m /\ d - 0 = d
    BY <1>1, <1>2
  <2> QED
    BY <2>1
<1>4. ASSUME NEW j \in Nat, j < c, At(j) PROVE At(j + 1)
  <2> DEFINE i == j + 1
             kind == TextToken(t, i).kind
             to == TokenAt(t, i).next
             m1 == m + j
             d1 == d - j
  <2>1. i \in 1..k /\ i \in 1..c /\ i \in 1..Len(t)
    BY <1>1, <1>4
  <2>2. t[i] \in Closings
    BY <2>1
  <2>3. Closings = {")", "]", "}"}
    BY BracketsDiffer
  <2>4. t[i] \notin Spaces \cup {Semicolon} /\ t[i] # ":" /\ t[i] \in Bracket
    <3> HIDE DEF i
    <3> QED
      BY <2>2, <2>3 DEF Spaces, Space, Semicolon, Bracket
  <2>5. TokenAt(t, i) = Punct(i, t[i])
    <3> HIDE DEF i
    <3> QED
      BY <1>1, <2>1, <2>4, TokenSplits
  <2>6. to = i + 1 /\ kind = t[i] /\ to # 0
    <3>1. i + 1 # 0
      BY <2>1
    <3> HIDE DEF i
    <3> QED
      BY <2>4, <2>5, <3>1 DEF TextToken, Punct
  <2>7. Moves(kind, d1) = d1 - 1
    <3>1. t[i] \notin Openings
      BY <2>2, BracketsDiffer
    <3> HIDE DEF i, kind, d1
    <3> QED
      BY <2>2, <2>6, <3>1 DEF Moves
  <2>8. Stands(s, tk, a + i, m1, d1)
    BY <1>4
  <2> HIDE DEF i, m1, d1
  <2>9. Stands(s, tk, a + to, m1 + 1, Moves(kind, d1))
    BY <2>1, <2>4, <2>6, <2>8, TokenStands
  <2> HIDE DEF to, kind
  <2>10. Stands(s, tk, a + (i + 1), m1 + 1, d1 - 1)
    BY <2>6, <2>7, <2>9
  <2>11. m1 + 1 = m + i /\ d1 - 1 = d - i
    BY <1>2 DEF m1, d1, i
  <2>12. Stands(s, tk, a + (i + 1), m + i, d - i)
    BY <2>10, <2>11
  <2> QED
    BY <2>12 DEF i
<1> HIDE DEF At
<1>5. ASSUME NEW j \in Nat, \A x \in 0..j - 1 : x \in G PROVE j \in G
  <2>1. CASE j = 0
    BY <1>3, <2>1
  <2>2. CASE j # 0 /\ j <= c
    <3> DEFINE x == j - 1
    <3>1. x \in 0..j - 1 /\ x <= c /\ x < c /\ x \in Nat /\ x + 1 = j
      BY <1>1, <2>2
    <3> HIDE DEF x
    <3>2. At(x)
      BY <1>5, <3>1
    <3>3. At(x + 1)
      BY <1>4, <3>1, <3>2
    <3> QED
      BY <3>1, <3>3
  <2>3. CASE ~(j <= c)
    BY <2>3
  <2> QED
    BY <2>1, <2>2, <2>3
<1>6. Nat \subseteq G
  <2> HIDE DEF G
  <2> QED
    BY <1>5, Induction
<1>7. At(c)
  BY <1>1, <1>6
<1>8. m + c \in 0..Len(tk) /\ Height(tk, m + c) = d - c
  BY <1>7 DEF At, Stands
<1>9. d - c \in Nat
  <2> DEFINE x == m + c
  <2> HIDE DEF x
  <2>1. x \in 0..Len(tk) /\ Height(tk, x) = d - c
    BY <1>8 DEF x
  <2> QED
    BY <2>1 DEF Rising
<1> QED
  BY <1>1, <1>2, <1>9

(* What is trimmed off a line does not move the depth. *)
LEMMA TrimDepth ==
  ASSUME NEW C, NEW l \in Seq(C), NEW d \in Nat
  PROVE  DepthAfter(d, l) = DepthAfter(d, Trimmed(l))
<1>1. Len(l) \in Nat
  BY LenProperties
<1>2. CASE Trimmed(l) = <<>> /\ \A i \in 1..Len(l) : l[i] \in Margin
  <2>1. DepthAfter(d, l) = d
    BY <1>1, <1>2, BlankDepth
  <2>2. DepthAfter(d, <<>>) = d
    BY NothingTrimmed
  <2> QED
    BY <1>2, <2>1, <2>2
<1>3. ASSUME NEW m, NEW n, Shape(l, m, n) PROVE DepthAfter(d, l) = DepthAfter(d, Trimmed(l))
  BY <1>3, ShapeDepth
<1> QED
  BY <1>1, <1>2, <1>3, HasShape

(* A row that two texts have is read in both. *)
LEMMA RowWalks ==
  ASSUME NEW C, NEW s \in Seq(C), NEW u \in Seq(C), NEW o, NEW p, NEW t, NEW w,
         RowIn(C, s, o, p, t, w), RowIn(C, u, o, p, t, w), ClosesFrom(t, 1),
         NEW tk \in Seq(TokensIn(s)), NEW tv \in Seq(TokensIn(u)), Rising(tk),
         NEW m, NEW d, Both(s, u, tk, tv, Len(o) + 1, Len(o) + 1, m, d)
  PROVE  \E h : Both(s, u, tk, tv, Len(p) + 1, Len(p) + 1, h, DepthAfter(d, t))
<1> DEFINE i == Len(o) + 1
           a == Len(o) + w
           b == a + 1
           k == Len(t)
           e == Len(p)
           e1 == e + 1
           d2 == DepthAfter(d, t)
<1>1. /\ t \in Seq(C) /\ Lies(s, t, a, k, e) /\ e \in 1..Len(s)
      /\ TokensFrom(s)[i] = TokensFrom(s)[b] /\ TokensFrom(s)[e] = TokensFrom(s)[e1]
      /\ Len(o) \in Nat /\ w \in Nat /\ e = a + k + 1
  BY DEF RowIn
<1>2. /\ Lies(u, t, a, k, e) /\ e \in 1..Len(u)
      /\ TokensFrom(u)[i] = TokensFrom(u)[b] /\ TokensFrom(u)[e] = TokensFrom(u)[e1]
  BY DEF RowIn
<1>3. Len(s) \in Nat /\ Len(u) \in Nat /\ k \in Nat
  BY <1>1, LenProperties
<1>4. b \in 1..Len(s) + 1 /\ b \in 1..Len(u) + 1 /\ e1 \in 1..Len(s) + 1 /\ e1 \in 1..Len(u) + 1
  BY <1>1, <1>2, <1>3
<1>5. Both(s, u, tk, tv, i, i, m, d)
  OBVIOUS
<1> HIDE DEF i, b, k, e, e1, d2
<1>6. Both(s, u, tk, tv, b, b, m, d)
  BY <1>1, <1>2, <1>4, <1>5 DEF Both, Stands
<1>7. PICK h : Both(s, u, tk, tv, e, e, h, d2)
  <2>1. Both(s, u, tk, tv, a + 1, a + 1, m, d)
    BY <1>6 DEF b
  <2> HIDE DEF a
  <2>2. \E h : Both(s, u, tk, tv, e, e, h, DepthAfter(d, t))
    BY <1>1, <1>2, <2>1, LineWalks
  <2> QED
    BY <2>2 DEF d2
<1>8. Both(s, u, tk, tv, e1, e1, h, d2)
  BY <1>1, <1>2, <1>4, <1>7 DEF Both, Stands
<1> QED
  BY <1>8 DEF e1, e, d2

(* The rows that two texts begin with are read in both. *)
Shared(C, n, s, u, o, x, D) ==
  /\ o[0] = <<>> /\ D[0] = 0
  /\ \A r \in 1..n :
       /\ \E w : RowIn(C, s, o[r - 1], o[r], x[r], w) /\ RowIn(C, u, o[r - 1], o[r], x[r], w)
       /\ ClosesFrom(x[r], 1) /\ D[r] = DepthAfter(D[r - 1], x[r])

LEMMA RowsWalk ==
  ASSUME NEW C, NEW s \in Seq(C), NEW u \in Seq(C), NEW n \in Nat, NEW o, NEW x, NEW D,
         Shared(C, n, s, u, o, x, D), Rising(Tokens(s))
  PROVE  \E h : Both(s, u, Tokens(s), Tokens(u), Len(o[n]) + 1, Len(o[n]) + 1, h, D[n])
<1> DEFINE tk == Tokens(s)
           tv == Tokens(u)
           at(r) == Len(o[r]) + 1
           Read(r) == \E h : Both(s, u, tk, tv, at(r), at(r), h, D[r])
           G == {r \in Nat : r <= n => Read(r)}
<1>1. Len(s) \in Nat /\ Len(u) \in Nat
  BY LenProperties
<1>2. /\ tk = TokensFrom(s)[1] /\ tk \in Seq(TokensIn(s))
      /\ tv = TokensFrom(u)[1] /\ tv \in Seq(TokensIn(u))
  <2>1. 1 \in 1..Len(s) + 1 /\ 1 \in 1..Len(u) + 1
    BY <1>1
  <2>2. Tokens(s) = TokensFrom(s)[1] /\ TokensFrom(s) \in [1..Len(s) + 1 -> Seq(TokensIn(s))]
    BY <1>1, TokensUnfold
  <2>3. Tokens(u) = TokensFrom(u)[1] /\ TokensFrom(u) \in [1..Len(u) + 1 -> Seq(TokensIn(u))]
    BY <1>1, TokensUnfold
  <2> QED
    BY <2>1, <2>2, <2>3
<1> HIDE DEF tk, tv
<1>3. Read(0)
  <2>1. Len(o[0]) + 1 = 1 /\ D[0] = 0
    BY DEF Shared
  <2>2. Suffix(tk, 0) = tk /\ Suffix(tv, 0) = tv /\ Len(tk) \in Nat /\ Len(tv) \in Nat
    BY <1>2, WholeSuffix, LenProperties
  <2>3. Height(tk, 0) = 0 /\ Height(tv, 0) = 0
    BY HeightIs
  <2>4. 1 \in 1..Len(s) + 1 /\ 1 \in 1..Len(u) + 1
    BY <1>1
  <2>5. Both(s, u, tk, tv, 1, 1, 0, 0)
    BY <1>2, <2>2, <2>3, <2>4 DEF Both, Stands
  <2> QED
    BY <2>1, <2>5
<1>4. ASSUME NEW j, NEW r \in 1..n, j = r - 1, Read(j) PROVE Read(r)
  <2> DEFINE a == o[j]
             b == o[r]
             t == x[r]
             d == D[j]
             d2 == D[r]
  <2>1. /\ \E w : RowIn(C, s, a, b, t, w) /\ RowIn(C, u, a, b, t, w)
        /\ ClosesFrom(t, 1) /\ d2 = DepthAfter(d, t)
    BY <1>4 DEF Shared
  <2>2. PICK m : Both(s, u, tk, tv, Len(a) + 1, Len(a) + 1, m, d)
    BY <1>4
  <2> HIDE DEF a, b, t, d, d2
  <2>3. PICK w : RowIn(C, s, a, b, t, w) /\ RowIn(C, u, a, b, t, w)
    BY <2>1
  <2>4. Rising(tk)
    BY DEF tk
  <2>5. \E h : Both(s, u, tk, tv, Len(b) + 1, Len(b) + 1, h, DepthAfter(d, t))
    BY <1>2, <2>1, <2>2, <2>3, <2>4, RowWalks
  <2>6. \E h : Both(s, u, tk, tv, Len(b) + 1, Len(b) + 1, h, d2)
    BY <2>1, <2>5
  <2> QED
    BY <2>6 DEF b, d2
<1> HIDE DEF Read
<1>5. ASSUME NEW r \in Nat, \A y \in 0..r - 1 : y \in G PROVE r \in G
  <2>1. CASE r = 0
    BY <1>3, <2>1
  <2>2. CASE r # 0 /\ r <= n
    <3> DEFINE j == r - 1
    <3>1. j \in 0..r - 1 /\ j <= n /\ r \in 1..n /\ j = r - 1
      BY <2>2
    <3> HIDE DEF j
    <3>2. Read(j)
      BY <1>5, <3>1
    <3>3. Read(r)
      BY <1>4, <3>1, <3>2
    <3> QED
      BY <3>3
  <2>3. CASE ~(r <= n)
    BY <2>3
  <2> QED
    BY <2>1, <2>2, <2>3
<1>6. Nat \subseteq G
  <2> HIDE DEF G
  <2> QED
    BY <1>5, Induction
<1>7. Read(n)
  BY <1>6
<1> QED
  BY <1>7 DEF Read, tk, tv

(* A text begins with something that is no blank. *)
LEMMA TextBegins ==
  ASSUME NEW C, NEW l \in Seq(C), NEW t, t = Trimmed(l), t # <<>>
  PROVE  /\ Len(t) \in Nat /\ Len(t) >= 1 /\ t[1] \notin Blanks
         /\ LeadingClosers(l) = EndOf({j \in 1..Len(t) : t[j] \notin Closings}, Len(t)) - 1
<1>1. Len(l) \in Nat
  BY LenProperties
<1>2. PICK m, n : Shape(l, m, n)
  BY <1>1, HasShape
<1>3. /\ Len(t) = n - m /\ \A i \in 1..n - m : t[i] = l[m + i]
      /\ m \in Nat /\ n \in Nat /\ m < n
  BY <1>2, ShapeTells
<1>4. Len(t) \in Nat /\ Len(t) >= 1 /\ 1 \in 1..n - m
  BY <1>3
<1>5. t[1] = l[m + 1]
  BY <1>3, <1>4
<1>6. t[1] \notin Blanks
  BY <1>2, <1>5 DEF Shape
<1>7. LeadingClosers(l) = EndOf({j \in 1..Len(t) : t[j] \notin Closings}, Len(t)) - 1
  BY <1>2, ShapeLeading
<1> QED
  BY <1>4, <1>6, <1>7

(* A line's first character that is not a blank, and its first that is no closer. *)
InkAt(z, i, ink, g) ==
  /\ ink = EndOf({j \in i..Len(z) : ~(z[j] = Space)}, Len(z)) /\ z[ink] # "\n"
  /\ g = EndOf({j \in ink..Len(z) : ~(z[j] \in Closings)}, Len(z))
RowThere(C, z, line, d, o, p, t) ==
  \E w : (t # <<>> => w = Width(d, line)) /\ RowIn(C, z, o, p, t, w)
Shows(i, ink, g, d) == ink - i = 2 * (d - (g - ink))

(* The indentation of a row is the depth it is read at, less its leading closers. *)
LEMMA RowShows ==
  ASSUME NEW C, NEW z \in Seq(C), NEW o, NEW p, NEW line \in Seq(Plain(C)), NEW t, t = Trimmed(line),
         NEW d, RowThere(C, z, line, d, o, p, t), NEW tk \in Seq(TokensIn(z)), Rising(tk),
         NEW i, i = Len(o) + 1, NEW m, Stands(z, tk, i, m, d), NEW ink, NEW g, InkAt(z, i, ink, g)
  PROVE  Shows(i, ink, g, d)
<1>0. PICK w : (t # <<>> => w = Width(d, line)) /\ RowIn(C, z, o, p, t, w)
  BY DEF RowThere
<1> DEFINE n == Len(z)
           k == Len(t)
           e == Len(p)
           a == Len(o) + w
           b == a + 1
           gaps == {j \in i..n : ~(z[j] = Space)}
           T == {j \in 1..k : t[j] \notin Closings}
           U == {j \in b..n : ~(z[j] \in Closings)}
           c == EndOf(T, k)
           lead == c - 1
<1>1. /\ t \in Seq(C) /\ Len(o) \in Nat /\ w \in Nat /\ n \in Nat /\ k \in Nat
      /\ Lies(z, t, a, k, e) /\ e = a + k + 1 /\ e \in 1..n /\ z[e] = "\n"
      /\ \A j \in i..a : z[j] = Space
      /\ TokensFrom(z)[i] = TokensFrom(z)[b]
  BY <1>0, LenProperties DEF RowIn
<1>2. i \in 1..n + 1 /\ b \in i..n + 1 /\ b = i + w /\ b <= n /\ a \in Nat /\ b - 1 = a
  BY <1>1
<1>3. ink = EndOf(gaps, n) /\ g = EndOf({j \in ink..n : ~(z[j] \in Closings)}, n) /\ z[ink] # "\n"
  BY DEF InkAt
<1>4. Lies(z, t, a, k, e)
  BY <1>1
<1>5. z[b] # Space
  <2>1. CASE t = <<>>
    <3>1. k = 0
      BY <2>1
    <3>2. e = b
      BY <1>1, <3>1
    <3> HIDE DEF b
    <3> QED
      BY <1>1, <3>2 DEF Space
  <2>2. CASE t # <<>>
    <3>1. k >= 1 /\ t[1] \notin Blanks
      <4> HIDE DEF k
      <4> QED
        BY <2>2, TextBegins DEF k
    <3>2. z[a + 1] = t[1]
      <4>1. 1 \in 1..k
        BY <1>1, <3>1
      <4> HIDE DEF a, k
      <4> QED
        BY <1>4, <4>1 DEF Lies
    <3> QED
      BY <3>1, <3>2 DEF Blanks
  <2> QED
    BY <2>1, <2>2
<1> HIDE DEF b
<1>6. EndOf(gaps, n) = b
  <2>1. gaps \in SUBSET (i..n) /\ (\A j \in i..b - 1 : j \notin gaps) /\ b \in gaps
    BY <1>1, <1>2, <1>5
  <2>2. n \in Nat /\ i \in 1..n + 1 /\ b \in i..n
    BY <1>1, <1>2
  <2> HIDE DEF gaps, n, a
  <2> QED
    BY <2>1, <2>2, EndOfAt
<1>7. ink = b
  BY <1>3, <1>6
<1>8. t # <<>>
  <2> SUFFICES ASSUME t = <<>> PROVE FALSE
    OBVIOUS
  <2>1. k = 0
    OBVIOUS
  <2>2. e = b
    BY <1>1, <2>1 DEF b
  <2> QED
    BY <1>1, <1>3, <1>7, <2>2
<1>9. w = Width(d, line) /\ k >= 1 /\ LeadingClosers(line) = lead
  <2>1. k >= 1 /\ LeadingClosers(line) = EndOf(T, k) - 1
    <3> HIDE DEF a, e, n
    <3> QED
      BY <1>8, TextBegins
  <2> QED
    BY <1>0, <1>8, <2>1
<1>10. g = EndOf(U, n)
  BY <1>3, <1>7
<1>11. T \in SUBSET (1..k) /\ c \in 1..k + 1 /\ \A j \in 1..c - 1 : j \notin T
  <2>1. T \in SUBSET (1..k) /\ 1 \in 1..k + 1
    BY <1>1
  <2> HIDE DEF T, k
  <2> QED
    BY <1>1, <2>1, EndOfTells
<1>12. g = a + c
  <2>1. a + k < n => z[a + k + 1] \in Spaces
    <3> HIDE DEF a, k, e, n
    <3> QED
      BY <1>4, BlankFollows DEF n
  <2>2. \A x \in Spaces : x \notin Closings
    <3>1. Closings = {")", "]", "}"}
      BY BracketsDiffer
    <3> QED
      BY <3>1 DEF Spaces, Space
  <2>3. \A j \in 1..k : z[a + j] = t[j]
    BY <1>1 DEF Lies
  <2>4. a + k <= n /\ 1 \in 1..k + 1 /\ a + 1 = b
    BY <1>1, <1>2 DEF b
  <2>5. U \in SUBSET (a + 1..n)
    BY <2>4
  <2>6. ASSUME NEW j \in 1..k PROVE j \in T <=> a + j \in U
    <3>1. a + j \in b..n
      BY <1>1, <1>2, <2>4
    <3>2. z[a + j] = t[j]
      BY <2>3
    <3> HIDE DEF a, k, n
    <3> QED
      BY <3>1, <3>2
  <2>7. a + k < n => a + k + 1 \in U
    BY <1>1, <1>2, <2>1, <2>2, <2>4
  <2> HIDE DEF a, k, n, T, U, e
  <2>8. Displaced(n, k, a, 1, T, U)
    BY <1>1, <1>2, <1>11, <2>4, <2>5, <2>6, <2>7 DEF Displaced
  <2> QED
    BY <1>10, <2>8, RunShift
<1>13. lead \in 0..k /\ g - ink = lead
  <2>1. a \in Nat /\ k \in Nat /\ c \in 1..k + 1 /\ g = a + c
    BY <1>1, <1>2, <1>11, <1>12
  <2>2. ink = a + 1
    BY <1>7 DEF b
  <2> HIDE DEF a, c, k
  <2> QED
    BY <2>1, <2>2
<1>14. lead <= d
  <2>1. \A j \in 1..lead : t[j] \in Closings
    <3> SUFFICES ASSUME NEW j \in 1..lead PROVE t[j] \in Closings
      OBVIOUS
    <3>1. j \in 1..c - 1 /\ j \in 1..k
      BY <1>11
    <3> QED
      BY <1>11, <3>1
  <2>2. Stands(z, tk, a + 1, m, d)
    <3>1. a + 1 = b /\ b \in 1..n + 1
      BY <1>1, <1>2 DEF b
    <3> HIDE DEF a
    <3> QED
      BY <1>1, <3>1 DEF Stands
  <2> HIDE DEF a, k, e, n, lead
  <2> QED
    BY <1>1, <1>13, <2>1, <2>2, ClosersLead
<1>15. d \in Nat
  BY DEF Stands, Rising
<1>16. Width(d, line) = 2 * (d - lead)
  <2> DEFINE y == d - lead
  <2>1. y \in Nat /\ Width(d, line) = 2 * Max({0, y})
    <3> HIDE DEF c
    <3> QED
      BY <1>9, <1>11, <1>13, <1>14, <1>15 DEF Width
  <2> HIDE DEF y
  <2>2. Max({0, y}) = y
    BY <2>1, MaxOfTwo
  <2> QED
    BY <2>1, <2>2 DEF y
<1>17. ink - i = w
  BY <1>1, <1>2, <1>7
<1>18. Width(d, line) = w /\ lead = g - ink
  BY <1>9, <1>13
<1>19. ink - i = 2 * (d - (g - ink))
  <2> HIDE DEF lead, c
  <2> QED
    BY <1>16, <1>17, <1>18
<1> QED
  BY <1>19 DEF Shows

(* The depth at a place is the height of all that is read before it. *)
LEMMA DepthIsHeight ==
  ASSUME NEW f, NEW i, NEW tv, tv = Tokens(SubSeq(f, 1, i - 1))
  PROVE  DepthAt(f, i) = Height(tv, Len(tv))
  BY DEF DepthAt, Height, Counted

(* Wherever a row is written, it stands the way it was meant. *)
RowStands(C, line, d, x, o, p) ==
  \E w : /\ x # <<>> => w = Width(d, line)
         /\ \A z \in Seq(C) : Begins(p, z) => RowIn(C, z, o, p, x, w)

LEMMA RowsStand ==
  ASSUME NEW C, Space \in C, "\n" \in C, NEW s \in Seq(C), Uncut(s), StringsClose(s),
         NEW r \in 1..RowCount(s), NEW line, line = LinesOf(s)[r], NEW x, x = Trimmed(line),
         NEW d, d = Passes(s)[r - 1].depth
  PROVE  /\ line \in Seq(Plain(C)) /\ line \in Seq(C) /\ d \in Nat /\ ClosesFrom(x, 1)
         /\ Passes(s)[r].depth = DepthAfter(d, x)
         /\ RowStands(C, line, d, x, Outs(s)[r - 1], Outs(s)[r])
<1> DEFINE n == RowCount(s)
           o == Outs(s)
           t == RowsOf(s)
           after == Passes(s)[r].depth
<1>1. /\ n \in Nat /\ n <= Len(LinesOf(s)) /\ Len(LinesOf(s)) \in Nat
      /\ Rows(C, n, o, t)
      /\ line \in Seq(Plain(C)) /\ d \in Nat /\ after = DepthAfter(d, line)
  BY FormatWrites
<1>2. t[r] = RowOf(d, line)
  BY DEF RowsOf, RowAt
<1>3. r \in 1..Len(LinesOf(s)) /\ r \in 1..n /\ r - 1 \in 0..n
  BY <1>1
<1>4. \A i \in 1..Len(Tokens(x)) : Tokens(x)[i].kind # "unterminated"
  BY <1>3 DEF StringsClose
<1> HIDE DEF n, o, t, after
<1>5. line \in Seq(C) /\ x \in Seq(Plain(C))
  <2>1. line \in Seq(C)
    BY <1>1, PlainText
  <2>2. x \in Seq(Plain(C))
    BY <1>1, TrimmedIs
  <2> QED
    BY <2>1, <2>2
<1>6. ClosesFrom(x, 1)
  <2>1. Len(x) \in Nat
    BY <1>5, LenProperties
  <2>2. Tokens(x) = TokensFrom(x)[1]
    BY <2>1, TokensUnfold
  <2> QED
    BY <1>4, <2>2 DEF ClosesFrom
<1>7. after = DepthAfter(d, x)
  BY <1>1, <1>5, TrimDepth
<1>8. PICK w : RowParts(RowOf(d, line), x, w) /\ (x # <<>> => w = Width(d, line))
  BY <1>1, RowHasParts
<1>9. ASSUME NEW z \in Seq(C), Begins(o[r], z) PROVE RowIn(C, z, o[r - 1], o[r], x, w)
  <2> DEFINE row == t[r]
             a == o[r - 1]
             p == o[r]
  <2>1. a \in Seq(C) /\ Grown(a, row, p) /\ RowParts(row, x, w) /\ Begins(p, z)
    BY <1>1, <1>2, <1>3, <1>8, <1>9 DEF Rows
  <2> HIDE DEF row, a, p
  <2>2. RowIn(C, z, a, p, x, w)
    BY <1>5, <2>1, RowLies
  <2> QED
    BY <2>2 DEF a, p
<1> QED
  BY <1>1, <1>5, <1>6, <1>7, <1>8, <1>9 DEF RowStands, o, after

(* Rows up to one of them are rows too. *)
LEMMA RowsBegin ==
  ASSUME NEW C, NEW n \in Nat, NEW o, NEW t, Rows(C, n, o, t), NEW q \in 0..n
  PROVE  \A r \in 0..q : Begins(o[r], o[q])
<1> DEFINE a == [j \in 0..q |-> o[j]]
           b == [j \in 1..q |-> t[j]]
<1>1. /\ \A j \in 0..q : j \in 0..n /\ a[j] = o[j] /\ o[j] \in Seq(C)
      /\ \A j \in 1..q : j \in 1..n /\ j - 1 \in 0..q /\ j \in 0..q /\ b[j] = t[j] /\ t[j] \in Seq(Plain(C))
  BY DEF Rows
<1>2. a \in [0..q -> Seq(C)] /\ b \in [1..q -> Seq(Plain(C))]
  BY <1>1
<1>3. q \in Nat /\ q \in 0..q /\ 0 \in 0..q
  OBVIOUS
<1> HIDE DEF a, b
<1>4. ASSUME NEW j \in 1..q PROVE Grown(a[j - 1], b[j], a[j])
  <2>1. Grown(o[j - 1], t[j], o[j])
    BY <1>1 DEF Rows
  <2> QED
    BY <1>1, <2>1
<1>5. a[0] = <<>>
  BY <1>1, <1>3 DEF Rows
<1>6. Rows(C, q, a, b)
  BY <1>2, <1>4, <1>5 DEF Rows
<1>7. \A r \in 0..q : Begins(a[r], a[q])
  BY <1>3, <1>6, RowsGrow
<1> QED
  BY <1>1, <1>3, <1>7

(* What begins with all that a text begins with begins with it. *)
LEMMA BeginsOn ==
  ASSUME NEW a, NEW b, NEW z, Begins(a, b), Begins(b, z), Len(z) \in Nat
  PROVE  Begins(a, z)
  BY DEF Begins

(* The rows of a formatted text, in it and in any other text that begins with them. *)
LinesTrimmed(s) == [r \in 1..RowCount(s) |-> Trimmed(LinesOf(s)[r])]
Depths(s) == [r \in 0..RowCount(s) |-> Passes(s)[r].depth]

LEMMA RowsShared ==
  ASSUME NEW C, Space \in C, "\n" \in C, NEW s \in Seq(C), Uncut(s), StringsClose(s),
         NEW q \in 0..RowCount(s), NEW y \in Seq(C), Begins(Outs(s)[q], y)
  PROVE  Shared(C, q, Format(s), y, Outs(s), LinesTrimmed(s), Depths(s))
<1> DEFINE n == RowCount(s)
           o == Outs(s)
           f == Format(s)
           x == LinesTrimmed(s)
           D == Depths(s)
<1>1. /\ n \in Nat /\ Rows(C, n, o, RowsOf(s)) /\ f = o[n] /\ f \in Seq(C)
      /\ Passes(s)[0].depth = 0
  BY FormatWrites
<1>2. \A r \in 0..n : D[r] = Passes(s)[r].depth
  BY DEF Depths
<1>3. \A r \in 1..n : x[r] = Trimmed(LinesOf(s)[r])
  BY DEF LinesTrimmed
<1>4. \A r \in 0..n : Begins(o[r], f)
  <2> HIDE DEF n, o, f
  <2> QED
    BY <1>1, RowsGrow
<1>5. \A r \in 0..q : Begins(o[r], o[q])
  <2> HIDE DEF n, o
  <2>1. q \in 0..n
    BY DEF n
  <2> QED
    BY <1>1, <2>1, RowsBegin
<1>6. o[0] = <<>> /\ D[0] = 0
  BY <1>1, <1>2 DEF Rows
<1>7. ASSUME NEW r \in 1..q
      PROVE  /\ \E w : RowIn(C, f, o[r - 1], o[r], x[r], w) /\ RowIn(C, y, o[r - 1], o[r], x[r], w)
             /\ ClosesFrom(x[r], 1) /\ D[r] = DepthAfter(D[r - 1], x[r])
  <2> DEFINE line == LinesOf(s)[r]
             d == Passes(s)[r - 1].depth
             t == Trimmed(line)
             a == o[r - 1]
             p == o[r]
  <2>1. r \in 1..RowCount(s) /\ r \in 1..n /\ r \in 0..n /\ r - 1 \in 0..n /\ r \in 0..q
    BY <1>1
  <2>2. x[r] = t /\ D[r] = Passes(s)[r].depth /\ D[r - 1] = d
    BY <1>2, <1>3, <2>1
  <2>3. ClosesFrom(t, 1) /\ Passes(s)[r].depth = DepthAfter(d, t) /\ RowStands(C, line, d, t, a, p)
    BY <2>1, RowsStand
  <2>4. Begins(p, f) /\ Begins(p, o[q])
    BY <1>4, <1>5, <2>1
  <2>5. Begins(p, y)
    <3>1. Len(y) \in Nat
      BY LenProperties
    <3> HIDE DEF p
    <3> DEFINE b == o[q]
    <3>2. Begins(p, b) /\ Begins(b, y)
      BY <2>4
    <3> HIDE DEF b
    <3> QED
      BY <3>1, <3>2, BeginsOn
  <2> HIDE DEF line, d, t, a, p, x, D, f
  <2>6. \E w : RowIn(C, f, a, p, t, w) /\ RowIn(C, y, a, p, t, w)
    BY <1>1, <2>3, <2>4, <2>5 DEF RowStands
  <2>7. \E w : RowIn(C, f, a, p, x[r], w) /\ RowIn(C, y, a, p, x[r], w)
    BY <2>2, <2>6
  <2>8. ClosesFrom(x[r], 1) /\ D[r] = DepthAfter(D[r - 1], x[r])
    BY <2>2, <2>3
  <2> QED
    BY <2>7, <2>8 DEF a, p
<1> HIDE DEF o, f, x, D
<1>8. Shared(C, q, f, y, o, x, D)
  BY <1>6, <1>7 DEF Shared
<1> QED
  BY <1>8 DEF o, f, x, D

(* The lines of a formatted text are indented by the nesting before them. *)
LEMMA NestingShown ==
  ASSUME NEW C, Space \in C, "\n" \in C, NEW s \in Seq(C), Uncut(s), StringsClose(s), EndsPlain(s),
         WellFormed(Tokens(s)), NEW f, f = Format(s), NEW i \in 1..Len(f), i = 1 \/ f[i - 1] = "\n",
         NEW ink, NEW g, InkAt(f, i, ink, g), ink <= Len(f)
  PROVE  Shows(i, ink, g, DepthAt(f, ink))
<1> DEFINE n == RowCount(s)
           o == Outs(s)
           t == RowsOf(s)
           x == LinesTrimmed(s)
           D == Depths(s)
           N == Len(f)
           last == ink - 1
           y == SubSeq(f, 1, last)
           tk == Tokens(f)
           tv == Tokens(y)
<1>1. n \in Nat /\ Rows(C, n, o, t) /\ f = o[n] /\ f \in Seq(C)
  BY FormatWrites
<1>2. N \in Nat
  BY <1>1, LenProperties
<1>3. ink \in i..N /\ \A j \in i..ink - 1 : f[j] = Space
  <2> DEFINE gaps == {j \in i..N : ~(f[j] = Space)}
  <2>1. gaps \in SUBSET (i..N) /\ i \in 1..N + 1 /\ ink = EndOf(gaps, N)
    BY <1>2 DEF InkAt
  <2>2. \A j \in i..N : j \notin gaps => f[j] = Space
    OBVIOUS
  <2>3. ink <= N /\ N \in Nat /\ i \in 1..N
    BY <1>2
  <2> HIDE DEF gaps, N
  <2>4. EndOf(gaps, N) \in i..N + 1 /\ \A j \in i..EndOf(gaps, N) - 1 : j \notin gaps
    BY <2>1, <2>3, EndOfTells
  <2>5. ink \in i..N + 1 /\ \A j \in i..ink - 1 : j \notin gaps
    BY <2>1, <2>4
  <2>6. ink \in i..N
    BY <2>3, <2>5
  <2>7. ASSUME NEW j \in i..ink - 1 PROVE f[j] = Space
    <3>1. j \in i..N
      BY <2>3, <2>6
    <3> QED
      BY <2>2, <2>5, <3>1
  <2> QED
    BY <2>6, <2>7
<1>4. PICK k \in 1..n : i = Len(o[k - 1]) + 1
  <2>1. i \in 1..Len(f) /\ (i = 1 \/ f[i - 1] = "\n")
    OBVIOUS
  <2> HIDE DEF n, o, t, N
  <2> QED
    BY <1>1, <2>1, LinesBeginRows
<1> DEFINE q == k - 1
           line == LinesOf(s)[k]
           txt == Trimmed(line)
           d == Passes(s)[q].depth
<1>5. q \in 0..n /\ k \in 0..n /\ D[q] = d
  BY <1>1 DEF Depths
<1>6. Begins(o[q], f) /\ Begins(o[k], f)
  <2>1. \A r \in 0..n : Begins(o[r], f)
    <3> HIDE DEF n, o, t
    <3> QED
      BY <1>1, RowsGrow
  <2> QED
    BY <1>5, <2>1
<1>7. last \in i - 1..N /\ last \in 0..N /\ last \in Nat
  BY <1>2, <1>3
<1>8. y \in Seq(C) /\ Len(y) = last /\ \A j \in 1..last : y[j] = f[j]
  <2> HIDE DEF last
  <2>1. last \in 0..Len(f)
    BY <1>7
  <2> QED
    BY <1>1, <2>1, PrefixIs
<1> HIDE DEF y
<1>9. Begins(o[q], y)
  <2> DEFINE b == o[q]
  <2>1. Len(b) \in Nat /\ Len(b) = i - 1 /\ \A j \in 1..Len(b) : f[j] = b[j]
    <3>1. Begins(b, f) /\ i = Len(b) + 1
      BY <1>4, <1>6
    <3> HIDE DEF b
    <3> QED
      BY <3>1 DEF Begins
  <2> HIDE DEF b, last
  <2>2. Begins(b, y)
    BY <1>7, <1>8, <2>1 DEF Begins
  <2> QED
    BY <2>2 DEF b
<1>10. Shared(C, q, f, y, o, x, D)
  <2>1. q \in 0..RowCount(s)
    BY <1>5
  <2> HIDE DEF q
  <2> QED
    BY <1>8, <1>9, <2>1, RowsShared
<1>11. Rising(tk) /\ tk \in Seq(TokensIn(f))
  <2>1. tk = Tokens(s)
    BY FormatKeepsTokens
  <2>2. Cancelled(Brackets(tk)) = <<>>
    BY <2>1 DEF WellFormed
  <2>3. tk \in Seq(TokensIn(f))
    <3>1. 1 \in 1..Len(f) + 1 /\ Len(f) \in Nat
      BY <1>2
    <3>2. Tokens(f) = TokensFrom(f)[1] /\ TokensFrom(f) \in [1..Len(f) + 1 -> Seq(TokensIn(f))]
      BY <3>1, TokensUnfold
    <3> QED
      BY <3>1, <3>2
  <2> HIDE DEF tk
  <2> QED
    BY <2>2, <2>3, WellFormedRises DEF Rising
<1>12. PICK h : Both(f, y, tk, tv, i, i, h, d)
  <2>1. q \in Nat
    BY <1>5
  <2> HIDE DEF q, o, x, D, d
  <2>2. \E h : Both(f, y, Tokens(f), Tokens(y), Len(o[q]) + 1, Len(o[q]) + 1, h, D[q])
    BY <1>1, <1>8, <1>10, <1>11, <2>1, RowsWalk
  <2>3. i = Len(o[q]) + 1
    BY <1>4 DEF q
  <2> QED
    BY <1>5, <2>2, <2>3
<1>13. DepthAt(f, ink) = d
  <2>1. Len(y) \in Nat /\ i \in 1..Len(y) + 1 /\ Len(y) + 1 \in i..Len(y) + 1
    <3> HIDE DEF last, N
    <3>1. last >= i - 1
      BY <1>2, <1>7
    <3> QED
      BY <1>7, <1>8, <3>1
  <2>2. \A j \in i..Len(y) : y[j] \in Spaces
    <3> SUFFICES ASSUME NEW j \in i..Len(y) PROVE y[j] \in Spaces
      OBVIOUS
    <3>1. j \in 1..last /\ j \in i..ink - 1
      BY <1>7, <1>8
    <3>2. y[j] = Space
      BY <1>3, <1>8, <3>1
    <3> QED
      BY <3>2, SpacesAre DEF Spaces, Space
  <2>3. TokensFrom(y)[i] = <<>>
    <3> DEFINE e == Len(y) + 1
    <3>1. e \in i..Len(y) + 1 /\ \A j \in i..e - 1 : y[j] \in Spaces
      BY <2>1, <2>2
    <3>2. TokensFrom(y)[e] = <<>>
      BY <2>1, NothingAfter
    <3> HIDE DEF e
    <3>3. TokensFrom(y)[i] = TokensFrom(y)[e]
      BY <2>1, <3>1, BlankRun
    <3> QED
      BY <3>2, <3>3
  <2>4. tv \in Seq(TokensIn(y))
    <3>1. 1 \in 1..Len(y) + 1
      BY <2>1
    <3>2. Tokens(y) = TokensFrom(y)[1] /\ TokensFrom(y) \in [1..Len(y) + 1 -> Seq(TokensIn(y))]
      BY <2>1, TokensUnfold
    <3> QED
      BY <3>1, <3>2
  <2> HIDE DEF tv
  <2>5. h \in 0..Len(tv) /\ Suffix(tv, h) = <<>> /\ Height(tv, h) = d
    BY <1>12, <2>3 DEF Both, Stands
  <2>6. Len(tv) \in Nat /\ Len(tv) - h = 0
    <3>1. Len(Suffix(tv, h)) = Len(tv) - h
      BY <2>4, <2>5, SuffixIs
    <3>2. Len(Suffix(tv, h)) = 0
      BY <2>5
    <3> QED
      BY <2>4, <3>1, <3>2, LenProperties
  <2>7. h = Len(tv)
    BY <2>5, <2>6
  <2>8. tv = Tokens(SubSeq(f, 1, ink - 1))
    BY DEF tv, y
  <2> QED
    BY <2>5, <2>7, <2>8, DepthIsHeight
<1>14. Shows(i, ink, g, d)
  <2> DEFINE a == o[q]
             p == o[k]
  <2>1. k \in 1..RowCount(s)
    OBVIOUS
  <2>2. RowStands(C, line, d, txt, a, p) /\ line \in Seq(Plain(C))
    BY <2>1, RowsStand
  <2>3. Begins(p, f) /\ i = Len(a) + 1
    BY <1>4, <1>6
  <2>4. Stands(f, tk, i, h, d)
    BY <1>12 DEF Both
  <2> HIDE DEF a, p, line, d, tk, N
  <2>5. RowThere(C, f, line, d, a, p, txt)
    BY <1>1, <2>2, <2>3 DEF RowStands, RowThere
  <2>7. f \in Seq(C) /\ tk \in Seq(TokensIn(f)) /\ Rising(tk) /\ line \in Seq(Plain(C))
    BY <1>1, <1>11, <2>2
  <2> DEFINE v == txt
  <2>8. v = Trimmed(line) /\ RowThere(C, f, line, d, a, p, v)
    BY <2>5
  <2> HIDE DEF v, n, q
  <2> QED
    BY <2>3, <2>4, <2>7, <2>8, RowShows
<1> QED
  BY <1>13, <1>14

(* The indentation of every line of a formatted text, as the reader's property puts it. *)
NestingIn(f) ==
  LET starts == {i \in 1..Len(f) : i = 1 \/ f[i - 1] = "\n"}
  IN  \A i \in starts :
        LET ink == EndOfRun(f, i, LAMBDA c : c = " ")
            closers == EndOfRun(f, ink, LAMBDA c : c \in Closings) - ink
        IN  (ink <= Len(f) /\ f[ink] \notin {"\n", ";"}) =>
              ink - i = 2 * (DepthAt(f, ink) - closers)

LEMMA NestingIsShown ==
  ASSUME NEW C, Space \in C, "\n" \in C, NEW s \in Seq(C), Uncut(s), StringsClose(s), EndsPlain(s),
         WellFormed(Tokens(s))
  PROVE  NestingIn(Format(s))
<1> DEFINE f == Format(s)
<1> SUFFICES ASSUME NEW i \in 1..Len(f), i = 1 \/ f[i - 1] = "\n",
                    NEW ink, ink = EndOfRun(f, i, LAMBDA c : c = " "),
                    NEW g, g = EndOfRun(f, ink, LAMBDA c : c \in Closings),
                    ink <= Len(f), f[ink] \notin {"\n", ";"}
             PROVE  ink - i = 2 * (DepthAt(f, ink) - (g - ink))
  BY DEF NestingIn
<1>1. ink = EndOf({j \in i..Len(f) : ~(f[j] = Space)}, Len(f))
  BY DEF EndOfRun, EndOf, Space
<1>2. g = EndOf({j \in ink..Len(f) : ~(f[j] \in Closings)}, Len(f))
  BY DEF EndOfRun, EndOf
<1>3. f[ink] # "\n" /\ f = Format(s)
  OBVIOUS
<1>4. InkAt(f, i, ink, g)
  BY <1>1, <1>2, <1>3 DEF InkAt
<1> HIDE DEF f
<1>5. Shows(i, ink, g, DepthAt(f, ink))
  BY <1>3, <1>4, NestingShown
<1> QED
  BY <1>5 DEF Shows

(* The indentation shows the nesting the compiler sees: if no line of any source       *)
(* outgrows the formatter's buffer, every string closes on its line and no source ends *)
(* in a colon, then in a formatted, well-formed source every line that begins with a   *)
(* token is indented by twice the forms open before it, less its leading closers.      *)
THEOREM FormattingShowsNesting ==
  ASSUME \A s \in Sources : Uncut(s) /\ StringsClose(s) /\ EndsPlain(s)
  PROVE  ReadSpec => []IndentShowsNesting
<1> DEFINE Sound(s) == s \in Seq(Alphabet) /\ Uncut(s) /\ StringsClose(s) /\ EndsPlain(s)
           Inv == \E s : Sound(s) /\ (src = s \/ src = Format(s))
<1>1. Space \in Alphabet /\ "\n" \in Alphabet
  BY SourcesAssumption
<1>2. ReadInit => Inv
  BY SourcesAssumption DEF ReadInit
<1>3. ASSUME [ReadNext]_readVars PROVE src' = src \/ src' = Format(src)
  BY <1>3 DEF ReadNext, Reformat, OpenForm, CloseForm, WrongCloser, Atom, LexError, Finish, readVars
<1>4. ASSUME NEW s, Sound(s) PROVE Format(Format(s)) = Format(s) /\ Tokens(Format(s)) = Tokens(s)
  BY <1>1, <1>4, FormatAgain, FormatKeepsTokens
<1>5. Inv /\ [ReadNext]_readVars => Inv'
  <2> SUFFICES ASSUME NEW s, Sound(s), src = s \/ src = Format(s), [ReadNext]_readVars
               PROVE  src' = s \/ src' = Format(s)
    OBVIOUS
  <2> QED
    BY <1>3, <1>4
<1>6. Inv => IndentShowsNesting
  <2> SUFFICES ASSUME NEW s, Sound(s), src = s \/ src = Format(s), WellFormed(Tokens(src))
               PROVE  NestingIn(Format(src))
    BY DEF IndentShowsNesting, NestingIn
  <2>1. WellFormed(Tokens(s)) /\ Format(src) = Format(s)
    BY <1>4
  <2>2. NestingIn(Format(s))
    BY <1>1, <2>1, NestingIsShown
  <2> QED
    BY <2>1, <2>2
<1> QED
  BY <1>2, <1>5, <1>6, PTL DEF ReadSpec
=============================================================================
