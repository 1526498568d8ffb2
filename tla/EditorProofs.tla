----------------------------- MODULE EditorProofs ----------------------------
(***************************************************************************)
(* The buffers of the editor, their history and what a save may write, for *)
(* every set of files, every text typed and every length of the history.   *)
(***************************************************************************)
EXTENDS Editor, PrnReaderProofs

(* A buffer over the characters C, its cursor and its selection inside it. *)
BuffersOf(C) ==
  {b \in [text : Seq(C), cursor : Nat, anchor : Int, of : Paths \cup {NoDocument}] :
     b.cursor <= Len(b.text) /\ NoAnchor <= b.anchor /\ b.anchor <= Len(b.text)}

(* The buffers of one document. *)
Versions(C, of) == {b \in BuffersOf(C) : b.of = of}

(* The buffer b with its history: one document, and no more than one stack. *)
Fits(C, b, past, future) ==
  /\ b \in BuffersOf(C)
  /\ past \in Seq(Versions(C, b.of)) /\ future \in Seq(Versions(C, b.of))
  /\ Len(past) + Len(future) <= UndoMax

(* Only what a hex view shows may hold a piece of a dump. *)
Ink == IF hex THEN Chars \cup {Dump} ELSE Chars

IInv ==
  /\ disk \in [Paths -> Files] /\ path \in Paths /\ hex \in BOOLEAN /\ overlay \in BOOLEAN
  /\ drag = NoPosition \/ drag \in Nat
  /\ Fits(Ink, buf, undo, redo)

-----------------------------------------------------------------------------
(* The editor's scan of the text before the cursor, from each place and depth there. *)
CommentAt(text, to, i) == text[i] = Semicolon /\ i < to /\ text[i + 1] = Semicolon
BreakAfter(text, to, i) == Min({j \in i..to + 1 : j = to + 1 \/ text[j] = "\n"})
EditorFrom(text, to, f, p) ==
  IF p[1] > to THEN p[2]
  ELSE IF CommentAt(text, to, p[1]) THEN f[<<BreakAfter(text, to, p[1]), p[2]>>]
  ELSE IF text[p[1]] = Quote THEN f[<<AfterQuote(text, to)[p[1] + 1], p[2]>>]
  ELSE IF text[p[1]] \in Openings THEN f[<<p[1] + 1, p[2] + 1>>]
  ELSE IF text[p[1]] \in Closings /\ p[2] > 0 THEN f[<<p[1] + 1, p[2] - 1>>]
  ELSE f[<<p[1] + 1, p[2]>>]
EditorScan(text, to) == CHOOSE f : f = [p \in Places(to) |-> EditorFrom(text, to, f, p)]

(* There is such a scan, and it gives a depth. *)
LEMMA EditorUnfold ==
  ASSUME NEW text, NEW to \in Nat
  PROVE  /\ ParenDepthBefore(text, to) = EditorScan(text, to)[<<1, 0>>]
         /\ \A p \in Places(to) : EditorScan(text, to)[p] \in Nat
         /\ \A i \in 1..to + 1, k \in Nat :
              EditorScan(text, to)[<<i, k>>] =
                IF i > to THEN k
                ELSE IF CommentAt(text, to, i) THEN EditorScan(text, to)[<<BreakAfter(text, to, i), k>>]
                ELSE EditorScan(text, to)[Onward(text, to, i, k)]
<1> DEFINE Comment(i) == CommentAt(text, to, i)
           Break(i) == BreakAfter(text, to, i)
           stop == {p \in Places(to) : p[1] > to}
           onward(i, k) == IF Comment(i) THEN <<Break(i), k>> ELSE Onward(text, to, i, k)
           next == [p \in Places(to) |-> IF p \in stop THEN p ELSE onward(p[1], p[2])]
           Rest(f, p) == EditorFrom(text, to, f, p)
           Is(f) == f = [p \in Places(to) |-> Rest(f, p)]
<1>1. ASSUME NEW i \in 1..to, NEW k \in Nat
      PROVE  onward(i, k) \in Places(to) /\ onward(i, k)[1] > i
  <2> DEFINE S == {j \in i..to + 1 : j = to + 1 \/ text[j] = "\n"}
  <2>1. S \in SUBSET Nat /\ S # {}
    OBVIOUS
  <2>2. Break(i) \in S
    <3>1. Break(i) = Min(S)
      BY DEF BreakAfter
    <3> HIDE DEF S
    <3>2. Min(S) \in S
      BY <2>1, MinIsLeast
    <3> QED
      BY <3>1, <3>2
  <2>3. CASE Comment(i)
    <3>1. PICK j \in i..to + 1 : j = Break(i) /\ (j = to + 1 \/ text[j] = "\n")
      BY <2>2
    <3>2. onward(i, k) = <<j, k>>
      BY <2>3, <3>1
    <3>3. j > i
      <4>1. Semicolon # "\n"
        BY Zenon DEF Semicolon
      <4>2. j # i
        BY <2>3, <3>1, <4>1 DEF CommentAt
      <4> QED
        BY <4>2
    <3> HIDE DEF onward
    <3> QED
      BY <3>2, <3>3 DEF Places
  <2>4. CASE ~Comment(i)
    BY <2>4, OnwardIs
  <2> QED
    BY <2>3, <2>4
<1>2. Forward(to, stop, next)
  <2> HIDE DEF onward
  <2>1. ASSUME NEW p \in Places(to), p \notin stop
        PROVE  next[p] \in Places(to) /\ next[p][1] > p[1]
    <3>1. PICK i \in 1..to, k \in Nat : p = <<i, k>>
      <4>1. PICK i \in 1..to + 1, k \in Nat : p = <<i, k>>
        BY DEF Places
      <4>2. ~(i > to)
        BY <2>1, <4>1
      <4> QED
        BY <4>1, <4>2
    <3>2. next[p] = onward(i, k)
      BY <2>1, <3>1
    <3> HIDE DEF next
    <3> QED
      BY <1>1, <3>1, <3>2
  <2>2. next \in [Places(to) -> Places(to)]
    <3>1. \A p \in Places(to) : next[p] \in Places(to)
      <4> HIDE DEF stop
      <4>1. ASSUME NEW p \in Places(to), p \in stop PROVE next[p] \in Places(to)
        BY <4>1
      <4> HIDE DEF next
      <4> QED
        BY <2>1, <4>1
    <3> QED
      BY <3>1
  <2> HIDE DEF stop, next
  <2> QED
    BY <2>1, <2>2 DEF Forward
<1>3. PICK f : Scanner(f, to, stop, next) /\ f \in [Places(to) -> Nat]
  <2> HIDE DEF stop, next
  <2> QED
    BY <1>2, ScannerExists
<1>4. ASSUME NEW g, NEW p \in Places(to)
      PROVE  Rest(g, p) = IF p \in stop THEN p[2] ELSE g[next[p]]
  BY DEF Onward, EditorFrom
<1>5. Is(f)
  <2> HIDE DEF stop, next, Rest
  <2> QED
    BY <1>3, <1>4 DEF Scanner
<1> DEFINE scan == EditorScan(text, to)
<1>6. ParenDepthBefore(text, to) = scan[<<1, 0>>]
  BY DEF ParenDepthBefore, EditorScan, EditorFrom, CommentAt, BreakAfter, Places
<1>7. Is(scan)
  <2>1. scan = CHOOSE g : Is(g)
    BY DEF EditorScan
  <2> HIDE DEF Is
  <2> QED
    BY <1>5, <2>1
<1> HIDE DEF scan
<1>8. Scanner(scan, to, stop, next)
  <2> HIDE DEF stop, next, Rest
  <2> QED
    BY <1>4, <1>7 DEF Scanner
<1>9. \A p \in Places(to) : scan[p] \in Nat
  <2> HIDE DEF stop, next
  <2> QED
    BY <1>2, <1>8, ScannerGivesDepth
<1>10. ASSUME NEW i \in 1..to + 1, NEW k \in Nat
       PROVE  scan[<<i, k>>] = IF i > to THEN k ELSE scan[onward(i, k)]
  <2> DEFINE p == <<i, k>>
  <2>1. p \in Places(to) /\ p[1] = i /\ p[2] = k
    BY DEF Places
  <2>2. p \in stop <=> i > to
    BY <2>1
  <2>3. p \notin stop => next[p] = onward(i, k)
    BY <2>1
  <2> HIDE DEF p, stop, next, onward
  <2>4. scan[p] = IF p \in stop THEN p[2] ELSE scan[next[p]]
    BY <1>8, <2>1 DEF Scanner
  <2>5. scan[p] = IF i > to THEN k ELSE scan[onward(i, k)]
    BY <2>1, <2>2, <2>3, <2>4
  <2> QED
    BY <2>5 DEF p
<1> QED
  BY <1>6, <1>9, <1>10 DEF scan

(* It gives a depth. *)
LEMMA ParenDepthBeforeIs ==
  ASSUME NEW text, NEW to \in Nat
  PROVE  ParenDepthBefore(text, to) \in Nat
<1>1. <<1, 0>> \in Places(to)
  BY DEF Places
<1> QED
  BY <1>1, EditorUnfold

-----------------------------------------------------------------------------
(* What a buffer is. *)
LEMMA BufferIs ==
  ASSUME NEW C, NEW b \in BuffersOf(C)
  PROVE  /\ b \in [text : Seq(C), cursor : Nat, anchor : Int, of : Paths \cup {NoDocument}]
         /\ Len(b.text) \in Nat /\ b.text \in Seq(C)
         /\ b.cursor \in 0..Len(b.text) /\ b.anchor \in -1..Len(b.text)
BY DEF BuffersOf, NoAnchor

(* What an edit makes of a buffer b: the text t, the cursor at c, nothing selected. *)
Edited(b, t, c) == [b EXCEPT !.text = t, !.cursor = c, !.anchor = NoAnchor]

(* A buffer given a new text and a cursor inside it. *)
LEMMA EditedFits ==
  ASSUME NEW C, NEW b \in BuffersOf(C), NEW t \in Seq(C), NEW c \in 0..Len(t)
  PROVE  /\ Edited(b, t, c) \in BuffersOf(C) /\ Edited(b, t, c).of = b.of
         /\ Edited(b, t, c).text = t /\ Edited(b, t, c).cursor = c
         /\ Edited(b, t, c).anchor = NoAnchor
<1>1. b \in [text : Seq(C), cursor : Nat, anchor : Int, of : Paths \cup {NoDocument}]
  BY DEF BuffersOf
<1>2. Len(t) \in Nat
  BY LenProperties
<1>3. /\ Edited(b, t, c).of = b.of /\ Edited(b, t, c).text = t
      /\ Edited(b, t, c).cursor = c /\ Edited(b, t, c).anchor = NoAnchor
  BY <1>1 DEF Edited
<1>4. Edited(b, t, c) \in [text : Seq(C), cursor : Nat, anchor : Int, of : Paths \cup {NoDocument}]
  <2> DEFINE R == [text : Seq(C), cursor : Nat, anchor : Int, of : Paths \cup {NoDocument}]
             b1 == [b EXCEPT !.text = t]
             b2 == [b1 EXCEPT !.cursor = c]
  <2>1. b1 \in R
    BY <1>1
  <2>2. b2 \in R
    <3> HIDE DEF b1
    <3> QED
      BY <1>2, <2>1
  <2>3. [b2 EXCEPT !.anchor = NoAnchor] \in R
    <3> HIDE DEF b2
    <3> QED
      BY <2>2 DEF NoAnchor
  <2> QED
    BY <2>3 DEF Edited
<1> QED
  BY <1>2, <1>3, <1>4 DEF BuffersOf, NoAnchor

(* delete-range keeps what is before and after the range. *)
LEMMA WithoutFits ==
  ASSUME NEW C, NEW b \in BuffersOf(C), NEW from \in 0..Len(b.text), NEW to \in from..Len(b.text)
  PROVE  /\ Without(b, from, to) \in BuffersOf(C) /\ Without(b, from, to).of = b.of
         /\ Without(b, from, to).cursor = from /\ Without(b, from, to).anchor = NoAnchor
         /\ Without(b, from, to).text
            = Cat(SubSeq(b.text, 1, from), SubSeq(b.text, to + 1, Len(b.text)))
<1> DEFINE head == SubSeq(b.text, 1, from)
           tail == SubSeq(b.text, to + 1, Len(b.text))
<1>1. Len(b.text) \in Nat /\ b.text \in Seq(C)
  BY BufferIs
<1>2. head \in Seq(C) /\ Len(head) = from
  BY <1>1, PrefixIs
<1>3. tail \in Seq(C) /\ Len(tail) = Len(b.text) - to
  BY <1>1, SubSeqIs
<1>4. Without(b, from, to) = Edited(b, Cat(head, tail), from)
  BY DEF Without, Edited, Cat
<1> HIDE DEF head, tail
<1>5. Cat(head, tail) \in Seq(C) /\ Len(Cat(head, tail)) = from + (Len(b.text) - to)
  BY <1>2, <1>3, CatIsSeq, CatLength
<1>6. from \in 0..Len(Cat(head, tail))
  BY <1>1, <1>5
<1> QED
  BY <1>4, <1>5, <1>6, EditedFits DEF head, tail

(* A selection is a range of the text, from the anchor to the cursor or back. *)
LEMMA SelectionIs ==
  ASSUME NEW C, NEW b \in BuffersOf(C), HasSelection(b)
  PROVE  /\ SelectionStart(b) \in 0..Len(b.text) /\ SelectionEnd(b) \in SelectionStart(b)..Len(b.text)
         /\ SelectionStart(b) \in {b.anchor, b.cursor} /\ SelectionEnd(b) \in {b.anchor, b.cursor}
BY BufferIs, MinOfTwo, MaxOfTwo DEF HasSelection, SelectionStart, SelectionEnd

(* delete-selection stays a buffer of its document. *)
LEMMA DeleteSelectionFits ==
  ASSUME NEW C, NEW b \in BuffersOf(C), HasSelection(b)
  PROVE  DeleteSelection(b) \in BuffersOf(C) /\ DeleteSelection(b).of = b.of
<1>1. SelectionStart(b) \in 0..Len(b.text) /\ SelectionEnd(b) \in SelectionStart(b)..Len(b.text)
  BY SelectionIs
<1> QED
  BY <1>1, WithoutFits DEF DeleteSelection

(* So does insert-at-cursor ... *)
LEMMA InsertFits ==
  ASSUME NEW C, NEW b \in BuffersOf(C), NEW s \in Seq(C)
  PROVE  InsertAtCursor(b, s) \in BuffersOf(C) /\ InsertAtCursor(b, s).of = b.of
<1> DEFINE head == SubSeq(b.text, 1, b.cursor)
           tail == SubSeq(b.text, b.cursor + 1, Len(b.text))
<1>1. /\ b \in [text : Seq(C), cursor : Nat, anchor : Int, of : Paths \cup {NoDocument}]
      /\ Len(b.text) \in Nat /\ b.text \in Seq(C) /\ b.cursor \in 0..Len(b.text) /\ Len(s) \in Nat
  BY BufferIs, LenProperties
<1>2. head \in Seq(C) /\ Len(head) = b.cursor
  BY <1>1, PrefixIs
<1>3. tail \in Seq(C) /\ Len(tail) = Len(b.text) - b.cursor
  BY <1>1, SubSeqIs
<1>4. InsertAtCursor(b, s) = Edited(b, Cat(Cat(head, s), tail), b.cursor + Len(s))
  BY DEF InsertAtCursor, Edited, Cat
<1> HIDE DEF head, tail
<1>5. Cat(head, s) \in Seq(C) /\ Len(Cat(head, s)) = b.cursor + Len(s)
  BY <1>1, <1>2, CatIsSeq, CatLength
<1> DEFINE front == Cat(head, s)
<1>6. front \in Seq(C) /\ Len(front) = b.cursor + Len(s)
  BY <1>5
<1> HIDE DEF front
<1>7. Cat(front, tail) \in Seq(C) /\ Len(Cat(front, tail)) = (b.cursor + Len(s)) + (Len(b.text) - b.cursor)
  BY <1>1, <1>3, <1>6, CatIsSeq, CatLength
<1>8. b.cursor + Len(s) \in 0..Len(Cat(front, tail))
  BY <1>1, <1>7
<1> QED
  BY <1>4, <1>7, <1>8, EditedFits DEF front

(* ... and so does an insertion over a selection. *)
LEMMA ReplaceFits ==
  ASSUME NEW C, NEW b \in BuffersOf(C), NEW s \in Seq(C)
  PROVE  ReplaceSelection(b, s) \in BuffersOf(C) /\ ReplaceSelection(b, s).of = b.of
<1>1. CASE HasSelection(b)
  BY <1>1, DeleteSelectionFits, InsertFits DEF ReplaceSelection
<1>2. CASE ~HasSelection(b)
  BY <1>2, InsertFits DEF ReplaceSelection
<1> QED
  BY <1>1, <1>2

-----------------------------------------------------------------------------
(* Where the cursor can go is inside the text. *)
LEMMA PrevBoundaryIs ==
  ASSUME NEW C, NEW t \in Seq(C), NEW loc \in 0..Len(t)
  PROVE  /\ PrevBoundary(t, loc) \in 0..loc
         /\ loc > 0 => /\ PrevBoundary(t, loc) < loc
                       /\ PrevBoundary(t, loc) = 0 \/ t[PrevBoundary(t, loc) + 1] # Cont
<1> DEFINE S == {0} \cup {i \in 0..loc - 1 : t[i + 1] # Cont}
<1>0. loc \in Nat
  BY LenProperties
<1>1. CASE loc = 0
  BY <1>1 DEF PrevBoundary
<1>2. CASE loc > 0
  <2>1. S \in SUBSET (0..loc - 1) /\ S # {} /\ loc - 1 \in Nat
    BY <1>0, <1>2
  <2>2. PrevBoundary(t, loc) = Max(S)
    BY <1>0, <1>2 DEF PrevBoundary
  <2>3. Max(S) \in S
    <3> HIDE DEF S
    <3> QED
      BY <2>1, MaxIsGreatest
  <2> QED
    BY <1>0, <2>1, <2>2, <2>3
<1> QED
  BY <1>0, <1>1, <1>2

(* The next boundary is ahead, within the text. *)
LEMMA NextBoundaryIs ==
  ASSUME NEW C, NEW t \in Seq(C), NEW loc \in 0..Len(t)
  PROVE  NextBoundary(t, loc) \in loc..Len(t) /\ (loc < Len(t) => NextBoundary(t, loc) > loc)
<1> DEFINE n == loc + (IF loc < Len(t) /\ t[loc + 1] = Lead THEN 2 ELSE 1)
<1>1. Len(t) \in Nat /\ n \in Nat /\ n > loc
  BY LenProperties
<1>2. NextBoundary(t, loc) = Min({Len(t), n})
  BY DEF NextBoundary
<1> HIDE DEF n
<1> QED
  BY <1>1, <1>2, MinOfTwo

(* The start of a line is not after the cursor ... *)
LEMMA LineStartIs ==
  ASSUME NEW C, NEW t \in Seq(C), NEW loc \in 0..Len(t)
  PROVE  LineStart(t, loc) \in 0..loc
<1> DEFINE S == {0} \cup {i \in 1..loc : t[i] = "\n"}
<1>1. loc \in Nat /\ S \in SUBSET (0..loc) /\ S # {}
  BY LenProperties
<1>2. LineStart(t, loc) = Max(S)
  BY DEF LineStart
<1> HIDE DEF S
<1> QED
  BY <1>1, <1>2, MaxIsGreatest

(* ... and its end not before it. *)
LEMMA LineEndIs ==
  ASSUME NEW C, NEW t \in Seq(C), NEW loc \in 0..Len(t)
  PROVE  LineEnd(t, loc) \in loc..Len(t)
<1> DEFINE S == {Len(t)} \cup {i \in loc..Len(t) - 1 : t[i + 1] = "\n"}
<1>1. S \in SUBSET Nat /\ S # {} /\ S \subseteq loc..Len(t)
  BY LenProperties
<1>2. LineEnd(t, loc) = Min(S)
  BY DEF LineEnd
<1> HIDE DEF S
<1> QED
  BY <1>1, <1>2, MinIsLeast

(* Every arrow key leads to a place in the text. *)
LEMMA TargetFits ==
  ASSUME NEW C, NEW b \in BuffersOf(C), NEW key \in {"left", "right", "up", "down", "home", "end"}
  PROVE  Target(b, key) \in 0..Len(b.text)
<1> DEFINE t == b.text
           start == LineStart(t, b.cursor)
           end == LineEnd(t, b.cursor)
<1>1. t \in Seq(C) /\ Len(t) \in Nat /\ b.cursor \in 0..Len(t)
  BY BufferIs
<1>2. start \in 0..b.cursor /\ end \in b.cursor..Len(t)
  BY <1>1, LineStartIs, LineEndIs
<1>3. ASSUME NEW s \in 0..Len(t) PROVE AtColumn(b, s) \in 0..Len(t)
  <2>1. LineEnd(t, s) \in s..Len(t)
    BY <1>1, LineEndIs
  <2>2. Column(b) \in Nat
    BY <1>1, <1>2 DEF Column
  <2>3. AtColumn(b, s) = s + Min({Column(b), LineEnd(t, s) - s})
    BY DEF AtColumn
  <2> QED
    BY <1>1, <2>1, <2>2, <2>3, MinOfTwo
<1>4. PrevBoundary(t, b.cursor) \in 0..Len(t)
  <2>1. PrevBoundary(t, b.cursor) \in 0..b.cursor
    BY <1>1, PrevBoundaryIs
  <2> QED
    BY <1>1, <2>1
<1>5. NextBoundary(t, b.cursor) \in 0..Len(t)
  <2>1. NextBoundary(t, b.cursor) \in b.cursor..Len(t)
    BY <1>1, NextBoundaryIs
  <2> QED
    BY <1>1, <2>1
<1>6. start # 0 => AtColumn(b, LineStart(t, start - 1)) \in 0..Len(t)
  <2> SUFFICES ASSUME start # 0 PROVE AtColumn(b, LineStart(t, start - 1)) \in 0..Len(t)
    OBVIOUS
  <2>1. start - 1 \in 0..Len(t)
    BY <1>1, <1>2
  <2>2. LineStart(t, start - 1) \in 0..start - 1
    BY <1>1, <2>1, LineStartIs
  <2> QED
    BY <1>1, <1>2, <1>3, <2>2
<1>7. ~(end >= Len(t)) => AtColumn(b, end + 1) \in 0..Len(t)
  <2>1. ~(end >= Len(t)) => end + 1 \in 0..Len(t)
    BY <1>1, <1>2
  <2> HIDE DEF end
  <2> QED
    BY <1>3, <2>1
<1> QED
  BY <1>1, <1>2, <1>4, <1>5, <1>6, <1>7 DEF Target

-----------------------------------------------------------------------------
(* Moving about leaves the text as it is. *)
LEMMA MovedFits ==
  ASSUME NEW C, NEW b \in BuffersOf(C), NEW shift,
         NEW key \in {"left", "right", "up", "down", "home", "end"}
  PROVE  /\ Moved(b, key, shift) \in BuffersOf(C)
         /\ Moved(b, key, shift).of = b.of /\ Moved(b, key, shift).text = b.text
         /\ Moved(b, key, shift).cursor = Target(b, key)
<1> DEFINE R == [text : Seq(C), cursor : Nat, anchor : Int, of : Paths \cup {NoDocument}]
           t == Target(b, key)
           a == IF ~shift \/ key \in {"home", "end"} THEN NoAnchor
                ELSE IF HasSelection(b) THEN b.anchor ELSE b.cursor
           b1 == [b EXCEPT !.cursor = t]
<1>1. /\ b \in R /\ Len(b.text) \in Nat
      /\ b.cursor \in 0..Len(b.text) /\ b.anchor \in -1..Len(b.text)
  BY BufferIs
<1>2. t \in 0..Len(b.text)
  BY TargetFits
<1>3. a \in -1..Len(b.text)
  BY <1>1 DEF NoAnchor
<1>4. Moved(b, key, shift) = [b1 EXCEPT !.anchor = a]
  BY <1>1 DEF Moved
<1> HIDE DEF t, a
<1>5. b1 \in R /\ b1.text = b.text /\ b1.of = b.of /\ b1.cursor = t
  BY <1>1, <1>2
<1> HIDE DEF b1
<1> DEFINE b2 == [b1 EXCEPT !.anchor = a]
<1>6. b2 \in R /\ b2.text = b.text /\ b2.of = b.of /\ b2.cursor = t /\ b2.anchor = a
  BY <1>1, <1>3, <1>5
<1> HIDE DEF b2
<1>7. b2 \in BuffersOf(C)
  BY <1>1, <1>2, <1>3, <1>6 DEF BuffersOf, NoAnchor
<1> QED
  BY <1>4, <1>6, <1>7 DEF b2, t

(* A clamped position is a place in the text. *)
LEMMA ClampIs ==
  ASSUME NEW b, Len(b.text) \in Nat, NEW p \in Int
  PROVE  Clamp(b, p) \in 0..Len(b.text)
<1> DEFINE n == Len(b.text)
           low == Min({p, n})
<1>1. n \in Nat
  OBVIOUS
<1>2. Clamp(b, p) = Max({0, low})
  BY DEF Clamp
<1> HIDE DEF n
<1>3. low \in Int /\ low <= n
  BY <1>1, MinOfTwo
<1> HIDE DEF low
<1>4. Max({0, low}) \in 0..n
  BY <1>1, <1>3, MaxOfTwo
<1> QED
  BY <1>2, <1>4 DEF n

(* The cursor at c, and where the selection began at a. *)
At(b, c, a) == [b EXCEPT !.cursor = c, !.anchor = a]

(* A buffer given a cursor and an anchor inside its text. *)
LEMMA AtFits ==
  ASSUME NEW C, NEW b \in BuffersOf(C), NEW c \in 0..Len(b.text), NEW a \in -1..Len(b.text)
  PROVE  At(b, c, a) \in BuffersOf(C) /\ At(b, c, a).of = b.of /\ At(b, c, a).text = b.text
<1> DEFINE R == [text : Seq(C), cursor : Nat, anchor : Int, of : Paths \cup {NoDocument}]
           b1 == [b EXCEPT !.cursor = c]
<1>1. b \in R /\ Len(b.text) \in Nat
  BY BufferIs
<1>2. b1 \in R /\ b1.text = b.text /\ b1.of = b.of /\ b1.cursor = c
  BY <1>1
<1>3. At(b, c, a) = [b1 EXCEPT !.anchor = a]
  BY <1>1 DEF At
<1> HIDE DEF b1
<1> DEFINE b2 == [b1 EXCEPT !.anchor = a]
<1>4. b2 \in R /\ b2.text = b.text /\ b2.of = b.of /\ b2.cursor = c /\ b2.anchor = a
  BY <1>1, <1>2
<1> HIDE DEF b2
<1>5. b2 \in BuffersOf(C)
  BY <1>1, <1>4 DEF BuffersOf, NoAnchor
<1> QED
  BY <1>3, <1>4, <1>5 DEF b2

(* A click and a drag, wherever they hit, leave the text as it is. *)
LEMMA SetFits ==
  ASSUME NEW C, NEW b \in BuffersOf(C), NEW anchor \in Nat, NEW loc \in Nat
  PROVE  /\ SetCursor(b, loc) \in BuffersOf(C) /\ SetSelection(b, anchor, loc) \in BuffersOf(C)
         /\ SetCursor(b, loc).of = b.of /\ SetSelection(b, anchor, loc).of = b.of
         /\ SetCursor(b, loc).text = b.text /\ SetSelection(b, anchor, loc).text = b.text
<1>1. Len(b.text) \in Nat
  BY BufferIs
<1>2. Clamp(b, loc) \in 0..Len(b.text) /\ Clamp(b, anchor) \in 0..Len(b.text)
  BY <1>1, ClampIs
<1>3. /\ SetCursor(b, loc) = At(b, Clamp(b, loc), NoAnchor)
      /\ SetSelection(b, anchor, loc) = At(b, Clamp(b, loc), Clamp(b, anchor))
  BY DEF SetCursor, SetSelection, At
<1>4. NoAnchor \in -1..Len(b.text) /\ Clamp(b, anchor) \in -1..Len(b.text)
  BY <1>1, <1>2 DEF NoAnchor
<1> QED
  BY <1>2, <1>3, <1>4, AtFits

(* What a load or a save shows. *)
LEMMA FreshFits ==
  ASSUME NEW C, NEW of \in Paths \cup {NoDocument}, NEW text \in Seq(C)
  PROVE  /\ NewBuffer(of) \in BuffersOf(C) /\ FromText(text, of) \in BuffersOf(C)
         /\ NewBuffer(of).of = of /\ FromText(text, of).of = of
<1> DEFINE new == NewBuffer(of)
<1>1. /\ new \in BuffersOf(C) /\ new.of = of
      /\ new \in [text : Seq(C), cursor : Nat, anchor : Int, of : Paths \cup {NoDocument}]
  BY EmptySeq DEF NewBuffer, BuffersOf, NoAnchor
<1>2. FromText(text, of) = Edited(new, text, Len(text))
  <2>1. new.anchor = NoAnchor
    BY DEF NewBuffer
  <2>2. [new EXCEPT !.text = text, !.cursor = Len(text)]
        = [new EXCEPT !.text = text, !.cursor = Len(text), !.anchor = NoAnchor]
    BY <1>1, <2>1
  <2> QED
    BY <2>2 DEF FromText, Edited
<1>3. Len(text) \in 0..Len(text)
  BY LenProperties
<1> HIDE DEF new
<1>4. Edited(new, text, Len(text)) \in BuffersOf(C) /\ Edited(new, text, Len(text)).of = of
  BY <1>1, <1>3, EditedFits
<1> QED
  BY <1>1, <1>2, <1>4 DEF new

-----------------------------------------------------------------------------
(* What happens to the history.                                            *)

(* A full stack makes room. *)
LEMMA PushIs ==
  ASSUME NEW B, NEW turns \in Seq(B), NEW b \in B, Len(turns) <= UndoMax
  PROVE  Push(turns, b) \in Seq(B) /\ Len(Push(turns, b)) <= UndoMax
<1> DEFINE kept == IF Len(turns) < UndoMax THEN turns ELSE Tail(turns)
<1>0. UndoMax \in Nat /\ UndoMax > 0 /\ Len(turns) \in Nat
  BY EditorAssumption, LenProperties
<1>1. CASE Len(turns) < UndoMax
  <2>1. kept = turns
    BY <1>1
  <2> QED
    BY <1>0, <1>1, <2>1, AppendProperties DEF Push
<1>2. CASE ~(Len(turns) < UndoMax)
  <2>1. kept = Tail(turns) /\ turns # <<>>
    BY <1>0, <1>2, EmptySeq
  <2>2. Tail(turns) \in Seq(B) /\ Len(Tail(turns)) = Len(turns) - 1
    BY <2>1, HeadTailProperties
  <2> DEFINE rest == Tail(turns)
  <2> HIDE DEF rest
  <2>3. Append(rest, b) \in Seq(B) /\ Len(Append(rest, b)) = Len(rest) + 1
    BY <2>2, AppendProperties DEF rest
  <2>4. Push(turns, b) = Append(rest, b)
    BY <1>2 DEF Push, rest
  <2> QED
    BY <1>0, <2>2, <2>3, <2>4 DEF rest
<1> QED
  BY <1>1, <1>2

(* A stack without its top. *)
LEMMA FrontIs ==
  ASSUME NEW B, NEW turns \in Seq(B), turns # <<>>
  PROVE  /\ Front(turns) \in Seq(B) /\ Len(Front(turns)) = Len(turns) - 1 /\ Last(turns) \in B
         /\ \A i \in 1..Len(turns) - 1 : Front(turns)[i] = turns[i]
<1> DEFINE n == Len(turns)
<1>1. n \in Nat /\ n > 0
  BY EmptySeq, LenProperties
<1>2. n - 1 \in 0..n
  BY <1>1
<1>3. /\ SubSeq(turns, 1, n - 1) \in Seq(B) /\ Len(SubSeq(turns, 1, n - 1)) = n - 1
      /\ \A i \in 1..n - 1 : SubSeq(turns, 1, n - 1)[i] = turns[i]
  BY <1>2, PrefixIs
<1>4. turns[n] \in B
  BY <1>1, ElementOfSeq
<1> QED
  BY <1>3, <1>4 DEF Front, Last

(* What fits is a buffer and two stacks of bounded length. *)
LEMMA FitsIs ==
  ASSUME NEW C, NEW b, NEW past, NEW future, Fits(C, b, past, future)
  PROVE  /\ b \in BuffersOf(C) /\ b \in Versions(C, b.of)
         /\ Len(past) \in Nat /\ Len(future) \in Nat /\ UndoMax \in Nat \ {0}
         /\ Len(past) <= UndoMax /\ Len(future) <= UndoMax
BY LenProperties, EditorAssumption DEF Fits, Versions

(* A new edit pushes the buffer and drops what could be redone. *)
LEMMA EditKeepsFit ==
  ASSUME NEW C, NEW b, NEW past, NEW future, Fits(C, b, past, future),
         NEW c \in BuffersOf(C), c.of = b.of
  PROVE  Fits(C, c, Push(past, b), <<>>)
<1>1. b \in Versions(C, b.of) /\ Len(past) <= UndoMax /\ past \in Seq(Versions(C, b.of))
  BY FitsIs DEF Fits
<1>2. Push(past, b) \in Seq(Versions(C, b.of)) /\ Len(Push(past, b)) <= UndoMax
  BY <1>1, PushIs
<1>3. <<>> \in Seq(Versions(C, b.of)) /\ Len(<<>>) = 0 /\ Len(Push(past, b)) \in Nat
  BY <1>2, EmptySeq, LenProperties
<1> QED
  BY <1>2, <1>3 DEF Fits

(* The history fits whatever else the document's buffer becomes. *)
LEMMA MoveKeepsFit ==
  ASSUME NEW C, NEW b, NEW past, NEW future, Fits(C, b, past, future),
         NEW c \in BuffersOf(C), c.of = b.of
  PROVE  Fits(C, c, past, future)
BY DEF Fits

(* An empty history fits every buffer. *)
LEMMA LoadFits ==
  ASSUME NEW C, NEW b \in BuffersOf(C)
  PROVE  Fits(C, b, <<>>, <<>>)
BY EmptySeq, EditorAssumption DEF Fits

(* One step back; one forward is the same with the stacks exchanged. *)
LEMMA WalkKeepsFit ==
  ASSUME NEW C, NEW b, NEW past, NEW future, Fits(C, b, past, future), past # <<>>
  PROVE  /\ Fits(C, Last(past), Front(past), Push(future, b))
         /\ Push(future, b) = Append(future, b)
<1> DEFINE V == Versions(C, b.of)
<1>1. /\ b \in V /\ Len(past) \in Nat /\ Len(future) \in Nat /\ UndoMax \in Nat
      /\ Len(future) <= UndoMax /\ past \in Seq(V) /\ future \in Seq(V)
      /\ Len(past) + Len(future) <= UndoMax
  BY FitsIs DEF Fits
<1> HIDE DEF V
<1>2. Front(past) \in Seq(V) /\ Len(Front(past)) = Len(past) - 1 /\ Last(past) \in V
  BY <1>1, FrontIs
<1>3. Len(past) > 0
  BY <1>1, EmptySeq
<1>4. Len(future) < UndoMax
  BY <1>1, <1>3
<1>5. Push(future, b) = Append(future, b)
  BY <1>4 DEF Push
<1>6. Append(future, b) \in Seq(V) /\ Len(Append(future, b)) = Len(future) + 1
  BY <1>1, AppendProperties
<1>7. Last(past) \in BuffersOf(C) /\ Last(past).of = b.of
  BY <1>2 DEF V, Versions
<1> QED
  BY <1>1, <1>2, <1>5, <1>6, <1>7 DEF Fits, V

(* Undo and redo mirror each other. *)
LEMMA FitsBothWays ==
  ASSUME NEW C, NEW b, NEW past, NEW future, Fits(C, b, past, future)
  PROVE  Fits(C, b, future, past)
BY FitsIs DEF Fits

-----------------------------------------------------------------------------
(* What can be typed, and what the formatter adds, is never of a dump. *)
LEMMA CharsHave ==
  /\ Space \in Chars /\ "\n" \in Chars /\ "!" \in Chars /\ Dump \notin Chars
BY EditorAssumption

(* What the editor itself inserts is among the characters on screen. *)
LEMMA InkHas ==
  ASSUME hex \in BOOLEAN
  PROVE  /\ Space \in Ink /\ "\n" \in Ink /\ Chars \subseteq Ink
         /\ ~hex => Ink = Chars
<1>1. CASE hex
  BY <1>1, CharsHave, Zenon DEF Ink
<1>2. CASE ~hex
  BY <1>2, CharsHave, Zenon DEF Ink
<1> QED
  BY <1>1, <1>2

(* So is what the keyboard brings. *)
LEMMA KeysFit ==
  ASSUME hex \in BOOLEAN, NEW s \in Keystrokes
  PROVE  s \in Seq(Ink)
<1>1. s \in Seq(Chars)
  BY EditorAssumption
<1> QED
  BY <1>1, InkHas, SeqMonotonic

(* The text Return brings. *)
LEMMA EnterFits ==
  ASSUME IInv, NEW indents
  PROVE  Enter(indents) => \E s \in Seq(Ink) : Insert(s)
<1> DEFINE b == IF HasSelection(buf) THEN DeleteSelection(buf) ELSE buf
           loc == IF HasSelection(buf) THEN SelectionStart(buf) ELSE buf.cursor
           n == IF indents /\ path \notin Markdown THEN IndentWidth * ParenDepthBefore(b.text, loc) ELSE 0
           blanks == [i \in 1..n |-> Space]
<1>1. buf \in BuffersOf(Ink) /\ hex \in BOOLEAN
  BY DEF IInv, Fits
<1>2. loc \in Nat
  <2>1. CASE HasSelection(buf)
    <3>1. SelectionStart(buf) \in 0..Len(buf.text)
      BY <1>1, <2>1, SelectionIs
    <3> QED
      BY <2>1, <3>1
  <2>2. CASE ~HasSelection(buf)
    BY <1>1, <2>2, BufferIs
  <2> QED
    BY <2>1, <2>2
<1> HIDE DEF loc, b
<1>3. n \in Nat
  <2> DEFINE depth == ParenDepthBefore(b.text, loc)
  <2>1. depth \in Nat
    BY <1>2, ParenDepthBeforeIs
  <2> HIDE DEF depth
  <2>2. IndentWidth * depth \in Nat
    BY <2>1, EditorAssumption
  <2> QED
    BY <2>2 DEF depth
<1>4. Enter(indents) <=> Insert(Cat(<<"\n">>, blanks))
  BY DEF Enter, Cat, b, loc
<1> HIDE DEF n
<1>5. Space \in Ink /\ "\n" \in Ink
  BY <1>1, InkHas
<1>6. blanks \in Seq(Ink)
  BY <1>3, <1>5, BlanksAre
<1>7. <<"\n">> \in Seq(Ink)
  BY <1>5
<1> HIDE DEF blanks
<1> DEFINE lead == <<"\n">>
<1> HIDE DEF lead
<1>8. Cat(lead, blanks) \in Seq(Ink)
  BY <1>6, <1>7, CatIsSeq DEF lead
<1> QED
  BY <1>4, <1>8 DEF lead

(* Tab inserts a text. *)
LEMMA TabFits ==
  ASSUME IInv
  PROVE  Tab => \E s \in Seq(Ink) : Insert(s)
<1>1. Space \in Ink /\ IndentWidth \in Nat
  BY InkHas, EditorAssumption DEF IInv
<1>2. [i \in 1..IndentWidth |-> Space] \in Seq(Ink)
  BY <1>1, BlanksAre
<1> QED
  BY <1>2 DEF Tab

(* Whatever can be loaded, with the hex flag that goes with it. *)
LEMMA LoadsFit ==
  ASSUME disk \in [Paths -> Files], NEW p \in Paths, NEW l \in Loads(p)
  PROVE  l.hex \in BOOLEAN /\ l.buf \in BuffersOf(IF l.hex THEN Chars \cup {Dump} ELSE Chars)
<1>1. /\ disk[p].kind \in {"absent", "text", "binary"} /\ disk[p].text \in Seq(Chars)
  BY DEF Files
<1>2. /\ NewBuffer(p) \in BuffersOf(Chars) /\ NewBuffer(NoDocument) \in BuffersOf(Chars)
      /\ FromText(disk[p].text, p) \in BuffersOf(Chars)
  BY <1>1, FreshFits
<1>3. FromText(ExcuseText, NoDocument) \in BuffersOf(Chars)
  <2>1. ExcuseText \in Seq(Chars)
    BY CharsHave DEF ExcuseText
  <2> QED
    BY <2>1, FreshFits
<1>4. FromText(DumpText, p) \in BuffersOf(Chars \cup {Dump})
  <2>1. DumpText \in Seq(Chars \cup {Dump})
    BY DEF DumpText
  <2> QED
    BY <2>1, FreshFits
<1> DEFINE clean == {NewBuffer(p), NewBuffer(NoDocument), FromText(disk[p].text, p),
                     FromText(ExcuseText, NoDocument)}
<1>5. \/ l.hex = FALSE /\ l.buf \in clean
      \/ l.hex = TRUE /\ l.buf = FromText(DumpText, p)
  BY <1>1 DEF Loads
<1>6. CASE l.hex = FALSE /\ l.buf \in clean
  BY <1>2, <1>3, <1>6
<1>7. CASE l.hex = TRUE /\ l.buf = FromText(DumpText, p)
  BY <1>4, <1>7
<1> QED
  BY <1>5, <1>6, <1>7

-----------------------------------------------------------------------------
(* The steps. *)
LEMMA InsertKeeps ==
  ASSUME IInv, NEW s \in Seq(Ink), Insert(s)
  PROVE  IInv'
<1>1. Fits(Ink, buf, undo, redo) /\ buf \in BuffersOf(Ink)
  BY DEF IInv, Fits
<1>2. ReplaceSelection(buf, s) \in BuffersOf(Ink) /\ ReplaceSelection(buf, s).of = buf.of
  BY <1>1, ReplaceFits
<1>3. Fits(Ink, ReplaceSelection(buf, s), Push(undo, buf), <<>>)
  BY <1>1, <1>2, EditKeepsFit
<1> QED
  BY <1>3 DEF Insert, IInv, PushUndo, Chrome, Ink

(* A deletion keeps the invariant ... *)
LEMMA DeleteKeeps ==
  ASSUME IInv, NEW b \in BuffersOf(Ink), b.of = buf.of, Delete(b)
  PROVE  IInv'
<1>1. Fits(Ink, buf, undo, redo)
  BY DEF IInv
<1>2. Fits(Ink, b, Push(undo, buf), <<>>)
  BY <1>1, EditKeepsFit
<1> QED
  BY <1>2 DEF Delete, IInv, PushUndo, Chrome, Ink

(* ... a move of the cursor does ... *)
LEMMA ShowKeeps ==
  ASSUME IInv, NEW b \in BuffersOf(Ink), b.of = buf.of, Show(b),
         path' \in Paths, overlay' \in BOOLEAN, drag' = NoPosition \/ drag' \in Nat
  PROVE  IInv'
<1>1. Fits(Ink, buf, undo, redo)
  BY DEF IInv
<1>2. Fits(Ink, b, undo, redo)
  BY <1>1, MoveKeepsFit
<1> QED
  BY <1>2 DEF Show, IInv, history, Ink

(* ... and so does loading a file, whether or not it can be read. *)
LEMMA LoadKeeps ==
  ASSUME IInv, NEW p \in Paths, Load(p), path' \in Paths, overlay' \in BOOLEAN, drag' = drag
  PROVE  IInv'
<1>1. PICK l \in Loads(p) : buf' = l.buf /\ hex' = l.hex
  BY DEF Load
<1>2. l.hex \in BOOLEAN /\ l.buf \in BuffersOf(IF l.hex THEN Chars \cup {Dump} ELSE Chars)
  BY LoadsFit DEF IInv
<1>3. buf' \in BuffersOf(Ink') /\ hex' \in BOOLEAN
  BY <1>1, <1>2 DEF Ink
<1>4. Fits(Ink', buf', <<>>, <<>>)
  BY <1>3, LoadFits
<1> QED
  BY <1>3, <1>4 DEF Load, IInv

(* Every deletion is of a part of the text. *)
LEMMA DeletionsKeep ==
  ASSUME IInv, Cut \/ Backspace \/ DeleteKey
  PROVE  IInv'
<1>1. buf \in BuffersOf(Ink)
  BY DEF IInv, Fits
<1>2. CASE HasSelection(buf)
  <2>1. DeleteSelection(buf) \in BuffersOf(Ink) /\ DeleteSelection(buf).of = buf.of
    BY <1>1, <1>2, DeleteSelectionFits
  <2>2. Delete(DeleteSelection(buf))
    BY <1>2 DEF Cut, Backspace, DeleteKey
  <2> QED
    BY <2>1, <2>2, DeleteKeeps
<1>3. CASE ~HasSelection(buf)
  <2>1. buf.cursor \in 0..Len(buf.text) /\ Len(buf.text) \in Nat /\ buf.text \in Seq(Ink)
    BY <1>1, BufferIs
  <2> DEFINE from == PrevBoundary(buf.text, buf.cursor)
             to == NextBoundary(buf.text, buf.cursor)
  <2>2. from \in 0..buf.cursor /\ to \in buf.cursor..Len(buf.text)
    BY <2>1, PrevBoundaryIs, NextBoundaryIs
  <2> HIDE DEF from, to
  <2>3. from \in 0..Len(buf.text) /\ buf.cursor \in from..Len(buf.text)
    BY <2>1, <2>2
  <2>4. /\ Without(buf, from, buf.cursor) \in BuffersOf(Ink)
        /\ Without(buf, from, buf.cursor).of = buf.of
    BY <1>1, <2>3, WithoutFits
  <2>5. Without(buf, buf.cursor, to) \in BuffersOf(Ink) /\ Without(buf, buf.cursor, to).of = buf.of
    BY <1>1, <2>1, <2>2, WithoutFits
  <2>6. Delete(Without(buf, from, buf.cursor)) \/ Delete(Without(buf, buf.cursor, to))
    BY <1>3 DEF Cut, Backspace, DeleteKey, from, to
  <2> QED
    BY <2>4, <2>5, <2>6, DeleteKeeps
<1> QED
  BY <1>2, <1>3

(* Undo and redo keep the invariant. *)
LEMMA WalksKeep ==
  ASSUME IInv, Undo \/ Redo
  PROVE  IInv'
<1>1. Fits(Ink, buf, undo, redo) /\ Fits(Ink, buf, redo, undo)
  BY FitsBothWays DEF IInv
<1>2. CASE Undo
  <2>1. Fits(Ink, Last(undo), Front(undo), Push(redo, buf))
    BY <1>1, <1>2, WalkKeepsFit DEF Undo
  <2> QED
    BY <1>2, <2>1 DEF Undo, IInv, Chrome, Ink
<1>3. CASE Redo
  <2>1. Fits(Ink, Last(redo), Front(redo), Push(undo, buf))
    BY <1>1, <1>3, WalkKeepsFit DEF Redo
  <2>2. Fits(Ink, Last(redo), Push(undo, buf), Front(redo))
    BY <2>1, FitsBothWays
  <2> QED
    BY <1>3, <2>2 DEF Redo, IInv, Chrome, Ink
<1> QED
  BY <1>2, <1>3

(* A save writes a text that is no dump, whichever of its calls fails. *)
LEMMA SaveKeeps ==
  ASSUME IInv, Save
  PROVE  IInv'
<1>1. ~hex /\ Ink = Chars /\ Fits(Ink, buf, undo, redo) /\ buf \in BuffersOf(Chars)
  BY InkHas DEF Save, IInv, Fits
<1>2. buf.text \in Seq(Chars) /\ buf.of \in Paths \cup {NoDocument}
  BY <1>1, BufferIs
<1>3. Format(buf.text) \in Seq(Chars)
  BY <1>2, CharsHave, FormatIs
<1>4. ASSUME NEW t \in Seq(Chars), SavesTo(path, t) PROVE disk' \in [Paths -> Files]
  <2> DEFINE full == [kind |-> "text", text |-> t]
             empty == [kind |-> "text", text |-> <<>>]
  <2>1. full \in Files /\ empty \in Files
    BY <1>4, EmptySeq DEF Files
  <2> HIDE DEF full, empty
  <2>2. disk' = disk \/ disk' = [disk EXCEPT ![path] = full] \/ disk' = [disk EXCEPT ![path] = empty]
    BY <1>4 DEF SavesTo, full, empty
  <2> QED
    BY <2>1, <2>2 DEF IInv
<1>5. CASE path \in Markdown
  <2>1. SavesTo(path, buf.text) /\ UNCHANGED <<buf, history>>
    BY <1>5 DEF Save
  <2>2. disk' \in [Paths -> Files]
    BY <1>2, <1>4, <2>1
  <2> QED
    BY <2>1, <2>2 DEF Save, IInv, history, Chrome, Ink
<1>6. CASE path \notin Markdown
  <2> DEFINE b == FromText(Format(buf.text), buf.of)
  <2>1. SavesTo(path, Format(buf.text)) /\ PushUndo(buf) /\ buf' = b
    BY <1>6 DEF Save
  <2>2. disk' \in [Paths -> Files]
    BY <1>3, <1>4, <2>1
  <2>3. b \in BuffersOf(Chars) /\ b.of = buf.of
    BY <1>2, <1>3, FreshFits
  <2> HIDE DEF b
  <2>4. Fits(Ink, b, Push(undo, buf), <<>>)
    BY <1>1, <2>3, EditKeepsFit
  <2> QED
    BY <2>1, <2>2, <2>4 DEF Save, IInv, PushUndo, Chrome, Ink
<1> QED
  BY <1>5, <1>6

(* The keys. *)
LEMMA KeyboardKeeps ==
  ASSUME IInv, Keyboard
  PROVE  IInv'
<1>0. hex \in BOOLEAN /\ path \in Paths /\ overlay \in BOOLEAN /\ buf \in BuffersOf(Ink)
  BY DEF IInv, Fits
<1>1. CASE \E s \in Keystrokes : Type(s) \/ Paste(s)
  <2>1. PICK s \in Keystrokes : Insert(s)
    BY <1>1 DEF Type, Paste
  <2>2. s \in Seq(Ink)
    BY <1>0, KeysFit
  <2> QED
    BY <2>1, <2>2, InsertKeeps
<1>2. CASE Paste(<<>>)
  <2>1. <<>> \in Seq(Ink)
    BY EmptySeq
  <2>2. Insert(<<>>)
    BY <1>2 DEF Paste
  <2> QED
    BY <2>1, <2>2, InsertKeeps
<1>3. CASE Tab
  BY <1>3, TabFits, InsertKeeps
<1>4. CASE Cut \/ Backspace \/ DeleteKey
  BY <1>4, DeletionsKeep
<1>5. CASE SelectAll
  <2>1. Len(buf.text) \in Nat /\ 0 \in Nat
    BY <1>0, BufferIs
  <2> DEFINE b == SetSelection(buf, 0, Len(buf.text))
  <2>2. b \in BuffersOf(Ink) /\ b.of = buf.of
    BY <1>0, <2>1, SetFits
  <2>3. Show(b) /\ UNCHANGED Chrome
    BY <1>5 DEF SelectAll
  <2> HIDE DEF b
  <2>4. path' \in Paths /\ overlay' \in BOOLEAN /\ (drag' = NoPosition \/ drag' \in Nat)
    BY <2>3 DEF Chrome, IInv
  <2> QED
    BY <2>2, <2>3, <2>4, ShowKeeps
<1>6. CASE \E indents \in BOOLEAN : Enter(indents)
  <2>1. PICK s \in Seq(Ink) : Insert(s)
    BY <1>6, EnterFits
  <2> QED
    BY <2>1, InsertKeeps
<1>7. CASE \E key \in {"left", "right", "up", "down", "home", "end"}, shift \in BOOLEAN : Arrow(key, shift)
  <2>1. PICK key \in {"left", "right", "up", "down", "home", "end"}, shift \in BOOLEAN : Arrow(key, shift)
    BY <1>7
  <2> DEFINE b == Moved(buf, key, shift)
  <2>2. b \in BuffersOf(Ink) /\ b.of = buf.of
    BY <1>0, MovedFits
  <2>3. Show(b) /\ UNCHANGED Chrome
    BY <2>1 DEF Arrow
  <2> HIDE DEF b
  <2>4. path' \in Paths /\ overlay' \in BOOLEAN /\ (drag' = NoPosition \/ drag' \in Nat)
    BY <2>3 DEF Chrome, IInv
  <2> QED
    BY <2>2, <2>3, <2>4, ShowKeeps
<1>8. CASE Undo \/ Redo
  BY <1>8, WalksKeep
<1>9. CASE Reload
  <2>1. Load(path) /\ path' = path /\ overlay' = overlay /\ drag' = drag
    BY <1>9 DEF Reload, Chrome
  <2> QED
    BY <1>0, <2>1, LoadKeeps
<1>10. CASE Editing /\ Save
  BY <1>10, SaveKeeps
<1> QED
  BY <1>1, <1>2, <1>3, <1>4, <1>5, <1>6, <1>7, <1>8, <1>9, <1>10 DEF Keyboard

(* Mouse events keep it ... *)
LEMMA MouseKeeps ==
  ASSUME IInv, Mouse
  PROVE  IInv'
<1>0. /\ hex \in BOOLEAN /\ path \in Paths /\ overlay \in BOOLEAN /\ buf \in BuffersOf(Ink)
      /\ drag = NoPosition \/ drag \in Nat
  BY DEF IInv, Fits
<1>1. Len(buf.text) \in Nat
  BY <1>0, BufferIs
<1>2. CASE \E loc \in {p \in Clicks : p < Len(buf.text)} \cup {Len(buf.text)} : MouseDown(loc) \/ MouseDrag(loc)
  <2>1. PICK loc \in Nat : MouseDown(loc) \/ MouseDrag(loc)
    BY <1>1, <1>2, EditorAssumption
  <2>2. CASE MouseDown(loc)
    <3> DEFINE b == SetCursor(buf, loc)
    <3>1. b \in BuffersOf(Ink) /\ b.of = buf.of
      BY <1>0, SetFits
    <3>2. Show(b) /\ drag' = loc /\ UNCHANGED <<path, overlay>>
      BY <2>2 DEF MouseDown
    <3> HIDE DEF b
    <3>3. path' \in Paths /\ overlay' \in BOOLEAN /\ (drag' = NoPosition \/ drag' \in Nat)
      BY <1>0, <3>2
    <3> QED
      BY <3>1, <3>2, <3>3, ShowKeeps
  <2>3. CASE MouseDrag(loc)
    <3> DEFINE b == SetSelection(buf, drag, loc)
    <3>1. drag \in Nat
      BY <1>0, <2>3 DEF MouseDrag
    <3>2. b \in BuffersOf(Ink) /\ b.of = buf.of
      BY <1>0, <3>1, SetFits
    <3>3. Show(b) /\ UNCHANGED Chrome
      BY <2>3 DEF MouseDrag
    <3> HIDE DEF b
    <3>4. path' \in Paths /\ overlay' \in BOOLEAN /\ (drag' = NoPosition \/ drag' \in Nat)
      BY <1>0, <3>3 DEF Chrome
    <3> QED
      BY <3>2, <3>3, <3>4, ShowKeeps
  <2> QED
    BY <2>1, <2>2, <2>3
<1>3. CASE MouseUp
  <2>1. Show(buf) /\ drag' = NoPosition /\ UNCHANGED <<path, overlay>>
    BY <1>3 DEF MouseUp
  <2>2. path' \in Paths /\ overlay' \in BOOLEAN /\ (drag' = NoPosition \/ drag' \in Nat)
    BY <1>0, <2>1
  <2> QED
    BY <1>0, <2>1, <2>2, ShowKeeps
<1>4. CASE Save
  BY <1>4, SaveKeeps
<1>5. CASE \E p \in Paths : OpenInTree(p)
  <2>1. PICK p \in Paths : OpenInTree(p)
    BY <1>5
  <2>2. Load(p) /\ path' \in Paths /\ overlay' \in BOOLEAN /\ drag' = drag
    BY <1>0, <2>1 DEF OpenInTree
  <2> QED
    BY <2>2, LoadKeeps
<1> QED
  BY <1>2, <1>3, <1>4, <1>5 DEF Mouse

(* ... the overlay's events do ... *)
LEMMA OverlayKeeps ==
  ASSUME IInv, Overlay
  PROVE  IInv'
<1>1. CASE OpenOverlay \/ CloseOverlay
  <2>1. overlay' \in BOOLEAN /\ UNCHANGED Behind
    BY <1>1, Zenon DEF OpenOverlay, CloseOverlay
  <2> QED
    BY <2>1 DEF Behind, history, IInv, Ink
<1>2. CASE \E p \in Paths : Activate(p)
  <2>1. PICK p \in Paths : Activate(p)
    BY <1>2
  <2>2. Load(p) /\ path' \in Paths /\ overlay' \in BOOLEAN /\ drag' = drag
    BY <2>1 DEF Activate, IInv
  <2> QED
    BY <2>2, LoadKeeps
<1> QED
  BY <1>1, <1>2 DEF Overlay

(* ... and events that change nothing. *)
LEMMA IdleKeeps ==
  ASSUME IInv, UNCHANGED vars
  PROVE  IInv'
BY DEF vars, IInv, Ink

-----------------------------------------------------------------------------
(* The invariant: every buffer of the window, on screen or in the history, is
   of one document and has its cursor and selection in its text, the history is
   no more than one turns, and only a hex view shows a dump. *)
THEOREM OneDocument == EditorSpec => []IInv
<1>1. EditorInit => IInv
  <2> SUFFICES ASSUME EditorInit PROVE IInv
    OBVIOUS
  <2>1. disk \in [Paths -> Files] /\ Launched \in Paths
    BY EditorAssumption DEF EditorInit
  <2>2. PICK l \in Loads(Launched) : buf = l.buf /\ hex = l.hex
    BY DEF EditorInit
  <2>3. l.hex \in BOOLEAN /\ l.buf \in BuffersOf(IF l.hex THEN Chars \cup {Dump} ELSE Chars)
    BY <2>1, LoadsFit
  <2>4. buf \in BuffersOf(Ink) /\ hex \in BOOLEAN
    BY <2>2, <2>3 DEF Ink
  <2>5. Fits(Ink, buf, <<>>, <<>>)
    BY <2>4, LoadFits
  <2> QED
    BY <2>1, <2>4, <2>5 DEF EditorInit, IInv
<1>2. IInv /\ [EditorNext]_vars => IInv'
  BY KeyboardKeeps, MouseKeeps, OverlayKeeps, IdleKeeps DEF EditorNext
<1> QED
  BY <1>1, <1>2, PTL DEF EditorSpec

(* Type correctness. *)
THEOREM EditorTyped == EditorSpec => []EditorTypeOK
<1> DEFINE C == Chars \cup {Dump}
<1>1. ASSUME IInv, NEW b \in BuffersOf(Ink) PROVE IsBuffer(b)
  <2>1. Ink \subseteq C
    BY <1>1, Zenon DEF Ink
  <2>2. /\ b \in [text : Seq(Ink), cursor : Nat, anchor : Int, of : Paths \cup {NoDocument}]
        /\ Len(b.text) \in Nat /\ b.text \in Seq(Ink)
        /\ b.cursor \in 0..Len(b.text) /\ b.anchor \in -1..Len(b.text)
    BY BufferIs
  <2>3. b.text \in Seq(C)
    BY <2>1, <2>2, SeqMonotonic
  <2> HIDE DEF C
  <2>4. b \in [text : Seq(C), cursor : Nat, anchor : Int, of : Paths \cup {NoDocument}]
    BY <2>2, <2>3
  <2> QED
    BY <2>2, <2>4 DEF IsBuffer, Buffers, NoAnchor, C
<1>2. ASSUME IInv, NEW turns \in Seq(Versions(Ink, buf.of))
      PROVE  turns \in Seq(Buffers) /\ \A i \in DOMAIN turns : IsBuffer(turns[i])
  <2>1. \A b \in Versions(Ink, buf.of) : IsBuffer(b) /\ b \in Buffers
    BY <1>1, <1>2 DEF Versions, IsBuffer
  <2>2. turns \in Seq(Buffers)
    BY <2>1, SeqMonotonic
  <2>3. \A i \in DOMAIN turns : turns[i] \in Versions(Ink, buf.of)
    BY ElementOfSeq, LenProperties
  <2> QED
    BY <2>1, <2>2, <2>3
<1>3. IInv => EditorTypeOK
  <2> SUFFICES ASSUME IInv PROVE EditorTypeOK
    OBVIOUS
  <2>1. IsBuffer(buf)
    BY <1>1 DEF IInv, Fits
  <2>2. /\ undo \in Seq(Buffers) /\ \A i \in DOMAIN undo : IsBuffer(undo[i])
        /\ redo \in Seq(Buffers) /\ \A i \in DOMAIN redo : IsBuffer(redo[i])
    BY <1>2 DEF IInv, Fits
  <2> QED
    BY <2>1, <2>2 DEF EditorTypeOK, IInv
<1> QED
  BY <1>3, OneDocument, PTL

(* A single stack's worth of history: only a new edit drops any. *)
THEOREM HistoryIsBounded == EditorSpec => []HistoryFits
<1>1. IInv => HistoryFits
  BY DEF IInv, Fits, HistoryFits
<1> QED
  BY <1>1, OneDocument, PTL

(* No undo or redo leads to another document's text. *)
THEOREM HistoryStaysInDocument == EditorSpec => []HistoryOfOneDocument
<1>1. IInv => HistoryOfOneDocument
  <2> SUFFICES ASSUME IInv, NEW i \in 1..Len(undo \o redo)
               PROVE  (undo \o redo)[i].of = buf.of
    BY DEF HistoryOfOneDocument
  <2> DEFINE V == Versions(Ink, buf.of)
  <2>1. undo \in Seq(V) /\ redo \in Seq(V)
    BY DEF IInv, Fits
  <2> HIDE DEF V
  <2>2. undo \o redo \in Seq(V)
    BY <2>1, ConcatProperties
  <2>3. (undo \o redo)[i] \in V
    BY <2>2, ElementOfSeq
  <2> QED
    BY <2>3 DEF V, Versions
<1> QED
  BY <1>1, OneDocument, PTL

(* No sequence of loads, undos, edits and saves, failed ones among them, puts
   the dump of a binary into a file. *)
THEOREM DumpIsNeverSaved == EditorSpec => []DumpNeverSaved
<1>1. IInv => DumpNeverSaved
  <2> SUFFICES ASSUME IInv, NEW p \in Paths PROVE Dump \notin ToSet(disk[p].text)
    BY DEF DumpNeverSaved
  <2>1. disk[p].text \in Seq(Chars)
    BY DEF IInv, Files
  <2>2. \A i \in DOMAIN disk[p].text : disk[p].text[i] \in Chars
    BY <2>1, ElementOfSeq, LenProperties
  <2> QED
    BY <2>2, CharsHave DEF ToSet
<1> QED
  BY <1>1, OneDocument, PTL

-----------------------------------------------------------------------------
(* The texts of a history in one sequence: those of the past, the one on
   screen, those of the future. *)
Reel(past, b, future) ==
  [i \in 1..Len(past) + 1 + Len(future) |->
     IF i <= Len(past) THEN past[i].text
     ELSE IF i = Len(past) + 1 THEN b.text
     ELSE future[Len(past) + Len(future) + 2 - i].text]

(* The texts of some buffers. *)
LEMMA TextsAre ==
  ASSUME NEW C, NEW s \in Seq(BuffersOf(C))
  PROVE  /\ TextsOf(s) \in Seq(Seq(C)) /\ Len(TextsOf(s)) = Len(s)
         /\ \A i \in 1..Len(s) : TextsOf(s)[i] = s[i].text
<1>1. Len(s) \in Nat
  BY LenProperties
<1>2. \A i \in 1..Len(s) : s[i].text \in Seq(C)
  <2> SUFFICES ASSUME NEW i \in 1..Len(s) PROVE s[i].text \in Seq(C)
    OBVIOUS
  <2>1. s[i] \in BuffersOf(C)
    BY ElementOfSeq
  <2> QED
    BY <2>1, BufferIs
<1> QED
  BY <1>1, <1>2 DEF TextsOf

(* The entries of both stacks are buffers. *)
LEMMA HistoryIs ==
  ASSUME NEW C, NEW b, NEW past, NEW future, Fits(C, b, past, future)
  PROVE  b \in BuffersOf(C) /\ past \in Seq(BuffersOf(C)) /\ future \in Seq(BuffersOf(C))
<1>1. Versions(C, b.of) \subseteq BuffersOf(C)
  BY DEF Versions
<1> QED
  BY <1>1, SeqMonotonic DEF Fits

(* The past, text by text. *)
LEMMA PastIs ==
  ASSUME NEW C, NEW b \in BuffersOf(C), NEW past \in Seq(BuffersOf(C))
  PROVE  /\ TextsOf(Append(past, b)) \in Seq(Seq(C)) /\ Len(TextsOf(Append(past, b))) = Len(past) + 1
         /\ \A i \in 1..Len(past) : TextsOf(Append(past, b))[i] = past[i].text
         /\ TextsOf(Append(past, b))[Len(past) + 1] = b.text
<1> DEFINE s == Append(past, b)
<1>1. /\ s \in Seq(BuffersOf(C)) /\ Len(s) = Len(past) + 1 /\ Len(past) \in Nat
      /\ \A i \in 1..Len(past) : s[i] = past[i]
      /\ s[Len(past) + 1] = b
  BY AppendProperties, LenProperties
<1> HIDE DEF s
<1>2. /\ TextsOf(s) \in Seq(Seq(C)) /\ Len(TextsOf(s)) = Len(s)
      /\ \A i \in 1..Len(s) : TextsOf(s)[i] = s[i].text
  BY <1>1, TextsAre
<1> QED
  BY <1>1, <1>2 DEF s

(* What the library's Reverse returns. *)
LEMMA ReverseIs ==
  ASSUME NEW S, NEW s \in Seq(S)
  PROVE  /\ Reverse(s) \in Seq(S) /\ Len(Reverse(s)) = Len(s)
         /\ \A i \in 1..Len(s) : Reverse(s)[i] = s[Len(s) - i + 1]
<1>1. Len(s) \in Nat
  BY LenProperties
<1>2. \A i \in 1..Len(s) : s[Len(s) - i + 1] \in S
  <2> SUFFICES ASSUME NEW i \in 1..Len(s) PROVE s[Len(s) - i + 1] \in S
    OBVIOUS
  <2>1. Len(s) - i + 1 \in 1..Len(s)
    BY <1>1
  <2> QED
    BY <2>1, ElementOfSeq
<1> QED
  BY <1>1, <1>2 DEF Reverse

(* The timeline is such a sequence. *)
TimelineOf(past, b, future) == TextsOf(Append(past, b)) \o Reverse(TextsOf(future))

(* The timeline is the reel. *)
LEMMA TimelineIs ==
  ASSUME NEW C, NEW b, NEW before, NEW after, Fits(C, b, before, after)
  PROVE  TimelineOf(before, b, after) = Reel(before, b, after)
<1>1. b \in BuffersOf(C) /\ before \in Seq(BuffersOf(C)) /\ after \in Seq(BuffersOf(C))
  BY HistoryIs
<1> DEFINE past == TextsOf(Append(before, b))
           texts == TextsOf(after)
           future == Reverse(texts)
           m == Len(before)
           n == Len(after)
<1>2. m \in Nat /\ n \in Nat
  BY <1>1, LenProperties
<1>3. /\ past \in Seq(Seq(C)) /\ Len(past) = m + 1
      /\ \A i \in 1..m : past[i] = before[i].text
      /\ past[m + 1] = b.text
  BY <1>1, PastIs
<1>4. /\ texts \in Seq(Seq(C)) /\ Len(texts) = n
      /\ \A i \in 1..n : texts[i] = after[i].text
  BY <1>1, TextsAre
<1> HIDE DEF past, texts
<1>5. /\ future \in Seq(Seq(C)) /\ Len(future) = n
      /\ \A i \in 1..n : future[i] = texts[n - i + 1]
  BY <1>4, ReverseIs
<1>6. TimelineOf(before, b, after) = Cat(past, future)
  BY DEF TimelineOf, Cat, past, texts
<1> HIDE DEF future
<1>7. /\ Cat(past, future) \in Seq(Seq(C)) /\ Len(Cat(past, future)) = m + 1 + n
      /\ \A i \in 1..m + 1 : Cat(past, future)[i] = past[i]
      /\ \A i \in 1..n : Cat(past, future)[m + 1 + i] = future[i]
  <2> HIDE DEF m, n
  <2>1. Cat(past, future) \in Seq(Seq(C))
    BY <1>3, <1>5, CatIsSeq
  <2>2. Len(Cat(past, future)) = Len(past) + Len(future)
    BY <1>3, <1>5, CatLength
  <2>3. /\ \A i \in 1..Len(past) : Cat(past, future)[i] = past[i]
        /\ \A i \in 1..Len(future) : Cat(past, future)[Len(past) + i] = future[i]
    <3> DEFINE S == Seq(C)
    <3> HIDE DEF S
    <3>1. past \in Seq(S) /\ future \in Seq(S)
      BY <1>3, <1>5 DEF S
    <3> QED
      BY <3>1, CatElements
  <2> QED
    BY <1>2, <1>3, <1>5, <2>1, <2>2, <2>3
<1> DEFINE whole == Cat(past, future)
<1> HIDE DEF whole, m, n
<1>8. ASSUME NEW i \in 1..m + 1 + n
      PROVE  whole[i] = IF i <= m THEN before[i].text
                        ELSE IF i = m + 1 THEN b.text
                        ELSE after[m + n + 2 - i].text
  <2>1. CASE i <= m
    <3>1. i \in 1..m /\ i \in 1..m + 1
      BY <1>2, <2>1
    <3> QED
      BY <1>3, <1>7, <2>1, <3>1 DEF whole
  <2>2. CASE i = m + 1
    <3>1. i \in 1..m + 1 /\ ~(i <= m)
      BY <1>2, <2>2
    <3> QED
      BY <1>3, <1>7, <2>2, <3>1 DEF whole
  <2>3. CASE i > m + 1
    <3> DEFINE j == i - (m + 1)
    <3>1. j \in 1..n /\ i = m + 1 + j /\ n - j + 1 = m + n + 2 - i /\ n - j + 1 \in 1..n
      BY <1>2, <2>3
    <3> HIDE DEF j
    <3>2. whole[i] = future[j]
      BY <1>7, <3>1 DEF whole
    <3>3. future[j] = texts[n - j + 1]
      BY <1>5, <3>1
    <3>4. texts[n - j + 1] = after[n - j + 1].text
      BY <1>4, <3>1
    <3>5. ~(i <= m) /\ i # m + 1
      BY <1>2, <2>3
    <3> QED
      BY <3>1, <3>2, <3>3, <3>4, <3>5
  <2> QED
    BY <1>2, <2>1, <2>2, <2>3
<1>9. whole = Reel(before, b, after)
  <2>1. whole \in Seq(Seq(C)) /\ Len(whole) = m + 1 + n
    BY <1>7 DEF whole
  <2>2. whole = [i \in 1..m + 1 + n |-> whole[i]]
    BY <2>1, LenProperties
  <2> QED
    BY <1>8, <2>2 DEF Reel, m, n
<1> QED
  BY <1>6, <1>7, <1>9 DEF whole

(* A step back or forward turns the reel and leaves it as it is. *)
LEMMA BackKeepsReel ==
  ASSUME NEW C, NEW b, NEW past, NEW future, Fits(C, b, past, future), past # <<>>
  PROVE  Reel(Front(past), Last(past), Append(future, b)) = Reel(past, b, future)
<1> DEFINE m == Len(past)
           n == Len(future)
           front == Front(past)
           back == Append(future, b)
           B == BuffersOf(C)
<1>1. b \in B /\ past \in Seq(B) /\ future \in Seq(B)
  BY HistoryIs
<1> HIDE DEF B
<1>2. m \in Nat /\ n \in Nat /\ m > 0
  BY <1>1, EmptySeq, LenProperties
<1>3. Len(front) = m - 1 /\ \A i \in 1..m - 1 : front[i] = past[i]
  BY <1>1, FrontIs
<1>4. Len(back) = n + 1 /\ (\A i \in 1..n : back[i] = future[i]) /\ back[n + 1] = b
  BY <1>1, AppendProperties
<1> DEFINE last == Last(past)
<1>5. last = past[m]
  BY DEF Last
<1> HIDE DEF m, n, front, back, last
<1>6. Len(front) + 1 + Len(back) = m + 1 + n
  BY <1>2, <1>3, <1>4
<1>7. ASSUME NEW i \in 1..m + 1 + n
      PROVE  (IF i <= Len(front) THEN front[i].text
              ELSE IF i = Len(front) + 1 THEN last.text
              ELSE back[Len(front) + Len(back) + 2 - i].text)
             = IF i <= m THEN past[i].text
               ELSE IF i = m + 1 THEN b.text ELSE future[m + n + 2 - i].text
  <2>1. CASE i <= m - 1
    <3>1. i \in 1..m - 1 /\ i <= m
      BY <1>2, <2>1
    <3> QED
      BY <1>3, <2>1, <3>1
  <2>2. CASE i = m
    BY <1>2, <1>3, <1>5, <2>2
  <2>3. CASE i = m + 1
    <3>1. Len(front) + Len(back) + 2 - i = n + 1 /\ ~(i <= m) /\ ~(i <= Len(front)) /\ i # Len(front) + 1
      BY <1>2, <1>3, <1>4, <2>3
    <3> QED
      BY <1>4, <2>3, <3>1
  <2>4. CASE i > m + 1
    <3>1. /\ Len(front) + Len(back) + 2 - i = m + n + 2 - i /\ m + n + 2 - i \in 1..n
          /\ ~(i <= m) /\ ~(i <= Len(front)) /\ i # Len(front) + 1 /\ i # m + 1
      BY <1>2, <1>3, <1>4, <2>4
    <3> QED
      BY <1>4, <2>4, <3>1
  <2> QED
    BY <1>2, <2>1, <2>2, <2>3, <2>4
<1>8. Reel(front, last, back) = Reel(past, b, future)
  BY <1>6, <1>7 DEF Reel, m, n
<1> QED
  BY <1>8 DEF front, back, last

(* A redo moves the other way along the same reel. *)
LEMMA ForthKeepsReel ==
  ASSUME NEW C, NEW b, NEW past, NEW future, Fits(C, b, past, future), future # <<>>
  PROVE  Reel(Append(past, b), Last(future), Front(future)) = Reel(past, b, future)
<1> DEFINE m == Len(past)
           n == Len(future)
           front == Front(future)
           on == Append(past, b)
           B == BuffersOf(C)
<1>1. b \in B /\ past \in Seq(B) /\ future \in Seq(B)
  BY HistoryIs
<1> HIDE DEF B
<1>2. m \in Nat /\ n \in Nat /\ n > 0
  BY <1>1, EmptySeq, LenProperties
<1>3. Len(front) = n - 1 /\ \A i \in 1..n - 1 : front[i] = future[i]
  BY <1>1, FrontIs
<1>4. Len(on) = m + 1 /\ (\A i \in 1..m : on[i] = past[i]) /\ on[m + 1] = b
  BY <1>1, AppendProperties
<1> DEFINE last == Last(future)
<1>5. last = future[n]
  BY DEF Last
<1> HIDE DEF m, n, front, on, last
<1>6. Len(on) + 1 + Len(front) = m + 1 + n
  BY <1>2, <1>3, <1>4
<1>7. ASSUME NEW i \in 1..m + 1 + n
      PROVE  (IF i <= Len(on) THEN on[i].text
              ELSE IF i = Len(on) + 1 THEN last.text
              ELSE front[Len(on) + Len(front) + 2 - i].text)
             = IF i <= m THEN past[i].text
               ELSE IF i = m + 1 THEN b.text ELSE future[m + n + 2 - i].text
  <2>1. CASE i <= m
    <3>1. i \in 1..m /\ i <= Len(on)
      BY <1>2, <1>4, <2>1
    <3> QED
      BY <1>4, <2>1, <3>1
  <2>2. CASE i = m + 1
    BY <1>2, <1>4, <2>2
  <2>3. CASE i = m + 2
    <3>1. m + n + 2 - i = n /\ ~(i <= m) /\ i # m + 1 /\ ~(i <= Len(on)) /\ i = Len(on) + 1
      BY <1>2, <1>4, <2>3
    <3> QED
      BY <1>5, <3>1
  <2>4. CASE i > m + 2
    <3>1. /\ Len(on) + Len(front) + 2 - i = m + n + 2 - i /\ m + n + 2 - i \in 1..n - 1
          /\ ~(i <= m) /\ ~(i <= Len(on)) /\ i # Len(on) + 1 /\ i # m + 1
      BY <1>2, <1>3, <1>4, <2>4
    <3> QED
      BY <1>3, <3>1
  <2> QED
    BY <1>2, <2>1, <2>2, <2>3, <2>4
<1>8. Reel(on, last, front) = Reel(past, b, future)
  BY <1>6, <1>7 DEF Reel, m, n
<1> QED
  BY <1>8 DEF front, on, last

(* Of two buffers with the same text the reel shows the same. *)
LEMMA MoveKeepsReel ==
  ASSUME NEW b, NEW c, NEW past, NEW future, c.text = b.text
  PROVE  Reel(past, c, future) = Reel(past, b, future)
BY DEF Reel

(* An edit adds one text after the past; what was there stays, but for the oldest
   when the turns is full. *)
Extends(past, b, c) ==
  TextsOf(Append(Push(past, b), c)) =
    LET all == Append(TextsOf(Append(past, b)), c.text)
    IN  IF Len(past) < UndoMax THEN all ELSE Tail(all)

(* Pushing the buffer extends the past by the new text, less the oldest when full. *)
LEMMA EditExtends ==
  ASSUME NEW C, NEW b, NEW past, NEW future, Fits(C, b, past, future), NEW c \in BuffersOf(C)
  PROVE  Extends(past, b, c)
<1> DEFINE m == Len(past)
           old == TextsOf(Append(past, b))
           all == Append(old, c.text)
           S == Seq(C)
           B == BuffersOf(C)
<1>1. b \in B /\ past \in Seq(B) /\ m \in Nat /\ m <= UndoMax /\ UndoMax \in Nat \ {0}
  BY HistoryIs, FitsIs
<1>2. /\ old \in Seq(S) /\ Len(old) = m + 1 /\ (\A i \in 1..m : old[i] = past[i].text)
      /\ old[m + 1] = b.text
  BY <1>1, PastIs
<1>3. c.text \in S
  BY BufferIs
<1> HIDE DEF old, S
<1>4. /\ all \in Seq(S) /\ Len(all) = m + 2 /\ (\A i \in 1..m + 1 : all[i] = old[i])
      /\ all[m + 2] = c.text /\ all # <<>>
  BY <1>1, <1>2, <1>3, AppendProperties
<1> HIDE DEF all
<1>5. CASE m < UndoMax
  <2> DEFINE new == Append(past, b)
             texts == TextsOf(Append(new, c))
  <2>1. /\ new \in Seq(B) /\ Len(new) = m + 1 /\ (\A i \in 1..m : new[i] = past[i]) /\ new[m + 1] = b
    BY <1>1, AppendProperties
  <2>2. Push(past, b) = new
    BY <1>5 DEF Push
  <2> HIDE DEF new
  <2>3. /\ texts \in Seq(Seq(C)) /\ Len(texts) = m + 2
        /\ (\A i \in 1..m + 1 : texts[i] = new[i].text) /\ texts[m + 2] = c.text
    <3>1. /\ texts \in Seq(Seq(C)) /\ Len(texts) = Len(new) + 1
          /\ (\A i \in 1..Len(new) : texts[i] = new[i].text) /\ texts[Len(new) + 1] = c.text
      BY <2>1, PastIs
    <3> HIDE DEF m, texts
    <3>2. Len(new) + 1 = m + 2
      BY <1>1, <2>1
    <3> QED
      BY <2>1, <3>1, <3>2
  <2> HIDE DEF texts
  <2>4. ASSUME NEW i \in 1..m + 2 PROVE texts[i] = all[i]
    <3> HIDE DEF m, B
    <3>1. CASE i \in 1..m
      <4>1. i \in 1..m + 1
        BY <1>1, <3>1
      <4>2. texts[i] = past[i].text
        BY <2>1, <2>3, <3>1, <4>1
      <4>3. all[i] = past[i].text
        BY <1>2, <1>4, <3>1, <4>1
      <4> QED
        BY <4>2, <4>3
    <3>2. CASE i = m + 1
      <4>1. i \in 1..m + 1
        BY <1>1, <3>2
      <4> QED
        BY <1>2, <1>4, <2>1, <2>3, <3>2, <4>1
    <3>3. CASE i = m + 2
      BY <1>4, <2>3, <3>3
    <3> QED
      BY <1>1, <3>1, <3>2, <3>3
  <2>5. texts = all
    BY <1>4, <2>3, <2>4, SeqEqual DEF S
  <2> QED
    BY <1>5, <2>2, <2>5 DEF Extends, all, old, texts
<1>6. CASE ~(m < UndoMax)
  <2>1. m >= 1 /\ past # <<>>
    BY <1>1, <1>6, EmptySeq
  <2> DEFINE rest == Tail(past)
             new == Append(rest, b)
             texts == TextsOf(Append(new, c))
  <2>2. rest \in Seq(B) /\ Len(rest) = m - 1 /\ \A i \in 1..m - 1 : rest[i] = past[i + 1]
    BY <1>1, <2>1, HeadTailProperties
  <2> HIDE DEF rest
  <2>3. /\ new \in Seq(B) /\ Len(new) = m /\ (\A i \in 1..m - 1 : new[i] = rest[i]) /\ new[m] = b
    BY <1>1, <2>2, AppendProperties
  <2>4. Push(past, b) = new
    BY <1>6 DEF Push, rest
  <2> HIDE DEF new
  <2>5. /\ texts \in Seq(Seq(C)) /\ Len(texts) = m + 1
        /\ (\A i \in 1..m : texts[i] = new[i].text) /\ texts[m + 1] = c.text
    <3>1. /\ texts \in Seq(Seq(C)) /\ Len(texts) = Len(new) + 1
          /\ (\A i \in 1..Len(new) : texts[i] = new[i].text) /\ texts[Len(new) + 1] = c.text
      BY <2>3, PastIs
    <3> HIDE DEF m, texts
    <3> QED
      BY <2>3, <3>1
  <2> HIDE DEF texts
  <2> DEFINE kept == Tail(all)
  <2>6. kept \in Seq(S) /\ Len(kept) = m + 1 /\ \A i \in 1..m + 1 : kept[i] = all[i + 1]
    BY <1>1, <1>4, HeadTailProperties
  <2> HIDE DEF kept
  <2>7. ASSUME NEW i \in 1..m + 1 PROVE texts[i] = kept[i]
    <3>1. CASE i \in 1..m - 1
      <4>1. i \in 1..m /\ i + 1 \in 1..m /\ i + 1 \in 1..m + 1
        BY <1>1, <3>1
      <4>2. texts[i] = past[i + 1].text
        BY <2>2, <2>3, <2>5, <3>1, <4>1
      <4>3. kept[i] = past[i + 1].text
        BY <1>2, <1>4, <2>6, <4>1
      <4> QED
        BY <4>2, <4>3
    <3>2. CASE i = m
      <4>1. i \in 1..m /\ m + 1 \in 1..m + 1
        BY <1>1, <2>1, <3>2
      <4> QED
        BY <1>2, <1>4, <2>3, <2>5, <2>6, <3>2, <4>1
    <3>3. CASE i = m + 1
      <4>1. i + 1 = m + 2
        BY <1>1, <3>3
      <4> QED
        BY <1>4, <2>5, <2>6, <3>3, <4>1
    <3> QED
      BY <1>1, <3>1, <3>2, <3>3
  <2>8. texts = kept
    BY <2>5, <2>6, <2>7, SeqEqual DEF S
  <2> QED
    BY <1>6, <2>4, <2>8 DEF Extends, all, old, texts, kept
<1> QED
  BY <1>5, <1>6

(* What a step may do to the timeline. *)
Kept ==
  \/ undo' = <<>> /\ redo' = <<>>
  \/ Timeline' = Timeline
  \/ /\ redo' = <<>>
     /\ Past' = LET all == Append(Past, buf'.text)
                IN  IF Len(undo) < UndoMax THEN all ELSE Tail(all)

(* An edit keeps the timeline ... *)
LEMMA EditKeepsTimeline ==
  ASSUME IInv, PushUndo(buf), buf' \in BuffersOf(Ink)
  PROVE  Kept
<1>1. Extends(undo, buf, buf')
  BY EditExtends DEF IInv
<1>2. undo' = Push(undo, buf) /\ redo' = <<>>
  BY DEF PushUndo
<1>3. Past' = TextsOf(Append(undo', buf'))
  BY DEF Past, TextsOf
<1>4. Past = TextsOf(Append(undo, buf))
  BY DEF Past
<1> QED
  BY <1>1, <1>2, <1>3, <1>4 DEF Kept, Extends

(* ... a turn of the reel does ... *)
LEMMA TurnKeepsTimeline ==
  ASSUME IInv, IInv', Reel(undo', buf', redo') = Reel(undo, buf, redo)
  PROVE  Kept
<1>1. TimelineOf(undo, buf, redo) = Reel(undo, buf, redo)
  BY TimelineIs DEF IInv
<1>2. TimelineOf(undo', buf', redo') = Reel(undo', buf', redo')
  BY TimelineIs DEF IInv
<1>3. Timeline = TimelineOf(undo, buf, redo)
  BY DEF Timeline, Past, TimelineOf
<1>4. Timeline' = TimelineOf(undo', buf', redo')
  BY DEF Timeline, Past, TimelineOf
<1> QED
  BY <1>1, <1>2, <1>3, <1>4 DEF Kept

(* ... a move of the cursor does ... *)
LEMMA ShowKeepsTimeline ==
  ASSUME IInv, IInv', NEW b, Show(b), b.text = buf.text
  PROVE  Kept
<1>1. undo' = undo /\ redo' = redo /\ buf'.text = buf.text
  BY DEF Show, history
<1>2. Reel(undo, buf', redo) = Reel(undo, buf, redo)
  BY <1>1, MoveKeepsReel
<1> QED
  BY <1>1, <1>2, TurnKeepsTimeline

(* ... and whatever leaves buffer and history alone. *)
LEMMA StillKeepsTimeline ==
  ASSUME UNCHANGED <<buf, history>>
  PROVE  Kept
BY DEF Kept, history, Timeline, Past, TextsOf

(* Every keyboard event keeps the timeline ... *)
LEMMA KeyboardKeepsTimeline ==
  ASSUME IInv, IInv', Keyboard
  PROVE  Kept
<1>0. buf \in BuffersOf(Ink) /\ buf' \in BuffersOf(Ink')
  BY DEF IInv, Fits
<1>1. ASSUME NEW s, Insert(s) PROVE Kept
  <2>1. PushUndo(buf) /\ hex' = hex
    BY <1>1 DEF Insert
  <2> QED
    BY <1>0, <2>1, EditKeepsTimeline DEF Ink
<1>2. ASSUME NEW b, Delete(b) PROVE Kept
  <2>1. PushUndo(buf) /\ hex' = hex
    BY <1>2 DEF Delete
  <2> QED
    BY <1>0, <2>1, EditKeepsTimeline DEF Ink
<1>3. CASE \/ \E s \in Keystrokes : Type(s) \/ Paste(s)
           \/ Paste(<<>>) \/ Tab \/ \E indents \in BOOLEAN : Enter(indents)
  BY <1>1, <1>3 DEF Type, Paste, Tab, Enter
<1>4. CASE Cut \/ Backspace \/ DeleteKey
  BY <1>2, <1>4 DEF Cut, Backspace, DeleteKey
<1>5. CASE SelectAll
  <2>1. Len(buf.text) \in Nat /\ 0 \in Nat
    BY <1>0, BufferIs
  <2>2. SetSelection(buf, 0, Len(buf.text)).text = buf.text
    BY <1>0, <2>1, SetFits
  <2> QED
    BY <1>5, <2>2, ShowKeepsTimeline DEF SelectAll
<1>6. CASE \E key \in {"left", "right", "up", "down", "home", "end"}, shift \in BOOLEAN : Arrow(key, shift)
  <2>1. PICK key \in {"left", "right", "up", "down", "home", "end"}, shift \in BOOLEAN : Arrow(key, shift)
    BY <1>6
  <2>2. Moved(buf, key, shift).text = buf.text
    BY <1>0, MovedFits
  <2> QED
    BY <2>1, <2>2, ShowKeepsTimeline DEF Arrow
<1>7. CASE Undo
  <2>1. Fits(Ink, buf, undo, redo) /\ undo # <<>>
    BY <1>7 DEF Undo, IInv
  <2>2. Push(redo, buf) = Append(redo, buf)
    BY <2>1, WalkKeepsFit
  <2>3. Reel(Front(undo), Last(undo), Append(redo, buf)) = Reel(undo, buf, redo)
    BY <2>1, BackKeepsReel
  <2> QED
    BY <1>7, <2>2, <2>3, TurnKeepsTimeline DEF Undo
<1>8. CASE Redo
  <2>1. Fits(Ink, buf, undo, redo) /\ redo # <<>>
    BY <1>8 DEF Redo, IInv
  <2>2. Fits(Ink, buf, redo, undo)
    BY <2>1, FitsBothWays
  <2>3. Push(undo, buf) = Append(undo, buf)
    BY <2>1, <2>2, WalkKeepsFit
  <2>4. Reel(Append(undo, buf), Last(redo), Front(redo)) = Reel(undo, buf, redo)
    BY <2>1, ForthKeepsReel
  <2> QED
    BY <1>8, <2>3, <2>4, TurnKeepsTimeline DEF Redo
<1>9. CASE Reload
  BY <1>9 DEF Reload, Load, Kept
<1>10. CASE Editing /\ Save
  <2>1. CASE UNCHANGED <<buf, history>>
    BY <2>1, StillKeepsTimeline
  <2>2. CASE PushUndo(buf)
    <3>1. hex' = hex
      BY <1>10 DEF Save
    <3> QED
      BY <1>0, <2>2, <3>1, EditKeepsTimeline DEF Ink
  <2> QED
    BY <1>10, <2>1, <2>2 DEF Save
<1> QED
  BY <1>3, <1>4, <1>5, <1>6, <1>7, <1>8, <1>9, <1>10 DEF Keyboard

(* ... and every mouse event. *)
LEMMA MouseKeepsTimeline ==
  ASSUME IInv, IInv', Mouse
  PROVE  Kept
<1>0. /\ buf \in BuffersOf(Ink) /\ buf' \in BuffersOf(Ink')
      /\ drag = NoPosition \/ drag \in Nat
  BY DEF IInv, Fits
<1>1. Len(buf.text) \in Nat
  BY <1>0, BufferIs
<1>2. CASE \E loc \in {p \in Clicks : p < Len(buf.text)} \cup {Len(buf.text)} : MouseDown(loc) \/ MouseDrag(loc)
  <2>1. PICK loc \in Nat : MouseDown(loc) \/ MouseDrag(loc)
    BY <1>1, <1>2, EditorAssumption
  <2>2. SetCursor(buf, loc).text = buf.text
    BY <1>0, SetFits
  <2>3. CASE MouseDown(loc)
    BY <2>2, <2>3, ShowKeepsTimeline DEF MouseDown
  <2>4. CASE MouseDrag(loc)
    <3>1. drag \in Nat
      BY <1>0, <2>4 DEF MouseDrag
    <3>2. SetSelection(buf, drag, loc).text = buf.text
      BY <1>0, <3>1, SetFits
    <3> QED
      BY <2>4, <3>2, ShowKeepsTimeline DEF MouseDrag
  <2> QED
    BY <2>1, <2>3, <2>4
<1>3. CASE MouseUp
  BY <1>3, ShowKeepsTimeline DEF MouseUp
<1>4. CASE Save
  <2>1. CASE UNCHANGED <<buf, history>>
    BY <2>1, StillKeepsTimeline
  <2>2. CASE PushUndo(buf)
    <3>1. hex' = hex
      BY <1>4 DEF Save
    <3> QED
      BY <1>0, <2>2, <3>1, EditKeepsTimeline DEF Ink
  <2> QED
    BY <1>4, <2>1, <2>2 DEF Save
<1>5. CASE \E p \in Paths : OpenInTree(p)
  BY <1>5 DEF OpenInTree, Load, Kept
<1> QED
  BY <1>2, <1>3, <1>4, <1>5 DEF Mouse

(* Undo and redo only move along the timeline: but for loads, no step loses a text
   of it, except the oldest when an edit finds the turns full. *)
THEOREM NothingIsLost == EditorSpec => TimelineKept
<1>1. ASSUME IInv, IInv', [EditorNext]_vars PROVE Kept \/ UNCHANGED vars
  <2>1. CASE Keyboard
    BY <1>1, <2>1, KeyboardKeepsTimeline
  <2>2. CASE Mouse
    BY <1>1, <2>2, MouseKeepsTimeline
  <2>3. CASE OpenOverlay \/ CloseOverlay
    <3>1. UNCHANGED <<buf, history>>
      BY <2>3 DEF OpenOverlay, CloseOverlay, Behind, history
    <3> QED
      BY <3>1, StillKeepsTimeline
  <2>4. CASE \E p \in Paths : Activate(p)
    BY <2>4 DEF Activate, Load, Kept
  <2> QED
    BY <1>1, <2>1, <2>2, <2>3, <2>4 DEF EditorNext, Overlay
<1>2. IInv /\ IInv' /\ [EditorNext]_vars => [Kept]_vars
  BY <1>1
<1>3. EditorSpec => [][Kept]_vars
  BY <1>2, OneDocument, PTL DEF EditorSpec
<1> QED
  BY <1>3 DEF TimelineKept, Kept

-----------------------------------------------------------------------------
(* A whole text and a place between two of its characters. *)
Between(text, loc) == Whole(text) /\ AtBoundary(text, loc)

(* Cutting between two places that are between characters leaves characters whole. *)
LEMMA CutBetweenCharacters ==
  ASSUME NEW C, NEW t \in Seq(C), NEW from \in 0..Len(t), NEW to \in from..Len(t),
         Between(t, from), Between(t, to)
  PROVE  Between(Cat(SubSeq(t, 1, from), SubSeq(t, to + 1, Len(t))), from)
<1> DEFINE head == SubSeq(t, 1, from)
           tail == SubSeq(t, to + 1, Len(t))
           r == Cat(head, tail)
<1>1. Len(t) \in Nat /\ from \in Nat /\ to \in Nat /\ from <= to /\ to <= Len(t)
  BY LenProperties
<1>2. head \in Seq(C) /\ Len(head) = from /\ \A i \in 1..from : head[i] = t[i]
  BY PrefixIs
<1>3. /\ tail \in Seq(C) /\ Len(tail) = Len(t) - to
      /\ \A i \in 1..Len(t) - to : tail[i] = t[to + i]
  BY <1>1, SubSeqIs
<1> HIDE DEF head, tail
<1>4. Len(r) = from + (Len(t) - to)
  BY <1>2, <1>3, CatLength
<1>5. \A i \in 1..from : r[i] = t[i]
  BY <1>2, <1>3, CatElements
<1>6. \A i \in 1..Len(t) - to : r[from + i] = t[to + i]
  <2>0. head \in Seq(C) /\ tail \in Seq(C)
    BY <1>2, <1>3
  <2>1. /\ \A i \in 1..Len(head) : Cat(head, tail)[i] = head[i]
        /\ \A i \in 1..Len(tail) : Cat(head, tail)[Len(head) + i] = tail[i]
    BY <2>0, CatElements
  <2>2. r = Cat(head, tail)
    OBVIOUS
  <2> HIDE DEF r
  <2> QED
    BY <1>1, <1>2, <1>3, <2>1, <2>2
<1> HIDE DEF r
<1>7. /\ from < Len(t) => t[from + 1] # Cont
      /\ to < Len(t) => t[to + 1] # Cont
  BY DEF Between, AtBoundary
<1>8. \A i \in 1..Len(t) : /\ t[i] = Lead => i < Len(t) /\ t[i + 1] = Cont
                           /\ t[i] = Cont => i > 1 /\ t[i - 1] = Lead
  BY DEF Between, Whole
<1>9. ASSUME NEW i \in 1..Len(r)
      PROVE  /\ r[i] = Lead => i < Len(r) /\ r[i + 1] = Cont
             /\ r[i] = Cont => i > 1 /\ r[i - 1] = Lead
  <2>1. CASE i <= from
    <3>1. i \in 1..from /\ r[i] = t[i] /\ i \in 1..Len(t)
      BY <1>1, <1>4, <1>5, <2>1
    <3>2. t[i] = Lead => i < from /\ t[i + 1] = Cont
      BY <1>1, <1>7, <1>8, <3>1
    <3>3. i < from => r[i + 1] = t[i + 1] /\ i < Len(r)
      BY <1>1, <1>4, <1>5, <3>1
    <3>4. t[i] = Cont => i > 1 /\ t[i - 1] = Lead
      BY <1>8, <3>1
    <3>5. i > 1 => r[i - 1] = t[i - 1]
      BY <1>5, <3>1
    <3> QED
      BY <3>1, <3>2, <3>3, <3>4, <3>5
  <2>2. CASE i > from
    <3> DEFINE k == i - from
    <3>1. k \in 1..Len(t) - to /\ i = from + k
      BY <1>1, <1>4, <2>2
    <3> HIDE DEF k
    <3>2. r[i] = t[to + k] /\ to + k \in 1..Len(t)
      BY <1>1, <1>6, <3>1
    <3>3. t[to + k] = Lead => to + k < Len(t) /\ t[to + k + 1] = Cont
      BY <1>8, <3>2
    <3>4. to + k < Len(t) => i < Len(r) /\ r[i + 1] = t[to + k + 1]
      <4> SUFFICES ASSUME to + k < Len(t) PROVE i < Len(r) /\ r[i + 1] = t[to + k + 1]
        OBVIOUS
      <4>1. k + 1 \in 1..Len(t) - to
        BY <1>1, <3>1
      <4>2. r[from + (k + 1)] = t[to + (k + 1)]
        BY <1>6, <4>1
      <4>3. from + (k + 1) = i + 1 /\ to + (k + 1) = to + k + 1
        BY <1>1, <3>1
      <4> QED
        BY <1>1, <1>4, <3>1, <4>1, <4>2, <4>3
    <3>5. t[to + k] = Cont => k > 1 /\ t[to + k - 1] = Lead
      <4> SUFFICES ASSUME t[to + k] = Cont PROVE k > 1 /\ t[to + k - 1] = Lead
        OBVIOUS
      <4>1. t[(to + k) - 1] = Lead
        BY <1>8, <3>2
      <4>2. k # 1
        BY <1>1, <1>7, <3>1, <3>2
      <4> QED
        BY <1>1, <3>1, <4>1, <4>2
    <3>6. k > 1 => i > 1 /\ r[i - 1] = t[to + k - 1]
      <4> SUFFICES ASSUME k > 1 PROVE i > 1 /\ r[i - 1] = t[to + k - 1]
        OBVIOUS
      <4>1. k - 1 \in 1..Len(t) - to
        BY <1>1, <3>1
      <4>2. r[from + (k - 1)] = t[to + (k - 1)]
        BY <1>6, <4>1
      <4>3. from + (k - 1) = i - 1 /\ to + (k - 1) = to + k - 1 /\ i > 1
        BY <1>1, <3>1
      <4> QED
        BY <4>2, <4>3
    <3> QED
      BY <3>2, <3>3, <3>4, <3>5, <3>6
  <2> QED
    BY <1>1, <1>4, <2>1, <2>2
<1>10. from < Len(r) => r[from + 1] # Cont
  <2> SUFFICES ASSUME from < Len(r) PROVE r[from + 1] # Cont
    OBVIOUS
  <2>1. 1 \in 1..Len(t) - to /\ to < Len(t)
    BY <1>1, <1>4
  <2> QED
    BY <1>6, <1>7, <2>1
<1> QED
  BY <1>9, <1>10 DEF Between, Whole, AtBoundary, r, head, tail

(* So it is for the character before a place and the one after it. *)
LEMMA PrevIsBetween ==
  ASSUME NEW C, NEW t \in Seq(C), NEW loc \in 0..Len(t), Between(t, loc)
  PROVE  Between(t, PrevBoundary(t, loc))
<1>1. loc \in Nat /\ Len(t) \in Nat
  BY LenProperties
<1>2. PrevBoundary(t, loc) \in 0..loc
  BY PrevBoundaryIs
<1>3. CASE loc = 0
  BY <1>2, <1>3
<1>4. CASE loc > 0
  <2>1. PrevBoundary(t, loc) = 0 \/ t[PrevBoundary(t, loc) + 1] # Cont
    BY <1>4, PrevBoundaryIs
  <2>2. 1 \in 1..Len(t) => t[1] # Cont
    BY DEF Between, Whole
  <2> QED
    BY <1>1, <1>2, <1>4, <2>1, <2>2 DEF Between, AtBoundary
<1> QED
  BY <1>1, <1>3, <1>4

(* The next boundary is between characters, as the previous one is. *)
LEMMA NextIsBetween ==
  ASSUME NEW C, NEW t \in Seq(C), NEW loc \in 0..Len(t), Between(t, loc)
  PROVE  Between(t, NextBoundary(t, loc))
<1> DEFINE n == loc + (IF loc < Len(t) /\ t[loc + 1] = Lead THEN 2 ELSE 1)
<1>1. Len(t) \in Nat /\ loc \in Nat /\ loc <= Len(t) /\ n \in Nat
  BY LenProperties
<1>2. NextBoundary(t, loc) = IF Len(t) <= n THEN Len(t) ELSE n
  <2>1. NextBoundary(t, loc) = Min({Len(t), n})
    BY DEF NextBoundary
  <2> HIDE DEF n
  <2> QED
    BY <1>1, <2>1, MinOfTwo
<1>3. \A i \in 1..Len(t) : /\ t[i] = Lead => i < Len(t) /\ t[i + 1] = Cont
                           /\ t[i] = Cont => i > 1 /\ t[i - 1] = Lead
  BY DEF Between, Whole
<1>4. ASSUME n < Len(t) PROVE t[n + 1] # Cont
  <2>1. n + 1 \in 1..Len(t) /\ loc + 1 \in 1..Len(t) /\ loc < Len(t)
    BY <1>1, <1>4
  <2>2. t[n + 1] = Cont => t[n] = Lead
    <3>1. (n + 1) - 1 = n
      BY <1>1
    <3> HIDE DEF n
    <3> QED
      BY <1>3, <2>1, <3>1
  <2>3. CASE t[loc + 1] = Lead
    <3>1. n = loc + 2 /\ t[loc + 2] = Cont
      BY <1>1, <1>3, <2>1, <2>3
    <3> QED
      BY <2>2, <3>1 DEF Lead, Cont
  <2>4. CASE t[loc + 1] # Lead
    BY <1>1, <2>1, <2>2, <2>4
  <2> QED
    BY <2>3, <2>4
<1> HIDE DEF n
<1>5. AtBoundary(t, NextBoundary(t, loc))
  BY <1>1, <1>2, <1>4 DEF AtBoundary
<1> QED
  BY <1>5 DEF Between

(* The buffer b, its cursor between characters and its selection too. *)
Clean(b) == /\ Between(b.text, b.cursor)
            /\ HasSelection(b) => Between(b.text, b.anchor)

(* A cut from boundary to boundary leaves whole characters. *)
LEMMA CutKeepsWhole ==
  ASSUME NEW C, NEW b \in BuffersOf(C), NEW from \in 0..Len(b.text), NEW to \in from..Len(b.text),
         Between(b.text, from), Between(b.text, to)
  PROVE  Between(Without(b, from, to).text, Without(b, from, to).cursor)
<1>1. b.text \in Seq(C)
  BY BufferIs
<1> DEFINE t == b.text
<1>2. Between(Cat(SubSeq(t, 1, from), SubSeq(t, to + 1, Len(t))), from)
  <2>1. t \in Seq(C) /\ from \in 0..Len(t) /\ to \in from..Len(t) /\ Between(t, from) /\ Between(t, to)
    BY <1>1
  <2> HIDE DEF t
  <2> QED
    BY <2>1, CutBetweenCharacters
<1> QED
  BY <1>2, WithoutFits

(* A selection between boundaries is such a cut. *)
LEMMA SelectionCutKeepsWhole ==
  ASSUME NEW C, NEW b \in BuffersOf(C), Clean(b), HasSelection(b)
  PROVE  Between(DeleteSelection(b).text, DeleteSelection(b).cursor)
<1>1. /\ SelectionStart(b) \in 0..Len(b.text) /\ SelectionEnd(b) \in SelectionStart(b)..Len(b.text)
      /\ SelectionStart(b) \in {b.anchor, b.cursor} /\ SelectionEnd(b) \in {b.anchor, b.cursor}
  BY SelectionIs
<1>2. Between(b.text, SelectionStart(b)) /\ Between(b.text, SelectionEnd(b))
  BY <1>1 DEF Clean
<1> QED
  BY <1>1, <1>2, CutKeepsWhole DEF DeleteSelection

(* Each of the four keys goes from boundary to boundary. *)
LEMMA StepIsWhole ==
  ASSUME IInv, Clean(buf),
         Backspace \/ DeleteKey \/ \E shift \in BOOLEAN : Arrow("left", shift) \/ Arrow("right", shift)
  PROVE  Between(buf'.text, buf'.cursor)
<1>1. buf \in BuffersOf(Ink) /\ Between(buf.text, buf.cursor)
  BY DEF IInv, Fits, Clean
<1>2. buf.text \in Seq(Ink) /\ buf.cursor \in 0..Len(buf.text) /\ Len(buf.text) \in Nat
  BY <1>1, BufferIs
<1> DEFINE from == PrevBoundary(buf.text, buf.cursor)
           to == NextBoundary(buf.text, buf.cursor)
<1>3. from \in 0..buf.cursor /\ Between(buf.text, from)
  BY <1>1, <1>2, PrevBoundaryIs, PrevIsBetween
<1>4. to \in buf.cursor..Len(buf.text) /\ Between(buf.text, to)
  BY <1>1, <1>2, NextBoundaryIs, NextIsBetween
<1>5. CASE HasSelection(buf) /\ (Backspace \/ DeleteKey)
  <2>1. buf' = DeleteSelection(buf)
    BY <1>5 DEF Backspace, DeleteKey, Delete
  <2>2. Between(DeleteSelection(buf).text, DeleteSelection(buf).cursor)
    BY <1>1, <1>5, SelectionCutKeepsWhole
  <2> QED
    BY <2>1, <2>2
<1>6. CASE ~HasSelection(buf) /\ Backspace
  <2>1. buf' = Without(buf, from, buf.cursor)
    BY <1>6 DEF Backspace, Delete
  <2>2. from \in 0..Len(buf.text) /\ buf.cursor \in from..Len(buf.text)
    <3> HIDE DEF from
    <3> QED
      BY <1>2, <1>3
  <2>3. Between(Without(buf, from, buf.cursor).text, Without(buf, from, buf.cursor).cursor)
    <3> HIDE DEF from
    <3> QED
      BY <1>1, <1>3, <2>2, CutKeepsWhole
  <2> QED
    BY <2>1, <2>3
<1>7. CASE ~HasSelection(buf) /\ DeleteKey
  <2>1. buf' = Without(buf, buf.cursor, to)
    BY <1>7 DEF DeleteKey, Delete
  <2>2. Between(Without(buf, buf.cursor, to).text, Without(buf, buf.cursor, to).cursor)
    <3> HIDE DEF to
    <3> QED
      BY <1>1, <1>2, <1>4, CutKeepsWhole
  <2> QED
    BY <2>1, <2>2
<1>8. CASE \E shift \in BOOLEAN : Arrow("left", shift) \/ Arrow("right", shift)
  <2>1. PICK shift \in BOOLEAN : Arrow("left", shift) \/ Arrow("right", shift)
    BY <1>8
  <2>2. PICK key \in {"left", "right"} : buf' = Moved(buf, key, shift)
    BY <2>1 DEF Arrow, Show
  <2>3. buf'.text = buf.text /\ buf'.cursor = Target(buf, key)
    BY <1>1, <2>2, MovedFits
  <2>4. Target(buf, key) \in {from, to}
    BY <2>2 DEF Target
  <2> HIDE DEF from, to
  <2> QED
    BY <1>3, <1>4, <2>3, <2>4
<1> QED
  BY <1>5, <1>6, <1>7, <1>8

(* Backspace, Delete, Left and Right never leave half of a character, from a
   text and a cursor that have none. *)
THEOREM StepsAreOverCharacters == EditorSpec => StepsOverCharacters
<1> DEFINE Stepping ==
             (/\ Backspace \/ DeleteKey \/ \E shift \in BOOLEAN : Arrow("left", shift) \/ Arrow("right", shift)
              /\ Whole(buf.text) /\ AtBoundary(buf.text, buf.cursor)
              /\ HasSelection(buf) => AtBoundary(buf.text, buf.anchor))
             => (Whole(buf'.text) /\ AtBoundary(buf'.text, buf'.cursor))
<1>1. IInv => [Stepping]_vars
  <2>1. ASSUME IInv, Clean(buf),
               Backspace \/ DeleteKey \/ \E shift \in BOOLEAN : Arrow("left", shift) \/ Arrow("right", shift)
        PROVE  Whole(buf'.text) /\ AtBoundary(buf'.text, buf'.cursor)
    BY <2>1, StepIsWhole DEF Between
  <2> QED
    BY <2>1 DEF Clean, Between
<1> HIDE DEF Stepping
<1>2. EditorSpec => [][Stepping]_vars
  BY <1>1, OneDocument, PTL
<1> QED
  BY <1>2 DEF StepsOverCharacters, Stepping

-----------------------------------------------------------------------------
(* Auto-indent, against the formatter.                                     *)

(* Only what stands before the cursor is looked at. *)
Agree(s, u, n) == \A i \in 1..n : s[i] = u[i]

(* So strings end at the same places, ... *)
LEMMA QuotesAgree ==
  ASSUME NEW n \in Nat, NEW s, NEW u, Agree(s, u, n)
  PROVE  \A i \in 1..n + 1 : AfterQuote(s, n)[i] = AfterQuote(u, n)[i]
<1> DEFINE A == AfterQuote(s, n)
           B == AfterQuote(u, n)
           top == n + 1
           G == {i \in 1..top : A[i] = B[i]}
           on(i) == IF s[i] = Backslash /\ i < n THEN i + 2 ELSE i + 1
<1>1. \A i \in 1..n + 1 : A[i] = IF i > n THEN i ELSE IF s[i] = Quote THEN i + 1 ELSE A[on(i)]
  BY AfterQuoteIs
<1>2. \A i \in 1..n + 1 : B[i] = IF i > n THEN i ELSE IF u[i] = Quote THEN i + 1
                                 ELSE B[IF u[i] = Backslash /\ i < n THEN i + 2 ELSE i + 1]
  BY AfterQuoteIs
<1> HIDE DEF A, B
<1>3. ASSUME NEW i \in 1..top, \A j \in i + 1..top : j \in G PROVE i \in G
  <2>1. CASE i > n
    BY <1>1, <1>2, <2>1
  <2>2. CASE ~(i > n)
    <3>1. s[i] = u[i]
      BY <2>2 DEF Agree
    <3>2. on(i) \in i + 1..top
      BY <2>2
    <3>3. A[on(i)] = B[on(i)]
      BY <1>3, <3>2
    <3>4. A[i] = IF s[i] = Quote THEN i + 1 ELSE A[on(i)]
      BY <1>1, <2>2
    <3>5. B[i] = IF s[i] = Quote THEN i + 1 ELSE B[on(i)]
      BY <1>2, <2>2, <3>1
    <3> HIDE DEF on
    <3> QED
      BY <3>3, <3>4, <3>5
  <2> QED
    BY <2>1, <2>2
<1>4. top \in Nat
  OBVIOUS
<1> HIDE DEF G, top
<1>5. \A i \in 1..top : i \in G
  BY <1>3, <1>4, Backwards
<1> QED
  BY <1>5 DEF G, top, A, B

(* ... and auto-indent counts the same depth. *)
LEMMA DepthsAgree ==
  ASSUME NEW n \in Nat, NEW s, NEW u, Agree(s, u, n)
  PROVE  ParenDepthBefore(s, n) = ParenDepthBefore(u, n)
<1> DEFINE E == EditorScan(s, n)
           F == EditorScan(u, n)
           top == n + 1
           Same(i) == \A k \in Nat : E[<<i, k>>] = F[<<i, k>>]
           G == {i \in 1..top : Same(i)}
<1>1. \A i \in 1..top, k \in Nat :
        E[<<i, k>>] = IF i > n THEN k ELSE IF CommentAt(s, n, i) THEN E[<<BreakAfter(s, n, i), k>>]
                      ELSE E[Onward(s, n, i, k)]
  BY EditorUnfold
<1>2. \A i \in 1..top, k \in Nat :
        F[<<i, k>>] = IF i > n THEN k ELSE IF CommentAt(u, n, i) THEN F[<<BreakAfter(u, n, i), k>>]
                      ELSE F[Onward(u, n, i, k)]
  BY EditorUnfold
<1> HIDE DEF E, F
<1>3. ASSUME NEW i \in 1..top, \A j \in i + 1..top : j \in G PROVE i \in G
  <2> SUFFICES ASSUME NEW k \in Nat PROVE E[<<i, k>>] = F[<<i, k>>]
    OBVIOUS
  <2>1. CASE i > n
    BY <1>1, <1>2, <2>1
  <2>2. CASE ~(i > n)
    <3> DEFINE e == BreakAfter(s, n, i)
    <3>1. CommentAt(s, n, i) <=> CommentAt(u, n, i)
      BY <2>2 DEF CommentAt, Agree
    <3>2. e = BreakAfter(u, n, i)
      <4>1. {j \in i..n + 1 : j = n + 1 \/ s[j] = "\n"} = {j \in i..n + 1 : j = n + 1 \/ u[j] = "\n"}
        BY <2>2 DEF Agree
      <4> QED
        BY <4>1 DEF BreakAfter
    <3>3. CommentAt(s, n, i) => e \in i + 1..top
      <4> SUFFICES ASSUME CommentAt(s, n, i) PROVE e \in i + 1..top
        OBVIOUS
      <4> DEFINE S == {j \in i..n + 1 : j = n + 1 \/ s[j] = "\n"}
      <4>1. S \in SUBSET Nat /\ S # {} /\ e = Min(S)
        BY DEF BreakAfter
      <4>2. e \in S
        <5> HIDE DEF S, e
        <5> QED
          BY <4>1, MinIsLeast
      <4>3. s[i] # "\n"
        BY CharactersDiffer DEF CommentAt, Semicolon
      <4> HIDE DEF e
      <4> QED
        BY <2>2, <4>2, <4>3
    <3>4. Onward(s, n, i, k) = Onward(u, n, i, k)
      <4>1. i + 1 \in 1..n + 1 /\ s[i] = u[i]
        BY <2>2 DEF Agree
      <4>2. AfterQuote(s, n)[i + 1] = AfterQuote(u, n)[i + 1]
        BY <4>1, QuotesAgree
      <4> QED
        BY <4>1, <4>2 DEF Onward
    <3>5. \E j \in i + 1..top, d \in Nat : Onward(s, n, i, k) = <<j, d>>
      <4>1. Onward(s, n, i, k) \in Places(n) /\ Onward(s, n, i, k)[1] > i
        BY <2>2, OnwardIs
      <4>2. PICK j \in 1..n + 1, d \in Nat : Onward(s, n, i, k) = <<j, d>>
        BY <4>1 DEF Places
      <4>3. j \in i + 1..top
        BY <4>1, <4>2
      <4> QED
        BY <4>2, <4>3
    <3> HIDE DEF e
    <3>6. CASE CommentAt(s, n, i)
      <4>1. E[<<i, k>>] = E[<<e, k>>] /\ F[<<i, k>>] = F[<<e, k>>]
        BY <1>1, <1>2, <2>2, <3>1, <3>2, <3>6 DEF e
      <4>2. e \in G
        BY <1>3, <3>3, <3>6
      <4> QED
        BY <4>1, <4>2
    <3>7. CASE ~CommentAt(s, n, i)
      <4>1. PICK j \in i + 1..top, d \in Nat : Onward(s, n, i, k) = <<j, d>>
        BY <3>5
      <4>2. E[<<i, k>>] = E[<<j, d>>] /\ F[<<i, k>>] = F[<<j, d>>]
        BY <1>1, <1>2, <2>2, <3>1, <3>4, <3>7, <4>1
      <4>3. j \in G
        BY <1>3, <4>1
      <4> QED
        BY <4>2, <4>3
    <3> QED
      BY <3>6, <3>7
  <2> QED
    BY <2>1, <2>2
<1>4. top \in Nat /\ 1 \in 1..top
  OBVIOUS
<1> HIDE DEF G, top
<1>5. \A i \in 1..top : i \in G
  BY <1>3, <1>4, Backwards
<1>6. E[<<1, 0>>] = F[<<1, 0>>]
  BY <1>4, <1>5 DEF G
<1>7. ParenDepthBefore(s, n) = EditorScan(s, n)[<<1, 0>>]
  BY EditorUnfold
<1>8. ParenDepthBefore(u, n) = EditorScan(u, n)[<<1, 0>>]
  BY EditorUnfold
<1> QED
  BY <1>6, <1>7, <1>8 DEF E, F

(* A literal ends in a quote, and the newlines in it are in its text. *)
Literally(s, V, j) ==
  LET lit == LiteralFrom(s)[j]
  IN  lit.next # 0 =>
        /\ lit.text \in Seq(V) /\ lit.next \in j + 1..Len(s) + 1 /\ s[lit.next - 1] = Quote
        /\ \A q \in j..lit.next - 2 : s[q] = "\n" => \E x \in 1..Len(lit.text) : lit.text[x] = "\n"

(* Every literal that closes is so, whatever is escaped in it. *)
LEMMA LiteralKeepsBreaks ==
  ASSUME NEW C, NEW s \in Seq(C), NEW V, V = C \cup {"\n", "\t", "\r"}
  PROVE  \A j \in 1..Len(s) + 1 : Literally(s, V, j)
<1> DEFINE n == Len(s)
           f == LiteralFrom(s)
           top == n + 1
           G == {j \in 1..top : Literally(s, V, j)}
<1>1. n \in Nat
  BY LenProperties
<1>2. /\ f[n + 1].next = 0
      /\ \A j \in 1..n + 1 : f[j].next \in {0} \cup j + 1..n + 1
      /\ \A j \in 1..n :
           IF s[j] = Quote THEN f[j].text = <<>> /\ f[j].next = j + 1
           ELSE /\ f[j].text = Cat(<<LiteralChar(s, j)>>, f[LiteralOn(s, j)].text)
                /\ f[j].next = f[LiteralOn(s, j)].next
  <2>1. Literal(s, LiteralFrom(s))
    BY <1>1, LiteralIs
  <2> QED
    BY <2>1 DEF Literal
<1>3. ASSUME NEW j \in 1..top, \A m \in j + 1..top : m \in G PROVE j \in G
  <2>1. CASE j = top
    BY <1>2, <2>1 DEF Literally
  <2>2. CASE j # top /\ s[j] = Quote
    <3>1. j \in 1..n
      BY <1>1, <2>2
    <3>2. f[j].text = <<>> /\ f[j].next = j + 1
      BY <1>2, <2>2, <3>1
    <3>3. <<>> \in Seq(V) /\ (j + 1) - 1 = j /\ j + 1 \in j + 1..Len(s) + 1
      BY <1>1, <3>1
    <3>4. j..(j + 1) - 2 = {}
      BY <3>1
    <3>5. Literally(s, V, j)
      BY <2>2, <3>2, <3>3, <3>4 DEF Literally
    <3> QED
      BY <3>5
  <2>3. CASE j # top /\ s[j] # Quote
    <3> DEFINE m == LiteralOn(s, j)
               c == LiteralChar(s, j)
               r == f[m].text
               t == f[j].text
               e == f[j].next
    <3>1. j \in 1..n
      BY <1>1, <2>3
    <3>2. t = Cat(<<c>>, r) /\ e = f[m].next
      BY <1>2, <2>3, <3>1
    <3>3. m \in j + 1..top /\ (m = j + 1 \/ m = j + 2)
      BY <1>1, <3>1 DEF LiteralOn
    <3>4. s[j] \in C /\ (m = j + 2 => s[j + 1] \in C)
      <4>1. m = j + 2 => j + 1 \in 1..n
        BY <1>1, <3>1 DEF LiteralOn
      <4> QED
        BY <3>1, <4>1, ElementOfSeq
    <3>5. c \in V
      <4>1. \A x : Unescaped(x) \in {x, "\n", "\t", "\r"}
        BY DEF Unescaped
      <4> QED
        BY <3>1, <3>4, <4>1 DEF LiteralChar, LiteralOn
    <3>6. s[j] = "\n" => c = "\n"
      BY CharactersDiffer DEF LiteralChar, Backslash
    <3>7. (m = j + 2 /\ s[j + 1] = "\n") => c = "\n"
      BY <1>1, <3>1 DEF LiteralChar, LiteralOn, Unescaped
    <3>8. SUFFICES ASSUME e # 0 PROVE Literally(s, V, j)
      BY DEF Literally
    <3>9. Literally(s, V, m)
      BY <1>3, <3>3
    <3> HIDE DEF m, c, r
    <3>10. /\ r \in Seq(V) /\ e \in m + 1..n + 1 /\ s[e - 1] = Quote
           /\ \A q \in m..e - 2 : s[q] = "\n" => \E x \in 1..Len(r) : r[x] = "\n"
      BY <3>2, <3>8, <3>9 DEF Literally, r
    <3> HIDE DEF t, e, f
    <3>11. Consed(V, c, r, t)
      BY <3>2, <3>5, <3>10, ConsIsConsed
    <3>12. t \in Seq(V) /\ e \in j + 1..n + 1
      BY <1>1, <3>3, <3>10, <3>11 DEF Consed
    <3>13. ASSUME NEW q \in j..e - 2, s[q] = "\n" PROVE \E x \in 1..Len(t) : t[x] = "\n"
      <4>1. c = "\n" => 1 \in 1..Len(t) /\ t[1] = "\n"
        <5>1. Len(r) \in Nat
          BY <3>10, LenProperties
        <5> QED
          BY <3>11, <5>1 DEF Consed
      <4>2. CASE q = j \/ q < m
        <5>1. c = "\n"
          <6>1. q = j \/ (m = j + 2 /\ q = j + 1)
            BY <3>3, <4>2
          <6> QED
            BY <3>6, <3>7, <3>13, <6>1
        <5> QED
          BY <4>1, <5>1
      <4>3. CASE q >= m
        <5>1. q \in m..e - 2
          BY <3>3, <3>10, <4>3
        <5>2. PICK x \in 1..Len(r) : r[x] = "\n"
          BY <3>10, <3>13, <5>1
        <5>3. Len(r) \in Nat
          BY <3>10, LenProperties
        <5>4. x + 1 \in 1..Len(t) /\ t[x + 1] = "\n"
          BY <3>11, <5>2, <5>3 DEF Consed
        <5> QED
          BY <5>4
      <4> QED
        BY <3>3, <4>2, <4>3
    <3> QED
      BY <3>10, <3>12, <3>13 DEF Literally, t, e, f
  <2> QED
    BY <2>1, <2>2, <2>3
<1>4. top \in Nat
  BY <1>1
<1> HIDE DEF G
<1>5. \A j \in 1..top : j \in G
  <2> HIDE DEF top
  <2> QED
    BY <1>3, <1>4, Backwards
<1> QED
  BY <1>5 DEF G

(* A token that is kept whole, on one line; every token from place i on is so. *)
Tidy(t) ==
  /\ t.kind # "unterminated" /\ \A x \in DOMAIN t.text : t.text[x] # "\n"
  /\ t.kind = "string" => Len(t.text) < StringCap
TidyFrom(s, i) == \A x \in 1..Len(TokensFrom(s)[i]) : Tidy(TokensFrom(s)[i][x])

(* If every token from a place on is so, then the one there is, and those after it. *)
LEMMA TidyOn ==
  ASSUME NEW t, NEW k \in Nat, k = Len(t), NEW j \in 1..k, t[j] \notin Spaces \cup {Semicolon},
         TidyFrom(t, j)
  PROVE  /\ TokenAt(t, j).next \in j + 1..k + 1 /\ TidyFrom(t, TokenAt(t, j).next)
         /\ Tidy(TokenAt(t, j))
<1> DEFINE f == TokensFrom(t)
           y == TokenAt(t, j)
           me == Recorded(t, j)
           S == TokensIn(t)
           to == y.next
<1>1. ClosesFrom(t, j)
  BY DEF TidyFrom, Tidy, ClosesFrom
<1>2. to \in j + 1..k + 1
  BY <1>1, ClosesOn
<1>3. j \in 1..k + 1 /\ ~Blank(t, j) /\ ~(j > Len(t)) /\ to # 0 /\ to \in 1..k + 1
  BY <1>2 DEF Blank
<1>4. SkipBlank(t, j) = j
  BY <1>3, SkipBlankUnfolds
<1>5. TokenAfter(t, j) = y
  BY <1>4 DEF TokenAfter
<1>6. y.kind # "eof"
  <2>1. Taken(t, j, y)
    BY <1>3, TokenAtIs
  <2> QED
    BY <2>1, KindsDiffer DEF Taken
<1>7. f \in [1..k + 1 -> Seq(S)] /\ f[j] = TokensAt(t, f, j)
  BY <1>3, TokensUnfold
<1>8. me \in S /\ me.kind = y.kind /\ me.text = y.text
  BY <1>3, <1>5 DEF TokensIn, Recorded
<1> DEFINE r == f[to]
           all == f[j]
<1>9. all = Cat(<<me>>, r)
  <2> HIDE DEF f, y
  <2> QED
    BY <1>3, <1>5, <1>6, <1>7 DEF TokensAt
<1>10. r \in Seq(S)
  <2> HIDE DEF f, to, S
  <2> QED
    BY <1>3, <1>7
<1>11. \A x \in 1..Len(all) : Tidy(all[x])
  BY DEF TidyFrom
<1> HIDE DEF f, y, me, S, r, all
<1>12. Consed(S, me, r, all)
  BY <1>8, <1>9, <1>10, ConsIsConsed
<1>13. Len(r) \in Nat
  BY <1>10, LenProperties
<1>14. Tidy(me)
  <2>1. 1 \in 1..Len(all) /\ all[1] = me
    BY <1>12, <1>13 DEF Consed
  <2> QED
    BY <1>11, <2>1
<1>15. Tidy(y)
  BY <1>8, <1>14 DEF Tidy
<1>16. \A x \in 1..Len(r) : Tidy(r[x])
  <2> SUFFICES ASSUME NEW x \in 1..Len(r) PROVE Tidy(r[x])
    OBVIOUS
  <2>1. x + 1 \in 1..Len(all) /\ all[x + 1] = r[x]
    BY <1>12, <1>13 DEF Consed
  <2> QED
    BY <1>11, <2>1
<1>17. TidyFrom(t, to)
  BY <1>16 DEF TidyFrom, r, f
<1> QED
  BY <1>2, <1>15, <1>17 DEF to, y

(* Where copied text has no newline there is none. *)
LEMMA CopiedOnLine ==
  ASSUME NEW C, NEW s \in Seq(C), NEW j \in 1..Len(s), NEW e \in j + 1..Len(s) + 1,
         NEW t, t = SubSeq(s, j, e - 1), \A x \in DOMAIN t : t[x] # "\n"
  PROVE  \A x \in j..e - 1 : s[x] # "\n"
<1> DEFINE a == j - 1
           b == e - 1
<1>1. Len(s) \in Nat
  BY LenProperties
<1>2. a \in 0..Len(s) /\ b \in a..Len(s) /\ a + 1 = j
  BY <1>1
<1>3. t = SubSeq(s, a + 1, b)
  BY <1>2
<1> HIDE DEF a, b
<1>4. t \in Seq(C) /\ Len(t) = b - a /\ \A x \in 1..b - a : t[x] = s[a + x]
  BY <1>2, <1>3, SubSeqIs
<1> SUFFICES ASSUME NEW x \in j..e - 1 PROVE s[x] # "\n"
  OBVIOUS
<1>5. x - a \in 1..b - a /\ a + (x - a) = x
  BY <1>2 DEF a, b
<1>6. x - a \in DOMAIN t
  BY <1>4, <1>5
<1> QED
  BY <1>4, <1>5, <1>6

(* So a token that is kept whole is all on its line, and it does not end in a semicolon. *)
LEMMA TidyOnLine ==
  ASSUME NEW C, NEW s \in Seq(C), NEW n \in Nat, n = Len(s), NEW j \in 1..n,
         s[j] \notin Spaces \cup {Semicolon},
         TokenAt(s, j).next \in j + 1..n + 1, Tidy(TokenAt(s, j))
  PROVE  /\ \A x \in j..TokenAt(s, j).next - 1 : s[x] # "\n"
         /\ s[TokenAt(s, j).next - 1] # Semicolon
<1> DEFINE y == TokenAt(s, j)
           to == y.next
           kind == y.kind
<1>1. y = IF s[j] \in Bracket \cup {"@"} THEN Punct(j, s[j])
          ELSE IF s[j] = Quote THEN StringToken(s, j)
          ELSE IF s[j] = ":" THEN
                 IF KeywordAt(s, j) THEN UpTo(s, j, "keyword", EndOfRun(s, j + 1, IsSymbolChar))
                 ELSE Punct(j, ":")
          ELSE IF StartsNumber(s, j) THEN UpTo(s, j, "number", NumberEnd(s, j))
          ELSE UpTo(s, j, "symbol", EndOfRun(s, j, IsSymbolChar))
  BY TokenSplits
<1>2. Made(s, j, to, kind) /\ to \in j + 1..n + 1 /\ Tidy(y)
  BY TokenMade
<1>3. Quote \notin Bracket \cup {"@", ":"} /\ s[j] # "\n" /\ "\n" \in Spaces
  BY CharactersDiffer DEF Quote, Spaces
<1> HIDE DEF y
<1> SUFFICES (\A x \in j..to - 1 : s[x] # "\n") /\ s[to - 1] # Semicolon
  BY DEF y
<1>4. CASE s[j] = Quote
  <2> DEFINE i == j + 1
             lit == LiteralFrom(s)[i]
             txt == lit.text
             cut == SubSeq(txt, 1, Min({Len(txt), StringCap}))
             V == C \cup {"\n", "\t", "\r"}
  <2>1. i \in 1..Len(s) + 1
    OBVIOUS
  <2>2. y = [kind |-> "string", next |-> lit.next, text |-> cut]
    <3>1. y = StringToken(s, j)
      BY <1>1, <1>3, <1>4
    <3>2. Literal(s, LiteralFrom(s))
      BY LiteralIs
    <3>3. StringToken(s, j) = [kind |-> "string", next |-> lit.next, text |-> cut]
      BY <3>2 DEF Literal
    <3> QED
      BY <3>1, <3>3
  <2>3. Literally(s, V, i)
    <3> HIDE DEF i
    <3>1. V = C \cup {"\n", "\t", "\r"}
      OBVIOUS
    <3> HIDE DEF V
    <3> QED
      BY <2>1, <3>1, LiteralKeepsBreaks
  <2> DEFINE v == lit.next
  <2> HIDE DEF i, txt, cut, V, v
  <2>4. to = v /\ kind = "string" /\ y.text = cut
    BY <2>2 DEF v
  <2>5. v # 0 /\ v = to
    BY <1>2, <2>4
  <2>6. /\ txt \in Seq(V) /\ s[v - 1] = Quote
        /\ \A q \in i..v - 2 : s[q] = "\n" => \E x \in 1..Len(txt) : txt[x] = "\n"
    BY <2>3, <2>5 DEF Literally, v, txt
  <2>7. Len(cut) < StringCap /\ \A x \in DOMAIN cut : cut[x] # "\n"
    BY <1>2, <2>4 DEF Tidy
  <2>8. cut = txt
    <3> DEFINE L == Len(txt)
               m == Min({L, StringCap})
    <3>1. L \in Nat /\ StringCap \in Nat
      BY <2>6, LenProperties, LexerAssumption
    <3>2. {L, StringCap} \in SUBSET Nat /\ {L, StringCap} # {}
      BY <3>1
    <3>3. m \in {L, StringCap} /\ \A x \in {L, StringCap} : m <= x
      <4> DEFINE P == {L, StringCap}
      <4>1. P \in SUBSET Nat /\ P # {} /\ m = Min(P)
        BY <3>2
      <4> HIDE DEF P, m
      <4>2. m \in P /\ \A x \in P : m <= x
        BY <4>1, MinIsLeast
      <4> QED
        BY <4>2 DEF P
    <3> HIDE DEF m
    <3>4. m \in 0..L
      BY <3>1, <3>3
    <3>5. cut = SubSeq(txt, 0 + 1, m)
      BY DEF cut, m
    <3>6. 0 \in 0..Len(txt) /\ m \in 0..Len(txt)
      BY <3>1, <3>4
    <3>7. cut \in Seq(V) /\ Len(cut) = m - 0 /\ \A x \in 1..m - 0 : cut[x] = txt[0 + x]
      BY <2>6, <3>5, <3>6, SubSeqIs
    <3>8. m < StringCap
      BY <2>7, <3>4, <3>7
    <3>9. m = L
      BY <3>1, <3>3, <3>8
    <3>10. Len(cut) = Len(txt)
      BY <3>1, <3>7, <3>9
    <3>11. \A x \in 1..Len(cut) : cut[x] = txt[x]
      BY <3>1, <3>4, <3>7
    <3> QED
      BY <2>6, <3>7, <3>10, <3>11, SameElements
  <2>9. \A q \in i..v - 2 : s[q] # "\n"
    <3>1. DOMAIN txt = 1..Len(txt)
      BY <2>6
    <3> QED
      BY <2>6, <2>7, <2>8, <3>1
  <2>10. Quote # "\n" /\ Quote # Semicolon
    BY CharactersDiffer
  <2>11. \A x \in j..to - 1 : s[x] # "\n"
    <3> SUFFICES ASSUME NEW x \in j..to - 1 PROVE s[x] # "\n"
      OBVIOUS
    <3>1. x = j \/ x = v - 1 \/ x \in i..v - 2
      BY <1>2, <2>5 DEF i
    <3> QED
      BY <1>4, <2>6, <2>9, <2>10, <3>1
  <2> QED
    BY <2>5, <2>6, <2>10, <2>11
<1>5. CASE s[j] # Quote
  <2>1. (to = j + 1) \/ y.text = SubSeq(s, j, to - 1)
    BY <1>1, <1>5 DEF Punct, UpTo
  <2>2. \A x \in j..to - 1 : s[x] # "\n"
    <3>1. CASE to = j + 1
      BY <1>3, <3>1
    <3>2. CASE y.text = SubSeq(s, j, to - 1)
      <4> DEFINE t == y.text
      <4>1. (\A x \in DOMAIN t : t[x] # "\n") /\ to \in j + 1..Len(s) + 1
        BY <1>2 DEF Tidy
      <4> HIDE DEF t, to
      <4>2. t = SubSeq(s, j, to - 1)
        BY <3>2 DEF t
      <4> QED
        BY <4>1, <4>2, CopiedOnLine
    <3> QED
      BY <2>1, <3>1, <3>2
  <2>3. s[to - 1] # Semicolon
    <3>1. CASE to = j + 1
      BY <3>1
    <3>2. CASE \A x \in j..to - 1 : Neutral(s[x])
      BY <1>2, <3>2 DEF Neutral
    <3> QED
      BY <1>2, <1>5, <3>1, <3>2 DEF Made
  <2> QED
    BY <2>2, <2>3
<1> QED
  BY <1>4, <1>5

(* The line l of s: the k characters after a, up to the newline at e or the end of s. *)
LineIn(s, n, l, a, k, e) ==
  /\ n \in Nat /\ n = Len(s) /\ k \in Nat /\ k = Len(l) /\ a \in Nat
  /\ e = a + k + 1 /\ e <= n + 1 /\ (e <= n => s[e] = "\n")
  /\ \A i \in 1..k : l[i] = s[a + i]

(* A literal that ends on the line ends at the same place of it. *)
LEMMA QuoteInLine ==
  ASSUME NEW s, NEW n, NEW l, NEW a, NEW k, NEW e, LineIn(s, n, l, a, k, e)
  PROVE  \A i \in 1..k + 1 :
           AfterQuote(s, n)[a + i] <= e => AfterQuote(s, n)[a + i] = a + AfterQuote(l, k)[i]
<1> DEFINE A == AfterQuote(s, n)
           B == AfterQuote(l, k)
           top == k + 1
           Ends(i) == A[a + i] <= e => A[a + i] = a + B[i]
           G == {i \in 1..top : Ends(i)}
<1>1. /\ n \in Nat /\ k \in Nat /\ a \in Nat /\ e = a + k + 1 /\ e <= n + 1 /\ (e <= n => s[e] = "\n")
      /\ \A i \in 1..k : l[i] = s[a + i]
  BY DEF LineIn
<1>2. \A i \in 1..n + 1 :
        /\ A[i] \in i..n + 1
        /\ A[i] = IF i > n THEN i ELSE IF s[i] = Quote THEN i + 1
                  ELSE A[IF s[i] = Backslash /\ i < n THEN i + 2 ELSE i + 1]
  BY <1>1, AfterQuoteIs
<1>3. \A i \in 1..k + 1 :
        B[i] = IF i > k THEN i ELSE IF l[i] = Quote THEN i + 1
               ELSE B[IF l[i] = Backslash /\ i < k THEN i + 2 ELSE i + 1]
  BY <1>1, AfterQuoteIs
<1> HIDE DEF A, B
<1>4. ASSUME NEW i \in 1..top, \A j \in i + 1..top : j \in G PROVE i \in G
  <2> SUFFICES ASSUME A[a + i] <= e PROVE A[a + i] = a + B[i]
    OBVIOUS
  <2> DEFINE x == a + i
  <2>1. x \in 1..n + 1 /\ x <= e
    BY <1>1
  <2>2. /\ A[x] \in x..n + 1 /\ A[x] <= e
        /\ A[x] = IF x > n THEN x ELSE IF s[x] = Quote THEN x + 1
                  ELSE A[IF s[x] = Backslash /\ x < n THEN x + 2 ELSE x + 1]
    BY <1>2, <2>1
  <2>3. CASE i = top
    <3>1. B[i] = i /\ x = e
      BY <1>1, <1>3, <2>3
    <3>2. x > n
      <4> SUFFICES ASSUME x <= n PROVE FALSE
        BY <1>1, <2>1
      <4>1. s[x] = "\n"
        BY <1>1, <3>1
      <4>2. s[x] # Quote /\ s[x] # Backslash
        BY <4>1, CharactersDiffer
      <4>3. A[x] = A[x + 1]
        <5> HIDE DEF x
        <5>1. A[x] = A[IF s[x] = Backslash /\ x < n THEN x + 2 ELSE x + 1]
          BY <1>1, <2>1, <2>2, <4>2
        <5> QED
          BY <4>2, <5>1
      <4>4. A[x + 1] >= x + 1
        BY <1>1, <1>2, <2>1
      <4> QED
        BY <1>1, <2>2, <3>1, <4>3, <4>4
    <3>3. A[x] = x
      BY <2>2, <3>2
    <3> QED
      BY <3>1, <3>3
  <2>4. CASE i # top
    <3>1. i \in 1..k /\ i \in 1..k + 1 /\ x < e /\ ~(x > n) /\ ~(i > k)
      BY <1>1, <2>4
    <3>2. l[i] = s[x]
      BY <1>1, <3>1
    <3>3. B[i] = IF s[x] = Quote THEN i + 1 ELSE B[IF s[x] = Backslash /\ i < k THEN i + 2 ELSE i + 1]
      BY <1>3, <3>1, <3>2
    <3>4. CASE s[x] = Quote
      <4>1. A[x] = x + 1 /\ B[i] = i + 1
        BY <2>2, <3>1, <3>3, <3>4
      <4> QED
        BY <1>1, <4>1
    <3>5. CASE s[x] # Quote /\ s[x] = Backslash /\ i < k
      <4> DEFINE j == i + 2
                 y == a + j
      <4>1. x < n /\ y = x + 2 /\ j \in i + 1..top
        BY <1>1, <3>5
      <4>2. A[x] = A[y] /\ B[i] = B[j]
        BY <2>2, <3>1, <3>3, <3>5, <4>1
      <4>3. j \in G
        BY <1>4, <4>1
      <4> HIDE DEF j, x
      <4>4. A[y] <= e => A[y] = a + B[j]
        BY <4>3
      <4> QED
        BY <2>2, <4>2, <4>4 DEF x
    <3>6. CASE s[x] # Quote /\ s[x] = Backslash /\ ~(i < k)
      <4>1. i = k /\ x + 1 = e
        BY <1>1, <3>1, <3>6
      <4>2. ~(x < n)
        <5> SUFFICES ASSUME x < n PROVE FALSE
          OBVIOUS
        <5>1. A[x] = A[x + 2]
          <6> HIDE DEF x
          <6>1. A[x] = A[IF s[x] = Backslash /\ x < n THEN x + 2 ELSE x + 1]
            BY <1>1, <2>1, <2>2, <3>6
          <6> QED
            BY <3>6, <6>1
        <5>2. x + 2 \in 1..n + 1
          BY <1>1, <2>1
        <5>3. A[x + 2] >= x + 2
          BY <1>2, <5>2
        <5> QED
          BY <1>1, <2>1, <2>2, <4>1, <5>1, <5>3
      <4> DEFINE j == i + 1
                 y == a + j
      <4>3. y = x + 1 /\ j \in i + 1..top
        BY <1>1, <3>1
      <4>4. A[x] = A[y] /\ B[i] = B[j]
        BY <2>2, <3>1, <3>3, <3>6, <4>2, <4>3
      <4>5. j \in G
        BY <1>4, <4>3
      <4> HIDE DEF j, x
      <4>6. A[y] <= e => A[y] = a + B[j]
        BY <4>5
      <4> QED
        BY <2>2, <4>4, <4>6 DEF x
    <3>7. CASE s[x] # Quote /\ s[x] # Backslash
      <4> DEFINE j == i + 1
                 y == a + j
      <4>1. y = x + 1 /\ j \in i + 1..top
        BY <1>1, <3>1
      <4>2. A[x] = A[y] /\ B[i] = B[j]
        BY <2>2, <3>1, <3>3, <3>7, <4>1
      <4>3. j \in G
        BY <1>4, <4>1
      <4> HIDE DEF j, x
      <4>4. A[y] <= e => A[y] = a + B[j]
        BY <4>3
      <4> QED
        BY <2>2, <4>2, <4>4 DEF x
    <3> QED
      BY <3>4, <3>5, <3>6, <3>7
  <2> QED
    BY <2>3, <2>4
<1>5. top \in Nat
  BY <1>1
<1> HIDE DEF G
<1>6. \A i \in 1..top : i \in G
  <2> HIDE DEF top
  <2> QED
    BY <1>4, <1>5, Backwards
<1> QED
  BY <1>6 DEF G, A, B

(* A token on the line leads the formatter's scan of the line where it leads the reader. *)
LEMMA TokenInLine ==
  ASSUME NEW s, NEW n, NEW l, NEW a, NEW k, NEW e, LineIn(s, n, l, a, k, e),
         NEW x \in a + 1..e - 1, s[x] \notin Spaces \cup {Semicolon},
         TokenAt(s, x).next \in x + 1..e, NEW d \in Nat
  PROVE  DepthScan(l)[<<x - a, d>>] =
           DepthScan(l)[<<TokenAt(s, x).next - a, Deeper(TokenAt(s, x).kind, d)>>]
<1> DEFINE to == TokenAt(s, x).next
           kind == TokenAt(s, x).kind
           P == (a + 1..e) \X Nat
           L == [p \in P |-> DepthScan(l)[<<p[1] - a, p[2]>>]]
           scan == DepthScan(l)
<1>1. /\ n \in Nat /\ n = Len(s) /\ k \in Nat /\ k = Len(l) /\ a \in Nat /\ e = a + k + 1 /\ e <= n + 1
      /\ \A i \in 1..k : l[i] = s[a + i]
  BY DEF LineIn
<1>2. x \in 1..n /\ to \in x + 1..n + 1
  BY <1>1
<1>3. \A y \in a + 1..e, h \in Nat : L[<<y, h>>] = scan[<<y - a, h>>]
  OBVIOUS
<1>4. \A i \in 1..k + 1, h \in Nat :
        scan[<<i, h>>] = IF i > k \/ l[i] = Semicolon THEN h ELSE scan[Onward(l, k, i, h)]
  BY <1>1, DepthUnfold
<1>5. Made(s, x, to, kind)
  BY <1>1, <1>2, TokenMade
<1> HIDE DEF L, scan, to, kind
<1>6. ASSUME NEW y \in a + 1..e - 1, NEW h \in Nat, s[y] # Semicolon
      PROVE  \E i \in 1..k : /\ y = a + i /\ l[i] = s[y]
                             /\ L[<<y, h>>] = scan[Onward(l, k, i, h)]
  <2> DEFINE i == y - a
  <2>1. i \in 1..k /\ i \in 1..k + 1 /\ y = a + i /\ ~(i > k) /\ y \in a + 1..e
    BY <1>1
  <2> HIDE DEF i
  <2>2. l[i] = s[y]
    BY <1>1, <2>1
  <2>3. y - a = i
    BY DEF i
  <2>4. L[<<y, h>>] = scan[<<i, h>>]
    BY <1>3, <2>1, <2>3
  <2>5. scan[<<i, h>>] = scan[Onward(l, k, i, h)]
    BY <1>4, <1>6, <2>1, <2>2
  <2> QED
    BY <2>1, <2>2, <2>4, <2>5
<1>7. Takes(L, s, n, x)
  <2> SUFFICES ASSUME NEW h \in Nat PROVE L[<<x, h>>] = L[Onward(s, n, x, h)]
    BY DEF Takes
  <2>1. PICK i \in 1..k : x = a + i /\ l[i] = s[x] /\ L[<<x, h>>] = scan[Onward(l, k, i, h)]
    BY <1>6
  <2>2. CASE s[x] = Quote
    <3> DEFINE y == x + 1
               j == i + 1
    <3>1. to = LiteralFrom(s)[x + 1].next
      <4>1. s[x] \notin Bracket /\ ~Neutral(s[x])
        BY <2>2, CharactersDiffer DEF Quote, Neutral
      <4>2. x \in x..to - 1
        BY <1>2
      <4> QED
        BY <1>5, <4>1, <4>2 DEF Made
    <3>2. y \in 1..n + 1 /\ y = a + j /\ j \in 1..k + 1
      <4>1. x \in 1..n /\ x = a + i /\ i \in 1..k
        BY <1>2, <2>1
      <4> QED
        BY <1>1, <4>1
    <3>3. AfterQuote(s, n)[y] = to
      <4>1. LiteralFrom(s)[y].next = to /\ to # 0
        BY <1>2, <3>1
      <4> HIDE DEF y
      <4> QED
        BY <1>1, <3>2, <4>1, StringEnds
    <3>4. to \in a + 1..e /\ to <= e
      BY <1>1 DEF to
    <3> HIDE DEF j, y
    <3>5. to = a + AfterQuote(l, k)[j]
      BY <3>2, <3>3, <3>4, QuoteInLine
    <3>6. Onward(s, n, x, h) = <<to, h>>
      BY <2>2, <3>3 DEF Onward, y
    <3>7. Onward(l, k, i, h) = <<AfterQuote(l, k)[j], h>>
      BY <2>1, <2>2 DEF Onward, j
    <3>8. L[<<to, h>>] = scan[<<to - a, h>>]
      BY <1>3, <3>4
    <3>9. AfterQuote(l, k)[j] = to - a
      <4> DEFINE q == AfterQuote(l, k)[j]
      <4>1. q \in Nat
        <5>1. \A m \in 1..k + 1 : AfterQuote(l, k)[m] \in m..k + 1
          BY <1>1, AfterQuoteIs
        <5>2. AfterQuote(l, k)[j] \in j..k + 1 /\ j \in Nat
          BY <3>2, <5>1
        <5> QED
          BY <1>1, <5>2
      <4>2. to = a + q
        BY <3>5
      <4> HIDE DEF q
      <4>3. q = to - a
        BY <1>1, <4>1, <4>2
      <4> QED
        BY <4>3 DEF q
    <3> QED
      BY <2>1, <3>6, <3>7, <3>8, <3>9
  <2>3. CASE s[x] # Quote
    <3> DEFINE y == x + 1
               g == IF s[x] \in Openings THEN h + 1 ELSE IF s[x] \in Closings /\ h > 0 THEN h - 1 ELSE h
    <3>1. Onward(s, n, x, h) = <<y, g>>
      BY <2>3 DEF Onward
    <3>2. Onward(l, k, i, h) = <<i + 1, g>>
      BY <2>1, <2>3 DEF Onward
    <3>3. g \in Nat
      OBVIOUS
    <3>4. y \in a + 1..e /\ y - a = i + 1
      <4>1. a \in Nat /\ k \in Nat /\ i \in 1..k /\ x = a + i /\ e = a + k + 1
        BY <1>1, <2>1
      <4> QED
        BY <4>1
    <3> HIDE DEF y, g
    <3>5. L[<<y, g>>] = scan[<<y - a, g>>]
      BY <1>3, <3>3, <3>4
    <3> QED
      BY <2>1, <3>1, <3>2, <3>4, <3>5
  <2> QED
    BY <2>2, <2>3
<1>8. Passing(L, s, x, to)
  <2> SUFFICES ASSUME NEW y \in x..to - 1, NEW h \in Nat, Neutral(s[y])
               PROVE  L[<<y, h>>] = L[<<y + 1, h>>]
    BY DEF Passing
  <2>1. y \in a + 1..e - 1 /\ s[y] # Semicolon /\ y + 1 \in a + 1..e
    <3>1. a \in Nat /\ e \in Nat /\ x \in a + 1..e - 1 /\ to \in x + 1..e
      BY <1>1 DEF to
    <3>2. y \in a + 1..e - 1
      BY <3>1
    <3> QED
      BY <3>1, <3>2 DEF Neutral
  <2>2. PICK i \in 1..k : y = a + i /\ l[i] = s[y] /\ L[<<y, h>>] = scan[Onward(l, k, i, h)]
    BY <1>6, <2>1
  <2>3. Onward(l, k, i, h) = <<i + 1, h>>
    BY <2>2 DEF Onward, Neutral
  <2>4. (y + 1) - a = i + 1
    <3>1. a \in Nat /\ i \in Nat /\ y = a + i
      BY <1>1, <2>2
    <3> QED
      BY <3>1
  <2>5. L[<<y + 1, h>>] = scan[<<(y + 1) - a, h>>]
    BY <1>3, <2>1
  <2> QED
    BY <2>2, <2>3, <2>4, <2>5
<1>9. L[<<x, d>>] = L[<<to, Deeper(kind, d)>>]
  <2>1. TokenAt(s, x).next \in x + 1..n + 1 /\ Passing(L, s, x, TokenAt(s, x).next)
    BY <1>2, <1>8 DEF to
  <2>2. L[<<x, d>>] = L[<<TokenAt(s, x).next, Deeper(TokenAt(s, x).kind, d)>>]
    <3>1. n \in Nat /\ n = Len(s) /\ x \in 1..n
      BY <1>1, <1>2
    <3> QED
      BY <1>7, <2>1, <3>1, TokenFollowed
  <2> QED
    BY <2>2 DEF to, kind
<1>10. Deeper(kind, d) \in Nat
  BY DEF Deeper
<1>11. x \in a + 1..e /\ to \in a + 1..e
  BY <1>1 DEF to
<1>12. L[<<x, d>>] = scan[<<x - a, d>>] /\ L[<<to, Deeper(kind, d)>>] = scan[<<to - a, Deeper(kind, d)>>]
  BY <1>3, <1>10, <1>11
<1> QED
  BY <1>9, <1>12 DEF to, kind, scan

(* Comments begin with two semicolons, if they are not cut off. *)
Doubled(s, n) ==
  \A i \in 1..n : s[i] = Semicolon => i = n \/ s[i + 1] = Semicolon \/ (i > 1 /\ s[i - 1] = Semicolon)

(* Where the editor's comments end. *)
LEMMA BreakIs ==
  ASSUME NEW s, NEW n \in Nat, NEW x \in 1..n, NEW e \in x..n + 1,
         \A j \in x..e - 1 : s[j] # "\n", e <= n => s[e] = "\n"
  PROVE  BreakAfter(s, n, x) = e
<1> DEFINE S == {j \in x..n + 1 : j = n + 1 \/ s[j] = "\n"}
           m == Min(S)
<1>1. e \in S /\ S \in SUBSET Nat /\ S # {} /\ \A j \in S : j >= e
  OBVIOUS
<1>2. BreakAfter(s, n, x) = m
  BY DEF BreakAfter
<1>3. m \in S /\ \A j \in S : m <= j
  <2> HIDE DEF S
  <2> QED
    BY <1>1, MinIsLeast
<1> HIDE DEF m
<1>4. m \in Nat /\ m >= e /\ m <= e
  <2> HIDE DEF S
  <2> QED
    BY <1>1, <1>3
<1> QED
  BY <1>2, <1>4

(* Tokens are read from e on as they are from i on. *)
SameRest(s, i, e) == TokensFrom(s)[i] = TokensFrom(s)[e]

(* A comment leads the reader to the end of its line, ... *)
LEMMA CommentPassed ==
  ASSUME NEW s, NEW n \in Nat, n = Len(s), NEW x \in 1..n, s[x] = Semicolon, NEW e \in x + 1..n + 1,
         \A j \in x..e - 1 : s[j] # "\n", e <= n => s[e] = "\n"
  PROVE  SameRest(s, x, e)
<1>1. LineStop(s, x) = e
  BY LineEndsAt
<1>2. PastBlank(s, x) = e /\ Blank(s, x)
  BY <1>1, CharactersDiffer DEF PastBlank, Blank
<1>3. SkipBlank(s, x) = SkipBlank(s, e)
  BY <1>2, SkipBlankUnfolds
<1>4. x \in 1..Len(s) + 1 /\ e \in 1..Len(s) + 1
  OBVIOUS
<1> QED
  BY <1>3, <1>4, SkipTells DEF SameRest

(* ... a blank to what follows it. *)
LEMMA BlankPassed ==
  ASSUME NEW s, NEW n \in Nat, n = Len(s), NEW x \in 1..n, s[x] \in Spaces, NEW e, e = x + 1
  PROVE  SameRest(s, x, e)
<1>1. PastBlank(s, x) = e /\ Blank(s, x)
  BY DEF PastBlank, Blank
<1>2. SkipBlank(s, x) = SkipBlank(s, e)
  BY <1>1, SkipBlankUnfolds
<1>3. x \in 1..Len(s) + 1 /\ e \in 1..Len(s) + 1
  OBVIOUS
<1> QED
  BY <1>2, <1>3, SkipTells DEF SameRest

(* Where no comment begins the editor takes a character for what it is. *)
LEMMA EditorTakes ==
  ASSUME NEW s, NEW n \in Nat, NEW x \in 1..n
  PROVE  /\ Takes(EditorScan(s, n), s, n, x)
         /\ \A to \in x + 1..n + 1 : Passing(EditorScan(s, n), s, x, to)
<1> DEFINE E == EditorScan(s, n)
<1>1. \A i \in 1..n + 1, d \in Nat :
        E[<<i, d>>] = IF i > n THEN d ELSE IF CommentAt(s, n, i) THEN E[<<BreakAfter(s, n, i), d>>]
                      ELSE E[Onward(s, n, i, d)]
  BY EditorUnfold
<1> HIDE DEF E
<1>2. ASSUME NEW i \in 1..n, NEW d \in Nat, s[i] # Semicolon PROVE E[<<i, d>>] = E[Onward(s, n, i, d)]
  <2>1. ~CommentAt(s, n, i) /\ i \in 1..n + 1 /\ ~(i > n)
    BY <1>2 DEF CommentAt
  <2> QED
    BY <1>1, <2>1
<1>3. Takes(E, s, n, x)
  BY <1>2 DEF Takes
<1>4. ASSUME NEW to \in x + 1..n + 1 PROVE Passing(E, s, x, to)
  <2> SUFFICES ASSUME NEW i \in x..to - 1, NEW d \in Nat, Neutral(s[i])
               PROVE  E[<<i, d>>] = E[<<i + 1, d>>]
    BY DEF Passing
  <2>1. i \in 1..n /\ s[i] # Semicolon
    BY DEF Neutral
  <2>2. Onward(s, n, i, d) = <<i + 1, d>>
    BY DEF Onward, Neutral
  <2> QED
    BY <1>2, <2>1, <2>2
<1> QED
  BY <1>3, <1>4 DEF E

(* A place that is not inside a comment, with whole tokens from there on. *)
Outside(s, x) == TidyFrom(s, x) /\ (x = 1 \/ s[x - 1] # Semicolon)

(* From such a place of a line the editor comes to the end of the line with the depth *)
(* at which the formatter leaves it.                                                  *)
LEMMA LineRead ==
  ASSUME NEW C, NEW s \in Seq(C), NEW n, NEW l, NEW a, NEW k, NEW e, LineIn(s, n, l, a, k, e),
         \A j \in a + 1..e - 1 : s[j] # "\n", Doubled(s, n)
  PROVE  \A i \in 1..k + 1 :
           Outside(s, a + i) =>
             /\ TidyFrom(s, e)
             /\ \A d \in Nat : EditorScan(s, n)[<<a + i, d>>] =
                                 EditorScan(s, n)[<<e, DepthScan(l)[<<i, d>>]>>]
<1> DEFINE E == EditorScan(s, n)
           scan == DepthScan(l)
           top == k + 1
           Leads(i) == Outside(s, a + i) =>
                         TidyFrom(s, e) /\ \A d \in Nat : E[<<a + i, d>>] = E[<<e, scan[<<i, d>>]>>]
           G == {i \in 1..top : Leads(i)}
<1>1. /\ n \in Nat /\ n = Len(s) /\ k \in Nat /\ k = Len(l) /\ a \in Nat /\ e = a + k + 1 /\ e <= n + 1
      /\ (e <= n => s[e] = "\n") /\ \A i \in 1..k : l[i] = s[a + i]
  BY DEF LineIn
<1>2. \A i \in 1..n + 1, d \in Nat :
        E[<<i, d>>] = IF i > n THEN d ELSE IF CommentAt(s, n, i) THEN E[<<BreakAfter(s, n, i), d>>]
                      ELSE E[Onward(s, n, i, d)]
  BY <1>1, EditorUnfold
<1>3. \A i \in 1..k + 1, d \in Nat :
        scan[<<i, d>>] = IF i > k \/ l[i] = Semicolon THEN d ELSE scan[Onward(l, k, i, d)]
  BY <1>1, DepthUnfold
<1> HIDE DEF E, scan
<1>4. ASSUME NEW i \in 1..top, \A j \in i + 1..top : j \in G PROVE i \in G
  <2> DEFINE x == a + i
  <2> SUFFICES ASSUME TidyFrom(s, x), x = 1 \/ s[x - 1] # Semicolon
               PROVE  TidyFrom(s, e) /\ \A d \in Nat : E[<<x, d>>] = E[<<e, scan[<<i, d>>]>>]
    BY DEF Outside
  <2>1. x \in 1..n + 1 /\ x <= e /\ x \in Nat /\ x >= a + 1
    BY <1>1
  <2>2. CASE i = top
    <3>1. x = e /\ i > k /\ i \in 1..k + 1
      BY <1>1, <2>2
    <3>2. \A d \in Nat : scan[<<i, d>>] = d
      BY <1>3, <3>1
    <3> QED
      BY <3>1, <3>2
  <2>3. CASE i # top
    <3>1. i \in 1..k /\ i \in 1..k + 1 /\ x \in a + 1..e - 1 /\ x \in 1..n /\ e \in x + 1..n + 1 /\ ~(i > k)
      BY <1>1, <2>3
    <3>2. l[i] = s[x] /\ s[x] # "\n"
      BY <1>1, <3>1
    <3> HIDE DEF x
    <3>3. CASE s[x] = Semicolon
      <4>1. \A d \in Nat : scan[<<i, d>>] = d
        BY <1>3, <3>1, <3>2, <3>3
      <4>2. \A j \in x..e - 1 : s[j] # "\n"
        BY <1>1, <2>1
      <4>3. TidyFrom(s, e)
        <5>1. SameRest(s, x, e)
          BY <1>1, <3>1, <3>3, <4>2, CommentPassed
        <5> QED
          BY <5>1 DEF SameRest, TidyFrom
      <4>4. \A d \in Nat : E[<<x, d>>] = E[<<e, d>>]
        <5>1. CASE x = n
          <6>1. e = n + 1 /\ ~CommentAt(s, n, x)
            BY <1>1, <3>1, <5>1 DEF CommentAt
          <6>2. \A d \in Nat : Onward(s, n, x, d) = <<e, d>>
            <7>1. s[x] # Quote /\ s[x] \notin Openings /\ s[x] \notin Closings /\ x + 1 = e
              BY <3>3, <5>1, <6>1, CharactersDiffer DEF Bracket
            <7> QED
              BY <7>1 DEF Onward
          <6>3. x \in 1..n + 1 /\ ~(x > n)
            BY <1>1, <3>1
          <6>4. \A d \in Nat : E[<<x, d>>] = E[Onward(s, n, x, d)]
            BY <1>2, <6>1, <6>3
          <6> QED
            BY <6>2, <6>4
        <5>2. CASE x # n
          <6>1. s[x + 1] = Semicolon
            BY <1>1, <3>1, <3>3, <5>2 DEF Doubled
          <6>2. CommentAt(s, n, x)
            BY <1>1, <3>1, <3>3, <5>2, <6>1 DEF CommentAt
          <6>3. BreakAfter(s, n, x) = e
            <7>1. e \in x..n + 1
              BY <3>1
            <7> QED
              BY <1>1, <3>1, <4>2, <7>1, BreakIs
          <6>4. x \in 1..n + 1 /\ ~(x > n)
            BY <1>1, <3>1
          <6>5. \A d \in Nat : E[<<x, d>>] = E[<<BreakAfter(s, n, x), d>>]
            BY <1>2, <6>2, <6>4
          <6> QED
            BY <6>3, <6>5
        <5> QED
          BY <5>1, <5>2
      <4> QED
        BY <4>1, <4>3, <4>4
    <3>4. CASE s[x] \in Spaces
      <4> DEFINE y == x + 1
                 j == i + 1
      <4>1. Neutral(s[x]) /\ s[x] # Semicolon
        BY <3>4, NeutralAre DEF Neutral
      <4>2. \A d \in Nat : E[<<x, d>>] = E[<<y, d>>]
        <5>1. \A d \in Nat : Onward(s, n, x, d) = <<y, d>>
          BY <4>1 DEF Onward, Neutral
        <5>2. Takes(E, s, n, x)
          BY <1>1, <3>1, EditorTakes DEF E
        <5> QED
          BY <4>1, <5>1, <5>2 DEF Takes
      <4>3. \A d \in Nat : scan[<<i, d>>] = scan[<<j, d>>]
        <5>1. \A d \in Nat : Onward(l, k, i, d) = <<j, d>>
          BY <3>2, <4>1 DEF Onward, Neutral
        <5>2. l[i] # Semicolon
          BY <3>2, <4>1
        <5> QED
          BY <1>3, <3>1, <5>1, <5>2
      <4>4. TidyFrom(s, y)
        <5>1. y = x + 1
          OBVIOUS
        <5> HIDE DEF y
        <5>2. SameRest(s, x, y)
          BY <1>1, <3>1, <3>4, <5>1, BlankPassed
        <5> QED
          BY <5>2 DEF SameRest, TidyFrom
      <4>5. y = a + j /\ y - 1 = x /\ j \in i + 1..top
        BY <1>1, <3>1 DEF x
      <4>6. Leads(j)
        BY <1>4, <4>5
      <4>7. Outside(s, y)
        <5> HIDE DEF y
        <5> QED
          BY <4>1, <4>4, <4>5 DEF Outside
      <4> HIDE DEF j, y
      <4>8. TidyFrom(s, e) /\ \A d \in Nat : E[<<y, d>>] = E[<<e, scan[<<j, d>>]>>]
        BY <4>5, <4>6, <4>7
      <4> QED
        BY <4>2, <4>3, <4>8
    <3>5. CASE s[x] \notin Spaces \cup {Semicolon}
      <4> DEFINE to == TokenAt(s, x).next
                 kind == TokenAt(s, x).kind
                 j == to - a
      <4>1. to \in x + 1..n + 1 /\ TidyFrom(s, to) /\ Tidy(TokenAt(s, x))
        <5>1. n \in Nat /\ n = Len(s)
          BY <1>1
        <5>2. x \in 1..n /\ TidyFrom(s, x)
          BY <3>1
        <5> QED
          BY <3>5, <5>1, <5>2, TidyOn
      <4>2. (\A y \in x..to - 1 : s[y] # "\n") /\ s[to - 1] # Semicolon
        <5>1. n \in Nat /\ n = Len(s)
          BY <1>1
        <5>2. x \in 1..n
          BY <3>1
        <5> QED
          BY <3>5, <4>1, <5>1, <5>2, TidyOnLine
      <4>3. to \in x + 1..e
        <5> HIDE DEF to
        <5> SUFFICES ASSUME to > e PROVE FALSE
          BY <1>1, <3>1, <4>1
        <5>1. e \in x..to - 1 /\ e <= n
          BY <1>1, <3>1, <4>1
        <5> QED
          BY <1>1, <4>2, <5>1
      <4>4. \A d \in Nat : E[<<x, d>>] = E[<<to, Deeper(kind, d)>>]
        <5>1. Takes(EditorScan(s, n), s, n, x) /\ Passing(EditorScan(s, n), s, x, TokenAt(s, x).next)
          BY <1>1, <3>1, <4>1, EditorTakes
        <5> SUFFICES ASSUME NEW d \in Nat PROVE E[<<x, d>>] = E[<<to, Deeper(kind, d)>>]
          OBVIOUS
        <5>2. TokenAt(s, x).next \in x + 1..n + 1
          BY <4>1
        <5>3. EditorScan(s, n)[<<x, d>>] =
                EditorScan(s, n)[<<TokenAt(s, x).next, Deeper(TokenAt(s, x).kind, d)>>]
          <6>1. n \in Nat /\ n = Len(s) /\ x \in 1..n
            BY <1>1, <3>1
          <6> QED
            BY <3>5, <5>1, <5>2, <6>1, TokenFollowed
        <5> QED
          BY <5>3 DEF E
      <4>5. i = x - a
        BY <1>1, <3>1 DEF x
      <4>6. \A d \in Nat : scan[<<i, d>>] = scan[<<j, Deeper(kind, d)>>]
        <5> SUFFICES ASSUME NEW d \in Nat PROVE scan[<<i, d>>] = scan[<<j, Deeper(kind, d)>>]
          OBVIOUS
        <5>1. TokenAt(s, x).next \in x + 1..e
          BY <4>3
        <5>2. DepthScan(l)[<<x - a, d>>] =
                DepthScan(l)[<<TokenAt(s, x).next - a, Deeper(TokenAt(s, x).kind, d)>>]
          BY <3>1, <3>5, <5>1, TokenInLine
        <5> QED
          BY <4>5, <5>2 DEF scan
      <4>7. \A d \in Nat : Deeper(kind, d) \in Nat
        BY DEF Deeper
      <4> HIDE DEF to, kind
      <4>8. to = a + j /\ j \in i + 1..top
        <5>1. a \in Nat /\ k \in Nat /\ e = a + k + 1
          BY <1>1
        <5>2. i \in 1..k /\ x = a + i
          BY <3>1 DEF x
        <5>3. to \in (a + i) + 1..a + k + 1
          BY <4>3, <5>1, <5>2
        <5> QED
          BY <5>1, <5>2, <5>3
      <4>9. Leads(j)
        BY <1>4, <4>8
      <4>10. Outside(s, to)
        BY <4>1, <4>2 DEF Outside
      <4> HIDE DEF j
      <4>11. TidyFrom(s, e) /\ \A d \in Nat : E[<<to, d>>] = E[<<e, scan[<<j, d>>]>>]
        BY <4>8, <4>9, <4>10
      <4>12. ASSUME NEW d \in Nat PROVE E[<<x, d>>] = E[<<e, scan[<<i, d>>]>>]
        <5>1. Deeper(kind, d) \in Nat /\ scan[<<i, d>>] = scan[<<j, Deeper(kind, d)>>]
          BY <4>6, <4>7
        <5>2. E[<<to, Deeper(kind, d)>>] = E[<<e, scan[<<j, Deeper(kind, d)>>]>>]
          BY <4>11, <5>1
        <5>3. E[<<x, d>>] = E[<<to, Deeper(kind, d)>>]
          BY <4>4
        <5> QED
          BY <5>1, <5>2, <5>3
      <4> QED
        BY <4>11, <4>12
    <3> QED
      BY <3>3, <3>4, <3>5
  <2> QED
    BY <2>2, <2>3
<1>5. top \in Nat
  BY <1>1
<1> HIDE DEF G
<1>6. \A i \in 1..top : i \in G
  <2> HIDE DEF top
  <2> QED
    BY <1>4, <1>5, Backwards
<1> QED
  BY <1>6 DEF G, E, scan

(* The depth after each line, as the property counts it. *)
DepthOnce(lines, f, k) == IF k = 0 THEN 0 ELSE DepthAfter(f[k - 1], lines[k])
LineDepths(lines) == CHOOSE f : f = [k \in 0..Len(lines) |-> DepthOnce(lines, f, k)]

(* There are such depths. *)
LEMMA LineDepthsAre ==
  ASSUME NEW C, NEW lines \in Seq(Seq(C))
  PROVE  /\ LineDepths(lines)[0] = 0
         /\ \A k \in 1..Len(lines) : LineDepths(lines)[k] = DepthAfter(LineDepths(lines)[k - 1], lines[k])
<1> DEFINE n == Len(lines)
           X == 0..n
           down(k, d) == IF k \in 1..n THEN DepthAfter(d, lines[k]) ELSE 0
           step == [p \in Nat \X Nat |-> down(p[1], p[2])]
           Rest(f, k) == DepthOnce(lines, f, k)
           Is(f) == f = [k \in X |-> Rest(f, k)]
<1>1. n \in Nat /\ n = Len(lines)
  BY LenProperties
<1> HIDE DEF n
<1>2. ASSUME NEW k \in Nat, NEW d \in Nat PROVE down(k, d) \in Nat
  <2>1. CASE k \in 1..n
    <3> DEFINE l == lines[k]
               m == Len(l)
    <3>1. l \in Seq(C)
      BY <1>1, <2>1, ElementOfSeq
    <3> HIDE DEF l
    <3>2. m \in Nat /\ m = Len(l)
      BY <3>1, LenProperties
    <3> HIDE DEF m
    <3>3. DepthAfter(d, l) \in Nat
      BY <3>2, DepthAfterIs
    <3> QED
      BY <2>1, <3>3 DEF l
  <2>2. CASE k \notin 1..n
    BY <2>2
  <2> QED
    BY <2>1, <2>2
<1>3. step \in [Nat \X Nat -> Nat]
  <2> SUFFICES ASSUME NEW p \in Nat \X Nat PROVE down(p[1], p[2]) \in Nat
    OBVIOUS
  <2>1. p[1] \in Nat /\ p[2] \in Nat
    OBVIOUS
  <2> HIDE DEF down
  <2> QED
    BY <1>2, <2>1
<1>4. Recursions(Nat, 0, step) # {}
  <2> HIDE DEF step
  <2>1. 0 \in Nat
    OBVIOUS
  <2> QED
    BY <1>3, <2>1, NatRecursion
<1>5. PICK f \in [Nat -> Nat] : f[0] = 0 /\ \A k \in Nat \ {0} : f[k] = step[<<k, f[k - 1]>>]
  <2> HIDE DEF step
  <2> QED
    BY <1>4 DEF Recursions
<1> DEFINE g == [k \in X |-> f[k]]
<1>6. ASSUME NEW k \in X PROVE g[k] = Rest(g, k)
  <2>1. CASE k = 0
    BY <1>5, <2>1 DEF DepthOnce
  <2>2. CASE k # 0
    <3>1. k \in 1..n /\ k \in Nat \ {0} /\ k - 1 \in X /\ k - 1 \in Nat
      BY <1>1, <2>2
    <3>2. f[k] = step[<<k, f[k - 1]>>] /\ f[k - 1] \in Nat
      <4> HIDE DEF step
      <4> QED
        BY <1>5, <3>1
    <3>3. step[<<k, f[k - 1]>>] = down(k, f[k - 1])
      <4> HIDE DEF down
      <4> QED
        BY <3>1, <3>2
    <3>4. f[k] = DepthAfter(f[k - 1], lines[k])
      BY <3>1, <3>2, <3>3
    <3>5. g[k] = f[k] /\ g[k - 1] = f[k - 1]
      BY <3>1
    <3> QED
      BY <2>2, <3>4, <3>5 DEF DepthOnce
  <2> QED
    BY <2>1, <2>2
<1>7. Is(g)
  <2> HIDE DEF X, Rest
  <2>1. \A k \in X : g[k] = f[k]
    OBVIOUS
  <2>2. g = [k \in X |-> f[k]]
    OBVIOUS
  <2> HIDE DEF g
  <2> QED
    BY <1>6, <2>1, <2>2
<1> DEFINE D == LineDepths(lines)
<1>8. D = CHOOSE h : Is(h)
  BY DEF LineDepths, n
<1>9. Is(D)
  <2> HIDE DEF Is, D, g
  <2> QED
    BY <1>7, <1>8
<1> HIDE DEF D
<1>10. \A k \in X : D[k] = Rest(D, k)
  <2> HIDE DEF X, Rest
  <2> QED
    BY <1>9
<1>11. D[0] = 0
  BY <1>1, <1>10 DEF DepthOnce
<1>12. ASSUME NEW k \in 1..n PROVE D[k] = DepthAfter(D[k - 1], lines[k])
  <2>1. k \in X /\ k # 0
    BY <1>1
  <2> QED
    BY <1>10, <2>1 DEF DepthOnce
<1> QED
  BY <1>11, <1>12 DEF D, n

(* The line that begins at place i of a text. *)
LEMMA LineThere ==
  ASSUME NEW C, NEW s \in Seq(C), NEW n, n = Len(s), NEW i \in 1..n + 1,
         NEW e, e = LineStop(s, i), NEW l, l = SubSeq(s, i, e - 1)
  PROVE  /\ l \in Seq(C) /\ e \in i..n + 1 /\ LineIn(s, n, l, i - 1, e - i, e)
         /\ \A j \in i..e - 1 : s[j] # "\n"
<1>1. n \in Nat
  BY LenProperties
<1>2. e \in i..n + 1 /\ \A j \in i..e - 1 : s[j] # "\n"
  BY <1>1, LineStopTells
<1>3. e <= n => s[e] = "\n"
  <2> DEFINE stops == {j \in i..n : ~(s[j] # "\n")}
  <2>1. e = EndOf(stops, n)
    BY DEF LineStop, EndOfRun, EndOf
  <2>2. stops \in SUBSET (i..n)
    OBVIOUS
  <2>3. e <= n => e \in stops
    <3> HIDE DEF stops
    <3> QED
      BY <1>1, <2>1, <2>2, EndOfTells
  <2> QED
    BY <2>3
<1> DEFINE m == i - 1
           k == e - 1
<1>4. m \in 0..Len(s) /\ k \in m..Len(s) /\ m + 1 = i /\ k - m = e - i /\ k - m \in Nat
  BY <1>1, <1>2
<1>5. l \in Seq(C) /\ Len(l) = k - m /\ \A j \in 1..k - m : l[j] = s[m + j]
  <2>1. l = SubSeq(s, m + 1, k)
    BY <1>4
  <2> DEFINE x == SubSeq(s, m + 1, k)
  <2>2. m \in 0..Len(s) /\ k \in m..Len(s)
    BY <1>4
  <2> HIDE DEF m, k
  <2>3. x \in Seq(C) /\ Len(x) = k - m /\ \A j \in 1..k - m : x[j] = s[m + j]
    BY <2>2, SubSeqIs
  <2> QED
    BY <2>1, <2>3
<1>6. e = m + (k - m) + 1
  BY <1>1, <1>2
<1>7. LineIn(s, n, l, m, k - m, e)
  <2> HIDE DEF m, k
  <2>1. m \in Nat /\ e <= n + 1
    BY <1>1, <1>2, <1>4
  <2> QED
    BY <1>1, <1>3, <1>4, <1>5, <1>6, <2>1 DEF LineIn
<1> QED
  BY <1>2, <1>4, <1>5, <1>7

(* Line by line the editor reaches the depth of the formatter. *)
LEMMA LinesRead ==
  ASSUME NEW C, NEW s \in Seq(C), NEW n, n = Len(s), Doubled(s, n), TidyFrom(s, 1),
         NEW lines, lines = LinesOf(s)
  PROVE  ParenDepthBefore(s, n) = LineDepths(lines)[Len(lines)]
<1> DEFINE E == EditorScan(s, n)
           D == LineDepths(lines)
           f == LinesFrom(s)
           L == Len(lines)
           S == Seq(C)
           top == n + 1
           Starts(i, m) == /\ f[i] = Suffix(lines, m) /\ TidyFrom(s, i) /\ D[m] \in Nat
                           /\ i = 1 \/ s[i - 1] # Semicolon
           Ends(i) == \A m \in 0..L : Starts(i, m) => E[<<i, D[m]>>] = D[L]
           G == {i \in 1..top : Ends(i)}
<1>1. n \in Nat /\ top \in Nat
  BY LenProperties
<1>2. lines = f[1] /\ f \in [1..n + 1 -> Seq(S)] /\ \A i \in 1..n + 1 : f[i] = LinesAfter(s, f, i)
  BY LinesUnfold
<1>3. lines \in Seq(S) /\ L \in Nat
  <2>1. lines \in Seq(Seq(C))
    BY LinesOfIs
  <2> QED
    BY <2>1, LenProperties
<1>4. D[0] = 0 /\ \A k \in 1..L : D[k] = DepthAfter(D[k - 1], lines[k])
  <2>1. lines \in Seq(Seq(C))
    BY LinesOfIs
  <2> QED
    BY <2>1, LineDepthsAre
<1>5. /\ ParenDepthBefore(s, n) = E[<<1, 0>>]
      /\ \A i \in 1..n + 1, k \in Nat :
           E[<<i, k>>] = IF i > n THEN k ELSE IF CommentAt(s, n, i) THEN E[<<BreakAfter(s, n, i), k>>]
                         ELSE E[Onward(s, n, i, k)]
  BY <1>1, EditorUnfold
<1> HIDE DEF E, D, f, L, S
<1>6. ASSUME NEW i \in 1..top, \A j \in i + 1..top : j \in G PROVE i \in G
  <2> SUFFICES ASSUME NEW m \in 0..L, Starts(i, m) PROVE E[<<i, D[m]>>] = D[L]
    OBVIOUS
  <2> DEFINE e == LineStop(s, i)
             l == SubSeq(s, i, e - 1)
             a == i - 1
             k == e - i
             d == D[m]
             m2 == m + 1
             e2 == e + 1
             rest == IF e > n THEN <<>> ELSE f[e2]
  <2>1. l \in Seq(C) /\ e \in i..n + 1 /\ LineIn(s, n, l, a, k, e) /\ \A j \in i..e - 1 : s[j] # "\n"
    BY LineThere
  <2>2. a + 1 = i /\ 1 \in 1..k + 1 /\ k \in Nat
    BY <1>1, <2>1
  <2>3. f[i] = Cat(<<l>>, rest) /\ l \in S
    <3>1. f[i] = LinesAfter(s, f, i)
      BY <1>2
    <3> QED
      BY <2>1, <3>1 DEF LinesAfter, S
  <2>4. rest \in Seq(S)
    <3> HIDE DEF e
    <3>1. e > n \/ e2 \in 1..n + 1
      BY <1>1, <2>1
    <3> QED
      BY <1>2, <3>1, EmptySeq
  <2> HIDE DEF l, rest, e, k, a
  <2>5. m2 \in 1..L /\ lines[m2] = l /\ Suffix(lines, m2) = rest
    <3>1. Suffix(lines, m) = Cat(<<l>>, rest)
      BY <2>3
    <3>2. m \in 0..Len(lines)
      BY DEF L
    <3> QED
      BY <1>3, <2>3, <2>4, <3>1, <3>2, SuffixAdvances DEF L
  <2>6. D[m2] = DepthAfter(d, l) /\ d \in Nat
    <3>1. m2 - 1 = m
      BY <1>3
    <3> HIDE DEF m2
    <3> QED
      BY <1>4, <2>5, <3>1
  <2>7. TidyFrom(s, e) /\ E[<<i, d>>] = E[<<e, D[m2]>>]
    <3> HIDE DEF d, m2
    <3>1. \A j \in a + 1..e - 1 : s[j] # "\n"
      BY <2>1, <2>2
    <3>2. \A j \in 1..k + 1 :
            Outside(s, a + j) =>
              TidyFrom(s, e) /\ \A p \in Nat : EditorScan(s, n)[<<a + j, p>>] =
                                                 EditorScan(s, n)[<<e, DepthScan(l)[<<j, p>>]>>]
      BY <2>1, <3>1, LineRead
    <3>3. Outside(s, a + 1)
      BY <2>2 DEF Outside
    <3>4. TidyFrom(s, e) /\ E[<<i, d>>] = E[<<e, DepthScan(l)[<<1, d>>]>>]
      BY <2>2, <2>6, <3>2, <3>3 DEF E
    <3>5. DepthAfter(d, l) = DepthScan(l)[<<1, d>>]
      <4> DEFINE q == Len(l)
      <4>1. q \in Nat /\ q = Len(l)
        BY <2>1, LenProperties
      <4> HIDE DEF q
      <4> QED
        BY <2>6, <4>1, DepthUnfold
    <3> QED
      BY <2>6, <3>4, <3>5
  <2>8. D[m2] \in Nat
    <3> DEFINE q == Len(l)
    <3>1. q \in Nat /\ q = Len(l)
      BY <2>1, LenProperties
    <3> HIDE DEF q, d
    <3> QED
      BY <2>6, <3>1, DepthAfterIs
  <2>9. CASE e > n
    <3>1. e = n + 1 /\ e \in 1..n + 1
      BY <1>1, <2>1, <2>9
    <3>2. rest = <<>>
      BY <2>9 DEF rest
    <3>3. m2 = L
      <4>1. m2 \in 0..Len(lines)
        BY <2>5 DEF L
      <4> DEFINE x == Suffix(lines, m2)
      <4> HIDE DEF m2
      <4>2. Len(x) = Len(lines) - m2
        BY <1>3, <4>1, SuffixIs
      <4>3. Len(x) = 0
        BY <2>5, <3>2
      <4> HIDE DEF x
      <4> QED
        BY <1>3, <2>5, <4>2, <4>3 DEF L
    <3>4. E[<<e, D[m2]>>] = D[m2]
      BY <1>5, <2>8, <2>9, <3>1
    <3> QED
      BY <2>7, <3>3, <3>4
  <2>10. CASE ~(e > n)
    <3>1. e \in 1..n /\ e2 \in i + 1..top /\ e2 - 1 = e
      BY <1>1, <2>1, <2>10
    <3>2. s[e] = "\n"
      BY <1>1, <2>1, <3>1 DEF LineIn
    <3>3. s[e] \in Spaces /\ s[e] # Semicolon /\ Neutral(s[e])
      BY <3>2, CharactersDiffer, NeutralAre DEF Spaces
    <3>4. E[<<e, D[m2]>>] = E[<<e2, D[m2]>>]
      <4>1. Takes(E, s, n, e)
        BY <1>1, <3>1, EditorTakes DEF E
      <4>2. Onward(s, n, e, D[m2]) = <<e2, D[m2]>>
        BY <3>3 DEF Onward, Neutral
      <4> QED
        BY <2>8, <3>3, <4>1, <4>2 DEF Takes
    <3>5. TidyFrom(s, e2)
      <4>1. e2 = e + 1
        OBVIOUS
      <4> HIDE DEF e2
      <4>2. SameRest(s, e, e2)
        BY <1>1, <3>1, <3>3, <4>1, BlankPassed
      <4> QED
        BY <2>7, <4>2 DEF SameRest, TidyFrom
    <3>6. f[e2] = Suffix(lines, m2) /\ m2 \in 0..L
      BY <2>5, <2>10 DEF rest
    <3> HIDE DEF e2, m2
    <3>7. Ends(e2)
      BY <1>6, <3>1
    <3>8. Starts(e2, m2)
      BY <2>8, <3>1, <3>3, <3>5, <3>6
    <3>9. E[<<e2, D[m2]>>] = D[L]
      BY <3>6, <3>7, <3>8
    <3> QED
      BY <2>7, <3>4, <3>9
  <2> QED
    BY <2>9, <2>10
<1>7. \A i \in 1..top : i \in G
  <2> HIDE DEF top, G
  <2> QED
    BY <1>1, <1>6, Backwards
<1>8. 1 \in 1..top /\ 0 \in 0..L
  BY <1>1, <1>3
<1>9. Ends(1)
  BY <1>7, <1>8
<1>10. Starts(1, 0)
  <2>1. Suffix(lines, 0) = lines
    BY <1>3, WholeSuffix
  <2> QED
    BY <1>2, <1>4, <2>1
<1>11. E[<<1, 0>>] = D[L]
  BY <1>4, <1>8, <1>9, <1>10
<1> QED
  BY <1>5, <1>11 DEF D, L

(* What the property asks of the tokens before the cursor, and of the semicolons. *)
WholeTokens(tk) ==
  \A t \in ToSet(tk) : /\ t.kind # "unterminated" /\ "\n" \notin ToSet(t.text)
                       /\ t.kind = "string" => Len(t.text) < StringCap
Paired(text) ==
  \A i \in 1..Len(text) : text[i] = Semicolon =>
    \E j \in {i - 1, i + 1} \cap 1..Len(text) : text[j] = Semicolon

(* Its tokens are on one line each. *)
LEMMA PlainIsTidy ==
  ASSUME NEW s, Len(s) \in Nat, WholeTokens(Tokens(s))
  PROVE  TidyFrom(s, 1)
<1> DEFINE tk == Tokens(s)
<1>1. tk = TokensFrom(s)[1] /\ TokensFrom(s) \in [1..Len(s) + 1 -> Seq(TokensIn(s))]
  BY TokensUnfold
<1>2. tk \in Seq(TokensIn(s))
  <2>1. 1 \in 1..Len(s) + 1
    OBVIOUS
  <2> HIDE DEF tk
  <2> QED
    BY <1>1, <2>1
<1> SUFFICES ASSUME NEW x \in 1..Len(tk) PROVE Tidy(tk[x])
  BY <1>1 DEF TidyFrom
<1> DEFINE t == tk[x]
<1>3. t \in ToSet(tk)
  <2> HIDE DEF tk
  <2>1. DOMAIN tk = 1..Len(tk)
    BY <1>2
  <2> QED
    BY <2>1 DEF ToSet
<1>4. t.kind # "unterminated" /\ "\n" \notin ToSet(t.text) /\ (t.kind = "string" => Len(t.text) < StringCap)
  BY <1>3 DEF WholeTokens
<1> QED
  BY <1>4 DEF Tidy, ToSet

(* Auto-indent agrees with the formatter at every place of a plain text. *)
LEMMA IndentsAlike ==
  ASSUME NEW C, NEW text \in Seq(C), NEW n \in 0..Len(text), NEW s, s = SubSeq(text, 1, n),
         WholeTokens(Tokens(s)), Paired(text), NEW lines, lines = LinesOf(s)
  PROVE  ParenDepthBefore(text, n) = LineDepths(lines)[Len(lines)]
<1>1. Len(text) \in Nat /\ n \in Nat /\ n <= Len(text)
  BY LenProperties
<1>2. s \in Seq(C) /\ Len(s) = n /\ \A i \in 1..n : s[i] = text[i]
  <2> DEFINE m == 0
  <2>1. m \in 0..Len(text) /\ n \in m..Len(text) /\ s = SubSeq(text, m + 1, n)
    BY <1>1
  <2>2. n - m = n /\ \A i \in 1..n : m + i = i
    BY <1>1
  <2>3. s \in Seq(C) /\ Len(s) = n - m /\ \A i \in 1..n - m : s[i] = text[m + i]
    <3> HIDE DEF m
    <3> QED
      BY <2>1, SubSeqIs
  <2> HIDE DEF m
  <2> QED
    BY <2>2, <2>3
<1>3. ParenDepthBefore(text, n) = ParenDepthBefore(s, n)
  <2>1. Agree(text, s, n)
    BY <1>2 DEF Agree
  <2> QED
    BY <1>1, <2>1, DepthsAgree
<1>4. Doubled(s, n)
  <2> SUFFICES ASSUME NEW i \in 1..n, s[i] = Semicolon, i # n
               PROVE  s[i + 1] = Semicolon \/ (i > 1 /\ s[i - 1] = Semicolon)
    BY DEF Doubled
  <2>1. i \in 1..Len(text) /\ text[i] = Semicolon
    BY <1>1, <1>2
  <2>2. PICK j \in {i - 1, i + 1} \cap 1..Len(text) : text[j] = Semicolon
    BY <2>1 DEF Paired
  <2>3. j \in 1..n /\ (j = i + 1 \/ (j = i - 1 /\ i > 1))
    BY <1>1, <2>2
  <2>4. s[j] = Semicolon
    BY <1>2, <2>2, <2>3
  <2> QED
    BY <2>3, <2>4
<1>5. TidyFrom(s, 1)
  BY <1>1, <1>2, PlainIsTidy
<1>6. ParenDepthBefore(s, n) = LineDepths(lines)[Len(lines)]
  BY <1>2, <1>4, <1>5, LinesRead
<1> QED
  BY <1>3, <1>6

(* Return indents as the formatter does: for every text that the editor's events can lead to *)
(* and every place in it, where no string spans lines or is cut and comments begin with two  *)
(* semicolons, paren_depth_before is the depth at which fmt_source begins the next line.     *)
THEOREM IndentingAgrees == EditorSpec => []IndentAgreesWithFmt
<1>1. IInv => IndentAgreesWithFmt
  <2> SUFFICES ASSUME IInv, NEW at \in 0..Len(buf.text), NEW s, s = SubSeq(buf.text, 1, at),
                      WholeTokens(Tokens(s)), Paired(buf.text), NEW lines, lines = LinesOf(s)
               PROVE  ParenDepthBefore(buf.text, at) = LineDepths(lines)[Len(lines)]
    BY Zenon DEF IndentAgreesWithFmt, WholeTokens, Paired, LineDepths, DepthOnce
  <2>1. buf.text \in Seq(Ink)
    BY BufferIs DEF IInv, Fits
  <2> QED
    BY <2>1, IndentsAlike
<1> QED
  BY <1>1, OneDocument, PTL
=============================================================================
