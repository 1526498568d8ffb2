-------------------------- MODULE DescriptorsProofs -------------------------
(***************************************************************************)
(* The descriptor table, the buffer table and the TLS handles agree,       *)
(* however many descriptors, slots, files and sessions there are.          *)
(***************************************************************************)
EXTENDS Descriptors, DataLemmas, FiniteSetTheorems

(* What a table of buffers holds for d, and what a descriptor table has not
   delivered of d's file. *)
HeldIn(table, d) ==
  IF \E s \in Slots : table[s].fd = d
  THEN table[CHOOSE s \in Slots : table[s].fd = d].data ELSE <<>>
RestIn(table, d) ==
  SubSeq(Content[table[d].id], table[d].off + 1, Len(Content[table[d].id]))

(* A descriptor has one slot at most ... *)
OneSlotEach(table) ==
  \A s, r \in Slots : table[s].fd = table[r].fd /\ table[s].fd # -1 => s = r

(* ... and only while the program has it open as a file: a number that is
   handed out again finds no buffer of its former owner. *)
SlotsOfOpenFiles == \A s \in Slots : bufs[s].fd # -1 => files[bufs[s].fd].file # 0

InOrder(d) ==
  files[d].file # 0 =>
    /\ fds[d].kind = "file" /\ fds[d].id = files[d].file
    /\ fds[d].off <= Len(Content[files[d].file])
    /\ Cat(Cat(files[d].got, HeldIn(bufs, d)), RestIn(fds, d)) = Content[files[d].file]

(* Who owns a descriptor, and what the kernel has under its number. *)
TlsAt(d) == tls.active /\ tls.fd = d
Owned(d) ==
  /\ plain[d] # 0 => fds[d].kind = "sock" /\ fds[d].id = plain[d] /\ ~TlsAt(d)
  /\ TlsAt(d) => fds[d].kind = "sock"
  /\ fds[d].kind # "free" => files[d].file # 0 \/ plain[d] # 0 \/ TlsAt(d)

(* Handles are numbered apart as long as the generations last, so the one of
   the live session is the only one that names it. *)
HandlesApart ==
  /\ gen <= sessions
  /\ tls.active => tls.gen = gen /\ tls.fd \in Fds
  /\ sessions < Generations => \A h \in handles : h.gen \in 1..gen
  /\ \A h \in handles : tls.active /\ h.gen = gen => h.conn = fds[tls.fd].id

IInv ==
  /\ TypeOK /\ OneSlotEach(bufs) /\ SlotsOfOpenFiles
  /\ \A d \in Fds : InOrder(d) /\ Owned(d)
  /\ HandlesApart /\ TouchesOnlyItsOwn

-----------------------------------------------------------------------------
(* Descriptors are numbers, and -1 is none. *)
LEMMA FdsAreNumbers == Fds \subseteq Nat /\ -1 \notin Fds
<1>1. Cardinality(Fds) \in Nat
  BY DescriptorsAssumption, FS_CardinalityType
<1> QED
  BY <1>1, DescriptorsAssumption

(* The kernel hands out a number that is free. *)
LEMMA LowestIsFree ==
  ASSUME NEW table, FreeIn(table) # {}
  PROVE  Lowest(table) \in Fds /\ table[Lowest(table)].kind = "free"
<1>1. FreeIn(table) \subseteq Nat
  BY FdsAreNumbers DEF FreeIn
<1>2. Lowest(table) \in FreeIn(table)
  BY <1>1, MinIsLeast DEF Lowest
<1> QED
  BY <1>2 DEF FreeIn

-----------------------------------------------------------------------------
(* The slot of a descriptor is the one that holds it, if one does. *)
LEMMA HeldBy ==
  ASSUME NEW table, OneSlotEach(table), NEW d \in Fds, NEW s \in Slots, table[s].fd = d
  PROVE  HeldIn(table, d) = table[s].data
<1> DEFINE r == CHOOSE r \in Slots : table[r].fd = d
<1>1. r \in Slots /\ table[r].fd = d
  OBVIOUS
<1>2. r = s
  BY <1>1, FdsAreNumbers DEF OneSlotEach
<1> QED
  BY <1>2 DEF HeldIn

(* io_buf_for returns the slot of d if there is one. *)
LEMMA SlotOfFits ==
  ASSUME NEW d \in Fds
  PROVE  /\ SlotOf(d) # 0 => SlotOf(d) \in Slots /\ bufs[SlotOf(d)].fd \in {d, -1}
         /\ \A s \in Slots : bufs[s].fd = d => SlotOf(d) # 0 /\ bufs[SlotOf(d)].fd = d
<1> DEFINE mine == {s \in Slots : bufs[s].fd = d}
           free == {s \in Slots : bufs[s].fd = -1}
<1>1. Slots \subseteq Nat \ {0} /\ mine \subseteq Nat /\ free \subseteq Nat
  BY DescriptorsAssumption DEF Slots
<1>2. mine # {} => Min(mine) \in mine
  BY <1>1, MinIsLeast
<1>3. free # {} => Min(free) \in free
  BY <1>1, MinIsLeast
<1>4. SlotOf(d) = IF mine # {} THEN Min(mine) ELSE IF free # {} THEN Min(free) ELSE 0
  BY DEF SlotOf
<1> QED
  BY <1>1, <1>2, <1>3, <1>4

(* What io_buf_for finds is what the table holds for d. *)
LEMMA BufferedIsHeld ==
  ASSUME OneSlotEach(bufs), NEW d \in Fds
  PROVE  Buffered(d) = HeldIn(bufs, d)
<1>1. CASE \E s \in Slots : bufs[s].fd = d
  <2>1. SlotOf(d) # 0 /\ SlotOf(d) \in Slots /\ bufs[SlotOf(d)].fd = d
    BY <1>1, SlotOfFits
  <2>2. HeldIn(bufs, d) = bufs[SlotOf(d)].data
    BY <2>1, HeldBy
  <2> QED
    BY <2>1, <2>2 DEF Buffered
<1>2. CASE ~ \E s \in Slots : bufs[s].fd = d
  <2>1. HeldIn(bufs, d) = <<>>
    BY <1>2 DEF HeldIn
  <2>2. ~ (SlotOf(d) # 0 /\ bufs[SlotOf(d)].fd = d)
    BY <1>2, SlotOfFits
  <2> QED
    BY <2>1, <2>2 DEF Buffered
<1> QED
  BY <1>1, <1>2

(* That is a sequence of bytes. *)
LEMMA HeldIsSeq ==
  ASSUME TypeOK, OneSlotEach(bufs), NEW d \in Fds
  PROVE  HeldIn(bufs, d) \in Seq(Bytes)
<1>1. CASE \E s \in Slots : bufs[s].fd = d
  <2>1. PICK s \in Slots : bufs[s].fd = d
    BY <1>1
  <2>2. HeldIn(bufs, d) = bufs[s].data
    BY <2>1, HeldBy
  <2> QED
    BY <2>2 DEF TypeOK
<1>2. CASE ~ \E s \in Slots : bufs[s].fd = d
  BY <1>2 DEF HeldIn
<1> QED
  BY <1>1, <1>2

-----------------------------------------------------------------------------
(* A sequence is its two halves. *)
LEMMA Halves ==
  ASSUME NEW S, NEW s \in Seq(S), NEW k \in 0..Len(s)
  PROVE  /\ SubSeq(s, 1, k) \o SubSeq(s, k + 1, Len(s)) = s
         /\ SubSeq(s, 1, k) \in Seq(S) /\ SubSeq(s, k + 1, Len(s)) \in Seq(S)
<1>1. Len(s) \in Nat
  BY LenProperties
<1>2. 1 \in 1..Len(s) + 1 /\ k \in 1 - 1..Len(s) /\ Len(s) \in k..Len(s)
  BY <1>1
<1>3. SubSeq(s, 1, k) \o SubSeq(s, k + 1, Len(s)) = SubSeq(s, 1, Len(s))
  BY <1>2, ConcatAdjacentSubSeq
<1>4. SubSeq(s, 1, k) \in Seq(S)
  BY PrefixIs
<1>5. SubSeq(s, k + 1, Len(s)) \in Seq(S)
  BY <1>2, SubSeqIs
<1> QED
  BY <1>3, <1>4, <1>5, SubSeqFull

(* A prefix does not look beyond it. *)
LEMMA PrefixOfConcat ==
  ASSUME NEW S, NEW s \in Seq(S), NEW t \in Seq(S), NEW k \in 0..Len(s)
  PROVE  SubSeq(s \o t, 1, k) = SubSeq(s, 1, k)
<1>1. s \o t \in Seq(S) /\ Len(s \o t) = Len(s) + Len(t) /\ Len(s) \in Nat /\ Len(t) \in Nat
  BY ConcatProperties, LenProperties
<1>2. k \in 0..Len(s \o t)
  BY <1>1
<1>3. /\ SubSeq(s \o t, 1, k) \in Seq(S) /\ Len(SubSeq(s \o t, 1, k)) = k
      /\ \A i \in 1..k : SubSeq(s \o t, 1, k)[i] = (s \o t)[i]
  BY <1>1, <1>2, PrefixIs
<1>4. /\ SubSeq(s, 1, k) \in Seq(S) /\ Len(SubSeq(s, 1, k)) = k
      /\ \A i \in 1..k : SubSeq(s, 1, k)[i] = s[i]
  BY PrefixIs
<1>5. \A i \in 1..k : (s \o t)[i] = s[i]
  BY <1>1, ConcatProperties
<1> QED
  BY <1>3, <1>4, <1>5, SeqEqual

(* The same bytes, divided in another way. *)
LEMMA Regroup ==
  ASSUME NEW S, NEW g \in Seq(S), NEW B \in Seq(S), NEW P \in Seq(S), NEW V \in Seq(S),
         NEW X \in Seq(S), NEW L \in Seq(S), Cat(X, L) = Cat(B, P)
  PROVE  Cat(Cat(Cat(g, X), L), V) = Cat(Cat(g, B), Cat(P, V))
<1>1. Cat(Cat(g, X), L) = Cat(g, Cat(X, L))
  BY CatAssociates
<1>2. Cat(Cat(g, B), P) = Cat(g, Cat(B, P))
  BY CatAssociates
<1>3. Cat(g, B) \in Seq(S)
  BY CatIsSeq
<1>4. Cat(Cat(Cat(g, B), P), V) = Cat(Cat(g, B), Cat(P, V))
  BY <1>3, CatAssociates
<1> QED
  BY <1>1, <1>2, <1>4

(* Of a suffix, the first r elements and what follows them. *)
LEMMA SuffixSplits ==
  ASSUME NEW S, NEW all \in Seq(S), NEW off \in 0..Len(all), NEW r \in 0..Len(all) - off
  PROVE  LET U == SubSeq(all, off + 1, Len(all))
             V == SubSeq(all, (off + r) + 1, Len(all))
         IN /\ U \in Seq(S) /\ Len(U) = Len(all) - off /\ V \in Seq(S)
            /\ SubSeq(U, 1, r) \in Seq(S) /\ Len(SubSeq(U, 1, r)) = r
            /\ Cat(SubSeq(U, 1, r), V) = U
<1> DEFINE U == SubSeq(all, off + 1, Len(all))
           V == SubSeq(all, (off + r) + 1, Len(all))
           P == SubSeq(U, 1, r)
           Q == SubSeq(all, off + 1, off + r)
<1>0. Len(all) \in Nat
  BY LenProperties
<1>1. U \in Seq(S) /\ Len(U) = Len(all) - off /\ \A i \in 1..Len(U) : U[i] = all[off + i]
  BY <1>0, SubSeqIs
<1>2. V \in Seq(S)
  BY <1>0, SubSeqIs
<1>3. Q \in Seq(S) /\ Len(Q) = r /\ \A i \in 1..r : Q[i] = all[off + i]
  <2>1. off + r \in off..Len(all) /\ off + r - off = r
    BY <1>0
  <2> QED
    BY <2>1, SubSeqIs
<1>4. Cat(Q, V) = U
  <2>1. off + 1 \in 1..Len(all) + 1 /\ off + r \in (off + 1) - 1..Len(all) /\ Len(all) \in off + r..Len(all)
    BY <1>0
  <2> QED
    BY <2>1, ConcatAdjacentSubSeq DEF Cat
<1> HIDE DEF U, V, Q
<1>5. P \in Seq(S) /\ Len(P) = r /\ \A i \in 1..r : P[i] = U[i]
  BY <1>0, <1>1, PrefixIs
<1> HIDE DEF P
<1>6. P = Q
  <2>1. \A i \in 1..r : P[i] = Q[i]
    BY <1>0, <1>1, <1>3, <1>5
  <2> QED
    BY <2>1, <1>3, <1>5, SeqEqual
<1> QED
  BY <1>1, <1>2, <1>4, <1>5, <1>6 DEF P, U, V

(* A line is taken out of the buffer B after the first bytes P of the rest were
   read into it: what was got, is buffered and is left make the same whole as
   before. *)
LEMMA LineMoves ==
  ASSUME NEW S, NEW g \in Seq(S), NEW B \in Seq(S), NEW P \in Seq(S), NEW V \in Seq(S),
         NEW k \in 0..Len(Cat(B, P))
  PROVE  LET W == Cat(B, P)
             X == SubSeq(Cat(B, Cat(P, V)), 1, k)
             L == SubSeq(W, k + 1, Len(W))
         IN /\ X \in Seq(S) /\ L \in Seq(S)
            /\ Cat(Cat(Cat(g, X), L), V) = Cat(Cat(g, B), Cat(P, V))
<1> DEFINE W == Cat(B, P)
           X == SubSeq(W, 1, k)
           L == SubSeq(W, k + 1, Len(W))
<1>1. W \in Seq(S)
  BY CatIsSeq
<1>2. Cat(W, V) = Cat(B, Cat(P, V))
  BY CatAssociates
<1>3. k \in 0..Len(W)
  OBVIOUS
<1> HIDE DEF W
<1>4. X \in Seq(S) /\ L \in Seq(S) /\ Cat(X, L) = W
  BY <1>1, <1>3, Halves DEF Cat
<1>5. SubSeq(Cat(W, V), 1, k) = X
  BY <1>1, <1>3, PrefixOfConcat DEF Cat
<1> HIDE DEF X, L
<1>6. Cat(Cat(Cat(g, X), L), V) = Cat(Cat(g, B), Cat(P, V))
  BY <1>4, Regroup DEF W
<1>7. SubSeq(Cat(B, Cat(P, V)), 1, k) = X
  BY <1>2, <1>5
<1> QED
  BY <1>4, <1>6, <1>7 DEF L, W

-----------------------------------------------------------------------------
(* What changes nothing about the files that are open disturbs none of them. *)
LEMMA FilesStand ==
  ASSUME NEW d \in Fds, InOrder(d), files'[d] = files[d],
         HeldIn(bufs', d) = HeldIn(bufs, d), files[d].file # 0 => fds'[d] = fds[d]
  PROVE  InOrder(d)'
<1> SUFFICES ASSUME files'[d].file # 0
             PROVE  /\ fds'[d].kind = "file" /\ fds'[d].id = files'[d].file
                    /\ fds'[d].off <= Len(Content[files'[d].file])
                    /\ Cat(Cat(files'[d].got, HeldIn(bufs', d)), RestIn(fds', d))
                       = Content[files'[d].file]
  BY DEF InOrder
<1>1. fds'[d] = fds[d] /\ files'[d] = files[d]
  OBVIOUS
<1>2. RestIn(fds', d) = RestIn(fds, d)
  BY <1>1 DEF RestIn
<1> QED
  BY <1>1, <1>2 DEF InOrder

(* What one descriptor does to the table leaves the others' bytes. *)
LEMMA HeldElsewhere ==
  ASSUME NEW old, NEW new, OneSlotEach(old), OneSlotEach(new), NEW d \in Fds,
         \A r \in Slots : old[r].fd = d \/ new[r].fd = d => new[r] = old[r]
  PROVE  HeldIn(new, d) = HeldIn(old, d)
<1>1. CASE \E r \in Slots : old[r].fd = d
  <2>1. PICK r \in Slots : old[r].fd = d
    BY <1>1
  <2>2. new[r].fd = d /\ new[r].data = old[r].data
    BY <2>1
  <2>3. HeldIn(old, d) = old[r].data /\ HeldIn(new, d) = new[r].data
    BY <2>1, <2>2, HeldBy
  <2> QED
    BY <2>2, <2>3
<1>2. CASE ~ \E r \in Slots : old[r].fd = d
  <2>1. ~ \E r \in Slots : new[r].fd = d
    BY <1>2
  <2> QED
    BY <1>2, <2>1 DEF HeldIn
<1> QED
  BY <1>1, <1>2

(* What is open as a file is of the kernel's making, and its content a sequence. *)
LEMMA OpenFile ==
  ASSUME IInv, NEW d \in Fds, files[d].file # 0
  PROVE  /\ fds[d].kind = "file" /\ files[d].file \in DOMAIN Content
         /\ Content[files[d].file] \in Seq(Bytes)
         /\ fds[d].off \in 0..Len(Content[files[d].file])
         /\ ~TlsAt(d) /\ plain[d] = 0
<1>1. InOrder(d) /\ Owned(d) /\ TypeOK
  BY DEF IInv
<1>2. fds[d].kind = "file" /\ fds[d].off \in Nat /\ fds[d].off <= Len(Content[files[d].file])
  BY <1>1 DEF InOrder, TypeOK
<1>3. files[d].file \in 0..Len(Content) /\ files[d].file # 0
  BY <1>1 DEF TypeOK
<1>4. Content \in Seq(Seq(Bytes))
  BY DescriptorsAssumption
<1>5. files[d].file \in DOMAIN Content /\ Content[files[d].file] \in Seq(Bytes)
  BY <1>3, <1>4
<1>6. Len(Content[files[d].file]) \in Nat
  BY <1>5
<1>7. ~TlsAt(d) /\ plain[d] = 0
  BY <1>1, <1>2 DEF Owned
<1> QED
  BY <1>2, <1>5, <1>6, <1>7

(* Nothing is open at first. *)
LEMMA Beginning ==
  Init => IInv
<1> SUFFICES ASSUME Init PROVE IInv
  OBVIOUS
<1>1. TypeOK
  BY DescriptorsAssumption, FdsAreNumbers
     DEF Init, TypeOK, Free, Unused, NoFile, NoSession, Slots
<1>2. OneSlotEach(bufs) /\ SlotsOfOpenFiles
  BY DEF Init, OneSlotEach, SlotsOfOpenFiles, Unused
<1>3. \A d \in Fds : InOrder(d) /\ Owned(d)
  BY DEF Init, InOrder, Owned, TlsAt, Free, NoFile, NoSession
<1>4. HandlesApart /\ TouchesOnlyItsOwn
  BY DEF Init, HandlesApart, TouchesOnlyItsOwn, NoSession, Nothing
<1> QED
  BY <1>1, <1>2, <1>3, <1>4 DEF IInv

-----------------------------------------------------------------------------
(* A number that is handed out has no buffer. *)
LEMMA FileOpenStep ==
  ASSUME IInv, NEW f \in DOMAIN Content, FileOpen(f)
  PROVE  IInv'
<1> DEFINE d == Lowest(fds)
<1>0. d \in Fds /\ fds[d].kind = "free"
  BY LowestIsFree DEF FileOpen
<1>1. /\ fds' = [fds EXCEPT ![d] = [kind |-> "file", id |-> f, off |-> 0]]
      /\ files' = [files EXCEPT ![d] = [file |-> f, got |-> <<>>]]
      /\ UNCHANGED <<bufs, plain, tls, handles, sessions, gen, touched>>
  BY DEF FileOpen, streams
<1> HIDE DEF d
<1>2. /\ TypeOK /\ OneSlotEach(bufs) /\ SlotsOfOpenFiles /\ HandlesApart /\ TouchesOnlyItsOwn
      /\ \A e \in Fds : InOrder(e) /\ Owned(e)
  BY DEF IInv
<1>3. files[d].file = 0 /\ plain[d] = 0 /\ ~TlsAt(d)
  BY <1>0, <1>2 DEF InOrder, Owned
<1>4. f \in 1..Len(Content) /\ Content[f] \in Seq(Bytes)
  BY DescriptorsAssumption
<1>5. TypeOK'
  <2>1. [kind |-> "file", id |-> f, off |-> 0]
        \in [kind : {"free", "file", "sock"}, id : DOMAIN Content \cup 0..MaxSessions, off : Nat]
    OBVIOUS
  <2>2. [file |-> f, got |-> <<>>] \in [file : 0..Len(Content), got : Seq(Bytes)]
    BY <1>4
  <2> QED
    BY <1>0, <1>1, <1>2, <2>1, <2>2 DEF TypeOK
<1>6. OneSlotEach(bufs)' /\ SlotsOfOpenFiles'
  BY <1>0, <1>1, <1>2, <1>4 DEF OneSlotEach, SlotsOfOpenFiles, TypeOK
<1>7. ASSUME NEW e \in Fds PROVE InOrder(e)'
  <2>1. CASE e = d
    <3>1. HeldIn(bufs, d) = <<>>
      BY <1>2, <1>3, <1>0, FdsAreNumbers DEF HeldIn, SlotsOfOpenFiles
    <3>3. /\ fds'[d] = [kind |-> "file", id |-> f, off |-> 0]
          /\ files'[d] = [file |-> f, got |-> <<>>]
      BY <1>0, <1>1, <1>2 DEF TypeOK
    <3>4. RestIn(fds', d) = Content[f]
      <4>1. SubSeq(Content[f], 1, Len(Content[f])) = Content[f]
        BY <1>4, SubSeqFull
      <4> QED
        BY <3>3, <4>1 DEF RestIn
    <3>5. HeldIn(bufs', d) = <<>>
      BY <1>1, <3>1
    <3>6. Cat(Cat(<<>>, <<>>), Content[f]) = Content[f] /\ 0 <= Len(Content[f])
      BY <1>4 DEF Cat
    <3> QED
      BY <2>1, <3>3, <3>4, <3>5, <3>6 DEF InOrder
  <2>2. CASE e # d
    <3>1. fds'[e] = fds[e] /\ files'[e] = files[e]
      BY <1>0, <1>1, <1>2, <2>2 DEF TypeOK
    <3>2. HeldIn(bufs', e) = HeldIn(bufs, e)
      BY <1>1
    <3> QED
      BY <1>2, <3>1, <3>2, FilesStand
  <2> QED
    BY <2>1, <2>2
<1>8. ASSUME NEW e \in Fds PROVE Owned(e)'
  <2>1. TlsAt(e)' = TlsAt(e) /\ plain'[e] = plain[e]
    BY <1>1 DEF TlsAt
  <2>2. CASE e = d
    BY <1>0, <1>1, <1>2, <1>3, <1>4, <2>1, <2>2 DEF Owned, TypeOK
  <2>3. CASE e # d
    <3>1. fds'[e] = fds[e] /\ files'[e] = files[e]
      BY <1>0, <1>1, <1>2, <2>3 DEF TypeOK
    <3> QED
      BY <1>2, <2>1, <3>1 DEF Owned
  <2> QED
    BY <2>2, <2>3
<1>9. HandlesApart' /\ TouchesOnlyItsOwn'
  <2>1. tls.active => tls.fd \in Fds /\ fds'[tls.fd] = fds[tls.fd]
    BY <1>0, <1>1, <1>2, <1>3 DEF TypeOK, HandlesApart, TlsAt
  <2> QED
    BY <1>1, <1>2, <2>1 DEF HandlesApart, TouchesOnlyItsOwn
<1> QED
  BY <1>5, <1>6, <1>7, <1>8, <1>9 DEF IInv

(* A close gives back number and slot together. *)
LEMMA FileCloseStep ==
  ASSUME IInv, NEW d \in Fds, FileClose(d)
  PROVE  IInv'
<1>1. /\ files[d].file # 0 /\ bufs' = Released(bufs, d) /\ fds' = [fds EXCEPT ![d] = Free]
      /\ files' = [files EXCEPT ![d] = NoFile]
      /\ UNCHANGED <<plain, tls, handles, sessions, gen, touched>>
  BY DEF FileClose, Close, streams
<1>2. /\ TypeOK /\ OneSlotEach(bufs) /\ SlotsOfOpenFiles /\ HandlesApart /\ TouchesOnlyItsOwn
      /\ \A e \in Fds : InOrder(e) /\ Owned(e)
  BY DEF IInv
<1>3. ~TlsAt(d) /\ plain[d] = 0
  BY <1>1, OpenFile
<1>4. \A s \in Slots : bufs'[s] = IF bufs[s].fd = d THEN Unused ELSE bufs[s]
  BY <1>1 DEF Released
<1>5. TypeOK'
  <2>1. Free \in [kind : {"free", "file", "sock"}, id : DOMAIN Content \cup 0..MaxSessions, off : Nat]
    BY DescriptorsAssumption DEF Free
  <2>2. NoFile \in [file : 0..Len(Content), got : Seq(Bytes)]
    BY DescriptorsAssumption DEF NoFile
  <2>3. bufs' \in [Slots -> [fd : Fds \cup {-1}, data : Seq(Bytes)]]
    BY <1>1, <1>2 DEF TypeOK, Released, Unused
  <2> QED
    BY <1>1, <1>2, <2>1, <2>2, <2>3 DEF TypeOK
<1>6. OneSlotEach(bufs')
  BY <1>2, <1>4 DEF OneSlotEach, Unused
<1>7. ASSUME NEW s \in Slots, bufs'[s].fd # -1 PROVE files'[bufs'[s].fd].file # 0
  <2>1. bufs[s].fd # d /\ bufs'[s] = bufs[s] /\ bufs[s].fd \in Fds
    BY <1>2, <1>4, <1>7 DEF Unused, TypeOK
  <2>2. files'[bufs[s].fd] = files[bufs[s].fd]
    BY <1>1, <1>2, <2>1 DEF TypeOK
  <2> QED
    BY <1>2, <1>7, <2>1, <2>2 DEF SlotsOfOpenFiles
<1>8. ASSUME NEW e \in Fds PROVE InOrder(e)'
  <2>1. CASE e = d
    BY <1>1, <1>2, <2>1 DEF InOrder, TypeOK, NoFile
  <2>2. CASE e # d
    <3>1. fds'[e] = fds[e] /\ files'[e] = files[e]
      BY <1>1, <1>2, <2>2 DEF TypeOK
    <3>2. \A r \in Slots : bufs[r].fd = e \/ bufs'[r].fd = e => bufs'[r] = bufs[r]
      BY <1>4, <2>2, FdsAreNumbers DEF Unused
    <3>3. HeldIn(bufs', e) = HeldIn(bufs, e)
      BY <1>2, <1>6, <3>2, HeldElsewhere
    <3> QED
      BY <1>2, <3>1, <3>3, FilesStand
  <2> QED
    BY <2>1, <2>2
<1>9. ASSUME NEW e \in Fds PROVE Owned(e)'
  <2>1. TlsAt(e)' = TlsAt(e) /\ plain'[e] = plain[e]
    BY <1>1 DEF TlsAt
  <2>2. CASE e = d
    BY <1>1, <1>2, <1>3, <2>1, <2>2 DEF Owned, TypeOK, Free
  <2>3. CASE e # d
    <3>1. fds'[e] = fds[e] /\ files'[e] = files[e]
      BY <1>1, <1>2, <2>3 DEF TypeOK
    <3> QED
      BY <1>2, <2>1, <3>1 DEF Owned
  <2> QED
    BY <2>2, <2>3
<1>10. HandlesApart' /\ TouchesOnlyItsOwn'
  <2>1. tls.active => tls.fd \in Fds /\ fds'[tls.fd] = fds[tls.fd]
    BY <1>1, <1>2, <1>3 DEF TypeOK, HandlesApart, TlsAt
  <2> QED
    BY <1>1, <1>2, <2>1 DEF HandlesApart, TouchesOnlyItsOwn
<1> QED
  BY <1>5, <1>6, <1>7, <1>8, <1>9, <1>10 DEF IInv, SlotsOfOpenFiles

-----------------------------------------------------------------------------
(* A line is part of what is left. *)
LEMMA LineLengthFits ==
  ASSUME NEW S, NEW rest \in Seq(S)
  PROVE  LineLength(rest) \in 0..Len(rest)
<1> DEFINE ends == {i \in DOMAIN rest : rest[i] = Newline}
<1>1. Len(rest) \in Nat /\ ends \subseteq 1..Len(rest) /\ ends \subseteq Nat
  BY LenProperties
<1>2. ends # {} => Min(ends) \in ends
  <2> HIDE DEF ends
  <2> QED
    BY <1>1, MinIsLeast
<1>3. LineLength(rest) = IF ends = {} THEN Len(rest) ELSE Min(ends)
  BY DEF LineLength
<1> QED
  BY <1>1, <1>2, <1>3

(* Enough reads of the buffer's capacity, and one fewer is not enough. *)
LEMMA ReadsSuffice ==
  ASSUME NEW k \in Nat
  PROVE  Reads(k) \in Nat /\ Reads(k) * IoBufCap \in Nat /\ Reads(k) * IoBufCap >= k
<1> DEFINE C == {r \in 0..k : r * IoBufCap >= k}
<1>1. IoBufCap \in Nat /\ IoBufCap >= 1
  BY DescriptorsAssumption
<1>2. k * IoBufCap >= k
  BY <1>1
<1>3. C \in SUBSET Nat /\ C # {}
  BY <1>2
<1>4. Min(C) \in C
  <2> HIDE DEF C
  <2> QED
    BY <1>3, MinIsLeast
<1> QED
  BY <1>1, <1>4 DEF Reads

(* How many bytes a read takes from the file that has U left, for a line of k bytes
   when B are buffered: no more than there are, and enough for the line. *)
BytesRead(B, U, k) == Min({U, Reads(IF k > B THEN k - B ELSE 0) * IoBufCap})

(* Whole buffers are read until the line is there, or the file ends. *)
LEMMA ReadsTheLine ==
  ASSUME NEW U \in Nat, NEW B \in Nat, NEW k \in 0..B + U
  PROVE  BytesRead(B, U, k) \in 0..U /\ k <= B + BytesRead(B, U, k)
<1> DEFINE missing == IF k > B THEN k - B ELSE 0
           full == Reads(missing) * IoBufCap
<1>1. missing \in Nat /\ missing <= U /\ k <= B + missing
  OBVIOUS
<1> HIDE DEF missing
<1>2. full \in Nat /\ full >= missing
  BY <1>1, ReadsSuffice
<1> HIDE DEF full
<1>3. Min({U, full}) \in {U, full} /\ Min({U, full}) <= U
  BY <1>2, MinIsLeast
<1> QED
  BY <1>1, <1>2, <1>3 DEF missing, full, BytesRead

(* r more bytes of a file of which off were delivered go into the buffer B, and a
   line of k bytes comes out: what was got, is buffered and is left are the same
   whole as before. *)
SameWhole(g, B, all, off, r, k) ==
  LET U == SubSeq(all, off + 1, Len(all))
  IN Cat(Cat(Cat(g, SubSeq(Cat(B, U), 1, k)),
             SubSeq(Cat(B, SubSeq(U, 1, r)), k + 1, Len(B) + r)),
         SubSeq(all, (off + r) + 1, Len(all)))
     = Cat(Cat(g, B), U)

(* Taking a line out of buffer and file repeats and loses no byte. *)
LEMMA LineRead ==
  ASSUME NEW S, NEW g \in Seq(S), NEW B \in Seq(S), NEW all \in Seq(S),
         NEW off \in 0..Len(all), NEW r \in 0..Len(all) - off, NEW k \in 0..Len(B) + r
  PROVE  LET U == SubSeq(all, off + 1, Len(all))
             X == SubSeq(Cat(B, U), 1, k)
             L == SubSeq(Cat(B, SubSeq(U, 1, r)), k + 1, Len(B) + r)
         IN /\ X \in Seq(S) /\ L \in Seq(S)
            /\ SameWhole(g, B, all, off, r, k)
            /\ k = Len(B) + r => L = <<>>
<1> DEFINE U == SubSeq(all, off + 1, Len(all))
           P == SubSeq(U, 1, r)
           V == SubSeq(all, (off + r) + 1, Len(all))
           X == SubSeq(Cat(B, U), 1, k)
           L == SubSeq(Cat(B, P), k + 1, Len(B) + r)
<1>1. /\ U \in Seq(S) /\ V \in Seq(S) /\ P \in Seq(S) /\ Len(P) = r
      /\ Cat(P, V) = U
  BY SuffixSplits
<1> HIDE DEF U, P, V
<1>2. Cat(B, P) \in Seq(S) /\ Len(Cat(B, P)) = Len(B) + r
  BY <1>1, ConcatProperties DEF Cat
<1>3. k \in 0..Len(Cat(B, P))
  BY <1>2
<1> DEFINE Y == SubSeq(Cat(B, Cat(P, V)), 1, k)
           M == SubSeq(Cat(B, P), k + 1, Len(Cat(B, P)))
<1>4. Y \in Seq(S) /\ M \in Seq(S) /\ Cat(Cat(Cat(g, Y), M), V) = Cat(Cat(g, B), Cat(P, V))
  BY <1>1, <1>3, LineMoves
<1>5. X = Y
  BY <1>1
<1>6. L = M
  BY <1>2
<1>7. k = Len(B) + r => M = <<>>
  <2>1. Len(B) \in Nat
    BY LenProperties
  <2>2. k = Len(B) + r => Len(M) = 0
    BY <1>2, <1>3, <2>1, SubSeqIs
  <2> HIDE DEF M
  <2> QED
    BY <1>4, <2>2
<1> HIDE DEF X, Y, L, M
<1> QED
  BY <1>1, <1>4, <1>5, <1>6, <1>7 DEF X, L, U, V, P, SameWhole

(* A line is read: r bytes of the file go into the buffer, or past it when there
   is no slot, and the line of k bytes comes out. *)
LEMMA ReadLineStep ==
  ASSUME IInv, NEW d \in Fds, ReadLine(d)
  PROVE  IInv'
<1> DEFINE s == SlotOf(d)
           all == Content[files[d].file]
           B == Buffered(d)
           U == Unread(d)
           k == LineLength(Cat(B, U))
           r == IF s = 0 THEN k ELSE BytesRead(Len(B), Len(U), k)
           X == SubSeq(Cat(B, U), 1, k)
           L == SubSeq(Cat(B, SubSeq(U, 1, r)), k + 1, Len(B) + r)
           g == files[d].got
<1>1. /\ files[d].file # 0
      /\ fds' = [fds EXCEPT ![d].off = @ + r]
      /\ bufs' = IF s = 0 THEN bufs ELSE [bufs EXCEPT ![s] = [fd |-> d, data |-> L]]
      /\ files' = [files EXCEPT ![d].got = Cat(@, X)]
      /\ UNCHANGED <<plain, tls, handles, sessions, gen, touched>>
  BY DEF ReadLine, streams, Cat, BytesRead
<1>2. /\ TypeOK /\ OneSlotEach(bufs) /\ SlotsOfOpenFiles /\ HandlesApart /\ TouchesOnlyItsOwn
      /\ \A e \in Fds : InOrder(e) /\ Owned(e)
  BY DEF IInv
<1>3. /\ fds[d].kind = "file" /\ all \in Seq(Bytes) /\ fds[d].off \in 0..Len(all)
      /\ fds[d].id = files[d].file /\ Len(all) \in Nat /\ g \in Seq(Bytes)
  <2>1. fds[d].kind = "file" /\ all \in Seq(Bytes) /\ fds[d].off \in 0..Len(all)
    BY <1>1, OpenFile
  <2> QED
    BY <1>1, <1>2, <2>1 DEF InOrder, TypeOK
<1>4. U = SubSeq(all, fds[d].off + 1, Len(all)) /\ U = RestIn(fds, d)
  BY <1>3 DEF Unread, RestIn
<1>5. U \in Seq(Bytes) /\ Len(U) = Len(all) - fds[d].off
  BY <1>3, <1>4, SubSeqIs
<1>6. B = HeldIn(bufs, d) /\ B \in Seq(Bytes) /\ Len(B) \in Nat
  BY <1>2, BufferedIsHeld, HeldIsSeq
<1>7. Cat(Cat(g, B), U) = all
  BY <1>1, <1>2, <1>4, <1>6 DEF InOrder
<1>8. /\ s # 0 => s \in Slots /\ bufs[s].fd \in {d, -1}
      /\ \A t \in Slots : bufs[t].fd = d => s # 0 /\ bufs[s].fd = d
  BY SlotOfFits
<1>9. s = 0 => B = <<>>
  BY DEF Buffered
<1> HIDE DEF s, B, U, g
<1>10. k \in 0..Len(B) + Len(U)
  <2>1. Cat(B, U) \in Seq(Bytes) /\ Len(Cat(B, U)) = Len(B) + Len(U)
    BY <1>5, <1>6, ConcatProperties DEF Cat
  <2> QED
    BY <2>1, LineLengthFits
<1> HIDE DEF k
<1>11. r \in 0..Len(U) /\ k <= Len(B) + r
  <2>1. Len(U) \in Nat
    BY <1>5, LenProperties
  <2>2. CASE s = 0
    BY <2>1, <1>6, <1>9, <1>10, <2>2
  <2>3. CASE s # 0
    BY <2>1, <1>6, <1>10, <2>3, ReadsTheLine
  <2> QED
    BY <2>2, <2>3
<1>12. s = 0 => r = k /\ k = Len(B) + r
  BY <1>9, <1>10, <1>11
<1> HIDE DEF r
<1> DEFINE V == SubSeq(all, (fds[d].off + r) + 1, Len(all))
<1>13. /\ X \in Seq(Bytes) /\ L \in Seq(Bytes) /\ Cat(Cat(Cat(g, X), L), V) = all
       /\ s = 0 => L = <<>>
  <2>1. r \in 0..Len(all) - fds[d].off /\ k \in 0..Len(B) + r
    BY <1>5, <1>6, <1>10, <1>11, <1>3
  <2> HIDE DEF all
  <2> DEFINE U0 == SubSeq(all, fds[d].off + 1, Len(all))
             X0 == SubSeq(Cat(B, U0), 1, k)
             L0 == SubSeq(Cat(B, SubSeq(U0, 1, r)), k + 1, Len(B) + r)
  <2>2. X0 \in Seq(Bytes) /\ L0 \in Seq(Bytes)
    BY <1>3, <1>6, <2>1, LineRead
  <2>4. SameWhole(g, B, all, fds[d].off, r, k)
    BY <1>3, <1>6, <2>1, LineRead
  <2>6. Cat(Cat(Cat(g, X0), L0), V) = Cat(Cat(g, B), U0)
    BY <2>4 DEF SameWhole
  <2>5. k = Len(B) + r => L0 = <<>>
    BY <1>3, <1>6, <2>1, LineRead
  <2>3. X = X0 /\ L = L0 /\ U = U0
    BY <1>4
  <2> HIDE DEF X, L, V, X0, L0, U0
  <2> QED
    BY <1>7, <1>12, <2>2, <2>3, <2>4, <2>5, <2>6
<1> HIDE DEF X, L, V, all
<1>14. /\ files'[d] = [file |-> files[d].file, got |-> Cat(g, X)]
       /\ \A e \in Fds \ {d} : files'[e] = files[e] /\ fds'[e] = fds[e]
       /\ fds'[d] = [kind |-> "file", id |-> fds[d].id, off |-> fds[d].off + r]
       /\ \A e \in Fds : files'[e].file = files[e].file /\ fds'[e].kind = fds[e].kind /\ fds'[e].id = fds[e].id
  BY <1>1, <1>2, <1>3 DEF TypeOK, g
<1>15. /\ s = 0 => bufs' = bufs
       /\ s # 0 => /\ bufs'[s] = [fd |-> d, data |-> L]
                   /\ \A t \in Slots \ {s} : bufs'[t] = bufs[t]
  BY <1>1, <1>2, <1>8 DEF TypeOK
<1>16. TypeOK'
  <2>1. Cat(g, X) \in Seq(Bytes)
    BY <1>3, <1>13, CatIsSeq
  <2>2. files' \in [Fds -> [file : 0..Len(Content), got : Seq(Bytes)]]
    BY <1>1, <1>2, <2>1 DEF TypeOK, g
  <2>3. fds[d].off + r \in Nat
    BY <1>3, <1>5, <1>11, LenProperties
  <2>4. fds' \in [Fds -> [kind : {"free", "file", "sock"}, id : DOMAIN Content \cup 0..MaxSessions, off : Nat]]
    BY <1>1, <1>2, <2>3 DEF TypeOK
  <2>5. bufs' \in [Slots -> [fd : Fds \cup {-1}, data : Seq(Bytes)]]
    BY <1>1, <1>2, <1>8, <1>13 DEF TypeOK
  <2> QED
    BY <1>1, <1>2, <2>2, <2>4, <2>5 DEF TypeOK
<1>17. OneSlotEach(bufs')
  BY <1>2, <1>8, <1>15 DEF OneSlotEach
<1>18. SlotsOfOpenFiles'
  BY <1>1, <1>2, <1>8, <1>14, <1>15 DEF SlotsOfOpenFiles, TypeOK
<1>19. ASSUME NEW e \in Fds PROVE InOrder(e)'
  <2>1. CASE e = d
    <3>1. HeldIn(bufs', d) = L
      <4>1. CASE s = 0
        BY <1>6, <1>9, <1>13, <1>15, <4>1
      <4>2. CASE s # 0
        BY <1>8, <1>15, <1>17, <4>2, HeldBy
      <4> QED
        BY <4>1, <4>2
    <3>2. RestIn(fds', d) = V
      <4>1. fds'[d].id = files[d].file /\ fds'[d].off = fds[d].off + r
        BY <1>3, <1>14
      <4> QED
        BY <4>1 DEF RestIn, V, all
    <3>3. fds[d].off + r <= Len(all)
      BY <1>3, <1>5, <1>11
    <3>4. Cat(Cat(files'[d].got, HeldIn(bufs', d)), RestIn(fds', d)) = all
      BY <1>13, <1>14, <3>1, <3>2
    <3>5. files'[d].file = files[d].file /\ fds'[d].off = fds[d].off + r
      BY <1>14
    <3> QED
      BY <1>3, <1>14, <2>1, <3>3, <3>4, <3>5 DEF InOrder, all
  <2>2. CASE e # d
    <3>1. HeldIn(bufs', e) = HeldIn(bufs, e)
      <4>1. \A t \in Slots : bufs[t].fd = e \/ bufs'[t].fd = e => bufs'[t] = bufs[t]
        BY <1>8, <1>15, <2>2, FdsAreNumbers
      <4> QED
        BY <1>2, <1>17, <4>1, HeldElsewhere
    <3> QED
      BY <1>2, <1>14, <2>2, <3>1, FilesStand
  <2> QED
    BY <2>1, <2>2
<1>20. ASSUME NEW e \in Fds PROVE Owned(e)'
  BY <1>1, <1>2, <1>14 DEF Owned, TlsAt
<1>21. HandlesApart' /\ TouchesOnlyItsOwn'
  BY <1>1, <1>2, <1>14 DEF HandlesApart, TouchesOnlyItsOwn
<1> QED
  BY <1>16, <1>17, <1>18, <1>19, <1>20, <1>21 DEF IInv

-----------------------------------------------------------------------------
(* What no stream call changes. *)
LEMMA StreamsLeaveFiles ==
  ASSUME IInv, bufs' = bufs, files' = files,
         \A d \in Fds : fds[d].kind = "file" => fds'[d] = fds[d]
  PROVE  OneSlotEach(bufs') /\ SlotsOfOpenFiles' /\ \A d \in Fds : InOrder(d)'
<1>1. OneSlotEach(bufs) /\ SlotsOfOpenFiles /\ \A d \in Fds : InOrder(d)
  BY DEF IInv
<1>2. OneSlotEach(bufs') /\ SlotsOfOpenFiles'
  BY <1>1 DEF SlotsOfOpenFiles
<1>3. ASSUME NEW d \in Fds PROVE InOrder(d)'
  <2>1. HeldIn(bufs', d) = HeldIn(bufs, d) /\ files'[d] = files[d]
    OBVIOUS
  <2>2. files[d].file # 0 => fds'[d] = fds[d]
    BY OpenFile
  <2> QED
    BY <1>1, <2>1, <2>2, FilesStand
<1> QED
  BY <1>2, <1>3

(* The generation after n. *)
LEMMA Wraps ==
  ASSUME NEW G \in Nat \ {0}
  PROVE  G % G = 0 /\ \A m \in 0..G - 1 : m % G = m
OBVIOUS

(* Generations wrap to 0. *)
LEMMA NextGeneration ==
  ASSUME NEW n \in 0..Generations - 1
  PROVE  (n + 1) % Generations = IF n + 1 = Generations THEN 0 ELSE n + 1
<1>1. Generations \in Nat \ {0}
  BY DescriptorsAssumption
<1>2. CASE n + 1 = Generations
  BY <1>1, <1>2, Wraps
<1>3. CASE n + 1 # Generations
  BY <1>1, <1>3, Wraps
<1> QED
  BY <1>2, <1>3

(* A socket takes a free number. *)
LEMMA ConnectStep ==
  ASSUME IInv, Connect
  PROVE  IInv'
<1> DEFINE d == Lowest(fds)
<1>0. d \in Fds /\ fds[d].kind = "free"
  BY LowestIsFree DEF Connect, CanConnect
<1>1. /\ fds' = [fds EXCEPT ![d] = [kind |-> "sock", id |-> sessions + 1, off |-> 0]]
      /\ plain' = [plain EXCEPT ![d] = sessions + 1]
      /\ sessions' = sessions + 1 /\ sessions < MaxSessions
      /\ UNCHANGED <<bufs, files, tls, handles, gen, touched>>
  BY DEF Connect, Connected
<1> HIDE DEF d
<1>2. /\ TypeOK /\ HandlesApart /\ TouchesOnlyItsOwn
      /\ \A e \in Fds : InOrder(e) /\ Owned(e)
  BY DEF IInv
<1>3. files[d].file = 0 /\ plain[d] = 0 /\ ~TlsAt(d)
  BY <1>0, <1>2 DEF InOrder, Owned
<1>4. sessions + 1 \in 1..MaxSessions /\ sessions \in Nat
  BY <1>1, <1>2, DescriptorsAssumption DEF TypeOK
<1>5. TypeOK'
  <2>1. [kind |-> "sock", id |-> sessions + 1, off |-> 0]
        \in [kind : {"free", "file", "sock"}, id : DOMAIN Content \cup 0..MaxSessions, off : Nat]
    BY <1>4
  <2>2. fds' \in [Fds -> [kind : {"free", "file", "sock"}, id : DOMAIN Content \cup 0..MaxSessions, off : Nat]]
    BY <1>1, <1>2, <2>1 DEF TypeOK
  <2>3. sessions' \in 0..MaxSessions /\ sessions + 1 \in 0..MaxSessions
    BY <1>1, <1>4
  <2>4. plain' \in [Fds -> 0..MaxSessions]
    BY <1>1, <1>2, <2>3 DEF TypeOK
  <2> QED
    BY <1>1, <1>2, <2>2, <2>3, <2>4 DEF TypeOK
<1>6. OneSlotEach(bufs') /\ SlotsOfOpenFiles' /\ \A e \in Fds : InOrder(e)'
  <2>1. \A e \in Fds : fds[e].kind = "file" => fds'[e] = fds[e]
    BY <1>0, <1>1, <1>2 DEF TypeOK
  <2> QED
    BY <1>1, <2>1, StreamsLeaveFiles
<1>7. ASSUME NEW e \in Fds PROVE Owned(e)'
  <2>1. TlsAt(e)' = TlsAt(e) /\ files'[e] = files[e]
    BY <1>1 DEF TlsAt
  <2>2. CASE e = d
    BY <1>0, <1>1, <1>2, <1>3, <1>4, <2>1, <2>2 DEF Owned, TypeOK
  <2>3. CASE e # d
    <3>1. fds'[e] = fds[e] /\ plain'[e] = plain[e]
      BY <1>0, <1>1, <1>2, <2>3 DEF TypeOK
    <3> QED
      BY <1>2, <2>1, <3>1 DEF Owned
  <2> QED
    BY <2>2, <2>3
<1>8. HandlesApart' /\ TouchesOnlyItsOwn'
  <2>1. tls.active => tls.fd \in Fds /\ fds'[tls.fd] = fds[tls.fd]
    BY <1>0, <1>1, <1>2, <1>3 DEF TypeOK, HandlesApart, TlsAt
  <2>2. gen <= sessions' /\ (sessions' < Generations => sessions < Generations)
    BY <1>1, <1>2, <1>4, DescriptorsAssumption DEF HandlesApart, TypeOK
  <2> QED
    BY <1>1, <1>2, <2>1, <2>2 DEF HandlesApart, TouchesOnlyItsOwn
<1> QED
  BY <1>5, <1>6, <1>7, <1>8 DEF IInv

(* The old session's descriptor is free, everything else as it was. *)
LEMMA TearingDown ==
  ASSUME IInv
  PROVE  /\ TornDown \in [Fds -> [kind : {"free", "file", "sock"}, id : DOMAIN Content \cup 0..MaxSessions, off : Nat]]
         /\ \A e \in Fds : IF TlsAt(e) THEN TornDown[e] = Free ELSE TornDown[e] = fds[e]
<1>1. TypeOK /\ HandlesApart
  BY DEF IInv
<1>2. Free \in [kind : {"free", "file", "sock"}, id : DOMAIN Content \cup 0..MaxSessions, off : Nat]
  BY DescriptorsAssumption DEF Free
<1> QED
  BY <1>1, <1>2 DEF TornDown, Close, TypeOK, HandlesApart, TlsAt

(* A new session: the old one torn down first. *)
LEMMA ConnectTlsStep ==
  ASSUME IInv, ConnectTls
  PROVE  IInv'
<1> DEFINE table == TornDown
           d == Lowest(table)
           g == (gen + 1) % Generations
           h == [fd |-> d, gen |-> g, conn |-> sessions + 1]
<1>0. d \in Fds /\ table[d].kind = "free"
  BY LowestIsFree DEF ConnectTls, CanConnect
<1>1. /\ fds' = [table EXCEPT ![d] = [kind |-> "sock", id |-> sessions + 1, off |-> 0]]
      /\ tls' = [active |-> TRUE, fd |-> d, gen |-> g] /\ gen' = g
      /\ handles' = handles \cup {h}
      /\ sessions' = sessions + 1 /\ sessions < MaxSessions
      /\ UNCHANGED <<bufs, files, plain, touched>>
  BY DEF ConnectTls, Connected
<1>2. /\ TypeOK /\ HandlesApart /\ TouchesOnlyItsOwn
      /\ \A e \in Fds : InOrder(e) /\ Owned(e)
  BY DEF IInv
<1>3. /\ table \in [Fds -> [kind : {"free", "file", "sock"}, id : DOMAIN Content \cup 0..MaxSessions, off : Nat]]
      /\ \A e \in Fds : IF TlsAt(e) THEN table[e] = Free ELSE table[e] = fds[e]
  BY TearingDown
<1> HIDE DEF table, d
<1>4. files[d].file = 0 /\ plain[d] = 0
  BY <1>0, <1>2, <1>3 DEF InOrder, Owned
<1>5. /\ sessions + 1 \in 1..MaxSessions /\ sessions \in Nat /\ gen \in Nat
      /\ MaxSessions \in Nat /\ Generations \in Nat /\ MaxSessions <= Generations
      /\ gen \in 0..Generations - 1
  BY <1>1, <1>2, DescriptorsAssumption DEF TypeOK
<1>6. g = IF gen + 1 = Generations THEN 0 ELSE gen + 1
  BY <1>5, NextGeneration
<1>7. g \in 0..Generations - 1
  BY <1>5, <1>6
<1> HIDE DEF g
<1>8. /\ fds'[d] = [kind |-> "sock", id |-> sessions + 1, off |-> 0]
      /\ \A e \in Fds \ {d} : fds'[e] = table[e]
  BY <1>0, <1>1, <1>3
<1>9. TypeOK'
  <2>1. [kind |-> "sock", id |-> sessions + 1, off |-> 0]
        \in [kind : {"free", "file", "sock"}, id : DOMAIN Content \cup 0..MaxSessions, off : Nat]
    BY <1>5
  <2>2. h \in [fd : Fds, gen : 0..Generations - 1, conn : 1..MaxSessions]
    BY <1>0, <1>5, <1>7
  <2>3. tls' \in [active : BOOLEAN, fd : Fds \cup {-1}, gen : -1..Generations - 1]
    BY <1>0, <1>1, <1>5, <1>7
  <2>4. fds' \in [Fds -> [kind : {"free", "file", "sock"}, id : DOMAIN Content \cup 0..MaxSessions, off : Nat]]
    BY <1>1, <1>3, <2>1
  <2>5. sessions' \in 0..MaxSessions
    BY <1>1, <1>5
  <2>6. handles' \subseteq [fd : Fds, gen : 0..Generations - 1, conn : 1..MaxSessions]
    BY <1>1, <1>2, <2>2 DEF TypeOK
  <2> QED
    BY <1>1, <1>2, <1>7, <2>3, <2>4, <2>5, <2>6 DEF TypeOK
<1>10. OneSlotEach(bufs') /\ SlotsOfOpenFiles' /\ \A e \in Fds : InOrder(e)'
  <2>1. \A e \in Fds : fds[e].kind = "file" => fds'[e] = fds[e]
    <3>1. \A e \in Fds : fds[e].kind = "file" => ~TlsAt(e)
      BY <1>2 DEF Owned
    <3> QED
      BY <1>0, <1>3, <1>8, <3>1
  <2> QED
    BY <1>1, <2>1, StreamsLeaveFiles
<1>11. ASSUME NEW e \in Fds PROVE Owned(e)'
  <2>1. TlsAt(e)' <=> e = d
    BY <1>1 DEF TlsAt
  <2>2. plain'[e] = plain[e] /\ files'[e] = files[e]
    BY <1>1
  <2>3. CASE e = d
    BY <1>4, <1>8, <2>1, <2>2, <2>3 DEF Owned
  <2>4. CASE e # d
    <3>1. fds'[e] = table[e] /\ Owned(e)
      BY <1>2, <1>8, <2>4
    <3>2. IF TlsAt(e) THEN table[e] = Free ELSE table[e] = fds[e]
      BY <1>3
    <3> QED
      BY <2>1, <2>2, <2>4, <3>1, <3>2 DEF Owned, Free
  <2> QED
    BY <2>3, <2>4
<1>12. HandlesApart'
  <2>1. g <= sessions + 1
    BY <1>2, <1>5, <1>6 DEF HandlesApart
  <2>2. \A k \in handles : k.gen \in 1..gen
    BY <1>1, <1>2, <1>5 DEF HandlesApart
  <2>3. \A k \in handles : k.gen # g
    BY <1>5, <1>6, <2>2
  <2>4. sessions + 1 < Generations => g = gen + 1
    BY <1>2, <1>5, <1>6 DEF HandlesApart
  <2>5. sessions + 1 < Generations => \A k \in handles' : k.gen \in 1..g
    BY <1>1, <1>5, <2>2, <2>4
  <2>6. \A k \in handles' : k.gen = g => k.conn = sessions + 1
    BY <1>1, <2>3
  <2> QED
    BY <1>0, <1>1, <1>8, <2>1, <2>5, <2>6 DEF HandlesApart
<1> QED
  BY <1>1, <1>2, <1>9, <1>10, <1>11, <1>12 DEF IInv, TouchesOnlyItsOwn

(* The live session ends: its descriptor is free, its handles name nothing. *)
LEMMA SessionEnds ==
  ASSUME IInv, fds' = TornDown, tls' = NoSession,
         UNCHANGED <<bufs, files, plain, handles, sessions, gen>>
  PROVE  /\ TypeOK' /\ OneSlotEach(bufs)' /\ SlotsOfOpenFiles' /\ HandlesApart'
         /\ \A d \in Fds : InOrder(d)' /\ Owned(d)'
<1>1. TypeOK /\ HandlesApart /\ \A d \in Fds : InOrder(d) /\ Owned(d)
  BY DEF IInv
<1>2. /\ fds' \in [Fds -> [kind : {"free", "file", "sock"}, id : DOMAIN Content \cup 0..MaxSessions, off : Nat]]
      /\ \A e \in Fds : IF TlsAt(e) THEN fds'[e] = Free ELSE fds'[e] = fds[e]
  BY TearingDown
<1>3. TypeOK'
  BY <1>1, <1>2, DescriptorsAssumption DEF TypeOK, NoSession
<1>4. OneSlotEach(bufs') /\ SlotsOfOpenFiles' /\ \A d \in Fds : InOrder(d)'
  <2>1. \A e \in Fds : fds[e].kind = "file" => fds'[e] = fds[e]
    BY <1>1, <1>2 DEF Owned
  <2> QED
    BY <2>1, StreamsLeaveFiles
<1>5. ASSUME NEW d \in Fds PROVE Owned(d)'
  <2>1. ~TlsAt(d)'
    BY DEF TlsAt, NoSession
  <2>2. IF TlsAt(d) THEN fds'[d] = Free ELSE fds'[d] = fds[d]
    BY <1>2
  <2> QED
    BY <1>1, <2>1, <2>2 DEF Owned, Free
<1>6. HandlesApart'
  BY <1>1 DEF HandlesApart, NoSession
<1> QED
  BY <1>3, <1>4, <1>5, <1>6

(* A failed one: torn down as well, and nothing installed. *)
LEMMA ConnectTlsFailsStep ==
  ASSUME IInv, ConnectTlsFails
  PROVE  IInv'
<1>1. TouchesOnlyItsOwn'
  BY DEF ConnectTlsFails, IInv, TouchesOnlyItsOwn
<1>2. /\ fds' = TornDown /\ tls' = NoSession
      /\ UNCHANGED <<bufs, files, plain, handles, sessions, gen>>
  BY DEF ConnectTlsFails
<1> QED
  BY <1>1, <1>2, SessionEnds DEF IInv

(* The handle that names the live session was given out for it. *)
LEMMA OwnedHandle ==
  ASSUME IInv, NEW h \in handles, Owns(h)
  PROVE  tls.active /\ h.conn = fds[tls.fd].id
BY DEF IInv, HandlesApart, Owns

(* A use changes only what was touched. *)
LEMMA UseStep ==
  ASSUME IInv, TouchesOnlyItsOwn',
         UNCHANGED <<fds, bufs, files, plain, tls, handles, sessions, gen>>
  PROVE  IInv'
<1>1. TypeOK' /\ OneSlotEach(bufs)' /\ SlotsOfOpenFiles' /\ HandlesApart'
  BY DEF IInv, TypeOK, SlotsOfOpenFiles, HandlesApart
<1>2. ASSUME NEW d \in Fds PROVE Owned(d)'
  BY DEF IInv, Owned, TlsAt
<1>3. \A d \in Fds : InOrder(d)'
  BY StreamsLeaveFiles
<1> QED
  BY <1>1, <1>2, <1>3 DEF IInv

(* A TLS handle in use reaches the live session or nothing ... *)
LEMMA UseTlsStep ==
  ASSUME IInv, NEW h \in handles, UseTls(h)
  PROVE  IInv'
<1>1. TouchesOnlyItsOwn'
  BY OwnedHandle DEF UseTls, TouchesOnlyItsOwn, Nothing
<1> QED
  BY <1>1, UseStep DEF UseTls

(* ... a plain one its own socket. *)
LEMMA UsePlainStep ==
  ASSUME IInv, NEW d \in Fds, UsePlain(d)
  PROVE  IInv'
<1>1. TouchesOnlyItsOwn'
  BY DEF UsePlain, TouchesOnlyItsOwn, IInv, Owned
<1> QED
  BY <1>1, UseStep DEF UsePlain

(* A TLS handle closes the session it names, once ... *)
LEMMA CloseTlsStep ==
  ASSUME IInv, NEW h \in handles, CloseTls(h)
  PROVE  IInv'
<1>1. CASE Owns(h)
  <2>1. TouchesOnlyItsOwn'
    BY <1>1, OwnedHandle DEF CloseTls, TouchesOnlyItsOwn
  <2>2. /\ fds' = TornDown /\ tls' = NoSession
        /\ UNCHANGED <<bufs, files, plain, handles, sessions, gen>>
    BY <1>1, OwnedHandle DEF CloseTls, TornDown
  <2> QED
    BY <2>1, <2>2, SessionEnds DEF IInv
<1>2. CASE ~Owns(h)
  <2>1. TouchesOnlyItsOwn'
    BY <1>2 DEF CloseTls, TouchesOnlyItsOwn, Nothing
  <2> QED
    BY <1>2, <2>1, UseStep DEF CloseTls
<1> QED
  BY <1>1, <1>2

(* ... a plain one its own socket. *)
LEMMA ClosePlainStep ==
  ASSUME IInv, NEW d \in Fds, ClosePlain(d)
  PROVE  IInv'
<1>1. /\ plain[d] # 0 /\ touched' = [by |-> plain[d], on |-> fds[d].id]
      /\ fds' = [fds EXCEPT ![d] = Free] /\ plain' = [plain EXCEPT ![d] = 0]
      /\ UNCHANGED <<bufs, files, tls, handles, sessions, gen>>
  BY DEF ClosePlain, Close
<1>2. TypeOK /\ HandlesApart /\ \A e \in Fds : InOrder(e) /\ Owned(e)
  BY DEF IInv
<1>3. fds[d].kind = "sock" /\ fds[d].id = plain[d] /\ ~TlsAt(d)
  BY <1>1, <1>2 DEF Owned
<1>4. /\ \A e \in Fds \ {d} : fds'[e] = fds[e] /\ plain'[e] = plain[e]
      /\ fds'[d] = Free /\ plain'[d] = 0
  BY <1>1, <1>2 DEF TypeOK
<1>5. TypeOK'
  <2>1. Free \in [kind : {"free", "file", "sock"}, id : DOMAIN Content \cup 0..MaxSessions, off : Nat]
    BY DescriptorsAssumption DEF Free
  <2>2. plain' \in [Fds -> 0..MaxSessions]
    BY <1>1, <1>2, DescriptorsAssumption DEF TypeOK
  <2> QED
    BY <1>1, <1>2, <2>1, <2>2 DEF TypeOK
<1>6. OneSlotEach(bufs') /\ SlotsOfOpenFiles' /\ \A e \in Fds : InOrder(e)'
  <2>1. \A e \in Fds : fds[e].kind = "file" => fds'[e] = fds[e]
    BY <1>3, <1>4
  <2> QED
    BY <1>1, <2>1, StreamsLeaveFiles
<1>7. ASSUME NEW e \in Fds PROVE Owned(e)'
  <2>1. TlsAt(e)' = TlsAt(e) /\ files'[e] = files[e]
    BY <1>1 DEF TlsAt
  <2>2. CASE e = d
    BY <1>3, <1>4, <2>1, <2>2 DEF Owned, Free
  <2>3. CASE e # d
    BY <1>2, <1>4, <2>1, <2>3 DEF Owned
  <2> QED
    BY <2>2, <2>3
<1>8. HandlesApart'
  <2>1. tls.active => tls.fd \in Fds /\ fds'[tls.fd] = fds[tls.fd]
    BY <1>2, <1>3, <1>4 DEF HandlesApart, TlsAt
  <2> QED
    BY <1>1, <1>2, <2>1 DEF HandlesApart
<1>9. TouchesOnlyItsOwn'
  BY <1>1, <1>3 DEF TouchesOnlyItsOwn
<1> QED
  BY <1>5, <1>6, <1>7, <1>8, <1>9 DEF IInv

-----------------------------------------------------------------------------
(* Buffers, descriptors and handles agree on who owns each number. *)
THEOREM Agreement ==
  Spec => []IInv
<1>1. IInv /\ [Next]_vars => IInv'
  <2> SUFFICES ASSUME IInv, [Next]_vars PROVE IInv'
    OBVIOUS
  <2>1. CASE \E f \in DOMAIN Content : FileOpen(f)
    BY <2>1, FileOpenStep
  <2>2. CASE \E d \in Fds : FileClose(d) \/ ReadLine(d) \/ UsePlain(d) \/ ClosePlain(d)
    BY <2>2, FileCloseStep, ReadLineStep, UsePlainStep, ClosePlainStep
  <2>3. CASE Connect \/ ConnectTls \/ ConnectTlsFails
    BY <2>3, ConnectStep, ConnectTlsStep, ConnectTlsFailsStep
  <2>4. CASE \E h \in handles : UseTls(h) \/ CloseTls(h)
    BY <2>4, UseTlsStep, CloseTlsStep
  <2>5. CASE UNCHANGED vars
    <3>1. TouchesOnlyItsOwn'
      BY <2>5 DEF vars, IInv, TouchesOnlyItsOwn
    <3> QED
      BY <2>5, <3>1, UseStep DEF vars
  <2> QED
    BY <2>1, <2>2, <2>3, <2>4, <2>5 DEF Next
<1> QED
  BY Beginning, <1>1, PTL DEF Spec

(* The descriptors, the buffers, the handles and the counters keep their types. *)
THEOREM DescriptorsTyped ==
  Spec => []TypeOK
<1>1. IInv => TypeOK
  BY DEF IInv
<1> QED
  BY <1>1, Agreement, PTL

(* What a program has read from a file, what is buffered and what the descriptor
   has not delivered are the file in order, through any number of opens, closes
   and reads, whether or not the table had a slot for it. *)
THEOREM FilesReadInOrder ==
  Spec => []LinesInOrder
<1>1. ASSUME IInv PROVE LinesInOrder
  <2> SUFFICES ASSUME NEW d \in Fds, files[d].file # 0
               PROVE  /\ fds[d].kind = "file" /\ fds[d].id = files[d].file
                      /\ files[d].got \o Buffered(d) \o Unread(d) = Content[files[d].file]
    BY DEF LinesInOrder
  <2>1. InOrder(d) /\ OneSlotEach(bufs)
    BY <1>1 DEF IInv
  <2>2. Buffered(d) = HeldIn(bufs, d)
    BY <2>1, BufferedIsHeld
  <2>3. Unread(d) = RestIn(fds, d)
    BY DEF Unread, RestIn
  <2> QED
    BY <2>1, <2>2, <2>3 DEF InOrder, Cat
<1> QED
  BY <1>1, Agreement, PTL

(* A stream call reaches the connection its handle was issued for or none. *)
THEOREM HandlesReachTheirOwn ==
  Spec => []TouchesOnlyItsOwn
<1>1. IInv => TouchesOnlyItsOwn
  BY DEF IInv
<1> QED
  BY <1>1, Agreement, PTL

(* Every open descriptor has one owner, every free one none. *)
THEOREM DescriptorsOwned ==
  Spec => []NoDescriptorLost
<1>1. ASSUME IInv, NEW d \in Fds
      PROVE  LET owners == {o \in {"file", "plain", "tls"} :
                              \/ o = "file" /\ files[d].file # 0
                              \/ o = "plain" /\ plain[d] # 0
                              \/ o = "tls" /\ tls.active /\ tls.fd = d}
             IN IF fds[d].kind = "free" THEN owners = {} ELSE Cardinality(owners) = 1
  <2> DEFINE owners == {o \in {"file", "plain", "tls"} :
                          \/ o = "file" /\ files[d].file # 0
                          \/ o = "plain" /\ plain[d] # 0
                          \/ o = "tls" /\ tls.active /\ tls.fd = d}
  <2>1. InOrder(d) /\ Owned(d)
    BY <1>1 DEF IInv
  <2>2. fds[d].kind = "free" => owners = {}
    BY <2>1 DEF InOrder, Owned, TlsAt
  <2>3. fds[d].kind # "free" => owners = {"file"} \/ owners = {"plain"} \/ owners = {"tls"}
    BY <2>1 DEF InOrder, Owned, TlsAt
  <2> HIDE DEF owners
  <2>4. fds[d].kind # "free" => Cardinality(owners) = 1
    BY <2>3, FS_Singleton
  <2> QED
    BY <2>2, <2>4 DEF owners
<1>2. IInv => NoDescriptorLost
  BY <1>1 DEF NoDescriptorLost
<1> QED
  BY <1>2, Agreement, PTL
=============================================================================
