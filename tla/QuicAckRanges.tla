--------------------------- MODULE QuicAckRanges ---------------------------
(***************************************************************************)
(* The received-packet ranges of one packet number space, and the ACK       *)
(* frames built from them: the qcn-rg-* functions, qcn-note-rx!,            *)
(* qcn-ack-frame and qcn-flush-one of net/quic_client.prn.                  *)
(*                                                                          *)
(* Up to Cap disjoint ranges, sorted by descending end, adjacent ones       *)
(* merged.  When the table is full a new range above pushes the lowest one  *)
(* out, and a packet number below every range is not noted at all.          *)
(***************************************************************************)
EXTENDS Integers, FiniteSets

CONSTANTS Cap,       \* ranges in the table (24 in the code)
          FrameCap,  \* ranges an ACK frame carries (20 in the code)
          MaxPn      \* bound on the packet numbers the peer uses

ASSUME CapAssumption      == Cap \in Nat \ {0}
ASSUME FrameCapAssumption == FrameCap \in Nat \ {0}
ASSUME MaxPnAssumption    == MaxPn \in Nat

VARIABLES n,         \* slot 9+space: number of ranges
          rg,        \* slots 300..: rg[1] is the highest range
          largest,   \* slot 6+space, -1 before the first packet
          pending,   \* slot 12+space: an ACK is due
          received,  \* history: packet numbers noted
          runs,      \* history: the most ranges `received' ever needed
          acked      \* history: packet numbers the peer was told of

vars == <<n, rg, largest, pending, received, runs, acked>>

Pn == 0 .. MaxPn
Index == 1 .. Cap
Rng(s, e) == [s |-> s, e |-> e]
Covers(r) == r.s .. r.e
CoveredBy(t) == UNION {Covers(t.rg[i]) : i \in 1 .. t.n}
Table == [n |-> n, rg |-> rg]
Covered == CoveredBy(Table)

(* Maximal runs of consecutive numbers in a set: ranges needed to hold it. *)
RunsOf(S) == Cardinality({p \in S : (p + 1) \notin S})

Init == /\ n = 0
        /\ rg = [i \in Index |-> Rng(0, 0)]
        /\ largest = -1
        /\ pending = FALSE
        /\ received = {} /\ runs = 0 /\ acked = {}

-----------------------------------------------------------------------------
(* A table [n, rg] with one entry replaced, inserted or removed.  Entries
   beyond n are stale and never read. *)
Put(t, i, r) == [t EXCEPT !.rg[i] = r]

(* Mutant of Insert: a full table loses the range at the insertion point
   instead of the lowest one. *)
InsertOverwrites(t, i, r) ==
  IF t.n >= Cap THEN Put(t, i, r)
  ELSE [n  |-> t.n + 1,
        rg |-> [k \in Index |-> IF k = i THEN r
                                ELSE IF k \in (i + 1) .. (t.n + 1) THEN t.rg[k - 1]
                                ELSE t.rg[k]]]

Insert(t, i, r) ==
  LET last == IF t.n >= Cap THEN Cap ELSE t.n + 1
  IN [n  |-> last,
      rg |-> [k \in Index |-> IF k = i THEN r
                              ELSE IF k \in (i + 1) .. last THEN t.rg[k - 1]
                              ELSE t.rg[k]]]

Remove(t, i) ==
  [n  |-> t.n - 1,
   rg |-> [k \in Index |-> IF k \in i .. (t.n - 1) THEN t.rg[k + 1] ELSE t.rg[k]]]

(* Mutants: growing downwards joins across a missing number, or removes the
   lower range without taking it over. *)
GrowDownJoinsGap(t, i, pn) ==
  IF i < t.n /\ t.rg[i + 1].e >= pn - 2
  THEN Remove(Put(t, i, Rng(t.rg[i + 1].s, t.rg[i].e)), i + 1)
  ELSE Put(t, i, Rng(pn, t.rg[i].e))
GrowDownDropsLower(t, i, pn) ==
  IF i < t.n /\ t.rg[i + 1].e = pn - 1
  THEN Remove(Put(t, i, Rng(pn, t.rg[i].e)), i + 1)
  ELSE Put(t, i, Rng(pn, t.rg[i].e))

(* pn continues range i upwards: it may close the gap to the range above. *)
GrowUp(t, i, pn) ==
  IF i > 1 /\ t.rg[i - 1].s = pn + 1
  THEN Remove(Put(t, i - 1, Rng(t.rg[i].s, t.rg[i - 1].e)), i)
  ELSE Put(t, i, Rng(t.rg[i].s, pn))

(* pn continues range i downwards: it may close the gap to the one below. *)
GrowDown(t, i, pn) ==
  IF i < t.n /\ t.rg[i + 1].e = pn - 1
  THEN Remove(Put(t, i, Rng(t.rg[i + 1].s, t.rg[i].e)), i + 1)
  ELSE Put(t, i, Rng(pn, t.rg[i].e))

(* The ranges that stop the loop of qcn-rg-note!; the first one decides. *)
Candidates(t, pn) == {i \in 1 .. t.n : pn >= t.rg[i].s - 1}
Decides(t, i, pn) == i \in Candidates(t, pn) /\ \A j \in Candidates(t, pn) : i <= j

NoteAt(t, i, pn) ==
  IF pn \in Covers(t.rg[i]) THEN t
  ELSE IF pn = t.rg[i].e + 1 THEN GrowUp(t, i, pn)
  ELSE IF pn = t.rg[i].s - 1 THEN GrowDown(t, i, pn)
  ELSE Insert(t, i, Rng(pn, pn))

NoteBelow(t, pn) ==
  IF t.n < Cap THEN Insert(t, t.n + 1, Rng(pn, pn)) ELSE t

(* One decrypted, fully recorded packet: its frames raised the pending flag
   if one of them elicits an ACK, and qcn-note-rx! notes its number. *)
NoteRx(pn, elicits) ==
  /\ largest' = IF pn > largest THEN pn ELSE largest
  /\ LET t == Table
     IN \/ /\ Candidates(t, pn) = {}
           /\ n' = NoteBelow(t, pn).n /\ rg' = NoteBelow(t, pn).rg
        \/ \E i \in 1 .. n :
             /\ Decides(t, i, pn)
             /\ n' = NoteAt(t, i, pn).n /\ rg' = NoteAt(t, i, pn).rg
  /\ pending' = (pending \/ elicits)
  /\ received' = received \cup {pn}
  /\ runs' = IF RunsOf(received') > runs THEN RunsOf(received') ELSE runs
  /\ UNCHANGED acked

(* A packet with a frame the reassembly table refused (slot 480): its number
   is not noted, though its frames may have raised the pending flag. *)
RefuseRx(elicits) ==
  /\ pending' = (pending \/ elicits)
  /\ UNCHANGED <<n, rg, largest, received, runs, acked>>

-----------------------------------------------------------------------------
(* An ACK frame reports at most FrameCap ranges. *)
FrameRanges == IF n > FrameCap THEN FrameCap ELSE n

(* Mutant of AckFrame: the gap is one too large. *)
AckFrameWideGap == [largest |-> rg[1].e,
                    first   |-> rg[1].e - rg[1].s,
                    pairs   |-> [i \in 2 .. FrameRanges |->
                                   [gap |-> (rg[i - 1].s - rg[i].e) - 1,
                                    len |-> rg[i].e - rg[i].s]]]

(* The ACK frame: the largest number, the length of the first range, then a
   gap and a length per further range, as the varints qcn-ack-pairs! puts. *)
AckFrame == [largest |-> rg[1].e,
             first   |-> rg[1].e - rg[1].s,
             pairs   |-> [i \in 2 .. FrameRanges |->
                            [gap |-> (rg[i - 1].s - rg[i].e) - 2,
                             len |-> rg[i].e - rg[i].s]]]

(* How the peer reads it (RFC 9000 section 19.3.1): each range ends gap + 2
   below the smallest number of the one before. *)
DecodedRanges(f) ==
  LET count == Cardinality(DOMAIN f.pairs) + 1
      dec[i \in 1 .. count] ==
        IF i = 1 THEN Rng(f.largest - f.first, f.largest)
        ELSE LET e == (dec[i - 1].s - f.pairs[i].gap) - 2
             IN Rng(e - f.pairs[i].len, e)
  IN dec
Decode(f) == LET d == DecodedRanges(f) IN UNION {Covers(d[i]) : i \in DOMAIN d}

(* What a frame is meant to report: the top FrameCap ranges (FrameRoundTrip
   checks that decoding the frame gives back exactly this). *)
Reported == UNION {Covers(rg[i]) : i \in 1 .. FrameRanges}

(* qcn-flush-one: with no range the frame is empty and nothing is sent. *)
FlushAck ==
  /\ pending /\ n > 0
  /\ acked' = acked \cup Reported
  /\ pending' = FALSE
  /\ UNCHANGED <<n, rg, largest, received, runs>>

Next == \/ FlushAck
        \/ \E elicits \in BOOLEAN : RefuseRx(elicits)
        \/ \E pn \in Pn, elicits \in BOOLEAN : NoteRx(pn, elicits)

Spec == Init /\ [][Next]_vars

-----------------------------------------------------------------------------
(* The slots hold a count, a table of ranges and the largest number. *)
TypeOK ==
  /\ n \in 0 .. Cap
  /\ rg \in [Index -> [s : Pn, e : Pn]]
  /\ largest \in Pn \cup {-1}
  /\ pending \in BOOLEAN
  /\ received \subseteq Pn
  /\ runs \in Nat
  /\ acked \subseteq Pn

(* The ranges are non-empty, descending, disjoint and not adjacent: every gap
   an ACK frame encodes is a non-negative varint. *)
Sorted ==
  /\ \A i \in 1 .. n : rg[i].s <= rg[i].e
  /\ \A i \in 1 .. (n - 1) : rg[i].s > rg[i + 1].e + 1

(* No packet that never arrived is ever acknowledged. *)
CoveredIsReceived == Covered \subseteq received
AckedIsReceived   == acked \subseteq received

(* The first range ends at the largest number received, so the frame's
   Largest Acknowledged field is right whatever fell off the table. *)
TopIsLargest == n > 0 => rg[1].e = largest /\ \A p \in received : p <= largest

(* As long as the packets received never needed more than Cap ranges, the
   table holds exactly the packets received: shifting and merging lose none. *)
NothingForgottenBelowCap == runs <= Cap => Covered = received

(* The peer decodes exactly the top FrameCap ranges from the frame. *)
FrameRoundTrip ==
  n > 0 => /\ \A i \in 2 .. FrameRanges : AckFrame.pairs[i].gap >= 0
           /\ Decode(AckFrame) = Reported

(* Only the lowest range is ever given up: what a step drops from the table
   lies below everything it keeps. *)
DropsOnlyLowest ==
  [][\A p \in Covered \ Covered' : \A q \in Covered' : p < q]_vars
=============================================================================
