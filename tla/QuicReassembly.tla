--------------------------- MODULE QuicReassembly ---------------------------
(***************************************************************************)
(* Reassembly of one QUIC byte stream (a CRYPTO stream or the response      *)
(* stream) in net/quic_client.prn: qcn-seg-add! and what it calls.          *)
(*                                                                          *)
(* Data is written at its absolute offset; the bookkeeping only says WHICH  *)
(* bytes are present: a contiguous prefix `have' and a table of Slots       *)
(* pending intervals beyond it.  When the table cannot record a frame, the  *)
(* packet that carried it is not acknowledged.                              *)
(***************************************************************************)
EXTENDS Integers

CONSTANTS Slots,    \* pending intervals in the table (32 in the code)
          Size,     \* bytes the destination buffer holds (cap)
          Chunks    \* the [off, len] frames the peer may send

ASSUME SlotsAssumption == Slots \in Nat \ {0}
ASSUME SizeAssumption  == Size \in Nat
ASSUME ChunksAssumption ==
         /\ Chunks \subseteq [off : Nat, len : Nat]
         /\ \A c \in Chunks : c.off + c.len <= Size

VARIABLES have,      \* slot 18/19/27: bytes 0 .. have-1 are contiguous
          seg,       \* slots 64..: the interval table, a slot is free iff e = 0
          overflow,  \* slot 480: a frame of the current packet went unrecorded
          pkt,       \* history: bytes carried so far by the current packet
          received,  \* history: bytes ever written into the buffer
          acked      \* history: bytes whose packet has been noted for an ACK

vars == <<have, seg, overflow, pkt, received, acked>>

Slot == 1 .. Slots
Free == [s |-> 0, e |-> 0]
Bytes(s, e) == s .. (e - 1)
Smaller(a, b) == IF a < b THEN a ELSE b
Larger(a, b)  == IF a > b THEN a ELSE b

Live(i) == seg[i].e > 0

(* The bytes the bookkeeping vouches for. *)
Recorded == {b \in 0 .. Size : \/ b < have
                               \/ \E i \in Slot : b \in Bytes(seg[i].s, seg[i].e)}

Init == /\ have = 0
        /\ seg = [i \in Slot |-> Free]
        /\ overflow = FALSE
        /\ pkt = {} /\ received = {} /\ acked = {}

-----------------------------------------------------------------------------
(* The prefix is closed when no pending interval that touches it reaches
   beyond it: what the passes of qcn-seg-absorb! run until. *)
Closed(h) == \A i \in Slot : (Live(i) /\ seg[i].s <= h) => seg[i].e <= h

Absorbed(h0) == CHOOSE h \in h0 .. Size :
                  Closed(h) /\ \A g \in h0 .. Size : Closed(g) => h <= g

(* Mutants of Extend: pending intervals are never absorbed; the absorbed intervals are freed but the
   prefix stops at the frame. *)
ExtendWithoutAbsorb(off, e) ==
  off <= have /\ have' = Larger(have, e) /\ UNCHANGED <<seg, overflow>>
ExtendDropsPending(off, e) ==
  /\ off <= have
  /\ have' = Larger(have, e)
  /\ seg' = [i \in Slot |-> IF seg[i].s <= have' THEN Free ELSE seg[i]]
  /\ UNCHANGED overflow

(* off <= have: the prefix grows and swallows every interval it now touches. *)
Extend(off, e) ==
  /\ off <= have
  /\ have' = Absorbed(Larger(have, e))
  /\ seg' = [i \in Slot |-> IF seg[i].s <= have' THEN Free ELSE seg[i]]
  /\ UNCHANGED overflow

Touching(s, e) == {i \in Slot : Live(i) /\ s <= seg[i].e /\ e >= seg[i].s}

Unused == {i \in Slot : ~Live(i)}
IsFirst(i, S) == i \in S /\ \A j \in S : i <= j

(* Fold the frame into the first pending interval it overlaps or touches. *)
Merge(off, e) ==
  /\ off > have
  /\ \E i \in Slot :
       /\ IsFirst(i, Touching(off, e))
       /\ seg' = [seg EXCEPT ![i] = [s |-> Smaller(off, seg[i].s),
                                     e |-> Larger(e, seg[i].e)]]
  /\ UNCHANGED <<have, overflow>>

(* Put it in the first free slot. *)
Stash(off, e) ==
  /\ off > have
  /\ Touching(off, e) = {}
  /\ \E i \in Slot : IsFirst(i, Unused) /\ seg' = [seg EXCEPT ![i] = [s |-> off, e |-> e]]
  /\ UNCHANGED <<have, overflow>>

(* Mutant of Refuse: the full table is not reported to the caller. *)
RefuseSilently(off, e) ==
  /\ off > have
  /\ Touching(off, e) = {} /\ Unused = {}
  /\ UNCHANGED <<have, seg, overflow>>

(* No slot: nothing is recorded, the packet will not be acknowledged. *)
Refuse(off, e) ==
  /\ off > have
  /\ Touching(off, e) = {} /\ Unused = {}
  /\ overflow' = TRUE
  /\ UNCHANGED <<have, seg>>

Ignore == UNCHANGED <<have, seg, overflow>>

SegAdd(off, len) ==
  IF len = 0 THEN Ignore
  ELSE \/ Extend(off, off + len)
       \/ Merge(off, off + len)
       \/ Stash(off, off + len)
       \/ Refuse(off, off + len)

(* One CRYPTO or STREAM frame of the packet being processed. *)
Frame(c) ==
  /\ SegAdd(c.off, c.len)
  /\ pkt' = pkt \cup Bytes(c.off, c.off + c.len)
  /\ received' = received \cup Bytes(c.off, c.off + c.len)
  /\ UNCHANGED acked

(* Mutant of PacketDone: every packet is noted, slot 480 is not consulted. *)
PacketDoneAlwaysNotes ==
  /\ acked' = acked \cup pkt
  /\ pkt' = {}
  /\ overflow' = FALSE
  /\ UNCHANGED <<have, seg, received>>

(* The end of qcn-packet!: the packet number is noted (and so will be
   acknowledged) only if slot 480 is still 0; the next packet resets it. *)
PacketDone ==
  /\ acked' = IF overflow THEN acked ELSE acked \cup pkt
  /\ pkt' = {}
  /\ overflow' = FALSE
  /\ UNCHANGED <<have, seg, received>>

Next == PacketDone \/ \E c \in Chunks : Frame(c)

Spec == Init /\ [][Next]_vars

-----------------------------------------------------------------------------
(* The state variables have the shapes of the slots that hold them. *)
TypeOK ==
  /\ have \in 0 .. Size
  /\ seg \in [Slot -> [s : 0 .. Size, e : 0 .. Size]]
  /\ overflow \in BOOLEAN
  /\ pkt \subseteq 0 .. Size
  /\ received \subseteq 0 .. Size
  /\ acked \subseteq 0 .. Size

(* A live interval is non-empty and lies strictly beyond the prefix, so the
   absorb passes leave nothing that qcn-seg-add! should have folded. *)
PendingBeyondPrefix ==
  \A i \in Slot : Live(i) => have < seg[i].s /\ seg[i].s < seg[i].e

(* The prefix is never stuck behind data that is already recorded: the byte
   at `have' is one that has not arrived (readers of `have' miss nothing). *)
PrefixIsMaximal == have \notin Recorded

(* Bytes of an acknowledged packet are recorded: an acknowledgement never
   punches a permanent hole in the stream. *)
AckedIsRecorded == acked \subseteq Recorded

(* Unless one of its frames was refused, everything the current packet has
   carried so far is recorded: slot 480 is never left at 0 by mistake. *)
PacketIsRecorded == overflow \/ pkt \subseteq Recorded

(* Nothing is delivered that no frame carried. *)
RecordedIsReceived == Recorded \subseteq received

(* Neither the prefix nor any recorded byte is ever taken back. *)
NeverForgets == [][have <= have' /\ Recorded \subseteq Recorded']_vars

(* The bookkeeping implements the promise of a reassembled stream: frames are
   recorded whole or refused, `have' is the longest contiguous prefix, and
   acknowledgements only cover recorded bytes. *)
Promise == INSTANCE ByteStream WITH got <- Recorded, next <- have
ImplementsByteStream == Promise!Spec

-----------------------------------------------------------------------------
(* A peer that keeps resending, in a packet of its own and whatever else it
   sends, each byte that has not been acknowledged. *)
Resend(b) == /\ b \notin acked /\ pkt = {}
             /\ \E c \in Chunks : b \in Bytes(c.off, c.off + c.len) /\ Frame(c)
FairSpec == /\ Spec
            /\ WF_vars(PacketDone)
            /\ \A b \in 0 .. (Size - 1) : SF_vars(Resend(b))

(* However small the table and whatever the arrival order, retransmission of
   unacknowledged bytes completes the stream. *)
Completes == <>(have = Size)
=============================================================================
