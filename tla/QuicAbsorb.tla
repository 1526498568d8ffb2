----------------------------- MODULE QuicAbsorb -----------------------------
(***************************************************************************)
(* The loop that qcn-seg-absorb! really runs: passes over the slots in      *)
(* index order, each folding the intervals that touch the prefix as it is   *)
(* at that moment, repeated while a pass changed something and at most      *)
(* Rounds times.  QuicReassembly states its result in closed form           *)
(* (Absorbed); this module checks that the two agree in every reachable     *)
(* state of the table.                                                      *)
(***************************************************************************)
EXTENDS QuicReassembly

CONSTANT Rounds   \* 40 in the code, with 32 slots

ASSUME RoundsAssumption == Rounds \in Nat /\ Rounds >= Slots

(* Mutant of Visit: an interval that starts exactly at the prefix is missed. *)
VisitStrictly(p, i) ==
  IF p.seg[i].e > 0 /\ p.seg[i].s < p.have
  THEN [have |-> Larger(p.have, p.seg[i].e),
        seg |-> [p.seg EXCEPT ![i] = Free],
        changed |-> TRUE]
  ELSE p

(* One slot of qcn-seg-pass!: p is the prefix, the table and `changed'. *)
Visit(p, i) ==
  IF p.seg[i].e > 0 /\ p.seg[i].s <= p.have
  THEN [have |-> Larger(p.have, p.seg[i].e),
        seg |-> [p.seg EXCEPT ![i] = Free],
        changed |-> TRUE]
  ELSE p

(* One pass over all slots, in order. *)
Pass(h, table) ==
  LET upto[i \in 0 .. Slots] ==
        IF i = 0 THEN [have |-> h, seg |-> table, changed |-> FALSE]
        ELSE Visit(upto[i - 1], i)
  IN  upto[Slots]

(* The passes: the loop goes on from a pass that changed something. *)
AbsorbFrom(h, table) ==
  LET after[round \in 0 .. Rounds] ==
        IF round = 0 THEN [have |-> h, seg |-> table, changed |-> TRUE]
        ELSE LET p == after[round - 1]
             IN  IF p.changed THEN Pass(p.have, p.seg) ELSE p
  IN  <<after[Rounds].have, after[Rounds].seg>>

(* Whatever prefix a frame extends to, the passes end with the least closed
   prefix and free exactly the intervals it covers: 40 rounds are enough for
   32 slots, and no order of the slots leaves an interval behind. *)
PassesReachTheFixpoint ==
  \A h \in have .. Size :
    AbsorbFrom(h, seg) =
      <<Absorbed(h), [i \in Slot |-> IF seg[i].s <= Absorbed(h) THEN Free ELSE seg[i]]>>
=============================================================================
