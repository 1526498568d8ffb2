----------------------------- MODULE ByteStream -----------------------------
(***************************************************************************)
(* What a reassembled QUIC stream promises its reader and its peer, whatever*)
(* the bookkeeping behind it: frames arrive in any order, each is taken as  *)
(* a whole or not at all, the reader always sees the longest contiguous     *)
(* prefix, and only bytes that were taken are acknowledged.                 *)
(***************************************************************************)
EXTENDS Integers

CONSTANTS Chunks   \* the [off, len] frames the peer may send

VARIABLES got,     \* the bytes taken so far
          next,    \* how far the reader can read
          acked    \* bytes the peer may forget

vars == <<got, next, acked>>

BytesOf(c) == c.off .. (c.off + c.len - 1)

LongestPrefix(k, S) == k >= 0 /\ k \notin S /\ \A b \in 0 .. (k - 1) : b \in S

Init == got = {} /\ next = 0 /\ acked = {}

Arrive(c) == /\ got' \in {got, got \cup BytesOf(c)}
             /\ next' >= next
             /\ LongestPrefix(next', got')
             /\ UNCHANGED acked

Acknowledge == /\ acked \subseteq acked' /\ acked' \subseteq got
               /\ UNCHANGED <<got, next>>

Next == Acknowledge \/ \E c \in Chunks : Arrive(c)

Spec == Init /\ [][Next]_vars
=============================================================================
