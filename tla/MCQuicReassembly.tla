-------------------------- MODULE MCQuicReassembly --------------------------
(* Small instance: a table of two intervals, and every non-empty frame of at
   most two bytes, plus the empty frame. *)
EXTENDS QuicAbsorb

MCChunks == {c \in [off : 0 .. Size, len : 0 .. 2] : c.off + c.len <= Size}
=============================================================================
