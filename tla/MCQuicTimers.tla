---------------------------- MODULE MCQuicTimers ----------------------------
(* A clock of 64 ticks whose last two read as negative: SafeStarts are the
   readings from which neither the horizon nor a deadline reaches them. *)
EXTENDS QuicTimers

SafeStarts == 0 .. 41
AllStarts  == 0 .. 63
=============================================================================
