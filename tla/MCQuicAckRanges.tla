-------------------------- MODULE MCQuicAckRanges --------------------------
(* Seven packet numbers need up to four ranges: a table of three and frames
   of two see every way the table fills, merges, shifts and overflows. *)
EXTENDS QuicAckRanges
=============================================================================
