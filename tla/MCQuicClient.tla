---------------------------- MODULE MCQuicClient ----------------------------
(* A Handshake flight in two packets and a response of two units in two.     *)
EXTENDS QuicClient

Frame(lo, hi) == [lo |-> lo, hi |-> hi]
MCHsFrames   == {Frame(0, 2), Frame(2, 4)}
MCRespFrames == {Frame(0, 1), Frame(1, 2)}
MCOneHs      == {Frame(0, 4)}
MCOneResp    == {Frame(0, 2)}
MCH3Ends     == {1, 2}
=============================================================================
