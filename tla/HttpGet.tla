------------------------------- MODULE HttpGet -------------------------------
(***************************************************************************)
(* What net/quic_client.prn promises its host: one GET, whose result is     *)
(* final, whose request goes to an authenticated server only, whose body    *)
(* grows in order from what that server sent, and which succeeds only with  *)
(* the whole of it.                                                         *)
(***************************************************************************)
EXTENDS Integers

CONSTANT Length  \* units of the response

VARIABLES genuine,        \* the server can prove its name
          authenticated,  \* the client has checked the proof
          asked,          \* the request was handed to the network
          body,           \* units of the response the host may read
          sealed,         \* the end of the response is known
          result          \* 0 in progress, 1 success, negative: failure

vars == <<genuine, authenticated, asked, body, sealed, result>>

Init ==
  /\ genuine \in BOOLEAN
  /\ ~authenticated /\ ~asked /\ body = 0 /\ ~sealed /\ result = 0

Authenticate ==
  /\ genuine /\ ~authenticated /\ authenticated' = TRUE
  /\ UNCHANGED <<genuine, asked, body, sealed, result>>

Ask ==
  /\ authenticated /\ ~asked /\ result = 0 /\ asked' = TRUE
  /\ UNCHANGED <<genuine, authenticated, body, sealed, result>>

Seal ==
  /\ authenticated /\ ~sealed /\ sealed' = TRUE
  /\ UNCHANGED <<genuine, authenticated, asked, body, result>>

Grow ==
  /\ asked /\ result = 0 /\ body' \in (body + 1) .. Length
  /\ UNCHANGED <<genuine, authenticated, asked, sealed, result>>

Succeed ==
  /\ result = 0 /\ asked /\ sealed /\ body = Length /\ result' = 1
  /\ UNCHANGED <<genuine, authenticated, asked, body, sealed>>

GiveUp ==
  /\ result = 0 /\ result' \in -6 .. -1
  /\ UNCHANGED <<genuine, authenticated, asked, body, sealed>>

Next == Authenticate \/ Ask \/ Seal \/ Grow \/ Succeed \/ GiveUp

Spec == Init /\ [][Next]_vars
=============================================================================
