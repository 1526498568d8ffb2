----------------------------- MODULE QuicClient -----------------------------
(***************************************************************************)
(* One HTTP/3 GET over QUIC: the connection engine of net/quic_client.prn   *)
(* (quic-pump and everything it calls, quic-close), a server, and a network *)
(* that loses, duplicates and reorders datagrams.                           *)
(*                                                                          *)
(* quic-pump is one call of a single thread.  It is modelled as the chain   *)
(* of steps its body runs (`pc'), each an action; the server and the        *)
(* network move only between two pumps, which loses no behaviour: the pump  *)
(* reads the outside world only through the socket, in its first step, and  *)
(* a datagram may stay in flight for as long as the network likes.          *)
(*                                                                          *)
(* Data is abstract: stream contents are numbered units (the Handshake      *)
(* flight is four messages: EncryptedExtensions, Certificate,               *)
(* CertificateVerify, Finished), the reassembly table is the ByteStream     *)
(* that QuicReassembly implements, the ranges of an ACK frame are the set   *)
(* of packets they denote (QuicAckRanges), and a packet is identified by    *)
(* the data it carries: a retransmission is the same packet sent again.     *)
(***************************************************************************)
EXTENDS Integers, FiniteSets, Sequences

CONSTANTS Peers,       \* which kinds of server Init may choose from
          HsFrames,    \* CRYPTO frames [lo, hi) of the server's Handshake flight
          HsCap,       \* units the Handshake CRYPTO buffer holds
          RespFrames,  \* STREAM frames [lo, hi) of the response
          RespLen,     \* units of the response; the last frame carries FIN
          H3Ends,      \* units where an HTTP/3 frame of the response ends
          Coalesce,    \* SH may share its datagram with Handshake data
          EarlyData,   \* the server sends 1-RTT data before the handshake ends
          AmpFactor,   \* datagrams the server may answer one with until the
                       \* client's address is validated; 0: validated from the start
          TinyTable,   \* the interval table may be full when a frame arrives
          MaxRetries,  \* probe timeouts before giving up (8 in the code)
          MaxLosses, MaxDups,  \* bounds on what the network does wrong
          MaxInFlight, \* bound on the server's datagrams in flight
          MayClose,    \* the host may call quic-close
          MayRefuse,   \* an ICMP port-unreachable may arrive
          Deadline,    \* the overall deadline may pass
          Calm         \* the network and the server settle between two pumps

HsLen == 4

PeerKinds == {"good", "closes", "badStatus", "truncated",
              "badHello", "badAlpn", "badCert", "badVerify", "badFinished", "retry",
              "oversized"}

ASSUME ConstantsAssumption ==
  /\ Peers \subseteq PeerKinds
  /\ RespLen \in Nat \ {0} /\ HsCap \in Nat
  /\ HsFrames \subseteq [lo : 0 .. (HsLen - 1), hi : 1 .. HsLen]
  /\ RespFrames \subseteq [lo : 0 .. (RespLen - 1), hi : 1 .. RespLen]
  /\ H3Ends \subseteq 1 .. RespLen
  /\ AmpFactor \in Nat /\ MaxRetries \in Nat /\ MaxInFlight \in Nat \ {0}
  /\ MaxLosses \in Nat /\ MaxDups \in Nat
  /\ {Coalesce, EarlyData, TinyTable, MayClose, MayRefuse, Deadline, Calm}
       \subseteq BOOLEAN

VARIABLES
  pc,          \* the step of quic-pump that runs next; "idle" between pumps
  dgram,       \* the packets of the current datagram not processed yet
  status,      \* slot 0
  stage,       \* slot 1: 0 .. 5
  keys,        \* slots 15-17: packet number spaces whose keys are ready
  got,         \* per stream (0, 1 CRYPTO; 2 response) the units recorded
  noted,       \* per space, the packets the received ranges cover
  ackPending,  \* slots 12-14: spaces that owe the peer an ACK
  finAt,       \* slot 28: final size of the response, -1 unknown
  parsed,      \* slot 29: units consumed by the HTTP/3 parser
  http,        \* slot 32 > 0: a valid response status was decoded
  progress,    \* slot 39
  gotHs,       \* slot 36: a Handshake packet was received
  gotApp,      \* slot 43: a 1-RTT packet was received
  confirmed,   \* slot 33: HANDSHAKE_DONE was received
  fin,         \* the Handshake retransmit buffer: the Finished packet or {}
  sentApp,     \* slot 34
  retries,     \* slot 25
  open,        \* slot 2 >= 0: the socket is open
  peer,        \* the server's kind, fixed by Init
  server,      \* the server's state
  toClient,    \* datagrams in flight: sequences of packets
  toServer,    \* the client's packets in flight, one per datagram
  icmp,        \* a port-unreachable error is pending on the socket
  late,        \* the overall deadline (slot 35) has passed
  losses, dups \* what the network has done wrong so far

tlsVars    == <<stage, keys, fin>>
streamVars == <<got, finAt, noted>>
h3Vars     == <<parsed, http>>
seenVars   == <<gotHs, gotApp, confirmed>>
sendVars   == <<sentApp, retries>>
clientVars == <<dgram, status, tlsVars, streamVars, ackPending, h3Vars, progress,
                seenVars, sendVars, open>>
netVars    == <<toClient, toServer, icmp, losses, dups>>
envVars    == <<peer, server, late>>
vars == <<pc, clientVars, netVars, envVars>>

-----------------------------------------------------------------------------
(* Packets.  The server's carry one frame of data each; an ACK riding along
   only rearms the probe timer, whose expiry is arbitrary anyway. *)
Packet(k, lo, hi) == [k |-> k, lo |-> lo, hi |-> hi]
SH      == Packet("SH", 0, 1)
HS(f)   == Packet("HS", f.lo, f.hi)
RESP(f) == Packet("RESP", f.lo, f.hi)
EARLY   == Packet("EARLY", 0, 0)   \* SETTINGS on the control stream, say
DONE    == Packet("DONE", 0, 0)
CLOSE   == Packet("CLOSE", 0, 0)
RETRY   == Packet("RETRY", 0, 0)   \* or a Version Negotiation packet

ServerPackets == {SH, EARLY, DONE, CLOSE, RETRY} \cup {HS(f) : f \in HsFrames}
                                          \cup {RESP(f) : f \in RespFrames}

(* qcn-space-of; a Retry has no space (-1), and a packet of another version
   is dropped like one whose keys are not ready. *)
Space(p) == CASE p.k = "SH" -> 0 [] p.k = "HS" -> 1 [] p.k = "RETRY" -> -1 [] OTHER -> 2
Units(p) == p.lo .. (p.hi - 1)

(* The client's packets say what they are and what they acknowledge. *)
Sent(k, acks) == [k |-> k, acks |-> acks]
AckKind == [s \in 0 .. 2 |-> <<"ACK0", "ACK1", "ACK2">>[s + 1]]

Have(S) == CHOOSE h \in 0 .. Cardinality(S) : h \notin S /\ \A u \in 0 .. (h - 1) : u \in S
Smaller(a, b) == IF a < b THEN a ELSE b

Fail(code) == IF status = 0 THEN code ELSE status

(* qcn-send, of a set of packets: one datagram each.  On a closed socket the
   send fails, a pending port-unreachable error makes one send fail and is
   consumed by it; no caller looks at the result. *)
Transmit(P) ==
  IF ~open \/ P = {} THEN UNCHANGED <<toServer, icmp>>
  ELSE /\ icmp' = FALSE
       /\ IF icmp THEN \E p \in P : toServer' = toServer \cup (P \ {p})
                  ELSE toServer' = toServer \cup P

(* quic-connect has sent the ClientHello. *)
Init ==
  /\ pc = "idle" /\ dgram = <<>> /\ status = 0 /\ stage = 0 /\ keys = {0}
  /\ got = [l \in 0 .. 2 |-> {}] /\ noted = [s \in 0 .. 2 |-> {}]
  /\ ackPending = {} /\ finAt = -1 /\ parsed = 0 /\ http = FALSE
  /\ progress = FALSE /\ gotHs = FALSE /\ gotApp = FALSE /\ confirmed = FALSE
  /\ fin = {} /\ sentApp = FALSE /\ retries = 0 /\ open = TRUE
  /\ peer \in Peers
  /\ server = [hello |-> FALSE, finished |-> FALSE, request |-> FALSE,
               handshake |-> FALSE, early |-> FALSE, credit |-> 0, acked |-> {}]
  /\ toClient = {} /\ toServer = {Sent("CH", {})}
  /\ icmp = FALSE /\ late = FALSE /\ losses = 0 /\ dups = 0
-----------------------------------------------------------------------------
(* What the server may put on the wire: Handshake data only behind a
   ServerHello, 1-RTT data behind the client's Finished unless it is early
   data or the server does not care.  A server that insists on a Retry sends
   nothing else. *)
Impatient == peer \in {"badHello", "badAlpn", "badCert", "badVerify", "badFinished"}
HelloOut == SH \in server.acked \/ server.handshake \/ \E d \in toClient : Head(d) = SH
Eligible(p) ==
  /\ server.hello /\ p \notin server.acked
  /\ (p.k = "RETRY") = (peer = "retry")
  /\ CASE p.k = "RETRY" -> TRUE
       [] p.k = "SH"    -> ~server.handshake
       [] p.k = "HS"    -> ~server.finished /\ HelloOut
       [] p.k = "EARLY" -> EarlyData /\ ~server.early /\ ~server.finished
       [] p.k = "DONE"  -> server.finished \/ Impatient
       [] p.k = "RESP"  -> server.request \/ Impatient
       [] p.k = "CLOSE" -> server.request /\ peer = "closes"

Coalesced == IF Coalesce THEN {<<SH, HS(f)>> : f \in HsFrames} ELSE {}
Datagrams == {<<p>> : p \in ServerPackets} \cup Coalesced
MayAnswer(d) ==
  /\ Eligible(Head(d))
  /\ d \in Coalesced => ~server.finished /\ d[2] \notin server.acked
  /\ AmpFactor = 0 \/ server.handshake \/ server.credit > 0
Answers(d) == /\ MayAnswer(d)
              /\ d \notin toClient /\ Cardinality(toClient) < MaxInFlight
Settled == toServer = {} /\ \A d \in Datagrams \ {<<EARLY>>} : ~Answers(d)

(* quic-pump does nothing once the connection has a final status. *)
PumpBegin ==
  /\ pc = "idle" /\ status = 0
  /\ Calm => Settled
  /\ pc' = "drain"
  /\ UNCHANGED <<clientVars, netVars, envVars>>

(* qcn-seg-add!: the frame is recorded, unless it lies beyond the prefix,
   touches no pending interval and the table is full. *)
MayNotFit(p) ==
  LET S == got[Space(p)]
  IN /\ TinyTable
     /\ p.lo > Have(S)
     /\ \A u \in S : u < Have(S) \/ u < p.lo - 1 \/ u > p.hi

Record(p, refused) ==
  got' = IF refused THEN got ELSE [got EXCEPT ![Space(p)] = @ \cup Units(p)]

(* qcn-crypto-in!: beyond the buffer the frame is silently ignored. *)
CryptoIn(p, refused) ==
  /\ IF Space(p) = 1 /\ p.hi > HsCap
     THEN ~refused /\ UNCHANGED <<got, progress>>
     ELSE Record(p, refused) /\ progress' = TRUE
  /\ UNCHANGED <<status, finAt, confirmed>>

StreamInUnbounded(p, refused) ==
  /\ Record(p, refused)
  /\ progress' = TRUE
  /\ finAt' = IF p.hi = RespLen THEN RespLen ELSE finAt
  /\ UNCHANGED <<status, confirmed>>

(* Units of the response the buffer holds: one too few for an oversized one. *)
BodyRoom == IF peer = "oversized" THEN RespLen - 1 ELSE RespLen

(* qcn-stream-in! on the response stream: beyond the buffer it fails; the
   final size is learnt even from a frame that did not fit the table. *)
StreamIn(p, refused) ==
  /\ IF p.hi > BodyRoom
     THEN /\ ~refused
          /\ status' = Fail(-5)
          /\ UNCHANGED <<got, progress, finAt>>
     ELSE /\ Record(p, refused)
          /\ progress' = TRUE
          /\ finAt' = IF p.hi = RespLen THEN RespLen ELSE finAt
          /\ UNCHANGED status
  /\ UNCHANGED confirmed

Control(p) ==
  /\ status' = IF p.k = "CLOSE" THEN Fail(-4) ELSE status
  /\ confirmed' = (confirmed \/ p.k = "DONE")
  /\ UNCHANGED <<got, progress, finAt>>

(* qcn-packet! on a packet whose keys are ready: everything but
   CONNECTION_CLOSE asks for an ACK, and only a recorded packet is noted. *)
NoteAlways(p, refused) == noted' = [noted EXCEPT ![Space(p)] = @ \cup {p}]
Note(p, refused) ==
  noted' = IF refused THEN noted ELSE [noted EXCEPT ![Space(p)] = @ \cup {p}]

Accept(p, refused) ==
  /\ refused => p.k \in {"SH", "HS", "RESP"} /\ MayNotFit(p)
  /\ gotHs' = (gotHs \/ Space(p) = 1)
  /\ gotApp' = (gotApp \/ Space(p) = 2)
  /\ CASE p.k \in {"SH", "HS"} -> CryptoIn(p, refused)
       [] p.k = "RESP"         -> StreamIn(p, refused)
       [] OTHER                -> Control(p)
  /\ ackPending' = IF p.k = "CLOSE" THEN ackPending ELSE ackPending \cup {Space(p)}
  /\ Note(p, refused)

(* qcn-drain!: the next datagram from the socket (the network may have sent
   it twice). *)
RecvDatagram(d) ==
  /\ pc = "drain" /\ open /\ dgram = <<>>
  /\ d \in toClient
  /\ dgram' = d
  /\ \/ toClient' = toClient \ {d} /\ UNCHANGED dups
     \/ dups < MaxDups /\ dups' = dups + 1 /\ UNCHANGED toClient
  /\ UNCHANGED <<pc, status, open, tlsVars, streamVars, ackPending, h3Vars, progress,
                 seenVars, sendVars, toServer, icmp, losses, envVars>>

(* qcn-datagram!, qcn-packet!: a packet whose keys are not ready drops the
   rest of its datagram.  The keys of a Handshake packet coalesced behind the
   ServerHello are never ready: TlsStep derives them after the drain. *)
RecvPacket ==
  /\ pc = "drain" /\ dgram # <<>>
  /\ IF Space(Head(dgram)) \in keys
     THEN /\ dgram' = Tail(dgram)
          /\ \E refused \in BOOLEAN : Accept(Head(dgram), refused)
     ELSE /\ dgram' = <<>>
          /\ UNCHANGED <<status, streamVars, ackPending, progress, seenVars>>
  /\ UNCHANGED <<pc, open, tlsVars, h3Vars, sendVars, netVars, envVars>>

(* The end of qcn-drain!: the socket reported an error, has nothing more to
   give, or 32 datagrams were read.  A refused port is fatal only if the
   server was never heard. *)
RefusalAlwaysFatal ==
  IF icmp /\ open THEN status' = Fail(-6) /\ icmp' = FALSE ELSE UNCHANGED <<status, icmp>>
Refusal ==
  IF icmp /\ open
  THEN /\ status' = IF noted[0] = {} THEN Fail(-6) ELSE status
       /\ icmp' = FALSE
  ELSE UNCHANGED <<status, icmp>>

DrainEnd ==
  /\ pc = "drain" /\ dgram = <<>>
  /\ Calm => toClient = {} \/ ~open
  /\ Refusal
  /\ pc' = "tls"
  /\ UNCHANGED <<dgram, open, tlsVars, streamVars, ackPending, h3Vars, progress, seenVars,
                 sendVars, toClient, toServer, losses, dups, envVars>>

-----------------------------------------------------------------------------
(* The message at which a bad server is found out (0 is its ServerHello), and
   the status that gives. *)
FailsAt == CASE peer = "badHello"    -> 0
             [] peer = "badAlpn"     -> 1
             [] peer = "badCert"     -> 2
             [] peer = "badVerify"   -> 3
             [] peer = "badFinished" -> 4
             [] OTHER                -> 5
FailCode == IF peer \in {"badCert", "badVerify"} THEN -3 ELSE -2

(* qcn-tls-step!: every complete message, in order, until one is missing or
   does not verify; after the server's Finished, qcn-finish-handshake!. *)
Reach == IF Have(got[0]) < 1 THEN 0 ELSE 1 + Smaller(HsLen, Have(got[1]))

FinishHandshake(newStage) ==
  IF newStage = 5 /\ stage < 5
  THEN LET packet == Sent("FIN", noted[1])
       IN /\ fin' = {packet}
          /\ ackPending' = ackPending \ {0, 1}
          /\ Transmit({packet})
  ELSE UNCHANGED <<fin, ackPending, toServer, icmp>>

TlsStep ==
  /\ pc = "tls" /\ pc' = "app"
  /\ IF status # 0 \/ stage = 5
     THEN UNCHANGED <<status, tlsVars, ackPending, toServer, icmp>>
     ELSE LET newStage == Smaller(Reach, FailsAt)
          IN /\ stage' = newStage
             /\ status' = IF Reach > FailsAt THEN Fail(FailCode) ELSE status
             /\ keys' = {s \in 0 .. 2 : newStage >= <<0, 1, 5>>[s + 1]}
             /\ FinishHandshake(newStage)
  /\ UNCHANGED <<dgram, open, streamVars, h3Vars, progress, seenVars, sendVars,
                 toClient, losses, dups, envVars>>

(* qcn-send-app!: the request, once. *)
REQ == Sent("REQ", {})
SendAppEagerly == status = 0 /\ ~sentApp /\ 1 \in keys
MaySendApp == status = 0 /\ ~sentApp /\ 2 \in keys

SendApp ==
  /\ pc = "app" /\ pc' = "parse"
  /\ IF MaySendApp THEN sentApp' = TRUE /\ Transmit({REQ})
                   ELSE UNCHANGED <<sentApp, toServer, icmp>>
  /\ UNCHANGED <<dgram, status, open, tlsVars, streamVars, ackPending, h3Vars, progress,
                 seenVars, retries, toClient, losses, dups, envVars>>

(* qcn-h3-parse!: every HTTP/3 frame that lies inside the prefix; the first
   is HEADERS and gives the response status. *)
FrameEnds == IF peer = "truncated" THEN H3Ends \ {RespLen} ELSE H3Ends
ParsedUpTo(have) ==
  CHOOSE e \in FrameEnds \cup {0} : e <= have /\ \A x \in FrameEnds : x <= have => x <= e

H3Parse ==
  /\ pc = "parse" /\ pc' = "complete"
  /\ IF status = 0
     THEN /\ parsed' = ParsedUpTo(Have(got[2]))
          /\ http' = (http \/ (parsed' > 0 /\ peer # "badStatus"))
     ELSE UNCHANGED h3Vars
  /\ UNCHANGED <<dgram, status, open, tlsVars, streamVars, ackPending, progress, seenVars,
                 sendVars, netVars, envVars>>

(* qcn-complete?: the final size is known, received and parsed. *)
IsComplete == finAt >= 0 /\ Have(got[2]) >= finAt /\ parsed = finAt

Complete ==
  /\ pc = "complete" /\ pc' = "acks"
  /\ status' = IF status = 0 /\ IsComplete THEN (IF http THEN 1 ELSE Fail(-5)) ELSE status
  /\ UNCHANGED <<dgram, open, tlsVars, streamVars, ackPending, h3Vars, progress, seenVars,
                 sendVars, netVars, envVars>>

(* qcn-flush-acks, whatever the status. *)
Owed == {s \in ackPending \cap keys : noted[s] # {}}

FlushAcks ==
  /\ pc = "acks" /\ pc' = "timers"
  /\ Transmit({Sent(AckKind[s], noted[s]) : s \in Owed})
  /\ ackPending' = ackPending \ Owed
  /\ UNCHANGED <<dgram, status, open, tlsVars, streamVars, h3Vars, progress, seenVars,
                 sendVars, toClient, losses, dups, envVars>>

(* qcn-retransmit!: what is still outstanding, as quic_client.prn judges it.
   The stored Finished packet keeps the ACK it was built with. *)
LastFlightWithoutRequest ==
  {Sent("CH", {}) : x \in {gotHs} \cap {FALSE}}
    \cup (IF gotApp \/ confirmed THEN {} ELSE fin)
LastFlight ==
  {Sent("CH", {}) : x \in {gotHs} \cap {FALSE}}
    \cup (IF gotApp \/ confirmed THEN {} ELSE fin)
    \cup {REQ : x \in {sentApp /\ Have(got[2]) = 0} \cap {TRUE}}

(* qcn-timers!, its four outcomes. *)
TimersUnchanged == <<dgram, open, tlsVars, streamVars, ackPending, h3Vars, seenVars, sentApp,
                     toClient, losses, dups, envVars>>

TimersDeadline ==
  /\ pc = "timers" /\ pc' = "idle" /\ late
  /\ status' = Fail(-1)
  /\ UNCHANGED <<TimersUnchanged, progress, retries, toServer, icmp>>

TimersProgress ==
  /\ pc = "timers" /\ pc' = "idle" /\ ~late /\ progress
  /\ progress' = FALSE /\ retries' = 0
  /\ UNCHANGED <<TimersUnchanged, status, toServer, icmp>>

TimersWait ==
  /\ pc = "timers" /\ pc' = "idle" /\ ~late /\ ~progress
  /\ UNCHANGED <<TimersUnchanged, status, progress, retries, toServer, icmp>>

GivesUp(n) == n > MaxRetries

Probe ==
  /\ pc = "timers" /\ pc' = "idle" /\ ~late /\ ~progress /\ status = 0
  /\ Calm => toServer = {} \* nothing was sent in this pump
  /\ Transmit(LastFlight)
  /\ retries' = retries + 1
  /\ status' = IF GivesUp(retries') THEN Fail(-1) ELSE status
  /\ UNCHANGED <<TimersUnchanged, progress>>

(* quic-close: a CONNECTION_CLOSE if there are 1-RTT keys. *)
Close ==
  /\ pc = "idle" /\ MayClose /\ open
  /\ Transmit({Sent("CLOSE", {}) : x \in keys \cap {2}})
  /\ open' = FALSE
  /\ UNCHANGED <<pc, dgram, status, tlsVars, streamVars, ackPending, h3Vars, progress, seenVars,
                 sendVars, toClient, losses, dups, envVars>>

-----------------------------------------------------------------------------
(* The world.  Once the transfer is over nothing it does reaches the client. *)
World == pc = "idle" /\ status = 0

ServerSend(d) ==
  /\ World /\ Answers(d)
  /\ toClient' = toClient \cup {d}
  /\ server' = [server EXCEPT !.early  = @ \/ d = <<EARLY>>,
                              !.credit = IF @ > 0 THEN @ - 1 ELSE 0]
  /\ UNCHANGED <<pc, clientVars, toServer, icmp, losses, dups, peer, late>>

(* The server reads 1-RTT packets only once it has the client's Finished. *)
ServerRecv(m) ==
  /\ World /\ m \in toServer
  /\ toServer' = toServer \ {m}
  /\ LET finished  == server.finished \/ m.k = "FIN"
         handshake == server.handshake \/ m.k \in {"FIN", "ACK1"}
         readable  == finished \/ m.k \in {"CH", "ACK0", "ACK1"}
     IN server' = [server EXCEPT
          !.hello     = @ \/ m.k = "CH",
          !.finished  = finished,
          !.handshake = handshake,
          !.request   = @ \/ (finished /\ m.k = "REQ"),
          !.acked     = IF readable THEN @ \cup m.acks ELSE @,
          !.credit    = IF handshake THEN 0 ELSE Smaller(@ + AmpFactor, 2 * AmpFactor)]
  /\ UNCHANGED <<pc, clientVars, toClient, icmp, losses, dups, peer, late>>

Lose ==
  /\ World /\ losses < MaxLosses /\ losses' = losses + 1
  /\ \/ \E d \in toClient : toClient' = toClient \ {d} /\ UNCHANGED toServer
     \/ \E m \in toServer : toServer' = toServer \ {m} /\ UNCHANGED toClient
  /\ UNCHANGED <<pc, clientVars, icmp, dups, envVars>>

Unreachable ==
  /\ World /\ MayRefuse /\ ~icmp /\ icmp' = TRUE
  /\ UNCHANGED <<pc, clientVars, toClient, toServer, losses, dups, envVars>>

DeadlinePasses ==
  /\ Deadline /\ status = 0 /\ ~late /\ late' = TRUE
  /\ UNCHANGED <<pc, clientVars, netVars, peer, server>>

-----------------------------------------------------------------------------
Pump ==
  \/ PumpBegin \/ RecvPacket \/ DrainEnd
  \/ \E d \in toClient : RecvDatagram(d)
  \/ TlsStep \/ SendApp \/ H3Parse \/ Complete \/ FlushAcks
  \/ TimersDeadline \/ TimersProgress \/ TimersWait \/ Probe

Next ==
  \/ Pump \/ Close
  \/ \E d \in Datagrams : ServerSend(d)
  \/ \E m \in toServer : ServerRecv(m)
  \/ Lose \/ Unreachable \/ DeadlinePasses

Spec == Init /\ [][Next]_vars

(* The host pumps once per frame and a pump runs to its end; the clock runs. *)
HostFairness == WF_vars(Pump) /\ WF_vars(DeadlinePasses)

(* Beyond that, the probe timer fires, the server answers and the network
   delivers what it does not lose (MaxLosses bounds that). *)
WorldFairness ==
  /\ SF_vars(Probe)
  /\ WF_vars(\E d \in Datagrams : ServerSend(d))
  /\ WF_vars(\E m \in toServer : ServerRecv(m))
LiveSpec == Spec /\ HostFairness /\ WorldFairness

-----------------------------------------------------------------------------
(* The slots hold what the program keeps in them; in particular the probes
   never outnumber the retry budget by more than the one that ends it. *)
TypeOK ==
  /\ pc \in {"idle", "drain", "tls", "app", "parse", "complete", "acks", "timers"}
  /\ dgram \in Seq(ServerPackets) /\ Len(dgram) <= 2
  /\ status \in -6 .. 1 /\ stage \in 0 .. 5 /\ keys \subseteq 0 .. 2
  /\ got[0] \subseteq {0} /\ got[1] \subseteq 0 .. (HsLen - 1)
  /\ got[2] \subseteq 0 .. (RespLen - 1)
  /\ DOMAIN got = 0 .. 2
  /\ noted \in [0 .. 2 -> SUBSET ServerPackets]
  /\ ackPending \subseteq 0 .. 2
  /\ finAt \in {-1, RespLen} /\ parsed \in 0 .. RespLen
  /\ {http, progress, gotHs, gotApp, confirmed, sentApp, open, icmp, late} \subseteq BOOLEAN
  /\ Cardinality(fin) <= 1 /\ retries \in 0 .. (MaxRetries + 1)
  /\ peer \in Peers
  /\ losses \in 0 .. MaxLosses /\ dups \in 0 .. MaxDups

(* A status once given never changes (qcn-fail! keeps the first): in the pump
   that ends the transfer the acknowledgements are still flushed, the timers
   still run and more packets of the same drain are still processed. *)
StatusIsFinal == [][status # 0 => status' = status]_vars

(* What a packet carried is in the reassembly buffers whenever the client has
   told the server it arrived, in an ACK still under way or in one retransmitted
   with the Finished; while the transfer can still succeed (a response beyond
   the buffer is acknowledged by the pump that fails it). *)
Acknowledged == server.acked \cup UNION {m.acks : m \in toServer}
AckedIsHeld ==
  status >= 0 => \A p \in Acknowledged : Units(p) \subseteq got[Space(p)]

(* "We never heard back": a port-unreachable error kills no connection that a
   server has answered. *)
RefusedMeansSilent == status = -6 => \A s \in 0 .. 2 : noted[s] = {}

(* A response larger than the buffer never completes. *)
TooBigFailsClosed == RespLen > BodyRoom => status # 1

(* What the host is promised: see HttpGet. *)
Promise == INSTANCE HttpGet WITH
  Length        <- RespLen,
  genuine       <- peer \in {"good", "closes", "badStatus", "truncated", "oversized"},
  authenticated <- stage = 5,
  asked         <- sentApp,
  body          <- parsed,
  sealed        <- finAt >= 0,
  result        <- status
ImplementsHttpGet == Promise!Spec

(* "Probe-timeout retransmission of the last flight" (quic_client.prn:13): a
   server that answers is heard, losses within the retry budget delay the
   response but do not prevent it. *)
Completes == <>(status = 1)
=============================================================================
