--------------------------- MODULE QuicClientProofs --------------------------
(***************************************************************************)
(* Proofs about QuicClient, for every kind of server, every division of    *)
(* its data into frames, every buffer and every bound on what the network  *)
(* may do.                                                                 *)
(***************************************************************************)
EXTENDS QuicClient, DataLemmas, FiniteSetTheorems

(* The inductive invariant. *)
Typed ==
  /\ TypeOK
  /\ got \in [0 .. 2 -> SUBSET Nat]
  /\ toClient \subseteq Datagrams

(* Keys come in order: the Handshake keys behind a ServerHello, the 1-RTT keys
   with the verified Finished. *)
Keyed ==
  /\ 2 \in keys <=> stage = 5
  /\ 1 \in keys \/ 2 \in keys => 0 \in got[0]

(* What was heard, and what that says of the packets noted; a refused port has
   ended its drain and has heard nothing. *)
Heard ==
  /\ \A s \in {1, 2} : noted[s] # {} => 0 \in got[0]
  /\ 0 \in got[0] => noted[0] # {}
  /\ got[2] # {} => stage = 5
  /\ status = -6 => pc # "drain" /\ \A s \in 0 .. 2 : noted[s] = {}

(* The parser stops at the end of a frame inside the prefix of a response that
   was asked for. *)
Parsing ==
  /\ parsed \in FrameEnds \cup {0} /\ parsed <= Have(got[2])
  /\ parsed > 0 => sentApp
  /\ pc = "parse" /\ status = 0 /\ stage = 5 => sentApp
  /\ peer = "oversized" => finAt = -1

(* Nothing is heard from a server that insists on a Retry. *)
RetryOnly ==
  peer = "retry" => /\ got[0] = {}
                    /\ toClient \subseteq {<<RETRY>>}
                    /\ \A i \in 1 .. Len(dgram) : dgram[i] = RETRY

(* A transfer in progress has probes left. *)
Budget == status = 0 => retries <= MaxRetries

IInv == Typed /\ Keyed /\ Heard /\ Parsing /\ RetryOnly /\ Budget

-----------------------------------------------------------------------------
(* The prefix of a set of units is where it first has none. *)
LEMMA HaveIs ==
  ASSUME NEW n \in Nat, NEW S \in SUBSET (0 .. (n - 1))
  PROVE  Have(S) \in 0 .. n /\ Have(S) \notin S /\ \A u \in 0 .. (Have(S) - 1) : u \in S
<1>1. IsFiniteSet(S)
  <2>1. 0 \in Int /\ n - 1 \in Int
    OBVIOUS
  <2>2. IsFiniteSet(0 .. (n - 1))
    BY <2>1, FS_Interval
  <2> QED
    BY <2>2, FS_Subset
<1>2. Cardinality(S) \in Nat
  BY <1>1, FS_CardinalityType
<1> DEFINE C == {h \in Nat : h \notin S}
<1>3. n \in C
  OBVIOUS
<1>4. PICK m \in C : \A k \in C : m <= k
  <2>1. C \in SUBSET Nat /\ C # {}
    BY <1>3
  <2> HIDE DEF C
  <2> QED
    BY <2>1, LeastElement
<1>5. \A u \in 0 .. (m - 1) : u \in S
  BY <1>4
<1>6. m <= Cardinality(S)
  <2>1. 0 .. (m - 1) \subseteq S
    BY <1>5
  <2>2. Cardinality(0 .. (m - 1)) <= Cardinality(S)
    BY <1>1, <2>1, FS_Subset
  <2>3. m \in Nat
    BY <1>4
  <2>4. Cardinality(0 .. (m - 1)) = m
    <3>1. 0 \in Int /\ m - 1 \in Int
      BY <2>3
    <3>2. Cardinality(0 .. (m - 1)) = IF 0 > m - 1 THEN 0 ELSE ((m - 1) - 0) + 1
      BY <3>1, FS_Interval
    <3> QED
      BY <2>3, <3>2
  <2> QED
    BY <2>2, <2>4
<1>7. m \in 0 .. Cardinality(S) /\ m \notin S /\ \A u \in 0 .. (m - 1) : u \in S
  BY <1>2, <1>4, <1>5, <1>6
<1>8. /\ Have(S) \in 0 .. Cardinality(S) /\ Have(S) \notin S
      /\ \A u \in 0 .. (Have(S) - 1) : u \in S
  BY <1>7 DEF Have
<1>9. Have(S) <= n
  <2> SUFFICES ASSUME Have(S) > n PROVE FALSE
    BY <1>2, <1>8
  <2>1. n \in 0 .. (Have(S) - 1)
    BY <1>2, <1>8
  <2> QED
    BY <1>8, <2>1
<1> QED
  BY <1>2, <1>8, <1>9

(* What arrives never shortens the prefix. *)
LEMMA HaveGrows ==
  ASSUME NEW n \in Nat, NEW S \in SUBSET (0 .. (n - 1)), NEW T \in SUBSET (0 .. (n - 1)), S \subseteq T
  PROVE  Have(S) <= Have(T)
<1>1. Have(S) \in 0 .. n /\ \A u \in 0 .. (Have(S) - 1) : u \in S
  BY HaveIs
<1>2. Have(T) \in 0 .. n /\ Have(T) \notin T
  BY HaveIs
<1> QED
  BY <1>1, <1>2

(* The parser goes to the end of the last frame inside the prefix. *)
LEMMA ParsedIs ==
  ASSUME NEW have \in Nat
  PROVE  /\ ParsedUpTo(have) \in FrameEnds \cup {0} /\ ParsedUpTo(have) <= have
         /\ \A x \in FrameEnds : x <= have => x <= ParsedUpTo(have)
<1> DEFINE E == {e \in FrameEnds \cup {0} : e <= have}
<1>1. FrameEnds \subseteq 1 .. RespLen /\ RespLen \in Nat
  BY ConstantsAssumption DEF FrameEnds
<1>2. E \in SUBSET (0 .. RespLen) /\ E # {}
  <2>1. 0 \in E
    OBVIOUS
  <2>2. ASSUME NEW e \in E PROVE e \in 0 .. RespLen
    BY <1>1, <2>2
  <2> HIDE DEF E
  <2> QED
    BY <2>1, <2>2
<1>3. Max(E) \in E /\ \A x \in E : x <= Max(E)
  <2> HIDE DEF E
  <2> QED
    BY <1>1, <1>2, MaxIsGreatest
<1>4. \E e \in FrameEnds \cup {0} : e <= have /\ \A x \in FrameEnds : x <= have => x <= e
  BY <1>3
<1> QED
  BY <1>4 DEF ParsedUpTo

(* What each packet of the server carries, and for which packet number space. *)
LEMMA PacketIs ==
  ASSUME NEW p \in ServerPackets
  PROVE  /\ p.k \in {"SH", "HS", "RESP", "EARLY", "DONE", "CLOSE", "RETRY"}
         /\ p.lo \in Nat /\ p.hi \in Nat
         /\ p.k = "SH" => Space(p) = 0 /\ Units(p) = {0} /\ p.lo = 0 /\ p.hi = 1
         /\ p.k = "HS" => Space(p) = 1 /\ Units(p) \subseteq 0 .. (HsLen - 1) /\ p.hi <= HsLen
         /\ p.k = "RESP" => Space(p) = 2 /\ Units(p) \subseteq 0 .. (RespLen - 1)
         /\ p.k \in {"EARLY", "DONE", "CLOSE"} => Space(p) = 2 /\ Units(p) = {}
         /\ p.k = "RETRY" => Space(p) = -1 /\ Units(p) = {}
<1>1. CASE p = SH
  BY <1>1 DEF SH, Packet, Space, Units
<1>2. CASE p \in {EARLY, DONE, CLOSE, RETRY}
  BY <1>2 DEF EARLY, DONE, CLOSE, RETRY, Packet, Space, Units
<1>3. CASE \E f \in HsFrames : p = HS(f)
  <2>1. PICK f \in HsFrames : p = HS(f)
    BY <1>3
  <2>2. f.lo \in 0 .. (HsLen - 1) /\ f.hi \in 1 .. HsLen
    BY ConstantsAssumption
  <2>3. p.k = "HS" /\ p.lo = f.lo /\ p.hi = f.hi
    BY <2>1 DEF HS, Packet
  <2> QED
    BY <2>2, <2>3 DEF Space, Units, HsLen
<1>4. CASE \E f \in RespFrames : p = RESP(f)
  <2>1. PICK f \in RespFrames : p = RESP(f)
    BY <1>4
  <2>2. f.lo \in 0 .. (RespLen - 1) /\ f.hi \in 1 .. RespLen /\ RespLen \in Nat
    BY ConstantsAssumption
  <2>3. p.k = "RESP" /\ p.lo = f.lo /\ p.hi = f.hi
    BY <2>1 DEF RESP, Packet
  <2> QED
    BY <2>2, <2>3 DEF Space, Units
<1> QED
  BY <1>1, <1>2, <1>3, <1>4 DEF ServerPackets

(* A datagram is one packet or two, a Retry always alone. *)
LEMMA DatagramIs ==
  ASSUME NEW d \in Datagrams
  PROVE  /\ d \in Seq(ServerPackets) /\ Len(d) <= 2
         /\ Head(d) \in ServerPackets
         /\ Head(d).k = "RETRY" => d = <<RETRY>>
<1>1. CASE \E p \in ServerPackets : d = <<p>>
  <2>1. PICK p \in ServerPackets : d = <<p>>
    BY <1>1
  <2>2. d \in Seq(ServerPackets) /\ Len(d) = 1 /\ Head(d) = p /\ Tail(d) = <<>>
    BY <2>1
  <2>3. p.k = "RETRY" => p = RETRY
    BY DEF ServerPackets, SH, EARLY, DONE, CLOSE, HS, RESP, Packet
  <2> QED
    BY <2>2, <2>3
<1>2. CASE \E f \in HsFrames : d = <<SH, HS(f)>>
  <2>1. PICK f \in HsFrames : d = <<SH, HS(f)>>
    BY <1>2
  <2>2. SH \in ServerPackets /\ HS(f) \in ServerPackets
    BY DEF ServerPackets
  <2>3. d \in Seq(ServerPackets) /\ Len(d) = 2 /\ Head(d) = SH
    BY <2>1, <2>2
  <2>4. SH.k # "RETRY"
    BY DEF SH, Packet
  <2> QED
    BY <2>2, <2>3, <2>4
<1> QED
  BY <1>1, <1>2 DEF Datagrams, Coalesced

(* The first failure is the one that stays. *)
LEMMA FailIs ==
  ASSUME status \in -6 .. 1, NEW c \in -6 .. -1
  PROVE  Fail(c) \in -6 .. 1 /\ (status # 0 => Fail(c) = status) /\ (status = 0 => Fail(c) = c)
BY DEF Fail

(* Sending adds to what is on its way, or meets a refused port. *)
LEMMA TransmitIs ==
  ASSUME NEW P, Transmit(P), icmp \in BOOLEAN
  PROVE  icmp' \in BOOLEAN /\ toServer' \subseteq toServer \cup P
BY DEF Transmit

-----------------------------------------------------------------------------
(* What accepting a packet records and notes. *)
Recorded(p) == \A s \in 0 .. 2 : /\ got[s] \subseteq got'[s]
                                 /\ got'[s] # got[s] => /\ s = Space(p) /\ Units(p) # {}
                                                        /\ got'[s] \subseteq got[s] \cup Units(p)
Noted(p) == \A s \in 0 .. 2 : /\ noted[s] \subseteq noted'[s]
                              /\ noted'[s] # noted[s] => s = Space(p)
                              /\ noted'[s] \subseteq noted[s] \cup {p}

(* Recording a packet keeps the buffers typed, and holds its data unless refused. *)
LEMMA RecordIs ==
  ASSUME Typed, NEW p \in ServerPackets, Space(p) \in 0 .. 2, NEW refused \in BOOLEAN, Record(p, refused)
  PROVE  /\ got' \in [0 .. 2 -> SUBSET Nat] /\ Recorded(p)
         /\ ~refused => Units(p) \subseteq got'[Space(p)]
<1>1. got \in [0 .. 2 -> SUBSET Nat] /\ Units(p) \subseteq Nat
  BY PacketIs DEF Typed, Units
<1>2. CASE refused
  BY <1>1, <1>2 DEF Record, Recorded
<1>3. CASE ~refused
  <2>1. got' = [got EXCEPT ![Space(p)] = @ \cup Units(p)]
    BY <1>3 DEF Record
  <2> HIDE DEF Record
  <2>2. \A s \in 0 .. 2 : got'[s] = IF s = Space(p) THEN got[s] \cup Units(p) ELSE got[s]
    BY <1>1, <2>1
  <2>3. got' \in [0 .. 2 -> SUBSET Nat]
    BY <1>1, <2>1
  <2> QED
    BY <2>2, <2>3 DEF Recorded
<1> QED
  BY <1>2, <1>3

(* Noting it keeps the ranges typed; a refused packet is not noted. *)
LEMMA NoteIs ==
  ASSUME Typed, NEW p \in ServerPackets, Space(p) \in 0 .. 2, NEW refused \in BOOLEAN, Note(p, refused)
  PROVE  /\ noted' \in [0 .. 2 -> SUBSET ServerPackets] /\ Noted(p)
         /\ ~refused => p \in noted'[Space(p)]
         /\ refused => noted' = noted
<1>1. noted \in [0 .. 2 -> SUBSET ServerPackets]
  BY DEF Typed, TypeOK
<1>2. CASE refused
  BY <1>1, <1>2 DEF Note, Noted
<1>3. CASE ~refused
  <2>1. noted' = [noted EXCEPT ![Space(p)] = @ \cup {p}]
    BY <1>3 DEF Note
  <2>2. \A s \in 0 .. 2 : noted'[s] = IF s = Space(p) THEN noted[s] \cup {p} ELSE noted[s]
    BY <1>1, <2>1
  <2>3. noted' \in [0 .. 2 -> SUBSET ServerPackets]
    BY <1>1, <2>1
  <2> QED
    BY <1>3, <2>2, <2>3 DEF Noted
<1> QED
  BY <1>2, <1>3

(* Accepting a packet: a ServerHello is always recorded, the final size is
   learnt only from a frame that fits, and in a step that leaves the status as
   it is. *)
LEMMA AcceptIs ==
  ASSUME Typed, NEW p \in ServerPackets, Space(p) \in keys, NEW refused \in BOOLEAN, Accept(p, refused)
  PROVE  /\ got' \in [0 .. 2 -> SUBSET Nat] /\ Recorded(p)
         /\ noted' \in [0 .. 2 -> SUBSET ServerPackets] /\ Noted(p)
         /\ Space(p) = 0 => got'[0] = {0} /\ noted'[0] # {}
         /\ status' \in {status, Fail(-4), Fail(-5)}
         /\ finAt' # finAt => /\ finAt' = RespLen /\ RespLen <= BodyRoom
                              /\ status' = status /\ Space(p) = 2
         /\ {progress', gotHs', gotApp', confirmed'} \subseteq BOOLEAN
         /\ ackPending' \in SUBSET (0 .. 2)
<1>1. /\ got \in [0 .. 2 -> SUBSET Nat] /\ got[0] \subseteq {0}
      /\ {progress, gotHs, gotApp, confirmed} \subseteq BOOLEAN
      /\ ackPending \in SUBSET (0 .. 2) /\ keys \in SUBSET (0 .. 2)
      /\ noted \in [0 .. 2 -> SUBSET ServerPackets]
  BY DEF Typed, TypeOK
<1>2. Space(p) \in 0 .. 2
  BY <1>1
<1>3. /\ noted' \in [0 .. 2 -> SUBSET ServerPackets] /\ Noted(p)
      /\ ~refused => p \in noted'[Space(p)]
  BY <1>2, NoteIs DEF Accept
<1>4. {gotHs', gotApp'} \subseteq BOOLEAN /\ ackPending' \in SUBSET (0 .. 2)
  BY <1>1, <1>2 DEF Accept
<1>5. CASE p.k = "SH"
  <2>1. ~refused
    <3>1. p.lo = 0 /\ got[0] \in SUBSET (0 .. (1 - 1)) /\ Space(p) = 0
      BY <1>1, <1>5, PacketIs
    <3>2. Have(got[0]) \in 0 .. 1
      BY <3>1, HaveIs
    <3>3. ~ MayNotFit(p)
      BY <3>1, <3>2 DEF MayNotFit
    <3> QED
      BY <3>3 DEF Accept
  <2>2. Space(p) = 0 /\ Units(p) = {0}
    BY <1>5, PacketIs
  <2>3. Record(p, refused) /\ progress' = TRUE /\ UNCHANGED <<status, finAt, confirmed>>
    BY <1>5, <2>2 DEF Accept, CryptoIn
  <2>4. /\ got' \in [0 .. 2 -> SUBSET Nat] /\ Recorded(p)
        /\ Units(p) \subseteq got'[Space(p)]
    BY <1>2, <2>1, <2>3, RecordIs
  <2>5. got'[0] = {0}
    BY <1>1, <2>2, <2>4 DEF Recorded
  <2> QED
    BY <1>1, <1>3, <1>4, <2>1, <2>2, <2>3, <2>4, <2>5
<1>6. CASE p.k = "HS"
  <2>1. Space(p) = 1
    BY <1>6, PacketIs
  <2>2. CryptoIn(p, refused)
    BY <1>6 DEF Accept
  <2>3. got' = got \/ Record(p, refused)
    BY <2>2 DEF CryptoIn
  <2>4. got' \in [0 .. 2 -> SUBSET Nat] /\ Recorded(p)
    BY <1>1, <1>2, <2>3, RecordIs DEF Recorded
  <2>5. UNCHANGED <<status, finAt, confirmed>> /\ progress' \in BOOLEAN
    BY <1>1, <2>2 DEF CryptoIn
  <2> QED
    BY <1>1, <1>3, <1>4, <2>1, <2>4, <2>5
<1>7. CASE p.k = "RESP"
  <2>1. Space(p) = 2
    BY <1>7, PacketIs
  <2>2. StreamIn(p, refused)
    BY <1>7 DEF Accept
  <2>3. got' = got \/ Record(p, refused)
    BY <2>2 DEF StreamIn
  <2>4. got' \in [0 .. 2 -> SUBSET Nat] /\ Recorded(p)
    BY <1>1, <1>2, <2>3, RecordIs DEF Recorded
  <2>5. /\ confirmed' = confirmed /\ progress' \in BOOLEAN /\ status' \in {status, Fail(-5)}
        /\ finAt' # finAt => finAt' = RespLen /\ p.hi = RespLen /\ ~(p.hi > BodyRoom) /\ status' = status
    BY <1>1, <2>2 DEF StreamIn
  <2>6. finAt' # finAt => RespLen <= BodyRoom
    BY <2>5, ConstantsAssumption DEF BodyRoom
  <2> QED
    BY <1>1, <1>3, <1>4, <2>1, <2>4, <2>5, <2>6
<1>8. CASE p.k \in {"EARLY", "DONE", "CLOSE"}
  <2>1. Space(p) = 2
    BY <1>8, PacketIs
  <2>2. Control(p)
    BY <1>8 DEF Accept
  <2>3. /\ UNCHANGED <<got, progress, finAt>> /\ status' \in {status, Fail(-4)}
        /\ confirmed' \in BOOLEAN
    BY <1>1, <2>2 DEF Control
  <2>4. Recorded(p)
    BY <2>3 DEF Recorded
  <2> QED
    BY <1>1, <1>3, <1>4, <2>1, <2>3, <2>4
<1>9. p.k # "RETRY"
  BY <1>2, PacketIs
<1> QED
  BY <1>5, <1>6, <1>7, <1>8, <1>9, PacketIs

-----------------------------------------------------------------------------
(* Each step keeps the invariant.  First those that leave what it speaks of. *)
Core == <<stage, keys, streamVars, parsed, sentApp, peer>>
Queues == <<dgram, toClient>>

(* A step that hears nothing keeps the invariant if the status is set once. *)
LEMMA StillKeeps ==
  ASSUME IInv, Typed', UNCHANGED <<Core, Queues>>,
         status' # status => status' # -6,
         pc' # pc => pc' # "parse" /\ (pc' = "drain" => status' # -6),
         status = 0 \/ status' = status,
         Budget'
  PROVE  IInv'
<1> USE DEF Core, Queues, streamVars
<1>1. Keyed' /\ RetryOnly'
  BY DEF IInv, Keyed, RetryOnly
<1>2. Heard'
  BY DEF IInv, Heard
<1>3. Parsing'
  BY DEF IInv, Parsing, FrameEnds
<1> QED
  BY <1>1, <1>2, <1>3 DEF IInv

(* Entering the pump. *)
LEMMA BeginKeeps ==
  ASSUME IInv, PumpBegin
  PROVE  IInv'
<1> USE DEF PumpBegin, clientVars, tlsVars, streamVars, h3Vars, seenVars, sendVars, netVars, envVars
<1>1. Typed'
  BY DEF IInv, Typed, TypeOK, Datagrams
<1> QED
  BY <1>1, StillKeeps DEF IInv, Budget, Core, Queues

(* Sending the request. *)
LEMMA SendAppKeeps ==
  ASSUME IInv, SendApp
  PROVE  IInv'
<1> USE DEF SendApp, tlsVars, streamVars, h3Vars, seenVars, envVars
<1>0. icmp' \in BOOLEAN
  <2>1. icmp \in BOOLEAN
    BY DEF IInv, Typed, TypeOK
  <2> QED
    BY <2>1, TransmitIs
<1>1. Typed'
  BY <1>0 DEF IInv, Typed, TypeOK, Datagrams
<1>2. Keyed' /\ Heard' /\ RetryOnly' /\ Budget'
  BY DEF IInv, Keyed, Heard, RetryOnly, Budget
<1>3. Parsing'
  <2>1. sentApp => sentApp'
    OBVIOUS
  <2>2. status = 0 /\ stage = 5 => sentApp'
    BY DEF MaySendApp, IInv, Keyed
  <2> QED
    BY <2>1, <2>2 DEF IInv, Parsing, FrameEnds
<1> QED
  BY <1>1, <1>2, <1>3 DEF IInv

(* Parsing takes whole frames of the response, of a transfer in progress. *)
LEMMA ParseKeeps ==
  ASSUME IInv, H3Parse
  PROVE  /\ IInv' /\ parsed' \in parsed .. RespLen
         /\ parsed' # parsed => status = 0 /\ sentApp
<1> USE DEF H3Parse, tlsVars, streamVars, seenVars, sendVars, netVars, envVars
<1>0. /\ parsed \in 0 .. RespLen /\ got[2] \in SUBSET (0 .. (RespLen - 1)) /\ RespLen \in Nat
      /\ parsed \in FrameEnds \cup {0} /\ parsed <= Have(got[2]) /\ http \in BOOLEAN
  BY ConstantsAssumption DEF IInv, Typed, TypeOK, Parsing
<1>1. Have(got[2]) \in 0 .. RespLen /\ \A u \in 0 .. (Have(got[2]) - 1) : u \in got[2]
  BY <1>0, HaveIs
<1> DEFINE to == ParsedUpTo(Have(got[2]))
<1>2. /\ to \in FrameEnds \cup {0} /\ to <= Have(got[2])
      /\ \A x \in FrameEnds : x <= Have(got[2]) => x <= to
  BY <1>1, ParsedIs
<1>3. FrameEnds \subseteq 1 .. RespLen
  BY ConstantsAssumption DEF FrameEnds
<1>4. to \in parsed .. RespLen
  <2> DEFINE have == Have(got[2])
  <2>1. have \in 0 .. RespLen /\ parsed <= have
    BY <1>0, <1>1
  <2>2. /\ to \in FrameEnds \cup {0} /\ to <= have
        /\ parsed \in FrameEnds => parsed <= to
    BY <1>2, <2>1
  <2> HIDE DEF have, to
  <2> QED
    BY <1>0, <1>3, <2>1, <2>2
<1>5. parsed' \in {parsed, to} /\ (parsed' # parsed => status = 0 /\ parsed' = to) /\ http' \in BOOLEAN
  BY <1>0 DEF h3Vars
<1>6. parsed' # parsed => sentApp
  <2> SUFFICES ASSUME parsed' # parsed PROVE sentApp
    OBVIOUS
  <2>1. 0 < Have(got[2])
    BY <1>0, <1>1, <1>2, <1>4, <1>5
  <2>2. 0 \in got[2]
    BY <1>1, <2>1
  <2>3. stage = 5
    BY <2>2 DEF IInv, Heard
  <2> QED
    BY <1>5, <2>3 DEF IInv, Parsing
<1> HIDE DEF to
<1>7. parsed' \in parsed .. RespLen /\ parsed' \in 0 .. RespLen
  BY <1>0, <1>4, <1>5
<1>8. Typed'
  BY <1>5, <1>7 DEF IInv, Typed, TypeOK, Datagrams
<1>9. Keyed' /\ Heard' /\ RetryOnly' /\ Budget'
  BY DEF IInv, Keyed, Heard, RetryOnly, Budget, h3Vars
<1>10. Parsing'
  BY <1>0, <1>2, <1>5, <1>6 DEF IInv, Parsing, FrameEnds
<1> QED
  BY <1>5, <1>6, <1>7, <1>8, <1>9, <1>10 DEF IInv

(* Success needs the whole response, its end known, a status and a request. *)
LEMMA CompleteKeeps ==
  ASSUME IInv, Complete
  PROVE  /\ IInv'
         /\ status' # status => status = 0 /\ status' \in {1, -5}
         /\ status' # status /\ status' = 1 =>
              /\ finAt = RespLen /\ parsed = RespLen /\ sentApp /\ peer # "oversized"
<1> USE DEF Complete, tlsVars, streamVars, seenVars, sendVars, h3Vars, netVars, envVars
<1>1. status' # status => status = 0 /\ status' \in {1, -5} /\ IsComplete
  BY DEF Fail
<1>2. finAt \in {-1, RespLen} /\ RespLen \in Nat \ {0}
  BY ConstantsAssumption DEF IInv, Typed, TypeOK
<1>3. IsComplete => finAt = RespLen /\ parsed = RespLen
  BY <1>2 DEF IsComplete
<1>4. IsComplete => sentApp /\ peer # "oversized"
  BY <1>2, <1>3 DEF IInv, Parsing
<1>5. status' \in -6 .. 1
  BY <1>1 DEF IInv, Typed, TypeOK
<1>6. Typed'
  BY <1>5 DEF IInv, Typed, TypeOK, Datagrams
<1>7. IInv'
  BY <1>1, <1>6, StillKeeps DEF IInv, Budget, Core, Queues
<1> QED
  BY <1>1, <1>3, <1>4, <1>7

(* Sending acknowledgements. *)
LEMMA FlushKeeps ==
  ASSUME IInv, FlushAcks
  PROVE  IInv'
<1> USE DEF FlushAcks, tlsVars, streamVars, seenVars, sendVars, h3Vars, envVars
<1>0. icmp' \in BOOLEAN
  <2>1. icmp \in BOOLEAN
    BY DEF IInv, Typed, TypeOK
  <2> QED
    BY <2>1, TransmitIs
<1>1. Typed'
  BY <1>0 DEF IInv, Typed, TypeOK, Datagrams
<1> QED
  BY <1>1, StillKeeps DEF IInv, Budget, Core, Queues

(* A probe beyond the budget ends the transfer. *)
LEMMA TimersKeep ==
  ASSUME IInv, TimersDeadline \/ TimersProgress \/ TimersWait \/ Probe
  PROVE  /\ IInv' /\ UNCHANGED <<Core, Queues>>
         /\ status' # status => status = 0 /\ status' = -1
<1> USE DEF TimersUnchanged, tlsVars, streamVars, seenVars, h3Vars, envVars
<1>1. /\ status \in -6 .. 1 /\ retries \in 0 .. (MaxRetries + 1) /\ icmp \in BOOLEAN
      /\ progress \in BOOLEAN /\ MaxRetries \in Nat
      /\ status = 0 => retries <= MaxRetries
  BY ConstantsAssumption DEF IInv, Typed, TypeOK, Budget
<1>2. /\ UNCHANGED <<Core, Queues, open, fin, ackPending, http, seenVars, losses, dups, envVars>>
      /\ pc' = "idle"
  BY DEF TimersDeadline, TimersProgress, TimersWait, Probe, Core, Queues
<1>3. progress' \in BOOLEAN /\ icmp' \in BOOLEAN
  <2>1. CASE Probe
    <3>1. icmp' \in BOOLEAN
      BY <1>1, <2>1, TransmitIs DEF Probe
    <3> QED
      BY <1>1, <2>1, <3>1 DEF Probe
  <2> QED
    BY <1>1, <2>1 DEF TimersDeadline, TimersProgress, TimersWait
<1>4. /\ status' \in {status, Fail(-1)}
      /\ retries' \in {retries, 0} \/ (retries' = retries + 1 /\ status = 0)
      /\ status' = 0 => retries' \in {retries, 0} \/ ~GivesUp(retries')
  <2>1. Fail(-1) # 0
    BY DEF Fail
  <2> QED
    BY <2>1 DEF TimersDeadline, TimersProgress, TimersWait, Probe
<1>5. /\ status' \in -6 .. 1 /\ (status' # status => status = 0 /\ status' = -1)
      /\ retries' \in 0 .. (MaxRetries + 1) /\ (status' = 0 => retries' <= MaxRetries)
  BY <1>1, <1>4 DEF Fail, GivesUp
<1>6. Typed'
  BY <1>2, <1>3, <1>5 DEF IInv, Typed, TypeOK, Datagrams, Core, Queues
<1>7. Budget'
  BY <1>5 DEF Budget
<1>8. IInv'
  BY <1>2, <1>5, <1>6, <1>7, StillKeeps
<1> QED
  BY <1>2, <1>5, <1>8

(* quic-close. *)
LEMMA CloseKeeps ==
  ASSUME IInv, Close
  PROVE  IInv'
<1> USE DEF Close, tlsVars, streamVars, seenVars, sendVars, h3Vars, envVars
<1>0. icmp' \in BOOLEAN
  <2>1. icmp \in BOOLEAN
    BY DEF IInv, Typed, TypeOK
  <2> QED
    BY <2>1, TransmitIs
<1>1. Typed'
  BY <1>0 DEF IInv, Typed, TypeOK, Datagrams
<1> QED
  BY <1>1, StillKeeps DEF IInv, Budget, Core, Queues

-----------------------------------------------------------------------------
(* The socket.  A datagram of a server that insists on a Retry is a Retry. *)
LEMMA RecvDatagramKeeps ==
  ASSUME IInv, NEW d \in toClient, RecvDatagram(d)
  PROVE  IInv'
<1>1. toClient \subseteq Datagrams /\ dups \in 0 .. MaxDups /\ MaxDups \in Nat
  BY ConstantsAssumption DEF IInv, Typed, TypeOK
<1>2. d \in Seq(ServerPackets) /\ Len(d) <= 2
  <2>1. d \in Datagrams
    BY <1>1
  <2> QED
    BY <2>1, DatagramIs
<1> USE DEF RecvDatagram, tlsVars, streamVars, h3Vars, seenVars, sendVars, envVars
<1>3. toClient' \subseteq toClient /\ dups' \in 0 .. MaxDups
  BY <1>1
<1>4. Typed'
  BY <1>1, <1>2, <1>3 DEF IInv, Typed, TypeOK, Datagrams
<1>5. Keyed' /\ Heard' /\ Budget'
  BY DEF IInv, Keyed, Heard, Budget
<1>6. Parsing'
  BY DEF IInv, Parsing, FrameEnds
<1>7. RetryOnly'
  <2> SUFFICES ASSUME peer = "retry"
               PROVE  /\ got'[0] = {} /\ toClient' \subseteq {<<RETRY>>}
                      /\ \A i \in 1 .. Len(dgram') : dgram'[i] = RETRY
    BY DEF RetryOnly
  <2>1. got[0] = {} /\ toClient \subseteq {<<RETRY>>}
    BY DEF IInv, RetryOnly
  <2>2. dgram' = <<RETRY>>
    BY <2>1
  <2> QED
    BY <1>3, <2>1, <2>2
<1> QED
  BY <1>4, <1>5, <1>6, <1>7 DEF IInv

(* A packet: only CONNECTION_CLOSE or an overflow ends the transfer here, and only a
   1-RTT packet says where the response ends. *)
LEMMA RecvPacketKeeps ==
  ASSUME IInv, RecvPacket
  PROVE  /\ IInv' /\ parsed' = parsed /\ stage' = stage /\ sentApp' = sentApp /\ peer' = peer
         /\ status' # status => status = 0 /\ status' \in {-4, -5} /\ finAt' = finAt
         /\ finAt' # finAt => finAt = -1 /\ finAt' = RespLen /\ stage = 5
<1> DEFINE p == Head(dgram)
<1>1. dgram # <<>>
  BY DEF RecvPacket
<1>2. /\ dgram \in Seq(ServerPackets) /\ dgram # <<>> /\ Len(dgram) <= 2
      /\ status \in -6 .. 1 /\ finAt \in {-1, RespLen} /\ keys \in SUBSET (0 .. 2)
      /\ got \in [0 .. 2 -> SUBSET Nat] /\ got[0] \subseteq {0} /\ got[1] \subseteq 0 .. (HsLen - 1)
      /\ got[2] \subseteq 0 .. (RespLen - 1) /\ RespLen \in Nat
  BY <1>1, ConstantsAssumption DEF IInv, Typed, TypeOK
<1>3. p \in ServerPackets /\ p = dgram[1] /\ Len(dgram) \in 1 .. 2
  <2>1. Len(dgram) \in Nat /\ Len(dgram) # 0
    BY <1>2, EmptySeq, LenProperties
  <2>2. dgram[1] \in ServerPackets
    BY <1>2, <2>1, ElementOfSeq
  <2>3. Head(dgram) = dgram[1]
    BY <1>2
  <2> QED
    BY <1>2, <2>1, <2>2, <2>3
<1>4. /\ Tail(dgram) \in Seq(ServerPackets) /\ Len(Tail(dgram)) <= 2
      /\ \A i \in 1 .. Len(Tail(dgram)) : Tail(dgram)[i] = dgram[i + 1] /\ i + 1 \in 1 .. Len(dgram)
  BY <1>2
<1> HIDE DEF p
<1> USE DEF RecvPacket, tlsVars, h3Vars, sendVars, netVars, envVars
<1>5. CASE Space(p) \notin keys
  <2>1. dgram' = <<>> /\ UNCHANGED <<pc, status, stage, keys, fin, got, noted, finAt, ackPending,
             parsed, http, progress, gotHs, gotApp, confirmed, sentApp, retries, open, peer, toClient,
             icmp, late, losses, dups>>
    BY <1>5 DEF p, streamVars, seenVars
  <2> HIDE DEF RecvPacket, tlsVars, h3Vars, sendVars, netVars, envVars
  <2>2. Typed'
    BY <2>1 DEF IInv, Typed, TypeOK, Datagrams
  <2>3. Keyed' /\ Heard' /\ Budget' /\ RetryOnly'
    BY <2>1 DEF IInv, Keyed, Heard, Budget, RetryOnly
  <2>4. Parsing'
    BY <2>1 DEF IInv, Parsing, FrameEnds
  <2> QED
    BY <2>1, <2>2, <2>3, <2>4 DEF IInv
<1>6. CASE Space(p) \in keys
  <2>1. PICK refused \in BOOLEAN : Accept(p, refused)
    BY <1>6 DEF p
  <2>2. /\ dgram' = Tail(dgram) /\ pc = "drain"
        /\ UNCHANGED <<pc, stage, keys, fin, parsed, http, sentApp, retries, open, peer, toClient,
             icmp, late, losses, dups>>
    BY <1>6 DEF p
  <2> HIDE DEF RecvPacket, tlsVars, h3Vars, sendVars, netVars, envVars
  <2>3. Typed
    BY DEF IInv
  <2>4. /\ got' \in [0 .. 2 -> SUBSET Nat] /\ Recorded(p)
        /\ noted' \in [0 .. 2 -> SUBSET ServerPackets] /\ Noted(p)
        /\ Space(p) = 0 => got'[0] = {0} /\ noted'[0] # {}
        /\ status' \in {status, Fail(-4), Fail(-5)}
        /\ finAt' # finAt => /\ finAt' = RespLen /\ RespLen <= BodyRoom
                             /\ status' = status /\ Space(p) = 2
        /\ {progress', gotHs', gotApp', confirmed'} \subseteq BOOLEAN
        /\ ackPending' \in SUBSET (0 .. 2)
    BY <1>3, <1>6, <2>1, <2>3, AcceptIs
  <2>5. Space(p) \in 0 .. 2
    BY <1>2, <1>6
  <2>6. status' \in -6 .. 1 /\ (status' # status => status = 0 /\ status' \in {-4, -5})
    BY <1>2, <2>4 DEF Fail
  <2>7. finAt' \in {-1, RespLen} /\ (finAt' # finAt => finAt = -1 /\ stage = 5)
    BY <1>2, <1>6, <2>4 DEF IInv, Keyed
  <2>8. /\ got'[0] \subseteq {0} /\ got'[1] \subseteq 0 .. (HsLen - 1)
        /\ got'[2] \subseteq 0 .. (RespLen - 1)
    BY <1>2, <1>3, <2>4, PacketIs DEF Recorded
  <2>9. Typed'
    BY <1>4, <2>2, <2>4, <2>6, <2>7, <2>8 DEF IInv, Typed, TypeOK, Datagrams
  <2>10. got[0] \subseteq got'[0] /\ got[2] \subseteq got'[2] /\ (got'[2] # got[2] => Space(p) = 2)
    BY <2>4 DEF Recorded
  <2>11. Keyed'
    BY <2>2, <2>10 DEF IInv, Keyed
  <2>12. Heard'
    <3>1. ASSUME NEW s \in {1, 2}, noted'[s] # {} PROVE 0 \in got'[0]
      <4>1. CASE noted[s] # {}
        BY <2>10, <4>1 DEF IInv, Heard
      <4>2. CASE Space(p) = s
        BY <1>6, <2>10, <4>2 DEF IInv, Keyed
      <4> QED
        BY <2>4, <3>1, <4>1, <4>2 DEF Noted
    <3>2. 0 \in got'[0] => noted'[0] # {}
      <4>1. CASE Space(p) = 0
        BY <2>4, <4>1
      <4>2. CASE Space(p) # 0
        <5>1. got'[0] = got[0] /\ noted[0] \subseteq noted'[0]
          BY <2>4, <4>2 DEF Recorded, Noted
        <5> QED
          BY <5>1 DEF IInv, Heard
      <4> QED
        BY <4>1, <4>2
    <3>3. got'[2] # {} => stage = 5
      BY <1>6, <2>10 DEF IInv, Heard, Keyed
    <3>4. status' # -6
      BY <2>2, <2>6 DEF IInv, Heard
    <3> QED
      BY <2>2, <3>1, <3>2, <3>3, <3>4 DEF Heard
  <2>13. Parsing'
    <3>1. FrameEnds' = FrameEnds /\ BodyRoom' = BodyRoom
      BY <2>2 DEF FrameEnds, BodyRoom
    <3>2. Have(got[2]) <= Have(got'[2]) /\ Have(got[2]) \in Nat /\ Have(got'[2]) \in Nat
      <4>1. /\ got[2] \in SUBSET (0 .. (RespLen - 1)) /\ got'[2] \in SUBSET (0 .. (RespLen - 1))
            /\ RespLen \in Nat
        BY <1>2, <2>8
      <4>2. Have(got[2]) \in 0 .. RespLen /\ Have(got'[2]) \in 0 .. RespLen
        BY <4>1, HaveIs
      <4>3. Have(got[2]) <= Have(got'[2])
        BY <2>10, <4>1, HaveGrows
      <4> QED
        BY <4>2, <4>3
    <3>3. parsed <= Have(got'[2])
      <4>1. parsed \in Nat /\ parsed <= Have(got[2])
        BY <1>2 DEF IInv, Typed, TypeOK, Parsing
      <4> QED
        BY <3>2, <4>1
    <3>4. pc' # "parse"
      BY <2>2
    <3>5. peer = "oversized" => finAt' = -1
      <4>1. peer = "oversized" => ~(RespLen <= BodyRoom) /\ finAt = -1
        BY <1>2 DEF BodyRoom, IInv, Parsing
      <4> QED
        BY <2>4, <4>1
    <3> QED
      BY <2>2, <3>1, <3>3, <3>4, <3>5 DEF IInv, Parsing
  <2>14. RetryOnly'
    <3> SUFFICES ASSUME peer = "retry" PROVE FALSE
      BY <2>2 DEF RetryOnly
    <3>1. p = RETRY
      BY <1>3 DEF IInv, RetryOnly
    <3>2. p.k = "RETRY"
      BY <3>1 DEF RETRY, Packet
    <3> QED
      BY <1>3, <2>5, <3>2, PacketIs
  <2>15. Budget'
    BY <2>2, <2>6 DEF IInv, Budget
  <2> QED
    BY <2>2, <2>4, <2>6, <2>7, <2>9, <2>11, <2>12, <2>13, <2>14, <2>15 DEF IInv
<1> QED
  BY <1>5, <1>6

(* A refused port ends the transfer only if nothing was heard: without a
   ServerHello there are no keys for anything else. *)
LEMMA DrainEndKeeps ==
  ASSUME IInv, DrainEnd
  PROVE  /\ IInv' /\ UNCHANGED Core
         /\ status' # status => status = 0 /\ status' = -6
<1>1. /\ status \in -6 .. 1 /\ icmp \in BOOLEAN
      /\ noted[0] = {} => \A s \in 0 .. 2 : noted[s] = {}
  <2>1. noted[0] = {} => 0 \notin got[0]
    BY DEF IInv, Heard
  <2>2. 0 \notin got[0] => noted[1] = {} /\ noted[2] = {}
    BY DEF IInv, Heard
  <2> QED
    BY <2>1, <2>2 DEF IInv, Typed, TypeOK
<1>2. /\ status' # status => status = 0 /\ status' = -6 /\ noted[0] = {}
      /\ icmp' \in BOOLEAN
  BY <1>1 DEF DrainEnd, Refusal, Fail
<1>3. status' \in -6 .. 1
  BY <1>1, <1>2
<1>4. /\ pc' = "tls" /\ dgram' = dgram
      /\ UNCHANGED <<open, tlsVars, streamVars, ackPending, h3Vars, progress, seenVars,
                     sendVars, toClient, toServer, losses, dups, envVars>>
  BY DEF DrainEnd
<1> USE <1>4 DEF tlsVars, streamVars, h3Vars, seenVars, sendVars, envVars
<1>5. Typed'
  BY <1>2, <1>3 DEF IInv, Typed, TypeOK, Datagrams
<1>6. Keyed' /\ RetryOnly'
  BY DEF IInv, Keyed, RetryOnly
<1>7. Budget'
  BY <1>2 DEF IInv, Budget
<1>8. Heard'
  <2>1. status' = -6 => \A s \in 0 .. 2 : noted'[s] = {}
    <3>1. status # -6
      BY DEF IInv, Heard, DrainEnd
    <3> QED
      BY <1>1, <1>2, <3>1
  <2> QED
    BY <2>1 DEF IInv, Heard
<1>9. Parsing'
  BY DEF IInv, Parsing, FrameEnds
<1> QED
  BY <1>2, <1>5, <1>6, <1>7, <1>8, <1>9 DEF IInv, Core

(* The stage a handshake can reach: none without a ServerHello, the last only
   with a server that no check finds out. *)
LEMMA ReachIs ==
  ASSUME Typed
  PROVE  /\ Reach \in 0 .. 5 /\ FailsAt \in 0 .. 5 /\ FailCode \in {-2, -3}
         /\ Reach # 0 => 0 \in got[0]
         /\ FailsAt = 5 <=> peer \notin {"badHello", "badAlpn", "badCert", "badVerify", "badFinished"}
<1>1. got[0] \in SUBSET (0 .. (1 - 1)) /\ got[1] \in SUBSET (0 .. (HsLen - 1)) /\ HsLen = 4
  BY DEF Typed, TypeOK, HsLen
<1>2. Have(got[0]) \in 0 .. 1 /\ \A u \in 0 .. (Have(got[0]) - 1) : u \in got[0]
  BY <1>1, HaveIs
<1>3. Have(got[1]) \in 0 .. 4
  BY <1>1, HaveIs
<1>4. Reach \in 0 .. 5 /\ (Reach # 0 => Have(got[0]) = 1)
  <2> DEFINE h0 == Have(got[0])
             h1 == Have(got[1])
  <2>1. h0 \in 0 .. 1 /\ h1 \in 0 .. 4 /\ Reach = IF h0 < 1 THEN 0 ELSE 1 + Smaller(HsLen, h1)
    BY <1>2, <1>3 DEF Reach
  <2> HIDE DEF h0, h1
  <2>2. Reach \in 0 .. 5 /\ (Reach # 0 => h0 = 1)
    BY <2>1 DEF Smaller, HsLen
  <2> QED
    BY <2>2 DEF h0
<1>5. Have(got[0]) = 1 => 0 \in got[0]
  BY <1>2
<1>6. /\ FailsAt \in 0 .. 5
      /\ FailsAt = 5 <=> peer \notin {"badHello", "badAlpn", "badCert", "badVerify", "badFinished"}
  BY DEF FailsAt
<1> QED
  BY <1>4, <1>5, <1>6 DEF FailCode

(* The handshake: only a server that proves itself gets to the last stage. *)
LEMMA TlsStepKeeps ==
  ASSUME IInv, TlsStep
  PROVE  /\ IInv' /\ UNCHANGED <<streamVars, parsed, sentApp, peer>>
         /\ status' # status => status = 0 /\ status' \in {-2, -3}
         /\ (stage' = 5) # (stage = 5) =>
              /\ stage' = 5 /\ status' = status
              /\ peer \notin {"badHello", "badAlpn", "badCert", "badVerify", "badFinished", "retry"}
<1>1. /\ pc' = "app" /\ UNCHANGED <<dgram, open, got, finAt, noted, parsed, http, progress, gotHs,
            gotApp, confirmed, sentApp, retries, toClient, losses, dups, peer, server, late>>
  BY DEF TlsStep, streamVars, h3Vars, seenVars, sendVars, envVars
<1>2. /\ status \in -6 .. 1 /\ stage \in 0 .. 5 /\ keys \in SUBSET (0 .. 2) /\ icmp \in BOOLEAN
      /\ ackPending \in SUBSET (0 .. 2) /\ Cardinality(fin) <= 1
  BY DEF IInv, Typed, TypeOK
<1>3. CASE status # 0 \/ stage = 5
  <2>1. UNCHANGED <<status, stage, keys, fin, ackPending, toServer, icmp>>
    BY <1>3 DEF TlsStep, tlsVars
  <2>2. Typed'
    BY <1>1, <2>1 DEF IInv, Typed, TypeOK, Datagrams
  <2>3. IInv'
    BY <1>1, <2>1, <2>2, StillKeeps DEF IInv, Budget, Core, Queues, streamVars
  <2> QED
    BY <1>1, <2>1, <2>3 DEF streamVars
<1>4. CASE status = 0 /\ stage # 5
  <2> DEFINE newStage == Smaller(Reach, FailsAt)
  <2>1. /\ stage' = newStage
        /\ status' = IF Reach > FailsAt THEN Fail(FailCode) ELSE status
        /\ keys' = {s \in 0 .. 2 : newStage >= <<0, 1, 5>>[s + 1]}
        /\ FinishHandshake(newStage)
    BY <1>4 DEF TlsStep
  <2>2. /\ Reach \in 0 .. 5 /\ FailsAt \in 0 .. 5 /\ FailCode \in {-2, -3} /\ (Reach # 0 => 0 \in got[0])
        /\ FailsAt = 5 <=> peer \notin {"badHello", "badAlpn", "badCert", "badVerify", "badFinished"}
    BY ReachIs DEF IInv
  <2>3. /\ newStage \in 0 .. 5 /\ (newStage # 0 => Reach # 0)
        /\ newStage = 5 => Reach = 5 /\ FailsAt = 5
    BY <2>2 DEF Smaller
  <2> HIDE DEF newStage
  <2>4. /\ fin' = fin \/ fin' = {Sent("FIN", noted[1])}
        /\ ackPending' \in SUBSET (0 .. 2) /\ icmp' \in BOOLEAN
    <3>1. CASE newStage = 5 /\ stage < 5
      <4>1. /\ fin' = {Sent("FIN", noted[1])} /\ ackPending' = ackPending \ {0, 1}
            /\ Transmit({Sent("FIN", noted[1])})
        BY <2>1, <3>1 DEF FinishHandshake
      <4> QED
        BY <1>2, <4>1, TransmitIs
    <3>2. CASE ~(newStage = 5 /\ stage < 5)
      BY <1>2, <2>1, <3>2 DEF FinishHandshake
    <3> QED
      BY <3>1, <3>2
  <2>5. Cardinality(fin') <= 1
    <3>1. Cardinality({Sent("FIN", noted[1])}) = 1
      BY FS_Singleton
    <3> QED
      BY <1>2, <2>4, <3>1
  <2>6. /\ status' # status => status = 0 /\ status' \in {-2, -3}
        /\ status' \in -6 .. 1 /\ (newStage = 5 => status' = status)
    BY <1>2, <1>4, <2>1, <2>2, <2>3 DEF Fail
  <2>7. keys' \in SUBSET (0 .. 2) /\ (1 \in keys' => newStage # 0) /\ (2 \in keys' <=> newStage = 5)
    <3>1. <<0, 1, 5>>[1 + 1] = 1 /\ <<0, 1, 5>>[2 + 1] = 5
      OBVIOUS
    <3> QED
      BY <2>1, <2>3, <3>1
  <2>8. Typed'
    BY <1>1, <2>1, <2>3, <2>4, <2>5, <2>6, <2>7 DEF IInv, Typed, TypeOK, Datagrams
  <2>9. Keyed'
    BY <1>1, <2>1, <2>2, <2>3, <2>7 DEF Keyed
  <2>10. Heard'
    BY <1>1, <1>4, <2>6 DEF IInv, Heard
  <2>11. Parsing'
    BY <1>1 DEF IInv, Parsing, FrameEnds
  <2>12. RetryOnly'
    BY <1>1 DEF IInv, RetryOnly
  <2>13. Budget'
    BY <1>1, <1>4 DEF IInv, Budget
  <2>14. newStage = 5 => peer # "retry"
    BY <2>2, <2>3 DEF IInv, RetryOnly
  <2> QED
    BY <1>1, <1>4, <2>1, <2>2, <2>3, <2>6, <2>8, <2>9, <2>10, <2>11, <2>12, <2>13, <2>14
       DEF IInv, streamVars
<1> QED
  BY <1>3, <1>4

-----------------------------------------------------------------------------
(* The world moves between two pumps and touches only what is in flight. *)
LEMMA ServerSendKeeps ==
  ASSUME IInv, NEW d \in Datagrams, ServerSend(d)
  PROVE  IInv'
<1>1. /\ toClient' = toClient \cup {d} /\ Eligible(Head(d)) /\ status = 0
      /\ UNCHANGED <<pc, clientVars, toServer, icmp, losses, dups, peer, late>>
  BY DEF ServerSend, World, Answers, MayAnswer
<1> USE <1>1 DEF clientVars, tlsVars, streamVars, h3Vars, seenVars, sendVars
<1>2. Typed'
  BY DEF IInv, Typed, TypeOK, Datagrams
<1>3. Keyed' /\ Heard' /\ Budget'
  BY DEF IInv, Keyed, Heard, Budget
<1>4. Parsing'
  BY DEF IInv, Parsing, FrameEnds
<1>5. RetryOnly'
  <2>1. peer = "retry" => Head(d).k = "RETRY"
    BY DEF Eligible
  <2>2. peer = "retry" => d = <<RETRY>>
    BY <2>1, DatagramIs
  <2> QED
    BY <2>2 DEF IInv, RetryOnly
<1> QED
  BY <1>2, <1>3, <1>4, <1>5 DEF IInv

(* What the world does between pumps. *)
LEMMA WorldKeeps ==
  ASSUME IInv, Lose \/ Unreachable \/ DeadlinePasses \/ \E m \in toServer : ServerRecv(m)
  PROVE  IInv' /\ UNCHANGED <<Core, status, pc, dgram>>
<1>1. /\ losses \in 0 .. MaxLosses /\ MaxLosses \in Nat /\ icmp \in BOOLEAN /\ late \in BOOLEAN
      /\ toClient \subseteq Datagrams
  BY ConstantsAssumption DEF IInv, Typed, TypeOK
<1>2. /\ UNCHANGED <<pc, clientVars, dups, peer>> /\ toClient' \subseteq toClient
      /\ losses' = losses \/ (losses < MaxLosses /\ losses' = losses + 1)
      /\ icmp' = icmp \/ icmp' = TRUE
      /\ late' = late \/ late' = TRUE
  <2>1. CASE Lose
    BY <2>1 DEF Lose, envVars
  <2>2. CASE Unreachable
    BY <2>2 DEF Unreachable, envVars
  <2>3. CASE DeadlinePasses
    BY <2>3 DEF DeadlinePasses, netVars
  <2>4. CASE \E m \in toServer : ServerRecv(m)
    BY <2>4 DEF ServerRecv
  <2> QED
    BY <2>1, <2>2, <2>3, <2>4
<1>3. losses' \in 0 .. MaxLosses
  BY <1>1, <1>2
<1>4. icmp' \in BOOLEAN /\ late' \in BOOLEAN
  BY <1>1, <1>2
<1> USE <1>2 DEF clientVars, tlsVars, streamVars, h3Vars, seenVars, sendVars
<1>5. Typed'
  BY <1>1, <1>3, <1>4 DEF IInv, Typed, TypeOK, Datagrams
<1>6. Keyed' /\ Heard' /\ Budget'
  BY DEF IInv, Keyed, Heard, Budget
<1>7. Parsing'
  BY DEF IInv, Parsing, FrameEnds
<1>8. RetryOnly'
  BY DEF IInv, RetryOnly
<1> QED
  BY <1>5, <1>6, <1>7, <1>8 DEF IInv, Core

-----------------------------------------------------------------------------
(* A connection just opened. *)
LEMMA InitHolds == Init => IInv
<1> SUFFICES ASSUME Init PROVE IInv
  OBVIOUS
<1> USE ConstantsAssumption DEF Init
<1>1. Typed
  <2>1. Cardinality(fin) = 0
    BY FS_EmptySet
  <2> QED
    BY <2>1 DEF Typed, TypeOK
<1>2. Keyed /\ Heard /\ RetryOnly /\ Budget
  BY DEF Keyed, Heard, RetryOnly, Budget
<1>3. Parsing
  <2>1. Have(got[2]) \in 0 .. 0
    <3>1. got[2] \in SUBSET (0 .. (0 - 1))
      OBVIOUS
    <3> QED
      BY <3>1, HaveIs
  <2> QED
    BY <2>1 DEF Parsing
<1> QED
  BY <1>1, <1>2, <1>3 DEF IInv

(* Every step keeps the invariant. *)
LEMMA StepKeeps ==
  ASSUME IInv, [Next]_vars
  PROVE  IInv'
<1>1. CASE Pump
  BY <1>1, BeginKeeps, RecvDatagramKeeps, RecvPacketKeeps, DrainEndKeeps, TlsStepKeeps, SendAppKeeps,
     ParseKeeps, CompleteKeeps, FlushKeeps, TimersKeep DEF Pump
<1>2. CASE Close
  BY <1>2, CloseKeeps
<1>3. CASE \E d \in Datagrams : ServerSend(d)
  BY <1>3, ServerSendKeeps
<1>4. CASE Lose \/ Unreachable \/ DeadlinePasses \/ \E m \in toServer : ServerRecv(m)
  BY <1>4, WorldKeeps
<1>5. CASE UNCHANGED vars
  <2> USE <1>5 DEF vars, clientVars, tlsVars, streamVars, h3Vars, seenVars, sendVars, netVars, envVars
  <2>1. Typed'
    BY DEF IInv, Typed, TypeOK, Datagrams
  <2> QED
    BY <2>1, StillKeeps DEF IInv, Budget, Core, Queues
<1> QED
  BY <1>1, <1>2, <1>3, <1>4, <1>5 DEF Next

(* The state of the connection keeps its shape and its order: keys, stages,
   prefixes and probes. *)
THEOREM ConnectionIsSound == Spec => []IInv
BY InitHolds, StepKeeps, PTL DEF Spec

(* Every slot holds what the program keeps in it, and no transfer makes more
   probes than its budget and the one that ends it. *)
THEOREM ConnectionTyped == Spec => []TypeOK
<1>1. IInv => TypeOK
  BY DEF IInv, Typed
<1> QED
  BY <1>1, ConnectionIsSound, PTL

(* A refused port (status -6) kills no connection that has heard a server. *)
THEOREM RefusalMeansSilence == Spec => []RefusedMeansSilent
<1>1. IInv => RefusedMeansSilent
  BY DEF IInv, Heard, RefusedMeansSilent
<1> QED
  BY <1>1, ConnectionIsSound, PTL

-----------------------------------------------------------------------------
(* What the steps do to what the host sees. *)
Seen == <<peer, stage, sentApp, parsed, finAt, status>>

(* Steps the host cannot see. *)
LEMMA QuietSteps ==
  ASSUME IInv,
         \/ PumpBegin \/ FlushAcks \/ Close \/ UNCHANGED vars
         \/ \E d \in toClient : RecvDatagram(d)
         \/ \E d \in Datagrams : ServerSend(d)
         \/ Lose \/ Unreachable \/ DeadlinePasses \/ \E m \in toServer : ServerRecv(m)
         \/ TimersProgress \/ TimersWait
  PROVE  UNCHANGED Seen
<1> USE DEF Seen, clientVars, tlsVars, streamVars, h3Vars, sendVars, envVars
<1>1. CASE PumpBegin \/ FlushAcks \/ Close \/ UNCHANGED vars
  BY <1>1 DEF PumpBegin, FlushAcks, Close, vars
<1>2. CASE (\E d \in toClient : RecvDatagram(d)) \/ \E d \in Datagrams : ServerSend(d)
  BY <1>2 DEF RecvDatagram, ServerSend
<1>3. CASE Lose \/ Unreachable \/ DeadlinePasses \/ \E m \in toServer : ServerRecv(m)
  BY <1>3, WorldKeeps DEF Core
<1>4. CASE TimersProgress \/ TimersWait
  BY <1>4 DEF TimersProgress, TimersWait, TimersUnchanged
<1> QED
  BY <1>1, <1>2, <1>3, <1>4

(* A status is set once; success takes the whole response of an authenticated server. *)
LEMMA StatusSteps ==
  ASSUME IInv, [Next]_vars, status' # status
  PROVE  /\ status = 0
         /\ \/ status' \in -6 .. -1 /\ UNCHANGED <<peer, stage = 5, sentApp, parsed, finAt>>
            \/ /\ status' = 1 /\ UNCHANGED <<peer, stage, sentApp, parsed, finAt>>
               /\ finAt = RespLen /\ parsed = RespLen /\ sentApp /\ peer # "oversized"
<1>1. CASE RecvPacket
  BY <1>1, RecvPacketKeeps
<1>2. CASE DrainEnd
  BY <1>2, DrainEndKeeps DEF Core, streamVars
<1>3. CASE TlsStep
  BY <1>3, TlsStepKeeps DEF streamVars
<1>4. CASE Complete
  BY <1>4, CompleteKeeps DEF Complete, tlsVars, streamVars, h3Vars, sendVars, envVars
<1>5. CASE TimersDeadline \/ Probe
  BY <1>5, TimersKeep DEF Core, streamVars
<1>6. CASE SendApp \/ H3Parse
  BY <1>6 DEF SendApp, H3Parse
<1>7. UNCHANGED Seen => FALSE
  BY DEF Seen
<1> QED
  BY <1>1, <1>2, <1>3, <1>4, <1>5, <1>6, <1>7, QuietSteps DEF Next, Pump

(* A status, once given, stays. *)
THEOREM StatusStays == Spec => StatusIsFinal
<1>1. IInv /\ [Next]_vars => [status # 0 => status' = status]_vars
  BY StatusSteps
<1>2. Spec => [][status # 0 => status' = status]_vars
  BY <1>1, ConnectionIsSound, PTL DEF Spec
<1> QED
  BY <1>2 DEF StatusIsFinal

(* A response larger than the buffer never completes, so the host never reads
   a part as the whole. *)
THEOREM TooBigNeverCompletes == Spec => []TooBigFailsClosed
<1> DEFINE Fails == peer = "oversized" => status # 1
<1>1. Init => Fails
  BY DEF Init
<1>2. IInv /\ Fails /\ [Next]_vars => Fails'
  <2> SUFFICES ASSUME IInv, Fails, [Next]_vars, peer' = "oversized", status' = 1 PROVE FALSE
    OBVIOUS
  <2>1. peer' = peer
    BY DEF Next, Pump, PumpBegin, RecvDatagram, RecvPacket, DrainEnd, TlsStep, SendApp, H3Parse,
           Complete, FlushAcks, TimersDeadline, TimersProgress, TimersWait, Probe, TimersUnchanged,
           Close, ServerSend, ServerRecv, Lose, Unreachable, DeadlinePasses, vars, envVars
  <2>2. status # 1
    BY <2>1
  <2> QED
    BY <2>1, <2>2, StatusSteps
<1>3. Fails => TooBigFailsClosed
  <2>1. peer # "oversized" => BodyRoom = RespLen /\ RespLen \in Nat
    BY ConstantsAssumption DEF BodyRoom
  <2> QED
    BY <2>1 DEF TooBigFailsClosed
<1> HIDE DEF Fails
<1> QED
  BY <1>1, <1>2, <1>3, ConnectionIsSound, PTL DEF Spec

-----------------------------------------------------------------------------
(* The promise to the host.  A step authenticates, asks, learns the end, lets
   the body grow, succeeds, gives up, or is nothing the host can see. *)
LEMMA QuietIsNothing ==
  ASSUME UNCHANGED Seen
  PROVE  UNCHANGED Promise!vars
BY DEF Seen, Promise!vars

(* Every step is one the abstract client may take, or none. *)
LEMMA StepIsPromised ==
  ASSUME IInv, [Next]_vars
  PROVE  [Promise!Next]_(Promise!vars)
<1>0. /\ finAt \in {-1, RespLen} /\ RespLen \in Nat \ {0} /\ parsed \in 0 .. RespLen
      /\ sentApp \in BOOLEAN
  BY ConstantsAssumption DEF IInv, Typed, TypeOK
<1>1. CASE status' # status
  <2>1. CASE status' = 1
    <3>1. /\ status = 0 /\ sentApp /\ finAt >= 0 /\ parsed = RespLen
          /\ UNCHANGED <<peer, stage, sentApp, parsed, finAt>>
      BY <1>0, <1>1, <2>1, StatusSteps
    <3>2. Promise!Succeed
      BY <2>1, <3>1 DEF Promise!Succeed
    <3> QED
      BY <3>2 DEF Promise!Next
  <2>2. CASE status' # 1
    <3>1. /\ status = 0 /\ status' \in -6 .. -1
          /\ UNCHANGED <<peer, stage = 5, sentApp, parsed, finAt>>
      BY <1>1, <2>2, StatusSteps
    <3>2. Promise!GiveUp
      BY <3>1 DEF Promise!GiveUp
    <3> QED
      BY <3>2 DEF Promise!Next
  <2> QED
    BY <2>1, <2>2
<1>2. CASE status' = status
  <2>1. CASE RecvPacket
    <3>1. UNCHANGED <<peer, stage, sentApp, parsed, status>>
      BY <1>2, <2>1, RecvPacketKeeps
    <3>2. CASE finAt' = finAt
      BY <3>1, <3>2, QuietIsNothing DEF Seen
    <3>3. CASE finAt' # finAt
      <4>1. ~(finAt >= 0) /\ finAt' >= 0 /\ stage = 5
        BY <1>0, <2>1, <3>3, RecvPacketKeeps
      <4>2. Promise!Seal
        BY <3>1, <4>1 DEF Promise!Seal
      <4> QED
        BY <4>2 DEF Promise!Next
    <3> QED
      BY <3>2, <3>3
  <2>2. CASE TlsStep
    <3>1. UNCHANGED <<peer, sentApp, parsed, finAt, status>>
      BY <1>2, <2>2, TlsStepKeeps DEF streamVars
    <3>2. CASE (stage' = 5) = (stage = 5)
      BY <3>1, <3>2 DEF Promise!vars
    <3>3. CASE (stage' = 5) # (stage = 5)
      <4>1. /\ stage' = 5 /\ stage # 5
            /\ peer \notin {"badHello", "badAlpn", "badCert", "badVerify", "badFinished", "retry"}
        BY <2>2, <3>3, TlsStepKeeps
      <4>2. peer \in PeerKinds
        BY ConstantsAssumption DEF IInv, Typed, TypeOK
      <4>3. peer \in {"good", "closes", "badStatus", "truncated", "oversized"}
        BY <4>1, <4>2 DEF PeerKinds
      <4>4. Promise!Authenticate
        BY <3>1, <4>1, <4>3 DEF Promise!Authenticate
      <4> QED
        BY <4>4 DEF Promise!Next
    <3> QED
      BY <3>2, <3>3
  <2>3. CASE SendApp
    <3>1. UNCHANGED <<peer, stage, parsed, finAt, status>>
      BY <2>3 DEF SendApp, tlsVars, streamVars, h3Vars, envVars
    <3>2. CASE MaySendApp
      <4>1. status = 0 /\ ~sentApp /\ sentApp' /\ stage = 5
        BY <2>3, <3>2 DEF SendApp, MaySendApp, IInv, Keyed
      <4>2. Promise!Ask
        BY <3>1, <4>1 DEF Promise!Ask
      <4> QED
        BY <4>2 DEF Promise!Next
    <3>3. CASE ~MaySendApp
      BY <2>3, <3>1, <3>3, QuietIsNothing DEF SendApp, Seen
    <3> QED
      BY <3>2, <3>3
  <2>4. CASE H3Parse
    <3>1. UNCHANGED <<peer, stage, sentApp, finAt, status>>
      BY <2>4 DEF H3Parse, tlsVars, streamVars, sendVars, envVars
    <3>2. CASE parsed' = parsed
      BY <3>1, <3>2, QuietIsNothing DEF Seen
    <3>3. CASE parsed' # parsed
      <4>1. parsed' \in (parsed + 1) .. RespLen /\ status = 0 /\ sentApp
        BY <1>0, <2>4, <3>3, ParseKeeps
      <4>2. Promise!Grow
        BY <3>1, <4>1 DEF Promise!Grow
      <4> QED
        BY <4>2 DEF Promise!Next
    <3> QED
      BY <3>2, <3>3
  <2>5. CASE Complete \/ DrainEnd \/ TimersDeadline \/ Probe
    <3>1. UNCHANGED Seen
      BY <1>2, <2>5, DrainEndKeeps, TimersKeep
         DEF Complete, Core, Seen, tlsVars, streamVars, h3Vars, sendVars, envVars
    <3> QED
      BY <3>1, QuietIsNothing
  <2> QED
    BY <2>1, <2>2, <2>3, <2>4, <2>5, QuietSteps, QuietIsNothing DEF Next, Pump
<1> QED
  BY <1>1, <1>2

(* The connection keeps the promise of HttpGet: one final result, a request
   only to an authenticated server, a body that only grows, success only with
   the whole of it. *)
THEOREM KeepsItsPromise == Spec => ImplementsHttpGet
<1>1. Init => Promise!Init
  BY ConstantsAssumption DEF Init, Promise!Init
<1> QED
  BY <1>1, StepIsPromised, ConnectionIsSound, PTL DEF Spec, ImplementsHttpGet, Promise!Spec

-----------------------------------------------------------------------------
(* Every packet the server was told of, or may be told of by what is under way
   or stored, with what it carried. *)
AcksOf(M) == UNION {m.acks : m \in M}
Told == noted[0] \cup noted[1] \cup noted[2] \cup server.acked \cup AcksOf(toServer) \cup AcksOf(fin)
Held(p) == Units(p) \subseteq got[Space(p)]

ServerState ==
  server \in [hello : BOOLEAN, finished : BOOLEAN, request : BOOLEAN, handshake : BOOLEAN,
              early : BOOLEAN, credit : Int, acked : SUBSET ServerPackets]

KInv ==
  /\ ServerState
  /\ Told \subseteq ServerPackets
  /\ status = 1 => pc # "drain"
  /\ status >= 0 => \A p \in Told : Held(p)

(* A packet of the client carries its acknowledgements. *)
LEMMA SentIs ==
  ASSUME NEW k, NEW acks
  PROVE  Sent(k, acks).acks = acks
BY DEF Sent

(* A step that notes nothing and says only what was noted tells nothing new. *)
LEMMA NothingNewTold ==
  ASSUME noted' = noted,
         \A m \in toServer' : m \in toServer \/ m.acks \subseteq Told,
         \A m \in fin' : m \in fin \/ m.acks \subseteq Told,
         server'.acked \subseteq Told
  PROVE  Told' \subseteq Told
<1>1. AcksOf(toServer') \subseteq Told
  BY DEF AcksOf, Told
<1>2. AcksOf(fin') \subseteq Told
  BY DEF AcksOf, Told
<1>3. noted[0] \cup noted[1] \cup noted[2] \subseteq Told
  BY DEF Told
<1>4. Told' = noted[0] \cup noted[1] \cup noted[2] \cup server'.acked \cup AcksOf(toServer') \cup AcksOf(fin')
  BY DEF Told, AcksOf
<1> QED
  BY <1>1, <1>2, <1>3, <1>4

(* What the client puts on the wire. *)
LEMMA ClientSays ==
  ASSUME IInv, TlsStep \/ SendApp \/ FlushAcks \/ Probe \/ Close
  PROVE  /\ UNCHANGED <<noted, got, server>>
         /\ \A m \in toServer' : m \in toServer \/ m.acks \subseteq Told
         /\ \A m \in fin' : m \in fin \/ m.acks \subseteq Told
<1>1. /\ keys \in SUBSET (0 .. 2) /\ icmp \in BOOLEAN
      /\ noted[0] \subseteq Told /\ noted[1] \subseteq Told /\ noted[2] \subseteq Told
  BY DEF IInv, Typed, TypeOK, Told
<1>2. CASE TlsStep
  <2>1. UNCHANGED <<noted, got, server>>
    BY <1>2 DEF TlsStep, streamVars, envVars
  <2>2. \/ UNCHANGED <<fin, toServer>>
        \/ fin' = {Sent("FIN", noted[1])} /\ Transmit({Sent("FIN", noted[1])})
    BY <1>2 DEF TlsStep, FinishHandshake, tlsVars
  <2>3. Sent("FIN", noted[1]).acks \subseteq Told
    BY <1>1, SentIs
  <2>4. CASE UNCHANGED <<fin, toServer>>
    BY <2>1, <2>4
  <2>5. CASE fin' = {Sent("FIN", noted[1])} /\ Transmit({Sent("FIN", noted[1])})
    <3>1. toServer' \subseteq toServer \cup {Sent("FIN", noted[1])}
      BY <1>1, <2>5, TransmitIs
    <3> QED
      BY <2>1, <2>3, <2>5, <3>1
  <2> QED
    BY <2>2, <2>4, <2>5
<1>3. CASE SendApp
  <2>1. UNCHANGED <<noted, got, server, fin>>
    BY <1>3 DEF SendApp, tlsVars, streamVars, envVars
  <2>2. toServer' \subseteq toServer \cup {REQ}
    <3>1. toServer' = toServer \/ Transmit({REQ})
      BY <1>3 DEF SendApp
    <3> QED
      BY <1>1, <3>1, TransmitIs
  <2>3. REQ.acks = {}
    BY SentIs DEF REQ
  <2> QED
    BY <2>1, <2>2, <2>3
<1>4. CASE FlushAcks
  <2> DEFINE P == {Sent(AckKind[s], noted[s]) : s \in Owed}
  <2>1. UNCHANGED <<noted, got, server, fin>>
    BY <1>4 DEF FlushAcks, tlsVars, streamVars, envVars
  <2>2. toServer' \subseteq toServer \cup P
    BY <1>1, <1>4, TransmitIs DEF FlushAcks
  <2>3. ASSUME NEW m \in P PROVE m.acks \subseteq Told
    <3>1. PICK s \in Owed : m = Sent(AckKind[s], noted[s])
      OBVIOUS
    <3>2. s \in 0 .. 2
      BY <1>1 DEF Owed
    <3> QED
      BY <1>1, <3>1, <3>2, SentIs
  <2> HIDE DEF P
  <2> QED
    BY <2>1, <2>2, <2>3
<1>5. CASE Probe
  <2>1. UNCHANGED <<noted, got, server, fin>>
    BY <1>5 DEF Probe, TimersUnchanged, tlsVars, streamVars, envVars
  <2>2. toServer' \subseteq toServer \cup LastFlight
    BY <1>1, <1>5, TransmitIs DEF Probe
  <2>3. ASSUME NEW m \in LastFlight PROVE m.acks \subseteq Told
    <3>1. m \in {Sent("CH", {}), REQ} \/ m \in fin
      BY DEF LastFlight
    <3>2. Sent("CH", {}).acks = {} /\ REQ.acks = {}
      BY SentIs DEF REQ
    <3>3. m \in fin => m.acks \subseteq Told
      BY DEF AcksOf, Told
    <3> QED
      BY <3>1, <3>2, <3>3
  <2> QED
    BY <2>1, <2>2, <2>3
<1>6. CASE Close
  <2>1. UNCHANGED <<noted, got, server, fin>>
    BY <1>6 DEF Close, tlsVars, streamVars, envVars
  <2>2. toServer' \subseteq toServer \cup {Sent("CLOSE", {}) : x \in keys \cap {2}}
    BY <1>1, <1>6, TransmitIs DEF Close
  <2>3. Sent("CLOSE", {}).acks = {}
    BY SentIs
  <2> QED
    BY <2>1, <2>2, <2>3
<1> QED
  BY <1>2, <1>3, <1>4, <1>5, <1>6

(* What the server has been told it was told by a packet under way. *)
LEMMA ServerHears ==
  ASSUME ServerState, \E m \in toServer : ServerRecv(m), Told \subseteq ServerPackets
  PROVE  /\ ServerState' /\ server'.acked \subseteq Told
         /\ toServer' \subseteq toServer /\ UNCHANGED <<noted, got, fin>>
<1>1. PICK m \in toServer : ServerRecv(m)
  OBVIOUS
<1>2. m.acks \subseteq Told /\ server.acked \subseteq Told
  BY DEF Told, AcksOf
<1> DEFINE finished  == server.finished \/ m.k = "FIN"
           handshake == server.handshake \/ m.k \in {"FIN", "ACK1"}
           readable  == finished \/ m.k \in {"CH", "ACK0", "ACK1"}
           hello     == server.hello \/ m.k = "CH"
           request   == server.request \/ (finished /\ m.k = "REQ")
           acked     == IF readable THEN server.acked \cup m.acks ELSE server.acked
           credit    == IF handshake THEN 0 ELSE Smaller(server.credit + AmpFactor, 2 * AmpFactor)
<1>3. server' = [server EXCEPT !.hello = hello, !.finished = finished, !.handshake = handshake,
                               !.request = request, !.acked = acked, !.credit = credit]
  BY <1>1 DEF ServerRecv
<1>4. /\ {hello, finished, handshake, request} \subseteq BOOLEAN
      /\ acked \subseteq Told
  BY <1>2 DEF ServerState
<1>5. credit \in Int
  <2>1. server.credit \in Int /\ AmpFactor \in Nat
    BY ConstantsAssumption DEF ServerState
  <2>2. Smaller(server.credit + AmpFactor, 2 * AmpFactor) \in Int
    BY <2>1 DEF Smaller
  <2> QED
    BY <2>2
<1> HIDE DEF hello, finished, handshake, request, acked, credit
<1>6. ServerState' /\ server'.acked = acked
  BY <1>3, <1>4, <1>5 DEF ServerState
<1>7. toServer' \subseteq toServer /\ UNCHANGED <<noted, got, fin>>
  BY <1>1 DEF ServerRecv, clientVars, tlsVars, streamVars
<1> QED
  BY <1>4, <1>6, <1>7

(* Nobody but an accepted packet tells anything new or changes what is held. *)
LEMMA OthersTellNothingNew ==
  ASSUME IInv, ServerState, Told \subseteq ServerPackets, [Next]_vars, ~RecvPacket
  PROVE  ServerState' /\ Told' \subseteq Told /\ got' = got
<1>0. server.acked \subseteq Told
  BY DEF Told
<1>1. CASE TlsStep \/ SendApp \/ FlushAcks \/ Probe \/ Close
  <2>1. /\ UNCHANGED <<noted, got, server>>
        /\ \A m \in toServer' : m \in toServer \/ m.acks \subseteq Told
        /\ \A m \in fin' : m \in fin \/ m.acks \subseteq Told
    BY <1>1, ClientSays
  <2> QED
    BY <1>0, <2>1, NothingNewTold DEF ServerState
<1>2. CASE \E m \in toServer : ServerRecv(m)
  BY <1>2, ServerHears, NothingNewTold
<1>3. CASE \E d \in Datagrams : ServerSend(d)
  <2>1. PICK d \in Datagrams : ServerSend(d)
    BY <1>3
  <2> DEFINE early  == server.early \/ d = <<EARLY>>
             credit == IF server.credit > 0 THEN server.credit - 1 ELSE 0
  <2>2. server' = [server EXCEPT !.early = early, !.credit = credit]
    BY <2>1 DEF ServerSend
  <2>3. early \in BOOLEAN /\ credit \in Int
    BY DEF ServerState
  <2> HIDE DEF early, credit
  <2>4. ServerState' /\ server'.acked = server.acked
    BY <2>2, <2>3 DEF ServerState
  <2>5. UNCHANGED <<noted, got, fin, toServer>>
    BY <2>1 DEF ServerSend, clientVars, tlsVars, streamVars
  <2> QED
    BY <1>0, <2>4, <2>5, NothingNewTold
<1>4. CASE UNCHANGED <<noted, got, fin, server>> /\ toServer' \subseteq toServer
  BY <1>0, <1>4, NothingNewTold DEF ServerState
<1>5. CASE PumpBegin \/ (\E d \in toClient : RecvDatagram(d)) \/ DrainEnd \/ H3Parse \/ Complete
  BY <1>4, <1>5 DEF PumpBegin, RecvDatagram, DrainEnd, H3Parse, Complete, clientVars, tlsVars, streamVars,
                    netVars, envVars
<1>6. CASE TimersDeadline \/ TimersProgress \/ TimersWait
  BY <1>4, <1>6 DEF TimersDeadline, TimersProgress, TimersWait, TimersUnchanged, tlsVars, streamVars, envVars
<1>7. CASE Lose \/ Unreachable \/ DeadlinePasses \/ UNCHANGED vars
  BY <1>4, <1>7 DEF Lose, Unreachable, DeadlinePasses, vars, clientVars, tlsVars, streamVars, netVars, envVars
<1> QED
  BY <1>1, <1>2, <1>3, <1>5, <1>6, <1>7 DEF Next, Pump

(* A packet that is noted has been recorded, unless that ends the transfer. *)
LEMMA NotedIsHeld ==
  ASSUME HsCap >= HsLen, IInv, RecvPacket, status \in {0} \cup -6 .. -1, status' >= 0,
         NEW s \in 0 .. 2, NEW p \in noted'[s], p \notin noted[s]
  PROVE  p \in ServerPackets /\ Held(p)'
<1> DEFINE q == Head(dgram)
<1>1. /\ noted \in [0 .. 2 -> SUBSET ServerPackets] /\ keys \in SUBSET (0 .. 2)
      /\ dgram \in Seq(ServerPackets) /\ HsCap \in Nat
  BY ConstantsAssumption DEF IInv, Typed, TypeOK
<1>2. q \in ServerPackets
  <2>1. dgram # <<>>
    BY DEF RecvPacket
  <2> QED
    BY <1>1, <2>1
<1> HIDE DEF q
<1>3. Space(q) \in keys
  <2> SUFFICES ASSUME Space(q) \notin keys PROVE FALSE
    OBVIOUS
  <2>1. noted' = noted
    BY DEF RecvPacket, streamVars, q
  <2> QED
    BY <2>1
<1>4. PICK refused \in BOOLEAN : Accept(q, refused)
  BY <1>3 DEF RecvPacket, q
<1>5. Space(q) \in 0 .. 2 /\ Typed
  BY <1>1, <1>3 DEF IInv
<1>6. Note(q, refused)
  BY <1>4 DEF Accept
<1>7. Noted(q) /\ (refused => noted' = noted)
  BY <1>2, <1>5, <1>6, NoteIs
<1>8. p = q /\ ~refused
  BY <1>7 DEF Noted
<1>9. CASE q.k \in {"EARLY", "DONE", "CLOSE"}
  <2>1. Units(q) = {}
    BY <1>2, <1>9, PacketIs
  <2> QED
    BY <1>2, <1>8, <2>1 DEF Held
<1>10. CASE Record(q, refused)
  BY <1>2, <1>5, <1>8, <1>10, RecordIs DEF Held
<1>11. CASE q.k \in {"SH", "HS"}
  <2>1. ~(Space(q) = 1 /\ q.hi > HsCap)
    <3>1. Space(q) = 1 => q.k = "HS"
      BY <1>2, <1>11, PacketIs
    <3>2. q.k = "HS" => q.hi <= HsLen /\ q.hi \in Nat
      BY <1>2, PacketIs
    <3> QED
      BY <1>1, <3>1, <3>2 DEF HsLen
  <2>2. CryptoIn(q, refused)
    BY <1>4, <1>11 DEF Accept
  <2> QED
    BY <1>10, <2>1, <2>2 DEF CryptoIn
<1>12. CASE q.k = "RESP"
  <2>1. StreamIn(q, refused)
    BY <1>4, <1>12 DEF Accept
  <2>2. ~(q.hi > BodyRoom)
    <3> SUFFICES ASSUME q.hi > BodyRoom PROVE FALSE
      OBVIOUS
    <3>1. status' = Fail(-5)
      BY <2>1 DEF StreamIn
    <3> QED
      BY <3>1 DEF Fail
  <2> QED
    BY <1>10, <2>1, <2>2 DEF StreamIn
<1>13. q.k # "RETRY"
  BY <1>2, <1>5, PacketIs
<1> QED
  BY <1>2, <1>9, <1>11, <1>12, <1>13, PacketIs

(* Receiving takes nothing back. *)
LEMMA GotGrows ==
  ASSUME IInv, RecvPacket
  PROVE  /\ \A s \in 0 .. 2 : got[s] \subseteq got'[s]
         /\ noted' \in [0 .. 2 -> SUBSET ServerPackets]
         /\ UNCHANGED <<server, toServer, fin, pc>>
<1>1. dgram \in Seq(ServerPackets) /\ dgram # <<>> /\ Typed /\ noted \in [0 .. 2 -> SUBSET ServerPackets]
  BY DEF RecvPacket, IInv, Typed, TypeOK
<1> DEFINE p == Head(dgram)
<1>2. p \in ServerPackets
  BY <1>1
<1> HIDE DEF p
<1>3. UNCHANGED <<server, toServer, fin, pc>>
  BY DEF RecvPacket, netVars, envVars, tlsVars
<1>4. CASE Space(p) \notin keys
  BY <1>1, <1>3, <1>4 DEF RecvPacket, p, streamVars
<1>5. CASE Space(p) \in keys
  <2>1. PICK refused \in BOOLEAN : Accept(p, refused)
    BY <1>5 DEF RecvPacket, p
  <2>2. Recorded(p) /\ noted' \in [0 .. 2 -> SUBSET ServerPackets]
    BY <1>1, <1>2, <1>5, <2>1, AcceptIs
  <2> QED
    BY <1>3, <2>2 DEF Recorded
<1> QED
  BY <1>4, <1>5

(* What is held stays held. *)
LEMMA HeldStays ==
  ASSUME NEW p \in ServerPackets, Held(p), \A s \in 0 .. 2 : got[s] \subseteq got'[s]
  PROVE  Held(p)'
<1>1. Space(p) \in 0 .. 2 \/ Units(p) = {}
  BY PacketIs
<1> QED
  BY <1>1 DEF Held

(* No step tells the server of a packet that is not held. *)
LEMMA ToldStaysHeld ==
  ASSUME HsCap >= HsLen, IInv, KInv, [Next]_vars
  PROVE  KInv'
<1>0. status \in -6 .. 1
  BY DEF IInv, Typed, TypeOK
<1>1. status' >= 0 => status >= 0
  BY <1>0, StatusSteps
<1>2. CASE RecvPacket
  <2>1. /\ \A s \in 0 .. 2 : got[s] \subseteq got'[s]
        /\ noted' \in [0 .. 2 -> SUBSET ServerPackets]
        /\ UNCHANGED <<server, toServer, fin, pc>>
    BY <1>2, GotGrows
  <2>2. pc = "drain" /\ status # 1
    BY <1>2 DEF RecvPacket, KInv
  <2>3. /\ ServerState' /\ server'.acked = server.acked /\ AcksOf(toServer') = AcksOf(toServer)
        /\ AcksOf(fin') = AcksOf(fin)
    BY <2>1 DEF KInv, ServerState
  <2>4. ASSUME NEW p \in Told' PROVE p \in Told \/ \E s \in 0 .. 2 : p \in noted'[s] /\ p \notin noted[s]
    BY <2>3 DEF Told, AcksOf
  <2>5. Told' \subseteq ServerPackets
    BY <2>1, <2>4 DEF KInv
  <2>6. ASSUME status' >= 0, NEW p \in Told' PROVE Held(p)'
    <3>1. CASE p \in Told
      <4>1. Held(p) /\ p \in ServerPackets
        BY <1>1, <2>6, <3>1 DEF KInv
      <4> QED
        BY <2>1, <4>1, HeldStays
    <3>2. CASE \E s \in 0 .. 2 : p \in noted'[s] /\ p \notin noted[s]
      <4>1. status \in {0} \cup -6 .. -1
        BY <1>0, <2>2
      <4> QED
        BY <1>2, <2>6, <3>2, <4>1, NotedIsHeld
    <3> QED
      BY <2>4, <3>1, <3>2
  <2>7. status' # 1
    BY <1>2, <2>2, RecvPacketKeeps
  <2> QED
    BY <2>3, <2>5, <2>6, <2>7 DEF KInv
<1>3. CASE ~RecvPacket
  <2>1. ServerState' /\ Told' \subseteq Told /\ got' = got
    BY <1>3, OthersTellNothingNew DEF KInv
  <2>2. \A p : Held(p)' <=> Held(p)
    BY <2>1 DEF Held
  <2>3. status' >= 0 => \A p \in Told' : Held(p)'
    BY <1>1, <2>1, <2>2 DEF KInv
  <2>4. status' = 1 => pc' # "drain"
    <3>1. CASE status' = status
      <4>1. pc' = "drain" => pc = "drain" \/ status = 0
        BY <1>3 DEF Next, Pump, PumpBegin, RecvDatagram, DrainEnd, TlsStep, SendApp, H3Parse,
             Complete, FlushAcks, TimersDeadline, TimersProgress, TimersWait, Probe,
             Close, ServerSend, ServerRecv, Lose, Unreachable, DeadlinePasses, vars
      <4> QED
        BY <3>1, <4>1 DEF KInv
    <3>2. CASE status' # status /\ status' = 1
      <4>1. CASE Complete
        BY <4>1 DEF Complete
      <4>2. CASE DrainEnd \/ TlsStep \/ TimersDeadline \/ Probe
        BY <3>2, <4>2, DrainEndKeeps, TlsStepKeeps, TimersKeep
      <4>3. CASE SendApp \/ H3Parse
        BY <3>2, <4>3 DEF SendApp, H3Parse
      <4>4. UNCHANGED Seen => FALSE
        BY <3>2 DEF Seen
      <4> QED
        BY <1>3, <4>1, <4>2, <4>3, <4>4, QuietSteps DEF Next, Pump
    <3> QED
      BY <3>1, <3>2
  <2> QED
    BY <2>1, <2>3, <2>4 DEF KInv
<1> QED
  BY <1>2, <1>3

(* Whatever the server was told of has been recorded, while the transfer can
   still succeed, if the Handshake flight fits its buffer: beyond it a frame is
   dropped and yet acknowledged. *)
THEOREM AcknowledgedIsHeld ==
  ASSUME HsCap >= HsLen
  PROVE  Spec => []AckedIsHeld
<1>1. Init => KInv
  <2> SUFFICES ASSUME Init PROVE KInv
    OBVIOUS
  <2>1. Told = {}
    BY SentIs DEF Init, Told, AcksOf
  <2>2. ServerState
    BY DEF Init, ServerState
  <2> QED
    BY <2>1, <2>2 DEF Init, KInv
<1>2. KInv => AckedIsHeld
  BY DEF KInv, AckedIsHeld, Acknowledged, Told, AcksOf, Held
<1> QED
  BY <1>1, <1>2, ToldStaysHeld, ConnectionIsSound, PTL DEF Spec
=============================================================================
