--------------------------- MODULE QuicPartsProofs ---------------------------
(***************************************************************************)
(* Proofs about two parts of the QUIC client that keep to themselves: the  *)
(* timers and the reassembly of a stream.  Away from the wrap of the clock *)
(* the timers are exact, whatever the timeout, the backoff, the retry      *)
(* budget and the size of the clock.  The bookkeeping of qcn-seg-add! is   *)
(* sound for every table, every buffer and every set of frames, and the    *)
(* loop qcn-seg-absorb! runs reaches its closed form.                      *)
(***************************************************************************)
EXTENDS QuicTimers, QuicAbsorb, DataLemmas, FiniteSetTheorems

(* The timers.                                                             *)

(* No reading from quic-connect to the horizon, and no deadline, reaches the
   values that cget reads as negative. *)
AwayFromWrap ==
  \A s \in Starts : s + Horizon < Modulus - Band /\ s + Timeout < Modulus - Band

(* The slots hold true times: this is what lets comparisons of slots speak
   about time. *)
SlotsAreTimes ==
  /\ start \in Starts /\ t \in 0 .. Horizon /\ sentAt \in 0 .. t
  /\ lastSend = start + sentAt /\ deadline = start + Timeout
  /\ pto \in Nat /\ retries \in 0 .. (MaxRetries + 1) /\ status \in {-1, 0}

EndedForAReason ==
  status = -1 => t > Timeout \/ retries > MaxRetries

(* A transfer that goes on has not used up its retries, and waits for the
   timeout they call for. *)
BackoffFollows ==
  /\ pto = Backoff[retries]
  /\ status = 0 => retries <= MaxRetries

TimersInv == SlotsAreTimes /\ EndedForAReason /\ BackoffFollows

(* The backoff exists and doubles. *)
LEMMA BackoffDoubles ==
  /\ Backoff \in [Nat -> Nat] /\ Backoff[0] = Base
  /\ \A k \in Nat : Backoff[k + 1] = 2 * Backoff[k]
<1> DEFINE step == [p \in Nat \X Nat |-> 2 * p[2]]
           Is(f) == f = [k \in Nat |-> IF k = 0 THEN Base ELSE 2 * f[k - 1]]
<1>1. Base \in Nat
  BY ConstantsAssumption
<1>2. step \in [Nat \X Nat -> Nat]
  OBVIOUS
<1>3. PICK f : f \in Recursions(Nat, Base, step)
  <2> HIDE DEF step
  <2> QED
    BY <1>1, <1>2, NatRecursion
<1>4. /\ f \in [Nat -> Nat]
      /\ \A k \in Nat : f[k] = IF k = 0 THEN Base ELSE 2 * f[k - 1]
  <2>1. /\ f \in [Nat -> Nat] /\ f[0] = Base
        /\ \A k \in Nat \ {0} : f[k] = step[<<k, f[k - 1]>>]
    BY <1>3 DEF Recursions
  <2>2. ASSUME NEW k \in Nat, k # 0 PROVE f[k] = 2 * f[k - 1]
    <3>1. <<k, f[k - 1]>> \in Nat \X Nat /\ f[k] = step[<<k, f[k - 1]>>]
      BY <2>1, <2>2
    <3> QED
      BY <3>1
  <2> QED
    BY <2>1, <2>2
<1>5. Is(f)
  BY <1>4
<1>6. Backoff = CHOOSE g : Is(g)
  BY DEF Backoff
<1>7. Is(Backoff)
  <2> HIDE DEF Is
  <2> QED
    BY <1>5, <1>6
<1>8. Backoff = [k \in Nat |-> IF k = 0 THEN Base ELSE 2 * Backoff[k - 1]]
  BY <1>7
<1> DEFINE Small == {k \in Nat : Backoff[k] \in Nat}
<1> HIDE DEF Is
<1>9. \A k \in Nat : Backoff[k] = IF k = 0 THEN Base ELSE 2 * Backoff[k - 1]
  BY <1>8
<1>10. ASSUME NEW n \in Nat, \A m \in 0 .. n - 1 : m \in Small PROVE n \in Small
  <2>1. n # 0 => Backoff[n - 1] \in Nat
    BY <1>10
  <2> QED
    BY <1>1, <1>9, <2>1
<1>11. Nat \subseteq Small
  <2> HIDE DEF Small
  <2> QED
    BY <1>10, Induction
<1>12. Backoff \in [Nat -> Nat]
  BY <1>8, <1>11
<1>13. ASSUME NEW k \in Nat PROVE Backoff[k + 1] = 2 * Backoff[k]
  BY <1>9
<1> QED
  BY <1>9, <1>12, <1>13

LEMMA ModSmall ==
  ASSUME NEW x \in Nat, NEW m \in Nat, x < m
  PROVE  x % m = x
  OBVIOUS

(* What the clock and the slot accesses compute on readings below the band. *)
LEMMA ReadsAreExact ==
  ASSUME NEW x \in Nat, x < Modulus - Band
  PROVE  Store(x) = x /\ Load(x) = x /\ x % Modulus = x
<1>1. Modulus \in Nat /\ Band \in Nat
  BY ConstantsAssumption
<1>2. x < Modulus
  BY <1>1
<1>3. x % Modulus = x
  BY <1>1, <1>2, ModSmall
<1> QED
  BY <1>1, <1>3 DEF Store, Load

LEMMA ClockIsExact ==
  ASSUME SlotsAreTimes, AwayFromWrap
  PROVE  /\ Now = start + t /\ Now \in Nat /\ Now < Modulus - Band
         /\ Load(lastSend) = start + sentAt
         /\ Load(deadline) = start + Timeout
         /\ Store(Now) = start + t
<1>1. /\ start \in Nat /\ t \in Nat /\ sentAt \in Nat /\ t <= Horizon /\ sentAt <= t
      /\ Timeout \in Nat /\ Horizon \in Nat /\ Modulus \in Nat /\ Band \in Nat
  BY ConstantsAssumption DEF SlotsAreTimes
<1>2. start + Horizon < Modulus - Band /\ start + Timeout < Modulus - Band
  BY DEF SlotsAreTimes, AwayFromWrap
<1>3. start + t < Modulus - Band /\ start + sentAt < Modulus - Band
  BY <1>1, <1>2
<1>4. Now = start + t
  BY <1>1, <1>3, ReadsAreExact DEF Now
<1>5. Load(start + sentAt) = start + sentAt /\ Load(start + Timeout) = start + Timeout
  BY <1>1, <1>2, <1>3, ReadsAreExact
<1>6. Store(start + t) = start + t
  BY <1>1, <1>3, ReadsAreExact
<1> QED
  BY <1>1, <1>3, <1>4, <1>5, <1>6 DEF SlotsAreTimes

-----------------------------------------------------------------------------
LEMMA InitIsInv == TimersInit /\ AwayFromWrap => TimersInv
<1> SUFFICES ASSUME TimersInit, AwayFromWrap PROVE TimersInv
  OBVIOUS
<1>1. /\ start \in Nat /\ start \in Starts /\ Timeout \in Nat /\ Horizon \in Nat
      /\ Modulus \in Nat /\ Band \in Nat /\ Base \in Nat
  BY ConstantsAssumption DEF TimersInit
<1>2. start + Horizon < Modulus - Band /\ start + Timeout < Modulus - Band
  BY <1>1 DEF AwayFromWrap
<1>3. t = 0 /\ sentAt = 0 /\ status = 0 /\ retries = 0 /\ pto = Base
  BY DEF TimersInit
<1>4. Now = start
  BY <1>1, <1>2, <1>3, ReadsAreExact DEF Now
<1>5. lastSend = start /\ deadline = start + Timeout
  BY <1>1, <1>2, <1>4, ReadsAreExact DEF TimersInit
<1>6. Backoff[0] = Base /\ MaxRetries \in Nat
  BY ConstantsAssumption, BackoffDoubles
<1> QED
  BY <1>1, <1>3, <1>5, <1>6 DEF TimersInv, SlotsAreTimes, EndedForAReason, BackoffFollows

LEMMA NextKeepsInv == TimersInv /\ AwayFromWrap /\ [TimersNext]_timerVars => TimersInv'
<1> SUFFICES ASSUME TimersInv, AwayFromWrap, [TimersNext]_timerVars PROVE TimersInv'
  OBVIOUS
<1>t. /\ start \in Starts /\ start \in Nat /\ t \in 0 .. Horizon /\ sentAt \in 0 .. t
      /\ lastSend = start + sentAt /\ deadline = start + Timeout
      /\ pto \in Nat /\ retries \in 0 .. (MaxRetries + 1) /\ status \in {-1, 0}
      /\ pto = Backoff[retries] /\ (status = 0 => retries <= MaxRetries)
      /\ Timeout \in Nat /\ Horizon \in Nat /\ MaxRetries \in Nat /\ Base \in Nat
      /\ (status = -1 => t > Timeout \/ retries > MaxRetries)
  BY ConstantsAssumption DEF TimersInv, SlotsAreTimes, EndedForAReason, BackoffFollows
<1>c. /\ Now = start + t
      /\ Load(deadline) = start + Timeout
      /\ Store(Now) = start + t
  BY ClockIsExact DEF TimersInv
<1>1. CASE Tick
  BY <1>1, <1>t DEF Tick, TimersInv, SlotsAreTimes, EndedForAReason, BackoffFollows
<1>2. CASE Hear
  BY <1>2, <1>t DEF Hear, TimersInv, SlotsAreTimes, EndedForAReason, BackoffFollows
<1>3. CASE SendFlight
  BY <1>3, <1>t, <1>c DEF SendFlight, TimersInv, SlotsAreTimes, EndedForAReason, BackoffFollows
<1>4. CASE Expire
  <2>1. t > Timeout
    BY <1>4, <1>t, <1>c DEF Expire, Expired
  <2> QED
    BY <1>4, <1>t, <2>1 DEF Expire, TimersInv, SlotsAreTimes, EndedForAReason, BackoffFollows
<1>5. CASE Rearm
  <2>1. Backoff[0] = Base
    BY BackoffDoubles
  <2> QED
    BY <1>5, <1>t, <1>c, <2>1 DEF Rearm, ResetBackoff, TimersInv, SlotsAreTimes, EndedForAReason, BackoffFollows
<1>6. CASE Probe
  <2>1. 2 * pto = Backoff[retries + 1] /\ pto * 2 = 2 * pto
    BY <1>t, BackoffDoubles
  <2> QED
    BY <1>6, <1>t, <1>c, <2>1 DEF Probe, TimersInv, SlotsAreTimes, EndedForAReason, BackoffFollows
<1>7. CASE UNCHANGED timerVars
  BY <1>7, <1>t DEF timerVars, TimersInv, SlotsAreTimes, EndedForAReason, BackoffFollows
<1>8. CASE Wait
  BY <1>8, <1>7 DEF Wait
<1> QED
  BY <1>1, <1>2, <1>3, <1>4, <1>5, <1>6, <1>7, <1>8 DEF TimersNext, Timers

-----------------------------------------------------------------------------
(* The slots keep holding true times. *)
THEOREM TimesAreTracked == AwayFromWrap => (TimersSpec => []TimersInv)
<1> SUFFICES ASSUME AwayFromWrap PROVE TimersSpec => []TimersInv
  OBVIOUS
<1>1. TimersInit => TimersInv
  BY InitIsInv
<1>2. TimersInv /\ [TimersNext]_timerVars => TimersInv'
  BY NextKeepsInv
<1> QED
  BY <1>1, <1>2, PTL DEF TimersSpec

(* No transfer times out before timeout-ms, unless its probes are exhausted. *)
THEOREM TimesOutInTime == AwayFromWrap => (TimersSpec => []NeverEarly)
<1> SUFFICES ASSUME AwayFromWrap PROVE TimersSpec => []NeverEarly
  OBVIOUS
<1>1. TimersInv => NeverEarly
  BY DEF TimersInv, EndedForAReason, NeverEarly
<1>2. TimersSpec => []TimersInv
  BY TimesAreTracked
<1> QED
  BY <1>1, <1>2, PTL

(* A pump that runs after the deadline sees that it has passed. *)
THEOREM DeadlineSeen == AwayFromWrap => (TimersSpec => []DeadlineIsSeen)
<1> SUFFICES ASSUME AwayFromWrap PROVE TimersSpec => []DeadlineIsSeen
  OBVIOUS
<1>1. ASSUME TimersInv PROVE DeadlineIsSeen
  <2>1. Now = start + t /\ Load(deadline) = start + Timeout
    BY <1>1, ClockIsExact DEF TimersInv
  <2>2. start \in Nat /\ t \in Nat /\ Timeout \in Nat
    BY <1>1, ConstantsAssumption DEF TimersInv, SlotsAreTimes
  <2> QED
    BY <2>1, <2>2 DEF DeadlineIsSeen, Expired
<1>2. TimersSpec => []TimersInv
  BY TimesAreTracked
<1> QED
  BY <1>1, <1>2, PTL

(* The probe timer is over as soon as more than its timeout has passed since
   the last send. *)
THEOREM ProbeSeen == AwayFromWrap => (TimersSpec => []ProbeIsSeen)
<1> SUFFICES ASSUME AwayFromWrap PROVE TimersSpec => []ProbeIsSeen
  OBVIOUS
<1>1. ASSUME TimersInv PROVE ProbeIsSeen
  <2>1. Now = start + t /\ Load(lastSend) = start + sentAt
    BY <1>1, ClockIsExact DEF TimersInv
  <2>2. start \in Nat /\ t \in Nat /\ sentAt \in Nat /\ pto \in Nat
    BY <1>1, ConstantsAssumption DEF TimersInv, SlotsAreTimes
  <2> QED
    BY <2>1, <2>2 DEF ProbeIsSeen, PtoOver
<1>2. TimersSpec => []TimersInv
  BY TimesAreTracked
<1> QED
  BY <1>1, <1>2, PTL

(* The slots hold what the program keeps in them, and the probe timeout is the
   base, doubled once per probe since the last progress. *)
THEOREM TimersTyped == AwayFromWrap => (TimersSpec => []TimersTypeOK)
<1> SUFFICES ASSUME AwayFromWrap PROVE TimersSpec => []TimersTypeOK
  OBVIOUS
<1>1. ASSUME TimersInv, progress \in BOOLEAN PROVE TimersTypeOK
  <2>1. /\ start \in Starts /\ start \in Nat /\ t \in 0 .. Horizon /\ sentAt \in 0 .. t
        /\ Modulus \in Nat /\ Band \in Nat /\ Timeout \in Nat /\ Horizon \in Nat
    BY <1>1, ConstantsAssumption DEF TimersInv, SlotsAreTimes
  <2>2. start + Horizon < Modulus - Band /\ start + Timeout < Modulus - Band
    BY <2>1 DEF AwayFromWrap
  <2> DEFINE Ranges == /\ start \in Starts /\ t \in 0 .. Horizon /\ sentAt \in 0 .. t
                       /\ status \in {-1, 0}
                       /\ lastSend \in 0 .. (Modulus - 1) /\ deadline \in 0 .. (Modulus - 1)
                       /\ retries \in 0 .. (MaxRetries + 1) /\ pto = Backoff[retries]
  <2>3. Ranges
    BY <1>1, <2>1, <2>2 DEF TimersInv, SlotsAreTimes, BackoffFollows
  <2> QED
    BY <1>1, <2>3, Zenon DEF TimersTypeOK
<1>2. TimersInit => progress \in BOOLEAN
  BY DEF TimersInit
<1>3. progress \in BOOLEAN /\ [TimersNext]_timerVars => (progress \in BOOLEAN)'
  BY Zenon DEF TimersNext, Timers, Tick, Hear, SendFlight, Expire, Rearm, Probe, Wait, timerVars
<1>4. TimersSpec => []TimersInv
  BY TimesAreTracked
<1> QED
  BY <1>1, <1>2, <1>3, <1>4, PTL DEF TimersSpec

(* A probe goes out only when more than the backed-off timeout has passed since
   the last send or rearming (qcn-timers!, qcn-retransmit!). *)
THEOREM ProbesSpaced == AwayFromWrap => (TimersSpec => ProbesAreSpaced)
<1> SUFFICES ASSUME AwayFromWrap PROVE TimersSpec => ProbesAreSpaced
  OBVIOUS
<1>1. ASSUME TimersInv, [TimersNext]_timerVars, retries' > retries PROVE t - sentAt > Backoff[retries]
  <2>1. /\ retries \in Nat /\ start \in Nat /\ t \in Nat /\ sentAt \in Nat /\ pto \in Nat
        /\ pto = Backoff[retries]
    BY <1>1, ConstantsAssumption DEF TimersInv, SlotsAreTimes, BackoffFollows
  <2>2. Now = start + t /\ Load(lastSend) = start + sentAt
    BY <1>1, ClockIsExact DEF TimersInv
  <2>3. Probe
    BY <1>1, <2>1 DEF TimersNext, Timers, Tick, Hear, SendFlight, Expire, Rearm, ResetBackoff, Wait, timerVars
  <2> QED
    BY <2>1, <2>2, <2>3 DEF Probe, PtoOver
<1>2. TimersInv /\ [TimersNext]_timerVars => [retries' > retries => t - sentAt > Backoff[retries]]_timerVars
  BY <1>1
<1>3. TimersSpec => []TimersInv
  BY TimesAreTracked
<1> QED
  BY <1>2, <1>3, PTL DEF TimersSpec, ProbesAreSpaced

-----------------------------------------------------------------------------
(* Reassembly.                                                             *)

(* The inductive invariant: a pending interval must lie beyond the prefix for
   the prefix to be maximal, and the packet being processed must be recorded
   for its acknowledgement to be safe. *)
IInv == /\ TypeOK
        /\ PendingBeyondPrefix
        /\ AckedIsRecorded
        /\ PacketIsRecorded
        /\ RecordedIsReceived

USE DEF Slot, Free, Bytes, Smaller, Larger, Live

-----------------------------------------------------------------------------
(* The absorb passes of qcn-seg-absorb! have a least closed prefix to end at,
   since the end of the buffer is closed. *)
LEMMA AbsorbedIsLeast ==
  ASSUME TypeOK, NEW h0 \in 0 .. Size
  PROVE  /\ Absorbed(h0) \in h0 .. Size
         /\ Closed(Absorbed(h0))
         /\ \A g \in h0 .. Size : Closed(g) => Absorbed(h0) <= g
<1> DEFINE C == {h \in h0 .. Size : Closed(h)}
<1>1. C \subseteq Nat
  BY SizeAssumption
<1>2. Size \in C
  BY SizeAssumption DEF Closed, TypeOK
<1>3. PICK m \in C : \A k \in C : m <= k
  BY <1>1, <1>2, LeastElement
<1>4. /\ m \in h0 .. Size
      /\ Closed(m)
      /\ \A g \in h0 .. Size : Closed(g) => m <= g
  BY <1>3
<1> QED
  BY <1>4 DEF Absorbed

(* What one call of qcn-seg-add! does to the set of recorded bytes: it never
   loses one, never invents one, and either records the whole frame or
   raises slot 480. *)
LEMMA SegAddRecords ==
  ASSUME TypeOK, PendingBeyondPrefix,
         NEW c \in Chunks, SegAdd(c.off, c.len)
  PROVE  /\ have' \in 0 .. Size
         /\ seg' \in [Slot -> [s : 0 .. Size, e : 0 .. Size]]
         /\ overflow' \in BOOLEAN
         /\ PendingBeyondPrefix'
         /\ have <= have'
         /\ Recorded \subseteq Recorded'
         /\ Recorded' \subseteq Recorded \cup Bytes(c.off, c.off + c.len)
         /\ Recorded' = Recorded \/ Bytes(c.off, c.off + c.len) \subseteq Recorded'
         /\ overflow \/ Bytes(c.off, c.off + c.len) \subseteq Recorded' \/ overflow'
         /\ overflow => overflow'
<1> DEFINE off == c.off
           e == c.off + c.len
<1>0. off \in Nat /\ c.len \in Nat /\ e \in Nat /\ e <= Size /\ Size \in Nat
  BY ChunksAssumption, SizeAssumption
<1>1. CASE c.len = 0
  BY <1>0, <1>1 DEF SegAdd, Ignore, TypeOK, PendingBeyondPrefix, Recorded
<1>2. CASE c.len # 0 /\ Extend(off, e)
  <2> DEFINE h0 == Larger(have, e)
             h == Absorbed(h0)
  <2>1. h0 \in 0 .. Size /\ have <= h0 /\ e <= h0 /\ off <= have
    BY <1>0, <1>2 DEF TypeOK, Extend
  <2>2. /\ h \in h0 .. Size
        /\ Closed(h)
        /\ \A g \in h0 .. Size : Closed(g) => h <= g
    BY <2>1, AbsorbedIsLeast
  <2>3. /\ have' = h
        /\ seg' = [i \in Slot |-> IF seg[i].s <= h THEN Free ELSE seg[i]]
        /\ overflow' = overflow
    BY <1>2 DEF Extend
  <2> HIDE DEF h
  <2>4. have' \in 0 .. Size /\ have <= have' /\ overflow' \in BOOLEAN
    BY <2>1, <2>2, <2>3, <1>0 DEF TypeOK
  <2>5. seg' \in [Slot -> [s : 0 .. Size, e : 0 .. Size]]
    BY <2>3, <1>0 DEF TypeOK
  <2>6. PendingBeyondPrefix'
    BY <2>2, <2>3, <1>0 DEF TypeOK, PendingBeyondPrefix
  <2>7. Recorded \subseteq Recorded'
    BY <2>1, <2>2, <2>3, <1>0 DEF TypeOK, Recorded, Closed
  <2>8. ASSUME NEW b \in Recorded', b \notin Recorded, b >= e PROVE FALSE
    <3>1. b \in h0 .. Size /\ b < h
      BY <2>1, <2>2, <2>3, <2>8, <1>0 DEF TypeOK, Recorded
    <3>2. Closed(b)
      BY <2>8, <3>1, <1>0 DEF Closed, TypeOK, Recorded
    <3> QED
      BY <3>1, <3>2, <2>2
  <2>9. Recorded' \subseteq Recorded \cup Bytes(off, e)
    <3> SUFFICES ASSUME NEW b \in Recorded', b \notin Recorded
                 PROVE  b \in Bytes(off, e)
      OBVIOUS
    <3>1. b < e
      BY <2>8, <1>0 DEF Recorded
    <3>2. b >= have
      BY <1>0 DEF Recorded, TypeOK
    <3> QED
      BY <3>1, <3>2, <2>1, <1>0 DEF TypeOK, Recorded
  <2>10. Bytes(off, e) \subseteq Recorded'
    BY <2>1, <2>2, <2>3, <1>0 DEF Recorded, TypeOK
  <2> QED
    BY <2>3, <2>4, <2>5, <2>6, <2>7, <2>9, <2>10
<1>3. CASE c.len # 0 /\ Merge(off, e)
  <2>1. PICK i \in Slot :
          /\ IsFirst(i, Touching(off, e))
          /\ seg' = [seg EXCEPT ![i] = [s |-> Smaller(off, seg[i].s),
                                        e |-> Larger(e, seg[i].e)]]
    BY <1>3 DEF Merge
  <2>2. have' = have /\ overflow' = overflow /\ off > have
    BY <1>3 DEF Merge
  <2>3. Live(i) /\ off <= seg[i].e /\ e >= seg[i].s
    BY <2>1 DEF IsFirst, Touching
  <2>4. seg' \in [Slot -> [s : 0 .. Size, e : 0 .. Size]]
    BY <2>1, <1>0 DEF TypeOK
  <2>5. PendingBeyondPrefix'
    BY <2>1, <2>2, <2>3, <1>0, <1>3 DEF TypeOK, PendingBeyondPrefix
  <2>6. Recorded \subseteq Recorded'
    BY <2>1, <2>2, <2>3, <1>0 DEF TypeOK, Recorded
  <2>7. Recorded' \subseteq Recorded \cup Bytes(off, e)
    BY <2>1, <2>2, <2>3, <1>0 DEF TypeOK, Recorded
  <2>8. Bytes(off, e) \subseteq Recorded'
    BY <2>1, <2>2, <2>3, <1>0 DEF TypeOK, Recorded
  <2> QED
    BY <2>2, <2>4, <2>5, <2>6, <2>7, <2>8 DEF TypeOK
<1>4. CASE c.len # 0 /\ Stash(off, e)
  <2>1. PICK i \in Slot : IsFirst(i, Unused) /\ seg' = [seg EXCEPT ![i] = [s |-> off, e |-> e]]
    BY <1>4 DEF Stash
  <2>2. have' = have /\ overflow' = overflow /\ off > have
    BY <1>4 DEF Stash
  <2>3. seg[i].e = 0
    BY <2>1 DEF IsFirst, Unused, TypeOK
  <2>4. seg' \in [Slot -> [s : 0 .. Size, e : 0 .. Size]]
    BY <2>1, <1>0 DEF TypeOK
  <2>5. PendingBeyondPrefix'
    BY <2>1, <2>2, <1>0, <1>4 DEF TypeOK, PendingBeyondPrefix
  <2>6. Recorded \subseteq Recorded'
    BY <2>1, <2>2, <2>3, <1>0 DEF TypeOK, Recorded
  <2>7. Recorded' \subseteq Recorded \cup Bytes(off, e)
    BY <2>1, <2>2, <2>3, <1>0 DEF TypeOK, Recorded
  <2>8. Bytes(off, e) \subseteq Recorded'
    BY <2>1, <2>2, <2>3, <1>0 DEF TypeOK, Recorded
  <2> QED
    BY <2>2, <2>4, <2>5, <2>6, <2>7, <2>8 DEF TypeOK
<1>5. CASE c.len # 0 /\ Refuse(off, e)
  BY <1>0, <1>5 DEF Refuse, TypeOK, PendingBeyondPrefix, Recorded
<1> QED
  BY <1>1, <1>2, <1>3, <1>4, <1>5 DEF SegAdd

-----------------------------------------------------------------------------
LEMMA InitIInv == Init => IInv
<1> SUFFICES ASSUME Init PROVE IInv
  OBVIOUS
<1>1. have \in 0 .. Size
  BY SizeAssumption DEF Init
<1>2. overflow \in BOOLEAN
  BY DEF Init
<1>3. seg \in [Slot -> [s : 0 .. Size, e : 0 .. Size]]
  <2>1. Free \in [s : 0 .. Size, e : 0 .. Size]
    BY SizeAssumption
  <2> QED
    BY <2>1 DEF Init
<1>4. PendingBeyondPrefix
  BY DEF Init, PendingBeyondPrefix
<1>5. \A b \in 0 .. Size : ~(b < have) /\ \A i \in Slot : b \notin Bytes(seg[i].s, seg[i].e)
  BY SizeAssumption DEF Init
<1>6. Recorded = {}
  BY <1>5 DEF Recorded
<1> QED
  BY <1>1, <1>2, <1>3, <1>4, <1>6 DEF Init, IInv, TypeOK, AckedIsRecorded, PacketIsRecorded, RecordedIsReceived

LEMMA NextIInv == IInv /\ [Next]_vars => IInv'
<1> SUFFICES ASSUME IInv, [Next]_vars PROVE IInv'
  OBVIOUS
<1>1. CASE UNCHANGED vars
  BY <1>1 DEF IInv, vars, TypeOK, PendingBeyondPrefix, AckedIsRecorded,
              PacketIsRecorded, RecordedIsReceived, Recorded
<1>2. CASE PacketDone
  BY <1>2 DEF IInv, PacketDone, TypeOK, PendingBeyondPrefix, AckedIsRecorded,
              PacketIsRecorded, RecordedIsReceived, Recorded
<1>3. ASSUME NEW c \in Chunks, Frame(c) PROVE IInv'
  <2> DEFINE B == Bytes(c.off, c.off + c.len)
  <2>1. /\ have' \in 0 .. Size
        /\ seg' \in [Slot -> [s : 0 .. Size, e : 0 .. Size]]
        /\ overflow' \in BOOLEAN
        /\ PendingBeyondPrefix'
        /\ Recorded \subseteq Recorded'
        /\ Recorded' \subseteq Recorded \cup B
        /\ overflow \/ B \subseteq Recorded' \/ overflow'
        /\ overflow => overflow'
    BY <1>3, SegAddRecords DEF IInv, Frame
  <2>2. pkt' = pkt \cup B /\ received' = received \cup B /\ acked' = acked
    BY <1>3 DEF Frame
  <2>3. B \subseteq 0 .. Size
    BY ChunksAssumption, SizeAssumption
  <2>4. TypeOK'
    BY <2>1, <2>2, <2>3 DEF IInv, TypeOK
  <2>5. AckedIsRecorded'
    BY <2>1, <2>2 DEF IInv, AckedIsRecorded
  <2>6. PacketIsRecorded'
    BY <2>1, <2>2 DEF IInv, PacketIsRecorded
  <2>7. RecordedIsReceived'
    BY <2>1, <2>2 DEF IInv, RecordedIsReceived
  <2> QED
    BY <2>1, <2>4, <2>5, <2>6, <2>7 DEF IInv
<1> QED
  BY <1>1, <1>2, <1>3 DEF Next

(* Every reachable state of the reassembly bookkeeping satisfies the
   inductive invariant. *)
THEOREM Invariance == Spec => []IInv
<1>1. Init => IInv
  BY InitIInv
<1>2. IInv /\ [Next]_vars => IInv'
  BY NextIInv
<1> QED
  BY <1>1, <1>2, PTL DEF Spec

(* Type correctness of the slots qcn-seg-add! keeps. *)
THEOREM TypeCorrect == Spec => []TypeOK
<1>1. IInv => TypeOK
  BY DEF IInv
<1> QED
  BY <1>1, Invariance, PTL

(* An acknowledged byte is a recorded byte: the packet that the interval
   table refused is never acknowledged, whatever the size of the table. *)
THEOREM NoHole == Spec => []AckedIsRecorded
<1>1. IInv => AckedIsRecorded
  BY DEF IInv
<1> QED
  BY <1>1, Invariance, PTL

(* Slot 480 is never left at 0 by mistake: unless a frame of the packet being
   processed was refused, all of them are recorded. *)
THEOREM OverflowIsNoticed == Spec => []PacketIsRecorded
<1>1. IInv => PacketIsRecorded
  BY DEF IInv
<1> QED
  BY <1>1, Invariance, PTL

(* Nothing reaches the reader that no frame carried. *)
THEOREM NoInvention == Spec => []RecordedIsReceived
<1>1. IInv => RecordedIsReceived
  BY DEF IInv
<1> QED
  BY <1>1, Invariance, PTL

(* The byte after the contiguous prefix is always one that is missing: no
   order of arrival leaves the reader waiting for data already there. *)
THEOREM PrefixNeverStuck == Spec => []PrefixIsMaximal
<1>1. IInv => PrefixIsMaximal
  BY DEF IInv, TypeOK, PendingBeyondPrefix, PrefixIsMaximal, Recorded
<1> QED
  BY <1>1, Invariance, PTL

(* No step takes back a byte that was recorded, nor shortens the prefix. *)
THEOREM Monotone == Spec => NeverForgets
<1>1. IInv /\ [Next]_vars => [have <= have' /\ Recorded \subseteq Recorded']_vars
  <2> SUFFICES ASSUME IInv, Next
               PROVE  have <= have' /\ Recorded \subseteq Recorded'
    BY DEF IInv
  <2>1. CASE PacketDone
    BY <2>1 DEF PacketDone, Recorded, IInv, TypeOK
  <2>2. ASSUME NEW c \in Chunks, Frame(c)
        PROVE  have <= have' /\ Recorded \subseteq Recorded'
    BY <2>2, SegAddRecords DEF IInv, Frame
  <2> QED
    BY <2>1, <2>2 DEF Next
<1> QED
  BY <1>1, Invariance, PTL DEF Spec, NeverForgets

(* The prefix is the longest one: the reader sees all there is to read. *)
Readable == Promise!LongestPrefix(have, Recorded)

LEMMA PrefixIsLongest == IInv => Readable
<1> SUFFICES ASSUME IInv PROVE Readable
  OBVIOUS
<1>1. have \in 0 .. Size
  BY DEF IInv, TypeOK
<1>2. have \notin Recorded
  BY DEF IInv, TypeOK, PendingBeyondPrefix, Recorded
<1>3. \A k \in 0 .. (have - 1) : k \in Recorded
  BY SizeAssumption, <1>1 DEF Recorded
<1> QED
  BY <1>1, <1>2, <1>3 DEF Readable, Promise!LongestPrefix

(* The interval table implements the promise of a reassembled stream, for
   every table size: frames whole or not at all, the longest prefix, and
   acknowledgements of recorded bytes only. *)
THEOREM Implements == Spec => ImplementsByteStream
<1> USE DEF Promise!BytesOf
<1>1. Init => Promise!Init
  <2> SUFFICES ASSUME Init PROVE Promise!Init
    OBVIOUS
  <2>1. Recorded \subseteq received
    BY InitIInv DEF IInv, RecordedIsReceived
  <2> QED
    BY <2>1 DEF Init, Promise!Init
<1>2. IInv /\ IInv' /\ Readable' /\ [Next]_vars => [Promise!Next]_(Promise!vars)
  <2> SUFFICES ASSUME IInv, IInv', Readable', [Next]_vars PROVE [Promise!Next]_(Promise!vars)
    OBVIOUS
  <2>1. CASE UNCHANGED vars
    BY <2>1 DEF vars, Promise!vars, Recorded
  <2>2. CASE PacketDone
    <3>1. Recorded' = Recorded /\ have' = have
      BY <2>2 DEF PacketDone, Recorded
    <3>2. acked \subseteq acked'
      BY <2>2 DEF PacketDone
    <3>3. acked' \subseteq Recorded
      BY <3>1 DEF IInv, AckedIsRecorded
    <3> QED
      BY <3>1, <3>2, <3>3 DEF Promise!Next, Promise!Acknowledge
  <2>3. ASSUME NEW c \in Chunks, Frame(c) PROVE Promise!Arrive(c)
    <3> DEFINE B == Bytes(c.off, c.off + c.len)
    <3>1. /\ Recorded \subseteq Recorded'
          /\ Recorded' \subseteq Recorded \cup B
          /\ Recorded' = Recorded \/ B \subseteq Recorded'
          /\ have <= have'
      BY <2>3, SegAddRecords DEF IInv, Frame
    <3>2. B = Promise!BytesOf(c)
      BY ChunksAssumption
    <3>3. Recorded' = Recorded \/ Recorded' = Recorded \cup B
      BY <3>1
    <3>4. Promise!LongestPrefix(have', Recorded')
      BY DEF Readable
    <3>5. have' >= have
      BY <3>1 DEF IInv, TypeOK
    <3> QED
      BY <2>3, <3>2, <3>3, <3>4, <3>5 DEF Frame, Promise!Arrive
  <2> QED
    BY <2>1, <2>2, <2>3 DEF Next, Promise!Next
<1> QED
  BY <1>1, <1>2, Invariance, PrefixIsLongest, PTL DEF Spec, ImplementsByteStream, Promise!Spec

-----------------------------------------------------------------------------
(* The passes of qcn-seg-absorb!.                                          *)

(* What a pass works on. *)
Passing == [have : 0 .. Size, seg : [Slot -> [s : 0 .. Size, e : 0 .. Size]], changed : BOOLEAN]
HeldIn(p) == {i \in Slot : p.seg[i].e > 0}

(* A free slot holds nothing, not even a start. *)
FreeIsZero == \A i \in Slot : ~Live(i) => seg[i] = Free

(* Part of the way from h0 to the least closed prefix: what was freed is covered. *)
Midway(h0, p) ==
  /\ p \in Passing
  /\ h0 <= p.have /\ p.have <= Absorbed(h0)
  /\ \A i \in Slot : p.seg[i] # seg[i] =>
       p.seg[i] = Free /\ seg[i].e <= p.have /\ seg[i].s <= p.have

(* The state of a pass, put together. *)
LEMMA PassingIs ==
  ASSUME NEW h \in 0 .. Size, NEW table \in [Slot -> [s : 0 .. Size, e : 0 .. Size]],
         NEW b \in BOOLEAN
  PROVE  [have |-> h, seg |-> table, changed |-> b] \in Passing
BY Zenon DEF Passing

(* A free slot is reset, whatever happens to the table. *)
LEMMA FreeStaysZero == IInv /\ FreeIsZero /\ [Next]_vars => FreeIsZero'
<1> SUFFICES ASSUME IInv, FreeIsZero, [Next]_vars PROVE FreeIsZero'
  OBVIOUS
<1>1. CASE UNCHANGED vars \/ PacketDone
  BY <1>1 DEF vars, PacketDone, FreeIsZero
<1>2. ASSUME NEW c \in Chunks, Frame(c) PROVE FreeIsZero'
  <2> DEFINE off == c.off
             e == c.off + c.len
  <2>0. off \in Nat /\ c.len \in Nat /\ e \in Nat /\ e <= Size /\ Size \in Nat
    BY ChunksAssumption, SizeAssumption
  <2>1. CASE c.len = 0
    BY <1>2, <2>1 DEF Frame, SegAdd, Ignore, FreeIsZero
  <2>2. CASE c.len # 0 /\ Extend(off, e)
    BY <2>2 DEF Extend, FreeIsZero
  <2>3. CASE c.len # 0 /\ Merge(off, e)
    <3>1. PICK i \in Slot : seg' = [seg EXCEPT ![i] = [s |-> Smaller(off, seg[i].s),
                                                       e |-> Larger(e, seg[i].e)]]
      BY <2>3 DEF Merge
    <3>2. off > have /\ have \in Nat /\ seg \in [Slot -> [s : 0 .. Size, e : 0 .. Size]]
      BY <2>3 DEF Merge, IInv, TypeOK
    <3> QED
      BY <2>0, <3>1, <3>2 DEF FreeIsZero
  <2>4. CASE c.len # 0 /\ Stash(off, e)
    <3>1. PICK i \in Slot : seg' = [seg EXCEPT ![i] = [s |-> off, e |-> e]]
      BY <2>4 DEF Stash
    <3>2. seg \in [Slot -> [s : 0 .. Size, e : 0 .. Size]]
      BY DEF IInv, TypeOK
    <3> QED
      BY <2>0, <2>4, <3>1, <3>2 DEF FreeIsZero
  <2>5. CASE c.len # 0 /\ Refuse(off, e)
    BY <2>5 DEF Refuse, FreeIsZero
  <2> QED
    BY <1>2, <2>1, <2>2, <2>3, <2>4, <2>5 DEF Frame, SegAdd
<1> QED
  BY <1>1, <1>2 DEF Next

(* Looking at one slot of such a state: nothing is lost sight of, and it says
   `changed' exactly when it freed the slot. *)
LEMMA VisitIs ==
  ASSUME TypeOK, NEW h0 \in 0 .. Size, NEW p, Midway(h0, p), NEW i \in Slot
  PROVE  /\ Visit(p, i) \in Passing /\ Midway(h0, Visit(p, i))
         /\ HeldIn(Visit(p, i)) \subseteq HeldIn(p)
         /\ \/ Visit(p, i) = p /\ ~(p.seg[i].e > 0 /\ p.seg[i].s <= p.have)
            \/ Visit(p, i).changed /\ i \in HeldIn(p) /\ i \notin HeldIn(Visit(p, i))
<1> DEFINE q == Visit(p, i)
           A == Absorbed(h0)
<1>1. /\ A \in h0 .. Size /\ Closed(A)
  BY AbsorbedIsLeast
<1>2. p \in Passing /\ Size \in Nat /\ seg \in [Slot -> [s : 0 .. Size, e : 0 .. Size]]
  BY SizeAssumption DEF Midway, TypeOK
<1> HIDE DEF A
<1>3. CASE ~(p.seg[i].e > 0 /\ p.seg[i].s <= p.have)
  BY <1>2, <1>3 DEF Visit
<1>4. CASE p.seg[i].e > 0 /\ p.seg[i].s <= p.have
  <2>1. q = [have |-> Larger(p.have, p.seg[i].e), seg |-> [p.seg EXCEPT ![i] = Free], changed |-> TRUE]
    BY <1>4 DEF Visit
  <2>2. p.seg[i] = seg[i]
    BY <1>4 DEF Midway
  <2>3. p.have <= A /\ h0 <= p.have
    BY DEF Midway, A
  <2>4. p.have \in 0 .. Size /\ p.seg[i].e \in 0 .. Size /\ p.seg[i].s \in 0 .. Size
        /\ A \in 0 .. Size
    <3>1. p.have \in 0 .. Size /\ p.seg \in [Slot -> [s : 0 .. Size, e : 0 .. Size]]
      BY <1>2 DEF Passing
    <3>2. p.seg[i] \in [s : 0 .. Size, e : 0 .. Size]
      BY <3>1
    <3>3. A \in 0 .. Size
      BY <1>1, <1>2
    <3> QED
      BY <3>1, <3>2, <3>3
  <2>5. p.seg[i].e <= A
    BY <1>1, <1>4, <2>2, <2>3, <2>4 DEF Closed
  <2>6. p.seg \in [Slot -> [s : 0 .. Size, e : 0 .. Size]]
    BY <1>2 DEF Passing
  <2>7. q.have = Larger(p.have, p.seg[i].e) /\ q.seg = [p.seg EXCEPT ![i] = Free] /\ q.changed
    BY <2>1
  <2>8. Free \in [s : 0 .. Size, e : 0 .. Size]
    BY <1>2
  <2>9. q.seg \in [Slot -> [s : 0 .. Size, e : 0 .. Size]]
    BY <2>6, <2>7, <2>8
  <2>10. q.have \in 0 .. Size /\ p.have <= q.have /\ p.seg[i].e <= q.have /\ q.have <= A
         /\ p.seg[i].s <= q.have
    BY <1>4, <2>3, <2>4, <2>5, <2>7
  <2>11. q \in Passing
    <3>1. q = [have |-> q.have, seg |-> q.seg, changed |-> TRUE]
      BY <2>1
    <3> HIDE DEF q
    <3> QED
      BY <2>9, <2>10, <3>1, PassingIs
  <2>12. ASSUME NEW j \in Slot, q.seg[j] # seg[j]
         PROVE  q.seg[j] = Free /\ seg[j].e <= q.have /\ seg[j].s <= q.have
    <3>1. CASE j = i
      BY <2>2, <2>6, <2>7, <2>10, <3>1
    <3>2. CASE j # i
      <4>1. q.seg[j] = p.seg[j]
        BY <2>6, <2>7, <3>2
      <4>2. seg[j].e \in 0 .. Size /\ seg[j].s \in 0 .. Size
        BY <1>2
      <4>3. q.seg[j] = Free /\ seg[j].e <= p.have /\ seg[j].s <= p.have
        BY <2>12, <4>1 DEF Midway
      <4> QED
        BY <1>2, <2>4, <2>10, <4>2, <4>3
    <3> QED
      BY <3>1, <3>2
  <2>13. Midway(h0, q)
    <3>1. h0 <= q.have
      BY <1>2, <2>3, <2>4, <2>10
    <3> HIDE DEF q
    <3> QED
      BY <2>10, <2>11, <2>12, <3>1 DEF Midway, A
  <2>14. HeldIn(q) = HeldIn(p) \ {i}
    <3>1. \A j \in Slot : q.seg[j] = IF j = i THEN Free ELSE p.seg[j]
      BY <2>6, <2>7
    <3> HIDE DEF q
    <3> QED
      BY <3>1 DEF HeldIn
  <2>15. i \in HeldIn(p)
    BY <1>4 DEF HeldIn
  <2> QED
    BY <2>7, <2>11, <2>13, <2>14, <2>15
<1> QED
  BY <1>2, <1>3, <1>4

(* A pass that changed something, when it got to slot i, has fewer intervals left;
   one that did not has met none that touches the prefix. *)
Passed(h0, p, q, i) ==
  /\ Midway(h0, q) /\ HeldIn(q) \subseteq HeldIn(p)
  /\ q.changed => HeldIn(q) # HeldIn(p)
  /\ ~q.changed => /\ q.have = p.have /\ q.seg = p.seg
                   /\ \A j \in 1 .. i : ~(p.seg[j].e > 0 /\ p.seg[j].s <= p.have)

(* One pass over the table. *)
LEMMA PassIs ==
  ASSUME TypeOK, NEW h0 \in 0 .. Size, NEW p, Midway(h0, p)
  PROVE  Passed(h0, p, Pass(p.have, p.seg), Slots)
<1> DEFINE X == 0 .. Slots
           base == [have |-> p.have, seg |-> p.seg, changed |-> FALSE]
           Is(f) == f = [i \in X |-> IF i = 0 THEN base ELSE Visit(f[i - 1], i)]
           S == {q \in Passing : Midway(h0, q)}
           step == [x \in Nat \X S |-> IF x[1] \in Slot THEN Visit(x[2], x[1]) ELSE x[2]]
           upto == CHOOSE f : Is(f)
<1>1. Slots \in Nat /\ p \in Passing
  BY SlotsAssumption DEF Midway
<1>2. base \in S /\ Passed(h0, p, base, 0)
  <2>1. p.have \in 0 .. Size /\ p.seg \in [Slot -> [s : 0 .. Size, e : 0 .. Size]]
    BY <1>1 DEF Passing
  <2>2. base \in Passing
    BY <2>1, PassingIs
  <2>3. base.have = p.have /\ base.seg = p.seg /\ base.changed = FALSE
    OBVIOUS
  <2> HIDE DEF base
  <2>4. Midway(h0, base)
    BY <2>2, <2>3 DEF Midway
  <2>5. HeldIn(base) = HeldIn(p)
    BY <2>3 DEF HeldIn
  <2> QED
    BY <2>2, <2>3, <2>4, <2>5 DEF Passed
<1>3. \A q \in S : \A i \in Slot : Visit(q, i) \in S
  BY VisitIs
<1>4. step \in [Nat \X S -> S]
  <2> HIDE DEF S
  <2> QED
    BY <1>3
<1>5. PICK f \in [Nat -> S] : f[0] = base /\ \A k \in Nat \ {0} : f[k] = step[<<k, f[k - 1]>>]
  <2>1. base \in S
    BY <1>2
  <2> HIDE DEF S, base, step
  <2>2. Recursions(S, base, step) # {}
    BY <2>1, <1>4, NatRecursion
  <2> QED
    BY <2>2 DEF Recursions
<1>6. Is([i \in X |-> f[i]])
  <2>1. ASSUME NEW i \in X, i # 0 PROVE f[i] = Visit(f[i - 1], i) /\ i - 1 \in X
    <3>1. i \in Nat \ {0} /\ i - 1 \in Nat /\ i - 1 \in X /\ i \in Slot
      BY <1>1, <2>1
    <3>2. f[i - 1] \in S /\ f[i] = step[<<i, f[i - 1]>>]
      BY <1>5, <3>1
    <3> HIDE DEF S
    <3> QED
      BY <3>1, <3>2
  <2>2. [i \in X |-> f[i]] =
          [i \in X |-> IF i = 0 THEN base ELSE Visit([j \in X |-> f[j]][i - 1], i)]
    <3> HIDE DEF base, S, X
    <3> QED
      BY <1>5, <2>1
  <2> QED
    BY <2>2
<1>7. Is(upto)
  <2> HIDE DEF Is
  <2> QED
    BY <1>6
<1>8. Pass(p.have, p.seg) = upto[Slots]
  BY DEF Pass
<1> HIDE DEF upto, base
<1>9. \A i \in X : upto[i] = IF i = 0 THEN base ELSE Visit(upto[i - 1], i)
  BY <1>7
<1> DEFINE C == {i \in Nat : i \in X => Passed(h0, p, upto[i], i)}
<1>10. ASSUME NEW i \in Nat, \A k \in 0 .. i - 1 : k \in C PROVE i \in C
  <2> SUFFICES ASSUME i \in X, i # 0 PROVE Passed(h0, p, upto[i], i)
    BY <1>2, <1>9
  <2> DEFINE q == upto[i - 1]
             r == upto[i]
  <2>1. i - 1 \in X /\ i - 1 \in 0 .. i - 1 /\ i \in Slot /\ 1 .. i = 1 .. (i - 1) \cup {i}
    BY <1>1
  <2>2. Passed(h0, p, q, i - 1)
    BY <1>10, <2>1
  <2>3. r = Visit(q, i)
    BY <1>9
  <2> HIDE DEF q, r
  <2>4. /\ Midway(h0, r) /\ HeldIn(r) \subseteq HeldIn(q)
        /\ \/ r = q /\ ~(q.seg[i].e > 0 /\ q.seg[i].s <= q.have)
           \/ r.changed /\ i \in HeldIn(q) /\ i \notin HeldIn(r)
    BY <2>1, <2>2, <2>3, VisitIs DEF Passed
  <2>5. ASSUME r = q, ~(q.seg[i].e > 0 /\ q.seg[i].s <= q.have) PROVE Passed(h0, p, r, i)
    BY <2>1, <2>2, <2>5 DEF Passed
  <2>6. ASSUME r.changed, i \in HeldIn(q), i \notin HeldIn(r) PROVE Passed(h0, p, r, i)
    BY <2>2, <2>4, <2>6 DEF Passed
  <2> QED
    BY <2>4, <2>5, <2>6 DEF r
<1>11. Nat \subseteq C
  <2> HIDE DEF C
  <2> QED
    BY <1>10, Induction
<1> QED
  BY <1>1, <1>8, <1>11

(* A prefix that no interval left in the table touches is the one sought. *)
LEMMA SettledIs ==
  ASSUME TypeOK, FreeIsZero, NEW h0 \in 0 .. Size, NEW p, Midway(h0, p),
         \A i \in Slot : ~(p.seg[i].e > 0 /\ p.seg[i].s <= p.have)
  PROVE  /\ p.have = Absorbed(h0)
         /\ p.seg = [i \in Slot |-> IF seg[i].s <= Absorbed(h0) THEN Free ELSE seg[i]]
<1> DEFINE A == Absorbed(h0)
<1>1. A \in h0 .. Size /\ \A g \in h0 .. Size : Closed(g) => A <= g
  BY AbsorbedIsLeast
<1>2. p \in Passing /\ Size \in Nat /\ seg \in [Slot -> [s : 0 .. Size, e : 0 .. Size]]
  BY SizeAssumption DEF Midway, TypeOK
<1>3. p.have \in 0 .. Size /\ p.seg \in [Slot -> [s : 0 .. Size, e : 0 .. Size]]
  BY <1>2 DEF Passing
<1>4. h0 <= p.have /\ p.have <= A
  BY DEF Midway
<1> HIDE DEF A
<1>5. Closed(p.have)
  <2> SUFFICES ASSUME NEW i \in Slot, Live(i), seg[i].s <= p.have PROVE seg[i].e <= p.have
    BY DEF Closed
  <2>1. CASE p.seg[i] = seg[i]
    BY <2>1
  <2>2. CASE p.seg[i] # seg[i]
    BY <2>2 DEF Midway
  <2> QED
    BY <2>1, <2>2
<1>6. p.have = A
  <2>1. p.have \in h0 .. Size
    BY <1>2, <1>3, <1>4
  <2>2. A <= p.have
    BY <1>1, <1>5, <2>1
  <2> QED
    BY <1>1, <1>2, <1>3, <1>4, <2>2
<1>7. ASSUME NEW i \in Slot PROVE p.seg[i] = IF seg[i].s <= A THEN Free ELSE seg[i]
  <2>1. seg[i] \in [s : 0 .. Size, e : 0 .. Size]
    BY <1>2
  <2>2. CASE p.seg[i] = seg[i]
    <3>1. seg[i].s <= A => ~Live(i)
      BY <1>6, <2>2
    <3> QED
      BY <2>2, <3>1 DEF FreeIsZero
  <2>3. CASE p.seg[i] # seg[i]
    BY <1>6, <2>3 DEF Midway
  <2> QED
    BY <2>2, <2>3
<1>8. p.seg = [i \in Slot |-> IF seg[i].s <= A THEN Free ELSE seg[i]]
  BY <1>3, <1>7
<1> QED
  BY <1>6, <1>8 DEF A

(* After so many rounds: still fewer intervals left, or the prefix is the one sought. *)
Absorbing(h0, p, round) ==
  /\ Midway(h0, p)
  /\ p.changed => Cardinality(HeldIn(p)) + round <= Slots
  /\ ~p.changed => \A i \in Slot : ~(p.seg[i].e > 0 /\ p.seg[i].s <= p.have)

(* Another round. *)
LEMMA RoundIs ==
  ASSUME TypeOK, NEW h0 \in 0 .. Size, NEW p, NEW k \in Nat, Absorbing(h0, p, k)
  PROVE  Absorbing(h0, IF p.changed THEN Pass(p.have, p.seg) ELSE p, k + 1)
<1> DEFINE q == Pass(p.have, p.seg)
<1>1. CASE ~p.changed
  BY <1>1 DEF Absorbing
<1>2. CASE p.changed
  <2>1. Passed(h0, p, q, Slots)
    BY PassIs DEF Absorbing
  <2>2. IsFiniteSet(HeldIn(p)) /\ Cardinality(HeldIn(p)) \in Nat /\ Slots \in Nat
    <3>1. IsFiniteSet(Slot)
      BY SlotsAssumption, FS_Interval
    <3> QED
      BY <3>1, FS_Subset, FS_CardinalityType, SlotsAssumption DEF HeldIn
  <2> HIDE DEF q
  <2>3. CASE q.changed
    <3>1. HeldIn(q) \subseteq HeldIn(p) /\ HeldIn(q) # HeldIn(p)
      BY <2>1, <2>3 DEF Passed
    <3>2. Cardinality(HeldIn(q)) < Cardinality(HeldIn(p)) /\ Cardinality(HeldIn(q)) \in Nat
      BY <2>2, <3>1, FS_Subset, FS_CardinalityType
    <3>3. Cardinality(HeldIn(p)) + k <= Slots
      BY <1>2 DEF Absorbing
    <3>4. Cardinality(HeldIn(q)) + (k + 1) <= Slots
      BY <2>2, <3>2, <3>3
    <3>5. Absorbing(h0, q, k + 1)
      BY <2>1, <2>3, <3>4 DEF Passed, Absorbing
    <3> QED
      BY <1>2, <3>5 DEF q
  <2>4. CASE ~q.changed
    <3>1. Absorbing(h0, q, k + 1)
      BY <2>1, <2>4 DEF Passed, Absorbing
    <3> QED
      BY <1>2, <3>1 DEF q
  <2> QED
    BY <2>3, <2>4
<1> QED
  BY <1>1, <1>2

(* All the rounds. *)
LEMMA AbsorbFromIs ==
  ASSUME TypeOK, FreeIsZero, NEW h0 \in 0 .. Size
  PROVE  AbsorbFrom(h0, seg) =
           <<Absorbed(h0), [i \in Slot |-> IF seg[i].s <= Absorbed(h0) THEN Free ELSE seg[i]]>>
<1> DEFINE X == 0 .. Rounds
           base == [have |-> h0, seg |-> seg, changed |-> TRUE]
           again(p) == IF p.changed THEN Pass(p.have, p.seg) ELSE p
           Is(f) == f = [k \in X |-> IF k = 0 THEN base ELSE again(f[k - 1])]
           S == {q \in Passing : Midway(h0, q)}
           step == [x \in Nat \X S |-> again(x[2])]
           after == CHOOSE f : Is(f)
<1>1. /\ Rounds \in Nat /\ Rounds >= Slots /\ Slots \in Nat /\ Size \in Nat
      /\ seg \in [Slot -> [s : 0 .. Size, e : 0 .. Size]]
  BY RoundsAssumption, SlotsAssumption, SizeAssumption DEF TypeOK
<1>2. base \in S /\ Absorbing(h0, base, 0)
  <2>1. base \in Passing
    BY <1>1, PassingIs
  <2>2. base.have = h0 /\ base.seg = seg /\ base.changed = TRUE
    OBVIOUS
  <2>3. h0 <= Absorbed(h0)
    BY <1>1, AbsorbedIsLeast
  <2> HIDE DEF base
  <2>4. Midway(h0, base)
    BY <2>1, <2>2, <2>3 DEF Midway
  <2>5. Cardinality(HeldIn(base)) + 0 <= Slots
    <3>1. IsFiniteSet(Slot) /\ Cardinality(Slot) = Slots
      BY <1>1, FS_Interval
    <3>2. HeldIn(base) \subseteq Slot
      BY DEF HeldIn
    <3>3. Cardinality(HeldIn(base)) <= Slots /\ Cardinality(HeldIn(base)) \in Nat
      BY <3>1, <3>2, FS_Subset, FS_CardinalityType
    <3> QED
      BY <3>3
  <2> QED
    BY <2>1, <2>2, <2>4, <2>5 DEF Absorbing
<1>3. \A q \in S : again(q) \in S
  <2> SUFFICES ASSUME NEW q \in S PROVE again(q) \in S
    OBVIOUS
  <2>1. Midway(h0, Pass(q.have, q.seg))
    BY PassIs DEF Passed
  <2> QED
    BY <2>1 DEF Midway
<1> HIDE DEF again
<1>4. step \in [Nat \X S -> S]
  <2> HIDE DEF S
  <2> QED
    BY <1>3
<1>5. PICK f \in [Nat -> S] : f[0] = base /\ \A k \in Nat \ {0} : f[k] = step[<<k, f[k - 1]>>]
  <2>1. base \in S
    BY <1>2
  <2> HIDE DEF S, base, step
  <2>2. Recursions(S, base, step) # {}
    BY <2>1, <1>4, NatRecursion
  <2> QED
    BY <2>2 DEF Recursions
<1>6. Is([k \in X |-> f[k]])
  <2>1. ASSUME NEW k \in X, k # 0 PROVE f[k] = again(f[k - 1]) /\ k - 1 \in X
    <3>1. k \in Nat \ {0} /\ k - 1 \in Nat /\ k - 1 \in X
      BY <1>1, <2>1
    <3>2. f[k - 1] \in S /\ f[k] = step[<<k, f[k - 1]>>]
      BY <1>5, <3>1
    <3> HIDE DEF S
    <3> QED
      BY <3>1, <3>2
  <2>2. [k \in X |-> f[k]] =
          [k \in X |-> IF k = 0 THEN base ELSE again([j \in X |-> f[j]][k - 1])]
    <3> HIDE DEF base, S, X
    <3> QED
      BY <1>5, <2>1
  <2> QED
    BY <2>2
<1>7. Is(after)
  <2> HIDE DEF Is
  <2> QED
    BY <1>6
<1>8. AbsorbFrom(h0, seg) = <<after[Rounds].have, after[Rounds].seg>>
  BY DEF AbsorbFrom, again
<1> HIDE DEF after, base
<1>9. \A k \in X : after[k] = IF k = 0 THEN base ELSE again(after[k - 1])
  BY <1>7
<1> DEFINE C == {k \in Nat : k \in X => Absorbing(h0, after[k], k)}
<1>10. ASSUME NEW k \in Nat, \A j \in 0 .. k - 1 : j \in C PROVE k \in C
  <2>1. CASE k = 0
    BY <1>2, <1>9, <2>1
  <2>2. ASSUME k # 0, k \in X PROVE Absorbing(h0, after[k], k)
    <3> DEFINE q == after[k - 1]
    <3>1. k - 1 \in 0 .. k - 1 /\ k - 1 \in X /\ k - 1 \in Nat
      BY <1>1, <2>2
    <3>2. Absorbing(h0, q, k - 1)
      BY <1>10, <3>1
    <3>3. after[k] = again(q)
      BY <1>9, <2>2
    <3> HIDE DEF q
    <3>4. Absorbing(h0, again(q), (k - 1) + 1)
      BY <3>1, <3>2, RoundIs DEF again
    <3>5. (k - 1) + 1 = k
      OBVIOUS
    <3> QED
      BY <3>3, <3>4, <3>5
  <2> QED
    BY <2>1, <2>2
<1>11. Nat \subseteq C
  <2> HIDE DEF C
  <2> QED
    BY <1>10, Induction
<1> DEFINE p == after[Rounds]
<1>12. Absorbing(h0, p, Rounds)
  BY <1>1, <1>11
<1> HIDE DEF p
<1>13. \A i \in Slot : ~(p.seg[i].e > 0 /\ p.seg[i].s <= p.have)
  <2>1. CASE ~p.changed
    BY <1>12, <2>1 DEF Absorbing
  <2>2. CASE p.changed
    <3>1. IsFiniteSet(HeldIn(p)) /\ Cardinality(HeldIn(p)) \in Nat
      <4>1. IsFiniteSet(Slot)
        BY <1>1, FS_Interval
      <4> QED
        BY <4>1, FS_Subset, FS_CardinalityType DEF HeldIn
    <3>2. Cardinality(HeldIn(p)) + Rounds <= Slots
      BY <1>12, <2>2 DEF Absorbing
    <3>3. Cardinality(HeldIn(p)) = 0
      BY <1>1, <3>1, <3>2
    <3>4. HeldIn(p) = {}
      BY <3>1, <3>3, FS_EmptySet
    <3> QED
      BY <3>4 DEF HeldIn
  <2> QED
    BY <2>1, <2>2
<1>14. /\ p.have = Absorbed(h0)
       /\ p.seg = [i \in Slot |-> IF seg[i].s <= Absorbed(h0) THEN Free ELSE seg[i]]
  BY <1>12, <1>13, SettledIs DEF Absorbing
<1> QED
  BY <1>8, <1>14 DEF p

(* As many rounds as there are slots are enough: the loop of qcn-seg-absorb!, which
   allows 40 rounds over 32 slots, always ends at the least closed prefix with
   exactly the covered intervals freed, so `Extend' is what the code does. *)
THEOREM PassesSuffice == Spec => []PassesReachTheFixpoint
<1>1. Init => FreeIsZero
  BY DEF Init, FreeIsZero
<1>2. IInv /\ FreeIsZero /\ [Next]_vars => FreeIsZero'
  BY FreeStaysZero
<1>3. ASSUME IInv, FreeIsZero PROVE PassesReachTheFixpoint
  <2>1. TypeOK /\ have \in 0 .. Size /\ Size \in Nat
    BY <1>3, SizeAssumption DEF IInv, TypeOK
  <2>2. \A h \in have .. Size : h \in 0 .. Size
    BY <2>1
  <2> QED
    BY <1>3, <2>1, <2>2, AbsorbFromIs DEF PassesReachTheFixpoint
<1> QED
  BY <1>1, <1>2, <1>3, Invariance, PTL DEF Spec
=============================================================================
