----------------------------- MODULE QuicTimers -----------------------------
(***************************************************************************)
(* The clock of net/quic_client.prn and the two timers that read it: the    *)
(* overall deadline and the probe timeout with backoff.                     *)
(*                                                                          *)
(* quic_now_ms_impl returns the monotonic milliseconds modulo 2^30; cset!   *)
(* stores a slot modulo 2^30, and cget reads the topmost 16 values back as  *)
(* negative numbers.  Comparisons are made on what cget returns.            *)
(***************************************************************************)
EXTENDS Integers

CONSTANTS Modulus,   \* 2^30 in the code: the clock wraps every 12.4 days
          Band,      \* 16 in the code: stored values read as negative
          Starts,    \* clock readings at which quic-connect may be called
          Timeout,   \* timeout-ms
          Base,      \* 300 in the code: the first probe timeout
          MaxRetries,\* 8 in the code
          Horizon    \* bound on the time since quic-connect

ASSUME ConstantsAssumption ==
  /\ Modulus \in Nat /\ Band \in Nat /\ Band < Modulus
  /\ Starts \subseteq 0 .. (Modulus - 1)
  /\ Timeout \in Nat /\ Base \in Nat \ {0} /\ MaxRetries \in Nat /\ Horizon \in Nat

VARIABLES start,    \* the clock when quic-connect was called
          t,        \* true time since then (not part of the program's state)
          sentAt,   \* true time of the last send or rearming (likewise)
          status,   \* slot 0, as far as the timers set it
          lastSend, \* slot 23, as stored
          pto,      \* slot 24
          retries,  \* slot 25
          deadline, \* slot 35, as stored
          progress  \* slot 39

timerVars == <<start, t, sentAt, status, lastSend, pto, retries, deadline, progress>>

Now == (start + t) % Modulus
Store(v) == IF v < 0 THEN v + Modulus ELSE v % Modulus
Load(x) == IF x >= Modulus - Band THEN x - Modulus ELSE x

TimersInit ==
  /\ start \in Starts /\ t = 0 /\ sentAt = 0 /\ status = 0
  /\ lastSend = Store(Now) /\ deadline = Store(Now + Timeout)
  /\ pto = Base /\ retries = 0 /\ progress = FALSE

(* Time passes; a host that does not pump for a while sees a jump. *)
Tick ==
  /\ t < Horizon /\ t' = t + 1
  /\ UNCHANGED <<start, sentAt, status, lastSend, pto, retries, deadline, progress>>

(* In the same pump, before the timers: a packet is processed (qcn-frames!),
   a flight is sent (qcn-finish-handshake!, qcn-send-app!). *)
Hear ==
  /\ status = 0 /\ ~progress /\ progress' = TRUE
  /\ UNCHANGED <<start, t, sentAt, status, lastSend, pto, retries, deadline>>

SendFlight ==
  /\ status = 0 /\ lastSend' = Store(Now) /\ sentAt' = t
  /\ UNCHANGED <<start, t, status, pto, retries, deadline, progress>>

(* qcn-timers!: the deadline, else progress, else the probe timer. *)
ExpiredOnTheDot == Now = Load(deadline)
ExpiredAtOnce == Now >= Load(deadline)
ExpiredAfterProbe == Now > Load(deadline) + pto
Expired == Now > Load(deadline)

Expire ==
  /\ status = 0 /\ Expired
  /\ status' = -1
  /\ UNCHANGED <<start, t, sentAt, lastSend, pto, retries, deadline, progress>>

ResetBackoff == pto' = Base /\ retries' = 0

Rearm ==
  /\ status = 0 /\ ~Expired /\ progress
  /\ progress' = FALSE /\ lastSend' = Store(Now) /\ sentAt' = t
  /\ ResetBackoff
  /\ UNCHANGED <<start, t, status, deadline>>

PtoOverAtOnce == Now - Load(lastSend) >= pto
PtoOverDoubled == Now - Load(lastSend) > pto * 2
PtoOver == Now - Load(lastSend) > pto

(* qcn-retransmit!: the packets go out, the timeout doubles. *)
Probe ==
  /\ status = 0 /\ ~Expired /\ ~progress /\ PtoOver
  /\ lastSend' = Store(Now) /\ sentAt' = t
  /\ pto' = pto * 2 /\ retries' = retries + 1
  /\ status' = IF retries' > MaxRetries THEN -1 ELSE 0
  /\ UNCHANGED <<start, t, deadline, progress>>

Wait ==
  /\ status = 0 /\ ~Expired /\ ~progress /\ ~PtoOver
  /\ UNCHANGED timerVars

Timers == Expire \/ Rearm \/ Probe \/ Wait

TimersNext == Tick \/ Hear \/ SendFlight \/ Timers

TimersSpec == TimersInit /\ [][TimersNext]_timerVars

(* The clock runs and the host keeps pumping. *)
TimersFairSpec == TimersSpec /\ WF_timerVars(Tick) /\ WF_timerVars(Timers)

-----------------------------------------------------------------------------
(* The timeout after k probes in a row: the base, doubled once per probe. *)
Backoff[k \in Nat] == IF k = 0 THEN Base ELSE 2 * Backoff[k - 1]

(* The slots hold what the program keeps in them, and the backoff follows the
   retries. *)
TimersTypeOK ==
  /\ start \in Starts /\ t \in 0 .. Horizon /\ sentAt \in 0 .. t
  /\ status \in {-1, 0} /\ progress \in BOOLEAN
  /\ lastSend \in 0 .. (Modulus - 1) /\ deadline \in 0 .. (Modulus - 1)
  /\ retries \in 0 .. (MaxRetries + 1) /\ pto = Backoff[retries]

(* "timeout-ms is the overall deadline": no transfer times out before it,
   unless its probes are exhausted. *)
NeverEarly == status = -1 => t > Timeout \/ retries > MaxRetries

(* ... and every pump after it sees that it has passed. *)
DeadlineIsSeen == t > Timeout => Expired

(* Probes are spaced by the backed-off timeout counted from the last send ... *)
ProbesAreSpaced == [][retries' > retries => t - sentAt > Backoff[retries]]_timerVars

(* ... and are not withheld: once that long has passed, the timer is over. *)
ProbeIsSeen == t - sentAt > pto => PtoOver

(* Every transfer ends, however often the server is heard and flights are sent
   (each rearms the probe timer and restores its budget) and however long the
   host leaves between two pumps. *)
Ends == <>(status # 0)
=============================================================================
