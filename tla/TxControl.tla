----------------------------- MODULE TxControl ------------------------------
(***************************************************************************)
(* Starting, counting and stopping the transmission of one port: the       *)
(* SENDING_PACKETS and SEND_FOREVER flags and the shared packet counter,    *)
(* written by the command thread (start, stop, start prime, set count) and *)
(* by the transmit queues, one lcore each, without a lock.  A step is what *)
(* a thread does between two accesses to these shared atomics that another *)
(* thread's write could separate.                                          *)
(***************************************************************************)
EXTENDS Integers

CONSTANTS
  Queues,      \* transmit queue ids of the port
  Burst,       \* pinfo->tx_burst
  Counts,      \* the values "set <port> count" is given; 0 means forever
  Prime,       \* pinfo->prime_cnt
  Commands,    \* the commands the user gives
  MaxCommands  \* bound on the commands of a behaviour

ASSUME TxAssumption ==
  /\ Burst \in Nat \ {0} /\ Prime \in Nat \ {0}
  /\ Counts \subseteq Nat
  /\ Commands \subseteq {"count", "start", "stop", "prime"}
  /\ MaxCommands \in Nat

VARIABLES
  sending,        \* the SENDING_PACKETS port flag
  forever,        \* the SEND_FOREVER port flag
  transmitCount,  \* transmit_count: what the next start loads
  current,        \* current_tx_count: packets left to send
  qpc,            \* where each queue is
  tmp,            \* each queue's tmp1: the counter value it read
  cpc,            \* where the command thread is
  left,           \* commands the user may still give
  \* history
  asked,          \* what the last start or prime loaded into current
  taken,          \* packets taken from current since then
  uncounted,      \* has a burst been sent past the counter since then?
  stopped,        \* was the last command that took effect a stop?
  since           \* bursts each queue has handed over since that stop

flagVars  == <<sending, forever>>
countVars == <<transmitCount, current>>
queueVars == <<qpc, tmp>>
userVars  == <<cpc, left>>
runVars   == <<asked, taken, uncounted>>
stopVars  == <<stopped, since>>
vars == <<flagVars, countVars, queueVars, userVars, runVars, stopVars>>

QueueLabels == {"test", "forever", "read", "cas", "expire", "hand"}
UserLabels  == {"idle", "load", "decide", "go", "primed"}

CountOK ==
  /\ transmitCount \in Nat /\ current \in Nat
  /\ qpc \in [Queues -> QueueLabels] /\ tmp \in [Queues -> Nat]
  /\ cpc \in UserLabels /\ left \in 0 .. MaxCommands
  /\ asked \in Nat /\ taken \in Nat
  /\ since \in [Queues -> Nat]

FlagsOK ==
  /\ sending \in BOOLEAN /\ forever \in BOOLEAN
  /\ uncounted \in BOOLEAN /\ stopped \in BOOLEAN

TypeOK == CountOK /\ FlagsOK

\* pktgen_port_defaults: DEFAULT_TX_COUNT is 0.
Init ==
  /\ sending = FALSE /\ forever = FALSE
  /\ transmitCount = 0 /\ current = 0
  /\ qpc = [q \in Queues |-> "test"] /\ tmp = [q \in Queues |-> 0]
  /\ cpc = "idle" /\ left = MaxCommands
  /\ asked = 0 /\ taken = 0 /\ uncounted = FALSE
  /\ stopped = FALSE /\ since = [q \in Queues |-> 0]

WholeBurst(a, b) == a                                         \* mutant
Least(a, b) == IF a < b THEN a ELSE b

GoTo(q, label) == qpc' = [qpc EXCEPT ![q] = label]

-----------------------------------------------------------------------------
(* A transmit queue: pktgen_main_transmit and the end of pktgen_send_pkts. *)

\* Nothing is sent unless SENDING_PACKETS is set.
TestSending(q) ==
  /\ qpc[q] = "test" /\ sending
  /\ GoTo(q, "forever")
  /\ UNCHANGED <<flagVars, countVars, tmp, userVars, runVars, stopVars>>

\* SEND_FOREVER: a whole burst, past the counter.
TestForever(q) ==
  /\ qpc[q] = "forever"
  /\ IF forever
       THEN GoTo(q, "hand") /\ uncounted' = TRUE
       ELSE GoTo(q, "read") /\ UNCHANGED uncounted
  /\ UNCHANGED <<flagVars, countVars, tmp, userVars, asked, taken, stopVars>>

\* pkt_atomic64_tx_count reads the counter ...
ReadCount(q) ==
  /\ qpc[q] = "read"
  /\ tmp' = [tmp EXCEPT ![q] = current]
  /\ GoTo(q, IF current = 0 THEN "expire" ELSE "cas")
  /\ UNCHANGED <<flagVars, countVars, userVars, runVars, stopVars>>

\* ... and takes a burst, or what is left, if the counter is still that value.
StillRead(q) == TRUE                                          \* mutant
StillThere(q) == current = tmp[q]

SameValue == "cas"                                            \* mutant
ReadAgain == "read"

TakeCount(q) ==
  /\ qpc[q] = "cas"
  /\ LET n == Least(Burst, tmp[q]) IN
       IF StillThere(q)
         THEN /\ current' = tmp[q] - n
              /\ taken' = taken + n
              /\ GoTo(q, "hand")
         ELSE /\ GoTo(q, ReadAgain)
              /\ UNCHANGED <<current, taken>>
  /\ UNCHANGED <<flagVars, transmitCount, tmp, userVars, asked, uncounted, stopVars>>

\* The counter is used up.
KeepSending == UNCHANGED sending                              \* mutant
EndSending == sending' = FALSE

Expire(q) ==
  /\ qpc[q] = "expire"
  /\ EndSending
  /\ GoTo(q, "test")
  /\ UNCHANGED <<forever, countVars, tmp, userVars, runVars, stopVars>>

\* The burst goes to the NIC, or the pool has too few mbufs and it is dropped;
\* either way the queue starts over.
Onwards == "forever"                                          \* mutant
StartOver == "test"

HandBurst(q) ==
  /\ qpc[q] = "hand"
  /\ GoTo(q, StartOver)
  /\ \/ since' = [since EXCEPT ![q] = IF stopped THEN @ + 1 ELSE @]
     \/ UNCHANGED since
  /\ UNCHANGED <<flagVars, countVars, tmp, userVars, runVars, stopped>>

Queue(q) ==
  \/ TestSending(q) \/ TestForever(q) \/ ReadCount(q) \/ TakeCount(q) \/ Expire(q) \/ HandBurst(q)
-----------------------------------------------------------------------------
(* The command thread: one command at a time.                              *)

Give(command) ==
  /\ cpc = "idle" /\ command \in Commands /\ left > 0
  /\ left' = left - 1

\* set <port> count <value>
SetCount(n) ==
  /\ Give("count")
  /\ transmitCount' = n
  /\ UNCHANGED <<flagVars, current, queueVars, cpc, runVars, stopVars>>

\* start <port>: ignored while the port is sending.
Start ==
  /\ Give("start")
  /\ cpc' = IF sending THEN "idle" ELSE "load"
  /\ UNCHANGED <<flagVars, countVars, queueVars, runVars, stopVars>>

\* current_tx_count is given a new value: a new run, for the history.
LoadCount(n) ==
  /\ current' = n
  /\ asked' = n /\ taken' = 0 /\ uncounted' = FALSE

StartLoad ==
  /\ cpc = "load"
  /\ LoadCount(transmitCount)
  /\ cpc' = "decide"
  /\ UNCHANGED <<flagVars, transmitCount, queueVars, left, stopVars>>

\* Reads the counter again: zero means forever.
StartDecide ==
  /\ cpc = "decide"
  /\ forever' = (forever \/ current = 0)
  /\ cpc' = "go"
  /\ UNCHANGED <<sending, countVars, queueVars, left, runVars, stopVars>>

\* The packets are set up and SENDING_PACKETS is set.
Go(label) ==
  /\ cpc = label
  /\ sending' = TRUE
  /\ cpc' = "idle"
  /\ stopped' = FALSE /\ since' = [q \in Queues |-> 0]
  /\ UNCHANGED <<forever, countVars, queueVars, left, runVars>>

StartGo == Go("go")

\* start <port> prime: whatever the port is doing.
PrimeLoad ==
  /\ Give("prime")
  /\ LoadCount(Prime)
  /\ cpc' = "primed"
  /\ UNCHANGED <<flagVars, transmitCount, queueVars, stopVars>>

PrimeGo == Go("primed")

\* stop <port>: does nothing unless the port is sending.
ClearFlags == sending' = FALSE /\ forever' = FALSE

StopSending ==
  /\ Give("stop")
  /\ IF sending
       THEN /\ ClearFlags
            /\ stopped' = TRUE /\ since' = [q \in Queues |-> 0]
       ELSE UNCHANGED <<flagVars, stopVars>>
  /\ UNCHANGED <<countVars, queueVars, cpc, runVars>>

User ==
  \/ Start \/ StartLoad \/ StartDecide \/ StartGo \/ PrimeLoad \/ PrimeGo \/ StopSending
  \/ \E n \in Counts : SetCount(n)
-----------------------------------------------------------------------------
Next == User \/ \E q \in Queues : Queue(q)

Spec == Init /\ [][Next]_vars

\* The lcores poll for ever, and a command that was begun is carried through;
\* the user need not give one.
Fairness ==
  /\ \A q \in Queues : WF_vars(Queue(q))
  /\ WF_vars(StartLoad \/ StartDecide \/ StartGo \/ PrimeGo)

FairSpec == Spec /\ Fairness
-----------------------------------------------------------------------------
(* Properties.                                                             *)

\* What the queues have taken and what is left make up what was asked for,
\* however many queues and commands race for the counter.
BudgetExact == current + taken = asked

\* A stop is final: until the next start or prime no queue hands over more than
\* the one burst it had already decided on.
StopIsFinal == stopped => \A q \in Queues : since[q] <= 1

\* After a stop every queue comes to rest, unless the port is started again.
StopSettles == stopped ~> (~stopped \/ \A q \in Queues : qpc[q] = "test")

\* A counted run ends: its packets are taken and SENDING_PACKETS is cleared.
RunEnds == (sending /\ ~forever) ~> (~sending \/ forever)

\* A run with a count keeps to it: no burst goes past the counter.
CountHonoured == asked > 0 => ~uncounted
=============================================================================
