------------------------------ MODULE PortStats ------------------------------
(***************************************************************************)
(* The counters of one port.  The NIC and a worker lcore count; once a      *)
(* second the timer thread works out totals and rates, and draws them;      *)
(* "clear stats", on the command thread, zeroes everything and takes the    *)
(* NIC's reading as the new base.  Nobody locks.  One of the eight NIC      *)
(* counters, which are all treated alike, and one queue counter stand for   *)
(* the rest.                                                                *)
(***************************************************************************)
EXTENDS Naturals

CONSTANTS
  Modulus,     \* the counters are unsigned: arithmetic is modulo this
  MaxPackets,  \* bound on the packets of a behaviour
  MaxClears    \* bound on the clear commands

ASSUME StatsAssumption ==
  /\ Modulus \in Nat /\ MaxPackets \in Nat /\ MaxClears \in Nat
  /\ MaxPackets < Modulus

VARIABLES
  nic,        \* what rte_eth_stats_get returns
  curr, prev, rate, base,         \* of port_stats_t
  qstat, snapQ, prevQ, shownQ,    \* qstats, snap_qstats, prev_qstats; a page's rate
  worker,     \* has the worker loaded qstat, and not yet stored it?
  loaded,     \* what it loaded
  timer,      \* where the timer thread is
  clearer,    \* where the command thread is in pktgen_clear_stats
  clears,     \* clear commands so far
  \* history
  seen,       \* the NIC's count at the last reading
  mark,       \* its count at the reading or clear before that
  zero,       \* its count when base was last taken
  quiet,      \* no clear has overlapped the pass in hand ...
  quietBefore,\* ... nor the one before it
  counted,    \* packets the worker has counted
  snapMark,   \* as many at the last snapshot
  keptMark,   \* as many at the snapshot last kept, or the clear since
  pageQuiet,  \* nothing was cleared between that snapshot and its page
  calm        \* the kept snapshot and the queue counter agree

portVars  == <<curr, prev, rate, base>>
queueCnt  == <<qstat, snapQ, prevQ, shownQ>>
workVars  == <<worker, loaded>>
seenVars  == <<seen, mark, zero, quiet, quietBefore>>
markVars  == <<counted, snapMark, keptMark, pageQuiet, calm>>
statsVars == <<nic, portVars, queueCnt, workVars, timer, clearer, clears, seenVars, markVars>>

Counter == 0 .. Modulus - 1

StatsNumbersOK ==
  /\ {nic, curr, prev, rate, base} \subseteq Counter
  /\ {qstat, snapQ, prevQ, shownQ, loaded} \subseteq Counter
  /\ timer \in {"idle", "read", "normal", "rated", "saved", "drawn"}
  /\ clearer \in {"idle", "port", "queues", "kept"} /\ clears \in 0 .. MaxClears
  /\ {seen, mark, zero, counted, snapMark, keptMark} \subseteq 0 .. MaxPackets
StatsFlagsOK == worker \in BOOLEAN /\ {quiet, quietBefore, pageQuiet, calm} \subseteq BOOLEAN

StatsTypeOK == StatsNumbersOK /\ StatsFlagsOK

StatsInit ==
  /\ nic = 0 /\ curr = 0 /\ prev = 0 /\ rate = 0 /\ base = 0
  /\ qstat = 0 /\ snapQ = 0 /\ prevQ = 0 /\ shownQ = 0
  /\ worker = FALSE /\ loaded = 0
  /\ timer = "idle" /\ clearer = "idle" /\ clears = 0
  /\ seen = 0 /\ mark = 0 /\ zero = 0 /\ quiet = TRUE /\ quietBefore = TRUE
  /\ counted = 0 /\ snapMark = 0 /\ keptMark = 0 /\ pageQuiet = TRUE /\ calm = TRUE

Minus(a, b) == (a + Modulus - b) % Modulus

-----------------------------------------------------------------------------
(* Packets: the NIC counts them; the worker adds them to its own counter.  *)

Arrive ==
  /\ nic < MaxPackets /\ nic' = nic + 1
  /\ UNCHANGED <<portVars, queueCnt, workVars, timer, clearer, clears, seenVars, markVars>>

\* "qs->q_ipackets += nb_rx" is a load ...
LoadCount ==
  /\ ~worker /\ counted < nic
  /\ worker' = TRUE /\ loaded' = qstat
  /\ UNCHANGED <<nic, portVars, queueCnt, timer, clearer, clears, seenVars, markVars>>

\* ... and a store, which undoes a clear in between.
StoreCount ==
  /\ worker /\ worker' = FALSE
  /\ qstat' = loaded + 1 /\ counted' = counted + 1
  /\ UNCHANGED <<nic, portVars, snapQ, prevQ, shownQ, loaded, timer, clearer, clears,
                 seenVars, snapMark, keptMark, pageQuiet, calm>>

-----------------------------------------------------------------------------
(* pktgen_process_stats, then pktgen_page_qstats: the timer thread. *)

TimerTo(from, to) == timer = from /\ timer' = to
OnlyPort == UNCHANGED <<nic, queueCnt, workVars, clearer, clears, markVars>>
OnlyQueue == UNCHANGED <<nic, portVars, qstat, workVars, clearer, clears, seenVars, counted>>

\* rte_eth_stats_get into curr.
ReadNic ==
  /\ TimerTo("idle", "read")
  /\ curr' = nic /\ seen' = nic
  /\ mark' = IF zero > seen THEN zero ELSE seen
  /\ quietBefore' = quiet /\ quiet' = (clearer = "idle")
  /\ UNCHANGED <<prev, rate, base, zero>> /\ OnlyPort

\* "Normalize the counters".
Absolute == curr                                                 \* mutant
SinceBase == Minus(curr, base)

Normalize ==
  /\ TimerTo("read", "normal")
  /\ curr' = SinceBase
  /\ UNCHANGED <<prev, rate, base, seenVars>> /\ OnlyPort

\* "Figure out the rate values".
FigureRate ==
  /\ TimerTo("normal", "rated")
  /\ rate' = Minus(curr, prev)
  /\ UNCHANGED <<curr, prev, base, seenVars>> /\ OnlyPort

\* "Save the current values in previous".
SavePrevious ==
  /\ TimerTo("rated", "saved")
  /\ prev' = curr
  /\ UNCHANGED <<curr, rate, base, seenVars>> /\ OnlyPort

\* "Snapshot per-queue counters written by worker lcores".
Snapshot ==
  /\ TimerTo("saved", "idle")
  /\ snapQ' = qstat /\ snapMark' = counted
  /\ pageQuiet' = (clearer = "idle" /\ (worker => loaded = qstat))
  /\ UNCHANGED <<prevQ, shownQ, keptMark, calm>> /\ OnlyQueue

\* The page has a timeout of its own: it may come at any time between two passes,
\* after several or after none.  It shows the difference of two snapshots ...
DrawRate ==
  /\ TimerTo("idle", "drawn")
  /\ shownQ' = Minus(snapQ, prevQ)
  /\ UNCHANGED <<snapQ, prevQ, snapMark, keptMark, pageQuiet, calm>> /\ OnlyQueue

\* ... and keeps the newer one.
DropSnapshot == UNCHANGED prevQ                                  \* mutant
SaveSnapshot == prevQ' = snapQ

KeepSnapshot ==
  /\ TimerTo("drawn", "idle")
  /\ SaveSnapshot
  /\ keptMark' = snapMark /\ calm' = pageQuiet
  /\ UNCHANGED <<snapQ, shownQ, snapMark, pageQuiet>> /\ OnlyQueue

-----------------------------------------------------------------------------
(* pktgen_clear_stats: one memset over port_stats_t, front to back, and a   *)
(* reading of the NIC.                                                      *)

KeepRates == UNCHANGED prev                                      \* mutant
ZeroRates == prev' = 0

ClearPort ==
  /\ clearer = "idle" /\ clears < MaxClears
  /\ clearer' = "port" /\ clears' = clears + 1
  /\ curr' = 0 /\ ZeroRates /\ rate' = 0 /\ base' = 0
  /\ quiet' = (quiet /\ timer \notin {"read", "normal", "rated"})
  /\ UNCHANGED <<nic, queueCnt, workVars, timer, seen, mark, zero, quietBefore, markVars>>

\* A worker between its load and its store brings the old count back.
ClearQueues ==
  /\ clearer = "port" /\ clearer' = "queues"
  /\ qstat' = 0 /\ snapQ' = 0
  /\ keptMark' = counted /\ calm' = (calm /\ ~worker) /\ pageQuiet' = FALSE
  /\ UNCHANGED <<nic, portVars, prevQ, shownQ, workVars, timer, clears, seenVars,
                 counted, snapMark>>

ClearKept ==
  /\ clearer = "queues" /\ clearer' = "kept"
  /\ prevQ' = 0 /\ pageQuiet' = FALSE
  /\ UNCHANGED <<nic, portVars, qstat, snapQ, shownQ, workVars, timer, clears, seenVars,
                 counted, snapMark, keptMark, calm>>

\* "Normalize the stats to a zero base line".
TakeBase ==
  /\ clearer = "kept" /\ clearer' = "idle"
  /\ base' = nic /\ zero' = nic
  /\ UNCHANGED <<nic, curr, prev, rate, queueCnt, workVars, timer, clears, seen, mark,
                 quiet, quietBefore, markVars>>

StatsTimer == ReadNic \/ Normalize \/ FigureRate \/ SavePrevious \/ Snapshot \/ DrawRate
              \/ KeepSnapshot
StatsClear == ClearPort \/ ClearQueues \/ ClearKept \/ TakeBase
Traffic    == Arrive \/ LoadCount \/ StoreCount

StatsNext == StatsTimer \/ StatsClear \/ Traffic

StatsSpec == StatsInit /\ [][StatsNext]_statsVars

-----------------------------------------------------------------------------
(* A clear in the middle of a pass spoils that pass, at most: the next pass *)
(* shows the packets since the clear, and the one after that the right rate *)
(* as well.  No wrapped-around difference stays in prev or base.            *)
StatsRecover ==
  /\ timer \in {"normal", "rated"} /\ quiet => curr = seen - zero
  /\ timer = "rated" /\ quiet /\ quietBefore => rate = seen - mark

(* The queue page shows what the worker counted between the snapshot it     *)
(* kept and the one it draws, unless a clear came between the two or caught *)
(* the worker between load and store; the page after such a page is right.  *)
QueueRateExact ==
  timer = "drawn" /\ pageQuiet /\ calm => shownQ = snapMark - keptMark
=============================================================================
