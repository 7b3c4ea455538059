----------------------------- MODULE PcapReplay -----------------------------
(***************************************************************************)
(* The double-buffered PCAP replay of one port: the transmit queues of     *)
(* pktgen_send_pkts, the background reload worker, the CLI commands that   *)
(* write the replay index and the public reload/close calls, sharing one   *)
(* pcap_info_t.  Its two sections (mempools of preloaded packets) take     *)
(* turns: one is transmitted while the worker refills the other.           *)
(*                                                                         *)
(* A step is what a thread does between two accesses to data another       *)
(* thread can change.  A critical section whose only shared accesses are   *)
(* protected by state_mutex is one step; `mutex' is held between steps     *)
(* only by a queue that goes on to read pkt_loaded, which the worker       *)
(* changes without the mutex.                                              *)
(***************************************************************************)
EXTENDS Integers, FiniteSets

CONSTANTS
  Queues,       \* transmit queue ids of the port, one lcore each
  Cap,          \* Cap[s]: sections[s].pkt_count, the packets section s holds
  TxCounts,     \* the txCnt values a burst may have
  FilePkts,     \* pcap->pkt_count, the packets in the source files
  PageSize,     \* PCAP_PAGE_SIZE
  CliIndexes,   \* the arguments "pcap <index>" is given; {}: it is not used
  Paging,       \* is "page next" used?
  ChunkMod,     \* chunk ids are counted modulo this (2^64 in the code)
  LoopReads,    \* how a build tests pkt_loaded just after having tested it:
                \* "fresh" reads it again, "cached" reuses the value read
  Spurious,     \* may pthread_cond_wait return without a signal?
  ApiCalls      \* which public calls are made: a subset of {"reload", "close"}

Sections == {0, 1}

ASSUME ReplayAssumption ==
  /\ Queues \subseteq Nat /\ 0 \in Queues
  /\ Cap \in [Sections -> Nat \ {0}]
  /\ TxCounts \subseteq Nat \ {0}
  /\ FilePkts \in Nat \ {0} /\ PageSize \in Nat \ {0}
  /\ CliIndexes \subseteq Nat /\ Paging \in BOOLEAN
  /\ ChunkMod \in Nat /\ ChunkMod > 3
  /\ LoopReads \subseteq {"fresh", "cached"} /\ LoopReads # {}
  /\ Spurious \in BOOLEAN
  /\ ApiCalls \subseteq {"reload", "close"}

VARIABLES
  active,       \* active_section_idx
  pktIndex,     \* pkt_index
  loaded,       \* sections[s].pkt_loaded
  chunk,        \* sections[s].chunk_id
  nextChunk,    \* next_chunk_id
  locked,       \* section_locked[s]
  request,      \* reload_request
  inProgress,   \* reload_in_progress
  mutex,        \* holder of state_mutex: a queue, or Free
  doneWaiters,  \* threads blocked on reload_done_cond
  workerWaits,  \* the worker is blocked on reload_cond
  sending,      \* the SENDING_PACKETS port flag
  quit,         \* l2p force_quit of the port's lcores
  qpc,          \* where each queue's lcore is
  cur,          \* local idx of each queue
  mp,           \* local mp of each queue: the section whose pool it takes from
  txCnt,        \* packets of the burst just sent, for queue 0's index update
  wpc,          \* where the reload worker is
  apc,          \* where the caller of the public functions is
  apiSection,   \* section_idx of the pending pktgen_pcap_reload_section
  cliTmp,       \* pkt_index as read by "page next", NoIndex when not in it
  oldIndex      \* pkt_index as read by queue 0's unlocked increment

pcapVars  == <<active, pktIndex, loaded, chunk, nextChunk, locked, request, inProgress>>
syncVars  == <<mutex, doneWaiters, workerWaits>>
portVars  == <<sending, quit>>
queueVars == <<qpc, cur, mp, txCnt, oldIndex>>
otherVars == <<apc, apiSection, cliTmp>>
vars == <<pcapVars, syncVars, portVars, queueVars, wpc, otherVars>>

None    == -1     \* reload_request / reload_in_progress: nothing
Stop    == -2     \* reload_request: the worker shall exit
Free    == -1     \* nobody holds the mutex
Caller  == -2     \* thread id of the caller of the public functions
NoIndex == -1

Other(s) == 1 - s

QueueLabels  == {"loop", "enter", "choose", "untilLoaded", "untilUnlocked",
                 "count", "bump", "store", "exited"}
WorkerLabels == {"wait", "begin", "fill", "finish", "exited"}
CallerLabels == {"idle", "reload", "join"}

StateOK ==
  /\ active \in Sections /\ pktIndex \in Nat
  /\ loaded \in [Sections -> Nat]
  /\ chunk \in [Sections -> 0 .. ChunkMod - 1] /\ nextChunk \in 0 .. ChunkMod - 1
  /\ locked \in [Sections -> {0, 1}]
  /\ request \in Sections \union {None, Stop}
  /\ inProgress \in Sections \union {None}
  /\ mutex \in Queues \union {Free}
  /\ doneWaiters \subseteq Queues \union {Caller}
  /\ qpc \in [Queues -> QueueLabels]
  /\ cur \in [Queues -> Sections] /\ mp \in [Queues -> Sections]
  /\ txCnt \in Nat /\ oldIndex \in Nat
  /\ wpc \in WorkerLabels
  /\ apc \in CallerLabels /\ apiSection \in Sections
  /\ cliTmp \in Nat \union {NoIndex}

FlagsOK == workerWaits \in BOOLEAN /\ sending \in BOOLEAN /\ quit \in BOOLEAN

TypeOK == StateOK /\ FlagsOK

\* pktgen_pcap_open has loaded section 0, then section 1, and started the
\* worker; the lcores are launched afterwards.
Init ==
  /\ active = 0 /\ pktIndex = 0
  /\ loaded = Cap
  /\ chunk = [s \in Sections |-> s + 1] /\ nextChunk = 3
  /\ locked = [s \in Sections |-> 0]
  /\ request = None /\ inProgress = None
  /\ mutex = Free /\ doneWaiters = {} /\ workerWaits = FALSE
  /\ sending = FALSE /\ quit = FALSE
  /\ qpc = [q \in Queues |-> "loop"]
  /\ cur = [q \in Queues |-> 0] /\ mp = [q \in Queues |-> 0]
  /\ txCnt = 0 /\ oldIndex = 0
  /\ wpc = "wait"
  /\ apc = "idle" /\ apiSection = 0 /\ cliTmp = NoIndex

GoTo(q, label) == qpc' = [qpc EXCEPT ![q] = label]

\* pthread_cond_signal(&reload_cond): only the worker ever waits on it.
SignalNobody == UNCHANGED workerWaits                         \* mutant
SignalWorker == workerWaits' = FALSE

\* pthread_cond_broadcast(&reload_done_cond)
WakeNobody == UNCHANGED doneWaiters                           \* mutant
WakeAll == doneWaiters' = {}

\* section_locked[s] = 1
LockNothing(s) == UNCHANGED locked                            \* mutant
Lock(s) == locked' = [locked EXCEPT ![s] = 1]

-----------------------------------------------------------------------------
(* A transmit queue: pktgen_main_transmit and pktgen_send_pkts.            *)

\* The lcore loop ends at force_quit.
Exit(q) ==
  /\ qpc[q] = "loop" /\ quit
  /\ GoTo(q, "exited")
  /\ UNCHANGED <<pcapVars, syncVars, portVars, cur, mp, txCnt, oldIndex, wpc, otherVars>>

\* pktgen_main_transmit takes the active section's pool, without the mutex.
TakePool(q) ==
  /\ qpc[q] = "loop" /\ ~quit /\ sending
  /\ mp' = [mp EXCEPT ![q] = active]
  /\ GoTo(q, "enter")
  /\ UNCHANGED <<pcapVars, syncVars, portVars, cur, txCnt, oldIndex, wpc, otherVars>>

\* Locks, reads the active section, and unlocks at once unless it is exhausted.
Enter(q) ==
  /\ qpc[q] = "enter" /\ mutex = Free
  /\ cur' = [cur EXCEPT ![q] = active]
  /\ \/ /\ pktIndex < loaded[active]
        /\ GoTo(q, "count")
        /\ UNCHANGED mutex
     \/ /\ pktIndex >= loaded[active]
        /\ mutex' = q
        /\ GoTo(q, "choose")
  /\ UNCHANGED <<pcapVars, doneWaiters, workerWaits, portVars, mp, txCnt, oldIndex, wpc, otherVars>>

\* The next section holds packets: wait until it is unlocked.  It holds none:
\* request its reload unless one is under way, and wait until it holds some.
\* When no call comes between the test of pkt_loaded and the wait loop's first
\* test, the build may read it again or go straight to pthread_cond_wait.
Choose(q) ==
  LET next == Other(cur[q]) IN
  /\ qpc[q] = "choose"
  /\ \/ /\ loaded[next] > 0
        /\ GoTo(q, "untilUnlocked")
        /\ UNCHANGED <<locked, request, syncVars>>
     \/ /\ loaded[next] = 0
        /\ GoTo(q, "untilLoaded")
        /\ IF request < 0 /\ inProgress < 0 /\ locked[next] = 0
             THEN /\ Lock(next)
                  /\ request' = next
                  /\ SignalWorker
                  /\ UNCHANGED <<mutex, doneWaiters>>
             ELSE /\ \/ /\ "fresh" \in LoopReads
                        /\ UNCHANGED <<mutex, doneWaiters>>
                     \/ /\ "cached" \in LoopReads
                        /\ mutex' = Free
                        /\ doneWaiters' = doneWaiters \union {q}
                  /\ UNCHANGED <<locked, request, workerWaits>>
  /\ UNCHANGED <<active, pktIndex, loaded, chunk, nextChunk, inProgress, portVars, cur, mp, txCnt,
                 oldIndex, wpc, otherVars>>

\* In a wait loop: holding the mutex, or woken and taking it again.
InLoop(q, label) == qpc[q] = label /\ q \notin doneWaiters /\ mutex \in {q, Free}

\* pthread_cond_wait(&reload_done_cond, &state_mutex)
Sleep(q) ==
  /\ doneWaiters' = doneWaiters \union {q}
  /\ mutex' = Free
  /\ UNCHANGED <<pcapVars, workerWaits, portVars, queueVars, wpc, otherVars>>

\* The section a switching queue wants reloaded: the one it leaves.
ExhaustedNext(q) == Other(cur[q])                             \* mutant
Exhausted(q) == cur[q]

\* Switches to the section after the queue's own idx, requests the reload of
\* idx, and unlocks.
Switch(q) ==
  /\ active' = Other(cur[q])
  /\ pktIndex' = 0
  /\ Lock(Exhausted(q))
  /\ request' = Exhausted(q)
  /\ SignalWorker
  /\ mp' = [mp EXCEPT ![q] = Other(cur[q])]
  /\ mutex' = Free
  /\ GoTo(q, "count")
  /\ UNCHANGED <<loaded, chunk, nextChunk, inProgress, doneWaiters, portVars, cur, txCnt, oldIndex,
                 wpc, otherVars>>

UntilLoaded(q) ==
  /\ InLoop(q, "untilLoaded")
  /\ \/ loaded[Other(cur[q])] = 0 /\ Sleep(q)
     \/ loaded[Other(cur[q])] > 0 /\ Switch(q)

UntilUnlocked(q) ==
  /\ InLoop(q, "untilUnlocked")
  /\ \/ locked[Other(cur[q])] # 0 /\ Sleep(q)
     \/ locked[Other(cur[q])] = 0 /\ Switch(q)

\* The transmit count is used up: SENDING_PACKETS is cleared.
CountSpent(q) ==
  /\ qpc[q] = "count"
  /\ sending' = FALSE
  /\ GoTo(q, "loop")
  /\ UNCHANGED <<pcapVars, syncVars, quit, cur, mp, txCnt, oldIndex, wpc, otherVars>>

\* rte_mempool_get_bulk fails: nothing is sent.
PoolEmpty(q) ==
  /\ qpc[q] = "count"
  /\ GoTo(q, "loop")
  /\ UNCHANGED <<pcapVars, syncVars, portVars, cur, mp, txCnt, oldIndex, wpc, otherVars>>

\* A burst of n packets is sent from the queue's pool; only queue 0 counts it.
SendBurst(q, n) ==
  /\ qpc[q] = "count"
  /\ \/ /\ q = 0
        /\ txCnt' = n
        /\ GoTo(q, "bump")
     \/ /\ q # 0
        /\ GoTo(q, "loop")
        /\ UNCHANGED txCnt
  /\ UNCHANGED <<pcapVars, syncVars, portVars, cur, mp, oldIndex, wpc, otherVars>>

\* pkt_index += txCnt outside the mutex: a read, then a write.
BumpRead(q) ==
  /\ qpc[q] = "bump"
  /\ oldIndex' = pktIndex
  /\ GoTo(q, "store")
  /\ UNCHANGED <<pcapVars, syncVars, portVars, cur, mp, txCnt, wpc, otherVars>>

BumpWrite(q) ==
  /\ qpc[q] = "store"
  /\ pktIndex' = oldIndex + txCnt
  /\ GoTo(q, "loop")
  /\ UNCHANGED <<active, loaded, chunk, nextChunk, locked, request, inProgress, syncVars, portVars,
                 cur, mp, txCnt, oldIndex, wpc, otherVars>>

\* A wakeup nobody signalled, where the platform allows one.
SpuriousWake(q) ==
  /\ Spurious /\ q \in doneWaiters
  /\ doneWaiters' = doneWaiters \ {q}
  /\ UNCHANGED <<pcapVars, mutex, workerWaits, portVars, queueVars, wpc, otherVars>>

Queue(q) ==
  \/ Exit(q) \/ TakePool(q) \/ Enter(q) \/ Choose(q) \/ UntilLoaded(q) \/ UntilUnlocked(q)
  \/ CountSpent(q) \/ PoolEmpty(q) \/ BumpRead(q) \/ BumpWrite(q)
  \/ \E n \in TxCounts : SendBurst(q, n)
-----------------------------------------------------------------------------
(* The reload worker: pcap_reload_worker and pcap_load_section.            *)

\* Any negative request, Stop included, keeps the worker in its wait loop.
WorkerTake ==
  /\ wpc = "wait" /\ ~workerWaits /\ mutex = Free
  /\ \/ /\ request < 0
        /\ workerWaits' = TRUE
        /\ UNCHANGED <<request, inProgress, wpc>>
     \/ /\ request >= 0
        /\ IF request = Stop
             THEN wpc' = "exited" /\ UNCHANGED <<request, inProgress>>
             ELSE wpc' = "begin" /\ inProgress' = request /\ request' = None
        /\ UNCHANGED workerWaits
  /\ UNCHANGED <<active, pktIndex, loaded, chunk, nextChunk, locked, mutex, doneWaiters, portVars,
                 queueVars, otherVars>>

\* pcap_load_section numbers the chunk and empties the section ...
WorkerBegin ==
  /\ wpc = "begin"
  /\ chunk' = [chunk EXCEPT ![inProgress] = nextChunk]
  /\ nextChunk' = (nextChunk + 1) % ChunkMod
  /\ loaded' = [loaded EXCEPT ![inProgress] = 0]
  /\ wpc' = "fill"
  /\ UNCHANGED <<active, pktIndex, locked, request, inProgress, syncVars, portVars, queueVars,
                 otherVars>>

\* The mbuf about to be filled is the section's last.
LastMbufEarly(s) == loaded[s] + 2 >= Cap[s]                   \* mutant
LastMbuf(s) == loaded[s] + 1 >= Cap[s]

\* ... then overwrites its mbufs one by one, counting each in pkt_loaded.
WorkerFill ==
  /\ wpc = "fill"
  /\ loaded' = [loaded EXCEPT ![inProgress] = @ + 1]
  /\ wpc' = IF LastMbuf(inProgress) THEN "finish" ELSE "fill"
  /\ UNCHANGED <<active, pktIndex, chunk, nextChunk, locked, request, inProgress, syncVars, portVars,
                 queueVars, otherVars>>

\* The loaded section is unlocked and every waiter woken.
WorkerFinish ==
  /\ wpc = "finish" /\ mutex = Free
  /\ locked' = [locked EXCEPT ![inProgress] = 0]
  /\ inProgress' = None
  /\ WakeAll
  /\ wpc' = "wait"
  /\ UNCHANGED <<active, pktIndex, loaded, chunk, nextChunk, request, mutex, workerWaits, portVars,
                 queueVars, otherVars>>

Work == WorkerTake \/ WorkerBegin \/ WorkerFill \/ WorkerFinish
-----------------------------------------------------------------------------
(* The public calls: pktgen_pcap_reload_section and pktgen_pcap_close.     *)

CallReload ==
  /\ "reload" \in ApiCalls /\ apc = "idle"
  /\ apiSection' \in Sections
  /\ apc' = "reload"
  /\ UNCHANGED <<pcapVars, syncVars, portVars, queueVars, wpc, cliTmp>>

ReloadSection ==
  /\ apc = "reload" /\ Caller \notin doneWaiters /\ mutex = Free
  /\ \/ /\ request >= 0 \/ inProgress >= 0
        /\ doneWaiters' = doneWaiters \union {Caller}
        /\ UNCHANGED <<locked, request, workerWaits, apc>>
     \/ /\ request < 0 /\ inProgress < 0
        /\ Lock(apiSection)
        /\ request' = apiSection
        /\ SignalWorker
        /\ apc' = "idle"
        /\ UNCHANGED doneWaiters
  /\ UNCHANGED <<active, pktIndex, loaded, chunk, nextChunk, inProgress, mutex, portVars, queueVars,
                 wpc, apiSection, cliTmp>>

\* pcap_reload_thread_stop asks the worker to exit and joins it.
CallStop ==
  /\ "close" \in ApiCalls /\ apc = "idle" /\ mutex = Free
  /\ request' = Stop
  /\ SignalWorker
  /\ apc' = "join"
  /\ UNCHANGED <<active, pktIndex, loaded, chunk, nextChunk, locked, inProgress, mutex, doneWaiters,
                 portVars, queueVars, wpc, apiSection, cliTmp>>

Api == CallReload \/ ReloadSection \/ CallStop
-----------------------------------------------------------------------------
(* The user: start, stop, quit, "pcap <index>" and "page next".            *)

StartStop ==
  /\ ~quit
  /\ sending' = ~sending
  /\ UNCHANGED <<pcapVars, syncVars, quit, queueVars, wpc, otherVars>>

Quit ==
  /\ ~quit
  /\ quit' = TRUE
  /\ UNCHANGED <<pcapVars, syncVars, sending, queueVars, wpc, otherVars>>

\* Where the last page of the file begins.
LastPageUnchecked == FilePkts - PageSize                      \* mutant
LastPage == IF PageSize < FilePkts THEN FilePkts - PageSize ELSE 0

\* "pcap <index>": an index past the file means its last page.
PcapIndex(v) ==
  /\ cliTmp = NoIndex
  /\ pktIndex' = IF v >= FilePkts THEN LastPage ELSE v
  /\ UNCHANGED <<active, loaded, chunk, nextChunk, locked, request, inProgress, syncVars, portVars,
                 queueVars, wpc, otherVars>>

\* "page next" pages through the file with the same index: a read, then a write.
PageNextRead ==
  /\ Paging /\ cliTmp = NoIndex
  /\ cliTmp' = pktIndex
  /\ UNCHANGED <<pcapVars, syncVars, portVars, queueVars, wpc, apc, apiSection>>

PageNextWrite ==
  /\ cliTmp # NoIndex
  /\ pktIndex' = IF cliTmp + PageSize < FilePkts THEN cliTmp + PageSize ELSE 0
  /\ cliTmp' = NoIndex
  /\ UNCHANGED <<active, loaded, chunk, nextChunk, locked, request, inProgress, syncVars, portVars,
                 queueVars, wpc, apc, apiSection>>

User ==
  \/ StartStop \/ Quit \/ PageNextRead \/ PageNextWrite
  \/ \E v \in CliIndexes : PcapIndex(v)
-----------------------------------------------------------------------------
Next == (\E q \in Queues : Queue(q) \/ SpuriousWake(q)) \/ Work \/ Api \/ User

Spec == Init /\ [][Next]_vars

\* Every lcore polls for ever and the worker is a thread of its own: each keeps
\* taking the steps it can.  The user and the API are free never to call.
Fairness ==
  /\ WF_vars(Work) /\ WF_vars(ReloadSection) /\ WF_vars(PageNextWrite)
  /\ \A q \in Queues : WF_vars(Queue(q))

FairSpec == Spec /\ Fairness
-----------------------------------------------------------------------------
(* Properties.                                                             *)

Loading == wpc \in {"begin", "fill", "finish"}
Waiting(q) == qpc[q] \in {"untilLoaded", "untilUnlocked"}

\* The worker never refills the section the queues transmit from, and is never
\* asked to: the two sections really alternate (pktgen_send_pkts, 943-948).
ActiveNotReloaded ==
  /\ Loading => inProgress # active
  /\ request # active

\* section_locked agrees with the handshake: a section is locked exactly while
\* its reload is requested or in progress, so no unlock is early or forgotten.
LockedIffReloading ==
  \A s \in Sections : locked[s] = 1 <=> (request = s \/ inProgress = s)

\* Only the section the worker is filling is ever incomplete: whoever takes from
\* another section finds all of its packets, and the branch of pktgen_send_pkts
\* that requests the reload of an empty section is dead code.
CompleteUnlessLoading == \A s \in Sections : loaded[s] = Cap[s] \/ (Loading /\ inProgress = s)

\* No lost wakeup: whoever sleeps on reload_done_cond has a reload ahead whose
\* completion broadcasts, and the worker is not asleep on that request.
SleeperHasReload ==
  doneWaiters # {} => /\ request >= 0 \/ inProgress >= 0
                      /\ request >= 0 /\ inProgress < 0 => ~workerWaits

\* A queue only switches to a section that is completely loaded and unlocked
\* (the comment before the exchange in pktgen_send_pkts).
SwitchWhenReady ==
  [][active' # active => locked[active'] = 0 /\ loaded[active'] = Cap[active']]_vars

\* Every switch goes to the chunk that follows the one just transmitted: no chunk
\* of the capture is skipped or repeated.
SwitchFollowsChunk ==
  [][active' # active => chunk[active'] = (chunk[active] + 1) % ChunkMod]_vars

\* A queue that pauses for the next section resumes.
WaitEnds == \A q \in Queues : Waiting(q) ~> ~Waiting(q)

\* After quit every lcore leaves its loop, so rte_eal_mp_wait_lcore returns.
QuitReturns == quit ~> (\A q \in Queues : qpc[q] = "exited")
=============================================================================
