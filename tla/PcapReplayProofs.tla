-------------------------- MODULE PcapReplayProofs --------------------------
(***************************************************************************)
(* Theorems about PcapReplay.  The first part holds for every number of    *)
(* queues, every build, spurious wakeups and any public call; the second   *)
(* for one queue, the configuration in which the two sections do alternate.*)
(***************************************************************************)
EXTENDS PcapReplay, TLAPS

USE DEF Sections, None, Stop, Free, Caller, NoIndex, Other, QueueLabels, WorkerLabels,
        CallerLabels, GoTo, SignalWorker, pcapVars, syncVars, portVars, queueVars, otherVars,
        WakeAll, Lock, Exhausted, LastMbuf

-----------------------------------------------------------------------------
(* What the worker does with its section, whoever else runs.               *)

\* inProgress names the section the worker loads, and pkt_loaded runs from 0 to
\* the section's capacity while it does.
WorkerInv ==
  /\ Loading <=> inProgress \in Sections
  /\ wpc = "fill" => loaded[inProgress] < Cap[inProgress]
  /\ wpc = "finish" => loaded[inProgress] = Cap[inProgress]
  /\ CompleteUnlessLoading

-----------------------------------------------------------------------------
(* Type correctness.                                                       *)

LEMMA ModRange == ASSUME NEW a \in Nat PROVE a % ChunkMod \in 0 .. ChunkMod - 1
  BY ReplayAssumption DEF ReplayAssumption

LEMMA TypeInit == Init => TypeOK
<1> SUFFICES ASSUME Init PROVE TypeOK OBVIOUS
<1>1. StateOK BY ReplayAssumption DEF ReplayAssumption, Init, StateOK
<1>2. FlagsOK BY Zenon DEF Init, FlagsOK
<1>3. QED BY <1>1, <1>2 DEF TypeOK

LEMMA StateQueue ==
  ASSUME StateOK, NEW q \in Queues, Queue(q)
  PROVE  StateOK'
<1> USE ReplayAssumption DEF ReplayAssumption, StateOK
<1>1. CASE Exit(q) BY <1>1 DEF Exit
<1>2. CASE TakePool(q) BY <1>2 DEF TakePool
<1>3. CASE Enter(q) BY <1>3 DEF Enter
<1>4. CASE Choose(q)
  <2>1. request' \in Sections \union {None, Stop} /\ locked' \in [Sections -> {0, 1}]
    BY <1>4 DEF Choose
  <2>2. mutex' \in {mutex, Free} /\ doneWaiters' \in {doneWaiters, doneWaiters \union {q}}
    BY <1>4, Zenon DEF Choose
  <2>3. qpc' \in [Queues -> QueueLabels]
    BY <1>4 DEF Choose
  <2>4. QED BY <1>4, <2>1, <2>2, <2>3 DEF Choose
<1>5. ASSUME Sleep(q) PROVE StateOK' BY <1>5 DEF Sleep
<1>6. ASSUME Switch(q) PROVE StateOK' BY <1>6 DEF Switch
<1>7. CASE UntilLoaded(q) BY <1>5, <1>6, <1>7 DEF UntilLoaded
<1>8. CASE UntilUnlocked(q) BY <1>5, <1>6, <1>8 DEF UntilUnlocked
<1>9. CASE CountSpent(q) BY <1>9 DEF CountSpent
<1>10. CASE PoolEmpty(q) BY <1>10 DEF PoolEmpty
<1>11. CASE BumpRead(q) BY <1>11 DEF BumpRead
<1>12. CASE BumpWrite(q) BY <1>12 DEF BumpWrite
<1>13. CASE \E n \in TxCounts : SendBurst(q, n) BY <1>13 DEF SendBurst
<1>14. QED
  BY <1>1, <1>2, <1>3, <1>4, <1>7, <1>8, <1>9, <1>10, <1>11, <1>12, <1>13 DEF Queue

LEMMA StateSpurious ==
  ASSUME StateOK, NEW q \in Queues, SpuriousWake(q)
  PROVE  StateOK'
  BY DEF StateOK, SpuriousWake

LEMMA StateWork ==
  ASSUME StateOK, WorkerInv, Work
  PROVE  StateOK'
<1> USE ReplayAssumption DEF ReplayAssumption, StateOK
<1>1. CASE WorkerTake BY <1>1 DEF WorkerTake
<1>2. CASE WorkerBegin
  <2>1. inProgress \in Sections BY <1>2 DEF WorkerInv, Loading, WorkerBegin
  <2>2. nextChunk' \in 0 .. ChunkMod - 1 BY <1>2, ModRange DEF WorkerBegin
  <2>3. QED BY <1>2, <2>1, <2>2 DEF WorkerBegin
<1>3. CASE WorkerFill
  <2>1. inProgress \in Sections BY <1>3 DEF WorkerInv, Loading, WorkerFill
  <2>2. QED BY <1>3, <2>1 DEF WorkerFill
<1>4. CASE WorkerFinish
  <2>1. inProgress \in Sections BY <1>4 DEF WorkerInv, Loading, WorkerFinish
  <2>2. QED BY <1>4, <2>1 DEF WorkerFinish
<1>5. QED BY <1>1, <1>2, <1>3, <1>4 DEF Work

LEMMA StateApi ==
  ASSUME StateOK, Api
  PROVE  StateOK'
<1> USE DEF StateOK
<1>1. CASE CallReload BY <1>1 DEF CallReload
<1>2. CASE ReloadSection
  <2>1. doneWaiters' \in {doneWaiters, doneWaiters \union {Caller}}
    BY <1>2, Zenon DEF ReloadSection
  <2>2. request' \in Sections \union {None, Stop} /\ locked' \in [Sections -> {0, 1}]
    BY <1>2 DEF ReloadSection
  <2>3. apc' \in CallerLabels BY <1>2 DEF ReloadSection
  <2>4. QED BY <1>2, <2>1, <2>2, <2>3 DEF ReloadSection
<1>3. CASE CallStop BY <1>3 DEF CallStop
<1>4. QED BY <1>1, <1>2, <1>3 DEF Api

LEMMA StateUser ==
  ASSUME StateOK, User
  PROVE  StateOK'
<1> USE ReplayAssumption DEF ReplayAssumption, StateOK
<1>1. CASE StartStop BY <1>1 DEF StartStop
<1>2. CASE Quit BY <1>2 DEF Quit
<1>3. CASE PageNextRead BY <1>3 DEF PageNextRead
<1>4. CASE PageNextWrite BY <1>4 DEF PageNextWrite
<1>5. CASE \E v \in CliIndexes : PcapIndex(v) BY <1>5 DEF PcapIndex, LastPage
<1>6. QED BY <1>1, <1>2, <1>3, <1>4, <1>5 DEF User

LEMMA FlagsStep ==
  ASSUME FlagsOK, [Next]_vars
  PROVE  FlagsOK'
<1> USE DEF FlagsOK
<1>1. CASE UNCHANGED vars BY <1>1 DEF vars
<1>2. ASSUME NEW q \in Queues, Queue(q) \/ SpuriousWake(q) PROVE FlagsOK'
  BY <1>2, Zenon DEF Queue, SpuriousWake, Exit, TakePool, Enter, Choose, UntilLoaded, UntilUnlocked,
     Sleep, Switch, CountSpent, PoolEmpty, BumpRead, BumpWrite, SendBurst
<1>3. CASE Work BY <1>3, Zenon DEF Work, WorkerTake, WorkerBegin, WorkerFill, WorkerFinish
<1>4. CASE Api BY <1>4, Zenon DEF Api, CallReload, ReloadSection, CallStop
<1>5. CASE User
  BY <1>5, Zenon DEF User, StartStop, Quit, PageNextRead, PageNextWrite, PcapIndex
<1>6. QED BY <1>1, <1>2, <1>3, <1>4, <1>5 DEF Next

LEMMA StateStep ==
  ASSUME StateOK, WorkerInv, [Next]_vars
  PROVE  StateOK'
<1>1. CASE UNCHANGED vars BY <1>1 DEF vars, StateOK
<1>2. QED
  BY <1>1, StateQueue, StateSpurious, StateWork, StateApi, StateUser DEF Next

LEMMA WorkerInit == Init => WorkerInv
  BY ReplayAssumption DEF ReplayAssumption, Init, WorkerInv, Loading, CompleteUnlessLoading

\* Nobody but the worker writes pkt_loaded, reload_in_progress or its own state.
LEMMA WorkerOnly ==
  ASSUME [Next]_vars, ~Work
  PROVE  UNCHANGED <<loaded, inProgress, wpc>>
<1>1. CASE UNCHANGED vars BY <1>1 DEF vars
<1>2. ASSUME NEW q \in Queues, Queue(q) \/ SpuriousWake(q) PROVE UNCHANGED <<loaded, inProgress, wpc>>
  BY <1>2, Zenon DEF Queue, SpuriousWake, Exit, TakePool, Enter, Choose, UntilLoaded, UntilUnlocked,
     Sleep, Switch, CountSpent, PoolEmpty, BumpRead, BumpWrite, SendBurst
<1>3. CASE Api BY <1>3, Zenon DEF Api, CallReload, ReloadSection, CallStop
<1>4. CASE User
  BY <1>4, Zenon DEF User, StartStop, Quit, PageNextRead, PageNextWrite, PcapIndex
<1>5. QED BY <1>1, <1>2, <1>3, <1>4 DEF Next

LEMMA WorkerStep ==
  ASSUME StateOK, WorkerInv, [Next]_vars
  PROVE  WorkerInv'
<1> USE ReplayAssumption DEF ReplayAssumption, StateOK, WorkerInv, Loading, CompleteUnlessLoading
<1>1. CASE ~Work BY <1>1, WorkerOnly
<1>2. CASE WorkerTake BY <1>2 DEF WorkerTake
<1>3. CASE WorkerBegin BY <1>3 DEF WorkerBegin
<1>4. CASE WorkerFill BY <1>4 DEF WorkerFill
<1>5. CASE WorkerFinish BY <1>5 DEF WorkerFinish
<1>6. QED BY <1>1, <1>2, <1>3, <1>4, <1>5 DEF Work

\* Every variable keeps its type: in particular no public call, stale queue or
\* CLI command drives an index or a request out of range.
THEOREM TypeCorrect == Spec => []TypeOK
<1>1. Init => TypeOK /\ WorkerInv BY TypeInit, WorkerInit
<1>2. TypeOK /\ WorkerInv /\ [Next]_vars => (TypeOK /\ WorkerInv)'
  BY StateStep, FlagsStep, WorkerStep DEF TypeOK
<1>3. QED BY <1>1, <1>2, PTL DEF Spec

\* The worker's own invariant, which the theorems below rest on.
THEOREM WorkerCorrect == Spec => []WorkerInv
<1>1. Init => TypeOK /\ WorkerInv BY TypeInit, WorkerInit
<1>2. TypeOK /\ WorkerInv /\ [Next]_vars => (TypeOK /\ WorkerInv)'
  BY StateStep, FlagsStep, WorkerStep DEF TypeOK
<1>3. QED BY <1>1, <1>2, PTL DEF Spec

\* A section is incomplete only while the worker fills it, whatever the queues,
\* the public calls and the CLI do at the same time (pcap_load_section).
THEOREM SectionsComplete == Spec => []CompleteUnlessLoading
<1>1. WorkerInv => CompleteUnlessLoading BY DEF WorkerInv
<1>2. QED BY <1>1, WorkerCorrect, PTL

-----------------------------------------------------------------------------
(* One queue, no spurious wakeup, no public call, and a build that does not *)
(* read pkt_loaded twice: the sections alternate.                           *)

OneQueue == Queues = {0} /\ LoopReads = {"cached"} /\ Spurious = FALSE /\ ApiCalls = {}

\* At most one reload is pending and it is of the section not transmitted; the
\* queue sleeps only while it is, and what it sleeps for is that reload.
HandshakeInv ==
  /\ apc = "idle"
  /\ request \in Sections \union {None}
  /\ request = None \/ inProgress = None
  /\ request # active /\ inProgress # active
  /\ LockedIffReloading
  /\ qpc[0] \in {"choose", "untilLoaded", "untilUnlocked"} => cur[0] = active
  /\ doneWaiters \subseteq {0}
  /\ 0 \in doneWaiters => /\ Waiting(0)
                          /\ request = Other(active) \/ inProgress = Other(active)
  /\ qpc[0] = "untilLoaded" =>
       IF 0 \in doneWaiters THEN inProgress = Other(active)
                            ELSE request = None /\ inProgress = None
  /\ workerWaits => wpc = "wait" /\ request < 0

\* Chunk ids follow each other: the section not transmitted holds, or will hold
\* once its pending reload has begun, the chunk after the active one.
ChunkInv ==
  IF request \in Sections \/ wpc = "begin"
    THEN nextChunk = (chunk[active] + 1) % ChunkMod
    ELSE /\ chunk[Other(active)] = (chunk[active] + 1) % ChunkMod
         /\ nextChunk = (chunk[Other(active)] + 1) % ChunkMod

LEMMA OneQueueInit == ASSUME OneQueue, Init PROVE HandshakeInv /\ ChunkInv
<1>1. HandshakeInv
  BY DEF OneQueue, Init, HandshakeInv, LockedIffReloading, Waiting
<1>2. ChunkInv
  BY ReplayAssumption DEF ReplayAssumption, Init, ChunkInv
<1>3. QED BY <1>1, <1>2

\* When the one queue switches, nothing is pending and the next section is full.
LEMMA ReadyAtSwitch ==
  ASSUME OneQueue, StateOK, WorkerInv, HandshakeInv,
         UntilLoaded(0) \/ UntilUnlocked(0), ~Sleep(0)
  PROVE  /\ Switch(0) /\ cur[0] = active /\ request = None /\ inProgress = None
         /\ locked[Other(active)] = 0 /\ loaded[Other(active)] = Cap[Other(active)]
<1> USE DEF StateOK, HandshakeInv, LockedIffReloading
<1>1. Switch(0) /\ cur[0] = active /\ 0 \notin doneWaiters
  BY DEF UntilLoaded, UntilUnlocked, InLoop
<1>2. request = None /\ inProgress = None
  <2>1. CASE UntilLoaded(0) BY <1>1, <2>1 DEF UntilLoaded, InLoop
  <2>2. CASE UntilUnlocked(0)
    <3>1. locked[Other(active)] = 0 \/ Sleep(0) BY <1>1, <2>2 DEF UntilUnlocked
    <3>2. request # Other(active) /\ inProgress # Other(active) BY <3>1
    <3>3. QED BY <3>2
  <2>3. QED BY <2>1, <2>2
<1>3. locked[Other(active)] = 0 BY <1>2
<1>4. loaded[Other(active)] = Cap[Other(active)]
  BY <1>2 DEF WorkerInv, CompleteUnlessLoading
<1>5. QED BY <1>1, <1>2, <1>3, <1>4

\* A queue never goes back to sleep on an empty section, since none is pending.
LEMMA AsleepOnlyWhileLocked ==
  ASSUME OneQueue, StateOK, WorkerInv, HandshakeInv, UntilLoaded(0)
  PROVE  ~Sleep(0)
<1>1. loaded[Other(active)] = Cap[Other(active)] /\ cur[0] = active
  BY DEF StateOK, HandshakeInv, WorkerInv, CompleteUnlessLoading, UntilLoaded, InLoop
<1>2. loaded[Other(cur[0])] > 0
  BY <1>1, ReplayAssumption DEF ReplayAssumption, StateOK
<1>3. Switch(0) BY <1>2, ReplayAssumption DEF UntilLoaded, StateOK
<1>4. qpc'[0] = "count" BY <1>3, ReplayAssumption DEF ReplayAssumption, Switch, StateOK
<1>5. QED BY <1>4 DEF Sleep, UntilLoaded, InLoop

LEMMA HandshakeQueue ==
  ASSUME OneQueue, StateOK, WorkerInv, HandshakeInv, ChunkInv, NEW q \in Queues, Queue(q)
  PROVE  HandshakeInv' /\ ChunkInv'
<1> USE ReplayAssumption DEF ReplayAssumption, OneQueue, StateOK, HandshakeInv, LockedIffReloading,
        Waiting, ChunkInv
<1>0. q = 0 OBVIOUS
<1>1. CASE Exit(q) BY <1>0, <1>1 DEF Exit
<1>2. CASE TakePool(q) BY <1>0, <1>2 DEF TakePool
<1>3. CASE Enter(q) BY <1>0, <1>3 DEF Enter
<1>4. CASE Choose(q)
  <2>1. CASE loaded[Other(active)] > 0
    <3>1. loaded[Other(cur[q])] # 0 BY <1>0, <1>4, <2>1 DEF Choose
    <3>2. /\ UNCHANGED <<active, chunk, nextChunk, locked, request, inProgress, workerWaits, wpc>>
          /\ UNCHANGED <<doneWaiters, cur, apc>>
          /\ qpc[q] = "choose" /\ qpc' = [qpc EXCEPT ![q] = "untilUnlocked"]
      BY <1>4, <3>1, Zenon DEF Choose
    <3>3. QED BY <1>0, <3>2
  <2>2. CASE loaded[Other(active)] = 0
    <3>1. Loading /\ inProgress = Other(active)
      BY <2>2 DEF WorkerInv, CompleteUnlessLoading
    <3>2. /\ UNCHANGED <<active, chunk, nextChunk, locked, request, inProgress, workerWaits, wpc>>
          /\ doneWaiters' = doneWaiters \union {q}
          /\ qpc' = [qpc EXCEPT ![q] = "untilLoaded"] /\ cur' = cur /\ apc' = apc
      BY <1>0, <1>4, <2>2, <3>1 DEF Choose
    <3>3. QED BY <1>0, <1>4, <3>1, <3>2 DEF Choose
  <2>3. QED BY <2>1, <2>2
<1>5. CASE (UntilLoaded(q) \/ UntilUnlocked(q)) /\ ~Sleep(q)
  <2>1. Switch(0) /\ cur[0] = active /\ request = None /\ inProgress = None /\ 0 \notin doneWaiters
    BY <1>0, <1>5, ReadyAtSwitch DEF UntilLoaded, UntilUnlocked, InLoop
  <2>2. ChunkInv'
    BY <2>1 DEF Switch, WorkerInv, Loading
  <2>3. HandshakeInv'
    BY <2>1 DEF Switch
  <2>4. QED BY <2>2, <2>3
<1>6. CASE UntilUnlocked(q) /\ Sleep(q)
  <2>1. locked[Other(active)] # 0
    BY <1>0, <1>6 DEF UntilUnlocked, InLoop, Sleep, Switch
  <2>2. QED BY <1>0, <1>6, <2>1 DEF UntilUnlocked, InLoop, Sleep
<1>7. CASE CountSpent(q) BY <1>0, <1>7 DEF CountSpent
<1>8. CASE PoolEmpty(q) BY <1>0, <1>8 DEF PoolEmpty
<1>9. CASE BumpRead(q) BY <1>0, <1>9 DEF BumpRead
<1>10. CASE BumpWrite(q) BY <1>0, <1>10 DEF BumpWrite
<1>11. CASE \E n \in TxCounts : SendBurst(q, n) BY <1>0, <1>11 DEF SendBurst
<1>12. QED
  BY <1>0, <1>1, <1>2, <1>3, <1>4, <1>5, <1>6, <1>7, <1>8, <1>9, <1>10, <1>11,
     AsleepOnlyWhileLocked DEF Queue

LEMMA HandshakeWork ==
  ASSUME OneQueue, StateOK, WorkerInv, HandshakeInv, ChunkInv, Work
  PROVE  HandshakeInv' /\ ChunkInv'
<1> USE ReplayAssumption DEF ReplayAssumption, OneQueue, StateOK, HandshakeInv, LockedIffReloading,
        Waiting, ChunkInv, WorkerInv, Loading
<1>1. CASE WorkerTake BY <1>1 DEF WorkerTake
<1>2. CASE WorkerBegin BY <1>2 DEF WorkerBegin
<1>3. CASE WorkerFill BY <1>3 DEF WorkerFill
<1>4. CASE WorkerFinish BY <1>4 DEF WorkerFinish
<1>5. QED BY <1>1, <1>2, <1>3, <1>4 DEF Work

LEMMA HandshakeUser ==
  ASSUME HandshakeInv, ChunkInv, User \/ UNCHANGED vars
  PROVE  HandshakeInv' /\ ChunkInv'
<1>1. UNCHANGED <<active, chunk, nextChunk, locked, request, inProgress, workerWaits, wpc, doneWaiters,
                  cur, qpc, apc>>
  BY DEF User, StartStop, Quit, PageNextRead, PageNextWrite, PcapIndex, vars
<1>2. QED BY <1>1 DEF HandshakeInv, ChunkInv, LockedIffReloading, Waiting

LEMMA HandshakeStep ==
  ASSUME OneQueue, StateOK, WorkerInv, HandshakeInv, ChunkInv, [Next]_vars
  PROVE  HandshakeInv' /\ ChunkInv'
<1>1. ~Api BY DEF OneQueue, HandshakeInv, Api, CallReload, ReloadSection, CallStop
<1>2. ASSUME NEW q \in Queues PROVE ~SpuriousWake(q) BY DEF OneQueue, SpuriousWake
<1>3. QED BY <1>1, <1>2, HandshakeQueue, HandshakeWork, HandshakeUser DEF Next

LEMMA OneQueueInvariant ==
  ASSUME OneQueue
  PROVE  Spec => [](TypeOK /\ WorkerInv /\ HandshakeInv /\ ChunkInv)
<1> DEFINE IInv == TypeOK /\ WorkerInv /\ HandshakeInv /\ ChunkInv
<1>1. Init => IInv BY TypeInit, WorkerInit, OneQueueInit
<1>2. IInv /\ [Next]_vars => IInv'
  BY StateStep, FlagsStep, WorkerStep, HandshakeStep DEF TypeOK
<1> HIDE DEF IInv
<1>3. Spec => []IInv BY <1>1, <1>2, PTL DEF Spec
<1>4. QED BY <1>3, PTL DEF IInv

\* With one queue the worker never refills, nor is asked to refill, the section
\* the queue transmits from: the two sections of pktgen_send_pkts alternate.
THEOREM ActiveSafe == ASSUME OneQueue PROVE Spec => []ActiveNotReloaded
<1>1. HandshakeInv => ActiveNotReloaded BY DEF HandshakeInv, ActiveNotReloaded
<1>2. QED BY <1>1, OneQueueInvariant, PTL

\* With one queue section_locked is set exactly while a reload of the section is
\* requested or in progress: no unlock is lost and none is early.
THEOREM LockedExactly == ASSUME OneQueue PROVE Spec => []LockedIffReloading
<1>1. HandshakeInv => LockedIffReloading BY DEF HandshakeInv
<1>2. QED BY <1>1, OneQueueInvariant, PTL

\* With one queue nobody sleeps on reload_done_cond without a reload ahead that
\* the worker is awake to do: no wakeup is lost.
THEOREM NoLostWakeup == ASSUME OneQueue PROVE Spec => []SleeperHasReload
<1>1. StateOK /\ HandshakeInv => SleeperHasReload
  <2> SUFFICES ASSUME StateOK, HandshakeInv, doneWaiters # {}
               PROVE  /\ request >= 0 \/ inProgress >= 0
                      /\ request >= 0 /\ inProgress < 0 => ~workerWaits
    BY DEF SleeperHasReload
  <2>0. 0 \in doneWaiters BY DEF HandshakeInv
  <2>1. request >= 0 \/ inProgress >= 0
    <3>1. request = Other(active) \/ inProgress = Other(active) BY <2>0 DEF HandshakeInv
    <3>2. Other(active) \in {0, 1} BY DEF StateOK
    <3>3. QED BY <3>1, <3>2
  <2>2. workerWaits => request < 0 BY DEF HandshakeInv
  <2>3. request < 0 => ~(request >= 0) BY DEF StateOK
  <2>4. QED BY <2>1, <2>2, <2>3
<1>2. QED BY <1>1, OneQueueInvariant, PTL DEF TypeOK

\* What a step does to the active section: nothing, or a switch of queue 0.
LEMMA OnlySwitchMoves ==
  ASSUME OneQueue, StateOK, WorkerInv, HandshakeInv, [Next]_vars, active' # active
  PROVE  /\ Switch(0) /\ cur[0] = active /\ request = None /\ inProgress = None
         /\ locked[Other(active)] = 0 /\ loaded[Other(active)] = Cap[Other(active)]
<1>1. ~User /\ ~Work /\ ~Api /\ ~(UNCHANGED vars)
  BY DEF User, StartStop, Quit, PageNextRead, PageNextWrite, PcapIndex, vars, Work, WorkerTake,
     WorkerBegin, WorkerFill, WorkerFinish, Api, CallReload, ReloadSection, CallStop
<1>2. Queue(0) BY <1>1 DEF OneQueue, Next, SpuriousWake
<1>3. (UntilLoaded(0) \/ UntilUnlocked(0)) /\ ~Sleep(0)
  BY <1>2 DEF Queue, Exit, TakePool, Enter, Choose, CountSpent, PoolEmpty, BumpRead, BumpWrite,
     SendBurst, Sleep
<1>4. QED BY <1>3, ReadyAtSwitch

\* With one queue a switch goes to a section that is complete and unlocked.
THEOREM SwitchesWhenReady == ASSUME OneQueue PROVE Spec => SwitchWhenReady
<1> DEFINE IInv == TypeOK /\ WorkerInv /\ HandshakeInv /\ ChunkInv
           Ready == active' # active => locked[active'] = 0 /\ loaded[active'] = Cap[active']
<1>1. IInv /\ [Next]_vars => [Ready]_vars
  BY OnlySwitchMoves DEF TypeOK, Switch
<1> HIDE DEF IInv, Ready
<1>2. Spec => []IInv BY OneQueueInvariant DEF IInv
<1>3. Spec => [][Ready]_vars BY <1>1, <1>2, PTL DEF Spec
<1>4. QED BY <1>3 DEF Ready, SwitchWhenReady

\* With one queue every switch goes to the chunk after the one just transmitted.
THEOREM ChunksInOrder == ASSUME OneQueue PROVE Spec => SwitchFollowsChunk
<1> DEFINE IInv == TypeOK /\ WorkerInv /\ HandshakeInv /\ ChunkInv
           Follows == active' # active => chunk[active'] = (chunk[active] + 1) % ChunkMod
<1>1. ASSUME IInv, [Next]_vars, active' # active PROVE Follows
  <2>1. Switch(0) /\ cur[0] = active /\ request = None /\ inProgress = None
    BY <1>1, OnlySwitchMoves DEF TypeOK
  <2>2. active' = Other(active) BY <2>1 DEF Switch
  <2>3. chunk[Other(active)] = (chunk[active] + 1) % ChunkMod
    BY <1>1, <2>1 DEF ChunkInv, WorkerInv, Loading
  <2>4. QED BY <2>2, <2>3
<1> HIDE DEF IInv, Follows
<1>2. Spec => []IInv BY OneQueueInvariant DEF IInv
<1>3. IInv /\ [Next]_vars => [Follows]_vars BY <1>1 DEF Follows
<1>4. Spec => [][Follows]_vars BY <1>2, <1>3, PTL DEF Spec
<1>5. QED BY <1>4 DEF Follows, SwitchFollowsChunk
=============================================================================
