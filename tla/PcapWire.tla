------------------------------ MODULE PcapWire ------------------------------
(***************************************************************************)
(* PcapReplay together with the data it moves: the mbufs of the two        *)
(* section pools, the packet each holds, the source the worker reads, and  *)
(* the NIC that holds mbufs it has not transmitted yet.  Packets are       *)
(* numbered from 0 in the order the source files give them.                *)
(***************************************************************************)
EXTENDS PcapReplay, Sequences

CONSTANT NicDepth   \* transmit descriptors per queue

\* Spurious wakeups, and the public calls, which nothing in the program makes, are
\* left to PcapReplay.
ASSUME WireAssumption == NicDepth \in Nat \ {0} /\ ~Spurious /\ ApiCalls = {}

VARIABLES
  content,    \* content[s][m]: the packet in mbuf m of section s
  pool,       \* pool[s]: the free mbufs of section s, a FIFO ring
  nic,        \* nic[q]: mbufs handed to the NIC on queue q and not yet freed
  cursor,     \* the packet the next record read from the source gives
  countUsed,  \* current_tx_count is 0 in a counted run
  burst       \* the packets of the burst handed over last (history)

wireVars == <<content, pool, nic, cursor, countUsed, burst>>
allVars  == <<vars, wireVars>>

Mbufs(s) == 0 .. Cap[s] - 1
Packets  == 0 .. FilePkts - 1

WireTypeOK ==
  /\ TypeOK
  /\ \A s \in Sections : /\ content[s] \in [Mbufs(s) -> Packets]
                         /\ pool[s] \in Seq(Mbufs(s))
  /\ \A q \in Queues : nic[q] \in Seq({f \in Sections \X Nat : f[2] < Cap[f[1]]})
  /\ cursor \in Packets /\ countUsed \in BOOLEAN /\ burst \in Seq(Packets)

\* Section 0 was loaded from the start of the source, section 1 from there on.
WireInit ==
  /\ Init
  /\ content = [s \in Sections |-> [m \in Mbufs(s) |-> (s * Cap[0] + m) % FilePkts]]
  /\ pool = [s \in Sections |-> [i \in 1 .. Cap[s] |-> i - 1]]
  /\ nic = [q \in Queues |-> <<>>]
  /\ cursor = (Cap[0] + Cap[1]) % FilePkts
  /\ countUsed = FALSE
  /\ burst = <<>>

\* The record after p's: the sources wrap to the first packet of the first file.
NextPacketUnwrapped(p) == p + 1                               \* mutant
NextPacketLate(p) == IF p + 1 = FilePkts THEN 1 ELSE p + 1    \* mutant
NextPacket(p) == (p + 1) % FilePkts

\* mbuf_iterate_cb: the next record of the source, wrapping to the first file
\* after the last, goes to the pool's next object, whoever holds it.
FillMbuf ==
  /\ WorkerFill
  /\ content' = [content EXCEPT ![inProgress][loaded[inProgress]] = cursor]
  /\ cursor' = NextPacket(cursor)
  /\ UNCHANGED <<pool, nic, countUsed, burst>>

\* pkt_atomic64_tx_count grants full bursts while it can; a shorter one is all
\* that was left.  TxControl has the count itself.
Grant(n) == ~countUsed /\ countUsed' = (\E m \in TxCounts : n < m)

\* rte_mempool_get_bulk gives n mbufs and tx_send_packets retries until the NIC
\* has taken them all.
HandBurst(q, n) ==
  LET s == mp[q]
      taken == SubSeq(pool[s], 1, n)
  IN
  /\ Len(pool[s]) >= n /\ Len(nic[q]) + n <= NicDepth
  /\ SendBurst(q, n) /\ Grant(n)
  /\ burst' = [i \in 1 .. n |-> content[s][taken[i]]]
  /\ pool' = [pool EXCEPT ![s] = SubSeq(@, n + 1, Len(@))]
  /\ nic' = [nic EXCEPT ![q] = @ \o [i \in 1 .. n |-> <<s, taken[i]>>]]
  /\ UNCHANGED <<content, cursor>>

\* Too few free mbufs for the burst, which is taken off the count all the same.
NoMbufs(q) ==
  /\ PoolEmpty(q)
  /\ \E n \in TxCounts : Len(pool[mp[q]]) < n /\ Grant(n)
  /\ UNCHANGED <<content, pool, nic, cursor, burst>>

\* A transmit count that has run out.
Spent(q) ==
  /\ CountSpent(q)
  /\ countUsed' = TRUE
  /\ UNCHANGED <<content, pool, nic, cursor, burst>>

\* The NIC has transmitted its oldest mbuf and frees it to its pool.
NicDone(q) ==
  /\ nic[q] # <<>>
  /\ LET s == Head(nic[q])[1]
         m == Head(nic[q])[2]
     IN pool' = [pool EXCEPT ![s] = Append(@, m)]
  /\ nic' = [nic EXCEPT ![q] = Tail(@)]
  /\ UNCHANGED <<vars, content, cursor, countUsed, burst>>

WireQueue(q) ==
  \/ /\ \/ Exit(q) \/ TakePool(q) \/ Enter(q) \/ Choose(q) \/ UntilLoaded(q)
        \/ UntilUnlocked(q) \/ BumpRead(q) \/ BumpWrite(q)
     /\ UNCHANGED wireVars
  \/ Spent(q) \/ NoMbufs(q)
  \/ \E n \in TxCounts : HandBurst(q, n)

WireWork ==
  \/ (WorkerTake \/ WorkerBegin \/ WorkerFinish) /\ UNCHANGED wireVars
  \/ FillMbuf

\* pktgen_start_transmitting loads the count again.
WireUser ==
  /\ User
  /\ countUsed' = (countUsed /\ ~(sending' /\ ~sending))
  /\ UNCHANGED <<content, pool, nic, cursor, burst>>

WireNext ==
  \/ \E q \in Queues : WireQueue(q) \/ NicDone(q)
  \/ WireWork
  \/ WireUser

WireSpec == WireInit /\ [][WireNext]_allVars

\* Besides the lcores and the worker, the NIC keeps draining what it holds.
WireFairness ==
  /\ WF_allVars(WireWork)
  /\ \A q \in Queues : WF_allVars(WireQueue(q)) /\ WF_allVars(NicDone(q))

WireFairSpec == WireSpec /\ WireFairness
-----------------------------------------------------------------------------
(* Properties.                                                             *)

\* The packet due after the last one handed over.
Due == IF burst = <<>> THEN 0 ELSE (burst[Len(burst)] + 1) % FilePkts

Order == INSTANCE ReplayOrder WITH pos <- Due

\* The NIC is handed the capture in file order, across section switches,
\* reloads and the wrap of the source (README.md: "allowing a large packet
\* capture to be replayed").
InOrder == Order!Spec

\* A packet handed to the NIC is what the NIC transmits: nothing rewrites an
\* mbuf it still holds.
InFlightIntact ==
  [][\A q \in Queues : \A i \in 1 .. Len(nic[q]) :
       LET s == nic[q][i][1]
           m == nic[q][i][2]
       IN content'[s][m] = content[s][m]]_allVars

\* While the port keeps sending, every packet of the capture is replayed again
\* and again.
ReplayGoesOn ==
  \A p \in Packets :
    []<>(~sending \/ quit \/ p \in {burst[i] : i \in 1 .. Len(burst)})
=============================================================================
