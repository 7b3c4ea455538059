--------------------------- MODULE PcapWireProofs ---------------------------
(***************************************************************************)
(* Theorems about PcapWire: the types of the data path for any number of   *)
(* queues, and the order of the packets for one queue.                     *)
(***************************************************************************)
EXTENDS PcapWire, PcapReplayProofs, Remainders

USE DEF Sections

-----------------------------------------------------------------------------
(* Every step of the data path is a step of the handshake, or none.        *)

LEMMA WireIsReplay == [WireNext]_allVars => [Next]_vars
<1> SUFFICES ASSUME [WireNext]_allVars PROVE [Next]_vars OBVIOUS
<1>1. ASSUME NEW q \in Queues, WireQueue(q) PROVE Queue(q)
  BY <1>1, Zenon DEF WireQueue, Queue, Spent, NoMbufs, HandBurst
<1>2. ASSUME NEW q \in Queues, NicDone(q) PROVE UNCHANGED vars
  BY <1>2, Zenon DEF NicDone
<1>3. WireWork => Work BY Zenon DEF WireWork, FillMbuf, Work
<1>4. WireUser => User BY Zenon DEF WireUser
<1>5. UNCHANGED allVars => UNCHANGED vars BY Zenon DEF allVars
<1>6. QED BY <1>1, <1>2, <1>3, <1>4, <1>5, Zenon DEF WireNext, Next

LEMMA WireRefines == WireSpec => Spec
<1>1. WireInit => Init BY DEF WireInit
<1>2. QED BY <1>1, WireIsReplay, PTL DEF WireSpec, Spec

-----------------------------------------------------------------------------
(* Types.                                                                  *)

Flight == {f \in Sections \X Nat : f[2] < Cap[f[1]]}

\* The mbufs, the packets in them, and where each mbuf may be.
DataOK ==
  /\ DOMAIN content = Sections /\ DOMAIN pool = Sections /\ DOMAIN nic = Queues
  /\ \A s \in Sections : content[s] \in [Mbufs(s) -> Packets] /\ pool[s] \in Seq(Mbufs(s))
  /\ \A q \in Queues : nic[q] \in Seq(Flight)
  /\ cursor \in Packets /\ countUsed \in BOOLEAN /\ burst \in Seq(Packets)

LEMMA DataInit == WireInit => DataOK
<1> USE ReplayAssumption DEF ReplayAssumption, Mbufs, Packets
<1> SUFFICES ASSUME WireInit PROVE DataOK OBVIOUS
<1>1. \A a \in Nat : a % FilePkts \in 0 .. FilePkts - 1 OBVIOUS
<1>2. ASSUME NEW s \in Sections PROVE content[s] \in [Mbufs(s) -> Packets]
  <2>1. s * Cap[0] \in Nat
    <3>1. CASE s = 0 BY <3>1
    <3>2. CASE s = 1 BY <3>2
    <3>3. QED BY <3>1, <3>2
  <2>2. \A m \in Mbufs(s) : (s * Cap[0] + m) % FilePkts \in Packets BY <1>1, <2>1
  <2>3. content[s] = [m \in Mbufs(s) |-> (s * Cap[0] + m) % FilePkts] BY DEF WireInit
  <2>4. QED BY <2>2, <2>3
<1>3. ASSUME NEW s \in Sections PROVE pool[s] \in Seq(Mbufs(s))
  <2>1. pool[s] = [i \in 1 .. Cap[s] |-> i - 1] /\ Cap[s] \in Nat BY DEF WireInit
  <2>2. \A i \in 1 .. Cap[s] : i - 1 \in Mbufs(s) BY <2>1
  <2>3. QED BY <2>1, <2>2
<1>4. cursor \in Packets
  <2>1. cursor = (Cap[0] + Cap[1]) % FilePkts BY Zenon DEF WireInit
  <2>2. Cap[0] \in Nat /\ Cap[1] \in Nat OBVIOUS
  <2>3. QED BY <1>1, <2>1, <2>2
<1>5. DOMAIN content = Sections /\ DOMAIN pool = Sections /\ nic = [q \in Queues |-> <<>>]
      /\ countUsed \in BOOLEAN /\ burst = <<>>
  BY DEF WireInit
<1>6. nic \in [Queues -> Seq(Flight)] BY <1>5
<1>7. QED BY <1>2, <1>3, <1>4, <1>5, <1>6 DEF DataOK

\* What a burst takes from the pool: n mbufs, in the order of the pool.
LEMMA Taken ==
  ASSUME DataOK, NEW s \in Sections, NEW n \in Nat, n <= Len(pool[s])
  PROVE  /\ SubSeq(pool[s], 1, n) \in Seq(Mbufs(s)) /\ Len(SubSeq(pool[s], 1, n)) = n
         /\ \A i \in 1 .. n : SubSeq(pool[s], 1, n)[i] = pool[s][i] /\ pool[s][i] \in Mbufs(s)
         /\ SubSeq(pool[s], n + 1, Len(pool[s])) \in Seq(Mbufs(s))
         /\ Len(SubSeq(pool[s], n + 1, Len(pool[s]))) = Len(pool[s]) - n
         /\ \A i \in 1 .. Len(pool[s]) - n :
              SubSeq(pool[s], n + 1, Len(pool[s]))[i] = pool[s][n + i]
<1> DEFINE P == pool[s]
           M == Mbufs(s)
<1>1. P \in Seq(M) BY DEF DataOK
<1> HIDE DEF P, M
<1>2. QED BY <1>1 DEF P, M

LEMMA DataQueue ==
  ASSUME TypeOK, DataOK, NEW q \in Queues, WireQueue(q)
  PROVE  DataOK'
<1>1. CASE UNCHANGED wireVars BY <1>1 DEF DataOK, wireVars
<1>2. CASE Spent(q) BY <1>2 DEF DataOK, Spent
<1>3. ASSUME UNCHANGED <<content, pool, nic, cursor, burst>>, countUsed' \in BOOLEAN PROVE DataOK'
  BY <1>3 DEF DataOK
<1>4. CASE NoMbufs(q)
  <2>1. countUsed' \in BOOLEAN BY <1>4 DEF NoMbufs, Grant
  <2>2. QED BY <1>3, <1>4, <2>1 DEF NoMbufs
<1>5. ASSUME NEW n \in TxCounts, HandBurst(q, n) PROVE DataOK'
  <2> DEFINE s == mp[q]
             taken == SubSeq(pool[s], 1, n)
             new == [i \in 1 .. n |-> <<s, taken[i]>>]
  <2>1. s \in Sections /\ n \in Nat BY ReplayAssumption DEF ReplayAssumption, TypeOK, StateOK
  <2>2. /\ n <= Len(pool[s])
        /\ burst' = [i \in 1 .. n |-> content[s][taken[i]]]
        /\ pool' = [pool EXCEPT ![s] = SubSeq(pool[s], n + 1, Len(pool[s]))]
        /\ nic' = [nic EXCEPT ![q] = nic[q] \o new]
        /\ content' = content /\ cursor' = cursor
    <3>1. Len(pool[s]) >= n /\ Len(pool[s]) \in Nat BY <1>5, <2>1 DEF HandBurst, DataOK
    <3>2. n <= Len(pool[s]) BY <2>1, <3>1
    <3>3. QED BY <1>5, <3>2 DEF HandBurst
  <2>3. \A i \in 1 .. n : taken[i] \in Mbufs(s) BY <2>1, <2>2, Taken
  <2>4. burst' \in Seq(Packets)
    <3>1. \A i \in 1 .. n : content[s][taken[i]] \in Packets BY <2>1, <2>3 DEF DataOK
    <3>2. QED BY <2>1, <2>2, <3>1
  <2>5. new \in Seq(Flight)
    <3>1. ASSUME NEW m \in Mbufs(s) PROVE <<s, m>> \in Flight
      BY <2>1, ReplayAssumption DEF ReplayAssumption, Flight, Mbufs
    <3> HIDE DEF taken
    <3>2. \A i \in 1 .. n : <<s, taken[i]>> \in Flight BY <2>3, <3>1
    <3> HIDE DEF s
    <3>3. QED BY <2>1, <3>2
  <2>6. SubSeq(pool[s], n + 1, Len(pool[s])) \in Seq(Mbufs(s)) BY <2>1, <2>2, Taken
  <2>7. countUsed' \in BOOLEAN BY <1>5 DEF HandBurst, Grant
  <2> HIDE DEF new, taken, s
  <2>8. DOMAIN pool' = Sections /\ \A r \in Sections : pool'[r] \in Seq(Mbufs(r))
    BY <2>1, <2>2, <2>6 DEF DataOK
  <2>9. nic[q] \o new \in Seq(Flight) BY <2>5 DEF DataOK
  <2>10. DOMAIN nic' = Queues /\ \A r \in Queues : nic'[r] \in Seq(Flight)
    BY <2>2, <2>9 DEF DataOK
  <2>11. QED BY <2>2, <2>4, <2>7, <2>8, <2>10 DEF DataOK, Mbufs
<1>6. QED BY <1>1, <1>2, <1>4, <1>5, Zenon DEF WireQueue

LEMMA DataNicDone ==
  ASSUME DataOK, NEW q \in Queues, NicDone(q)
  PROVE  DataOK'
<1> DEFINE s == Head(nic[q])[1]
           m == Head(nic[q])[2]
<1>1. nic[q] \in Seq(Flight) /\ nic[q] # <<>> BY DEF DataOK, NicDone
<1>2. Head(nic[q]) \in Flight /\ Tail(nic[q]) \in Seq(Flight)
  <2> DEFINE N == nic[q]
  <2> HIDE DEF N
  <2>1. N \in Seq(Flight) /\ N # <<>> BY <1>1 DEF N
  <2>2. Head(N) \in Flight /\ Tail(N) \in Seq(Flight) BY <2>1
  <2>3. QED BY <2>2 DEF N
<1>3. s \in Sections /\ m \in Mbufs(s)
  BY <1>2, ReplayAssumption DEF Flight, Mbufs, ReplayAssumption
<1>4. pool' = [pool EXCEPT ![s] = Append(pool[s], m)] /\ nic' = [nic EXCEPT ![q] = Tail(nic[q])]
      /\ UNCHANGED <<content, cursor, countUsed, burst>>
  BY DEF NicDone
<1> HIDE DEF s, m
<1>5. Append(pool[s], m) \in Seq(Mbufs(s)) BY <1>3 DEF DataOK
<1>6. DOMAIN pool' = Sections /\ \A r \in Sections : pool'[r] \in Seq(Mbufs(r))
  BY <1>3, <1>4, <1>5 DEF DataOK
<1>7. DOMAIN nic' = Queues /\ \A r \in Queues : nic'[r] \in Seq(Flight)
  BY <1>2, <1>4 DEF DataOK
<1>8. QED BY <1>4, <1>6, <1>7 DEF DataOK

\* The mbuf the worker overwrites is one of its section's.
LEMMA Filled ==
  ASSUME TypeOK, WorkerInv, DataOK, FillMbuf
  PROVE  /\ inProgress \in Sections /\ loaded[inProgress] \in Mbufs(inProgress)
         /\ content' = [content EXCEPT ![inProgress] =
                                   [content[inProgress] EXCEPT ![loaded[inProgress]] = cursor]]
         /\ cursor' = (cursor + 1) % FilePkts /\ cursor' \in Packets
         /\ UNCHANGED <<pool, nic, countUsed, burst>>
<1>1. inProgress \in Sections /\ loaded[inProgress] < Cap[inProgress]
  BY DEF FillMbuf, WorkerFill, WorkerInv, Loading
<1>2. loaded[inProgress] \in Mbufs(inProgress)
  BY <1>1, ReplayAssumption DEF ReplayAssumption, TypeOK, StateOK, Mbufs
<1>3. cursor' = (cursor + 1) % FilePkts BY DEF FillMbuf, NextPacket
<1>4. cursor' \in Packets
  BY <1>3, ReplayAssumption DEF ReplayAssumption, DataOK, Packets
<1>5. QED BY <1>1, <1>2, <1>3, <1>4 DEF FillMbuf

LEMMA DataFill ==
  ASSUME TypeOK, WorkerInv, DataOK, FillMbuf
  PROVE  DataOK'
<1>1. /\ inProgress \in Sections /\ loaded[inProgress] \in Mbufs(inProgress)
      /\ content' = [content EXCEPT ![inProgress] =
                                [content[inProgress] EXCEPT ![loaded[inProgress]] = cursor]]
      /\ cursor' \in Packets /\ UNCHANGED <<pool, nic, countUsed, burst>>
  BY Filled
<1>2. [content[inProgress] EXCEPT ![loaded[inProgress]] = cursor] \in [Mbufs(inProgress) -> Packets]
  BY <1>1 DEF DataOK
<1>3. DOMAIN content' = Sections /\ \A r \in Sections : content'[r] \in [Mbufs(r) -> Packets]
  BY <1>1, <1>2 DEF DataOK
<1>4. QED BY <1>1, <1>3 DEF DataOK

LEMMA DataStep ==
  ASSUME TypeOK, WorkerInv, DataOK, [WireNext]_allVars
  PROVE  DataOK'
<1>1. CASE UNCHANGED wireVars BY <1>1 DEF DataOK, wireVars
<1>2. ASSUME NEW q \in Queues, WireQueue(q) \/ NicDone(q) PROVE DataOK'
  BY <1>2, DataQueue, DataNicDone
<1>3. CASE WireWork BY <1>1, <1>3, DataFill DEF WireWork
<1>4. CASE WireUser
  <2>1. countUsed' \in BOOLEAN BY <1>4 DEF WireUser
  <2>2. QED BY <1>4, <2>1 DEF WireUser, DataOK
<1>5. QED BY <1>1, <1>2, <1>3, <1>4, Zenon DEF WireNext, allVars

\* Every mbuf index stays inside its pool and every packet inside the capture, for
\* any number of queues, sizes, bursts and descriptors.
THEOREM WireTypeCorrect == WireSpec => []WireTypeOK
<1>1. WireInit => DataOK BY DataInit
<1>2. TypeOK /\ WorkerInv /\ DataOK /\ [WireNext]_allVars => DataOK' BY DataStep
<1>3. TypeOK /\ DataOK => WireTypeOK BY DEF WireTypeOK, DataOK, Flight
<1>4. QED BY <1>1, <1>2, <1>3, WireRefines, TypeCorrect, WorkerCorrect, PTL DEF WireSpec

-----------------------------------------------------------------------------
(* One queue, whole bursts and no command that writes the index: the order. *)

\* Every burst is of n packets, and a section holds whole bursts.
Bursts(n) == TxCounts = {n} /\ \A s \in Sections : Cap[s] % n = 0

OneWire == OneQueue /\ CliIndexes = {} /\ ~Paging /\ \E n \in TxCounts : Bursts(n)

\* Packets of the active section handed over: what pkt_index says, or will say.
Sent == pktIndex + (IF qpc[0] \in {"bump", "store"} THEN txCnt ELSE 0)

\* The queue takes from the active section's pool and counts what it sends, burst
\* by burst, to the section's end and no further.
CountInv(n) ==
  /\ cliTmp = NoIndex
  /\ Sent % n = 0 /\ Sent <= Cap[active]
  /\ qpc[0] = "store" => oldIndex = pktIndex
  /\ qpc[0] \in {"enter", "choose", "untilLoaded", "untilUnlocked", "count"} => mp[0] = active
  /\ qpc[0] = "count" => pktIndex < Cap[active]
  /\ qpc[0] \in {"choose", "untilLoaded", "untilUnlocked"} => pktIndex = Cap[active]

\* Of section s, the mbufs of the pool P and those of the NIC's ring N stand in
\* the order of the pool's start, going round c mbufs, from the k-th on.
PoolFrom(P, c, k) == \A i \in 1 .. Len(P) : P[i] = (k + i - 1) % c

Among(N, s, i, j) == \E h \in i .. j : N[h][1] = s

RingFrom(N, s, P, c, k) ==
  \* the oldest follows the last of the pool
  /\ \A i \in 1 .. Len(N) :
       N[i][1] = s /\ ~Among(N, s, 1, i - 1) => N[i][2] = (k + Len(P)) % c
  \* each follows the one before it
  /\ \A i, j \in 1 .. Len(N) :
       i < j /\ N[i][1] = s /\ N[j][1] = s /\ ~Among(N, s, i + 1, j - 1) =>
         N[j][2] = (N[i][2] + 1) % c
  \* the first of the pool follows the newest
  /\ \A i \in 1 .. Len(N) :
       N[i][1] = s /\ ~Among(N, s, i + 1, Len(N)) => (N[i][2] + 1) % c = k % c
  \* with none in the NIC, the pool has gone round
  /\ ~Among(N, s, 1, Len(N)) => (k + Len(P)) % c = k % c

\* Where the pool of section s stands.
Turn(s) == IF s = active THEN Sent ELSE 0

RingInv ==
  \A s \in Sections :
    /\ PoolFrom(pool[s], Cap[s], Turn(s))
    /\ RingFrom(nic[0], s, pool[s], Cap[s], Turn(s))

First(s) == content[s][0]

\* The packet after the last one of the active section.
AfterActive == (First(active) + Cap[active]) % FilePkts

\* The reload of the other section has not read a packet yet.
Unread ==
  \/ request \in Sections
  \/ wpc = "begin"
  \/ wpc = "fill" /\ loaded[inProgress] = 0

\* What a section holds of the capture, and where the source stands.
ContentInv ==
  /\ \A s \in Sections : \A m \in Mbufs(s) :
       m < loaded[s] => content[s][m] = (First(s) + m) % FilePkts
  /\ IF Unread
       THEN cursor = AfterActive
       ELSE /\ First(Other(active)) = AfterActive
            /\ cursor = (First(Other(active)) + loaded[Other(active)]) % FilePkts
  /\ Due = (First(active) + Sent) % FilePkts

-----------------------------------------------------------------------------
(* Lemmas on the order of a ring.                                          *)

Flights == Sections \X Nat

\* Handing n mbufs of a pool to the NIC moves its turn on by n.
LEMMA RingTake ==
  ASSUME NEW s \in Sections, NEW c \in Nat \ {0}, NEW k \in Nat, NEW n \in Nat \ {0},
         NEW N \in Seq(Flights), NEW P \in Seq(Nat), n <= Len(P),
         NEW M \in Seq(Flights), Len(M) = Len(N) + n,
         \A i \in 1 .. Len(N) : M[i] = N[i],
         \A i \in 1 .. n : M[Len(N) + i] = <<s, P[i]>>,
         NEW Q \in Seq(Nat), Len(Q) = Len(P) - n, \A i \in 1 .. Len(Q) : Q[i] = P[n + i],
         PoolFrom(P, c, k), RingFrom(N, s, P, c, k)
  PROVE  PoolFrom(Q, c, k + n) /\ RingFrom(M, s, Q, c, k + n)
<1> DEFINE l == Len(N)
<1>0. l \in Nat /\ Len(P) \in Nat /\ Len(M) = l + n OBVIOUS
<1>1. PoolFrom(Q, c, k + n)
  <2>1. ASSUME NEW i \in 1 .. Len(Q) PROVE Q[i] = (k + n + i - 1) % c
    <3>1. n + i \in 1 .. Len(P) BY <1>0
    <3>2. k + (n + i) - 1 = k + n + i - 1 BY <1>0
    <3>3. P[n + i] = (k + (n + i) - 1) % c BY <3>1 DEF PoolFrom
    <3>4. QED BY <3>2, <3>3
  <2>2. QED BY <2>1 DEF PoolFrom
<1>2. \A i \in 1 .. n : M[l + i][1] = s /\ M[l + i][2] = (k + i - 1) % c
  <2>1. ASSUME NEW i \in 1 .. n PROVE M[l + i][1] = s /\ M[l + i][2] = (k + i - 1) % c
    <3>1. i \in 1 .. Len(P) BY <1>0
    <3>2. M[l + i] = <<s, P[i]>> /\ P[i] = (k + i - 1) % c BY <3>1 DEF PoolFrom
    <3>3. QED BY <3>2
  <2>2. QED BY <2>1
<1>3. ASSUME NEW i \in 1 .. l + 1, NEW j \in 0 .. l PROVE Among(M, s, i, j) <=> Among(N, s, i, j)
  <2>1. \A h \in i .. j : h \in 1 .. l BY <1>0
  <2>2. QED BY <2>1 DEF Among
<1>4. ASSUME NEW i \in 1 .. l + n, NEW j \in 0 .. l + n, NEW h \in 1 .. n, i <= l + h, l + h <= j
      PROVE  Among(M, s, i, j)
  <2>1. l + h \in i .. j BY <1>0, <1>4
  <2>2. M[l + h][1] = s BY <1>2
  <2>3. QED BY <2>1, <2>2 DEF Among
<1>5. ASSUME NEW i \in 1 .. l + n, i > l PROVE \E h \in 1 .. n : i = l + h
  <2>1. i - l \in 1 .. n /\ i = l + (i - l) BY <1>0, <1>5
  <2>2. QED BY <2>1
<1>6. \A i \in 1 .. l : M[i] = N[i] OBVIOUS
<1>7. RingFrom(N, s, P, c, k) /\ Len(N) = l OBVIOUS
<1> HIDE DEF l
<1>8. k + n + Len(Q) = k + Len(P) BY <1>0
<1>9. ASSUME NEW i \in 1 .. Len(M), M[i][1] = s, ~Among(M, s, 1, i - 1)
      PROVE  M[i][2] = (k + n + Len(Q)) % c
  <2>1. CASE i <= l
    <3>1. i \in 1 .. l /\ i - 1 \in 0 .. l /\ 1 \in 1 .. l + 1 BY <1>0, <2>1
    <3>2. ~Among(N, s, 1, i - 1) BY <1>3, <1>9, <3>1
    <3>3. M[i][2] = (k + Len(P)) % c BY <1>9, <1>6, <1>7, <3>1, <3>2 DEF RingFrom
    <3>4. QED BY <1>8, <3>3
  <2>2. CASE i > l
    <3>1. ~Among(N, s, 1, l)
      <4>1. \A h \in 1 .. l : h \in 1 .. i - 1 /\ M[h] = N[h] BY <1>0, <1>6, <2>2
      <4>2. QED BY <1>9, <4>1 DEF Among
    <3>2. i = l + 1
      <4>1. SUFFICES ASSUME i # l + 1 PROVE FALSE OBVIOUS
      <4>2. i - 1 \in 0 .. l + n /\ 1 \in 1 .. l + n /\ 1 \in 1 .. n /\ 1 <= l + 1 /\ l + 1 <= i - 1
        BY <1>0, <2>2, <4>1
      <4>3. QED BY <1>4, <1>9, <4>2
    <3>3. M[i][2] = k % c
      <4>1. 1 \in 1 .. n /\ k + 1 - 1 = k OBVIOUS
      <4>2. QED BY <1>2, <3>2, <4>1
    <3>4. (k + Len(P)) % c = k % c BY <1>7, <3>1 DEF RingFrom
    <3>5. QED BY <1>8, <3>3, <3>4
  <2>3. QED BY <1>0, <2>1, <2>2
<1>10. ASSUME NEW i \in 1 .. Len(M), NEW j \in 1 .. Len(M), i < j, M[i][1] = s, M[j][1] = s,
             ~Among(M, s, i + 1, j - 1)
      PROVE  M[j][2] = (M[i][2] + 1) % c
  <2>1. CASE j <= l
    <3>0. i \in 1 .. l /\ j \in 1 .. l BY <1>0, <1>10, <2>1
    <3>1. i \in 1 .. l /\ j \in 1 .. l /\ i + 1 \in 1 .. l + 1 /\ j - 1 \in 0 .. l
      BY <1>0, <3>0
    <3>2. ~Among(N, s, i + 1, j - 1) BY <1>3, <1>10, <3>1
    <3>3. QED BY SMTT(30), <1>10, <1>6, <1>7, <3>1, <3>2 DEF RingFrom
  <2>2. CASE i <= l /\ j > l
    <3>0. i \in 1 .. l /\ N[i] = M[i] BY SMTT(30), <1>0, <1>6, <2>2
    <3>1. ~Among(N, s, i + 1, l)
      <4>1. \A h \in i + 1 .. l : h \in i + 1 .. j - 1 /\ h \in 1 .. l BY SMTT(30), <1>0, <2>2, <3>0
      <4>2. QED BY <1>10, <1>6, <4>1 DEF Among
    <3>2. j = l + 1
      <4>1. SUFFICES ASSUME j # l + 1 PROVE FALSE OBVIOUS
      <4>2. /\ i + 1 \in 1 .. l + n /\ j - 1 \in 0 .. l + n /\ 1 \in 1 .. n
            /\ i + 1 <= l + 1 /\ l + 1 <= j - 1
        BY <1>0, <2>2, <4>1
      <4>3. QED BY <1>4, <1>10, <4>2
    <3>3. M[j][2] = k % c
      <4>1. 1 \in 1 .. n /\ k + 1 - 1 = k OBVIOUS
      <4>2. QED BY <1>2, <3>2, <4>1
    <3>4. (N[i][2] + 1) % c = k % c BY <1>10, <1>7, <3>0, <3>1 DEF RingFrom
    <3>5. QED BY <3>0, <3>3, <3>4
  <2>3. CASE i > l
    <3>1. PICK h \in 1 .. n : i = l + h BY <1>0, <1>5, <2>3
    <3>2. h + 1 \in 1 .. n BY <1>0, <1>10, <3>1
    <3>3. j = i + 1
      <4>1. SUFFICES ASSUME j # i + 1 PROVE FALSE OBVIOUS
      <4>2. j \in Nat /\ j <= l + n /\ i + 1 < j
        <5>1. i \in Nat /\ j \in Nat /\ j <= l + n BY <1>0
        <5>2. QED BY <1>10, <4>1, <5>1
      <4>3. i + 1 \in 1 .. l + n /\ i + 1 <= l + (h + 1) BY <1>0, <3>2, <3>1
      <4>4. j - 1 \in 0 .. l + n /\ l + (h + 1) <= j - 1 BY <1>0, <3>2, <3>1, <4>2
      <4>5. QED BY <1>4, <1>10, <3>2, <4>3, <4>4
    <3>4. h + 1 \in 1 .. n /\ j = l + (h + 1) BY <1>0, <3>2, <3>3, <3>1
    <3>5. M[i][2] = (k + h - 1) % c /\ M[j][2] = (k + (h + 1) - 1) % c BY <1>2, <3>1, <3>4
    <3>6. (((k + h - 1) % c) + 1) % c = (k + h - 1 + 1) % c
      <4>1. k + h - 1 \in Nat BY <1>0
      <4>2. QED BY <4>1, ModSum
    <3>7. k + (h + 1) - 1 = k + h - 1 + 1 BY <3>1
    <3>8. QED BY <3>5, <3>6, <3>7
  <2>4. QED BY <1>0, <1>10, <2>1, <2>2, <2>3
<1>11. ASSUME NEW i \in 1 .. Len(M), M[i][1] = s, ~Among(M, s, i + 1, Len(M))
      PROVE  (M[i][2] + 1) % c = (k + n) % c
  <2>1. i = l + n
    <3>1. SUFFICES ASSUME i # l + n PROVE FALSE OBVIOUS
    <3>2. /\ i + 1 \in 1 .. l + n /\ Len(M) \in 0 .. l + n /\ n \in 1 .. n
          /\ i + 1 <= l + n /\ l + n <= Len(M)
      BY <1>0, <3>1
    <3>3. QED BY <1>4, <1>11, <3>2
  <2>2. M[i][2] = (k + n - 1) % c
    <3>1. n \in 1 .. n OBVIOUS
    <3>2. QED BY <1>2, <2>1, <3>1
  <2>3. (((k + n - 1) % c) + 1) % c = (k + n - 1 + 1) % c
    <3>1. k + n - 1 \in Nat OBVIOUS
    <3>2. QED BY <3>1, ModSum
  <2>4. k + n - 1 + 1 = k + n OBVIOUS
  <2>5. QED BY <2>2, <2>3, <2>4
<1>12. Among(M, s, 1, Len(M))
  <2>1. 1 \in 1 .. l + n /\ Len(M) \in 0 .. l + n /\ 1 \in 1 .. n /\ 1 <= l + 1 /\ l + 1 <= Len(M)
    BY <1>0
  <2>2. QED BY <1>4, <2>1
<1>13. RingFrom(M, s, Q, c, k + n)
  BY <1>9, <1>10, <1>11, <1>12 DEF RingFrom
<1>14. QED BY <1>1, <1>13

\* Mbufs of the other section join the ring behind.
LEMMA RingElse ==
  ASSUME NEW s \in Sections, NEW c \in Nat \ {0}, NEW k \in Nat, NEW n \in Nat,
         NEW N \in Seq(Flights), NEW P \in Seq(Nat),
         NEW M \in Seq(Flights), Len(M) = Len(N) + n,
         \A i \in 1 .. Len(N) : M[i] = N[i],
         \A i \in 1 .. n : M[Len(N) + i][1] # s,
         RingFrom(N, s, P, c, k)
  PROVE  RingFrom(M, s, P, c, k)
<1> DEFINE l == Len(N)
<1>0. l \in Nat /\ Len(M) = l + n OBVIOUS
<1>1. ASSUME NEW i \in 1 .. Len(M), M[i][1] = s PROVE i \in 1 .. l
  <2>1. SUFFICES ASSUME i > l PROVE FALSE BY <1>0
  <2>2. i - l \in 1 .. n /\ l + (i - l) = i BY <1>0, <2>1
  <2>3. QED BY <1>1, <2>2
<1>2. ASSUME NEW i \in 1 .. l + 1, NEW j \in 0 .. l PROVE Among(M, s, i, j) <=> Among(N, s, i, j)
  <2>1. \A h \in i .. j : h \in 1 .. l BY <1>0
  <2>2. QED BY <2>1 DEF Among
<1>3. ASSUME NEW i \in 1 .. l + 1 PROVE Among(M, s, i, Len(M)) <=> Among(N, s, i, l)
  <2>1. Among(N, s, i, l) => Among(M, s, i, Len(M)) BY <1>0 DEF Among
  <2>2. Among(M, s, i, Len(M)) => Among(N, s, i, l)
    <3>1. SUFFICES ASSUME NEW h \in i .. Len(M), M[h][1] = s PROVE Among(N, s, i, l) BY DEF Among
    <3>2. h \in 1 .. Len(M) BY <1>0
    <3>3. h \in i .. l BY <1>0, <1>1, <3>1, <3>2
    <3>4. QED BY <1>0, <3>1, <3>3 DEF Among
  <2>3. QED BY <2>1, <2>2
<1>4. \A i \in 1 .. l : M[i] = N[i] OBVIOUS
<1> HIDE DEF l
<1>5. RingFrom(N, s, P, c, k) /\ l = Len(N) BY DEF l
<1>6. ASSUME NEW i \in 1 .. Len(M), M[i][1] = s, ~Among(M, s, 1, i - 1)
      PROVE  M[i][2] = (k + Len(P)) % c
  <2>1. i \in 1 .. l BY <1>1, <1>6
  <2>2. ~Among(N, s, 1, i - 1) BY <1>0, <1>2, <1>6, <2>1
  <2>3. QED BY <1>4, <1>5, <1>6, <2>1, <2>2 DEF RingFrom
<1>7. ASSUME NEW i \in 1 .. Len(M), NEW j \in 1 .. Len(M), i < j, M[i][1] = s, M[j][1] = s,
             ~Among(M, s, i + 1, j - 1)
      PROVE  M[j][2] = (M[i][2] + 1) % c
  <2>1. i \in 1 .. l /\ j \in 1 .. l BY <1>1, <1>7
  <2>2. i + 1 \in 1 .. l + 1 /\ j - 1 \in 0 .. l BY <1>0, <2>1
  <2>3. ~Among(N, s, i + 1, j - 1) BY <1>2, <1>7, <2>2
  <2>4. QED BY <1>4, <1>5, <1>7, <2>1, <2>3 DEF RingFrom
<1>8. ASSUME NEW i \in 1 .. Len(M), M[i][1] = s, ~Among(M, s, i + 1, Len(M))
      PROVE  (M[i][2] + 1) % c = k % c
  <2>1. i \in 1 .. l BY <1>1, <1>8
  <2>2. ~Among(N, s, i + 1, l) BY <1>0, <1>3, <1>8, <2>1
  <2>3. QED BY <1>4, <1>5, <1>8, <2>1, <2>2 DEF RingFrom
<1>9. ~Among(M, s, 1, Len(M)) => (k + Len(P)) % c = k % c
  <2>0. 1 \in 1 .. l + 1 BY <1>0
  <2>1. Among(M, s, 1, Len(M)) <=> Among(N, s, 1, l) BY <1>3, <2>0
  <2>2. QED BY <1>5, <2>1 DEF RingFrom
<1>10. QED BY <1>6, <1>7, <1>8, <1>9 DEF RingFrom

\* Without its first entry, every place in a ring moves up by one.
LEMMA Shifted ==
  ASSUME NEW s, NEW N, NEW M, NEW l \in Nat, \A h \in 1 .. l : M[h] = N[h + 1],
         NEW i \in 1 .. l + 1, NEW j \in 0 .. l
  PROVE  Among(M, s, i, j) <=> Among(N, s, i + 1, j + 1)
<1>1. ASSUME NEW h \in i .. j, M[h][1] = s PROVE Among(N, s, i + 1, j + 1)
  <2>1. h \in 1 .. l /\ h + 1 \in i + 1 .. j + 1 OBVIOUS
  <2>2. N[h + 1][1] = s BY <1>1, <2>1
  <2>3. QED BY <2>1, <2>2 DEF Among
<1>2. ASSUME NEW h \in i + 1 .. j + 1, N[h][1] = s PROVE Among(M, s, i, j)
  <2>1. h - 1 \in i .. j /\ h - 1 \in 1 .. l /\ (h - 1) + 1 = h OBVIOUS
  <2>2. M[h - 1] = N[h] BY <2>1
  <2>3. QED BY <1>2, <2>1, <2>2 DEF Among
<1>3. QED BY <1>1, <1>2 DEF Among

LEMMA Indices ==
  ASSUME NEW l \in Nat, NEW i \in 1 .. l, NEW j \in 1 .. l, i < j
  PROVE  /\ i + 1 \in 1 .. l + 1 /\ j + 1 \in 1 .. l + 1 /\ i + 1 < j + 1
         /\ j - 1 \in 0 .. l /\ (j - 1) + 1 = (j + 1) - 1
  OBVIOUS

\* The NIC frees its oldest mbuf to the pool.
LEMMA RingFree ==
  ASSUME NEW s \in Sections, NEW c \in Nat \ {0}, NEW k \in Nat,
         NEW N \in Seq(Flights), NEW P \in Seq(Nat), Len(N) > 0, N[1][1] = s,
         NEW M \in Seq(Flights), Len(M) = Len(N) - 1, \A i \in 1 .. Len(M) : M[i] = N[i + 1],
         NEW Q \in Seq(Nat), Len(Q) = Len(P) + 1, \A i \in 1 .. Len(P) : Q[i] = P[i],
         Q[Len(P) + 1] = N[1][2],
         PoolFrom(P, c, k), RingFrom(N, s, P, c, k)
  PROVE  PoolFrom(Q, c, k) /\ RingFrom(M, s, Q, c, k)
<1>0. Len(N) \in Nat /\ Len(P) \in Nat /\ Len(M) \in Nat /\ Len(N) = Len(M) + 1 OBVIOUS
<1>1. N[1][2] = (k + Len(P)) % c
  <2>1. ~Among(N, s, 1, 0) BY DEF Among
  <2>2. 1 \in 1 .. Len(N) /\ 1 - 1 = 0 BY <1>0
  <2>3. QED BY <2>1, <2>2 DEF RingFrom
<1>2. PoolFrom(Q, c, k)
  <2>1. ASSUME NEW i \in 1 .. Len(Q) PROVE Q[i] = (k + i - 1) % c
    <3>1. CASE i = Len(P) + 1
      <4>1. k + i - 1 = k + Len(P) BY <1>0, <3>1
      <4>2. QED BY <1>1, <3>1, <4>1
    <3>2. CASE i # Len(P) + 1
      <4>1. i \in 1 .. Len(P) BY <1>0, <3>2
      <4>2. QED BY <4>1 DEF PoolFrom
    <3>3. QED BY <3>1, <3>2
  <2>2. QED BY <2>1 DEF PoolFrom
<1>3. ((N[1][2] + 1) % c) = (k + Len(Q)) % c
  <2>1. k + Len(P) \in Nat /\ k + Len(Q) = k + Len(P) + 1 BY <1>0
  <2>2. (((k + Len(P)) % c) + 1) % c = (k + Len(P) + 1) % c BY <2>1, ModSum
  <2>3. QED BY <1>1, <2>1, <2>2
<1>4. \A i \in 1 .. Len(N), j \in 0 .. Len(M) : Among(M, s, i, j) <=> Among(N, s, i + 1, j + 1)
  BY <1>0, Shifted
<1>5. \A i, j \in 1 .. Len(N) :
         i < j /\ N[i][1] = s /\ N[j][1] = s /\ ~Among(N, s, i + 1, j - 1) =>
           N[j][2] = (N[i][2] + 1) % c
  BY DEF RingFrom
<1>6. \A i \in 1 .. Len(N) :
         N[i][1] = s /\ ~Among(N, s, i + 1, Len(N)) => (N[i][2] + 1) % c = k % c
  BY DEF RingFrom
<1>7. ASSUME NEW i \in 1 .. Len(M), M[i][1] = s, ~Among(M, s, 1, i - 1)
      PROVE  M[i][2] = (k + Len(Q)) % c
  <2>1. i + 1 \in 1 .. Len(N) /\ i - 1 \in 0 .. Len(M) /\ 1 \in 1 .. Len(N) BY <1>0
  <2>2. ~Among(N, s, 1 + 1, (i - 1) + 1) BY <1>4, <1>7, <2>1
  <2>3. (i - 1) + 1 = (i + 1) - 1 /\ N[i + 1] = M[i] /\ 1 < i + 1 OBVIOUS
  <2>4. N[i + 1][2] = (N[1][2] + 1) % c BY <1>7, <2>1, <2>2, <2>3 DEF RingFrom
  <2>5. QED BY <1>3, <2>3, <2>4
<1>8. ASSUME NEW i \in 1 .. Len(M), NEW j \in 1 .. Len(M), i < j, M[i][1] = s, M[j][1] = s,
             ~Among(M, s, i + 1, j - 1)
      PROVE  M[j][2] = (M[i][2] + 1) % c
  <2>1. /\ i + 1 \in 1 .. Len(N) /\ j + 1 \in 1 .. Len(N) /\ i + 1 < j + 1
        /\ j - 1 \in 0 .. Len(M) /\ (j - 1) + 1 = (j + 1) - 1
    BY <1>0, <1>8, Indices
  <2>2. ~Among(N, s, (i + 1) + 1, (j + 1) - 1) BY <1>4, <1>8, <2>1
  <2>3. N[i + 1] = M[i] /\ N[j + 1] = M[j] OBVIOUS
  <2>4. N[i + 1][1] = s /\ N[j + 1][1] = s BY <1>8, <2>3
  <2>5. N[j + 1][2] = (N[i + 1][2] + 1) % c BY Zenon, <1>5, <2>1, <2>2, <2>4
  <2>6. QED BY <2>3, <2>5
<1>9. ASSUME NEW i \in 1 .. Len(M), M[i][1] = s, ~Among(M, s, i + 1, Len(M))
      PROVE  (M[i][2] + 1) % c = k % c
  <2>1. i + 1 \in 1 .. Len(N) /\ Len(M) \in 0 .. Len(M) /\ N[i + 1] = M[i] BY <1>0
  <2>2. ~Among(N, s, (i + 1) + 1, Len(N)) BY <1>0, <1>4, <1>9, <2>1
  <2>3. (N[i + 1][2] + 1) % c = k % c BY <1>9, <1>6, <2>1, <2>2
  <2>4. QED BY <2>1, <2>3
<1>10. ASSUME ~Among(M, s, 1, Len(M)) PROVE (k + Len(Q)) % c = k % c
  <2>1. 1 \in 1 .. Len(N) /\ Len(M) \in 0 .. Len(M) BY <1>0
  <2>2. ~Among(N, s, 1 + 1, Len(N)) BY <1>0, <1>4, <1>10, <2>1
  <2>3. (N[1][2] + 1) % c = k % c BY <2>1, <2>2 DEF RingFrom
  <2>4. QED BY <1>3, <2>3
<1>11. RingFrom(M, s, Q, c, k) BY <1>7, <1>8, <1>9, <1>10 DEF RingFrom
<1>12. QED BY <1>2, <1>11

\* The NIC frees an mbuf of the other section.
LEMMA RingPass ==
  ASSUME NEW s \in Sections, NEW c \in Nat \ {0}, NEW k \in Nat,
         NEW N \in Seq(Flights), NEW P \in Seq(Nat), Len(N) > 0, N[1][1] # s,
         NEW M \in Seq(Flights), Len(M) = Len(N) - 1, \A i \in 1 .. Len(M) : M[i] = N[i + 1],
         RingFrom(N, s, P, c, k)
  PROVE  RingFrom(M, s, P, c, k)
<1>0. Len(N) \in Nat /\ Len(P) \in Nat /\ Len(M) \in Nat /\ Len(N) = Len(M) + 1 OBVIOUS
<1>1. \A i \in 1 .. Len(N), j \in 0 .. Len(M) : Among(M, s, i, j) <=> Among(N, s, i + 1, j + 1)
  BY <1>0, Shifted
<1>2. ASSUME NEW j \in 1 .. Len(N) PROVE Among(N, s, 1, j) <=> Among(N, s, 2, j)
  <2>1. \A h \in 1 .. j : N[h][1] = s => h \in 2 .. j OBVIOUS
  <2>2. QED BY <2>1 DEF Among
<1>3. ASSUME NEW i \in 1 .. Len(M), M[i][1] = s, ~Among(M, s, 1, i - 1)
      PROVE  M[i][2] = (k + Len(P)) % c
  <2>1. i + 1 \in 1 .. Len(N) /\ i - 1 \in 0 .. Len(M) /\ 1 \in 1 .. Len(N) /\ i \in 1 .. Len(N)
        /\ (i - 1) + 1 = i /\ (i + 1) - 1 = i /\ N[i + 1] = M[i]
    BY <1>0
  <2>2. ~Among(N, s, 1 + 1, i) BY <1>1, <1>3, <2>1
  <2>3. ~Among(N, s, 1, (i + 1) - 1) BY <1>2, <2>1, <2>2
  <2>4. QED BY <1>3, <2>1, <2>3 DEF RingFrom
<1>4. ASSUME NEW i \in 1 .. Len(M), NEW j \in 1 .. Len(M), i < j, M[i][1] = s, M[j][1] = s,
             ~Among(M, s, i + 1, j - 1)
      PROVE  M[j][2] = (M[i][2] + 1) % c
  <2>1. /\ i + 1 \in 1 .. Len(N) /\ j + 1 \in 1 .. Len(N) /\ i + 1 < j + 1
        /\ j - 1 \in 0 .. Len(M) /\ (j - 1) + 1 = (j + 1) - 1
    BY <1>0, <1>4, Indices
  <2>2. ~Among(N, s, (i + 1) + 1, (j + 1) - 1) BY <1>1, <1>4, <2>1
  <2>3. N[i + 1] = M[i] /\ N[j + 1] = M[j] OBVIOUS
  <2>4. QED BY ZenonT(40), <1>4, <2>1, <2>2, <2>3 DEF RingFrom
<1>5. ASSUME NEW i \in 1 .. Len(M), M[i][1] = s, ~Among(M, s, i + 1, Len(M))
      PROVE  (M[i][2] + 1) % c = k % c
  <2>1. i + 1 \in 1 .. Len(N) /\ Len(M) \in 0 .. Len(M) /\ N[i + 1] = M[i] BY <1>0
  <2>2. ~Among(N, s, (i + 1) + 1, Len(N)) BY <1>0, <1>1, <1>5, <2>1
  <2>3. QED BY SMTT(30), <1>5, <2>1, <2>2 DEF RingFrom
<1>6. ASSUME ~Among(M, s, 1, Len(M)) PROVE (k + Len(P)) % c = k % c
  <2>1. 1 \in 1 .. Len(N) /\ Len(M) \in 0 .. Len(M) /\ Len(N) \in 1 .. Len(N) BY <1>0
  <2>2. ~Among(N, s, 1 + 1, Len(N)) BY <1>0, <1>1, <1>6, <2>1
  <2>3. ~Among(N, s, 1, Len(N)) BY <1>2, <2>1, <2>2
  <2>4. QED BY <2>3 DEF RingFrom
<1>7. QED BY <1>3, <1>4, <1>5, <1>6 DEF RingFrom

\* After a whole turn the pool stands at its start again.
LEMMA RingRound ==
  ASSUME NEW s, NEW c \in Nat \ {0}, NEW N, NEW P \in Seq(Nat),
         PoolFrom(P, c, c), RingFrom(N, s, P, c, c)
  PROVE  PoolFrom(P, c, 0) /\ RingFrom(N, s, P, c, 0)
<1>1. ASSUME NEW a \in Nat PROVE (c + a) % c = (0 + a) % c
  <2>1. 0 + a = a OBVIOUS
  <2>2. QED BY <2>1, ModFull
<1>2. c % c = 0 % c
  <2>1. (c + 0) % c = 0 % c BY ModFull
  <2>2. QED BY <2>1
<1>3. \A i \in 1 .. Len(P) : (c + i - 1) % c = (0 + i - 1) % c
  <2>1. \A i \in 1 .. Len(P) : i - 1 \in Nat /\ c + i - 1 = c + (i - 1) /\ 0 + i - 1 = 0 + (i - 1)
    OBVIOUS
  <2>2. QED BY <1>1, <2>1
<1>4. (c + Len(P)) % c = (0 + Len(P)) % c
  <2>1. Len(P) \in Nat OBVIOUS
  <2>2. QED BY <1>1, <2>1
<1>5. QED BY <1>2, <1>3, <1>4 DEF PoolFrom, RingFrom

-----------------------------------------------------------------------------
(* The count.                                                              *)

USE DEF None, Stop, Free, Caller, NoIndex, Other, GoTo, SignalWorker, pcapVars, syncVars, portVars,
        queueVars, otherVars, WakeAll, Lock, Exhausted

\* Whole bursts fit until the section is used up.
LEMMA Room ==
  ASSUME NEW n \in Nat \ {0}, NEW a \in Nat, NEW c \in Nat, a % n = 0, c % n = 0, a < c
  PROVE  a + n <= c /\ (a + n) % n = 0
<1> DEFINE p == a \div n
           q == c \div n
<1>1. p \in Nat /\ a = n * p BY ModIs
<1>2. q \in Nat /\ c = n * q BY ModIs
<1> HIDE DEF p, q
<1>3. p < q
  <2>1. SUFFICES ASSUME q <= p PROVE FALSE BY <1>1, <1>2
  <2>2. n * q <= n * p BY <1>1, <1>2, <2>1
  <2>3. QED BY <1>1, <1>2, <2>2
<1>4. n * (p + 1) <= n * q BY <1>1, <1>2, <1>3
<1>5. n * (p + 1) = n * p + n BY <1>1
<1>6. (n + a) % n = a % n BY ModFull
<1>7. n + a = a + n OBVIOUS
<1>8. (a + n) % n = 0 BY <1>6, <1>7
<1>9. QED BY <1>1, <1>2, <1>4, <1>5, <1>8

\* The setting of the lemmas that follow.
Setting(n) ==
  /\ OneQueue /\ CliIndexes = {} /\ ~Paging /\ n \in TxCounts /\ Bursts(n)
  /\ TypeOK /\ WorkerInv /\ HandshakeInv

\* A step of the queue other than a burst leaves the count and the section as they
\* are, or switches at the end of the section.
Quiet ==
  \/ Exit(0) \/ TakePool(0) \/ Enter(0) \/ Choose(0) \/ UntilLoaded(0) \/ UntilUnlocked(0)
  \/ CountSpent(0) \/ PoolEmpty(0) \/ BumpRead(0) \/ BumpWrite(0)

Loader == <<loaded, wpc, inProgress>>
Keeps  == UNCHANGED <<active, Sent, request, Loader>>
Turns  == /\ active' = Other(active) /\ request' = active /\ UNCHANGED Loader
          /\ request = None /\ inProgress = None
          /\ Sent = Cap[active] /\ Sent' = 0

LEMMA ActiveFull ==
  ASSUME TypeOK, WorkerInv, HandshakeInv
  PROVE  active \in Sections /\ loaded[active] = Cap[active] /\ Cap[active] \in Nat \ {0}
<1>1. active \in Sections /\ inProgress # active BY DEF TypeOK, StateOK, HandshakeInv
<1>2. QED
  BY <1>1, ReplayAssumption DEF ReplayAssumption, WorkerInv, CompleteUnlessLoading

LEMMA CountQuiet ==
  ASSUME NEW n, Setting(n), CountInv(n), Quiet
  PROVE  CountInv(n)' /\ (Keeps \/ Turns)
<1> USE ReplayAssumption DEF ReplayAssumption, Setting, OneQueue, TypeOK, StateOK, CountInv, Sent,
        Keeps, Loader
<1>0. /\ n \in Nat \ {0} /\ active \in Sections /\ loaded[active] = Cap[active]
      /\ Cap[active] \in Nat \ {0} /\ Cap[active] % n = 0 /\ DOMAIN qpc = {0} /\ DOMAIN mp = {0}
  BY ActiveFull DEF Bursts
<1>1. CASE Exit(0) BY <1>0, <1>1 DEF Exit
<1>2. CASE TakePool(0) BY <1>0, <1>2 DEF TakePool
<1>3. CASE Enter(0) BY <1>0, <1>3 DEF Enter
<1>4. CASE Choose(0)
  <2>1. request' = request
    <3>1. CASE loaded[Other(cur[0])] > 0 BY <1>4, <3>1 DEF Choose
    <3>2. CASE loaded[Other(cur[0])] = 0
      <4>1. cur[0] = active BY <1>4 DEF Choose, HandshakeInv
      <4>2. Other(active) \in Sections /\ Cap[Other(active)] > 0 BY <1>0
      <4>3. inProgress = Other(active)
        BY <3>2, <4>1, <4>2 DEF WorkerInv, CompleteUnlessLoading
      <4>4. ~(inProgress < 0) BY <4>2, <4>3
      <4>5. QED BY <1>4, <3>2, <4>4 DEF Choose
    <3>3. QED BY <1>4, <3>1, <3>2 DEF Choose
  <2>2. /\ qpc[0] = "choose" /\ qpc'[0] \in {"untilUnlocked", "untilLoaded"}
        /\ UNCHANGED <<active, pktIndex, mp, txCnt, oldIndex, cliTmp, Loader>>
    BY <1>0, <1>4 DEF Choose
  <2>3. QED BY <2>1, <2>2
<1>5. CASE UntilLoaded(0) \/ UntilUnlocked(0)
  <2>1. CASE Sleep(0) BY <2>1 DEF Sleep
  <2>2. CASE ~Sleep(0)
    <3>1. Switch(0) /\ cur[0] = active /\ request = None /\ inProgress = None
      BY <1>5, <2>2, ReadyAtSwitch
    <3>2. qpc[0] \in {"untilLoaded", "untilUnlocked"}
      BY <1>5 DEF UntilLoaded, UntilUnlocked, InLoop
    <3>3. /\ active' = Other(active) /\ pktIndex' = 0 /\ qpc'[0] = "count"
          /\ mp'[0] = Other(active) /\ request' = active
          /\ UNCHANGED <<txCnt, oldIndex, cliTmp, Loader>>
      BY <1>0, <3>1 DEF Switch
    <3>4. 0 % n = 0 /\ Cap[Other(active)] > 0 BY <1>0
    <3>5. Sent = Cap[active] /\ Sent' = 0 BY <3>2, <3>3
    <3>6. CountInv(n)' BY <3>3, <3>4, <3>5
    <3>7. QED BY <3>1, <3>3, <3>5, <3>6 DEF Turns
  <2>3. QED BY <2>1, <2>2
<1>6. CASE CountSpent(0) BY <1>0, <1>6 DEF CountSpent
<1>7. CASE PoolEmpty(0) BY <1>0, <1>7 DEF PoolEmpty
<1>8. CASE BumpRead(0) BY <1>0, <1>8 DEF BumpRead
<1>9. CASE BumpWrite(0) BY <1>0, <1>9 DEF BumpWrite
<1>10. QED BY <1>1, <1>2, <1>3, <1>4, <1>5, <1>6, <1>7, <1>8, <1>9 DEF Quiet

LEMMA CountSend ==
  ASSUME NEW n, Setting(n), CountInv(n), SendBurst(0, n)
  PROVE  /\ CountInv(n)'
         /\ mp[0] = active /\ UNCHANGED <<active, request, Loader>>
         /\ Sent' = Sent + n /\ Sent + n <= Cap[active]
<1> USE ReplayAssumption DEF ReplayAssumption, Setting, OneQueue, TypeOK, StateOK, CountInv, Sent
<1>0. /\ n \in Nat \ {0} /\ active \in Sections
      /\ Cap[active] \in Nat \ {0} /\ Cap[active] % n = 0 /\ DOMAIN qpc = {0} /\ DOMAIN mp = {0}
  BY ActiveFull DEF Bursts
<1>1. /\ qpc[0] = "count" /\ qpc'[0] = "bump" /\ txCnt' = n /\ UNCHANGED <<request, Loader>>
      /\ UNCHANGED <<active, pktIndex, mp, oldIndex, cliTmp>>
  BY <1>0 DEF SendBurst, Loader
<1>2. Sent = pktIndex /\ Sent' = pktIndex + n BY <1>1
<1>3. pktIndex + n <= Cap[active] /\ (pktIndex + n) % n = 0 BY <1>0, <1>1, <1>2, Room
<1>4. CountInv(n)' BY <1>1, <1>2, <1>3
<1>5. QED BY <1>1, <1>2, <1>3, <1>4

LEMMA CountOthers ==
  ASSUME NEW n, Setting(n), CountInv(n), Work \/ User \/ UNCHANGED vars
  PROVE  CountInv(n)' /\ UNCHANGED <<active, Sent>>
<1> USE DEF Setting
<1>1. UNCHANGED <<active, pktIndex, qpc, mp, txCnt, oldIndex, cliTmp>>
  <2>1. CASE Work BY <2>1 DEF Work, WorkerTake, WorkerBegin, WorkerFill, WorkerFinish
  <2>2. CASE User
    BY <2>2 DEF User, StartStop, Quit, PageNextRead, PageNextWrite, PcapIndex, CountInv
  <2>3. CASE UNCHANGED vars BY <2>3 DEF vars
  <2>4. QED BY <2>1, <2>2, <2>3
<1>2. Sent' = Sent BY <1>1 DEF Sent
<1>3. QED BY <1>1, <1>2 DEF CountInv

-----------------------------------------------------------------------------
(* The rings.                                                              *)

Still == UNCHANGED <<pool, nic, content, cursor, burst>>

\* Nothing but a burst, the NIC and the worker moves mbufs and packets.
LEMMA WireMoves ==
  ASSUME NEW n, Setting(n), [WireNext]_allVars
  PROVE  \/ HandBurst(0, n)
         \/ Quiet /\ Still
         \/ NicDone(0)
         \/ FillMbuf
         \/ (WorkerTake \/ WorkerBegin \/ WorkerFinish \/ User \/ UNCHANGED vars) /\ Still
<1>0. Queues = {0} /\ TxCounts = {n} BY DEF Setting, OneQueue, Bursts
<1>1. CASE WireQueue(0)
  <2>1. ASSUME NEW k \in TxCounts, HandBurst(0, k) PROVE HandBurst(0, n) BY <1>0, <2>1
  <2>2. CASE Spent(0) \/ NoMbufs(0) BY <2>2, Zenon DEF Spent, NoMbufs, Quiet, Still
  <2>3. CASE ~(Spent(0) \/ NoMbufs(0)) /\ ~(\E k \in TxCounts : HandBurst(0, k))
    BY <1>1, <2>3, Zenon DEF WireQueue, Quiet, Still, wireVars
  <2>4. QED BY <2>1, <2>2, <2>3
<1>2. CASE WireWork BY <1>2, Zenon DEF WireWork, Still, wireVars
<1>3. CASE WireUser BY <1>3, Zenon DEF WireUser, Still
<1>4. CASE UNCHANGED allVars BY <1>4, Zenon DEF allVars, wireVars, Still
<1>5. ASSUME NEW q \in Queues PROVE q = 0 BY <1>0
<1>6. QED BY <1>1, <1>2, <1>3, <1>4, <1>5 DEF WireNext

\* The count goes through every step of the data path.
LEMMA CountStep ==
  ASSUME NEW n, Setting(n), CountInv(n), [WireNext]_allVars
  PROVE  CountInv(n)'
<1>1. CASE HandBurst(0, n) BY <1>1, CountSend DEF HandBurst
<1>2. CASE Quiet BY <1>2, CountQuiet
<1>3. CASE NicDone(0) BY <1>3, CountOthers DEF NicDone
<1>4. CASE FillMbuf BY <1>4, CountOthers DEF FillMbuf, Work
<1>5. CASE WorkerTake \/ WorkerBegin \/ WorkerFinish \/ User \/ UNCHANGED vars
  BY <1>5, CountOthers DEF Work
<1>6. QED BY <1>1, <1>2, <1>3, <1>4, <1>5, WireMoves

\* The ring and the pools, as sequences of what the lemmas on rings speak of.
LEMMA WiderSeq ==
  ASSUME NEW S, NEW T, S \subseteq T, NEW P \in Seq(S)
  PROVE  P \in Seq(T)
<1>1. P \in [1 .. Len(P) -> T] /\ Len(P) \in Nat OBVIOUS
<1>2. QED BY <1>1

LEMMA MbufsNat == \A s \in Sections : Mbufs(s) \subseteq Nat
  BY ReplayAssumption DEF ReplayAssumption, Mbufs

LEMMA RingType ==
  ASSUME DataOK
  PROVE  nic[0] \in Seq(Flights) /\ \A s \in Sections : pool[s] \in Seq(Nat)
<1>1. nic[0] \in Seq(Flight) BY ReplayAssumption DEF ReplayAssumption, DataOK
<1>2. Flight \subseteq Flights BY DEF Flight, Flights
<1>3. \A s \in Sections : pool[s] \in Seq(Mbufs(s)) BY DEF DataOK
<1>4. QED BY <1>1, <1>2, <1>3, WiderSeq, MbufsNat

LEMMA RingTypeNext ==
  ASSUME DataOK'
  PROVE  nic'[0] \in Seq(Flights) /\ \A s \in Sections : pool'[s] \in Seq(Nat)
<1>1. nic'[0] \in Seq(Flight) BY ReplayAssumption DEF ReplayAssumption, DataOK
<1>2. Flight \subseteq Flights BY DEF Flight, Flights
<1>3. \A s \in Sections : pool'[s] \in Seq(Mbufs(s)) BY DEF DataOK, Mbufs
<1>4. QED BY <1>1, <1>2, <1>3, WiderSeq, MbufsNat

\* What HandBurst does to the pool and the ring, entry by entry.
LEMMA Handed ==
  ASSUME NEW n, Setting(n), CountInv(n), DataOK, HandBurst(0, n)
  PROVE  /\ n \in Nat \ {0} /\ n <= Len(pool[active]) /\ active \in Sections
         /\ UNCHANGED <<active, request, Loader, content, cursor>>
         /\ Sent' = Sent + n /\ Sent + n <= Cap[active]
         /\ pool'[Other(active)] = pool[Other(active)]
         /\ Len(pool'[active]) = Len(pool[active]) - n
         /\ \A i \in 1 .. Len(pool[active]) - n : pool'[active][i] = pool[active][n + i]
         /\ Len(nic'[0]) = Len(nic[0]) + n
         /\ \A i \in 1 .. Len(nic[0]) : nic'[0][i] = nic[0][i]
         /\ \A i \in 1 .. n : nic'[0][Len(nic[0]) + i] = <<active, pool[active][i]>>
         /\ burst' = [i \in 1 .. n |-> content[active][pool[active][i]]]
<1> DEFINE s == active
           taken == SubSeq(pool[s], 1, n)
           new == [i \in 1 .. n |-> <<s, taken[i]>>]
           rest == SubSeq(pool[s], n + 1, Len(pool[s]))
<1>1. n \in Nat \ {0} /\ 0 \in Queues
  BY ReplayAssumption DEF ReplayAssumption, Setting
<1>2. /\ mp[0] = s /\ UNCHANGED <<active, request, Loader>>
      /\ Sent' = Sent + n /\ Sent + n <= Cap[s]
  BY CountSend DEF HandBurst
<1>3. s \in Sections BY DEF Setting, TypeOK, StateOK
<1>4. /\ Len(pool[s]) >= n
      /\ burst' = [i \in 1 .. n |-> content[s][taken[i]]]
      /\ pool' = [pool EXCEPT ![s] = rest]
      /\ nic' = [nic EXCEPT ![0] = nic[0] \o new]
      /\ UNCHANGED <<content, cursor>>
  BY <1>2 DEF HandBurst
<1>5. n <= Len(pool[s]) BY <1>1, <1>3, <1>4 DEF DataOK
<1>6. /\ \A i \in 1 .. n : taken[i] = pool[s][i]
      /\ Len(rest) = Len(pool[s]) - n
      /\ \A i \in 1 .. Len(pool[s]) - n : rest[i] = pool[s][n + i]
  BY <1>1, <1>3, <1>5, Taken
<1> HIDE DEF taken, rest
<1>7. pool'[s] = rest /\ pool'[Other(s)] = pool[Other(s)]
  BY <1>3, <1>4 DEF DataOK
<1>8. new = [i \in 1 .. n |-> <<s, pool[s][i]>>] BY <1>6
<1>9. nic'[0] = nic[0] \o new BY <1>1, <1>4 DEF DataOK
<1> HIDE DEF new
<1>10. /\ Len(nic'[0]) = Len(nic[0]) + n
       /\ \A i \in 1 .. Len(nic[0]) : nic'[0][i] = nic[0][i]
       /\ \A i \in 1 .. n : nic'[0][Len(nic[0]) + i] = new[i]
  <2> DEFINE N == nic[0]
  <2>1. N \in Seq(Flights) BY <1>1, RingType
  <2>2. new \in Seq(Flights) /\ Len(new) = n
    <3>1. ASSUME NEW i \in 1 .. n PROVE <<s, pool[s][i]>> \in Flights
      <4>1. pool[s][i] \in Mbufs(s) BY <1>1, <1>3, <1>5, Taken
      <4>2. QED BY <1>3, <4>1, MbufsNat DEF Flights
    <3>2. new \in [1 .. n -> Flights] BY <1>8, <3>1
    <3> HIDE DEF s
    <3>3. QED BY <1>1, <3>2
  <2> HIDE DEF new
  <2> HIDE DEF N
  <2>3. /\ Len(N \o new) = Len(N) + n
        /\ \A i \in 1 .. Len(N) : (N \o new)[i] = N[i]
        /\ \A i \in 1 .. n : (N \o new)[Len(N) + i] = new[i]
    BY <1>1, <2>1, <2>2
  <2>4. QED BY <1>9, <2>3 DEF N
<1>11. \A i \in 1 .. n : new[i] = <<s, pool[s][i]>> BY <1>8
<1>12. burst' = [i \in 1 .. n |-> content[s][pool[s][i]]] BY <1>4, <1>6
<1>13. QED BY <1>1, <1>2, <1>3, <1>4, <1>5, <1>6, <1>7, <1>10, <1>11, <1>12

LEMMA RingHand ==
  ASSUME NEW n, Setting(n), CountInv(n), DataOK, DataOK', RingInv, HandBurst(0, n)
  PROVE  RingInv'
<1>1. /\ n \in Nat \ {0} /\ n <= Len(pool[active]) /\ active \in Sections
      /\ active' = active /\ Sent' = Sent + n
      /\ pool'[Other(active)] = pool[Other(active)]
      /\ Len(pool'[active]) = Len(pool[active]) - n
      /\ \A i \in 1 .. Len(pool[active]) - n : pool'[active][i] = pool[active][n + i]
      /\ Len(nic'[0]) = Len(nic[0]) + n
      /\ \A i \in 1 .. Len(nic[0]) : nic'[0][i] = nic[0][i]
      /\ \A i \in 1 .. n : nic'[0][Len(nic[0]) + i] = <<active, pool[active][i]>>
  BY Handed
<1>2. nic[0] \in Seq(Flights) /\ nic'[0] \in Seq(Flights)
      /\ \A s \in Sections : /\ pool[s] \in Seq(Nat) /\ pool'[s] \in Seq(Nat)
                             /\ Cap[s] \in Nat \ {0}
  BY RingType, RingTypeNext, ReplayAssumption DEF ReplayAssumption
<1>3. Sent \in Nat BY DEF Setting, TypeOK, StateOK, Sent
<1>4. PoolFrom(pool'[active], Cap[active], Sent + n)
      /\ RingFrom(nic'[0], active, pool'[active], Cap[active], Sent + n)
  <2>1. PoolFrom(pool[active], Cap[active], Sent)
        /\ RingFrom(nic[0], active, pool[active], Cap[active], Sent)
    BY <1>1 DEF RingInv, Turn
  <2>2. QED BY <1>1, <1>2, <1>3, <2>1, RingTake
<1>5. PoolFrom(pool'[Other(active)], Cap[Other(active)], 0)
      /\ RingFrom(nic'[0], Other(active), pool'[Other(active)], Cap[Other(active)], 0)
  <2>1. Other(active) \in Sections /\ Other(active) # active BY <1>1
  <2>2. PoolFrom(pool[Other(active)], Cap[Other(active)], 0)
        /\ RingFrom(nic[0], Other(active), pool[Other(active)], Cap[Other(active)], 0)
    BY <2>1 DEF RingInv, Turn
  <2>3. ASSUME NEW i \in 1 .. n PROVE nic'[0][Len(nic[0]) + i][1] # Other(active)
    <3>1. nic'[0][Len(nic[0]) + i] = <<active, pool[active][i]>> BY <1>1
    <3>2. QED BY <2>1, <3>1
  <2> HIDE DEF Other
  <2>4. RingFrom(nic'[0], Other(active), pool[Other(active)], Cap[Other(active)], 0)
    BY ZenonT(40), <1>1, <1>2, <2>1, <2>2, <2>3, RingElse
  <2>5. QED BY <1>1, <2>2, <2>4
<1>6. ASSUME NEW s \in Sections
      PROVE  /\ PoolFrom(pool'[s], Cap[s], Turn(s)')
             /\ RingFrom(nic'[0], s, pool'[s], Cap[s], Turn(s)')
  <2>1. CASE s = active
    <3>1. Turn(s)' = Sent + n BY <1>1, <2>1 DEF Turn
    <3>2. QED BY <1>4, <2>1, <3>1
  <2>2. CASE s = Other(active)
    <3>1. Turn(s)' = 0 BY <1>1, <2>2 DEF Turn
    <3>2. QED BY <1>5, <2>2, <3>1
  <2>3. QED BY <1>1, <2>1, <2>2
<1>7. QED BY <1>6 DEF RingInv

LEMMA RingDone ==
  ASSUME NEW n, Setting(n), DataOK, DataOK', RingInv, NicDone(0)
  PROVE  RingInv'
<1> DEFINE N == nic[0]
           r == N[1][1]
           m == N[1][2]
<1>1. N \in Seq(Flights) /\ nic'[0] \in Seq(Flights)
      /\ \A s \in Sections : /\ pool[s] \in Seq(Nat) /\ pool'[s] \in Seq(Nat)
                             /\ Cap[s] \in Nat \ {0}
  BY RingType, RingTypeNext, ReplayAssumption DEF ReplayAssumption
<1>2. N # <<>> /\ 0 \in DOMAIN nic /\ DOMAIN pool = Sections
  BY ReplayAssumption DEF ReplayAssumption, NicDone, DataOK
<1>3. nic'[0] = Tail(N) /\ pool' = [pool EXCEPT ![Head(N)[1]] = Append(@, Head(N)[2])]
  BY <1>2 DEF NicDone
<1>4. UNCHANGED <<active, Sent>> BY DEF NicDone, vars, Sent
<1>5. Sent \in Nat BY DEF Setting, TypeOK, StateOK, Sent
<1> HIDE DEF N
<1>6. /\ Len(N) > 0 /\ Len(nic'[0]) = Len(N) - 1 /\ Head(N) = N[1] /\ N[1] \in Flights
      /\ \A i \in 1 .. Len(nic'[0]) : nic'[0][i] = N[i + 1]
  BY <1>1, <1>2, <1>3
<1>7. r \in Sections /\ m \in Nat /\ pool' = [pool EXCEPT ![r] = Append(@, m)]
  BY <1>3, <1>6 DEF Flights
<1>8. ASSUME NEW s \in Sections
      PROVE  /\ PoolFrom(pool'[s], Cap[s], Turn(s)')
             /\ RingFrom(nic'[0], s, pool'[s], Cap[s], Turn(s)')
  <2>1. PoolFrom(pool[s], Cap[s], Turn(s)) /\ RingFrom(N, s, pool[s], Cap[s], Turn(s))
    BY DEF RingInv, N
  <2>2. Turn(s)' = Turn(s) /\ Turn(s) \in Nat BY <1>4, <1>5 DEF Turn
  <2>3. CASE s = r
    <3>1. pool'[s] = Append(pool[s], m) BY <1>2, <1>7, <2>3
    <3>2. /\ Len(pool'[s]) = Len(pool[s]) + 1 /\ pool'[s][Len(pool[s]) + 1] = m
          /\ \A i \in 1 .. Len(pool[s]) : pool'[s][i] = pool[s][i]
      <4> DEFINE P == pool[s]
      <4>1. P \in Seq(Nat) BY <1>1
      <4> HIDE DEF P
      <4>2. /\ Len(Append(P, m)) = Len(P) + 1 /\ Append(P, m)[Len(P) + 1] = m
            /\ \A i \in 1 .. Len(P) : Append(P, m)[i] = P[i]
        BY <1>7, <4>1
      <4>3. QED BY <3>1, <4>2 DEF P
    <3> HIDE DEF m
    <3>3. N[1][2] = m BY DEF m
    <3>4. /\ PoolFrom(pool'[s], Cap[s], Turn(s))
          /\ RingFrom(nic'[0], s, pool'[s], Cap[s], Turn(s))
      BY <1>1, <1>6, <2>1, <2>2, <2>3, <3>2, <3>3, RingFree
    <3>5. QED BY <2>2, <3>4
  <2>4. CASE s # r
    <3>1. pool'[s] = pool[s] BY <1>2, <1>7, <2>4
    <3>2. RingFrom(nic'[0], s, pool[s], Cap[s], Turn(s))
      BY <1>1, <1>6, <2>1, <2>2, <2>4, RingPass
    <3>3. QED BY <2>1, <2>2, <3>1, <3>2
  <2>5. QED BY <2>3, <2>4
<1>9. QED BY <1>8 DEF RingInv

\* Without a burst and the NIC, only a switch matters: the section left has gone round.
LEMMA RingKeep ==
  ASSUME NEW n, Setting(n), DataOK, RingInv, UNCHANGED <<pool, nic>>,
         UNCHANGED <<active, Sent>> \/ Turns
  PROVE  RingInv'
<1>1. CASE UNCHANGED <<active, Sent>> BY <1>1 DEF RingInv, Turn
<1>2. CASE Turns
  <2>1. active \in Sections /\ active' = Other(active) /\ Sent' = 0 /\ Sent = Cap[active]
    BY <1>2 DEF Setting, TypeOK, StateOK, Turns
  <2>2. ASSUME NEW s \in Sections
        PROVE  PoolFrom(pool[s], Cap[s], 0) /\ RingFrom(nic[0], s, pool[s], Cap[s], 0)
    <3>1. PoolFrom(pool[s], Cap[s], Turn(s)) /\ RingFrom(nic[0], s, pool[s], Cap[s], Turn(s))
      BY DEF RingInv
    <3>2. CASE s = active
      <4>1. Turn(s) = Cap[s] BY <2>1, <3>2 DEF Turn
      <4>2. Cap[s] \in Nat \ {0} /\ pool[s] \in Seq(Nat)
        BY RingType, ReplayAssumption DEF ReplayAssumption
      <4>3. QED BY <3>1, <4>1, <4>2, RingRound
    <3>3. CASE s # active
      <4>1. Turn(s) = 0 BY <3>3 DEF Turn
      <4>2. QED BY <3>1, <4>1
    <3>4. QED BY <3>2, <3>3
  <2>3. \A s \in Sections : Turn(s)' = 0 BY <2>1 DEF Turn
  <2>4. QED BY <2>2, <2>3 DEF RingInv
<1>3. QED BY <1>1, <1>2

LEMMA RingStep ==
  ASSUME NEW n, Setting(n), CountInv(n), DataOK, DataOK', RingInv, [WireNext]_allVars
  PROVE  RingInv'
<1>1. CASE HandBurst(0, n) BY <1>1, RingHand
<1>2. CASE Quiet /\ Still BY <1>2, CountQuiet, RingKeep DEF Still, Keeps
<1>3. CASE NicDone(0) BY <1>3, RingDone
<1>4. CASE FillMbuf
  <2>1. UNCHANGED <<pool, nic, active, Sent>> BY <1>4, CountOthers DEF FillMbuf, Work
  <2>2. QED BY <2>1, RingKeep
<1>5. CASE (WorkerTake \/ WorkerBegin \/ WorkerFinish \/ User \/ UNCHANGED vars) /\ Still
  <2>1. UNCHANGED <<pool, nic, active, Sent>> BY <1>5, CountOthers DEF Still, Work
  <2>2. QED BY <2>1, RingKeep
<1>6. QED BY <1>1, <1>2, <1>3, <1>4, <1>5, WireMoves

-----------------------------------------------------------------------------
(* The packets.                                                            *)

\* The numbers the remainders below are taken of.
LEMMA Numbers ==
  ASSUME NEW n, Setting(n), DataOK
  PROVE  /\ FilePkts \in Nat \ {0} /\ active \in Sections /\ Sent \in Nat
         /\ \A s \in Sections :
              /\ Cap[s] \in Nat \ {0} /\ loaded[s] \in Nat /\ First(s) \in 0 .. FilePkts - 1
              /\ content[s] \in [Mbufs(s) -> Packets]
         /\ loaded[active] = Cap[active] /\ inProgress # active
         /\ cursor \in 0 .. FilePkts - 1
<1> USE ReplayAssumption DEF ReplayAssumption, Setting, TypeOK, StateOK
<1>1. Sent \in Nat BY DEF Sent
<1>2. ASSUME NEW s \in Sections PROVE First(s) \in 0 .. FilePkts - 1
  <2>1. 0 \in Mbufs(s) BY DEF Mbufs
  <2>2. QED BY <2>1 DEF First, DataOK, Packets
<1>3. QED BY <1>1, <1>2, ActiveFull DEF DataOK, Packets, HandshakeInv

\* The packets of a burst are those due, and the one due next comes after them.
LEMMA HandsDue ==
  ASSUME NEW n, Setting(n), CountInv(n), DataOK, RingInv, ContentInv, HandBurst(0, n)
  PROVE  /\ burst' = [i \in 1 .. n |-> (Due + i - 1) % FilePkts]
         /\ Due' = (Due + n) % FilePkts /\ Due' = (First(active) + (Sent + n)) % FilePkts
<1> DEFINE f == First(active)
           F == FilePkts
<1>1. /\ n \in Nat \ {0} /\ n <= Len(pool[active]) /\ Sent + n <= Cap[active]
      /\ burst' = [i \in 1 .. n |-> content[active][pool[active][i]]]
  BY Handed
<1>2. /\ F \in Nat \ {0} /\ active \in Sections /\ Sent \in Nat /\ f \in Nat
      /\ Cap[active] \in Nat \ {0} /\ loaded[active] = Cap[active] /\ Len(pool[active]) \in Nat
  <2>1. pool[active] \in Seq(Nat) BY RingType, Numbers
  <2>2. QED BY <2>1, Numbers
<1>3. Due = (f + Sent) % F BY DEF ContentInv
<1> HIDE DEF f, F
<1>4. ASSUME NEW i \in 1 .. n
      PROVE  content[active][pool[active][i]] = (f + Sent + i - 1) % F
  <2>1. Sent + i - 1 \in 0 .. Cap[active] - 1 /\ i \in 1 .. Len(pool[active]) BY <1>1, <1>2
  <2>2. pool[active][i] = (Sent + i - 1) % Cap[active]
    BY <1>2, <2>1 DEF RingInv, Turn, PoolFrom
  <2>3. pool[active][i] = Sent + i - 1 BY <1>2, <2>1, <2>2, ModSmall
  <2>4. Sent + i - 1 \in Mbufs(active) /\ Sent + i - 1 < loaded[active] BY <1>2, <2>1 DEF Mbufs
  <2>5. content[active][Sent + i - 1] = (f + (Sent + i - 1)) % F
    BY <1>2, <2>4 DEF ContentInv, f, F
  <2>6. f + (Sent + i - 1) = f + Sent + i - 1 BY <1>2
  <2>7. QED BY <2>3, <2>5, <2>6
<1>5. ASSUME NEW i \in 1 .. n PROVE (Due + i - 1) % F = (f + Sent + i - 1) % F
  <2>1. f + Sent \in Nat /\ i - 1 \in Nat BY <1>2
  <2>2. (((f + Sent) % F) + (i - 1)) % F = (f + Sent + (i - 1)) % F BY <1>2, <2>1, ModSum
  <2>3. f + Sent + (i - 1) = f + Sent + i - 1 BY <1>2
  <2>4. Due \in Nat /\ Due + (i - 1) = Due + i - 1 BY <1>2, <1>3, <2>1
  <2>5. QED BY <1>3, <2>2, <2>3, <2>4
<1>6. burst' = [i \in 1 .. n |-> (Due + i - 1) % F] BY <1>1, <1>4, <1>5
<1>7. Due' = (f + Sent + n) % F
  <2>1. burst' # <<>> /\ Len(burst') = n
    <3>1. DOMAIN burst' = 1 .. n /\ burst' = [i \in 1 .. n |-> burst'[i]] BY <1>6
    <3>2. \A i \in 1 .. n : burst'[i] \in Int
      <4>1. ASSUME NEW i \in 1 .. n PROVE burst'[i] \in Int
        <5>1. burst'[i] = (f + Sent + i - 1) % F BY <1>5, <1>6
        <5>2. f + Sent + i - 1 \in Nat BY <1>2
        <5>3. QED BY <1>2, <5>1, <5>2
      <4>2. QED BY <4>1
    <3>3. burst' \in Seq(Int) BY <1>1, <3>1, <3>2
    <3>4. QED BY <1>1, <3>1, <3>3
  <2>2. n \in 1 .. n BY <1>1
  <2>3. burst'[n] = (f + Sent + n - 1) % F BY <1>5, <1>6, <2>2
  <2>4. f + Sent + n - 1 \in Nat /\ f + Sent + n - 1 + 1 = f + Sent + n BY <1>1, <1>2
  <2>5. (((f + Sent + n - 1) % F) + 1) % F = (f + Sent + n) % F BY <1>2, <2>4, ModSum
  <2>6. Due' = (burst'[n] + 1) % F BY <2>1 DEF Due, F
  <2>7. QED BY <2>3, <2>5, <2>6
<1>8. (Due + n) % F = (f + Sent + n) % F
  <2>1. f + Sent \in Nat /\ n \in Nat BY <1>1, <1>2
  <2>2. QED BY <1>2, <1>3, <2>1, ModSum
<1>9. f + Sent + n = f + (Sent + n) BY <1>1, <1>2
<1>10. QED BY <1>6, <1>7, <1>8, <1>9 DEF f, F

LEMMA ContentHand ==
  ASSUME NEW n, Setting(n), CountInv(n), DataOK, RingInv, ContentInv, HandBurst(0, n)
  PROVE  ContentInv'
<1>1. UNCHANGED <<active, request, loaded, wpc, inProgress, content, cursor>> /\ Sent' = Sent + n
  BY Handed DEF Loader
<1>2. Due' = (First(active) + Sent)' % FilePkts BY <1>1, HandsDue DEF First
<1>3. QED BY <1>1, <1>2 DEF ContentInv, Unread, AfterActive, First, Mbufs

\* The section the queue goes on with follows the one it leaves.
LEMMA ContentTurn ==
  ASSUME NEW n, Setting(n), DataOK, ContentInv, Still, Turns
  PROVE  ContentInv'
<1> DEFINE s == active
           t == Other(active)
<1>1. /\ active' = t /\ request' = s /\ request = None /\ inProgress = None
      /\ UNCHANGED <<loaded, wpc, inProgress, pool, nic, content, cursor, burst>>
      /\ Sent = Cap[s] /\ Sent' = 0
  BY DEF Turns, Loader, Still
<1>2. s \in Sections /\ t \in Sections /\ FilePkts \in Nat \ {0} /\ First(t) \in 0 .. FilePkts - 1
      /\ First(active)' = First(t)
  <2>1. s \in Sections /\ FilePkts \in Nat \ {0}
        /\ \A r \in Sections : First(r) \in 0 .. FilePkts - 1
    BY Numbers
  <2>2. t \in Sections BY <2>1
  <2>3. First(active)' = First(t) BY <1>1 DEF First
  <2>4. QED BY <2>1, <2>2, <2>3
<1>3. ~Loading BY <1>1 DEF Setting, WorkerInv
<1>4. ~Unread BY <1>1, <1>3 DEF Unread, Loading
<1>5. First(t) = (First(s) + Cap[s]) % FilePkts /\ cursor = (First(t) + loaded[t]) % FilePkts
      /\ Due = First(t)
  BY <1>1, <1>4 DEF ContentInv, AfterActive
<1>6. loaded[t] = Cap[t] BY <1>2, <1>3 DEF Setting, WorkerInv, CompleteUnlessLoading
<1>7. Unread' BY <1>1, <1>2 DEF Unread
<1>8. cursor' = AfterActive' BY <1>1, <1>2, <1>5, <1>6 DEF AfterActive
<1>9. Due' = (First(active) + Sent)' % FilePkts
  <2>1. Due' = First(t) BY <1>1, <1>5 DEF Due
  <2>2. First(t) % FilePkts = First(t) BY <1>2, ModSmall
  <2>3. First(t) + 0 = First(t) BY <1>2
  <2>4. (First(active) + Sent)' = First(t) + 0 BY <1>1, <1>2
  <2>5. QED BY <2>1, <2>2, <2>3, <2>4
<1>10. \A r \in Sections : \A m \in Mbufs(r) :
         m < loaded'[r] => content'[r][m] = (First(r)' + m) % FilePkts
  BY <1>1 DEF ContentInv, First
<1>11. QED BY <1>7, <1>8, <1>9, <1>10 DEF ContentInv, Mbufs

\* The worker reads one packet more.
LEMMA ContentFill ==
  ASSUME NEW n, Setting(n), CountInv(n), DataOK, ContentInv, FillMbuf
  PROVE  ContentInv'
<1> DEFINE t == inProgress
           F == FilePkts
<1>1. /\ t \in Sections /\ loaded[t] \in Mbufs(t)
      /\ content' = [content EXCEPT ![t] = [content[t] EXCEPT ![loaded[t]] = cursor]]
      /\ cursor' = (cursor + 1) % F
      /\ UNCHANGED <<pool, nic, burst>>
  BY Filled DEF Setting
<1>2. UNCHANGED <<active, Sent>> BY CountOthers DEF FillMbuf, Work
<1>3. /\ wpc = "fill" /\ wpc' \in {"fill", "finish"} /\ UNCHANGED <<request, inProgress>>
      /\ loaded' = [loaded EXCEPT ![t] = loaded[t] + 1]
  BY DEF FillMbuf, WorkerFill
<1>4. /\ F \in Nat \ {0} /\ active \in Sections /\ t # active /\ t = Other(active)
      /\ \A s \in Sections : /\ content[s] \in [Mbufs(s) -> Packets]
                             /\ First(s) \in 0 .. F - 1 /\ loaded[s] \in Nat
      /\ cursor \in 0 .. F - 1 /\ loaded \in [Sections -> Nat] /\ DOMAIN content = Sections
  <2>1. /\ F \in Nat \ {0} /\ active \in Sections /\ t # active
        /\ \A s \in Sections : /\ content[s] \in [Mbufs(s) -> Packets]
                               /\ First(s) \in 0 .. F - 1 /\ loaded[s] \in Nat
        /\ cursor \in 0 .. F - 1
    BY Numbers
  <2>2. t = Other(active) BY <1>1, <2>1
  <2>3. loaded \in [Sections -> Nat] BY DEF Setting, TypeOK, StateOK
  <2>4. DOMAIN content = Sections BY DEF DataOK
  <2>5. QED BY <2>1, <2>2, <2>3, <2>4
<1>5. request = None
  <2>1. inProgress # None BY <1>1
  <2>2. QED BY <2>1 DEF Setting, HandshakeInv
<1>6. /\ content'[active] = content[active] /\ loaded'[active] = loaded[active]
      /\ loaded'[t] = loaded[t] + 1 /\ content'[t][loaded[t]] = cursor
      /\ \A m \in Mbufs(t) : m # loaded[t] => content'[t][m] = content[t][m]
  BY <1>1, <1>3, <1>4
<1>7. ~Unread' BY <1>3, <1>4, <1>5, <1>6 DEF Unread
<1>8. First(active)' = First(active) /\ AfterActive' = AfterActive /\ Due' = Due
  BY <1>1, <1>2, <1>6 DEF First, AfterActive, Due
<1> HIDE DEF t, F
<1>9. /\ First(t)' = AfterActive
      /\ cursor = (First(t)' + loaded[t]) % F
  <2>1. CASE loaded[t] = 0
    <3>1. Unread BY <1>3, <2>1 DEF Unread, t
    <3>2. cursor = AfterActive BY <3>1 DEF ContentInv
    <3>3. First(t)' = cursor BY <1>3, <1>6, <2>1 DEF First, t
    <3>4. (cursor + 0) % F = cursor BY <1>4, ModSmall
    <3>5. QED BY <2>1, <3>2, <3>3, <3>4
  <2>2. CASE loaded[t] # 0
    <3>1. ~Unread BY <1>3, <1>5, <2>2 DEF Unread, t
    <3>2. First(t) = AfterActive /\ cursor = (First(t) + loaded[t]) % F
      BY <1>4, <3>1 DEF ContentInv, F
    <3>3. 0 \in Mbufs(t)
      BY SMTT(30), <1>1, <1>4, ReplayAssumption DEF ReplayAssumption, Mbufs
    <3>4. First(t)' = First(t) BY <1>3, <1>6, <2>2, <3>3 DEF First, t
    <3>5. QED BY <3>2, <3>4
  <2>3. QED BY <2>1, <2>2
<1>10. cursor' = (First(t)' + loaded'[t]) % F
  <2>1. First(t)' \in Nat
    <3>1. AfterActive \in Nat
      <4>1. First(active) + Cap[active] \in Nat BY <1>4, Numbers
      <4>2. QED BY <1>4, <4>1 DEF AfterActive, F
    <3>2. QED BY <1>9, <3>1
  <2>2. First(t)' + loaded[t] \in Nat /\ First(t)' + loaded[t] + 1 = First(t)' + (loaded[t] + 1)
    BY <1>1, <1>4, <2>1
  <2>3. (((First(t)' + loaded[t]) % F) + 1) % F = (First(t)' + loaded[t] + 1) % F
    BY <1>4, <2>2, ModSum
  <2>4. QED BY <1>1, <1>6, <1>9, <2>2, <2>3 DEF F
<1>11. ASSUME NEW m \in Mbufs(t), m < loaded'[t] PROVE content'[t][m] = (First(t)' + m) % F
  <2>1. CASE m = loaded[t] BY <1>6, <1>9, <2>1
  <2>2. CASE m # loaded[t]
    <3>1. m \in Nat /\ m < loaded[t] BY <1>1, <1>4, <1>6, <1>11, <2>2, MbufsNat
    <3>2. content[t][m] = (First(t) + m) % F BY <1>1, <3>1 DEF ContentInv, F
    <3>3. loaded[t] # 0 BY <3>1
    <3>4. 0 \in Mbufs(t)
      BY SMTT(30), <1>1, <1>4, ReplayAssumption DEF ReplayAssumption, Mbufs
    <3>5. First(t)' = First(t) BY <1>3, <1>6, <3>3, <3>4 DEF First, t
    <3>6. QED BY <1>6, <2>2, <3>2, <3>5
  <2>3. QED BY <2>1, <2>2
<1>12. ASSUME NEW m \in Mbufs(active), m < loaded'[active]
       PROVE  content'[active][m] = (First(active)' + m) % F
  <2>1. content[active][m] = (First(active) + m) % F BY <1>4, <1>6, <1>12 DEF ContentInv, F
  <2>2. QED BY <1>6, <1>8, <2>1
<1>13. Other(active)' = t /\ t' = t BY <1>2, <1>3, <1>4 DEF t
<1>14. QED
  <2>1. \A s \in Sections : \A m \in Mbufs(s) :
          m < loaded'[s] => content'[s][m] = (First(s)' + m) % FilePkts
    <3>1. \A s \in Sections : s = t \/ s = active BY <1>4
    <3>2. \A m \in Mbufs(t) : m < loaded'[t] => content'[t][m] = (content'[t][0] + m) % F
      BY <1>11, <1>13 DEF First
    <3>3. \A m \in Mbufs(active) :
            m < loaded'[active] => content'[active][m] = (content'[active][0] + m) % F
      BY <1>2, <1>12 DEF First
    <3>4. \A s \in Sections : \A m \in Mbufs(s) :
            m < loaded'[s] => content'[s][m] = (content'[s][0] + m) % F
      BY <3>1, <3>2, <3>3
    <3>5. QED BY <3>4 DEF First, F
  <2>2. First(Other(active))' = First(t)' BY <1>13 DEF First
  <2>3. loaded'[Other(active)'] = loaded'[t] BY <1>13
  <2>4. Due' = (First(active) + Sent)' % FilePkts BY <1>2, <1>8 DEF ContentInv
  <2>5. QED BY <1>7, <1>8, <1>9, <1>10, <2>1, <2>2, <2>3, <2>4 DEF ContentInv, Mbufs, F

\* Taking a request, starting on it and finishing it move no packet.
LEMMA ContentWork ==
  ASSUME NEW n, Setting(n), CountInv(n), DataOK, ContentInv, Still,
         WorkerTake \/ WorkerBegin \/ WorkerFinish \/ User \/ UNCHANGED vars
  PROVE  ContentInv'
<1>1. UNCHANGED <<active, Sent, pool, nic, content, cursor, burst>> BY CountOthers DEF Work, Still
<1>2. UNCHANGED <<AfterActive, Due>> /\ \A s : First(s)' = First(s)
  BY <1>1 DEF AfterActive, First, Due
<1>3. ASSUME Unread' <=> Unread, UNCHANGED loaded PROVE ContentInv'
  <2>1. Due' = (First(active) + Sent)' % FilePkts BY <1>1, <1>2 DEF ContentInv
  <2>2. QED BY <1>1, <1>2, <1>3, <2>1 DEF ContentInv, Mbufs
<1> USE DEF Setting, TypeOK, StateOK
<1>4. CASE WorkerTake
  <2>1. CASE request < 0
    <3>1. UNCHANGED <<request, inProgress, wpc, loaded>> BY <1>4, <2>1 DEF WorkerTake
    <3>2. QED BY <1>3, <3>1 DEF Unread
  <2>2. CASE request \in Sections
    <3>1. wpc' = "begin" /\ loaded' = loaded BY <1>4, <2>2 DEF WorkerTake
    <3>2. QED BY <1>3, <2>2, <3>1 DEF Unread
  <2>3. request \in Sections \union {None} BY DEF HandshakeInv
  <2>4. QED BY <2>1, <2>2, <2>3
<1>5. CASE WorkerBegin
  <2>1. wpc = "begin" /\ wpc' = "fill" /\ UNCHANGED <<inProgress, request>>
        /\ loaded' = [loaded EXCEPT ![inProgress] = 0]
    BY <1>5 DEF WorkerBegin
  <2>2. inProgress \in Sections BY <2>1 DEF WorkerInv, Loading
  <2>3. Unread /\ Unread' BY <2>1, <2>2 DEF Unread
  <2>4. ASSUME NEW s \in Sections, NEW m \in Mbufs(s), m < loaded'[s]
        PROVE  content'[s][m] = (First(s)' + m) % FilePkts
    <3>1. m \in Nat BY MbufsNat
    <3>2. m < loaded[s] BY <2>1, <2>2, <2>4, <3>1
    <3>3. content[s][m] = (First(s) + m) % FilePkts BY <3>2 DEF ContentInv
    <3>4. QED BY <1>1, <1>2, <3>3
  <2>5. Due' = (First(active) + Sent)' % FilePkts BY <1>1, <1>2 DEF ContentInv
  <2>6. cursor' = AfterActive' BY <1>1, <1>2, <2>3 DEF ContentInv
  <2>7. QED BY <2>3, <2>4, <2>5, <2>6 DEF ContentInv, Mbufs
<1>6. CASE WorkerFinish
  <2>1. wpc = "finish" /\ wpc' = "wait" /\ UNCHANGED <<loaded, request>>
    BY <1>6 DEF WorkerFinish
  <2>2. QED BY <1>3, <2>1 DEF Unread
<1>7. CASE User
  <2>1. UNCHANGED <<loaded, request, inProgress, wpc>>
    BY <1>7, Zenon DEF User, StartStop, Quit, PageNextRead, PageNextWrite, PcapIndex
  <2>2. QED BY <1>3, <2>1 DEF Unread
<1>8. CASE UNCHANGED vars BY <1>3, <1>8 DEF vars, Unread
<1>9. QED BY <1>4, <1>5, <1>6, <1>7, <1>8

LEMMA ContentStep ==
  ASSUME NEW n, Setting(n), CountInv(n), DataOK, RingInv, ContentInv, [WireNext]_allVars
  PROVE  ContentInv'
<1>1. CASE HandBurst(0, n) BY <1>1, ContentHand
<1>2. CASE Quiet /\ Still
  <2>1. Keeps \/ Turns BY <1>2, CountQuiet
  <2>2. CASE Keeps
    <3>1. /\ UNCHANGED <<active, Sent, request, loaded, wpc, inProgress>>
          /\ UNCHANGED <<pool, nic, content, cursor, burst>>
      BY <1>2, <2>2 DEF Keeps, Loader, Still
    <3>2. Due' = Due BY <3>1 DEF Due
    <3>3. QED BY <3>1, <3>2 DEF ContentInv, Unread, AfterActive, First, Mbufs
  <2>3. QED BY <1>2, <2>1, <2>2, ContentTurn
<1>3. CASE NicDone(0)
  <2>1. UNCHANGED <<vars, content, cursor, burst>> BY <1>3 DEF NicDone
  <2>2. UNCHANGED <<active, Sent, request, loaded, wpc, inProgress, Due>>
    BY <2>1 DEF vars, Sent, Due
  <2>3. QED BY <2>1, <2>2 DEF ContentInv, Unread, AfterActive, First, Mbufs
<1>4. CASE FillMbuf BY <1>4, ContentFill
<1>5. CASE (WorkerTake \/ WorkerBegin \/ WorkerFinish \/ User \/ UNCHANGED vars) /\ Still
  BY <1>5, ContentWork
<1>6. QED BY <1>1, <1>2, <1>3, <1>4, <1>5, WireMoves

-----------------------------------------------------------------------------
(* The order.                                                              *)

LEMMA OrderInit ==
  ASSUME NEW n \in TxCounts, WireInit
  PROVE  CountInv(n) /\ RingInv /\ ContentInv
<1> USE ReplayAssumption DEF ReplayAssumption
<1> DEFINE F == FilePkts
<1>1. /\ active = 0 /\ pktIndex = 0 /\ loaded = Cap /\ request = None
      /\ qpc = [q \in Queues |-> "loop"] /\ wpc = "wait" /\ cliTmp = NoIndex
  BY DEF WireInit, Init
<1>2. /\ content = [s \in Sections |-> [m \in Mbufs(s) |-> (s * Cap[0] + m) % F]]
      /\ pool = [s \in Sections |-> [i \in 1 .. Cap[s] |-> i - 1]]
      /\ nic = [q \in Queues |-> <<>>] /\ cursor = (Cap[0] + Cap[1]) % F /\ burst = <<>>
  BY Zenon DEF WireInit
<1>3. /\ F \in Nat \ {0} /\ n \in Nat \ {0} /\ 0 \in Queues
      /\ Cap[0] \in Nat \ {0} /\ Cap[1] \in Nat \ {0}
  OBVIOUS
<1>4. Sent = 0 BY <1>1, <1>3 DEF Sent
<1>5. CountInv(n)
  <2>1. 0 % n = 0 /\ 0 <= Cap[0] BY <1>3, ModSmall
  <2>2. QED BY <1>1, <1>3, <1>4, <2>1 DEF CountInv
<1>6. RingInv
  <2>1. ASSUME NEW s \in Sections
        PROVE  PoolFrom(pool[s], Cap[s], 0) /\ RingFrom(nic[0], s, pool[s], Cap[s], 0)
    <3>1. pool[s] = [i \in 1 .. Cap[s] |-> i - 1] /\ Cap[s] \in Nat \ {0} BY <1>2
    <3>2. Len(pool[s]) = Cap[s]
      <4> DEFINE P == pool[s]
                 c == Cap[s]
      <4>1. P = [i \in 1 .. c |-> i - 1] /\ c \in Nat BY <3>1
      <4> HIDE DEF P, c
      <4>2. P \in Seq(Int) BY <4>1
      <4>3. Len(P) = c BY <4>1, <4>2
      <4>4. QED BY <4>3 DEF P, c
    <3>3. ASSUME NEW i \in 1 .. Cap[s] PROVE pool[s][i] = (0 + i - 1) % Cap[s]
      <4>1. i - 1 \in 0 .. Cap[s] - 1 /\ 0 + i - 1 = i - 1 BY <3>1
      <4>2. (i - 1) % Cap[s] = i - 1 BY <3>1, <4>1, ModSmall
      <4>3. QED BY <3>1, <4>1, <4>2
    <3>4. PoolFrom(pool[s], Cap[s], 0) BY <3>2, <3>3 DEF PoolFrom
    <3>5. (0 + Len(pool[s])) % Cap[s] = 0 % Cap[s]
      <4>1. (Cap[s] + 0) % Cap[s] = 0 % Cap[s] BY <3>1, ModFull
      <4>2. 0 + Len(pool[s]) = Cap[s] + 0 BY <3>1, <3>2
      <4>3. QED BY <4>1, <4>2
    <3>6. nic[0] = <<>> BY <1>2, <1>3
    <3>7. 1 .. Len(nic[0]) = {} BY <3>6
    <3>8. QED BY <3>4, <3>5, <3>7 DEF RingFrom
  <2>2. \A s \in Sections : Turn(s) = 0 BY <1>4 DEF Turn
  <2>3. QED BY <2>1, <2>2 DEF RingInv
<1>7. /\ First(0) = 0 /\ First(1) = Cap[0] % F
      /\ \A m \in Mbufs(0) : content[0][m] = m % F
      /\ \A m \in Mbufs(1) : content[1][m] = (Cap[0] + m) % F
  <2>1. ASSUME NEW m \in Mbufs(0) PROVE content[0][m] = m % F
    <3>1. content[0][m] = (0 * Cap[0] + m) % F BY <1>2
    <3>2. m \in Nat BY MbufsNat
    <3>3. 0 * Cap[0] + m = m BY <1>3, <3>2
    <3>4. QED BY <3>1, <3>3
  <2>2. ASSUME NEW m \in Mbufs(1) PROVE content[1][m] = (Cap[0] + m) % F
    <3>1. content[1][m] = (1 * Cap[0] + m) % F BY <1>2
    <3>2. 1 * Cap[0] = Cap[0] BY <1>3
    <3>3. QED BY <3>1, <3>2
  <2>3. 0 \in Mbufs(0) /\ 0 \in Mbufs(1) /\ Cap[0] + 0 = Cap[0] BY <1>3 DEF Mbufs
  <2>4. 0 % F = 0 BY <1>3, ModSmall
  <2>5. QED BY <2>1, <2>2, <2>3, <2>4 DEF First
<1> HIDE DEF F
<1>8. \A s \in Sections : \A m \in Mbufs(s) : content[s][m] = (First(s) + m) % F
  <2>1. ASSUME NEW m \in Mbufs(0) PROVE content[0][m] = (First(0) + m) % F
    <3>1. m \in Nat BY MbufsNat
    <3>2. First(0) + m = m BY <1>7, <3>1
    <3>3. QED BY <1>7, <3>2
  <2>2. ASSUME NEW m \in Mbufs(1) PROVE content[1][m] = (First(1) + m) % F
    <3>1. m \in Nat BY MbufsNat
    <3>2. ((Cap[0] % F) + m) % F = (Cap[0] + m) % F BY <1>3, <3>1, ModSum
    <3>3. QED BY <1>7, <3>2
  <2>3. QED BY <2>1, <2>2
<1>9. First(1) = (First(0) + Cap[0]) % F
  <2>1. First(0) + Cap[0] = Cap[0] BY <1>3, <1>7
  <2>2. QED BY <1>7, <2>1
<1>10. cursor = (First(1) + Cap[1]) % F
  <2>1. ((Cap[0] % F) + Cap[1]) % F = (Cap[0] + Cap[1]) % F BY <1>3, ModSum
  <2>2. QED BY <1>2, <1>7, <2>1 DEF F
<1>11. Due = (First(0) + Sent) % F
  <2>1. Due = 0 BY <1>2 DEF Due
  <2>2. 0 % F = 0 BY <1>3, ModSmall
  <2>3. First(0) + Sent = 0 BY <1>4, <1>7
  <2>4. QED BY <2>1, <2>2, <2>3
<1>12. ~Unread BY <1>1 DEF Unread
<1>13. ContentInv BY <1>1, <1>8, <1>9, <1>10, <1>11, <1>12 DEF ContentInv, AfterActive, F
<1>14. QED BY <1>5, <1>6, <1>13

LEMMA OrderInvariant ==
  ASSUME OneQueue, CliIndexes = {}, ~Paging, NEW n \in TxCounts, Bursts(n)
  PROVE  WireSpec => [](Setting(n) /\ CountInv(n) /\ DataOK /\ RingInv /\ ContentInv)
<1> DEFINE OInv == CountInv(n) /\ DataOK /\ RingInv /\ ContentInv
           RInv == TypeOK /\ WorkerInv /\ HandshakeInv /\ ChunkInv
<1>1. WireInit => OInv BY OrderInit, DataInit
<1>2. RInv => Setting(n) BY DEF Setting
<1>3. RInv /\ OInv /\ [WireNext]_allVars => OInv'
  <2>1. SUFFICES ASSUME RInv, OInv, [WireNext]_allVars PROVE OInv' OBVIOUS
  <2>2. Setting(n) BY <1>2, <2>1
  <2>3. DataOK' BY <2>1, DataStep
  <2>4. QED BY <2>1, <2>2, <2>3, CountStep, RingStep, ContentStep
<1>4. WireSpec => []RInv BY WireRefines, OneQueueInvariant, PTL
<1> HIDE DEF OInv, RInv
<1>5. WireSpec => [](RInv /\ OInv) BY <1>1, <1>3, <1>4, PTL DEF WireSpec
<1>6. RInv /\ OInv => Setting(n) /\ CountInv(n) /\ DataOK /\ RingInv /\ ContentInv
  BY <1>2 DEF OInv
<1>7. QED BY <1>5, <1>6, PTL

\* With one queue, bursts that fill the sections exactly and nobody writing the
\* index, the NIC is handed the capture in file order for ever, whatever the
\* length of the capture, the sizes of the sections and the depth of the NIC.
THEOREM ReplayInOrder == ASSUME OneWire PROVE WireSpec => InOrder
<1>1. PICK n \in TxCounts : Bursts(n) BY DEF OneWire
<1>2. OneQueue /\ CliIndexes = {} /\ ~Paging BY DEF OneWire
<1> DEFINE OInv == Setting(n) /\ CountInv(n) /\ DataOK /\ RingInv /\ ContentInv
<1>3. WireSpec => []OInv BY <1>1, <1>2, OrderInvariant
<1>4. WireInit => Order!Init
  <2>1. WireInit => burst = <<>> BY Zenon DEF WireInit
  <2>2. QED BY <2>1 DEF Order!Init, Due
<1>5. OInv /\ [WireNext]_allVars => [Order!Next]_<<burst, Due>>
  <2>1. SUFFICES ASSUME OInv, [WireNext]_allVars PROVE Order!Next \/ UNCHANGED <<burst, Due>>
    OBVIOUS
  <2>2. CASE HandBurst(0, n)
    <3>1. Order!Hand(n) BY <2>1, <2>2, HandsDue DEF Order!Hand
    <3>2. QED BY <3>1 DEF Order!Next
  <2>3. CASE UNCHANGED burst BY <2>3 DEF Due
  <2>4. QED
    <3>1. HandBurst(0, n) \/ UNCHANGED burst
      BY <2>1, WireMoves DEF Still, NicDone, FillMbuf
    <3>2. QED BY <2>2, <2>3, <3>1
<1> HIDE DEF OInv
<1>6. QED BY <1>3, <1>4, <1>5, PTL DEF WireSpec, InOrder, Order!Spec, Order!vars

=============================================================================
