--------------------------- MODULE TransmitProofs ---------------------------
(***************************************************************************)
(* Theorems about the transmit control of a port (TxControl): its flags,   *)
(* counter and burst, for every number of queues, burst size and count,    *)
(* however the commands interleave with the queues.                        *)
(***************************************************************************)
EXTENDS TxControl, TLAPS

USE DEF QueueLabels, UserLabels, GoTo, StillThere, ReadAgain, EndSending, StartOver,
        flagVars, countVars, queueVars, userVars, runVars, stopVars

-----------------------------------------------------------------------------
(* Type correctness.                                                       *)

LEMMA CountQueue ==
  ASSUME CountOK, NEW q \in Queues, Queue(q)
  PROVE  CountOK'
<1> USE TxAssumption DEF TxAssumption, CountOK
<1>1. CASE TestSending(q) BY <1>1 DEF TestSending
<1>2. CASE TestForever(q)
  <2>1. qpc' \in [Queues -> QueueLabels] BY <1>2 DEF TestForever
  <2>2. QED BY <1>2, <2>1 DEF TestForever
<1>3. CASE ReadCount(q) BY <1>3 DEF ReadCount
<1>4. CASE TakeCount(q) BY <1>4 DEF TakeCount, Least
<1>5. CASE Expire(q) BY <1>5 DEF Expire
<1>6. CASE HandBurst(q)
  <2>1. since' \in [Queues -> Nat] BY <1>6 DEF HandBurst
  <2>2. QED BY <1>6, <2>1 DEF HandBurst
<1>7. QED BY <1>1, <1>2, <1>3, <1>4, <1>5, <1>6 DEF Queue

LEMMA CountUser ==
  ASSUME CountOK, User
  PROVE  CountOK'
<1> USE TxAssumption DEF TxAssumption, CountOK
<1>1. CASE Start
  <2>1. cpc' \in UserLabels BY <1>1 DEF Start
  <2>2. QED BY <1>1, <2>1 DEF Start, Give
<1>2. CASE StartLoad BY <1>2 DEF StartLoad, LoadCount
<1>3. CASE StartDecide BY <1>3 DEF StartDecide
<1>4. ASSUME NEW label, Go(label) PROVE CountOK' BY <1>4 DEF Go
<1>5. CASE PrimeLoad BY <1>5 DEF PrimeLoad, LoadCount, Give
<1>6. CASE StopSending
  <2>1. since' \in [Queues -> Nat] BY <1>6 DEF StopSending
  <2>2. QED BY <1>6, <2>1 DEF StopSending, Give
<1>7. CASE \E n \in Counts : SetCount(n) BY <1>7 DEF SetCount, Give
<1>8. QED
  BY <1>1, <1>2, <1>3, <1>4, <1>5, <1>6, <1>7 DEF User, StartGo, PrimeGo

LEMMA FlagsNext ==
  ASSUME FlagsOK, Next
  PROVE  FlagsOK'
<1> USE DEF FlagsOK
<1>1. CASE User
  BY <1>1, Zenon DEF User, Start, StartLoad, LoadCount, StartDecide, StartGo, PrimeLoad,
     PrimeGo, Go, StopSending, ClearFlags, SetCount
<1>2. CASE \E q \in Queues : Queue(q)
  BY <1>2, Zenon DEF Queue, TestSending, TestForever, ReadCount, TakeCount, Expire, HandBurst
<1>3. QED BY <1>1, <1>2 DEF Next

\* The counter never goes below zero, whichever compare-and-set wins: the type
\* invariant of the transmit control, for any port.
THEOREM TxTypeCorrect == Spec => []TypeOK
<1>1. Init => TypeOK
  <2> SUFFICES ASSUME Init PROVE TypeOK OBVIOUS
  <2>1. CountOK BY TxAssumption DEF TxAssumption, Init, CountOK
  <2>2. FlagsOK BY Zenon DEF Init, FlagsOK
  <2>3. QED BY <2>1, <2>2 DEF TypeOK
<1>2. TypeOK /\ [Next]_vars => TypeOK'
  <2> SUFFICES ASSUME TypeOK, [Next]_vars PROVE TypeOK' OBVIOUS
  <2>1. CASE Next
    <3>1. CountOK' BY <2>1, CountQueue, CountUser DEF TypeOK, Next
    <3>2. FlagsOK' BY <2>1, FlagsNext DEF TypeOK
    <3>3. QED BY <3>1, <3>2 DEF TypeOK
  <2>2. CASE UNCHANGED vars BY <2>2, Zenon DEF vars, TypeOK, CountOK, FlagsOK
  <2>3. QED BY <2>1, <2>2
<1>3. QED BY <1>1, <1>2, PTL DEF Spec

-----------------------------------------------------------------------------
(* The counter.                                                            *)

LEMMA BudgetStep ==
  ASSUME TypeOK, BudgetExact, Next
  PROVE  BudgetExact'
<1> USE DEF BudgetExact
<1>1. CASE User
  <2>1. \/ UNCHANGED <<current, taken, asked>>
        \/ \E n \in Counts \union {transmitCount, Prime} : LoadCount(n)
    BY <1>1, Zenon DEF User, Start, StartLoad, StartDecide, StartGo, PrimeLoad, PrimeGo, Go,
       StopSending, SetCount
  <2>2. QED BY <2>1, TxAssumption DEF TxAssumption, LoadCount, TypeOK, CountOK
<1>2. ASSUME NEW q \in Queues, Queue(q) PROVE BudgetExact'
  <2>1. CASE TakeCount(q)
    BY <2>1, TxAssumption DEF TxAssumption, TakeCount, Least, TypeOK, CountOK
  <2>2. CASE ~TakeCount(q)
    <3>1. UNCHANGED <<current, taken, asked>>
      BY <1>2, <2>2, Zenon DEF Queue, TestSending, TestForever, ReadCount, Expire, HandBurst
    <3>2. QED BY <3>1
  <2>3. QED BY <2>1, <2>2
<1>3. QED BY <1>1, <1>2 DEF Next

\* However many queues and commands race for the counter, what the queues have
\* taken and what is left make up what the last start or prime asked for.
THEOREM BudgetIsExact == Spec => []BudgetExact
<1>1. Init => BudgetExact BY DEF Init, BudgetExact
<1>2. TypeOK /\ BudgetExact /\ [Next]_vars => BudgetExact'
  <2> SUFFICES ASSUME TypeOK, BudgetExact, [Next]_vars PROVE BudgetExact' OBVIOUS
  <2>1. CASE UNCHANGED vars BY <2>1 DEF vars, BudgetExact
  <2>2. QED BY <2>1, BudgetStep
<1>3. QED BY <1>1, <1>2, TxTypeCorrect, PTL DEF Spec

-----------------------------------------------------------------------------
(* Stopping.                                                               *)

\* After a stop SENDING_PACKETS stays clear, and a queue that is still past its
\* test of it has handed nothing over since.
StopInv ==
  stopped => /\ ~sending
             /\ \A q \in Queues : /\ since[q] \in {0, 1}
                                  /\ qpc[q] # "test" => since[q] = 0

LEMMA StopQueue ==
  ASSUME TypeOK, StopInv, NEW q \in Queues, Queue(q)
  PROVE  StopInv'
<1> SUFFICES ASSUME stopped' PROVE StopInv' BY DEF StopInv
<1>1. stopped /\ ~sending
  BY Zenon DEF StopInv, Queue, TestSending, TestForever, ReadCount, TakeCount, Expire, HandBurst
<1>2. ~sending'
  BY <1>1, Zenon DEF Queue, TestSending, TestForever, ReadCount, TakeCount, Expire, HandBurst
<1>3. qpc[q] # "test" /\ since[q] = 0
  <2>1. qpc[q] # "test"
    BY <1>1, Zenon DEF Queue, TestSending, TestForever, ReadCount, TakeCount, Expire, HandBurst
  <2>2. QED BY <1>1, <2>1, Zenon DEF StopInv
<1>4. ASSUME NEW r \in Queues
      PROVE  since'[r] \in {0, 1} /\ (qpc'[r] # "test" => since'[r] = 0)
  <2>1. since[r] \in {0, 1} /\ (qpc[r] # "test" => since[r] = 0)
    BY <1>1, Zenon DEF StopInv
  <2>2. CASE HandBurst(q)
    <3>1. qpc' = [qpc EXCEPT ![q] = "test"] BY <2>2 DEF HandBurst
    <3>2. since' = [since EXCEPT ![q] = @ + 1] \/ since' = since
      BY <1>1, <2>2, Zenon DEF HandBurst
    <3>3. QED BY <1>3, <2>1, <3>1, <3>2 DEF TypeOK, CountOK
  <2>3. CASE ~HandBurst(q)
    <3>1. since' = since
      BY <2>3, Zenon DEF Queue, TestSending, TestForever, ReadCount, TakeCount, Expire
    <3>2. r # q => qpc'[r] = qpc[r]
      BY <2>3 DEF Queue, TestSending, TestForever, ReadCount, TakeCount, Expire, TypeOK, CountOK
    <3>3. QED BY <1>3, <2>1, <3>1, <3>2
  <2>4. QED BY <2>2, <2>3
<1>5. QED BY <1>1, <1>2, <1>4, Zenon DEF StopInv

LEMMA StopUser ==
  ASSUME TypeOK, StopInv, User
  PROVE  StopInv'
<1>1. CASE UNCHANGED <<stopped, sending, since, qpc>> BY <1>1, Zenon DEF StopInv
<1>2. CASE ~stopped' BY <1>2, Zenon DEF StopInv
<1>3. CASE /\ ~sending'
           /\ since' = [q \in Queues |-> 0]
  <2>1. \A q \in Queues : since'[q] = 0 BY <1>3
  <2>2. QED BY <1>3, <2>1, Zenon DEF StopInv
<1>4. QED
  BY <1>1, <1>2, <1>3, Zenon DEF User, Start, StartLoad, LoadCount, StartDecide, StartGo,
     PrimeLoad, PrimeGo, Go, StopSending, ClearFlags, SetCount

\* A stop is final: no queue hands over more than the one burst it had already
\* decided on, until the port is started again.
THEOREM StopsForGood == Spec => []StopIsFinal
<1>1. Init => StopInv BY Zenon DEF Init, StopInv
<1>2. TypeOK /\ StopInv /\ [Next]_vars => StopInv'
  <2> SUFFICES ASSUME TypeOK, StopInv, [Next]_vars PROVE StopInv' OBVIOUS
  <2>1. CASE UNCHANGED vars BY <2>1, Zenon DEF vars, StopInv
  <2>2. QED BY <2>1, StopQueue, StopUser DEF Next
<1>3. StopInv => StopIsFinal
  <2>1. \A n \in {0, 1} : n <= 1 OBVIOUS
  <2>2. QED BY <2>1, Zenon DEF StopInv, StopIsFinal
<1>4. QED BY <1>1, <1>2, <1>3, TxTypeCorrect, PTL DEF Spec

-----------------------------------------------------------------------------
(* The count.                                                              *)

(* A start or prime finds the port at rest: not sending, and no queue past its *)
(* test of the flag.                                                       *)
FoundAtRest ==
  cpc = "idle" /\ cpc' # "idle" => ~sending /\ \A q \in Queues : qpc[q] = "test"

(* Then nobody moves until it is done, SEND_FOREVER is set only for a count of *)
(* zero, and no queue that saw it clear is on its way while it is set.     *)
AtRest == cpc # "idle" => ~sending /\ \A q \in Queues : qpc[q] = "test"
ForeverIsZero ==
  /\ cpc = "decide" => current = asked
  /\ forever => /\ asked = 0 /\ (sending \/ cpc = "go")
                /\ \A q \in Queues : qpc[q] \notin {"read", "cas", "expire"}
  /\ uncounted => asked = 0

HonourInv == AtRest /\ ForeverIsZero

LEMMA HonourQueue ==
  ASSUME TypeOK, HonourInv, NEW q \in Queues, Queue(q)
  PROVE  HonourInv'
<1>1. \A r \in Queues : r # q => qpc'[r] = qpc[r]
  BY DEF Queue, TestSending, TestForever, ReadCount, TakeCount, Expire, HandBurst, TypeOK, CountOK
<1>2. cpc = "idle" /\ cpc' = "idle"
  <2>1. sending \/ qpc[q] # "test"
    BY Zenon DEF Queue, TestSending, TestForever, ReadCount, TakeCount, Expire, HandBurst
  <2>2. cpc' = cpc
    BY Zenon DEF Queue, TestSending, TestForever, ReadCount, TakeCount, Expire, HandBurst
  <2>3. QED BY <2>1, <2>2, Zenon DEF HonourInv, AtRest
<1>3. AtRest' BY <1>2 DEF AtRest
<1>4. forever' = forever /\ asked' = asked
  BY Zenon DEF Queue, TestSending, TestForever, ReadCount, TakeCount, Expire, HandBurst
<1>5. uncounted' => asked = 0
  <2>1. (uncounted' => uncounted) \/ forever
    BY Zenon DEF Queue, TestSending, TestForever, ReadCount, TakeCount, Expire, HandBurst
  <2>2. QED BY <2>1, Zenon DEF HonourInv, ForeverIsZero
<1>6. ASSUME forever PROVE sending' /\ qpc'[q] \notin {"read", "cas", "expire"}
  <2>1. sending /\ qpc[q] \notin {"read", "cas", "expire"}
    BY <1>2, <1>6 DEF HonourInv, ForeverIsZero
  <2>2. TestSending(q) \/ TestForever(q) \/ HandBurst(q)
    BY <2>1 DEF Queue, ReadCount, TakeCount, Expire
  <2>3. sending' = sending BY <2>2 DEF TestSending, TestForever, HandBurst
  <2>4. qpc'[q] \in {"forever", "hand", "test"}
    BY <1>6, <2>2 DEF TestSending, TestForever, HandBurst, TypeOK, CountOK
  <2>5. QED BY <2>1, <2>3, <2>4
<1>7. ForeverIsZero'
  BY <1>1, <1>2, <1>4, <1>5, <1>6 DEF HonourInv, ForeverIsZero
<1>8. QED BY <1>3, <1>7 DEF HonourInv

LEMMA HonourUser ==
  ASSUME TypeOK, HonourInv, User, FoundAtRest
  PROVE  HonourInv'
<1> USE DEF HonourInv, AtRest, ForeverIsZero
<1>1. qpc' = qpc
  BY Zenon DEF User, Start, StartLoad, LoadCount, StartDecide, StartGo, PrimeLoad, PrimeGo, Go,
     StopSending, SetCount
<1>2. CASE Start
  BY <1>1, <1>2 DEF Start, Give, FoundAtRest
<1>3. CASE StartLoad
  BY <1>1, <1>3 DEF StartLoad, LoadCount
<1>4. CASE StartDecide
  BY <1>1, <1>4 DEF StartDecide
<1>5. CASE StartGo \/ PrimeGo
  BY <1>1, <1>5 DEF StartGo, PrimeGo, Go
<1>6. CASE PrimeLoad
  BY <1>1, <1>6 DEF PrimeLoad, LoadCount, Give, FoundAtRest
<1>7. CASE StopSending
  BY <1>1, <1>7 DEF StopSending, ClearFlags, Give
<1>8. CASE \E n \in Counts : SetCount(n)
  BY <1>1, <1>8 DEF SetCount, Give
<1>9. QED BY <1>2, <1>3, <1>4, <1>5, <1>6, <1>7, <1>8 DEF User

\* A run with a count keeps to it whenever no start or prime comes while a queue is
\* half way: the race of tx_count_forever is the only way past the counter.
THEOREM CountKept == Spec /\ [][FoundAtRest]_vars => []CountHonoured
<1>1. Init => HonourInv BY DEF Init, HonourInv, AtRest, ForeverIsZero
<1>2. TypeOK /\ HonourInv /\ [Next]_vars /\ [FoundAtRest]_vars => HonourInv'
  <2> SUFFICES ASSUME TypeOK, HonourInv, [Next]_vars, [FoundAtRest]_vars PROVE HonourInv'
    OBVIOUS
  <2>1. CASE UNCHANGED vars
    BY <2>1, Zenon DEF vars, HonourInv, AtRest, ForeverIsZero
  <2>2. QED BY <2>1, HonourQueue, HonourUser DEF Next
<1>3. HonourInv => CountHonoured BY DEF HonourInv, ForeverIsZero, CountHonoured
<1>4. QED BY <1>1, <1>2, <1>3, TxTypeCorrect, PTL DEF Spec
=============================================================================
