--------------------------- MODULE ReceiveProofs ----------------------------
(***************************************************************************)
(* Theorems about what the receive thread does with packets: the mbufs     *)
(* (RxBuffers), the packet dump (PacketDump), the capture to a file        *)
(* (Capture), the table of latency samples (LatencySampler) and the probes *)
(* the skips are counted from (LatencyProbes), for every burst, buffer,    *)
(* packet size, number of queues, table size and rate.                     *)
(***************************************************************************)
EXTENDS RxBuffers, PacketDump, Capture, LatencySampler, LatencyProbes, SequencesExt,
        FiniteSetTheorems, TLAPS

(* Who owns an mbuf.                                                       *)

InBurst(m) == \E i \in 1 .. Len(inBurst) : inBurst[i].mbuf = m

(* A burst holds each mbuf once, mbufs of the receive pool only, and none of *)
(* these is ever sent: what is sent comes from the special pool.             *)
BurstOnce   == \A i, j \in 1 .. Len(inBurst) : inBurst[i].mbuf = inBurst[j].mbuf => i = j
BurstOfPool == \A i \in 1 .. Len(inBurst) : inBurst[i].mbuf \in RxMbufs
NeverSent   == \A m \in RxMbufs : sending[m] = 0
OnePlace    == \A m \in Mbufs :
  pooled[m] + sending[m] + (IF m \in posted THEN 1 ELSE 0) + (IF InBurst(m) THEN 1 ELSE 0) = 1

RxIInv == RxTypeOK /\ BurstOnce /\ BurstOfPool /\ NeverSent /\ OnePlace

USE DEF Mbufs

-----------------------------------------------------------------------------
(* How often a burst holds an mbuf.                                          *)
LEMMA BurstCount ==
  ASSUME BurstOnce, NEW m, inBurst \in Seq([mbuf : Mbufs, kind : Inputs])
  PROVE  Cardinality({i \in 1 .. Len(inBurst) : inBurst[i].mbuf = m})
           = IF InBurst(m) THEN 1 ELSE 0
<1> DEFINE Places == {i \in 1 .. Len(inBurst) : inBurst[i].mbuf = m}
<1>1. CASE InBurst(m)
  <2>1. PICK i \in 1 .. Len(inBurst) : inBurst[i].mbuf = m BY <1>1 DEF InBurst
  <2>2. Places = {i} BY <2>1 DEF BurstOnce
  <2>3. Cardinality({i}) = 1 BY FS_Singleton
  <2>4. QED BY <1>1, <2>2, <2>3
<1>2. CASE ~InBurst(m)
  <2>1. Places = {} BY <1>2 DEF InBurst
  <2>2. Cardinality({}) = 0 BY FS_EmptySet
  <2>3. QED BY <1>2, <2>1, <2>2
<1>3. QED BY <1>1, <1>2

LEMMA TableIsSequence ==
  ASSUME NEW S, NEW n \in Nat, NEW f \in [1 .. n -> S]
  PROVE  f \in Seq(S) /\ Len(f) = n
OBVIOUS

LEMMA EntryOf ==
  ASSUME NEW S, NEW f \in Seq(S), NEW i \in 1 .. Len(f)
  PROVE  f[i] \in S
OBVIOUS

(* The special pool gives up an mbuf for an answer.                          *)
LEMMA AnswerStep ==
  ASSUME RxIInv, NEW s \in SpMbufs, pooled[s] > 0,
         pooled' = [pooled EXCEPT ![s] = pooled[s] - 1],
         sending' = [sending EXCEPT ![s] = sending[s] + 1],
         UNCHANGED <<posted, inBurst>>
  PROVE  /\ pooled' \in [Mbufs -> Nat] /\ sending' \in [Mbufs -> Nat]
         /\ NeverSent' /\ OnePlace'
<1> USE RxAssumption DEF RxAssumption, RxIInv, RxTypeOK
<1>1. pooled' \in [Mbufs -> Nat] /\ sending' \in [Mbufs -> Nat] OBVIOUS
<1>2. NeverSent' BY DEF NeverSent
<1>3. \A m \in Mbufs : pooled'[m] + sending'[m] = pooled[m] + sending[m] OBVIOUS
<1>4. \A m : InBurst(m)' <=> InBurst(m) BY DEF InBurst
<1>5. OnePlace' BY <1>1, <1>3, <1>4 DEF OnePlace
<1>6. QED BY <1>1, <1>2, <1>5

(* The types, whatever comes in.                                             *)
LEMMA RxTypeStep ==
  ASSUME RxTypeOK, RxNext
  PROVE  RxTypeOK'
<1> USE RxAssumption DEF RxAssumption
<1>1. answering' \in BOOLEAN
  BY Zenon DEF RxTypeOK, RxNext, Post, PollBurst, Classify, FreeBurst, Transmitted, SetAnswering
<1>2. CASE Post
  <2>1. PICK m \in RxMbufs : pooled[m] > 0 /\ pooled' = [pooled EXCEPT ![m] = pooled[m] - 1]
                             /\ posted' = posted \cup {m}
                             /\ UNCHANGED <<inBurst, classified, sending>>
    BY <1>2, Zenon DEF Post
  <2>2. QED BY <1>1, <2>1 DEF RxTypeOK
<1>3. CASE PollBurst
  <2>1. PICK n \in 1 .. RxBurst : \E b \in [1 .. n -> [mbuf : posted, kind : Inputs]] :
          /\ inBurst' = b /\ classified' = 0 /\ posted' \subseteq posted
          /\ UNCHANGED <<pooled, sending>>
    BY <1>3 DEF PollBurst
  <2>2. PICK b \in [1 .. n -> [mbuf : posted, kind : Inputs]] :
          /\ inBurst' = b /\ classified' = 0 /\ posted' \subseteq posted
          /\ UNCHANGED <<pooled, sending>>
    BY <2>1
  <2>3. n \in Nat /\ n <= RxBurst OBVIOUS
  <2>4. b \in [1 .. n -> [mbuf : Mbufs, kind : Inputs]]
    <3>1. [mbuf : posted, kind : Inputs] \subseteq [mbuf : Mbufs, kind : Inputs] BY DEF RxTypeOK
    <3>2. QED BY <3>1
  <2>5. b \in Seq([mbuf : Mbufs, kind : Inputs]) /\ Len(b) = n BY <2>3, <2>4, TableIsSequence
  <2>6. QED BY <1>1, <2>2, <2>3, <2>5 DEF RxTypeOK
<1>4. CASE Classify
  <2> DEFINE p == inBurst[classified + 1]
  <2>1. classified + 1 \in 1 .. Len(inBurst) /\ classified' = classified + 1
        /\ UNCHANGED <<posted, inBurst>>
    BY <1>4 DEF Classify, RxTypeOK
  <2>2. p \in [mbuf : Mbufs, kind : Inputs] BY <2>1, EntryOf DEF RxTypeOK
  <2>3. AnswerArp(p.mbuf) \/ AnswerPing(p.mbuf) \/ UNCHANGED <<pooled, sending>>
    BY <1>4, <2>2 DEF Classify
  <2>4. pooled' \in [Mbufs -> Nat] /\ sending' \in [Mbufs -> Nat]
    <3>1. CASE \E s \in SpMbufs : /\ pooled[s] > 0
                                  /\ pooled' = [pooled EXCEPT ![s] = pooled[s] - 1]
                                  /\ sending' = [sending EXCEPT ![s] = sending[s] + 1]
      BY <3>1 DEF RxTypeOK
    <3>2. CASE AnswerPing(p.mbuf) BY <2>2, <3>2 DEF AnswerPing, RxTypeOK
    <3>3. QED BY <2>3, <3>1, <3>2 DEF AnswerArp, RxTypeOK
  <2>5. QED BY <1>1, <2>1, <2>4 DEF RxTypeOK
<1>5. CASE FreeBurst
  <2>1. /\ pooled' = [m \in Mbufs |->
                       pooled[m] + Cardinality({i \in 1 .. Len(inBurst) : inBurst[i].mbuf = m})]
        /\ inBurst' = <<>> /\ classified' = 0 /\ UNCHANGED <<posted, sending>>
    BY <1>5, Zenon DEF FreeBurst
  <2>2. \A m \in Mbufs : Cardinality({i \in 1 .. Len(inBurst) : inBurst[i].mbuf = m}) \in Nat
    <3>1. TAKE m \in Mbufs
    <3>2. Len(inBurst) \in Nat BY DEF RxTypeOK
    <3>3. IsFiniteSet(1 .. Len(inBurst)) BY <3>2, FS_Interval
    <3>4. IsFiniteSet({i \in 1 .. Len(inBurst) : inBurst[i].mbuf = m}) BY <3>3, FS_Subset
    <3>5. QED BY <3>4, FS_CardinalityType
  <2>3. \A m \in Mbufs : pooled'[m] \in Nat
    <3>1. TAKE m \in Mbufs
    <3>2. pooled'[m] = pooled[m] + Cardinality({i \in 1 .. Len(inBurst) : inBurst[i].mbuf = m})
      BY <2>1, Zenon
    <3>3. pooled[m] \in Nat BY DEF RxTypeOK
    <3>4. QED BY <2>2, <3>2, <3>3
  <2>4. pooled' \in [Mbufs -> Nat] BY <2>1, <2>3
  <2>5. QED BY <1>1, <2>1, <2>4 DEF RxTypeOK
<1>6. CASE Transmitted
  <2>1. PICK m \in Mbufs : /\ sending[m] > 0
                           /\ sending' = [sending EXCEPT ![m] = sending[m] - 1]
                           /\ pooled' = [pooled EXCEPT ![m] = pooled[m] + 1]
                           /\ UNCHANGED <<posted, inBurst, classified>>
    BY <1>6, Zenon DEF Transmitted
  <2>2. QED BY <1>1, <2>1 DEF RxTypeOK
<1>7. CASE SetAnswering
  <2>1. UNCHANGED <<pooled, posted, inBurst, classified, sending>>
    BY <1>7, Zenon DEF SetAnswering
  <2>2. QED BY <1>1, <2>1 DEF RxTypeOK
<1>8. QED BY <1>2, <1>3, <1>4, <1>5, <1>6, <1>7 DEF RxNext

LEMMA RxInitially == RxInit => RxTypeOK
<1> SUFFICES ASSUME RxInit PROVE RxTypeOK OBVIOUS
<1>1. answering \in BOOLEAN BY Zenon DEF RxInit
<1>2. QED BY <1>1, RxAssumption DEF RxAssumption, RxInit, RxTypeOK

LEMMA RxStep ==
  ASSUME "ping" \notin Inputs, RxIInv, RxNext
  PROVE  RxIInv'
<1> USE RxAssumption DEF RxAssumption, RxIInv
<1>1. RxTypeOK' BY RxTypeStep
<1>2. CASE Post
  <2>1. PICK m \in RxMbufs : pooled[m] > 0 /\ pooled' = [pooled EXCEPT ![m] = pooled[m] - 1]
                             /\ posted' = posted \cup {m}
                             /\ UNCHANGED <<inBurst, classified, sending>>
    BY <1>2, Zenon DEF Post
  <2>2. BurstOnce' /\ BurstOfPool' BY <2>1 DEF BurstOnce, BurstOfPool
  <2>3. NeverSent' BY <2>1 DEF NeverSent
  <2>4. OnePlace' BY SMTT(30), <2>1 DEF OnePlace, RxTypeOK, InBurst
  <2>5. QED BY <1>1, <2>2, <2>3, <2>4
<1>3. CASE PollBurst
  <2> DEFINE Polled(n, b) ==
        /\ inBurst = <<>>
        /\ \A i, j \in 1 .. n : b[i].mbuf = b[j].mbuf => i = j
        /\ inBurst' = b /\ classified' = 0
        /\ posted' = posted \ {b[i].mbuf : i \in 1 .. n}
        /\ UNCHANGED <<pooled, sending>>
  <2>1. PICK n \in 1 .. RxBurst :
          \E b \in [1 .. n -> [mbuf : posted, kind : Inputs]] : Polled(n, b)
    BY <1>3, Zenon DEF PollBurst
  <2>2. PICK b \in [1 .. n -> [mbuf : posted, kind : Inputs]] : Polled(n, b) BY <2>1
  <2>3. Len(b) = n /\ n \in Nat BY <2>2, TableIsSequence
  <2>4. \A i \in 1 .. n : b[i].mbuf \in posted /\ b[i].mbuf \in RxMbufs
    BY <2>2 DEF RxTypeOK
  <2>5. BurstOnce' /\ BurstOfPool' BY <2>2, <2>3, <2>4 DEF BurstOnce, BurstOfPool
  <2>6. NeverSent' BY <2>2 DEF NeverSent
  <2>7. \A m : ~InBurst(m) BY <2>2 DEF InBurst
  <2>8. \A m : InBurst(m)' <=> \E i \in 1 .. n : b[i].mbuf = m BY <2>2, <2>3 DEF InBurst
  <2>9. OnePlace'
    <3> SUFFICES ASSUME NEW m \in Mbufs
                 PROVE  pooled[m] + sending[m] + (IF m \in posted' THEN 1 ELSE 0)
                          + (IF InBurst(m)' THEN 1 ELSE 0) = 1
      BY <2>2 DEF OnePlace
    <3>1. pooled[m] + sending[m] + (IF m \in posted THEN 1 ELSE 0) = 1
          /\ pooled[m] \in Nat /\ sending[m] \in Nat
      BY <2>7 DEF OnePlace, RxTypeOK
    <3>2. InBurst(m)' => m \in posted /\ m \notin posted' BY <2>2, <2>4, <2>8
    <3>3. ~InBurst(m)' => (m \in posted <=> m \in posted') BY <2>2, <2>8
    <3>4. QED BY <3>1, <3>2, <3>3
  <2>10. QED BY <1>1, <2>5, <2>6, <2>9
<1>4. CASE Classify
  <2> DEFINE p == inBurst[classified + 1]
  <2>1. p \in [mbuf : Mbufs, kind : Inputs] 
    <3>1. classified + 1 \in 1 .. Len(inBurst) BY <1>4 DEF Classify, RxTypeOK
    <3>2. inBurst \in Seq([mbuf : Mbufs, kind : Inputs]) BY DEF RxTypeOK
    <3>3. QED BY <3>1, <3>2, EntryOf
  <2>2. AnswerArp(p.mbuf) \/ UNCHANGED <<pooled, sending>> BY <1>4, <2>1 DEF Classify
  <2>3. \/ \E s \in SpMbufs : /\ pooled[s] > 0
                              /\ pooled' = [pooled EXCEPT ![s] = pooled[s] - 1]
                              /\ sending' = [sending EXCEPT ![s] = sending[s] + 1]
        \/ UNCHANGED <<pooled, sending>>
    BY <2>2 DEF AnswerArp
  <2>4. classified' \in 0 .. Len(inBurst) /\ UNCHANGED <<posted, inBurst>>
    BY <1>4 DEF Classify, RxTypeOK
  <2>5. /\ pooled' \in [Mbufs -> Nat] /\ sending' \in [Mbufs -> Nat]
        /\ NeverSent' /\ OnePlace'
    <3>1. CASE UNCHANGED <<pooled, sending>>
      BY <2>4, <3>1 DEF RxTypeOK, NeverSent, OnePlace, InBurst
    <3>2. QED BY <2>3, <2>4, <3>1, AnswerStep
  <2>6. BurstOnce' /\ BurstOfPool' BY <2>4 DEF BurstOnce, BurstOfPool
  <2>7. QED BY <1>1, <2>5, <2>6
<1>5. CASE FreeBurst
  <2>1. /\ pooled' = [m \in Mbufs |->
                       pooled[m] + Cardinality({i \in 1 .. Len(inBurst) : inBurst[i].mbuf = m})]
        /\ inBurst' = <<>> /\ classified' = 0 /\ UNCHANGED <<posted, sending>>
    BY <1>5, Zenon DEF FreeBurst
  <2>2. \A m \in Mbufs : pooled'[m] = pooled[m] + IF InBurst(m) THEN 1 ELSE 0
    BY <2>1, BurstCount DEF RxTypeOK
  <2>3. BurstOnce' /\ BurstOfPool' BY <2>1 DEF BurstOnce, BurstOfPool
  <2>4. NeverSent' BY <2>1 DEF NeverSent
  <2>5. \A m : ~InBurst(m)' BY <2>1 DEF InBurst
  <2>6. OnePlace'
    <3> SUFFICES ASSUME NEW m \in Mbufs
                 PROVE  pooled'[m] + sending[m] + (IF m \in posted THEN 1 ELSE 0) + 0 = 1
      BY <2>1, <2>5 DEF OnePlace
    <3>1. pooled[m] \in Nat /\ sending[m] \in Nat BY DEF RxTypeOK
    <3>2. QED BY <2>2, <3>1 DEF OnePlace
  <2>7. QED BY <1>1, <2>3, <2>4, <2>6
<1>6. CASE Transmitted
  <2>1. PICK m \in Mbufs : /\ sending[m] > 0
                           /\ sending' = [sending EXCEPT ![m] = sending[m] - 1]
                           /\ pooled' = [pooled EXCEPT ![m] = pooled[m] + 1]
                           /\ UNCHANGED <<posted, inBurst, classified>>
    BY <1>6, Zenon DEF Transmitted
  <2>2. BurstOnce' /\ BurstOfPool' BY <2>1 DEF BurstOnce, BurstOfPool
  <2>3. NeverSent' BY <2>1 DEF NeverSent, RxTypeOK
  <2>4. OnePlace'
    <3>1. ASSUME NEW n \in Mbufs
          PROVE  /\ pooled'[n] + sending'[n] = pooled[n] + sending[n]
                 /\ posted' = posted /\ inBurst' = inBurst
      BY <2>1 DEF RxTypeOK
    <3>2. QED BY <3>1 DEF OnePlace, InBurst
  <2>5. QED BY <1>1, <2>2, <2>3, <2>4
<1>7. CASE SetAnswering
  <2>1. UNCHANGED <<pooled, posted, inBurst, classified, sending>>
    BY <1>7, Zenon DEF SetAnswering
  <2>2. QED BY <1>1, <2>1 DEF BurstOnce, BurstOfPool, NeverSent, OnePlace, InBurst
<1>8. QED BY <1>2, <1>3, <1>4, <1>5, <1>6, <1>7 DEF RxNext

-----------------------------------------------------------------------------
\* The types of the mbufs' places, for every mix of packets.
THEOREM RxTypeCorrect == RxSpec => []RxTypeOK
<1>1. RxTypeOK /\ UNCHANGED mbufVars => RxTypeOK' BY Zenon DEF mbufVars, RxTypeOK
<1>2. QED BY <1>1, RxInitially, RxTypeStep, PTL DEF RxSpec

\* As long as no ping comes in that is answered, an mbuf is in its pool, in one
\* of the NIC's rings or in the burst in hand, and in one of them only: ARP
\* answers, the dump and the capture neither leak one nor free one twice.
THEOREM OneOwner ==
  ASSUME "ping" \notin Inputs
  PROVE  RxSpec => []OwnedOnce
<1>1. RxInit => RxIInv
  <2> SUFFICES ASSUME RxInit PROVE RxIInv OBVIOUS
  <2> QED
    BY RxInitially DEF RxInit, RxIInv, BurstOnce, BurstOfPool, NeverSent, OnePlace, InBurst
<1>2. RxIInv /\ [RxNext]_mbufVars => RxIInv'
  <2> SUFFICES ASSUME RxIInv, [RxNext]_mbufVars PROVE RxIInv' OBVIOUS
  <2>1. CASE UNCHANGED mbufVars
    BY <2>1, Zenon DEF mbufVars, RxIInv, RxTypeOK, BurstOnce, BurstOfPool, NeverSent, OnePlace,
       InBurst
  <2>2. QED BY <2>1, RxStep
<1>3. RxIInv => OwnedOnce
  BY RxAssumption DEF RxAssumption, RxIInv, RxTypeOK, BurstOfPool, NeverSent, OnePlace,
     OwnedOnce, Owners, InHand, InBurst
<1>4. QED BY <1>1, <1>2, <1>3, PTL DEF RxSpec

-----------------------------------------------------------------------------
(* The packet dump: types and bounds.                                      *)

(* What is left of a burst fits behind tail: a command may move tail back    *)
(* to zero in the middle of it, never forward.                               *)
BurstFits  ==
  /\ rx \in {"fill", "next"} => Len(burst) > 0 /\ dumpTail + Len(burst) <= MaxDump
  /\ rx = "count" => Len(burst) \in 1 .. DumpBurst
TakingFits == rx = "fit" => taking <= Len(burst)
HeadFits   == printer # "idle" => dumpHead < MaxDump

DumpIInv == DumpTypeOK /\ BurstFits /\ TakingFits /\ HeadFits

USE DEF dumpVars, rxVars, setVars, sinceVars, Slot

-----------------------------------------------------------------------------
(* The receive lcore.                                                        *)

LEMMA ReceiveStep ==
  ASSUME DumpIInv, DumpReceive
  PROVE  DumpIInv'
<1> USE DumpAssumption DEF DumpAssumption, DumpIInv, DumpTypeOK, BurstFits, TakingFits, HeadFits
<1>1. UNCHANGED crossed
  BY Zenon DEF DumpReceive, Poll, Take, Fit, Fill, Advance, TakeOff
<1>2. ASSUME NEW n \in 1 .. DumpBurst, Poll(n) PROVE DumpIInv'
  <2>1. CASE dumpCount > 0
    <3>1. /\ burst' = [i \in 1 .. n |-> polled + i] /\ polled + n <= MaxDumpPkts
          /\ polled' = polled + n
      BY <1>2, <2>1 DEF Poll
    <3>2. burst' \in Seq(1 .. MaxDumpPkts) /\ Len(burst') = n BY <3>1
    <3>3. QED BY <1>1, <1>2, <2>1, <3>1, <3>2 DEF Poll
  <2>2. CASE ~(dumpCount > 0) BY <1>1, <1>2, <2>2 DEF Poll
  <2>3. QED BY <2>1, <2>2
<1>3. CASE Take
  <2>1. Len(burst) \in 0 .. DumpBurst BY <1>3 DEF Take
  <2>2. taking' \in 0 .. DumpBurst /\ taking' <= Len(burst)
    BY <1>3, <2>1 DEF Take, UpToCount, Lesser
  <2>3. QED BY <1>1, <1>3, <2>2 DEF Take
<1>4. CASE Fit
  <2>1. taking' \in 0 .. DumpBurst /\ taking' <= Len(burst) /\ taking' <= MaxDump - dumpTail
    BY SMTT(30), <1>4 DEF Fit, UpToRoom, Lesser
  <2>2. burst' \in Seq(1 .. MaxDumpPkts) /\ Len(burst') = taking'
    BY <1>4, <2>1 DEF Fit
  <2>3. QED BY <1>1, <1>4, <2>1, <2>2 DEF Fit
<1>5. CASE Fill BY <1>1, <1>5 DEF Fill
<1>6. CASE Advance
  <2>1. burst' \in Seq(1 .. MaxDumpPkts) /\ Len(burst') = Len(burst) - 1
    BY <1>6 DEF Advance
  <2>2. burst' # <<>> => Len(burst') > 0 BY <2>1
  <2>3. stored' \in Nat BY <1>6 DEF Advance
  <2>4. rx' \in {"fill", "done"} /\ (rx' = "fill" => burst' # <<>>) BY <1>6 DEF Advance
  <2>5. dumpTail' \in 0 .. MaxDump /\ dumpTail' + Len(burst') <= MaxDump
    BY <1>6, <2>1 DEF Advance
  <2>6. UNCHANGED <<dumpList, dumpHead, dumpCount, polled, taking, printer, setter, asking,
                    dumpCmds, asked, printed, firstDue>>
    BY <1>6, Zenon DEF Advance
  <2>7. DumpTypeOK' BY <1>1, <2>1, <2>3, <2>4, <2>5, <2>6
  <2>8. BurstFits' /\ TakingFits' /\ HeadFits' BY <2>2, <2>4, <2>5, <2>6
  <2>9. QED BY <2>7, <2>8
<1>7. CASE TakeOff
  <2>1. dumpCount' \in 0 .. ByteSize - 1 BY <1>7 DEF TakeOff
  <2>2. QED BY <1>1, <1>7, <2>1 DEF TakeOff
<1>8. QED BY <1>2, <1>3, <1>4, <1>5, <1>6, <1>7 DEF DumpReceive

-----------------------------------------------------------------------------
(* The timer thread and the command thread.                                  *)

LEMMA PrintStep ==
  ASSUME DumpIInv, DumpPrint
  PROVE  DumpIInv'
<1> USE DumpAssumption DEF DumpAssumption, DumpIInv, DumpTypeOK, BurstFits, TakingFits, HeadFits
<1>1. UNCHANGED crossed BY Zenon DEF DumpPrint, PrintOne, FreeOne, PrintNext
<1>2. CASE PrintOne
  <2>1. dumpHead \in 0 .. MaxDump - 1 BY <1>2 DEF PrintOne
  <2>2. printed' \in Seq(0 .. MaxDumpPkts) BY <1>2, <2>1 DEF PrintOne
  <2>3. QED BY <1>1, <1>2, <2>1, <2>2 DEF PrintOne
<1>3. CASE FreeOne BY <1>1, <1>3 DEF FreeOne, NoData
<1>4. CASE PrintNext BY <1>1, <1>4 DEF PrintNext, MoveOn
<1>5. QED BY <1>2, <1>3, <1>4 DEF DumpPrint

LEMMA CommandStep ==
  ASSUME DumpIInv, DumpCommand
  PROVE  DumpIInv'
<1> USE DumpAssumption DEF DumpAssumption, DumpIInv, DumpTypeOK, BurstFits, TakingFits, HeadFits
<1>1. crossed' \in BOOLEAN BY Zenon DEF DumpCommand, AskDump, ResetTail, ResetHead, ArmDump, Busy
<1>2. ASSUME NEW n \in DumpAsks, AskDump(n) PROVE DumpIInv'
  <2>1. asking' \in 0 .. MaxDump BY <1>2 DEF AskDump, Lesser
  <2>2. QED BY <1>1, <1>2, <2>1 DEF AskDump
<1>3. CASE ResetTail BY <1>1, <1>3 DEF ResetTail
<1>4. CASE ResetHead BY <1>1, <1>4 DEF ResetHead
<1>5. CASE ArmDump BY <1>1, <1>5 DEF ArmDump, NoData
<1>6. QED BY <1>2, <1>3, <1>4, <1>5 DEF DumpCommand

LEMMA DumpInvariant == DumpSpec => []DumpIInv
<1>1. DumpInit => DumpIInv
  <2> SUFFICES ASSUME DumpInit PROVE DumpIInv OBVIOUS
  <2>1. crossed \in BOOLEAN BY Zenon DEF DumpInit
  <2>2. QED
    BY <2>1, DumpAssumption DEF DumpAssumption, DumpInit, DumpIInv, DumpTypeOK, BurstFits,
       TakingFits, HeadFits, NoData
<1>2. DumpIInv /\ [DumpNext]_packetDumpVars => DumpIInv'
  <2> SUFFICES ASSUME DumpIInv, [DumpNext]_packetDumpVars PROVE DumpIInv' OBVIOUS
  <2>1. CASE UNCHANGED packetDumpVars
    BY <2>1, Zenon DEF packetDumpVars, DumpIInv, DumpTypeOK, BurstFits, TakingFits, HeadFits
  <2>2. QED BY <2>1, ReceiveStep, PrintStep, CommandStep DEF DumpNext
<1>3. QED BY <1>1, <1>2, PTL DEF DumpSpec

-----------------------------------------------------------------------------
\* The bytes the three threads share keep their ranges without a lock: the
\* type invariant of the dump list.
THEOREM DumpTypeCorrect == DumpSpec => []DumpTypeOK
<1>1. DumpIInv => DumpTypeOK BY DEF DumpIInv
<1>2. QED BY <1>1, DumpInvariant, PTL

\* Whenever a command starts over in the middle of a burst, the receive lcore
\* stores what is left of it inside the list.
THEOREM DumpStaysInBounds == DumpSpec => []DumpInBounds
<1>1. DumpIInv => DumpInBounds
  BY DumpAssumption DEF DumpAssumption, DumpIInv, DumpTypeOK, BurstFits, DumpInBounds
<1>2. QED BY <1>1, DumpInvariant, PTL

-----------------------------------------------------------------------------
(* The packet dump: what is printed.                                       *)

(* While a command that found the others at rest is under way they stay at   *)
(* rest, but for the printer until tail is back.                             *)
CommandQuiet ==
  /\ setter # "idle" => rx = "poll" /\ dumpCount = 0
  /\ setter \in {"tail", "head"} => dumpTail = 0 /\ printer = "idle"
  /\ setter = "head" => dumpHead = 0

(* What is stored and what is still asked for make up what was asked for,    *)
(* the burst in hand counted once.                                           *)
AskedFor ==
  /\ stored = dumpTail /\ stored <= asked
  /\ rx \in {"poll", "count", "fit"} => dumpCount + dumpTail = asked
  /\ rx = "fit" => Len(burst) > 0 /\ taking \in {Len(burst), dumpCount}
  /\ rx \in {"fill", "next", "done"} => dumpCount + dumpTail + Len(burst) = asked + taking
  /\ rx = "done" => burst = <<>>
  /\ rx \notin {"poll", "count"} => taking <= dumpCount

(* The burst in hand goes on where tail is, and the next to arrive goes on   *)
(* after it as long as any more are asked for.                               *)
NextDue ==
  /\ rx # "poll" => \A i \in 1 .. Len(burst) : burst[i] = firstDue + dumpTail + i - 1
  /\ rx = "poll" /\ dumpCount > 0 => polled + 1 = firstDue + dumpTail
  /\ rx = "count" \/ (rx # "poll" /\ dumpCount > taking) =>
       polled + 1 = firstDue + dumpTail + Len(burst)

(* The list holds what was stored and is yet to be printed.                  *)
ListHolds ==
  /\ \A k \in Slot : (IF printer = "next" THEN dumpHead + 1 ELSE dumpHead) <= k /\ k < dumpTail =>
       dumpList[k] = firstDue + k
  /\ rx = "next" => dumpList[dumpTail] = firstDue + dumpTail

PrintedSoFar ==
  /\ Len(printed) = (IF printer = "idle" THEN dumpHead ELSE dumpHead + 1)
  /\ Len(printed) <= dumpTail
  /\ \A i \in 1 .. Len(printed) : printed[i] = firstDue + i - 1

DumpSoFar == AskedFor /\ NextDue /\ ListHolds /\ PrintedSoFar

DumpGood == ~crossed => CommandQuiet /\ (setter = "idle" => DumpSoFar)

\* The first n of a sequence.
LEMMA StartOf ==
  ASSUME NEW S, NEW s \in Seq(S), NEW n \in 0 .. Len(s)
  PROVE  Len(SubSeq(s, 1, n)) = n /\ \A i \in 1 .. n : SubSeq(s, 1, n)[i] = s[i]
  OBVIOUS

\* A sequence without its first.
LEMMA RestOf ==
  ASSUME NEW S, NEW s \in Seq(S), Len(s) > 0
  PROVE  Len(Tail(s)) = Len(s) - 1 /\ \A i \in 1 .. Len(s) - 1 : Tail(s)[i] = s[i + 1]
  OBVIOUS

\* A byte from which no more is taken than it holds does not wrap.
LEMMA ByteMinus ==
  ASSUME NEW c \in Nat \ {0}, NEW a \in 0 .. c - 1, NEW b \in Nat, b <= a
  PROVE  (a + c - b) % c = a - b
  OBVIOUS

Natural ==
  /\ dumpHead \in Nat /\ dumpTail \in Nat /\ dumpCount \in Nat /\ polled \in Nat
  /\ taking \in Nat /\ asked \in Nat /\ stored \in Nat /\ firstDue \in Nat
  /\ burst \in Seq(1 .. MaxDumpPkts) /\ Len(burst) \in Nat /\ \A i \in 1 .. Len(burst) : burst[i] \in Nat
  /\ printed \in Seq(0 .. MaxDumpPkts) /\ Len(printed) \in Nat
  /\ dumpList \in [Slot -> Nat] /\ MaxDump \in Nat /\ ByteSize \in Nat \ {0}
  /\ dumpCount \in 0 .. ByteSize - 1 /\ asked <= MaxDump /\ dumpTail <= MaxDump
  /\ dumpList \in [Slot -> 0 .. MaxDumpPkts] /\ BurstFits /\ TakingFits

\* The type invariant in the form the arithmetic below needs.
LEMMA NaturalHere ==
  ASSUME DumpIInv
  PROVE  Natural
<1>1. burst \in Seq(1 .. MaxDumpPkts) BY DEF DumpIInv, DumpTypeOK
<1>2. \A i \in 1 .. Len(burst) : burst[i] \in Nat
  BY <1>1, DumpAssumption DEF DumpAssumption
<1>3. dumpList \in [Slot -> Nat] BY DEF DumpIInv, DumpTypeOK
<1>4. QED BY <1>2, <1>3, DumpAssumption DEF DumpAssumption, DumpIInv, DumpTypeOK, Natural

\* Each step of the two threads keeps what has been dumped so far right.
LEMMA PollKeeps ==
  ASSUME DumpIInv, DumpSoFar, NEW n \in 1 .. DumpBurst, Poll(n)
  PROVE  DumpSoFar'
<1> USE DEF DumpSoFar, Natural
<1>1. Natural BY NaturalHere
<1>2. n \in Nat \ {0} BY DumpAssumption DEF DumpAssumption
<1>3. /\ rx = "poll" /\ polled' = polled + n
      /\ UNCHANGED <<dumpList, dumpHead, dumpTail, dumpCount, printer, asked, stored, printed, firstDue>>
  BY DEF Poll
<1>4. ListHolds' /\ PrintedSoFar'
  <2>1. rx' # "next" BY <1>1, <1>3 DEF Poll
  <2>2. QED BY <1>1, <1>3, <2>1 DEF ListHolds, PrintedSoFar
<1>5. CASE dumpCount > 0
  <2>1. burst' = [i \in 1 .. n |-> polled + i] /\ rx' = "count" BY <1>1, <1>5 DEF Poll
  <2>2. Len(burst') = n /\ \A i \in 1 .. n : burst'[i] = polled + i BY <1>1, <2>1
  <2>3. polled + 1 = firstDue + dumpTail BY <1>1, <1>3, <1>5 DEF NextDue
  <2>4. AskedFor' BY <1>1, <1>3, <2>1, <2>2 DEF AskedFor
  <2>5. NextDue'
    <3>1. \A i \in 1 .. Len(burst') : burst'[i] = firstDue + dumpTail + i - 1 
      <4>1. ASSUME NEW i \in 1 .. n PROVE burst'[i] = firstDue + dumpTail + i - 1
        <5>1. burst'[i] = polled + i BY <2>2
        <5>2. i \in Nat /\ polled \in Nat /\ firstDue \in Nat /\ dumpTail \in Nat BY <1>1, <1>2
        <5>3. QED BY <2>3, <5>1, <5>2
      <4>2. QED BY <2>2, <4>1
    <3>2. polled' + 1 = firstDue + dumpTail + Len(burst')
      BY <1>1, <1>3, <1>2, <2>2, <2>3
    <3>3. QED BY <1>1, <1>3, <2>1, <3>1, <3>2 DEF NextDue
  <2>6. QED BY <1>1, <1>4, <2>4, <2>5
<1>6. CASE ~(dumpCount > 0)
  <2>1. UNCHANGED <<rx, burst, taking>> BY <1>1, <1>6 DEF Poll
  <2>2. AskedFor' /\ NextDue' BY <1>1, <1>3, <1>6, <2>1 DEF AskedFor, NextDue
  <2>3. QED BY <1>1, <1>4, <2>2
<1>7. QED BY <1>1, <1>5, <1>6

LEMMA TakeKeeps ==
  ASSUME DumpIInv, DumpSoFar, Take
  PROVE  DumpSoFar'
<1> USE DEF DumpSoFar, Natural
<1>1. Natural BY NaturalHere
<1>2. /\ rx = "count" /\ rx' = "fit" /\ taking' = Lesser(Len(burst), dumpCount)
      /\ UNCHANGED <<dumpList, dumpHead, dumpTail, dumpCount, polled, burst, printer, asked, stored,
                      printed, firstDue>>
  BY DEF Take, UpToCount
<1>3. Len(burst) > 0
  <2>1. Len(burst) \in 1 .. DumpBurst BY <1>1, <1>2 DEF BurstFits
  <2>2. QED BY <2>1, DumpAssumption DEF DumpAssumption
<1>4. taking' \in {Len(burst), dumpCount} /\ taking' <= dumpCount BY <1>1, <1>2 DEF Lesser
<1>5. AskedFor' BY <1>1, <1>2, <1>3, <1>4 DEF AskedFor
<1>6. NextDue' BY <1>1, <1>2 DEF NextDue
<1>7. ListHolds' /\ PrintedSoFar' BY <1>1, <1>2 DEF ListHolds, PrintedSoFar
<1>8. QED BY <1>1, <1>5, <1>6, <1>7

LEMMA FitKeeps ==
  ASSUME DumpIInv, DumpSoFar, Fit
  PROVE  DumpSoFar'
<1> USE DEF DumpSoFar, Natural
<1>1. Natural BY NaturalHere
<1>2. /\ rx = "fit" /\ rx' \in {"poll", "fill"} /\ (rx' = "poll" <=> taking' = 0)
      /\ taking' = Lesser(taking, MaxDump - dumpTail) /\ burst' = SubSeq(burst, 1, taking')
      /\ UNCHANGED <<dumpList, dumpHead, dumpTail, dumpCount, polled, printer, asked, stored,
                      printed, firstDue>>
  BY DEF Fit, UpToRoom
<1>3. ListHolds' /\ PrintedSoFar' BY <1>1, <1>2 DEF ListHolds, PrintedSoFar
<1>4. taking' = taking /\ taking <= dumpCount /\ taking <= Len(burst)
  BY <1>1, <1>2 DEF AskedFor, TakingFits, Lesser
<1>5. Len(burst') = taking /\ \A i \in 1 .. taking : burst'[i] = burst[i]
  BY <1>1, <1>2, <1>4, StartOf
<1>6. Len(burst) > 0 /\ (dumpCount > taking => taking = Len(burst)) BY <1>1, <1>2 DEF AskedFor
<1>7. AskedFor' BY <1>1, <1>2, <1>4, <1>5 DEF AskedFor
<1>8. NextDue'
  <2>1. \A i \in 1 .. Len(burst') : burst'[i] = firstDue + dumpTail + i - 1
    BY <1>1, <1>2, <1>4, <1>5 DEF NextDue
  <2>2. dumpCount > taking => polled + 1 = firstDue + dumpTail + Len(burst')
    BY <1>1, <1>2, <1>5, <1>6 DEF NextDue
  <2>3. rx' = "poll" => ~(dumpCount > 0)
    BY <1>1, <1>2, <1>4, <1>6
  <2>4. QED BY <1>1, <1>2, <1>4, <2>1, <2>2, <2>3 DEF NextDue
<1>9. QED BY <1>1, <1>3, <1>7, <1>8

LEMMA FillKeeps ==
  ASSUME DumpIInv, DumpSoFar, Fill
  PROVE  DumpSoFar'
<1> USE DEF DumpSoFar, Natural
<1>1. Natural BY NaturalHere
<1>2. /\ rx = "fill" /\ rx' = "next" /\ dumpList' = [dumpList EXCEPT ![dumpTail] = Head(burst)]
      /\ UNCHANGED <<dumpHead, dumpTail, dumpCount, polled, burst, taking, printer, asked,
                      stored, printed, firstDue>>
  BY DEF Fill
<1>3. Len(burst) > 0 /\ dumpTail \in Slot BY <1>1, <1>2 DEF BurstFits
<1>4. Head(burst) = firstDue + dumpTail BY <1>1, <1>2, <1>3 DEF NextDue
<1>5. ListHolds' BY <1>1, <1>2, <1>3, <1>4 DEF ListHolds
<1>6. AskedFor' /\ NextDue' /\ PrintedSoFar' BY <1>1, <1>2 DEF AskedFor, NextDue, PrintedSoFar
<1>7. QED BY <1>1, <1>5, <1>6

LEMMA AdvanceKeeps ==
  ASSUME DumpIInv, DumpSoFar, Advance
  PROVE  DumpSoFar'
<1> USE DEF DumpSoFar, Natural
<1>1. Natural BY NaturalHere
<1>2. /\ rx = "next" /\ dumpTail' = dumpTail + 1 /\ burst' = Tail(burst)
      /\ stored' = IF Head(burst) >= firstDue THEN stored + 1 ELSE stored
      /\ rx' = IF burst' = <<>> THEN "done" ELSE "fill"
      /\ UNCHANGED <<dumpList, dumpHead, dumpCount, polled, taking, printer, asked, printed,
                      firstDue>>
  BY DEF Advance
<1>3. Len(burst) > 0 /\ dumpTail \in Slot BY <1>1, <1>2 DEF BurstFits
<1>4. Head(burst) = firstDue + dumpTail BY <1>1, <1>2, <1>3 DEF NextDue
<1>5. Len(burst') = Len(burst) - 1 /\ \A i \in 1 .. Len(burst') : burst'[i] = burst[i + 1]
  BY <1>1, <1>2, <1>3, RestOf
<1>6. stored' = stored + 1 BY <1>1, <1>2, <1>4
<1>7. AskedFor'
  <2>1. dumpCount + dumpTail + Len(burst) = asked + taking /\ taking <= dumpCount
    BY <1>1, <1>2 DEF AskedFor
  <2>2. rx' \in {"fill", "done"} /\ (rx' = "done" => burst' = <<>>) BY <1>1, <1>2
  <2>3. stored' = dumpTail' /\ stored' <= asked
    BY <1>1, <1>2, <1>3, <1>6, <2>1 DEF AskedFor
  <2>4. dumpCount + dumpTail' + Len(burst') = asked + taking
    <3>1. dumpCount \in Nat /\ dumpTail \in Nat /\ Len(burst) \in Nat BY <1>1
    <3>2. dumpTail' = dumpTail + 1 /\ Len(burst') = Len(burst) - 1 BY <1>2, <1>5
    <3>3. QED BY <2>1, <3>1, <3>2
  <2>5. QED BY <1>2, <2>1, <2>2, <2>3, <2>4 DEF AskedFor
<1>8. NextDue'
  <2>1. \A i \in 1 .. Len(burst') : burst'[i] = firstDue + dumpTail' + i - 1
    BY <1>1, <1>2, <1>3, <1>5 DEF NextDue
  <2>2. dumpCount > taking => polled + 1 = firstDue + dumpTail' + Len(burst')
    <3>1. dumpCount > taking => polled + 1 = firstDue + dumpTail + Len(burst) BY <1>2 DEF NextDue
    <3>2. dumpTail \in Nat /\ Len(burst) \in Nat /\ firstDue \in Nat BY <1>1
    <3>3. dumpTail' = dumpTail + 1 /\ Len(burst') = Len(burst) - 1 BY <1>2, <1>5
    <3>4. QED BY <3>1, <3>2, <3>3
  <2>3. rx' # "poll" BY <1>1, <1>2
  <2>4. QED BY <1>1, <1>2, <2>1, <2>2, <2>3 DEF NextDue
<1>9. ListHolds'
  <2>1. rx' # "next" BY <1>1, <1>2
  <2>2. QED BY <1>1, <1>2, <1>3, <2>1 DEF ListHolds
<1>10. PrintedSoFar' BY <1>1, <1>2 DEF PrintedSoFar
<1>11. QED BY <1>1, <1>7, <1>8, <1>9, <1>10

LEMMA TakeOffKeeps ==
  ASSUME DumpIInv, DumpSoFar, TakeOff
  PROVE  DumpSoFar'
<1> USE DEF DumpSoFar, Natural
<1>1. Natural BY NaturalHere
<1>2. /\ rx = "done" /\ rx' = "poll" /\ dumpCount' = (dumpCount + ByteSize - taking) % ByteSize
      /\ UNCHANGED <<dumpList, dumpHead, dumpTail, polled, burst, taking, printer, asked,
                      stored, printed, firstDue>>
  BY DEF TakeOff
<1>3. taking <= dumpCount /\ Len(burst) = 0 BY <1>1, <1>2 DEF AskedFor
<1>4. dumpCount' = dumpCount - taking
  BY <1>1, <1>2, <1>3, ByteMinus
<1>5. AskedFor' BY <1>1, <1>2, <1>3, <1>4 DEF AskedFor
<1>6. NextDue' BY <1>1, <1>2, <1>3, <1>4 DEF NextDue
<1>7. ListHolds' /\ PrintedSoFar' BY <1>1, <1>2 DEF ListHolds, PrintedSoFar
<1>8. QED BY <1>1, <1>5, <1>6, <1>7

LEMMA PrintKeeps ==
  ASSUME DumpIInv, DumpSoFar, DumpPrint
  PROVE  DumpSoFar'
<1> USE DEF DumpSoFar, Natural
<1>1. Natural BY NaturalHere
<1>2. UNCHANGED <<dumpTail, dumpCount, polled, rx, burst, taking, asked, stored, firstDue>>
  BY DEF DumpPrint, PrintOne, FreeOne, PrintNext
<1>3. AskedFor' /\ NextDue' BY <1>1, <1>2 DEF AskedFor, NextDue
<1>4. CASE PrintOne
  <2>1. /\ printer = "idle" /\ printer' = "free" /\ dumpHead < dumpTail
        /\ printed' = Append(printed, dumpList[dumpHead]) /\ UNCHANGED <<dumpHead, dumpList>>
    BY <1>1, <1>4 DEF PrintOne
  <2>2. dumpHead \in Slot /\ dumpList[dumpHead] = firstDue + dumpHead BY <1>1, <2>1 DEF ListHolds
  <2>3. /\ Len(printed') = dumpHead + 1
        /\ \A i \in 1 .. Len(printed') : printed'[i] = firstDue + i - 1
    <3>1. /\ Len(printed') = Len(printed) + 1 /\ Len(printed) = dumpHead
          /\ \A i \in 1 .. Len(printed) : printed'[i] = printed[i]
          /\ printed'[dumpHead + 1] = firstDue + dumpHead
      BY <1>1, <2>1, <2>2 DEF PrintedSoFar
    <3>2. \A i \in 1 .. Len(printed') : i \in 1 .. Len(printed) \/ i = dumpHead + 1 BY <1>1, <3>1
    <3>3. \A i \in 1 .. Len(printed') : printed'[i] = firstDue + i - 1
      <4>1. ASSUME NEW i \in 1 .. Len(printed) PROVE printed'[i] = firstDue + i - 1
        <5>1. printed[i] = firstDue + i - 1 BY DEF PrintedSoFar
        <5>2. QED BY <3>1, <5>1
      <4>2. dumpHead + 1 - 1 = dumpHead BY <1>1
      <4>3. firstDue + dumpHead = firstDue + (dumpHead + 1) - 1 BY <1>1
      <4>4. QED BY <3>1, <3>2, <4>1, <4>3
    <3>4. QED BY <1>1, <3>1, <3>3
  <2>4. PrintedSoFar' BY <1>1, <1>2, <2>1, <2>3 DEF PrintedSoFar
  <2>5. ListHolds' BY <1>1, <1>2, <2>1 DEF ListHolds
  <2>6. QED BY <1>1, <1>3, <2>4, <2>5
<1>5. CASE FreeOne
  <2>1. /\ printer = "free" /\ printer' = "next"
        /\ dumpList' = [dumpList EXCEPT ![dumpHead] = NoData] /\ UNCHANGED <<dumpHead, printed>>
    BY <1>1, <1>5 DEF FreeOne
  <2>2. PrintedSoFar' BY <1>1, <1>2, <2>1 DEF PrintedSoFar
  <2>3. dumpHead < dumpTail BY <1>1, <2>1 DEF PrintedSoFar
  <2>4. ListHolds' BY <1>1, <1>2, <2>1, <2>3 DEF ListHolds, BurstFits
  <2>5. QED BY <1>1, <1>3, <2>2, <2>4
<1>6. CASE PrintNext
  <2>1. /\ printer = "next" /\ printer' = "idle" /\ dumpHead' = dumpHead + 1
        /\ UNCHANGED <<dumpList, printed>>
    BY <1>1, <1>6 DEF PrintNext, MoveOn
  <2>2. PrintedSoFar' BY <1>1, <1>2, <2>1 DEF PrintedSoFar
  <2>3. ListHolds' BY <1>1, <1>2, <2>1 DEF ListHolds
  <2>4. QED BY <1>1, <1>3, <2>2, <2>3
<1>7. QED BY <1>1, <1>4, <1>5, <1>6 DEF DumpPrint

\* A command that finds the others at rest starts a dump afresh.
LEMMA CommandKeeps ==
  ASSUME DumpIInv, DumpGood, DumpCommand, ~crossed'
  PROVE  CommandQuiet' /\ (setter' = "idle" => DumpSoFar')
<1> USE DumpAssumption DEF DumpAssumption, DumpIInv, DumpTypeOK
<1>1. ASSUME NEW n \in DumpAsks, AskDump(n) PROVE CommandQuiet' /\ setter' # "idle"
  <2>1. ~Busy BY <1>1, Zenon DEF AskDump
  <2>2. QED BY <1>1, <2>1 DEF AskDump, Busy, CommandQuiet
<1>2. ASSUME ResetTail PROVE CommandQuiet' /\ setter' # "idle"
  <2>1. ~Busy /\ ~crossed BY <1>2, Zenon DEF ResetTail
  <2>2. QED BY <1>2, <2>1 DEF ResetTail, Busy, DumpGood, CommandQuiet
<1>3. ASSUME ResetHead PROVE CommandQuiet' /\ setter' # "idle"
  <2>1. ~Busy /\ ~crossed BY <1>3, Zenon DEF ResetHead
  <2>2. QED BY <1>3, <2>1 DEF ResetHead, Busy, DumpGood, CommandQuiet
<1>4. ASSUME ArmDump PROVE CommandQuiet' /\ DumpSoFar'
  <2>1. ~Busy /\ ~crossed BY <1>4, Zenon DEF ArmDump
  <2>2. /\ rx = "poll" /\ printer = "idle" /\ dumpTail = 0 /\ dumpHead = 0
    BY <1>4, <2>1 DEF ArmDump, Busy, DumpGood, CommandQuiet
  <2>3. /\ setter' = "idle" /\ dumpCount' = asking /\ asked' = asking /\ stored' = 0
        /\ printed' = <<>> /\ firstDue' = polled + 1
        /\ UNCHANGED <<dumpHead, dumpTail, polled, rx, printer>>
    BY <1>4 DEF ArmDump
  <2>4. CommandQuiet' BY <2>3 DEF CommandQuiet
  <2>5. DumpSoFar'
    BY <2>2, <2>3 DEF DumpSoFar, AskedFor, NextDue, ListHolds, PrintedSoFar
  <2>6. QED BY <2>4, <2>5
<1>5. QED BY <1>1, <1>2, <1>3, <1>4 DEF DumpCommand

\* One step of any of the three.
LEMMA DumpGoodStep ==
  ASSUME DumpIInv, DumpGood, DumpNext, ~crossed'
  PROVE  CommandQuiet' /\ (setter' = "idle" => DumpSoFar')
<1>1. CASE DumpReceive \/ DumpPrint
  <2>1. ~crossed /\ UNCHANGED setter
    <3>1. UNCHANGED crossed
      <4>1. DumpReceive => UNCHANGED crossed
        BY Zenon DEF DumpReceive, Poll, Take, Fit, Fill, Advance, TakeOff
      <4>2. DumpPrint => UNCHANGED crossed BY Zenon DEF DumpPrint, PrintOne, FreeOne, PrintNext
      <4>3. QED BY <1>1, <4>1, <4>2
    <3>2. UNCHANGED setter
      BY <1>1 DEF DumpReceive, DumpPrint, Poll, Take, Fit, Fill, Advance, TakeOff, PrintOne, FreeOne,
         PrintNext
    <3>3. QED BY <3>1, <3>2
  <2>2. CommandQuiet BY <2>1 DEF DumpGood
  <2>3. CommandQuiet'
    <3>1. CASE setter = "idle" BY <2>1, <3>1 DEF CommandQuiet
    <3>2. CASE setter # "idle"
      <4>1. rx = "poll" /\ dumpCount = 0 BY <2>2, <3>2 DEF CommandQuiet
      <4>2. rx' = "poll" /\ dumpCount' = 0 /\ UNCHANGED dumpTail
        BY <1>1, <4>1 DEF DumpReceive, DumpPrint, Poll, Take, Fit, Fill, Advance, TakeOff, PrintOne,
           FreeOne, PrintNext
      <4>3. setter \in {"tail", "head"} => UNCHANGED <<printer, dumpHead>>
        BY <1>1, <2>2, <4>1 DEF DumpReceive, DumpPrint, Poll, Take, Fit, Fill, Advance, TakeOff, PrintOne,
           FreeOne, PrintNext, CommandQuiet, DumpIInv, DumpTypeOK
      <4>4. QED BY <2>1, <2>2, <4>2, <4>3 DEF CommandQuiet
    <3>3. QED BY <3>1, <3>2
  <2>4. ASSUME setter = "idle" PROVE DumpSoFar'
    <3>1. DumpSoFar BY <2>1, <2>4 DEF DumpGood
    <3>2. QED
      BY <1>1, <3>1, PollKeeps, TakeKeeps, FitKeeps, FillKeeps, AdvanceKeeps, TakeOffKeeps, PrintKeeps
      DEF DumpReceive
  <2>5. QED BY <2>1, <2>3, <2>4
<1>2. CASE DumpCommand BY <1>2, CommandKeeps
<1>3. QED BY <1>1, <1>2 DEF DumpNext

\* The invariant that makes a dump faithful.
LEMMA DumpGoodInvariant == DumpSpec => []DumpGood
<1>1. DumpInit => DumpGood
  BY DEF DumpInit, DumpGood, CommandQuiet, DumpSoFar, AskedFor, NextDue, ListHolds, PrintedSoFar
<1>2. DumpIInv /\ DumpGood /\ [DumpNext]_packetDumpVars => DumpGood'
  <2> SUFFICES ASSUME DumpIInv, DumpGood, [DumpNext]_packetDumpVars PROVE DumpGood' OBVIOUS
  <2>1. CASE DumpNext BY <2>1, DumpGoodStep DEF DumpGood
  <2>2. CASE UNCHANGED packetDumpVars
    BY <2>2, Zenon DEF packetDumpVars, DumpGood, CommandQuiet, DumpSoFar, AskedFor, NextDue,
       ListHolds, PrintedSoFar
  <2>3. QED BY <2>1, <2>2
<1>3. QED BY <1>1, <1>2, DumpInvariant, PTL DEF DumpSpec

\* A dump command that found the receive thread and the printer at rest gets the
\* first packets that arrive after it, each once and in order, and no more than it
\* asked for (pktgen_packet_dump_bulk, pktgen_print_packet_dump, debug_set_port_dump).
THEOREM DumpGivesWhatWasAsked == DumpSpec => []DumpFaithful
<1>1. DumpIInv /\ DumpGood => DumpFaithful
  <2> SUFFICES ASSUME DumpIInv, DumpGood, ~crossed, setter = "idle"
               PROVE  /\ printed = [i \in 1 .. Len(printed) |-> firstDue + i - 1]
                      /\ Len(printed) <= stored /\ stored <= asked
    BY DEF DumpFaithful
  <2>1. DumpSoFar BY DEF DumpGood
  <2>2. printed \in Seq(0 .. MaxDumpPkts) BY DEF DumpIInv, DumpTypeOK
  <2>3. QED BY <2>1, <2>2 DEF DumpSoFar, AskedFor, PrintedSoFar
<1>2. QED BY <1>1, DumpInvariant, DumpGoodInvariant, PTL

-----------------------------------------------------------------------------
(* The capture.                                                            *)

AtWork(p) == lcore[p] \notin {"poll", "port"}

(* A lcore that is writing a record has one, and never more than a burst.    *)
HasRecord ==
  \A p \in CapturePorts :
    /\ lcore[p] \in {"write", "advance", "count"} => Len(inHand[p]) > 0
    /\ Len(inHand[p]) <= CaptureBurst

(* Until the tail is moved back at the end of a command, the buffer is that  *)
(* of one port.                                                              *)
Live == ~torn /\ capPort # NoPort /\ user \in {"flag", "idle", "dump", "lost", "dead"}

OneAppender == \A p \in CapturePorts : AtWork(p) => p = capPort

(* Where the records of the buffer start, and where the next one will.       *)
Laid(off) ==
  /\ off \in [0 .. Len(kept) -> Units] /\ off[0] = 0
  /\ \A i \in 1 .. Len(kept) :
       /\ off[i] = off[i - 1] + kept[i][2] /\ memory[off[i - 1]] = kept[i]
       /\ off[i - 1] < off[Len(kept)]

HandAt(here) ==
  /\ capTail = IF lcore[capPort] = "count" THEN here + Head(inHand[capPort])[2] ELSE here
  /\ lcore[capPort] \in {"write", "advance", "count"} =>
       here + Head(inHand[capPort])[2] <= CaptureEnd
  /\ lcore[capPort] \in {"advance", "count"} => memory[here] = Head(inHand[capPort])

Recorded ==
  /\ capCount = Len(kept)
  /\ \E off \in [0 .. Len(kept) -> Units] :
       /\ Laid(off) /\ HandAt(off[Len(kept)])
       /\ user = "dump" => Len(file) <= Len(kept) /\ at = off[Len(file)]

(* cap->used is zero until the first burst is complete, and only that long.  *)
FirstBurst ==
  capUsed = 0 =>
    IF AtWork(capPort) THEN Len(kept) + Len(inHand[capPort]) <= CaptureBurst ELSE kept = <<>>

DiedInFirst ==
  user = "dead" /\ ~torn => capUsed = 0 /\ kept # <<>>

Owned ==
  /\ user \in {"dump", "reset", "release", "dead"} => capPort # NoPort
  /\ user = "clear" => capPort = NoPort

Written ==
  user \in {"dump", "reset", "release", "clear"} /\ ~torn =>
    /\ Len(file) <= Len(kept) /\ \A i \in 1 .. Len(file) : file[i] = kept[i]
    /\ user = "dump" => keptAtDump <= Len(kept)
    /\ user = "reset" => keptAtDump <= Len(file)

CaptureIInv ==
  /\ CaptureTypeOK /\ HasRecord /\ Owned /\ Written /\ DiedInFirst
  /\ Live => OneAppender /\ Recorded /\ FirstBurst

USE DEF bufferVars, lcoreVars, userVars, keptVars, LcoreTo, UserTo

\* A record is not the zero that ends the buffer, and takes room.
LEMMA RecordIs ==
  ASSUME NEW r \in Records
  PROVE  r # Zero /\ r[2] \in Nat \ {0}
<1>1. r[2] \in Nat \ {0} BY CaptureAssumption DEF CaptureAssumption, Records
<1>2. r # Zero BY SMTT(30) DEF Records, Zero
<1>3. QED BY <1>1, <1>2

\* The record in hand and the rest of the burst.
LEMMA Heads ==
  ASSUME CaptureTypeOK, NEW p \in CapturePorts, Len(inHand[p]) > 0
  PROVE  /\ Head(inHand[p]) \in Records /\ Tail(inHand[p]) \in Seq(Records)
         /\ Head(inHand[p])[2] \in Nat \ {0}
<1>1. inHand[p] \in Seq(Records) BY DEF CaptureTypeOK
<1>2. Head(inHand[p]) \in Records /\ Tail(inHand[p]) \in Seq(Records) BY <1>1
<1>3. QED BY <1>2, RecordIs

\* The receive threads keep the type.
LEMMA TypeOfLcore ==
  ASSUME CaptureTypeOK, HasRecord, NEW p \in CapturePorts, CaptureLcore(p)
  PROVE  CaptureTypeOK' /\ HasRecord'
<1> USE CaptureAssumption DEF CaptureAssumption, CaptureTypeOK, HasRecord
<1>1. torn' \in BOOLEAN
  BY Zenon DEF CaptureLcore, TestFlag, TestPort, TestRoom, WriteRecord, AdvanceTail, CountRecord, Seal
<1>2. CASE TestFlag(p)
  <2>1. PICK n \in 1 .. CaptureBurst : \E size \in [1 .. n -> Sizes] :
          /\ arrived + n <= MaxCaptured /\ arrived' = arrived + n
          /\ inHand' = [inHand EXCEPT ![p] = [i \in 1 .. n |-> <<arrived + i, size[i]>>]]
    BY <1>2 DEF TestFlag
  <2>2. PICK size \in [1 .. n -> Sizes] :
          inHand' = [inHand EXCEPT ![p] = [i \in 1 .. n |-> <<arrived + i, size[i]>>]]
    BY <2>1
  <2>3. [i \in 1 .. n |-> <<arrived + i, size[i]>>] \in Seq(Records) BY <2>1, <2>2 DEF Records
  <2>4. inHand' \in [CapturePorts -> Seq(Records)] BY <2>2, <2>3
  <2>5. \A q \in CapturePorts : q # p => inHand'[q] = inHand[q] /\ lcore'[q] = lcore[q]
    BY <1>2, <2>2 DEF TestFlag
  <2>6. lcore'[p] = "port" BY <1>2 DEF TestFlag
  <2>7. Len(inHand'[p]) = n /\ n <= CaptureBurst BY <2>2
  <2>8. HasRecord' BY <2>5, <2>6, <2>7
  <2>9. arrived' \in 0 .. MaxCaptured BY <2>1
  <2>10. QED BY <1>1, <1>2, <2>4, <2>8, <2>9 DEF TestFlag
<1>3. CASE TestPort(p) BY <1>1, <1>3 DEF TestPort
<1>4. CASE TestRoom(p) BY <1>1, <1>4 DEF TestRoom
<1>5. CASE WriteRecord(p)
  <2>1. Head(inHand[p]) \in Records BY <1>5, Heads DEF WriteRecord
  <2>2. memory' \in [Units -> Records \union {Zero, Inside}] BY <1>5, <2>1 DEF WriteRecord
  <2>3. QED BY <1>1, <1>5, <2>2 DEF WriteRecord
<1>6. CASE AdvanceTail(p)
  <2>1. Head(inHand[p])[2] \in Nat BY <1>6, Heads DEF AdvanceTail
  <2>2. QED BY <1>1, <1>6, <2>1 DEF AdvanceTail
<1>7. CASE CountRecord(p)
  <2>1. Head(inHand[p]) \in Records /\ Tail(inHand[p]) \in Seq(Records)
    BY <1>7, Heads DEF CountRecord
  <2>2. kept' \in Seq(Records) /\ inHand' \in [CapturePorts -> Seq(Records)]
    BY <1>7, <2>1 DEF CountRecord
  <2>3. HasRecord' BY <1>7 DEF CountRecord
  <2>4. QED BY <1>1, <1>7, <2>2, <2>3 DEF CountRecord
<1>8. CASE Seal(p)
  <2>1. memory' \in [Units -> Records \union {Zero, Inside}] BY <1>8 DEF Seal
  <2>2. inHand' \in [CapturePorts -> Seq(Records)] BY <1>8 DEF Seal
  <2>3. HasRecord' BY <1>8 DEF Seal
  <2>4. QED BY <1>1, <1>8, <2>1, <2>2, <2>3 DEF Seal
<1>9. QED BY <1>2, <1>3, <1>4, <1>5, <1>6, <1>7, <1>8 DEF CaptureLcore

\* The command thread keeps the type.
LEMMA TypeOfUser ==
  ASSUME CaptureTypeOK, HasRecord, CaptureUser
  PROVE  CaptureTypeOK' /\ HasRecord'
<1> USE CaptureAssumption DEF CaptureAssumption, CaptureTypeOK, HasRecord
<1>1. torn' \in BOOLEAN
  BY Zenon DEF CaptureUser, EnableCapture, DisableCapture, PrepareBuffer, SetFlag, DumpRecord,
     EndDump, ResetBuffer, ReleaseBuffer, ClearFlag, GiveUp, Appending
<1>2. ASSUME NEW p \in CapturePorts, EnableCapture(p) PROVE CaptureTypeOK' /\ HasRecord'
  BY <1>1, <1>2 DEF EnableCapture
<1>3. ASSUME NEW p \in CapturePorts, DisableCapture(p) PROVE CaptureTypeOK' /\ HasRecord'
  BY <1>1, <1>3 DEF DisableCapture
<1>4. CASE PrepareBuffer
  <2>1. memory' \in [Units -> Records \union {Zero, Inside}] BY <1>4 DEF PrepareBuffer
  <2>2. file' \in Seq(Records \union {Inside}) /\ kept' \in Seq(Records) BY <1>4 DEF PrepareBuffer
  <2>3. QED BY <1>1, <1>4, <2>1, <2>2 DEF PrepareBuffer, ZeroCount
<1>5. CASE SetFlag BY <1>1, <1>5 DEF SetFlag
<1>6. CASE DumpRecord
  <2>1. memory[at] \in Records \union {Inside} BY <1>6 DEF DumpRecord, RecordAhead
  <2>2. memory[at][2] \in Nat BY <2>1, RecordIs DEF Inside
  <2>3. file' \in Seq(Records \union {Inside}) /\ at' \in Nat BY <1>6, <2>1, <2>2 DEF DumpRecord
  <2>4. QED BY <1>1, <1>6, <2>3 DEF DumpRecord
<1>7. CASE EndDump BY <1>1, <1>7 DEF EndDump
<1>8. CASE ResetBuffer BY <1>1, <1>8 DEF ResetBuffer
<1>9. CASE ReleaseBuffer BY <1>1, <1>9 DEF ReleaseBuffer
<1>10. CASE ClearFlag BY <1>1, <1>10 DEF ClearFlag
<1>11. CASE GiveUp BY <1>1, <1>11 DEF GiveUp
<1>12. QED BY <1>2, <1>3, <1>4, <1>5, <1>6, <1>7, <1>8, <1>9, <1>10, <1>11 DEF CaptureUser

\* The records lie where they did if nothing was written before the end.
LEMMA StillLaid ==
  ASSUME NEW off, Laid(off), Len(kept) \in Nat, UNCHANGED kept,
         \A u \in Units : u < off[Len(kept)] => memory'[u] = memory[u]
  PROVE  Laid(off)'
<1>1. ASSUME NEW i \in 1 .. Len(kept) PROVE memory'[off[i - 1]] = kept[i]
  <2>1. off[i - 1] \in Units /\ off[i - 1] < off[Len(kept)] BY DEF Laid
  <2>2. QED BY <2>1 DEF Laid
<1>2. QED BY <1>1 DEF Laid

\* A receive thread that alone appends lays its record behind the others.
LEMMA LcoreKeepsBuffer ==
  ASSUME CaptureIInv, Live, NEW p \in CapturePorts, CaptureLcore(p)
  PROVE  OneAppender' /\ Recorded'
<1> USE DEF AtWork
<1>1. /\ capPort \in CapturePorts /\ capPort' = capPort /\ UNCHANGED <<user, file, at>>
  BY DEF CaptureIInv, CaptureTypeOK, Live, CaptureLcore, TestFlag, TestPort, TestRoom,
     WriteRecord, AdvanceTail, CountRecord, Seal
<1>2. OneAppender'
  <2>1. AtWork(p)' => p = capPort
    BY DEF CaptureIInv, CaptureTypeOK, OneAppender, CaptureLcore, TestFlag, TestPort, TestRoom,
       WriteRecord, AdvanceTail, CountRecord, Seal
  <2>2. \A q \in CapturePorts : q # p => lcore'[q] = lcore[q]
    BY DEF CaptureIInv, CaptureTypeOK, CaptureLcore, TestFlag, TestPort, TestRoom,
       WriteRecord, AdvanceTail, CountRecord, Seal
  <2>3. QED BY <1>1, <2>1, <2>2 DEF CaptureIInv, OneAppender
<1>3. PICK off \in [0 .. Len(kept) -> Units] :
        /\ Laid(off) /\ HandAt(off[Len(kept)])
        /\ user = "dump" => Len(file) <= Len(kept) /\ at = off[Len(file)]
  BY DEF CaptureIInv, Recorded
<1>4. PICK here \in Units : here = off[Len(kept)]
  <2>1. Len(kept) \in Nat BY DEF CaptureIInv, CaptureTypeOK
  <2>2. QED BY <1>3, <2>1
<1>5. /\ capCount = Len(kept) /\ Len(kept) \in Nat /\ here \in Nat /\ CaptureEnd \in Nat
      /\ DOMAIN lcore = CapturePorts /\ inHand \in [CapturePorts -> Seq(Records)]
      /\ memory \in [Units -> Records \union {Zero, Inside}]
      /\ Len(file) \in Nat
  <2>1. CaptureEnd \in Nat BY CaptureAssumption DEF CaptureAssumption
  <2>2. capCount = Len(kept) BY DEF CaptureIInv, Recorded
  <2>3. QED BY <1>4, <2>1, <2>2 DEF CaptureIInv, CaptureTypeOK, Units
<1>6. ASSUME UNCHANGED <<memory, capTail, capCount, kept>>, HandAt(here)' PROVE Recorded'
  <2>1. Laid(off)' BY <1>3, <1>6 DEF Laid
  <2>2. QED BY <1>1, <1>3, <1>4, <1>5, <1>6, <2>1 DEF Recorded
<1>7. CASE TestFlag(p) \/ TestPort(p) \/ TestRoom(p)
  <2>1. UNCHANGED <<memory, capTail, capCount, kept>> BY <1>7 DEF TestFlag, TestPort, TestRoom
  <2>2. ASSUME p # capPort PROVE HandAt(here)'
    <3>1. lcore'[capPort] = lcore[capPort] /\ inHand'[capPort] = inHand[capPort]
      BY <1>5, <1>1, <1>7, <2>2 DEF TestFlag, TestPort, TestRoom
    <3>2. QED BY <1>1, <1>3, <1>4, <2>1, <3>1 DEF HandAt
  <2>3. ASSUME p = capPort PROVE HandAt(here)'
    <3>1. lcore[p] \in {"poll", "port", "room"} /\ lcore'[p] \in {"port", "poll", "room", "write", "seal"}
      BY <1>5, <1>7 DEF TestFlag, TestPort, TestRoom
    <3>2. capTail = here BY <1>3, <1>4, <2>3, <3>1 DEF HandAt
    <3>3. lcore'[p] = "write" => UNCHANGED inHand /\ capTail + Head(inHand[p])[2] <= CaptureEnd
      BY <1>5, <1>7 DEF TestFlag, TestPort, TestRoom, RecordFits
    <3>4. QED BY <1>1, <2>1, <2>3, <3>1, <3>2, <3>3 DEF HandAt
  <2>4. QED BY <1>2, <1>6, <2>1, <2>2, <2>3
<1>8. ASSUME lcore[p] \in {"write", "advance", "count"}
      PROVE  /\ p = capPort /\ Len(inHand[p]) > 0
             /\ Head(inHand[p]) \in Records /\ Head(inHand[p])[2] \in Nat \ {0}
  <2>1. p = capPort /\ Len(inHand[p]) > 0 BY <1>8 DEF CaptureIInv, OneAppender, HasRecord
  <2>2. QED BY <2>1, Heads DEF CaptureIInv
<1>9. CASE WriteRecord(p)
  <2>1. lcore[p] = "write" BY <1>9 DEF WriteRecord
  <2>2. /\ lcore[p] = "write" /\ lcore'[p] = "advance" /\ capTail = here
        /\ UNCHANGED <<capTail, capCount, kept, inHand>>
    BY <1>3, <1>4, <1>5, <1>8, <2>1, <1>9 DEF WriteRecord, HandAt
  <2>3. memory'[here] = Head(inHand[p]) /\ \A u \in Units : u < here => memory'[u] = memory[u]
    BY <1>4, <1>5, <1>9, <2>2 DEF WriteRecord, Units
  <2>4. Laid(off)' BY <1>3, <1>4, <1>5, <2>2, <2>3, StillLaid
  <2>5. HandAt(here)' BY <1>1, <1>3, <1>4, <1>8, <2>1, <1>9, <2>2, <2>3 DEF HandAt
  <2>6. QED BY <1>1, <1>2, <1>3, <1>4, <1>5, <2>2, <2>4, <2>5 DEF Recorded
<1>10. CASE AdvanceTail(p)
  <2>1. lcore[p] = "advance" BY <1>10 DEF AdvanceTail
  <2>2. /\ lcore[p] = "advance" /\ lcore'[p] = "count" /\ capTail = here
        /\ capTail' = here + Head(inHand[p])[2] /\ UNCHANGED <<memory, capCount, kept, inHand>>
    BY <1>3, <1>4, <1>5, <1>8, <2>1, <1>10 DEF AdvanceTail, HandAt
  <2>3. Laid(off)' BY <1>3, <2>2 DEF Laid
  <2>4. HandAt(here)' BY <1>1, <1>3, <1>4, <1>8, <2>1, <1>10, <2>2 DEF HandAt
  <2>5. QED BY <1>1, <1>2, <1>3, <1>4, <1>5, <2>2, <2>3, <2>4 DEF Recorded
<1>11. CASE Seal(p)
  <2>1. p = capPort BY <1>11 DEF Seal, CaptureIInv, OneAppender
  <2>2. /\ lcore[p] = "seal" /\ lcore'[p] = "poll" /\ capTail = here
        /\ UNCHANGED <<capTail, capCount, kept>>
        /\ memory' = [u \in Units |-> IF u = capTail THEN Zero ELSE memory[u]]
    BY <1>3, <1>4, <1>5, <1>11, <2>1 DEF Seal, HandAt
  <2>3. \A u \in Units : u < here => memory'[u] = memory[u]
    BY <1>4, <1>5, <2>2 DEF Units
  <2>4. Laid(off)' BY <1>3, <1>4, <1>5, <2>2, <2>3, StillLaid
  <2>5. HandAt(here)' BY <1>1, <1>11, <2>1, <2>2 DEF HandAt
  <2>6. QED BY <1>1, <1>2, <1>3, <1>4, <1>5, <2>2, <2>4, <2>5 DEF Recorded
<1>12. CASE CountRecord(p)
  <2>1. lcore[p] = "count" BY <1>12 DEF CountRecord
  <2>2. /\ lcore[p] = "count" /\ lcore'[p] = "room"
        /\ capTail = here + Head(inHand[p])[2] /\ capTail <= CaptureEnd
        /\ memory[here] = Head(inHand[p])
        /\ UNCHANGED <<capTail, memory>> /\ capCount' = capCount + 1
        /\ kept' = Append(kept, Head(inHand[p]))
    BY <1>3, <1>4, <1>5, <1>8, <2>1, <1>12 DEF CountRecord, HandAt
  <2>3. /\ Len(kept') = Len(kept) + 1 /\ kept'[Len(kept) + 1] = Head(inHand[p])
        /\ \A i \in 1 .. Len(kept) : kept'[i] = kept[i]
    BY <1>5, <1>8, <2>1, <1>12, <2>2 DEF CaptureIInv, CaptureTypeOK
  <2>4. PICK end \in Units : end = capTail /\ here < end
    BY <1>5, <1>8, <2>1, <1>12, <2>2 DEF Units
  <2>5. PICK longer \in [0 .. Len(kept) + 1 -> Units] :
          longer = [i \in 0 .. Len(kept) + 1 |-> IF i <= Len(kept) THEN off[i] ELSE end]
    <3>1. \A i \in 0 .. Len(kept) : off[i] \in Units BY <1>3
    <3>2. \A i \in 0 .. Len(kept) + 1 : i <= Len(kept) => i \in 0 .. Len(kept) BY <1>5
    <3>3. QED BY <2>4, <3>1, <3>2
  <2>6. Laid(longer)'
    <3>1. ASSUME NEW i \in 1 .. Len(kept) + 1
          PROVE  /\ longer[i] = longer[i - 1] + kept'[i][2] /\ memory[longer[i - 1]] = kept'[i]
                 /\ longer[i - 1] < end
      <4>1. CASE i \in 1 .. Len(kept)
        <5>1. longer[i] = off[i] /\ longer[i - 1] = off[i - 1] BY <1>5, <2>5, <4>1
        <5>2. off[i - 1] < here BY <1>3, <1>4, <4>1 DEF Laid
        <5>3. off[i - 1] \in Nat
          <6>1. i - 1 \in 0 .. Len(kept) BY <1>5, <4>1
          <6>2. off[i - 1] \in Units BY <1>3, <6>1
          <6>3. QED BY <1>5, <6>2 DEF Units
        <5>4. off[i] = off[i - 1] + kept[i][2] /\ memory[off[i - 1]] = kept[i]
          BY <1>3, <4>1 DEF Laid
        <5>5. kept'[i] = kept[i] BY <2>3, <4>1
        <5>6. longer[i - 1] < end
          <6>1. here \in Nat /\ end \in Nat BY <1>5, <2>4 DEF Units
          <6>2. QED BY <2>4, <5>1, <5>2, <5>3, <6>1
        <5>7. QED BY <5>1, <5>4, <5>5, <5>6
      <4>2. CASE i = Len(kept) + 1
        <5>1. longer[i] = end /\ longer[i - 1] = here BY <1>4, <1>5, <2>3, <2>5, <4>2
        <5>2. QED BY <2>2, <2>3, <2>4, <4>2, <5>1
      <4>3. QED BY <1>5, <2>3, <4>1, <4>2
    <3>2. longer[0] = 0 BY <1>3, <1>5, <2>3, <2>5 DEF Laid
    <3>3. longer[Len(kept) + 1] = end BY <1>5, <2>5
    <3>4. UNCHANGED memory /\ Len(kept') = Len(kept) + 1 BY <2>2, <2>3
    <3>5. QED BY <2>5, <3>1, <3>2, <3>3, <3>4 DEF Laid
  <2>7. longer[Len(kept')] = end BY <1>5, <2>3, <2>5
  <2>8. HandAt(end)' BY <1>1, <1>8, <2>1, <1>12, <2>2, <2>4 DEF HandAt
  <2>9. user' = "dump" => Len(file') <= Len(kept') /\ at' = longer[Len(file')]
    BY <1>1, <1>3, <1>5, <2>3, <2>5
  <2>10. HandAt(longer[Len(kept)])' BY <2>7, <2>8
  <2>11. capCount' = Len(kept') BY <1>5, <2>2, <2>3
  <2>12. longer \in [0 .. Len(kept') -> Units] BY <2>3, <2>5
  <2>13. QED BY <1>2, <2>6, <2>9, <2>10, <2>11, <2>12 DEF Recorded
<1>13. QED BY <1>7, <1>9, <1>10, <1>11, <1>12 DEF CaptureLcore

USE DEF AtWork

(* The command thread.  Only PrepareBuffer makes a buffer live. *)
\* The command thread walks the records from the first.
LEMMA UserKeepsBuffer ==
  ASSUME CaptureIInv, CaptureUser, Live'
  PROVE  OneAppender' /\ Recorded'
<1>1. /\ Len(kept) \in Nat /\ Len(file) \in Nat /\ CaptureEnd \in Nat \ {0}
      /\ lcore \in [CapturePorts -> {"poll", "port", "room", "write", "advance", "count", "seal"}]
      /\ memory \in [Units -> Records \union {Zero, Inside}]
      /\ capPort \in CapturePorts \union {NoPort}
  BY CaptureAssumption DEF CaptureAssumption, CaptureIInv, CaptureTypeOK
<1>2. CASE PrepareBuffer
  <2>1. ~Appending /\ kept' = <<>> /\ capTail' = 0 /\ capCount' = 0 /\ UNCHANGED lcore /\ user' = "flag"
    BY <1>2 DEF PrepareBuffer, ZeroCount, Live
  <2>2. capPort' \in CapturePorts BY <1>1, <1>2 DEF PrepareBuffer, Live
  <2>3. OneAppender' BY <2>1 DEF OneAppender, Appending
  <2>4. PICK off \in [{0} -> Units] : off[0] = 0
    <3>1. 0 \in Units BY <1>1 DEF Units
    <3>2. [i \in {0} |-> 0] \in [{0} -> Units] BY <3>1
    <3>3. QED BY <3>2
  <2>5. Len(kept') = 0 /\ 0 .. 0 = {0} /\ 1 .. 0 = {} BY <2>1
  <2>6. Laid(off)' BY <2>4, <2>5 DEF Laid
  <2>7. lcore'[capPort'] \in {"poll", "port"} BY <2>1, <2>2 DEF Appending
  <2>8. HandAt(0)' BY <2>1, <2>7 DEF HandAt
  <2>9. QED BY <2>1, <2>3, <2>4, <2>5, <2>6, <2>8 DEF Recorded
<1>3. ASSUME ~PrepareBuffer
      PROVE  /\ Live /\ OneAppender /\ Recorded
             /\ UNCHANGED <<memory, capTail, capCount, capPort, lcore, inHand, kept>>
  <2>1. Live /\ UNCHANGED <<memory, capTail, capCount, capPort, lcore, inHand, kept>>
    BY <1>3 DEF CaptureUser, EnableCapture, DisableCapture, SetFlag, DumpRecord,
       EndDump, ResetBuffer, ReleaseBuffer, ClearFlag, GiveUp, Live, CaptureIInv, Owned
  <2>2. QED BY <2>1 DEF CaptureIInv
<1>4. CASE ~PrepareBuffer
  <2>1. PICK off \in [0 .. Len(kept) -> Units] :
          /\ Laid(off) /\ HandAt(off[Len(kept)])
          /\ user = "dump" => Len(file) <= Len(kept) /\ at = off[Len(file)]
    BY <1>3, <1>4 DEF Recorded
  <2>2. OneAppender' BY <1>3, <1>4 DEF OneAppender
  <2>3. Laid(off)' BY <1>3, <1>4, <2>1 DEF Laid
  <2>4. HandAt(off[Len(kept)])' BY <1>3, <1>4, <2>1 DEF HandAt
  <2>5. user' = "dump" => Len(file') <= Len(kept) /\ at' = off[Len(file')]
    <3>1. CASE DumpRecord
      <4>1. user = "dump" /\ Len(file) + 1 <= Len(kept) /\ Len(file') = Len(file) + 1
            /\ at' = at + memory[at][2]
        BY <1>1, <1>3, <1>4, <3>1 DEF DumpRecord, MoreRecords, Recorded, CaptureIInv, CaptureTypeOK
      <4>2. PICK i \in 1 .. Len(kept) : i = Len(file) + 1 BY <1>1, <4>1
      <4>3. i - 1 = Len(file) BY <1>1, <4>2
      <4>4. memory[at] = kept[i] /\ off[i] = at + kept[i][2] BY <2>1, <4>1, <4>3 DEF Laid
      <4>5. QED BY <1>1, <4>1, <4>2, <4>4
    <3>2. CASE \E q \in CapturePorts : DisableCapture(q)
      <4>1. at' = 0 /\ Len(file') = 0 BY <3>2 DEF DisableCapture
      <4>2. QED BY <1>1, <2>1, <4>1 DEF Laid
    <3>3. CASE ~DumpRecord /\ ~\E q \in CapturePorts : DisableCapture(q)
      BY <1>4, <3>3, <2>1 DEF CaptureUser, EnableCapture, SetFlag,
         EndDump, ResetBuffer, ReleaseBuffer, ClearFlag, GiveUp
    <3>4. QED BY <3>1, <3>2, <3>3
  <2>6. QED BY <1>3, <1>4, <2>1, <2>2, <2>3, <2>4, <2>5 DEF Recorded
<1>5. QED BY <1>2, <1>4

\* A receive thread completes the first burst, or is in it.
LEMMA LcoreInFirst ==
  ASSUME CaptureIInv, Live, NEW p \in CapturePorts, CaptureLcore(p)
  PROVE  FirstBurst'
<1>1. /\ capPort \in CapturePorts /\ capPort' = capPort /\ DOMAIN lcore = CapturePorts
      /\ inHand \in [CapturePorts -> Seq(Records)] /\ kept \in Seq(Records)
      /\ CaptureBurst \in Nat
  BY CaptureAssumption DEF CaptureAssumption, CaptureIInv, CaptureTypeOK, Live, CaptureLcore,
     TestFlag, TestPort, TestRoom, WriteRecord, AdvanceTail, CountRecord, Seal
<1>2. FirstBurst /\ OneAppender /\ Recorded BY DEF CaptureIInv
<1>3. CASE TestFlag(p)
  <2>1. UNCHANGED <<capUsed, kept>> /\ lcore[p] = "poll" /\ lcore' = [lcore EXCEPT ![p] = "port"]
        /\ \A q \in CapturePorts : q # p => inHand'[q] = inHand[q]
    BY <1>1, <1>3 DEF TestFlag
  <2>2. CASE p = capPort BY <1>1, <1>2, <2>1, <2>2 DEF FirstBurst
  <2>3. CASE p # capPort
    <3>1. lcore'[capPort] = lcore[capPort] /\ inHand'[capPort] = inHand[capPort]
      BY <1>1, <2>1, <2>3
    <3>2. QED BY <1>1, <1>2, <2>1, <3>1 DEF FirstBurst
  <2>4. QED BY <2>2, <2>3
<1>4. CASE TestPort(p)
  <2>1. /\ UNCHANGED <<capUsed, kept, inHand>> /\ lcore[p] = "port"
        /\ \A q \in CapturePorts : q # p => lcore'[q] = lcore[q]
    BY <1>1, <1>4 DEF TestPort
  <2>2. CASE p = capPort
    <3>1. capUsed = 0 => kept = <<>> BY <1>2, <2>1, <2>2 DEF FirstBurst
    <3>2. Len(inHand[capPort]) <= CaptureBurst BY <1>1 DEF CaptureIInv, HasRecord
    <3>3. Len(inHand[capPort]) \in Nat BY <1>1
    <3>4. kept = <<>> => Len(kept) = 0 OBVIOUS
    <3>5. QED BY <1>1, <2>1, <3>1, <3>2, <3>3, <3>4 DEF FirstBurst
  <2>3. CASE p # capPort BY <1>1, <1>2, <2>1, <2>3 DEF FirstBurst
  <2>4. QED BY <2>2, <2>3
<1>5. CASE TestRoom(p) \/ WriteRecord(p) \/ AdvanceTail(p)
  <2>1. /\ UNCHANGED <<capUsed, kept, inHand>> /\ AtWork(p) /\ AtWork(p)'
    BY <1>1, <1>5 DEF TestRoom, WriteRecord, AdvanceTail
  <2>2. p = capPort BY <1>2, <2>1 DEF OneAppender
  <2>3. QED BY <1>1, <1>2, <2>1, <2>2 DEF FirstBurst
<1>6. CASE CountRecord(p)
  <2>1. /\ lcore[p] = "count" /\ AtWork(p) /\ AtWork(p)' /\ UNCHANGED capUsed
        /\ inHand'[p] = Tail(inHand[p]) /\ kept' = Append(kept, Head(inHand[p]))
    BY <1>1, <1>6 DEF CountRecord
  <2>2. p = capPort /\ Len(inHand[p]) > 0
    BY <1>2, <2>1 DEF OneAppender, CaptureIInv, HasRecord
  <2>3. Head(inHand[p]) \in Records BY <2>2, Heads DEF CaptureIInv
  <2>4. Len(kept') = Len(kept) + 1 /\ Len(inHand'[p]) = Len(inHand[p]) - 1
    BY <1>1, <2>1, <2>2, <2>3
  <2>5. Len(kept) \in Nat /\ Len(inHand[p]) \in Nat BY <1>1
  <2>6. capUsed = 0 => Len(kept) + Len(inHand[p]) <= CaptureBurst
    BY <1>2, <2>1, <2>2 DEF FirstBurst
  <2>7. Len(kept') + Len(inHand'[p]) = Len(kept) + Len(inHand[p])
    <3>1. PICK a \in Nat, b \in Nat : a = Len(kept) /\ b = Len(inHand[p]) BY <2>5
    <3>2. (a + 1) + (b - 1) = a + b OBVIOUS
    <3>3. QED BY <2>4, <3>1, <3>2
  <2>8. QED BY <1>1, <2>1, <2>2, <2>6, <2>7 DEF FirstBurst
<1>7. CASE Seal(p)
  <2>1. /\ lcore[p] = "seal" /\ AtWork(p) /\ lcore'[p] = "poll"
        /\ capUsed' = capTail /\ UNCHANGED kept
    BY <1>1, <1>7 DEF Seal
  <2>2. p = capPort BY <1>2, <2>1 DEF OneAppender
  <2>3. PICK off \in [0 .. Len(kept) -> Units] : Laid(off) /\ HandAt(off[Len(kept)])
    BY <1>2 DEF Recorded
  <2>4. capTail = off[Len(kept)] BY <2>1, <2>2, <2>3 DEF HandAt
  <2>5. Len(kept) \in Nat BY <1>1
  <2>6. CASE Len(kept) = 0
    <3>1. kept = <<>> BY <1>1, <2>6
    <3>2. QED BY <1>1, <2>1, <2>2, <3>1 DEF FirstBurst
  <2>7. CASE Len(kept) > 0
    <3>1. 1 \in 1 .. Len(kept) /\ 1 - 1 = 0 BY <2>5, <2>7
    <3>2. off[0] = 0 /\ off[0] < off[Len(kept)] BY <2>3, <3>1 DEF Laid
    <3>3. capUsed' # 0 BY <2>1, <2>4, <3>2
    <3>4. QED BY <3>3 DEF FirstBurst
  <2>8. QED BY <2>5, <2>6, <2>7
<1>8. QED BY <1>3, <1>4, <1>5, <1>6, <1>7 DEF CaptureLcore

\* The command thread sets cap->used back only while it makes or ends a capture.
LEMMA UserInFirst ==
  ASSUME CaptureIInv, CaptureUser, Live'
  PROVE  FirstBurst'
<1>1. CASE PrepareBuffer
  <2>1. ~Appending /\ kept' = <<>> /\ UNCHANGED <<lcore, capPort>> BY <1>1 DEF PrepareBuffer, Live
  <2>2. capPort' \in CapturePorts
    BY <2>1 DEF Live, CaptureIInv, CaptureTypeOK
  <2>3. ~AtWork(capPort)' BY <2>1, <2>2 DEF Appending
  <2>4. QED BY <2>1, <2>3 DEF FirstBurst
<1>2. CASE ~PrepareBuffer
  <2>1. Live /\ UNCHANGED <<capUsed, capPort, lcore, inHand, kept>>
    BY <1>2 DEF CaptureUser, EnableCapture, DisableCapture, SetFlag, DumpRecord,
       EndDump, ResetBuffer, ReleaseBuffer, ClearFlag, GiveUp, Live, CaptureIInv, Owned
  <2>2. QED BY <2>1 DEF CaptureIInv, FirstBurst
<1>3. QED BY <1>1, <1>2

\* Only a record written out with cap->used at zero ends the process.
LEMMA DiedStep ==
  ASSUME CaptureIInv, CaptureNext
  PROVE  DiedInFirst'
<1>1. CASE \E p \in CapturePorts : CaptureLcore(p)
  BY <1>1 DEF CaptureLcore, TestFlag, TestPort, TestRoom, WriteRecord, AdvanceTail, CountRecord,
     Seal, DiedInFirst
<1>2. CASE DumpRecord
  <2>1. SUFFICES ASSUME user' = "dead", ~torn' PROVE capUsed' = 0 /\ kept' # <<>>
    BY DEF DiedInFirst
  <2>2. /\ user = "dump" /\ Len(file) < capCount /\ capUsed = 0
        /\ UNCHANGED <<torn, kept, capUsed, capPort>>
    BY <1>2, <2>1 DEF DumpRecord, MoreRecords
  <2>3. Recorded BY <2>1, <2>2 DEF CaptureIInv, Owned, Live
  <2>4. Len(file) \in Nat /\ capCount = Len(kept) BY <2>3 DEF Recorded, CaptureIInv, CaptureTypeOK
  <2>5. kept # <<>>
    <3>1. SUFFICES ASSUME kept = <<>> PROVE FALSE OBVIOUS
    <3>2. Len(kept) = 0 BY <3>1
    <3>3. QED BY <2>2, <2>4, <3>2
  <2>6. QED BY <2>2, <2>5
<1>3. CASE CaptureUser /\ ~DumpRecord
  BY <1>3 DEF CaptureUser, EnableCapture, DisableCapture, PrepareBuffer, SetFlag,
     EndDump, ResetBuffer, ReleaseBuffer, ClearFlag, GiveUp, DiedInFirst
<1>4. QED BY <1>1, <1>2, <1>3 DEF CaptureNext

\* The buffer has a port while it is being written out.
LEMMA OwnedStep ==
  ASSUME CaptureIInv, CaptureNext
  PROVE  Owned'
<1>1. NoPort \notin CapturePorts BY CaptureAssumption DEF CaptureAssumption
<1>2. CASE \E p \in CapturePorts : CaptureLcore(p)
  <2>1. UNCHANGED <<user, capPort>>
    BY <1>2 DEF CaptureLcore, TestFlag, TestPort, TestRoom, WriteRecord, AdvanceTail, CountRecord, Seal
  <2>2. QED BY <2>1 DEF CaptureIInv, Owned
<1>3. CASE CaptureUser
  BY <1>1, <1>3 DEF CaptureUser, EnableCapture, DisableCapture, PrepareBuffer, SetFlag, DumpRecord,
     EndDump, ResetBuffer, ReleaseBuffer, ClearFlag, GiveUp, CaptureIInv, Owned, CaptureTypeOK
<1>4. QED BY <1>2, <1>3 DEF CaptureNext

\* The file is the start of what was kept, and holds what was there at the dump.
LEMMA WrittenStep ==
  ASSUME CaptureIInv, CaptureNext
  PROVE  Written'
<1>1. Len(kept) \in Nat /\ Len(file) \in Nat /\ keptAtDump \in Nat
      /\ kept \in Seq(Records) /\ file \in Seq(Records \union {Inside})
  BY DEF CaptureIInv, CaptureTypeOK
<1>2. ASSUME NEW p \in CapturePorts, CaptureLcore(p) PROVE Written'
  <2>1. UNCHANGED <<user, torn, file, keptAtDump>>
    BY <1>2 DEF CaptureLcore, TestFlag, TestPort, TestRoom, WriteRecord, AdvanceTail, CountRecord, Seal
  <2>2. Len(kept') >= Len(kept) /\ \A i \in 1 .. Len(kept) : kept'[i] = kept[i]
    <3>1. CASE CountRecord(p)
      <4>1. Head(inHand[p]) \in Records BY <3>1, Heads DEF CountRecord, CaptureIInv, HasRecord
      <4>2. QED BY <1>1, <3>1, <4>1 DEF CountRecord
    <3>2. CASE UNCHANGED kept BY <1>1, <3>2
    <3>3. QED BY <1>2, <3>1, <3>2
         DEF CaptureLcore, TestFlag, TestPort, TestRoom, WriteRecord, AdvanceTail, Seal
  <2>3. Len(kept') \in Nat BY <1>2, TypeOfLcore DEF CaptureIInv, CaptureTypeOK
  <2>4. QED BY <1>1, <2>1, <2>2, <2>3 DEF CaptureIInv, Written
<1>3. ASSUME ~torn, user = "dump"
      PROVE  /\ capCount = Len(kept) /\ Len(file) <= Len(kept)
             /\ Len(file) < Len(kept) => at \in Units /\ memory[at] = kept[Len(file) + 1]
  <2>1. Recorded BY <1>3 DEF CaptureIInv, Owned, Live
  <2>2. PICK off \in [0 .. Len(kept) -> Units] :
          Laid(off) /\ Len(file) <= Len(kept) /\ at = off[Len(file)]
    BY <1>3, <2>1 DEF Recorded
  <2>3. ASSUME Len(file) < Len(kept) PROVE at \in Units /\ memory[at] = kept[Len(file) + 1]
    <3>1. PICK i \in 1 .. Len(kept) : i = Len(file) + 1 BY <1>1, <2>3
    <3>2. i - 1 = Len(file) /\ Len(file) \in 0 .. Len(kept) BY <1>1, <2>3, <3>1
    <3>3. QED BY <2>2, <3>1, <3>2 DEF Laid
  <2>4. QED BY <2>1, <2>2, <2>3 DEF Recorded
<1>4. CASE DumpRecord
  <2>1. /\ UNCHANGED <<torn, kept, keptAtDump>> /\ file' = Append(file, memory[at])
        /\ user = "dump" /\ user' \in {"dump", "dead"}
    BY <1>4 DEF DumpRecord
  <2>2. SUFFICES ASSUME ~torn PROVE Written'
    BY <2>1 DEF Written
  <2>3. Len(file) < Len(kept) /\ memory[at] = kept[Len(file) + 1]
    BY <1>3, <1>4, <2>1, <2>2 DEF DumpRecord, MoreRecords
  <2>4. memory[at] \in Records BY <1>1, <2>3
  <2>5. /\ Len(file') = Len(file) + 1 /\ file'[Len(file) + 1] = kept[Len(file) + 1]
        /\ \A i \in 1 .. Len(file) : file'[i] = file[i]
    BY <1>1, <2>1, <2>3, <2>4
  <2>6. \A i \in 1 .. Len(file') : file'[i] = kept[i]
    BY <1>1, <2>1, <2>2, <2>5 DEF CaptureIInv, Written
  <2>7. QED BY <1>1, <2>1, <2>2, <2>3, <2>5, <2>6 DEF CaptureIInv, Written
<1>5. CASE EndDump
  <2>1. UNCHANGED <<torn, kept, keptAtDump, file>> /\ user = "dump" /\ user' = "reset"
        /\ ~(MoreRecords /\ RecordAhead)
    BY <1>5 DEF EndDump
  <2>2. SUFFICES ASSUME ~torn PROVE Written'
    BY <2>1 DEF Written
  <2>3. ~(Len(file) < Len(kept))
    <3>1. SUFFICES ASSUME Len(file) < Len(kept) PROVE FALSE OBVIOUS
    <3>2. at \in Units /\ memory[at] = kept[Len(file) + 1] /\ capCount = Len(kept)
      BY <1>3, <2>1, <2>2, <3>1
    <3>3. kept[Len(file) + 1] \in Records BY <1>1, <3>1
    <3>4. memory[at] # Zero BY <3>2, <3>3, RecordIs
    <3>5. QED BY <2>1, <3>1, <3>2, <3>4 DEF MoreRecords, RecordAhead
  <2>4. QED BY <1>1, <2>1, <2>2, <2>3 DEF CaptureIInv, Written
<1>6. ASSUME NEW p \in CapturePorts, DisableCapture(p) PROVE Written'
  BY <1>1, <1>6 DEF DisableCapture, Written
<1>7. CASE ResetBuffer \/ ReleaseBuffer
  <2>1. UNCHANGED <<torn, kept, keptAtDump, file>> /\ user \in {"reset", "release"} /\ user' \in {"release", "clear"}
    BY <1>7 DEF ResetBuffer, ReleaseBuffer
  <2>2. QED BY <2>1 DEF CaptureIInv, Written
<1>8. CASE user' \notin {"dump", "reset", "release", "clear"} BY <1>8 DEF Written
<1>9. QED BY <1>2, <1>4, <1>5, <1>6, <1>7, <1>8
     DEF CaptureNext, CaptureUser, EnableCapture, PrepareBuffer, SetFlag, ClearFlag, GiveUp

\* A buffer that is of one port after a step was of that port before, or is new.
LEMMA LiveBefore ==
  ASSUME CaptureIInv, NEW p \in CapturePorts, CaptureLcore(p), Live'
  PROVE  Live
BY DEF CaptureLcore, TestFlag, TestPort, TestRoom, WriteRecord, AdvanceTail, CountRecord, Seal, Live

\* Every step keeps the invariant.
LEMMA CaptureIInvStep ==
  ASSUME CaptureIInv, [CaptureNext]_captureVars
  PROVE  CaptureIInv'
<1>1. ASSUME NEW p \in CapturePorts, CaptureLcore(p) PROVE CaptureIInv'
  <2>1. CaptureTypeOK' /\ HasRecord' BY <1>1, TypeOfLcore DEF CaptureIInv
  <2>2. Owned' /\ Written' /\ DiedInFirst' BY <1>1, OwnedStep, WrittenStep, DiedStep DEF CaptureNext
  <2>3. Live' => OneAppender' /\ Recorded' /\ FirstBurst'
    BY <1>1, LiveBefore, LcoreKeepsBuffer, LcoreInFirst
  <2>4. QED BY <2>1, <2>2, <2>3 DEF CaptureIInv
<1>2. CASE CaptureUser
  <2>1. CaptureTypeOK' /\ HasRecord' BY <1>2, TypeOfUser DEF CaptureIInv
  <2>2. Owned' /\ Written' /\ DiedInFirst' BY <1>2, OwnedStep, WrittenStep, DiedStep DEF CaptureNext
  <2>3. Live' => OneAppender' /\ Recorded' /\ FirstBurst' BY <1>2, UserKeepsBuffer, UserInFirst
  <2>4. QED BY <2>1, <2>2, <2>3 DEF CaptureIInv
<1>3. CASE UNCHANGED captureVars
  <2> USE <1>3 DEF captureVars
  <2>1. CaptureTypeOK' BY DEF CaptureIInv, CaptureTypeOK
  <2>2. HasRecord' /\ Owned' /\ Written' /\ DiedInFirst'
    BY DEF CaptureIInv, HasRecord, Owned, Written, DiedInFirst
  <2>3. ASSUME Live' PROVE OneAppender' /\ Recorded' /\ FirstBurst'
    <3>1. OneAppender /\ Recorded /\ FirstBurst BY <2>3 DEF CaptureIInv, Live
    <3>2. OneAppender' BY <3>1 DEF OneAppender
    <3>3. Recorded' BY <3>1 DEF Recorded, Laid, HandAt
    <3>4. FirstBurst' BY <3>1 DEF FirstBurst
    <3>5. QED BY <3>2, <3>3, <3>4
  <2>4. QED BY <2>1, <2>2, <2>3 DEF CaptureIInv
<1>4. QED BY <1>1, <1>2, <1>3 DEF CaptureNext

\* It holds of an empty buffer.
LEMMA CaptureIInvInit ==
  ASSUME CaptureInit
  PROVE  CaptureIInv
<1> USE CaptureAssumption DEF CaptureAssumption, CaptureInit
<1>1. (CHOOSE p \in CapturePorts : TRUE) \in CapturePorts OBVIOUS
<1>2. CaptureTypeOK
  <2>1. memory \in [Units -> Records \union {Zero, Inside}] OBVIOUS
  <2>2. torn \in BOOLEAN BY Zenon
  <2>3. inHand \in [CapturePorts -> Seq(Records)] OBVIOUS
  <2>4. kept \in Seq(Records) /\ file \in Seq(Records \union {Inside}) OBVIOUS
  <2>5. lcore \in [CapturePorts ->
                  {"poll", "port", "room", "write", "advance", "count", "seal"}] OBVIOUS
  <2>6. QED BY <1>1, <2>1, <2>2, <2>3, <2>4, <2>5 DEF CaptureTypeOK
<1>3. HasRecord /\ Owned /\ Written /\ DiedInFirst
  BY DEF HasRecord, Owned, Written, DiedInFirst
<1>4. ~Live BY DEF Live
<1>5. QED BY <1>2, <1>3, <1>4 DEF CaptureIInv

\* The inductive invariant of the capture.
LEMMA CaptureInvariant == CaptureSpec => []CaptureIInv
<1>1. CaptureInit => CaptureIInv BY CaptureIInvInit
<1>2. CaptureIInv /\ [CaptureNext]_captureVars => CaptureIInv' BY CaptureIInvStep
<1>3. QED BY <1>1, <1>2, PTL DEF CaptureSpec

\* The state of the capture keeps its type for any number of ports and packets of any
\* size (pktgen_packet_capture_bulk, pktgen_set_capture).
THEOREM CaptureTypeCorrect == CaptureSpec => []CaptureTypeOK
<1>1. CaptureIInv => CaptureTypeOK BY DEF CaptureIInv
<1>2. QED BY <1>1, CaptureInvariant, PTL

\* As long as no two commands and receive threads overlap in a way the flags of the
\* module record as torn, the file holds the packets that were captured, in order, each
\* once, and all that were there when the capture was ended; and the command that writes
\* it divides by zero only in the middle of the first burst.
THEOREM CapturedIsWritten == CaptureSpec => []FileFaithful
<1>1. ASSUME CaptureIInv PROVE FileFaithful
  <2>1. ASSUME user = "dead", ~torn
        PROVE  AtWork(capPort) /\ Len(kept) + Len(inHand[capPort]) <= CaptureBurst
    <3>1. FirstBurst BY <1>1, <2>1 DEF CaptureIInv, Owned, Live
    <3>2. capUsed = 0 /\ kept # <<>> BY <1>1, <2>1 DEF CaptureIInv, DiedInFirst
    <3>3. QED BY <3>1, <3>2 DEF FirstBurst
  <2>2. SUFFICES ASSUME user \in {"dump", "reset", "release", "clear"}, ~torn
                 PROVE  /\ Len(file) <= Len(kept) /\ file = SubSeq(kept, 1, Len(file))
                        /\ user = "reset" => Len(file) >= keptAtDump
    BY <2>1 DEF FileFaithful
  <2>3. kept \in Seq(Records) /\ file \in Seq(Records \union {Inside}) /\ keptAtDump \in Nat
    BY <1>1 DEF CaptureIInv, CaptureTypeOK
  <2>4. /\ Len(file) <= Len(kept) /\ \A i \in 1 .. Len(file) : file[i] = kept[i]
        /\ user = "reset" => keptAtDump <= Len(file)
    BY <1>1, <2>2 DEF CaptureIInv, Written
  <2>5. file = SubSeq(kept, 1, Len(file)) BY <2>3, <2>4
  <2>6. QED BY <2>3, <2>4, <2>5
<1>2. QED BY <1>1, CaptureInvariant, PTL

-----------------------------------------------------------------------------
(* The port of the buffer.                                                 *)

(* With one port on the socket, the buffer is its own while it captures, until *)
(* the command that releases the buffer has cleared the flag as well.      *)
PortHasBuffer ==
  /\ user # "lost"
  /\ user \in {"prepare", "flag", "dump", "reset", "release"} => capPort # NoPort
  /\ user # "clear" /\ capturing # {} => capPort # NoPort

LEMMA PortStep ==
  ASSUME NEW p, CapturePorts = {p}, CaptureTypeOK, PortHasBuffer, CaptureNext
  PROVE  PortHasBuffer'
<1> USE DEF PortHasBuffer
<1>1. p # NoPort /\ subject = p /\ capPort \in {p, NoPort} /\ capturing \subseteq {p}
  BY CaptureAssumption DEF CaptureAssumption, CaptureTypeOK
<1>2. CASE \E o \in CapturePorts : EnableCapture(o)
  BY <1>1, <1>2 DEF EnableCapture
<1>3. CASE \E o \in CapturePorts : DisableCapture(o)
  <2>1. capturing # {} /\ user = "idle" /\ UNCHANGED <<capPort, capturing>>
        /\ user' = IF capPort = p THEN "dump" ELSE "lost"
    BY <1>3 DEF DisableCapture
  <2>2. QED BY <1>1, <2>1
<1>4. CASE PrepareBuffer BY <1>4 DEF PrepareBuffer
<1>5. CASE SetFlag BY <1>5 DEF SetFlag
<1>6. CASE DumpRecord BY <1>6 DEF DumpRecord
<1>7. CASE EndDump BY <1>7 DEF EndDump
<1>8. CASE ResetBuffer BY <1>8 DEF ResetBuffer
<1>9. CASE ReleaseBuffer BY <1>9 DEF ReleaseBuffer
<1>10. CASE ClearFlag BY <1>1, <1>10 DEF ClearFlag
<1>11. CASE GiveUp BY <1>11 DEF GiveUp
<1>12. CASE \E o \in CapturePorts : CaptureLcore(o)
  <2>1. UNCHANGED <<user, capPort, capturing>>
    BY <1>12 DEF CaptureLcore, TestFlag, TestPort, TestRoom, WriteRecord, AdvanceTail, CountRecord,
       Seal
  <2>2. QED BY <2>1
<1>13. QED
  BY <1>2, <1>3, <1>4, <1>5, <1>6, <1>7, <1>8, <1>9, <1>10, <1>11, <1>12
     DEF CaptureNext, CaptureUser

\* A socket with one port never loses its buffer: "This should never happen" is
\* true of it (pktgen_set_capture).
THEOREM OnePortFindsBuffer ==
  ASSUME NEW p, CapturePorts = {p}
  PROVE  CaptureSpec => []DisableFindsPort
<1>1. CaptureInit => PortHasBuffer BY DEF CaptureInit, PortHasBuffer
<1>2. CaptureTypeOK /\ PortHasBuffer /\ [CaptureNext]_captureVars => PortHasBuffer'
  <2> SUFFICES ASSUME CaptureTypeOK, PortHasBuffer, [CaptureNext]_captureVars
               PROVE  PortHasBuffer'
    OBVIOUS
  <2>1. CASE UNCHANGED captureVars BY <2>1 DEF captureVars, PortHasBuffer
  <2>2. QED BY <2>1, PortStep
<1>3. PortHasBuffer => DisableFindsPort BY DEF PortHasBuffer, DisableFindsPort
<1>4. QED BY <1>1, <1>2, <1>3, CaptureTypeCorrect, PTL DEF CaptureSpec

-----------------------------------------------------------------------------
(* The sampler.                                                            *)

(* A queue that stores or advances had room, whatever has been reset since.  *)
StoreInRoom == \A q \in RxQueues : sampler[q] \in {"store", "advance"} =>
                 index[q] < MaxEntries /\ idx[q] < MaxEntries

(* The flag is down while a command is under way.                            *)
FlagDown == ordering # "idle" => ~sampling

(* From start to the end of stop, in a run no queue was late for, a queue    *)
(* has its samples of the run in its array, in order and within its share.   *)
Running == ~late /\ (sampling \/ ordering # "idle")

PrefixOf(q) == \A j \in 0 .. idx[q] - 1 : data[q][j] = [run |-> run, nth |-> j + 1]
AtRest(q)   == sampler[q] \in {"out", "due"} => nth[q] = idx[q]
SampleInHand(q)   == sampler[q] \in {"store", "advance"} =>
                 /\ idx[q] < share[q] /\ index[q] = idx[q] /\ nth[q] = idx[q] + 1
                 /\ sample[q] = [run |-> run, nth |-> idx[q] + 1]
Stored(q)   == sampler[q] = "advance" => data[q][idx[q]] = sample[q]

QueueGood(q) == idx[q] <= share[q] /\ PrefixOf(q) /\ AtRest(q) /\ SampleInHand(q) /\ Stored(q)
QueuesGood   == Running => \A q \in RxQueues : QueueGood(q)

FileGood(q) == /\ Len(outfile[q]) <= share[q]
               /\ outfile[q] = [i \in 1 .. Len(outfile[q]) |-> [run |-> run, nth |-> i]]
FilesGood   == ordering \in {"write", "empty"} /\ ~late => \A q \in RxQueues : FileGood(q)

SamplerIInv == SamplerTypeOK /\ StoreInRoom /\ FlagDown /\ QueuesGood /\ FilesGood

USE DEF queueVars, orderVars

-----------------------------------------------------------------------------
(* Type correctness.                                                         *)

(* A share is no more than what is shared out.                               *)
LEMMA ShareBound ==
  ASSUME NEW n \in 0 .. MaxEntries
  PROVE  n \div Cardinality(RxQueues) \in 0 .. MaxEntries
<1>1. Cardinality(RxQueues) \in Nat /\ Cardinality(RxQueues) # 0
  BY SamplerAssumption, FS_CardinalityType, FS_EmptySet DEF SamplerAssumption
<1>2. ASSUME NEW c \in Nat \ {0}, NEW k \in Nat PROVE k \div c \in 0 .. k OBVIOUS
<1>3. MaxEntries \in Nat BY SamplerAssumption DEF SamplerAssumption
<1>4. QED BY <1>1, <1>2, <1>3

Basic == SamplerTypeOK /\ StoreInRoom /\ FlagDown

LEMMA BasicQueue ==
  ASSUME Basic, NEW q \in RxQueues,
         SeeFlag(q) \/ TestShare(q) \/ StoreSample(q) \/ AdvanceIndex(q)
  PROVE  Basic'
<1> USE SamplerAssumption DEF SamplerAssumption, Basic, SamplerTypeOK, StoreInRoom, Taken
<1>1. UNCHANGED <<sampling, share, ordering, unwritten, outfile, run, late>>
  BY Zenon DEF SeeFlag, TestShare, StoreSample, AdvanceIndex
<1>2. sampling' \in BOOLEAN /\ late' \in BOOLEAN /\ FlagDown'
  BY <1>1, Zenon DEF FlagDown
<1>3. CASE SeeFlag(q) BY <1>1, <1>2, <1>3 DEF SeeFlag
<1>4. CASE TestShare(q)
  <2>1. index' = [index EXCEPT ![q] = idx[q]] /\ UNCHANGED <<idx, data>>
    BY <1>4, Zenon DEF TestShare
  <2>2. CASE HasRoom(q)
    <3>1. /\ sampler' = [sampler EXCEPT ![q] = "store"]
          /\ nth' = [nth EXCEPT ![q] = nth[q] + 1]
          /\ sample' = [sample EXCEPT ![q] = [run |-> run, nth |-> nth[q] + 1]]
      BY <1>4, <2>2 DEF TestShare
    <3>2. idx[q] < MaxEntries BY <2>2 DEF HasRoom
    <3>3. SamplerTypeOK'
      <4>1. [run |-> run, nth |-> nth[q] + 1] \in Taken OBVIOUS
      <4>2. sample' \in [RxQueues -> Taken] /\ nth' \in [RxQueues -> Nat]
        <5> HIDE DEF Taken
        <5>1. QED BY <3>1, <4>1
      <4>3. sampler' \in [RxQueues -> {"out", "due", "store", "advance"}] BY <3>1
      <4>4. index' \in [RxQueues -> 0 .. MaxEntries] BY <2>1
      <4>5. QED BY <1>1, <1>2, <2>1, <4>2, <4>3, <4>4
    <3>4. StoreInRoom' BY <2>1, <3>1, <3>2
    <3>5. QED BY <1>2, <3>3, <3>4
  <2>3. CASE ~HasRoom(q)
    <3>1. sampler' = [sampler EXCEPT ![q] = "out"] /\ UNCHANGED <<nth, sample>>
      BY <1>4, <2>3 DEF TestShare
    <3>2. SamplerTypeOK' BY <1>1, <1>2, <2>1, <3>1
    <3>3. StoreInRoom' BY <2>1, <3>1
    <3>4. QED BY <1>2, <3>2, <3>3
  <2>4. QED BY <2>2, <2>3
<1>5. CASE StoreSample(q)
  <2>1. PICK i \in {index[q], idx[q]} : data' = [data EXCEPT ![q][i] = sample[q]]
    BY <1>5 DEF StoreSample
  <2>2. sampler' = [sampler EXCEPT ![q] = "advance"] /\ sampler[q] = "store"
        /\ UNCHANGED <<idx, index, sample, nth>>
    BY <1>5, Zenon DEF StoreSample
  <2>3. data' \in [RxQueues -> [0 .. MaxEntries - 1 -> Taken]] BY <2>1
  <2>4. SamplerTypeOK' BY <1>1, <1>2, <2>2, <2>3
  <2>5. StoreInRoom' BY <2>2
  <2>6. QED BY <1>2, <2>4, <2>5
<1>6. CASE AdvanceIndex(q)
  <2>1. PICK i \in {index[q], idx[q]} : idx' = [idx EXCEPT ![q] = i + 1]
    BY <1>6 DEF AdvanceIndex
  <2>2. sampler' = [sampler EXCEPT ![q] = "out"] /\ sampler[q] = "advance"
        /\ UNCHANGED <<data, index, sample, nth>>
    BY <1>6, Zenon DEF AdvanceIndex
  <2>3. idx' \in [RxQueues -> 0 .. MaxEntries]
    <3>1. index[q] < MaxEntries /\ idx[q] < MaxEntries BY <2>2
    <3>2. index[q] \in Nat /\ idx[q] \in Nat OBVIOUS
    <3>3. ASSUME NEW k \in Nat, k < MaxEntries PROVE k + 1 \in 0 .. MaxEntries
      BY <3>3
    <3>4. i + 1 \in 0 .. MaxEntries BY <3>1, <3>2, <3>3
    <3>5. QED BY <2>1, <3>4
  <2>4. SamplerTypeOK' BY <1>1, <1>2, <2>2, <2>3
  <2>5. StoreInRoom' BY <2>1, <2>2
  <2>6. QED BY <1>2, <2>4, <2>5
<1>7. QED BY <1>3, <1>4, <1>5, <1>6

SamplerCommand ==
  ShareOut \/ Arm \/ StopSampling \/ EmptyQueues \/ \E q \in RxQueues : WriteSamples(q)

LEMMA BasicCommand ==
  ASSUME Basic, SamplerCommand
  PROVE  Basic'
<1> USE SamplerAssumption DEF SamplerAssumption, Basic, SamplerTypeOK, StoreInRoom
<1>1. sampling' \in BOOLEAN /\ late' \in BOOLEAN /\ FlagDown'
  <2>1. CASE ShareOut
    <3>1. ~sampling /\ UNCHANGED sampling /\ late' \in BOOLEAN
      BY <2>1, Zenon DEF ShareOut
    <3>2. QED BY <3>1, Zenon DEF FlagDown
  <2>2. CASE Arm
    <3>1. sampling' = TRUE /\ ordering' = "idle" /\ UNCHANGED late BY <2>2, Zenon DEF Arm
    <3>2. QED BY <3>1, Zenon DEF FlagDown
  <2>3. CASE StopSampling
    <3>1. sampling' = FALSE /\ UNCHANGED late BY <2>3, Zenon DEF StopSampling
    <3>2. QED BY <3>1, Zenon DEF FlagDown
  <2>4. CASE EmptyQueues
    <3>1. ordering' = "idle" /\ UNCHANGED <<sampling, late>> BY <2>4, Zenon DEF EmptyQueues
    <3>2. QED BY <3>1, Zenon DEF FlagDown
  <2>5. ASSUME NEW q \in RxQueues, WriteSamples(q)
        PROVE  sampling' \in BOOLEAN /\ late' \in BOOLEAN /\ FlagDown'
    <3>1. ordering = "write" /\ UNCHANGED <<sampling, late>>
      BY <2>5, Zenon DEF WriteSamples
    <3>2. ordering # "idle" BY <3>1
    <3>3. QED BY <3>1, <3>2, Zenon DEF FlagDown
  <2>6. QED BY <2>1, <2>2, <2>3, <2>4, <2>5 DEF SamplerCommand
<1>2. UNCHANGED <<data, sampler, index, sample>>
  BY Zenon DEF SamplerCommand, ShareOut, Arm, StopSampling, EmptyQueues, WriteSamples
<1>3. CASE ShareOut
  <2>1. share' \in [RxQueues -> 0 .. MaxEntries] BY <1>3, ShareBound DEF ShareOut
  <2>2. QED BY <1>1, <1>2, <1>3, <2>1 DEF ShareOut, Emptied
<1>4. CASE Arm BY <1>1, <1>2, <1>4 DEF Arm
<1>5. CASE StopSampling
  <2>1. unwritten' \subseteq RxQueues /\ ordering' \in {"write", "empty"}
    BY <1>5 DEF StopSampling
  <2>2. outfile' \in [RxQueues -> Seq(Taken)] BY <1>5 DEF StopSampling
  <2>3. UNCHANGED <<idx, share, nth, run>> BY <1>5, Zenon DEF StopSampling
  <2>4. QED BY <1>1, <1>2, <2>1, <2>2, <2>3
<1>6. CASE EmptyQueues BY <1>1, <1>2, <1>6 DEF EmptyQueues
<1>7. ASSUME NEW q \in RxQueues, WriteSamples(q) PROVE Basic'
  <2>1. \A i \in 1 .. idx[q] : data[q][i - 1] \in Taken OBVIOUS
  <2>2. [i \in 1 .. idx[q] |-> data[q][i - 1]] \in Seq(Taken)
    <3> HIDE DEF Taken
    <3>1. idx[q] \in Nat OBVIOUS
    <3>2. [i \in 1 .. idx[q] |-> data[q][i - 1]] \in [1 .. idx[q] -> Taken] BY <2>1
    <3>3. QED BY <3>1, <3>2, TableIsSequence
  <2>3. outfile' \in [RxQueues -> Seq(Taken)] BY <1>7, <2>2 DEF WriteSamples
  <2>4. unwritten' \subseteq RxQueues /\ ordering' \in {"write", "empty"}
    BY <1>7 DEF WriteSamples
  <2>5. UNCHANGED <<idx, share, nth, run>> BY <1>7, Zenon DEF WriteSamples
  <2>6. QED BY <1>1, <1>2, <2>3, <2>4, <2>5
<1>8. QED BY <1>3, <1>4, <1>5, <1>6, <1>7 DEF SamplerCommand

-----------------------------------------------------------------------------
(* The samples of a run.                                                     *)

(* What a queue does to itself.                                              *)
LEMMA GoodSelf ==
  ASSUME Basic, NEW q \in RxQueues, QueueGood(q),
         SeeFlag(q) \/ TestShare(q) \/ StoreSample(q) \/ AdvanceIndex(q)
  PROVE  QueueGood(q)'
<1> USE DEF Basic, SamplerTypeOK, QueueGood, PrefixOf, AtRest, SampleInHand, Stored
<1>1. UNCHANGED <<share, run>>
  BY Zenon DEF SeeFlag, TestShare, StoreSample, AdvanceIndex
<1>2. CASE SeeFlag(q) BY <1>1, <1>2 DEF SeeFlag
<1>3. CASE TestShare(q) BY <1>1, <1>3 DEF TestShare, HasRoom
<1>4. CASE StoreSample(q)
  <2>1. data' = [data EXCEPT ![q][idx[q]] = sample[q]] BY <1>4 DEF StoreSample
  <2>2. idx[q] \in 0 .. MaxEntries - 1 
    BY <1>4, SamplerAssumption DEF SamplerAssumption, StoreSample, StoreInRoom
  <2>3. /\ data'[q][idx[q]] = sample[q]
        /\ \A j \in 0 .. idx[q] - 1 : data'[q][j] = data[q][j]
    <3>1. data'[q] = [data[q] EXCEPT ![idx[q]] = sample[q]] BY <2>1
    <3>2. data[q] \in [0 .. MaxEntries - 1 -> Taken] OBVIOUS
    <3>3. idx[q] \in DOMAIN data[q] BY <2>2, <3>2
    <3>4. QED BY <2>2, <3>1, <3>3
  <2>4. QED BY <1>1, <1>4, <2>2, <2>3 DEF StoreSample
<1>5. CASE AdvanceIndex(q)
  <2>1. idx'[q] = idx[q] + 1 /\ UNCHANGED <<data, nth, sample>> BY <1>5 DEF AdvanceIndex
  <2>2. data[q][idx[q]] = [run |-> run, nth |-> idx[q] + 1] BY <1>5 DEF AdvanceIndex
  <2>3. PrefixOf(q)' BY <1>1, <2>1, <2>2
  <2>4. QED BY <1>1, <1>5, <2>1, <2>3 DEF AdvanceIndex
<1>6. QED BY <1>2, <1>3, <1>4, <1>5

(* It leaves the others alone.                                               *)
LEMMA GoodOthers ==
  ASSUME Basic, NEW q \in RxQueues, NEW other \in RxQueues \ {q}, QueueGood(other),
         SeeFlag(q) \/ TestShare(q) \/ StoreSample(q) \/ AdvanceIndex(q)
  PROVE  QueueGood(other)'
<1>1. /\ idx'[other] = idx[other] /\ data'[other] = data[other]
      /\ sampler'[other] = sampler[other] /\ index'[other] = index[other]
      /\ sample'[other] = sample[other] /\ nth'[other] = nth[other]
      /\ UNCHANGED <<share, run>>
  BY DEF SeeFlag, TestShare, StoreSample, AdvanceIndex, Basic, SamplerTypeOK
<1>2. QED BY <1>1 DEF QueueGood, PrefixOf, AtRest, SampleInHand, Stored

LEMMA SamplerQueue ==
  ASSUME SamplerIInv, NEW q \in RxQueues,
         SeeFlag(q) \/ TestShare(q) \/ StoreSample(q) \/ AdvanceIndex(q)
  PROVE  SamplerIInv'
<1>1. Basic' BY BasicQueue DEF SamplerIInv, Basic
<1>2. UNCHANGED <<sampling, share, ordering, outfile, run, late>>
  BY Zenon DEF SeeFlag, TestShare, StoreSample, AdvanceIndex
<1>3. QueuesGood'
  <2>1. Running' <=> Running BY <1>2, Zenon DEF Running
  <2>2. QED BY <2>1, GoodSelf, GoodOthers DEF QueuesGood, SamplerIInv, Basic
<1>4. FilesGood' BY <1>2, Zenon DEF SamplerIInv, FilesGood, FileGood
<1>5. QED BY <1>1, <1>3, <1>4 DEF SamplerIInv, Basic

LEMMA SamplerKeeps ==
  ASSUME SamplerIInv, SamplerCommand
  PROVE  SamplerIInv'
<1> USE DEF SamplerIInv, Basic
<1>1. Basic' BY BasicCommand
<1>2. UNCHANGED <<data, sampler, index, sample>>
  BY Zenon DEF SamplerCommand, ShareOut, Arm, StopSampling, EmptyQueues, WriteSamples
<1>3. CASE ShareOut
  <2>1. late' = (\E q \in RxQueues : sampler[q] # "out") BY <1>3, Zenon DEF ShareOut
  <2>2. ~late' => \A q \in RxQueues : sampler[q] = "out" BY <2>1, Zenon
  <2>3. /\ idx' = [q \in RxQueues |-> 0] /\ nth' = [q \in RxQueues |-> 0]
        /\ share' \in [RxQueues -> 0 .. MaxEntries] /\ ordering' = "arm"
    BY <1>1, <1>3 DEF ShareOut, Emptied, SamplerTypeOK
  <2>4. ASSUME NEW q \in RxQueues, sampler[q] = "out" PROVE QueueGood(q)'
    BY <1>2, <2>3, <2>4 DEF QueueGood, PrefixOf, AtRest, SampleInHand, Stored
  <2>5. QueuesGood' BY <2>2, <2>4 DEF QueuesGood, Running
  <2>6. FilesGood' BY <2>3 DEF FilesGood
  <2>7. QED BY <1>1, <2>5, <2>6
<1>4. ASSUME UNCHANGED <<idx, share, nth, run, late>>, Running' => Running
      PROVE  QueuesGood'
  BY <1>2, <1>4 DEF QueuesGood, QueueGood, PrefixOf, AtRest, SampleInHand, Stored
<1>5. CASE Arm
  <2>1. QueuesGood' BY <1>4, <1>5, Zenon DEF Arm, Running
  <2>2. FilesGood' BY <1>5 DEF Arm, FilesGood
  <2>3. QED BY <1>1, <2>1, <2>2
<1>6. CASE StopSampling
  <2>1. sampling /\ UNCHANGED <<idx, share, nth, run, late>> BY <1>6, Zenon DEF StopSampling
  <2>2. QueuesGood' BY <1>4, <2>1, Zenon DEF Running
  <2>3. /\ outfile' = [q \in RxQueues |-> <<>>]
        /\ share' = share /\ share \in [RxQueues -> 0 .. MaxEntries]
    BY <1>6 DEF StopSampling, SamplerTypeOK
  <2>4. FilesGood' BY <2>3 DEF FilesGood, FileGood
  <2>5. QED BY <1>1, <2>2, <2>4
<1>7. CASE EmptyQueues
  <2>1. ~Running' BY <1>7, Zenon DEF EmptyQueues, Running, FlagDown
  <2>2. FilesGood' BY <1>7 DEF EmptyQueues, FilesGood
  <2>3. QED BY <1>1, <2>1, <2>2 DEF QueuesGood
<1>8. ASSUME NEW q \in RxQueues, WriteSamples(q) PROVE SamplerIInv'
  <2>1. QueuesGood' BY <1>4, <1>8, Zenon DEF WriteSamples, Running
  <2>2. ordering = "write" /\ UNCHANGED <<share, run, late>> BY <1>8, Zenon DEF WriteSamples
  <2>3. ASSUME ~late PROVE \A r \in RxQueues : FileGood(r)'
    <3> SUFFICES ASSUME NEW r \in RxQueues PROVE FileGood(r)' OBVIOUS
    <3>1. CASE r = q
      <4>1. QueueGood(q) BY <2>2, <2>3 DEF QueuesGood, Running
      <4>2. outfile'[q] = [i \in 1 .. idx[q] |-> data[q][i - 1]] /\ idx[q] \in Nat
        BY <1>8 DEF WriteSamples, SamplerTypeOK
      <4>3. Len(outfile'[q]) = idx[q] BY <4>2
      <4>4. ASSUME NEW i \in 1 .. idx[q] PROVE data[q][i - 1] = [run |-> run, nth |-> i]
        <5>1. i - 1 \in 0 .. idx[q] - 1 /\ (i - 1) + 1 = i BY <4>2
        <5>2. QED BY <4>1, <5>1 DEF QueueGood, PrefixOf
      <4>5. QED BY <2>2, <3>1, <4>1, <4>2, <4>3, <4>4 DEF FileGood, QueueGood
    <3>2. CASE r # q
      <4>1. outfile'[r] = outfile[r] BY <1>8, <3>2 DEF WriteSamples, SamplerTypeOK
      <4>2. FileGood(r) BY <2>2, <2>3 DEF FilesGood
      <4>3. QED BY <2>2, <4>1, <4>2 DEF FileGood
    <3>3. QED BY <3>1, <3>2
  <2>4. FilesGood' BY <2>2, <2>3, Zenon DEF FilesGood
  <2>5. QED BY <1>1, <2>1, <2>4
<1>9. QED BY <1>3, <1>5, <1>6, <1>7, <1>8 DEF SamplerCommand

LEMMA SamplerInvariant == SamplerSpec => []SamplerIInv
<1>1. SamplerInit => SamplerIInv
  <2> SUFFICES ASSUME SamplerInit PROVE SamplerIInv OBVIOUS
  <2>1. /\ sampling \in BOOLEAN /\ late \in BOOLEAN /\ FlagDown
        /\ ordering = "idle" /\ ~sampling
    BY Zenon DEF SamplerInit, FlagDown
  <2>2. SamplerTypeOK
    BY <2>1, SamplerAssumption DEF SamplerAssumption, SamplerInit, SamplerTypeOK, Taken, NoSample
  <2>3. StoreInRoom BY DEF SamplerInit, StoreInRoom
  <2>4. QueuesGood BY <2>1, Zenon DEF QueuesGood, Running
  <2>5. FilesGood BY <2>1 DEF FilesGood
  <2>6. QED BY <2>1, <2>2, <2>3, <2>4, <2>5 DEF SamplerIInv
<1>2. SamplerIInv /\ [SamplerNext]_samplerVars => SamplerIInv'
  <2> SUFFICES ASSUME SamplerIInv, [SamplerNext]_samplerVars PROVE SamplerIInv' OBVIOUS
  <2>1. CASE UNCHANGED samplerVars
    <3> USE DEF samplerVars
    <3>1. SamplerTypeOK' BY <2>1, Zenon DEF SamplerIInv, SamplerTypeOK
    <3>2. StoreInRoom' BY <2>1 DEF SamplerIInv, StoreInRoom
    <3>3. FlagDown' BY <2>1, Zenon DEF SamplerIInv, FlagDown
    <3>4. Running' <=> Running BY <2>1, Zenon DEF Running
    <3>5. \A q \in RxQueues : QueueGood(q) => QueueGood(q)'
      BY <2>1 DEF QueueGood, PrefixOf, AtRest, SampleInHand, Stored
    <3>6. QueuesGood' BY <3>4, <3>5 DEF SamplerIInv, QueuesGood
    <3>7. FilesGood' BY <2>1, ZenonT(30) DEF SamplerIInv, FilesGood, FileGood
    <3>8. QED BY <3>1, <3>2, <3>3, <3>6, <3>7 DEF SamplerIInv
  <2>2. QED BY <2>1, SamplerQueue, SamplerKeeps DEF SamplerNext, SamplerCommand
<1>3. QED BY <1>1, <1>2, PTL DEF SamplerSpec

-----------------------------------------------------------------------------
\* Indices, shares and arrays keep their types whatever start and stop reset
\* under a queue that is storing: the type invariant of the sampler.
THEOREM SamplerTypeCorrect == SamplerSpec => []SamplerTypeOK
<1>1. SamplerIInv => SamplerTypeOK BY DEF SamplerIInv
<1>2. QED BY <1>1, SamplerInvariant, PTL

\* A queue stores inside its array, and what stop writes of a run that no queue
\* was late for are the run's samples, from the first on, each once.
THEOREM SamplesWritten == SamplerSpec => []SamplesFaithful
<1>1. SamplerIInv => SamplesFaithful
  <2> SUFFICES ASSUME SamplerIInv PROVE SamplesFaithful OBVIOUS
  <2>1. \A q \in RxQueues : sampler[q] = "store" => {index[q], idx[q]} \subseteq 0 .. MaxEntries - 1
    BY SamplerAssumption DEF SamplerAssumption, SamplerIInv, SamplerTypeOK, StoreInRoom
  <2>2. QED BY <2>1, Zenon DEF SamplerIInv, SamplesFaithful, FilesGood, FileGood
<1>2. QED BY <1>1, SamplerInvariant, PTL

-----------------------------------------------------------------------------
(* Rows of indices.  The indices of the probes on their way make a row; a    *)
(* probe that does not follow the one before leaves a gap in it, and each gap *)
(* is to be paid for by something that happened: bill[i] is what has been    *)
(* paid by place i of the row.                                               *)

Rising(f) == \A i, j \in Nat : i <= j => f[i] <= f[j]

\* bill has room for the gaps of row up to its index n + 1
Chain(row, bill, n) ==
  /\ Rising(bill)
  /\ \A i \in 0 .. n : row[i + 1] # row[i] + 1 => bill[i] < bill[i + 1]

\* Each step of rowB is one without a gap, one that more pays for or a step of row.
Follows(rowB, m, row, n, to, more) == \A i \in 0 .. m :
  \/ rowB[i + 1] = rowB[i] + 1
  \/ more[i] < more[i + 1]
  \/ to[i] \in 0 .. n /\ to[i + 1] = to[i] + 1 /\ rowB[i] = row[to[i]] /\ rowB[i + 1] = row[to[i] + 1]

\* A row each of whose steps is paid for is a chain.
LEMMA ChainMoves ==
  \A row, bill, rowB, billB, more \in [Nat -> Int], to \in [Nat -> Nat], n, m \in Nat :
    /\ Chain(row, bill, n) /\ Rising(to) /\ Rising(more) /\ Follows(rowB, m, row, n, to, more)
    /\ \A i \in Nat : billB[i] = bill[to[i]] + more[i]
    => Chain(rowB, billB, m)
<1> TAKE row, bill, rowB, billB, more \in [Nat -> Int], to \in [Nat -> Nat], n, m \in Nat
<1> HAVE /\ Chain(row, bill, n) /\ Rising(to) /\ Rising(more) /\ Follows(rowB, m, row, n, to, more)
         /\ \A i \in Nat : billB[i] = bill[to[i]] + more[i]
<1>1. \A i \in Nat : billB[i] = bill[to[i]] + more[i] OBVIOUS
<1>2. ASSUME NEW i \in Nat, NEW j \in Nat, i <= j PROVE bill[to[i]] <= bill[to[j]] /\ more[i] <= more[j]
  <2>1. to[i] <= to[j] /\ more[i] <= more[j] BY <1>2 DEF Rising
  <2>2. to[i] \in Nat /\ to[j] \in Nat OBVIOUS
  <2>3. bill[to[i]] <= bill[to[j]] BY <2>1, <2>2 DEF Chain, Rising
  <2>4. QED BY <2>1, <2>3
<1>3. Rising(billB)
  <2>1. ASSUME NEW i \in Nat, NEW j \in Nat, i <= j PROVE billB[i] <= billB[j]
    <3>1. bill[to[i]] <= bill[to[j]] /\ more[i] <= more[j] BY <1>2, <2>1
    <3>2. billB[i] = bill[to[i]] + more[i] /\ billB[j] = bill[to[j]] + more[j] BY <1>1
    <3>3. /\ bill[to[i]] \in Int /\ bill[to[j]] \in Int
          /\ more[i] \in Int /\ more[j] \in Int OBVIOUS
    <3>4. QED BY <3>1, <3>2, <3>3
  <2>2. QED BY <2>1 DEF Rising
<1>4. ASSUME NEW i \in 0 .. m, rowB[i + 1] # rowB[i] + 1 PROVE billB[i] < billB[i + 1]
  <2>1. i \in Nat /\ i + 1 \in Nat /\ i <= i + 1 OBVIOUS
  <2>2. bill[to[i]] <= bill[to[i + 1]] /\ more[i] <= more[i + 1] BY <1>2, <2>1
  <2>3. billB[i] = bill[to[i]] + more[i] /\ billB[i + 1] = bill[to[i + 1]] + more[i + 1]
    BY <1>1, <2>1
  <2>4. /\ bill[to[i]] \in Int /\ bill[to[i + 1]] \in Int
        /\ more[i] \in Int /\ more[i + 1] \in Int BY <2>1
  <2>5. CASE more[i] < more[i + 1] BY <2>2, <2>3, <2>4, <2>5
  <2>6. CASE to[i] \in 0 .. n /\ to[i + 1] = to[i] + 1 /\ rowB[i] = row[to[i]] /\ rowB[i + 1] = row[to[i] + 1]
    <3>1. bill[to[i]] < bill[to[i] + 1] BY <1>4, <2>6 DEF Chain
    <3>2. QED BY <2>2, <2>3, <2>4, <2>6, <3>1
  <2>7. QED BY <1>4, <2>5, <2>6 DEF Follows
<1>5. QED BY <1>3, <1>4 DEF Chain

\* rowB breaks off from row at index k and comes back to it or goes on without a gap.
BreaksAt(k, rowB, row, n) ==
  /\ k \in 1 .. n + 1
  /\ \A i \in 0 .. n : i + 1 # k =>
       rowB[i + 1] = rowB[i] + 1 \/ (rowB[i] = row[i] /\ rowB[i + 1] = row[i + 1])

\* One break more is one more to pay.
LEMMA ChainBreaks ==
  \A row, bill, rowB \in [Nat -> Int], n, k \in Nat : Chain(row, bill, n) /\ BreaksAt(k, rowB, row, n) =>
    \E billB \in [Nat -> Int] :
      Chain(rowB, billB, n) /\ billB[0] = bill[0] /\ billB[n + 1] = bill[n + 1] + 1
<1> TAKE row, bill, rowB \in [Nat -> Int], n, k \in Nat
<1> HAVE Chain(row, bill, n) /\ BreaksAt(k, rowB, row, n)
<1>1. /\ k \in 1 .. n + 1
      /\ \A i \in 0 .. n : i + 1 # k =>
           rowB[i + 1] = rowB[i] + 1 \/ (rowB[i] = row[i] /\ rowB[i + 1] = row[i + 1])
  BY DEF BreaksAt
<1>2. PICK to \in [Nat -> Nat] : \A i \in Nat : to[i] = i
  <2> DEFINE f == [i \in Nat |-> i]
  <2>1. f \in [Nat -> Nat] OBVIOUS
  <2>2. QED BY <2>1
<1>3. PICK more \in [Nat -> Int] :
        (\A i \in Nat : i < k => more[i] = 0) /\ (\A i \in Nat : i >= k => more[i] = 1)
  <2> DEFINE f == [i \in Nat |-> IF i < k THEN 0 ELSE 1]
  <2>1. f \in [Nat -> Int] OBVIOUS
  <2>2. (\A i \in Nat : i < k => f[i] = 0) /\ (\A i \in Nat : i >= k => f[i] = 1) OBVIOUS
  <2> HIDE DEF f
  <2>3. QED BY <2>1, <2>2
<1>4. to \in [Nat -> Nat] /\ more \in [Nat -> Int] BY <1>2, <1>3
<1>5. Rising(to) /\ Rising(more)
  <2>1. ASSUME NEW i \in Nat, NEW j \in Nat, i <= j PROVE to[i] <= to[j] /\ more[i] <= more[j]
    BY <1>2, <1>3, <2>1
  <2>2. QED BY <2>1 DEF Rising
<1>6. Follows(rowB, n, row, n, to, more)
  <2>1. ASSUME NEW i \in 0 .. n
        PROVE  \/ rowB[i + 1] = rowB[i] + 1
               \/ more[i] < more[i + 1]
               \/ to[i] \in 0 .. n /\ to[i + 1] = to[i] + 1 /\ rowB[i] = row[to[i]] /\ rowB[i + 1] = row[to[i] + 1]
    <3>1. i \in Nat /\ i + 1 \in Nat /\ to[i] = i /\ to[i + 1] = i + 1 BY <1>2
    <3>2. CASE i + 1 = k BY <1>3, <3>1, <3>2
    <3>3. CASE i + 1 # k BY <1>1, <3>1, <3>3
    <3>4. QED BY <3>2, <3>3
  <2>2. QED BY <2>1 DEF Follows
<1>7. PICK billB \in [Nat -> Int] : \A i \in Nat : billB[i] = bill[to[i]] + more[i]
  <2> DEFINE f == [i \in Nat |-> bill[to[i]] + more[i]]
  <2>1. f \in [Nat -> Int] OBVIOUS
  <2>2. QED BY <2>1
<1>8. Chain(rowB, billB, n) BY <1>4, <1>5, <1>6, <1>7, ChainMoves
<1>9. n + 1 \in Nat /\ to[0] = 0 /\ to[n + 1] = n + 1 /\ more[0] = 0 /\ more[n + 1] = 1
  BY <1>2, <1>1, <1>3, 0 \in Nat
<1>10. billB[0] = bill[0] + 0 /\ billB[n + 1] = bill[n + 1] + 1 BY <1>7, <1>9, 0 \in Nat
<1>11. bill[0] \in Int OBVIOUS
<1>12. QED BY <1>7, <1>8, <1>10, <1>11

\* The row goes on without a gap.
Grown(rowB, billB, m, row, bill, n) ==
  /\ Chain(rowB, billB, m)
  /\ billB[0] = bill[0] /\ billB[n + 2] = bill[n + 1]
  /\ \A i \in 0 .. n + 1 : rowB[i] = row[i]
  /\ rowB[n + 2] = row[n + 1] + 1

\* A row may go on without a gap.
LEMMA ChainGrows ==
  \A row, bill \in [Nat -> Int], n, m \in Nat : m - n = 1 /\ Chain(row, bill, n) =>
    \E rowB \in [Nat -> Int], billB \in [Nat -> Int] :
      Grown(rowB, billB, m, row, bill, n)
<1> TAKE row, bill \in [Nat -> Int], n, m \in Nat
<1> HAVE m - n = 1 /\ Chain(row, bill, n)
<1>1. PICK to \in [Nat -> Nat] :
        (\A i \in Nat : i <= n => to[i] = i) /\ (\A i \in Nat : i > n => to[i] = n + 1)
  <2> DEFINE f == [i \in Nat |-> IF i <= n THEN i ELSE n + 1]
  <2>1. f \in [Nat -> Nat] OBVIOUS
  <2>2. (\A i \in Nat : i <= n => f[i] = i) /\ (\A i \in Nat : i > n => f[i] = n + 1) OBVIOUS
  <2> HIDE DEF f
  <2>3. QED BY <2>1, <2>2
<1>2. PICK more \in [Nat -> Int] : \A i \in Nat : more[i] = 0
  <2> DEFINE f == [i \in Nat |-> 0]
  <2>1. f \in [Nat -> Int] OBVIOUS
  <2>2. QED BY <2>1
<1>3. PICK rowB \in [Nat -> Int] :
        (\A i \in Nat : i <= n + 1 => rowB[i] = row[i]) /\ rowB[n + 2] = row[n + 1] + 1
  <2> DEFINE f == [i \in Nat |-> IF i <= n + 1 THEN row[i] ELSE row[n + 1] + 1]
  <2>1. f \in [Nat -> Int] OBVIOUS
  <2>2. (\A i \in Nat : i <= n + 1 => f[i] = row[i]) /\ f[n + 2] = row[n + 1] + 1 OBVIOUS
  <2> HIDE DEF f
  <2>3. QED BY <2>1, <2>2
<1>4. to \in [Nat -> Nat] /\ more \in [Nat -> Int] /\ rowB \in [Nat -> Int] BY <1>1, <1>2, <1>3
<1>5. Rising(to) /\ Rising(more)
  <2>1. ASSUME NEW i \in Nat, NEW j \in Nat, i <= j PROVE to[i] <= to[j] /\ more[i] <= more[j]
    BY <1>1, <1>2, <2>1
  <2>2. QED BY <2>1 DEF Rising
<1>6. Follows(rowB, m, row, n, to, more)
  <2>1. ASSUME NEW i \in 0 .. n + 1
        PROVE  \/ rowB[i + 1] = rowB[i] + 1
               \/ to[i] \in 0 .. n /\ to[i + 1] = to[i] + 1 /\ rowB[i] = row[to[i]] /\ rowB[i + 1] = row[to[i] + 1]
    <3>1. CASE i = n + 1 BY <1>3, <3>1
    <3>2. CASE i # n + 1
      <4>1. i \in Nat /\ i + 1 \in Nat /\ i <= n /\ i + 1 <= n + 1 BY <3>2
      <4>2. to[i] = i /\ to[i + 1] = i + 1 BY <1>1, <4>1
      <4>3. QED BY <1>3, <4>1, <4>2
    <3>3. QED BY <3>1, <3>2
  <2>2. QED BY <2>1 DEF Follows
<1>7. PICK billB \in [Nat -> Int] : \A i \in Nat : billB[i] = bill[to[i]] + more[i]
  <2> DEFINE f == [i \in Nat |-> bill[to[i]] + more[i]]
  <2>1. f \in [Nat -> Int] OBVIOUS
  <2>2. QED BY <2>1
<1>8. Chain(rowB, billB, m) BY <1>4, <1>5, <1>6, <1>7, ChainMoves
<1>9. n + 2 \in Nat /\ n + 1 \in Nat /\ to[0] = 0 /\ to[n + 2] = n + 1 /\ more[0] = 0 /\ more[n + 2] = 0
  BY <1>1, <1>2, 0 \in Nat
<1>10. billB[0] = bill[0] + 0 /\ billB[n + 2] = bill[n + 1] + 0 BY <1>7, <1>9, 0 \in Nat
<1>11. bill[0] \in Int /\ bill[n + 1] \in Int BY <1>9
<1>12. \A i \in 0 .. n + 1 : rowB[i] = row[i] BY <1>3
<1>13. Grown(rowB, billB, m, row, bill, n) BY <1>3, <1>8, <1>10, <1>11, <1>12 DEF Grown
<1>14. QED BY <1>3, <1>7, <1>13

\* The row without its first index.
LEMMA ChainShrinks ==
  ASSUME NEW row \in [Nat -> Int], NEW bill \in [Nat -> Int], NEW n \in Nat, NEW m \in Nat,
         m - n = 1, Chain(row, bill, m)
  PROVE  \E rowB \in [Nat -> Int], billB \in [Nat -> Int] :
           /\ Chain(rowB, billB, n)
           /\ \A i \in Nat : billB[i] = bill[i + 1]
           /\ \A i \in Nat : rowB[i] = row[i + 1]
<1>1. PICK to \in [Nat -> Nat] : \A i \in Nat : to[i] = i + 1
  <2> DEFINE f == [i \in Nat |-> i + 1]
  <2>1. f \in [Nat -> Nat] OBVIOUS
  <2>2. QED BY <2>1
<1>2. PICK more \in [Nat -> Int] : \A i \in Nat : more[i] = 0
  <2> DEFINE f == [i \in Nat |-> 0]
  <2>1. f \in [Nat -> Int] OBVIOUS
  <2>2. QED BY <2>1
<1>3. PICK rowB \in [Nat -> Int] : \A i \in Nat : rowB[i] = row[i + 1]
  <2> DEFINE f == [i \in Nat |-> row[i + 1]]
  <2>1. f \in [Nat -> Int] OBVIOUS
  <2>2. QED BY <2>1
<1>4. to \in [Nat -> Nat] /\ more \in [Nat -> Int] /\ rowB \in [Nat -> Int] BY <1>1, <1>2, <1>3
<1>5. Rising(to) /\ Rising(more)
  <2>1. ASSUME NEW i \in Nat, NEW j \in Nat, i <= j PROVE to[i] <= to[j] /\ more[i] <= more[j]
    BY <1>1, <1>2, <2>1
  <2>2. QED BY <2>1 DEF Rising
<1>6. Follows(rowB, n, row, m, to, more)
  <2>1. ASSUME NEW i \in 0 .. n
        PROVE  to[i] \in 0 .. n + 1 /\ to[i + 1] = to[i] + 1 /\ rowB[i] = row[to[i]] /\ rowB[i + 1] = row[to[i] + 1]
    <3>1. i \in Nat /\ i + 1 \in Nat /\ i + 1 \in 0 .. n + 1 OBVIOUS
    <3>2. to[i] = i + 1 /\ to[i + 1] = (i + 1) + 1 BY <1>1, <3>1
    <3>3. QED BY <1>3, <3>1, <3>2
  <2>2. QED BY <2>1 DEF Follows
<1>7. PICK billB \in [Nat -> Int] : \A i \in Nat : billB[i] = bill[to[i]] + more[i]
  <2> DEFINE f == [i \in Nat |-> bill[to[i]] + more[i]]
  <2>1. f \in [Nat -> Int] OBVIOUS
  <2>2. QED BY <2>1
<1>8. Chain(rowB, billB, n) BY <1>4, <1>5, <1>6, <1>7, ChainMoves
<1>9. ASSUME NEW i \in Nat PROVE billB[i] = bill[i + 1]
  <2>1. i + 1 \in Nat /\ billB[i] = bill[i + 1] + 0 BY <1>1, <1>2, <1>7
  <2>2. bill[i + 1] \in Int BY <2>1
  <2>3. QED BY <2>1, <2>2
<1>10. QED BY <1>1, <1>3, <1>7, <1>8, <1>9

\* The row without its k-th index: one more to pay.
Shorter(rowB, billB, k, row, bill, n, m) ==
  /\ Chain(rowB, billB, n)
  /\ billB[0] = bill[0] /\ billB[n + 1] = bill[m + 1] + 1
  /\ \A i \in Nat : i < k => rowB[i] = row[i]
  /\ \A i \in Nat : i >= k => rowB[i] = row[i + 1]

\* A row may lose one of its indices.
LEMMA ChainLoses ==
  \A row, bill \in [Nat -> Int], n, m, k \in Nat : m - n = 1 /\ 1 <= k /\ k <= m /\ Chain(row, bill, m) =>
    \E rowB \in [Nat -> Int], billB \in [Nat -> Int] :
      Shorter(rowB, billB, k, row, bill, n, m)
<1> TAKE row, bill \in [Nat -> Int], n, m, k \in Nat
<1> HAVE m - n = 1 /\ 1 <= k /\ k <= m /\ Chain(row, bill, m)
<1>1. PICK to \in [Nat -> Nat] :
        (\A i \in Nat : i < k => to[i] = i) /\ (\A i \in Nat : i >= k => to[i] = i + 1)
  <2> DEFINE f == [i \in Nat |-> IF i < k THEN i ELSE i + 1]
  <2>1. f \in [Nat -> Nat] OBVIOUS
  <2>2. (\A i \in Nat : i < k => f[i] = i) /\ (\A i \in Nat : i >= k => f[i] = i + 1) OBVIOUS
  <2> HIDE DEF f
  <2>3. QED BY <2>1, <2>2
<1>2. PICK more \in [Nat -> Int] :
        (\A i \in Nat : i < k => more[i] = 0) /\ (\A i \in Nat : i >= k => more[i] = 1)
  <2> DEFINE f == [i \in Nat |-> IF i < k THEN 0 ELSE 1]
  <2>1. f \in [Nat -> Int] OBVIOUS
  <2>2. (\A i \in Nat : i < k => f[i] = 0) /\ (\A i \in Nat : i >= k => f[i] = 1) OBVIOUS
  <2> HIDE DEF f
  <2>3. QED BY <2>1, <2>2
<1>3. PICK rowB \in [Nat -> Int] :
        (\A i \in Nat : i < k => rowB[i] = row[i]) /\ (\A i \in Nat : i >= k => rowB[i] = row[i + 1])
  <2> DEFINE f == [i \in Nat |-> IF i < k THEN row[i] ELSE row[i + 1]]
  <2>1. f \in [Nat -> Int] OBVIOUS
  <2>2. (\A i \in Nat : i < k => f[i] = row[i]) /\ (\A i \in Nat : i >= k => f[i] = row[i + 1]) OBVIOUS
  <2> HIDE DEF f
  <2>3. QED BY <2>1, <2>2
<1>4. to \in [Nat -> Nat] /\ more \in [Nat -> Int] /\ rowB \in [Nat -> Int] BY <1>1, <1>2, <1>3
<1>5. Rising(to) /\ Rising(more)
  <2>1. ASSUME NEW i \in Nat, NEW j \in Nat, i <= j PROVE to[i] <= to[j] /\ more[i] <= more[j]
    BY <1>1, <1>2, <2>1
  <2>2. QED BY <2>1 DEF Rising
<1>6. Follows(rowB, n, row, m, to, more)
  <2>1. ASSUME NEW i \in 0 .. n
        PROVE  \/ more[i] < more[i + 1]
               \/ to[i] \in 0 .. n + 1 /\ to[i + 1] = to[i] + 1 /\ rowB[i] = row[to[i]] /\ rowB[i + 1] = row[to[i] + 1]
    <3>1. i \in Nat /\ i + 1 \in Nat /\ i \in 0 .. n + 1 /\ i + 1 \in 0 .. n + 1 OBVIOUS
    <3>2. CASE i + 1 = k BY <1>2, <3>1, <3>2
    <3>3. CASE i + 1 < k
      <4>1. to[i] = i /\ to[i + 1] = i + 1 BY <1>1, <3>1, <3>3
      <4>2. QED BY <1>3, <3>1, <3>3, <4>1
    <3>4. CASE i >= k
      <4>1. to[i] = i + 1 /\ to[i + 1] = (i + 1) + 1 BY <1>1, <3>1, <3>4
      <4>2. QED BY <1>3, <3>1, <3>4, <4>1
    <3>5. QED BY <3>1, <3>2, <3>3, <3>4
  <2>2. QED BY <2>1 DEF Follows
<1>7. PICK billB \in [Nat -> Int] : \A i \in Nat : billB[i] = bill[to[i]] + more[i]
  <2> DEFINE f == [i \in Nat |-> bill[to[i]] + more[i]]
  <2>1. f \in [Nat -> Int] OBVIOUS
  <2>2. QED BY <2>1
<1>8. Chain(rowB, billB, n) BY <1>4, <1>5, <1>6, <1>7, ChainMoves
<1>9. n + 1 \in Nat /\ n + 2 \in Nat /\ to[0] = 0 /\ to[n + 1] = n + 2 /\ more[0] = 0 /\ more[n + 1] = 1
  BY <1>1, <1>2, 0 \in Nat
<1>10. billB[0] = bill[0] + 0 /\ billB[n + 1] = bill[m + 1] + 1 BY <1>7, <1>9, 0 \in Nat
<1>11. bill[0] \in Int OBVIOUS
<1>12. Shorter(rowB, billB, k, row, bill, n, m) BY <1>3, <1>8, <1>10, <1>11 DEF Shorter
<1>13. QED BY <1>3, <1>7, <1>12

\* The row of the indices of s, begun by the one before want and ended by the one given next,
\* has gaps for what spent leaves of total.
RowOf(row, n, s, want, given) ==
  /\ n = Len(s)
  /\ row[0] = want - 1 /\ row[n + 1] = given
  /\ \A i \in 1 .. n : row[i] = s[i]

Covered(s, want, given, spent, total) ==
  \E row \in [Nat -> Int], bill \in [Nat -> Int], n \in Nat :
    /\ RowOf(row, n, s, want, given) /\ Chain(row, bill, n)
    /\ spent <= bill[0] /\ bill[n + 1] <= total

\* What has been skipped was paid for.
LEMMA CoveredIsEnough ==
  ASSUME NEW s, NEW want, NEW given, NEW spent \in Int, NEW total \in Int,
         Covered(s, want, given, spent, total)
  PROVE  spent <= total
<1>1. PICK row \in [Nat -> Int], bill \in [Nat -> Int], n \in Nat :
        /\ RowOf(row, n, s, want, given) /\ Chain(row, bill, n)
        /\ spent <= bill[0] /\ bill[n + 1] <= total
  BY DEF Covered
<1>2. n + 1 \in Nat /\ 0 \in Nat /\ 0 <= n + 1 OBVIOUS
<1>3. bill[0] <= bill[n + 1] BY <1>1, <1>2 DEF Chain, Rising
<1>4. bill[0] \in Int /\ bill[n + 1] \in Int BY <1>2
<1>5. QED BY <1>1, <1>3, <1>4

\* Less may be spent of more.
LEMMA CoveredLoosely ==
  ASSUME NEW s, NEW want, NEW given, NEW spent \in Int, NEW total \in Int,
         Covered(s, want, given, spent, total),
         NEW spentB \in Int, NEW totalB \in Int, spentB <= spent, total <= totalB
  PROVE  Covered(s, want, given, spentB, totalB)
<1>1. PICK row \in [Nat -> Int], bill \in [Nat -> Int], n \in Nat :
        /\ RowOf(row, n, s, want, given) /\ Chain(row, bill, n)
        /\ spent <= bill[0] /\ bill[n + 1] <= total
  BY DEF Covered
<1>2. bill[0] \in Int /\ bill[n + 1] \in Int BY n + 1 \in Nat
<1>3. spentB <= bill[0] /\ bill[n + 1] <= totalB BY <1>1, <1>2
<1>4. QED BY <1>1, <1>3 DEF Covered

\* Another index is given next.
LEMMA CoveredGiven ==
  ASSUME NEW s, NEW want \in Int, NEW given \in Int, NEW spent \in Int, NEW total \in Int,
         Covered(s, want, given, spent, total), NEW givenB \in Int
  PROVE  Covered(s, want, givenB, spent, total + 1)
<1>1. PICK row \in [Nat -> Int], bill \in [Nat -> Int], n \in Nat :
        /\ RowOf(row, n, s, want, given) /\ Chain(row, bill, n)
        /\ spent <= bill[0] /\ bill[n + 1] <= total
  BY DEF Covered
<1>2. PICK rowB \in [Nat -> Int] : rowB[n + 1] = givenB /\ \A i \in 0 .. n : rowB[i] = row[i]
  <2> DEFINE f == [i \in Nat |-> IF i <= n THEN row[i] ELSE givenB]
  <2>1. f \in [Nat -> Int] BY <1>1
  <2>2. f[n + 1] = givenB /\ \A i \in 0 .. n : f[i] = row[i] BY <1>1
  <2> HIDE DEF f
  <2>3. QED BY <2>1, <2>2
<1>3. PICK k \in Nat : k - n = 1 BY n + 1 \in Nat
<1>4. BreaksAt(k, rowB, row, n) BY <1>2, <1>3 DEF BreaksAt
<1>5. PICK billB \in [Nat -> Int] :
        Chain(rowB, billB, n) /\ billB[0] = bill[0] /\ billB[n + 1] = bill[n + 1] + 1
  BY <1>1, <1>2, <1>3, <1>4, ChainBreaks
<1>6. RowOf(rowB, n, s, want, givenB) BY <1>1, <1>2 DEF RowOf
<1>7. spent <= billB[0] /\ billB[n + 1] <= total + 1 BY <1>1, <1>5, n + 1 \in Nat
<1>8. QED BY <1>2, <1>5, <1>6, <1>7 DEF Covered

\* Another index is wanted first.
LEMMA CoveredWant ==
  ASSUME NEW s, NEW want \in Int, NEW given \in Int, NEW spent \in Int, NEW total \in Int,
         Covered(s, want, given, spent, total), NEW wantB \in Int
  PROVE  Covered(s, wantB, given, spent, total + 1)
<1>1. PICK row \in [Nat -> Int], bill \in [Nat -> Int], n \in Nat :
        /\ RowOf(row, n, s, want, given) /\ Chain(row, bill, n)
        /\ spent <= bill[0] /\ bill[n + 1] <= total
  BY DEF Covered
<1>2. PICK rowB \in [Nat -> Int] : rowB[0] = wantB - 1 /\ \A i \in 1 .. n + 1 : rowB[i] = row[i]
  <2> DEFINE f == [i \in Nat |-> IF i = 0 THEN wantB - 1 ELSE row[i]]
  <2>1. f \in [Nat -> Int] BY <1>1
  <2>2. f[0] = wantB - 1 /\ \A i \in 1 .. n + 1 : f[i] = row[i] BY <1>1
  <2> HIDE DEF f
  <2>3. QED BY <2>1, <2>2
<1>3. PICK k \in Nat : k - 1 = 0 OBVIOUS
<1>4. BreaksAt(k, rowB, row, n) BY <1>1, <1>2, <1>3 DEF BreaksAt
<1>5. PICK billB \in [Nat -> Int] :
        Chain(rowB, billB, n) /\ billB[0] = bill[0] /\ billB[n + 1] = bill[n + 1] + 1
  BY <1>1, <1>2, <1>3, <1>4, ChainBreaks
<1>6. RowOf(rowB, n, s, wantB, given)
  <2>1. rowB[n + 1] = row[n + 1] BY <1>1, <1>2, n + 1 \in 1 .. n + 1
  <2>2. \A i \in 1 .. n : rowB[i] = row[i] BY <1>2
  <2>3. QED BY <1>1, <1>2, <2>1, <2>2 DEF RowOf
<1>7. spent <= billB[0] /\ billB[n + 1] <= total + 1 BY <1>1, <1>5, n + 1 \in Nat
<1>8. QED BY <1>2, <1>5, <1>6, <1>7 DEF Covered

\* The last index of the row is another, and the one behind it is given next.
LEMMA CoveredLast ==
  ASSUME NEW s, NEW want \in Int, NEW given \in Int, NEW spent \in Int, NEW total \in Int,
         NEW last \in Int, NEW lastB \in Int,
         Covered(Append(s, last), want, given, spent, total), NEW S, s \in Seq(S)
  PROVE  Covered(Append(s, lastB), want, lastB + 1, spent, total + 1)
<1>1. PICK row \in [Nat -> Int], bill \in [Nat -> Int], n \in Nat :
        /\ RowOf(row, n, Append(s, last), want, given) /\ Chain(row, bill, n)
        /\ spent <= bill[0] /\ bill[n + 1] <= total
  BY DEF Covered
<1>2. n = Len(s) + 1 /\ n >= 1 BY <1>1 DEF RowOf
<1>3. PICK rowB \in [Nat -> Int] :
        rowB[n] = lastB /\ rowB[n + 1] = lastB + 1 /\ \A i \in 0 .. n - 1 : rowB[i] = row[i]
  <2> DEFINE f == [i \in Nat |-> IF i < n THEN row[i] ELSE IF i = n THEN lastB ELSE lastB + 1]
  <2>1. f \in [Nat -> Int] BY <1>1
  <2>2. f[n] = lastB BY <1>1
  <2>3. f[n + 1] = lastB + 1 BY n + 1 \in Nat
  <2>4. \A i \in 0 .. n - 1 : f[i] = row[i] BY <1>1
  <2> HIDE DEF f
  <2>5. QED BY <2>1, <2>2, <2>3, <2>4
<1>4. BreaksAt(n, rowB, row, n)
  <2>1. ASSUME NEW i \in 0 .. n, i + 1 # n
        PROVE  rowB[i + 1] = rowB[i] + 1 \/ (rowB[i] = row[i] /\ rowB[i + 1] = row[i + 1])
    <3>1. CASE i = n BY <1>3, <3>1
    <3>2. CASE i # n
      <4>1. i \in 0 .. n - 1 /\ i + 1 \in 0 .. n - 1 BY <2>1, <3>2
      <4>2. QED BY <1>3, <4>1
    <3>3. QED BY <3>1, <3>2
  <2>2. QED BY <1>2, <2>1 DEF BreaksAt
<1>5. PICK billB \in [Nat -> Int] :
        Chain(rowB, billB, n) /\ billB[0] = bill[0] /\ billB[n + 1] = bill[n + 1] + 1
  BY ZenonT(40), <1>1, <1>3, <1>4, ChainBreaks
<1>6. RowOf(rowB, n, Append(s, lastB), want, lastB + 1)
  <2>1. /\ Len(Append(s, lastB)) = n /\ Append(s, lastB)[n] = lastB
        /\ \A i \in 1 .. n - 1 : Append(s, lastB)[i] = s[i] /\ Append(s, last)[i] = s[i]
    BY <1>2
  <2>2. rowB[0] = want - 1 BY <1>1, <1>2, <1>3, 0 \in 0 .. n - 1 DEF RowOf
  <2>3. ASSUME NEW i \in 1 .. n PROVE rowB[i] = Append(s, lastB)[i]
    <3>1. CASE i = n BY <1>3, <2>1, <3>1
    <3>2. CASE i # n
      <4>1. i \in 1 .. n - 1 /\ i \in 0 .. n - 1 BY <3>2
      <4>2. rowB[i] = row[i] /\ row[i] = Append(s, last)[i] BY <1>1, <1>3, <4>1 DEF RowOf
      <4>3. QED BY <2>1, <4>1, <4>2
    <3>3. QED BY <3>1, <3>2
  <2>4. QED BY <1>3, <2>1, <2>2, <2>3 DEF RowOf
<1>7. spent <= billB[0] /\ billB[n + 1] <= total + 1
  <2>1. bill[n + 1] \in Int BY n + 1 \in Nat
  <2>2. bill[n + 1] <= total /\ billB[n + 1] = bill[n + 1] + 1 BY <1>1, <1>5
  <2>3. billB[n + 1] <= total + 1
    <3> DEFINE end == bill[n + 1]
    <3>1. end \in Int /\ end <= total BY <2>1, <2>2
    <3> HIDE DEF end
    <3>2. end + 1 <= total + 1 BY <3>1
    <3>3. QED BY <2>2, <3>2 DEF end
  <2>4. QED BY <1>1, <1>5, <2>3
<1>8. QED BY <1>3, <1>5, <1>6, <1>7 DEF Covered

\* The index given joins the row, and the one behind it is given next.
LEMMA CoveredAppend ==
  ASSUME NEW s, NEW S, s \in Seq(S),
         NEW want \in Int, NEW given \in Int, NEW spent \in Int, NEW total \in Int,
         Covered(s, want, given, spent, total)
  PROVE  Covered(Append(s, given), want, given + 1, spent, total)
<1>1. PICK row \in [Nat -> Int], bill \in [Nat -> Int], n \in Nat :
        /\ RowOf(row, n, s, want, given) /\ Chain(row, bill, n)
        /\ spent <= bill[0] /\ bill[n + 1] <= total
  BY DEF Covered
<1>2. PICK m \in Nat : m - n = 1 BY n + 1 \in Nat
<1>3. PICK rowB \in [Nat -> Int], billB \in [Nat -> Int] :
        Grown(rowB, billB, m, row, bill, n)
  BY <1>1, <1>2, ChainGrows
<1>4. /\ Chain(rowB, billB, m)
      /\ billB[0] = bill[0] /\ billB[n + 2] = bill[n + 1]
      /\ \A i \in 0 .. n + 1 : rowB[i] = row[i]
      /\ rowB[n + 2] = row[n + 1] + 1
  BY <1>3 DEF Grown
<1>5. RowOf(rowB, m, Append(s, given), want, given + 1)
  <2>1. /\ Len(Append(s, given)) = m /\ Append(s, given)[n + 1] = given
        /\ \A i \in 1 .. n : Append(s, given)[i] = s[i]
    BY <1>1, <1>2 DEF RowOf
  <2>2. rowB[0] = want - 1 /\ rowB[m + 1] = given + 1 BY <1>1, <1>2, <1>4 DEF RowOf
  <2>3. ASSUME NEW i \in 1 .. m PROVE rowB[i] = Append(s, given)[i]
    <3>1. rowB[i] = row[i] BY <1>2, <1>4
    <3>2. CASE i = n + 1 BY <1>1, <2>1, <3>1, <3>2 DEF RowOf
    <3>3. CASE i # n + 1
      <4>1. i \in 1 .. n BY <1>2, <3>3
      <4>2. QED BY <1>1, <2>1, <3>1, <4>1 DEF RowOf
    <3>4. QED BY <3>2, <3>3
  <2>4. QED BY <2>1, <2>2, <2>3 DEF RowOf
<1>6. spent <= billB[0] /\ billB[m + 1] <= total BY <1>1, <1>2, <1>4
<1>7. QED BY <1>3, <1>4, <1>5, <1>6 DEF Covered

\* The first index of the row is looked at.
LEMMA CoveredTail ==
  ASSUME NEW s, NEW S, s \in Seq(S), s # <<>>,
         NEW want \in Int, NEW given \in Int, NEW spent \in Int, NEW total \in Int,
         Covered(s, want, given, spent, total),
         NEW spentB \in Int, IF Head(s) = want THEN spentB <= spent ELSE spentB <= spent + 1
  PROVE  Covered(Tail(s), Head(s) + 1, given, spentB, total)
<1>1. PICK row \in [Nat -> Int], bill \in [Nat -> Int], m \in Nat :
        /\ RowOf(row, m, s, want, given) /\ Chain(row, bill, m)
        /\ spent <= bill[0] /\ bill[m + 1] <= total
  BY DEF Covered
<1>2. m = Len(s) /\ m >= 1 BY <1>1 DEF RowOf
<1>3. PICK n \in Nat : m - n = 1
  <2>1. m - 1 \in Nat /\ m - (m - 1) = 1 BY <1>2
  <2>2. QED BY <2>1
<1>4. PICK rowB \in [Nat -> Int], billB \in [Nat -> Int] :
        /\ Chain(rowB, billB, n)
        /\ \A i \in Nat : billB[i] = bill[i + 1]
        /\ \A i \in Nat : rowB[i] = row[i + 1]
  BY ZenonT(40), <1>1, <1>3, ChainShrinks
<1>5. Head(s) = s[1] /\ row[1] = s[1] BY <1>1, <1>2 DEF RowOf
<1>6. RowOf(rowB, n, Tail(s), Head(s) + 1, given)
  <2>1. Len(Tail(s)) = n /\ \A i \in 1 .. n : Tail(s)[i] = s[i + 1] BY <1>2, <1>3
  <2>2. rowB[0] = (Head(s) + 1) - 1
    <3>1. PICK r \in Int : r = row[1] BY 1 \in Nat
    <3>2. rowB[0] = row[1] BY <1>4, 0 \in Nat
    <3>3. QED BY <1>5, <3>1, <3>2
  <2>3. rowB[n + 1] = given
    <3>1. n + 1 \in Nat /\ (n + 1) + 1 = m + 1 BY <1>3
    <3>2. rowB[n + 1] = row[m + 1] BY <1>4, <3>1
    <3>3. QED BY <1>1, <3>2 DEF RowOf
  <2>4. ASSUME NEW i \in 1 .. n PROVE rowB[i] = Tail(s)[i]
    <3>1. rowB[i] = row[i + 1] BY <1>4
    <3>2. i + 1 \in 1 .. m BY <1>3
    <3>3. row[i + 1] = s[i + 1] BY <1>1, <3>2 DEF RowOf
    <3>4. QED BY <2>1, <3>1, <3>3
  <2>5. QED BY <2>1, <2>2, <2>3, <2>4 DEF RowOf
<1>7. spentB <= billB[0]
  <2>1. billB[0] = bill[1] BY <1>4, 0 \in Nat
  <2>2. bill[0] <= bill[1] BY <1>1, 0 \in Nat, 1 \in Nat DEF Chain, Rising
  <2>3. row[1] # row[0] + 1 => bill[0] < bill[1] BY <1>1, 0 \in 0 .. m DEF Chain
  <2>4. row[0] + 1 = want BY <1>1 DEF RowOf
  <2>5. bill[0] \in Int /\ bill[1] \in Int /\ spent <= bill[0] BY <1>1
  <2>6. QED BY SMTT(30), <1>5, <2>1, <2>2, <2>3, <2>4, <2>5
<1>8. billB[n + 1] <= total BY <1>1, <1>3, <1>4, n + 1 \in Nat
<1>9. QED BY <1>4, <1>6, <1>7, <1>8 DEF Covered

LEMMA RemoveAtIs ==
  ASSUME NEW S, NEW s \in Seq(S), NEW k \in 1 .. Len(s)
  PROVE  /\ Len(RemoveAt(s, k)) = Len(s) - 1
         /\ \A i \in 1 .. Len(s) - 1 : i < k => RemoveAt(s, k)[i] = s[i]
         /\ \A i \in 1 .. Len(s) - 1 : i >= k => RemoveAt(s, k)[i] = s[i + 1]
<1> DEFINE a == SubSeq(s, 1, k - 1)
           b == SubSeq(s, k + 1, Len(s))
<1>1. a \in Seq(S) /\ Len(a) = k - 1 /\ \A i \in 1 .. k - 1 : a[i] = s[i] OBVIOUS
<1>2. b \in Seq(S) /\ Len(b) = Len(s) - k /\ \A i \in 1 .. Len(s) - k : b[i] = s[k + i] OBVIOUS
<1>3. RemoveAt(s, k) = a \o b BY DEF RemoveAt
<1> HIDE DEF a, b
<1>4. Len(a \o b) = Len(s) - 1 BY <1>1, <1>2
<1>5. ASSUME NEW i \in 1 .. Len(s) - 1, i < k PROVE (a \o b)[i] = s[i] BY <1>1, <1>2, <1>5
<1>6. ASSUME NEW i \in 1 .. Len(s) - 1, i >= k PROVE (a \o b)[i] = s[i + 1]
  <2>1. PICK j \in 1 .. Len(s) - k : i = (k - 1) + j BY <1>6, i - (k - 1) \in 1 .. Len(s) - k
  <2>2. (a \o b)[i] = b[j] BY <1>1, <1>2, <1>6, <2>1
  <2>3. b[j] = s[k + j] /\ k + j = i + 1 BY <1>2, <2>1
  <2>4. QED BY <2>2, <2>3
<1>7. QED BY <1>3, <1>4, <1>5, <1>6

\* An index of the row is lost.
LEMMA CoveredRemove ==
  ASSUME NEW s, NEW S, s \in Seq(S), NEW k \in 1 .. Len(s),
         NEW want \in Int, NEW given \in Int, NEW spent \in Int, NEW total \in Int,
         Covered(s, want, given, spent, total)
  PROVE  Covered(RemoveAt(s, k), want, given, spent, total + 1)
<1>1. PICK row \in [Nat -> Int], bill \in [Nat -> Int], m \in Nat :
        /\ RowOf(row, m, s, want, given) /\ Chain(row, bill, m)
        /\ spent <= bill[0] /\ bill[m + 1] <= total
  BY DEF Covered
<1>2. m = Len(s) /\ m >= 1 /\ k \in 1 .. m BY <1>1 DEF RowOf
<1>3. PICK n \in Nat : m - n = 1
  <2>1. m - 1 \in Nat /\ m - (m - 1) = 1 BY <1>2
  <2>2. QED BY <2>1
<1>4. k \in Nat /\ 1 <= k /\ k <= m BY <1>2
<1>5. PICK rowB \in [Nat -> Int], billB \in [Nat -> Int] :
        Shorter(rowB, billB, k, row, bill, n, m)
  BY <1>1, <1>3, <1>4, ChainLoses
<1>6. /\ Chain(rowB, billB, n)
      /\ billB[0] = bill[0] /\ billB[n + 1] = bill[m + 1] + 1
      /\ \A i \in Nat : i < k => rowB[i] = row[i]
      /\ \A i \in Nat : i >= k => rowB[i] = row[i + 1]
  BY <1>5 DEF Shorter
<1>7. RowOf(rowB, n, RemoveAt(s, k), want, given)
  <2>1. /\ Len(RemoveAt(s, k)) = n
        /\ \A i \in 1 .. n : i < k => RemoveAt(s, k)[i] = s[i]
        /\ \A i \in 1 .. n : i >= k => RemoveAt(s, k)[i] = s[i + 1]
    <3>1. n = Len(s) - 1 BY <1>2, <1>3
    <3>2. QED BY <3>1, RemoveAtIs
  <2>2. rowB[0] = want - 1 BY <1>1, <1>6, <1>4, 0 \in Nat DEF RowOf
  <2>3. rowB[n + 1] = given
    <3>1. n + 1 \in Nat /\ n + 1 >= k /\ (n + 1) + 1 = m + 1 BY <1>3, <1>4
    <3>2. rowB[n + 1] = row[m + 1] BY <1>6, <3>1
    <3>3. QED BY <1>1, <3>2 DEF RowOf
  <2>4. ASSUME NEW i \in 1 .. n PROVE rowB[i] = RemoveAt(s, k)[i]
    <3>1. i \in 1 .. m /\ i + 1 \in 1 .. m BY <1>3
    <3>2. row[i] = s[i] /\ row[i + 1] = s[i + 1] BY <1>1, <3>1 DEF RowOf
    <3>3. CASE i < k
      <4>1. rowB[i] = row[i] BY <1>6, <3>3
      <4>2. QED BY <2>1, <3>2, <3>3, <4>1
    <3>4. CASE i >= k
      <4>1. rowB[i] = row[i + 1] BY <1>6, <3>4
      <4>2. QED BY <2>1, <3>2, <3>4, <4>1
    <3>5. QED BY <1>4, <3>3, <3>4
  <2>5. QED BY <2>1, <2>2, <2>3, <2>4 DEF RowOf
<1>8. spent <= billB[0] /\ billB[n + 1] <= total + 1
  <2>1. bill[m + 1] \in Int BY m + 1 \in Nat
  <2>2. bill[m + 1] <= total /\ billB[n + 1] = bill[m + 1] + 1 BY <1>1, <1>6
  <2>3. bill[m + 1] + 1 <= total + 1
    <3>1. PICK b \in Int : b = bill[m + 1] BY <2>1
    <3>2. b <= total BY <2>2, <3>1
    <3>3. b + 1 <= total + 1 BY <3>2
    <3>4. QED BY <3>1, <3>3
  <2>4. QED BY <1>1, <1>6, <2>2, <2>3
<1>9. QED BY <1>5, <1>6, <1>7, <1>8 DEF Covered

LEMMA EmptyCovered == Covered(<<>>, 0, 0, 0, 0)
<1> DEFINE row == [i \in Nat |-> i - 1]
           bill == [i \in Nat |-> 0]
<1>1. row \in [Nat -> Int] /\ bill \in [Nat -> Int] OBVIOUS
<1>2. RowOf(row, 0, <<>>, 0, 0) BY DEF RowOf
<1>3. Chain(row, bill, 0) BY DEF Chain, Rising
<1>4. 0 <= bill[0] /\ bill[0 + 1] <= 0 OBVIOUS
<1> HIDE DEF row, bill
<1>5. QED BY <1>1, <1>2, <1>3, <1>4, 0 \in Nat DEF Covered

-----------------------------------------------------------------------------
(* The probes.                                                             *)

USE ProbeAssumption DEF indexVars, buildVars, checkVars, clearVars, Builders

ProbeInv ==
  /\ checking = "match" => expectIndex \in {probeIn, 0}
  /\ resetting => resets > 0
  /\ resets = 0 /\ numSkipped = 0 => numLatency = expectIndex

Typed == ProbeTypeOK /\ ProbeInv

LEMMA RemoveAtType ==
  ASSUME NEW S, NEW s \in Seq(S), NEW k \in 1 .. Len(s) PROVE RemoveAt(s, k) \in Seq(S)
BY DEF RemoveAt

LEMMA TypedInit == ProbeInit => Typed
<1> SUFFICES ASSUME ProbeInit PROVE ProbeTypeOK /\ ProbeInv BY DEF Typed
<1>1. flight \in Seq(0 .. MaxProbes) BY DEF ProbeInit
<1>2. /\ resetting \in BOOLEAN /\ (resetting => resets > 0)
  BY Zenon DEF ProbeInit
<1>3. ProbeTypeOK BY <1>1, <1>2 DEF ProbeInit, ProbeTypeOK
<1>4. checking = "match" => expectIndex \in {probeIn, 0} BY DEF ProbeInit
<1>5. resets = 0 /\ numSkipped = 0 => numLatency = expectIndex BY DEF ProbeInit
<1>6. QED BY <1>2, <1>3, <1>4, <1>5 DEF ProbeInv

LEMMA TypedStep == Typed /\ [ProbeNext]_probeVars => Typed'
<1> SUFFICES ASSUME Typed, [ProbeNext]_probeVars PROVE ProbeTypeOK' /\ ProbeInv' BY DEF Typed
<1> USE DEF Typed, ProbeTypeOK, ProbeInv
<1>1. MaxProbes \in Nat /\ MaxBuilds \in Nat /\ MaxResets \in Nat OBVIOUS
<1>2. ASSUME NEW b \in Builders, TakeIndex(b) PROVE ProbeTypeOK' /\ ProbeInv'
  BY <1>1, <1>2 DEF TakeIndex
<1>3. ASSUME NEW b \in Builders, StampProbe(b) PROVE ProbeTypeOK' /\ ProbeInv'
  BY <1>1, <1>3 DEF StampProbe
<1>4. ASSUME SendProbe PROVE ProbeTypeOK' /\ ProbeInv'
  BY <1>1, <1>4 DEF SendProbe
<1>5. ASSUME LoseProbe PROVE ProbeTypeOK' /\ ProbeInv'
  BY SMTT(30), <1>1, <1>5, RemoveAtType DEF LoseProbe
<1>6. ASSUME Compare PROVE ProbeTypeOK' /\ ProbeInv'
  <2>1. flight \in Seq(0 .. MaxProbes) /\ flight # <<>> BY <1>6 DEF Compare
  <2>2. Head(flight) \in 0 .. MaxProbes
    <3>1. Head(flight) = flight[1] /\ 1 \in 1 .. Len(flight) BY <2>1
    <3>2. QED BY SMTT(30), <2>1, <3>1, EntryOf
  <2>3. Tail(flight) \in Seq(0 .. MaxProbes) BY <2>1
  <2>4. QED BY <1>1, <1>6, <2>2, <2>3 DEF Compare
<1>7. ASSUME SkipProbe PROVE ProbeTypeOK' /\ ProbeInv'
  BY <1>1, <1>7 DEF SkipProbe, Resume
<1>8. ASSUME CountProbe PROVE ProbeTypeOK' /\ ProbeInv'
  <2>1. expectIndex \in 0 .. MaxProbes BY <1>1, <1>8 DEF CountProbe
  <2>2. ProbeTypeOK' BY <1>1, <1>8, <2>1 DEF CountProbe
  <2>3. ProbeInv' BY <1>8 DEF CountProbe
  <2>4. QED BY <2>2, <2>3
<1>9. ASSUME ClearCounts PROVE ProbeTypeOK' /\ ProbeInv'
  BY <1>1, <1>9 DEF ClearCounts
<1>10. ASSUME ClearIndices PROVE ProbeTypeOK' /\ ProbeInv'
  <2>1. resetting' \in BOOLEAN /\ (resetting' => resets' > 0) BY <1>10, Zenon DEF ClearIndices
  <2>2. resets' # 0 BY <1>10 DEF ClearIndices
  <2>3. expectIndex' = 0 BY <1>10 DEF ClearIndices
  <2>4. ProbeTypeOK' BY <1>1, <1>10, <2>1 DEF ClearIndices
  <2>5. ProbeInv' BY <2>1, <2>2, <2>3
  <2>6. QED BY <2>4, <2>5
<1>11. ASSUME UNCHANGED probeVars PROVE ProbeTypeOK' /\ ProbeInv'
  BY <1>11 DEF probeVars
<1>12. QED BY <1>2, <1>3, <1>4, <1>5, <1>6, <1>7, <1>8, <1>9, <1>10, <1>11 DEF ProbeNext

Sent     == IF building["queue"] = "built" THEN Append(flight, probe) ELSE flight
Given    == IF building["queue"] = "increment" THEN taken["queue"] ELSE nextIndex
Expected == IF checking = "match" THEN expectIndex + 1
            ELSE IF checking = "gap" THEN probeIn + 1 ELSE expectIndex
Spent    == IF checking = "gap" THEN numSkipped + 1 ELSE numSkipped
Wiped    == IF resetting THEN 2 * resets - 2 ELSE 2 * resets
Built    == IF building["command"] = "increment" THEN unsent - 1 ELSE unsent

SkipInv == Covered(Sent, Expected, Given, Spent, probesLost + Built + Wiped)

\* The terms of the invariant are numbers.
LEMMA ProbeSizes ==
  ASSUME Typed
  PROVE  /\ Sent \in Seq(Nat) /\ flight \in Seq(Nat)
         /\ Expected \in Int /\ Given \in Int /\ Spent \in Int /\ Wiped \in Int /\ Built \in Int
         /\ probesLost \in Int
<1>1. 0 .. MaxProbes \subseteq Nat OBVIOUS
<1>2. flight \in Seq(Nat)
  <2>1. flight \in Seq(0 .. MaxProbes) BY Zenon DEF Typed, ProbeTypeOK
  <2>2. QED BY <1>1, <2>1
<1>3. probe \in Nat BY <1>1 DEF Typed, ProbeTypeOK
<1>4. Sent \in Seq(Nat) BY <1>2, <1>3 DEF Sent
<1>5. Expected \in Int BY DEF Expected, Typed, ProbeTypeOK
<1>6. Given \in Int /\ Built \in Int BY DEF Given, Built, Typed, ProbeTypeOK
<1>7. Spent \in Int /\ probesLost \in Int BY DEF Spent, Typed, ProbeTypeOK
<1>8. resets \in Int BY DEF Typed, ProbeTypeOK
<1>9. Wiped \in Int BY <1>8 DEF Wiped
<1>10. QED BY <1>2, <1>4, <1>5, <1>6, <1>7, <1>9

LEMMA SkipInit == ProbeInit => SkipInv
<1> SUFFICES ASSUME ProbeInit PROVE SkipInv OBVIOUS
<1>1. Sent = <<>> /\ Expected = 0 /\ Given = 0 /\ Spent = 0 /\ Built = 0
  BY DEF ProbeInit, Sent, Expected, Given, Spent, Built
<1>2. Wiped = 0 BY DEF ProbeInit, Wiped
<1>3. probesLost + Built + Wiped = 0 BY <1>1, <1>2 DEF ProbeInit
<1>4. Covered(<<>>, 0, 0, 0, 0) BY EmptyCovered
<1>5. QED BY <1>1, <1>3, <1>4 DEF SkipInv

LEMMA SkipTake == ASSUME Typed, SkipInv, NEW b \in Builders, TakeIndex(b) PROVE SkipInv'
<1>1. Expected' = Expected /\ Spent' = Spent BY DEF TakeIndex, Expected, Spent
<1>2. Wiped' = Wiped BY DEF TakeIndex, Wiped
<1>3. Sent' = Sent BY DEF TakeIndex, Sent, Typed, ProbeTypeOK
<1>4. Given' = Given BY DEF TakeIndex, Given, Typed, ProbeTypeOK
<1>5. Built' = Built BY DEF TakeIndex, Built, Typed, ProbeTypeOK
<1>6. probesLost' = probesLost BY DEF TakeIndex
<1>7. QED BY <1>1, <1>2, <1>3, <1>4, <1>5, <1>6 DEF SkipInv

\* The index given next is sent behind the others.
LEMMA SkipStampQueue == ASSUME Typed, SkipInv, StampProbe("queue") PROVE SkipInv'
<1>1. Expected' = Expected /\ Spent' = Spent BY DEF StampProbe, Expected, Spent
<1>2. Wiped' = Wiped BY DEF StampProbe, Wiped
<1>3. Sent' = Append(Sent, Given) BY DEF StampProbe, Sent, Given, Typed, ProbeTypeOK
<1>4. Given' = Given + 1 BY DEF StampProbe, Given, Typed, ProbeTypeOK
<1>5. Built' = Built BY DEF StampProbe, Built, Typed, ProbeTypeOK
<1>6. probesLost' = probesLost BY DEF StampProbe
<1>7. PICK total \in Int : total = probesLost + Built + Wiped BY ProbeSizes
<1>8. Covered(Sent, Expected, Given, Spent, total) BY <1>7 DEF SkipInv
<1>9. Covered(Append(Sent, Given), Expected, Given + 1, Spent, total)
  BY <1>7, <1>8, ProbeSizes, CoveredAppend
<1>10. QED BY <1>1, <1>2, <1>3, <1>4, <1>5, <1>6, <1>7, <1>9 DEF SkipInv

\* An index the command thread takes is never sent: one more to pay.
LEMMA SkipStampCommand == ASSUME Typed, SkipInv, StampProbe("command") PROVE SkipInv'
<1>1. Expected' = Expected /\ Spent' = Spent BY DEF StampProbe, Expected, Spent
<1>2. Wiped' = Wiped BY DEF StampProbe, Wiped
<1>3. Built' = Built + 1 BY DEF StampProbe, Built, Typed, ProbeTypeOK
<1>4. probesLost' = probesLost BY DEF StampProbe
<1>5. PICK total \in Int : total = probesLost + Built + Wiped BY ProbeSizes
<1>6. Covered(Sent, Expected, Given, Spent, total) BY <1>5 DEF SkipInv
<1>7. probesLost' + Built' + Wiped' = total + 1
  <2>1. PICK lost \in Int, built \in Int, cleared \in Int :
          lost = probesLost /\ built = Built /\ cleared = Wiped
    BY ProbeSizes
  <2>2. total = lost + built + cleared BY <1>5, <2>1
  <2>3. lost + (built + 1) + cleared = total + 1 BY <2>2
  <2>4. QED BY <1>2, <1>3, <1>4, <2>1, <2>3
<1>8. SUFFICES Covered(Sent', Expected, Given', Spent, total + 1) BY <1>1, <1>7 DEF SkipInv
<1>9. PICK c \in Int : c = taken["command"] BY DEF Typed, ProbeTypeOK
<1>10. CASE building["queue"] = "built"
  <2>1. Sent = Append(flight, probe) BY <1>10 DEF Sent
  <2>2. Sent' = Append(flight, c) BY <1>9, <1>10 DEF StampProbe, Sent, Typed, ProbeTypeOK
  <2>3. Given' = c + 1 BY <1>9, <1>10 DEF StampProbe, Given, Typed, ProbeTypeOK
  <2>4. probe \in Int BY DEF Typed, ProbeTypeOK
  <2>5. Covered(Append(flight, c), Expected, c + 1, Spent, total + 1)
    BY <1>5, <1>6, <1>9, <2>1, <2>4, ProbeSizes, CoveredLast
  <2>6. QED BY <2>2, <2>3, <2>5
<1>11. CASE building["queue"] # "built"
  <2>1. Sent' = Sent BY <1>11 DEF StampProbe, Sent, Typed, ProbeTypeOK
  <2>2. PICK given \in Int : given = Given'
    <3>1. Given' \in Int BY <1>9, <1>11 DEF StampProbe, Given, Typed, ProbeTypeOK
    <3>2. QED BY <3>1
  <2>3. Covered(Sent, Expected, given, Spent, total + 1) BY <1>5, <1>6, <2>2, ProbeSizes, CoveredGiven
  <2>4. QED BY <2>1, <2>2, <2>3
<1>12. QED BY <1>10, <1>11

LEMMA SkipSend == ASSUME Typed, SkipInv, SendProbe PROVE SkipInv'
<1>1. Expected' = Expected /\ Spent' = Spent BY DEF SendProbe, Expected, Spent
<1>2. Wiped' = Wiped BY DEF SendProbe, Wiped
<1>3. Sent' = Sent BY DEF SendProbe, Sent, Typed, ProbeTypeOK
<1>4. Given' = Given BY DEF SendProbe, Given, Typed, ProbeTypeOK
<1>5. Built' = Built BY DEF SendProbe, Built, Typed, ProbeTypeOK
<1>6. probesLost' = probesLost BY DEF SendProbe
<1>7. QED BY <1>1, <1>2, <1>3, <1>4, <1>5, <1>6 DEF SkipInv

LEMMA RemoveBeforeLast ==
  ASSUME NEW S, NEW s \in Seq(S), NEW e \in S, NEW k \in 1 .. Len(s)
  PROVE  RemoveAt(Append(s, e), k) = Append(RemoveAt(s, k), e)
<1> DEFINE a == RemoveAt(Append(s, e), k)
           b == Append(RemoveAt(s, k), e)
<1>1. /\ a \in Seq(S) /\ Len(a) = Len(s)
      /\ \A i \in 1 .. Len(s) : i < k => a[i] = Append(s, e)[i]
      /\ \A i \in 1 .. Len(s) : i >= k => a[i] = Append(s, e)[i + 1]
  <2>1. PICK t \in Seq(S) : t = Append(s, e)
    <3>1. Append(s, e) \in Seq(S) OBVIOUS
    <3>2. QED BY <3>1
  <2>2. Len(t) = Len(s) + 1 /\ k \in 1 .. Len(t) BY <2>1
  <2>3. /\ Len(RemoveAt(t, k)) = Len(t) - 1
        /\ \A i \in 1 .. Len(t) - 1 : i < k => RemoveAt(t, k)[i] = t[i]
        /\ \A i \in 1 .. Len(t) - 1 : i >= k => RemoveAt(t, k)[i] = t[i + 1]
    BY <2>1, <2>2, RemoveAtIs
  <2>4. RemoveAt(t, k) \in Seq(S) BY <2>1, <2>2, RemoveAtType
  <2>5. Len(t) - 1 = Len(s) BY <2>2
  <2>6. QED BY <2>1, <2>3, <2>4, <2>5
<1>2. PICK r \in Seq(S) : r = RemoveAt(s, k)
  <2>1. RemoveAt(s, k) \in Seq(S) BY RemoveAtType
  <2>2. QED BY <2>1
<1>3. /\ Len(r) = Len(s) - 1
      /\ \A i \in 1 .. Len(s) - 1 : i < k => r[i] = s[i]
      /\ \A i \in 1 .. Len(s) - 1 : i >= k => r[i] = s[i + 1]
  BY <1>2, RemoveAtIs
<1>4. b = Append(r, e) /\ b \in Seq(S) /\ Len(b) = Len(s) BY <1>2, <1>3
<1>5. b[Len(s)] = e /\ \A i \in 1 .. Len(s) - 1 : b[i] = r[i] BY <1>3, <1>4
<1>6. Append(s, e)[Len(s) + 1] = e /\ \A i \in 1 .. Len(s) : Append(s, e)[i] = s[i] OBVIOUS
<1> HIDE DEF a, b
<1>7. ASSUME NEW i \in 1 .. Len(s) PROVE a[i] = b[i]
  <2>1. CASE i < k
    <3>1. i \in 1 .. Len(s) - 1 BY <2>1
    <3>2. a[i] = s[i] BY <1>1, <1>6, <2>1
    <3>3. b[i] = s[i] BY <1>3, <1>5, <2>1, <3>1
    <3>4. QED BY <3>2, <3>3
  <2>2. CASE i >= k /\ i = Len(s)
    <3>1. a[i] = e BY <1>1, <1>6, <2>2
    <3>2. QED BY <1>5, <2>2, <3>1
  <2>3. CASE i >= k /\ i # Len(s)
    <3>1. i \in 1 .. Len(s) - 1 /\ i + 1 \in 1 .. Len(s) BY <2>3
    <3>2. a[i] = s[i + 1] BY <1>1, <1>6, <2>3, <3>1
    <3>3. b[i] = s[i + 1] BY <1>3, <1>5, <2>3, <3>1
    <3>4. QED BY <3>2, <3>3
  <2>4. QED BY <2>1, <2>2, <2>3
<1>8. a = b BY <1>1, <1>4, <1>7
<1>9. QED BY <1>8 DEF a, b

\* A lost probe leaves one gap more.
LEMMA SkipLose == ASSUME Typed, SkipInv, LoseProbe PROVE SkipInv'
<1>1. Expected' = Expected /\ Spent' = Spent BY DEF LoseProbe, Expected, Spent
<1>2. Wiped' = Wiped BY DEF LoseProbe, Wiped
<1>3. PICK k \in 1 .. Len(flight) : flight' = RemoveAt(flight, k) BY DEF LoseProbe
<1>4. Given' = Given /\ Built' = Built BY DEF LoseProbe, Given, Built
<1>5. probesLost' = probesLost + 1 BY DEF LoseProbe
<1>6. PICK total \in Int : total = probesLost + Built + Wiped BY ProbeSizes
<1>7. Covered(Sent, Expected, Given, Spent, total) BY <1>6 DEF SkipInv
<1>8. probesLost' + Built' + Wiped' = total + 1
  <2>1. (probesLost + 1) + Built + Wiped = total + 1 BY SMTT(30), <1>6, ProbeSizes
  <2>2. QED BY <1>2, <1>4, <1>5, <2>1
<1>9. k \in 1 .. Len(Sent) /\ Sent' = RemoveAt(Sent, k)
  <2>1. CASE building["queue"] = "built"
    <3>1. probe \in Nat /\ flight \in Seq(Nat) BY ProbeSizes DEF Typed, ProbeTypeOK
    <3>2. Sent = Append(flight, probe) BY <2>1 DEF Sent
    <3>3. Sent' = Append(RemoveAt(flight, k), probe) BY <1>3, <2>1 DEF LoseProbe, Sent
    <3>4. Len(Sent) = Len(flight) + 1 BY <3>1, <3>2
    <3>5. RemoveAt(Append(flight, probe), k) = Append(RemoveAt(flight, k), probe)
      BY <3>1, RemoveBeforeLast
    <3>6. k \in 1 .. Len(Sent) BY <3>1, <3>4
    <3>7. QED BY <3>2, <3>3, <3>5, <3>6
  <2>2. CASE building["queue"] # "built" BY <1>3, <2>2 DEF LoseProbe, Sent
  <2>3. QED BY <2>1, <2>2
<1>10. Covered(RemoveAt(Sent, k), Expected, Given, Spent, total + 1)
  BY <1>6, <1>7, <1>9, ProbeSizes, CoveredRemove
<1>11. QED BY <1>1, <1>4, <1>8, <1>9, <1>10 DEF SkipInv

\* The receive thread meets the gap at the front of the row.
LEMMA SkipCompare == ASSUME Typed, SkipInv, Compare PROVE SkipInv'
<1>1. Wiped' = Wiped /\ Given' = Given /\ Built' = Built /\ probesLost' = probesLost
  BY DEF Compare, Wiped, Given, Built
<1>2. flight \in Seq(Nat) /\ flight # <<>> BY ProbeSizes DEF Compare
<1>3. PICK first \in Nat : first = Head(flight) BY <1>2
<1>4. Sent # <<>> /\ Head(Sent) = first /\ Sent' = Tail(Sent)
  <2>1. CASE building["queue"] = "built"
    <3>1. probe \in Nat BY DEF Typed, ProbeTypeOK
    <3>2. /\ Append(flight, probe) # <<>> /\ Head(Append(flight, probe)) = first
          /\ Tail(Append(flight, probe)) = Append(Tail(flight), probe)
      BY SMTT(30), <1>2, <1>3, <3>1
    <3>3. QED BY <2>1, <3>2 DEF Compare, Sent
  <2>2. CASE building["queue"] # "built" BY <1>2, <1>3, <2>2 DEF Compare, Sent
  <2>3. QED BY <2>1, <2>2
<1>5. Expected = expectIndex /\ Spent = numSkipped /\ Expected' = first + 1
  BY <1>3 DEF Compare, Expected, Spent
<1>6. IF first = Expected THEN Spent' = Spent ELSE Spent' = Spent + 1
  BY <1>3, <1>5 DEF Compare, Spent
<1>7. PICK total \in Int : total = probesLost + Built + Wiped BY ProbeSizes
<1>8. Covered(Sent, Expected, Given, Spent, total) BY <1>7 DEF SkipInv
<1>9. PICK spent \in Int : spent = Spent' /\ IF first = Expected THEN spent <= Spent ELSE spent <= Spent + 1
  BY <1>6, ProbeSizes
<1>10. Covered(Tail(Sent), first + 1, Given, spent, total)
  BY <1>4, <1>7, <1>8, <1>9, ProbeSizes, CoveredTail
<1>11. QED BY <1>1, <1>4, <1>5, <1>7, <1>9, <1>10 DEF SkipInv

LEMMA SkipSkip == ASSUME Typed, SkipInv, SkipProbe PROVE SkipInv'
<1>1. Sent' = Sent /\ Given' = Given /\ Built' = Built BY DEF SkipProbe, Sent, Given, Built
<1>2. Wiped' = Wiped /\ probesLost' = probesLost BY DEF SkipProbe, Wiped
<1>3. Expected' = Expected /\ Spent' = Spent BY DEF SkipProbe, Resume, Expected, Spent
<1>4. QED BY <1>1, <1>2, <1>3 DEF SkipInv

LEMMA SkipCount == ASSUME Typed, SkipInv, CountProbe PROVE SkipInv'
<1>1. Sent' = Sent /\ Given' = Given /\ Built' = Built BY DEF CountProbe, Sent, Given, Built
<1>2. Wiped' = Wiped /\ probesLost' = probesLost BY DEF CountProbe, Wiped
<1>3. Expected' = Expected /\ Spent' = Spent BY DEF CountProbe, Expected, Spent
<1>4. QED BY <1>1, <1>2, <1>3 DEF SkipInv

\* A clear pays for two breaks: the index wanted and the index given.
LEMMA SkipClearCounts == ASSUME Typed, SkipInv, ClearCounts PROVE SkipInv'
<1>1. Sent' = Sent /\ Given' = Given /\ Built' = Built /\ Expected' = Expected
  BY DEF ClearCounts, Sent, Given, Built, Expected
<1>2. probesLost' = probesLost BY DEF ClearCounts
<1>3. Wiped' = Wiped
  <2>1. resets \in Int BY DEF Typed, ProbeTypeOK
  <2>2. Wiped = 2 * resets BY DEF ClearCounts, Wiped
  <2>3. Wiped' = 2 * (resets + 1) - 2 BY DEF ClearCounts, Wiped
  <2>4. QED BY <2>1, <2>2, <2>3
<1>4. Spent' \in Int /\ Spent' <= Spent BY DEF ClearCounts, Spent, Typed, ProbeTypeOK
<1>5. PICK total \in Int : total = probesLost + Built + Wiped BY ProbeSizes
<1>6. Covered(Sent, Expected, Given, Spent, total) BY <1>5 DEF SkipInv
<1>7. PICK spent \in Int : spent = Spent' /\ spent <= Spent BY <1>4
<1>8. Covered(Sent, Expected, Given, spent, total) BY <1>5, <1>6, <1>7, ProbeSizes, CoveredLoosely
<1>9. QED BY <1>1, <1>2, <1>3, <1>5, <1>7, <1>8 DEF SkipInv

LEMMA SkipClearIndices == ASSUME Typed, SkipInv, ClearIndices PROVE SkipInv'
<1>1. Sent' = Sent /\ Built' = Built /\ Spent' = Spent /\ probesLost' = probesLost
  BY DEF ClearIndices, Sent, Built, Spent
<1>2. PICK given \in Int : given = Given'
  <2>1. Given' \in Int BY DEF ClearIndices, Given, Typed, ProbeTypeOK
  <2>2. QED BY <2>1
<1>3. PICK want \in Int : want = Expected'
  <2>1. Expected' \in Int BY DEF ClearIndices, Expected, Typed, ProbeTypeOK
  <2>2. QED BY <2>1
<1>4. Wiped' = Wiped + 2
  <2>1. resets \in Int BY DEF Typed, ProbeTypeOK
  <2>2. Wiped = 2 * resets - 2 BY DEF ClearIndices, Wiped
  <2>3. Wiped' = 2 * resets BY DEF ClearIndices, Wiped
  <2>4. QED BY <2>1, <2>2, <2>3
<1>5. PICK total \in Int : total = probesLost + Built + Wiped BY ProbeSizes
<1>6. Covered(Sent, Expected, Given, Spent, total) BY <1>5 DEF SkipInv
<1>7. PICK more \in Int : more = total + 1 BY <1>5
<1>8. Covered(Sent, want, Given, Spent, more) BY <1>3, <1>5, <1>6, <1>7, ProbeSizes, CoveredWant
<1>9. Covered(Sent, want, given, Spent, more + 1) BY <1>2, <1>3, <1>7, <1>8, ProbeSizes, CoveredGiven
<1>10. more + 1 = probesLost' + Built' + Wiped'
  <2>1. PICK lost \in Int, built \in Int, cleared \in Int :
          lost = probesLost /\ built = Built /\ cleared = Wiped
    BY ProbeSizes
  <2>2. total = lost + built + cleared BY <1>5, <2>1
  <2>3. lost + built + (cleared + 2) = more + 1 BY <1>7, <2>2
  <2>4. QED BY <1>1, <1>4, <2>1, <2>3
<1>11. QED BY <1>1, <1>2, <1>3, <1>9, <1>10 DEF SkipInv

\* Every step keeps the invariant.
LEMMA SkipStep == Typed /\ SkipInv /\ [ProbeNext]_probeVars => SkipInv'
<1> SUFFICES ASSUME Typed, SkipInv, [ProbeNext]_probeVars PROVE SkipInv' OBVIOUS
<1>1. ASSUME NEW b \in Builders, StampProbe(b) PROVE SkipInv'
  BY <1>1, SkipStampQueue, SkipStampCommand
<1>2. CASE UNCHANGED probeVars
  BY <1>2 DEF probeVars, SkipInv, Sent, Expected, Given, Spent, Built, Wiped
<1>3. QED
  BY <1>1, <1>2, SkipTake, SkipSend, SkipLose, SkipCompare, SkipSkip, SkipCount, SkipClearCounts, SkipClearIndices
     DEF ProbeNext

LEMMA SkipsAreExplained == Typed /\ SkipInv => SkipsExplained
<1> SUFFICES ASSUME Typed, SkipInv PROVE SkipsExplained OBVIOUS
<1>1. PICK total \in Int : total = probesLost + Built + Wiped BY ProbeSizes
<1>2. Covered(Sent, Expected, Given, Spent, total) BY <1>1 DEF SkipInv
<1>3. Spent <= total BY <1>1, <1>2, ProbeSizes, CoveredIsEnough
<1>4. numSkipped <= Spent BY DEF Spent, Typed, ProbeTypeOK
<1>5. Built <= unsent /\ unsent \in Int BY DEF Built, Typed, ProbeTypeOK
<1>6. Wiped <= 2 * resets /\ resets \in Int
  <2>1. resets \in Int BY DEF Typed, ProbeTypeOK
  <2>2. QED BY <2>1 DEF Wiped
<1>7. numSkipped \in Int BY DEF Typed, ProbeTypeOK
<1>8. numSkipped <= probesLost + unsent + 2 * resets BY SMTT(30), <1>1, <1>3, <1>4, <1>5, <1>6, <1>7, ProbeSizes
<1>9. QED BY <1>8 DEF SkipsExplained, Typed, ProbeInv

\* The indices and counts of the probes keep their type.
THEOREM LatencyTypeCorrect == ProbeSpec => []ProbeTypeOK
<1>1. Typed => ProbeTypeOK BY DEF Typed
<1>2. QED BY <1>1, TypedInit, TypedStep, PTL DEF ProbeSpec

\* Every probe the receive thread counts as skipped is one that was lost, one the
\* command thread built and never sent, or one of two for each clear of the statistics
\* (pktgen_tstamp_inject, pktgen_tstamp_check).
THEOREM EverySkipHasACause == ProbeSpec => []SkipsExplained
BY TypedInit, TypedStep, SkipInit, SkipStep, SkipsAreExplained, PTL DEF ProbeSpec
=============================================================================
