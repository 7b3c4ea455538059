--------------------------- MODULE ConsoleProofs ----------------------------
(***************************************************************************)
(* Theorems about what the user sees and types: the log and its page       *)
(* (LogPage), the statistics (PortStats), the command history (CliHistory) *)
(* and the line being edited (LineEditor), for every size of them.         *)
(***************************************************************************)
EXTENDS LogPage, PortStats, CliHistory, LineEditor, Integers, Remainders, FiniteSetTheorems, TLAPS

(* The log and its page.                                                   *)

\* Messages that head has moved past, and messages that tail has.
HeadPast == IF writer = "stored" THEN logged - 1 ELSE logged
Lost(m) == IF m < LogHistory THEN 0 ELSE m - LogHistory + 1
Bumped == IF writer = "moved" THEN Lost(HeadPast - 1) ELSE Lost(HeadPast)

RingInv ==
  /\ writer # "unlocked" => logged > 0
  /\ head = HeadPast % LogHistory /\ tail = Bumped % LogHistory
  /\ \A k \in 1 .. logged : logged - k < LogHistory => ring[(k - 1) % LogHistory] = k

\* No writer can have come round to the messages the page is to read.
InTime == settled \/ logged - sampled < LogHistory - PageLines

\* The page goes back from message m.
Reading(m) ==
  /\ m \in {sampled - 1, sampled} /\ Len(lines) <= m
  /\ settled => m = logged
  /\ cursor = (m - Len(lines)) % LogHistory
  /\ \A i \in 1 .. Len(lines) : lines[i] = m + 1 - i
  /\ settled \/ Len(lines) < PageLines => m - Len(lines) >= Bumped
  /\ page = "print" =>
       /\ shown = [i \in 1 .. Len(lines) |-> m - Len(lines) + i]
       /\ settled => Len(lines) = PageLines \/ m - Len(lines) = Bumped

PageInv ==
  /\ settled /\ page # "idle" => writer = "unlocked"
  /\ page \in {"read", "print"} => sampled <= logged
  /\ page \in {"read", "print"} /\ InTime => \E m \in Nat : Reading(m)

LogIInv == LogTypeOK /\ RingInv /\ PageInv /\ StaleOnlyIfOverlapped

USE DEF ringVars, pageVars

\* Where the writer of a message stands.
LEMMA LogFacts ==
  ASSUME LogTypeOK, RingInv
  PROVE  /\ LogHistory \in Nat \ {0} /\ LogHistory > 1 /\ PageLines \in Nat \ {0}
         /\ logged \in Nat /\ sampled \in Nat /\ HeadPast \in Nat /\ Bumped \in Nat
         /\ Bumped <= HeadPast /\ HeadPast <= logged /\ logged <= HeadPast + 1
         /\ writer = "moved" => Bumped = Lost(logged - 1)
         /\ writer \in {"unlocked", "bumped"} => HeadPast = logged /\ Bumped = Lost(logged)
         /\ writer = "stored" => HeadPast = logged - 1 /\ Bumped = Lost(logged - 1)
         /\ Len(lines) \in Nat /\ Len(lines) <= PageLines
         /\ writer \in {"unlocked", "stored", "moved", "bumped"}
<1>1. logged \in Nat /\ sampled \in Nat BY LogAssumption DEF LogAssumption, LogTypeOK
<1>2. QED BY <1>1, LogAssumption DEF LogAssumption, LogTypeOK, RingInv, HeadPast, Bumped, Lost

\* Every step keeps the type.
LEMMA LogTypeStep ==
  ASSUME LogTypeOK, RingInv, LogNext
  PROVE  LogTypeOK'
<1> USE LogAssumption DEF LogAssumption, LogTypeOK
<1>1. LogHistory \in Nat \ {0} /\ head \in Nat /\ tail \in Nat /\ cursor \in Nat BY DEF Entries
<1>2. settled' \in BOOLEAN /\ needRefresh' \in BOOLEAN
  BY Zenon DEF LogNext, LogWriter, LogTimer, StoreMessage, MoveHead, MoveTail, EndLog, AskRefresh,
     BeginPage, ReadHead, ReadLine, PrintPage, EndPage
<1>3. \A m \in Nat : m % LogHistory \in Entries BY <1>1, ModIs DEF Entries
<1>4. CASE StoreMessage
  <2>1. logged' \in 0 .. MaxMessages BY <1>4 DEF StoreMessage
  <2>2. ring' \in [Entries -> 0 .. MaxMessages] BY <1>4, <2>1 DEF StoreMessage
  <2>3. QED BY <1>2, <1>4, <2>1, <2>2 DEF StoreMessage
<1>5. CASE MoveHead
  <2>1. head' \in Entries BY <1>1, <1>3, <1>5, head + 1 \in Nat DEF MoveHead
  <2>2. QED BY <1>2, <1>5, <2>1 DEF MoveHead
<1>6. CASE MoveTail
  <2>1. tail' \in Entries BY <1>1, <1>3, <1>6, tail + 1 \in Nat DEF MoveTail, BumpTail
  <2>2. QED BY <1>2, <1>6, <2>1 DEF MoveTail
<1>7. CASE EndLog BY <1>2, <1>7 DEF EndLog
<1>8. CASE BeginPage BY <1>2, <1>8 DEF BeginPage
<1>9. CASE ReadHead
  <2>1. lines' \in Seq(0 .. MaxMessages) /\ Len(lines') = 0 BY <1>9 DEF ReadHead
  <2>2. QED BY <1>2, <1>9, <2>1 DEF ReadHead
<1>10. CASE ReadLine
  <2>1. cursor' \in Entries
    <3>1. cursor + LogHistory - 1 \in Nat BY <1>1
    <3>2. QED BY <1>3, <1>10, <3>1 DEF ReadLine, OlderLine
  <2>2. ring[cursor'] \in 0 .. MaxMessages BY <2>1
  <2>3. lines' \in Seq(0 .. MaxMessages) /\ Len(lines') <= PageLines BY <1>10, <2>2 DEF ReadLine
  <2>4. QED BY <1>2, <1>10, <2>1, <2>3 DEF ReadLine
<1>11. CASE PrintPage
  <2>1. shown' \in Seq(0 .. MaxMessages)
    <3>1. Len(lines) \in Nat /\ \A i \in 1 .. Len(lines) : lines[Len(lines) + 1 - i] \in 0 .. MaxMessages
      OBVIOUS
    <3>2. QED BY <1>11, <3>1 DEF PrintPage
  <2>2. QED BY <1>2, <1>11, <2>1 DEF PrintPage
<1>12. CASE EndPage BY <1>2, <1>12 DEF EndPage
<1>13. QED BY <1>4, <1>5, <1>6, <1>7, <1>8, <1>9, <1>10, <1>11, <1>12 DEF LogNext, LogWriter, LogTimer

\* Every step of a writer keeps the newest messages in the ring.
LEMMA RingStep ==
  ASSUME LogTypeOK, RingInv, LogNext
  PROVE  RingInv'
<1> USE LogFacts
<1>1. CASE StoreMessage
  <2>1. /\ logged' = logged + 1 /\ UNCHANGED <<head, tail>> /\ writer = "unlocked" /\ writer' = "stored"
        /\ ring' = [ring EXCEPT ![head] = logged + 1]
    BY <1>1 DEF StoreMessage
  <2>2. HeadPast' = logged /\ Bumped' = Lost(logged) BY <2>1 DEF HeadPast, Bumped, Lost
  <2>3. head = logged % LogHistory /\ DOMAIN ring = Entries /\ head \in Entries
    BY <2>1 DEF RingInv, LogTypeOK
  <2>4. ASSUME NEW k \in 1 .. logged', logged' - k < LogHistory
        PROVE  ring'[(k - 1) % LogHistory] = k
    <3>1. CASE k = logged + 1 BY <2>1, <2>3, <3>1
    <3>2. CASE k \in 1 .. logged
      <4>1. k - 1 \in Nat /\ k - 1 < logged /\ logged - (k - 1) < LogHistory BY <2>1, <2>4, <3>2
      <4>2. logged % LogHistory # (k - 1) % LogHistory BY <4>1, ModApart
      <4>3. (k - 1) % LogHistory \in Entries BY <4>1, ModIs DEF Entries
      <4>4. ring[(k - 1) % LogHistory] = k BY <2>1, <2>4, <3>2 DEF RingInv
      <4>5. QED BY <2>1, <2>3, <4>2, <4>3, <4>4
    <3>3. QED BY <2>1, <3>1, <3>2
  <2>5. QED BY <2>1, <2>2, <2>3, <2>4 DEF RingInv
<1>2. CASE MoveHead
  <2>1. /\ writer = "stored" /\ writer' = "moved" /\ UNCHANGED <<ring, tail, logged>>
        /\ head' = (head + 1) % LogHistory
    BY <1>2 DEF MoveHead
  <2>2. HeadPast' = logged /\ HeadPast = logged - 1 /\ Bumped' = Bumped BY <2>1 DEF HeadPast, Bumped
  <2>3. head' = logged % LogHistory BY SMTT(30), <2>1, <2>2, ModSum DEF RingInv
  <2>4. QED BY <2>1, <2>2, <2>3 DEF RingInv
<1>3. CASE MoveTail
  <2>1. /\ writer = "moved" /\ writer' = "bumped" /\ UNCHANGED <<ring, head, logged>> /\ BumpTail
    BY <1>3 DEF MoveTail
  <2>2. /\ HeadPast' = logged /\ HeadPast = logged /\ Bumped' = Lost(logged) /\ Bumped = Lost(logged - 1)
        /\ logged > 0
    BY <2>1 DEF HeadPast, Bumped, RingInv
  <2>3. tail' = Lost(logged) % LogHistory
    <3>1. CASE logged >= LogHistory
      <4>1. Bumped = logged - LogHistory /\ Lost(logged) = Bumped + 1 BY <2>2, <3>1 DEF Lost
      <4>2. head = tail
        <5>1. PICK q \in Nat : Bumped = LogHistory * q + tail BY <2>1, ModIs DEF RingInv
        <5>2. tail \in 0 .. LogHistory - 1 BY ModIs DEF RingInv
        <5>3. LogHistory * (q + 1) = LogHistory * q + LogHistory OBVIOUS
        <5>4. logged = LogHistory * (q + 1) + tail
          <6>1. LogHistory * q \in Int /\ logged = Bumped + LogHistory BY <4>1
          <6>2. QED BY <5>1, <5>2, <5>3, <6>1
        <5>5. logged % LogHistory = tail
          <6>1. PICK a \in Int : a = q + 1 OBVIOUS
          <6>2. logged = LogHistory * a + tail BY <5>4, <6>1
          <6>3. PICK b \in Nat : b = logged OBVIOUS
          <6>4. LogHistory \in Nat \ {0} /\ b = LogHistory * a + tail BY <6>2, <6>3
          <6>5. b % LogHistory = tail BY ONLY <5>2, <6>4, a \in Int, b \in Nat, ModUnique
          <6>6. QED BY <6>3, <6>5
        <5>6. QED BY <2>2, <5>5 DEF RingInv
      <4>3. ((Bumped % LogHistory) + 1) % LogHistory = (Bumped + 1) % LogHistory BY ModSum
      <4>4. QED BY <2>1, <4>1, <4>2, <4>3 DEF BumpTail, RingInv
    <3>2. CASE logged < LogHistory
      <4>1. Bumped = 0 /\ Lost(logged) = 0 BY <2>2, <3>2 DEF Lost
      <4>2. head # tail BY <2>2, <3>2, <4>1, ModApart DEF RingInv
      <4>3. QED BY <2>1, <4>1, <4>2 DEF BumpTail, RingInv
    <3>3. QED BY <3>1, <3>2
  <2>4. QED BY <2>1, <2>2, <2>3 DEF RingInv
<1>4. CASE EndLog
  <2>1. UNCHANGED <<ring, head, tail, logged>> /\ writer = "bumped" /\ writer' = "unlocked"
    BY <1>4 DEF EndLog
  <2>2. HeadPast' = HeadPast /\ Bumped' = Bumped BY <2>1 DEF HeadPast, Bumped
  <2>3. QED BY <2>1, <2>2 DEF RingInv
<1>5. CASE LogTimer
  <2>1. UNCHANGED ringVars BY <1>5 DEF LogTimer, BeginPage, ReadHead, ReadLine, PrintPage, EndPage
  <2>2. QED BY <2>1 DEF RingInv, HeadPast, Bumped
<1>6. QED BY <1>1, <1>2, <1>3, <1>4, <1>5 DEF LogNext, LogWriter

-----------------------------------------------------------------------------
\* A message that is still in the ring is read back.
LEMMA InTheRing ==
  ASSUME LogTypeOK, RingInv, NEW m \in Nat \ {0}, m <= logged, logged - m < LogHistory,
         cursor = m % LogHistory
  PROVE  OlderLine(cursor) = (m - 1) % LogHistory /\ ring[OlderLine(cursor)] = m
<1>1. LogHistory \in Nat \ {0} /\ logged \in Nat BY LogFacts
<1>2. OlderLine(cursor) = (m - 1) % LogHistory BY <1>1, ModBack DEF OlderLine
<1>3. m \in 1 .. logged BY <1>1
<1>4. QED BY <1>2, <1>3 DEF RingInv

\* What the writer does to a page that is being read.
LEMMA WriterKeepsPage ==
  ASSUME LogTypeOK, RingInv, RingInv', LogTypeOK', PageInv, LogWriter
  PROVE  PageInv'
<1> USE LogFacts
<1>1. UNCHANGED pageVars
  BY DEF LogWriter, StoreMessage, MoveHead, MoveTail, EndLog
<1>2. settled' => settled
  BY Zenon DEF LogWriter, StoreMessage, MoveHead, MoveTail, EndLog
<1>3. ~(settled' /\ page # "idle")
  <2>1. SUFFICES ASSUME settled', page # "idle" PROVE FALSE OBVIOUS
  <2>2. writer = "unlocked" BY <1>2, <2>1, Zenon DEF PageInv
  <2>3. StoreMessage BY <2>2 DEF LogWriter, MoveHead, MoveTail, EndLog
  <2>4. QED BY <2>1, <2>3, Zenon DEF StoreMessage
<1>4. logged' \in {logged, logged + 1} /\ page' = page /\ sampled' = sampled
  BY DEF LogWriter, StoreMessage, MoveHead, MoveTail, EndLog, pageVars
<1>5. ASSUME page \in {"read", "print"}, logged' - sampled < LogHistory - PageLines
      PROVE  \E m \in Nat : Reading(m)'
  <2>1. InTime
    <3>1. logged - sampled < LogHistory - PageLines BY <1>4, <1>5
    <3>2. QED BY <3>1, Zenon DEF InTime
  <2>2. PICK m \in Nat : Reading(m) BY <1>5, <2>1, Zenon DEF PageInv
  <2>3. /\ m \in {sampled - 1, sampled} /\ Len(lines) <= m
        /\ Len(lines) < PageLines => m - Len(lines) >= Bumped
    BY <2>2, Zenon DEF Reading
  <2>4. Len(lines) < PageLines => m - Len(lines) >= Bumped'
    <3>1. CASE MoveTail
      <4>1. Bumped' = Lost(logged) /\ logged' = logged BY <3>1 DEF MoveTail, Bumped, HeadPast
      <4>2. QED BY <1>5, <2>3, <4>1 DEF Lost
    <3>2. CASE ~MoveTail
      <4>1. Bumped' = Bumped
        BY <3>2 DEF LogWriter, StoreMessage, MoveHead, EndLog, Bumped, HeadPast
      <4>2. QED BY <2>3, <4>1
    <3>3. QED BY <3>1, <3>2
  <2>5. ~settled' BY <1>3, <1>5, Zenon
  <2>6. Reading(m)'
    BY <1>1, <2>2, <2>4, <2>5 DEF Reading
  <2>7. QED BY <2>6
<1>6. ~settled' \/ page' \notin {"read", "print"} BY <1>3, <1>4
<1>7. page' \in {"read", "print"} => sampled' <= logged'
  <2>1. page \in {"read", "print"} => sampled <= logged BY Zenon DEF PageInv
  <2>2. QED BY <1>4, <2>1
<1>8. page' \in {"read", "print"} /\ InTime' => \E m \in Nat : Reading(m)'
  <2>1. SUFFICES ASSUME page' \in {"read", "print"}, InTime' PROVE \E m \in Nat : Reading(m)'
    OBVIOUS
  <2>2. logged' - sampled' < LogHistory - PageLines BY <1>6, <2>1, Zenon DEF InTime
  <2>3. QED BY <1>4, <1>5, <2>1, <2>2
<1>9. settled' /\ page' # "idle" => writer' = "unlocked" BY <1>3, <1>4
<1>10. QED BY <1>7, <1>8, <1>9, Zenon DEF PageInv

\* Each line the page reads is the message before the last one read.
LEMMA TimerKeepsPage ==
  ASSUME LogTypeOK, RingInv, PageInv, LogTimer
  PROVE  PageInv'
<1> USE LogFacts
<1>1. CASE BeginPage
  <2>1. page' = "begin" BY <1>1 DEF BeginPage
  <2>2. settled' => writer' = "unlocked" BY <1>1, Zenon DEF BeginPage, ringVars
  <2>3. QED BY <2>1, <2>2 DEF PageInv
<1>2. UNCHANGED ringVars BY DEF LogTimer, BeginPage, ReadHead, ReadLine, PrintPage, EndPage
<1>3. HeadPast' = HeadPast /\ Bumped' = Bumped BY <1>2 DEF HeadPast, Bumped
<1>4. ASSUME ~BeginPage
      PROVE  page # "idle" /\ settled' = settled /\ (settled => writer = "unlocked")
  BY <1>4, Zenon DEF LogTimer, ReadHead, ReadLine, PrintPage, EndPage, PageInv
<1>5. CASE ReadHead
  <2>1. /\ page' = "read" /\ cursor' = head /\ lines' = <<>> /\ sampled' = logged
        /\ ~BeginPage
    BY <1>5 DEF ReadHead, BeginPage
  <2>2. Reading(HeadPast)'
    <3>1. HeadPast' \in {logged - 1, logged} BY <1>3
    <3>2. Len(lines') = 0 BY <2>1
    <3>3. settled' => HeadPast' = logged' BY <1>2, <1>3, <1>4, <2>1
    <3>4. cursor' = (HeadPast' - 0) % LogHistory BY <1>3, <2>1 DEF RingInv
    <3>5. QED BY <1>2, <1>3, <2>1, <3>1, <3>2, <3>3, <3>4 DEF Reading
  <2>3. QED BY <1>2, <1>3, <1>4, <2>1, <2>2 DEF PageInv
<1>6. ASSUME page = "read", ~BeginPage, InTime'
      PROVE  InTime /\ \E m \in Nat : Reading(m)
  BY <1>2, <1>4, <1>6 DEF LogTimer, ReadHead, ReadLine, PrintPage, EndPage, InTime, PageInv
<1>7. CASE ReadLine
  <2>1. /\ page = "read" /\ page' = "read" /\ cursor # tail /\ Len(lines) < PageLines
        /\ cursor' = OlderLine(cursor) /\ lines' = Append(lines, ring[cursor'])
        /\ UNCHANGED <<sampled, shown>> /\ ~BeginPage
    BY <1>7 DEF ReadLine, BeginPage
  <2>2. SUFFICES ASSUME InTime' PROVE \E m \in Nat : Reading(m)'
    BY <1>2, <1>4, <2>1 DEF PageInv
  <2>3. InTime BY <1>6, <2>1, <2>2
  <2>4. PICK m \in Nat : Reading(m) BY <1>6, <2>1, <2>2
  <2>5. PICK k \in Nat : k = m - Len(lines) /\ k >= Bumped BY <2>1, <2>4 DEF Reading
  <2>6. cursor = k % LogHistory BY <2>4, <2>5 DEF Reading
  <2>7. k # Bumped BY <2>1, <2>6 DEF RingInv
  <2>8. m \in {sampled - 1, sampled} /\ sampled <= logged /\ (settled => writer = "unlocked")
    BY <1>4, <2>1, <2>4 DEF Reading, PageInv
  <2>9. logged - k < LogHistory
    <3>1. CASE settled
      <4>1. Bumped = Lost(logged) BY <2>8, <3>1
      <4>2. QED BY <2>5, <2>7, <4>1 DEF Lost
    <3>2. CASE logged - sampled < LogHistory - PageLines BY <2>1, <2>5, <2>8, <3>2
    <3>3. QED BY <2>3, <3>1, <3>2 DEF InTime
  <2>10. cursor' = (k - 1) % LogHistory /\ ring[cursor'] = k
    <3>1. k \in Nat \ {0} /\ k <= logged
      <4>1. k # 0 BY <2>5, <2>7
      <4>2. m \in Nat /\ m <= logged /\ k <= m BY <2>5, <2>8
      <4>3. QED BY <2>5, <4>1, <4>2
    <3>2. OlderLine(cursor) = (k - 1) % LogHistory /\ ring[OlderLine(cursor)] = k
      BY <2>6, <2>9, <3>1, InTheRing
    <3>3. QED BY <2>1, <3>2
  <2>11. /\ Len(lines') = Len(lines) + 1 /\ lines'[Len(lines) + 1] = k
         /\ \A i \in 1 .. Len(lines) : lines'[i] = lines[i]
    BY <2>1, <2>10 DEF LogTypeOK
  <2>12. ASSUME NEW i \in 1 .. Len(lines') PROVE lines'[i] = m + 1 - i
    <3>1. \A j \in 1 .. Len(lines) : lines[j] = m + 1 - j BY <2>4, Zenon DEF Reading
    <3>2. k = m + 1 - (Len(lines) + 1) BY <2>5
    <3>3. CASE i = Len(lines) + 1 BY <2>11, <3>2, <3>3
    <3>4. CASE i \in 1 .. Len(lines) BY <2>11, <3>1, <3>4
    <3>5. QED BY <2>11, <3>3, <3>4
  <2>13. m - Len(lines') = k - 1 /\ k - 1 >= Bumped' /\ Len(lines') <= m
    <3>1. k \in Nat /\ Bumped \in Nat /\ k > Bumped BY <2>5, <2>7
    <3>2. QED BY <1>3, <2>5, <2>11, <3>1
  <2>14. settled' => m = logged' BY <1>2, <1>4, <2>1, <2>4 DEF Reading
  <2>15. Reading(m)' BY <2>1, <2>8, <2>10, <2>12, <2>13, <2>14 DEF Reading
  <2>16. QED BY <2>15
<1>8. CASE PrintPage
  <2>1. /\ page = "read" /\ page' = "print"
        /\ (cursor = tail \/ Len(lines) = PageLines)
        /\ shown' = [i \in 1 .. Len(lines) |-> lines[Len(lines) + 1 - i]]
        /\ UNCHANGED <<sampled, cursor, lines>> /\ ~BeginPage
    BY <1>8 DEF PrintPage, BeginPage
  <2>2. SUFFICES ASSUME InTime' PROVE \E m \in Nat : Reading(m)'
    <3>1. page' = "print" /\ (settled' /\ page' # "idle" => writer' = "unlocked")
      BY <1>2, <1>4, <2>1 DEF ringVars
    <3>2. sampled' <= logged'
      <4>1. sampled <= logged BY <2>1, Zenon DEF PageInv
      <4>2. QED BY <1>2, <2>1, <4>1
    <3>3. QED BY <3>1, <3>2, Zenon DEF PageInv
  <2>3. PICK m \in Nat : Reading(m) BY <1>6, <2>1, <2>2
  <2>4. shown' = [i \in 1 .. Len(lines) |-> m - Len(lines) + i] 
    <3>1. \A i \in 1 .. Len(lines) : lines[i] = m + 1 - i BY <2>3, Zenon DEF Reading
    <3>2. ASSUME NEW i \in 1 .. Len(lines) PROVE lines[Len(lines) + 1 - i] = m - Len(lines) + i
      <4>1. Len(lines) + 1 - i \in 1 .. Len(lines) /\ m + 1 - (Len(lines) + 1 - i) = m - Len(lines) + i
        OBVIOUS
      <4>2. QED BY <3>1, <4>1
    <3>3. QED BY <2>1, <3>2
  <2>5. settled => Len(lines) = PageLines \/ m - Len(lines) = Bumped
    <3>1. SUFFICES ASSUME settled, cursor = tail, m - Len(lines) # Bumped PROVE FALSE
      BY <2>1
    <3>2. PICK k \in Nat : k = m - Len(lines) /\ k > Bumped BY SMTT(30), <2>3, <3>1 DEF Reading
    <3>3. k - Bumped < LogHistory
      <4>1. Bumped = Lost(logged) /\ m = logged BY <1>4, <2>1, <2>3, <3>1 DEF Reading
      <4>2. QED BY <3>2, <4>1 DEF Lost
    <3>4. k % LogHistory # Bumped % LogHistory BY <3>2, <3>3, ModApart
    <3>5. QED BY <2>3, <3>1, <3>2, <3>4 DEF Reading, RingInv
  <2>6. settled' = settled /\ UNCHANGED <<logged, sampled, lines, cursor>> /\ Bumped' = Bumped
    BY <1>2, <1>3, <1>4, <2>1
  <2>7. Reading(m)' BY <2>1, <2>3, <2>4, <2>5, <2>6, Zenon DEF Reading
  <2>8. QED BY <2>7
<1>9. CASE EndPage BY <1>9 DEF EndPage, PageInv
<1>10. QED BY <1>1, <1>5, <1>7, <1>8, <1>9 DEF LogTimer

\* A page drawn without any message in between is the newest messages.
LEMMA StaleStep ==
  ASSUME LogTypeOK, RingInv, PageInv, StaleOnlyIfOverlapped, LogNext
  PROVE  StaleOnlyIfOverlapped'
<1> USE LogFacts
<1>1. CASE LogWriter
  <2>1. ~(needRefresh' = FALSE /\ writer' = "unlocked")
    BY <1>1 DEF LogWriter, StoreMessage, MoveHead, MoveTail, EndLog, AskRefresh
  <2>2. needRefresh' \in BOOLEAN BY LogTypeStep DEF LogTypeOK
  <2>3. QED BY <2>1, <2>2, Zenon DEF StaleOnlyIfOverlapped
<1>2. CASE LogTimer /\ ~EndPage
  <2>1. page' # "idle" BY <1>2 DEF LogTimer, BeginPage, ReadHead, ReadLine, PrintPage
  <2>2. QED BY <2>1 DEF StaleOnlyIfOverlapped
<1>3. CASE EndPage
  <2>1. page = "print" /\ UNCHANGED <<ringVars, lines, shown>> BY <1>3 DEF EndPage
  <2>2. settled' = settled BY <1>3, Zenon DEF EndPage
  <2>3. SUFFICES ASSUME settled, writer = "unlocked"
                 PROVE  shown = Newest(logged, SmallerOf(PageLines, LogHistory - 1))
    <3>1. (settled' => settled) /\ writer' = writer /\ shown' = shown /\ logged' = logged
      BY <2>1, <2>2 DEF ringVars
    <3>2. (settled /\ writer = "unlocked" =>
             shown = Newest(logged, SmallerOf(PageLines, LogHistory - 1)))
          => StaleOnlyIfOverlapped'
      BY <3>1 DEF StaleOnlyIfOverlapped, Newest, SmallerOf
    <3>3. QED BY <2>3, <3>2
  <2>4. PICK m \in Nat : Reading(m) BY <2>1, <2>3, Zenon DEF PageInv, InTime
  <2>5. /\ m = logged /\ shown = [i \in 1 .. Len(lines) |-> m - Len(lines) + i]
        /\ Len(lines) <= m /\ m - Len(lines) >= Bumped
        /\ (Len(lines) = PageLines \/ m - Len(lines) = Bumped)
    BY <2>1, <2>3, <2>4, Zenon DEF Reading
  <2>6. Bumped = Lost(logged) BY <2>3
  <2>7. Len(lines) = SmallerOf(logged, SmallerOf(PageLines, LogHistory - 1))
    BY <2>5, <2>6 DEF SmallerOf, Lost
  <2>8. QED BY <2>5, <2>7 DEF Newest
<1>4. QED BY <1>1, <1>2, <1>3 DEF LogNext

\* The inductive invariant of the log.
LEMMA LogInvariant == LogSpec => []LogIInv
<1>1. LogInit => LogIInv
  <2> SUFFICES ASSUME LogInit PROVE LogIInv OBVIOUS
  <2> USE LogAssumption DEF LogAssumption, LogInit
  <2>1. LogHistory \in Nat \ {0} /\ 0 % LogHistory = 0 BY ModUnique
  <2>2. settled \in BOOLEAN /\ needRefresh \in BOOLEAN BY Zenon
  <2>3. LogTypeOK
    <3>1. 0 \in Entries /\ ring \in [Entries -> 0 .. MaxMessages] BY <2>1 DEF Entries
    <3>2. lines \in Seq(0 .. MaxMessages) /\ shown \in Seq(0 .. MaxMessages) /\ Len(lines) = 0
      OBVIOUS
    <3>3. QED BY <2>2, <3>1, <3>2 DEF LogTypeOK
  <2>4. RingInv BY <2>1 DEF RingInv, HeadPast, Bumped, Lost
  <2>5. PageInv BY DEF PageInv
  <2>6. StaleOnlyIfOverlapped
    <3>1. SmallerOf(0, SmallerOf(PageLines, LogHistory - 1)) = 0 BY <2>1 DEF SmallerOf
    <3>2. Newest(logged, SmallerOf(PageLines, LogHistory - 1)) = <<>>
      <4>1. 1 .. 0 = {} OBVIOUS
      <4>2. QED BY <3>1, <4>1 DEF Newest
    <3>3. QED BY <3>2 DEF StaleOnlyIfOverlapped
  <2>7. QED BY <2>3, <2>4, <2>5, <2>6 DEF LogIInv
<1>2. LogIInv /\ [LogNext]_logVars => LogIInv'
  <2>1. ASSUME LogIInv, LogNext PROVE LogIInv'
    <3>1. LogTypeOK' /\ RingInv' BY <2>1, LogTypeStep, RingStep DEF LogIInv
    <3>2. PageInv' BY <2>1, <3>1, WriterKeepsPage, TimerKeepsPage DEF LogIInv, LogNext
    <3>3. StaleOnlyIfOverlapped' BY <2>1, StaleStep DEF LogIInv
    <3>4. QED BY <3>1, <3>2, <3>3 DEF LogIInv
  <2>2. ASSUME LogIInv, UNCHANGED logVars PROVE LogIInv'
    <3> USE <2>2 DEF logVars
    <3>1. LogTypeOK' BY DEF LogIInv, LogTypeOK
    <3>2. RingInv' BY DEF LogIInv, RingInv, HeadPast, Bumped
    <3>3. PageInv' BY DEF LogIInv, PageInv, InTime, Reading, HeadPast, Bumped
    <3>4. StaleOnlyIfOverlapped' BY DEF LogIInv, StaleOnlyIfOverlapped, Newest, SmallerOf
    <3>5. QED BY <3>1, <3>2, <3>3, <3>4 DEF LogIInv
  <2>3. QED BY <2>1, <2>2
<1>3. QED BY <1>1, <1>2, PTL DEF LogSpec

\* The ring, its two ends and the page keep their types (pktgen_log, pktgen_page_log).
THEOREM LogTypeCorrect == LogSpec => []LogTypeOK
<1>1. LogIInv => LogTypeOK BY DEF LogIInv
<1>2. QED BY <1>1, LogInvariant, PTL

\* Between two messages the ring holds the newest ones, as many as it has room for less
\* one, in order (pktgen_log).
THEOREM LogKeepsNewest == LogSpec => []RingHoldsNewest
<1>1. ASSUME LogIInv PROVE RingHoldsNewest
  <2> USE LogFacts DEF LogIInv
  <2>1. SUFFICES ASSUME writer = "unlocked" PROVE InRing = Newest(logged, LogHistory - 1)
    BY DEF RingHoldsNewest
  <2>2. PICK t \in Nat : t = Lost(logged) /\ tail = t % LogHistory /\ head = logged % LogHistory
    BY <1>1, <2>1 DEF RingInv
  <2>3. t <= logged /\ logged - t = SmallerOf(logged, LogHistory - 1) /\ logged - t < LogHistory
    BY SMTT(30), <1>1, <2>2 DEF Lost, SmallerOf
  <2>4. (head + LogHistory - tail) % LogHistory = logged - t
    BY <1>1, <2>2, <2>3, ModGap
  <2>5. ASSUME NEW i \in 1 .. logged - t
        PROVE  ring[(tail + i - 1) % LogHistory] = t + i
    <3>1. (tail + i - 1) % LogHistory = (t + i - 1) % LogHistory
      <4>1. i - 1 \in Nat /\ LogHistory \in Nat \ {0} BY <1>1
      <4>2. ((t % LogHistory) + (i - 1)) % LogHistory = (t + (i - 1)) % LogHistory
        BY <4>1, ModSum
      <4>3. t % LogHistory \in Nat BY <4>1, ModIs
      <4>4. (t % LogHistory) + (i - 1) = tail + i - 1 /\ t + (i - 1) = t + i - 1 BY <2>2, <4>3
      <4>5. QED BY <4>2, <4>4
    <3>2. t + i \in 1 .. logged /\ logged - (t + i) < LogHistory /\ (t + i) - 1 = t + i - 1
      BY <1>1, <2>3
    <3>3. ring[((t + i) - 1) % LogHistory] = t + i BY <1>1, <3>2 DEF RingInv
    <3>4. QED BY <3>1, <3>2, <3>3
  <2>6. InRing = [i \in 1 .. logged - t |-> t + i] BY <2>4, <2>5 DEF InRing
  <2>7. t = logged - SmallerOf(logged, LogHistory - 1) BY <1>1, <2>2, <2>3
  <2>8. QED BY <2>3, <2>6, <2>7 DEF Newest
<1>2. QED BY <1>1, LogInvariant, PTL

\* A page that not too many messages overtook while it was read shows consecutive
\* messages that end with the newest one, or the one before (pktgen_page_log).
THEOREM PageShowsTheLog == LogSpec => []PageInOrder
<1>1. ASSUME LogIInv PROVE PageInOrder
  <2> USE <1>1, LogFacts DEF LogIInv
  <2>1. SUFFICES ASSUME page = "print", logged - sampled < LogHistory - PageLines
                 PROVE  /\ \A i \in 1 .. Len(shown) - 1 : shown[i + 1] = shown[i] + 1
                        /\ Len(shown) > 0 => shown[Len(shown)] \in {sampled - 1, sampled}
    BY DEF PageInOrder
  <2>2. PICK m \in Nat : Reading(m) BY <2>1, Zenon DEF PageInv, InTime
  <2>3. /\ m \in {sampled - 1, sampled} /\ Len(lines) <= m
        /\ shown = [i \in 1 .. Len(lines) |-> m - Len(lines) + i]
    BY <2>1, <2>2, Zenon DEF Reading
  <2>4. Len(shown) = Len(lines) BY <2>3
  <2>5. QED BY <2>3, <2>4
<1>2. QED BY <1>1, LogInvariant, PTL

\* Only a message that came while a page was drawn can leave the page stale with no
\* redraw asked for.
THEOREM PageIsCurrent == LogSpec => []StaleOnlyIfOverlapped
<1>1. LogIInv => StaleOnlyIfOverlapped BY DEF LogIInv
<1>2. QED BY <1>1, LogInvariant, PTL

-----------------------------------------------------------------------------
(* The statistics.                                                         *)

(* Nobody is ahead of the NIC, and a worker about to store has a packet to   *)
(* count.                                                                    *)
NicAhead ==
  /\ nic <= MaxPackets /\ seen <= nic /\ zero <= nic /\ counted <= nic
  /\ worker => counted < nic

(* The counters of a queue, and every copy of it, lag behind its packets.    *)
QueueBehind ==
  /\ qstat <= counted /\ snapQ <= counted /\ prevQ <= counted /\ loaded <= counted
  /\ snapMark <= counted /\ keptMark <= counted

InPass == timer \in {"read", "normal", "rated"}

(* No clear overlaps a quiet pass, so what it reads is not normalized to     *)
(* another base.                                                             *)
BaseTaken == clearer = "idle" => base = zero
PassQuiet ==
  quiet /\ InPass => /\ clearer = "idle" /\ zero <= seen
                     /\ curr = IF timer = "read" THEN seen ELSE seen - zero

(* Between two passes prev is the last total, or nothing when it was cleared *)
(* since; during the second, it still is.                                    *)
PrevKept ==
  /\ quiet /\ ~InPass =>
       IF clearer = "idle" /\ zero <= seen THEN prev = seen - zero ELSE prev = 0
  /\ quiet /\ quietBefore /\ InPass => zero <= mark /\ mark <= seen /\ prev = mark - zero
RateRight == quiet /\ quietBefore /\ timer = "rated" => rate = seen - mark

PassInv == BaseTaken /\ PassQuiet /\ PrevKept /\ RateRight

(* As long as no clear has caught the worker, what the queue counted since   *)
(* the kept snapshot is what its packets were.                               *)
KeptRight ==
  calm => /\ worker => loaded = qstat
          /\ qstat + keptMark = counted + (IF clearer = "queues" THEN 0 ELSE prevQ)
SnapRight ==
  pageQuiet =>
    /\ worker => loaded = qstat
    /\ clearer \in {"idle", "port"}
    /\ qstat + snapMark = counted + snapQ /\ keptMark <= snapMark

DrawnInv == KeptRight /\ SnapRight /\ QueueRateExact

StatsIInv == StatsNumbersOK /\ StatsFlagsOK /\ NicAhead /\ QueueBehind /\ PassInv /\ DrawnInv

USE DEF portVars, queueCnt, workVars, seenVars, markVars, Counter, TimerTo, OnlyPort, OnlyQueue

\* A counter less what it was before is the difference, if it did not go back.
LEMMA MinusIs ==
  ASSUME NEW a \in Counter, NEW b \in Counter
  PROVE  Minus(a, b) \in Counter /\ (b <= a => Minus(a, b) = a - b)
<1> USE StatsAssumption DEF StatsAssumption, Minus
<1>1. Modulus \in Nat \ {0} /\ a + Modulus - b \in Nat OBVIOUS
<1>2. (a + Modulus - b) % Modulus \in 0 .. Modulus - 1 BY <1>1
<1>3. ASSUME b <= a PROVE (a + Modulus - b) % Modulus = a - b
  BY <1>1, <1>3
<1>4. QED BY <1>2, <1>3
\* The flags stay flags.
LEMMA FlagsStep ==
  ASSUME StatsFlagsOK, StatsNext
  PROVE  StatsFlagsOK'
<1>1. worker' \in BOOLEAN /\ quiet' \in BOOLEAN /\ quietBefore' \in BOOLEAN
  BY Zenon DEF StatsFlagsOK, StatsNext, StatsTimer, StatsClear, Traffic, Arrive, LoadCount, StoreCount,
     ReadNic, Normalize, FigureRate, SavePrevious, Snapshot, DrawRate, KeepSnapshot,
     ClearPort, ClearQueues, ClearKept, TakeBase
<1>2. pageQuiet' \in BOOLEAN /\ calm' \in BOOLEAN
  BY Zenon DEF StatsFlagsOK, StatsNext, StatsTimer, StatsClear, Traffic, Arrive, LoadCount, StoreCount,
     ReadNic, Normalize, FigureRate, SavePrevious, Snapshot, DrawRate, KeepSnapshot,
     ClearPort, ClearQueues, ClearKept, TakeBase
<1>3. QED BY <1>1, <1>2, Zenon DEF StatsFlagsOK

\* No copy of a counter is ever ahead of what it counts.
LEMMA NumbersStep ==
  ASSUME StatsNumbersOK, NicAhead, QueueBehind, StatsNext
  PROVE  StatsNumbersOK' /\ NicAhead' /\ QueueBehind'
<1> USE StatsAssumption DEF StatsAssumption, StatsNumbersOK, NicAhead, QueueBehind
<1>1. CASE Arrive BY <1>1 DEF Arrive
<1>2. CASE LoadCount BY <1>2 DEF LoadCount
<1>3. CASE StoreCount BY <1>3 DEF StoreCount
<1>4. CASE ReadNic BY <1>4 DEF ReadNic
<1>5. CASE Normalize BY <1>5, MinusIs DEF Normalize, SinceBase
<1>6. CASE FigureRate BY <1>6, MinusIs DEF FigureRate
<1>7. CASE SavePrevious BY <1>7 DEF SavePrevious
<1>8. CASE Snapshot BY <1>8 DEF Snapshot
<1>9. CASE DrawRate BY <1>9, MinusIs DEF DrawRate
<1>10. CASE KeepSnapshot BY <1>10 DEF KeepSnapshot, SaveSnapshot
<1>11. CASE ClearPort BY <1>11 DEF ClearPort, ZeroRates
<1>12. CASE ClearQueues BY <1>12 DEF ClearQueues
<1>13. CASE ClearKept BY <1>13 DEF ClearKept
<1>14. CASE TakeBase BY <1>14 DEF TakeBase
<1>15. QED
  BY <1>1, <1>2, <1>3, <1>4, <1>5, <1>6, <1>7, <1>8, <1>9, <1>10, <1>11, <1>12, <1>13, <1>14
     DEF StatsNext, StatsTimer, StatsClear, Traffic

\* What a pass of the timer that no clear overlaps finds.
LEMMA PassStep ==
  ASSUME StatsNumbersOK, StatsFlagsOK, NicAhead, PassInv, StatsNext
  PROVE  PassInv'
<1> USE StatsAssumption
    DEF StatsAssumption, StatsNumbersOK, NicAhead, PassInv, InPass, BaseTaken, PassQuiet,
        PrevKept, RateRight
<1>1. CASE Arrive BY <1>1 DEF Arrive
<1>2. CASE LoadCount BY <1>2 DEF LoadCount
<1>3. CASE StoreCount BY <1>3 DEF StoreCount
<1>4. CASE ReadNic
  <2>1. (quiet' => clearer = "idle") /\ (quietBefore' => quiet) BY <1>4, Zenon DEF ReadNic
  <2>2. /\ timer = "idle" /\ timer' = "read" /\ curr' = nic /\ seen' = nic
        /\ mark' = IF zero > seen THEN zero ELSE seen
        /\ UNCHANGED <<prev, rate, base, zero, clearer, nic>>
    BY <1>4 DEF ReadNic
  <2>3. QED BY <2>1, <2>2
<1>5. CASE Normalize BY <1>5, MinusIs DEF Normalize, SinceBase
<1>6. CASE FigureRate BY <1>6, MinusIs DEF FigureRate
<1>7. CASE SavePrevious BY <1>7 DEF SavePrevious
<1>8. CASE Snapshot BY <1>8 DEF Snapshot
<1>9. CASE DrawRate BY <1>9, MinusIs DEF DrawRate
<1>10. CASE KeepSnapshot BY <1>10 DEF KeepSnapshot, SaveSnapshot
<1>11. CASE ClearPort BY <1>11 DEF ClearPort, ZeroRates
<1>12. CASE ClearQueues BY <1>12 DEF ClearQueues
<1>13. CASE ClearKept BY <1>13 DEF ClearKept
<1>14. CASE TakeBase BY <1>14 DEF TakeBase
<1>15. QED
  BY <1>1, <1>2, <1>3, <1>4, <1>5, <1>6, <1>7, <1>8, <1>9, <1>10, <1>11, <1>12, <1>13, <1>14
     DEF StatsNext, StatsTimer, StatsClear, Traffic

\* What the page draws of a queue that no clear caught in the middle of a count.
LEMMA DrawnStep ==
  ASSUME StatsNumbersOK, StatsFlagsOK, NicAhead, QueueBehind, DrawnInv, StatsNext
  PROVE  DrawnInv'
<1> USE StatsAssumption
    DEF StatsAssumption, StatsNumbersOK, NicAhead, QueueBehind, DrawnInv, KeptRight, SnapRight,
        QueueRateExact
<1>1. CASE Arrive BY <1>1 DEF Arrive
<1>2. CASE LoadCount BY <1>2 DEF LoadCount
<1>3. CASE StoreCount BY <1>3 DEF StoreCount
<1>4. CASE ReadNic BY <1>4 DEF ReadNic
<1>5. CASE Normalize BY <1>5, MinusIs DEF Normalize, SinceBase
<1>6. CASE FigureRate BY <1>6, MinusIs DEF FigureRate
<1>7. CASE SavePrevious BY <1>7 DEF SavePrevious
<1>8. CASE Snapshot
  <2>1. pageQuiet' => clearer = "idle" /\ (worker => loaded = qstat) BY <1>8, Zenon DEF Snapshot
  <2>2. /\ timer' = "idle" /\ snapQ' = qstat /\ snapMark' = counted
        /\ UNCHANGED <<qstat, prevQ, worker, loaded, clearer, counted, keptMark>>
    BY <1>8 DEF Snapshot
  <2>3. UNCHANGED calm BY <1>8, Zenon DEF Snapshot
  <2>4. QED BY <2>1, <2>2, <2>3
<1>9. CASE DrawRate
  <2>1. /\ timer = "idle" /\ timer' = "drawn" /\ shownQ' = Minus(snapQ, prevQ)
        /\ UNCHANGED <<qstat, snapQ, prevQ, worker, loaded, clearer, counted, snapMark, keptMark>>
    BY <1>9 DEF DrawRate
  <2>2. UNCHANGED <<pageQuiet, calm>> BY <1>9, Zenon DEF DrawRate
  <2>3. ASSUME pageQuiet, calm PROVE shownQ' = snapMark - keptMark
    <3>1. /\ qstat + snapMark = counted + snapQ /\ keptMark <= snapMark
          /\ qstat + keptMark = counted + prevQ
      BY <2>1, <2>3
    <3>2. prevQ <= snapQ /\ snapQ - prevQ = snapMark - keptMark BY <3>1
    <3>3. QED BY <2>1, <3>2, MinusIs
  <2>4. QED BY <2>1, <2>2, <2>3
<1>10. CASE KeepSnapshot BY <1>10 DEF KeepSnapshot, SaveSnapshot
<1>11. CASE ClearPort BY <1>11 DEF ClearPort, ZeroRates
<1>12. CASE ClearQueues
  <2>1. (calm' => calm /\ ~worker) /\ ~pageQuiet' BY <1>12, Zenon DEF ClearQueues
  <2>2. /\ clearer' = "queues" /\ qstat' = 0 /\ keptMark' = counted
        /\ UNCHANGED <<prevQ, worker, loaded, timer, counted, snapMark>>
    BY <1>12 DEF ClearQueues
  <2>3. QED BY <2>1, <2>2
<1>13. CASE ClearKept BY <1>13 DEF ClearKept
<1>14. CASE TakeBase BY <1>14 DEF TakeBase
<1>15. QED
  BY <1>1, <1>2, <1>3, <1>4, <1>5, <1>6, <1>7, <1>8, <1>9, <1>10, <1>11, <1>12, <1>13, <1>14
     DEF StatsNext, StatsTimer, StatsClear, Traffic

\* The inductive invariant of the statistics.
LEMMA StatsInvariant == StatsSpec => []StatsIInv
<1> USE DEF StatsIInv
<1>1. StatsInit => StatsIInv
  <2> SUFFICES ASSUME StatsInit PROVE StatsIInv OBVIOUS
  <2>1. StatsFlagsOK BY Zenon DEF StatsInit, StatsFlagsOK
  <2>2. ~worker BY DEF StatsInit
  <2>3. StatsNumbersOK /\ NicAhead /\ QueueBehind
    BY <2>2, StatsAssumption DEF StatsAssumption, StatsInit, StatsNumbersOK, NicAhead, QueueBehind
  <2>4. PassInv
    BY DEF StatsInit, PassInv, InPass, BaseTaken, PassQuiet, PrevKept, RateRight
  <2>5. DrawnInv BY <2>2 DEF StatsInit, DrawnInv, KeptRight, SnapRight, QueueRateExact
  <2>6. QED BY <2>1, <2>3, <2>4, <2>5
<1>2. StatsIInv /\ [StatsNext]_statsVars => StatsIInv'
  <2> SUFFICES ASSUME StatsIInv, [StatsNext]_statsVars PROVE StatsIInv' OBVIOUS
  <2>1. CASE StatsNext BY <2>1, FlagsStep, NumbersStep, PassStep, DrawnStep
  <2>2. CASE UNCHANGED statsVars
    BY <2>2, ZenonT(30) DEF statsVars, StatsNumbersOK, StatsFlagsOK, NicAhead, QueueBehind, PassInv, InPass,
       BaseTaken, PassQuiet, PrevKept, RateRight, DrawnInv, KeptRight, SnapRight, QueueRateExact
  <2>3. QED BY <2>1, <2>2
<1>3. QED BY <1>1, <1>2, PTL DEF StatsSpec

\* Counters, snapshots and rates stay within the width of a counter
\* (pktgen_process_stats, pktgen_page_qstats).
THEOREM StatsTypeCorrect == StatsSpec => []StatsTypeOK
<1>1. StatsIInv => StatsTypeOK BY Zenon DEF StatsIInv, StatsNumbersOK, StatsFlagsOK, StatsTypeOK
<1>2. QED BY <1>1, StatsInvariant, PTL

\* A pass no clear overlapped shows the packets since the last clear, and the second
\* of two such passes the right rate, whatever clears came before: no difference that
\* wrapped below zero stays (pktgen_process_stats, pktgen_clear_stats).
THEOREM PassRecovers == StatsSpec => []StatsRecover
<1>1. StatsIInv => StatsRecover
  BY DEF StatsIInv, PassInv, InPass, PassQuiet, RateRight, StatsRecover
<1>2. QED BY <1>1, StatsInvariant, PTL

\* The rate a page draws of a queue is what the queue sent between the two snapshots it
\* is drawn from, unless a clear came between them or caught the worker between the
\* load and the store of its counter (pktgen_page_qstats).
THEOREM QueuePageExact == StatsSpec => []QueueRateExact
<1>1. StatsIInv => QueueRateExact BY DEF StatsIInv, DrawnInv
<1>2. QED BY <1>1, StatsInvariant, PTL

-----------------------------------------------------------------------------
(* The command history.                                                    *)

Named == Commands \cup {AliasLine}
Histories == [hist : Seq(Entry), free : SUBSET Nodes]

(* The nodes that are left, each in one place.                              *)
Fits(h, room) ==
  /\ h \in Histories /\ Len(h.hist) + Cardinality(h.free) = room
  /\ \A i \in 1 .. Len(h.hist) : h.hist[i].node \notin h.free
  /\ \A i, j \in 1 .. Len(h.hist) : h.hist[i].node = h.hist[j].node => i = j

(* The history is the end of the lines e, all of them while a node is free. *)
EndOf(h, e) ==
  /\ Len(h.hist) <= Len(e) /\ (h.free # {} => Len(h.hist) = Len(e))
  /\ \A i \in 1 .. Len(h.hist) : h.hist[i].line = e[Len(e) - Len(h.hist) + i]

Noted(e, l) == IF e # <<>> /\ Last(e) = l THEN e ELSE Append(e, l)

CurrentIn(c, s) == c # NoNode => \E i \in 1 .. Len(s) : s[i].node = c

(* Every alias has lost a node; the one that lost the last is the end.       *)
HistoryAlive ==
  /\ HistLines - aliases >= 1
  /\ Fits(Now, HistLines - aliases) /\ EndOf(Now, entered) /\ CurrentIn(currHist, hist)
HistoryOver == hist = <<>> /\ aliases = HistLines

HistoryIInv == HistoryTypeOK /\ (~cliDead => HistoryAlive) /\ (cliDead => HistoryOver)

\* Cardinalities of the free nodes.
LEMMA FreeFinite ==
  ASSUME NEW S \in SUBSET Nodes
  PROVE  IsFiniteSet(S) /\ Cardinality(S) \in Nat
         /\ (S # {} => Cardinality(S) > 0) /\ \A n \in S : Cardinality(S \ {n}) = Cardinality(S) - 1
<1>1. IsFiniteSet(Nodes) BY FS_Interval, HistoryAssumption DEF Nodes, HistoryAssumption
<1>2. IsFiniteSet(S) BY <1>1, FS_Subset
<1>3. Cardinality(S) \in Nat /\ (S # {} => Cardinality(S) > 0)
  BY <1>2, FS_CardinalityType, FS_EmptySet
<1>4. \A n \in S : Cardinality(S \ {n}) = Cardinality(S) - 1 BY <1>2, FS_RemoveElement
<1>5. QED BY <1>2, <1>3, <1>4

\* What it takes to be the end of the lines entered.
LEMMA EndIs ==
  ASSUME NEW s, NEW f, NEW e, Len(s) <= Len(e), f # {} => Len(s) = Len(e),
         \A i \in 1 .. Len(s) : s[i].line = e[Len(e) - Len(s) + i]
  PROVE  EndOf([hist |-> s, free |-> f], e)
BY DEF EndOf

\* The last line of the history is the last line entered.
LEMMA RepeatsLast ==
  ASSUME NEW h, NEW room \in Nat \ {0}, NEW e \in Seq(Named), Fits(h, room), EndOf(h, e), NEW l
  PROVE  Repeats(h, l) <=> e # <<>> /\ Last(e) = l
<1>1. h.hist \in Seq(Entry) /\ h.free \in SUBSET Nodes BY DEF Fits, Histories
<1>2. CASE h.hist = <<>>
  <2>1. Cardinality(h.free) = room BY <1>1, <1>2, FreeFinite DEF Fits
  <2>2. h.free # {} BY <2>1, FS_EmptySet
  <2>3. e = <<>> BY <1>2, <2>2 DEF EndOf
  <2>4. QED BY <1>2, <2>3 DEF Repeats
<1>3. CASE h.hist # <<>>
  <2>1. Len(h.hist) \in Nat \ {0} /\ Len(e) \in Nat /\ Len(e) >= Len(h.hist) BY <1>1, <1>3 DEF EndOf
  <2>2. Last(h.hist) = h.hist[Len(h.hist)] /\ Last(e) = e[Len(e)] BY DEF Last
  <2>3. Len(e) - Len(h.hist) + Len(h.hist) = Len(e) BY <2>1
  <2>4. h.hist[Len(h.hist)].line = e[Len(e)]
    <3>1. Len(h.hist) \in 1 .. Len(h.hist) BY <2>1
    <3>2. h.hist[Len(h.hist)].line = e[Len(e) - Len(h.hist) + Len(h.hist)] BY <3>1 DEF EndOf
    <3>3. QED BY <2>3, <3>2
  <2>5. QED BY <1>3, <2>1, <2>2, <2>4 DEF Repeats
<1>4. QED BY <1>2, <1>3

\* Adding a line keeps every node in one place, and enters the line.
LEMMA AddKeeps ==
  ASSUME NEW h, NEW room \in Nat \ {0}, NEW e \in Seq(Named), Fits(h, room), EndOf(h, e),
         NEW l \in Named
  PROVE  /\ Fits(Add(h, l), room) /\ EndOf(Add(h, l), Noted(e, l)) /\ Add(h, l).hist # <<>>
         /\ Last(Add(h, l).hist).line = l
<1>1. h \in Histories /\ h.hist \in Seq(Entry) /\ h.free \in SUBSET Nodes /\ Len(h.hist) \in Nat
  BY DEF Fits, Histories
<1>2. Repeats(h, l) <=> e # <<>> /\ Last(e) = l BY RepeatsLast
<1>3. CASE Repeats(h, l)
  <2>1. Add(h, l) = h /\ Noted(e, l) = e BY <1>2, <1>3 DEF Add, Noted
  <2>2. QED BY <1>3, <2>1 DEF Repeats
<1>4. CASE ~Repeats(h, l) /\ h.free = {}
  <2>1. Cardinality(h.free) = 0 BY <1>4, FS_EmptySet
  <2>2. Len(h.hist) = room BY <1>1, <2>1 DEF Fits
  <2>3. Head(h.hist) = h.hist[1] /\ h.hist[1] \in Entry BY <1>1, <2>2
  <2>4. PICK first \in Entry : first = [node |-> Head(h.hist).node, line |-> l]
    BY <2>3 DEF Entry, Named
  <2>5. PICK s \in Seq(Entry) : s = Append(Tail(h.hist), first)
    <3>1. Tail(h.hist) \in Seq(Entry) BY <1>1, <2>2
    <3>2. Append(Tail(h.hist), first) \in Seq(Entry) BY <3>1
    <3>3. QED BY <3>2
  <2>6. Len(s) = room /\ s[room] = first /\ \A i \in 1 .. room - 1 : s[i] = h.hist[i + 1]
    BY <1>1, <2>2, <2>4, <2>5
  <2>7. Add(h, l) = [hist |-> s, free |-> h.free] /\ Noted(e, l) = Append(e, l)
    BY <1>1, <1>2, <1>4, <2>4, <2>5 DEF Add, Noted, Recycle, Histories
  <2>8. first.node = h.hist[1].node /\ first.line = l BY <2>3, <2>4
  <2>9. ASSUME NEW i \in 1 .. room, NEW j \in 1 .. room, s[i].node = s[j].node PROVE i = j
    <3>1. i # room => s[i] = h.hist[i + 1] /\ i + 1 \in 1 .. room BY <2>6
    <3>2. j # room => s[j] = h.hist[j + 1] /\ j + 1 \in 1 .. room BY <2>6
    <3>3. \A x, y \in 1 .. room : h.hist[x].node = h.hist[y].node => x = y BY <2>2 DEF Fits
    <3>4. 1 \in 1 .. room OBVIOUS
    <3>5. CASE i = room /\ j = room BY <3>5
    <3>6. CASE i = room /\ j # room
      <4>1. h.hist[1].node = h.hist[j + 1].node BY <2>6, <2>8, <2>9, <3>2, <3>6
      <4>2. 1 = j + 1 BY <3>2, <3>3, <3>4, <3>6, <4>1
      <4>3. QED BY <4>2
    <3>7. CASE i # room /\ j = room
      <4>1. h.hist[1].node = h.hist[i + 1].node BY <2>6, <2>8, <2>9, <3>1, <3>7
      <4>2. 1 = i + 1 BY <3>1, <3>3, <3>4, <3>7, <4>1
      <4>3. QED BY <4>2
    <3>8. CASE i # room /\ j # room
      <4>1. i + 1 = j + 1 BY <2>9, <3>1, <3>2, <3>3, <3>8
      <4>2. QED BY <4>1
    <3>9. QED BY <3>5, <3>6, <3>7, <3>8
  <2>10. Fits(Add(h, l), room)
    <3>1. [hist |-> s, free |-> h.free] \in Histories BY <1>1 DEF Histories
    <3>2. QED BY <1>4, <2>1, <2>6, <2>7, <2>9, <3>1 DEF Fits
  <2>11. EndOf(Add(h, l), Noted(e, l))
    <3>1. /\ Len(Append(e, l)) = Len(e) + 1 /\ Append(e, l)[Len(e) + 1] = l
          /\ Len(e) \in Nat /\ \A i \in 1 .. Len(e) : Append(e, l)[i] = e[i]
      OBVIOUS
    <3>2. room <= Len(e) /\ Len(e) \in Nat BY <2>2 DEF EndOf
    <3>3. ASSUME NEW i \in 1 .. room PROVE s[i].line = Append(e, l)[Len(e) + 1 - room + i]
      <4>1. CASE i = room BY <2>6, <2>8, <3>1, <3>2, <4>1
      <4>2. CASE i # room
        <5>1. i + 1 \in 1 .. Len(h.hist) /\ i \in 1 .. room - 1 BY <2>2, <4>2
        <5>2. s[i].line = e[Len(e) - room + (i + 1)] BY <2>2, <2>6, <5>1 DEF EndOf
        <5>3. /\ Len(e) - room + (i + 1) = Len(e) + 1 - room + i
              /\ Len(e) - room + (i + 1) \in 1 .. Len(e)
          BY <3>2, <5>1, <2>2
        <5>4. QED BY <3>1, <5>2, <5>3
      <4>3. QED BY <4>1, <4>2
    <3>4. Len(s) <= Len(Append(e, l)) BY <2>6, <3>1, <3>2
    <3>5. \A i \in 1 .. Len(s) : s[i].line = Append(e, l)[Len(Append(e, l)) - Len(s) + i]
      <4>1. \A i \in 1 .. room : Len(Append(e, l)) - Len(s) + i = Len(e) + 1 - room + i
        BY <2>6, <3>1
      <4>2. QED BY <2>6, <3>3, <4>1
    <3>6. EndOf([hist |-> s, free |-> h.free], Append(e, l)) BY <1>4, <3>4, <3>5, EndIs
    <3>7. QED BY <2>7, <3>6
  <2>12. Last(s) = s[room] /\ s # <<>> BY <2>6 DEF Last
  <2>13. QED BY <2>6, <2>7, <2>8, <2>10, <2>11, <2>12
<1>5. CASE ~Repeats(h, l) /\ h.free # {}
  <2>1. PICK n \in h.free : n = CHOOSE m \in h.free : TRUE BY <1>5
  <2>2. Cardinality(h.free \ {n}) = Cardinality(h.free) - 1 BY <1>1, FreeFinite
  <2>3. PICK new \in Entry : new = [node |-> n, line |-> l] BY <1>1, <2>1 DEF Entry, Named
  <2>4. PICK s \in Seq(Entry) : s = Append(h.hist, new)
    <3>1. Append(h.hist, new) \in Seq(Entry) BY <1>1
    <3>2. QED BY <3>1
  <2>5. /\ Len(s) = Len(h.hist) + 1 /\ s[Len(h.hist) + 1] = new
        /\ \A i \in 1 .. Len(h.hist) : s[i] = h.hist[i]
    BY <1>1, <2>4
  <2>6. Add(h, l) = [hist |-> s, free |-> h.free \ {n}] /\ Noted(e, l) = Append(e, l)
    BY <1>2, <1>5, <2>1, <2>3, <2>4 DEF Add, Noted
  <2>7. ASSUME NEW i \in 1 .. Len(h.hist) PROVE s[i].node # n /\ s[i].node \notin h.free \ {n}
    BY <2>1, <2>5 DEF Fits
  <2>8. Fits(Add(h, l), room)
    <3>1. [hist |-> s, free |-> h.free \ {n}] \in Histories BY <1>1 DEF Histories
    <3>2. Len(s) + Cardinality(h.free \ {n}) = room
      <4>1. Cardinality(h.free) \in Nat BY <1>1, FreeFinite
      <4>2. QED BY <1>1, <2>2, <2>5, <4>1 DEF Fits
    <3>3. \A i \in 1 .. Len(s) : i \in 1 .. Len(h.hist) \/ i = Len(h.hist) + 1 BY <1>1, <2>5
    <3>4. \A i \in 1 .. Len(s) : s[i].node \notin h.free \ {n} BY <2>3, <2>5, <2>7, <3>3
    <3>5. ASSUME NEW i \in 1 .. Len(s), NEW j \in 1 .. Len(s), s[i].node = s[j].node PROVE i = j
      <4>1. CASE i \in 1 .. Len(h.hist) /\ j \in 1 .. Len(h.hist) BY <2>5, <3>5, <4>1 DEF Fits
      <4>2. QED BY <2>3, <2>5, <2>7, <3>3, <3>5, <4>1
    <3>6. QED BY <2>6, <3>1, <3>2, <3>4, <3>5 DEF Fits
  <2>9. EndOf(Add(h, l), Noted(e, l))
    <3>1. /\ Len(Append(e, l)) = Len(e) + 1 /\ Append(e, l)[Len(e) + 1] = l
          /\ Len(e) \in Nat /\ \A i \in 1 .. Len(e) : Append(e, l)[i] = e[i]
      OBVIOUS
    <3>2. Len(h.hist) = Len(e) /\ \A i \in 1 .. Len(e) : h.hist[i].line = e[i]
      <4>1. Len(h.hist) = Len(e) /\ Len(e) \in Nat BY <1>5 DEF EndOf
      <4>2. \A i \in 1 .. Len(e) : Len(e) - Len(h.hist) + i = i BY <4>1
      <4>3. \A i \in 1 .. Len(e) : h.hist[i].line = e[Len(e) - Len(h.hist) + i] BY <4>1 DEF EndOf
      <4>4. QED BY <4>1, <4>2, <4>3
    <3>3. \A i \in 1 .. Len(s) : s[i].line = Append(e, l)[i] BY <2>3, <2>5, <3>1, <3>2
    <3>4. \A i \in 1 .. Len(s) : Len(e) + 1 - Len(s) + i = i /\ Len(s) = Len(e) + 1
      BY <2>5, <3>1, <3>2
    <3>5. Len(s) = Len(e) + 1 BY <2>5, <3>2
    <3>6. \A i \in 1 .. Len(s) : s[i].line = Append(e, l)[Len(Append(e, l)) - Len(s) + i]
      <4>1. \A i \in 1 .. Len(s) : Len(Append(e, l)) - Len(s) + i = i BY <3>1, <3>5
      <4>2. QED BY <3>3, <4>1
    <3>7. Len(s) <= Len(Append(e, l)) BY <3>1, <3>5
    <3>8. EndOf([hist |-> s, free |-> h.free \ {n}], Append(e, l)) BY <3>1, <3>5, <3>6, <3>7, EndIs
    <3>9. QED BY <2>6, <3>8
  <2>10. Last(s) = new /\ s # <<>> BY <1>1, <2>5 DEF Last
  <2>11. QED BY <2>3, <2>6, <2>8, <2>9, <2>10
<1>6. QED BY <1>3, <1>4, <1>5

\* An alias is entered and deleted again: a node is gone, and the oldest line if none was free.
LEMMA DropKeeps ==
  ASSUME NEW h, NEW room \in Nat \ {0}, NEW e \in Seq(Named), NEW l \in Named,
         Fits(h, room), EndOf(h, Append(e, l)), h.hist # <<>>
  PROVE  Fits(DropNewest(h), room - 1) /\ EndOf(DropNewest(h), e)
<1>1. h \in Histories /\ h.hist \in Seq(Entry) /\ h.free \in SUBSET Nodes /\ Len(h.hist) \in Nat \ {0}
  BY DEF Fits, Histories
<1>2. PICK s \in Seq(Entry) : s = Front(h.hist)
  <2>1. Front(h.hist) \in Seq(Entry) BY <1>1 DEF Front
  <2>2. QED BY <2>1
<1>3. Len(s) = Len(h.hist) - 1 /\ \A i \in 1 .. Len(s) : s[i] = h.hist[i]
  BY <1>1, <1>2 DEF Front
<1>4. DropNewest(h) = [hist |-> s, free |-> h.free] BY <1>1, <1>2 DEF DropNewest, Histories
<1>5. Fits([hist |-> s, free |-> h.free], room - 1)
  <2>1. [hist |-> s, free |-> h.free] \in Histories BY <1>1 DEF Histories
  <2>2. Cardinality(h.free) \in Nat BY <1>1, FreeFinite
  <2>3. Len(s) + Cardinality(h.free) = room - 1 BY SMTT(30), <1>1, <1>3, <2>2 DEF Fits
  <2>4. \A i \in 1 .. Len(s) : i \in 1 .. Len(h.hist) BY <1>1, <1>3
  <2>5. \A i \in 1 .. Len(s) : s[i].node \notin h.free BY <1>3, <2>4 DEF Fits
  <2>6. \A i, j \in 1 .. Len(s) : s[i].node = s[j].node => i = j BY <1>3, <2>4 DEF Fits
  <2>7. QED BY <2>1, <2>3, <2>5, <2>6 DEF Fits
<1>6. EndOf([hist |-> s, free |-> h.free], e)
  <2>1. /\ Len(Append(e, l)) = Len(e) + 1 /\ Len(e) \in Nat
        /\ \A i \in 1 .. Len(e) : Append(e, l)[i] = e[i]
    OBVIOUS
  <2>2. Len(s) <= Len(e) /\ (h.free # {} => Len(s) = Len(e)) BY <1>1, <1>3, <2>1 DEF EndOf
  <2>3. ASSUME NEW i \in 1 .. Len(s) PROVE s[i].line = e[Len(e) - Len(s) + i]
    <3>1. h.hist[i].line = Append(e, l)[Len(Append(e, l)) - Len(h.hist) + i]
      <4>1. i \in 1 .. Len(h.hist) BY <1>1, <1>3
      <4>2. QED BY <4>1 DEF EndOf
    <3>2. Len(Append(e, l)) - Len(h.hist) + i = Len(e) - Len(s) + i
      BY <1>1, <1>3, <2>1
    <3>3. Len(e) - Len(s) + i \in 1 .. Len(e) BY <1>1, <1>3, <2>1, <2>2
    <3>4. QED BY <1>3, <2>1, <3>1, <3>2, <3>3
  <2>4. QED BY <2>2, <2>3, EndIs
<1>7. QED BY <1>4, <1>5, <1>6

\* Every command of the history keeps the invariant.
LEMMA HistoryStep ==
  ASSUME HistoryIInv, HistoryNext
  PROVE  HistoryIInv'
<1> USE HistoryAssumption DEF HistoryAssumption
<1> HistoryTypeOK /\ ~cliDead /\ HistoryAlive BY Zenon DEF HistoryIInv, HistoryNext
<1>1. /\ HistLines - aliases >= 1 /\ entered \in Seq(Named) /\ aliases \in Nat
      /\ Fits(Now, HistLines - aliases) /\ EndOf(Now, entered) /\ CurrentIn(currHist, hist)
      /\ HistLines - aliases \in Nat \ {0}
  BY DEF HistoryAlive, HistoryTypeOK, Named
<1>2. ASSUME HistoryTypeOK', HistoryAlive', UNCHANGED cliDead
      PROVE  HistoryIInv'
  BY <1>2, Zenon DEF HistoryIInv
<1>3. ASSUME NEW h, NEW room \in Nat \ {0}, Fits(h, room), EndOf(h, entered'), Becomes(h),
             UNCHANGED cliDead, room = HistLines - aliases', aliases' \in Nat, entered' \in Seq(Commands),
             currHist' = NoNode \/ (h.hist # <<>> /\ currHist' = Head(h.hist).node)
      PROVE  HistoryIInv'
  <2>1. h = Now'
    BY <1>3 DEF Becomes, Now, Fits, Histories
  <2>2. hist' \in Seq(Entry) /\ freeHist' \in SUBSET Nodes /\ h.hist = hist'
    BY <1>3 DEF Becomes, Fits, Histories
  <2>3. CurrentIn(currHist', hist') /\ currHist' \in Nodes \cup {NoNode}
    <3>1. CASE currHist' = NoNode BY <3>1 DEF CurrentIn
    <3>2. CASE h.hist # <<>> /\ currHist' = Head(h.hist).node
      <4>1. 1 \in 1 .. Len(hist') /\ Head(hist') = hist'[1] /\ hist'[1] \in Entry BY <2>2, <3>2
      <4>2. QED BY <2>2, <3>2, <4>1 DEF CurrentIn, Entry
    <3>3. QED BY <1>3, <3>1, <3>2
  <2>4. HistoryTypeOK'
    <3>1. cliDead' \in BOOLEAN BY <1>3, Zenon DEF HistoryTypeOK
    <3>2. QED BY <1>3, <2>2, <2>3, <3>1 DEF HistoryTypeOK
  <2>5. Fits(Now, HistLines - aliases)' /\ EndOf(Now, entered)' BY <1>3, <2>1
  <2>6. HistLines - aliases' >= 1
    <3>1. room >= 1 OBVIOUS
    <3>2. room = HistLines - aliases' BY <1>3
    <3>3. QED BY <3>1, <3>2
  <2>7. QED BY <1>2, <1>3, <2>3, <2>4, <2>5, <2>6 DEF HistoryAlive
<1>4. ASSUME NEW l \in Commands, Note(l)
      PROVE  entered' = Noted(entered, l) /\ entered' \in Seq(Commands)
  <2>1. entered' = Noted(entered, l) BY <1>4 DEF Note, Noted
  <2>2. Append(entered, l) \in Seq(Commands) /\ entered \in Seq(Commands) BY <1>1 DEF HistoryTypeOK
  <2>3. QED BY <2>1, <2>2 DEF Noted
<1>5. CASE EnterCommand
  <2>1. PICK l \in Commands : Becomes(Add(Now, l)) /\ Note(l) /\ currHist' = NoNode /\ aliases' = aliases
    BY <1>5 DEF EnterCommand
  <2>2. Fits(Add(Now, l), HistLines - aliases) /\ EndOf(Add(Now, l), Noted(entered, l))
    BY <1>1, AddKeeps DEF Named
  <2>3. PICK h : h = Add(Now, l) OBVIOUS
  <2>4. entered' = Noted(entered, l) /\ entered' \in Seq(Commands) BY <1>4, <2>1
  <2>5. Fits(h, HistLines - aliases) /\ EndOf(h, entered') /\ Becomes(h) BY <2>1, <2>2, <2>3, <2>4
  <2>6. PICK room \in Nat \ {0} : room = HistLines - aliases BY <1>1
  <2>7. aliases' \in Nat /\ room = HistLines - aliases' BY <1>1, <2>1, <2>6
  <2>8. Fits(h, room) BY <2>5, <2>6
  <2>9. QED BY <1>3, <1>5, <2>1, <2>4, <2>5, <2>7, <2>8 DEF EnterCommand
<1>6. CASE TabHelp
  <2>1. PICK l \in Commands : /\ Becomes(Add(Now, l)) /\ Note(l) /\ aliases' = aliases
                              /\ currHist' = Head(Add(Now, l).hist).node
    BY <1>6 DEF TabHelp
  <2>2. /\ Fits(Add(Now, l), HistLines - aliases) /\ EndOf(Add(Now, l), Noted(entered, l))
        /\ Add(Now, l).hist # <<>>
    BY <1>1, AddKeeps DEF Named
  <2>3. PICK h : h = Add(Now, l) OBVIOUS
  <2>4. entered' = Noted(entered, l) /\ entered' \in Seq(Commands) BY <1>4, <2>1
  <2>5. /\ Fits(h, HistLines - aliases) /\ EndOf(h, entered') /\ Becomes(h) /\ h.hist # <<>>
        /\ currHist' = Head(h.hist).node
    BY <2>1, <2>2, <2>3, <2>4
  <2>6. PICK room \in Nat \ {0} : room = HistLines - aliases BY <1>1
  <2>7. aliases' \in Nat /\ room = HistLines - aliases' BY <1>1, <2>1, <2>6
  <2>8. Fits(h, room) BY <2>5, <2>6
  <2>9. QED BY <1>3, <1>6, <2>4, <2>5, <2>7, <2>8 DEF TabHelp
<1>7. /\ Fits(AfterAlias, HistLines - aliases - 1) /\ EndOf(AfterAlias, entered)
      /\ HasNode(AfterAlias) <=> HistLines - aliases - 1 >= 1
  <2> DEFINE h == Add(Now, AliasLine)
  <2>1. AliasLine \in Named /\ Meaning \in Named BY DEF Named
  <2>2. Noted(entered, AliasLine) = Append(entered, AliasLine)
    <3>1. ~(entered # <<>> /\ Last(entered) = AliasLine)
      <4>1. entered # <<>> => Last(entered) \in Commands BY <1>1 DEF HistoryTypeOK, Last
      <4>2. QED BY <4>1
    <3>2. QED BY <3>1 DEF Noted
  <2>3. Fits(h, HistLines - aliases) /\ EndOf(h, Append(entered, AliasLine)) /\ h.hist # <<>>
    BY <1>1, <2>1, <2>2, AddKeeps
  <2> HIDE DEF h
  <2>4. Fits(DropNewest(h), HistLines - aliases - 1) /\ EndOf(DropNewest(h), entered)
    BY <1>1, <2>1, <2>3, DropKeeps
  <2>5. AfterAlias = DropNewest(h) BY DEF AfterAlias, h
  <2>6. PICK g : g = AfterAlias OBVIOUS
  <2>7. PICK room \in Nat : room = HistLines - aliases - 1 BY <1>1
  <2>8. /\ g.hist \in Seq(Entry) /\ Len(g.hist) \in Nat /\ g.free \in SUBSET Nodes
        /\ Len(g.hist) + Cardinality(g.free) = room
    BY <2>4, <2>5, <2>6, <2>7 DEF Fits, Histories
  <2>9. Cardinality(g.free) \in Nat /\ (g.free = {} <=> Cardinality(g.free) = 0)
    BY <2>8, FreeFinite, FS_EmptySet
  <2>10. g.hist = <<>> <=> Len(g.hist) = 0 BY <2>8
  <2>11. HasNode(g) <=> room >= 1 BY <2>8, <2>9, <2>10 DEF HasNode
  <2>12. QED BY <2>4, <2>5, <2>6, <2>7, <2>11
<1>8. CASE EnterAlias
  <2>1. PICK room \in Nat \ {0} : room = HistLines - aliases - 1
    BY <1>1, <1>7, <1>8 DEF EnterAlias
  <2>2. PICK h : h = AfterAlias OBVIOUS
  <2>3. Fits(h, room) /\ EndOf(h, entered) BY <1>7, <2>1, <2>2
  <2>4. PICK g : g = Add(h, Meaning) OBVIOUS
  <2>5. Meaning \in Named BY DEF Named
  <2>6. Fits(g, room) /\ EndOf(g, Noted(entered, Meaning)) BY <1>1, <2>3, <2>4, <2>5, AddKeeps
  <2>7. /\ Becomes(g) /\ Note(Meaning) /\ currHist' = NoNode /\ aliases' = aliases + 1
        /\ UNCHANGED cliDead
    BY <1>8, <2>2, <2>4, Zenon DEF EnterAlias
  <2>8. room = HistLines - aliases' /\ aliases' \in Nat BY <1>1, <2>1, <2>7
  <2>9. entered' = Noted(entered, Meaning) /\ entered' \in Seq(Commands) BY <1>4, <2>7
  <2>10. QED BY <1>3, <2>6, <2>7, <2>8, <2>9
<1>9. CASE RunOut
  <2>1. /\ ~HasNode(AfterAlias) /\ Becomes(AfterAlias) /\ aliases' = aliases + 1
        /\ UNCHANGED <<entered, currHist>>
    BY <1>9 DEF RunOut
  <2>2. cliDead' = TRUE BY <1>9, Zenon DEF RunOut
  <2>3. hist' = <<>> /\ freeHist' = {} BY <2>1 DEF HasNode, Becomes
  <2>4. aliases' = HistLines /\ aliases' \in Nat BY <1>1, <1>7, <2>1
  <2>5. cliDead' \in BOOLEAN BY <2>2
  <2>6. HistoryTypeOK' BY <2>1, <2>3, <2>4, <2>5 DEF HistoryTypeOK
  <2>7. HistoryOver' BY <2>3, <2>4 DEF HistoryOver
  <2>8. QED BY <2>2, <2>6, <2>7, Zenon DEF HistoryIInv
<1>10. CASE DropLine
  <2>1. /\ UNCHANGED <<hist, freeHist, entered, aliases>> /\ currHist' = NoNode /\ Now' = Now
    BY <1>10 DEF DropLine, Now
  <2>2. UNCHANGED cliDead BY <1>10, Zenon DEF DropLine
  <2>3. CurrentIn(currHist, hist)' BY <2>1 DEF CurrentIn
  <2>4. cliDead' \in BOOLEAN BY <2>2, Zenon DEF HistoryTypeOK
  <2>5. HistoryTypeOK' BY <2>1, <2>4 DEF HistoryTypeOK
  <2>6. QED BY <1>2, <1>1, <2>1, <2>2, <2>3, <2>5 DEF HistoryAlive
<1>11. ASSUME UNCHANGED <<hist, freeHist, entered, aliases>>, UNCHANGED cliDead, NEW i \in 1 .. Len(hist),
             currHist' = hist[i].node
      PROVE  HistoryIInv'
  <2>1. hist[i] \in Entry BY <1>1 DEF HistoryTypeOK
  <2>2. hist[i].node \in Nodes BY <2>1 DEF Entry
  <2>3. CurrentIn(currHist, hist)' BY <1>11 DEF CurrentIn
  <2>4. Now' = Now BY <1>11 DEF Now
  <2>5. cliDead' \in BOOLEAN BY <1>11, Zenon DEF HistoryTypeOK
  <2>6. HistoryTypeOK' BY <1>11, <2>2, <2>5 DEF HistoryTypeOK
  <2>7. QED BY <1>2, <1>1, <1>11, <2>3, <2>4, <2>6 DEF HistoryAlive
<1>12. ASSUME currHist # NoNode
      PROVE  Place(currHist) \in 1 .. Len(hist) /\ hist[Place(currHist)].node = currHist
  BY <1>1, <1>12 DEF CurrentIn, Place
<1>13. ASSUME hist # <<>>
       PROVE  /\ Len(hist) \in 1 .. Len(hist) /\ Last(hist) = hist[Len(hist)]
              /\ 1 \in 1 .. Len(hist) /\ Head(hist) = hist[1]
  BY <1>1, <1>13 DEF HistoryTypeOK, Last
<1>14. CASE Previous
  <2>1. hist # <<>> /\ UNCHANGED <<hist, freeHist, entered, aliases>> BY <1>14 DEF Previous
  <2>2. \E i \in 1 .. Len(hist) : currHist' = hist[i].node
    <3>1. CASE currHist = NoNode BY <1>13, <1>14, <2>1, <3>1 DEF Previous
    <3>2. CASE currHist # NoNode /\ currHist = Head(hist).node
      BY <1>13, <1>14, <2>1, <3>2 DEF Previous
    <3>3. CASE currHist # NoNode /\ currHist # Head(hist).node
      <4>1. currHist' = hist[Place(currHist) - 1].node BY <1>14, <3>3 DEF Previous
      <4>2. Place(currHist) # 1 BY <1>12, <1>13, <2>1, <3>3
      <4>3. Place(currHist) - 1 \in 1 .. Len(hist) BY <1>12, <3>3, <4>2
      <4>4. QED BY <4>1, <4>3
    <3>4. QED BY <3>1, <3>2, <3>3
  <2>3. UNCHANGED cliDead BY <1>14, Zenon DEF Previous
  <2>4. QED BY <1>11, <2>1, <2>2, <2>3
<1>15. CASE Following
  <2>1. hist # <<>> /\ currHist # NoNode /\ UNCHANGED <<hist, freeHist, entered, aliases>>
    BY <1>15 DEF Following
  <2>2. \E i \in 1 .. Len(hist) : currHist' = hist[i].node
    <3>1. CASE currHist = Last(hist).node BY <1>13, <1>15, <2>1, <3>1 DEF Following
    <3>2. CASE currHist # Last(hist).node
      <4>1. currHist' = hist[Place(currHist) + 1].node BY <1>15, <3>2 DEF Following
      <4>2. Place(currHist) # Len(hist) BY <1>12, <1>13, <2>1, <3>2
      <4>3. Place(currHist) + 1 \in 1 .. Len(hist) BY <1>12, <1>13, <2>1, <4>2
      <4>4. QED BY <4>1, <4>3
    <3>3. QED BY <3>1, <3>2
  <2>3. UNCHANGED cliDead BY <1>15, Zenon DEF Following
  <2>4. QED BY <1>11, <2>1, <2>2, <2>3
<1>16. QED BY <1>5, <1>6, <1>10, <1>14, <1>15, <1>8, <1>9 DEF HistoryNext

\* The inductive invariant of the history.
LEMMA HistoryInvariant == HistorySpec => []HistoryIInv
<1>1. HistoryInit => HistoryIInv
  <2> SUFFICES ASSUME HistoryInit PROVE HistoryIInv OBVIOUS
  <2> USE HistoryAssumption DEF HistoryAssumption, HistoryInit
  <2>1. Cardinality(Nodes) = HistLines BY FS_Interval DEF Nodes
  <2>2. Now = [hist |-> <<>>, free |-> Nodes] BY DEF Now
  <2>3. Fits(Now, HistLines) BY <2>1, <2>2 DEF Fits, Histories
  <2>4. EndOf(Now, entered) BY <2>2 DEF EndOf
  <2>5. HistLines - aliases = HistLines OBVIOUS
  <2>6. HistoryAlive BY <2>3, <2>4, <2>5 DEF HistoryAlive, CurrentIn
  <2>7. HistoryTypeOK
    <3>1. cliDead \in BOOLEAN OBVIOUS
    <3>2. <<>> \in Seq(Entry) /\ <<>> \in Seq(Commands) /\ 0 \in Nat OBVIOUS
    <3>3. hist \in Seq(Entry) /\ entered \in Seq(Commands) /\ aliases \in Nat BY <3>2
    <3>4. freeHist \subseteq Nodes /\ currHist \in Nodes \cup {NoNode} OBVIOUS
    <3>5. QED BY <3>1, <3>3, <3>4, Zenon DEF HistoryTypeOK
  <2>8. ~cliDead OBVIOUS
  <2>9. QED BY <2>6, <2>7, <2>8, Zenon DEF HistoryIInv
<1>2. HistoryIInv /\ [HistoryNext]_historyVars => HistoryIInv'
  <2>1. ASSUME HistoryIInv, UNCHANGED historyVars PROVE HistoryIInv'
    BY <2>1, Zenon DEF HistoryIInv, HistoryAlive, HistoryOver, HistoryTypeOK, Now, historyVars
  <2>2. QED BY <2>1, HistoryStep
<1>3. QED BY <1>1, <1>2, PTL DEF HistorySpec

\* The history and its free nodes keep their type (cli_history_add, cli_history_del).
THEOREM HistoryTypeCorrect == HistorySpec => []HistoryTypeOK
<1>1. HistoryIInv => HistoryTypeOK BY DEF HistoryIInv
<1>2. QED BY <1>1, HistoryInvariant, PTL

\* The history is the newest of the lines entered, without immediate repetitions: all
\* nb_hist of them until an alias has been executed, and the last one at least until
\* the alias that frees the head of an empty list (cli_history_add, cli_history_del).
THEOREM HistoryIsTheNewest == HistorySpec => []KeepsNewest
<1>1. ASSUME HistoryIInv, ~cliDead PROVE KeepsNewest
  <2> HistoryTypeOK /\ HistoryAlive BY <1>1, Zenon DEF HistoryIInv
  <2>1. /\ hist \in Seq(Entry) /\ entered \in Seq(Commands) /\ freeHist \in SUBSET Nodes
        /\ Len(hist) \in Nat /\ Len(entered) \in Nat
    BY DEF HistoryTypeOK
  <2>2. /\ Len(hist) + Cardinality(freeHist) = HistLines - aliases /\ HistLines - aliases >= 1
        /\ Len(hist) <= Len(entered) /\ (freeHist # {} => Len(hist) = Len(entered))
        /\ \A i \in 1 .. Len(hist) : hist[i].line = entered[Len(entered) - Len(hist) + i]
        /\ \A i, j \in 1 .. Len(hist) : hist[i].node = hist[j].node => i = j
    BY DEF HistoryAlive, Fits, EndOf, Now
  <2>3. /\ aliases = 0 => Len(hist) = HistLines \/ Len(hist) = Len(entered)
        /\ entered # <<>> => hist # <<>>
    <3>1. CASE freeHist = {}
      <4>1. Cardinality(freeHist) = 0 BY <3>1, FS_EmptySet
      <4>2. HistLines - aliases = Len(hist) BY <2>1, <2>2, <4>1
      <4>3. QED BY <2>1, <2>2, <4>2, HistoryAssumption DEF HistoryAssumption
    <3>2. CASE freeHist # {} BY <2>1, <2>2, <3>2
    <3>3. QED BY <3>1, <3>2
  <2>4. [i \in 1 .. Len(hist) |-> hist[i].line] =
          SubSeq(entered, Len(entered) - Len(hist) + 1, Len(entered))
    BY <2>1, <2>2
  <2>5. CurrentIn(currHist, hist) BY DEF HistoryAlive
  <2>6. QED BY <1>1, <2>2, <2>3, <2>4, <2>5 DEF KeepsNewest, CurrentIn
<1>2. ASSUME HistoryIInv, cliDead PROVE KeepsNewest
  <2>1. HistoryTypeOK /\ HistoryOver BY <1>2, Zenon DEF HistoryIInv
  <2>2. /\ hist = <<>> /\ Len(hist) = 0 /\ aliases = HistLines /\ aliases # 0
        /\ Len(entered) \in Nat
    BY <2>1, HistoryAssumption DEF HistoryOver, HistoryTypeOK, HistoryAssumption
  <2>3. [i \in 1 .. Len(hist) |-> hist[i].line] =
          SubSeq(entered, Len(entered) - Len(hist) + 1, Len(entered))
    BY <2>1, <2>2 DEF HistoryTypeOK
  <2>4. QED BY <1>2, <2>2, <2>3, HistoryAssumption DEF KeepsNewest, HistoryAssumption
<1>3. QED BY <1>1, <1>2, HistoryInvariant, PTL
-----------------------------------------------------------------------------
(* The line editor.                                                        *)

\* What a byte of the buffer may hold.
Bytes == Chars \cup {Blank}

\* The text t fills mem but for the gap from a to e.
Filled(mem, t, a, e, b) ==
  /\ mem \in [0 .. b - 1 -> Bytes]
  /\ Len(t) = a + (b - e)
  /\ \A i \in 1 .. a : mem[i - 1] = t[i]
  /\ \A i \in a + 1 .. Len(t) : mem[i - 1 + (e - a)] = t[i]

\* A gap between a and e, a point p in the text or at an end of it.
Placed(a, e, b, p) ==
  /\ a \in Nat /\ e \in Nat /\ b \in Nat /\ p \in Nat
  /\ a <= e /\ e <= b
  /\ p <= a \/ (e <= p /\ p <= b)

\* g is a buffer of b bytes with the text t, its gap from a to e and its point at p.
Buf(g, t, a, e, b, p) ==
  /\ Placed(a, e, b, p)
  /\ t \in Seq(Chars)
  /\ \E mem : /\ g = [mem |-> mem, gap |-> a, egap |-> e, ebuf |-> b, point |-> p]
              /\ Filled(mem, t, a, e, b)

\* How many characters lie before the point.
Ahead(a, e, p) == IF p > a THEN p - (e - a) ELSE p

\* What is read out of a buffer is its text.
LEMMA TextRead ==
  ASSUME NEW g, NEW t, NEW a, NEW e, NEW b, NEW p, Buf(g, t, a, e, b, p)
  PROVE  Contents(g) = t
<1>1. PICK mem : /\ g = [mem |-> mem, gap |-> a, egap |-> e, ebuf |-> b, point |-> p]
                 /\ Filled(mem, t, a, e, b)
  BY DEF Buf
<1>2. Placed(a, e, b, p) /\ t \in Seq(Chars) BY DEF Buf
<1>3. PICK n \in Nat : n = Len(t) BY <1>2
<1>4. n = b - (e - a) BY <1>1, <1>2, <1>3 DEF Filled, Placed
<1>5. Contents(g) = [i \in 1 .. n |-> IF i <= a THEN mem[i - 1] ELSE mem[i - 1 + e - a]]
  BY <1>1, <1>4 DEF Contents
<1>6. ASSUME NEW i \in 1 .. n
      PROVE  (IF i <= a THEN mem[i - 1] ELSE mem[i - 1 + e - a]) = t[i]
  <2>1. CASE i <= a BY <1>1, <1>2, <2>1 DEF Filled, Placed
  <2>2. CASE ~(i <= a)
    <3>1. i \in a + 1 .. Len(t) BY <1>2, <1>3, <2>2 DEF Placed
    <3>2. mem[i - 1 + (e - a)] = t[i] BY <1>1, <3>1 DEF Filled
    <3>3. i - 1 + (e - a) = i - 1 + e - a BY <1>2 DEF Placed
    <3>4. QED BY <2>2, <3>2, <3>3
  <2>3. QED BY <2>1, <2>2
<1>7. t = [i \in 1 .. n |-> t[i]] BY <1>2, <1>3
<1>8. QED BY <1>5, <1>6, <1>7

\* A place in the text where the point may be put.
LEMMA PointPut ==
  ASSUME NEW g, NEW t, NEW a, NEW e, NEW b, NEW p, NEW q, Buf(g, t, a, e, b, p), Placed(a, e, b, q)
  PROVE  Buf([g EXCEPT !.point = q], t, a, e, b, q)
<1>1. PICK mem : /\ g = [mem |-> mem, gap |-> a, egap |-> e, ebuf |-> b, point |-> p]
                 /\ Filled(mem, t, a, e, b)
  BY DEF Buf
<1>2. [g EXCEPT !.point = q] = [mem |-> mem, gap |-> a, egap |-> e, ebuf |-> b, point |-> q]
  BY <1>1
<1>3. QED BY <1>1, <1>2 DEF Buf

\* The gap moves up: what lay between the point and the gap comes behind the gap.
LEMMA MovedUp ==
  ASSUME NEW a, NEW e, NEW b, NEW p, Placed(a, e, b, p), p < a,
         NEW t \in Seq(Chars), NEW old, Filled(old, t, a, e, b),
         NEW s \in Nat, s = e - (a - p)
  PROVE  Filled(Moved(old, s, p, a - p), t, p, s, b)
<1>1. PICK n \in Nat : n = a - p
  <2>1. a - p \in Nat BY DEF Placed
  <2>2. QED BY <2>1
<1> DEFINE new == [i \in 0 .. b - 1 |-> IF i \in s .. s + n - 1 THEN old[p + i - s] ELSE old[i]]
<1>2. old \in [0 .. b - 1 -> Bytes] /\ Len(t) = a + (b - e) BY DEF Filled
<1>3. Moved(old, s, p, n) = new BY <1>2 DEF Moved
<1>4. ASSUME NEW i \in 0 .. b - 1, s <= i, i < s + n
      PROVE  new[i] = old[p + i - s] /\ p + i - s \in 0 .. b - 1
  BY <1>1, <1>4 DEF Placed
<1>5. ASSUME NEW i \in 0 .. b - 1, ~(s <= i /\ i < s + n) PROVE new[i] = old[i]
  BY <1>1, <1>5 DEF Placed
<1>6. new \in [0 .. b - 1 -> Bytes]
  <2>1. \A i \in 0 .. b - 1 : new[i] \in Bytes BY <1>2, <1>4, <1>5
  <2>2. QED BY <2>1
<1> HIDE DEF new
<1>7. Len(t) = p + (b - s) BY <1>2 DEF Placed
<1>8. ASSUME NEW i \in 1 .. p PROVE new[i - 1] = t[i]
  <2>1. i - 1 \in 0 .. b - 1 /\ i - 1 < s /\ i \in 1 .. a BY DEF Placed
  <2>2. new[i - 1] = old[i - 1] BY <1>5, <2>1
  <2>3. QED BY <2>1, <2>2 DEF Filled
<1>9. ASSUME NEW i \in p + 1 .. Len(t) PROVE new[i - 1 + (s - p)] = t[i]
  <2>1. PICK j \in 0 .. b - 1 : j = i - 1 + (s - p)
    <3>1. i - 1 + (s - p) \in 0 .. b - 1 BY <1>7 DEF Placed
    <3>2. QED BY <3>1
  <2>2. CASE i <= a
    <3>1. s <= j /\ j < s + n /\ p + j - s = i - 1 /\ i \in 1 .. a BY <1>1, <2>1, <2>2 DEF Placed
    <3>2. new[j] = old[i - 1] BY <1>4, <3>1
    <3>3. old[i - 1] = t[i] BY <3>1 DEF Filled
    <3>4. QED BY <2>1, <3>2, <3>3
  <2>3. CASE ~(i <= a)
    <3>1. j >= s + n /\ j = i - 1 + (e - a) /\ i \in a + 1 .. Len(t) BY <1>1, <1>2, <2>1, <2>3 DEF Placed
    <3>2. new[j] = old[j] BY <1>1, <1>5, <3>1
    <3>3. old[i - 1 + (e - a)] = t[i] BY <3>1 DEF Filled
    <3>4. QED BY <2>1, <3>1, <3>2, <3>3
  <2>4. QED BY <2>2, <2>3
<1>10. Filled(new, t, p, s, b) BY <1>6, <1>7, <1>8, <1>9 DEF Filled
<1>11. QED BY <1>1, <1>3, <1>10

\* The gap moves down: what lay between the gap and the point comes before the gap.
LEMMA MovedDown ==
  ASSUME NEW a, NEW e, NEW b, NEW p, Placed(a, e, b, p), e < p, p <= b,
         NEW t \in Seq(Chars), NEW old, Filled(old, t, a, e, b),
         NEW c \in Nat, c = a + (p - e)
  PROVE  Filled(Moved(old, a, e, p - e), t, c, p, b)
<1>1. PICK n \in Nat : n = p - e
  <2>1. p - e \in Nat BY DEF Placed
  <2>2. QED BY <2>1
<1> DEFINE new == [i \in 0 .. b - 1 |-> IF i \in a .. a + n - 1 THEN old[e + i - a] ELSE old[i]]
<1>2. old \in [0 .. b - 1 -> Bytes] /\ Len(t) = a + (b - e) BY DEF Filled
<1>3. Moved(old, a, e, n) = new BY <1>2 DEF Moved
<1>4. ASSUME NEW i \in 0 .. b - 1, a <= i, i < a + n
      PROVE  new[i] = old[e + i - a] /\ e + i - a \in 0 .. b - 1
  BY <1>1, <1>4 DEF Placed
<1>5. ASSUME NEW i \in 0 .. b - 1, ~(a <= i /\ i < a + n) PROVE new[i] = old[i]
  BY <1>1, <1>5 DEF Placed
<1>6. new \in [0 .. b - 1 -> Bytes]
  <2>1. \A i \in 0 .. b - 1 : new[i] \in Bytes BY <1>2, <1>4, <1>5
  <2>2. QED BY <2>1
<1> HIDE DEF new
<1>7. Len(t) = c + (b - p) BY <1>2 DEF Placed
<1>8. ASSUME NEW i \in 1 .. c PROVE new[i - 1] = t[i]
  <2>1. i - 1 \in 0 .. b - 1 BY DEF Placed
  <2>2. CASE i <= a
    <3>1. i - 1 < a /\ i \in 1 .. a BY <2>2 DEF Placed
    <3>2. new[i - 1] = old[i - 1] BY <1>1, <1>5, <2>1, <3>1 DEF Placed
    <3>3. QED BY <3>1, <3>2 DEF Filled
  <2>3. CASE ~(i <= a)
    <3>1. a <= i - 1 /\ i - 1 < a + n /\ i \in a + 1 .. Len(t) BY <1>1, <1>2, <2>3 DEF Placed
    <3>2. new[i - 1] = old[e + (i - 1) - a] BY <1>4, <2>1, <3>1
    <3>3. e + (i - 1) - a = i - 1 + (e - a) BY DEF Placed
    <3>4. old[i - 1 + (e - a)] = t[i] BY <3>1 DEF Filled
    <3>5. QED BY <3>2, <3>3, <3>4
  <2>4. QED BY <2>2, <2>3
<1>9. ASSUME NEW i \in c + 1 .. Len(t) PROVE new[i - 1 + (p - c)] = t[i]
  <2>1. PICK j \in 0 .. b - 1 : j = i - 1 + (p - c)
    <3>1. i - 1 + (p - c) \in 0 .. b - 1 BY <1>7 DEF Placed
    <3>2. QED BY <3>1
  <2>2. j >= a + n /\ j = i - 1 + (e - a) /\ i \in a + 1 .. Len(t) BY <1>1, <1>2, <2>1 DEF Placed
  <2>3. new[j] = old[j] BY <1>1, <1>5, <2>2 DEF Placed
  <2>4. old[i - 1 + (e - a)] = t[i] BY <2>2 DEF Filled
  <2>5. QED BY <2>1, <2>2, <2>3, <2>4
<1>10. Filled(new, t, c, p, b) BY <1>6, <1>7, <1>8, <1>9 DEF Filled
<1>11. QED BY <1>1, <1>3, <1>10

\* The gap moves to the point and the text stays.
LEMMA GapMoved ==
  ASSUME NEW g, NEW t, NEW a, NEW e, NEW b, NEW p, Buf(g, t, a, e, b, p)
  PROVE  \E c, s : /\ Buf(GapAtPoint(g), t, c, s, b, c)
                   /\ c = Ahead(a, e, p) /\ c <= Len(t)
<1>1. PICK mem : /\ g = [mem |-> mem, gap |-> a, egap |-> e, ebuf |-> b, point |-> p]
                 /\ Filled(mem, t, a, e, b)
  BY DEF Buf
<1>2. Placed(a, e, b, p) /\ t \in Seq(Chars) BY DEF Buf
<1>3. Len(t) = a + (b - e) BY <1>1 DEF Filled
<1>4. CASE p = a
  <2>1. GapAtPoint(g) = g BY <1>1, <1>2, <1>4 DEF GapAtPoint, Placed
  <2>2. a = Ahead(a, e, p) /\ a <= Len(t) BY <1>2, <1>3, <1>4 DEF Ahead, Placed
  <2>3. QED BY <1>4, <2>1, <2>2
<1>5. CASE p = e /\ p # a
  <2>1. GapAtPoint(g) = [g EXCEPT !.point = a] BY <1>1, <1>2, <1>5 DEF GapAtPoint, Placed
  <2>2. Placed(a, e, b, a) BY <1>2 DEF Placed
  <2>3. a = Ahead(a, e, p) /\ a <= Len(t) BY <1>2, <1>3, <1>5 DEF Ahead, Placed
  <2>4. QED BY <2>1, <2>2, <2>3, PointPut
<1>6. CASE p < a
  <2>1. PICK s \in Nat : s = e - (a - p)
    <3>1. e - (a - p) \in Nat BY <1>2, <1>6 DEF Placed
    <3>2. QED BY <3>1
  <2>2. GapAtPoint(g) = [mem |-> Moved(mem, s, p, a - p), gap |-> p, egap |-> s, ebuf |-> b, point |-> p]
    <3>1. GapAtPoint(g) = [g EXCEPT !.mem = Moved(g.mem, g.egap - (g.gap - g.point), g.point, g.gap - g.point),
                                    !.egap = g.egap - (g.gap - g.point), !.gap = g.point]
      <4>1. g.gap = a /\ g.egap = e /\ g.point = p BY <1>1
      <4>2. p # a /\ p # e /\ ~(p > e) /\ ~(p \in a + 1 .. e - 1) BY <1>2, <1>6 DEF Placed
      <4>3. QED BY <1>6, <4>1, <4>2 DEF GapAtPoint
    <3>2. QED BY <1>1, <2>1, <3>1
  <2>3. Filled(Moved(mem, s, p, a - p), t, p, s, b) BY <1>1, <1>2, <1>6, <2>1, MovedUp
  <2>4. Placed(p, s, b, p) BY <1>2, <1>6, <2>1 DEF Placed
  <2>5. p = Ahead(a, e, p) /\ p <= Len(t) BY <1>2, <1>3, <1>6 DEF Ahead, Placed
  <2>6. Buf(GapAtPoint(g), t, p, s, b, p) BY <1>2, <2>2, <2>3, <2>4 DEF Buf
  <2>7. QED BY <2>5, <2>6
<1>7. CASE e < p
  <2>1. PICK c \in Nat : c = a + (p - e)
    <3>1. a + (p - e) \in Nat BY <1>2, <1>7 DEF Placed
    <3>2. QED BY <3>1
  <2>2. GapAtPoint(g) = [mem |-> Moved(mem, a, e, p - e), gap |-> c, egap |-> p, ebuf |-> b, point |-> c]
    <3>1. GapAtPoint(g) = [g EXCEPT !.mem = Moved(g.mem, g.gap, g.egap, g.point - g.egap),
                                    !.gap = g.gap + (g.point - g.egap), !.egap = g.point,
                                    !.point = g.gap + (g.point - g.egap)]
      <4>1. g.gap = a /\ g.egap = e /\ g.point = p BY <1>1
      <4>2. p # a /\ p # e /\ ~(p < a) /\ ~(p \in a + 1 .. e - 1) BY <1>2, <1>7 DEF Placed
      <4>3. QED BY <1>7, <4>1, <4>2 DEF GapAtPoint
    <3>2. QED BY <1>1, <2>1, <3>1
  <2>3. Filled(Moved(mem, a, e, p - e), t, c, p, b)
    <3>1. p <= b BY <1>2, <1>7 DEF Placed
    <3>2. QED BY <1>1, <1>2, <1>7, <2>1, <3>1, MovedDown
  <2>4. Placed(c, p, b, c) BY <1>2, <1>7, <2>1 DEF Placed
  <2>5. c = Ahead(a, e, p) /\ c <= Len(t) BY <1>2, <1>3, <1>7, <2>1 DEF Ahead, Placed
  <2>6. Buf(GapAtPoint(g), t, c, p, b, c) BY <1>2, <2>2, <2>3, <2>4 DEF Buf
  <2>7. QED BY <2>5, <2>6
<1>8. QED BY <1>2, <1>4, <1>5, <1>6, <1>7 DEF Placed

\* Room is made in the gap, the text stays.
LEMMA RoomMade ==
  ASSUME NEW g, NEW t, NEW c, NEW e, NEW b, Buf(g, t, c, e, b, c), NEW n \in Nat
  PROVE  \E e2, b2 : Buf(WithRoom(g, n), t, c, e2, b2, c) /\ n <= e2 - c
<1>1. PICK mem : /\ g = [mem |-> mem, gap |-> c, egap |-> e, ebuf |-> b, point |-> c]
                 /\ Filled(mem, t, c, e, b)
  BY DEF Buf
<1>2. Placed(c, e, b, c) /\ t \in Seq(Chars) BY DEF Buf
<1>3. CASE n <= e - c
  <2>1. WithRoom(g, n) = g BY <1>1, <1>3 DEF WithRoom
  <2>2. QED BY <1>3, <2>1
<1>4. CASE ~(n <= e - c)
  <2>1. PICK m \in Nat, e2 \in Nat, b2 \in Nat : m = n + GapSize /\ e2 = e + m /\ b2 = b + m
    <3>1. n + GapSize \in Nat /\ e + (n + GapSize) \in Nat /\ b + (n + GapSize) \in Nat
      BY <1>2, GapAssumption DEF Placed
    <3>2. QED BY <3>1
  <2> DEFINE new == [i \in 0 .. b + m - 1 |-> CASE i < e -> mem[i]
                                               [] i >= e + m -> mem[i - m]
                                               [] OTHER -> Blank]
  <2>2. WithRoom(g, n) = [mem |-> new, gap |-> c, egap |-> e2, ebuf |-> b2, point |-> c]
    <3>1. g.gap = c /\ g.egap = e /\ g.ebuf = b /\ g.mem = mem BY <1>1
    <3>2. WithRoom(g, n) = [g EXCEPT !.mem = new, !.egap = e + m, !.ebuf = b + m]
      <4>1. m = n + GapSize BY <2>1
      <4>2. QED BY <1>4, <3>1, <4>1 DEF WithRoom
    <3>3. e2 = e + m /\ b2 = b + m BY <2>1
    <3> HIDE DEF new
    <3>4. QED BY <1>1, <3>2, <3>3
  <2>3. ASSUME NEW i \in 0 .. b2 - 1, i < e PROVE new[i] = mem[i] /\ i \in 0 .. b - 1
    BY <1>2, <2>1, <2>3 DEF Placed
  <2>4. ASSUME NEW i \in 0 .. b2 - 1, i >= e2 PROVE new[i] = mem[i - m] /\ i - m \in 0 .. b - 1
    BY <1>2, <2>1, <2>4 DEF Placed
  <2>5. ASSUME NEW i \in 0 .. b2 - 1, ~(i < e), ~(i >= e2) PROVE new[i] = Blank
    BY <1>2, <2>1, <2>5 DEF Placed
  <2>6. new = [i \in 0 .. b2 - 1 |-> new[i]]
    <3>1. new = [i \in 0 .. b + m - 1 |-> new[i]] OBVIOUS
    <3>2. b + m - 1 = b2 - 1 BY <1>2, <2>1 DEF Placed
    <3> HIDE DEF new
    <3>3. QED BY <3>1, <3>2
  <2> HIDE DEF new
  <2>7. new \in [0 .. b2 - 1 -> Bytes]
    <3>1. \A i \in 0 .. b2 - 1 : new[i] \in Bytes
      <4>1. \A i \in 0 .. b - 1 : mem[i] \in Bytes BY <1>1 DEF Filled
      <4>2. Blank \in Bytes BY DEF Bytes
      <4>3. QED BY <2>3, <2>4, <2>5, <4>1, <4>2
    <3>2. QED BY <2>6, <3>1
  <2>8. Placed(c, e2, b2, c) BY <1>2, <2>1 DEF Placed
  <2>9. Len(t) = c + (b - e) BY <1>1 DEF Filled
  <2>10. Len(t) = c + (b2 - e2) BY SMTT(30), <1>2, <2>1, <2>9 DEF Placed
  <2>11. ASSUME NEW i \in 1 .. c PROVE new[i - 1] = t[i]
    <3>1. i - 1 \in 0 .. b2 - 1 /\ i - 1 < e BY <1>2, <2>1 DEF Placed
    <3>2. new[i - 1] = mem[i - 1] BY <2>3, <3>1
    <3>3. QED BY <1>1, <3>2 DEF Filled
  <2>12. ASSUME NEW i \in c + 1 .. Len(t) PROVE new[i - 1 + (e2 - c)] = t[i]
    <3>1. PICK j \in 0 .. b2 - 1 : j = i - 1 + (e2 - c) /\ j >= e2 /\ j - m = i - 1 + (e - c)
      <4>1. PICK k \in Nat : k = Len(t) BY <1>2
      <4>2. k = c + (b - e) /\ i \in c + 1 .. k BY <2>9, <4>1
      <4>3. /\ i - 1 + (e2 - c) \in 0 .. b2 - 1 /\ i - 1 + (e2 - c) >= e2
            /\ i - 1 + (e2 - c) - m = i - 1 + (e - c)
        <5>1. e2 - e = m /\ b2 - b = m BY <1>2, <2>1 DEF Placed
        <5>2. c \in Nat /\ e \in Nat /\ b \in Nat /\ c <= e BY <1>2 DEF Placed
        <5>3. QED BY <4>2, <5>1, <5>2
      <4>4. QED BY <1>2, <4>2, <4>3 DEF Placed
    <3>2. new[j] = mem[j - m] BY <2>4, <3>1
    <3>3. mem[i - 1 + (e - c)] = t[i] BY <1>1 DEF Filled
    <3>4. QED BY <3>1, <3>2, <3>3
  <2>13. Filled(new, t, c, e2, b2) BY <2>7, <2>10, <2>11, <2>12 DEF Filled
  <2>14. Buf(WithRoom(g, n), t, c, e2, b2, c) BY <1>2, <2>2, <2>8, <2>13 DEF Buf
  <2>15. n <= e2 - c BY <1>2, <2>1, GapAssumption DEF Placed
  <2>16. QED BY <2>14, <2>15
<1>5. QED BY <1>3, <1>4

\* The text t with s put after its first c characters.
Spliced(t, c, s) == SubSeq(t, 1, c) \o s \o SubSeq(t, c + 1, Len(t))

\* What lies where in two texts laid end to end.
LEMMA JoinedIs ==
  ASSUME NEW x \in Seq(Chars), NEW y \in Seq(Chars)
  PROVE  /\ x \o y \in Seq(Chars) /\ Len(x \o y) = Len(x) + Len(y)
         /\ \A i \in 1 .. Len(x) : (x \o y)[i] = x[i]
         /\ \A i \in Len(x) + 1 .. Len(x) + Len(y) : (x \o y)[i] = y[i - Len(x)]
<1>1. x \o y \in Seq(Chars) OBVIOUS
<1>2. Len(x \o y) = Len(x) + Len(y) OBVIOUS
<1>3. \A i \in 1 .. Len(x) : (x \o y)[i] = x[i] OBVIOUS
<1>4. \A i \in Len(x) + 1 .. Len(x) + Len(y) : (x \o y)[i] = y[i - Len(x)] OBVIOUS
<1>5. QED BY <1>1, <1>2, <1>3, <1>4

\* What lies where in a text something was put in.
LEMMA SplicedIs ==
  ASSUME NEW t \in Seq(Chars), NEW c \in Nat, c <= Len(t), NEW s \in Seq(Chars)
  PROVE  /\ Spliced(t, c, s) \in Seq(Chars)
         /\ Len(Spliced(t, c, s)) = Len(t) + Len(s)
         /\ \A i \in 1 .. c : Spliced(t, c, s)[i] = t[i]
         /\ \A i \in c + 1 .. c + Len(s) : Spliced(t, c, s)[i] = s[i - c]
         /\ \A i \in c + Len(s) + 1 .. Len(t) + Len(s) : Spliced(t, c, s)[i] = t[i - Len(s)]
<1>1. PICK n \in Nat, m \in Nat : n = Len(t) /\ m = Len(s) OBVIOUS
<1>2. PICK l \in Seq(Chars) : l = SubSeq(t, 1, c) /\ Len(l) = c /\ \A i \in 1 .. c : l[i] = t[i]
  <2>1. SubSeq(t, 1, c) \in Seq(Chars) OBVIOUS
  <2>2. Len(SubSeq(t, 1, c)) = c OBVIOUS
  <2>3. \A i \in 1 .. c : SubSeq(t, 1, c)[i] = t[i] OBVIOUS
  <2>4. QED BY <2>1, <2>2, <2>3
<1>3. PICK r \in Seq(Chars) : /\ r = SubSeq(t, c + 1, n) /\ Len(r) = n - c
                              /\ \A i \in 1 .. n - c : r[i] = t[i + c]
  <2>1. SubSeq(t, c + 1, n) \in Seq(Chars) BY <1>1
  <2>2. Len(SubSeq(t, c + 1, n)) = n - c BY <1>1
  <2>3. \A i \in 1 .. n - c : SubSeq(t, c + 1, n)[i] = t[i + c] BY <1>1
  <2>4. QED BY <2>1, <2>2, <2>3
<1>4. PICK u : u = l \o s \o r OBVIOUS
<1>5. Spliced(t, c, s) = u BY <1>1, <1>2, <1>3, <1>4 DEF Spliced
<1>6. PICK k \in Seq(Chars) : /\ k = l \o s /\ Len(k) = c + m
                              /\ \A i \in 1 .. c : k[i] = l[i]
                              /\ \A i \in c + 1 .. c + m : k[i] = s[i - c]
  <2>1. /\ l \o s \in Seq(Chars) /\ Len(l \o s) = Len(l) + Len(s)
        /\ \A i \in 1 .. Len(l) : (l \o s)[i] = l[i]
        /\ \A i \in Len(l) + 1 .. Len(l) + Len(s) : (l \o s)[i] = s[i - Len(l)]
    BY JoinedIs
  <2>2. Len(l) = c /\ Len(s) = m BY <1>1, <1>2
  <2>3. QED BY <2>1, <2>2
<1>7. /\ u = k \o r /\ u \in Seq(Chars) /\ Len(u) = n + m
      /\ \A i \in 1 .. c + m : u[i] = k[i]
      /\ \A i \in c + m + 1 .. n + m : u[i] = r[i - (c + m)]
  <2>1. u = k \o r BY <1>4, <1>6
  <2>2. /\ k \o r \in Seq(Chars) /\ Len(k \o r) = Len(k) + Len(r)
        /\ \A i \in 1 .. Len(k) : (k \o r)[i] = k[i]
        /\ \A i \in Len(k) + 1 .. Len(k) + Len(r) : (k \o r)[i] = r[i - Len(k)]
    BY JoinedIs
  <2>3. Len(k) = c + m /\ Len(k) + Len(r) = n + m
    <3>1. Len(k) = c + m BY <1>6
    <3>2. Len(r) = n - c BY <1>3
    <3>3. QED BY <3>1, <3>2
  <2>4. QED BY <2>1, <2>2, <2>3
<1>8. u \in Seq(Chars) /\ Len(u) = n + m BY <1>7
<1>9. ASSUME NEW i \in 1 .. c PROVE u[i] = t[i]
  <2>1. i \in 1 .. c + m BY <1>1
  <2>2. QED BY <1>2, <1>6, <1>7, <2>1
<1>10. ASSUME NEW i \in c + 1 .. c + m PROVE u[i] = s[i - c]
  <2>1. i \in 1 .. c + m OBVIOUS
  <2>2. QED BY <1>6, <1>7, <2>1
<1>11. ASSUME NEW i \in c + m + 1 .. n + m PROVE u[i] = t[i - m]
  <2>1. i - (c + m) \in 1 .. n - c /\ i - (c + m) + c = i - m BY <1>1
  <2>2. QED BY <1>3, <1>7, <2>1
<1>12. QED BY <1>1, <1>5, <1>8, <1>9, <1>10, <1>11

\* Characters written at the gap, which has room for them, come before the point.
LEMMA WrittenAtGap ==
  ASSUME NEW g, NEW t, NEW c, NEW e, NEW b, Buf(g, t, c, e, b, c), c <= Len(t),
         NEW s \in Seq(Chars), Len(s) <= e - c,
         NEW m \in Nat, m = c + Len(s)
  PROVE  Buf(Put(g, s), Spliced(t, c, s), m, e, b, m)
<1>1. PICK mem : /\ g = [mem |-> mem, gap |-> c, egap |-> e, ebuf |-> b, point |-> c]
                 /\ Filled(mem, t, c, e, b)
  BY DEF Buf
<1>2. Placed(c, e, b, c) /\ t \in Seq(Chars) BY DEF Buf
<1>3. mem \in [0 .. b - 1 -> Bytes] /\ Len(t) = c + (b - e) BY <1>1 DEF Filled
<1>4. PICK n \in Nat : n = Len(s) OBVIOUS
<1> DEFINE new == [i \in 0 .. b - 1 |-> IF i \in c .. c + n - 1 THEN s[i - c + 1] ELSE mem[i]]
<1>5. Put(g, s) = [mem |-> new, gap |-> m, egap |-> e, ebuf |-> b, point |-> m]
  <2>1. g.mem = mem /\ g.gap = c /\ g.point = c /\ DOMAIN mem = 0 .. b - 1 BY <1>1, <1>3
  <2>2. Put(g, s) = [g EXCEPT !.mem = new, !.gap = m, !.point = m] BY <1>4, <2>1 DEF Put
  <2>3. QED BY <1>1, <2>2
<1>6. ASSUME NEW i \in 0 .. b - 1, c <= i, i < c + n PROVE new[i] = s[i - c + 1]
  BY <1>2, <1>4, <1>6 DEF Placed
<1>7. ASSUME NEW i \in 0 .. b - 1, ~(c <= i /\ i < c + n) PROVE new[i] = mem[i]
  BY <1>2, <1>4, <1>7 DEF Placed
<1>8. new \in [0 .. b - 1 -> Bytes]
  <2>1. ASSUME NEW i \in 0 .. b - 1, c <= i, i < c + n PROVE new[i] \in Bytes
    <3>1. i - c + 1 \in 1 .. n BY <1>2, <2>1, <1>4 DEF Placed
    <3>2. s[i - c + 1] \in Chars BY <1>4, <3>1
    <3>3. QED BY <1>6, <2>1, <3>2 DEF Bytes
  <2>2. \A i \in 0 .. b - 1 : new[i] \in Bytes BY <1>3, <1>7, <2>1
  <2>3. QED BY <2>2
<1> HIDE DEF new
<1>9. PICK u \in Seq(Chars) :
        /\ u = Spliced(t, c, s) /\ Len(u) = Len(t) + n
        /\ \A i \in 1 .. c : u[i] = t[i]
        /\ \A i \in c + 1 .. c + n : u[i] = s[i - c]
        /\ \A i \in c + n + 1 .. Len(t) + n : u[i] = t[i - n]
  <2>1. c \in Nat /\ t \in Seq(Chars) BY <1>2 DEF Placed
  <2>2. /\ Spliced(t, c, s) \in Seq(Chars) /\ Len(Spliced(t, c, s)) = Len(t) + Len(s)
        /\ \A i \in 1 .. c : Spliced(t, c, s)[i] = t[i]
        /\ \A i \in c + 1 .. c + Len(s) : Spliced(t, c, s)[i] = s[i - c]
        /\ \A i \in c + Len(s) + 1 .. Len(t) + Len(s) : Spliced(t, c, s)[i] = t[i - Len(s)]
    BY ZenonT(40), <2>1, SplicedIs
  <2>3. QED BY <1>4, <2>2
<1>10. Len(u) = m + (b - e) BY <1>2, <1>3, <1>4, <1>9 DEF Placed
<1>11. ASSUME NEW i \in 1 .. m PROVE new[i - 1] = u[i]
  <2>1. i - 1 \in 0 .. b - 1 BY <1>2, <1>4 DEF Placed
  <2>2. CASE i <= c
    <3>1. ~(c <= i - 1) /\ i \in 1 .. c BY <1>2, <2>2 DEF Placed
    <3>2. new[i - 1] = mem[i - 1] BY <1>7, <2>1, <3>1
    <3>3. QED BY <1>1, <1>9, <3>1, <3>2 DEF Filled
  <2>3. CASE ~(i <= c)
    <3>1. c <= i - 1 /\ i - 1 < c + n /\ i \in c + 1 .. c + n /\ i - 1 - c + 1 = i - c
      BY <1>2, <1>4, <2>3 DEF Placed
    <3>2. new[i - 1] = s[i - 1 - c + 1] BY <1>6, <2>1, <3>1
    <3>3. QED BY <1>9, <3>1, <3>2
  <2>4. QED BY <2>2, <2>3
<1>12. ASSUME NEW i \in m + 1 .. Len(u) PROVE new[i - 1 + (e - m)] = u[i]
  <2>1. PICK j \in c + 1 .. Len(t) : j = i - n
    <3>1. i - n \in c + 1 .. Len(t) BY <1>2, <1>4, <1>9 DEF Placed
    <3>2. QED BY <3>1
  <2>2. PICK k \in 0 .. b - 1 : k = j - 1 + (e - c)
    <3>1. j - 1 + (e - c) \in 0 .. b - 1 BY <1>2, <1>3, <2>1 DEF Placed
    <3>2. QED BY <3>1
  <2>3. i - 1 + (e - m) = k /\ k >= c + n BY <1>2, <1>4, <2>1, <2>2 DEF Placed
  <2>4. new[k] = mem[k] BY <1>2, <1>4, <1>7, <2>3 DEF Placed
  <2>5. mem[k] = t[j] BY <1>1, <2>1, <2>2 DEF Filled
  <2>6. i \in c + n + 1 .. Len(t) + n BY <1>2, <1>4, <1>9 DEF Placed
  <2>7. u[i] = t[j] BY <1>9, <2>1, <2>6
  <2>8. QED BY <2>3, <2>4, <2>5, <2>7
<1>13. Filled(new, u, m, e, b) BY <1>8, <1>10, <1>11, <1>12 DEF Filled
<1>14. Placed(m, e, b, m) BY <1>2 DEF Placed
<1>15. QED BY <1>5, <1>9, <1>13, <1>14 DEF Buf

\* What is inserted comes between what lay before the cursor and what lay beyond.
LEMMA InsertedIs ==
  ASSUME NEW g, NEW t, NEW a, NEW e, NEW b, NEW p, Buf(g, t, a, e, b, p), NEW s \in Seq(Chars)
  PROVE  \E c, m, e2, b2 :
           /\ c \in Nat /\ m \in Nat
           /\ c = Ahead(a, e, p) /\ c <= Len(t) /\ m = c + Len(s)
           /\ Buf(Inserted(g, s), Spliced(t, c, s), m, e2, b2, m)
<1>1. PICK c, x : Buf(GapAtPoint(g), t, c, x, b, c) /\ c = Ahead(a, e, p) /\ c <= Len(t)
  BY GapMoved
<1>2. PICK n \in Nat : n = Len(s) OBVIOUS
<1>3. PICK h, e2, b2 : h = WithRoom(GapAtPoint(g), n) /\ Buf(h, t, c, e2, b2, c) /\ n <= e2 - c
  BY <1>1, RoomMade
<1>4. PICK m \in Nat : c \in Nat /\ m = c + Len(s)
  <2>1. c \in Nat BY <1>3 DEF Buf, Placed
  <2>2. c + Len(s) \in Nat BY <2>1
  <2>3. QED BY <2>1, <2>2
<1>5. Inserted(g, s) = Put(h, s) BY <1>2, <1>3 DEF Inserted
<1>6. Buf(Inserted(g, s), Spliced(t, c, s), m, e2, b2, m)
  <2>1. Len(s) <= e2 - c BY <1>2, <1>3
  <2>2. QED BY <1>1, <1>3, <1>4, <1>5, <2>1, WrittenAtGap
<1>7. QED BY <1>1, <1>4, <1>6

\* The n characters beyond the cursor go.
LEMMA DeletedIs ==
  ASSUME NEW g, NEW t, NEW a, NEW e, NEW b, NEW p, Buf(g, t, a, e, b, p),
         NEW n \in Nat, n <= Len(t) - Ahead(a, e, p)
  PROVE  \E c, e2 :
           /\ c \in Nat /\ c = Ahead(a, e, p) /\ c <= Len(t)
           /\ Buf(Deleted(g, n), SubSeq(t, 1, c) \o SubSeq(t, c + n + 1, Len(t)), c, e2, b, c)
<1>1. PICK h, c, x : h = GapAtPoint(g) /\ Buf(h, t, c, x, b, c) /\ c = Ahead(a, e, p) /\ c <= Len(t)
  BY GapMoved
<1>2. PICK mem : /\ h = [mem |-> mem, gap |-> c, egap |-> x, ebuf |-> b, point |-> c]
                 /\ Filled(mem, t, c, x, b)
  BY <1>1 DEF Buf
<1>3. Placed(c, x, b, c) /\ t \in Seq(Chars) BY <1>1 DEF Buf
<1>4. Len(t) = c + (b - x) /\ c \in Nat /\ n <= Len(t) - c BY <1>1, <1>2, <1>3 DEF Filled, Placed
<1>5. PICK e2 \in Nat : e2 = x + n BY <1>3 DEF Placed
<1>6. Deleted(g, n) = [mem |-> mem, gap |-> c, egap |-> e2, ebuf |-> b, point |-> c]
  BY <1>1, <1>2, <1>5 DEF Deleted
<1>7. PICK k \in Nat : k = Len(t) BY <1>3
<1>8. PICK l \in Seq(Chars) : l = SubSeq(t, 1, c) /\ Len(l) = c /\ \A i \in 1 .. c : l[i] = t[i]
  <2>1. SubSeq(t, 1, c) \in Seq(Chars) BY <1>1, <1>3, <1>4
  <2>2. Len(SubSeq(t, 1, c)) = c BY <1>1, <1>3, <1>4
  <2>3. \A i \in 1 .. c : SubSeq(t, 1, c)[i] = t[i] BY <1>1, <1>3, <1>4
  <2>4. QED BY <2>1, <2>2, <2>3
<1>9. PICK r \in Seq(Chars) : /\ r = SubSeq(t, c + n + 1, k) /\ Len(r) = k - (c + n)
                              /\ \A i \in 1 .. k - (c + n) : r[i] = t[i + (c + n)]
  <2>1. c + n \in Nat /\ c + n <= k BY <1>4, <1>7
  <2>2. SubSeq(t, c + n + 1, k) \in Seq(Chars) BY <1>3, <1>7, <2>1
  <2>3. Len(SubSeq(t, c + n + 1, k)) = k - (c + n) BY <1>3, <1>7, <2>1
  <2>4. \A i \in 1 .. k - (c + n) : SubSeq(t, c + n + 1, k)[i] = t[i + (c + n)] BY <1>3, <1>7, <2>1
  <2>5. QED BY <2>2, <2>3, <2>4
<1>10. PICK u \in Seq(Chars) :
         /\ u = l \o r /\ Len(u) = k - n
         /\ \A i \in 1 .. c : u[i] = t[i]
         /\ \A i \in c + 1 .. k - n : u[i] = t[i + n]
  <2>1. /\ l \o r \in Seq(Chars) /\ Len(l \o r) = k - n
        /\ \A i \in 1 .. c : (l \o r)[i] = l[i]
        /\ \A i \in c + 1 .. k - n : (l \o r)[i] = r[i - c]
    <3>1. /\ l \o r \in Seq(Chars) /\ Len(l \o r) = Len(l) + Len(r)
          /\ \A i \in 1 .. Len(l) : (l \o r)[i] = l[i]
          /\ \A i \in Len(l) + 1 .. Len(l) + Len(r) : (l \o r)[i] = r[i - Len(l)]
      BY JoinedIs
    <3>2. Len(l) = c BY <1>8
    <3>3. Len(l) + Len(r) = k - n
      <4>1. Len(r) = k - (c + n) BY <1>9
      <4>2. QED BY <1>4, <1>7, <3>2, <4>1
    <3>4. QED BY <3>1, <3>2, <3>3
  <2>2. \A i \in 1 .. c : (l \o r)[i] = l[i] BY <2>1
  <2>3. ASSUME NEW i \in c + 1 .. k - n PROVE (l \o r)[i] = t[i + n]
    <3>1. (l \o r)[i] = r[i - c] BY <2>1
    <3>2. i - c \in 1 .. k - (c + n) /\ i - c + (c + n) = i + n BY <1>4, <1>7
    <3>3. QED BY <1>9, <3>1, <3>2
  <2>4. QED BY ZenonT(40), <1>8, <2>1, <2>2, <2>3
<1>11. Placed(c, e2, b, c) BY <1>3, <1>4, <1>5 DEF Placed
<1>12. Filled(mem, u, c, e2, b)
  <2>1. Len(u) = c + (b - e2) BY <1>3, <1>4, <1>5, <1>7, <1>10 DEF Placed
  <2>2. \A i \in 1 .. c : mem[i - 1] = u[i] BY <1>2, <1>10 DEF Filled
  <2>3. ASSUME NEW i \in c + 1 .. Len(u) PROVE mem[i - 1 + (e2 - c)] = u[i]
    <3>1. PICK j \in c + 1 .. Len(t) : j = i + n
      <4>1. i + n \in c + 1 .. Len(t) BY <1>4, <1>7, <1>10
      <4>2. QED BY <4>1
    <3>2. i - 1 + (e2 - c) = j - 1 + (x - c) BY <1>3, <1>5, <3>1 DEF Placed
    <3>3. mem[j - 1 + (x - c)] = t[j] BY <1>2, <3>1 DEF Filled
    <3>4. u[i] = t[j] BY <1>10, <3>1
    <3>5. QED BY <3>2, <3>3, <3>4
  <2>4. QED BY <1>2, <2>1, <2>2, <2>3 DEF Filled
<1>13. Buf(Deleted(g, n), u, c, e2, b, c) BY <1>6, <1>11, <1>12 DEF Buf
<1>14. u = SubSeq(t, 1, c) \o SubSeq(t, c + n + 1, Len(t)) BY <1>7, <1>8, <1>9, <1>10
<1>15. QED BY <1>1, <1>4, <1>13, <1>14

\* g is a buffer that shows the text t with c characters before the cursor.
Reads(g, t, c) == \E a, e, b, p : Buf(g, t, a, e, b, p) /\ c = Ahead(a, e, p)

\* The cursor of a buffer.
CursorIn(g) == IF g.point > g.gap THEN g.point - (g.egap - g.gap) ELSE g.point

\* Text and cursor are read out of the buffer.
LEMMA ReadsIs ==
  ASSUME NEW g, NEW t, NEW c, Reads(g, t, c)
  PROVE  /\ Contents(g) = t /\ CursorIn(g) = c
         /\ t \in Seq(Chars) /\ c \in Nat /\ c <= Len(t)
<1>1. PICK a, e, b, p : Buf(g, t, a, e, b, p) /\ c = Ahead(a, e, p) BY DEF Reads
<1>2. PICK mem : /\ g = [mem |-> mem, gap |-> a, egap |-> e, ebuf |-> b, point |-> p]
                 /\ Filled(mem, t, a, e, b)
  BY <1>1 DEF Buf
<1>3. Placed(a, e, b, p) /\ t \in Seq(Chars) BY <1>1 DEF Buf
<1>4. Contents(g) = t BY <1>1, TextRead
<1>5. CursorIn(g) = c BY <1>1, <1>2 DEF CursorIn, Ahead
<1>6. Len(t) = a + (b - e) BY <1>2 DEF Filled
<1>7. c \in Nat /\ c <= Len(t) BY <1>1, <1>3, <1>6 DEF Placed, Ahead
<1>8. QED BY <1>3, <1>4, <1>5, <1>7

\* Another place for the point shows another cursor in the same text.
LEMMA PointReads ==
  ASSUME NEW g, NEW t, NEW a, NEW e, NEW b, NEW p, NEW q, NEW c, Buf(g, t, a, e, b, p),
         Placed(a, e, b, q), c = Ahead(a, e, q)
  PROVE  Reads([g EXCEPT !.point = q], t, c)
BY PointPut DEF Reads

\* The gap comes to the cursor.
LEMMA GapReads ==
  ASSUME NEW g, NEW t, NEW c, Reads(g, t, c)
  PROVE  Reads(GapAtPoint(g), t, c)
<1>1. PICK a, e, b, p : Buf(g, t, a, e, b, p) /\ c = Ahead(a, e, p) BY DEF Reads
<1>2. PICK s : Buf(GapAtPoint(g), t, c, s, b, c) BY <1>1, GapMoved
<1>3. c = Ahead(c, s, c)
  <2>1. c \in Nat BY <1>2 DEF Buf, Placed
  <2>2. QED BY <2>1 DEF Ahead
<1>4. QED BY <1>2, <1>3 DEF Reads

\* What is inserted comes before the cursor.
LEMMA InsertReads ==
  ASSUME NEW g, NEW t, NEW c, Reads(g, t, c), NEW s \in Seq(Chars)
  PROVE  /\ Reads(Inserted(g, s), Spliced(t, c, s), c + Len(s))
         /\ Inserted(g, s).gap = c + Len(s) /\ Inserted(g, s).point = c + Len(s)
         /\ Inserted(g, s).ebuf \in Nat
         /\ Reads([Inserted(g, s) EXCEPT !.point = c + Len(s)], Spliced(t, c, s), c + Len(s))
<1>1. PICK a, e, b, p : Buf(g, t, a, e, b, p) /\ c = Ahead(a, e, p) BY DEF Reads
<1>2. PICK m, e2, b2 :
        /\ c \in Nat /\ m \in Nat /\ m = c + Len(s)
        /\ Buf(Inserted(g, s), Spliced(t, c, s), m, e2, b2, m)
  <2>1. \E d, m, e2, b2 :
          /\ d \in Nat /\ m \in Nat
          /\ d = Ahead(a, e, p) /\ d <= Len(t) /\ m = d + Len(s)
          /\ Buf(Inserted(g, s), Spliced(t, d, s), m, e2, b2, m)
    BY <1>1, InsertedIs
  <2>2. QED BY <1>1, <2>1
<1>3. m = Ahead(m, e2, m) BY <1>2 DEF Ahead
<1>4. Inserted(g, s).gap = m /\ Inserted(g, s).point = m BY <1>2 DEF Buf
<1>5. Reads(Inserted(g, s), Spliced(t, c, s), m) BY <1>2, <1>3 DEF Reads
<1>6. Placed(m, e2, b2, m) BY <1>2 DEF Buf
<1>7. Reads([Inserted(g, s) EXCEPT !.point = m], Spliced(t, c, s), m) BY <1>2, <1>3, <1>6, PointReads
<1>8. Inserted(g, s).ebuf \in Nat BY <1>2 DEF Buf, Placed
<1>9. QED BY <1>2, <1>4, <1>5, <1>7, <1>8

\* What is deleted lay beyond the cursor.
LEMMA DeleteReads ==
  ASSUME NEW g, NEW t, NEW c, Reads(g, t, c), NEW n \in Nat, n <= Len(t) - c
  PROVE  Reads(Deleted(g, n), SubSeq(t, 1, c) \o SubSeq(t, c + n + 1, Len(t)), c)
<1>1. PICK a, e, b, p : Buf(g, t, a, e, b, p) /\ c = Ahead(a, e, p) BY DEF Reads
<1>2. PICK e2 : c \in Nat /\ Buf(Deleted(g, n), SubSeq(t, 1, c) \o SubSeq(t, c + n + 1, Len(t)), c, e2, b, c)
  <2>1. n <= Len(t) - Ahead(a, e, p) BY <1>1
  <2>2. \E d, e2 :
          /\ d \in Nat /\ d = Ahead(a, e, p) /\ d <= Len(t)
          /\ Buf(Deleted(g, n), SubSeq(t, 1, d) \o SubSeq(t, d + n + 1, Len(t)), d, e2, b, d)
    BY <1>1, <2>1, DeletedIs
  <2>3. QED BY <1>1, <2>2
<1>3. c = Ahead(c, e2, c) BY <1>2 DEF Ahead
<1>4. QED BY <1>2, <1>3 DEF Reads

\* The start and the end of the text.
LEMMA EndsRead ==
  ASSUME NEW g, NEW t, NEW c, Reads(g, t, c)
  PROVE  Reads(PointAt(g, 0), t, 0) /\ Reads(PointAt(g, -1), t, Len(t))
<1>1. PICK a, e, b, p : Buf(g, t, a, e, b, p) /\ c = Ahead(a, e, p) BY DEF Reads
<1>2. PICK mem : /\ g = [mem |-> mem, gap |-> a, egap |-> e, ebuf |-> b, point |-> p]
                 /\ Filled(mem, t, a, e, b)
  BY <1>1 DEF Buf
<1>3. Placed(a, e, b, p) BY <1>1 DEF Buf
<1>4. Len(t) = a + (b - e) BY <1>2 DEF Filled
<1>5. Placed(a, e, b, 0) /\ 0 = Ahead(a, e, 0) BY <1>3 DEF Placed, Ahead
<1>6. Placed(a, e, b, b) /\ Len(t) = Ahead(a, e, b) BY <1>3, <1>4 DEF Placed, Ahead
<1>7. PointAt(g, 0) = [g EXCEPT !.point = 0] BY <1>2, <1>3 DEF PointAt, Placed
<1>8. PointAt(g, -1) = [g EXCEPT !.point = b] BY <1>2, <1>3 DEF PointAt, Placed
<1>9. Reads(PointAt(g, 0), t, 0) BY <1>1, <1>5, <1>7, PointReads
<1>10. Reads(PointAt(g, -1), t, Len(t)) BY <1>1, <1>6, <1>8, PointReads
<1>11. QED BY <1>9, <1>10

\* The sides of the gap are one place in the text.
LEMMA SidesRead ==
  ASSUME NEW g, NEW t, NEW c, Reads(g, t, c)
  PROVE  Reads(OnLeft(g), t, c) /\ Reads(OnRight(g), t, c)
<1>1. PICK a, e, b, p : Buf(g, t, a, e, b, p) /\ c = Ahead(a, e, p) BY DEF Reads
<1>2. g.gap = a /\ g.egap = e /\ g.point = p BY <1>1 DEF Buf
<1>3. Placed(a, e, b, p) BY <1>1 DEF Buf
<1>4. PICK q : q = IF p = e THEN a ELSE p OBVIOUS
<1>5. PICK r : r = IF p = a THEN e ELSE p OBVIOUS
<1>6. Placed(a, e, b, q) /\ c = Ahead(a, e, q) BY <1>1, <1>3, <1>4 DEF Placed, Ahead
<1>7. Placed(a, e, b, r) /\ c = Ahead(a, e, r) BY <1>1, <1>3, <1>5 DEF Placed, Ahead
<1>8. OnLeft(g) = [g EXCEPT !.point = q] BY <1>2, <1>4 DEF OnLeft
<1>9. OnRight(g) = [g EXCEPT !.point = r] BY <1>2, <1>5 DEF OnRight
<1>10. Reads(OnLeft(g), t, c) BY <1>1, <1>6, <1>8, PointReads
<1>11. Reads(OnRight(g), t, c) BY <1>1, <1>7, <1>9, PointReads
<1>12. QED BY <1>10, <1>11

\* A step to the left, which stays at the start of the text.
LEMMA LeftReads ==
  ASSUME NEW g, NEW t, NEW c, Reads(g, t, c)
  PROVE  Reads(StepLeft(g), t, IF c > 0 THEN c - 1 ELSE 0)
<1>1. PICK a, e, b, p : Buf(g, t, a, e, b, p) /\ c = Ahead(a, e, p) BY DEF Reads
<1>2. PICK mem : g = [mem |-> mem, gap |-> a, egap |-> e, ebuf |-> b, point |-> p] BY <1>1 DEF Buf
<1>3. Placed(a, e, b, p) BY <1>1 DEF Buf
<1>4. PICK q : q = IF p = e THEN a ELSE p OBVIOUS
<1>5. PICK r : r = IF q > 0 THEN q - 1 ELSE 0 OBVIOUS
<1>6. Placed(a, e, b, r) /\ Ahead(a, e, r) = IF c > 0 THEN c - 1 ELSE 0
  BY <1>1, <1>3, <1>4, <1>5 DEF Placed, Ahead
<1>7. StepLeft(g) = [g EXCEPT !.point = r] BY <1>2, <1>4, <1>5 DEF StepLeft, OnLeft
<1>8. QED BY <1>1, <1>6, <1>7, PointReads

\* A step to the right from a place that is not the end.
LEMMA RightReads ==
  ASSUME NEW g, NEW t, NEW c, Reads(g, t, c), ~AtEof(g)
  PROVE  Reads(StepRight(g), t, c + 1) /\ c + 1 <= Len(t)
<1>1. PICK a, e, b, p : Buf(g, t, a, e, b, p) /\ c = Ahead(a, e, p) BY DEF Reads
<1>2. PICK mem : /\ g = [mem |-> mem, gap |-> a, egap |-> e, ebuf |-> b, point |-> p]
                 /\ Filled(mem, t, a, e, b)
  BY <1>1 DEF Buf
<1>3. Placed(a, e, b, p) BY <1>1 DEF Buf
<1>4. Len(t) = a + (b - e) BY <1>2 DEF Filled
<1>5. IF p = a THEN e # b ELSE p # b BY <1>2 DEF AtEof
<1>6. PICK q : q = IF p = a THEN e ELSE p OBVIOUS
<1>7. PICK r : r = IF q < b THEN q + 1 ELSE b OBVIOUS
<1>8. Placed(a, e, b, r) /\ Ahead(a, e, r) = c + 1 /\ c + 1 <= Len(t)
  BY <1>1, <1>3, <1>4, <1>5, <1>6, <1>7 DEF Placed, Ahead
<1>9. StepRight(g) = [g EXCEPT !.point = r] BY <1>2, <1>6, <1>7 DEF StepRight, OnRight
<1>10. Reads(StepRight(g), t, c + 1) BY <1>1, <1>8, <1>9, PointReads
<1>11. QED BY <1>8, <1>10

\* A buffer that was cleared shows no text.
LEMMA ClearedReads ==
  ASSUME NEW n \in Nat
  PROVE  Reads(Cleared(n), <<>>, 0)
<1> DEFINE mem == [i \in 0 .. n - 1 |-> Blank]
<1>1. Cleared(n) = [mem |-> mem, gap |-> 0, egap |-> n, ebuf |-> n, point |-> 0] BY DEF Cleared
<1>2. mem \in [0 .. n - 1 -> Bytes]
  <2>1. Blank \in Bytes BY DEF Bytes
  <2>2. QED BY <2>1
<1> HIDE DEF mem
<1>3. Filled(mem, <<>>, 0, n, n) BY <1>2 DEF Filled
<1>4. Placed(0, n, n, 0) /\ 0 = Ahead(0, n, 0) BY DEF Placed, Ahead
<1>5. Buf(Cleared(n), <<>>, 0, n, n, 0) BY <1>1, <1>3, <1>4 DEF Buf
<1>6. QED BY <1>4, <1>5 DEF Reads

\* Pointers in order, the size of the buffer a number.
LEMMA ReadsInOrder ==
  ASSUME NEW g, NEW t, NEW c, Reads(g, t, c)
  PROVE  /\ g.gap <= g.egap /\ g.egap <= g.ebuf
         /\ g.point \in (0 .. g.gap) \cup (g.egap .. g.ebuf)
         /\ g.ebuf \in Nat
         /\ ~(g.point = 0) /\ ~(g.gap = 0 /\ g.point = g.egap /\ g.egap > 0) => c > 0
<1>1. PICK a, e, b, p : Buf(g, t, a, e, b, p) /\ c = Ahead(a, e, p) BY DEF Reads
<1>2. g.gap = a /\ g.egap = e /\ g.ebuf = b /\ g.point = p BY <1>1 DEF Buf
<1>3. Placed(a, e, b, p) BY <1>1 DEF Buf
<1>4. QED BY <1>1, <1>2, <1>3 DEF Placed, Ahead

\* The inductive invariant: the buffer shows a text, and the kill buffer is one or was never filled.
EditorInv ==
  /\ \E t, c : Reads(gb, t, c)
  /\ kill \in {Null} \cup Seq(Chars)
  /\ byWord \in {"none", "left", "right"}

\* A step of the promised line, or none.
LineStep == [Line!LineNext]_(Line!lineVars)

\* What Ctrl-K took last, as the line promises it.
Cut(k) == IF k \in {Null, Freed} THEN <<>> ELSE k

\* A text is not one of the two pointers that hold none.
LEMMA TextIsNoPointer ==
  ASSUME NEW s \in Seq(Chars)
  PROVE  s \notin {Null, Freed}
<1>1. ASSUME s = Null PROVE FALSE
  <2>1. s[1] = "null" /\ Len(s) = 1 BY <1>1 DEF Null
  <2>2. QED BY <2>1, LineAssumption
<1>2. ASSUME s = Freed PROVE FALSE
  <2>1. s[1] = "freed" /\ Len(s) = 1 BY <1>2 DEF Freed
  <2>2. QED BY <2>1, LineAssumption
<1>3. QED BY <1>1, <1>2

\* The cursor moves.
LEMMA Motion ==
  ASSUME NEW t, NEW c, Reads(gb, t, c), NEW i, Reads(gb', t, i), kill' = kill,
         i \in {0, c, c + 1, Len(t)} \/ (c > 0 /\ i = c - 1)
  PROVE  LineStep
<1>1. Contents(gb) = t /\ CursorAt = c /\ c \in Nat BY ReadsIs DEF CursorAt, CursorIn
<1>2. Contents(gb') = t /\ CursorAt' = i /\ i \in 0 .. Len(t)
  BY ReadsIs DEF CursorAt, CursorIn
<1>3. Cut(kill') = Cut(kill) OBVIOUS
<1>4. CASE i = c BY <1>1, <1>2, <1>3, <1>4 DEF LineStep, Line!lineVars, Cut
<1>5. CASE i \in {0, c + 1, Len(t)}
  <2>1. Line!MoveTo(i) BY <1>1, <1>2, <1>3 DEF Line!MoveTo, Cut
  <2>2. Line!LineNext BY <1>1, <1>5, <2>1 DEF Line!LineNext
  <2>3. QED BY <2>2 DEF LineStep
<1>6. CASE c > 0 /\ i = c - 1
  <2>1. Line!MoveTo(i) BY <1>1, <1>2, <1>3 DEF Line!MoveTo, Cut
  <2>2. Line!LineNext BY <1>1, <1>6, <2>1 DEF Line!LineNext
  <2>3. QED BY <2>2 DEF LineStep
<1>7. QED BY <1>4, <1>5, <1>6

\* Text put in before the cursor.
LEMMA Insertion ==
  ASSUME NEW t, NEW c, Reads(gb, t, c), NEW s,
         Reads(gb', Spliced(t, c, s), c + Len(s)), kill' = kill,
         (\E x \in Chars : s = <<x>>) \/ s = Cut(kill)
  PROVE  LineStep
<1>1. Contents(gb) = t /\ CursorAt = c BY ReadsIs DEF CursorAt, CursorIn
<1>2. Contents(gb') = Spliced(t, c, s) /\ CursorAt' = c + Len(s)
  BY ReadsIs DEF CursorAt, CursorIn
<1>3. Cut(kill') = Cut(kill) OBVIOUS
<1>4. Line!InsertText(s)
  BY <1>1, <1>2, <1>3 DEF Line!InsertText, Line!Before, Line!Beyond, Spliced, Cut
<1>5. Line!LineNext
  <2>1. CASE \E x \in Chars : s = <<x>> BY <1>4, <2>1 DEF Line!LineNext
  <2>2. CASE s = Cut(kill) BY <1>4, <2>2 DEF Line!LineNext, Cut
  <2>3. QED BY <2>1, <2>2
<1>6. QED BY <1>5 DEF LineStep

\* Another line, the cursor at its end.
LEMMA Renewal ==
  ASSUME NEW s \in Lines \cup {<<>>}, Reads(gb', s, Len(s)), kill' = kill
  PROVE  LineStep
<1>1. Contents(gb') = s /\ CursorAt' = Len(s) BY ReadsIs DEF CursorAt, CursorIn
<1>2. Cut(kill') = Cut(kill) OBVIOUS
<1>3. Line!NewLine(s) BY <1>1, <1>2 DEF Line!NewLine, Cut
<1>4. Line!LineNext BY <1>3 DEF Line!LineNext
<1>5. QED BY <1>4 DEF LineStep

\* The character before the cursor goes.
LEMMA Erasure ==
  ASSUME NEW t, NEW c, Reads(gb, t, c), c > 0, kill' = kill,
         Reads(gb', SubSeq(t, 1, c - 1) \o SubSeq(t, c + 1, Len(t)), c - 1)
  PROVE  LineStep
<1>1. Contents(gb) = t /\ CursorAt = c BY ReadsIs DEF CursorAt, CursorIn
<1>2. Contents(gb') = SubSeq(t, 1, c - 1) \o SubSeq(t, c + 1, Len(t)) /\ CursorAt' = c - 1
  BY ReadsIs DEF CursorAt, CursorIn
<1>3. Cut(kill') = Cut(kill) OBVIOUS
<1>4. Line!EraseBefore BY <1>1, <1>2, <1>3 DEF Line!EraseBefore, Line!Beyond, Cut
<1>5. Line!LineNext BY <1>4 DEF Line!LineNext
<1>6. QED BY <1>5 DEF LineStep

\* The text beyond the cursor goes to the kill buffer.
LEMMA Cutting ==
  ASSUME NEW t, NEW c, Reads(gb, t, c), Reads(gb', SubSeq(t, 1, c), c),
         kill' = SubSeq(t, c + 1, Len(t)), kill' \in Seq(Chars)
  PROVE  LineStep
<1>1. Contents(gb) = t /\ CursorAt = c BY ReadsIs DEF CursorAt, CursorIn
<1>2. Contents(gb') = SubSeq(t, 1, c) /\ CursorAt' = c BY ReadsIs DEF CursorAt, CursorIn
<1>3. Cut(kill') = SubSeq(t, c + 1, Len(t)) BY TextIsNoPointer DEF Cut
<1>4. Line!CutBeyond BY <1>1, <1>2, <1>3 DEF Line!CutBeyond, Line!Before, Line!Beyond, Cut
<1>5. Line!LineNext BY <1>4 DEF Line!LineNext
<1>6. QED BY <1>5 DEF LineStep

\* A key of the line editor keeps the invariant and is a step of the line or none.
EditorGood == EditorInv' /\ LineStep

LEMMA TypeCharStep ==
  ASSUME EditorInv, TypeChar
  PROVE  EditorGood
<1>1. PICK t, c : Reads(gb, t, c) BY DEF EditorInv
<1>2. PICK x \in Chars : Key(Inserted(gb, <<x>>)) BY DEF TypeChar
<1>3. PICK s \in Seq(Chars) : s = <<x>>
  <2>1. <<x>> \in Seq(Chars) OBVIOUS
  <2>2. QED BY <2>1
<1>4. Reads(gb', Spliced(t, c, s), c + Len(s)) BY <1>1, <1>2, <1>3, InsertReads DEF Key
<1>5. LineStep BY <1>1, <1>2, <1>3, <1>4, Insertion DEF Key
<1>6. EditorInv' BY <1>2, <1>4 DEF Key, EditorInv
<1>7. QED BY <1>5, <1>6 DEF EditorGood

LEMMA RightArrowStep ==
  ASSUME EditorInv, RightArrow
  PROVE  EditorGood
<1>1. PICK t, c : Reads(gb, t, c) BY DEF EditorInv
<1>2. Reads(gb', t, c + 1) BY <1>1, RightReads DEF RightArrow, Key
<1>3. LineStep BY <1>1, <1>2, Motion DEF RightArrow, Key
<1>4. EditorInv' BY <1>2 DEF RightArrow, Key, EditorInv
<1>5. QED BY <1>3, <1>4 DEF EditorGood

LEMMA LeftArrowStep ==
  ASSUME EditorInv, LeftArrow
  PROVE  EditorGood
<1>1. PICK t, c : Reads(gb, t, c) BY DEF EditorInv
<1>2. PICK i : i = IF c > 0 THEN c - 1 ELSE 0 OBVIOUS
<1>3. Reads(gb', t, i) BY <1>1, <1>2, LeftReads DEF LeftArrow, Key
<1>4. LineStep BY <1>1, <1>2, <1>3, Motion DEF LeftArrow, Key
<1>5. EditorInv' BY <1>3 DEF LeftArrow, Key, EditorInv
<1>6. QED BY <1>4, <1>5 DEF EditorGood

LEMMA BackspaceStep ==
  ASSUME EditorInv, Backspace, ~EdgeKeys
  PROVE  EditorGood
<1>1. PICK t, c : Reads(gb, t, c) BY DEF EditorInv
<1>2. c > 0 BY <1>1, ReadsInOrder DEF Backspace, AtStart, Strayed
<1>3. c \in Nat /\ c <= Len(t) /\ t \in Seq(Chars) BY <1>1, ReadsIs
<1>4. PICK d \in Nat : d = c - 1 BY <1>2, <1>3
<1>5. Reads(StepLeft(gb), t, d) BY <1>1, <1>2, <1>4, LeftReads
<1>6. 1 <= Len(t) - d BY <1>3, <1>4
<1>7. Reads(Deleted(StepLeft(gb), 1), SubSeq(t, 1, d) \o SubSeq(t, d + 1 + 1, Len(t)), d)
  BY <1>5, <1>6, DeleteReads
<1>8. d + 1 + 1 = c + 1 BY <1>3, <1>4
<1>9. Reads(gb', SubSeq(t, 1, c - 1) \o SubSeq(t, c + 1, Len(t)), c - 1)
  BY <1>4, <1>7, <1>8 DEF Backspace, Key
<1>10. LineStep BY <1>1, <1>2, <1>9, Erasure DEF Backspace, Key
<1>11. EditorInv' BY <1>9 DEF Backspace, Key, EditorInv
<1>12. QED BY <1>10, <1>11 DEF EditorGood

LEMMA CtrlAStep ==
  ASSUME EditorInv, CtrlA
  PROVE  EditorGood
<1>1. PICK t, c : Reads(gb, t, c) BY DEF EditorInv
<1>2. Reads(gb', t, 0) BY <1>1, EndsRead DEF CtrlA, Key
<1>3. LineStep BY <1>1, <1>2, Motion DEF CtrlA, Key
<1>4. EditorInv' BY <1>2 DEF CtrlA, Key, EditorInv
<1>5. QED BY <1>3, <1>4 DEF EditorGood

LEMMA CtrlEStep ==
  ASSUME EditorInv, CtrlE
  PROVE  EditorGood
<1>1. PICK t, c : Reads(gb, t, c) BY DEF EditorInv
<1>2. Reads(gb', t, Len(t)) BY <1>1, EndsRead DEF CtrlE, Key
<1>3. LineStep BY <1>1, <1>2, Motion DEF CtrlE, Key
<1>4. EditorInv' BY <1>2 DEF CtrlE, Key, EditorInv
<1>5. QED BY <1>3, <1>4 DEF EditorGood

\* Beyond the gap that is at the cursor lies the rest of the text.
LEMMA RestRead ==
  ASSUME NEW g, NEW t, NEW c, Reads(g, t, c)
  PROVE  /\ RightOfGap(GapAtPoint(g)) = SubSeq(t, c + 1, Len(t))
         /\ AtEof(GapAtPoint(g)) <=> c = Len(t)
<1>1. PICK a, e, b, p : Buf(g, t, a, e, b, p) /\ c = Ahead(a, e, p) BY DEF Reads
<1>2. PICK h, s : h = GapAtPoint(g) /\ Buf(h, t, c, s, b, c) BY <1>1, GapMoved
<1>3. PICK mem : /\ h = [mem |-> mem, gap |-> c, egap |-> s, ebuf |-> b, point |-> c]
                 /\ Filled(mem, t, c, s, b)
  BY <1>2 DEF Buf
<1>4. Placed(c, s, b, c) /\ t \in Seq(Chars) BY <1>2 DEF Buf
<1>5. Len(t) = c + (b - s) BY <1>3 DEF Filled
<1>6. AtEof(h) <=> c = Len(t) BY <1>3, <1>4, <1>5 DEF AtEof, Placed
<1>7. PICK n \in Nat, k \in Nat : n = b - s /\ k = Len(t) /\ k = c + n
  <2>1. b - s \in Nat BY <1>4 DEF Placed
  <2>2. QED BY <1>4, <1>5, <2>1
<1>8. RightOfGap(h) = [i \in 1 .. n |-> mem[s + i - 1]] BY <1>3, <1>7 DEF RightOfGap
<1>9. PICK r \in Seq(Chars) : /\ r = SubSeq(t, c + 1, k) /\ Len(r) = n
                              /\ \A i \in 1 .. n : r[i] = t[i + c]
  <2>1. c \in Nat /\ c <= k BY <1>4, <1>7 DEF Placed
  <2>2. SubSeq(t, c + 1, k) \in Seq(Chars)
    <3>1. k = Len(t) BY <1>7
    <3>2. QED BY <1>4, <2>1, <3>1
  <2>3. Len(SubSeq(t, c + 1, k)) = n BY <1>4, <1>7, <2>1
  <2>4. \A i \in 1 .. n : SubSeq(t, c + 1, k)[i] = t[i + c] BY <1>4, <1>7, <2>1
  <2>5. QED BY <2>2, <2>3, <2>4
<1>10. ASSUME NEW i \in 1 .. n PROVE mem[s + i - 1] = r[i]
  <2>1. PICK j \in c + 1 .. Len(t) : j = i + c
    <3>1. i + c \in c + 1 .. Len(t) BY <1>4, <1>7 DEF Placed
    <3>2. QED BY <3>1
  <2>2. mem[j - 1 + (s - c)] = t[j] BY <1>3 DEF Filled
  <2>3. j - 1 + (s - c) = s + i - 1 BY <1>4, <2>1 DEF Placed
  <2>4. QED BY <1>9, <2>1, <2>2, <2>3
<1>11. r = [i \in 1 .. n |-> r[i]] BY SMTT(30), <1>9
<1>12. RightOfGap(h) = r BY <1>8, <1>10, <1>11
<1>13. QED BY <1>2, <1>6, <1>7, <1>9, <1>12

LEMMA CtrlKStep ==
  ASSUME EditorInv, CtrlK, ~EdgeKeys
  PROVE  EditorGood
<1>1. PICK t, c : Reads(gb, t, c) BY DEF EditorInv
<1>2. PICK k \in Nat : k = Len(t) /\ c \in Nat /\ c <= k /\ t \in Seq(Chars) BY <1>1, ReadsIs
<1>3. PICK at : at = GapAtPoint(gb) OBVIOUS
<1>4. Reads(at, t, c) BY <1>1, <1>3, GapReads
<1>5. RightOfGap(at) = SubSeq(t, c + 1, k) /\ (AtEof(at) <=> c = k) BY <1>1, <1>2, <1>3, RestRead
<1>6. GapAtPoint(at) = at
  <2>1. at.point = at.gap /\ at.gap \in Nat /\ at.egap \in Nat /\ at.gap <= at.egap
    <3>1. PICK a, e, b, p : Buf(gb, t, a, e, b, p) BY <1>1 DEF Reads
    <3>2. PICK d, s : Buf(at, t, d, s, b, d) BY <1>3, <3>1, GapMoved
    <3>3. QED BY <3>2 DEF Buf, Placed
  <2>2. QED BY <2>1 DEF GapAtPoint
<1>7. byWord' = byWord BY DEF CtrlK
<1>8. CASE AtEof(at)
  <2>1. gb' = Deleted(at, 0) BY <1>3, <1>8 DEF CtrlK
  <2>2. kill = Null /\ kill' = Null BY <1>3, <1>8 DEF CtrlK
  <2>3. Deleted(at, 0) = at
    <3>1. PICK a, e, b, p : Buf(at, t, a, e, b, p) BY <1>4 DEF Reads
    <3>2. PICK mem : at = [mem |-> mem, gap |-> a, egap |-> e, ebuf |-> b, point |-> p] BY <3>1 DEF Buf
    <3>3. e + 0 = e BY <3>1 DEF Buf, Placed
    <3>4. QED BY <1>6, <3>2, <3>3 DEF Deleted
  <2>4. Reads(gb', t, c) BY <1>4, <2>1, <2>3
  <2>5. LineStep BY <1>1, <2>2, <2>4, Motion
  <2>6. EditorInv' BY <1>7, <2>2, <2>4 DEF EditorInv
  <2>7. QED BY <2>5, <2>6 DEF EditorGood
<1>9. CASE ~AtEof(at)
  <2>1. kill' = RightOfGap(at) /\ gb' = Deleted(at, Len(RightOfGap(at))) BY <1>3, <1>9 DEF CtrlK
  <2>2. kill' = SubSeq(t, c + 1, k) /\ kill' \in Seq(Chars) /\ Len(kill') = k - c
    BY <1>2, <1>5, <2>1
  <2>3. PICK n \in Nat : n = k - c
    <3>1. k - c \in Nat BY <1>2
    <3>2. QED BY <3>1
  <2>4. Reads(Deleted(at, n), SubSeq(t, 1, c) \o SubSeq(t, c + n + 1, Len(t)), c)
    <3>1. n <= Len(t) - c BY <1>2, <2>3
    <3>2. QED BY <1>4, <3>1, DeleteReads
  <2>5. SubSeq(t, 1, c) \o SubSeq(t, c + n + 1, Len(t)) = SubSeq(t, 1, c)
    <3>1. c + n + 1 = k + 1 BY <1>2, <2>3
    <3>2. SubSeq(t, k + 1, k) = <<>> BY <1>2
    <3>3. SubSeq(t, 1, c) \in Seq(Chars) BY <1>2
    <3>4. SubSeq(t, 1, c) \o <<>> = SubSeq(t, 1, c) BY <3>3
    <3>5. QED BY <1>2, <3>1, <3>2, <3>4
  <2>6. Reads(gb', SubSeq(t, 1, c), c) BY <2>1, <2>2, <2>3, <2>4, <2>5
  <2>7. LineStep BY <1>1, <1>2, <2>2, <2>6, Cutting
  <2>8. EditorInv' BY <1>7, <2>2, <2>6 DEF EditorInv
  <2>9. QED BY <2>7, <2>8 DEF EditorGood
<1>10. QED BY <1>8, <1>9

LEMMA CtrlYStep ==
  ASSUME EditorInv, CtrlY
  PROVE  EditorGood
<1>1. PICK t, c : Reads(gb, t, c) BY DEF EditorInv
<1>2. kill \in Seq(Chars) BY DEF EditorInv, CtrlY
<1>3. kill # Freed /\ Cut(kill) = kill BY <1>2, TextIsNoPointer DEF Cut
<1>4. Key(GapAtPoint(Inserted(gb, kill))) BY <1>3 DEF CtrlY
<1>5. Reads(Inserted(gb, kill), Spliced(t, c, kill), c + Len(kill)) BY <1>1, <1>2, InsertReads
<1>6. Reads(gb', Spliced(t, c, kill), c + Len(kill)) BY <1>4, <1>5, GapReads DEF Key
<1>7. LineStep BY <1>1, <1>3, <1>4, <1>6, Insertion DEF Key
<1>8. EditorInv' BY <1>4, <1>6 DEF Key, EditorInv
<1>9. QED BY <1>7, <1>8 DEF EditorGood

LEMMA RecallStep ==
  ASSUME EditorInv, Recall
  PROVE  EditorGood
<1>1. PICK s \in Lines : Key(PointAt(Inserted(Cleared(gb.ebuf), s), Len(s))) BY DEF Recall
<1>2. s \in Seq(Chars) BY LineAssumption
<1>3. gb.ebuf \in Nat BY ReadsInOrder DEF EditorInv
<1>4. PICK g : g = Inserted(Cleared(gb.ebuf), s) OBVIOUS
<1>5. Reads(Cleared(gb.ebuf), <<>>, 0) BY <1>3, ClearedReads
<1>6. /\ g.gap = 0 + Len(s)
      /\ Reads([g EXCEPT !.point = 0 + Len(s)], Spliced(<<>>, 0, s), 0 + Len(s))
  <2>1. /\ Inserted(Cleared(gb.ebuf), s).gap = 0 + Len(s)
        /\ Reads([Inserted(Cleared(gb.ebuf), s) EXCEPT !.point = 0 + Len(s)], Spliced(<<>>, 0, s), 0 + Len(s))
    BY <1>2, <1>5, InsertReads
  <2>2. QED BY <1>4, <2>1
<1>7. 0 + Len(s) = Len(s) /\ Len(s) # -1 BY <1>2
<1>8. PointAt(g, Len(s)) = [g EXCEPT !.point = Len(s)] BY <1>2, <1>6, <1>7 DEF PointAt
<1>9. Spliced(<<>>, 0, s) = s
  <2>1. SubSeq(<<>>, 1, 0) = <<>> /\ Len(<<>>) = 0 /\ SubSeq(<<>>, 0 + 1, 0) = <<>> OBVIOUS
  <2>2. <<>> \o s \o <<>> = s BY <1>2
  <2>3. QED BY <2>1, <2>2 DEF Spliced
<1>10. Reads(gb', s, Len(s)) BY <1>1, <1>4, <1>6, <1>7, <1>8, <1>9 DEF Key
<1>11. LineStep BY <1>1, <1>10, Renewal DEF Key
<1>12. EditorInv' BY <1>1, <1>10 DEF Key, EditorInv
<1>13. QED BY <1>11, <1>12 DEF EditorGood

LEMMA ReturnStep ==
  ASSUME EditorInv, Return
  PROVE  EditorGood
<1>1. gb.ebuf \in Nat BY ReadsInOrder DEF EditorInv
<1>2. Reads(gb', <<>>, 0) BY <1>1, ClearedReads DEF Return, Key
<1>3. Len(<<>>) = 0 OBVIOUS
<1>4. LineStep BY <1>2, <1>3, Renewal DEF Return, Key
<1>5. EditorInv' BY <1>2 DEF Return, Key, EditorInv
<1>6. QED BY <1>4, <1>5 DEF EditorGood

LEMMA RedisplayStep ==
  ASSUME EditorInv, Redisplay
  PROVE  EditorGood
<1>1. PICK t, c : Reads(gb, t, c) BY DEF EditorInv
<1>2. Reads(gb', t, c) BY <1>1, GapReads DEF Redisplay, Key
<1>3. LineStep BY <1>1, <1>2, Motion DEF Redisplay, Key
<1>4. EditorInv' BY <1>2 DEF Redisplay, Key, EditorInv
<1>5. QED BY <1>3, <1>4 DEF EditorGood

LEMMA StartWordStep ==
  ASSUME EditorInv, StartWord
  PROVE  EditorGood
<1>1. PICK t, c : Reads(gb, t, c) BY DEF EditorInv
<1>2. Reads(gb', t, c) BY <1>1 DEF StartWord
<1>3. LineStep BY <1>1, <1>2, Motion DEF StartWord
<1>4. EditorInv' BY <1>2 DEF StartWord, EditorInv
<1>5. QED BY <1>3, <1>4 DEF EditorGood

LEMMA WordLeftStep ==
  ASSUME EditorInv, WordLeft
  PROVE  EditorGood
<1>1. PICK t, c : Reads(gb, t, c) BY DEF EditorInv
<1>2. PICK g : g = IF AtStart(gb) THEN gb ELSE StepLeft(gb) OBVIOUS
<1>3. PICK i : i = IF AtStart(gb) THEN c ELSE IF c > 0 THEN c - 1 ELSE 0 OBVIOUS
<1>4. Reads(g, t, i) BY <1>1, <1>2, <1>3, LeftReads
<1>5. gb' = OnLeft(g) /\ kill' = kill BY <1>2 DEF WordLeft
<1>6. Reads(gb', t, i) BY <1>4, <1>5, SidesRead
<1>7. LineStep BY <1>1, <1>3, <1>5, <1>6, Motion
<1>8. byWord' \in {"none", "left", "right"} BY DEF WordLeft
<1>9. EditorInv' BY <1>5, <1>6, <1>8 DEF EditorInv
<1>10. QED BY <1>7, <1>9 DEF EditorGood

LEMMA WordRightStep ==
  ASSUME EditorInv, WordRight
  PROVE  EditorGood
<1>1. PICK t, c : Reads(gb, t, c) BY DEF EditorInv
<1>2. PICK g : g = IF AtEof(gb) THEN gb ELSE StepRight(gb) OBVIOUS
<1>3. PICK i : i = IF AtEof(gb) THEN c ELSE c + 1 OBVIOUS
<1>4. Reads(g, t, i) BY <1>1, <1>2, <1>3, RightReads
<1>5. gb' = OnRight(g) /\ kill' = kill BY <1>2 DEF WordRight
<1>6. Reads(gb', t, i) BY <1>4, <1>5, SidesRead
<1>7. LineStep BY <1>1, <1>3, <1>5, <1>6, Motion
<1>8. byWord' \in {"none", "left", "right"} BY DEF WordRight
<1>9. EditorInv' BY <1>5, <1>6, <1>8 DEF EditorInv
<1>10. QED BY <1>7, <1>9 DEF EditorGood

LEMMA EditorInitially ==
  ASSUME EditorInit
  PROVE  EditorInv /\ Line!LineInit
<1>1. Reads(gb, <<>>, 0) BY GapAssumption, ClearedReads DEF EditorInit
<1>2. Contents(gb) = <<>> /\ CursorAt = 0 BY <1>1, ReadsIs DEF CursorAt, CursorIn
<1>3. Line!LineInit BY <1>2 DEF EditorInit, Line!LineInit
<1>4. EditorInv BY <1>1 DEF EditorInit, EditorInv
<1>5. QED BY <1>3, <1>4

LEMMA EditorSteps ==
  ASSUME ~EdgeKeys, EditorInv, [EditorNext]_editorVars
  PROVE  EditorGood
<1>1. CASE UNCHANGED editorVars
  <2>1. EditorInv' BY <1>1 DEF EditorInv, editorVars
  <2>2. PICK t, c : Reads(gb, t, c) BY DEF EditorInv
  <2>3. LineStep BY <1>1, <2>2, Motion DEF editorVars
  <2>4. QED BY <2>1, <2>3 DEF EditorGood
<1>2. CASE TypeChar BY <1>2, TypeCharStep
<1>3. CASE RightArrow BY <1>3, RightArrowStep
<1>4. CASE LeftArrow BY <1>4, LeftArrowStep
<1>5. CASE Backspace BY <1>5, BackspaceStep
<1>6. CASE CtrlA BY <1>6, CtrlAStep
<1>7. CASE CtrlE BY <1>7, CtrlEStep
<1>8. CASE CtrlK BY <1>8, CtrlKStep
<1>9. CASE CtrlY BY <1>9, CtrlYStep
<1>10. CASE Recall BY <1>10, RecallStep
<1>11. CASE Return BY <1>11, ReturnStep
<1>12. CASE Redisplay BY <1>12, RedisplayStep
<1>13. CASE StartWord BY <1>13, StartWordStep
<1>14. CASE WordLeft BY <1>14, WordLeftStep
<1>15. CASE WordRight BY <1>15, WordRightStep
<1>16. QED
  BY <1>1, <1>2, <1>3, <1>4, <1>5, <1>6, <1>7, <1>8, <1>9, <1>10, <1>11, <1>12, <1>13, <1>14, <1>15
  DEF EditorNext

\* The types of the editor's state.
THEOREM EditorTypeCorrect ==
  ASSUME ~EdgeKeys PROVE EditorSpec => []EditorTypeOK
<1>1. EditorInit => EditorInv BY EditorInitially
<1>2. EditorInv /\ [EditorNext]_editorVars => EditorInv' BY EditorSteps DEF EditorGood
<1>3. ASSUME EditorInv PROVE EditorTypeOK
  <2>1. PICK t, a, e, b, p : Buf(gb, t, a, e, b, p) BY <1>3 DEF EditorInv, Reads
  <2>2. PICK mem : /\ gb = [mem |-> mem, gap |-> a, egap |-> e, ebuf |-> b, point |-> p]
                   /\ Filled(mem, t, a, e, b)
    BY <2>1 DEF Buf
  <2>3. {gb.gap, gb.egap, gb.ebuf, gb.point} \subseteq Nat BY <2>1, <2>2 DEF Buf, Placed
  <2>4. DOMAIN gb.mem = 0 .. gb.ebuf - 1 BY <2>2 DEF Filled
  <2>5. \A i \in DOMAIN gb.mem : gb.mem[i] \in Chars \cup {Blank} BY <2>2 DEF Filled, Bytes
  <2>6. QED BY <1>3, <2>3, <2>4, <2>5 DEF EditorInv, EditorTypeOK
<1>4. QED BY <1>1, <1>2, <1>3, PTL DEF EditorSpec

\* Unless a key is pressed that has nothing to act on, gb_insert, gb_del, the motions
\* and the kill buffer leave the gap within the buffer and the point in the text.
THEOREM GapStaysInBuffer ==
  ASSUME ~EdgeKeys PROVE EditorSpec => []GapInBuffer
<1>1. EditorInit => EditorInv BY EditorInitially
<1>2. EditorInv /\ [EditorNext]_editorVars => EditorInv' BY EditorSteps DEF EditorGood
<1>3. EditorInv => GapInBuffer BY ReadsInOrder DEF EditorInv, GapInBuffer
<1>4. QED BY <1>1, <1>2, <1>3, PTL DEF EditorSpec

\* Every key of cli_vt100.c on the gap buffer is one operation on a text with a cursor,
\* or nothing: gap, room and the side the point rests on never show.
THEOREM EditorIsALine ==
  ASSUME ~EdgeKeys PROVE EditorSpec => LineRefined
<1>1. EditorInit => EditorInv /\ Line!LineInit BY EditorInitially
<1>2. EditorInv /\ [EditorNext]_editorVars => EditorInv' /\ [Line!LineNext]_(Line!lineVars)
  BY EditorSteps DEF EditorGood, LineStep
<1>3. QED BY <1>1, <1>2, PTL DEF EditorSpec, LineRefined, Line!LineSpec
=============================================================================
