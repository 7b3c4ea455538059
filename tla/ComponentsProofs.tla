-------------------------- MODULE ComponentsProofs --------------------------
(***************************************************************************)
(* Theorems about the special packets (SpecialPackets) and the values of a *)
(* range (RangeField), for every number of queues, slot and width, and the *)
(* types of all the components MCComponents runs side by side.             *)
(***************************************************************************)
EXTENDS MCComponents, ReceiveProofs, ConsoleProofs

(* ARP, ping and latency requests.                                         *)

(* A queue has passed a slot for a kind once it has tested the kind's flag   *)
(* there (and, for a ping, sent it).                                         *)
After(k) == IF k = "garp" THEN {"arp", "ping", "build", "clear"}
            ELSE IF k = "arp" THEN {"ping", "build", "clear"} ELSE {"clear"}

Passed(q, k, s) ==
  stage[q] # "out" /\ (s < slot[q] \/ (s = slot[q] /\ stage[q] \in After(k)))

OwedRequested == \A k \in Kinds \ excused : owed[k] # {} => k \in requested
PassedServed  == \A k \in Kinds \ excused : \A s \in owed[k] : \A q \in SpecialQueues :
                   ~Passed(q, k, s)
ClearLast     == \A q \in SpecialQueues : stage[q] = "clear" => slot[q] = SeqCnt
TemplateOwn   == "ping" \notin excused =>
                   \A q \in SpecialQueues : stage[q] = "build" => template = slot[q]

SpecialIInv == SpecialTypeOK /\ OwedRequested /\ PassedServed /\ ClearLast /\ TemplateOwn

USE DEF requestVars, serveVars, oweVars, GoOn

-----------------------------------------------------------------------------
(* Type correctness.                                                         *)

LEMMA NextSlotType ==
  ASSUME SpecialTypeOK, NEW q \in SpecialQueues, NextSlot(q)
  PROVE  /\ stage' \in [SpecialQueues -> {"out", "garp", "arp", "ping", "build", "clear"}]
         /\ slot' \in [SpecialQueues -> Slots]
BY SpecialAssumption DEF SpecialAssumption, SpecialTypeOK, NextSlot, LastSlot, Slots

LEMMA TypeUser ==
  ASSUME SpecialTypeOK, SpecialUser
  PROVE  SpecialTypeOK'
<1> USE SpecialAssumption DEF SpecialAssumption, SpecialTypeOK, Slots, Kinds
<1>1. ASSUME NEW k \in Kinds, RequestArp(k) PROVE SpecialTypeOK' BY <1>1 DEF RequestArp, Raise
<1>2. CASE PreparePing BY <1>2 DEF PreparePing
<1>3. CASE RequestPing
  <2>1. pinging' \in BOOLEAN BY <1>3, Zenon DEF RequestPing
  <2>2. Raise("ping") /\ UNCHANGED serveVars BY <1>3, Zenon DEF RequestPing
  <2>3. QED BY <2>1, <2>2 DEF Raise
<1>4. QED BY <1>1, <1>2, <1>3 DEF SpecialUser

LEMMA TypeQueue ==
  ASSUME SpecialTypeOK, NEW q \in SpecialQueues, SpecialQueue(q)
  PROVE  SpecialTypeOK'
<1> USE SpecialAssumption DEF SpecialAssumption, SpecialTypeOK, Kinds
<1>1. CASE Enter(q) BY <1>1 DEF Enter, Slots
<1>2. CASE TestGarp(q)
  <2>1. owed' \in [Kinds -> SUBSET Slots] /\ excused' \subseteq Kinds
    <3>1. CASE "garp" \in requested
      <4>1. Send("garp", slot[q], requested \intersect {"arp"}) BY <1>2, <3>1 DEF TestGarp
      <4>2. QED BY ZenonT(40), <4>1 DEF Send
    <3>2. CASE "garp" \notin requested BY <1>2, <3>2 DEF TestGarp
    <3>3. QED BY <3>1, <3>2
  <2>2. stage' \in [SpecialQueues -> {"out", "garp", "arp", "ping", "build", "clear"}]
    BY <1>2 DEF TestGarp
  <2>3. QED BY <1>2, <2>1, <2>2 DEF TestGarp
<1>3. CASE TestArp(q) BY ZenonT(40), <1>3 DEF TestArp, Send
<1>4. CASE TestPing(q) BY <1>4, NextSlotType DEF TestPing
<1>5. CASE SendPing(q) BY <1>5, NextSlotType DEF SendPing
<1>6. CASE ClearRequests(q) BY <1>6 DEF ClearRequests
<1>7. QED BY <1>1, <1>2, <1>3, <1>4, <1>5, <1>6 DEF SpecialQueue

-----------------------------------------------------------------------------
(* The invariant.                                                            *)

LEMMA SpecialUserKeeps ==
  ASSUME SpecialIInv, SpecialUser
  PROVE  SpecialIInv'
<1> USE SpecialAssumption DEF SpecialAssumption, Slots, Kinds
<1>1. SpecialTypeOK' BY TypeUser DEF SpecialIInv
<1>2. ASSUME NEW k \in Kinds, RequestArp(k) PROVE SpecialIInv'
  <2> USE <1>2 DEF SpecialIInv, SpecialTypeOK, RequestArp, Raise
  <2>1. OwedRequested' BY DEF OwedRequested
  <2>2. PassedServed' BY DEF PassedServed, Passed, Serving
  <2>3. ClearLast' /\ TemplateOwn' BY DEF ClearLast, TemplateOwn
  <2>4. QED BY <1>1, <2>1, <2>2, <2>3
<1>3. CASE PreparePing
  <2> USE <1>3 DEF SpecialIInv, SpecialTypeOK, PreparePing
  <2>1. OwedRequested' BY DEF OwedRequested
  <2>2. PassedServed' BY DEF PassedServed, Passed
  <2>3. ClearLast' /\ TemplateOwn' BY DEF ClearLast, TemplateOwn, Building
  <2>4. QED BY <1>1, <2>1, <2>2, <2>3
<1>4. CASE RequestPing
  <2> USE <1>4 DEF SpecialIInv, SpecialTypeOK, RequestPing, Raise
  <2>1. OwedRequested' BY DEF OwedRequested
  <2>2. PassedServed' BY DEF PassedServed, Passed, Serving
  <2>3. ClearLast' /\ TemplateOwn' BY DEF ClearLast, TemplateOwn, Serving
  <2>4. QED BY <1>1, <2>1, <2>2, <2>3
<1>5. QED BY <1>2, <1>3, <1>4 DEF SpecialUser

LEMMA SpecialQueueKeeps ==
  ASSUME SpecialIInv, NEW q \in SpecialQueues, SpecialQueue(q)
  PROVE  SpecialIInv'
<1> USE SpecialAssumption DEF SpecialAssumption, Slots, Kinds, SpecialIInv, SpecialTypeOK
<1>1. SpecialTypeOK' BY TypeQueue DEF SpecialIInv
<1>2. CASE Enter(q)
  <2> USE <1>2 DEF Enter
  <2>1. OwedRequested' BY DEF OwedRequested
  <2>2. PassedServed' BY DEF PassedServed, Passed, After
  <2>3. ClearLast' /\ TemplateOwn' BY DEF ClearLast, TemplateOwn
  <2>4. QED BY <1>1, <2>1, <2>2, <2>3
<1>3. CASE TestGarp(q)
  <2> USE <1>3 DEF TestGarp, Send
  <2>1. OwedRequested' BY DEF OwedRequested
  <2>2. PassedServed' BY DEF OwedRequested, PassedServed, Passed, After
  <2>3. ClearLast' /\ TemplateOwn' BY DEF ClearLast, TemplateOwn
  <2>4. QED BY <1>1, <2>1, <2>2, <2>3
<1>4. CASE TestArp(q)
  <2> USE <1>4 DEF TestArp, Send
  <2>1. OwedRequested' BY DEF OwedRequested
  <2>2. PassedServed' BY DEF OwedRequested, PassedServed, Passed, After
  <2>3. ClearLast' /\ TemplateOwn' BY DEF ClearLast, TemplateOwn
  <2>4. QED BY <1>1, <2>1, <2>2, <2>3
<1>5. CASE TestPing(q)
  <2> USE <1>5 DEF TestPing, NextSlot, LastSlot
  <2>1. OwedRequested' BY DEF OwedRequested
  <2>2. PassedServed' BY DEF OwedRequested, PassedServed, Passed, After
  <2>3. ClearLast' /\ TemplateOwn' BY DEF ClearLast, TemplateOwn, Building
  <2>4. QED BY <1>1, <2>1, <2>2, <2>3
<1>6. CASE SendPing(q)
  <2> USE <1>6 DEF SendPing, NextSlot, LastSlot
  <2>1. OwedRequested' BY DEF OwedRequested
  <2>2. PassedServed' BY DEF PassedServed, Passed, After, TemplateOwn
  <2>3. ClearLast' /\ TemplateOwn' BY DEF ClearLast, TemplateOwn
  <2>4. QED BY <1>1, <2>1, <2>2, <2>3
<1>7. CASE ClearRequests(q)
  <2> USE <1>7 DEF ClearRequests
  <2>1. OwedRequested' BY DEF OwedRequested, PassedServed, Passed, After, ClearLast
  <2>2. PassedServed' BY DEF PassedServed, Passed
  <2>3. ClearLast' /\ TemplateOwn' BY DEF ClearLast, TemplateOwn
  <2>4. QED BY <1>1, <2>1, <2>2, <2>3
<1>8. QED BY <1>2, <1>3, <1>4, <1>5, <1>6, <1>7 DEF SpecialQueue

LEMMA SpecialInvariant == SpecialSpec => []SpecialIInv
<1>1. SpecialInit => SpecialIInv
  <2> SUFFICES ASSUME SpecialInit PROVE SpecialIInv OBVIOUS
  <2>1. pinging \in BOOLEAN BY Zenon DEF SpecialInit
  <2>2. SpecialTypeOK
    BY <2>1, SpecialAssumption DEF SpecialAssumption, SpecialInit, SpecialTypeOK, Slots, Kinds
  <2>3. OwedRequested /\ PassedServed /\ ClearLast /\ TemplateOwn
    BY DEF SpecialInit, OwedRequested, PassedServed, ClearLast, TemplateOwn, Kinds
  <2>4. QED BY <2>2, <2>3 DEF SpecialIInv
<1>2. SpecialIInv /\ [SpecialNext]_specialVars => SpecialIInv'
  <2> SUFFICES ASSUME SpecialIInv, [SpecialNext]_specialVars PROVE SpecialIInv' OBVIOUS
  <2>1. CASE UNCHANGED specialVars
    BY <2>1 DEF specialVars, SpecialIInv, SpecialTypeOK, OwedRequested, PassedServed, Passed,
       ClearLast, TemplateOwn
  <2>2. QED BY <2>1, SpecialUserKeeps, SpecialQueueKeeps DEF SpecialNext
<1>3. QED BY <1>1, <1>2, PTL DEF SpecialSpec

-----------------------------------------------------------------------------
\* The flags, the queues' places and the template keep their types: the type
\* invariant of the special packets, for any port.
THEOREM SpecialTypeCorrect == SpecialSpec => []SpecialTypeOK
<1>1. SpecialIInv => SpecialTypeOK BY DEF SpecialIInv
<1>2. QED BY <1>1, SpecialInvariant, PTL

\* However many queues test and clear the flags, a request goes away only when
\* every slot has been served, or in one of the ways the module names.
THEOREM RequestsServed == SpecialSpec => []NoRequestLost
<1>1. SpecialIInv => NoRequestLost BY DEF SpecialIInv, OwedRequested, NoRequestLost
<1>2. QED BY <1>1, SpecialInvariant, PTL

-----------------------------------------------------------------------------
(* One field of range mode, for every width, increment and setting.        *)

(* What a lap has been through. *)
Laps == lap # {} /\ range.min <= range.max /\ range.inc # 0

SoFar == {v \in range.min .. value : (v - range.min) % range.inc = 0}

OnLattice ==
  Laps => lap = SoFar /\ value \in range.min .. range.max /\ (value - range.min) % range.inc = 0

RangeIInv == RangeTypeOK /\ OnLattice

\* Between two values of the lattice there is none.
LEMMA NextOnLattice ==
  ASSUME NEW a \in Nat, NEW d \in Nat, NEW c \in Nat \ {0}, a % c = 0
  PROVE  /\ d < c => (a + d) % c = d
         /\ (a + c) % c = 0
<1>1. (0 + d) % c = (a + d) % c BY ModSum
<1>2. (0 + c) % c = (a + c) % c BY ModSum
<1>3. d < c => d % c = d OBVIOUS
<1>4. c % c = 0 OBVIOUS
<1>5. QED BY <1>1, <1>2, <1>3, <1>4

\* The stored numbers are naturals, and stepping by the increment does not leave
\* the arithmetic of the field.
LEMMA RangeFacts ==
  ASSUME RangeTypeOK
  PROVE  /\ range.start \in Nat /\ range.min \in Nat /\ range.max \in Nat /\ range.inc \in Nat
         /\ value \in Nat /\ value < FieldSize /\ range.inc <= MaxInc
         /\ range.start \in FieldValues /\ range.min \in FieldValues /\ range.max \in FieldValues
         /\ value + range.inc \in Nat /\ SteppedTo(value) = value + range.inc
<1>1. FieldSize \in Nat \ {0} /\ MaxInc \in Nat /\ Room \in Nat /\ Room >= FieldSize + MaxInc
  BY RangeAssumption DEF RangeAssumption
<1>2. /\ range.start \in FieldValues /\ range.min \in FieldValues /\ range.max \in FieldValues
      /\ range.inc \in 0 .. MaxInc /\ value \in FieldValues
  BY DEF RangeTypeOK
<1>3. value + range.inc \in 0 .. Room - 1 /\ Room \in Nat \ {0} BY <1>1, <1>2 DEF FieldValues
<1>4. \A s \in 0 .. Room - 1 : s % Room = s BY <1>3
<1>5. SteppedTo(value) = value + range.inc BY <1>3, <1>4 DEF SteppedTo
<1>6. QED BY <1>1, <1>2, <1>3, <1>5 DEF FieldValues

\* Every command and every packet built keeps the type.
LEMMA RangeTypeStep ==
  ASSUME RangeTypeOK, RangeNext
  PROVE  RangeTypeOK'
<1>1. CASE SetRange
  <2>1. PICK part \in {"start", "min", "max", "inc"}, n \in FieldValues :
          /\ part = "inc" => n <= MaxInc
          /\ range' = [range EXCEPT ![part] = n]
    BY <1>1 DEF SetRange
  <2>2. n \in Nat /\ MaxInc \in Nat BY RangeAssumption DEF RangeAssumption, FieldValues
  <2>3. range' \in [start : FieldValues, min : FieldValues, max : FieldValues, inc : 0 .. MaxInc]
    BY <2>1, <2>2 DEF RangeTypeOK
  <2>4. QED BY <1>1, <2>3 DEF SetRange, RangeTypeOK
<1>2. CASE BuildNext
  <2>1. value' \in FieldValues
    <3>1. /\ range.start \in FieldValues /\ range.min \in FieldValues /\ range.max \in FieldValues
          /\ SteppedTo(value) = value + range.inc /\ value + range.inc \in Nat /\ range.max \in Nat
      BY RangeFacts
    <3>2. value + range.inc <= range.max => value + range.inc \in FieldValues
      BY <3>1, RangeAssumption DEF RangeAssumption, FieldValues
    <3>3. value' = Successor BY <1>2 DEF BuildNext
    <3>4. \/ Successor \in {range.start, range.max, range.min}
          \/ (Successor = value + range.inc /\ value + range.inc <= range.max)
      BY <3>1, RangeFacts DEF Successor
    <3>5. QED BY <3>1, <3>2, <3>3, <3>4
  <2>2. lap' \subseteq FieldValues /\ lapLength' \in Nat
    BY <1>2, <2>1 DEF BuildNext, RangeTypeOK
  <2>3. QED BY <1>2, <2>1, <2>2 DEF BuildNext, RangeTypeOK
<1>3. QED BY <1>1, <1>2 DEF RangeNext

\* One more packet of a lap.
LEMMA LapStep ==
  ASSUME RangeTypeOK, OnLattice, Laps, BuildNext
  PROVE  \/ /\ value' = range.min /\ lap = Lattice
         \/ /\ value' = value + range.inc /\ value' \in range.min .. range.max /\ value' # range.min
            /\ (value' - range.min) % range.inc = 0 /\ value' \notin lap
            /\ lap \cup {value'} = {v \in range.min .. value' : (v - range.min) % range.inc = 0}
<1>1. /\ range.min \in Nat /\ range.max \in Nat /\ range.inc \in Nat \ {0} /\ value \in Nat
      /\ SteppedTo(value) = value + range.inc
  BY RangeFacts DEF Laps
<1>2. /\ lap = SoFar /\ value \in range.min .. range.max /\ (value - range.min) % range.inc = 0
  BY DEF OnLattice
<1>3. value' = IF value + range.inc > range.max THEN range.min ELSE value + range.inc
  BY <1>1, <1>2 DEF BuildNext, Successor
<1>4. \A d \in Nat : d < range.inc => (value + d - range.min) % range.inc = d
  <2>1. ASSUME NEW d \in Nat, d < range.inc PROVE (value + d - range.min) % range.inc = d
    <3>1. PICK a \in Nat : a = value - range.min BY <1>1, <1>2
    <3>2. a + d = value + d - range.min BY <1>1, <3>1
    <3>3. (a + d) % range.inc = d BY <1>1, <1>2, <2>1, <3>1, NextOnLattice
    <3>4. QED BY <3>2, <3>3
  <2>2. QED BY <2>1
<1>5. (value + range.inc - range.min) % range.inc = 0
  <2>1. PICK a \in Nat : a = value - range.min BY <1>1, <1>2
  <2>2. a + range.inc = value + range.inc - range.min BY <1>1, <2>1
  <2>3. (a + range.inc) % range.inc = 0 BY <1>1, <1>2, <2>1, NextOnLattice
  <2>4. QED BY <2>2, <2>3
<1>6. ASSUME NEW v \in Nat, v > value, v < value + range.inc PROVE (v - range.min) % range.inc # 0
  <2>1. PICK d \in Nat : v = value + d /\ d # 0 /\ d < range.inc BY <1>1, <1>6, v - value \in Nat
  <2>2. v - range.min = value + d - range.min BY <1>1, <2>1
  <2>3. (value + d - range.min) % range.inc = d BY <1>4, <2>1
  <2>4. QED BY <2>1, <2>2, <2>3
<1>7. CASE value + range.inc > range.max
  <2>1. ASSUME NEW v \in range.min .. range.max, (v - range.min) % range.inc = 0
        PROVE  v \in range.min .. value
    <3>1. v \in Nat /\ v < value + range.inc BY <1>1, <1>7
    <3>2. ~(v > value) BY <1>6, <2>1, <3>1
    <3>3. QED BY <1>1, <3>1, <3>2
  <2>2. lap = Lattice BY <1>1, <1>2, <2>1 DEF SoFar, Lattice
  <2>3. QED BY <1>3, <1>7, <2>2
<1>8. CASE ~(value + range.inc > range.max)
  <2>1. /\ value' = value + range.inc /\ value' \in range.min .. range.max /\ value' # range.min
        /\ value' \notin lap
    BY <1>1, <1>2, <1>3, <1>8 DEF SoFar
  <2>2. ASSUME NEW v \in range.min .. value', (v - range.min) % range.inc = 0
        PROVE  v \in range.min .. value \/ v = value'
    <3>1. v \in Nat /\ v <= value + range.inc BY <1>1, <2>1
    <3>2. ~(v > value /\ v < value + range.inc) BY <1>6, <2>2, <3>1
    <3>3. QED BY <1>1, <2>1, <3>1, <3>2
  <2>3. lap \cup {value'} = {v \in range.min .. value' : (v - range.min) % range.inc = 0}
    BY <1>1, <1>2, <1>5, <2>1, <2>2 DEF SoFar
  <2>4. QED BY <1>5, <2>1, <2>3
<1>9. QED BY <1>7, <1>8

\* A lap is always the lattice of the range up to the value it is at.
LEMMA OnLatticeStep ==
  ASSUME RangeTypeOK, OnLattice, RangeNext
  PROVE  OnLattice'
<1>1. CASE SetRange BY <1>1 DEF SetRange, OnLattice, Laps
<1>2. CASE BuildNext
  <2>1. SUFFICES ASSUME Laps' PROVE OnLattice' BY DEF OnLattice
  <2>2. /\ range' = range /\ range.min <= range.max /\ range.inc # 0
        /\ range.min \in Nat /\ range.max \in Nat /\ range.inc \in Nat \ {0}
    BY <1>2, <2>1, RangeFacts DEF BuildNext, Laps
  <2>3. CASE value' = range.min
    <3>1. lap' = {value'} BY <1>2, <2>3 DEF BuildNext
    <3>2. (range.min - range.min) % range.inc = 0 BY <2>2
    <3>3. {v \in range.min .. range.min : (v - range.min) % range.inc = 0} = {range.min}
      BY <2>2, <3>2
    <3>4. SoFar' = {range.min} BY <2>2, <2>3, <3>3 DEF SoFar
    <3>5. QED BY <2>2, <2>3, <3>1, <3>2, <3>4 DEF OnLattice
  <2>4. CASE value' # range.min
    <3>1. lap # {} /\ lap' = lap \cup {value'} BY <1>2, <2>1, <2>4 DEF BuildNext, Laps
    <3>2. Laps BY <2>2, <3>1 DEF Laps
    <3>3. /\ value' \in range.min .. range.max /\ (value' - range.min) % range.inc = 0
          /\ lap' = {v \in range.min .. value' : (v - range.min) % range.inc = 0}
      BY <1>2, <2>4, <3>1, <3>2, LapStep
    <3>4. QED BY <2>2, <3>3 DEF OnLattice, SoFar
  <2>5. QED BY <2>3, <2>4
<1>3. QED BY <1>1, <1>2 DEF RangeNext

\* The inductive invariant of the range field.
LEMMA RangeInvariant == RangeSpec => []RangeIInv
<1>1. RangeInit => RangeIInv
  <2>1. FieldSize \in Nat \ {0} /\ MaxInc \in Nat \ {0} BY RangeAssumption DEF RangeAssumption
  <2>2. ASSUME RangeInit PROVE RangeTypeOK /\ OnLattice
    <3>1. OnLattice BY <2>2 DEF RangeInit, OnLattice, Laps
    <3>2. RangeTypeOK BY <2>1, <2>2 DEF RangeInit, RangeTypeOK, FieldValues
    <3>3. QED BY <3>1, <3>2
  <2>3. QED BY <2>2 DEF RangeIInv
<1>2. RangeIInv /\ [RangeNext]_rangeVars => RangeIInv'
  <2>1. ASSUME RangeIInv, RangeNext PROVE RangeIInv'
    BY <2>1, RangeTypeStep, OnLatticeStep DEF RangeIInv
  <2>2. ASSUME RangeIInv, UNCHANGED rangeVars PROVE RangeIInv'
    BY <2>2 DEF RangeIInv, RangeTypeOK, OnLattice, Laps, SoFar, rangeVars
  <2>3. QED BY <2>1, <2>2
<1>3. QED BY <1>1, <1>2, PTL DEF RangeSpec

\* The numbers of a range field stay numbers of its field's width, whatever is set
\* and however many packets are built (pktgen_range_ctor).
THEOREM RangeTypeCorrect == RangeSpec => []RangeTypeOK
<1>1. RangeIInv => RangeTypeOK BY DEF RangeIInv
<1>2. QED BY <1>1, RangeInvariant, PTL

\* A lap of a range that was not changed meanwhile builds every value of the lattice
\* between min and max, none of them twice, before it starts again at min.
THEOREM RangeCoversTheField == RangeSpec => LapsComplete
<1>1. RangeIInv /\ [RangeNext]_rangeVars =>
        [BuildNext /\ lap # {} /\ range.min <= range.max /\ range.inc # 0 =>
           /\ value' = range.min => lap = Lattice
           /\ value' \in lap => value' = range.min]_rangeVars
  <2>1. ASSUME RangeIInv, BuildNext, lap # {}, range.min <= range.max, range.inc # 0
        PROVE  /\ value' = range.min => lap = Lattice
               /\ value' \in lap => value' = range.min
    BY <2>1, LapStep DEF RangeIInv, Laps
  <2>2. QED BY <2>1
<1>2. QED BY <1>1, RangeInvariant, PTL DEF RangeSpec, LapsComplete

-----------------------------------------------------------------------------
(* The components side by side.                                            *)

\* Each component runs as it would alone: its turn is a step of its own, and it
\* stutters in the turns of the others.
LEMMA RunsApart ==
  MCSpec => /\ SpecialSpec /\ LogSpec /\ StatsSpec /\ DumpSpec /\ CaptureSpec /\ ProbeSpec
            /\ SamplerSpec /\ RxSpec /\ RangeSpec /\ EditorSpec /\ HistorySpec
<1>1. MCInit => /\ SpecialInit /\ LogInit /\ StatsInit /\ DumpInit /\ CaptureInit /\ ProbeInit
                /\ SamplerInit /\ RxInit /\ RangeInit /\ EditorInit /\ HistoryInit
  BY Zenon DEF MCInit
<1>2. [MCNext]_MCVars => [SpecialNext]_specialVars BY Zenon DEF MCNext, MCVars
<1>3. [MCNext]_MCVars => [LogNext]_logVars BY Zenon DEF MCNext, MCVars
<1>4. [MCNext]_MCVars => [StatsNext]_statsVars BY Zenon DEF MCNext, MCVars
<1>5. [MCNext]_MCVars => [DumpNext]_packetDumpVars BY Zenon DEF MCNext, MCVars
<1>6. [MCNext]_MCVars => [CaptureNext]_captureVars BY Zenon DEF MCNext, MCVars
<1>7. [MCNext]_MCVars => [ProbeNext]_probeVars BY Zenon DEF MCNext, MCVars
<1>8. [MCNext]_MCVars => [SamplerNext]_samplerVars BY Zenon DEF MCNext, MCVars
<1>9. [MCNext]_MCVars => [RxNext]_mbufVars BY Zenon DEF MCNext, MCVars
<1>10. [MCNext]_MCVars => [RangeNext]_rangeVars BY Zenon DEF MCNext, MCVars
<1>11. [MCNext]_MCVars => [EditorNext]_editorVars BY Zenon DEF MCNext, MCVars
<1>12. [MCNext]_MCVars => [HistoryNext]_historyVars BY Zenon DEF MCNext, MCVars
<1>13. QED
  BY <1>1, <1>2, <1>3, <1>4, <1>5, <1>6, <1>7, <1>8, <1>9, <1>10, <1>11, <1>12, PTL
  DEF MCSpec, SpecialSpec, LogSpec, StatsSpec, DumpSpec, CaptureSpec, ProbeSpec, SamplerSpec,
      RxSpec, RangeSpec, EditorSpec, HistorySpec

\* The types of all the components at once, for every value of their constants, as
\* long as no key is pressed that has nothing to act on.
THEOREM ComponentsTypeCorrect ==
  ASSUME ~EdgeKeys PROVE MCSpec => []ComponentsTypeOK
<1>1. (/\ SpecialTypeOK /\ LogTypeOK /\ StatsTypeOK /\ DumpTypeOK /\ CaptureTypeOK /\ ProbeTypeOK
       /\ SamplerTypeOK /\ RxTypeOK /\ RangeTypeOK /\ EditorTypeOK /\ HistoryTypeOK)
        => ComponentsTypeOK
  BY Zenon DEF ComponentsTypeOK
<1>2. EditorSpec => []EditorTypeOK BY EditorTypeCorrect
<1>3. QED
  BY <1>1, <1>2, RunsApart, SpecialTypeCorrect, LogTypeCorrect, StatsTypeCorrect, DumpTypeCorrect,
     CaptureTypeCorrect, LatencyTypeCorrect, SamplerTypeCorrect, RxTypeCorrect, RangeTypeCorrect,
     HistoryTypeCorrect, PTL
=============================================================================
