-------------------------- MODULE PcapSourceProofs --------------------------
(***************************************************************************)
(* Theorems about PcapSource: the sizes of the sections, the order in      *)
(* which they are filled and what they hold, for every source, amount of   *)
(* memory, mbuf size and unit.                                             *)
(***************************************************************************)
EXTENDS PcapSource, FiniteSetTheorems, TLAPS

USE DEF Sections

-----------------------------------------------------------------------------
(* Arithmetic of the sizes.                                                *)

LEMMA Quotient ==
  ASSUME NEW a \in Nat, NEW p \in Nat \ {0}
  PROVE  (a \div p) \in Nat /\ (a \div p) * p <= a
  OBVIOUS

LEMMA Floored ==
  ASSUME NEW n \in Nat
  PROVE  FloorMultiple(n) \in Nat /\ FloorMultiple(n) <= n
<1>1. n % Multiple \in Nat /\ n % Multiple <= n
  BY SizeAssumption DEF SizeAssumption
<1>2. QED BY <1>1 DEF FloorMultiple

LEMMA Scaled ==
  ASSUME NEW x \in Nat, NEW y \in Nat, x <= y
  PROVE  x * PerPkt \in Nat /\ x * PerPkt <= y * PerPkt
  BY SizeAssumption DEF SizeAssumption

\* What a number of bytes holds, cut down to the unit, fits into them.
LEMMA HeldFits ==
  ASSUME NEW bytes \in Nat
  PROVE  /\ FloorMultiple(Packets(bytes)) \in Nat
         /\ FloorMultiple(Packets(bytes)) * PerPkt \in Nat
         /\ FloorMultiple(Packets(bytes)) * PerPkt <= bytes
<1> DEFINE n == Packets(bytes)
<1>1. n \in Nat /\ n * PerPkt <= bytes
  BY Quotient, SizeAssumption DEF SizeAssumption, Packets
<1>2. FloorMultiple(n) \in Nat /\ FloorMultiple(n) <= n BY <1>1, Floored
<1>3. FloorMultiple(n) * PerPkt \in Nat /\ FloorMultiple(n) * PerPkt <= n * PerPkt
  BY <1>1, <1>2, Scaled
<1>4. n * PerPkt \in Nat BY <1>1, Scaled
<1>5. QED
  <2> HIDE DEF n
  <2> DEFINE f == FloorMultiple(n) * PerPkt
  <2>1. f \in Nat /\ f <= n * PerPkt BY <1>3
  <2>2. f <= bytes BY <2>1, <1>1, <1>4
  <2>3. QED BY <1>2, <2>1, <2>2 DEF n

-----------------------------------------------------------------------------
(* The state the sizes are computed from.                                  *)

\* What is known of the source and of the memory when the sizes are computed.
GivenInv ==
  /\ source \in Sources /\ memory \in [total : Totals, used : Used]
  /\ \A i \in DOMAIN files : files[i].n \in Nat
  /\ DOMAIN files = 1 .. Len(files)
  /\ scanned \in Nat /\ pktCount \in Nat

LEMMA GivenInit == Init => GivenInv
  BY DEF Init, GivenInv

LEMMA GivenNext ==
  ASSUME GivenInv, [Next]_vars
  PROVE  GivenInv'
<1> USE DEF GivenInv, givenVars, scanVars
<1>1. CASE Prepare
  <2>1. PICK list \in [1 .. Cardinality(source.entries) -> source.entries] : files' = list
    BY <1>1 DEF Prepare
  <2>2. Cardinality(source.entries) \in Nat
    BY FS_CardinalityType, SourceAssumption DEF SourceAssumption, SourceOK
  <2>3. \A e \in source.entries : e.n \in Nat
    BY SourceAssumption DEF SourceAssumption, SourceOK, EntryOK
  <2>4. Len(files') = Cardinality(source.entries) BY <2>1, <2>2
  <2>5. UNCHANGED <<source, memory, scanned, pktCount>> BY <1>1 DEF Prepare
  <2>6. QED BY <2>1, <2>3, <2>4, <2>5
<1>2. CASE ScanFile BY <1>2 DEF ScanFile
<1>3. CASE UNCHANGED <<givenVars, scanVars>> BY <1>3
<1>4. QED
  BY <1>1, <1>2, <1>3 DEF Next, StartUp, RefuseSource, RefuseFile, RefuseEmpty, ScanDone, Size,
     RefuseSize, Load, NextFile, LoadMbuf, RefusePayload, SectionLoaded, Send, Switch, Exit, vars

LEMMA AvailableType == GivenInv => Available \in Nat
<1> SUFFICES ASSUME GivenInv PROVE Available \in Nat OBVIOUS
<1> DEFINE used == memory.used
           pages == (3 * RoundUp(used) + 1) \div 2
<1>1. used \in Nat /\ memory.total \in Nat
  BY SizeAssumption DEF SizeAssumption, GivenInv
<1>2. RoundUp(used) \in Nat
  BY <1>1, SizeAssumption, Quotient DEF SizeAssumption, RoundUp
<1>3. pages \in Nat
  <2> HIDE DEF used
  <2>1. QED BY <1>2
<1>4. Baseline(used) \in Nat BY <1>3 DEF Baseline
<1>5. Baseline(used) * Page \in Nat
  <2>1. \A b \in Nat : b * Page \in Nat BY SizeAssumption DEF SizeAssumption
  <2>2. QED BY <1>4, <2>1
<1>6. QED BY <1>1, <1>5 DEF Available

-----------------------------------------------------------------------------
(* The sections fit into the memory.                                       *)

LEMMA CountsFit ==
  ASSUME GivenInv
  PROVE  /\ Counts[1] \in Nat /\ Counts[2] \in Nat
         /\ memory.total > 0 => (Counts[1] + Counts[2]) * PerPkt <= Available
<1> DEFINE free == Available
<1>1. free \in Nat /\ memory.total \in Nat
  BY AvailableType, SizeAssumption DEF SizeAssumption, GivenInv
<1>2. Wanted \in Nat BY SizeAssumption DEF SizeAssumption, Wanted, GivenInv
<1>3. CASE memory.total = 0
  BY <1>2, <1>3, Floored DEF Counts
<1>4. CASE Wanted <= Packets(free) /\ memory.total # 0
  <2>1. Counts = <<FloorMultiple(Wanted), 0>> BY <1>4 DEF Counts
  <2>2. FloorMultiple(Wanted) \in Nat /\ FloorMultiple(Wanted) <= Wanted
    BY <1>2, Floored
  <2>3. Packets(free) \in Nat /\ Packets(free) * PerPkt <= free
    BY <1>1, Quotient, SizeAssumption DEF SizeAssumption, Packets
  <2>4. FloorMultiple(Wanted) <= Packets(free) BY <1>2, <1>4, <2>2, <2>3
  <2>5. FloorMultiple(Wanted) * PerPkt <= Packets(free) * PerPkt
        /\ FloorMultiple(Wanted) * PerPkt \in Nat /\ Packets(free) * PerPkt \in Nat
    BY <2>2, <2>3, <2>4, Scaled
  <2>6. FloorMultiple(Wanted) * PerPkt <= free BY <1>1, <2>3, <2>5
  <2>7. QED BY <2>1, <2>2, <2>6
<1>5. CASE ~(Wanted <= Packets(free)) /\ memory.total # 0
  <2> DEFINE half0 == free \div 2
             half1 == free - free \div 2
             n0 == FloorMultiple(Packets(half0))
             n1 == FloorMultiple(Packets(half1))
  <2>1. Counts = <<n0, n1>> BY <1>5 DEF Counts, SplitBudget
  <2>2. half0 \in Nat /\ half1 \in Nat /\ half0 + half1 = free
    <3> HIDE DEF free
    <3>1. QED BY <1>1
  <2>3. n0 \in Nat /\ n0 * PerPkt \in Nat /\ n0 * PerPkt <= half0 BY <2>2, HeldFits
  <2>4. n1 \in Nat /\ n1 * PerPkt \in Nat /\ n1 * PerPkt <= half1 BY <2>2, HeldFits
  <2>5. (n0 + n1) * PerPkt <= free
    <3> HIDE DEF n0, n1, half0, half1, free
    <3>1. (n0 + n1) * PerPkt = n0 * PerPkt + n1 * PerPkt
      BY <2>3, <2>4, SizeAssumption DEF SizeAssumption
    <3>2. QED BY <2>2, <2>3, <2>4, <3>1
  <2>6. QED BY <2>1, <2>3, <2>4, <2>5
<1>6. QED BY <1>3, <1>4, <1>5

\* The counts are zero until the sizes are computed, and fit from then on.
SizesInv == GivenInv /\ count \in [Sections -> Nat] /\ FitsMemory

LEMMA SizesInit == Init => SizesInv
<1> SUFFICES ASSUME Init PROVE SizesInv OBVIOUS
<1>1. GivenInv BY GivenInit
<1>2. count \in [Sections -> Nat] BY DEF Init
<1>3. (count[0] + count[1]) * PerPkt = 0
  BY SizeAssumption DEF SizeAssumption, Init
<1>4. FitsMemory BY <1>1, <1>3, AvailableType DEF FitsMemory
<1>5. QED BY <1>1, <1>2, <1>4 DEF SizesInv

LEMMA SizesNext == SizesInv /\ [Next]_vars => SizesInv'
<1> SUFFICES ASSUME SizesInv, [Next]_vars PROVE SizesInv' OBVIOUS
<1>1. GivenInv' BY GivenNext DEF SizesInv
<1>2. CASE Size
  <2>1. count'[0] = Counts[1] /\ count'[1] = Counts[2] /\ memory' = memory
    BY <1>2 DEF Size, givenVars
  <2>2. count' \in [Sections -> Nat]
    <3>1. Counts[1] \in Nat /\ Counts[2] \in Nat BY CountsFit DEF SizesInv
    <3>2. \A s \in Sections : Counts[s + 1] \in Nat BY <3>1
    <3>3. QED BY <1>2, <3>2 DEF Size
  <2>3. FitsMemory' BY <2>1, CountsFit DEF FitsMemory, SizesInv, Available
  <2>4. QED BY <1>1, <2>2, <2>3 DEF SizesInv
<1>3. CASE UNCHANGED <<count, memory>>
  <2>1. count' \in [Sections -> Nat] BY <1>3 DEF SizesInv
  <2>2. FitsMemory' BY <1>3 DEF FitsMemory, SizesInv, Available
  <2>3. QED BY <1>1, <2>1, <2>2 DEF SizesInv
<1>4. QED
  BY <1>2, <1>3 DEF Next, StartUp, Prepare, RefuseSource, ScanFile, RefuseFile, RefuseEmpty,
     ScanDone, RefuseSize, Load, NextFile, LoadMbuf, RefusePayload, SectionLoaded, Send, Switch,
     Exit, vars, givenVars

\* Whatever the capture, the memory and the mbuf size, the sections together stay
\* within what is left of the hugepages.
THEOREM SectionsFit == Spec => []FitsMemory
<1>1. SizesInv => FitsMemory BY DEF SizesInv
<1>2. QED BY <1>1, SizesInit, SizesNext, PTL DEF Spec

-----------------------------------------------------------------------------
(* The loader's place in the capture.                                      *)

\* A capture that passed the scan has a packet in one of the files scanned.
ScanInv ==
  /\ scanned <= Len(files)
  /\ pktCount > 0 => \E i \in 1 .. scanned : files[i].n > 0
  /\ phase \in {"size", "load", "run"} => pktCount > 0

LEMMA ScanInit == Init => ScanInv
  BY DEF Init, ScanInv

LEMMA ScanNext ==
  ASSUME GivenInv, ScanInv, phase = "prepare" => scanned = 0 /\ pktCount = 0, [Next]_vars
  PROVE  ScanInv'
<1> USE DEF GivenInv, ScanInv, givenVars, scanVars
<1>1. CASE Prepare
  <2>1. PICK list \in [1 .. Cardinality(source.entries) -> source.entries] : files' = list
    BY <1>1 DEF Prepare
  <2>2. Cardinality(source.entries) \in Nat
    BY FS_CardinalityType, SourceAssumption DEF SourceAssumption, SourceOK
  <2>3. Len(files') = Cardinality(source.entries) BY <2>1, <2>2
  <2>4. QED BY <1>1, <2>2, <2>3 DEF Prepare
<1>2. CASE ScanFile
  <2>1. files[scanned + 1].n \in Nat BY <1>2 DEF ScanFile
  <2>2. scanned' = scanned + 1 /\ files' = files /\ scanned + 1 <= Len(files)
    BY <1>2 DEF ScanFile
  <2>3. pktCount' > 0 => \E i \in 1 .. scanned' : files'[i].n > 0
    <3>1. CASE files[scanned + 1].n > 0 BY <2>2, <3>1
    <3>2. CASE files[scanned + 1].n = 0
      <4>1. pktCount' = pktCount BY <1>2, <3>2 DEF ScanFile
      <4>2. QED BY <2>2, <4>1
    <3>3. QED BY <2>1, <3>1, <3>2
  <2>4. QED BY <1>2, <2>2, <2>3 DEF ScanFile
<1>3. CASE ScanDone BY <1>3 DEF ScanDone, EmptyCapture
<1>4. CASE /\ UNCHANGED scanVars
           /\ phase' \in {phase, "exit"} \/ phase \in {"size", "load", "run"}
  BY <1>4
<1>5. QED
  BY <1>1, <1>2, <1>3, <1>4 DEF Next, StartUp, RefuseSource, RefuseFile, RefuseEmpty, Size,
     RefuseSize, Load, NextFile, LoadMbuf, RefusePayload, SectionLoaded, Send, Switch, Exit, vars

\* Between two packets the cursor stands after the last one, or at the start of a
\* later file with only empty ones passed over.
CursorInv ==
  /\ phase \in {"prepare", "scan"} => lastLoaded = NoPacket
  /\ phase = "prepare" => scanned = 0 /\ pktCount = 0
  /\ phase \in {"size", "load", "run"} =>
       /\ fileIndex \in 1 .. Len(files) /\ rec \in 0 .. files[fileIndex].n
       /\ \/ lastLoaded = NoPacket
          \/ /\ lastLoaded \in Nat \X Nat /\ lastLoaded[1] \in 1 .. Len(files)
             /\ lastLoaded[2] \in 1 .. files[lastLoaded[1]].n
       /\ \/ lastLoaded # NoPacket /\ lastLoaded = <<fileIndex, rec>>
          \/ /\ rec = 0
             /\ lastLoaded # NoPacket => lastLoaded[2] = files[lastLoaded[1]].n
             /\ \E d \in 1 .. Len(files) :
                  fileIndex = FileAfter(lastLoaded[1], d) /\ EmptyBetween(lastLoaded[1], d)

LEMMA CursorInit == Init => CursorInv
  BY DEF Init, CursorInv

\* What the loader reads next follows what it read last.
LEMMA ReadFollows ==
  ASSUME GivenInv, CursorInv, LoadMbuf
  PROVE  Follows(lastLoaded, lastLoaded')
<1>1. /\ lastLoaded' = <<fileIndex, rec + 1>> /\ rec < files[fileIndex].n
      /\ phase \in {"load", "run"}
  BY DEF LoadMbuf
<1>2. fileIndex \in 1 .. Len(files) /\ rec \in 0 .. files[fileIndex].n
      /\ files[fileIndex].n \in Nat
  BY <1>1 DEF CursorInv, GivenInv
<1>3. CASE lastLoaded # NoPacket /\ lastLoaded = <<fileIndex, rec>>
  BY <1>1, <1>2, <1>3 DEF Follows
<1>4. CASE /\ rec = 0
           /\ lastLoaded # NoPacket => lastLoaded[2] = files[lastLoaded[1]].n
           /\ \E d \in 1 .. Len(files) :
                fileIndex = FileAfter(lastLoaded[1], d) /\ EmptyBetween(lastLoaded[1], d)
  BY <1>1, <1>2, <1>4 DEF Follows
<1>5. QED BY <1>1, <1>3, <1>4 DEF CursorInv

\* The file opened at the end of one is the one a place after it.
LEMMA FollowingPlace ==
  ASSUME Len(files) \in Nat, fileIndex \in 1 .. Len(files)
  PROVE  /\ FollowingFile \in 1 .. Len(files)
         /\ FollowingFile = FileAfter(fileIndex, 1)
         /\ \A f \in 0 .. Len(files), d \in 1 .. Len(files) :
              fileIndex = FileAfter(f, d) /\ d + 1 <= Len(files)
                => FollowingFile = FileAfter(f, d + 1)
<1>1. CASE fileIndex = Len(files) BY <1>1 DEF FollowingFile, FileAfter
<1>2. CASE fileIndex # Len(files) BY <1>2 DEF FollowingFile, FileAfter
<1>3. QED BY <1>1, <1>2

\* Passing over an empty file keeps the cursor's place.  Going round once would
\* mean that every file is empty, or that the last packet's own file is.
LEMMA PassFile ==
  ASSUME GivenInv, ScanInv, CursorInv, NextFile
  PROVE  /\ fileIndex' \in 1 .. Len(files) /\ rec' = 0
         /\ lastLoaded # NoPacket => lastLoaded[2] = files[lastLoaded[1]].n
         /\ \E d \in 1 .. Len(files) :
              fileIndex' = FileAfter(lastLoaded[1], d) /\ EmptyBetween(lastLoaded[1], d)
<1> DEFINE f == lastLoaded[1]
<1>1. /\ rec = files[fileIndex].n /\ fileIndex' = FollowingFile /\ rec' = 0
      /\ phase \in {"load", "run"}
  BY DEF NextFile
<1>2. /\ fileIndex \in 1 .. Len(files)
      /\ DOMAIN files = 1 .. Len(files)
      /\ \A i \in 1 .. Len(files) : files[i].n \in Nat
      /\ \E i \in 1 .. Len(files) : files[i].n > 0
  <2>1. pktCount > 0 /\ scanned \in Nat /\ scanned <= Len(files)
    BY <1>1 DEF ScanInv, GivenInv
  <2>2. QED BY <1>1, <2>1 DEF CursorInv, GivenInv, ScanInv
<1>3. Len(files) \in Nat BY <1>2 DEF GivenInv
<1>4. fileIndex' \in 1 .. Len(files) BY <1>1, <1>2, <1>3, FollowingPlace
<1>5. CASE lastLoaded # NoPacket /\ lastLoaded = <<fileIndex, rec>>
  <2>1. fileIndex' = FileAfter(f, 1) BY <1>1, <1>2, <1>3, <1>5, FollowingPlace
  <2>2. EmptyBetween(f, 1) BY DEF EmptyBetween
  <2>3. 1 \in 1 .. Len(files) BY <1>2, <1>3
  <2>4. QED BY <1>1, <1>4, <1>5, <2>1, <2>2, <2>3
<1>6. ASSUME rec = 0, lastLoaded # NoPacket => lastLoaded[2] = files[f].n,
             NEW d \in 1 .. Len(files), fileIndex = FileAfter(f, d), EmptyBetween(f, d)
      PROVE  \E k \in 1 .. Len(files) : fileIndex' = FileAfter(f, k) /\ EmptyBetween(f, k)
  <2>1. f \in 0 .. Len(files) /\ (f = 0 <=> lastLoaded = NoPacket)
    BY <1>1, <1>3 DEF CursorInv, NoPacket
  <2>2. files[FileAfter(f, d)].n = 0 BY <1>1, <1>6
  <2>3. \A e \in 1 .. d : files[FileAfter(f, e)].n = 0
    BY <1>6, <2>2 DEF EmptyBetween
  <2>4. d # Len(files)
    <3>1. SUFFICES ASSUME d = Len(files) PROVE FALSE OBVIOUS
    <3>2. CASE f = 0
      <4>1. \A e \in 1 .. Len(files) : FileAfter(f, e) = e BY <1>3, <3>2 DEF FileAfter
      <4>2. QED BY <1>2, <2>3, <3>1, <4>1
    <3>3. CASE f # 0
      <4>1. FileAfter(f, d) = f BY <1>3, <2>1, <3>1, <3>3 DEF FileAfter
      <4>2. files[f].n > 0
        <5>1. f \in 1 .. Len(files) /\ lastLoaded[2] \in 1 .. files[f].n
          BY <1>1, <2>1, <3>3 DEF CursorInv
        <5>2. QED BY <1>2, <5>1
      <4>3. QED BY <2>2, <4>1, <4>2
    <3>4. QED BY <3>2, <3>3
  <2>5. d + 1 \in 1 .. Len(files) BY <1>3, <2>4
  <2>6. fileIndex' = FileAfter(f, d + 1)
    BY <1>1, <1>2, <1>3, <1>6, <2>1, <2>5, FollowingPlace
  <2>7. EmptyBetween(f, d + 1) BY <2>3, <2>5 DEF EmptyBetween
  <2>8. QED BY <2>5, <2>6, <2>7
<1>7. QED BY <1>1, <1>4, <1>5, <1>6 DEF CursorInv

LEMMA CursorNext ==
  ASSUME GivenInv, ScanInv, CursorInv, [Next]_vars
  PROVE  CursorInv'
<1>1. CASE Prepare BY <1>1 DEF Prepare, CursorInv, loadVars
<1>2. CASE ScanFile BY <1>2 DEF ScanFile, CursorInv, loadVars
<1>3. CASE ScanDone
  <2>1. /\ phase = "scan" /\ fileIndex' = 1 /\ rec' = 0 /\ phase' = "size"
        /\ UNCHANGED <<files, scanned, pktCount, lastLoaded>>
    BY <1>3 DEF ScanDone, scanVars
  <2>2. lastLoaded = NoPacket BY <2>1 DEF CursorInv
  <2>3. Len(files) \in Nat /\ 1 \in 1 .. Len(files) /\ files[1].n \in Nat
    <3>1. pktCount > 0 BY <1>3 DEF ScanDone, EmptyCapture, GivenInv
    <3>2. QED BY <3>1 DEF ScanInv, GivenInv
  <2>4. FileAfter(lastLoaded[1], 1) = 1 BY <2>2, <2>3 DEF FileAfter, NoPacket
  <2>5. EmptyBetween(lastLoaded[1], 1) BY DEF EmptyBetween
  <2>6. \E d \in 1 .. Len(files)' :
          fileIndex' = FileAfter(lastLoaded[1], d)' /\ EmptyBetween(lastLoaded[1], d)'
    BY <2>1, <2>3, <2>4, <2>5 DEF FileAfter, EmptyBetween
  <2>7. QED BY <2>1, <2>2, <2>3, <2>6 DEF CursorInv
<1>4. CASE Size BY <1>4 DEF Size, CursorInv, scanVars, FileAfter, EmptyBetween
<1>5. CASE NextFile
  <2>1. phase' = phase /\ UNCHANGED <<files, scanned, pktCount, lastLoaded>>
        /\ phase \in {"load", "run"}
    BY <1>5 DEF NextFile, scanVars
  <2>2. /\ fileIndex' \in 1 .. Len(files) /\ rec' = 0
        /\ lastLoaded # NoPacket => lastLoaded[2] = files[lastLoaded[1]].n
        /\ \E d \in 1 .. Len(files) :
             fileIndex' = FileAfter(lastLoaded[1], d) /\ EmptyBetween(lastLoaded[1], d)
    BY <1>5, PassFile
  <2>3. files[fileIndex'].n \in Nat BY <2>2 DEF GivenInv
  <2>4. QED BY <2>1, <2>2, <2>3 DEF CursorInv, FileAfter, EmptyBetween
<1>6. CASE LoadMbuf
  <2>1. /\ lastLoaded' = <<fileIndex, rec + 1>> /\ rec' = rec + 1 /\ rec < files[fileIndex].n
        /\ phase' = phase /\ phase \in {"load", "run"}
        /\ UNCHANGED <<files, scanned, pktCount, fileIndex>>
    BY <1>6 DEF LoadMbuf, scanVars
  <2>2. fileIndex \in 1 .. Len(files) /\ rec \in Nat /\ files[fileIndex].n \in Nat
        /\ Len(files) \in Nat
    BY <2>1 DEF CursorInv, GivenInv
  <2>3. lastLoaded' # NoPacket /\ lastLoaded' = <<fileIndex', rec'>>
    BY <2>1, <2>2 DEF NoPacket
  <2>4. QED BY <2>1, <2>2, <2>3 DEF CursorInv
<1>7. CASE /\ UNCHANGED <<files, scanned, pktCount, fileIndex, rec, lastLoaded>>
           /\ \/ phase' = phase
              \/ phase' = "exit"
              \/ phase \in {"size", "load", "run"} /\ phase' \in {"size", "load", "run"}
  BY <1>7 DEF CursorInv, FileAfter, EmptyBetween
<1>8. QED
  BY <1>1, <1>2, <1>3, <1>4, <1>5, <1>6, <1>7 DEF Next, StartUp, RefuseSource, RefuseFile,
     RefuseEmpty, RefuseSize, Load, RefusePayload, SectionLoaded, Send, Switch, Exit,
     vars, scanVars, loadVars

\* Whatever files a source lists, empty ones among them, and however often a
\* section is reloaded, the loader reads the capture in order and round and round.
THEOREM ReadsInOrder == Spec => LoadsInOrder
<1> DEFINE Inv == GivenInv /\ ScanInv /\ CursorInv
<1>1. Init => Inv BY GivenInit, ScanInit, CursorInit
<1>2. Inv /\ [Next]_vars => Inv' BY GivenNext, ScanNext, CursorNext DEF CursorInv
<1>3. Inv /\ [Next]_vars => [LoadMbuf => Follows(lastLoaded, lastLoaded')]_vars
  BY ReadFollows
<1>4. QED BY <1>1, <1>2, <1>3, PTL DEF Spec, LoadsInOrder
-----------------------------------------------------------------------------
(* The types, and with them that the pools hold packets of the capture.    *)

\* No scanned file has more records than were counted, and the pools are filled
\* only once every file is scanned.
CountedInv ==
  /\ \A i \in 1 .. scanned : files[i].n <= pktCount
  /\ phase \in {"size", "load", "run"} => scanned = Len(files)

LEMMA CountedInit == Init => CountedInv
  BY DEF Init, CountedInv

LEMMA CountedNext ==
  ASSUME GivenInv, ScanInv, CursorInv, CountedInv, [Next]_vars
  PROVE  CountedInv'
<1> USE DEF CountedInv, givenVars, scanVars
<1>1. CASE Prepare
  <2>1. scanned' = 0 /\ phase' = "scan" BY <1>1 DEF Prepare, CursorInv
  <2>2. QED BY <2>1
<1>2. CASE ScanFile
  <2>1. /\ scanned \in Nat /\ pktCount \in Nat /\ scanned + 1 <= Len(files)
        /\ files[scanned + 1].n \in Nat /\ Len(files) \in Nat
        /\ \A i \in 1 .. scanned : files[i].n \in Nat
    BY <1>2 DEF ScanFile, GivenInv, ScanInv
  <2>2. /\ scanned' = scanned + 1 /\ files' = files /\ phase' = "scan"
        /\ pktCount' = pktCount + files[scanned + 1].n
    BY <1>2 DEF ScanFile
  <2>3. ASSUME NEW i \in 1 .. scanned' PROVE files'[i].n <= pktCount'
    <3>1. CASE i = scanned + 1 BY <2>1, <2>2, <3>1
    <3>2. CASE i # scanned + 1
      <4>1. i \in 1 .. scanned BY <2>1, <2>2, <3>2
      <4>2. files[i].n <= pktCount /\ files[i].n \in Nat BY <2>1, <4>1
      <4>3. QED BY <2>1, <2>2, <4>2
    <3>3. QED BY <3>1, <3>2
  <2>4. QED BY <2>2, <2>3
<1>3. CASE ScanDone BY <1>3 DEF ScanDone
<1>4. CASE /\ UNCHANGED scanVars
           /\ phase' \in {phase, "exit"} \/ phase \in {"size", "load", "run"}
  BY <1>4
<1>5. QED
  BY <1>1, <1>2, <1>3, <1>4 DEF Next, StartUp, RefuseSource, RefuseFile, RefuseEmpty, Size,
     RefuseSize, Load, NextFile, LoadMbuf, RefusePayload, SectionLoaded, Send, Switch, Exit, vars

\* The control variables of start-up, loader and sender.
ControlInv ==
  /\ phase \in {"prepare", "scan", "size", "load", "run", "exit"}
  /\ fileIndex \in Nat \ {0} /\ rec \in Nat
  /\ loading \in Sections \union {None} /\ active \in Sections /\ sent \in Nat

LEMMA ControlInit == Init => ControlInv
  BY DEF Init, ControlInv

LEMMA ControlNext ==
  ASSUME GivenInv, CursorInv, ControlInv, [Next]_vars
  PROVE  ControlInv'
<1> USE DEF ControlInv
<1>1. CASE StartUp
  BY <1>1 DEF StartUp, Prepare, RefuseSource, ScanFile, RefuseFile, RefuseEmpty, ScanDone, Size,
     RefuseSize, Exit, loadVars, sendVars
<1>2. CASE NextFile
  <2>1. Len(files) \in Nat /\ fileIndex \in 1 .. Len(files)
    BY <1>2 DEF NextFile, CursorInv, GivenInv
  <2>2. FollowingFile \in 1 .. Len(files) BY <2>1, FollowingPlace
  <2>3. QED BY <1>2, <2>2 DEF NextFile, sendVars
<1>3. CASE LoadMbuf BY <1>3 DEF LoadMbuf, sendVars
<1>4. CASE RefusePayload BY <1>4 DEF RefusePayload, Exit, loadVars, sendVars
<1>5. CASE SectionLoaded BY <1>5 DEF SectionLoaded, sendVars
<1>6. CASE Send BY <1>6 DEF Send, loadVars
<1>7. CASE Switch BY <1>7 DEF Switch, Refill
<1>8. CASE UNCHANGED vars BY <1>8 DEF vars, loadVars, sendVars
<1>9. QED
  BY <1>1, <1>2, <1>3, <1>4, <1>5, <1>6, <1>7, <1>8 DEF Next, Load

\* A pool holds no more than its section counts, only packets of the capture, and
\* nothing before the sizes are known.
PoolsInv ==
  /\ \A s \in Sections :
       /\ content[s] \in Seq(Nat \X Nat) /\ Len(content[s]) <= count[s]
       /\ \A i \in DOMAIN content[s] : content[s][i] \in Capture
  /\ DOMAIN content = Sections
  /\ phase \in {"prepare", "scan", "size"} => content = [s \in Sections |-> <<>>]

LEMMA PoolsInit == Init => PoolsInv
  BY DEF Init, PoolsInv

\* The record the loader reads is one of the capture's.
LEMMA ReadIsCaptured ==
  ASSUME GivenInv, CursorInv, CountedInv, LoadMbuf
  PROVE  <<fileIndex, rec + 1>> \in Capture /\ <<fileIndex, rec + 1>> \in Nat \X Nat
<1>1. phase \in {"load", "run"} /\ rec < files[fileIndex].n BY DEF LoadMbuf
<1>2. fileIndex \in 1 .. Len(files) /\ rec \in Nat /\ scanned = Len(files)
  BY <1>1 DEF CursorInv, CountedInv
<1>3. files[fileIndex].n \in Nat /\ pktCount \in Nat /\ Len(files) \in Nat
  BY <1>2 DEF GivenInv
<1>4. files[fileIndex].n <= pktCount BY <1>2 DEF CountedInv
<1>5. rec + 1 \in 1 .. pktCount BY <1>1, <1>2, <1>3, <1>4
<1>6. QED BY <1>1, <1>2, <1>3, <1>5 DEF Capture

LEMMA PoolsNext ==
  ASSUME GivenInv, CursorInv, CountedInv, SizesInv, SizesInv', ControlInv, PoolsInv, [Next]_vars
  PROVE  PoolsInv'
<1> USE DEF PoolsInv
<1>1. count \in [Sections -> Nat] /\ count' \in [Sections -> Nat] BY DEF SizesInv
<1>2. CASE /\ content = [s \in Sections |-> <<>>] /\ content' = content
  BY <1>1, <1>2
<1>3. CASE LoadMbuf
  <2> DEFINE new == <<fileIndex, rec + 1>>
  <2>1. /\ loading \in Sections /\ Len(content[loading]) < count[loading]
        /\ content' = [content EXCEPT ![loading] = Append(@, new)]
        /\ UNCHANGED <<count, files, pktCount, phase>>
        /\ phase \in {"load", "run"}
    BY <1>3 DEF LoadMbuf, MbufLeft, ControlInv, scanVars
  <2>2. new \in Capture /\ new \in Nat \X Nat BY <1>3, ReadIsCaptured
  <2>3. Capture' = Capture BY <2>1 DEF Capture
  <2>4. ASSUME NEW s \in Sections
        PROVE  /\ content'[s] \in Seq(Nat \X Nat) /\ Len(content'[s]) <= count[s]
               /\ \A i \in DOMAIN content'[s] : content'[s][i] \in Capture
    <3> HIDE DEF new
    <3>1. CASE s # loading BY <2>1, <3>1
    <3>2. CASE s = loading
      <4> DEFINE old == content[s]
      <4>1. content'[s] = Append(old, new) BY <2>1, <3>2
      <4>2. old \in Seq(Nat \X Nat) /\ Len(old) < count[s] /\ count[s] \in Nat
            /\ \A i \in DOMAIN old : old[i] \in Capture
        BY <1>1, <2>1, <3>2
      <4>3. /\ Append(old, new) \in Seq(Nat \X Nat)
            /\ Len(Append(old, new)) = Len(old) + 1
            /\ DOMAIN Append(old, new) = 1 .. Len(old) + 1
            /\ DOMAIN old = 1 .. Len(old) /\ Len(old) \in Nat
            /\ \A i \in 1 .. Len(old) : Append(old, new)[i] = old[i]
            /\ Append(old, new)[Len(old) + 1] = new
        BY <2>2, <4>2
      <4> HIDE DEF old
      <4>4. ASSUME NEW i \in 1 .. Len(old) + 1 PROVE Append(old, new)[i] \in Capture
        <5>1. CASE i = Len(old) + 1 BY <2>2, <4>3, <5>1
        <5>2. CASE i # Len(old) + 1
          <6>1. i \in 1 .. Len(old) BY <4>3, <5>2
          <6>2. QED BY <4>2, <4>3, <6>1
        <5>3. QED BY <5>1, <5>2
      <4>5. QED BY SMTT(30), <4>1, <4>2, <4>3, <4>4
    <3>3. QED BY <3>1, <3>2
  <2>5. QED BY <2>1, <2>3, <2>4
<1>4. CASE Switch
  <2>1. /\ content' = [content EXCEPT ![active] = <<>>]
        /\ UNCHANGED <<count, files, pktCount, phase>> /\ phase = "run"
    BY <1>4 DEF Switch, Refill, scanVars
  <2>2. Capture' = Capture BY <2>1 DEF Capture
  <2>3. \A s \in Sections : content'[s] = content[s] \/ content'[s] = <<>> BY <2>1
  <2>4. QED BY SMTT(30), <1>1, <2>1, <2>2, <2>3
<1>5. CASE /\ UNCHANGED <<content, count, files, pktCount>>
           /\ \/ phase' \in {phase, "exit"}
              \/ phase \in {"load", "run"} /\ phase' \in {"load", "run"}
  <2>1. Capture' = Capture BY <1>5 DEF Capture
  <2>2. QED BY <1>5, <2>1
<1>6. QED
  <2>1. CASE Prepare \/ ScanFile \/ ScanDone \/ Size
    BY <1>2, <2>1 DEF Prepare, ScanFile, ScanDone, Size, loadVars
  <2>2. CASE RefuseSource \/ RefuseFile \/ RefuseEmpty \/ RefuseSize \/ RefusePayload
    BY <1>5, <2>2 DEF RefuseSource, RefuseFile, RefuseEmpty, RefuseSize, RefusePayload, Exit,
       scanVars, loadVars
  <2>3. CASE NextFile \/ SectionLoaded \/ Send \/ UNCHANGED vars
    BY <1>5, <2>3 DEF NextFile, SectionLoaded, Send, vars, scanVars, loadVars
  <2>4. QED BY <1>3, <1>4, <2>1, <2>2, <2>3 DEF Next, StartUp, Load

\* Every variable keeps its type, and a pool never holds more packets than its
\* section has room for nor a packet that is not in the capture, whatever the
\* files, the sizes and the reloads.
THEOREM SourceTypeCorrect == Spec => []TypeOK
<1> DEFINE Inv == /\ GivenInv /\ ScanInv /\ CursorInv /\ CountedInv
                  /\ SizesInv /\ ControlInv /\ PoolsInv
<1>1. Init => Inv
  BY GivenInit, ScanInit, CursorInit, CountedInit, SizesInit, ControlInit, PoolsInit
<1>2. Inv /\ [Next]_vars => Inv'
  <2> SUFFICES ASSUME Inv, [Next]_vars PROVE Inv' OBVIOUS
  <2>1. GivenInv' /\ CursorInv' BY GivenNext, CursorNext
  <2>2. ScanInv' BY ScanNext DEF CursorInv
  <2>3. CountedInv' /\ ControlInv' /\ SizesInv' BY CountedNext, ControlNext, SizesNext
  <2>4. PoolsInv' BY <2>3, PoolsNext
  <2>5. QED BY <2>1, <2>2, <2>3, <2>4
<1>3. Inv => TypeOK
  <2> SUFFICES ASSUME Inv PROVE TypeOK OBVIOUS
  <2>1. scanned \in 0 .. Len(files) BY DEF GivenInv, ScanInv
  <2>2. QED BY <2>1 DEF TypeOK, GivenInv, SizesInv, ControlInv, PoolsInv
<1>4. QED BY <1>1, <1>2, <1>3, PTL DEF Spec
-----------------------------------------------------------------------------
(* Two sections: what goes out is what was read, in the order it was read.  *)

\* x is what is left of the section being sent and y the other one: sent packets of x
\* are gone, m the last of them, the others follow, then those of y, and the loader
\* stands at l, behind them all.
Chained(x, y, l, n, m) ==
  /\ \A i \in 1 .. Len(x) - 1 : Follows(x[i], x[i + 1])
  /\ \A i \in 1 .. Len(y) - 1 : Follows(y[i], y[i + 1])
  /\ Len(x) > 0 /\ Len(y) > 0 => Follows(x[Len(x)], y[1])
  /\ n = 0 /\ Len(x) > 0 => Follows(m, x[1])
  /\ n > 0 => n <= Len(x) /\ m = x[n]
  /\ Len(y) > 0 => l = y[Len(y)]
  /\ Len(y) = 0 /\ Len(x) > 0 => l = x[Len(x)]
  /\ Len(y) = 0 /\ Len(x) = 0 => l = m

Pools == Seq(Nat \X Nat)

\* The files stay, and with them what follows what.
LEMMA ChainedKept ==
  ASSUME files' = files, NEW x, NEW y, NEW l, NEW n, NEW m, Chained(x, y, l, n, m)
  PROVE  Chained(x, y, l, n, m)'
<1>1. \A p, q : Follows(p, q) => Follows(p, q)' BY DEF Follows, FileAfter, EmptyBetween
<1>2. QED BY <1>1 DEF Chained

\* The first section is loaded.
LEMMA ChainedFirst ==
  ASSUME NEW x \in Pools, NEW l, NEW m, NEW q \in Nat \X Nat, Chained(x, <<>>, l, 0, m), Follows(l, q)
  PROVE  Chained(Append(x, q), <<>>, q, 0, m)
<1>1. PICK k \in Nat : k = Len(x) BY DEF Pools
<1>2. PICK z \in Pools : /\ z = Append(x, q) /\ Len(z) = k + 1 /\ z[k + 1] = q
                         /\ \A i \in 1 .. k : z[i] = x[i]
  <2>1. Append(x, q) \in Seq(Nat \X Nat) BY DEF Pools
  <2>2. Len(Append(x, q)) = k + 1 /\ Append(x, q)[k + 1] = q BY <1>1 DEF Pools
  <2>3. \A i \in 1 .. k : Append(x, q)[i] = x[i] BY <1>1 DEF Pools
  <2>4. QED BY <2>1, <2>2, <2>3 DEF Pools
<1>3. ASSUME NEW i \in 1 .. k PROVE Follows(z[i], z[i + 1])
  <2>1. CASE i = k
    <3>1. l = x[k] BY <1>1, <2>1 DEF Chained
    <3>2. QED BY <1>2, <2>1, <3>1
  <2>2. CASE i # k
    <3>1. i \in 1 .. Len(x) - 1 /\ i + 1 \in 1 .. k BY <1>1, <2>2
    <3>2. Follows(x[i], x[i + 1]) BY <3>1 DEF Chained
    <3>3. QED BY <1>2, <3>1, <3>2
  <2>3. QED BY <2>1, <2>2
<1>4. Follows(m, z[1])
  <2>1. CASE k = 0
    <3>1. l = m BY <1>1, <2>1 DEF Chained
    <3>2. QED BY <1>2, <2>1, <3>1
  <2>2. CASE k > 0
    <3>1. Follows(m, x[1]) BY <1>1, <2>2 DEF Chained
    <3>2. QED BY <1>2, <2>2, <3>1
  <2>3. QED BY <2>1, <2>2
<1>5. Len(z) - 1 = k /\ Len(z) > 0 BY <1>2
<1>6. Chained(z, <<>>, q, 0, m) BY <1>2, <1>3, <1>4, <1>5 DEF Chained
<1>7. QED BY <1>2, <1>6

\* The section that is not being sent is loaded.
LEMMA ChainedOther ==
  ASSUME NEW x \in Pools, NEW y \in Pools, NEW l, NEW n \in Nat, NEW m, NEW q \in Nat \X Nat,
         Chained(x, y, l, n, m), Follows(l, q), Len(x) > 0
  PROVE  Chained(x, Append(y, q), q, n, m)
<1>1. PICK k \in Nat : k = Len(y) BY DEF Pools
<1>2. PICK z \in Pools : /\ z = Append(y, q) /\ Len(z) = k + 1 /\ z[k + 1] = q
                         /\ \A i \in 1 .. k : z[i] = y[i]
  <2>1. Append(y, q) \in Seq(Nat \X Nat) BY DEF Pools
  <2>2. Len(Append(y, q)) = k + 1 /\ Append(y, q)[k + 1] = q BY <1>1 DEF Pools
  <2>3. \A i \in 1 .. k : Append(y, q)[i] = y[i] BY <1>1 DEF Pools
  <2>4. QED BY <2>1, <2>2, <2>3 DEF Pools
<1>3. ASSUME NEW i \in 1 .. k PROVE Follows(z[i], z[i + 1])
  <2>1. CASE i = k
    <3>1. l = y[k] BY <1>1, <2>1 DEF Chained
    <3>2. QED BY <1>2, <2>1, <3>1
  <2>2. CASE i # k
    <3>1. i \in 1 .. Len(y) - 1 /\ i + 1 \in 1 .. k BY <1>1, <2>2
    <3>2. Follows(y[i], y[i + 1]) BY <3>1 DEF Chained
    <3>3. QED BY <1>2, <3>1, <3>2
  <2>3. QED BY <2>1, <2>2
<1>4. Follows(x[Len(x)], z[1])
  <2>1. CASE k = 0
    <3>1. l = x[Len(x)] BY <1>1, <2>1 DEF Chained
    <3>2. QED BY <1>2, <2>1, <3>1
  <2>2. CASE k > 0
    <3>1. Follows(x[Len(x)], y[1]) BY <1>1, <2>2 DEF Chained
    <3>2. QED BY <1>2, <2>2, <3>1
  <2>3. QED BY <2>1, <2>2
<1>5. Len(z) - 1 = k /\ Len(z) > 0 BY <1>2
<1>6. Chained(x, z, q, n, m)
  <2>1. \A i \in 1 .. Len(z) - 1 : Follows(z[i], z[i + 1]) BY <1>3, <1>5
  <2>2. q = z[Len(z)] /\ ~(Len(z) = 0) BY <1>2
  <2>3. QED BY <1>4, <2>1, <2>2 DEF Chained
<1>7. QED BY <1>2, <1>6

\* The next packet goes out: it follows the last one.
LEMMA ChainedSend ==
  ASSUME NEW x \in Pools, NEW y \in Pools, NEW l, NEW n \in Nat, NEW m,
         Chained(x, y, l, n, m), n < Len(x)
  PROVE  Follows(m, x[n + 1]) /\ Chained(x, y, l, n + 1, x[n + 1])
<1>1. Len(x) \in Nat BY DEF Pools
<1>2. Follows(m, x[n + 1])
  <2>1. CASE n = 0 BY <1>1, <2>1 DEF Chained
  <2>2. CASE n > 0
    <3>1. n \in 1 .. Len(x) - 1 BY <1>1, <2>2
    <3>2. m = x[n] /\ Follows(x[n], x[n + 1]) BY <2>2, <3>1 DEF Chained
    <3>3. QED BY <3>2
  <2>3. QED BY <2>1, <2>2
<1>3. n + 1 > 0 /\ n + 1 # 0 /\ n + 1 <= Len(x) /\ ~(Len(x) = 0) BY <1>1
<1>4. Chained(x, y, l, n + 1, x[n + 1]) BY <1>3 DEF Chained
<1>5. QED BY <1>2, <1>4

\* A section that is all gone makes room for the next one.
LEMMA ChainedSwitch ==
  ASSUME NEW x \in Pools, NEW y \in Pools, NEW l, NEW m,
         Chained(x, y, l, Len(x), m), Len(x) > 0, Len(y) > 0
  PROVE  Chained(y, <<>>, l, 0, m)
<1>1. m = x[Len(x)] /\ Follows(x[Len(x)], y[1]) BY DEF Chained
<1>2. QED BY <1>1 DEF Chained

\* How far the sections are loaded and sent in each phase.
Stage ==
  /\ phase = "load" =>
       /\ active = 0 /\ sent = 0
       /\ \/ loading = 0 /\ content[1] = <<>>
          \/ loading = 1 /\ Len(content[0]) = count[0]
  /\ phase = "run" =>
       /\ Len(content[active]) = count[active] /\ sent <= count[active]
       /\ \/ loading = 1 - active
          \/ loading = None /\ Len(content[1 - active]) = count[1 - active]

OrderInv ==
  /\ phase \in {"prepare", "scan", "size"} =>
       active = 0 /\ sent = 0 /\ lastSent = NoPacket /\ lastLoaded = NoPacket
  /\ phase \in {"load", "run"} /\ count[1] > 0 =>
       /\ count[0] > 0 /\ Stage
       /\ Chained(content[active], content[1 - active], lastLoaded, sent, lastSent)

LEMMA OrderInit == Init => OrderInv
  BY DEF Init, OrderInv

\* What the proof that follows needs of the other parts of the invariant.
OrderFacts ==
  /\ GivenInv /\ CursorInv /\ CountedInv /\ ControlInv /\ PoolsInv
  /\ count \in [Sections -> Nat]

LEMMA PoolFacts ==
  ASSUME OrderFacts
  PROVE  /\ active \in {0, 1} /\ 1 - active \in {0, 1}
         /\ content[active] \in Pools /\ content[1 - active] \in Pools
         /\ content[0] \in Pools /\ content[1] \in Pools
         /\ count[0] \in Nat /\ count[1] \in Nat /\ sent \in Nat
         /\ DOMAIN content = {0, 1}
<1>1. active \in {0, 1} /\ sent \in Nat BY DEF OrderFacts, ControlInv
<1>2. 1 - active \in {0, 1} BY <1>1
<1>3. content[0] \in Pools /\ content[1] \in Pools /\ DOMAIN content = {0, 1}
  BY DEF OrderFacts, PoolsInv, Pools
<1>4. count[0] \in Nat /\ count[1] \in Nat BY DEF OrderFacts
<1>5. QED BY <1>1, <1>2, <1>3, <1>4

LEMMA SizeKeepsOrder ==
  ASSUME OrderFacts, OrderInv, Size
  PROVE  OrderInv'
<1>1. /\ phase = "size" /\ phase' = "load" /\ loading' = 0 /\ Counts[1] # 0
      /\ count' = [s \in Sections |-> Counts[s + 1]]
      /\ UNCHANGED <<active, sent, lastSent, lastLoaded, content>>
  BY DEF Size, TooSmall, sendVars
<1>2. active = 0 /\ sent = 0 /\ lastSent = NoPacket /\ lastLoaded = NoPacket
  BY <1>1 DEF OrderInv
<1>3. content[0] = <<>> /\ content[1] = <<>> BY <1>1 DEF OrderFacts, PoolsInv
<1>4. count'[0] = Counts[1] /\ count'[0] > 0
  <2>1. Counts[1] \in Nat BY CountsFit DEF OrderFacts
  <2>2. QED BY <1>1, <2>1
<1>5. Stage' BY <1>1, <1>2, <1>3 DEF Stage
<1>6. content'[active'] = <<>> /\ content'[1 - active'] = <<>> BY <1>1, <1>2, <1>3
<1>7. Chained(<<>>, <<>>, NoPacket, 0, NoPacket)' BY DEF Chained
<1>8. Chained(content[active], content[1 - active], lastLoaded, sent, lastSent)'
  BY <1>1, <1>2, <1>6, <1>7 DEF NoPacket
<1>9. QED BY <1>1, <1>4, <1>5, <1>8 DEF OrderInv

LEMMA LoadKeepsOrder ==
  ASSUME OrderFacts, OrderInv, LoadMbuf
  PROVE  OrderInv'
<1>1. PICK q \in Nat \X Nat :
        /\ lastLoaded' = q /\ Follows(lastLoaded, q)
        /\ content' = [content EXCEPT ![loading] = Append(@, q)]
  <2>1. <<fileIndex, rec + 1>> \in Nat \X Nat BY ReadIsCaptured DEF OrderFacts
  <2>2. Follows(lastLoaded, lastLoaded') BY ReadFollows DEF OrderFacts
  <2>3. QED BY <2>1, <2>2 DEF LoadMbuf
<1>2. /\ phase \in {"load", "run"} /\ phase' = phase /\ loading # None
      /\ Len(content[loading]) < count[loading]
      /\ UNCHANGED <<files, count, loading, active, sent, lastSent>>
  BY DEF LoadMbuf, MbufLeft, scanVars, sendVars
<1>3. CASE ~(count[1] > 0) BY <1>2, <1>3 DEF OrderInv
<1>4. CASE count[1] > 0
  <2>1. /\ count[0] > 0 /\ Stage
        /\ Chained(content[active], content[1 - active], lastLoaded, sent, lastSent)
    BY <1>2, <1>4 DEF OrderInv
  <2>2. CASE loading = active
    <3>1. phase = "load" /\ active = 0 /\ loading = 0 /\ sent = 0 /\ content[1] = <<>>
      <4>1. phase # "run"
        <5>1. Len(content[active]) < count[active] BY <1>2, <2>2
        <5>2. Len(content[active]) \in Nat /\ count[active] \in Nat BY PoolFacts DEF Pools
        <5>3. QED BY <2>1, <5>1, <5>2 DEF Stage
      <4>2. phase = "load" /\ active = 0 BY <1>2, <2>1, <4>1 DEF Stage
      <4>3. QED BY <2>1, <2>2, <4>2 DEF Stage
    <3>2. content'[0] = Append(content[0], q) /\ content'[1] = <<>> BY <1>1, <3>1, PoolFacts
    <3>3. Chained(content[0], <<>>, lastLoaded, 0, lastSent) BY <2>1, <3>1
    <3>4. Chained(Append(content[0], q), <<>>, q, 0, lastSent)
      BY <1>1, <3>3, PoolFacts, ChainedFirst
    <3>5. PICK z, m : z = Append(content[0], q) /\ m = lastSent OBVIOUS
    <3>6. Chained(content[active], content[1 - active], lastLoaded, sent, lastSent)'
      <4>1. Chained(z, <<>>, q, 0, m)' BY <1>2, <3>4, <3>5, ChainedKept
      <4>2. /\ content'[active'] = z /\ content'[1 - active'] = <<>>
            /\ lastLoaded' = q /\ sent' = 0 /\ lastSent' = m
        BY <1>1, <1>2, <3>1, <3>2, <3>5
      <4>3. QED BY <4>1, <4>2
    <3>7. Stage' BY <1>2, <3>1, <3>2 DEF Stage
    <3>8. QED BY <1>2, <2>1, <3>6, <3>7 DEF OrderInv
  <2>3. CASE loading # active
    <3>1. loading = 1 - active /\ Len(content[active]) = count[active] /\ Len(content[active]) > 0
      <4>1. CASE phase = "load" BY <1>2, <2>1, <2>3, <4>1 DEF Stage
      <4>2. CASE phase = "run"
        <5>1. count[active] > 0 BY <1>4, <2>1, PoolFacts
        <5>2. QED BY <1>2, <2>1, <4>2, <5>1 DEF Stage
      <4>3. QED BY <1>2, <4>1, <4>2
    <3>2. content'[1 - active] = Append(content[1 - active], q) /\ content'[active] = content[active]
      BY <1>1, <3>1, PoolFacts
    <3>3. Chained(content[active], Append(content[1 - active], q), q, sent, lastSent)
      BY <1>1, <2>1, <3>1, PoolFacts, ChainedOther
    <3>4. PICK x, z, n, m : /\ x = content[active] /\ z = Append(content[1 - active], q)
                            /\ n = sent /\ m = lastSent
      OBVIOUS
    <3>5. Chained(content[active], content[1 - active], lastLoaded, sent, lastSent)'
      <4>1. Chained(x, z, q, n, m)' BY <1>2, <3>3, <3>4, ChainedKept
      <4>2. /\ content'[active'] = x /\ content'[1 - active'] = z
            /\ lastLoaded' = q /\ sent' = n /\ lastSent' = m
        BY <1>1, <1>2, <3>2, <3>4
      <4>3. QED BY <4>1, <4>2
    <3>6. Stage' BY <1>2, <2>1, <3>1, <3>2, PoolFacts DEF Stage
    <3>7. QED BY <1>2, <2>1, <3>5, <3>6 DEF OrderInv
  <2>4. QED BY <2>2, <2>3
<1>5. QED BY <1>3, <1>4

LEMMA LoadedKeepsOrder ==
  ASSUME OrderFacts, OrderInv, SectionLoaded
  PROVE  OrderInv'
<1>1. /\ phase \in {"load", "run"} /\ phase' \in {"load", "run"} /\ loading # None
      /\ Len(content[loading]) = count[loading]
      /\ IF phase = "load" /\ loading = 0 /\ count[1] > 0
           THEN loading' = 1 /\ phase' = phase
           ELSE loading' = None /\ phase' = "run"
      /\ UNCHANGED <<files, count, content, lastLoaded, active, sent, lastSent>>
  BY DEF SectionLoaded, scanVars, sendVars
<1>2. CASE ~(count[1] > 0) BY <1>1, <1>2 DEF OrderInv
<1>3. CASE count[1] > 0
  <2>1. /\ count[0] > 0 /\ Stage
        /\ Chained(content[active], content[1 - active], lastLoaded, sent, lastSent)
    BY <1>1, <1>3 DEF OrderInv
  <2>2. Chained(content[active], content[1 - active], lastLoaded, sent, lastSent)'
    <3>1. PICK x, y, l, n, m : /\ x = content[active] /\ y = content[1 - active]
                               /\ l = lastLoaded /\ n = sent /\ m = lastSent
      OBVIOUS
    <3>2. Chained(x, y, l, n, m)' BY <1>1, <2>1, <3>1, ChainedKept
    <3>3. /\ content'[active'] = x /\ content'[1 - active'] = y
          /\ lastLoaded' = l /\ sent' = n /\ lastSent' = m
      BY <1>1, <3>1
    <3>4. QED BY <3>2, <3>3
  <2>3. Stage'
    <3>1. CASE phase = "load" /\ loading = 0 BY <1>1, <1>3, <2>1, <3>1 DEF Stage
    <3>2. CASE phase = "load" /\ loading # 0
      <4>1. /\ active = 0 /\ sent = 0 /\ loading = 1 /\ Len(content[0]) = count[0]
            /\ Len(content[1]) = count[1]
        BY <1>1, <2>1, <3>2 DEF Stage
      <4>2. loading' = None /\ phase' = "run" BY <1>1, <3>2
      <4>3. QED BY <1>1, <2>1, <4>1, <4>2 DEF Stage
    <3>3. CASE phase = "run"
      <4>1. /\ Len(content[active]) = count[active] /\ sent <= count[active]
            /\ loading = 1 - active
        BY <1>1, <2>1, <3>3 DEF Stage
      <4>2. loading' = None /\ phase' = "run" BY <1>1, <3>3
      <4>3. QED BY <1>1, <4>1, <4>2 DEF Stage
    <3>4. QED BY <1>1, <3>1, <3>2, <3>3
  <2>4. QED BY <1>1, <2>1, <2>2, <2>3 DEF OrderInv
<1>4. QED BY <1>2, <1>3

\* What is handed over follows what was handed over before.
LEMMA SendKeepsOrder ==
  ASSUME OrderFacts, OrderInv, Send
  PROVE  OrderInv' /\ (count[1] > 0 => Follows(lastSent, lastSent'))
<1>1. /\ phase = "run" /\ phase' = phase /\ sent < count[active]
      /\ lastSent' = content[active][sent + 1]
      /\ count[1] > 0 => sent' = sent + 1
      /\ UNCHANGED <<files, count, content, lastLoaded, loading, active>>
  <2>1. count[1] > 0 => count[1] # 0 BY PoolFacts
  <2>2. QED BY <2>1 DEF Send, scanVars, loadVars
<1>2. CASE ~(count[1] > 0) BY <1>1, <1>2 DEF OrderInv
<1>3. CASE count[1] > 0
  <2>1. /\ count[0] > 0 /\ Stage
        /\ Chained(content[active], content[1 - active], lastLoaded, sent, lastSent)
    BY <1>1, <1>3 DEF OrderInv
  <2>2. PICK x, y, l, n, m :
          /\ x \in Pools /\ y \in Pools /\ n \in Nat
          /\ x = content[active] /\ y = content[1 - active] /\ l = lastLoaded
          /\ n = sent /\ m = lastSent
    BY PoolFacts
  <2>3. Chained(x, y, l, n, m) BY <2>1, <2>2
  <2>4. n < Len(x) BY <1>1, <2>1, <2>2 DEF Stage
  <2>5. Follows(m, x[n + 1]) /\ Chained(x, y, l, n + 1, x[n + 1]) BY <2>2, <2>3, <2>4, ChainedSend
  <2>6. PICK k, r : k = n + 1 /\ r = x[n + 1] OBVIOUS
  <2>7. Chained(x, y, l, k, r)' BY <1>1, <2>5, <2>6, ChainedKept
  <2>8. /\ content'[active'] = x /\ content'[1 - active'] = y
        /\ lastLoaded' = l /\ sent' = k /\ lastSent' = r
    BY <1>1, <1>3, <2>2, <2>6
  <2>9. Chained(content[active], content[1 - active], lastLoaded, sent, lastSent)' BY <2>7, <2>8
  <2>10. Stage'
    <3>1. sent + 1 <= count[active]
      <4>1. sent \in Nat /\ count[active] \in Nat BY PoolFacts
      <4>2. QED BY <1>1, <4>1
    <3>2. QED BY <1>1, <1>3, <2>1, <3>1 DEF Stage
  <2>11. OrderInv' BY <1>1, <2>1, <2>9, <2>10 DEF OrderInv
  <2>12. Follows(lastSent, lastSent') BY <2>2, <2>5, <2>6, <2>8
  <2>13. QED BY <2>11, <2>12
<1>4. QED BY <1>2, <1>3

LEMMA SwitchKeepsOrder ==
  ASSUME OrderFacts, OrderInv, Switch
  PROVE  OrderInv'
<1>1. /\ phase = "run" /\ phase' = phase /\ count[1] > 0 /\ sent = count[active] /\ loading = None
      /\ active' = 1 - active /\ sent' = 0 /\ loading' = active
      /\ content' = [content EXCEPT ![active] = <<>>]
      /\ UNCHANGED <<files, count, lastLoaded, lastSent>>
  BY DEF Switch, Refill, scanVars
<1>2. /\ count[0] > 0 /\ Stage
      /\ Chained(content[active], content[1 - active], lastLoaded, sent, lastSent)
  BY <1>1 DEF OrderInv
<1>3. active \in {0, 1} /\ 1 - active \in {0, 1} /\ 1 - active # active /\ 1 - (1 - active) = active
  BY PoolFacts
<1>4. loading # 1 - active BY <1>1, <1>3 DEF None
<1>5. /\ Len(content[active]) = count[active] /\ count[active] > 0
      /\ Len(content[1 - active]) = count[1 - active] /\ count[1 - active] > 0
  <2>1. /\ Len(content[active]) = count[active]
        /\ Len(content[1 - active]) = count[1 - active]
    BY <1>1, <1>2, <1>4 DEF Stage
  <2>2. \A s \in {0, 1} : count[s] > 0 BY <1>1, <1>2
  <2>3. QED BY <1>3, <2>1, <2>2
<1>6. PICK x, y, l, m :
        /\ x \in Pools /\ y \in Pools
        /\ x = content[active] /\ y = content[1 - active] /\ l = lastLoaded /\ m = lastSent
  BY PoolFacts
<1>7. Chained(y, <<>>, l, 0, m)
  <2>1. Chained(x, y, l, Len(x), m) BY <1>1, <1>2, <1>5, <1>6
  <2>2. QED BY <1>5, <1>6, <2>1, ChainedSwitch
<1>8. Chained(y, <<>>, l, 0, m)' BY <1>1, <1>7, ChainedKept
<1>9. /\ content'[active'] = y /\ content'[1 - active'] = <<>>
      /\ lastLoaded' = l /\ sent' = 0 /\ lastSent' = m
  BY <1>1, <1>3, <1>6, PoolFacts
<1>10. Chained(content[active], content[1 - active], lastLoaded, sent, lastSent)' BY <1>8, <1>9
<1>11. Stage'
  <2>1. Len(content'[active']) = count'[active'] BY <1>1, <1>5, <1>6, <1>9
  <2>2. sent' <= count'[active'] BY <1>1, <1>5
  <2>3. loading' = 1 - active' BY <1>1, <1>3
  <2>4. phase' = "run" BY <1>1
  <2>5. QED BY <2>1, <2>2, <2>3, <2>4 DEF Stage
<1>12. QED BY <1>1, <1>2, <1>10, <1>11 DEF OrderInv

LEMMA OrderNext ==
  ASSUME OrderFacts, OrderInv, [Next]_vars
  PROVE  OrderInv'
<1>1. CASE Size BY <1>1, SizeKeepsOrder
<1>2. CASE LoadMbuf BY <1>2, LoadKeepsOrder
<1>3. CASE SectionLoaded BY <1>3, LoadedKeepsOrder
<1>4. CASE Send BY <1>4, SendKeepsOrder
<1>5. CASE Switch BY <1>5, SwitchKeepsOrder
<1>6. CASE phase' = "exit" BY <1>6 DEF OrderInv
<1>7. CASE /\ phase \in {"prepare", "scan"} /\ phase' \in {"scan", "size"}
           /\ UNCHANGED <<active, sent, lastSent, lastLoaded>>
  BY <1>7 DEF OrderInv
<1>8. CASE UNCHANGED <<phase, files, count, content, loading, lastLoaded, active, sent, lastSent>>
  <2>1. PICK x, y, l, n, m : /\ x = content[active] /\ y = content[1 - active]
                             /\ l = lastLoaded /\ n = sent /\ m = lastSent
    OBVIOUS
  <2>2. Chained(x, y, l, n, m) => Chained(x, y, l, n, m)' BY <1>8, ChainedKept
  <2>3. /\ content'[active'] = x /\ content'[1 - active'] = y
        /\ lastLoaded' = l /\ sent' = n /\ lastSent' = m
    BY <1>8, <2>1
  <2>4. Chained(content[active], content[1 - active], lastLoaded, sent, lastSent)
        => Chained(content[active], content[1 - active], lastLoaded, sent, lastSent)'
    BY <2>1, <2>2, <2>3
  <2>5. Stage => Stage' BY <1>8 DEF Stage
  <2>6. QED BY <1>8, <2>4, <2>5 DEF OrderInv
<1>9. QED
  <2>1. CASE Prepare \/ ScanFile \/ ScanDone
    BY <1>7, <2>1 DEF Prepare, ScanFile, ScanDone, loadVars, sendVars
  <2>2. CASE RefuseSource \/ RefuseFile \/ RefuseEmpty \/ RefuseSize \/ RefusePayload
    BY <1>6, <2>2 DEF RefuseSource, RefuseFile, RefuseEmpty, RefuseSize, RefusePayload, Exit
  <2>3. CASE NextFile \/ UNCHANGED vars
    BY <1>8, <2>3 DEF NextFile, vars, scanVars, loadVars, sendVars
  <2>4. QED BY <1>1, <1>2, <1>3, <1>4, <1>5, <2>1, <2>2, <2>3 DEF Next, StartUp, Load

\* A capture that needs two sections leaves pktgen_send_pkts in its own order, from its
\* first packet on and round and round, whatever the files, the sizes of the sections and
\* the pace of the loader.
THEOREM SentInOrder == Spec => TwoSectionsInOrder
<1> DEFINE Inv == /\ GivenInv /\ ScanInv /\ CursorInv /\ CountedInv
                  /\ SizesInv /\ ControlInv /\ PoolsInv /\ OrderInv
<1>1. Init => Inv
  BY GivenInit, ScanInit, CursorInit, CountedInit, SizesInit, ControlInit, PoolsInit, OrderInit
<1>2. Inv => OrderFacts BY DEF OrderFacts, SizesInv
<1>3. Inv /\ [Next]_vars => Inv'
  <2> SUFFICES ASSUME Inv, [Next]_vars PROVE Inv' OBVIOUS
  <2>1. GivenInv' /\ CursorInv' BY GivenNext, CursorNext
  <2>2. ScanInv' BY ScanNext DEF CursorInv
  <2>3. CountedInv' /\ ControlInv' /\ SizesInv' BY CountedNext, ControlNext, SizesNext
  <2>4. PoolsInv' BY <2>3, PoolsNext
  <2>5. OrderInv' BY <1>2, OrderNext
  <2>6. QED BY <2>1, <2>2, <2>3, <2>4, <2>5
<1>4. Inv /\ [Next]_vars => [Send /\ count[1] > 0 => Follows(lastSent, lastSent')]_vars
  BY <1>2, SendKeepsOrder
<1>5. QED BY <1>1, <1>3, <1>4, PTL DEF Spec, TwoSectionsInOrder

-----------------------------------------------------------------------------
(* One section: it holds the whole capture, unless rounding to the unit     *)
(* left it smaller.                                                         *)

\* pre counts the records of the files up to one: the scan's pkt_count, file by file.
Sums(pre) ==
  /\ pre[0] = 0 /\ pktCount = pre[scanned]
  /\ \A i \in 1 .. scanned : pre[i] = pre[i - 1] + files[i].n
  /\ \A i, j \in 0 .. scanned : i <= j => pre[i] <= pre[j]

Holds(p) == p \in Range(content[0])
Whole == \A p \in Capture : Holds(p)

\* The loader stands before p.
Ahead(p) == p[1] > fileIndex \/ (p[1] = fileIndex /\ p[2] > rec)

\* On its first round the loader has put all it has passed into the section.
FirstRound(pre) ==
  /\ Len(content[0]) = pre[fileIndex - 1] + rec
  /\ \A p \in Capture : Ahead(p) \/ Holds(p)

\* The one section is loaded once, by start-up.
OneFill(pre) ==
  /\ phase = "size" => fileIndex = 1 /\ rec = 0
  /\ phase = "load" /\ count[1] = 0 => loading = 0 /\ (Whole \/ FirstRound(pre))
  /\ phase = "run" /\ count[1] = 0 => loading = None /\ (pktCount <= count[0] => Whole)

WholeInv == \E pre \in [Nat -> Nat] : Sums(pre) /\ OneFill(pre)

LEMMA SumsScan ==
  ASSUME GivenInv, ScanInv, ScanFile, NEW pre \in [Nat -> Nat], Sums(pre)
  PROVE  \E next \in [Nat -> Nat] : Sums(next)'
<1>1. /\ scanned < Len(files) /\ scanned' = scanned + 1 /\ files' = files
      /\ pktCount' = pktCount + files[scanned + 1].n
  BY DEF ScanFile
<1>2. /\ scanned \in Nat /\ scanned + 1 \in Nat /\ files[scanned + 1].n \in Nat
      /\ 0 \in 0 .. scanned /\ scanned \in 0 .. scanned
  <2>1. scanned \in Nat /\ scanned + 1 <= Len(files) /\ Len(files) \in Nat
    <3>1. scanned \in Nat /\ Len(files) \in Nat BY DEF GivenInv
    <3>2. QED BY <1>1, <3>1
  <2>2. scanned + 1 \in 1 .. Len(files) BY <2>1
  <2>3. files[scanned + 1].n \in Nat BY <2>2 DEF GivenInv
  <2>4. QED BY <2>1, <2>3
<1> PICK next \in [Nat -> Nat] :
        next = [pre EXCEPT ![scanned + 1] = pre[scanned] + files[scanned + 1].n]
  <2>1. pre[scanned] + files[scanned + 1].n \in Nat BY <1>2
  <2>2. QED BY <2>1
<1>3. /\ next[scanned + 1] = pre[scanned] + files[scanned + 1].n
      /\ \A i \in 0 .. scanned : next[i] = pre[i] /\ pre[i] \in Nat
  <2>1. next[scanned + 1] = pre[scanned] + files[scanned + 1].n BY <1>2
  <2>2. ASSUME NEW i \in 0 .. scanned PROVE next[i] = pre[i] /\ pre[i] \in Nat
    <3>1. i \in Nat /\ i # scanned + 1 BY <1>2
    <3>2. QED BY <3>1
  <2>3. QED BY <2>1, <2>2
<1>4. next[0] = 0 /\ pktCount' = next[scanned + 1]
  <2>1. next[0] = pre[0] BY <1>2, <1>3
  <2>2. QED BY <1>1, <1>3, <2>1 DEF Sums
<1>5. ASSUME NEW i \in 1 .. scanned + 1 PROVE next[i] = next[i - 1] + files[i].n
  <2>1. CASE i = scanned + 1
    <3>1. i - 1 = scanned /\ scanned \in 0 .. scanned BY <1>2, <2>1
    <3>2. QED BY <1>3, <2>1, <3>1
  <2>2. CASE i # scanned + 1
    <3>1. i \in 1 .. scanned /\ i \in 0 .. scanned /\ i - 1 \in 0 .. scanned BY <1>2, <2>2
    <3>2. QED BY <1>3, <3>1 DEF Sums
  <2>3. QED BY <2>1, <2>2
<1>6. ASSUME NEW i \in 0 .. scanned + 1, NEW j \in 0 .. scanned + 1, i <= j
      PROVE  next[i] <= next[j]
  <2>1. CASE j # scanned + 1
    <3>1. i \in 0 .. scanned /\ j \in 0 .. scanned BY <1>2, <1>6, <2>1
    <3>2. QED BY <1>3, <1>6, <3>1 DEF Sums
  <2>2. CASE j = scanned + 1 /\ i # scanned + 1
    <3>1. i \in 0 .. scanned /\ scanned \in 0 .. scanned /\ i <= scanned BY <1>2, <2>2
    <3>2. pre[i] <= pre[scanned] /\ pre[i] \in Nat /\ pre[scanned] \in Nat
      BY <1>3, <3>1 DEF Sums
    <3>3. QED BY <1>2, <1>3, <2>2, <3>1, <3>2
  <2>3. CASE i = scanned + 1 /\ j = scanned + 1
    <3>1. scanned \in 0 .. scanned /\ pre[scanned] + files[scanned + 1].n \in Nat BY <1>2, <1>3
    <3>2. QED BY <1>3, <2>3, <3>1
  <2>4. QED BY <2>1, <2>2, <2>3
<1>7. Sums(next)' BY <1>1, <1>4, <1>5, <1>6 DEF Sums
<1>8. QED BY <1>7

LEMMA CaptureIs ==
  ASSUME NEW p \in Capture
  PROVE  /\ p = <<p[1], p[2]>> /\ p[1] \in 1 .. Len(files)
         /\ p[2] \in 1 .. pktCount /\ p[2] <= files[p[1]].n
<1>1. p \in (1 .. Len(files)) \X (1 .. pktCount) /\ p[2] <= files[p[1]].n BY DEF Capture
<1>2. QED BY <1>1

\* A record k of file f the loader at record r of file g has not passed: it has loaded
\* fewer than the n files hold.
LEMMA Behind ==
  ASSUME NEW n \in Nat, NEW N \in [1 .. n -> Nat], NEW pre \in [Nat -> Nat],
         \A i \in 1 .. n : pre[i] = pre[i - 1] + N[i],
         \A i, j \in 0 .. n : i <= j => pre[i] <= pre[j],
         NEW f \in 1 .. n, NEW k \in 1 .. N[f], NEW g \in 1 .. n, NEW r \in 0 .. N[g],
         f > g \/ (f = g /\ k > r)
  PROVE  pre[g - 1] + r < pre[n]
<1>1. /\ f \in 0 .. n /\ f - 1 \in 0 .. n /\ g \in 0 .. n /\ g - 1 \in 0 .. n /\ n \in 0 .. n
      /\ f <= n /\ (f > g => g <= f - 1)
  OBVIOUS
<1>2. PICK a \in Nat, b \in Nat, c \in Nat, d \in Nat, e \in Nat, x \in Nat, y \in Nat :
        /\ a = pre[f - 1] /\ b = pre[f] /\ c = pre[g - 1] /\ d = pre[g] /\ e = pre[n]
        /\ x = N[f] /\ y = N[g]
  <2>1. f \in Nat /\ f - 1 \in Nat /\ g \in Nat /\ g - 1 \in Nat OBVIOUS
  <2>2. /\ pre[f - 1] \in Nat /\ pre[f] \in Nat /\ pre[g - 1] \in Nat /\ pre[g] \in Nat
        /\ pre[n] \in Nat
    BY <2>1
  <2>3. N[f] \in Nat /\ N[g] \in Nat OBVIOUS
  <2>4. QED BY <2>2, <2>3
<1>3. b = a + x /\ d = c + y BY <1>2
<1>4. b <= e BY <1>1, <1>2
<1>5. k \in 1 .. x /\ r \in 0 .. y BY <1>2
<1>6. CASE f = g /\ k > r
  <2>1. x = y /\ a = c BY <1>2, <1>6
  <2>2. c + r < e BY <1>3, <1>4, <1>5, <1>6, <2>1
  <2>3. QED BY <1>2, <2>2
<1>7. CASE f > g
  <2>1. d <= a BY <1>1, <1>2, <1>7
  <2>2. c + r < e BY <1>3, <1>4, <1>5, <2>1
  <2>3. QED BY <1>2, <2>2
<1>8. QED BY <1>6, <1>7

\* A section that holds as many packets as the capture has, or whose loader is at the end
\* of the last file, holds the capture.
LEMMA FullIsWhole ==
  ASSUME GivenInv, CursorInv, scanned = Len(files), phase = "load",
         NEW pre \in [Nat -> Nat], Sums(pre), FirstRound(pre),
         pktCount <= Len(content[0]) \/ (fileIndex = Len(files) /\ rec = files[fileIndex].n)
  PROVE  Whole
<1>0. PICK n \in Nat : n = Len(files) BY DEF GivenInv
<1>1. PICK N \in [1 .. n -> Nat] : n = Len(files) /\ \A i \in 1 .. n : N[i] = files[i].n
  <2> DEFINE nOf == [i \in 1 .. n |-> files[i].n]
  <2>1. \A i \in 1 .. n : files[i].n \in Nat BY <1>0 DEF GivenInv
  <2>2. nOf \in [1 .. n -> Nat] BY <2>1
  <2>3. \A i \in 1 .. n : nOf[i] = files[i].n OBVIOUS
  <2> HIDE DEF nOf
  <2>4. QED BY <1>0, <2>2, <2>3
<1>2. fileIndex \in 1 .. n /\ rec \in 0 .. N[fileIndex]
  <2>1. fileIndex \in 1 .. Len(files) /\ rec \in 0 .. files[fileIndex].n BY DEF CursorInv
  <2>2. QED BY <1>1, <2>1
<1>3. /\ \A i \in 1 .. n : pre[i] = pre[i - 1] + N[i]
      /\ \A i, j \in 0 .. n : i <= j => pre[i] <= pre[j]
      /\ pktCount = pre[n] /\ Len(content[0]) = pre[fileIndex - 1] + rec
  BY <1>1 DEF Sums, FirstRound
<1>4. pktCount <= pre[fileIndex - 1] + rec \/ (fileIndex = n /\ rec = N[n]) BY <1>1, <1>2, <1>3
<1>5. ASSUME NEW p \in Capture, Ahead(p) PROVE FALSE
  <2>1. PICK f \in 1 .. n : \E k \in 1 .. N[f] : p = <<f, k>>
    <3>1. /\ p = <<p[1], p[2]>> /\ p[1] \in 1 .. n /\ p[2] \in 1 .. pktCount
          /\ p[2] <= N[p[1]]
      BY <1>1, CaptureIs
    <3>2. pktCount \in Nat /\ N[p[1]] \in Nat BY <3>1 DEF GivenInv
    <3>3. p[2] \in 1 .. N[p[1]] BY <3>1, <3>2
    <3>4. QED BY <3>1, <3>3
  <2> PICK k \in 1 .. N[f] : p = <<f, k>> BY <2>1
  <2>2. f > fileIndex \/ (f = fileIndex /\ k > rec) BY <1>5 DEF Ahead
  <2>3. pre[fileIndex - 1] + rec < pre[n] BY <1>2, <1>3, <2>2, Behind
  <2>4. CASE fileIndex = n /\ rec = N[n]
    <3>1. f <= n /\ k <= N[f] /\ f \in Nat /\ k \in Nat /\ N[f] \in Nat OBVIOUS
    <3>2. QED BY <2>2, <2>4, <3>1
  <2>5. CASE pktCount <= pre[fileIndex - 1] + rec
    <3>1. fileIndex - 1 \in Nat /\ rec \in Nat
      <4>1. PICK most \in Nat : most = N[fileIndex] BY <1>2
      <4>2. rec \in 0 .. most BY <1>2, <4>1
      <4>3. PICK g \in 1 .. n : g = fileIndex BY <1>2
      <4>4. rec \in Nat BY SMTT(30), <4>2
      <4>5. g - 1 \in Nat BY SMTT(30)
      <4>6. QED BY <4>3, <4>4, <4>5
    <3>2. PICK before \in Nat, r \in Nat, all \in Nat :
            before = pre[fileIndex - 1] /\ r = rec /\ all = pre[n]
      <4>1. pre[fileIndex - 1] \in Nat /\ pre[n] \in Nat BY <3>1
      <4>2. QED BY <3>1, <4>1
    <3>3. before + r < all BY <2>3, <3>2
    <3>4. all <= before + r BY <1>3, <2>5, <3>2
    <3>5. QED BY <3>3, <3>4
  <2>6. QED BY <1>4, <2>4, <2>5
<1>6. QED BY <1>5 DEF FirstRound, Whole

\* The records put into the section stay there.
LEMMA HeldOn ==
  ASSUME NEW s \in Seq(Nat \X Nat), NEW q, NEW p, p \in Range(s) \/ p = q
  PROVE  p \in Range(Append(s, q))
<1> DEFINE t == Append(s, q)
<1>1. /\ Len(s) \in Nat /\ DOMAIN s = 1 .. Len(s) /\ DOMAIN t = 1 .. Len(s) + 1
      /\ t[Len(s) + 1] = q /\ \A i \in 1 .. Len(s) : t[i] = s[i]
  OBVIOUS
<1> HIDE DEF t
<1>2. CASE p = q
  <2>1. Len(s) + 1 \in DOMAIN t BY <1>1
  <2>2. QED BY <1>1, <1>2, <2>1 DEF Range, t
<1>3. CASE p \in Range(s)
  <2>1. PICK i \in 1 .. Len(s) : p = s[i] BY <1>1, <1>3 DEF Range
  <2>2. i \in DOMAIN t /\ t[i] = p BY <1>1, <2>1
  <2>3. QED BY <2>2 DEF Range, t
<1>4. QED BY <1>2, <1>3

LEMMA FillLoad ==
  ASSUME OrderFacts, LoadMbuf, NEW pre \in [Nat -> Nat], Sums(pre), OneFill(pre)
  PROVE  OneFill(pre)'
<1>1. /\ phase' = phase /\ loading # None /\ rec' = rec + 1
      /\ content' = [content EXCEPT ![loading] = Append(@, <<fileIndex, rec + 1>>)]
      /\ UNCHANGED <<files, pktCount, count, fileIndex, loading>>
      /\ phase \in {"load", "run"}
  BY DEF LoadMbuf, MbufLeft, scanVars
<1>2. SUFFICES ASSUME phase = "load", count[1] = 0
               PROVE  (Whole \/ FirstRound(pre))'
  BY <1>1 DEF OneFill
<1>3. loading = 0 BY <1>1, <1>2 DEF OneFill
<1>4. content[0] \in Seq(Nat \X Nat) /\ Len(content[0]) \in Nat /\ DOMAIN content = {0, 1}
  BY PoolFacts DEF Pools
<1>5. content'[0] = Append(content[0], <<fileIndex, rec + 1>>)
      /\ Len(content'[0]) = Len(content[0]) + 1
  <2>1. content'[0] = Append(content[0], <<fileIndex, rec + 1>>) BY <1>1, <1>3, <1>4
  <2>2. QED BY <1>4, <2>1
<1>6. Capture' = Capture BY <1>1 DEF Capture
<1>7. \A p : Holds(p) \/ p = <<fileIndex, rec + 1>> => Holds(p)'
  BY <1>4, <1>5, HeldOn DEF Holds
<1>8. CASE Whole BY <1>6, <1>7, <1>8 DEF Whole
<1>9. CASE FirstRound(pre)
  <2>1. fileIndex \in Nat \ {0} /\ rec \in Nat /\ pre[fileIndex - 1] \in Nat
    BY DEF OrderFacts, ControlInv
  <2>2. ASSUME NEW p \in Capture, Ahead(p) PROVE Ahead(p)' \/ p = <<fileIndex, rec + 1>>
    <3>1. p = <<p[1], p[2]>> /\ p[1] \in Int /\ p[2] \in Int BY CaptureIs
    <3>2. p[1] > fileIndex \/ (p[1] = fileIndex /\ p[2] > rec) BY <2>2 DEF Ahead
    <3>3. CASE p[1] = fileIndex /\ p[2] = rec + 1 BY <3>1, <3>3
    <3>4. CASE p[1] > fileIndex \/ p[2] # rec + 1
      BY <1>1, <2>1, <3>1, <3>2, <3>4 DEF Ahead
    <3>5. QED BY <3>2, <3>3, <3>4
  <2>3. Len(content'[0]) = pre[fileIndex - 1] + rec + 1 BY <1>4, <1>5, <1>9, <2>1 DEF FirstRound
  <2>4. Len(content'[0]) = pre[fileIndex' - 1] + rec'
    <3>1. rec' = rec + 1 /\ fileIndex' = fileIndex BY <1>1
    <3>2. pre[fileIndex - 1] + rec + 1 = pre[fileIndex - 1] + (rec + 1) BY <2>1
    <3>3. QED BY <2>3, <3>1, <3>2
  <2>5. \A p \in Capture' : Ahead(p)' \/ Holds(p)'
    BY <1>6, <1>7, <1>9, <2>2 DEF FirstRound
  <2>6. QED BY <2>4, <2>5 DEF FirstRound
<1>10. QED BY <1>2, <1>8, <1>9, <1>1 DEF OneFill

LEMMA FillFile ==
  ASSUME OrderFacts, NextFile, NEW pre \in [Nat -> Nat], Sums(pre), OneFill(pre)
  PROVE  OneFill(pre)'
<1>1. /\ phase' = phase /\ rec = files[fileIndex].n /\ rec' = 0 /\ fileIndex' = FollowingFile
      /\ UNCHANGED <<files, pktCount, count, content, loading>> /\ phase \in {"load", "run"}
  BY DEF NextFile, scanVars
<1>2. /\ fileIndex \in 1 .. Len(files) /\ Len(files) \in Nat /\ rec \in Nat
      /\ scanned = Len(files) /\ \A i \in 1 .. Len(files) : files[i].n \in Nat
  BY <1>1 DEF OrderFacts, CursorInv, CountedInv, GivenInv
<1>3. Capture' = Capture /\ (Whole => Whole') BY <1>1 DEF Capture, Whole, Holds
<1>4. SUFFICES ASSUME phase = "load", count[1] = 0, FirstRound(pre)
               PROVE  (Whole \/ FirstRound(pre))'
  BY <1>1, <1>3 DEF OneFill
<1>5. CASE fileIndex = Len(files)
  <2>1. Whole BY <1>1, <1>2, <1>4, <1>5, FullIsWhole DEF OrderFacts
  <2>2. QED BY <1>3, <2>1
<1>6. CASE fileIndex # Len(files)
  <2>1. fileIndex' = fileIndex + 1 BY <1>1, <1>6 DEF FollowingFile
  <2>2. pre[fileIndex] = pre[fileIndex - 1] + rec BY <1>1, <1>2 DEF Sums
  <2>3. ASSUME NEW p \in Capture, Ahead(p) PROVE Ahead(p)'
    <3>1. PICK f \in 1 .. Len(files), k \in 1 .. pktCount : p = <<f, k>> /\ k <= files[f].n
      BY CaptureIs
    <3>2. f > fileIndex \/ (f = fileIndex /\ k > files[f].n) BY <1>1, <2>3, <3>1 DEF Ahead
    <3>3. PICK n \in Nat : n = files[f].n BY <1>2
    <3>4. pktCount \in Nat BY DEF OrderFacts, GivenInv
    <3>5. f > fileIndex /\ k > 0
      <4>1. k \in Int /\ k > 0 BY <3>4
      <4>2. k <= n /\ (f > fileIndex \/ k > n) BY <3>1, <3>2, <3>3
      <4>3. QED BY <4>1, <4>2
    <3>6. f > fileIndex + 1 \/ f = fileIndex + 1 BY <1>2, <3>5
    <3>7. QED BY <1>1, <2>1, <3>1, <3>5, <3>6 DEF Ahead
  <2>4. fileIndex' - 1 = fileIndex BY <1>2, <2>1
  <2>5. Len(content[0]) = pre[fileIndex] + 0 BY <1>2, <1>4, <2>2 DEF FirstRound
  <2>6. QED BY <1>1, <1>3, <1>4, <2>3, <2>4, <2>5 DEF FirstRound, Holds
<1>7. QED BY <1>5, <1>6

LEMMA FillLoaded ==
  ASSUME OrderFacts, SectionLoaded, NEW pre \in [Nat -> Nat], Sums(pre), OneFill(pre)
  PROVE  OneFill(pre)'
<1>1. /\ phase \in {"load", "run"} /\ loading # None /\ Len(content[loading]) = count[loading]
      /\ IF phase = "load" /\ loading = 0 /\ count[1] > 0
           THEN loading' = 1 /\ phase' = phase
           ELSE loading' = None /\ phase' = "run"
      /\ UNCHANGED <<files, pktCount, count, content>>
  BY DEF SectionLoaded, scanVars
<1>2. SUFFICES ASSUME count[1] = 0, pktCount <= count[0] PROVE Whole
  <2>1. Whole => Whole' BY <1>1 DEF Whole, Capture, Holds
  <2>2. count[1] = 0 => loading' = None /\ phase' = "run"
    <3>1. count[1] = 0 => ~(count[1] > 0) OBVIOUS
    <3>2. QED BY <1>1, <3>1
  <2>3. CASE count[1] # 0 BY <1>1, <2>3 DEF OneFill
  <2>4. CASE count[1] = 0
    <3>1. pktCount' <= count'[0] => Whole' BY <1>1, <1>2, <2>1, <2>4
    <3>2. QED BY <1>1, <2>2, <2>4, <3>1 DEF OneFill
  <2>5. QED BY <2>3, <2>4
<1>3. phase = "load" /\ loading = 0 BY <1>1, <1>2 DEF OneFill
<1>4. pktCount <= Len(content[0]) BY <1>1, <1>2, <1>3
<1>5. scanned = Len(files) BY <1>3 DEF OrderFacts, CountedInv
<1>6. CASE FirstRound(pre) BY <1>3, <1>4, <1>5, <1>6, FullIsWhole DEF OrderFacts
<1>7. QED BY <1>2, <1>3, <1>6 DEF OneFill

\* The one section begins empty, before the first record of the first file.
LEMMA FillSize ==
  ASSUME OrderFacts, Size, NEW pre \in [Nat -> Nat], Sums(pre), OneFill(pre)
  PROVE  OneFill(pre)'
<1>1. /\ phase = "size" /\ phase' = "load" /\ loading' = 0
      /\ UNCHANGED <<files, pktCount, fileIndex, rec, content>>
  BY DEF Size, scanVars
<1>2. fileIndex = 1 /\ rec = 0 /\ content[0] = <<>> BY <1>1 DEF OneFill, OrderFacts, PoolsInv
<1>3. pre[fileIndex' - 1] + rec' = 0 BY <1>1, <1>2 DEF Sums
<1>4. ASSUME NEW p \in Capture' PROVE Ahead(p)'
  <2>1. p \in Capture BY <1>1 DEF Capture
  <2>2. p[1] \in Int /\ p[1] >= 1 /\ p[2] \in Int /\ p[2] >= 1 BY <2>1, CaptureIs
  <2>3. fileIndex' = 1 /\ rec' = 0 BY <1>1, <1>2
  <2>4. p[1] > 1 \/ (p[1] = 1 /\ p[2] > 0) BY <2>2
  <2>5. QED BY <2>3, <2>4 DEF Ahead
<1>5. FirstRound(pre)' BY <1>1, <1>2, <1>3, <1>4 DEF FirstRound
<1>6. QED BY <1>1, <1>5 DEF OneFill

LEMMA WholeInit == Init => WholeInv
<1> SUFFICES ASSUME Init PROVE WholeInv OBVIOUS
<1> DEFINE zero == [i \in Nat |-> 0]
<1>1. zero \in [Nat -> Nat] OBVIOUS
<1>2. Sums(zero)
  <2>1. scanned = 0 /\ pktCount = 0 BY DEF Init
  <2>2. \A i \in 1 .. scanned : FALSE BY <2>1
  <2>3. \A i, j \in 0 .. scanned : i = 0 /\ j = 0 BY <2>1
  <2>4. zero[0] = 0 OBVIOUS
  <2> HIDE DEF zero
  <2>5. QED BY <2>1, <2>2, <2>3, <2>4 DEF Sums
<1>3. OneFill(zero) BY DEF Init, OneFill
<1>4. QED BY <1>1, <1>2, <1>3 DEF WholeInv

LEMMA WholeNext ==
  ASSUME OrderFacts, ScanInv, WholeInv, [Next]_vars
  PROVE  WholeInv'
<1>1. PICK pre \in [Nat -> Nat] : Sums(pre) /\ OneFill(pre) BY DEF WholeInv
<1>2. CASE ScanFile
  <2>1. PICK next \in [Nat -> Nat] : Sums(next)' BY <1>1, <1>2, SumsScan DEF OrderFacts
  <2>2. OneFill(next)' BY <1>2 DEF ScanFile, OneFill
  <2>3. QED BY <2>1, <2>2 DEF WholeInv
<1>3. CASE Prepare
  <2>1. scanned' = 0 /\ pktCount' = 0 /\ phase' = "scan"
    BY <1>3 DEF Prepare, OrderFacts, CursorInv
  <2> DEFINE zero == [i \in Nat |-> 0]
  <2>2. zero \in [Nat -> Nat] /\ zero[0] = 0 OBVIOUS
  <2> HIDE DEF zero
  <2>3. Sums(zero)' BY <2>1, <2>2 DEF Sums
  <2>4. OneFill(zero)' BY <2>1 DEF OneFill
  <2>5. QED BY <2>2, <2>3, <2>4 DEF WholeInv
<1>4. ASSUME UNCHANGED scanVars, OneFill(pre)' PROVE WholeInv'
  <2>1. Sums(pre)' BY <1>1, <1>4 DEF Sums, scanVars
  <2>2. QED BY <1>4, <2>1 DEF WholeInv
<1>5. CASE ScanDone
  <2>1. OneFill(pre)' BY <1>5 DEF ScanDone, OneFill
  <2>2. QED BY <1>4, <1>5, <2>1 DEF ScanDone
<1>6. CASE Size
  <2>1. QED BY <1>1, <1>4, <1>6, FillSize DEF Size
<1>7. CASE LoadMbuf
  <2>1. QED BY <1>1, <1>4, <1>7, FillLoad DEF LoadMbuf
<1>8. CASE NextFile
  <2>1. QED BY <1>1, <1>4, <1>8, FillFile DEF NextFile
<1>9. CASE SectionLoaded
  <2>1. QED BY <1>1, <1>4, <1>9, FillLoaded DEF SectionLoaded
<1>10. CASE phase' = "exit" /\ UNCHANGED scanVars
  <2>1. OneFill(pre)' BY <1>10 DEF OneFill
  <2>2. QED BY <1>4, <1>10, <2>1
<1>11. CASE Switch
  <2>1. phase' = "run" /\ count'[1] > 0 /\ UNCHANGED scanVars BY <1>11 DEF Switch
  <2>2. OneFill(pre)'
    <3>1. count'[1] # 0 BY <2>1
    <3>2. QED BY <2>1, <3>1 DEF OneFill
  <2>3. QED BY <1>4, <2>1, <2>2
<1>12. CASE UNCHANGED <<phase, scanVars, count, loadVars>>
  <2>1. OneFill(pre)'
    BY <1>1, <1>12 DEF OneFill, FirstRound, Whole, Holds, Ahead, Capture, scanVars, loadVars
  <2>2. QED BY <1>4, <1>12, <2>1
<1>13. CASE RefuseSource \/ RefuseFile \/ RefuseEmpty \/ RefuseSize \/ RefusePayload
  BY <1>10, <1>13 DEF RefuseSource, RefuseFile, RefuseEmpty, RefuseSize, RefusePayload, Exit
<1>14. CASE Send \/ UNCHANGED vars BY <1>12, <1>14 DEF Send, vars
<1>15. QED
  BY <1>2, <1>3, <1>5, <1>6, <1>7, <1>8, <1>9, <1>11, <1>13, <1>14 DEF Next, StartUp, Load

\* "If packets fit into hugepages, allocate all packets in one section": a capture that is
\* given one section is in it from the first packet to the last, for every list of files
\* and every size, if the section has a place for each.  What AllInOneSection finds
\* missing, the rounding to the unit took away, and nothing else.
THEOREM WholeCaptureInOneSection == Spec => [](pktCount <= count[0] => AllInOneSection)
<1> DEFINE Inv == /\ GivenInv /\ ScanInv /\ CursorInv /\ CountedInv
                  /\ SizesInv /\ ControlInv /\ PoolsInv /\ WholeInv
<1>1. Init => Inv
  BY GivenInit, ScanInit, CursorInit, CountedInit, SizesInit, ControlInit, PoolsInit, WholeInit
<1>2. Inv => OrderFacts BY DEF OrderFacts, SizesInv
<1>3. Inv /\ [Next]_vars => Inv'
  <2> SUFFICES ASSUME Inv, [Next]_vars PROVE Inv' OBVIOUS
  <2>1. GivenInv' /\ CursorInv' BY GivenNext, CursorNext
  <2>2. ScanInv' BY ScanNext DEF CursorInv
  <2>3. CountedInv' /\ ControlInv' /\ SizesInv' BY CountedNext, ControlNext, SizesNext
  <2>4. PoolsInv' BY <2>3, PoolsNext
  <2>5. WholeInv' BY <1>2, WholeNext
  <2>6. QED BY <2>1, <2>2, <2>3, <2>4, <2>5
<1>4. Inv => (pktCount <= count[0] => AllInOneSection)
  BY DEF WholeInv, OneFill, Whole, Holds, AllInOneSection
<1>5. QED BY <1>1, <1>3, <1>4, PTL DEF Spec
=============================================================================
