----------------------------- MODULE PcapSource -----------------------------
(***************************************************************************)
(* From a capture on disk to the sections: the list of source files, the   *)
(* scan that counts their packets, the split of the hugepages into one or  *)
(* two sections, loading the sections record by record across the files,   *)
(* and the order in which the packets then go out.  The threads' handshake *)
(* over the sections is in PcapReplay; here a section is loaded while the  *)
(* other one is sent, and a switch waits for the loader.                   *)
(***************************************************************************)
EXTENDS Integers, Sequences, SequencesExt, FiniteSets

CONSTANTS
  Sources,   \* what -s may name: [kind, entries], see SourceOK
  Totals,    \* hugepage bytes in /proc/meminfo; 0 when it cannot be read
  Used,      \* pktgen.total_mem_used
  Page,      \* PCAP_BASELINE_HUGEPAGE_SIZE_KB in bytes
  PerPkt,    \* bytes of one mbuf with its data room
  Multiple,  \* PCAP_SECTION_PKT_MULTIPLE
  MinPool    \* DEFAULT_TX_DESC * 4

\* A directory entry: name gives its place in strcmp order, n its records, cut
\* whether the file ends inside the payload of its last record.
EntryOK(e) ==
  /\ e.name \in Nat /\ e.n \in Nat
  /\ e.suffix \in BOOLEAN /\ e.cut \in BOOLEAN
  /\ e.magic \in {"native", "swapped", "pcapng", "unknown"}

SourceOK(s) ==
  /\ s.kind \in {"file", "directory", "other"}
  /\ IsFiniteSet(s.entries) /\ \A e \in s.entries : EntryOK(e)
  /\ \A e, f \in s.entries : e.name = f.name => e = f
  /\ s.kind = "file" => Cardinality(s.entries) = 1

ASSUME SourceAssumption == \A s \in Sources : SourceOK(s)

ASSUME SizeAssumption ==
  /\ Totals \subseteq Nat /\ Used \subseteq Nat
  /\ Page \in Nat \ {0} /\ PerPkt \in Nat \ {0}
  /\ Multiple \in Nat \ {0} /\ MinPool \in Nat

VARIABLES
  phase,       \* how far start-up has got
  source,      \* the source given
  memory,      \* [total, used]: the memory found
  files,       \* source_files, in order
  scanned,     \* files pcap_get_info has read
  pktCount,    \* pcap->pkt_count: the packets of the capture
  count,       \* sections[].pkt_count
  fileIndex,   \* source_file_index, from 1
  rec,         \* records read of that file
  content,     \* the packets in each section's pool
  loading,     \* the section being loaded
  active,      \* active_section_idx
  sent,        \* packets of it handed over in this round
  \* history
  lastLoaded,  \* the packet read last
  lastSent     \* the packet handed over last

givenVars == <<source, memory>>
scanVars  == <<files, scanned, pktCount>>
loadVars  == <<fileIndex, rec, content, loading, lastLoaded>>
sendVars  == <<active, sent, lastSent>>
vars == <<phase, givenVars, scanVars, count, loadVars, sendVars>>

Sections == {0, 1}
None == -1
NoPacket == <<0, 0>>

Init ==
  /\ phase = "prepare"
  /\ source \in Sources
  /\ memory \in [total : Totals, used : Used]
  /\ files = <<>> /\ scanned = 0 /\ pktCount = 0
  /\ count = [s \in Sections |-> 0]
  /\ fileIndex = 1 /\ rec = 0
  /\ content = [s \in Sections |-> <<>>] /\ loading = None /\ lastLoaded = NoPacket
  /\ active = 0 /\ sent = 0 /\ lastSent = NoPacket

\* rte_exit ends the process.
Exit ==
  /\ phase' = "exit"
  /\ UNCHANGED <<givenVars, scanVars, count, loadVars, sendVars>>

-----------------------------------------------------------------------------
(* pcap_prepare_source_files                                               *)

\* The entries in strcmp order of their names.
Sorted(list) == \A i, j \in DOMAIN list : i < j => list[i].name < list[j].name

Usable ==
  \/ source.kind = "file"
  \/ source.kind = "directory" /\ source.entries # {} /\ \A e \in source.entries : e.suffix

Prepare ==
  /\ phase = "prepare" /\ Usable
  /\ \E list \in [1 .. Cardinality(source.entries) -> source.entries] :
       Sorted(list) /\ files' = list
  /\ phase' = "scan"
  /\ UNCHANGED <<givenVars, scanned, pktCount, count, loadVars, sendVars>>

RefuseSource == phase = "prepare" /\ ~Usable /\ Exit

-----------------------------------------------------------------------------
(* pcap_get_info                                                           *)

\* The scan skips payloads with fseek, which succeeds past the end of a file:
\* it counts a record whose payload is cut short.
ScanFile ==
  /\ phase = "scan" /\ scanned < Len(files)
  /\ LET file == files[scanned + 1] IN
       /\ file.magic \in {"native", "swapped"}
       /\ pktCount' = pktCount + file.n
  /\ scanned' = scanned + 1
  /\ UNCHANGED <<phase, givenVars, files, count, loadVars, sendVars>>

RefuseFile ==
  /\ phase = "scan" /\ scanned < Len(files)
  /\ files[scanned + 1].magic \in {"pcapng", "unknown"}
  /\ Exit

EmptyAllowed == FALSE                                         \* mutant
EmptyCapture == pktCount = 0

RefuseEmpty == phase = "scan" /\ scanned = Len(files) /\ EmptyCapture /\ Exit

\* pcap_rewind
ScanDone ==
  /\ phase = "scan" /\ scanned = Len(files) /\ ~EmptyCapture
  /\ fileIndex' = 1 /\ rec' = 0
  /\ phase' = "size"
  /\ UNCHANGED <<givenVars, scanVars, count, content, loading, lastLoaded, sendVars>>

-----------------------------------------------------------------------------
(* pktgen_pcap_open: the sizes of the sections                             *)

RoundUp(bytes) == (bytes + Page - 1) \div Page

\* pcap_get_baseline_hugepages: half as much again as is in use, at least one.
Baseline(used) ==
  LET pages == (3 * RoundUp(used) + 1) \div 2
  IN  IF pages = 0 THEN 1 ELSE pages

\* What is left of the hugepages after the baseline.
Available ==
  LET reserve == Baseline(memory.used) * Page
  IN  IF memory.total > reserve THEN memory.total - reserve ELSE 0

\* pcap_split_section_budgets: each section gets its half.
WholeBudget(bytes) == <<bytes, bytes>>                        \* mutant
SplitBudget(bytes) == <<bytes \div 2, bytes - bytes \div 2>>

Packets(bytes) == bytes \div PerPkt

FloorMultiple(n) == n - (n % Multiple)

\* The pool is never made smaller than the NIC ring needs.
Wanted == IF pktCount < MinPool THEN MinPool ELSE pktCount

\* One section when the capture fits, or the memory is not known; two halves
\* otherwise.
Counts ==
  IF memory.total = 0 \/ Wanted <= Packets(Available)
    THEN <<FloorMultiple(Wanted), 0>>
    ELSE LET budget == SplitBudget(Available)
         IN  <<FloorMultiple(Packets(budget[1])), FloorMultiple(Packets(budget[2]))>>

TooSmall ==
  \/ memory.total > 0 /\ Packets(Available) = 0
  \/ Counts[1] = 0

Size ==
  /\ phase = "size" /\ ~TooSmall
  /\ count' = [s \in Sections |-> Counts[s + 1]]
  /\ loading' = 0
  /\ phase' = "load"
  /\ UNCHANGED <<givenVars, scanVars, fileIndex, rec, content, lastLoaded, sendVars>>

RefuseSize == phase = "size" /\ TooSmall /\ Exit

-----------------------------------------------------------------------------
(* pcap_load_section: pcap_read_record_header and mbuf_iterate_cb          *)

MbufLeftOver == loading # None /\ Len(content[loading]) <= count[loading] \* mutant
MbufLeft == loading # None /\ Len(content[loading]) < count[loading]

\* End of the file: go on with the next one, after the last with the first.
StayInFile == fileIndex                                       \* mutant
FollowingFile == IF fileIndex = Len(files) THEN 1 ELSE fileIndex + 1

NextFile ==
  /\ phase \in {"load", "run"} /\ MbufLeft
  /\ rec = files[fileIndex].n
  /\ fileIndex' = FollowingFile /\ rec' = 0
  /\ UNCHANGED <<phase, givenVars, scanVars, count, content, loading, lastLoaded, sendVars>>

PayloadCut == files[fileIndex].cut /\ rec + 1 = files[fileIndex].n

LoadMbuf ==
  /\ phase \in {"load", "run"} /\ MbufLeft
  /\ rec < files[fileIndex].n /\ ~PayloadCut
  /\ rec' = rec + 1
  /\ lastLoaded' = <<fileIndex, rec + 1>>
  /\ content' = [content EXCEPT ![loading] = Append(@, <<fileIndex, rec + 1>>)]
  /\ UNCHANGED <<phase, givenVars, scanVars, count, fileIndex, loading, sendVars>>

\* A short fread ends the process, in the reload thread too.
RefusePayload ==
  /\ phase \in {"load", "run"} /\ MbufLeft
  /\ rec < files[fileIndex].n /\ PayloadCut
  /\ Exit

\* The first two loads are start-up's, one after the other; later ones are the
\* reload worker's.
SectionLoaded ==
  /\ phase \in {"load", "run"}
  /\ loading # None /\ Len(content[loading]) = count[loading]
  /\ IF phase = "load" /\ loading = 0 /\ count[1] > 0
       THEN loading' = 1 /\ UNCHANGED phase
       ELSE loading' = None /\ phase' = "run"
  /\ UNCHANGED <<givenVars, scanVars, count, fileIndex, rec, content, lastLoaded, sendVars>>

Load == NextFile \/ LoadMbuf \/ RefusePayload \/ SectionLoaded

-----------------------------------------------------------------------------
(* pktgen_send_pkts, one packet at a time                                  *)

\* A pool that takes part in no switch is gone round for ever.
Send ==
  /\ phase = "run" /\ sent < count[active]
  /\ lastSent' = content[active][sent + 1]
  /\ sent' = IF count[1] = 0 /\ sent + 1 = count[active] THEN 0 ELSE sent + 1
  /\ UNCHANGED <<phase, givenVars, scanVars, count, loadVars, active>>

\* An exhausted section goes to the loader once the other one is complete.
KeepOld(s) == UNCHANGED <<loading, content>>                  \* mutant
Refill(s) == loading' = s /\ content' = [content EXCEPT ![s] = <<>>]

Switch ==
  /\ phase = "run" /\ count[1] > 0 /\ sent = count[active] /\ loading = None
  /\ active' = 1 - active /\ sent' = 0
  /\ Refill(active)
  /\ UNCHANGED <<phase, givenVars, scanVars, count, fileIndex, rec, lastLoaded, lastSent>>

-----------------------------------------------------------------------------
StartUp ==
  \/ Prepare \/ RefuseSource
  \/ ScanFile \/ RefuseFile \/ RefuseEmpty \/ ScanDone
  \/ Size \/ RefuseSize

Next == StartUp \/ Load \/ Send \/ Switch

Spec == Init /\ [][Next]_vars

\* Start-up runs to its end, and the worker and the transmit lcore keep going
\* (for a port that was started).
FairSpec == Spec /\ WF_vars(StartUp) /\ WF_vars(Load) /\ WF_vars(Send \/ Switch)
-----------------------------------------------------------------------------
(* The capture: the records of its files, one file after the other.        *)

Capture == {p \in (1 .. Len(files)) \X (1 .. pktCount) : p[2] <= files[p[1]].n}

\* All the packets a source may hold.
AnyPacket ==
  (1 .. Max({Cardinality(s.entries) : s \in Sources}))
    \X (1 .. Max({e.n : e \in UNION {s.entries : s \in Sources}}))

\* The file d places after f, going round.
FileAfter(f, d) == IF f + d <= Len(files) THEN f + d ELSE f + d - Len(files)

\* Only empty files separate f from the file d places after it.
EmptyBetween(f, d) == \A e \in 1 .. d - 1 : files[FileAfter(f, e)].n = 0

\* q is the record of the capture that comes after p, or the very first one.
Follows(p, q) ==
  \/ p # NoPacket /\ q = <<p[1], p[2] + 1>> /\ q[2] <= files[p[1]].n
  \/ /\ p # NoPacket => p[2] = files[p[1]].n
     /\ \E d \in 1 .. Len(files) :
          /\ q = <<FileAfter(p[1], d), 1>>
          /\ files[FileAfter(p[1], d)].n > 0
          /\ EmptyBetween(p[1], d)
-----------------------------------------------------------------------------
(* Properties.                                                             *)

\* The type invariant of start-up, loading and sending.
TypeOK ==
  /\ phase \in {"prepare", "scan", "size", "load", "run", "exit"}
  /\ source \in Sources /\ memory \in [total : Totals, used : Used]
  /\ scanned \in 0 .. Len(files) /\ pktCount \in Nat
  /\ count \in [Sections -> Nat]
  /\ fileIndex \in Nat \ {0} /\ rec \in Nat
  /\ loading \in Sections \union {None} /\ active \in Sections /\ sent \in Nat
  /\ \A s \in Sections :
       /\ Len(content[s]) <= count[s]
       /\ \A i \in DOMAIN content[s] : content[s][i] \in Capture

\* The sections together stay within the hugepages that are left when the
\* baseline is set aside.
FitsMemory ==
  memory.total > 0 => (count[0] + count[1]) * PerPkt <= Available

\* The loader reads the capture from its first record on, in order, across the
\* files and from the last one back to the first, whatever files are empty.
LoadsInOrder ==
  [][LoadMbuf => Follows(lastLoaded, lastLoaded')]_vars

\* A capture split over two sections goes out in its own order, without end.
TwoSectionsInOrder ==
  [][Send /\ count[1] > 0 => Follows(lastSent, lastSent')]_vars

\* Start-up never hangs: it ends in transmission or with an error.
StartsOrExits == <>(phase \in {"run", "exit"})

\* A capture that needs two sections is replayed whole, again and again: no
\* packet of it is ever left out for good, unless the loader gives up.
AllReplayed ==
  \A p \in AnyPacket :
    (phase = "run" /\ count[1] > 0 /\ p \in Capture) ~> (lastSent = p \/ phase = "exit")

\* "If packets fit into hugepages, allocate all packets in one section": a
\* capture that is given one section is in it from the first packet to the last.
AllInOneSection ==
  phase = "run" /\ count[1] = 0 => \A p \in Capture : p \in Range(content[0])
=============================================================================
