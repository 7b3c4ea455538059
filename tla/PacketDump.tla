------------------------------ MODULE PacketDump -----------------------------
(***************************************************************************)
(* "dump <n>": the receive lcore copies the next n packets of a port into   *)
(* dump_list, the timer thread prints and frees them, and the command       *)
(* thread starts over whenever the user asks again.  head, tail and count   *)
(* are bytes that all three read and write without a lock.  The port has    *)
(* one receive queue.  A packet is its number, in order of arrival.         *)
(***************************************************************************)
EXTENDS Naturals, Sequences

CONSTANTS
  MaxDump,      \* MAX_DUMP_PACKETS
  ByteSize,     \* dump_count is a uint8_t: it wraps at this value
  DumpAsks,     \* the numbers the user asks for
  DumpBurst,    \* packets of one receive burst, at most
  MaxDumpPkts,  \* bound on the packets of a behaviour
  MaxDumpCmds   \* bound on the commands

ASSUME DumpAssumption ==
  /\ MaxDump \in Nat \ {0} /\ ByteSize \in Nat /\ ByteSize > MaxDump
  /\ DumpAsks \subseteq Nat /\ DumpBurst \in Nat \ {0}
  /\ MaxDumpPkts \in Nat /\ MaxDumpCmds \in Nat

VARIABLES
  dumpList,     \* the packet each entry holds, or NoData
  dumpHead, dumpTail, dumpCount,
  polled,       \* packets received so far
  rx,           \* where the receive lcore is in pktgen_packet_dump_bulk
  burst,        \* packets of its burst it has yet to store
  taking,       \* nb_dump
  printer,      \* where the timer thread is in pktgen_print_packet_dump
  setter,       \* where the command thread is in debug_set_port_dump
  asking,       \* the number it was given
  dumpCmds,     \* commands so far
  \* history
  asked,        \* the number asked for last
  stored,       \* packets stored that came since
  printed,      \* packets printed since
  firstDue,     \* the first packet the last command is about
  crossed       \* did the last command overlap the other two threads?

NoData == 0

dumpVars  == <<dumpList, dumpHead, dumpTail, dumpCount>>
rxVars    == <<polled, rx, burst, taking>>
setVars   == <<setter, asking, dumpCmds>>
sinceVars == <<asked, stored, printed, firstDue, crossed>>
packetDumpVars == <<dumpVars, rxVars, printer, setVars, sinceVars>>

Slot == 0 .. MaxDump - 1

DumpTypeOK ==
  /\ dumpList \in [Slot -> 0 .. MaxDumpPkts]
  /\ dumpHead \in 0 .. MaxDump /\ dumpTail \in 0 .. MaxDump
  /\ dumpCount \in 0 .. ByteSize - 1
  /\ polled \in 0 .. MaxDumpPkts
  /\ rx \in {"poll", "count", "fit", "fill", "next", "done"}
  /\ burst \in Seq(1 .. MaxDumpPkts) /\ taking \in 0 .. DumpBurst
  /\ printer \in {"idle", "free", "next"}
  /\ setter \in {"idle", "count", "tail", "head"} /\ asking \in 0 .. MaxDump
  /\ dumpCmds \in 0 .. MaxDumpCmds
  /\ asked \in 0 .. MaxDump /\ stored \in Nat
  /\ printed \in Seq(0 .. MaxDumpPkts) /\ firstDue \in 1 .. MaxDumpPkts + 1
  /\ crossed \in BOOLEAN

DumpInit ==
  /\ dumpList = [i \in Slot |-> NoData]
  /\ dumpHead = 0 /\ dumpTail = 0 /\ dumpCount = 0
  /\ polled = 0 /\ rx = "poll" /\ burst = <<>> /\ taking = 0
  /\ printer = "idle" /\ setter = "idle" /\ asking = 0 /\ dumpCmds = 0
  /\ asked = 0 /\ stored = 0 /\ printed = <<>> /\ firstDue = 1 /\ crossed = FALSE

Lesser(a, b) == IF a < b THEN a ELSE b

-----------------------------------------------------------------------------
(* The receive lcore: pktgen_main_receive, pktgen_packet_dump_bulk. *)

\* A burst comes in.  With dump_count clear it is not looked at.
Poll(n) ==
  /\ rx = "poll" /\ polled + n <= MaxDumpPkts
  /\ polled' = polled + n
  /\ IF dumpCount > 0
       THEN /\ burst' = [i \in 1 .. n |-> polled + i]
            /\ rx' = "count"
       ELSE UNCHANGED <<rx, burst>>
  /\ UNCHANGED <<dumpVars, taking, printer, setVars, sinceVars>>

\* "Don't dump more packets than the user asked": dump_count is loaded again, once
\* for the comparison and the assignment.
EveryPacket(n) == n                                              \* mutant
UpToCount(n) == Lesser(n, dumpCount)

Take ==
  /\ rx = "count" /\ rx' = "fit"
  /\ taking' = UpToCount(Len(burst))
  /\ UNCHANGED <<dumpVars, polled, burst, printer, setVars, sinceVars>>

\* "Don't overflow packet array".
Whole == taking                                                  \* mutant
UpToRoom == Lesser(taking, MaxDump - dumpTail)

Fit ==
  /\ rx = "fit"
  /\ taking' = UpToRoom
  /\ rx' = IF taking' = 0 THEN "poll" ELSE "fill"
  /\ burst' = SubSeq(burst, 1, taking')
  /\ UNCHANGED <<dumpVars, polled, printer, setVars, sinceVars>>

\* pktgen_packet_dump: a copy into the entry at tail ...
Fill ==
  /\ rx = "fill"
  /\ dumpList' = [dumpList EXCEPT ![dumpTail] = Head(burst)]
  /\ rx' = "next"
  /\ UNCHANGED <<dumpHead, dumpTail, dumpCount, polled, burst, taking, printer, setVars,
                 sinceVars>>

\* ... and tail moves on.
Advance ==
  /\ rx = "next"
  /\ dumpTail' = dumpTail + 1
  /\ burst' = Tail(burst)
  /\ stored' = IF Head(burst) >= firstDue THEN stored + 1 ELSE stored
  /\ rx' = IF burst' = <<>> THEN "done" ELSE "fill"
  /\ UNCHANGED <<dumpList, dumpHead, dumpCount, polled, taking, printer, setVars,
                 asked, printed, firstDue, crossed>>

\* What was taken comes off the count, in a byte.
TakeOff ==
  /\ rx = "done" /\ rx' = "poll"
  /\ dumpCount' = (dumpCount + ByteSize - taking) % ByteSize
  /\ UNCHANGED <<dumpList, dumpHead, dumpTail, polled, burst, taking, printer, setVars,
                 sinceVars>>

-----------------------------------------------------------------------------
(* The timer thread: pktgen_print_packet_dump. *)

PrintOne ==
  /\ printer = "idle" /\ dumpHead < dumpTail
  /\ printed' = Append(printed, dumpList[dumpHead])
  /\ printer' = "free"
  /\ UNCHANGED <<dumpVars, rxVars, setVars, asked, stored, firstDue, crossed>>

FreeOne ==
  /\ printer = "free" /\ printer' = "next"
  /\ dumpList' = [dumpList EXCEPT ![dumpHead] = NoData]
  /\ UNCHANGED <<dumpHead, dumpTail, dumpCount, rxVars, setVars, sinceVars>>

StayAt == UNCHANGED dumpHead                                     \* mutant
MoveOn == dumpHead' = dumpHead + 1

PrintNext ==
  /\ printer = "next" /\ printer' = "idle"
  /\ MoveOn
  /\ UNCHANGED <<dumpList, dumpTail, dumpCount, rxVars, setVars, sinceVars>>

-----------------------------------------------------------------------------
(* The command thread: debug_set_port_dump, "in this specific order". *)

Busy == rx # "poll" \/ printer # "idle"

AskDump(n) ==
  /\ setter = "idle" /\ dumpCmds < MaxDumpCmds
  /\ asking' = Lesser(n, MaxDump) /\ dumpCmds' = dumpCmds + 1
  /\ dumpCount' = 0 /\ setter' = "count" /\ crossed' = Busy
  /\ UNCHANGED <<dumpList, dumpHead, dumpTail, rxVars, printer, asked, stored, printed,
                 firstDue>>

ResetTail ==
  /\ setter = "count" /\ setter' = "tail"
  /\ dumpTail' = 0 /\ crossed' = (crossed \/ Busy)
  /\ UNCHANGED <<dumpList, dumpHead, dumpCount, rxVars, printer, asking, dumpCmds,
                 asked, stored, printed, firstDue>>

ResetHead ==
  /\ setter = "tail" /\ setter' = "head"
  /\ dumpHead' = 0 /\ crossed' = (crossed \/ Busy)
  /\ UNCHANGED <<dumpList, dumpTail, dumpCount, rxVars, printer, asking, dumpCmds,
                 asked, stored, printed, firstDue>>

\* The loop frees the first entry, 32 times over; then the count is set.
ArmDump ==
  /\ setter = "head" /\ setter' = "idle"
  /\ dumpList' = [dumpList EXCEPT ![0] = NoData]
  /\ dumpCount' = asking
  /\ asked' = asking /\ stored' = 0 /\ printed' = <<>>
  /\ firstDue' = polled + 1 /\ crossed' = (crossed \/ Busy)
  /\ UNCHANGED <<dumpHead, dumpTail, rxVars, printer, asking, dumpCmds>>

DumpReceive ==
  (\E n \in 1 .. DumpBurst : Poll(n)) \/ Take \/ Fit \/ Fill \/ Advance \/ TakeOff
DumpPrint   == PrintOne \/ FreeOne \/ PrintNext
DumpCommand == (\E n \in DumpAsks : AskDump(n)) \/ ResetTail \/ ResetHead \/ ArmDump

DumpNext == DumpReceive \/ DumpPrint \/ DumpCommand

DumpSpec == DumpInit /\ [][DumpNext]_packetDumpVars

-----------------------------------------------------------------------------
\* A command that found the other two threads at rest gets what it asked for,
\* until the next one: the packets printed are the first that came after it,
\* each once, in order, none of them freed before it was printed, and no more
\* than asked for.
DumpFaithful ==
  ~crossed /\ setter = "idle" =>
    /\ printed = [i \in 1 .. Len(printed) |-> firstDue + i - 1]
    /\ Len(printed) <= stored /\ stored <= asked

\* Whatever crosses, the copy goes to an entry of the list: the room checked
\* before the burst can only grow until the burst is stored.
DumpInBounds == rx = "fill" => dumpTail < MaxDump
=============================================================================
