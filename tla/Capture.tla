------------------------------- MODULE Capture -------------------------------
(***************************************************************************)
(* Packet capture of one socket: a buffer that the receive lcores append    *)
(* to and that the command thread writes to a file.  The command thread     *)
(* prepares or resets the buffer and sets or clears a port's CAPTURE_PKTS   *)
(* flag; the lcores test the flag, compare the buffer's port with theirs    *)
(* and append a burst.  Nobody locks.  A port has one receive queue.  The   *)
(* buffer is a row of units and a record, header included, takes Sizes of   *)
(* them; a packet is <<number, size>>.                                      *)
(***************************************************************************)
EXTENDS Naturals, Sequences

CONSTANTS
  CapturePorts,  \* ports whose receive lcore is on this socket
  NoPort,        \* RTE_MAX_ETHPORTS
  CaptureEnd,    \* cap->end, from the start of the buffer
  Sizes,         \* units a record may take
  CaptureBurst,  \* packets of one burst, at most
  MaxCaptured,   \* bound on the packets of a behaviour
  MaxToggles     \* bound on the commands

ASSUME CaptureAssumption ==
  /\ CapturePorts # {} /\ NoPort \notin CapturePorts
  /\ CaptureEnd \in Nat \ {0} /\ Sizes \subseteq Nat \ {0}
  /\ CaptureBurst \in Nat \ {0} /\ MaxCaptured \in Nat /\ MaxToggles \in Nat

VARIABLES
  memory,      \* what starts at each unit: a record, Zero or the inside of one
  capTail, capUsed, capCount,  \* cap->tail, used and nb_pkts
  capPort,     \* cap->port
  capturing,   \* ports with CAPTURE_PKTS set
  arrived,     \* packets received so far
  lcore,       \* where each port's lcore is
  inHand,      \* the packets of its burst it has yet to append
  user,        \* where the command thread is in pktgen_set_capture, or "dead": the
               \* process has ended on a division by zero
  subject,     \* the port it was given
  at, file,    \* how far it has read, and what it has written
  toggles,     \* commands so far
  \* history
  kept,        \* packets appended since the buffer was last prepared
  keptAtDump,  \* as many when the command began to write
  torn         \* was the buffer prepared under a lcore that was appending?

bufferVars  == <<memory, capTail, capUsed, capCount, capPort>>
lcoreVars   == <<arrived, lcore, inHand>>
userVars    == <<user, subject, at, file, toggles>>
keptVars    == <<kept, keptAtDump, torn>>
captureVars == <<bufferVars, capturing, lcoreVars, userVars, keptVars>>

Zero   == <<>>            \* a header with pkt_len 0
Inside == <<0, 0>>        \* bytes of some packet
Records == (1 .. MaxCaptured) \X Sizes
Units  == 0 .. CaptureEnd

CaptureTypeOK ==
  /\ memory \in [Units -> Records \union {Zero, Inside}]
  /\ capTail \in Nat /\ capUsed \in Nat /\ capCount \in Nat
  /\ capPort \in CapturePorts \union {NoPort} /\ capturing \subseteq CapturePorts
  /\ arrived \in 0 .. MaxCaptured
  /\ lcore \in [CapturePorts ->
                  {"poll", "port", "room", "write", "advance", "count", "seal"}]
  /\ inHand \in [CapturePorts -> Seq(Records)]
  /\ user \in {"idle", "take", "prepare", "flag", "find", "dump", "reset", "release",
               "clear", "lost", "dead"}
  /\ subject \in CapturePorts /\ at \in Nat /\ toggles \in 0 .. MaxToggles
  /\ file \in Seq(Records \union {Inside}) /\ kept \in Seq(Records)
  /\ keptAtDump \in Nat /\ torn \in BOOLEAN

\* pktgen_packet_capture_init.
CaptureInit ==
  /\ memory = [u \in Units |-> Zero]
  /\ capTail = 0 /\ capUsed = 0 /\ capCount = 0 /\ capPort = NoPort
  /\ capturing = {}
  /\ arrived = 0 /\ lcore = [p \in CapturePorts |-> "poll"]
  /\ inHand = [p \in CapturePorts |-> <<>>]
  /\ user = "idle" /\ subject = (CHOOSE p \in CapturePorts : TRUE)
  /\ at = 0 /\ file = <<>> /\ toggles = 0
  /\ kept = <<>> /\ keptAtDump = 0 /\ torn = FALSE

-----------------------------------------------------------------------------
(* The receive lcore of port p: the end of pktgen_main_receive and          *)
(* pktgen_packet_capture_bulk.                                              *)

LcoreTo(p, from, to) ==
  user # "dead" /\ lcore[p] = from /\ lcore' = [lcore EXCEPT ![p] = to]

\* A burst arrives while the port's flag is set (others are not captured).
TestFlag(p) ==
  /\ p \in capturing
  /\ LcoreTo(p, "poll", "port")
  /\ \E n \in 1 .. CaptureBurst :
       /\ arrived + n <= MaxCaptured /\ arrived' = arrived + n
       /\ \E size \in [1 .. n -> Sizes] :
            inHand' = [inHand EXCEPT ![p] = [i \in 1 .. n |-> <<arrived + i, size[i]>>]]
  /\ UNCHANGED <<bufferVars, capturing, userVars, keptVars>>

\* The buffer is another port's, or it is full: the burst is not captured.
TestPort(p) ==
  /\ LcoreTo(p, "port", IF capPort = p /\ capTail < CaptureEnd THEN "room" ELSE "poll")
  /\ UNCHANGED <<bufferVars, capturing, arrived, inHand, userVars, keptVars>>

\* The next packet of the burst fits, or the rest of the burst is given up.
HeaderFits(size) == capTail < CaptureEnd                         \* mutant
RecordFits(size) == capTail + size <= CaptureEnd

TestRoom(p) ==
  /\ LcoreTo(p, "room", IF inHand[p] # <<>> /\ RecordFits(Head(inHand[p])[2])
                          THEN "write" ELSE "seal")
  /\ UNCHANGED <<bufferVars, capturing, arrived, inHand, userVars, keptVars>>

\* Header and data, over what an earlier capture may have left there.
WriteRecord(p) ==
  /\ LcoreTo(p, "write", "advance")
  /\ LET record == Head(inHand[p])
     IN memory' = [u \in Units |->
          IF u = capTail THEN record
          ELSE IF u > capTail /\ u < capTail + record[2] THEN Inside ELSE memory[u]]
  /\ UNCHANGED <<capTail, capUsed, capCount, capPort, capturing, arrived, inHand, userVars,
                 keptVars>>

AdvanceTail(p) ==
  /\ LcoreTo(p, "advance", "count")
  /\ capTail' = capTail + Head(inHand[p])[2]
  /\ UNCHANGED <<memory, capUsed, capCount, capPort, capturing, arrived, inHand, userVars,
                 keptVars>>

CountRecord(p) ==
  /\ LcoreTo(p, "count", "room")
  /\ capCount' = capCount + 1
  /\ inHand' = [inHand EXCEPT ![p] = Tail(@)]
  /\ kept' = Append(kept, Head(inHand[p]))
  /\ UNCHANGED <<memory, capTail, capUsed, capPort, capturing, arrived, userVars, keptAtDump,
                 torn>>

\* "Write end-of-data sentinel".
Seal(p) ==
  /\ LcoreTo(p, "seal", "poll")
  /\ memory' = [u \in Units |-> IF u = capTail THEN Zero ELSE memory[u]]
  /\ capUsed' = capTail
  /\ inHand' = [inHand EXCEPT ![p] = <<>>]
  /\ UNCHANGED <<capTail, capCount, capPort, capturing, arrived, userVars, keptVars>>

CaptureLcore(p) ==
  \/ TestFlag(p) \/ TestPort(p) \/ TestRoom(p) \/ WriteRecord(p) \/ AdvanceTail(p)
  \/ CountRecord(p) \/ Seal(p)

-----------------------------------------------------------------------------
(* The command thread: pktgen_set_capture. *)

UserTo(from, to) == user = from /\ user' = to

\* Is some lcore past its test of the buffer's port?
Appending == \E p \in CapturePorts : lcore[p] \notin {"poll", "port"}

\* "Enabling an already enabled port is a no-op", left out.  The port of the
\* buffer is taken whoever has it, before the tail is moved back.
EnableCapture(p) ==
  /\ p \notin capturing /\ toggles < MaxToggles
  /\ UserTo("idle", "prepare") /\ subject' = p /\ toggles' = toggles + 1
  /\ capUsed' = 0 /\ capPort' = p
  /\ UNCHANGED <<memory, capTail, capCount, capturing, lcoreVars, at, file, keptVars>>

KeepCount == UNCHANGED capCount                                  \* mutant
ZeroCount == capCount' = 0

PrepareBuffer ==
  /\ UserTo("prepare", "flag")
  /\ ZeroCount /\ capTail' = 0
  /\ memory' = [memory EXCEPT ![0] = Zero, ![CaptureEnd] = Zero]
  /\ kept' = <<>> /\ keptAtDump' = 0 /\ torn' = Appending /\ file' = <<>>
  /\ UNCHANGED <<capUsed, capPort, capturing, lcoreVars, subject, at, toggles>>

SetFlag ==
  /\ UserTo("flag", "idle")
  /\ capturing' = capturing \union {subject}
  /\ UNCHANGED <<bufferVars, lcoreVars, subject, at, file, toggles, keptVars>>

\* Disabling a port that does not capture is a no-op, left out.  "This should
\* never happen": no buffer has the port.
DisableCapture(p) ==
  /\ p \in capturing /\ toggles < MaxToggles
  /\ user = "idle" /\ subject' = p /\ toggles' = toggles + 1
  /\ user' = IF capPort = p THEN "dump" ELSE "lost"
  /\ at' = 0 /\ file' = <<>> /\ keptAtDump' = Len(kept)
  /\ UNCHANGED <<bufferVars, capturing, lcoreVars, kept, torn>>

\* One record to the file, while lcores go on appending: nb_pkts is read again
\* for each record, a length of zero ends the loop, and the percentage done is a
\* division by cap->used, which only the end of a burst sets.  Between the header
\* and the division a lcore can only set used, as if it had done so before both.
BeforeLast == Len(file) + 1 < capCount                           \* mutant
MoreRecords == Len(file) < capCount
RecordAhead == at \in Units /\ memory[at] # Zero

DumpRecord ==
  /\ user = "dump" /\ MoreRecords /\ RecordAhead
  /\ file' = Append(file, memory[at])
  /\ at' = at + memory[at][2]
  /\ user' = IF capUsed = 0 THEN "dead" ELSE "dump"
  /\ UNCHANGED <<bufferVars, capturing, lcoreVars, subject, toggles, keptVars>>

EndDump ==
  /\ UserTo("dump", "reset")
  /\ ~(MoreRecords /\ RecordAhead)
  /\ UNCHANGED <<bufferVars, capturing, lcoreVars, subject, at, file, toggles, keptVars>>

ResetBuffer ==
  /\ UserTo("reset", "release")
  /\ capUsed' = 0 /\ capTail' = 0
  /\ UNCHANGED <<memory, capCount, capPort, capturing, lcoreVars, subject, at, file, toggles,
                 keptVars>>

ReleaseBuffer ==
  /\ UserTo("release", "clear")
  /\ capPort' = NoPort
  /\ UNCHANGED <<memory, capTail, capUsed, capCount, capturing, lcoreVars, subject, at, file,
                 toggles, keptVars>>

ClearFlag ==
  /\ UserTo("clear", "idle")
  /\ capturing' = capturing \ {subject}
  /\ UNCHANGED <<bufferVars, lcoreVars, subject, at, file, toggles, keptVars>>

\* The error is reported and the flag stays set.
GiveUp ==
  /\ UserTo("lost", "idle")
  /\ UNCHANGED <<bufferVars, capturing, lcoreVars, subject, at, file, toggles, keptVars>>

CaptureUser ==
  \/ \E p \in CapturePorts : EnableCapture(p) \/ DisableCapture(p)
  \/ PrepareBuffer \/ SetFlag
  \/ DumpRecord \/ EndDump \/ ResetBuffer \/ ReleaseBuffer \/ ClearFlag \/ GiveUp

CaptureNext == CaptureUser \/ \E p \in CapturePorts : CaptureLcore(p)

CaptureSpec == CaptureInit /\ [][CaptureNext]_captureVars

-----------------------------------------------------------------------------
\* The file is what was captured: the packets appended since the buffer was
\* prepared, in order and whole, those at least that were there when the
\* command began to write - unless it was prepared under a lcore that was still
\* appending a burst from before.  The command that writes it ends the process
\* only if a lcore is in the middle of the first burst of the capture: once a
\* burst is complete, a capture that has records can be written out.
FileFaithful ==
  ~torn =>
    /\ user \in {"dump", "reset", "release", "clear"} =>
         Len(file) <= Len(kept) /\ file = SubSeq(kept, 1, Len(file))
    /\ user = "reset" => Len(file) >= keptAtDump
    /\ user = "dead" => /\ lcore[capPort] \notin {"poll", "port"}
                        /\ Len(kept) + Len(inHand[capPort]) <= CaptureBurst

\* "This should never happen": a port that captures has no buffer.
DisableFindsPort == user # "lost"
=============================================================================
