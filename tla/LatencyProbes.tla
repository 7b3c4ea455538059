---------------------------- MODULE LatencyProbes ----------------------------
(***************************************************************************)
(* Latency probes of one port.  Transmit queue 0 builds a probe in the      *)
(* shared LATENCY_PKT template, which gives it the next index, copies it    *)
(* into an mbuf and sends it; the receive lcore expects the indices in      *)
(* order and counts a gap as skipped.  The sampler commands build the       *)
(* template too, without sending it, and "clear stats" zeroes counters and  *)
(* indices in the middle of it all.  The wire keeps the order of probes but *)
(* may lose some; the port has one receive queue.                           *)
(***************************************************************************)
EXTENDS Naturals, Sequences, SequencesExt

CONSTANTS
  MaxProbes,   \* bound on the indices given out
  MaxBuilds,   \* bound on the templates the sampler commands build
  MaxResets    \* bound on the clear commands

ASSUME ProbeAssumption == {MaxProbes, MaxBuilds, MaxResets} \subseteq Nat

Builders == {"queue", "command"}

VARIABLES
  nextIndex, expectIndex,        \* next_index and expect_index
  numLatency, numSkipped,        \* num_latency_pkts and num_skipped
  probe,        \* the index in the LATENCY_PKT template
  building,     \* where each builder is: idle, incrementing next_index, or (the queue) built
  taken,        \* the index each builder has read
  flight,       \* indices of the probes on their way
  checking,     \* where the receive lcore is in pktgen_tstamp_check
  probeIn,      \* the index it is looking at
  resetting,    \* is a clear between its counters and its indices?
  \* history
  resets,       \* clear commands so far
  probesLost,   \* probes lost
  unsent        \* templates built and not sent

indexVars == <<nextIndex, expectIndex>>
buildVars == <<probe, building, taken, unsent>>
checkVars == <<checking, probeIn, numLatency, numSkipped>>
clearVars == <<resetting, resets>>
probeVars == <<indexVars, buildVars, checkVars, clearVars, flight, probesLost>>

ProbeTypeOK ==
  /\ {nextIndex, expectIndex} \subseteq 0 .. MaxProbes + 1
  /\ {probe, probeIn} \subseteq 0 .. MaxProbes /\ taken \in [Builders -> 0 .. MaxProbes]
  /\ {numLatency, numSkipped, probesLost} \subseteq Nat
  /\ unsent \in 0 .. MaxBuilds /\ resets \in 0 .. MaxResets
  /\ building \in [Builders -> {"idle", "increment", "built"}]
  /\ flight \in Seq(0 .. MaxProbes)
  /\ checking \in {"idle", "match", "gap"}
  /\ resetting \in BOOLEAN

ProbeInit ==
  /\ nextIndex = 0 /\ expectIndex = 0 /\ numLatency = 0 /\ numSkipped = 0
  /\ probe = 0 /\ taken = [b \in Builders |-> 0] /\ building = [b \in Builders |-> "idle"]
  /\ flight = <<>> /\ checking = "idle" /\ probeIn = 0
  /\ resetting = FALSE /\ resets = 0 /\ probesLost = 0 /\ unsent = 0

\* index = next_index++ begins: builder b reads the counter
TakeIndex(b) ==
  /\ building[b] = "idle"
  /\ nextIndex < MaxProbes
  /\ b = "command" => unsent < MaxBuilds
  /\ taken' = [taken EXCEPT ![b] = nextIndex]
  /\ building' = [building EXCEPT ![b] = "increment"]
  /\ unsent' = IF b = "command" THEN unsent + 1 ELSE unsent
  /\ UNCHANGED <<indexVars, probe, checkVars, clearVars, flight, probesLost>>

\* ... and ends: the index is in the template and the counter one further
StampProbe(b) ==
  /\ building[b] = "increment"
  /\ nextIndex' = taken[b] + 1
  /\ probe' = taken[b]
  /\ building' = [building EXCEPT ![b] = IF b = "queue" THEN "built" ELSE "idle"]
  /\ UNCHANGED <<expectIndex, taken, unsent, checkVars, clearVars, flight, probesLost>>

\* pktgen_tstamp_inject copies the template into the mbuf and sends it until it is accepted
SendProbe ==
  /\ building["queue"] = "built"
  /\ flight' = Append(flight, probe)
  /\ building' = [building EXCEPT !["queue"] = "idle"]
  /\ UNCHANGED <<indexVars, probe, taken, unsent, checkVars, clearVars, probesLost>>

\* a probe never arrives, or arrives while latency measuring is off
LoseProbe == \E i \in 1 .. Len(flight) :
  /\ flight' = RemoveAt(flight, i)
  /\ probesLost' = probesLost + 1
  /\ UNCHANGED <<indexVars, buildVars, checkVars, clearVars>>

\* pktgen_tstamp_check compares a received probe with the index it expects ...
Compare ==
  /\ checking = "idle" /\ flight # <<>>
  /\ probeIn' = Head(flight) /\ flight' = Tail(flight)
  /\ checking' = IF Head(flight) = expectIndex THEN "match" ELSE "gap"
  /\ UNCHANGED <<indexVars, buildVars, numLatency, numSkipped, clearVars, probesLost>>

\* mutant of Resume: a gap leaves the expected index alone
KeepExpecting == expectIndex

\* the index expected behind the probe that follows a gap
Resume == probeIn + 1

\* ... a gap restarts the expected sequence behind this probe, which is not measured ...
SkipProbe ==
  /\ checking = "gap"
  /\ expectIndex' = Resume /\ numSkipped' = numSkipped + 1
  /\ checking' = "idle"
  /\ UNCHANGED <<nextIndex, buildVars, probeIn, numLatency, clearVars, flight, probesLost>>

\* ... and the expected probe is measured
CountProbe ==
  /\ checking = "match"
  /\ expectIndex' = expectIndex + 1 /\ numLatency' = numLatency + 1
  /\ checking' = "idle"
  /\ UNCHANGED <<nextIndex, buildVars, probeIn, numSkipped, clearVars, flight, probesLost>>

\* pktgen_clear_stats zeroes the statistics in the order of the structure: the counters ...
ClearCounts ==
  /\ ~resetting /\ resets < MaxResets
  /\ numLatency' = 0 /\ numSkipped' = 0
  /\ resetting' = TRUE /\ resets' = resets + 1
  /\ UNCHANGED <<indexVars, buildVars, checking, probeIn, flight, probesLost>>

\* ... then next_index and expect_index
ClearIndices ==
  /\ resetting
  /\ nextIndex' = 0 /\ expectIndex' = 0
  /\ resetting' = FALSE
  /\ UNCHANGED <<buildVars, checkVars, resets, flight, probesLost>>

ProbeNext ==
  \/ \E b \in Builders : TakeIndex(b) \/ StampProbe(b)
  \/ SendProbe \/ LoseProbe
  \/ Compare \/ SkipProbe \/ CountProbe
  \/ ClearCounts \/ ClearIndices

ProbeSpec == ProbeInit /\ [][ProbeNext]_probeVars
-----------------------------------------------------------------------------
(* The skipped counter never exceeds what can explain it: a lost probe, a   *)
(* template the sampler commands built without sending, and for each clear  *)
(* the two ends of the run of old probes that were under way.  Without a    *)
(* clear and with no skip every index below the expected one was measured.  *)
SkipsExplained ==
  /\ numSkipped <= probesLost + unsent + 2 * resets
  /\ resets = 0 /\ numSkipped = 0 /\ checking = "idle" => numLatency = expectIndex
=============================================================================
