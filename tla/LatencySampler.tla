--------------------------- MODULE LatencySampler ---------------------------
(***************************************************************************)
(* The latency sampler of one port.  While SAMPLING_LATENCIES is set every  *)
(* receive queue appends the latencies that are due to an array of its own, *)
(* up to its share of the samples asked for.  The stop command clears the   *)
(* flag, writes the arrays to the file and empties them, with no word to    *)
(* the receive lcores: a queue that has seen the flag still set goes on.    *)
(* A sample is named by the run that took it and its place in that run.     *)
(***************************************************************************)
EXTENDS Naturals, Sequences, FiniteSets

CONSTANTS
  RxQueues,     \* the receive queues of the port
  MaxEntries,   \* MAX_LATENCY_ENTRIES, the room of a queue's array
  Totals,       \* the sample counts the user gives
  MaxRuns       \* bound on the start commands

ASSUME SamplerAssumption ==
  /\ IsFiniteSet(RxQueues) /\ RxQueues # {}
  /\ MaxEntries \in Nat /\ Totals \subseteq 0 .. MaxEntries /\ MaxRuns \in Nat

VARIABLES
  sampling,     \* the flag SAMPLING_LATENCIES
  idx, share,   \* idx and num_samples of each queue
  data,         \* the array of each queue
  sampler,      \* where each receive lcore is in the sampling code
  index, sample,\* the index it has read and the sample it holds
  ordering,     \* where the command thread is in start and stop
  unwritten,    \* the queues stop has not yet written
  outfile,      \* what the last stop has written of each queue
  \* history
  run,          \* start commands so far
  nth,          \* samples each queue has taken in this run
  late          \* was a queue still in the sampling code at the last start?

queueVars   == <<data, sampler, index, sample, nth>>
orderVars   == <<ordering, unwritten, outfile, run, late>>
samplerVars == <<sampling, idx, share, queueVars, orderVars>>

\* a sample: the run that took it and its place among the queue's samples of that run
Taken == [run : 0 .. MaxRuns, nth : Nat]
NoSample == [run |-> 0, nth |-> 0]

SamplerTypeOK ==
  /\ sampling \in BOOLEAN
  /\ idx \in [RxQueues -> 0 .. MaxEntries] /\ share \in [RxQueues -> 0 .. MaxEntries]
  /\ data \in [RxQueues -> [0 .. MaxEntries - 1 -> Taken]]
  /\ sampler \in [RxQueues -> {"out", "due", "store", "advance"}]
  /\ index \in [RxQueues -> 0 .. MaxEntries] /\ sample \in [RxQueues -> Taken]
  /\ ordering \in {"idle", "arm", "write", "empty"}
  /\ unwritten \subseteq RxQueues /\ outfile \in [RxQueues -> Seq(Taken)]
  /\ run \in 0 .. MaxRuns /\ nth \in [RxQueues -> Nat] /\ late \in BOOLEAN

SamplerInit ==
  /\ sampling = FALSE /\ ordering = "idle" /\ unwritten = {} /\ run = 0 /\ late = FALSE
  /\ idx = [q \in RxQueues |-> 0] /\ share = idx /\ index = idx /\ nth = idx
  /\ data = [q \in RxQueues |-> [i \in 0 .. MaxEntries - 1 |-> NoSample]]
  /\ sampler = [q \in RxQueues |-> "out"] /\ sample = [q \in RxQueues |-> NoSample]
  /\ outfile = [q \in RxQueues |-> <<>>]

-----------------------------------------------------------------------------
(* A receive lcore, for a probe that was in order and is due. *)

\* it has seen the flag ...
SeeFlag(q) ==
  /\ sampler[q] = "out" /\ sampling
  /\ sampler' = [sampler EXCEPT ![q] = "due"]
  /\ UNCHANGED <<sampling, idx, share, data, index, sample, nth, orderVars>>

\* mutant of HasRoom: one sample more than the queue's share
HasRoomFor(q) == idx[q] <= share[q]

HasRoom(q) == idx[q] < share[q]

\* ... tests whether the array has room for one more ...
TestShare(q) ==
  /\ sampler[q] = "due"
  /\ index' = [index EXCEPT ![q] = idx[q]]
  /\ IF HasRoom(q)
       THEN /\ sampler' = [sampler EXCEPT ![q] = "store"]
            /\ nth' = [nth EXCEPT ![q] = nth[q] + 1]
            /\ sample' = [sample EXCEPT ![q] = [run |-> run, nth |-> nth[q] + 1]]
       ELSE /\ sampler' = [sampler EXCEPT ![q] = "out"]
            /\ UNCHANGED <<nth, sample>>
  /\ UNCHANGED <<sampling, idx, share, data, orderVars>>

\* ... stores it at the index, read again or kept in a register ...
StoreSample(q) ==
  /\ sampler[q] = "store"
  /\ \E i \in {index[q], idx[q]} : data' = [data EXCEPT ![q][i] = sample[q]]
  /\ sampler' = [sampler EXCEPT ![q] = "advance"]
  /\ UNCHANGED <<sampling, idx, share, index, sample, nth, orderVars>>

\* ... and advances the index, again from memory or from a register
AdvanceIndex(q) ==
  /\ sampler[q] = "advance"
  /\ \E i \in {index[q], idx[q]} : idx' = [idx EXCEPT ![q] = i + 1]
  /\ sampler' = [sampler EXCEPT ![q] = "out"]
  /\ UNCHANGED <<sampling, share, data, index, sample, nth, orderVars>>

-----------------------------------------------------------------------------
(* The command thread. *)

\* mutant of Emptied: a start goes on behind the samples of the run before
Behind == idx

\* the index each queue starts from
Emptied == [q \in RxQueues |-> 0]

\* start: every queue gets an equal share of the samples ...
ShareOut == \E n \in Totals :
  /\ ordering = "idle" /\ ~sampling
  /\ n > 0 /\ run < MaxRuns
  /\ idx' = Emptied
  /\ share' = [q \in RxQueues |-> n \div Cardinality(RxQueues)]
  /\ run' = run + 1 /\ nth' = [q \in RxQueues |-> 0]
  /\ late' = (\E q \in RxQueues : sampler[q] # "out")
  /\ ordering' = "arm"
  /\ UNCHANGED <<sampling, data, sampler, index, sample, unwritten, outfile>>

\* ... and the flag is set
Arm ==
  /\ ordering = "arm"
  /\ sampling' = TRUE /\ ordering' = "idle"
  /\ UNCHANGED <<idx, share, queueVars, unwritten, outfile, run, late>>

\* stop: the flag is cleared and the file opened, if it can be ...
StopSampling == \E opened \in BOOLEAN :
  /\ ordering = "idle" /\ sampling
  /\ sampling' = FALSE
  /\ unwritten' = IF opened THEN RxQueues ELSE {}
  /\ outfile' = [q \in RxQueues |-> <<>>]
  /\ ordering' = IF opened THEN "write" ELSE "empty"
  /\ UNCHANGED <<idx, share, queueVars, run, late>>

\* ... a queue's samples are written, as far as its index goes ...
WriteSamples(q) ==
  /\ ordering = "write" /\ q \in unwritten
  /\ outfile' = [outfile EXCEPT ![q] = [i \in 1 .. idx[q] |-> data[q][i - 1]]]
  /\ unwritten' = unwritten \ {q}
  /\ ordering' = IF unwritten = {q} THEN "empty" ELSE "write"
  /\ UNCHANGED <<sampling, idx, share, queueVars, run, late>>

\* ... and the queues are emptied and left without a share
EmptyQueues ==
  /\ ordering = "empty"
  /\ idx' = [q \in RxQueues |-> 0] /\ share' = [q \in RxQueues |-> 0]
  /\ ordering' = "idle"
  /\ UNCHANGED <<sampling, queueVars, unwritten, outfile, run, late>>

SamplerNext ==
  \/ \E q \in RxQueues : SeeFlag(q) \/ TestShare(q) \/ StoreSample(q) \/ AdvanceIndex(q)
  \/ ShareOut \/ Arm \/ StopSampling \/ EmptyQueues
  \/ \E q \in RxQueues : WriteSamples(q)

SamplerSpec == SamplerInit /\ [][SamplerNext]_samplerVars
-----------------------------------------------------------------------------
(* Whatever a late queue does it stores inside its array; and unless a      *)
(* queue was still in the sampling code when the run started, what stop has *)
(* written of a queue is the run's samples from the first on, none missing, *)
(* none twice, none from another run, and no more than its share.           *)
SamplesFaithful ==
  /\ \A q \in RxQueues : sampler[q] = "store" => {index[q], idx[q]} \subseteq 0 .. MaxEntries - 1
  /\ ordering \in {"write", "empty"} /\ ~late => \A q \in RxQueues :
       /\ Len(outfile[q]) <= share[q]
       /\ outfile[q] = [i \in 1 .. Len(outfile[q]) |-> [run |-> run, nth |-> i]]
=============================================================================
