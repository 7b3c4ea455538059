# A verification of DPDK-PktReplay

DPDK-PktReplay is Pktgen-DPDK with a new PCAP mode: a capture that does not fit
into the hugepages is replayed from two memory pools ("sections"), one being
transmitted while a background thread refills the other (`README.md:3`). This
directory holds TLA+ models of that core and of the parts of Pktgen around it in
which threads meet, the TLC runs that check them on small instances, and theorems
about them that TLAPS checks for every instance.

The modules, in the order to read them:

| Module | What it is |
|---|---|
| `PcapReplay` | The handshake over the two sections: transmit queues, reload worker, commands, public calls |
| `PcapReplayProofs` | Its theorems |
| `ReplayOrder` | What a replay promises: the packets of the capture in file order, round and round |
| `PcapWire` | `PcapReplay` with mbufs, pools, NIC and source; shown to implement `ReplayOrder` |
| `PcapWireProofs` | Its theorems |
| `PcapSource` | From files to sections: file list, scan, memory split, loading, order of transmission |
| `PcapSourceProofs` | Its theorems |
| `TxControl` | start, stop, prime, set count and the packet counter shared by the queues |
| `SpecialPackets` | ARP and ping requests: flags raised by commands, served and cleared by every transmit queue |
| `RxBuffers` | Who owns the mbufs of a receive queue |
| `PacketDump` | `dump`: receive lcore, timer and command thread on one list |
| `Capture` | `capture`: the buffer of a socket, its ports' receive lcores and the command thread |
| `LatencyProbes` | Indices of latency probes: sent, lost, skipped, cleared |
| `LatencySampler` | The sampler's arrays: receive lcores, start and stop |
| `PortStats` | A counter of the NIC and of a queue through the timer's pass, the queue page and `clr` |
| `LogPage` | The ring of log messages and the page that draws it |
| `RangeField` | A field of the range packet, stepped within bounds the user moves |
| `GapBuffer` | The gap buffer of the CLI, as operators |
| `EditedLine`, `LineEditor` | What a line editor promises; the keys on the gap buffer, shown to implement it |
| `CliHistory` | The history of commands, with aliases |
| `TransmitProofs` | Theorems of `TxControl` |
| `ReceiveProofs` | Theorems of `RxBuffers`, `PacketDump`, `Capture`, `LatencySampler` and `LatencyProbes` |
| `ConsoleProofs` | Theorems of `LogPage`, `PortStats`, `CliHistory` and `LineEditor` |
| `Remainders` | Lemmas on remainders, used by the proofs |
| `MCPcapReplay`, `MCPcapWire`, `MCPcapSource` | Values for the constants, for TLC |
| `MCComponents` | The modules from `SpecialPackets` on, put in one specification that runs one of them at a time |
| `ComponentsProofs` | Theorems of `SpecialPackets` and `RangeField`, and the types of all components in `MCComponents` |

`*.cfg` holds one TLC run each. Lines marked `\* mutant` in a module are changed
forms of the definition that follows: with one put in its place, TLC must find the
property that `PROJECT.json` names for it violated. No action uses them.

## The system

Paths are under `src/Pktgen-DPDK/app/` unless they start with `lib/` or `src/`.

| Component | State | Operations | What makes it correct |
|---|---|---|---|
| PCAP replay (`pktgen.c` 927-1032, `pktgen-pcap.c` 439-495) | `pcap_info_t`: active section, `pkt_index`, `pkt_loaded`, locks, request slot, mutex, two condition variables | `pktgen_send_pkts`, `pcap_reload_worker`, `pktgen_pcap_reload_section`, `pktgen_pcap_close` | Sections alternate; a switch goes to a complete section, in order; nobody sleeps for ever; quit and close end |
| PCAP data (`pktgen-pcap.c` 426-437, 615-671) | mbufs of two pools, the NIC's rings, the file position | `pcap_load_section`, `rte_mempool_get_bulk`, `tx_send_packets` | The capture leaves in file order; what the NIC holds is not rewritten |
| PCAP source (`pktgen-pcap.c` 34-395, 528-891) | source file list, counts, budgets | `pcap_prepare_source_files`, `pcap_get_info`, `pktgen_pcap_open` | Sections fit into memory; no record is lost between files; start-up ends |
| Transmit control (`pktgen.c` 986-1032, `pktgen-cmds.c` 1261-1292, 1446-1452) | port flags, `transmit_count`, `current_tx_count` | start, stop, prime, set count; `pkt_atomic64_tx_count` | No packet beyond the count, stop is final, a counted run ends |
| Special packets (`pktgen.c` 755-790, `pktgen-arp.c`, `pktgen-ipv4.c`) | request flags, one packet template | raise (command), serve and clear (queues) | A request is served for every slot and not lost |
| Receive path (`pktgen.c` 682-742, 1047-1080) | mbufs of a burst, of the receive and the special pool | classify, answer ARP and ping, free | Every mbuf has one owner |
| Dump (`pktgen-dump.c`, `pktgen-cmds.c` 2575-2594) | list, head, tail, count | receive lcore copies, timer prints and frees, command starts over | Packets are printed in order, once, never freed before; copies stay in the list |
| Capture (`pktgen-capture.c`) | buffer of a socket: records, tail, count, port | receive lcores append, commands enable, write out, reset | The file holds the records of one capture, whole and in order |
| Latency (`pktgen.c` 245-376, `pktgen-cmds.c` 1330-1427) | indices sent and expected, counts; sampler arrays | inject, check, clear, sampler start and stop | A skip is counted for a probe lost, and for no other reason but a clear or a built template; samples are those of the run |
| Log (`pktgen-log.c`) | ring of messages, `need_refresh` | log from any thread, draw the page | The ring has the newest messages; a page is in order; nothing stays undrawn that did not meet a redraw |
| Statistics (`pktgen-stats.c`, `pktgen-cmds.c` 2246-2262) | base, current, previous and rate counters | periodic pass, queue page, clear | After a clear has settled, what is shown is what came since |
| Range, random, sequence (`pktgen-range.c`, `pktgen-random.c`, `pktgen-seq.c`) | one packet template and steps | next packet, set bounds | A lap of a range has every value once; masks set exactly the bits asked for |
| Line editor and history (`lib/cli/cli_gapbuf.*`, `cli_vt100.c`, `cli_history.c`) | gap buffer, kill buffer, ring of lines | one handler per key, execute | The editor is a text with a cursor; the history has the newest lines |
| Mapping (`l2p.c`) | lcore to port and queue | parse `-m` | Every queue has one lcore |
| Commands, Lua (`cli-functions.c`, `pktgen-cmds.c`, `lpktgenlib.c`, `lib/lua`) | none of their own | one call per command, from the command thread | They keep the state the lcores read in range |
| Libraries (`lib/hmap`, `lib/utils`, `lib/vec`) | data structures | insert, delete, search | Agree with maps, sequences |
| Packet construction, display, CPU pages, `pktperf`, scripts, `src/dpdk-25.11` | - | - | Layout and output; vendored or separate programs |

How they interact. Threads: one lcore per transmit or receive queue, polling for
ever; one reload worker per PCAP port; the timer thread, which makes the statistics
every second and draws the page (printing dumped packets among others); the command
thread. They share `port_info_t`
(flags and counters, atomics and plain fields) and `pcap_info_t` (partly under
`state_mutex`: `pkt_index`, `pkt_loaded` and the choice of the pool are read and
written outside it), the buffers of capture, dump and sampler, the log, and the
pools. Of these only the log has a lock, and the page reads it without. The worker's only inputs are `reload_request` and the files.
The hard behaviours are therefore data races between these threads, two condition
variables whose waiters hold up an lcore, a single-slot request, stops and starts
that find a queue half way, and arithmetic at the edges of captures and memory.
`PROJECT.json` lists each such hazard at its line with the properties that look
for it, or a note saying why none does yet.

## The models and the code

### PcapReplay

One variable per field of `pcap_info_t` and per local variable that outlives a
shared access (`cur` is `idx`, `mp` the pool taken in `pktgen_main_transmit`).
`qpc`, `wpc`, `apc` say where each thread is. A step is what a thread does between
two accesses to data another thread can change. A critical section that touches only
data guarded by the mutex is one step (`Enter` when the section is not exhausted,
`WorkerTake`, `WorkerFinish`); a queue that goes on to read `pkt_loaded`, which the
worker writes without the mutex, holds `mutex` across steps. `pkt_index += txCnt`
happens outside the mutex and is a read and a write (`BumpRead`, `BumpWrite`), as is
`page next`. `doneWaiters` is the wait set of `reload_done_cond`, `workerWaits` that of
`reload_cond`. The worker writes `pkt_loaded` once per packet (`WorkerFill`).

Undefined or unspecified behaviour is a choice: `LoopReads` says whether a build
re-reads `pkt_loaded` in the wait loop's first test, right after having tested it with
no call in between; `Spurious` allows `pthread_cond_wait` to return unasked.

Whether a burst finds mbufs and whether the count is spent is left open here (`PoolEmpty`,
`CountSpent`); `PcapWire` and `TxControl` decide it.

### PcapWire and ReplayOrder

`PcapWire` extends `PcapReplay` with the packet in each mbuf, the FIFO rings of the pools,
what the NIC holds per queue, and the position in the source. Its actions are those of
`PcapReplay` joined with what they do to the data. A pool created with cache size 0
is a FIFO ring; the NIC frees its mbufs in order, at any later time (`NicDone`): both
are external definitions. `Order` instantiates `ReplayOrder` with the packet due next
as its position, and `InOrder` is that abstract specification.
A burst shorter than the longest uses up the count (`Grant`); a start loads it again (`WireUser`); how the
count itself runs is in `TxControl`. `WireAssumption` excludes spurious wakeups, which let a queue switch to a
section that is still being loaded (see "Observed" below), so that nothing about the order could hold, and
the public calls `pktgen_pcap_reload_section` and `pktgen_pcap_close`, which nothing in the program makes.

### PcapSource

The source is a file or a directory of entries; an entry says how many records it has, whether
its name ends in `.pcap`, how its header decodes and whether its last payload is cut short.
(A directory entry that is no regular file is refused like one without the suffix.)
Start-up is sequential: prepare, scan file by file, size, load both sections. Then the
sections alternate; the handshake of the threads is left to `PcapReplay`, so a switch
simply waits for the loader, but loading and sending interleave. `Counts` follows
`pktgen_pcap_open` line by line: pad to 4096, compare with what the memory holds, split in halves, cut
down to multiples of 64.

### TxControl

The flags are one atomic word each operation of which is a compare-and-set loop, so setting, clearing
and testing are single steps. `pkt_atomic64_tx_count` is a read (`ReadCount`) and a
compare-and-set (`TakeCount`); start is load, read back, set flag (`StartLoad`,
`StartDecide`, `StartGo`), so a queue can come between any two. Steps that read and
write only what no other thread writes in between are merged. `asked`, `taken`,
`uncounted`, `stopped` and `since` are history.

### The components around the replay

Each of these modules has its threads as actions and shares no state with the
others, so `MCComponents` explores them one at a time from one initial state; what
matters is the order of accesses inside each. History variables (marked as such) say
what should have happened; no guard reads them.

`SpecialPackets`: `pktgen_send_special` as one step per test of a flag, per filling
of the template and per packet; a queue goes through the slots (`seqCnt` of them, then
the single packet) and clears all flags at the end. A packet may be dropped for want
of an mbuf. `excused` names the known ways a request is lost: raised while a queue was
serving, dropped, an ARP request under a gratuitous one (`else if`), or a ping
whose template another queue or the command rewrote. `NoRequestLost` says there is
no other.

`RxBuffers`: an mbuf's place is counted, not named: `pooled[m]` and `sending[m]` say
how often it is in its pool and in the transmit ring, so a second free shows. A burst
is classified one packet after the other, which may answer an ARP request with an
mbuf of the special pool and a ping with the received mbuf, and is freed whole.

`PacketDump`: packets are numbers in order of arrival. The receive lcore takes a burst in
five steps (test the count; cut to it, which the build loads once for `pktgen-dump.c:69-70`; cut to the room; copy and
advance per packet; take off),
the timer three per packet, the command four. `crossed` marks a command
that met one of the other two half way; `DumpFaithful` speaks of the others, and of the list
between commands, since one that found everybody at rest still resets the list in several steps, which the printer
can come between. `DumpInBounds` speaks of all.

`Capture`: a record is `<<number, size>>`; addresses are positions in the buffer. The lcore tests flag,
port and room, writes, advances and counts per record, and at the end of a burst seals, which is where `used` is set;
the command prepares, writes out record by record until an empty one or the end, resets, releases and clears the flag. After
each record the code divides by `used` (`pktgen-capture.c:200`): when it is 0 the program ends (`user = "dead"`).
`FileFaithful` is about captures no lcore was late for: the file holds the records from the first one on, whole
and in order, and the program dies of the division only while the first burst of a capture is in hand.

`LatencyProbes`: the probe's index, taken when the packet is built, and `expect_index`
of the receive side; probes may be lost. `clr` zeroes the counts and then the indices with
probes under way. `LatencySampler`: the test and the store in `pktgen_tstamp_check` are
separate, and the store and the increment read `idx` again or keep it in a register, as
the compiler likes. `late` marks a start that found a queue between them.

`PortStats`: the NIC's counter is external; a pass of the timer reads it, subtracts the
base, forms the rate, keeps the previous value and takes a snapshot of the queue's counter. The page, which has a timeout
of its own in the same thread, comes at any time between two passes, after several or none, and keeps the
snapshot it drew. `clr`, which zeroes the counters and takes a new base, can come between any two of these steps. Values are
modulo `Modulus` for 2^64, so that a difference below zero is what the code would show.

`LogPage`: `pktgen_log` holds its mutex, `pktgen_page_log` does not, and reads the ring line by line
while messages come in. `settled` says whether the last redraw met none.

`RangeField`: one field stepped in an integer with more room than the field has
(`SteppedTo` is modulo `Room`, `RangeAssumption` says there is room): the IPv4 ports, the TTL,
the packet size and the MAC addresses.

`GapBuffer`, `LineEditor`, `EditedLine`: offsets for the pointers, one action per
key, a motion over a word as a loop of steps. `Line` instantiates `EditedLine` with the
text the buffer holds, the cursor wherever the point is on either side of the gap, and the
text Ctrl-K took. `EdgeKeys = FALSE` leaves out three uses the code does not survive:
Backspace at the start with the point beyond the gap, Ctrl-K at the end of a line with something killed before, and what
follows from them (see "Observed").

`CliHistory`: the list of nodes with the pointer of the arrow keys, `cli_execute` with its aliases,
Tab on a line and Ctrl-C. An alias takes a node for good; the one that takes the last (`RunOut`) makes `cli_history_add` remove,
free and write the head of an empty list as if it were a node, and the model ends there (`cliDead`). `KeepsNewest` asks for all the
`nb_hist` lines that `cli_history.h:110-116` promises as long as no alias was executed, for the newest lines without a gap always,
and says that the CLI dies of nothing but `nb_hist` aliases.

## The runs

| Run | States | Shows |
|---|---|---|
| `replay_one_queue` | 52,896 | One queue, every command: alternation, no lost wakeup, switches complete and in order, pauses and quit end |
| `replay_all_callers` | 3.4 M | Two queues, either build, spurious wakeups, public calls: only the section being loaded is incomplete |
| `wire_one_queue` | 107,484 | One queue that always sends full bursts, stopped and started at any time: the capture goes out in order, and without end while the port sends |
| `source_load` | 4,692 | All sources and memory sizes: sections fit, loading and two-section replay keep the order, start-up ends |
| `tx_all_commands` | 27,782 | Two queues, all commands: exact budget, final stop, counted runs end |
| `components` | 777,484 | The eleven components around the replay, each with every interleaving of its threads: what each of them promises |

Runs that must find a violation, each a disagreement of the code with its own
text, quoted in `PROJECT.json`:

| Run | What happens |
|---|---|
| `replay_two_queues_stall` | Two queues: a second request overwrites the first before the worker takes it; a section stays locked, a queue sleeps for ever and quit never returns |
| `wire_in_flight` | The worker rewrites mbufs the NIC still holds |
| `tx_count_forever` | stop, then start, while a queue is half way: the counted run sends for ever |
| `source_one_section` | A capture that fits one section loses its last packets to the rounding to 64 |
| `capture_two_ports` | Two ports on one socket: the second takes the capture buffer of the first, which then cannot be disabled |
| `ping_reply_freed` | The mbuf a ping was answered with is freed by the receive loop while the transmit ring has it |

Observed with the same modules and not kept as runs:

- With `LoopReads = {"fresh"}` (a build that re-reads) or `Spurious = TRUE`, one queue can switch to a
  section of which the worker has loaded a single packet: the loop at `pktgen.c:961` tests
  `pkt_loaded == 0`, not the lock. `SwitchWhenReady` then fails.
- With two queues, `idx` and `next_idx` are stale after `pthread_cond_wait`; the second switch asks for
  the reload of the section that has just become active, so `ActiveNotReloaded` fails.
- With two queues only queue 0 counts its bursts (`pktgen.c:999`), so a section's mbufs are sent again
  before the switch and `InOrder` fails.
- `page next`, a display command, adds to `pkt_index`, and `InOrder` fails. So does `InOrder` after `pcap <index>`,
  which sets `pkt_index` only (`cli-functions.c:861`, "go to" at 830) and so moves the place where sections are
  switched; and after a counted run whose count is no multiple of the burst (`pktgen.c:997`), which leaves
  pool and index apart for the next start.
- `pktgen_pcap_close` would wait for ever: the worker's loop at `pktgen-pcap.c:449` waits while
  `reload_request < 0`, so the test for the stop request -2 at 452 is never reached. Nothing calls it.
- A `dump` command in the middle of a burst makes `dump_count` wrap (`pktgen-dump.c:82`), and up to 255 more packets
  are taken than asked for; the list's bound still holds (`DumpInBounds`).
- With `EdgeKeys = TRUE`, `GapInBuffer` and `LineRefined` fail: after Ctrl-E on an empty line the point is at the end
  of the gap, so the test for the start of the line (`cli_gapbuf.h:222`) misses it and Backspace moves the gap
  beyond the buffer. Ctrl-K at the end of a line frees the kill buffer and keeps the pointer (`cli_vt100.c:113`).
- Executing an alias takes a history node that is returned to no list (`cli.c:684`): the history shrinks by one for each, so
  that it holds fewer than the `nb_hist` lines of `cli_history.h:110-116`. With `nb_hist` of them both lists are empty,
  and `cli_history_add` frees and writes what `CIRCLEQ_FIRST` of an empty list gives, the list's head (`cli_history.c:54-63`): `RunOut`.
- A `capture disable` during the first burst after an enable finds records (`nb_pkts` is counted at `pktgen-capture.c:287`)
  while `used`, set at 292, is still 0, and dies of the division at 200: the state `user = "dead"`.
- A lcore that tested the flag before a disable may go on appending when the next enable prepares the buffer, and spoils that
  capture: the case `torn` that `FileFaithful` leaves out.
- A message that comes while the page is drawn may stay undrawn: `need_refresh` is cleared after the lines are
  read (`pktgen-log.c:223`), without the lock. `StaleOnlyIfOverlapped` says that nothing else does.
- Starting or stopping the sampler builds the probe's template, which consumes an index: the receive side counts a
  skip that never was on the wire.
- With `Room = FieldSize`, `LapsComplete` fails: the IPv6 ports (`pktgen-range.c:269`) and the hop limit (293)
  are stepped in their own width, so near its end the sum wraps below min, is taken for too small, and the field stays
  at max or skips part of a lap.

Read in the source and not modelled: the next sampling time is `(now + hz) / rate` (`pktgen.c:371-374`), in the past for every
rate above one, so that every probe is sampled; the range of the VXLAN id uses the increment of the group id and
stores into it (`pktgen-range.c`, "vxlan_vid_inc"); the ICMP checksum of a ping reply (`pktgen-ipv4.c:160`)
is not complemented; several receive queues of a port share the dump list and the capture buffer
without a lock; the limit on `-m` mappings (`l2p.c:336`) is tested with `>`; two PCAP ports each
take their budget from all the hugepages (`pktgen-pcap.c:771`), and the second pool does not fit.

### Bounds

- Sections of 2 and 2, 4 and 2, or 2 and 1 packets: enough for one to be half loaded, half sent,
  and for bursts that divide it and bursts that do not. Unequal sizes matter because the
  halves of the budget differ. One queue or two: the code treats queue 0 and the others, and two is
  where requests collide.
- `FilePkts = 5` is coprime to the sections' sum, so every alignment of sections and capture occurs and the
  source wraps inside a section. `PageSize` 7 (a file shorter than a page) or 2.
- `NicDepth = 6` lets the NIC hold every mbuf of both sections, so a queue can find its pool short (`NoMbufs`).
- `ChunkMod = 4` stands for 2^64: chunk numbers are compared for "the next one" only, and 3 are
  in use at a time.
- `MaxCommands` (5 and 4) bounds the commands of a behaviour in `TxControl`: counts change twice and
  starts, stops and primes meet. It is the only cap on a counter: the theorems do not use it.
- `source_load`: one to three files of 0 to 11 records; a unit of 2 for 64, a minimum of 6 for 4096, memory of
  0 to 16 mbufs, so that one section, two equal and two unequal ones, and refusals all occur.
- `replay_all_callers` uses `VIEW ControlView`, which drops `chunk` and `nextChunk`. No guard and
  no other variable depends on them, and the run's one property does not mention them, so
  states that differ only there have the same futures for it.
- `components`: two queues, ports or lcores wherever the code has several; rings, lists and buffers of 3 to 5
  entries and runs long enough to go round them or past their end; two starts, two dumps, four
  enables and disables, so that one can meet what the one before left behind, and one clear of the statistics, which
  can meet every step of two passes; `ByteSize = 8` for the 256 of `dump_count`, more than the list holds; a gap of 2 and typed
  lines of 2, so that a recalled line of 3 makes the gap grow; a field of 6 values under every bound and increments to 3.
  Larger runs (two clears, three dumps, typed lines of 3, four probes, three packets of a counter, more totals of
  samples) found nothing else, and the theorems hold for all of these bounds.
- Deadlock is not checked: after quit all threads have exited, and the user may stop giving commands.

### Fairness

Each lcore's loop and the worker are threads that poll or run for ever, so each has weak
fairness on its next step (`Queue(q)`, `Work`); the NIC keeps draining; a command that was begun ends. Nothing
forces the user, or a caller of the public functions, to call. No strong fairness is used: a queue waiting
for the mutex holds it only over bounded critical sections, and `WaitEnds` holds with weak fairness because
nobody competes with one queue and its worker for ever. The modules in `components` state safety only, and no fairness. `source_load` assumes a port that was started.

## What is proved

Every theorem holds for all values of the constants that satisfy the assumptions named in the
modules. The caps on counters (`MaxCommands`, `MaxMessages`, ...) are among the constants: whatever they are, the theorems hold. Most are also a property of a run, which `PROJECT.json` names (`TypeOK`, `BudgetExact`, `InOrder`, ...).

`PcapReplayProofs`
- For any number of queues, any build, spurious wakeups and public calls: `TypeCorrect` and `SectionsComplete`.
  The invariant is `WorkerInv`: `inProgress` names a section exactly while the worker loads, and
  `pkt_loaded` runs from 0 to the section's size. Only the worker writes these, so nobody can break it.
  It follows that the branch of `pktgen_send_pkts` that asks for the reload of an empty section is dead.
- For one queue, without re-reading, spurious wakeups and public calls (`OneQueue`): `ActiveSafe`, `LockedExactly`,
  `NoLostWakeup`, `SwitchesWhenReady`, `ChunksInOrder`. `ActiveNotReloaded` alone is not inductive: a queue in its wait
  loop must still have `idx` equal to the active section, the lock must tell whether a reload is pending,
  and the sleeping worker must have no request. `HandshakeInv` says this; `ChunkInv` adds which chunk
  each section holds in each phase of a reload. The runs above show that each part of the assumption is needed.

`PcapWireProofs`
- For any queues, sections and bursts: `WireTypeCorrect`.
- `ReplayInOrder`: `PcapWire` implements `ReplayOrder` (`InOrder`) for any capture, sections and depth of the NIC, under `OneWire`: one
  queue, one burst size that divides both sections, no command that writes the index, and what `OneQueue` leaves
  out (the wait loop reading afresh, spurious wakeups, public calls). The sections of the code are multiples of 64 (`pktgen-pcap.c:24`, `:31`) and the default burst is 32
  (`pktgen-constants.h:27`), so a replay that nobody disturbs runs like this. The invariant has three
  parts. `CountInv`: the index and the burst not yet counted move in whole bursts and end at the
  section's end, so no burst is cut short there. `RingInv`: the mbufs of a section, from the pool's next one on through the NIC's
  oldest, follow one another in ring order, so what the NIC still holds cannot put the pool out of turn.
  `ContentInv`: a section holds consecutive packets, the other one those after it, and the cursor stands after what was loaded last.
  It uses the `OneQueue` invariant of `PcapReplayProofs`, and lemmas on remainders.

`PcapSourceProofs` (any captures, memory and units): `SectionsFit`, from arithmetic lemmas on quotients and
remainders; and `ReadsInOrder`, whose invariant says that between two records the loader stands right
after the last one, or at the start of a later file with only empty ones passed over. That it does not go
round for ever or miss a file rests on the scan having found a packet (`ScanInv`). `SourceTypeCorrect` needs that no file is read past
the records the scan counted in it, and that pools are filled only after all files are scanned.
`SentInOrder`: with two sections what is sent follows what was sent before (`TwoSectionsInOrder`). `OrderInv` says how far
each section is loaded in each phase (`Stage`), and that the rest of the active section, the other section and the
loader's place follow one another (`Chained`); a switch then finds at the head of the other section what
comes after the last packet of the one before.
`WholeCaptureInOneSection`: a capture given one section with a place for each of its packets is in it whole
(`AllInOneSection`); so what `source_one_section` finds missing was taken by the rounding alone. `WholeInv` counts the records of the files up
to each one (`Sums`), which the scan builds up file by file: on its first round the section's length says how
far the loader is, and a section as long as the capture leaves no record ahead of it (`Behind`).

`TransmitProofs` (`TxControl`, any queues, burst and counts)
- `TxTypeCorrect` (the counter never goes below zero), `BudgetIsExact`, and `StopsForGood`, from the invariant that after a
  stop the flag is clear and a queue past its test has handed over nothing since.
- `CountKept`: if every start and prime finds the port at rest (`FoundAtRest`: not sending, and no queue past its test of the flag), a counted
  run never turns into one that sends for ever. The invariant (`HonourInv`) is that nobody moves until the command
  is done, so that SEND_FOREVER is set only for a count of zero, and no queue that saw it clear is on its way while it is set. This is the
  other side of `tx_count_forever`, where the start does not wait.

`ReceiveProofs`
- `RxBuffers`: `RxTypeCorrect`, for any mix of packets; `OneOwner`, for any pools and bursts, assuming that no ping arrives. The invariant adds
  that a burst holds an mbuf once, and that no mbuf of the receive pool is ever sent. `ping_reply_freed` shows that the assumption is needed.
- `PacketDump` (any list, burst and requests): `DumpTypeCorrect`, `DumpStaysInBounds` (what is left of a burst fits behind
  `tail`; a command in the middle moves `tail` back, never forward), and `DumpGivesWhatWasAsked`. For commands that met nobody half way, `DumpGood`
  says that what is stored, in hand and still asked for adds up to the request (`AskedFor`), that the burst in hand
  continues the list (`NextDue`), and what the list holds and the printer has printed (`ListHolds`, `PrintedSoFar`).
- `Capture` (any ports, sizes and room): `CaptureTypeCorrect` and `CapturedIsWritten`. `CaptureIInv` says that as long as nothing
  was torn the buffer has one appender (`OneAppender`), that its records lie end to end with the tail where the next one goes
  (`Laid`, `HandAt`), and that the writer stands at the start of a record, with all before it in the file. `FirstBurst` says that while `used`
  is 0 the records in the buffer and those in hand are of one burst, and `DiedInFirst` that a writer that divided by it did so then.
  `OnePortFindsBuffer`: with one port on the socket a disable finds the port's buffer, from the invariant that the buffer has its port while
  the port captures (`PortHasBuffer`). So what `capture_two_ports` finds takes a second port.
- `LatencySampler` (any queues, room and totals): `SamplerTypeCorrect`, `SamplesWritten`. From start to the end of stop a queue's array
  holds the run's samples up to `idx`, and what a queue has in hand is the next one (`QueueGood`); the flag is down during a command, so
  the invariant may lapse between runs.
- `LatencyProbes` (any number of probes, builds and clears): `LatencyTypeCorrect` and `EverySkipHasACause`. A skip is counted long after
  its cause, so the count alone is not inductive. The indices expected, in flight and to be given next make a row, and `SkipInv`
  says that every gap in it is paid for, by a probe lost, one built and not sent, or a clear, and that the skips counted
  so far were paid before the row's first place. Each action takes a place off the row, adds one, or opens a gap and pays.

`ComponentsProofs`
- `SpecialPackets` (any queues, slots and requests): `SpecialTypeCorrect` and `RequestsServed`. A queue has
  "passed" a slot for a kind once it has tested the flag there; `SpecialIInv` says that a slot still owed is behind
  no queue, that its flag is up, and that a ping about to be sent is that of the queue's own slot, so that at the clear, which comes
  after the last slot, nothing can be owed.
- `RangeField` (any width, increment and setting with the room `RangeAssumption` asks for): `RangeTypeCorrect` and
  `RangeCoversTheField`. `OnLattice` says that the lap so far is exactly the values min, min + inc, ... up to the
  field's value, which is one of them: then a step that falls back to min comes after the last of them and no step repeats one.
- `MCComponents`: `ComponentsTypeCorrect` (`~EdgeKeys`). In the specification that runs one component at a time each one behaves as it
  would alone (`RunsApart`), so its own theorem applies to it there.

`ConsoleProofs`
- `LogPage` (any ring and page): `LogTypeCorrect`, `LogKeepsNewest`, `PageShowsTheLog`, `PageIsCurrent`. `RingInv` gives `head` and `tail` as
  remainders of the messages logged, at every point of `pktgen_log`; `PageInv` says that a page begins at the newest message or
  the one before and, unless the ring came round to it, reads them backwards one by one.
- `PortStats` (any counter width above the traffic, since a clear may leave differences that wrap): `StatsTypeCorrect`, `PassRecovers`, `QueuePageExact`. Nobody is ahead
  of the NIC (`NicAhead`) nor any copy of a queue's counter ahead of its packets (`QueueBehind`); `PassInv` gives `curr`, `prev` and the rate in each step of a pass no clear
  overlapped, and `DrawnInv` relates what the queue counted to its packets as long as no clear caught it between its read and its write.
- `CliHistory` (any commands and size): `HistoryTypeCorrect`, `HistoryIsTheNewest`. `HistoryIInv` says that every node that no alias has taken is
  in exactly one place (`Fits`), that the list is the end of the lines entered (`EndOf`), and that the arrow keys' pointer is in the list;
  an alias leaves a node exactly when fewer than `HistLines` have been executed, which decides between `EnterAlias` and `RunOut`.
- `LineEditor` (any characters, lines and gap), for a user who does not press the keys named under "Observed" (`~EdgeKeys`),
  which shows that this is needed: `EditorTypeCorrect`, `GapStaysInBuffer`, and `EditorIsALine`: the editor implements
  `EditedLine`. The invariant is that the buffer shows some text with the point somewhere in it (`Reads`, from `Buf`: where the pointers may stand, and
  which bytes are the text's). For each operation of the gap buffer a lemma says what `Reads` holds after it; for each key one says that the line takes its
  promised step, or none.

Only model-checked: all liveness (`WaitEnds`, `QuitReturns`, `StopSettles`, `RunEnds`, `StartsOrExits`, `AllReplayed`,
`ReplayGoesOn`), which is out of the prover's reach. `OwnedOnce` with pings and the editor with `EdgeKeys` fail, as the
counterexamples above show; the theorems exclude them by name.

## What is not modelled

See `PROJECT.json` for each component. In short: the content and layout of packets, parsing, printing,
Lua, the mapping, packet construction and the libraries but the line editor. These are sequential: one call
computes one result, and what could be wrong is a layout or a formula, which a unit test reaches. Times are left out everywhere: when a
sample is due, jitter and percentiles, rate limiting (it delays bursts). Of the replay: several ports (they share nothing but the
hugepages), read errors other than a cut payload (they end the process in the same way), the timestamps of the
capture (the program ignores them), and a port with one section
in `PcapReplay` and `PcapWire` (it takes no part in the handshake; `PcapSource` has it). Of the receive path: more than one
queue per port, which would race on everything `Capture` and `PacketDump` protect by nothing.

## Plan

1. Done: the replay (`PcapReplay`, `PcapWire`, `ReplayOrder`, `PcapSource`), `TxControl`, and the components around it.
2. Done: every safety invariant, action property and refinement the passing runs check is a theorem,
   under the assumptions named above.
3. The contents of the transmit pools: a start rewrites mbufs the NIC may still hold (`pktgen-cmds.c:1270`); with it the sequence slots.
4. Two receive queues on one dump list and one capture buffer.

The runs are one for each question: the components share one, since each is explored on its own and they read no
state of one another.
