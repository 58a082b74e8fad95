# CollScope-NS3: a formal model

TLA+ modules for the parts of CollScope that carry its logic: collective
communication among RDMA hosts in an ns-3 simulation, the hybrid data- and
pipeline-parallel training that runs on it, the host devices, rate control and
lossless switch fabric below, and beside the simulation the tools for a real
cluster: probes that trace NCCL and RDMA calls, and the programs that find a
slow rank in the traces. Paths are relative to the repository; `applications/` and
`point-to-point/` stand for `CollScope-NS3/src/applications/model/` and
`CollScope-NS3/src/point-to-point/model/`.

## The system

| component | state it keeps | operations | talks to |
|---|---|---|---|
| `HybridCC` (`applications/hybrid-cc.cc`), one per rank | phase, busy flag, counters of ready, begun and in-flight chunks, barrier counters, static schedule | `Forward`, `Backward`, completion callbacks, compute timers, point-to-point send and receive, two schedulers | its `RdmaCC`; the `HybridCC` of its group and of the neighbour stages (scheduled calls) |
| `RdmaCC` (`applications/rdma-cc.cc`), one per rank | schedule (`m_prevRank`, `m_nextRank`), `m_recvStep`, `m_sendStep`, `m_stepStu` | the collectives, `SendStep`, `SendChunkFinish`, `FinishRecvStep`, `Reset` | `RdmaDriver` (a queue pair per step); the `RdmaCC` of the destination (direct call when a queue pair finishes) |
| `RdmaHw`, `RdmaQueuePair`, `RdmaDriver` (`point-to-point/`) | per queue pair: sent, acknowledged, window, rate; per receiver: expected sequence number, NACK timer | send, receive, ACK, NACK, recovery, completion, rate control | the devices of the host; the application's callback |
| `QbbNetDevice`, `RdmaEgressQueue`, `BEgressQueue` | transmitter state, pause flags, queues, round-robin position | dequeue, transmit, receive, pause and resume, take down | channel, `SwitchNode`, `RdmaHw` |
| `SwitchNode`, `SwitchMmu` | bytes per ingress port (reserve, shared pool, headroom), pause flags, routing table | admission, release, PFC, forwarding | the devices of the switch |
| `hybrid_dppp.cc` | topology, routes, configuration | set-up, routing, failure injection, logging | all of the above |
| eBPF probes (`eBPF/nccl_hook.py`, `eBPF/rdma_hook.py`) | hash maps in the kernel: open calls by thread, work requests by queue pair and id, the counter of collectives | probes on entries and returns of library calls; attaching them | a real cluster; user space prints what they report |
| straggler algorithms (`straggler-algorithms/`) | the position in a trace, the pattern of a step, change points | step detection, change point detection, diagnosis | traces of the NCCL probe; each reads what the one before has written |

What is hard in it: the simulation runs in one thread, but as handlers whose order
the network decides. A collective has no tags, barriers or acknowledgements
beyond "a queue pair has finished"; the ranks of a group decide separately and
must decide alike; zero-delay events re-enter the schedulers; pause frames race
with the packets they are to stop; a host's device has one timer for all its
queue pairs, and is asleep if it is not set; DCQCN's timers restart each other.
The probes are the one part with real concurrency: probes of different threads
share maps, and are attached while calls run. `PROJECT.json` lists the hazards at their
lines, with the properties that watch them.

What makes each part correct: a collective delivers every step once, in order,
and reports its end once and not early; a pipeline runs every chunk through
every stage once, one operation at a time, its groups in agreement; a switch
loses no packet and no byte of its accounts, and every pause ends; a host's
device serves all queue pairs in turn and never sleeps over work; a rate keeps
its bounds and recovers; a report of a probe is about one call; a process is
blamed if it is late in the lines that are judged for a slow step, and these are
the step's own.

## Modules

**`RdmaCC`** is the endpoint of a collective as a record, its methods as
operators: an operator maps an endpoint to the endpoint the method leaves and
to the queue pairs and callbacks it caused. Both modules below use it, so the
step logic is written once. Message sizes are left out, since no branch reads
them.

**`Collective`** runs one collective among the ranks `0..N-1`. `Start` is
`StartApplication`, `QpFinish` is `SendChunkFinish` with the call of
`FinishRecvStep` at the destination inside it, as in the code. The queue pairs
of different ranks finish in any order. `op` chooses the operation and the
algorithm in the initial state.

**`RingPass`** is what a ring collective promises: items move along the ring
one hop at a time, only from who holds them, and a rank reports the end at most
once and only when it holds everything. `Collective` implements it
(`ImplementsRingPass`); a rank is mapped to the items of the steps it has
received.

**`HybridCC`** has one action per handler of `hybrid-cc.cc`. The event queue of
the simulator is explicit: `events` holds what is due in the current instant,
in scheduling order, because the code relies on that order among zero-delay
events. Compute timers of one kind have the same length, so they expire in the
order they were armed; those armed in one instant expire in one. Queue pairs
finish in any order. An instant may gather up to `Together` of them.

**`Pipeline`** is what pipeline parallelism promises: the order in which stages
pass chunks forward and back. The event-driven mode of `HybridCC` implements it
(`ImplementsPipeline`); a stage is through with a chunk when its leading rank is.

**`SwitchMmu`** is the shared buffer of a switch: reserve, pool and headroom per
port, with the admission, release and pause decisions of `switch-mmu.cc`, called
as `switch-node.cc` calls them, and the pause flag at the other end of each
link. `Receive`, `Dequeue` and `PfcArrives` are `SendToDev`,
`SwitchNotifyDequeue` and the PFC branch of `QbbNetDevice::Receive`. A packet
is its size. Which queued packet leaves next is left open.

**`PfcLink`** extends it with the time of one link: the sender transmits a packet
per slot unless it is stopped, and packets and frames spend their delay on the
link. This is what decides whether the headroom is enough. A frame waits for the
packet that is being transmitted, and for the ACKs and NACKs before it in queue 0,
which it shares with them under the shipped `ACK_HIGH_PRIO 1`
(`switch-node.cc:122`; the queue is first in, first out). Nothing in the code
bounds these: that they take at most `Ahead` slots is an assumption of the module.

**`Transport`** is the go-back-N of `rdma-hw.cc` between two hosts: queue pairs
that use the same ports one after another, as those of a collective do.
`SendPacket` is `GetNextQindex` with `GetNxtPacket`, `DataArrives` is
`ReceiveUdp` with `ReceiverCheckSeq`, `AckArrives` is `ReceiveAck` with
`RecoverQueue` and `QpComplete`. The receiver's state is found by the ports
alone, so packets carry the number of their message only as history. Sequence
numbers are bytes, because rounding to chunks and partial packets matter.

**`Delivery`** is what the transport promises: a message is reported as finished
once, and only when it has arrived. `Transport` implements it
(`ImplementsDelivery`) where the queue pairs that follow each other on the same
ports are kept apart (`Separate`): nothing is lost, there is one message, or the
window is of at most two packets.

**`HostDevice`** is a host's NIC with several queue pairs: `RdmaEgressQueue`
and `DequeueAndTransmit` of `qbb-net-device.cc`. `DequeueAndTransmit` is an
operator, since every event ends in it: a new queue pair, the end of a
transmission, an ACK or NACK, the end of a pause, and `m_nextSend`. `Found`,
`Cleared`, `Kept` and `NewIndex` are `GetNextQindex`: the queue pair whose turn
it is, the finished ones it passes, and the list and index after their removal.
Time is relative to now and goes on when no event is due. What a packet holds is
`Transport`'s matter; here ACKs arrive for packets that were sent and not set
back since.

**`Dcqcn`** is the rate of one queue pair under `cnp_received_mlx`,
`UpdateAlphaMlx`, `CheckRateDecreaseMlx` and `RateIncEventTimerMlx`, from the
first notification to `QpComplete` and after. The pending events are a sequence
in which a timer may stand twice: that it does not is `OneChain`. Rates are
integers, alpha is a fraction of `Scale`, rounded down.

**`StepDetector`**, **`ChangePoint`** and **`Diagnose`** are the straggler tools
one after another. `StepDetector` is `step_detector.py`, the search with the
prefix function one entry at a time. `ChangePoint` is the control of
`changepoint_detector.py`; whether a sum of real numbers passes its threshold is
a free choice. `Diagnose` extends both: steps are written, changes are found,
and `diagnose.py` maps them back to raw lines (`Line`) and judges another
process by a sliding window (`Sliding`). It does so with steps of its own:
`DetectOnBase` is the second `detect_steps`, without the options that
`step_detector.py` may have been given, and `written` keeps those and the steps of
the CSV file, so that a property can tell the two apart. Of the other processes
one is judged at a time; the shortest trace, which no range exceeds, is that of
any of them.

**`RdmaProbe`** and **`NcclProbe`** are the two tracing tools, **`Probes`** a host
that runs one of them. In `RdmaProbe` every access to a map is a step, because
probes of different threads run at once; the threads of the application and the
adapter are external. In `NcclProbe` a probe touches only what belongs to its
own thread, so its body is a step, and attaching is interleaved with the calls.
Every completion in `RdmaProbe` is one that succeeded. Of a failed one the adapter
fills in no `wc_opcode`, by which `rdma_hook.py:336` chooses the maps without a
look at `wc_status`: it may take an entry of the other side, and the model does not
show that.

`MCHybridCC`, `MCSwitchMmu`, `MCPfcLink`, `MCTransport`, `MCHostDevice`,
`MCDiagnose` and `MCProbes` hold the values of the constants for TLC.
`CollectiveProofs`, `HybridCCProofs`, `SwitchMmuProofs`, `TransportProofs`, `HostDeviceProofs`,
`DcqcnProofs`, `DiagnoseProofs` and `ProbesProofs` hold the theorems.

## Runs

| run | shows | bounds |
|---|---|---|
| `collective` | all operations and both all-reduce algorithms: counters, completion, skew, termination, `RingPass` | 4 ranks: the ring wraps, and halving and doubling has two levels |
| `hybrid_cc` | serialization, agreement within a group, conservation of chunks, the barrier between stages, termination, `Pipeline` | 3 stages (first, inner, last) of 2 ranks; 2 chunks, with and without a tight in-flight limit, training and inference; static mode with 1 chunk; `Together = 2` |
| `switch_mmu` | every byte is accounted for, bounds, pauses and their order | 2 ports with different headroom and shift, packets of 1 and 2 units, thresholds that change with the pool; at most `MaxFrames = 2` frames on a link |
| `pfc_link` | no packet is dropped and every pause ends | a link of 2 slots, and a slot of ACKs before a frame, beside a second port; the least headroom with which nothing is dropped; `MaxFrames = 1` bounds the frames of the other link |
| `transport` | every message is finished once and only when it has arrived (`Delivery`), and the ports are quiet between queue pairs | packets of 2 bytes, messages of 5 to 10; up to 3 messages; one loss that later packets show, or any 3; with a loss, one message or a window of two packets; at most `MaxFlight = 4` packets under way each way |
| `host_device` | an idle device with work is always woken, nobody is passed over for long, every message is finished | messages of 2 packets; 3 queue pairs without a window at rates of 1 and 3 slots a packet, or with a window of 1; 2 with DCQCN's changes of rate and an ACK to send or a pause; 2 with a pause and a NACK |
| `dcqcn` | bounds of the rate, one chain per timer, the line rate is reached again | 4 notifications at any moment, one of them perhaps on the last ACK; line rate 16, least rate 2; intervals of 2, 4 and 7 offsets; with and without `ClampTargetRate` |
| `diagnose` | steps are whole repetitions of the least period, changes a baseline apart, blame for late lines of those judged, which are the change's own unless the CSV file was written with options, and an end | all traces of up to 8 calls of 2 kinds and up to 5 of 3; three of some 30 calls, one with lines out of order; `Baseline = 5`, `N = 4`, `PThresh = 45` |
| `probes` | no report mixes two requests or two calls | 2 threads (symmetric); `rdma_hook`: 3 requests, 2 ids, maps of 1 entry a side, polls of 2 completions of which 1 is read; `nccl_hook`: 4 calls of 2 functions |
| `hybrid_dp3`, `switch_overcommit`, `transport_window` | a disagreement between the code and what its comments, documentation or assertions say; see `findings` in `PROJECT.json` | the smallest instance that has it |

The bounds on data are small where the code compares data with nothing else.
Two ranks to a group in `hybrid_cc` is what the passing properties need. From
three on (run `hybrid_dp3`), a rank that is ahead may end its send of the next
collective and signal a rank that has completed the present one and not yet begun
the next; the signal makes `SendStep` of the finished endpoint take its branch for
`m_sendStep` past the end (`rdma-cc.cc:252-257`), which calls the callback again.
In `switch_mmu` unsigned arithmetic is modulo `Wrap`, which is only reached when
the configuration does not fit (run `switch_overcommit`). In `pfc_link` the
headroom is `2 * Delay + 3 + Ahead` packets, and no less will do: with one packet
less, or with one more slot of ACKs before a frame, TLC finds a packet dropped.
Three times the delay, which `hybrid_dppp.cc` configures, is as much from
`Delay = 3 + Ahead` on. The shipped links (400 Gb/s, 1 us, packets of 1.3 KB) are
some 38 packets long, which leaves room for ACKs of some 35 packets' length before
a frame, some hundreds of them; that no more wait in queue 0 is not ensured by the
code. In `host_device` three queue pairs are the
fewest of which one can be passed over for another while a third leaves the
list; as messages are of two packets there, the bound of `BoundedBypass` is only
within reach while none is finished, and what follows is left to the theorem
`TurnsAreTaken`. Its devices pause ACKs with data (`ack_q_idx` 3; with
`ACK_HIGH_PRIO 1` it is 0, `hybrid_dppp.cc:1097`, and ACKs are not). In `dcqcn` the interval of the decrease is twice that of alpha, so that
they would coincide but for the offset. In `diagnose` the long traces have
fourteen or fifteen steps, enough for two changes that are a baseline apart and a baseline
from both ends. In `probes` 1 stands for the 65536 entries of a map and for the
8 completions of a poll that are read, so that both limits are passed. With one
call of `ncclAllReduce` there, a request of before is told by its time and its
immediate; its collective is the same or unknown. (Two calls pass as well, in 7
million states.)

In `transport` a message may stay unfinished when a loss is one that nothing
shows (there is no retransmission timer), so `Completes` leaves those instances
out. Three more limits of the code keep instances out of the run, each found by
TLC. With a loss and a window of three packets or more, the window may close for
ever (run `transport_window`; two packets are too few for it). With a loss, a
second message, and no window or one of three packets or more, a queue pair that is
finished but was set back by a NACK has sent again, its packets are taken for the
next message's, bytes are acknowledged that have not arrived (`AckedIsReceived`,
which no run checks), and a message is reported that is not there. Two
configurations that show it are
`[Conf EXCEPT !.win = 0, !.lose = "inside", !.losses = 1]` and
`[Conf EXCEPT !.win = 6, !.size = 6, !.lose = "inside", !.losses = 1]`; hence
`Separate` in `ImplementsDelivery`. A loss that later packets show needs a later
packet in the window: two of them, each with its ACK, or no window. With back-to-zero, chunks of two packets, a window of two and a loss, a
second NACK closes the window as above. With back-to-zero a message must be a
whole number of chunks, and without it at least one ACK interval or chunk long.
The shipped configuration has a window, no back-to-zero and an error rate of 0.

Limits of the code in other modules that keep an instance out of a run, or weaken
a property, each found by TLC:

- `Collective` with three ranks and halving and doubling: an idle step is skipped
  while a send runs, and `SendTargetValid` is false.
- The log that `hybrid_dppp.cc:270` writes for a finished queue pair looks at the
  entry of `m_prevRank` before `m_recvStep`; for a rank whose receives are all in
  before its last send ends this is past the end.
- `HybridCC` in static mode with two chunks: the arrival of a chunk executes the
  next entry of the schedule though an operation is active, and `OneActivity` is
  false. The run has one chunk there. In event mode, `m_inflightLimit` bounds the
  chunks begun, not what a stage holds of them.
- `HostDevice`: `m_rrlast` is an index, and is not shifted when finished queue
  pairs leave the list before it, so a turn may be missed. `BoundedBypass`
  allows for one missed turn per finished queue pair.
- `Dcqcn`: when the first notification comes with the last ACK, `QpComplete`
  has already cancelled the timers, and they are started for a queue pair that is
  gone. `OneChain` says so (`late`).
- `StepDetector`: with `--warmup 0` and no pattern ahead the search stays where it
  is for ever (`step_detector.py:95`); the model has no such option. The branch
  for a pattern that never matched (`step_detector.py:128`) is not reached.
- `Diagnose`: the steps of the trace are detected again without the `--warmup` and
  `--window` that `step_detector.py` was given (`diagnose.py:167`), so that the
  numbers of the steps in the CSV file, in which the changes are found, may be
  those of other steps, and the lines that are judged of another segment of the
  trace. `BlameIsLocal` places them only when no option was given. In a trace out
  of order they begin and end too early, but not too late.
- `RdmaProbe`: two threads in `ncclAllReduce` may take the same number, against
  the comment at `rdma_hook.py:177`, because it is read and added to separately
  (lines 383 to 390). Requests are known by queue pair number and id, so queue
  pairs of two devices with one number, which the module leaves out, would mix.
- The documentation of `detect_changepoints` differs from its code
  (`changepoint_detector.py:73-75`): other defaults of `h_factor` and
  `confirm_count`, a confirmation by points "consecutive" that is by a share of
  a window, and a least percentage that the change reported need not reach.

`CHECK_DEADLOCK FALSE` is used where a run ends by itself: a collective, or a
training, that is over, or a transport, device, program or traced job with
nothing left to do.

Fairness. The simulator executes every event in the queue, so every handler
that is due runs, and timers expire. Queue pairs finish because the fabric is
lossless (which `NoDrop` is about) and the transport then finishes every message
(`Completes`). In `transport` what is under way arrives or is lost, a queue pair
that may send is picked, and the NACK timer expires; losses are not fair. In
`pfc_link` time passes, what is due arrives, and the switch goes on
transmitting what is queued: the port behind the queue is not paused for ever.
In `host_device` the simulator goes on while there is an event: fairness is of
the next event as a whole, and not of each queue pair's. In `dcqcn` timers
expire; notifications and the last ACK may come or not. The straggler tools are
sequential programs, so fairness is of the next step. The probes have no
liveness property: what is never polled is never reported.

`PROJECT.json` names, for each property, a plausible mistake in the code (an
operator marked "faulty" in the modules) under which TLC finds the property
violated.

## Proofs

`CollectiveProofs` proves the ring collectives for every number of ranks
`N >= 2`. All theorems have the form `Algs = {1} /\ Spec => ...`.

The properties are not inductive: that a rank's receive counter is right says
nothing about why the next step keeps it so. The invariant `IInv` says where
each rank stands, in one of five states (not started, begun, sending, waiting
for data, finished), with the exact values of its counters in each, and links
every rank to its successor: the successor has received exactly what the rank
has sent. From the link and the test in `SendStep` (send only when the step
before is received) follows that neighbours are at most one step apart one way
round, and summing the differences around the ring gives `BoundedSkew`, `N - 1`
for any pair. Actions are handled as the code does them, the receiver first and
then the sender, through lemmas on `SendStep` in each state. For `RingRefinement`
every step is shown to be a `Pass` of `RingPass` or a stutter.

`HybridCCProofs` proves the five invariants of `HybridCC` in event mode, with
groups of two ranks, for any number of stages and chunks, any limit of chunks in
flight and any `Together`. (`DP = 2` and `EventMode` are hypotheses of the
theorems: in static mode with two chunks and with groups of three the invariants
are false: see the limits above and run `hybrid_dp3`.) None of the invariants
is inductive. The invariant looks at each rank through its *view*: its record,
its endpoint, its queue pairs and, for each name of an event, how many it has due
or armed. It has three layers:

- of one rank (`RankOK`): what is outstanding is the step its phase names, the
  endpoint is at one of the places a ring of two allows, and the chunks begun,
  ready and announced never exceed those there are;
- of a group and of two neighbour stages: the two ranks agree in all they decide
  from (`PairOK`), the reports counted and to come make one group (`GroupOK`), and
  what has come in at a stage is what its neighbour has let out (`LinkOK`);
- of the event queue (`Aligned`): events that both ranks of a group run stand next
  to each other. The second layer holds when both ranks have run the same events
  (`Settled`), and is broken between the two handlers of a pair; there the state is
  described by the view the first rank had before its handler (`Halfway`), with
  the second event still at the head of the queue.

Every handler of a pair is shown to keep the first layer (`RankStep`, one lemma
per handler and branch), twice the same handler to keep the second, and what it
schedules to keep the third; the handlers of single events (reports, the
barrier, the ends of queue pairs, what comes due from outside) keep all three
at once. The lemmas before that count the events of a rank in queues and in the
batches of the timers.

`SwitchMmuProofs` proves `Accounted`, `HeadroomBound`, `HeadroomMeansPaused`,
`NoStuckPause` and `PfcAgrees` for any set of ports, packet sizes, thresholds and
headroom, under `Fits`: headroom and reserve of all ports leave a pool. Its
invariant has three parts: what the counters add up to and that the pool is
never exceeded (so the threshold does not wrap); that a port with headroom in
use is paused and a paused port has packets; and that the frames on a link
alternate, beginning with the opposite of what the other end knows and ending
with what was sent last. `Fits` cannot be dropped: run `switch_overcommit`.
The pool is shared, so `SharedIsSum` and `BufferBound` are about sums over all
ports. They rest on lemmas on such sums: a change at one port changes the sum by
as much, and a sum is monotone in its terms.

The same module proves `NoDrop` of `PfcLink` for a link of any delay
(`LinkIsLossless`), under `Covered`: the headroom is at least two delays, three
packets and the ACKs before a frame, `2 * Delay + 3 + Ahead`. The invariant counts what may still arrive before the sender
stops (`Coming`): while the port is not paused it holds no headroom; while it is,
the packets on the link and those the sender may add until the pause arrives fit
what is left of it (`Room`). `ConfiguredHeadroom` says that three
times the delay, which `hybrid_dppp.cc` configures, is enough when a link is at
least three packets longer than the ACKs that a frame waits for. Both theorems
assume the bound `Ahead`.

`TransportProofs` proves `QuietAtEnd` and the refinement of `Delivery` for any
messages, windows, chunks and ACK intervals, under `Safe`: nothing is lost, or
there is one message. Without loss the invariant describes the whole path: the
data under way is a stream without gaps from what the receiver expects to what
the sender has sent, the ACKs on their way grow and end with what the receiver
expects, so no NACK is ever made. With one message and losses only the ranges
can be kept, and they suffice for `Delivery`: what is acknowledged has been
received. `AckedWasReceived` states that fact; with a loss and a second message
it is false (see above).

`HostDeviceProofs` proves `TypeOK`, `NoLostWakeUp` and `BoundedBypass` for any
number of queue pairs, messages, windows and gaps. `GetNextQindex` moves by index in a list
from which it removes others on the way: the lemmas say which places are kept,
that the order is the old one, and that no queue pair is listed twice.
`NoLostWakeUp` is then re-established by `DequeueAndTransmit` from any state in
which queue pairs and the list make sense, which is why each event may break it
before it ends in that call.
`BoundedBypass` is about what happens over many steps, so its invariant (`TurnInv`)
counts turns. A queue pair in the list is found `k` turns from `m_rrlast` on; each
packet that goes before it brings it nearer by one turn at least (`TurnTaken`), so
what went before and the turns to come are together at most the length of the
list, which a new queue pair makes longer by one (`AppendInTurn`). When queue pairs
leave the list the index may point anywhere, and the count of turns starts anew
(`RemovalInTurn`); each leaves once, when it is finished, which pays for one more
round. TLC checked `TurnInv` on the run's instance before it was proved.

`DiagnoseProofs` proves `ChangesApart`, `StepsAreWhole`, `DetectsPeriod` and
`BlameIsLocal`.
For `ChangesApart` the invariant adds where the current segment starts: at 0, or
at the last change, to which nothing is nearer than a baseline because an alarm
is raised beyond the segment's baseline and confirmed no earlier. For
`StepsAreWhole` it says that what the prefix function has stored so far are
borders of what lies ahead; so when a pattern is taken up it occurs twice
running, the first mismatch comes after two steps, and the branch of
`detect_steps` for a pattern that never matched is not reached. For
`DetectsPeriod` they are the longest borders: a longer one would, without its
last event, be a border that the search for an extension tried before and could
extend (`NextBorderIsLongest`), so the stretch less its longest border is its
least period. While the search is on, no shorter stretch beyond the warm-up is a
pattern repeated (`NoneSoFar`), and the first one that is ends the search. For `BlameIsLocal`
it says that changes are judged in their order, and what has been said of each,
and that without options the second detection is as far as the first was or has
found the same steps: detection is a function of the trace and the options
(`Successor`), so the run of the first is kept and followed (`WrittenInv`).
Lemmas show that `step_to_raw_line` finds the step's own line in a trace in order
and an earlier one otherwise, and that the count of the sliding window is the
number of late lines in it.

`DcqcnProofs` proves `RateBounds` and `OneChain` for any rates, gains and
intervals. The first needs that the rate is the line rate until the first
notification, which keeps one part in `FirstCnp` of it; the assumption that the
least rate is at most this part (`DcqcnAssumption`) is that of the
configuration. The second has an invariant on the pending events: no two are of
one timer, and a decrease and an alpha update are a whole number of units and the
offset apart. It assumes that the intervals are multiples of a unit longer than
the offset (`InUnits`): in the code they are microseconds, and the offset is a
nanosecond. Lemmas say what appending and removing an event does to the set of
events; each handler is a composition of these.

`ProbesProofs` proves `OwnCall` and `OwnRequest`. For the first: what the maps
hold for a thread is only known while the thread is in a call whose return will
be probed; that such a call has stored its entry follows from the order in which
`attach_hooks` attaches. For the second, for any queue pairs, ids and sizes of
the maps: who posts a request has its key alone (`Exclusive`), since an id is used
again only when its request is over; so what the maps hold under that key, if
anything, is the request's own once its probe has stored it, for an update
replaces an entry that was left behind even in a full map.

Assumptions on constants are those of the code's types and configuration. Three
deserve a word: `LinkAssumption`, whose `Ahead` the code does not bound (above); `ConfAssumption` of `HostDevice` (a gap is at least a slot: a
rate is at most the line rate) and `DiagnoseAssumption` (a trace is a finite
sequence of records with integer times).

Recursive definitions are recursive functions. What they return for every input
is shown, where it is, by the least place at which it would differ (`LeastNumber`),
since the library's induction rules cannot be used with these provers.

Only model-checked: liveness (`Termination`, `Resumes`, `Completes`, `Finishes`,
`Recovers`), which is out of the prover's reach; halving and doubling, whose
schedule is defined by powers of two and `CHOOSE`; `ImplementsPipeline` and the
static mode of `HybridCC`.

## Not modelled, and the plan

In this order:

1. Link failure: `TakeDown`, `RedistributeQp` and what the MMU keeps; the
   shortest-path routes of `hybrid_dppp.cc` against a reference definition.
2. The round robin of `BEgressQueue` among the data queues of a switch port.
3. Proofs: `ImplementsPipeline`.

Left out for good: HPCC, TIMELY, DCTCP and PINT (one computation on real numbers
per ACK, no timers), `backprojection.py` (matrix computation), ECMP hashing,
packet headers and telemetry formats, discovery of processes and libraries,
parsing, plotting and printing, and Scatter, Gather and AlltoAll of `RdmaCC`,
which send one message per peer without any step logic and are not called. In
`rdma_hook.py`, chains of work requests (`wr->next`) and the numbers of devices and
processes in its keys are assumed away, as the module says.

The vendored ns-3 is not modelled either; its event queue is modelled as the code
uses it. Of the Python in the repository all but a few thousand lines is ns-3's:
generated bindings, the `waf` build system and their tools, which hold no logic of
this program. The maps of `PROJECT.json` are about the program's own C++ and
Python.
