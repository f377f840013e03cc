# TLA+ models of TSO pacing on the Netronome NIC

This directory specifies, model-checks and partly proves the concurrent core
of the repository: the pacing queue added to the NIC firmware
(`modified-nfd-firmware/notify.c`), the batch protocol in front of it, and the
host driver that feeds and configures both
(`modified-nfd-driver/nfp_net_common.c`): its transmit and receive paths, the
flow table behind the pacing, and how it opens, closes and reconfigures a
device.

| file | what it is |
| --- | --- |
| `Pacer.tla` | abstract specification of what the pacing queue promises |
| `PacingQueue.tla` | the pacing queue as the firmware implements it |
| `MCPacingQueue.tla`, `MCPacingQueue_*.cfg` | its instances for TLC |
| `PacingQueueProofs.tla`, `PacingSyncProofs.tla` | theorems about `PacingQueue`: those that need no time, and those that rest on it, with the refinement of `Pacer` |
| `NotifyBatch.tla` | the firmware's batch protocol: from completed DMAs to enqueued packets and credits |
| `MCNotifyBatch.tla`, `MCNotifyBatch_*.cfg` | its instances for TLC |
| `NotifyBatchProofs.tla` | theorems about `NotifyBatch` |
| `Reconfig.tla`, `Reconfig_*.cfg` | the driver's firmware reconfiguration and its instances |
| `ReconfigProofs.tla` | theorems about `Reconfig` |
| `TxRing.tla`, `TxRing_*.cfg` | the driver's transmit ring and its instances |
| `TxRingProofs.tla` | theorems about `TxRing` |
| `Idt.tla` | the inter-departure time, from the pacing rate to the firmware, as operators |
| `FlowTable.tla` | the driver's flow table, with `Pacer` behind it |
| `MCFlowTable.tla`, `MCFlowTable_*.cfg` | its instances for TLC |
| `FlowTableProofs.tla` | theorems about `FlowTable` and `Idt` |
| `Vector.tla`, `Vector_vector.cfg` | receive ring, XDP ring, NAPI, control queue |
| `VectorProofs.tla` | theorems about `Vector` |
| `NetDev.tla` | opening, closing, ring reconfiguration, receive mode, link status |
| `MCNetDev.tla`, `MCNetDev_netdev.cfg` | its instance for TLC |
| `NetDevProofs.tla` | theorems about `NetDev` |
| `PROJECT.json` | components, runs, mutants, map to the source, findings, hazards, theorems |

Run `tlc -config X.cfg M` for a run and `tlapm M.tla` for the proofs.

## 1. The system and its parts

The path of a packet. The driver gives each flow that sends large bursts one
of 31 flow ids (**flow table**), turns the socket's pacing rate into an
inter-departure time (**IDT**) and puts both in the VLAN field of the transmit
descriptor, then publishes descriptors on the **transmit ring**. The firmware's
gather engines fetch the data; a *notifier* context learns of it through the
**batch protocol**, computes each packet's departure time and books it into the
**pacing queue**; a *dequeuer* context gives it to the sequencer's work queue
when its slot is over. Control changes reach the firmware through the
**reconfiguration** protocol.

| component (source) | state | operations | interacts with | hard behaviour | what makes it correct |
| --- | --- | --- | --- | --- | --- |
| pacing queue (`notify.c` 267-556, 710-993) | CTM ring, LM window, two bitmasks, heads and sync ends, `flows_prev_dep_time`, transfer registers and their signals | book, write to LM or CTM, sync a chunk, dequeue, halt | batch protocol (caller), CTM and work-queue engines (late completions), clock | contexts interleave at every wait; writes and reads complete late and in any order; two rings of different length; rounding of time | each packet leaves once, as booked, in its flow's order, never early; no context waits for ever; the engine does not stop itself |
| batch protocol (`notify.c` 1011-1264, 853-900) | `complete`, `served`, `sent`, jumbo sequence number, issued and LSO rings, TX_R pointer | full batch, partial batch, segments, jumbo wait, credit, reflect `served` | DMA engines, `issue_dma` engine, pacing queue | two contexts share counters that wrap; every copy of a counter is old | a message is used only after its DMA; rings are read in step; every batch is credited once |
| set-up and debug (`notify.c` 560-705, 1267-1338) | registers, debug counters | init | all contexts | none | - |
| reconfiguration (`nfp_net_common.c` 137-405) | UPDATE register, `reconfig_posted`, `_sync_present`, `_timer_active`, the kernel timer | post, timer, sync enter, wait, finish, wait_posted | control firmware, RTNL callers, any context that posts, removal (4299, 4606) | locks dropped around long waits; timer races; timeouts; firmware errors | no request lost or overwritten; callers told the truth; nothing pending at removal |
| flow table (`nfp_net_common.c` 68-79, 989-1064) | 31 hashes and expiry times | look up, claim, refresh | all transmitting CPUs, without a lock | races between claim and refresh | one entry per flow, one flow per entry |
| IDT (`nfp_net_common.c` 756-925) | the descriptor's 16-bit field | non-TSO, TSO conversion | firmware decoding (`notify.c` 757-778) | rounding, clamps, shared bit field | the decoded time is the rate's, within the limits the comments give; flow id intact |
| transmit ring (`nfp_net_common.c` 719-750, 1160-1165, 1224-1592) | `wr_p`, `rd_p`, `qcp_rd_p`, `wr_ptr_add`, stopped queue, `txbufs` | transmit, stop, wake, complete, reset | network stack, NAPI, queue controller | stop/wake race, deferred doorbells, half-mapped packets | never overrun, never stopped for ever, nothing left unflushed |
| receive, NAPI, XDP (`nfp_net_common.c` 1480-1519, 1624-2335) | RX ring's `rd_p`, `wr_p`, `rxbufs`, DD bits, freelist; XDP ring; interrupt mask | receive, drop, pass, XDP_TX, complete, poll, reset, refill | device, NAPI, stack, open/close | buffers swapped between two rings; budget and interrupt; rings reset twice | each buffer in one place, frames taken once, in order, none left behind |
| control queue (`nfp_net_common.c` 2337-2578) | its TX ring, `r_vec->queue` | send, send queued, receive | tasklet, applications | direct and queued messages race; budget | messages go out in order, and all |
| open/close, ring reconfiguration, receive mode, link (`nfp_net_common.c` 417-428, 535-693, 2621-3602, 3721-3802) | `nn->dp`, rings, vectors, interrupts, control word in the driver and in the BAR, `link_up` | open, close, swap rings, roll back, set receive mode, set features, link interrupt | firmware (by the outcomes of reconfiguration), transmit and receive rings | stages that fail, a firmware that refuses or does not answer, receive mode without RTNL | nothing leaked or used after it was freed, both copies of the control word agree, a failed change is undone |
| offloads, VXLAN ports, VLAN filter, statistics, capabilities (`nfp_net_common.c` 925-986, 1067-1214, 3603-3720, 3803-4224, 4314-4614) | descriptor fields, port table, counters | - | - | none: one packet at a time, or alone under RTNL | not modelled, see 11 |
| `misc/` variants, scripts, docs | historical firmware, experiments | - | - | - | not modelled: not built, or sequential I/O |

`PROJECT.json` lists, under "hazards", each place where this code is hard to
test, with the properties that watch it.

## 2. The pacing queue (`PacingQueue.tla`)

**State.** Variables have the names of the firmware's globals. Ring contents
are packet numbers; `0` is memory never written. `bitmasks` and `lm_bitmasks`
are the sets of slots whose bit is set. `pc` says at which wait a context gave
the engine away: `notify` (ready for a packet), `ctm_wait` (in
`_SEND_PACKET_TO_CTM`), `loop`, `read` (in `sync_ctm_lm`), `wait_reg` (in
`dequeue_pacing_queue`). `writes` and `adds` are memory operations under way;
`sync`, `batch_in`, `msg_sig` a dequeuer's two reads. `pkts`, `book`, `wire`,
`busy` are history: accepted packets, what each slot is booked for, what was
sent in which order, and the length of the current busy period.

**Actions.** Contexts of a microengine are cooperative, so an action is what a
context does between two points where it gives the engine away.
`EnqueueLm`/`EnqueueCtm`/`EnqueueHalt` are one packet of `_NOTIFY_PROC` (or one
segment of a TSO packet) with departure time, clamp, search and bits;
`SendPacketToCtm` issues the reserved write after its wait; `SyncReserve` and
`SyncPlace` are `sync_ctm_lm` before and after its wait; `StartDequeue`,
`LeaveDequeue`, `DequeuePacket`, `PassEmptySlot` are `dequeue_pacing_queue`
with the re-check after its wait. `CtmWriteDone`, `CtmReadDone` (one per read
instruction), `WorkqAddDone` and `Tick` are the environment.

**Abstractions.** A descriptor is its packet number. The flow ids and IDTs a
driver may ask for are the set `Requests`. Sequence numbers and work queue
choice are the order of `wire`. The word-by-word search is the least free
offset in the same span, `SearchSpan`: 20 words whose first counts from the
start bit (609 to 640 slots). Sizes are constants with the relations between
the `#define`s as assumptions (`SizesAssumption`, `ChunkAssumption`). The clock
is unbounded in the specification; its 64-bit counter does not wrap in use.

**Environment.** `Tick` assumes two things about hardware that the code relies
on but cannot check: a busy period does not span more than `MaxBusy` slots
(the dequeuers keep up), and an operation completes, with its context
scheduled, within `MaxOp` ticks. The values matter: with `SyncLength` slots
synced ahead and up to `SyncChunk - 1 + MaxBusy * |Dequeuers|` slots of
backlog, the code is right only while

    MaxBusy <= SyncChunk
    MaxOp   <= (LmLength - SyncLength - MaxBusy - 1) * SlotTicks
    MaxOp   <= (SyncLength - C - MaxBusy - 1) * SlotTicks,  C = SyncChunk - 1 + MaxBusy * |Dequeuers|

TLC finds stale packets sent (`SentAsBooked`) in the small instance as soon as
`MaxOp` or `MaxBusy` exceeds this (3, and 2). With the code's sizes (192, 128,
8, 4 dequeuers, slots of 32 ticks of 16 cycles) the slack is dozens of slots.

**Properties.** `ConsistentAtSwaps`, which holds whenever a context gives the
engine away, is the conjunction of four facts about pieces of state that
different contexts keep: `RingsInStep` and `BacklogBounded` (the two rings and
the sync window), `LmBitsSound` (an LM slot protected from a sync holds what is
booked for it) and `SignalsComeBack` (every lowered signal has exactly one
operation that raises it). `BookingsExact`: bits, bookings, packets and due
times agree. `FlowOrder`; `NoEarlyDeparture`, `SentAsBooked`,
`DisplacedByBacklog` (action properties); `AllLeave` (liveness);
`ImplementsPacer`. `TypeOK` is the type invariant that `TypeCorrect` proves.

**`Pacer.tla`** has no rings and contexts: a packet is accepted with a slot of
its own that ends after its departure time and after its flow's other slots;
the waiting packet with the first slot leaves once that slot is over.
`PacingQueue` implements it with the identity mapping on `now`, `pkts`, `wire`.
`pkts[p].due`, the end of the booked slot, is history in the detailed module.

### Runs

| run | instance | shows |
| --- | --- | --- |
| `pacing_sync` | 2 notifiers, 2 dequeuers, rings 16/10, sync 6 in chunks of 2, search 2 words of 2, 22 ticks, `MaxBusy = MaxOp = 1`; 4 packets in the first 3 ticks, or 2 at any time | `ConsistentAtSwaps`, `NoEarlyDeparture` and `SentAsBooked`, while both rings wrap, syncs overlap, and writes and reads are late by one slot; `BookingsExact` and `FlowOrder`, also when the search window is smaller than the traffic |
| `pacing_subslot` | slots of 2 ticks, IDTs 3 and 27 (beyond the horizon of 24 ticks), 2 packets, 32 ticks, fair | rounding: refinement of `Pacer`; and every accepted packet leaves |
| `pacing_halt` | ring 8/4, 4 packets | violation: the "should never happen" halt (see 9) |

*Bounds.* `MaxPackets` and `MaxTime` bound a behaviour. 22 ticks pass the end
of both rings (16 and 10 slots) with the head, so every wrap happens, and let
packets that were put in CTM be synced and sent; two packets suffice for a
stale slot (a packet in a reused slot) and three or four for displacement and
a full window. One transfer register per context makes the wait for it
frequent; with more, waits only get rarer. Permuting contexts is a symmetry of
the specification; `pacing_subslot`, which checks liveness, does not use it.
`MCPacingQueue` keeps the crowd of four packets and the long runs apart, since
both together are too many states: with more than two packets the clock stops
at 3. `CHECK_DEADLOCK FALSE` is only in `pacing_sync`, where `halt()` really stops
the engine when the crowd fills the window; elsewhere a deadlock would be
reported until the clock's bound, after which dequeuers still run their loop.

*Fairness.* The engine's context arbiter is round robin, so a context that can
run does (`WF` per context); an issued memory operation completes; the clock
runs. Nothing says that packets arrive, so enqueueing is not fair.

### Proofs (`PacingQueueProofs.tla`, `PacingSyncProofs.tla`)

For all constants that meet the assumptions, any finite number of dequeuers and
any number of notifiers, without an assumption about time:

* `TypeCorrect`: `Spec => []TypeOK`. `TypeOK` is not inductive: the copy of a
  chunk and its read address slots `ctm .. ctm + SyncChunk - 1` without a wrap,
  which is inside the ring only because sync ends are multiples of the chunk.
  The invariant `TInv` adds that alignment (`Aligned`).
* `BookingsAreExact`: `Spec => []BookingsExact`. The invariant `BInv` adds that
  packet numbers in `book` are accepted ones, that no two slots share one and
  that departures are counted; the argument splits steps into those that
  reserve a slot, those that advance the head by one slot (every distance
  shrinks by one while the head time grows by one slot) and the rest.
* `NeverEarly`: `Spec => NoEarlyDeparture`, from `BInv` with: a slot ends after
  the departure time of the packet booked in it.
* `SignalsAreRaised` (`SInv`: the operations under way have different signals,
  and a lowered signal has one) and `LmBitsAreSound` (`LmInv`), two parts of
  `ConsistentAtSwaps`.
* `FlowsInOrder`: `Spec => []FlowOrder`. The invariant `OInv` says why a later
  packet of a flow cannot slip in before an earlier one: from the slot of the
  flow's last departure time to the slot of its last waiting packet every slot
  is occupied (`NoGap`), so the search that starts there goes past it.
* `BoundedDisplacement`: `Spec => DisplacedByBacklog`, which is proved only.
* `NobodyIsStuck`: when no memory operation is under way and no context can go
  on before the clock does (`AtRest`), no context waits for a register, no
  chunk is left to sync, and no booked slot is due. It follows from `SInv` and
  `BInv` with `Roles`, where a context may be.

What rests on time is proved under `EnoughSlack`, the three inequalities above.
They are a hypothesis of these theorems and not an assumption of the module,
because one instance runs without it; `pacing_sync` meets it, and so do the
sizes of the firmware, which leave 55 slots for a write and 80 for a sync.

* `AlwaysConsistent`: `Spec => []ConsistentAtSwaps`. The invariant `CInv` bounds
  the backlog by what each dequeuer that is not in its loop may leave behind;
  `RInv` adds that rings and sync window move in step.
* `WhatIsBookedIsSent`: `Spec => SentAsBooked`. The invariant `WInv` dates every
  operation: a write is younger than `MaxOp` and its slot far enough from the
  head, a chunk being copied is still ahead of the head. `VInv` follows a packet
  through its stages: it is protected in LM, or written to CTM (or about to be),
  and inside the window copied to LM (or about to be, and what was read of it is
  right).
* `PacerIsImplemented`: `Spec => ImplementsPacer`, every step of the queue is one
  of `Pacer` or a stutter. `XInv` adds that every accepted packet has a slot or
  left.

* `DueAreGone`: at rest, every packet whose slot is over was given to the work
  queue, by `NobodyIsStuck` and `XInv`.

Liveness (`AllLeave`) is out of the prover's reach; `NobodyIsStuck` and
`DueAreGone` are what it adds to fairness: a packet that is due can only stay
while an action that is fair has still something to do.

## 3. Reconfiguration (`Reconfig.tla`)

**State and actions.** The register (`update_reg`, `reg_err`), the driver's
three flags and the kernel timer (`timer_pending`; `handler`: it fired and its
handler has not got `reconfig_lock`). Synchronous callers hold RTNL, so there
is one at a time, with `pc` at its waits. Critical sections of `reconfig_lock`
are actions; `DelTimer`, the waits and the register writes of the synchronous
caller, which happen outside the lock, are actions of their own. An update is
a set of kinds, since posts merge. The control firmware is external: it takes
the register after a doorbell and clears it or sets its error bit. No bound is
needed: the state space is finite.

A caller's operation is `reconfig`, `wait_posted` or `clean`. The last two both
call `nfp_net_reconfig_wait_posted()` (298-305): one from
`nfp_net_mbox_reconfig_wait_posted()` (396-400), which is exported and has no
caller in this repository, the other from `nfp_net_clean()` (4613), device
removal, after which nothing is posted, since the interface is unregistered.

`TimerRaces` lets other CPUs take the lock before the handler of a timer that
fired; `FwMayBeLate` lets waits and the timer run into `NFP_NET_POLL_TIMEOUT`.
Both are on, with all three operations, in the run that must pass.

History: `owed` are requests not carried out yet, `again` those made since the
firmware last looked, `left` those that `nfp_net_reconfig_wait_posted()` left
behind. Three flags record, each when it happens, what may go wrong: `late` (a
deadline was missed), `overtaken` (the driver went on between a timer's firing
and its handler) and `clobbered` (an update was started while the firmware was
not done with another one).

| run | instance | shows |
| --- | --- | --- |
| `reconfig` | two kinds of post, all three operations, races and timeouts; fair | `OneAtATime`: an update is started over another one only after a missed deadline or an overtaken handler. Unless that happened, however many deadlines were missed, no request is lost (`NothingLost`) and a caller told 0 was served (`SyncCarriedOut`). `CleanAtFree`: nothing is left at removal unless a handler was overtaken. But for what `wait_posted` leaves, posts have somebody to start them (`KickedOffUnlessLeft`) and do start (`PostedStarts`) |
| `reconfig_posted` | no races, no timeouts | violation of `KickedOffWhenIdle`: `wait_posted` leaves posts to nobody |
| `reconfig_free` | `reconfig` and `clean`, races, firmware in time | violation of `FreedClean`: a timer is armed at removal |

The two violations are the disagreements 2 and 4 of section 9; with their
exceptions named, these properties are `CleanAtFree` and `KickedOffUnlessLeft`. The
exceptions are the narrowest ones TLC and the proofs allow: `NothingLost` and
`SyncCarriedOut` survive every missed deadline that is not followed by a start
over the busy firmware, `CleanAtFree` every missed deadline. What is excepted is
real: after an update that timed out the next one overwrites the register (139),
the firmware's answer to the first zeroes it, `check_done` (162-164) takes any
zero for success, and the second caller is told 0 for something that was not
done. TLC finds it at once when `clobbered` is left out of `SyncCarriedOut`.

`CHECK_DEADLOCK FALSE`: a removed device stops. *Fairness*: a polling caller is
scheduled, an armed timer fires, its handler gets the lock, and a firmware that
is not late answers.

**Proofs (`ReconfigProofs.tla`)**, for any kinds of update and any operations,
in layers that each assume less to have gone wrong:

* `IStops`, types and what each stop of the caller knows, holds always.
  `PostedAreKickedOff` (`KickedOffUnlessLeft`) is inductive by itself.
* `IFirm` holds until `clobbered`: the register tells whether the firmware is
  busy and with what (`RegisterTells`), and requests made since it last looked
  are still to be shown it (`AgainHeld`). It gives `RequestsAreKept`
  (`NothingLost`) and `CallersAreServed` (`SyncCarriedOut`).
* `ITimers` holds until `overtaken`: the flag tells of the timer. It gives
  `FreedWhenClean` (`CleanAtFree`).
* `IWatched` holds until `late` or `overtaken`: whoever started an update is
  still there to see it done. It gives `UpdatesOneAtATime` (`OneAtATime`).

## 4. The batch protocol (`NotifyBatch.tla`)

**State.** `complete`, `served`, `sent` are `data_dma_seq_compl`, `_served` and
`_sent` of one side, in numbers that wrap at `SeqNumbers`. The issued ring and
the LSO ring keep everything that was put in them; a reader is a count
(`taken`, `lso_taken`), and `want` is a get under way. `pc`, `mode`,
`num_avail`, `partial_served`, `batch_in`, `n_batch`, `qc_queue` are the
notifier's place and locals; `mode` says which of the copies of `_NOTIFY_PROC`
it is in: of a full batch, of a partial one, or of a partial one's last
message. `qc_add` is an addition to a TX_R pointer under way (`qc_sig` is
raised when there is none). `out` is history: what was enqueued, and which
message's pacing it had.

**Actions.** Again a context's stretch between two points where it gives the
engine away. `StartFull` and `StartPartial` choose and issue the first get,
`FirstArrived` reads the head of the batch, `WaitForMore`/`FetchNext`/
`NextArrived` are the loop of a partial batch, `ProcessPacket`/`ProcessNone`/
`ProcessLso` the three kinds of message, `LsoGet`/`JumboWait`/`Segment` the
segments of one, `Credit` the addition to TX_R, `distr_notify` the manager.
What enqueueing does is `PacingQueue`: there `Enqueue` is entered wherever
`Enqueue` here appends to `out`. The two sides of an engine share no state that
outlives such a stretch, except through the pacing queue, so one is modelled.

**Environment.** `issue_dma` and the DMA engine are not in the repository; they
are modelled from what `notify.c` says of them: DMAs complete in order, a
jumbo's after the DMA its message is counted by and before those of the next
messages (the comment at 890-892 needs exactly this), counts are reflected
after any delay, and batches are issued while the reflected `served` leaves
room. One assumption is about time: at most `MaxJumboLag` jumbo DMAs are
completed and not yet reflected. Messages are of the three kinds `_NOTIFY_PROC`
tells apart, and one that is cut into segments has at least one
(`BatchAssumption`).

| run | instance | shows |
| --- | --- | --- |
| `batch` | fair, batches of 3 (a part of a packet, a packet cut into segments with an entry where none ends, a packet), ring of 2 batches, 8 sequence numbers, 3 batches | nothing is used before its DMA (`UsedWhenDone`, of messages and of segments), the ring is not overrun (`RingNotOverrun`), credits are exact (`CreditsExact`), packets are enqueued as issued (`EnqueuedAsIssued`), everything is credited in the end (`AllAreCredited`) and the issuer goes on (`RoomComesBack`) |

*Bounds.* The window of outstanding messages is 6 and there are 8 sequence
numbers, so they wrap in the third batch, and every difference that can occur
does, between 0 and the whole window. Batches of 3 have a first, a middle and a
last message, which a partial batch treats differently. The counterpart in the
code is a window far below 2^32 (`WindowAssumption`). Jumbo sequence numbers
are compared by their signed difference, so their window must be below half of
them, that of the ring and that of one message's segments with the lag
(`JumboAssumption`); with fewer of them the wait for a jumbo DMA does not
end. At 20 of them no behaviour of 3 batches passes the wrap: the jumbo wrap is
covered by the proofs only (`NothingIsStuck`).
`CHECK_DEADLOCK FALSE`: after `MaxBatches` batches nothing is issued any more.
*Fairness*: contexts take turns (every loop of both contains a
`ctx_swap` or a wait), engines are not delayed for ever; nobody has to issue.

What the runs show beyond the obvious: `served` runs ahead of the gets, for a
full batch by all of it, and the issuer then believes in room that is not there
yet. `RingNotOverrun` therefore does not count the messages a get under way is
about to take: the ring is safe because a get that was issued is carried out
before what is put later, an order of the memory engine that no line of the
code checks. And the early end of the jumbo wait counts whole messages of
later batches: it would still be right with `>=`, and is wrong with any less.

**Proofs (`NotifyBatchProofs.tla`)**, for any batches, sizes, lags and numbers
of batches. `NothingUsedEarly` (`UsedWhenDone`), `IssuedRingHolds`
(`RingNotOverrun`) and `CreditsAreExact` (`CreditsExact`) rest on

* `Numbers`: all that the sides know of each other, `served_refl`, `sent`,
  `served` and `complete`, are remainders of numbers r <= s <= counted <= c that
  lie within one window. A difference modulo the sequence numbers is then the
  difference of those numbers, which is what each comparison needs. `served` runs
  ahead of the gets, so that `Fetching` has to say by how much at each place.
* `LsoPlace`: which entries of the LSO ring belong to which message, and that
  the notifier takes exactly those of the message it processes.
* `DmaOrder`: each DMA under way belongs to one message or entry, an entry's
  after that of the message it is counted by; so all DMAs of a batch's messages
  done means that earlier jumbo DMAs are done too. `Waited` is what the jumbo
  wait adds for the entry at hand.
* `Enqueued`, what the history holds, and `Crediting`: the pointer of each queue,
  with the addition under way, stands for the batches whose last message was
  processed, and `n_batch` and `qc_queue` are those of the batch being processed
  whichever of the copies of the code reads them.

`EnqueuedInOrder` (`EnqueuedAsIssued`) needs `Passing`: what is enqueued are
exactly the packets of the messages processed to their end and of the LSO entries
consumed. What `_NOTIFY_PROC` adds to it at a time is of one message
(`Handful`), and the entries consumed are the first ones, in the order of their
messages (`LsoPlace`); so nothing is enqueued before what was issued before it.

`NothingIsStuck` is about states in which neither an engine nor a context can go on
(`AtRest`): everything issued is credited, every packet is enqueued, and
`issue_dma` has room. It is what `AllAreCredited` and `RoomComesBack` add to
fairness, for any number of batches, and says that no wait is for something that
does not come. The one that could be is the jumbo wait, which compares numbers
modulo `JumboNumbers`: `Spread` bounds how far the numbers of the segments of a
batch lie apart, and the window of `JumboAssumption` makes the comparison right.

What `FlattenSeq` and `FoldLeft` compute over the batches is proved by the least
counterexample (`LeastNat`, `UpTo`), which takes the place of induction.

## 5. The transmit ring (`TxRing.tla`)

**State.** The ring's `wr_p`, `rd_p`, `wr_ptr_add`, `qcp_rd_p` and `txbufs` (of
each buffer, the number of fragments of its packet and `fidx`); the queue's
stopped bit; the queue controller's two pointers. `xmit` and `napi` say where
the transmit path and the completion are. `todo` and `seen` are locals of the
completion.

**Actions.** The transmit path holds the queue's lock and the completion runs
from NAPI on another CPU; they share pointers and the stopped bit without a
lock, so an action ends where one of them reads or writes what the other may
change: `XmitFull`/`XmitBusy` (full ring), `XmitPost`, `XmitPosted`,
`RingStop`, `RingStopRecheck`, `XmitAccount` (a packet), `XmitFails` (the error
paths, which undo what they filled and flush); `CompleteStart`, `CompleteNext`
(`rd_p++`), `CompleteClean`, `CompleteLoopDone`, `CompleteTest`,
`CompleteWake`. `NapiDisable`, `TxDisable`, `RingReset`, `OpenStack` are
closing and opening. `more` is the stack's announcement of another packet.

**Abstractions.** `%` on pointers is by comparison, since differences are below
the modulus. Byte queue limits (a stop bit of their own), descriptor contents
and statistics are left out.

**Environment.** `MaxBehind`: how many descriptors the transmit path posts
while a completion that has seen room goes on to look whether the queue is
stopped. Between `should_wake` and `netif_tx_queue_stopped()` are a barrier and
a load, but nothing keeps that CPU from being interrupted there.

| run | instance | shows |
| --- | --- | --- |
| `txring` | 6 slots, pointers modulo 12, packets of 1 and 2 descriptors, `MaxBehind = 3`, fair | `DescriptorsAccounted`, `BuffersFramed`, `OpenHasRoom`, `NothingUnflushed`, `WokenIfInTime`, `BuffersAreFreed` |
| `txring_lostwake` | 8 slots, packets of 2 descriptors, `MaxBehind = 6` | violation, see 9 |

*Bounds.* `MaxFrags = 1` keeps the relations of the code: the ring is stopped
with less than a largest packet's room (2) and woken with four times
`MaxFrags` (4). Six slots are the least that keep both marks apart from the
empty and the full ring; pointers pass their modulus and the ring's size at
different times. The distance between the marks is 2 here, so that with
`MaxBehind = 3` completions can be overtaken too far and a full ring is met;
`OpenHasRoom` and `WokenIfInTime` (`StoppedIsWoken` while `InTime`) are about
those that are not, the other properties about all. `CHECK_DEADLOCK FALSE`: a
queue can stay stopped, which `StoppedIsWoken` is about. *Fairness*: a call
returns, the stack transmits what it has in hand, the device reads what it is
told of, and raises the interrupt that schedules NAPI; no packet has to come.

The unused slot does two things: without it a ring that was full and is read to
the end would look, by `D_IDX(qcp_rd_p - tx_ring->qcp_rd_p)`, as if nothing had
been read; and the slot NAPI clears just after `rd_p++` could be in use again.
The second look of `nfp_net_tx_ring_stop()` decides nothing that a
completion would not: the doorbell of the packet that stops the queue is rung
after the queue was stopped, so there is always a completion to come. It is the
other place that stops the queue which lacks it.

**Proofs (`TxRingProofs.tla`)**, for any sizes. `RingIsSound`: the ring is not
overrun, descriptors are accounted for, and no doorbell is put off for nothing;
of the environment it assumes nothing. The invariant `Counts` proves the first
two of each other, since differences of pointers are exact only in a ring that
is not overrun. `OpenQueuesHaveRoom` adds `WakeSound`: what a completion has
seen is out of date by no more than was posted behind its back. Then an open
queue has room as long as the last completion that found room was `InTime`.
`BusyIsDead` assumes that all are (`Prompt`: `MaxBehind <= WakeRoom - StopRoom`,
50 in the code): the branch for a full ring is dead, and with it the race of
section 9. Boolean and arithmetic parts are lemmas apart (`Places`, `Counts`).
`BuffersAreFramed` is proved of the ring seen from its read pointer (`View`),
where a wrap does not show: it is a row of whole packets (`Framed`), to which
posting appends and from which completing takes. `RingIsTyped` is the type
invariant, `DoorbellsAreRung` is `NothingUnflushed`.

Liveness is only model-checked, but its safety half is proved. `AtRest` is: the
transmit path and NAPI are idle, the device has read all it was told of, and a
completion would find nothing. Then the ring is empty and every buffer free
(`RestingRingIsEmpty`), and its queue is not stopped (`RestingRingIsOpen`, while
completions are `InTime`). The latter rests on `CompletionIsToCome`: a stopped queue
that nobody is working on has `Cnt - WakeRoom` descriptors to be completed, enough
for the queue to be woken. Its invariant `Stopping` covers both ways to stop,
with and without a second look.

## 6. The flow table (`FlowTable.tla`, `Idt.tla`)

**State.** `hash` and `expires` are `flow_state`. A flow stays on its queue and
a queue transmits one packet at a time, so each flow has one transmit path:
`pc`, `i`, `at` are its place in `nfp_net_tx_set_flow_id()`, the loop's index
and the jiffies it has read, `skb` the packet. `transit` holds descriptors on
their way to the firmware; `pkts` and `wire` are the pacing queue's, which is
here its abstract specification `Pacer`, so that anything the detailed queue
may do is allowed. History: `owner` of each accepted packet, the expiry time
the search `saw`, and `robbed`, the flows that lost their entry in a race.

**Actions.** The table has no lock, so an action is one access: `LookUp` (an
entry of the first loop), `SkipPacing`, `ReadJiffies`, `Search` (an entry of the
second), `NoneFree`, `WriteHash`, `WriteExpires`. The test of an entry reads
hash and expiry in one action; this loses nothing, because a hash that was
written never becomes 0 again. `FwEnqueue` takes the flow id from the
descriptor's field as `_NOTIFY_PROC` does.

**`Idt.tla`** is the arithmetic of `nfp_net_tx_non_tso_idt()` and
`nfp_net_tx_tso()`: rounding up, the cap of a packet and of a burst, 11 bits,
the field beside the flow id, and what the firmware decodes.

**Environment.** `Tick` bounds how long a descriptor takes to the firmware
(`MaxTransit`) and how late a slot is served (`MaxLate`). `TimeoutAssumption`
says that an entry outlives the packets sent with its id:
`(Timeout - 1) * Jiffy >= MaxTransit + Horizon + MaxLate`. In the code 10 ms are
held against a horizon of about 2 ms. One jiffy less than the timeout counts
because a jiffy may be nearly over when it is read; with HZ = 100 the timeout
is a single jiffy and the left side is 0, so the code is right only with a
faster tick. Jiffies do not wrap.

| run | instance | shows |
| --- | --- | --- |
| `flow` | 3 flows, 2 entries, 3 packets, small and burst, 9 ticks, timeout of 3 jiffies of 2 ticks | `OneEntryPerFlow`, `IdsNotShared`, `FlowsLeaveInOrder`, `FieldsSound` |

*Bounds.* Three flows and two entries are the least where a third flow meets a
full table and a race of two for one entry leaves another. Nine ticks pass one
timeout with packets under way before and after it. `CHECK_DEADLOCK FALSE`: the
clock and the number of packets are bounded.

What is and is not true of the races: a flow never has two entries
(`OneEntryPerFlow` holds without any exception), but two flows may take the same
entry, when both find it free, or when one finds it free between the two writes
of the other (1051, 1055). The one that loses it renews an entry, and goes on with
an id, that is not its own ("Update timestamp for flow", 1054, is then another
flow's). It may share the id with that flow or meet its own packets out of
order; `IdsNotShared` and `FlowsLeaveInOrder` therefore except flows that were
`robbed`, and what they show is that nobody else is affected.

**Proofs (`FlowTableProofs.tla`)**, for any numbers of flows and entries.
`EntriesAreUnique`: the invariant `EInv` says that a path past its first loop
has no entry with its hash (`NotFound`). It is kept although others write the
table without a lock, because a hash is written by its own flow only, whose
path is busy. `FieldsAreSound` rests on lemmas on the arithmetic of the field,
for all rates, sizes and numbers of segments: the cap of each gap is rounded up,
so a burst's gaps exceed 1 ms by less than one unit of 250 ns per packet, and by
no more.
`IdsAreNotShared` and `FlowsKeepTheirOrder` rest on `TimeoutAssumption`: `HInv`
says that a packet under way holds its flow's entry until its last tick, in the
descriptor (`TransitHeld`) and in the pacing queue (`QueueHeld`); that the later
descriptors of a flow have the same id (`TransitInOrder`), so that the abstract
queue keeps them in order (`QueueInOrder`, `EarlierGone`). A race breaks this
for the flow that is `robbed` of its entry, for no other.

## 7. Receiving, XDP and the control queue (`Vector.tla`)

**State.** `rx` and `tx` are the two rings of a vector: `rx` with `wr_p`, `rd_p`,
`rxbufs` and the descriptors' DD bits and buffers; `tx` is the XDP ring of a
network vector, or the TX ring of the control vNIC, whose entries are messages.
`dev` holds the queue controller's pointers, `masked`/`pending` the interrupt,
`pc`/`polled`/`cmpl` the poll with its budget and `xdp_tx_cmpl`, `queue` the
control messages that found the ring full. History: which frame is in a buffer
somebody counts on (`content`), frames written by the device and taken, frames
sent back (`out`).

**Actions.** `RxOne` is one turn of the loop of `nfp_net_rx()`, with the three
things that can become of a frame's buffer: `Reuse` (dropped, consumed, no new
buffer), `Pass` (to the stack, against a new one), `XdpTx` (swapped with the XDP
ring's). `RxEnd`, `PollEnd` are the ends of `nfp_net_rx()` and
`nfp_net_poll()`. `CtrlTx`, `CtrlTxFails` are `nfp_ctrl_tx()`, `CtrlPoll` the
part of the tasklet under the lock, `CtrlRxOne`, `CtrlRxNone`, `CtrlPollEnd` the
rest. `CloseStack`, `DisableAndReset` (any number of times: "must be fully
idempotent"), `BufsFree`, `BufsAlloc`, `Open` are what closing and ring
reconfiguration do to the rings. The stack's TX ring, which the same poll
completes, is `TxRing`.

| run | instance | shows |
| --- | --- | --- |
| `vector` | rings of 4, pointers modulo 8, batches of 2, budget 2, 5 frames, or 5 messages and 2 control frames, 1 closing; fair | `BuffersOnce`, `FramesIntact`, `FramesInOrder`, `MessagesInOrder`, `AllReceived`, `AllSent` |

*Bounds.* Five frames go round a ring of four and past the pointers' half
turn; the freelist is told of batches of two, so a buffer given may not yet be
known to the device. The budget is exceeded, the XDP ring fills, and the
completion limit (2) is reached. Eight buffers are one more than the two rings
hold: buffers can run out. *Fairness*: the device works, an interrupt that is
not masked is delivered, NAPI and tasklets run, the stack frees what it is
given, and who closed opens in the end. `CHECK_DEADLOCK FALSE`: frames and
messages are bounded.

`AllReceived` is stated of network vectors only. On the control vNIC the budget
is an unsigned counter (2551): when exactly 512 messages were taken it is 0 and
the tasklet runs again, with a warning; when it is really exceeded it wraps, the
interrupt is unmasked and nothing warns. What is left in the ring then waits for
the next interrupt.

**Proofs (`VectorProofs.tla`)**: the four invariants, for rings, batches and
budgets of any size and any number of frames, messages and closings. Of the
constants they need `VectorAssumption`: pointers wrap at a multiple of each
ring's size and of the batch (powers of two in the code), a batch is smaller
than the RX ring, and the kernel has finitely many buffers, enough to fill the
rings once. The inductive invariant `VInv` has five parts:

* `TypeOK`, and `Modes`: a poll runs, and the control vector exists, only while
  the vector is up;
* `OnceNow` is `BuffersOnce` slot by slot, as each operation disturbs it: a
  buffer moves within the RX ring (`OnceMoved`), is replaced by a new one and
  goes to the stack (`OnceReplaced`), or is swapped with the XDP ring's
  (`OnceSwapped`);
* `Receiving`: counted from the read pointer, the first `Filling` entries of the
  RX ring are done and hold the frames that were not taken yet, in order. The
  device's pointers are at entries `Filling` and `Known`, and `Known` lags behind
  by less than a batch. Without this the DD bit of an earlier round could be
  taken for a new one's; it gives `FramesInOrder`;
* `Sending`: for some `u` and `v` the TX ring has `u` entries of which the device
  has sent `v`, and the last `add` it has not been told of. The entries from `v`
  on are the frames `out`, in their buffers, or messages that lie between those
  sent and those in the queue; a queue that is not empty means a full ring. It
  gives `FramesIntact` and `MessagesInOrder`.

Entry `k` of a ring is the remainder of pointer plus `k`; the lemmas on
remainders (`EntryMoved`, `EntryOnce`, `EntryDistance`) carry the rest.
`NothingIsLeft` is the safety half of `AllReceived` and `AllSent`: when neither the
device, nor an interrupt, nor a poll has anything to do (`AtRest`), all frames of a
network vector were taken and what XDP programs sent back is gone, or the control
vNIC's ring and queue are empty. `Waking` is its invariant: frames that were not
taken and messages that were not completed leave a pending interrupt or a poll
behind that is not over, and doorbells are put off only within a poll. That a
batch is smaller than the RX ring is what keeps the device from starving, and
a TX ring of a single entry would never take a queued message (`TxCnt > 1`).
`PostedIs` unfolds the fold that `CtrlPoll` makes of the queue, by the well-order
of the natural numbers. The invariant was checked with TLC before it was proved.

## 8. Opening, closing, reconfiguring (`NetDev.tla`)

**State.** `nn` is `nn->dp` as far as these operations use it (configuration,
ring memory, control word) with `IFF_UP`; `dp` the copy of
`nfp_net_ring_reconfig()`. A configuration stands for the number of vectors it
needs. `held` is what was acquired: interrupts, vectors, rings; `running` the
vectors with NAPI and interrupt enabled; `assigned` the rings the vectors point
to. `bar` is the control BAR, `uses` the rings the device uses, `link` the link
with its interrupt. `rt` is the operation under RTNL: its place, pending returns
and error.

**The dialogue with the firmware** is that of `Reconfig`, reduced to what matters
here. `posted`, `pre`, `under` and `own` say which updates are recorded, held by
the synchronous caller, under way for the timer, and under way for the caller.
`reads` is what updates that are not finished may make the device use: an update
reads the BAR at any time between its start and its end, so a write to the BAR
adds to it (`Seen`). `over` says that the update under way was started over one
the firmware had not finished.

When a wait ends (`Answered`), a 0 for an update that was *not* started over
another one means that it was carried out, and nothing else is pending. A 0 for
one that was proves nothing: `check_done` (162-164) takes any zero for success,
and the zero may be the earlier update's. The device may then use what either
update reads, or what it used before, and either may take effect later
(`FwActs`, `FwEndsLate`). The same after an error or a missed deadline.
`PostedStarts`, `PostedEnds`, `PreStarts`, `OwnStarts` and `OwnEnds` are the
starts and waits of `Reconfig`. Any wait may end without an answer, and that
covers what races of the timer do there: the driver goes on while an update is
not finished. A post that finds the update before it acknowledged ends that one's
wait and starts its own.

**Actions.** One per stage that can fail or sleep. `nfp_net_set_rx_mode` comes at
any time the interface is up, since it runs under the address lock; everything
else holds RTNL. `LinkChanges`, `IrqLsc`, `IrqLscReads`, `IrqLscUnmasks` are the
link status interrupt, which the device masks when it raises it.

| run | instance | shows |
| --- | --- | --- |
| `netdev` | configurations of 1 and 2 vectors; the receive mode changes, or the link | `HeldExact`, `MemorySafe`, `CtrlAgrees`, `DeviceServes`, `LinkKnown` |

The state space is finite without a bound: histories are flags. One and two
vectors make a reconfiguration that needs one more, one less, or the same. The
receive mode and the link share no state, so a behaviour of `MCNetDev` changes one
of them; the proofs are about both. Nothing here needs fairness.

The properties name what they except, and each exception is a weakness of the
code, found by TLC when it is left out.

* `MemorySafe` and `DeviceServes` except `unconfirmed`: the last disabling failed,
  which `nfp_net_clear_config_and_disable()` reports before the rings are freed
  all the same (3047), or the last enabling or disabling was told a 0 that may
  have been another update's. After an enabling that timed out, the disabling
  that undoes it may be told 0 when the firmware has finished the enabling: the
  rings are freed while the device uses them. After a disabling that timed out,
  an enabling may be told 0 and the interface is up on a disabled device. A
  later disabling (for `MemorySafe`) or enabling that is confirmed ends the
  exception.
* `CtrlAgrees` and `DeviceServes` except `overlapped`: set_rx_mode() computes the
  control word from `nn->dp.ctrl`, and the change came while an operation had
  written a control word and not yet noted it, or it was lost when
  reconfiguration swapped in a clone taken earlier. In the first case its post may
  write a control word without `ENABLE` after the device was enabled, and the
  device stops. (A post that sets `ENABLE` again during closing is harmless, as
  the ring masks are zero by then.) A change that comes anywhere else in an
  operation, or that is the same in both copies, is not excepted.
* `CtrlAgrees` also excepts a failed change of features, after which the BAR holds
  what the driver gave up (3795-3797), and `DeviceServes` a restore that was
  refused as well, after which the interface is up without a device.

**Proofs (`NetDevProofs.tla`)**: all five properties, for any configurations.
What is held, enabled and assigned is a function of the place in the operation
and of the configurations at hand (`Stages`), which gives `NothingLeaks`.
`Use` bounds what the device uses and what updates not finished may make it use:
while nothing is `unconfirmed` only the driver's rings, and none where these are
taken or freed; and the caller's own update, if it was started over no other one,
reads only what is in the BAR, so that a 0 told to a disabling leaves nothing
behind (`NoUseAfterFree`). `Copies` says what driver and BAR hold while they
differ, what the operation under way will note when it is answered (`Noted`), what
the configuration set aside differs in (`SetAside`), and that the device serves
where it was enabled (`Serving`); it gives `CopiesAgree` and
`ItsRingsAreServed`. `Known` is about the link (`LinkIsKnown`). The parts were
checked with TLC before they were proved.

## 9. Disagreements between code and comments

1. `notify.c` 552-554: a failed search "should never happen, indicates
   corruption". Nothing limits how many packets want the same stretch of the
   wheel, and unpaced packets all want the slot at the head; a sustained arrival
   rate above one packet per slot fills the window and halts the engine
   (`pacing_halt`).
2. `nfp_net_common.c` 4301 warns if the timer is pending at free. It can be: a
   post that overtakes the handler of a fired timer arms it again, and the
   handler then clears the flag by which the timer would be found
   (`reconfig_free`). The same state makes the next update overwrite a busy
   register.
3. `nfp_net_common.c` 740 and 749: stopping must be safe against completions,
   "so recheck". The branch for a full ring (1247-1256) stops the queue without:
   after a completion that woke a full queue, the next one can free everything
   just before the queue is stopped, and nobody wakes it (`txring_lostwake`).
4. `nfp_net_common.c` 243-244 and 251 promise that posts are kicked off whenever
   the machinery is idle, and that the synchronous caller kicks off what it keeps
   from starting. `nfp_net_reconfig_wait_posted()` leaves without looking (303):
   the posts stay recorded until somebody happens to post or reconfigure again
   (`reconfig_posted`).

## 10. Plan

Done: the modules above with their runs, and theorems about all of them. Every
invariant and action property of the passing runs is proved. Left:
`nfp_ctrl_open()` and `nfp_ctrl_close()` in `NetDev`; note that closing disables
the tasklet twice (3227 and 2935) and opening enables it once.

## 11. Not modelled

* Set-up, debug counters and sequencer registers of the firmware: inline
  assembly and write-only counters.
* Transmit offloads (checksum, TLS, metadata): fields computed from one packet.
* VXLAN ports, VLAN filter, MAC address, RSS, statistics, capabilities: they run
  alone under RTNL and only write configuration; their updates are the posts
  and mailbox commands of `Reconfig`.
* `nfp_ctrl_open()`/`nfp_ctrl_close()`, see the plan.
* The variants under `misc/`, which are not built, and the scripts.
* Out of the provers' reach: liveness under fairness and ENABLED. `AllLeave`,
  `PostedStarts`, `AllAreCredited`, `RoomComesBack`, `WokenIfInTime`,
  `BuffersAreFreed`, `AllReceived` and `AllSent` stay with TLC. Proved is their
  safety half: where no fair action of a component is left, nothing is left to do
  (`DueAreGone`, `PostedAreKickedOff`, `NothingIsStuck`, `RestingRingIsOpen`,
  `RestingRingIsEmpty`, `NothingIsLeft`). That the components get there is not.
