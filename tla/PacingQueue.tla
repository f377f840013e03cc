---------------------------- MODULE PacingQueue ----------------------------
(***************************************************************************)
(* The pacing queue of modified-nfd-firmware/notify.c: a timing wheel of   *)
(* CtmLength slots kept in cluster target memory (CTM), whose next         *)
(* LmLength slots are cached in the local memory of the microengine (LM).  *)
(*                                                                         *)
(* The contexts of a microengine are cooperative: one runs until it gives  *)
(* the engine away (ctx_swap, wait_for_all, wait_for_any), so an action    *)
(* here is what a context does between two such points.  What interleaves  *)
(* with them are the other contexts, the memory engines that carry out the *)
(* reads and writes a context has issued, and the clock.                   *)
(***************************************************************************)
EXTENDS Integers, Sequences, FiniteSets

CONSTANTS
  Notifiers,      \* contexts that run notify():            2 and 3
  Dequeuers,      \* contexts that run sync_dequeue_loop(): 4 .. 7
  CtmLength,      \* PQ_CTM_LENGTH,           4096 slots
  LmLength,       \* PQ_LM_LENGTH,             192 slots
  SyncLength,     \* PQ_LM_SYNC_LENGTH,        128 slots
  SyncChunk,      \* slots copied by one sync_ctm_lm(), 8
  WordBits,       \* slots of one bitmask word, 32
  SearchWords,    \* words a search for a free slot may look at, 20
  ThreshSlots,    \* PQ_TRESH_FUTURE_SLOTS,   3072
  SlotTicks,      \* PQ_SLOT_TICKS,             32
  OutRegs,        \* transfer registers batch_out.pkt<n> of a context, 8
  Requests,       \* the <<flow, idt>> pairs the driver may ask for
  MaxPackets,     \* bound: packets accepted in a behaviour
  MaxTime,        \* bound: the last tick of the clock
  MaxBusy,        \* environment: longest busy period, in slots
  MaxOp           \* environment: longest memory operation, in ticks

Contexts  == Notifiers \cup Dequeuers
CtmSlots  == 0 .. CtmLength - 1
LmSlots   == 0 .. LmLength - 1
Regs      == 0 .. OutRegs - 1
Flows     == {r[1] : r \in Requests}
Offsets   == 0 .. SyncChunk - 1

(* What the #defines of the queue promise each other.  The search for a    *)
(* free slot that starts at the horizon must stay short of a whole turn.   *)
ASSUME SizesAssumption ==
  /\ {CtmLength, LmLength, SyncLength, SyncChunk, WordBits, SearchWords,
        ThreshSlots, SlotTicks, OutRegs, MaxPackets, MaxTime, MaxOp,
        MaxBusy} \subseteq Nat \ {0}
  /\ SyncLength < LmLength
  /\ LmLength <= ThreshSlots
  /\ ThreshSlots + SearchWords * WordBits <= CtmLength

ASSUME ChunkAssumption ==
  /\ SyncChunk <= SyncLength
  /\ CtmLength  % SyncChunk = 0
  /\ LmLength   % SyncChunk = 0
  /\ SyncLength % SyncChunk = 0

ASSUME ContextAssumption ==
  /\ Notifiers \cap Dequeuers = {}
  /\ IsFiniteSet(Dequeuers)
  /\ Requests \subseteq Nat \X Nat

VARIABLES
  now,                  \* the timestamp counter of the engine
  pq_head_time, pq_ctm_head, pq_lm_head,
  pq_ctm_sync_end, pq_lm_sync_end, pq_lm_dequeue_cnt,
  bitmasks,             \* the occupied CTM slots
  lm_bitmasks,          \* the LM slots written directly by an enqueue
  ctm_pacing_queue, lm_pacing_queue,  \* packet in each slot, 0 = never written
  flows_prev_dep_time,
  next_batch_out,       \* each context's next transfer register
  wq_sig,               \* each context's raised wq_sig<n> signals
  halted,               \* halt() was executed
  pc,                   \* where each context gave the engine away
  reserved,             \* a notifier's packet whose CTM write waits for a register
  sync,                 \* the chunk a dequeuer is reading from CTM
  batch_in, msg_sig,    \* what its two reads returned, and which are complete
  writes, adds,         \* memory operations under way
  pkts, book, wire, busy  \* history: see below

(* History.  pkts[p] is the flow and the departure time of the p-th packet *)
(* accepted, book[s] the packet that occupies slot s (0 if none), wire the *)
(* descriptors given to the work queue in sequence number order, and busy  *)
(* the slots passed since the head last caught up with the clock.          *)

headVars == <<pq_head_time, pq_ctm_head, pq_lm_head>>
syncVars == <<pq_ctm_sync_end, pq_lm_sync_end, sync, batch_in, msg_sig>>
bitVars  == <<bitmasks, lm_bitmasks>>
outVars  == <<next_batch_out, wq_sig, writes, adds>>
histVars == <<pkts, book, wire, busy>>

vars == <<now, headVars, syncVars, pq_lm_dequeue_cnt, bitVars,
          ctm_pacing_queue, lm_pacing_queue, flows_prev_dep_time, outVars,
          halted, pc, reserved, histVars>>

NoSync     == [ctm |-> 0, lm |-> 0, since |-> 0]
NoReserved == [slot |-> 0, pkt |-> 0, since |-> 0]
NoBatch    == [o \in Offsets |-> 0]

Init ==
  /\ now = 0 /\ pq_head_time = 0
  /\ pq_ctm_head = 0 /\ pq_lm_head = 0
  /\ pq_ctm_sync_end = SyncLength /\ pq_lm_sync_end = SyncLength
  /\ pq_lm_dequeue_cnt = 0
  /\ bitmasks = {} /\ lm_bitmasks = {}
  /\ ctm_pacing_queue = [s \in CtmSlots |-> 0]
  /\ lm_pacing_queue  = [s \in LmSlots |-> 0]
  /\ flows_prev_dep_time = [f \in Flows |-> 0]
  /\ next_batch_out = [c \in Contexts |-> 0]
  /\ wq_sig = [c \in Contexts |-> Regs]
  /\ halted = FALSE
  /\ pc = [c \in Contexts |-> IF c \in Notifiers THEN "notify" ELSE "loop"]
  /\ reserved = [n \in Notifiers |-> NoReserved]
  /\ sync     = [d \in Dequeuers |-> NoSync]
  /\ batch_in = [d \in Dequeuers |-> NoBatch]
  /\ msg_sig  = [d \in Dequeuers |-> {}]
  /\ writes = {} /\ adds = {}
  /\ pkts = <<>> /\ book = [s \in CtmSlots |-> 0] /\ wire = <<>> /\ busy = 0

----------------------------------------------------------------------------
(* Arithmetic of the rings and of the clock.  An operator marked "Slip" is *)
(* not part of the model: it is a plausible mistake in the definition that *)
(* follows it, and a property must notice it when it takes its place.      *)

Wrap(i, len) == IF i >= len THEN i - len ELSE i

PQ_CTM_RING_DIFF(to, from) ==
  IF to >= from THEN to - from ELSE to - from + CtmLength

(* Slip: only the first of the two tests.                                  *)
DueAtOnce(head_time) == now > head_time

(* The tests "now <= pq_head_time" and "slots_to_send == 0" together.      *)
Due(head_time) == now - head_time >= SlotTicks

(* A flow's packet leaves one inter-departure time after the one before,   *)
(* or at once when that time has passed.                                   *)
DepTime(flow, idt) ==
  LET dep == flows_prev_dep_time[flow] + idt
  IN  IF dep <= now THEN now ELSE dep

DeltaSlots(dep) ==
  IF dep > pq_head_time THEN (dep - pq_head_time) \div SlotTicks ELSE 0

(* Slip: the flow keeps the time that was beyond the horizon.              *)
NoPullBack(delta) == 0

(* A departure beyond the horizon is pulled back by whole slots.           *)
PQ_DEP_TIME_DIFF_TRESHOLD(delta) == (delta - ThreshSlots) * SlotTicks

(* How far the search that starts at slot i looks: SearchWords words, the  *)
(* first from the bit of i on.                                             *)
SearchSpan(i) == SearchWords * WordBits - (i % WordBits)

(* Slips: the words are not inverted; the bits below the start index are   *)
(* not ignored.                                                            *)
AnyOffsets(i) == 0 .. SearchSpan(i) - 1

UnmaskedOffsets(i) ==
  {k \in -(i % WordBits) .. SearchSpan(i) - 1 :
     Wrap(i + k, CtmLength) \notin bitmasks}

FreeOffsets(i) ==
  {k \in 0 .. SearchSpan(i) - 1 : Wrap(i + k, CtmLength) \notin bitmasks}

pq_find_next_available_slot(i) ==
  LET k == CHOOSE k \in FreeOffsets(i) : \A m \in FreeOffsets(i) : k <= m
  IN  Wrap(i + k, CtmLength)

(* Slip: the last LM slot is taken to be one further.                      *)
PlacedOneTooFar(delta) == delta <= LmLength

(* A packet this close to the head is placed in LM directly: its slot may  *)
(* have been synced already.                                               *)
PlacedInLm(delta) == delta < LmLength
----------------------------------------------------------------------------
(* notify(): one packet of _NOTIFY_PROC, or one segment of a TSO packet.   *)

Running(c, point) == ~halted /\ pc[c] = point

(* Departure time of the next packet of a flow and the slots between the   *)
(* head and that time, both after the pull back to the horizon.            *)
Departure(flow, idt) ==
  LET dep   == DepTime(flow, idt)
      slots == DeltaSlots(dep)
  IN  IF slots > ThreshSlots
      THEN [dep |-> dep - PQ_DEP_TIME_DIFF_TRESHOLD(slots), slots |-> ThreshSlots]
      ELSE [dep |-> dep, slots |-> slots]

DesiredIndex(slots) == Wrap(pq_ctm_head + slots, CtmLength)

(* The slot a packet gets and its distance from the head.                  *)
Booking(slots) ==
  LET index == pq_find_next_available_slot(DesiredIndex(slots))
  IN  [index |-> index,
       delta |-> slots + PQ_CTM_RING_DIFF(index, DesiredIndex(slots))]

(* What every accepted packet changes: its flow's departure time and the   *)
(* bit of its slot.  No other context runs between search and reservation. *)
Reserve(flow, dep, b) ==
  /\ Len(pkts) < MaxPackets
  /\ flows_prev_dep_time' = [flows_prev_dep_time EXCEPT ![flow] = dep]
  /\ bitmasks' = bitmasks \cup {b.index}
  /\ book' = [book EXCEPT ![b.index] = Len(pkts) + 1]
  /\ pkts' = Append(pkts, [flow |-> flow, dep |-> dep,
                           due |-> pq_head_time + (b.delta + 1) * SlotTicks])
  /\ UNCHANGED <<now, headVars, syncVars, pq_lm_dequeue_cnt,
                 ctm_pacing_queue, outVars, halted, wire, busy>>

(* Close to the head: the packet goes to LM without giving up the engine.  *)
EnqueueLm(n, flow, idt) ==
  LET d  == Departure(flow, idt)
      b  == Booking(d.slots)
      lm == Wrap(pq_lm_head + b.delta, LmLength)
  IN  /\ Running(n, "notify")
      /\ FreeOffsets(DesiredIndex(d.slots)) # {}
      /\ PlacedInLm(b.delta)
      /\ Reserve(flow, d.dep, b)
      /\ lm_pacing_queue' = [lm_pacing_queue EXCEPT ![lm] = Len(pkts) + 1]
      /\ lm_bitmasks' = lm_bitmasks \cup {lm}
      /\ UNCHANGED <<pc, reserved>>

(* Further away: the slot is reserved, then the context waits for its next *)
(* transfer register to become free before it issues the write to CTM.     *)
EnqueueCtm(n, flow, idt) ==
  LET d == Departure(flow, idt)
      b == Booking(d.slots)
  IN  /\ Running(n, "notify")
      /\ FreeOffsets(DesiredIndex(d.slots)) # {}
      /\ ~PlacedInLm(b.delta)
      /\ Reserve(flow, d.dep, b)
      /\ reserved' = [reserved EXCEPT ![n] =
                       [slot |-> b.index, pkt |-> Len(pkts) + 1, since |-> now]]
      /\ pc' = [pc EXCEPT ![n] = "ctm_wait"]
      /\ UNCHANGED <<lm_pacing_queue, lm_bitmasks>>

(* No free slot within the search: halt() stops the whole engine.          *)
EnqueueHalt(n, flow, idt) ==
  LET d == Departure(flow, idt)
  IN  /\ Running(n, "notify")
      /\ Len(pkts) < MaxPackets
      /\ FreeOffsets(DesiredIndex(d.slots)) = {}
      /\ flows_prev_dep_time' = [flows_prev_dep_time EXCEPT ![flow] = d.dep]
      /\ halted' = TRUE
      /\ UNCHANGED <<now, headVars, syncVars, pq_lm_dequeue_cnt, bitVars,
                     ctm_pacing_queue, lm_pacing_queue, outVars, pc, reserved,
                     histVars>>

(* _SEND_PACKET_TO_CTM after wait_for_all(&wq_sig<n>): the signal is       *)
(* consumed and the write that will raise it again is issued.              *)
SendPacketToCtm(n) ==
  LET reg == next_batch_out[n]
  IN  /\ Running(n, "ctm_wait")
      /\ reg \in wq_sig[n]
      /\ wq_sig' = [wq_sig EXCEPT ![n] = @ \ {reg}]
      /\ writes' = writes \cup {[ctx |-> n, reg |-> reg, slot |-> reserved[n].slot,
                                 pkt |-> reserved[n].pkt, since |-> reserved[n].since]}
      /\ next_batch_out' = [next_batch_out EXCEPT ![n] = Wrap(@ + 1, OutRegs)]
      /\ reserved' = [reserved EXCEPT ![n] = NoReserved]
      /\ pc' = [pc EXCEPT ![n] = "notify"]
      /\ UNCHANGED <<now, headVars, syncVars, pq_lm_dequeue_cnt, bitVars,
                     ctm_pacing_queue, lm_pacing_queue, flows_prev_dep_time,
                     adds, halted, histVars>>

----------------------------------------------------------------------------
(* sync_ctm_lm().                                                          *)

SyncNeeded == pq_lm_dequeue_cnt >= SyncChunk

(* Where dequeue_pacing_queue() gives the engine away: at the wait for a   *)
(* transfer register if a slot is due, otherwise in the next ctx_swap().   *)
LoopOrSwap(head_time) == IF Due(head_time) THEN "wait_reg" ELSE "loop"

(* Issue the two reads and reserve the chunk before giving up the engine.  *)
SyncReserve(d) ==
  /\ Running(d, "loop")
  /\ SyncNeeded
  /\ sync' = [sync EXCEPT ![d] =
               [ctm |-> pq_ctm_sync_end, lm |-> pq_lm_sync_end, since |-> now]]
  /\ pq_lm_dequeue_cnt' = pq_lm_dequeue_cnt - SyncChunk
  /\ pq_ctm_sync_end' = Wrap(pq_ctm_sync_end + SyncChunk, CtmLength)
  /\ pq_lm_sync_end' = Wrap(pq_lm_sync_end + SyncChunk, LmLength)
  /\ pc' = [pc EXCEPT ![d] = "read"]
  /\ UNCHANGED <<now, headVars, batch_in, msg_sig, bitVars, ctm_pacing_queue,
                 lm_pacing_queue, flows_prev_dep_time, outVars, halted,
                 reserved, histVars>>

(* Slip: lm_bitmasks is not consulted.                                     *)
KeepNothing(i) == FALSE

(* Slots written directly since then are newer than what was read.         *)
KeepLm(i) == i \in lm_bitmasks

(* Both reads are complete: copy the chunk, then fall into the dequeue.    *)
SyncPlace(d) ==
  /\ Running(d, "read")
  /\ msg_sig[d] = {0, 1}
  /\ lm_pacing_queue' =
       [i \in LmSlots |->
          IF i - sync[d].lm \in Offsets /\ ~KeepLm(i)
          THEN batch_in[d][i - sync[d].lm] ELSE lm_pacing_queue[i]]
  /\ sync' = [sync EXCEPT ![d] = NoSync]
  /\ batch_in' = [batch_in EXCEPT ![d] = NoBatch]
  /\ msg_sig' = [msg_sig EXCEPT ![d] = {}]
  /\ pc' = [pc EXCEPT ![d] = LoopOrSwap(pq_head_time)]
  /\ UNCHANGED <<now, headVars, pq_ctm_sync_end, pq_lm_sync_end,
                 pq_lm_dequeue_cnt, bitVars, ctm_pacing_queue,
                 flows_prev_dep_time, outVars, halted, reserved, histVars>>

----------------------------------------------------------------------------
(* dequeue_pacing_queue().                                                 *)

(* Nothing to sync: straight into the loop.                                *)
StartDequeue(d) ==
  /\ Running(d, "loop")
  /\ ~SyncNeeded
  /\ pc' = [pc EXCEPT ![d] = LoopOrSwap(pq_head_time)]
  /\ UNCHANGED <<now, headVars, syncVars, pq_lm_dequeue_cnt, bitVars,
                 ctm_pacing_queue, lm_pacing_queue, flows_prev_dep_time,
                 outVars, halted, reserved, histVars>>

(* wait_for_any() returned: the register's signal is raised.               *)
RegFree(d) == Running(d, "wait_reg") /\ next_batch_out[d] \in wq_sig[d]

(* Another context moved the head while this one waited.                   *)
LeaveDequeue(d) ==
  /\ RegFree(d)
  /\ ~Due(pq_head_time)
  /\ pc' = [pc EXCEPT ![d] = "loop"]
  /\ UNCHANGED <<now, headVars, syncVars, pq_lm_dequeue_cnt, bitVars,
                 ctm_pacing_queue, lm_pacing_queue, flows_prev_dep_time,
                 outVars, halted, reserved, histVars>>

(* The slot at the head has been checked: all heads move as one.           *)
AdvanceHead(d) ==
  /\ pq_ctm_head' = Wrap(pq_ctm_head + 1, CtmLength)
  /\ pq_lm_head' = Wrap(pq_lm_head + 1, LmLength)
  /\ pq_head_time' = pq_head_time + SlotTicks
  /\ pq_lm_dequeue_cnt' = pq_lm_dequeue_cnt + 1
  /\ busy' = IF Due(pq_head_time + SlotTicks) THEN busy + 1 ELSE 0
  /\ pc' = [pc EXCEPT ![d] = LoopOrSwap(pq_head_time + SlotTicks)]
  /\ UNCHANGED <<now, syncVars, ctm_pacing_queue, lm_pacing_queue,
                 flows_prev_dep_time, writes, halted, reserved, pkts>>

(* _DEQUEUE_PROC: the descriptor in LM gets the next sequence number and   *)
(* is given to the work queue, whose completion raises the signal again.   *)
DequeuePacket(d) ==
  LET reg == next_batch_out[d]
  IN  /\ RegFree(d)
      /\ Due(pq_head_time)
      /\ pq_ctm_head \in bitmasks
      /\ wire' = Append(wire, lm_pacing_queue[pq_lm_head])
      /\ wq_sig' = [wq_sig EXCEPT ![d] = @ \ {reg}]
      /\ adds' = adds \cup {[ctx |-> d, reg |-> reg,
                              pkt |-> lm_pacing_queue[pq_lm_head]]}
      /\ next_batch_out' = [next_batch_out EXCEPT ![d] = Wrap(@ + 1, OutRegs)]
      /\ bitmasks' = bitmasks \ {pq_ctm_head}
      /\ lm_bitmasks' = lm_bitmasks \ {pq_lm_head}
      /\ book' = [book EXCEPT ![pq_ctm_head] = 0]
      /\ AdvanceHead(d)

PassEmptySlot(d) ==
  /\ RegFree(d)
  /\ Due(pq_head_time)
  /\ pq_ctm_head \notin bitmasks
  /\ AdvanceHead(d)
  /\ UNCHANGED <<bitVars, next_batch_out, wq_sig, adds, book, wire>>

----------------------------------------------------------------------------
(* The memory engines.  An operation takes effect at any time after it was *)
(* issued, in any order with the others.                                   *)

CtmWriteDone(w) ==
  /\ ctm_pacing_queue' = [ctm_pacing_queue EXCEPT ![w.slot] = w.pkt]
  /\ wq_sig' = [wq_sig EXCEPT ![w.ctx] = @ \cup {w.reg}]
  /\ writes' = writes \ {w}
  /\ UNCHANGED <<now, headVars, syncVars, pq_lm_dequeue_cnt, bitVars,
                 lm_pacing_queue, flows_prev_dep_time, next_batch_out, adds,
                 halted, pc, reserved, histVars>>

WorkqAddDone(a) ==
  /\ wq_sig' = [wq_sig EXCEPT ![a.ctx] = @ \cup {a.reg}]
  /\ adds' = adds \ {a}
  /\ UNCHANGED <<now, headVars, syncVars, pq_lm_dequeue_cnt, bitVars,
                 ctm_pacing_queue, lm_pacing_queue, flows_prev_dep_time,
                 next_batch_out, writes, halted, pc, reserved, histVars>>

(* The offsets one of the two reads of a sync returns.                     *)
ReadOffsets(h) == {o \in Offsets : (o < SyncChunk \div 2) = (h = 0)}

CtmReadDone(d, h) ==
  /\ pc[d] = "read"
  /\ h \notin msg_sig[d]
  /\ batch_in' = [batch_in EXCEPT ![d] =
                   [o \in Offsets |->
                      IF o \in ReadOffsets(h)
                      THEN ctm_pacing_queue[sync[d].ctm + o] ELSE batch_in[d][o]]]
  /\ msg_sig' = [msg_sig EXCEPT ![d] = @ \cup {h}]
  /\ UNCHANGED <<now, headVars, pq_ctm_sync_end, pq_lm_sync_end, sync,
                 pq_lm_dequeue_cnt, bitVars, ctm_pacing_queue, lm_pacing_queue,
                 flows_prev_dep_time, outVars, halted, pc, reserved, histVars>>

(* The clock.  What the firmware assumes of its engine: no busy period     *)
(* spans more than MaxBusy slots, and MaxOp ticks after it reserved a slot *)
(* or a chunk a context has written or copied it.                          *)
KeepsUp == busy + (now + 1 - pq_head_time) \div SlotTicks <= MaxBusy

OpsInTime ==
  /\ \A d \in Dequeuers : pc[d] = "read" => now < sync[d].since + MaxOp
  /\ \A n \in Notifiers : pc[n] = "ctm_wait" => now < reserved[n].since + MaxOp
  /\ \A w \in writes : now < w.since + MaxOp

Tick ==
  /\ now < MaxTime
  /\ KeepsUp
  /\ OpsInTime
  /\ now' = now + 1
  /\ UNCHANGED <<headVars, syncVars, pq_lm_dequeue_cnt, bitVars,
                 ctm_pacing_queue, lm_pacing_queue, flows_prev_dep_time,
                 outVars, halted, pc, reserved, histVars>>

----------------------------------------------------------------------------
Enqueue(n) == \E r \in Requests : \/ EnqueueLm(n, r[1], r[2])
                                  \/ EnqueueCtm(n, r[1], r[2])
                                  \/ EnqueueHalt(n, r[1], r[2])

sync_dequeue_loop(d) ==
  \/ SyncReserve(d)  \/ SyncPlace(d)
  \/ StartDequeue(d) \/ LeaveDequeue(d)
  \/ DequeuePacket(d) \/ PassEmptySlot(d)

Memory ==
  \/ \E w \in writes : CtmWriteDone(w)
  \/ \E a \in adds : WorkqAddDone(a)
  \/ \E d \in Dequeuers, h \in {0, 1} : CtmReadDone(d, h)

Next ==
  \/ \E n \in Notifiers : Enqueue(n) \/ SendPacketToCtm(n)
  \/ \E d \in Dequeuers : sync_dequeue_loop(d)
  \/ Memory
  \/ Tick

Spec == Init /\ [][Next]_vars

(* The context arbiter of the engine is round robin, an issued memory      *)
(* operation completes, and the clock runs.  Packets need not arrive.      *)
Fairness ==
  /\ \A n \in Notifiers : WF_vars(SendPacketToCtm(n))
  /\ \A d \in Dequeuers : WF_vars(sync_dequeue_loop(d))
  /\ WF_vars(Memory)
  /\ WF_vars(Tick)

FairSpec == Spec /\ Fairness

----------------------------------------------------------------------------
(* Properties.                                                             *)

(* Distance of slot s from the head, in slots.                             *)
Ahead(s) == PQ_CTM_RING_DIFF(s, pq_ctm_head)

Packets == 1 .. Len(pkts)

TypeOK ==
  /\ now \in Nat /\ pq_head_time \in Nat
  /\ pq_ctm_head \in CtmSlots /\ pq_lm_head \in LmSlots
  /\ pq_ctm_sync_end \in CtmSlots /\ pq_lm_sync_end \in LmSlots
  /\ pq_lm_dequeue_cnt \in Nat
  /\ bitmasks \subseteq CtmSlots /\ lm_bitmasks \subseteq LmSlots
  /\ ctm_pacing_queue \in [CtmSlots -> Nat]
  /\ lm_pacing_queue \in [LmSlots -> Nat]
  /\ flows_prev_dep_time \in [Flows -> Nat]
  /\ next_batch_out \in [Contexts -> Regs]
  /\ wq_sig \in [Contexts -> SUBSET Regs]
  /\ halted \in BOOLEAN
  /\ pc \in [Contexts -> {"notify", "ctm_wait", "loop", "read", "wait_reg"}]
  /\ reserved \in [Notifiers -> [slot : CtmSlots, pkt : Nat, since : Nat]]
  /\ sync \in [Dequeuers -> [ctm : CtmSlots, lm : LmSlots, since : Nat]]
  /\ batch_in \in [Dequeuers -> [Offsets -> Nat]]
  /\ msg_sig \in [Dequeuers -> SUBSET {0, 1}]
  /\ writes \subseteq [ctx : Notifiers, reg : Regs, slot : CtmSlots,
                       pkt : Nat, since : Nat]
  /\ adds \subseteq [ctx : Dequeuers, reg : Regs, pkt : Nat]
  /\ pkts \in Seq([flow : Flows, dep : Nat, due : Nat])
  /\ book \in [CtmSlots -> Nat]
  /\ wire \in Seq(Nat)
  /\ busy \in Nat

(* The two rings stay in step although they wrap at different lengths: in  *)
(* both, the slots a sync has reserved end SyncLength slots after the head *)
(* less those that were dequeued and not yet synced.                       *)
RingsInStep ==
  /\ pq_ctm_sync_end = Wrap(pq_ctm_head + SyncLength - pq_lm_dequeue_cnt, CtmLength)
  /\ pq_lm_sync_end = Wrap(pq_lm_head + SyncLength - pq_lm_dequeue_cnt, LmLength)

(* However many contexts dequeue while others wait for their sync to be    *)
(* read, the slots dequeued and not yet replaced by a sync stay bounded.   *)
BacklogBounded ==
  pq_lm_dequeue_cnt <= SyncChunk - 1 + MaxBusy * Cardinality(Dequeuers)

(* No slot is booked twice and no packet is lost before its departure: the *)
(* occupied bits are exactly the slots that hold a packet, every packet    *)
(* is in one slot or has left, and a slot's distance from the head is the  *)
(* time that is left until it is due.                                      *)
BookingsExact ==
  /\ \A s \in CtmSlots : (s \in bitmasks) <=> (book[s] # 0)
  /\ \A s \in bitmasks :
       pkts[book[s]].due = pq_head_time + (Ahead(s) + 1) * SlotTicks
  /\ \A s, t \in bitmasks : book[s] = book[t] => s = t
  /\ Len(wire) + Cardinality(bitmasks) = Len(pkts)

(* A packet accepted later of the same flow is in a later slot, whichever  *)
(* context accepted it and however far the search had to go.               *)
FlowOrder ==
  \A s, t \in bitmasks :
    (/\ pkts[book[s]].flow = pkts[book[t]].flow
     /\ book[s] < book[t]) => Ahead(s) < Ahead(t)

(* A bit that protects an LM slot from being overwritten belongs to a      *)
(* packet that is booked for that slot, and the LM slot holds it.          *)
LmBitsSound ==
  \A i \in lm_bitmasks :
    LET k == IF i >= pq_lm_head THEN i - pq_lm_head
                                ELSE i - pq_lm_head + LmLength
        s == Wrap(pq_ctm_head + k, CtmLength)
    IN  s \in bitmasks /\ lm_pacing_queue[i] = book[s]

(* No context waits for a signal nobody will raise: a transfer register's  *)
(* signal is down exactly while one operation that raises it is under way. *)
SignalsComeBack ==
  \A c \in Contexts, r \in Regs :
    Cardinality({o \in writes \cup adds : o.ctx = c /\ o.reg = r})
      = (IF r \in wq_sig[c] THEN 0 ELSE 1)

(* Wherever a context gives the engine away, what the next one relies on   *)
(* is consistent.                                                          *)
ConsistentAtSwaps == RingsInStep /\ BacklogBounded /\ LmBitsSound /\ SignalsComeBack

(* A packet never leaves before the departure time computed for it.        *)
NoEarlyDeparture ==
  [][\A s \in CtmSlots :
       book[s] # 0 /\ book'[s] = 0 => pkts[book[s]].dep <= now]_vars

(* What is given to the work queue for a slot is the packet that was       *)
(* booked there: not what the slot held a turn ago, not a stale copy.      *)
SentAsBooked ==
  [][Len(wire') > Len(wire) => wire'[Len(wire')] = book[pq_ctm_head]]_vars

(* The search displaces a packet by no more slots than there are packets   *)
(* that wait: no free slot between the desired one and the found one.      *)
DisplacedByBacklog ==
  [][\A p \in 1 .. Len(pkts') :
       p > Len(pkts) =>
         pkts'[p].due <= (IF pkts'[p].dep > pq_head_time THEN pkts'[p].dep
                                                         ELSE pq_head_time)
                          + (Cardinality(bitmasks) + 1) * SlotTicks]_vars

(* "No slot found ... Should never happen, indicates corruption/invalid    *)
(* state", says pq_find_next_available_slot() of its halt().               *)
NeverHalts == ~halted

(* The timing wheel, its cache and its contexts together are a Pacer, for  *)
(* which a slot ends at most a whole search behind the horizon.            *)
UnpacedFlows == {f \in Flows : \A r \in Requests : r[1] = f => r[2] = 0}

Abstract == INSTANCE Pacer WITH
  Flows <- Flows, Unpaced <- UnpacedFlows, SlotTicks <- SlotTicks,
  Horizon <- (ThreshSlots + SearchWords * WordBits) * SlotTicks,
  now <- now, pkts <- pkts, wire <- wire

ImplementsPacer == Abstract!Spec

(* Every accepted packet due before the clock stops is given to the work   *)
(* queue.                                                                  *)
AllLeave ==
  \A p \in 1 .. MaxPackets :
    (p \in Packets /\ pkts[p].due <= MaxTime)
      ~> \E i \in 1 .. Len(wire) : wire[i] = p

============================================================================
