------------------------------- MODULE Vector -------------------------------
(***************************************************************************)
(* The receive side of a ring vector of nfp_net_common.c: the ring of      *)
(* buffers, the interrupt and the poll that takes frames from it, the XDP  *)
(* ring, which swaps buffers with it, and the same on the control vNIC,    *)
(* where a tasklet polls and messages are queued when the ring is full.    *)
(*                                                                         *)
(* A frame is its number, and a buffer is told from all others.  An action *)
(* is what happens to one frame, or a section under the vector's lock.     *)
(* Closing and opening are those of a network vector.                      *)
(***************************************************************************)
EXTENDS Integers, Sequences, FiniteSets, SequencesExt

CONSTANTS
  Kinds,        \* vectors looked at, of {"net", "ctrl"}
  Cnt, TxCnt,   \* descriptors of the two rings; powers of two
  PtrMod,       \* pointers of the driver wrap here, 2^32
  FlBatch,      \* NFP_NET_FL_BATCH, 16
  Budget,       \* NAPI budget
  CtrlBudget,   \* 512
  MaxComplete,  \* NFP_NET_XDP_MAX_COMPLETE, 2048
  MaxFrames,    \* bound: frames the device receives
  MaxCtrlFrames, \* bound: the same on the control vNIC
  MaxMsgs,      \* bound: control messages handed over
  MaxCloses,    \* bound: times the interface is closed
  Bufs          \* buffers the kernel may allocate

ASSUME VectorAssumption ==
  /\ Kinds \subseteq {"net", "ctrl"}
  /\ {Cnt, TxCnt, PtrMod, FlBatch, Budget, CtrlBudget,
        MaxComplete} \subseteq Nat \ {0}
  /\ {MaxFrames, MaxCtrlFrames, MaxMsgs, MaxCloses} \subseteq Nat
  /\ PtrMod % Cnt = 0 /\ PtrMod % TxCnt = 0 /\ PtrMod % FlBatch = 0
  /\ FlBatch < Cnt      \* a smaller ring is never given to the device
  /\ Bufs \subseteq Nat \ {0} /\ IsFiniteSet(Bufs)
  /\ 1 .. Cnt - 1 + TxCnt \subseteq Bufs      \* enough to begin with

NoBuf == 0

VARIABLES
  kind,                  \* of the vector
  on,                    \* "up", or how far closing has come
  rx,                    \* the RX ring: wr_p, rd_p, rxbufs, rxds
  tx,                    \* the XDP ring, or the control vNIC's TX ring of messages
  dev,                   \* the device's pointers of both
  content,               \* the frame in each buffer, 0 when nobody counts on it
  alloc, stack,          \* buffers allocated, and of them those in skbs
  masked, pending,       \* the interrupt
  pc, polled, cmpl,      \* the poll: pkts_polled or messages taken, xdp_tx_cmpl
  written, rcvd, last,   \* history: frames from the device, taken, the last taken
  out,                   \* history: frames an XDP program sent back, not yet gone
  queue, handed, sent,   \* control messages: r_vec->queue; history
  closes

irqVars  == <<masked, pending>>
pollVars == <<pc, polled, cmpl>>
rxHist   == <<written, rcvd, last>>
ctrlVars == <<queue, handed, sent>>
mode     == <<kind, on, closes>>
vars == <<mode, rx, tx, dev, content, alloc, stack, irqVars, pollVars, rxHist,
          out, ctrlVars>>

PtrPlus(p, d)  == (p + d) % PtrMod
PtrMinus(p, q) == (p - q + PtrMod) % PtrMod
RxIdx(p)       == p % Cnt
TxIdx(p)       == p % TxCnt
TxMinus(p, q)  == TxIdx(p - q + TxCnt)

(* An operator marked "Slip" is not part of the model: it is a plausible   *)
(* mistake in the definition that follows it.                              *)

(* The n-th of the buffers the allocator has left.                         *)
Fresh(n) == CHOOSE b \in Bufs \ alloc :
              Cardinality({c \in Bufs \ alloc : c < b}) = n - 1
CanAlloc(n) == Cardinality(Bufs \ alloc) >= n

NoDesc == [dd |-> FALSE, buf |-> NoBuf]

(* nfp_net_rx_ring_fill_freelist() gives the buffers of the first Cnt - 1  *)
(* entries to the device, as far as they make up whole batches.            *)
Filled(bufs) ==
  [wr |-> Cnt - 1, rd |-> 0, bufs |-> bufs,
   ds |-> [s \in 0 .. Cnt - 1 |->
             IF s < Cnt - 1 THEN [dd |-> FALSE, buf |-> bufs[s]] ELSE NoDesc]]

DevFilled == [fl_wr |-> ((Cnt - 1) \div FlBatch) * FlBatch, fl_rd |-> 0,
              tx_wr |-> 0, tx_rd |-> 0]

EmptyTx(bufs) == [wr |-> 0, rd |-> 0, add |-> 0, qcp |-> 0, bufs |-> bufs]

Init ==
  /\ kind \in Kinds /\ on = "up" /\ closes = 0
  /\ alloc = 1 .. (IF kind = "net" THEN Cnt - 1 + TxCnt ELSE Cnt - 1)
  /\ rx = Filled([s \in 0 .. Cnt - 1 |-> IF s < Cnt - 1 THEN s + 1 ELSE NoBuf])
  /\ tx = EmptyTx([s \in 0 .. TxCnt - 1 |->
                     IF kind = "net" THEN Cnt + s ELSE NoBuf])
  /\ dev = DevFilled
  /\ content = [b \in Bufs |-> 0] /\ stack = {}
  /\ masked = FALSE /\ pending = FALSE
  /\ pc = "idle" /\ polled = 0 /\ cmpl = FALSE
  /\ written = 0 /\ rcvd = 0 /\ last = 0
  /\ out = <<>> /\ queue = <<>> /\ handed = 0 /\ sent = 0

----------------------------------------------------------------------------
(* The device, its interrupt, and the stack, which frees what it is given. *)

Enabled == on \in {"up", "closing"}

DevReceive ==
  /\ Enabled
  /\ written < IF kind = "net" THEN MaxFrames ELSE MaxCtrlFrames
  /\ dev.fl_rd # dev.fl_wr
  /\ rx' = [rx EXCEPT !.ds[dev.fl_rd].dd = TRUE]
  /\ content' = [content EXCEPT ![rx.ds[dev.fl_rd].buf] = written + 1]
  /\ dev' = [dev EXCEPT !.fl_rd = RxIdx(@ + 1)]
  /\ written' = written + 1
  /\ pending' = TRUE
  /\ UNCHANGED <<mode, tx, alloc, stack, masked, pollVars, rcvd, last, out, ctrlVars>>

DevSend ==
  /\ Enabled
  /\ dev.tx_rd # dev.tx_wr
  /\ dev' = [dev EXCEPT !.tx_rd = TxIdx(@ + 1)]
  /\ \/ /\ kind = "ctrl"
        /\ sent' = tx.bufs[dev.tx_rd]
        /\ UNCHANGED <<content, out>>
     \/ /\ kind = "net"
        /\ content' = [content EXCEPT ![tx.bufs[dev.tx_rd]] = 0]
        /\ out' = Tail(out)
        /\ UNCHANGED sent
  /\ pending' = TRUE
  /\ UNCHANGED <<mode, rx, tx, alloc, stack, masked, pollVars, rxHist, queue, handed>>

(* nfp_net_irq_rxtx() and nfp_ctrl_irq_rxtx(): "The FW auto-masks any      *)
(* interrupt", and what comes meanwhile is raised when it is unmasked.     *)
IrqRxTx ==
  /\ on = "up"
  /\ pending /\ ~masked
  /\ masked' = TRUE /\ pending' = FALSE
  /\ pc' = "scheduled"
  /\ UNCHANGED <<mode, rx, tx, dev, content, alloc, stack, polled, cmpl, rxHist,
                 out, ctrlVars>>

StackFrees ==
  /\ \E b \in stack : stack' = stack \ {b} /\ alloc' = alloc \ {b}
  /\ UNCHANGED <<mode, rx, tx, dev, content, irqVars, pollVars, rxHist, out, ctrlVars>>

----------------------------------------------------------------------------
(* Slip: the descriptor keeps the DD bit of its last frame.                *)
GivenDirty(r, frag) ==
  [r EXCEPT !.wr = PtrPlus(@, 1), !.bufs[RxIdx(r.wr)] = frag,
            !.ds[RxIdx(r.wr)].buf = frag]

(* nfp_net_rx_give_one() ...                                               *)
Given(r, frag) ==
  [r EXCEPT !.wr = PtrPlus(@, 1), !.bufs[RxIdx(r.wr)] = frag,
            !.ds[RxIdx(r.wr)] = [dd |-> FALSE, buf |-> frag]]

(* ... which tells the device of whole batches.                            *)
TellDevice(d) ==
  [d EXCEPT !.fl_wr =
     IF PtrPlus(rx.wr, 1) % FlBatch = 0 THEN RxIdx(@ + FlBatch) ELSE @]

Ready == rx.ds[RxIdx(rx.rd)].dd
RxBuf == rx.bufs[RxIdx(rx.rd)]
Taken == [rx EXCEPT !.rd = PtrPlus(@, 1)]

Counts ==
  /\ rcvd' = rcvd + 1
  /\ last' = content[RxBuf]
  /\ UNCHANGED written

(* nfp_net_rx_drop(), XDP_DROP and a message to the application: the       *)
(* buffer goes back.  An skb that was built already shares its page.       *)
Reuse ==
  /\ rx' = Given(Taken, RxBuf)
  /\ dev' = TellDevice(dev)
  /\ content' = [content EXCEPT ![RxBuf] = 0]
  /\ UNCHANGED <<alloc, stack>>

(* The frame goes to the stack, and a new buffer takes its place.          *)
Pass ==
  /\ CanAlloc(1)
  /\ rx' = Given(Taken, Fresh(1))
  /\ dev' = TellDevice(dev)
  /\ alloc' = alloc \cup {Fresh(1)}
  /\ stack' = stack \cup {RxBuf}
  /\ content' = [content EXCEPT ![RxBuf] = 0]

(* Slip: one packet too many.                                              *)
FullOnlyBeyond(t) == PtrMinus(t.wr, t.rd) > TxCnt - 1

(* nfp_net_tx_full(ring, 1).                                               *)
Full(t) == PtrMinus(t.wr, t.rd) >= TxCnt - 1

(* nfp_net_xdp_complete(); the buffers stay in the ring.                   *)
Todo(t) == TxMinus(dev.tx_rd, t.qcp)
AtMostMax(n) == IF n > MaxComplete THEN MaxComplete ELSE n
XdpComplete(t) ==
  [t EXCEPT !.qcp = TxIdx(@ + AtMostMax(Todo(t))),
            !.rd = PtrPlus(@, AtMostMax(Todo(t)))]

(* nfp_net_tx_xdp_buf(): a full ring is completed once in a poll.          *)
XdpTx ==
  LET t    == IF Full(tx) /\ ~cmpl THEN XdpComplete(tx) ELSE tx
      slot == TxIdx(t.wr)
  IN  /\ cmpl' = (cmpl \/ Full(tx))
      /\ \/ /\ Full(t)
            /\ Reuse
            /\ tx' = t
            /\ UNCHANGED out
         \/ /\ ~Full(t)
            /\ rx' = Given(Taken, t.bufs[slot])
            /\ dev' = TellDevice(dev)
            /\ tx' = [t EXCEPT !.bufs[slot] = RxBuf,
                               !.wr = PtrPlus(@, 1), !.add = @ + 1]
            /\ out' = Append(out, content[RxBuf])
            /\ UNCHANGED <<content, alloc, stack>>

----------------------------------------------------------------------------
(* nfp_net_poll() and nfp_net_rx().                                        *)

Poll ==
  /\ pc = "scheduled" /\ kind = "net"
  /\ pc' = "rx" /\ polled' = 0 /\ cmpl' = FALSE
  /\ UNCHANGED <<mode, rx, tx, dev, content, alloc, stack, irqVars, rxHist,
                 out, ctrlVars>>

RxOne ==
  /\ pc = "rx" /\ kind = "net"
  /\ polled < Budget /\ Ready
  /\ \/ (Reuse \/ Pass) /\ UNCHANGED <<tx, cmpl, out>>
     \/ XdpTx
  /\ Counts
  /\ polled' = polled + 1
  /\ UNCHANGED <<mode, irqVars, pc, ctrlVars>>

(* Slip: the count is cleared, the doorbell is not rung.                   *)
FlushSilently(t, d) == dev' = d /\ tx' = [t EXCEPT !.add = 0]

(* nfp_net_tx_xmit_more_flush().                                           *)
Flush(t, d) ==
  /\ dev' = [d EXCEPT !.tx_wr = TxIdx(@ + t.add)]
  /\ tx' = [t EXCEPT !.add = 0]

(* The end of nfp_net_rx() sends what was collected.  Otherwise it looks   *)
(* after the XDP ring, and keeps polling if that is too much at once.      *)
RxEnd ==
  /\ pc = "rx" /\ kind = "net"
  /\ polled = Budget \/ ~Ready
  /\ \/ /\ tx.add > 0
        /\ Flush(tx, dev)
        /\ UNCHANGED polled
     \/ /\ tx.add = 0
        /\ tx.wr # tx.rd /\ ~cmpl
        /\ tx' = XdpComplete(tx)
        /\ polled' = IF Todo(tx) <= MaxComplete THEN polled ELSE Budget
        /\ UNCHANGED dev
     \/ /\ tx.add = 0
        /\ tx.wr = tx.rd \/ cmpl
        /\ UNCHANGED <<tx, dev, polled>>
  /\ pc' = "end"
  /\ UNCHANGED <<mode, rx, content, alloc, stack, irqVars, cmpl, rxHist, out, ctrlVars>>

(* Slip: complete although the budget is used up.                          *)
LookedAtAll == TRUE

BudgetLeft == polled < Budget

PollEnd ==
  /\ pc = "end" /\ kind = "net"
  /\ \/ BudgetLeft /\ pc' = "idle" /\ masked' = FALSE
     \/ ~BudgetLeft /\ pc' = "scheduled" /\ UNCHANGED masked
  /\ polled' = 0 /\ cmpl' = FALSE
  /\ UNCHANGED <<mode, rx, tx, dev, content, alloc, stack, pending, rxHist,
                 out, ctrlVars>>

----------------------------------------------------------------------------
(* The control vNIC.  The ring holds messages, by their numbers.           *)

(* nfp_ctrl_tx_one() with room in the ring, except for the doorbell, which *)
(* it rings for each.                                                      *)
WithMsg(t, m) ==
  [t EXCEPT !.bufs[TxIdx(t.wr)] = m, !.wr = PtrPlus(@, 1), !.add = @ + 1]

(* nfp_ctrl_tx(): the queue's tail for a new message.                      *)
CtrlTx ==
  /\ kind = "ctrl" /\ handed < MaxMsgs
  /\ handed' = handed + 1
  /\ \/ Full(tx) /\ queue' = Append(queue, handed') /\ UNCHANGED <<tx, dev>>
     \/ /\ ~Full(tx)
        /\ Flush(WithMsg(tx, handed'), dev)
        /\ UNCHANGED queue
  /\ UNCHANGED <<mode, rx, content, alloc, stack, irqVars, pollVars, rxHist, out, sent>>

(* No headroom, or the message cannot be mapped: it is freed.              *)
CtrlTxFails ==
  /\ kind = "ctrl" /\ handed < MaxMsgs /\ ~Full(tx)
  /\ handed' = handed + 1
  /\ UNCHANGED <<mode, rx, tx, dev, content, alloc, stack, irqVars, pollVars,
                 rxHist, out, queue, sent>>

(* nfp_net_tx_complete() of a ring without network device.                 *)
CtrlComplete ==
  [tx EXCEPT !.rd = PtrPlus(@, Todo(tx)), !.qcp = dev.tx_rd,
             !.bufs = [s \in 0 .. TxCnt - 1 |->
                         IF TxMinus(s, tx.qcp) < Todo(tx) THEN NoBuf ELSE @[s]]]

(* Slip: a message for which there is no room again goes to the tail.      *)
RestToTail(q, n) ==
  LET rest == SubSeq(q, n + 1, Len(q))
  IN  IF rest = <<>> THEN rest ELSE Append(Tail(rest), Head(rest))

(* What __nfp_ctrl_tx_queued() leaves in the queue when n of it are gone.  *)
Rest(q, n) == SubSeq(q, n + 1, Len(q))

(* The ring after __nfp_ctrl_tx_queued() took the messages gone from the   *)
(* queue, of which those in failed could not be sent.                      *)
Posted(gone, failed) ==
  FoldLeft(LAMBDA t, m : IF m \in failed THEN t ELSE WithMsg(t, m), CtrlComplete, gone)

(* nfp_ctrl_poll() under the lock: n messages leave the queue, until there *)
(* is no room for the next.                                                *)
CtrlPoll ==
  /\ kind = "ctrl" /\ pc = "scheduled"
  /\ \E n \in 0 .. Len(queue) :
       LET gone == SubSeq(queue, 1, n)
       IN  \E failed \in SUBSET Range(gone) :
             LET t == Posted(gone, failed)
             IN  /\ t.add < TxCnt - PtrMinus(CtrlComplete.wr, CtrlComplete.rd)
                 /\ n < Len(queue) => Full(t)
                 /\ n > 0 /\ Full(t) => Last(gone) \notin failed
                 /\ queue' = Rest(queue, n)
                 /\ Flush(t, dev)
  /\ pc' = "rx" /\ polled' = 0
  /\ UNCHANGED <<mode, rx, content, alloc, stack, irqVars, cmpl, rxHist, out, handed,
                 sent>>

(* nfp_ctrl_rx(): "while (nfp_ctrl_rx_one() && budget--)".                 *)
CtrlRxOne ==
  /\ pc = "rx" /\ kind = "ctrl"
  /\ Ready
  /\ Reuse \/ Pass
  /\ Counts
  /\ polled' = polled + 1
  /\ pc' = IF polled < CtrlBudget THEN "rx" ELSE "end"
  /\ UNCHANGED <<mode, tx, irqVars, cmpl, out, ctrlVars>>

CtrlRxNone ==
  /\ pc = "rx" /\ kind = "ctrl"
  /\ ~Ready
  /\ pc' = "end"
  /\ UNCHANGED <<mode, rx, tx, dev, content, alloc, stack, irqVars, polled, cmpl,
                 rxHist, out, ctrlVars>>

(* The unsigned budget is 0, and the tasklet runs again, when exactly that *)
(* many messages were taken; it wraps when it is exceeded.                 *)
CtrlPollEnd ==
  /\ pc = "end" /\ kind = "ctrl"
  /\ \/ polled = CtrlBudget /\ pc' = "scheduled" /\ UNCHANGED masked
     \/ polled # CtrlBudget /\ pc' = "idle" /\ masked' = FALSE
  /\ polled' = 0
  /\ UNCHANGED <<mode, rx, tx, dev, content, alloc, stack, pending, cmpl, rxHist,
                 out, ctrlVars>>

----------------------------------------------------------------------------
(* Closing and opening.                                                    *)

(* nfp_net_close_stack(): napi_disable() waits for the poll.               *)
CloseStack ==
  /\ kind = "net" /\ on = "up" /\ pc = "idle" /\ closes < MaxCloses
  /\ on' = "closing" /\ closes' = closes + 1
  /\ UNCHANGED <<kind, rx, tx, dev, content, alloc, stack, irqVars, pollVars,
                 rxHist, out, ctrlVars>>

(* Slip: the entry is moved in a ring that was never fed, too.             *)
NeverSpared(r) == FALSE

NeverFed(r) == r.wr = 0 /\ r.rd = 0

(* nfp_net_rx_ring_reset(): the empty entry becomes the last one.          *)
RxReset ==
  IF NeverFed(rx) THEN rx
  ELSE [wr |-> 0, rd |-> 0,
        bufs |-> [rx.bufs EXCEPT ![RxIdx(rx.wr)] = rx.bufs[Cnt - 1],
                                 ![Cnt - 1] = NoBuf],
        ds |-> [s \in 0 .. Cnt - 1 |-> NoDesc]]

(* The device is disabled and the rings are reset, again and again if need *)
(* be.  The frames in them are lost.                                       *)
DisableAndReset ==
  /\ on \in {"closing", "reset"}
  /\ on' = "reset"
  /\ rx' = RxReset
  /\ tx' = EmptyTx(tx.bufs)
  /\ dev' = [fl_wr |-> 0, fl_rd |-> 0, tx_wr |-> 0, tx_rd |-> 0]
  /\ rcvd' = written /\ last' = written
  /\ content' = [b \in Bufs |-> 0] /\ out' = <<>>
  /\ UNCHANGED <<kind, closes, alloc, stack, irqVars, pollVars, written,
                 ctrlVars>>

(* nfp_net_rx_ring_bufs_free() and nfp_net_tx_ring_bufs_free().            *)
BufsFree ==
  /\ on = "reset"
  /\ on' = "empty"
  /\ alloc' = alloc \ ({rx.bufs[s] : s \in 0 .. Cnt - 2}
                       \cup {tx.bufs[s] : s \in 0 .. TxCnt - 1})
  /\ rx' = [rx EXCEPT !.bufs = [s \in 0 .. Cnt - 1 |->
                                  IF s < Cnt - 1 THEN NoBuf ELSE rx.bufs[s]]]
  /\ tx' = EmptyTx([s \in 0 .. TxCnt - 1 |-> NoBuf])
  /\ UNCHANGED <<kind, closes, dev, content, stack, irqVars, pollVars, rxHist,
                 out, ctrlVars>>

(* nfp_net_rx_ring_bufs_alloc() and nfp_net_tx_ring_bufs_alloc().          *)
BufsAlloc ==
  /\ on = "empty"
  /\ CanAlloc(Cnt - 1 + TxCnt)
  /\ on' = "reset"
  /\ rx' = [wr |-> 0, rd |-> 0, ds |-> [s \in 0 .. Cnt - 1 |-> NoDesc],
            bufs |-> [s \in 0 .. Cnt - 1 |->
                        IF s < Cnt - 1 THEN Fresh(s + 1) ELSE NoBuf]]
  /\ tx' = EmptyTx([s \in 0 .. TxCnt - 1 |-> Fresh(Cnt + s)])
  /\ alloc' = alloc \cup {Fresh(n) : n \in 1 .. Cnt - 1 + TxCnt}
  /\ UNCHANGED <<kind, closes, dev, content, stack, irqVars, pollVars, rxHist,
                 out, ctrlVars>>

(* The device is enabled and fed, and NAPI too.                            *)
Open ==
  /\ on = "reset"
  /\ on' = "up"
  /\ rx' = Filled(rx.bufs)
  /\ dev' = DevFilled
  /\ UNCHANGED <<kind, closes, tx, content, alloc, stack, irqVars, pollVars, rxHist,
                 out, ctrlVars>>

----------------------------------------------------------------------------
NetPoll  == Poll \/ RxOne \/ RxEnd \/ PollEnd
CtrlTasklet == CtrlPoll \/ CtrlRxOne \/ CtrlRxNone \/ CtrlPollEnd

Next ==
  \/ DevReceive \/ DevSend \/ IrqRxTx \/ StackFrees
  \/ NetPoll \/ CtrlTasklet \/ CtrlTx \/ CtrlTxFails
  \/ CloseStack \/ DisableAndReset \/ BufsFree \/ BufsAlloc \/ Open

(* The device works, an interrupt that is not masked is delivered, NAPI    *)
(* and tasklets run, the stack frees buffers, and who closed opens in the  *)
(* end, though the rings may be changed over and over before that.         *)
Spec == Init /\ [][Next]_vars

FairSpec ==
  /\ Spec
  /\ WF_vars(DevReceive) /\ WF_vars(DevSend) /\ WF_vars(IrqRxTx)
  /\ WF_vars(NetPoll \/ CtrlTasklet) /\ WF_vars(StackFrees)
  /\ WF_vars(on = "closing" /\ DisableAndReset) /\ WF_vars(BufsAlloc) /\ SF_vars(Open)

----------------------------------------------------------------------------
(* Properties.                                                             *)

(* Where buffers are: the ring keeps Cnt - 1, the XDP ring one per entry.  *)
RxSlots ==
  IF on = "empty" THEN {}
  ELSE IF NeverFed(rx) THEN 0 .. Cnt - 2
  ELSE {RxIdx(rx.rd + k) : k \in 0 .. PtrMinus(rx.wr, rx.rd) - 1}
TxSlots == IF on = "empty" \/ kind = "ctrl" THEN {} ELSE 0 .. TxCnt - 1

Places == ({"rx"} \X RxSlots) \cup ({"tx"} \X TxSlots) \cup ({"stack"} \X stack)

BufAt(p) == CASE p[1] = "rx"    -> rx.bufs[p[2]]
              [] p[1] = "tx"    -> tx.bufs[p[2]]
              [] p[1] = "stack" -> p[2]

(* However buffers are swapped, replaced, reused and moved, each is in one *)
(* place, and none is lost: also not by resetting the rings twice.         *)
BuffersOnce ==
  /\ \A p, q \in Places : BufAt(p) = BufAt(q) => p = q
  /\ {BufAt(p) : p \in Places} = alloc

(* What the TX ring holds from the device's read pointer on.               *)
InRing ==
  [k \in 1 .. TxMinus(TxIdx(tx.wr), dev.tx_rd) |-> tx.bufs[TxIdx(dev.tx_rd + k - 1)]]

(* The frames an XDP program sends back are still in their buffers when    *)
(* the device gets to them: nothing was received into them meanwhile, and  *)
(* no descriptor was overwritten.                                          *)
FramesIntact ==
  kind = "net" => [k \in DOMAIN InRing |-> content[InRing[k]]] = out

(* The poll takes every frame once and in order: it never takes the        *)
(* descriptor of an earlier round for a new one.                           *)
FramesInOrder == last = rcvd

(* No frame is left in the ring when the interrupt is unmasked without     *)
(* another one to come, and the device never starves for buffers.          *)
AllReceived == kind = "net" => <>(rcvd = MaxFrames)

(* Messages reach the device in the order in which they were handed over,  *)
(* with nfp_ctrl_tx() racing with the tasklet that sends the queue.        *)
MessagesInOrder ==
  LET all == <<sent>> \o InRing \o queue
  IN  kind = "ctrl" => \A j, k \in DOMAIN all : j < k => all[j] < all[k]

(* What an XDP program sends back goes out, and so do queued messages,     *)
(* without another frame or message to help them.                          *)
AllSent ==
  /\ out # <<>> ~> out = <<>>
  /\ queue # <<>> ~> queue = <<>>

============================================================================
