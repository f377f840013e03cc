------------------------------- MODULE TxRing -------------------------------
(***************************************************************************)
(* A transmit ring of modified-nfd-driver/nfp_net_common.c: the transmit   *)
(* path, which the stack calls for one packet at a time (nfp_net_tx), the  *)
(* completion run from NAPI on another CPU (nfp_net_tx_complete), the      *)
(* device that reads the descriptors, and closing and opening the          *)
(* interface.  The two CPUs share the ring's pointers and the queue's      *)
(* stopped bit without a lock, so an action ends where one of them reads   *)
(* or writes what the other one may change.                                *)
(*                                                                         *)
(* Byte queue limits, which stop the queue by a bit of their own, checksum *)
(* and segmentation fields are left out; so is the XDP ring, which only    *)
(* NAPI uses.                                                              *)
(***************************************************************************)
EXTENDS Integers

CONSTANTS
  Cnt,       \* descriptors of the ring; a power of two, so that it divides PtrMod
  PtrMod,    \* the pointers of the driver wrap here, 2^32
  MaxFrags,  \* MAX_SKB_FRAGS, 17
  Packets,   \* descriptors a packet may need, at most MaxFrags + 1
  MaxBehind  \* environment: descriptors posted while a completion that has
             \* seen room goes on to look whether the queue is stopped

StopRoom == MaxFrags + 1
WakeRoom == MaxFrags * 4

ASSUME RingAssumption ==
  /\ {Cnt, PtrMod, MaxFrags, MaxBehind} \subseteq Nat
  /\ Packets \subseteq 1 .. MaxFrags + 1
  /\ MaxFrags > 0 /\ WakeRoom < Cnt
  /\ PtrMod >= Cnt

ASSUME WrapAssumption == PtrMod % Cnt = 0

Free == [frags |-> 0, fidx |-> -2]     \* a txbuf without skb

VARIABLES
  wr_p, rd_p, wr_ptr_add, qcp_rd_p,    \* of struct nfp_net_tx_ring
  txbufs,       \* the buffer of each slot: frags of its skb, which it is
  stopped,      \* the queue's __QUEUE_STATE_DRV_XOFF
  qc_wr, qc_rd, \* the pointers of the queue controller
  xmit,         \* where nfp_net_tx is, "idle" outside
  posting,      \* descriptors of the packet it is about
  more,         \* netdev_xmit_more(): the stack has another packet in hand
  napi,         \* where nfp_net_tx_complete is, "idle" outside
  todo, seen,   \* its todo and qcp_rd_p
  behind,       \* descriptors posted behind its back when it last found room
  dev           \* "up", or how far closing has come

driver == <<wr_p, rd_p, wr_ptr_add, qcp_rd_p, txbufs>>
device == <<qc_wr, qc_rd>>
stack  == <<xmit, posting, more>>
poll   == <<napi, todo, seen, behind>>
vars   == <<driver, device, stack, poll, stopped, dev>>

(* An operator marked "slip" is not part of the model: it is a plausible   *)
(* mistake in the definition that follows it.                              *)

PtrPlus(p, d)   == IF p + d >= PtrMod THEN p + d - PtrMod ELSE p + d
PtrMinus(p, q)  == IF p >= q THEN p - q ELSE p - q + PtrMod
D_IDX(p)        == p % Cnt
(* D_IDX of the difference and the sum of two queue controller pointers.   *)
RingMinus(p, q) == IF p >= q THEN p - q ELSE p - q + Cnt
RingPlus(p, d)  == IF p + d >= Cnt THEN p + d - Cnt ELSE p + d

Used == PtrMinus(wr_p, rd_p)

FullOnlyBeyond(d)  == Used > Cnt - d            \* slip: > for >=
nfp_net_tx_full(d) == Used >= Cnt - d
WakeAtStop == ~nfp_net_tx_full(StopRoom)        \* slip: no distance to stopping
ShouldWake == ~nfp_net_tx_full(WakeRoom)
ShouldStop == nfp_net_tx_full(StopRoom)

Init ==
  /\ wr_p = 0 /\ rd_p = 0 /\ wr_ptr_add = 0 /\ qcp_rd_p = 0
  /\ txbufs = [s \in 0 .. Cnt - 1 |-> Free]
  /\ stopped = FALSE
  /\ qc_wr = 0 /\ qc_rd = 0
  /\ xmit = "idle" /\ posting = 0 /\ more = FALSE
  /\ napi = "idle" /\ todo = 0 /\ seen = 0 /\ behind = 0
  /\ dev = "up"

----------------------------------------------------------------------------
(* nfp_net_tx().  The stack calls it for an open queue, with its lock held *)
(* until the packets it has in hand are gone.                              *)

RingDoorbell(add) == qc_wr' = RingPlus(qc_wr, add) /\ wr_ptr_add' = 0

Called(m) ==
  /\ xmit = "idle"
  /\ ~stopped
  /\ more' = m

(* The buffers are filled and the packet becomes part of the ring.         *)
XmitPost(n, m) ==
  /\ Called(m)
  /\ ~nfp_net_tx_full(n)
  /\ napi \in {"test", "wake"} => behind + n <= MaxBehind
  /\ behind' = IF napi \in {"test", "wake"} THEN behind + n ELSE behind
  /\ txbufs' = [s \in DOMAIN txbufs |->
       LET i == RingMinus(s, D_IDX(wr_p))
       IN  IF i < n THEN [frags |-> n - 1, fidx |-> i - 1] ELSE txbufs[s]]
  /\ wr_p' = PtrPlus(wr_p, n)
  /\ posting' = n
  /\ xmit' = "posted"
  /\ UNCHANGED <<rd_p, wr_ptr_add, qcp_rd_p, stopped, device, napi, todo, seen,
                 dev>>

(* A packet is dropped after k of its buffers were filled: a mapping, the  *)
(* metadata, the features or TLS failed.  What waited goes out.            *)
XmitFails(n, m, k) ==
  /\ Called(m)
  /\ ~nfp_net_tx_full(n)
  /\ txbufs' = [s \in DOMAIN txbufs |->
       IF RingMinus(s, D_IDX(wr_p)) < k THEN Free ELSE txbufs[s]]
  /\ RingDoorbell(wr_ptr_add)
  /\ UNCHANGED <<wr_p, rd_p, qcp_rd_p, stopped, qc_rd, xmit, posting, poll, dev>>

XmitFull(n, m) ==
  /\ Called(m)
  /\ nfp_net_tx_full(n)
  /\ xmit' = "busy"
  /\ UNCHANGED <<driver, device, posting, stopped, poll, dev>>

(* NETDEV_TX_BUSY: the stack keeps the packet for later.                   *)
XmitBusy ==
  /\ xmit = "busy"
  /\ stopped' = TRUE
  /\ RingDoorbell(wr_ptr_add)
  /\ xmit' = "idle" /\ more' = FALSE
  /\ UNCHANGED <<wr_p, rd_p, qcp_rd_p, txbufs, qc_rd, posting, poll, dev>>

XmitPosted ==
  /\ xmit = "posted"
  /\ xmit' = IF ShouldStop THEN "stop" ELSE "account"
  /\ UNCHANGED <<driver, device, posting, more, poll, stopped, dev>>

(* nfp_net_tx_ring_stop() *)
RingStop ==
  /\ xmit = "stop"
  /\ stopped' = TRUE
  /\ xmit' = "recheck"
  /\ UNCHANGED <<driver, device, posting, more, poll, dev>>

RingStopRecheck ==
  /\ xmit = "recheck"
  /\ stopped' = (stopped /\ ~ShouldWake)
  /\ xmit' = "account"
  /\ UNCHANGED <<driver, device, posting, more, poll, dev>>

(* __netdev_tx_sent_queue() *)
LastOnly  == ~more                              \* slip: stopped is ignored
SentQueue == ~more \/ stopped

XmitAccount ==
  /\ xmit = "account"
  /\ IF SentQueue
     THEN RingDoorbell(wr_ptr_add + posting)
     ELSE wr_ptr_add' = wr_ptr_add + posting /\ UNCHANGED qc_wr
  /\ xmit' = "idle" /\ posting' = 0
  /\ UNCHANGED <<wr_p, rd_p, qcp_rd_p, txbufs, qc_rd, more, poll, stopped, dev>>

(* The stack keeps what it has in hand when it finds the queue stopped.    *)
StackBreaks ==
  /\ xmit = "idle" /\ more /\ stopped
  /\ more' = FALSE
  /\ UNCHANGED <<driver, device, xmit, posting, poll, stopped, dev>>

----------------------------------------------------------------------------
(* nfp_net_tx_complete() *)

CompleteStart ==
  /\ napi = "idle" /\ dev = "up"
  /\ wr_p # rd_p
  /\ qc_rd # qcp_rd_p
  /\ seen' = qc_rd
  /\ todo' = RingMinus(qc_rd, qcp_rd_p)
  /\ napi' = "loop"
  /\ UNCHANGED <<driver, device, stack, behind, stopped, dev>>

(* rd_p moves on before the buffer is cleared. *)
CompleteNext ==
  /\ napi = "loop" /\ todo > 0
  /\ todo' = todo - 1
  /\ rd_p' = PtrPlus(rd_p, 1)
  /\ napi' = "clean"
  /\ UNCHANGED <<wr_p, wr_ptr_add, qcp_rd_p, txbufs, device, stack, seen, behind,
                 stopped, dev>>

CompleteClean ==
  /\ napi = "clean"
  /\ txbufs' = [txbufs EXCEPT ![D_IDX(PtrMinus(rd_p, 1))] = Free]
  /\ napi' = "loop"
  /\ UNCHANGED <<wr_p, rd_p, wr_ptr_add, qcp_rd_p, device, stack, todo, seen,
                 behind, stopped, dev>>

ReadAgain == qc_rd                              \* slip: the pointer is read again
Completed == seen

CompleteLoopDone ==
  /\ napi = "loop" /\ todo = 0
  /\ qcp_rd_p' = Completed
  /\ napi' = IF ShouldWake THEN "test" ELSE "idle"
  /\ seen' = 0
  /\ behind' = IF ShouldWake THEN 0 ELSE behind
  /\ UNCHANGED <<wr_p, rd_p, wr_ptr_add, txbufs, device, stack, todo, stopped,
                 dev>>

CompleteTest ==
  /\ napi = "test"
  /\ napi' = IF stopped THEN "wake" ELSE "idle"
  /\ UNCHANGED <<driver, device, stack, todo, seen, behind, stopped, dev>>

CompleteWake ==
  /\ napi = "wake"
  /\ stopped' = FALSE
  /\ napi' = "idle"
  /\ UNCHANGED <<driver, device, stack, todo, seen, behind, dev>>

----------------------------------------------------------------------------
(* The device reads a descriptor it was told of. *)
DeviceReads ==
  /\ dev # "down"
  /\ qc_rd # qc_wr
  /\ qc_rd' = RingPlus(qc_rd, 1)
  /\ UNCHANGED <<driver, qc_wr, stack, poll, stopped, dev>>

(* nfp_net_close_stack(): napi_disable() waits for a running poll, and     *)
(* netif_tx_disable() for the lock of the queue.                           *)
NapiDisable ==
  /\ dev = "up" /\ napi = "idle"
  /\ dev' = "napi_off"
  /\ UNCHANGED <<driver, device, stack, poll, stopped>>

TxDisable ==
  /\ dev = "napi_off" /\ xmit = "idle" /\ ~more
  /\ stopped' = TRUE
  /\ dev' = "tx_off"
  /\ UNCHANGED <<driver, device, stack, poll>>

(* nfp_net_clear_config_and_disable(): the device stops and forgets its    *)
(* pointers, and nfp_net_tx_ring_reset() frees what was not transmitted.   *)
ResetSlots == {D_IDX(rd_p + i) : i \in 0 .. Used - 1}

RingReset ==
  /\ dev = "tx_off"
  /\ txbufs' = [s \in DOMAIN txbufs |-> IF s \in ResetSlots THEN Free ELSE txbufs[s]]
  /\ wr_p' = 0 /\ rd_p' = 0 /\ qcp_rd_p' = 0 /\ wr_ptr_add' = 0
  /\ qc_wr' = 0 /\ qc_rd' = 0
  /\ dev' = "down"
  /\ UNCHANGED <<stack, poll, stopped>>

(* nfp_net_open_stack() *)
OpenStack ==
  /\ dev = "down"
  /\ stopped' = FALSE
  /\ dev' = "up"
  /\ UNCHANGED <<driver, device, stack, poll>>

----------------------------------------------------------------------------
Xmit ==
  \E n \in Packets, m \in BOOLEAN :
    \/ XmitPost(n, m) \/ XmitFull(n, m)
    \/ \E k \in 0 .. n - 1 : XmitFails(n, m, k)

XmitGoesOn ==
  XmitBusy \/ XmitPosted \/ RingStop \/ RingStopRecheck \/ XmitAccount
    \/ StackBreaks

nfp_net_tx_complete ==
  CompleteStart \/ CompleteNext \/ CompleteClean \/ CompleteLoopDone
    \/ CompleteTest \/ CompleteWake

CloseOpen == NapiDisable \/ TxDisable \/ RingReset \/ OpenStack

Next == Xmit \/ XmitGoesOn \/ nfp_net_tx_complete \/ DeviceReads \/ CloseOpen

(* A call of nfp_net_tx returns, the stack goes on with what it has in     *)
(* hand, the device reads what it is told of, and NAPI is scheduled when   *)
(* the device has read something.  No packet has to come.                  *)
Fairness ==
  /\ WF_vars(XmitGoesOn) /\ WF_vars(more /\ Xmit)
  /\ WF_vars(nfp_net_tx_complete) /\ WF_vars(DeviceReads)

Spec     == Init /\ [][Next]_vars
FairSpec == Spec /\ Fairness

----------------------------------------------------------------------------
(* Every variable stays in its range. *)
TypeOK ==
  /\ {wr_p, rd_p} \subseteq 0 .. PtrMod - 1
  /\ {qcp_rd_p, qc_wr, qc_rd, seen, todo} \subseteq 0 .. Cnt - 1
  /\ wr_ptr_add \in Nat /\ behind \in Nat
  /\ posting \in 0 .. MaxFrags + 1
  /\ txbufs \in [0 .. Cnt - 1 -> [frags : 0 .. MaxFrags, fidx : -2 .. MaxFrags - 1]]
  /\ {stopped, more} \subseteq BOOLEAN
  /\ xmit \in {"idle", "busy", "posted", "stop", "recheck", "account"}
  /\ napi \in {"idle", "loop", "clean", "test", "wake"}
  /\ dev \in {"up", "napi_off", "tx_off", "down"}

(* One slot always stays unused, in which a completion can still clear the *)
(* buffer it has passed, and without which a full ring read to the end     *)
(* would look like one of which nothing was read.                          *)
RingNotOverrun == Used < Cnt

(* Every descriptor of the ring waits for its doorbell, for the device, or *)
(* for the completion: none is freed early, none is forgotten.             *)
Posting   == IF xmit \in {"posted", "stop", "recheck", "account"} THEN posting ELSE 0
Unread    == RingMinus(qc_wr, qc_rd)
Unseen    == RingMinus(qc_rd, IF napi \in {"loop", "clean"} THEN seen ELSE qcp_rd_p)
Uncleaned == IF napi \in {"loop", "clean"} THEN todo ELSE 0
DescriptorsAccounted ==
  Used = Posting + wr_ptr_add + Unread + Unseen + Uncleaned

(* The buffers between rd_p and wr_p are those of whole packets, the first *)
(* of which may have been freed in part; all others are free.              *)
Slot(i) == txbufs[D_IDX(rd_p + i)]
BuffersFramed ==
  /\ \A i \in 0 .. Used - 1 :
       /\ Slot(i) # Free
       /\ LET ends == Slot(i).fidx = Slot(i).frags - 1
          IN  IF i = Used - 1 THEN ends
              ELSE /\ Slot(i + 1).fidx = IF ends THEN -1 ELSE Slot(i).fidx + 1
                   /\ ~ends => Slot(i + 1).frags = Slot(i).frags
  /\ \A i \in Used .. Cnt - 1 :
       ~(napi = "clean" /\ i = Cnt - 1) => Slot(i) = Free

(* While the stack may call, an open queue has room for any packet, so     *)
(* that NETDEV_TX_BUSY is never returned; unless more was posted behind    *)
(* the back of a completion than lies between the two marks, before it     *)
(* woke the queue.                                                         *)
InTime == behind <= WakeRoom - StopRoom
OpenHasRoom ==
  xmit = "idle" /\ ~stopped /\ InTime => ~nfp_net_tx_full(StopRoom)

(* A doorbell is only put off while another packet is sure to come.        *)
NothingUnflushed == xmit = "idle" /\ wr_ptr_add # 0 => more /\ ~stopped

(* A queue that was stopped for want of room is woken again.               *)
StoppedIsWoken == stopped /\ dev = "up" ~> ~stopped \/ dev # "up"

(* The same, if no completion is overtaken further than that.              *)
WokenIfInTime == []InTime => StoppedIsWoken

(* Every buffer is freed: that of slot 0 stands for all, which come round  *)
(* alike.                                                                  *)
BuffersAreFreed ==
  txbufs[0] # Free /\ dev = "up" ~> txbufs[0] = Free \/ dev # "up"

=============================================================================
