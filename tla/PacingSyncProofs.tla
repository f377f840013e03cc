-------------------------- MODULE PacingSyncProofs --------------------------
(***************************************************************************)
(* Theorems about PacingQueue that rest on timing: what a context finds in *)
(* LM is right because the writes and the copies of CTM are done before    *)
(* the head gets there.                                                    *)
(***************************************************************************)
EXTENDS PacingQueueProofs

(* The most slots that are dequeued and not yet replaced by a sync.        *)
Backlog == SyncChunk - 1 + MaxBusy * Cardinality(Dequeuers)

(* What the sizes of the rings must leave the memories.  A dequeuer that   *)
(* is done with a busy period gets rid of its backlog in one sync; a write *)
(* is done before a sync may read its slot; and a sync is done before the  *)
(* head reaches its chunk.  The sizes of the firmware leave 55 slots for a *)
(* write and 80 for a sync when its contexts lag a whole chunk behind.     *)
EnoughSlack ==
  /\ MaxBusy <= SyncChunk
  /\ MaxOp <= (LmLength - SyncLength - MaxBusy - 1) * SlotTicks
  /\ MaxOp <= (SyncLength - Backlog - MaxBusy - 1) * SlotTicks

InLoop == {d \in Dequeuers : pc[d] = "loop"}

(* The clock and the backlog: the head is never ahead of the clock, a busy *)
(* period ends in time, and each context that is not in one leaves at most *)
(* one busy period's slots to the next sync.                               *)
CInv ==
  /\ TInv
  /\ pq_head_time <= now
  /\ busy + (now - pq_head_time) \div SlotTicks <= MaxBusy
  /\ busy > 0 => Due(pq_head_time) /\ \E d \in Dequeuers : pc[d] = "wait_reg"
  /\ pq_lm_dequeue_cnt <= SyncChunk - 1 + MaxBusy * Cardinality(InLoop) + busy

RInv ==
  /\ CInv
  /\ RingsInStep
  /\ pq_lm_sync_end % SyncChunk = 0
  /\ \A d \in Dequeuers : sync[d].lm % SyncChunk = 0
  /\ \A d \in Dequeuers : pc[d] # "read" => msg_sig[d] = {}

(* The writes to CTM that a context has reserved or issued.                *)
PendingWrites ==
  {reserved[n] : n \in {m \in Notifiers : pc[m] = "ctm_wait"}}
    \cup {[slot |-> w.slot, pkt |-> w.pkt, since |-> w.since] : w \in writes}

(* How many slots behind the head are reserved by a sync.                  *)
Window == SyncLength - pq_lm_dequeue_cnt

LmSlotAt(k) == Wrap(pq_lm_head + k, LmLength)

InTime(op) ==
  /\ now <= op.since + MaxOp
  /\ op.pkt \in 1 .. Len(pkts)
  /\ pkts[op.pkt].due > op.since + (LmLength - MaxBusy) * SlotTicks
  /\ book[op.slot] = op.pkt

ChunkAhead(d) ==
  LET k == Ahead(sync[d].ctm)
  IN  /\ now <= sync[d].since + MaxOp
      /\ pq_head_time + k * SlotTicks
           > sync[d].since + (SyncLength - Backlog - MaxBusy - 1) * SlotTicks
      /\ k + SyncChunk <= Window
      /\ sync[d].lm = LmSlotAt(k)

WInv ==
  /\ OInv /\ LmInv /\ RInv
  /\ \A op \in PendingWrites : InTime(op)
  /\ \A d \in Dequeuers : pc[d] = "read" => ChunkAhead(d)

(* A slot whose packet was written to LM directly.                         *)
Protected(s) == Ahead(s) < LmLength /\ LmSlotAt(Ahead(s)) \in lm_bitmasks

Covers(d, s) == pc[d] = "read" /\ s - sync[d].ctm \in Offsets

Got(d, o) == \E h \in msg_sig[d] : o \in ReadOffsets(h)

Written(s) ==
  \/ \E op \in PendingWrites : op.slot = s
  \/ ctm_pacing_queue[s] = book[s]

Copied(s) ==
  /\ \/ \E d \in Dequeuers : Covers(d, s)
     \/ lm_pacing_queue[LmSlotAt(Ahead(s))] = book[s]
  /\ \A d \in Dequeuers :
       Covers(d, s) /\ Got(d, s - sync[d].ctm)
         => batch_in[d][s - sync[d].ctm] = book[s]

InPlace(s) == ~Protected(s) => Written(s) /\ (Ahead(s) < Window => Copied(s))

VInv == WInv /\ \A s \in bitmasks : InPlace(s)

----------------------------------------------------------------------------
(* The clock and the backlog.                                              *)

LEMMA DivLess ==
  ASSUME NEW a \in Nat, NEW b \in Nat, b > 0, a >= b
  PROVE  (a - b) \div b = a \div b - 1 /\ a \div b \in Nat /\ a \div b >= 1
<1> DEFINE q == a \div b
           r == (a - b) \div b
<1>1. /\ q \in Nat /\ q * b <= a /\ a < (q + 1) * b
      /\ a - b \in Nat
  BY DivBounds
<1>2. r \in Nat /\ r * b <= a - b /\ a - b < (r + 1) * b
  BY <1>1, DivBounds
<1> HIDE DEF q, r
<1>3. (r + 1) * b = r * b + b /\ (r + 2) * b = r * b + b + b
      /\ r * b \in Nat /\ q * b \in Nat /\ (q + 1) * b \in Nat
  BY <1>1, <1>2
<1>4. CASE q <= r
  <2>1. (q + 1) * b <= (r + 1) * b
    BY <1>1, <1>2, <1>4, MulMono
  <2> QED BY <1>1, <1>2, <1>3, <2>1
<1>5. CASE r + 2 <= q
  <2>1. (r + 2) * b <= q * b
    BY <1>1, <1>2, <1>5, MulMono
  <2> QED BY <1>1, <1>2, <1>3, <2>1
<1>6. q = r + 1
  BY <1>1, <1>2, <1>4, <1>5
<1> QED BY <1>1, <1>2, <1>6 DEF q, r

LEMMA LoopCard ==
  /\ IsFiniteSet(InLoop) /\ Cardinality(InLoop) \in Nat
  /\ Cardinality(Dequeuers) \in Nat
  /\ Cardinality(InLoop) <= Cardinality(Dequeuers)
  /\ (\E d \in Dequeuers : d \notin InLoop)
       => Cardinality(InLoop) + 1 <= Cardinality(Dequeuers)
<1>1. IsFiniteSet(Dequeuers) /\ InLoop \subseteq Dequeuers
  BY ContextAssumption DEF InLoop
<1>2. /\ IsFiniteSet(InLoop) /\ Cardinality(InLoop) \in Nat
      /\ Cardinality(Dequeuers) \in Nat
      /\ Cardinality(InLoop) <= Cardinality(Dequeuers)
  BY <1>1, FS_Subset, FS_CardinalityType
<1>3. ASSUME NEW d \in Dequeuers, d \notin InLoop
      PROVE  Cardinality(InLoop) + 1 <= Cardinality(Dequeuers)
  <2>1. InLoop \cup {d} \subseteq Dequeuers
    BY <1>1, <1>3
  <2>2. Cardinality(InLoop \cup {d}) = Cardinality(InLoop) + 1
    BY <1>2, <1>3, FS_AddElement
  <2>3. Cardinality(InLoop \cup {d}) <= Cardinality(Dequeuers)
    BY <1>1, <2>1, FS_Subset
  <2> QED BY <2>2, <2>3
<1> QED BY <1>2, <1>3

LEMMA LoopCardNext ==
  /\ InLoop \subseteq InLoop' => Cardinality(InLoop) <= Cardinality(InLoop')
  /\ \A d \in Dequeuers :
       /\ d \in InLoop /\ InLoop' = InLoop \ {d}
            => Cardinality(InLoop) = Cardinality(InLoop') + 1
       /\ d \notin InLoop /\ InLoop' = InLoop \cup {d}
            => Cardinality(InLoop') = Cardinality(InLoop) + 1
  /\ Cardinality(InLoop') \in Nat
<1>1. IsFiniteSet(Dequeuers) /\ InLoop' \subseteq Dequeuers
  BY ContextAssumption DEF InLoop
<1>2. IsFiniteSet(InLoop) /\ IsFiniteSet(InLoop')
      /\ Cardinality(InLoop) \in Nat /\ Cardinality(InLoop') \in Nat
  BY <1>1, LoopCard, FS_Subset, FS_CardinalityType
<1>3. InLoop \subseteq InLoop' => Cardinality(InLoop) <= Cardinality(InLoop')
  BY <1>2, FS_Subset
<1>4. ASSUME NEW d \in Dequeuers, d \in InLoop, InLoop' = InLoop \ {d}
      PROVE  Cardinality(InLoop) = Cardinality(InLoop') + 1
  <2>1. Cardinality(InLoop') = Cardinality(InLoop) - 1
    BY <1>2, <1>4, FS_RemoveElement
  <2> QED BY <1>2, <2>1
<1>5. ASSUME NEW d \in Dequeuers, d \notin InLoop, InLoop' = InLoop \cup {d}
      PROVE  Cardinality(InLoop') = Cardinality(InLoop) + 1
  BY <1>2, <1>5, FS_AddElement
<1> QED BY <1>2, <1>3, <1>4, <1>5

(* The clock is less than a slot past the end of a busy period.            *)
LEMMA ClockBehind ==
  ASSUME CInv
  PROVE  now < pq_head_time + (MaxBusy + 1) * SlotTicks /\ busy <= MaxBusy
<1>1. /\ now \in Nat /\ pq_head_time \in Nat /\ pq_head_time <= now
      /\ busy \in Nat
      /\ busy + (now - pq_head_time) \div SlotTicks <= MaxBusy
  BY DEF CInv, TInv, TypeOK
<1> DEFINE q == (now - pq_head_time) \div SlotTicks
<1>2. q \in Nat /\ now - pq_head_time < (q + 1) * SlotTicks
  BY <1>1, DivBounds, Sizes
<1> HIDE DEF q
<1>3. q <= MaxBusy /\ busy <= MaxBusy
  BY <1>1, <1>2, Sizes DEF q
<1>4. (q + 1) * SlotTicks <= (MaxBusy + 1) * SlotTicks
  BY <1>2, <1>3, MulMono, Sizes
<1>5. (q + 1) * SlotTicks \in Nat /\ (MaxBusy + 1) * SlotTicks \in Nat
  BY <1>2, Sizes
<1> QED BY <1>1, <1>2, <1>3, <1>4, <1>5

LEMMA BacklogIsBounded == CInv => BacklogBounded
<1> SUFFICES ASSUME CInv PROVE BacklogBounded
  OBVIOUS
<1> DEFINE m == Cardinality(InLoop)
           n == Cardinality(Dequeuers)
<1>1. /\ m \in Nat /\ n \in Nat /\ m <= n
      /\ busy > 0 => m + 1 <= n
  <2>1. busy > 0 => \E d \in Dequeuers : d \notin InLoop
    BY DEF CInv, InLoop
  <2> QED BY <2>1, LoopCard
<1>2. pq_lm_dequeue_cnt <= SyncChunk - 1 + MaxBusy * m + busy
      /\ pq_lm_dequeue_cnt \in Nat /\ busy \in Nat
  BY DEF CInv, TInv, TypeOK
<1>3. busy <= MaxBusy
  BY ClockBehind
<1> HIDE DEF m, n
<1>4. MaxBusy * m + busy <= MaxBusy * n
  <2>1. MaxBusy * m = m * MaxBusy /\ MaxBusy * n = n * MaxBusy
        /\ (m + 1) * MaxBusy = m * MaxBusy + MaxBusy
        /\ m * MaxBusy \in Nat /\ n * MaxBusy \in Nat
    BY <1>1, Sizes
  <2>2. m * MaxBusy <= n * MaxBusy
    BY <1>1, MulMono, Sizes
  <2>3. busy > 0 => (m + 1) * MaxBusy <= n * MaxBusy
    BY <1>1, MulMono, Sizes
  <2> QED BY <1>2, <1>3, <2>1, <2>2, <2>3, Sizes
<1>5. MaxBusy * m \in Nat /\ MaxBusy * n \in Nat
  BY <1>1, Sizes
<1> QED BY <1>2, <1>4, <1>5, Sizes DEF BacklogBounded, n

LEMMA InitCInv == Init => CInv
<1> SUFFICES ASSUME Init PROVE CInv
  OBVIOUS
<1>1. Cardinality(InLoop) \in Nat
  BY LoopCard
<1>2. MaxBusy * Cardinality(InLoop) \in Nat
  BY <1>1, Sizes
<1>3. (now - pq_head_time) \div SlotTicks = 0
  <2>1. now - pq_head_time = 0
    BY DEF Init
  <2> QED BY <2>1, Sizes
<1>4. pq_lm_dequeue_cnt <= SyncChunk - 1 + MaxBusy * Cardinality(InLoop) + busy
  BY <1>2, Sizes DEF Init
<1> QED BY <1>3, <1>4, InitTInv, Sizes DEF Init, CInv

(* A context that does not touch the clock or the head moves.              *)
LEMMA ContextStep ==
  ASSUME CInv, TInv', UNCHANGED <<now, pq_head_time, busy>>,
         busy > 0 => \E d \in Dequeuers : pc'[d] = "wait_reg",
         \/ pq_lm_dequeue_cnt' < SyncChunk
         \/ pq_lm_dequeue_cnt' = pq_lm_dequeue_cnt /\ InLoop \subseteq InLoop'
  PROVE  CInv'
<1>1. /\ Cardinality(InLoop) \in Nat /\ Cardinality(InLoop') \in Nat
      /\ InLoop \subseteq InLoop' => Cardinality(InLoop) <= Cardinality(InLoop')
  BY LoopCard, LoopCardNext
<1> DEFINE m == Cardinality(InLoop)
           n == Cardinality(InLoop')
<1>2. /\ MaxBusy * m \in Nat /\ MaxBusy * n \in Nat
      /\ m <= n => MaxBusy * m <= MaxBusy * n
  <2> HIDE DEF m, n
  <2>1. m \in Nat /\ n \in Nat
    BY <1>1 DEF m, n
  <2>2. m <= n => m * MaxBusy <= n * MaxBusy
    BY <2>1, MulMono, Sizes
  <2> QED BY <2>1, <2>2, Sizes
<1>3. pq_lm_dequeue_cnt \in Nat /\ pq_lm_dequeue_cnt' \in Nat /\ busy \in Nat
  BY DEF CInv, TInv, TypeOK
<1>4. pq_lm_dequeue_cnt <= SyncChunk - 1 + MaxBusy * m + busy
  BY DEF CInv
<1>5. pq_lm_dequeue_cnt' <= SyncChunk - 1 + MaxBusy * n + busy
  <2> HIDE DEF m, n
  <2>1. InLoop \subseteq InLoop' => m <= n
    BY <1>1 DEF m, n
  <2> QED BY <1>2, <1>3, <1>4, <2>1, Sizes
<1>6. busy' > 0 => Due(pq_head_time)'
  BY DEF CInv, Due
<1> QED BY <1>5, <1>6 DEF CInv

LEMMA AdvanceCInv ==
  ASSUME CInv, TInv', NEW d \in Dequeuers, RegFree(d), Due(pq_head_time),
         AdvanceHead(d)
  PROVE  CInv'
<1>1. /\ now \in Nat /\ pq_head_time \in Nat /\ pq_head_time <= now
      /\ busy \in Nat /\ pq_lm_dequeue_cnt \in Nat
      /\ pc \in [Contexts -> {"notify", "ctm_wait", "loop", "read", "wait_reg"}]
  BY DEF CInv, TInv, TypeOK
<1>2. /\ pq_head_time' = pq_head_time + SlotTicks
      /\ pq_lm_dequeue_cnt' = pq_lm_dequeue_cnt + 1
      /\ busy' = IF Due(pq_head_time + SlotTicks) THEN busy + 1 ELSE 0
      /\ pc' = [pc EXCEPT ![d] = LoopOrSwap(pq_head_time + SlotTicks)]
      /\ now' = now
  BY DEF AdvanceHead
<1>3. d \in Contexts /\ pc[d] = "wait_reg"
  BY DEF Contexts, RegFree, Running
<1> DEFINE a == now - pq_head_time
           q == a \div SlotTicks
           m == Cardinality(InLoop)
<1>4. a \in Nat /\ a >= SlotTicks
  BY <1>1, Sizes DEF Due
<1>5. (a - SlotTicks) \div SlotTicks = q - 1 /\ q \in Nat /\ q >= 1
  BY <1>4, DivLess, Sizes
<1>6. busy + q <= MaxBusy
  BY DEF CInv
<1>7. m \in Nat /\ MaxBusy * m \in Nat
      /\ pq_lm_dequeue_cnt <= SyncChunk - 1 + MaxBusy * m + busy
  BY LoopCard, Sizes DEF CInv
<1>8. now' - pq_head_time' = a - SlotTicks
  BY <1>1, <1>2, Sizes
<1>9. (now' - pq_head_time') \div SlotTicks = q - 1
  BY <1>5, <1>8
<1>10. pq_head_time' <= now'
  BY <1>1, <1>2, <1>4, Sizes
<1>11. CASE Due(pq_head_time + SlotTicks)
  <2>1. pc'[d] = "wait_reg" /\ busy' = busy + 1 /\ InLoop' = InLoop
    BY <1>1, <1>2, <1>3, <1>11 DEF LoopOrSwap, InLoop
  <2>2. Due(pq_head_time)'
    BY <1>2, <1>11 DEF Due
  <2> HIDE DEF q, a, m
  <2>3. busy' + (now' - pq_head_time') \div SlotTicks <= MaxBusy
    BY <1>1, <1>5, <1>6, <1>9, <2>1, Sizes
  <2>4. pq_lm_dequeue_cnt' <= SyncChunk - 1 + MaxBusy * Cardinality(InLoop') + busy'
    BY <1>1, <1>2, <1>7, <2>1, Sizes DEF m
  <2> QED BY <1>10, <2>1, <2>2, <2>3, <2>4 DEF CInv
<1>12. CASE ~Due(pq_head_time + SlotTicks)
  <2>1. busy' = 0 /\ d \notin InLoop /\ InLoop' = InLoop \cup {d}
    BY <1>1, <1>2, <1>3, <1>12 DEF LoopOrSwap, InLoop
  <2>2. Cardinality(InLoop') = m + 1
    BY <2>1, LoopCardNext
  <2> HIDE DEF q, a, m
  <2>3. busy' + (now' - pq_head_time') \div SlotTicks <= MaxBusy
    BY <1>1, <1>5, <1>6, <1>9, <2>1, Sizes
  <2>4. MaxBusy * (m + 1) = MaxBusy * m + MaxBusy
    BY <1>7, Sizes
  <2>5. pq_lm_dequeue_cnt' <= SyncChunk - 1 + MaxBusy * Cardinality(InLoop') + busy'
    BY <1>1, <1>2, <1>5, <1>6, <1>7, <2>1, <2>2, <2>4, Sizes
  <2> QED BY <1>10, <2>1, <2>3, <2>5 DEF CInv
<1> QED BY <1>11, <1>12

LEMMA NextCInv ==
  ASSUME MaxBusy <= SyncChunk, CInv, [Next]_vars
  PROVE  CInv'
<1>1. TInv' /\ TypeOK
  BY NextTInv DEF CInv, TInv
<1>2. busy > 0 => \E d \in Dequeuers : pc[d] = "wait_reg"
  BY DEF CInv
<1>3. pc \in [Contexts -> {"notify", "ctm_wait", "loop", "read", "wait_reg"}]
      /\ Dequeuers \subseteq Contexts
  BY <1>1 DEF TypeOK, Contexts
<1>4. ASSUME UNCHANGED <<now, pq_head_time, busy, pq_lm_dequeue_cnt>>,
             \A d \in Dequeuers : pc'[d] = pc[d]
      PROVE  CInv'
  <2>1. InLoop' = InLoop
    BY <1>4 DEF InLoop
  <2> QED BY <1>1, <1>2, <1>4, <2>1, ContextStep
<1>5. ASSUME NEW n \in Notifiers, Enqueue(n) \/ SendPacketToCtm(n)
      PROVE  CInv'
  <2>1. \A d \in Dequeuers : d # n
    BY ContextAssumption
  <2>2. ASSUME NEW x PROVE \A d \in Dequeuers : [pc EXCEPT ![n] = x][d] = pc[d]
    BY <1>3, <2>1
  <2>3. UNCHANGED <<now, pq_head_time, busy, pq_lm_dequeue_cnt>>
    <3>1. CASE SendPacketToCtm(n)
      BY <3>1 DEF SendPacketToCtm, headVars, histVars
    <3>2. CASE Enqueue(n)
      <4>1. PICK r \in Requests : \/ EnqueueLm(n, r[1], r[2])
                                 \/ EnqueueCtm(n, r[1], r[2])
                                 \/ EnqueueHalt(n, r[1], r[2])
        BY <3>2 DEF Enqueue
      <4>2. CASE EnqueueLm(n, r[1], r[2])
        BY <4>2 DEF EnqueueLm, Reserve, headVars
      <4>3. CASE EnqueueCtm(n, r[1], r[2])
        BY <4>3 DEF EnqueueCtm, Reserve, headVars
      <4>4. CASE EnqueueHalt(n, r[1], r[2])
        BY <4>4 DEF EnqueueHalt, headVars, histVars
      <4> QED BY <4>1, <4>2, <4>3, <4>4
    <3> QED BY <1>5, <3>1, <3>2
  <2>4. UNCHANGED pc \/ \E x : pc' = [pc EXCEPT ![n] = x]
    BY <1>5
    DEF Enqueue, EnqueueLm, EnqueueCtm, EnqueueHalt, SendPacketToCtm
  <2>5. \A d \in Dequeuers : pc'[d] = pc[d]
    BY <2>2, <2>4
  <2> QED BY <1>4, <2>3, <2>5
<1>6. ASSUME NEW d \in Dequeuers, sync_dequeue_loop(d)
      PROVE  CInv'
  <2>1. ASSUME NEW x, pc' = [pc EXCEPT ![d] = x], pc[d] # "wait_reg", busy > 0
        PROVE  \E e \in Dequeuers : pc'[e] = "wait_reg"
    BY <1>2, <1>3, <2>1
  <2>2. CASE SyncReserve(d)
    <3>1. /\ pq_lm_dequeue_cnt' = pq_lm_dequeue_cnt - SyncChunk
          /\ pc[d] = "loop" /\ pc' = [pc EXCEPT ![d] = "read"]
          /\ UNCHANGED <<now, pq_head_time, busy>>
      BY <2>2 DEF SyncReserve, Running, headVars, histVars
    <3>2. d \in InLoop /\ InLoop' = InLoop \ {d}
      BY <1>3, <3>1 DEF InLoop
    <3> DEFINE m == Cardinality(InLoop)
               n == Cardinality(InLoop')
    <3>3. m = n + 1 /\ n \in Nat
      BY <3>2, LoopCardNext
    <3>4. pq_lm_dequeue_cnt <= SyncChunk - 1 + MaxBusy * m + busy
          /\ pq_lm_dequeue_cnt \in Nat /\ busy \in Nat
      BY <1>1 DEF CInv, TypeOK
    <3> HIDE DEF m, n
    <3>5. MaxBusy * m = MaxBusy * n + MaxBusy /\ MaxBusy * n \in Nat
      BY <3>3, Sizes
    <3>6. pq_lm_dequeue_cnt' <= SyncChunk - 1 + MaxBusy * n + busy
      BY <3>1, <3>4, <3>5, Sizes
    <3>7. busy' > 0 => Due(pq_head_time)' /\ \E e \in Dequeuers : pc'[e] = "wait_reg"
      BY <2>1, <3>1 DEF CInv, Due
    <3> QED BY <1>1, <3>1, <3>6, <3>7 DEF CInv, n
  <2>3. CASE SyncPlace(d) \/ StartDequeue(d)
    <3>1. /\ UNCHANGED <<now, pq_head_time, busy, pq_lm_dequeue_cnt>>
          /\ pc' = [pc EXCEPT ![d] = LoopOrSwap(pq_head_time)]
          /\ \/ pc[d] = "read"
             \/ pc[d] = "loop" /\ ~SyncNeeded
      BY <2>3 DEF SyncPlace, StartDequeue, Running, headVars, histVars
    <3>2. busy > 0 => \E e \in Dequeuers : pc'[e] = "wait_reg"
      BY <2>1, <3>1
    <3>3. pc[d] = "read" => InLoop \subseteq InLoop'
      BY <1>3, <3>1 DEF InLoop
    <3>4. ~SyncNeeded => pq_lm_dequeue_cnt < SyncChunk
      BY <1>1, Sizes DEF SyncNeeded, TypeOK
    <3> QED BY <1>1, <3>1, <3>2, <3>3, <3>4, ContextStep
  <2>4. CASE LeaveDequeue(d)
    <3>1. /\ UNCHANGED <<now, pq_head_time, busy, pq_lm_dequeue_cnt>>
          /\ pc' = [pc EXCEPT ![d] = "loop"]
          /\ ~Due(pq_head_time)
      BY <2>4 DEF LeaveDequeue, headVars, histVars
    <3>2. InLoop \subseteq InLoop'
      BY <1>3, <3>1 DEF InLoop
    <3>3. ~(busy > 0)
      BY <3>1 DEF CInv
    <3> QED BY <1>1, <3>1, <3>2, <3>3, ContextStep
  <2>5. CASE DequeuePacket(d) \/ PassEmptySlot(d)
    <3>1. RegFree(d) /\ Due(pq_head_time) /\ AdvanceHead(d)
      BY <2>5 DEF DequeuePacket, PassEmptySlot
    <3> QED BY <1>1, <3>1, AdvanceCInv
  <2> QED BY <1>6, <2>2, <2>3, <2>4, <2>5 DEF sync_dequeue_loop
<1>7. CASE Memory \/ UNCHANGED vars
  <2>1. UNCHANGED <<now, pq_head_time, busy, pq_lm_dequeue_cnt, pc>>
    BY <1>7
    DEF Memory, CtmWriteDone, WorkqAddDone, CtmReadDone, vars, headVars, histVars
  <2> QED BY <1>4, <2>1
<1>8. CASE Tick
  <2>1. /\ now' = now + 1 /\ KeepsUp
        /\ UNCHANGED <<pq_head_time, busy, pq_lm_dequeue_cnt, pc>>
    BY <1>8 DEF Tick, headVars, histVars
  <2>2. InLoop' = InLoop
    BY <2>1 DEF InLoop
  <2>3. now \in Nat /\ pq_head_time \in Nat
    BY <1>1 DEF TypeOK
  <2>4. pq_head_time' <= now'
    BY <2>1, <2>3 DEF CInv
  <2>5. busy' + (now' - pq_head_time') \div SlotTicks <= MaxBusy
    <3>1. now' - pq_head_time' = now + 1 - pq_head_time /\ busy' = busy
      BY <2>1, <2>3
    <3> QED BY <2>1, <3>1 DEF KeepsUp
  <2>6. busy' > 0 => Due(pq_head_time)' /\ \E e \in Dequeuers : pc'[e] = "wait_reg"
    BY <2>1, <2>3, Sizes DEF CInv, Due
  <2> QED BY <1>1, <2>1, <2>2, <2>4, <2>5, <2>6 DEF CInv
<1> QED BY <1>5, <1>6, <1>7, <1>8 DEF Next

----------------------------------------------------------------------------
(* The two rings.                                                          *)

LEMMA SlackFacts ==
  ASSUME EnoughSlack
  PROVE  /\ MaxOp \in Nat /\ MaxOp > 0 /\ Backlog \in Nat
         /\ Backlog + MaxBusy + 2 <= SyncLength
         /\ SyncLength + MaxBusy + 2 <= LmLength
<1>1. MaxOp \in Nat /\ MaxOp > 0
  BY SizesAssumption
<1>2. Backlog \in Nat
  <2>1. MaxBusy * Cardinality(Dequeuers) \in Nat
    BY LoopCard, Sizes
  <2> QED BY <2>1, Sizes DEF Backlog
<1>3. ASSUME NEW x \in Int, MaxOp <= x * SlotTicks
      PROVE  x >= 1
  <2>1. CASE x <= 0
    <3>1. x * SlotTicks <= 0 * SlotTicks
      BY <2>1, MulMono, Sizes
    <3>2. 0 * SlotTicks = 0 /\ x * SlotTicks \in Int
      BY Sizes
    <3> QED BY <1>1, <1>3, <3>1, <3>2
  <2> QED BY <2>1
<1>4. SyncLength - Backlog - MaxBusy - 1 >= 1
  <2>1. SyncLength - Backlog - MaxBusy - 1 \in Int
    BY <1>2, Sizes
  <2> QED BY <1>3, <2>1 DEF EnoughSlack
<1>5. LmLength - SyncLength - MaxBusy - 1 >= 1
  <2>1. LmLength - SyncLength - MaxBusy - 1 \in Int
    BY Sizes
  <2> QED BY <1>3, <2>1 DEF EnoughSlack
<1> QED BY <1>1, <1>2, <1>4, <1>5, Sizes

(* Some slots behind the head are always reserved by a sync.               *)
LEMMA WindowRange ==
  ASSUME EnoughSlack, CInv
  PROVE  Window \in Nat /\ Window >= MaxBusy + 2 /\ Window <= SyncLength
<1>1. pq_lm_dequeue_cnt <= Backlog /\ pq_lm_dequeue_cnt \in Nat
  BY BacklogIsBounded DEF BacklogBounded, Backlog, CInv, TInv, TypeOK
<1> QED BY <1>1, SlackFacts, Sizes DEF Window

LEMMA EndMoves ==
  ASSUME NEW len \in Nat, NEW h \in 0 .. len - 1, NEW w \in Nat, NEW c \in Nat,
         w + c < len
  PROVE  Wrap(Wrap(h + w, len) + c, len) = Wrap(h + (w + c), len)
<1>1. CASE h + w >= len
  BY <1>1 DEF Wrap
<1>2. CASE h + w < len
  BY <1>2 DEF Wrap
<1> QED BY <1>1, <1>2

LEMMA HeadMoves ==
  ASSUME NEW len \in Nat, NEW h \in 0 .. len - 1, NEW w \in Nat, w >= 1, w < len
  PROVE  Wrap(Wrap(h + 1, len) + (w - 1), len) = Wrap(h + w, len)
<1>1. CASE h + 1 >= len
  BY <1>1 DEF Wrap
<1>2. CASE h + 1 < len
  BY <1>2 DEF Wrap
<1> QED BY <1>1, <1>2

LEMMA InitRInv == Init => RInv
<1> SUFFICES ASSUME Init PROVE RInv
  OBVIOUS
<1>1. RingsInStep
  BY Sizes DEF Init, RingsInStep, Wrap
<1>2. SyncLength % SyncChunk = 0 /\ 0 % SyncChunk = 0
  BY ChunkAssumption, Sizes
<1> QED BY <1>1, <1>2, InitCInv DEF Init, RInv, NoSync

(* An end of the window moves by a chunk and stays aligned.                *)
LEMMA AlignedEnd ==
  ASSUME pq_lm_sync_end \in LmSlots, pq_lm_sync_end % SyncChunk = 0
  PROVE  Wrap(pq_lm_sync_end + SyncChunk, LmLength) % SyncChunk = 0
<1>1. pq_lm_sync_end \in Nat /\ pq_lm_sync_end < LmLength
  BY Sizes DEF LmSlots
<1>2. /\ pq_lm_sync_end + SyncChunk <= LmLength
      /\ (pq_lm_sync_end + SyncChunk) % SyncChunk = 0
  BY <1>1, ChunkFits, ChunkAssumption, Sizes
<1>3. CASE pq_lm_sync_end + SyncChunk = LmLength
  BY <1>3, Sizes DEF Wrap
<1>4. CASE pq_lm_sync_end + SyncChunk < LmLength
  BY <1>1, <1>2, <1>4, Sizes DEF Wrap
<1> QED BY <1>1, <1>2, <1>3, <1>4, Sizes

LEMMA NextRInv ==
  ASSUME EnoughSlack, RInv, [Next]_vars
  PROVE  RInv'
<1>1. CInv'
  BY NextCInv DEF RInv, EnoughSlack
<1>2. TypeOK /\ CInv
  BY DEF RInv, CInv, TInv
<1>3. /\ pq_ctm_head \in 0 .. CtmLength - 1 /\ pq_lm_head \in 0 .. LmLength - 1
      /\ pq_lm_dequeue_cnt \in Nat
      /\ pc \in [Contexts -> {"notify", "ctm_wait", "loop", "read", "wait_reg"}]
      /\ Dequeuers \subseteq Contexts
      /\ sync \in [Dequeuers -> [ctm : CtmSlots, lm : LmSlots, since : Nat]]
      /\ msg_sig \in [Dequeuers -> SUBSET {0, 1}]
  BY <1>2 DEF TypeOK, CtmSlots, LmSlots, Contexts
<1>4. ASSUME UNCHANGED <<pq_ctm_head, pq_lm_head, pq_ctm_sync_end, pq_lm_sync_end,
                         pq_lm_dequeue_cnt>>,
             \A d \in Dequeuers : sync'[d].lm % SyncChunk = 0,
             \A d \in Dequeuers : pc'[d] # "read" => msg_sig'[d] = {}
      PROVE  RInv'
  <2>1. RingsInStep'
    BY <1>4 DEF RInv, RingsInStep
  <2> QED BY <1>1, <1>4, <2>1 DEF RInv
<1>5. ASSUME UNCHANGED <<pq_ctm_head, pq_lm_head, pq_ctm_sync_end, pq_lm_sync_end,
                         pq_lm_dequeue_cnt, sync, msg_sig>>,
             \A d \in Dequeuers : pc'[d] = pc[d] \/ msg_sig[d] = {}
      PROVE  RInv'
  BY <1>4, <1>5 DEF RInv
<1>6. ASSUME NEW n \in Notifiers, Enqueue(n) \/ SendPacketToCtm(n)
      PROVE  RInv'
  <2>1. \A d \in Dequeuers : d # n
    BY ContextAssumption
  <2>2. ASSUME NEW x PROVE \A d \in Dequeuers : [pc EXCEPT ![n] = x][d] = pc[d]
    BY <1>3, <2>1
  <2>3. ASSUME NEW r \in Requests, EnqueueLm(n, r[1], r[2]) \/ EnqueueHalt(n, r[1], r[2])
        PROVE  RInv'
    BY <1>5, <2>3 DEF EnqueueLm, EnqueueHalt, Reserve, headVars, syncVars
  <2>4. ASSUME SendPacketToCtm(n) \/ \E r \in Requests : EnqueueCtm(n, r[1], r[2])
        PROVE  RInv'
    <3>1. /\ UNCHANGED <<pq_ctm_head, pq_lm_head, pq_ctm_sync_end, pq_lm_sync_end,
                         pq_lm_dequeue_cnt, sync, msg_sig>>
          /\ \E x : pc' = [pc EXCEPT ![n] = x]
      BY <2>4 DEF EnqueueCtm, SendPacketToCtm, Reserve, headVars, syncVars
    <3>2. \A d \in Dequeuers : pc'[d] = pc[d]
      BY <2>2, <3>1
    <3> QED BY <1>5, <3>1, <3>2
  <2> QED BY <1>6, <2>3, <2>4 DEF Enqueue
<1>7. ASSUME NEW d \in Dequeuers, sync_dequeue_loop(d)
      PROVE  RInv'
  <2>1. CASE SyncReserve(d)
    <3>1. /\ pq_lm_dequeue_cnt' = pq_lm_dequeue_cnt - SyncChunk
          /\ pq_lm_dequeue_cnt >= SyncChunk
          /\ pq_ctm_sync_end' = Wrap(pq_ctm_sync_end + SyncChunk, CtmLength)
          /\ pq_lm_sync_end' = Wrap(pq_lm_sync_end + SyncChunk, LmLength)
          /\ sync' = [sync EXCEPT ![d] =
               [ctm |-> pq_ctm_sync_end, lm |-> pq_lm_sync_end, since |-> now]]
          /\ pc' = [pc EXCEPT ![d] = "read"]
          /\ UNCHANGED <<pq_ctm_head, pq_lm_head, msg_sig>>
      BY <2>1 DEF SyncReserve, SyncNeeded, headVars
    <3> DEFINE w == Window
    <3>2. /\ w \in Nat /\ w + SyncChunk <= SyncLength
          /\ Window' = w + SyncChunk
      <4>1. Window \in Nat
        BY <1>2, WindowRange
      <4>2. Window' = SyncLength - (pq_lm_dequeue_cnt - SyncChunk)
        BY <3>1 DEF Window
      <4>3. SyncLength \in Nat /\ SyncChunk \in Nat
        BY Sizes
      <4>4. Window = SyncLength - pq_lm_dequeue_cnt
        BY DEF Window
      <4> QED BY <1>3, <3>1, <4>1, <4>2, <4>3, <4>4
    <3>3. /\ pq_ctm_sync_end = Wrap(pq_ctm_head + w, CtmLength)
          /\ pq_lm_sync_end = Wrap(pq_lm_head + w, LmLength)
      <4>1. /\ pq_ctm_head + SyncLength - pq_lm_dequeue_cnt = pq_ctm_head + w
            /\ pq_lm_head + SyncLength - pq_lm_dequeue_cnt = pq_lm_head + w
        BY <1>3, Sizes DEF Window
      <4> QED BY <4>1 DEF RInv, RingsInStep
    <3> HIDE DEF w
    <3>4. /\ pq_ctm_sync_end' = Wrap(pq_ctm_head + (w + SyncChunk), CtmLength)
          /\ pq_lm_sync_end' = Wrap(pq_lm_head + (w + SyncChunk), LmLength)
      <4>1. /\ SyncChunk \in Nat /\ LmLength \in Nat /\ CtmLength \in Nat
            /\ w + SyncChunk < LmLength /\ w + SyncChunk < CtmLength
        BY <3>2, Sizes
      <4>2. Wrap(Wrap(pq_ctm_head + w, CtmLength) + SyncChunk, CtmLength)
              = Wrap(pq_ctm_head + (w + SyncChunk), CtmLength)
        BY ZenonT(60), <1>3, <3>2, <4>1, EndMoves
      <4>3. Wrap(Wrap(pq_lm_head + w, LmLength) + SyncChunk, LmLength)
              = Wrap(pq_lm_head + (w + SyncChunk), LmLength)
        BY ZenonT(60), <1>3, <3>2, <4>1, EndMoves
      <4> QED BY <3>1, <3>3, <4>2, <4>3
    <3>5. RingsInStep'
      <4>1. /\ pq_ctm_head' + SyncLength - pq_lm_dequeue_cnt' = pq_ctm_head + (w + SyncChunk)
            /\ pq_lm_head' + SyncLength - pq_lm_dequeue_cnt' = pq_lm_head + (w + SyncChunk)
        BY <1>3, <3>1, Sizes DEF Window, w
      <4> QED BY <3>4, <4>1 DEF RingsInStep
    <3>6. \A e \in Dequeuers : sync'[e].lm % SyncChunk = 0
      BY <1>3, <3>1 DEF RInv
    <3>7. pq_lm_sync_end' % SyncChunk = 0
      BY <1>2, <3>1, AlignedEnd DEF RInv, TypeOK
    <3>8. \A e \in Dequeuers : pc'[e] # "read" => msg_sig'[e] = {}
      BY <1>3, <3>1 DEF RInv
    <3> QED BY <1>1, <3>5, <3>6, <3>7, <3>8 DEF RInv
  <2>2. CASE SyncPlace(d)
    <3>1. /\ sync' = [sync EXCEPT ![d] = NoSync]
          /\ msg_sig' = [msg_sig EXCEPT ![d] = {}]
          /\ pc' = [pc EXCEPT ![d] = LoopOrSwap(pq_head_time)]
          /\ UNCHANGED <<pq_ctm_head, pq_lm_head, pq_ctm_sync_end, pq_lm_sync_end,
                         pq_lm_dequeue_cnt>>
      BY <2>2 DEF SyncPlace, headVars
    <3>2. NoSync.lm % SyncChunk = 0
      BY Sizes DEF NoSync
    <3>3. \A e \in Dequeuers : sync'[e].lm % SyncChunk = 0
      BY <1>3, <3>1, <3>2 DEF RInv
    <3>4. \A e \in Dequeuers : pc'[e] # "read" => msg_sig'[e] = {}
      BY <1>3, <3>1 DEF RInv
    <3> QED BY <1>4, <3>1, <3>3, <3>4
  <2>3. CASE StartDequeue(d) \/ LeaveDequeue(d)
    <3>1. /\ UNCHANGED <<pq_ctm_head, pq_lm_head, pq_ctm_sync_end, pq_lm_sync_end,
                         pq_lm_dequeue_cnt, sync, msg_sig>>
          /\ pc[d] # "read"
          /\ \E x : pc' = [pc EXCEPT ![d] = x]
      BY <2>3 DEF StartDequeue, LeaveDequeue, RegFree, Running, headVars, syncVars
    <3>2. \A e \in Dequeuers : pc'[e] = pc[e] \/ msg_sig[e] = {}
      BY <1>3, <3>1 DEF RInv
    <3> QED BY <1>5, <3>1, <3>2
  <2>4. CASE DequeuePacket(d) \/ PassEmptySlot(d)
    <3>1. /\ pq_ctm_head' = Wrap(pq_ctm_head + 1, CtmLength)
          /\ pq_lm_head' = Wrap(pq_lm_head + 1, LmLength)
          /\ pq_lm_dequeue_cnt' = pq_lm_dequeue_cnt + 1
          /\ UNCHANGED <<pq_ctm_sync_end, pq_lm_sync_end, sync, msg_sig>>
          /\ pc[d] # "read"
          /\ \E x : pc' = [pc EXCEPT ![d] = x]
      BY <2>4
      DEF DequeuePacket, PassEmptySlot, AdvanceHead, RegFree, Running, syncVars
    <3> DEFINE w == Window
    <3>2. w \in Nat /\ w >= 1 /\ w < LmLength /\ w < CtmLength
      BY <1>2, WindowRange, Sizes
    <3>3. /\ pq_ctm_sync_end = Wrap(pq_ctm_head + w, CtmLength)
          /\ pq_lm_sync_end = Wrap(pq_lm_head + w, LmLength)
      <4>1. /\ pq_ctm_head + SyncLength - pq_lm_dequeue_cnt = pq_ctm_head + w
            /\ pq_lm_head + SyncLength - pq_lm_dequeue_cnt = pq_lm_head + w
        BY <1>3, Sizes DEF Window
      <4> QED BY <4>1 DEF RInv, RingsInStep
    <3> HIDE DEF w
    <3>4. /\ pq_ctm_sync_end' = Wrap(pq_ctm_head' + (w - 1), CtmLength)
          /\ pq_lm_sync_end' = Wrap(pq_lm_head' + (w - 1), LmLength)
      BY <1>3, <3>1, <3>2, <3>3, HeadMoves, Sizes
    <3>5. /\ pq_ctm_head' \in Nat /\ pq_lm_head' \in Nat
      BY <1>1 DEF CInv, TInv, TypeOK, CtmSlots, LmSlots
    <3>6. RingsInStep'
      <4>1. /\ pq_ctm_head' + SyncLength - pq_lm_dequeue_cnt' = pq_ctm_head' + (w - 1)
            /\ pq_lm_head' + SyncLength - pq_lm_dequeue_cnt' = pq_lm_head' + (w - 1)
        BY <1>3, <3>1, <3>5, Sizes DEF Window, w
      <4> QED BY <3>4, <4>1 DEF RingsInStep
    <3>7. \A e \in Dequeuers : pc'[e] # "read" => msg_sig'[e] = {}
      BY <1>3, <3>1 DEF RInv
    <3> QED BY <1>1, <3>1, <3>6, <3>7 DEF RInv
  <2> QED BY <1>7, <2>1, <2>2, <2>3, <2>4 DEF sync_dequeue_loop
<1>8. CASE Memory
  <2>1. ASSUME NEW d \in Dequeuers, NEW h \in {0, 1}, CtmReadDone(d, h)
        PROVE  RInv'
    <3>1. /\ UNCHANGED <<pq_ctm_head, pq_lm_head, pq_ctm_sync_end, pq_lm_sync_end,
                         pq_lm_dequeue_cnt, sync, pc>>
          /\ pc[d] = "read" /\ msg_sig' = [msg_sig EXCEPT ![d] = @ \cup {h}]
      BY <2>1 DEF CtmReadDone, headVars
    <3> QED BY <1>3, <1>4, <3>1 DEF RInv
  <2>2. CASE (\E o \in writes : CtmWriteDone(o)) \/ (\E o \in adds : WorkqAddDone(o))
    BY <1>5, <2>2 DEF CtmWriteDone, WorkqAddDone, headVars, syncVars
  <2> QED BY <1>8, <2>1, <2>2 DEF Memory
<1>9. CASE Tick \/ UNCHANGED vars
  BY <1>5, <1>9 DEF Tick, vars, headVars, syncVars
<1> QED BY <1>6, <1>7, <1>8, <1>9 DEF Next

(* Wherever a context gives the engine away, the rings, the window, the    *)
(* protected slots of LM and the signals are as the next one expects.      *)
THEOREM AlwaysConsistent ==
  ASSUME EnoughSlack
  PROVE  Spec => []ConsistentAtSwaps
<1>1. RInv /\ LmInv /\ SInv => ConsistentAtSwaps
  BY BacklogIsBounded, LmInvMeans, SInvMeans DEF RInv, ConsistentAtSwaps
<1>2. RInv /\ [Next]_vars => RInv'
  BY NextRInv
<1> QED
  BY InitRInv, InitLmInv, InitSInv, <1>2, NextLmInv, NextSInv, <1>1, PTL DEF Spec

----------------------------------------------------------------------------
(* The operations under way.                                               *)

LEMMA MulAdd ==
  ASSUME NEW a \in Int, NEW b \in Int, NEW c \in Nat
  PROVE  (a + b) * c = a * c + b * c /\ a * c \in Int /\ b * c \in Int
OBVIOUS

LEMMA MulLess ==
  ASSUME NEW a \in Int, NEW b \in Int, NEW c \in Nat, a * c < b * c
  PROVE  a < b
<1>1. CASE b <= a
  <2>1. b * c <= a * c
    BY <1>1, MulMono
  <2>2. a * c \in Int /\ b * c \in Int
    OBVIOUS
  <2> QED BY <2>1, <2>2
<1> QED BY <1>1

LEMMA PendingTypes ==
  ASSUME TypeOK, NEW op \in PendingWrites
  PROVE  op \in [slot : CtmSlots, pkt : Nat, since : Nat]
<1>1. CASE op \in {reserved[n] : n \in {m \in Notifiers : pc[m] = "ctm_wait"}}
  BY <1>1 DEF TypeOK
<1>2. CASE op \in {[slot |-> w.slot, pkt |-> w.pkt, since |-> w.since] : w \in writes}
  <2>1. PICK w \in writes : op = [slot |-> w.slot, pkt |-> w.pkt, since |-> w.since]
    BY <1>2
  <2>2. w \in [ctx : Notifiers, reg : Regs, slot : CtmSlots, pkt : Nat, since : Nat]
    BY DEF TypeOK
  <2> QED BY <2>1, <2>2
<1> QED BY <1>1, <1>2 DEF PendingWrites

(* A write under way is for a slot that no sync has reserved.              *)
LEMMA BehindWindow ==
  ASSUME EnoughSlack, CInv, BInv,
         NEW op \in [slot : CtmSlots, pkt : Nat, since : Nat], InTime(op)
  PROVE  /\ op.slot \in bitmasks /\ op.pkt = book[op.slot]
         /\ Ahead(op.slot) > SyncLength
<1> DEFINE k == Ahead(op.slot)
           x == LmLength - SyncLength - MaxBusy - 1
           y == SyncLength + 1
<1>1. TypeOK /\ op.slot \in CtmSlots /\ op.since \in Nat
  BY DEF BInv, TInv
<1>2. /\ now <= op.since + MaxOp /\ op.pkt \in 1 .. Len(pkts)
      /\ pkts[op.pkt].due > op.since + (LmLength - MaxBusy) * SlotTicks
      /\ book[op.slot] = op.pkt
  BY DEF InTime
<1>3. op.slot \in bitmasks /\ pkts[op.pkt].due = pq_head_time + (k + 1) * SlotTicks
  BY <1>1, <1>2 DEF BInv, BookingsExact
<1>4. /\ now \in Nat /\ pq_head_time \in Nat /\ pq_head_time <= now
      /\ k \in Nat /\ MaxOp \in Nat /\ MaxOp <= x * SlotTicks
      /\ x \in Int /\ y \in Int /\ LmLength - MaxBusy = x + y
      /\ SlotTicks \in Nat
  <2>1. now \in Nat /\ pq_head_time \in Nat /\ pq_head_time <= now
    BY <1>1 DEF TypeOK, CInv
  <2>2. k \in Nat
    BY <1>1, AheadOf
  <2>3. MaxOp \in Nat /\ MaxOp <= x * SlotTicks
    BY SlackFacts DEF EnoughSlack
  <2>4. /\ x \in Int /\ y \in Int /\ LmLength - MaxBusy = x + y
        /\ SlotTicks \in Nat
    BY Sizes
  <2> QED BY <2>1, <2>2, <2>3, <2>4
<1> HIDE DEF k, x, y
<1>5. (LmLength - MaxBusy) * SlotTicks = x * SlotTicks + y * SlotTicks
      /\ x * SlotTicks \in Int /\ y * SlotTicks \in Int
  BY <1>4, MulAdd
<1>6. (k + 1) * SlotTicks \in Int
  BY <1>4
<1>7. y * SlotTicks < (k + 1) * SlotTicks
  <2> DEFINE p == (k + 1) * SlotTicks
             q == x * SlotTicks
             r == y * SlotTicks
  <2>1. pq_head_time + p > op.since + (q + r)
    BY <1>2, <1>3, <1>5
  <2>2. p \in Int /\ q \in Int /\ r \in Int /\ MaxOp <= q
    BY <1>4, <1>5, <1>6
  <2> HIDE DEF p, q, r
  <2>3. r < p
    BY <1>1, <1>2, <1>4, <2>1, <2>2
  <2> QED BY <2>3 DEF p, r
<1>8. y < k + 1
  BY <1>4, <1>7, MulLess
<1> QED BY <1>2, <1>3, <1>4, <1>8, Sizes DEF k, y

(* When the head may move, a chunk that is being read is two slots away.   *)
LEMMA ChunkNotNext ==
  ASSUME EnoughSlack, CInv, NEW d \in Dequeuers, ChunkAhead(d), Due(pq_head_time)
  PROVE  Ahead(sync[d].ctm) >= 2
<1> DEFINE k == Ahead(sync[d].ctm)
           x == SyncLength - Backlog - MaxBusy - 1
<1>1. /\ TypeOK /\ sync[d].ctm \in CtmSlots /\ sync[d].since \in Nat
  BY DEF CInv, TInv, TypeOK
<1>2. /\ now \in Nat /\ pq_head_time \in Nat /\ k \in Nat
      /\ now >= pq_head_time + SlotTicks /\ SlotTicks \in Nat /\ MaxOp \in Nat
      /\ x \in Int /\ MaxOp <= x * SlotTicks
  <2>1. now \in Nat /\ pq_head_time \in Nat
    BY <1>1 DEF TypeOK
  <2>2. k \in Nat
    BY <1>1, AheadOf
  <2>3. now >= pq_head_time + SlotTicks /\ SlotTicks \in Nat
    BY <2>1, Sizes DEF Due
  <2>4. MaxOp \in Nat /\ MaxOp <= x * SlotTicks
    BY SlackFacts DEF EnoughSlack
  <2>5. x \in Int
    BY SlackFacts, Sizes
  <2> QED BY <2>1, <2>2, <2>3, <2>4, <2>5
<1>3. /\ now <= sync[d].since + MaxOp
      /\ pq_head_time + k * SlotTicks > sync[d].since + x * SlotTicks
  BY DEF ChunkAhead
<1> HIDE DEF k, x
<1>4. 1 * SlotTicks < k * SlotTicks
  <2> DEFINE p == k * SlotTicks
             q == x * SlotTicks
  <2>1. p \in Int /\ q \in Int /\ MaxOp <= q
        /\ pq_head_time + p > sync[d].since + q
    BY <1>2, <1>3
  <2> HIDE DEF p, q
  <2>2. SlotTicks < p
    BY <1>1, <1>2, <1>3, <2>1
  <2> QED BY <1>2, <2>2 DEF p
<1>5. 1 < k
  BY <1>2, <1>4, MulLess
<1> QED BY <1>2, <1>5 DEF k

LEMMA InitWInv == Init => WInv
<1> SUFFICES ASSUME Init PROVE WInv
  OBVIOUS
<1>1. PendingWrites = {}
  BY ContextAssumption DEF Init, PendingWrites, Contexts
<1>2. \A d \in Dequeuers : pc[d] # "read"
  BY ContextAssumption DEF Init, Contexts
<1> QED BY <1>1, <1>2, InitOInv, InitLmInv, InitRInv DEF WInv

(* What a step does to the writes under way.                               *)
LEMMA PendingFrame ==
  ASSUME UNCHANGED <<reserved, pc, writes>>
  PROVE  PendingWrites' = PendingWrites
BY DEF PendingWrites

LEMMA PendingSend ==
  ASSUME TypeOK, NEW n \in Notifiers, SendPacketToCtm(n)
  PROVE  PendingWrites' \subseteq PendingWrites
<1>1. /\ pc[n] = "ctm_wait" /\ pc' = [pc EXCEPT ![n] = "notify"]
      /\ reserved' = [reserved EXCEPT ![n] = NoReserved]
      /\ writes' = writes \cup {[ctx |-> n, reg |-> next_batch_out[n],
                                 slot |-> reserved[n].slot, pkt |-> reserved[n].pkt,
                                 since |-> reserved[n].since]}
  BY DEF SendPacketToCtm, Running
<1>2. /\ pc \in [Contexts -> {"notify", "ctm_wait", "loop", "read", "wait_reg"}]
      /\ reserved \in [Notifiers -> [slot : CtmSlots, pkt : Nat, since : Nat]]
      /\ Notifiers \subseteq Contexts
  BY DEF TypeOK, Contexts
<1>3. SUFFICES ASSUME NEW op \in PendingWrites' PROVE op \in PendingWrites
  OBVIOUS
<1>4. CASE op \in {reserved'[m] : m \in {m \in Notifiers : pc'[m] = "ctm_wait"}}
  <2>1. PICK m \in Notifiers : pc'[m] = "ctm_wait" /\ op = reserved'[m]
    BY <1>4
  <2>2. m # n /\ pc[m] = "ctm_wait" /\ op = reserved[m]
    BY <1>1, <1>2, <2>1
  <2> QED BY <2>2 DEF PendingWrites
<1>5. CASE op \in {[slot |-> w.slot, pkt |-> w.pkt, since |-> w.since] : w \in writes'}
  <2>1. PICK w \in writes' : op = [slot |-> w.slot, pkt |-> w.pkt, since |-> w.since]
    BY <1>5
  <2>2. CASE w \in writes
    BY <2>1, <2>2 DEF PendingWrites
  <2>3. CASE w = [ctx |-> n, reg |-> next_batch_out[n],
                  slot |-> reserved[n].slot, pkt |-> reserved[n].pkt,
                  since |-> reserved[n].since]
    <3>1. op = reserved[n]
      BY <1>2, <2>1, <2>3
    <3> QED BY <1>1, <3>1 DEF PendingWrites
  <2> QED BY <1>1, <2>2, <2>3
<1> QED BY <1>4, <1>5 DEF PendingWrites

LEMMA PendingCtm ==
  ASSUME TypeOK, NEW n \in Notifiers, NEW flow, NEW idt, EnqueueCtm(n, flow, idt)
  PROVE  LET b == Booking(Departure(flow, idt).slots)
         IN  PendingWrites' =
               PendingWrites \cup {[slot |-> b.index, pkt |-> Len(pkts) + 1, since |-> now]}
<1> DEFINE b == Booking(Departure(flow, idt).slots)
           new == [slot |-> b.index, pkt |-> Len(pkts) + 1, since |-> now]
<1>1. /\ pc[n] = "notify" /\ pc' = [pc EXCEPT ![n] = "ctm_wait"]
      /\ reserved' = [reserved EXCEPT ![n] = new]
      /\ writes' = writes
  BY DEF EnqueueCtm, Running, Reserve, outVars
<1> HIDE DEF new
<1>2. /\ pc \in [Contexts -> {"notify", "ctm_wait", "loop", "read", "wait_reg"}]
      /\ reserved \in [Notifiers -> [slot : CtmSlots, pkt : Nat, since : Nat]]
      /\ Notifiers \subseteq Contexts
  BY DEF TypeOK, Contexts
<1>3. {m \in Notifiers : pc'[m] = "ctm_wait"} = {m \in Notifiers : pc[m] = "ctm_wait"} \cup {n}
  BY <1>1, <1>2
<1>4. /\ reserved'[n] = new
      /\ \A m \in Notifiers : pc[m] = "ctm_wait" => reserved'[m] = reserved[m]
  BY <1>1, <1>2
<1>5. PendingWrites' = PendingWrites \cup {new}
  BY <1>1, <1>3, <1>4 DEF PendingWrites
<1> QED BY <1>5 DEF new

LEMMA PendingDequeuer ==
  ASSUME TypeOK, NEW d \in Dequeuers, UNCHANGED <<reserved, writes>>,
         NEW x, pc' = [pc EXCEPT ![d] = x]
  PROVE  PendingWrites' = PendingWrites
<1>1. /\ pc \in [Contexts -> {"notify", "ctm_wait", "loop", "read", "wait_reg"}]
      /\ Notifiers \subseteq Contexts /\ \A n \in Notifiers : n # d
  BY ContextAssumption DEF TypeOK, Contexts
<1>2. {n \in Notifiers : pc'[n] = "ctm_wait"} = {n \in Notifiers : pc[n] = "ctm_wait"}
  BY <1>1
<1> QED BY <1>2 DEF PendingWrites

(* A packet that is written to CTM has a slot far enough from the head.    *)
LEMMA NewWriteInTime ==
  ASSUME EnoughSlack, CInv, OInv, NEW n \in Notifiers, NEW flow \in Flows,
         NEW idt \in Nat, EnqueueCtm(n, flow, idt), NEW op,
         op = [slot  |-> Booking(Departure(flow, idt).slots).index,
               pkt   |-> Len(pkts) + 1,
               since |-> now]
  PROVE  InTime(op)'
<1> DEFINE d == Departure(flow, idt)
           b == Booking(d.slots)
           due == pq_head_time + (b.delta + 1) * SlotTicks
<1>1. TypeOK
  BY DEF CInv, TInv
<1>2. d.slots \in 0 .. ThreshSlots
  BY <1>1, DepartureFacts
<1>3. /\ FreeOffsets(DesiredIndex(d.slots)) # {} /\ ~(b.delta < LmLength)
      /\ Reserve(flow, d.dep, b)
  BY DEF EnqueueCtm, PlacedInLm
<1>4. b.index \in CtmSlots /\ b.delta \in Nat
  BY <1>1, <1>2, <1>3, BookingFacts
<1>5. /\ book' = [book EXCEPT ![b.index] = Len(pkts) + 1]
      /\ pkts' = Append(pkts, [flow |-> flow, dep |-> d.dep, due |-> due])
      /\ now' = now
  BY <1>3 DEF Reserve
<1>6. /\ pkts \in Seq([flow : Flows, dep : Nat, due : Nat])
      /\ book \in [CtmSlots -> Nat] /\ now \in Nat /\ pq_head_time \in Nat
  BY <1>1 DEF TypeOK
<1> HIDE DEF d, b, due
<1>7. /\ Len(pkts) + 1 \in 1 .. Len(pkts') /\ pkts'[Len(pkts) + 1].due = due
      /\ book'[b.index] = Len(pkts) + 1
  BY <1>4, <1>5, <1>6
<1>8. due > now + (LmLength - MaxBusy) * SlotTicks
  <2>1. now < pq_head_time + (MaxBusy + 1) * SlotTicks
    BY ClockBehind
  <2>2. /\ LmLength - MaxBusy \in Int /\ MaxBusy + 1 \in Int /\ SlotTicks \in Nat
        /\ (LmLength - MaxBusy) + (MaxBusy + 1) = LmLength + 1
        /\ LmLength + 1 <= b.delta + 1 /\ LmLength + 1 \in Int /\ b.delta + 1 \in Int
    BY <1>3, <1>4, Sizes
  <2> DEFINE p == (LmLength - MaxBusy) * SlotTicks
             q == (MaxBusy + 1) * SlotTicks
             r == (b.delta + 1) * SlotTicks
  <2>3. (LmLength + 1) * SlotTicks = p + q /\ p \in Int /\ q \in Int
    BY <2>2, MulAdd
  <2>4. (LmLength + 1) * SlotTicks <= r
    BY <2>2, MulMono
  <2>5. r \in Int /\ p + q <= r
    BY SMTT(30), <2>2, <2>3, <2>4
  <2>6. due = pq_head_time + r
    BY DEF due
  <2> HIDE DEF p, q, r
  <2>7. due > now + p
    BY <1>6, <2>1, <2>3, <2>5, <2>6 DEF q
  <2> QED BY <2>7 DEF p
<1>9. now <= now + MaxOp
  BY <1>6, SlackFacts
<1>10. op.slot = b.index /\ op.pkt = Len(pkts) + 1 /\ op.since = now
  BY DEF b, d
<1> QED BY <1>5, <1>7, <1>8, <1>9, <1>10 DEF InTime

LEMMA NextPending ==
  ASSUME EnoughSlack, WInv, [Next]_vars, NEW op \in PendingWrites'
  PROVE  InTime(op)'
<1>1. /\ CInv /\ BInv /\ TypeOK /\ OInv
      /\ \A o \in PendingWrites : InTime(o)
  BY DEF WInv, RInv, CInv, OInv, BInv, TInv
<1>2. /\ pkts \in Seq([flow : Flows, dep : Nat, due : Nat])
      /\ book \in [CtmSlots -> Nat] /\ now \in Nat /\ pq_ctm_head \in CtmSlots
      /\ bitmasks \subseteq CtmSlots
  BY <1>1 DEF TypeOK
<1>3. \A o \in PendingWrites :
        /\ o \in [slot : CtmSlots, pkt : Nat, since : Nat]
        /\ o.slot \in bitmasks /\ Ahead(o.slot) > SyncLength
  BY <1>1, PendingTypes, BehindWindow
<1>4. ASSUME op \in PendingWrites, now' = now, book'[op.slot] = book[op.slot],
             \/ pkts' = pkts
             \/ \E x : pkts' = Append(pkts, x)
      PROVE  InTime(op)'
  <2>1. Len(pkts) <= Len(pkts') /\ Len(pkts') \in Nat /\ Len(pkts) \in Nat
        /\ \A p \in 1 .. Len(pkts) : pkts'[p] = pkts[p]
    <3>1. CASE pkts' = pkts
      BY <1>2, <3>1
    <3>2. ASSUME NEW x, pkts' = Append(pkts, x)
          PROVE  /\ Len(pkts) <= Len(pkts') /\ Len(pkts') \in Nat /\ Len(pkts) \in Nat
                 /\ \A p \in 1 .. Len(pkts) : pkts'[p] = pkts[p]
      BY <1>2, <3>2
    <3> QED BY <1>4, <3>1, <3>2
  <2>2. InTime(op)
    BY <1>1, <1>4
  <2>3. op.pkt \in 1 .. Len(pkts') /\ pkts'[op.pkt] = pkts[op.pkt]
    BY <2>1, <2>2 DEF InTime
  <2> QED BY <1>4, <2>2, <2>3 DEF InTime
<1>5. ASSUME op \in PendingWrites, UNCHANGED <<now, book, pkts>>
      PROVE  InTime(op)'
  BY <1>4, <1>5
<1>6. ASSUME NEW n \in Notifiers, NEW r \in Requests,
             EnqueueLm(n, r[1], r[2]) \/ EnqueueCtm(n, r[1], r[2])
      PROVE  InTime(op)'
  <2>1. r[1] \in Flows /\ r[2] \in Nat
    BY ContextAssumption DEF Flows
  <2> DEFINE d == Departure(r[1], r[2])
             b == Booking(d.slots)
  <2>2. /\ FreeOffsets(DesiredIndex(d.slots)) # {}
        /\ Reserve(r[1], d.dep, b)
    BY <1>6 DEF EnqueueLm, EnqueueCtm
  <2>3. d.slots \in 0 .. ThreshSlots
    BY <1>1, <2>1, DepartureFacts
  <2>4. b.index \in CtmSlots /\ b.index \notin bitmasks
    BY <1>1, <2>2, <2>3, BookingFacts
  <2>5. /\ book' = [book EXCEPT ![b.index] = Len(pkts) + 1]
        /\ \E x : pkts' = Append(pkts, x)
        /\ now' = now
    BY <2>2 DEF Reserve
  <2>6. CASE op \in PendingWrites
    <3>1. book'[op.slot] = book[op.slot]
      <4> HIDE DEF b
      <4> QED BY <1>2, <1>3, <2>4, <2>5, <2>6
    <3> QED BY <1>4, <2>5, <2>6, <3>1
  <2>7. CASE op \notin PendingWrites
    <3>1. ~EnqueueLm(n, r[1], r[2])
      <4>1. ASSUME EnqueueLm(n, r[1], r[2]) PROVE PendingWrites' = PendingWrites
        BY <4>1, PendingFrame DEF EnqueueLm, Reserve, outVars
      <4> QED BY <2>7, <4>1
    <3>2. EnqueueCtm(n, r[1], r[2])
      BY <1>6, <3>1
    <3>3. op = [slot |-> b.index, pkt |-> Len(pkts) + 1, since |-> now]
      BY <1>1, <2>7, <3>2, PendingCtm
    <3> QED BY <1>1, <2>1, <3>2, <3>3, NewWriteInTime
  <2> QED BY <2>6, <2>7
<1>7. ASSUME NEW n \in Notifiers, NEW r \in Requests, EnqueueHalt(n, r[1], r[2])
      PROVE  InTime(op)'
  <2>1. UNCHANGED <<now, book, pkts, reserved, pc, writes>>
    BY <1>7 DEF EnqueueHalt, outVars, histVars
  <2> QED BY <1>5, <2>1, PendingFrame
<1>8. ASSUME NEW n \in Notifiers, SendPacketToCtm(n)
      PROVE  InTime(op)'
  BY <1>1, <1>5, <1>8, PendingSend DEF SendPacketToCtm, histVars
<1>9. ASSUME NEW d \in Dequeuers, sync_dequeue_loop(d)
      PROVE  InTime(op)'
  <2>1. PICK x : pc' = [pc EXCEPT ![d] = x]
    BY <1>9
    DEF sync_dequeue_loop, SyncReserve, SyncPlace, StartDequeue, LeaveDequeue,
        DequeuePacket, PassEmptySlot, AdvanceHead
  <2>2. UNCHANGED <<now, pkts, reserved, writes>>
    BY <1>9
    DEF sync_dequeue_loop, SyncReserve, SyncPlace, StartDequeue, LeaveDequeue,
        DequeuePacket, PassEmptySlot, AdvanceHead, outVars, histVars
  <2>3. op \in PendingWrites
    BY <1>1, <2>1, <2>2, PendingDequeuer
  <2>4. book'[op.slot] = book[op.slot]
    <3>1. CASE UNCHANGED book
      BY <3>1
    <3>2. CASE DequeuePacket(d)
      <4>1. book' = [book EXCEPT ![pq_ctm_head] = 0]
        BY <3>2 DEF DequeuePacket
      <4>2. op.slot \in CtmSlots /\ Ahead(op.slot) > SyncLength
        BY <1>3, <2>3
      <4>3. op.slot # pq_ctm_head
        BY <1>2, <4>2, AheadMoves, Sizes DEF Ahead
      <4> QED BY <1>2, <4>1, <4>2, <4>3
    <3> QED BY <1>9, <3>1, <3>2
        DEF sync_dequeue_loop, SyncReserve, SyncPlace, StartDequeue, LeaveDequeue,
            PassEmptySlot, histVars
  <2> QED BY <1>4, <2>2, <2>3, <2>4
<1>10. CASE Memory
  <2>1. UNCHANGED <<now, book, pkts, reserved, pc>> /\ writes' \subseteq writes
    BY <1>10
    DEF Memory, CtmWriteDone, WorkqAddDone, CtmReadDone, outVars, histVars
  <2>2. op \in PendingWrites
    BY <2>1 DEF PendingWrites
  <2> QED BY <1>5, <2>1, <2>2
<1>11. CASE Tick
  <2>1. /\ now' = now + 1 /\ OpsInTime
        /\ UNCHANGED <<book, pkts, reserved, pc, writes>>
    BY <1>11 DEF Tick, outVars, histVars
  <2>2. op \in PendingWrites
    BY <2>1, PendingFrame
  <2>3. now < op.since + MaxOp
    <3>1. ASSUME NEW w \in writes, op = [slot |-> w.slot, pkt |-> w.pkt, since |-> w.since]
          PROVE  now < op.since + MaxOp
      BY <2>1, <3>1 DEF OpsInTime
    <3>2. ASSUME NEW n \in Notifiers, pc[n] = "ctm_wait", op = reserved[n]
          PROVE  now < op.since + MaxOp
      BY <2>1, <3>2 DEF OpsInTime
    <3> QED BY <2>2, <3>1, <3>2 DEF PendingWrites
  <2>4. now + 1 <= op.since + MaxOp
    BY <1>2, <1>3, <2>2, <2>3, SlackFacts
  <2> QED BY <1>1, <2>1, <2>2, <2>4 DEF InTime
<1>12. CASE UNCHANGED vars
  <2>1. UNCHANGED <<now, book, pkts, reserved, pc, writes>>
    BY <1>12 DEF vars, outVars, histVars
  <2> QED BY <1>5, <2>1, PendingFrame
<1> QED BY <1>6, <1>7, <1>8, <1>9, <1>10, <1>11, <1>12 DEF Next, Enqueue

(* A sync that reserves a chunk does so at the end of the window.          *)
LEMMA NewChunkAhead ==
  ASSUME EnoughSlack, RInv, NEW d \in Dequeuers, SyncReserve(d)
  PROVE  ChunkAhead(d)'
<1>1. TypeOK /\ CInv
  BY DEF RInv, CInv, TInv
<1>2. /\ now \in Nat /\ pq_head_time \in Nat
      /\ pq_ctm_head \in 0 .. CtmLength - 1 /\ pq_lm_head \in 0 .. LmLength - 1
      /\ pq_lm_dequeue_cnt \in Nat
      /\ sync \in [Dequeuers -> [ctm : CtmSlots, lm : LmSlots, since : Nat]]
  BY <1>1 DEF TypeOK, CtmSlots, LmSlots
<1>3. /\ sync' = [sync EXCEPT ![d] =
           [ctm |-> pq_ctm_sync_end, lm |-> pq_lm_sync_end, since |-> now]]
      /\ pq_lm_dequeue_cnt' = pq_lm_dequeue_cnt - SyncChunk
      /\ UNCHANGED <<now, pq_head_time, pq_ctm_head, pq_lm_head>>
  BY DEF SyncReserve, headVars
<1>4. sync'[d].ctm = pq_ctm_sync_end /\ sync'[d].lm = pq_lm_sync_end
      /\ sync'[d].since = now
  BY <1>2, <1>3
<1> DEFINE w == Window
<1>5. w \in Nat /\ w < CtmLength /\ w = SyncLength - pq_lm_dequeue_cnt
  BY <1>1, WindowRange, Sizes DEF Window
<1>6. /\ pq_ctm_sync_end = Wrap(pq_ctm_head + w, CtmLength)
      /\ pq_lm_sync_end = Wrap(pq_lm_head + w, LmLength)
  <2>1. /\ pq_ctm_head + SyncLength - pq_lm_dequeue_cnt = pq_ctm_head + w
        /\ pq_lm_head + SyncLength - pq_lm_dequeue_cnt = pq_lm_head + w
    BY <1>2, Sizes DEF Window
  <2> QED BY <2>1 DEF RInv, RingsInStep
<1>7. Window' = w + SyncChunk
  BY <1>2, <1>3, Sizes DEF Window
<1> HIDE DEF w
<1>8. Ahead(sync'[d].ctm) = w /\ Ahead(sync[d].ctm)' = w
  <2>1. Ahead(pq_ctm_sync_end) = w
    BY <1>2, <1>5, <1>6, Sizes DEF Ahead, PQ_CTM_RING_DIFF, Wrap
  <2> QED BY <1>3, <1>4, <2>1 DEF Ahead, PQ_CTM_RING_DIFF
<1>9. sync'[d].lm = Wrap(pq_lm_head + w, LmLength)
  BY <1>4, <1>6
<1>10. pq_head_time + w * SlotTicks
         > now + (SyncLength - Backlog - MaxBusy - 1) * SlotTicks
  <2> DEFINE x == SyncLength - Backlog - MaxBusy - 1
             y == MaxBusy + 1
  <2>1. pq_lm_dequeue_cnt <= Backlog /\ Backlog \in Nat
    BY <1>1, BacklogIsBounded, SlackFacts DEF BacklogBounded, Backlog
  <2>2. x \in Int /\ y \in Int /\ x + y <= w /\ x + y \in Int
    BY <1>2, <1>5, <2>1, Sizes
  <2>3. now < pq_head_time + y * SlotTicks
    BY <1>1, ClockBehind
  <2> HIDE DEF x, y
  <2>4. (x + y) * SlotTicks = x * SlotTicks + y * SlotTicks
        /\ x * SlotTicks \in Int /\ y * SlotTicks \in Int
    BY <2>2, MulAdd, Sizes
  <2>5. (x + y) * SlotTicks <= w * SlotTicks
    BY <1>5, <2>2, MulMono, Sizes
  <2> DEFINE p == x * SlotTicks
             q == y * SlotTicks
             r == w * SlotTicks
  <2>6. p + q <= r /\ p \in Int /\ q \in Int /\ r \in Int /\ now < pq_head_time + q
    BY <1>5, <2>3, <2>4, <2>5, Sizes
  <2> HIDE DEF p, q, r
  <2>7. pq_head_time + r > now + p
    BY <1>2, <2>6
  <2> QED BY <2>7 DEF p, r, x
<1>11. now <= now + MaxOp
  BY <1>2, SlackFacts
<1> DEFINE k == Ahead(sync[d].ctm)
<1>12. /\ pq_head_time' + k' * SlotTicks
            > sync'[d].since + (SyncLength - Backlog - MaxBusy - 1) * SlotTicks
       /\ k' + SyncChunk <= Window'
  BY <1>3, <1>4, <1>5, <1>7, <1>8, <1>10, Sizes
<1>13. sync'[d].lm = LmSlotAt(k)'
  BY <1>3, <1>8, <1>9 DEF LmSlotAt
<1>14. now' <= sync'[d].since + MaxOp
  BY <1>3, <1>4, <1>11
<1> QED BY <1>12, <1>13, <1>14 DEF ChunkAhead, Backlog

LEMMA NextChunks ==
  ASSUME EnoughSlack, WInv, [Next]_vars, NEW d \in Dequeuers, pc'[d] = "read"
  PROVE  ChunkAhead(d)'
<1>1. /\ CInv /\ TypeOK /\ RInv
      /\ pc[d] = "read" => ChunkAhead(d)
  BY DEF WInv, RInv, CInv, TInv
<1>2. /\ pc \in [Contexts -> {"notify", "ctm_wait", "loop", "read", "wait_reg"}]
      /\ Dequeuers \subseteq Contexts
      /\ sync \in [Dequeuers -> [ctm : CtmSlots, lm : LmSlots, since : Nat]]
      /\ now \in Nat /\ pq_lm_dequeue_cnt \in Nat /\ pq_head_time \in Nat
      /\ pq_ctm_head \in CtmSlots /\ pq_lm_head \in 0 .. LmLength - 1
  BY <1>1 DEF TypeOK, Contexts, LmSlots
<1>3. Ahead(sync[d].ctm) \in Nat /\ sync[d].ctm \in CtmSlots
  BY <1>1, <1>2, AheadOf
<1>4. ASSUME UNCHANGED <<now, pq_head_time, pq_ctm_head, pq_lm_head>>,
             \/ pq_lm_dequeue_cnt' = pq_lm_dequeue_cnt
             \/ pq_lm_dequeue_cnt' = pq_lm_dequeue_cnt - SyncChunk,
             sync'[d] = sync[d], pc'[d] = "read" => pc[d] = "read"
      PROVE  ChunkAhead(d)'
  <2>1. ChunkAhead(d)
    BY <1>1, <1>4
  <2> DEFINE k == Ahead(sync[d].ctm)
  <2>2. k' = k
    BY <1>4 DEF Ahead, PQ_CTM_RING_DIFF
  <2>3. LmSlotAt(k)' = LmSlotAt(k)
    BY <1>4, <2>2 DEF LmSlotAt
  <2>4. k + SyncChunk <= Window'
    <3>1. k + SyncChunk <= SyncLength - pq_lm_dequeue_cnt
      BY <2>1 DEF ChunkAhead, Window
    <3>2. k \in Nat
      BY <1>3
    <3> HIDE DEF k
    <3> QED BY <1>2, <1>4, <3>1, <3>2, Sizes DEF Window
  <2> QED BY <1>4, <2>1, <2>2, <2>3, <2>4 DEF ChunkAhead, Backlog
<1>5. ASSUME NEW n \in Notifiers, Enqueue(n) \/ SendPacketToCtm(n)
      PROVE  ChunkAhead(d)'
  <2>1. d # n
    BY ContextAssumption
  <2>2. ASSUME NEW x PROVE [pc EXCEPT ![n] = x][d] = pc[d]
    BY <1>2, <2>1
  <2>3. /\ UNCHANGED <<now, pq_head_time, pq_ctm_head, pq_lm_head,
                       pq_lm_dequeue_cnt, sync>>
        /\ pc' = pc \/ \E x : pc' = [pc EXCEPT ![n] = x]
    BY <1>5
    DEF Enqueue, EnqueueLm, EnqueueCtm, EnqueueHalt, Reserve, SendPacketToCtm,
        headVars, syncVars
  <2>4. pc'[d] = pc[d]
    BY <2>2, <2>3
  <2> QED BY <1>4, <2>3, <2>4
<1>6. ASSUME NEW e \in Dequeuers, SyncReserve(e)
      PROVE  ChunkAhead(d)'
  <2>1. CASE d = e
    BY <1>1, <1>6, <2>1, NewChunkAhead
  <2>2. CASE d # e
    <3>1. /\ UNCHANGED <<now, pq_head_time, pq_ctm_head, pq_lm_head>>
          /\ pq_lm_dequeue_cnt' = pq_lm_dequeue_cnt - SyncChunk
          /\ \E x : sync' = [sync EXCEPT ![e] = x]
          /\ \E x : pc' = [pc EXCEPT ![e] = x]
      BY <1>6 DEF SyncReserve, headVars
    <3>2. sync'[d] = sync[d] /\ pc'[d] = pc[d]
      BY <1>2, <2>2, <3>1
    <3> QED BY <1>4, <3>1, <3>2
  <2> QED BY <2>1, <2>2
<1>7. ASSUME NEW e \in Dequeuers, SyncPlace(e) \/ StartDequeue(e) \/ LeaveDequeue(e)
      PROVE  ChunkAhead(d)'
  <2>1. /\ UNCHANGED <<now, pq_head_time, pq_ctm_head, pq_lm_head,
                       pq_lm_dequeue_cnt>>
        /\ \/ sync' = sync
           \/ sync' = [sync EXCEPT ![e] = NoSync]
        /\ \/ pc' = [pc EXCEPT ![e] = LoopOrSwap(pq_head_time)]
           \/ pc' = [pc EXCEPT ![e] = "loop"]
    BY <1>7 DEF SyncPlace, StartDequeue, LeaveDequeue, headVars, syncVars
  <2>2. d # e
    BY <1>2, <2>1 DEF LoopOrSwap
  <2>3. sync'[d] = sync[d] /\ pc'[d] = pc[d]
    BY <1>2, <2>1, <2>2
  <2> QED BY <1>4, <2>1, <2>3
<1>8. ASSUME NEW e \in Dequeuers, DequeuePacket(e) \/ PassEmptySlot(e)
      PROVE  ChunkAhead(d)'
  <2>1. /\ now' = now /\ pq_head_time' = pq_head_time + SlotTicks
        /\ pq_ctm_head' = Wrap(pq_ctm_head + 1, CtmLength)
        /\ pq_lm_head' = Wrap(pq_lm_head + 1, LmLength)
        /\ pq_lm_dequeue_cnt' = pq_lm_dequeue_cnt + 1
        /\ sync' = sync /\ Due(pq_head_time) /\ pc[e] = "wait_reg"
        /\ pc' = [pc EXCEPT ![e] = LoopOrSwap(pq_head_time + SlotTicks)]
    BY <1>8
    DEF DequeuePacket, PassEmptySlot, AdvanceHead, RegFree, Running, syncVars
  <2>2. pc[d] = "read"
    BY <1>2, <2>1 DEF LoopOrSwap
  <2>3. ChunkAhead(d)
    BY <1>1, <2>2
  <2> DEFINE k == Ahead(sync[d].ctm)
             x == (SyncLength - Backlog - MaxBusy - 1) * SlotTicks
             w == Window
  <2>4. k \in Nat /\ k >= 2
    BY <1>1, <1>3, <2>1, <2>3, ChunkNotNext
  <2>5. k' = k - 1
    <3>1. sync[d].ctm # pq_ctm_head
      BY <1>2, <1>3, <2>4, AheadMoves DEF Ahead
    <3> QED BY <1>2, <1>3, <2>1, <3>1, AheadMoves DEF Ahead, PQ_CTM_RING_DIFF
  <2>6. /\ pq_head_time + k * SlotTicks > sync[d].since + x
        /\ now <= sync[d].since + MaxOp
        /\ k + SyncChunk <= w /\ sync[d].lm = LmSlotAt(k)
    BY <2>3 DEF ChunkAhead
  <2>7. w \in Nat /\ w <= SyncLength /\ w = SyncLength - pq_lm_dequeue_cnt
        /\ Window' = w - 1
    <3>1. w \in Nat /\ w <= SyncLength
      BY <1>1, WindowRange
    <3> QED BY <1>2, <2>1, <3>1, Sizes DEF Window
  <2> HIDE DEF k, w
  <2>8. pq_head_time' + (k - 1) * SlotTicks = pq_head_time + k * SlotTicks
    <3>1. (k - 1 + 1) * SlotTicks = (k - 1) * SlotTicks + SlotTicks
          /\ k - 1 + 1 = k /\ (k - 1) * SlotTicks \in Int
      BY <2>4, MulSucc, Sizes
    <3> QED BY <1>2, <2>1, <3>1, Sizes
  <2>9. Wrap(pq_lm_head' + (k - 1), LmLength) = Wrap(pq_lm_head + k, LmLength)
    BY <1>2, <2>1, <2>4, <2>6, <2>7, HeadMoves, Sizes
  <2>10. k - 1 + SyncChunk <= Window'
    BY <2>4, <2>6, <2>7, Sizes
  <2>11. sync'[d].lm = LmSlotAt(k)'
    BY <2>1, <2>5, <2>6, <2>9 DEF LmSlotAt
  <2>12. pq_head_time' + k' * SlotTicks > sync'[d].since + x
    BY <2>1, <2>5, <2>6, <2>8
  <2>13. /\ now' <= sync'[d].since + MaxOp /\ k' + SyncChunk <= Window'
    BY <2>1, <2>5, <2>6, <2>10
  <2> QED BY <2>11, <2>12, <2>13 DEF ChunkAhead, k, Backlog
<1>9. CASE Memory \/ UNCHANGED vars
  <2>1. UNCHANGED <<now, pq_head_time, pq_ctm_head, pq_lm_head,
                    pq_lm_dequeue_cnt, sync, pc>>
    BY <1>9
    DEF Memory, CtmWriteDone, WorkqAddDone, CtmReadDone, vars, headVars, syncVars
  <2> QED BY <1>4, <2>1
<1>10. CASE Tick
  <2>1. /\ now' = now + 1 /\ OpsInTime
        /\ UNCHANGED <<pq_head_time, pq_ctm_head, pq_lm_head,
                       pq_lm_dequeue_cnt, sync, pc>>
    BY <1>10 DEF Tick, headVars, syncVars
  <2>2. ChunkAhead(d) /\ now < sync[d].since + MaxOp
    BY <1>1, <2>1 DEF OpsInTime
  <2>3. now + 1 <= sync[d].since + MaxOp
    BY <1>2, <2>2, SlackFacts
  <2>4. now' <= sync'[d].since + MaxOp
    BY <2>1, <2>3
  <2> DEFINE k == Ahead(sync[d].ctm)
  <2>5. k' = k /\ LmSlotAt(k)' = LmSlotAt(k) /\ Window' = Window
    BY <2>1 DEF Ahead, PQ_CTM_RING_DIFF, LmSlotAt, Window
  <2> QED BY <2>1, <2>2, <2>4, <2>5 DEF ChunkAhead, Backlog
<1> QED BY <1>5, <1>6, <1>7, <1>8, <1>9, <1>10 DEF Next, sync_dequeue_loop

LEMMA NextWInv ==
  ASSUME EnoughSlack, WInv, [Next]_vars
  PROVE  WInv'
<1>1. OInv' /\ LmInv' /\ RInv'
  BY NextOInv, NextLmInv, NextRInv DEF WInv
<1>2. \A op \in PendingWrites' : InTime(op)'
  BY NextPending
<1>3. \A d \in Dequeuers : pc'[d] = "read" => ChunkAhead(d)'
  BY NextChunks
<1> QED BY <1>1, <1>2, <1>3 DEF WInv

----------------------------------------------------------------------------
(* What LM and CTM hold.                                                   *)

(* A chunk does not wrap: its slots are the ones its length behind it.     *)
LEMMA InChunk ==
  ASSUME TypeOK, NEW c \in CtmSlots, c % SyncChunk = 0, NEW s \in CtmSlots,
         Ahead(c) + SyncChunk <= CtmLength
  PROVE  /\ s - c \in Offsets
              <=> Ahead(c) <= Ahead(s) /\ Ahead(s) < Ahead(c) + SyncChunk
         /\ s - c \in Offsets => Ahead(s) = Ahead(c) + (s - c)
<1>1. c + SyncChunk <= CtmLength
  <2>1. c \in Nat /\ c < CtmLength
    BY Sizes DEF CtmSlots
  <2> QED BY <2>1, ChunkFits, ChunkAssumption, Sizes
<1>2. pq_ctm_head \in CtmSlots
  BY DEF TypeOK
<1> QED BY <1>1, <1>2, Sizes DEF CtmSlots, Offsets, Ahead, PQ_CTM_RING_DIFF

LEMMA InLmChunk ==
  ASSUME TypeOK, NEW l \in LmSlots, l % SyncChunk = 0, NEW k \in Nat,
         l = LmSlotAt(k), k + SyncChunk <= LmLength, NEW o \in Offsets
  PROVE  LmSlotAt(k + o) = l + o
<1>1. l + SyncChunk <= LmLength
  <2>1. l \in Nat /\ l < LmLength
    BY Sizes DEF LmSlots
  <2> QED BY <2>1, ChunkFits, ChunkAssumption, Sizes
<1>2. pq_lm_head \in LmSlots
  BY DEF TypeOK
<1> QED BY <1>1, <1>2, Sizes DEF LmSlots, Offsets, LmSlotAt, Wrap

LEMMA LmSlotsDiffer ==
  ASSUME TypeOK, NEW j \in Nat, NEW k \in Nat, j < LmLength, k < LmLength,
         LmSlotAt(j) = LmSlotAt(k)
  PROVE  j = k
<1>1. pq_lm_head \in 0 .. LmLength - 1 /\ LmLength \in Nat
  BY Sizes DEF TypeOK, LmSlots
<1> QED BY <1>1 DEF LmSlotAt, Wrap

LEMMA LmSlotAtMoves ==
  ASSUME TypeOK, pq_lm_head' = Wrap(pq_lm_head + 1, LmLength),
         NEW k \in Nat, k > 0, k < LmLength
  PROVE  /\ Wrap(pq_lm_head' + (k - 1), LmLength) = LmSlotAt(k)
         /\ LmSlotAt(k) # pq_lm_head /\ LmSlotAt(k) \in LmSlots
BY Sizes DEF TypeOK, LmSlots, LmSlotAt, Wrap

(* The chunk a dequeuer reads lies in the window, in CTM as in LM.         *)
LEMMA CoveredFacts ==
  ASSUME EnoughSlack, WInv, NEW d \in Dequeuers, pc[d] = "read",
         NEW s \in CtmSlots
  PROVE  LET k == Ahead(sync[d].ctm)
         IN  /\ Covers(d, s) <=> k <= Ahead(s) /\ Ahead(s) < k + SyncChunk
             /\ Covers(d, s) =>
                  /\ Ahead(s) < Window
                  /\ LmSlotAt(Ahead(s)) = sync[d].lm + (s - sync[d].ctm)
             /\ LmSlotAt(Ahead(s)) - sync[d].lm \in Offsets /\ Ahead(s) < LmLength
                  => Covers(d, s)
<1> DEFINE k == Ahead(sync[d].ctm)
           c == sync[d].ctm
           l == sync[d].lm
<1>1. TypeOK /\ CInv /\ ChunkAhead(d)
  BY DEF WInv, RInv, CInv, TInv
<1>2. /\ c \in CtmSlots /\ l \in LmSlots
      /\ c % SyncChunk = 0 /\ l % SyncChunk = 0
  BY <1>1 DEF TypeOK, WInv, RInv, CInv, TInv, Aligned
<1>3. k \in Nat /\ k + SyncChunk <= Window /\ l = LmSlotAt(k)
  BY <1>1, <1>2, AheadOf DEF ChunkAhead
<1>4. Window \in Nat /\ Window <= SyncLength
  BY <1>1, WindowRange
<1>5. Ahead(s) \in Nat
  BY <1>1, AheadOf
<1>6. k + SyncChunk <= CtmLength /\ k + SyncChunk <= LmLength
  <2> HIDE DEF k
  <2> QED BY <1>3, <1>4, Sizes
<1>7. Covers(d, s) <=> s - c \in Offsets
  BY DEF Covers
<1>8. /\ s - c \in Offsets <=> k <= Ahead(s) /\ Ahead(s) < k + SyncChunk
      /\ s - c \in Offsets => Ahead(s) = k + (s - c)
  BY <1>1, <1>2, <1>6, InChunk
<1>9. ASSUME Covers(d, s)
      PROVE  Ahead(s) < Window /\ LmSlotAt(Ahead(s)) = l + (s - c)
  <2>1. s - c \in Offsets /\ Ahead(s) = k + (s - c) /\ Ahead(s) < k + SyncChunk
    BY <1>7, <1>8, <1>9
  <2>2. Ahead(s) < Window
    <3> HIDE DEF k
    <3> QED BY <1>3, <1>4, <1>5, <2>1, Sizes
  <2>3. LmSlotAt(k + (s - c)) = l + (s - c)
    <3>1. PICK o \in Offsets : o = s - c
      BY <2>1
    <3> HIDE DEF k, l
    <3>2. LmSlotAt(k + o) = l + o
      BY <1>1, <1>2, <1>3, <1>6, InLmChunk
    <3> QED BY <3>1, <3>2
  <2> QED BY <2>1, <2>2, <2>3
<1>10. ASSUME LmSlotAt(Ahead(s)) - l \in Offsets, Ahead(s) < LmLength
       PROVE  Covers(d, s)
  <2>1. PICK o \in Offsets : o = LmSlotAt(Ahead(s)) - l
    BY <1>10
  <2>2. LmSlotAt(Ahead(s)) \in Nat /\ l \in Nat /\ o \in Nat /\ o < SyncChunk
    <3>1. l \in Nat /\ o \in Nat /\ o < SyncChunk
      BY <1>2, Sizes DEF LmSlots, Offsets
    <3>2. pq_lm_head \in Nat
      BY <1>1 DEF TypeOK, LmSlots
    <3>3. LmSlotAt(Ahead(s)) \in Nat
      BY <1>5, <3>2, Sizes DEF LmSlotAt, Wrap
    <3> QED BY <3>1, <3>3
  <2>3. LmSlotAt(k + o) = l + o
    <3> HIDE DEF k, l
    <3> QED BY <1>1, <1>2, <1>3, <1>6, InLmChunk
  <2>4. LmSlotAt(Ahead(s)) = l + o
    <3> HIDE DEF l
    <3> QED BY <2>1, <2>2
  <2>5. Ahead(s) = k + o
    <3>1. k + o \in Nat /\ k + o < LmLength
      <4> HIDE DEF k
      <4> QED BY <1>3, <1>6, <2>2, Sizes
    <3> HIDE DEF k, l
    <3> QED BY <1>1, <1>5, <1>10, <2>3, <2>4, <3>1, LmSlotsDiffer
  <2>6. k <= Ahead(s) /\ Ahead(s) < k + SyncChunk
    <3> HIDE DEF k
    <3> QED BY <1>3, <2>2, <2>5, Sizes
  <2> QED BY <1>7, <1>8, <2>6
<1> QED BY <1>7, <1>8, <1>9, <1>10

LEMMA PendingSent ==
  ASSUME TypeOK, NEW n \in Notifiers, SendPacketToCtm(n)
  PROVE  PendingWrites' = PendingWrites
<1> DEFINE w == [ctx |-> n, reg |-> next_batch_out[n], slot |-> reserved[n].slot,
                 pkt |-> reserved[n].pkt, since |-> reserved[n].since]
<1>1. /\ pc[n] = "ctm_wait" /\ pc' = [pc EXCEPT ![n] = "notify"]
      /\ reserved' = [reserved EXCEPT ![n] = NoReserved]
      /\ writes' = writes \cup {w}
  BY DEF SendPacketToCtm, Running
<1>2. /\ pc \in [Contexts -> {"notify", "ctm_wait", "loop", "read", "wait_reg"}]
      /\ reserved \in [Notifiers -> [slot : CtmSlots, pkt : Nat, since : Nat]]
      /\ Notifiers \subseteq Contexts
  BY DEF TypeOK, Contexts
<1>3. [slot |-> w.slot, pkt |-> w.pkt, since |-> w.since] = reserved[n]
  BY <1>2
<1> HIDE DEF w
<1>4. ASSUME NEW op \in PendingWrites PROVE op \in PendingWrites'
  <2>1. ASSUME NEW m \in Notifiers, pc[m] = "ctm_wait", op = reserved[m]
        PROVE  op \in PendingWrites'
    <3>1. CASE m = n
      <4>1. w \in writes' /\ op = [slot |-> w.slot, pkt |-> w.pkt, since |-> w.since]
        BY <1>1, <1>3, <2>1, <3>1
      <4> QED BY <4>1 DEF PendingWrites
    <3>2. CASE m # n
      <4>1. pc'[m] = "ctm_wait" /\ op = reserved'[m]
        BY <1>1, <1>2, <2>1, <3>2
      <4> QED BY <4>1 DEF PendingWrites
    <3> QED BY <3>1, <3>2
  <2>2. ASSUME NEW v \in writes, op = [slot |-> v.slot, pkt |-> v.pkt, since |-> v.since]
        PROVE  op \in PendingWrites'
    BY <1>1, <2>2 DEF PendingWrites
  <2> QED BY <2>1, <2>2 DEF PendingWrites
<1> QED BY <1>4, PendingSend

LEMMA WrittenStays ==
  ASSUME NEW s, Written(s), PendingWrites \subseteq PendingWrites',
         ctm_pacing_queue' = ctm_pacing_queue, book'[s] = book[s]
  PROVE  Written(s)'
BY DEF Written

(* A step that moves no head and copies nothing.                           *)
LEMMA InPlaceFrame ==
  ASSUME NEW s, InPlace(s), PendingWrites \subseteq PendingWrites',
         UNCHANGED <<pq_ctm_head, pq_lm_head, pq_lm_dequeue_cnt, lm_bitmasks,
                     ctm_pacing_queue, lm_pacing_queue, sync, batch_in, msg_sig>>,
         book'[s] = book[s],
         \A d \in Dequeuers : pc'[d] = "read" <=> pc[d] = "read"
  PROVE  InPlace(s)'
<1>1. /\ Ahead(s)' = Ahead(s) /\ Window' = Window
      /\ LmSlotAt(Ahead(s))' = LmSlotAt(Ahead(s))
  BY DEF Ahead, PQ_CTM_RING_DIFF, Window, LmSlotAt
<1>2. Protected(s)' <=> Protected(s)
  BY <1>1 DEF Protected
<1>3. Written(s) => Written(s)'
  BY WrittenStays
<1>4. ASSUME NEW d \in Dequeuers
      PROVE  /\ Covers(d, s)' <=> Covers(d, s)
             /\ Got(d, s - sync[d].ctm)' <=> Got(d, s - sync[d].ctm)
  BY DEF Covers, Got
<1>5. Copied(s) => Copied(s)'
  BY <1>1, <1>4 DEF Copied
<1> QED BY <1>1, <1>2, <1>3, <1>5 DEF InPlace

(* The slot a packet gets is written to LM or has its write under way; a   *)
(* write to LM protects the slot it changes.                               *)
LEMMA EnqueueInPlace ==
  ASSUME EnoughSlack, VInv, NEW n \in Notifiers, NEW r \in Requests,
         EnqueueLm(n, r[1], r[2]) \/ EnqueueCtm(n, r[1], r[2]),
         NEW s \in bitmasks'
  PROVE  InPlace(s)'
<1> DEFINE d == Departure(r[1], r[2])
           b == Booking(d.slots)
           lm == Wrap(pq_lm_head + b.delta, LmLength)
<1>1. TypeOK /\ CInv
  BY DEF VInv, WInv, RInv, CInv, TInv
<1>2. r[1] \in Flows /\ r[2] \in Nat
  BY ContextAssumption DEF Flows
<1>3. /\ FreeOffsets(DesiredIndex(d.slots)) # {}
      /\ Reserve(r[1], d.dep, b)
  BY DEF EnqueueLm, EnqueueCtm
<1>4. d.slots \in 0 .. ThreshSlots
  BY <1>1, <1>2, DepartureFacts
<1>5. b.index \in CtmSlots /\ b.index \notin bitmasks /\ b.delta = Ahead(b.index)
  BY <1>1, <1>3, <1>4, BookingFacts
<1>6. /\ book' = [book EXCEPT ![b.index] = Len(pkts) + 1]
      /\ bitmasks' = bitmasks \cup {b.index}
      /\ UNCHANGED <<pq_ctm_head, pq_lm_head, pq_lm_dequeue_cnt, sync, batch_in,
                     msg_sig, ctm_pacing_queue, writes>>
  BY <1>3 DEF Reserve, headVars, syncVars, outVars
<1>7. \/ /\ EnqueueLm(n, r[1], r[2]) /\ b.delta < LmLength
         /\ lm_pacing_queue' = [lm_pacing_queue EXCEPT ![lm] = Len(pkts) + 1]
         /\ lm_bitmasks' = lm_bitmasks \cup {lm}
         /\ UNCHANGED <<pc, reserved>>
      \/ /\ EnqueueCtm(n, r[1], r[2]) /\ ~(b.delta < LmLength)
         /\ UNCHANGED <<lm_pacing_queue, lm_bitmasks>>
  BY DEF EnqueueLm, EnqueueCtm, PlacedInLm
<1>8. /\ PendingWrites \subseteq PendingWrites'
      /\ EnqueueCtm(n, r[1], r[2]) =>
           [slot |-> b.index, pkt |-> Len(pkts) + 1, since |-> now] \in PendingWrites'
  <2>1. CASE EnqueueLm(n, r[1], r[2])
    <3>1. PendingWrites' = PendingWrites
      BY <1>6, <2>1, PendingFrame DEF EnqueueLm
    <3>2. ~EnqueueCtm(n, r[1], r[2])
      BY <2>1 DEF EnqueueLm, EnqueueCtm
    <3> QED BY <3>1, <3>2
  <2>2. CASE EnqueueCtm(n, r[1], r[2])
    BY <1>1, <2>2, PendingCtm
  <2> QED BY <2>1, <2>2
<1>9. \A e \in Dequeuers : pc'[e] = pc[e]
  <2>1. /\ \A e \in Dequeuers : e # n
        /\ pc \in [Contexts -> {"notify", "ctm_wait", "loop", "read", "wait_reg"}]
        /\ Dequeuers \subseteq Contexts
    BY <1>1, ContextAssumption DEF TypeOK, Contexts
  <2>2. pc' = pc \/ pc' = [pc EXCEPT ![n] = "ctm_wait"]
    BY DEF EnqueueLm, EnqueueCtm
  <2> QED BY <2>1, <2>2
<1> DEFINE k == Ahead(s)
<1>10. /\ k' = k /\ Window' = Window /\ LmSlotAt(k)' = LmSlotAt(k)
  BY <1>6 DEF Ahead, PQ_CTM_RING_DIFF, Window, LmSlotAt
<1>11. s \in CtmSlots /\ k \in Nat /\ Window \in Nat /\ Window <= SyncLength
  <2>1. s \in CtmSlots
    BY <1>1, <1>5, <1>6 DEF TypeOK
  <2> QED BY <1>1, <2>1, AheadOf, WindowRange
<1>12. CASE s = b.index
  <2>1. k = b.delta
    BY <1>5, <1>12
  <2>2. CASE b.delta < LmLength /\ lm_bitmasks' = lm_bitmasks \cup {lm}
    <3>1. LmSlotAt(k) = lm
      BY <2>1 DEF LmSlotAt
    <3>2. Protected(s)'
      BY <1>10, <2>1, <2>2, <3>1 DEF Protected
    <3> QED BY <3>2 DEF InPlace
  <2>3. CASE EnqueueCtm(n, r[1], r[2]) /\ ~(b.delta < LmLength)
    <3>1. PICK op : op = [slot |-> b.index, pkt |-> Len(pkts) + 1, since |-> now]
      OBVIOUS
    <3>2. op \in PendingWrites'
      BY <1>8, <2>3, <3>1
    <3> HIDE DEF b, k
    <3>3. op.slot = s
      BY <1>12, <3>1
    <3>4. Written(s)'
      BY <3>2, <3>3 DEF Written
    <3>5. ~(k < Window)
      BY <1>11, <2>1, <2>3, Sizes
    <3>6. ~(k' < Window')
      BY <1>10, <3>5
    <3> QED BY <3>4, <3>6 DEF InPlace, k
  <2> QED BY <1>7, <2>2, <2>3
<1>13. CASE s # b.index
  <2>1. s \in bitmasks /\ book'[s] = book[s] /\ InPlace(s)
    <3>1. s \in bitmasks
      BY <1>6, <1>13
    <3>2. book \in [CtmSlots -> Nat]
      BY <1>1 DEF TypeOK
    <3> HIDE DEF b
    <3> QED BY <1>6, <1>11, <1>13, <3>1, <3>2 DEF VInv
  <2>2. Protected(s) => Protected(s)'
    BY <1>7, <1>10 DEF Protected
  <2>3. Written(s) => Written(s)'
    <3>1. PendingWrites \subseteq PendingWrites' /\ UNCHANGED ctm_pacing_queue
      BY <1>6, <1>8
    <3> QED BY <2>1, <3>1, WrittenStays
  <2>4. ASSUME ~Protected(s)', k < Window
        PROVE  lm_pacing_queue'[LmSlotAt(k)] = lm_pacing_queue[LmSlotAt(k)]
    <3>1. k < LmLength
      <4> HIDE DEF k
      <4> QED BY <1>11, <2>4, Sizes
    <3>2. LmSlotAt(k) \notin lm_bitmasks'
      BY <1>10, <2>4, <3>1 DEF Protected
    <3>3. LmSlotAt(k) \in LmSlots
      <4>1. pq_lm_head \in LmSlots
        BY <1>1 DEF TypeOK
      <4> HIDE DEF k
      <4> QED BY <1>11, <3>1, <4>1, Sizes DEF LmSlotAt, Wrap, LmSlots
    <3>4. lm_pacing_queue \in [LmSlots -> Nat]
      BY <1>1 DEF TypeOK
    <3> HIDE DEF lm, b
    <3> QED BY <1>7, <3>2, <3>3, <3>4
  <2>5. ASSUME NEW e \in Dequeuers
        PROVE  /\ Covers(e, s)' <=> Covers(e, s)
               /\ Got(e, s - sync[e].ctm)' <=> Got(e, s - sync[e].ctm)
    BY <1>6, <1>9 DEF Covers, Got
  <2>6. ~Protected(s)' /\ k < Window /\ Copied(s) => Copied(s)'
    BY <1>6, <1>10, <2>1, <2>4, <2>5 DEF Copied
  <2> QED BY <1>10, <2>1, <2>2, <2>3, <2>6 DEF InPlace
<1> QED BY <1>12, <1>13

(* A sync that reserves a chunk covers the slots it adds to the window.    *)
LEMMA ReserveInPlace ==
  ASSUME EnoughSlack, VInv, WInv', NEW d \in Dequeuers, SyncReserve(d),
         NEW s \in bitmasks'
  PROVE  InPlace(s)'
<1>1. TypeOK /\ CInv /\ RInv /\ TypeOK'
  BY DEF VInv, WInv, RInv, CInv, TInv
<1>2. /\ sync' = [sync EXCEPT ![d] =
           [ctm |-> pq_ctm_sync_end, lm |-> pq_lm_sync_end, since |-> now]]
      /\ pq_lm_dequeue_cnt' = pq_lm_dequeue_cnt - SyncChunk
      /\ pc[d] = "loop" /\ pc' = [pc EXCEPT ![d] = "read"]
      /\ UNCHANGED <<pq_ctm_head, pq_lm_head, lm_bitmasks, bitmasks, book,
                     ctm_pacing_queue, lm_pacing_queue, batch_in, msg_sig,
                     writes, reserved>>
  BY DEF SyncReserve, Running, headVars, bitVars, outVars, histVars
<1>3. /\ pc \in [Contexts -> {"notify", "ctm_wait", "loop", "read", "wait_reg"}]
      /\ Dequeuers \subseteq Contexts
      /\ sync \in [Dequeuers -> [ctm : CtmSlots, lm : LmSlots, since : Nat]]
      /\ pq_ctm_head \in 0 .. CtmLength - 1 /\ pq_lm_dequeue_cnt \in Nat
      /\ pq_ctm_sync_end \in CtmSlots
  BY <1>1 DEF TypeOK, Contexts, CtmSlots
<1>4. PendingWrites' = PendingWrites
  BY <1>1, <1>2, PendingDequeuer
<1> DEFINE k == Ahead(s)
           w == Window
<1>5. w \in Nat /\ w <= SyncLength /\ w = SyncLength - pq_lm_dequeue_cnt
      /\ Window' = w + SyncChunk
  <2>1. w \in Nat /\ w <= SyncLength
    BY <1>1, WindowRange
  <2> QED BY <1>2, <1>3, <2>1, Sizes DEF Window
<1>6. k' = k /\ LmSlotAt(k)' = LmSlotAt(k)
  BY <1>2 DEF Ahead, PQ_CTM_RING_DIFF, LmSlotAt
<1>7. s \in bitmasks /\ s \in CtmSlots /\ InPlace(s) /\ k \in Nat
  <2>1. s \in bitmasks /\ s \in CtmSlots
    BY <1>1, <1>2 DEF TypeOK
  <2> QED BY <1>1, <2>1, AheadOf DEF VInv
<1>8. (Protected(s)' <=> Protected(s)) /\ (Written(s) => Written(s)')
  BY <1>2, <1>4, <1>6 DEF Protected, Written
<1>9. ASSUME NEW e \in Dequeuers, e # d
      PROVE  /\ Covers(e, s)' <=> Covers(e, s)
             /\ sync'[e] = sync[e]
             /\ Got(e, s - sync[e].ctm)' <=> Got(e, s - sync[e].ctm)
  BY <1>2, <1>3, <1>9 DEF Covers, Got
<1>10. msg_sig'[d] = {} /\ ~Covers(d, s)
  BY <1>1, <1>2 DEF RInv, Covers
<1>11. \A x : ~Got(d, x)'
  BY <1>10 DEF Got
<1>12. ASSUME k < w, Copied(s)
       PROVE  Copied(s)'
  BY <1>2, <1>6, <1>9, <1>10, <1>11, <1>12 DEF Copied
<1>13. ASSUME ~(k < w), k < w + SyncChunk
       PROVE  Copied(s)'
  <2>1. Covers(d, s)'
    <3>1. sync'[d].ctm = pq_ctm_sync_end /\ pc'[d] = "read"
      BY <1>2, <1>3
    <3>2. pq_ctm_sync_end = Wrap(pq_ctm_head + w, CtmLength)
      <4>1. pq_ctm_head + SyncLength - pq_lm_dequeue_cnt = pq_ctm_head + w
        BY <1>3, Sizes DEF Window
      <4> QED BY <1>1, <4>1 DEF RInv, RingsInStep
    <3>3. Ahead(pq_ctm_sync_end) = w
      <4> HIDE DEF w
      <4> QED BY <1>3, <1>5, <3>2, Sizes DEF Ahead, PQ_CTM_RING_DIFF, Wrap
    <3>4. pq_ctm_sync_end % SyncChunk = 0
      BY <1>1 DEF RInv, CInv, TInv, Aligned
    <3>5. w + SyncChunk <= SyncLength
      <4>1. pq_lm_dequeue_cnt >= SyncChunk
        BY DEF SyncReserve, SyncNeeded
      <4> HIDE DEF w
      <4> QED BY <1>3, <1>5, <4>1, Sizes
    <3>6. s - pq_ctm_sync_end \in Offsets
      <4>1. Ahead(pq_ctm_sync_end) + SyncChunk <= CtmLength
        <5> HIDE DEF w
        <5> QED BY <1>5, <3>3, <3>5, Sizes
      <4>2. Ahead(pq_ctm_sync_end) <= Ahead(s)
            /\ Ahead(s) < Ahead(pq_ctm_sync_end) + SyncChunk
        <5> HIDE DEF w
        <5> QED BY <1>5, <1>7, <1>13, <3>3
      <4> QED BY <1>1, <1>3, <1>7, <3>4, <4>1, <4>2, InChunk
    <3> QED BY <3>1, <3>6 DEF Covers
  <2>2. \A e \in Dequeuers : e # d => ~Covers(e, s)'
    <3>1. ASSUME NEW e \in Dequeuers, Covers(e, s)
          PROVE  FALSE
      <4>1. pc[e] = "read"
        BY <3>1 DEF Covers
      <4>2. Ahead(s) < Window
        BY <1>7, <3>1, <4>1, CoveredFacts DEF VInv
      <4> QED BY <1>13, <4>2
    <3> QED BY <1>9, <3>1
  <2> QED BY <1>11, <2>1, <2>2 DEF Copied
<1> HIDE DEF w
<1>14. ~Protected(s)' /\ k' < Window' => Copied(s)'
  BY <1>5, <1>6, <1>7, <1>8, <1>12, <1>13 DEF InPlace, w
<1> QED BY <1>7, <1>8, <1>14 DEF InPlace

(* A sync whose reads are complete copies what is booked to the slots of   *)
(* LM that no enqueue has written, and touches no other slot.              *)
LEMMA PlaceInPlace ==
  ASSUME EnoughSlack, VInv, NEW d \in Dequeuers, SyncPlace(d), NEW s \in bitmasks'
  PROVE  InPlace(s)'
<1>1. TypeOK /\ CInv /\ WInv
  BY DEF VInv, WInv, RInv, CInv, TInv
<1>2. /\ pc[d] = "read" /\ msg_sig[d] = {0, 1}
      /\ lm_pacing_queue' =
           [i \in LmSlots |->
              IF i - sync[d].lm \in Offsets /\ i \notin lm_bitmasks
              THEN batch_in[d][i - sync[d].lm] ELSE lm_pacing_queue[i]]
      /\ sync' = [sync EXCEPT ![d] = NoSync]
      /\ batch_in' = [batch_in EXCEPT ![d] = NoBatch]
      /\ msg_sig' = [msg_sig EXCEPT ![d] = {}]
      /\ pc' = [pc EXCEPT ![d] = LoopOrSwap(pq_head_time)]
      /\ UNCHANGED <<pq_ctm_head, pq_lm_head, pq_lm_dequeue_cnt, lm_bitmasks,
                     bitmasks, book, ctm_pacing_queue, writes, reserved>>
  BY DEF SyncPlace, Running, KeepLm, headVars, bitVars, outVars, histVars
<1>3. /\ pc \in [Contexts -> {"notify", "ctm_wait", "loop", "read", "wait_reg"}]
      /\ Dequeuers \subseteq Contexts
      /\ sync \in [Dequeuers -> [ctm : CtmSlots, lm : LmSlots, since : Nat]]
      /\ batch_in \in [Dequeuers -> [Offsets -> Nat]]
      /\ msg_sig \in [Dequeuers -> SUBSET {0, 1}]
      /\ pq_lm_head \in LmSlots
  BY <1>1 DEF TypeOK, Contexts
<1>4. PendingWrites' = PendingWrites
  BY <1>1, <1>2, PendingDequeuer
<1> DEFINE k == Ahead(s)
<1>5. /\ k' = k /\ Window' = Window /\ LmSlotAt(k)' = LmSlotAt(k)
  BY <1>2 DEF Ahead, PQ_CTM_RING_DIFF, Window, LmSlotAt
<1>6. /\ s \in bitmasks /\ s \in CtmSlots /\ InPlace(s) /\ k \in Nat
      /\ Window \in Nat /\ Window <= SyncLength
  <2>1. s \in bitmasks /\ s \in CtmSlots
    BY <1>1, <1>2 DEF TypeOK
  <2> QED BY <1>1, <2>1, AheadOf, WindowRange DEF VInv
<1>7. Protected(s)' <=> Protected(s)
  BY <1>2, <1>5 DEF Protected
<1>8. Written(s) => Written(s)'
  BY <1>2, <1>4, WrittenStays
<1>9. pc'[d] # "read"
  BY <1>2, <1>3 DEF LoopOrSwap
<1>10. ASSUME NEW e \in Dequeuers, e # d
       PROVE  /\ Covers(e, s)' <=> Covers(e, s)
              /\ Got(e, s - sync[e].ctm)' <=> Got(e, s - sync[e].ctm)
              /\ sync'[e] = sync[e] /\ batch_in'[e] = batch_in[e]
  BY <1>2, <1>3, <1>10 DEF Covers, Got
<1>11. ~Covers(d, s)'
  BY <1>9 DEF Covers
<1>12. ASSUME ~Protected(s), k < Window, Copied(s)
       PROVE  Copied(s)'
  <2> DEFINE i == LmSlotAt(k)
             o == s - sync[d].ctm
  <2>1. k < LmLength
    <3> HIDE DEF k
    <3> QED BY <1>6, <1>12, Sizes
  <2>2. i \in LmSlots
    <3> HIDE DEF k
    <3> QED BY <1>3, <1>6, <2>1, Sizes DEF LmSlotAt, Wrap, LmSlots
  <2>3. i \notin lm_bitmasks
    BY <1>12, <2>1 DEF Protected
  <2>4. CASE Covers(d, s)
    <3>1. o \in Offsets
      BY <2>4 DEF Covers
    <3>2. i = sync[d].lm + o
      BY <1>1, <1>2, <1>6, <2>4, CoveredFacts
    <3>3. i - sync[d].lm = o
      <4>1. sync[d].lm \in Int /\ o \in Int
        BY <1>3, <3>1, Sizes DEF LmSlots, Offsets
      <4> HIDE DEF i, o
      <4> QED BY <3>2, <4>1
    <3>4. lm_pacing_queue'[i] = batch_in[d][o]
      <4> HIDE DEF i, o
      <4> QED BY <1>2, <2>2, <2>3, <3>1, <3>3
    <3>5. Got(d, o)
      <4>1. PICK x \in Offsets : x = o
        BY <3>1
      <4>2. x \in ReadOffsets(0) \/ x \in ReadOffsets(1)
        BY DEF ReadOffsets
      <4> QED BY <1>2, <4>1, <4>2 DEF Got
    <3>6. batch_in[d][o] = book[s]
      BY <1>12, <2>4, <3>5 DEF Copied
    <3>7. lm_pacing_queue'[i] = book[s]
      BY <3>4, <3>6
    <3>8. \A e \in Dequeuers :
            Covers(e, s) /\ Got(e, s - sync[e].ctm)
              => batch_in[e][s - sync[e].ctm] = book[s]
      BY <1>12 DEF Copied
    <3> QED BY <1>2, <1>5, <1>10, <1>11, <3>7, <3>8 DEF Copied
  <2>5. CASE ~Covers(d, s)
    <3>1. ~(i - sync[d].lm \in Offsets)
      BY <1>1, <1>2, <1>6, <2>1, <2>5, CoveredFacts
    <3>2. lm_pacing_queue'[i] = lm_pacing_queue[i]
      <4> HIDE DEF i
      <4> QED BY <1>2, <2>2, <3>1
    <3>3. \/ \E e \in Dequeuers : e # d /\ Covers(e, s)
          \/ lm_pacing_queue[i] = book[s]
      BY <1>12, <2>5 DEF Copied
    <3>4. \A e \in Dequeuers :
            Covers(e, s) /\ Got(e, s - sync[e].ctm)
              => batch_in[e][s - sync[e].ctm] = book[s]
      BY <1>12 DEF Copied
    <3> QED BY <1>2, <1>5, <1>10, <1>11, <3>2, <3>3, <3>4 DEF Copied
  <2> QED BY <2>4, <2>5
<1> QED BY <1>5, <1>6, <1>7, <1>8, <1>12 DEF InPlace

(* When the head moves, every other slot comes one nearer and keeps its    *)
(* slot of LM.                                                             *)
LEMMA AdvanceInPlace ==
  ASSUME EnoughSlack, VInv, WInv', NEW d \in Dequeuers,
         DequeuePacket(d) \/ PassEmptySlot(d), NEW s \in bitmasks'
  PROVE  InPlace(s)'
<1>1. TypeOK /\ CInv /\ WInv
  BY DEF VInv, WInv, RInv, CInv, TInv
<1>2. /\ pq_ctm_head' = Wrap(pq_ctm_head + 1, CtmLength)
      /\ pq_lm_head' = Wrap(pq_lm_head + 1, LmLength)
      /\ pq_lm_dequeue_cnt' = pq_lm_dequeue_cnt + 1
      /\ pc[d] = "wait_reg"
      /\ pc' = [pc EXCEPT ![d] = LoopOrSwap(pq_head_time + SlotTicks)]
      /\ UNCHANGED <<sync, batch_in, msg_sig, ctm_pacing_queue, lm_pacing_queue,
                     writes, reserved>>
  BY DEF DequeuePacket, PassEmptySlot, AdvanceHead, RegFree, Running, syncVars
<1>3. \/ /\ bitmasks' = bitmasks \ {pq_ctm_head}
         /\ lm_bitmasks' = lm_bitmasks \ {pq_lm_head}
         /\ book' = [book EXCEPT ![pq_ctm_head] = 0]
      \/ /\ pq_ctm_head \notin bitmasks
         /\ UNCHANGED <<bitmasks, lm_bitmasks, book>>
  BY DEF DequeuePacket, PassEmptySlot, bitVars
<1>4. /\ pc \in [Contexts -> {"notify", "ctm_wait", "loop", "read", "wait_reg"}]
      /\ Dequeuers \subseteq Contexts
      /\ book \in [CtmSlots -> Nat] /\ pq_ctm_head \in CtmSlots
      /\ pq_lm_dequeue_cnt \in Nat
  BY <1>1 DEF TypeOK, Contexts
<1>5. PendingWrites' = PendingWrites
  BY <1>1, <1>2, PendingDequeuer
<1> DEFINE k == Ahead(s)
<1>6. /\ s \in bitmasks /\ s \in CtmSlots /\ s # pq_ctm_head
      /\ book'[s] = book[s] /\ InPlace(s)
  <2>1. s \in bitmasks /\ s \in CtmSlots /\ s # pq_ctm_head
    BY <1>1, <1>3 DEF TypeOK
  <2> QED BY <1>3, <1>4, <2>1 DEF VInv
<1>7. k \in Nat /\ k > 0 /\ k' = k - 1
  BY <1>2, <1>4, <1>6, AheadMoves DEF Ahead
<1>8. Window \in Nat /\ Window <= SyncLength /\ Window' = Window - 1
  <2>1. Window \in Nat /\ Window <= SyncLength
    BY <1>1, WindowRange
  <2> QED BY <1>2, <1>4, <2>1, Sizes DEF Window
<1>9. ASSUME k < LmLength
      PROVE  LmSlotAt(k)' = LmSlotAt(k) /\ LmSlotAt(k) # pq_lm_head
  <2>1. LmSlotAt(k)' = Wrap(pq_lm_head' + (k - 1), LmLength)
    BY <1>7 DEF LmSlotAt
  <2> HIDE DEF k
  <2> QED BY <1>1, <1>2, <1>7, <1>9, <2>1, LmSlotAtMoves
<1>10. Protected(s) => Protected(s)'
  <2> SUFFICES ASSUME Protected(s) PROVE Protected(s)'
    OBVIOUS
  <2>1. k < LmLength /\ LmSlotAt(k) \in lm_bitmasks
    BY DEF Protected
  <2>2. LmSlotAt(k)' \in lm_bitmasks'
    BY <1>3, <1>9, <2>1
  <2>3. k' < LmLength
    <3> HIDE DEF k
    <3> QED BY <1>7, <2>1, Sizes
  <2> QED BY <2>2, <2>3 DEF Protected
<1>11. Written(s) => Written(s)'
  BY <1>2, <1>5, <1>6, WrittenStays
<1>12. ASSUME NEW e \in Dequeuers
       PROVE  /\ Covers(e, s)' <=> Covers(e, s)
              /\ Got(e, s - sync[e].ctm)' <=> Got(e, s - sync[e].ctm)
  <2>1. pc'[e] = "read" <=> pc[e] = "read"
    BY <1>2, <1>4 DEF LoopOrSwap
  <2> QED BY <1>2, <2>1 DEF Covers, Got
<1>13. k' < Window' => k < Window /\ k < LmLength
  <2> HIDE DEF k
  <2> QED BY <1>7, <1>8, Sizes
<1>14. k' < Window' /\ Copied(s) => Copied(s)'
  BY <1>2, <1>6, <1>9, <1>12, <1>13 DEF Copied
<1> QED BY <1>6, <1>10, <1>11, <1>13, <1>14 DEF InPlace

(* A write that is done leaves in CTM the packet that is booked there.     *)
LEMMA WriteInPlace ==
  ASSUME EnoughSlack, VInv, NEW w \in writes, CtmWriteDone(w), NEW s \in bitmasks'
  PROVE  InPlace(s)'
<1>1. TypeOK /\ WInv
  BY DEF VInv, WInv, RInv, CInv, TInv
<1>2. /\ ctm_pacing_queue' = [ctm_pacing_queue EXCEPT ![w.slot] = w.pkt]
      /\ writes' = writes \ {w}
      /\ UNCHANGED <<pq_ctm_head, pq_lm_head, pq_lm_dequeue_cnt, lm_bitmasks,
                     bitmasks, book, lm_pacing_queue, sync, batch_in, msg_sig,
                     pc, reserved>>
  BY DEF CtmWriteDone, headVars, syncVars, bitVars, histVars
<1>3. s \in bitmasks /\ s \in CtmSlots /\ InPlace(s)
      /\ ctm_pacing_queue \in [CtmSlots -> Nat]
  BY <1>1, <1>2 DEF TypeOK, VInv
<1> DEFINE v == [slot |-> w.slot, pkt |-> w.pkt, since |-> w.since]
<1>4. v \in PendingWrites
  BY DEF PendingWrites
<1>5. book[w.slot] = w.pkt
  <2>1. InTime(v)
    BY <1>1, <1>4 DEF WInv
  <2> QED BY <2>1 DEF InTime
<1>6. \A op \in PendingWrites : op = v \/ op \in PendingWrites'
  BY <1>2 DEF PendingWrites
<1>7. Written(s) => Written(s)'
  <2> SUFFICES ASSUME Written(s) PROVE Written(s)'
    OBVIOUS
  <2>1. CASE s = w.slot
    <3>1. ctm_pacing_queue'[s] = book'[s]
      BY <1>2, <1>3, <1>5, <2>1
    <3> QED BY <3>1 DEF Written
  <2>2. CASE s # w.slot
    <3>1. ctm_pacing_queue'[s] = ctm_pacing_queue[s] /\ book'[s] = book[s]
      BY <1>2, <1>3, <2>2
    <3>2. \A op \in PendingWrites : op.slot = s => op \in PendingWrites'
      BY <1>6, <2>2
    <3> QED BY <3>1, <3>2 DEF Written
  <2> QED BY <2>1, <2>2
<1>8. /\ Ahead(s)' = Ahead(s) /\ Window' = Window
      /\ LmSlotAt(Ahead(s))' = LmSlotAt(Ahead(s))
  BY <1>2 DEF Ahead, PQ_CTM_RING_DIFF, Window, LmSlotAt
<1>9. Protected(s)' <=> Protected(s)
  BY <1>2, <1>8 DEF Protected
<1>10. Copied(s) => Copied(s)'
  BY <1>2, <1>8 DEF Copied, Covers, Got
<1> QED BY <1>3, <1>7, <1>8, <1>9, <1>10 DEF InPlace

(* A read returns what is booked: no write to its slots is under way.      *)
LEMMA ReadInPlace ==
  ASSUME EnoughSlack, VInv, NEW d \in Dequeuers, NEW h \in {0, 1},
         CtmReadDone(d, h), NEW s \in bitmasks'
  PROVE  InPlace(s)'
<1>1. TypeOK /\ WInv /\ CInv
  BY DEF VInv, WInv, RInv, CInv, TInv
<1>2. /\ pc[d] = "read"
      /\ batch_in' = [batch_in EXCEPT ![d] =
           [o \in Offsets |->
              IF o \in ReadOffsets(h)
              THEN ctm_pacing_queue[sync[d].ctm + o] ELSE batch_in[d][o]]]
      /\ msg_sig' = [msg_sig EXCEPT ![d] = @ \cup {h}]
      /\ UNCHANGED <<pq_ctm_head, pq_lm_head, pq_lm_dequeue_cnt, lm_bitmasks,
                     bitmasks, book, lm_pacing_queue, ctm_pacing_queue, sync,
                     pc, writes, reserved>>
  BY DEF CtmReadDone, headVars, bitVars, outVars, histVars
<1>3. s \in bitmasks /\ s \in CtmSlots /\ InPlace(s)
      /\ batch_in \in [Dequeuers -> [Offsets -> Nat]]
      /\ msg_sig \in [Dequeuers -> SUBSET {0, 1}]
      /\ sync \in [Dequeuers -> [ctm : CtmSlots, lm : LmSlots, since : Nat]]
  BY <1>1, <1>2 DEF TypeOK, VInv
<1>4. /\ Ahead(s)' = Ahead(s) /\ Window' = Window
      /\ LmSlotAt(Ahead(s))' = LmSlotAt(Ahead(s))
  BY <1>2 DEF Ahead, PQ_CTM_RING_DIFF, Window, LmSlotAt
<1>5. Protected(s)' <=> Protected(s)
  BY <1>2, <1>4 DEF Protected
<1>6. Written(s) => Written(s)'
  BY <1>2, PendingFrame, WrittenStays
<1>7. \A e \in Dequeuers : Covers(e, s)' <=> Covers(e, s)
  BY <1>2 DEF Covers
<1>8. ASSUME Written(s), Copied(s), NEW e \in Dequeuers, Covers(e, s),
             Got(e, s - sync[e].ctm)'
      PROVE  batch_in'[e][s - sync[e].ctm] = book[s]
  <2>1. CASE e # d
    <3>1. Got(e, s - sync[e].ctm) /\ batch_in'[e] = batch_in[e]
      BY <1>2, <1>3, <1>8, <2>1 DEF Got
    <3> QED BY <1>8, <3>1 DEF Copied
  <2>2. CASE e = d
    <3>1. PICK o \in Offsets : o = s - sync[d].ctm
      BY <1>8, <2>2 DEF Covers
    <3>2. sync[d].ctm + o = s
      <4>1. sync[d].ctm \in Int /\ s \in Int /\ o \in Int
        BY <1>3, <3>1, Sizes DEF CtmSlots, Offsets
      <4> QED BY <3>1, <4>1
    <3>3. CASE o \in ReadOffsets(h)
      <4>1. batch_in'[d][o] = ctm_pacing_queue[s]
        BY <1>2, <1>3, <3>2, <3>3
      <4>2. ctm_pacing_queue[s] = book[s]
        <5>1. Ahead(s) < Window /\ Window <= SyncLength /\ Window \in Nat
          BY <1>1, <1>2, <1>3, <1>8, <2>2, CoveredFacts, WindowRange
        <5>2. Ahead(s) \in Nat
          BY <1>1, <1>3, AheadOf
        <5>3. ASSUME NEW op \in PendingWrites, op.slot = s PROVE FALSE
          <6>1. BInv /\ InTime(op)
            BY <1>1 DEF WInv, OInv
          <6>2. Ahead(s) > SyncLength
            BY <1>1, <5>3, <6>1, PendingTypes, BehindWindow
          <6> QED BY <5>1, <5>2, <6>2, Sizes
        <5> QED BY <1>8, <5>3 DEF Written
      <4> QED BY <2>2, <3>1, <4>1, <4>2
    <3>4. CASE o \notin ReadOffsets(h)
      <4>1. batch_in'[d][o] = batch_in[d][o]
        BY <1>2, <1>3, <3>4
      <4>2. Got(d, o)
        BY <1>2, <1>3, <1>8, <2>2, <3>1, <3>4 DEF Got
      <4> QED BY <1>8, <2>2, <3>1, <4>1, <4>2 DEF Copied
    <3> QED BY <3>3, <3>4
  <2> QED BY <2>1, <2>2
<1>9. Written(s) /\ Copied(s) => Copied(s)'
  BY <1>2, <1>4, <1>7, <1>8 DEF Copied
<1> QED BY <1>3, <1>4, <1>5, <1>6, <1>9 DEF InPlace

LEMMA InitVInv == Init => VInv
BY InitWInv DEF Init, VInv

LEMMA NextVInv ==
  ASSUME EnoughSlack, VInv, [Next]_vars
  PROVE  VInv'
<1>1. WInv' /\ TypeOK
  BY NextWInv DEF VInv, WInv, RInv, CInv, TInv
<1>2. SUFFICES ASSUME NEW s \in bitmasks' PROVE InPlace(s)'
  BY <1>1 DEF VInv
<1>3. /\ pc \in [Contexts -> {"notify", "ctm_wait", "loop", "read", "wait_reg"}]
      /\ Dequeuers \subseteq Contexts /\ Notifiers \subseteq Contexts
      /\ \A n \in Notifiers, d \in Dequeuers : n # d
  BY <1>1, ContextAssumption DEF TypeOK, Contexts
<1>4. ASSUME UNCHANGED <<pq_ctm_head, pq_lm_head, pq_lm_dequeue_cnt, lm_bitmasks,
                         bitmasks, ctm_pacing_queue, lm_pacing_queue, sync,
                         batch_in, msg_sig, book>>,
             PendingWrites' = PendingWrites,
             \A d \in Dequeuers : pc'[d] = "read" <=> pc[d] = "read"
      PROVE  InPlace(s)'
  BY <1>4, InPlaceFrame DEF VInv
<1>5. ASSUME NEW n \in Notifiers, NEW r \in Requests,
             EnqueueLm(n, r[1], r[2]) \/ EnqueueCtm(n, r[1], r[2])
      PROVE  InPlace(s)'
  BY <1>5, EnqueueInPlace
<1>6. ASSUME NEW n \in Notifiers, NEW r \in Requests, EnqueueHalt(n, r[1], r[2])
      PROVE  InPlace(s)'
  <2>1. UNCHANGED <<pq_ctm_head, pq_lm_head, pq_lm_dequeue_cnt, lm_bitmasks,
                    bitmasks, ctm_pacing_queue, lm_pacing_queue, sync,
                    batch_in, msg_sig, book, pc, reserved, writes>>
    BY <1>6 DEF EnqueueHalt, headVars, syncVars, bitVars, outVars, histVars
  <2> QED BY <1>4, <2>1, PendingFrame
<1>7. ASSUME NEW n \in Notifiers, SendPacketToCtm(n)
      PROVE  InPlace(s)'
  <2>1. /\ UNCHANGED <<pq_ctm_head, pq_lm_head, pq_lm_dequeue_cnt, lm_bitmasks,
                       bitmasks, ctm_pacing_queue, lm_pacing_queue, sync,
                       batch_in, msg_sig, book>>
        /\ pc' = [pc EXCEPT ![n] = "notify"]
    BY <1>7 DEF SendPacketToCtm, headVars, syncVars, bitVars, histVars
  <2> QED BY <1>1, <1>3, <1>4, <1>7, <2>1, PendingSent
<1>8. ASSUME NEW d \in Dequeuers, StartDequeue(d) \/ LeaveDequeue(d)
      PROVE  InPlace(s)'
  <2>1. /\ UNCHANGED <<pq_ctm_head, pq_lm_head, pq_lm_dequeue_cnt, lm_bitmasks,
                       bitmasks, ctm_pacing_queue, lm_pacing_queue, sync,
                       batch_in, msg_sig, book, reserved, writes>>
        /\ pc[d] # "read"
        /\ \/ pc' = [pc EXCEPT ![d] = LoopOrSwap(pq_head_time)]
           \/ pc' = [pc EXCEPT ![d] = "loop"]
    BY <1>8
    DEF StartDequeue, LeaveDequeue, RegFree, Running, headVars, syncVars, bitVars,
        outVars, histVars
  <2>2. \A e \in Dequeuers : pc'[e] = "read" <=> pc[e] = "read"
    BY <1>3, <2>1 DEF LoopOrSwap
  <2>3. PendingWrites' = PendingWrites
    BY <1>1, <2>1, PendingDequeuer
  <2> QED BY <1>4, <2>1, <2>2, <2>3
<1>9. ASSUME NEW d \in Dequeuers,
             \/ SyncReserve(d) \/ SyncPlace(d)
             \/ DequeuePacket(d) \/ PassEmptySlot(d)
      PROVE  InPlace(s)'
  BY <1>1, <1>9, ReserveInPlace, PlaceInPlace, AdvanceInPlace
<1>10. CASE Memory
  <2>1. ASSUME NEW a \in adds, WorkqAddDone(a)
        PROVE  InPlace(s)'
    <3>1. UNCHANGED <<pq_ctm_head, pq_lm_head, pq_lm_dequeue_cnt, lm_bitmasks,
                      bitmasks, ctm_pacing_queue, lm_pacing_queue, sync,
                      batch_in, msg_sig, book, pc, reserved, writes>>
      BY <2>1 DEF WorkqAddDone, headVars, syncVars, bitVars, histVars
    <3> QED BY <1>4, <3>1, PendingFrame
  <2> QED BY <1>10, <2>1, WriteInPlace, ReadInPlace DEF Memory
<1>11. CASE Tick \/ UNCHANGED vars
  <2>1. UNCHANGED <<pq_ctm_head, pq_lm_head, pq_lm_dequeue_cnt, lm_bitmasks,
                    bitmasks, ctm_pacing_queue, lm_pacing_queue, sync,
                    batch_in, msg_sig, book, pc, reserved, writes>>
    BY <1>11 DEF Tick, vars, headVars, syncVars, bitVars, outVars, histVars
  <2> QED BY <1>4, <2>1, PendingFrame
<1> QED
  BY <1>5, <1>6, <1>7, <1>8, <1>9, <1>10, <1>11
  DEF Next, Enqueue, sync_dequeue_loop

(* The LM slot at the head holds the packet booked for the head.           *)
LEMMA HeadInPlace ==
  ASSUME EnoughSlack, VInv, Due(pq_head_time), pq_ctm_head \in bitmasks
  PROVE  lm_pacing_queue[pq_lm_head] = book[pq_ctm_head]
<1>1. TypeOK /\ CInv /\ WInv
  BY DEF VInv, WInv, RInv, CInv, TInv
<1>2. pq_ctm_head \in CtmSlots /\ pq_lm_head \in LmSlots
  BY <1>1 DEF TypeOK
<1>3. Ahead(pq_ctm_head) = 0
  BY <1>2, AheadMoves DEF Ahead
<1>4. LmSlotAt(0) = pq_lm_head /\ SlotAt(0) = pq_ctm_head
  BY <1>2, Sizes DEF LmSlotAt, SlotAt, Wrap, LmSlots, CtmSlots
<1>5. CASE Protected(pq_ctm_head)
  <2>1. pq_lm_head \in lm_bitmasks
    BY <1>3, <1>4, <1>5 DEF Protected
  <2>2. LmAhead(pq_lm_head) = 0
    BY <1>1, <1>2, LmAheadRange
  <2> QED BY <1>1, <1>4, <2>1, <2>2 DEF WInv, LmInv
<1>6. CASE ~Protected(pq_ctm_head)
  <2>1. 0 < Window
    BY <1>1, WindowRange, Sizes
  <2>2. Copied(pq_ctm_head)
    BY <1>3, <1>6, <2>1 DEF VInv, InPlace
  <2>3. ASSUME NEW d \in Dequeuers, Covers(d, pq_ctm_head) PROVE FALSE
    <3>1. pc[d] = "read"
      BY <2>3 DEF Covers
    <3>2. Ahead(sync[d].ctm) <= 0
      BY <1>1, <1>2, <1>3, <2>3, <3>1, CoveredFacts
    <3>3. Ahead(sync[d].ctm) >= 2
      BY <1>1, <3>1, ChunkNotNext DEF WInv
    <3>4. Ahead(sync[d].ctm) \in Nat
      <4>1. sync[d].ctm \in CtmSlots
        BY <1>1 DEF TypeOK
      <4>2. Ahead(sync[d].ctm) \in 0 .. CtmLength - 1
        BY <1>1, <4>1, AheadOf
      <4> QED BY <4>2, Sizes
    <3> QED BY <3>2, <3>3, <3>4
  <2> QED BY <1>3, <1>4, <2>2, <2>3 DEF Copied
<1> QED BY <1>5, <1>6

(* What leaves for a slot is the packet that was booked there, never what  *)
(* the slot held a turn ago nor a stale copy: a write to CTM is done       *)
(* before a sync reads its slot, and a sync is done before the head comes. *)
THEOREM WhatIsBookedIsSent ==
  ASSUME EnoughSlack
  PROVE  Spec => SentAsBooked
<1>1. VInv /\ [Next]_vars
        => [Len(wire') > Len(wire) => wire'[Len(wire')] = book[pq_ctm_head]]_vars
  <2> SUFFICES ASSUME VInv, Next, Len(wire') > Len(wire)
               PROVE  wire'[Len(wire')] = book[pq_ctm_head]
    OBVIOUS
  <2>1. TypeOK
    BY DEF VInv, WInv, RInv, CInv, TInv
  <2>2. wire \in Seq(Nat)
    BY <2>1 DEF TypeOK
  <2>3. wire' # wire
    BY <2>2
  <2>4. \E d \in Dequeuers : DequeuePacket(d)
    BY ZenonT(60), <2>3
    DEF Next, Enqueue, EnqueueLm, EnqueueCtm, EnqueueHalt, Reserve,
        SendPacketToCtm, sync_dequeue_loop, SyncReserve, SyncPlace, StartDequeue,
        LeaveDequeue, PassEmptySlot, Memory, CtmWriteDone, WorkqAddDone,
        CtmReadDone, Tick, histVars
  <2>5. /\ wire' = Append(wire, lm_pacing_queue[pq_lm_head])
        /\ Due(pq_head_time) /\ pq_ctm_head \in bitmasks
    BY <2>4 DEF DequeuePacket
  <2>6. lm_pacing_queue[pq_lm_head] = book[pq_ctm_head]
    BY <2>5, HeadInPlace
  <2> QED BY <2>2, <2>5, <2>6
<1>2. VInv /\ [Next]_vars => VInv'
  BY NextVInv
<1> QED BY InitVInv, <1>1, <1>2, PTL DEF Spec, SentAsBooked

----------------------------------------------------------------------------
(* The refinement of Pacer.                                                *)

(* The packets that left and the packets that have a slot.                 *)
Left   == {wire[i] : i \in 1 .. Len(wire)}
Booked == {book[s] : s \in bitmasks}

(* What the refinement needs of a state besides VInv: the head's time is a *)
(* whole number of slots, a flow with no inter-departure time is never     *)
(* ahead of the clock, and every accepted packet has either a slot or left.*)
XInv ==
  /\ VInv
  /\ pq_head_time % SlotTicks = 0
  /\ \A f \in UnpacedFlows : flows_prev_dep_time[f] <= now
  /\ Left \cap Booked = {} /\ Left \cup Booked = 1 .. Len(pkts)

LEMMA SlotMultiple ==
  ASSUME NEW a \in Nat, NEW k \in Nat, NEW c \in Nat, c > 0, a % c = 0
  PROVE  (a + k * c) % c = 0
<1> DEFINE m == a \div c
<1>1. a = m * c /\ m \in Int
  OBVIOUS
<1> HIDE DEF m
<1>2. a + k * c = (m + k) * c
  BY <1>1
<1>3. ((m + k) * c) % c = 0
  BY <1>1
<1> QED BY <1>2, <1>3

(* A departure time is not in the past, even when it is pulled back; the   *)
(* packets of a flow without an inter-departure time want to leave now.    *)
LEMMA NotInThePast ==
  ASSUME EnoughSlack, CInv, NEW flow \in Flows, NEW idt \in Nat
  PROVE  LET d == Departure(flow, idt)
         IN  /\ d.dep >= now
             /\ idt = 0 /\ flows_prev_dep_time[flow] <= now => d.dep = now
<1> DEFINE d == Departure(flow, idt)
           dep == DepTime(flow, idt)
           slots == DeltaSlots(dep)
<1>1. TypeOK /\ now \in Nat /\ pq_head_time \in Nat
      /\ flows_prev_dep_time[flow] \in Nat /\ pq_head_time <= now
  BY DEF CInv, TInv, TypeOK
<1>2. dep \in Nat /\ dep >= now
      /\ (idt = 0 /\ flows_prev_dep_time[flow] <= now => dep = now)
  BY <1>1 DEF DepTime
<1>3. now < pq_head_time + (MaxBusy + 1) * SlotTicks
  BY ClockBehind
<1>4. MaxBusy + 1 <= ThreshSlots
  BY SlackFacts, Sizes
<1> HIDE DEF dep
<1>5. CASE slots > ThreshSlots
  <2>1. d.slots = ThreshSlots
    BY <1>5 DEF Departure, dep
  <2>2. pq_head_time + ThreshSlots * SlotTicks <= d.dep /\ d.dep \in Nat
    BY <1>1, <2>1, DepartureFacts, Sizes
  <2>3. (MaxBusy + 1) * SlotTicks <= ThreshSlots * SlotTicks
        /\ (MaxBusy + 1) * SlotTicks \in Nat /\ ThreshSlots * SlotTicks \in Nat
    BY <1>4, MulMono, Sizes
  <2> HIDE DEF d
  <2>4. d.dep > now
    BY <1>1, <1>3, <2>2, <2>3
  <2>5. dep # now
    <3>1. slots \in Nat /\ dep > pq_head_time /\ slots = (dep - pq_head_time) \div SlotTicks
      BY <1>1, <1>2, <1>5, Sizes DEF DeltaSlots
    <3>2. slots * SlotTicks <= dep - pq_head_time
      BY <1>1, <1>2, <3>1, DivBounds, Sizes
    <3> HIDE DEF slots
    <3>3. ThreshSlots * SlotTicks <= slots * SlotTicks /\ slots * SlotTicks \in Nat
      BY <1>5, <3>1, MulMono, Sizes
    <3>4. pq_head_time + ThreshSlots * SlotTicks <= dep
      <4> DEFINE p == ThreshSlots * SlotTicks
                 q == slots * SlotTicks
      <4>1. p \in Nat /\ q \in Nat /\ p <= q /\ q <= dep - pq_head_time
        BY <2>3, <3>2, <3>3
      <4> HIDE DEF p, q
      <4>2. pq_head_time + p <= dep
        BY <1>1, <1>2, <4>1
      <4> QED BY <4>2 DEF p
    <3>5. now < dep
      <4> DEFINE p == ThreshSlots * SlotTicks
                 q == (MaxBusy + 1) * SlotTicks
      <4>1. /\ p \in Nat /\ q \in Nat /\ q <= p
            /\ pq_head_time + p <= dep /\ now < pq_head_time + q
        BY <1>3, <2>3, <3>4
      <4> HIDE DEF p, q
      <4> QED BY <1>1, <1>2, <4>1
    <3> QED BY <1>1, <1>2, <3>5
  <2>6. /\ d.dep >= now
        /\ idt = 0 /\ flows_prev_dep_time[flow] <= now => d.dep = now
    BY <1>1, <1>2, <2>2, <2>4, <2>5
  <2> QED BY <2>6 DEF d
<1>6. CASE ~(slots > ThreshSlots)
  <2>1. d.dep = dep
    BY <1>6 DEF Departure, dep
  <2> QED BY <1>2, <2>1
<1> QED BY <1>5, <1>6

LEMMA UnpacedIdt ==
  ASSUME NEW r \in Requests, r[1] \in UnpacedFlows
  PROVE  r[2] = 0
BY DEF UnpacedFlows

LEMMA InitXInv == Init => XInv
<1> SUFFICES ASSUME Init PROVE XInv
  OBVIOUS
<1>1. Left = {} /\ Booked = {} /\ 1 .. Len(pkts) = {}
  BY DEF Init, Left, Booked
<1>2. pq_head_time % SlotTicks = 0
  BY Sizes DEF Init
<1>3. \A f \in UnpacedFlows : flows_prev_dep_time[f] <= now
  BY DEF Init, UnpacedFlows
<1> QED BY <1>1, <1>2, <1>3, InitVInv DEF XInv

(* A step that accepts no packet and gives none away.                      *)
LEMMA XFrame ==
  ASSUME XInv, VInv', UNCHANGED <<pq_head_time, flows_prev_dep_time, pkts, book,
                                  bitmasks, wire>>,
         now' = now \/ now' = now + 1
  PROVE  XInv'
<1>1. Left' = Left /\ Booked' = Booked
  BY DEF Left, Booked
<1>2. now \in Nat /\ flows_prev_dep_time \in [Flows -> Nat]
  BY DEF XInv, VInv, WInv, RInv, CInv, TInv, TypeOK
<1>3. \A f \in UnpacedFlows : flows_prev_dep_time'[f] <= now'
  BY <1>2 DEF XInv, UnpacedFlows
<1> QED BY <1>1, <1>3 DEF XInv

(* The packets that have a slot, from the slots.                           *)
LEMMA AcceptPartition ==
  ASSUME XInv, NEW i \in CtmSlots, i \notin bitmasks,
         bitmasks' = bitmasks \cup {i},
         book' = [book EXCEPT ![i] = Len(pkts) + 1],
         NEW x, pkts' = Append(pkts, x), wire' = wire
  PROVE  Left' \cap Booked' = {} /\ Left' \cup Booked' = 1 .. Len(pkts')
<1>1. /\ book \in [CtmSlots -> Nat] /\ bitmasks \subseteq CtmSlots
      /\ pkts \in Seq([flow : Flows, dep : Nat, due : Nat])
  BY DEF XInv, VInv, WInv, RInv, CInv, TInv, TypeOK
<1>2. Len(pkts) \in Nat /\ Len(pkts') = Len(pkts) + 1
  BY <1>1
<1>3. Left' = Left
  BY DEF Left
<1>4. Booked' = Booked \cup {Len(pkts) + 1}
  BY <1>1 DEF Booked
<1>5. 1 .. Len(pkts') = 1 .. Len(pkts) \cup {Len(pkts) + 1}
      /\ Len(pkts) + 1 \notin 1 .. Len(pkts)
  BY <1>2
<1> QED BY <1>3, <1>4, <1>5 DEF XInv

LEMMA DepartPartition ==
  ASSUME XInv, NEW i \in bitmasks, bitmasks' = bitmasks \ {i},
         book' = [book EXCEPT ![i] = 0], pkts' = pkts,
         wire' = Append(wire, book[i])
  PROVE  Left' \cap Booked' = {} /\ Left' \cup Booked' = 1 .. Len(pkts')
<1>1. /\ book \in [CtmSlots -> Nat] /\ bitmasks \subseteq CtmSlots
      /\ wire \in Seq(Nat)
  BY DEF XInv, VInv, WInv, RInv, CInv, TInv, TypeOK
<1>2. \A s, t \in bitmasks : book[s] = book[t] => s = t
  BY DEF XInv, VInv, WInv, OInv, BInv, BookingsExact
<1>3. Booked' = Booked \ {book[i]} /\ book[i] \in Booked
  BY <1>1, <1>2 DEF Booked
<1>4. Left' = Left \cup {book[i]}
  <2>1. /\ Len(wire) \in Nat /\ Len(wire') = Len(wire) + 1
        /\ \A j \in 1 .. Len(wire) : wire'[j] = wire[j]
        /\ wire'[Len(wire) + 1] = book[i]
    BY <1>1
  <2>2. 1 .. Len(wire') = 1 .. Len(wire) \cup {Len(wire) + 1}
    BY <2>1
  <2> QED BY <2>1, <2>2 DEF Left
<1> QED BY <1>3, <1>4 DEF XInv

LEMMA NextXInv ==
  ASSUME EnoughSlack, XInv, [Next]_vars
  PROVE  XInv'
<1>1. VInv'
  BY NextVInv DEF XInv
<1>2. TypeOK /\ CInv
  BY DEF XInv, VInv, WInv, RInv, CInv, TInv
<1>3. /\ now \in Nat /\ pq_head_time \in Nat /\ flows_prev_dep_time \in [Flows -> Nat]
  BY <1>2 DEF TypeOK
<1>4. ASSUME NEW r \in Requests,
             flows_prev_dep_time' =
               [flows_prev_dep_time EXCEPT ![r[1]] = Departure(r[1], r[2]).dep],
             now' = now
      PROVE  \A f \in UnpacedFlows : flows_prev_dep_time'[f] <= now'
  <2>1. r[1] \in Flows /\ r[2] \in Nat
    BY ContextAssumption DEF Flows
  <2>2. SUFFICES ASSUME NEW f \in UnpacedFlows PROVE flows_prev_dep_time'[f] <= now'
    OBVIOUS
  <2>3. flows_prev_dep_time[f] <= now /\ f \in Flows
    BY DEF XInv, UnpacedFlows
  <2>4. CASE f = r[1]
    <3>1. r[2] = 0
      BY <2>4, UnpacedIdt
    <3>2. Departure(r[1], r[2]).dep = now
      BY <1>2, <2>1, <2>3, <2>4, <3>1, NotInThePast
    <3>3. flows_prev_dep_time'[f] = now
      BY <1>3, <1>4, <2>1, <2>4, <3>2
    <3> QED BY <1>3, <1>4, <3>3
  <2>5. CASE f # r[1]
    BY <1>3, <1>4, <2>3, <2>5
  <2> QED BY <2>4, <2>5
<1>5. ASSUME NEW n \in Notifiers, NEW r \in Requests,
             EnqueueLm(n, r[1], r[2]) \/ EnqueueCtm(n, r[1], r[2])
      PROVE  XInv'
  <2> DEFINE d == Departure(r[1], r[2])
             b == Booking(d.slots)
  <2>1. r[1] \in Flows /\ r[2] \in Nat
    BY ContextAssumption DEF Flows
  <2>2. /\ FreeOffsets(DesiredIndex(d.slots)) # {}
        /\ Reserve(r[1], d.dep, b)
    BY <1>5 DEF EnqueueLm, EnqueueCtm
  <2>3. d.slots \in 0 .. ThreshSlots
    BY <1>2, <2>1, DepartureFacts
  <2>4. b.index \in CtmSlots /\ b.index \notin bitmasks
    BY <1>2, <2>2, <2>3, BookingFacts
  <2>5. /\ flows_prev_dep_time' = [flows_prev_dep_time EXCEPT ![r[1]] = d.dep]
        /\ bitmasks' = bitmasks \cup {b.index}
        /\ book' = [book EXCEPT ![b.index] = Len(pkts) + 1]
        /\ \E x : pkts' = Append(pkts, x)
        /\ UNCHANGED <<now, pq_head_time, wire>>
    BY <2>2 DEF Reserve, headVars
  <2>6. \A f \in UnpacedFlows : flows_prev_dep_time'[f] <= now'
    BY <1>4, <2>5
  <2>7. Left' \cap Booked' = {} /\ Left' \cup Booked' = 1 .. Len(pkts')
    <3> HIDE DEF b, d
    <3> QED BY <2>4, <2>5, AcceptPartition
  <2>8. pq_head_time' % SlotTicks = 0
    BY <2>5 DEF XInv
  <2> QED BY <1>1, <2>6, <2>7, <2>8 DEF XInv
<1>6. ASSUME NEW n \in Notifiers, NEW r \in Requests, EnqueueHalt(n, r[1], r[2])
      PROVE  XInv'
  <2>1. /\ flows_prev_dep_time' =
             [flows_prev_dep_time EXCEPT ![r[1]] = Departure(r[1], r[2]).dep]
        /\ UNCHANGED <<now, pq_head_time, bitmasks, book, pkts, wire>>
    BY <1>6 DEF EnqueueHalt, headVars, bitVars, histVars
  <2>2. \A f \in UnpacedFlows : flows_prev_dep_time'[f] <= now'
    BY <1>4, <2>1
  <2>3. Left' = Left /\ Booked' = Booked
    BY <2>1 DEF Left, Booked
  <2> QED BY <1>1, <2>1, <2>2, <2>3 DEF XInv
<1>7. ASSUME NEW n \in Notifiers, SendPacketToCtm(n)
      PROVE  XInv'
  BY <1>1, <1>7, XFrame DEF SendPacketToCtm, headVars, bitVars, histVars
<1>8. ASSUME NEW d \in Dequeuers,
             SyncReserve(d) \/ SyncPlace(d) \/ StartDequeue(d) \/ LeaveDequeue(d)
      PROVE  XInv'
  BY <1>1, <1>8, XFrame
  DEF SyncReserve, SyncPlace, StartDequeue, LeaveDequeue, headVars, bitVars, histVars
<1>9. ASSUME NEW d \in Dequeuers, DequeuePacket(d) \/ PassEmptySlot(d)
      PROVE  XInv'
  <2>1. /\ pq_head_time' = pq_head_time + SlotTicks
        /\ Due(pq_head_time)
        /\ UNCHANGED <<now, flows_prev_dep_time, pkts>>
    BY <1>9 DEF DequeuePacket, PassEmptySlot, AdvanceHead
  <2>2. pq_head_time' % SlotTicks = 0
    <3>1. (pq_head_time + 1 * SlotTicks) % SlotTicks = 0
      BY <1>3, SlotMultiple, Sizes DEF XInv
    <3>2. 1 * SlotTicks = SlotTicks
      BY Sizes
    <3> QED BY <2>1, <3>1, <3>2
  <2>3. Left' \cap Booked' = {} /\ Left' \cup Booked' = 1 .. Len(pkts')
    <3>1. CASE DequeuePacket(d)
      <4>1. /\ wire' = Append(wire, lm_pacing_queue[pq_lm_head])
            /\ pq_ctm_head \in bitmasks
            /\ bitmasks' = bitmasks \ {pq_ctm_head}
            /\ book' = [book EXCEPT ![pq_ctm_head] = 0]
        BY <3>1 DEF DequeuePacket
      <4>2. lm_pacing_queue[pq_lm_head] = book[pq_ctm_head]
        BY <2>1, <4>1, HeadInPlace DEF XInv
      <4> QED BY <2>1, <4>1, <4>2, DepartPartition
    <3>2. CASE PassEmptySlot(d)
      <4>1. UNCHANGED <<bitmasks, book, wire>>
        BY <3>2 DEF PassEmptySlot, bitVars
      <4>2. Left' = Left /\ Booked' = Booked
        BY <4>1 DEF Left, Booked
      <4> QED BY <2>1, <4>2 DEF XInv
    <3> QED BY <1>9, <3>1, <3>2
  <2>4. \A f \in UnpacedFlows : flows_prev_dep_time'[f] <= now'
    BY <2>1 DEF XInv, UnpacedFlows
  <2> QED BY <1>1, <2>2, <2>3, <2>4 DEF XInv
<1>10. CASE Memory \/ Tick \/ UNCHANGED vars
  BY <1>1, <1>10, XFrame
  DEF Memory, CtmWriteDone, WorkqAddDone, CtmReadDone, Tick, vars, headVars,
      bitVars, histVars
<1> QED
  BY <1>5, <1>6, <1>7, <1>8, <1>9, <1>10 DEF Next, Enqueue, sync_dequeue_loop

LEMMA WaitingIsBooked ==
  ASSUME XInv
  PROVE  Abstract!Waiting = Booked
BY DEF XInv, Abstract!Waiting, Abstract!Accepted, Left

(* Accepting a packet in a slot is what Pacer calls accepting it.          *)
LEMMA AcceptStep ==
  ASSUME EnoughSlack, XInv, XInv', NEW r \in Requests,
         LET d == Departure(r[1], r[2])
         IN  /\ FreeOffsets(DesiredIndex(d.slots)) # {}
             /\ Reserve(r[1], d.dep, Booking(d.slots))
  PROVE  Abstract!Accept
<1> DEFINE d == Departure(r[1], r[2])
           b == Booking(d.slots)
           n == Len(pkts) + 1
           due == pq_head_time + (b.delta + 1) * SlotTicks
           new == [flow |-> r[1], dep |-> d.dep, due |-> due]
<1>1. TypeOK /\ CInv /\ OInv /\ BInv
  BY DEF XInv, VInv, WInv, RInv, CInv, TInv, OInv
<1>2. r[1] \in Flows /\ r[2] \in Nat
  BY ContextAssumption DEF Flows
<1>3. FreeOffsets(DesiredIndex(d.slots)) # {}
  OBVIOUS
<1>4. /\ pkts' = Append(pkts, new)
      /\ UNCHANGED <<now, wire>>
  BY DEF Reserve
<1>5. /\ d.slots \in 0 .. ThreshSlots
      /\ d.dep \in Nat /\ d.dep < pq_head_time + (d.slots + 1) * SlotTicks
  BY <1>1, <1>2, DepartureFacts
<1>6. /\ b.index \in CtmSlots /\ b.index \notin bitmasks
      /\ b.delta \in Nat /\ b.delta = Ahead(b.index)
      /\ b.delta >= d.slots /\ b.delta < d.slots + SearchWords * WordBits
  BY <1>1, <1>3, <1>5, BookingFacts
<1>7. /\ d.dep >= now
      /\ r[1] \in UnpacedFlows => d.dep = now
  <2>1. r[1] \in UnpacedFlows => r[2] = 0 /\ flows_prev_dep_time[r[1]] <= now
    BY UnpacedIdt DEF XInv
  <2> QED BY <1>1, <1>2, <2>1, NotInThePast
<1>8. ASSUME NEW t \in bitmasks,
             pkts[book[t]].flow = r[1] \/ pkts[book[t]].dep <= d.dep
      PROVE  Ahead(t) < b.delta
  BY <1>1, <1>2, <1>3, <1>8, BookedBehind
<1> HIDE DEF d, b
<1>9. /\ pkts \in Seq([flow : Flows, dep : Nat, due : Nat])
      /\ now \in Nat /\ pq_head_time \in Nat /\ pq_head_time <= now
      /\ pq_head_time % SlotTicks = 0 /\ bitmasks \subseteq CtmSlots
  BY <1>1 DEF TypeOK, CInv, XInv
<1>10. /\ Len(pkts') = n /\ pkts'[n] = new
       /\ \A p \in 1 .. Len(pkts) : pkts'[p] = pkts[p]
  BY <1>4, <1>9
<1>11. due \in Nat /\ due = Ends(b.delta)
  <2>1. b.delta + 1 \in Nat /\ (b.delta + 1) * SlotTicks \in Nat
    BY <1>6, Sizes
  <2> QED BY <1>9, <2>1 DEF Ends
<1>12. due > d.dep
  <2>1. (d.slots + 1) * SlotTicks <= (b.delta + 1) * SlotTicks
    BY <1>5, <1>6, MulMono, Sizes
  <2> DEFINE p == (d.slots + 1) * SlotTicks
             q == (b.delta + 1) * SlotTicks
  <2>2. p \in Int /\ q \in Int /\ p <= q /\ d.dep < pq_head_time + p
        /\ due = pq_head_time + q
    BY <1>5, <1>6, <2>1, Sizes
  <2> HIDE DEF p, q, due
  <2> QED BY <1>5, <1>9, <2>2
<1>13. due % SlotTicks = 0
  <2>1. b.delta + 1 \in Nat
    BY <1>6
  <2>2. (pq_head_time + (b.delta + 1) * SlotTicks) % SlotTicks = 0
    BY ZenonT(60), <1>9, <2>1, SlotMultiple, Sizes
  <2> QED BY <2>2
<1>14. due <= now + (ThreshSlots + SearchWords * WordBits) * SlotTicks
  <2> DEFINE w == SearchWords * WordBits
  <2>1. w \in Nat
    BY Sizes
  <2>2. b.delta < d.slots + w
    BY <1>6
  <2> HIDE DEF w
  <2>3. b.delta + 1 <= ThreshSlots + w /\ ThreshSlots + w \in Nat
    BY <1>5, <1>6, <2>1, <2>2, Sizes
  <2>4. (b.delta + 1) * SlotTicks <= (ThreshSlots + w) * SlotTicks
    BY <1>6, <2>3, MulMono, Sizes
  <2> DEFINE p == (ThreshSlots + w) * SlotTicks
             q == (b.delta + 1) * SlotTicks
  <2>5. p \in Int /\ q \in Int /\ q <= p /\ due = pq_head_time + q
    BY <1>6, <2>3, <2>4, Sizes
  <2> HIDE DEF p, q, due
  <2>6. due <= now + p
    BY <1>9, <2>5
  <2> QED BY <2>6 DEF p, w
<1>15. ASSUME NEW p \in Booked
       PROVE  /\ pkts[p].due # due
              /\ pkts[p].flow = r[1] \/ pkts[p].dep <= d.dep => pkts[p].due < due
  <2>1. PICK t \in bitmasks : p = book[t]
    BY DEF Booked
  <2>2. pkts[p].due = Ends(Ahead(t))
    BY <1>1, <2>1 DEF BInv, BookingsExact, Ends
  <2>3. Ahead(t) \in Nat /\ Ahead(t) # b.delta
    <3>1. t \in CtmSlots /\ t # b.index
      BY <1>6, <1>9
    <3> QED BY <1>1, <1>6, <3>1, AheadOf, Sizes
  <2>4. ASSUME NEW j \in Nat, NEW k \in Nat, j < k PROVE Ends(j) < Ends(k)
    <3>1. Ends(j) <= pq_head_time + k * SlotTicks /\ Ends(j) \in Nat
      BY <1>1, <2>4, EndsMono
    <3>2. (k + 1) * SlotTicks = k * SlotTicks + SlotTicks /\ k * SlotTicks \in Nat
      BY MulSucc, Sizes
    <3>3. Ends(k) = pq_head_time + k * SlotTicks + SlotTicks
      BY <1>9, <3>2, Sizes DEF Ends
    <3> QED BY <1>9, <3>1, <3>2, <3>3, Sizes
  <2>5. Ahead(t) < b.delta => Ends(Ahead(t)) < due
    BY <1>6, <1>11, <2>3, <2>4
  <2>6. Ends(Ahead(t)) # due
    <3>1. b.delta < Ahead(t) => due < Ends(Ahead(t))
      BY <1>6, <1>11, <2>3, <2>4
    <3>2. Ends(Ahead(t)) \in Nat
      BY <1>1, <2>3, EndsMono
    <3> HIDE DEF due
    <3> QED BY <1>6, <1>11, <2>3, <2>5, <3>1, <3>2
  <2>7. pkts[p].flow = r[1] \/ pkts[p].dep <= d.dep => Ahead(t) < b.delta
    BY <1>8, <2>1
  <2> HIDE DEF due
  <2> QED BY <2>2, <2>5, <2>6, <2>7
<1> HIDE DEF due
<1>16. new.flow = r[1] /\ new.dep = d.dep /\ new.due = due
  OBVIOUS
<1> HIDE DEF new
<1>17. \A p \in Abstract!Waiting :
         /\ pkts[p].due # new.due
         /\ \/ pkts[p].flow = new.flow
            \/ pkts[p].dep <= new.dep
            => pkts[p].due < new.due
  BY <1>15, <1>16, WaitingIsBooked
<1>18. /\ new.flow \in Flows
       /\ IF new.flow \in UnpacedFlows THEN new.dep = now ELSE new.dep >= now
       /\ new.due > new.dep /\ new.due % SlotTicks = 0
       /\ new.due <= now + (ThreshSlots + SearchWords * WordBits) * SlotTicks
  BY <1>2, <1>7, <1>12, <1>13, <1>14, <1>16
<1> QED BY <1>4, <1>10, <1>17, <1>18 DEF Abstract!Accept, Abstract!Accepted

(* What leaves is a waiting packet whose slot is over, and the first one.  *)
LEMMA DepartStep ==
  ASSUME EnoughSlack, XInv, NEW d \in Dequeuers, DequeuePacket(d)
  PROVE  \E p \in Abstract!Waiting : Abstract!Depart(p)
<1> DEFINE p == book[pq_ctm_head]
<1>1. TypeOK /\ BInv
  BY DEF XInv, VInv, WInv, OInv, BInv, TInv
<1>2. /\ Due(pq_head_time) /\ pq_ctm_head \in bitmasks
      /\ wire' = Append(wire, lm_pacing_queue[pq_lm_head])
      /\ UNCHANGED <<now, pkts>>
  BY DEF DequeuePacket, AdvanceHead
<1>3. wire' = Append(wire, p)
  BY <1>2, HeadInPlace DEF XInv
<1>4. p \in Abstract!Waiting
  BY <1>2, WaitingIsBooked DEF Booked
<1>5. /\ now \in Nat /\ pq_head_time \in Nat /\ pq_ctm_head \in CtmSlots
      /\ bitmasks \subseteq CtmSlots
  BY <1>1 DEF TypeOK
<1>6. \A t \in bitmasks : pkts[book[t]].due = Ends(Ahead(t))
  BY <1>1 DEF BInv, BookingsExact, Ends
<1>7. Ahead(pq_ctm_head) = 0
  BY <1>5, AheadMoves DEF Ahead
<1>8. now >= pkts[p].due
  <2>1. Ends(0) = pq_head_time + SlotTicks
    BY <1>5, Sizes DEF Ends
  <2> QED BY <1>2, <1>5, <1>6, <1>7, <2>1, Sizes DEF Due
<1>9. ASSUME NEW q \in Abstract!Waiting PROVE pkts[p].due <= pkts[q].due
  <2>1. PICK t \in bitmasks : q = book[t]
    BY WaitingIsBooked DEF Booked
  <2>2. Ahead(t) \in Nat /\ 0 <= Ahead(t)
    BY <1>1, <1>5, AheadOf
  <2>3. Ends(0) <= Ends(Ahead(t))
    BY <1>1, <2>2, EndsMono
  <2> QED BY <1>2, <1>6, <1>7, <2>1, <2>3
<1> HIDE DEF p
<1>10. Abstract!Depart(p)
  BY <1>2, <1>3, <1>8, <1>9 DEF Abstract!Depart
<1> QED BY <1>4, <1>10

(* The timing wheel, its cache and its contexts together are a Pacer: a    *)
(* notifier that accepts a packet takes Pacer's Accept, a dequeuer that    *)
(* gives one away its Depart, the clock its Tick, and every other step of  *)
(* a context or a memory engine is invisible.                              *)
THEOREM PacerIsImplemented ==
  ASSUME EnoughSlack
  PROVE  Spec => ImplementsPacer
<1>1. Init => Abstract!Init
  BY DEF Init, Abstract!Init
<1>2. XInv /\ XInv' /\ [Next]_vars => [Abstract!Next]_<<now, pkts, wire>>
  <2> SUFFICES ASSUME XInv, XInv', [Next]_vars
               PROVE  [Abstract!Next]_<<now, pkts, wire>>
    OBVIOUS
  <2>1. ASSUME NEW n \in Notifiers, NEW r \in Requests,
               EnqueueLm(n, r[1], r[2]) \/ EnqueueCtm(n, r[1], r[2])
        PROVE  Abstract!Next
    <3>1. LET d == Departure(r[1], r[2])
          IN  /\ FreeOffsets(DesiredIndex(d.slots)) # {}
              /\ Reserve(r[1], d.dep, Booking(d.slots))
      BY <2>1 DEF EnqueueLm, EnqueueCtm
    <3> QED BY <3>1, AcceptStep DEF Abstract!Next
  <2>2. ASSUME NEW n \in Notifiers, NEW r \in Requests,
               EnqueueHalt(n, r[1], r[2]) \/ SendPacketToCtm(n)
        PROVE  UNCHANGED <<now, pkts, wire>>
    BY <2>2 DEF EnqueueHalt, SendPacketToCtm, histVars
  <2>3. ASSUME NEW n \in Notifiers, SendPacketToCtm(n)
        PROVE  UNCHANGED <<now, pkts, wire>>
    BY <2>3 DEF SendPacketToCtm, histVars
  <2>4. ASSUME NEW d \in Dequeuers, sync_dequeue_loop(d), ~DequeuePacket(d)
        PROVE  UNCHANGED <<now, pkts, wire>>
    BY <2>4
    DEF sync_dequeue_loop, SyncReserve, SyncPlace, StartDequeue, LeaveDequeue,
        PassEmptySlot, AdvanceHead, histVars
  <2>5. ASSUME NEW d \in Dequeuers, DequeuePacket(d)
        PROVE  Abstract!Next
    BY <2>5, DepartStep DEF Abstract!Next
  <2>6. CASE Memory \/ UNCHANGED vars
    BY <2>6
    DEF Memory, CtmWriteDone, WorkqAddDone, CtmReadDone, vars, histVars
  <2>7. CASE Tick
    BY <2>7 DEF Tick, Abstract!Tick, Abstract!Next, histVars
  <2> QED BY <2>1, <2>2, <2>3, <2>4, <2>5, <2>6, <2>7 DEF Next, Enqueue
<1>3. XInv /\ [Next]_vars => XInv'
  BY NextXInv
<1> QED
  BY InitXInv, <1>1, <1>2, <1>3, PTL
  DEF Spec, ImplementsPacer, Abstract!Spec, Abstract!pacerVars

----------------------------------------------------------------------------
(* What waits, waits for the clock.                                        *)

(* When no context can go on, every packet whose slot is over was given to *)
(* the work queue by dequeue_pacing_queue(): a packet waits for the clock  *)
(* and for nothing else.                                                   *)
THEOREM DueAreGone ==
  ASSUME EnoughSlack, Dequeuers # {}
  PROVE  Spec => [](AtRest => \A p \in Packets :
                                pkts[p].due <= now => \E i \in 1 .. Len(wire) : wire[i] = p)
<1> DEFINE All == \A p \in Packets : pkts[p].due <= now => \E i \in 1 .. Len(wire) : wire[i] = p
<1>1. XInv /\ AllServed => All
  <2> SUFFICES ASSUME XInv, AllServed, NEW p \in Packets, pkts[p].due <= now
               PROVE  \E i \in 1 .. Len(wire) : wire[i] = p
    OBVIOUS
  <2>1. now \in Nat /\ pkts \in Seq([flow : Flows, dep : Nat, due : Nat])
    BY DEF XInv, VInv, WInv, RInv, CInv, TInv, TypeOK
  <2>2. p \in Left \/ p \in Booked
    BY DEF XInv, Packets
  <2>3. ASSUME p \in Booked PROVE FALSE
    <3>1. now < pkts[p].due
      BY <2>3 DEF Booked, AllServed
    <3>2. pkts[p] \in [flow : Flows, dep : Nat, due : Nat]
      <4> DEFINE R == [flow : Flows, dep : Nat, due : Nat]
      <4>1. pkts \in Seq(R) /\ p \in 1 .. Len(pkts)
        BY <2>1 DEF Packets
      <4> HIDE DEF R
      <4>2. pkts[p] \in R
        BY <4>1
      <4> QED BY <4>2 DEF R
    <3>3. pkts[p].due \in Nat
      BY <3>2
    <3> QED BY <2>1, <3>1, <3>3
  <2> QED BY <2>2, <2>3 DEF Left
<1> HIDE DEF All
<1>2. XInv /\ [Next]_vars => XInv'
  BY NextXInv
<1>3. Spec => [](AtRest => All)
  BY InitXInv, <1>1, <1>2, NobodyIsStuck, PTL DEF Spec
<1> QED BY <1>3 DEF All

=============================================================================
