------------------------- MODULE PacingQueueProofs -------------------------
(* Theorems about PacingQueue, for every value of its constants. *)
EXTENDS PacingQueue, WellFoundedInduction, FiniteSetTheorems,
        SequenceTheorems, TLAPS

----------------------------------------------------------------------------
(* Arithmetic.                                                             *)

(* A set of naturals that is not empty has a least element.                *)
LEMMA LeastOf ==
  ASSUME NEW S \in SUBSET Nat, S # {}
  PROVE  \E k \in S : \A m \in S : k <= m
<1>1. PICK k \in S : \A m \in S : ~(<<m, k>> \in OpToRel(<, Nat))
  BY NatLessThanWellFounded, WFMin
<1>2. \A m \in S : ~(m < k)
  BY <1>1 DEF OpToRel
<1> QED BY <1>2

LEMMA MulMono ==
  ASSUME NEW m \in Int, NEW k \in Int, NEW c \in Nat, m <= k
  PROVE  m * c <= k * c
OBVIOUS

(* Whole slots of a distance do not exceed it.                             *)
LEMMA DivBounds ==
  ASSUME NEW a \in Nat, NEW b \in Nat, b > 0
  PROVE  /\ a \div b \in Nat
         /\ (a \div b) * b <= a
         /\ a < (a \div b + 1) * b
<1>1. a = b * (a \div b) + (a % b) /\ (a % b) \in 0 .. b - 1 /\ (a \div b) \in Int
  OBVIOUS
<1> QED BY <1>1

(* A chunk that starts at a multiple of its size does not cross the end of *)
(* a ring whose length is a multiple of it.                                *)
LEMMA ChunkFits ==
  ASSUME NEW a \in Nat, NEW b \in Nat, NEW c \in Nat, c > 0,
         a % c = 0, b % c = 0, a < b
  PROVE  a + c <= b /\ (a + c) % c = 0
<1> DEFINE m == a \div c
           k == b \div c
<1>1. a = m * c /\ b = k * c /\ m \in Int /\ k \in Int
  OBVIOUS
<1> HIDE DEF m, k
<1>2. m + 1 <= k
  <2>1. CASE k <= m
    BY <1>1, <2>1, MulMono
  <2> QED BY <1>1, <2>1
<1>3. (m + 1) * c <= k * c
  BY <1>1, <1>2, MulMono
<1>4. a + c = (m + 1) * c
  BY <1>1
<1>5. ((m + 1) * c) % c = 0
  BY <1>1
<1> QED BY <1>1, <1>3, <1>4, <1>5

----------------------------------------------------------------------------
(* The constants.                                                          *)

LEMMA Sizes ==
  /\ CtmLength \in Nat /\ LmLength \in Nat /\ SyncLength \in Nat
  /\ SyncChunk \in Nat /\ SyncChunk > 0
  /\ SyncChunk <= SyncLength /\ SyncLength < LmLength
  /\ LmLength <= ThreshSlots /\ ThreshSlots < CtmLength
  /\ ThreshSlots \in Nat
  /\ SlotTicks \in Nat /\ SlotTicks > 0
  /\ OutRegs \in Nat /\ OutRegs > 0
  /\ MaxBusy \in Nat /\ MaxBusy > 0
  /\ WordBits \in Nat /\ WordBits > 0
  /\ SearchWords * WordBits \in Nat /\ SearchWords * WordBits > 0
  /\ ThreshSlots + SearchWords * WordBits <= CtmLength
<1>1. /\ {CtmLength, LmLength, SyncLength, SyncChunk, WordBits, SearchWords,
          ThreshSlots, SlotTicks, OutRegs, MaxBusy} \subseteq Nat \ {0}
      /\ SyncLength < LmLength /\ LmLength <= ThreshSlots
      /\ ThreshSlots + SearchWords * WordBits <= CtmLength
      /\ SyncChunk <= SyncLength
  BY SizesAssumption, ChunkAssumption
<1>2. SearchWords * WordBits \in Nat /\ SearchWords * WordBits > 0
  BY <1>1
<1> QED BY <1>1, <1>2

(* One conditional subtraction brings an index that is at most one turn    *)
(* too far back into the ring.                                             *)
LEMMA WrapInRing ==
  ASSUME NEW len \in Nat, NEW i \in Nat, i < len + len
  PROVE  Wrap(i, len) \in 0 .. len - 1
BY DEF Wrap

(* A search that finds a slot finds the first free one.                    *)
LEMMA SearchFinds ==
  ASSUME NEW i \in CtmSlots, FreeOffsets(i) # {}
  PROVE  \E k \in Nat :
           /\ k < SearchWords * WordBits
           /\ pq_find_next_available_slot(i) = Wrap(i + k, CtmLength)
           /\ Wrap(i + k, CtmLength) \notin bitmasks
           /\ \A m \in 0 .. k - 1 : Wrap(i + m, CtmLength) \in bitmasks
<1> DEFINE S == FreeOffsets(i)
<1>1. S \in SUBSET Nat
  BY DEF FreeOffsets
<1>2. \E k \in S : \A m \in S : k <= m
  BY <1>1, LeastOf
<1> DEFINE k == CHOOSE k \in S : \A m \in S : k <= m
<1>3. k \in S /\ \A m \in S : k <= m
  BY <1>2
<1>4. i % WordBits \in 0 .. WordBits - 1
  BY Sizes DEF CtmSlots
<1>5. SearchSpan(i) \in Int /\ SearchSpan(i) <= SearchWords * WordBits
  BY <1>4, Sizes DEF SearchSpan
<1>6. k \in Nat /\ k < SearchWords * WordBits /\ k <= SearchSpan(i) - 1
  BY <1>3, <1>5, Sizes DEF FreeOffsets
<1>7. Wrap(i + k, CtmLength) \notin bitmasks
  BY <1>3 DEF FreeOffsets
<1>8. ASSUME NEW m \in 0 .. k - 1
      PROVE  Wrap(i + m, CtmLength) \in bitmasks
  <2>1. m \in 0 .. SearchSpan(i) - 1
    BY <1>5, <1>6
  <2>2. m \notin S
    BY <1>3, <1>6
  <2> QED BY <2>1, <2>2 DEF FreeOffsets
<1>9. pq_find_next_available_slot(i) = Wrap(i + k, CtmLength)
  BY DEF pq_find_next_available_slot
<1> HIDE DEF k
<1> QED BY <1>6, <1>7, <1>8, <1>9

(* The distance a booking reports is the distance of its slot from the     *)
(* head, and the slot was free.                                            *)
LEMMA BookingFacts ==
  ASSUME TypeOK, NEW slots \in 0 .. ThreshSlots,
         FreeOffsets(DesiredIndex(slots)) # {}
  PROVE  LET b == Booking(slots)
         IN  /\ b.index \in CtmSlots /\ b.index \notin bitmasks
             /\ b.delta \in Nat /\ b.delta < CtmLength /\ b.delta >= slots
             /\ b.delta < slots + SearchWords * WordBits
             /\ b.index = Wrap(pq_ctm_head + b.delta, CtmLength)
             /\ b.delta = Ahead(b.index)
             /\ \A s \in CtmSlots :
                  slots <= Ahead(s) /\ Ahead(s) < b.delta => s \in bitmasks
<1> DEFINE i == DesiredIndex(slots)
<1>1. i \in CtmSlots /\ i = Wrap(pq_ctm_head + slots, CtmLength)
  BY SMTT(30), Sizes DEF TypeOK, DesiredIndex, Wrap, CtmSlots
<1>2. PICK k \in Nat :
           /\ k < SearchWords * WordBits
           /\ pq_find_next_available_slot(i) = Wrap(i + k, CtmLength)
           /\ Wrap(i + k, CtmLength) \notin bitmasks
           /\ \A m \in 0 .. k - 1 : Wrap(i + m, CtmLength) \in bitmasks
  BY <1>1, SearchFinds
<1>3. slots + k < CtmLength
  BY <1>2, Sizes
<1>4. CtmLength \in Nat /\ pq_ctm_head \in 0 .. CtmLength - 1 /\ slots \in Nat
  BY Sizes DEF TypeOK, CtmSlots
<1> DEFINE s == Wrap(i + k, CtmLength)
<1>5. s \in CtmSlots
  BY <1>1, <1>2, <1>3, <1>4 DEF CtmSlots, Wrap
<1>6. PQ_CTM_RING_DIFF(s, i) = k
  <2>1. i \in 0 .. CtmLength - 1
    BY <1>1 DEF CtmSlots
  <2>2. k < CtmLength
    BY <1>2, <1>3, <1>4
  <2> HIDE DEF i
  <2> QED BY <1>2, <1>4, <2>1, <2>2 DEF Wrap, PQ_CTM_RING_DIFF
<1>7. s = Wrap(pq_ctm_head + (slots + k), CtmLength)
  BY <1>1, <1>2, <1>3, <1>4 DEF Wrap
<1>8. slots + k = Ahead(s)
  <2> HIDE DEF s
  <2> QED BY <1>2, <1>3, <1>4, <1>7 DEF Wrap, Ahead, PQ_CTM_RING_DIFF
<1>9. Booking(slots) = [index |-> s, delta |-> slots + k]
  BY <1>2, <1>6 DEF Booking
<1> HIDE DEF s
<1>10. Booking(slots).index = s /\ Booking(slots).delta = slots + k
  BY <1>9
<1>11. s \notin bitmasks
  BY <1>2 DEF s
<1>12. ASSUME NEW t \in CtmSlots, slots <= Ahead(t), Ahead(t) < slots + k
       PROVE  t \in bitmasks
  <2> DEFINE m == Ahead(t) - slots
  <2>1. Ahead(t) \in Nat /\ t = Wrap(pq_ctm_head + Ahead(t), CtmLength)
    BY <1>4 DEF Ahead, PQ_CTM_RING_DIFF, Wrap, CtmSlots
  <2>2. m \in 0 .. k - 1 /\ Ahead(t) = slots + m
    <3> HIDE DEF Ahead
    <3> QED BY <1>2, <1>4, <1>12, <2>1
  <2> HIDE DEF m
  <2>3. m \in Nat /\ slots + m < CtmLength
    BY <1>2, <1>3, <1>4, <2>2
  <2>4. Wrap(i + m, CtmLength) = Wrap(pq_ctm_head + (slots + m), CtmLength)
    BY <1>1, <1>4, <2>3 DEF Wrap
  <2> QED BY <1>2, <2>1, <2>2, <2>4
<1>13. slots + k < slots + SearchWords * WordBits
  BY <1>2, <1>4, Sizes
<1> QED BY <1>2, <1>3, <1>4, <1>5, <1>7, <1>8, <1>10, <1>11, <1>12, <1>13

(* The departure time that is recorded lies before the end of the slot the *)
(* search starts from, also when it was pulled back to the horizon.        *)
LEMMA DepartureFacts ==
  ASSUME TypeOK, NEW flow \in Flows, NEW idt \in Nat
  PROVE  LET d == Departure(flow, idt)
         IN  /\ d.dep \in Nat /\ d.slots \in 0 .. ThreshSlots
             /\ d.dep < pq_head_time + (d.slots + 1) * SlotTicks
             /\ d.slots > 0 => pq_head_time + d.slots * SlotTicks <= d.dep
<1> DEFINE dep == DepTime(flow, idt)
           slots == DeltaSlots(dep)
<1>1. dep \in Nat
  BY DEF TypeOK, DepTime
<1> HIDE DEF dep
<1>2. /\ slots \in Nat
      /\ dep < pq_head_time + (slots + 1) * SlotTicks
      /\ slots > 0 => pq_head_time + slots * SlotTicks <= dep
  <2>1. CASE dep > pq_head_time
    <3>1. dep - pq_head_time \in Nat /\ pq_head_time \in Nat
      BY <1>1, <2>1 DEF TypeOK
    <3> DEFINE q == (dep - pq_head_time) \div SlotTicks
    <3>2. /\ q \in Nat /\ q * SlotTicks <= dep - pq_head_time
          /\ dep - pq_head_time < (q + 1) * SlotTicks
      BY <3>1, DivBounds, Sizes
    <3>3. slots = q
      BY <2>1 DEF DeltaSlots
    <3> HIDE DEF q, slots
    <3>4. q * SlotTicks \in Int /\ (q + 1) * SlotTicks \in Int
      BY <3>2, Sizes
    <3> QED BY <3>1, <3>2, <3>3, <3>4, <1>1
  <2>2. CASE ~(dep > pq_head_time)
    BY <1>1, <2>2, Sizes DEF DeltaSlots, TypeOK
  <2> QED BY <2>1, <2>2
<1> HIDE DEF slots
<1>3. Departure(flow, idt) =
        IF slots > ThreshSlots
        THEN [dep |-> dep - PQ_DEP_TIME_DIFF_TRESHOLD(slots), slots |-> ThreshSlots]
        ELSE [dep |-> dep, slots |-> slots]
  BY DEF Departure, dep, slots
<1>4. CASE slots > ThreshSlots
  <2> DEFINE x == slots * SlotTicks
             y == ThreshSlots * SlotTicks
  <2>1. x \in Nat /\ y \in Nat
    BY <1>2, Sizes
  <2>2. /\ (slots - ThreshSlots) * SlotTicks = x - y
        /\ (slots + 1) * SlotTicks = x + SlotTicks
        /\ (ThreshSlots + 1) * SlotTicks = y + SlotTicks
    BY <1>2, Sizes
  <2>3. pq_head_time + x <= dep /\ pq_head_time \in Nat
    BY <1>2, <1>4, Sizes DEF TypeOK
  <2> HIDE DEF x, y
  <2>4. /\ dep - (x - y) \in Nat /\ dep - (x - y) < pq_head_time + y + SlotTicks
        /\ pq_head_time + y <= dep - (x - y)
    BY <1>1, <1>2, <2>1, <2>2, <2>3, Sizes
  <2>5. Departure(flow, idt) = [dep |-> dep - (x - y), slots |-> ThreshSlots]
    BY <1>3, <1>4, <2>2 DEF PQ_DEP_TIME_DIFF_TRESHOLD
  <2>6. /\ Departure(flow, idt).dep = dep - (x - y)
        /\ Departure(flow, idt).slots = ThreshSlots
    BY <2>5
  <2>7. dep - (x - y) < pq_head_time + (ThreshSlots + 1) * SlotTicks
    BY <1>1, <2>1, <2>2, <2>3, <2>4, Sizes
  <2>8. pq_head_time + ThreshSlots * SlotTicks <= dep - (x - y)
    BY <2>4 DEF y
  <2> QED BY <2>4, <2>6, <2>7, <2>8, Sizes
<1>5. CASE ~(slots > ThreshSlots)
  BY <1>1, <1>2, <1>3, <1>5, Sizes
<1> QED BY <1>4, <1>5

----------------------------------------------------------------------------
(* Type correctness.                                                       *)

(* A sync reads and writes within both rings: its chunks are aligned.      *)
Aligned ==
  /\ pq_ctm_sync_end % SyncChunk = 0
  /\ \A d \in Dequeuers : sync[d].ctm % SyncChunk = 0

TInv == TypeOK /\ Aligned

LEMMA InitTInv == Init => TInv
<1> SUFFICES ASSUME Init PROVE TInv
  OBVIOUS
<1>1. 0 \in Regs /\ 0 \in CtmSlots /\ 0 \in LmSlots
      /\ SyncLength \in CtmSlots /\ SyncLength \in LmSlots
  BY Sizes DEF Regs, CtmSlots, LmSlots
<1>2. 0 % SyncChunk = 0 /\ SyncLength % SyncChunk = 0
  BY Sizes, ChunkAssumption
<1>3. Aligned
  BY <1>2 DEF Init, Aligned, NoSync
<1>4. /\ reserved \in [Notifiers -> [slot : CtmSlots, pkt : Nat, since : Nat]]
      /\ sync \in [Dequeuers -> [ctm : CtmSlots, lm : LmSlots, since : Nat]]
      /\ batch_in \in [Dequeuers -> [Offsets -> Nat]]
      /\ msg_sig \in [Dequeuers -> SUBSET {0, 1}]
  BY <1>1 DEF Init, NoSync, NoReserved, NoBatch
<1>5. /\ pc \in [Contexts -> {"notify", "ctm_wait", "loop", "read", "wait_reg"}]
      /\ next_batch_out \in [Contexts -> Regs]
      /\ wq_sig \in [Contexts -> SUBSET Regs]
      /\ book \in [CtmSlots -> Nat]
      /\ ctm_pacing_queue \in [CtmSlots -> Nat]
      /\ lm_pacing_queue \in [LmSlots -> Nat]
      /\ flows_prev_dep_time \in [Flows -> Nat]
  BY <1>1 DEF Init
<1>6. /\ pkts \in Seq([flow : Flows, dep : Nat, due : Nat])
      /\ wire \in Seq(Nat)
  BY DEF Init
<1>7. /\ now \in Nat /\ pq_head_time \in Nat
      /\ pq_ctm_head \in CtmSlots /\ pq_lm_head \in LmSlots
      /\ pq_ctm_sync_end \in CtmSlots /\ pq_lm_sync_end \in LmSlots
      /\ pq_lm_dequeue_cnt \in Nat
      /\ bitmasks \subseteq CtmSlots /\ lm_bitmasks \subseteq LmSlots
      /\ halted \in BOOLEAN /\ busy \in Nat
  BY <1>1 DEF Init
<1>8. TypeOK
  BY <1>4, <1>5, <1>6, <1>7 DEF TypeOK, Init
<1> QED BY <1>3, <1>8 DEF TInv

(* What an accepted packet changes keeps its type.                         *)
LEMMA ReserveType ==
  ASSUME TypeOK, NEW flow \in Flows, NEW slots \in 0 .. ThreshSlots,
         FreeOffsets(DesiredIndex(slots)) # {},
         NEW dep \in Nat, Reserve(flow, dep, Booking(slots))
  PROVE  /\ flows_prev_dep_time' \in [Flows -> Nat]
         /\ bitmasks' \subseteq CtmSlots
         /\ book' \in [CtmSlots -> Nat]
         /\ pkts' \in Seq([flow : Flows, dep : Nat, due : Nat])
         /\ Len(pkts) + 1 \in Nat
<1> DEFINE b == Booking(slots)
<1>1. b.index \in CtmSlots /\ b.delta \in Nat
  BY BookingFacts
<1> HIDE DEF b
<1>2. Len(pkts) \in Nat
  BY DEF TypeOK
<1>3. pq_head_time + (b.delta + 1) * SlotTicks \in Nat
  <2>1. pq_head_time \in Nat
    BY DEF TypeOK
  <2>2. (b.delta + 1) * SlotTicks \in Nat
    BY <1>1, Sizes
  <2> QED BY <2>1, <2>2
<1>4. pkts' = Append(pkts, [flow |-> flow, dep |-> dep,
                            due |-> pq_head_time + (b.delta + 1) * SlotTicks])
  BY DEF Reserve, b
<1>5. pkts' \in Seq([flow : Flows, dep : Nat, due : Nat])
  <2> DEFINE due == pq_head_time + (b.delta + 1) * SlotTicks
  <2>1. due \in Nat /\ pkts' = Append(pkts, [flow |-> flow, dep |-> dep, due |-> due])
    BY <1>3, <1>4
  <2> HIDE DEF due
  <2> QED BY <2>1 DEF TypeOK
<1>6. /\ flows_prev_dep_time' = [flows_prev_dep_time EXCEPT ![flow] = dep]
      /\ bitmasks' = bitmasks \cup {b.index}
      /\ book' = [book EXCEPT ![b.index] = Len(pkts) + 1]
  BY DEF Reserve, b
<1> QED BY SMTT(30), <1>1, <1>2, <1>5, <1>6 DEF TypeOK

LEMMA EnqueueLmType ==
  ASSUME TInv, NEW n \in Notifiers, NEW flow \in Flows, NEW idt \in Nat,
         EnqueueLm(n, flow, idt)
  PROVE  TInv'
<1> DEFINE d == Departure(flow, idt)
           b == Booking(d.slots)
           lm == Wrap(pq_lm_head + b.delta, LmLength)
<1>1. d.dep \in Nat /\ d.slots \in 0 .. ThreshSlots
  BY DepartureFacts DEF TInv
<1>2. FreeOffsets(DesiredIndex(d.slots)) # {} /\ PlacedInLm(b.delta)
      /\ Reserve(flow, d.dep, b)
      /\ lm_pacing_queue' = [lm_pacing_queue EXCEPT ![lm] = Len(pkts) + 1]
      /\ lm_bitmasks' = lm_bitmasks \cup {lm}
      /\ UNCHANGED <<pc, reserved>>
  BY DEF EnqueueLm
<1>3. b.delta \in Nat
  BY <1>1, <1>2, BookingFacts DEF TInv
<1> HIDE DEF d
<1>4. /\ flows_prev_dep_time' \in [Flows -> Nat]
      /\ bitmasks' \subseteq CtmSlots
      /\ book' \in [CtmSlots -> Nat]
      /\ pkts' \in Seq([flow : Flows, dep : Nat, due : Nat])
      /\ Len(pkts) + 1 \in Nat
  BY <1>1, <1>2, ReserveType DEF TInv
<1>5. UNCHANGED <<now, headVars, syncVars, pq_lm_dequeue_cnt,
                  ctm_pacing_queue, outVars, halted, wire, busy>>
  BY <1>2 DEF Reserve
<1> HIDE DEF b
<1>6. lm \in LmSlots
  <2>1. pq_lm_head \in LmSlots
    BY DEF TInv, TypeOK
  <2> QED BY SMTT(30), <1>2, <1>3, <2>1, Sizes DEF LmSlots, PlacedInLm, Wrap
<1> HIDE DEF lm
<1> QED
  BY <1>2, <1>4, <1>5, <1>6
  DEF TInv, TypeOK, Aligned, headVars, syncVars, outVars

LEMMA EnqueueCtmType ==
  ASSUME TInv, NEW n \in Notifiers, NEW flow \in Flows, NEW idt \in Nat,
         EnqueueCtm(n, flow, idt)
  PROVE  TInv'
<1> DEFINE d == Departure(flow, idt)
           b == Booking(d.slots)
<1>1. d.dep \in Nat /\ d.slots \in 0 .. ThreshSlots
  BY DepartureFacts DEF TInv
<1>2. FreeOffsets(DesiredIndex(d.slots)) # {}
      /\ Reserve(flow, d.dep, b)
      /\ reserved' = [reserved EXCEPT ![n] =
                       [slot |-> b.index, pkt |-> Len(pkts) + 1, since |-> now]]
      /\ pc' = [pc EXCEPT ![n] = "ctm_wait"]
      /\ UNCHANGED <<lm_pacing_queue, lm_bitmasks>>
  BY DEF EnqueueCtm
<1>3. b.index \in CtmSlots
  BY <1>1, <1>2, BookingFacts DEF TInv
<1> HIDE DEF d
<1>4. /\ flows_prev_dep_time' \in [Flows -> Nat]
      /\ bitmasks' \subseteq CtmSlots
      /\ book' \in [CtmSlots -> Nat]
      /\ pkts' \in Seq([flow : Flows, dep : Nat, due : Nat])
      /\ Len(pkts) + 1 \in Nat
  BY <1>1, <1>2, ReserveType DEF TInv
<1>5. UNCHANGED <<now, headVars, syncVars, pq_lm_dequeue_cnt,
                  ctm_pacing_queue, outVars, halted, wire, busy>>
  BY <1>2 DEF Reserve
<1> HIDE DEF b
<1> QED
  BY <1>2, <1>3, <1>4, <1>5
  DEF TInv, TypeOK, Aligned, headVars, syncVars, outVars, Contexts

LEMMA EnqueueHaltType ==
  ASSUME TInv, NEW n \in Notifiers, NEW flow \in Flows, NEW idt \in Nat,
         EnqueueHalt(n, flow, idt)
  PROVE  TInv'
<1> DEFINE d == Departure(flow, idt)
<1>1. d.dep \in Nat
  BY DepartureFacts DEF TInv
<1>2. /\ flows_prev_dep_time' = [flows_prev_dep_time EXCEPT ![flow] = d.dep]
      /\ halted' = TRUE
      /\ UNCHANGED <<now, headVars, syncVars, pq_lm_dequeue_cnt, bitVars,
                     ctm_pacing_queue, lm_pacing_queue, outVars, pc, reserved,
                     histVars>>
  BY DEF EnqueueHalt
<1> HIDE DEF d
<1> QED
  BY <1>1, <1>2
  DEF TInv, TypeOK, Aligned, headVars, syncVars, bitVars, outVars, histVars

LEMMA SendPacketToCtmType ==
  ASSUME TInv, NEW n \in Notifiers, SendPacketToCtm(n)
  PROVE  TInv'
<1>1. n \in Contexts
  BY DEF Contexts
<1>2. next_batch_out[n] \in Regs /\ reserved[n] \in [slot : CtmSlots, pkt : Nat, since : Nat]
  BY <1>1 DEF TInv, TypeOK
<1>3. Wrap(next_batch_out[n] + 1, OutRegs) \in Regs
  BY <1>2, Sizes DEF Regs, Wrap
<1>4. NoReserved \in [slot : CtmSlots, pkt : Nat, since : Nat]
  BY Sizes DEF NoReserved, CtmSlots
<1>5. /\ wq_sig' = [wq_sig EXCEPT ![n] = @ \ {next_batch_out[n]}]
      /\ next_batch_out' = [next_batch_out EXCEPT ![n] = Wrap(@ + 1, OutRegs)]
      /\ reserved' = [reserved EXCEPT ![n] = NoReserved]
      /\ pc' = [pc EXCEPT ![n] = "notify"]
      /\ UNCHANGED <<now, headVars, syncVars, pq_lm_dequeue_cnt, bitVars,
                     ctm_pacing_queue, lm_pacing_queue, flows_prev_dep_time,
                     adds, halted, histVars>>
  BY DEF SendPacketToCtm
<1>6. writes' \subseteq [ctx : Notifiers, reg : Regs, slot : CtmSlots,
                         pkt : Nat, since : Nat]
  BY <1>2 DEF SendPacketToCtm, TInv, TypeOK
<1>7. /\ next_batch_out' \in [Contexts -> Regs]
      /\ wq_sig' \in [Contexts -> SUBSET Regs]
      /\ pc' \in [Contexts -> {"notify", "ctm_wait", "loop", "read", "wait_reg"}]
      /\ reserved' \in [Notifiers -> [slot : CtmSlots, pkt : Nat, since : Nat]]
  BY <1>1, <1>3, <1>4, <1>5 DEF TInv, TypeOK
<1> QED
  BY <1>5, <1>6, <1>7
  DEF TInv, TypeOK, Aligned, headVars, syncVars, bitVars, histVars

LEMMA SyncReserveType ==
  ASSUME TInv, NEW d \in Dequeuers, SyncReserve(d)
  PROVE  TInv'
<1>1. d \in Contexts
  BY DEF Contexts
<1>2. pq_ctm_sync_end \in CtmSlots /\ pq_lm_sync_end \in LmSlots
      /\ pq_ctm_sync_end % SyncChunk = 0
  BY DEF TInv, TypeOK, Aligned
<1>3. pq_ctm_sync_end + SyncChunk <= CtmLength
      /\ (pq_ctm_sync_end + SyncChunk) % SyncChunk = 0
  <2>1. pq_ctm_sync_end \in Nat /\ pq_ctm_sync_end < CtmLength
    BY <1>2, Sizes DEF CtmSlots
  <2>2. CtmLength % SyncChunk = 0
    BY ChunkAssumption
  <2> QED BY <1>2, <2>1, <2>2, ChunkFits, Sizes
<1>4. pq_ctm_sync_end' \in CtmSlots /\ pq_ctm_sync_end' % SyncChunk = 0
  <2>1. pq_ctm_sync_end' = Wrap(pq_ctm_sync_end + SyncChunk, CtmLength)
    BY DEF SyncReserve
  <2>2. CASE pq_ctm_sync_end + SyncChunk = CtmLength
    <3>1. pq_ctm_sync_end' = 0
      BY <2>1, <2>2, Sizes DEF Wrap
    <3> QED BY <3>1, Sizes DEF CtmSlots
  <2>3. CASE pq_ctm_sync_end + SyncChunk < CtmLength
    <3>1. pq_ctm_sync_end' = pq_ctm_sync_end + SyncChunk
      BY <1>2, <2>1, <2>3, Sizes DEF Wrap, CtmSlots
    <3> QED BY <1>2, <1>3, <2>3, <3>1, Sizes DEF CtmSlots
  <2> QED BY <1>2, <1>3, <2>2, <2>3, Sizes DEF CtmSlots
<1>5. pq_lm_sync_end' \in LmSlots
  BY <1>2, Sizes DEF SyncReserve, Wrap, LmSlots
<1>6. pq_lm_dequeue_cnt' \in Nat
  BY Sizes DEF SyncReserve, SyncNeeded, TInv, TypeOK
<1>7. sync' = [sync EXCEPT ![d] =
               [ctm |-> pq_ctm_sync_end, lm |-> pq_lm_sync_end, since |-> now]]
      /\ pc' = [pc EXCEPT ![d] = "read"]
      /\ UNCHANGED <<now, headVars, batch_in, msg_sig, bitVars,
                     ctm_pacing_queue, lm_pacing_queue, flows_prev_dep_time,
                     outVars, halted, reserved, histVars>>
  BY DEF SyncReserve
<1>8. sync' \in [Dequeuers -> [ctm : CtmSlots, lm : LmSlots, since : Nat]]
      /\ \A e \in Dequeuers : sync'[e].ctm % SyncChunk = 0
  BY <1>2, <1>7 DEF TInv, TypeOK, Aligned
<1> QED
  BY <1>1, <1>4, <1>5, <1>6, <1>7, <1>8
  DEF TInv, TypeOK, Aligned, headVars, bitVars, outVars, histVars

LEMMA SyncPlaceType ==
  ASSUME TInv, NEW d \in Dequeuers, SyncPlace(d)
  PROVE  TInv'
<1>1. d \in Contexts
  BY DEF Contexts
<1>2. sync[d] \in [ctm : CtmSlots, lm : LmSlots, since : Nat]
      /\ batch_in[d] \in [Offsets -> Nat]
      /\ lm_pacing_queue \in [LmSlots -> Nat]
  BY DEF TInv, TypeOK
<1>3. lm_pacing_queue' \in [LmSlots -> Nat]
  <2>1. lm_pacing_queue' =
          [i \in LmSlots |->
             IF i - sync[d].lm \in Offsets /\ ~KeepLm(i)
             THEN batch_in[d][i - sync[d].lm] ELSE lm_pacing_queue[i]]
    BY DEF SyncPlace
  <2> QED BY <1>2, <2>1
<1>4. NoSync \in [ctm : CtmSlots, lm : LmSlots, since : Nat]
      /\ NoSync.ctm % SyncChunk = 0 /\ NoBatch \in [Offsets -> Nat]
  BY Sizes DEF NoSync, NoBatch, CtmSlots, LmSlots
<1>5. sync' = [sync EXCEPT ![d] = NoSync]
      /\ batch_in' = [batch_in EXCEPT ![d] = NoBatch]
      /\ msg_sig' = [msg_sig EXCEPT ![d] = {}]
      /\ pc' = [pc EXCEPT ![d] = LoopOrSwap(pq_head_time)]
      /\ UNCHANGED <<now, headVars, pq_ctm_sync_end, pq_lm_sync_end,
                     pq_lm_dequeue_cnt, bitVars, ctm_pacing_queue,
                     flows_prev_dep_time, outVars, halted, reserved, histVars>>
  BY DEF SyncPlace
<1>6. pc' \in [Contexts -> {"notify", "ctm_wait", "loop", "read", "wait_reg"}]
  BY <1>1, <1>5 DEF LoopOrSwap, TInv, TypeOK
<1>7. \A e \in Dequeuers : sync'[e].ctm % SyncChunk = 0
  BY <1>4, <1>5 DEF TInv, TypeOK, Aligned
<1> QED
  BY <1>3, <1>4, <1>5, <1>6, <1>7
  DEF TInv, TypeOK, Aligned, headVars, bitVars, outVars, histVars

LEMMA StartDequeueType ==
  ASSUME TInv, NEW d \in Dequeuers, StartDequeue(d) \/ LeaveDequeue(d)
  PROVE  TInv'
<1>1. d \in Contexts
  BY DEF Contexts
<1>2. /\ \/ pc' = [pc EXCEPT ![d] = LoopOrSwap(pq_head_time)]
         \/ pc' = [pc EXCEPT ![d] = "loop"]
      /\ UNCHANGED <<now, headVars, syncVars, pq_lm_dequeue_cnt, bitVars,
                     ctm_pacing_queue, lm_pacing_queue, flows_prev_dep_time,
                     outVars, halted, reserved, histVars>>
  BY DEF StartDequeue, LeaveDequeue
<1>3. pc' \in [Contexts -> {"notify", "ctm_wait", "loop", "read", "wait_reg"}]
  BY <1>1, <1>2 DEF LoopOrSwap, TInv, TypeOK
<1> QED
  BY <1>2, <1>3
  DEF TInv, TypeOK, Aligned, headVars, syncVars, bitVars, outVars, histVars

(* Moving the heads keeps their types.                                     *)
LEMMA AdvanceHeadType ==
  ASSUME TInv, NEW d \in Dequeuers, AdvanceHead(d)
  PROVE  /\ pq_ctm_head' \in CtmSlots /\ pq_lm_head' \in LmSlots
         /\ pq_head_time' \in Nat /\ pq_lm_dequeue_cnt' \in Nat
         /\ busy' \in Nat
         /\ pc' \in [Contexts -> {"notify", "ctm_wait", "loop", "read", "wait_reg"}]
         /\ UNCHANGED <<now, syncVars, ctm_pacing_queue, lm_pacing_queue,
                        flows_prev_dep_time, writes, halted, reserved, pkts>>
<1>1. d \in Contexts
  BY DEF Contexts
<1>2. /\ pq_ctm_head \in CtmSlots /\ pq_lm_head \in LmSlots
      /\ pq_head_time \in Nat /\ pq_lm_dequeue_cnt \in Nat /\ busy \in Nat
      /\ pc \in [Contexts -> {"notify", "ctm_wait", "loop", "read", "wait_reg"}]
  BY DEF TInv, TypeOK
<1>3. pq_ctm_head' \in CtmSlots /\ pq_lm_head' \in LmSlots
  BY <1>2, Sizes DEF AdvanceHead, Wrap, CtmSlots, LmSlots
<1>4. pq_head_time' \in Nat /\ pq_lm_dequeue_cnt' \in Nat /\ busy' \in Nat
  BY <1>2, Sizes DEF AdvanceHead
<1> QED
  BY <1>1, <1>2, <1>3, <1>4 DEF AdvanceHead, LoopOrSwap

LEMMA DequeuePacketType ==
  ASSUME TInv, NEW d \in Dequeuers, DequeuePacket(d)
  PROVE  TInv'
<1>1. d \in Contexts
  BY DEF Contexts
<1>2. /\ next_batch_out[d] \in Regs
      /\ lm_pacing_queue[pq_lm_head] \in Nat
  BY <1>1 DEF TInv, TypeOK
<1>3. Wrap(next_batch_out[d] + 1, OutRegs) \in Regs
  BY <1>2, Sizes DEF Regs, Wrap
<1>4. /\ wire' = Append(wire, lm_pacing_queue[pq_lm_head])
      /\ wq_sig' = [wq_sig EXCEPT ![d] = @ \ {next_batch_out[d]}]
      /\ adds' = adds \cup {[ctx |-> d, reg |-> next_batch_out[d],
                              pkt |-> lm_pacing_queue[pq_lm_head]]}
      /\ next_batch_out' = [next_batch_out EXCEPT ![d] = Wrap(@ + 1, OutRegs)]
      /\ bitmasks' = bitmasks \ {pq_ctm_head}
      /\ lm_bitmasks' = lm_bitmasks \ {pq_lm_head}
      /\ book' = [book EXCEPT ![pq_ctm_head] = 0]
      /\ AdvanceHead(d)
  BY DEF DequeuePacket
<1>5. /\ wire' \in Seq(Nat)
      /\ adds' \subseteq [ctx : Dequeuers, reg : Regs, pkt : Nat]
  BY <1>2, <1>4 DEF TInv, TypeOK
<1>6. /\ next_batch_out' \in [Contexts -> Regs]
      /\ wq_sig' \in [Contexts -> SUBSET Regs]
      /\ book' \in [CtmSlots -> Nat]
      /\ bitmasks' \subseteq CtmSlots /\ lm_bitmasks' \subseteq LmSlots
  BY <1>1, <1>3, <1>4 DEF TInv, TypeOK
<1>7. /\ pq_ctm_head' \in CtmSlots /\ pq_lm_head' \in LmSlots
      /\ pq_head_time' \in Nat /\ pq_lm_dequeue_cnt' \in Nat
      /\ busy' \in Nat
      /\ pc' \in [Contexts -> {"notify", "ctm_wait", "loop", "read", "wait_reg"}]
      /\ UNCHANGED <<now, syncVars, ctm_pacing_queue, lm_pacing_queue,
                     flows_prev_dep_time, writes, halted, reserved, pkts>>
  BY <1>4, AdvanceHeadType
<1> QED
  BY <1>5, <1>6, <1>7 DEF TInv, TypeOK, Aligned, syncVars

LEMMA PassEmptySlotType ==
  ASSUME TInv, NEW d \in Dequeuers, PassEmptySlot(d)
  PROVE  TInv'
<1>1. AdvanceHead(d)
      /\ UNCHANGED <<bitVars, next_batch_out, wq_sig, adds, book, wire>>
  BY DEF PassEmptySlot
<1>2. /\ pq_ctm_head' \in CtmSlots /\ pq_lm_head' \in LmSlots
      /\ pq_head_time' \in Nat /\ pq_lm_dequeue_cnt' \in Nat
      /\ busy' \in Nat
      /\ pc' \in [Contexts -> {"notify", "ctm_wait", "loop", "read", "wait_reg"}]
      /\ UNCHANGED <<now, syncVars, ctm_pacing_queue, lm_pacing_queue,
                     flows_prev_dep_time, writes, halted, reserved, pkts>>
  BY <1>1, AdvanceHeadType
<1> QED
  BY <1>1, <1>2 DEF TInv, TypeOK, Aligned, syncVars, bitVars

LEMMA MemoryType ==
  ASSUME TInv, Memory
  PROVE  TInv'
<1>1. ASSUME NEW w \in writes, CtmWriteDone(w)
      PROVE  TInv'
  <2>1. w \in [ctx : Notifiers, reg : Regs, slot : CtmSlots, pkt : Nat, since : Nat]
    BY DEF TInv, TypeOK
  <2>2. w.ctx \in Contexts /\ w.reg \in Regs /\ w.slot \in CtmSlots /\ w.pkt \in Nat
    BY <2>1 DEF Contexts
  <2>3. /\ ctm_pacing_queue' \in [CtmSlots -> Nat]
        /\ wq_sig' \in [Contexts -> SUBSET Regs]
    BY <1>1, <2>2 DEF CtmWriteDone, TInv, TypeOK
  <2> QED
    BY <1>1, <2>3
    DEF CtmWriteDone, TInv, TypeOK, Aligned, headVars, syncVars, bitVars, histVars
<1>2. ASSUME NEW a \in adds, WorkqAddDone(a)
      PROVE  TInv'
  <2>1. a \in [ctx : Dequeuers, reg : Regs, pkt : Nat]
    BY DEF TInv, TypeOK
  <2>2. a.ctx \in Contexts /\ a.reg \in Regs
    BY <2>1 DEF Contexts
  <2>3. wq_sig' \in [Contexts -> SUBSET Regs]
    BY <1>2, <2>2 DEF WorkqAddDone, TInv, TypeOK
  <2> QED
    BY <1>2, <2>3
    DEF WorkqAddDone, TInv, TypeOK, Aligned, headVars, syncVars, bitVars, histVars
<1>3. ASSUME NEW d \in Dequeuers, NEW h \in {0, 1}, CtmReadDone(d, h)
      PROVE  TInv'
  <2>1. /\ sync[d] \in [ctm : CtmSlots, lm : LmSlots, since : Nat]
        /\ sync[d].ctm % SyncChunk = 0
        /\ batch_in[d] \in [Offsets -> Nat]
        /\ ctm_pacing_queue \in [CtmSlots -> Nat]
    BY DEF TInv, TypeOK, Aligned
  <2>2. sync[d].ctm \in Nat /\ sync[d].ctm < CtmLength
    BY <2>1, Sizes DEF CtmSlots
  <2>3. sync[d].ctm + SyncChunk <= CtmLength
    <3>1. CtmLength % SyncChunk = 0
      BY ChunkAssumption
    <3> QED BY <2>1, <2>2, <3>1, ChunkFits, Sizes
  <2>4. \A o \in Offsets : sync[d].ctm + o \in CtmSlots
    BY <2>2, <2>3, Sizes DEF Offsets, CtmSlots
  <2>5. batch_in' \in [Dequeuers -> [Offsets -> Nat]]
    <3> DEFINE new == [o \in Offsets |->
                         IF o \in ReadOffsets(h)
                         THEN ctm_pacing_queue[sync[d].ctm + o] ELSE batch_in[d][o]]
    <3>1. new \in [Offsets -> Nat]
      BY <2>1, <2>4
    <3>2. batch_in' = [batch_in EXCEPT ![d] = new]
      BY <1>3 DEF CtmReadDone
    <3> HIDE DEF new
    <3> QED BY <3>1, <3>2 DEF TInv, TypeOK
  <2>6. msg_sig' \in [Dequeuers -> SUBSET {0, 1}]
    BY <1>3 DEF CtmReadDone, TInv, TypeOK
  <2> QED
    BY <1>3, <2>5, <2>6
    DEF CtmReadDone, TInv, TypeOK, Aligned, headVars, bitVars, outVars, histVars
<1> QED BY <1>1, <1>2, <1>3 DEF Memory

LEMMA TickType ==
  ASSUME TInv, Tick
  PROVE  TInv'
<1>1. /\ now' \in Nat
      /\ UNCHANGED <<headVars, syncVars, pq_lm_dequeue_cnt, bitVars,
                     ctm_pacing_queue, lm_pacing_queue, flows_prev_dep_time,
                     outVars, halted, pc, reserved, histVars>>
  BY DEF Tick, TInv, TypeOK
<1> QED
  BY <1>1
  DEF TInv, TypeOK, Aligned, headVars, syncVars, bitVars, outVars, histVars

(* Every step of the pacing queue keeps the inductive type invariant.      *)
LEMMA NextTInv == TInv /\ [Next]_vars => TInv'
<1> SUFFICES ASSUME TInv, [Next]_vars PROVE TInv'
  OBVIOUS
<1>1. ASSUME NEW n \in Notifiers, Enqueue(n)
      PROVE  TInv'
  <2>1. PICK r \in Requests : \/ EnqueueLm(n, r[1], r[2])
                              \/ EnqueueCtm(n, r[1], r[2])
                              \/ EnqueueHalt(n, r[1], r[2])
    BY <1>1 DEF Enqueue
  <2>2. r[1] \in Flows /\ r[2] \in Nat
    BY ContextAssumption DEF Flows
  <2> QED
    BY <2>1, <2>2, EnqueueLmType, EnqueueCtmType, EnqueueHaltType
<1>2. ASSUME NEW d \in Dequeuers, sync_dequeue_loop(d)
      PROVE  TInv'
  BY <1>2, SyncReserveType, SyncPlaceType, StartDequeueType,
     DequeuePacketType, PassEmptySlotType DEF sync_dequeue_loop
<1>3. CASE UNCHANGED vars
  BY <1>3 DEF vars, TInv, TypeOK, Aligned, headVars, syncVars, bitVars,
              outVars, histVars
<1> QED
  BY <1>1, <1>2, <1>3, SendPacketToCtmType, MemoryType, TickType DEF Next

(* Every variable keeps its type: no head, sync end or register number     *)
(* leaves its ring, and the backlog counter never goes below zero.         *)
THEOREM TypeCorrect == Spec => []TypeOK
<1>1. TInv => TypeOK
  BY DEF TInv
<1> QED BY InitTInv, NextTInv, <1>1, PTL DEF Spec

----------------------------------------------------------------------------
(* The bookings.                                                           *)

(* BookingsExact, and what its preservation rests on: a slot names a       *)
(* packet that was accepted, and a packet's slot ends after its departure  *)
(* time.                                                                   *)
BInv ==
  /\ TInv
  /\ BookingsExact
  /\ \A s \in CtmSlots : book[s] <= Len(pkts)
  /\ \A p \in 1 .. Len(pkts) : pkts[p].dep < pkts[p].due

bookVars == <<pq_head_time, pq_ctm_head, bitmasks, book, pkts, wire>>

LEMMA MulSucc ==
  ASSUME NEW a \in Int, NEW c \in Nat
  PROVE  (a + 1) * c = a * c + c
OBVIOUS

(* Every slot but the head's comes one nearer when the head moves.         *)
LEMMA AheadMoves ==
  ASSUME NEW h \in CtmSlots, NEW s \in CtmSlots
  PROVE  /\ PQ_CTM_RING_DIFF(s, h) \in Nat
         /\ PQ_CTM_RING_DIFF(s, h) = 0 <=> s = h
         /\ s # h => PQ_CTM_RING_DIFF(s, Wrap(h + 1, CtmLength))
                      = PQ_CTM_RING_DIFF(s, h) - 1
BY Sizes DEF CtmSlots, Wrap, PQ_CTM_RING_DIFF

LEMMA BitmasksFinite ==
  ASSUME bitmasks \subseteq CtmSlots
  PROVE  IsFiniteSet(bitmasks) /\ Cardinality(bitmasks) \in Nat
<1>1. IsFiniteSet(CtmSlots)
  BY FS_Interval, Sizes DEF CtmSlots
<1> QED BY <1>1, FS_Subset, FS_CardinalityType

LEMMA InitBInv == Init => BInv
<1> SUFFICES ASSUME Init PROVE BInv
  OBVIOUS
<1>1. Cardinality(bitmasks) = 0 /\ Len(wire) = 0 /\ Len(pkts) = 0
  BY FS_EmptySet DEF Init
<1>2. BookingsExact
  BY <1>1 DEF Init, BookingsExact
<1> QED BY <1>1, <1>2, InitTInv DEF BInv, Init

LEMMA BookFrame ==
  ASSUME BInv, TInv', UNCHANGED bookVars
  PROVE  BInv'
BY DEF BInv, BookingsExact, bookVars, Ahead

(* Accepting a packet books one free slot for it, whose distance from the  *)
(* head is the one its due time was computed from.                         *)
LEMMA ReserveBInv ==
  ASSUME BInv, TInv', NEW flow \in Flows, NEW dep \in Nat,
         NEW slots \in 0 .. ThreshSlots,
         FreeOffsets(DesiredIndex(slots)) # {},
         dep < pq_head_time + (slots + 1) * SlotTicks,
         Reserve(flow, dep, Booking(slots))
  PROVE  BInv'
<1> DEFINE b == Booking(slots)
           due == pq_head_time + (b.delta + 1) * SlotTicks
           new == [flow |-> flow, dep |-> dep, due |-> due]
           n == Len(pkts) + 1
<1>1. /\ b.index \in CtmSlots /\ b.index \notin bitmasks
      /\ b.delta \in Nat /\ b.delta >= slots
      /\ b.delta = Ahead(b.index)
  BY BookingFacts DEF BInv, TInv
<1>2. /\ bitmasks' = bitmasks \cup {b.index}
      /\ book' = [book EXCEPT ![b.index] = n]
      /\ pkts' = Append(pkts, new)
      /\ UNCHANGED <<pq_head_time, pq_ctm_head, wire>>
  BY DEF Reserve, headVars
<1> HIDE DEF b
<1>3. /\ pq_head_time \in Nat /\ book \in [CtmSlots -> Nat]
      /\ bitmasks \subseteq CtmSlots
      /\ pkts \in Seq([flow : Flows, dep : Nat, due : Nat])
      /\ wire \in Seq(Nat)
  BY DEF BInv, TInv, TypeOK
<1>4. due \in Int /\ dep < due
  <2>1. (slots + 1) * SlotTicks <= (b.delta + 1) * SlotTicks
    BY <1>1, MulMono, Sizes
  <2>2. (b.delta + 1) * SlotTicks \in Int /\ (slots + 1) * SlotTicks \in Int
    BY <1>1, Sizes
  <2> QED BY <1>3, <2>1, <2>2
<1> HIDE DEF due
<1>5. /\ Len(pkts) \in Nat /\ Len(pkts') = n
      /\ \A p \in 1 .. Len(pkts) : pkts'[p] = pkts[p]
      /\ pkts'[n] = new
  BY <1>2, <1>3
<1>6. /\ book'[b.index] = n
      /\ \A s \in CtmSlots : s # b.index => book'[s] = book[s]
  BY <1>1, <1>2, <1>3
<1>7. /\ \A s \in CtmSlots : (s \in bitmasks) <=> (book[s] # 0)
      /\ \A s \in bitmasks :
           pkts[book[s]].due = pq_head_time + (Ahead(s) + 1) * SlotTicks
      /\ \A s, t \in bitmasks : book[s] = book[t] => s = t
      /\ Len(wire) + Cardinality(bitmasks) = Len(pkts)
      /\ \A s \in CtmSlots : book[s] <= Len(pkts)
      /\ \A p \in 1 .. Len(pkts) : pkts[p].dep < pkts[p].due
  BY DEF BInv, BookingsExact
<1>8. \A s \in bitmasks : book[s] \in 1 .. Len(pkts)
  BY <1>3, <1>5, <1>7
<1>9. \A s \in CtmSlots : Ahead(s)' = Ahead(s)
  BY <1>2 DEF Ahead
<1>10. \A s \in CtmSlots : (s \in bitmasks') <=> (book'[s] # 0)
  BY <1>1, <1>2, <1>5, <1>6, <1>7
<1>11. ASSUME NEW s \in bitmasks'
       PROVE  pkts'[book'[s]].due = pq_head_time' + (Ahead(s)' + 1) * SlotTicks
  <2>1. CASE s = b.index
    BY <1>1, <1>2, <1>5, <1>6, <1>9, <2>1 DEF due
  <2>2. CASE s # b.index
    <3>1. s \in bitmasks /\ s \in CtmSlots
      BY <1>2, <1>3, <2>2
    <3>2. book'[s] = book[s] /\ pkts'[book[s]] = pkts[book[s]]
      BY <1>5, <1>6, <1>8, <2>2, <3>1
    <3> QED BY <1>2, <1>7, <1>9, <3>1, <3>2
  <2> QED BY <2>1, <2>2
<1>12. \A s, t \in bitmasks' : book'[s] = book'[t] => s = t
  BY SMTT(30), <1>2, <1>3, <1>5, <1>6, <1>7, <1>8
<1>13. Len(wire') + Cardinality(bitmasks') = Len(pkts')
  <2>1. IsFiniteSet(bitmasks) /\ Cardinality(bitmasks) \in Nat
    BY <1>3, BitmasksFinite
  <2>2. Cardinality(bitmasks') = Cardinality(bitmasks) + 1
    BY <1>1, <1>2, <2>1, FS_AddElement
  <2>3. Len(wire') = Len(wire) /\ Len(wire) \in Nat
    BY <1>2, <1>3
  <2>4. Len(pkts') = Len(pkts) + 1 /\ Len(pkts) \in Nat
    BY <1>5
  <2>5. Len(wire) + Cardinality(bitmasks) = Len(pkts)
    BY <1>7
  <2> QED BY <2>1, <2>2, <2>3, <2>4, <2>5
<1>14. ASSUME NEW s \in CtmSlots PROVE book'[s] <= Len(pkts')
  <2>1. Len(pkts) \in Nat /\ Len(pkts') = Len(pkts) + 1
    BY <1>5
  <2>2. CASE s = b.index
    BY <1>6, <2>1, <2>2
  <2>3. CASE s # b.index
    <3>1. book'[s] = book[s] /\ book[s] \in Nat /\ book[s] <= Len(pkts)
      BY <1>3, <1>6, <1>7, <2>3
    <3> QED BY <2>1, <3>1
  <2> QED BY <2>2, <2>3
<1>15. \A p \in 1 .. Len(pkts') : pkts'[p].dep < pkts'[p].due
  <2>1. new.dep < new.due
    BY <1>4
  <2> QED BY <1>5, <1>7, <2>1
<1> QED
  BY <1>10, <1>11, <1>12, <1>13, <1>14, <1>15 DEF BInv, BookingsExact

(* Moving the head past the slot it points to.                             *)
LEMMA AdvanceBInv ==
  ASSUME BInv, TInv',
         pq_ctm_head' = Wrap(pq_ctm_head + 1, CtmLength),
         pq_head_time' = pq_head_time + SlotTicks,
         pkts' = pkts,
         bitmasks' = bitmasks \ {pq_ctm_head},
         book' = [book EXCEPT ![pq_ctm_head] = 0],
         Len(wire') = Len(wire) + (IF pq_ctm_head \in bitmasks THEN 1 ELSE 0)
  PROVE  BInv'
<1>1. /\ pq_head_time \in Nat /\ book \in [CtmSlots -> Nat]
      /\ bitmasks \subseteq CtmSlots
      /\ pkts \in Seq([flow : Flows, dep : Nat, due : Nat])
      /\ wire \in Seq(Nat) /\ pq_ctm_head \in CtmSlots
  BY DEF BInv, TInv, TypeOK
<1>2. /\ \A s \in CtmSlots : (s \in bitmasks) <=> (book[s] # 0)
      /\ \A s \in bitmasks :
           pkts[book[s]].due = pq_head_time + (Ahead(s) + 1) * SlotTicks
      /\ \A s, t \in bitmasks : book[s] = book[t] => s = t
      /\ Len(wire) + Cardinality(bitmasks) = Len(pkts)
      /\ \A s \in CtmSlots : book[s] <= Len(pkts)
      /\ \A p \in 1 .. Len(pkts) : pkts[p].dep < pkts[p].due
  BY DEF BInv, BookingsExact
<1>3. /\ book'[pq_ctm_head] = 0
      /\ \A s \in CtmSlots : s # pq_ctm_head => book'[s] = book[s]
  BY <1>1
<1>4. \A s \in CtmSlots : (s \in bitmasks') <=> (book'[s] # 0)
  BY <1>1, <1>2, <1>3
<1>5. ASSUME NEW s \in bitmasks'
      PROVE  pkts'[book'[s]].due = pq_head_time' + (Ahead(s)' + 1) * SlotTicks
  <2>1. s \in bitmasks /\ s \in CtmSlots /\ s # pq_ctm_head
    BY <1>1
  <2>2. Ahead(s) \in Nat /\ Ahead(s)' = Ahead(s) - 1
    BY <1>1, <2>1, AheadMoves DEF Ahead
  <2>3. (Ahead(s) + 1) * SlotTicks = Ahead(s) * SlotTicks + SlotTicks
        /\ Ahead(s) * SlotTicks \in Int
    BY <2>2, MulSucc, Sizes
  <2>4. pkts[book[s]].due = pq_head_time + Ahead(s) * SlotTicks + SlotTicks
    <3>1. pkts[book[s]].due = pq_head_time + (Ahead(s) + 1) * SlotTicks
      BY <1>2, <2>1
    <3> HIDE DEF Ahead
    <3> QED BY <1>1, <2>3, <3>1, Sizes
  <2>5. (Ahead(s)' + 1) * SlotTicks = Ahead(s) * SlotTicks
    BY <2>2
  <2> QED BY <1>1, <1>3, <2>1, <2>3, <2>4, <2>5, Sizes
<1>6. \A s, t \in bitmasks' : book'[s] = book'[t] => s = t
  BY <1>1, <1>2, <1>3
<1>7. Len(wire') + Cardinality(bitmasks') = Len(pkts')
  <2>1. IsFiniteSet(bitmasks) /\ Cardinality(bitmasks) \in Nat
    BY <1>1, BitmasksFinite
  <2>2. Cardinality(bitmasks') =
          IF pq_ctm_head \in bitmasks THEN Cardinality(bitmasks) - 1
                                      ELSE Cardinality(bitmasks)
    BY <2>1, FS_RemoveElement
  <2>3. Len(wire) \in Nat /\ Len(pkts) \in Nat
    BY <1>1
  <2> QED BY <1>2, <2>1, <2>2, <2>3
<1>8. \A s \in CtmSlots : book'[s] <= Len(pkts')
  BY <1>1, <1>2, <1>3
<1> QED
  BY <1>2, <1>4, <1>5, <1>6, <1>7, <1>8 DEF BInv, BookingsExact

LEMMA DequeueBInv ==
  ASSUME BInv, TInv', NEW d \in Dequeuers, DequeuePacket(d) \/ PassEmptySlot(d)
  PROVE  BInv'
<1>1. /\ pq_ctm_head' = Wrap(pq_ctm_head + 1, CtmLength)
      /\ pq_head_time' = pq_head_time + SlotTicks
      /\ pkts' = pkts
  BY DEF DequeuePacket, PassEmptySlot, AdvanceHead
<1>2. /\ book \in [CtmSlots -> Nat] /\ pq_ctm_head \in CtmSlots
      /\ wire \in Seq(Nat) /\ lm_pacing_queue[pq_lm_head] \in Nat
  BY DEF BInv, TInv, TypeOK
<1>3. CASE DequeuePacket(d)
  <2>1. /\ pq_ctm_head \in bitmasks
        /\ bitmasks' = bitmasks \ {pq_ctm_head}
        /\ book' = [book EXCEPT ![pq_ctm_head] = 0]
        /\ wire' = Append(wire, lm_pacing_queue[pq_lm_head])
    BY <1>3 DEF DequeuePacket
  <2>2. Len(wire') = Len(wire) + 1
    BY <1>2, <2>1
  <2> QED BY <1>1, <2>1, <2>2, AdvanceBInv
<1>4. CASE PassEmptySlot(d)
  <2>1. /\ pq_ctm_head \notin bitmasks
        /\ UNCHANGED <<bitmasks, book, wire>>
    BY <1>4 DEF PassEmptySlot, bitVars
  <2>2. book[pq_ctm_head] = 0
    BY <1>2, <2>1 DEF BInv, BookingsExact
  <2>3. bitmasks' = bitmasks \ {pq_ctm_head}
    BY <2>1
  <2>4. book' = [book EXCEPT ![pq_ctm_head] = 0]
    BY <1>2, <2>1, <2>2
  <2>5. Len(wire') = Len(wire) + (IF pq_ctm_head \in bitmasks THEN 1 ELSE 0)
    BY <1>2, <2>1
  <2> QED BY <1>1, <2>3, <2>4, <2>5, AdvanceBInv
<1> QED BY <1>3, <1>4

LEMMA NextBInv == BInv /\ [Next]_vars => BInv'
<1> SUFFICES ASSUME BInv, [Next]_vars PROVE BInv'
  OBVIOUS
<1>1. TInv'
  BY NextTInv DEF BInv
<1>2. ASSUME NEW n \in Notifiers, Enqueue(n)
      PROVE  BInv'
  <2>1. PICK r \in Requests : \/ EnqueueLm(n, r[1], r[2])
                              \/ EnqueueCtm(n, r[1], r[2])
                              \/ EnqueueHalt(n, r[1], r[2])
    BY <1>2 DEF Enqueue
  <2>2. r[1] \in Flows /\ r[2] \in Nat
    BY ContextAssumption DEF Flows
  <2> DEFINE d == Departure(r[1], r[2])
  <2>3. /\ d.dep \in Nat /\ d.slots \in 0 .. ThreshSlots
        /\ d.dep < pq_head_time + (d.slots + 1) * SlotTicks
    BY <2>2, DepartureFacts DEF BInv, TInv
  <2>4. CASE EnqueueLm(n, r[1], r[2]) \/ EnqueueCtm(n, r[1], r[2])
    <3>1. /\ FreeOffsets(DesiredIndex(d.slots)) # {}
          /\ Reserve(r[1], d.dep, Booking(d.slots))
      BY <2>4 DEF EnqueueLm, EnqueueCtm
    <3> HIDE DEF d
    <3> QED BY <1>1, <2>2, <2>3, <3>1, ReserveBInv
  <2>5. CASE EnqueueHalt(n, r[1], r[2])
    BY <1>1, <2>5, BookFrame DEF EnqueueHalt, bookVars, headVars, bitVars, histVars
  <2> QED BY <2>1, <2>4, <2>5
<1>3. ASSUME NEW n \in Notifiers, SendPacketToCtm(n)
      PROVE  BInv'
  BY <1>1, <1>3, BookFrame
  DEF SendPacketToCtm, bookVars, headVars, bitVars, histVars
<1>4. ASSUME NEW d \in Dequeuers, sync_dequeue_loop(d)
      PROVE  BInv'
  <2>1. CASE SyncReserve(d) \/ SyncPlace(d) \/ StartDequeue(d) \/ LeaveDequeue(d)
    BY <1>1, <2>1, BookFrame
    DEF SyncReserve, SyncPlace, StartDequeue, LeaveDequeue, bookVars,
        headVars, bitVars, histVars
  <2> QED BY <1>1, <1>4, <2>1, DequeueBInv DEF sync_dequeue_loop
<1>5. CASE Memory \/ Tick
  BY <1>1, <1>5, BookFrame
  DEF Memory, CtmWriteDone, WorkqAddDone, CtmReadDone, Tick, bookVars,
      headVars, bitVars, histVars
<1>6. CASE UNCHANGED vars
  BY <1>1, <1>6, BookFrame DEF vars, bookVars, headVars, bitVars, histVars
<1> QED
  BY <1>2, <1>3, <1>4, <1>5, <1>6 DEF Next

(* No slot is ever booked twice and no accepted packet is lost before it   *)
(* leaves, whatever the contexts, the memories and the clock do.           *)
THEOREM BookingsAreExact == Spec => []BookingsExact
<1>1. BInv => BookingsExact
  BY DEF BInv
<1> QED BY InitBInv, NextBInv, <1>1, PTL DEF Spec

(* A packet is never given to the work queue before its departure time.    *)
THEOREM NeverEarly == Spec => NoEarlyDeparture
<1> DEFINE OnTime == \A s \in CtmSlots :
                       book[s] # 0 /\ book'[s] = 0 => pkts[book[s]].dep <= now
<1>1. BInv /\ [Next]_vars => [OnTime]_vars
  <2> SUFFICES ASSUME BInv, Next, NEW s \in CtmSlots, book[s] # 0, book'[s] = 0
               PROVE  pkts[book[s]].dep <= now
    OBVIOUS
  <2>1. /\ book \in [CtmSlots -> Nat] /\ pq_ctm_head \in CtmSlots
        /\ pq_head_time \in Nat /\ now \in Nat
        /\ pkts \in Seq([flow : Flows, dep : Nat, due : Nat])
    BY DEF BInv, TInv, TypeOK
  <2>2. \E d \in Dequeuers : DequeuePacket(d)
    <3>1. book' # book
      OBVIOUS
    <3>2. ASSUME NEW n \in Notifiers, Enqueue(n)
          PROVE  FALSE
      <4>1. PICK r \in Requests : \/ EnqueueLm(n, r[1], r[2])
                                  \/ EnqueueCtm(n, r[1], r[2])
        BY <3>1, <3>2 DEF Enqueue, EnqueueHalt, histVars
      <4> DEFINE d == Departure(r[1], r[2])
                 i == Booking(d.slots).index
      <4>2. book' = [book EXCEPT ![i] = Len(pkts) + 1]
        BY <4>1 DEF EnqueueLm, EnqueueCtm, Reserve
      <4>3. Len(pkts) \in Nat
        BY <2>1
      <4> HIDE DEF i
      <4> QED BY <2>1, <4>2, <4>3
    <3>3. ASSUME NEW n \in Notifiers, SendPacketToCtm(n)
          PROVE  FALSE
      BY <3>1, <3>3 DEF SendPacketToCtm, histVars
    <3>4. ASSUME NEW d \in Dequeuers, sync_dequeue_loop(d)
          PROVE  DequeuePacket(d)
      BY <3>1, <3>4
      DEF sync_dequeue_loop, SyncReserve, SyncPlace, StartDequeue, LeaveDequeue,
          PassEmptySlot, histVars
    <3>5. CASE Memory \/ Tick
      BY <3>1, <3>5
      DEF Memory, CtmWriteDone, WorkqAddDone, CtmReadDone, Tick, histVars
    <3> QED BY <3>2, <3>3, <3>4, <3>5 DEF Next
  <2>3. s = pq_ctm_head /\ Due(pq_head_time)
    BY <2>1, <2>2 DEF DequeuePacket
  <2>4. Ahead(s) = 0
    BY <2>1, <2>3, AheadMoves DEF Ahead
  <2>5. /\ pkts[book[s]].due = pq_head_time + (Ahead(s) + 1) * SlotTicks
        /\ book[s] \in 1 .. Len(pkts)
        /\ pkts[book[s]].dep < pkts[book[s]].due
    BY <2>1 DEF BInv, BookingsExact
  <2>6. pkts[book[s]].due = pq_head_time + SlotTicks
    BY <2>4, <2>5, Sizes
  <2>7. pkts[book[s]].dep \in Nat
    <3>1. pkts \in Seq([flow : Flows, dep : Nat, due : Nat])
      BY <2>1
    <3>2. pkts[book[s]] \in [flow : Flows, dep : Nat, due : Nat]
      BY <2>5, <3>1, ElementOfSeq
    <3> QED BY <3>2
  <2>8. now >= pq_head_time + SlotTicks /\ now \in Nat
    BY <2>1, <2>3, Sizes DEF Due
  <2>9. pkts[book[s]].dep < pq_head_time + SlotTicks
    BY <2>5, <2>6
  <2>10. pq_head_time + SlotTicks \in Nat
    BY <2>1, Sizes
  <2> HIDE DEF Ahead
  <2> QED BY <2>7, <2>8, <2>9, <2>10
<1> QED BY InitBInv, NextBInv, <1>1, PTL DEF Spec, NoEarlyDeparture

----------------------------------------------------------------------------
(* Signals.                                                                *)

(* SignalsComeBack without counting: an operation under way holds its      *)
(* signal down, no two hold the same one, and none is down without one.    *)
Ops == writes \cup adds

SInv ==
  /\ TInv
  /\ \A o \in Ops : o.reg \notin wq_sig[o.ctx]
  /\ \A o, q \in Ops : o.ctx = q.ctx /\ o.reg = q.reg => o = q
  /\ \A c \in Contexts, r \in Regs :
       r \notin wq_sig[c] => \E o \in Ops : o.ctx = c /\ o.reg = r

LEMMA SInvMeans == SInv => SignalsComeBack
<1> SUFFICES ASSUME SInv, NEW c \in Contexts, NEW r \in Regs
             PROVE  Cardinality({o \in Ops : o.ctx = c /\ o.reg = r})
                      = (IF r \in wq_sig[c] THEN 0 ELSE 1)
  BY DEF SignalsComeBack, Ops
<1> DEFINE S == {o \in Ops : o.ctx = c /\ o.reg = r}
<1>1. CASE r \in wq_sig[c]
  <2>1. S = {}
    BY <1>1 DEF SInv
  <2> QED BY <1>1, <2>1, FS_EmptySet
<1>2. CASE r \notin wq_sig[c]
  <2>1. PICK o \in Ops : o.ctx = c /\ o.reg = r
    BY <1>2 DEF SInv
  <2>2. S = {o}
    BY <2>1 DEF SInv
  <2> QED BY <1>2, <2>2, FS_Singleton
<1> QED BY <1>1, <1>2

LEMMA InitSInv == Init => SInv
<1> SUFFICES ASSUME Init PROVE SInv
  OBVIOUS
<1> QED BY InitTInv DEF Init, SInv, Ops

LEMMA OpContexts == TypeOK => \A o \in Ops : o.ctx \in Contexts
<1> SUFFICES ASSUME TypeOK, NEW o \in Ops PROVE o.ctx \in Contexts
  OBVIOUS
<1>1. /\ writes \subseteq [ctx : Notifiers, reg : Regs, slot : CtmSlots,
                           pkt : Nat, since : Nat]
      /\ adds \subseteq [ctx : Dequeuers, reg : Regs, pkt : Nat]
  BY DEF TypeOK
<1>2. CASE o \in writes
  <2>1. o \in [ctx : Notifiers, reg : Regs, slot : CtmSlots, pkt : Nat, since : Nat]
    BY <1>1, <1>2
  <2> QED BY <2>1 DEF Contexts
<1>3. CASE o \in adds
  <2>1. o \in [ctx : Dequeuers, reg : Regs, pkt : Nat]
    BY <1>1, <1>3
  <2> QED BY <2>1 DEF Contexts
<1> QED BY <1>2, <1>3 DEF Ops

LEMMA SInvFrame ==
  ASSUME SInv, TInv', UNCHANGED <<wq_sig, writes, adds>>
  PROVE  SInv'
BY DEF SInv, Ops

(* Issuing an operation takes a signal that was raised.                    *)
LEMMA IssueSInv ==
  ASSUME SInv, TInv', NEW c \in Contexts, NEW op,
         op.ctx = c, op.reg \in wq_sig[c],
         wq_sig' = [wq_sig EXCEPT ![c] = @ \ {op.reg}],
         Ops' = Ops \cup {op}
  PROVE  SInv'
<1>1. wq_sig \in [Contexts -> SUBSET Regs]
  BY DEF SInv, TInv, TypeOK
<1>2. \A o \in Ops : ~(o.ctx = c /\ o.reg = op.reg)
  BY DEF SInv
<1>3. \A e \in Contexts : wq_sig'[e] = IF e = c THEN wq_sig[e] \ {op.reg} ELSE wq_sig[e]
  BY <1>1
<1>4. \A o \in Ops : o.ctx \in Contexts
  BY OpContexts DEF SInv, TInv
<1>5. \A o \in Ops' : o.reg \notin wq_sig'[o.ctx]
  BY <1>3, <1>4 DEF SInv
<1>6. \A o, q \in Ops' : o.ctx = q.ctx /\ o.reg = q.reg => o = q
  BY <1>2 DEF SInv
<1>7. ASSUME NEW e \in Contexts, NEW r \in Regs, r \notin wq_sig'[e]
      PROVE  \E o \in Ops' : o.ctx = e /\ o.reg = r
  <2>1. CASE e = c /\ r = op.reg
    BY <2>1
  <2>2. CASE ~(e = c /\ r = op.reg)
    BY <1>3, <1>7, <2>2 DEF SInv
  <2> QED BY <2>1, <2>2
<1> QED BY <1>5, <1>6, <1>7 DEF SInv

(* Its completion raises the signal again.                                 *)
LEMMA DoneSInv ==
  ASSUME SInv, TInv', NEW op \in Ops,
         wq_sig' = [wq_sig EXCEPT ![op.ctx] = @ \cup {op.reg}],
         Ops' = Ops \ {op}
  PROVE  SInv'
<1>1. wq_sig \in [Contexts -> SUBSET Regs]
  BY DEF SInv, TInv, TypeOK
<1>2. \A o \in Ops : o.ctx \in Contexts
  BY OpContexts DEF SInv, TInv
<1>3. \A e \in Contexts : wq_sig'[e] = IF e = op.ctx THEN wq_sig[e] \cup {op.reg}
                                                     ELSE wq_sig[e]
  BY <1>1
<1>4. \A o \in Ops' : o.reg \notin wq_sig'[o.ctx]
  BY <1>2, <1>3 DEF SInv
<1>5. \A o, q \in Ops' : o.ctx = q.ctx /\ o.reg = q.reg => o = q
  BY DEF SInv
<1>6. ASSUME NEW e \in Contexts, NEW r \in Regs, r \notin wq_sig'[e]
      PROVE  \E o \in Ops' : o.ctx = e /\ o.reg = r
  <2>1. r \notin wq_sig[e] /\ ~(e = op.ctx /\ r = op.reg)
    BY <1>3, <1>6
  <2> QED BY <2>1 DEF SInv
<1> QED BY <1>4, <1>5, <1>6 DEF SInv

LEMMA NextSInv == SInv /\ [Next]_vars => SInv'
<1> SUFFICES ASSUME SInv, [Next]_vars PROVE SInv'
  OBVIOUS
<1>1. TInv'
  BY NextTInv DEF SInv
<1>2. ASSUME NEW n \in Notifiers, Enqueue(n)
      PROVE  SInv'
  BY <1>1, <1>2, SInvFrame
  DEF Enqueue, EnqueueLm, EnqueueCtm, EnqueueHalt, Reserve, outVars
<1>3. ASSUME NEW n \in Notifiers, SendPacketToCtm(n)
      PROVE  SInv'
  <2> DEFINE op == [ctx |-> n, reg |-> next_batch_out[n], slot |-> reserved[n].slot,
                    pkt |-> reserved[n].pkt, since |-> reserved[n].since]
  <2>1. /\ op.ctx = n /\ op.reg = next_batch_out[n] /\ n \in Contexts
        /\ op.reg \in wq_sig[n]
        /\ wq_sig' = [wq_sig EXCEPT ![n] = @ \ {op.reg}]
        /\ writes' = writes \cup {op} /\ adds' = adds
    BY <1>3 DEF SendPacketToCtm, Contexts
  <2> HIDE DEF op
  <2>2. Ops' = Ops \cup {op}
    BY <2>1 DEF Ops
  <2> QED BY <1>1, <2>1, <2>2, IssueSInv
<1>4. ASSUME NEW d \in Dequeuers, sync_dequeue_loop(d)
      PROVE  SInv'
  <2>1. CASE SyncReserve(d) \/ SyncPlace(d) \/ StartDequeue(d) \/ LeaveDequeue(d)
             \/ PassEmptySlot(d)
    BY <1>1, <2>1, SInvFrame
    DEF SyncReserve, SyncPlace, StartDequeue, LeaveDequeue, PassEmptySlot,
        AdvanceHead, outVars
  <2>2. CASE DequeuePacket(d)
    <3> DEFINE op == [ctx |-> d, reg |-> next_batch_out[d],
                      pkt |-> lm_pacing_queue[pq_lm_head]]
    <3>1. /\ op.ctx = d /\ op.reg = next_batch_out[d] /\ d \in Contexts
          /\ op.reg \in wq_sig[d]
          /\ wq_sig' = [wq_sig EXCEPT ![d] = @ \ {op.reg}]
          /\ adds' = adds \cup {op} /\ writes' = writes
      BY <2>2 DEF DequeuePacket, RegFree, AdvanceHead, Contexts
    <3> HIDE DEF op
    <3>2. Ops' = Ops \cup {op}
      BY <3>1 DEF Ops
    <3> QED BY <1>1, <3>1, <3>2, IssueSInv
  <2> QED BY <1>4, <2>1, <2>2 DEF sync_dequeue_loop
<1>5. CASE Memory
  <2>1. \A o \in writes : o \notin adds
    BY ContextAssumption DEF SInv, TInv, TypeOK
  <2>2. ASSUME NEW w \in writes, CtmWriteDone(w)
        PROVE  SInv'
    <3>1. w \in Ops /\ Ops' = Ops \ {w}
      BY <2>1, <2>2 DEF Ops, CtmWriteDone
    <3> QED BY <1>1, <2>2, <3>1, DoneSInv DEF CtmWriteDone
  <2>3. ASSUME NEW a \in adds, WorkqAddDone(a)
        PROVE  SInv'
    <3>1. a \in Ops /\ Ops' = Ops \ {a}
      BY <2>1, <2>3 DEF Ops, WorkqAddDone
    <3> QED BY <1>1, <2>3, <3>1, DoneSInv DEF WorkqAddDone
  <2>4. ASSUME NEW d \in Dequeuers, NEW h \in {0, 1}, CtmReadDone(d, h)
        PROVE  SInv'
    BY <1>1, <2>4, SInvFrame DEF CtmReadDone, outVars
  <2> QED BY <1>5, <2>2, <2>3, <2>4 DEF Memory
<1>6. CASE Tick \/ UNCHANGED vars
  BY <1>1, <1>6, SInvFrame DEF Tick, vars, outVars
<1> QED BY <1>2, <1>3, <1>4, <1>5, <1>6 DEF Next

(* No context ever waits for a signal that no operation will raise, and    *)
(* none of its transfer registers is in use twice.                         *)
THEOREM SignalsAreRaised == Spec => []SignalsComeBack
BY InitSInv, NextSInv, SInvMeans, PTL DEF Spec

----------------------------------------------------------------------------
(* The bits that protect slots of LM.                                      *)

LmAhead(i) == IF i >= pq_lm_head THEN i - pq_lm_head ELSE i - pq_lm_head + LmLength

(* The CTM slot k slots behind the head.                                   *)
SlotAt(k) == Wrap(pq_ctm_head + k, CtmLength)

LmInv ==
  /\ BInv
  /\ \A i \in lm_bitmasks :
       /\ SlotAt(LmAhead(i)) \in bitmasks
       /\ lm_pacing_queue[i] = book[SlotAt(LmAhead(i))]

LEMMA LmInvMeans == LmInv => LmBitsSound
BY DEF LmInv, LmBitsSound, LmAhead, SlotAt

LEMMA LmAheadRange ==
  ASSUME TypeOK, NEW i \in LmSlots
  PROVE  /\ LmAhead(i) \in 0 .. LmLength - 1
         /\ LmAhead(i) = 0 <=> i = pq_lm_head
         /\ i = Wrap(pq_lm_head + LmAhead(i), LmLength)
BY Sizes DEF TypeOK, LmSlots, LmAhead, Wrap

LEMMA LmFrame ==
  ASSUME LmInv, BInv',
         UNCHANGED <<pq_ctm_head, pq_lm_head, bitmasks, lm_bitmasks, book>>,
         \A i \in lm_bitmasks : lm_pacing_queue'[i] = lm_pacing_queue[i]
  PROVE  LmInv'
BY DEF LmInv, LmAhead, SlotAt

(* A booking takes a slot no protected slot of LM stands for; when it is   *)
(* written to LM it goes to the slot that stands for it.                   *)
LEMMA ReserveLm ==
  ASSUME LmInv, BInv', NEW flow \in Flows, NEW slots \in 0 .. ThreshSlots,
         FreeOffsets(DesiredIndex(slots)) # {},
         NEW dep, Reserve(flow, dep, Booking(slots)),
         \/ UNCHANGED <<lm_pacing_queue, lm_bitmasks>>
         \/ LET b  == Booking(slots)
                lm == Wrap(pq_lm_head + b.delta, LmLength)
            IN  /\ b.delta < LmLength
                /\ lm_pacing_queue' = [lm_pacing_queue EXCEPT ![lm] = Len(pkts) + 1]
                /\ lm_bitmasks' = lm_bitmasks \cup {lm}
  PROVE  LmInv'
<1> DEFINE b  == Booking(slots)
           lm == Wrap(pq_lm_head + b.delta, LmLength)
<1>1. /\ b.index \in CtmSlots /\ b.index \notin bitmasks
      /\ b.delta \in Nat /\ b.index = SlotAt(b.delta)
  BY BookingFacts DEF LmInv, BInv, TInv, SlotAt
<1>2. /\ bitmasks' = bitmasks \cup {b.index}
      /\ book' = [book EXCEPT ![b.index] = Len(pkts) + 1]
      /\ UNCHANGED <<pq_ctm_head, pq_lm_head>>
  BY DEF Reserve, headVars
<1>3. TypeOK
  BY DEF LmInv, BInv, TInv
<1>4. ASSUME NEW i \in lm_bitmasks
      PROVE  /\ SlotAt(LmAhead(i))' \in bitmasks'
             /\ lm_pacing_queue[i] = book'[SlotAt(LmAhead(i))']
             /\ SlotAt(LmAhead(i)) # b.index
  <2>1. SlotAt(LmAhead(i))' = SlotAt(LmAhead(i))
    BY <1>2 DEF SlotAt, LmAhead
  <2>2. /\ SlotAt(LmAhead(i)) \in bitmasks
        /\ lm_pacing_queue[i] = book[SlotAt(LmAhead(i))]
    BY DEF LmInv
  <2> QED BY <1>1, <1>2, <1>3, <2>1, <2>2 DEF TypeOK
<1>5. CASE UNCHANGED <<lm_pacing_queue, lm_bitmasks>>
  BY <1>4, <1>5 DEF LmInv
<1>6. CASE /\ b.delta < LmLength
           /\ lm_pacing_queue' = [lm_pacing_queue EXCEPT ![lm] = Len(pkts) + 1]
           /\ lm_bitmasks' = lm_bitmasks \cup {lm}
  <2> HIDE DEF b
  <2>1. lm \in LmSlots /\ LmAhead(lm) = b.delta
    <3>1. pq_lm_head \in LmSlots
      BY <1>3 DEF TypeOK
    <3> QED BY SMTT(30), <1>1, <1>6, <3>1, Sizes DEF LmSlots, LmAhead, Wrap
  <2>2. PICK l : l = lm
    OBVIOUS
  <2> HIDE DEF lm
  <2>3. ASSUME NEW i \in lm_bitmasks
        PROVE  i # l /\ lm_pacing_queue'[i] = lm_pacing_queue[i]
    <3>1. i # l
      BY <1>1, <1>4, <2>1, <2>2
    <3> QED BY <1>3, <1>6, <2>1, <2>2, <3>1 DEF TypeOK
  <2>4. /\ SlotAt(LmAhead(l))' \in bitmasks'
        /\ lm_pacing_queue'[l] = book'[SlotAt(LmAhead(l))']
    <3>1. SlotAt(LmAhead(l))' = b.index
      <4>1. SlotAt(LmAhead(l))' = SlotAt(LmAhead(l))
        BY <1>2 DEF SlotAt, LmAhead
      <4> QED BY <1>1, <2>1, <2>2, <4>1
    <3> QED BY <1>1, <1>2, <1>3, <1>6, <2>1, <2>2, <3>1 DEF TypeOK
  <2>5. ASSUME NEW i \in lm_bitmasks'
        PROVE  /\ SlotAt(LmAhead(i))' \in bitmasks'
               /\ lm_pacing_queue'[i] = book'[SlotAt(LmAhead(i))']
    <3>1. CASE i \in lm_bitmasks
      BY <1>4, <2>3, <3>1
    <3>2. CASE i = l
      BY <2>4, <3>2
    <3> QED BY <1>6, <2>2, <3>1, <3>2
  <2> QED BY <2>5 DEF LmInv
<1> QED BY <1>5, <1>6

(* When the heads move, what is k slots behind them was k + 1 behind.      *)
LEMMA SlotAtMoves ==
  ASSUME TypeOK, pq_ctm_head' = Wrap(pq_ctm_head + 1, CtmLength),
         NEW k \in Nat, k > 0, k < CtmLength
  PROVE  /\ SlotAt(k) \in CtmSlots /\ SlotAt(k) # pq_ctm_head
         /\ Wrap(pq_ctm_head' + (k - 1), CtmLength) = SlotAt(k)
<1>1. pq_ctm_head \in Nat /\ pq_ctm_head < CtmLength /\ CtmLength \in Nat
  BY Sizes DEF TypeOK, CtmSlots
<1>2. CASE pq_ctm_head + 1 >= CtmLength
  BY <1>1, <1>2 DEF CtmSlots, SlotAt, Wrap
<1>3. CASE pq_ctm_head + 1 < CtmLength
  BY <1>1, <1>3 DEF CtmSlots, SlotAt, Wrap
<1> QED BY <1>1, <1>2, <1>3

LEMMA LmAheadMoves ==
  ASSUME TypeOK, pq_lm_head' = Wrap(pq_lm_head + 1, LmLength),
         NEW i \in LmSlots, i # pq_lm_head
  PROVE  LmAhead(i)' = LmAhead(i) - 1 /\ LmAhead(i) > 0
BY Sizes DEF TypeOK, LmSlots, LmAhead, Wrap

LEMMA AdvanceLm ==
  ASSUME LmInv, BInv', NEW d \in Dequeuers, DequeuePacket(d) \/ PassEmptySlot(d)
  PROVE  LmInv'
<1>1. TypeOK
  BY DEF LmInv, BInv, TInv
<1>2. /\ pq_ctm_head' = Wrap(pq_ctm_head + 1, CtmLength)
      /\ pq_lm_head' = Wrap(pq_lm_head + 1, LmLength)
      /\ lm_pacing_queue' = lm_pacing_queue
  BY DEF DequeuePacket, PassEmptySlot, AdvanceHead
<1>3. /\ lm_bitmasks' \subseteq lm_bitmasks /\ pq_lm_head \notin lm_bitmasks'
      /\ bitmasks \ {pq_ctm_head} \subseteq bitmasks'
      /\ \A s \in CtmSlots : s # pq_ctm_head => book'[s] = book[s]
  <2>1. CASE DequeuePacket(d)
    BY <1>1, <2>1 DEF DequeuePacket, TypeOK
  <2>2. CASE PassEmptySlot(d)
    <3>1. UNCHANGED <<bitmasks, lm_bitmasks, book>> /\ pq_ctm_head \notin bitmasks
      BY <2>2 DEF PassEmptySlot, bitVars
    <3>2. SlotAt(LmAhead(pq_lm_head)) = pq_ctm_head
      BY <1>1, Sizes DEF SlotAt, LmAhead, Wrap, TypeOK, CtmSlots, LmSlots
    <3>3. pq_lm_head \notin lm_bitmasks
      BY <3>1, <3>2 DEF LmInv
    <3> QED BY <3>1, <3>3
  <2> QED BY <2>1, <2>2
<1>4. ASSUME NEW i \in lm_bitmasks'
      PROVE  /\ SlotAt(LmAhead(i))' \in bitmasks'
             /\ lm_pacing_queue'[i] = book'[SlotAt(LmAhead(i))']
  <2>1. i \in lm_bitmasks /\ i \in LmSlots /\ i # pq_lm_head
    BY <1>1, <1>3 DEF TypeOK
  <2> DEFINE k == LmAhead(i)
  <2>2. k \in Nat /\ k > 0 /\ k < CtmLength /\ LmAhead(i)' = k - 1
    BY <1>1, <1>2, <2>1, LmAheadRange, LmAheadMoves, Sizes
  <2>3. SlotAt(k) \in bitmasks /\ lm_pacing_queue[i] = book[SlotAt(k)]
    BY <2>1 DEF LmInv
  <2>4. SlotAt(LmAhead(i))' = Wrap(pq_ctm_head' + (k - 1), CtmLength)
    BY <2>2 DEF SlotAt
  <2> HIDE DEF k
  <2>5. SlotAt(k) \in CtmSlots /\ SlotAt(k) # pq_ctm_head
        /\ SlotAt(LmAhead(i))' = SlotAt(k)
    BY <1>1, <1>2, <2>2, <2>4, SlotAtMoves
  <2> QED BY <1>2, <1>3, <2>3, <2>5
<1> QED BY <1>4 DEF LmInv

LEMMA InitLmInv == Init => LmInv
BY InitBInv DEF Init, LmInv

LEMMA NextLmInv == LmInv /\ [Next]_vars => LmInv'
<1> SUFFICES ASSUME LmInv, [Next]_vars PROVE LmInv'
  OBVIOUS
<1>1. BInv'
  BY NextBInv DEF LmInv
<1>2. ASSUME NEW n \in Notifiers, Enqueue(n)
      PROVE  LmInv'
  <2>1. PICK r \in Requests : \/ EnqueueLm(n, r[1], r[2])
                              \/ EnqueueCtm(n, r[1], r[2])
                              \/ EnqueueHalt(n, r[1], r[2])
    BY <1>2 DEF Enqueue
  <2>2. r[1] \in Flows /\ r[2] \in Nat
    BY ContextAssumption DEF Flows
  <2> DEFINE d == Departure(r[1], r[2])
  <2>3. d.slots \in 0 .. ThreshSlots
    BY <2>2, DepartureFacts DEF LmInv, BInv, TInv
  <2>4. CASE EnqueueLm(n, r[1], r[2]) \/ EnqueueCtm(n, r[1], r[2])
    <3>1. /\ FreeOffsets(DesiredIndex(d.slots)) # {}
          /\ Reserve(r[1], d.dep, Booking(d.slots))
      BY <2>4 DEF EnqueueLm, EnqueueCtm
    <3>2. \/ UNCHANGED <<lm_pacing_queue, lm_bitmasks>>
          \/ LET b  == Booking(d.slots)
                 lm == Wrap(pq_lm_head + b.delta, LmLength)
             IN  /\ b.delta < LmLength
                 /\ lm_pacing_queue' = [lm_pacing_queue EXCEPT ![lm] = Len(pkts) + 1]
                 /\ lm_bitmasks' = lm_bitmasks \cup {lm}
      BY <2>4 DEF EnqueueLm, EnqueueCtm, PlacedInLm
    <3> HIDE DEF d
    <3> QED BY <1>1, <2>2, <2>3, <3>1, <3>2, ReserveLm
  <2>5. CASE EnqueueHalt(n, r[1], r[2])
    BY <1>1, <2>5, LmFrame DEF EnqueueHalt, headVars, bitVars, histVars
  <2> QED BY <2>1, <2>4, <2>5
<1>3. ASSUME NEW n \in Notifiers, SendPacketToCtm(n)
      PROVE  LmInv'
  BY <1>1, <1>3, LmFrame DEF SendPacketToCtm, headVars, bitVars, histVars
<1>4. ASSUME NEW d \in Dequeuers, sync_dequeue_loop(d)
      PROVE  LmInv'
  <2>1. CASE SyncReserve(d) \/ StartDequeue(d) \/ LeaveDequeue(d)
    BY <1>1, <2>1, LmFrame
    DEF SyncReserve, StartDequeue, LeaveDequeue, headVars, bitVars, histVars
  <2>2. CASE SyncPlace(d)
    <3>1. \A i \in lm_bitmasks : lm_pacing_queue'[i] = lm_pacing_queue[i]
      BY <2>2 DEF SyncPlace, KeepLm, LmInv, BInv, TInv, TypeOK
    <3> QED
      BY <1>1, <2>2, <3>1, LmFrame DEF SyncPlace, headVars, bitVars, histVars
  <2> QED BY <1>1, <1>4, <2>1, <2>2, AdvanceLm DEF sync_dequeue_loop
<1>5. CASE Memory \/ Tick \/ UNCHANGED vars
  BY <1>1, <1>5, LmFrame
  DEF Memory, CtmWriteDone, WorkqAddDone, CtmReadDone, Tick, vars, headVars,
      bitVars, histVars
<1> QED BY <1>2, <1>3, <1>4, <1>5 DEF Next

(* A slot of LM that no sync may overwrite holds the packet that is booked *)
(* for it.                                                                 *)
THEOREM LmBitsAreSound == Spec => []LmBitsSound
BY InitLmInv, NextLmInv, LmInvMeans, PTL DEF Spec

----------------------------------------------------------------------------
(* The order of the slots.                                                 *)

(* When the slot k slots behind the head ends.                             *)
Ends(k) == pq_head_time + (k + 1) * SlotTicks

(* No slot up to t that ends after time x is free.                         *)
NoGap(t, x) ==
  \A s \in CtmSlots : Ahead(s) <= Ahead(t) /\ x < Ends(Ahead(s)) => s \in bitmasks

(* FlowOrder, and why: between the departure time of a waiting packet, or  *)
(* of the last one of its flow, and its slot there is no free slot.        *)
OInv ==
  /\ BInv
  /\ FlowOrder
  /\ \A f \in Flows : flows_prev_dep_time[f] < Ends(ThreshSlots)
  /\ \A t \in bitmasks :
       /\ NoGap(t, pkts[book[t]].dep)
       /\ NoGap(t, flows_prev_dep_time[pkts[book[t]].flow])

LEMMA EndsMono ==
  ASSUME TypeOK, NEW j \in Nat, NEW k \in Nat
  PROVE  /\ Ends(k) \in Nat
         /\ j <= k => Ends(j) <= Ends(k)
         /\ j < k => Ends(j) <= pq_head_time + k * SlotTicks
<1>1. pq_head_time \in Nat
  BY DEF TypeOK
<1>2. (j + 1) * SlotTicks \in Nat /\ (k + 1) * SlotTicks \in Nat
      /\ k * SlotTicks \in Nat
  BY Sizes
<1>3. /\ j <= k => (j + 1) * SlotTicks <= (k + 1) * SlotTicks
      /\ j < k => (j + 1) * SlotTicks <= k * SlotTicks
  BY MulMono, Sizes
<1> QED BY <1>1, <1>2, <1>3 DEF Ends

LEMMA AheadOf ==
  ASSUME TypeOK, NEW s \in CtmSlots
  PROVE  /\ Ahead(s) \in 0 .. CtmLength - 1
         /\ s = Wrap(pq_ctm_head + Ahead(s), CtmLength)
BY SMTT(30), Sizes DEF TypeOK, CtmSlots, Ahead, PQ_CTM_RING_DIFF, Wrap

(* A slot that ends after a packet's departure time is not before the slot *)
(* the search for it starts from, and that one ends after the last         *)
(* departure time of its flow.                                             *)
LEMMA StartOfSearch ==
  ASSUME TypeOK, NEW flow \in Flows, NEW idt \in Nat,
         flows_prev_dep_time[flow] < Ends(ThreshSlots)
  PROVE  LET d == Departure(flow, idt)
         IN  /\ d.dep \in Nat /\ d.slots \in 0 .. ThreshSlots
             /\ d.dep < Ends(d.slots)
             /\ flows_prev_dep_time[flow] < Ends(d.slots)
             /\ \A k \in Nat : d.dep < Ends(k) => d.slots <= k
<1> DEFINE d == Departure(flow, idt)
<1>1. /\ d.dep \in Nat /\ d.slots \in 0 .. ThreshSlots
      /\ d.dep < Ends(d.slots)
      /\ d.slots > 0 => pq_head_time + d.slots * SlotTicks <= d.dep
  BY DepartureFacts DEF Ends
<1>2. d.slots = ThreshSlots \/ d.dep = DepTime(flow, idt)
  <2> DEFINE dep == DepTime(flow, idt)
             slots == DeltaSlots(dep)
  <2>1. d = IF slots > ThreshSlots
            THEN [dep |-> dep - PQ_DEP_TIME_DIFF_TRESHOLD(slots), slots |-> ThreshSlots]
            ELSE [dep |-> dep, slots |-> slots]
    BY DEF Departure
  <2> HIDE DEF dep, slots, d
  <2> QED BY <2>1 DEF dep
<1>3. flows_prev_dep_time[flow] <= DepTime(flow, idt)
  BY DEF TypeOK, DepTime
<1>4. flows_prev_dep_time[flow] \in Nat /\ DepTime(flow, idt) \in Nat
  BY DEF TypeOK, DepTime
<1> HIDE DEF d
<1>5. flows_prev_dep_time[flow] < Ends(d.slots)
  <2>1. Ends(d.slots) \in Nat
    BY <1>1, EndsMono, Sizes
  <2>2. CASE d.slots = ThreshSlots
    BY <2>2
  <2>3. CASE d.dep = DepTime(flow, idt)
    BY <1>1, <1>3, <1>4, <2>1, <2>3
  <2> QED BY <1>2, <2>2, <2>3
<1>6. ASSUME NEW k \in Nat, d.dep < Ends(k)
      PROVE  d.slots <= k
  <2>1. d.slots \in Nat
    BY <1>1, Sizes
  <2>2. CASE k < d.slots
    <3> DEFINE e == pq_head_time + d.slots * SlotTicks
    <3>1. Ends(k) <= e /\ Ends(k) \in Nat
      BY <2>1, <2>2, EndsMono
    <3>2. e <= d.dep
      BY <1>1, <2>1, <2>2
    <3>3. e \in Nat
      <4>1. d.slots * SlotTicks \in Nat
        BY <2>1, Sizes
      <4>2. pq_head_time \in Nat
        BY DEF TypeOK
      <4> QED BY <4>1, <4>2
    <3> HIDE DEF e
    <3> QED BY <1>1, <1>6, <3>1, <3>2, <3>3
  <2> QED BY <2>1, <2>2
<1> QED BY <1>1, <1>5, <1>6 DEF d

(* A packet whose gap-free stretch begins no later than a search gets is   *)
(* in an earlier slot than the one the search finds.                       *)
LEMMA SearchPasses ==
  ASSUME TypeOK, NEW slots \in 0 .. ThreshSlots,
         FreeOffsets(DesiredIndex(slots)) # {},
         NEW t \in bitmasks, NEW x \in Nat, x < Ends(slots), NoGap(t, x)
  PROVE  Ahead(t) < Booking(slots).delta
<1> DEFINE b == Booking(slots)
<1>1. /\ b.index \in CtmSlots /\ b.index \notin bitmasks
      /\ b.delta \in Nat /\ b.delta >= slots /\ b.delta = Ahead(b.index)
  BY BookingFacts
<1> HIDE DEF b
<1>2. t \in CtmSlots
  BY DEF TypeOK
<1>3. Ahead(t) \in Nat
  BY <1>2, AheadOf, Sizes
<1>4. slots \in Nat
  BY Sizes
<1>5. Ends(slots) <= Ends(b.delta) /\ Ends(slots) \in Nat /\ Ends(b.delta) \in Nat
  BY <1>1, <1>4, EndsMono
<1>6. x < Ends(b.delta)
  BY <1>5
<1>7. ~(b.delta <= Ahead(t))
  BY <1>1, <1>6 DEF NoGap
<1> QED BY <1>1, <1>3, <1>7 DEF b

(* The stretch only shrinks when the last departure time grows.            *)
LEMMA GapShrinks ==
  ASSUME TypeOK, NEW t \in bitmasks, NEW x \in Nat, NEW y \in Nat,
         NEW k \in Nat, x < Ends(k), NoGap(t, x),
         \A j \in Nat : y < Ends(j) => k <= j
  PROVE  NoGap(t, y)
<1> SUFFICES ASSUME NEW s \in CtmSlots, Ahead(s) <= Ahead(t), y < Ends(Ahead(s))
             PROVE  s \in bitmasks
  BY DEF NoGap
<1>1. Ahead(s) \in Nat
  BY AheadOf, Sizes
<1>2. Ends(k) <= Ends(Ahead(s)) /\ Ends(k) \in Nat /\ Ends(Ahead(s)) \in Nat
  BY <1>1, EndsMono
<1>3. x < Ends(Ahead(s))
  BY <1>2
<1> QED BY <1>3 DEF NoGap

LEMMA InitOInv == Init => OInv
<1> SUFFICES ASSUME Init PROVE OInv
  OBVIOUS
<1>1. bitmasks = {}
  BY DEF Init
<1>2. BInv
  BY InitBInv
<1>3. Ends(ThreshSlots) > 0
  <2>1. (ThreshSlots + 1) * SlotTicks > 0 /\ (ThreshSlots + 1) * SlotTicks \in Nat
    BY Sizes
  <2> QED BY <2>1 DEF Ends, Init
<1> QED BY <1>1, <1>2, <1>3 DEF OInv, FlowOrder, Init

LEMMA OrderFrame ==
  ASSUME OInv, BInv',
         UNCHANGED <<pq_head_time, pq_ctm_head, bitmasks, book, pkts,
                     flows_prev_dep_time>>
  PROVE  OInv'
BY DEF OInv, FlowOrder, NoGap, Ends, Ahead

LEMMA WaitingPacket ==
  ASSUME BInv, NEW t \in bitmasks
  PROVE  /\ t \in CtmSlots /\ book[t] \in 1 .. Len(pkts)
         /\ pkts[book[t]].flow \in Flows
         /\ pkts[book[t]].dep \in Nat /\ pkts[book[t]].due \in Nat
<1>1. t \in CtmSlots /\ book[t] \in Nat /\ pkts \in Seq([flow : Flows, dep : Nat, due : Nat])
  BY DEF BInv, TInv, TypeOK
<1>2. book[t] \in 1 .. Len(pkts)
  BY <1>1 DEF BInv, BookingsExact
<1>3. pkts[book[t]] \in [flow : Flows, dep : Nat, due : Nat]
  BY <1>1, <1>2, ElementOfSeq
<1> QED BY <1>1, <1>2, <1>3

(* What a flow's new departure time does to the packets that wait.         *)
LEMMA NewDeparture ==
  ASSUME OInv, NEW flow \in Flows, NEW idt \in Nat,
         flows_prev_dep_time' =
           [flows_prev_dep_time EXCEPT ![flow] = Departure(flow, idt).dep]
  PROVE  /\ \A f \in Flows : flows_prev_dep_time'[f] < Ends(ThreshSlots)
         /\ \A t \in bitmasks : NoGap(t, flows_prev_dep_time'[pkts[book[t]].flow])
<1> DEFINE d == Departure(flow, idt)
<1>1. TypeOK /\ BInv
  BY DEF OInv, BInv, TInv
<1>2. flows_prev_dep_time[flow] < Ends(ThreshSlots)
  BY DEF OInv
<1>3. /\ d.dep \in Nat /\ d.slots \in 0 .. ThreshSlots
      /\ d.dep < Ends(d.slots)
      /\ flows_prev_dep_time[flow] < Ends(d.slots)
      /\ \A k \in Nat : d.dep < Ends(k) => d.slots <= k
  BY <1>1, <1>2, StartOfSearch
<1> HIDE DEF d
<1>4. flows_prev_dep_time' = [flows_prev_dep_time EXCEPT ![flow] = d.dep]
      /\ flows_prev_dep_time \in [Flows -> Nat]
  BY <1>1 DEF TypeOK, d
<1>5. d.slots \in Nat /\ ThreshSlots \in Nat /\ d.slots <= ThreshSlots
  BY <1>3, Sizes
<1>6. Ends(d.slots) <= Ends(ThreshSlots) /\ Ends(d.slots) \in Nat
      /\ Ends(ThreshSlots) \in Nat
  BY <1>1, <1>5, EndsMono
<1>7. d.dep < Ends(ThreshSlots)
  BY <1>3, <1>6
<1>8. \A f \in Flows : flows_prev_dep_time'[f] < Ends(ThreshSlots)
  BY <1>4, <1>7 DEF OInv
<1>9. ASSUME NEW t \in bitmasks
      PROVE  NoGap(t, flows_prev_dep_time'[pkts[book[t]].flow])
  <2>1. pkts[book[t]].flow \in Flows
    BY <1>1, WaitingPacket
  <2>2. NoGap(t, flows_prev_dep_time[pkts[book[t]].flow])
    BY DEF OInv
  <2>3. CASE pkts[book[t]].flow = flow
    <3>1. flows_prev_dep_time'[pkts[book[t]].flow] = d.dep
      BY <1>4, <2>3
    <3>2. flows_prev_dep_time[flow] \in Nat /\ NoGap(t, flows_prev_dep_time[flow])
      BY <1>4, <2>2, <2>3
    <3>3. NoGap(t, d.dep)
      BY <1>1, <1>3, <1>5, <3>2, GapShrinks
    <3> QED BY <3>1, <3>3
  <2>4. CASE pkts[book[t]].flow # flow
    BY <1>4, <2>1, <2>2, <2>4
  <2> QED BY <2>3, <2>4
<1> QED BY <1>8, <1>9

(* The new packet's slot comes after every slot of its flow, and after     *)
(* every slot of a packet that wants to leave no later.                    *)
LEMMA BookedBehind ==
  ASSUME OInv, NEW flow \in Flows, NEW idt \in Nat,
         LET d == Departure(flow, idt) IN FreeOffsets(DesiredIndex(d.slots)) # {},
         NEW t \in bitmasks,
         \/ pkts[book[t]].flow = flow
         \/ pkts[book[t]].dep <= Departure(flow, idt).dep
  PROVE  Ahead(t) < Booking(Departure(flow, idt).slots).delta
<1> DEFINE d == Departure(flow, idt)
<1>1. TypeOK /\ BInv
  BY DEF OInv, BInv, TInv
<1>2. flows_prev_dep_time[flow] < Ends(ThreshSlots)
  BY DEF OInv
<1>3. /\ d.dep \in Nat /\ d.slots \in 0 .. ThreshSlots
      /\ d.dep < Ends(d.slots)
      /\ flows_prev_dep_time[flow] < Ends(d.slots)
  BY <1>1, <1>2, StartOfSearch
<1>4. FreeOffsets(DesiredIndex(d.slots)) # {}
  OBVIOUS
<1>5. pkts[book[t]].flow = flow \/ pkts[book[t]].dep <= d.dep
  OBVIOUS
<1> HIDE DEF d
<1>6. Ends(d.slots) \in Nat
  BY <1>1, <1>3, EndsMono, Sizes
<1>7. pkts[book[t]].dep \in Nat
  BY <1>1, WaitingPacket
<1>8. PICK x \in Nat : x < Ends(d.slots) /\ NoGap(t, x)
  <2>1. CASE pkts[book[t]].flow = flow
    <3>1. flows_prev_dep_time[flow] \in Nat
      BY <1>1 DEF TypeOK
    <3>2. NoGap(t, flows_prev_dep_time[flow])
      BY <2>1 DEF OInv
    <3> QED BY <1>3, <3>1, <3>2
  <2>2. CASE pkts[book[t]].dep <= d.dep
    <3>1. NoGap(t, pkts[book[t]].dep)
      BY DEF OInv
    <3>2. pkts[book[t]].dep < Ends(d.slots)
      BY <1>3, <1>6, <1>7, <2>2
    <3> QED BY <1>7, <3>1, <3>2
  <2> QED BY <1>5, <2>1, <2>2
<1>9. Ahead(t) < Booking(d.slots).delta
  BY <1>1, <1>3, <1>4, <1>8, SearchPasses
<1> QED BY <1>9 DEF d

LEMMA ReserveOInv ==
  ASSUME OInv, BInv', NEW flow \in Flows, NEW idt \in Nat,
         LET d == Departure(flow, idt)
         IN  /\ FreeOffsets(DesiredIndex(d.slots)) # {}
             /\ Reserve(flow, d.dep, Booking(d.slots))
  PROVE  OInv'
<1> DEFINE d == Departure(flow, idt)
           b == Booking(d.slots)
           due == pq_head_time + (b.delta + 1) * SlotTicks
           new == [flow |-> flow, dep |-> d.dep, due |-> due]
           n == Len(pkts) + 1
<1>1. TypeOK /\ BInv
  BY DEF OInv, BInv, TInv
<1>2. flows_prev_dep_time[flow] < Ends(ThreshSlots)
  BY DEF OInv
<1>3. /\ d.dep \in Nat /\ d.slots \in 0 .. ThreshSlots
      /\ \A k \in Nat : d.dep < Ends(k) => d.slots <= k
  BY <1>1, <1>2, StartOfSearch
<1>4. FreeOffsets(DesiredIndex(d.slots)) # {}
  OBVIOUS
<1>5. /\ flows_prev_dep_time' = [flows_prev_dep_time EXCEPT ![flow] = d.dep]
      /\ bitmasks' = bitmasks \cup {b.index}
      /\ book' = [book EXCEPT ![b.index] = n]
      /\ pkts' = Append(pkts, new)
      /\ UNCHANGED <<pq_head_time, pq_ctm_head>>
  BY DEF Reserve, headVars
<1>6. /\ \A f \in Flows : flows_prev_dep_time'[f] < Ends(ThreshSlots)
      /\ \A t \in bitmasks : NoGap(t, flows_prev_dep_time'[pkts[book[t]].flow])
  BY <1>5, NewDeparture
<1>7. \A t \in bitmasks : pkts[book[t]].flow = flow => Ahead(t) < b.delta
  BY <1>4, BookedBehind
<1> HIDE DEF d
<1>8. /\ b.index \in CtmSlots /\ b.index \notin bitmasks
      /\ b.delta \in Nat /\ b.delta = Ahead(b.index)
      /\ \A s \in CtmSlots :
           d.slots <= Ahead(s) /\ Ahead(s) < b.delta => s \in bitmasks
  BY <1>1, <1>3, <1>4, BookingFacts
<1> HIDE DEF b, due
<1>9. /\ pkts \in Seq([flow : Flows, dep : Nat, due : Nat])
      /\ book \in [CtmSlots -> Nat] /\ bitmasks \subseteq CtmSlots
      /\ flows_prev_dep_time \in [Flows -> Nat]
  BY <1>1 DEF TypeOK
<1>10. /\ n \in Nat /\ pkts'[n] = new
       /\ \A p \in 1 .. Len(pkts) : pkts'[p] = pkts[p]
  BY <1>5, <1>9
<1>11. /\ book'[b.index] = n
       /\ \A t \in bitmasks : book'[t] = book[t] /\ pkts'[book'[t]] = pkts[book[t]]
                              /\ book[t] < n
  BY SMTT(30), <1>1, <1>5, <1>8, <1>9, <1>10, WaitingPacket
<1>12. /\ \A k : Ends(k)' = Ends(k)
       /\ \A s \in CtmSlots : Ahead(s)' = Ahead(s)
  BY <1>5 DEF Ends, Ahead
<1>13. FlowOrder'
  <2> SUFFICES ASSUME NEW s \in bitmasks', NEW t \in bitmasks',
                      pkts'[book'[s]].flow = pkts'[book'[t]].flow,
                      book'[s] < book'[t]
               PROVE  Ahead(s)' < Ahead(t)'
    BY DEF FlowOrder
  <2>1. s \in CtmSlots /\ t \in CtmSlots
    BY <1>5, <1>8, <1>9
  <2>2. CASE s \in bitmasks /\ t \in bitmasks
    <3>1. Ahead(s) < Ahead(t)
      BY <1>11, <2>2 DEF OInv, FlowOrder
    <3> QED BY <1>12, <2>1, <3>1
  <2>3. CASE s \in bitmasks /\ t = b.index
    <3>1. pkts[book[s]].flow = flow
      BY <1>10, <1>11, <2>3
    <3> QED BY <1>7, <1>8, <1>12, <2>1, <2>3, <3>1
  <2>4. CASE s = b.index
    <3>1. book'[t] = n \/ book'[t] < n
      BY <1>5, <1>11
    <3>2. book'[t] \in Nat
      BY <1>5, <1>9, <1>10, <1>11
    <3> QED BY <1>10, <1>11, <2>4, <3>1, <3>2
  <2> QED BY <1>5, <2>2, <2>3, <2>4
<1>14. \A f \in Flows : flows_prev_dep_time'[f] < Ends(ThreshSlots)'
  <2>1. Ends(ThreshSlots)' = Ends(ThreshSlots)
    BY <1>5 DEF Ends
  <2> QED BY <1>6, <2>1
<1>15. ASSUME NEW t \in bitmasks', NEW x, t \in bitmasks => NoGap(t, x),
              t = b.index => x = d.dep,
              NEW s \in CtmSlots, Ahead(s)' <= Ahead(t)', x < Ends(Ahead(s))'
       PROVE  s \in bitmasks'
  <2>1. Ends(Ahead(s))' = Ends(Ahead(s))
    BY <1>5 DEF Ends, Ahead
  <2>2. t \in CtmSlots /\ Ahead(s) <= Ahead(t) /\ x < Ends(Ahead(s))
    BY <1>5, <1>8, <1>9, <1>12, <1>15, <2>1
  <2>3. CASE t \in bitmasks
    BY <1>5, <1>15, <2>2, <2>3 DEF NoGap
  <2>4. CASE t = b.index
    <3>1. /\ Ahead(s) \in Nat
          /\ s = Wrap(pq_ctm_head + Ahead(s), CtmLength)
          /\ t = Wrap(pq_ctm_head + Ahead(t), CtmLength)
      BY <1>1, <2>2, AheadOf, Sizes
    <3>2. d.slots <= Ahead(s)
      BY <1>3, <1>15, <2>2, <2>4, <3>1
    <3>3. CASE Ahead(s) < b.delta
      BY <1>5, <1>8, <3>2, <3>3
    <3>4. CASE Ahead(s) = b.delta
      BY <1>5, <1>8, <2>4, <3>1, <3>4
    <3> QED BY <1>8, <2>2, <2>4, <3>1, <3>3, <3>4
  <2> QED BY <1>5, <2>3, <2>4
<1>16. ASSUME NEW t \in bitmasks'
       PROVE  /\ NoGap(t, pkts[book[t]].dep)'
              /\ NoGap(t, flows_prev_dep_time[pkts[book[t]].flow])'
  <2> DEFINE x == pkts'[book'[t]].dep
             y == flows_prev_dep_time'[pkts'[book'[t]].flow]
  <2>1. t \in bitmasks => NoGap(t, x) /\ NoGap(t, y)
    BY <1>6, <1>11 DEF OInv
  <2>2. t = b.index => x = d.dep /\ y = d.dep
    BY <1>5, <1>9, <1>10, <1>11
  <2> HIDE DEF x, y
  <2>3. \A s \in CtmSlots : Ahead(s)' <= Ahead(t)' /\ x < Ends(Ahead(s))' => s \in bitmasks'
    BY <1>15, <2>1, <2>2
  <2>4. \A s \in CtmSlots : Ahead(s)' <= Ahead(t)' /\ y < Ends(Ahead(s))' => s \in bitmasks'
    BY <1>15, <2>1, <2>2
  <2> QED BY <2>3, <2>4 DEF NoGap, x, y
<1> QED BY <1>13, <1>14, <1>16 DEF OInv

(* Moving the heads moves every slot one nearer and leaves its end.        *)
LEMMA AdvanceOInv ==
  ASSUME OInv, BInv', NEW d \in Dequeuers, DequeuePacket(d) \/ PassEmptySlot(d)
  PROVE  OInv'
<1>1. TypeOK
  BY DEF OInv, BInv, TInv
<1>2. /\ pq_ctm_head' = Wrap(pq_ctm_head + 1, CtmLength)
      /\ pq_head_time' = pq_head_time + SlotTicks
      /\ UNCHANGED <<pkts, flows_prev_dep_time>>
  BY DEF DequeuePacket, PassEmptySlot, AdvanceHead
<1>3. /\ bitmasks' = bitmasks \ {pq_ctm_head}
      /\ \A s \in CtmSlots : s # pq_ctm_head => book'[s] = book[s]
  BY <1>1 DEF DequeuePacket, PassEmptySlot, bitVars, TypeOK
<1>4. /\ pq_ctm_head \in CtmSlots /\ bitmasks \subseteq CtmSlots
      /\ pq_head_time \in Nat
  BY <1>1 DEF TypeOK
<1>5. ASSUME NEW s \in CtmSlots, s # pq_ctm_head
      PROVE  /\ Ahead(s)' = Ahead(s) - 1
             /\ Ahead(s) \in Nat
             /\ Ends(Ahead(s))' = Ends(Ahead(s))
  <2>1. Ahead(s)' = Ahead(s) - 1 /\ Ahead(s) \in Nat
    BY <1>2, <1>4, <1>5, AheadMoves DEF Ahead
  <2>2. Ends(Ahead(s))' = pq_head_time' + (Ahead(s)' + 1) * SlotTicks
    BY DEF Ends
  <2>3. Ends(Ahead(s)) = pq_head_time + (Ahead(s) + 1) * SlotTicks
    BY DEF Ends
  <2> DEFINE a == Ahead(s)
  <2>4. (a + 1) * SlotTicks = a * SlotTicks + SlotTicks /\ a * SlotTicks \in Nat
    BY <2>1, MulSucc, Sizes
  <2>5. Ahead(s)' + 1 = a
    BY <2>1
  <2> HIDE DEF a
  <2>6. Ends(Ahead(s))' = pq_head_time + SlotTicks + a * SlotTicks
    BY <1>2, <2>2, <2>5
  <2>7. Ends(Ahead(s)) = pq_head_time + (a * SlotTicks + SlotTicks)
    BY <2>3, <2>4 DEF a
  <2>8. Ends(Ahead(s))' = Ends(Ahead(s))
    BY <1>4, <2>4, <2>6, <2>7, Sizes
  <2> QED BY <2>1, <2>8
<1>6. \A s \in CtmSlots : Ahead(s) \in 0 .. CtmLength - 1
  BY <1>1, AheadOf
<1>7. ASSUME NEW t \in CtmSlots, t # pq_ctm_head, NEW x, NoGap(t, x),
             NEW s \in CtmSlots, Ahead(s)' <= Ahead(t)', x < Ends(Ahead(s))'
      PROVE  s \in bitmasks'
  <2>1. s # pq_ctm_head
    <3>1. PQ_CTM_RING_DIFF(pq_ctm_head, Wrap(pq_ctm_head + 1, CtmLength)) = CtmLength - 1
      BY <1>4, Sizes DEF PQ_CTM_RING_DIFF, Wrap, CtmSlots
    <3>2. s = pq_ctm_head => Ahead(s)' = CtmLength - 1
      BY <1>2, <3>1 DEF Ahead
    <3>3. Ahead(t)' = Ahead(t) - 1 /\ Ahead(t) \in 0 .. CtmLength - 1
      BY <1>5, <1>6, <1>7
    <3> HIDE DEF Ahead
    <3> QED BY <1>7, <3>2, <3>3, Sizes
  <2>2. Ahead(s) <= Ahead(t) /\ x < Ends(Ahead(s))
    <3>1. /\ Ahead(s)' = Ahead(s) - 1 /\ Ahead(s) \in Nat
          /\ Ahead(t)' = Ahead(t) - 1 /\ Ahead(t) \in Nat
          /\ Ends(Ahead(s))' = Ends(Ahead(s))
      BY <1>5, <1>7, <2>1
    <3> QED BY <1>7, <3>1
  <2> QED BY <1>3, <1>7, <2>1, <2>2 DEF NoGap
<1>8. ASSUME NEW t \in bitmasks'
      PROVE  /\ t \in bitmasks /\ t \in CtmSlots /\ t # pq_ctm_head
             /\ pkts'[book'[t]] = pkts[book[t]]
             /\ book'[t] = book[t]
  BY <1>2, <1>3, <1>4
<1>9. FlowOrder'
  <2> SUFFICES ASSUME NEW s \in bitmasks', NEW t \in bitmasks',
                      pkts'[book'[s]].flow = pkts'[book'[t]].flow,
                      book'[s] < book'[t]
               PROVE  Ahead(s)' < Ahead(t)'
    BY DEF FlowOrder
  <2>1. Ahead(s) < Ahead(t)
    BY <1>8 DEF OInv, FlowOrder
  <2>2. /\ Ahead(s)' = Ahead(s) - 1 /\ Ahead(s) \in Nat
        /\ Ahead(t)' = Ahead(t) - 1 /\ Ahead(t) \in Nat
    BY <1>5, <1>8
  <2> QED BY <2>1, <2>2
<1>10. ASSUME NEW f \in Flows
       PROVE  flows_prev_dep_time'[f] < Ends(ThreshSlots)'
  <2>1. flows_prev_dep_time[f] < Ends(ThreshSlots) /\ flows_prev_dep_time[f] \in Nat
    BY <1>1 DEF OInv, TypeOK
  <2>2. Ends(ThreshSlots)' = Ends(ThreshSlots) + SlotTicks
    <3>1. (ThreshSlots + 1) * SlotTicks \in Nat
      BY Sizes
    <3> QED BY <1>2, <1>4, <3>1, Sizes DEF Ends
  <2>3. Ends(ThreshSlots) \in Nat
    BY <1>1, EndsMono, Sizes
  <2> QED BY <1>2, <2>1, <2>2, <2>3, Sizes
<1>11. ASSUME NEW t \in bitmasks'
       PROVE  /\ NoGap(t, pkts[book[t]].dep)'
              /\ NoGap(t, flows_prev_dep_time[pkts[book[t]].flow])'
  <2> DEFINE x == pkts'[book'[t]].dep
             y == flows_prev_dep_time'[pkts'[book'[t]].flow]
  <2>1. /\ NoGap(t, x) /\ NoGap(t, y)
        /\ t \in CtmSlots /\ t # pq_ctm_head
    BY <1>2, <1>8 DEF OInv
  <2> HIDE DEF x, y
  <2>2. \A s \in CtmSlots : Ahead(s)' <= Ahead(t)' /\ x < Ends(Ahead(s))' => s \in bitmasks'
    BY <1>7, <2>1
  <2>3. \A s \in CtmSlots : Ahead(s)' <= Ahead(t)' /\ y < Ends(Ahead(s))' => s \in bitmasks'
    BY <1>7, <2>1
  <2> QED BY <2>2, <2>3 DEF NoGap, x, y
<1> QED BY <1>9, <1>10, <1>11 DEF OInv

LEMMA NextOInv == OInv /\ [Next]_vars => OInv'
<1> SUFFICES ASSUME OInv, [Next]_vars PROVE OInv'
  OBVIOUS
<1>1. BInv'
  BY NextBInv DEF OInv
<1>2. ASSUME NEW n \in Notifiers, Enqueue(n)
      PROVE  OInv'
  <2>1. PICK r \in Requests : \/ EnqueueLm(n, r[1], r[2])
                              \/ EnqueueCtm(n, r[1], r[2])
                              \/ EnqueueHalt(n, r[1], r[2])
    BY <1>2 DEF Enqueue
  <2>2. r[1] \in Flows /\ r[2] \in Nat
    BY ContextAssumption DEF Flows
  <2>3. CASE EnqueueLm(n, r[1], r[2]) \/ EnqueueCtm(n, r[1], r[2])
    <3>1. LET d == Departure(r[1], r[2])
          IN  /\ FreeOffsets(DesiredIndex(d.slots)) # {}
              /\ Reserve(r[1], d.dep, Booking(d.slots))
      BY <2>3 DEF EnqueueLm, EnqueueCtm
    <3> QED BY <1>1, <2>2, <3>1, ReserveOInv
  <2>4. CASE EnqueueHalt(n, r[1], r[2])
    <3>1. /\ flows_prev_dep_time' =
               [flows_prev_dep_time EXCEPT ![r[1]] = Departure(r[1], r[2]).dep]
          /\ UNCHANGED <<pq_head_time, pq_ctm_head, bitmasks, book, pkts>>
      BY <2>4 DEF EnqueueHalt, headVars, bitVars, histVars
    <3>2. /\ \A f \in Flows : flows_prev_dep_time'[f] < Ends(ThreshSlots)
          /\ \A t \in bitmasks : NoGap(t, flows_prev_dep_time'[pkts[book[t]].flow])
      BY <2>2, <3>1, NewDeparture
    <3>3. FlowOrder'
      BY <3>1 DEF OInv, FlowOrder, Ahead
    <3>4. \A t \in bitmasks' :
            /\ NoGap(t, pkts[book[t]].dep)'
            /\ NoGap(t, flows_prev_dep_time[pkts[book[t]].flow])'
      BY <3>1, <3>2 DEF OInv, NoGap, Ends, Ahead
    <3>5. \A f \in Flows : flows_prev_dep_time'[f] < Ends(ThreshSlots)'
      BY <3>1, <3>2 DEF Ends
    <3> QED BY <1>1, <3>3, <3>4, <3>5 DEF OInv
  <2> QED BY <2>1, <2>3, <2>4
<1>3. ASSUME NEW n \in Notifiers, SendPacketToCtm(n)
      PROVE  OInv'
  BY <1>1, <1>3, OrderFrame DEF SendPacketToCtm, headVars, bitVars, histVars
<1>4. ASSUME NEW d \in Dequeuers, sync_dequeue_loop(d)
      PROVE  OInv'
  <2>1. CASE SyncReserve(d) \/ SyncPlace(d) \/ StartDequeue(d) \/ LeaveDequeue(d)
    BY <1>1, <2>1, OrderFrame
    DEF SyncReserve, SyncPlace, StartDequeue, LeaveDequeue, headVars, bitVars,
        histVars
  <2> QED BY <1>1, <1>4, <2>1, AdvanceOInv DEF sync_dequeue_loop
<1>5. CASE Memory \/ Tick \/ UNCHANGED vars
  BY <1>1, <1>5, OrderFrame
  DEF Memory, CtmWriteDone, WorkqAddDone, CtmReadDone, Tick, vars, headVars,
      bitVars, histVars
<1> QED BY <1>2, <1>3, <1>4, <1>5 DEF Next

(* The occupied slots a search passes are waiting packets.                 *)
LEMMA PassedAreBooked ==
  ASSUME TypeOK, NEW slots \in 0 .. ThreshSlots,
         FreeOffsets(DesiredIndex(slots)) # {}
  PROVE  Booking(slots).delta - slots <= Cardinality(bitmasks)
<1> DEFINE b == Booking(slots)
           J == slots .. b.delta - 1
           g == [j \in J |-> SlotAt(j)]
<1>1. /\ b.delta \in Nat /\ b.delta < CtmLength /\ b.delta >= slots
      /\ \A s \in CtmSlots :
           slots <= Ahead(s) /\ Ahead(s) < b.delta => s \in bitmasks
  BY BookingFacts
<1> HIDE DEF b
<1>2. slots \in Nat /\ pq_ctm_head \in CtmSlots
  BY Sizes DEF TypeOK
<1>3. ASSUME NEW j \in J
      PROVE  SlotAt(j) \in CtmSlots /\ Ahead(SlotAt(j)) = j
  <2>1. j \in Nat /\ j < CtmLength
    BY <1>1, <1>2, Sizes
  <2> HIDE DEF J
  <2> QED BY <1>2, <2>1, Sizes DEF SlotAt, Wrap, Ahead, PQ_CTM_RING_DIFF, CtmSlots
<1>4. \A j \in J : SlotAt(j) \in bitmasks
  BY <1>1, <1>2, <1>3
<1>5. g \in Injection(J, bitmasks)
  BY <1>3, <1>4 DEF Injection, IsInjective
<1>6. IsFiniteSet(bitmasks) /\ Cardinality(bitmasks) \in Nat
  BY BitmasksFinite DEF TypeOK
<1>7. Cardinality(J) <= Cardinality(bitmasks)
  BY <1>5, <1>6, FS_Injection
<1>8. Cardinality(J) = b.delta - slots
  BY SMTT(30), <1>1, <1>2, FS_Interval
<1> QED BY <1>7, <1>8 DEF b

(* Packets of a flow leave in the order in which they were accepted.       *)
THEOREM FlowsInOrder == Spec => []FlowOrder
<1>1. OInv => FlowOrder
  BY DEF OInv
<1> QED BY InitOInv, NextOInv, <1>1, PTL DEF Spec

(* The search displaces a packet by no more slots than packets wait.       *)
THEOREM BoundedDisplacement == Spec => DisplacedByBacklog
<1> DEFINE Near ==
      \A p \in 1 .. Len(pkts') :
        p > Len(pkts) =>
          pkts'[p].due <= (IF pkts'[p].dep > pq_head_time THEN pkts'[p].dep
                                                          ELSE pq_head_time)
                           + (Cardinality(bitmasks) + 1) * SlotTicks
<1>1. BInv /\ [Next]_vars => [Near]_vars
  <2> SUFFICES ASSUME BInv, Next, NEW p \in 1 .. Len(pkts'), p > Len(pkts)
               PROVE  pkts'[p].due <= (IF pkts'[p].dep > pq_head_time
                                       THEN pkts'[p].dep ELSE pq_head_time)
                                      + (Cardinality(bitmasks) + 1) * SlotTicks
    OBVIOUS
  <2>1. TypeOK /\ pkts \in Seq([flow : Flows, dep : Nat, due : Nat])
    BY DEF BInv, TInv, TypeOK
  <2>2. PICK r \in Requests :
           LET d == Departure(r[1], r[2])
           IN  /\ FreeOffsets(DesiredIndex(d.slots)) # {}
               /\ Reserve(r[1], d.dep, Booking(d.slots))
    <3>1. pkts' # pkts
      BY <2>1
    <3>2. ASSUME NEW n \in Notifiers, Enqueue(n)
          PROVE  \E r \in Requests : EnqueueLm(n, r[1], r[2]) \/ EnqueueCtm(n, r[1], r[2])
      BY <3>1, <3>2 DEF Enqueue, EnqueueHalt, histVars
    <3>3. \A n \in Notifiers : ~SendPacketToCtm(n)
      BY <3>1 DEF SendPacketToCtm, histVars
    <3>4. \A d \in Dequeuers : ~sync_dequeue_loop(d)
      BY <3>1
      DEF sync_dequeue_loop, SyncReserve, SyncPlace, StartDequeue, LeaveDequeue,
          DequeuePacket, PassEmptySlot, AdvanceHead, histVars
    <3>5. ~Memory /\ ~Tick
      BY <3>1
      DEF Memory, CtmWriteDone, WorkqAddDone, CtmReadDone, Tick, histVars
    <3>6. \E n \in Notifiers : Enqueue(n)
      BY <3>3, <3>4, <3>5 DEF Next
    <3> QED BY <3>2, <3>6 DEF EnqueueLm, EnqueueCtm
  <2>3. r[1] \in Flows /\ r[2] \in Nat
    BY ContextAssumption DEF Flows
  <2> DEFINE d == Departure(r[1], r[2])
             b == Booking(d.slots)
             c == Cardinality(bitmasks)
  <2>4. /\ d.dep \in Nat /\ d.slots \in 0 .. ThreshSlots
        /\ d.slots > 0 => pq_head_time + d.slots * SlotTicks <= d.dep
    BY <2>1, <2>3, DepartureFacts
  <2>5. FreeOffsets(DesiredIndex(d.slots)) # {}
    BY <2>2
  <2>6. pkts' = Append(pkts, [flow |-> r[1], dep |-> d.dep,
                              due |-> pq_head_time + (b.delta + 1) * SlotTicks])
    BY <2>2 DEF Reserve
  <2> HIDE DEF d
  <2>7. b.delta \in Nat /\ b.delta - d.slots <= c /\ c \in Nat /\ d.slots \in Nat
    <3>1. bitmasks \subseteq CtmSlots
      BY <2>1 DEF TypeOK
    <3>2. c \in Nat
      BY <3>1, BitmasksFinite
    <3>3. b.delta \in Nat
      BY <2>1, <2>4, <2>5, BookingFacts
    <3>4. b.delta - d.slots <= c
      BY <2>1, <2>4, <2>5, PassedAreBooked
    <3>5. d.slots \in Nat
      BY <2>4, Sizes
    <3> QED BY <3>2, <3>3, <3>4, <3>5
  <2> HIDE DEF b, c
  <2>8. /\ pkts'[p].dep = d.dep
        /\ pkts'[p].due = pq_head_time + (b.delta + 1) * SlotTicks
    <3> DEFINE due == pq_head_time + (b.delta + 1) * SlotTicks
    <3> HIDE DEF due
    <3>1. pkts' = Append(pkts, [flow |-> r[1], dep |-> d.dep, due |-> due])
      BY <2>6 DEF due
    <3>2. Len(pkts') = Len(pkts) + 1 /\ Len(pkts) \in Nat
      BY <2>1, <3>1
    <3>3. p = Len(pkts) + 1
      BY <3>2
    <3>4. pkts'[p] = [flow |-> r[1], dep |-> d.dep, due |-> due]
      BY <2>1, <3>1, <3>3
    <3> QED BY <3>4 DEF due
  <2> DEFINE e == b.delta + 1
             f == d.slots + (c + 1)
             x == d.slots * SlotTicks
             y == (c + 1) * SlotTicks
  <2>9. /\ (b.delta + 1) * SlotTicks <= x + y
        /\ (b.delta + 1) * SlotTicks \in Nat /\ x \in Nat /\ y \in Nat
    <3>1. e \in Nat /\ f \in Nat /\ e <= f
      BY <2>7
    <3>2. f * SlotTicks = x + y
      <4> DEFINE u == d.slots
                 v == c + 1
      <4>1. u \in Nat /\ v \in Nat /\ SlotTicks \in Nat
        BY <2>7, Sizes
      <4> HIDE DEF u, v
      <4>2. (u + v) * SlotTicks = u * SlotTicks + v * SlotTicks
        BY <4>1
      <4> QED BY <4>2 DEF u, v
    <3>3. x \in Nat
      BY <2>7, Sizes
    <3>4. y \in Nat
      BY <2>7, Sizes
    <3> HIDE DEF e, f, x, y
    <3>5. e * SlotTicks <= f * SlotTicks /\ e * SlotTicks \in Nat
      BY <3>1, MulMono, Sizes
    <3> QED BY <3>2, <3>3, <3>4, <3>5 DEF e
  <2>10. pq_head_time \in Nat
    BY <2>1 DEF TypeOK
  <2>11. d.slots = 0 => x = 0
    BY Sizes
  <2>12. d.slots > 0 => pq_head_time + x <= d.dep
    BY <2>4
  <2>13. y = (Cardinality(bitmasks) + 1) * SlotTicks
    BY DEF c
  <2> DEFINE z == (b.delta + 1) * SlotTicks
  <2> HIDE DEF x, y, z
  <2>14. /\ pkts'[p].due = pq_head_time + z /\ z <= x + y /\ z \in Nat
         /\ x \in Nat /\ y \in Nat
    BY <2>8, <2>9 DEF z
  <2>15. pq_head_time + z <= (IF d.dep > pq_head_time THEN d.dep ELSE pq_head_time) + y
    BY <2>4, <2>7, <2>10, <2>11, <2>12, <2>14
  <2> QED BY <2>8, <2>13, <2>14, <2>15
<1> QED BY InitBInv, NextBInv, <1>1, PTL DEF Spec, DisplacedByBacklog

----------------------------------------------------------------------------
(* Nobody waits for ever.                                                  *)

(* A notifier only gives the engine away to wait for a register, and a     *)
(* dequeuer between its syncs and in its wait for one.                     *)
Roles ==
  /\ \A n \in Notifiers : pc[n] \in {"notify", "ctm_wait"}
  /\ \A d \in Dequeuers : pc[d] \in {"loop", "read", "wait_reg"}

LEMMA RolesMove ==
  ASSUME TypeOK, Roles, NEW c \in Contexts, NEW x, pc' = [pc EXCEPT ![c] = x],
         c \in Notifiers => x \in {"notify", "ctm_wait"},
         c \in Dequeuers => x \in {"loop", "read", "wait_reg"}
  PROVE  Roles'
<1>1. \A e \in Contexts : pc'[e] = IF e = c THEN x ELSE pc[e]
  BY DEF TypeOK
<1> QED BY <1>1 DEF Roles, Contexts

LEMMA NextRoles == TypeOK /\ Roles /\ [Next]_vars => Roles'
<1> SUFFICES ASSUME TypeOK, Roles, [Next]_vars PROVE Roles'
  OBVIOUS
<1>1. ASSUME NEW n \in Notifiers, Enqueue(n) \/ SendPacketToCtm(n) PROVE Roles'
  <2>1. n \in Contexts /\ n \notin Dequeuers
    BY ContextAssumption DEF Contexts
  <2>2. pc' = pc \/ \E x \in {"notify", "ctm_wait"} : pc' = [pc EXCEPT ![n] = x]
    BY <1>1 DEF Enqueue, EnqueueLm, EnqueueCtm, EnqueueHalt, SendPacketToCtm
  <2>3. CASE pc' = pc
    BY <2>3 DEF Roles
  <2>4. CASE \E x \in {"notify", "ctm_wait"} : pc' = [pc EXCEPT ![n] = x]
    BY <2>1, <2>4, RolesMove
  <2> QED BY <2>2, <2>3, <2>4
<1>2. ASSUME NEW d \in Dequeuers, sync_dequeue_loop(d) PROVE Roles'
  <2>1. d \in Contexts /\ d \notin Notifiers
    BY ContextAssumption DEF Contexts
  <2>2. \E x \in {"loop", "read", "wait_reg"} : pc' = [pc EXCEPT ![d] = x]
    BY <1>2 DEF sync_dequeue_loop, SyncReserve, SyncPlace, StartDequeue, LeaveDequeue,
                DequeuePacket, PassEmptySlot, AdvanceHead, LoopOrSwap
  <2> QED BY <2>1, <2>2, RolesMove
<1>3. CASE Memory \/ Tick \/ UNCHANGED vars
  <2>1. pc' = pc
    BY <1>3 DEF Memory, CtmWriteDone, WorkqAddDone, CtmReadDone, Tick, vars
  <2> QED BY <2>1 DEF Roles
<1> QED BY <1>1, <1>2, <1>3 DEF Next

LEMMA InitRoles == Init => Roles
BY ContextAssumption DEF Init, Roles, Contexts

(* No memory operation is under way, and no context but a notifier that    *)
(* gets another packet can go on before the clock does.                    *)
AtRest ==
  /\ ~halted
  /\ writes = {} /\ adds = {}
  /\ \A n \in Notifiers : pc[n] = "ctm_wait" => next_batch_out[n] \notin wq_sig[n]
  /\ \A d \in Dequeuers :
       /\ pc[d] = "loop" => ~SyncNeeded /\ ~Due(pq_head_time)
       /\ pc[d] # "read"
       /\ pc[d] = "wait_reg" => next_batch_out[d] \notin wq_sig[d]

(* Nobody waits for a register, no chunk is left to sync, no slot is due.  *)
AllServed ==
  /\ \A n \in Notifiers : pc[n] = "notify"
  /\ \A d \in Dequeuers : pc[d] = "loop"
  /\ Dequeuers # {} => ~SyncNeeded /\ \A s \in bitmasks : now < pkts[book[s]].due

LEMMA RestIsServed ==
  ASSUME SInv, BInv, Roles, AtRest
  PROVE  AllServed
<1>1. TypeOK
  BY DEF SInv, TInv
<1>2. ASSUME NEW c \in Contexts PROVE next_batch_out[c] \in wq_sig[c]
  <2>1. Ops = {} /\ next_batch_out[c] \in Regs
    BY <1>1 DEF AtRest, Ops, TypeOK
  <2> QED BY <2>1 DEF SInv
<1>3. \A n \in Notifiers : pc[n] = "notify"
  BY <1>2 DEF AtRest, Roles, Contexts
<1>4. \A d \in Dequeuers : pc[d] = "loop"
  BY <1>2 DEF AtRest, Roles, Contexts
<1>5. ASSUME Dequeuers # {} PROVE ~SyncNeeded /\ ~Due(pq_head_time)
  BY <1>4, <1>5 DEF AtRest
<1>6. ASSUME Dequeuers # {}, NEW s \in bitmasks PROVE now < pkts[book[s]].due
  <2> DEFINE k == Ahead(s)
             m == k * SlotTicks
  <2>1. now \in Nat /\ pq_head_time \in Nat /\ s \in CtmSlots /\ pq_ctm_head \in CtmSlots
    BY <1>1 DEF TypeOK
  <2>2. k \in Nat
    BY <2>1, AheadMoves DEF Ahead
  <2>3. pkts[book[s]].due = pq_head_time + (k + 1) * SlotTicks
    BY DEF BInv, BookingsExact
  <2> HIDE DEF k
  <2>4. (k + 1) * SlotTicks = m + SlotTicks /\ m \in Nat /\ SlotTicks \in Nat
    BY <2>2, MulSucc, Sizes
  <2>5. now - pq_head_time < SlotTicks
    BY <1>5, <1>6, <2>1, Sizes DEF Due
  <2>6. pkts[book[s]].due = pq_head_time + (m + SlotTicks)
    BY <2>3, <2>4
  <2> HIDE DEF m
  <2> QED BY <2>1, <2>4, <2>5, <2>6
<1> QED BY <1>3, <1>4, <1>5, <1>6 DEF AllServed

(* Contexts that cannot go on have nothing to do: notify() and             *)
(* sync_dequeue_loop() give the engine away for nothing that is not on its *)
(* way, so no set of contexts ever waits on each other.                    *)
THEOREM NobodyIsStuck == Spec => [](AtRest => AllServed)
<1>1. SInv /\ BInv /\ Roles /\ AtRest => AllServed
  BY RestIsServed
<1>2. TypeOK /\ Roles /\ [Next]_vars => Roles'
  BY NextRoles
<1>3. SInv => TypeOK
  BY DEF SInv, TInv
<1> QED BY <1>1, <1>2, <1>3, InitRoles, InitSInv, NextSInv, InitBInv, NextBInv, PTL DEF Spec

============================================================================
