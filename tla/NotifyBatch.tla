---------------------------- MODULE NotifyBatch ----------------------------
(***************************************************************************)
(* One side of modified-nfd-firmware/notify.c upstream of the pacing       *)
(* queue: the context that takes batches of descriptors from the ring of   *)
(* issued messages (notify), and the manager context that passes sequence  *)
(* numbers on (distr_notify).  The two sides of an engine share no state   *)
(* that outlives a stretch between two points where a context gives the    *)
(* engine away, and such a stretch is one action here.                     *)
(*                                                                         *)
(* The issue_dma engine is not part of the repository.  It puts batches    *)
(* on the ring, starts their DMAs, and reflects how many have completed.   *)
(* As in the Disruptor, the rings never lose what was in them: a reader is *)
(* a count of the entries it took.                                         *)
(*                                                                         *)
(* An operator marked "slip" is not part of the model: it is a plausible   *)
(* mistake in the definition that follows it.                              *)
(***************************************************************************)
EXTENDS Integers, Sequences, FiniteSets, SequencesExt

CONSTANTS
  BatchSize,    \* NFD_IN_MAX_BATCH_SZ, 8
  RingBatches,  \* batches the issued ring has room for
  SeqNumbers,   \* how many sequence numbers there are, 2^32
  JumboNumbers, \* and how many of jumbo DMAs, 2^32
  Batches,      \* the batches issue_dma may make
  MaxBatches,   \* bound: batches issued in a behaviour
  MaxJumboLag   \* environment: jumbo DMAs completed and not yet reflected

(* A batch has the queue it is of, the number n of descriptors it stands   *)
(* for, and BatchSize messages.  A message is <<"packet">>, <<"none">>     *)
(* (part of a packet that is not its last), or <<"lso", e>> where e tells  *)
(* of each entry it has in the LSO ring whether a packet ends there.  The  *)
(* loop of notify that takes its entries expects at least one.             *)
ASSUME BatchAssumption ==
  /\ BatchSize \in Nat /\ BatchSize > 1
  /\ \A b \in Batches :
       /\ b.n \in Nat \ {0} /\ Len(b.messages) = BatchSize
       /\ \A i \in 1 .. BatchSize :
            \/ b.messages[i] \in {<<"packet">>, <<"none">>}
            \/ b.messages[i][1] = "lso" /\ b.messages[i][2] \in Seq(BOOLEAN) \ {<<>>}

(* The window of outstanding messages must fit the sequence numbers.       *)
ASSUME WindowAssumption ==
  /\ {RingBatches, SeqNumbers, MaxBatches} \subseteq Nat \ {0}
  /\ MaxJumboLag \in Nat
  /\ RingBatches * BatchSize < SeqNumbers

VARIABLES
  issued,       \* batches issued
  lso_entries,  \* entries for the LSO ring: message, whether a packet ends, last of message
  dma_fifo,     \* DMAs under way, oldest first
  data_done, jumbo_done,   \* DMAs completed
  data_refl, jumbo_refl,   \* as reflected into the transfer registers
  lso_put,      \* entries put in the LSO ring
  served_refl,  \* data_dma_seq_served as issue_dma knows it
  complete, served, sent,  \* data_dma_seq_compl, _served, _sent
  taken,        \* messages taken from the issued ring
  want,         \* messages a get under way is to take
  lso_taken,    \* entries taken from the LSO ring
  pc, mode,
  num_avail, partial_served,
  batch_in,     \* messages that arrived and are not yet processed
  n_batch, qc_queue,
  qc_add,       \* the addition to a TX_R pointer under way
  tx_r,         \* TX_R pointer of each queue
  out           \* history: what was enqueued, and with which message's pacing

issuer   == <<issued, lso_entries, dma_fifo, data_done, jumbo_done,
              data_refl, jumbo_refl, lso_put, served_refl>>
counters == <<complete, served, sent>>
rings    == <<taken, want, lso_taken>>
context  == <<pc, mode, num_avail, partial_served, batch_in, n_batch, qc_queue>>
credits  == <<qc_add, tx_r>>
vars     == <<issuer, counters, rings, context, credits, out>>

Queues == {b.queue : b \in Batches}
Idle   == [queue |-> CHOOSE q \in Queues : TRUE, n |-> 0]   \* no addition

Minus(x, y) == (x - y) % SeqNumbers                 \* unsigned difference
JumboAfter(x, y) ==                            \* signed difference > 0
  (x - y) % JumboNumbers \in 1 .. (JumboNumbers \div 2) - 1

Issued     == BatchSize * Len(issued)
BatchOf(m) == issued[((m - 1) \div BatchSize) + 1]
Message(m) == BatchOf(m).messages[((m - 1) % BatchSize) + 1]
IsLso(msg) == msg[1] = "lso"

Init ==
  /\ issued = <<>> /\ lso_entries = <<>> /\ dma_fifo = <<>>
  /\ data_done = 0 /\ jumbo_done = 0 /\ data_refl = 0 /\ jumbo_refl = 0
  /\ lso_put = 0 /\ served_refl = 0
  /\ complete = 0 /\ served = 0 /\ sent = 0
  /\ taken = 0 /\ want = 0 /\ lso_taken = 0
  /\ pc = "start" /\ mode = "full"
  /\ num_avail = 0 /\ partial_served = 0 /\ batch_in = <<>>
  /\ n_batch = 0 /\ qc_queue = Idle.queue
  /\ qc_add = Idle /\ tx_r = [q \in Queues |-> 0]
  /\ out = <<>>

----------------------------------------------------------------------------
(* The issue_dma engine and the DMA engine.                                *)

(* The jumbo DMAs of a message come after the one its sequence number      *)
(* counts, and before those of the messages after it.                      *)
Dmas(msg) ==
  <<"data">> \o (IF IsLso(msg) THEN [i \in 1 .. Len(msg[2]) |-> "jumbo"] ELSE <<>>)

EntriesOf(m, msg) ==
  IF IsLso(msg)
  THEN [i \in 1 .. Len(msg[2]) |->
          [message |-> m, eop |-> msg[2][i], last |-> i = Len(msg[2])]]
  ELSE <<>>

(* The difference of two jumbo sequence numbers in use must fit a signed   *)
(* number: those of the ring and of the batch that is being processed, and *)
(* those of a message and what is not yet reflected.                       *)
JumbosOf(b) == Len(FlattenSeq([i \in 1 .. BatchSize |-> EntriesOf(i, b.messages[i])]))
ASSUME JumboAssumption ==
  /\ JumboNumbers \in Nat \ {0}
  /\ \A b \in Batches :
       /\ 2 * (RingBatches + 1) * JumbosOf(b) < JumboNumbers
       /\ \A i \in 1 .. BatchSize :
            IsLso(b.messages[i]) =>
              Len(b.messages[i][2]) + MaxJumboLag < JumboNumbers \div 2

HasRoom == Minus(Issued, served_refl) <= (RingBatches - 1) * BatchSize

IssueBatch(b) ==
  /\ Len(issued) < MaxBatches
  /\ HasRoom
  /\ issued' = Append(issued, b)
  /\ dma_fifo' = dma_fifo \o
       FlattenSeq([i \in 1 .. BatchSize |-> Dmas(b.messages[i])])
  /\ lso_entries' = lso_entries \o
       FlattenSeq([i \in 1 .. BatchSize |-> EntriesOf(Issued + i, b.messages[i])])
  /\ UNCHANGED <<data_done, jumbo_done, data_refl, jumbo_refl, lso_put,
                 served_refl, counters, rings, context, credits, out>>

PutLso ==
  /\ lso_put < Len(lso_entries)
  /\ lso_put' = lso_put + 1
  /\ UNCHANGED <<issued, lso_entries, dma_fifo, data_done, jumbo_done,
                 data_refl, jumbo_refl, served_refl, counters, rings, context,
                 credits, out>>

DmaDone ==
  /\ dma_fifo # <<>>
  /\ dma_fifo' = Tail(dma_fifo)
  /\ IF Head(dma_fifo) = "data"
     THEN data_done' = data_done + 1 /\ UNCHANGED jumbo_done
     ELSE /\ jumbo_done - jumbo_refl < MaxJumboLag
          /\ jumbo_done' = jumbo_done + 1 /\ UNCHANGED data_done
  /\ UNCHANGED <<issued, lso_entries, data_refl, jumbo_refl, lso_put,
                 served_refl, counters, rings, context, credits, out>>

DataReflected ==
  /\ data_refl # data_done
  /\ data_refl' = data_done
  /\ UNCHANGED <<issued, lso_entries, dma_fifo, data_done, jumbo_done,
                 jumbo_refl, lso_put, served_refl, counters, rings, context,
                 credits, out>>

JumboReflected ==
  /\ jumbo_refl # jumbo_done
  /\ jumbo_refl' = jumbo_done
  /\ UNCHANGED <<issued, lso_entries, dma_fifo, data_done, jumbo_done,
                 data_refl, lso_put, served_refl, counters, rings, context,
                 credits, out>>

(* A value under way is read from its register when the engine sends it,   *)
(* so what arrives is the latest.                                          *)
ServedReflected ==
  /\ served_refl # sent
  /\ served_refl' = sent
  /\ UNCHANGED <<issued, lso_entries, dma_fifo, data_done, jumbo_done,
                 data_refl, jumbo_refl, lso_put, counters, rings, context,
                 credits, out>>

(* A get of the issued ring is carried out. *)
GetDone ==
  /\ want > 0
  /\ taken + want <= Issued
  /\ batch_in' = [i \in 1 .. want |-> taken + i]
  /\ taken' = taken + want
  /\ want' = 0
  /\ UNCHANGED <<issuer, counters, lso_taken, pc, mode, num_avail,
                 partial_served, n_batch, qc_queue, credits, out>>

QcAddDone ==
  /\ qc_add # Idle
  /\ tx_r' = [tx_r EXCEPT ![qc_add.queue] = @ + qc_add.n]
  /\ qc_add' = Idle
  /\ UNCHANGED <<issuer, counters, rings, context, out>>

----------------------------------------------------------------------------
(* The manager.  Slips: served only goes out with news of data; what is *)
(* complete goes out instead.                                              *)
ServedWithData ==
  /\ complete # data_refl % SeqNumbers
  /\ complete' = data_refl % SeqNumbers
  /\ sent' = served
  /\ UNCHANGED <<issuer, served, rings, context, credits, out>>

CompleteSent ==
  /\ complete # data_refl % SeqNumbers \/ sent # complete
  /\ complete' = data_refl % SeqNumbers
  /\ sent' = complete'
  /\ UNCHANGED <<issuer, served, rings, context, credits, out>>

distr_notify ==
  /\ complete # data_refl % SeqNumbers \/ sent # served
  /\ complete' = data_refl % SeqNumbers
  /\ sent' = served
  /\ UNCHANGED <<issuer, served, rings, context, credits, out>>

----------------------------------------------------------------------------
(* The notifier: choosing what to do.  *)

StartFull ==
  /\ pc = "start"
  /\ num_avail' = Minus(complete, served)
  /\ num_avail' >= BatchSize
  /\ want' = BatchSize
  /\ served' = (served + BatchSize) % SeqNumbers
  /\ pc' = "wait_first" /\ mode' = "full"
  /\ UNCHANGED <<issuer, complete, sent, taken, lso_taken, partial_served,
                 batch_in, n_batch, qc_queue, credits, out>>

StartPartial ==
  /\ pc = "start"
  /\ num_avail' = Minus(complete, served)
  /\ num_avail' \in 1 .. BatchSize - 1
  /\ want' = 1
  /\ partial_served' = 0
  /\ pc' = "wait_first" /\ mode' = "partial"
  /\ UNCHANGED <<issuer, counters, taken, lso_taken, batch_in, n_batch,
                 qc_queue, credits, out>>

(* The number of descriptors and the queue are in the first message. *)
FirstArrived ==
  /\ pc = "wait_first" /\ want = 0
  /\ n_batch'  = BatchOf(batch_in[1]).n
  /\ qc_queue' = BatchOf(batch_in[1]).queue
  /\ partial_served' = IF mode = "partial" THEN 1 ELSE partial_served
  /\ pc' = "process"
  /\ UNCHANGED <<issuer, counters, rings, mode, num_avail, batch_in, credits,
                 out>>

(* The rest of a partial batch is fetched one message at a time.           *)
MoreDone  == num_avail > partial_served

WaitForMore ==
  /\ pc = "more"
  /\ ~MoreDone
  /\ complete' = data_refl % SeqNumbers
  /\ num_avail' = Minus(complete', served)
  /\ UNCHANGED <<issuer, served, sent, rings, pc, mode, partial_served,
                 batch_in, n_batch, qc_queue, credits, out>>

PastLast == partial_served = BatchSize       \* slip: off by one
AtLast   == partial_served = BatchSize - 1

FetchNext ==
  /\ pc = "more"
  /\ MoreDone
  /\ want' = 1
  /\ IF AtLast
     THEN mode' = "last" /\ served' = (served + BatchSize) % SeqNumbers
     ELSE UNCHANGED <<mode, served>>
  /\ pc' = "wait_next"
  /\ UNCHANGED <<issuer, complete, sent, taken, lso_taken, num_avail,
                 partial_served, batch_in, n_batch, qc_queue, credits, out>>

NextArrived ==
  /\ pc = "wait_next" /\ want = 0
  /\ partial_served' = IF mode = "partial" THEN partial_served + 1
                                           ELSE partial_served
  /\ pc' = "process"
  /\ UNCHANGED <<issuer, counters, rings, mode, num_avail, batch_in, n_batch,
                 qc_queue, credits, out>>

----------------------------------------------------------------------------
(* The notifier: processing the message at the head of batch_in.           *)

Enqueue(m, entry) == out' = Append(out, [packet |-> entry, paced_by |-> m])

FinishMessage ==
  /\ batch_in' = Tail(batch_in)
  /\ pc' = IF batch_in' # <<>>  THEN "process"
           ELSE IF mode = "partial" THEN "more" ELSE "credit"

ProcessPacket ==
  /\ pc = "process" /\ Message(Head(batch_in))[1] = "packet"
  /\ Enqueue(Head(batch_in), <<Head(batch_in)>>)
  /\ FinishMessage
  /\ UNCHANGED <<issuer, counters, rings, mode, num_avail, partial_served,
                 n_batch, qc_queue, credits>>

ProcessNone ==
  /\ pc = "process" /\ Message(Head(batch_in))[1] = "none"
  /\ FinishMessage
  /\ UNCHANGED <<issuer, counters, rings, mode, num_avail, partial_served,
                 n_batch, qc_queue, credits, out>>

ProcessLso ==
  /\ pc = "process" /\ IsLso(Message(Head(batch_in)))
  /\ pc' = "lso_get"
  /\ UNCHANGED <<issuer, counters, rings, mode, num_avail, partial_served,
                 batch_in, n_batch, qc_queue, credits, out>>

(* Entry k of the LSO ring carries the number of jumbo DMAs issued up to   *)
(* its own: k.  A get of the empty ring fails and is repeated.             *)
JumboPending(k) == JumboAfter(k % JumboNumbers, jumbo_refl % JumboNumbers)

LsoGet ==
  /\ pc = "lso_get"
  /\ lso_taken < lso_put
  /\ lso_taken' = lso_taken + 1
  /\ pc' = IF JumboPending(lso_taken') THEN "jumbo" ELSE "segment"
  /\ UNCHANGED <<issuer, counters, taken, want, mode, num_avail,
                 partial_served, batch_in, n_batch, qc_queue, credits, out>>

(* The wait also ends when a message after this batch has been completed.  *)
SomeDmaDone(avail)    == avail > 0           \* slip: this batch counts too
LaterBatchDone(avail) == avail > BatchSize

JumboWait ==
  /\ pc = "jumbo"
  /\ complete' = data_refl % SeqNumbers
  /\ num_avail' = Minus(complete', served)
  /\ pc' = IF JumboPending(lso_taken) /\ ~LaterBatchDone(num_avail')
           THEN "jumbo" ELSE "segment"
  /\ UNCHANGED <<issuer, served, sent, rings, mode, partial_served, batch_in,
                 n_batch, qc_queue, credits, out>>

UntilEop(e)  == e.eop                        \* slip: ends with a packet
LastEntry(e) == e.last

Segment ==
  /\ pc = "segment"
  /\ LET e == lso_entries[lso_taken]
     IN  /\ IF e.eop THEN Enqueue(Head(batch_in), <<e.message, lso_taken>>)
                     ELSE UNCHANGED out
         /\ IF LastEntry(e) THEN FinishMessage
                      ELSE pc' = "lso_get" /\ UNCHANGED batch_in
  /\ UNCHANGED <<issuer, counters, rings, mode, num_avail, partial_served,
                 n_batch, qc_queue, credits>>

QcIgnored == TRUE                                \* slip: no wait for qc_sig
QcIdle    == qc_add = Idle                          \* qc_sig is raised

Credit ==
  /\ pc = "credit"
  /\ QcIdle
  /\ qc_add' = [queue |-> qc_queue, n |-> n_batch]
  /\ pc' = "start"
  /\ UNCHANGED <<issuer, counters, rings, mode, num_avail, partial_served,
                 batch_in, n_batch, qc_queue, tx_r, out>>

----------------------------------------------------------------------------
notify ==
  \/ StartFull \/ StartPartial \/ FirstArrived \/ WaitForMore \/ FetchNext
  \/ NextArrived \/ ProcessPacket \/ ProcessNone \/ ProcessLso \/ LsoGet
  \/ JumboWait \/ Segment \/ Credit

Engines ==
  PutLso \/ DmaDone \/ DataReflected \/ JumboReflected \/ ServedReflected
    \/ GetDone \/ QcAddDone

Next == notify \/ distr_notify \/ Engines \/ \E b \in Batches : IssueBatch(b)

(* Contexts take turns, and a DMA, a reflection or a memory operation is   *)
(* not delayed for ever.  Nobody has to issue anything.                    *)
Fairness ==
  /\ WF_vars(notify) /\ WF_vars(distr_notify)
  /\ WF_vars(PutLso) /\ WF_vars(DmaDone) /\ WF_vars(DataReflected)
  /\ WF_vars(JumboReflected) /\ WF_vars(ServedReflected)
  /\ WF_vars(GetDone) /\ WF_vars(QcAddDone)

Spec == Init /\ [][Next]_vars
FairSpec == Spec /\ Fairness

----------------------------------------------------------------------------
(* Every variable stays in its range. *)

(* A message is only asked for once its DMA has completed, however old the *)
(* sequence numbers are that complete and served hold.                     *)
FetchedAreDone == taken + want <= data_done

(* No segment is enqueued before its jumbo DMA has completed, also when    *)
(* the wait was ended by a later batch.                                    *)
SegmentsAreDone ==
  \A i \in DOMAIN out : Len(out[i].packet) = 2 => out[i].packet[2] <= jumbo_done

(* Nothing is used before it is in memory.                                 *)
UsedWhenDone == FetchedAreDone /\ SegmentsAreDone

(* issue_dma, which trusts the reflected served, never has more messages   *)
(* on the ring than it has room for, those already asked for left out.     *)
RingNotOverrun == Issued - (taken + want) <= RingBatches * BatchSize

(* The batches that were processed to the end.                             *)
InBatch      == pc # "start"
BatchesBegun == (taken + want + BatchSize - 1) \div BatchSize
Credited     == IF InBatch THEN BatchesBegun - 1 ELSE BatchesBegun

(* TX_R of a queue, with the addition under way, stands for the            *)
(* descriptors of exactly the batches that were processed to the end.      *)
DescriptorsOf(q, k) ==
  FoldLeft(+, 0, [i \in 1 .. k |-> IF issued[i].queue = q THEN issued[i].n ELSE 0])
CreditsExact ==
  \A q \in Queues :
    tx_r[q] + (IF qc_add.queue = q THEN qc_add.n ELSE 0) = DescriptorsOf(q, Credited)

(* What the notifier enqueues is what was issued, in that order, each      *)
(* packet once, and every segment with the pacing of the message it is of; *)
(* and nothing of a batch that was credited is missing.                    *)
Packets ==
  {<<m>> : m \in {l \in 1 .. Issued : Message(l)[1] = "packet"}}
    \cup {<<lso_entries[k].message, k>> : k \in {j \in DOMAIN lso_entries : lso_entries[j].eop}}
Gone          == {out[i].packet : i \in DOMAIN out}
Earlier(p, q) == p[1] < q[1] \/ (p[1] = q[1] /\ Last(p) < Last(q))

EnqueuedAsIssued ==
  /\ Gone \subseteq Packets
  /\ \A i \in DOMAIN out : out[i].paced_by = out[i].packet[1]
  /\ \A i, j \in DOMAIN out : i < j => Earlier(out[i].packet, out[j].packet)
  /\ \A p \in Packets \ Gone :
       p[1] > Credited * BatchSize /\ \A q \in Gone : Earlier(q, p)

(* Every batch is credited in the end, whether it was found complete or    *)
(* half complete, alone or followed by others.                             *)
AllAreCredited == []<>(Credited = Len(issued) /\ qc_add = Idle)

(* issue_dma hears of it, and can always go on.                            *)
RoomComesBack == []<>HasRoom

============================================================================
