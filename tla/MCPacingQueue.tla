--------------------------- MODULE MCPacingQueue ---------------------------
(* Instances of PacingQueue for TLC. *)
EXTENDS PacingQueue, TLC

(* Flow 0 is the flow that is not paced; flow 1 asks for a long gap. *)
MixedRequests == {<<0, 0>>, <<1, 9>>}

(* Gaps that are no whole number of slots, one of them past the horizon.   *)
UnalignedRequests == {<<1, 3>>, <<2, 27>>}

Symmetry == Permutations(Notifiers) \cup Permutations(Dequeuers)

(* A crowd of up to MaxPackets packets comes in the first ticks only, and  *)
(* is not followed further; two packets are, until the rings come round.   *)
CrowdTime == 3

FewPackets == 2

MayArrive == now <= CrowdTime \/ Len(pkts) < FewPackets

ArrivesInLm(n, r)  == MayArrive /\ EnqueueLm(n, r[1], r[2])
ArrivesInCtm(n, r) == MayArrive /\ EnqueueCtm(n, r[1], r[2])
ArrivesToHalt(n, r) == MayArrive /\ EnqueueHalt(n, r[1], r[2])

ClockRuns == (now < CrowdTime \/ Len(pkts) <= FewPackets) /\ Tick

MCNext ==
  \/ \E n \in Notifiers : SendPacketToCtm(n)
  \/ \E n \in Notifiers, r \in Requests :
       ArrivesInLm(n, r) \/ ArrivesInCtm(n, r) \/ ArrivesToHalt(n, r)
  \/ \E d \in Dequeuers : sync_dequeue_loop(d)
  \/ Memory
  \/ ClockRuns

MCSpec == Init /\ [][MCNext]_vars

MCFairSpec == MCSpec /\ Fairness

============================================================================
