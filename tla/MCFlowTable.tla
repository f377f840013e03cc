---------------------------- MODULE MCFlowTable ----------------------------
(* Instances of FlowTable for TLC. *)
EXTENDS FlowTable, TLC

(* A packet that is no burst, and a burst whose gaps are capped.  With 40  *)
(* units per second, 1500 bytes at 30 bytes per second want 2000 units.    *)
SmallAndBurst ==
  {[gso |-> FALSE, gso_segs |-> 1,  packet_size |-> 1500, rate |-> 28],
   [gso |-> TRUE,  gso_segs |-> 26, packet_size |-> 1500, rate |-> 30]}

Symmetry == Permutations(Hashes)

============================================================================
