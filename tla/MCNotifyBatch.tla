--------------------------- MODULE MCNotifyBatch ---------------------------
(* Instances of NotifyBatch for TLC. *)
EXTENDS NotifyBatch

(* Part of a packet that ends elsewhere, a packet cut into segments, with  *)
(* an entry where none ends, and a packet of one descriptor.               *)
MixedBatches ==
  {[queue |-> "q1", n |-> 2,
    messages |-> <<<<"none">>, <<"lso", <<TRUE, FALSE, TRUE>>>>, <<"packet">>>>]}

============================================================================
