------------------------------ MODULE MCNetDev ------------------------------
(* The instance of NetDev for TLC.  Receive mode and link share no state:  *)
(* a behaviour changes one of them.                                        *)
EXTENDS NetDev

VARIABLE changing

MCInit == Init /\ changing \in {"rx_mode", "link"}

MCNext ==
  /\ \/ Rtnl
     \/ changing = "rx_mode" /\ \E w \in BOOLEAN : nfp_net_set_rx_mode(w)
     \/ PostedStarts \/ PostedEnds \/ PreStarts \/ OwnStarts
     \/ FwActs \/ FwEndsLate
     \/ changing = "link" /\ LinkChanges
     \/ IrqLsc \/ IrqLscReads \/ IrqLscUnmasks
  /\ UNCHANGED changing

MCSpec == MCInit /\ [][MCNext]_<<vars, changing>>

============================================================================
