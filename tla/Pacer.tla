------------------------------- MODULE Pacer -------------------------------
(***************************************************************************)
(* What the pacing queue of modified-nfd-firmware/notify.c promises the    *)
(* rest of the firmware and the driver: every accepted packet is given to  *)
(* the work queue at most once, in the order of the slots the packets were *)
(* given, never before its departure time; a packet that wants to leave no *)
(* earlier than a waiting one gets a later slot, and so does a packet of   *)
(* the same flow; and a slot is never far ahead.  There are no rings, no   *)
(* caches and no contexts.                                                 *)
(***************************************************************************)
EXTENDS Integers, Sequences

CONSTANTS
  Flows,
  Unpaced,    \* the flows with an inter-departure time of zero
  SlotTicks,
  Horizon     \* how far ahead a slot may end, in ticks

VARIABLES
  now,    \* the clock
  pkts,   \* accepted packets: flow, departure time, end of the packet's slot
  wire    \* the packets that left, in the order in which they left

pacerVars == <<now, pkts, wire>>

Init == now = 0 /\ pkts = <<>> /\ wire = <<>>

Accepted == 1 .. Len(pkts)
Waiting  == {p \in Accepted : \A i \in 1 .. Len(wire) : wire[i] # p}

(* A packet gets a slot of its own, which ends after its departure time    *)
(* and comes after every slot its flow still has and after every slot of a *)
(* packet that wants to leave no later.                                    *)
Accept ==
  /\ Len(pkts') = Len(pkts) + 1
  /\ \A p \in Accepted : pkts'[p] = pkts[p]
  /\ LET new == pkts'[Len(pkts) + 1]
     IN  /\ new.flow \in Flows
         /\ IF new.flow \in Unpaced THEN new.dep = now ELSE new.dep >= now
         /\ new.due > new.dep /\ new.due % SlotTicks = 0
         /\ new.due <= now + Horizon
         /\ \A p \in Waiting :
              /\ pkts[p].due # new.due
              /\ \/ pkts[p].flow = new.flow
                 \/ pkts[p].dep <= new.dep
                 => pkts[p].due < new.due
  /\ UNCHANGED <<now, wire>>

(* The waiting packet with the first slot leaves once its slot is over.    *)
Depart(p) ==
  /\ now >= pkts[p].due
  /\ \A q \in Waiting : pkts[p].due <= pkts[q].due
  /\ wire' = Append(wire, p)
  /\ UNCHANGED <<now, pkts>>

Tick == now' = now + 1 /\ UNCHANGED <<pkts, wire>>

Next == Accept \/ (\E p \in Waiting : Depart(p)) \/ Tick

Spec == Init /\ [][Next]_pacerVars

============================================================================
