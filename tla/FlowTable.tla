----------------------------- MODULE FlowTable -----------------------------
(***************************************************************************)
(* The driver's table of paced flows, flow_state of nfp_net_common.c, with *)
(* the pacing queue behind it: how a packet gets a flow id on one of many  *)
(* CPUs, which use the table without a lock, and what ids that are taken   *)
(* over by other flows do to the order of packets.                         *)
(*                                                                         *)
(* The stack transmits one packet at a time on a queue and keeps a flow on *)
(* its queue, so the actors are the flows.  An action is one access to the *)
(* table; the test of an entry reads hash and expiry time in one, which is *)
(* the same as reading them one after the other since no hash that was     *)
(* written becomes zero again.                                             *)
(***************************************************************************)
EXTENDS Idt, Sequences, FiniteSets

CONSTANTS
  Hashes,        \* the flows, by their non-zero hashes
  None,          \* hash 0, of an entry never used
  NFP_FLOW_SLOTS,
  BURST_THRESH,
  Timeout,       \* NFP_FLOW_TIMEOUT_J, in jiffies
  Jiffy,         \* ticks of a jiffy
  SlotTicks, Horizon,  \* of the pacing queue
  Sends,         \* kinds of packet: gso, gso_segs, packet_size, rate
  MaxPackets,    \* bound: packets transmitted in a behaviour
  MaxTime,       \* bound: the last tick of the clock
  MaxTransit,    \* environment: longest time from the table to the firmware
  MaxLate        \* environment: how late the firmware serves a slot that is over

Entries == 1 .. NFP_FLOW_SLOTS
Ids     == 0 .. NFP_FLOW_SLOTS

ASSUME TableAssumption ==
  /\ {NFP_FLOW_SLOTS, BURST_THRESH, Timeout, Jiffy, SlotTicks,
        Horizon} \subseteq Nat \ {0}
  /\ {MaxPackets, MaxTime, MaxTransit, MaxLate} \subseteq Nat
  /\ NFP_FLOW_SLOTS < FlowRange
  /\ None \notin Hashes
  /\ Sends \subseteq [gso : BOOLEAN, gso_segs : Nat, packet_size : Nat, rate : Nat]
  /\ \A p \in Sends : p.gso \/ p.gso_segs <= 1

(* An entry outlives the packets that were sent with its id.  Since an     *)
(* expiry time is counted in whole jiffies, one of them may be nearly over.*)
ASSUME TimeoutAssumption == (Timeout - 1) * Jiffy >= MaxTransit + Horizon + MaxLate

VARIABLES
  now,                 \* the clock
  hash, expires,       \* flow_state
  pc, skb, i, at,      \* of each flow's transmit path: place, packet, entry, jiffies
  transit,             \* its descriptors on the way to the firmware
  pkts, wire,          \* the pacing queue: see Pacer
  owner,               \* history: the flow of each accepted packet
  saw,                 \* history: the expiry time the search saw
  robbed               \* history: flows that lost their id in a race

tableVars == <<hash, expires>>
pathVars  == <<pc, skb, i, at, saw>>
queueVars == <<pkts, wire, owner>>
vars == <<now, tableVars, pathVars, transit, queueVars, robbed>>

Queue == INSTANCE Pacer WITH
  Flows <- Ids, Unpaced <- {0}, SlotTicks <- SlotTicks, Horizon <- Horizon,
  now <- now, pkts <- pkts, wire <- wire

NoSkb == [gso |-> FALSE, gso_segs |-> 0, packet_size |-> 0, rate |-> 0]

Init ==
  /\ now = 0
  /\ hash = [e \in Entries |-> None] /\ expires = [e \in Entries |-> 0]
  /\ pc = [f \in Hashes |-> "idle"] /\ skb = [f \in Hashes |-> NoSkb]
  /\ i = [f \in Hashes |-> 0] /\ at = [f \in Hashes |-> 0]
  /\ transit = [f \in Hashes |-> <<>>]
  /\ pkts = <<>> /\ wire = <<>> /\ owner = <<>>
  /\ saw = [f \in Hashes |-> 0] /\ robbed = {}

----------------------------------------------------------------------------
(* An operator marked "Slip" is not part of the model: it is a plausible   *)
(* mistake in the definition that follows it.                              *)

jiffies == now \div Jiffy

(* Slip: a used entry is never waited for.                                 *)
FreeAtOnce(f, e) == TRUE

(* "hash == 0 || time_after_eq(now, expires)".                             *)
Free(f, e) == hash[e] = None \/ at[f] >= expires[e]

(* The descriptor's field, with the gap the two idt functions put into it; *)
(* without a flow id they leave it alone.                                  *)
Vlan(p, id) ==
  IF id = 0 THEN 0
  ELSE Field(id, IF p.gso THEN BurstIdt(p.packet_size, p.rate, p.gso_segs)
                          ELSE SingleIdt(p.packet_size, p.rate))

Descriptor(p, id) ==
  [vlan |-> Vlan(p, id), id |-> id, segs |-> p.gso_segs, since |-> now]

InTransit == UNION {{f} \X (1 .. Len(transit[f])) : f \in Hashes}
Underway  == Len(owner) + Cardinality({f \in Hashes : pc[f] # "idle"})
             + Cardinality(InTransit)

(* nfp_net_tx() calls nfp_net_tx_set_flow_id().                            *)
Transmit(f, p) ==
  /\ pc[f] = "idle"
  /\ Underway < MaxPackets
  /\ skb' = [skb EXCEPT ![f] = p]
  /\ i' = [i EXCEPT ![f] = 1]
  /\ pc' = [pc EXCEPT ![f] = "lookup"]
  /\ UNCHANGED <<now, tableVars, at, saw, transit, queueVars, robbed>>

(* The descriptor is filled and posted.                                    *)
Post(f, id) ==
  /\ transit' = [transit EXCEPT ![f] = Append(@, Descriptor(skb[f], id))]
  /\ pc' = [pc EXCEPT ![f] = "idle"]
  /\ skb' = [skb EXCEPT ![f] = NoSkb]
  /\ i' = [i EXCEPT ![f] = 0]
  /\ at' = [at EXCEPT ![f] = 0]
  /\ saw' = [saw EXCEPT ![f] = 0]

(* Slip: the search for the flow stops one entry early.                    *)
LastLooked == NFP_FLOW_SLOTS - 1

LastEntry == NFP_FLOW_SLOTS

(* "Check if flow is in paced state": one entry.                           *)
LookUp(f) ==
  /\ pc[f] = "lookup"
  /\ \/ /\ hash[i[f]] = f
        /\ pc' = [pc EXCEPT ![f] = "stamp"]
        /\ UNCHANGED i
     \/ /\ hash[i[f]] # f /\ i[f] < LastEntry
        /\ i' = [i EXCEPT ![f] = @ + 1]
        /\ UNCHANGED pc
     \/ /\ hash[i[f]] # f /\ i[f] >= LastEntry
        /\ skb[f].gso_segs >= BURST_THRESH
        /\ pc' = [pc EXCEPT ![f] = "clock"]
        /\ UNCHANGED i
  /\ UNCHANGED <<now, tableVars, skb, at, saw, transit, queueVars, robbed>>

(* "Not above burst threshold -> dont pace".                               *)
SkipPacing(f) ==
  /\ pc[f] = "lookup"
  /\ hash[i[f]] # f /\ i[f] = LastEntry
  /\ skb[f].gso_segs < BURST_THRESH
  /\ Post(f, 0)
  /\ UNCHANGED <<now, tableVars, queueVars, robbed>>

ReadJiffies(f) ==
  /\ pc[f] = "clock"
  /\ at' = [at EXCEPT ![f] = jiffies]
  /\ i' = [i EXCEPT ![f] = 1]
  /\ pc' = [pc EXCEPT ![f] = "search"]
  /\ UNCHANGED <<now, tableVars, skb, saw, transit, queueVars, robbed>>

(* "Insert next free slot (first flow with expired timer)": one entry.     *)
Search(f) ==
  /\ pc[f] = "search"
  /\ \/ /\ Free(f, i[f])
        /\ pc' = [pc EXCEPT ![f] = "claim"]
        /\ saw' = [saw EXCEPT ![f] = expires[i[f]]]
        /\ UNCHANGED i
     \/ /\ ~Free(f, i[f]) /\ i[f] < NFP_FLOW_SLOTS
        /\ i' = [i EXCEPT ![f] = @ + 1]
        /\ UNCHANGED <<pc, saw>>
  /\ UNCHANGED <<now, tableVars, skb, at, transit, queueVars, robbed>>

(* "If no free slot found, dont pace".                                     *)
NoneFree(f) ==
  /\ pc[f] = "search"
  /\ ~Free(f, i[f]) /\ i[f] = NFP_FLOW_SLOTS
  /\ Post(f, 0)
  /\ UNCHANGED <<now, tableVars, queueVars, robbed>>

(* The first of the two writes: from here on the entry is found by its new *)
(* flow, and is still expired for everybody.  History: whoever renewed or  *)
(* took it since the search looked at it is robbed of it.                  *)
WriteHash(f) ==
  /\ pc[f] = "claim"
  /\ hash' = [hash EXCEPT ![i[f]] = f]
  /\ robbed' = robbed \cup (IF expires[i[f]] # saw[f] THEN {hash[i[f]]} ELSE {})
  /\ pc' = [pc EXCEPT ![f] = "stamp"]
  /\ UNCHANGED <<now, expires, skb, i, at, saw, transit, queueVars>>

(* Slip: the entry of a known flow is not renewed.                         *)
Unrenewed(f) == IF at[f] = 0 THEN expires[i[f]] ELSE jiffies + Timeout

Renewed(f) == jiffies + Timeout

(* The second write, by which a known flow renews its entry too.  History: *)
(* it may be another flow's by now.                                        *)
WriteExpires(f) ==
  /\ pc[f] = "stamp"
  /\ expires' = [expires EXCEPT ![i[f]] = Renewed(f)]
  /\ robbed' = robbed \cup (IF hash[i[f]] # f THEN {f} ELSE {})
  /\ Post(f, i[f])
  /\ UNCHANGED <<now, hash, queueVars>>

----------------------------------------------------------------------------
(* The firmware: DMA and batches keep a queue's descriptors in order, and  *)
(* the pacing queue takes each for the flow id in its field.               *)

FwEnqueue(f) ==
  /\ transit[f] # <<>>
  /\ \E dep \in now .. now + Horizon, due \in now + 1 .. now + Horizon :
       pkts' = Append(pkts, [flow |-> FieldFlow(Head(transit[f]).vlan),
                             dep |-> dep, due |-> due])
  /\ Queue!Accept
  /\ owner' = Append(owner, f)
  /\ transit' = [transit EXCEPT ![f] = Tail(@)]
  /\ UNCHANGED <<tableVars, pathVars, robbed>>

FwDepart ==
  /\ \E p \in Queue!Waiting : Queue!Depart(p)
  /\ UNCHANGED <<tableVars, pathVars, transit, owner, robbed>>

Tick ==
  /\ now < MaxTime
  /\ \A f \in Hashes : \A k \in 1 .. Len(transit[f]) :
       now < transit[f][k].since + MaxTransit
  /\ \A p \in Queue!Waiting : now < pkts[p].due + MaxLate
  /\ Queue!Tick
  /\ UNCHANGED <<tableVars, pathVars, transit, owner, robbed>>

nfp_net_tx_set_flow_id(f) ==
  \/ LookUp(f) \/ SkipPacing(f) \/ ReadJiffies(f) \/ Search(f) \/ NoneFree(f)
  \/ WriteHash(f) \/ WriteExpires(f)

Next ==
  \/ \E f \in Hashes : \/ \E p \in Sends : Transmit(f, p)
                       \/ nfp_net_tx_set_flow_id(f)
                       \/ FwEnqueue(f)
  \/ FwDepart
  \/ Tick

Spec == Init /\ [][Next]_vars

----------------------------------------------------------------------------
(* Properties.                                                             *)

(* However many CPUs search and write without a lock, a flow never has two *)
(* entries, of which it would use the one and renew only that.             *)
OneEntryPerFlow ==
  \A d, e \in Entries : hash[d] = hash[e] => d = e \/ hash[d] = None

(* The packets of f that have not left: the ids they were sent with.       *)
IdsUnderway(f) ==
  {transit[f][k].id : k \in 1 .. Len(transit[f])}
  \cup {pkts[p].flow : p \in {q \in Queue!Waiting : owner[q] = f}}

(* An id changes hands only when the packets of its last owner are gone:   *)
(* two flows have packets under way with one id only if one of them lost   *)
(* the entry to the other in a race of the unlocked accesses.              *)
IdsNotShared ==
  \A f, g \in Hashes \ robbed :
    f # g => IdsUnderway(f) \cap IdsUnderway(g) \subseteq {0}

(* A flow's packets leave in the order in which they were transmitted,     *)
(* when the flow gets an id, is without one or has another, too.           *)
FlowsLeaveInOrder ==
  \A j, k \in 1 .. Len(wire) :
    /\ j < k /\ owner[wire[j]] = owner[wire[k]]
    /\ owner[wire[j]] \notin robbed
    => wire[j] < wire[k]

(* The firmware finds the id the driver meant, an unpaced packet waits for *)
(* nothing, and the gaps of a burst add up to what "total IDT for burst    *)
(* should not exceed 1ms" allows, but for the rounding of each.            *)
FieldsSound ==
  \A f \in Hashes : \A k \in 1 .. Len(transit[f]) :
    LET d == transit[f][k]
    IN  /\ FieldFlow(d.vlan) = d.id
        /\ d.id = 0 => FieldTicks(d.vlan) = 0
        /\ d.segs * (FieldTicks(d.vlan) \div 12) < MaxBurst + d.segs \/ d.segs = 0

============================================================================
