-------------------------------- MODULE Idt --------------------------------
(***************************************************************************)
(* The inter-departure time (IDT) of a packet, in units of 250 ns: how     *)
(* nfp_net_tx_non_tso_idt() and nfp_net_tx_tso() of nfp_net_common.c get   *)
(* it from the socket's pacing rate and put it into the 16-bit VLAN field  *)
(* of the descriptor beside the flow id, and how the firmware reads it.    *)
(***************************************************************************)
EXTENDS Integers

CONSTANTS
  UnitsPerSecond,  \* 4000000
  MaxSingle,       \* cap of a packet that is no burst, 2000
  MaxBurst         \* cap of what the gaps of a burst add up to, 4000

ASSUME UnitsAssumption ==
  /\ {UnitsPerSecond, MaxSingle, MaxBurst} \subseteq Nat \ {0}
  /\ MaxSingle <= MaxBurst

IdtRange  == 2048      \* 11 bits
FlowRange == 32        \* 5 bits
MaxIdt    == IdtRange - 1

DIV_ROUND_UP(n, d) == (n + d - 1) \div d

AtMost(x, bound) == IF x > bound THEN bound ELSE x

(* The gap that makes packets of this size leave at this rate (bytes per   *)
(* second).  0 and ~0 mean that the socket is not paced; a set of rates    *)
(* has 0 only.                                                             *)
RateIdt(size, rate) ==
  IF rate = 0 THEN 0 ELSE DIV_ROUND_UP(size * UnitsPerSecond, rate)

(* nfp_net_tx_non_tso_idt().                                               *)
SingleIdt(size, rate) == AtMost(AtMost(RateIdt(size, rate), MaxSingle), MaxIdt)

(* Slip: the limit of the whole burst is used for each of its packets.     *)
EachMayBeLong(size, rate, pkt_cnt) == AtMost(RateIdt(size, rate), MaxIdt)

(* nfp_net_tx_tso(): the gaps of a burst share one limit.                  *)
BurstIdt(size, rate, pkt_cnt) ==
  LET idt == RateIdt(size, rate)
  IN  AtMost(IF pkt_cnt = 0 THEN idt
                            ELSE AtMost(idt, DIV_ROUND_UP(MaxBurst, pkt_cnt)),
             MaxIdt)

(* "vlan |= idt" on a field whose low bits are still zero.                 *)
Field(flow_id, idt) == ((flow_id % FlowRange) * IdtRange + idt) % (FlowRange * IdtRange)

(* What _NOTIFY_PROC makes of the field: the gap in ticks of 20 ns.        *)
FieldFlow(vlan)  == (vlan \div IdtRange) % FlowRange
FieldTicks(vlan) == (vlan % IdtRange) * 12

============================================================================
