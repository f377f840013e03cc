-------------------------- MODULE FlowTableProofs --------------------------
(***************************************************************************)
(* Theorems about FlowTable, for any number of flows, entries and packets  *)
(* and any interleaving of the unlocked accesses: a flow never has two     *)
(* entries, the descriptor's field says what the driver meant, and unless  *)
(* a race robs a flow of its entry, its id is no other flow's while it has *)
(* packets under way, which leave in the order in which they were posted.  *)
(***************************************************************************)
EXTENDS FlowTable, TLAPS

Places == {"idle", "lookup", "clock", "search", "claim", "stamp"}

PathTypes ==
  /\ hash \in [Entries -> Hashes \cup {None}]
  /\ pc \in [Hashes -> Places]
  /\ i \in [Hashes -> 0 .. NFP_FLOW_SLOTS]
  /\ \A f \in Hashes : pc[f] # "idle" => i[f] \in Entries

(* What a search of the whole table, or of its beginning, tells f about    *)
(* its own hash is still true: only f writes it.                           *)
Knows(f, place, n) ==
  \A e \in Entries :
    /\ place = "lookup" /\ e < n => hash[e] # f
    /\ place \in {"clock", "search", "claim"} => hash[e] # f

NotFound == \A f \in Hashes : Knows(f, pc[f], i[f])

EInv == PathTypes /\ NotFound /\ OneEntryPerFlow

LEMMA InitEInv == Init => EInv
<1> SUFFICES ASSUME Init PROVE EInv
  OBVIOUS
<1>1. PathTypes
  BY TableAssumption DEF Init, PathTypes, Places
<1>2. NotFound
  BY DEF Init, NotFound, Knows
<1>3. OneEntryPerFlow
  BY DEF Init, OneEntryPerFlow
<1> QED BY <1>1, <1>2, <1>3 DEF EInv

(* A step of f that writes no hash: where it goes and what it knows there. *)
LEMMA PathMoves ==
  ASSUME EInv, NEW f \in Hashes, NEW p \in Places, NEW n \in 0 .. NFP_FLOW_SLOTS,
         hash' = hash,
         pc' = [pc EXCEPT ![f] = p], i' = [i EXCEPT ![f] = n],
         p # "idle" => n \in Entries, Knows(f, p, n)
  PROVE  EInv'
<1>1. PathTypes'
  BY DEF EInv, PathTypes
<1>2. NotFound'
  BY DEF EInv, PathTypes, NotFound, Knows
<1>3. OneEntryPerFlow'
  BY DEF EInv, OneEntryPerFlow
<1> QED BY <1>1, <1>2, <1>3 DEF EInv

(* Of the packet's way out of the function.                                *)
LEMMA PostEInv ==
  ASSUME EInv, NEW f \in Hashes, NEW id \in Ids, Post(f, id), hash' = hash
  PROVE  EInv'
<1>1. "idle" \in Places /\ 0 \in 0 .. NFP_FLOW_SLOTS
  BY TableAssumption DEF Places
<1>2. Knows(f, "idle", 0)
  BY DEF Knows
<1> QED BY <1>1, <1>2, PathMoves DEF Post

LEMMA LookUpEInv ==
  ASSUME EInv, NEW f \in Hashes, LookUp(f)
  PROVE  EInv'
<1>1. /\ hash' = hash
      /\ i[f] \in Entries /\ Entries \subseteq 0 .. NFP_FLOW_SLOTS
      /\ i = [i EXCEPT ![f] = i[f]] /\ pc = [pc EXCEPT ![f] = "lookup"]
      /\ {"lookup", "stamp", "clock"} \subseteq Places
  BY TableAssumption DEF LookUp, EInv, PathTypes, Entries, tableVars, Places
<1>2. CASE hash[i[f]] = f /\ pc' = [pc EXCEPT ![f] = "stamp"] /\ UNCHANGED i
  <2>1. i' = [i EXCEPT ![f] = i[f]] /\ i[f] \in 0 .. NFP_FLOW_SLOTS
    BY <1>1, <1>2
  <2>2. Knows(f, "stamp", i[f])
    BY DEF Knows
  <2> QED BY <1>1, <1>2, <2>1, <2>2, PathMoves
<1>3. CASE /\ hash[i[f]] # f /\ i[f] < LastEntry
           /\ i' = [i EXCEPT ![f] = @ + 1] /\ UNCHANGED pc
  <2>1. i' = [i EXCEPT ![f] = i[f] + 1] /\ i[f] + 1 \in Entries
    BY <1>1, <1>3, TableAssumption DEF Entries, LastEntry
  <2>2. Knows(f, "lookup", i[f] + 1)
    BY <1>1, <1>3 DEF LookUp, EInv, NotFound, Knows, Entries
  <2> QED BY <1>1, <1>3, <2>1, <2>2, PathMoves
<1>4. CASE /\ hash[i[f]] # f /\ i[f] >= LastEntry
           /\ pc' = [pc EXCEPT ![f] = "clock"] /\ UNCHANGED i
  <2>1. Knows(f, "clock", i[f])
    BY <1>1, <1>4, TableAssumption
       DEF LookUp, EInv, NotFound, Knows, Entries, LastEntry
  <2> QED BY <1>1, <1>4, <2>1, PathMoves
<1> QED BY <1>2, <1>3, <1>4 DEF LookUp

LEMMA SearchEInv ==
  ASSUME EInv, NEW f \in Hashes, ReadJiffies(f) \/ Search(f)
  PROVE  EInv'
<1>1. /\ hash' = hash
      /\ i[f] \in Entries /\ Entries \subseteq 0 .. NFP_FLOW_SLOTS /\ 1 \in Entries
      /\ i = [i EXCEPT ![f] = i[f]] /\ pc = [pc EXCEPT ![f] = pc[f]]
      /\ {"search", "claim"} \subseteq Places
      /\ pc[f] \in {"clock", "search"} /\ pc[f] \in Places
  BY TableAssumption
     DEF ReadJiffies, Search, EInv, PathTypes, Entries, tableVars, Places
<1>2. \A p \in {"search", "claim"} : \A n \in Entries : Knows(f, p, n)
  BY <1>1 DEF EInv, NotFound, Knows
<1>3. CASE pc' = [pc EXCEPT ![f] = "search"] /\ i' = [i EXCEPT ![f] = 1]
  BY <1>1, <1>2, <1>3, PathMoves
<1>4. CASE pc' = [pc EXCEPT ![f] = "claim"] /\ UNCHANGED i
  BY <1>1, <1>2, <1>4, PathMoves
<1>5. CASE i[f] < NFP_FLOW_SLOTS /\ i' = [i EXCEPT ![f] = @ + 1] /\ UNCHANGED pc
           /\ pc[f] = "search"
  <2>1. i' = [i EXCEPT ![f] = i[f] + 1] /\ i[f] + 1 \in Entries
    BY <1>1, <1>5, TableAssumption DEF Entries
  <2> QED BY <1>1, <1>2, <1>5, <2>1, PathMoves
<1> QED BY <1>3, <1>4, <1>5 DEF ReadJiffies, Search

(* f writes its hash when it has none, and nobody else's.                  *)
LEMMA WriteHashEInv ==
  ASSUME EInv, NEW f \in Hashes, WriteHash(f)
  PROVE  EInv'
<1>1. /\ hash' = [hash EXCEPT ![i[f]] = f] /\ i[f] \in Entries
      /\ pc' = [pc EXCEPT ![f] = "stamp"] /\ i' = i
      /\ \A e \in Entries : hash[e] # f
  BY DEF WriteHash, EInv, PathTypes, NotFound, Knows
<1>2. PathTypes'
  BY <1>1 DEF EInv, PathTypes, Places
<1>3. NotFound'
  <2> SUFFICES ASSUME NEW g \in Hashes PROVE Knows(g, pc[g], i[g])'
    BY DEF NotFound
  <2>1. CASE g = f
    BY <1>1, <2>1 DEF EInv, PathTypes, Knows
  <2>2. CASE g # f
    BY <1>1, <2>2 DEF EInv, PathTypes, NotFound, Knows
  <2> QED BY <2>1, <2>2
<1>4. OneEntryPerFlow'
  BY <1>1 DEF EInv, PathTypes, OneEntryPerFlow
<1> QED BY <1>2, <1>3, <1>4 DEF EInv

LEMMA NextEInv == EInv /\ [Next]_vars => EInv'
<1> SUFFICES ASSUME EInv, [Next]_vars PROVE EInv'
  OBVIOUS
<1>1. ASSUME NEW f \in Hashes, NEW p \in Sends, Transmit(f, p) PROVE EInv'
  <2>1. "lookup" \in Places /\ 1 \in Entries /\ 1 \in 0 .. NFP_FLOW_SLOTS
    BY TableAssumption DEF Places, Entries
  <2>2. Knows(f, "lookup", 1)
    BY DEF Entries, Knows
  <2> QED BY <1>1, <2>1, <2>2, PathMoves DEF Transmit, tableVars
<1>2. ASSUME NEW f \in Hashes, nfp_net_tx_set_flow_id(f) PROVE EInv'
  <2>1. CASE LookUp(f)
    BY <2>1, LookUpEInv
  <2>2. CASE SkipPacing(f) \/ NoneFree(f)
    BY <2>2, PostEInv, TableAssumption DEF SkipPacing, NoneFree, tableVars, Ids
  <2>3. CASE ReadJiffies(f) \/ Search(f)
    BY <2>3, SearchEInv
  <2>4. CASE WriteHash(f)
    BY <2>4, WriteHashEInv
  <2>5. CASE WriteExpires(f)
    <3>1. i[f] \in Ids
      BY <2>5 DEF WriteExpires, EInv, PathTypes, Entries, Ids
    <3> QED BY <2>5, <3>1, PostEInv DEF WriteExpires
  <2> QED BY <1>2, <2>1, <2>2, <2>3, <2>4, <2>5 DEF nfp_net_tx_set_flow_id
<1>3. CASE hash' = hash /\ pc' = pc /\ i' = i
  BY <1>3 DEF EInv, PathTypes, NotFound, Knows, OneEntryPerFlow
<1>4. ASSUME (\E f \in Hashes : FwEnqueue(f)) \/ FwDepart \/ Tick \/ UNCHANGED vars
      PROVE  EInv'
  BY <1>3, <1>4 DEF FwEnqueue, FwDepart, Tick, vars, tableVars, pathVars
<1> QED BY <1>1, <1>2, <1>4 DEF Next

(* However many flows use the table from however many CPUs, without a lock *)
(* in nfp_net_tx_set_flow_id(), none ever has two entries.                 *)
THEOREM EntriesAreUnique == Spec => []OneEntryPerFlow
<1>1. EInv => OneEntryPerFlow
  BY DEF EInv
<1> QED BY InitEInv, NextEInv, <1>1, PTL DEF Spec

----------------------------------------------------------------------------
(* The descriptor's field.                                                 *)

LEMMA Division ==
  ASSUME NEW n \in Nat, NEW d \in Nat \ {0}
  PROVE  n \div d \in Nat /\ d * (n \div d) <= n
OBVIOUS

LEMMA Monotone ==
  ASSUME NEW x \in Nat, NEW y \in Nat, NEW m \in Nat, x <= y
  PROVE  m * x <= m * y
<1>1. (y - x) \in Nat /\ m * (y - x) \in Nat /\ m * y = m * x + m * (y - x)
  OBVIOUS
<1>2. m * x \in Nat
  OBVIOUS
<1> QED BY <1>1, <1>2

(* The kernel's macro rounds up by less than one.                          *)
LEMMA RoundUp ==
  ASSUME NEW n \in Nat, NEW d \in Nat \ {0}
  PROVE  DIV_ROUND_UP(n, d) \in Nat /\ d * DIV_ROUND_UP(n, d) < n + d
<1>1. n + d - 1 \in Nat
  OBVIOUS
<1>2. DIV_ROUND_UP(n, d) \in Nat /\ d * DIV_ROUND_UP(n, d) <= n + d - 1
  BY <1>1, Division DEF DIV_ROUND_UP
<1>3. d * DIV_ROUND_UP(n, d) \in Nat
  BY <1>2
<1> QED BY <1>2, <1>3

LEMMA RateInNat ==
  ASSUME NEW size \in Nat, NEW rate \in Nat
  PROVE  RateIdt(size, rate) \in Nat
<1>1. size * UnitsPerSecond \in Nat
  BY UnitsAssumption
<1> QED BY <1>1, RoundUp DEF RateIdt

LEMMA Caps ==
  {MaxIdt, MaxBurst, MaxSingle} \subseteq Nat /\ MaxSingle <= MaxBurst
<1>1. MaxIdt = 2047
  BY DEF MaxIdt, IdtRange
<1> QED BY <1>1, UnitsAssumption

LEMMA CapBound ==
  ASSUME NEW x \in Nat, NEW y \in Nat
  PROVE  AtMost(x, y) \in Nat /\ AtMost(x, y) <= x /\ AtMost(x, y) <= y
BY DEF AtMost

LEMMA SingleBound ==
  ASSUME NEW size \in Nat, NEW rate \in Nat
  PROVE  SingleIdt(size, rate) \in 0 .. MaxIdt /\ SingleIdt(size, rate) <= MaxBurst
<1> DEFINE x == AtMost(RateIdt(size, rate), MaxSingle)
<1>1. x \in Nat /\ x <= MaxSingle
  <2>1. RateIdt(size, rate) \in Nat
    BY RateInNat
  <2> QED BY <2>1, CapBound, Caps
<1>2. AtMost(x, MaxIdt) \in Nat /\ AtMost(x, MaxIdt) <= x /\ AtMost(x, MaxIdt) <= MaxIdt
  BY <1>1, CapBound, Caps
<1>3. SingleIdt(size, rate) = AtMost(x, MaxIdt)
  BY DEF SingleIdt
<1> HIDE DEF x
<1> QED BY <1>1, <1>2, <1>3, Caps

LEMMA BurstBound ==
  ASSUME NEW size \in Nat, NEW rate \in Nat, NEW pkt_cnt \in Nat
  PROVE  /\ BurstIdt(size, rate, pkt_cnt) \in 0 .. MaxIdt
         /\ pkt_cnt # 0 => pkt_cnt * BurstIdt(size, rate, pkt_cnt) < MaxBurst + pkt_cnt
<1> DEFINE r == RateIdt(size, rate)
           c == DIV_ROUND_UP(MaxBurst, pkt_cnt)
           b == BurstIdt(size, rate, pkt_cnt)
<1>1. r \in Nat
  BY RateInNat
<1>2. CASE pkt_cnt = 0
  <2>1. b = AtMost(r, MaxIdt)
    BY <1>2 DEF BurstIdt
  <2>2. b \in Nat /\ b <= MaxIdt
    BY <1>1, <2>1, CapBound, Caps
  <2> QED BY <1>2, <2>2, Caps
<1>3. CASE pkt_cnt # 0
  <2>1. c \in Nat /\ pkt_cnt * c < MaxBurst + pkt_cnt
    BY <1>3, RoundUp, Caps
  <2>2. b = AtMost(AtMost(r, c), MaxIdt)
    BY <1>3 DEF BurstIdt
  <2>3. AtMost(r, c) \in Nat /\ AtMost(r, c) <= c
    BY <1>1, <2>1, CapBound
  <2>4. b \in Nat /\ b <= AtMost(r, c) /\ b <= MaxIdt
    BY <2>2, <2>3, CapBound, Caps
  <2> HIDE DEF b, c
  <2>5. b <= c /\ b \in 0 .. MaxIdt
    BY <2>1, <2>3, <2>4, Caps
  <2>6. pkt_cnt * b <= pkt_cnt * c /\ pkt_cnt * b \in Nat /\ pkt_cnt * c \in Nat
    BY <2>1, <2>4, <2>5, Monotone
  <2>7. pkt_cnt * b < MaxBurst + pkt_cnt
    BY <2>1, <2>6, Caps
  <2> USE DEF b
  <2> QED BY <2>5, <2>7
<1> QED BY <1>2, <1>3

LEMMA FieldDecodes ==
  ASSUME NEW id \in 0 .. FlowRange - 1, NEW idt \in 0 .. MaxIdt
  PROVE  /\ Field(id, idt) \in Nat
         /\ FieldFlow(Field(id, idt)) = id
         /\ FieldTicks(Field(id, idt)) = 12 * idt
         /\ FieldTicks(Field(id, idt)) \div 12 = idt
<1>1. Field(id, idt) = id * 2048 + idt
  BY DEF Field, FlowRange, IdtRange, MaxIdt
<1>2. id * 2048 + idt \in Nat
  BY DEF FlowRange, MaxIdt, IdtRange
<1>3. (id * 2048 + idt) \div 2048 = id /\ (id * 2048 + idt) % 2048 = idt
  BY DEF FlowRange, MaxIdt, IdtRange
<1> QED BY <1>1, <1>2, <1>3 DEF FieldFlow, FieldTicks, FlowRange, IdtRange

(* What FieldsSound says of one descriptor.                                *)
FieldSound(d) ==
  /\ FieldFlow(d.vlan) = d.id
  /\ d.id = 0 => FieldTicks(d.vlan) = 0
  /\ d.segs * (FieldTicks(d.vlan) \div 12) < MaxBurst + d.segs \/ d.segs = 0

SoundDescriptors == {d \in [vlan : Nat, id : Ids, segs : Nat, since : Nat] : FieldSound(d)}

DInv ==
  /\ PathTypes
  /\ now \in Nat
  /\ skb \in [Hashes -> Sends \cup {NoSkb}]
  /\ transit \in [Hashes -> Seq(SoundDescriptors)]

LEMMA DescriptorSound ==
  ASSUME DInv, NEW f \in Hashes, NEW id \in Ids
  PROVE  Descriptor(skb[f], id) \in SoundDescriptors
<1> DEFINE p == skb[f]
           idt == IF p.gso THEN BurstIdt(p.packet_size, p.rate, p.gso_segs)
                           ELSE SingleIdt(p.packet_size, p.rate)
<1>1. /\ p \in [gso : BOOLEAN, gso_segs : Nat, packet_size : Nat, rate : Nat]
      /\ p.gso \/ p.gso_segs <= 1
  <2>1. CASE p \in Sends
    BY <2>1, TableAssumption
  <2>2. CASE p = NoSkb
    BY <2>2 DEF NoSkb
  <2> QED BY <2>1, <2>2 DEF DInv
<1>2. id \in 0 .. FlowRange - 1 /\ id \in Nat
  BY TableAssumption DEF Ids, FlowRange
<1>3. idt \in 0 .. MaxIdt
  BY <1>1, SingleBound, BurstBound
<1>4. p.gso_segs * idt < MaxBurst + p.gso_segs \/ p.gso_segs = 0
  <2>1. CASE p.gso
    BY <1>1, <2>1, BurstBound
  <2>2. CASE ~p.gso /\ p.gso_segs = 1
    <3>1. idt = SingleIdt(p.packet_size, p.rate)
      BY <2>2
    <3>2. p.packet_size \in Nat /\ p.rate \in Nat
      BY <1>1
    <3> HIDE DEF idt, p
    <3>a. /\ SingleIdt(p.packet_size, p.rate) \in 0 .. MaxIdt
          /\ SingleIdt(p.packet_size, p.rate) <= MaxBurst
      BY <3>2, SingleBound
    <3>3. idt \in Nat /\ idt <= MaxBurst
      BY <3>1, <3>a, Caps
    <3> QED BY <2>2, <3>3, Caps
  <2>3. CASE p.gso_segs = 0
    BY <2>3
  <2> QED BY <1>1, <2>1, <2>2, <2>3
<1>5. CASE id = 0
  <2>1. Vlan(p, id) = 0
    BY <1>5 DEF Vlan
  <2>2. FieldFlow(0) = 0 /\ FieldTicks(0) = 0
    BY DEF FieldFlow, FieldTicks, FlowRange, IdtRange
  <2>3. Descriptor(p, id) = [vlan |-> 0, id |-> id, segs |-> p.gso_segs, since |-> now]
    BY <2>1 DEF Descriptor
  <2>4. p.gso_segs * (FieldTicks(0) \div 12) < MaxBurst + p.gso_segs \/ p.gso_segs = 0
    BY <1>1, <2>2, Caps
  <2> QED BY <1>1, <1>2, <1>5, <2>2, <2>3, <2>4 DEF SoundDescriptors, FieldSound, DInv
<1>6. CASE id # 0
  <2>1. Vlan(p, id) = Field(id, idt)
    BY <1>6 DEF Vlan
  <2>2. Field(id, idt) \in Nat
    BY <1>2, <1>3, FieldDecodes
  <2>3. FieldFlow(Field(id, idt)) = id /\ FieldTicks(Field(id, idt)) \div 12 = idt
    BY <1>2, <1>3, FieldDecodes
  <2>4. Descriptor(p, id) =
          [vlan |-> Field(id, idt), id |-> id, segs |-> p.gso_segs, since |-> now]
    BY <2>1 DEF Descriptor
  <2> DEFINE v == Field(id, idt)
             segs == p.gso_segs
             d == [vlan |-> v, id |-> id, segs |-> segs, since |-> now]
  <2>5. segs \in Nat /\ now \in Nat
    BY <1>1 DEF DInv
  <2>6. segs * (FieldTicks(v) \div 12) < MaxBurst + segs \/ segs = 0
    BY <1>4, <2>3
  <2> HIDE DEF v, segs, idt, p
  <2>7. d \in [vlan : Nat, id : Ids, segs : Nat, since : Nat]
    BY <2>2, <2>5 DEF v
  <2>8. FieldSound(d)
    BY <1>6, <2>3, <2>6 DEF FieldSound, v
  <2>9. Descriptor(skb[f], id) = d
    BY <2>4 DEF p, v, segs
  <2> QED BY <2>7, <2>8, <2>9 DEF SoundDescriptors
<1> QED BY <1>5, <1>6

LEMMA InitDInv == Init => DInv
<1> SUFFICES ASSUME Init PROVE DInv
  OBVIOUS
<1>1. PathTypes
  BY InitEInv DEF EInv
<1>2. transit \in [Hashes -> Seq(SoundDescriptors)]
  BY DEF Init
<1> QED BY <1>1, <1>2 DEF Init, DInv

LEMMA NextDInv == DInv /\ EInv /\ [Next]_vars => DInv'
<1> SUFFICES ASSUME DInv, EInv, [Next]_vars PROVE DInv'
  OBVIOUS
<1>1. PathTypes'
  BY NextEInv DEF EInv
<1>2. ASSUME NEW f \in Hashes, NEW id \in Ids, Post(f, id), now' = now PROVE DInv'
  <2>1. transit' = [transit EXCEPT ![f] = Append(transit[f], Descriptor(skb[f], id))]
    BY <1>2 DEF Post
  <2>2. transit' \in [Hashes -> Seq(SoundDescriptors)]
    BY <2>1, DescriptorSound DEF DInv
  <2>3. skb' \in [Hashes -> Sends \cup {NoSkb}]
    BY <1>2 DEF Post, DInv
  <2> QED BY <1>1, <1>2, <2>2, <2>3 DEF DInv
<1>3. ASSUME NEW f \in Hashes, NEW p \in Sends, Transmit(f, p) PROVE DInv'
  BY <1>1, <1>3 DEF Transmit, DInv
<1>4. ASSUME NEW f \in Hashes, nfp_net_tx_set_flow_id(f) PROVE DInv'
  <2>1. CASE SkipPacing(f) \/ NoneFree(f)
    BY <2>1, <1>2, TableAssumption DEF SkipPacing, NoneFree, Ids
  <2>2. CASE WriteExpires(f)
    <3>1. i[f] \in Ids
      BY <2>2 DEF WriteExpires, DInv, PathTypes, Entries, Ids
    <3> QED BY <1>2, <2>2, <3>1 DEF WriteExpires
  <2>3. CASE LookUp(f) \/ ReadJiffies(f) \/ Search(f) \/ WriteHash(f)
    BY <1>1, <2>3 DEF LookUp, ReadJiffies, Search, WriteHash, DInv
  <2> QED BY <1>4, <2>1, <2>2, <2>3 DEF nfp_net_tx_set_flow_id
<1>5. ASSUME NEW f \in Hashes, FwEnqueue(f) PROVE DInv'
  <2>1. transit' = [transit EXCEPT ![f] = Tail(transit[f])] /\ transit[f] # <<>>
    BY <1>5 DEF FwEnqueue
  <2>2. transit' \in [Hashes -> Seq(SoundDescriptors)]
    BY <2>1 DEF DInv
  <2>3. now' = now /\ skb' = skb
    BY <1>5 DEF FwEnqueue, Queue!Accept, pathVars
  <2> QED BY <1>1, <2>2, <2>3 DEF DInv
<1>6. CASE FwDepart
  <2>1. now' = now /\ skb' = skb /\ transit' = transit
    BY <1>6 DEF FwDepart, Queue!Depart, pathVars
  <2> QED BY <1>1, <2>1 DEF DInv
<1>7. CASE Tick
  <2>1. now' = now + 1 /\ skb' = skb /\ transit' = transit
    BY <1>7 DEF Tick, Queue!Tick, pathVars
  <2> QED BY <1>1, <2>1 DEF DInv
<1>8. CASE UNCHANGED vars
  BY <1>1, <1>8 DEF vars, pathVars, DInv
<1> QED BY <1>3, <1>4, <1>5, <1>6, <1>7, <1>8 DEF Next

(* Whatever packets and rates, the firmware reads the id that the driver   *)
(* meant, an unpaced packet carries no gap, and the gaps of a burst keep   *)
(* to the limit of nfp_net_tx_tso(), but for the rounding of each.         *)
THEOREM FieldsAreSound == Spec => []FieldsSound
<1>1. DInv => FieldsSound
  <2> SUFFICES ASSUME DInv, NEW f \in Hashes, NEW k \in 1 .. Len(transit[f])
               PROVE  FieldSound(transit[f][k])
    BY DEF FieldsSound, FieldSound
  <2>1. transit[f] \in Seq(SoundDescriptors)
    BY DEF DInv
  <2>2. transit[f][k] \in SoundDescriptors
    BY <2>1
  <2> QED BY <2>2 DEF SoundDescriptors
<1> QED BY InitEInv, NextEInv, InitDInv, NextDInv, <1>1, PTL DEF Spec

----------------------------------------------------------------------------
(* Ids that change hands.  A packet under way with an id still has the     *)
(* entry, which expires after the last tick at which the packet may leave, *)
(* unless its flow was robbed of the entry.                                *)
LastTick == MaxTransit + Horizon + MaxLate

Holds(f, e, tick) == hash[e] = f /\ tick < expires[e] * Jiffy

(* What a search saw in an entry has expired, and so has an entry without  *)
(* owner.                                                                  *)
PathAges ==
  /\ expires \in [Entries -> Nat] /\ at \in [Hashes -> Nat] /\ saw \in [Hashes -> Nat]
  /\ \A e \in Entries : /\ expires[e] <= jiffies + Timeout
                        /\ hash[e] = None => expires[e] = 0
  /\ \A f \in Hashes : /\ at[f] <= jiffies
                       /\ pc[f] = "claim" => saw[f] <= at[f]
                       /\ pc[f] = "stamp" => hash[i[f]] # None

TransitHeld ==
  \A f \in Hashes : \A k \in 1 .. Len(transit[f]) :
    LET d == transit[f][k]
    IN  /\ now <= d.since + MaxTransit
        /\ f \notin robbed /\ d.id # 0 => Holds(f, d.id, d.since + LastTick)

PacketType == [flow : Ids, dep : Nat, due : Nat]
QueueTypes ==
  /\ pkts \in Seq(PacketType) /\ owner \in Seq(Hashes) /\ Len(owner) = Len(pkts)
  /\ wire \in Seq(Queue!Accepted)

QueueHeld ==
  \A p \in Queue!Waiting :
    /\ now <= pkts[p].due + MaxLate
    /\ pkts[p].flow = 0 => pkts[p].dep <= now
    /\ owner[p] \notin robbed /\ pkts[p].flow # 0
         => Holds(owner[p], pkts[p].flow, pkts[p].due + MaxLate)

(* A flow's packets under way have the id of its latest one, or none, so   *)
(* the pacing queue keeps them in order.                                   *)
TransitInOrder ==
  \A f \in Hashes \ robbed : \A k \in 1 .. Len(transit[f]) :
    /\ \A j \in 1 .. k - 1 : transit[f][j].id \in {0, transit[f][k].id}
    /\ \A p \in Queue!Waiting :
         owner[p] = f => pkts[p].flow \in {0, transit[f][k].id}

QueueInOrder ==
  \A p, q \in Queue!Waiting :
    p < q /\ owner[p] = owner[q] /\ owner[p] \notin robbed => pkts[p].due < pkts[q].due

EarlierGone ==
  \A n \in 1 .. Len(wire) : \A p \in Queue!Waiting :
    p < wire[n] /\ owner[p] = owner[wire[n]] => owner[p] \in robbed

HInv ==
  /\ PathAges /\ TransitHeld /\ QueueTypes /\ QueueHeld
  /\ TransitInOrder /\ QueueInOrder /\ EarlierGone /\ FlowsLeaveInOrder

LEMMA HandSizes ==
  /\ Timeout \in Nat /\ Timeout > 0 /\ Jiffy \in Nat /\ Jiffy > 0
  /\ MaxTransit \in Nat /\ Horizon \in Nat /\ MaxLate \in Nat /\ LastTick \in Nat
  /\ LastTick <= (Timeout - 1) * Jiffy
  /\ LastTick = MaxTransit + Horizon + MaxLate
BY TableAssumption, TimeoutAssumption DEF LastTick

(* Jiffies: what has expired, and what is renewed now.                     *)
LEMMA Later ==
  ASSUME NEW x \in Nat, NEW y \in Nat, x <= y
  PROVE  x * Jiffy \in Nat /\ y * Jiffy \in Nat /\ x * Jiffy <= y * Jiffy
<1>1. Jiffy * x <= Jiffy * y
  BY HandSizes, Monotone
<1>2. Jiffy * x = x * Jiffy /\ Jiffy * y = y * Jiffy
  BY HandSizes
<1> QED BY <1>1, <1>2, HandSizes

LEMMA JiffiesPast ==
  ASSUME NEW t \in Nat
  PROVE  t \div Jiffy \in Nat /\ (t \div Jiffy) * Jiffy <= t
         /\ t < (t \div Jiffy) * Jiffy + Jiffy
BY HandSizes

LEMMA Expired ==
  ASSUME NEW t \in Nat, NEW x \in Nat, x <= t \div Jiffy
  PROVE  x * Jiffy <= t
<1>1. t \div Jiffy \in Nat /\ (t \div Jiffy) * Jiffy <= t
  BY JiffiesPast
<1>2. x * Jiffy \in Nat /\ (t \div Jiffy) * Jiffy \in Nat
      /\ x * Jiffy <= (t \div Jiffy) * Jiffy
  BY <1>1, Later
<1> QED BY <1>1, <1>2

LEMMA RenewedLasts ==
  ASSUME NEW t \in Nat
  PROVE  t + LastTick < (t \div Jiffy + Timeout) * Jiffy
<1> DEFINE j == t \div Jiffy
<1>1. j \in Nat /\ t < j * Jiffy + Jiffy
  BY JiffiesPast
<1> HIDE DEF j
<1>2. (j + Timeout) * Jiffy = j * Jiffy + Jiffy + (Timeout - 1) * Jiffy
  BY <1>1, HandSizes
<1>3. j * Jiffy \in Nat /\ (Timeout - 1) * Jiffy \in Nat
  BY <1>1, HandSizes
<1> QED BY <1>1, <1>2, <1>3, HandSizes DEF j

LEMMA JiffiesGo ==
  ASSUME NEW t \in Nat
  PROVE  t \div Jiffy <= (t + 1) \div Jiffy /\ (t + 1) \div Jiffy \in Nat
BY HandSizes

LEMMA LaterTimeout ==
  ASSUME NEW x \in Nat, NEW y \in Nat, x <= y
  PROVE  x + Timeout \in Nat /\ y + Timeout \in Nat /\ x + Timeout <= y + Timeout
BY HandSizes

LEMMA StillUnderway ==
  ASSUME NEW s \in Nat, NEW t \in Nat, t <= s + MaxTransit
  PROVE  s + LastTick \in Nat /\ t <= s + LastTick
BY HandSizes

(* What the types say of a packet under way.                               *)
LEMMA UnderwayTypes ==
  ASSUME DInv, QueueTypes
  PROVE  /\ now \in Nat
         /\ \A f \in Hashes : \A k \in 1 .. Len(transit[f]) :
              LET d == transit[f][k]
              IN  d.id \in Ids /\ d.since \in Nat /\ d.vlan \in Nat /\ FieldFlow(d.vlan) = d.id
         /\ \A p \in Queue!Waiting :
              /\ p \in 1 .. Len(pkts) /\ p \in Nat
              /\ pkts[p].flow \in Ids /\ pkts[p].dep \in Nat /\ pkts[p].due \in Nat
              /\ owner[p] \in Hashes
         /\ \A id \in Ids : id # 0 => id \in Entries
<1>1. ASSUME NEW f \in Hashes, NEW k \in 1 .. Len(transit[f])
      PROVE  LET d == transit[f][k]
             IN  d.id \in Ids /\ d.since \in Nat /\ d.vlan \in Nat /\ FieldFlow(d.vlan) = d.id
  <2>1. transit[f] \in Seq(SoundDescriptors)
    BY DEF DInv
  <2>2. transit[f][k] \in SoundDescriptors
    BY <2>1
  <2> QED BY <2>2 DEF SoundDescriptors, FieldSound
<1>2. ASSUME NEW p \in Queue!Waiting
      PROVE  /\ p \in 1 .. Len(pkts) /\ p \in Nat
             /\ pkts[p].flow \in Ids /\ pkts[p].dep \in Nat /\ pkts[p].due \in Nat
             /\ owner[p] \in Hashes
  <2>1. p \in 1 .. Len(pkts)
    BY DEF Queue!Waiting, Queue!Accepted
  <2>2. pkts[p] \in PacketType /\ owner[p] \in Hashes
    BY <2>1 DEF QueueTypes
  <2> QED BY <2>1, <2>2 DEF PacketType
<1>3. \A id \in Ids : id # 0 => id \in Entries
  BY TableAssumption DEF Ids, Entries
<1> QED BY <1>1, <1>2, <1>3 DEF DInv

LEMMA InitHInv == Init => HInv
<1> SUFFICES ASSUME Init PROVE HInv
  OBVIOUS
<1>1. PathAges
  <2>1. jiffies \in Nat /\ jiffies + Timeout \in Nat
    BY JiffiesPast, HandSizes DEF Init, jiffies
  <2> QED BY <2>1, HandSizes DEF Init, PathAges
<1>2. Queue!Waiting = {} /\ QueueTypes
  BY DEF Init, Queue!Waiting, Queue!Accepted, QueueTypes
<1>3. TransitHeld /\ TransitInOrder
  BY DEF Init, TransitHeld, TransitInOrder
<1> QED BY <1>1, <1>2, <1>3
    DEF HInv, QueueHeld, QueueInOrder, EarlierGone, FlowsLeaveInOrder, Init

(* A step before the table is written.                                     *)
LEMMA QueueSame ==
  ASSUME UNCHANGED queueVars
  PROVE  Queue!Waiting' = Queue!Waiting /\ Queue!Accepted' = Queue!Accepted
BY DEF queueVars, Queue!Waiting, Queue!Accepted

LEMMA LooksHInv ==
  ASSUME HInv, EInv, DInv, NEW f \in Hashes, i' = i \/ pc'[f] # "stamp",
         UNCHANGED <<now, tableVars, transit, queueVars, robbed>>,
         at' \in [Hashes -> Nat], saw' \in [Hashes -> Nat], at'[f] <= jiffies,
         \A g \in Hashes \ {f} : pc'[g] = pc[g] /\ i'[g] = i[g] /\ at'[g] = at[g]
                                 /\ saw'[g] = saw[g],
         pc'[f] = "claim" => saw'[f] <= at'[f],
         pc'[f] = "stamp" => hash[i[f]] # None
  PROVE  HInv'
<1>1. PathAges'
  BY DEF HInv, PathAges, tableVars, jiffies
<1>2. Queue!Waiting' = Queue!Waiting /\ Queue!Accepted' = Queue!Accepted
  BY QueueSame
<1>3. TransitHeld' /\ QueueTypes' /\ QueueHeld'
  BY <1>2 DEF HInv, TransitHeld, QueueTypes, QueueHeld, Holds, tableVars, queueVars
<1>4. TransitInOrder' /\ QueueInOrder' /\ EarlierGone' /\ FlowsLeaveInOrder'
  BY <1>2 DEF HInv, TransitInOrder, QueueInOrder, EarlierGone, FlowsLeaveInOrder, queueVars
<1> QED BY <1>1, <1>3, <1>4 DEF HInv

LEMMA LooksStep ==
  ASSUME HInv, EInv, DInv, NEW f \in Hashes,
         (\E p \in Sends : Transmit(f, p)) \/ LookUp(f) \/ ReadJiffies(f) \/ Search(f)
  PROVE  HInv'
<1>1. /\ UNCHANGED <<now, tableVars, transit, queueVars, robbed>>
      /\ jiffies \in Nat
      /\ pc \in [Hashes -> Places] /\ i \in [Hashes -> 0 .. NFP_FLOW_SLOTS]
      /\ at \in [Hashes -> Nat] /\ saw \in [Hashes -> Nat] /\ expires \in [Entries -> Nat]
      /\ at[f] <= jiffies
  BY JiffiesPast DEF Transmit, LookUp, ReadJiffies, Search, jiffies, DInv, EInv, PathTypes,
     HInv, PathAges
<1>2. CASE \E p \in Sends : Transmit(f, p)
  <2>1. pc' = [pc EXCEPT ![f] = "lookup"] /\ i' = [i EXCEPT ![f] = 1] /\ UNCHANGED <<at, saw>>
    BY <1>2 DEF Transmit
  <2> QED BY <1>1, <2>1, LooksHInv
<1>3. CASE LookUp(f)
  <2>1. UNCHANGED <<at, saw>>
    BY <1>3 DEF LookUp
  <2>2. CASE hash[i[f]] = f /\ pc' = [pc EXCEPT ![f] = "stamp"] /\ UNCHANGED i
    BY <1>1, <2>1, <2>2, LooksHInv, TableAssumption
  <2>3. CASE i' = [i EXCEPT ![f] = @ + 1] /\ UNCHANGED pc /\ pc[f] = "lookup"
    BY <1>1, <2>1, <2>3, LooksHInv
  <2>4. CASE pc' = [pc EXCEPT ![f] = "clock"] /\ UNCHANGED i
    BY <1>1, <2>1, <2>4, LooksHInv
  <2> QED BY <1>3, <2>2, <2>3, <2>4 DEF LookUp
<1>4. CASE ReadJiffies(f)
  <2>1. /\ at' = [at EXCEPT ![f] = jiffies] /\ i' = [i EXCEPT ![f] = 1]
        /\ pc' = [pc EXCEPT ![f] = "search"] /\ UNCHANGED saw
    BY <1>4 DEF ReadJiffies
  <2> QED BY <1>1, <2>1, LooksHInv
<1>5. CASE Search(f)
  <2>1. UNCHANGED at /\ pc[f] = "search" /\ i[f] \in Entries
    BY <1>5 DEF Search, EInv, PathTypes
  <2>2. CASE /\ Free(f, i[f]) /\ pc' = [pc EXCEPT ![f] = "claim"]
             /\ saw' = [saw EXCEPT ![f] = expires[i[f]]] /\ UNCHANGED i
    <3>1. expires[i[f]] \in Nat /\ expires[i[f]] <= at[f]
      BY <1>1, <2>1, <2>2 DEF Free, HInv, PathAges
    <3> QED BY <1>1, <2>1, <2>2, <3>1, LooksHInv
  <2>3. CASE i' = [i EXCEPT ![f] = @ + 1] /\ UNCHANGED <<pc, saw>>
    BY <1>1, <2>1, <2>3, LooksHInv
  <2> QED BY <1>5, <2>2, <2>3 DEF Search
<1> QED BY <1>2, <1>3, <1>4, <1>5

(* A descriptor is posted: with no id, or with that of an entry that is    *)
(* renewed.  Nobody loses an entry, and no expiry time decreases.          *)
LEMMA PostHInv ==
  ASSUME HInv, EInv, DInv, NEW f \in Hashes, NEW id \in Ids, Post(f, id),
         UNCHANGED <<now, hash, queueVars>>, robbed \subseteq robbed',
         expires' \in [Entries -> Nat],
         \A e \in Entries : /\ expires[e] <= expires'[e] /\ expires'[e] <= jiffies + Timeout
                            /\ hash[e] = None => expires'[e] = 0,
         f \notin robbed' => \A e \in Entries : hash[e] = f => e = id,
         f \notin robbed' /\ id # 0 =>
           hash[id] = f /\ now + LastTick < expires'[id] * Jiffy
  PROVE  HInv'
<1> USE DEF HInv
<1>1. Queue!Waiting' = Queue!Waiting /\ Queue!Accepted' = Queue!Accepted
  BY QueueSame
<1> DEFINE d == Descriptor(skb[f], id)
<1>2. /\ transit' = [transit EXCEPT ![f] = Append(transit[f], d)]
      /\ d.id = id /\ d.since = now
      /\ transit \in [Hashes -> Seq(SoundDescriptors)]
      /\ d \in SoundDescriptors
  BY DescriptorSound DEF Post, Descriptor, DInv
<1> HIDE DEF d
<1>3. \A g \in Hashes : g # f => transit'[g] = transit[g]
  BY <1>2
<1>4. /\ Len(transit'[f]) = Len(transit[f]) + 1 /\ Len(transit[f]) \in Nat
      /\ \A k \in 1 .. Len(transit[f]) : transit'[f][k] = transit[f][k]
      /\ transit'[f][Len(transit[f]) + 1] = d
  BY <1>2
<1>5. PathAges'
  <2>1. /\ at' = [at EXCEPT ![f] = 0] /\ saw' = [saw EXCEPT ![f] = 0]
        /\ pc' = [pc EXCEPT ![f] = "idle"] /\ i' = [i EXCEPT ![f] = 0]
        /\ pc \in [Hashes -> Places] /\ i \in [Hashes -> 0 .. NFP_FLOW_SLOTS]
    BY DEF Post, EInv, PathTypes
  <2>2. jiffies' = jiffies /\ jiffies \in Nat
    BY JiffiesPast DEF jiffies, DInv
  <2> QED BY <2>1, <2>2 DEF PathAges
<1>6. ASSUME NEW g, NEW e \in Entries, NEW t \in Nat, Holds(g, e, t)
      PROVE  hash'[e] = g /\ t < expires'[e] * Jiffy
  <2>1. expires[e] \in Nat /\ expires'[e] \in Nat /\ expires[e] <= expires'[e]
    BY DEF PathAges
  <2>2. /\ expires[e] * Jiffy \in Nat /\ expires'[e] * Jiffy \in Nat
        /\ expires[e] * Jiffy <= expires'[e] * Jiffy
    BY <2>1, Later
  <2> QED BY <1>6, <2>2 DEF Holds
<1>7. TransitHeld'
  <2> SUFFICES ASSUME NEW g \in Hashes, NEW k \in 1 .. Len(transit'[g])
               PROVE  /\ now' <= transit'[g][k].since + MaxTransit
                      /\ g \notin robbed' /\ transit'[g][k].id # 0 =>
                           /\ hash'[transit'[g][k].id] = g
                           /\ transit'[g][k].since + LastTick
                                < expires'[transit'[g][k].id] * Jiffy
    BY DEF TransitHeld, Holds
  <2>1. CASE k \in 1 .. Len(transit[g]) /\ transit'[g][k] = transit[g][k]
    <3>1. transit[g][k].id \in Ids /\ transit[g][k].since \in Nat
          /\ (transit[g][k].id # 0 => transit[g][k].id \in Entries)
      BY <2>1, UnderwayTypes
    <3>2. transit[g][k].since + LastTick \in Nat
      BY <3>1, HandSizes
    <3> QED BY <1>6, <2>1, <3>1, <3>2 DEF TransitHeld
  <2>2. CASE g = f /\ transit'[g][k] = d
    <3>1. now \in Nat /\ now <= now + MaxTransit
      BY HandSizes DEF DInv
    <3> QED BY <1>2, <2>2, <3>1
  <2>3. CASE g # f
    BY <1>3, <2>1, <2>3
  <2>4. CASE g = f
    BY <1>4, <2>1, <2>2, <2>4
  <2> QED BY <2>3, <2>4
<1>8. QueueTypes' /\ QueueInOrder' /\ EarlierGone' /\ FlowsLeaveInOrder'
  BY <1>1 DEF QueueTypes, QueueInOrder, EarlierGone, FlowsLeaveInOrder, queueVars
<1>9. QueueHeld'
  <2> SUFFICES ASSUME NEW p \in Queue!Waiting
               PROVE  /\ now <= pkts[p].due + MaxLate
                      /\ pkts[p].flow = 0 => pkts[p].dep <= now
                      /\ owner[p] \notin robbed' /\ pkts[p].flow # 0 =>
                           /\ hash'[pkts[p].flow] = owner[p]
                           /\ pkts[p].due + MaxLate < expires'[pkts[p].flow] * Jiffy
    BY <1>1 DEF QueueHeld, Holds, queueVars
  <2>1. /\ pkts[p].flow \in Ids /\ pkts[p].due \in Nat
        /\ (pkts[p].flow # 0 => pkts[p].flow \in Entries)
    BY UnderwayTypes
  <2>2. pkts[p].due + MaxLate \in Nat
    BY <2>1, HandSizes
  <2> QED BY <1>6, <2>1, <2>2 DEF QueueHeld
<1>10. TransitInOrder'
  <2> SUFFICES ASSUME NEW g \in Hashes, g \notin robbed', NEW k \in 1 .. Len(transit'[g])
               PROVE  /\ \A j \in 1 .. k - 1 :
                           transit'[g][j].id \in {0, transit'[g][k].id}
                      /\ \A p \in Queue!Waiting :
                           owner[p] = g => pkts[p].flow \in {0, transit'[g][k].id}
    BY <1>1 DEF TransitInOrder, queueVars
  <2>1. CASE g # f
    BY <1>3, <2>1 DEF TransitInOrder
  <2>2. CASE g = f /\ k \in 1 .. Len(transit[f])
    <3>1. f \in Hashes \ robbed
      BY <2>2
    <3>2. /\ transit'[f][k] = transit[f][k]
          /\ \A j \in 1 .. k - 1 : j \in 1 .. Len(transit[f])
      BY <1>4, <2>2
    <3>3. \A j \in 1 .. k - 1 : transit'[f][j] = transit[f][j]
      BY <1>4, <3>2
    <3>4. /\ \A j \in 1 .. k - 1 : transit[f][j].id \in {0, transit[f][k].id}
          /\ \A p \in Queue!Waiting :
               owner[p] = f => pkts[p].flow \in {0, transit[f][k].id}
      BY <2>2, <3>1 DEF TransitInOrder
    <3>5. \A j \in 1 .. k - 1 : transit'[f][j].id \in {0, transit'[f][k].id}
      BY <3>2, <3>3, <3>4
    <3> QED BY <2>2, <3>2, <3>4, <3>5
  <2>3. CASE g = f /\ k = Len(transit[f]) + 1
    <3>1. \A e \in Ids : e # 0 /\ hash[e] = f => e = id
      BY <2>3, UnderwayTypes
    <3>2. ASSUME NEW j \in 1 .. Len(transit[f]) PROVE transit[f][j].id \in {0, id}
      <4>1. transit[f][j].id \in Ids
        BY UnderwayTypes
      <4>2. transit[f][j].id # 0 => hash[transit[f][j].id] = f
        BY <2>3 DEF TransitHeld, Holds
      <4> QED BY <3>1, <4>1, <4>2
    <3>3. ASSUME NEW p \in Queue!Waiting, owner[p] = f PROVE pkts[p].flow \in {0, id}
      <4>1. pkts[p].flow \in Ids
        BY UnderwayTypes
      <4>2. pkts[p].flow # 0 => hash[pkts[p].flow] = f
        BY <2>3, <3>3 DEF QueueHeld, Holds
      <4> QED BY <3>1, <4>1, <4>2
    <3> QED BY <1>2, <1>4, <2>3, <3>2, <3>3
  <2> QED BY <1>4, <2>1, <2>2, <2>3
<1> QED BY <1>5, <1>7, <1>8, <1>9, <1>10

LEMMA UnpacedHInv ==
  ASSUME HInv, EInv, DInv, NEW f \in Hashes, SkipPacing(f) \/ NoneFree(f)
  PROVE  HInv'
<1>1. /\ UNCHANGED <<now, hash, queueVars>> /\ robbed \subseteq robbed'
      /\ expires' = expires /\ Post(f, 0)
  BY DEF SkipPacing, NoneFree, tableVars
<1>2. ASSUME NEW e \in Entries PROVE hash[e] # f
  <2>1. CASE SkipPacing(f)
    <3>1. /\ pc[f] = "lookup" /\ hash[i[f]] # f /\ i[f] = NFP_FLOW_SLOTS
          /\ Knows(f, pc[f], i[f])
      BY <2>1 DEF SkipPacing, LastEntry, EInv, NotFound
    <3> QED BY <1>2, <3>1, TableAssumption DEF Knows, Entries
  <2>2. CASE NoneFree(f)
    BY <1>2, <2>2 DEF NoneFree, EInv, NotFound, Knows
  <2> QED BY <2>1, <2>2
<1>3. /\ expires \in [Entries -> Nat]
      /\ \A e \in Entries : /\ expires[e] \in Nat /\ expires[e] <= jiffies + Timeout
                            /\ hash[e] = None => expires[e] = 0
  BY DEF HInv, PathAges
<1>4. \A e \in Entries : expires[e] <= expires'[e]
  BY <1>1, <1>3
<1>5. 0 \in Ids
  BY TableAssumption DEF Ids
<1> QED BY <1>1, <1>2, <1>3, <1>4, <1>5, PostHInv

LEMMA StampHInv ==
  ASSUME HInv, EInv, DInv, NEW f \in Hashes, WriteExpires(f)
  PROVE  HInv'
<1> DEFINE id == i[f]
<1>1. /\ UNCHANGED <<now, hash, queueVars>>
      /\ robbed' = robbed \cup (IF hash[id] # f THEN {f} ELSE {})
      /\ expires' = [expires EXCEPT ![id] = jiffies + Timeout]
      /\ Post(f, id) /\ pc[f] = "stamp"
  BY DEF WriteExpires, Renewed
<1>2. id \in Entries /\ id \in Ids /\ hash[id] # None
  BY <1>1 DEF EInv, PathTypes, HInv, PathAges, Entries, Ids
<1>3. /\ jiffies \in Nat /\ jiffies + Timeout \in Nat /\ now \in Nat
      /\ now + LastTick < (jiffies + Timeout) * Jiffy
  BY JiffiesPast, RenewedLasts, HandSizes DEF DInv, jiffies
<1> HIDE DEF id
<1>4. /\ expires \in [Entries -> Nat]
      /\ \A e \in Entries : /\ expires[e] \in Nat /\ expires[e] <= jiffies + Timeout
                            /\ hash[e] = None => expires[e] = 0
  BY DEF HInv, PathAges
<1>5. /\ expires' \in [Entries -> Nat] /\ expires'[id] = jiffies + Timeout
      /\ \A e \in Entries : e # id => expires'[e] = expires[e]
  BY <1>1, <1>2, <1>3, <1>4
<1>6. \A e \in Entries : /\ expires[e] <= expires'[e] /\ expires'[e] <= jiffies + Timeout
                         /\ hash[e] = None => expires'[e] = 0
  BY <1>2, <1>3, <1>4, <1>5
<1>7. f \notin robbed' => hash[id] = f
  BY <1>1
<1>8. f \notin robbed' => \A e \in Entries : hash[e] = f => e = id
  BY <1>2, <1>7 DEF EInv, OneEntryPerFlow
<1> QED BY <1>1, <1>2, <1>3, <1>5, <1>6, <1>7, <1>8, PostHInv

(* The entry is taken over.  If its expiry time is what the search saw,    *)
(* it has expired, and the old owner has no packet under way with this id. *)
LEMMA ClaimHInv ==
  ASSUME HInv, EInv, DInv, NEW f \in Hashes, WriteHash(f)
  PROVE  HInv'
<1> USE DEF HInv
<1> DEFINE e == i[f]
           old == hash[e]
<1>1. /\ UNCHANGED <<now, expires, at, saw, i, transit, queueVars>>
      /\ hash' = [hash EXCEPT ![e] = f] /\ pc' = [pc EXCEPT ![f] = "stamp"]
      /\ robbed' = robbed \cup (IF expires[e] # saw[f] THEN {old} ELSE {})
      /\ pc[f] = "claim" /\ e \in Entries
      /\ hash \in [Entries -> Hashes \cup {None}] /\ pc \in [Hashes -> Places]
      /\ \A d \in Entries : hash[d] # f
  BY DEF WriteHash, EInv, PathTypes, NotFound, Knows
<1>2. Queue!Waiting' = Queue!Waiting /\ Queue!Accepted' = Queue!Accepted
  BY <1>1, QueueSame
<1>3. now \in Nat /\ expires[e] \in Nat /\ expires[e] * Jiffy \in Nat
  BY <1>1, HandSizes DEF DInv, PathAges
<1>4. old \notin robbed' => expires[e] * Jiffy <= now
  <2> SUFFICES ASSUME expires[e] = saw[f] PROVE expires[e] * Jiffy <= now
    BY <1>1
  <2>1. expires[e] <= at[f] /\ at[f] <= jiffies /\ at[f] \in Nat /\ jiffies \in Nat
    BY <1>1, JiffiesPast DEF PathAges, DInv, jiffies
  <2>2. expires[e] <= now \div Jiffy
    BY <1>3, <2>1 DEF jiffies
  <2> QED BY <1>3, <2>2, Expired
<1> HIDE DEF e, old
<1>5. PathAges'
  <2>1. jiffies' = jiffies
    BY <1>1 DEF jiffies
  <2>2. \A d \in Entries : hash'[d] = None => expires'[d] = 0
    BY <1>1, TableAssumption DEF PathAges
  <2>3. \A g \in Hashes : pc'[g] = "claim" => saw'[g] <= at'[g]
    BY <1>1 DEF PathAges
  <2>4. ASSUME NEW g \in Hashes, pc'[g] = "stamp" PROVE hash'[i'[g]] # None
    <3>1. CASE g = f
      BY <1>1, <3>1, TableAssumption DEF e
    <3>2. CASE g # f
      <4>1. pc[g] = "stamp" /\ i'[g] = i[g]
        BY <1>1, <2>4, <3>2
      <4>2. i[g] \in Entries /\ hash[i[g]] # None
        BY <4>1 DEF PathAges, EInv, PathTypes
      <4> QED BY <1>1, <4>1, <4>2, TableAssumption
    <3> QED BY <3>1, <3>2
  <2> QED BY <1>1, <2>1, <2>2, <2>3, <2>4 DEF PathAges
<1>6. ASSUME NEW g \in Hashes, g \notin robbed', NEW d \in Entries, NEW t \in Nat,
             now <= t, Holds(g, d, t)
      PROVE  Holds(g, d, t)'
  <2>1. CASE d # e
    BY <1>1, <1>6, <2>1 DEF Holds
  <2>2. CASE d = e
    <3>1. g = old /\ t < expires[e] * Jiffy
      BY <1>6, <2>2 DEF Holds, old
    <3>2. expires[e] * Jiffy <= now
      BY <1>4, <1>6, <3>1
    <3> QED BY <1>3, <1>6, <3>1, <3>2
  <2> QED BY <2>1, <2>2
<1>7. robbed \subseteq robbed'
  BY <1>1
<1>8. TransitHeld'
  <2> SUFFICES ASSUME NEW g \in Hashes, NEW k \in 1 .. Len(transit[g])
               PROVE  /\ now <= transit[g][k].since + MaxTransit
                      /\ g \notin robbed' /\ transit[g][k].id # 0 =>
                           Holds(g, transit[g][k].id, transit[g][k].since + LastTick)'
    BY <1>1 DEF TransitHeld, Holds
  <2>1. /\ transit[g][k].id \in Ids /\ transit[g][k].since \in Nat
        /\ (transit[g][k].id # 0 => transit[g][k].id \in Entries)
    BY UnderwayTypes
  <2>2. now <= transit[g][k].since + MaxTransit
    BY DEF TransitHeld
  <2>3. transit[g][k].since + LastTick \in Nat /\ now <= transit[g][k].since + LastTick
    BY <1>3, <2>1, <2>2, StillUnderway
  <2>4. g \notin robbed' /\ transit[g][k].id # 0 =>
          Holds(g, transit[g][k].id, transit[g][k].since + LastTick)
    BY <1>7 DEF TransitHeld
  <2> HIDE DEF HInv
  <2> DEFINE d == transit[g][k].id
             t == transit[g][k].since + LastTick
  <2>5. (g \notin robbed' /\ d # 0 => Holds(g, d, t)) /\ t \in Nat /\ now <= t
        /\ (d # 0 => d \in Entries)
    BY <2>1, <2>3, <2>4
  <2>6. transit' = transit
    BY <1>1
  <2> HIDE DEF d, t
  <2>7. g \notin robbed' /\ d # 0 => hash'[d] = g /\ t < expires'[d] * Jiffy
    BY <1>6, <2>5 DEF Holds
  <2> QED BY <2>2, <2>6, <2>7 DEF d, t, Holds
<1>9. QueueTypes' /\ QueueInOrder' /\ EarlierGone' /\ FlowsLeaveInOrder' /\ TransitInOrder'
  BY <1>1, <1>2, <1>7
     DEF QueueTypes, QueueInOrder, EarlierGone, FlowsLeaveInOrder, TransitInOrder, queueVars
<1>10. QueueHeld'
  <2> SUFFICES ASSUME NEW p \in Queue!Waiting
               PROVE  /\ now <= pkts[p].due + MaxLate
                      /\ pkts[p].flow = 0 => pkts[p].dep <= now
                      /\ owner[p] \notin robbed' /\ pkts[p].flow # 0 =>
                           /\ hash'[pkts[p].flow] = owner[p]
                           /\ pkts[p].due + MaxLate < expires'[pkts[p].flow] * Jiffy
    BY <1>1, <1>2 DEF QueueHeld, Holds, queueVars
  <2> DEFINE d == pkts[p].flow
             t == pkts[p].due + MaxLate
  <2>1. /\ (d # 0 => d \in Entries) /\ t \in Nat /\ owner[p] \in Hashes
    BY SMTT(30), UnderwayTypes, HandSizes
  <2>2. now <= t /\ (pkts[p].flow = 0 => pkts[p].dep <= now)
    BY DEF QueueHeld
  <2>3. owner[p] \notin robbed' /\ d # 0 => Holds(owner[p], d, t)
    BY <1>7 DEF QueueHeld
  <2> HIDE DEF d, t, HInv
  <2>4. owner[p] \notin robbed' /\ d # 0 => hash'[d] = owner[p] /\ t < expires'[d] * Jiffy
    BY <1>6, <2>1, <2>2, <2>3 DEF Holds
  <2> QED BY <2>2, <2>4 DEF d, t
<1> QED BY <1>5, <1>8, <1>9, <1>10

(* The firmware takes f's first descriptor.                                *)
LEMMA EnqueueHInv ==
  ASSUME HInv, EInv, DInv, NEW f \in Hashes, FwEnqueue(f)
  PROVE  HInv'
<1> DEFINE n == Len(pkts) + 1
           d == transit[f][1]
           new == pkts'[n]
<1>0. PathAges /\ TransitHeld /\ QueueTypes /\ QueueHeld /\ TransitInOrder
      /\ QueueInOrder /\ EarlierGone /\ FlowsLeaveInOrder
  BY DEF HInv
<1>1. /\ UNCHANGED <<now, hash, expires, pc, i, at, saw, wire, robbed>>
      /\ transit[f] # <<>> /\ transit' = [transit EXCEPT ![f] = Tail(transit[f])]
      /\ owner' = Append(owner, f)
      /\ Queue!Accept
  BY DEF FwEnqueue, Queue!Accept, tableVars, pathVars
<1>2. /\ transit \in [Hashes -> Seq(SoundDescriptors)]
      /\ transit[f] \in Seq(SoundDescriptors)
      /\ Len(transit[f]) \in Nat /\ 1 \in 1 .. Len(transit[f])
      /\ Head(transit[f]) = d
  BY <1>1 DEF DInv
<1>3. /\ now \in Nat /\ d.id \in Ids /\ d.since \in Nat /\ FieldFlow(d.vlan) = d.id
      /\ (d.id # 0 => d.id \in Entries)
  BY <1>0, <1>2, UnderwayTypes
<1>4. /\ pkts \in Seq(PacketType) /\ owner \in Seq(Hashes) /\ Len(owner) = Len(pkts)
      /\ wire \in Seq(1 .. Len(pkts)) /\ n \in Nat /\ Len(pkts) \in Nat
  BY <1>0 DEF QueueTypes, Queue!Accepted
<1>5. PICK dep \in now .. now + Horizon, due \in now + 1 .. now + Horizon :
        pkts' = Append(pkts, [flow |-> FieldFlow(Head(transit[f]).vlan),
                              dep |-> dep, due |-> due])
  BY DEF FwEnqueue
<1>6. /\ dep \in Nat /\ due \in Nat /\ now <= dep /\ now <= due /\ due <= now + Horizon
  BY <1>3, <1>5, HandSizes
<1>7. pkts' = Append(pkts, [flow |-> d.id, dep |-> dep, due |-> due])
  BY <1>2, <1>3, <1>5
<1> HIDE DEF d
<1>8. /\ [flow |-> d.id, dep |-> dep, due |-> due] \in PacketType
      /\ new = [flow |-> d.id, dep |-> dep, due |-> due]
      /\ pkts' \in Seq(PacketType) /\ Len(pkts') = n
      /\ \A p \in 1 .. Len(pkts) : pkts'[p] = pkts[p]
  BY <1>3, <1>4, <1>6, <1>7 DEF PacketType
<1>9. /\ owner' \in Seq(Hashes) /\ Len(owner') = n /\ owner'[n] = f
      /\ \A p \in 1 .. Len(pkts) : owner'[p] = owner[p]
  BY <1>1, <1>4
<1>10. new.flow = d.id /\ new.dep = dep /\ new.due = due
  BY <1>8
<1>11. /\ d.id = 0 => dep = now
       /\ \A p \in Queue!Waiting :
            pkts[p].flow = d.id \/ pkts[p].dep <= dep => pkts[p].due < due
  BY <1>1, <1>10 DEF Queue!Accept
<1> HIDE DEF new
<1>12. /\ \A k \in 1 .. Len(wire) : wire[k] \in 1 .. Len(pkts)
       /\ Queue!Waiting \subseteq 1 .. Len(pkts)
       /\ Queue!Waiting' = Queue!Waiting \cup {n}
  <2>1. \A k \in 1 .. Len(wire) : wire[k] \in 1 .. Len(pkts)
    BY <1>4
  <2>2. 1 .. n = 1 .. Len(pkts) \cup {n} /\ n \notin 1 .. Len(pkts)
    BY <1>4
  <2>3. Queue!Waiting' = {p \in 1 .. n : \A k \in 1 .. Len(wire) : wire[k] # p}
    BY <1>1, <1>8 DEF Queue!Waiting, Queue!Accepted
  <2> QED BY <2>1, <2>2, <2>3 DEF Queue!Waiting, Queue!Accepted
<1>13. \A p \in Queue!Waiting : p # n /\ pkts'[p] = pkts[p] /\ owner'[p] = owner[p]
  BY <1>4, <1>8, <1>9, <1>12
<1>14. /\ \A g \in Hashes : g # f => transit'[g] = transit[g]
       /\ Len(transit'[f]) = Len(transit[f]) - 1
       /\ \A k \in 1 .. Len(transit'[f]) : /\ k + 1 \in 1 .. Len(transit[f])
                                           /\ transit'[f][k] = transit[f][k + 1]
  BY <1>1, <1>2
<1>15. PathAges'
  BY <1>0, <1>1 DEF PathAges, jiffies
<1>16. TransitHeld'
  <2> SUFFICES ASSUME NEW g \in Hashes, NEW k \in 1 .. Len(transit'[g])
               PROVE  /\ now <= transit'[g][k].since + MaxTransit
                      /\ g \notin robbed /\ transit'[g][k].id # 0 =>
                           Holds(g, transit'[g][k].id, transit'[g][k].since + LastTick)
    BY <1>1 DEF TransitHeld, Holds
  <2>1. CASE g # f
    BY <1>0, <1>14, <2>1 DEF TransitHeld
  <2>2. CASE g = f
    BY <1>0, <1>14, <2>2 DEF TransitHeld
  <2> QED BY <2>1, <2>2
<1>17. QueueTypes'
  <2>1. 1 .. Len(pkts) \subseteq 1 .. n
    BY <1>4
  <2>2. wire \in Seq(1 .. n)
    BY <1>4, <2>1
  <2> QED BY <1>1, <1>8, <1>9, <2>2 DEF QueueTypes, Queue!Accepted
<1>18. QueueHeld'
  <2>1. \A p \in Queue!Waiting :
          /\ now <= pkts'[p].due + MaxLate
          /\ pkts'[p].flow = 0 => pkts'[p].dep <= now
          /\ owner'[p] \notin robbed /\ pkts'[p].flow # 0
               => Holds(owner'[p], pkts'[p].flow, pkts'[p].due + MaxLate)
    BY <1>0, <1>13 DEF QueueHeld
  <2>2. now <= due + MaxLate /\ (d.id = 0 => dep <= now)
    BY <1>3, <1>6, <1>11, HandSizes
  <2>3. f \notin robbed /\ d.id # 0 => Holds(f, d.id, due + MaxLate)
    <3> SUFFICES ASSUME f \notin robbed, d.id # 0 PROVE Holds(f, d.id, due + MaxLate)
      OBVIOUS
    <3>1. Holds(f, d.id, d.since + LastTick) /\ now <= d.since + MaxTransit
      BY <1>0, <1>2 DEF TransitHeld, d
    <3>2. due + MaxLate <= d.since + LastTick /\ due + MaxLate \in Nat
          /\ d.since + LastTick \in Nat
      <4> DEFINE s == d.since
      <4>1. s \in Nat /\ now <= s + MaxTransit
        BY <1>3, <3>1
      <4> HIDE DEF s
      <4>2. due + MaxLate <= s + LastTick /\ due + MaxLate \in Nat /\ s + LastTick \in Nat
        BY <1>3, <1>6, <4>1, HandSizes
      <4> QED BY <4>2 DEF s
    <3>3. expires[d.id] * Jiffy \in Nat
      BY <1>0, <1>3, HandSizes DEF PathAges
    <3> QED BY <3>1, <3>2, <3>3 DEF Holds
  <2>4. \A p \in Queue!Waiting' :
          /\ now <= pkts'[p].due + MaxLate
          /\ pkts'[p].flow = 0 => pkts'[p].dep <= now
          /\ owner'[p] \notin robbed /\ pkts'[p].flow # 0
               => Holds(owner'[p], pkts'[p].flow, pkts'[p].due + MaxLate)
    BY <1>9, <1>10, <1>12, <2>1, <2>2, <2>3 DEF new
  <2> QED BY <1>1, <2>4 DEF QueueHeld, Holds
<1>19. TransitInOrder'
  <2> SUFFICES ASSUME NEW g \in Hashes, g \notin robbed, NEW k \in 1 .. Len(transit'[g])
               PROVE  /\ \A j \in 1 .. k - 1 :
                           transit'[g][j].id \in {0, transit'[g][k].id}
                      /\ \A p \in Queue!Waiting' :
                           owner'[p] = g => pkts'[p].flow \in {0, transit'[g][k].id}
    BY <1>1 DEF TransitInOrder
  <2>1. CASE g # f
    <3>1. \A p \in Queue!Waiting' : owner'[p] = g => p \in Queue!Waiting
      BY <1>9, <1>12, <2>1
    <3> QED BY <1>0, <1>13, <1>14, <2>1, <3>1 DEF TransitInOrder
  <2>2. CASE g = f
    <3> DEFINE c == transit[f][k + 1].id
    <3>1. /\ k \in Nat /\ k > 0 /\ k + 1 \in 1 .. Len(transit[f])
          /\ transit'[f][k].id = c
      BY SMTT(30), <1>14, <2>2
    <3>2. /\ \A j \in 1 .. (k + 1) - 1 : transit[f][j].id \in {0, c}
          /\ \A p \in Queue!Waiting : owner[p] = f => pkts[p].flow \in {0, c}
      BY <1>0, <2>2, <3>1 DEF TransitInOrder
    <3>3. d.id \in {0, c}
      BY <3>1, <3>2 DEF d
    <3>4. ASSUME NEW j \in 1 .. k - 1 PROVE transit'[f][j].id \in {0, c}
      <4>1. j \in 1 .. Len(transit'[f]) /\ j + 1 \in 1 .. (k + 1) - 1
        BY SMTT(30), <1>14, <2>2, <3>1
      <4> QED BY <1>14, <3>2, <4>1
    <3>5. \A p \in Queue!Waiting' : owner'[p] = f => pkts'[p].flow \in {0, c}
      BY <1>10, <1>12, <1>13, <3>2, <3>3 DEF new
    <3> QED BY <2>2, <3>1, <3>4, <3>5
  <2> QED BY <2>1, <2>2
<1>20. QueueInOrder'
  <2> SUFFICES ASSUME NEW p \in Queue!Waiting', NEW q \in Queue!Waiting', p < q,
                      owner'[p] = owner'[q], owner'[p] \notin robbed
               PROVE  pkts'[p].due < pkts'[q].due
    BY <1>1 DEF QueueInOrder
  <2>1. CASE q # n
    <3>1. p \in Queue!Waiting /\ q \in Queue!Waiting
      BY <1>4, <1>12, <2>1
    <3> QED BY <1>0, <1>13, <3>1 DEF QueueInOrder
  <2>2. CASE q = n
    <3>1. p \in Queue!Waiting /\ owner[p] = f /\ f \notin robbed
      BY <1>4, <1>9, <1>12, <1>13, <2>2
    <3>2. pkts[p].flow \in {0, d.id}
      BY <1>0, <1>2, <3>1 DEF TransitInOrder, d
    <3>3. pkts[p].flow = 0 => pkts[p].dep <= dep
      <4>1. pkts[p].dep \in Nat /\ (pkts[p].flow = 0 => pkts[p].dep <= now)
        BY <1>0, <3>1, UnderwayTypes DEF QueueHeld
      <4> QED BY <1>3, <1>6, <4>1
    <3>4. pkts[p].due < due
      BY <1>11, <3>1, <3>2, <3>3
    <3> QED BY <1>10, <1>13, <2>2, <3>1, <3>4 DEF new
  <2> QED BY <2>1, <2>2
<1>21. EarlierGone' /\ FlowsLeaveInOrder'
  <2>1. \A k \in 1 .. Len(wire) : owner'[wire[k]] = owner[wire[k]] /\ ~(n < wire[k])
    BY <1>4, <1>9, <1>12
  <2>2. EarlierGone'
    <3> SUFFICES ASSUME NEW k \in 1 .. Len(wire), NEW p \in Queue!Waiting',
                        p < wire[k], owner'[p] = owner'[wire[k]]
                 PROVE  owner'[p] \in robbed
      BY <1>1 DEF EarlierGone
    <3>1. p \in Queue!Waiting
      BY <1>12, <2>1
    <3>2. owner[p] = owner[wire[k]] /\ owner'[p] = owner[p]
      BY <1>13, <2>1, <3>1
    <3> QED BY <1>0, <3>1, <3>2 DEF EarlierGone
  <2>3. FlowsLeaveInOrder'
    <3> SUFFICES ASSUME NEW j \in 1 .. Len(wire), NEW k \in 1 .. Len(wire), j < k,
                        owner'[wire[j]] = owner'[wire[k]], owner'[wire[j]] \notin robbed
                 PROVE  wire[j] < wire[k]
      BY <1>1 DEF FlowsLeaveInOrder
    <3>1. owner[wire[j]] = owner[wire[k]] /\ owner[wire[j]] \notin robbed
      BY <2>1
    <3> QED BY <1>0, <3>1 DEF FlowsLeaveInOrder
  <2> QED BY <2>2, <2>3
<1> QED BY <1>15, <1>16, <1>17, <1>18, <1>19, <1>20, <1>21 DEF HInv

(* The packet with the first slot leaves: no earlier one of its flow can   *)
(* still be waiting.                                                       *)
LEMMA DepartHInv ==
  ASSUME HInv, EInv, DInv, FwDepart
  PROVE  HInv'
<1>0. PathAges /\ TransitHeld /\ QueueTypes /\ QueueHeld /\ TransitInOrder
      /\ QueueInOrder /\ EarlierGone /\ FlowsLeaveInOrder
  BY DEF HInv
<1>1. PICK p \in Queue!Waiting : Queue!Depart(p)
  BY DEF FwDepart
<1>2. /\ UNCHANGED <<now, pkts, hash, expires, pc, i, at, saw, transit, owner, robbed>>
      /\ wire' = Append(wire, p)
      /\ \A q \in Queue!Waiting : pkts[p].due <= pkts[q].due
  BY <1>1 DEF FwDepart, Queue!Depart, tableVars, pathVars
<1>3. /\ wire \in Seq(1 .. Len(pkts)) /\ p \in 1 .. Len(pkts) /\ Len(wire) \in Nat
      /\ \A q \in Queue!Waiting : q \in Nat /\ pkts[q].due \in Nat
  BY <1>0, UnderwayTypes DEF QueueTypes, Queue!Accepted
<1>4. /\ wire' \in Seq(1 .. Len(pkts)) /\ Len(wire') = Len(wire) + 1
      /\ wire'[Len(wire) + 1] = p
      /\ \A k \in 1 .. Len(wire) : wire'[k] = wire[k]
      /\ \A k \in 1 .. Len(wire) : wire[k] \in Nat /\ wire[k] # p
  BY <1>2, <1>3 DEF Queue!Waiting
<1>5. Queue!Waiting' \subseteq Queue!Waiting
  <2>1. \A k \in 1 .. Len(wire) : k \in 1 .. Len(wire')
    BY <1>3, <1>4
  <2> QED BY <1>2, <1>4, <2>1 DEF Queue!Waiting, Queue!Accepted
<1>6. PathAges' /\ TransitHeld'
  BY <1>0, <1>2 DEF PathAges, jiffies, TransitHeld, Holds
<1>7. QueueTypes'
  BY <1>0, <1>2, <1>4 DEF QueueTypes, Queue!Accepted
<1>8. QueueHeld' /\ TransitInOrder' /\ QueueInOrder'
  BY <1>0, <1>2, <1>5 DEF QueueHeld, Holds, TransitInOrder, QueueInOrder
<1>9. EarlierGone'
  <2> SUFFICES ASSUME NEW k \in 1 .. Len(wire'), NEW q \in Queue!Waiting',
                      q < wire'[k], owner[q] = owner[wire'[k]], owner[q] \notin robbed
               PROVE  FALSE
    BY <1>2 DEF EarlierGone
  <2>1. q \in Queue!Waiting
    BY <1>5
  <2>2. CASE k \in 1 .. Len(wire)
    BY <1>0, <1>4, <2>1, <2>2 DEF EarlierGone
  <2>3. CASE k = Len(wire) + 1
    <3>1. pkts[q].due < pkts[p].due
      BY <1>0, <1>1, <1>4, <2>1, <2>3 DEF QueueInOrder
    <3> QED BY <1>1, <1>2, <1>3, <2>1, <3>1
  <2> QED BY <1>3, <1>4, <2>2, <2>3
<1>10. FlowsLeaveInOrder'
  <2> SUFFICES ASSUME NEW j \in 1 .. Len(wire'), NEW k \in 1 .. Len(wire'), j < k,
                      owner[wire'[j]] = owner[wire'[k]], owner[wire'[j]] \notin robbed
               PROVE  wire'[j] < wire'[k]
    BY <1>2 DEF FlowsLeaveInOrder
  <2>1. j \in 1 .. Len(wire)
    BY <1>3, <1>4
  <2>2. CASE k \in 1 .. Len(wire)
    BY <1>0, <1>4, <2>1, <2>2 DEF FlowsLeaveInOrder
  <2>3. CASE k = Len(wire) + 1
    <3>1. ~(p < wire[j])
      BY <1>0, <1>1, <1>4, <2>1, <2>3 DEF EarlierGone
    <3>2. /\ wire'[j] = wire[j] /\ wire'[k] = p
          /\ wire[j] \in Nat /\ wire[j] # p /\ p \in Nat
      BY <1>1, <1>3, <1>4, <2>1, <2>3
    <3> QED BY <3>1, <3>2
  <2>4. k \in 1 .. Len(wire) \/ k = Len(wire) + 1
    <3>1. Len(wire') = Len(wire) + 1 /\ Len(wire) \in Nat
      BY <1>3, <1>4
    <3> QED BY <3>1
  <2> QED BY <2>2, <2>3, <2>4
<1> QED BY <1>6, <1>7, <1>8, <1>9, <1>10 DEF HInv

LEMMA TickHInv ==
  ASSUME HInv, EInv, DInv, Tick
  PROVE  HInv'
<1> USE DEF HInv
<1>1. /\ UNCHANGED <<tableVars, pathVars, transit, queueVars, robbed>>
      /\ now' = now + 1 /\ now \in Nat
      /\ \A f \in Hashes : \A k \in 1 .. Len(transit[f]) :
           now < transit[f][k].since + MaxTransit
      /\ \A p \in Queue!Waiting : now < pkts[p].due + MaxLate
  BY DEF Tick, Queue!Tick, DInv, queueVars
<1>2. Queue!Waiting' = Queue!Waiting /\ Queue!Accepted' = Queue!Accepted
  BY <1>1, QueueSame
<1>3. jiffies \in Nat /\ jiffies' \in Nat /\ jiffies <= jiffies'
  BY <1>1, JiffiesPast, JiffiesGo DEF jiffies
<1>4. PathAges'
  <2>1. jiffies + Timeout <= jiffies' + Timeout
        /\ jiffies + Timeout \in Nat /\ jiffies' + Timeout \in Nat
    BY <1>3, LaterTimeout
  <2>2. \A e \in Entries : expires[e] \in Nat /\ expires[e] <= jiffies' + Timeout
    BY <2>1 DEF PathAges
  <2>3. \A f \in Hashes : at[f] \in Nat /\ at[f] <= jiffies'
    BY <1>3 DEF PathAges
  <2> QED BY <1>1, <2>2, <2>3 DEF PathAges, tableVars, pathVars
<1>5. TransitHeld'
  <2> SUFFICES ASSUME NEW f \in Hashes, NEW k \in 1 .. Len(transit[f])
               PROVE  /\ now + 1 <= transit[f][k].since + MaxTransit
                      /\ f \notin robbed /\ transit[f][k].id # 0 =>
                           Holds(f, transit[f][k].id, transit[f][k].since + LastTick)
    BY <1>1 DEF TransitHeld, Holds, tableVars
  <2> DEFINE s == transit[f][k].since
  <2>1. s \in Nat /\ now < s + MaxTransit
    BY <1>1, UnderwayTypes
  <2> HIDE DEF s
  <2>2. now + 1 <= s + MaxTransit
    BY <1>1, <2>1, HandSizes
  <2> QED BY <2>2 DEF TransitHeld, s
<1>6. QueueHeld'
  <2> SUFFICES ASSUME NEW p \in Queue!Waiting
               PROVE  /\ now + 1 <= pkts[p].due + MaxLate
                      /\ pkts[p].flow = 0 => pkts[p].dep <= now + 1
                      /\ owner[p] \notin robbed /\ pkts[p].flow # 0 =>
                           Holds(owner[p], pkts[p].flow, pkts[p].due + MaxLate)
    BY <1>1, <1>2 DEF QueueHeld, Holds, tableVars, queueVars
  <2> DEFINE s == pkts[p].due
             dep == pkts[p].dep
  <2>1. s \in Nat /\ dep \in Nat /\ now < s + MaxLate
        /\ (pkts[p].flow = 0 => dep <= now)
    BY <1>1, UnderwayTypes DEF QueueHeld
  <2> HIDE DEF s, dep
  <2>2. now + 1 <= s + MaxLate /\ (dep <= now => dep <= now + 1)
    BY <1>1, <2>1, HandSizes
  <2> QED BY <2>1, <2>2 DEF QueueHeld, s, dep
<1>7. QueueTypes' /\ TransitInOrder' /\ QueueInOrder' /\ EarlierGone' /\ FlowsLeaveInOrder'
  BY <1>1, <1>2
     DEF QueueTypes, TransitInOrder, QueueInOrder, EarlierGone, FlowsLeaveInOrder, queueVars
<1> QED BY <1>4, <1>5, <1>6, <1>7

LEMMA NextHInv == HInv /\ EInv /\ DInv /\ [Next]_vars => HInv'
<1> SUFFICES ASSUME HInv, EInv, DInv, [Next]_vars PROVE HInv'
  OBVIOUS
<1>1. ASSUME NEW f \in Hashes,
             (\E p \in Sends : Transmit(f, p)) \/ nfp_net_tx_set_flow_id(f) \/ FwEnqueue(f)
      PROVE  HInv'
  BY <1>1, LooksStep, UnpacedHInv, ClaimHInv, StampHInv, EnqueueHInv
     DEF nfp_net_tx_set_flow_id
<1>2. CASE FwDepart
  BY <1>2, DepartHInv
<1>3. CASE Tick
  BY <1>3, TickHInv
<1>4. CASE UNCHANGED vars
  <2>1. UNCHANGED <<now, hash, expires, pc, skb, i, at, saw, transit, queueVars, robbed>>
    BY <1>4 DEF vars, tableVars, pathVars
  <2>2. Queue!Waiting' = Queue!Waiting /\ Queue!Accepted' = Queue!Accepted
    BY <2>1, QueueSame
  <2>3. PathAges' /\ TransitHeld' /\ QueueHeld' /\ QueueTypes'
    BY <2>1, <2>2 DEF HInv, PathAges, jiffies, TransitHeld, QueueHeld, Holds, QueueTypes,
       queueVars
  <2>4. TransitInOrder' /\ QueueInOrder' /\ EarlierGone' /\ FlowsLeaveInOrder'
    BY SMTT(30), <2>1, <2>2 DEF HInv, TransitInOrder, QueueInOrder, EarlierGone, FlowsLeaveInOrder,
       queueVars
  <2> QED BY <2>3, <2>4 DEF HInv
<1> QED BY <1>1, <1>2, <1>3, <1>4 DEF Next

(* A flow's hash is written into an entry while packets of its last owner  *)
(* are under way only in a race that robs that owner.  For any number of   *)
(* flows and CPUs, sizes and times that meet TimeoutAssumption.            *)
THEOREM IdsAreNotShared == Spec => []IdsNotShared
<1>1. HInv /\ DInv => IdsNotShared
  <2> SUFFICES ASSUME HInv, DInv, NEW f \in Hashes \ robbed, NEW g \in Hashes \ robbed,
                      f # g, NEW id \in IdsUnderway(f), id \in IdsUnderway(g), id # 0
               PROVE  FALSE
    BY DEF IdsNotShared
  <2>1. ASSUME NEW h \in Hashes \ robbed, id \in IdsUnderway(h) PROVE hash[id] = h
    <3>1. CASE id \in {transit[h][k].id : k \in 1 .. Len(transit[h])}
      BY <3>1 DEF HInv, TransitHeld, Holds
    <3>2. CASE \E p \in Queue!Waiting : owner[p] = h /\ id = pkts[p].flow
      BY <3>2 DEF HInv, QueueHeld, Holds
    <3> QED BY <2>1, <3>1, <3>2 DEF IdsUnderway
  <2> QED BY <2>1
<1> QED BY InitEInv, NextEInv, InitDInv, NextDInv, InitHInv, NextHInv, <1>1, PTL DEF Spec

(* Whether a flow gets an id, is without one or has another: the packets   *)
(* that nfp_net_tx() posted for it leave in that order, unless a race      *)
(* robbed it of an entry.                                                  *)
THEOREM FlowsKeepTheirOrder == Spec => []FlowsLeaveInOrder
<1>1. HInv => FlowsLeaveInOrder
  BY DEF HInv
<1> QED BY InitEInv, NextEInv, InitDInv, NextDInv, InitHInv, NextHInv, <1>1, PTL DEF Spec

============================================================================
