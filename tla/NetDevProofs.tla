---------------------------- MODULE NetDevProofs ----------------------------
(***************************************************************************)
(* Proofs about NetDev, for any numbers of vectors: all its invariants.    *)
(*                                                                         *)
(* What is held, enabled and assigned is a function of the place in the    *)
(* operation (Stages).  On that rest what the device may use (Use), the    *)
(* two copies of the control word (Copies), and the link (Known).          *)
(***************************************************************************)
EXTENDS NetDev, TLAPS

Bits == {"ENABLE", "PROMISC", "RXCSUM"}
Base == {Exn, Lsc}
Full(c, m) == Base \cup Vec(0, c) \cup Rings(m)

(* Types.  There are two sets of rings. *)
Places ==
  {"idle", "exn", "lsc", "lsc_off", "vectors", "tx", "queues", "up",
   "enable", "enable_wait", "disable", "disable_wait", "enabled", "free",
   "more_vectors", "more_tx", "stop", "swap", "features_wait"}
Stacks == {<< >>, <<"enabled">>, <<"free">>, <<"swap">>}
RtType == [op : {"none", "open", "close", "reconfig", "features"},
           pc : Places, stack : Stacks, err : BOOLEAN,
           ctrl : SUBSET Bits, r : Nat, again : BOOLEAN]
Types ==
  /\ nn \in [cfg : Configs, mem : {1, 2}, ctrl : SUBSET Bits, up : BOOLEAN]
  /\ dp \in [cfg : Nat, mem : {0, 1, 2}, ctrl : SUBSET Bits]
  /\ rt \in RtType
  /\ bar \in [ctrl : SUBSET Bits, rings : {0, 1, 2}, lsc : BOOLEAN]
  /\ want \in BOOLEAN
  /\ link \in [sts : BOOLEAN, up : BOOLEAN, disabled : BOOLEAN,
               pending : BOOLEAN, pc : {"idle", "read", "unmask"}]

----------------------------------------------------------------------------
(* What is held, enabled and assigned at each place. *)
Settled ==
  /\ held = IF nn.up THEN Full(nn.cfg, nn.mem) ELSE {}
  /\ running = IF nn.up THEN Own ELSE {}
  /\ nn.up => assigned = nn.mem

Telling == {"enable", "enable_wait", "disable", "disable_wait"}

Opening ==
  /\ ~nn.up
  /\ rt.pc \in {"exn", "lsc", "lsc_off", "vectors", "tx", "queues", "enabled", "up"}
               \cup Telling
  /\ rt.stack = IF rt.pc \in Telling THEN <<"enabled">> ELSE << >>
  /\ running = IF rt.pc = "up" THEN Own ELSE {}
  /\ rt.pc = "exn" => held = {}
  /\ rt.pc = "lsc" => held = {Exn}
  /\ rt.pc = "lsc_off" => held = Base /\ rt.r = 0
  /\ rt.pc = "vectors" => rt.r <= nn.cfg /\ held = Base \cup Vec(0, rt.r)
  /\ rt.pc = "tx" => held = Base \cup Own \cup {<<"rx", nn.mem>>}
  /\ rt.pc \in {"queues", "enabled", "up"} \cup Telling
       => held = Full(nn.cfg, nn.mem) /\ assigned = nn.mem
  /\ rt.pc \in {"exn", "lsc"} => rt.r = 0
  /\ rt.pc \in {"disable", "disable_wait"} => rt.err
  /\ rt.pc = "up" => ~rt.err

Closing ==
  /\ nn.up
  /\ rt.pc \in {"disable", "disable_wait", "free"}
  /\ rt.stack = IF rt.pc = "free" THEN << >> ELSE <<"free">>
  /\ held = Full(nn.cfg, nn.mem) /\ running = {}
  /\ ~rt.err

(* The new rings are taken while the old ones are in use, and the other    *)
(* way round once they have changed places.                                *)
Taking  == {"more_vectors", "more_tx", "stop"}
Replacing ==
  /\ nn.up
  /\ rt.pc \in {"swap", "enabled"} \cup Taking \cup Telling
  /\ rt.stack \in IF rt.pc \in {"disable", "disable_wait"}
                  THEN {<<"swap">>, <<"enabled">>}
                  ELSE IF rt.pc \in Telling THEN {<<"enabled">>} ELSE {<< >>}
  /\ rt.stack = <<"enabled">> /\ rt.pc \in {"disable", "disable_wait"} => rt.err
  /\ dp.cfg \in Configs /\ dp.mem = 3 - nn.mem /\ assigned = nn.mem
  /\ running = IF rt.pc \in Taking THEN Own ELSE {}
  /\ rt.pc = "more_vectors" =>
       /\ nn.cfg <= rt.r /\ (rt.r <= dp.cfg \/ rt.r = nn.cfg)
       /\ held = Full(nn.cfg, nn.mem) \cup Vec(nn.cfg, rt.r)
  /\ rt.pc = "more_tx" =>
       held = Full(nn.cfg, nn.mem) \cup Vec(nn.cfg, dp.cfg) \cup {<<"rx", dp.mem>>}
  /\ rt.pc \notin {"more_vectors", "more_tx"} =>
       held = Base \cup Vec(0, nn.cfg) \cup Vec(0, dp.cfg) \cup Rings(1) \cup Rings(2)

Stages ==
  /\ Types /\ ~misused
  /\ rt.op = "none" => rt = Idle /\ Settled
  /\ rt.op = "features" => rt.pc = "features_wait" /\ rt.stack = << >> /\ Settled
  /\ rt.op = "open" => Opening
  /\ rt.op = "close" => Closing
  /\ rt.op = "reconfig" => Replacing

----------------------------------------------------------------------------
(* What the device may use.  It was told of no rings but those of the      *)
(* driver's configuration, and of none where they are taken or freed.  An  *)
(* update that was started over no other one reads what was written before *)
(* it, or while it was under way.                                          *)
Told ==
  \/ rt.op \in {"none", "features"} /\ nn.up
  \/ rt.pc \in {"enable_wait", "disable"} \cup Taking
  \/ rt.pc \in {"enabled", "up"} /\ ~rt.err

Use ==
  /\ bar.rings \in {0, nn.mem}
  /\ ~unconfirmed => uses \in {0, nn.mem} /\ reads \subseteq {0, nn.mem}
  /\ ~Told => bar.rings = 0
  /\ ~Told /\ rt.pc # "disable_wait" /\ ~unconfirmed => uses = 0 /\ reads \subseteq {0}
  /\ own => Waiting /\ ~pre /\ ~under
  /\ own /\ ~over => reads \subseteq {0, bar.rings}

(* The copies of the control word.  A change of the receive mode while a   *)
(* control word waits to be noted may disturb them, but not while the      *)
(* interface is being opened, when it is not yet up.                       *)
Wanted  == want <=> "PROMISC" \in nn.ctrl
Off(c)  == c \ {"ENABLE"}
Alone   == rt.op = "open" \/ ~overlapped
Serving ==
  /\ "ENABLE" \in nn.ctrl /\ "ENABLE" \in bar.ctrl
  /\ bar.rings = nn.mem
  /\ ~unconfirmed => uses = nn.mem /\ reads \subseteq {nn.mem}

(* Whoever waits has written what it will note when it is confirmed, and   *)
(* its update, started over no other one, reads that.                      *)
Noted ==
  /\ Waiting /\ Alone => bar.ctrl = rt.ctrl
  /\ rt.pc \in {"disable_wait", "enable_wait"} /\ Alone => Off(rt.ctrl) = Off(nn.ctrl)
  /\ rt.pc = "disable_wait" => "ENABLE" \notin rt.ctrl
  /\ rt.pc = "enable_wait" => "ENABLE" \in rt.ctrl /\ bar.rings = nn.mem
  /\ rt.pc = "enable_wait" /\ Alone /\ own /\ ~over => reads \subseteq {nn.mem}
  /\ rt.pc = "features_wait" /\ Alone => rt.ctrl \ {"RXCSUM"} = nn.ctrl \ {"RXCSUM"}

(* Where the copies agree, and where they agree unless a change of features *)
(* has failed.                                                             *)
Equal ==
  \/ rt.pc \in {"swap", "free", "up"}
  \/ rt.pc = "enabled" /\ (rt.op = "open" \/ rt.again \/ ~rt.err)

Before ==
  rt.pc \in {"idle", "exn", "lsc", "lsc_off", "vectors", "tx", "queues"} \cup Taking

(* The configuration that is set aside differs from the other one in the   *)
(* receive mode, if that was changed meanwhile, and in ENABLE, which it    *)
(* has not once it was in use.                                             *)
Moded(c) == c \ {"ENABLE", "PROMISC"}
SetAside ==
  rt.op = "reconfig" =>
    /\ ~overlapped => Moded(dp.ctrl) = Moded(nn.ctrl)
    /\ rt.again \/ (rt.pc \notin Taking /\ rt.stack # <<"swap">> /\ rt.pc # "swap")
         => "ENABLE" \notin dp.ctrl
    /\ rt.pc = "swap" => "ENABLE" \notin nn.ctrl

Served ==
  \/ nn.up /\ ~dead /\ (rt.op \in {"none", "features"} \/ rt.pc \in Taking)
  \/ rt.pc \in {"enabled", "up"} /\ ~rt.err

Agreed ==
  /\ Alone /\ Equal => bar.ctrl = nn.ctrl
  /\ ~overlapped /\ Before => bar.ctrl = nn.ctrl \/ featfail
  /\ nn.up /\ ~overlapped => Wanted

InUse ==
  /\ Alone /\ Served => Serving
  /\ rt.pc \in {"enabled", "up"} /\ ~rt.err => ~dead

Copies == Agreed /\ Noted /\ SetAside /\ InUse

Known ==
  /\ bar.lsc <=> Lsc \in held
  /\ LinkKnown
----------------------------------------------------------------------------
(* Vectors and rings. *)
LEMMA Numbers ==
  \A c \in Configs : c \in Nat /\ c > 0
BY ConfigsAssumption

LEMMA VecIn ==
  ASSUME NEW a \in Nat, NEW b \in Nat, NEW x
  PROVE  /\ x \in Vec(a, b) <=> \E r \in a .. b - 1 : x = <<"vec", r>>
         /\ \A r \in Nat : <<"vec", r>> \in Vec(a, b) <=> a <= r /\ r < b
BY DEF Vec

LEMMA VecNext ==
  ASSUME NEW a \in Nat, NEW b \in Nat, a <= b
  PROVE  /\ Vec(a, b + 1) = Vec(a, b) \cup {<<"vec", b>>}
         /\ <<"vec", b>> \notin Vec(a, b)
<1>1. ASSUME NEW x
      PROVE  x \in Vec(a, b + 1) <=> x \in Vec(a, b) \cup {<<"vec", b>>}
  <2>1. \A r : r \in a .. (b + 1) - 1 <=> r \in a .. b - 1 \/ r = b
    OBVIOUS
  <2> QED BY <2>1 DEF Vec
<1> QED BY <1>1, VecIn

LEMMA VecNone ==
  ASSUME NEW a \in Nat, NEW b \in Nat, b <= a
  PROVE  Vec(a, b) = {}
BY DEF Vec

LEMMA VecJoin ==
  ASSUME NEW a \in Nat, NEW b \in Nat, NEW c \in Nat, a <= b, b <= c
  PROVE  Vec(a, b) \cup Vec(b, c) = Vec(a, c) /\ Vec(a, b) \cap Vec(b, c) = {}
<1>1. \A r : r \in a .. c - 1 <=> r \in a .. b - 1 \/ r \in b .. c - 1
  OBVIOUS
<1>2. \A r : ~(r \in a .. b - 1 /\ r \in b .. c - 1)
  OBVIOUS
<1>3. ASSUME NEW x PROVE x \in Vec(a, c) <=> x \in Vec(a, b) \cup Vec(b, c)
  BY <1>1 DEF Vec
<1>4. ASSUME NEW x, x \in Vec(a, b), x \in Vec(b, c) PROVE FALSE
  <2>1. PICK r \in a .. b - 1 : x = <<"vec", r>>
    BY <1>4 DEF Vec
  <2>2. PICK q \in b .. c - 1 : x = <<"vec", q>>
    BY <1>4 DEF Vec
  <2> QED BY <1>2, <2>1, <2>2
<1> QED BY <1>3, <1>4

(* The kinds of what is held are told apart. *)
LEMMA Kinds ==
  /\ \A a, b : Exn \notin Vec(a, b) /\ Lsc \notin Vec(a, b)
  /\ \A a, b, m : <<"rx", m>> \notin Vec(a, b) /\ <<"tx", m>> \notin Vec(a, b)
  /\ Exn # Lsc
  /\ \A m : <<"rx", m>> \notin Base /\ <<"tx", m>> \notin Base /\ <<"rx", m>> # <<"tx", m>>
  /\ \A m, n : m # n => Rings(m) \cap Rings(n) = {}
  /\ \A m : Rings(m) = {<<"rx", m>>} \cup {<<"tx", m>>}
BY DEF Exn, Lsc, Base, Vec, Rings

LEMMA StackFacts ==
  ASSUME NEW x
  PROVE  /\ <<x>> \o << >> = <<x>> /\ Head(<<x>>) = x /\ Tail(<<x>>) = << >>
         /\ <<x>> # << >>
OBVIOUS

(* Moving on, calls and returns. *)
LEMMA GoToIs ==
  ASSUME Types, NEW p \in Places, GoTo(p)
  PROVE  /\ rt' \in RtType
         /\ rt'.op = rt.op /\ rt'.pc = p /\ rt'.stack = rt.stack /\ rt'.err = rt.err
         /\ rt'.ctrl = rt.ctrl /\ rt'.r = rt.r /\ rt'.again = rt.again
BY DEF Types, RtType, GoTo

LEMMA CallIs ==
  ASSUME Types, NEW p \in Places, NEW q, <<q>> \in Stacks, Call(p, q), rt.stack = << >>
  PROVE  /\ rt' \in RtType
         /\ rt'.op = rt.op /\ rt'.pc = p /\ rt'.stack = <<q>> /\ rt'.err = rt.err
         /\ rt'.ctrl = rt.ctrl /\ rt'.r = rt.r /\ rt'.again = rt.again
<1>1. rt' = [rt EXCEPT !.pc = p, !.stack = <<q>>]
  BY StackFacts DEF Call, Types, RtType
<1> QED BY <1>1 DEF Types, RtType

LEMMA ReturnIs ==
  ASSUME Types, NEW q \in Places, NEW e \in BOOLEAN, Return(e), rt.stack = <<q>>
  PROVE  /\ rt' \in RtType
         /\ rt'.op = rt.op /\ rt'.pc = q /\ rt'.stack = << >> /\ rt'.err = e
         /\ rt'.ctrl = rt.ctrl /\ rt'.r = rt.r /\ rt'.again = rt.again
<1>1. rt' = [rt EXCEPT !.pc = q, !.stack = << >>, !.err = e]
  BY StackFacts DEF Return, Types, RtType
<1> QED BY <1>1 DEF Types, RtType, Stacks

LEMMA FinishIs ==
  ASSUME Finish
  PROVE  /\ rt' = Idle /\ rt' \in RtType /\ dp' = NoDp
         /\ rt'.op = "none" /\ rt'.pc = "idle" /\ rt'.stack = << >> /\ ~rt'.err
         /\ dp' \in [cfg : Nat, mem : {0, 1, 2}, ctrl : SUBSET Bits]
BY DEF Finish, Idle, NoDp, RtType, Places, Stacks

----------------------------------------------------------------------------
(* The place tells the operation, but for the dialogue with the firmware.  *)
LEMMA Which ==
  ASSUME Stages
  PROVE  /\ rt.op \in {"none", "open", "close", "reconfig", "features"}
         /\ rt.pc \in {"exn", "lsc", "lsc_off", "vectors", "tx", "queues", "up"}
              => rt.op = "open" /\ Opening
         /\ rt.pc \in {"more_vectors", "more_tx", "stop", "swap"}
              => rt.op = "reconfig" /\ Replacing
         /\ rt.pc = "free" => rt.op = "close" /\ Closing
         /\ rt.pc = "features_wait" => rt.op = "features"
         /\ rt.pc \in {"enable", "enable_wait", "enabled"} =>
              \/ rt.op = "open" /\ Opening
              \/ rt.op = "reconfig" /\ Replacing
         /\ rt.pc \in {"disable", "disable_wait"} =>
              \/ rt.op = "open" /\ Opening
              \/ rt.op = "close" /\ Closing
              \/ rt.op = "reconfig" /\ Replacing
<1>1. rt.op \in {"none", "open", "close", "reconfig", "features"}
  BY DEF Stages, Types, RtType
<1>2. rt.op = "none" => rt.pc = "idle"
  BY DEF Stages, Idle
<1>3. rt.op = "features" => rt.pc = "features_wait"
  BY DEF Stages
<1>4. rt.op = "open" =>
        Opening /\ rt.pc \notin {"more_vectors", "more_tx", "stop", "swap", "free",
                                 "features_wait"}
  BY DEF Stages, Opening, Telling
<1>5. rt.op = "close" => Closing /\ rt.pc \in {"disable", "disable_wait", "free"}
  BY DEF Stages, Closing
<1>6. rt.op = "reconfig" =>
        /\ Replacing
        /\ rt.pc \notin {"exn", "lsc", "lsc_off", "vectors", "tx", "queues", "up", "free",
                         "features_wait"}
  BY DEF Stages, Replacing, Telling, Taking
<1> QED BY <1>1, <1>2, <1>3, <1>4, <1>5, <1>6

(* Types.  A stack that is returned from is not empty. *)
LEMMA Returning ==
  ASSUME Stages, rt.pc = "disable_wait" \/ rt.pc = "enable_wait"
  PROVE  \E q \in {"enabled", "free", "swap"} : rt.stack = <<q>>
<1>1. Opening \/ Closing \/ Replacing
  BY Which
<1>2. rt.pc \in Telling /\ rt.pc # "free" /\ rt.pc \in {"disable_wait", "enable_wait"}
  BY DEF Telling
<1>3. CASE Opening
  BY <1>2, <1>3 DEF Opening
<1>4. CASE Closing
  BY <1>2, <1>4 DEF Closing
<1>5. CASE Replacing
  BY <1>2, <1>5 DEF Replacing
<1> QED BY <1>1, <1>3, <1>4, <1>5

(* The dialogue changes what it consists of. *)
Dialogue ==
  PostedStarts \/ PostedEnds \/ PreStarts \/ OwnStarts \/ FwActs \/ FwEndsLate

LEMMA DialogueFrame ==
  ASSUME Dialogue
  PROVE  UNCHANGED <<nn, dp, want, held, running, assigned, bar, link, rt, hist>>
BY DEF Dialogue, PostedStarts, PostedEnds, PreStarts, OwnStarts, FwActs, FwEndsLate

LEMMA TypesStep ==
  ASSUME Stages, [Next]_vars
  PROVE  Types'
<1>1. Types
  BY DEF Stages
<1>2. 3 - nn.mem \in {1, 2} /\ nn.mem \in {1, 2} /\ nn.cfg \in Nat
      /\ nn \in [cfg : Configs, mem : {1, 2}, ctrl : SUBSET Bits, up : BOOLEAN]
      /\ dp \in [cfg : Nat, mem : {0, 1, 2}, ctrl : SUBSET Bits]
  BY <1>1, Numbers DEF Types
<1>3. Idle \in RtType /\ NoDp \in [cfg : Nat, mem : {0, 1, 2}, ctrl : SUBSET Bits]
  BY FinishIs DEF Idle, NoDp, RtType, Places, Stacks
<1> USE <1>1
<1>4. ASSUME UNCHANGED <<nn, dp, rt, bar, want>>,
             link' \in [sts : BOOLEAN, up : BOOLEAN, disabled : BOOLEAN,
                        pending : BOOLEAN, pc : {"idle", "read", "unmask"}]
      PROVE  Types'
  BY <1>4 DEF Types
<1>5. ASSUME UNCHANGED <<nn, dp, want, bar, link>>, rt' \in RtType PROVE Types'
  BY <1>5 DEF Types
<1>6. ASSUME UNCHANGED <<nn, want>>,
             dp' \in [cfg : Nat, mem : {0, 1, 2}, ctrl : SUBSET Bits], rt' \in RtType,
             UNCHANGED bar \/ bar' = [bar EXCEPT !.lsc = FALSE],
             UNCHANGED link \/ link' = LscFreed(link)
      PROVE  Types'
  BY ZenonT(60), <1>6 DEF Types, LscFreed
<1>7. ASSUME NEW more, Undo(more), UNCHANGED <<nn, want>> PROVE Types'
  BY <1>7, <1>6, FinishIs DEF Undo
<1>8. ASSUME NEW more, NEW n, GiveUp(more, n), UNCHANGED <<nn, want, bar, link>>
      PROVE Types'
  BY <1>8, <1>6, FinishIs DEF GiveUp
<1>9. ASSUME NEW p \in Places, GoTo(p) PROVE rt' \in RtType
  BY <1>9, GoToIs
<1>a. CASE Dialogue \/ LinkChanges \/ IrqLsc \/ IrqLscReads \/ IrqLscUnmasks
           \/ UNCHANGED vars
  BY ZenonT(60), <1>a, <1>4, DialogueFrame DEF LinkChanges, IrqLsc, IrqLscReads,
     IrqLscUnmasks, Status, sides, vars, Types
<1>b. ASSUME NEW w \in BOOLEAN, nfp_net_set_rx_mode(w) PROVE Types'
  <2>1. WithRxMode(w) \in SUBSET Bits
    BY <1>2 DEF WithRxMode, Bits
  <2>2. bar' \in [ctrl : SUBSET Bits, rings : {0, 1, 2}, lsc : BOOLEAN]
    BY <1>b, <2>1 DEF nfp_net_set_rx_mode, SetCtrl, Types
  <2>3. nn' \in [cfg : Configs, mem : {1, 2}, ctrl : SUBSET Bits, up : BOOLEAN]
    BY <1>b, <2>1 DEF nfp_net_set_rx_mode, Types
  <2> QED BY <1>b, <2>2, <2>3 DEF nfp_net_set_rx_mode, Types
<1>c. CASE Open \/ OpenLscOff
  <2>1. CASE Open
    BY <2>1, <1>3, <1>5 DEF Open, Idle, RtType, Places, Stacks, sides
  <2>2. CASE OpenLscOff
    <3>1. rt' \in RtType
      BY <2>2, <1>9 DEF OpenLscOff, Places
    <3> QED BY <2>2, <3>1 DEF OpenLscOff, sides, Types
  <2> QED BY <1>c, <2>1, <2>2
<1>d. CASE OpenEnabled
  <2>1. CASE rt.err
    BY <1>d, <2>1, <1>7 DEF OpenEnabled
  <2>2. CASE ~rt.err
    <3>1. rt' \in RtType
      BY <1>d, <2>2, <1>9 DEF OpenEnabled, Places
    <3> QED BY <1>d, <2>2, <3>1 DEF OpenEnabled, OpenStack, StatusAtOpen, Status, Types
  <2> QED BY <2>1, <2>2
<1>e. CASE OpenUp
  <2>1. WithRxMode(want) \in SUBSET Bits
    BY <1>2 DEF WithRxMode, Bits
  <2>2. bar' \in [ctrl : SUBSET Bits, rings : {0, 1, 2}, lsc : BOOLEAN]
    BY <1>e, <2>1 DEF OpenUp, SetCtrl, Types
  <2>3. nn' \in [cfg : Configs, mem : {1, 2}, ctrl : SUBSET Bits, up : BOOLEAN]
    BY <1>e, <2>1 DEF OpenUp, Types
  <2> QED BY <1>e, <2>2, <2>3, FinishIs DEF OpenUp, Types
<1>f. CASE Close
  <2>1. rt' \in RtType
    BY <1>f DEF Close, Idle, RtType, Places, Stacks
  <2> QED BY <1>f, <2>1 DEF Close, CloseStack, sides, Types
<1>g. CASE CloseFreeAll
  BY <1>g, FinishIs DEF CloseFreeAll, Undo, LscFreed, Types
<1>h. ASSUME NEW c \in Configs, Reconfigure(c) PROVE Types'
  <2>1. c \in Nat
    BY Numbers
  <2>2. rt' \in RtType
    <3>1. CASE rt' = [Idle EXCEPT !.op = "reconfig", !.pc = "more_vectors", !.r = nn.cfg]
      <4>1. nn.cfg \in Nat
        BY <1>h, Numbers DEF Types
      <4> QED BY <3>1, <4>1 DEF Idle, RtType, Places, Stacks
    <3>2. CASE rt' = rt
      BY <1>h, <3>2 DEF Types
    <3> QED BY <1>h, <3>1, <3>2 DEF Reconfigure
  <2> QED BY <1>h, <1>2, <2>1, <2>2 DEF Reconfigure, Clone, sides, Types
<1>i. CASE ReconfigStop
  <2>1. rt.stack = << >> /\ Call("disable", "swap")
    BY <1>i, Which DEF ReconfigStop, At, Replacing, Telling, Taking
  <2>2. rt' \in RtType
    BY <2>1, CallIs DEF Places, Stacks
  <2> QED BY <1>i, <2>2 DEF ReconfigStop, CloseStack, sides, Types
<1>j. CASE ReconfigEnabled
  <2>1. link' \in [sts : BOOLEAN, up : BOOLEAN, disabled : BOOLEAN,
                   pending : BOOLEAN, pc : {"idle", "read", "unmask"}]
    BY <1>j DEF ReconfigEnabled, OpenStack, StatusAtOpen, Status, Types
  <2>2. rt' \in RtType /\ dp' \in [cfg : Nat, mem : {0, 1, 2}, ctrl : SUBSET Bits]
    <3>1. CASE Restore
      BY ZenonT(60), <1>j, <3>1 DEF ReconfigEnabled, Types, RtType, Places, Stacks
    <3>2. CASE ~Restore
      BY <1>j, <3>2, FinishIs DEF ReconfigEnabled
    <3> QED BY <3>1, <3>2
  <2> QED BY <1>j, <2>1, <2>2 DEF ReconfigEnabled, sides, Types
<1>k. CASE DisableWrite
  <2>1. nn.ctrl \ {"ENABLE"} \in SUBSET Bits
    BY <1>2
  <2>2. rt' \in RtType
    BY <1>k, <2>1 DEF DisableWrite, Types, RtType, Places
  <2>3. bar' \in [ctrl : SUBSET Bits, rings : {0, 1, 2}, lsc : BOOLEAN]
    BY <1>k, <2>1 DEF DisableWrite, RingsDisabled, Types
  <2> QED BY <1>k, <2>2, <2>3 DEF DisableWrite, Types
<1>l. CASE EnableWrite
  <2>1. nn.ctrl \cup {"ENABLE"} \in SUBSET Bits
    BY <1>2 DEF Bits
  <2>2. rt' \in RtType
    BY <1>l, <2>1 DEF EnableWrite, Types, RtType, Places
  <2>3. bar' \in [ctrl : SUBSET Bits, rings : {0, 1, 2}, lsc : BOOLEAN]
    BY <1>l, <1>2, <2>1 DEF EnableWrite, Types
  <2> QED BY <1>l, <2>2, <2>3 DEF EnableWrite, Types
<1>m. CASE SetFeatures
  <2>1. Toggled("RXCSUM") \in SUBSET Bits
    BY <1>2 DEF Toggled, Bits
  <2>2. rt' \in RtType
    BY <1>m, <2>1 DEF SetFeatures, Idle, RtType, Places, Stacks
  <2> QED BY <1>m, <2>1, <2>2 DEF SetFeatures, Types
<1>n. ASSUME NEW ok \in BOOLEAN, OpenExn(ok) PROVE Types'
  BY <1>n, <1>5, <1>6, <1>9, FinishIs DEF OpenExn, sides, Places
<1>o. ASSUME NEW ok \in BOOLEAN, OpenLsc(ok) PROVE Types'
  <2>1. CASE ok
    <3>1. rt' \in RtType
      BY <1>o, <2>1, <1>9 DEF OpenLsc, Places
    <3> QED BY <1>o, <2>1, <3>1 DEF OpenLsc, Types
  <2>2. CASE ~ok
    BY <1>o, <2>2, <1>6, FinishIs DEF OpenLsc
  <2> QED BY <2>1, <2>2
<1>p. ASSUME NEW ok \in BOOLEAN, OpenVector(ok) PROVE Types'
  <2>1. CASE ok
    <3>1. rt' \in RtType
      BY <1>p, <2>1 DEF OpenVector, Types, RtType
    <3> QED BY <1>p, <2>1, <3>1, <1>5 DEF OpenVector
  <2>2. CASE ~ok
    BY <1>p, <2>2, <1>7 DEF OpenVector
  <2> QED BY <2>1, <2>2
<1>q. ASSUME NEW ok \in BOOLEAN, OpenRx(ok) \/ OpenTx(ok) PROVE Types'
  <2>1. CASE ok
    <3>1. rt' \in RtType
      BY <1>q, <2>1, <1>9 DEF OpenRx, OpenTx, Places
    <3> QED BY <1>q, <2>1, <3>1, <1>5 DEF OpenRx, OpenTx
  <2>2. CASE ~ok
    BY <1>q, <2>2, <1>7 DEF OpenRx, OpenTx
  <2> QED BY <2>1, <2>2
<1>r. ASSUME NEW ok \in BOOLEAN, OpenQueues(ok) PROVE Types'
  <2>1. CASE ok
    <3>1. rt.stack = << >>
      BY <1>r, Which DEF OpenQueues, At, Opening, Telling
    <3>2. rt' \in RtType
      BY <1>r, <2>1, <3>1, CallIs DEF OpenQueues, Places, Stacks
    <3> QED BY <1>r, <2>1, <3>2, <1>5 DEF OpenQueues
  <2>2. CASE ~ok
    BY <1>r, <2>2, <1>7 DEF OpenQueues
  <2> QED BY <2>1, <2>2
<1>s. ASSUME NEW ok \in BOOLEAN, ReconfigVector(ok) PROVE Types'
  <2>1. CASE ok
    <3>1. rt' \in RtType
      BY <1>s, <2>1 DEF ReconfigVector, Types, RtType
    <3> QED BY <1>s, <2>1, <3>1, <1>5 DEF ReconfigVector, sides
  <2>2. CASE ~ok
    BY <1>s, <2>2, <1>8 DEF ReconfigVector, sides
  <2> QED BY <2>1, <2>2
<1>t. ASSUME NEW ok \in BOOLEAN, ReconfigRx(ok) \/ ReconfigTx(ok) PROVE Types'
  <2>1. CASE ok
    <3>1. rt' \in RtType
      BY <1>t, <2>1, <1>9 DEF ReconfigRx, ReconfigTx, Places
    <3> QED BY <1>t, <2>1, <3>1, <1>5 DEF ReconfigRx, ReconfigTx, sides
  <2>2. CASE ~ok
    BY <1>t, <2>2, <1>8 DEF ReconfigRx, ReconfigTx, sides
  <2> QED BY <2>1, <2>2
<1>u. ASSUME NEW ok \in BOOLEAN, ReconfigSwap(ok) PROVE Types'
  <2>1. rt.stack = << >> /\ dp.cfg \in Configs /\ dp.mem = 3 - nn.mem
    BY <1>u, Which DEF ReconfigSwap, At, Replacing, Telling, Taking
  <2>2. rt' \in RtType
    <3>1. CASE ok
      BY <1>u, <2>1, <3>1, CallIs DEF ReconfigSwap, Places, Stacks
    <3>2. CASE ~ok
      BY ZenonT(60), <1>u, <3>2 DEF ReconfigSwap, Types, RtType, Places
    <3> QED BY <3>1, <3>2
  <2>3. nn' \in [cfg : Configs, mem : {1, 2}, ctrl : SUBSET Bits, up : BOOLEAN]
        /\ dp' \in [cfg : Nat, mem : {0, 1, 2}, ctrl : SUBSET Bits]
    BY <1>u, <1>2, <2>1 DEF ReconfigSwap, DpSwap
  <2> QED BY <1>u, <2>2, <2>3 DEF ReconfigSwap, sides, Types
<1>v. ASSUME NEW ok \in BOOLEAN, DisableWait(ok) PROVE Types'
  <2>1. PICK q \in {"enabled", "free", "swap"} : rt.stack = <<q>>
    BY <1>v, Returning DEF DisableWait, At
  <2>2. rt.ctrl \in SUBSET Bits /\ rt.err \in BOOLEAN
    BY DEF Types, RtType
  <2>3. rt' \in RtType
    BY <1>v, <2>1, <2>2, ReturnIs DEF DisableWait, Places
  <2> QED BY <1>v, <2>2, <2>3 DEF DisableWait, RingsDisabled, Types
<1>w. ASSUME NEW ok \in BOOLEAN, EnableWait(ok) PROVE Types'
  <2>1. PICK q \in {"enabled", "free", "swap"} : rt.stack = <<q>>
    BY <1>w, Returning DEF EnableWait, At
  <2>2. rt.ctrl \in SUBSET Bits
    BY DEF Types, RtType
  <2>3. rt' \in RtType
    <3>1. CASE ok
      BY <1>w, <2>1, <3>1, ReturnIs DEF EnableWait, Places
    <3>2. CASE ~ok
      BY <1>w, <3>2 DEF EnableWait, Types, RtType, Places
    <3> QED BY <3>1, <3>2
  <2> QED BY ZenonT(60), <1>w, <2>2, <2>3 DEF EnableWait, CtrlEnabled, Types
<1>x. ASSUME NEW ok \in BOOLEAN, SetFeaturesWait(ok) PROVE Types'
  <2>1. rt.ctrl \in SUBSET Bits
    BY DEF Types, RtType
  <2> QED BY <1>x, <2>1, FinishIs DEF SetFeaturesWait, Types
<1> QED
  BY <1>a, <1>b, <1>c, <1>d, <1>e, <1>f, <1>g, <1>h, <1>i, <1>j, <1>k, <1>l,
     <1>m, <1>n, <1>o, <1>p, <1>q, <1>r, <1>s, <1>t, <1>u, <1>v, <1>w, <1>x
  DEF Next, Rtnl, Dialogue

----------------------------------------------------------------------------
(* The stages.  Taking what is not held and releasing what is held is no   *)
(* misuse.                                                                 *)
LEMMA TakesIs ==
  ASSUME NEW t, NEW r, Takes(t, r), ~misused, t \cap held = {}, r \subseteq held \cup t
  PROVE  ~misused' /\ held' = (held \cup t) \ r
BY DEF Takes

LEMMA StagesSame ==
  ASSUME Stages, Types', nn'.cfg = nn.cfg, nn'.mem = nn.mem, nn'.up = nn.up,
         UNCHANGED <<dp, held, running, assigned, rt, misused>>
  PROVE  Stages'
<1>1. Own' = Own
  BY DEF Own
<1>2. Settled' = Settled /\ Opening' = Opening /\ Closing' = Closing /\ Replacing' = Replacing
  BY <1>1 DEF Settled, Opening, Closing, Replacing
<1> QED BY <1>2 DEF Stages

LEMMA StagesEnd ==
  ASSUME Types', rt' = Idle, Settled', ~misused'
  PROVE  Stages'
BY DEF Stages, Idle

(* What is undone is all that is held. *)
LEMMA UndoEnds ==
  ASSUME Stages, Types', NEW more, Undo(more), held = Base \cup more,
         running = {}, UNCHANGED running, ~nn'.up
  PROVE  Stages'
<1>1. Takes({}, Base \cup more)
  BY DEF Undo, Base
<1>2. ~misused' /\ held' = {}
  BY <1>1, TakesIs DEF Stages
<1>3. rt' = Idle
  BY FinishIs DEF Undo
<1> QED BY <1>2, <1>3, StagesEnd DEF Settled

LEMMA OpeningIs ==
  ASSUME Stages, rt.op = "open"
  PROVE  Opening /\ ~misused /\ Types
BY DEF Stages

LEMMA OpeningStep ==
  ASSUME Types', ~misused', Opening', rt'.op = "open"
  PROVE  Stages'
BY DEF Stages

LEMMA ReplacingStep ==
  ASSUME Types', ~misused', Replacing', rt'.op = "reconfig"
  PROVE  Stages'
BY DEF Stages

LEMMA OpenSteps ==
  ASSUME Stages, Types',
         \/ Open \/ OpenLscOff
         \/ \E ok \in BOOLEAN : OpenExn(ok) \/ OpenLsc(ok) \/ OpenVector(ok)
                                \/ OpenRx(ok) \/ OpenTx(ok) \/ OpenQueues(ok)
  PROVE  Stages'
<1>1. Types /\ ~misused
  BY DEF Stages
<1>2. nn.mem \in {1, 2} /\ nn.cfg \in Nat /\ nn.cfg > 0
  BY <1>1, Numbers DEF Types
<1>3. CASE Open
  <2>1. rt.op = "none" /\ ~nn.up /\ Settled /\ UNCHANGED <<nn, held, running, misused>>
    BY <1>3 DEF Open, Stages, hist
  <2>2. rt'.op = "open" /\ rt'.pc = "exn" /\ rt'.stack = << >> /\ rt'.r = 0
    BY <1>3 DEF Open, Idle
  <2>3. held = {} /\ running = {}
    BY <2>1 DEF Settled
  <2>4. Opening'
    BY <2>1, <2>2, <2>3 DEF Opening, Telling
  <2> QED BY <1>1, <2>1, <2>2, <2>4, OpeningStep
<1>4. CASE OpenLscOff
  <2>1. At("lsc_off") /\ GoTo("vectors") /\ UNCHANGED <<nn, held, running, misused>>
    BY <1>4 DEF OpenLscOff, hist
  <2>2. rt.op = "open" /\ Opening
    BY <2>1, Which DEF At
  <2>3. rt'.op = "open" /\ rt'.pc = "vectors" /\ rt'.stack = rt.stack /\ rt'.r = rt.r
    BY <1>1, <2>1, <2>2, GoToIs DEF Places
  <2>4. held = Base /\ rt.r = 0 /\ rt.stack = << >> /\ ~nn.up /\ running = {}
    BY <2>1, <2>2 DEF Opening, At, Telling
  <2>5. Vec(0, 0) = {}
    BY VecNone
  <2>6. Opening'
    BY <1>2, <2>1, <2>3, <2>4, <2>5 DEF Opening, Telling
  <2> QED BY <1>1, <2>1, <2>2, <2>3, <2>6, OpeningStep
<1>5. ASSUME NEW ok \in BOOLEAN, OpenExn(ok) PROVE Stages'
  <2>1. At("exn") /\ UNCHANGED <<nn, running>>
    BY <1>5 DEF OpenExn
  <2>2. rt.op = "open" /\ Opening
    BY <2>1, Which DEF At
  <2>3. held = {} /\ rt.r = 0 /\ rt.stack = << >> /\ ~nn.up /\ running = {}
    BY <2>1, <2>2 DEF Opening, At, Telling
  <2>4. CASE ok
    <3>1. Takes({Exn}, {}) /\ GoTo("lsc")
      BY <1>5, <2>4 DEF OpenExn
    <3>2. ~misused' /\ held' = {Exn}
      BY <1>1, <2>3, <3>1, TakesIs
    <3>3. rt'.op = "open" /\ rt'.pc = "lsc" /\ rt'.stack = rt.stack /\ rt'.r = rt.r
      BY <1>1, <2>2, <3>1, GoToIs DEF Places
    <3>4. Opening'
      BY <2>1, <2>3, <3>2, <3>3 DEF Opening, Telling
    <3> QED BY <3>2, <3>3, <3>4, OpeningStep
  <2>5. CASE ~ok
    <3>1. Finish /\ UNCHANGED <<held, misused>>
      BY <1>5, <2>5 DEF OpenExn
    <3>2. Settled' /\ rt' = Idle
      BY <2>1, <2>3, <3>1, FinishIs DEF Settled
    <3> QED BY <1>1, <3>1, <3>2, StagesEnd
  <2> QED BY <2>4, <2>5
<1>6. ASSUME NEW ok \in BOOLEAN, OpenLsc(ok) PROVE Stages'
  <2>1. At("lsc") /\ UNCHANGED <<nn, running>>
    BY <1>6 DEF OpenLsc
  <2>2. rt.op = "open" /\ Opening
    BY <2>1, Which DEF At
  <2>3. held = {Exn} /\ rt.r = 0 /\ rt.stack = << >> /\ ~nn.up /\ running = {}
    BY <2>1, <2>2 DEF Opening, At, Telling
  <2>4. CASE ok
    <3>1. Takes({Lsc}, {}) /\ GoTo("lsc_off")
      BY <1>6, <2>4 DEF OpenLsc
    <3>2. {Lsc} \cap held = {}
      BY <2>3, Kinds
    <3>3. ~misused' /\ held' = Base
      <4>1. ~misused' /\ held' = (held \cup {Lsc}) \ {}
        BY <1>1, <3>1, <3>2, TakesIs
      <4> QED BY <2>3, <4>1 DEF Base
    <3>4. rt'.op = "open" /\ rt'.pc = "lsc_off" /\ rt'.stack = rt.stack /\ rt'.r = rt.r
      BY <1>1, <2>2, <3>1, GoToIs DEF Places
    <3>5. Opening'
      BY <2>1, <2>3, <3>3, <3>4 DEF Opening, Telling
    <3> QED BY <3>3, <3>4, <3>5, OpeningStep
  <2>5. CASE ~ok
    <3>1. Finish /\ Takes({}, {Exn})
      BY <1>6, <2>5 DEF OpenLsc
    <3>2. ~misused' /\ held' = {}
      BY <1>1, <2>3, <3>1, TakesIs
    <3>3. Settled' /\ rt' = Idle
      BY <2>1, <2>3, <3>1, <3>2, FinishIs DEF Settled
    <3> QED BY <3>2, <3>3, StagesEnd
  <2> QED BY <2>4, <2>5
<1>7. ASSUME NEW ok \in BOOLEAN, OpenVector(ok) PROVE Stages'
  <2>1. At("vectors") /\ rt.r < nn.cfg /\ UNCHANGED <<nn, running>>
    BY <1>7 DEF OpenVector
  <2>2. rt.op = "open" /\ Opening /\ rt.r \in Nat
    BY <1>1, <2>1, Which DEF At, Types, RtType
  <2>3. held = Base \cup Vec(0, rt.r) /\ rt.stack = << >> /\ ~nn.up /\ running = {}
    BY <2>1, <2>2 DEF Opening, At, Telling
  <2>4. CASE ok
    <3>1. Takes({<<"vec", rt.r>>}, {}) /\ rt' = [rt EXCEPT !.r = @ + 1]
      BY <1>7, <2>4 DEF OpenVector
    <3>2. /\ Vec(0, rt.r + 1) = Vec(0, rt.r) \cup {<<"vec", rt.r>>}
          /\ <<"vec", rt.r>> \notin Vec(0, rt.r)
      BY <2>2, VecNext
    <3>3. <<"vec", rt.r>> \notin Base
      BY DEF Base, Exn, Lsc
    <3>4. {<<"vec", rt.r>>} \cap held = {}
      BY <2>3, <3>2, <3>3
    <3>5. ~misused' /\ held' = Base \cup Vec(0, rt.r + 1)
      BY <1>1, <2>3, <3>1, <3>2, <3>4, TakesIs
    <3>6. rt'.op = "open" /\ rt'.pc = "vectors" /\ rt'.stack = rt.stack /\ rt'.r = rt.r + 1
      BY <1>1, <2>1, <2>2, <3>1 DEF Types, RtType, At
    <3>7. Opening'
      BY <1>2, <2>1, <2>2, <2>3, <3>5, <3>6 DEF Opening, Telling
    <3> QED BY <3>5, <3>6, <3>7, OpeningStep
  <2>5. CASE ~ok
    BY <1>7, <2>1, <2>3, <2>5, UndoEnds DEF OpenVector
  <2> QED BY <2>4, <2>5
<1>8. ASSUME NEW ok \in BOOLEAN, OpenRx(ok) PROVE Stages'
  <2>1. At("vectors") /\ rt.r = nn.cfg /\ UNCHANGED <<nn, running>>
    BY <1>8 DEF OpenRx
  <2>2. rt.op = "open" /\ Opening
    BY <2>1, Which DEF At
  <2>3. held = Base \cup Own /\ rt.stack = << >> /\ ~nn.up /\ running = {}
    BY <2>1, <2>2 DEF Opening, At, Telling, Own
  <2>4. CASE ok
    <3>1. Takes({<<"rx", nn.mem>>}, {}) /\ GoTo("tx")
      BY <1>8, <2>4 DEF OpenRx
    <3>2. {<<"rx", nn.mem>>} \cap held = {}
      <4>1. <<"rx", nn.mem>> \notin Base /\ <<"rx", nn.mem>> \notin Own
        BY Kinds DEF Own
      <4> QED BY <2>3, <4>1
    <3>3. ~misused' /\ held' = Base \cup Own \cup {<<"rx", nn.mem>>}
      BY <1>1, <2>3, <3>1, <3>2, TakesIs
    <3>4. rt'.op = "open" /\ rt'.pc = "tx" /\ rt'.stack = rt.stack /\ rt'.r = rt.r
      BY <1>1, <2>2, <3>1, GoToIs DEF Places
    <3>5. Own' = Own
      BY <2>1 DEF Own
    <3>6. Opening'
      BY <2>1, <2>3, <3>3, <3>4, <3>5 DEF Opening, Telling
    <3> QED BY <3>3, <3>4, <3>6, OpeningStep
  <2>5. CASE ~ok
    BY <1>8, <2>1, <2>3, <2>5, UndoEnds DEF OpenRx
  <2> QED BY <2>4, <2>5
<1>9. ASSUME NEW ok \in BOOLEAN, OpenTx(ok) PROVE Stages'
  <2>1. At("tx") /\ UNCHANGED <<nn, running>>
    BY <1>9 DEF OpenTx
  <2>2. rt.op = "open" /\ Opening
    BY <2>1, Which DEF At
  <2>3. held = Base \cup (Own \cup {<<"rx", nn.mem>>}) /\ rt.stack = << >> /\ ~nn.up /\ running = {}
    BY <2>1, <2>2 DEF Opening, At, Telling
  <2>4. CASE ok
    <3>1. Takes({<<"tx", nn.mem>>}, {}) /\ GoTo("queues") /\ assigned' = nn.mem
      BY <1>9, <2>4 DEF OpenTx
    <3>2. {<<"tx", nn.mem>>} \cap held = {}
      <4>1. /\ <<"tx", nn.mem>> \notin Base /\ <<"tx", nn.mem>> \notin Own
            /\ <<"tx", nn.mem>> # <<"rx", nn.mem>>
        BY Kinds DEF Own
      <4> QED BY <2>3, <4>1
    <3>3. ~misused' /\ held' = Base \cup (Own \cup {<<"rx", nn.mem>>}) \cup {<<"tx", nn.mem>>}
      BY <1>1, <2>3, <3>1, <3>2, TakesIs
    <3>4. held' = Full(nn.cfg, nn.mem)
      BY <3>3, Kinds DEF Full, Own
    <3>5. rt'.op = "open" /\ rt'.pc = "queues" /\ rt'.stack = rt.stack /\ rt'.r = rt.r
      BY <1>1, <2>2, <3>1, GoToIs DEF Places
    <3>6. Opening'
      BY <2>1, <2>3, <3>1, <3>4, <3>5 DEF Opening, Telling
    <3> QED BY <3>3, <3>5, <3>6, OpeningStep
  <2>5. CASE ~ok
    BY <1>9, <2>1, <2>3, <2>5, UndoEnds DEF OpenTx
  <2> QED BY <2>4, <2>5
<1>10. ASSUME NEW ok \in BOOLEAN, OpenQueues(ok) PROVE Stages'
  <2>1. At("queues") /\ UNCHANGED <<nn, running, assigned>>
    BY <1>10 DEF OpenQueues
  <2>2. rt.op = "open" /\ Opening
    BY <2>1, Which DEF At
  <2>3. held = Full(nn.cfg, nn.mem) /\ rt.stack = << >> /\ ~nn.up /\ running = {}
        /\ assigned = nn.mem
    BY <2>1, <2>2 DEF Opening, At, Telling
  <2>4. CASE ok
    <3>1. Call("enable", "enabled") /\ UNCHANGED <<held, misused>>
      BY <1>10, <2>4 DEF OpenQueues
    <3>2. rt'.op = "open" /\ rt'.pc = "enable" /\ rt'.stack = <<"enabled">>
      BY <1>1, <2>2, <2>3, <3>1, CallIs DEF Places, Stacks
    <3>3. Opening'
      BY <2>1, <2>3, <3>1, <3>2 DEF Opening, Telling
    <3> QED BY <1>1, <3>1, <3>2, <3>3, OpeningStep
  <2>5. CASE ~ok
    <3>1. held = Base \cup (Own \cup Rings(nn.mem))
      BY <2>3 DEF Full, Own
    <3> QED BY <1>10, <2>1, <2>3, <2>5, <3>1, UndoEnds DEF OpenQueues
  <2> QED BY <2>4, <2>5
<1> QED BY <1>3, <1>4, <1>5, <1>6, <1>7, <1>8, <1>9, <1>10

(* The dialogue with the firmware, within whatever operation. *)
LEMMA DialogueSteps ==
  ASSUME Stages, Types',
         \/ DisableWrite \/ EnableWrite
         \/ \E ok \in BOOLEAN : DisableWait(ok) \/ EnableWait(ok)
  PROVE  Stages'
<1>1. Types /\ ~misused
  BY DEF Stages
<1>2. ASSUME nn'.cfg = nn.cfg, nn'.mem = nn.mem, nn'.up = nn.up,
             UNCHANGED <<dp, held, running, assigned, misused>>,
             rt'.op = rt.op, rt'.stack = rt.stack, rt'.again = rt.again,
             \/ rt.pc = "disable" /\ rt'.pc = "disable_wait" /\ rt'.err = rt.err
             \/ rt.pc = "enable" /\ rt'.pc = "enable_wait" /\ rt'.err = rt.err
             \/ rt.pc = "enable_wait" /\ rt'.pc = "disable" /\ rt'.err
      PROVE  Stages'
  <2>1. Own' = Own
    BY <1>2 DEF Own
  <2>2. CASE rt.op = "open" /\ Opening
    <3>1. Opening'
      BY <1>2, <2>1, <2>2 DEF Opening, Telling
    <3> QED BY <1>1, <1>2, <2>2, <3>1, OpeningStep
  <2>3. CASE rt.op = "close" /\ Closing
    <3>1. Closing'
      BY <1>2, <2>1, <2>3 DEF Closing
    <3> QED BY <1>1, <1>2, <2>3, <3>1 DEF Stages
  <2>4. CASE rt.op = "reconfig" /\ Replacing
    <3>1. Replacing'
      BY <1>2, <2>1, <2>4 DEF Replacing, Telling, Taking
    <3> QED BY <1>1, <1>2, <2>4, <3>1, ReplacingStep
  <2> QED BY <1>2, <2>2, <2>3, <2>4, Which
<1>3. ASSUME NEW q \in {"enabled", "free", "swap"}, rt.stack = <<q>>, rt.pc \in Telling,
             nn'.cfg = nn.cfg, nn'.mem = nn.mem, nn'.up = nn.up,
             UNCHANGED <<dp, held, running, assigned, misused>>,
             rt'.op = rt.op, rt'.stack = << >>, rt'.again = rt.again, rt'.pc = q,
             rt'.err = rt.err \/ (rt.pc = "enable_wait" /\ ~rt'.err)
      PROVE  Stages'
  <2>0. (rt.pc \in {"enable", "enable_wait"} \/ rt.pc \in {"disable", "disable_wait"})
        /\ <<"enabled">> # <<"free">> /\ <<"enabled">> # <<"swap">> /\ <<"free">> # <<"swap">>
    BY <1>3 DEF Telling
  <2>1. Own' = Own
    BY <1>3 DEF Own
  <2>2. CASE rt.op = "open" /\ Opening
    <3>1. q = "enabled" /\ held = Full(nn.cfg, nn.mem) /\ assigned = nn.mem
          /\ ~nn.up /\ running = {}
      BY <1>3, <2>2 DEF Opening, Telling
    <3>2. Opening'
      BY <1>3, <3>1 DEF Opening, Telling
    <3> QED BY <1>1, <1>3, <2>2, <3>2, OpeningStep
  <2>3. CASE rt.op = "close" /\ Closing
    <3>1. q = "free" /\ rt.pc # "enable_wait"
      BY <1>3, <2>3 DEF Closing
    <3>2. Closing'
      BY <1>3, <2>3, <3>1 DEF Closing
    <3> QED BY <1>1, <1>3, <2>3, <3>2 DEF Stages
  <2>4. CASE rt.op = "reconfig" /\ Replacing
    <3>1. q \in {"enabled", "swap"}
      BY <1>3, <2>0, <2>4 DEF Replacing, Telling
    <3>2. /\ nn.up /\ dp.cfg \in Configs /\ dp.mem = 3 - nn.mem /\ assigned = nn.mem
          /\ running = {}
          /\ held = Base \cup Vec(0, nn.cfg) \cup Vec(0, dp.cfg) \cup Rings(1) \cup Rings(2)
      BY <2>0, <2>4 DEF Replacing, Taking
    <3>3. Replacing'
      BY <1>3, <3>1, <3>2 DEF Replacing, Telling, Taking
    <3> QED BY <1>1, <1>3, <2>4, <3>3, ReplacingStep
  <2> QED BY <2>0, <2>2, <2>3, <2>4, Which
<1>4. CASE DisableWrite
  BY <1>4, <1>1, <1>2 DEF DisableWrite, At, Types, RtType, hist
<1>5. CASE EnableWrite
  BY <1>5, <1>1, <1>2 DEF EnableWrite, At, Types, RtType, hist
<1>6. ASSUME NEW ok \in BOOLEAN, DisableWait(ok) PROVE Stages'
  <2>1. PICK q \in {"enabled", "free", "swap"} : rt.stack = <<q>>
    BY <1>6, Returning DEF DisableWait, At
  <2>2. rt.err \in BOOLEAN
    BY <1>1 DEF Types, RtType
  <2>3. rt'.op = rt.op /\ rt'.stack = << >> /\ rt'.again = rt.again /\ rt'.pc = q
        /\ rt'.err = rt.err
    BY <1>1, <1>6, <2>1, <2>2, ReturnIs DEF DisableWait, Places
  <2>4. rt.pc \in Telling
    BY <1>6 DEF DisableWait, At, Telling
  <2>5. nn'.cfg = nn.cfg /\ nn'.mem = nn.mem /\ nn'.up = nn.up
        /\ UNCHANGED <<dp, held, running, assigned, misused>>
    BY <1>1, <1>6 DEF DisableWait, Types
  <2> QED BY <1>3, <2>1, <2>2, <2>3, <2>4, <2>5
<1>7. ASSUME NEW ok \in BOOLEAN, EnableWait(ok) PROVE Stages'
  <2>1. PICK q \in {"enabled", "free", "swap"} : rt.stack = <<q>>
    BY <1>7, Returning DEF EnableWait, At
  <2>2. CASE ok
    <3>1. rt'.op = rt.op /\ rt'.stack = << >> /\ rt'.again = rt.again /\ rt'.pc = q
          /\ rt'.err = FALSE
      <4>1. Return(FALSE)
        BY <1>7, <2>2 DEF EnableWait
      <4>2. q \in Places
        BY DEF Places
      <4> QED BY <1>1, <2>1, <4>1, <4>2, ReturnIs
    <3>2. rt.pc \in Telling /\ rt.pc = "enable_wait"
      BY <1>7 DEF EnableWait, At, Telling
    <3>3. nn'.cfg = nn.cfg /\ nn'.mem = nn.mem /\ nn'.up = nn.up
          /\ UNCHANGED <<dp, held, running, assigned, misused>>
      BY <1>1, <1>7, <2>2 DEF EnableWait, Types
    <3>4. rt'.err = rt.err \/ (rt.pc = "enable_wait" /\ ~rt'.err)
      BY <3>1, <3>2
    <3> QED BY <1>3, <2>1, <3>1, <3>2, <3>3, <3>4
  <2>3. CASE ~ok
    BY <1>1, <1>2, <1>7, <2>3 DEF EnableWait, At, Types, RtType
  <2> QED BY <2>2, <2>3
<1> QED BY <1>4, <1>5, <1>6, <1>7

(* An interface comes up or goes down, or its features change. *)
LEMMA OtherSteps ==
  ASSUME Stages, Types',
         \/ OpenEnabled \/ OpenUp \/ Close \/ CloseFreeAll \/ SetFeatures
         \/ \E ok \in BOOLEAN : SetFeaturesWait(ok)
  PROVE  Stages'
<1>1. Types /\ ~misused
  BY DEF Stages
<1>2. Own \subseteq Full(nn.cfg, nn.mem) /\ Full(nn.cfg, nn.mem) = Base \cup (Own \cup Rings(nn.mem))
  BY DEF Full, Own
<1>3. CASE OpenEnabled
  <2>1. At("enabled") /\ rt.op = "open" /\ UNCHANGED <<nn, assigned>>
    BY <1>3 DEF OpenEnabled
  <2>2. Opening
    BY <2>1 DEF Stages
  <2>3. held = Full(nn.cfg, nn.mem) /\ rt.stack = << >> /\ ~nn.up /\ running = {}
        /\ assigned = nn.mem
    BY <2>1, <2>2 DEF Opening, At, Telling
  <2>4. CASE ~rt.err
    <3>1. GoTo("up") /\ running' = Own /\ UNCHANGED held /\ ~misused'
      BY <1>1, <1>2, <1>3, <2>3, <2>4 DEF OpenEnabled, OpenStack
    <3>2. rt'.op = "open" /\ rt'.pc = "up" /\ rt'.stack = << >> /\ ~rt'.err
      BY <1>1, <2>1, <2>3, <2>4, <3>1, GoToIs DEF Places
    <3>3. Own' = Own
      BY <2>1 DEF Own
    <3>4. Opening'
      BY <2>1, <2>3, <3>1, <3>2, <3>3 DEF Opening, Telling
    <3> QED BY <3>1, <3>2, <3>4, OpeningStep
  <2>5. CASE rt.err
    BY <1>2, <1>3, <2>1, <2>3, <2>5, UndoEnds DEF OpenEnabled
  <2> QED BY <2>4, <2>5
<1>4. CASE OpenUp
  <2>1. At("up") /\ Finish /\ UNCHANGED <<held, running, assigned, misused>>
    BY <1>4 DEF OpenUp
  <2>2. Opening
    BY <2>1, Which DEF At
  <2>3. held = Full(nn.cfg, nn.mem) /\ running = Own /\ assigned = nn.mem
    BY <2>1, <2>2 DEF Opening, At
  <2>4. nn'.cfg = nn.cfg /\ nn'.mem = nn.mem /\ nn'.up
    BY <1>1, <1>4 DEF OpenUp, Types
  <2>5. Settled'
    BY <2>1, <2>3, <2>4 DEF Settled, Own
  <2> QED BY <1>1, <2>1, <2>5, FinishIs, StagesEnd
<1>5. CASE Close
  <2>1. rt.op = "none" /\ nn.up /\ UNCHANGED <<nn, held>> /\ CloseStack
    BY <1>5 DEF Close
  <2>2. held = Full(nn.cfg, nn.mem) /\ running = Own
    BY <2>1 DEF Stages, Settled
  <2>3. running' = {} /\ ~misused'
    BY <1>1, <2>1, <2>2 DEF CloseStack
  <2>4. rt'.op = "close" /\ rt'.pc = "disable" /\ rt'.stack = <<"free">> /\ ~rt'.err
    BY <1>5 DEF Close, Idle
  <2>5. Closing'
    BY <2>1, <2>2, <2>3, <2>4 DEF Closing
  <2> QED BY <2>3, <2>4, <2>5 DEF Stages
<1>6. CASE CloseFreeAll
  <2>1. At("free") /\ Undo(Own \cup Rings(nn.mem)) /\ UNCHANGED running
    BY <1>6 DEF CloseFreeAll
  <2>2. held = Full(nn.cfg, nn.mem) /\ running = {}
    BY <2>1, Which DEF At, Closing
  <2>3. ~nn'.up
    BY <1>1, <1>6 DEF CloseFreeAll, Types
  <2> QED BY <1>2, <2>1, <2>2, <2>3, UndoEnds
<1>7. CASE SetFeatures
  <2>1. rt.op = "none" /\ UNCHANGED <<nn, held, running, assigned, misused>>
    BY <1>7 DEF SetFeatures, hist
  <2>2. rt'.op = "features" /\ rt'.pc = "features_wait" /\ rt'.stack = << >>
    BY <1>7 DEF SetFeatures, Idle
  <2>3. Settled'
    BY <2>1 DEF Stages, Settled, Own
  <2> QED BY <1>1, <2>1, <2>2, <2>3 DEF Stages
<1>8. ASSUME NEW ok \in BOOLEAN, SetFeaturesWait(ok) PROVE Stages'
  <2>1. At("features_wait") /\ Finish /\ UNCHANGED <<held, running, assigned, misused>>
    BY <1>8 DEF SetFeaturesWait
  <2>2. Settled
    BY <2>1, Which DEF At, Stages
  <2>3. nn'.cfg = nn.cfg /\ nn'.mem = nn.mem /\ nn'.up = nn.up
    BY <1>1, <1>8 DEF SetFeaturesWait, Types
  <2>4. Settled'
    BY <2>1, <2>2, <2>3 DEF Settled, Own
  <2> QED BY <1>1, <2>1, <2>4, FinishIs, StagesEnd
<1> QED BY <1>3, <1>4, <1>5, <1>6, <1>7, <1>8

(* The vectors two configurations need together. *)
LEMMA VecBoth ==
  ASSUME NEW a \in Nat, NEW b \in Nat
  PROVE  /\ Vec(0, a) \cup Vec(a, b) = Vec(0, a) \cup Vec(0, b)
         /\ Vec(0, a) \cap Vec(a, b) = {}
<1>1. CASE a <= b
  BY <1>1, VecJoin
<1>2. CASE b < a
  <2>1. Vec(a, b) = {}
    BY <1>2, VecNone
  <2>2. Vec(0, b) \cup Vec(b, a) = Vec(0, a)
    BY <1>2, VecJoin
  <2> QED BY <2>1, <2>2
<1> QED BY <1>1, <1>2

(* The resources of the configuration are not among those of the new one.  *)
LEMMA Apart ==
  ASSUME NEW c \in Nat, NEW m, NEW b \in Nat, NEW n, m # n
  PROVE  Full(c, m) \cap (Vec(c, b) \cup Rings(n)) = {}
         /\ Vec(c, b) \cap Rings(n) = {}
<1>1. Vec(0, c) \cap Vec(c, b) = {}
  BY VecBoth
<1>2. Vec(0, c) \cap Rings(n) = {} /\ Vec(c, b) \cap Rings(n) = {} /\ Base \cap Rings(n) = {}
      /\ Vec(c, b) \cap Rings(m) = {}
  <2>1. \A k, x : x \in Rings(k) => x \notin Base /\ \A i, j : x \notin Vec(i, j)
    <3> SUFFICES ASSUME NEW k, NEW x, x \in Rings(k)
                 PROVE  x \notin Base /\ \A i, j : x \notin Vec(i, j)
      OBVIOUS
    <3>1. x = <<"rx", k>> \/ x = <<"tx", k>>
      BY Kinds
    <3>2. /\ <<"rx", k>> \notin Base /\ <<"tx", k>> \notin Base
          /\ \A i, j : <<"rx", k>> \notin Vec(i, j) /\ <<"tx", k>> \notin Vec(i, j)
      BY Kinds
    <3> QED BY <3>1, <3>2
  <2> QED BY <2>1
<1>3. Base \cap Vec(c, b) = {}
  BY Kinds DEF Base
<1>4. Rings(m) \cap Rings(n) = {}
  BY Kinds
<1> QED BY <1>1, <1>2, <1>3, <1>4 DEF Full

LEMMA GiveUpEnds ==
  ASSUME Stages, Types', NEW more, NEW f \in Nat, GiveUp(more, f), nn.up,
         more \subseteq Rings(3 - nn.mem),
         held = Full(nn.cfg, nn.mem) \cup (Vec(nn.cfg, f) \cup more),
         running = Own, assigned = nn.mem, UNCHANGED <<nn, running, assigned>>
  PROVE  Stages'
<1>1. nn.cfg \in Nat /\ nn.mem # 3 - nn.mem /\ ~misused
  BY Numbers DEF Stages, Types
<1>2. Full(nn.cfg, nn.mem) \cap (Vec(nn.cfg, f) \cup Rings(3 - nn.mem)) = {}
  BY <1>1, Apart
<1>3. Takes({}, Vec(nn.cfg, f) \cup more)
  BY DEF GiveUp
<1>4. ~misused' /\ held' = (held \cup {}) \ (Vec(nn.cfg, f) \cup more)
  BY <1>1, <1>3, TakesIs
<1>5. held' = Full(nn.cfg, nn.mem)
  BY <1>2, <1>4
<1>6. Settled'
  BY <1>5 DEF Settled, Own
<1>7. rt' = Idle
  BY FinishIs DEF GiveUp
<1> QED BY <1>4, <1>6, <1>7, StagesEnd

(* Reconfiguring the rings. *)
LEMMA ChangeSteps ==
  ASSUME Stages, Types',
         \/ \E c \in Configs : Reconfigure(c)
         \/ ReconfigStop \/ ReconfigEnabled
         \/ \E ok \in BOOLEAN : ReconfigVector(ok) \/ ReconfigRx(ok) \/ ReconfigTx(ok)
                                \/ ReconfigSwap(ok)
  PROVE  Stages'
<1>1. Types /\ ~misused
  BY DEF Stages
<1>2. nn.mem \in {1, 2} /\ nn.cfg \in Nat /\ nn.cfg > 0 /\ nn.cfg \in Configs
      /\ 3 - nn.mem # nn.mem /\ 3 - (3 - nn.mem) = nn.mem /\ dp.cfg \in Nat
      /\ Rings(nn.mem) \cup Rings(3 - nn.mem) = Rings(1) \cup Rings(2)
  <2>1. nn.mem \in {1, 2} /\ nn.cfg \in Configs /\ dp.cfg \in Nat
    BY <1>1 DEF Types
  <2>2. nn.cfg \in Nat /\ nn.cfg > 0
    BY <2>1, Numbers
  <2>3. \/ nn.mem = 1 /\ 3 - nn.mem = 2
        \/ nn.mem = 2 /\ 3 - nn.mem = 1
    <3>1. CASE nn.mem = 1
      BY <3>1
    <3>2. CASE nn.mem = 2
      BY <3>2
    <3> QED BY <2>1, <3>1, <3>2
  <2> QED BY <2>1, <2>2, <2>3
<1>3. ASSUME NEW c \in Configs, Reconfigure(c) PROVE Stages'
  <2>1. rt.op = "none" /\ UNCHANGED <<held, running, assigned, misused>>
    BY <1>3 DEF Reconfigure
  <2>2. rt = Idle /\ Settled
    BY <2>1 DEF Stages
  <2>3. CASE nn.up
    <3>1. dp' = Clone(c) /\ UNCHANGED nn /\ rt'.op = "reconfig" /\ rt'.pc = "more_vectors"
          /\ rt'.stack = << >> /\ rt'.r = nn.cfg
      BY <1>3, <2>3 DEF Reconfigure, Idle
    <3>2. dp'.cfg = c /\ dp'.mem = 3 - nn.mem
      BY <3>1 DEF Clone
    <3>3. Vec(nn.cfg, nn.cfg) = {}
      BY <1>2, VecNone
    <3>4. held = Full(nn.cfg, nn.mem) \cup Vec(nn.cfg, nn.cfg) /\ running = Own
          /\ assigned = nn.mem
      BY <2>2, <2>3, <3>3 DEF Settled
    <3>5. Own' = Own
      BY <3>1 DEF Own
    <3>6. Replacing'
      BY <1>2, <2>1, <2>3, <3>1, <3>2, <3>4, <3>5 DEF Replacing, Telling, Taking
    <3> QED BY <1>1, <2>1, <3>1, <3>6, ReplacingStep
  <2>4. CASE ~nn.up
    <3>1. ~nn'.up /\ UNCHANGED rt
      BY <1>1, <1>3, <2>4 DEF Reconfigure, Types
    <3>2. Settled'
      BY <2>1, <2>2, <2>4, <3>1 DEF Settled
    <3> QED BY <1>1, <2>1, <2>2, <3>1, <3>2, StagesEnd
  <2> QED BY <2>3, <2>4
<1>4. ASSUME NEW ok \in BOOLEAN, ReconfigVector(ok) PROVE Stages'
  <2>1. At("more_vectors") /\ rt.r < dp.cfg /\ UNCHANGED <<nn, running, assigned>>
    BY <1>4 DEF ReconfigVector
  <2>2. rt.op = "reconfig" /\ Replacing /\ rt.r \in Nat
    BY <1>1, <2>1, Which DEF At, Types, RtType
  <2>3. /\ held = Full(nn.cfg, nn.mem) \cup Vec(nn.cfg, rt.r) /\ nn.up /\ nn.cfg <= rt.r
        /\ rt.stack = << >> /\ running = Own /\ assigned = nn.mem
        /\ dp.cfg \in Configs /\ dp.mem = 3 - nn.mem
    BY <2>1, <2>2 DEF Replacing, At, Taking, Telling
  <2>4. CASE ok
    <3>1. Takes({<<"vec", rt.r>>}, {}) /\ rt' = [rt EXCEPT !.r = @ + 1] /\ UNCHANGED dp
      BY <1>4, <2>4 DEF ReconfigVector
    <3>2. /\ Vec(nn.cfg, rt.r + 1) = Vec(nn.cfg, rt.r) \cup {<<"vec", rt.r>>}
          /\ <<"vec", rt.r>> \notin Vec(nn.cfg, rt.r)
      BY <1>2, <2>2, <2>3, VecNext
    <3>3. <<"vec", rt.r>> \notin Base /\ <<"vec", rt.r>> \notin Rings(nn.mem)
      BY DEF Base, Exn, Lsc, Rings
    <3>4. <<"vec", rt.r>> \notin Vec(0, nn.cfg)
      BY <1>2, <2>2, <2>3, VecIn
    <3>5. {<<"vec", rt.r>>} \cap held = {}
      BY <2>3, <3>2, <3>3, <3>4 DEF Full
    <3>6. ~misused' /\ held' = (held \cup {<<"vec", rt.r>>}) \ {}
      BY <1>1, <3>1, <3>5, TakesIs
    <3>7. held' = Full(nn.cfg, nn.mem) \cup Vec(nn.cfg, rt.r + 1)
      BY <2>3, <3>2, <3>6
    <3>8. rt'.op = "reconfig" /\ rt'.pc = "more_vectors" /\ rt'.stack = rt.stack
          /\ rt'.r = rt.r + 1
      BY <1>1, <2>1, <2>2, <3>1 DEF Types, RtType, At
    <3>9. nn.cfg <= rt.r + 1 /\ rt.r + 1 <= dp.cfg
      BY <1>2, <2>1, <2>2, <2>3
    <3>10. Own' = Own
      BY <2>1 DEF Own
    <3>11. Replacing'
      BY <2>1, <2>3, <3>1, <3>7, <3>8, <3>9, <3>10 DEF Replacing, Telling, Taking
    <3> QED BY <3>6, <3>8, <3>11, ReplacingStep
  <2>5. CASE ~ok
    <3>1. GiveUp({}, rt.r)
      BY <1>4, <2>5 DEF ReconfigVector
    <3>2. held = Full(nn.cfg, nn.mem) \cup (Vec(nn.cfg, rt.r) \cup {})
      BY <2>3
    <3> QED BY <2>1, <2>2, <2>3, <3>1, <3>2, GiveUpEnds
  <2> QED BY <2>4, <2>5
<1>5. ASSUME NEW ok \in BOOLEAN, ReconfigRx(ok) PROVE Stages'
  <2>1. At("more_vectors") /\ rt.r >= dp.cfg /\ UNCHANGED <<nn, running, assigned>>
    BY <1>5 DEF ReconfigRx
  <2>2. rt.op = "reconfig" /\ Replacing /\ rt.r \in Nat
    BY <1>1, <2>1, Which DEF At, Types, RtType
  <2>3. /\ held = Full(nn.cfg, nn.mem) \cup Vec(nn.cfg, rt.r) /\ nn.up
        /\ rt.stack = << >> /\ running = Own /\ assigned = nn.mem
        /\ dp.cfg \in Configs /\ dp.mem = 3 - nn.mem
        /\ rt.r <= dp.cfg \/ rt.r = nn.cfg
    BY <2>1, <2>2 DEF Replacing, At, Taking, Telling
  <2>4. Vec(nn.cfg, rt.r) = Vec(nn.cfg, dp.cfg)
    <3>1. CASE rt.r <= dp.cfg
      <4>1. rt.r = dp.cfg
        BY <1>2, <2>1, <2>2, <3>1
      <4> QED BY <4>1
    <3>2. CASE rt.r = nn.cfg
      <4>1. Vec(nn.cfg, rt.r) = {}
        BY <1>2, <3>2, VecNone
      <4>2. Vec(nn.cfg, dp.cfg) = {}
        BY <1>2, <2>1, <3>2, VecNone
      <4> QED BY <4>1, <4>2
    <3> QED BY <2>3, <3>1, <3>2
  <2>5. CASE ok
    <3>1. Takes({<<"rx", dp.mem>>}, {}) /\ GoTo("more_tx") /\ UNCHANGED dp
      BY <1>5, <2>5 DEF ReconfigRx
    <3>2. <<"rx", dp.mem>> \notin Full(nn.cfg, nn.mem) \cup Vec(nn.cfg, dp.cfg)
      <4>1. Full(nn.cfg, nn.mem) \cap (Vec(nn.cfg, dp.cfg) \cup Rings(dp.mem)) = {}
            /\ Vec(nn.cfg, dp.cfg) \cap Rings(dp.mem) = {}
        <5>1. nn.mem # dp.mem
          BY <1>2, <2>3
        <5> QED BY ZenonT(60), <1>2, <5>1, Apart
      <4> QED BY <4>1 DEF Rings
    <3>3. {<<"rx", dp.mem>>} \cap held = {}
      BY <2>3, <2>4, <3>2
    <3>4. ~misused' /\ held' = (held \cup {<<"rx", dp.mem>>}) \ {}
      BY <1>1, <3>1, <3>3, TakesIs
    <3>5. held' = Full(nn.cfg, nn.mem) \cup Vec(nn.cfg, dp.cfg) \cup {<<"rx", dp.mem>>}
      BY <2>3, <2>4, <3>4
    <3>6. rt'.op = "reconfig" /\ rt'.pc = "more_tx" /\ rt'.stack = << >>
      BY <1>1, <2>2, <2>3, <3>1, GoToIs DEF Places
    <3>7. Own' = Own
      BY <2>1 DEF Own
    <3>8. Replacing'
      BY <2>1, <2>3, <3>1, <3>5, <3>6, <3>7 DEF Replacing, Telling, Taking
    <3> QED BY <3>4, <3>6, <3>8, ReplacingStep
  <2>6. CASE ~ok
    <3>1. GiveUp({}, dp.cfg)
      BY <1>5, <2>6 DEF ReconfigRx
    <3>2. held = Full(nn.cfg, nn.mem) \cup (Vec(nn.cfg, dp.cfg) \cup {})
      BY <2>3, <2>4
    <3> QED BY <1>2, <2>1, <2>3, <3>1, <3>2, GiveUpEnds
  <2> QED BY <2>5, <2>6
<1>6. ASSUME NEW ok \in BOOLEAN, ReconfigTx(ok) PROVE Stages'
  <2>1. At("more_tx") /\ UNCHANGED <<nn, running, assigned>>
    BY <1>6 DEF ReconfigTx
  <2>2. rt.op = "reconfig" /\ Replacing
    BY <2>1, Which DEF At
  <2>3. /\ held = Full(nn.cfg, nn.mem) \cup Vec(nn.cfg, dp.cfg) \cup {<<"rx", dp.mem>>}
        /\ nn.up /\ rt.stack = << >> /\ running = Own /\ assigned = nn.mem
        /\ dp.cfg \in Configs /\ dp.mem = 3 - nn.mem
    BY <2>1, <2>2 DEF Replacing, At, Taking, Telling
  <2>4. CASE ok
    <3>1. Takes({<<"tx", dp.mem>>}, {}) /\ GoTo("stop") /\ UNCHANGED dp
      BY <1>6, <2>4 DEF ReconfigTx
    <3>2. <<"tx", dp.mem>> \notin Full(nn.cfg, nn.mem) \cup Vec(nn.cfg, dp.cfg)
      <4>1. Full(nn.cfg, nn.mem) \cap (Vec(nn.cfg, dp.cfg) \cup Rings(dp.mem)) = {}
            /\ Vec(nn.cfg, dp.cfg) \cap Rings(dp.mem) = {}
        <5>1. nn.mem # dp.mem
          BY <1>2, <2>3
        <5> QED BY ZenonT(60), <1>2, <5>1, Apart
      <4> QED BY <4>1 DEF Rings
    <3>3. {<<"tx", dp.mem>>} \cap held = {}
      <4>1. <<"tx", dp.mem>> # <<"rx", dp.mem>>
        BY Kinds
      <4> QED BY <2>3, <3>2, <4>1
    <3>4. ~misused' /\ held' = (held \cup {<<"tx", dp.mem>>}) \ {}
      BY <1>1, <3>1, <3>3, TakesIs
    <3>5. held' = Base \cup Vec(0, nn.cfg) \cup Vec(0, dp.cfg) \cup Rings(1) \cup Rings(2)
      <4>1. Rings(dp.mem) = {<<"rx", dp.mem>>} \cup {<<"tx", dp.mem>>}
        BY Kinds
      <4>2. Vec(0, nn.cfg) \cup Vec(nn.cfg, dp.cfg) = Vec(0, nn.cfg) \cup Vec(0, dp.cfg)
        BY <1>2, VecBoth
      <4>3. Rings(nn.mem) \cup Rings(dp.mem) = Rings(1) \cup Rings(2)
        BY <1>2, <2>3
      <4> QED BY <2>3, <3>4, <4>1, <4>2, <4>3 DEF Full
    <3>6. rt'.op = "reconfig" /\ rt'.pc = "stop" /\ rt'.stack = << >>
      BY <1>1, <2>2, <2>3, <3>1, GoToIs DEF Places
    <3>7. Own' = Own
      BY <2>1 DEF Own
    <3>8. Replacing'
      BY <2>1, <2>3, <3>1, <3>5, <3>6, <3>7 DEF Replacing, Telling, Taking
    <3> QED BY <3>4, <3>6, <3>8, ReplacingStep
  <2>5. CASE ~ok
    <3>1. GiveUp({<<"rx", dp.mem>>}, dp.cfg)
      BY <1>6, <2>5 DEF ReconfigTx
    <3>2. held = Full(nn.cfg, nn.mem) \cup (Vec(nn.cfg, dp.cfg) \cup {<<"rx", dp.mem>>})
      BY <2>3
    <3>3. {<<"rx", dp.mem>>} \subseteq Rings(3 - nn.mem)
      BY <2>3 DEF Rings
    <3> QED BY <1>2, <2>1, <2>3, <3>1, <3>2, <3>3, GiveUpEnds
  <2> QED BY <2>4, <2>5
<1>7. CASE ReconfigStop
  <2>1. At("stop") /\ CloseStack /\ Call("disable", "swap")
        /\ UNCHANGED <<nn, dp, held, assigned>>
    BY <1>7 DEF ReconfigStop
  <2>2. rt.op = "reconfig" /\ Replacing
    BY <2>1, Which DEF At
  <2>3. /\ held = Base \cup Vec(0, nn.cfg) \cup Vec(0, dp.cfg) \cup Rings(1) \cup Rings(2)
        /\ nn.up /\ rt.stack = << >> /\ running = Own /\ assigned = nn.mem
        /\ dp.cfg \in Configs /\ dp.mem = 3 - nn.mem
    BY <2>1, <2>2 DEF Replacing, At, Taking, Telling
  <2>4. running' = {} /\ ~misused'
    BY <1>1, <2>1, <2>3 DEF CloseStack
  <2>5. rt'.op = "reconfig" /\ rt'.pc = "disable" /\ rt'.stack = <<"swap">>
    BY <1>1, <2>1, <2>2, <2>3, CallIs DEF Places, Stacks
  <2>6. <<"swap">> # <<"enabled">>
    OBVIOUS
  <2>7. Replacing'
    BY <2>1, <2>3, <2>4, <2>5, <2>6 DEF Replacing, Telling, Taking
  <2> QED BY <2>4, <2>5, <2>7, ReplacingStep
<1>8. ASSUME NEW ok \in BOOLEAN, ReconfigSwap(ok) PROVE Stages'
  <2>1. At("swap") /\ DpSwap /\ assigned' = dp.mem /\ UNCHANGED <<held, running, misused>>
    BY <1>8 DEF ReconfigSwap, hist
  <2>2. rt.op = "reconfig" /\ Replacing
    BY <2>1, Which DEF At
  <2>3. /\ held = Base \cup Vec(0, nn.cfg) \cup Vec(0, dp.cfg) \cup Rings(1) \cup Rings(2)
        /\ nn.up /\ rt.stack = << >> /\ running = {}
        /\ dp.cfg \in Configs /\ dp.mem = 3 - nn.mem
    BY <2>1, <2>2 DEF Replacing, At, Taking, Telling
  <2>4. nn'.cfg = dp.cfg /\ nn'.mem = dp.mem /\ nn'.up /\ dp'.cfg = nn.cfg /\ dp'.mem = nn.mem
    BY <2>1, <2>3 DEF DpSwap
  <2>5. held' = Base \cup Vec(0, nn'.cfg) \cup Vec(0, dp'.cfg) \cup Rings(1) \cup Rings(2)
        /\ dp'.mem = 3 - nn'.mem /\ assigned' = nn'.mem /\ dp'.cfg \in Configs
    BY <1>2, <2>1, <2>3, <2>4
  <2>6. \/ rt'.op = "reconfig" /\ rt'.pc = "enable" /\ rt'.stack = <<"enabled">>
        \/ rt'.op = "reconfig" /\ rt'.pc = "enabled" /\ rt'.stack = << >>
    <3>1. CASE ok
      <4>1. Call("enable", "enabled")
        BY <1>8, <3>1 DEF ReconfigSwap
      <4> QED BY <1>1, <2>2, <2>3, <4>1, CallIs DEF Places, Stacks
    <3>2. CASE ~ok
      BY ZenonT(60), <1>1, <1>8, <2>2, <2>3, <3>2 DEF ReconfigSwap, Types, RtType
    <3> QED BY <3>1, <3>2
  <2>7. Replacing'
    BY <2>1, <2>3, <2>4, <2>5, <2>6 DEF Replacing, Telling, Taking
  <2> QED BY <1>1, <2>1, <2>6, <2>7, ReplacingStep
<1>9. CASE ReconfigEnabled
  <2>1. At("enabled") /\ rt.op = "reconfig" /\ UNCHANGED <<nn, assigned>>
    BY <1>9 DEF ReconfigEnabled
  <2>2. Replacing
    BY <2>1 DEF Stages
  <2>3. /\ held = Base \cup Vec(0, nn.cfg) \cup Vec(0, dp.cfg) \cup Rings(1) \cup Rings(2)
        /\ nn.up /\ rt.stack = << >> /\ running = {} /\ assigned = nn.mem
        /\ dp.cfg \in Configs /\ dp.mem = 3 - nn.mem
    BY <2>1, <2>2 DEF Replacing, At, Taking, Telling
  <2>4. CASE Restore
    <3>1. rt' = [rt EXCEPT !.pc = "disable", !.stack = <<"swap">>, !.again = TRUE, !.err = FALSE]
          /\ UNCHANGED <<dp, held, misused, running>>
      BY <1>9, <2>4 DEF ReconfigEnabled
    <3>2. rt'.op = "reconfig" /\ rt'.pc = "disable" /\ rt'.stack = <<"swap">>
      BY <1>1, <2>1, <3>1 DEF Types, RtType
    <3>3. <<"swap">> # <<"enabled">>
      OBVIOUS
    <3>4. Replacing'
      BY <2>1, <2>3, <3>1, <3>2, <3>3 DEF Replacing, Telling, Taking
    <3> QED BY <1>1, <3>1, <3>2, <3>4, ReplacingStep
  <2>5. CASE ~Restore
    <3> DEFINE gone == Vec(nn.cfg, dp.cfg) \cup Rings(dp.mem)
    <3>1. /\ held' = held \ gone
          /\ misused' = (misused \/ ~(gone \subseteq held)
                                 \/ Own \cap running # {} \/ ~(Own \subseteq held))
          /\ running' = running \cup Own /\ Finish
      BY <1>9, <2>5 DEF ReconfigEnabled, Extra, OpenStack
    <3>2. held = Full(nn.cfg, nn.mem) \cup gone
      <4>1. Vec(0, nn.cfg) \cup Vec(nn.cfg, dp.cfg) = Vec(0, nn.cfg) \cup Vec(0, dp.cfg)
        BY <1>2, VecBoth
      <4>2. Rings(nn.mem) \cup Rings(dp.mem) = Rings(1) \cup Rings(2)
        BY <1>2, <2>3
      <4> QED BY <2>3, <4>1, <4>2 DEF Full
    <3>3. Full(nn.cfg, nn.mem) \cap gone = {}
      BY <1>2, <2>3, Apart
    <3>4. Own \subseteq Full(nn.cfg, nn.mem)
      BY DEF Full, Own
    <3> HIDE DEF gone
    <3>5. ~misused' /\ held' = Full(nn.cfg, nn.mem) /\ running' = Own
      BY <1>1, <2>3, <3>1, <3>2, <3>3, <3>4
    <3>6. Settled'
      BY <2>1, <2>3, <3>5 DEF Settled, Own
    <3> QED BY <3>1, <3>5, <3>6, FinishIs, StagesEnd
  <2> QED BY <2>4, <2>5
<1> QED BY <1>3, <1>4, <1>5, <1>6, <1>7, <1>8, <1>9

(* Every step leads from a stage to a stage. *)
LEMMA StagesStep ==
  ASSUME Stages, [Next]_vars
  PROVE  Stages'
<1>1. Types' /\ Types
  BY TypesStep DEF Stages
<1>2. CASE Dialogue \/ LinkChanges \/ IrqLsc \/ IrqLscReads \/ IrqLscUnmasks
           \/ UNCHANGED vars
  BY <1>1, <1>2, StagesSame, DialogueFrame DEF LinkChanges, IrqLsc, IrqLscReads,
     IrqLscUnmasks, hist, vars
<1>3. ASSUME NEW w \in BOOLEAN, nfp_net_set_rx_mode(w) PROVE Stages'
  <2>1. nn'.cfg = nn.cfg /\ nn'.mem = nn.mem /\ nn'.up = nn.up
        /\ UNCHANGED <<dp, held, running, assigned, rt, misused>>
    BY <1>1, <1>3 DEF nfp_net_set_rx_mode, Types
  <2> QED BY <1>1, <2>1, StagesSame
<1> QED
  BY <1>1, <1>2, <1>3, OpenSteps, DialogueSteps, OtherSteps, ChangeSteps
  DEF Next, Rtnl, Dialogue

LEMMA StagesInit ==
  Init => Stages
<1> SUFFICES ASSUME Init PROVE Stages
  OBVIOUS
<1>1. PICK c \in Configs : nn = [cfg |-> c, mem |-> 1, ctrl |-> {}, up |-> FALSE]
  BY DEF Init
<1>2. Types
  BY <1>1 DEF Init, Types, NoDp, Idle, RtType, Places, Stacks
<1>3. Settled
  BY <1>1 DEF Init, Settled
<1> QED BY <1>2, <1>3 DEF Init, Stages, Idle

(* Whatever stage of opening, closing or reconfiguring fails, nothing is   *)
(* leaked, taken twice, or released that is not held, for any numbers of   *)
(* vectors.                                                                *)
THEOREM NothingLeaks ==
  Spec => []HeldExact
<1>1. Stages => HeldExact
  BY DEF Stages, Settled, HeldExact, Between, Full, Base, Own
<1>2. Stages /\ [Next]_vars => Stages'
  BY StagesStep
<1> QED BY <1>1, <1>2, StagesInit, PTL DEF Spec

----------------------------------------------------------------------------
(* What the device may use. *)
LEMMA AnsweredIs ==
  ASSUME NEW ok \in BOOLEAN, Answered(ok)
  PROVE  /\ uses' \in reads \cup {uses} /\ reads' \subseteq reads
         /\ ok /\ ~over => uses' \in reads /\ reads' = {}
BY DEF Answered

LEMMA OwnEndsIs ==
  ASSUME NEW ok \in BOOLEAN, OwnEnds(ok)
  PROVE  /\ own /\ ~own'
         /\ uses' \in reads \cup {uses} /\ reads' \subseteq reads
         /\ ok /\ ~over => uses' \in reads /\ reads' = {}
BY AnsweredIs DEF OwnEnds

LEMMA ApplyIs ==
  \A b : Apply(b) \in {0, b.rings} /\ ("ENABLE" \in b.ctrl => Apply(b) = b.rings)
BY DEF Apply

(* What a write to the BAR adds to what may be read. *)
LEMMA SeenIs ==
  \A b : Seen(b) \subseteq reads \cup {Apply(b)}
BY DEF Seen

LEMMA EnterIs ==
  ASSUME NEW b, nfp_net_reconfig_sync_enter(b)
  PROVE  UNCHANGED <<uses, under, own, over>> /\ reads' \subseteq reads \cup {Apply(b)}
BY SeenIs DEF nfp_net_reconfig_sync_enter

(* An update that is started over no other one, and not yet waited for,    *)
(* reads what the BAR holds.                                               *)
LEMMA DialogueIs ==
  ASSUME Use, Dialogue
  PROVE  /\ uses' \in reads \cup {uses}
         /\ reads' \subseteq reads \cup {Apply(bar)}
         /\ own' => Waiting /\ ~pre' /\ ~under'
         /\ own' /\ ~over' => (own /\ ~over /\ reads' = reads) \/ reads' = {Apply(bar)}
<1>1. own => Waiting /\ ~pre /\ ~under
  BY DEF Use
<1>2. CASE PostedStarts
  BY <1>1, <1>2 DEF PostedStarts, nfp_net_reconfig_start
<1>3. CASE PostedEnds
  BY <1>1, <1>3, AnsweredIs DEF PostedEnds
<1>4. CASE PreStarts
  BY <1>1, <1>4 DEF PreStarts, nfp_net_reconfig_start
<1>5. CASE OwnStarts
  BY <1>1, <1>5 DEF OwnStarts, nfp_net_reconfig_start
<1>6. CASE FwActs
  BY <1>1, <1>6 DEF FwActs
<1>7. CASE FwEndsLate
  BY <1>1, <1>7 DEF FwEndsLate
<1> QED BY <1>2, <1>3, <1>4, <1>5, <1>6, <1>7 DEF Dialogue

(* The step leaves the dialogue alone but for what may be read of a write  *)
(* to the BAR.                                                             *)
Silent ==
  /\ UNCHANGED <<uses, pre, under, own, over>>
  /\ reads' \subseteq reads \cup {Apply(bar')}

LEMMA SilentIs ==
  UNCHANGED dialogue => Silent
BY DEF dialogue, Silent

(* Where such a step ends the device was told of the rings, or was not     *)
(* told of them where it starts.                                           *)
LEMMA UseSame ==
  ASSUME Use, Silent, UNCHANGED unconfirmed, bar'.rings = bar.rings, nn'.mem = nn.mem,
         ~Waiting \/ UNCHANGED rt,
         ~Told' => ~Told /\ rt.pc # "disable_wait"
  PROVE  Use'
<1>1. reads' \subseteq reads \cup {0, bar.rings}
  BY ApplyIs DEF Silent
<1>2. ~Told => bar.rings = 0
  BY DEF Use
<1>3. own => Waiting'
  BY DEF Use, Waiting
<1> QED BY <1>1, <1>2, <1>3 DEF Use, Silent

LEMMA UseStep ==
  ASSUME Stages, Stages', Use, [Next]_vars
  PROVE  Use'
<1>1. Types /\ Types'
  BY DEF Stages
<1>2. nn.mem \in {1, 2}
  BY <1>1 DEF Types
<1>3. (rt.op = "none" => rt.pc = "idle") /\ (rt'.op = "none" => rt'.pc = "idle")
  BY DEF Stages, Idle
<1>4. ASSUME UNCHANGED <<dialogue, unconfirmed>>, bar'.rings = bar.rings,
             nn'.mem = nn.mem, rt.pc \notin {"disable_wait", "enable_wait", "features_wait"},
             ~Told' => ~Told
      PROVE  Use'
  BY <1>4, UseSame, SilentIs DEF Waiting
<1>5. CASE Dialogue
  <2>1. UNCHANGED <<nn, bar, rt, unconfirmed>>
    BY <1>5, DialogueFrame DEF hist
  <2>2. Told' = Told /\ Waiting' = Waiting
    BY <2>1 DEF Told, Waiting
  <2>3. /\ uses' \in reads \cup {uses}
        /\ reads' \subseteq reads \cup {Apply(bar)}
        /\ own' => Waiting /\ ~pre' /\ ~under'
        /\ own' /\ ~over' => (own /\ ~over /\ reads' = reads) \/ reads' = {Apply(bar)}
    BY <1>5, DialogueIs
  <2>4. Apply(bar) \in {0, bar.rings}
    BY ApplyIs
  <2>5. own' /\ ~over' => reads' \subseteq {0, bar.rings}
    BY <2>3, <2>4 DEF Use
  <2>6. ~unconfirmed => uses' \in {0, nn.mem} /\ reads' \subseteq {0, nn.mem}
    BY <2>3, <2>4 DEF Use
  <2>7. ~Told /\ rt.pc # "disable_wait" /\ ~unconfirmed
          => uses' = 0 /\ reads' \subseteq {0}
    BY <2>3, <2>4 DEF Use
  <2> QED BY <2>1, <2>2, <2>3, <2>5, <2>6, <2>7 DEF Use
<1>6. CASE LinkChanges \/ IrqLsc \/ IrqLscReads \/ IrqLscUnmasks \/ UNCHANGED vars
  <2>1. UNCHANGED <<dialogue, unconfirmed, bar, nn, rt>>
    BY <1>6 DEF LinkChanges, IrqLsc, IrqLscReads, IrqLscUnmasks, sides, hist, vars
  <2> QED BY <2>1 DEF Use, Told, Waiting, dialogue
<1>7. ASSUME NEW w \in BOOLEAN, nfp_net_set_rx_mode(w) PROVE Use'
  <2>1. UNCHANGED <<unconfirmed, rt>> /\ bar'.rings = bar.rings /\ nn'.mem = nn.mem
        /\ nn'.up = nn.up
    BY <1>1, <1>7 DEF nfp_net_set_rx_mode, SetCtrl, Types
  <2>2. Silent
    BY <1>7, SeenIs DEF nfp_net_set_rx_mode, SetCtrl, Silent
  <2>3. Told' = Told
    BY <2>1 DEF Told
  <2>4. bar'.rings = bar.rings /\ reads' \subseteq reads \cup {0, bar.rings}
    BY <2>1, <2>2, ApplyIs DEF Silent
  <2> QED BY <2>1, <2>2, <2>3, <2>4 DEF Use, Silent, Waiting
<1>8. CASE \/ Open \/ OpenLscOff
           \/ \E ok \in BOOLEAN : OpenExn(ok) \/ OpenLsc(ok) \/ OpenVector(ok)
                                  \/ OpenRx(ok) \/ OpenTx(ok) \/ OpenQueues(ok)
  <2>1. UNCHANGED <<dialogue, unconfirmed, nn>> /\ bar'.rings = bar.rings
    BY <1>1, <1>8 DEF Open, OpenLscOff, OpenExn, OpenLsc, OpenVector, OpenRx, OpenTx,
       OpenQueues, Undo, sides, hist, Types
  <2>2. ~nn.up /\ rt.pc \in {"idle", "exn", "lsc", "lsc_off", "vectors", "tx", "queues"}
    <3>1. CASE Open
      BY <1>3, <3>1 DEF Open
    <3>2. CASE ~Open
      <4>1. rt.pc \in {"exn", "lsc", "lsc_off", "vectors", "tx", "queues"}
        BY <1>8, <3>2 DEF OpenLscOff, OpenExn, OpenLsc, OpenVector, OpenRx, OpenTx,
           OpenQueues, At
      <4> QED BY <4>1, Which DEF Opening
    <3> QED BY <3>1, <3>2
  <2>3. ~Told
    BY <2>2 DEF Told, Taking
  <2> QED BY <2>1, <2>2, <2>3, <1>4
<1>9. CASE OpenEnabled
  <2>1. UNCHANGED <<dialogue, unconfirmed, nn>> /\ bar'.rings = bar.rings /\ At("enabled")
        /\ rt.op = "open"
    BY <1>1, <1>9 DEF OpenEnabled, Undo, Types
  <2>2. ~nn.up
    BY <2>1 DEF Stages, Opening
  <2>3. ~rt.err => Told'
    BY <1>1, <1>9 DEF OpenEnabled, GoTo, Told, Types, RtType
  <2>4. rt.err => ~Told
    BY <2>1, <2>2 DEF Told, Taking, At
  <2> QED BY <1>4, <2>1, <2>3, <2>4 DEF At
<1>10. CASE OpenUp
  <2>1. UNCHANGED unconfirmed /\ bar'.rings = bar.rings /\ nn'.mem = nn.mem
        /\ nn'.up /\ rt' = Idle /\ rt.pc = "up"
    BY <1>1, <1>10, FinishIs DEF OpenUp, SetCtrl, At, Types
  <2>2. Told' /\ ~Waiting
    BY <2>1 DEF Told, Idle, Waiting
  <2>3. Silent
    BY <1>10, SeenIs DEF OpenUp, SetCtrl, Silent
  <2> QED BY <2>1, <2>2, <2>3, UseSame
<1>11. CASE Close
  <2>1. UNCHANGED <<dialogue, unconfirmed, nn, bar>> /\ rt'.pc = "disable" /\ rt.pc = "idle"
    BY <1>3, <1>11 DEF Close, Idle, sides
  <2>2. Told'
    BY <2>1 DEF Told
  <2> QED BY <1>4, <2>1, <2>2
<1>12. CASE CloseFreeAll
  <2>1. UNCHANGED <<dialogue, unconfirmed>> /\ nn'.mem = nn.mem /\ bar'.rings = bar.rings
        /\ At("free")
    BY <1>1, <1>12 DEF CloseFreeAll, Undo, Types
  <2>2. ~Told /\ rt.pc # "disable_wait"
    <3>1. rt.op = "close" /\ rt.pc = "free"
      BY <2>1, Which DEF At
    <3> QED BY <3>1 DEF Told, Taking
  <2> QED BY <1>4, <2>1, <2>2 DEF At
<1>13. ASSUME NEW c \in Configs, Reconfigure(c) PROVE Use'
  <2>1. UNCHANGED <<dialogue, unconfirmed, bar>> /\ nn'.mem = nn.mem /\ nn'.up = nn.up
        /\ rt.op = "none"
    BY <1>1, <1>13 DEF Reconfigure, sides, Types
  <2>2. nn.up => Told'
    BY <1>13 DEF Reconfigure, Told, Taking, Idle
  <2>3. ~nn.up => ~Told
    BY <2>1, <1>3 DEF Told, Taking
  <2> QED BY <1>3, <1>4, <2>1, <2>2, <2>3
<1>14. ASSUME NEW ok \in BOOLEAN, ReconfigVector(ok) \/ ReconfigRx(ok) \/ ReconfigTx(ok)
       PROVE  Use'
  <2>1. UNCHANGED <<dialogue, unconfirmed, bar, nn>> /\ rt.pc \in Taking
    BY <1>14 DEF ReconfigVector, ReconfigRx, ReconfigTx, sides, At, Taking
  <2>2. nn.up
    BY <2>1, Which DEF Replacing, Taking
  <2>3. rt'.pc \in Taking \/ rt' = Idle
    <3>1. CASE ok
      BY <1>1, <1>14, <2>1, <3>1 DEF ReconfigVector, ReconfigRx, ReconfigTx, GoTo, Taking,
         Types, RtType
    <3>2. CASE ~ok
      BY <1>14, <3>2, FinishIs DEF ReconfigVector, ReconfigRx, ReconfigTx, GiveUp
    <3> QED BY <3>1, <3>2
  <2>4. Told'
    BY <2>1, <2>2, <2>3 DEF Told, Idle
  <2> QED BY <1>4, <2>1, <2>4 DEF Taking
<1>15. CASE ReconfigStop
  <2>1. UNCHANGED <<dialogue, unconfirmed, nn, bar>> /\ rt'.pc = "disable" /\ rt.pc = "stop"
    BY <1>1, <1>15 DEF ReconfigStop, Call, At, sides, Types, RtType
  <2>2. Told'
    BY <2>1 DEF Told
  <2> QED BY <1>4, <2>1, <2>2
<1>16. ASSUME NEW ok \in BOOLEAN, ReconfigSwap(ok) PROVE Use'
  <2>1. UNCHANGED <<dialogue, unconfirmed, bar>> /\ At("swap")
    BY <1>16 DEF ReconfigSwap, sides
  <2>2. ~Told /\ ~Waiting
    <3>1. rt.op = "reconfig" /\ rt.pc = "swap"
      BY <2>1, Which DEF At
    <3> QED BY <3>1 DEF Told, Taking, Waiting
  <2>3. bar.rings = 0 /\ (~unconfirmed => uses = 0 /\ reads \subseteq {0}) /\ ~own
    BY <2>1, <2>2 DEF Use, At
  <2> QED BY <2>1, <2>3 DEF Use, dialogue
<1>17. CASE ReconfigEnabled
  <2>1. UNCHANGED <<dialogue, unconfirmed, nn, bar>> /\ rt.op = "reconfig" /\ rt.pc = "enabled"
    BY <1>17 DEF ReconfigEnabled, At, sides
  <2>2. nn.up
    BY <2>1 DEF Stages, Replacing
  <2>3. rt'.pc = "disable" \/ rt' = Idle
    BY <1>1, <1>17, FinishIs DEF ReconfigEnabled, Types, RtType
  <2>4. Told'
    BY <2>1, <2>2, <2>3 DEF Told, Idle
  <2> QED BY <1>4, <2>1, <2>4
<1>18. CASE DisableWrite
  <2>1. UNCHANGED <<unconfirmed, nn>> /\ bar'.rings = 0 /\ rt'.pc = "disable_wait"
        /\ rt.pc = "disable"
    BY <1>1, <1>18 DEF DisableWrite, RingsDisabled, At, hist, Types, RtType
  <2>2. uses' = uses /\ own' = own /\ reads' \subseteq reads \cup {Apply(bar')}
    BY <1>18, EnterIs DEF DisableWrite
  <2>3. Apply(bar') = 0
    BY <2>1, ApplyIs
  <2>4. ~own
    BY <2>1 DEF Use, Waiting
  <2>5. nn'.mem = nn.mem /\ (~unconfirmed => uses \in {0, nn.mem} /\ reads \subseteq {0, nn.mem})
    BY <2>1 DEF Use
  <2> QED BY <2>1, <2>2, <2>3, <2>4, <2>5 DEF Use
<1>19. ASSUME NEW ok \in BOOLEAN, DisableWait(ok) PROVE Use'
  <2>1. /\ unconfirmed' = (~ok \/ over) /\ nn'.mem = nn.mem /\ bar'.rings = 0
        /\ rt.pc = "disable_wait"
    BY <1>1, <1>19 DEF DisableWait, RingsDisabled, At, Types
  <2>2. ~Told
    <3>1. rt.op \in {"open", "close", "reconfig"}
      BY <2>1, Which
    <3> QED BY <2>1, <3>1 DEF Told, Taking
  <2>3. own /\ ~own' /\ (ok /\ ~over => uses' \in reads /\ reads' = {})
    BY <1>19, OwnEndsIs DEF DisableWait
  <2>4. ~over => reads \subseteq {0}
    BY <2>2, <2>3 DEF Use
  <2>5. ~unconfirmed' => uses' = 0 /\ reads' = {}
    BY <2>1, <2>3, <2>4
  <2> QED BY <2>1, <2>3, <2>5 DEF Use
<1>20. CASE EnableWrite
  <2>1. UNCHANGED <<unconfirmed, nn>> /\ bar'.rings = nn.mem /\ rt'.pc = "enable_wait"
        /\ rt.pc = "enable"
    BY <1>1, <1>20 DEF EnableWrite, At, hist, Types, RtType
  <2>2. uses' = uses /\ own' = own /\ reads' \subseteq reads \cup {Apply(bar')}
    BY <1>20, EnterIs DEF EnableWrite
  <2>3. Apply(bar') \in {0, nn.mem}
    BY <2>1, ApplyIs
  <2>4. ~own
    BY <2>1 DEF Use, Waiting
  <2>5. Told'
    BY <2>1 DEF Told
  <2> QED BY <2>1, <2>2, <2>3, <2>4, <2>5 DEF Use
<1>21. ASSUME NEW ok \in BOOLEAN, EnableWait(ok) PROVE Use'
  <2>1. /\ nn'.mem = nn.mem /\ UNCHANGED bar /\ rt.pc = "enable_wait"
        /\ IF ok THEN unconfirmed' = over ELSE UNCHANGED unconfirmed
    BY <1>1, <1>21 DEF EnableWait, At, Types
  <2>2. Told'
    <3>1. CASE ok
      <4>1. rt.stack = <<"enabled">>
        BY <2>1, Which DEF Opening, Replacing, Telling
      <4>2. Return(FALSE)
        BY <1>21, <3>1 DEF EnableWait
      <4>3. rt'.pc = "enabled" /\ ~rt'.err
        BY <1>1, <4>1, <4>2, ReturnIs DEF Places
      <4> QED BY <4>3 DEF Told
    <3>2. CASE ~ok
      <4>1. rt'.pc = "disable"
        BY <1>1, <1>21, <3>2 DEF EnableWait, Types, RtType
      <4> QED BY <4>1 DEF Told
    <3> QED BY <3>1, <3>2
  <2>3. /\ own /\ ~own'
        /\ uses' \in reads \cup {uses} /\ reads' \subseteq reads
        /\ ok /\ ~over => uses' \in reads /\ reads' = {}
    BY <1>21, OwnEndsIs DEF EnableWait
  <2>4. bar.rings \in {0, nn.mem} /\ (~over => reads \subseteq {0, bar.rings})
    BY <2>3 DEF Use
  <2>5. ~unconfirmed' => uses' \in {0, nn.mem} /\ reads' \subseteq {0, nn.mem}
    <3>1. CASE ok
      BY <2>1, <2>3, <2>4, <3>1
    <3>2. CASE ~ok
      BY <2>1, <2>3, <3>2 DEF Use
    <3> QED BY <3>1, <3>2
  <2> QED BY <2>1, <2>2, <2>3, <2>4, <2>5 DEF Use
<1>22. CASE SetFeatures
  <2>1. UNCHANGED <<unconfirmed, nn>> /\ bar'.rings = bar.rings /\ rt.op = "none"
        /\ rt'.op = "features" /\ rt'.pc = "features_wait"
    BY <1>1, <1>22 DEF SetFeatures, Idle, hist, Types
  <2>2. (Told <=> nn.up) /\ (Told' <=> nn.up)
    BY <1>3, <2>1 DEF Told, Taking
  <2>3. uses' = uses /\ own' = own /\ reads' \subseteq reads \cup {Apply(bar')}
    BY <1>22, EnterIs DEF SetFeatures
  <2>4. Apply(bar') \in {0, bar.rings}
    BY <2>1, ApplyIs
  <2>5. ~own
    BY <1>3, <2>1 DEF Use, Waiting
  <2> QED BY <1>3, <2>1, <2>2, <2>3, <2>4, <2>5 DEF Use
<1>23. ASSUME NEW ok \in BOOLEAN, SetFeaturesWait(ok) PROVE Use'
  <2>1. /\ UNCHANGED <<unconfirmed, bar>> /\ rt.pc = "features_wait"
        /\ nn'.mem = nn.mem /\ nn'.up = nn.up /\ rt' = Idle
    BY <1>1, <1>23, FinishIs DEF SetFeaturesWait, At, Types
  <2>2. rt.op = "features"
    BY <2>1, Which
  <2>3. (Told <=> nn.up) /\ (Told' <=> nn.up)
    BY <2>1, <2>2 DEF Told, Taking, Idle
  <2>4. ~own' /\ uses' \in reads \cup {uses} /\ reads' \subseteq reads
    BY <1>23, OwnEndsIs DEF SetFeaturesWait
  <2> QED BY <2>1, <2>3, <2>4 DEF Use
<1> QED
  BY <1>5, <1>6, <1>7, <1>8, <1>9, <1>10, <1>11, <1>12, <1>13, <1>14, <1>15,
     <1>16, <1>17, <1>18, <1>19, <1>20, <1>21, <1>22, <1>23
  DEF Next, Rtnl, Dialogue

(* Where the device was told of rings, or is about to confirm that it uses *)
(* them no more, they are held.                                            *)
LEMMA ToldHeld ==
  ASSUME Stages, Told \/ rt.pc = "disable_wait"
  PROVE  Rings(nn.mem) \subseteq held
<1>1. nn.mem \in {1, 2}
  BY DEF Stages, Types
<1>2. CASE rt.op \in {"none", "features"}
  <2>1. Settled /\ rt.pc \in {"idle", "features_wait"}
    BY <1>2 DEF Stages, Idle
  <2>2. nn.up
    BY <1>2, <2>1 DEF Told, Taking
  <2> QED BY <2>1, <2>2 DEF Settled, Full
<1>3. CASE rt.op = "open"
  <2>1. Opening
    BY <1>3 DEF Stages
  <2>2. rt.pc \in {"enabled", "up"} \cup Telling
    BY <1>3, <2>1 DEF Told, Opening, Telling, Taking
  <2>3. held = Full(nn.cfg, nn.mem)
    BY <2>1, <2>2 DEF Opening
  <2> QED BY <2>3 DEF Full
<1>4. CASE rt.op = "close"
  BY <1>4 DEF Stages, Closing, Full
<1>5. CASE rt.op = "reconfig"
  <2>1. Replacing
    BY <1>5 DEF Stages
  <2>2. Full(nn.cfg, nn.mem) \subseteq held \/ Rings(1) \cup Rings(2) \subseteq held
    BY <2>1 DEF Replacing
  <2> QED BY <1>1, <2>2 DEF Full
<1> QED BY <1>2, <1>3, <1>4, <1>5, Which

LEMMA FullHas ==
  ASSUME NEW c, NEW m
  PROVE  Lsc \in Full(c, m) /\ Rings(m) \subseteq Full(c, m)
BY DEF Full, Base

(* Vectors are in use only where the rings they point to are held.         *)
LEMMA RunningHeld ==
  ASSUME Stages, running # {}
  PROVE  /\ assigned = nn.mem /\ Rings(nn.mem) \subseteq held /\ Lsc \in held
         /\ nn.up \/ (rt.op = "open" /\ rt.pc = "up")
         /\ running = Own
<1>1. CASE rt.op \in {"none", "features"}
  <2>1. Settled
    BY <1>1 DEF Stages
  <2>2. nn.up
    BY <2>1 DEF Settled
  <2>3. assigned = nn.mem /\ held = Full(nn.cfg, nn.mem) /\ running = Own
    BY <2>1, <2>2 DEF Settled
  <2> QED BY <2>2, <2>3, FullHas
<1>2. CASE rt.op = "open"
  <2>1. Opening
    BY <1>2 DEF Stages
  <2>2. rt.pc = "up" /\ running = Own
    BY <2>1 DEF Opening
  <2>3. held = Full(nn.cfg, nn.mem) /\ assigned = nn.mem
    BY <2>1, <2>2 DEF Opening
  <2> QED BY <1>2, <2>2, <2>3, FullHas
<1>3. CASE rt.op = "close"
  BY <1>3 DEF Stages, Closing
<1>4. CASE rt.op = "reconfig"
  <2>1. Replacing
    BY <1>4 DEF Stages
  <2>2. rt.pc \in Taking /\ assigned = nn.mem /\ nn.up /\ running = Own
    BY <2>1 DEF Replacing
  <2>3. nn.mem \in {1, 2}
    BY DEF Stages, Types
  <2>4. Base \subseteq held /\ Rings(nn.mem) \subseteq held
    <3>1. CASE rt.pc = "stop"
      <4>1. held = Base \cup Vec(0, nn.cfg) \cup Vec(0, dp.cfg) \cup Rings(1) \cup Rings(2)
        BY <2>1, <3>1 DEF Replacing
      <4> QED BY <2>3, <4>1
    <3>2. CASE rt.pc \in {"more_vectors", "more_tx"}
      <4>1. Full(nn.cfg, nn.mem) \subseteq held
        BY <2>1, <3>2 DEF Replacing
      <4> QED BY <4>1 DEF Full
    <3> QED BY <2>2, <3>1, <3>2 DEF Taking
  <2> QED BY <2>2, <2>4 DEF Base
<1> QED BY <1>1, <1>2, <1>3, <1>4, Which

LEMMA UseInit ==
  Init => Use
BY DEF Init, Use, Told, Taking, Idle

(* Unless the last disabling failed, or the last 0 may have been the       *)
(* answer to an update before it, the device uses no ring that the driver  *)
(* does not hold; and no vector in use reaches one that is freed.          *)
THEOREM NoUseAfterFree ==
  Spec => []MemorySafe
<1>1. ASSUME Stages, Use PROVE MemorySafe
  <2>1. ASSUME uses # 0, ~unconfirmed PROVE Rings(uses) \subseteq held
    <3>1. uses = nn.mem /\ (Told \/ rt.pc = "disable_wait")
      BY <1>1, <2>1 DEF Use
    <3> QED BY <1>1, <3>1, ToldHeld
  <2>2. nn.mem # 0
    BY <1>1 DEF Stages, Types
  <2> QED BY <1>1, <2>1, <2>2, RunningHeld DEF MemorySafe
<1>2. Stages /\ [Next]_vars => Stages'
  BY StagesStep
<1>3. Stages /\ Stages' /\ Use /\ [Next]_vars => Use'
  BY UseStep
<1> QED BY <1>1, <1>2, <1>3, StagesInit, UseInit, PTL DEF Spec


----------------------------------------------------------------------------
(* The link.  Its interrupt is enabled in the device while it is held, and *)
(* whenever vectors come into use the status is read first.                *)
LEMMA LscKept ==
  ASSUME NEW t, NEW r, Takes(t, r), Lsc \notin t, Lsc \notin r
  PROVE  Lsc \in held' <=> Lsc \in held
BY DEF Takes

LEMMA OthersLsc ==
  /\ \A a, b : Lsc \notin Vec(a, b)
  /\ \A m : Lsc \notin Rings(m)
  /\ \A m : Lsc # <<"rx", m>> /\ Lsc # <<"tx", m>>
  /\ \A r : Lsc # <<"vec", r>>
  /\ Lsc # Exn
BY DEF Lsc, Vec, Rings, Exn

LEMMA KnownSame ==
  ASSUME Known, bar'.lsc = bar.lsc, Lsc \in held' <=> Lsc \in held,
         running' = {} \/ UNCHANGED <<running, link>>
  PROVE  Known'
BY DEF Known, LinkKnown

LEMMA UndoKnown ==
  ASSUME Types, NEW more, Undo(more), running = {}, UNCHANGED running
  PROVE  Known'
<1>1. Lsc \notin held'
  BY DEF Undo, Takes
<1>2. ~bar'.lsc
  BY DEF Undo, Types
<1> QED BY <1>1, <1>2 DEF Known, LinkKnown

LEMMA OpenStackKnown ==
  ASSUME Types, Known, OpenStack, UNCHANGED bar, Lsc \in held' <=> Lsc \in held
  PROVE  Known'
<1>1. link'.up = link'.sts
  BY DEF OpenStack, StatusAtOpen, Status, Types
<1> QED BY <1>1 DEF Known, LinkKnown

LEMMA KnownStep ==
  ASSUME Stages, Stages', Known, [Next]_vars
  PROVE  Known'
<1>1. Types /\ Types'
  BY DEF Stages
<1>2. CASE Dialogue \/ UNCHANGED vars
  BY <1>2, DialogueFrame DEF Known, LinkKnown, vars, sides
<1>3. CASE LinkChanges
  <2>1. UNCHANGED <<held, running, bar>>
    BY <1>3 DEF LinkChanges, sides
  <2>2. /\ link'.sts = ~link.sts /\ link'.up = link.up /\ link'.pc = link.pc
        /\ link'.pending = (link.pending \/ bar.lsc)
    BY <1>1, <1>3 DEF LinkChanges, Types
  <2>3. running # {} => bar.lsc
    BY RunningHeld DEF Known
  <2> QED BY <2>1, <2>2, <2>3 DEF Known, LinkKnown
<1>4. CASE IrqLsc \/ IrqLscReads
  <2>1. UNCHANGED <<held, running, bar>>
    BY <1>4 DEF IrqLsc, IrqLscReads, sides
  <2>2. link'.pc = "read" \/ link'.up = link'.sts
    BY ZenonT(60), <1>1, <1>4 DEF IrqLsc, IrqLscReads, Status, Types
  <2> QED BY <2>1, <2>2 DEF Known, LinkKnown
<1>5. CASE IrqLscUnmasks
  <2>1. UNCHANGED <<held, running, bar>>
    BY <1>5 DEF IrqLscUnmasks, sides
  <2>2. /\ link'.sts = link.sts /\ link'.up = link.up
        /\ link'.pending = link.pending /\ link.pc # "read"
    BY <1>1, <1>5 DEF IrqLscUnmasks, Types
  <2> QED BY <2>1, <2>2 DEF Known, LinkKnown
<1>6. ASSUME NEW w \in BOOLEAN, nfp_net_set_rx_mode(w) PROVE Known'
  <2>1. UNCHANGED <<held, running, link>> /\ bar'.lsc = bar.lsc
    BY <1>1, <1>6 DEF nfp_net_set_rx_mode, SetCtrl, Types
  <2> QED BY <2>1, KnownSame
<1>7. CASE Open \/ (\E c \in Configs : Reconfigure(c)) \/ DisableWrite \/ EnableWrite \/ SetFeatures
           \/ OpenUp
           \/ \E ok \in BOOLEAN : \/ DisableWait(ok) \/ EnableWait(ok) \/ SetFeaturesWait(ok)
                                  \/ ReconfigSwap(ok)
  <2>1. UNCHANGED <<held, running, link>> /\ bar'.lsc = bar.lsc
    BY ZenonT(60), <1>1, <1>7 DEF Open, Reconfigure, DisableWrite, EnableWrite, SetFeatures, OpenUp,
       DisableWait, EnableWait, SetFeaturesWait, ReconfigSwap, SetCtrl, sides, Types
  <2> QED BY <2>1, KnownSame
<1>8. ASSUME NEW ok \in BOOLEAN, OpenExn(ok) PROVE Known'
  <2>1. UNCHANGED <<running, link>> /\ bar'.lsc = bar.lsc
    BY <1>8 DEF OpenExn, sides
  <2>2. Lsc \in held' <=> Lsc \in held
    BY <1>8, LscKept, OthersLsc DEF OpenExn
  <2> QED BY <2>1, <2>2, KnownSame
<1>9. ASSUME NEW ok \in BOOLEAN, OpenLsc(ok) PROVE Known'
  <2>1. running = {} /\ UNCHANGED running /\ At("lsc")
    BY <1>9, Which DEF OpenLsc, At, Opening
  <2>2. CASE Takes({Lsc}, {}) /\ bar' = [bar EXCEPT !.lsc = TRUE]
    BY <1>1, <2>1, <2>2 DEF Takes, Known, LinkKnown, Types
  <2>3. CASE Takes({}, {Exn}) /\ UNCHANGED bar
    BY <2>1, <2>3, LscKept, OthersLsc DEF Known, LinkKnown
  <2> QED BY <1>9, <2>2, <2>3 DEF OpenLsc
<1>10. CASE OpenLscOff
  BY <1>10, Which DEF OpenLscOff, At, Opening, sides, Known, LinkKnown
<1>11. ASSUME NEW ok \in BOOLEAN,
              OpenVector(ok) \/ OpenRx(ok) \/ OpenTx(ok) \/ OpenQueues(ok)
       PROVE Known'
  <2>1. running = {} /\ UNCHANGED running
    BY <1>11, Which DEF OpenVector, OpenRx, OpenTx, OpenQueues, At, Opening
  <2>2. CASE \E more : Undo(more)
    BY <1>1, <2>1, <2>2, UndoKnown
  <2>3. CASE UNCHANGED bar /\ UNCHANGED held
    BY <2>1, <2>3 DEF Known, LinkKnown
  <2>4. CASE UNCHANGED bar /\ \E x : Takes({x}, {}) /\ x # Lsc
    BY <2>1, <2>4, LscKept DEF Known, LinkKnown
  <2>5. CASE OpenVector(ok)
    <3>1. Undo(Vec(0, rt.r)) \/ (UNCHANGED bar /\ Takes({<<"vec", rt.r>>}, {}))
      BY <2>5 DEF OpenVector
    <3>2. <<"vec", rt.r>> # Lsc
      BY OthersLsc
    <3> QED BY <2>2, <2>4, <3>1, <3>2
  <2>6. CASE OpenRx(ok)
    <3>1. Undo(Own) \/ (UNCHANGED bar /\ Takes({<<"rx", nn.mem>>}, {}))
      BY <2>6 DEF OpenRx
    <3>2. <<"rx", nn.mem>> # Lsc
      BY OthersLsc
    <3> QED BY <2>2, <2>4, <3>1, <3>2
  <2>7. CASE OpenTx(ok)
    <3>1. Undo(Own \cup {<<"rx", nn.mem>>}) \/ (UNCHANGED bar /\ Takes({<<"tx", nn.mem>>}, {}))
      BY <2>7 DEF OpenTx
    <3>2. <<"tx", nn.mem>> # Lsc
      BY OthersLsc
    <3> QED BY <2>2, <2>4, <3>1, <3>2
  <2>8. CASE OpenQueues(ok)
    BY <2>2, <2>3, <2>8 DEF OpenQueues
  <2> QED BY <1>11, <2>5, <2>6, <2>7, <2>8
<1>12. CASE OpenEnabled
  <2>1. At("enabled") /\ rt.op = "open"
    BY <1>12 DEF OpenEnabled
  <2>2. running = {}
    BY <2>1 DEF Stages, Opening, At
  <2>3. CASE ~rt.err
    BY <1>1, <1>12, <2>3, OpenStackKnown DEF OpenEnabled
  <2>4. CASE rt.err
    BY <1>1, <1>12, <2>2, <2>4, UndoKnown DEF OpenEnabled
  <2> QED BY <2>3, <2>4
<1>13. CASE Close
  <2>1. rt.op = "none" /\ CloseStack /\ UNCHANGED <<held, bar>>
    BY <1>13 DEF Close, sides
  <2>2. running' = {}
    BY <2>1 DEF Stages, Settled, CloseStack
  <2> QED BY <2>1, <2>2, KnownSame
<1>14. CASE CloseFreeAll
  <2>1. running = {}
    BY <1>14, Which DEF CloseFreeAll, At, Closing
  <2> QED BY <1>1, <1>14, <2>1, UndoKnown DEF CloseFreeAll
<1>15. ASSUME NEW ok \in BOOLEAN, ReconfigVector(ok) \/ ReconfigRx(ok) \/ ReconfigTx(ok)
       PROVE Known'
  <2>1. UNCHANGED <<running, link, bar>>
    BY <1>15 DEF ReconfigVector, ReconfigRx, ReconfigTx, sides
  <2>2. Lsc \in held' <=> Lsc \in held
    <3>1. CASE ReconfigVector(ok)
      BY <3>1, LscKept, OthersLsc DEF ReconfigVector, GiveUp
    <3>2. CASE ReconfigRx(ok)
      BY <3>2, LscKept, OthersLsc DEF ReconfigRx, GiveUp
    <3>3. CASE ReconfigTx(ok)
      BY <3>3, LscKept, OthersLsc DEF ReconfigTx, GiveUp
    <3> QED BY <1>15, <3>1, <3>2, <3>3
  <2> QED BY <2>1, <2>2, KnownSame
<1>16. CASE ReconfigStop
  <2>1. At("stop") /\ CloseStack /\ UNCHANGED <<held, bar>>
    BY <1>16 DEF ReconfigStop, sides
  <2>2. running' = {}
    BY <2>1, Which DEF At, Replacing, CloseStack, Taking
  <2> QED BY <2>1, <2>2, KnownSame
<1>17. CASE ReconfigEnabled
  <2>1. UNCHANGED bar
    BY <1>17 DEF ReconfigEnabled, sides
  <2>2. CASE UNCHANGED <<held, running, link>>
    BY <2>1, <2>2, KnownSame
  <2>3. CASE OpenStack /\ held' = held \ (Extra(dp.cfg, nn.cfg) \cup Rings(dp.mem))
    <3>1. Lsc \in held' <=> Lsc \in held
      BY <2>3, OthersLsc DEF Extra
    <3> QED BY <1>1, <2>1, <2>3, <3>1, OpenStackKnown
  <2> QED BY <1>17, <2>2, <2>3 DEF ReconfigEnabled
<1> QED
  BY <1>2, <1>3, <1>4, <1>5, <1>6, <1>7, <1>8, <1>9, <1>10, <1>11, <1>12, <1>13, <1>14,
     <1>15, <1>16, <1>17
  DEF Next, Rtnl, Dialogue

(* While vectors are in use no change of the link is missed: the driver    *)
(* knows it, or its interrupt is pending or being served.                  *)
THEOREM LinkIsKnown ==
  Spec => []LinkKnown
<1>1. Init => Known
  BY Kinds DEF Init, Known, LinkKnown
<1>2. Stages /\ [Next]_vars => Stages'
  BY StagesStep
<1>3. Stages /\ Stages' /\ Known /\ [Next]_vars => Known'
  BY KnownStep
<1>4. Known => LinkKnown
  BY DEF Known
<1> QED BY <1>1, <1>2, <1>3, <1>4, StagesInit, PTL DEF Spec


----------------------------------------------------------------------------
(* The copies of the control word. *)
LEMMA CopiesSame ==
  ASSUME Copies, UNCHANGED <<nn, dp, want, dialogue, rt, unconfirmed, overlapped, featfail, dead>>,
         bar'.ctrl = bar.ctrl, bar'.rings = bar.rings
  PROVE  Copies'
<1>1. /\ Alone' = Alone /\ Equal' = Equal /\ Before' = Before /\ Wanted' = Wanted
      /\ Waiting' = Waiting /\ Served' = Served
  BY DEF Alone, Equal, Before, Wanted, Waiting, Served
<1>2. Agreed'
  BY <1>1 DEF Copies, Agreed
<1>3. Noted'
  BY <1>1 DEF Copies, Noted, dialogue
<1>4. SetAside'
  BY DEF Copies, SetAside
<1>5. InUse'
  BY <1>1 DEF Copies, InUse, Serving, dialogue
<1> QED BY <1>2, <1>3, <1>4, <1>5 DEF Copies

(* The stages of opening before the device is told of anything. *)
LEMMA CopiesOpening ==
  ASSUME Copies, UNCHANGED <<nn, want, overlapped, featfail>>, bar'.ctrl = bar.ctrl,
         ~nn.up, Before, rt'.op # "reconfig",
         rt'.pc \in {"idle", "exn", "lsc", "lsc_off", "vectors", "tx", "queues", "enable"}
  PROVE  Copies'
<1>1. ~Equal' /\ Wanted' = Wanted
  BY DEF Equal, Wanted
<1>2. Agreed'
  BY <1>1 DEF Copies, Agreed
<1>3. Noted'
  BY DEF Noted, Waiting
<1>4. InUse'
  BY DEF InUse, Served, Taking
<1> QED BY <1>2, <1>3, <1>4 DEF Copies, SetAside

(* A reconfiguration that takes rings, or gives up. *)
LEMMA CopiesTaking ==
  ASSUME Copies, UNCHANGED <<nn, want, bar, dialogue, unconfirmed, overlapped, featfail, dead>>,
         rt.op = "reconfig", rt.pc \in Taking,
         \/ rt'.pc \in Taking /\ dp' = dp /\ rt'.op = rt.op /\ rt'.again = rt.again
         \/ rt' = Idle,
         nn.up
  PROVE  Copies'
<1>1. /\ ~Equal' /\ Wanted' = Wanted /\ Before /\ ~Waiting'
      /\ Alone' => Alone /\ ~overlapped
  BY DEF Equal, Wanted, Before, Waiting, Taking, Alone, Idle
<1>2. Agreed'
  BY <1>1 DEF Copies, Agreed
<1>3. Noted'
  BY <1>1 DEF Noted, Waiting
<1>4. SetAside'
  BY DEF Copies, SetAside, Taking, Idle
<1>5. rt'.pc \notin {"enabled", "up"}
  BY DEF Taking, Idle
<1>6. Served' => Served
  BY <1>5 DEF Served
<1>7. InUse'
  BY <1>1, <1>5, <1>6 DEF Copies, InUse, Serving, dialogue
<1> QED BY <1>2, <1>3, <1>4, <1>7 DEF Copies

(* The firmware reads what the driver has written. *)
LEMMA CopiesDialogue ==
  ASSUME Use, Copies, Dialogue
  PROVE  Copies'
<1>1. UNCHANGED <<nn, dp, want, bar, rt, unconfirmed, overlapped, featfail, dead>>
  BY DialogueFrame DEF hist
<1>2. /\ Alone' = Alone /\ Equal' = Equal /\ Before' = Before /\ Wanted' = Wanted
      /\ Waiting' = Waiting /\ Served' = Served
  BY <1>1 DEF Alone, Equal, Before, Wanted, Waiting, Served
<1>3. Agreed' /\ SetAside'
  BY <1>1, <1>2 DEF Copies, Agreed, SetAside
<1>4. /\ uses' \in reads \cup {uses}
      /\ reads' \subseteq reads \cup {Apply(bar)}
      /\ own' /\ ~over' => (own /\ ~over /\ reads' = reads) \/ reads' = {Apply(bar)}
  BY DialogueIs
<1>5. ASSUME rt.pc = "enable_wait", Alone, own', ~over' PROVE reads' \subseteq {nn.mem}
  <2>1. "ENABLE" \in bar.ctrl /\ bar.rings = nn.mem
    BY <1>5 DEF Copies, Noted, Waiting
  <2>2. Apply(bar) = nn.mem
    BY <2>1, ApplyIs
  <2> QED BY <1>4, <1>5, <2>2 DEF Copies, Noted
<1>6. Noted'
  BY <1>1, <1>2, <1>5 DEF Copies, Noted
<1>7. Serving => Serving'
  <2>1. Serving => Apply(bar) = nn.mem
    BY ApplyIs DEF Serving
  <2> QED BY <1>1, <1>4, <2>1 DEF Serving
<1>8. InUse'
  BY <1>1, <1>2, <1>7 DEF Copies, InUse
<1> QED BY <1>3, <1>6, <1>8 DEF Copies

LEMMA CopiesRxMode ==
  ASSUME Stages, Types', Copies, NEW w \in BOOLEAN, nfp_net_set_rx_mode(w)
  PROVE  Copies'
<1>1. UNCHANGED <<dp, uses, own, over, rt, unconfirmed, featfail, dead>> /\ want' = w /\ Types
  BY DEF nfp_net_set_rx_mode, Stages
<1>2. rt.op = "open" => ~nn.up
  BY DEF Stages, Opening
<1>3. Waiting' = Waiting
  BY <1>1 DEF Waiting
<1>4. CASE nn.up /\ WithRxMode(w) # nn.ctrl
  <2>1. /\ bar'.ctrl = WithRxMode(w) /\ bar'.rings = bar.rings
        /\ nn'.ctrl = WithRxMode(w) /\ nn'.up = nn.up /\ nn'.mem = nn.mem
        /\ overlapped' = (overlapped \/ Waiting)
    BY ZenonT(60), <1>1, <1>4 DEF nfp_net_set_rx_mode, SetCtrl, Types
  <2>2. /\ w <=> "PROMISC" \in nn'.ctrl
        /\ "ENABLE" \in nn'.ctrl <=> "ENABLE" \in nn.ctrl
        /\ Moded(nn'.ctrl) = Moded(nn.ctrl)
    BY <2>1 DEF WithRxMode, Moded
  <2>3. Alone' => ~overlapped /\ ~Waiting /\ Alone
    BY <1>1, <1>2, <1>4, <2>1 DEF Alone
  <2>4. Agreed'
    BY <1>1, <2>1, <2>2 DEF Agreed, Wanted
  <2>5. Noted'
    BY <1>1, <1>3, <2>1, <2>3 DEF Copies, Noted, Waiting
  <2>6. SetAside'
    BY <1>1, <2>1, <2>2 DEF Copies, SetAside
  <2>7. Served' => Served
    BY <1>1, <2>1 DEF Served
  <2>8. reads' \subseteq reads \cup {Apply(bar')}
    BY <1>4, SeenIs DEF nfp_net_set_rx_mode, SetCtrl
  <2>9. Serving => Serving'
    <3>1. Serving => Apply(bar') = nn.mem
      BY <2>1, <2>2, ApplyIs DEF Serving
    <3> QED BY <1>1, <2>1, <2>2, <2>8, <3>1 DEF Serving
  <2>10. InUse'
    BY <1>1, <2>3, <2>7, <2>9 DEF Copies, InUse
  <2> QED BY <2>4, <2>5, <2>6, <2>10 DEF Copies
<1>5. CASE ~(nn.up /\ WithRxMode(w) # nn.ctrl)
  <2>1. UNCHANGED <<bar, reads, nn, overlapped>>
    BY <1>5 DEF nfp_net_set_rx_mode
  <2>2. nn.up => (w <=> "PROMISC" \in nn.ctrl)
    BY <1>5 DEF WithRxMode
  <2>3. Agreed'
    BY <1>1, <2>1, <2>2 DEF Copies, Agreed, Wanted, Alone, Equal, Before
  <2>4. Noted' /\ SetAside'
    BY <1>1, <2>1 DEF Copies, Noted, SetAside, Waiting, Alone
  <2>5. InUse'
    BY <1>1, <2>1 DEF Copies, InUse, Serving, Served, Alone
  <2> QED BY <2>3, <2>4, <2>5 DEF Copies
<1> QED BY <1>4, <1>5

LEMMA CopiesDisable ==
  ASSUME Stages, Types', Copies,
         DisableWrite \/ \E ok \in BOOLEAN : DisableWait(ok)
  PROVE  Copies'
<1>1. Types
  BY DEF Stages
<1>2. CASE DisableWrite
  <2>1. /\ rt.pc = "disable" /\ rt'.pc = "disable_wait" /\ rt'.op = rt.op
        /\ rt'.stack = rt.stack /\ rt'.again = rt.again
        /\ rt'.ctrl = Off(nn.ctrl) /\ bar'.ctrl = Off(nn.ctrl)
        /\ UNCHANGED <<nn, dp, want, overlapped, featfail, dead>>
    BY <1>1, <1>2 DEF DisableWrite, At, Off, hist, Types, RtType
  <2>2. Agreed'
    BY <2>1 DEF Copies, Agreed, Equal, Before, Wanted, Taking
  <2>3. Noted'
    BY <2>1 DEF Noted, Off
  <2>4. SetAside'
    BY <2>1 DEF Copies, SetAside, Taking
  <2>5. rt.op \notin {"none", "features"}
    BY <2>1, Which
  <2>6. InUse'
    BY <2>1, <2>5 DEF InUse, Served, Taking
  <2> QED BY <2>2, <2>3, <2>4, <2>6 DEF Copies
<1>3. ASSUME NEW ok \in BOOLEAN, DisableWait(ok) PROVE Copies'
  <2>1. /\ rt.pc = "disable_wait" /\ UNCHANGED <<dp, want, overlapped, featfail, dead>>
        /\ bar'.ctrl = bar.ctrl /\ nn'.ctrl = rt.ctrl /\ nn'.up = nn.up
    BY <1>1, <1>3 DEF DisableWait, At, Types
  <2>2. PICK q \in {"enabled", "free", "swap"} : rt.stack = <<q>>
    BY <2>1, Returning
  <2>3. Return(rt.err) /\ rt.err \in BOOLEAN
    BY <1>1, <1>3 DEF DisableWait, Types, RtType
  <2>4. /\ rt'.op = rt.op /\ rt'.pc = q /\ rt'.stack = << >> /\ rt'.err = rt.err
        /\ rt'.again = rt.again
    BY <1>1, <2>2, <2>3, ReturnIs DEF Places
  <2>5. Alone' = Alone /\ (Alone => bar.ctrl = rt.ctrl /\ Off(rt.ctrl) = Off(nn.ctrl))
    BY <2>1, <2>4 DEF Copies, Noted, Alone, Waiting
  <2>6. rt.op \notin {"none", "features"}
    BY <2>1, Which
  <2>7. ~overlapped => Alone /\ (Wanted => Wanted')
    BY <2>1, <2>5 DEF Alone, Wanted, Off
  <2>8. Agreed'
    BY <2>1, <2>4, <2>5, <2>7 DEF Copies, Agreed, Before, Taking
  <2>9. Noted'
    BY <2>4 DEF Noted, Waiting
  <2>10. SetAside'
    <3>1. rt.op = "reconfig" /\ q = "enabled" => "ENABLE" \notin dp.ctrl
      BY <2>1, <2>2 DEF Copies, SetAside, Taking
    <3>2. rt.op = "reconfig" => q # "free"
      BY <2>1, <2>2 DEF Stages, Replacing
    <3>3. rt.op = "reconfig" /\ rt.again => "ENABLE" \notin dp.ctrl
      BY DEF Copies, SetAside
    <3>4. rt.op = "reconfig" /\ ~overlapped => Moded(dp.ctrl) = Moded(nn'.ctrl)
      BY <2>1, <2>5, <2>7 DEF Copies, SetAside, Off, Moded
    <3>5. "ENABLE" \notin nn'.ctrl
      BY <2>1 DEF Copies, Noted
    <3> QED BY <2>1, <2>2, <2>4, <3>1, <3>2, <3>3, <3>4, <3>5 DEF SetAside
  <2>11. InUse'
    <3>1. q = "enabled" => rt.err
      <4>1. CASE rt.op = "open"
        BY <2>1, <4>1 DEF Stages, Opening
      <4>2. CASE rt.op = "close"
        BY <2>1, <2>2, <4>2 DEF Stages, Closing
      <4>3. CASE rt.op = "reconfig"
        BY <2>1, <2>2, <4>3 DEF Stages, Replacing
      <4> QED BY <2>1, <4>1, <4>2, <4>3, Which
    <3> QED BY <2>1, <2>4, <2>6, <3>1 DEF InUse, Served, Taking
  <2> QED BY <2>8, <2>9, <2>10, <2>11 DEF Copies
<1> QED BY <1>2, <1>3


LEMMA CopiesEnable ==
  ASSUME Stages, Types', Use, Copies,
         EnableWrite \/ \E ok \in BOOLEAN : EnableWait(ok)
  PROVE  Copies'
<1>1. Types
  BY DEF Stages
<1>2. CASE EnableWrite
  <2>1. /\ rt.pc = "enable" /\ rt'.pc = "enable_wait" /\ rt'.op = rt.op
        /\ rt'.stack = rt.stack /\ rt'.again = rt.again
        /\ rt'.ctrl = nn.ctrl \cup {"ENABLE"} /\ bar'.ctrl = nn.ctrl \cup {"ENABLE"}
        /\ bar'.rings = nn.mem
        /\ UNCHANGED <<nn, dp, want, overlapped, featfail, dead>>
    BY <1>1, <1>2 DEF EnableWrite, At, hist, Types, RtType
  <2>2. Agreed'
    BY <2>1 DEF Copies, Agreed, Equal, Before, Wanted, Taking
  <2>3. Noted'
    <3>1. ~own'
      BY <1>2, <2>1, EnterIs DEF EnableWrite, Use, Waiting
    <3> QED BY <2>1, <3>1 DEF Noted, Off
  <2>4. SetAside'
    BY <2>1 DEF Copies, SetAside, Taking
  <2>5. rt.op \notin {"none", "features"}
    BY <2>1, Which
  <2>6. InUse'
    BY <2>1, <2>5 DEF InUse, Served, Taking
  <2> QED BY <2>2, <2>3, <2>4, <2>6 DEF Copies
<1>3. ASSUME NEW ok \in BOOLEAN, EnableWait(ok) PROVE Copies'
  <2>1. /\ rt.pc = "enable_wait" /\ UNCHANGED <<dp, want, overlapped, featfail, bar>>
        /\ nn'.up = nn.up /\ nn'.mem = nn.mem
    BY <1>1, <1>3 DEF EnableWait, At, Types
  <2>2. rt.stack = <<"enabled">>
    <3>1. Opening \/ Replacing
      BY <2>1, Which
    <3> QED BY <2>1, <3>1 DEF Opening, Replacing, Telling
  <2>3. rt.op \in {"open", "reconfig"}
    BY <2>1, Which
  <2>4. rt.op = "reconfig" => "ENABLE" \notin dp.ctrl
    BY <2>1, <2>2 DEF Copies, SetAside, Taking
  <2>5. CASE ok
    <3>1. Return(FALSE) /\ ~dead' /\ nn'.ctrl = rt.ctrl /\ unconfirmed' = over
      BY <1>1, <1>3, <2>5 DEF EnableWait, CtrlEnabled, Types
    <3>2. /\ rt'.op = rt.op /\ rt'.pc = "enabled" /\ rt'.stack = << >> /\ ~rt'.err
          /\ rt'.again = rt.again
      BY <1>1, <2>2, <3>1, ReturnIs DEF Places
    <3>3. Alone' = Alone /\ (Alone => bar.ctrl = rt.ctrl /\ Off(rt.ctrl) = Off(nn.ctrl))
      BY <2>1, <3>2 DEF Copies, Noted, Alone, Waiting
    <3>4. ~overlapped => Alone /\ (Wanted => Wanted')
      BY <2>1, <3>1, <3>3 DEF Alone, Wanted, Off
    <3>5. Agreed'
      BY <2>1, <3>1, <3>2, <3>3, <3>4 DEF Copies, Agreed, Before, Taking
    <3>6. Noted'
      BY <3>2 DEF Noted, Waiting
    <3>7. rt.op = "reconfig" /\ ~overlapped => Moded(dp.ctrl) = Moded(nn'.ctrl)
      BY <3>1, <3>3, <3>4 DEF Copies, SetAside, Off, Moded
    <3>8. SetAside'
      BY <2>1, <2>4, <3>2, <3>7 DEF SetAside
    <3>9. "ENABLE" \in rt.ctrl /\ bar.rings = nn.mem
      BY <2>1 DEF Copies, Noted
    <3>10. Alone /\ ~unconfirmed' => uses' = nn.mem /\ reads' = {}
      <4>1. own /\ (~over => uses' \in reads /\ reads' = {})
        BY <1>3, <2>5, OwnEndsIs DEF EnableWait
      <4>2. Alone /\ ~over => reads \subseteq {nn.mem}
        BY <2>1, <4>1 DEF Copies, Noted
      <4> QED BY <3>1, <4>1, <4>2
    <3>11. Alone => Serving'
      BY <2>1, <3>1, <3>3, <3>9, <3>10 DEF Serving
    <3>12. InUse'
      BY <3>1, <3>3, <3>11 DEF InUse
    <3> QED BY <3>5, <3>6, <3>8, <3>12 DEF Copies
  <2>6. CASE ~ok
    <3>1. rt'.pc = "disable" /\ rt'.op = rt.op /\ rt'.stack = rt.stack /\ rt'.again = rt.again
      BY ZenonT(60), <1>1, <1>3, <2>6 DEF EnableWait, Types, RtType
    <3>2. nn' = nn
      BY <1>3, <2>6 DEF EnableWait
    <3>3. Agreed'
      BY <2>1, <3>1, <3>2 DEF Copies, Agreed, Equal, Before, Wanted, Taking
    <3>4. Noted'
      BY <3>1 DEF Noted, Waiting
    <3>5. SetAside'
      BY <2>1, <2>4, <3>1, <3>2 DEF Copies, SetAside
    <3>6. InUse'
      BY <2>3, <3>1 DEF InUse, Served, Taking
    <3> QED BY <3>3, <3>4, <3>5, <3>6 DEF Copies
  <2> QED BY <2>5, <2>6
<1> QED BY <1>2, <1>3

LEMMA CopiesUpDown ==
  ASSUME Stages, Types', Copies, OpenEnabled \/ OpenUp \/ Close \/ CloseFreeAll
  PROVE  Copies'
<1>1. Types
  BY DEF Stages
<1>2. CASE OpenEnabled
  <2>1. /\ rt.pc = "enabled" /\ rt.op = "open" /\ bar'.ctrl = bar.ctrl /\ bar'.rings = bar.rings
        /\ UNCHANGED <<nn, want, dialogue, unconfirmed, overlapped, featfail, dead>>
    BY <1>1, <1>2 DEF OpenEnabled, At, Undo, Types
  <2>2. ~nn.up /\ bar.ctrl = nn.ctrl
    BY <2>1 DEF Stages, Opening, Copies, Agreed, Alone, Equal
  <2>3. CASE ~rt.err
    <3>1. GoTo("up")
      BY <1>2, <2>3 DEF OpenEnabled
    <3>2. rt'.op = "open" /\ rt'.pc = "up"
      BY <1>1, <2>1, <3>1, GoToIs DEF Places
    <3>3. Agreed'
      BY <2>1, <2>2 DEF Agreed
    <3>4. Noted' /\ SetAside'
      BY <3>2 DEF Noted, SetAside, Waiting
    <3>5. Serving
      BY <2>1, <2>3 DEF Copies, InUse, Served, Alone
    <3>6. ~dead
      BY <2>1, <2>3 DEF Copies, InUse
    <3>7. InUse'
      BY <2>1, <3>5, <3>6 DEF InUse, Serving, dialogue
    <3> QED BY <3>3, <3>4, <3>7 DEF Copies
  <2>4. CASE rt.err
    <3>1. rt' = Idle
      BY <1>2, <2>4, FinishIs DEF OpenEnabled, Undo
    <3>2. Agreed'
      BY <2>1, <2>2 DEF Agreed
    <3>3. Noted' /\ SetAside'
      BY <3>1 DEF Noted, SetAside, Waiting, Idle
    <3>4. InUse'
      BY <2>1, <2>2, <3>1 DEF InUse, Served, Taking, Idle
    <3> QED BY <3>2, <3>3, <3>4 DEF Copies
  <2> QED BY <2>3, <2>4
<1>3. CASE OpenUp
  <2>1. rt.pc = "up" /\ rt' = Idle /\ ~overlapped' /\ UNCHANGED <<want, uses, unconfirmed, dead>>
    BY <1>3, FinishIs DEF OpenUp, At
  <2>2. rt.op = "open" /\ ~rt.err
    BY <2>1, Which DEF Opening
  <2>3. bar.ctrl = nn.ctrl /\ Serving
    BY <2>1, <2>2 DEF Copies, Agreed, InUse, Alone, Equal, Served
  <2>4. /\ nn'.ctrl = WithRxMode(want) /\ nn'.mem = nn.mem
        /\ bar'.ctrl = WithRxMode(want) /\ bar'.rings = bar.rings
    BY <1>1, <1>3, <2>3 DEF OpenUp, SetCtrl, Types
  <2>5. Agreed'
    BY <2>1, <2>4 DEF Agreed, Wanted, WithRxMode
  <2>6. Noted' /\ SetAside'
    BY <2>1 DEF Noted, SetAside, Waiting, Idle
  <2>7. Serving'
    <3>1. reads' \subseteq reads \cup {Apply(bar')}
      BY <1>3, SeenIs DEF OpenUp, SetCtrl
    <3>2. "ENABLE" \in bar'.ctrl /\ "ENABLE" \in nn'.ctrl
      BY <2>3, <2>4 DEF Serving, WithRxMode
    <3>3. Apply(bar') = nn.mem
      BY <2>3, <2>4, <3>2, ApplyIs DEF Serving
    <3> QED BY <2>1, <2>3, <2>4, <3>1, <3>2, <3>3 DEF Serving
  <2>8. InUse'
    BY <2>1, <2>7 DEF InUse, Idle
  <2> QED BY <2>5, <2>6, <2>8 DEF Copies
<1>4. CASE Close
  <2>1. /\ rt'.op = "close" /\ rt'.pc = "disable" /\ rt.op = "none"
        /\ UNCHANGED <<nn, want, overlapped>>
    BY <1>4 DEF Close, sides, Idle
  <2>2. Agreed'
    BY <2>1 DEF Copies, Agreed, Equal, Before, Wanted, Taking
  <2>3. Noted' /\ SetAside' /\ InUse'
    BY <2>1 DEF Noted, SetAside, Waiting, InUse, Served, Taking
  <2> QED BY <2>2, <2>3 DEF Copies
<1>5. CASE CloseFreeAll
  <2>1. /\ rt.pc = "free" /\ rt' = Idle /\ ~nn'.up /\ nn'.ctrl = nn.ctrl
        /\ bar'.ctrl = bar.ctrl /\ UNCHANGED overlapped
    BY <1>1, <1>5, FinishIs DEF CloseFreeAll, At, Undo, Types
  <2>2. ~overlapped => bar.ctrl = nn.ctrl
    BY <2>1 DEF Copies, Agreed, Alone, Equal
  <2>3. Agreed'
    BY <2>1, <2>2 DEF Agreed, Alone, Idle
  <2>4. Noted' /\ SetAside' /\ InUse'
    BY <2>1 DEF Noted, SetAside, Waiting, InUse, Served, Taking, Idle
  <2> QED BY <2>3, <2>4 DEF Copies
<1> QED BY <1>2, <1>3, <1>4, <1>5

LEMMA CopiesChange ==
  ASSUME Stages, Types', Copies,
         \/ \E c \in Configs : Reconfigure(c)
         \/ ReconfigStop
         \/ \E ok \in BOOLEAN : \/ ReconfigVector(ok) \/ ReconfigRx(ok) \/ ReconfigTx(ok)
                                \/ ReconfigSwap(ok)
  PROVE  Copies'
<1>1. Types
  BY DEF Stages
<1>2. ASSUME NEW c \in Configs, Reconfigure(c) PROVE Copies'
  <2>1. /\ rt.op = "none" /\ rt.pc = "idle"
        /\ UNCHANGED <<want, bar, dialogue, unconfirmed, overlapped, featfail, dead>>
        /\ nn'.ctrl = nn.ctrl /\ nn'.up = nn.up /\ nn'.mem = nn.mem
    BY <1>1, <1>2 DEF Reconfigure, sides, Stages, Idle, Types
  <2>2. \/ /\ nn.up /\ dp'.ctrl = nn.ctrl /\ rt'.op = "reconfig" /\ rt'.pc = "more_vectors"
           /\ ~rt'.again
        \/ ~nn.up /\ rt' = rt
    <3>1. CASE nn.up
      <4>1. /\ dp' = Clone(c)
            /\ rt' = [Idle EXCEPT !.op = "reconfig", !.pc = "more_vectors", !.r = nn.cfg]
        BY <1>2, <3>1 DEF Reconfigure
      <4>2. rt'.op = "reconfig" /\ rt'.pc = "more_vectors" /\ ~rt'.again
        BY <4>1 DEF Idle
      <4> QED BY <3>1, <4>1, <4>2 DEF Clone
    <3>2. CASE ~nn.up
      BY <1>2, <3>2 DEF Reconfigure
    <3> QED BY <3>1, <3>2
  <2>3. Agreed'
    BY <2>1, <2>2 DEF Copies, Agreed, Alone, Equal, Before, Wanted
  <2>4. Noted'
    BY <2>1, <2>2 DEF Noted, Waiting
  <2>5. SetAside'
    BY <2>1, <2>2 DEF SetAside, Taking
  <2>6. InUse'
    BY <2>1, <2>2 DEF Copies, InUse, Served, Serving, Alone, Taking, dialogue
  <2> QED BY <2>3, <2>4, <2>5, <2>6 DEF Copies
<1>3. CASE ReconfigStop
  <2>1. rt.pc = "stop" /\ Call("disable", "swap") /\ UNCHANGED <<nn, dp, want, overlapped>>
    BY <1>3 DEF ReconfigStop, At, sides
  <2>2. rt.op = "reconfig" /\ rt.stack = << >>
    BY <2>1, Which DEF Replacing, Telling
  <2>3. /\ rt'.op = "reconfig" /\ rt'.pc = "disable" /\ rt'.stack = <<"swap">>
        /\ rt'.again = rt.again
    BY <1>1, <2>1, <2>2, CallIs DEF Places, Stacks
  <2>4. Agreed'
    BY <2>1, <2>3 DEF Copies, Agreed, Equal, Before, Wanted, Taking
  <2>5. SetAside'
    BY <2>1, <2>2, <2>3 DEF Copies, SetAside
  <2>6. Noted' /\ InUse'
    BY <2>3 DEF Noted, Waiting, InUse, Served, Taking
  <2> QED BY <2>4, <2>5, <2>6 DEF Copies
<1>4. ASSUME NEW ok \in BOOLEAN, ReconfigVector(ok) \/ ReconfigRx(ok) \/ ReconfigTx(ok)
      PROVE  Copies'
  <2>1. rt.pc \in Taking 
        /\ UNCHANGED <<nn, want, bar, dialogue, unconfirmed, overlapped, featfail, dead>>
    BY <1>4 DEF ReconfigVector, ReconfigRx, ReconfigTx, At, sides, Taking
  <2>2. rt.op = "reconfig" /\ nn.up
    BY <2>1, Which DEF Replacing, Taking
  <2>3. \/ rt'.pc \in Taking /\ dp' = dp /\ rt'.op = rt.op /\ rt'.again = rt.again
        \/ rt' = Idle
    <3>1. CASE ReconfigVector(ok)
      BY <1>1, <2>1, <3>1, FinishIs DEF ReconfigVector, GiveUp, Types, RtType
    <3>2. CASE ReconfigRx(ok)
      BY <1>1, <3>2, FinishIs, GoToIs DEF ReconfigRx, GiveUp, Places, Taking
    <3>3. CASE ReconfigTx(ok)
      BY <1>1, <3>3, FinishIs, GoToIs DEF ReconfigTx, GiveUp, Places, Taking
    <3> QED BY <1>4, <3>1, <3>2, <3>3
  <2> QED BY <2>1, <2>2, <2>3, CopiesTaking
<1>5. ASSUME NEW ok \in BOOLEAN, ReconfigSwap(ok) PROVE Copies'
  <2>1. /\ rt.pc = "swap" /\ UNCHANGED <<want, bar, featfail, dead>>
        /\ nn'.ctrl = dp.ctrl /\ dp'.ctrl = nn.ctrl /\ nn'.up = nn.up
        /\ overlapped' = (overlapped \/ ~SameMode(nn.ctrl, dp.ctrl))
    BY <1>5 DEF ReconfigSwap, At, DpSwap, sides
  <2>2. rt.op = "reconfig" /\ rt.stack = << >>
    BY <2>1, Which DEF Replacing, Telling
  <2>3. /\ rt'.op = "reconfig" /\ rt'.again = rt.again
        /\ rt'.pc = "enable" \/ (rt'.pc = "enabled" /\ rt'.err)
        /\ rt'.stack # <<"swap">>
    <3>1. CASE Call("enable", "enabled")
      BY <1>1, <2>2, <3>1, CallIs DEF Places, Stacks
    <3>2. CASE rt' = [rt EXCEPT !.pc = "enabled", !.err = TRUE]
      <4>1. rt'.op = rt.op /\ rt'.again = rt.again /\ rt'.stack = rt.stack
        BY <1>1, <3>2 DEF Types, RtType
      <4>2. rt'.pc = "enabled" /\ rt'.err
        BY <1>1, <3>2 DEF Types, RtType
      <4> QED BY <2>2, <4>1, <4>2, StackFacts
    <3> QED BY <1>5, <3>1, <3>2 DEF ReconfigSwap
  <2>4. "ENABLE" \notin nn.ctrl /\ (rt.again => "ENABLE" \notin dp.ctrl)
    BY <2>1, <2>2 DEF Copies, SetAside
  <2>5. ~overlapped => bar.ctrl = nn.ctrl /\ Moded(dp.ctrl) = Moded(nn.ctrl)
    BY <2>1, <2>2 DEF Copies, Agreed, Alone, Equal, SetAside
  <2>6. ~overlapped' => ~overlapped /\ Off(dp.ctrl) = Off(nn.ctrl) /\ (Wanted => Wanted')
    BY <2>1, <2>5 DEF Wanted, Off, Moded, SameMode
  <2>7. ~overlapped' /\ rt.again => nn'.ctrl = nn.ctrl
    BY <2>1, <2>4, <2>6 DEF Off
  <2>8. Alone' <=> ~overlapped'
    BY <2>1, <2>3 DEF Alone
  <2>9. Equal' => rt.again
    BY <2>3 DEF Equal
  <2>10. Agreed'
    BY <2>1, <2>3, <2>5, <2>6, <2>7, <2>8, <2>9 DEF Copies, Agreed, Before, Taking
  <2>11. SetAside'
    BY <2>1, <2>3, <2>4, <2>5, <2>6 DEF SetAside
  <2>12. Noted' /\ InUse'
    BY <2>3 DEF Noted, Waiting, InUse, Served, Taking
  <2> QED BY <2>10, <2>11, <2>12 DEF Copies
<1> QED BY <1>2, <1>3, <1>4, <1>5


(* The old rings are tried again, or the new ones are kept. *)
LEMMA CopiesEnabled ==
  ASSUME Stages, Types', Copies, ReconfigEnabled
  PROVE  Copies'
<1>1. /\ rt.pc = "enabled" /\ rt.op = "reconfig"
      /\ UNCHANGED <<nn, want, bar, dialogue, unconfirmed, overlapped, featfail>>
  BY DEF ReconfigEnabled, At, sides
<1>2. Types /\ rt.stack = << >> /\ nn.up
  BY <1>1 DEF Stages, Replacing, Telling
<1>3. (Alone <=> ~overlapped) /\ "ENABLE" \notin dp.ctrl
  BY <1>1, <1>2, StackFacts DEF Copies, SetAside, Alone, Taking
<1>4. CASE Restore
  <2>1. /\ rt' = [rt EXCEPT !.pc = "disable", !.stack = <<"swap">>, !.again = TRUE,
                            !.err = FALSE]
        /\ dp' = dp
    BY <1>4 DEF ReconfigEnabled
  <2>2. rt'.pc = "disable" /\ rt'.op = "reconfig"
    BY <1>1, <1>2, <2>1 DEF Types, RtType
  <2>3. Agreed'
    BY <1>1, <2>2 DEF Copies, Agreed, Equal, Before, Wanted, Taking
  <2>4. SetAside'
    BY <1>1, <1>3, <2>1, <2>2 DEF Copies, SetAside
  <2>5. Noted' /\ InUse'
    BY <2>2 DEF Noted, Waiting, InUse, Served, Taking
  <2> QED BY <2>3, <2>4, <2>5 DEF Copies
<1>5. CASE ~Restore
  <2>1. rt' = Idle /\ dead' = (dead \/ (rt.again /\ rt.err))
    BY <1>5, FinishIs DEF ReconfigEnabled
  <2>2. rt.again \/ ~rt.err
    BY <1>5 DEF Restore
  <2>3. ~overlapped => bar.ctrl = nn.ctrl
    BY <1>1, <1>3, <2>2 DEF Copies, Agreed, Equal
  <2>4. Agreed'
    BY <1>1, <2>1, <2>3 DEF Copies, Agreed, Wanted, Alone, Idle
  <2>5. Noted' /\ SetAside'
    BY <2>1 DEF Noted, SetAside, Waiting, Idle
  <2>6. ~dead' => ~rt.err
    BY <2>1, <2>2
  <2>7. ~rt.err /\ ~overlapped => Serving
    BY <1>1, <1>3 DEF Copies, InUse, Served
  <2>8. Served' => ~dead'
    BY <2>1 DEF Served, Taking, Idle
  <2>9. Alone' => ~overlapped
    BY <1>1, <2>1 DEF Alone, Idle
  <2>10. InUse'
    BY <1>1, <2>1, <2>6, <2>7, <2>8, <2>9 DEF InUse, Serving, Idle, dialogue
  <2> QED BY <2>4, <2>5, <2>10 DEF Copies
<1> QED BY <1>4, <1>5

LEMMA CopiesFeatures ==
  ASSUME Stages, Types', Copies, SetFeatures \/ \E ok \in BOOLEAN : SetFeaturesWait(ok)
  PROVE  Copies'
<1>1. Types
  BY DEF Stages
<1>2. CASE SetFeatures
  <2>1. /\ rt.op = "none" /\ rt'.op = "features" /\ rt'.pc = "features_wait"
        /\ rt'.ctrl = Toggled("RXCSUM") /\ bar'.ctrl = Toggled("RXCSUM")
        /\ bar'.rings = bar.rings
        /\ UNCHANGED <<nn, want, unconfirmed, overlapped, featfail, dead>>
    BY <1>1, <1>2 DEF SetFeatures, hist, Idle, Types
  <2>2. /\ Toggled("RXCSUM") \ {"RXCSUM"} = nn.ctrl \ {"RXCSUM"}
        /\ "ENABLE" \in Toggled("RXCSUM") <=> "ENABLE" \in nn.ctrl
    BY DEF Toggled
  <2>3. Agreed'
    BY <2>1 DEF Copies, Agreed, Equal, Before, Wanted, Taking
  <2>4. Noted' /\ SetAside'
    BY <2>1, <2>2 DEF Noted, SetAside
  <2>5. Served' => Served
    BY <2>1 DEF Served, Taking
  <2>6. Alone' => Alone
    BY <2>1 DEF Alone
  <2>7. Serving => Serving'
    <3>1. uses' = uses /\ reads' \subseteq reads \cup {Apply(bar')}
      BY <1>2, EnterIs DEF SetFeatures
    <3>2. Serving => Apply(bar') = nn.mem
      BY <2>1, <2>2, ApplyIs DEF Serving
    <3> QED BY <2>1, <2>2, <3>1, <3>2 DEF Serving
  <2>8. InUse'
    BY <2>1, <2>5, <2>6, <2>7 DEF Copies, InUse
  <2> QED BY <2>3, <2>4, <2>8 DEF Copies
<1>3. ASSUME NEW ok \in BOOLEAN, SetFeaturesWait(ok) PROVE Copies'
  <2>1. /\ rt.pc = "features_wait" /\ rt' = Idle /\ OwnEnds(ok)
        /\ UNCHANGED <<want, bar, unconfirmed, overlapped, dead>>
    BY <1>3, FinishIs DEF SetFeaturesWait, At
  <2>2. rt.op = "features"
    BY <2>1, Which
  <2>3. /\ nn'.up = nn.up /\ nn'.mem = nn.mem
        /\ \/ ok /\ nn'.ctrl = rt.ctrl
           \/ ~ok /\ nn'.ctrl = nn.ctrl /\ featfail'
    BY <1>1, <1>3 DEF SetFeaturesWait, Types
  <2>4. ~overlapped =>
          bar.ctrl = rt.ctrl /\ rt.ctrl \ {"RXCSUM"} = nn.ctrl \ {"RXCSUM"}
    BY <2>1 DEF Copies, Noted, Alone, Waiting
  <2>5. ~overlapped => (Wanted => Wanted') /\ ("ENABLE" \in nn.ctrl => "ENABLE" \in nn'.ctrl)
    BY <2>1, <2>3, <2>4 DEF Wanted
  <2>6. (Alone <=> ~overlapped) /\ (Alone' <=> ~overlapped)
    BY <2>1, <2>2 DEF Alone, Idle
  <2>7. Agreed'
    BY <2>1, <2>3, <2>4, <2>5, <2>6 DEF Copies, Agreed, Equal, Idle
  <2>8. Noted' /\ SetAside'
    BY <2>1 DEF Noted, SetAside, Waiting, Idle
  <2>9. Served' => Served
    BY <2>1, <2>2, <2>3 DEF Served, Taking, Idle
  <2>10. Serving /\ ~overlapped => Serving'
    BY <2>1, <2>3, <2>5, OwnEndsIs DEF Serving
  <2>11. InUse'
    BY <2>1, <2>6, <2>9, <2>10 DEF Copies, InUse, Idle
  <2> QED BY <2>7, <2>8, <2>11 DEF Copies
<1> QED BY <1>2, <1>3

LEMMA CopiesStep ==
  ASSUME Stages, Stages', Use, Copies, [Next]_vars
  PROVE  Copies'
<1>1. Types /\ Types'
  BY DEF Stages
<1>2. CASE LinkChanges \/ IrqLsc \/ IrqLscReads \/ IrqLscUnmasks \/ UNCHANGED vars
  BY <1>2, CopiesSame DEF LinkChanges, IrqLsc, IrqLscReads, IrqLscUnmasks, sides, hist, vars
<1>3. CASE Dialogue
  BY <1>3, CopiesDialogue
<1>4. CASE \/ Open \/ OpenLscOff
           \/ \E ok \in BOOLEAN : OpenExn(ok) \/ OpenLsc(ok) \/ OpenVector(ok)
                                  \/ OpenRx(ok) \/ OpenTx(ok) \/ OpenQueues(ok)
  <2>1. UNCHANGED <<nn, want, overlapped, featfail>> /\ bar'.ctrl = bar.ctrl
    BY <1>1, <1>4 DEF Open, OpenLscOff, OpenExn, OpenLsc, OpenVector, OpenRx, OpenTx,
       OpenQueues, Undo, sides, hist, Types
  <2>2. ~nn.up /\ rt.pc \in {"idle", "exn", "lsc", "lsc_off", "vectors", "tx", "queues"}
        /\ rt.op \in {"none", "open"}
    <3>1. CASE Open
      BY <3>1 DEF Open, Stages, Idle
    <3>2. CASE ~Open
      <4>1. rt.pc \in {"exn", "lsc", "lsc_off", "vectors", "tx", "queues"}
        BY <1>4, <3>2 DEF OpenLscOff, OpenExn, OpenLsc, OpenVector, OpenRx, OpenTx,
           OpenQueues, At
      <4> QED BY <4>1, Which DEF Opening
    <3> QED BY <3>1, <3>2
  <2>3. rt'.op # "reconfig" /\
        rt'.pc \in {"idle", "exn", "lsc", "lsc_off", "vectors", "tx", "queues", "enable"}
    <3>1. CASE Open
      BY <3>1 DEF Open, Idle
    <3>2. CASE \E p \in {"lsc", "lsc_off", "vectors", "tx", "queues"} : GoTo(p)
      BY <1>1, <2>2, <3>2, GoToIs DEF Places
    <3>3. CASE Finish
      BY <3>3, FinishIs
    <3>4. CASE rt' = [rt EXCEPT !.r = @ + 1]
      BY <1>1, <2>2, <3>4 DEF Types, RtType
    <3>5. CASE At("queues") /\ Call("enable", "enabled")
      <4>1. rt.stack = << >>
        BY <3>5, Which DEF At, Opening, Telling
      <4> QED BY <1>1, <2>2, <3>5, <4>1, CallIs DEF Places, Stacks
    <3> QED BY <1>4, <3>1, <3>2, <3>3, <3>4, <3>5
        DEF OpenLscOff, OpenExn, OpenLsc, OpenVector, OpenRx, OpenTx, OpenQueues, Undo
  <2> QED BY <2>1, <2>2, <2>3, CopiesOpening DEF Before
<1>5. ASSUME NEW w \in BOOLEAN, nfp_net_set_rx_mode(w) PROVE Copies'
  BY <1>1, <1>5, CopiesRxMode
<1> QED
  BY <1>1, <1>2, <1>3, <1>4, <1>5, CopiesDisable, CopiesEnable, CopiesUpDown, CopiesChange,
     CopiesEnabled, CopiesFeatures
  DEF Next, Rtnl, Dialogue

LEMMA CopiesInit ==
  Init => Copies
<1> SUFFICES ASSUME Init PROVE Copies
  OBVIOUS
<1>1. ~nn.up /\ nn.ctrl = {} /\ rt = Idle /\ bar.ctrl = {}
  BY DEF Init
<1>2. Agreed
  BY <1>1 DEF Agreed
<1>3. Noted /\ SetAside
  BY <1>1 DEF Noted, SetAside, Waiting, Idle
<1>4. InUse
  BY <1>1 DEF InUse, Served, Taking, Idle
<1> QED BY <1>2, <1>3, <1>4 DEF Copies

(* Between operations the two copies of the control word agree, and they   *)
(* know of the receive mode, unless that was changed while an operation    *)
(* had a control word to note, or a copy of one to put in place, or a      *)
(* change of features failed.                                              *)
THEOREM CopiesAgree ==
  Spec => []CtrlAgrees
<1>1. Stages /\ Copies => CtrlAgrees
  BY DEF Stages, Idle, Copies, Agreed, Alone, Before, Wanted, CtrlAgrees, Between
<1>2. Stages /\ [Next]_vars => Stages'
  BY StagesStep
<1>3. Stages /\ Stages' /\ Use /\ [Next]_vars => Use'
  BY UseStep
<1>4. Stages /\ Stages' /\ Use /\ Copies /\ [Next]_vars => Copies'
  BY CopiesStep
<1> QED BY <1>1, <1>2, <1>3, <1>4, StagesInit, UseInit, CopiesInit, PTL DEF Spec

(* Vectors in use point to the rings of the configuration, and between     *)
(* operations those are the ones the device serves, unless restoring them  *)
(* was refused as well, or the 0 that enabled them may have been the       *)
(* answer to an earlier update.                                            *)
THEOREM ItsRingsAreServed ==
  Spec => []DeviceServes
<1>1. Stages /\ Copies => DeviceServes
  <2> SUFFICES ASSUME Stages, Copies PROVE DeviceServes
    OBVIOUS
  <2>1. running # {} => assigned = nn.mem
    BY RunningHeld
  <2>2. Between /\ nn.up /\ ~dead /\ ~overlapped /\ ~unconfirmed => uses = nn.mem
    BY DEF Between, Copies, InUse, Served, Serving, Alone
  <2> QED BY <2>1, <2>2 DEF DeviceServes
<1>2. Stages /\ [Next]_vars => Stages'
  BY StagesStep
<1>3. Stages /\ Stages' /\ Use /\ [Next]_vars => Use'
  BY UseStep
<1>4. Stages /\ Stages' /\ Use /\ Copies /\ [Next]_vars => Copies'
  BY CopiesStep
<1> QED BY <1>1, <1>2, <1>3, <1>4, StagesInit, UseInit, CopiesInit, PTL DEF Spec

=============================================================================
