------------------------------- MODULE NetDev -------------------------------
(***************************************************************************)
(* Opening, closing and reconfiguring a device (nfp_net_common.c):         *)
(* the staged acquisition of interrupts, vectors and rings and its undoing *)
(* when a stage fails, the dialogue with the firmware by which the device  *)
(* is told of the rings, the control word, which the driver keeps twice,   *)
(* and the link status interrupt.                                          *)
(*                                                                         *)
(* Operations under RTNL come one at a time and sleep; set_rx_mode() may   *)
(* come in the middle of them, under the address lock only.  Updates of    *)
(* the firmware are those of Reconfig, of which this module keeps what     *)
(* they may make the device do, and when a 0 does not mean that they were  *)
(* carried out.  A configuration (MTU, ring sizes, XDP program) stands for *)
(* the number of vectors it needs; a set of rings, for both kinds of ring  *)
(* of it.                                                                  *)
(***************************************************************************)
EXTENDS Integers, Sequences

CONSTANTS
  Configs      \* numbers of vectors

ASSUME ConfigsAssumption == Configs \subseteq Nat \ {0} /\ Configs # {}

VARIABLES
  nn,          \* nn->dp: config, ring memory, ctrl; up is IFF_UP
  dp,          \* the dp of nfp_net_ring_reconfig()
  want,        \* promiscuous mode, as the stack last wanted it
  held,        \* interrupts, vectors and rings
  running,     \* vectors with NAPI and interrupt enabled
  assigned,    \* the rings the vectors point to
  bar,         \* control BAR: CTRL, the rings that are enabled, LSC
  uses,        \* the rings the device uses
  posted,      \* reconfig_posted: an update waits to be started
  pre,         \* pre_posted_requests of the synchronous caller
  under,       \* a posted update is under way
  own,         \* the synchronous caller's update is under way
  reads,       \* the rings that updates not finished may make the device use
  over,        \* the update under way was started over one not finished
  link,        \* the link and its interrupt
  rt,          \* the operation under RTNL
  misused, unconfirmed, overlapped, featfail, dead   \* history

(* History.  misused: a resource was taken twice or released without being *)
(* held.  unconfirmed: the last enabling or disabling of the device was    *)
(* not carried out for certain: disabling failed, or was told 0 although   *)
(* started over an update the firmware had not finished, whose answer that *)
(* may have been.  overlapped: a receive mode that set_rx_mode() had set   *)
(* was overwritten by an operation, or overwrote the control word of one.  *)
(* featfail: a change of features failed.  dead: the old rings could not   *)
(* be restored.                                                            *)

hist     == <<misused, unconfirmed, overlapped, featfail, dead>>
dialogue == <<uses, posted, pre, under, own, reads, over>>
sides    == <<want, bar, dialogue>>
vars  == <<nn, dp, sides, held, running, assigned, link, rt, hist>>

Vec(from, to) == {<<"vec", r>> : r \in from .. to - 1}
Rings(m) == {<<"rx", m>>, <<"tx", m>>}
Exn == <<"exn", 0>>
Lsc == <<"lsc", 0>>

NoDp == [cfg |-> 0, mem |-> 0, ctrl |-> {}]
Idle == [op |-> "none", pc |-> "idle", stack |-> <<>>, err |-> FALSE,
         ctrl |-> {}, r |-> 0, again |-> FALSE]

Init ==
  /\ \E c \in Configs : nn = [cfg |-> c, mem |-> 1, ctrl |-> {}, up |-> FALSE]
  /\ dp = NoDp /\ want = FALSE
  /\ held = {} /\ running = {} /\ assigned = 0
  /\ bar = [ctrl |-> {}, rings |-> 0, lsc |-> FALSE]
  /\ uses = 0
  /\ posted = FALSE /\ pre = FALSE /\ under = FALSE /\ own = FALSE
  /\ reads = {} /\ over = FALSE
  /\ link = [sts |-> FALSE, up |-> FALSE, disabled |-> FALSE,
             pending |-> FALSE, pc |-> "idle"]
  /\ rt = Idle
  /\ misused = FALSE /\ unconfirmed = FALSE /\ overlapped = FALSE
  /\ featfail = FALSE /\ dead = FALSE

----------------------------------------------------------------------------
(* The place in the operation, with calls and returns.                     *)

At(p)          == rt.pc = p
GoTo(p)        == rt' = [rt EXCEPT !.pc = p]
Call(p, back)  == rt' = [rt EXCEPT !.pc = p, !.stack = <<back>> \o @]
Return(failed) == rt' = [rt EXCEPT !.pc = Head(rt.stack), !.stack = Tail(@),
                                   !.err = failed]
Finish         == rt' = Idle /\ dp' = NoDp

Takes(taken, released) ==
  /\ held' = (held \cup taken) \ released
  /\ misused' = (misused \/ taken \cap held # {} \/ ~(released \subseteq held \cup taken))

(* An operator marked "Slip" is not part of the model: it is a plausible   *)
(* mistake in the definition that follows it.                              *)

(* Between writing the control word and noting that in nn.                 *)
Waiting == rt.pc \in {"disable_wait", "enable_wait", "features_wait"}

----------------------------------------------------------------------------
(* Updates of the firmware.  It reads the control BAR at any time between  *)
(* the start of an update and its end, and makes the device use what it    *)
(* has read.  Without an ENABLE bit that is no ring.                       *)

Apply(b) == IF "ENABLE" \in b.ctrl THEN b.rings ELSE 0

(* A write to the BAR may be read by the updates that are not finished.    *)
Seen(b) == IF reads = {} THEN {} ELSE reads \cup {Apply(b)}

nfp_net_reconfig_start ==
  /\ reads' = reads \cup {Apply(bar)}
  /\ over' = (reads # {})

(* The wait for an update ends.  A 0 means that it was carried out, unless *)
(* it was started over another one: then either of them, or both, may be   *)
(* unfinished still.  A failure is an error, after which the update may or *)
(* may not have had its effect, or a deadline that was missed.             *)
Answered(ok) ==
  /\ \/ /\ ok /\ ~over
        /\ uses' \in reads /\ reads' = {}
     \/ /\ ~ok \/ over
        /\ uses' \in reads \cup {uses} /\ reads' \in {reads, {}}
  /\ over' = FALSE

(* What is posted, at once or when the machinery is idle again.            *)
PostedStarts ==
  /\ posted /\ ~under /\ ~Waiting
  /\ nfp_net_reconfig_start
  /\ posted' = FALSE /\ under' = TRUE
  /\ UNCHANGED <<nn, dp, want, held, running, assigned, bar, uses, pre, own, link, rt, hist>>

(* The timer, or a caller that took over from it, waited for it.           *)
PostedEnds ==
  /\ under
  /\ \E ok \in BOOLEAN : Answered(ok)
  /\ under' = FALSE
  /\ UNCHANGED <<nn, dp, want, held, running, assigned, bar, posted, pre, own, link, rt, hist>>

(* A synchronous caller enters, its changes already in the BAR b.  It runs *)
(* what was posted before, waits, and then starts its own update.          *)
nfp_net_reconfig_sync_enter(b) ==
  /\ pre' = posted /\ posted' = FALSE
  /\ reads' = Seen(b)
  /\ UNCHANGED <<uses, under, own, over>>

PreStarts ==
  /\ pre /\ ~under
  /\ nfp_net_reconfig_start
  /\ pre' = FALSE /\ under' = TRUE
  /\ UNCHANGED <<nn, dp, want, held, running, assigned, bar, uses, posted, own, link, rt, hist>>

OwnStarts ==
  /\ Waiting /\ ~own /\ ~pre /\ ~under
  /\ nfp_net_reconfig_start
  /\ own' = TRUE
  /\ UNCHANGED <<nn, dp, want, held, running, assigned, bar, uses, posted, pre,
                 under, link, rt, hist>>

OwnEnds(ok) ==
  /\ own
  /\ Answered(ok)
  /\ own' = FALSE
  /\ UNCHANGED <<posted, pre, under>>

(* The firmware acts before it answers, or after the deadline.             *)
FwActs ==
  /\ uses' \in reads
  /\ UNCHANGED <<nn, dp, want, held, running, assigned, bar, posted, pre, under,
                 own, reads, over, link, rt, hist>>

FwEndsLate ==
  /\ reads # {} /\ ~under /\ ~own
  /\ reads' = {}
  /\ UNCHANGED <<nn, dp, want, held, running, assigned, bar, uses, posted, pre,
                 under, own, over, link, rt, hist>>

----------------------------------------------------------------------------
(* nfp_net_set_rx_mode().  While the interface is down it is not called.   *)

WithRxMode(w) ==
  IF w THEN nn.ctrl \cup {"PROMISC"} ELSE nn.ctrl \ {"PROMISC"}

SetCtrl(c) ==
  /\ bar' = [bar EXCEPT !.ctrl = c]
  /\ posted' = TRUE
  /\ reads' = Seen([bar EXCEPT !.ctrl = c])

nfp_net_set_rx_mode(w) ==
  /\ w # want
  /\ want' = w
  /\ \/ /\ nn.up /\ WithRxMode(w) # nn.ctrl
        /\ SetCtrl(WithRxMode(w))
        /\ nn' = [nn EXCEPT !.ctrl = WithRxMode(w)]
        /\ overlapped' = (overlapped \/ Waiting)
     \/ /\ ~(nn.up /\ WithRxMode(w) # nn.ctrl)
        /\ UNCHANGED <<bar, posted, reads, nn, overlapped>>
  /\ UNCHANGED <<dp, held, running, assigned, uses, pre, under, own, over, link,
                 rt, misused, unconfirmed, featfail, dead>>

----------------------------------------------------------------------------
(* The link status interrupt.  The device masks it until it is unmasked:   *)
(* one that comes in between stays pending, as does one that comes while   *)
(* the interrupt is disabled.                                              *)

LinkChanges ==
  /\ link' = [link EXCEPT !.sts = ~@, !.pending = @ \/ bar.lsc]
  /\ UNCHANGED <<nn, dp, sides, held, running, assigned, rt, hist>>

(* nfp_net_irq_lsc() begins ...                                            *)
IrqLsc ==
  /\ Lsc \in held /\ ~link.disabled /\ link.pc = "idle"
  /\ link.pending
  /\ link' = [link EXCEPT !.pending = FALSE, !.pc = "read"]
  /\ UNCHANGED <<nn, dp, sides, held, running, assigned, rt, hist>>

(* nfp_net_read_link_status().                                             *)
Status(l) == [l EXCEPT !.up = l.sts]

IrqLscReads ==
  /\ link.pc = "read"
  /\ link' = [Status(link) EXCEPT !.pc = "unmask"]
  /\ UNCHANGED <<nn, dp, sides, held, running, assigned, rt, hist>>

IrqLscUnmasks ==
  /\ link.pc = "unmask"
  /\ link' = [link EXCEPT !.pc = "idle"]
  /\ UNCHANGED <<nn, dp, sides, held, running, assigned, rt, hist>>

(* disable_irq() and free_irq() wait for the handler.                      *)
HandlerDone == link.pc = "idle"

LscFreed(l) == [l EXCEPT !.pending = FALSE, !.disabled = FALSE]

----------------------------------------------------------------------------
(* nfp_net_clear_config_and_disable(), before and after the wait.          *)

(* Slip: the masks of enabled rings are left.                              *)
RingsLeft == bar.rings

RingsDisabled == 0

DisableWrite ==
  /\ At("disable")
  /\ bar' = [bar EXCEPT !.ctrl = nn.ctrl \ {"ENABLE"}, !.rings = RingsDisabled]
  /\ nfp_net_reconfig_sync_enter(bar')
  /\ rt' = [rt EXCEPT !.pc = "disable_wait", !.ctrl = nn.ctrl \ {"ENABLE"}]
  /\ UNCHANGED <<nn, dp, want, held, running, assigned, link, hist>>

(* An error is only reported.                                              *)
DisableWait(ok) ==
  /\ At("disable_wait")
  /\ OwnEnds(ok)
  /\ unconfirmed' = (~ok \/ over)
  /\ nn' = [nn EXCEPT !.ctrl = rt.ctrl]
  /\ bar' = [bar EXCEPT !.rings = RingsDisabled]
  /\ Return(rt.err)
  /\ UNCHANGED <<dp, want, held, running, assigned, link, misused, overlapped,
                 featfail, dead>>

(* nfp_net_set_config_and_enable(), before and after the wait.             *)
EnableWrite ==
  /\ At("enable")
  /\ bar' = [bar EXCEPT !.ctrl = nn.ctrl \cup {"ENABLE"}, !.rings = nn.mem]
  /\ nfp_net_reconfig_sync_enter(bar')
  /\ rt' = [rt EXCEPT !.pc = "enable_wait", !.ctrl = nn.ctrl \cup {"ENABLE"}]
  /\ UNCHANGED <<nn, dp, want, held, running, assigned, link, hist>>

(* Slip: the driver's copy is not updated.                                 *)
CtrlForgotten == nn.ctrl

CtrlEnabled == rt.ctrl

EnableWait(ok) ==
  /\ At("enable_wait")
  /\ OwnEnds(ok)
  /\ \/ /\ ok
        /\ nn' = [nn EXCEPT !.ctrl = CtrlEnabled]
        /\ unconfirmed' = over /\ dead' = FALSE
        /\ Return(FALSE)
     \/ /\ ~ok
        /\ rt' = [rt EXCEPT !.pc = "disable", !.err = TRUE]
        /\ UNCHANGED <<nn, unconfirmed, dead>>
  /\ UNCHANGED <<dp, want, held, running, assigned, bar, link, misused,
                 overlapped, featfail>>

----------------------------------------------------------------------------
(* The stack's side: nfp_net_close_stack() and nfp_net_open_stack().       *)

Own == Vec(0, nn.cfg)

CloseStack ==
  /\ running' = running \ Own
  /\ misused' = (misused \/ ~(Own \subseteq running))
  /\ link' = [link EXCEPT !.disabled = TRUE, !.up = FALSE]

(* Slip: the status is left to the interrupt.                              *)
StatusLater(l) == l

StatusAtOpen(l) == Status(l)

OpenStack ==
  /\ running' = running \cup Own
  /\ link' = StatusAtOpen([link EXCEPT !.disabled = FALSE])

----------------------------------------------------------------------------
(* nfp_net_netdev_open() with nfp_net_open_alloc_all().                    *)

Open ==
  /\ rt.op = "none" /\ ~nn.up
  /\ rt' = [Idle EXCEPT !.op = "open", !.pc = "exn"]
  /\ UNCHANGED <<nn, dp, sides, held, running, assigned, link, hist>>

OpenExn(ok) ==
  /\ At("exn")
  /\ \/ ok  /\ Takes({Exn}, {}) /\ GoTo("lsc") /\ UNCHANGED dp
     \/ ~ok /\ Finish /\ UNCHANGED <<held, misused>>
  /\ UNCHANGED <<nn, sides, running, assigned, link, unconfirmed,
                 overlapped, featfail, dead>>

OpenLsc(ok) ==
  /\ At("lsc")
  /\ \/ /\ ok
        /\ Takes({Lsc}, {})
        /\ bar' = [bar EXCEPT !.lsc = TRUE]
        /\ GoTo("lsc_off")
        /\ UNCHANGED <<link, dp>>
     \/ /\ ~ok
        /\ Takes({}, {Exn})
        /\ Finish
        /\ UNCHANGED <<bar, link>>
  /\ UNCHANGED <<nn, want, dialogue, running, assigned, unconfirmed,
                 overlapped, featfail, dead>>

OpenLscOff ==
  /\ At("lsc_off")
  /\ HandlerDone
  /\ link' = [link EXCEPT !.disabled = TRUE]
  /\ GoTo("vectors")
  /\ UNCHANGED <<nn, dp, sides, held, running, assigned, hist>>

(* What is undone when a stage of nfp_net_open_alloc_all() fails after the *)
(* link status interrupt.                                                  *)
Undo(more) ==
  /\ HandlerDone
  /\ Takes({}, {Exn, Lsc} \cup more)
  /\ bar' = [bar EXCEPT !.lsc = FALSE]
  /\ link' = LscFreed(link)
  /\ Finish

OpenVector(ok) ==
  /\ At("vectors") /\ rt.r < nn.cfg
  /\ \/ /\ ok
        /\ Takes({<<"vec", rt.r>>}, {})
        /\ rt' = [rt EXCEPT !.r = @ + 1]
        /\ UNCHANGED <<bar, link, dp>>
     \/ ~ok /\ Undo(Vec(0, rt.r))
  /\ UNCHANGED <<nn, want, dialogue, running, assigned, unconfirmed,
                 overlapped, featfail, dead>>

OpenRx(ok) ==
  /\ At("vectors") /\ rt.r = nn.cfg
  /\ \/ ok  /\ Takes({<<"rx", nn.mem>>}, {}) /\ GoTo("tx") /\ UNCHANGED <<bar, link, dp>>
     \/ ~ok /\ Undo(Own)
  /\ UNCHANGED <<nn, want, dialogue, running, assigned, unconfirmed,
                 overlapped, featfail, dead>>

OpenTx(ok) ==
  /\ At("tx")
  /\ \/ /\ ok
        /\ Takes({<<"tx", nn.mem>>}, {})
        /\ assigned' = nn.mem
        /\ GoTo("queues")
        /\ UNCHANGED <<bar, link, dp>>
     \/ ~ok /\ Undo(Own \cup {<<"rx", nn.mem>>}) /\ UNCHANGED assigned
  /\ UNCHANGED <<nn, want, dialogue, running, unconfirmed,
                 overlapped, featfail, dead>>

(* The queue numbers and the port.                                         *)
OpenQueues(ok) ==
  /\ At("queues")
  /\ \/ ok  /\ Call("enable", "enabled") /\ UNCHANGED <<held, misused, bar, link, dp>>
     \/ ~ok /\ Undo(Own \cup Rings(nn.mem))
  /\ UNCHANGED <<nn, want, dialogue, running, assigned, unconfirmed,
                 overlapped, featfail, dead>>

OpenEnabled ==
  /\ At("enabled") /\ rt.op = "open"
  /\ \/ /\ ~rt.err
        /\ OpenStack
        /\ misused' = (misused \/ Own \cap running # {} \/ ~(Own \subseteq held))
        /\ GoTo("up")
        /\ UNCHANGED <<held, bar, dp>>
     \/ /\ rt.err
        /\ Undo(Own \cup Rings(nn.mem))
        /\ UNCHANGED running
  /\ UNCHANGED <<nn, want, dialogue, assigned, unconfirmed,
                 overlapped, featfail, dead>>

(* The stack sets IFF_UP and has the receive mode set.                     *)
OpenUp ==
  /\ At("up")
  /\ nn' = [nn EXCEPT !.up = TRUE, !.ctrl = WithRxMode(want)]
  /\ IF WithRxMode(want) # nn.ctrl THEN SetCtrl(WithRxMode(want))
                                   ELSE UNCHANGED <<bar, posted, reads>>
  /\ overlapped' = FALSE /\ featfail' = FALSE
  /\ Finish
  /\ UNCHANGED <<want, uses, pre, under, own, over, held, running, assigned,
                 link, misused, unconfirmed, dead>>

----------------------------------------------------------------------------
(* nfp_net_netdev_close().                                                 *)

Close ==
  /\ rt.op = "none" /\ nn.up
  /\ HandlerDone
  /\ CloseStack
  /\ rt' = [Idle EXCEPT !.op = "close", !.pc = "disable", !.stack = <<"free">>]
  /\ UNCHANGED <<nn, dp, sides, held, assigned, unconfirmed, overlapped,
                 featfail, dead>>

(* nfp_net_close_free_all(), after which the stack clears IFF_UP.          *)
CloseFreeAll ==
  /\ At("free")
  /\ Undo(Own \cup Rings(nn.mem))
  /\ nn' = [nn EXCEPT !.up = FALSE]
  /\ UNCHANGED <<want, dialogue, running, assigned, unconfirmed,
                 overlapped, featfail, dead>>

----------------------------------------------------------------------------
(* nfp_net_change_mtu() and nfp_net_xdp_setup_drv(): nfp_net_clone_dp(),   *)
(* then nfp_net_ring_reconfig().                                           *)

(* nfp_net_dp_swap(): everything but IFF_UP changes places.                *)
DpSwap ==
  /\ nn' = [cfg |-> dp.cfg, mem |-> dp.mem, ctrl |-> dp.ctrl, up |-> nn.up]
  /\ dp' = [cfg |-> nn.cfg, mem |-> nn.mem, ctrl |-> nn.ctrl]

Clone(c) == [cfg |-> c, mem |-> 3 - nn.mem, ctrl |-> nn.ctrl]

(* Without memory, or with a configuration that is not valid, nothing      *)
(* happens; while the interface is down, the configuration changes only.   *)
Reconfigure(c) ==
  /\ rt.op = "none"
  /\ \/ /\ nn.up
        /\ dp' = Clone(c)
        /\ rt' = [Idle EXCEPT !.op = "reconfig", !.pc = "more_vectors", !.r = nn.cfg]
        /\ UNCHANGED nn
     \/ /\ ~nn.up
        /\ nn' = [nn EXCEPT !.cfg = c]
        /\ UNCHANGED <<dp, rt>>
  /\ UNCHANGED <<sides, held, running, assigned, link, misused, unconfirmed,
                 overlapped, featfail, dead>>

(* Slip: a larger number of vectors is not given back.                     *)
NoneExtra(a, b) == {}

(* The vectors a configuration has beyond those of another one.            *)
Extra(a, b) == Vec(b, a)

(* The new rings are given back and the old ones were never touched.       *)
GiveUp(more, failed) ==
  /\ Takes({}, Vec(nn.cfg, failed) \cup more)
  /\ Finish

ReconfigVector(ok) ==
  /\ At("more_vectors") /\ rt.r < dp.cfg
  /\ \/ /\ ok
        /\ Takes({<<"vec", rt.r>>}, {})
        /\ rt' = [rt EXCEPT !.r = @ + 1]
        /\ UNCHANGED dp
     \/ ~ok /\ GiveUp({}, rt.r)
  /\ UNCHANGED <<nn, sides, running, assigned, link, unconfirmed,
                 overlapped, featfail, dead>>

ReconfigRx(ok) ==
  /\ At("more_vectors") /\ rt.r >= dp.cfg
  /\ \/ ok  /\ Takes({<<"rx", dp.mem>>}, {}) /\ GoTo("more_tx") /\ UNCHANGED dp
     \/ ~ok /\ GiveUp({}, dp.cfg)
  /\ UNCHANGED <<nn, sides, running, assigned, link, unconfirmed,
                 overlapped, featfail, dead>>

ReconfigTx(ok) ==
  /\ At("more_tx")
  /\ \/ ok  /\ Takes({<<"tx", dp.mem>>}, {}) /\ GoTo("stop") /\ UNCHANGED dp
     \/ ~ok /\ GiveUp({<<"rx", dp.mem>>}, dp.cfg)
  /\ UNCHANGED <<nn, sides, running, assigned, link, unconfirmed,
                 overlapped, featfail, dead>>

ReconfigStop ==
  /\ At("stop")
  /\ HandlerDone
  /\ CloseStack
  /\ Call("disable", "swap")
  /\ UNCHANGED <<nn, dp, sides, held, assigned, unconfirmed, overlapped,
                 featfail, dead>>

SameMode(c, d) == "PROMISC" \in c <=> "PROMISC" \in d

(* nfp_net_dp_swap_enable(): the number of queues may be refused.          *)
ReconfigSwap(ok) ==
  /\ At("swap")
  /\ DpSwap
  /\ assigned' = dp.mem
  /\ \/ ok  /\ Call("enable", "enabled")
     \/ ~ok /\ rt' = [rt EXCEPT !.pc = "enabled", !.err = TRUE]
  /\ overlapped' = (overlapped \/ ~SameMode(nn.ctrl, dp.ctrl))
  /\ UNCHANGED <<sides, held, running, link, misused, unconfirmed, featfail,
                 dead>>

(* Slip: the failure of the new rings is accepted.                         *)
RestoreNever == FALSE

Restore == rt.err /\ ~rt.again

(* "Try with old configuration and old rings", or finish: the rings that   *)
(* are not used any more are freed, whether or not that worked.            *)
ReconfigEnabled ==
  /\ At("enabled") /\ rt.op = "reconfig"
  /\ \/ /\ Restore
        /\ rt' = [rt EXCEPT !.pc = "disable", !.stack = <<"swap">>, !.again = TRUE,
                            !.err = FALSE]
        /\ UNCHANGED <<dp, held, misused, running, link, dead>>
     \/ /\ ~Restore
        /\ dead' = (dead \/ (rt.again /\ rt.err))
        /\ LET extra == Extra(dp.cfg, nn.cfg)
           IN  /\ held' = held \ (extra \cup Rings(dp.mem))
               /\ misused' = (misused \/ ~(extra \cup Rings(dp.mem) \subseteq held)
                                      \/ Own \cap running # {}
                                      \/ ~(Own \subseteq held))
        /\ OpenStack
        /\ Finish
  /\ UNCHANGED <<nn, sides, assigned, unconfirmed, overlapped, featfail>>

----------------------------------------------------------------------------
(* nfp_net_set_features(), for one feature.                                *)

Toggled(f) == IF f \in nn.ctrl THEN nn.ctrl \ {f} ELSE nn.ctrl \cup {f}

SetFeatures ==
  /\ rt.op = "none"
  /\ bar' = [bar EXCEPT !.ctrl = Toggled("RXCSUM")]
  /\ nfp_net_reconfig_sync_enter(bar')
  /\ rt' = [Idle EXCEPT !.op = "features", !.pc = "features_wait",
                        !.ctrl = Toggled("RXCSUM")]
  /\ UNCHANGED <<nn, dp, want, held, running, assigned, link, hist>>

SetFeaturesWait(ok) ==
  /\ At("features_wait")
  /\ OwnEnds(ok)
  /\ \/ ok  /\ nn' = [nn EXCEPT !.ctrl = rt.ctrl] /\ UNCHANGED featfail
     \/ ~ok /\ featfail' = TRUE /\ UNCHANGED nn
  /\ Finish
  /\ UNCHANGED <<want, held, running, assigned, bar, link, misused,
                 unconfirmed, overlapped, dead>>

----------------------------------------------------------------------------
Rtnl ==
  \/ Open \/ OpenLscOff \/ OpenEnabled \/ OpenUp
  \/ Close \/ CloseFreeAll
  \/ \E c \in Configs : Reconfigure(c)
  \/ ReconfigStop \/ ReconfigEnabled
  \/ DisableWrite \/ EnableWrite \/ SetFeatures
  \/ \E ok \in BOOLEAN :
       \/ OpenExn(ok) \/ OpenLsc(ok) \/ OpenVector(ok) \/ OpenRx(ok)
       \/ OpenTx(ok) \/ OpenQueues(ok)
       \/ ReconfigVector(ok) \/ ReconfigRx(ok) \/ ReconfigTx(ok) \/ ReconfigSwap(ok)
       \/ DisableWait(ok) \/ EnableWait(ok) \/ SetFeaturesWait(ok)

Next ==
  \/ Rtnl
  \/ \E w \in BOOLEAN : nfp_net_set_rx_mode(w)
  \/ PostedStarts \/ PostedEnds \/ PreStarts \/ OwnStarts
  \/ FwActs \/ FwEndsLate
  \/ LinkChanges \/ IrqLsc \/ IrqLscReads \/ IrqLscUnmasks

Spec == Init /\ [][Next]_vars

----------------------------------------------------------------------------
(* Properties.  Between operations nothing holds RTNL.                     *)

Between == rt.op = "none"

(* Whatever stage of opening, closing or reconfiguring fails, the device   *)
(* holds between operations what its configuration needs, all of it and no *)
(* more, or nothing when it is down: no interrupt, vector or ring leaks.   *)
(* And on no path is one taken twice, or released that is not held, or     *)
(* NAPI enabled that is enabled.                                           *)
HeldExact ==
  /\ ~misused
  /\ Between =>
       /\ held = IF nn.up THEN {Exn, Lsc} \cup Own \cup Rings(nn.mem) ELSE {}
       /\ running = IF nn.up THEN Own ELSE {}

(* The device has no ring in use that the driver has freed, whatever       *)
(* updates are posted, fail or end late, with two exceptions: the last     *)
(* disabling failed, which nfp_net_clear_config_and_disable() reports and  *)
(* goes on, or the last 0 was given to an update that was started over     *)
(* another one.  The same for what an enabled interrupt or the stack may   *)
(* reach through a vector, without exception.                              *)
MemorySafe ==
  /\ uses # 0 => Rings(uses) \subseteq held \/ unconfirmed
  /\ running # {} => assigned # 0 /\ Rings(assigned) \subseteq held

(* Between operations the driver's copy of the control word is the one     *)
(* last written to the device, and it knows of the receive mode.  That     *)
(* set_rx_mode() comes in the middle of an operation does no harm, but for *)
(* two places: while a control word has been written and not yet noted,    *)
(* and while a copy of the one before is kept to be put in its place.      *)
(* And a change of features that failed is left in the device.             *)
CtrlAgrees ==
  Between /\ ~overlapped =>
    /\ bar.ctrl = nn.ctrl \/ featfail
    /\ nn.up => (want <=> "PROMISC" \in nn.ctrl)

(* A vector in use points to the rings of the configuration, and between   *)
(* operations the device serves those very rings: a reconfiguration that   *)
(* failed has restored the old ones, unless that was refused as well, the  *)
(* 0 that enabled them may have been another update's, or the control word *)
(* was overwritten.                                                        *)
DeviceServes ==
  /\ running # {} => assigned = nn.mem
  /\ Between /\ nn.up /\ ~dead /\ ~overlapped /\ ~unconfirmed => uses = nn.mem

(* While the interface is up the driver knows the state of the link or is  *)
(* about to: a change that came while the interrupt was disabled or masked *)
(* is not missed.                                                          *)
LinkKnown ==
  running # {} /\ link.up # link.sts => link.pending \/ link.pc = "read"

============================================================================
