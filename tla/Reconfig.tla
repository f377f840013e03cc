------------------------------ MODULE Reconfig ------------------------------
(***************************************************************************)
(* Firmware reconfiguration in the driver (nfp_net_common.c): the driver   *)
(* writes the kinds of change it has made to the UPDATE register of the    *)
(* control BAR and pings the firmware, which clears the register when it   *)
(* is done.  One register serves synchronous callers, which hold RTNL and  *)
(* so come one at a time, and posted requests, which come from anywhere    *)
(* and are completed by a timer.                                           *)
(*                                                                         *)
(* Critical sections of reconfig_lock are atomic.  The firmware, the timer *)
(* and the posting contexts run between the steps of the synchronous       *)
(* caller.                                                                 *)
(***************************************************************************)
EXTENDS FiniteSets

CONSTANTS
  Posted,      \* kinds of update that are posted
  Own,         \* the update a synchronous caller asks for
  Ops,         \* what synchronous callers do
  TimerRaces,  \* may a timer that fired wait for the lock meanwhile?
  FwMayBeLate  \* may the firmware exceed NFP_NET_POLL_TIMEOUT?

Updates == Posted \cup {Own}

ASSUME OpsAssumption ==
  /\ Ops \subseteq {"reconfig", "wait_posted", "clean"}
  /\ {TimerRaces, FwMayBeLate} \subseteq BOOLEAN
  /\ Own \notin Posted      \* requests are told apart

VARIABLES
  update_reg, reg_err,      \* NFP_NET_CFG_UPDATE and its ERR bit
  pinged, fw,               \* firmware: rung doorbell, update being carried out
  reconfig_posted,
  reconfig_sync_present,
  reconfig_timer_active,
  timer_pending,            \* the kernel's timer is armed
  handler,                  \* the timer fired, its handler waits for the lock
  pc, op, pre_posted, ret,  \* the synchronous caller
  owed, again, left,        \* history of requests: see below
  late, overtaken, clobbered  \* history of what went wrong once

(* History.  owed holds the kinds with a request the firmware has not      *)
(* finished, again those requested since the firmware last took them, left *)
(* those that nfp_net_reconfig_wait_posted() left behind.                  *)
(* late: the firmware was later than the timeout.  overtaken: the driver   *)
(* went on between the firing of the timer and its handler.  clobbered: an *)
(* update was started while the firmware was not done with another one.    *)

fwVars     == <<pinged, fw>>
regVars    == <<update_reg, reg_err, clobbered>>
postedVars == <<reconfig_posted, left>>
timerVars  == <<reconfig_timer_active, timer_pending, handler>>
callerVars == <<pc, op, pre_posted, ret>>
requestVars == <<regVars, fwVars, postedVars, reconfig_sync_present,
                 owed, again>>
vars == <<requestVars, timerVars, callerVars, late, overtaken>>

Init ==
  /\ update_reg = {} /\ reg_err = FALSE
  /\ pinged = FALSE /\ fw = {}
  /\ reconfig_posted = {} /\ reconfig_sync_present = FALSE
  /\ reconfig_timer_active = FALSE /\ timer_pending = FALSE /\ handler = FALSE
  /\ pc = "idle" /\ op = "none" /\ pre_posted = {} /\ ret = "none"
  /\ owed = {} /\ again = {} /\ left = {}
  /\ late = FALSE /\ overtaken = FALSE /\ clobbered = FALSE

----------------------------------------------------------------------------
(* An operator marked "Slip" is not part of the model: it is a plausible   *)
(* mistake in the definition that follows it.                              *)

(* Slip: an update the firmware has taken counts as done.                  *)
DoneWhenTaken == ~pinged

(* What nfp_net_reconfig_check_done() reads from the register.             *)
Done == update_reg = {} \/ reg_err

(* A poll loop ends; with FwMayBeLate also because its deadline passed.    *)
WaitOver == Done \/ FwMayBeLate

Busy == fw # {} \/ pinged

(* A step of the driver, which may overtake a timer that fired ...         *)
MayOvertake ==
  /\ ~handler \/ TimerRaces
  /\ overtaken' = (overtaken \/ handler)

DriverRuns == MayOvertake /\ UNCHANGED late

(* ... and one that ends a wait, for the firmware or for its deadline.     *)
DriverWaited == MayOvertake /\ late' = (late \/ ~Done)

nfp_net_reconfig_start(update) ==
  /\ update_reg' = update /\ reg_err' = FALSE
  /\ pinged' = TRUE
  /\ clobbered' = (clobbered \/ Busy)
  /\ UNCHANGED fw

(* Slip: what was posted before is forgotten.                              *)
NotMerged(update) == update

Merged(update) == update \cup reconfig_posted

nfp_net_reconfig_start_async(update) ==
  /\ nfp_net_reconfig_start(Merged(update))
  /\ reconfig_posted' = {} /\ left' = {}
  /\ reconfig_timer_active' = TRUE
  /\ timer_pending' = TRUE

Request(update) ==
  /\ owed' = owed \cup update
  /\ again' = again \cup update

----------------------------------------------------------------------------
(* nfp_net_reconfig_post().                                                *)

(* Slip: the synchronous caller is not noticed.                            *)
StartsEvenInSync == ~reconfig_timer_active \/ Done

(* Nothing is under way, or what was has been acknowledged already.        *)
MayStart ==
  ~reconfig_sync_present /\ (~reconfig_timer_active \/ Done)

nfp_net_reconfig_post(u) ==
  /\ DriverRuns
  /\ op # "clean"           \* unregister_netdev() came before
  /\ \/ /\ MayStart
        /\ nfp_net_reconfig_start_async({u})
     \/ /\ ~MayStart
        /\ reconfig_posted' = reconfig_posted \cup {u}
        /\ UNCHANGED <<regVars, fwVars, left, reconfig_timer_active, timer_pending>>
  /\ Request({u})
  /\ UNCHANGED <<reconfig_sync_present, handler, callerVars>>

----------------------------------------------------------------------------
(* The timer.                                                              *)

TimerFires ==
  /\ timer_pending
  /\ WaitOver
  /\ ~handler
  /\ timer_pending' = FALSE
  /\ handler' = TRUE
  /\ late' = (late \/ ~Done)
  /\ UNCHANGED <<requestVars, reconfig_timer_active, callerVars, overtaken>>

(* Slip: posted requests are left to the next post.                        *)
LeavesPosted == TRUE

(* A synchronous caller takes over, or there is nothing to do.             *)
NothingToRun == reconfig_sync_present \/ reconfig_posted = {}

nfp_net_reconfig_timer ==
  /\ handler
  /\ handler' = FALSE
  /\ \/ /\ NothingToRun
        /\ reconfig_timer_active' = FALSE
        /\ UNCHANGED <<regVars, fwVars, postedVars, timer_pending>>
     \/ /\ ~NothingToRun
        /\ nfp_net_reconfig_start_async({})
  /\ UNCHANGED <<reconfig_sync_present, callerVars, owed, again, late, overtaken>>

----------------------------------------------------------------------------
(* The synchronous caller: nfp_net_reconfig_sync_enter(), then what __nfp_ *)
(* net_reconfig() or nfp_net_reconfig_wait_posted() does.                  *)

(* Where sync_enter() continues when no update is under way any more.      *)
AfterOld(pre, o) ==
  IF pre # {} THEN "run_pre" ELSE IF o = "reconfig" THEN "start" ELSE "leave"

nfp_net_reconfig_sync_enter(o) ==
  /\ DriverRuns
  /\ pc = "idle"
  /\ op' = o
  /\ ret' = "none"
  /\ reconfig_sync_present' = TRUE
  /\ reconfig_timer_active' = FALSE
  /\ pre_posted' = reconfig_posted
  /\ reconfig_posted' = {} /\ left' = {}
  /\ pc' = IF reconfig_timer_active THEN "del_timer"
                                    ELSE AfterOld(reconfig_posted, o)
  /\ UNCHANGED <<regVars, fwVars, timer_pending, handler, owed, again>>

(* Slip: a timer that is armed is forgotten, not deleted.                  *)
TimerLeft == timer_pending

(* del_timer_sync() disarms the timer and waits for a running handler.     *)
TimerAfterDel == FALSE

DelTimer ==
  /\ pc = "del_timer"
  /\ ~handler
  /\ timer_pending' = TimerAfterDel
  /\ pc' = "wait_old"
  /\ UNCHANGED <<requestVars, reconfig_timer_active, handler, op, pre_posted,
                 ret, late, overtaken>>

(* The two waits of sync_enter(), whose result is not looked at.           *)
WaitEarlier ==
  /\ DriverWaited
  /\ pc \in {"wait_old", "wait_pre"}
  /\ WaitOver
  /\ pc' = AfterOld(pre_posted, op)
  /\ UNCHANGED <<requestVars, timerVars, op, pre_posted, ret>>

(* Run the posted reconfigs which were issued before the caller entered.   *)
RunPre ==
  /\ DriverRuns
  /\ pc = "run_pre"
  /\ nfp_net_reconfig_start(pre_posted)
  /\ pre_posted' = {}
  /\ pc' = "wait_pre"
  /\ UNCHANGED <<postedVars, reconfig_sync_present, timerVars, op, ret, owed,
                 again>>

StartOwn ==
  /\ DriverRuns
  /\ pc = "start"
  /\ nfp_net_reconfig_start({Own})
  /\ Request({Own})
  /\ pc' = "wait_own"
  /\ UNCHANGED <<postedVars, reconfig_sync_present, timerVars, op, pre_posted,
                 ret>>

(* Past its deadline the wait fails, whatever its last look finds.         *)
WaitOwn ==
  /\ DriverWaited
  /\ pc = "wait_own"
  /\ \/ Done /\ ret' = IF reg_err THEN "EIO" ELSE "ok"
     \/ FwMayBeLate /\ ret' = "EIO"
  /\ pc' = "finish"
  /\ UNCHANGED <<requestVars, timerVars, op, pre_posted>>

(* The caller is no longer present.  After nfp_net_clean() the device is   *)
(* freed and nothing uses it again.                                        *)
SyncLeaves(point) ==
  /\ reconfig_sync_present' = FALSE
  /\ pc' = point
  /\ op' = IF point = "cleaned" THEN op ELSE "none"

(* Slip: what was posted meanwhile is left behind.                         *)
NonePosted == TRUE

NoneToKickOff == reconfig_posted = {}

(* __nfp_net_reconfig() kicks off what was posted meanwhile.               *)
Finish ==
  /\ DriverRuns
  /\ pc = "finish"
  /\ \/ /\ NoneToKickOff
        /\ UNCHANGED <<regVars, fwVars, postedVars, reconfig_timer_active,
                       timer_pending>>
     \/ /\ ~NoneToKickOff
        /\ nfp_net_reconfig_start_async({})
  /\ SyncLeaves("idle")
  /\ UNCHANGED <<handler, pre_posted, ret, owed, again>>

(* nfp_net_reconfig_wait_posted() does not.                                *)
Leave ==
  /\ DriverRuns
  /\ pc = "leave"
  /\ left' = reconfig_posted
  /\ SyncLeaves(IF op = "clean" THEN "cleaned" ELSE "idle")
  /\ UNCHANGED <<regVars, fwVars, reconfig_posted, timerVars, pre_posted, ret,
                 owed, again>>

----------------------------------------------------------------------------
(* The firmware takes what the register holds when it is pinged and clears *)
(* the register when it is done with it.                                   *)

FwTake ==
  /\ pinged /\ fw = {} /\ update_reg # {}
  /\ fw' = update_reg
  /\ pinged' = FALSE
  /\ again' = again \ update_reg
  /\ UNCHANGED <<regVars, postedVars, reconfig_sync_present, timerVars,
                 callerVars, owed, late, overtaken>>

(* A ping for a register that was cleared meanwhile.                       *)
FwIgnore ==
  /\ pinged /\ fw = {} /\ update_reg = {}
  /\ pinged' = FALSE
  /\ UNCHANGED <<regVars, fw, postedVars, reconfig_sync_present, timerVars,
                 callerVars, owed, again, late, overtaken>>

FwDone(error) ==
  /\ fw # {}
  /\ update_reg' = IF error THEN update_reg ELSE {}
  /\ reg_err' = error
  /\ fw' = {}
  /\ owed' = owed \ (fw \ again)
  /\ UNCHANGED <<pinged, clobbered, postedVars, reconfig_sync_present, timerVars,
                 callerVars, again, late, overtaken>>

----------------------------------------------------------------------------
Timer == TimerFires \/ nfp_net_reconfig_timer

Caller ==
  \/ DelTimer \/ WaitEarlier \/ RunPre
  \/ StartOwn \/ WaitOwn \/ Finish \/ Leave

Firmware == FwTake \/ FwIgnore \/ \E error \in BOOLEAN : FwDone(error)

Next ==
  \/ \E u \in Posted : nfp_net_reconfig_post(u)
  \/ \E o \in Ops : nfp_net_reconfig_sync_enter(o)
  \/ Caller
  \/ Timer
  \/ Firmware

Spec == Init /\ [][Next]_vars

(* A caller that polls is scheduled, an armed timer fires and its handler  *)
(* gets the lock; a firmware that is late may never answer.                *)
FairSpec ==
  /\ Spec
  /\ WF_vars(Caller)
  /\ WF_vars(TimerFires) /\ WF_vars(nfp_net_reconfig_timer)
  /\ (~FwMayBeLate => WF_vars(Firmware))

----------------------------------------------------------------------------
(* Properties.                                                             *)

InSync == pc \notin {"idle", "cleaned"}

TypeOK ==
  /\ update_reg \subseteq Updates /\ fw \subseteq Updates
  /\ reg_err \in BOOLEAN /\ pinged \in BOOLEAN
  /\ reconfig_timer_active \in BOOLEAN
  /\ timer_pending \in BOOLEAN /\ handler \in BOOLEAN
  /\ reconfig_posted \subseteq Posted /\ pre_posted \subseteq Posted
  /\ pc \in {"idle", "del_timer", "wait_old", "run_pre", "wait_pre", "start",
             "wait_own", "finish", "leave", "cleaned"}
  /\ op \in Ops \cup {"none"}
  /\ ret \in {"none", "ok", "EIO"}
  /\ owed \subseteq Updates /\ again \subseteq Updates
  /\ left \subseteq Posted
  /\ late \in BOOLEAN /\ overtaken \in BOOLEAN /\ clobbered \in BOOLEAN
  /\ reconfig_sync_present \in BOOLEAN
  /\ reconfig_sync_present <=> InSync

(* No request is dropped, even when a deadline was missed or a handler     *)
(* overtaken: one the firmware has not finished is posted, held by the     *)
(* synchronous caller, in a register the firmware will look at, or being   *)
(* carried out; unless an update was started over another one.             *)
AllHeld ==
  owed \subseteq reconfig_posted \cup pre_posted \cup fw
                 \cup (IF pinged THEN update_reg ELSE {})

NothingLost == clobbered \/ AllHeld

(* A caller that is told 0 has had its update acknowledged: "The poll      *)
(* until the firmware has acknowledged the update by zeroing the update    *)
(* word", "Negative errno on error, 0 on success".                         *)
ToldWhenDone == pc = "idle" /\ ret = "ok" => Own \notin owed

(* It holds, whatever deadlines were missed before, unless an update was   *)
(* started over another one: then the 0 may be the other one's.            *)
SyncCarriedOut == clobbered \/ ToldWhenDone

(* When the caller starts its own update, or returns from wait_posted(),   *)
(* the firmware is done with all that was requested before it came.        *)
Quiet == pc \in {"start", "leave"} => ~Busy

(* And that, an update started over another one, takes a firmware that     *)
(* missed a deadline or a timer's handler that was overtaken.              *)
OneAtATime == late \/ overtaken \/ (~clobbered /\ Quiet)

(* "Reconfiguration will be kicked off whenever reconfiguration machinery  *)
(* is idle", and "Sync caller will kick off async reconf when it's done":  *)
(* posted requests wait only for a caller or for the timer.                *)
KickedOffWhenIdle ==
  reconfig_posted # {} => reconfig_sync_present \/ reconfig_timer_active

(* It holds but for the requests that were posted while a caller was in    *)
(* nfp_net_reconfig_wait_posted(), which leaves them behind.               *)
KickedOffUnlessLeft ==
  reconfig_posted \subseteq left \/ reconfig_sync_present \/ reconfig_timer_active

(* What nfp_net_free() asserts after nfp_net_clean().                      *)
FreedClean == pc = "cleaned" => ~timer_pending /\ reconfig_posted = {}

(* It holds, however late the firmware is, unless a timer's handler was    *)
(* overtaken.                                                              *)
CleanAtFree == overtaken \/ FreedClean

(* A posted request is started in the end, or left by wait_posted().       *)
PostedStarts ==
  \A u \in Posted : u \in reconfig_posted ~> u \notin reconfig_posted \ left

=============================================================================
