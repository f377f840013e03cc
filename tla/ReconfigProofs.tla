--------------------------- MODULE ReconfigProofs ---------------------------
(***************************************************************************)
(* Proofs about Reconfig, for any kinds of update and any operations of    *)
(* the callers, in four layers: who is to start what is posted (Kicked);   *)
(* what is true while no update was started over another one (Firm); what  *)
(* is true of the timer while its handler was not overtaken (Timers); and  *)
(* that no update is started over another one while the firmware meets its *)
(* deadlines as well (Watched).                                            *)
(***************************************************************************)
EXTENDS Reconfig, TLAPS

(* What each stop of the synchronous caller knows.                         *)
Stops ==
  /\ pre_posted # {} => pc \in {"del_timer", "wait_old", "run_pre"}
  /\ pc = "run_pre" => pre_posted # {}
  /\ pc \in {"start", "wait_own", "finish"} => op = "reconfig"
  /\ pc \in {"leave", "cleaned"} => op # "reconfig"
  /\ pc = "idle" <=> op = "none"
  /\ pc = "cleaned" => op = "clean"
  /\ op = "clean" => reconfig_posted = {}
  /\ ret = "ok" => pc \in {"finish", "idle"}

(* The register tells whether the firmware is busy, and with what.         *)
RegisterTells ==
  /\ Busy <=> ~Done
  /\ fw # {} => fw = update_reg /\ ~pinged

(* Requests made since the firmware last looked are still to be shown it.  *)
AgainHeld ==
  again \subseteq reconfig_posted \cup pre_posted
                  \cup (IF pinged THEN update_reg ELSE {})

Told == ret = "ok" => Own \notin owed

Firm == RegisterTells /\ AgainHeld /\ AllHeld /\ Told

(* The flag tells of the timer, and callers and timer exclude each other.  *)
Timers ==
  /\ handler => ~timer_pending
  /\ reconfig_timer_active => ~InSync /\ op # "clean"
  /\ timer_pending \/ handler => reconfig_timer_active \/ pc = "del_timer"

(* Whoever started the update under way is still there to see it done.     *)
Watched ==
  /\ ~clobbered
  /\ ~Done => \/ reconfig_timer_active
              \/ pc \in {"del_timer", "wait_old", "wait_pre", "wait_own"}
  /\ handler => Done

----------------------------------------------------------------------------
(* What the driver does at any time: the caller's stops.                   *)
IStops == TypeOK /\ Stops

LEMMA InitIStops == Init => IStops
BY OpsAssumption DEF Init, IStops, TypeOK, Stops, InSync, Updates

(* Types, and the order of the caller's stops.                             *)
(* The two halves of TypeOK: requests, and everything else.                *)
RequestTypes ==
  /\ update_reg \subseteq Updates /\ fw \subseteq Updates
  /\ reconfig_posted \subseteq Posted /\ pre_posted \subseteq Posted
  /\ owed \subseteq Updates /\ again \subseteq Updates
  /\ left \subseteq Posted

ControlTypes ==
  /\ reg_err \in BOOLEAN /\ pinged \in BOOLEAN
  /\ reconfig_timer_active \in BOOLEAN
  /\ timer_pending \in BOOLEAN /\ handler \in BOOLEAN
  /\ pc \in {"idle", "del_timer", "wait_old", "run_pre", "wait_pre", "start",
             "wait_own", "finish", "leave", "cleaned"}
  /\ op \in Ops \cup {"none"}
  /\ ret \in {"none", "ok", "EIO"}
  /\ late \in BOOLEAN /\ overtaken \in BOOLEAN /\ clobbered \in BOOLEAN
  /\ reconfig_sync_present \in BOOLEAN
  /\ reconfig_sync_present <=> InSync

LEMMA NextIStops == ASSUME IStops, [Next]_vars PROVE IStops'
<1> USE DEF IStops, InSync, DriverRuns, DriverWaited, MayOvertake, regVars,
         fwVars, postedVars, timerVars, callerVars, requestVars
<1>0. Posted \subseteq Updates /\ Own \in Updates
  BY DEF Updates
<1>1. ASSUME NEW u \in Posted, nfp_net_reconfig_post(u) PROVE IStops'
  <2>1. RequestTypes'
    BY <1>1, <1>0, OpsAssumption DEF nfp_net_reconfig_post,
       nfp_net_reconfig_start_async, nfp_net_reconfig_start, MayStart, Merged,
       Request, TypeOK, RequestTypes, Stops
  <2>2. ControlTypes'
    BY <1>1, <1>0, OpsAssumption DEF nfp_net_reconfig_post,
       nfp_net_reconfig_start_async, nfp_net_reconfig_start, MayStart, Merged,
       Request, TypeOK, ControlTypes, Stops
  <2>3. Stops'
    BY <1>1, <1>0, OpsAssumption DEF nfp_net_reconfig_post,
       nfp_net_reconfig_start_async, nfp_net_reconfig_start, MayStart, Merged,
       Request, TypeOK, Stops
  <2> QED BY <2>1, <2>2, <2>3 DEF TypeOK, RequestTypes, ControlTypes
<1>2. ASSUME NEW o \in Ops, nfp_net_reconfig_sync_enter(o) PROVE IStops'
  BY <1>2, <1>0, OpsAssumption DEF nfp_net_reconfig_sync_enter, AfterOld,
     TypeOK, Stops
<1>3. ASSUME DelTimer PROVE IStops'
  BY <1>3, <1>0, OpsAssumption DEF DelTimer, TimerAfterDel, TypeOK, Stops
<1>4. ASSUME WaitEarlier PROVE IStops'
  BY <1>4, <1>0, OpsAssumption DEF WaitEarlier, AfterOld, WaitOver, TypeOK,
     Stops
<1>5. ASSUME RunPre PROVE IStops'
  BY <1>5, <1>0, OpsAssumption DEF RunPre, nfp_net_reconfig_start, TypeOK,
     Stops
<1>6. ASSUME StartOwn PROVE IStops'
  BY <1>6, <1>0, OpsAssumption DEF StartOwn, nfp_net_reconfig_start, Request,
     TypeOK, Stops
<1>7. ASSUME WaitOwn PROVE IStops'
  BY <1>7, <1>0, OpsAssumption DEF WaitOwn, TypeOK, Stops
<1>8. ASSUME Finish PROVE IStops'
  BY <1>8, <1>0, OpsAssumption DEF Finish, NoneToKickOff, SyncLeaves,
     nfp_net_reconfig_start_async, nfp_net_reconfig_start, Merged, TypeOK,
     Stops
<1>9. ASSUME Leave PROVE IStops'
  BY <1>9, <1>0, OpsAssumption DEF Leave, SyncLeaves, TypeOK, Stops
<1>a. ASSUME TimerFires PROVE IStops'
  <2>1. RequestTypes'
    BY <1>a, <1>0, OpsAssumption DEF TimerFires, WaitOver, TypeOK,
       RequestTypes, Stops
  <2>2. ControlTypes'
    BY <1>a, <1>0, OpsAssumption DEF TimerFires, WaitOver, TypeOK,
       ControlTypes, Stops
  <2>3. Stops'
    BY <1>a, <1>0, OpsAssumption DEF TimerFires, WaitOver, TypeOK, Stops
  <2> QED BY <2>1, <2>2, <2>3 DEF TypeOK, RequestTypes, ControlTypes
<1>b. ASSUME nfp_net_reconfig_timer PROVE IStops'
  <2>1. RequestTypes'
    BY <1>b, <1>0, OpsAssumption DEF nfp_net_reconfig_timer, NothingToRun,
       nfp_net_reconfig_start_async, nfp_net_reconfig_start, Merged, TypeOK,
       RequestTypes, Stops
  <2>2. ControlTypes'
    BY <1>b, <1>0, OpsAssumption DEF nfp_net_reconfig_timer, NothingToRun,
       nfp_net_reconfig_start_async, nfp_net_reconfig_start, Merged, TypeOK,
       ControlTypes, Stops
  <2>3. Stops'
    BY <1>b, <1>0, OpsAssumption DEF nfp_net_reconfig_timer, NothingToRun,
       nfp_net_reconfig_start_async, nfp_net_reconfig_start, Merged, TypeOK,
       Stops
  <2> QED BY <2>1, <2>2, <2>3 DEF TypeOK, RequestTypes, ControlTypes
<1>c. ASSUME FwTake PROVE IStops'
  <2>1. RequestTypes'
    BY <1>c, <1>0, OpsAssumption DEF FwTake, TypeOK, RequestTypes, Stops
  <2>2. ControlTypes'
    <3>1. ControlTypes
      BY DEF TypeOK, ControlTypes
    <3>2. (pinged \in BOOLEAN)'
      BY <1>c, Zenon DEF FwTake
    <3> QED BY <1>c, <3>1, <3>2 DEF FwTake, ControlTypes
  <2>3. Stops'
    BY <1>c, <1>0, OpsAssumption DEF FwTake, TypeOK, Stops
  <2> QED BY <2>1, <2>2, <2>3 DEF TypeOK, RequestTypes, ControlTypes
<1>d. ASSUME FwIgnore PROVE IStops'
  <2>1. RequestTypes'
    BY <1>d, <1>0, OpsAssumption DEF FwIgnore, TypeOK, RequestTypes, Stops
  <2>2. ControlTypes'
    <3>1. ControlTypes
      BY DEF TypeOK, ControlTypes
    <3>2. (pinged \in BOOLEAN)'
      BY <1>d, Zenon DEF FwIgnore
    <3> QED BY <1>d, <3>1, <3>2 DEF FwIgnore, ControlTypes
  <2>3. Stops'
    BY <1>d, <1>0, OpsAssumption DEF FwIgnore, TypeOK, Stops
  <2> QED BY <2>1, <2>2, <2>3 DEF TypeOK, RequestTypes, ControlTypes
<1>e. ASSUME NEW error \in BOOLEAN, FwDone(error) PROVE IStops'
  BY <1>e, <1>0, OpsAssumption DEF FwDone, TypeOK, Stops
<1>f. ASSUME UNCHANGED vars PROVE IStops'
  BY <1>f, <1>0, OpsAssumption DEF vars, TypeOK, Stops
<1> QED
  BY <1>1, <1>2, <1>3, <1>4, <1>5, <1>6, <1>7, <1>8, <1>9, <1>a,
     <1>b, <1>c, <1>d, <1>e, <1>f
  DEF Next, Caller, Timer, Firmware

LEMMA StopsInv == Spec => []IStops
BY InitIStops, NextIStops, PTL DEF Spec

----------------------------------------------------------------------------
(* The firmware and its register.                                          *)
IFirm == clobbered \/ Firm

LEMMA InitFirm == Init => IFirm
BY DEF Init, IFirm, Firm, RegisterTells, AgainHeld, AllHeld, Told, Busy, Done

(* As long as every update is started when the firmware is done.           *)
LEMMA NextFirm == ASSUME IStops, IStops', IFirm, [Next]_vars PROVE IFirm'
<1> USE DEF IStops, IFirm, InSync, Updates, DriverRuns, DriverWaited,
         MayOvertake, regVars, fwVars, postedVars, timerVars, callerVars,
         requestVars
<1>1. ASSUME NEW u \in Posted, nfp_net_reconfig_post(u) PROVE IFirm'
  BY <1>1, OpsAssumption DEF nfp_net_reconfig_post,
     nfp_net_reconfig_start_async, nfp_net_reconfig_start, MayStart, Merged,
     Request, TypeOK, Stops, Firm, RegisterTells, AgainHeld, AllHeld, Told,
     Busy, Done
<1>2. ASSUME NEW o \in Ops, nfp_net_reconfig_sync_enter(o) PROVE IFirm'
  BY <1>2, OpsAssumption DEF nfp_net_reconfig_sync_enter, AfterOld, TypeOK,
     Stops, Firm, RegisterTells, AgainHeld, AllHeld, Told, Busy, Done
<1>3. ASSUME DelTimer PROVE IFirm'
  BY <1>3, OpsAssumption DEF DelTimer, TimerAfterDel, TypeOK, Stops, Firm,
     RegisterTells, AgainHeld, AllHeld, Told, Busy, Done
<1>4. ASSUME WaitEarlier PROVE IFirm'
  BY <1>4, OpsAssumption DEF WaitEarlier, AfterOld, WaitOver, TypeOK, Stops,
     Firm, RegisterTells, AgainHeld, AllHeld, Told, Busy, Done
<1>5. ASSUME RunPre PROVE IFirm'
  BY <1>5, OpsAssumption DEF RunPre, nfp_net_reconfig_start, TypeOK, Stops,
     Firm, RegisterTells, AgainHeld, AllHeld, Told, Busy, Done
<1>6. ASSUME StartOwn PROVE IFirm'
  BY <1>6, OpsAssumption DEF StartOwn, nfp_net_reconfig_start, Request,
     TypeOK, Stops, Firm, RegisterTells, AgainHeld, AllHeld, Told, Busy,
     Done
<1>7. ASSUME WaitOwn PROVE IFirm'
  BY <1>7, OpsAssumption DEF WaitOwn, TypeOK, Stops, Firm, RegisterTells,
     AgainHeld, AllHeld, Told, Busy, Done
<1>8. ASSUME Finish PROVE IFirm'
  BY <1>8, OpsAssumption DEF Finish, NoneToKickOff, SyncLeaves,
     nfp_net_reconfig_start_async, nfp_net_reconfig_start, Merged, TypeOK,
     Stops, Firm, RegisterTells, AgainHeld, AllHeld, Told, Busy, Done
<1>9. ASSUME Leave PROVE IFirm'
  BY <1>9, OpsAssumption DEF Leave, SyncLeaves, TypeOK, Stops, Firm,
     RegisterTells, AgainHeld, AllHeld, Told, Busy, Done
<1>a. ASSUME TimerFires PROVE IFirm'
  BY <1>a, OpsAssumption DEF TimerFires, WaitOver, TypeOK, Stops, Firm,
     RegisterTells, AgainHeld, AllHeld, Told, Busy, Done
<1>b. ASSUME nfp_net_reconfig_timer PROVE IFirm'
  BY <1>b, OpsAssumption DEF nfp_net_reconfig_timer, NothingToRun,
     nfp_net_reconfig_start_async, nfp_net_reconfig_start, Merged, TypeOK,
     Stops, Firm, RegisterTells, AgainHeld, AllHeld, Told, Busy, Done
<1>c. ASSUME FwTake PROVE IFirm'
  BY <1>c, OpsAssumption DEF FwTake, TypeOK, Stops, Firm, RegisterTells,
     AgainHeld, AllHeld, Told, Busy, Done
<1>d. ASSUME FwIgnore PROVE IFirm'
  BY <1>d, OpsAssumption DEF FwIgnore, TypeOK, Stops, Firm, RegisterTells,
     AgainHeld, AllHeld, Told, Busy, Done
<1>e. ASSUME NEW error \in BOOLEAN, FwDone(error) PROVE IFirm'
  BY <1>e, OpsAssumption DEF FwDone, TypeOK, Stops, Firm, RegisterTells,
     AgainHeld, AllHeld, Told, Busy, Done
<1>f. ASSUME UNCHANGED vars PROVE IFirm'
  BY <1>f, OpsAssumption DEF vars, TypeOK, Stops, Firm, RegisterTells,
     AgainHeld, AllHeld, Told, Busy, Done
<1> QED
  BY <1>1, <1>2, <1>3, <1>4, <1>5, <1>6, <1>7, <1>8, <1>9, <1>a,
     <1>b, <1>c, <1>d, <1>e, <1>f
  DEF Next, Caller, Timer, Firmware

LEMMA FirmInv == Spec => []IFirm
<1>1. IStops /\ IStops' /\ IFirm /\ [Next]_vars => IFirm'
  BY NextFirm
<1> QED BY <1>1, InitFirm, StopsInv, PTL DEF Spec

(* No request is dropped, whatever deadlines were missed and handlers      *)
(* overtaken, unless an update was started over another one.               *)
THEOREM RequestsAreKept == Spec => []NothingLost
<1>1. IFirm => NothingLost
  BY DEF IFirm, Firm, NothingLost
<1> QED BY <1>1, FirmInv, PTL

(* A synchronous caller of __nfp_net_reconfig() that gets 0 has had its    *)
(* update carried out, unless an update was started over another one.      *)
THEOREM CallersAreServed == Spec => []SyncCarriedOut
<1>1. IFirm => SyncCarriedOut
  BY DEF IFirm, Firm, Told, SyncCarriedOut, ToldWhenDone
<1> QED BY <1>1, FirmInv, PTL

----------------------------------------------------------------------------
(* The timer.                                                              *)
ITimers == overtaken \/ Timers

LEMMA InitTimers == Init => ITimers
BY DEF Init, ITimers, Timers, InSync

(* A handler that is not overtaken finds the timer as it was.              *)
LEMMA NextTimers == ASSUME IStops, ITimers, [Next]_vars PROVE ITimers'
<1> USE DEF IStops, ITimers, InSync, Updates, DriverRuns, DriverWaited,
         MayOvertake, regVars, fwVars, postedVars, timerVars, callerVars,
         requestVars
<1>1. ASSUME NEW u \in Posted, nfp_net_reconfig_post(u) PROVE ITimers'
  BY <1>1, OpsAssumption DEF nfp_net_reconfig_post,
     nfp_net_reconfig_start_async, nfp_net_reconfig_start, MayStart, Merged,
     Request, TypeOK, Stops, Timers
<1>2. ASSUME NEW o \in Ops, nfp_net_reconfig_sync_enter(o) PROVE ITimers'
  BY <1>2, OpsAssumption DEF nfp_net_reconfig_sync_enter, AfterOld, TypeOK,
     Stops, Timers
<1>3. ASSUME DelTimer PROVE ITimers'
  BY <1>3, OpsAssumption DEF DelTimer, TimerAfterDel, TypeOK, Stops, Timers
<1>4. ASSUME WaitEarlier PROVE ITimers'
  BY <1>4, OpsAssumption DEF WaitEarlier, AfterOld, WaitOver, TypeOK, Stops,
     Timers
<1>5. ASSUME RunPre PROVE ITimers'
  BY <1>5, OpsAssumption DEF RunPre, nfp_net_reconfig_start, TypeOK, Stops,
     Timers
<1>6. ASSUME StartOwn PROVE ITimers'
  BY <1>6, OpsAssumption DEF StartOwn, nfp_net_reconfig_start, Request,
     TypeOK, Stops, Timers
<1>7. ASSUME WaitOwn PROVE ITimers'
  BY <1>7, OpsAssumption DEF WaitOwn, TypeOK, Stops, Timers
<1>8. ASSUME Finish PROVE ITimers'
  BY <1>8, OpsAssumption DEF Finish, NoneToKickOff, SyncLeaves,
     nfp_net_reconfig_start_async, nfp_net_reconfig_start, Merged, TypeOK,
     Stops, Timers
<1>9. ASSUME Leave PROVE ITimers'
  BY <1>9, OpsAssumption DEF Leave, SyncLeaves, TypeOK, Stops, Timers
<1>a. ASSUME TimerFires PROVE ITimers'
  BY <1>a, OpsAssumption DEF TimerFires, WaitOver, TypeOK, Stops, Timers
<1>b. ASSUME nfp_net_reconfig_timer PROVE ITimers'
  BY <1>b, OpsAssumption DEF nfp_net_reconfig_timer, NothingToRun,
     nfp_net_reconfig_start_async, nfp_net_reconfig_start, Merged, TypeOK,
     Stops, Timers
<1>c. ASSUME FwTake PROVE ITimers'
  BY <1>c, OpsAssumption DEF FwTake, TypeOK, Stops, Timers
<1>d. ASSUME FwIgnore PROVE ITimers'
  BY <1>d, OpsAssumption DEF FwIgnore, TypeOK, Stops, Timers
<1>e. ASSUME NEW error \in BOOLEAN, FwDone(error) PROVE ITimers'
  BY <1>e, OpsAssumption DEF FwDone, TypeOK, Stops, Timers
<1>f. ASSUME UNCHANGED vars PROVE ITimers'
  BY <1>f, OpsAssumption DEF vars, TypeOK, Stops, Timers
<1> QED
  BY <1>1, <1>2, <1>3, <1>4, <1>5, <1>6, <1>7, <1>8, <1>9, <1>a,
     <1>b, <1>c, <1>d, <1>e, <1>f
  DEF Next, Caller, Timer, Firmware

LEMMA TimersInv == Spec => []ITimers
<1>1. IStops /\ ITimers /\ [Next]_vars => ITimers'
  BY NextTimers
<1> QED BY <1>1, InitTimers, StopsInv, PTL DEF Spec

(* Nothing is posted and no timer is left when nfp_net_clean() has         *)
(* returned, as nfp_net_free() asserts, unless a handler was overtaken.    *)
THEOREM FreedWhenClean == Spec => []CleanAtFree
<1>1. IStops /\ ITimers => CleanAtFree
  BY DEF IStops, TypeOK, Stops, ITimers, Timers, CleanAtFree, FreedClean
<1> QED BY <1>1, StopsInv, TimersInv, PTL

----------------------------------------------------------------------------
(* One update at a time.                                                   *)
IWatched == late \/ overtaken \/ Watched

LEMMA InitWatched == Init => IWatched
BY DEF Init, IWatched, Watched, Done

(* In time, a wait ends only when the firmware is done.                    *)
LEMMA NextWatched ==
  ASSUME IStops, IFirm, ITimers, IWatched, [Next]_vars
  PROVE IWatched'
<1> USE DEF IStops, IFirm, ITimers, IWatched, InSync, Updates,
         DriverRuns, DriverWaited, MayOvertake,
         regVars, fwVars, postedVars, timerVars, callerVars, requestVars
<1>1. ASSUME NEW u \in Posted, nfp_net_reconfig_post(u) PROVE IWatched'
  BY <1>1, OpsAssumption DEF nfp_net_reconfig_post,
     nfp_net_reconfig_start_async, nfp_net_reconfig_start, MayStart, Merged,
     Request, TypeOK, Stops, Firm, RegisterTells, Timers, Watched, Busy,
     Done
<1>2. ASSUME NEW o \in Ops, nfp_net_reconfig_sync_enter(o) PROVE IWatched'
  BY <1>2, OpsAssumption DEF nfp_net_reconfig_sync_enter, AfterOld, TypeOK,
     Stops, Firm, RegisterTells, Timers, Watched, Busy, Done
<1>3. ASSUME DelTimer PROVE IWatched'
  BY <1>3, OpsAssumption DEF DelTimer, TimerAfterDel, TypeOK, Stops, Firm,
     RegisterTells, Timers, Watched, Busy, Done
<1>4. ASSUME WaitEarlier PROVE IWatched'
  BY <1>4, OpsAssumption DEF WaitEarlier, AfterOld, WaitOver, TypeOK, Stops,
     Firm, RegisterTells, Timers, Watched, Busy, Done
<1>5. ASSUME RunPre PROVE IWatched'
  BY <1>5, OpsAssumption DEF RunPre, nfp_net_reconfig_start, TypeOK, Stops,
     Firm, RegisterTells, Timers, Watched, Busy, Done
<1>6. ASSUME StartOwn PROVE IWatched'
  BY <1>6, OpsAssumption DEF StartOwn, nfp_net_reconfig_start, Request,
     TypeOK, Stops, Firm, RegisterTells, Timers, Watched, Busy, Done
<1>7. ASSUME WaitOwn PROVE IWatched'
  BY <1>7, OpsAssumption DEF WaitOwn, TypeOK, Stops, Firm, RegisterTells,
     Timers, Watched, Busy, Done
<1>8. ASSUME Finish PROVE IWatched'
  BY <1>8, OpsAssumption DEF Finish, NoneToKickOff, SyncLeaves,
     nfp_net_reconfig_start_async, nfp_net_reconfig_start, Merged, TypeOK,
     Stops, Firm, RegisterTells, Timers, Watched, Busy, Done
<1>9. ASSUME Leave PROVE IWatched'
  BY <1>9, OpsAssumption DEF Leave, SyncLeaves, TypeOK, Stops, Firm,
     RegisterTells, Timers, Watched, Busy, Done
<1>a. ASSUME TimerFires PROVE IWatched'
  BY <1>a, OpsAssumption DEF TimerFires, WaitOver, TypeOK, Stops, Firm,
     RegisterTells, Timers, Watched, Busy, Done
<1>b. ASSUME nfp_net_reconfig_timer PROVE IWatched'
  BY <1>b, OpsAssumption DEF nfp_net_reconfig_timer, NothingToRun,
     nfp_net_reconfig_start_async, nfp_net_reconfig_start, Merged, TypeOK,
     Stops, Firm, RegisterTells, Timers, Watched, Busy, Done
<1>c. ASSUME FwTake PROVE IWatched'
  BY <1>c, OpsAssumption DEF FwTake, TypeOK, Stops, Firm, RegisterTells,
     Timers, Watched, Busy, Done
<1>d. ASSUME FwIgnore PROVE IWatched'
  BY <1>d, OpsAssumption DEF FwIgnore, TypeOK, Stops, Firm, RegisterTells,
     Timers, Watched, Busy, Done
<1>e. ASSUME NEW error \in BOOLEAN, FwDone(error) PROVE IWatched'
  BY <1>e, OpsAssumption DEF FwDone, TypeOK, Stops, Firm, RegisterTells,
     Timers, Watched, Busy, Done
<1>f. ASSUME UNCHANGED vars PROVE IWatched'
  BY <1>f, OpsAssumption DEF vars, TypeOK, Stops, Firm, RegisterTells,
     Timers, Watched, Busy, Done
<1> QED
  BY <1>1, <1>2, <1>3, <1>4, <1>5, <1>6, <1>7, <1>8, <1>9, <1>a,
     <1>b, <1>c, <1>d, <1>e, <1>f
  DEF Next, Caller, Timer, Firmware

(* Until a deadline was missed or a handler overtaken, no update is        *)
(* started over another one, and callers find the firmware quiet when they *)
(* start their own or leave.                                               *)
THEOREM UpdatesOneAtATime == Spec => []OneAtATime
<1>1. IStops /\ IFirm /\ ITimers /\ IWatched /\ [Next]_vars => IWatched'
  BY NextWatched
<1>2. Spec => []IWatched
  BY <1>1, InitWatched, StopsInv, FirmInv, TimersInv, PTL DEF Spec
<1>3. IStops /\ IFirm /\ ITimers /\ IWatched => OneAtATime
  BY DEF IStops, TypeOK, IFirm, Firm, RegisterTells, ITimers, Timers, IWatched,
     Watched, OneAtATime, Quiet, InSync
<1> QED BY <1>2, <1>3, StopsInv, FirmInv, TimersInv, PTL

----------------------------------------------------------------------------
(* Each step keeps somebody responsible for what is posted.                *)
LEMMA NextKicked ==
  ASSUME KickedOffUnlessLeft, [Next]_vars
  PROVE KickedOffUnlessLeft'
<1> USE DEF DriverRuns, DriverWaited, MayOvertake,
         regVars, fwVars, postedVars, timerVars, callerVars, requestVars
<1>1. ASSUME NEW u \in Posted, nfp_net_reconfig_post(u)
      PROVE KickedOffUnlessLeft'
  BY <1>1 DEF nfp_net_reconfig_post, nfp_net_reconfig_start_async,
     nfp_net_reconfig_start, MayStart, Merged, Request, KickedOffUnlessLeft
<1>2. ASSUME NEW o \in Ops, nfp_net_reconfig_sync_enter(o)
      PROVE KickedOffUnlessLeft'
  BY <1>2 DEF nfp_net_reconfig_sync_enter, AfterOld, KickedOffUnlessLeft
<1>3. ASSUME DelTimer PROVE KickedOffUnlessLeft'
  BY <1>3 DEF DelTimer, TimerAfterDel, KickedOffUnlessLeft
<1>4. ASSUME WaitEarlier PROVE KickedOffUnlessLeft'
  BY <1>4 DEF WaitEarlier, AfterOld, WaitOver, KickedOffUnlessLeft
<1>5. ASSUME RunPre PROVE KickedOffUnlessLeft'
  BY <1>5 DEF RunPre, nfp_net_reconfig_start, KickedOffUnlessLeft
<1>6. ASSUME StartOwn PROVE KickedOffUnlessLeft'
  BY <1>6 DEF StartOwn, nfp_net_reconfig_start, Request, KickedOffUnlessLeft
<1>7. ASSUME WaitOwn PROVE KickedOffUnlessLeft'
  BY <1>7 DEF WaitOwn, KickedOffUnlessLeft
<1>8. ASSUME Finish PROVE KickedOffUnlessLeft'
  BY <1>8 DEF Finish, NoneToKickOff, SyncLeaves,
     nfp_net_reconfig_start_async, nfp_net_reconfig_start, Merged,
     KickedOffUnlessLeft
<1>9. ASSUME Leave PROVE KickedOffUnlessLeft'
  BY <1>9 DEF Leave, SyncLeaves, KickedOffUnlessLeft
<1>a. ASSUME TimerFires PROVE KickedOffUnlessLeft'
  BY <1>a DEF TimerFires, WaitOver, KickedOffUnlessLeft
<1>b. ASSUME nfp_net_reconfig_timer PROVE KickedOffUnlessLeft'
  BY <1>b DEF nfp_net_reconfig_timer, NothingToRun,
     nfp_net_reconfig_start_async, nfp_net_reconfig_start, Merged,
     KickedOffUnlessLeft
<1>c. ASSUME FwTake PROVE KickedOffUnlessLeft'
  BY <1>c DEF FwTake, KickedOffUnlessLeft
<1>d. ASSUME FwIgnore PROVE KickedOffUnlessLeft'
  BY <1>d DEF FwIgnore, KickedOffUnlessLeft
<1>e. ASSUME NEW error \in BOOLEAN, FwDone(error) PROVE KickedOffUnlessLeft'
  BY <1>e DEF FwDone, KickedOffUnlessLeft
<1>f. ASSUME UNCHANGED vars PROVE KickedOffUnlessLeft'
  BY <1>f DEF vars, KickedOffUnlessLeft
<1> QED
  BY <1>1, <1>2, <1>3, <1>4, <1>5, <1>6, <1>7, <1>8, <1>9, <1>a,
     <1>b, <1>c, <1>d, <1>e, <1>f
  DEF Next, Caller, Timer, Firmware

(* Posted requests wait only for a caller that will start them or for the  *)
(* timer, whatever deadlines are missed and handlers overtaken; but for    *)
(* those that nfp_net_reconfig_wait_posted() left behind.                  *)
THEOREM PostedAreKickedOff == Spec => []KickedOffUnlessLeft
<1>1. Init => KickedOffUnlessLeft
  BY DEF Init, KickedOffUnlessLeft
<1>2. KickedOffUnlessLeft /\ [Next]_vars => KickedOffUnlessLeft'
  BY NextKicked
<1> QED BY <1>1, <1>2, PTL DEF Spec

=============================================================================
