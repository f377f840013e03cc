---------------------------- MODULE TxRingProofs ----------------------------
(***************************************************************************)
(* Proofs about TxRing, for any size of ring, pointer and packet.          *)
(*                                                                         *)
(* The first invariant, of the descriptors, assumes nothing of the         *)
(* environment.  The second, that an open queue has room while completions *)
(* are in time, rests on the first; that a full ring is never met needs    *)
(* that they always are.  The third, of the buffers, rests on the first as *)
(* well, and on the arithmetic of slots.  The last part is about the ring  *)
(* at rest, when nobody has to go on: it is empty and open.                *)
(***************************************************************************)
EXTENDS TxRing, TLAPS

(* What the assumption says of the sizes. *)
LEMMA Sizes ==
  /\ Cnt \in Nat /\ PtrMod \in Nat /\ MaxFrags \in Nat /\ MaxBehind \in Nat
  /\ 0 < StopRoom /\ StopRoom \in Nat /\ WakeRoom \in Nat
  /\ 0 < Cnt /\ WakeRoom < Cnt /\ Cnt <= PtrMod
  /\ Packets \subseteq 1 .. StopRoom
BY RingAssumption DEF StopRoom, WakeRoom

----------------------------------------------------------------------------
(* Where everybody is.  While the interface is closed, nobody is under way *)
(* and the queue is stopped.                                               *)
Places ==
  /\ stopped \in BOOLEAN /\ more \in BOOLEAN
  /\ xmit \in {"idle", "busy", "posted", "stop", "recheck", "account"}
  /\ napi \in {"idle", "loop", "clean", "test", "wake"}
  /\ dev \in {"up", "napi_off", "tx_off", "down"}
  /\ dev # "up" => napi = "idle"
  /\ dev \in {"tx_off", "down"} => xmit = "idle" /\ ~more /\ stopped

(* Everybody starts outside, with the interface up. *)
LEMMA PlacesHold ==
  Init => Places
BY DEF Init, Places

(* No step leads anybody to a place that is not on the list. *)
LEMMA PlacesStep ==
  Places /\ [Next]_vars => Places'
<1> SUFFICES ASSUME Places, [Next]_vars PROVE Places'
  OBVIOUS
<1> USE DEF Places, driver, device, stack, poll
<1>1. ASSUME NEW n \in Packets, NEW m \in BOOLEAN, XmitPost(n, m) PROVE Places'
  BY <1>1 DEF XmitPost, Called
<1>2. ASSUME NEW n \in Packets, NEW m \in BOOLEAN, XmitFull(n, m) PROVE Places'
  BY <1>2 DEF XmitFull, Called
<1>3. ASSUME NEW n \in Packets, NEW m \in BOOLEAN, NEW k \in 0 .. n - 1,
             XmitFails(n, m, k)
      PROVE Places'
  BY <1>3 DEF XmitFails, Called
<1>4. ASSUME XmitBusy PROVE Places'
  BY <1>4 DEF XmitBusy
<1>5. ASSUME XmitPosted PROVE Places'
  BY <1>5 DEF XmitPosted
<1>6. ASSUME RingStop PROVE Places'
  BY <1>6 DEF RingStop
<1>7. ASSUME RingStopRecheck PROVE Places'
  BY <1>7 DEF RingStopRecheck
<1>8. ASSUME XmitAccount PROVE Places'
  BY <1>8 DEF XmitAccount
<1>9. ASSUME StackBreaks PROVE Places'
  BY <1>9 DEF StackBreaks
<1>10. ASSUME CompleteStart PROVE Places'
  BY <1>10 DEF CompleteStart
<1>11. ASSUME CompleteNext PROVE Places'
  BY <1>11 DEF CompleteNext
<1>12. ASSUME CompleteClean PROVE Places'
  BY <1>12 DEF CompleteClean
<1>13. ASSUME CompleteLoopDone PROVE Places'
  BY <1>13 DEF CompleteLoopDone
<1>14. ASSUME CompleteTest PROVE Places'
  BY <1>14 DEF CompleteTest
<1>15. ASSUME CompleteWake PROVE Places'
  BY <1>15 DEF CompleteWake
<1>16. ASSUME DeviceReads PROVE Places'
  BY <1>16 DEF DeviceReads
<1>17. ASSUME NapiDisable PROVE Places'
  BY <1>17 DEF NapiDisable
<1>18. ASSUME TxDisable PROVE Places'
  BY <1>18 DEF TxDisable
<1>19. ASSUME RingReset PROVE Places'
  BY <1>19 DEF RingReset
<1>20. ASSUME OpenStack PROVE Places'
  BY <1>20 DEF OpenStack
<1>21. ASSUME UNCHANGED vars PROVE Places'
  BY <1>21 DEF vars
<1>22. QED
  BY <1>1, <1>2, <1>3, <1>4, <1>5, <1>6, <1>7, <1>8, <1>9, <1>10, <1>11,
     <1>12, <1>13, <1>14, <1>15, <1>16, <1>17, <1>18, <1>19, <1>20, <1>21
  DEF Next, Xmit, XmitGoesOn, nfp_net_tx_complete, CloseOpen

----------------------------------------------------------------------------
(* The pointers, and what RingNotOverrun and DescriptorsAccounted need of  *)
(* each other: the differences of pointers are exact because the ring is   *)
(* not overrun, and it is not overrun because they are.                    *)
Pointers ==
  /\ wr_p \in 0 .. PtrMod - 1 /\ rd_p \in 0 .. PtrMod - 1
  /\ qcp_rd_p \in 0 .. Cnt - 1 /\ seen \in 0 .. Cnt - 1 /\ todo \in 0 .. Cnt - 1
  /\ qc_wr \in 0 .. Cnt - 1 /\ qc_rd \in 0 .. Cnt - 1
  /\ wr_ptr_add \in Nat /\ behind \in Nat /\ posting \in 0 .. StopRoom
  /\ dev = "down" => qc_wr = 0 /\ qc_rd = 0 /\ qcp_rd_p = 0 /\ wr_ptr_add = 0

Counts == Pointers /\ RingNotOverrun /\ DescriptorsAccounted

(* The ring starts empty. *)
LEMMA CountsHold ==
  Init => Counts
BY Sizes
DEF Init, Counts, Pointers, RingNotOverrun, DescriptorsAccounted, Used,
    PtrMinus, RingMinus, Posting, Unread, Unseen, Uncleaned

(* Each action moves its descriptors from one term of the sum to the next. *)
LEMMA CountsStep ==
  Places /\ Counts /\ [Next]_vars => Counts'
<1> SUFFICES ASSUME Places, Counts, [Next]_vars PROVE Counts'
  OBVIOUS
<1>a. /\ xmit \in {"idle", "busy", "posted", "stop", "recheck", "account"}
      /\ napi \in {"idle", "loop", "clean", "test", "wake"}
      /\ dev # "up" => napi = "idle"
      /\ dev \in {"tx_off", "down"} => xmit = "idle"
  BY DEF Places
<1> USE Sizes, <1>a
    DEF Counts, Pointers, RingNotOverrun, DescriptorsAccounted, Used,
        PtrMinus, RingMinus, Posting, Unread, Unseen, Uncleaned,
        driver, device, stack, poll
<1>1. ASSUME NEW n \in Packets, NEW m \in BOOLEAN, XmitPost(n, m) PROVE Counts'
  <2>1. /\ xmit = "idle" /\ xmit' = "posted" /\ posting' = n
        /\ Used < Cnt - n /\ wr_p' = PtrPlus(wr_p, n)
        /\ behind' \in Nat
        /\ UNCHANGED <<rd_p, wr_ptr_add, qcp_rd_p, device, napi, todo, seen,
                       dev>>
    BY <1>1 DEF XmitPost, Called, nfp_net_tx_full
  <2>2. QED
    BY <2>1 DEF PtrPlus
<1>2. ASSUME NEW n \in Packets, NEW m \in BOOLEAN, XmitFull(n, m) PROVE Counts'
  BY <1>2 DEF XmitFull, Called
<1>3. ASSUME NEW n \in Packets, NEW m \in BOOLEAN, NEW k \in 0 .. n - 1,
             XmitFails(n, m, k)
      PROVE Counts'
  BY <1>3 DEF XmitFails, RingDoorbell, RingPlus
<1>4. ASSUME XmitBusy PROVE Counts'
  BY <1>4 DEF XmitBusy, RingDoorbell, RingPlus
<1>5. ASSUME XmitPosted PROVE Counts'
  BY <1>5 DEF XmitPosted
<1>6. ASSUME RingStop PROVE Counts'
  BY <1>6 DEF RingStop
<1>7. ASSUME RingStopRecheck PROVE Counts'
  BY <1>7 DEF RingStopRecheck
<1>8. ASSUME XmitAccount PROVE Counts'
  <2>1. /\ xmit = "account" /\ xmit' = "idle" /\ posting' = 0
        /\ UNCHANGED <<wr_p, rd_p, qcp_rd_p, qc_rd, poll, dev>>
    BY <1>8 DEF XmitAccount
  <2>2. \/ RingDoorbell(wr_ptr_add + posting)
        \/ wr_ptr_add' = wr_ptr_add + posting /\ UNCHANGED qc_wr
    BY <1>8 DEF XmitAccount
  <2>3. CASE RingDoorbell(wr_ptr_add + posting)
    BY <2>1, <2>3 DEF RingDoorbell, RingPlus
  <2>4. CASE wr_ptr_add' = wr_ptr_add + posting /\ UNCHANGED qc_wr
    BY <2>1, <2>4
  <2>5. QED
    BY <2>2, <2>3, <2>4
<1>9. ASSUME StackBreaks PROVE Counts'
  BY <1>9 DEF StackBreaks
<1>10. ASSUME CompleteStart PROVE Counts'
  BY <1>10 DEF CompleteStart
<1>11. ASSUME CompleteNext PROVE Counts'
  BY <1>11 DEF CompleteNext, PtrPlus
<1>12. ASSUME CompleteClean PROVE Counts'
  BY <1>12 DEF CompleteClean
<1>13. ASSUME CompleteLoopDone PROVE Counts'
  BY <1>13 DEF CompleteLoopDone, Completed
<1>14. ASSUME CompleteTest PROVE Counts'
  BY <1>14 DEF CompleteTest
<1>15. ASSUME CompleteWake PROVE Counts'
  BY <1>15 DEF CompleteWake
<1>16. ASSUME DeviceReads PROVE Counts'
  BY <1>16 DEF DeviceReads, RingPlus
<1>17. ASSUME NapiDisable PROVE Counts'
  BY <1>17 DEF NapiDisable
<1>18. ASSUME TxDisable PROVE Counts'
  BY <1>18 DEF TxDisable
<1>19. ASSUME RingReset PROVE Counts'
  BY <1>19 DEF RingReset
<1>20. ASSUME OpenStack PROVE Counts'
  BY <1>20 DEF OpenStack
<1>21. ASSUME UNCHANGED vars PROVE Counts'
  BY <1>21 DEF vars
<1>22. QED
  BY <1>1, <1>2, <1>3, <1>4, <1>5, <1>6, <1>7, <1>8, <1>9, <1>10, <1>11,
     <1>12, <1>13, <1>14, <1>15, <1>16, <1>17, <1>18, <1>19, <1>20, <1>21
  DEF Next, Xmit, XmitGoesOn, nfp_net_tx_complete, CloseOpen

----------------------------------------------------------------------------
(* A doorbell that is put off: the packet that put it off said that more   *)
(* will come, and found the queue open.                                    *)
LEMMA FlushStep ==
  Places /\ NothingUnflushed /\ [Next]_vars => NothingUnflushed'
<1> SUFFICES ASSUME Places, NothingUnflushed, [Next]_vars
             PROVE  NothingUnflushed'
  OBVIOUS
<1> USE DEF Places, NothingUnflushed, RingDoorbell, driver, device, stack, poll
<1>1. ASSUME NEW n \in Packets, NEW m \in BOOLEAN, XmitPost(n, m)
      PROVE NothingUnflushed'
  BY <1>1 DEF XmitPost, Called
<1>2. ASSUME NEW n \in Packets, NEW m \in BOOLEAN, XmitFull(n, m)
      PROVE NothingUnflushed'
  BY <1>2 DEF XmitFull, Called
<1>3. ASSUME NEW n \in Packets, NEW m \in BOOLEAN, NEW k \in 0 .. n - 1,
             XmitFails(n, m, k)
      PROVE NothingUnflushed'
  BY <1>3 DEF XmitFails, Called
<1>4. ASSUME XmitBusy PROVE NothingUnflushed'
  BY <1>4 DEF XmitBusy
<1>5. ASSUME XmitPosted PROVE NothingUnflushed'
  BY <1>5 DEF XmitPosted
<1>6. ASSUME RingStop PROVE NothingUnflushed'
  BY <1>6 DEF RingStop
<1>7. ASSUME RingStopRecheck PROVE NothingUnflushed'
  BY <1>7 DEF RingStopRecheck
<1>8. ASSUME XmitAccount PROVE NothingUnflushed'
  BY <1>8 DEF XmitAccount, SentQueue
<1>9. ASSUME StackBreaks PROVE NothingUnflushed'
  BY <1>9 DEF StackBreaks
<1>10. ASSUME CompleteStart PROVE NothingUnflushed'
  BY <1>10 DEF CompleteStart
<1>11. ASSUME CompleteNext PROVE NothingUnflushed'
  BY <1>11 DEF CompleteNext
<1>12. ASSUME CompleteClean PROVE NothingUnflushed'
  BY <1>12 DEF CompleteClean
<1>13. ASSUME CompleteLoopDone PROVE NothingUnflushed'
  BY <1>13 DEF CompleteLoopDone
<1>14. ASSUME CompleteTest PROVE NothingUnflushed'
  BY <1>14 DEF CompleteTest
<1>15. ASSUME CompleteWake PROVE NothingUnflushed'
  BY <1>15 DEF CompleteWake
<1>16. ASSUME DeviceReads PROVE NothingUnflushed'
  BY <1>16 DEF DeviceReads
<1>17. ASSUME NapiDisable PROVE NothingUnflushed'
  BY <1>17 DEF NapiDisable
<1>18. ASSUME TxDisable PROVE NothingUnflushed'
  BY <1>18 DEF TxDisable
<1>19. ASSUME RingReset PROVE NothingUnflushed'
  BY <1>19 DEF RingReset
<1>20. ASSUME OpenStack PROVE NothingUnflushed'
  BY <1>20 DEF OpenStack
<1>21. ASSUME UNCHANGED vars PROVE NothingUnflushed'
  BY <1>21 DEF vars
<1>22. QED
  BY <1>1, <1>2, <1>3, <1>4, <1>5, <1>6, <1>7, <1>8, <1>9, <1>10, <1>11,
     <1>12, <1>13, <1>14, <1>15, <1>16, <1>17, <1>18, <1>19, <1>20, <1>21
  DEF Next, Xmit, XmitGoesOn, nfp_net_tx_complete, CloseOpen

----------------------------------------------------------------------------
(* Room.  What a completion has seen is out of date by no more than was    *)
(* posted behind its back.                                                 *)
Room      == Used < Cnt - StopRoom
WakeSound ==
  napi \in {"test", "wake"} => Used < Cnt - WakeRoom + behind
RoomInv   ==
  /\ WakeSound
  /\ xmit \in {"idle", "recheck", "account"} /\ ~stopped /\ InTime => Room

(* A queue is woken with more room than it is stopped with. *)
LEMMA Marks ==
  StopRoom <= WakeRoom
BY RingAssumption DEF StopRoom, WakeRoom

(* The empty ring has room for the largest packet. *)
LEMMA RoomHolds ==
  Init => RoomInv
<1> SUFFICES ASSUME Init PROVE RoomInv
  OBVIOUS
<1>1. Used = 0
  BY Sizes DEF Init, Used, PtrMinus
<1>2. Room
  BY <1>1, Sizes, Marks DEF Room
<1>3. QED
  BY <1>2 DEF Init, RoomInv, WakeSound

(* Only posting takes room, and it takes what was asked for. *)
LEMMA PostUses ==
  ASSUME Counts, NEW n \in Packets, NEW m, XmitPost(n, m)
  PROVE  Used' = Used + n /\ Used' \in Nat
<1>1. /\ wr_p \in 0 .. PtrMod - 1 /\ rd_p \in 0 .. PtrMod - 1
      /\ Used \in Nat /\ Used < Cnt
  BY Sizes DEF Counts, Pointers, RingNotOverrun, Used, PtrMinus
<1>2. Used < Cnt - n /\ wr_p' = PtrPlus(wr_p, n) /\ rd_p' = rd_p /\ n \in Nat
  BY <1>1, Sizes DEF XmitPost, nfp_net_tx_full
<1>3. QED
  BY <1>1, <1>2, Sizes DEF PtrPlus, Used, PtrMinus

(* No other step fills the ring further. *)
LEMMA OthersUseNothing ==
  ASSUME Places, Counts, [Next]_vars,
         ~ \E n \in Packets, m \in BOOLEAN : XmitPost(n, m)
  PROVE  Used' \in Int /\ Used' <= Used
<1> USE Sizes DEF driver, device, stack, poll
<1>a. /\ wr_p \in 0 .. PtrMod - 1 /\ rd_p \in 0 .. PtrMod - 1
      /\ Used \in Nat /\ Used < Cnt
  BY DEF Counts, Pointers, RingNotOverrun, Used, PtrMinus
<1>b. ASSUME UNCHANGED <<wr_p, rd_p>> PROVE Used' \in Int /\ Used' <= Used
  BY <1>a, <1>b DEF Used, PtrMinus
<1>2. ASSUME CompleteNext PROVE Used' \in Int /\ Used' <= Used
  <2>1. todo > 0 /\ napi = "loop" /\ rd_p' = PtrPlus(rd_p, 1) /\ wr_p' = wr_p
    BY <1>2 DEF CompleteNext
  <2>2. xmit \in {"idle", "busy", "posted", "stop", "recheck", "account"}
    BY DEF Places
  <2>3. Used > 0
    BY <2>1, <2>2 DEF Counts, Pointers, DescriptorsAccounted, Posting, Unread,
       Unseen, Uncleaned, RingMinus
  <2>4. QED
    BY <2>1, <2>3, <1>a DEF PtrPlus, Used, PtrMinus
<1>3. ASSUME RingReset PROVE Used' \in Int /\ Used' <= Used
  BY <1>3, <1>a DEF RingReset, Used, PtrMinus
<1>4. ASSUME \/ XmitGoesOn \/ DeviceReads \/ NapiDisable \/ TxDisable
             \/ OpenStack \/ UNCHANGED vars
      PROVE  UNCHANGED <<wr_p, rd_p>>
  BY <1>4
  DEF XmitGoesOn, XmitBusy, XmitPosted, RingStop, RingStopRecheck, XmitAccount,
      StackBreaks, DeviceReads, NapiDisable, TxDisable, OpenStack, vars
<1>5. ASSUME nfp_net_tx_complete PROVE CompleteNext \/ UNCHANGED <<wr_p, rd_p>>
  BY <1>5
  DEF nfp_net_tx_complete, CompleteStart, CompleteClean, CompleteLoopDone,
      CompleteTest, CompleteWake
<1>6. ASSUME Xmit PROVE UNCHANGED <<wr_p, rd_p>>
  BY <1>6 DEF Xmit, XmitFull, XmitFails
<1>7. QED
  BY <1>b, <1>2, <1>3, <1>4, <1>5, <1>6 DEF Next, CloseOpen

(* An open queue keeps its room: posting ends in a look at it, and who
   wakes the queue in time has seen enough of it. *)
LEMMA RoomStep ==
  ASSUME Places, Counts, RoomInv, [Next]_vars
  PROVE  RoomInv'
<1>a. Used \in Nat /\ behind \in Nat
  BY Sizes DEF Counts, Pointers, Used, PtrMinus
<1>1. CASE \E n \in Packets, m \in BOOLEAN : XmitPost(n, m)
  <2>1. PICK n \in Packets, m \in BOOLEAN : XmitPost(n, m)
    BY <1>1
  <2>2. Used' = Used + n /\ n \in Nat
    BY <2>1, PostUses, Sizes
  <2>3. /\ napi' = napi /\ xmit' = "posted"
        /\ napi \in {"test", "wake"} => behind' = behind + n
    BY <2>1 DEF XmitPost
  <2>4. QED
    BY <2>2, <2>3, <1>a, Sizes DEF RoomInv, WakeSound
<1>2. CASE ~ \E n \in Packets, m \in BOOLEAN : XmitPost(n, m)
  <2> USE DEF Places, driver, device, stack, poll
  <2>u. Used' \in Int /\ Used' <= Used
    BY <1>2, OthersUseNothing
  <2>r. Room => Room'
    BY <2>u, <1>a, Sizes DEF Room
  <2>t. ~nfp_net_tx_full(WakeRoom) => Room
    BY <1>a, Sizes, Marks DEF nfp_net_tx_full, Room
  <2>s. ~nfp_net_tx_full(StopRoom) => Room
    BY <1>a, Sizes DEF nfp_net_tx_full, Room
  <2>w. ASSUME behind' = behind,
               napi' \in {"test", "wake"} => napi \in {"test", "wake"}
        PROVE  WakeSound'
    BY <2>w, <2>u, <1>a, Sizes DEF RoomInv, WakeSound
  <2>i. behind' = behind => InTime' = InTime
    BY DEF InTime, WakeRoom, StopRoom
  <2>k. napi = "wake" /\ InTime => Room
    BY <1>a, Sizes DEF InTime, RoomInv, WakeSound, Room
  <2>z. dev = "down" => Room'
    <3>1. ASSUME dev = "down" PROVE Used = 0
      BY <3>1, Sizes
      DEF Counts, Pointers, DescriptorsAccounted, Posting, Unread, Unseen,
          Uncleaned, RingMinus
    <3>2. QED
      BY <3>1, <2>u, Sizes, Marks DEF Room
  <2>1. ASSUME NEW n \in Packets, NEW m \in BOOLEAN, XmitPost(n, m)
        PROVE RoomInv'
    BY <2>1, <1>2
  <2>2. ASSUME NEW n \in Packets, NEW m \in BOOLEAN, XmitFull(n, m)
        PROVE RoomInv'
    BY <2>2, <2>i, <2>r, <2>w DEF XmitFull, Called, RoomInv
  <2>3. ASSUME NEW n \in Packets, NEW m \in BOOLEAN, NEW k \in 0 .. n - 1,
               XmitFails(n, m, k)
        PROVE RoomInv'
    BY <2>3, <2>i, <2>r, <2>w DEF XmitFails, Called, RoomInv
  <2>4. ASSUME XmitBusy PROVE RoomInv'
    BY <2>4, <2>i, <2>r, <2>w DEF XmitBusy, RoomInv
  <2>5. ASSUME XmitPosted PROVE RoomInv'
    BY <2>5, <2>i, <2>r, <2>s, <2>w DEF XmitPosted, ShouldStop, RoomInv
  <2>6. ASSUME RingStop PROVE RoomInv'
    BY <2>6, <2>i, <2>r, <2>w DEF RingStop, RoomInv
  <2>7. ASSUME RingStopRecheck PROVE RoomInv'
    BY <2>7, <2>i, <2>r, <2>t, <2>w DEF RingStopRecheck, ShouldWake, RoomInv
  <2>8. ASSUME XmitAccount PROVE RoomInv'
    BY <2>8, <2>i, <2>r, <2>w DEF XmitAccount, RoomInv
  <2>9. ASSUME StackBreaks PROVE RoomInv'
    BY <2>9, <2>i, <2>r, <2>w DEF StackBreaks, RoomInv
  <2>10. ASSUME CompleteStart PROVE RoomInv'
    BY <2>10, <2>i, <2>r, <2>w DEF CompleteStart, RoomInv
  <2>11. ASSUME CompleteNext PROVE RoomInv'
    BY <2>11, <2>i, <2>r, <2>w DEF CompleteNext, RoomInv
  <2>12. ASSUME CompleteClean PROVE RoomInv'
    BY <2>12, <2>i, <2>r, <2>w DEF CompleteClean, RoomInv
  <2>13. ASSUME CompleteLoopDone PROVE RoomInv'
    <3>1. Used' = Used
      BY <2>13 DEF CompleteLoopDone, Used
    <3>2. CASE ShouldWake
      <4>1. behind' = 0 /\ ~nfp_net_tx_full(WakeRoom)
        BY <2>13, <3>2 DEF CompleteLoopDone, ShouldWake
      <4>2. WakeSound'
        BY <4>1, <3>1, <1>a, Sizes DEF nfp_net_tx_full, WakeSound
      <4>3. QED
        BY <4>1, <4>2, <2>r, <2>t DEF RoomInv
    <3>3. CASE ~ShouldWake
      BY <2>13, <3>3, <2>r, <2>i DEF CompleteLoopDone, RoomInv, WakeSound
    <3>4. QED
      BY <3>2, <3>3
  <2>14. ASSUME CompleteTest PROVE RoomInv'
    BY <2>14, <2>i, <2>r, <2>w DEF CompleteTest, RoomInv
  <2>15. ASSUME CompleteWake PROVE RoomInv'
    BY <2>15, <2>i, <2>r, <2>k, <2>w DEF CompleteWake, RoomInv
  <2>16. ASSUME DeviceReads PROVE RoomInv'
    BY <2>16, <2>i, <2>r, <2>w DEF DeviceReads, RoomInv
  <2>17. ASSUME NapiDisable PROVE RoomInv'
    BY <2>17, <2>i, <2>r, <2>w DEF NapiDisable, RoomInv
  <2>18. ASSUME TxDisable PROVE RoomInv'
    BY <2>18, <2>i, <2>r, <2>w DEF TxDisable, RoomInv
  <2>19. ASSUME RingReset PROVE RoomInv'
    BY <2>19, <2>i, <2>r, <2>w DEF RingReset, RoomInv
  <2>20. ASSUME OpenStack PROVE RoomInv'
    BY <2>20, <2>i, <2>z, <2>w DEF OpenStack, RoomInv
  <2>21. ASSUME UNCHANGED vars PROVE RoomInv'
    BY <2>21, <2>i, <2>r, <2>w DEF vars, RoomInv
  <2>22. QED
    BY <2>1, <2>2, <2>3, <2>4, <2>5, <2>6, <2>7, <2>8, <2>9, <2>10, <2>11,
       <2>12, <2>13, <2>14, <2>15, <2>16, <2>17, <2>18, <2>19, <2>20, <2>21
    DEF Next, Xmit, XmitGoesOn, nfp_net_tx_complete, CloseOpen
<1>3. QED
  BY <1>1, <1>2

----------------------------------------------------------------------------
(* The three invariants hold together. *)
LEMMA BaseInvariance ==
  Spec => [](Places /\ Counts /\ NothingUnflushed)
<1>1. Init => NothingUnflushed
  BY DEF Init, NothingUnflushed
<1>2. QED
  BY <1>1, PlacesHold, PlacesStep, CountsHold, CountsStep, FlushStep, PTL
  DEF Spec

(* However transmit, completion, device and closing interleave: the ring   *)
(* is never overrun, and every descriptor is accounted for.                *)
THEOREM RingIsSound ==
  Spec => [](RingNotOverrun /\ DescriptorsAccounted)
<1>1. Counts => RingNotOverrun /\ DescriptorsAccounted
  BY DEF Counts
<1>2. QED
  BY <1>1, BaseInvariance, PTL

(* However they interleave, an open queue has room for any packet, unless  *)
(* the completion that woke it was overtaken by more than lies between the *)
(* two marks.                                                              *)
THEOREM OpenQueuesHaveRoom ==
  Spec => []OpenHasRoom
<1>1. Places /\ Counts /\ RoomInv => OpenHasRoom
  BY Sizes DEF RoomInv, Room, OpenHasRoom, nfp_net_tx_full, Counts, Pointers,
     Used, PtrMinus
<1>2. Places /\ Counts /\ RoomInv /\ [Next]_vars => RoomInv'
  BY RoomStep
<1>3. QED
  BY <1>1, <1>2, RoomHolds, BaseInvariance, PTL DEF Spec

----------------------------------------------------------------------------
(* The branch for a full ring.  The driver counts on posting no more       *)
(* behind a completion's back than lies between the two marks.             *)
Prompt    == MaxBehind <= WakeRoom - StopRoom
NeverBusy == behind <= MaxBehind /\ xmit # "busy"

(* A packet is refused only where the room that was promised is not there. *)
LEMMA NeverBusyStep ==
  ASSUME Prompt, Places, Counts, OpenHasRoom, NeverBusy, [Next]_vars
  PROVE  NeverBusy'
<1>1. CASE \E n \in Packets, m \in BOOLEAN : XmitPost(n, m)
  BY <1>1 DEF XmitPost, NeverBusy
<1>2. CASE \E n \in Packets, m \in BOOLEAN : XmitFull(n, m)
  <2>1. PICK n \in Packets, m \in BOOLEAN : XmitFull(n, m)
    BY <1>2
  <2>2. Used \in Nat /\ n <= StopRoom /\ n \in Nat /\ behind \in Nat
    BY Sizes DEF Counts, Pointers, Used, PtrMinus
  <2>3. InTime
    BY <2>2, Sizes DEF NeverBusy, Prompt, InTime
  <2>4. ~nfp_net_tx_full(StopRoom) /\ nfp_net_tx_full(n)
    BY <2>1, <2>3 DEF XmitFull, Called, OpenHasRoom
  <2>5. QED
    BY <2>2, <2>4, Sizes DEF nfp_net_tx_full
<1>3. CASE ~ \E n \in Packets, m \in BOOLEAN : XmitPost(n, m) \/ XmitFull(n, m)
  <2>1. behind' \in {0, behind} /\ (xmit' = "busy" => xmit = "busy")
    BY <1>3
    DEF Next, Xmit, XmitGoesOn, nfp_net_tx_complete, CloseOpen, XmitFails,
        XmitBusy, XmitPosted, RingStop, RingStopRecheck, XmitAccount,
        StackBreaks, CompleteStart, CompleteNext, CompleteClean,
        CompleteLoopDone, CompleteTest, CompleteWake, DeviceReads, NapiDisable,
        TxDisable, RingReset, OpenStack, driver, device, stack, poll, vars, Called
  <2>2. QED
    BY <2>1, Sizes DEF NeverBusy
<1>4. QED
  BY <1>1, <1>2, <1>3

(* If completion is prompt, NETDEV_TX_BUSY is never returned.              *)
THEOREM BusyIsDead ==
  ASSUME Prompt
  PROVE  Spec => [](xmit # "busy")
<1>1. Init => NeverBusy
  BY Sizes DEF Init, NeverBusy
<1>2. Places /\ Counts /\ OpenHasRoom /\ NeverBusy /\ [Next]_vars => NeverBusy'
  BY NeverBusyStep, Prompt
<1>3. NeverBusy => xmit # "busy"
  BY DEF NeverBusy
<1>4. QED
  BY <1>1, <1>2, <1>3, OpenQueuesHaveRoom, BaseInvariance, PTL DEF Spec

----------------------------------------------------------------------------
(* The slot of a pointer is what is left of it after whole turns.          *)
LEMMA Euclid ==
  ASSUME NEW p \in Nat
  PROVE  /\ D_IDX(p) \in 0 .. Cnt - 1
         /\ \E k \in Nat : p = Cnt * k + D_IDX(p)
<1>1. p % Cnt \in 0 .. Cnt - 1 /\ p = Cnt * (p \div Cnt) + (p % Cnt)
  BY Sizes
<1>2. p \div Cnt \in Nat
  BY Sizes
<1> QED BY <1>1, <1>2 DEF D_IDX

(* A turn more is Cnt more. *)
LEMMA MulLess ==
  ASSUME NEW m \in Int, NEW n \in Int, m < n
  PROVE  Cnt * m \in Int /\ Cnt * n \in Int /\ Cnt * m + Cnt <= Cnt * n
  BY Sizes

(* A pointer has one slot and one number of turns. *)
LEMMA EuclidUnique ==
  ASSUME NEW k \in Int, NEW j \in Int, NEW r \in 0 .. Cnt - 1, NEW s \in 0 .. Cnt - 1,
         Cnt * k + r = Cnt * j + s
  PROVE  r = s /\ k = j
<1>1. CASE k < j
  BY <1>1, MulLess, Sizes
<1>2. CASE j < k
  BY <1>2, MulLess, Sizes
<1>3. CASE k = j
  BY <1>3, Sizes
<1> QED BY <1>1, <1>2, <1>3

(* Less than a turn apart, two pointers share no slot. *)
LEMMA SameSlot ==
  ASSUME NEW p \in Nat, NEW q \in Nat, p <= q, q - p < Cnt,
         D_IDX(p) = D_IDX(q)
  PROVE  p = q
<1>1. PICK j \in Nat : p = Cnt * j + D_IDX(p)
  BY Euclid
<1>2. PICK k \in Nat : q = Cnt * k + D_IDX(q)
  BY Euclid
<1> DEFINE r == D_IDX(p)
<1>3. r \in 0 .. Cnt - 1 /\ D_IDX(q) = r
  BY Euclid
<1> HIDE DEF r
<1>4. CASE j < k
  BY <1>1, <1>2, <1>3, <1>4, MulLess, Sizes DEF r
<1>5. CASE k < j
  BY <1>1, <1>2, <1>3, <1>5, MulLess, Sizes DEF r
<1>6. CASE k = j
  BY <1>1, <1>2, <1>3, <1>6
<1> QED BY <1>4, <1>5, <1>6

(* Whole turns lead back to the slot. *)
LEMMA WholeTurn ==
  ASSUME NEW p \in Nat, NEW q \in Nat, NEW m \in Nat, q = p + Cnt * m
  PROVE  D_IDX(q) = D_IDX(p)
<1>1. PICK j \in Nat : p = Cnt * j + D_IDX(p)
  BY Euclid
<1>2. PICK k \in Nat : q = Cnt * k + D_IDX(q)
  BY Euclid
<1>3. D_IDX(p) \in 0 .. Cnt - 1 /\ D_IDX(q) \in 0 .. Cnt - 1
  BY Euclid
<1>4. Cnt * (j + m) = Cnt * j + Cnt * m
  BY Sizes
<1>5. Cnt * (j + m) + D_IDX(p) = Cnt * k + D_IDX(q)
  <2> DEFINE a == D_IDX(p)
             b == D_IDX(q)
             x == Cnt * j
             y == Cnt * m
             z == Cnt * k
  <2>1. x \in Int /\ y \in Int /\ z \in Int /\ a \in Int /\ b \in Int
    BY <1>3, Sizes
  <2>2. p = x + a /\ q = z + b /\ q = p + y
    BY <1>1, <1>2
  <2> HIDE DEF a, b, x, y, z
  <2>3. (x + y) + a = z + b
    BY <2>1, <2>2
  <2> QED BY <1>4, <2>3 DEF a, b, x, y, z
<1> QED BY <1>3, <1>5, EuclidUnique

(* Every slot is met within a turn from anywhere. *)
LEMMA EverySlot ==
  ASSUME NEW p \in Nat, NEW s \in 0 .. Cnt - 1
  PROVE  RingMinus(s, D_IDX(p)) \in 0 .. Cnt - 1 /\ D_IDX(p + RingMinus(s, D_IDX(p))) = s
<1>1. PICK j \in Nat : p = Cnt * j + D_IDX(p)
  BY Euclid
<1> DEFINE r == D_IDX(p)
           i == RingMinus(s, r)
           q == p + i
           t == D_IDX(q)
<1>2. r \in 0 .. Cnt - 1
  BY Euclid
<1> HIDE DEF r
<1>3. i \in 0 .. Cnt - 1 /\ (r + i = s \/ r + i = s + Cnt)
  BY <1>2, Sizes DEF RingMinus
<1> HIDE DEF i
<1>4. q \in Nat
  BY <1>3, Sizes
<1>5. t \in 0 .. Cnt - 1 /\ \E k \in Nat : q = Cnt * k + t
  BY <1>4, Euclid
<1>6. PICK k \in Nat : q = Cnt * k + t
  BY <1>5
<1> HIDE DEF t
<1> DEFINE x == Cnt * j
<1>7. x \in Int /\ Cnt * (j + 1) = x + Cnt
  BY Sizes
<1>8. p = x + r
  BY <1>1 DEF r
<1> HIDE DEF x
<1>9. q = x + s \/ q = (x + Cnt) + s
  BY <1>2, <1>3, <1>7, <1>8, Sizes
<1> HIDE DEF q
<1>10. q = Cnt * j + s \/ q = Cnt * (j + 1) + s
  BY <1>7, <1>9 DEF x
<1>11. t = s
  BY <1>5, <1>6, <1>10, EuclidUnique
<1> QED BY <1>3, <1>11 DEF t, q, i, r

(* What the driver wraps at PtrMod stays on the slot it was on.            *)
LEMMA PtrPlusSlot ==
  ASSUME NEW p \in 0 .. PtrMod - 1, NEW d \in 0 .. PtrMod, NEW i \in Nat
  PROVE  PtrPlus(p, d) \in Nat /\ D_IDX(PtrPlus(p, d) + i) = D_IDX(p + (d + i))
<1>1. PICK m \in Nat : PtrMod = Cnt * m
  <2>1. PICK m \in Nat : PtrMod = Cnt * m + D_IDX(PtrMod)
    BY Sizes, Euclid
  <2>2. D_IDX(PtrMod) = 0
    BY WrapAssumption DEF D_IDX
  <2>3. Cnt * m \in Int
    BY Sizes
  <2> QED BY <2>1, <2>2, <2>3
<1> DEFINE q == PtrPlus(p, d) + i
           o == p + (d + i)
<1>2. q \in Nat /\ o \in Nat /\ (q = o \/ o = q + PtrMod) /\ PtrPlus(p, d) \in Nat
  BY Sizes DEF PtrPlus
<1> HIDE DEF q, o
<1>3. D_IDX(q) = D_IDX(o)
  BY <1>1, <1>2, WholeTurn
<1> QED BY <1>2, <1>3 DEF q, o

----------------------------------------------------------------------------
(* The buffers.  What a slot may hold, and the frames of the ring.         *)
Buffer  == [frags : 0 .. MaxFrags, fidx : -2 .. MaxFrags - 1]
Buffers == txbufs \in [0 .. Cnt - 1 -> Buffer]

(* The frames of a ring that holds u descriptors, the i-th of which has    *)
(* buffer b[i]; slot x may hold what it held last.                         *)
Framed(b, u, x) ==
  /\ \A i \in 0 .. u - 1 :
       /\ b[i] # Free
       /\ LET ends == b[i].fidx = b[i].frags - 1
          IN  IF i = u - 1 THEN ends
              ELSE /\ b[i + 1].fidx = IF ends THEN -1 ELSE b[i].fidx + 1
                   /\ ~ends => b[i + 1].frags = b[i].frags
  /\ \A i \in u .. Cnt - 1 : i # x => b[i] = Free

(* The buffers in the order of the ring. *)
View == [i \in 0 .. Cnt - 1 |-> Slot(i)]
Last == IF napi = "clean" THEN Cnt - 1 ELSE Cnt

(* The ring in its own order says what BuffersFramed says.                 *)
LEMMA FramesInView ==
  Counts => (BuffersFramed <=> Framed(View, Used, Last))
<1> SUFFICES ASSUME Counts PROVE BuffersFramed <=> Framed(View, Used, Last)
  OBVIOUS
<1>1. Used \in Nat /\ Used < Cnt /\ Cnt \in Nat
  BY Sizes DEF Counts, Pointers, RingNotOverrun, Used, PtrMinus
<1>2. \A i \in 0 .. Cnt - 1 : View[i] = Slot(i)
  BY DEF View
<1>3. \A i \in 0 .. Used - 1 : i \in 0 .. Cnt - 1 /\ (i # Used - 1 => i + 1 \in 0 .. Cnt - 1)
  BY <1>1
<1>4. \A i \in Used .. Cnt - 1 :
        i \in 0 .. Cnt - 1 /\ (i # Last <=> ~(napi = "clean" /\ i = Cnt - 1))
  BY <1>1 DEF Last
<1> HIDE DEF Used
<1>5. ASSUME NEW i \in 0 .. Used - 1
      PROVE  View[i] = Slot(i) /\ (i # Used - 1 => View[i + 1] = Slot(i + 1))
  BY <1>2, <1>3
<1>6. ASSUME NEW i \in Used .. Cnt - 1
      PROVE  View[i] = Slot(i) /\ (i # Last <=> ~(napi = "clean" /\ i = Cnt - 1))
  BY <1>2, <1>4
<1> QED BY <1>5, <1>6 DEF BuffersFramed, Framed

(* Two places of the ring are as far apart as their slots.                 *)
LEMMA SlotDistance ==
  ASSUME NEW p \in Nat, NEW i \in 0 .. Cnt - 1, NEW u \in 0 .. Cnt - 1
  PROVE  RingMinus(D_IDX(p + i), D_IDX(p + u)) = RingMinus(i, u)
<1> DEFINE s == D_IDX(p + i)
           j == RingMinus(s, D_IDX(p + u))
           k == RingMinus(i, u)
<1>1. p + i \in Nat /\ p + u \in Nat /\ s \in 0 .. Cnt - 1
  BY Sizes, Euclid
<1>2. j \in 0 .. Cnt - 1 /\ D_IDX((p + u) + j) = s
  <2> HIDE DEF s, j
  <2>1. ASSUME NEW q \in Nat, q = p + u
        PROVE  RingMinus(s, D_IDX(q)) \in 0 .. Cnt - 1
               /\ D_IDX(q + RingMinus(s, D_IDX(q))) = s
    BY <1>1, EverySlot
  <2> QED BY <1>1, <2>1 DEF j
<1>3. k \in 0 .. Cnt - 1 /\ (p + u + k = p + i \/ p + u + k = p + i + Cnt)
  BY Sizes DEF RingMinus
<1> HIDE DEF j, k
<1> DEFINE a == (p + u) + j
           c == (p + u) + k
           e == p + i
<1>4. a \in Nat /\ c \in Nat /\ e \in Nat
  BY <1>1, <1>2, <1>3, Sizes
<1>5. c = e \/ c = e + Cnt * 1
  BY <1>3, Sizes
<1>6. (a <= c => c - a < Cnt) /\ (c <= a => a - c < Cnt) /\ (a = c => j = k)
  BY <1>1, <1>2, <1>3, Sizes
<1>7. D_IDX(a) = D_IDX(e)
  BY <1>2 DEF s
<1>8. a <= c \/ c <= a
  BY <1>4
<1> HIDE DEF a, c, e
<1>9. D_IDX(c) = D_IDX(e)
  BY <1>4, <1>5, WholeTurn
<1>10. a = c
  BY <1>4, <1>6, <1>7, <1>8, <1>9, SameSlot
<1> QED BY <1>6, <1>10 DEF j, k, s

(* What the places of the ring hold, and where the next packet goes.       *)
LEMMA SlotsOfView ==
  ASSUME Counts, Buffers
  PROVE  /\ \A i \in 0 .. Cnt - 1 :
              /\ D_IDX(rd_p + i) \in 0 .. Cnt - 1
              /\ View[i] = txbufs[D_IDX(rd_p + i)]
              /\ View[i] \in Buffer
         /\ D_IDX(wr_p) = D_IDX(rd_p + Used)
         /\ Used \in 0 .. Cnt - 1
<1>1. rd_p \in Nat /\ wr_p \in 0 .. PtrMod - 1 /\ rd_p \in 0 .. PtrMod - 1
      /\ Used \in 0 .. Cnt - 1
  BY Sizes DEF Counts, Pointers, RingNotOverrun, Used, PtrMinus
<1>2. ASSUME NEW i \in 0 .. Cnt - 1
      PROVE  D_IDX(rd_p + i) \in 0 .. Cnt - 1 /\ View[i] = txbufs[D_IDX(rd_p + i)]
  <2>1. rd_p + i \in Nat
    BY <1>1, Sizes
  <2> QED BY <2>1, Euclid DEF View, Slot
<1>3. wr_p + 0 = PtrPlus(rd_p, Used) + 0 /\ Used \in 0 .. PtrMod /\ Used + 0 = Used
      /\ wr_p + 0 = wr_p
  BY <1>1, Sizes DEF PtrPlus, Used, PtrMinus
<1> HIDE DEF Used
<1>4. D_IDX(wr_p) = D_IDX(rd_p + Used)
  <2>1. D_IDX(PtrPlus(rd_p, Used) + 0) = D_IDX(rd_p + (Used + 0))
    BY <1>1, <1>3, PtrPlusSlot
  <2> QED BY <1>3, <2>1
<1> QED BY <1>1, <1>2, <1>4 DEF Buffers

----------------------------------------------------------------------------
(* What the steps do to the frames.  A packet is framed behind the others: *)
(* each of its buffers says how many it has, and its last ends it.         *)
LEMMA FramedPost ==
  ASSUME NEW b \in [0 .. Cnt - 1 -> Buffer], NEW c \in [0 .. Cnt - 1 -> Buffer],
         NEW u \in 0 .. Cnt - 1, NEW n \in 1 .. StopRoom, u + n < Cnt,
         NEW x \in {Cnt - 1, Cnt}, Framed(b, u, x),
         \A i \in 0 .. Cnt - 1 :
           c[i] = IF u <= i /\ i < u + n
                  THEN [frags |-> n - 1, fidx |-> i - u - 1] ELSE b[i]
  PROVE  Framed(c, u + n, x)
<1>1. ASSUME NEW i \in u + n .. Cnt - 1, i # x PROVE c[i] = Free
  BY <1>1, Sizes DEF Framed
<1>2. ASSUME NEW i \in u .. u + n - 1
      PROVE  c[i].frags = n - 1 /\ c[i].fidx = i - u - 1 /\ c[i] # Free
  <2>1. c[i] = [frags |-> n - 1, fidx |-> i - u - 1] /\ i - u - 1 # -2
    BY Sizes
  <2> QED BY <2>1 DEF Free
<1>3. ASSUME NEW i \in 0 .. u - 1 PROVE c[i] = b[i]
  BY Sizes
<1>4. ASSUME NEW i \in 0 .. u + n - 1
      PROVE /\ c[i] # Free
            /\ LET ends == c[i].fidx = c[i].frags - 1
               IN  IF i = u + n - 1 THEN ends
                   ELSE /\ c[i + 1].fidx = IF ends THEN -1 ELSE c[i].fidx + 1
                        /\ ~ends => c[i + 1].frags = c[i].frags
  <2>1. CASE i \in u .. u + n - 1
    <3>1. i # u + n - 1 => i + 1 \in u .. u + n - 1 /\ i - u - 1 # n - 2
      BY <2>1, Sizes
    <3>2. c[i].frags = n - 1 /\ c[i].fidx = i - u - 1 /\ c[i] # Free
      BY <1>2, <2>1
    <3>3. i # u + n - 1 => c[i + 1].frags = n - 1 /\ c[i + 1].fidx = (i + 1) - u - 1
      BY <1>2, <3>1
    <3> QED BY <2>1, <3>1, <3>2, <3>3, Sizes
  <2>2. CASE i \in 0 .. u - 1 /\ i # u - 1
    <3>1. i + 1 \in 0 .. u - 1 /\ i # u + n - 1
      BY <2>2, Sizes
    <3> QED BY <1>3, <2>2, <3>1 DEF Framed
  <2>3. CASE i = u - 1
    <3>1. i \in 0 .. u - 1 /\ i + 1 = u /\ u \in u .. u + n - 1 /\ i # u + n - 1
      BY <2>3, Sizes
    <3>2. c[i] = b[i] /\ c[i + 1].fidx = -1
      BY <1>2, <1>3, <3>1, Sizes
    <3> QED BY <2>3, <3>1, <3>2 DEF Framed
  <2> QED BY <2>1, <2>2, <2>3, Sizes
<1> QED BY <1>1, <1>4 DEF Framed

(* The oldest buffer leaves the ring; its slot is the one that may still   *)
(* hold what it held.                                                      *)
LEMMA FramedNext ==
  ASSUME NEW b, NEW c, NEW u \in 1 .. Cnt - 1, Framed(b, u, Cnt),
         \A i \in 0 .. Cnt - 2 : c[i] = b[i + 1]
  PROVE  Framed(c, u - 1, Cnt - 1)
<1>1. ASSUME NEW i \in u - 1 .. Cnt - 1, i # Cnt - 1 PROVE c[i] = Free
  <2>1. i \in 0 .. Cnt - 2 /\ i + 1 \in u .. Cnt - 1 /\ i + 1 # Cnt
    BY <1>1, Sizes
  <2> QED BY <2>1 DEF Framed
<1>2. ASSUME NEW i \in 0 .. (u - 1) - 1
      PROVE /\ c[i] # Free
            /\ LET ends == c[i].fidx = c[i].frags - 1
               IN  IF i = (u - 1) - 1 THEN ends
                   ELSE /\ c[i + 1].fidx = IF ends THEN -1 ELSE c[i].fidx + 1
                        /\ ~ends => c[i + 1].frags = c[i].frags
  <2>1. /\ i \in 0 .. Cnt - 2 /\ i + 1 \in 0 .. u - 1
        /\ i = (u - 1) - 1 <=> i + 1 = u - 1
        /\ i # (u - 1) - 1 => i + 1 \in 0 .. Cnt - 2
    BY Sizes
  <2> QED BY <2>1 DEF Framed
<1> QED BY <1>1, <1>2 DEF Framed

(* Only slots that hold no packet change, and they hold none afterwards.   *)
LEMMA FramedFree ==
  ASSUME NEW b, NEW c, NEW u \in 0 .. Cnt - 1, NEW x, NEW y, Framed(b, u, x),
         \A i \in 0 .. u - 1 : c[i] = b[i],
         \A i \in u .. Cnt - 1 : i # y => c[i] = Free
  PROVE  Framed(c, u, y)
<1>1. ASSUME NEW i \in 0 .. u - 1
      PROVE /\ c[i] # Free
            /\ LET ends == c[i].fidx = c[i].frags - 1
               IN  IF i = u - 1 THEN ends
                   ELSE /\ c[i + 1].fidx = IF ends THEN -1 ELSE c[i].fidx + 1
                        /\ ~ends => c[i + 1].frags = c[i].frags
  <2>1. i # u - 1 => i + 1 \in 0 .. u - 1
    BY Sizes
  <2> QED BY <2>1 DEF Framed
<1> QED BY <1>1 DEF Framed

(* Every step keeps the frames. *)
LEMMA BuffersStep ==
  ASSUME Places, Counts, Counts', Buffers, BuffersFramed, [Next]_vars
  PROVE  Buffers' /\ BuffersFramed'
<1> DEFINE u == Used
           b == View
           Goal == Buffers' /\ Framed(View', Used', Last')
<1>1. /\ rd_p \in 0 .. PtrMod - 1 /\ rd_p \in Nat
      /\ wr_p \in 0 .. PtrMod - 1 /\ u \in 0 .. Cnt - 1
  BY Sizes DEF Counts, Pointers, RingNotOverrun, Used, PtrMinus
<1>2. Framed(b, u, Last)
  BY FramesInView
<1>3. BuffersFramed' <=> Framed(View', Used', Last')
  <2>1. (Counts => (BuffersFramed <=> Framed(View, Used, Last)))'
    BY FramesInView, PTL
  <2>2. Framed(View, Used, Last)' <=> Framed(View', Used', Last')
    BY DEF Framed
  <2> QED BY <2>1, <2>2
<1>4. /\ \A i \in 0 .. Cnt - 1 : /\ D_IDX(rd_p + i) \in 0 .. Cnt - 1
                                 /\ b[i] = txbufs[D_IDX(rd_p + i)]
                                 /\ b[i] \in Buffer
      /\ D_IDX(wr_p) = D_IDX(rd_p + u)
  BY SlotsOfView
<1>5. /\ b \in [0 .. Cnt - 1 -> Buffer]
      /\ View' = [i \in 0 .. Cnt - 1 |-> txbufs'[D_IDX(rd_p' + i)]]
      /\ txbufs \in [0 .. Cnt - 1 -> Buffer]
      /\ Free \in Buffer
  <2>1. View = [i \in 0 .. Cnt - 1 |-> View[i]]
    BY DEF View
  <2>2. Free \in Buffer
    BY Sizes, RingAssumption DEF Free, Buffer
  <2> QED BY <1>4, <2>1, <2>2 DEF View, Slot, Buffers
<1>6. ASSUME UNCHANGED <<wr_p, rd_p, txbufs>>, napi = "clean" => napi' = "clean"
      PROVE  Goal
  <2>1. View' = b /\ Used' = u /\ Buffers'
    BY <1>6, <1>5 DEF Used, Buffers, View, Slot
  <2> HIDE DEF b, u
  <2>2. \A i \in 0 .. u - 1 : b[i] = b[i]
    OBVIOUS
  <2>3. \A i \in u .. Cnt - 1 : i # Last' => b[i] = Free
    BY <1>1, <1>2, <1>6, Sizes DEF Framed, Last
  <2> QED BY <1>1, <1>2, <2>1, <2>3, FramedFree
<1>7. ASSUME NEW n \in Packets, NEW m \in BOOLEAN, XmitPost(n, m) PROVE Goal
  <2>1. /\ u < Cnt - n /\ wr_p' = PtrPlus(wr_p, n) /\ UNCHANGED <<rd_p, napi>>
        /\ txbufs' = [s \in DOMAIN txbufs |->
             LET i == RingMinus(s, D_IDX(wr_p))
             IN  IF i < n THEN [frags |-> n - 1, fidx |-> i - 1] ELSE txbufs[s]]
    <3>1. ~(u >= Cnt - n)
      BY <1>7 DEF XmitPost, nfp_net_tx_full
    <3>2. u < Cnt - n
      <4> HIDE DEF u
      <4> QED BY <1>1, <3>1, Sizes
    <3> QED BY <1>7, <3>2 DEF XmitPost
  <2>2. n \in 1 .. StopRoom /\ u + n < Cnt /\ StopRoom = MaxFrags + 1
    BY <1>1, <2>1, Sizes DEF StopRoom
  <2>3. Used' = u + n
    BY <1>1, <2>1, <2>2, Sizes DEF Used, PtrPlus, PtrMinus
  <2>4. D_IDX(wr_p) \in 0 .. Cnt - 1 /\ DOMAIN txbufs = 0 .. Cnt - 1
    BY <1>4, <1>5, <1>1, Euclid
  <2>5. txbufs' \in [0 .. Cnt - 1 -> Buffer]
    <3>1. ASSUME NEW s \in 0 .. Cnt - 1 PROVE txbufs'[s] \in Buffer
      <4>1. RingMinus(s, D_IDX(wr_p)) \in 0 .. Cnt - 1
        BY <2>4, Sizes DEF RingMinus
      <4>2. CASE RingMinus(s, D_IDX(wr_p)) < n
        <5>1. txbufs'[s] = [frags |-> n - 1, fidx |-> RingMinus(s, D_IDX(wr_p)) - 1]
          BY <2>1, <2>4, <4>2
        <5>2. n - 1 \in 0 .. MaxFrags
              /\ RingMinus(s, D_IDX(wr_p)) - 1 \in -2 .. MaxFrags - 1
          BY <2>2, <4>1, <4>2, Sizes
        <5> QED BY <5>1, <5>2 DEF Buffer
      <4>3. CASE ~(RingMinus(s, D_IDX(wr_p)) < n)
        BY <1>5, <2>1, <2>4, <4>3
      <4> QED BY <4>2, <4>3
    <3>2. txbufs' = [s \in 0 .. Cnt - 1 |-> txbufs'[s]]
      BY <2>1, <2>4
    <3> QED BY <3>1, <3>2
  <2>6. ASSUME NEW i \in 0 .. Cnt - 1
        PROVE  /\ View'[i] = IF u <= i /\ i < u + n
                             THEN [frags |-> n - 1, fidx |-> i - u - 1] ELSE b[i]
               /\ View'[i] \in Buffer
    <3>1. D_IDX(rd_p + i) \in 0 .. Cnt - 1 /\ View'[i] = txbufs'[D_IDX(rd_p + i)]
      BY <1>4, <1>5, <2>1
    <3>2. RingMinus(D_IDX(rd_p + i), D_IDX(wr_p)) = RingMinus(i, u)
      <4> HIDE DEF u
      <4>1. RingMinus(D_IDX(rd_p + i), D_IDX(rd_p + u)) = RingMinus(i, u)
        BY <1>1, SlotDistance
      <4> QED BY <1>4, <4>1
    <3>3. View'[i] = IF RingMinus(i, u) < n
                     THEN [frags |-> n - 1, fidx |-> RingMinus(i, u) - 1]
                     ELSE b[i]
      BY <1>4, <2>1, <2>4, <3>1, <3>2
    <3>4. (RingMinus(i, u) < n <=> u <= i /\ i < u + n)
          /\ (u <= i => RingMinus(i, u) = i - u)
      BY <1>1, <2>2, Sizes DEF RingMinus
    <3> QED BY <2>5, <3>1, <3>3, <3>4
  <2>7. View' \in [0 .. Cnt - 1 -> Buffer]
    BY <1>5, <2>6
  <2>8. Last' = Last /\ Last \in {Cnt - 1, Cnt}
    BY <2>1 DEF Last
  <2> HIDE DEF u, b
  <2>9. Framed(View', u + n, Last)
    BY ZenonT(60), <1>1, <1>2, <1>5, <2>2, <2>6, <2>7, <2>8, FramedPost
  <2> QED BY <2>3, <2>5, <2>8, <2>9 DEF Buffers
<1>8. ASSUME NEW n \in Packets, NEW m \in BOOLEAN, NEW k \in 0 .. n - 1,
             XmitFails(n, m, k)
      PROVE  Goal
  <2>1. /\ UNCHANGED <<rd_p, wr_p, napi>>
        /\ txbufs' = [s \in DOMAIN txbufs |->
             IF RingMinus(s, D_IDX(wr_p)) < k THEN Free ELSE txbufs[s]]
    BY <1>8 DEF XmitFails, poll
  <2>2. n \in 1 .. StopRoom /\ u + n < Cnt /\ k \in Nat /\ k < n
    <3>1. ~(u >= Cnt - n)
      BY <1>8 DEF XmitFails, nfp_net_tx_full
    <3> HIDE DEF u
    <3> QED BY <1>1, <3>1, Sizes
  <2>3. Used' = u /\ Last' = Last /\ Last \in {Cnt - 1, Cnt}
    BY <2>1 DEF Used, Last
  <2>4. D_IDX(wr_p) \in 0 .. Cnt - 1 /\ DOMAIN txbufs = 0 .. Cnt - 1
    BY <1>4, <1>5, <1>1, Euclid
  <2>5. txbufs' \in [0 .. Cnt - 1 -> Buffer]
    BY <1>5, <2>1, <2>4
  <2>6. ASSUME NEW i \in 0 .. Cnt - 1
        PROVE  View'[i] = IF u <= i /\ i < u + k THEN Free ELSE b[i]
    <3>1. D_IDX(rd_p + i) \in 0 .. Cnt - 1 /\ View'[i] = txbufs'[D_IDX(rd_p + i)]
      BY <1>4, <1>5, <2>1
    <3>2. RingMinus(D_IDX(rd_p + i), D_IDX(wr_p)) = RingMinus(i, u)
      <4> HIDE DEF u
      <4>1. RingMinus(D_IDX(rd_p + i), D_IDX(rd_p + u)) = RingMinus(i, u)
        BY <1>1, SlotDistance
      <4> QED BY <1>4, <4>1
    <3>3. View'[i] = IF RingMinus(i, u) < k THEN Free ELSE b[i]
      BY <1>4, <2>1, <2>4, <3>1, <3>2
    <3>4. RingMinus(i, u) < k <=> u <= i /\ i < u + k
      <4> HIDE DEF u
      <4> QED BY <1>1, <2>2, Sizes DEF RingMinus
    <3> QED BY <3>3, <3>4
  <2> HIDE DEF u, b
  <2>7. \A i \in 0 .. u - 1 : View'[i] = b[i]
    BY <1>1, <2>2, <2>6, Sizes
  <2>8. \A i \in u .. Cnt - 1 : i # Last => View'[i] = Free
    BY <1>1, <1>2, <2>2, <2>6, Sizes DEF Framed
  <2>9. Framed(View', u, Last)
    BY <1>1, <1>2, <2>7, <2>8, FramedFree
  <2> QED BY <2>3, <2>5, <2>9 DEF Buffers
<1>9. ASSUME CompleteNext PROVE Goal
  <2>1. /\ todo > 0 /\ napi = "loop" /\ rd_p' = PtrPlus(rd_p, 1)
        /\ UNCHANGED <<wr_p, txbufs>> /\ napi' = "clean"
    BY <1>9 DEF CompleteNext
  <2>2. u > 0
    <3>1. xmit \in {"idle", "busy", "posted", "stop", "recheck", "account"}
      BY DEF Places
    <3> QED BY <2>1, <3>1, Sizes
        DEF Counts, Pointers, DescriptorsAccounted, Posting, Unread, Unseen,
            Uncleaned, RingMinus
  <2>3. Used' = u - 1
    BY <1>1, <2>1, <2>2, Sizes DEF Used, PtrPlus, PtrMinus
  <2>4. ASSUME NEW i \in 0 .. Cnt - 2 PROVE View'[i] = b[i + 1]
    <3>1. /\ i \in 0 .. Cnt - 1 /\ i + 1 \in 0 .. Cnt - 1 /\ i \in Nat
          /\ 1 + i = i + 1 /\ 1 \in 0 .. PtrMod
      BY Sizes
    <3>2. D_IDX(PtrPlus(rd_p, 1) + i) = D_IDX(rd_p + (1 + i))
      BY <1>1, <3>1, PtrPlusSlot
    <3>3. View'[i] = txbufs[D_IDX(PtrPlus(rd_p, 1) + i)]
      BY <1>5, <2>1, <3>1
    <3>4. b[i + 1] = txbufs[D_IDX(rd_p + (i + 1))]
      BY <1>4, <3>1
    <3> HIDE DEF b
    <3> QED BY <3>1, <3>2, <3>3, <3>4
  <2>5. Last = Cnt /\ Last' = Cnt - 1
    BY <2>1 DEF Last
  <2> HIDE DEF u, b
  <2>6. u \in 1 .. Cnt - 1
    BY <1>1, <2>2, Sizes
  <2>7. Framed(View', u - 1, Cnt - 1)
    BY <1>2, <2>4, <2>5, <2>6, FramedNext
  <2> QED BY <1>5, <2>1, <2>3, <2>5, <2>7 DEF Buffers
<1>10. ASSUME CompleteClean PROVE Goal
  <2>1. /\ napi = "clean" /\ napi' = "loop" /\ UNCHANGED <<wr_p, rd_p>>
        /\ txbufs' = [txbufs EXCEPT ![D_IDX(PtrMinus(rd_p, 1))] = Free]
    BY <1>10 DEF CompleteClean
  <2>2. Used' = u /\ Last = Cnt - 1 /\ Last' = Cnt
    BY <2>1 DEF Used, Last
  <2>3. D_IDX(PtrMinus(rd_p, 1)) = D_IDX(rd_p + (Cnt - 1))
    <3> DEFINE p == PtrMinus(rd_p, 1)
               q == rd_p + (Cnt - 1)
    <3>1. p \in 0 .. PtrMod - 1 /\ rd_p = PtrPlus(p, 1) /\ Cnt - 1 \in Nat
          /\ 1 + (Cnt - 1) = Cnt * 1 /\ 1 \in 0 .. PtrMod
      BY <1>1, Sizes DEF PtrMinus, PtrPlus
    <3> HIDE DEF p
    <3>2. D_IDX(PtrPlus(p, 1) + (Cnt - 1)) = D_IDX(p + (1 + (Cnt - 1)))
      BY <3>1, PtrPlusSlot
    <3>3. p \in Nat /\ p + Cnt * 1 \in Nat
      BY <3>1, Sizes
    <3>4. D_IDX(p + Cnt * 1) = D_IDX(p)
      BY <3>3, WholeTurn
    <3> QED BY <3>1, <3>2, <3>4 DEF p
  <2>4. ASSUME NEW i \in 0 .. Cnt - 1
        PROVE  View'[i] = IF i = Cnt - 1 THEN Free ELSE b[i]
    <3>1. /\ D_IDX(rd_p + i) \in 0 .. Cnt - 1
          /\ View'[i] = txbufs'[D_IDX(rd_p + i)] /\ b[i] = txbufs[D_IDX(rd_p + i)]
      BY <1>4, <1>5, <2>1
    <3>2. D_IDX(rd_p + i) = D_IDX(rd_p + (Cnt - 1)) => i = Cnt - 1
      <4>1. rd_p + i \in Nat /\ rd_p + (Cnt - 1) \in Nat
            /\ rd_p + i <= rd_p + (Cnt - 1)
            /\ (rd_p + (Cnt - 1)) - (rd_p + i) < Cnt
        BY <1>1, Sizes
      <4>2. D_IDX(rd_p + i) = D_IDX(rd_p + (Cnt - 1))
              => rd_p + i = rd_p + (Cnt - 1)
        BY <4>1, SameSlot
      <4> QED BY <1>1, <4>2, Sizes
    <3> HIDE DEF b
    <3> QED BY <1>5, <2>1, <2>3, <3>1, <3>2
  <2>5. Buffers'
    BY <1>5, <2>1 DEF Buffers
  <2> HIDE DEF u, b
  <2>6. \A i \in 0 .. u - 1 : View'[i] = b[i]
    BY <1>1, <2>4, Sizes
  <2>7. \A i \in u .. Cnt - 1 : i # Cnt => View'[i] = Free
    BY <1>1, <1>2, <2>2, <2>4, Sizes DEF Framed
  <2>8. Framed(View', u, Cnt)
    BY <1>1, <1>2, <2>6, <2>7, FramedFree
  <2> QED BY <2>2, <2>5, <2>8
<1>11. ASSUME RingReset PROVE Goal
  <2>1. /\ dev = "tx_off" /\ napi' = napi /\ wr_p' = 0 /\ rd_p' = 0
        /\ txbufs' = [s \in DOMAIN txbufs |->
             IF s \in ResetSlots THEN Free ELSE txbufs[s]]
    BY <1>11 DEF RingReset, poll
  <2>2. napi = "idle" /\ Last = Cnt /\ Last' = Cnt /\ Used' = 0
    BY <2>1, Sizes DEF Places, Last, Used, PtrMinus
  <2>3. \A s \in 0 .. Cnt - 1 : txbufs'[s] = Free
    <3> SUFFICES ASSUME NEW s \in 0 .. Cnt - 1 PROVE txbufs'[s] = Free
      OBVIOUS
    <3> DEFINE i == RingMinus(s, D_IDX(rd_p))
    <3>1. i \in 0 .. Cnt - 1 /\ D_IDX(rd_p + i) = s
      BY <1>1, EverySlot
    <3>2. txbufs'[s] = IF s \in ResetSlots THEN Free ELSE txbufs[s]
      BY <1>5, <2>1
    <3> HIDE DEF i
    <3>3. CASE i <= u - 1
      <4>1. i \in 0 .. Used - 1
        BY <1>1, <3>1, <3>3
      <4> QED BY <3>1, <3>2, <4>1 DEF ResetSlots
    <3>4. CASE ~(i <= u - 1)
      <4>1. txbufs[s] = b[i]
        BY <1>4, <3>1
      <4> HIDE DEF u, b
      <4>2. i \in u .. Cnt - 1 /\ i # Cnt
        BY <1>1, <3>1, <3>4, Sizes
      <4> QED BY <1>2, <2>2, <3>2, <4>1, <4>2 DEF Framed
    <3> QED BY <3>3, <3>4
  <2>4. Buffers'
    BY <1>5, <2>1, <2>3 DEF Buffers
  <2>5. ASSUME NEW i \in 0 .. Cnt - 1 PROVE View'[i] = Free
    <3>1. D_IDX(i) \in 0 .. Cnt - 1 /\ 0 + i = i
      BY Sizes, Euclid
    <3> QED BY <1>5, <2>1, <2>3, <3>1
  <2>6. Framed(View', 0, Cnt)
    BY <2>5, Sizes DEF Framed
  <2> QED BY <2>2, <2>4, <2>6
<1>12. ASSUME ~ \E n \in Packets, m \in BOOLEAN :
                 XmitPost(n, m) \/ \E k \in 0 .. n - 1 : XmitFails(n, m, k),
              ~CompleteNext, ~CompleteClean, ~RingReset
       PROVE  UNCHANGED <<wr_p, rd_p, txbufs>> /\ (napi = "clean" => napi' = "clean")
  BY <1>12
  DEF Next, Xmit, XmitGoesOn, nfp_net_tx_complete, CloseOpen, XmitFull,
      XmitBusy, XmitPosted, RingStop, RingStopRecheck, XmitAccount,
      StackBreaks, CompleteStart, CompleteLoopDone, CompleteTest, CompleteWake,
      DeviceReads, NapiDisable, TxDisable, OpenStack,
      driver, device, stack, poll, vars
<1> QED
  BY <1>3, <1>6, <1>7, <1>8, <1>9, <1>10, <1>11, <1>12

(* The ring starts empty, so that every slot is free, and stays framed.    *)
LEMMA BuffersInvariance ==
  Spec => [](Buffers /\ BuffersFramed)
<1>1. Init => Buffers /\ BuffersFramed
  <2> SUFFICES ASSUME Init PROVE Buffers /\ BuffersFramed
    OBVIOUS
  <2>1. Free \in Buffer
    BY Sizes, RingAssumption DEF Free, Buffer
  <2>2. Buffers
    BY <2>1 DEF Init, Buffers
  <2>3. Used = 0 /\ rd_p = 0
    BY Sizes DEF Init, Used, PtrMinus
  <2>4. ASSUME NEW i \in 0 .. Cnt - 1 PROVE Slot(i) = Free
    <3>1. D_IDX(i) \in 0 .. Cnt - 1 /\ rd_p + i = i
      BY <2>3, Sizes, Euclid
    <3> QED BY <3>1 DEF Init, Slot
  <2> QED BY <2>2, <2>3, <2>4, Sizes DEF BuffersFramed
<1>2. Places /\ Counts /\ Counts' /\ Buffers /\ BuffersFramed /\ [Next]_vars
        => Buffers' /\ BuffersFramed'
  BY BuffersStep
<1> QED BY <1>1, <1>2, BaseInvariance, PTL DEF Spec

(* However transmit, completion, device and closing interleave, also when  *)
(* the pointers wrap: the buffers of the ring are those of whole packets   *)
(* in order, of which at most the first is freed in part, and no buffer    *)
(* outside the ring is held.                                               *)
THEOREM BuffersAreFramed ==
  Spec => []BuffersFramed
BY BuffersInvariance, PTL

(* Every variable of the ring stays in its range: no pointer leaves its    *)
(* modulus, no buffer index its packet.                                    *)
THEOREM RingIsTyped ==
  Spec => []TypeOK
<1>1. Places /\ Counts /\ Buffers => TypeOK
  BY DEF Places, Counts, Pointers, Buffers, Buffer, TypeOK, StopRoom
<1> QED BY <1>1, BaseInvariance, BuffersInvariance, PTL

(* A doorbell is only put off while another packet is sure to come, however *)
(* the completion stops and wakes the queue meanwhile.                     *)
THEOREM DoorbellsAreRung ==
  Spec => []NothingUnflushed
BY BaseInvariance, PTL

----------------------------------------------------------------------------
(* Nobody of those who must go on has anything to do: the call of the      *)
(* stack has returned with no packet in hand, the device has read what it  *)
(* was told of, and an interrupt would find nothing to complete.           *)
AtRest ==
  /\ dev = "up"
  /\ xmit = "idle" /\ ~more
  /\ qc_rd = qc_wr
  /\ napi = "idle" /\ (wr_p = rd_p \/ qc_rd = qcp_rd_p)

(* What is in the ring while nobody is about: what waits for the doorbell, *)
(* and what the device or the completion still has to do.                  *)
LEMMA BetweenCalls ==
  ASSUME Counts, NothingUnflushed, xmit = "idle", napi = "idle", ~more \/ stopped
  PROVE  /\ Used = Unread + Unseen
         /\ Unread \in Nat /\ Unseen \in Nat
<1>1. wr_ptr_add = 0 /\ Posting = 0 /\ Uncleaned = 0
  BY DEF NothingUnflushed, Posting, Uncleaned
<1>2. Unread \in Nat /\ Unseen \in Nat
  BY Sizes DEF Counts, Pointers, Unread, Unseen, RingMinus
<1> QED BY <1>1, <1>2 DEF Counts, DescriptorsAccounted

(* A ring at rest is empty, and with it every one of its buffers: the      *)
(* driver forgets no packet and keeps no buffer until the next one.        *)
THEOREM RestingRingIsEmpty ==
  Spec => [](AtRest => Used = 0 /\ \A s \in 0 .. Cnt - 1 : txbufs[s] = Free)
<1>1. ASSUME Places, Counts, NothingUnflushed, BuffersFramed, AtRest
      PROVE  Used = 0 /\ \A s \in 0 .. Cnt - 1 : txbufs[s] = Free
  <2>1. Used = Unread + Unseen
    BY <1>1, BetweenCalls DEF AtRest
  <2>2. Used = 0
    BY <2>1, <1>1, Sizes
    DEF AtRest, Counts, Pointers, Unread, Unseen, RingMinus, Used, PtrMinus
  <2>3. \A i \in 0 .. Cnt - 1 : Slot(i) = Free
    BY <1>1, <2>2 DEF BuffersFramed, AtRest
  <2>4. rd_p \in Nat
    BY <1>1, Sizes DEF Counts, Pointers
  <2>5. \A s \in 0 .. Cnt - 1 : \E i \in 0 .. Cnt - 1 : s = D_IDX(rd_p + i)
    BY <2>4, EverySlot
  <2> QED BY <2>2, <2>3, <2>5 DEF Slot
<1> QED
  BY <1>1, BaseInvariance, BuffersAreFramed, PTL

----------------------------------------------------------------------------
(* A queue is stopped for want of room, and a completion that gives it     *)
(* room is not over before it has woken it.                                *)
WantsRoom ==
  stopped /\ dev = "up" => ~ShouldWake \/ napi # "idle" \/ xmit = "recheck"
Stopping == xmit # "busy" /\ WantsRoom

(* Each step, as long as no completion is overtaken. *)
LEMMA StoppingStep ==
  ASSUME Places, Counts, OpenHasRoom, InTime, Stopping, [Next]_vars
  PROVE  Stopping'
<1>1. ASSUME NEW n \in Packets, NEW m \in BOOLEAN, XmitFull(n, m) PROVE FALSE
  <2>1. Used \in Nat /\ n <= StopRoom /\ n \in Nat
    BY Sizes DEF Counts, Pointers, Used, PtrMinus
  <2>2. ~nfp_net_tx_full(StopRoom) /\ nfp_net_tx_full(n)
    BY <1>1 DEF XmitFull, Called, OpenHasRoom
  <2> QED BY <2>1, <2>2, Sizes DEF nfp_net_tx_full
<1>2. CASE \E n \in Packets, m \in BOOLEAN :
             XmitPost(n, m) \/ \E k \in 0 .. n - 1 : XmitFails(n, m, k)
  BY <1>2 DEF XmitPost, XmitFails, Called, Stopping, WantsRoom
<1>3. CASE XmitGoesOn
  <2>1. CASE XmitPosted
    BY <2>1 DEF XmitPosted, Stopping, WantsRoom, driver, ShouldWake, nfp_net_tx_full,
       Used, poll
  <2>2. CASE RingStop
    BY <2>2 DEF RingStop, Stopping, WantsRoom
  <2>3. CASE RingStopRecheck
    BY <2>3 DEF RingStopRecheck, Stopping, WantsRoom, driver, ShouldWake,
       nfp_net_tx_full, Used
  <2>4. CASE XmitAccount
    BY <2>4 DEF XmitAccount, Stopping, WantsRoom, ShouldWake, nfp_net_tx_full, Used, poll
  <2>5. CASE StackBreaks
    BY <2>5 DEF StackBreaks, Stopping, WantsRoom, driver, ShouldWake, nfp_net_tx_full,
       Used, poll
  <2> QED BY <1>3, <2>1, <2>2, <2>3, <2>4, <2>5 DEF XmitGoesOn, XmitBusy, Stopping
<1>4. CASE nfp_net_tx_complete
  <2>1. CASE CompleteStart \/ CompleteNext \/ CompleteClean
    BY <2>1 DEF CompleteStart, CompleteNext, CompleteClean, Stopping, WantsRoom, stack
  <2>2. CASE CompleteLoopDone
    BY <2>2 DEF CompleteLoopDone, Stopping, WantsRoom, stack, ShouldWake,
       nfp_net_tx_full, Used
  <2>3. CASE CompleteTest
    BY <2>3 DEF CompleteTest, Stopping, WantsRoom, stack
  <2>4. CASE CompleteWake
    BY <2>4 DEF CompleteWake, Stopping, WantsRoom, stack
  <2> QED BY <1>4, <2>1, <2>2, <2>3, <2>4 DEF nfp_net_tx_complete
<1>5. CASE DeviceReads \/ UNCHANGED vars
  BY <1>5 DEF DeviceReads, vars, Stopping, WantsRoom, driver, stack, poll, ShouldWake,
     nfp_net_tx_full, Used
<1>6. CASE CloseOpen
  BY <1>6 DEF CloseOpen, NapiDisable, TxDisable, RingReset, OpenStack, Stopping,
     WantsRoom, stack
<1> QED BY <1>1, <1>2, <1>3, <1>4, <1>5, <1>6 DEF Next, Xmit

(* A stopped queue whose transmit path and completion are over still has   *)
(* as many descriptors with the device, or read and not completed, as it   *)
(* needs to be woken again: its doorbells are rung, so a completion is to  *)
(* come, and the queue is not left stopped.  No completion may be          *)
(* overtaken by more than lies between the marks.                          *)
THEOREM CompletionIsToCome ==
  Spec /\ []InTime =>
    [](stopped /\ dev = "up" /\ xmit = "idle" /\ napi = "idle" =>
         Unread + Unseen >= Cnt - WakeRoom)
<1>1. Init => Stopping
  BY DEF Init, Stopping, WantsRoom
<1>2. Places /\ Counts /\ OpenHasRoom /\ InTime /\ Stopping /\ [Next]_vars => Stopping'
  BY StoppingStep
<1>3. ASSUME Counts, NothingUnflushed, Stopping,
             stopped /\ dev = "up" /\ xmit = "idle" /\ napi = "idle"
      PROVE  Unread + Unseen >= Cnt - WakeRoom
  <2>1. Used = Unread + Unseen
    BY <1>3, BetweenCalls
  <2>2. ~ShouldWake
    BY <1>3 DEF Stopping, WantsRoom
  <2> QED BY <2>1, <2>2 DEF ShouldWake, nfp_net_tx_full
<1> QED
  BY <1>1, <1>2, <1>3, OpenQueuesHaveRoom, BaseInvariance, PTL DEF Spec

(* So a ring at rest is open to the next packet. *)
THEOREM RestingRingIsOpen ==
  Spec /\ []InTime => [](AtRest => ~stopped)
<1> DEFINE Waits == stopped /\ dev = "up" /\ xmit = "idle" /\ napi = "idle" =>
                      Unread + Unseen >= Cnt - WakeRoom
<1>1. ASSUME Counts, NothingUnflushed, Waits, AtRest, Used = 0 PROVE ~stopped
  <2>1. Used = Unread + Unseen
    BY <1>1, BetweenCalls DEF AtRest
  <2> QED BY <2>1, <1>1, Sizes DEF AtRest
<1> QED
  BY <1>1, RestingRingIsEmpty, CompletionIsToCome, BaseInvariance, PTL

============================================================================
