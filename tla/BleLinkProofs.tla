---------------------------- MODULE BleLinkProofs ----------------------------
(***************************************************************************)
(* Proofs about the BLE service: every variable keeps its type, the        *)
(* periodic status is never left unarmed for a subscribed client, the      *)
(* flags agree with the Bluetooth stack, the last command wins, and off    *)
(* means off.  They hold for any number of calling threads, calls and      *)
(* connections.                                                            *)
(***************************************************************************)
EXTENDS BleLink, TLAPS

\* The two halves of the type invariant: what is a Boolean, and the rest.
Booleans ==
  /\ requested \in BOOLEAN /\ ready \in BOOLEAN /\ advertising \in BOOLEAN
  /\ connected \in BOOLEAN /\ conn \in BOOLEAN /\ statusOn \in BOOLEAN
  /\ stackOn \in BOOLEAN /\ radioAdv \in BOOLEAN
  /\ wanted \in BOOLEAN /\ overlapped \in BOOLEAN /\ refused \in BOOLEAN
  /\ stopFailed \in BOOLEAN /\ crossed \in BOOLEAN

Enumerations ==
  /\ restartWork \in Works /\ selfStopWork \in Works /\ pingWork \in Works
  /\ pc \in [Threads -> {"idle", "ping"} \cup CallSteps]
  /\ link \in {"none", "up", "closing", "ended"}
  /\ calls \in 0 .. MaxCalls /\ links \in 0 .. MaxLinks

booleanVars == <<requested, ready, advertising, connected, conn, statusOn,
                 stackOn, radioAdv, wanted, overlapped, refused, stopFailed,
                 crossed>>

\* Most steps touch no Boolean.
LEMMA BooleansKept ==
  ASSUME Booleans, UNCHANGED booleanVars
  PROVE  Booleans'
BY DEF Booleans, booleanVars

LEMMA TypeHalves == TypeOK <=> Booleans /\ Enumerations
BY DEF TypeOK, Booleans, Enumerations

\* Every reachable state is well typed: the work items and the threads of the
\* service only take the steps and states of the code.
THEOREM TypeCorrect == Spec => []TypeOK
<1>1. Init => TypeOK
  <2> SUFFICES ASSUME Init PROVE Booleans /\ Enumerations
    BY TypeHalves
  <2>1. Booleans
    BY Zenon DEF Init, Booleans
  <2>2. Enumerations
    BY BoundsAssumption DEF Init, Enumerations, Works
  <2> QED
    BY <2>1, <2>2
<1>2. TypeOK /\ [Next]_vars => TypeOK'
  <2> SUFFICES ASSUME TypeOK, [Next]_vars PROVE TypeOK'
    OBVIOUS
  <2>0. Booleans /\ Enumerations
    BY TypeHalves
  <2>a. Booleans' /\ Enumerations' => TypeOK'
    BY DEF TypeOK, Booleans, Enumerations
  <2> HIDE DEF TypeOK
  <2> USE <2>0, BoundsAssumption
      DEF Works, CallSteps, Threads, flagVars, workVars, stackVars,
          countVars, histVars
  <2>1. ASSUME NEW t \in Threads, Start(t) PROVE TypeOK'
    <3>1. Booleans'
      BY <2>1, Zenon DEF Start, Enter, CancelSelfStop, Booleans
    <3>2. Enumerations'
      BY <2>1 DEF Start, Enter, Goto, CancelSelfStop, Enumerations
    <3> QED
      BY <3>1, <3>2, <2>a
  <2>2. ASSUME NEW t \in Threads, Stop(t) PROVE TypeOK'
    <3>1. Booleans'
      BY <2>2, Zenon DEF Stop, Enter, Booleans
    <3>2. Enumerations'
      BY <2>2 DEF Stop, Enter, Goto, AfterStopEntry, Enumerations
    <3> QED
      BY <3>1, <3>2, <2>a
  <2>3. ASSUME NEW t \in Threads, Rename(t) PROVE TypeOK'
    <3>1. Booleans'
      BY <2>3, Zenon DEF Rename, Enter, Booleans
    <3>2. Enumerations'
      BY <2>3 DEF Rename, Enter, Goto, Enumerations
    <3> QED
      BY <3>1, <3>2, <2>a
  <2>4. ASSUME NEW t \in Threads, EnableBegins(t) PROVE TypeOK'
    <3>1. Booleans'
      BY <2>4, Zenon DEF EnableBegins, Booleans
    <3>2. Enumerations'
      BY <2>4 DEF EnableBegins, Goto, Enumerations
    <3> QED
      BY <3>1, <3>2, <2>a
  <2>5. ASSUME NEW t \in Threads, EnableReturns(t) PROVE TypeOK'
    <3>1. Booleans'
      BY <2>5, Zenon DEF EnableReturns, Booleans
    <3>2. Enumerations'
      BY <2>5 DEF EnableReturns, Goto, Enumerations
    <3> QED
      BY <3>1, <3>2, <2>a
  <2>6. ASSUME NEW t \in Threads, EnableFails(t) PROVE TypeOK'
    <3>1. Booleans'
      BY <2>6, Zenon DEF EnableFails, Booleans
    <3>2. Enumerations'
      BY <2>6 DEF EnableFails, Goto, Enumerations
    <3> QED
      BY <3>1, <3>2, <2>a
  <2>7. ASSUME NEW t \in Threads, CheckAdvertising(t) PROVE TypeOK'
    <3>1. Booleans'
      BY <2>7, BooleansKept DEF CheckAdvertising, booleanVars
    <3>2. Enumerations'
      BY <2>7 DEF CheckAdvertising, Goto, Enumerations
    <3> QED
      BY <3>1, <3>2, <2>a
  <2>8. ASSUME NEW t \in Threads, AdvStarts(t) PROVE TypeOK'
    <3>1. Booleans'
      BY <2>8, Zenon DEF AdvStarts, Booleans
    <3>2. Enumerations'
      BY <2>8 DEF AdvStarts, Goto, Enumerations
    <3> QED
      BY <3>1, <3>2, <2>a
  <2>9. ASSUME NEW t \in Threads, AdvHeld(t) PROVE TypeOK'
    <3>1. Booleans'
      BY <2>9, BooleansKept DEF AdvHeld, booleanVars
    <3>2. Enumerations'
      BY <2>9 DEF AdvHeld, Goto, Enumerations
    <3> QED
      BY <3>1, <3>2, <2>a
  <2>10. ASSUME NEW t \in Threads, AdvRefused(t) PROVE TypeOK'
    <3>1. Booleans'
      BY <2>10, Zenon DEF AdvRefused, Booleans
    <3>2. Enumerations'
      BY <2>10 DEF AdvRefused, Goto, Enumerations
    <3> QED
      BY <3>1, <3>2, <2>a
  <2>11. ASSUME NEW t \in Threads, StoreAdvertising(t) PROVE TypeOK'
    <3>1. Booleans'
      BY <2>11, Zenon DEF StoreAdvertising, Booleans
    <3>2. Enumerations'
      BY <2>11 DEF StoreAdvertising, Goto, Enumerations
    <3> QED
      BY <3>1, <3>2, <2>a
  <2>12. ASSUME NEW t \in Threads, AdvStops(t) PROVE TypeOK'
    <3>1. Booleans'
      BY <2>12, Zenon DEF AdvStops, StopsAdvertising, Booleans
    <3>2. Enumerations'
      BY <2>12 DEF AdvStops, StopsAdvertising, Goto, Enumerations
    <3> QED
      BY <3>1, <3>2, <2>a
  <2>13. ASSUME NEW t \in Threads, AdvStopFails(t) PROVE TypeOK'
    <3>1. Booleans'
      BY <2>13, Zenon DEF AdvStopFails, Booleans
    <3>2. Enumerations'
      BY <2>13 DEF AdvStopFails, Goto, Enumerations
    <3> QED
      BY <3>1, <3>2, <2>a
  <2>14. ASSUME NEW t \in Threads, Unlink(t) PROVE TypeOK'
    <3>1. Booleans'
      BY <2>14, BooleansKept DEF Unlink, booleanVars
    <3>2. Enumerations'
      BY <2>14 DEF Unlink, ClosesLink, Goto, Enumerations
    <3> QED
      BY <3>1, <3>2, <2>a
  <2>15. ASSUME NEW t \in Threads, ClearFlags(t) PROVE TypeOK'
    <3>1. Booleans'
      BY <2>15, Zenon DEF ClearFlags, Booleans
    <3>2. Enumerations'
      BY <2>15 DEF ClearFlags, Goto, Enumerations
    <3> QED
      BY <3>1, <3>2, <2>a
  <2>16. ASSUME NEW t \in Threads, Disarm(t) PROVE TypeOK'
    <3>1. Booleans'
      BY <2>16, BooleansKept DEF Disarm, booleanVars
    <3>2. Enumerations'
      BY <2>16 DEF Disarm, RescheduleStatus, Scheduled, Goto, Enumerations
    <3> QED
      BY <3>1, <3>2, <2>a
  <2>17. ASSUME NEW t \in Threads, RenameStops(t) PROVE TypeOK'
    <3>1. Booleans'
      <4>1. /\ advertising' \in BOOLEAN /\ radioAdv' \in BOOLEAN
            /\ UNCHANGED <<requested, ready, connected, conn, statusOn,
                           stackOn, wanted, overlapped, refused,
                           stopFailed, crossed>>
        BY <2>17, Zenon DEF RenameStops, Booleans
      <4> QED
        BY <4>1, Zenon DEF Booleans
    <3>2. Enumerations'
      BY <2>17 DEF RenameStops, Goto, Enumerations
    <3> QED
      BY <3>1, <3>2, <2>a
  <2>18. CASE AskSelfStop
    <3>1. Booleans'
      BY <2>18, Zenon DEF AskSelfStop, Booleans
    <3>2. Enumerations'
      BY <2>18 DEF AskSelfStop, Scheduled, Enumerations
    <3> QED
      BY <3>1, <3>2, <2>a
  <2>19. CASE RestartDue
    <3>1. Booleans'
      BY <2>19, BooleansKept DEF RestartDue, booleanVars
    <3>2. Enumerations'
      BY <2>19 DEF RestartDue, Enumerations
    <3> QED
      BY <3>1, <3>2, <2>a
  <2>20. CASE SelfStopDue
    <3>1. Booleans'
      BY <2>20, BooleansKept DEF SelfStopDue, booleanVars
    <3>2. Enumerations'
      BY <2>20 DEF SelfStopDue, Enumerations
    <3> QED
      BY <3>1, <3>2, <2>a
  <2>21. CASE PingDue
    <3>1. Booleans'
      BY <2>21, BooleansKept DEF PingDue, booleanVars
    <3>2. Enumerations'
      BY <2>21 DEF PingDue, Enumerations
    <3> QED
      BY <3>1, <3>2, <2>a
  <2>22. CASE SelfStop
    <3>1. Booleans'
      BY <2>22, Zenon DEF SelfStop, Enter, Booleans
    <3>2. Enumerations'
      BY <2>22 DEF SelfStop, Enter, Goto, AfterStopEntry, Enumerations
    <3> QED
      BY <3>1, <3>2, <2>a
  <2>23. CASE Restart
    <3>1. Booleans'
      BY <2>23, Zenon DEF Restart, Enter, Booleans
    <3>2. Enumerations'
      BY <2>23 DEF Restart, Enter, Goto, Enumerations
    <3> QED
      BY <3>1, <3>2, <2>a
  <2>24. CASE SkipRestart
    <3>1. Booleans'
      BY <2>24, BooleansKept DEF SkipRestart, booleanVars
    <3>2. Enumerations'
      BY <2>24 DEF SkipRestart, Enumerations
    <3> QED
      BY <3>1, <3>2, <2>a
  <2>25. CASE Ping
    <3>1. Booleans'
      BY <2>25, BooleansKept DEF Ping, booleanVars
    <3>2. Enumerations'
      BY <2>25 DEF Ping, Goto, Enumerations
    <3> QED
      BY <3>1, <3>2, <2>a
  <2>26. CASE RearmPing
    <3>1. Booleans'
      BY <2>26, BooleansKept DEF RearmPing, booleanVars
    <3>2. Enumerations'
      BY <2>26 DEF RearmPing, Rearm, Goto, Scheduled, Enumerations
    <3> QED
      BY <3>1, <3>2, <2>a
  <2>27. CASE Connect
    <3>1. Booleans'
      BY <2>27, Zenon DEF Connect, RescheduleStatus, Booleans
    <3>2. Enumerations'
      BY <2>27 DEF Connect, RescheduleStatus, Scheduled, Enumerations
    <3> QED
      BY <3>1, <3>2, <2>a
  <2>28. CASE ConnectFails
    <3>1. Booleans'
      BY <2>28, Zenon DEF ConnectFails, ScheduleRestart, NoteCrossing, Booleans
    <3>2. Enumerations'
      BY <2>28 DEF ConnectFails, ScheduleRestart, Scheduled, Enumerations
    <3> QED
      BY <3>1, <3>2, <2>a
  <2>29. CASE Disconnected
    <3>1. Booleans'
      BY <2>29, Zenon DEF Disconnected, RescheduleStatus, NoteCrossing, Booleans
    <3>2. Enumerations'
      BY <2>29 DEF Disconnected, RescheduleStatus, Scheduled, Enumerations
    <3> QED
      BY <3>1, <3>2, <2>a
  <2>30. CASE DropConn
    <3>1. Booleans'
      BY <2>30, Zenon DEF DropConn, ScheduleRestart, Booleans
    <3>2. Enumerations'
      BY <2>30 DEF DropConn, ScheduleRestart, Scheduled, Enumerations
    <3> QED
      BY <3>1, <3>2, <2>a
  <2>31. ASSUME NEW on \in BOOLEAN, StatusSubscription(on) PROVE TypeOK'
    <3>1. Booleans'
      <4>1. /\ statusOn' \in BOOLEAN
            /\ UNCHANGED <<requested, ready, advertising, connected, conn,
                           stackOn, radioAdv, wanted, overlapped, refused,
                           stopFailed, crossed>>
        BY <2>31, Zenon DEF StatusSubscription, Booleans
      <4> QED
        BY <4>1, Zenon DEF Booleans
    <3>2. Enumerations'
      BY <2>31 DEF StatusSubscription, RescheduleStatus, Scheduled, Enumerations
    <3> QED
      BY <3>1, <3>2, <2>a
  <2>32. CASE UNCHANGED vars
    <3>1. Booleans'
      BY <2>32, BooleansKept DEF vars, booleanVars
    <3>2. Enumerations'
      BY <2>32 DEF vars, Enumerations
    <3> QED
      BY <3>1, <3>2, <2>a
  <2>33. ASSUME NEW t \in Threads, DisconnectFails(t) PROVE TypeOK'
    <3>1. Booleans'
      BY <2>33, Zenon DEF DisconnectFails, Booleans
    <3>2. Enumerations'
      BY <2>33 DEF DisconnectFails, Goto, Enumerations
    <3> QED
      BY <3>1, <3>2, <2>a
  <2> QED
    BY <2>1, <2>2, <2>3, <2>4, <2>5, <2>6, <2>7, <2>8, <2>9, <2>10,
       <2>11, <2>12, <2>13, <2>14, <2>15, <2>16, <2>17, <2>18, <2>19,
       <2>20, <2>21, <2>22, <2>23, <2>24, <2>25, <2>26, <2>27, <2>28,
       <2>29, <2>30, <2>31, <2>32, <2>33
       DEF Next, CallStep, WorkStep, StackStep
<1> QED
  BY <1>1, <1>2, PTL DEF Spec

\* No lost wake-up of the periodic status: whichever of connection callbacks,
\* subscription changes, service_stop and the handler's own re-arming come
\* first, a subscribed client's status work is scheduled or its handler is about
\* to look again (wt_ble_status_reschedule, wt_ble_status_ping_work_handler).
THEOREM StatusStaysArmed == Spec => []StatusArmed
<1>1. Init => StatusArmed
  BY DEF Init, StatusArmed
<1>2. TypeOK /\ StatusArmed /\ [Next]_vars => StatusArmed'
  <2> SUFFICES ASSUME TypeOK, StatusArmed, [Next]_vars PROVE StatusArmed'
    OBVIOUS
  <2>0. pc \in [Threads -> {"idle", "ping"} \cup CallSteps] /\ WorkQueue \in Threads
    BY DEF TypeOK, Threads
  <2> HIDE DEF TypeOK
  <2> USE <2>0
      DEF StatusArmed, flagVars, workVars, stackVars, countVars, histVars
  <2>1. ASSUME NEW t \in Threads, Start(t) PROVE StatusArmed'
    BY <2>1 DEF Start, Enter, Goto, CancelSelfStop
  <2>2. ASSUME NEW t \in Threads, Stop(t) PROVE StatusArmed'
    BY <2>2 DEF Stop, Enter, Goto, AfterStopEntry
  <2>3. ASSUME NEW t \in Threads, Rename(t) PROVE StatusArmed'
    BY <2>3 DEF Rename, Enter, Goto
  <2>4. ASSUME NEW t \in Threads, EnableBegins(t) PROVE StatusArmed'
    BY <2>4 DEF EnableBegins, Goto
  <2>5. ASSUME NEW t \in Threads, EnableReturns(t) PROVE StatusArmed'
    BY <2>5 DEF EnableReturns, Goto
  <2>6. ASSUME NEW t \in Threads, EnableFails(t) PROVE StatusArmed'
    BY <2>6 DEF EnableFails, Goto
  <2>7. ASSUME NEW t \in Threads, CheckAdvertising(t) PROVE StatusArmed'
    BY <2>7 DEF CheckAdvertising, Goto
  <2>8. ASSUME NEW t \in Threads, AdvStarts(t) PROVE StatusArmed'
    BY <2>8 DEF AdvStarts, Goto
  <2>9. ASSUME NEW t \in Threads, AdvHeld(t) PROVE StatusArmed'
    BY <2>9 DEF AdvHeld, Goto
  <2>10. ASSUME NEW t \in Threads, AdvRefused(t) PROVE StatusArmed'
    BY <2>10 DEF AdvRefused, Goto
  <2>11. ASSUME NEW t \in Threads, StoreAdvertising(t) PROVE StatusArmed'
    BY <2>11 DEF StoreAdvertising, Goto
  <2>12. ASSUME NEW t \in Threads, AdvStops(t) PROVE StatusArmed'
    BY <2>12 DEF AdvStops, StopsAdvertising, Goto
  <2>13. ASSUME NEW t \in Threads, AdvStopFails(t) PROVE StatusArmed'
    BY <2>13 DEF AdvStopFails, Goto
  <2>14. ASSUME NEW t \in Threads, Unlink(t) PROVE StatusArmed'
    BY <2>14 DEF Unlink, ClosesLink, Goto
  <2>15. ASSUME NEW t \in Threads, ClearFlags(t) PROVE StatusArmed'
    BY <2>15 DEF ClearFlags, Goto
  <2>16. ASSUME NEW t \in Threads, Disarm(t) PROVE StatusArmed'
    BY <2>16 DEF Disarm, RescheduleStatus, Scheduled, Goto
  <2>17. ASSUME NEW t \in Threads, RenameStops(t) PROVE StatusArmed'
    BY <2>17 DEF RenameStops, Goto
  <2>18. CASE AskSelfStop
    BY <2>18 DEF AskSelfStop, Scheduled
  <2>19. CASE RestartDue
    BY <2>19 DEF RestartDue
  <2>20. CASE SelfStopDue
    BY <2>20 DEF SelfStopDue
  <2>21. CASE PingDue
    BY <2>21 DEF PingDue
  <2>22. CASE SelfStop
    BY <2>22 DEF SelfStop, Enter, Goto, AfterStopEntry
  <2>23. CASE Restart
    BY <2>23 DEF Restart, Enter, Goto
  <2>24. CASE SkipRestart
    BY <2>24 DEF SkipRestart
  <2>25. CASE Ping
    BY <2>25 DEF Ping, Goto
  <2>26. CASE RearmPing
    BY <2>26 DEF RearmPing, Rearm, Goto, Scheduled
  <2>27. CASE Connect
    BY <2>27 DEF Connect, RescheduleStatus, Scheduled
  <2>28. CASE ConnectFails
    BY <2>28 DEF ConnectFails, ScheduleRestart, Scheduled
  <2>29. CASE Disconnected
    BY <2>29 DEF Disconnected, RescheduleStatus, Scheduled
  <2>30. CASE DropConn
    BY <2>30 DEF DropConn, ScheduleRestart, Scheduled
  <2>31. ASSUME NEW on \in BOOLEAN, StatusSubscription(on) PROVE StatusArmed'
    BY <2>31 DEF StatusSubscription, RescheduleStatus, Scheduled
  <2>32. CASE UNCHANGED vars
    BY <2>32 DEF vars
  <2>33. ASSUME NEW t \in Threads, DisconnectFails(t) PROVE StatusArmed'
    BY <2>33 DEF DisconnectFails, Goto
  <2> QED
    BY <2>1, <2>2, <2>3, <2>4, <2>5, <2>6, <2>7, <2>8, <2>9, <2>10,
       <2>11, <2>12, <2>13, <2>14, <2>15, <2>16, <2>17, <2>18, <2>19,
       <2>20, <2>21, <2>22, <2>23, <2>24, <2>25, <2>26, <2>27, <2>28,
       <2>29, <2>30, <2>31, <2>32, <2>33
       DEF Next, CallStep, WorkStep, StackStep
<1> QED
  BY <1>1, <1>2, TypeCorrect, PTL DEF Spec

-----------------------------------------------------------------------------
(* The flags and the stack.                                                *)

\* What the code believes of the connection, and what the stack knows: the
\* flag outlives the link only until service_stop clears it.
LinkMirrored ==
  /\ conn <=> link # "none"
  /\ connected => link \in {"up", "closing"}
  /\ connected /\ link = "closing" => \E t \in Threads : pc[t] = "flags"

\* The steps at the end of which the code knows what it has asked of the
\* stack's advertising.
Advertiser(t) == pc[t] \in {"check", "advstart", "store"}

AdvertisingMirrored ==
  /\ \A t \in Threads : pc[t] \in {"advstart", "store"} => ready
  /\ ~ready => ~radioAdv /\ ~advertising /\ link = "none"
  /\ radioAdv => link = "none"
  /\ radioAdv => advertising \/ \E t \in Threads : Advertiser(t)

\* Both hold at every step, whatever calls and callbacks interleave.
LEMMA MirrorHolds == Spec => [](TypeOK /\ LinkMirrored /\ AdvertisingMirrored)
<1>1. Init => LinkMirrored /\ AdvertisingMirrored
  BY DEF Init, LinkMirrored, AdvertisingMirrored
<1>2. TypeOK /\ LinkMirrored /\ [Next]_vars => LinkMirrored'
  <2> SUFFICES ASSUME TypeOK, LinkMirrored, [Next]_vars PROVE LinkMirrored'
    OBVIOUS
  <2>0. pc \in [Threads -> {"idle", "ping"} \cup CallSteps] /\ WorkQueue \in Threads
    BY DEF TypeOK, Threads
  <2> HIDE DEF TypeOK
  <2> USE <2>0
      DEF LinkMirrored, flagVars, workVars, stackVars, countVars, histVars
  <2>1. ASSUME NEW t \in Threads, Start(t) PROVE LinkMirrored'
    BY <2>1 DEF Start, Enter, Goto, CancelSelfStop
  <2>2. ASSUME NEW t \in Threads, Stop(t) PROVE LinkMirrored'
    BY <2>2 DEF Stop, Enter, Goto, AfterStopEntry
  <2>3. ASSUME NEW t \in Threads, Rename(t) PROVE LinkMirrored'
    BY <2>3 DEF Rename, Enter, Goto
  <2>4. ASSUME NEW t \in Threads, EnableBegins(t) PROVE LinkMirrored'
    BY <2>4 DEF EnableBegins, Goto
  <2>5. ASSUME NEW t \in Threads, EnableReturns(t) PROVE LinkMirrored'
    BY <2>5 DEF EnableReturns, Goto
  <2>6. ASSUME NEW t \in Threads, EnableFails(t) PROVE LinkMirrored'
    BY <2>6 DEF EnableFails, Goto
  <2>7. ASSUME NEW t \in Threads, CheckAdvertising(t) PROVE LinkMirrored'
    BY <2>7 DEF CheckAdvertising, Goto
  <2>8. ASSUME NEW t \in Threads, AdvStarts(t) PROVE LinkMirrored'
    BY <2>8 DEF AdvStarts, Goto
  <2>9. ASSUME NEW t \in Threads, AdvHeld(t) PROVE LinkMirrored'
    BY <2>9 DEF AdvHeld, Goto
  <2>10. ASSUME NEW t \in Threads, AdvRefused(t) PROVE LinkMirrored'
    BY <2>10 DEF AdvRefused, Goto
  <2>11. ASSUME NEW t \in Threads, StoreAdvertising(t) PROVE LinkMirrored'
    BY <2>11 DEF StoreAdvertising, Goto
  <2>12. ASSUME NEW t \in Threads, AdvStops(t) PROVE LinkMirrored'
    BY <2>12 DEF AdvStops, StopsAdvertising, Goto
  <2>13. ASSUME NEW t \in Threads, AdvStopFails(t) PROVE LinkMirrored'
    BY <2>13 DEF AdvStopFails, Goto
  <2>14. ASSUME NEW t \in Threads, Unlink(t) PROVE LinkMirrored'
    BY <2>14 DEF Unlink, ClosesLink, Goto
  <2>15. ASSUME NEW t \in Threads, ClearFlags(t) PROVE LinkMirrored'
    BY <2>15 DEF ClearFlags, Goto
  <2>16. ASSUME NEW t \in Threads, Disarm(t) PROVE LinkMirrored'
    BY <2>16 DEF Disarm, Goto
  <2>17. ASSUME NEW t \in Threads, RenameStops(t) PROVE LinkMirrored'
    BY <2>17 DEF RenameStops, Goto
  <2>18. CASE AskSelfStop
    BY <2>18 DEF AskSelfStop, Scheduled
  <2>19. CASE RestartDue
    BY <2>19 DEF RestartDue
  <2>20. CASE SelfStopDue
    BY <2>20 DEF SelfStopDue
  <2>21. CASE PingDue
    BY <2>21 DEF PingDue
  <2>22. CASE SelfStop
    BY <2>22 DEF SelfStop, Enter, Goto, AfterStopEntry
  <2>23. CASE Restart
    BY <2>23 DEF Restart, Enter, Goto
  <2>24. CASE SkipRestart
    BY <2>24 DEF SkipRestart
  <2>25. CASE Ping
    BY <2>25 DEF Ping, Goto
  <2>26. CASE RearmPing
    BY <2>26 DEF RearmPing, Goto
  <2>27. CASE Connect
    BY <2>27 DEF Connect
  <2>28. CASE ConnectFails
    BY <2>28 DEF ConnectFails
  <2>29. CASE Disconnected
    BY <2>29 DEF Disconnected
  <2>30. CASE DropConn
    BY <2>30 DEF DropConn
  <2>31. ASSUME NEW on \in BOOLEAN, StatusSubscription(on) PROVE LinkMirrored'
    BY <2>31 DEF StatusSubscription
  <2>32. CASE UNCHANGED vars
    BY <2>32 DEF vars
  <2>33. ASSUME NEW t \in Threads, DisconnectFails(t) PROVE LinkMirrored'
    BY <2>33 DEF DisconnectFails, Goto
  <2> QED
    BY <2>1, <2>2, <2>3, <2>4, <2>5, <2>6, <2>7, <2>8, <2>9, <2>10, <2>11,
       <2>12, <2>13, <2>14, <2>15, <2>16, <2>17, <2>18, <2>19, <2>20, <2>21,
       <2>22, <2>23, <2>24, <2>25, <2>26, <2>27, <2>28, <2>29, <2>30, <2>31,
       <2>32, <2>33
    DEF Next, CallStep, WorkStep, StackStep
<1>3. TypeOK /\ LinkMirrored /\ AdvertisingMirrored /\ [Next]_vars
        => AdvertisingMirrored'
  <2> SUFFICES ASSUME TypeOK, LinkMirrored, AdvertisingMirrored, [Next]_vars
               PROVE  AdvertisingMirrored'
    OBVIOUS
  <2>0. /\ pc \in [Threads -> {"idle", "ping"} \cup CallSteps]
        /\ WorkQueue \in Threads
        /\ radioAdv => ~connected
    BY DEF TypeOK, Threads, LinkMirrored, AdvertisingMirrored
  <2> HIDE DEF TypeOK
  <2> USE <2>0
      DEF AdvertisingMirrored, Advertiser, flagVars, workVars, stackVars,
          countVars, histVars
  <2>1. ASSUME NEW t \in Threads, Start(t) PROVE AdvertisingMirrored'
    BY <2>1 DEF Start, Enter, Goto, CancelSelfStop
  <2>2. ASSUME NEW t \in Threads, Stop(t) PROVE AdvertisingMirrored'
    BY <2>2 DEF Stop, Enter, Goto, AfterStopEntry
  <2>3. ASSUME NEW t \in Threads, Rename(t) PROVE AdvertisingMirrored'
    BY <2>3 DEF Rename, Enter, Goto
  <2>4. ASSUME NEW t \in Threads, EnableBegins(t) PROVE AdvertisingMirrored'
    BY <2>4 DEF EnableBegins, Goto
  <2>5. ASSUME NEW t \in Threads, EnableReturns(t) PROVE AdvertisingMirrored'
    BY <2>5 DEF EnableReturns, Goto
  <2>6. ASSUME NEW t \in Threads, EnableFails(t) PROVE AdvertisingMirrored'
    BY <2>6 DEF EnableFails, Goto
  <2>7. ASSUME NEW t \in Threads, CheckAdvertising(t) PROVE AdvertisingMirrored'
    BY <2>7 DEF CheckAdvertising, Goto
  <2>8. ASSUME NEW t \in Threads, AdvStarts(t) PROVE AdvertisingMirrored'
    BY <2>8 DEF AdvStarts, Goto
  <2>9. ASSUME NEW t \in Threads, AdvHeld(t) PROVE AdvertisingMirrored'
    BY <2>9 DEF AdvHeld, Goto
  <2>10. ASSUME NEW t \in Threads, AdvRefused(t) PROVE AdvertisingMirrored'
    BY <2>10 DEF AdvRefused, Goto
  <2>11. ASSUME NEW t \in Threads, StoreAdvertising(t) PROVE AdvertisingMirrored'
    BY <2>11 DEF StoreAdvertising, Goto
  <2>12. ASSUME NEW t \in Threads, AdvStops(t) PROVE AdvertisingMirrored'
    BY <2>12 DEF AdvStops, StopsAdvertising, Goto
  <2>13. ASSUME NEW t \in Threads, AdvStopFails(t) PROVE AdvertisingMirrored'
    BY <2>13 DEF AdvStopFails, Goto
  <2>14. ASSUME NEW t \in Threads, Unlink(t) PROVE AdvertisingMirrored'
    BY <2>14 DEF Unlink, ClosesLink, Goto
  <2>15. ASSUME NEW t \in Threads, ClearFlags(t) PROVE AdvertisingMirrored'
    BY <2>15 DEF ClearFlags, Goto
  <2>16. ASSUME NEW t \in Threads, Disarm(t) PROVE AdvertisingMirrored'
    BY <2>16 DEF Disarm, Goto
  <2>17. ASSUME NEW t \in Threads, RenameStops(t) PROVE AdvertisingMirrored'
    BY <2>17 DEF RenameStops, Goto
  <2>18. CASE AskSelfStop
    BY <2>18 DEF AskSelfStop, Scheduled
  <2>19. CASE RestartDue
    BY <2>19 DEF RestartDue
  <2>20. CASE SelfStopDue
    BY <2>20 DEF SelfStopDue
  <2>21. CASE PingDue
    BY <2>21 DEF PingDue
  <2>22. CASE SelfStop
    BY <2>22 DEF SelfStop, Enter, Goto, AfterStopEntry
  <2>23. CASE Restart
    BY <2>23 DEF Restart, Enter, Goto
  <2>24. CASE SkipRestart
    BY <2>24 DEF SkipRestart
  <2>25. CASE Ping
    BY <2>25 DEF Ping, Goto
  <2>26. CASE RearmPing
    BY <2>26 DEF RearmPing, Goto
  <2>27. CASE Connect
    BY <2>27 DEF Connect
  <2>28. CASE ConnectFails
    BY <2>28 DEF ConnectFails
  <2>29. CASE Disconnected
    BY <2>29 DEF Disconnected
  <2>30. CASE DropConn
    BY <2>30 DEF DropConn
  <2>31. ASSUME NEW on \in BOOLEAN, StatusSubscription(on) PROVE AdvertisingMirrored'
    BY <2>31 DEF StatusSubscription
  <2>32. CASE UNCHANGED vars
    BY <2>32 DEF vars
  <2>33. ASSUME NEW t \in Threads, DisconnectFails(t) PROVE AdvertisingMirrored'
    BY <2>33 DEF DisconnectFails, Goto
  <2> QED
    BY <2>1, <2>2, <2>3, <2>4, <2>5, <2>6, <2>7, <2>8, <2>9, <2>10, <2>11,
       <2>12, <2>13, <2>14, <2>15, <2>16, <2>17, <2>18, <2>19, <2>20, <2>21,
       <2>22, <2>23, <2>24, <2>25, <2>26, <2>27, <2>28, <2>29, <2>30, <2>31,
       <2>32, <2>33
    DEF Next, CallStep, WorkStep, StackStep
<1> QED
  BY <1>1, <1>2, <1>3, TypeCorrect, PTL DEF Spec

\* No order of callbacks, stops, restarts and renames leaves the code with a
\* wrong picture of the stack: at all times for the connection, and whenever no
\* call is under way for the advertising and the connected flag (ble_conn,
\* ble_connected_state, ble_advertising).
THEOREM FlagsMirrorTheStack == Spec => []FlagsMirrorStack
<1>1. LinkMirrored /\ AdvertisingMirrored => FlagsMirrorStack
  BY DEF LinkMirrored, AdvertisingMirrored, Advertiser, FlagsMirrorStack, Quiet, InCall
<1> QED
  BY <1>1, MirrorHolds, PTL

-----------------------------------------------------------------------------
(* Service calls, one at a time.                                           *)

\* While no two calls have overlapped there is one at most, and the stack is
\* being brought up only by the call that waits for it.
Alone ==
  /\ ~overlapped => \A t, u \in Threads : InCall(t) /\ InCall(u) => t = u
  /\ ~overlapped => \A t \in Threads : pc[t] \in {"enable", "enabling"} => ~ready
  /\ stackOn /\ ~ready => \E t \in Threads : pc[t] = "enabling"

\* It holds at every step: a call that enters beside another one is recorded.
LEMMA AloneHolds == Spec => []Alone
<1>1. Init => Alone
  BY DEF Init, Alone, InCall
<1>2. TypeOK /\ Alone /\ [Next]_vars => Alone'
  <2> SUFFICES ASSUME TypeOK, Alone, [Next]_vars PROVE Alone'
    OBVIOUS
  <2>0. pc \in [Threads -> {"idle", "ping"} \cup CallSteps] /\ WorkQueue \in Threads
    BY DEF TypeOK, Threads
  <2> HIDE DEF TypeOK
  <2> USE <2>0
      DEF Alone, InCall, Quiet, flagVars, workVars, stackVars, countVars, histVars
  <2>1. ASSUME NEW t \in Threads, Start(t) PROVE Alone'
    BY <2>1 DEF Start, Enter, Goto, CancelSelfStop
  <2>2. ASSUME NEW t \in Threads, Stop(t) PROVE Alone'
    BY <2>2 DEF Stop, Enter, Goto, AfterStopEntry
  <2>3. ASSUME NEW t \in Threads, Rename(t) PROVE Alone'
    BY <2>3 DEF Rename, Enter, Goto
  <2>4. ASSUME NEW t \in Threads, EnableBegins(t) PROVE Alone'
    BY <2>4 DEF EnableBegins, Goto
  <2>5. ASSUME NEW t \in Threads, EnableReturns(t) PROVE Alone'
    BY <2>5 DEF EnableReturns, Goto
  <2>6. ASSUME NEW t \in Threads, EnableFails(t) PROVE Alone'
    BY <2>6 DEF EnableFails, Goto
  <2>7. ASSUME NEW t \in Threads, CheckAdvertising(t) PROVE Alone'
    BY <2>7 DEF CheckAdvertising, Goto
  <2>8. ASSUME NEW t \in Threads, AdvStarts(t) PROVE Alone'
    BY <2>8 DEF AdvStarts, Goto
  <2>9. ASSUME NEW t \in Threads, AdvHeld(t) PROVE Alone'
    BY <2>9 DEF AdvHeld, Goto
  <2>10. ASSUME NEW t \in Threads, AdvRefused(t) PROVE Alone'
    BY <2>10 DEF AdvRefused, Goto
  <2>11. ASSUME NEW t \in Threads, StoreAdvertising(t) PROVE Alone'
    BY <2>11 DEF StoreAdvertising, Goto
  <2>12. ASSUME NEW t \in Threads, AdvStops(t) PROVE Alone'
    BY <2>12 DEF AdvStops, StopsAdvertising, Goto
  <2>13. ASSUME NEW t \in Threads, AdvStopFails(t) PROVE Alone'
    BY <2>13 DEF AdvStopFails, Goto
  <2>14. ASSUME NEW t \in Threads, Unlink(t) PROVE Alone'
    BY <2>14 DEF Unlink, ClosesLink, Goto
  <2>15. ASSUME NEW t \in Threads, ClearFlags(t) PROVE Alone'
    BY <2>15 DEF ClearFlags, Goto
  <2>16. ASSUME NEW t \in Threads, Disarm(t) PROVE Alone'
    BY <2>16 DEF Disarm, Goto
  <2>17. ASSUME NEW t \in Threads, RenameStops(t) PROVE Alone'
    BY <2>17 DEF RenameStops, Goto
  <2>18. CASE AskSelfStop
    BY <2>18 DEF AskSelfStop, Scheduled
  <2>19. CASE RestartDue
    BY <2>19 DEF RestartDue
  <2>20. CASE SelfStopDue
    BY <2>20 DEF SelfStopDue
  <2>21. CASE PingDue
    BY <2>21 DEF PingDue
  <2>22. CASE SelfStop
    BY <2>22 DEF SelfStop, Enter, Goto, AfterStopEntry
  <2>23. CASE Restart
    BY <2>23 DEF Restart, Enter, Goto
  <2>24. CASE SkipRestart
    BY <2>24 DEF SkipRestart
  <2>25. CASE Ping
    BY <2>25 DEF Ping, Goto
  <2>26. CASE RearmPing
    BY <2>26 DEF RearmPing, Goto
  <2>27. CASE Connect
    BY <2>27 DEF Connect
  <2>28. CASE ConnectFails
    BY <2>28 DEF ConnectFails
  <2>29. CASE Disconnected
    BY <2>29 DEF Disconnected
  <2>30. CASE DropConn
    BY <2>30 DEF DropConn
  <2>31. ASSUME NEW on \in BOOLEAN, StatusSubscription(on) PROVE Alone'
    BY <2>31 DEF StatusSubscription
  <2>32. CASE UNCHANGED vars
    BY <2>32 DEF vars
  <2>33. ASSUME NEW t \in Threads, DisconnectFails(t) PROVE Alone'
    BY <2>33 DEF DisconnectFails, Goto
  <2> QED
    BY <2>1, <2>2, <2>3, <2>4, <2>5, <2>6, <2>7, <2>8, <2>9, <2>10, <2>11,
       <2>12, <2>13, <2>14, <2>15, <2>16, <2>17, <2>18, <2>19, <2>20, <2>21,
       <2>22, <2>23, <2>24, <2>25, <2>26, <2>27, <2>28, <2>29, <2>30, <2>31,
       <2>32, <2>33
    DEF Next, CallStep, WorkStep, StackStep
<1> QED
  BY <1>1, <1>2, TypeCorrect, PTL DEF Spec

\* The request is what the last command asked for, or will be once the
\* self-stop of a BLE "ble off" has run.
RequestFollows ==
  ~overlapped =>
    /\ selfStopWork = "idle" => (requested <=> wanted)
    /\ selfStopWork # "idle" => ~wanted

\* No restart, callback or self-stop undoes the last command, as long as calls
\* do not overlap: wt_ble_service_start cancels the self-stop before it sets
\* ble_requested.
THEOREM LastCommandWinsAlways == Spec => []LastCommandWins
<1>1. Init => RequestFollows
  BY DEF Init, RequestFollows
<1>2. TypeOK /\ Alone /\ RequestFollows /\ [Next]_vars => RequestFollows'
  <2> SUFFICES ASSUME TypeOK, Alone, RequestFollows, [Next]_vars
               PROVE  RequestFollows'
    OBVIOUS
  <2>0. /\ pc \in [Threads -> {"idle", "ping"} \cup CallSteps]
        /\ WorkQueue \in Threads
        /\ ~overlapped => \A t \in Threads : ~(pc[t] = "enable" /\ stackOn)
    BY DEF TypeOK, Threads, Alone, InCall
  <2> HIDE DEF TypeOK, Alone
  <2> USE <2>0
      DEF RequestFollows, flagVars, workVars, stackVars, countVars, histVars
  <2>1. ASSUME NEW t \in Threads, Start(t) PROVE RequestFollows'
    BY <2>1 DEF Start, Enter, Goto, CancelSelfStop
  <2>2. ASSUME NEW t \in Threads, Stop(t) PROVE RequestFollows'
    BY <2>2 DEF Stop, Enter, Goto, AfterStopEntry
  <2>3. ASSUME NEW t \in Threads, Rename(t) PROVE RequestFollows'
    BY <2>3 DEF Rename, Enter, Goto
  <2>4. ASSUME NEW t \in Threads, EnableBegins(t) PROVE RequestFollows'
    BY <2>4 DEF EnableBegins, Goto
  <2>5. ASSUME NEW t \in Threads, EnableReturns(t) PROVE RequestFollows'
    BY <2>5 DEF EnableReturns, Goto
  <2>6. ASSUME NEW t \in Threads, EnableFails(t) PROVE RequestFollows'
    BY <2>6 DEF EnableFails, Goto
  <2>7. ASSUME NEW t \in Threads, CheckAdvertising(t) PROVE RequestFollows'
    BY <2>7 DEF CheckAdvertising, Goto
  <2>8. ASSUME NEW t \in Threads, AdvStarts(t) PROVE RequestFollows'
    BY <2>8 DEF AdvStarts, Goto
  <2>9. ASSUME NEW t \in Threads, AdvHeld(t) PROVE RequestFollows'
    BY <2>9 DEF AdvHeld, Goto
  <2>10. ASSUME NEW t \in Threads, AdvRefused(t) PROVE RequestFollows'
    BY <2>10 DEF AdvRefused, Goto
  <2>11. ASSUME NEW t \in Threads, StoreAdvertising(t) PROVE RequestFollows'
    BY <2>11 DEF StoreAdvertising, Goto
  <2>12. ASSUME NEW t \in Threads, AdvStops(t) PROVE RequestFollows'
    BY <2>12 DEF AdvStops, StopsAdvertising, Goto
  <2>13. ASSUME NEW t \in Threads, AdvStopFails(t) PROVE RequestFollows'
    BY <2>13 DEF AdvStopFails, Goto
  <2>14. ASSUME NEW t \in Threads, Unlink(t) PROVE RequestFollows'
    BY <2>14 DEF Unlink, ClosesLink, Goto
  <2>15. ASSUME NEW t \in Threads, ClearFlags(t) PROVE RequestFollows'
    BY <2>15 DEF ClearFlags, Goto
  <2>16. ASSUME NEW t \in Threads, Disarm(t) PROVE RequestFollows'
    BY <2>16 DEF Disarm, Goto
  <2>17. ASSUME NEW t \in Threads, RenameStops(t) PROVE RequestFollows'
    BY <2>17 DEF RenameStops, Goto
  <2>18. CASE AskSelfStop
    BY <2>18 DEF AskSelfStop, Scheduled
  <2>19. CASE RestartDue
    BY <2>19 DEF RestartDue
  <2>20. CASE SelfStopDue
    BY <2>20 DEF SelfStopDue
  <2>21. CASE PingDue
    BY <2>21 DEF PingDue
  <2>22. CASE SelfStop
    BY <2>22 DEF SelfStop, Enter, Goto, AfterStopEntry
  <2>23. CASE Restart
    BY <2>23 DEF Restart, Enter, Goto
  <2>24. CASE SkipRestart
    BY <2>24 DEF SkipRestart
  <2>25. CASE Ping
    BY <2>25 DEF Ping, Goto
  <2>26. CASE RearmPing
    BY <2>26 DEF RearmPing, Goto
  <2>27. CASE Connect
    BY <2>27 DEF Connect
  <2>28. CASE ConnectFails
    BY <2>28 DEF ConnectFails
  <2>29. CASE Disconnected
    BY <2>29 DEF Disconnected
  <2>30. CASE DropConn
    BY <2>30 DEF DropConn
  <2>31. ASSUME NEW on \in BOOLEAN, StatusSubscription(on) PROVE RequestFollows'
    BY <2>31 DEF StatusSubscription
  <2>32. CASE UNCHANGED vars
    BY <2>32 DEF vars
  <2>33. ASSUME NEW t \in Threads, DisconnectFails(t) PROVE RequestFollows'
    BY <2>33 DEF DisconnectFails, Goto
  <2> QED
    BY <2>1, <2>2, <2>3, <2>4, <2>5, <2>6, <2>7, <2>8, <2>9, <2>10, <2>11,
       <2>12, <2>13, <2>14, <2>15, <2>16, <2>17, <2>18, <2>19, <2>20, <2>21,
       <2>22, <2>23, <2>24, <2>25, <2>26, <2>27, <2>28, <2>29, <2>30, <2>31,
       <2>32, <2>33
    DEF Next, CallStep, WorkStep, StackStep
<1>3. TypeOK /\ RequestFollows => LastCommandWins
  BY DEF TypeOK, RequestFollows, LastCommandWins
<1> QED
  BY <1>1, <1>2, <1>3, TypeCorrect, AloneHolds, PTL DEF Spec

\* What a stop that asked for off has still to do: nothing else but that stop
\* is under way, and what it has passed is off.
Stopping ==
  ~overlapped /\ ~stopFailed /\ ~requested =>
    /\ \A t \in Threads : pc[t] \notin {"enable", "enabling", "check",
                                        "advstart", "store", "readv"}
    /\ advertising \/ radioAdv => \E t \in Threads : pc[t] = "advstop"
    /\ link = "up" => \E t \in Threads : pc[t] \in {"advstop", "unlink"}

\* After wt_ble_service_stop nothing is on the air: neither advertising nor a
\* link survives it, whatever callbacks and work items ran in between, unless
\* calls overlapped or the stack itself refused what that stop asked of it.
THEOREM OffMeansOffAlways == Spec => []OffMeansOff
<1>1. Init => Stopping
  BY DEF Init, Stopping
<1>2. /\ TypeOK /\ LinkMirrored /\ AdvertisingMirrored /\ Alone /\ Stopping
      /\ [Next]_vars
      => Stopping'
  <2> SUFFICES ASSUME TypeOK, LinkMirrored, AdvertisingMirrored, Alone, Stopping,
                      [Next]_vars
               PROVE  Stopping'
    OBVIOUS
  <2>0. /\ pc \in [Threads -> {"idle", "ping"} \cup CallSteps]
        /\ WorkQueue \in Threads
        /\ link = "up" => conn
        /\ ~ready => ~radioAdv /\ ~advertising /\ link = "none"
        /\ radioAdv => advertising \/ \E t \in Threads : Advertiser(t)
    BY DEF TypeOK, Threads, LinkMirrored, AdvertisingMirrored
  <2> HIDE DEF TypeOK
  <2> USE <2>0
      DEF Stopping, Advertiser, Alone, InCall, Quiet,
          flagVars, workVars, stackVars, countVars, histVars
  <2>1. ASSUME NEW t \in Threads, Start(t) PROVE Stopping'
    BY <2>1 DEF Start, Enter, Goto, CancelSelfStop
  <2>2. ASSUME NEW t \in Threads, Stop(t) PROVE Stopping'
    BY <2>2 DEF Stop, Enter, Goto, AfterStopEntry
  <2>3. ASSUME NEW t \in Threads, Rename(t) PROVE Stopping'
    BY <2>3 DEF Rename, Enter, Goto
  <2>4. ASSUME NEW t \in Threads, EnableBegins(t) PROVE Stopping'
    BY <2>4 DEF EnableBegins, Goto
  <2>5. ASSUME NEW t \in Threads, EnableReturns(t) PROVE Stopping'
    BY <2>5 DEF EnableReturns, Goto
  <2>6. ASSUME NEW t \in Threads, EnableFails(t) PROVE Stopping'
    BY <2>6 DEF EnableFails, Goto
  <2>7. ASSUME NEW t \in Threads, CheckAdvertising(t) PROVE Stopping'
    BY <2>7 DEF CheckAdvertising, Goto
  <2>8. ASSUME NEW t \in Threads, AdvStarts(t) PROVE Stopping'
    BY <2>8 DEF AdvStarts, Goto
  <2>9. ASSUME NEW t \in Threads, AdvHeld(t) PROVE Stopping'
    BY <2>9 DEF AdvHeld, Goto
  <2>10. ASSUME NEW t \in Threads, AdvRefused(t) PROVE Stopping'
    BY <2>10 DEF AdvRefused, Goto
  <2>11. ASSUME NEW t \in Threads, StoreAdvertising(t) PROVE Stopping'
    BY <2>11 DEF StoreAdvertising, Goto
  <2>12. ASSUME NEW t \in Threads, AdvStops(t) PROVE Stopping'
    BY <2>12 DEF AdvStops, StopsAdvertising, Goto
  <2>13. ASSUME NEW t \in Threads, AdvStopFails(t) PROVE Stopping'
    BY <2>13 DEF AdvStopFails, Goto
  <2>14. ASSUME NEW t \in Threads, Unlink(t) PROVE Stopping'
    BY <2>14 DEF Unlink, ClosesLink, Goto
  <2>15. ASSUME NEW t \in Threads, ClearFlags(t) PROVE Stopping'
    BY <2>15 DEF ClearFlags, Goto
  <2>16. ASSUME NEW t \in Threads, Disarm(t) PROVE Stopping'
    BY <2>16 DEF Disarm, Goto
  <2>17. ASSUME NEW t \in Threads, RenameStops(t) PROVE Stopping'
    BY <2>17 DEF RenameStops, Goto
  <2>18. CASE AskSelfStop
    BY <2>18 DEF AskSelfStop, Scheduled
  <2>19. CASE RestartDue
    BY <2>19 DEF RestartDue
  <2>20. CASE SelfStopDue
    BY <2>20 DEF SelfStopDue
  <2>21. CASE PingDue
    BY <2>21 DEF PingDue
  <2>22. CASE SelfStop
    BY <2>22 DEF SelfStop, Enter, Goto, AfterStopEntry
  <2>23. CASE Restart
    BY <2>23 DEF Restart, RestartAllowed, Enter, Goto
  <2>24. CASE SkipRestart
    BY <2>24 DEF SkipRestart
  <2>25. CASE Ping
    BY <2>25 DEF Ping, Goto
  <2>26. CASE RearmPing
    BY <2>26 DEF RearmPing, Goto
  <2>27. CASE Connect
    BY <2>27 DEF Connect
  <2>28. CASE ConnectFails
    BY <2>28 DEF ConnectFails
  <2>29. CASE Disconnected
    BY <2>29 DEF Disconnected
  <2>30. CASE DropConn
    BY <2>30 DEF DropConn
  <2>31. ASSUME NEW on \in BOOLEAN, StatusSubscription(on) PROVE Stopping'
    BY <2>31 DEF StatusSubscription
  <2>32. CASE UNCHANGED vars
    BY <2>32 DEF vars
  <2>33. ASSUME NEW t \in Threads, DisconnectFails(t) PROVE Stopping'
    BY <2>33 DEF DisconnectFails, Goto
  <2> QED
    BY <2>1, <2>2, <2>3, <2>4, <2>5, <2>6, <2>7, <2>8, <2>9, <2>10, <2>11,
       <2>12, <2>13, <2>14, <2>15, <2>16, <2>17, <2>18, <2>19, <2>20, <2>21,
       <2>22, <2>23, <2>24, <2>25, <2>26, <2>27, <2>28, <2>29, <2>30, <2>31,
       <2>32, <2>33
    DEF Next, CallStep, WorkStep, StackStep
<1>3. Stopping => OffMeansOff
  BY DEF Stopping, OffMeansOff, Quiet, InCall
<1> QED
  BY <1>1, <1>2, <1>3, TypeCorrect, MirrorHolds, AloneHolds, PTL DEF Spec
=============================================================================
