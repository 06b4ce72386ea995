------------------------------ MODULE BleLink ------------------------------
(***************************************************************************)
(* The BLE service of src/src/wt_ble.c: wt_ble_service_start and _stop,    *)
(* advertising, the connection callbacks, and the work items that restart  *)
(* advertising, stop the service after a BLE "ble off" and send the        *)
(* periodic status.                                                        *)
(*                                                                         *)
(* None of the flags is protected by a lock.  Calls come from the shell,   *)
(* the UDP command thread and the system workqueue (BLE commands, delayed  *)
(* actions, restarts); the connection callbacks come from the Bluetooth    *)
(* receive thread, which preempts the callers.  A call into the Bluetooth  *)
(* stack blocks, so it is a step of its own.                               *)
(***************************************************************************)
EXTENDS Integers, FiniteSets

CONSTANTS
  Callers,      \* threads that run service calls: shell, UDP, main
  WorkQueue,    \* the system workqueue thread
  MaxCalls,     \* bound: service calls and renames asked for
  MaxLinks      \* bound: connections

ASSUME CallersAssumption == WorkQueue \notin Callers
ASSUME BoundsAssumption  == MaxCalls \in Nat /\ MaxLinks \in Nat

Threads == Callers \cup {WorkQueue}

VARIABLES
  requested,    \* ble_requested
  ready,        \* ble_ready
  advertising,  \* ble_advertising
  connected,    \* ble_connected_state
  conn,         \* ble_conn is not NULL
  statusOn,     \* ble_status_notify_enabled
  restartWork, selfStopWork, pingWork,  \* "idle", "delayed" or "queued"
  pc,           \* per thread, its next step
  stackOn,      \* external: bt_enable has been called
  radioAdv,     \* external: the stack is advertising
  link,         \* external: the connection object of the stack
  calls, links, \* calls asked for and connections made so far
  wanted,       \* history: what the last command asked for
  overlapped,   \* history: two threads have been inside service calls at once
  refused,      \* history: the stack refused to start advertising
  stopFailed,   \* history: in the last stop the stack refused to stop
                \* advertising or to disconnect
  crossed       \* history: an attempt to connect or a connection ended before
                \* the code had recorded the advertising it came from

flagVars  == <<requested, ready, advertising, connected, conn, statusOn>>
workVars  == <<restartWork, selfStopWork, pingWork>>
stackVars == <<stackOn, radioAdv, link>>
countVars == <<calls, links>>
histVars  == <<wanted, overlapped, refused, stopFailed, crossed>>
vars == <<flagVars, workVars, pc, stackVars, countVars, histVars>>

Init ==
  /\ requested = FALSE /\ ready = FALSE /\ advertising = FALSE
  /\ connected = FALSE /\ conn = FALSE /\ statusOn = FALSE
  /\ restartWork = "idle" /\ selfStopWork = "idle" /\ pingWork = "idle"
  /\ pc = [t \in Threads |-> "idle"]
  /\ stackOn = FALSE /\ radioAdv = FALSE /\ link = "none"
  /\ calls = 0 /\ links = 0
  /\ wanted = FALSE /\ overlapped = FALSE /\ refused = FALSE
  /\ stopFailed = FALSE /\ crossed = FALSE

Goto(t, step) == pc' = [pc EXCEPT ![t] = step]

\* The threads inside service_start, service_stop, name_set or the restart.
InCall(t) == pc[t] \notin {"idle", "ping"}
Quiet == \A t \in Threads : ~InCall(t)

\* Enter a call that touches the service flags.
Enter(t, step) ==
  /\ pc[t] = "idle"
  /\ Goto(t, step)
  /\ overlapped' = (overlapped \/ ~Quiet)

\* k_work_schedule: a no-op on an item already delayed or queued, but not on
\* one whose handler runs.
Scheduled(w, when) == IF w = "idle" THEN when ELSE w

\* wt_ble_schedule_advertising_restart, after the caller cleared connected.
NoRestart == restartWork' = restartWork    \* faulty: nobody restarts it
ScheduleRestart ==
  restartWork' = IF requested /\ ready THEN Scheduled(restartWork, "delayed")
                                       ELSE restartWork

\* wt_ble_status_reschedule, with the values the flags have by then.
RescheduleStatus(isUp, isOn) ==
  pingWork' = IF isUp /\ isOn THEN Scheduled(pingWork, "queued") ELSE "idle"

-----------------------------------------------------------------------------
(* wt_ble_service_start                                                    *)

\* Cancels the self-stop and sets the request.
KeepSelfStop == selfStopWork' = selfStopWork   \* faulty: does not cancel
CancelSelfStop == selfStopWork' = "idle"

Start(t) ==
  /\ calls < MaxCalls
  /\ calls' = calls + 1
  /\ Enter(t, IF ready THEN "check" ELSE "enable")
  /\ CancelSelfStop
  /\ requested' = TRUE
  /\ wanted' = TRUE
  /\ UNCHANGED <<ready, advertising, connected, conn, statusOn, restartWork,
                 pingWork, stackVars, links, refused, stopFailed, crossed>>

\* bt_enable: the first call brings the stack up, any other gets -EALREADY.
\* A failure withdraws the request.
EnableBegins(t) ==
  /\ pc[t] = "enable"
  /\ ~stackOn
  /\ stackOn' = TRUE
  /\ Goto(t, "enabling")
  /\ UNCHANGED <<flagVars, workVars, radioAdv, link, countVars, histVars>>

EnableReturns(t) ==
  /\ pc[t] = "enabling"
  /\ ready' = TRUE
  /\ Goto(t, "check")
  /\ UNCHANGED <<requested, advertising, connected, conn, statusOn, workVars,
                 stackVars, countVars, histVars>>

EnableFails(t) ==
  /\ \/ pc[t] = "enabling" /\ stackOn' = FALSE /\ wanted' = FALSE
     \/ pc[t] = "enable" /\ stackOn /\ UNCHANGED <<stackOn, wanted>>
  /\ requested' = FALSE
  /\ restartWork' = "idle"
  /\ Goto(t, "idle")
  /\ UNCHANGED <<ready, advertising, connected, conn, statusOn, selfStopWork,
                 pingWork, radioAdv, link, countVars, overlapped, refused,
                 stopFailed, crossed>>

-----------------------------------------------------------------------------
(* wt_ble_advertising_start, from start, restart and name_set.             *)

\* Its early returns: not ready, or already connected or advertising.
CheckAdvertising(t) ==
  /\ pc[t] = "check"
  /\ Goto(t, IF ~ready \/ connected \/ advertising THEN "idle" ELSE "advstart")
  /\ UNCHANGED <<flagVars, workVars, stackVars, countVars, histVars>>

\* bt_le_adv_start: connectable advertising needs the only connection object
\* (CONFIG_BT_MAX_CONN=1).  Starting what is started is -EALREADY.
AdvStarts(t) ==
  /\ pc[t] = "advstart"
  /\ radioAdv \/ link = "none"
  /\ radioAdv' = TRUE
  /\ Goto(t, "store")
  /\ UNCHANGED <<flagVars, workVars, stackOn, link, countVars, histVars>>

AdvHeld(t) ==
  /\ pc[t] = "advstart"
  /\ ~radioAdv /\ link # "none"
  /\ Goto(t, "idle")
  /\ UNCHANGED <<flagVars, workVars, stackVars, countVars, histVars>>

\* Any other error of the stack.  No caller tries again.
AdvRefused(t) ==
  /\ pc[t] = "advstart"
  /\ ~radioAdv
  /\ refused' = TRUE
  /\ Goto(t, "idle")
  /\ UNCHANGED <<flagVars, workVars, stackVars, countVars, wanted, overlapped,
                 stopFailed, crossed>>

StoreAdvertising(t) ==
  /\ pc[t] = "store"
  /\ advertising' = TRUE
  /\ Goto(t, "idle")
  /\ UNCHANGED <<requested, ready, connected, conn, statusOn, workVars,
                 stackVars, countVars, histVars>>

-----------------------------------------------------------------------------
(* wt_ble_service_stop                                                     *)

AfterStopEntry == IF advertising THEN "advstop" ELSE "unlink"

Stop(t) ==
  /\ calls < MaxCalls
  /\ calls' = calls + 1
  /\ Enter(t, AfterStopEntry)
  /\ requested' = FALSE
  /\ wanted' = FALSE /\ stopFailed' = FALSE
  /\ UNCHANGED <<ready, advertising, connected, conn, statusOn, workVars,
                 stackVars, links, refused, crossed>>

\* bt_le_adv_stop
ForgetsAdvertising == radioAdv' = radioAdv /\ advertising' = FALSE  \* faulty
StopsAdvertising == radioAdv' = FALSE /\ advertising' = FALSE

AdvStops(t) ==
  /\ pc[t] = "advstop"
  /\ StopsAdvertising
  /\ Goto(t, "unlink")
  /\ UNCHANGED <<requested, ready, connected, conn, statusOn, workVars,
                 stackOn, link, countVars, histVars>>

AdvStopFails(t) ==
  /\ pc[t] = "advstop"
  /\ radioAdv
  /\ stopFailed' = TRUE
  /\ Goto(t, "unlink")
  /\ UNCHANGED <<flagVars, workVars, stackVars, countVars, wanted, overlapped,
                 refused, crossed>>

\* bt_conn_disconnect starts the disconnection; its callback comes later.
KeepsLink == link' = link                                 \* faulty: not called
ClosesLink == link' = IF conn /\ link = "up" THEN "closing" ELSE link

Unlink(t) ==
  /\ pc[t] = "unlink"
  /\ ClosesLink
  /\ Goto(t, "flags")
  /\ UNCHANGED <<flagVars, workVars, stackOn, radioAdv, countVars, histVars>>

\* Its failure is only logged: the stop goes on with the link open, and
\* clears the flags that told of it.
DisconnectFails(t) ==
  /\ pc[t] = "unlink"
  /\ conn /\ link = "up"
  /\ stopFailed' = TRUE
  /\ Goto(t, "flags")
  /\ UNCHANGED <<flagVars, workVars, stackVars, countVars, wanted, overlapped,
                 refused, crossed>>

ClearFlags(t) ==
  /\ pc[t] = "flags"
  /\ connected' = FALSE /\ statusOn' = FALSE
  /\ Goto(t, "disarm")
  /\ UNCHANGED <<requested, ready, advertising, conn, workVars, stackVars,
                 countVars, histVars>>

\* wt_ble_status_reschedule reads the flags again.
Disarm(t) ==
  /\ pc[t] = "disarm"
  /\ RescheduleStatus(connected, statusOn)
  /\ Goto(t, "idle")
  /\ UNCHANGED <<flagVars, restartWork, selfStopWork, stackVars, countVars,
                 histVars>>

-----------------------------------------------------------------------------
(* wt_ble_name_set: restarts advertising under the new name.               *)

Rename(t) ==
  /\ calls < MaxCalls
  /\ calls' = calls + 1
  /\ advertising
  /\ Enter(t, "readv")
  /\ UNCHANGED <<flagVars, workVars, stackVars, links, wanted, refused,
                 stopFailed, crossed>>

RenameStops(t) ==
  /\ pc[t] = "readv"
  /\ advertising' = FALSE
  /\ \/ radioAdv' = FALSE                    \* bt_le_adv_stop
     \/ radioAdv' = radioAdv                 \* its error is ignored
  /\ Goto(t, "check")
  /\ UNCHANGED <<requested, ready, connected, conn, statusOn, workVars,
                 stackOn, link, countVars, histVars>>

-----------------------------------------------------------------------------
(* The system workqueue.                                                   *)

\* "ble off", "mode idle" and "mode wifi" from BLE: the response is queued
\* and wt_ble_schedule_self_stop_response schedules the stop.
AskSelfStop ==
  /\ pc[WorkQueue] = "idle"
  /\ calls < MaxCalls
  /\ connected
  /\ calls' = calls + 1
  /\ selfStopWork' = Scheduled(selfStopWork, "delayed")
  /\ wanted' = FALSE
  /\ overlapped' = (overlapped \/ ~Quiet)
  /\ UNCHANGED <<flagVars, restartWork, pingWork, pc, stackVars, links,
                 refused, stopFailed, crossed>>

\* The delay of a delayable item runs out.
RestartDue ==
  /\ restartWork = "delayed" /\ restartWork' = "queued"
  /\ UNCHANGED <<selfStopWork, pingWork, flagVars, pc, stackVars, countVars,
                 histVars>>

SelfStopDue ==
  /\ selfStopWork = "delayed" /\ selfStopWork' = "queued"
  /\ UNCHANGED <<restartWork, pingWork, flagVars, pc, stackVars, countVars,
                 histVars>>

PingDue ==
  /\ pingWork = "delayed" /\ pingWork' = "queued"
  /\ UNCHANGED <<restartWork, selfStopWork, flagVars, pc, stackVars, countVars,
                 histVars>>

\* wt_ble_self_stop_work_handler calls wt_ble_service_stop.
SelfStop ==
  /\ selfStopWork = "queued"
  /\ selfStopWork' = "idle"
  /\ Enter(WorkQueue, AfterStopEntry)
  /\ requested' = FALSE
  /\ stopFailed' = FALSE
  /\ UNCHANGED <<ready, advertising, connected, conn, statusOn, restartWork,
                 pingWork, stackVars, countVars, wanted, refused, crossed>>

\* wt_ble_adv_restart_work_handler
RestartAllowed == requested /\ ready /\ ~connected /\ ~advertising

Restart ==
  /\ restartWork = "queued"
  /\ RestartAllowed
  /\ restartWork' = "idle"
  /\ Enter(WorkQueue, "check")
  /\ UNCHANGED <<flagVars, selfStopWork, pingWork, stackVars, countVars,
                 wanted, refused, stopFailed, crossed>>

SkipRestart ==
  /\ pc[WorkQueue] = "idle"
  /\ restartWork = "queued"
  /\ ~RestartAllowed
  /\ restartWork' = "idle"
  /\ UNCHANGED <<flagVars, selfStopWork, pingWork, pc, stackVars, countVars,
                 histVars>>

\* wt_ble_status_ping_work_handler: its first test, then the notification,
\* which blocks, then the test that re-arms it.
Ping ==
  /\ pc[WorkQueue] = "idle"
  /\ pingWork = "queued"
  /\ pingWork' = "idle"
  /\ IF connected /\ statusOn THEN Goto(WorkQueue, "ping") ELSE pc' = pc
  /\ UNCHANGED <<flagVars, restartWork, selfStopWork, stackVars, countVars,
                 histVars>>

RearmOnSuccess ==                  \* faulty: a failed notification is the last
  \/ pingWork' = pingWork
  \/ connected /\ statusOn /\ pingWork' = Scheduled(pingWork, "delayed")

Rearm ==
  pingWork' = IF connected /\ statusOn THEN Scheduled(pingWork, "delayed")
                                       ELSE pingWork
RearmPing ==
  /\ pc[WorkQueue] = "ping"
  /\ Rearm
  /\ Goto(WorkQueue, "idle")
  /\ UNCHANGED <<flagVars, restartWork, selfStopWork, stackVars, countVars,
                 histVars>>

-----------------------------------------------------------------------------
(* The Bluetooth receive thread.                                           *)

NoteCrossing ==
  crossed' = (crossed \/ \E t \in Threads : pc[t] = "store")

\* ble_connected: a central answered the advertising.
Connect ==
  /\ radioAdv /\ link = "none"
  /\ links < MaxLinks
  /\ links' = links + 1
  /\ radioAdv' = FALSE /\ link' = "up"
  /\ conn' = TRUE /\ connected' = TRUE /\ advertising' = FALSE
  /\ RescheduleStatus(TRUE, statusOn)
  /\ UNCHANGED <<requested, ready, statusOn, restartWork, selfStopWork, pc,
                 stackOn, calls, histVars>>

\* ble_connected with an error.
ConnectFails ==
  /\ radioAdv /\ link = "none"
  /\ links < MaxLinks
  /\ links' = links + 1
  /\ NoteCrossing
  /\ radioAdv' = FALSE
  /\ connected' = FALSE /\ advertising' = FALSE
  /\ ScheduleRestart
  /\ UNCHANGED <<requested, ready, conn, statusOn, selfStopWork, pingWork, pc,
                 stackOn, link, calls, wanted, overlapped, refused,
                 stopFailed>>

\* wt_ble_status_ccc_changed
StatusSubscription(on) ==
  /\ link \in {"up", "closing"}
  /\ statusOn # on
  /\ statusOn' = on
  /\ RescheduleStatus(connected, on)
  /\ UNCHANGED <<requested, ready, advertising, connected, conn, restartWork,
                 selfStopWork, pc, stackVars, countVars, histVars>>

\* ble_disconnected up to the outbound queues' clears, which take locks.
Disconnected ==
  /\ link \in {"up", "closing"}
  /\ NoteCrossing
  /\ link' = "ended"
  /\ connected' = FALSE /\ statusOn' = FALSE
  /\ RescheduleStatus(FALSE, FALSE)
  /\ UNCHANGED <<requested, ready, advertising, conn, restartWork,
                 selfStopWork, pc, stackOn, radioAdv, countVars, wanted,
                 overlapped, refused, stopFailed>>

\* The rest of ble_disconnected.  The stack then frees its object.
DropConn ==
  /\ link = "ended"
  /\ link' = "none"
  /\ conn' = FALSE /\ advertising' = FALSE
  /\ ScheduleRestart
  /\ UNCHANGED <<requested, ready, connected, statusOn, selfStopWork, pingWork,
                 pc, stackOn, radioAdv, countVars, histVars>>

-----------------------------------------------------------------------------
CallStep(t) ==
  \/ EnableBegins(t) \/ EnableReturns(t) \/ EnableFails(t)
  \/ CheckAdvertising(t) \/ AdvStarts(t) \/ AdvHeld(t) \/ AdvRefused(t)
  \/ StoreAdvertising(t)
  \/ AdvStops(t) \/ AdvStopFails(t)
  \/ Unlink(t) \/ DisconnectFails(t) \/ ClearFlags(t) \/ Disarm(t)
  \/ RenameStops(t)

WorkStep ==
  \/ AskSelfStop
  \/ RestartDue \/ SelfStopDue \/ PingDue
  \/ SelfStop \/ Restart \/ SkipRestart \/ Ping \/ RearmPing

StackStep ==
  \/ Connect \/ ConnectFails
  \/ \E on \in BOOLEAN : StatusSubscription(on)
  \/ Disconnected \/ DropConn

Next ==
  \/ \E t \in Threads : Start(t) \/ Stop(t) \/ Rename(t) \/ CallStep(t)
  \/ WorkStep
  \/ StackStep

Spec == Init /\ [][Next]_vars

\* Threads run, timers run out, the workqueue serves every queued item, and a
\* disconnection that has begun is reported.
Fairness ==
  /\ \A t \in Threads : WF_vars(CallStep(t))
  /\ WF_vars(RestartDue) /\ WF_vars(SelfStopDue) /\ WF_vars(PingDue)
  /\ SF_vars(Restart) /\ SF_vars(SkipRestart)
  /\ SF_vars(SelfStop) /\ SF_vars(Ping) /\ WF_vars(RearmPing)
  /\ WF_vars(link = "closing" /\ Disconnected) /\ WF_vars(DropConn)

FairSpec == Spec /\ Fairness
-----------------------------------------------------------------------------
(* Properties.                                                             *)

Works == {"idle", "delayed", "queued"}
CallSteps == {"enable", "enabling", "check", "advstart", "store", "advstop",
              "unlink", "flags", "disarm", "readv"}

\* Every variable keeps its type.
TypeOK ==
  /\ requested \in BOOLEAN /\ ready \in BOOLEAN /\ advertising \in BOOLEAN
  /\ connected \in BOOLEAN /\ conn \in BOOLEAN /\ statusOn \in BOOLEAN
  /\ restartWork \in Works /\ selfStopWork \in Works /\ pingWork \in Works
  /\ pc \in [Threads -> {"idle", "ping"} \cup CallSteps]
  /\ stackOn \in BOOLEAN /\ radioAdv \in BOOLEAN
  /\ link \in {"none", "up", "closing", "ended"}
  /\ calls \in 0 .. MaxCalls /\ links \in 0 .. MaxLinks
  /\ wanted \in BOOLEAN /\ overlapped \in BOOLEAN /\ refused \in BOOLEAN
  /\ stopFailed \in BOOLEAN /\ crossed \in BOOLEAN

\* "Off" is off: once wt_ble_service_stop has returned and no two service
\* calls ever ran at the same time, the stack neither advertises nor keeps a
\* link open, whatever callbacks came in between and however earlier calls
\* ended - unless the stack refused that very stop: its refusals to stop
\* advertising and to disconnect are only logged, and the flags are cleared.
OffMeansOff ==
  Quiet /\ ~requested /\ ~overlapped /\ ~stopFailed =>
    ~radioAdv /\ link # "up"

\* The last command wins: a "ble on" is not undone by the self-stop of an
\* earlier "ble off" (wt_ble_service_start cancels it), and no restart or
\* callback changes what was asked for.
LastCommandWins ==
  Quiet /\ selfStopWork = "idle" /\ ~overlapped => requested = wanted

\* The flags agree with the stack whenever no service call is under way: the
\* connection the code would use is the stack's, and advertising that is on
\* is known to the code, so that a stop would end it.
FlagsMirrorStack ==
  /\ conn <=> link # "none"
  /\ Quiet /\ connected => link = "up"
  /\ Quiet /\ radioAdv => advertising

\* No lost wake-up of the periodic status: while a subscribed client is
\* connected its work item is scheduled, or its handler is about to test the
\* flags again (wt_ble_status_reschedule races wt_ble_status_ping_work_handler).
StatusArmed ==
  connected /\ statusOn => pingWork # "idle" \/ pc[WorkQueue] = "ping"

\* Advertising comes back: while the service stays requested and the stack
\* refuses nothing, the device is again and again reachable or connected -
\* after a disconnection, a failed connection, a stop and start in quick
\* succession or a rename.
Reachable ==
  <>[](requested /\ ~overlapped /\ ~refused /\ ~crossed) =>
    []<>(radioAdv \/ link = "up")
=============================================================================
