------------------------------ MODULE WifiLink ------------------------------
(***************************************************************************)
(* The Wi-Fi side of the firmware (wt_wifi.c): wifi on, off and reconnect  *)
(* as any command thread calls them, the worker thread that prepares the   *)
(* interface and keeps the association, and the network events that set    *)
(* the flags both read.                                                    *)
(*                                                                         *)
(* A step ends where a thread can block: a semaphore, a sleep, or a call   *)
(* into the network stack.  Scans are only known as running or not.        *)
(***************************************************************************)
EXTENDS Integers, Sequences

CONSTANTS
  Callers,      \* threads that carry out wifi commands
  MaxCalls,     \* bound: wifi commands and scans
  MaxFaults,    \* bound: associations lost, requests the stack refuses and
                \* waits that time out
  MaxEvents     \* CONFIG_NET_MGMT_EVENT_QUEUE_SIZE; bound: the stack waits
                \* while the queue is full, and drops no event

ASSUME CallersAssumption == Callers # {}
ASSUME BoundAssumption ==
  MaxCalls \in Nat /\ MaxFaults \in Nat /\ MaxEvents \in Nat \ {0}

VARIABLES
  requested,    \* wifi_requested
  associate,    \* wifi_connect_requested
  prepared,     \* wifi_prepared
  ready,        \* wifi_ready_status
  readySem,     \* wifi_ready_state_changed_sem
  connected, result, leaving, bound,   \* wifi_context
  scanning,     \* wifi_scan_requested or wifi_scan_running
  pc,           \* per caller, the step its command is at
  worker,       \* where the worker is in wifi_worker_loop
  macSet,       \* external: the interface has a valid MAC address
  ifUp,         \* external: the interface is administratively up
  usable,       \* external: the supplicant has the interface
  link,         \* external: idle, connecting or up
  leased,       \* external: this association has got an address
  events,       \* external: network events not yet handled
  calls, faults, \* bounded counters
  wanted,       \* history: what the last command asked for
  failed,       \* history: preparation has failed since
  overlapped,   \* history: two commands have run at the same time
  crossed,      \* history: an off came in the middle of a preparation, or one
                \* began while news of an earlier change was on its way
  downFailed,   \* history: the last off could not lower the interface
  resultLost    \* history: reconnect cleared a result nobody had seen

flags == <<requested, associate>>
radio == <<prepared, ready, readySem>>
context == <<connected, result, leaving, bound>>
stack == <<macSet, ifUp, usable, link, leased, events>>
history == <<wanted, failed, overlapped, crossed, downFailed, resultLost>>
vars == <<flags, radio, context, scanning, pc, worker, stack, calls, faults,
          history>>

CallSteps == {"none", "off disconnect", "off down", "off done",
              "reconnect disconnect", "reconnect clear"}
PrepareSteps == {"lower", "await down", "address", "raise", "await"}
WorkerSteps == PrepareSteps \cup {"top", "serve", "unready", "asked", "wait", "hold"}
EventKinds == {"connected", "failed", "left", "bound", "ready", "not ready"}

\* The driver may have raised the interface at boot.
Init ==
  /\ requested = FALSE /\ associate = FALSE
  /\ macSet \in BOOLEAN /\ ifUp \in BOOLEAN /\ usable = ifUp
  /\ prepared = FALSE /\ ready = ifUp /\ readySem = 0
  /\ connected = FALSE /\ result = FALSE /\ leaving = FALSE /\ bound = FALSE
  /\ scanning = FALSE
  /\ pc = [c \in Callers |-> "none"] /\ worker = "top"
  /\ link = "idle" /\ leased = FALSE
  /\ events = <<>>
  /\ calls = 0 /\ faults = 0
  /\ wanted = "none" /\ failed = FALSE
  /\ overlapped = FALSE /\ crossed = FALSE /\ downFailed = FALSE
  /\ resultLost = FALSE

Quiet == \A c \in Callers : pc[c] = "none"
Preparing == worker \in PrepareSteps

\* No news of an earlier interface change is still on its way.
ReadinessSettled ==
  usable = ifUp /\ \A i \in DOMAIN events : events[i] \notin {"ready", "not ready"}

Post(e) == Len(events) < MaxEvents /\ events' = Append(events, e)

\* The stack ends what is there: it reports an association as left and an
\* attempt as failed.
CloseLink ==
  /\ link' = "idle" /\ leased' = FALSE
  /\ \/ link = "up" /\ Post("left")
     \/ link = "connecting" /\ Post("failed")
     \/ link = "idle" /\ UNCHANGED events

-----------------------------------------------------------------------------
(* Commands.                                                               *)

BeginCall(c) ==
  /\ pc[c] = "none" /\ calls < MaxCalls
  /\ calls' = calls + 1
  /\ overlapped' = (overlapped \/ ~Quiet)

GoTo(c, step) == pc' = [pc EXCEPT ![c] = step]

\* wt_wifi_service_set(true)
On(c) ==
  /\ BeginCall(c)
  /\ requested' = TRUE
  /\ wanted' = "on" /\ failed' = FALSE
  /\ UNCHANGED <<associate, radio, context, scanning, pc, worker, stack,
                 faults, crossed, downFailed, resultLost>>

\* wt_wifi_service_set(false), up to wifi_disconnect or net_if_down.
Off(c) ==
  /\ BeginCall(c)
  /\ requested' = FALSE /\ associate' = FALSE
  /\ result' = TRUE /\ bound' = FALSE
  /\ leaving' = (leaving \/ connected)
  /\ GoTo(c, IF connected THEN "off disconnect" ELSE "off down")
  /\ wanted' = "off"
  /\ crossed' = (crossed \/ Preparing)
  /\ downFailed' = FALSE
  /\ UNCHANGED <<radio, connected, scanning, worker, stack, faults, failed,
                 resultLost>>

\* Whether off takes the interface down.
LowersPrepared == prepared                      \* faulty: asks its own flag
Lowers == ifUp

OffDown(c) ==
  /\ pc[c] = "off down"
  /\ IF Lowers THEN ifUp' = FALSE /\ CloseLink
               ELSE UNCHANGED <<ifUp, link, leased, events>>
  /\ GoTo(c, "off done")
  /\ UNCHANGED <<flags, radio, context, scanning, worker, macSet, usable,
                 calls, faults, history>>

\* net_if_down fails: off logs it and goes on.
OffDownFails(c) ==
  /\ pc[c] = "off down" /\ ifUp
  /\ faults < MaxFaults /\ faults' = faults + 1
  /\ downFailed' = TRUE
  /\ GoTo(c, "off done")
  /\ UNCHANGED <<flags, radio, context, scanning, worker, stack, calls, wanted,
                 failed, overlapped, crossed, resultLost>>

OffDone(c) ==
  /\ pc[c] = "off done"
  /\ ready' = FALSE /\ prepared' = FALSE
  /\ GoTo(c, "none")
  /\ UNCHANGED <<flags, readySem, context, scanning, worker, stack, calls,
                 faults, history>>

\* wt_wifi_reconnect_if_requested
Reconnect(c) ==
  /\ BeginCall(c)
  /\ requested' = TRUE /\ associate' = TRUE
  /\ leaving' = (leaving \/ (requested /\ connected))
  /\ GoTo(c, IF ~requested THEN "none"
             ELSE IF connected THEN "reconnect disconnect"
             ELSE "reconnect clear")
  /\ wanted' = "on" /\ failed' = FALSE
  /\ UNCHANGED <<radio, connected, result, bound, scanning, worker, stack,
                 faults, crossed, downFailed, resultLost>>

ReconnectClear(c) ==
  /\ pc[c] = "reconnect clear"
  /\ result' = FALSE
  /\ resultLost' = (resultLost \/ (worker = "wait" /\ result))
  /\ GoTo(c, "none")
  /\ UNCHANGED <<flags, radio, connected, leaving, bound, scanning, worker,
                 stack, calls, faults, wanted, failed, overlapped, crossed,
                 downFailed>>

\* wifi_disconnect: the request returns.
AfterDisconnect(c) ==
  \/ pc[c] = "off disconnect" /\ GoTo(c, "off down")
  \/ pc[c] = "reconnect disconnect" /\ GoTo(c, "reconnect clear")

Disconnects(c) ==
  /\ AfterDisconnect(c)
  /\ CloseLink
  /\ UNCHANGED <<flags, radio, context, scanning, worker, macSet, ifUp, usable,
                 calls, faults, history>>

DisconnectFails(c) ==
  /\ AfterDisconnect(c)
  /\ faults < MaxFaults /\ faults' = faults + 1
  /\ leaving' = FALSE
  /\ UNCHANGED <<flags, radio, connected, result, bound, scanning, worker,
                 stack, calls, history>>

-----------------------------------------------------------------------------
(* The worker: wifi_worker_loop with wifi_prepare_once.                    *)

\* k_sem_reset before the interface is raised.
KeepSem == readySem                             \* faulty: no reset
FreshSem == 0

\* The top of the loop with a request: the interface is prepared already, or
\* is first taken down to set its address, or is raised at once.
AlreadyPrepared ==
  /\ worker = "top" /\ requested /\ prepared
  /\ worker' = "serve"
  /\ UNCHANGED <<flags, radio, context, scanning, pc, stack, calls, faults,
                 history>>

BeginPrepare ==
  /\ worker = "top" /\ requested /\ ~prepared
  /\ \/ macSet /\ worker' = "raise" /\ readySem' = FreshSem
     \/ ~macSet /\ ifUp /\ worker' = "lower" /\ readySem' = 0
     \/ ~macSet /\ ~ifUp /\ worker' = "address" /\ UNCHANGED readySem
  /\ crossed' = (crossed \/ ~ReadinessSettled)
  /\ UNCHANGED <<flags, prepared, ready, context, scanning, pc, stack, calls,
                 faults, wanted, failed, overlapped, downFailed, resultLost>>

LowerForAddress ==
  /\ worker = "lower"
  /\ ifUp' = FALSE /\ CloseLink
  /\ worker' = "await down"
  /\ UNCHANGED <<flags, radio, context, scanning, pc, macSet, usable, calls,
                 faults, history>>

DownReported ==
  /\ worker = "await down" /\ readySem = 1
  /\ readySem' = 0
  /\ worker' = "address"
  /\ UNCHANGED <<flags, prepared, ready, context, scanning, pc, stack, calls,
                 faults, history>>

SetAddress ==
  /\ worker = "address"
  /\ macSet' = TRUE
  /\ worker' = "raise" /\ readySem' = FreshSem
  /\ UNCHANGED <<flags, prepared, ready, context, scanning, pc, ifUp, usable,
                 link, leased, events, calls, faults, history>>

\* After net_if_up, and again after the wait for readiness.
Prepared == prepared' = TRUE /\ worker' = "serve" /\ UNCHANGED flags
Withdraw ==
  /\ requested' = FALSE /\ associate' = FALSE
  /\ worker' = "top" /\ prepared' = prepared

InterfaceUp ==
  /\ worker = "raise"
  /\ ifUp' = TRUE
  /\ IF ready THEN Prepared ELSE worker' = "await" /\ UNCHANGED <<flags,
                                                                  prepared>>
  /\ UNCHANGED <<ready, readySem, context, scanning, pc, macSet, usable, link,
                 leased, events, calls, faults, history>>

ReadinessReported ==
  /\ worker = "await" /\ readySem = 1
  /\ readySem' = 0
  /\ IF ready THEN Prepared ELSE Withdraw
  /\ UNCHANGED <<ready, context, scanning, pc, stack, calls, faults, history>>

\* The stack refuses a step, or a wait of ten seconds ends - as it does when
\* the interface is already where the worker wants it and no news will come.
WaitsInVain ==
  worker \in {"await down", "await"} /\ readySem = 0 /\ ReadinessSettled

PrepareFails ==
  /\ Preparing
  /\ WaitsInVain \/ faults < MaxFaults
  /\ faults' = IF WaitsInVain THEN faults ELSE faults + 1
  /\ Withdraw
  /\ failed' = TRUE
  /\ UNCHANGED <<radio, context, scanning, pc, stack, calls, wanted,
                 overlapped, crossed, downFailed, resultLost>>

\* One turn of the loop with the interface prepared.  From here the loop may
\* have waited for readiness, up to a second.
Idles == ~requested \/ connected \/ ~associate \/ scanning

AskOrIdle ==
  IF Idles
    THEN worker' = "top" /\ UNCHANGED context
    ELSE /\ worker' = "asked"
         /\ connected' = FALSE /\ result' = FALSE /\ bound' = FALSE
         /\ UNCHANGED leaving

Serve ==
  /\ worker = "serve"
  /\ IF ready THEN AskOrIdle ELSE worker' = "unready" /\ UNCHANGED context
  /\ UNCHANGED <<flags, radio, scanning, pc, stack, calls, faults, history>>

ReadyAfterAll ==
  /\ worker = "unready" /\ readySem = 1
  /\ readySem' = 0
  /\ IF ready THEN AskOrIdle ELSE worker' = "top" /\ UNCHANGED context
  /\ UNCHANGED <<flags, prepared, ready, scanning, pc, stack, calls, faults,
                 history>>

StillUnready ==
  /\ worker = "unready"
  /\ worker' = "top"
  /\ UNCHANGED <<flags, radio, context, scanning, pc, stack, calls, faults,
                 history>>

\* The connection request with stored credentials returns.
ConnectBegins ==
  /\ worker = "asked"
  /\ ifUp /\ usable /\ link = "idle"
  /\ link' = "connecting"
  /\ worker' = "wait"
  /\ UNCHANGED <<flags, radio, context, scanning, pc, macSet, ifUp, usable,
                 leased, events, calls, faults, history>>

ConnectRefused ==
  /\ worker = "asked"
  /\ \/ ~ifUp \/ ~usable \/ link # "idle"
     \/ faults < MaxFaults
  /\ faults' = IF ifUp /\ usable /\ link = "idle" THEN faults + 1 ELSE faults
  /\ worker' = "top"
  /\ UNCHANGED <<flags, radio, context, scanning, pc, stack, calls, history>>

\* The poll of connect_result.
StopWaiting ==
  /\ worker = "wait" /\ (result \/ ~requested)
  /\ worker' = IF requested /\ connected THEN "hold" ELSE "top"
  /\ UNCHANGED <<flags, radio, context, scanning, pc, stack, calls, faults,
                 history>>

Release ==
  /\ worker = "hold" /\ ~(requested /\ connected)
  /\ worker' = "top"
  /\ UNCHANGED <<flags, radio, context, scanning, pc, stack, calls, faults,
                 history>>

-----------------------------------------------------------------------------
(* Network events.                                                         *)

\* handle_wifi_connect_result
ConnectSucceeds ==
  connected' = TRUE /\ bound' = FALSE /\ result' = TRUE
ConnectFailsUnseen ==                           \* faulty: no result
  connected' = FALSE /\ bound' = FALSE /\ UNCHANGED result
ConnectFails ==
  connected' = FALSE /\ bound' = FALSE /\ result' = TRUE

\* handle_wifi_disconnect_result
IgnoresUnasked == ~leaving                      \* faulty: only its own request
IgnoresLeft == ~connected /\ ~leaving
AssociationEnds ==
  connected' = FALSE /\ bound' = FALSE /\ result' = TRUE /\ leaving' = FALSE

\* wifi_ready_cb
CountReady(up) ==                               \* faulty: a semaphore that counts
  ready' = up /\ readySem' = readySem + 1
StoreReady(up) == ready' = up /\ readySem' = 1

HandleEvent ==
  /\ events # <<>>
  /\ events' = Tail(events)
  /\ LET e == Head(events) IN
     \/ /\ e \in {"connected", "failed"} /\ connected
        /\ UNCHANGED <<context, ready, readySem>>
     \/ /\ e = "connected" /\ ~connected
        /\ ConnectSucceeds /\ UNCHANGED <<leaving, ready, readySem>>
     \/ /\ e = "failed" /\ ~connected
        /\ ConnectFails /\ UNCHANGED <<leaving, ready, readySem>>
     \/ /\ e = "left" /\ IgnoresLeft
        /\ UNCHANGED <<context, ready, readySem>>
     \/ /\ e = "left" /\ ~IgnoresLeft
        /\ AssociationEnds /\ UNCHANGED <<ready, readySem>>
     \/ /\ e = "bound" /\ bound' = TRUE
        /\ UNCHANGED <<connected, result, leaving, ready, readySem>>
     \/ /\ e \in {"ready", "not ready"} /\ StoreReady(e = "ready")
        /\ UNCHANGED context
  /\ UNCHANGED <<flags, prepared, scanning, pc, worker, macSet, ifUp, usable,
                 link, leased, calls, faults, history>>

-----------------------------------------------------------------------------
(* External: the network stack, the access point and scans.                *)

Environment == UNCHANGED <<flags, radio, context, pc, worker, macSet, ifUp,
                           history>>

SupplicantFollows ==
  /\ usable # ifUp
  /\ usable' = ifUp
  /\ Post(IF ifUp THEN "ready" ELSE "not ready")
  /\ Environment /\ UNCHANGED <<scanning, link, leased, calls, faults>>

Associates ==
  /\ link = "connecting" /\ link' = "up" /\ Post("connected")
  /\ Environment /\ UNCHANGED <<scanning, usable, leased, calls, faults>>

AssociationFails ==
  /\ link = "connecting" /\ link' = "idle" /\ Post("failed")
  /\ faults < MaxFaults /\ faults' = faults + 1
  /\ Environment /\ UNCHANGED <<scanning, usable, leased, calls>>

Lease ==
  /\ link = "up" /\ ~leased /\ leased' = TRUE /\ Post("bound")
  /\ Environment /\ UNCHANGED <<scanning, usable, link, calls, faults>>

AccessPointLeaves ==
  /\ link = "up" /\ CloseLink
  /\ faults < MaxFaults /\ faults' = faults + 1
  /\ Environment /\ UNCHANGED <<scanning, usable, calls>>

ScanBegins ==
  /\ ~scanning /\ prepared /\ calls < MaxCalls
  /\ scanning' = TRUE /\ calls' = calls + 1
  /\ Environment /\ UNCHANGED <<usable, link, leased, events, faults>>

ScanEnds ==
  /\ scanning /\ scanning' = FALSE
  /\ Environment /\ UNCHANGED <<usable, link, leased, events, calls, faults>>

-----------------------------------------------------------------------------
CallStep(c) ==
  \/ OffDown(c) \/ OffDownFails(c) \/ OffDone(c)
  \/ ReconnectClear(c) \/ Disconnects(c) \/ DisconnectFails(c)

WorkerStep ==
  \/ AlreadyPrepared \/ BeginPrepare \/ LowerForAddress
  \/ DownReported \/ SetAddress \/ InterfaceUp
  \/ ReadinessReported \/ PrepareFails
  \/ Serve \/ ReadyAfterAll \/ StillUnready
  \/ ConnectBegins \/ ConnectRefused \/ StopWaiting \/ Release

Next ==
  \/ \E c \in Callers : On(c) \/ Off(c) \/ Reconnect(c) \/ CallStep(c)
  \/ WorkerStep \/ HandleEvent
  \/ SupplicantFollows \/ Associates \/ AssociationFails \/ Lease
  \/ AccessPointLeaves \/ ScanBegins \/ ScanEnds

Fairness ==
  /\ \A c \in Callers : WF_vars(CallStep(c))
  /\ WF_vars(WorkerStep) /\ WF_vars(HandleEvent)
  /\ WF_vars(SupplicantFollows) /\ WF_vars(Associates \/ AssociationFails)
  /\ WF_vars(ScanEnds)

Spec == Init /\ [][Next]_vars
FairSpec == Spec /\ Fairness
-----------------------------------------------------------------------------
(* Properties.                                                             *)

TypeOK ==
  /\ requested \in BOOLEAN /\ associate \in BOOLEAN
  /\ prepared \in BOOLEAN /\ ready \in BOOLEAN /\ readySem \in {0, 1}
  /\ connected \in BOOLEAN /\ result \in BOOLEAN
  /\ leaving \in BOOLEAN /\ bound \in BOOLEAN /\ scanning \in BOOLEAN
  /\ pc \in [Callers -> CallSteps] /\ worker \in WorkerSteps
  /\ macSet \in BOOLEAN /\ ifUp \in BOOLEAN /\ usable \in BOOLEAN
  /\ link \in {"idle", "connecting", "up"} /\ leased \in BOOLEAN
  /\ events \in Seq(EventKinds) /\ Len(events) <= MaxEvents
  /\ calls \in 0 .. MaxCalls /\ faults \in 0 .. MaxFaults
  /\ wanted \in {"none", "on", "off"} /\ failed \in BOOLEAN
  /\ overlapped \in BOOLEAN /\ crossed \in BOOLEAN
  /\ downFailed \in BOOLEAN /\ resultLost \in BOOLEAN

\* wifi_context agrees with the stack whenever no news is on its way - no
\* handler's early return and no command's own assignment loses or revives an
\* association - and no address outlives its association.
ContextMirrorsLink ==
  /\ events = <<>> => connected = (link = "up")
  /\ bound => connected

\* What makes it so: the association as the context knows it, brought forward
\* over the first i events still to be handled.
LinkNews == {"connected", "failed", "left"}
UpAfter(i) ==
  \/ connected /\ \A j \in 1 .. i : events[j] \notin LinkNews
  \/ \E j \in 1 .. i :
       events[j] = "connected" /\ \A k \in j + 1 .. i : events[k] \notin LinkNews

NewsInOrder ==
  /\ \A i \in 1 .. Len(events) :
       /\ events[i] \in {"connected", "failed"} => ~UpAfter(i - 1)
       /\ events[i] \in {"left", "bound"} => UpAfter(i - 1)
  /\ (link = "up") = UpAfter(Len(events))
  /\ bound => connected

\* README.md:582, "wifi off: release Wi-Fi request and bring the Wi-Fi side
\* down": once the command is over the interface is down and stays down.
OffMeansDown == wanted = "off" /\ Quiet /\ ~overlapped => ~ifUp

\* The same for an off whose own net_if_down succeeds, as long as no off came
\* in the middle of a preparation and none began while news was on its way.
UncrossedOffMeansDown == OffMeansDown \/ crossed \/ downFailed

\* The worker withdraws a request (wt_wifi.c:1610) only when a preparation
\* failed: when every preparation began with no news of an earlier change on
\* its way and no off came in the middle of one, what a preparation waits for
\* is its own report, whatever scans, events and later commands come between.
\* A preparation that begins too early does take old news for its answer and
\* withdraw the request (wifi_ready_cb only gives a semaphore): it is excused
\* as crossed.
RequestKept ==
  wanted = "on" /\ Quiet /\ ~requested => failed \/ overlapped \/ crossed

\* README.md:581, "wifi reconnect: associate using stored credentials": as
\* long as it is asked for, the association comes.
Wanted == requested /\ associate
Reconnects == Wanted ~> (connected \/ ~Wanted)

\* The same when no result was cleared unseen and no off met a preparation.
ReconnectsUnspoiled ==
  Wanted ~> (connected \/ ~Wanted \/ overlapped \/ crossed \/ resultLost)
=============================================================================
