------------------------------ MODULE WifiScan ------------------------------
(***************************************************************************)
(* A Wi-Fi scan and the temporary power it takes (wt_wifi.c:218-487,       *)
(* 687-839, 1343-1387): scan commands on several threads, the driver's     *)
(* results, the auto-off work item, and wifi on, off and reconnect beside  *)
(* them.  BLE commands run on the system workqueue, as the auto-off does.  *)
(*                                                                         *)
(* A step ends where a thread sleeps, waits or calls into the stack, and   *)
(* at a test without the lock whose outcome it acts on afterwards: there   *)
(* the workqueue, which is cooperative, can preempt the other threads.     *)
(* What wifi on, off and reconnect do apart from scans is WifiLink's       *)
(* subject.                                                                *)
(***************************************************************************)
EXTENDS ScanTable, FiniteSets

CONSTANTS
  Threads,      \* threads that carry out commands
  WorkQueue,    \* the one that is the system workqueue
  Idle, Due,    \* the auto-off item: not scheduled; its delay is over
  Results,      \* the results that can be heard: network and level
  Retries,      \* WT_WIFI_SCAN_BUSY_RETRY_COUNT
  Budgets       \* bounds: the commands and failures of the stack that a
                \* behaviour may have, and the results that a scan may hear

ASSUME ThreadsAssumption == WorkQueue \in Threads /\ {Idle, Due} \cap Threads = {}
ASSUME RetriesAssumption == Retries \in Nat
ASSUME BudgetsAssumption ==
  \A b \in Budgets : b \in [{"calls", "faults", "results"} -> Nat]
ASSUME ResultsAssumption == \A e \in Results : e.rssi \in Int

VARIABLES
  requested,     \* wifi_requested
  associate,     \* wifi_connect_requested
  autoPower,     \* wifi_scan_auto_power
  scanRequested, running, table,   \* wifi_scan_requested, _running, _results
  sem,           \* wifi_scan_done_sem
  autoOff,       \* wifi_scan_auto_off_work: Idle, Due, or the thread whose
                 \* refused attempt scheduled it and which still sleeps
  at,            \* per thread: where it is in its command, see Job
  connected,     \* wifi_context.connected
  ifUp, driver,  \* external: interface up; driver idle, scanning or aborted
  left,          \* bound: what is left of the budget
  heard,         \* history: results since the table was last cleared
  past           \* history, see NothingYet

\* wait: whether the command waits for results; tries: busy attempts so far;
\* history: served: a scan has ended since the wait began; cut: an off, or a
\* failed preparation, has met it.
Job(step, wait) == [step |-> step, wait |-> wait, tries |-> 0, served |-> FALSE,
                    cut |-> FALSE]
Resting == Job("idle", FALSE)

\* stale: a waiting command was answered by an older scan; joined: a command
\* joined a scan of another; explicit: the last explicit command asked for
\* Wi-Fi, mixed: while a scan held temporary power or was about to take it,
\* already: and a scan alone has begun since; refused: an attempt was refused;
\* crossed: two scans were being started at once; marked: a scan was marked as
\* started that was marked already; aborted: a scan has met an off; lost: the
\* end of a scan was lost; kept: a failed preparation or an association keeps
\* temporary power.
NothingYet ==
  [stale |-> FALSE, joined |-> FALSE, explicit |-> FALSE, mixed |-> FALSE,
   already |-> FALSE, refused |-> FALSE, crossed |-> FALSE, marked |-> FALSE,
   aborted |-> FALSE, lost |-> FALSE, kept |-> FALSE]

flags == <<requested, associate, autoPower>>
scan == <<scanRequested, running, table, sem, heard>>
stack == <<connected, ifUp, driver>>
vars == <<flags, scan, autoOff, at, stack, left, past>>

Init ==
  /\ requested = FALSE /\ associate = FALSE /\ autoPower = FALSE
  /\ scanRequested = FALSE /\ running = FALSE /\ table = <<>> /\ sem = FALSE
  /\ autoOff = Idle
  /\ at = [t \in Threads |-> Resting]
  /\ connected = FALSE /\ ifUp = FALSE /\ driver = "idle"
  /\ left \in Budgets
  /\ heard = {} /\ past = NothingYet

Steps == {"idle", "power", "take", "ask", "enable", "prepare", "request",
          "already", "mark", "submit", "retry", "wait", "lower"}

At(t, step) == at[t].step = step
GoTo(t, step) == at' = [at EXCEPT ![t].step = step]
Return(t) == at' = [at EXCEPT ![t] = Resting]
Spend(what) == left[what] > 0 /\ left' = [left EXCEPT ![what] = @ - 1]
BeginCall(t) == At(t, "idle") /\ Spend("calls")
Fault == Spend("faults")

\* A command that waits does so once its scan is under way.
Underway(t, wait) ==
  at' = [at EXCEPT ![t] = IF wait THEN Job("wait", FALSE) ELSE Resting]

\* k_work_schedule on the auto-off item.
ScheduleAutoOff(when) ==
  autoOff' = IF autoPower /\ autoOff = Idle THEN when ELSE autoOff

-----------------------------------------------------------------------------
(* wt_wifi_scan_start                                                      *)

\* Between its first test and the driver's answer a thread starts a scan.
Starting(t) ==
  at[t].step \in {"power", "take", "ask", "enable", "prepare", "request",
                 "already", "mark", "submit", "retry"}

StartUnderway == \E u \in Threads : Starting(u)

ScanBegin(t, wait) ==
  /\ BeginCall(t) /\ ~scanRequested /\ ~running
  /\ at' = [at EXCEPT ![t] = Job("power", wait)]
  /\ past' = [past EXCEPT !.already = @ \/ (past.explicit /\ ~StartUnderway),
                          !.crossed = @ \/ StartUnderway]
  /\ UNCHANGED <<flags, scan, autoOff, stack>>

TakesPowerAlways == TRUE                 \* faulty: explicit power is not seen
TakesPower == ~requested

ReadPower(t) ==
  /\ At(t, "power")
  /\ GoTo(t, IF TakesPower THEN "take" ELSE "ask")
  /\ UNCHANGED <<flags, scan, autoOff, stack, left, past>>

TakePower(t) ==
  /\ At(t, "take")
  /\ autoPower' = TRUE
  /\ GoTo(t, "ask")
  /\ UNCHANGED <<requested, associate, scan, autoOff, stack, left, past>>

AskScan(t) ==
  /\ At(t, "ask")
  /\ scanRequested' = TRUE
  /\ GoTo(t, "enable")
  /\ UNCHANGED <<flags, running, table, sem, heard, autoOff, stack, left,
                 past>>

\* wt_wifi_scan_enable_support_services
EnableWifi(t) ==
  /\ At(t, "enable")
  /\ requested' = TRUE
  /\ GoTo(t, "prepare")
  /\ UNCHANGED <<associate, autoPower, scan, autoOff, stack, left, past>>

Joins(t, wait) ==
  Underway(t, wait) /\ past' = [past EXCEPT !.joined = @ \/ wait]

\* -EALREADY: the command waits for the scan of another.
ScanJoin(t, wait) ==
  /\ BeginCall(t) /\ (scanRequested \/ running)
  /\ Joins(t, wait)
  /\ UNCHANGED <<flags, scan, autoOff, stack>>

\* wifi_prepare_once and the time the radio gets to settle.
Prepared(t) ==
  /\ At(t, "prepare")
  /\ ifUp' = TRUE
  /\ GoTo(t, "request")
  /\ UNCHANGED <<flags, scan, autoOff, connected, driver, left,
                 past>>

StillRequested == TRUE                   \* faulty: the request is left standing
Withdrawn == FALSE

PrepareFails(t) ==
  /\ At(t, "prepare") /\ Fault
  /\ scanRequested' = Withdrawn
  /\ past' = [past EXCEPT !.kept = TRUE]
  /\ Return(t)
  /\ UNCHANGED <<flags, running, table, sem, heard, autoOff,
                 stack>>

\* wt_wifi_scan_request_once, up to the request.
OldResults == table                      \* faulty: the table is not cleared
NoResults == <<>>
OldSem == sem                            \* faulty: k_sem_reset is missing
NoSem == FALSE

\* Whether a scan runs is read without the lock ...
ReadRunning(t) ==
  /\ At(t, "request")
  /\ GoTo(t, IF running THEN "already" ELSE "mark")
  /\ UNCHANGED <<flags, scan, autoOff, stack, left, past>>

\* ... and the scan is marked as started under it.
MarkStarted(t) ==
  /\ At(t, "mark")
  /\ running' = TRUE /\ scanRequested' = FALSE
  /\ table' = NoResults /\ sem' = NoSem /\ heard' = {}
  /\ past' = [past EXCEPT !.marked = @ \/ running]
  /\ GoTo(t, "submit")
  /\ UNCHANGED <<flags, autoOff, stack, left>>

AlreadyRunning(t) ==
  /\ At(t, "already")
  /\ scanRequested' = FALSE
  /\ Joins(t, at[t].wait)
  /\ UNCHANGED <<flags, running, table, sem, heard, autoOff, stack, left>>

Accepted(t) ==
  /\ At(t, "submit") /\ ifUp /\ driver = "idle"
  /\ driver' = "scanning"
  /\ Underway(t, at[t].wait)
  /\ UNCHANGED <<flags, scan, autoOff, connected, ifUp, left,
                 past>>

\* wt_wifi_scan_mark_start_failed; the auto-off's delay is over at once unless
\* the thread's own sleep, which is shorter, comes first.
MarkStartFailed(offWhen) ==
  /\ scanRequested' = FALSE /\ running' = FALSE
  /\ ScheduleAutoOff(offWhen)
  /\ past' = [past EXCEPT !.refused = TRUE]
  /\ UNCHANGED <<flags, table, sem, heard, stack>>

Busy == driver # "idle" /\ UNCHANGED left

\* The driver is busy: the thread tries again later.
RefusedBusy(t) ==
  /\ At(t, "submit") /\ at[t].tries < Retries /\ (Busy \/ Fault)
  /\ at' = [at EXCEPT ![t].step = "retry", ![t].tries = @ + 1]
  /\ MarkStartFailed(t)

\* It refuses, is busy once too often, or its interface is down.
Refused(t) ==
  /\ At(t, "submit")
  /\ \/ ~ifUp /\ UNCHANGED left
     \/ Busy /\ at[t].tries = Retries
     \/ Fault
  /\ Return(t)
  /\ MarkStartFailed(Due)

\* 200 ms later; of the auto-off's 250 ms, 50 are left.
Retry(t) ==
  /\ At(t, "retry")
  /\ autoOff' = IF autoOff = t THEN Due ELSE autoOff
  /\ GoTo(t, "request")
  /\ UNCHANGED <<flags, scan, stack, left, past>>

\* wt_wifi_scan_command after its wait for wifi_scan_done_sem.
TakeSem(t) ==
  /\ At(t, "wait") /\ sem
  /\ sem' = FALSE
  /\ past' = [past EXCEPT !.stale = @ \/ ~at[t].served]
  /\ Return(t)
  /\ UNCHANGED <<flags, scanRequested, running, table, heard, autoOff,
                 stack, left>>

EndedByTimeout == FALSE                  \* faulty: the scan is taken as over
StillRunning == running

WaitTimesOut(t) ==
  /\ At(t, "wait") /\ ~sem
  /\ running' = StillRunning
  /\ Return(t)
  /\ UNCHANGED <<flags, scanRequested, table, sem, heard, autoOff,
                 stack, left, past>>

\* wifi scan clear
Clear(t) ==
  /\ BeginCall(t)
  /\ table' = <<>> /\ heard' = {}
  /\ UNCHANGED <<flags, scanRequested, running, sem, autoOff, at, stack, past>>

-----------------------------------------------------------------------------
(* The driver and its events.                                              *)

Hear(e) ==
  /\ driver = "scanning" /\ Cardinality(heard) < left.results
  /\ table' = Store(table, e)
  /\ heard' = heard \cup {e}
  /\ UNCHANGED <<flags, scanRequested, running, sem, autoOff, at, stack,
                 left, past>>

ForgetAutoOff == UNCHANGED autoOff       \* faulty: the power is kept
DoneAutoOff == ScheduleAutoOff(Due)

ScanDone ==
  /\ driver \in {"scanning", "aborted"}
  /\ driver' = "idle"
  /\ scanRequested' = FALSE /\ running' = FALSE
  /\ table' = Sorted(table)
  /\ sem' = TRUE
  /\ DoneAutoOff
  /\ at' = [t \in Threads |->
              IF driver = "scanning" /\ At(t, "wait")
                THEN [at[t] EXCEPT !.served = TRUE] ELSE at[t]]
  /\ UNCHANGED <<flags, heard, connected, ifUp, left, past>>

\* The interface went down under a scan and nothing reports its end.
DoneLost ==
  /\ driver = "aborted" /\ Fault
  /\ driver' = "idle"
  /\ past' = [past EXCEPT !.lost = TRUE]
  /\ UNCHANGED <<flags, scan, autoOff, at, connected, ifUp>>

-----------------------------------------------------------------------------
(* wifi on, off and reconnect, and the auto-off work item.                 *)

\* wt_wifi_service_set(true); reconnect, and connecting to a result, also ask
\* for an association.
TemporaryPower == autoPower \/ \E u \in Threads : At(u, "take")

On(t, reconnect) ==
  /\ BeginCall(t)
  /\ requested' = TRUE /\ associate' = (associate \/ reconnect)
  /\ past' = [past EXCEPT !.explicit = TRUE, !.mixed = @ \/ TemporaryPower]
  /\ UNCHANGED <<autoPower, scan, autoOff, at, stack>>

\* wt_wifi_service_set(false), up to the interface.
SwitchOff ==
  /\ requested' = FALSE /\ associate' = FALSE /\ autoPower' = FALSE
  /\ scanRequested' = FALSE
  /\ UNCHANGED <<running, table, sem, heard, stack>>

\* Nobody asks for Wi-Fi any more.
Unasked ==
  [past EXCEPT !.explicit = FALSE, !.mixed = FALSE, !.already = FALSE]
CutShort(t) == IF At(t, "idle") THEN at[t] ELSE [at[t] EXCEPT !.cut = TRUE]

Off(t) ==
  /\ BeginCall(t)
  /\ SwitchOff
  /\ at' = [u \in Threads |-> IF u = t THEN Job("lower", FALSE)
                                       ELSE CutShort(u)]
  /\ past' = [Unasked EXCEPT !.aborted = @ \/ scanRequested \/ running]
  /\ UNCHANGED autoOff

\* net_if_down; a scan under way is aborted, an association ends.
Lower(t) ==
  /\ At(t, "lower")
  /\ ifUp' = FALSE /\ connected' = FALSE
  /\ driver' = IF driver = "scanning" THEN "aborted" ELSE driver
  /\ past' = [past EXCEPT !.aborted = @ \/ driver = "scanning"]
  /\ Return(t)
  /\ UNCHANGED <<flags, scan, autoOff, left>>

\* net_if_down fails: it is logged, and a scan goes on.
LowerFails(t) ==
  /\ At(t, "lower") /\ Fault
  /\ Return(t)
  /\ UNCHANGED <<flags, scan, autoOff, stack, past>>

\* wt_wifi_scan_auto_off_work_handler: it waits for the workqueue's turn.
OffUnlessScanning == autoPower /\ ~running /\ ~connected
                                         \* faulty: a scan about to start
OffApplies == autoPower /\ ~running /\ ~scanRequested /\ ~connected

AutoOffTurn == autoOff = Due /\ At(WorkQueue, "idle") /\ autoOff' = Idle

AutoOff ==
  /\ AutoOffTurn /\ OffApplies
  /\ SwitchOff /\ GoTo(WorkQueue, "lower")
  /\ UNCHANGED <<left, past>>

AutoOffNotNow ==
  /\ AutoOffTurn /\ ~OffApplies
  /\ past' = [past EXCEPT !.kept = @ \/ (autoPower /\ connected)]
  /\ UNCHANGED <<flags, scan, at, stack, left>>

\* The worker (WifiLink): it prepares, gives the request up when that fails,
\* and associates when no scan holds it back.
WorkerPrepares ==
  /\ requested /\ ~ifUp /\ ifUp' = TRUE
  /\ UNCHANGED <<flags, scan, autoOff, at, connected, driver, left, past>>

WorkerGivesUp ==
  /\ requested /\ ~ifUp /\ Fault
  /\ requested' = FALSE /\ associate' = FALSE
  /\ past' = [Unasked EXCEPT !.kept = TRUE]
  /\ at' = [t \in Threads |-> CutShort(t)]
  /\ UNCHANGED <<autoPower, scan, autoOff, stack>>

Associates ==
  /\ requested /\ associate /\ ifUp /\ ~connected /\ ~scanRequested /\ ~running
  /\ connected' = TRUE
  /\ UNCHANGED <<flags, scan, autoOff, at, ifUp, driver, left, past>>

AssociationLost ==
  /\ connected /\ Fault
  /\ connected' = FALSE
  /\ UNCHANGED <<flags, scan, autoOff, at, ifUp, driver, past>>

-----------------------------------------------------------------------------

\* What a thread does next with a command it has begun.
Proceeds(t) ==
  \/ ReadPower(t) \/ TakePower(t) \/ AskScan(t) \/ EnableWifi(t)
  \/ Prepared(t) \/ PrepareFails(t)
  \/ ReadRunning(t) \/ MarkStarted(t) \/ AlreadyRunning(t)
  \/ Accepted(t) \/ RefusedBusy(t) \/ Refused(t) \/ Retry(t)
  \/ TakeSem(t) \/ WaitTimesOut(t) \/ Lower(t) \/ LowerFails(t)

Command(t) ==
  \/ \E wait \in BOOLEAN : ScanBegin(t, wait) \/ ScanJoin(t, wait)
  \/ Clear(t) \/ Off(t)
  \/ \E reconnect \in BOOLEAN : On(t, reconnect)

DriverEnds == ScanDone \/ DoneLost
WorkItem == AutoOff \/ AutoOffNotNow

\* While the workqueue neither sleeps nor waits, no other thread runs.
Preempts ==
  at[WorkQueue].step \in
    {"power", "take", "ask", "enable", "request", "already"}

Next ==
  \/ \E t \in Threads :
       (Preempts => t = WorkQueue) /\ (Command(t) \/ Proceeds(t))
  \/ ~Preempts /\ \E e \in Results : Hear(e)
  \/ ~Preempts /\ (DriverEnds \/ WorkItem)
  \/ ~Preempts /\ ( \/ WorkerPrepares \/ WorkerGivesUp
                   \/ Associates \/ AssociationLost )

Spec == Init /\ [][Next]_vars

\* Threads run, scans end, and the workqueue serves its items in turn.
FairSpec ==
  /\ Spec
  /\ \A t \in Threads : WF_vars(Proceeds(t))
  /\ WF_vars(DriverEnds) /\ SF_vars(WorkItem)

-----------------------------------------------------------------------------
(* Properties.                                                             *)

TypeOK ==
  /\ {requested, associate, autoPower, scanRequested, running, sem, connected,
      ifUp} \subseteq BOOLEAN
  /\ Len(table) <= MaxResults
  /\ autoOff \in Threads \cup {Idle, Due}
  /\ at \in [Threads ->
             [step : Steps, wait : BOOLEAN, tries : 0 .. Retries,
              served : BOOLEAN, cut : BOOLEAN]]
  /\ driver \in {"idle", "scanning", "aborted"}

\* README.md:594: a scan leaves on what was already explicitly on.
ExplicitOnSurvives == past.already => requested

\* An explicit request survives every scan and its auto-off where it did not
\* come while a scan held temporary power, or had found that it needs it and
\* not yet taken it (wt_wifi.c:438, 1207, 1383).
UnmixedOnSurvives == past.explicit /\ ~past.mixed => requested

\* The auto-off of one scan never takes the power of the next while that one
\* prepares, settles or asks for its first attempt, unless two scans were
\* started at once or an attempt has been refused (wt_wifi.c:400, 434, 1355,
\* 1383).
PoweredWhileStarting ==
  \A t \in Threads :
    /\ at[t].step \in {"prepare", "request", "mark", "submit"} /\ ~at[t].cut
    /\ ~past.crossed /\ ~past.refused
    => requested

\* A command that waits for its own scan is never answered by the end of an
\* older one, unless that one was interrupted, or marked as started a second
\* time by a start that crossed it (wt_wifi.c:389, 410, 701).
FreshAnswer == past.stale => past.joined \/ past.aborted \/ past.marked

\* The table holds exactly the strongest networks heard since a scan was last
\* marked as started, or the table cleared (wt_wifi.c:329-390).
TableIsOneScan == HoldsStrongest(table, heard)

\* Once a scan is done the indexes a client has read stay valid until the
\* table is cleared, unless a start has crossed another and marked a running
\* scan a second time: its refusal then ends the mark, not the scan
\* (wt_wifi.c:396, 410, 820, 1359).
IndexesHold ==
  [][~running' /\ ~past.marked => table' \in {table, <<>>}]_vars

\* A scan does not stay requested or running for ever, unless its end is lost
\* (wt_wifi.c:453, 1355): the worker associates only when it is over.
ScanEnds ==
  (scanRequested \/ running) ~> (~scanRequested /\ ~running) \/ past.lost

\* Temporary power is given back in the end, unless preparation failed, the
\* end was lost or an association keeps it (wt_wifi.c:400, 1369).
PowerReleased == autoPower ~> ~autoPower \/ past.kept \/ past.lost
=============================================================================
