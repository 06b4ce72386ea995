------------------------------ MODULE BleOutq ------------------------------
(***************************************************************************)
(* One outbound notification queue of src/src/wt_ble.c (struct             *)
(* wt_ble_outq): a ring of WT_BLE_OUTQ_DEPTH frames under q->lock, filled  *)
(* by any thread (wt_ble_outq_push) and emptied by wt_ble_outq_flush.      *)
(* The flush runs on the system workqueue, and also on the thread of a     *)
(* push that found the ring full.  The pop (q->lock) and the notification  *)
(* (ble_notify_lock) are separate critical sections, a frame the stack     *)
(* cannot take is put back at the front, and the connection may come and   *)
(* go, or be stopped, between any two of those steps.                      *)
(*                                                                         *)
(* The firmware has two such queues (responses and TX payloads) that run   *)
(* the same code; this is one of them.                                     *)
(***************************************************************************)
EXTENDS Integers, Sequences, FiniteSets

CONSTANTS
  Producers,    \* threads other than the workqueue that push: shell, UDP, BT RX
  NoThread,     \* the owner of a free mutex
  WorkQueue,    \* the system workqueue thread: runs the flush and BLE commands
  Depth,        \* WT_BLE_OUTQ_DEPTH
  RetryCount,   \* WT_BLE_NOTIFY_RETRY_COUNT
  MaxFrames,    \* bound: pushes offered to the queue
  MaxSessions   \* bound: connections

ASSUME DepthAssumption   == Depth \in Nat \ {0}
ASSUME RetryAssumption   == RetryCount \in Nat
ASSUME BoundsAssumption  == MaxFrames \in Nat /\ MaxSessions \in Nat
Threads == Producers \cup {WorkQueue}

ASSUME ThreadsAssumption == NoThread \notin Threads

\* The code leaves old bytes in a slot it no longer uses and never reads them
\* again; the model empties such a slot.
\*
\* A frame is its number in the order the ring accepted it (0: no frame) and
\* the connection that was up when its push was admitted.
Frame == [n : Nat, s : Nat]
NoFrame == [n |-> 0, s |-> 0]

VARIABLES
  conn,         \* ble_conn: the number of the connection, 0 for NULL
  connected,    \* ble_connected_state
  enabled,      \* *q->enabled: the client subscribed to the characteristic
  clearing,     \* who has put the flags down but not yet cleared the ring
  head, tail, count, item, dropped,   \* struct wt_ble_outq
  work,         \* q->work: "idle", "delayed" or "queued"
  pc,           \* per thread, the next step of push or flush
  attempt,      \* per thread, the pass of push's loop; 0 outside a push
  from,         \* per thread, the connection under which its push was admitted
  hand,         \* per thread, flush's local copy of a popped frame
  notifyLock,   \* the owner of ble_notify_lock
  tries,        \* attempts left to the owner of ble_notify_lock
  sessions,     \* connections made so far
  accepted,     \* history: frames the ring accepted
  sent,         \* history: notifications the stack took, in order
  lost,         \* history: accepted frames given up, by number
  overlapped,   \* history: two threads have flushed at the same time
  interrupted,  \* history: a connection ended with a push or flush under way
  gaveUp        \* history: the last flush left frames behind because it was not ready

linkVars  == <<conn, connected, enabled, clearing, sessions>>
ringVars  == <<head, tail, count, item, dropped>>
pushVars  == <<attempt, from>>
radioVars == <<notifyLock, tries>>
histVars  == <<accepted, sent, lost, overlapped, interrupted, gaveUp>>
vars == <<linkVars, ringVars, work, pc, pushVars, hand, radioVars, histVars>>

Slots == 0 .. Depth - 1

Init ==
  /\ conn = 0 /\ connected = FALSE /\ enabled = FALSE /\ clearing = "none"
  /\ sessions = 0
  /\ head = 0 /\ tail = 0 /\ count = 0 /\ dropped = 0
  /\ item = [i \in Slots |-> NoFrame]
  /\ work = "idle"
  /\ pc = [t \in Threads |-> "idle"]
  /\ attempt = [t \in Threads |-> 0]
  /\ from = [t \in Threads |-> 0]
  /\ hand = [t \in Threads |-> NoFrame]
  /\ notifyLock = NoThread /\ tries = 0
  /\ accepted = 0 /\ sent = <<>> /\ lost = {}
  /\ overlapped = FALSE /\ interrupted = FALSE /\ gaveUp = FALSE

-----------------------------------------------------------------------------
(* The ring.                                                               *)

\* The slots that hold a queued frame: count of them from head, wrapping.
Live(i) == IF head + count <= Depth
             THEN head <= i /\ i < head + count
             ELSE head <= i \/ i < head + count - Depth

Queued == {i \in Slots : Live(i)}

\* The steps of wt_ble_outq_flush and of the notification inside it.
FlushSteps == {"ready", "pop", "lock", "notify", "requeue", "retry"}
Flushing(t) == pc[t] \in FlushSteps

Goto(t, step) == pc' = [pc EXCEPT ![t] = step]

\* The index arithmetic of push, pop and requeue.
After(i) == (i + 1) % Depth
BeforeNoWrap(i) == i - 1             \* faulty: uint8_t would wrap to 255
Before(i) == (i + Depth - 1) % Depth

RoomForOneMore == count <= Depth     \* faulty: off by one
Room == count < Depth

\* The bodies of requeue_front and of clear under q->lock.
PutBack(f) ==                        \* faulty: requeues behind the others
  /\ item' = [item EXCEPT ![tail] = f]
  /\ tail' = After(tail)
  /\ head' = head

PutFront(f) ==
  /\ head' = Before(head)
  /\ item' = [item EXCEPT ![Before(head)] = f]
  /\ tail' = tail

KeepRing ==                          \* faulty: no clear at all
  UNCHANGED <<head, tail, count, item, lost>>

ForgetCount ==                       \* faulty: leaves head and tail
  /\ count' = 0
  /\ item' = [i \in Slots |-> NoFrame]
  /\ lost' = lost \cup {item[i].n : i \in Queued}
  /\ UNCHANGED <<head, tail>>

EmptyRing ==
  /\ head' = 0 /\ tail' = 0 /\ count' = 0
  /\ item' = [i \in Slots |-> NoFrame]
  /\ lost' = lost \cup {item[i].n : i \in Queued}

ScheduleUnlessRunning(when) ==       \* faulty: a no-op while the handler runs
  work' = IF work = "idle" /\ ~Flushing(WorkQueue) THEN when ELSE work

ScheduleNowOnly(when) ==             \* faulty: no delayed retry
  work' = IF work = "idle" /\ when = "queued" THEN when ELSE work

\* k_work_schedule: a no-op while the item is already delayed or queued, but
\* not while its handler runs.
Schedule(when) == work' = IF work = "idle" THEN when ELSE work

\* wt_ble_outq_ready
Ready == conn # 0 /\ connected /\ enabled

\* Enter wt_ble_outq_flush.
EnterFlush(t) ==
  /\ Goto(t, "ready")
  /\ overlapped' = (overlapped \/ \E u \in Threads \ {t} : Flushing(u))

\* wt_ble_outq_flush returns: to the work handler's caller, or to push's loop.
LeaveFlush(t) ==
  /\ Goto(t, CASE attempt[t] = 0 -> "idle"
               [] attempt[t] = 1 -> "enqueue"
               [] OTHER          -> "drop")
  /\ attempt' = [attempt EXCEPT ![t] = IF @ = 1 THEN 2 ELSE @]

-----------------------------------------------------------------------------
(* wt_ble_outq_push                                                        *)

\* The checks on entry.  A refused push changes nothing; an admitted one
\* goes on whatever happens to the connection afterwards.
BeginPush(t) ==
  /\ pc[t] = "idle"
  /\ Ready
  /\ accepted + dropped < MaxFrames
  /\ Goto(t, "enqueue")
  /\ attempt' = [attempt EXCEPT ![t] = 1]
  /\ from' = [from EXCEPT ![t] = conn]
  /\ UNCHANGED <<linkVars, ringVars, work, hand, radioVars, histVars>>

\* One pass of the loop, under q->lock, when there is room.
Enqueue(t) ==
  /\ pc[t] = "enqueue"
  /\ Room
  /\ accepted' = accepted + 1
  /\ item' = [item EXCEPT ![tail] = [n |-> accepted + 1, s |-> from[t]]]
  /\ tail' = After(tail)
  /\ count' = count + 1
  /\ Goto(t, "schedule")
  /\ UNCHANGED <<linkVars, head, dropped, work, pushVars, hand, radioVars,
                 sent, lost, overlapped, interrupted, gaveUp>>

\* One pass of the loop when the ring is full: this thread flushes it itself.
AssistFlush(t) ==
  /\ pc[t] = "enqueue"
  /\ ~Room
  /\ EnterFlush(t)
  /\ UNCHANGED <<linkVars, ringVars, work, pushVars, hand, radioVars,
                 accepted, sent, lost, interrupted, gaveUp>>

\* k_work_schedule(&q->work, K_NO_WAIT), outside q->lock.
EndPush(t) ==
  /\ pc[t] = "schedule"
  /\ Schedule("queued")
  /\ Goto(t, "idle")
  /\ attempt' = [attempt EXCEPT ![t] = 0]
  /\ from' = [from EXCEPT ![t] = 0]
  /\ UNCHANGED <<linkVars, ringVars, hand, radioVars, histVars>>

\* The ring was full on both passes.
DropPush(t) ==
  /\ pc[t] = "drop"
  /\ dropped' = (dropped + 1) % 65536
  /\ Goto(t, "idle")
  /\ attempt' = [attempt EXCEPT ![t] = 0]
  /\ from' = [from EXCEPT ![t] = 0]
  /\ UNCHANGED <<linkVars, head, tail, count, item, work, hand, radioVars,
                 histVars>>

-----------------------------------------------------------------------------
(* wt_ble_outq_flush                                                       *)

\* The workqueue takes the queued item and runs its handler.
StartFlush ==
  /\ pc[WorkQueue] = "idle"
  /\ work = "queued"
  /\ work' = "idle"
  /\ gaveUp' = FALSE
  /\ EnterFlush(WorkQueue)
  /\ UNCHANGED <<linkVars, ringVars, pushVars, hand, radioVars, accepted,
                 sent, lost, interrupted>>

\* The delay of k_work_schedule(..., WT_BLE_NOTIFY_RETRY_DELAY_MS) runs out.
TimerFires ==
  /\ work = "delayed"
  /\ work' = "queued"
  /\ UNCHANGED <<linkVars, ringVars, pc, pushVars, hand, radioVars, histVars>>

\* The loop condition up to its pop.
CheckReady(t) ==
  /\ pc[t] = "ready"
  /\ Ready
  /\ Goto(t, "pop")
  /\ UNCHANGED <<linkVars, ringVars, work, pushVars, hand, radioVars, histVars>>

NotReady(t) ==
  /\ pc[t] = "ready"
  /\ ~Ready
  /\ gaveUp' = (gaveUp \/ count > 0)
  /\ LeaveFlush(t)
  /\ UNCHANGED <<linkVars, ringVars, work, from, hand, radioVars, accepted,
                 sent, lost, overlapped, interrupted>>

\* wt_ble_outq_pop, under q->lock.
Pop(t) ==
  /\ pc[t] = "pop"
  /\ count > 0
  /\ hand' = [hand EXCEPT ![t] = item[head]]
  /\ item' = [item EXCEPT ![head] = NoFrame]
  /\ head' = After(head)
  /\ count' = count - 1
  /\ Goto(t, "lock")
  /\ UNCHANGED <<linkVars, tail, dropped, work, pushVars, radioVars,
                 histVars>>

PopEmpty(t) ==
  /\ pc[t] = "pop"
  /\ count = 0
  /\ LeaveFlush(t)
  /\ UNCHANGED <<linkVars, ringVars, work, from, hand, radioVars, histVars>>

-----------------------------------------------------------------------------
(* wt_ble_notify_one_chunk: up to RetryCount + 1 calls of bt_gatt_notify   *)
(* under ble_notify_lock, asleep between them.                             *)

LockNotify(t) ==
  /\ pc[t] = "lock"
  /\ notifyLock = NoThread
  /\ notifyLock' = t
  /\ tries' = RetryCount + 1
  /\ Goto(t, "notify")
  /\ UNCHANGED <<linkVars, ringVars, work, pushVars, hand, histVars>>

UnlockNotify == notifyLock' = NoThread /\ tries' = 0

\* The stack takes the frame for the connection ble_conn names now.  With
\* ble_conn NULL, or after the link is gone, it fails.
NotifyAccepted(t) ==
  /\ pc[t] = "notify"
  /\ conn # 0
  /\ sent' = Append(sent, [n |-> hand[t].n, s |-> hand[t].s, to |-> conn])
  /\ hand' = [hand EXCEPT ![t] = NoFrame]
  /\ UnlockNotify
  /\ Goto(t, "ready")
  /\ UNCHANGED <<linkVars, ringVars, work, pushVars, accepted, lost,
                 overlapped, interrupted, gaveUp>>

\* EBUSY, ENOMEM or EAGAIN with attempts left.
NotifyRetried(t) ==
  /\ pc[t] = "notify"
  /\ conn # 0
  /\ tries > 1
  /\ tries' = tries - 1
  /\ UNCHANGED <<linkVars, ringVars, work, pc, pushVars, hand, notifyLock,
                 histVars>>

\* EBUSY, ENOMEM or EAGAIN on the last attempt.
NotifyExhausted(t) ==
  /\ pc[t] = "notify"
  /\ conn # 0
  /\ tries = 1
  /\ UnlockNotify
  /\ Goto(t, "requeue")
  /\ UNCHANGED <<linkVars, ringVars, work, pushVars, hand, histVars>>

\* Any other error: the frame is gone and the loop goes on.
NotifyFailed(t) ==
  /\ pc[t] = "notify"
  /\ lost' = lost \cup {hand[t].n}
  /\ hand' = [hand EXCEPT ![t] = NoFrame]
  /\ UnlockNotify
  /\ Goto(t, "ready")
  /\ UNCHANGED <<linkVars, ringVars, work, pushVars, accepted, sent,
                 overlapped, interrupted, gaveUp>>

-----------------------------------------------------------------------------
(* wt_ble_outq_requeue_front, then k_work_schedule and the early return.   *)

RequeueFront(t) ==
  /\ pc[t] = "requeue"
  /\ Room
  /\ PutFront(hand[t])
  /\ count' = count + 1
  /\ hand' = [hand EXCEPT ![t] = NoFrame]
  /\ Goto(t, "retry")
  /\ UNCHANGED <<linkVars, dropped, work, pushVars, radioVars, histVars>>

RequeueFull(t) ==
  /\ pc[t] = "requeue"
  /\ ~Room
  /\ dropped' = (dropped + 1) % 65536
  /\ lost' = lost \cup {hand[t].n}
  /\ hand' = [hand EXCEPT ![t] = NoFrame]
  /\ Goto(t, "retry")
  /\ UNCHANGED <<linkVars, head, tail, count, item, work, pushVars, radioVars,
                 accepted, sent, overlapped, interrupted, gaveUp>>

ScheduleRetry(t) ==
  /\ pc[t] = "retry"
  /\ Schedule("delayed")
  /\ LeaveFlush(t)
  /\ UNCHANGED <<linkVars, ringVars, from, hand, radioVars, histVars>>

-----------------------------------------------------------------------------
(* The connection, as far as the queue reads it.  ble_disconnected and     *)
(* wt_ble_service_stop both put the flags down, then clear the ring; the   *)
(* model lets one of them finish before the other starts.                  *)

\* ble_connected: one connection at a time (CONFIG_BT_MAX_CONN), so none is
\* made before ble_disconnected has dropped the reference to the last one.
Connect ==
  /\ conn = 0
  /\ sessions < MaxSessions
  /\ sessions' = sessions + 1
  /\ conn' = sessions + 1
  /\ connected' = TRUE
  /\ UNCHANGED <<enabled, clearing, ringVars, work, pc, pushVars, hand,
                 radioVars, histVars>>

\* wt_ble_tx_ccc_changed and wt_ble_rsp_ccc_changed.
Subscription(on) ==
  /\ conn # 0 /\ clearing # "disconnect"
  /\ enabled # on
  /\ enabled' = on
  /\ UNCHANGED <<conn, connected, clearing, sessions, ringVars, work, pc,
                 pushVars, hand, radioVars, histVars>>

\* ble_disconnected up to its first wt_ble_outq_clear.
Disconnect ==
  /\ conn # 0 /\ clearing = "none"
  /\ connected' = FALSE /\ enabled' = FALSE
  /\ clearing' = "disconnect"
  /\ UNCHANGED <<conn, sessions, ringVars, work, pc, pushVars, hand,
                 radioVars, histVars>>

\* wt_ble_service_stop up to its first wt_ble_outq_clear.
Stop ==
  /\ clearing = "none"
  /\ connected' = FALSE /\ enabled' = FALSE
  /\ clearing' = "stop"
  /\ UNCHANGED <<conn, sessions, ringVars, work, pc, pushVars, hand,
                 radioVars, histVars>>

\* wt_ble_outq_clear, under q->lock; ble_disconnected then drops ble_conn.
ClearRing ==
  /\ clearing # "none"
  /\ clearing' = "none"
  /\ EmptyRing
  /\ conn' = IF clearing = "disconnect" THEN 0 ELSE conn
  /\ interrupted' = (interrupted \/ /\ clearing = "disconnect"
                                    /\ \E t \in Threads : pc[t] # "idle")
  /\ UNCHANGED <<connected, enabled, sessions, dropped, work, pc, pushVars,
                 hand, radioVars, accepted, sent, overlapped, gaveUp>>

-----------------------------------------------------------------------------
\* What a thread does once it has started a push or a flush.
ThreadStep(t) ==
  \/ Enqueue(t) \/ AssistFlush(t) \/ EndPush(t) \/ DropPush(t)
  \/ CheckReady(t) \/ NotReady(t) \/ Pop(t) \/ PopEmpty(t)
  \/ LockNotify(t)
  \/ NotifyAccepted(t) \/ NotifyRetried(t) \/ NotifyExhausted(t) \/ NotifyFailed(t)
  \/ RequeueFront(t) \/ RequeueFull(t) \/ ScheduleRetry(t)

LinkStep ==
  \/ Connect
  \/ \E on \in BOOLEAN : Subscription(on)
  \/ Disconnect \/ Stop
  \/ ClearRing

Next ==
  \/ \E t \in Threads : BeginPush(t) \/ ThreadStep(t)
  \/ StartFlush \/ TimerFires
  \/ LinkStep

Spec == Init /\ [][Next]_vars

\* The kernel runs every ready thread and every due work item.  The last
\* conjunct is an assumption on the Bluetooth stack: a frame offered again and
\* again is taken, or refused for good, in the end.
Fairness ==
  /\ \A t \in Threads : WF_vars(ThreadStep(t))
  /\ WF_vars(StartFlush) /\ WF_vars(TimerFires)
  /\ WF_vars(ClearRing)
  /\ \A t \in Threads : SF_vars(NotifyAccepted(t) \/ NotifyFailed(t))

FairSpec == Spec /\ Fairness
-----------------------------------------------------------------------------
(* Properties.                                                             *)

Steps == {"idle", "enqueue", "schedule", "drop"} \cup FlushSteps

\* Every variable keeps its type; the ring's indices stay inside the array.
TypeOK ==
  /\ conn \in Nat /\ sessions \in Nat
  /\ connected \in BOOLEAN /\ enabled \in BOOLEAN
  /\ clearing \in {"none", "stop", "disconnect"}
  /\ head \in Slots /\ tail \in Slots /\ count \in 0 .. Depth
  /\ item \in [Slots -> Frame]
  /\ dropped \in Nat
  /\ work \in {"idle", "delayed", "queued"}
  /\ pc \in [Threads -> Steps]
  /\ attempt \in [Threads -> 0 .. 2]
  /\ from \in [Threads -> Nat]
  /\ hand \in [Threads -> Frame]
  /\ notifyLock \in Threads \cup {NoThread}
  /\ tries \in 0 .. RetryCount + 1
  /\ accepted \in Nat
  /\ sent \in Seq([n : Nat, s : Nat, to : Nat])
  /\ lost \subseteq Nat
  /\ overlapped \in BOOLEAN /\ interrupted \in BOOLEAN /\ gaveUp \in BOOLEAN

\* Where accepted frame n is.
InRing(n) == \E i \in Queued : item[i].n = n
InHand(n) == \E t \in Threads : hand[t].n = n
Delivered(n) == \E i \in DOMAIN sent : sent[i].n = n

\* Frames are neither duplicated nor lost without trace: whatever the
\* interleaving of pushes, flushes on two threads, requeues and clears, every
\* accepted frame is queued in one slot, or held by one flush, or was given to
\* the stack once, or was given up - and is in exactly one of these places
\* (wt_ble_outq_push, _pop, _requeue_front, _clear, _flush).
FrameAccounted ==
  \A n \in 1 .. accepted :
    /\ InRing(n) \/ InHand(n) \/ Delivered(n) \/ n \in lost
    /\ InRing(n) => ~InHand(n) /\ ~Delivered(n) /\ n \notin lost
    /\ InHand(n) => ~Delivered(n) /\ n \notin lost
    /\ Delivered(n) => n \notin lost
    /\ \A i, j \in Queued : item[i].n = n /\ item[j].n = n => i = j
    /\ \A t, u \in Threads : hand[t].n = n /\ hand[u].n = n => t = u
    /\ \A i, j \in DOMAIN sent : sent[i].n = n /\ sent[j].n = n => i = j

\* The promise of README.md:548 and 573, as far as the code keeps it: frames
\* reach the stack in the order the ring accepted them as long as no push has
\* run the flush (wt_ble_outq_push, full ring) beside another flush.  Requeues,
\* clears and reconnections on their own never reorder.
FifoWithOneFlusher ==
  ~overlapped =>
    \A i, j \in DOMAIN sent : i < j => sent[i].n < sent[j].n

\* The same promise as the documents state it, without the condition.
Fifo == \A i, j \in DOMAIN sent : i < j => sent[i].n < sent[j].n

\* ble_disconnected clears the ring so that a client never receives frames
\* meant for an earlier one.  That holds as long as no connection has ended
\* while some thread was between the steps of a push or a flush: such a
\* thread puts its frame into the ring after the clear.
NoStaleFrame ==
  ~interrupted =>
    /\ \A i \in Queued : item[i].s = conn
    /\ \A i \in DOMAIN sent : sent[i].s = sent[i].to

\* No lost wake-up: while the ring holds frames, its work item is scheduled or
\* some thread is still to flush or to schedule it - unless the last flush
\* stopped on an unusable queue (resubscribing or reconnecting does not restart
\* it).  A push that finds the handler already running must be able to queue
\* the work item again (k_work_schedule in wt_ble_outq_push).
NoStrandedFrame ==
  count > 0 /\ ~gaveUp =>
    work # "idle" \/ \E t \in Threads : Flushing(t) \/ pc[t] = "schedule"

\* Every frame leaves the queue: once the queue stays usable and no flush has
\* stopped on an unusable queue since, the ring and all hands become empty for
\* good, whatever the radio refuses on the way.
Drains ==
  <>[](Ready /\ ~gaveUp) =>
    <>[](count = 0 /\ \A t \in Threads : hand[t] = NoFrame)

\* What the queue promises its callers (OutqLedger): each accepted frame is
\* delivered at most once and is otherwise accounted as lost.
Ledger == INSTANCE OutqLedger WITH
            pending   <- {n \in 1 .. accepted : InRing(n) \/ InHand(n)},
            delivered <- {sent[i].n : i \in DOMAIN sent}
ImplementsLedger == Ledger!Spec
=============================================================================
