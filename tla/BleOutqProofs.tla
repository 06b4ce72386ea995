--------------------------- MODULE BleOutqProofs ---------------------------
(***************************************************************************)
(* Proofs about one outbound queue (BleOutq), for any number of threads,   *)
(* any depth, any number of frames and connections.                        *)
(***************************************************************************)
EXTENDS BleOutq, TLAPS

-----------------------------------------------------------------------------
(* The index arithmetic of the ring.                                       *)

\* The slot after, and the slot before, another one: both stay in the array.
LEMMA AfterSlot ==
  ASSUME NEW i \in Slots
  PROVE  /\ After(i) = IF i = Depth - 1 THEN 0 ELSE i + 1
         /\ After(i) \in Slots
  BY DepthAssumption DEF Slots, After

LEMMA BeforeSlot ==
  ASSUME NEW i \in Slots
  PROVE  /\ Before(i) = IF i = 0 THEN Depth - 1 ELSE i - 1
         /\ Before(i) \in Slots
  BY DepthAssumption DEF Slots, Before

-----------------------------------------------------------------------------
(* Types.                                                                  *)

\* A thread that leaves the flush goes to a step of the code.
LEMMA LeaveFlushTyped ==
  ASSUME TypeOK, NEW t \in Threads, LeaveFlush(t)
  PROVE  pc' \in [Threads -> Steps] /\ attempt' \in [Threads -> 0 .. 2]
<1>1. pc' \in [Threads -> Steps]
  BY DEF TypeOK, LeaveFlush, Goto, Steps
<1>2. attempt' \in [Threads -> 0 .. 2]
  BY DEF TypeOK, LeaveFlush
<1> QED
  BY <1>1, <1>2

\* Every reachable state is well typed; in particular no index leaves the array
\* of WT_BLE_OUTQ_DEPTH slots, and count never exceeds it.
THEOREM TypeCorrect == Spec => []TypeOK
<1>1. Init => TypeOK
  <2> SUFFICES ASSUME Init PROVE TypeOK
    OBVIOUS
  <2>1. item \in [Slots -> Frame] /\ hand \in [Threads -> Frame]
    BY DEF Init, Frame, NoFrame
  <2>2. 0 \in Slots /\ 0 \in 0 .. Depth /\ 0 \in 0 .. RetryCount + 1
    BY DepthAssumption, RetryAssumption DEF Slots
  <2> QED
    BY <2>1, <2>2 DEF Init, TypeOK, Steps
<1>2. TypeOK /\ [Next]_vars => TypeOK'
  <2> SUFFICES ASSUME TypeOK, [Next]_vars
               PROVE  TypeOK'
    OBVIOUS
  <2> USE DepthAssumption, RetryAssumption, BoundsAssumption
  <2>0. NoFrame \in Frame
    BY DEF NoFrame, Frame
  <2> USE DEF TypeOK, linkVars, ringVars, pushVars, radioVars, histVars
  <2>1. ASSUME NEW t \in Threads, BeginPush(t) PROVE TypeOK'
    BY <2>1 DEF BeginPush, Goto, Steps
  <2>2. ASSUME NEW t \in Threads, Enqueue(t) PROVE TypeOK'
    <3>1. After(tail) \in Slots
      BY AfterSlot
    <3>2. [n |-> accepted + 1, s |-> from[t]] \in Frame
      BY <2>2 DEF Frame
    <3>3. count' \in 0 .. Depth
      BY <2>2 DEF Enqueue, Room
    <3> QED
      BY <2>2, <3>1, <3>2, <3>3 DEF Enqueue, Goto, Steps
  <2>3. ASSUME NEW t \in Threads, AssistFlush(t) PROVE TypeOK'
    BY <2>3 DEF AssistFlush, EnterFlush, Goto, Steps, FlushSteps
  <2>4. ASSUME NEW t \in Threads, EndPush(t) PROVE TypeOK'
    BY <2>4 DEF EndPush, Schedule, Goto, Steps
  <2>5. ASSUME NEW t \in Threads, DropPush(t) PROVE TypeOK'
    BY <2>5 DEF DropPush, Goto, Steps
  <2>6. ASSUME NEW t \in Threads, CheckReady(t) PROVE TypeOK'
    BY <2>6 DEF CheckReady, Goto, Steps, FlushSteps
  <2>7. ASSUME NEW t \in Threads, NotReady(t) PROVE TypeOK'
    <3>1. pc' \in [Threads -> Steps] /\ attempt' \in [Threads -> 0 .. 2]
      BY <2>7, LeaveFlushTyped DEF NotReady
    <3> QED
      BY <2>7, <3>1 DEF NotReady
  <2>8. ASSUME NEW t \in Threads, Pop(t) PROVE TypeOK'
    <3>1. After(head) \in Slots
      BY AfterSlot
    <3>2. count' \in 0 .. Depth
      BY <2>8 DEF Pop
    <3> QED
      BY <2>0, <2>8, <3>1, <3>2 DEF Pop, Goto, Steps, FlushSteps
  <2>9. ASSUME NEW t \in Threads, PopEmpty(t) PROVE TypeOK'
    <3>1. pc' \in [Threads -> Steps] /\ attempt' \in [Threads -> 0 .. 2]
      BY <2>9, LeaveFlushTyped DEF PopEmpty
    <3> QED
      BY <2>9, <3>1 DEF PopEmpty
  <2>10. ASSUME NEW t \in Threads, LockNotify(t) PROVE TypeOK'
    BY <2>10 DEF LockNotify, Goto, Steps, FlushSteps
  <2>11. ASSUME NEW t \in Threads, NotifyAccepted(t) PROVE TypeOK'
    <3>1. [n |-> hand[t].n, s |-> hand[t].s, to |-> conn] \in [n : Nat, s : Nat, to : Nat]
      BY DEF Frame
    <3>2. sent' \in Seq([n : Nat, s : Nat, to : Nat])
      BY <2>11, <3>1 DEF NotifyAccepted
    <3> QED
      BY <2>0, <2>11, <3>2 DEF NotifyAccepted, UnlockNotify, Goto, Steps, FlushSteps
  <2>12. ASSUME NEW t \in Threads, NotifyRetried(t) PROVE TypeOK'
    BY <2>12 DEF NotifyRetried
  <2>13. ASSUME NEW t \in Threads, NotifyExhausted(t) PROVE TypeOK'
    BY <2>13 DEF NotifyExhausted, UnlockNotify, Goto, Steps, FlushSteps
  <2>14. ASSUME NEW t \in Threads, NotifyFailed(t) PROVE TypeOK'
    <3>1. lost' \subseteq Nat
      BY <2>14 DEF NotifyFailed, Frame
    <3> QED
      BY <2>0, <2>14, <3>1 DEF NotifyFailed, UnlockNotify, Goto, Steps, FlushSteps
  <2>15. ASSUME NEW t \in Threads, RequeueFront(t) PROVE TypeOK'
    <3>1. Before(head) \in Slots
      BY BeforeSlot
    <3>2. count' \in 0 .. Depth
      BY <2>15 DEF RequeueFront, Room
    <3> QED
      BY <2>0, <2>15, <3>1, <3>2 DEF RequeueFront, PutFront, Goto, Steps, FlushSteps
  <2>16. ASSUME NEW t \in Threads, RequeueFull(t) PROVE TypeOK'
    <3>1. hand[t].n \in Nat
      BY DEF Frame
    <3>2. lost' = lost \cup {hand[t].n}
      BY <2>16 DEF RequeueFull
    <3>3. lost' \subseteq Nat
      BY <3>1, <3>2
    <3>4. dropped' \in Nat
      BY <2>16 DEF RequeueFull
    <3> QED
      BY <2>0, <2>16, <3>3, <3>4 DEF RequeueFull, Goto, Steps, FlushSteps
  <2>17. ASSUME NEW t \in Threads, ScheduleRetry(t) PROVE TypeOK'
    <3>1. pc' \in [Threads -> Steps] /\ attempt' \in [Threads -> 0 .. 2]
      BY <2>17, LeaveFlushTyped DEF ScheduleRetry
    <3> QED
      BY <2>17, <3>1 DEF ScheduleRetry, Schedule
  <2>18. CASE StartFlush
    BY <2>18 DEF StartFlush, EnterFlush, Goto, Steps, FlushSteps
  <2>19. CASE TimerFires
    BY <2>19 DEF TimerFires
  <2>20. CASE Connect
    BY <2>20 DEF Connect
  <2>21. ASSUME NEW on \in BOOLEAN, Subscription(on) PROVE TypeOK'
    BY <2>21 DEF Subscription
  <2>22. CASE Disconnect
    BY <2>22 DEF Disconnect
  <2>23. CASE Stop
    BY <2>23 DEF Stop
  <2>24. CASE ClearRing
    <3>1. lost' \subseteq Nat
      BY <2>24 DEF ClearRing, EmptyRing, Queued, Frame
    <3>2. interrupted' \in BOOLEAN
      BY <2>24 DEF ClearRing
    <3> QED
      BY <2>0, <2>24, <3>1, <3>2 DEF ClearRing, EmptyRing, Slots
  <2>25. CASE UNCHANGED vars
    BY <2>25 DEF vars
  <2> QED
    BY <2>1, <2>2, <2>3, <2>4, <2>5, <2>6, <2>7, <2>8, <2>9, <2>10, <2>11,
       <2>12, <2>13, <2>14, <2>15, <2>16, <2>17, <2>18, <2>19, <2>20, <2>21,
       <2>22, <2>23, <2>24, <2>25
    DEF Next, ThreadStep, LinkStep
<1> QED
  BY <1>1, <1>2, PTL DEF Spec

-----------------------------------------------------------------------------
(* No lost wake-up.                                                        *)

\* Every thread that makes the ring non-empty schedules the work item before
\* its push or flush is over, and the work item stays scheduled until a flush
\* starts; so frames are only left alone by a flush that gave up.
THEOREM NoFrameStranded == Spec => []NoStrandedFrame
<1>1. Init => NoStrandedFrame
  BY DEF Init, NoStrandedFrame
<1>2. TypeOK /\ NoStrandedFrame /\ [Next]_vars => NoStrandedFrame'
  <2> SUFFICES ASSUME TypeOK, NoStrandedFrame, [Next]_vars
               PROVE  NoStrandedFrame'
    OBVIOUS
  <2>0. /\ pc \in [Threads -> Steps] /\ WorkQueue \in Threads
        /\ count \in Nat /\ Depth \in Nat
    BY DepthAssumption DEF TypeOK, Threads
  <2> USE DEF NoStrandedFrame, Flushing, FlushSteps, Goto,
              linkVars, ringVars, pushVars, radioVars, histVars
  <2>1. ASSUME NEW t \in Threads, BeginPush(t) PROVE NoStrandedFrame'
    BY <2>0, <2>1 DEF BeginPush
  <2>2. ASSUME NEW t \in Threads, Enqueue(t) PROVE NoStrandedFrame'
    BY <2>0, <2>2 DEF Enqueue
  <2>3. ASSUME NEW t \in Threads, AssistFlush(t) PROVE NoStrandedFrame'
    BY <2>0, <2>3 DEF AssistFlush, EnterFlush
  <2>4. ASSUME NEW t \in Threads, EndPush(t) PROVE NoStrandedFrame'
    BY <2>0, <2>4 DEF EndPush, Schedule
  <2>5. ASSUME NEW t \in Threads, DropPush(t) PROVE NoStrandedFrame'
    BY <2>0, <2>5 DEF DropPush
  <2>6. ASSUME NEW t \in Threads, CheckReady(t) PROVE NoStrandedFrame'
    BY <2>0, <2>6 DEF CheckReady
  <2>7. ASSUME NEW t \in Threads, NotReady(t) PROVE NoStrandedFrame'
    BY <2>0, <2>7 DEF NotReady, LeaveFlush
  <2>8. ASSUME NEW t \in Threads, Pop(t) PROVE NoStrandedFrame'
    BY <2>0, <2>8 DEF Pop
  <2>9. ASSUME NEW t \in Threads, PopEmpty(t) PROVE NoStrandedFrame'
    BY <2>0, <2>9 DEF PopEmpty, LeaveFlush
  <2>10. ASSUME NEW t \in Threads, LockNotify(t) PROVE NoStrandedFrame'
    BY <2>0, <2>10 DEF LockNotify
  <2>11. ASSUME NEW t \in Threads, NotifyAccepted(t) PROVE NoStrandedFrame'
    BY <2>0, <2>11 DEF NotifyAccepted
  <2>12. ASSUME NEW t \in Threads, NotifyRetried(t) PROVE NoStrandedFrame'
    BY <2>0, <2>12 DEF NotifyRetried
  <2>13. ASSUME NEW t \in Threads, NotifyExhausted(t) PROVE NoStrandedFrame'
    BY <2>0, <2>13 DEF NotifyExhausted
  <2>14. ASSUME NEW t \in Threads, NotifyFailed(t) PROVE NoStrandedFrame'
    BY <2>0, <2>14 DEF NotifyFailed
  <2>15. ASSUME NEW t \in Threads, RequeueFront(t) PROVE NoStrandedFrame'
    BY <2>0, <2>15 DEF RequeueFront
  <2>16. ASSUME NEW t \in Threads, RequeueFull(t) PROVE NoStrandedFrame'
    BY <2>0, <2>16 DEF RequeueFull
  <2>17. ASSUME NEW t \in Threads, ScheduleRetry(t) PROVE NoStrandedFrame'
    BY <2>0, <2>17 DEF ScheduleRetry, Schedule
  <2>18. CASE StartFlush
    BY <2>0, <2>18 DEF StartFlush, EnterFlush
  <2>19. CASE TimerFires
    BY <2>0, <2>19 DEF TimerFires
  <2>20. CASE LinkStep
    BY <2>0, <2>20 DEF LinkStep, Connect, Subscription, Disconnect, Stop,
                       ClearRing, EmptyRing
  <2>21. CASE UNCHANGED vars
    BY <2>0, <2>21 DEF vars
  <2> QED
    BY <2>1, <2>2, <2>3, <2>4, <2>5, <2>6, <2>7, <2>8, <2>9, <2>10, <2>11,
       <2>12, <2>13, <2>14, <2>15, <2>16, <2>17, <2>18, <2>19, <2>20, <2>21
    DEF Next, ThreadStep
<1> QED
  BY <1>1, <1>2, TypeCorrect, PTL DEF Spec

-----------------------------------------------------------------------------
(* Every accepted frame is in exactly one place.                           *)

\* The queued frames fill count slots from head up to tail.
RingShape ==
  tail = IF head + count < Depth THEN head + count ELSE head + count - Depth

\* Frame numbers come from accepted frames only.
Numbered ==
  /\ \A i \in Queued : item[i].n \in 1 .. accepted
  /\ \A t \in Threads : hand[t].n \in 0 .. accepted
  /\ \A k \in DOMAIN sent : sent[k].n \in 1 .. accepted
  /\ lost \subseteq 1 .. accepted

\* No two places hold the same frame.
Distinct ==
  /\ \A i, j \in Queued : item[i].n = item[j].n => i = j
  /\ \A t, u \in Threads : hand[t].n = hand[u].n => t = u \/ hand[t].n = 0
  /\ \A j, k \in DOMAIN sent : sent[j].n = sent[k].n => j = k
  /\ \A i \in Queued : \A t \in Threads : item[i].n # hand[t].n
  /\ \A i \in Queued : \A k \in DOMAIN sent : item[i].n # sent[k].n
  /\ \A i \in Queued : item[i].n \notin lost
  /\ \A t \in Threads : \A k \in DOMAIN sent : hand[t].n # sent[k].n
  /\ \A t \in Threads : hand[t].n \notin lost
  /\ \A k \in DOMAIN sent : sent[k].n \notin lost

\* No accepted frame is nowhere.
Covered ==
  \A n \in 1 .. accepted : InRing(n) \/ InHand(n) \/ Delivered(n) \/ n \in lost

\* A flush holds a frame exactly between its pop and the frame's fate.
Holding(t) == pc[t] \in {"lock", "notify", "requeue"}
HandMatchesStep == \A t \in Threads : hand[t].n # 0 <=> Holding(t)

Places == RingShape /\ Numbered /\ Distinct /\ Covered

\* How the set of live slots changes.
LEMMA QueuedAfterPush ==
  ASSUME TypeOK, RingShape, count < Depth,
         head' = head, count' = count + 1, tail' = After(tail)
  PROVE  /\ tail \notin Queued
         /\ Queued' = Queued \cup {tail}
         /\ RingShape'
<1>1. /\ head \in Slots /\ tail \in Slots /\ count \in 0 .. Depth
      /\ Depth \in Nat \ {0}
  BY DepthAssumption DEF TypeOK
<1>2. tail' = IF tail = Depth - 1 THEN 0 ELSE tail + 1
  BY <1>1, AfterSlot
<1> QED
  BY <1>1, <1>2 DEF RingShape, Queued, Live, Slots

LEMMA QueuedAfterPop ==
  ASSUME TypeOK, RingShape, count > 0,
         head' = After(head), count' = count - 1, tail' = tail
  PROVE  /\ head \in Queued
         /\ Queued' = Queued \ {head}
         /\ RingShape'
<1>1. /\ head \in Slots /\ tail \in Slots /\ count \in 0 .. Depth
      /\ Depth \in Nat \ {0}
  BY DepthAssumption DEF TypeOK
<1>2. head' = IF head = Depth - 1 THEN 0 ELSE head + 1
  BY <1>1, AfterSlot
<1> QED
  BY <1>1, <1>2 DEF RingShape, Queued, Live, Slots

LEMMA QueuedAfterRequeue ==
  ASSUME TypeOK, RingShape, count < Depth,
         head' = Before(head), count' = count + 1, tail' = tail
  PROVE  /\ Before(head) \notin Queued
         /\ Queued' = Queued \cup {Before(head)}
         /\ RingShape'
<1>1. /\ head \in Slots /\ tail \in Slots /\ count \in 0 .. Depth
      /\ Depth \in Nat \ {0}
  BY DepthAssumption DEF TypeOK
<1>2. Before(head) = IF head = 0 THEN Depth - 1 ELSE head - 1
  BY <1>1, BeforeSlot
<1> QED
  BY <1>1, <1>2 DEF RingShape, Queued, Live, Slots

LEMMA QueuedAfterClear ==
  ASSUME head' = 0, count' = 0, tail' = 0
  PROVE  Queued' = {} /\ RingShape'
  BY DepthAssumption DEF RingShape, Queued, Live, Slots

\* A step that moves no frame keeps every frame in its place.
LEMMA PlacesUnmoved ==
  ASSUME Places, UNCHANGED <<head, tail, count, item, hand, accepted, sent, lost>>
  PROVE  Places'
  BY DEF Places, RingShape, Numbered, Distinct, Covered, InRing, InHand,
         Delivered, Queued, Live

\* wt_ble_outq_push puts the next number into a free slot.
LEMMA EnqueuePlaces ==
  ASSUME TypeOK, Places, NEW t \in Threads, Enqueue(t)
  PROVE  Places'
<1>1. /\ head' = head /\ count' = count + 1 /\ tail' = After(tail) /\ count < Depth
      /\ accepted' = accepted + 1
      /\ item' = [item EXCEPT ![tail] = [n |-> accepted + 1, s |-> from[t]]]
      /\ hand' = hand /\ sent' = sent /\ lost' = lost
  BY DEF Enqueue, Room, linkVars, ringVars, pushVars, radioVars
<1>2. tail \notin Queued /\ Queued' = Queued \cup {tail} /\ RingShape'
  BY <1>1, QueuedAfterPush DEF Places
<1>3. /\ tail \in Slots /\ Queued \subseteq Slots /\ accepted \in Nat
      /\ item \in [Slots -> Frame] /\ hand \in [Threads -> Frame]
  BY DEF TypeOK, Queued
<1>4. /\ item'[tail].n = accepted + 1
      /\ \A i \in Queued : item'[i] = item[i]
  BY <1>1, <1>2, <1>3
<1>5. Numbered'
  BY <1>1, <1>2, <1>3, <1>4 DEF Places, Numbered
<1>6. Distinct'
  BY <1>1, <1>2, <1>3, <1>4 DEF Places, Numbered, Distinct
<1>7. Covered'
  BY <1>1, <1>2, <1>3, <1>4 DEF Places, Covered, InRing, InHand, Delivered
<1> QED
  BY <1>2, <1>5, <1>6, <1>7 DEF Places

\* wt_ble_outq_pop moves the front frame to the flush's local copy.
LEMMA PopPlaces ==
  ASSUME TypeOK, Places, HandMatchesStep, NEW t \in Threads, Pop(t)
  PROVE  Places'
<1>1. /\ head' = After(head) /\ count' = count - 1 /\ tail' = tail /\ count > 0
      /\ item' = [item EXCEPT ![head] = NoFrame]
      /\ hand' = [hand EXCEPT ![t] = item[head]]
      /\ accepted' = accepted /\ sent' = sent /\ lost' = lost
      /\ pc[t] = "pop"
  BY DEF Pop, linkVars, ringVars, pushVars, radioVars, histVars
<1>2. head \in Queued /\ Queued' = Queued \ {head} /\ RingShape'
  BY <1>1, QueuedAfterPop DEF Places
<1>3. /\ head \in Slots /\ Queued \subseteq Slots /\ accepted \in Nat
      /\ item \in [Slots -> Frame] /\ hand \in [Threads -> Frame]
  BY DEF TypeOK, Queued
<1>4. /\ \A i \in Queued' : item'[i] = item[i]
      /\ hand'[t] = item[head]
      /\ \A u \in Threads \ {t} : hand'[u] = hand[u]
      /\ hand[t].n = 0
  BY <1>1, <1>2, <1>3 DEF HandMatchesStep, Holding
<1>5. Numbered'
  BY <1>1, <1>2, <1>3, <1>4 DEF Places, Numbered
<1>6. Distinct'
  BY <1>1, <1>2, <1>3, <1>4 DEF Places, Numbered, Distinct
<1>7. Covered'
  BY <1>1, <1>2, <1>3, <1>4 DEF Places, Covered, InRing, InHand, Delivered
<1> QED
  BY <1>2, <1>5, <1>6, <1>7 DEF Places

\* The stack takes the frame: it is delivered, now and only now.
LEMMA AcceptedPlaces ==
  ASSUME TypeOK, Places, HandMatchesStep, NEW t \in Threads, NotifyAccepted(t)
  PROVE  Places'
<1> DEFINE e == [n |-> hand[t].n, s |-> hand[t].s, to |-> conn]
<1>1. /\ UNCHANGED <<head, tail, count, item, accepted, lost>>
      /\ hand' = [hand EXCEPT ![t] = NoFrame]
      /\ sent' = Append(sent, e)
      /\ pc[t] = "notify"
  BY DEF NotifyAccepted, linkVars, ringVars, pushVars
<1>2. Queued' = Queued /\ RingShape'
  BY <1>1 DEF Places, RingShape, Queued, Live
<1>3. /\ accepted \in Nat /\ hand \in [Threads -> Frame]
      /\ sent \in Seq([n : Nat, s : Nat, to : Nat])
  BY DEF TypeOK
<1>4. /\ hand'[t].n = 0
      /\ \A u \in Threads \ {t} : hand'[u] = hand[u]
      /\ hand[t].n # 0
  BY <1>1, <1>3 DEF HandMatchesStep, Holding, NoFrame
<1>5. /\ DOMAIN sent' = DOMAIN sent \cup {Len(sent) + 1}
      /\ Len(sent) + 1 \notin DOMAIN sent
      /\ sent'[Len(sent) + 1] = e
      /\ \A k \in DOMAIN sent : sent'[k] = sent[k]
  <2>1. Len(sent) \in Nat /\ DOMAIN sent = 1 .. Len(sent)
    BY <1>3
  <2>2. Len(sent') = Len(sent) + 1 /\ DOMAIN sent' = 1 .. Len(sent) + 1
    BY <1>1, <1>3
  <2>3. sent'[Len(sent) + 1] = e
    BY <1>1, <1>3
  <2>4. \A k \in DOMAIN sent : sent'[k] = sent[k]
    BY <1>1, <1>3
  <2> QED
    BY <2>1, <2>2, <2>3, <2>4
<1>6. e.n = hand[t].n
  OBVIOUS
<1> HIDE DEF e
<1>7. Numbered'
  BY <1>1, <1>2, <1>3, <1>4, <1>5, <1>6 DEF Places, Numbered
<1>8. Distinct'
  <2>1. /\ \A i, j \in Queued' : item'[i].n = item'[j].n => i = j
        /\ \A i \in Queued' : \A u \in Threads : item'[i].n # hand'[u].n
        /\ \A i \in Queued' : item'[i].n \notin lost'
        /\ \A u \in Threads : hand'[u].n \notin lost'
    BY <1>1, <1>2, <1>3, <1>4 DEF Places, Numbered, Distinct
  <2>2. \A u, v \in Threads : hand'[u].n = hand'[v].n => u = v \/ hand'[u].n = 0
    BY <1>4 DEF Places, Distinct
  <2>3. \A k \in DOMAIN sent : sent[k].n # hand[t].n /\ sent[k].n # 0
    BY <1>3 DEF Places, Numbered, Distinct
  <2>4. \A j, k \in DOMAIN sent' : sent'[j].n = sent'[k].n => j = k
    BY <1>5, <1>6, <2>3 DEF Places, Distinct
  <2>5. \A i \in Queued' : \A k \in DOMAIN sent' : item'[i].n # sent'[k].n
    BY <1>1, <1>2, <1>5, <1>6 DEF Places, Distinct
  <2>6. \A u \in Threads : \A k \in DOMAIN sent' : hand'[u].n # sent'[k].n
    BY <1>4, <1>5, <1>6, <2>3 DEF Places, Distinct
  <2>7. \A k \in DOMAIN sent' : sent'[k].n \notin lost'
    BY <1>1, <1>5, <1>6 DEF Places, Distinct
  <2> QED
    BY <2>1, <2>2, <2>4, <2>5, <2>6, <2>7 DEF Distinct
<1>9. Covered'
  <2> SUFFICES ASSUME NEW n \in 1 .. accepted
               PROVE  (InRing(n) \/ InHand(n) \/ Delivered(n) \/ n \in lost)'
    BY <1>1 DEF Covered
  <2>1. CASE n = hand[t].n
    BY <2>1, <1>5, <1>6 DEF Delivered
  <2>2. CASE n # hand[t].n
    BY <2>2, <1>1, <1>2, <1>4, <1>5 DEF Places, Covered, InRing, InHand, Delivered
  <2> QED
    BY <2>1, <2>2
<1> QED
  BY <1>2, <1>7, <1>8, <1>9 DEF Places

\* A frame given up by a hard error or for want of room is counted lost.
LEMMA GivenUpPlaces ==
  ASSUME TypeOK, Places, HandMatchesStep, NEW t \in Threads,
         pc[t] \in {"notify", "requeue"},
         UNCHANGED <<head, tail, count, item, accepted, sent>>,
         hand' = [hand EXCEPT ![t] = NoFrame],
         lost' = lost \cup {hand[t].n}
  PROVE  Places'
<1>1. Queued' = Queued /\ RingShape'
  BY DEF Places, RingShape, Queued, Live
<1>2. accepted \in Nat /\ hand \in [Threads -> Frame]
  BY DEF TypeOK
<1>3. /\ hand'[t].n = 0
      /\ \A u \in Threads \ {t} : hand'[u] = hand[u]
      /\ hand[t].n # 0
  BY <1>2 DEF HandMatchesStep, Holding, NoFrame
<1>4. Numbered'
  <2>1. hand[t].n \in 1 .. accepted
    BY <1>2, <1>3 DEF Places, Numbered
  <2>2. lost' \subseteq 1 .. accepted'
    BY <2>1 DEF Places, Numbered
  <2> QED
    BY <1>1, <1>2, <1>3, <2>2 DEF Places, Numbered
<1>5. Distinct'
  BY <1>1, <1>2, <1>3 DEF Places, Numbered, Distinct
<1>6. Covered'
  BY <1>1, <1>2, <1>3 DEF Places, Covered, InRing, InHand, Delivered
<1> QED
  BY <1>1, <1>4, <1>5, <1>6 DEF Places

\* wt_ble_outq_requeue_front puts the held frame before the queued ones.
LEMMA RequeuePlaces ==
  ASSUME TypeOK, Places, HandMatchesStep, NEW t \in Threads, RequeueFront(t)
  PROVE  Places'
<1>1. /\ head' = Before(head) /\ count' = count + 1 /\ tail' = tail /\ count < Depth
      /\ item' = [item EXCEPT ![Before(head)] = hand[t]]
      /\ hand' = [hand EXCEPT ![t] = NoFrame]
      /\ accepted' = accepted /\ sent' = sent /\ lost' = lost
      /\ pc[t] = "requeue"
  BY DEF RequeueFront, PutFront, Room, linkVars, pushVars, radioVars, histVars
<1>2. Before(head) \notin Queued /\ Queued' = Queued \cup {Before(head)} /\ RingShape'
  BY <1>1, QueuedAfterRequeue DEF Places
<1>3. /\ Before(head) \in Slots /\ Queued \subseteq Slots /\ accepted \in Nat
      /\ item \in [Slots -> Frame] /\ hand \in [Threads -> Frame]
  BY BeforeSlot DEF TypeOK, Queued
<1>4. /\ item'[Before(head)] = hand[t]
      /\ \A i \in Queued : item'[i] = item[i]
      /\ hand'[t].n = 0
      /\ \A u \in Threads \ {t} : hand'[u] = hand[u]
      /\ hand[t].n # 0
  BY <1>1, <1>2, <1>3 DEF HandMatchesStep, Holding, NoFrame
<1>5. Numbered'
  BY <1>1, <1>2, <1>3, <1>4 DEF Places, Numbered
<1>6. Distinct'
  BY <1>1, <1>2, <1>3, <1>4 DEF Places, Numbered, Distinct
<1>7. Covered'
  BY <1>1, <1>2, <1>3, <1>4 DEF Places, Covered, InRing, InHand, Delivered
<1> QED
  BY <1>2, <1>5, <1>6, <1>7 DEF Places

\* wt_ble_outq_clear: the queued frames, and no others, become lost.
LEMMA ClearPlaces ==
  ASSUME TypeOK, Places, ClearRing
  PROVE  Places'
<1>1. /\ head' = 0 /\ tail' = 0 /\ count' = 0
      /\ lost' = lost \cup {item[i].n : i \in Queued}
      /\ hand' = hand /\ accepted' = accepted /\ sent' = sent
  BY DEF ClearRing, EmptyRing, radioVars, pushVars
<1>2. Queued' = {} /\ RingShape'
  BY <1>1, QueuedAfterClear
<1>3. Numbered'
  BY <1>1, <1>2 DEF Places, Numbered
<1>4. Distinct'
  BY <1>1, <1>2 DEF Places, Numbered, Distinct
<1>5. Covered'
  BY <1>1, <1>2 DEF Places, Covered, InRing, InHand, Delivered
<1> QED
  BY <1>2, <1>3, <1>4, <1>5 DEF Places
-----------------------------------------------------------------------------
\* The moment a flush holds a frame: from its pop to the frame's fate.
LEMMA HandStep ==
  ASSUME TypeOK, HandMatchesStep, NEW t \in Threads, ThreadStep(t),
         Places
  PROVE  HandMatchesStep'
<1>0. /\ pc \in [Threads -> Steps] /\ hand \in [Threads -> Frame]
      /\ accepted \in Nat /\ count \in Nat
  BY DepthAssumption DEF TypeOK
<1> USE DEF HandMatchesStep, Holding, Goto, FlushSteps,
            linkVars, ringVars, pushVars, radioVars, histVars
<1>1. CASE Enqueue(t)
  BY <1>0, <1>1 DEF Enqueue
<1>2. CASE AssistFlush(t)
  BY <1>0, <1>2 DEF AssistFlush, EnterFlush
<1>3. CASE EndPush(t)
  BY <1>0, <1>3 DEF EndPush
<1>4. CASE DropPush(t)
  BY <1>0, <1>4 DEF DropPush
<1>5. CASE CheckReady(t)
  BY <1>0, <1>5 DEF CheckReady
<1>6. CASE NotReady(t)
  BY <1>0, <1>6 DEF NotReady, LeaveFlush
<1>7. CASE Pop(t)
  <2>1. count > 0 /\ item[head].n # 0
    <3>1. /\ head' = After(head) /\ count' = count - 1 /\ tail' = tail /\ count > 0
      BY <1>7 DEF Pop
    <3>2. head \in Queued
      BY <3>1, QueuedAfterPop DEF Places
    <3> QED
      BY <1>0, <3>1, <3>2 DEF Places, Numbered
  <2> QED
    BY <1>0, <1>7, <2>1 DEF Pop
<1>8. CASE PopEmpty(t)
  BY <1>0, <1>8 DEF PopEmpty, LeaveFlush
<1>9. CASE LockNotify(t)
  BY <1>0, <1>9 DEF LockNotify
<1>10. CASE NotifyAccepted(t)
  BY <1>0, <1>10 DEF NotifyAccepted, NoFrame
<1>11. CASE NotifyRetried(t)
  BY <1>0, <1>11 DEF NotifyRetried
<1>12. CASE NotifyExhausted(t)
  BY <1>0, <1>12 DEF NotifyExhausted
<1>13. CASE NotifyFailed(t)
  BY <1>0, <1>13 DEF NotifyFailed, NoFrame
<1>14. CASE RequeueFront(t)
  BY <1>0, <1>14 DEF RequeueFront, NoFrame
<1>15. CASE RequeueFull(t)
  BY <1>0, <1>15 DEF RequeueFull, NoFrame
<1>16. CASE ScheduleRetry(t)
  BY <1>0, <1>16 DEF ScheduleRetry, LeaveFlush
<1> QED
  BY <1>1, <1>2, <1>3, <1>4, <1>5, <1>6, <1>7, <1>8, <1>9, <1>10, <1>11,
     <1>12, <1>13, <1>14, <1>15, <1>16 DEF ThreadStep

\* A thread's step keeps every frame in exactly one place.
LEMMA PlacesStep ==
  ASSUME TypeOK, Places, HandMatchesStep, NEW t \in Threads, ThreadStep(t)
  PROVE  Places'
<1>1. CASE Enqueue(t)
  BY <1>1, EnqueuePlaces
<1>2. CASE Pop(t)
  BY <1>2, PopPlaces
<1>3. CASE NotifyAccepted(t)
  BY <1>3, AcceptedPlaces
<1>4. CASE NotifyFailed(t)
  BY <1>4, GivenUpPlaces DEF NotifyFailed, linkVars, ringVars, pushVars
<1>5. CASE RequeueFront(t)
  BY <1>5, RequeuePlaces
<1>6. CASE RequeueFull(t)
  <2>1. /\ pc[t] = "requeue"
        /\ UNCHANGED <<head, tail, count, item, accepted, sent>>
        /\ hand' = [hand EXCEPT ![t] = NoFrame]
        /\ lost' = lost \cup {hand[t].n}
    BY <1>6 DEF RequeueFull
  <2> QED
    BY <2>1, GivenUpPlaces
<1>7. CASE AssistFlush(t) \/ EndPush(t) \/ DropPush(t) \/ CheckReady(t) \/ NotReady(t)
             \/ PopEmpty(t) \/ LockNotify(t) \/ NotifyRetried(t)
             \/ NotifyExhausted(t) \/ ScheduleRetry(t)
  <2>1. UNCHANGED <<head, tail, count, item, hand, accepted, sent, lost>>
    BY <1>7 DEF AssistFlush, EndPush, DropPush, CheckReady, NotReady, PopEmpty,
                LockNotify, NotifyRetried, NotifyExhausted, ScheduleRetry,
                linkVars, ringVars, pushVars, radioVars, histVars
  <2> QED
    BY <2>1, PlacesUnmoved
<1> QED
  BY <1>1, <1>2, <1>3, <1>4, <1>5, <1>6, <1>7 DEF ThreadStep

\* Every frame is in its place, and every hand matches its thread's step.
LEMMA PlacesHold == Spec => [](TypeOK /\ Places /\ HandMatchesStep)
<1> DEFINE IInv == Places /\ HandMatchesStep
<1>1. Init => IInv
  <2> SUFFICES ASSUME Init PROVE IInv
    OBVIOUS
  <2>1. Queued = {}
    BY DepthAssumption DEF Init, Queued, Live, Slots
  <2>2. RingShape
    BY DepthAssumption DEF Init, RingShape
  <2>3. \A t \in Threads : hand[t].n = 0 /\ pc[t] = "idle"
    BY DEF Init, NoFrame
  <2>4. accepted = 0 /\ DOMAIN sent = {} /\ lost = {}
    BY DEF Init
  <2> QED
    BY <2>1, <2>2, <2>3, <2>4
    DEF Places, Numbered, Distinct, Covered, HandMatchesStep, Holding
<1>2. TypeOK /\ IInv /\ [Next]_vars => IInv'
  <2> SUFFICES ASSUME TypeOK, IInv, [Next]_vars PROVE IInv'
    OBVIOUS
  <2> USE DEF linkVars, ringVars, pushVars, radioVars, histVars
  <2>1. ASSUME NEW t \in Threads, ThreadStep(t) PROVE IInv'
    BY <2>1, PlacesStep, HandStep
  <2>2. ASSUME NEW t \in Threads, BeginPush(t) PROVE IInv'
    BY <2>2, PlacesUnmoved
    DEF BeginPush, TypeOK, HandMatchesStep, Holding, Goto
  <2>3. CASE StartFlush
    <3>1. WorkQueue \in Threads /\ pc \in [Threads -> Steps]
      BY DEF TypeOK, Threads
    <3> QED
      BY <2>3, <3>1, PlacesUnmoved
      DEF StartFlush, EnterFlush, HandMatchesStep, Holding, Goto
  <2>4. CASE ClearRing
    <3>1. hand' = hand /\ pc' = pc
      BY <2>4 DEF ClearRing
    <3> QED
      BY <2>4, <3>1, ClearPlaces DEF HandMatchesStep, Holding
  <2>5. CASE TimerFires \/ Connect \/ (\E on \in BOOLEAN : Subscription(on))
               \/ Disconnect \/ Stop \/ UNCHANGED vars
    <3>1. UNCHANGED <<head, tail, count, item, hand, accepted, sent, lost, pc>>
      BY <2>5 DEF TimerFires, Connect, Subscription, Disconnect, Stop, vars
    <3> QED
      BY <3>1, PlacesUnmoved DEF HandMatchesStep, Holding
  <2> QED
    BY <2>1, <2>2, <2>3, <2>4, <2>5 DEF Next, LinkStep
<1> QED
  BY <1>1, <1>2, TypeCorrect, PTL DEF Spec

\* Frames are never duplicated and never lost without trace, for any number of
\* producers and any ring depth.
THEOREM FramesAccounted == Spec => []FrameAccounted
<1>1. Places => FrameAccounted
  BY DEF Places, Numbered, Distinct, Covered, FrameAccounted, InRing, InHand,
         Delivered
<1> QED
  BY <1>1, PlacesHold, PTL

-----------------------------------------------------------------------------
(* The queue keeps the promises of the ledger.                             *)

Pending == {n \in 1 .. accepted : InRing(n) \/ InHand(n)}
DeliveredFrames == {sent[i].n : i \in DOMAIN sent}

\* The ledger's step, on the queue's variables.
LedgerStep ==
  \/ /\ accepted' = accepted + 1 /\ Pending' = Pending \cup {accepted + 1}
     /\ DeliveredFrames' = DeliveredFrames /\ lost' = lost
  \/ \E n \in Pending :
       /\ Pending' = Pending \ {n} /\ DeliveredFrames' = DeliveredFrames \cup {n}
       /\ accepted' = accepted /\ lost' = lost
  \/ \E ns \in SUBSET Pending :
       /\ ns # {} /\ Pending' = Pending \ ns /\ lost' = lost \cup ns
       /\ accepted' = accepted /\ DeliveredFrames' = DeliveredFrames
  \/ /\ Pending' = Pending /\ DeliveredFrames' = DeliveredFrames
     /\ accepted' = accepted /\ lost' = lost

\* A step that moves no frame leaves the ledger as it is.
LEMMA LedgerUnmoved ==
  ASSUME UNCHANGED <<head, count, item, hand, accepted, sent, lost>>
  PROVE  LedgerStep
BY DEF LedgerStep, Pending, DeliveredFrames, InRing, InHand, Queued, Live

\* wt_ble_outq_push: the frame is accepted.
LEMMA EnqueueLedger ==
  ASSUME TypeOK, Places, NEW t \in Threads, Enqueue(t)
  PROVE  LedgerStep
<1>1. /\ head' = head /\ count' = count + 1 /\ tail' = After(tail) /\ count < Depth
      /\ accepted' = accepted + 1
      /\ item' = [item EXCEPT ![tail] = [n |-> accepted + 1, s |-> from[t]]]
      /\ hand' = hand /\ sent' = sent /\ lost' = lost
  BY DEF Enqueue, Room, linkVars, ringVars, pushVars, radioVars
<1>2. tail \notin Queued /\ Queued' = Queued \cup {tail}
  BY <1>1, QueuedAfterPush DEF Places
<1>3. /\ tail \in Slots /\ Queued \subseteq Slots /\ accepted \in Nat
      /\ item \in [Slots -> Frame]
  BY DEF TypeOK, Queued
<1>4. item'[tail].n = accepted + 1 /\ \A i \in Queued : item'[i] = item[i]
  BY <1>1, <1>2, <1>3
<1>5. \A n : InRing(n)' <=> InRing(n) \/ n = accepted + 1
  BY <1>2, <1>4 DEF InRing
<1>6. \A n : InHand(n)' <=> InHand(n)
  BY <1>1 DEF InHand
<1>7. 1 .. accepted + 1 = (1 .. accepted) \cup {accepted + 1}
  BY <1>3
<1>8. Pending' = Pending \cup {accepted + 1}
  <2>1. ~InHand(accepted + 1)
    BY <1>3 DEF Places, Numbered, InHand
  <2> QED BY <1>1, <1>5, <1>6, <1>7 DEF Pending
<1> QED BY <1>1, <1>8 DEF LedgerStep, DeliveredFrames

\* wt_ble_outq_pop and _requeue_front only move a pending frame.
LEMMA MoveLedger ==
  ASSUME TypeOK, Places, HandMatchesStep, NEW t \in Threads,
         Pop(t) \/ RequeueFront(t)
  PROVE  LedgerStep
<1>1. accepted' = accepted /\ sent' = sent /\ lost' = lost
  BY DEF Pop, RequeueFront, histVars
<1>2. /\ Queued \subseteq Slots /\ accepted \in Nat
      /\ item \in [Slots -> Frame] /\ hand \in [Threads -> Frame]
  BY DEF TypeOK, Queued
<1>3. ASSUME NEW n \in 1 .. accepted
      PROVE  (InRing(n) \/ InHand(n))' <=> InRing(n) \/ InHand(n)
  <2>1. CASE Pop(t)
    <3>1. /\ head' = After(head) /\ count' = count - 1 /\ tail' = tail /\ count > 0
          /\ item' = [item EXCEPT ![head] = NoFrame]
          /\ hand' = [hand EXCEPT ![t] = item[head]]
          /\ pc[t] = "pop"
      BY <2>1 DEF Pop
    <3>2. head \in Queued /\ Queued' = Queued \ {head}
      BY <3>1, QueuedAfterPop DEF Places
    <3>3. hand[t].n = 0
      BY <1>2, <3>1 DEF HandMatchesStep, Holding
    <3> QED BY <1>2, <3>1, <3>2, <3>3 DEF InRing, InHand
  <2>2. CASE RequeueFront(t)
    <3>1. /\ head' = Before(head) /\ count' = count + 1 /\ tail' = tail /\ count < Depth
          /\ item' = [item EXCEPT ![Before(head)] = hand[t]]
          /\ hand' = [hand EXCEPT ![t] = NoFrame]
      BY <2>2 DEF RequeueFront, PutFront, Room
    <3>2. Before(head) \notin Queued /\ Queued' = Queued \cup {Before(head)}
      BY <3>1, QueuedAfterRequeue DEF Places
    <3>3. Before(head) \in Slots
      BY BeforeSlot DEF TypeOK
    <3>4. /\ item'[Before(head)] = hand[t]
          /\ \A i \in Queued : item'[i] = item[i]
          /\ hand'[t].n = 0
          /\ \A u \in Threads \ {t} : hand'[u] = hand[u]
      BY <1>2, <3>1, <3>2, <3>3 DEF NoFrame
    <3> QED BY <1>2, <3>2, <3>4 DEF InRing, InHand
  <2> QED BY <2>1, <2>2
<1>4. Pending' = Pending
  BY <1>1, <1>3 DEF Pending
<1> QED BY <1>1, <1>4 DEF LedgerStep, DeliveredFrames

\* The stack takes the held frame, which is delivered, or it is given up.
LEMMA FateLedger ==
  ASSUME TypeOK, Places, HandMatchesStep, NEW t \in Threads,
         NotifyAccepted(t) \/ NotifyFailed(t) \/ RequeueFull(t)
  PROVE  LedgerStep
<1> DEFINE m == hand[t].n
<1>1. /\ UNCHANGED <<head, tail, count, item, accepted>>
      /\ hand' = [hand EXCEPT ![t] = NoFrame]
      /\ pc[t] \in {"notify", "requeue"}
  BY DEF NotifyAccepted, NotifyFailed, RequeueFull, linkVars, ringVars, pushVars
<1>2. accepted \in Nat /\ hand \in [Threads -> Frame]
  BY DEF TypeOK
<1>3. m \in 1 .. accepted
  BY <1>1, <1>2 DEF HandMatchesStep, Holding, Places, Numbered
<1>4. /\ hand'[t].n = 0
      /\ \A u \in Threads \ {t} : hand'[u] = hand[u]
      /\ \A u \in Threads \ {t} : hand[u].n # m
  BY <1>1, <1>2, <1>3 DEF NoFrame, Places, Distinct
<1> HIDE DEF m
<1>5. \A n : InRing(n)' <=> InRing(n)
  BY <1>1 DEF InRing, Queued, Live
<1>6. ~InRing(m) /\ InHand(m)
  BY DEF Places, Distinct, InRing, InHand, m
<1>7. \A n \in 1 .. accepted : InHand(n)' <=> InHand(n) /\ n # m
  BY <1>3, <1>4 DEF InHand, m
<1>8. m \in Pending /\ Pending' = Pending \ {m}
  BY <1>1, <1>3, <1>5, <1>6, <1>7 DEF Pending
<1>9. CASE NotifyAccepted(t)
  <2>1. sent' = Append(sent, [n |-> m, s |-> hand[t].s, to |-> conn]) /\ lost' = lost
    BY <1>9 DEF NotifyAccepted, m
  <2>2. sent \in Seq([n : Nat, s : Nat, to : Nat])
    BY DEF TypeOK
  <2>3. /\ DOMAIN sent' = DOMAIN sent \cup {Len(sent) + 1}
        /\ sent'[Len(sent) + 1].n = m
        /\ \A k \in DOMAIN sent : sent'[k] = sent[k]
    <3>1. Len(sent) \in Nat /\ DOMAIN sent = 1 .. Len(sent)
      BY <2>2
    <3>2. DOMAIN sent' = 1 .. Len(sent) + 1 /\ \A k \in 1 .. Len(sent) : sent'[k] = sent[k]
      BY <2>1, <2>2
    <3>3. sent'[Len(sent) + 1] = [n |-> m, s |-> hand[t].s, to |-> conn]
      BY <2>1, <2>2
    <3> QED BY <3>1, <3>2, <3>3
  <2>4. DeliveredFrames' = DeliveredFrames \cup {m}
    BY <2>3 DEF DeliveredFrames
  <2> QED BY <1>1, <1>8, <2>1, <2>4 DEF LedgerStep
<1>10. CASE NotifyFailed(t) \/ RequeueFull(t)
  <2>1. lost' = lost \cup {m} /\ sent' = sent
    BY <1>10 DEF NotifyFailed, RequeueFull, m
  <2>2. {m} \in SUBSET Pending /\ {m} # {} /\ DeliveredFrames' = DeliveredFrames
    BY <1>8, <2>1 DEF DeliveredFrames
  <2> QED BY <1>1, <1>8, <2>1, <2>2 DEF LedgerStep
<1> QED BY <1>9, <1>10

\* wt_ble_outq_clear gives up what is queued.
LEMMA ClearLedger ==
  ASSUME TypeOK, Places, ClearRing
  PROVE  LedgerStep
<1> DEFINE ns == {item[i].n : i \in Queued}
<1>1. /\ head' = 0 /\ tail' = 0 /\ count' = 0 /\ lost' = lost \cup ns
      /\ hand' = hand /\ accepted' = accepted /\ sent' = sent
  BY DEF ClearRing, EmptyRing, radioVars, pushVars
<1>2. Queued' = {}
  BY <1>1, QueuedAfterClear
<1>3. \A n : (n \in ns <=> InRing(n)) /\ ~InRing(n)' /\ (InHand(n)' <=> InHand(n))
  BY <1>1, <1>2 DEF InRing, InHand
<1>4. ns \subseteq 1 .. accepted /\ \A n \in ns : ~InHand(n)
  BY DEF Places, Numbered, Distinct, InHand
<1>5. DeliveredFrames' = DeliveredFrames
  BY <1>1 DEF DeliveredFrames
<1> HIDE DEF ns
<1>6. ns \subseteq Pending /\ Pending' = Pending \ ns
  BY <1>1, <1>3, <1>4 DEF Pending
<1> QED BY <1>1, <1>5, <1>6 DEF LedgerStep

\* BleOutq implements OutqLedger: in every step of the queue at most one of a
\* frame's acceptance, its delivery or the loss of pending frames happens, and
\* nothing delivered or lost comes back (struct wt_ble_outq and its callers).
THEOREM LedgerImplemented == Spec => ImplementsLedger
<1>1. Init => Ledger!Init
  BY DEF Init, Ledger!Init, InRing, InHand, NoFrame
<1>2. TypeOK /\ Places /\ HandMatchesStep /\ [Next]_vars => [Ledger!Next]_Ledger!ledger
  <2> SUFFICES ASSUME TypeOK, Places, HandMatchesStep, [Next]_vars
               PROVE  LedgerStep
    BY DEF LedgerStep, Ledger!Next, Ledger!ledger, Ledger!Accept, Ledger!Deliver,
           Ledger!Lose, Pending, DeliveredFrames
  <2>1. ASSUME NEW t \in Threads, ThreadStep(t) PROVE LedgerStep
    <3>1. CASE Enqueue(t)
      BY <3>1, EnqueueLedger
    <3>2. CASE Pop(t) \/ RequeueFront(t)
      BY <3>2, MoveLedger
    <3>3. CASE NotifyAccepted(t) \/ NotifyFailed(t) \/ RequeueFull(t)
      BY <3>3, FateLedger
    <3>4. CASE AssistFlush(t) \/ EndPush(t) \/ DropPush(t) \/ CheckReady(t) \/ NotReady(t)
                 \/ PopEmpty(t) \/ LockNotify(t) \/ NotifyRetried(t)
                 \/ NotifyExhausted(t) \/ ScheduleRetry(t)
      BY <3>4, LedgerUnmoved
      DEF AssistFlush, EndPush, DropPush, CheckReady, NotReady, PopEmpty,
          LockNotify, NotifyRetried, NotifyExhausted, ScheduleRetry,
          linkVars, ringVars, pushVars, radioVars, histVars
    <3> QED BY <2>1, <3>1, <3>2, <3>3, <3>4 DEF ThreadStep
  <2>2. CASE ClearRing
    BY <2>2, ClearLedger
  <2>3. ASSUME NEW t \in Threads, BeginPush(t) PROVE LedgerStep
    BY <2>3, LedgerUnmoved DEF BeginPush, ringVars, histVars
  <2>4. CASE StartFlush \/ TimerFires \/ Connect \/ (\E on \in BOOLEAN : Subscription(on))
               \/ Disconnect \/ Stop \/ UNCHANGED vars
    BY <2>4, LedgerUnmoved
    DEF StartFlush, TimerFires, Connect, Subscription, Disconnect, Stop, vars,
        linkVars, ringVars, pushVars, radioVars, histVars
  <2> QED BY <2>1, <2>2, <2>3, <2>4 DEF Next, LinkStep
<1> QED
  BY <1>1, <1>2, PlacesHold, PTL DEF Spec, ImplementsLedger, Ledger!Spec

-----------------------------------------------------------------------------
(* The order of delivery.                                                  *)

\* The place of a slot in the queue, counted from its head.
Rank(i) == IF head <= i THEN i - head ELSE i + Depth - head

\* Until two threads have flushed at the same time one flush at most is under
\* way, and what was sent, what it holds and what is queued are in the order
\* of their acceptance.
OneFlusher == \A t, u \in Threads : Flushing(t) /\ Flushing(u) => t = u
QueueOrdered == \A i, j \in Queued : Rank(i) < Rank(j) => item[i].n < item[j].n
SentOrdered == \A j, k \in DOMAIN sent : j < k => sent[j].n < sent[k].n
SentBeforeQueue == \A i \in Queued : \A k \in DOMAIN sent : sent[k].n < item[i].n
HandBetween ==
  \A t \in Threads : hand[t].n # 0 =>
    /\ \A k \in DOMAIN sent : sent[k].n < hand[t].n
    /\ \A i \in Queued : hand[t].n < item[i].n
InOrder ==
  ~overlapped => /\ OneFlusher /\ QueueOrdered /\ SentOrdered
                 /\ SentBeforeQueue /\ HandBetween

\* Only one thread can hold a frame while flushes do not overlap.
LEMMA OneHolder ==
  ASSUME OneFlusher, HandMatchesStep, NEW t \in Threads, Flushing(t)
  PROVE  \A u \in Threads \ {t} : hand[u].n = 0
BY DEF OneFlusher, HandMatchesStep, Holding, Flushing, FlushSteps

\* How a slot's place in the queue changes.
LEMMA RankOfTail ==
  ASSUME TypeOK, RingShape, count < Depth
  PROVE  Rank(tail) = count /\ \A i \in Queued : Rank(i) < count
<1>1. /\ head \in Slots /\ tail \in Slots /\ count \in 0 .. Depth
      /\ Depth \in Nat \ {0}
  BY DepthAssumption DEF TypeOK
<1> QED
  BY <1>1 DEF Rank, RingShape, Queued, Live, Slots

LEMMA RankAfterPop ==
  ASSUME TypeOK, RingShape, count > 0, head' = After(head)
  PROVE  \A i \in Queued \ {head} : Rank(head) < Rank(i) /\ Rank(i)' = Rank(i) - 1
<1>1. /\ head \in Slots /\ tail \in Slots /\ count \in 0 .. Depth
      /\ Depth \in Nat \ {0}
  BY DepthAssumption DEF TypeOK
<1>2. head' = IF head = Depth - 1 THEN 0 ELSE head + 1
  BY <1>1, AfterSlot
<1> QED
  BY <1>1, <1>2 DEF Rank, Queued, Live, Slots

LEMMA RankAfterRequeue ==
  ASSUME TypeOK, RingShape, count < Depth, head' = Before(head)
  PROVE  /\ \A f \in Slots : f = Before(head) => Rank(f)' = 0
         /\ \A i \in Queued : Rank(i)' = Rank(i) + 1 /\ Rank(i) >= 0
<1>1. /\ head \in Slots /\ tail \in Slots /\ count \in 0 .. Depth
      /\ Depth \in Nat \ {0}
  BY DepthAssumption DEF TypeOK
<1>2. Before(head) = IF head = 0 THEN Depth - 1 ELSE head - 1
  BY <1>1, BeforeSlot
<1> QED
  BY <1>1, <1>2 DEF Rank, Queued, Live, Slots

\* A step that moves no frame and starts no flush keeps the order.
LEMMA OrderUnmoved ==
  ASSUME InOrder, UNCHANGED <<head, tail, count, item, hand, sent, overlapped>>,
         \A t \in Threads : Flushing(t)' => Flushing(t)
  PROVE  InOrder'
BY DEF InOrder, OneFlusher, QueueOrdered, SentOrdered, SentBeforeQueue,
       HandBetween, Rank, Queued, Live

\* wt_ble_outq_flush is entered: by the only thread in it, or overlapping.
LEMMA EnterOrder ==
  ASSUME TypeOK, InOrder, NEW t \in Threads, EnterFlush(t),
         UNCHANGED <<head, tail, count, item, hand, sent>>
  PROVE  InOrder'
<1> SUFFICES ASSUME ~overlapped' PROVE InOrder'
  BY DEF InOrder
<1>1. ~overlapped /\ \A u \in Threads \ {t} : ~Flushing(u)
  BY DEF EnterFlush
<1>2. \A u \in Threads \ {t} : ~Flushing(u)'
  BY <1>1 DEF EnterFlush, Goto, Flushing, TypeOK
<1> QED
  BY <1>1, <1>2 DEF InOrder, OneFlusher, QueueOrdered, SentOrdered,
     SentBeforeQueue, HandBetween, Rank, Queued, Live

\* wt_ble_outq_push appends the newest frame.
LEMMA EnqueueOrder ==
  ASSUME TypeOK, Places, InOrder, NEW t \in Threads, Enqueue(t)
  PROVE  InOrder'
<1>1. /\ head' = head /\ count' = count + 1 /\ tail' = After(tail) /\ count < Depth
      /\ item' = [item EXCEPT ![tail] = [n |-> accepted + 1, s |-> from[t]]]
      /\ hand' = hand /\ sent' = sent /\ overlapped' = overlapped
      /\ pc' = [pc EXCEPT ![t] = "schedule"]
  BY DEF Enqueue, Room, Goto, linkVars, ringVars, pushVars, radioVars
<1>2. tail \notin Queued /\ Queued' = Queued \cup {tail}
  BY <1>1, QueuedAfterPush DEF Places
<1>3. /\ tail \in Slots /\ Queued \subseteq Slots /\ accepted \in Nat
      /\ item \in [Slots -> Frame] /\ hand \in [Threads -> Frame]
      /\ pc \in [Threads -> Steps] /\ head \in Int /\ Depth \in Int
      /\ Slots \subseteq Int /\ count \in Int
  BY DepthAssumption DEF TypeOK, Queued, Slots
<1>4. /\ item'[tail].n = accepted + 1
      /\ \A i \in Queued : item'[i] = item[i]
  BY <1>1, <1>2, <1>3
<1>5. Rank(tail) = count /\ \A i \in Queued : Rank(i) < count
  BY <1>1, RankOfTail DEF Places
<1>6. \A i \in Slots : Rank(i)' = Rank(i) /\ Rank(i) \in Int
  BY <1>1, <1>3 DEF Rank
<1>7. \A u \in Threads : Flushing(u)' => Flushing(u)
  BY <1>1, <1>3 DEF Flushing, FlushSteps
<1>8. /\ \A i \in Queued : item[i].n \in 1 .. accepted
      /\ \A u \in Threads : hand[u].n \in 0 .. accepted
      /\ \A k \in DOMAIN sent : sent[k].n \in 1 .. accepted
  BY DEF Places, Numbered
<1> SUFFICES ASSUME ~overlapped PROVE (/\ OneFlusher /\ QueueOrdered /\ SentOrdered
                                       /\ SentBeforeQueue /\ HandBetween)'
  BY <1>1 DEF InOrder
<1>9. OneFlusher'
  BY <1>7 DEF InOrder, OneFlusher
<1>10. QueueOrdered'
  <2> SUFFICES ASSUME NEW i \in Queued', NEW j \in Queued', Rank(i)' < Rank(j)'
               PROVE  item'[i].n < item'[j].n
    BY DEF QueueOrdered
  <2>1. CASE i \in Queued /\ j \in Queued
    BY <2>1, <1>3, <1>4, <1>6 DEF InOrder, QueueOrdered
  <2>2. CASE i \in Queued /\ j = tail
    BY <2>2, <1>3, <1>4, <1>8
  <2>3. CASE i = tail
    BY <2>3, <1>2, <1>3, <1>5, <1>6
  <2> QED BY <2>1, <2>2, <2>3, <1>2
<1>11. SentOrdered' /\ SentBeforeQueue' /\ HandBetween'
  BY <1>1, <1>2, <1>3, <1>4, <1>8
  DEF InOrder, SentOrdered, SentBeforeQueue, HandBetween
<1> QED BY <1>9, <1>10, <1>11

\* wt_ble_outq_pop takes the oldest frame.
LEMMA PopOrder ==
  ASSUME TypeOK, Places, HandMatchesStep, InOrder, NEW t \in Threads, Pop(t)
  PROVE  InOrder'
<1>1. /\ head' = After(head) /\ count' = count - 1 /\ tail' = tail /\ count > 0
      /\ item' = [item EXCEPT ![head] = NoFrame]
      /\ hand' = [hand EXCEPT ![t] = item[head]]
      /\ sent' = sent /\ overlapped' = overlapped
      /\ pc[t] = "pop" /\ pc' = [pc EXCEPT ![t] = "lock"]
  BY DEF Pop, Goto, linkVars, ringVars, pushVars, radioVars, histVars
<1>2. head \in Queued /\ Queued' = Queued \ {head}
  BY <1>1, QueuedAfterPop DEF Places
<1>3. /\ head \in Slots /\ Queued \subseteq Slots /\ Slots \subseteq Int
      /\ item \in [Slots -> Frame] /\ hand \in [Threads -> Frame]
      /\ pc \in [Threads -> Steps] /\ Depth \in Int
  BY DepthAssumption DEF TypeOK, Queued, Slots
<1>4. /\ \A i \in Queued' : item'[i] = item[i]
      /\ hand'[t] = item[head]
      /\ \A u \in Threads \ {t} : hand'[u] = hand[u]
  BY <1>1, <1>2, <1>3
<1>5. \A i \in Queued' : Rank(head) < Rank(i) /\ Rank(i)' = Rank(i) - 1
  BY <1>1, <1>2, RankAfterPop DEF Places
<1>6. \A i \in Slots : Rank(i) \in Int
  BY <1>3 DEF Rank
<1>7. \A u \in Threads : Flushing(u)' <=> Flushing(u)
  BY <1>1, <1>3 DEF Flushing, FlushSteps
<1> SUFFICES ASSUME ~overlapped PROVE (/\ OneFlusher /\ QueueOrdered /\ SentOrdered
                                       /\ SentBeforeQueue /\ HandBetween)'
  BY <1>1 DEF InOrder
<1>8. OneFlusher'
  BY <1>7 DEF InOrder, OneFlusher
<1>9. \A u \in Threads \ {t} : hand[u].n = 0
  BY <1>1, OneHolder DEF InOrder, Flushing, FlushSteps
<1>10. QueueOrdered'
  BY <1>2, <1>3, <1>4, <1>5, <1>6 DEF InOrder, QueueOrdered
<1>11. SentOrdered' /\ SentBeforeQueue'
  BY <1>1, <1>2, <1>4 DEF InOrder, SentOrdered, SentBeforeQueue
<1>12. HandBetween'
  BY <1>1, <1>2, <1>4, <1>5, <1>9
  DEF InOrder, QueueOrdered, SentBeforeQueue, HandBetween
<1> QED BY <1>8, <1>10, <1>11, <1>12

\* The stack takes the held frame, which is younger than all it has taken.
LEMMA AcceptedOrder ==
  ASSUME TypeOK, HandMatchesStep, InOrder, NEW t \in Threads, NotifyAccepted(t)
  PROVE  InOrder'
<1> DEFINE e == [n |-> hand[t].n, s |-> hand[t].s, to |-> conn]
<1>1. /\ UNCHANGED <<head, tail, count, item, overlapped>>
      /\ hand' = [hand EXCEPT ![t] = NoFrame]
      /\ sent' = Append(sent, e)
      /\ pc[t] = "notify" /\ pc' = [pc EXCEPT ![t] = "ready"]
  BY DEF NotifyAccepted, Goto, linkVars, ringVars, pushVars
<1>2. /\ hand \in [Threads -> Frame] /\ pc \in [Threads -> Steps]
      /\ sent \in Seq([n : Nat, s : Nat, to : Nat])
  BY DEF TypeOK
<1>3. /\ Len(sent) \in Nat /\ DOMAIN sent = 1 .. Len(sent)
      /\ DOMAIN sent' = 1 .. Len(sent) + 1
      /\ sent'[Len(sent) + 1].n = hand[t].n
      /\ \A k \in DOMAIN sent : sent'[k] = sent[k]
  <2>1. Len(sent) \in Nat /\ DOMAIN sent = 1 .. Len(sent)
    BY <1>2
  <2>2. DOMAIN sent' = 1 .. Len(sent) + 1
    BY <1>1, <1>2
  <2>3. sent'[Len(sent) + 1] = e
    BY <1>1, <1>2
  <2>4. \A k \in DOMAIN sent : sent'[k] = sent[k]
    BY <1>1, <1>2
  <2> QED
    BY <2>1, <2>2, <2>3, <2>4
<1> HIDE DEF e
<1>4. /\ Queued' = Queued /\ hand'[t].n = 0 /\ hand[t].n # 0
      /\ \A i \in Queued : Rank(i)' = Rank(i)
  BY <1>1, <1>2 DEF Queued, Live, Rank, HandMatchesStep, Holding, NoFrame
<1>5. \A u \in Threads : Flushing(u)' <=> Flushing(u)
  BY <1>1, <1>2 DEF Flushing, FlushSteps
<1> SUFFICES ASSUME ~overlapped PROVE (/\ OneFlusher /\ QueueOrdered /\ SentOrdered
                                       /\ SentBeforeQueue /\ HandBetween)'
  BY <1>1 DEF InOrder
<1>6. \A u \in Threads : hand'[u].n = 0
  <2>1. \A u \in Threads \ {t} : hand[u].n = 0
    BY <1>1, OneHolder DEF InOrder, Flushing, FlushSteps
  <2> QED BY <1>1, <1>2, <1>4, <2>1
<1>7. OneFlusher' /\ QueueOrdered' /\ HandBetween'
  BY <1>1, <1>4, <1>5, <1>6 DEF InOrder, OneFlusher, QueueOrdered, HandBetween
<1>8. SentOrdered'
  BY <1>3, <1>4 DEF InOrder, SentOrdered, HandBetween
<1>9. SentBeforeQueue'
  BY <1>1, <1>3, <1>4 DEF InOrder, SentBeforeQueue, HandBetween
<1> QED BY <1>7, <1>8, <1>9

\* wt_ble_outq_requeue_front: the held frame is older than all queued ones.
LEMMA RequeueOrder ==
  ASSUME TypeOK, Places, HandMatchesStep, InOrder, NEW t \in Threads, RequeueFront(t)
  PROVE  InOrder'
<1>1. /\ head' = Before(head) /\ count' = count + 1 /\ tail' = tail /\ count < Depth
      /\ item' = [item EXCEPT ![Before(head)] = hand[t]]
      /\ hand' = [hand EXCEPT ![t] = NoFrame]
      /\ sent' = sent /\ overlapped' = overlapped
      /\ pc[t] = "requeue" /\ pc' = [pc EXCEPT ![t] = "retry"]
  BY DEF RequeueFront, PutFront, Room, Goto, linkVars, pushVars, radioVars, histVars
<1>2. Before(head) \notin Queued /\ Queued' = Queued \cup {Before(head)}
  BY <1>1, QueuedAfterRequeue DEF Places
<1>3. /\ Before(head) \in Slots /\ Queued \subseteq Slots /\ Slots \subseteq Int
      /\ item \in [Slots -> Frame] /\ hand \in [Threads -> Frame]
      /\ pc \in [Threads -> Steps] /\ Depth \in Int /\ head \in Int
  BY BeforeSlot, DepthAssumption DEF TypeOK, Queued, Slots
<1>4. /\ item'[Before(head)] = hand[t]
      /\ \A i \in Queued : item'[i] = item[i]
      /\ hand'[t].n = 0 /\ hand[t].n # 0
      /\ \A u \in Threads \ {t} : hand'[u] = hand[u]
  BY <1>1, <1>2, <1>3 DEF HandMatchesStep, Holding, NoFrame
<1>5. /\ \A f \in Slots : f = Before(head) => Rank(f)' = 0
      /\ \A i \in Queued : Rank(i)' = Rank(i) + 1 /\ Rank(i) >= 0
  BY <1>1, RankAfterRequeue DEF Places
<1>6. \A i \in Slots : Rank(i) \in Int
  BY <1>3 DEF Rank
<1>7. \A u \in Threads : Flushing(u)' <=> Flushing(u)
  BY <1>1, <1>3 DEF Flushing, FlushSteps
<1> SUFFICES ASSUME ~overlapped PROVE (/\ OneFlusher /\ QueueOrdered /\ SentOrdered
                                       /\ SentBeforeQueue /\ HandBetween)'
  BY <1>1 DEF InOrder
<1>8. OneFlusher'
  BY <1>7 DEF InOrder, OneFlusher
<1>9. \A u \in Threads : hand'[u].n = 0
  <2>1. \A u \in Threads \ {t} : hand[u].n = 0
    BY <1>1, OneHolder DEF InOrder, Flushing, FlushSteps
  <2> QED BY <1>4, <2>1
<1>10. QueueOrdered'
  <2> SUFFICES ASSUME NEW i \in Queued', NEW j \in Queued', Rank(i)' < Rank(j)'
               PROVE  item'[i].n < item'[j].n
    BY DEF QueueOrdered
  <2>0. \A k \in Queued : Rank(k) \in Int
    BY <1>3, <1>6
  <2>1. CASE i \in Queued /\ j \in Queued
    <3>1. Rank(i) < Rank(j)
      BY <2>0, <2>1, <1>5
    <3> QED BY <3>1, <2>1, <1>4 DEF InOrder, QueueOrdered
  <2>2. CASE i = Before(head) /\ j \in Queued
    BY <2>2, <1>4 DEF InOrder, HandBetween
  <2>3. CASE j = Before(head)
    <3>1. CASE i \in Queued
      <4>1. Rank(j)' = 0 /\ Rank(i)' > 0
        BY <2>0, <2>3, <3>1, <1>3, <1>5
      <4> QED BY <4>1, <2>0, <3>1, <1>5
    <3>2. CASE i = Before(head)
      <4>1. Rank(j)' = 0 /\ Rank(i)' = 0
        BY <2>3, <3>2, <1>3, <1>5
      <4> QED BY <4>1
    <3> QED BY <3>1, <3>2, <1>2
  <2> QED BY <2>1, <2>2, <2>3, <1>2
<1>11. SentOrdered' /\ SentBeforeQueue' /\ HandBetween'
  BY <1>1, <1>2, <1>4, <1>9
  DEF InOrder, SentOrdered, SentBeforeQueue, HandBetween
<1> QED BY <1>8, <1>10, <1>11

\* A frame given up, or a ring cleared, leaves the others in order.
LEMMA GivenUpOrder ==
  ASSUME TypeOK, InOrder, NEW t \in Threads, NotifyFailed(t) \/ RequeueFull(t)
  PROVE  InOrder'
<1>1. /\ UNCHANGED <<head, tail, count, item, overlapped, sent>>
      /\ hand' = [hand EXCEPT ![t] = NoFrame]
      /\ pc[t] \in FlushSteps
      /\ pc' = [pc EXCEPT ![t] = "ready"] \/ pc' = [pc EXCEPT ![t] = "retry"]
  BY DEF NotifyFailed, RequeueFull, Goto, FlushSteps, linkVars, ringVars, pushVars
<1>2. hand \in [Threads -> Frame] /\ pc \in [Threads -> Steps]
  BY DEF TypeOK
<1>3. hand'[t].n = 0 /\ \A u \in Threads \ {t} : hand'[u] = hand[u]
  BY <1>1, <1>2 DEF NoFrame
<1>4. \A u \in Threads : Flushing(u)' <=> Flushing(u)
  BY <1>1, <1>2 DEF Flushing, FlushSteps
<1>5. Queued' = Queued /\ \A i : Rank(i)' = Rank(i)
  BY <1>1 DEF Queued, Live, Rank
<1> QED
  BY <1>1, <1>3, <1>4, <1>5 DEF InOrder, OneFlusher, QueueOrdered, SentOrdered,
     SentBeforeQueue, HandBetween

LEMMA ClearOrder ==
  ASSUME InOrder, ClearRing
  PROVE  InOrder'
<1>1. /\ head' = 0 /\ tail' = 0 /\ count' = 0
      /\ hand' = hand /\ sent' = sent /\ pc' = pc /\ overlapped' = overlapped
  BY DEF ClearRing, EmptyRing
<1>2. Queued' = {}
  BY <1>1, QueuedAfterClear
<1> QED
  BY <1>1, <1>2 DEF InOrder, OneFlusher, QueueOrdered, SentOrdered,
     SentBeforeQueue, HandBetween, Flushing

\* While no push runs the flush beside another one (a full ring in
\* wt_ble_outq_push), the stack gets the frames in the order the ring accepted
\* them, whatever is requeued, cleared or reconnected on the way.
THEOREM OneFlusherKeepsOrder == Spec => []FifoWithOneFlusher
<1>1. Init => InOrder
  <2> SUFFICES ASSUME Init PROVE InOrder
    OBVIOUS
  <2>1. Queued = {}
    BY DepthAssumption DEF Init, Queued, Live, Slots
  <2>2. \A t \in Threads : hand[t].n = 0 /\ ~Flushing(t)
    BY DEF Init, NoFrame, Flushing, FlushSteps
  <2>3. DOMAIN sent = {}
    BY DEF Init
  <2> QED
    BY <2>1, <2>2, <2>3 DEF InOrder, OneFlusher, QueueOrdered, SentOrdered,
       SentBeforeQueue, HandBetween
<1>2. TypeOK /\ Places /\ HandMatchesStep /\ InOrder /\ [Next]_vars => InOrder'
  <2> SUFFICES ASSUME TypeOK, Places, HandMatchesStep, InOrder, [Next]_vars
               PROVE  InOrder'
    OBVIOUS
  <2>0. pc \in [Threads -> Steps] /\ WorkQueue \in Threads
    BY DEF TypeOK, Threads
  <2> USE DEF linkVars, ringVars, pushVars, radioVars, histVars
  <2>1. ASSUME NEW t \in Threads, ThreadStep(t) PROVE InOrder'
    <3>1. CASE Enqueue(t)
      BY <3>1, EnqueueOrder
    <3>2. CASE Pop(t)
      BY <3>2, PopOrder
    <3>3. CASE NotifyAccepted(t)
      BY <3>3, AcceptedOrder
    <3>4. CASE RequeueFront(t)
      BY <3>4, RequeueOrder
    <3>5. CASE NotifyFailed(t) \/ RequeueFull(t)
      BY <3>5, GivenUpOrder
    <3>6. CASE AssistFlush(t)
      BY <3>6, EnterOrder DEF AssistFlush
    <3>7. CASE EndPush(t) \/ DropPush(t) \/ CheckReady(t) \/ NotReady(t)
                 \/ PopEmpty(t) \/ LockNotify(t) \/ NotifyRetried(t)
                 \/ NotifyExhausted(t) \/ ScheduleRetry(t)
      <4>1. UNCHANGED <<head, tail, count, item, hand, sent, overlapped>>
        BY <3>7 DEF EndPush, DropPush, CheckReady, NotReady, PopEmpty, LockNotify,
                    NotifyRetried, NotifyExhausted, ScheduleRetry
      <4>2. \A u \in Threads : Flushing(u)' => Flushing(u)
        BY <2>0, <3>7 DEF EndPush, DropPush, CheckReady, NotReady, PopEmpty,
           LockNotify, NotifyRetried, NotifyExhausted, ScheduleRetry, LeaveFlush,
           Goto, Flushing, FlushSteps
      <4> QED BY <4>1, <4>2, OrderUnmoved
    <3> QED BY <2>1, <3>1, <3>2, <3>3, <3>4, <3>5, <3>6, <3>7 DEF ThreadStep
  <2>2. ASSUME NEW t \in Threads, BeginPush(t) PROVE InOrder'
    <3>1. \A u \in Threads : Flushing(u)' => Flushing(u)
      BY <2>0, <2>2 DEF BeginPush, Goto, Flushing, FlushSteps
    <3> QED BY <2>2, <3>1, OrderUnmoved DEF BeginPush
  <2>3. CASE StartFlush
    BY <2>0, <2>3, EnterOrder DEF StartFlush
  <2>4. CASE ClearRing
    BY <2>4, ClearOrder
  <2>5. CASE TimerFires \/ Connect \/ (\E on \in BOOLEAN : Subscription(on))
               \/ Disconnect \/ Stop \/ UNCHANGED vars
    <3>1. UNCHANGED <<head, tail, count, item, hand, sent, overlapped, pc>>
      BY <2>5 DEF TimerFires, Connect, Subscription, Disconnect, Stop, vars
    <3> QED
      BY <3>1, OrderUnmoved DEF Flushing
  <2> QED
    BY <2>1, <2>2, <2>3, <2>4, <2>5 DEF Next, LinkStep
<1>3. InOrder => FifoWithOneFlusher
  BY DEF InOrder, SentOrdered, FifoWithOneFlusher
<1> QED
  BY <1>1, <1>2, <1>3, PlacesHold, PTL DEF Spec

-----------------------------------------------------------------------------
(* No frame goes to a later connection.                                    *)

\* A thread is outside a push exactly when it counts no pass of push's loop.
AttemptMatchesStep ==
  \A t \in Threads :
    /\ pc[t] = "idle" => attempt[t] = 0
    /\ pc[t] \in {"enqueue", "schedule", "drop"} => attempt[t] # 0

\* Until a connection has ended under a push or a flush, every frame anywhere
\* short of the client belongs to the present connection.
Fresh ==
  ~interrupted =>
    /\ \A t \in Threads : attempt[t] # 0 => conn # 0 /\ from[t] = conn
    /\ \A t \in Threads : hand[t].n # 0 => conn # 0 /\ hand[t].s = conn
    /\ \A i \in Queued : conn # 0 /\ item[i].s = conn
    /\ \A k \in DOMAIN sent : sent[k].s = sent[k].to

\* A step that moves no frame, leaves every push where it is and keeps the
\* connection keeps the frames fresh.
LEMMA FreshUnmoved ==
  ASSUME Fresh, UNCHANGED <<head, count, item, hand, sent, interrupted, conn, from>>,
         \A t \in Threads : attempt'[t] # 0 => attempt[t] # 0
  PROVE  Fresh'
BY DEF Fresh, Queued, Live

\* The pass of push's loop follows the thread's step.
LEMMA AttemptStep ==
  ASSUME TypeOK, AttemptMatchesStep, NEW t \in Threads, ThreadStep(t)
  PROVE  AttemptMatchesStep' /\ \A u \in Threads : attempt'[u] # 0 => attempt[u] # 0
<1>1. pc \in [Threads -> Steps] /\ attempt \in [Threads -> 0 .. 2]
  BY DEF TypeOK
<1> USE DEF AttemptMatchesStep, Goto, linkVars, ringVars, pushVars, radioVars, histVars
<1>2. CASE EndPush(t) \/ DropPush(t)
  BY <1>1, <1>2 DEF EndPush, DropPush
<1>3. CASE NotReady(t) \/ PopEmpty(t) \/ ScheduleRetry(t)
  BY <1>1, <1>3 DEF NotReady, PopEmpty, ScheduleRetry, LeaveFlush
<1>4. CASE Enqueue(t)
  BY <1>1, <1>4 DEF Enqueue
<1>5. CASE AssistFlush(t) \/ CheckReady(t) \/ Pop(t) \/ LockNotify(t)
             \/ NotifyAccepted(t) \/ NotifyRetried(t) \/ NotifyExhausted(t)
             \/ NotifyFailed(t) \/ RequeueFront(t) \/ RequeueFull(t)
  <2>1. attempt' = attempt
    BY <1>5 DEF AssistFlush, CheckReady, Pop, LockNotify, NotifyAccepted, NotifyRetried,
       NotifyExhausted, NotifyFailed, RequeueFront, RequeueFull
  <2>2. pc' = pc \/ \E step \in FlushSteps : pc' = [pc EXCEPT ![t] = step]
    BY <1>5 DEF AssistFlush, EnterFlush, CheckReady, Pop, LockNotify, NotifyAccepted,
       NotifyRetried, NotifyExhausted, NotifyFailed, RequeueFront, RequeueFull, FlushSteps
  <2> QED BY <1>1, <2>1, <2>2 DEF FlushSteps
<1> QED BY <1>2, <1>3, <1>4, <1>5 DEF ThreadStep

\* A push enqueues for the connection it was admitted under.
LEMMA EnqueueFresh ==
  ASSUME TypeOK, Places, AttemptMatchesStep, Fresh, NEW t \in Threads, Enqueue(t)
  PROVE  Fresh'
<1>1. /\ head' = head /\ count' = count + 1 /\ tail' = After(tail) /\ count < Depth
      /\ item' = [item EXCEPT ![tail] = [n |-> accepted + 1, s |-> from[t]]]
      /\ UNCHANGED <<hand, sent, interrupted, conn, attempt, from>>
      /\ pc[t] = "enqueue"
  BY DEF Enqueue, Room, linkVars, pushVars
<1>2. tail \notin Queued /\ Queued' = Queued \cup {tail}
  BY <1>1, QueuedAfterPush DEF Places
<1>3. /\ tail \in Slots /\ Queued \subseteq Slots /\ item \in [Slots -> Frame]
      /\ attempt[t] # 0
  BY <1>1 DEF TypeOK, Queued, AttemptMatchesStep
<1>4. item'[tail].s = from[t] /\ \A i \in Queued : item'[i] = item[i]
  BY <1>1, <1>2, <1>3
<1> QED BY <1>1, <1>2, <1>3, <1>4 DEF Fresh

\* A frame popped, put back, given up or delivered stays on its connection.
LEMMA FlushFresh ==
  ASSUME TypeOK, Places, HandMatchesStep, Fresh, NEW t \in Threads,
         \/ Pop(t) \/ NotifyAccepted(t) \/ NotifyFailed(t)
         \/ RequeueFront(t) \/ RequeueFull(t)
  PROVE  Fresh'
<1>1. UNCHANGED <<interrupted, conn, attempt, from>>
  BY DEF Pop, NotifyAccepted, NotifyFailed, RequeueFront, RequeueFull, linkVars,
         pushVars, histVars
<1>2. /\ hand \in [Threads -> Frame] /\ item \in [Slots -> Frame]
      /\ Queued \subseteq Slots /\ head \in Slots
  BY DEF TypeOK, Queued
<1>3. CASE Pop(t)
  <2>1. /\ head' = After(head) /\ count' = count - 1 /\ tail' = tail /\ count > 0
        /\ item' = [item EXCEPT ![head] = NoFrame]
        /\ hand' = [hand EXCEPT ![t] = item[head]] /\ sent' = sent
    BY <1>3 DEF Pop, histVars
  <2>2. head \in Queued /\ Queued' = Queued \ {head}
    BY <2>1, QueuedAfterPop DEF Places
  <2> QED BY <1>1, <1>2, <2>1, <2>2 DEF Fresh
<1>4. CASE NotifyAccepted(t)
  <2>1. /\ UNCHANGED <<head, count, item>> /\ pc[t] = "notify"
        /\ hand' = [hand EXCEPT ![t] = NoFrame]
        /\ sent' = Append(sent, [n |-> hand[t].n, s |-> hand[t].s, to |-> conn])
    BY <1>4 DEF NotifyAccepted, ringVars
  <2>2. hand'[t].n = 0 /\ hand[t].n # 0 /\ \A u \in Threads \ {t} : hand'[u] = hand[u]
    BY <1>2, <2>1 DEF NoFrame, HandMatchesStep, Holding
  <2>3. Queued' = Queued
    BY <2>1 DEF Queued, Live
  <2>4. \A k \in DOMAIN sent' :
          \/ k \in DOMAIN sent /\ sent'[k] = sent[k]
          \/ sent'[k] = [n |-> hand[t].n, s |-> hand[t].s, to |-> conn]
    <3>1. sent \in Seq([n : Nat, s : Nat, to : Nat])
      BY DEF TypeOK
    <3> QED BY <2>1, <3>1
  <2>5. ASSUME ~interrupted, NEW k \in DOMAIN sent' PROVE sent'[k].s = sent'[k].to
    <3>1. CASE k \in DOMAIN sent /\ sent'[k] = sent[k]
      BY <2>5, <3>1 DEF Fresh
    <3>2. CASE sent'[k] = [n |-> hand[t].n, s |-> hand[t].s, to |-> conn]
      BY <2>5, <3>2, <2>2 DEF Fresh
    <3> QED BY <2>4, <3>1, <3>2
  <2> QED BY <1>1, <2>1, <2>2, <2>3, <2>5 DEF Fresh
<1>5. CASE NotifyFailed(t) \/ RequeueFull(t)
  <2>1. /\ UNCHANGED <<head, count, item, sent>>
        /\ hand' = [hand EXCEPT ![t] = NoFrame]
    BY <1>5 DEF NotifyFailed, RequeueFull, ringVars
  <2> QED BY <1>1, <1>2, <2>1 DEF Fresh, NoFrame, Queued, Live
<1>6. CASE RequeueFront(t)
  <2>1. /\ head' = Before(head) /\ count' = count + 1 /\ tail' = tail /\ count < Depth
        /\ item' = [item EXCEPT ![Before(head)] = hand[t]] /\ pc[t] = "requeue"
        /\ hand' = [hand EXCEPT ![t] = NoFrame] /\ sent' = sent
    BY <1>6 DEF RequeueFront, PutFront, Room, histVars
  <2>2. Before(head) \notin Queued /\ Queued' = Queued \cup {Before(head)}
    BY <2>1, QueuedAfterRequeue DEF Places
  <2>3. Before(head) \in Slots
    BY <1>2, BeforeSlot
  <2>4. /\ item'[Before(head)] = hand[t] /\ \A i \in Queued : item'[i] = item[i]
        /\ hand'[t].n = 0 /\ hand[t].n # 0
        /\ \A u \in Threads \ {t} : hand'[u] = hand[u]
    BY <1>2, <2>1, <2>2, <2>3 DEF NoFrame, HandMatchesStep, Holding
  <2> QED BY <1>1, <2>1, <2>2, <2>4 DEF Fresh
<1> QED BY <1>3, <1>4, <1>5, <1>6

\* ble_disconnected empties the ring; with no thread under way nothing else
\* remembers the connection that ended.
LEMMA ClearFresh ==
  ASSUME TypeOK, HandMatchesStep, AttemptMatchesStep, Fresh, ClearRing
  PROVE  Fresh'
<1>1. /\ head' = 0 /\ tail' = 0 /\ count' = 0
      /\ UNCHANGED <<hand, sent, attempt, from>>
      /\ conn' = IF clearing = "disconnect" THEN 0 ELSE conn
      /\ interrupted' = (interrupted \/ /\ clearing = "disconnect"
                                        /\ \E t \in Threads : pc[t] # "idle")
  BY DEF ClearRing, EmptyRing, pushVars
<1>2. Queued' = {}
  BY <1>1, QueuedAfterClear
<1>3. CASE clearing # "disconnect"
  BY <1>1, <1>2, <1>3 DEF Fresh
<1>4. CASE clearing = "disconnect"
  <2>1. ~interrupted' => \A t \in Threads : attempt[t] = 0 /\ hand[t].n = 0
    BY <1>1, <1>4 DEF AttemptMatchesStep, HandMatchesStep, Holding
  <2> QED BY <1>1, <1>2, <2>1 DEF Fresh
<1> QED BY <1>3, <1>4

\* A client only receives frames whose push was admitted on its own connection,
\* as long as no connection has ended between the steps of a push or a flush
\* (ble_disconnected and wt_ble_outq_clear).
THEOREM NoFrameCrossesConnections == Spec => []NoStaleFrame
<1> DEFINE IInv == AttemptMatchesStep /\ Fresh
<1>1. Init => IInv
  <2> SUFFICES ASSUME Init PROVE IInv
    OBVIOUS
  <2>1. Queued = {}
    BY DepthAssumption DEF Init, Queued, Live, Slots
  <2> QED
    BY <2>1 DEF Init, AttemptMatchesStep, Fresh, NoFrame
<1>2. TypeOK /\ Places /\ HandMatchesStep /\ IInv /\ [Next]_vars => IInv'
  <2> SUFFICES ASSUME TypeOK, Places, HandMatchesStep, IInv, [Next]_vars
               PROVE  IInv'
    OBVIOUS
  <2>0. /\ pc \in [Threads -> Steps] /\ attempt \in [Threads -> 0 .. 2]
        /\ from \in [Threads -> Nat] /\ WorkQueue \in Threads /\ conn \in Nat
    BY DEF TypeOK, Threads
  <2> USE DEF linkVars, ringVars, pushVars, radioVars, histVars
  <2>1. ASSUME NEW t \in Threads, ThreadStep(t) PROVE IInv'
    <3>1. AttemptMatchesStep' /\ \A u \in Threads : attempt'[u] # 0 => attempt[u] # 0
      BY <2>1, AttemptStep
    <3>2. CASE Enqueue(t)
      BY <3>1, <3>2, EnqueueFresh
    <3>3. CASE \/ Pop(t) \/ NotifyAccepted(t) \/ NotifyFailed(t)
               \/ RequeueFront(t) \/ RequeueFull(t)
      BY <3>1, <3>3, FlushFresh
    <3>4. CASE EndPush(t) \/ DropPush(t)
      <4>1. /\ UNCHANGED <<head, count, item, hand, sent, interrupted, conn>>
            /\ attempt' = [attempt EXCEPT ![t] = 0] /\ from' = [from EXCEPT ![t] = 0]
        BY <3>4 DEF EndPush, DropPush
      <4> QED BY <2>0, <3>1, <4>1 DEF Fresh, Queued, Live
    <3>5. CASE AssistFlush(t) \/ CheckReady(t) \/ NotReady(t)
                 \/ PopEmpty(t) \/ LockNotify(t) \/ NotifyRetried(t)
                 \/ NotifyExhausted(t) \/ ScheduleRetry(t)
      <4>1. UNCHANGED <<head, count, item, hand, sent, interrupted, conn, from>>
        BY <3>5 DEF AssistFlush, CheckReady, NotReady, PopEmpty, LockNotify,
                    NotifyRetried, NotifyExhausted, ScheduleRetry
      <4> QED BY <3>1, <4>1, FreshUnmoved
    <3> QED BY <2>1, <3>2, <3>3, <3>4, <3>5 DEF ThreadStep
  <2>2. ASSUME NEW t \in Threads, BeginPush(t) PROVE IInv'
    <3>1. /\ UNCHANGED <<head, count, item, hand, sent, interrupted, conn>>
          /\ attempt' = [attempt EXCEPT ![t] = 1] /\ from' = [from EXCEPT ![t] = conn]
          /\ pc' = [pc EXCEPT ![t] = "enqueue"] /\ conn # 0
      BY <2>2 DEF BeginPush, Ready, Goto
    <3>2. AttemptMatchesStep'
      BY <2>0, <3>1 DEF AttemptMatchesStep
    <3>3. Fresh'
      BY <2>0, <3>1 DEF Fresh, Queued, Live
    <3> QED BY <3>2, <3>3
  <2>3. CASE StartFlush
    <3>1. /\ UNCHANGED <<head, count, item, hand, sent, interrupted, conn, from, attempt>>
          /\ pc' = [pc EXCEPT ![WorkQueue] = "ready"]
      BY <2>3 DEF StartFlush, EnterFlush, Goto
    <3>2. AttemptMatchesStep'
      BY <2>0, <3>1 DEF AttemptMatchesStep
    <3> QED BY <3>1, <3>2, FreshUnmoved
  <2>4. CASE ClearRing
    <3>1. AttemptMatchesStep'
      BY <2>4 DEF ClearRing, AttemptMatchesStep
    <3> QED BY <2>4, <3>1, ClearFresh
  <2>5. CASE Connect
    <3>1. /\ UNCHANGED <<head, count, item, hand, sent, interrupted, pc, from, attempt>>
          /\ conn = 0
      BY <2>5 DEF Connect
    <3> QED BY <3>1 DEF AttemptMatchesStep, Fresh, Queued, Live
  <2>6. CASE TimerFires \/ (\E on \in BOOLEAN : Subscription(on))
               \/ Disconnect \/ Stop \/ UNCHANGED vars
    <3>1. UNCHANGED <<head, count, item, hand, sent, interrupted, conn, pc, from, attempt>>
      BY <2>6 DEF TimerFires, Subscription, Disconnect, Stop, vars
    <3> QED
      BY <3>1, FreshUnmoved DEF AttemptMatchesStep
  <2> QED
    BY <2>1, <2>2, <2>3, <2>4, <2>5, <2>6 DEF Next, LinkStep
<1>3. IInv => NoStaleFrame
  BY DEF Fresh, NoStaleFrame
<1> QED
  BY <1>1, <1>2, <1>3, PlacesHold, PTL DEF Spec
=============================================================================
