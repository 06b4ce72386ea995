--------------------------- MODULE WifiLinkProofs ---------------------------
(***************************************************************************)
(* Theorems about WifiLink, for any number of callers, commands, faults    *)
(* and any capacity of the event queue: wifi_context agrees with the       *)
(* stack, an off that meets no preparation takes the interface down, and   *)
(* a preparation that begins when no news is on its way is ended only by   *)
(* its own report or by a failure.                                         *)
(***************************************************************************)
EXTENDS WifiLink, TLAPS

\* UpAfter with the flag and the queue as parameters.
Up(c, q, i) ==
  \/ c /\ \A j \in 1 .. i : q[j] \notin LinkNews
  \/ \E j \in 1 .. i :
       q[j] = "connected" /\ \A k \in j + 1 .. i : q[k] \notin LinkNews

Ordered(c, q) ==
  \A i \in 1 .. Len(q) :
    /\ q[i] \in {"connected", "failed"} => ~Up(c, q, i - 1)
    /\ q[i] \in {"left", "bound"} => Up(c, q, i - 1)

\* What one event makes of an association.
UpWith(c, e) == IF e \in LinkNews THEN e = "connected" ELSE c

-----------------------------------------------------------------------------
(* The queue.                                                              *)

\* An event posted changes nothing before it, and then counts itself.
LEMMA Posted ==
  ASSUME NEW c \in BOOLEAN, NEW q \in Seq(EventKinds), NEW e \in EventKinds
  PROVE  /\ \A i \in 0 .. Len(q) : Up(c, Append(q, e), i) = Up(c, q, i)
         /\ Up(c, Append(q, e), Len(q) + 1) = UpWith(Up(c, q, Len(q)), e)
<1> DEFINE p == Append(q, e)
<1>1. Len(p) = Len(q) + 1 /\ p[Len(q) + 1] = e
  OBVIOUS
<1>2. \A i \in 1 .. Len(q) : p[i] = q[i]
  OBVIOUS
<1>3. \A i \in 0 .. Len(q) : Up(c, p, i) = Up(c, q, i)
  BY <1>2 DEF Up
<1>4. Up(c, p, Len(q) + 1) = UpWith(Up(c, q, Len(q)), e)
  <2> DEFINE n == Len(q)
  <2>1. n \in Nat
    OBVIOUS
  <2>2. CASE e \in LinkNews
    <3>1. ASSUME NEW j \in 1 .. n
          PROVE  \E k \in j + 1 .. n + 1 : p[k] \in LinkNews
      BY <1>1, <2>1, <2>2
    <3>2. \E j \in 1 .. n + 1 : p[j] \in LinkNews
      BY <1>1, <2>1, <2>2
    <3>3. Up(c, p, n + 1) = (p[n + 1] = "connected")
      <4> HIDE DEF p, n
      <4>1. ASSUME Up(c, p, n + 1) PROVE p[n + 1] = "connected"
        <5>1. PICK j \in 1 .. n + 1 :
                p[j] = "connected" /\ \A k \in j + 1 .. n + 1 : p[k] \notin LinkNews
          BY <3>2, <4>1 DEF Up
        <5>2. j \notin 1 .. n
          BY <3>1, <5>1
        <5> QED BY <2>1, <5>1, <5>2
      <4>2. ASSUME p[n + 1] = "connected" PROVE Up(c, p, n + 1)
        <5>1. n + 1 \in 1 .. n + 1 /\ (n + 1) + 1 .. n + 1 = {}
          BY <2>1
        <5> QED BY <4>2, <5>1 DEF Up
      <4>3. Up(c, p, n + 1) \in BOOLEAN
        BY DEF Up
      <4> QED BY <4>1, <4>2, <4>3
    <3> QED BY <1>1, <2>2, <3>3 DEF UpWith
  <2>3. CASE e \notin LinkNews
    <3>1. Up(c, p, n + 1) = Up(c, p, n)
      BY <1>1, <2>1, <2>3 DEF Up, LinkNews
    <3> QED BY <1>3, <2>1, <2>3, <3>1 DEF UpWith
  <2> QED BY <2>2, <2>3
<1> QED BY <1>3, <1>4

\* Handling the first event moves the flag to where that event leads.
LEMMA Handled ==
  ASSUME NEW c \in BOOLEAN, NEW q \in Seq(EventKinds), q # <<>>
  PROVE  \A i \in 0 .. Len(q) - 1 :
           Up(UpWith(c, Head(q)), Tail(q), i) = Up(c, q, i + 1)
<1> DEFINE d == UpWith(c, Head(q))
           t == Tail(q)
<1>1. /\ Len(q) \in Nat \ {0} /\ Len(t) = Len(q) - 1
      /\ Head(q) = q[1] /\ \A i \in 1 .. Len(t) : t[i] = q[i + 1]
  OBVIOUS
<1> SUFFICES ASSUME NEW i \in 0 .. Len(q) - 1
             PROVE  Up(d, t, i) = Up(c, q, i + 1)
  OBVIOUS
<1> HIDE DEF t
<1>2. (\A j \in 2 .. i + 1 : q[j] \notin LinkNews)
        = (\A j \in 1 .. i : t[j] \notin LinkNews)
  <2>1. ASSUME \A j \in 2 .. i + 1 : q[j] \notin LinkNews, NEW j \in 1 .. i
        PROVE  t[j] \notin LinkNews
    BY <1>1, <2>1
  <2>2. ASSUME \A j \in 1 .. i : t[j] \notin LinkNews, NEW j \in 2 .. i + 1
        PROVE  q[j] \notin LinkNews
    <3>1. j - 1 \in 1 .. i /\ t[j - 1] = q[j]
      BY <1>1
    <3> QED BY <2>2, <3>1
  <2> QED BY <2>1, <2>2
<1> DEFINE Last(s, j, n) ==
      s[j] = "connected" /\ \A k \in j + 1 .. n : s[k] \notin LinkNews
<1>3. \A j \in 1 .. i : Last(t, j, i) = Last(q, j + 1, i + 1)
  <2> SUFFICES ASSUME NEW j \in 1 .. i
               PROVE  Last(t, j, i) = Last(q, j + 1, i + 1)
    OBVIOUS
  <2>1. t[j] = q[j + 1]
    BY <1>1
  <2>2. ASSUME \A k \in j + 1 .. i : t[k] \notin LinkNews, NEW k \in j + 2 .. i + 1
        PROVE  q[k] \notin LinkNews
    <3>1. k - 1 \in j + 1 .. i /\ t[k - 1] = q[k]
      BY <1>1
    <3> QED BY <2>2, <3>1
  <2>3. ASSUME \A k \in j + 2 .. i + 1 : q[k] \notin LinkNews, NEW k \in j + 1 .. i
        PROVE  t[k] \notin LinkNews
    <3>1. k + 1 \in j + 2 .. i + 1 /\ t[k] = q[k + 1]
      BY <1>1
    <3> QED BY <2>3, <3>1
  <2> QED BY <2>1, <2>2, <2>3
<1>4. (\E j \in 2 .. i + 1 : Last(q, j, i + 1)) = (\E j \in 1 .. i : Last(t, j, i))
  <2>1. ASSUME NEW j \in 2 .. i + 1, Last(q, j, i + 1)
        PROVE  \E m \in 1 .. i : Last(t, m, i)
    <3>1. j - 1 \in 1 .. i /\ (j - 1) + 1 = j
      OBVIOUS
    <3>2. Last(t, j - 1, i)
      <4> HIDE DEF Last
      <4> QED BY <1>3, <2>1, <3>1
    <3> HIDE DEF Last
    <3> QED BY <3>1, <3>2
  <2>2. ASSUME NEW j \in 1 .. i, Last(t, j, i)
        PROVE  \E m \in 2 .. i + 1 : Last(q, m, i + 1)
    <3>1. j + 1 \in 2 .. i + 1
      OBVIOUS
    <3> HIDE DEF Last
    <3> QED BY <1>3, <2>2, <3>1
  <2> HIDE DEF Last
  <2> QED BY <2>1, <2>2
<1>5. Up(c, q, i + 1)
        = \/ c /\ q[1] \notin LinkNews /\ \A j \in 2 .. i + 1 : q[j] \notin LinkNews
          \/ q[1] = "connected" /\ \A j \in 2 .. i + 1 : q[j] \notin LinkNews
          \/ \E j \in 2 .. i + 1 : Last(q, j, i + 1)
  <2>1. 1 .. i + 1 = {1} \cup 2 .. i + 1
    OBVIOUS
  <2>2. (\A j \in 1 .. i + 1 : q[j] \notin LinkNews)
          = (q[1] \notin LinkNews /\ \A j \in 2 .. i + 1 : q[j] \notin LinkNews)
    BY <2>1
  <2>3. (\E j \in 1 .. i + 1 : Last(q, j, i + 1))
          = (Last(q, 1, i + 1) \/ \E j \in 2 .. i + 1 : Last(q, j, i + 1))
    <3> HIDE DEF Last
    <3> QED BY <2>1
  <2>4. Last(q, 1, i + 1)
          = (q[1] = "connected" /\ \A j \in 2 .. i + 1 : q[j] \notin LinkNews)
    OBVIOUS
  <2> QED BY <2>2, <2>3, <2>4 DEF Up
<1>6. Up(d, t, i)
        = \/ d /\ \A j \in 1 .. i : t[j] \notin LinkNews
          \/ \E j \in 1 .. i : Last(t, j, i)
  BY DEF Up
<1>7. d = (q[1] = "connected" \/ (c /\ q[1] \notin LinkNews))
  BY <1>1 DEF UpWith, LinkNews
<1> HIDE DEF d, Last
<1> QED BY <1>2, <1>4, <1>5, <1>6, <1>7
-----------------------------------------------------------------------------
(* The flags and the queue together.                                       *)

Typed ==
  /\ connected \in BOOLEAN /\ bound \in BOOLEAN
  /\ link \in {"idle", "connecting", "up"}
  /\ events \in Seq(EventKinds)

IInv == Typed /\ NewsInOrder

\* Before the first event the association is as the flag says.
LEMMA BeforeAll ==
  ASSUME NEW c \in BOOLEAN, NEW q \in Seq(EventKinds)
  PROVE  Up(c, q, 0) = c
<1>1. 1 .. 0 = {}
  OBVIOUS
<1>2. (\A j \in 1 .. 0 : q[j] \notin LinkNews) = TRUE
  BY <1>1
<1>3. (\E j \in 1 .. 0 : q[j] = "connected" /\ \A k \in j + 1 .. 0 : q[k] \notin LinkNews)
        = FALSE
  BY <1>1
<1> QED BY <1>2, <1>3 DEF Up

\* The invariant in terms of the queue as a parameter.
LEMMA Reading ==
  ASSUME Typed
  PROVE  NewsInOrder <=> /\ Ordered(connected, events)
                         /\ (link = "up") = Up(connected, events, Len(events))
                         /\ bound => connected
BY DEF NewsInOrder, Ordered, Up, UpAfter

\* A step that leaves the queue and the association alone; it may drop the
\* address.
LEMMA Unmoved ==
  ASSUME IInv, connected' = connected, events' = events,
         bound' \in {bound, FALSE},
         link' = link \/ (link = "idle" /\ link' = "connecting")
  PROVE  IInv'
<1>1. Typed'
  BY DEF IInv, Typed
<1>2. (link' = "up") = (link = "up")
  OBVIOUS
<1>3. bound' => bound
  OBVIOUS
<1>4. NewsInOrder'
  BY <1>2, <1>3 DEF IInv, NewsInOrder, UpAfter
<1> QED BY <1>1, <1>4 DEF IInv

\* A step that posts an event that fits what came before.
LEMMA PostKeeps ==
  ASSUME IInv, NEW e \in EventKinds, Post(e),
         connected' = connected, bound' = bound,
         link' \in {"idle", "connecting", "up"},
         e \in {"connected", "failed"} => link # "up",
         e \in {"left", "bound"} => link = "up",
         (link' = "up") = UpWith(link = "up", e)
  PROVE  IInv'
<1>1. events' = Append(events, e)
  BY DEF Post
<1>2. Typed /\ Typed'
  BY <1>1 DEF IInv, Typed
<1> DEFINE n == Len(events)
<1>3. /\ Ordered(connected, events)
      /\ (link = "up") = Up(connected, events, n)
      /\ bound => connected
  BY <1>2, Reading DEF IInv
<1>4. n \in Nat /\ Len(events') = n + 1 /\ events'[n + 1] = e
      /\ \A i \in 1 .. n : events'[i] = events[i]
  BY <1>1, <1>2 DEF Typed
<1>5. /\ \A i \in 0 .. n : Up(connected, events', i) = Up(connected, events, i)
      /\ Up(connected, events', n + 1) = UpWith(Up(connected, events, n), e)
  BY <1>1, <1>2, Posted DEF Typed
<1> HIDE DEF n
<1>6. Ordered(connected, events')
  <2> SUFFICES ASSUME NEW i \in 1 .. n + 1
               PROVE  /\ events'[i] \in {"connected", "failed"}
                           => ~Up(connected, events', i - 1)
                      /\ events'[i] \in {"left", "bound"}
                           => Up(connected, events', i - 1)
    BY <1>4 DEF Ordered
  <2>1. i - 1 \in 0 .. n /\ Up(connected, events', i - 1) = Up(connected, events, i - 1)
    BY <1>4, <1>5
  <2>2. CASE i = n + 1
    <3>1. events'[i] = e /\ i - 1 = n /\ n \in 0 .. n
      BY <1>4, <2>2
    <3>2. Up(connected, events', i - 1) = (link = "up")
      BY <1>3, <1>5, <3>1
    <3> QED BY <3>1, <3>2
  <2>3. CASE i \in 1 .. n
    BY <1>3, <1>4, <2>1, <2>3 DEF Ordered, n
  <2> QED BY <1>4, <2>2, <2>3
<1>7. (link' = "up") = Up(connected, events', n + 1)
  BY <1>3, <1>5
<1>8. NewsInOrder'
  BY <1>2, <1>3, <1>4, <1>6, <1>7 DEF NewsInOrder, Ordered, Up, UpAfter
<1> QED BY <1>2, <1>8 DEF IInv

\* The stack ends what is there.
LEMMA CloseKeeps ==
  ASSUME IInv, CloseLink, connected' = connected, bound' = bound
  PROVE  IInv'
<1>1. link' = "idle"
  BY DEF CloseLink
<1>2. CASE link = "up" /\ Post("left")
  BY <1>1, <1>2, PostKeeps DEF EventKinds, UpWith, LinkNews
<1>3. CASE link = "connecting" /\ Post("failed")
  BY <1>1, <1>3, PostKeeps DEF EventKinds, UpWith, LinkNews
<1>4. CASE link = "idle" /\ UNCHANGED events
  BY <1>1, <1>4, Unmoved
<1> QED BY <1>2, <1>3, <1>4 DEF CloseLink

\* The first event is handled as what it says.
LEMMA HandleKeeps ==
  ASSUME IInv, events # <<>>, events' = Tail(events), link' = link,
         connected' = UpWith(connected, Head(events)),
         bound' \in BOOLEAN, bound' => connected'
  PROVE  IInv'
<1> DEFINE n == Len(events)
<1>1. Typed
  BY DEF IInv
<1>2. /\ Ordered(connected, events)
      /\ (link = "up") = Up(connected, events, n)
  BY <1>1, Reading DEF IInv
<1>3. /\ n \in Nat \ {0} /\ Len(events') = n - 1
      /\ events' \in Seq(EventKinds)
      /\ \A i \in 1 .. n - 1 : events'[i] = events[i + 1]
  BY <1>1 DEF Typed
<1>4. Typed'
  BY <1>1, <1>3 DEF Typed, UpWith
<1>5. \A i \in 0 .. n - 1 : Up(connected', events', i) = Up(connected, events, i + 1)
  BY <1>1, Handled DEF Typed
<1> HIDE DEF n
<1>6. Ordered(connected', events')
  <2> SUFFICES ASSUME NEW i \in 1 .. n - 1
               PROVE  /\ events'[i] \in {"connected", "failed"}
                           => ~Up(connected', events', i - 1)
                      /\ events'[i] \in {"left", "bound"}
                           => Up(connected', events', i - 1)
    BY <1>3 DEF Ordered
  <2>1. i - 1 \in 0 .. n - 1 /\ (i - 1) + 1 = i /\ (i + 1) - 1 = i /\ i + 1 \in 1 .. n
    BY <1>3
  <2>2. Up(connected', events', i - 1) = Up(connected, events, i)
    BY <1>5, <2>1
  <2>3. /\ events[i + 1] \in {"connected", "failed"} => ~Up(connected, events, i)
        /\ events[i + 1] \in {"left", "bound"} => Up(connected, events, i)
    BY <1>2, <2>1 DEF Ordered, n
  <2> QED BY <1>3, <2>2, <2>3
<1>7. (link' = "up") = Up(connected', events', n - 1)
  <2>1. n - 1 \in 0 .. n - 1 /\ (n - 1) + 1 = n
    BY <1>3
  <2> QED BY <1>2, <1>5, <2>1
<1>8. NewsInOrder'
  BY <1>3, <1>4, <1>6, <1>7 DEF NewsInOrder, Ordered, Up, UpAfter
<1> QED BY <1>4, <1>8 DEF IInv

\* What the handlers store is what the event says: an early return is taken
\* only when there is nothing to store.
LEMMA HandlersStore ==
  ASSUME IInv, HandleEvent
  PROVE  /\ connected' = UpWith(connected, Head(events))
         /\ bound' \in BOOLEAN /\ (bound' => connected')
<1> DEFINE e == Head(events)
<1>1. events # <<>> /\ events \in Seq(EventKinds) /\ Typed
  BY DEF HandleEvent, IInv, Typed
<1>2. 1 \in 1 .. Len(events) /\ e = events[1] /\ e \in EventKinds
  BY <1>1
<1>3. /\ e \in {"connected", "failed"} => ~Up(connected, events, 0)
      /\ e \in {"left", "bound"} => Up(connected, events, 0)
      /\ bound => connected
  BY <1>1, <1>2, Reading DEF IInv, Ordered
<1>4. Up(connected, events, 0) = connected
  BY <1>1, BeforeAll DEF Typed
<1> HIDE DEF e
<1>5. CASE e \in {"connected", "failed"} /\ ~connected
  BY <1>5 DEF HandleEvent, e, ConnectSucceeds, ConnectFails, UpWith, LinkNews
<1>6. CASE e = "left" /\ connected
  BY <1>6 DEF HandleEvent, e, IgnoresLeft, AssociationEnds, UpWith, LinkNews
<1>7. CASE e = "bound" /\ connected
  BY <1>7 DEF HandleEvent, e, UpWith, LinkNews
<1>8. CASE e \in {"ready", "not ready"}
  <2>1. connected' = connected /\ bound' = bound
    BY <1>8 DEF HandleEvent, e, context
  <2> QED BY <1>1, <1>3, <1>8, <2>1 DEF UpWith, LinkNews, Typed, e
<1> QED BY <1>1, <1>2, <1>3, <1>4, <1>5, <1>6, <1>7, <1>8 DEF EventKinds, Typed

-----------------------------------------------------------------------------
(* The steps.                                                              *)

\* The steps that leave the association and the queue alone.
LEMMA CommandsKeep ==
  ASSUME IInv, NEW c \in Callers,
         On(c) \/ Off(c) \/ Reconnect(c) \/ CallStep(c)
  PROVE  IInv'
<1>1. CASE On(c)
  BY <1>1, Unmoved DEF On, context, stack
<1>2. CASE Off(c)
  BY <1>2, Unmoved DEF Off, stack
<1>3. CASE Reconnect(c)
  BY <1>3, Unmoved DEF Reconnect, stack
<1>4. CASE OffDown(c)
  <2>1. CASE Lowers /\ CloseLink
    BY <1>4, <2>1, CloseKeeps DEF OffDown, context
  <2>2. CASE UNCHANGED <<ifUp, link, leased, events>>
    BY <1>4, <2>2, Unmoved DEF OffDown, context
  <2> QED BY <1>4, <2>1, <2>2 DEF OffDown
<1>5. CASE OffDone(c)
  BY <1>5, Unmoved DEF OffDone, context, stack
<1>6. CASE ReconnectClear(c)
  BY <1>6, Unmoved DEF ReconnectClear, stack
<1>7. CASE Disconnects(c)
  BY <1>7, CloseKeeps DEF Disconnects, context
<1>8. CASE DisconnectFails(c)
  BY <1>8, Unmoved DEF DisconnectFails, stack
<1>9. CASE OffDownFails(c)
  BY <1>9, Unmoved DEF OffDownFails, context, stack
<1> QED BY <1>1, <1>2, <1>3, <1>4, <1>5, <1>6, <1>7, <1>8, <1>9 DEF CallStep

\* wifi_connect clears the flag only when it is clear.
LEMMA AskKeeps ==
  ASSUME IInv, AskOrIdle, UNCHANGED stack
  PROVE  IInv'
<1>1. link' = link /\ events' = events
  BY DEF stack
<1>2. CASE Idles /\ UNCHANGED context
  BY <1>1, <1>2, Unmoved DEF context
<1>3. CASE ~Idles /\ connected' = FALSE /\ bound' = FALSE
  <2>1. connected' = connected
    BY <1>3 DEF Idles, IInv, Typed
  <2> QED BY <1>1, <1>3, <2>1, Unmoved
<1> QED BY <1>2, <1>3 DEF AskOrIdle

LEMMA WorkerKeeps ==
  ASSUME IInv, WorkerStep
  PROVE  IInv'
<1>1. CASE AlreadyPrepared
  BY <1>1, Unmoved DEF AlreadyPrepared, context, stack
<1>2. CASE BeginPrepare
  BY <1>2, Unmoved DEF BeginPrepare, context, stack
<1>3. CASE LowerForAddress
  BY <1>3, CloseKeeps DEF LowerForAddress, context
<1>4. CASE SetAddress
  BY <1>4, Unmoved DEF SetAddress, context
<1>15. CASE DownReported
  BY <1>15, Unmoved DEF DownReported, context, stack
<1>5. CASE InterfaceUp
  BY <1>5, Unmoved DEF InterfaceUp, context
<1>6. CASE ReadinessReported
  BY <1>6, Unmoved DEF ReadinessReported, context, stack
<1>7. CASE PrepareFails
  BY <1>7, Unmoved DEF PrepareFails, context, stack
<1>8. CASE Serve
  <2>1. CASE AskOrIdle
    BY <1>8, <2>1, AskKeeps DEF Serve
  <2>2. CASE UNCHANGED context
    BY <1>8, <2>2, Unmoved DEF Serve, context, stack
  <2> QED BY <1>8, <2>1, <2>2 DEF Serve
<1>9. CASE ReadyAfterAll
  <2>1. CASE AskOrIdle
    BY <1>9, <2>1, AskKeeps DEF ReadyAfterAll
  <2>2. CASE UNCHANGED context
    BY <1>9, <2>2, Unmoved DEF ReadyAfterAll, context, stack
  <2> QED BY <1>9, <2>1, <2>2 DEF ReadyAfterAll
<1>10. CASE StillUnready
  BY <1>10, Unmoved DEF StillUnready, context, stack
<1>11. CASE ConnectBegins
  BY <1>11, Unmoved DEF ConnectBegins, context
<1>12. CASE ConnectRefused
  BY <1>12, Unmoved DEF ConnectRefused, context, stack
<1>13. CASE StopWaiting
  BY <1>13, Unmoved DEF StopWaiting, context, stack
<1>14. CASE Release
  BY <1>14, Unmoved DEF Release, context, stack
<1> QED BY <1>1, <1>2, <1>3, <1>4, <1>5, <1>6, <1>7, <1>8, <1>9, <1>10, <1>11,
           <1>12, <1>13, <1>14, <1>15 DEF WorkerStep

LEMMA EnvironmentKeeps ==
  ASSUME IInv,
         \/ SupplicantFollows \/ Associates \/ AssociationFails \/ Lease
         \/ AccessPointLeaves \/ ScanBegins \/ ScanEnds
  PROVE  IInv'
<1>0. connected' = connected /\ bound' = bound
  BY DEF SupplicantFollows, Associates, AssociationFails, Lease,
         AccessPointLeaves, ScanBegins, ScanEnds, Environment, context
<1>1. CASE SupplicantFollows
  <2>1. link' = link /\ link \in {"idle", "connecting", "up"}
    BY <1>1 DEF SupplicantFollows, IInv, Typed
  <2>2. \E e \in {"ready", "not ready"} : Post(e)
    BY <1>1 DEF SupplicantFollows
  <2> QED BY <1>0, <2>1, <2>2, PostKeeps DEF EventKinds, UpWith, LinkNews
<1>2. CASE Associates
  BY <1>0, <1>2, PostKeeps DEF Associates, EventKinds, UpWith, LinkNews
<1>3. CASE AssociationFails
  BY <1>0, <1>3, PostKeeps DEF AssociationFails, EventKinds, UpWith, LinkNews
<1>4. CASE Lease
  BY <1>0, <1>4, PostKeeps DEF Lease, EventKinds, UpWith, LinkNews
<1>5. CASE AccessPointLeaves
  BY <1>0, <1>5, CloseKeeps DEF AccessPointLeaves
<1>6. CASE ScanBegins \/ ScanEnds
  BY <1>0, <1>6, Unmoved DEF ScanBegins, ScanEnds
<1> QED BY <1>1, <1>2, <1>3, <1>4, <1>5, <1>6

LEMMA IInvHolds == Spec => []IInv
<1>1. Init => IInv
  <2> SUFFICES ASSUME Init PROVE IInv
    OBVIOUS
  <2>0. /\ connected = FALSE /\ bound = FALSE /\ link = "idle"
        /\ events = <<>> /\ Len(events) = 0 /\ events \in Seq(EventKinds)
    BY DEF Init
  <2>1. Typed
    BY <2>0 DEF Typed
  <2>2. UpAfter(0) = FALSE
    BY <2>0, BeforeAll DEF Up, UpAfter
  <2>3. NewsInOrder
    <3>1. 1 .. Len(events) = {}
      BY <2>0
    <3>2. (link = "up") = UpAfter(Len(events))
      BY <2>0, <2>2
    <3> QED BY <2>0, <3>1, <3>2 DEF NewsInOrder
  <2> QED BY <2>1, <2>3 DEF IInv
<1>2. IInv /\ [Next]_vars => IInv'
  <2> SUFFICES ASSUME IInv, [Next]_vars PROVE IInv'
    OBVIOUS
  <2>1. CASE \E c \in Callers : On(c) \/ Off(c) \/ Reconnect(c) \/ CallStep(c)
    BY <2>1, CommandsKeep
  <2>2. CASE WorkerStep
    BY <2>2, WorkerKeeps
  <2>3. CASE HandleEvent
    <3>1. link' = link /\ events # <<>> /\ events' = Tail(events)
      BY <2>3 DEF HandleEvent
    <3> QED BY <2>3, <3>1, HandlersStore, HandleKeeps
  <2>4. CASE \/ SupplicantFollows \/ Associates \/ AssociationFails \/ Lease
             \/ AccessPointLeaves \/ ScanBegins \/ ScanEnds
    BY <2>4, EnvironmentKeeps
  <2>5. CASE UNCHANGED vars
    BY <2>5, Unmoved DEF vars, context, stack
  <2> QED BY <2>1, <2>2, <2>3, <2>4, <2>5 DEF Next
<1> QED BY <1>1, <1>2, PTL DEF Spec

\* Whatever commands, faults and events come in which order: once the events
\* are handled the firmware knows whether it is associated, and it never holds
\* an address without an association.
THEOREM ContextIsTrue == Spec => []ContextMirrorsLink
<1>1. IInv => ContextMirrorsLink
  <2> SUFFICES ASSUME IInv PROVE ContextMirrorsLink
    OBVIOUS
  <2>1. ASSUME events = <<>> PROVE connected = (link = "up")
    <3>1. Len(events) = 0
      BY <2>1
    <3>2. UpAfter(0) = connected
      BY BeforeAll DEF Up, UpAfter, IInv, Typed
    <3> QED BY <3>1, <3>2 DEF IInv, NewsInOrder
  <2> QED BY <2>1 DEF ContextMirrorsLink, IInv, NewsInOrder
<1> QED BY <1>1, IInvHolds, PTL

-----------------------------------------------------------------------------
(* Off.                                                                    *)

OffSteps == {"none", "off disconnect", "off down", "off done"}

\* While the last command is an off, nothing asks for the interface, nobody is
\* raising it, and whoever is past taking it down has taken it down, unless the
\* stack refused.
Lowered == ~ifUp \/ downFailed

OffInForce ==
  /\ requested = FALSE /\ worker \notin PrepareSteps
  /\ \A c \in Callers : pc[c] \in OffSteps
  /\ \A c \in Callers : pc[c] = "off done" => Lowered
  /\ Quiet => Lowered

OneAtATime == \A c, d \in Callers : pc[c] # "none" /\ pc[d] # "none" => c = d

Undisturbed == ~overlapped /\ ~crossed

OffInv ==
  /\ DOMAIN pc = Callers
  /\ Undisturbed => OneAtATime /\ (wanted = "off" => OffInForce)

\* Most steps change nothing of it.
LEMMA OffUnmoved ==
  ASSUME OffInv, UNCHANGED <<pc, wanted, overlapped, downFailed>>,
         crossed => crossed',
         wanted = "off" => requested' = requested,
         wanted = "off" /\ requested = FALSE => ifUp' = ifUp \/ ifUp' = FALSE,
         wanted = "off" /\ requested = FALSE
           => worker' = worker \/ worker' \notin PrepareSteps
  PROVE  OffInv'
<1>1. DOMAIN pc' = Callers
  BY DEF OffInv
<1>2. ASSUME Undisturbed' PROVE Undisturbed
  BY <1>2 DEF Undisturbed
<1>3. ASSUME OneAtATime PROVE OneAtATime'
  BY <1>3 DEF OneAtATime
<1>4. ASSUME wanted = "off", OffInForce PROVE OffInForce'
  <2>1. requested = FALSE /\ requested' = FALSE
    BY <1>4 DEF OffInForce
  <2>2. worker' \notin PrepareSteps
    BY <1>4, <2>1 DEF OffInForce
  <2>3. Lowered => Lowered'
    BY <1>4, <2>1 DEF Lowered
  <2>4. Quiet' => Quiet
    BY DEF Quiet
  <2> QED BY <1>4, <2>1, <2>2, <2>3, <2>4 DEF OffInForce
<1> QED BY <1>1, <1>2, <1>3, <1>4 DEF OffInv

\* A command begins, or goes on: who was alone stays alone.
LEMMA AloneKept ==
  ASSUME OffInv, NEW c \in Callers, NEW step, Undisturbed',
         pc' = [pc EXCEPT ![c] = step],
         \/ overlapped' = overlapped /\ pc[c] # "none"
         \/ overlapped' = (overlapped \/ ~Quiet),
         crossed => crossed'
  PROVE  /\ OneAtATime' /\ Undisturbed
         /\ \A d \in Callers \ {c} : pc[d] = "none" /\ pc'[d] = "none"
         /\ pc'[c] = step
<1>1. Undisturbed
  <2>1. ~overlapped' /\ ~crossed'
    BY DEF Undisturbed
  <2>2. ~overlapped
    BY <2>1, Zenon
  <2> QED BY <2>1, <2>2 DEF Undisturbed
<1>2. OneAtATime /\ DOMAIN pc = Callers
  BY <1>1 DEF OffInv
<1>3. \A d \in Callers \ {c} : pc[d] = "none"
  <2>1. CASE pc[c] # "none"
    BY <1>2, <2>1 DEF OneAtATime
  <2>2. CASE Quiet
    BY <2>2 DEF Quiet
  <2> QED BY <2>1, <2>2 DEF Undisturbed
<1>4. \A d \in Callers \ {c} : pc'[d] = pc[d]
  BY <1>2
<1>5. pc'[c] = step
  BY <1>2
<1>6. OneAtATime'
  BY <1>3, <1>4, <1>5 DEF OneAtATime
<1> QED BY <1>1, <1>3, <1>4, <1>5, <1>6

LEMMA OffCommandsKeep ==
  ASSUME OffInv, NEW c \in Callers,
         On(c) \/ Off(c) \/ Reconnect(c) \/ CallStep(c)
  PROVE  OffInv'
<1>0. DOMAIN pc' = Callers
  BY DEF OffInv, On, Off, Reconnect, CallStep, OffDown, OffDownFails, OffDone,
         ReconnectClear, Disconnects, DisconnectFails, AfterDisconnect, GoTo
<1>1. CASE On(c)
  <2>1. wanted' = "on" /\ pc' = pc /\ (Undisturbed' => Undisturbed)
    BY <1>1 DEF On, BeginCall, Undisturbed
  <2>2. OneAtATime => OneAtATime'
    BY <2>1 DEF OneAtATime
  <2> QED BY <1>0, <2>1, <2>2 DEF OffInv
<1>2. CASE Off(c)
  <2> SUFFICES ASSUME Undisturbed' PROVE OneAtATime' /\ OffInForce'
    BY <1>0 DEF OffInv
  <2> DEFINE step == IF connected THEN "off disconnect" ELSE "off down"
  <2>1. /\ pc' = [pc EXCEPT ![c] = step]
        /\ overlapped' = (overlapped \/ ~Quiet) /\ (crossed => crossed')
        /\ requested' = FALSE /\ worker' = worker
        /\ worker \in PrepareSteps => crossed'
    BY <1>2 DEF Off, BeginCall, GoTo, Preparing
  <2>2. step \in OffSteps /\ step # "none" /\ step # "off done"
    BY DEF OffSteps
  <2> HIDE DEF step
  <2>3. /\ OneAtATime' /\ pc'[c] = step
        /\ \A d \in Callers \ {c} : pc'[d] = "none"
    BY <2>1, AloneKept
  <2>4. ~Quiet'
    BY <2>2, <2>3 DEF Quiet
  <2>5. worker' \notin PrepareSteps
    BY <2>1 DEF Undisturbed
  <2> QED BY <2>1, <2>2, <2>3, <2>4, <2>5 DEF OffInForce, OffSteps
<1>3. CASE Reconnect(c)
  <2> SUFFICES ASSUME Undisturbed' PROVE OneAtATime'
    BY <1>0, <1>3 DEF OffInv, Reconnect
  <2> DEFINE step == IF ~requested THEN "none"
                     ELSE IF connected THEN "reconnect disconnect"
                     ELSE "reconnect clear"
  <2>1. /\ pc' = [pc EXCEPT ![c] = step]
        /\ overlapped' = (overlapped \/ ~Quiet) /\ (crossed => crossed')
    BY <1>3 DEF Reconnect, BeginCall, GoTo
  <2> HIDE DEF step
  <2> QED BY <2>1, AloneKept
<1>4. CASE OffDown(c)
  <2> SUFFICES ASSUME Undisturbed'
               PROVE  OneAtATime' /\ (wanted' = "off" => OffInForce')
    BY <1>0 DEF OffInv
  <2>1. /\ pc' = [pc EXCEPT ![c] = "off done"] /\ pc[c] = "off down"
        /\ overlapped' = overlapped /\ crossed' = crossed /\ wanted' = wanted
        /\ requested' = requested /\ worker' = worker /\ ~ifUp'
    BY <1>4 DEF OffDown, GoTo, Lowers, history, flags
  <2>2. /\ OneAtATime' /\ Undisturbed /\ pc'[c] = "off done"
        /\ \A d \in Callers \ {c} : pc'[d] = "none"
    BY <2>1, AloneKept
  <2> QED BY <2>1, <2>2 DEF OffInv, OffInForce, OffSteps, Lowered
<1>8. CASE OffDownFails(c)
  <2> SUFFICES ASSUME Undisturbed'
               PROVE  OneAtATime' /\ (wanted' = "off" => OffInForce')
    BY <1>0 DEF OffInv
  <2>1. /\ pc' = [pc EXCEPT ![c] = "off done"] /\ pc[c] = "off down"
        /\ overlapped' = overlapped /\ crossed' = crossed /\ wanted' = wanted
        /\ requested' = requested /\ worker' = worker /\ downFailed' = TRUE
    BY <1>8 DEF OffDownFails, GoTo, flags
  <2>2. /\ OneAtATime' /\ Undisturbed /\ pc'[c] = "off done"
        /\ \A d \in Callers \ {c} : pc'[d] = "none"
    BY <2>1, AloneKept
  <2> QED BY <2>1, <2>2 DEF OffInv, OffInForce, OffSteps, Lowered
<1>5. CASE OffDone(c)
  <2> SUFFICES ASSUME Undisturbed'
               PROVE  OneAtATime' /\ (wanted' = "off" => OffInForce')
    BY <1>0 DEF OffInv
  <2>1. /\ pc' = [pc EXCEPT ![c] = "none"] /\ pc[c] = "off done"
        /\ overlapped' = overlapped /\ crossed' = crossed /\ wanted' = wanted
        /\ requested' = requested /\ worker' = worker /\ Lowered' = Lowered
    BY <1>5 DEF OffDone, GoTo, history, flags, stack, Lowered
  <2>2. /\ OneAtATime' /\ Undisturbed /\ pc'[c] = "none"
        /\ \A d \in Callers \ {c} : pc'[d] = "none"
    BY <2>1, AloneKept
  <2> QED BY <2>1, <2>2 DEF OffInv, OffInForce, OffSteps
<1>6. CASE ReconnectClear(c)
  <2> SUFFICES ASSUME Undisturbed'
               PROVE  OneAtATime' /\ (wanted' = "off" => OffInForce')
    BY <1>0 DEF OffInv
  <2>1. /\ pc' = [pc EXCEPT ![c] = "none"] /\ pc[c] = "reconnect clear"
        /\ overlapped' = overlapped /\ crossed' = crossed /\ wanted' = wanted
    BY <1>6 DEF ReconnectClear, GoTo
  <2>2. OneAtATime' /\ Undisturbed
    BY <2>1, AloneKept
  <2>3. wanted # "off"
    BY <2>1, <2>2 DEF OffInv, OffInForce, OffSteps
  <2> QED BY <2>1, <2>2, <2>3
<1>7. CASE Disconnects(c) \/ DisconnectFails(c)
  <2> SUFFICES ASSUME Undisturbed'
               PROVE  OneAtATime' /\ (wanted' = "off" => OffInForce')
    BY <1>0 DEF OffInv
  <2>1. /\ \/ pc[c] = "off disconnect" /\ pc' = [pc EXCEPT ![c] = "off down"]
           \/ pc[c] = "reconnect disconnect" /\ pc' = [pc EXCEPT ![c] = "reconnect clear"]
        /\ overlapped' = overlapped /\ crossed' = crossed /\ wanted' = wanted
        /\ requested' = requested /\ worker' = worker
    BY <1>7 DEF Disconnects, DisconnectFails, AfterDisconnect, GoTo, history, flags
  <2>2. CASE pc[c] = "off disconnect" /\ pc' = [pc EXCEPT ![c] = "off down"]
    <3>1. /\ OneAtATime' /\ Undisturbed /\ pc'[c] = "off down"
          /\ \A d \in Callers \ {c} : pc'[d] = "none"
      BY <2>1, <2>2, AloneKept
    <3>2. ~Quiet'
      BY <3>1 DEF Quiet
    <3> QED BY <2>1, <3>1, <3>2 DEF OffInv, OffInForce, OffSteps
  <2>3. CASE pc[c] = "reconnect disconnect" /\ pc' = [pc EXCEPT ![c] = "reconnect clear"]
    <3>1. OneAtATime' /\ Undisturbed
      BY <2>1, <2>3, AloneKept
    <3>2. wanted # "off"
      BY <2>3, <3>1 DEF OffInv, OffInForce, OffSteps
    <3> QED BY <2>1, <3>1, <3>2
  <2> QED BY <2>1, <2>2, <2>3
<1> QED BY <1>1, <1>2, <1>3, <1>4, <1>5, <1>6, <1>7, <1>8 DEF CallStep

\* No step of a preparation happens while an off is in force.
LEMMA OffPreparing ==
  ASSUME OffInv, UNCHANGED <<pc, wanted, overlapped, crossed>>,
         worker \in PrepareSteps
  PROVE  OffInv'
<1>1. OneAtATime => OneAtATime'
  BY DEF OneAtATime
<1>2. Undisturbed => wanted # "off"
  BY DEF OffInv, OffInForce
<1>3. Undisturbed' = Undisturbed
  BY DEF Undisturbed
<1> QED BY <1>1, <1>2, <1>3 DEF OffInv

LEMMA OffOthersKeep ==
  ASSUME OffInv,
         \/ WorkerStep \/ HandleEvent \/ SupplicantFollows \/ Associates
         \/ AssociationFails \/ Lease \/ AccessPointLeaves \/ ScanBegins
         \/ ScanEnds \/ UNCHANGED vars
  PROVE  OffInv'
<1>1. CASE AlreadyPrepared
  BY <1>1, OffUnmoved DEF PrepareSteps, AlreadyPrepared, flags, stack, history
<1>2. CASE BeginPrepare
  BY <1>2, OffUnmoved DEF BeginPrepare, flags, stack
<1>3. CASE LowerForAddress
  BY <1>3, OffPreparing DEF PrepareSteps, LowerForAddress, flags, history
<1>4. CASE SetAddress
  BY <1>4, OffPreparing DEF PrepareSteps, SetAddress, flags, history
<1>18. CASE DownReported
  BY <1>18, OffPreparing DEF DownReported, PrepareSteps, flags, history
<1>5. CASE InterfaceUp
  BY <1>5, OffPreparing DEF PrepareSteps, InterfaceUp, history
<1>6. CASE ReadinessReported
  BY <1>6, OffPreparing DEF PrepareSteps, ReadinessReported, history
<1>7. CASE PrepareFails
  BY <1>7, OffPreparing DEF PrepareFails, Preparing
<1>8. CASE Serve
  BY <1>8, OffUnmoved DEF PrepareSteps, Serve, AskOrIdle, flags, stack, history
<1>9. CASE ReadyAfterAll
  BY <1>9, OffUnmoved DEF PrepareSteps, ReadyAfterAll, AskOrIdle, flags, stack,
     history
<1>10. CASE StillUnready
  BY <1>10, OffUnmoved DEF PrepareSteps, StillUnready, flags, stack, history
<1>11. CASE ConnectBegins
  BY <1>11, OffUnmoved DEF PrepareSteps, ConnectBegins, flags, history
<1>12. CASE ConnectRefused
  BY <1>12, OffUnmoved DEF PrepareSteps, ConnectRefused, flags, stack, history
<1>13. CASE StopWaiting
  BY <1>13, OffUnmoved DEF PrepareSteps, StopWaiting, flags, stack, history
<1>14. CASE Release
  BY <1>14, OffUnmoved DEF PrepareSteps, Release, flags, stack, history
<1>15. CASE HandleEvent
  BY <1>15, OffUnmoved DEF HandleEvent, flags, history
<1>16. CASE \/ SupplicantFollows \/ Associates \/ AssociationFails \/ Lease
            \/ AccessPointLeaves \/ ScanBegins \/ ScanEnds
  <2>1. Environment
    BY <1>16 DEF SupplicantFollows, Associates, AssociationFails, Lease,
                 AccessPointLeaves, ScanBegins, ScanEnds
  <2> QED BY <2>1, OffUnmoved DEF Environment, flags, history
<1>17. CASE UNCHANGED vars
  BY <1>17, OffUnmoved DEF vars, flags, stack, history
<1> QED BY <1>1, <1>2, <1>3, <1>4, <1>5, <1>6, <1>7, <1>8, <1>9, <1>10, <1>11,
           <1>12, <1>13, <1>14, <1>15, <1>16, <1>17, <1>18 DEF WorkerStep

LEMMA OffInvHolds == Spec => []OffInv
<1>1. Init => OffInv
  <2> SUFFICES ASSUME Init PROVE OffInv
    OBVIOUS
  <2>1. DOMAIN pc = Callers /\ wanted = "none" /\ \A c \in Callers : pc[c] = "none"
    BY DEF Init
  <2> QED BY <2>1 DEF OffInv, OneAtATime
<1>2. OffInv /\ [Next]_vars => OffInv'
  BY OffCommandsKeep, OffOthersKeep DEF Next
<1> QED BY <1>1, <1>2, PTL DEF Spec

\* An off whose net_if_down succeeds takes the interface down, and nothing
\* raises it again before the next command asks, as long as commands never
\* overlapped, none came in the middle of a preparation and none of those began
\* with news of an earlier change still on its way.
THEOREM OffTakesDown == Spec => []UncrossedOffMeansDown
<1>1. OffInv => UncrossedOffMeansDown
  BY DEF OffInv, Undisturbed, OffInForce, Lowered, UncrossedOffMeansDown,
         OffMeansDown
<1> QED BY <1>1, OffInvHolds, PTL

-----------------------------------------------------------------------------
(* Types.                                                                  *)

\* The type invariant in parts: the flags, what the code knows, what the stack
\* is, the history, and the steps, counters and events.
RequestTypes ==
  /\ requested \in BOOLEAN /\ associate \in BOOLEAN
  /\ prepared \in BOOLEAN /\ ready \in BOOLEAN
ContextTypes ==
  /\ connected \in BOOLEAN /\ result \in BOOLEAN
  /\ leaving \in BOOLEAN /\ bound \in BOOLEAN /\ scanning \in BOOLEAN
StackTypes ==
  /\ macSet \in BOOLEAN /\ ifUp \in BOOLEAN /\ usable \in BOOLEAN
  /\ leased \in BOOLEAN
HistoryTypes ==
  /\ failed \in BOOLEAN /\ overlapped \in BOOLEAN
  /\ crossed \in BOOLEAN /\ downFailed \in BOOLEAN /\ resultLost \in BOOLEAN
StepTypes ==
  /\ readySem \in {0, 1}
  /\ pc \in [Callers -> CallSteps] /\ worker \in WorkerSteps
  /\ calls \in 0 .. MaxCalls /\ faults \in 0 .. MaxFaults
  /\ wanted \in {"none", "on", "off"}
QueueTypes ==
  /\ link \in {"idle", "connecting", "up"}
  /\ events \in Seq(EventKinds) /\ Len(events) <= MaxEvents

LEMMA TypeParts ==
  /\ TypeOK <=> /\ RequestTypes /\ ContextTypes /\ StackTypes
                /\ HistoryTypes /\ StepTypes /\ QueueTypes
  /\ TypeOK' <=> /\ RequestTypes' /\ ContextTypes' /\ StackTypes'
                 /\ HistoryTypes' /\ StepTypes' /\ QueueTypes'
BY DEF TypeOK, RequestTypes, ContextTypes, StackTypes, HistoryTypes, StepTypes,
       QueueTypes

\* An event posted to a queue with room, or the end of a link, fits the queue.
LEMMA PostTyped ==
  ASSUME QueueTypes, NEW e \in EventKinds, Post(e), link' \in {"idle", "connecting", "up"}
  PROVE  QueueTypes'
<1>1. events \in Seq(EventKinds) /\ events' = Append(events, e) /\ Len(events) < MaxEvents
  BY DEF QueueTypes, Post
<1>2. events' \in Seq(EventKinds) /\ Len(events') = Len(events) + 1
  BY <1>1
<1>3. Len(events) \in Nat
  BY <1>1
<1> QED BY <1>1, <1>2, <1>3, BoundAssumption DEF QueueTypes

LEMMA CloseTyped ==
  ASSUME QueueTypes, CloseLink
  PROVE  QueueTypes'
<1>1. link' = "idle" /\ (UNCHANGED events \/ \E e \in EventKinds : Post(e))
  BY DEF CloseLink, EventKinds
<1> QED BY <1>1, PostTyped DEF QueueTypes

\* A handled event leaves the queue.
LEMMA TailTyped ==
  ASSUME QueueTypes, events # <<>>, events' = Tail(events), link' = link
  PROVE  QueueTypes'
<1>1. events \in Seq(EventKinds) /\ Len(events) <= MaxEvents /\ Len(events) \in Nat
  BY DEF QueueTypes
<1>2. events' \in Seq(EventKinds) /\ Len(events') = Len(events) - 1
  BY <1>1
<1> QED BY <1>1, <1>2, BoundAssumption DEF QueueTypes

\* Every reachable state is well typed: the event queue never outgrows
\* CONFIG_NET_MGMT_EVENT_QUEUE_SIZE, the readiness semaphore never its limit of
\* one, and worker and commands only take the steps of the code.
THEOREM TypeCorrect == Spec => []TypeOK
<1>1. Init => TypeOK
  <2> SUFFICES ASSUME Init PROVE TypeOK
    OBVIOUS
  <2>1. RequestTypes /\ ContextTypes /\ HistoryTypes
    BY Zenon DEF Init, RequestTypes, ContextTypes, HistoryTypes
  <2>2. StackTypes
    BY Zenon DEF Init, StackTypes
  <2>3. StepTypes
    BY BoundAssumption DEF Init, StepTypes, CallSteps, WorkerSteps
  <2>4. QueueTypes
    BY BoundAssumption DEF Init, QueueTypes
  <2> QED BY <2>1, <2>2, <2>3, <2>4, TypeParts
<1>2. TypeOK /\ [Next]_vars => TypeOK'
  <2> SUFFICES ASSUME TypeOK, [Next]_vars PROVE TypeOK'
    OBVIOUS
  <2>0. RequestTypes /\ ContextTypes /\ StackTypes /\ HistoryTypes /\ StepTypes /\ QueueTypes
    BY TypeParts
  <2> HIDE DEF TypeOK
  <2> USE <2>0, BoundAssumption
      DEF flags, radio, context, stack, history
  <2>1. ASSUME NEW c \in Callers, On(c) PROVE TypeOK'
    <3>1. RequestTypes' /\ HistoryTypes'
      BY <2>1, Zenon DEF On, BeginCall, RequestTypes, HistoryTypes
    <3>2. ContextTypes'
      BY <2>1, Zenon DEF On, BeginCall, ContextTypes
    <3>3. StackTypes'
      BY <2>1, Zenon DEF On, BeginCall, StackTypes
    <3>4. StepTypes'
      BY <2>1 DEF On, BeginCall, StepTypes
    <3>5. QueueTypes'
      BY <2>1 DEF On, QueueTypes
    <3> QED BY <3>1, <3>2, <3>3, <3>4, <3>5, TypeParts
  <2>2. ASSUME NEW c \in Callers, Off(c) PROVE TypeOK'
    <3>1. RequestTypes' /\ HistoryTypes'
      BY <2>2, Zenon DEF Off, BeginCall, GoTo, RequestTypes, HistoryTypes
    <3>2. ContextTypes'
      BY <2>2, Zenon DEF Off, BeginCall, GoTo, ContextTypes
    <3>3. StackTypes'
      BY <2>2, Zenon DEF Off, BeginCall, GoTo, StackTypes
    <3>4. StepTypes'
      <4>0. calls < MaxCalls /\ calls' = calls + 1 /\ faults' = faults
        BY <2>2, Zenon DEF Off, BeginCall
      <4>1. calls' \in 0 .. MaxCalls /\ faults' \in 0 .. MaxFaults
        BY <4>0 DEF StepTypes
      <4>2. readySem' \in {0, 1} /\ pc' \in [Callers -> CallSteps] /\ worker' \in WorkerSteps
        BY <2>2 DEF Off, BeginCall, GoTo, CallSteps, StepTypes
      <4> QED BY <2>2, <4>1, <4>2 DEF Off, StepTypes
    <3>5. QueueTypes'
      BY <2>2 DEF Off, QueueTypes
    <3> QED BY <3>1, <3>2, <3>3, <3>4, <3>5, TypeParts
  <2>3. ASSUME NEW c \in Callers, Reconnect(c) PROVE TypeOK'
    <3>1. RequestTypes' /\ HistoryTypes'
      BY <2>3, Zenon DEF Reconnect, BeginCall, GoTo, RequestTypes, HistoryTypes
    <3>2. ContextTypes'
      BY <2>3, Zenon DEF Reconnect, BeginCall, GoTo, ContextTypes
    <3>3. StackTypes'
      BY <2>3, Zenon DEF Reconnect, BeginCall, GoTo, StackTypes
    <3>4. StepTypes'
      <4>0. calls < MaxCalls /\ calls' = calls + 1 /\ faults' = faults
        BY <2>3, Zenon DEF Reconnect, BeginCall
      <4>1. calls' \in 0 .. MaxCalls /\ faults' \in 0 .. MaxFaults
        BY <4>0 DEF StepTypes
      <4>2. readySem' \in {0, 1} /\ pc' \in [Callers -> CallSteps] /\ worker' \in WorkerSteps
        BY <2>3 DEF Reconnect, BeginCall, GoTo, CallSteps, StepTypes
      <4> QED BY <2>3, <4>1, <4>2 DEF Reconnect, StepTypes
    <3>5. QueueTypes'
      BY <2>3 DEF Reconnect, QueueTypes
    <3> QED BY <3>1, <3>2, <3>3, <3>4, <3>5, TypeParts
  <2>4. ASSUME NEW c \in Callers, OffDown(c) PROVE TypeOK'
    <3>1. RequestTypes' /\ HistoryTypes'
      BY <2>4, Zenon DEF OffDown, Lowers, CloseLink, Post, GoTo, RequestTypes,
         HistoryTypes
    <3>2. ContextTypes'
      BY <2>4, Zenon DEF OffDown, Lowers, CloseLink, Post, GoTo, ContextTypes
    <3>3. StackTypes'
      BY <2>4, Zenon DEF OffDown, Lowers, CloseLink, Post, GoTo, StackTypes
    <3>4. StepTypes'
      BY <2>4 DEF OffDown, Lowers, GoTo, CallSteps, StepTypes
    <3>5. QueueTypes'
      BY <2>4, CloseTyped DEF OffDown, Lowers, GoTo, QueueTypes
    <3> QED BY <3>1, <3>2, <3>3, <3>4, <3>5, TypeParts
  <2>5. ASSUME NEW c \in Callers, OffDone(c) PROVE TypeOK'
    <3>1. RequestTypes' /\ HistoryTypes'
      BY <2>5, Zenon DEF OffDone, GoTo, RequestTypes, HistoryTypes
    <3>2. ContextTypes'
      BY <2>5, Zenon DEF OffDone, GoTo, ContextTypes
    <3>3. StackTypes'
      BY <2>5, Zenon DEF OffDone, GoTo, StackTypes
    <3>4. StepTypes'
      BY <2>5 DEF OffDone, GoTo, CallSteps, StepTypes
    <3>5. QueueTypes'
      BY <2>5 DEF OffDone, QueueTypes
    <3> QED BY <3>1, <3>2, <3>3, <3>4, <3>5, TypeParts
  <2>6. ASSUME NEW c \in Callers, ReconnectClear(c) PROVE TypeOK'
    <3>1. RequestTypes' /\ HistoryTypes'
      BY <2>6, Zenon DEF ReconnectClear, GoTo, RequestTypes, HistoryTypes
    <3>2. ContextTypes'
      BY <2>6, Zenon DEF ReconnectClear, GoTo, ContextTypes
    <3>3. StackTypes'
      BY <2>6, Zenon DEF ReconnectClear, GoTo, StackTypes
    <3>4. StepTypes'
      BY <2>6 DEF ReconnectClear, GoTo, CallSteps, StepTypes
    <3>5. QueueTypes'
      BY <2>6 DEF ReconnectClear, QueueTypes
    <3> QED BY <3>1, <3>2, <3>3, <3>4, <3>5, TypeParts
  <2>7. ASSUME NEW c \in Callers, Disconnects(c) PROVE TypeOK'
    <3>1. RequestTypes' /\ HistoryTypes'
      BY <2>7, Zenon DEF Disconnects, AfterDisconnect, CloseLink, Post, GoTo,
         RequestTypes, HistoryTypes
    <3>2. ContextTypes'
      BY <2>7, Zenon DEF Disconnects, AfterDisconnect, CloseLink, Post, GoTo,
         ContextTypes
    <3>3. StackTypes'
      BY <2>7, Zenon DEF Disconnects, AfterDisconnect, CloseLink, Post, GoTo,
         StackTypes
    <3>4. StepTypes'
      BY <2>7 DEF Disconnects, AfterDisconnect, GoTo, CallSteps, StepTypes
    <3>5. QueueTypes'
      BY <2>7, CloseTyped DEF Disconnects, AfterDisconnect, GoTo, QueueTypes
    <3> QED BY <3>1, <3>2, <3>3, <3>4, <3>5, TypeParts
  <2>8. ASSUME NEW c \in Callers, DisconnectFails(c) PROVE TypeOK'
    <3>1. RequestTypes' /\ HistoryTypes'
      BY <2>8, Zenon DEF DisconnectFails, AfterDisconnect, GoTo, RequestTypes,
         HistoryTypes
    <3>2. ContextTypes'
      BY <2>8, Zenon DEF DisconnectFails, AfterDisconnect, GoTo, ContextTypes
    <3>3. StackTypes'
      BY <2>8, Zenon DEF DisconnectFails, AfterDisconnect, GoTo, StackTypes
    <3>4. StepTypes'
      <4>1. calls' \in 0 .. MaxCalls /\ faults' \in 0 .. MaxFaults
        BY <2>8 DEF DisconnectFails, BeginCall, StepTypes
      <4>2. readySem' \in {0, 1} /\ pc' \in [Callers -> CallSteps] /\ worker' \in WorkerSteps
        BY <2>8 DEF DisconnectFails, AfterDisconnect, GoTo, CallSteps, StepTypes
      <4> QED BY <2>8, <4>1, <4>2 DEF DisconnectFails, StepTypes
    <3>5. QueueTypes'
      BY <2>8 DEF DisconnectFails, QueueTypes
    <3> QED BY <3>1, <3>2, <3>3, <3>4, <3>5, TypeParts
  <2>9. CASE AlreadyPrepared
    <3>1. RequestTypes' /\ HistoryTypes'
      BY <2>9, Zenon DEF AlreadyPrepared, RequestTypes, HistoryTypes
    <3>2. ContextTypes'
      BY <2>9, Zenon DEF AlreadyPrepared, ContextTypes
    <3>3. StackTypes'
      BY <2>9, Zenon DEF AlreadyPrepared, StackTypes
    <3>4. StepTypes'
      BY <2>9 DEF AlreadyPrepared, WorkerSteps, PrepareSteps, StepTypes
    <3>5. QueueTypes'
      BY <2>9 DEF AlreadyPrepared, QueueTypes
    <3> QED BY <3>1, <3>2, <3>3, <3>4, <3>5, TypeParts
  <2>10. CASE BeginPrepare
    <3>1. RequestTypes' /\ HistoryTypes'
      BY <2>10, Zenon DEF BeginPrepare, FreshSem, RequestTypes, HistoryTypes
    <3>2. ContextTypes'
      BY <2>10, Zenon DEF BeginPrepare, FreshSem, ContextTypes
    <3>3. StackTypes'
      BY <2>10, Zenon DEF BeginPrepare, FreshSem, StackTypes
    <3>4. StepTypes'
      BY <2>10 DEF BeginPrepare, FreshSem, WorkerSteps, PrepareSteps, StepTypes
    <3>5. QueueTypes'
      BY <2>10 DEF BeginPrepare, QueueTypes
    <3> QED BY <3>1, <3>2, <3>3, <3>4, <3>5, TypeParts
  <2>11. CASE LowerForAddress
    <3>1. RequestTypes' /\ HistoryTypes'
      BY <2>11, Zenon DEF LowerForAddress, CloseLink, Post, RequestTypes,
         HistoryTypes
    <3>2. ContextTypes'
      BY <2>11, Zenon DEF LowerForAddress, CloseLink, Post, ContextTypes
    <3>3. StackTypes'
      BY <2>11, Zenon DEF LowerForAddress, CloseLink, Post, StackTypes
    <3>4. StepTypes'
      BY <2>11 DEF LowerForAddress, WorkerSteps, PrepareSteps, StepTypes
    <3>5. QueueTypes'
      BY <2>11, CloseTyped DEF LowerForAddress, QueueTypes
    <3> QED BY <3>1, <3>2, <3>3, <3>4, <3>5, TypeParts
  <2>12. CASE DownReported
    <3>1. RequestTypes' /\ HistoryTypes'
      BY <2>12, Zenon DEF DownReported, RequestTypes, HistoryTypes
    <3>2. ContextTypes'
      BY <2>12, Zenon DEF DownReported, ContextTypes
    <3>3. StackTypes'
      BY <2>12, Zenon DEF DownReported, StackTypes
    <3>4. StepTypes'
      BY <2>12 DEF DownReported, WorkerSteps, PrepareSteps, StepTypes
    <3>5. QueueTypes'
      BY <2>12 DEF DownReported, QueueTypes
    <3> QED BY <3>1, <3>2, <3>3, <3>4, <3>5, TypeParts
  <2>13. CASE SetAddress
    <3>1. RequestTypes' /\ HistoryTypes'
      BY <2>13, Zenon DEF SetAddress, FreshSem, RequestTypes, HistoryTypes
    <3>2. ContextTypes'
      BY <2>13, Zenon DEF SetAddress, FreshSem, ContextTypes
    <3>3. StackTypes'
      BY <2>13, Zenon DEF SetAddress, FreshSem, StackTypes
    <3>4. StepTypes'
      BY <2>13 DEF SetAddress, FreshSem, WorkerSteps, PrepareSteps, StepTypes
    <3>5. QueueTypes'
      BY <2>13 DEF SetAddress, QueueTypes
    <3> QED BY <3>1, <3>2, <3>3, <3>4, <3>5, TypeParts
  <2>14. CASE InterfaceUp
    <3>1. RequestTypes' /\ HistoryTypes'
      BY <2>14, Zenon DEF InterfaceUp, Prepared, RequestTypes, HistoryTypes
    <3>2. ContextTypes'
      BY <2>14, Zenon DEF InterfaceUp, Prepared, ContextTypes
    <3>3. StackTypes'
      BY <2>14, Zenon DEF InterfaceUp, Prepared, StackTypes
    <3>4. StepTypes'
      BY <2>14 DEF InterfaceUp, Prepared, WorkerSteps, PrepareSteps, StepTypes
    <3>5. QueueTypes'
      BY <2>14 DEF InterfaceUp, QueueTypes
    <3> QED BY <3>1, <3>2, <3>3, <3>4, <3>5, TypeParts
  <2>15. CASE ReadinessReported
    <3>1. RequestTypes' /\ HistoryTypes'
      BY <2>15, Zenon DEF ReadinessReported, Prepared, Withdraw, RequestTypes,
         HistoryTypes
    <3>2. ContextTypes'
      BY <2>15, Zenon DEF ReadinessReported, Prepared, Withdraw, ContextTypes
    <3>3. StackTypes'
      BY <2>15, Zenon DEF ReadinessReported, Prepared, Withdraw, StackTypes
    <3>4. StepTypes'
      BY <2>15 DEF ReadinessReported, Prepared, Withdraw, WorkerSteps,
         PrepareSteps, StepTypes
    <3>5. QueueTypes'
      BY <2>15 DEF ReadinessReported, QueueTypes
    <3> QED BY <3>1, <3>2, <3>3, <3>4, <3>5, TypeParts
  <2>16. CASE PrepareFails
    <3>1. RequestTypes' /\ HistoryTypes'
      BY <2>16, Zenon DEF PrepareFails, Withdraw, RequestTypes, HistoryTypes
    <3>2. ContextTypes'
      BY <2>16, Zenon DEF PrepareFails, Withdraw, ContextTypes
    <3>3. StackTypes'
      BY <2>16, Zenon DEF PrepareFails, Withdraw, StackTypes
    <3>4. StepTypes'
      <4>1. calls' \in 0 .. MaxCalls /\ faults' \in 0 .. MaxFaults
        BY <2>16 DEF PrepareFails, BeginCall, StepTypes
      <4>2. readySem' \in {0, 1} /\ pc' \in [Callers -> CallSteps] /\ worker' \in WorkerSteps
        BY <2>16 DEF PrepareFails, Withdraw, WorkerSteps, PrepareSteps, StepTypes
      <4> QED BY <2>16, <4>1, <4>2 DEF PrepareFails, StepTypes
    <3>5. QueueTypes'
      BY <2>16 DEF PrepareFails, QueueTypes
    <3> QED BY <3>1, <3>2, <3>3, <3>4, <3>5, TypeParts
  <2>17. CASE Serve
    <3>1. RequestTypes' /\ HistoryTypes'
      BY <2>17, Zenon DEF Serve, AskOrIdle, RequestTypes, HistoryTypes
    <3>2. ContextTypes'
      BY <2>17, Zenon DEF Serve, AskOrIdle, ContextTypes
    <3>3. StackTypes'
      BY <2>17, Zenon DEF Serve, AskOrIdle, StackTypes
    <3>4. StepTypes'
      BY <2>17 DEF Serve, AskOrIdle, WorkerSteps, PrepareSteps, StepTypes
    <3>5. QueueTypes'
      BY <2>17 DEF Serve, QueueTypes
    <3> QED BY <3>1, <3>2, <3>3, <3>4, <3>5, TypeParts
  <2>18. CASE ReadyAfterAll
    <3>1. RequestTypes' /\ HistoryTypes'
      BY <2>18, Zenon DEF ReadyAfterAll, AskOrIdle, RequestTypes, HistoryTypes
    <3>2. ContextTypes'
      BY <2>18, Zenon DEF ReadyAfterAll, AskOrIdle, ContextTypes
    <3>3. StackTypes'
      BY <2>18, Zenon DEF ReadyAfterAll, AskOrIdle, StackTypes
    <3>4. StepTypes'
      BY <2>18 DEF ReadyAfterAll, AskOrIdle, WorkerSteps, PrepareSteps, StepTypes
    <3>5. QueueTypes'
      BY <2>18 DEF ReadyAfterAll, QueueTypes
    <3> QED BY <3>1, <3>2, <3>3, <3>4, <3>5, TypeParts
  <2>19. CASE StillUnready
    <3>1. RequestTypes' /\ HistoryTypes'
      BY <2>19, Zenon DEF StillUnready, RequestTypes, HistoryTypes
    <3>2. ContextTypes'
      BY <2>19, Zenon DEF StillUnready, ContextTypes
    <3>3. StackTypes'
      BY <2>19, Zenon DEF StillUnready, StackTypes
    <3>4. StepTypes'
      BY <2>19 DEF StillUnready, WorkerSteps, PrepareSteps, StepTypes
    <3>5. QueueTypes'
      BY <2>19 DEF StillUnready, QueueTypes
    <3> QED BY <3>1, <3>2, <3>3, <3>4, <3>5, TypeParts
  <2>20. CASE ConnectBegins
    <3>1. RequestTypes' /\ HistoryTypes'
      BY <2>20, Zenon DEF ConnectBegins, RequestTypes, HistoryTypes
    <3>2. ContextTypes'
      BY <2>20, Zenon DEF ConnectBegins, ContextTypes
    <3>3. StackTypes'
      BY <2>20, Zenon DEF ConnectBegins, StackTypes
    <3>4. StepTypes'
      BY <2>20 DEF ConnectBegins, WorkerSteps, PrepareSteps, StepTypes
    <3>5. QueueTypes'
      BY <2>20 DEF ConnectBegins, QueueTypes
    <3> QED BY <3>1, <3>2, <3>3, <3>4, <3>5, TypeParts
  <2>21. CASE ConnectRefused
    <3>1. RequestTypes' /\ HistoryTypes'
      BY <2>21, Zenon DEF ConnectRefused, RequestTypes, HistoryTypes
    <3>2. ContextTypes'
      BY <2>21, Zenon DEF ConnectRefused, ContextTypes
    <3>3. StackTypes'
      BY <2>21, Zenon DEF ConnectRefused, StackTypes
    <3>4. StepTypes'
      BY <2>21 DEF ConnectRefused, WorkerSteps, PrepareSteps, StepTypes
    <3>5. QueueTypes'
      BY <2>21 DEF ConnectRefused, QueueTypes
    <3> QED BY <3>1, <3>2, <3>3, <3>4, <3>5, TypeParts
  <2>22. CASE StopWaiting
    <3>1. RequestTypes' /\ HistoryTypes'
      BY <2>22, Zenon DEF StopWaiting, RequestTypes, HistoryTypes
    <3>2. ContextTypes'
      BY <2>22, Zenon DEF StopWaiting, ContextTypes
    <3>3. StackTypes'
      BY <2>22, Zenon DEF StopWaiting, StackTypes
    <3>4. StepTypes'
      BY <2>22 DEF StopWaiting, WorkerSteps, PrepareSteps, StepTypes
    <3>5. QueueTypes'
      BY <2>22 DEF StopWaiting, QueueTypes
    <3> QED BY <3>1, <3>2, <3>3, <3>4, <3>5, TypeParts
  <2>23. CASE Release
    <3>1. RequestTypes' /\ HistoryTypes'
      BY <2>23, Zenon DEF Release, RequestTypes, HistoryTypes
    <3>2. ContextTypes'
      BY <2>23, Zenon DEF Release, ContextTypes
    <3>3. StackTypes'
      BY <2>23, Zenon DEF Release, StackTypes
    <3>4. StepTypes'
      BY <2>23 DEF Release, WorkerSteps, PrepareSteps, StepTypes
    <3>5. QueueTypes'
      BY <2>23 DEF Release, QueueTypes
    <3> QED BY <3>1, <3>2, <3>3, <3>4, <3>5, TypeParts
  <2>24. CASE HandleEvent
    <3>1. RequestTypes' /\ HistoryTypes'
      BY <2>24, Zenon DEF HandleEvent, ConnectSucceeds, ConnectFails,
         AssociationEnds, StoreReady, RequestTypes, HistoryTypes
    <3>2. ContextTypes'
      BY <2>24, Zenon DEF HandleEvent, ConnectSucceeds, ConnectFails,
         AssociationEnds, StoreReady, ContextTypes
    <3>3. StackTypes'
      BY <2>24, Zenon DEF HandleEvent, ConnectSucceeds, ConnectFails,
         AssociationEnds, StoreReady, StackTypes
    <3>4. StepTypes'
      BY <2>24 DEF HandleEvent, ConnectSucceeds, ConnectFails, AssociationEnds,
         StoreReady, StepTypes
    <3>5. QueueTypes'
      BY <2>24, TailTyped DEF HandleEvent
    <3> QED BY <3>1, <3>2, <3>3, <3>4, <3>5, TypeParts
  <2>25. CASE SupplicantFollows
    <3>1. RequestTypes' /\ HistoryTypes'
      BY <2>25, Zenon DEF SupplicantFollows, Environment, Post, RequestTypes,
         HistoryTypes
    <3>2. ContextTypes'
      BY <2>25, Zenon DEF SupplicantFollows, Environment, Post, ContextTypes
    <3>3. StackTypes'
      BY <2>25, Zenon DEF SupplicantFollows, Environment, Post, StackTypes
    <3>4. StepTypes'
      BY <2>25 DEF SupplicantFollows, Environment, StepTypes
    <3>5. QueueTypes'
      BY <2>25, PostTyped DEF SupplicantFollows, Environment, EventKinds, QueueTypes
    <3> QED BY <3>1, <3>2, <3>3, <3>4, <3>5, TypeParts
  <2>26. CASE Associates
    <3>1. RequestTypes' /\ HistoryTypes'
      BY <2>26, Zenon DEF Associates, Environment, Post, RequestTypes, HistoryTypes
    <3>2. ContextTypes'
      BY <2>26, Zenon DEF Associates, Environment, Post, ContextTypes
    <3>3. StackTypes'
      BY <2>26, Zenon DEF Associates, Environment, Post, StackTypes
    <3>4. StepTypes'
      BY <2>26 DEF Associates, Environment, StepTypes
    <3>5. QueueTypes'
      BY <2>26, PostTyped DEF Associates, Environment, EventKinds, QueueTypes
    <3> QED BY <3>1, <3>2, <3>3, <3>4, <3>5, TypeParts
  <2>27. CASE AssociationFails
    <3>1. RequestTypes' /\ HistoryTypes'
      BY <2>27, Zenon DEF AssociationFails, Environment, Post, RequestTypes,
         HistoryTypes
    <3>2. ContextTypes'
      BY <2>27, Zenon DEF AssociationFails, Environment, Post, ContextTypes
    <3>3. StackTypes'
      BY <2>27, Zenon DEF AssociationFails, Environment, Post, StackTypes
    <3>4. StepTypes'
      BY <2>27 DEF AssociationFails, Environment, StepTypes
    <3>5. QueueTypes'
      BY <2>27, PostTyped DEF AssociationFails, Environment, EventKinds, QueueTypes
    <3> QED BY <3>1, <3>2, <3>3, <3>4, <3>5, TypeParts
  <2>28. CASE Lease
    <3>1. RequestTypes' /\ HistoryTypes'
      BY <2>28, Zenon DEF Lease, Environment, Post, RequestTypes, HistoryTypes
    <3>2. ContextTypes'
      BY <2>28, Zenon DEF Lease, Environment, Post, ContextTypes
    <3>3. StackTypes'
      BY <2>28, Zenon DEF Lease, Environment, Post, StackTypes
    <3>4. StepTypes'
      BY <2>28 DEF Lease, Environment, StepTypes
    <3>5. QueueTypes'
      BY <2>28, PostTyped DEF Lease, Environment, EventKinds, QueueTypes
    <3> QED BY <3>1, <3>2, <3>3, <3>4, <3>5, TypeParts
  <2>29. CASE AccessPointLeaves
    <3>1. RequestTypes' /\ HistoryTypes'
      BY <2>29, Zenon DEF AccessPointLeaves, Environment, CloseLink, Post,
         RequestTypes, HistoryTypes
    <3>2. ContextTypes'
      BY <2>29, Zenon DEF AccessPointLeaves, Environment, CloseLink, Post,
         ContextTypes
    <3>3. StackTypes'
      BY <2>29, Zenon DEF AccessPointLeaves, Environment, CloseLink, Post,
         StackTypes
    <3>4. StepTypes'
      BY <2>29 DEF AccessPointLeaves, Environment, StepTypes
    <3>5. QueueTypes'
      BY <2>29, CloseTyped DEF AccessPointLeaves, Environment, QueueTypes
    <3> QED BY <3>1, <3>2, <3>3, <3>4, <3>5, TypeParts
  <2>30. CASE ScanBegins
    <3>1. RequestTypes' /\ HistoryTypes'
      BY <2>30, Zenon DEF ScanBegins, Environment, RequestTypes, HistoryTypes
    <3>2. ContextTypes'
      BY <2>30, Zenon DEF ScanBegins, Environment, ContextTypes
    <3>3. StackTypes'
      BY <2>30, Zenon DEF ScanBegins, Environment, StackTypes
    <3>4. StepTypes'
      BY <2>30 DEF ScanBegins, Environment, StepTypes
    <3>5. QueueTypes'
      BY <2>30 DEF ScanBegins, Environment, QueueTypes
    <3> QED BY <3>1, <3>2, <3>3, <3>4, <3>5, TypeParts
  <2>31. CASE ScanEnds
    <3>1. RequestTypes' /\ HistoryTypes'
      BY <2>31, Zenon DEF ScanEnds, Environment, RequestTypes, HistoryTypes
    <3>2. ContextTypes'
      BY <2>31, Zenon DEF ScanEnds, Environment, ContextTypes
    <3>3. StackTypes'
      BY <2>31, Zenon DEF ScanEnds, Environment, StackTypes
    <3>4. StepTypes'
      BY <2>31 DEF ScanEnds, Environment, StepTypes
    <3>5. QueueTypes'
      BY <2>31 DEF ScanEnds, Environment, QueueTypes
    <3> QED BY <3>1, <3>2, <3>3, <3>4, <3>5, TypeParts
  <2>33. ASSUME NEW c \in Callers, OffDownFails(c) PROVE TypeOK'
    <3>1. RequestTypes' /\ HistoryTypes'
      BY <2>33, Zenon DEF OffDownFails, GoTo, RequestTypes, HistoryTypes
    <3>2. ContextTypes'
      BY <2>33, Zenon DEF OffDownFails, GoTo, ContextTypes
    <3>3. StackTypes'
      BY <2>33, Zenon DEF OffDownFails, GoTo, StackTypes
    <3>4. StepTypes'
      <4>1. faults' \in 0..MaxFaults
        <5>1. faults \in 0..MaxFaults /\ faults < MaxFaults /\ faults' = faults + 1
          BY <2>33, <2>0, Zenon DEF OffDownFails, StepTypes
        <5> QED BY <5>1, BoundAssumption
      <4>2. /\ pc' \in [Callers -> CallSteps] /\ worker' = worker
            /\ calls' = calls /\ wanted' = wanted /\ readySem' = readySem
        BY <2>33 DEF OffDownFails, GoTo, CallSteps, StepTypes, radio
      <4> QED BY <4>1, <4>2 DEF StepTypes
    <3>5. QueueTypes'
      BY <2>33 DEF OffDownFails, QueueTypes
    <3> QED BY <3>1, <3>2, <3>3, <3>4, <3>5, TypeParts
  <2>32. CASE UNCHANGED vars
    BY <2>32 DEF vars, TypeOK, RequestTypes, HistoryTypes, ContextTypes,
       StackTypes, StepTypes, QueueTypes
  <2> QED
    BY <2>1, <2>2, <2>3, <2>4, <2>5, <2>6, <2>7, <2>8, <2>9, <2>10, <2>11,
       <2>12, <2>13, <2>14, <2>15, <2>16, <2>17, <2>18, <2>19, <2>20, <2>21,
       <2>22, <2>23, <2>24, <2>25, <2>26, <2>27, <2>28, <2>29, <2>30, <2>31,
       <2>32, <2>33
    DEF Next, CallStep, WorkerStep
<1> QED BY <1>1, <1>2, PTL DEF Spec

-----------------------------------------------------------------------------
(* The worker withdraws no request that its preparation did not fail.       *)

OffUnderWay(c) == pc[c] \in {"off disconnect", "off down", "off done"}

\* Reports of the interface's readiness still to be handled.
News(i) == events[i] \in {"ready", "not ready"}
NoNews == \A i \in 1 .. Len(events) : ~News(i)

\* Before it changes the interface a preparation finds no report on its way;
\* taking it down brings one report, which the worker waits for; raising it
\* brings nothing but "ready".
BeforeChange ==
  worker \in {"lower", "address", "raise"} => NoNews /\ usable = ifUp
BeforeWait == worker \in {"lower", "raise"} => ~(readySem = 1)
Lowering ==
  worker = "await down" =>
    /\ ~ifUp
    /\ usable => NoNews
    /\ readySem = 1 => NoNews /\ ~usable
    /\ \A i, j \in 1 .. Len(events) : News(i) /\ News(j) => i = j
Raising ==
  worker = "await" =>
    /\ ifUp
    /\ \A i \in 1 .. Len(events) : events[i] # "not ready"
    /\ readySem = 1 => ready
Foreseen == BeforeChange /\ BeforeWait /\ Lowering /\ Raising

\* An off under way has taken the request back, and no preparation is under
\* way with it; a request is only missing after a preparation that failed.
OffAlone ==
  \A c \in Callers : OffUnderWay(c) => ~requested /\ worker \notin PrepareSteps
Missing == wanted = "on" /\ ~requested => failed
KeptInv == Undisturbed => OffAlone /\ Missing /\ Foreseen

\* The queue after an event is posted, and after one is handled.
LEMMA PostedQueue ==
  ASSUME QueueTypes, NEW e, Post(e)
  PROVE  /\ Len(events) \in Nat /\ Len(events') = Len(events) + 1
         /\ events'[Len(events) + 1] = e
         /\ \A i \in 1 .. Len(events) : events'[i] = events[i]
BY DEF QueueTypes, Post

LEMMA HandledQueue ==
  ASSUME QueueTypes, events # <<>>, events' = Tail(events)
  PROVE  /\ Len(events) \in Nat \ {0} /\ Len(events') = Len(events) - 1
         /\ Head(events) = events[1]
         /\ \A i \in 1 .. Len(events') : events'[i] = events[i + 1]
BY DEF QueueTypes

\* Events that report no readiness do not disturb a preparation.
Uninteresting ==
  UNCHANGED events \/ \E e \in EventKinds : e \notin {"ready", "not ready"} /\ Post(e)

LEMMA NoNewsPosted ==
  ASSUME QueueTypes, Uninteresting
  PROVE  /\ NoNews => NoNews'
         /\ (\A i, j \in 1 .. Len(events) : News(i) /\ News(j) => i = j)
              => (\A i, j \in 1 .. Len(events) : News(i) /\ News(j) => i = j)'
         /\ (\A i \in 1 .. Len(events) : events[i] # "not ready")
              => (\A i \in 1 .. Len(events) : events[i] # "not ready")'
<1>1. CASE UNCHANGED events
  BY <1>1 DEF NoNews, News
<1>2. ASSUME NEW e \in EventKinds, e \notin {"ready", "not ready"}, Post(e)
      PROVE  /\ NoNews => NoNews'
             /\ (\A i, j \in 1 .. Len(events) : News(i) /\ News(j) => i = j)
                  => (\A i, j \in 1 .. Len(events) : News(i) /\ News(j) => i = j)'
             /\ (\A i \in 1 .. Len(events) : events[i] # "not ready")
                  => (\A i \in 1 .. Len(events) : events[i] # "not ready")'
  <2>1. /\ Len(events) \in Nat /\ Len(events') = Len(events) + 1
        /\ events'[Len(events) + 1] = e
        /\ \A i \in 1 .. Len(events) : events'[i] = events[i]
    BY <1>2, PostedQueue
  <2>2. \A i \in 1 .. Len(events') :
          \/ i \in 1 .. Len(events) /\ events'[i] = events[i]
          \/ events'[i] = e
    BY <2>1
  <2> QED BY <1>2, <2>2 DEF NoNews, News
<1> QED BY <1>1, <1>2 DEF Uninteresting

LEMMA CloseUninteresting ==
  ASSUME CloseLink PROVE Uninteresting
BY DEF CloseLink, Uninteresting, EventKinds

LEMMA ForeseenUnmoved ==
  ASSUME QueueTypes, Foreseen, Uninteresting,
         UNCHANGED <<worker, ifUp, usable, readySem, ready>>
  PROVE  Foreseen'
<1>1. BeforeChange'
  BY NoNewsPosted DEF Foreseen, BeforeChange
<1>2. BeforeWait'
  BY DEF Foreseen, BeforeWait
<1>3. Lowering'
  BY NoNewsPosted DEF Foreseen, Lowering
<1>4. Raising'
  BY NoNewsPosted DEF Foreseen, Raising
<1> QED BY <1>1, <1>2, <1>3, <1>4 DEF Foreseen

LEMMA ForeseenOutside ==
  ASSUME worker' \notin PrepareSteps
  PROVE  Foreseen'
BY DEF Foreseen, BeforeChange, BeforeWait, Lowering, Raising, PrepareSteps

\* The supplicant reports a change of the interface once.
LEMMA SupplicantForeseen ==
  ASSUME QueueTypes, StackTypes, Foreseen, SupplicantFollows
  PROVE  Foreseen'
<1>1. /\ UNCHANGED <<worker, ifUp, readySem, ready>> /\ usable # ifUp /\ usable' = ifUp
      /\ Post(IF ifUp THEN "ready" ELSE "not ready")
  BY DEF SupplicantFollows, Environment, radio
<1>2. /\ Len(events) \in Nat /\ Len(events') = Len(events) + 1
      /\ ifUp => events'[Len(events) + 1] = "ready"
      /\ \A i \in 1 .. Len(events) : events'[i] = events[i]
  BY <1>1, PostedQueue
<1>0. \A i \in 1 .. Len(events') :
        i = Len(events) + 1 \/ (i \in 1 .. Len(events) /\ events'[i] = events[i])
  BY <1>2
<1>3. BeforeChange' /\ BeforeWait'
  BY <1>1 DEF Foreseen, BeforeChange, BeforeWait
<1>4. Lowering'
  <2> SUFFICES ASSUME worker' = "await down"
               PROVE  /\ ~ifUp' /\ ~usable' /\ ~(readySem' = 1)
                      /\ (\A i, j \in 1 .. Len(events) : News(i) /\ News(j) => i = j)'
    BY DEF Lowering
  <2>1. ~ifUp /\ usable /\ NoNews /\ ~(readySem = 1)
    <3>1. ~ifUp /\ usable
      BY <1>1, Zenon DEF Foreseen, Lowering, StackTypes
    <3> QED BY <1>1, <3>1, Zenon DEF Foreseen, Lowering
  <2>2. \A i \in 1 .. Len(events') : News(i)' => i = Len(events) + 1
    BY <1>0, <2>1 DEF NoNews, News
  <2>3. (\A i, j \in 1 .. Len(events) : News(i) /\ News(j) => i = j)'
    BY <2>2, Zenon
  <2>4. ~ifUp' /\ ~usable'
    BY <1>1, <2>1, Zenon
  <2>5. ~(readySem' = 1)
    BY <1>1, <2>1, Zenon
  <2> QED BY <2>3, <2>4, <2>5, Zenon
<1>5. Raising'
  <2> SUFFICES ASSUME worker' = "await"
               PROVE  /\ ifUp' /\ (readySem' = 1 => ready')
                      /\ \A i \in 1 .. Len(events') : events'[i] # "not ready"
    BY DEF Raising
  <2>1. /\ ifUp /\ (readySem = 1 => ready)
        /\ \A i \in 1 .. Len(events) : events[i] # "not ready"
    BY <1>1 DEF Foreseen, Raising
  <2>2. \A i \in 1 .. Len(events') : events'[i] # "not ready"
    BY <1>0, <1>2, <2>1
  <2>3. ifUp' /\ (readySem' = 1 => ready')
    BY <1>1, <2>1, Zenon
  <2> QED BY <2>2, <2>3
<1> QED BY <1>3, <1>4, <1>5 DEF Foreseen

\* wifi_ready_cb stores the report and wakes the worker.
LEMMA HandleForeseen ==
  ASSUME QueueTypes, StepTypes, Foreseen, HandleEvent
  PROVE  Foreseen'
<1>1. UNCHANGED <<worker, ifUp, usable>> /\ events # <<>> /\ events' = Tail(events)
  BY DEF HandleEvent
<1>2. /\ Len(events) \in Nat \ {0} /\ Len(events') = Len(events) - 1
      /\ Head(events) = events[1]
      /\ \A i \in 1 .. Len(events') : events'[i] = events[i + 1]
  BY <1>1, HandledQueue
<1>0. /\ \A i, j \in 1 .. Len(events') : i + 1 = j + 1 => i = j
      /\ \A i \in 1 .. Len(events') : i + 1 # 1
  BY <1>2
<1>3. \/ ~News(1) /\ UNCHANGED <<ready, readySem>>
      \/ News(1) /\ (ready' <=> events[1] = "ready") /\ readySem' = 1
  BY <1>2 DEF HandleEvent, News, StoreReady
<1>4. 1 \in 1 .. Len(events) /\ \A i \in 1 .. Len(events') : i + 1 \in 1 .. Len(events)
  BY <1>2
<1>5. NoNews => ~News(1) /\ NoNews'
  BY <1>2, <1>4 DEF NoNews, News
<1>6. BeforeChange'
  BY <1>1, <1>5 DEF Foreseen, BeforeChange
<1>7. BeforeWait'
  BY <1>1, <1>3, <1>5 DEF Foreseen, BeforeWait, BeforeChange
<1>8. Lowering'
  <2> SUFFICES ASSUME worker' = "await down" PROVE Lowering'
    BY DEF Lowering
  <2>1. /\ ~ifUp /\ (usable => NoNews) /\ (readySem = 1 => NoNews /\ ~usable)
        /\ \A i, j \in 1 .. Len(events) : News(i) /\ News(j) => i = j
    BY <1>1 DEF Foreseen, Lowering
  <2>2. (\A i, j \in 1 .. Len(events) : News(i) /\ News(j) => i = j)'
    <3> SUFFICES ASSUME NEW i \in 1 .. Len(events'), NEW j \in 1 .. Len(events'),
                        News(i)', News(j)'
                 PROVE  i = j
      OBVIOUS
    <3>1. News(i + 1) /\ News(j + 1)
      BY <1>2 DEF News
    <3>2. i + 1 = j + 1
      BY <1>4, <2>1, <3>1, Zenon
    <3> QED BY <1>0, <3>2, Zenon
  <2>3. CASE News(1)
    <3>1. NoNews'
      <4> SUFFICES ASSUME NEW i \in 1 .. Len(events'), News(i)' PROVE FALSE
        BY DEF NoNews
      <4>1. News(i + 1)
        BY <1>2 DEF News
      <4>2. i + 1 = 1
        BY <1>4, <2>1, <2>3, <4>1, Zenon
      <4> QED BY <1>0, <4>2, Zenon
    <3> QED BY <1>1, <1>5, <2>1, <2>2, <2>3, <3>1 DEF Lowering
  <2>4. CASE ~News(1)
    BY <1>1, <1>3, <1>5, <2>1, <2>2, <2>4 DEF Lowering
  <2> QED BY <2>3, <2>4
<1>9. Raising'
  BY <1>1, <1>2, <1>3, <1>4 DEF Foreseen, Raising, News
<1> QED BY <1>6, <1>7, <1>8, <1>9 DEF Foreseen

\* Each step of wifi_prepare_once leaves what the next one relies on.
LEMMA WorkerForeseen ==
  ASSUME TypeOK, Foreseen, WorkerStep, Undisturbed'
  PROVE  Foreseen'
<1>0. QueueTypes /\ StackTypes /\ StepTypes
  BY TypeParts
<1>1. CASE BeginPrepare
  <2>1. NoNews /\ usable = ifUp
    <3>1. ReadinessSettled
      BY <1>1, Zenon DEF BeginPrepare, Undisturbed
    <3>2. DOMAIN events = 1 .. Len(events)
      BY <1>0 DEF QueueTypes
    <3> QED BY <3>1, <3>2, Zenon DEF ReadinessSettled, NoNews, News
  <2>2. /\ UNCHANGED <<events, usable, ifUp>>
        /\ \/ worker' \in {"raise", "lower"} /\ ~(readySem' = 1)
           \/ worker' = "address"
    BY <1>1 DEF BeginPrepare, stack, FreshSem
  <2> QED BY <2>1, <2>2 DEF Foreseen, BeforeChange, BeforeWait, Lowering, Raising,
             NoNews, News
<1>2. CASE LowerForAddress
  <2>1. /\ worker = "lower" /\ worker' = "await down" /\ ifUp' = FALSE
        /\ UNCHANGED <<usable, readySem>> /\ CloseLink
    BY <1>2 DEF LowerForAddress, radio
  <2>2. NoNews /\ Uninteresting /\ ~(readySem = 1)
    BY <2>1, CloseUninteresting, Zenon DEF Foreseen, BeforeChange, BeforeWait
  <2>3. NoNews'
    BY <1>0, <2>2, NoNewsPosted
  <2> QED BY <2>1, <2>2, <2>3 DEF Foreseen, BeforeChange, BeforeWait, Lowering,
             Raising, NoNews
<1>3. CASE DownReported
  <2>1. /\ worker = "await down" /\ worker' = "address" /\ readySem = 1
        /\ UNCHANGED <<events, usable, ifUp>>
    BY <1>3 DEF DownReported, stack
  <2>2. NoNews /\ ~ifUp /\ ~usable
    BY <2>1, Zenon DEF Foreseen, Lowering
  <2>3. NoNews' /\ usable' = ifUp'
    BY <1>0, <2>1, <2>2 DEF NoNews, News, StackTypes
  <2> QED BY <2>1, <2>3 DEF Foreseen, BeforeChange, BeforeWait, Lowering, Raising
<1>4. CASE SetAddress
  <2>1. /\ worker = "address" /\ worker' = "raise" /\ readySem' = FreshSem
        /\ UNCHANGED <<events, usable, ifUp>>
    BY <1>4 DEF SetAddress
  <2>2. NoNews /\ usable = ifUp
    BY <2>1 DEF Foreseen, BeforeChange
  <2>3. NoNews' /\ usable' = ifUp'
    BY <2>1, <2>2 DEF NoNews, News
  <2>4. ~(readySem' = 1)
    BY <2>1 DEF FreshSem
  <2> QED BY <2>1, <2>3, <2>4, Zenon DEF Foreseen, BeforeChange, BeforeWait,
     Lowering,
             Raising
<1>5. CASE InterfaceUp
  <2>1. CASE ready
    BY <1>5, <2>1, ForeseenOutside DEF InterfaceUp, Prepared, PrepareSteps
  <2>2. CASE ~ready
    <3>1. /\ worker = "raise" /\ worker' = "await" /\ ifUp' = TRUE
          /\ UNCHANGED <<events, readySem>>
      BY <1>5, <2>2 DEF InterfaceUp
    <3>2. NoNews /\ ~(readySem = 1)
      BY <3>1 DEF Foreseen, BeforeChange, BeforeWait
    <3>3. readySem' # 1
      BY <3>1, <3>2
    <3>4. \A i \in 1 .. Len(events') : events'[i] # "not ready"
      BY <3>1, <3>2 DEF NoNews, News
    <3>5. Raising'
      BY <3>1, <3>3, <3>4, Zenon DEF Raising
    <3> QED BY <3>1, <3>5 DEF Foreseen, BeforeChange, BeforeWait, Lowering
  <2> QED BY <2>1, <2>2
<1>6. CASE ReadinessReported \/ PrepareFails \/ AlreadyPrepared \/ StillUnready
             \/ ConnectBegins \/ ConnectRefused \/ StopWaiting \/ Release
  BY <1>6, ForeseenOutside DEF ReadinessReported, PrepareFails, AlreadyPrepared,
     Prepared,
     Withdraw, StillUnready, ConnectBegins, ConnectRefused, StopWaiting, Release,
     PrepareSteps
<1>7. CASE Serve \/ ReadyAfterAll
  BY <1>7, ForeseenOutside DEF Serve, ReadyAfterAll, AskOrIdle, PrepareSteps
<1> QED BY <1>1, <1>2, <1>3, <1>4, <1>5, <1>6, <1>7 DEF WorkerStep
LEMMA KeptCommands ==
  ASSUME TypeOK, OffInv, KeptInv, NEW c \in Callers,
         On(c) \/ Off(c) \/ Reconnect(c) \/ CallStep(c)
  PROVE  KeptInv'
<1> SUFFICES ASSUME Undisturbed' PROVE OffAlone' /\ Missing' /\ Foreseen'
  BY DEF KeptInv
<1>0. QueueTypes /\ DOMAIN pc = Callers
  BY TypeParts DEF OffInv
<1>1. CASE On(c)
  <2>1. /\ pc' = pc /\ requested' /\ Quiet /\ Undisturbed
        /\ UNCHANGED <<worker, events, ifUp, usable, readySem, ready>>
    BY <1>1 DEF On, BeginCall, Undisturbed, radio, stack
  <2>2. OffAlone'
    BY <2>1 DEF Quiet, OffAlone, OffUnderWay
  <2>3. Foreseen'
    BY <1>0, <2>1, ForeseenUnmoved DEF KeptInv, Uninteresting
  <2> QED BY <2>1, <2>2, <2>3 DEF Missing
<1>2. CASE Off(c)
  <2>1. /\ ~requested' /\ worker' \notin PrepareSteps /\ wanted' = "off"
    BY <1>2 DEF Off, Undisturbed, Preparing
  <2> QED BY <2>1, ForeseenOutside DEF OffAlone, Missing
<1>3. CASE Reconnect(c)
  <2> DEFINE step == IF ~requested THEN "none"
                     ELSE IF connected THEN "reconnect disconnect"
                     ELSE "reconnect clear"
  <2>1. /\ pc' = [pc EXCEPT ![c] = step] /\ requested' /\ Quiet /\ Undisturbed
        /\ UNCHANGED <<worker, events, ifUp, usable, readySem, ready>>
    BY <1>3 DEF Reconnect, BeginCall, GoTo, Undisturbed, radio, stack
  <2>2. step \notin {"off disconnect", "off down", "off done"}
    OBVIOUS
  <2> HIDE DEF step
  <2>3. OffAlone'
    BY <1>0, <2>1, <2>2 DEF Quiet, OffAlone, OffUnderWay
  <2>4. Foreseen'
    BY <1>0, <2>1, ForeseenUnmoved DEF KeptInv, Uninteresting
  <2> QED BY <2>1, <2>3, <2>4 DEF Missing
<1>4. CASE OffDown(c) \/ OffDownFails(c) \/ OffDone(c)
  <2>1. OffUnderWay(c) /\ UNCHANGED <<requested, worker, wanted, failed,
                                      overlapped, crossed>>
    BY <1>4 DEF OffDown, OffDownFails, OffDone, OffUnderWay, flags, history
  <2>2. Undisturbed
    BY <2>1 DEF Undisturbed
  <2>3. Missing /\ ~requested /\ worker \notin PrepareSteps
    BY <2>1, <2>2 DEF KeptInv, OffAlone
  <2> QED BY <2>1, <2>3, ForeseenOutside DEF OffAlone, Missing
<1>5. CASE ReconnectClear(c) \/ Disconnects(c) \/ DisconnectFails(c)
  <2>1. UNCHANGED <<requested, worker, wanted, failed, overlapped, crossed>>
    BY <1>5 DEF ReconnectClear, Disconnects, DisconnectFails, flags, history
  <2>2. Undisturbed
    BY <2>1 DEF Undisturbed
  <2>3. \A d \in Callers : OffUnderWay(d)' => OffUnderWay(d)
    BY <1>0, <1>5 DEF ReconnectClear, Disconnects, DisconnectFails, AfterDisconnect,
       GoTo, OffUnderWay
  <2>4. OffAlone' /\ Missing'
    BY <2>1, <2>2, <2>3 DEF KeptInv, OffAlone, Missing
  <2>5. Uninteresting /\ UNCHANGED <<ifUp, usable, readySem, ready>>
    BY <1>5, CloseUninteresting DEF ReconnectClear, Disconnects, DisconnectFails,
       Uninteresting, stack, radio
  <2> QED BY <1>0, <2>1, <2>2, <2>4, <2>5, ForeseenUnmoved DEF KeptInv
<1> QED BY <1>1, <1>2, <1>3, <1>4, <1>5 DEF CallStep

\* What the worker leaves alone, and that it prepares on request only.
LEMMA WorkerHistory ==
  ASSUME WorkerStep
  PROVE  /\ pc' = pc /\ overlapped' = overlapped /\ wanted' = wanted
         /\ crossed => crossed'
<1>1. UNCHANGED <<pc, overlapped, wanted>>
  <2>1. CASE BeginPrepare \/ PrepareFails
    BY <2>1 DEF BeginPrepare, PrepareFails
  <2>2. CASE \/ AlreadyPrepared \/ LowerForAddress \/ DownReported \/ SetAddress
             \/ InterfaceUp \/ ReadinessReported
    BY <2>2 DEF AlreadyPrepared, LowerForAddress, DownReported, SetAddress,
       InterfaceUp,
       ReadinessReported, history
  <2>3. CASE \/ Serve \/ ReadyAfterAll \/ StillUnready \/ ConnectBegins
             \/ ConnectRefused \/ StopWaiting \/ Release
    BY <2>3 DEF Serve, ReadyAfterAll, StillUnready, ConnectBegins, ConnectRefused,
       StopWaiting, Release, history
  <2> QED BY <2>1, <2>2, <2>3 DEF WorkerStep
<1>2. crossed => crossed'
  <2>1. CASE BeginPrepare
    BY <2>1 DEF BeginPrepare
  <2>2. CASE \/ AlreadyPrepared \/ LowerForAddress \/ DownReported \/ SetAddress
             \/ InterfaceUp \/ ReadinessReported \/ PrepareFails
    BY <2>2 DEF AlreadyPrepared, LowerForAddress, DownReported, SetAddress,
       InterfaceUp,
       ReadinessReported, PrepareFails, history
  <2>3. CASE \/ Serve \/ ReadyAfterAll \/ StillUnready \/ ConnectBegins
             \/ ConnectRefused \/ StopWaiting \/ Release
    BY <2>3 DEF Serve, ReadyAfterAll, StillUnready, ConnectBegins, ConnectRefused,
       StopWaiting, Release, history
  <2> QED BY <2>1, <2>2, <2>3 DEF WorkerStep
<1> QED BY <1>1, <1>2

LEMMA WorkerRequests ==
  ASSUME WorkerStep
  PROVE  /\ requested' => requested
         /\ worker' \in PrepareSteps => requested \/ worker \in PrepareSteps
<1>1. requested' => requested
  <2>1. CASE \/ AlreadyPrepared \/ BeginPrepare \/ LowerForAddress \/ DownReported
             \/ SetAddress \/ Serve \/ ReadyAfterAll \/ StillUnready
             \/ ConnectBegins \/ ConnectRefused \/ StopWaiting \/ Release
    BY <2>1 DEF AlreadyPrepared, BeginPrepare, LowerForAddress, DownReported,
       SetAddress,
       Serve, ReadyAfterAll, StillUnready, ConnectBegins, ConnectRefused, StopWaiting,
       Release, flags
  <2>2. CASE InterfaceUp \/ ReadinessReported \/ PrepareFails
    BY <2>2 DEF InterfaceUp, ReadinessReported, PrepareFails, Prepared, Withdraw,
       flags
  <2> QED BY <2>1, <2>2 DEF WorkerStep
<1>2. worker' \in PrepareSteps => requested \/ worker \in PrepareSteps
  <2>1. CASE BeginPrepare \/ LowerForAddress \/ DownReported \/ SetAddress
    BY <2>1 DEF BeginPrepare, LowerForAddress, DownReported, SetAddress,
       PrepareSteps
  <2>2. CASE InterfaceUp \/ ReadinessReported \/ PrepareFails
    BY <2>2 DEF InterfaceUp, ReadinessReported, PrepareFails, Preparing,
       PrepareSteps
  <2>3. CASE AlreadyPrepared \/ Serve \/ ReadyAfterAll \/ StillUnready
    BY <2>3 DEF AlreadyPrepared, Serve, ReadyAfterAll, AskOrIdle, StillUnready,
       PrepareSteps
  <2>4. CASE ConnectBegins \/ ConnectRefused \/ StopWaiting \/ Release
    BY <2>4 DEF ConnectBegins, ConnectRefused, StopWaiting, Release, PrepareSteps
  <2> QED BY <2>1, <2>2, <2>3, <2>4 DEF WorkerStep
<1> QED BY <1>1, <1>2

LEMMA KeptWorker ==
  ASSUME TypeOK, KeptInv, WorkerStep
  PROVE  KeptInv'
<1> SUFFICES ASSUME Undisturbed' PROVE OffAlone' /\ Missing' /\ Foreseen'
  BY DEF KeptInv
<1>1. /\ pc' = pc /\ overlapped' = overlapped /\ wanted' = wanted
      /\ crossed => crossed'
  BY WorkerHistory
<1>2. OffAlone /\ Missing /\ Foreseen
  BY <1>1 DEF Undisturbed, KeptInv
<1>3. Foreseen'
  BY <1>2, WorkerForeseen
<1>4. /\ requested' => requested
      /\ worker' \in PrepareSteps => requested \/ worker \in PrepareSteps
  BY WorkerRequests
<1>5. OffAlone'
  BY <1>1, <1>2, <1>4 DEF OffAlone, OffUnderWay
<1>6. failed' \/ (failed' = failed /\ requested' = requested)
  <2>1. CASE ReadinessReported
    <3>1. ready
      BY <1>2, <2>1, Zenon DEF ReadinessReported, Foreseen, Raising
    <3> QED BY <2>1, <3>1 DEF ReadinessReported, Prepared, flags, history
  <2>2. CASE PrepareFails
    BY <2>2 DEF PrepareFails
  <2>3. CASE InterfaceUp
    BY <2>3 DEF InterfaceUp, Prepared, flags, history
  <2>4. CASE \/ AlreadyPrepared \/ BeginPrepare \/ LowerForAddress \/ DownReported
             \/ SetAddress \/ Serve \/ ReadyAfterAll \/ StillUnready \/ ConnectBegins
             \/ ConnectRefused \/ StopWaiting \/ Release
    BY <2>4 DEF AlreadyPrepared, BeginPrepare, LowerForAddress, DownReported,
       SetAddress,
       Serve, ReadyAfterAll, StillUnready, ConnectBegins, ConnectRefused, StopWaiting,
       Release, flags, history
  <2> QED BY <2>1, <2>2, <2>3, <2>4 DEF WorkerStep
<1>7. Missing'
  BY <1>1, <1>2, <1>6, Zenon DEF Missing
<1> QED BY <1>3, <1>5, <1>7

LEMMA KeptOthers ==
  ASSUME TypeOK, KeptInv,
         \/ HandleEvent \/ SupplicantFollows \/ Associates \/ AssociationFails
         \/ Lease \/ AccessPointLeaves \/ ScanBegins \/ ScanEnds \/ UNCHANGED vars
  PROVE  KeptInv'
<1>0. QueueTypes /\ StackTypes /\ StepTypes
  BY TypeParts
<1>1. UNCHANGED <<pc, worker, requested, wanted, failed, overlapped, crossed>>
  BY DEF HandleEvent, SupplicantFollows, Associates, AssociationFails, Lease,
     AccessPointLeaves, ScanBegins, ScanEnds, Environment, vars, flags, history
<1>2. Undisturbed' = Undisturbed /\ (OffAlone => OffAlone') /\ (Missing => Missing')
  BY <1>1 DEF Undisturbed, OffAlone, OffUnderWay, Missing
<1>3. ASSUME Foreseen PROVE Foreseen'
  <2>1. CASE HandleEvent
    BY <1>0, <1>3, <2>1, HandleForeseen
  <2>2. CASE SupplicantFollows
    BY <1>0, <1>3, <2>2, SupplicantForeseen
  <2>3. CASE \/ Associates \/ AssociationFails \/ Lease \/ AccessPointLeaves
             \/ ScanBegins \/ ScanEnds \/ UNCHANGED vars
    <3>1. UNCHANGED <<worker, ifUp, usable, readySem, ready>>
      BY <2>3 DEF Associates, AssociationFails, Lease, AccessPointLeaves,
         ScanBegins,
         ScanEnds, Environment, vars, radio, stack
    <3>2. Uninteresting
      BY <2>3, CloseUninteresting DEF Associates, AssociationFails, Lease,
         AccessPointLeaves, ScanBegins, ScanEnds, vars, stack, Uninteresting, EventKinds
    <3> QED BY <1>0, <1>3, <3>1, <3>2, ForeseenUnmoved
  <2> QED BY <2>1, <2>2, <2>3
<1> QED BY <1>2, <1>3 DEF KeptInv

\* The worker withdraws a request only when a preparation failed, as long as
\* every preparation began with no news of an earlier change on its way and no
\* off came in its middle: what it then waits for is its own report.
THEOREM RequestStaysKept == Spec => []RequestKept
<1>1. Init => KeptInv
  <2> SUFFICES ASSUME Init PROVE OffAlone /\ Missing /\ Foreseen
    BY DEF KeptInv
  <2>1. /\ worker \notin PrepareSteps /\ wanted # "on"
        /\ \A c \in Callers : pc[c] = "none"
    BY DEF Init, PrepareSteps
  <2> QED BY <2>1 DEF OffAlone, OffUnderWay, Missing, Foreseen, BeforeChange,
     BeforeWait,
             Lowering, Raising, PrepareSteps
<1>2. TypeOK /\ OffInv /\ KeptInv /\ [Next]_vars => KeptInv'
  BY KeptCommands, KeptWorker, KeptOthers DEF Next
<1>3. KeptInv => RequestKept
  BY DEF KeptInv, Undisturbed, Missing, RequestKept
<1> QED BY <1>1, <1>2, <1>3, TypeCorrect, OffInvHolds, PTL DEF Spec
=============================================================================
