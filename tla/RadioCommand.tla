---------------------------- MODULE RadioCommand ----------------------------
(***************************************************************************)
(* The commands that switch the radios - mode, ble on|off, wifi on|off,    *)
(* now or after a delay - as the three command paths carry them out: the   *)
(* shell (wt_shell.c), UDP (wt_wifi.c) and BLE (wt_ble.c), down to         *)
(* wt_radio_mode_apply and wt_app_delayed_radio_apply.                     *)
(*                                                                         *)
(* A command is a short program of switch, schedule and answer steps.      *)
(* Programs of different threads interleave; the BLE path, the self-stop   *)
(* and the delayed action all run on the system workqueue.  What a switch  *)
(* of the BLE service does is the subject of BleLink.                      *)
(***************************************************************************)
EXTENDS Integers, Sequences, FiniteSets

CONSTANTS
  Commands,     \* the commands given: some of AllCommands
  Delays,       \* the delays a client may ask for, in ticks
  SelfStop,     \* WT_BLE_SELF_STOP_DELAY_MS, in ticks
  MaxTime,      \* bound: the clock
  MaxCommands   \* bound: commands given

ASSUME DelayAssumption == Delays \subseteq Nat \ {0} /\ SelfStop \in Nat \ {0}
ASSUME BoundAssumption == MaxTime \in Nat /\ MaxCommands \in Nat

Origins == {"shell", "udp", "ble"}
Never == -1

VARIABLES
  ble, wifi,    \* ble_requested, wifi_requested
  ready,        \* ble_ready: bt_enable has succeeded
  action,       \* delayed_radio_action
  actionDue,    \* when delayed_radio_work runs, or Never
  stopDue,      \* when ble_self_stop_work runs, or Never
  todo,         \* per command path, the steps left of its command
  now,          \* the clock
  given,        \* commands given so far
  goal,         \* history: what the commands given so far ask of the radios,
                \* but for a BLE service that could not be brought up
  promises,     \* history: delayed actions acknowledged and still to come
  crowded,      \* history: one was acknowledged while another was to come
  overlapped,   \* history: two programs have run at the same time
  unanswered    \* history: paths whose command got no answer

vars == <<ble, wifi, ready, action, actionDue, stopDue, todo, now, given,
          goal, promises, crowded, overlapped, unanswered>>

Modes == {"idle", "ble", "wifi", "both"}
Delayable == Modes \cup {"ble_off", "wifi_off"}
AllCommands == Delayable \cup {"ble_on", "wifi_on"}

ASSUME CommandAssumption == Commands \subseteq AllCommands

\* The steps a program is made of, beside <<"write", c>> and <<"arm", c, d>>.
BleOn == <<"ble on">>
BleOff == <<"ble off">>
WifiOn == <<"wifi on">>
WifiOff == <<"wifi off">>
Respond == <<"answer">>
AskStop == <<"self-stop">>

\* The switches of wt_radio_mode_apply and of the single-radio commands, in
\* the order of the code.
Switches(c) ==
  CASE c = "idle"     -> <<WifiOff, BleOff>>
    [] c = "ble"      -> <<WifiOff, BleOn>>
    [] c = "wifi"     -> <<BleOff, WifiOn>>
    [] c = "both"     -> <<BleOn, WifiOn>>
    [] c = "ble_on"   -> <<BleOn>>
    [] c = "ble_off"  -> <<BleOff>>
    [] c = "wifi_on"  -> <<WifiOn>>
    [] c = "wifi_off" -> <<WifiOff>>

\* The immediate command on each path.  The shell and UDP switch, then answer;
\* over BLE a command that turns BLE off answers first and leaves that switch
\* to the self-stop.
OnShell(c) == Append(Switches(c), Respond)
OnUdp(c)   == Append(Switches(c), Respond)
SwitchesWifi(c) ==
  CASE c = "idle"    -> <<WifiOff>>
    [] c = "wifi"    -> <<WifiOn>>
    [] c = "ble_off" -> <<>>

OnBle(c)   ==
  IF c \in {"idle", "wifi", "ble_off"}
    THEN Append(Append(SwitchesWifi(c), Respond), AskStop)
    ELSE Append(Switches(c), Respond)

Immediate(o, c) ==
  CASE o = "shell" -> OnShell(c) [] o = "udp" -> OnUdp(c) [] o = "ble" -> OnBle(c)

\* What a command asks of the radios.
GoalAfter(g, c) ==
  [ble  |-> IF c \in {"ble", "both", "ble_on"} THEN TRUE
            ELSE IF c \in {"idle", "wifi", "ble_off"} THEN FALSE ELSE g.ble,
   wifi |-> IF c \in {"wifi", "both", "wifi_on"} THEN TRUE
            ELSE IF c \in {"idle", "ble", "wifi_off"} THEN FALSE ELSE g.wifi]

Init ==
  /\ ble \in BOOLEAN /\ wifi \in BOOLEAN     \* the boot mode
  /\ ready = ble
  /\ action = "none" /\ actionDue = Never /\ stopDue = Never
  /\ todo = [o \in Origins |-> <<>>]
  /\ now = 0 /\ given = 0
  /\ goal = [ble |-> ble, wifi |-> wifi]
  /\ promises = {} /\ crowded = FALSE /\ overlapped = FALSE
  /\ unanswered = {}

Idle == \A o \in Origins : todo[o] = <<>>

\* A client can reach the path only while its radio is on.
Up(o) == CASE o = "shell" -> TRUE [] o = "udp" -> wifi [] o = "ble" -> ble

\* Load a program into a path.
Begin(o, program) ==
  /\ todo[o] = <<>>
  /\ todo' = [todo EXCEPT ![o] = program]
  /\ overlapped' = (overlapped \/ ~Idle)

Advance(o) == todo' = [todo EXCEPT ![o] = Tail(@)]
At(o, step) == todo[o] # <<>> /\ Head(todo[o]) = step

-----------------------------------------------------------------------------
(* Commands.                                                               *)

GiveNow(o, c) ==
  /\ Up(o) /\ given < MaxCommands
  /\ given' = given + 1
  /\ Begin(o, Immediate(o, c))
  /\ goal' = GoalAfter(goal, c)
  /\ UNCHANGED <<ble, wifi, ready, action, actionDue, stopDue, now, promises,
                 crowded, unanswered>>

\* wt_app_delayed_radio_apply with a delay writes the action, then schedules
\* the work, then the command answers.
GiveDelayed(o, c, d) ==
  /\ Up(o) /\ given < MaxCommands
  /\ given' = given + 1
  /\ Begin(o, <<<<"write", c>>, <<"arm", c, d>>, Respond>>)
  /\ UNCHANGED <<ble, wifi, ready, action, actionDue, stopDue, now, goal,
                 promises, crowded, unanswered>>

-----------------------------------------------------------------------------
(* The steps of a program.                                                 *)

\* wt_ble_service_start cancels a pending self-stop.
KeepStop == stopDue' = stopDue                  \* faulty: does not cancel
CancelStop == stopDue' = Never

SwitchBleOn(o) ==
  /\ At(o, BleOn)
  /\ ble' = TRUE /\ ready' = TRUE
  /\ CancelStop
  /\ Advance(o)
  /\ UNCHANGED <<wifi, action, actionDue, now, given, goal, promises, crowded,
                 overlapped, unanswered>>

\* bt_enable, called until it has once succeeded, fails: the request is
\* withdrawn.  The program goes on, to the Wi-Fi switch of "both" and to an
\* answer that tells of the error.
BleOnFails(o) ==
  /\ At(o, BleOn)
  /\ ~ready
  /\ ble' = FALSE
  /\ goal' = [goal EXCEPT !.ble = FALSE]
  /\ CancelStop
  /\ Advance(o)
  /\ UNCHANGED <<wifi, ready, action, actionDue, now, given, promises, crowded,
                 overlapped, unanswered>>

SwitchBleOff(o) ==
  /\ At(o, BleOff)
  /\ ble' = FALSE
  /\ Advance(o)
  /\ UNCHANGED <<wifi, ready, action, actionDue, stopDue, now, given, goal,
                 promises, crowded, overlapped, unanswered>>

\* wt_wifi_service_set returns 0 on every path, so the BLE command's early
\* returns on its error are never taken.
SwitchWifi(o, on) ==
  /\ At(o, IF on THEN WifiOn ELSE WifiOff)
  /\ wifi' = on
  /\ Advance(o)
  /\ UNCHANGED <<ble, ready, action, actionDue, stopDue, now, given, goal,
                 promises, crowded, overlapped, unanswered>>

WriteAction(o) ==
  /\ \E c \in Delayable : At(o, <<"write", c>>) /\ action' = c
  /\ Advance(o)
  /\ UNCHANGED <<ble, wifi, ready, actionDue, stopDue, now, given, goal,
                 promises, crowded, overlapped, unanswered>>

\* k_work_schedule keeps the deadline of an item already scheduled.
ArmedLate(d) == now + d + 1                     \* faulty: rounds up a tick
Armed(d) == IF actionDue = Never THEN now + d ELSE actionDue

ArmAction(o) ==
  /\ \E d \in Delays, c \in Delayable :
       /\ At(o, <<"arm", c, d>>)
       /\ actionDue' = Armed(d)
       /\ promises' = promises \cup {[what |-> c, due |-> now + d]}
  /\ crowded' = (crowded \/ actionDue # Never \/ overlapped)
  /\ Advance(o)
  /\ UNCHANGED <<ble, wifi, ready, action, stopDue, now, given, goal,
                 overlapped, unanswered>>

\* wt_ble_schedule_self_stop_response after its answer.
ArmSelfStop(o) ==
  /\ At(o, AskStop)
  /\ stopDue' = IF stopDue = Never THEN now + SelfStop ELSE stopDue
  /\ Advance(o)
  /\ UNCHANGED <<ble, wifi, ready, action, actionDue, now, given, goal,
                 promises, crowded, overlapped, unanswered>>

\* The answer leaves by the path the command came in on.
Answer(o) ==
  /\ At(o, Respond)
  /\ unanswered' = IF Up(o) THEN unanswered ELSE unanswered \cup {o}
  /\ Advance(o)
  /\ UNCHANGED <<ble, wifi, ready, action, actionDue, stopDue, now, given,
                 goal, promises, crowded, overlapped>>

-----------------------------------------------------------------------------
(* The system workqueue, which also carries the BLE command path.          *)

\* delayed_radio_work_handler
ActionFires ==
  /\ actionDue # Never /\ actionDue <= now
  /\ Begin("ble", Switches(action))
  /\ actionDue' = Never
  /\ goal' = GoalAfter(goal, action)
  /\ promises' = promises \ {[what |-> action, due |-> now]}
  /\ UNCHANGED <<ble, wifi, ready, action, stopDue, now, given, crowded,
                 unanswered>>

\* wt_ble_self_stop_work_handler
SelfStopFires ==
  /\ stopDue # Never /\ stopDue <= now
  /\ Begin("ble", <<BleOff>>)
  /\ stopDue' = Never
  /\ UNCHANGED <<ble, wifi, ready, action, actionDue, now, given, goal,
                 promises, crowded, unanswered>>

\* Time passes when nothing is left to do now: a command takes no time
\* compared with the delays.
Tick ==
  /\ Idle /\ now < MaxTime
  /\ actionDue # now /\ stopDue # now
  /\ now' = now + 1
  /\ UNCHANGED <<ble, wifi, ready, action, actionDue, stopDue, todo, given,
                 goal, promises, crowded, overlapped, unanswered>>

Step(o) ==
  \/ SwitchBleOn(o) \/ BleOnFails(o) \/ SwitchBleOff(o)
  \/ \E on \in BOOLEAN : SwitchWifi(o, on)
  \/ WriteAction(o) \/ ArmAction(o) \/ ArmSelfStop(o) \/ Answer(o)

Next ==
  \/ \E o \in Origins :
       \/ \E c \in Commands : GiveNow(o, c)
       \/ \E c \in Commands \cap Delayable, d \in Delays : GiveDelayed(o, c, d)
       \/ Step(o)
  \/ ActionFires \/ SelfStopFires \/ Tick

Spec == Init /\ [][Next]_vars
-----------------------------------------------------------------------------
(* Properties.                                                             *)

\* The last command wins on both radios: whatever mix of commands, delayed
\* actions and pending self-stops came before, once nothing is under way the
\* radios are as the commands, in their order, ask - as long as no two
\* programs ran at the same time.  A BLE service that could not be brought up
\* is left off, and the Wi-Fi of the same command is still switched
\* (wt_ble_service_start cancels the self-stop of an earlier command and
\* withdraws its request when bt_enable fails; wt_radio_mode_apply).
RadiosAsAsked ==
  Idle /\ stopDue = Never /\ ~overlapped =>
    ble = goal.ble /\ wifi = goal.wifi

\* README.md:221: over BLE a command that cuts its own path has answered before
\* the cut (wt_ble_schedule_self_stop_response).  Over UDP it has not: the
\* interface is down by then (wt_wifi.c:2559).
BleAnswersFirst == ~overlapped => "ble" \notin unanswered

\* README.md:1546, 1560: an acknowledged delayed action is carried out on time,
\* unless another was acknowledged while it was still to come: that one takes
\* its text and keeps its deadline (wt_app.c:192).
LonePromiseKept == ~crowded => \A p \in promises : now <= p.due
=============================================================================
