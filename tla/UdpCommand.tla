----------------------------- MODULE UdpCommand -----------------------------
(***************************************************************************)
(* The UDP command thread (wt_wifi.c:2288-2563): it keeps its socket on    *)
(* the port that is asked for, and answers commands one at a time, in one  *)
(* packet, in a stream, or after sending to BLE itself; beside it the      *)
(* other threads send to BLE (Stream).                                     *)
(***************************************************************************)
EXTENDS Stream

CONSTANTS
  Server,      \* the thread of the service
  Answers,     \* its channel back to the client
  Ports, DefaultPort,  \* ports that can be asked for; WT_WIFI_CMD_UDP_PORT
  WorkQueue,   \* the thread that answers BLE commands
  Receiver,    \* the Bluetooth thread, which answers those that are too long
  Budgets      \* bounds: commands of the client, texts of the other threads,
               \* changes of the port, and faults, that a behaviour may have

ASSUME ServerAssumption ==
  /\ {Server, WorkQueue, Receiver} \subseteq Threads
  /\ Server \notin {WorkQueue, Receiver}
  /\ Answers \in Udp /\ DefaultPort \in Ports \ {None}
ASSUME BudgetsAssumption ==
  \A b \in Budgets : b \in [{"asked", "sent", "moves", "faults"} -> Nat]

VARIABLES
  port,        \* wifi_cmd_port_current
  desired,     \* desired_port: what the thread last read of it
  bound,       \* bound_port, None without a socket
  inbox,       \* number of commands that wait in the socket
  serving      \* where its loop is: top, open, poll, carry, answer

service == <<port, desired, bound, inbox, serving>>
vars == <<streamVars, service>>

Init ==
  /\ StreamInit
  /\ port = DefaultPort /\ desired = port /\ bound = None /\ inbox = 0
  /\ serving = "top"
  /\ left \in Budgets

-----------------------------------------------------------------------------
(* The socket.                                                             *)

HasSocket == bound # None                \* faulty: the port is not compared
Matches == bound = port

\* A socket on another port is closed, and what waits in it is lost.
Close ==
  /\ serving = "top" /\ ~Matches
  /\ desired' = port /\ bound' = None /\ inbox' = 0
  /\ serving' = "open"
  /\ UNCHANGED <<streamVars, port>>

OpenSocket ==
  /\ serving = "open"
  /\ bound' = desired /\ serving' = "poll"
  /\ UNCHANGED <<streamVars, port, desired, inbox>>

\* Tried again a second later.
OpenFails ==
  /\ serving = "open" /\ Fault
  /\ serving' = "top"
  /\ UNCHANGED <<sending, port, desired, bound, inbox>>

Keep ==
  /\ serving = "top" /\ Matches
  /\ serving' = "poll"
  /\ UNCHANGED <<streamVars, port, desired, bound, inbox>>

\* 250 ms without a packet.
PollTimesOut ==
  /\ serving = "poll" /\ inbox = 0
  /\ serving' = "top"
  /\ UNCHANGED <<streamVars, port, desired, bound, inbox>>

Ask ==
  /\ bound # None /\ Spend("asked")
  /\ inbox' = inbox + 1
  /\ UNCHANGED <<sending, port, desired, bound, serving>>

-----------------------------------------------------------------------------
(* Commands.                                                               *)

\* The thread takes a command and begins to send a text.
Take(c, length, next) ==
  /\ serving = "poll" /\ inbox > 0
  /\ inbox' = inbox - 1
  /\ Begin(Server, c, length, FALSE) /\ serving' = next
  /\ UNCHANGED <<desired, bound>>

\* A command that is refused, or whose effect is other modules' subject.
TakeShort == Take(Answers, 0, "answer") /\ UNCHANGED <<port, left>>

\* wifi cmd port: set at once, answered by the socket on the old one.
Move(p) == Spend("moves") /\ port # p /\ port' = p
TakePort(p) == Take(Answers, 0, "answer") /\ Move(p)

\* wifi scan full: the answer is a stream, and no packet follows an error.
TakeFullScan(length) ==
  Take(Answers, length, "answer") /\ UNCHANGED <<port, left>>

\* tx ble and bridge send: the thread sends to BLE before it answers.
TakeTx(c, length) == Take(c, length, "carry") /\ UNCHANGED <<port, left>>

Carried ==
  /\ serving = "carry"
  /\ Begin(Server, Answers, 0, FALSE) /\ serving' = "answer"
  /\ UNCHANGED <<left, port, desired, bound, inbox>>

Answered ==
  /\ serving = "answer" /\ job[Server].step = "idle"
  /\ serving' = "top"
  /\ UNCHANGED <<streamVars, port, desired, bound, inbox>>

\* The port is set by another thread.
SetPort(p) ==
  /\ Move(p)
  /\ UNCHANGED <<sending, desired, bound, inbox, serving>>

\* A BLE command is answered (wt_ble.c:251 and wt_ble_handle_wt_command), or a
\* thread sends to BLE.
Respond(t, length) ==
  /\ t \in {WorkQueue, Receiver} /\ Spend("sent")
  /\ Begin(t, Responses, length, TRUE)
  /\ UNCHANGED service

\* wifi scan json: a stream from the table of the scan.
RespondScan(length) ==
  /\ Spend("sent") /\ Begin(WorkQueue, Responses, length, FALSE)
  /\ UNCHANGED service

Transmit(t, c, length) ==
  /\ t \notin {Server, Receiver} /\ Spend("sent")
  /\ Begin(t, c, length, FALSE)
  /\ UNCHANGED service

-----------------------------------------------------------------------------

Lengths == Chunks \cup {0}

Serves ==
  \/ Close \/ OpenSocket \/ OpenFails \/ Keep \/ PollTimesOut
  \/ TakeShort \/ Carried \/ Answered
  \/ \E p \in Ports : TakePort(p)
  \/ \E l \in Chunks : TakeFullScan(l)
  \/ \E c \in Ble \ {Responses} : \E l \in Lengths : TakeTx(c, l)
  \/ Sends(Server) /\ UNCHANGED service

Next ==
  \/ Serves \/ Ask
  \/ \E p \in Ports : SetPort(p)
  \/ \E l \in Chunks : RespondScan(l)
  \/ \E t \in Threads : \E l \in Lengths :
       Respond(t, l) \/ \E c \in Ble \ {Responses} : Transmit(t, c, l)
  \/ \E t \in Threads \ {Server} : Sends(t) /\ UNCHANGED service
  \/ \E c \in Channels : \E p \in late[c] : Arrive(c, p) /\ UNCHANGED service

Spec == Init /\ [][Next]_vars

\* The thread of the service runs.
FairSpec == Spec /\ WF_vars(Serves)

-----------------------------------------------------------------------------
(* Properties.                                                             *)

\* Whatever the thread is in the middle of, and although an opening may fail,
\* the socket comes to the port that is asked for (wt_wifi.c:2471).
PortFollows == bound # port ~> bound = port
=============================================================================
