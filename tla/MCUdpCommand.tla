---------------------------- MODULE MCUdpCommand ----------------------------
(* Kinds of behaviour, for TLC: two texts that the workqueue and the       *)
(* Bluetooth thread send to BLE; one of them beside a command that sends   *)
(* to BLE, with a packet of either late or lost; the service on a socket   *)
(* that moves and fails; the service alone for as many texts as make ids   *)
(* come round.                                                             *)
EXTENDS UdpCommand

MCBudgets == {[asked |-> 0, sent |-> 2, moves |-> 0, faults |-> 0],
              [asked |-> 1, sent |-> 1, moves |-> 0, faults |-> 1],
              [asked |-> 2, sent |-> 0, moves |-> 2, faults |-> 2],
              [asked |-> 3, sent |-> 0, moves |-> 0, faults |-> 2]}
=============================================================================
