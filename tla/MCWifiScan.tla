---------------------------- MODULE MCWifiScan ----------------------------
(* A shell and the workqueue, three networks for a table of two, one of    *)
(* them heard twice, for TLC: two commands with results, or three without. *)
EXTENDS WifiScan, TLC

CONSTANTS a, b, c

MCResults == {[ssid |-> a, rssi |-> 1], [ssid |-> b, rssi |-> 2],
              [ssid |-> a, rssi |-> 3], [ssid |-> c, rssi |-> 2]}

MCBudgets == {[calls |-> 2, faults |-> 1, results |-> 3],
              [calls |-> 3, faults |-> 1, results |-> 0]}

FaultlessBudgets == {[calls |-> 3, faults |-> 0, results |-> 3]}
=============================================================================
