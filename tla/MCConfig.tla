----------------------------- MODULE MCConfig -----------------------------
(* A shell and the UDP command thread, which are interchangeable; seven of *)
(* the ten settings, for TLC: the others are read, written and deleted as  *)
(* wifi_cmd and bridge_wifi are.                                           *)
EXTENDS Config, TLC

MCItems == <<"ble_name", "boot_mode", "wifi_cmd", "wifi_cmd_port", "bridge_wifi",
             "bridge_ip", "bridge_port">>
Symmetry == Permutations(Threads)
=============================================================================
