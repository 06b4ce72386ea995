---------------------------- MODULE MCWifiLink ----------------------------
(* A command thread or two, a few commands and faults, for TLC.            *)
EXTENDS WifiLink, TLC
=============================================================================
