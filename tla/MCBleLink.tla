----------------------------- MODULE MCBleLink -----------------------------
(* The BLE service with one caller beside the system workqueue, for TLC.     *)
EXTENDS BleLink, TLC
=============================================================================
