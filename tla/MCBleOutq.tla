----------------------------- MODULE MCBleOutq -----------------------------
(* One outbound queue with a small ring, for TLC. *)
EXTENDS BleOutq, TLC
=============================================================================
