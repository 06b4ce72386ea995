---------------------------- MODULE MCBleCommand ----------------------------
(* Six lines, most of which take several writes and one too many, for TLC.   *)
EXTENDS BleCommand, TLC

PartsOfLines == <<1, 2, 4, 1, 3, 1>>
=============================================================================
