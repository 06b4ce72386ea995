--------------------------- MODULE MCRadioCommand ---------------------------
(* A clock of a few ticks and a few commands, for TLC.                       *)
EXTENDS RadioCommand, TLC
=============================================================================
