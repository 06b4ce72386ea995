----------------------------- MODULE OutqLedger -----------------------------
(***************************************************************************)
(* What an outbound queue of src/src/wt_ble.c promises to the code that    *)
(* pushes into it, with no ring, threads or locks: frames are numbered as  *)
(* they are accepted, and each accepted frame is pending until it is       *)
(* delivered, once, or lost.  Only the frames pending at the time can be   *)
(* lost, and nothing delivered or lost ever comes back.                    *)
(***************************************************************************)
EXTENDS Naturals

VARIABLES
  accepted,   \* frames accepted so far; frame n is the n-th of them
  pending,    \* frames accepted and not yet delivered or lost
  delivered,  \* frames the Bluetooth stack took
  lost        \* frames given up

ledger == <<accepted, pending, delivered, lost>>

Init ==
  /\ accepted = 0
  /\ pending = {} /\ delivered = {} /\ lost = {}

Accept ==
  /\ accepted' = accepted + 1
  /\ pending' = pending \cup {accepted + 1}
  /\ UNCHANGED <<delivered, lost>>

Deliver(n) ==
  /\ n \in pending
  /\ pending' = pending \ {n}
  /\ delivered' = delivered \cup {n}
  /\ UNCHANGED <<accepted, lost>>

\* A hard error or an overrun loses one frame, a clear all the queued ones.
Lose(ns) ==
  /\ ns # {} /\ ns \subseteq pending
  /\ pending' = pending \ ns
  /\ lost' = lost \cup ns
  /\ UNCHANGED <<accepted, delivered>>

Next ==
  \/ Accept
  \/ \E n \in pending : Deliver(n)
  \/ \E ns \in SUBSET pending : Lose(ns)

Spec == Init /\ [][Next]_ledger
=============================================================================
