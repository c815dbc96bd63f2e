--------------------------- MODULE MCTimerQueues ---------------------------
(* Instances of TimerQueues for TLC. *)
EXTENDS TimerQueues, TLC

CONSTANTS c1, w1
=============================================================================
