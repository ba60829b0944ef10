---------------------------- MODULE MCTimerList ----------------------------
(* Model-checking instance of TimerList. *)
EXTENDS TimerList
=============================================================================
