------------------------------ MODULE MCSnooze ------------------------------
(* Two snoozes, of one thread or of two: a thread is snoozed again while it  *)
(* is snoozed, or one sweep meets a thread that has ceased to exist first.   *)
EXTENDS Snooze

CONSTANTS i1, i2, t1, t2, w1, u1
=============================================================================
