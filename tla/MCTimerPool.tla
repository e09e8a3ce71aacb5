---------------------------- MODULE MCTimerPool ----------------------------
(* Model-checking instance of TimerPool.                                    *)
EXTENDS TimerPool

=============================================================================
