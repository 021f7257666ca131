---------------------------- MODULE MCTimerWheel ----------------------------
(* TimerWheel on wheels of one and two slots, which reach 16 ticks ahead.   *)
EXTENDS TimerWheel

(* A time that is soon past, one in the outer wheels, and one that is out  *)
(* of reach at first.                                                      *)
NearAndFar == {1, 6, MaxTime}

=============================================================================
