----------------------------- MODULE MCTimerMng -----------------------------
(* TimerMng with two timers: one for the root wheel, one that cascades. *)
EXTENDS TimerMng, TLC

CONSTANTS t1, t2

AnyNat == Nat

(* Every expiry time the clock and the intervals allow. *)
ExpireTimes == {begin + Interval[t] : begin \in 0 .. MaxTime, t \in Timer}

Intervals == t1 :> 1 @@ t2 :> 3

=============================================================================
