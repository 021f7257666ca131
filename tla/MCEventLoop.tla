---------------------------- MODULE MCEventLoop -----------------------------
(* EventLoop with a few tasks of each kind. *)
EXTENDS EventLoop, TLC

CONSTANTS t1, t2, k1, k2, k3

AnyNat == Nat

(* Every expiry time the clock and the intervals allow. *)
ExpireTimes == {begin + Interval[t] : begin \in 0 .. MaxTime, t \in Timer}

(* A timer that is overdue at once, and one that has to cascade when the   *)
(* root wheel has two slots.                                               *)
MixedIntervals == [t \in Timer |-> IF t = t1 THEN 2 ELSE 0]
ZeroInterval == [t \in Timer |-> 0]
LongInterval == [t \in Timer |-> 3]

NoFds == << >>

(* Two tasks made for the same descriptor number, and one for another. *)
SharedFds == [k \in IOTask |-> IF k = k3 THEN 2 ELSE 1]

=============================================================================
