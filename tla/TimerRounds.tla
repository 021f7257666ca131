---------------------------- MODULE TimerRounds -----------------------------
(***************************************************************************)
(* What the event loop promises to the owners of timer tasks, beyond what  *)
(* TimerService does: the timers it collects are called back one at a      *)
(* time, tick by tick, each once and none left out, before it collects     *)
(* again; and a timer that repeats is armed again before its callback      *)
(* runs, unless another callback has armed it meanwhile.  Stopping a timer *)
(* that has been collected does not take it back.                          *)
(***************************************************************************)
EXTENDS TimerService

CONSTANTS
  IsLoop,      (* the timers that repeat                      *)
  NoCall       (* none of them                                *)

VARIABLE called   (* the timer whose callback runs, or NoCall *)

roundVars == <<vars, called>>

RoundsInit == Init /\ called = NoCall

(* Callbacks and main arm and disarm timers; the loop collects when all    *)
(* the timers of the last round have been called.                          *)
Serve ==
  /\ \/ \E t \in Timer, e \in ExpireTick : Arm(t, e)
     \/ \E t \in Timer : Disarm(t)
     \/ GetTimer /\ fired = <<>> /\ called = NoCall
     \/ Tick
     \/ Return
  /\ UNCHANGED called

ArmAgain(t) ==
  IF t \in IsLoop \ DOMAIN armed
  THEN \E e \in ExpireTick :
         armed' = [u \in DOMAIN armed \cup {t} |-> IF u = t THEN DueTick(e) ELSE armed[u]]
  ELSE UNCHANGED armed

(* A timer of the first tick collected is called. *)
Call(t) ==
  /\ ~ running
  /\ called = NoCall
  /\ fired # <<>> /\ t \in Head(fired)
  /\ called' = t
  /\ fired' = [fired EXCEPT ![1] = @ \ {t}]
  /\ ArmAgain(t)
  /\ UNCHANGED <<clk, running, jiffers>>

(* All timers of a tick have been called. *)
TickIsDone ==
  /\ ~ running
  /\ called = NoCall
  /\ fired # <<>> /\ Head(fired) = {}
  /\ fired' = Tail(fired)
  /\ UNCHANGED <<armed, clk, running, jiffers, called>>

CallReturns ==
  /\ called # NoCall
  /\ called' = NoCall
  /\ UNCHANGED vars

RoundsNext ==
  \/ Serve
  \/ \E t \in Timer : Call(t)
  \/ TickIsDone
  \/ CallReturns

RoundsSpec == RoundsInit /\ [][RoundsNext]_roundVars

=============================================================================
