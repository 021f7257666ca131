---------------------------- MODULE TimerService ----------------------------
(***************************************************************************)
(* What TimerMng promises to the owners of timer tasks, without ids, maps  *)
(* or wheels: a timer is armed or not.  Starting an unarmed timer arms it, *)
(* restarting gives it a new due tick, stopping disarms it, and an armed   *)
(* timer fires once, in its due tick, and is disarmed by that.             *)
(***************************************************************************)
EXTENDS Integers, Sequences

CONSTANTS
  Timer,       (* the timer tasks                             *)
  ExpireTick   (* the expiry ticks a timer may be given       *)

VARIABLES
  armed,       (* the due tick of every armed timer           *)
  clk,         (* the next tick to process                    *)
  running,     (* is a collection in progress                 *)
  jiffers,     (* the last tick it processes, 0 outside       *)
  fired        (* what it has collected, tick by tick         *)

vars == <<armed, clk, running, jiffers, fired>>

Init ==
  /\ armed = [t \in {} |-> 0]
  /\ clk \in Nat
  /\ running = FALSE
  /\ jiffers = 0
  /\ fired = <<>>

DueTick(e) == IF e < clk THEN clk ELSE e

(* Start of an unarmed timer, Restart of any. *)
Arm(t, e) ==
  /\ ~ running
  /\ armed' = [u \in DOMAIN armed \cup {t} |-> IF u = t THEN DueTick(e) ELSE armed[u]]
  /\ UNCHANGED <<clk, running, jiffers, fired>>

Disarm(t) ==
  /\ ~ running
  /\ armed' = [u \in DOMAIN armed \ {t} |-> armed[u]]
  /\ UNCHANGED <<clk, running, jiffers, fired>>

GetTimer ==
  /\ ~ running
  /\ running' = TRUE
  /\ jiffers' \in Nat
  /\ fired' = <<>>
  /\ UNCHANGED <<armed, clk>>

(* A tick at which nothing is due may leave an empty group behind. *)
Tick ==
  LET dueNow == {t \in DOMAIN armed : armed[t] = clk}
  IN  /\ running
      /\ clk <= jiffers
      /\ armed' = [t \in DOMAIN armed \ dueNow |-> armed[t]]
      /\ \/ fired' = Append(fired, dueNow)
         \/ dueNow = {} /\ fired' = fired
      /\ clk' = clk + 1
      /\ UNCHANGED <<running, jiffers>>

Return ==
  /\ running
  /\ jiffers < clk
  /\ running' = FALSE
  /\ jiffers' = 0
  /\ UNCHANGED <<armed, clk, fired>>

Next ==
  \/ \E t \in Timer, e \in ExpireTick : Arm(t, e)
  \/ \E t \in Timer : Disarm(t)
  \/ GetTimer
  \/ Tick
  \/ Return

Spec == Init /\ [][Next]_vars

=============================================================================
