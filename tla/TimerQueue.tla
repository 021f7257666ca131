----------------------------- MODULE TimerQueue -----------------------------
(***************************************************************************)
(* What a timer container promises to TimerMng, whatever it is built from. *)
(* A timer put in with an expiry tick is handed out in that tick, or, when *)
(* that tick is already over, in the next one to be processed; it is       *)
(* handed out once, and no tick is skipped or processed twice.             *)
(*                                                                         *)
(* TimerWheel is shown to implement this specification.                    *)
(***************************************************************************)
EXTENDS Integers, Sequences

CONSTANTS
  TimerData,   (* what the owner stores in a timer: TimerMng stores its id *)
  ExpireTick   (* the expiry ticks a timer may be given                    *)

VARIABLES
  pending,     (* the set of timers put in and not handed out              *)
  clk,         (* the next tick to process                                 *)
  running,     (* is a collection (GetTimer) in progress                   *)
  jiffers,     (* the last tick the collection in progress processes, or 0 *)
  all_timer    (* what it has handed out, the timers of one tick together  *)

vars == <<pending, clk, running, jiffers, all_timer>>

Init ==
  /\ pending = {}
  /\ clk \in Nat
  /\ running = FALSE
  /\ jiffers = 0
  /\ all_timer = <<>>

(* An expiry in the past is served by the next tick to process. *)
DueTick(e) == IF e < clk THEN clk ELSE e

AddTimer(e, d) ==
  /\ ~ running
  /\ pending' = pending \cup {[timer_data |-> d, due |-> DueTick(e)]}
  /\ UNCHANGED <<clk, running, jiffers, all_timer>>

(* The owner asks for everything due up to the present tick. *)
GetTimer ==
  /\ ~ running
  /\ running' = TRUE
  /\ jiffers' \in Nat
  /\ all_timer' = <<>>
  /\ UNCHANGED <<pending, clk>>

(* The timers of one tick come out together, after those of earlier ticks. *)
HandOut(out, tick) == IF tick = {} THEN out ELSE Append(out, tick)

Tick ==
  LET dueNow == {p \in pending : p.due = clk}
  IN  /\ running
      /\ clk <= jiffers
      /\ pending' = pending \ dueNow
      /\ all_timer' = HandOut(all_timer, {p.timer_data : p \in dueNow})
      /\ clk' = clk + 1
      /\ UNCHANGED <<running, jiffers>>

Return ==
  /\ running
  /\ jiffers < clk
  /\ running' = FALSE
  /\ jiffers' = 0
  /\ UNCHANGED <<pending, clk, all_timer>>

Next ==
  \/ \E e \in ExpireTick, d \in TimerData : AddTimer(e, d)
  \/ GetTimer
  \/ Tick
  \/ Return

Spec == Init /\ [][Next]_vars

=============================================================================
