----------------------------- MODULE TimerWheel -----------------------------
(***************************************************************************)
(* The hierarchical timing wheel of src/src/nf_event_timer_wheel.h: a root *)
(* wheel of NFTVR_SIZE slots of one tick each and four wheels of           *)
(* NFTVN_SIZE slots, each slot of a wheel as wide as the whole wheel below *)
(* it.  A timer far in the future sits in an outer wheel and is moved      *)
(* inwards (Cascade) as the clock reaches its slot.                        *)
(*                                                                         *)
(* One call of GetTimer runs the loop of TimerRun.  The loop is spelled    *)
(* out step by step with the program counter pc; the owner calls the wheel *)
(* from a single thread, so AddTimer waits for pc = "idle".  Only the wall *)
(* clock moves in between.                                                 *)
(*                                                                         *)
(* A slot's list is modelled as a set: the order of two timers in one slot *)
(* is left open.                                                           *)
(***************************************************************************)
EXTENDS Integers, Sequences, FiniteSets

CONSTANTS
  NFTVR_SIZE,      (* slots of the root wheel, 1 << NFTVR_BITS             *)
  NFTVN_SIZE,      (* slots of each outer wheel, 1 << NFTVN_BITS           *)
  PRECISION_USEC,  (* clock units in one tick                              *)
  TimerData,       (* what is stored in a timer                            *)
  Expires,         (* the expiry times timers are given                    *)
  MaxTime,         (* bound on the wall clock                              *)
  SetBack          (* bound: the wall clock is set back from here at most  *)

ASSUME WheelAssumption ==
  /\ NFTVR_SIZE \in Nat \ {0}
  /\ NFTVN_SIZE \in Nat \ {0, 1}
  /\ PRECISION_USEC \in Nat \ {0}
  /\ Expires \subseteq Nat
  /\ MaxTime \in Nat
  /\ SetBack \in Nat

VARIABLES
  now,        (* gettimeofday(), in clock units                            *)
  size,       (* base_.size                                                *)
  clk,        (* base_.clk, the next tick to process                       *)
  vec,        (* base_.tv, tv1, .., tv4: the timers in each slot           *)
  pc,         (* where TimerRun stands; "idle" outside GetTimer            *)
  level,      (* the outer wheel Cascade is called for                     *)
  jiffers,    (* argument of TimerRun; 0 outside a call                    *)
  all_timer   (* its result, the timers of one tick together               *)

base == <<size, clk, vec>>
call == <<pc, level, jiffers, all_timer>>
vars == <<now, base, call>>

-----------------------------------------------------------------------------
(* Geometry *)

(* 1 << LV_SHIFT(x): the ticks covered by the wheels 0 .. x together, and  *)
(* the width of one slot of wheel x + 1.                                   *)
LvSpan(x) ==
  CASE x = 0 -> NFTVR_SIZE
    [] x = 1 -> NFTVR_SIZE * NFTVN_SIZE
    [] x = 2 -> NFTVR_SIZE * NFTVN_SIZE * NFTVN_SIZE
    [] x = 3 -> NFTVR_SIZE * NFTVN_SIZE * NFTVN_SIZE * NFTVN_SIZE
    [] x = 4 -> NFTVR_SIZE * NFTVN_SIZE * NFTVN_SIZE * NFTVN_SIZE * NFTVN_SIZE

(* The largest distance the wheels can represent: 0xffffffff. *)
MaxTval == LvSpan(4) - 1

Slot == {<<0, i>> : i \in 0 .. NFTVR_SIZE - 1}
          \cup {<<n, i>> : n \in 1 .. 4, i \in 0 .. NFTVN_SIZE - 1}

TimerNode == [expires : Nat, timer_data : TimerData]

IndexOfTvn(c, n) ==
  IF n = 0 THEN c % NFTVR_SIZE ELSE (c \div LvSpan(n - 1)) % NFTVN_SIZE

GetJiffersFromTime(t) == t \div PRECISION_USEC

(* Fault: a timer one whole round away is kept in the smaller wheel. *)
LevelOfOffByOne(delta) ==
  CHOOSE n \in 0 .. 4 : /\ n > 0 => LvSpan(n - 1) < delta
                        /\ n < 4 => delta <= LvSpan(n)

(* The wheel a timer delta ticks away belongs to. *)
LevelOf(delta) ==
  CHOOSE n \in 0 .. 4 : /\ n > 0 => LvSpan(n - 1) <= delta
                        /\ n < 4 => delta < LvSpan(n)

-----------------------------------------------------------------------------
(* Operations *)

(* Fault: a timer beyond the range of the wheels is not clipped. *)
GetTimerListVecUnclipped(expires) ==
  IF expires < clk THEN <<0, IndexOfTvn(clk, 0)>>
  ELSE <<LevelOf(expires - clk), IndexOfTvn(expires, LevelOf(expires - clk))>>

(* The slot a timer is put in. *)
GetTimerListVec(expires) ==
  LET delta       == expires - clk
      expires_clk == IF delta > MaxTval THEN clk + MaxTval ELSE expires
  IN  IF delta < 0
      THEN <<0, IndexOfTvn(clk, 0)>>
      ELSE <<LevelOf(delta), IndexOfTvn(expires_clk, LevelOf(delta))>>

Init ==
  /\ now \in 0 .. MaxTime
  /\ size = 0
  /\ clk = GetJiffersFromTime(now)
  /\ vec = [s \in Slot |-> {}]
  /\ pc = "idle"
  /\ level = 1
  /\ jiffers = 0
  /\ all_timer = <<>>

AddTimer(expire, timer_data) ==
  LET tnode == [expires    |-> GetJiffersFromTime(expire),
                timer_data |-> timer_data]
  IN  /\ pc = "idle"
      /\ vec' = [vec EXCEPT ![GetTimerListVec(tnode.expires)] = @ \cup {tnode}]
      /\ size' = size + 1
      /\ UNCHANGED <<clk, call, now>>

GetTimer ==
  /\ pc = "idle"
  /\ pc' = "tick"
  /\ jiffers' = GetJiffersFromTime(now)
  /\ all_timer' = <<>>
  /\ UNCHANGED <<base, level, now>>

(* The head of the loop: a tick is left, and the outer wheels have to be   *)
(* looked at when the root wheel has gone round.                           *)
TimerRun ==
  /\ pc = "tick"
  /\ clk <= jiffers
  /\ pc' = IF IndexOfTvn(clk, 0) = 0 THEN "cascade" ELSE "splice"
  /\ level' = 1
  /\ UNCHANGED <<base, jiffers, all_timer, now>>

(* Faults: a wheel that turns does not move the next one; there is a wheel *)
(* too many; the count is corrected for the moved timers twice.            *)
CascadeOneWheelOnly ==
  /\ pc = "cascade"
  /\ vec' = [s \in Slot |->
               IF s = <<1, IndexOfTvn(clk, 1)>> THEN {}
               ELSE vec[s] \cup {x \in vec[<<1, IndexOfTvn(clk, 1)>>] :
                                   GetTimerListVec(x.expires) = s}]
  /\ pc' = "splice"
  /\ UNCHANGED <<size, clk, level, jiffers, all_timer, now>>

CascadeFifthWheel ==
  /\ pc = "cascade"
  /\ level' = IF IndexOfTvn(clk, level) = 0 THEN level + 1 ELSE 1
  /\ pc' = IF IndexOfTvn(clk, level) = 0 THEN pc ELSE "splice"
  /\ UNCHANGED <<base, jiffers, all_timer, now>>

CascadeCountsDown ==
  LET index == IndexOfTvn(clk, level)
      moved == vec[<<level, index>>]
  IN  /\ pc = "cascade"
      /\ vec' = [s \in Slot |->
                   IF s = <<level, index>> THEN {}
                   ELSE vec[s] \cup {x \in moved : GetTimerListVec(x.expires) = s}]
      /\ size' = size - Cardinality(moved)
      /\ pc' = "splice"
      /\ UNCHANGED <<clk, level, jiffers, all_timer, now>>

(* The timers of the slot the clock has reached are put in again, one      *)
(* InnerAddTimer each, and the slot is cleared; a slot with index 0 makes  *)
(* the next wheel move too.                                                *)
Cascade ==
  LET index == IndexOfTvn(clk, level)
      moved == vec[<<level, index>>]
  IN  /\ pc = "cascade"
      /\ vec' = [s \in Slot |->
                   IF s = <<level, index>> THEN {}
                   ELSE vec[s] \cup {x \in moved : GetTimerListVec(x.expires) = s}]
      /\ size' = size + Cardinality(moved)
      /\ \/ /\ index = 0 /\ level < 4
            /\ level' = level + 1
            /\ pc' = pc
         \/ /\ ~ (index = 0 /\ level < 4)
            /\ level' = 1
            /\ pc' = "splice"
      /\ UNCHANGED <<clk, jiffers, all_timer, now>>

(* Fault: the timers handed out are still counted. *)
SpliceKeepsCount ==
  LET curr_tick == <<0, IndexOfTvn(clk, 0)>>
      work_list == vec[curr_tick]
  IN  /\ pc = "splice"
      /\ clk' = clk + 1
      /\ vec' = [vec EXCEPT ![curr_tick] = {}]
      /\ all_timer' = IF work_list = {} THEN all_timer
                      ELSE Append(all_timer, {x.timer_data : x \in work_list})
      /\ pc' = "tick"
      /\ UNCHANGED <<size, level, jiffers, now>>

(* The tick is over: its slot of the root wheel is handed out. *)
Splice ==
  LET curr_tick == <<0, IndexOfTvn(clk, 0)>>
      work_list == vec[curr_tick]
  IN  /\ pc = "splice"
      /\ clk' = clk + 1
      /\ vec' = [vec EXCEPT ![curr_tick] = {}]
      /\ size' = size - Cardinality(work_list)
      /\ all_timer' = IF work_list = {} THEN all_timer
                      ELSE Append(all_timer, {x.timer_data : x \in work_list})
      /\ pc' = "tick"
      /\ UNCHANGED <<level, jiffers, now>>

TimerRunReturn ==
  /\ pc = "tick"
  /\ jiffers < clk
  /\ pc' = "idle"
  /\ jiffers' = 0
  /\ UNCHANGED <<base, level, all_timer, now>>

(* The steps of a GetTimer call that is under way. *)
WheelStep == TimerRun \/ Cascade \/ Splice \/ TimerRunReturn

(* gettimeofday() is the wall clock: it advances on its own, and it can be *)
(* set back while the program runs.  A jump is several of these steps.     *)
ClockAdvance ==
  /\ now < MaxTime
  /\ now' = now + 1
  /\ UNCHANGED <<base, call>>

ClockSetBack ==
  /\ now <= SetBack
  /\ now > 0
  /\ now' = now - 1
  /\ UNCHANGED <<base, call>>

-----------------------------------------------------------------------------
(* The timers in the wheels. *)
Nodes == UNION {vec[s] : s \in Slot}

(* The owner never stores a value a second time while it is in a wheel:    *)
(* TimerMng draws a new id for every AddTimer.                             *)
Unused == TimerData \ {x.timer_data : x \in Nodes}

Next ==
  \/ \E expire \in Expires, d \in Unused : AddTimer(expire, d)
  \/ GetTimer
  \/ WheelStep
  \/ ClockAdvance
  \/ ClockSetBack

Spec == Init /\ [][Next]_vars

(* EventLoop::Run collects timers on every round, a call of GetTimer runs  *)
(* to its end, and time passes.                                            *)
FairSpec == Spec /\ WF_vars(WheelStep) /\ WF_vars(GetTimer) /\ WF_vars(ClockAdvance)

-----------------------------------------------------------------------------
(* Properties *)

(* Every variable keeps its type: the slots hold timer nodes, the call in  *)
(* progress is at a known place of TimerRun.                               *)
TypeOK ==
  /\ now \in 0 .. MaxTime
  /\ size \in Int
  /\ clk \in Nat
  /\ vec \in [Slot -> SUBSET TimerNode]
  /\ IsFiniteSet(Nodes)
  /\ pc \in {"idle", "tick", "cascade", "splice"}
  /\ level \in 1 .. 4
  /\ jiffers \in Nat
  /\ all_timer \in Seq(SUBSET TimerData)

(* Is the outer wheel n done with the tick clk?                            *)
Cascaded(n) == pc = "splice" \/ (pc = "cascade" /\ n < level)

(* A timer in the root wheel is in the slot of its tick, less than a round *)
(* away; one that was overdue when put in is in the slot of the next tick. *)
PlacedInRoot(x, i) ==
  \/ clk <= x.expires /\ x.expires < clk + NFTVR_SIZE /\ i = x.expires % NFTVR_SIZE
  \/ x.expires < clk /\ i = clk % NFTVR_SIZE

(* A timer in wheel n sits in a slot the clock reaches next at a tick      *)
(* k * width, within one round of the wheel and not after the timer's own  *)
(* tick.                                                                   *)
PlacedInOuter(x, n, i) ==
  LET width == LvSpan(n - 1)
  IN  \E k \in 0 .. x.expires :
        /\ k % NFTVN_SIZE = i
        /\ k * width <= x.expires
        /\ k * width < clk + LvSpan(n)
        /\ clk <= k * width
        /\ Cascaded(n) => clk # k * width

(* TimerRun is in the middle of a tick only while one is due, and reaches  *)
(* an outer wheel only at a tick where that wheel turns.                   *)
LoopAtTick ==
  /\ pc \in {"cascade", "splice"} => clk <= jiffers
  /\ pc = "cascade" => clk % LvSpan(level - 1) = 0

RootPlaced ==
  \A i \in 0 .. NFTVR_SIZE - 1 : \A x \in vec[<<0, i>>] : PlacedInRoot(x, i)

OuterPlaced ==
  \A n \in 1 .. 4, i \in 0 .. NFTVN_SIZE - 1 :
    \A x \in vec[<<n, i>>] : PlacedInOuter(x, n, i)

(* No timer can be skipped by the clock: wherever Cascade or               *)
(* GetTimerListVec left it, its slot is visited before it is due, and a    *)
(* Cascade never puts a timer into a slot the current tick already passed. *)
PlacementInv == LoopAtTick /\ RootPlaced /\ OuterPlaced

(* The wheels are a timer queue: each timer comes out exactly once, in its *)
(* own tick or, if that had passed when it was put in, in the next one, and *)
(* the ticks come out in order with none left out, across every Cascade.   *)
Queue == INSTANCE TimerQueue WITH
  ExpireTick <- {GetJiffersFromTime(t) : t \in Expires},
  pending    <- {[timer_data |-> x.timer_data,
                  due |-> IF x.expires < clk THEN clk ELSE x.expires] : x \in Nodes},
  running    <- pc # "idle"

ImplementsTimerQueue == Queue!Spec

(* base_.size, which EventLoop reads to decide whether timers are left,    *)
(* never drops below the number of timers in the wheels, so the unsigned   *)
(* subtraction in TimerRun cannot wrap and no timer is forgotten.  It may  *)
(* be larger: Cascade counts a timer again.                                *)
SizeCoversTimers == Cardinality(Nodes) <= size

(* If the wall clock is not set back for ever, a timer whose tick it can    *)
(* still reach is handed out in the end: no wheel holds it for ever.       *)
EventuallyHandedOut ==
  <>[][now' >= now]_vars =>
    \A d \in TimerData :
      (\E x \in Nodes : /\ x.timer_data = d
                        /\ clk <= GetJiffersFromTime(MaxTime))
        ~> (d \notin {x.timer_data : x \in Nodes})

=============================================================================
