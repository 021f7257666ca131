------------------------------ MODULE TimerMng ------------------------------
(***************************************************************************)
(* The timer tasks of src/src/nf_event_timer_task.cpp and the manager of   *)
(* src/src/nf_event_timer_mng.cpp that keeps them on the timing wheel.     *)
(*                                                                         *)
(* The manager draws a new id each time it puts a timer on the wheel, the  *)
(* wheel stores the id, and timer_map_ leads from the id to the timer.     *)
(* Stopping or restarting a timer only takes the old id out of timer_map_: *)
(* the node stays on the wheel and is ignored when it comes out.           *)
(*                                                                         *)
(* EventLoop calls all of this from one thread; getting tells that         *)
(* GetFiredTimers is under way.                                            *)
(***************************************************************************)
EXTENDS TimerWheel

CONSTANTS
  Timer,      (* the TimerTask objects                                     *)
  Interval,   (* the interval of each, in clock units                      *)
  MaxId       (* bound: owners start timers only while ids are left        *)

ASSUME TimerMngAssumption ==
  /\ TimerData = Nat
  /\ Interval \in [Timer -> Nat]
  /\ \A begin \in 0 .. MaxTime, t \in Timer : begin + Interval[t] \in Expires
  /\ MaxId \in Nat

VARIABLES
  dist_id,       (* the next id                                            *)
  timer_map,     (* timer_map_: from ids to timers                         *)
  impl_id,       (* TimerImpl::id_ of each timer, 0 for one that is deleted *)
  alive,         (* the TimerTask objects that exist                       *)
  getting,       (* is GetFiredTimers under way                            *)
  fired_timers   (* its result, the timers of one tick together            *)

mng  == <<dist_id, timer_map>>
task == <<impl_id, alive>>
get  == <<getting, fired_timers>>
mngVars == <<vars, mng, task, get>>

-----------------------------------------------------------------------------
(* TimerMng *)

FindTimer(id) == id \in DOMAIN timer_map

(* timer_map_ without an id, and with one more. *)
Erase(map, id) == [i \in DOMAIN map \ {id} |-> map[i]]
Insert(map, id, t) == [i \in DOMAIN map \cup {id} |-> IF i = id THEN t ELSE map[i]]

(* Fault: the old id stays in the map. *)
ModTimerKeepsOldId(t) ==
  /\ timer_map' = Insert(timer_map, dist_id, t)
  /\ impl_id' = [impl_id EXCEPT ![t] = dist_id]
  /\ dist_id' = dist_id + 1
  /\ AddTimer(now + Interval[t], dist_id)

(* ModTimer: the timer leaves the map under its old id and goes on the     *)
(* wheel under a new one, to expire Interval after its begin time.  Every  *)
(* caller has just set begin_ to the present time, the only value of it    *)
(* that is ever read.                                                      *)
ModTimer(t) ==
  /\ timer_map' = Insert(Erase(timer_map, impl_id[t]), dist_id, t)
  /\ impl_id' = [impl_id EXCEPT ![t] = dist_id]
  /\ dist_id' = dist_id + 1
  /\ AddTimer(now + Interval[t], dist_id)

(* AddTimer fails when the timer is in the map already. *)
AddTimerTask(t) ==
  \/ /\ ~ FindTimer(impl_id[t])
     /\ ModTimer(t)
  \/ /\ FindTimer(impl_id[t])
     /\ UNCHANGED <<vars, mng, impl_id>>

(* GetFiredTimers calls the wheel, step by step, ...                       *)
GetFiredTimers ==
  /\ ~ getting
  /\ GetTimer
  /\ getting' = TRUE
  /\ UNCHANGED <<mng, task, fired_timers>>

(* The timers whose ids came out, as far as they are still in the map.     *)
Collected ==
  [k \in DOMAIN all_timer |-> {timer_map[id] : id \in all_timer[k] \cap DOMAIN timer_map}]

(* Fault: a fired timer stays in the map. *)
CollectFiredKeepsEntry ==
  /\ getting
  /\ pc = "idle"
  /\ fired_timers' = Collected
  /\ getting' = FALSE
  /\ UNCHANGED <<vars, mng, task>>

(* ... and collects the timers, which leave the map.                       *)
CollectFired ==
  LET fire_ids == UNION {all_timer[k] : k \in DOMAIN all_timer}
  IN  /\ getting
      /\ pc = "idle"
      /\ fired_timers' = Collected
      /\ timer_map' = [id \in DOMAIN timer_map \ fire_ids |-> timer_map[id]]
      /\ getting' = FALSE
      /\ UNCHANGED <<vars, dist_id, task>>

-----------------------------------------------------------------------------
(* TimerTask *)

Construct(t) ==
  /\ t \notin alive
  /\ alive' = alive \cup {t}
  /\ UNCHANGED <<vars, mng, impl_id>>

Start(t) ==
  /\ t \in alive
  /\ AddTimerTask(t)
  /\ UNCHANGED alive

Restart(t) ==
  /\ t \in alive
  /\ ModTimer(t)
  /\ UNCHANGED alive

Stop(t) ==
  /\ t \in alive
  /\ timer_map' = Erase(timer_map, impl_id[t])
  /\ UNCHANGED <<vars, dist_id, task>>

(* Fault: the destructor frees the timer without stopping it. *)
DestroyKeepsEntry(t) ==
  /\ t \in alive
  /\ alive' = alive \ {t}
  /\ impl_id' = [impl_id EXCEPT ![t] = 0]
  /\ UNCHANGED <<vars, mng>>

(* The destructor stops the timer and frees it. *)
Destroy(t) ==
  /\ t \in alive
  /\ timer_map' = Erase(timer_map, impl_id[t])
  /\ alive' = alive \ {t}
  /\ impl_id' = [impl_id EXCEPT ![t] = 0]
  /\ UNCHANGED <<vars, dist_id>>

(* What the program may do with a timer whenever its own code runs. *)
UserTimer(t) ==
  \/ Construct(t)
  \/ dist_id <= MaxId /\ (Start(t) \/ Restart(t))
  \/ Stop(t)
  \/ Destroy(t)

-----------------------------------------------------------------------------
MngInit ==
  /\ Init
  /\ dist_id = 1
  /\ timer_map = << >>
  /\ impl_id = [t \in Timer |-> 0]
  /\ alive = {}
  /\ getting = FALSE
  /\ fired_timers = <<>>

WheelTurns ==
  /\ WheelStep
  /\ UNCHANGED <<mng, task, get>>

WallClock ==
  /\ ClockAdvance \/ ClockSetBack
  /\ UNCHANGED <<mng, task, get>>

MngNext ==
  \/ \E t \in Timer : ~ getting /\ UserTimer(t) /\ UNCHANGED get
  \/ GetFiredTimers
  \/ WheelTurns
  \/ CollectFired
  \/ WallClock

MngSpec == MngInit /\ [][MngNext]_mngVars

-----------------------------------------------------------------------------
(* Properties *)

(* Every variable keeps its type. *)
MngTypeOK ==
  /\ TypeOK
  /\ dist_id \in Nat \ {0}
  /\ DOMAIN timer_map \subseteq Nat
  /\ \A id \in DOMAIN timer_map : timer_map[id] \in Timer
  /\ impl_id \in [Timer -> Nat]
  /\ alive \in SUBSET Timer
  /\ getting \in BOOLEAN
  /\ fired_timers \in Seq(SUBSET Timer)

(* timer_map_ holds raw pointers.  It never leads to a deleted timer, and  *)
(* it knows a timer under the id the timer itself would be stopped with,   *)
(* so never under two: whatever mix of Start, Restart, Stop, firing and    *)
(* deletion came before.                                                   *)
MapLeadsToLiveTimers ==
  \A id \in DOMAIN timer_map :
    /\ timer_map[id] \in alive
    /\ impl_id[timer_map[id]] = id

(* Ids are drawn once: everything on the wheel, in the map or in a timer   *)
(* carries an id already drawn, and the wheel holds each id at most once.  *)
IdsAreFresh ==
  /\ \A x \in Nodes : x.timer_data < dist_id
  /\ \A x, y \in Nodes : x.timer_data = y.timer_data => x = y
  /\ \A id \in DOMAIN timer_map : 0 < id /\ id < dist_id
  /\ \A t \in Timer : impl_id[t] < dist_id

(* A timer in the map cannot be forgotten: its node is on the wheel, or    *)
(* has just come out and is about to be collected.                         *)
RegisteredIsOnWheel ==
  \A id \in DOMAIN timer_map :
    \/ \E x \in Nodes : x.timer_data = id
    \/ getting /\ \E k \in DOMAIN all_timer : id \in all_timer[k]

(* The nodes that can still fire a timer, and when each timer is due.      *)
OnWheel == {x \in Nodes : FindTimer(x.timer_data)}

Armed ==
  [t \in {timer_map[x.timer_data] : x \in OnWheel} |->
     LET node == CHOOSE x \in OnWheel : timer_map[x.timer_data] = t
     IN  IF node.expires < clk THEN clk ELSE node.expires]

(* What GetFiredTimers has collected. *)
Fired == IF getting THEN Collected ELSE fired_timers

Service == INSTANCE TimerService WITH
  ExpireTick <- {GetJiffersFromTime(b + Interval[t]) : b \in 0 .. MaxTime, t \in Timer},
  armed      <- Armed,
  running    <- pc # "idle",
  fired      <- Fired

(* With ids, map and wheel hidden the manager is the timer service: a      *)
(* stopped timer never fires, a restarted one fires for its last start     *)
(* only, the nodes they leave on the wheel fire nobody, and a timer fires  *)
(* once per start, in its due tick.                                        *)
ImplementsTimerService == Service!Spec

=============================================================================
