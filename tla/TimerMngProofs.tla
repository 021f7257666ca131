--------------------------- MODULE TimerMngProofs ---------------------------
(***************************************************************************)
(* What holds of the timer manager for every number of timers, every       *)
(* interval and every size of the wheels.                                  *)
(*                                                                         *)
(* The manager takes only steps the wheel allows its owner, because the    *)
(* ids it draws are fresh; so all that is proved of the wheel on its own   *)
(* holds of the wheel inside the manager.                                  *)
(***************************************************************************)
EXTENDS TimerMng, TimerWheelProofs, SequenceTheorems

(* The inductive invariant: what the runs check, the placement of the      *)
(* nodes it needs to know that none is lost, and that the wheel turns only *)
(* inside GetFiredTimers.                                                  *)
TurnsInsideCall == pc # "idle" => getting

MngInv ==
  /\ MngTypeOK
  /\ PlacementInv
  /\ TurnsInsideCall
  /\ IdsAreFresh
  /\ MapLeadsToLiveTimers
  /\ RegisteredIsOnWheel

-----------------------------------------------------------------------------
(* The wheel inside the manager *)

(* The id the manager draws is one the wheel does not hold. *)
LEMMA NextIdIsUnused ==
  ASSUME MngTypeOK, IdsAreFresh
  PROVE  dist_id \in Unused
  <1>1. dist_id \in TimerData
    BY TimerMngAssumption DEF MngTypeOK
  <1>2. ASSUME NEW x \in Nodes PROVE x.timer_data # dist_id
    <2>1. x.timer_data < dist_id
      BY DEF IdsAreFresh
    <2>2. dist_id \in Nat
      BY DEF MngTypeOK
    <2> QED BY <2>1, <2>2
  <1> QED BY <1>1, <1>2 DEF Unused

(* The expiry time of a started timer is one the wheel takes. *)
LEMMA ExpireTimeType ==
  ASSUME MngTypeOK, NEW t \in Timer
  PROVE  now + Interval[t] \in Expires
  BY TimerMngAssumption, WheelAssumption DEF MngTypeOK, TypeOK

(* Every step of the manager is a step of the wheel or leaves it alone. *)
LEMMA WheelTakesStep ==
  MngTypeOK /\ IdsAreFresh /\ [MngNext]_mngVars => [Next]_vars
  <1> SUFFICES ASSUME MngTypeOK, IdsAreFresh, [MngNext]_mngVars
               PROVE  [Next]_vars
    OBVIOUS
  <1>1. ASSUME NEW t \in Timer, ModTimer(t) PROVE Next
    BY <1>1, NextIdIsUnused, ExpireTimeType DEF ModTimer, Next
  <1>2. ASSUME NEW t \in Timer, UserTimer(t) PROVE [Next]_vars
    <2>1. CASE Construct(t)
      BY <2>1 DEF Construct
    <2>2. CASE Start(t)
      BY <2>2, <1>1 DEF Start, AddTimerTask
    <2>3. CASE Restart(t)
      BY <2>3, <1>1 DEF Restart
    <2>4. CASE Stop(t)
      BY <2>4 DEF Stop
    <2>5. CASE Destroy(t)
      BY <2>5 DEF Destroy
    <2> QED BY <1>2, <2>1, <2>2, <2>3, <2>4, <2>5 DEF UserTimer
  <1>3. CASE GetFiredTimers
    BY <1>3 DEF GetFiredTimers, Next
  <1>4. CASE WheelTurns
    BY <1>4 DEF WheelTurns, Next
  <1>5. CASE CollectFired
    BY <1>5 DEF CollectFired
  <1>6. CASE WallClock
    BY <1>6 DEF WallClock, Next
  <1>7. CASE UNCHANGED mngVars
    BY <1>7 DEF mngVars
  <1> QED BY <1>2, <1>3, <1>4, <1>5, <1>6, <1>7 DEF MngNext

(* While TimerRun is under way timers leave the wheels in one place only,  *)
(* and what leaves is handed out.                                          *)
LEMMA WheelLosesNothing ==
  ASSUME TypeOK, PlacementInv, WheelStep
  PROVE  /\ Nodes' \subseteq Nodes
         /\ \A x \in Nodes \ Nodes' :
              \E k \in DOMAIN all_timer' : x.timer_data \in all_timer'[k]
         /\ \A k \in DOMAIN all_timer :
              k \in DOMAIN all_timer' /\ all_timer'[k] = all_timer[k]
  <1>1. CASE Cascade
    <2>1. Nodes' = Nodes
      BY <1>1, CascadeKeeps
    <2>2. all_timer' = all_timer
      BY <1>1 DEF Cascade
    <2> QED BY <2>1, <2>2
  <1>2. CASE Splice
    <2> DEFINE work_list == vec[<<0, IndexOfTvn(clk, 0)>>]
               ids == {x.timer_data : x \in work_list}
    <2>1. Nodes' = Nodes \ work_list
      BY <1>2, SpliceRemovesDue
    <2>2. all_timer' = IF work_list = {} THEN all_timer ELSE Append(all_timer, ids)
      BY <1>2 DEF Splice
    <2>3. all_timer \in Seq(SUBSET TimerData)
      BY DEF TypeOK
    <2>4. ids \in SUBSET TimerData
      <3>1. work_list \in SUBSET TimerNode
        BY CurrentSlot DEF TypeOK
      <3> QED BY <3>1 DEF TimerNode
    <2>5. CASE work_list = {}
      BY <2>1, <2>2, <2>5
    <2>6. CASE work_list # {}
      <3> HIDE DEF ids, work_list
      <3>1. all_timer' = Append(all_timer, ids)
        BY <2>2, <2>6
      <3>2. /\ Len(all_timer) + 1 \in DOMAIN all_timer'
            /\ all_timer'[Len(all_timer) + 1] = ids
            /\ \A k \in DOMAIN all_timer :
                 k \in DOMAIN all_timer' /\ all_timer'[k] = all_timer[k]
        BY <3>1, <2>3, <2>4
      <3>3. \A x \in work_list : x.timer_data \in ids
        BY DEF ids
      <3> QED BY <2>1, <3>2, <3>3
    <2> QED BY <2>5, <2>6
  <1>3. CASE TimerRun \/ TimerRunReturn
    <2>1. vec' = vec /\ all_timer' = all_timer
      BY <1>3 DEF TimerRun, TimerRunReturn, base
    <2>2. Nodes' = Nodes
      BY <2>1 DEF Nodes
    <2> QED BY <2>1, <2>2
  <1> QED BY <1>1, <1>2, <1>3 DEF WheelStep

-----------------------------------------------------------------------------
(* The manager keeps its invariant *)

(* A construction, a stop or a deletion touches the map and the timers     *)
(* only.                                                                   *)
LEMMA UserKeepsInv ==
  ASSUME MngInv, NEW t \in Timer, Construct(t) \/ Stop(t) \/ Destroy(t),
         UNCHANGED get
  PROVE  MngInv'
  <1> USE DEF MngInv
  <1>1. UNCHANGED <<now, size, clk, vec, pc, level, jiffers, all_timer, dist_id, get>>
    BY DEF Construct, Stop, Destroy, vars, base, call, mng
  <1>2. Nodes' = Nodes
    BY <1>1 DEF Nodes
  <1>3. TypeOK' /\ PlacementInv'
    <2>1. UNCHANGED vars
      BY <1>1 DEF vars, base, call
    <2> QED BY <2>1, TypeStep, PlacementStep DEF MngTypeOK
  <1>4. /\ DOMAIN timer_map' \subseteq DOMAIN timer_map
        /\ \A id \in DOMAIN timer_map' : timer_map'[id] = timer_map[id]
    BY DEF Construct, Stop, Destroy, Erase, mng
  <1>5. /\ impl_id' \in [Timer -> Nat]
        /\ \A u \in Timer : impl_id'[u] = impl_id[u] \/ (impl_id'[u] = 0 /\ u = t)
        /\ alive' \in SUBSET Timer
    BY DEF MngTypeOK, Construct, Stop, Destroy, task
  <1>6. MngTypeOK'
    BY <1>1, <1>3, <1>4, <1>5 DEF MngTypeOK, get
  <1>7. TurnsInsideCall'
    BY <1>1 DEF TurnsInsideCall, get
  <1>8. IdsAreFresh'
    <2>1. dist_id \in Nat \ {0}
      BY DEF MngTypeOK
    <2> QED BY <1>1, <1>2, <1>4, <1>5, <2>1 DEF IdsAreFresh
  <1>9. MapLeadsToLiveTimers'
    <2> SUFFICES ASSUME NEW id \in DOMAIN timer_map'
                 PROVE  timer_map'[id] \in alive' /\ impl_id'[timer_map'[id]] = id
      BY DEF MapLeadsToLiveTimers
    <2>1. /\ id \in DOMAIN timer_map
          /\ timer_map'[id] = timer_map[id]
          /\ timer_map[id] \in alive
          /\ impl_id[timer_map[id]] = id
      BY <1>4 DEF MapLeadsToLiveTimers
    <2>2. CASE Construct(t) \/ Stop(t)
      BY <2>1, <2>2 DEF Construct, Stop, task
    <2>3. CASE Destroy(t)
      <3>1. id # impl_id[t]
        BY <2>3 DEF Destroy, Erase
      <3>2. timer_map[id] # t
        BY <2>1, <3>1
      <3> QED BY <2>1, <2>3, <3>2 DEF Destroy, MngTypeOK
    <2> QED BY <2>2, <2>3
  <1>10. RegisteredIsOnWheel'
    BY <1>1, <1>2, <1>4 DEF RegisteredIsOnWheel, get
  <1> QED BY <1>3, <1>6, <1>7, <1>8, <1>9, <1>10

(* Nothing changes but the timers that wait to run. *)
LEMMA QuietKeepsInv ==
  ASSUME MngInv, UNCHANGED <<vars, mng, task, getting>>,
         fired_timers' \in Seq(SUBSET Timer)
  PROVE  MngInv'
  <1>1. UNCHANGED <<vars, dist_id, timer_map, impl_id, alive, getting>>
    BY DEF mng, task
  <1> QED BY <1>1, TypeStep, PlacementStep
        DEF MngInv, MngTypeOK, TurnsInsideCall, IdsAreFresh,
            MapLeadsToLiveTimers, RegisteredIsOnWheel, Nodes, vars, base, call

(* A timer that goes on the wheel leaves the map under its old id and      *)
(* enters it under an id nothing else carries.                             *)
LEMMA ModTimerKeepsInv ==
  ASSUME MngInv, NEW t \in alive, ~ getting, ModTimer(t), UNCHANGED <<alive, getting>>,
         fired_timers' \in Seq(SUBSET Timer)
  PROVE  MngInv'
  <1> USE DEF MngInv
  <1> DEFINE node == [expires    |-> GetJiffersFromTime(now + Interval[t]),
                      timer_data |-> dist_id]
  <1>1. t \in Timer
    BY DEF MngTypeOK
  <1>2. /\ UNCHANGED <<now, clk, pc, level, jiffers, all_timer, alive, getting>>
        /\ dist_id' = dist_id + 1
        /\ impl_id' = [impl_id EXCEPT ![t] = dist_id]
    BY DEF ModTimer, AddTimer, call
  <1>3. TypeOK' /\ PlacementInv'
    <2>1. Next
      BY <1>1, NextIdIsUnused, ExpireTimeType DEF ModTimer, Next
    <2> QED BY <2>1, TypeStep, PlacementStep DEF MngTypeOK
  <1>4. Nodes' = Nodes \cup {node}
    <2>1. AddTimer(now + Interval[t], dist_id)
      BY DEF ModTimer
    <2> QED BY <1>1, <2>1, ExpireTimeType, AddTimerAdds DEF MngTypeOK
  <1>5. /\ DOMAIN timer_map' = (DOMAIN timer_map \ {impl_id[t]}) \cup {dist_id}
        /\ \A id \in DOMAIN timer_map' :
             timer_map'[id] = IF id = dist_id THEN t ELSE timer_map[id]
    BY DEF ModTimer, Insert, Erase
  <1>6. dist_id \in Nat \ {0}
    BY DEF MngTypeOK
  <1>7. node.timer_data = dist_id
    OBVIOUS
  <1> HIDE DEF node
  <1>8. MngTypeOK'
    BY <1>1, <1>2, <1>3, <1>5, <1>6 DEF MngTypeOK
  <1>9. TurnsInsideCall'
    BY <1>2 DEF TurnsInsideCall
  <1>10. IdsAreFresh'
    <2>1. \A x \in Nodes : x.timer_data \in Nat
      <3>1. \A x \in Nodes : x \in TimerNode
        BY DEF MngTypeOK, TypeOK, Nodes
      <3> QED BY <3>1, TimerMngAssumption DEF TimerNode
    <2>2. \A x \in Nodes' : x.timer_data < dist_id'
      BY <1>2, <1>4, <1>6, <1>7, <2>1 DEF IdsAreFresh
    <2>3. \A x, y \in Nodes' : x.timer_data = y.timer_data => x = y
      BY <1>4, <1>6, <1>7, <2>1 DEF IdsAreFresh
    <2>4. \A id \in DOMAIN timer_map' : 0 < id /\ id < dist_id'
      BY <1>2, <1>5, <1>6 DEF IdsAreFresh, MngTypeOK
    <2>5. \A u \in Timer : impl_id'[u] < dist_id'
      BY <1>2, <1>6 DEF IdsAreFresh, MngTypeOK
    <2> QED BY <2>2, <2>3, <2>4, <2>5 DEF IdsAreFresh
  <1>11. MapLeadsToLiveTimers'
    <2> SUFFICES ASSUME NEW id \in DOMAIN timer_map'
                 PROVE  timer_map'[id] \in alive' /\ impl_id'[timer_map'[id]] = id
      BY DEF MapLeadsToLiveTimers
    <2>1. CASE id = dist_id
      BY <1>1, <1>2, <1>5, <2>1 DEF MngTypeOK
    <2>2. CASE id # dist_id
      <3>1. id \in DOMAIN timer_map /\ id # impl_id[t] /\ timer_map'[id] = timer_map[id]
        BY <1>5, <2>2
      <3>2. timer_map[id] \in alive /\ impl_id[timer_map[id]] = id
        BY <3>1 DEF MapLeadsToLiveTimers
      <3>3. timer_map[id] # t
        BY <3>1, <3>2
      <3> QED BY <1>2, <3>1, <3>2, <3>3 DEF MngTypeOK
    <2> QED BY <2>1, <2>2
  <1>12. RegisteredIsOnWheel'
    <2> SUFFICES ASSUME NEW id \in DOMAIN timer_map'
                 PROVE  \E x \in Nodes' : x.timer_data = id
      BY DEF RegisteredIsOnWheel
    <2>1. CASE id = dist_id
      BY <1>4, <1>7, <2>1
    <2>2. CASE id # dist_id
      BY <1>4, <1>5, <2>2 DEF RegisteredIsOnWheel
    <2> QED BY <2>1, <2>2
  <1> QED BY <1>3, <1>8, <1>9, <1>10, <1>11, <1>12

(* GetTimer, the steps of TimerRun and the clock touch the wheel only.     *)
LEMMA WheelKeepsInv ==
  ASSUME MngInv, GetFiredTimers \/ WheelTurns \/ WallClock
  PROVE  MngInv'
  <1> USE DEF MngInv
  <1>1. UNCHANGED <<dist_id, timer_map, impl_id, alive, fired_timers>>
    BY DEF GetFiredTimers, WheelTurns, WallClock, mng, task, get
  <1>2. TypeOK' /\ PlacementInv'
    <2>1. Next
      BY DEF GetFiredTimers, WheelTurns, WallClock, Next
    <2> QED BY <2>1, TypeStep, PlacementStep DEF MngTypeOK
  <1>3. getting' \in BOOLEAN /\ (getting => getting')
    BY DEF GetFiredTimers, WheelTurns, WallClock, get, MngTypeOK
  <1>4. MngTypeOK'
    BY <1>1, <1>2, <1>3 DEF MngTypeOK
  <1>5. MapLeadsToLiveTimers'
    BY <1>1 DEF MapLeadsToLiveTimers
  <1>6. Nodes' \subseteq Nodes
    <2>1. CASE GetFiredTimers \/ WallClock
      <3>1. vec' = vec
        BY <2>1 DEF GetFiredTimers, GetTimer, WallClock, ClockAdvance, ClockSetBack, base
      <3> QED BY <3>1 DEF Nodes
    <2>2. CASE WheelTurns
      BY <2>2, WheelLosesNothing DEF WheelTurns, MngTypeOK
    <2> QED BY <2>1, <2>2
  <1>7. IdsAreFresh'
    BY <1>1, <1>6 DEF IdsAreFresh
  <1>8. TurnsInsideCall'
    <2>1. CASE GetFiredTimers
      BY <2>1 DEF GetFiredTimers, TurnsInsideCall
    <2>2. CASE WheelTurns
      BY <2>2 DEF WheelTurns, WheelStep, TimerRun, Cascade, Splice, TimerRunReturn,
                  TurnsInsideCall, get
    <2>3. CASE WallClock
      BY <2>3 DEF WallClock, ClockAdvance, ClockSetBack, call, TurnsInsideCall, get
    <2> QED BY <2>1, <2>2, <2>3
  <1>9. RegisteredIsOnWheel'
    <2> SUFFICES ASSUME NEW id \in DOMAIN timer_map
                 PROVE  \/ \E x \in Nodes' : x.timer_data = id
                        \/ getting' /\ \E k \in DOMAIN all_timer' : id \in all_timer'[k]
      BY <1>1 DEF RegisteredIsOnWheel
    <2>1. CASE GetFiredTimers
      <3>1. ~ getting /\ vec' = vec
        BY <2>1 DEF GetFiredTimers, GetTimer, base
      <3> QED BY <3>1 DEF RegisteredIsOnWheel, Nodes
    <2>2. CASE WheelTurns
      <3>1. getting /\ getting'
        BY <2>2, <1>3 DEF WheelTurns, WheelStep, TimerRun, Cascade, Splice,
                          TimerRunReturn, TurnsInsideCall
      <3>2. CASE \E x \in Nodes : x.timer_data = id
        BY <2>2, <3>1, <3>2, WheelLosesNothing DEF WheelTurns, MngTypeOK
      <3>3. CASE \E k \in DOMAIN all_timer : id \in all_timer[k]
        BY <2>2, <3>1, <3>3, WheelLosesNothing DEF WheelTurns, MngTypeOK
      <3> QED BY <3>2, <3>3 DEF RegisteredIsOnWheel
    <2>3. CASE WallClock
      <3>1. vec' = vec /\ all_timer' = all_timer /\ getting' = getting
        BY <2>3 DEF WallClock, ClockAdvance, ClockSetBack, base, call, get
      <3> QED BY <3>1 DEF RegisteredIsOnWheel, Nodes
    <2> QED BY <2>1, <2>2, <2>3
  <1> QED BY <1>2, <1>4, <1>5, <1>7, <1>8, <1>9

(* The timers collected leave the map, so those that stay are still on the *)
(* wheel.                                                                  *)
LEMMA CollectKeepsInv ==
  ASSUME MngInv, CollectFired
  PROVE  MngInv'
  <1> USE DEF MngInv
  <1> DEFINE ids(k) == {timer_map[id] : id \in all_timer[k] \cap DOMAIN timer_map}
             fire_ids == UNION {all_timer[k] : k \in DOMAIN all_timer}
  <1>1. /\ UNCHANGED <<dist_id, impl_id, alive>>
        /\ UNCHANGED vars
        /\ pc = "idle"
        /\ getting' = FALSE
    BY DEF CollectFired, task
  <1>2. TypeOK' /\ PlacementInv'
    BY <1>1, TypeStep, PlacementStep DEF MngTypeOK
  <1>3. /\ timer_map' = [id \in DOMAIN timer_map \ fire_ids |-> timer_map[id]]
        /\ fired_timers' = [k \in DOMAIN all_timer |-> ids(k)]
    BY DEF CollectFired, Collected
  <1>4. fired_timers' \in Seq(SUBSET Timer)
    <2>1. all_timer \in Seq(SUBSET TimerData)
      BY DEF MngTypeOK, TypeOK
    <2>2. DOMAIN all_timer = 1 .. Len(all_timer) /\ Len(all_timer) \in Nat
      BY <2>1
    <2>3. \A k \in DOMAIN all_timer : ids(k) \in SUBSET Timer
      BY DEF MngTypeOK
    <2> HIDE DEF ids
    <2>4. fired_timers' \in [1 .. Len(all_timer) -> SUBSET Timer]
      BY <1>3, <2>2, <2>3
    <2> QED BY <2>2, <2>4
  <1>5. /\ DOMAIN timer_map' = DOMAIN timer_map \ fire_ids
        /\ \A id \in DOMAIN timer_map' : timer_map'[id] = timer_map[id]
    BY <1>3
  <1>6. MngTypeOK'
    BY <1>1, <1>2, <1>4, <1>5 DEF MngTypeOK
  <1>7. UNCHANGED <<pc, vec, all_timer>>
    BY <1>1 DEF vars, base, call
  <1>8. Nodes' = Nodes
    BY <1>7 DEF Nodes
  <1>9. TurnsInsideCall'
    BY <1>1, <1>7 DEF TurnsInsideCall
  <1>10. IdsAreFresh'
    BY <1>1, <1>5, <1>8 DEF IdsAreFresh
  <1>11. MapLeadsToLiveTimers'
    BY <1>1, <1>5 DEF MapLeadsToLiveTimers
  <1>12. RegisteredIsOnWheel'
    <2> SUFFICES ASSUME NEW id \in DOMAIN timer_map'
                 PROVE  \E x \in Nodes' : x.timer_data = id
      BY DEF RegisteredIsOnWheel
    <2>1. id \in DOMAIN timer_map /\ id \notin fire_ids
      BY <1>5
    <2>2. ~ \E k \in DOMAIN all_timer : id \in all_timer[k]
      BY <2>1
    <2> QED BY <1>8, <2>1, <2>2 DEF RegisteredIsOnWheel
  <1> QED BY <1>2, <1>6, <1>9, <1>10, <1>11, <1>12

LEMMA MngInvInit ==
  MngInit => MngInv
  <1> SUFFICES ASSUME MngInit PROVE MngInv
    OBVIOUS
  <1>1. Init
    BY DEF MngInit
  <1>2. TypeOK /\ PlacementInv
    BY <1>1, TypeInit, PlacementInit
  <1>3. Nodes = {}
    BY <1>1 DEF Init, Nodes
  <1>4. DOMAIN timer_map = {}
    BY DEF MngInit
  <1>5. MngTypeOK
    <2>1. fired_timers \in Seq(SUBSET Timer)
      BY DEF MngInit
    <2>2. impl_id \in [Timer -> Nat] /\ dist_id \in Nat \ {0}
      BY DEF MngInit
    <2>3. alive \in SUBSET Timer /\ getting \in BOOLEAN
      BY DEF MngInit
    <2> QED BY <1>2, <1>4, <2>1, <2>2, <2>3 DEF MngTypeOK
  <1>6. TurnsInsideCall
    BY <1>1 DEF Init, TurnsInsideCall
  <1>7. IdsAreFresh
    BY <1>3, <1>4 DEF MngInit, IdsAreFresh
  <1>8. MapLeadsToLiveTimers /\ RegisteredIsOnWheel
    BY <1>4 DEF MapLeadsToLiveTimers, RegisteredIsOnWheel
  <1> QED BY <1>2, <1>5, <1>6, <1>7, <1>8 DEF MngInv

LEMMA MngInvStep ==
  MngInv /\ [MngNext]_mngVars => MngInv'
  <1> SUFFICES ASSUME MngInv, [MngNext]_mngVars PROVE MngInv'
    OBVIOUS
  <1>1. ASSUME NEW t \in Timer, ~ getting, UserTimer(t), UNCHANGED get
        PROVE  MngInv'
    <2>1. CASE Construct(t) \/ Stop(t) \/ Destroy(t)
      BY <1>1, <2>1, UserKeepsInv
    <2>2. CASE Start(t)
      <3>1. t \in alive /\ alive' = alive
        BY <2>2 DEF Start
      <3>2. CASE ModTimer(t)
        BY <1>1, <3>1, <3>2, ModTimerKeepsInv DEF MngInv, MngTypeOK, get
      <3>3. CASE UNCHANGED <<vars, mng, impl_id>>
        <4> QED BY <1>1, <3>1, <3>3, QuietKeepsInv DEF MngInv, MngTypeOK, task, get
      <3> QED BY <2>2, <3>2, <3>3 DEF Start, AddTimerTask
    <2>3. CASE Restart(t)
      BY <1>1, <2>3, ModTimerKeepsInv DEF Restart, MngInv, MngTypeOK, get
    <2> QED BY <1>1, <2>1, <2>2, <2>3 DEF UserTimer
  <1>2. CASE GetFiredTimers \/ WheelTurns \/ WallClock
    BY <1>2, WheelKeepsInv
  <1>3. CASE CollectFired
    BY <1>3, CollectKeepsInv
  <1>4. CASE UNCHANGED mngVars
    BY <1>4, QuietKeepsInv DEF mngVars, MngInv, MngTypeOK, get
  <1> QED BY <1>1, <1>2, <1>3, <1>4 DEF MngNext

-----------------------------------------------------------------------------
(* The theorems *)

LEMMA MngInvariant ==
  MngSpec => []MngInv
  <1> QED BY MngInvInit, MngInvStep, PTL DEF MngSpec

(* The state of nf_event_timer_mng.cpp keeps its type. *)
THEOREM MngTypeCorrect ==
  MngSpec => []MngTypeOK
  <1>1. MngInv => MngTypeOK
    BY DEF MngInv
  <1> QED BY <1>1, MngInvariant, PTL

(* The raw pointers in timer_map_ never dangle and no timer is known under *)
(* two ids, for any sequence of calls to the timer tasks.                  *)
THEOREM MapIsSound ==
  MngSpec => []MapLeadsToLiveTimers
  <1>1. MngInv => MapLeadsToLiveTimers
    BY DEF MngInv
  <1> QED BY <1>1, MngInvariant, PTL

(* GetDistId draws an id no node, entry or timer still carries. *)
THEOREM FreshIds ==
  MngSpec => []IdsAreFresh
  <1>1. MngInv => IdsAreFresh
    BY DEF MngInv
  <1> QED BY <1>1, MngInvariant, PTL

(* A timer in timer_map_ has its node on the wheel until it is collected. *)
THEOREM NoTimerForgotten ==
  MngSpec => []RegisteredIsOnWheel
  <1>1. MngInv => RegisteredIsOnWheel
    BY DEF MngInv
  <1> QED BY <1>1, MngInvariant, PTL

(* The manager uses the wheel as its owner should: its behaviours are      *)
(* behaviours of the wheel's specification, ...                            *)
THEOREM MngUsesWheel ==
  MngSpec => Spec
  <1>1. MngInit => Init
    BY DEF MngInit
  <1>2. MngInv /\ [MngNext]_mngVars => [Next]_vars
    BY WheelTakesStep DEF MngInv
  <1> QED BY <1>1, <1>2, MngInvariant, PTL DEF MngSpec, Spec

(* ... so in them no timer is skipped, base_.size covers the timers, and   *)
(* the wheel is a timer queue.                                             *)
THEOREM WheelInsideMng ==
  MngSpec => [](PlacementInv /\ SizeCoversTimers) /\ ImplementsTimerQueue
  BY MngUsesWheel, Placement, SizeCovers, Implementation, PTL

-----------------------------------------------------------------------------
(* The timer manager is the timer service its owners see, for any number   *)
(* of timers, any intervals and any size of the wheels.                    *)
(*                                                                         *)
(* The wheel hands out nodes; which of them fire a timer depends on        *)
(* timer_map_ alone.  What has to be known beside MngInv is that no id is  *)
(* on the wheel and handed out at once, and that no two timers carry the   *)
(* same one, so that stopping a timer by its id stops no other.            *)

HandedOutOnce ==
  getting => \A k \in DOMAIN all_timer : \A x \in Nodes : x.timer_data \notin all_timer[k]

OneIdEach ==
  \A t, u \in Timer : impl_id[t] = impl_id[u] /\ impl_id[t] # 0 => t = u

ServiceInv == MngInv /\ HandedOutOnce /\ OneIdEach

-----------------------------------------------------------------------------
(* What is armed and what is collected, for given nodes and maps *)

TimersOf(nodes, map) == {map[x.timer_data] : x \in nodes}

DueAt(x, tick) == IF x.expires < tick THEN tick ELSE x.expires

ArmedBy(nodes, map, tick) ==
  [t \in TimersOf(nodes, map) |->
     LET node == CHOOSE x \in nodes : map[x.timer_data] = t
     IN  IF node.expires < tick THEN tick ELSE node.expires]

GroupOf(ids, map) == {map[id] : id \in ids \cap DOMAIN map}

CollectedBy(ticks, map) == [k \in DOMAIN ticks |-> GroupOf(ticks[k], map)]

IsFunction(F) == F = [t \in DOMAIN F |-> F[t]]

OneNodeEach(nodes, map) ==
  \A x, y \in nodes : map[x.timer_data] = map[y.timer_data] => x = y

(* Each timer has one node, so its due tick is that node's. *)
LEMMA DueOfArmed ==
  ASSUME NEW nodes, NEW map, NEW tick, OneNodeEach(nodes, map)
  PROVE  /\ DOMAIN ArmedBy(nodes, map, tick) = TimersOf(nodes, map)
         /\ \A x \in nodes : ArmedBy(nodes, map, tick)[map[x.timer_data]] = DueAt(x, tick)
  <1>1. DOMAIN ArmedBy(nodes, map, tick) = TimersOf(nodes, map)
    BY DEF ArmedBy
  <1>2. ASSUME NEW x \in nodes
        PROVE  ArmedBy(nodes, map, tick)[map[x.timer_data]] = DueAt(x, tick)
    <2> DEFINE t == map[x.timer_data]
               node == CHOOSE y \in nodes : map[y.timer_data] = t
    <2>1. node = x
      BY DEF OneNodeEach
    <2>2. t \in TimersOf(nodes, map)
      BY DEF TimersOf
    <2>3. ArmedBy(nodes, map, tick)[t] = IF node.expires < tick THEN tick ELSE node.expires
      BY <2>2 DEF ArmedBy
    <2> QED BY <2>1, <2>3 DEF DueAt
  <1> QED BY <1>1, <1>2

(* Two ways of saying what is armed. *)
LEMMA ArmedEquals ==
  ASSUME NEW nodes, NEW map, NEW tick, NEW F,
         OneNodeEach(nodes, map),
         IsFunction(F),
         DOMAIN F = TimersOf(nodes, map),
         \A x \in nodes : F[map[x.timer_data]] = DueAt(x, tick)
  PROVE  ArmedBy(nodes, map, tick) = F
  <1> DEFINE A == ArmedBy(nodes, map, tick)
  <1>1. IsFunction(A)
    BY DEF ArmedBy, IsFunction
  <1>2. /\ DOMAIN A = TimersOf(nodes, map)
        /\ \A x \in nodes : A[map[x.timer_data]] = DueAt(x, tick)
    BY DueOfArmed
  <1> HIDE DEF A
  <1>3. DOMAIN A = DOMAIN F
    BY <1>2
  <1>4. \A t \in DOMAIN F : A[t] = F[t]
    BY <1>2 DEF TimersOf
  <1>5. A = F
    BY <1>1, <1>3, <1>4 DEF IsFunction
  <1> QED BY <1>5 DEF A

(* Ids handed out for one more tick are one more group of timers. *)
LEMMA CollectOneMore ==
  ASSUME NEW X, NEW s \in Seq(SUBSET X), NEW ids \in SUBSET X, NEW map
  PROVE  CollectedBy(Append(s, ids), map) =
           Append(CollectedBy(s, map), GroupOf(ids, map))
  <1> DEFINE Y == {map[id] : id \in DOMAIN map}
             group(tick) == GroupOf(tick, map)
             s1 == Append(s, ids)
             c == CollectedBy(s, map)
             c1 == CollectedBy(s1, map)
             n == Len(s)
  <1>1. n \in Nat /\ DOMAIN s = 1 .. n
    OBVIOUS
  <1>2. /\ s1 \in Seq(SUBSET X) /\ Len(s1) = n + 1
        /\ \A i \in 1 .. n : s1[i] = s[i]
        /\ s1[n + 1] = ids
    BY AppendProperties
  <1>3. DOMAIN s1 = 1 .. n + 1
    BY <1>1, <1>2
  <1>4. \A tick : group(tick) \in SUBSET Y
    BY DEF GroupOf
  <1> HIDE DEF s1
  <1>5. c = [i \in 1 .. n |-> group(s[i])] /\ c1 = [i \in 1 .. n + 1 |-> group(s1[i])]
    BY <1>1, <1>3 DEF CollectedBy
  <1> HIDE DEF c, c1, group, Y
  <1>6. c \in Seq(SUBSET Y) /\ Len(c) = n /\ c1 \in Seq(SUBSET Y) /\ Len(c1) = n + 1
    BY <1>1, <1>4, <1>5
  <1> DEFINE c2 == Append(c, group(ids))
  <1>7. /\ c2 \in Seq(SUBSET Y) /\ Len(c2) = n + 1
        /\ \A i \in 1 .. n : c2[i] = c[i]
        /\ c2[n + 1] = group(ids)
    BY <1>4, <1>6, AppendProperties
  <1> HIDE DEF c2
  <1>8. \A i \in 1 .. n + 1 : c1[i] = c2[i]
    <2> TAKE i \in 1 .. n + 1
    <2>1. i \in 1 .. n \/ i = n + 1
      BY <1>1
    <2> QED BY <1>2, <1>5, <1>7, <2>1
  <1>9. c1 = c2
    BY <1>6, <1>7, <1>8, SeqEqual
  <1> QED BY <1>9 DEF c, c1, c2, s1, group

-----------------------------------------------------------------------------
(* The manager in terms of these *)

LEMMA ArmedIs ==
  /\ Armed = ArmedBy(OnWheel, timer_map, clk)
  /\ Collected = CollectedBy(all_timer, timer_map)
  BY DEF Armed, ArmedBy, TimersOf, Collected, CollectedBy, GroupOf

LEMMA ArmedBecomes ==
  /\ Armed' = ArmedBy(OnWheel', timer_map', clk')
  /\ Collected' = CollectedBy(all_timer', timer_map')
  BY DEF Armed, ArmedBy, TimersOf, Collected, CollectedBy, GroupOf

(* The map knows a timer under one id, and the wheel an id in one node.    *)
LEMMA MapIsOneToOne ==
  ASSUME IdsAreFresh, MapLeadsToLiveTimers
  PROVE  OneNodeEach(OnWheel, timer_map)
  <1> SUFFICES ASSUME NEW x \in OnWheel, NEW y \in OnWheel,
                      timer_map[x.timer_data] = timer_map[y.timer_data]
               PROVE  x = y
    BY DEF OneNodeEach
  <1>1. /\ x \in Nodes /\ x.timer_data \in DOMAIN timer_map
        /\ y \in Nodes /\ y.timer_data \in DOMAIN timer_map
    BY DEF OnWheel, FindTimer
  <1>2. x.timer_data = y.timer_data
    BY <1>1 DEF MapLeadsToLiveTimers
  <1> QED BY <1>1, <1>2 DEF IdsAreFresh

LEMMA ArmedNow ==
  ASSUME MngInv
  PROVE  /\ IsFunction(Armed)
         /\ DOMAIN Armed = TimersOf(OnWheel, timer_map)
         /\ \A x \in OnWheel : Armed[timer_map[x.timer_data]] = DueAt(x, clk)
  <1>1. OneNodeEach(OnWheel, timer_map)
    BY MapIsOneToOne DEF MngInv
  <1>2. IsFunction(Armed)
    BY DEF Armed, IsFunction
  <1> QED BY <1>1, <1>2, ArmedIs, DueOfArmed

LEMMA ArmedNext ==
  ASSUME MngInv', NEW F, IsFunction(F),
         DOMAIN F = TimersOf(OnWheel', timer_map'),
         \A x \in OnWheel' : F[timer_map'[x.timer_data]] = DueAt(x, clk')
  PROVE  Armed' = F
  <1>1. OneNodeEach(OnWheel', timer_map')
    <2>1. IdsAreFresh' /\ MapLeadsToLiveTimers'
      BY DEF MngInv
    <2> SUFFICES ASSUME NEW x \in OnWheel', NEW y \in OnWheel',
                        timer_map'[x.timer_data] = timer_map'[y.timer_data]
                 PROVE  x = y
      BY DEF OneNodeEach
    <2>2. /\ x \in Nodes' /\ x.timer_data \in DOMAIN timer_map'
          /\ y \in Nodes' /\ y.timer_data \in DOMAIN timer_map'
      BY DEF OnWheel, FindTimer
    <2>3. x.timer_data = y.timer_data
      BY <2>1, <2>2 DEF MapLeadsToLiveTimers
    <2> QED BY <2>1, <2>2, <2>3 DEF IdsAreFresh
  <1> QED BY <1>1, ArmedEquals, ArmedBecomes

(* As long as the same nodes lead to the same timers, nothing is armed or  *)
(* disarmed.                                                               *)
LEMMA ArmedStays ==
  ASSUME MngInv, MngInv', OnWheel' = OnWheel, clk' = clk,
         \A x \in OnWheel : timer_map'[x.timer_data] = timer_map[x.timer_data]
  PROVE  Armed' = Armed
  <1>1. TimersOf(OnWheel', timer_map') = TimersOf(OnWheel, timer_map)
    BY DEF TimersOf
  <1>2. \A x \in OnWheel' : Armed[timer_map'[x.timer_data]] = DueAt(x, clk')
    BY ArmedNow
  <1> QED BY <1>1, <1>2, ArmedNow, ArmedNext

(* A timer in the map is the one that carries the id. *)
LEMMA IdOfTimer ==
  ASSUME MngInv, OneIdEach, NEW id \in DOMAIN timer_map, NEW t \in Timer
  PROVE  timer_map[id] = t <=> id = impl_id[t]
  <1>1. timer_map[id] \in Timer /\ impl_id[timer_map[id]] = id
    BY DEF MngInv, MngTypeOK, MapLeadsToLiveTimers
  <1>2. id # 0
    BY DEF MngInv, MngTypeOK, IdsAreFresh
  <1> QED BY <1>1, <1>2 DEF OneIdEach

-----------------------------------------------------------------------------
(* The invariant *)

(* What is handed out in a tick leaves the wheel, so nothing is both. *)
LEMMA WheelHandsOutOnce ==
  ASSUME MngInv, HandedOutOnce, WheelTurns
  PROVE  HandedOutOnce'
  <1>1. /\ getting' = getting /\ getting
        /\ TypeOK /\ PlacementInv
    BY DEF WheelTurns, WheelStep, TimerRun, Cascade, Splice, TimerRunReturn,
           MngInv, MngTypeOK, TurnsInsideCall, get
  <1>2. Nodes' \subseteq Nodes
    BY <1>1, WheelLosesNothing DEF WheelTurns
  <1>3. CASE ~ Splice
    <2>1. all_timer' = all_timer
      BY <1>3 DEF WheelTurns, WheelStep, TimerRun, Cascade, TimerRunReturn
    <2> QED BY <1>1, <1>2, <2>1 DEF HandedOutOnce
  <1>4. CASE Splice
    <2> DEFINE work_list == vec[<<0, IndexOfTvn(clk, 0)>>]
               ids == {x.timer_data : x \in work_list}
    <2>1. /\ Nodes' = Nodes \ work_list
          /\ work_list \subseteq Nodes
      BY <1>1, <1>4, SpliceRemovesDue
    <2>2. all_timer' = IF work_list = {} THEN all_timer ELSE Append(all_timer, ids)
      BY <1>4 DEF Splice
    <2>3. ids \in SUBSET TimerData
      <3>1. work_list \in SUBSET TimerNode
        BY <1>1, CurrentSlot DEF TypeOK
      <3> QED BY <3>1 DEF TimerNode
    <2>4. \A x \in Nodes' : x.timer_data \notin ids
      BY <2>1 DEF MngInv, IdsAreFresh
    <2> HIDE DEF ids, work_list
    <2>5. \A k \in DOMAIN all_timer' :
            (k \in DOMAIN all_timer /\ all_timer'[k] = all_timer[k]) \/ all_timer'[k] = ids
      BY <1>1, <2>2, <2>3, AppendProperties DEF TypeOK
    <2> QED BY <1>1, <1>2, <2>4, <2>5 DEF HandedOutOnce
  <1> QED BY <1>3, <1>4

(* Only a start gives a timer an id, a new one; only the destructor takes  *)
(* it away.                                                                *)
LEMMA OneIdEachStep ==
  ASSUME MngInv, OneIdEach,
         \/ impl_id' = impl_id
         \/ \E t \in Timer : \/ impl_id' = [impl_id EXCEPT ![t] = dist_id]
                            \/ impl_id' = [impl_id EXCEPT ![t] = 0]
  PROVE  OneIdEach'
  <1>1. CASE impl_id' = impl_id
    BY <1>1 DEF OneIdEach
  <1>2. ASSUME NEW t \in Timer, impl_id' = [impl_id EXCEPT ![t] = dist_id]
        PROVE  OneIdEach'
    <2>1. \A u \in Timer : impl_id[u] # dist_id
      BY DEF MngInv, MngTypeOK, IdsAreFresh
    <2> QED BY <1>2, <2>1 DEF OneIdEach, MngInv, MngTypeOK
  <1>3. ASSUME NEW t \in Timer, impl_id' = [impl_id EXCEPT ![t] = 0]
        PROVE  OneIdEach'
    BY <1>3 DEF OneIdEach, MngInv, MngTypeOK
  <1> QED BY <1>1, <1>2, <1>3

LEMMA ServiceInvStep ==
  ServiceInv /\ [MngNext]_mngVars => ServiceInv'
  <1> SUFFICES ASSUME ServiceInv, [MngNext]_mngVars PROVE ServiceInv'
    OBVIOUS
  <1> USE DEF ServiceInv
  <1>1. MngInv'
    BY MngInvStep
  <1>2. HandedOutOnce'
    <2>1. CASE ~ getting'
      BY <2>1 DEF HandedOutOnce
    <2>2. CASE GetFiredTimers
      BY <2>2 DEF GetFiredTimers, GetTimer, HandedOutOnce
    <2>3. CASE WheelTurns
      BY <2>3, WheelHandsOutOnce
    <2>4. CASE WallClock \/ UNCHANGED mngVars
      <3>1. UNCHANGED <<vec, all_timer, getting>>
        BY <2>4 DEF WallClock, ClockAdvance, ClockSetBack, base, call, get, mngVars, vars
      <3> QED BY <3>1 DEF HandedOutOnce, Nodes
    <2> QED BY <2>1, <2>2, <2>3, <2>4 DEF MngNext, CollectFired, get
  <1>3. OneIdEach'
    <2>1. \/ impl_id' = impl_id
          \/ \E t \in Timer : \/ impl_id' = [impl_id EXCEPT ![t] = dist_id]
                             \/ impl_id' = [impl_id EXCEPT ![t] = 0]
      BY DEF MngNext, mngVars, UserTimer, Construct, Start, Restart, Stop, Destroy,
             AddTimerTask, ModTimer, GetFiredTimers, WheelTurns, CollectFired,
             WallClock, task
    <2> QED BY <2>1, OneIdEachStep
  <1> QED BY <1>1, <1>2, <1>3

-----------------------------------------------------------------------------
(* Steps and what they are for the service *)

(* Putting a timer on the wheel arms it, and leaves the others as they are. *)
LEMMA ModTimerArmed ==
  ASSUME ServiceInv, MngInv', NEW t \in Timer, ModTimer(t)
  PROVE  LET due == Service!DueTick(GetJiffersFromTime(now + Interval[t]))
         IN  /\ pc = "idle" /\ UNCHANGED <<clk, pc, jiffers>>
             /\ Armed' = [u \in DOMAIN Armed \cup {t} |-> IF u = t THEN due ELSE Armed[u]]
  <1> USE DEF ServiceInv
  <1> DEFINE e == GetJiffersFromTime(now + Interval[t])
             node == [expires |-> e, timer_data |-> dist_id]
             F == [u \in DOMAIN Armed \cup {t} |-> IF u = t THEN Service!DueTick(e) ELSE Armed[u]]
  <1>1. pc = "idle" /\ UNCHANGED <<clk, pc, jiffers>>
    BY DEF ModTimer, AddTimer, call
  <1>3. Nodes' = Nodes \cup {node}
    BY ExpireTimeType, AddTimerAdds DEF ModTimer, MngInv, MngTypeOK
  <1>4. /\ DOMAIN timer_map' = (DOMAIN timer_map \ {impl_id[t]}) \cup {dist_id}
        /\ \A id \in DOMAIN timer_map' :
             timer_map'[id] = IF id = dist_id THEN t ELSE timer_map[id]
    BY DEF ModTimer, Insert, Erase
  <1>5. \A x \in Nodes : x.timer_data # dist_id
    BY NextIdIsUnused DEF Unused, MngInv
  <1>6. node.timer_data = dist_id /\ DueAt(node, clk) = Service!DueTick(e)
    BY DEF DueAt, Service!DueTick
  <1> HIDE DEF node, e
  <1>7. OnWheel' = {x \in OnWheel : x.timer_data # impl_id[t]} \cup {node}
    BY <1>3, <1>4, <1>5, <1>6 DEF OnWheel, FindTimer
  <1>8. \A x \in OnWheel : /\ x.timer_data \in DOMAIN timer_map
                           /\ x.timer_data # dist_id
                           /\ timer_map[x.timer_data] = t <=> x.timer_data = impl_id[t]
    BY <1>5, IdOfTimer DEF OnWheel, FindTimer
  <1>9. DOMAIN F = TimersOf(OnWheel', timer_map')
    <2>1. DOMAIN F = TimersOf(OnWheel, timer_map) \cup {t}
      BY ArmedNow
    <2>2. TimersOf(OnWheel', timer_map') = TimersOf(OnWheel, timer_map) \cup {t}
      BY <1>4, <1>6, <1>7, <1>8 DEF TimersOf
    <2> QED BY <2>1, <2>2
  <1>10. ASSUME NEW x \in OnWheel'
         PROVE  F[timer_map'[x.timer_data]] = DueAt(x, clk')
    <2>1. CASE x = node
      BY <1>1, <1>4, <1>6, <2>1
    <2>2. CASE x # node
      <3>1. x \in OnWheel /\ x.timer_data # impl_id[t]
        BY <1>7, <2>2
      <3>2. /\ timer_map'[x.timer_data] = timer_map[x.timer_data]
            /\ timer_map[x.timer_data] # t
        BY <1>4, <1>8, <3>1
      <3>3. /\ timer_map[x.timer_data] \in DOMAIN Armed
            /\ Armed[timer_map[x.timer_data]] = DueAt(x, clk)
        BY <3>1, ArmedNow DEF TimersOf
      <3> QED BY <1>1, <3>2, <3>3
    <2> QED BY <2>1, <2>2
  <1>11. IsFunction(F)
    BY DEF IsFunction
  <1> HIDE DEF F
  <1>12. Armed' = F
    BY <1>9, <1>10, <1>11, ArmedNext
  <1> QED BY <1>1, <1>12 DEF F, e

(* Starting or restarting arms the timer. *)
LEMMA ModTimerArms ==
  ASSUME ServiceInv, MngInv', NEW t \in Timer, ModTimer(t), ~ getting, UNCHANGED get
  PROVE  Service!Arm(t, GetJiffersFromTime(now + Interval[t]))
  <1>1. Fired' = Fired
    BY DEF Fired, get
  <1> QED BY <1>1, ModTimerArmed DEF Service!Arm

(* Stopping or deleting disarms it, and no other. *)
LEMMA EraseDisarms ==
  ASSUME ServiceInv, MngInv', NEW t \in Timer, ~ getting, UNCHANGED <<vars, get>>,
         timer_map' = Erase(timer_map, impl_id[t])
  PROVE  Service!Disarm(t)
  <1> USE DEF ServiceInv
  <1> DEFINE F == [u \in DOMAIN Armed \ {t} |-> Armed[u]]
  <1>1. /\ pc = "idle"
        /\ UNCHANGED <<clk, pc, jiffers, vec, getting, fired_timers>>
    BY DEF MngInv, TurnsInsideCall, MngTypeOK, vars, base, call, get
  <1>2. Fired' = Fired /\ Nodes' = Nodes
    BY <1>1 DEF Fired, Nodes
  <1>3. /\ DOMAIN timer_map' = DOMAIN timer_map \ {impl_id[t]}
        /\ \A id \in DOMAIN timer_map' : timer_map'[id] = timer_map[id]
    BY DEF Erase
  <1>4. OnWheel' = {x \in OnWheel : x.timer_data # impl_id[t]}
    BY <1>2, <1>3 DEF OnWheel, FindTimer
  <1>5. \A x \in OnWheel : /\ x.timer_data \in DOMAIN timer_map
                           /\ timer_map[x.timer_data] = t <=> x.timer_data = impl_id[t]
    BY IdOfTimer DEF OnWheel, FindTimer
  <1>6. DOMAIN F = TimersOf(OnWheel', timer_map')
    <2>1. DOMAIN F = TimersOf(OnWheel, timer_map) \ {t}
      BY ArmedNow
    <2>2. TimersOf(OnWheel', timer_map') = TimersOf(OnWheel, timer_map) \ {t}
      BY <1>3, <1>4, <1>5 DEF TimersOf
    <2> QED BY <2>1, <2>2
  <1>7. ASSUME NEW x \in OnWheel'
        PROVE  F[timer_map'[x.timer_data]] = DueAt(x, clk')
    <2>1. x \in OnWheel /\ timer_map'[x.timer_data] = timer_map[x.timer_data]
      BY <1>3, <1>4, <1>5
    <2>2. timer_map[x.timer_data] \in DOMAIN Armed /\ timer_map[x.timer_data] # t
      BY <1>4, <1>5, <2>1, ArmedNow DEF TimersOf
    <2> QED BY <1>1, <2>1, <2>2, ArmedNow
  <1>8. IsFunction(F)
    BY DEF IsFunction
  <1> HIDE DEF F
  <1>9. Armed' = F
    BY <1>6, <1>7, <1>8, ArmedNext
  <1> QED BY <1>1, <1>2, <1>9 DEF Service!Disarm, F

(* The timers of the slot handed out are the timers due in this tick. *)
LEMMA SpliceIsTick ==
  ASSUME ServiceInv, MngInv', Splice, UNCHANGED <<mng, task, get>>
  PROVE  Service!Tick
  <1> USE DEF ServiceInv
  <1> DEFINE work_list == vec[<<0, IndexOfTvn(clk, 0)>>]
             ids == {x.timer_data : x \in work_list}
             group == GroupOf(ids, timer_map)
             dueNow == {t \in DOMAIN Armed : Armed[t] = clk}
             F == [t \in DOMAIN Armed \ dueNow |-> Armed[t]]
  <1>1. /\ pc = "splice" /\ pc' = "tick" /\ clk' = clk + 1 /\ jiffers' = jiffers
        /\ timer_map' = timer_map /\ getting /\ getting'
        /\ clk <= jiffers
        /\ TypeOK /\ PlacementInv
    BY DEF Splice, MngInv, MngTypeOK, TurnsInsideCall, PlacementInv, LoopAtTick, mng, get
  <1>2. /\ work_list = {x \in Nodes : DueAt(x, clk) = clk}
        /\ Nodes' = Nodes \ work_list
        /\ \A x \in Nodes' : DueAt(x, clk') = DueAt(x, clk)
    BY <1>1, SpliceRemovesDue DEF DueAt, Due
  <1>3. all_timer' = IF work_list = {} THEN all_timer ELSE Append(all_timer, ids)
    BY DEF Splice
  <1>4. ids \in SUBSET TimerData
    <2>1. work_list \in SUBSET TimerNode
      BY <1>1, CurrentSlot DEF TypeOK
    <2> QED BY <2>1 DEF TimerNode
  <1>5. work_list = {} => group = {}
    BY DEF GroupOf
  <1> HIDE DEF work_list
  <1>6. group = dueNow
    <2>1. \A t : t \in group <=> \E x \in OnWheel : x \in work_list /\ t = timer_map[x.timer_data]
      BY <1>2 DEF OnWheel, FindTimer, GroupOf
    <2>2. \A t : t \in dueNow <=> \E x \in OnWheel : /\ t = timer_map[x.timer_data]
                                                     /\ Armed[t] = clk
      BY ArmedNow DEF TimersOf
    <2>3. \A x \in OnWheel : x \in work_list <=> Armed[timer_map[x.timer_data]] = clk
      BY <1>2, ArmedNow DEF OnWheel
    <2> HIDE DEF group, dueNow
    <2>4. \A t : t \in group <=> t \in dueNow
      BY <2>1, <2>2, <2>3
    <2> QED BY <2>4
  <1>7. Fired = CollectedBy(all_timer, timer_map) /\ Fired' = CollectedBy(all_timer', timer_map)
    BY <1>1, ArmedIs, ArmedBecomes DEF Fired
  <1>8. Fired' = IF work_list = {} THEN Fired ELSE Append(Fired, group)
    <2> HIDE DEF ids
    <2>1. all_timer \in Seq(SUBSET TimerData)
      BY <1>1 DEF TypeOK
    <2>2. CollectedBy(Append(all_timer, ids), timer_map) =
            Append(CollectedBy(all_timer, timer_map), group)
      BY <1>4, <2>1, CollectOneMore
    <2> HIDE DEF group
    <2> QED BY <1>3, <1>7, <2>2
  <1>9. OnWheel' = OnWheel \ work_list
    BY <1>1, <1>2 DEF OnWheel, FindTimer
  <1> HIDE DEF group, ids
  <1>10. \A x \in OnWheel : /\ timer_map[x.timer_data] \in DOMAIN Armed
                            /\ timer_map[x.timer_data] \in dueNow <=> x \in work_list
    <2>1. \A x \in OnWheel : x \in work_list <=> Armed[timer_map[x.timer_data]] = clk
      BY <1>2, ArmedNow DEF OnWheel
    <2> QED BY <2>1, ArmedNow DEF TimersOf
  <1> HIDE DEF dueNow
  <1>11. DOMAIN F = TimersOf(OnWheel', timer_map')
    <2>1. DOMAIN F = TimersOf(OnWheel, timer_map) \ dueNow
      BY ArmedNow
    <2>2. TimersOf(OnWheel', timer_map') = TimersOf(OnWheel, timer_map) \ dueNow
      BY <1>1, <1>9, <1>10 DEF TimersOf
    <2> QED BY <2>1, <2>2
  <1>12. ASSUME NEW x \in OnWheel'
         PROVE  F[timer_map'[x.timer_data]] = DueAt(x, clk')
    <2>1. x \in OnWheel /\ x \notin work_list /\ x \in Nodes'
      BY <1>9 DEF OnWheel
    <2>2. timer_map[x.timer_data] \in DOMAIN Armed \ dueNow
      BY <1>10, <2>1
    <2> QED BY <1>1, <1>2, <2>1, <2>2, ArmedNow
  <1>13. IsFunction(F)
    BY DEF IsFunction
  <1> HIDE DEF F
  <1>14. Armed' = F
    BY <1>11, <1>12, <1>13, ArmedNext
  <1> QED BY <1>1, <1>5, <1>6, <1>8, <1>14 DEF Service!Tick, F, dueNow

(* What else happens inside the manager its owners do not see. *)
LEMMA QuietStep ==
  ASSUME ServiceInv, MngInv', OnWheel' = OnWheel, Fired' = Fired,
         UNCHANGED <<clk, jiffers>>, (pc # "idle")' = (pc # "idle"),
         \A x \in OnWheel : timer_map'[x.timer_data] = timer_map[x.timer_data]
  PROVE  UNCHANGED Service!vars
  <1>1. Armed' = Armed
    BY ArmedStays DEF ServiceInv
  <1> QED BY <1>1 DEF Service!vars

(* The ids collected are not on the wheel: collecting them disarms nobody. *)
LEMMA CollectIsQuiet ==
  ASSUME ServiceInv, MngInv', CollectFired
  PROVE  UNCHANGED Service!vars
  <1> DEFINE fire_ids == UNION {all_timer[k] : k \in DOMAIN all_timer}
  <1>1. /\ UNCHANGED <<clk, jiffers, pc, vec>>
        /\ getting /\ ~ getting'
        /\ fired_timers' = Collected
        /\ timer_map' = [id \in DOMAIN timer_map \ fire_ids |-> timer_map[id]]
    BY DEF CollectFired, vars, base, call
  <1>2. Fired' = Fired
    BY <1>1 DEF Fired
  <1>3. Nodes' = Nodes
    BY <1>1 DEF Nodes
  <1>4. \A x \in Nodes : x.timer_data \notin fire_ids
    BY <1>1 DEF ServiceInv, HandedOutOnce
  <1> HIDE DEF fire_ids
  <1>5. OnWheel' = OnWheel
    BY <1>1, <1>3, <1>4 DEF OnWheel, FindTimer
  <1>6. \A x \in OnWheel : timer_map'[x.timer_data] = timer_map[x.timer_data]
    BY <1>1, <1>4 DEF OnWheel, FindTimer
  <1> QED BY <1>1, <1>2, <1>5, <1>6, QuietStep

(* Steps that leave the nodes and the map alone. *)
LEMMA SameNodesStep ==
  ASSUME ServiceInv, MngInv', Nodes' = Nodes,
         UNCHANGED <<clk, jiffers, timer_map, all_timer, getting, fired_timers>>,
         (pc # "idle")' = (pc # "idle")
  PROVE  UNCHANGED Service!vars
  <1>1. OnWheel' = OnWheel
    BY DEF OnWheel, FindTimer
  <1>2. Fired' = Fired
    BY DEF Fired, Collected
  <1> QED BY <1>1, <1>2, QuietStep

LEMMA ClockIsQuiet ==
  ASSUME ServiceInv, MngInv', WallClock \/ UNCHANGED mngVars
  PROVE  UNCHANGED Service!vars
  <1>1. UNCHANGED <<clk, jiffers, pc, vec, all_timer, timer_map, getting, fired_timers>>
    BY DEF WallClock, ClockAdvance, ClockSetBack, base, call, mng, get, mngVars, vars
  <1>2. Nodes' = Nodes
    BY <1>1 DEF Nodes
  <1> QED BY <1>1, <1>2, SameNodesStep

LEMMA ServiceInit ==
  MngInit => ServiceInv /\ Service!Init
  <1> SUFFICES ASSUME MngInit PROVE ServiceInv /\ Service!Init
    OBVIOUS
  <1>1. MngInv
    BY MngInvInit
  <1>2. ServiceInv
    BY <1>1 DEF MngInit, ServiceInv, HandedOutOnce, OneIdEach
  <1> DEFINE F == [t \in {} |-> 0]
  <1>3. OnWheel = {}
    BY DEF MngInit, OnWheel, FindTimer
  <1>4. IsFunction(F) /\ DOMAIN F = TimersOf(OnWheel, timer_map)
    BY <1>3 DEF IsFunction, TimersOf
  <1> HIDE DEF F
  <1>5. Armed = F
    BY <1>1, <1>3, <1>4, ArmedIs, ArmedEquals, MapIsOneToOne DEF MngInv
  <1>6. /\ clk \in Nat /\ pc = "idle" /\ jiffers = 0
        /\ Fired = << >>
    BY <1>1 DEF MngInit, Init, MngInv, MngTypeOK, TypeOK, Fired
  <1> QED BY <1>2, <1>5, <1>6 DEF Service!Init, F

LEMMA ServiceStep ==
  ServiceInv /\ MngInv' /\ [MngNext]_mngVars => [Service!Next]_(Service!vars)
  <1> SUFFICES ASSUME ServiceInv, MngInv', [MngNext]_mngVars
               PROVE  Service!Next \/ UNCHANGED Service!vars
    OBVIOUS
  <1> USE DEF ServiceInv
  <1>1. ASSUME NEW t \in Timer, ~ getting, UNCHANGED get, UserTimer(t)
        PROVE  Service!Next \/ UNCHANGED Service!vars
    <2>1. CASE ModTimer(t)
      <3>1. now \in 0 .. MaxTime
        BY DEF MngInv, MngTypeOK, TypeOK
      <3> QED BY <1>1, <2>1, <3>1, ModTimerArms DEF Service!Next
    <2>2. CASE UNCHANGED <<vars, timer_map>>
      <3>1. /\ UNCHANGED <<clk, jiffers, pc, vec, all_timer, timer_map>>
            /\ UNCHANGED <<getting, fired_timers>>
        BY <1>1, <2>2 DEF vars, base, call, get
      <3>2. Nodes' = Nodes
        BY <3>1 DEF Nodes
      <3> QED BY <3>1, <3>2, SameNodesStep
    <2>3. CASE Stop(t) \/ Destroy(t)
      <3>1. UNCHANGED <<vars, get>> /\ timer_map' = Erase(timer_map, impl_id[t])
        BY <1>1, <2>3 DEF Stop, Destroy
      <3> QED BY <1>1, <3>1, EraseDisarms DEF Service!Next
    <2> QED BY <1>1, <2>1, <2>2, <2>3
            DEF UserTimer, Construct, Start, Restart, AddTimerTask, mng
  <1>2. CASE GetFiredTimers
    <2>1. /\ ~ getting /\ getting' /\ pc = "idle" /\ pc' = "tick"
          /\ all_timer' = <<>>
          /\ UNCHANGED <<clk, vec, timer_map>>
      BY <1>2 DEF GetFiredTimers, GetTimer, base, mng
    <2>2. Nodes' = Nodes
      BY <2>1 DEF Nodes
    <2>3. OnWheel' = OnWheel
      BY <2>1, <2>2 DEF OnWheel, FindTimer
    <2>4. Armed' = Armed
      BY <2>1, <2>3, ArmedStays
    <2>5. Fired' = <<>>
      BY <2>1 DEF Fired, Collected
    <2>6. jiffers' \in Nat
      BY DEF MngInv, MngTypeOK, TypeOK
    <2> QED BY <2>1, <2>4, <2>5, <2>6 DEF Service!Next, Service!GetTimer
  <1>3. CASE WheelTurns
    <2>1. CASE Splice
      BY <1>3, <2>1, SpliceIsTick DEF WheelTurns, Service!Next
    <2>2. CASE TimerRunReturn
      <3>1. /\ UNCHANGED <<clk, vec, all_timer, timer_map, getting, fired_timers>>
            /\ pc = "tick" /\ pc' = "idle" /\ jiffers < clk /\ jiffers' = 0
        BY <1>3, <2>2 DEF WheelTurns, TimerRunReturn, base, mng, get
      <3>2. Nodes' = Nodes
        BY <3>1 DEF Nodes
      <3>3. OnWheel' = OnWheel
        BY <3>1, <3>2 DEF OnWheel, FindTimer
      <3>4. Armed' = Armed
        BY <3>1, <3>3, ArmedStays
      <3>5. Fired' = Fired
        BY <3>1 DEF Fired, Collected
      <3> QED BY <3>1, <3>4, <3>5 DEF Service!Next, Service!Return
    <2>3. CASE TimerRun \/ Cascade
      <3>1. /\ UNCHANGED <<clk, jiffers, all_timer, timer_map, getting, fired_timers>>
            /\ pc # "idle" /\ pc' # "idle"
        BY <1>3, <2>3 DEF WheelTurns, TimerRun, Cascade, base, mng, get
      <3>2. Nodes' = Nodes
        <4>1. CASE TimerRun
          BY <4>1 DEF TimerRun, base, Nodes
        <4> QED BY <2>3, <4>1, CascadeKeeps DEF MngInv, MngTypeOK
      <3> QED BY <3>1, <3>2, SameNodesStep
    <2> QED BY <1>3, <2>1, <2>2, <2>3 DEF WheelTurns, WheelStep
  <1>4. CASE CollectFired
    BY <1>4, CollectIsQuiet
  <1>5. CASE WallClock \/ UNCHANGED mngVars
    BY <1>5, ClockIsQuiet
  <1> QED BY <1>1, <1>2, <1>3, <1>4, <1>5 DEF MngNext

(* Start, Restart, Stop and the destructor do to the timers what their     *)
(* names say, and GetFiredTimers returns every armed timer once, in its    *)
(* own tick: ids, map and wheel are hidden.                                *)
THEOREM MngIsTheService ==
  MngSpec => ImplementsTimerService
  <1>1. ServiceInv => MngInv
    BY DEF ServiceInv
  <1> QED
    BY <1>1, ServiceInit, ServiceInvStep, ServiceStep, PTL
       DEF MngSpec, ImplementsTimerService, Service!Spec

=============================================================================
