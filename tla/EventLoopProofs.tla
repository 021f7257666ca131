--------------------------- MODULE EventLoopProofs ---------------------------
(***************************************************************************)
(* What holds of the event loop for any number of tasks of each kind, any  *)
(* descriptors and any size of the wheels, whatever the callbacks do that  *)
(* the rules in EventLoop allow.                                           *)
(*                                                                         *)
(* Each step of the loop is one of the timer manager, with the fired       *)
(* timers going out one at a time, or leaves the timers alone; so MngInv   *)
(* holds here too.  To it comes what the loop's own pointers lead to and   *)
(* where Run can stand.                                                    *)
(***************************************************************************)
EXTENDS EventLoop, TimerMngProofs, SequenceTheorems

(* The timers, and those taken out to be run. *)
TimersSound ==
  /\ MngInv
  /\ SizeCoversTimers
  /\ WaitingTimer \subseteq alive
  /\ recalled \subseteq WaitingTimer

(* The registry, epoll's set and the events reported: while one waits, its *)
(* number is not given to another task.                                    *)
IOSound ==
  /\ DOMAIN file_tasks \subseteq Fd
  /\ \A fd \in DOMAIN file_tasks :
       FdOf[file_tasks[fd]] = fd /\ file_tasks[fd] \in io_alive
  /\ io_alive \subseteq IOTask
  /\ interest \subseteq open /\ open \subseteq Fd
  /\ RegisteredIsPolled
  /\ phase = "new" => DOMAIN file_tasks = {}
  /\ fires \subseteq Fd
  /\ fires \subseteq DOMAIN polled
  /\ \A fd \in fires : FindTask(fd) => file_tasks[fd] = polled[fd]

IdleSound ==
  /\ idle_tasks \in [Idle -> 0 .. MaxIdle] /\ vecs \in [Idle -> 0 .. MaxIdle]
  /\ idle_alive \subseteq Idle
  /\ WaitingIdle \cup Listed(idle_tasks) \subseteq idle_alive

(* Callbacks run, timers are collected and wait to run only in their part  *)
(* of a round.                                                             *)
RunSound ==
  /\ stop \in BOOLEAN
  /\ phase \in {"new", "ready", "timers", "dispatch", "poll", "idle", "done"}
  /\ cb \in {NoTask} \cup Timer \cup IOTask \cup Idle
  /\ phase \in {"new", "ready", "timers", "done"} => cb = NoTask
  /\ getting => phase = "timers"
  /\ fired_timers # <<>> => phase = "dispatch"
  /\ ReturnsOnlyWhenDone

LoopInv == TimersSound /\ IOSound /\ IdleSound /\ RunSound

-----------------------------------------------------------------------------
LEMMA LoopInvInit ==
  LoopInit => LoopInv
  <1> SUFFICES ASSUME LoopInit PROVE LoopInv
    OBVIOUS
  <1>1. MngInv /\ SizeCoversTimers
    BY MngInvInit, SizeInit DEF LoopInit, MngInit
  <1>2. fired_timers = <<>> /\ ~ getting
    BY DEF LoopInit, MngInit
  <1>3. TimersSound
    BY <1>1, <1>2 DEF TimersSound, WaitingTimer, LoopInit
  <1>4. IOSound
    BY DEF IOSound, RegisteredIsPolled, FindTask, LoopInit
  <1>5. IdleSound
    BY EventLoopAssumption DEF IdleSound, WaitingIdle, Listed, LoopInit
  <1>6. RunSound
    BY <1>2 DEF RunSound, ReturnsOnlyWhenDone, LoopInit
  <1> QED BY <1>3, <1>4, <1>5, <1>6 DEF LoopInv

(* The program's own code runs outside the loop's own work on the timers. *)
LEMMA UserCodeAt ==
  ASSUME RunSound, InUserCode
  PROVE  ~ getting /\ phase \notin {"new", "timers", "done"}
  BY DEF RunSound, InUserCode

(* The steps that leave the timers alone. *)
NotTimers ==
  \/ UserIOOp \/ UserFdOp \/ UserIdleOp
  \/ StopLoop \/ InitLoop \/ Run
  \/ WaitEvent \/ DispatchIO \/ CopyIdle \/ DispatchIdle \/ CheckExistTask
  \/ CallbackReturns \/ Terminated \/ UNCHANGED loopVars

LEMMA NotTimersStep ==
  ASSUME NotTimers
  PROVE  UNCHANGED <<vars, mng, task, get, recalled>>
  <1> USE DEF timervars, mngVars
  <1>1. CASE UserIOOp \/ UserFdOp \/ UserIdleOp
    BY <1>1 DEF UserIOOp, UserFdOp, UserIdleOp
  <1>2. CASE StopLoop \/ InitLoop \/ Run \/ CallbackReturns
    BY <1>2 DEF StopLoop, InitLoop, Run, CallbackReturns
  <1>3. CASE WaitEvent \/ DispatchIO \/ CopyIdle \/ DispatchIdle \/ CheckExistTask
    BY <1>3 DEF WaitEvent, DispatchIO, CopyIdle, DispatchIdle, CheckExistTask
  <1>4. CASE Terminated \/ UNCHANGED loopVars
    BY <1>4 DEF Terminated, loopVars
  <1> QED BY <1>1, <1>2, <1>3, <1>4 DEF NotTimers

LEMMA LoopCases ==
  ASSUME [LoopNext]_loopVars
  PROVE  \/ InUserCode /\ UserTimerOp
         \/ CollectTimers \/ DispatchTimer \/ TimePasses
         \/ NotTimers
  BY DEF LoopNext, LoopStep, UserCode, NotTimers

-----------------------------------------------------------------------------
(* The timers *)

(* A timer that is handed to its callback no longer waits, and the others  *)
(* still do, ...                                                           *)
Members(s) == UNION {s[k] : k \in DOMAIN s}

LEMMA TakeFromHead ==
  ASSUME NEW s \in Seq(SUBSET Timer), s # <<>>, NEW t
  PROVE  LET s1 == [s EXCEPT ![1] = @ \ {t}]
         IN  /\ s1 \in Seq(SUBSET Timer)
             /\ Members(s1) \subseteq Members(s)
             /\ Members(s) \ {t} \subseteq Members(s1)
             /\ Head(s) \subseteq Members(s)
  <1> DEFINE s1 == [s EXCEPT ![1] = @ \ {t}]
  <1>1. /\ Len(s) \in Nat \ {0} /\ DOMAIN s = 1 .. Len(s)
        /\ s \in [1 .. Len(s) -> SUBSET Timer] /\ Head(s) = s[1]
    OBVIOUS
  <1>2. /\ DOMAIN s1 = 1 .. Len(s) /\ s1[1] = s[1] \ {t}
        /\ \A k \in 1 .. Len(s) : k # 1 => s1[k] = s[k]
    BY <1>1
  <1>3. s1 \in Seq(SUBSET Timer)
    <2>1. s1 \in [1 .. Len(s) -> SUBSET Timer]
      BY <1>1, <1>2
    <2> QED BY <1>1, <2>1
  <1> HIDE DEF s1
  <1>4. \A k \in 1 .. Len(s) : s1[k] \subseteq s[k] /\ s[k] \ {t} \subseteq s1[k]
    BY <1>2
  <1>5. Members(s1) \subseteq Members(s) /\ Members(s) \ {t} \subseteq Members(s1)
    BY <1>1, <1>2, <1>4 DEF Members
  <1>6. Head(s) \subseteq Members(s)
    BY <1>1 DEF Members
  <1> QED BY <1>3, <1>5, <1>6 DEF s1

(* ... and a tick whose timers have all run is done with. *)
LEMMA DropHead ==
  ASSUME NEW s \in Seq(SUBSET Timer), s # <<>>, Head(s) = {}
  PROVE  Tail(s) \in Seq(SUBSET Timer) /\ Members(Tail(s)) = Members(s)
  <1> DEFINE s1 == Tail(s)
  <1>1. Len(s) \in Nat \ {0} /\ DOMAIN s = 1 .. Len(s) /\ s[1] = {}
    OBVIOUS
  <1>2. /\ s1 \in Seq(SUBSET Timer) /\ Len(s1) = Len(s) - 1
        /\ \A k \in 1 .. Len(s1) : s1[k] = s[k + 1]
    BY HeadTailProperties
  <1> HIDE DEF s1
  <1>3. DOMAIN s1 = 1 .. Len(s) - 1
    BY <1>2
  <1>4. ASSUME NEW k \in DOMAIN s1 PROVE \E j \in DOMAIN s : s1[k] = s[j]
    <2>1. k + 1 \in DOMAIN s
      BY <1>1, <1>3
    <2> QED BY <1>2, <1>3, <2>1
  <1>5. ASSUME NEW j \in DOMAIN s, s[j] # {} PROVE \E k \in DOMAIN s1 : s[j] = s1[k]
    <2>1. j \in 1 .. Len(s) /\ j # 1
      BY <1>1, <1>5
    <2>2. j - 1 \in DOMAIN s1 /\ (j - 1) + 1 = j
      BY <1>1, <1>3, <2>1
    <2> QED BY <1>2, <1>3, <2>2
  <1>6. Members(s1) = Members(s)
    BY <1>4, <1>5 DEF Members
  <1> QED BY <1>2, <1>6 DEF s1

(* A step of the manager on its own keeps what is known of the timers. *)
LEMMA MngStepKeeps ==
  ASSUME TimersSound, [MngNext]_mngVars
  PROVE  MngInv' /\ SizeCoversTimers'
  <1>1. MngInv'
    BY MngInvStep DEF TimersSound
  <1>2. [Next]_vars
    BY WheelTakesStep DEF TimersSound, MngInv
  <1> QED BY <1>1, <1>2, SizeStep DEF TimersSound, MngInv, MngTypeOK

LEMMA DispatchKeepsTimers ==
  ASSUME TimersSound, RunSound, DispatchTimer
  PROVE  TimersSound'
  <1> USE DEF TimersSound
  <1>1. fired_timers \in Seq(SUBSET Timer) /\ fired_timers # <<>> /\ ~ getting
    BY DEF MngInv, MngTypeOK, RunSound, DispatchTimer
  <1>2. UNCHANGED <<alive, getting>>
    BY DEF DispatchTimer
  <1>3. WaitingTimer = Members(fired_timers) /\ WaitingTimer' = Members(fired_timers')
    BY DEF WaitingTimer, Members
  <1>4. CASE Head(fired_timers) = {} /\ fired_timers' = Tail(fired_timers)
             /\ UNCHANGED <<vars, mng, impl_id, recalled, cb>>
    <2>1. fired_timers' \in Seq(SUBSET Timer) /\ WaitingTimer' = WaitingTimer
      BY <1>1, <1>3, <1>4, DropHead
    <2>2. MngInv'
      BY <1>2, <1>4, <2>1, QuietKeepsInv DEF task
    <2>3. SizeCoversTimers'
      BY <1>4, SizeStep DEF MngInv, MngTypeOK
    <2> QED BY <1>2, <1>4, <2>1, <2>2, <2>3
  <1>5. ASSUME NEW t \in Head(fired_timers),
               fired_timers' = [fired_timers EXCEPT ![1] = @ \ {t}],
               recalled' = recalled \ {t},
               IF t \in IsLoop THEN AddTimerTask(t) ELSE UNCHANGED <<vars, mng, impl_id>>
        PROVE  TimersSound'
    <2>1. /\ fired_timers' \in Seq(SUBSET Timer)
          /\ WaitingTimer' \subseteq WaitingTimer
          /\ WaitingTimer \ {t} \subseteq WaitingTimer'
          /\ t \in WaitingTimer
      BY <1>1, <1>3, <1>5, TakeFromHead
    <2>2. t \in alive /\ t \in Timer
      BY <2>1 DEF MngInv, MngTypeOK
    <2>3. MngInv' /\ [Next]_vars
      <3>1. CASE ModTimer(t)
        <4>1. MngInv'
          BY <1>1, <1>2, <2>1, <2>2, <3>1, ModTimerKeepsInv
        <4>2. Next
          BY <2>2, <3>1, NextIdIsUnused, ExpireTimeType DEF ModTimer, Next, MngInv
        <4> QED BY <4>1, <4>2
      <3>2. CASE UNCHANGED <<vars, mng, impl_id>>
        BY <1>2, <2>1, <3>2, QuietKeepsInv DEF task
      <3> QED BY <1>5, <3>1, <3>2 DEF AddTimerTask
    <2>4. SizeCoversTimers'
      BY <2>3, SizeStep DEF MngInv, MngTypeOK
    <2> QED BY <1>2, <1>5, <2>1, <2>3, <2>4
  <1> QED BY <1>4, <1>5 DEF DispatchTimer

LEMMA TimersStep ==
  LoopInv /\ [LoopNext]_loopVars => TimersSound'
  <1> SUFFICES ASSUME TimersSound, RunSound, [LoopNext]_loopVars PROVE TimersSound'
    BY DEF LoopInv
  <1>1. CASE InUserCode /\ UserTimerOp
    <2>1. PICK t \in Timer : /\ UserTimer(t)
                             /\ WaitingTimer \subseteq alive'
                             /\ \/ recalled' = recalled \cup ({t} \cap WaitingTimer)
                                \/ recalled' = recalled \ {t}
      BY <1>1 DEF UserTimerOp
    <2>2. UNCHANGED get /\ ~ getting
      BY <1>1, UserCodeAt DEF UserTimerOp
    <2>3. MngInv' /\ SizeCoversTimers'
      BY <2>1, <2>2, MngStepKeeps DEF MngNext
    <2>4. WaitingTimer' = WaitingTimer
      BY <2>2 DEF WaitingTimer, get
    <2> QED BY <2>1, <2>3, <2>4 DEF TimersSound
  <1>2. CASE CollectTimers
    <2>1. recalled' = {}
      <3>1. fired_timers = <<>>
        BY <1>2 DEF CollectTimers, RunSound
      <3> QED BY <1>2, <3>1 DEF CollectTimers, TimersSound, WaitingTimer
    <2>2. MngInv' /\ SizeCoversTimers'
      BY <1>2, MngStepKeeps DEF CollectTimers, MngNext
    <2>3. WaitingTimer' \subseteq alive'
      <3>1. CASE GetFiredTimers \/ WheelTurns
        BY <3>1 DEF GetFiredTimers, WheelTurns, task, get, WaitingTimer, TimersSound
      <3>2. CASE CollectFired
        <4>1. WaitingTimer' \subseteq {timer_map[id] : id \in DOMAIN timer_map}
          BY <3>2 DEF CollectFired, Collected, WaitingTimer
        <4>2. alive' = alive
          BY <3>2 DEF CollectFired, task
        <4> QED BY <4>1, <4>2 DEF TimersSound, MngInv, MapLeadsToLiveTimers
      <3> QED BY <1>2, <3>1, <3>2 DEF CollectTimers
    <2> QED BY <2>1, <2>2, <2>3 DEF TimersSound
  <1>3. CASE DispatchTimer
    BY <1>3, DispatchKeepsTimers
  <1>4. CASE TimePasses
    <2>1. WallClock /\ recalled' = recalled
      BY <1>4 DEF TimePasses
    <2>2. MngInv' /\ SizeCoversTimers'
      BY <2>1, MngStepKeeps DEF MngNext
    <2>3. UNCHANGED <<alive, WaitingTimer>>
      BY <2>1 DEF WallClock, task, get, WaitingTimer
    <2> QED BY <2>1, <2>2, <2>3 DEF TimersSound
  <1>5. CASE NotTimers
    <2>1. UNCHANGED <<vars, mng, task, get, recalled>>
      BY <1>5, NotTimersStep
    <2>2. MngInv' /\ SizeCoversTimers'
      BY <2>1, MngStepKeeps DEF mngVars
    <2>3. UNCHANGED <<alive, WaitingTimer>>
      BY <2>1 DEF task, get, WaitingTimer
    <2> QED BY <2>1, <2>2, <2>3 DEF TimersSound
  <1> QED BY <1>1, <1>2, <1>3, <1>4, <1>5, LoopCases

-----------------------------------------------------------------------------
(* The registry and its events *)

(* The steps that leave it alone. *)
LEMMA IOUnchanged ==
  ASSUME \/ UserTimerOp \/ UserIdleOp \/ StopLoop \/ Run \/ CollectTimers
         \/ DispatchTimer \/ DispatchIdle \/ CheckExistTask \/ CallbackReturns
         \/ TimePasses \/ Terminated \/ UNCHANGED loopVars
  PROVE  UNCHANGED <<iovars, poll>>
  BY DEF UserTimerOp, UserIdleOp, StopLoop, Run, CollectTimers, DispatchTimer,
         DispatchIdle, CheckExistTask, CallbackReturns, TimePasses, Terminated,
         loopVars

(* Run never goes back to its start. *)
LEMMA NeverNewAgain ==
  ASSUME [LoopNext]_loopVars, phase # "new"
  PROVE  phase' # "new"
  <1> USE DEF run
  <1>1. CASE InUserCode /\ UserTimerOp
    BY <1>1 DEF UserTimerOp
  <1>2. CASE CollectTimers \/ DispatchTimer \/ TimePasses
    BY <1>2 DEF CollectTimers, DispatchTimer, TimePasses
  <1>3. CASE UserIOOp \/ UserFdOp \/ UserIdleOp \/ StopLoop \/ InitLoop \/ Run
    BY <1>3 DEF UserIOOp, UserFdOp, UserIdleOp, StopLoop, InitLoop, Run
  <1>4. CASE WaitEvent \/ DispatchIO \/ CopyIdle \/ DispatchIdle \/ CheckExistTask
             \/ CallbackReturns \/ Terminated \/ UNCHANGED loopVars
    BY <1>4 DEF WaitEvent, DispatchIO, CopyIdle, DispatchIdle, CheckExistTask,
                CallbackReturns, Terminated, loopVars
  <1> QED BY <1>1, <1>2, <1>3, <1>4, LoopCases DEF NotTimers

(* What an IO task does to the registry keeps it in step with epoll.       *)
LEMMA UserIOKeeps ==
  ASSUME IOSound, phase # "new", phase' # "new", UserIOOp
  PROVE  IOSound'
  <1> USE DEF IOSound, RegisteredIsPolled, FindTask
  <1>1. PICK k \in IOTask :
          \/ IOConstruct(k)
          \/ FdOf[k] \notin fires /\ (IOStart(k) \/ IORestart(k))
          \/ IOStop(k) \/ IODestroy(k)
    BY DEF UserIOOp
  <1>2. FdOf[k] \in Fd /\ UNCHANGED poll
    BY IOTasksAssumption DEF UserIOOp
  <1>3. CASE IOConstruct(k)
    BY <1>2, <1>3 DEF IOConstruct, poll
  <1>4. CASE FdOf[k] \notin fires /\ IOStart(k)
    BY <1>2, <1>4 DEF IOStart, SetIOTask, poll
  <1>5. CASE FdOf[k] \notin fires /\ IORestart(k)
    BY <1>2, <1>5 DEF IORestart, ResetIOTask, poll
  <1>6. CASE IOStop(k) \/ IODestroy(k)
    <2>1. /\ DOMAIN file_tasks' = DOMAIN file_tasks \ {FdOf[k]}
          /\ interest' = interest \ {FdOf[k]}
          /\ \A fd \in DOMAIN file_tasks' : file_tasks'[fd] = file_tasks[fd]
      BY <1>6 DEF IOStop, IODestroy, DelIOTask
    <2>2. open' = open /\ io_alive' \subseteq io_alive /\ io_alive \ {k} \subseteq io_alive'
      BY <1>6 DEF IOStop, IODestroy
    <2>3. \A fd \in DOMAIN file_tasks' : file_tasks'[fd] # k
      BY <2>1
    <2> QED BY <1>2, <2>1, <2>2, <2>3 DEF poll
  <1> QED BY <1>1, <1>3, <1>4, <1>5, <1>6

LEMMA IOStep ==
  LoopInv /\ [LoopNext]_loopVars => IOSound'
  <1> SUFFICES ASSUME IOSound, RunSound, [LoopNext]_loopVars PROVE IOSound'
    BY DEF LoopInv
  <1> USE DEF IOSound, RegisteredIsPolled, FindTask
  <1>1. CASE \/ UserTimerOp \/ UserIdleOp \/ StopLoop \/ Run \/ CollectTimers
             \/ DispatchTimer \/ DispatchIdle \/ CheckExistTask \/ CallbackReturns
             \/ TimePasses \/ Terminated \/ UNCHANGED loopVars
    BY <1>1, IOUnchanged, NeverNewAgain DEF iovars, poll
  <1>2. CASE InUserCode /\ UserIOOp
    BY <1>2, UserIOKeeps, UserCodeAt, NeverNewAgain
  <1>3. CASE InUserCode /\ UserFdOp
    <2>1. PICK fd \in Fd : OpenFd(fd) \/ (CloseFd(fd) /\ \A k \in io_alive : FdOf[k] # fd)
      BY <1>3 DEF UserFdOp
    <2>2. UNCHANGED <<file_tasks, io_alive, fires, polled>>
      BY <1>3, <2>1 DEF UserFdOp, OpenFd, CloseFd, poll
    <2>3. interest' = interest /\ interest' \subseteq open' /\ open' \subseteq Fd
      <3>1. CASE OpenFd(fd)
        BY <3>1 DEF OpenFd
      <3>2. CASE CloseFd(fd) /\ \A k \in io_alive : FdOf[k] # fd
        <4>1. fd \notin interest
          BY <3>2
        <4> QED BY <3>2, <4>1 DEF CloseFd
      <3> QED BY <2>1, <3>1, <3>2
    <2>4. phase # "new" /\ phase' # "new"
      BY <1>3, UserCodeAt, NeverNewAgain
    <2> QED BY <2>2, <2>3, <2>4
  <1>4. CASE InitLoop
    BY <1>4 DEF InitLoop, poll
  <1>5. CASE WaitEvent
    BY <1>5 DEF WaitEvent, iovars
  <1>6. CASE DispatchIO
    BY <1>6, NeverNewAgain DEF DispatchIO, iovars
  <1>7. CASE CopyIdle
    BY <1>7 DEF CopyIdle, iovars
  <1> QED
    BY <1>1, <1>2, <1>3, <1>4, <1>5, <1>6, <1>7 DEF LoopNext, LoopStep, UserCode

-----------------------------------------------------------------------------
(* The idle tasks *)

LEMMA IdleUnchanged ==
  ASSUME \/ UserTimerOp \/ UserIOOp \/ UserFdOp \/ StopLoop \/ InitLoop \/ Run
         \/ CollectTimers \/ DispatchTimer \/ WaitEvent \/ DispatchIO
         \/ CheckExistTask \/ CallbackReturns \/ TimePasses \/ Terminated
         \/ UNCHANGED loopVars
  PROVE  UNCHANGED idlevars
  BY DEF UserTimerOp, UserIOOp, UserFdOp, StopLoop, InitLoop, Run, CollectTimers,
         DispatchTimer, WaitEvent, DispatchIO, CheckExistTask, CallbackReturns,
         TimePasses, Terminated, loopVars

LEMMA IdleStep ==
  LoopInv /\ [LoopNext]_loopVars => IdleSound'
  <1> SUFFICES ASSUME IdleSound, [LoopNext]_loopVars PROVE IdleSound'
    BY DEF LoopInv
  <1> USE EventLoopAssumption DEF IdleSound, WaitingIdle, Listed
  <1>1. CASE \/ UserTimerOp \/ UserIOOp \/ UserFdOp \/ StopLoop \/ InitLoop \/ Run
             \/ CollectTimers \/ DispatchTimer \/ WaitEvent \/ DispatchIO
             \/ CheckExistTask \/ CallbackReturns \/ TimePasses \/ Terminated
             \/ UNCHANGED loopVars
    BY <1>1, IdleUnchanged DEF idlevars
  <1>2. CASE UserIdleOp
    <2>1. PICK i \in Idle : IdleConstruct(i) \/ IdleStart(i) \/ IdleStop(i) \/ IdleDestroy(i)
      BY <1>2 DEF UserIdleOp
    <2>2. WaitingIdle \subseteq idle_alive' /\ vecs' = vecs
      BY <1>2 DEF UserIdleOp
    <2>3. CASE IdleConstruct(i)
      BY <2>2, <2>3 DEF IdleConstruct
    <2>4. CASE IdleStart(i)
      BY <2>2, <2>4 DEF IdleStart
    <2>5. CASE IdleStop(i)
      BY <2>2, <2>5 DEF IdleStop
    <2>6. CASE IdleDestroy(i)
      BY <2>2, <2>6 DEF IdleDestroy
    <2> QED BY <2>1, <2>3, <2>4, <2>5, <2>6
  <1>3. CASE CopyIdle
    BY <1>3 DEF CopyIdle
  <1>4. CASE DispatchIdle
    BY <1>4 DEF DispatchIdle
  <1> QED
    BY <1>1, <1>2, <1>3, <1>4 DEF LoopNext, LoopStep, UserCode

-----------------------------------------------------------------------------
(* Run *)

(* When Run counts no task there is none: base_.size is at least the       *)
(* number of nodes, and a registered timer has a node.                     *)
LEMMA NothingCounted ==
  ASSUME TimersSound, ~ getting, ~ (size > 0)
  PROVE  DOMAIN timer_map = {}
  <1>1. /\ MngTypeOK /\ TypeOK /\ RegisteredIsOnWheel
    BY DEF TimersSound, MngInv, MngTypeOK
  <1>2. IsFiniteSet(Nodes) /\ Cardinality(Nodes) \in Nat /\ size \in Int
    BY <1>1, FS_CardinalityType DEF TypeOK
  <1>3. Cardinality(Nodes) = 0
    BY <1>2 DEF TimersSound, SizeCoversTimers
  <1>4. Nodes = {}
    BY <1>2, <1>3, FS_EmptySet
  <1> QED BY <1>1, <1>4 DEF RegisteredIsOnWheel

LEMMA RunStep ==
  LoopInv /\ [LoopNext]_loopVars => RunSound'
  <1> SUFFICES ASSUME LoopInv, [LoopNext]_loopVars PROVE RunSound'
    OBVIOUS
  <1>1. RunSound /\ TimersSound /\ IOSound /\ IdleSound
    BY DEF LoopInv
  <1> USE DEF RunSound
  <1>2. CASE InUserCode /\ (UserTimerOp \/ UserIOOp \/ UserFdOp \/ UserIdleOp)
    <2>1. phase # "done" /\ ~ getting
      BY <1>1, <1>2, UserCodeAt
    <2>2. UNCHANGED <<stop, phase, cb, getting, fired_timers>>
      BY <1>2 DEF UserTimerOp, UserIOOp, UserFdOp, UserIdleOp, run, get
    <2> QED BY <1>1, <2>1, <2>2 DEF ReturnsOnlyWhenDone
  <1>3. CASE StopLoop \/ InitLoop
    <2>1. UNCHANGED <<getting, fired_timers, cb>> /\ stop' \in BOOLEAN
      BY <1>3 DEF StopLoop, InitLoop, get
    <2> QED BY <1>1, <1>3, <2>1 DEF StopLoop, InitLoop, ReturnsOnlyWhenDone
  <1>4. CASE Run
    BY <1>1, <1>4 DEF Run, get, ReturnsOnlyWhenDone
  <1>5. CASE CollectTimers
    <2>1. /\ phase = "timers" /\ UNCHANGED <<stop, cb>>
          /\ phase' = "timers" \/ (phase' = "dispatch" /\ getting' = FALSE)
          /\ phase' = "timers" => fired_timers' = fired_timers
      BY <1>5 DEF CollectTimers, GetFiredTimers, WheelTurns, CollectFired, get
    <2> QED BY <1>1, <2>1 DEF ReturnsOnlyWhenDone
  <1>6. CASE DispatchTimer
    <2>1. /\ phase = "dispatch" /\ UNCHANGED <<stop, phase, getting>>
      BY <1>6 DEF DispatchTimer
    <2>2. cb' \in {NoTask} \cup Timer \cup IOTask \cup Idle
      <3>1. fired_timers \in Seq(SUBSET Timer) /\ fired_timers # <<>>
        BY <1>1, <1>6 DEF TimersSound, MngInv, MngTypeOK, DispatchTimer
      <3>2. Head(fired_timers) \subseteq Timer
        BY <3>1
      <3> QED BY <1>1, <1>6, <3>2 DEF DispatchTimer
    <2> QED BY <1>1, <2>1, <2>2 DEF ReturnsOnlyWhenDone
  <1>7. CASE WaitEvent \/ CopyIdle
    BY <1>1, <1>7 DEF WaitEvent, CopyIdle, get, ReturnsOnlyWhenDone
  <1>8. CASE DispatchIO
    BY <1>1, <1>8 DEF DispatchIO, get, ReturnsOnlyWhenDone, IOSound, FindTask
  <1>9. CASE DispatchIdle
    BY <1>1, <1>9 DEF DispatchIdle, get, ReturnsOnlyWhenDone, WaitingIdle, Listed
  <1>10. CASE CheckExistTask
    <2>1. /\ phase = "idle" /\ cb = NoTask
          /\ UNCHANGED <<stop, cb, getting, fired_timers>>
      BY <1>10 DEF CheckExistTask, get
    <2>2. ~ getting
      BY <1>1, <2>1
    <2>3. CASE phase' = "timers"
      BY <1>1, <2>1, <2>2, <2>3 DEF ReturnsOnlyWhenDone
    <2>4. CASE phase' = "done" /\ (stop \/ ~ (Listed(idle_tasks) # {} \/ size > 0 \/ DOMAIN file_tasks # {}))
      <3>1. UNCHANGED <<timer_map, file_tasks, idle_tasks>>
        BY <1>10 DEF CheckExistTask, timervars, mng, iovars, idlevars
      <3>2. stop \/ NoTaskLeft
        BY <1>1, <2>2, <2>4, NothingCounted DEF NoTaskLeft
      <3>3. ReturnsOnlyWhenDone'
        BY <2>1, <3>1, <3>2 DEF ReturnsOnlyWhenDone, NoTaskLeft, Listed
      <3> QED BY <1>1, <2>1, <2>2, <2>4, <3>3
    <2> QED BY <1>10, <2>3, <2>4 DEF CheckExistTask
  <1>11. CASE CallbackReturns
    BY <1>1, <1>11 DEF CallbackReturns, get, ReturnsOnlyWhenDone
  <1>12. CASE TimePasses
    <2>1. /\ phase # "done" /\ UNCHANGED <<stop, phase, cb, getting, fired_timers>>
      BY <1>12 DEF TimePasses, WallClock, run, get
    <2> QED BY <1>1, <2>1 DEF ReturnsOnlyWhenDone
  <1>13. CASE Terminated \/ UNCHANGED loopVars
    <2>1. UNCHANGED <<stop, phase, cb, getting, fired_timers, timer_map, file_tasks, idle_tasks>>
      BY <1>13 DEF Terminated, loopVars, mngVars, mng, get, iovars, idlevars, run
    <2> QED BY <1>1, <2>1 DEF ReturnsOnlyWhenDone, NoTaskLeft, Listed
  <1> QED
    BY <1>2, <1>3, <1>4, <1>5, <1>6, <1>7, <1>8, <1>9, <1>10, <1>11, <1>12, <1>13
       DEF LoopNext, LoopStep, UserCode

-----------------------------------------------------------------------------
(* The theorems *)

LEMMA LoopInvStep ==
  LoopInv /\ [LoopNext]_loopVars => LoopInv'
  BY TimersStep, IOStep, IdleStep, RunStep DEF LoopInv

LEMMA LoopInvariant ==
  LoopSpec => []LoopInv
  BY LoopInvInit, LoopInvStep, PTL DEF LoopSpec

(* The state of nf_event.cpp keeps its type. *)
THEOREM LoopTypeCorrect ==
  LoopSpec => []LoopTypeOK
  <1>1. LoopInv => LoopTypeOK
    BY DEF LoopInv, TimersSound, IOSound, IdleSound, RunSound, MngInv, LoopTypeOK
  <1> QED BY <1>1, LoopInvariant, PTL

(* No pointer the loop holds, in its tables or in the batch it is in the   *)
(* middle of, leads to a deleted task, for any number of tasks and         *)
(* whatever callbacks do within the rules.                                 *)
THEOREM PointersLead ==
  LoopSpec => []NoDanglingPointer
  <1>1. LoopInv => NoDanglingPointer
    BY DEF LoopInv, TimersSound, IOSound, IdleSound, MngInv, MapLeadsToLiveTimers,
           NoDanglingPointer
  <1> QED BY <1>1, LoopInvariant, PTL

(* file_tasks_ and the kernel's epoll set never get out of step. *)
THEOREM RegistryIsPolled ==
  LoopSpec => []RegisteredIsPolled
  <1>1. LoopInv => RegisteredIsPolled
    BY DEF LoopInv, IOSound
  <1> QED BY <1>1, LoopInvariant, PTL

(* Run does not return while a timer, an IO task or an idle task is left,  *)
(* unless it was told to.                                                  *)
THEOREM ReturnsWhenDone ==
  LoopSpec => []ReturnsOnlyWhenDone
  <1>1. LoopInv => ReturnsOnlyWhenDone
    BY DEF LoopInv, RunSound
  <1> QED BY <1>1, LoopInvariant, PTL

(* An event runs the task it was reported for or none: a number that is    *)
(* reused within the batch deceives nobody.                                *)
THEOREM EventsReachTheirTasks ==
  LoopSpec => EventReachesItsTask
  <1> DEFINE Reaches ==
        \A k \in IOTask :
          cb = NoTask /\ cb' = k =>
            /\ FdOf[k] \in DOMAIN polled /\ polled[FdOf[k]] = k
            /\ FindTask(FdOf[k]) /\ file_tasks[FdOf[k]] = k
  <1>1. LoopInv /\ [LoopNext]_loopVars => [Reaches]_loopVars
    <2> SUFFICES ASSUME LoopInv, LoopNext, NEW k \in IOTask, cb = NoTask, cb' = k
                 PROVE  /\ FdOf[k] \in DOMAIN polled /\ polled[FdOf[k]] = k
                        /\ FindTask(FdOf[k]) /\ file_tasks[FdOf[k]] = k
      OBVIOUS
    <2>1. k \notin Timer /\ k \notin Idle /\ k # NoTask
      BY EventLoopAssumption
    <2>2. CASE UserTimerOp \/ UserIOOp \/ UserFdOp \/ UserIdleOp \/ StopLoop \/ InitLoop
               \/ Run \/ CollectTimers \/ WaitEvent \/ CopyIdle \/ CheckExistTask
               \/ CallbackReturns \/ TimePasses \/ Terminated
      BY <2>1, <2>2
         DEF UserTimerOp, UserIOOp, UserFdOp, UserIdleOp, StopLoop, InitLoop, Run,
             CollectTimers, WaitEvent, CopyIdle, CheckExistTask, CallbackReturns,
             TimePasses, Terminated, loopVars, run
    <2>3. CASE DispatchTimer
      <3>1. fired_timers \in Seq(SUBSET Timer) /\ fired_timers # <<>>
        BY <2>3 DEF LoopInv, TimersSound, MngInv, MngTypeOK, DispatchTimer
      <3>2. Head(fired_timers) \subseteq Timer
        BY <3>1
      <3> QED BY <2>1, <2>3, <3>2 DEF DispatchTimer
    <2>4. CASE DispatchIdle
      BY <2>1, <2>4 DEF DispatchIdle, WaitingIdle, Listed
    <2>5. CASE DispatchIO
      <3>1. PICK fd \in fires : cb' = IF FindTask(fd) THEN file_tasks[fd] ELSE NoTask
        BY <2>5 DEF DispatchIO
      <3>2. FindTask(fd) /\ file_tasks[fd] = k
        BY <2>1, <3>1
      <3>3. FdOf[k] = fd /\ fd \in DOMAIN polled /\ polled[fd] = k
        BY <3>2 DEF LoopInv, IOSound, FindTask
      <3> QED BY <3>2, <3>3
    <2> QED BY <2>2, <2>3, <2>4, <2>5 DEF LoopNext, LoopStep, UserCode
  <1> QED BY <1>1, LoopInvariant, PTL DEF LoopSpec, EventReachesItsTask

(* The loop uses the wheel as its owner should, so what is proved of the   *)
(* wheel on its own holds inside the loop.                                 *)
THEOREM WheelInsideLoop ==
  LoopSpec => [](PlacementInv /\ SizeCoversTimers) /\ ImplementsTimerQueue
  <1>1. LoopInit => Init
    BY DEF LoopInit, MngInit
  <1>2. LoopInv /\ [LoopNext]_loopVars => [Next]_vars
    <2> SUFFICES ASSUME LoopInv, [LoopNext]_loopVars PROVE [Next]_vars
      OBVIOUS
    <2>1. TimersSound /\ RunSound /\ MngTypeOK /\ IdsAreFresh
      BY DEF LoopInv, TimersSound, MngInv
    <2>2. CASE InUserCode /\ UserTimerOp
      <3>1. [MngNext]_mngVars
        BY <2>1, <2>2, UserCodeAt DEF UserTimerOp, MngNext
      <3> QED BY <2>1, <3>1, WheelTakesStep
    <2>3. CASE CollectTimers \/ TimePasses
      <3>1. [MngNext]_mngVars
        BY <2>3 DEF CollectTimers, TimePasses, MngNext
      <3> QED BY <2>1, <3>1, WheelTakesStep
    <2>4. CASE DispatchTimer
      <3>1. fired_timers \in Seq(SUBSET Timer) /\ fired_timers # <<>>
        BY <2>1, <2>4 DEF MngTypeOK, DispatchTimer
      <3>2. Head(fired_timers) \subseteq Timer
        BY <3>1
      <3>3. UNCHANGED vars \/ \E t \in Timer : ModTimer(t)
        BY <2>4, <3>2 DEF DispatchTimer, AddTimerTask
      <3> QED BY <2>1, <3>3, NextIdIsUnused, ExpireTimeType DEF ModTimer, Next
    <2>5. CASE NotTimers
      BY <2>5, NotTimersStep
    <2> QED BY <2>2, <2>3, <2>4, <2>5, LoopCases
  <1>3. LoopSpec => Spec
    BY <1>1, <1>2, LoopInvariant, PTL DEF LoopSpec, Spec
  <1> QED BY <1>3, Placement, SizeCovers, Implementation, PTL

-----------------------------------------------------------------------------
(* The loop as the owners of timers see it: the service of the manager,    *)
(* and a callback for each timer collected.                                *)

RoundsInv == LoopInv /\ HandedOutOnce /\ OneIdEach

LEMMA RoundsInvIs ==
  RoundsInv => ServiceInv /\ TimersSound /\ RunSound
  BY DEF RoundsInv, LoopInv, TimersSound, ServiceInv

(* The steps that are the manager's own. *)
LEMMA ManagerSteps ==
  ASSUME RunSound, [LoopNext]_loopVars, ~ DispatchTimer
  PROVE  [MngNext]_mngVars
  <1>1. CASE InUserCode /\ UserTimerOp
    BY <1>1, UserCodeAt DEF UserTimerOp, MngNext
  <1>2. CASE CollectTimers \/ TimePasses
    BY <1>2 DEF CollectTimers, TimePasses, MngNext
  <1>3. CASE NotTimers
    BY <1>3, NotTimersStep DEF mngVars
  <1> QED BY <1>1, <1>2, <1>3, LoopCases

LEMMA RoundsInvStep ==
  RoundsInv /\ [LoopNext]_loopVars => RoundsInv'
  <1> SUFFICES ASSUME RoundsInv, [LoopNext]_loopVars PROVE RoundsInv'
    OBVIOUS
  <1>1. LoopInv'
    BY LoopInvStep DEF RoundsInv
  <1>2. CASE ~ DispatchTimer
    BY <1>1, <1>2, RoundsInvIs, ManagerSteps, ServiceInvStep DEF RoundsInv, ServiceInv
  <1>3. CASE DispatchTimer
    <2>1. ~ getting'
      BY <1>3, RoundsInvIs DEF RunSound, DispatchTimer
    <2>2. \/ impl_id' = impl_id
          \/ \E t \in Timer : impl_id' = [impl_id EXCEPT ![t] = dist_id]
      <3>1. fired_timers \in Seq(SUBSET Timer) /\ fired_timers # <<>>
        BY <1>3, RoundsInvIs DEF ServiceInv, MngInv, MngTypeOK, DispatchTimer
      <3>2. Head(fired_timers) \subseteq Timer
        BY <3>1
      <3> QED BY <1>3, <3>2 DEF DispatchTimer, AddTimerTask, ModTimer
    <2>3. OneIdEach'
      BY <2>2, RoundsInvIs, OneIdEachStep DEF ServiceInv
    <2> QED BY <1>1, <2>1, <2>3 DEF RoundsInv, HandedOutOnce
  <1> QED BY <1>2, <1>3

(* A timer in the map is armed when its callback is due, so that it is not *)
(* put on the wheel again; any other is not.                               *)
LEMMA RegisteredIsArmed ==
  ASSUME ServiceInv, ~ getting, NEW t \in Timer
  PROVE  FindTimer(impl_id[t]) <=> t \in DOMAIN Armed
  <1> USE DEF ServiceInv
  <1>1. DOMAIN Armed = TimersOf(OnWheel, timer_map)
    BY ArmedNow
  <1>2. ASSUME FindTimer(impl_id[t]) PROVE t \in TimersOf(OnWheel, timer_map)
    <2>1. impl_id[t] \in DOMAIN timer_map /\ timer_map[impl_id[t]] = t
      BY <1>2, IdOfTimer DEF FindTimer
    <2>2. PICK x \in Nodes : x.timer_data = impl_id[t]
      BY <2>1 DEF MngInv, RegisteredIsOnWheel
    <2> QED BY <2>1, <2>2 DEF TimersOf, OnWheel, FindTimer
  <1>3. ASSUME t \in TimersOf(OnWheel, timer_map) PROVE FindTimer(impl_id[t])
    <2>1. PICK x \in OnWheel : t = timer_map[x.timer_data]
      BY <1>3 DEF TimersOf
    <2>2. x.timer_data \in DOMAIN timer_map
      BY DEF OnWheel, FindTimer
    <2> QED BY <2>1, <2>2, IdOfTimer DEF FindTimer
  <1> QED BY <1>1, <1>2, <1>3

LEMMA DispatchCalls ==
  ASSUME RoundsInv, RoundsInv', DispatchTimer
  PROVE  Rounds!RoundsNext
  <1>1. /\ ServiceInv /\ MngInv' /\ TimersSound /\ RunSound
        /\ phase = "dispatch" /\ cb = NoTask /\ ~ getting /\ ~ getting'
    BY RoundsInvIs DEF RoundsInv, LoopInv, TimersSound, RunSound, DispatchTimer
  <1>2. /\ fired_timers \in Seq(SUBSET Timer) /\ fired_timers # <<>>
        /\ Head(fired_timers) \subseteq Timer
    BY <1>1 DEF ServiceInv, MngInv, MngTypeOK, DispatchTimer
  <1>3. Fired = fired_timers /\ Fired' = fired_timers'
    BY <1>1 DEF Fired
  <1>4. pc = "idle" /\ NoTask \notin Timer
    BY <1>1, EventLoopAssumption DEF ServiceInv, MngInv, MngTypeOK, TurnsInsideCall
  <1>5. CASE Head(fired_timers) = {} /\ fired_timers' = Tail(fired_timers)
             /\ UNCHANGED <<vars, mng, impl_id, recalled, cb>>
    <2>1. UNCHANGED <<vec, timer_map, clk, pc, jiffers>>
      BY <1>5 DEF vars, base, call, mng
    <2>2. OnWheel' = OnWheel
      BY <2>1 DEF OnWheel, Nodes, FindTimer
    <2>3. Armed' = Armed
      BY <1>1, <2>1, <2>2, ArmedStays DEF ServiceInv
    <2> QED
      BY <1>2, <1>3, <1>4, <1>1, <1>5, <2>1, <2>3 DEF Rounds!RoundsNext, Rounds!TickIsDone
  <1>6. ASSUME NEW t \in Head(fired_timers),
               cb' = t, fired_timers' = [fired_timers EXCEPT ![1] = @ \ {t}],
               IF t \in IsLoop THEN AddTimerTask(t) ELSE UNCHANGED <<vars, mng, impl_id>>
        PROVE  Rounds!RoundsNext
    <2>1. t \in Timer /\ now \in 0 .. MaxTime
      BY <1>1, <1>2 DEF ServiceInv, MngInv, MngTypeOK, TypeOK
    <2>2. FindTimer(impl_id[t]) <=> t \in DOMAIN Armed
      BY <1>1, <2>1, RegisteredIsArmed
    <2>3. UNCHANGED <<clk, pc, jiffers>> /\ Rounds!ArmAgain(t)
      <3>1. CASE ModTimer(t) /\ t \in IsLoop /\ ~ FindTimer(impl_id[t])
        <4> DEFINE e == GetJiffersFromTime(now + Interval[t])
                   ticks == {GetJiffersFromTime(b + Interval[u]) : b \in 0 .. MaxTime, u \in Timer}
        <4>1. e \in ticks
          BY <2>1
        <4>2. Rounds!DueTick(e) = Service!DueTick(e)
          BY DEF Rounds!DueTick, Service!DueTick
        <4>3. /\ UNCHANGED <<clk, pc, jiffers>>
              /\ Armed' = [u \in DOMAIN Armed \cup {t} |->
                             IF u = t THEN Service!DueTick(e) ELSE Armed[u]]
          BY <1>1, <2>1, <3>1, ModTimerArmed
        <4>4. t \in IsLoop \ DOMAIN Armed
          BY <2>2, <3>1
        <4> HIDE DEF e
        <4>5. Armed' = [u \in DOMAIN Armed \cup {t} |->
                         IF u = t THEN Rounds!DueTick(e) ELSE Armed[u]]
          BY <4>2, <4>3
        <4>6. \E d \in ticks :
                Armed' = [u \in DOMAIN Armed \cup {t} |->
                            IF u = t THEN Rounds!DueTick(d) ELSE Armed[u]]
          BY <4>1, <4>5
        <4>7. Rounds!ArmAgain(t)
          BY <4>4, <4>6 DEF Rounds!ArmAgain
        <4> QED BY <4>3, <4>7
      <3>2. CASE UNCHANGED <<vars, mng, impl_id>> /\ (t \notin IsLoop \/ FindTimer(impl_id[t]))
        <4>1. UNCHANGED <<vec, timer_map, clk, pc, jiffers>>
          BY <3>2 DEF vars, base, call, mng
        <4>2. OnWheel' = OnWheel
          BY <4>1 DEF OnWheel, Nodes, FindTimer
        <4>3. Armed' = Armed
          BY <1>1, <4>1, <4>2, ArmedStays DEF ServiceInv
        <4> QED BY <2>2, <3>2, <4>1, <4>3 DEF Rounds!ArmAgain
      <3> QED BY <1>6, <3>1, <3>2 DEF AddTimerTask
    <2>4. Rounds!Call(t)
      BY <1>1, <1>2, <1>3, <1>4, <1>6, <2>1, <2>3 DEF Rounds!Call
    <2> QED BY <2>1, <2>4 DEF Rounds!RoundsNext
  <1> QED BY <1>5, <1>6 DEF DispatchTimer

LEMMA RoundsStep ==
  RoundsInv /\ RoundsInv' /\ [LoopNext]_loopVars => [Rounds!RoundsNext]_(Rounds!roundVars)
  <1> SUFFICES ASSUME RoundsInv, RoundsInv', [LoopNext]_loopVars
               PROVE  Rounds!RoundsNext \/ UNCHANGED Rounds!roundVars
    OBVIOUS
  <1> DEFINE called == IF cb \in Timer THEN cb ELSE NoTask
  <1>1. ServiceInv /\ RunSound /\ MngInv' /\ NoTask \notin Timer
    BY RoundsInvIs, EventLoopAssumption DEF RoundsInv, LoopInv, TimersSound
  <1>2. ASSUME UNCHANGED Service!vars, UNCHANGED called
        PROVE  UNCHANGED Rounds!roundVars
    BY <1>2 DEF Service!vars, Rounds!vars, Rounds!roundVars
  <1>3. ASSUME Service!Next, UNCHANGED called,
               pc = "idle" /\ pc' # "idle" => Fired = <<>> /\ called = NoTask
        PROVE  Rounds!RoundsNext
    <2> DEFINE ticks == {GetJiffersFromTime(b + Interval[u]) : b \in 0 .. MaxTime, u \in Timer}
    <2> HIDE DEF called
    <2>1. ASSUME NEW t, NEW e, Service!Arm(t, e) PROVE Rounds!Arm(t, e)
      BY <2>1 DEF Service!Arm, Rounds!Arm, Service!DueTick, Rounds!DueTick
    <2>2. ASSUME NEW t, Service!Disarm(t) PROVE Rounds!Disarm(t)
      BY <2>2 DEF Service!Disarm, Rounds!Disarm
    <2>3. CASE Service!GetTimer
      <3>1. Rounds!GetTimer /\ Fired = <<>> /\ called = NoTask
        BY <1>1, <1>3, <2>3 DEF Service!GetTimer, Rounds!GetTimer, MngInv, MngTypeOK, TypeOK
      <3> QED BY <1>3, <3>1 DEF Rounds!RoundsNext, Rounds!Serve, called
    <2>4. CASE Service!Tick
      <3>1. Rounds!Tick
        BY <2>4 DEF Service!Tick, Rounds!Tick
      <3> QED BY <1>3, <3>1 DEF Rounds!RoundsNext, Rounds!Serve, called
    <2>5. CASE Service!Return
      <3>1. Rounds!Return
        BY <2>5 DEF Service!Return, Rounds!Return
      <3> QED BY <1>3, <3>1 DEF Rounds!RoundsNext, Rounds!Serve, called
    <2>6. ASSUME NEW t \in Timer, NEW e \in ticks, Service!Arm(t, e)
          PROVE  Rounds!RoundsNext
      BY <1>3, <2>1, <2>6 DEF Rounds!RoundsNext, Rounds!Serve, called
    <2>7. ASSUME NEW t \in Timer, Service!Disarm(t) PROVE Rounds!RoundsNext
      BY <1>3, <2>2, <2>7 DEF Rounds!RoundsNext, Rounds!Serve, called
    <2> QED BY <1>3, <2>3, <2>4, <2>5, <2>6, <2>7 DEF Service!Next
  <1>4. CASE InUserCode /\ UserTimerOp
    <2>1. UNCHANGED cb /\ UNCHANGED get /\ ~ getting
      BY <1>1, <1>4, UserCodeAt DEF UserTimerOp, run
    <2>2. pc' = "idle"
      BY <1>1, <2>1 DEF MngInv, MngTypeOK, TurnsInsideCall, get
    <2>3. [MngNext]_mngVars
      BY <1>4, <2>1 DEF UserTimerOp, MngNext
    <2>4. Service!Next \/ UNCHANGED Service!vars
      BY <1>1, <2>3, ServiceStep
    <2> QED BY <1>2, <1>3, <2>1, <2>2, <2>4
  <1>5. CASE CollectTimers
    <2>1. UNCHANGED cb /\ cb = NoTask /\ fired_timers = <<>>
      BY <1>1, <1>5 DEF CollectTimers, RunSound
    <2>2. pc = "idle" /\ pc' # "idle" => Fired = <<>>
      <3>1. CASE GetFiredTimers
        BY <2>1, <3>1 DEF GetFiredTimers, Fired
      <3>2. CASE WheelTurns
        BY <3>2 DEF WheelTurns, WheelStep, TimerRun, Cascade, Splice, TimerRunReturn
      <3>3. CASE CollectFired
        BY <3>3 DEF CollectFired, vars, call
      <3> QED BY <1>5, <3>1, <3>2, <3>3 DEF CollectTimers
    <2>3. Service!Next \/ UNCHANGED Service!vars
      BY <1>1, <1>5, ServiceStep DEF CollectTimers, MngNext
    <2> QED BY <1>1, <1>2, <1>3, <2>1, <2>2, <2>3
  <1>6. CASE DispatchTimer
    BY <1>6, DispatchCalls
  <1>7. CASE TimePasses
    <2>1. UNCHANGED cb /\ WallClock
      BY <1>7 DEF TimePasses, run
    <2> QED BY <1>1, <1>2, <2>1, ClockIsQuiet
  <1>8. CASE NotTimers
    <2>1. UNCHANGED Service!vars
      BY <1>1, <1>8, NotTimersStep, ClockIsQuiet DEF mngVars
    <2>2. CASE UNCHANGED cb
      BY <1>2, <2>1, <2>2
    <2>3. CASE cb = NoTask /\ cb' \notin Timer
      BY <1>1, <1>2, <2>1, <2>3
    <2>4. CASE CallbackReturns
      BY <1>1, <1>2, <2>1, <2>4
         DEF CallbackReturns, Rounds!RoundsNext, Rounds!CallReturns, Service!vars, Rounds!vars
    <2>5. CASE DispatchIO
      <3>1. cb = NoTask /\ (cb' = NoTask \/ cb' \in IOTask)
        BY <2>5 DEF DispatchIO, FindTask, RoundsInv, LoopInv, IOSound
      <3> QED BY <2>3, <3>1, EventLoopAssumption
    <2>6. CASE DispatchIdle
      <3>1. cb = NoTask /\ cb' \in Idle
        BY <2>6 DEF DispatchIdle, WaitingIdle, Listed
      <3> QED BY <2>3, <3>1, EventLoopAssumption
    <2>7. CASE ~ (CallbackReturns \/ DispatchIO \/ DispatchIdle)
      <3>1. UNCHANGED cb
        BY <1>8, <2>7
           DEF NotTimers, UserIOOp, UserFdOp, UserIdleOp, StopLoop, InitLoop, Run,
               WaitEvent, CopyIdle, CheckExistTask, Terminated, loopVars, run
      <3> QED BY <2>2, <3>1
    <2> QED BY <2>4, <2>5, <2>6, <2>7
  <1> QED BY <1>4, <1>5, <1>6, <1>7, <1>8, LoopCases

(* For any timers and whatever callbacks do, the loop is TimerRounds: each *)
(* timer that comes due is called back once, tick by tick, before the next *)
(* round, and a loop timer that is not armed by then is armed again.       *)
THEOREM LoopIsRounds ==
  LoopSpec => ImplementsTimerRounds
  <1>1. LoopInit => RoundsInv /\ Rounds!RoundsInit
    <2> SUFFICES ASSUME LoopInit PROVE RoundsInv /\ Rounds!RoundsInit
      OBVIOUS
    <2>1. LoopInv /\ ServiceInv /\ Service!Init
      BY LoopInvInit, ServiceInit DEF LoopInit
    <2>2. cb = NoTask
      BY DEF LoopInit
    <2> QED BY <2>1, <2>2 DEF RoundsInv, ServiceInv, Service!Init, Rounds!Init, Rounds!RoundsInit
  <1> QED
    BY <1>1, RoundsInvStep, RoundsStep, PTL
       DEF LoopSpec, ImplementsTimerRounds, Rounds!RoundsSpec

=============================================================================
