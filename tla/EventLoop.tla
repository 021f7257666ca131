----------------------------- MODULE EventLoop ------------------------------
(***************************************************************************)
(* EventLoop of src/src/nf_event.cpp over the timer manager and the IO     *)
(* task registry.  A round of Run collects and runs the fired timers,      *)
(* polls for IO events and runs their tasks, runs the idle tasks, and then *)
(* decides whether there is anything left to run for.                      *)
(*                                                                         *)
(* A callback is the program's own code: while it runs it may start, stop, *)
(* make and delete tasks, in any order and number.  Between two callbacks  *)
(* the loop goes on with raw pointers and descriptors it collected before. *)
(* Stop may also come from a signal handler, between any two steps.        *)
(***************************************************************************)
EXTENDS TimerMng, IOTasks

CONSTANTS
  IsLoop,      (* the timers made with is_loop                             *)
  Idle,        (* the IdleTask objects                                     *)
  MaxIdle,     (* bound: this many times each is in idle_tasks_            *)
  Signals      (* can Stop be called, by a callback or a signal handler    *)

NoTask == "none"

(* Objects of different kinds are different. *)
ASSUME EventLoopAssumption ==
  /\ IsLoop \subseteq Timer
  /\ MaxIdle \in Nat
  /\ Signals \in BOOLEAN
  /\ IOTask \cap (Timer \cup Idle \cup {NoTask}) = {}
  /\ Timer \cap (Idle \cup {NoTask}) = {}

VARIABLES
  stop,          (* stop_                                                  *)
  phase,         (* where Run stands; "new", "ready" before, "done" after  *)
  cb,            (* the task whose callback is running, or NoTask          *)
  recalled,      (* history: the waiting timers stopped before their turn  *)
  fires,         (* fires_: the descriptors epoll reported                 *)
  polled,        (* history: file_tasks_ when epoll reported them          *)
  idle_tasks,    (* idle_tasks_: how many times each is in it              *)
  idle_alive,    (* the IdleTask objects that exist                        *)
  vecs           (* the copy of idle_tasks_ HandleAllIdleTask goes through *)

idlevars == <<idle_tasks, idle_alive, vecs>>
run      == <<stop, phase, cb>>
poll     == <<fires, polled>>
loopVars == <<mngVars, recalled, iovars, run, poll, idlevars>>

timervars == <<vars, mng, task, recalled>>

-----------------------------------------------------------------------------
(* The program's own code: main before Run, and every callback *)

InUserCode == cb # NoTask \/ phase = "ready"

(* The timers, descriptors and idle tasks the round in progress has still  *)
(* to call, by pointers and numbers it took before.                        *)
WaitingTimer == UNION {fired_timers[k] : k \in DOMAIN fired_timers}
Listed(list) == {i \in Idle : list[i] > 0}
WaitingIdle == Listed(vecs)

(* The program does not delete a timer that waits: the loop holds a plain  *)
(* pointer to it.  Any other operation on it is allowed.                   *)
UserTimerOp ==
  \E t \in Timer :
    /\ UserTimer(t)
    /\ WaitingTimer \subseteq alive'
    /\ recalled' = IF Stop(t) THEN recalled \cup ({t} \cap WaitingTimer)
                   ELSE recalled \ {t}
    /\ UNCHANGED <<get, iovars, run, poll, idlevars>>

(* It has at most one task made for a descriptor, makes it while the       *)
(* descriptor is open and deletes it before it closes it, and starts no    *)
(* task on a number that still has an event waiting: the loop could not    *)
(* tell the old event from a new one.                                      *)
UserIOOp ==
  /\ \E k \in IOTask :
       \/ /\ FdOf[k] \in open
          /\ \A j \in io_alive : FdOf[j] # FdOf[k]
          /\ IOConstruct(k)
       \/ FdOf[k] \notin fires /\ (IOStart(k) \/ IORestart(k))
       \/ IOStop(k) \/ IODestroy(k)
  /\ UNCHANGED <<timervars, get, run, poll, idlevars>>

UserFdOp ==
  /\ \E fd \in Fd :
       \/ OpenFd(fd)
       \/ CloseFd(fd) /\ \A k \in io_alive : FdOf[k] # fd
  /\ UNCHANGED <<timervars, get, run, poll, idlevars>>

IdleConstruct(i) ==
  /\ i \notin idle_alive
  /\ idle_alive' = idle_alive \cup {i}
  /\ UNCHANGED idle_tasks

(* Nothing keeps an idle task from being added twice. *)
IdleStart(i) ==
  /\ i \in idle_alive
  /\ idle_tasks[i] < MaxIdle
  /\ idle_tasks' = [idle_tasks EXCEPT ![i] = @ + 1]
  /\ UNCHANGED idle_alive

IdleStop(i) ==
  /\ i \in idle_alive
  /\ idle_tasks' = [idle_tasks EXCEPT ![i] = 0]
  /\ UNCHANGED idle_alive

(* Fault: the destructor frees the task and leaves it in the list. *)
IdleDestroyKeepsEntry(i) ==
  /\ i \in idle_alive
  /\ idle_alive' = idle_alive \ {i}
  /\ UNCHANGED idle_tasks

IdleDestroy(i) ==
  /\ i \in idle_alive
  /\ idle_tasks' = [idle_tasks EXCEPT ![i] = 0]
  /\ idle_alive' = idle_alive \ {i}

UserIdleOp ==
  /\ \E i \in Idle : IdleConstruct(i) \/ IdleStart(i) \/ IdleStop(i) \/ IdleDestroy(i)
  /\ WaitingIdle \subseteq idle_alive'
  /\ UNCHANGED <<timervars, get, iovars, run, poll, vecs>>

UserCode ==
  /\ InUserCode
  /\ UserTimerOp \/ UserIOOp \/ UserFdOp \/ UserIdleOp

(* EventLoop::Stop *)
StopLoop ==
  /\ Signals
  /\ phase \notin {"new", "done"}
  /\ ~ stop
  /\ stop' = TRUE
  /\ UNCHANGED <<timervars, get, iovars, phase, cb, poll, idlevars>>

-----------------------------------------------------------------------------
(* Init and Run *)

(* The constructor leaves stop_ set and has made one epoll set already;    *)
(* Init makes another, empty one in its place.                             *)
InitLoop ==
  /\ phase = "new"
  /\ stop' = FALSE
  /\ interest' = {}
  /\ phase' = "ready"
  /\ UNCHANGED <<timervars, get, file_tasks, io_alive, open, cb, poll, idlevars>>

Run ==
  /\ phase = "ready"
  /\ phase' = IF stop THEN "done" ELSE "timers"
  /\ UNCHANGED <<timervars, get, iovars, stop, cb, poll, idlevars>>

(* HandleAllTimerTask, first part: collect the fired timers. *)
CollectTimers ==
  /\ phase = "timers"
  /\ \/ GetFiredTimers /\ phase' = phase
     \/ getting /\ WheelTurns /\ phase' = phase
     \/ CollectFired /\ phase' = "dispatch"
  /\ UNCHANGED <<recalled, iovars, stop, cb, poll, idlevars>>

(* Fault: what was collected is gone through from the back. *)
DispatchTimerFromBack ==
  /\ phase = "dispatch"
  /\ cb = NoTask
  /\ fired_timers # <<>>
  /\ \/ \E t \in fired_timers[Len(fired_timers)] :
          /\ cb' = t
          /\ fired_timers' = [fired_timers EXCEPT ![Len(fired_timers)] = @ \ {t}]
          /\ recalled' = recalled \ {t}
          /\ IF t \in IsLoop THEN AddTimerTask(t) ELSE UNCHANGED <<vars, mng, impl_id>>
     \/ /\ fired_timers[Len(fired_timers)] = {}
        /\ fired_timers' = SubSeq(fired_timers, 1, Len(fired_timers) - 1)
        /\ UNCHANGED <<vars, mng, impl_id, recalled, cb>>
  /\ UNCHANGED <<alive, getting, iovars, stop, phase, poll, idlevars>>

(* HandleAllTimerTask, second part: a loop timer is put back on the wheel  *)
(* from now on, then the callback runs.                                    *)
DispatchTimer ==
  /\ phase = "dispatch"
  /\ cb = NoTask
  /\ fired_timers # <<>>
  /\ \/ \E t \in Head(fired_timers) :
          /\ cb' = t
          /\ fired_timers' = [fired_timers EXCEPT ![1] = @ \ {t}]
          /\ recalled' = recalled \ {t}
          /\ IF t \in IsLoop THEN AddTimerTask(t) ELSE UNCHANGED <<vars, mng, impl_id>>
     \/ /\ Head(fired_timers) = {}
        /\ fired_timers' = Tail(fired_timers)
        /\ UNCHANGED <<vars, mng, impl_id, recalled, cb>>
  /\ UNCHANGED <<alive, getting, iovars, stop, phase, poll, idlevars>>

(* PollTask: epoll_wait reports some of the descriptors in its set, or     *)
(* none when it times out or is interrupted ...                            *)
WaitEvent ==
  /\ phase = "dispatch"
  /\ cb = NoTask
  /\ fired_timers = <<>>
  /\ phase' = "poll"
  /\ fires' \in SUBSET interest
  /\ polled' = file_tasks
  /\ UNCHANGED <<timervars, get, iovars, stop, cb, idlevars>>

(* Fault: the event carries the task it was reported for. *)
DispatchIOKeepsPointer ==
  /\ phase = "poll"
  /\ cb = NoTask
  /\ \E fd \in fires :
       /\ fires' = fires \ {fd}
       /\ cb' = polled[fd]
  /\ UNCHANGED <<timervars, get, iovars, stop, phase, polled, idlevars>>

(* ... and each is handed to the task its number is registered for now.    *)
DispatchIO ==
  /\ phase = "poll"
  /\ cb = NoTask
  /\ \E fd \in fires :
       /\ fires' = fires \ {fd}
       /\ cb' = IF FindTask(fd) THEN file_tasks[fd] ELSE NoTask
  /\ UNCHANGED <<timervars, get, iovars, stop, phase, polled, idlevars>>

(* HandleAllIdleTask: the list is copied and the copy gone through; in     *)
(* which order is left open, as with the timers of one tick.               *)
CopyIdle ==
  /\ phase = "poll"
  /\ cb = NoTask
  /\ fires = {}
  /\ phase' = "idle"
  /\ vecs' = idle_tasks
  /\ polled' = << >>
  /\ UNCHANGED <<timervars, get, iovars, stop, cb, fires, idle_tasks, idle_alive>>

DispatchIdle ==
  /\ phase = "idle"
  /\ cb = NoTask
  /\ \E i \in WaitingIdle :
       /\ cb' = i
       /\ vecs' = [vecs EXCEPT ![i] = @ - 1]
  /\ UNCHANGED <<timervars, get, iovars, stop, phase, poll, idle_tasks, idle_alive>>

CallbackReturns ==
  /\ cb # NoTask
  /\ cb' = NoTask
  /\ UNCHANGED <<timervars, get, iovars, stop, phase, poll, idlevars>>

(* Faults: the idle tasks are not counted, or Stop is not looked at. *)
CheckExistTaskForgetsIdle ==
  /\ phase = "idle"
  /\ cb = NoTask
  /\ WaitingIdle = {}
  /\ phase' = IF (size > 0 \/ DOMAIN file_tasks # {}) /\ ~ stop THEN "timers" ELSE "done"
  /\ UNCHANGED <<timervars, get, iovars, stop, cb, poll, idlevars>>

CheckExistTaskForgetsStop ==
  /\ phase = "idle"
  /\ cb = NoTask
  /\ WaitingIdle = {}
  /\ phase' = IF Listed(idle_tasks) # {} \/ size > 0 \/ DOMAIN file_tasks # {}
              THEN "timers" ELSE "done"
  /\ UNCHANGED <<timervars, get, iovars, stop, cb, poll, idlevars>>

(* The foot and the head of Run's loop. *)
CheckExistTask ==
  LET exist_task == Listed(idle_tasks) # {} \/ size > 0 \/ DOMAIN file_tasks # {}
  IN  /\ phase = "idle"
      /\ cb = NoTask
      /\ WaitingIdle = {}
      /\ phase' = IF exist_task /\ ~ stop THEN "timers" ELSE "done"
      /\ UNCHANGED <<timervars, get, iovars, stop, cb, poll, idlevars>>

LoopStep ==
  \/ CollectTimers \/ DispatchTimer
  \/ WaitEvent \/ DispatchIO
  \/ CopyIdle \/ DispatchIdle
  \/ CheckExistTask

Terminated == phase = "done" /\ UNCHANGED loopVars

-----------------------------------------------------------------------------
LoopInit ==
  /\ MngInit
  /\ file_tasks = << >>
  /\ io_alive = {}
  /\ open = Fd
  /\ interest = {}
  /\ recalled = {}
  /\ stop = TRUE
  /\ phase = "new"
  /\ cb = NoTask
  /\ fires = {}
  /\ polled = << >>
  /\ idle_tasks = [i \in Idle |-> 0]
  /\ idle_alive = {}
  /\ vecs = [i \in Idle |-> 0]

TimePasses ==
  /\ phase # "done"
  /\ WallClock
  /\ UNCHANGED <<recalled, iovars, run, poll, idlevars>>

LoopNext ==
  \/ UserCode
  \/ StopLoop
  \/ InitLoop
  \/ Run
  \/ LoopStep
  \/ CallbackReturns
  \/ TimePasses
  \/ Terminated

LoopSpec == LoopInit /\ [][LoopNext]_loopVars

(* Callbacks return, epoll_wait never blocks longer than its timeout of    *)
(* kMaxBlockTime, the loop's thread goes on, and time passes.              *)
FairLoopSpec ==
  /\ LoopSpec
  /\ WF_loopVars(LoopStep)
  /\ WF_loopVars(CallbackReturns)
  /\ WF_loopVars(TimePasses)

-----------------------------------------------------------------------------
(* Properties *)

(* Every variable keeps its type. *)
LoopTypeOK ==
  /\ MngTypeOK
  /\ DOMAIN file_tasks \subseteq Fd
  /\ \A fd \in DOMAIN file_tasks : FdOf[file_tasks[fd]] = fd
  /\ io_alive \subseteq IOTask
  /\ interest \subseteq open /\ open \subseteq Fd
  /\ stop \in BOOLEAN
  /\ phase \in {"new", "ready", "timers", "dispatch", "poll", "idle", "done"}
  /\ cb \in {NoTask} \cup Timer \cup IOTask \cup Idle
  /\ recalled \subseteq WaitingTimer
  /\ fires \subseteq Fd
  /\ idle_tasks \in [Idle -> 0 .. MaxIdle] /\ vecs \in [Idle -> 0 .. MaxIdle]
  /\ idle_alive \subseteq Idle

(* Whatever a callback makes, stops or deletes, the pointers the loop holds *)
(* lead to tasks that exist: those in its tables and those of the batch it *)
(* is in the middle of.                                                    *)
NoDanglingPointer ==
  /\ \A id \in DOMAIN timer_map : timer_map[id] \in alive
  /\ WaitingTimer \subseteq alive
  /\ \A fd \in DOMAIN file_tasks : file_tasks[fd] \in io_alive
  /\ WaitingIdle \cup Listed(idle_tasks) \subseteq idle_alive

(* A registered IO task is one epoll watches: none is registered that can  *)
(* get no event, and none gets events without being registered.            *)
RegisteredIsPolled ==
  DOMAIN file_tasks = interest

(* An event runs the task that was registered for the descriptor when     *)
(* epoll reported it, and only if no callback since has stopped or deleted *)
(* it, even when its descriptor was closed and opened again meanwhile.     *)
EventReachesItsTask ==
  [][\A k \in IOTask :
       cb = NoTask /\ cb' = k =>
         /\ FdOf[k] \in DOMAIN polled /\ polled[FdOf[k]] = k
         /\ FindTask(FdOf[k]) /\ file_tasks[FdOf[k]] = k]_loopVars

NoTaskLeft ==
  DOMAIN timer_map = {} /\ DOMAIN file_tasks = {} /\ Listed(idle_tasks) = {}

(* Run returns only when it was told to or when nothing is left to run     *)
(* for: no timer it could have fired is left behind, though it looks at a  *)
(* count of wheel nodes and not at the timers.                             *)
ReturnsOnlyWhenDone ==
  phase = "done" =>
    stop \/ NoTaskLeft

Rounds == INSTANCE TimerRounds WITH
  ExpireTick <- {GetJiffersFromTime(b + Interval[t]) : b \in 0 .. MaxTime, t \in Timer},
  NoCall     <- NoTask,
  armed      <- Armed,
  running    <- pc # "idle",
  fired      <- Fired,
  called     <- IF cb \in Timer THEN cb ELSE NoTask

(* To the owners of timers the loop is TimerRounds: every timer that comes *)
(* due is called back once in the round that collects it, in the order of  *)
(* the ticks, whatever callbacks start, stop and delete in between, and no *)
(* round begins while a timer of the one before waits.                     *)
ImplementsTimerRounds == Rounds!RoundsSpec

(* A timer stopped by a callback of the same round does not run any more.  *)
StoppedTimerDoesNotRun ==
  [][\A t \in Timer : cb = NoTask /\ cb' = t => t \notin recalled]_loopVars

(* Stop ends Run, however many tasks are left and wherever it struck.      *)
StopEndsRun ==
  stop /\ phase \notin {"new", "ready"} ~> phase = "done"

(* A timer registered while Run is on, for a tick the clock can reach,     *)
(* leaves the map in the end: it fires, unless it is stopped, restarted or *)
(* deleted before or Run returns.                                          *)
Reachable(id) ==
  /\ phase \notin {"new", "ready"}
  /\ clk <= GetJiffersFromTime(MaxTime)
  /\ \E x \in Nodes : x.timer_data = id /\ x.expires <= GetJiffersFromTime(MaxTime)

RegisteredTimerFires ==
  \A id \in 1 .. MaxId :
    FindTimer(id) /\ Reachable(id) ~> ~ FindTimer(id) \/ phase = "done"

(* When no task is left, not even a stopped one on the wheel, Run returns. *)
Exhausted ==
  /\ phase \notin {"new", "ready"}
  /\ NoTaskLeft
  /\ Nodes = {}

ReturnsWhenExhausted ==
  <>[]Exhausted => <>(phase = "done")

=============================================================================
