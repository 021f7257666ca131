------------------------------ MODULE TServer -------------------------------
(***************************************************************************)
(* The echo server of src/echo_svr/server.cpp and src/echo_svr/main.cpp    *)
(* around its connections: how it starts, accepts clients, gives each      *)
(* connection an idle timer, and closes the connection, its timer and its  *)
(* descriptor together; and the signal that stops it at any point.         *)
(*                                                                         *)
(* What happens inside a connection is Connector's; here an event on one   *)
(* ends with commands received, with nothing of note, or with the          *)
(* connection closed.  The rounds of the loop are EventLoop's, with its    *)
(* timers as TimerService promises them.  Time is counted in ticks of the  *)
(* wheel; the clock itself is not kept, only what is measured by it.       *)
(***************************************************************************)
EXTENDS Integers

CONSTANTS
  Second,      (* ticks of the wheel in a second                           *)
  Tick,        (* interval of the tick_ timer, in ticks                    *)
  Timeout,     (* the configured timeout of a connection, in ticks         *)
  MaxFd,       (* the process may have descriptors 1 .. MaxFd              *)
  MaxClients,  (* bound: this many clients connect in all                  *)
  CallsFail,   (* can accept, fcntl, setsockopt or epoll_ctl fail on a     *)
               (* new client                                               *)
  SetBack      (* can the wall clock be set back, by a second, once        *)

ASSUME ServerAssumption ==
  /\ Second \in Nat \ {0} /\ Tick \in Nat \ {0} /\ Timeout \in Nat \ {0}
  /\ MaxFd \in Nat \ {0}
  /\ MaxClients \in Nat
  /\ CallsFail \in BOOLEAN /\ SetBack \in BOOLEAN

VARIABLES
  at,          (* how far main has come: a step of Init, "run", or "exit"  *)
  stop,        (* EventLoop::stop_                                         *)
  phase,       (* where the round of EventLoop::Run stands                 *)
  due,         (* the timers of this round not called yet                  *)
  fires,       (* fires_: the descriptors epoll reported, not handled yet  *)
  polled,      (* history: the tasks registered for them at that time      *)
  conn_map,    (* conn_map_: connectors by cid                             *)
  timer_map,   (* the cids that have a timer in timer_map_                 *)
  armed,       (* ticks to go of each started timer, tick_ being TickTimer *)
  id_cnt,      (* Connector::id_cnt                                        *)
  file_tasks,  (* the IO tasks registered, by descriptor                   *)
  epfd,        (* the loop's epoll descriptor, 0 for none                  *)
  listen_fd,   (* the listening socket, 0 for none                         *)
  open,        (* kernel: the descriptors in use                           *)
  lost,        (* history: of these, the ones nobody will ever close       *)
  ready,       (* kernel: the descriptors with an edge not yet reported    *)
  backlog,     (* kernel: the number of clients waiting to be accepted     *)
  stranded,    (* history: OnAccept gave up on some, and none came since   *)
  arrived,     (* the number of clients that have connected so far         *)
  sub_second,  (* the tick within the wall clock's second                  *)
  set_back     (* has the clock been set back                              *)

main   == <<at, stop>>
rounds == <<phase, due, fires, polled>>
conns  == <<conn_map, timer_map, armed, id_cnt>>
fds    == <<file_tasks, epfd, listen_fd, open, lost>>
net    == <<ready, backlog, stranded, arrived>>
time   == <<sub_second, set_back>>
serverVars == <<main, rounds, conns, fds, net, time>>

TickTimer == 0           (* tick_ in armed; connections have cids from 1   *)
AcceptTask == 0          (* accept_task_ in file_tasks                     *)
Fd == 1 .. MaxFd

(* The kernel gives out the lowest number that is free. *)
FreeFd == Fd \ open
NewFd == CHOOSE fd \in FreeFd : \A f \in FreeFd : fd <= f

Without(map, S) == [x \in DOMAIN map \ S |-> map[x]]
With(map, k, v) == [x \in DOMAIN map \cup {k} |-> IF x = k THEN v ELSE map[x]]

-----------------------------------------------------------------------------
(* main and TServer::Init: each step may fail, and then the program ends *)

Exit == at' = "exit" /\ UNCHANGED <<stop, rounds, conns, fds, net, time>>

GetOption ==
  /\ at = "option"
  /\ \/ Exit
     \/ at' = "config" /\ UNCHANGED <<stop, rounds, conns, fds, net, time>>

(* Without -c it fails.  A file that cannot be opened is not an error: all *)
(* values are defaults then, and the server does not become a daemon.  One *)
(* that is read is not closed.                                             *)
LoadConfig ==
  /\ at = "config"
  /\ \/ Exit
     \/ /\ at' = "loop"
        /\ UNCHANGED <<stop, rounds, conns, fds, net, time>>
     \/ \E daemon \in BOOLEAN :
          /\ FreeFd # {}
          /\ at' = IF daemon THEN "daemon" ELSE "loop"
          /\ open' = open \cup {NewFd}
          /\ lost' = lost \cup {NewFd}
          /\ UNCHANGED <<stop, rounds, conns, file_tasks, epfd, listen_fd, net, time>>

(* Every descriptor is closed, the epoll set the constructor made too. *)
Daemon ==
  /\ at = "daemon"
  /\ \/ Exit
     \/ /\ at' = "loop"
        /\ open' = {}
        /\ lost' = {}
        /\ UNCHANGED <<stop, rounds, conns, file_tasks, epfd, listen_fd, net, time>>

(* EventLoop::Init: a second epoll set, whose descriptor takes the place   *)
(* of the first one's; and stop_ is cleared.                               *)
InitLoop ==
  /\ at = "loop"
  /\ \/ Exit
     \/ /\ FreeFd # {}
        /\ at' = "listen"
        /\ stop' = FALSE
        /\ epfd' = NewFd
        /\ open' = open \cup {NewFd}
        /\ lost' = lost \cup ({epfd} \cap open)
        /\ UNCHANGED <<rounds, conns, file_tasks, listen_fd, net, time>>

StartListen ==
  /\ at = "listen"
  /\ \/ Exit
     \/ /\ FreeFd # {}
        /\ at' = "tick"
        /\ listen_fd' = NewFd
        /\ open' = open \cup {NewFd}
        /\ file_tasks' = With(file_tasks, NewFd, AcceptTask)
        /\ UNCHANGED <<stop, rounds, conns, epfd, lost, net, time>>

StartTick ==
  /\ at = "tick"
  /\ armed' = With(armed, TickTimer, Tick)
  /\ at' = "ready"
  /\ UNCHANGED <<stop, rounds, conn_map, timer_map, id_cnt, fds, net, time>>

(* Fault: Run starts from a clean state. *)
RunClearsStop ==
  /\ at = "ready"
  /\ at' = "run"
  /\ stop' = FALSE
  /\ UNCHANGED <<rounds, conns, fds, net, time>>

(* TServer::Run *)
Run ==
  /\ at = "ready"
  /\ at' = IF stop THEN "exit" ELSE "run"
  /\ UNCHANGED <<stop, rounds, conns, fds, net, time>>

Main ==
  \/ GetOption \/ LoadConfig \/ Daemon \/ InitLoop
  \/ StartListen \/ StartTick \/ Run

(* TermSigHandler, set up before Init is called. *)
TermSignal ==
  /\ at # "exit"
  /\ stop' = TRUE
  /\ UNCHANGED <<at, rounds, conns, fds, net, time>>

-----------------------------------------------------------------------------
(* Connections *)

(* The limit IsTimeOut is asked about, in whole seconds. *)
Limit == Timeout \div Second

(* A connector: its descriptor, the seconds of the wall clock since        *)
(* last_act_time_, and (history) the ticks since then and whether its task *)
(* was registered.  Seconds and ticks stop where nothing can tell them     *)
(* from more.                                                              *)
NewConnector(fd, heard) == [fd |-> fd, lag |-> 0, quiet |-> 0, heard |-> heard]
Older(conn, seconds) ==
  [conn EXCEPT !.lag = IF @ + seconds > Limit + 1 THEN @ ELSE @ + seconds,
               !.quiet = IF @ = Limit * Second THEN @ ELSE @ + 1]

(* Connector::IsTimeOut: the difference is unsigned, so that a clock that  *)
(* was set back behind last_act_time_ makes it huge.                       *)
IsTimeOut(conn) == conn.lag < 0 \/ conn.lag >= Limit

(* Fault: Close finds the connection closed already. *)
DelConnLeavesOpen(c) ==
  LET fd == conn_map[c].fd
  IN  /\ conn_map' = Without(conn_map, {c})
      /\ file_tasks' = Without(file_tasks, {fd})
      /\ ready' = ready \ {fd}
      /\ UNCHANGED open

(* Stops the task, closes the descriptor, erases and deletes the connector. *)
DelConn(c) ==
  LET fd == conn_map[c].fd
  IN  /\ conn_map' = Without(conn_map, {c})
      /\ file_tasks' = Without(file_tasks, {fd})
      /\ open' = open \ {fd}
      /\ ready' = ready \ {fd}

(* Stops the timer, erases and deletes it. *)
DelTimerTask(c) ==
  /\ timer_map' = timer_map \ {c}
  /\ armed' = Without(armed, {c})

CloseConn(c) == DelConn(c) /\ DelTimerTask(c)

(* Fault: commands received do not count as activity. *)
DoKeepsTime(c) == conn_map' = [conn_map EXCEPT ![c].quiet = 0]

(* Do on a connection that stays: SetLastActTimeToNow. *)
Do(c) == conn_map' = [conn_map EXCEPT ![c] = NewConnector(@.fd, @.heard)]

(* Connector's OnRead or OnWriteRemain, and what TServer makes of it.      *)
(* Only commands count as activity: a connection that is busy sending a    *)
(* long reply does not look at them.                                       *)
ConnEvent(c) ==
  \/ CloseConn(c)
  \/ Do(c) /\ UNCHANGED <<timer_map, armed, file_tasks, open, ready>>
  \/ UNCHANGED <<conn_map, timer_map, armed, file_tasks, open, ready>>

(* Faults: the timer is one-shot and is not started again; or the whole    *)
(* map is swept for connections past their time.                           *)
OnTimerOutOnce(c) ==
  IF IsTimeOut(conn_map[c])
  THEN CloseConn(c)
  ELSE UNCHANGED <<conn_map, timer_map, armed, file_tasks, open, ready>>

OnTimerOutSweeps(c) ==
  LET old == {x \in DOMAIN conn_map : IsTimeOut(conn_map[x])}
      gone == {conn_map[x].fd : x \in old}
  IN  /\ conn_map' = Without(conn_map, old)
      /\ timer_map' = timer_map \ old
      /\ armed' = IF c \in old THEN Without(armed, old)
                  ELSE With(Without(armed, old), c, Timeout)
      /\ file_tasks' = Without(file_tasks, gone)
      /\ open' = open \ gone
      /\ ready' = ready \ gone

(* The idle timer of a connection.  A timer without one is only deleted.   *)
OnTimerOut(c) ==
  IF c \notin DOMAIN conn_map
  THEN DelTimerTask(c) /\ UNCHANGED <<conn_map, file_tasks, open, ready>>
  ELSE \/ IsTimeOut(conn_map[c]) /\ CloseConn(c)
       \/ /\ ~ IsTimeOut(conn_map[c])
          /\ armed' = With(armed, c, Timeout)
          /\ UNCHANGED <<conn_map, timer_map, file_tasks, open, ready>>

-----------------------------------------------------------------------------
(* OnAccept: one turn of its loop at a time *)

(* It leaves the clients in n behind, for which epoll reports no edge. *)
GiveUp(n) == phase' = "poll" /\ stranded' = (n > 0)

(* EAGAIN *)
AcceptNoMore ==
  /\ backlog = 0
  /\ phase' = "poll"
  /\ UNCHANGED <<conns, file_tasks, open, lost, ready, backlog, stranded>>

(* No descriptor is left, or the client has gone: any error but EAGAIN. *)
AcceptError ==
  /\ backlog > 0
  /\ \/ FreeFd = {} /\ backlog' = backlog
     \/ CallsFail /\ FreeFd # {} /\ backlog' = backlog - 1
  /\ GiveUp(backlog')
  /\ UNCHANGED <<conns, file_tasks, open, lost, ready>>

(* MakeNonblock or SetCliOpt fails: the descriptor is forgotten. *)
AcceptUnusable ==
  /\ backlog > 0
  /\ FreeFd # {} /\ CallsFail
  /\ backlog' = backlog - 1
  /\ open' = open \cup {NewFd}
  /\ lost' = lost \cup {NewFd}
  /\ GiveUp(backlog')
  /\ UNCHANGED <<conns, file_tasks, ready>>

(* Faults: one client at a time, as with level-triggered epoll; or what    *)
(* accept returns is not looked at.                                        *)
AcceptOnce ==
  /\ backlog > 0
  /\ FreeFd # {}
  /\ backlog' = backlog - 1
  /\ open' = open \cup {NewFd}
  /\ id_cnt' = id_cnt + 1
  /\ conn_map' = With(conn_map, id_cnt, NewConnector(NewFd, TRUE))
  /\ timer_map' = timer_map \cup {id_cnt}
  /\ armed' = With(armed, id_cnt, Timeout)
  /\ file_tasks' = With(file_tasks, NewFd, id_cnt)
  /\ phase' = "poll"
  /\ UNCHANGED <<lost, ready, stranded>>

AcceptUnchecked ==
  /\ FreeFd # {}
  /\ backlog' = backlog - 1
  /\ open' = open \cup {NewFd}
  /\ id_cnt' = id_cnt + 1
  /\ conn_map' = With(conn_map, id_cnt, NewConnector(NewFd, TRUE))
  /\ timer_map' = timer_map \cup {id_cnt}
  /\ armed' = With(armed, id_cnt, Timeout)
  /\ file_tasks' = With(file_tasks, NewFd, id_cnt)
  /\ UNCHANGED <<phase, lost, ready, stranded>>

(* SetIOTask fails on a descriptor that has a task, and when epoll_ctl has *)
(* no memory or no watches left.                                           *)
SetIOTask(fd, c, done) ==
  \/ /\ done /\ fd \notin DOMAIN file_tasks
     /\ file_tasks' = With(file_tasks, fd, c)
  \/ /\ ~ done /\ (fd \in DOMAIN file_tasks \/ CallsFail)
     /\ UNCHANGED file_tasks

CreateConn(fd, heard) ==
  conn_map' = With(conn_map, id_cnt, NewConnector(fd, heard))

CreateTimerTask(c) == timer_map' = timer_map \cup {c}

(* A connector, a timer for it, BeginRecv, and the start of the timer.     *)
(* BeginRecv does not look whether the task was registered: a connection   *)
(* without one has its timer and is never heard.                           *)
AcceptClient ==
  /\ backlog > 0
  /\ FreeFd # {}
  /\ backlog' = backlog - 1
  /\ open' = open \cup {NewFd}
  /\ id_cnt' = id_cnt + 1
  /\ \E heard \in BOOLEAN :
       CreateConn(NewFd, heard) /\ SetIOTask(NewFd, id_cnt, heard)
  /\ CreateTimerTask(id_cnt)
  /\ armed' = With(armed, id_cnt, Timeout)
  /\ UNCHANGED <<phase, lost, ready, stranded>>

OnAccept ==
  /\ at = "run" /\ phase = "accept"
  /\ AcceptNoMore \/ AcceptError \/ AcceptUnusable \/ AcceptClient
  /\ UNCHANGED <<main, due, fires, polled, epfd, listen_fd, arrived, time>>

-----------------------------------------------------------------------------
(* The rounds of the loop *)

CollectTimers ==
  /\ at = "run" /\ phase = "timers"
  /\ due' = {t \in DOMAIN armed : armed[t] = 0}
  /\ armed' = Without(armed, due')
  /\ phase' = "dispatch"
  /\ UNCHANGED <<main, fires, polled, conn_map, timer_map, id_cnt, fds, net, time>>

(* tick_ repeats, and OnTick does nothing more. *)
DispatchTimer ==
  /\ at = "run" /\ phase = "dispatch"
  /\ \E t \in due :
       /\ due' = due \ {t}
       /\ IF t = TickTimer
          THEN /\ armed' = With(armed, TickTimer, Tick)
               /\ UNCHANGED <<conn_map, timer_map, file_tasks, open, ready>>
          ELSE OnTimerOut(t)
  /\ UNCHANGED <<main, phase, fires, polled, id_cnt, epfd, listen_fd, lost,
                 backlog, stranded, arrived, time>>

(* All edges are reported, or none when the signal interrupts epoll_wait. *)
WaitEvent ==
  /\ at = "run" /\ phase = "dispatch"
  /\ due = {}
  /\ phase' = "poll"
  /\ fires' \in {ready} \cup (IF stop THEN {{}} ELSE {})
  /\ ready' = ready \ fires'
  /\ polled' = [fd \in fires' \cap DOMAIN file_tasks |-> file_tasks[fd]]
  /\ UNCHANGED <<main, due, conns, fds, backlog, stranded, arrived, time>>

DispatchIO ==
  /\ at = "run" /\ phase = "poll"
  /\ \E fd \in fires :
       /\ fires' = fires \ {fd}
       /\ polled' = Without(polled, {fd})
       /\ IF fd = listen_fd
          THEN /\ phase' = "accept"
               /\ UNCHANGED <<conn_map, timer_map, armed, file_tasks, open, ready>>
          ELSE /\ phase' = phase
               /\ IF fd \in DOMAIN file_tasks /\ file_tasks[fd] \in DOMAIN conn_map
                  THEN ConnEvent(file_tasks[fd])
                  ELSE UNCHANGED <<conn_map, timer_map, armed, file_tasks, open, ready>>
  /\ UNCHANGED <<main, due, id_cnt, epfd, listen_fd, lost,
                 backlog, stranded, arrived, time>>

(* There is always the listening task to go on for, so only Stop ends it. *)
EndRound ==
  /\ at = "run" /\ phase = "poll"
  /\ fires = {}
  /\ phase' = "timers"
  /\ at' = IF stop \/ (DOMAIN armed = {} /\ DOMAIN file_tasks = {}) THEN "exit" ELSE at
  /\ UNCHANGED <<stop, due, fires, polled, conns, fds, net, time>>

LoopStep ==
  \/ CollectTimers \/ DispatchTimer
  \/ WaitEvent \/ DispatchIO \/ OnAccept
  \/ EndRound

-----------------------------------------------------------------------------
(* Clients, and time *)

ClientConnects ==
  /\ at # "exit"
  /\ listen_fd # 0
  /\ arrived < MaxClients
  /\ arrived' = arrived + 1
  /\ backlog' = backlog + 1
  /\ ready' = ready \cup {listen_fd}
  /\ stranded' = FALSE
  /\ UNCHANGED <<main, rounds, conns, fds, time>>

(* A client sends, reads, or leaves. *)
ClientActs ==
  /\ at # "exit"
  /\ \E c \in DOMAIN conn_map :
       /\ conn_map[c].fd \in DOMAIN file_tasks
       /\ ready' = ready \cup {conn_map[c].fd}
  /\ UNCHANGED <<main, rounds, conns, fds, backlog, stranded, arrived, time>>

TimePasses ==
  LET seconds == IF sub_second = Second - 1 THEN 1 ELSE 0
  IN  /\ at # "exit"
      /\ sub_second' = (sub_second + 1) % Second
      /\ armed' = [t \in DOMAIN armed |-> IF armed[t] = 0 THEN 0 ELSE armed[t] - 1]
      /\ conn_map' = [c \in DOMAIN conn_map |-> Older(conn_map[c], seconds)]
      /\ UNCHANGED <<main, rounds, timer_map, id_cnt, fds, net, set_back>>

(* The wall clock is set back by a second: timers have a second more to go. *)
ClockSetBack ==
  /\ SetBack /\ ~ set_back
  /\ at = "run"
  /\ set_back' = TRUE
  /\ armed' = [t \in DOMAIN armed |-> armed[t] + Second]
  /\ conn_map' = [c \in DOMAIN conn_map |-> [conn_map[c] EXCEPT !.lag = @ - 1]]
  /\ UNCHANGED <<main, rounds, timer_map, id_cnt, fds, net, sub_second>>

Terminated == at = "exit" /\ UNCHANGED serverVars

-----------------------------------------------------------------------------
ServerInit ==
  /\ at = "option" /\ stop = TRUE
  /\ phase = "timers" /\ due = {} /\ fires = {} /\ polled = << >>
  /\ conn_map = << >> /\ timer_map = {} /\ armed = << >> /\ id_cnt = 1
  /\ file_tasks = << >> /\ listen_fd = 0
  /\ epfd = 1 /\ open = {1} /\ lost = {}
  /\ ready = {} /\ backlog = 0 /\ stranded = FALSE /\ arrived = 0
  /\ sub_second = 0 /\ set_back = FALSE

ServerNext ==
  \/ Main
  \/ TermSignal
  \/ LoopStep
  \/ ClientConnects
  \/ ClientActs
  \/ TimePasses
  \/ ClockSetBack
  \/ Terminated

ServerSpec == ServerInit /\ [][ServerNext]_serverVars

(* The program goes on: no step of Init and no callback blocks, and        *)
(* epoll_wait returns after kMaxBlockTime at the latest.  Time passes.     *)
FairServerSpec ==
  /\ ServerSpec
  /\ WF_serverVars(Main)
  /\ WF_serverVars(LoopStep)
  /\ WF_serverVars(TimePasses)

-----------------------------------------------------------------------------
(* Properties *)

Cids == 1 .. MaxClients
Connector ==
  [fd : Fd, lag : -1 .. Limit + 1, quiet : 0 .. Limit * Second, heard : BOOLEAN]

(* Every variable keeps its type. *)
ServerTypeOK ==
  /\ at \in {"option", "config", "daemon", "loop", "listen", "tick", "ready", "run", "exit"}
  /\ stop \in BOOLEAN
  /\ phase \in {"timers", "dispatch", "poll", "accept"}
  /\ due \subseteq Cids \cup {TickTimer}
  /\ fires \subseteq Fd /\ DOMAIN polled \subseteq Fd
  /\ DOMAIN conn_map \subseteq Cids
  /\ \A c \in DOMAIN conn_map : conn_map[c] \in Connector
  /\ timer_map \subseteq Cids
  /\ DOMAIN armed \subseteq Cids \cup {TickTimer}
  /\ \A t \in DOMAIN armed : armed[t] \in Nat
  /\ id_cnt \in Nat \ {0}
  /\ DOMAIN file_tasks \subseteq Fd
  /\ \A fd \in DOMAIN file_tasks : file_tasks[fd] \in Cids \cup {AcceptTask}
  /\ epfd \in Fd /\ listen_fd \in {0} \cup Fd
  /\ lost \subseteq open /\ open \subseteq Fd
  /\ ready \subseteq Fd
  /\ arrived \in 0 .. MaxClients /\ backlog \in 0 .. arrived
  /\ stranded \in BOOLEAN /\ set_back \in BOOLEAN
  /\ sub_second \in 0 .. Second - 1

(* A connection has its idle timer as long as it lasts, running or about   *)
(* to be called, from whichever callback it is closed.  It has its IO task *)
(* as long, unless epoll refused it when the client was accepted: such a   *)
(* connection hears nothing, and its timer is all it has.  No task and no  *)
(* timer outlives its connection.                                          *)
ConnsAreComplete ==
  /\ timer_map = DOMAIN conn_map
  /\ timer_map \subseteq DOMAIN armed \cup due
  /\ \A c \in DOMAIN conn_map :
       LET fd == conn_map[c].fd
       IN  IF conn_map[c].heard
           THEN fd \in DOMAIN file_tasks /\ file_tasks[fd] = c
           ELSE CallsFail /\ fd \notin DOMAIN file_tasks
  /\ \A fd \in DOMAIN file_tasks \ {listen_fd} :
       file_tasks[fd] \in DOMAIN conn_map /\ conn_map[file_tasks[fd]].fd = fd

(* Once the server listens, each descriptor in use has one owner: the      *)
(* loop, the listening task or one connection.  The rest are lost, and     *)
(* those are the ones OnAccept forgot, the first epoll set and the         *)
(* configuration file.                                                     *)
DescriptorsHaveOwners ==
  at \in {"tick", "ready", "run"} =>
    /\ open \ lost = {epfd, listen_fd} \cup {conn_map[c].fd : c \in DOMAIN conn_map}
    /\ epfd # listen_fd
    /\ \A c \in DOMAIN conn_map : conn_map[c].fd \notin {epfd, listen_fd}
    /\ \A c, d \in DOMAIN conn_map : conn_map[c].fd = conn_map[d].fd => c = d

(* Epoll reports the listening socket once per arrival.  A client that     *)
(* waits is still to be reported or about to be accepted, unless OnAccept  *)
(* gave up on an error and nobody has come since: then it waits for the    *)
(* next client to arrive.                                                  *)
NoClientOverlooked ==
  backlog > 0 =>
    listen_fd \in ready \cup fires \/ phase = "accept" \/ stranded

(* The server keeps the rules EventLoop asks of its callbacks: none        *)
(* deletes a timer that waits in the batch being run, and none starts a    *)
(* task on a descriptor that still has an event of another task waiting,   *)
(* though descriptors are reused within a batch.                           *)
KeepsLoopRules ==
  /\ due \subseteq timer_map \cup {TickTimer}
  /\ \A fd \in fires \cap DOMAIN file_tasks :
       fd \in DOMAIN polled /\ polled[fd] = file_tasks[fd]

(* The idle timer closes no connection that has been active within the     *)
(* timeout, but for the second that counting in whole seconds may take off *)
(* it, and unless the wall clock was set back behind its last activity.    *)
(* Activity is counted in ticks of the wheel, to which a clock set forward *)
(* is time that has passed.                                                *)
BusyIsKept ==
  [][\A c \in DOMAIN conn_map \ DOMAIN conn_map' :
       phase = "dispatch" =>
         conn_map[c].quiet > (Limit - 1) * Second \/ (set_back /\ conn_map[c].lag < 0)
    ]_serverVars

(* A connection nobody uses is closed in the end, though its timer is      *)
(* one-shot and is started at other times than its last activity.          *)
QuietIsClosed ==
  \A c \in Cids :
    c \in DOMAIN conn_map /\ conn_map[c].quiet > 0 ~>
      at = "exit" \/ c \notin DOMAIN conn_map \/ conn_map[c].quiet = 0

(* A termination signal that comes once the loop is initialised ends the   *)
(* program, also before Run; one that comes earlier is lost, because       *)
(* EventLoop::Init clears stop_.                                           *)
SignalEndsServer ==
  stop /\ at \in {"listen", "tick", "ready", "run"} ~> at = "exit"

=============================================================================
