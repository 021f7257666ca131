# netframz in TLA+

netframz is a small event-driven network framework in C++ (`src/src`) with an
echo server built on it (`src/echo_svr`).  One thread runs everything: an event
loop collects timers from a hierarchical timing wheel, polls an edge-triggered
epoll set, and runs idle tasks; all of the program's own code is callbacks.
There are no locks and hardly any tests.  What is hard is the order of things:
callbacks that start, stop and delete tasks while the loop is in the middle of
a batch, cascades of the wheel, descriptors that are closed and reused, a wall
clock that jumps, a signal handler that stops the loop.

## The system and its parts

| Part | State it keeps | Operations | Talks to |
|------|----------------|------------|----------|
| Timing wheel, `nf_event_timer_wheel.h` | `base_`: the next tick `clk`, five wheels of lists, a count `size` | `AddTimer`, `GetTimer` (`TimerRun`, `Cascade`), `GetTimerSize` | called by the manager; reads the wall clock |
| Timer manager, `nf_event_timer_mng.*` | `timer_map_` from ids to raw timer pointers, `dist_id_` | `AddTimer`, `ModTimer`, `DelTimer`, `GetFiredTimers` | wheel below, loop above |
| Timer tasks, `nf_event_timer_task.*`, `_impl.*` | id, interval, begin time, repeat flag, callback | construct, `Start`, `Restart`, `Stop`, destroy | loop |
| IO tasks and registry, `nf_event_iotask*.*`, `nf_event.cpp` | `file_tasks_` from descriptors to raw task pointers | `SetIOTask`, `ResetIOTask`, `DelIOTask` | epoll set |
| Epoll set, `nf_epoll.*` | `epfd_`, event array | `AddEvent`, `ModEvent`, `DelEvent`, `WaitEvent` | kernel |
| Idle tasks, `nf_event_idle_task.*` | `idle_tasks_`, a list of raw pointers | `Start`, `Stop`, destroy | loop |
| Event loop, `nf_event.*` | `stop_`, `waittime_`, `fires_` | `Init`, `Run`, `Stop`, `Sleep` | all of the above, and every callback |
| Connector, `echo_svr/connector.*` | receive and send buffer, event mask, `last_act_time_` | `BeginRecv`, `OnRead`, `Send`, `OnWriteRemain`, `Close` | IO task below, server above, the peer through the socket |
| Commands, `echo_svr/proto.h` | none | `Parse`, `Serialize` | server |
| Echo server, `echo_svr/server.*` | `conn_map_`, `timer_map_`, listening task, tick timer | `Init`, `OnAccept`, `OnRead`, `Do`, `OnTimerOut`, `CloseConn` | connectors, timers, configuration |
| Program start, `echo_svr/main.cpp` | none | `main`, `TermSigHandler` | server, loop, memory checker |
| Memory checker, `nf_mem_check.*`, `nf_list.h` | list of live allocations, cursor | `Add`, `Del`, `GetNext`, `Clear` | `operator new` and `delete`, the signal handler |
| Configuration, `echo_svr/config.*`, `server_config.*` | dictionary of lines | `Init`, `GetString`, `GetInt`, ... | server start |

What makes each of them correct:

* **Wheel.** Each timer comes out once, in its own tick (or in the next one if
  it was overdue when put in), and no tick is left out, whatever wheels the
  timer passes through.  `size` never wraps.
* **Manager and timer tasks.** A stopped timer does not fire, a restarted one
  fires for its last start only, the map never leads to a deleted timer, and a
  registered timer is never forgotten.
* **Registry.** What is registered is what epoll watches, and an event reaches
  the task it was reported for or nobody.
* **Loop.** No pointer it holds dangles, `Stop` ends `Run`, `Run` does not
  return while it has tasks, and returns when it has none.
* **Connector and server.** What a client sends comes back in order and
  complete; connections, their timers and their descriptors come and go
  together, and one that epoll refuses to watch does not stay; an idle connection
  is closed and a busy one is not; a client that
  connects is accepted; a signal ends the server.
* **Memory checker.** The list is whole at every moment a signal handler may
  walk it, and the handler's walk ends and names what is allocated.
* **Configuration.** Every setting the file gives is the one the server gets.

## Modules

| Module | Models | Kind |
|--------|--------|------|
| `TimerQueue` | what a timer container promises | abstract specification |
| `TimerWheel` | `nf_event_timer_wheel.h` | detailed specification, implements `TimerQueue` |
| `TimerWheelProofs` | | proofs about `TimerWheel` |
| `TimerService` | what the manager promises to timer owners | abstract specification |
| `TimerMng` | `nf_event_timer_mng.cpp`, `nf_event_timer_task.cpp`; extends `TimerWheel` | detailed specification, implements `TimerService` |
| `TimerMngProofs` | | proofs about `TimerMng` |
| `TimerRounds` | what the loop promises to timer owners; extends `TimerService` | abstract specification |
| `IOTasks` | registry, IO tasks, epoll set, descriptors | operations, used by `EventLoop` |
| `EventLoop` | `nf_event.cpp`; composes `TimerMng` and `IOTasks` | detailed specification, implements `TimerRounds` |
| `EventLoopProofs` | | proofs about `EventLoop` |
| `ByteQueue` | what a connection needs of its buffers | abstract specification |
| `Buffer` | `struct Buffer` of `connector.h` | detailed specification, implements `ByteQueue` |
| `Connector` | `connector.cpp`, `proto.h` and `TServer::Do`, with the socket and the client around them | specification |
| `ConnectorProofs` | | proofs about `Connector` |
| `TServer` | `server.cpp`, `main.cpp` and the life of a connection | specification |
| `TServerProofs` | | proofs about `TServer` |
| `AllocLog` | what the memory checker promises | abstract specification |
| `MemCheck` | `nf_mem_check.*`, `nf_list.h`, the report of the signal handler | detailed specification, implements `AllocLog` |
| `MemCheckProofs` | | proofs about `MemCheck` |
| `Config` | `config.cpp`, `server_config.cpp` | specification |
| `ConfigProofs` | | proofs about `Config` |
| `PartsProofs` | | proofs about `Buffer`, and about what `MCParts` puts together |
| `MCTimerWheel`, `MCTimerMng`, `MCEventLoop`, `MCConnector`, `MCTServer`, `MCParts` | | values of the constants for TLC |

How they fit together: `TimerMng` extends `TimerWheel`, and `EventLoop` extends
both with `IOTasks`, so that the loop's runs contain the real wheel and the real
manager. `Connector` keeps its two buffers as `ByteQueue` describes them, which
`Buffer` implements; it stands for what one IO task does. `TServer` takes timers
as `TimerRounds` promises them, which the loop is shown to implement, and the
inside of a connection as `Connector` has it, and keeps in return the rules
`EventLoop` asks of a program (`KeepsLoopRules`). `MCParts` puts the memory
checker, a buffer and the configuration side by side in one run: each behaviour
is one of one part, the other two stand still.

**TimerWheel.** `size`, `clk`, `vec` are `base_`; a slot is a pair of a wheel
(0 the root, 1 to 4 the outer ones) and an index.  `AddTimer` and
`GetTimerListVec` are the functions of these names.  `TimerRun` is unfolded
into steps with a program counter: `TimerRun` (a tick is due), `Cascade` (one
outer wheel), `Splice` (hand out the slot), `TimerRunReturn`; the wall clock
may move between any two.  A slot's list is a set of nodes, so the order within
a slot is open.  `unsigned long` is not given a width: the distance of an
overdue timer, which wraps in the code and is tested with `(long) delta < 0`,
is a negative number here, and the tick counter of 100 ms does not come near
2^63.  The operators with a fault in their comment are not part of the
specification: each is a plausible slip in the operation after it, and the
mutation tests put it in that operation's place.

**TimerMng.** A timer task is a member of `Timer`, with its `impl_id`.
`begin_` is not kept: `Start`, `Restart` and the loop set it to the present
time immediately before the one place that reads it.  `GetFiredTimers` starts
the wheel, `WheelTurns` are its steps and `CollectFired` looks the ids up;
`getting` says that it is under way, and owners act only outside it, as there
is one thread.  Seen as a `TimerService`, a timer is armed while the map leads
from a node on the wheel to it (`Armed`).

**IOTasks.** `file_tasks` is the registry, `interest` the kernel's epoll set,
`open` the descriptors in use.  Closing a descriptor takes it out of the epoll
set, as the kernel does.  A failing `epoll_ctl` leaves everything as it is,
also in `DelIOTask`, which then keeps its entry.

**EventLoop.** `phase` says where `Run` stands; `cb` is the task whose callback
is running.  `idle_tasks_` is kept as the number of times each task is in the
list, because `Start` may put it in twice (`Stop` takes out every one); the order in
which they run is open.  While a callback runs, and before `Run`, `UserCode` may do any
number of operations on any timer, IO task, descriptor or idle task.  `Stop`
may come at any step, as from a signal handler.  Four rules are asked of the
program, and they are the assumptions of everything shown about the loop: it
does not delete a timer or an idle task that waits in the batch being run (the
loop holds plain pointers, and a deletion would leave one dangling); it has at
most one task made for a descriptor; it deletes that task before it closes the
descriptor; it does not start a task on a number that still has an event
waiting.  The echo server keeps them (`KeepsLoopRules` of `TServer`): a
connection's callback closes only that connection.  What the loop is to those
who own timers is `TimerRounds`: `TimerService`, and a callback for each timer
collected.  Two things an owner might not expect are part of what it says: a
timer stopped after it was collected runs all the same, and one that repeats is
then put back on the wheel.

**Connector.** One connection, with the kernel's two socket buffers
(`wire_in`, `wire_out`), epoll's ready list (`armed`) and the client around it.
The client's bytes are numbered, a command is a stretch of them given by its
last byte (`EndOf`), and a reply consists of the bytes of its command; so "what
comes back is what was sent, in order" reads `got[i] = i`.  `watch` stands for
the task's mask and the callback bound with it, which the code always changes
together.  `OnRead`, each turn of the loop in `Do`, each `write`, the return of
`Send` and of `OnWriteRemain` are steps of their own, because the client and the
kernel go on in between.  `read` is taken in one step up to the end of what is
there: bytes that come during its loop make it read further, or come as the next
edge.  Edge-triggered epoll is `armed`: set by an arrival the mask asks for, by
a change of the client's side, and by `EPOLL_CTL_ADD` and `MOD` when the socket
is ready; cleared when reported.  After `CloseConn` the connector is deleted;
`pc = "freed"` is the state in which the code goes on with it.  The loop around
it is `EventLoop`, whose runs show that an event reaches the task it is for;
here `WaitEvent` and the callbacks stand for its rounds.  A command whose header
lies about its length is one of a length `Parse` refuses (`TooLong`).

**Buffer.** The array, its length and the two positions; the content of the array
is kept, so that a byte moved to the wrong place is seen.  What its owner does
in two steps (make room, then advance the tail over what was read) is two steps
here.  `Contents` is the queue it stands for.

**TServer.** `at` is how far `main` and `TServer::Init` have come, one step for
each call that may fail; from `at = "run"` on `phase` says where the round of the
loop stands.  A descriptor is a number, given out lowest first as by the kernel,
so a number closed in a batch comes back in the same batch.  `ready` are the
edges epoll has not reported, `backlog` the clients waiting in the listening
socket.  `conn_map` and `timer_map` are the maps of the source; `armed` are the
ticks each started timer has to go, and `lag` the whole seconds of the wall clock
since a connector's `last_act_time_`, which is what `IsTimeOut` looks at.  `AcceptClient` makes a
connection as `CreateConn` and `CreateTimerTask` do; `SetIOTask` of the loop may
refuse its task, because `epoll_ctl` failed, and `BeginRecv` does not look at
that: the connection stays, with its timer and without a task.  Its field
`heard` is a history of which it was; no action looks at it.  The
histories `lost` and `stranded` say which descriptors nobody will close any more
and that clients wait without an edge; they are what the code does wrong when
calls fail, and the invariants say that nothing else is wrong.  `OnAccept` is one
step per turn of its loop, as clients come while it runs.

**MemCheck.** The list operations are taken one assignment of a pointer at a
time, in the order of the source (which the build is taken to keep), because
`TermSigHandler` may run between any two of them.  A stack of handlers says which
signal interrupted which; while one runs, what it interrupted stands still.  A
node freed is no longer one the handler may touch.  As an `AllocLog` the list is
what one finds by following `next` from `head_`.

**Config.** A file is a sequence of characters, each a letter, a digit, or one
that means something to the code.  `ReadLine` is one `fgets` with what is made of
it: trimming, dropping comments, splitting at blanks, and the entry of `dict`.
The queries are operators.  The reference `SettingsAreRead` compares with
(`Meaning`) is written from what a line of a file is, by positions in the file
and not by the loops of the code: a line begins after the end of another
(`LineStart`), its pieces at multiples of `MAX_LINE_SIZE` from there
(`PieceStarts`), a word at a character that follows a blank (`WordsOf`).

## What the runs check

| Run | Asks | Bounds | Result |
|-----|------|--------|--------|
| `wheel` | `TypeOK`, `PlacementInv`, `SizeCoversTimers`, `ImplementsTimerQueue`, `EventuallyHandedOut` | two timers, one put in from beyond the range; root wheel of 1 slot, others of 2, a range of 16 ticks; clock up to 17, set back while it is at most 4 | holds |
| `mng` | `MapLeadsToLiveTimers`, `RegisteredIsOnWheel`, `ImplementsTimerService` | two timers, three starts, one interval that cascades | holds |
| `loop_mixed` | `NoDanglingPointer`, `ReturnsOnlyWhenDone`, `RegisteredIsPolled`, `EventReachesItsTask` | an overdue timer, an idle task listed up to twice, three IO tasks on two descriptors, two of them on one number; the clock set back | holds |
| `loop_live` | `ImplementsTimerRounds`, `StopEndsRun`, `RegisteredTimerFires`, `ReturnsWhenExhausted` | a repeating and a one-shot timer, two starts, a root wheel no timer leaves | holds |
| `loop_drift` | `ReturnsWhenExhausted` | one timer that cascades | violated |
| `loop_stopped` | `StoppedTimerDoesNotRun` | two timers due in one tick | violated |
| `conn_echo` | `EchoesInOrder`, `EveryCommandAnswered` | four commands of 2 to 4 bytes, one at a time; recv_buf_ and send_buf_ of 4, kernel buffers of 3 and 2 | holds |
| `conn_leave` | `TypeOK`, `BytesConserved`, `PendingIsWatched`, `RepliesFit`, `RoomForTheRest`, `FreedOnlyByReset`, `LeavingPeerIsClosed` | four commands sent ahead, the last too long; recv_buf_ and send_buf_ of 5, kernel buffers of 4 and 2; the client may shut or reset at any step | holds |
| `conn_order` | `EchoesInOrder` | four commands, three sent ahead | violated |
| `conn_stall` | `EveryCommandAnswered` | four commands of 1, 1, 2 and 1 bytes sent ahead; recv_buf_, send_buf_ and the kernel buffers of 2 | violated |
| `server` | `ServerTypeOK`, `ConnsAreComplete`, `DescriptorsHaveOwners`, `NoClientOverlooked`, `KeepsLoopRules`, `BusyIsKept`, `QuietIsClosed`, `SignalEndsServer` | four descriptors, two clients, two ticks to a second, a timeout of one second; calls may fail (`accept`, `fcntl`, `setsockopt`, `epoll_ctl`), the clock is set back once, a signal at any step | holds |
| `parts` | `PartsTypeOK`, `WalkStaysOnList`, `KeepsLog`, `ReportIsWhole`, `HandlersEnd`; `KeepsQueue`; `SettingsAreRead` | three addresses, three nodes and two signals; buffers of up to 3 bytes of two values; files of up to two lines of every shape, some longer than `MAX_LINE_SIZE` = 7 | holds |

The wheels of the source have 256 and 64 slots.  Nothing in the code depends on
these numbers beyond both being powers of two; with 2 slots every boundary
(exactly one round away, one less, the last slot, the turn of each wheel) comes
within a handful of ticks, and a timer started at time 0 for tick 8 or later
passes three wheels.  With a root wheel of one slot the whole range is 16
ticks, so a clock of 17 passes the largest distance and the clipping in
`GetTimerListVec`.  What depends on the sizes is proved for all of them (below).
Two timers are enough for a batch in which one callback acts on another, and
three starts for a timer that is started, restarted and started again while its
two old nodes are still on the wheel.

A connection's buffers have a megabyte, and so has the longest command; the runs
keep the one fact about these numbers that matters, that a command may be as
long as the buffer, and make the kernel's buffers smaller than a command, so
that every command may be cut and every reply needs several writes.  The proofs
are for all sizes.

Four descriptors are what the server needs for its configuration file, two epoll
sets (when it does not become a daemon) and the listening socket, so that
`accept` runs out of them; as a daemon it starts with two free ones, which is
enough for both clients at once, or for one whose number the other gets in the
same batch.  Two signals are what one handler interrupting another takes, and
three nodes are a list with a first, a middle and a last node.

### What does not hold

* `loop_drift`: `Cascade` puts its timers in again with `InnerAddTimer`, which
  counts them a second time, and nothing takes them off.  `Run` decides by that
  count whether tasks are left; once a timer has cascaded (any timer of
  25.6 seconds or more) it does not return any more.
* `loop_stopped`: a timer stopped by a callback of the same round still runs,
  because the loop goes through a vector collected before.  IO tasks are looked
  up again before each call and do not have this (`EventReachesItsTask`).
* `conn_order`: `Send` writes to the socket without looking whether the end of
  the reply before still waits in `send_buf_`.  When the socket drains between
  two commands that came together, the second reply overtakes it.  A client that
  waits for each reply never sees this (`conn_echo`), and no byte is lost or
  doubled (`conn_leave`): they are out of order.
* `conn_stall`: `InnerRead` stops when `recv_buf_` is full, and epoll is
  edge-triggered: what is left in the socket is not reported again.  In the run
  three of four commands are answered and the last one never: `recv_buf_` holds
  the first byte of the third, its second byte and the fourth command arrive
  together, and there is room for the one only.  A client that waits for each
  reply never sees this either (`conn_echo`).

More was met while modelling that no run is spent on, because nothing in the
repository says otherwise; where it is about a modelled part, a property says
that it happens in this case and in no other.

* A failed `Send` has the connector deleted by `OnWriteErr` before it returns to
  `Do`, which goes on with it (`FreedOnlyByReset`: only after a reset).
* `OnAccept` loses the descriptor when `MakeNonblock` or `SetCliOpt` fails; the
  second `Init` of the epoll set loses the first one's, and the configuration file
  is not closed (`DescriptorsHaveOwners`: only these).
* `BeginRecv` does not look at whether its task could be started.  When `epoll_ctl`
  refuses it, the client has a connection that nobody listens to
  (`ConnsAreComplete`: only then has a connection no task), until its idle timer
  closes it (`QuietIsClosed`).
* When `OnAccept` gives up on an error, the clients behind it wait until another
  one comes (`NoClientOverlooked`: only then).
* A signal that comes before `EventLoop::Init` is lost (`SignalEndsServer`: only
  that one).
* A connection that is busy sending a long reply counts as idle, and a wall clock
  set back makes one that is busy look idle (`BusyIsKept`).  `BusyIsKept` counts
  in ticks of the wheel, which takes a clock set forward for time that has passed:
  a connection closed because of such a jump is one it allows.
* `GetNext` keeps its position in one static variable, which a second handler
  moves under the first (`ReportIsWhole`: a report nobody interrupted is whole).
* A line longer than `MAX_LINE_SIZE` is read as several (`SettingsAreRead`: and
  as exactly these).
* The constructor leaves `stop_` set, which only `Init` clears:
  `src/test/timer.cpp` does not call it, and its timer never fires.
* `server.config.example` has a setting "deamon"; `server_config.cpp:14` asks for
  "daemon".

## Fairness

`FairSpec` of the wheel: the steps of a `GetTimer` call and the next call are
weakly fair, because `Run` calls `GetTimer` in each round, `epoll_wait` blocks
for at most `kMaxBlockTime`, and `TimerRun` is a loop that does not block; the
wall clock is weakly fair, and `EventuallyHandedOut` presumes that it is not set
back for ever, which would keep a timer waiting for ever.  `FairLoopSpec`: the loop's own steps,
the return of a callback, and time.  Nothing is assumed of what callbacks do,
of events, or of `Stop`.  `FairSpec` of the connection: its own steps, because
the loop polls in each round and no callback blocks, and the client's reading,
because a client that never reads leaves its connection waiting to write, as it
should; nothing makes the client send, finish a command, or leave.
`FairServerSpec`: the steps of `main`, the steps of the loop, and time; a signal,
a client and a clock set back need not come.  `PartsSpec`: a signal handler that
runs goes on, as nothing but another handler interrupts it.

## What is proved

All proof modules are checked by TLAPS, for every value of the constants that the
named assumptions allow.  `WheelAssumption` and `TimerMngAssumption` allow every
size of the wheels (`NFTVR_SIZE` at least 1, `NFTVN_SIZE` at least 2), every
precision, every number of timers and every interval.

The wheel:

* `TypeCorrect`, `Placement`: `TypeOK /\ PlacementInv` is inductive.
  `PlacementInv` is what makes the cascade right: a node in outer wheel *n* sits
  in the slot of some multiple *k* of the slot's width that the clock has not
  passed, that is less than a round of the wheel away and not after the timer's
  own tick; a node in the root wheel is in the slot of its own tick, or of the
  next one if overdue.  While `TimerRun` is in the middle of a tick it also says
  which wheels have been emptied (`Cascaded`).  The proof rests on a few facts
  of arithmetic (`DivisionWithRemainder`, `NoSecondVisit`: two multiples less
  than a round apart have different slots; `RoundStart`: when a wheel turns),
  on `InsertPlaces` (where `GetTimerListVec` puts a timer) and on `CascadeSlots`
  (a cascade never puts a timer back into the slot it empties).
* `SizeCovers`: `base_.size` is at least the number of nodes, so the unsigned
  subtraction in `TimerRun` cannot wrap.
* `Implementation`: every step of the wheel is a step of `TimerQueue` or none.
  The step that counts is `SpliceRemovesDue`: what is handed out is exactly what
  is due.

The timer manager:

* `MngTypeCorrect`, `MapIsSound`, `FreshIds`, `NoTimerForgotten`: the invariant
  `MngInv` of the manager.  `IdsAreFresh`, which no run
  checks on its own, is what the others need: an id drawn is carried by nothing
  else.
* `MngUsesWheel`, `WheelInsideMng`: a behaviour of the manager is one of the
  wheel on its own, so the theorems about the wheel hold inside it.
* `MngIsTheService`: with ids, map and wheel hidden, the manager is the service
  its owners see.  `ServiceInv` adds to `MngInv` that no id is on the wheel and
  handed out at once (`HandedOutOnce`) and that no two timers carry one id
  (`OneIdEach`).  The steps that count are `ModTimerArms`, `EraseDisarms` and
  `SpliceIsTick`; `CollectIsQuiet` says that taking fired timers out of the map
  disarms nobody, because their nodes are gone already.

The loop, for any number of tasks of each kind (`EventLoopAssumption`):

* `LoopTypeCorrect`, `PointersLead`, `RegistryIsPolled`, `ReturnsWhenDone`: the
  invariant `LoopInv` has a part for the timers, one for descriptors, one for
  idle tasks and one for where `Run` stands.  That `Run` does not return too early
  rests on the count of the wheel covering its nodes, and on every registered
  timer having one.
* `EventsReachTheirTasks`: what epoll reported stays true of a number as long as
  its event waits, because the program starts no other task on it.
* `WheelInsideLoop`: each step of the loop is one the wheel allows its owner.
* `LoopIsRounds`: the loop is `TimerRounds`.  The manager's part of it is that of
  `MngIsTheService`, whose invariant the loop's own use of the manager keeps as
  well (`RoundsInv`); taking a collected timer out is `DispatchCalls`, which needs
  that a timer in the map is one that is armed (`RegisteredIsArmed`), because the
  code asks the map and not the wheel whether to put it back.

A connection:

* `ConnTypeCorrect`, `SendBufNeverFull`, `WaitsForTheRightEvent`,
  `AlwaysRoomToRead`: for all commands and all sizes of buffers
  (`ConnectorAssumption`: a command may be as long as the buffer, no longer).
  The inductive invariant `ConnInv` adds to them where in the client's stream
  the receive buffer starts (`InStream`: at the first byte of a command, with
  nothing missing after it), without which what `Parse` makes of it could not be
  known, and what holds inside the callbacks (`MaskAgrees`, `RoomKept`).  That
  `send_buf_` always has room rests on the connection not reading while it has
  bytes to send: what `Do` answers in one round is at most one `recv_buf_`.
* `FreedAfterResetOnly`: only a reset peer gets a connector deleted inside `Send`.
* `NoByteLost`: what the client has got, what is in the socket's buffers, in
  `recv_buf_` and in `send_buf_` are, taken together, as many bytes as it has sent
  and all of them.  That both hold makes each byte come back once.
* `OneAtATimeInOrder`: they come back in the order they were sent, if the client
  waits for each reply (`Window = 1`); `conn_order` shows that it is needed.
  `OrderKept` is about the sequence of all bytes under way: with one command at a
  time it is a stretch of the numbers, because a reply is written straight to the
  socket only when nothing of the one before is left (`AnsweredAreFirst`,
  `SendsOneAtATime`).
* `BufTypeHolds`, `BufferIsAQueue` (in `PartsProofs`; `BufferAssumption`): the
  positions stay within the array for every size, and every operation does to
  the bytes in use what `ByteQueue` says; moving them left keeps them.

The server (`ServerAssumption`: any number of descriptors, any timeout):

* `ServerTypeOKHolds`, `ConnsAreCompleteHolds`, `DescriptorsHaveOwnersHolds`,
  `NoClientOverlookedHolds`, `KeepsLoopRulesHolds`, `BusyIsKeptHolds`: the invariant
  `ServerInv`.  What carries it is that a descriptor handed out is one nobody has
  (`NewFd`, the least free number), that a cid is drawn once, and that every way
  of closing a connection takes all of its parts.  `ConnsAreComplete` is proved
  with refusals: a connection without a task is one whose task `SetIOTask`
  refused, and where no call fails each has its task.  That its number is in
  nobody's `file_tasks` needs again that the number was free.

The memory checker, for any number of nodes, addresses and signals
(`MemCheckAssumption`):

* The invariant is `MemInv`.  The type alone says nothing of where pointers
  lead; `ListInv` says that `next` runs through a sequence of different nodes and
  back to `head_` (`ChainIsList`), what each `prev` is while a node is half
  linked (`PrevFollows`: after each of the assignments of `ListAdd` and `ListDel`
  another set of pointers agrees), that what is allocated is what is on the list
  and the one node on its way (`NodesAreKnown`), and what `size_` lags behind
  (`SizeFollows`).  `WalkInv` says how far a handler has come along that sequence
  and that it has printed what it came by (`ReportFollowsWalk`); a handler that
  is interrupted is marked as disturbed or has not begun to walk.
* `WalkStaysOnListHolds`: between any two assignments a walk stays on live nodes
  and ends.  `ReportIsWholeHolds`: a report no other signal disturbs is whole.
  `MemTypeCorrect`: `size_` does not wrap below zero.  `SizeIsNodes`: between two
  operations it counts the list, and nothing is allocated but the list.
* `LogIsKept`: of all the assignments only one of `ListAdd` (`head_`'s `next`)
  and one of `ListDel` are steps of `AllocLog`; the others are steps of none
  (`ListStays`).  `Delete` takes the newest node with the address
  (`NewestGoesFirst`).
* The list is a function along `next`, `Follow`, defined by recursion.  No
  induction theorem is needed for it: a least index at which two walks part
  (`LeastIndex`) stands in for the induction (`FollowIs`, `ChainIs`).

The configuration, for any file, any `MAX_LINE_SIZE` of at least 1 and any names
(`ConfigAssumption`):

* `SettingsAreReadHolds`: what the server gets for a name is what `Meaning` says
  of the file.  `ConfInv` adds to the type that the code reads on at the
  beginning of a piece (`ReadsByPieces`), that `dict_` holds for each first word
  the first piece read so far that begins with it and nothing else
  (`FirstLineKept`), and that the whole of a file that could be opened has been
  read in the end (`AllIsRead`).
* Four facts carry it.  `SplitIs`: the loop of `StrSplit` returns `WordsOf`.
  `TrimWords`: trimming, and the end of the line with it, takes no word away and
  begins none.  `FgetsIs` and `NextPiece`: `fgets` returns the piece that begins
  where it reads on, and reads up to the beginning of the next.  `InsertKeeps`:
  `dict_` after a line is what the file says up to there.
* `StrSplit` is recursive; as with the list, the last place at which the loop
  could differ from `WordsOf` stands in for an induction.  `Atoi` is never
  opened: the proofs say that it is given the right word, not which number it
  makes of it.
* `ConfTypeCorrect`: `dict_` keeps each line under its own first word.

The parts together: `PartsTypeCorrect` and `PartsKeep` say of the run `parts`
what these theorems say of each part alone; a part that was not chosen stands
in a state its invariant allows.

Only model-checked: liveness (`EventuallyHandedOut`, `StopEndsRun`,
`RegisteredTimerFires`, `ReturnsWhenExhausted`, `EveryCommandAnswered`,
`LeavingPeerIsClosed`, `QuietIsClosed`, `SignalEndsServer`, `HandlersEnd`), for
which the prover has no rules.  Every other property of a passing run is a
theorem.  Not proved either: that the fold in `Atoi` computes a number's value,
which would need an induction over data.

## Not modelled

* `EventLoop::Sleep`: nothing calls it, and called from a callback it pops an
  empty deque, after which nothing can be said.  `Epoll::Resize`, `Search` of the
  memory checker, `CheckMask` of the server, `Recv` and `MakeFdBlockIs` of the
  connector have no caller either, and `GetULL` and `GetULLArray` of the
  configuration only that of `test/cfg_test.cpp`; `Epoll::Deinit` runs when the
  program is over.
* The timer heap, `nf_event_timer_heap.h`: it is built only without
  `NF_TIMER_WHEEL`, which all build files define, and then includes a header the
  repository does not have.
* `test_server` (unfinished) and `test_server_normal` (an older echo server of the
  same structure, whose connector and maps are those of `echo_svr`).
* The test programs and clients; logging; error texts; singletons and the order
  in which static objects are initialised.
* `SIGPIPE`, which a write to a connection that was shut and then reset raises
  and nothing ignores: it ends the program, and there is nothing to model beyond
  that.
* What `malloc` and `cout` do when a signal handler calls them inside themselves:
  it is undefined, and no part of this code could bring order into it.
* The width of `unsigned long` in the wheel and of `int` in configured numbers:
  ticks of 100 ms do not come near 2^63, and a number that does not fit is no
  setting any part of the code checks for.
