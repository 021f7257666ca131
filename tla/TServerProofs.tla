--------------------------- MODULE TServerProofs ----------------------------
(***************************************************************************)
(* What holds of the server for every number of clients and descriptors    *)
(* and every timeout.  All of it rests on one inductive invariant, which   *)
(* adds to the invariants the runs check what the kernel and the loop keep *)
(* between the steps: no event waits for a closed descriptor, a batch of   *)
(* timers is over before one of events begins, cids are not used twice.    *)
(***************************************************************************)
EXTENDS TServer, WellFoundedInduction, TLAPS

(* Init has not come as far as the listening socket. *)
Starting == at \in {"option", "config", "daemon", "loop", "listen"}
Listening == at \in {"tick", "ready", "run"}

CidsAreFresh ==
  /\ DOMAIN conn_map \subseteq 1 .. id_cnt - 1
  /\ id_cnt - 1 + backlog <= arrived

TimersAreKnown == DOMAIN armed \subseteq timer_map \cup {TickTimer}

BatchesAreSeparate ==
  /\ phase # "dispatch" => due = {}
  /\ phase \in {"timers", "dispatch"} => fires = {}

OnlyOpenFds ==
  /\ fires \subseteq open /\ ready \subseteq open
  /\ DOMAIN file_tasks \subseteq open

(* The start: nothing but the loop's own descriptor, and the listening     *)
(* socket registered as soon as there is one.                              *)
StartIsOrderly ==
  /\ Starting => /\ listen_fd = 0 /\ open \ lost \subseteq {epfd}
                 /\ DOMAIN conn_map = {}
  /\ at = "listen" => epfd \in open \ lost
  /\ listen_fd = 0 => /\ ~ Listening /\ DOMAIN file_tasks = {}
                      /\ backlog = 0 /\ ready = {} /\ phase # "accept"
  /\ listen_fd # 0 => /\ listen_fd \in DOMAIN file_tasks
                      /\ file_tasks[listen_fd] = AcceptTask
  /\ at # "run" /\ at # "exit" => phase = "timers"

(* How far the seconds of the wall clock run ahead of the ticks. *)
LagFollowsQuiet ==
  \A c \in DOMAIN conn_map :
    /\ \/ conn_map[c].quiet = Limit * Second
       \/ conn_map[c].quiet + Second > conn_map[c].lag * Second + sub_second
    /\ conn_map[c].lag >= 0 \/ set_back

ServerInv ==
  /\ ServerTypeOK
  /\ ConnsAreComplete
  /\ DescriptorsHaveOwners
  /\ NoClientOverlooked
  /\ KeepsLoopRules
  /\ CidsAreFresh /\ TimersAreKnown
  /\ BatchesAreSeparate /\ OnlyOpenFds /\ StartIsOrderly
  /\ LagFollowsQuiet

(* What UNCHANGED speaks of is always opened, and what one line says. *)
USE DEF main, rounds, conns, fds, net, time, CreateConn, CreateTimerTask

-----------------------------------------------------------------------------
(* Lemmas about the operators *)

(* A set of numbers has a least one. *)
LEMMA LeastNat ==
  ASSUME NEW S \in SUBSET Nat, S # {}
  PROVE  \E x \in S : \A y \in S : x <= y
  <1> DEFINE Less == {ss \in Nat \X Nat : ss[1] < ss[2]}
  <1>1. IsWellFoundedOn(Less, Nat)
    BY NatLessThanWellFounded DEF OpToRel
  <1>2. \A x, y \in Nat : x < y => <<x, y>> \in Less
    OBVIOUS
  <1>3. PICK x \in S : \A y \in S : ~ (<<y, x>> \in Less)
    <2> HIDE DEF Less
    <2> QED BY <1>1, WFMin
  <1>4. \A y \in S : ~ (y < x)
    <2> HIDE DEF Less
    <2> QED BY <1>2, <1>3
  <1> QED BY <1>3, <1>4

(* A new descriptor is one that was free. *)
LEMMA NewFdIsFree ==
  ASSUME FreeFd # {}
  PROVE  NewFd \in Fd /\ NewFd \notin open /\ NewFd # 0
  <1>1. Fd \subseteq Nat \ {0}
    BY ServerAssumption DEF Fd
  <1>2. FreeFd \in SUBSET Nat
    BY <1>1 DEF FreeFd
  <1>3. \E fd \in FreeFd : \A f \in FreeFd : fd <= f
    BY <1>2, LeastNat
  <1>4. NewFd \in FreeFd
    BY <1>3 DEF NewFd
  <1> QED BY <1>1, <1>4 DEF FreeFd

(* The limit is a number of seconds. *)
LEMMA LimitType == Limit \in Nat /\ Limit * Second \in Nat
  BY ServerAssumption DEF Limit

(* A connector starts with no time behind it. *)
LEMMA NewConnectorType ==
  ASSUME NEW fd \in Fd, NEW heard \in BOOLEAN
  PROVE  /\ NewConnector(fd, heard) \in Connector
         /\ NewConnector(fd, heard).fd = fd /\ NewConnector(fd, heard).lag = 0
         /\ NewConnector(fd, heard).quiet = 0
         /\ NewConnector(fd, heard).heard = heard
  BY LimitType DEF NewConnector, Connector

-----------------------------------------------------------------------------
(* Time *)

(* What a tick makes of a connector. *)
LEMMA OlderType ==
  ASSUME NEW conn \in Connector, NEW seconds \in {0, 1}
  PROVE  /\ Older(conn, seconds) \in Connector
         /\ Older(conn, seconds).fd = conn.fd
         /\ Older(conn, seconds).heard = conn.heard
         /\ Older(conn, seconds).lag \in {conn.lag, conn.lag + seconds}
         /\ Older(conn, seconds).quiet = IF conn.quiet = Limit * Second THEN conn.quiet ELSE conn.quiet + 1
  <1> DEFINE L == IF conn.lag + seconds > Limit + 1 THEN conn.lag ELSE conn.lag + seconds
             Q == IF conn.quiet = Limit * Second THEN conn.quiet ELSE conn.quiet + 1
  <1>1. Older(conn, seconds) = [conn EXCEPT !.lag = L, !.quiet = Q]
    BY DEF Older
  <1>2. conn.lag \in -1 .. Limit + 1 /\ conn.quiet \in 0 .. Limit * Second /\ conn.fd \in Fd
    BY DEF Connector
  <1>3. L \in -1 .. Limit + 1 /\ L \in {conn.lag, conn.lag + seconds}
    BY <1>2, LimitType
  <1>4. Q \in 0 .. Limit * Second
    BY <1>2, LimitType
  <1> HIDE DEF L, Q
  <1>5. /\ Older(conn, seconds) \in Connector /\ Older(conn, seconds).fd = conn.fd
        /\ Older(conn, seconds).heard = conn.heard
        /\ Older(conn, seconds).lag = L /\ Older(conn, seconds).quiet = Q
    BY <1>1, <1>3, <1>4 DEF Connector
  <1> QED BY <1>3, <1>5 DEF Q

(* A step that changes only how far timers and clocks have come. *)
LEMMA TimeKeepsOwners ==
  ASSUME ServerInv,
         DOMAIN conn_map' = DOMAIN conn_map, DOMAIN armed' = DOMAIN armed,
         \A c \in DOMAIN conn_map :
           conn_map'[c].fd = conn_map[c].fd /\ conn_map'[c].heard = conn_map[c].heard,
         UNCHANGED <<main, rounds, timer_map, id_cnt, fds, net>>
  PROVE  (/\ ConnsAreComplete /\ DescriptorsHaveOwners /\ NoClientOverlooked
          /\ KeepsLoopRules /\ CidsAreFresh /\ TimersAreKnown
          /\ BatchesAreSeparate /\ OnlyOpenFds /\ StartIsOrderly)'
  <1>1. {conn_map'[c].fd : c \in DOMAIN conn_map'} = {conn_map[c].fd : c \in DOMAIN conn_map}
    OBVIOUS
  <1> USE DEF ServerInv
  <1>2. (ConnsAreComplete /\ CidsAreFresh /\ TimersAreKnown)'
    BY DEF ServerTypeOK, ConnsAreComplete, CidsAreFresh, TimersAreKnown
  <1>3. DescriptorsHaveOwners'
    BY <1>1 DEF DescriptorsHaveOwners
  <1>4. (NoClientOverlooked /\ KeepsLoopRules /\ BatchesAreSeparate /\ OnlyOpenFds)'
    BY DEF NoClientOverlooked, KeepsLoopRules, BatchesAreSeparate, OnlyOpenFds
  <1>5. StartIsOrderly'
    BY DEF StartIsOrderly, Starting, Listening
  <1> QED BY <1>2, <1>3, <1>4, <1>5

(* The arithmetic of one tick. *)
LEMMA Ahead ==
  ASSUME NEW q \in Int, NEW a \in Int, NEW b \in Int, NEW k \in Int,
         NEW l \in Int, NEW m \in Int, NEW n \in Int,
         q + n > l + a, m <= l + k, k + b = a + 1
  PROVE  q + 1 + n > m + b
  OBVIOUS

(* The clock's seconds get no further ahead of the ticks. *)
LEMMA TimePassesInv == ServerInv /\ TimePasses => ServerInv'
  <1> SUFFICES ASSUME ServerInv, TimePasses PROVE ServerInv'
    OBVIOUS
  <1> DEFINE seconds == IF sub_second = Second - 1 THEN 1 ELSE 0
  <1>1. PICK s \in {0, 1} :
          /\ s = IF sub_second = Second - 1 THEN 1 ELSE 0
          /\ conn_map' = [c \in DOMAIN conn_map |-> Older(conn_map[c], s)]
    BY DEF TimePasses
  <1>2. \A c \in DOMAIN conn_map : 
          conn_map[c] \in Connector
    BY DEF ServerInv, ServerTypeOK
  <1>3. \A c \in DOMAIN conn_map :
          /\ conn_map'[c] \in Connector /\ conn_map'[c].fd = conn_map[c].fd
          /\ conn_map'[c].heard = conn_map[c].heard
          /\ conn_map'[c].lag \in {conn_map[c].lag, conn_map[c].lag + s}
          /\ conn_map'[c].quiet = IF conn_map[c].quiet = Limit * Second
                                  THEN conn_map[c].quiet ELSE conn_map[c].quiet + 1
    BY <1>1, <1>2, OlderType
  <1>4. DOMAIN conn_map' = DOMAIN conn_map /\ DOMAIN armed' = DOMAIN armed
    BY <1>1 DEF TimePasses
  <1>5. sub_second \in 0 .. Second - 1 /\ Second \in Nat \ {0}
    BY ServerAssumption DEF ServerInv, ServerTypeOK
  <1>6. /\ sub_second' \in 0 .. Second - 1 
        /\ s * Second + sub_second' = sub_second + 1
    <2>1. CASE sub_second = Second - 1
      <3>1. sub_second' = 0
        BY <2>1, <1>5 DEF TimePasses
      <3> QED BY <3>1, <2>1, <1>1, <1>5
    <2>2. CASE sub_second # Second - 1
      <3>1. sub_second' = sub_second + 1
        BY <2>2, <1>5 DEF TimePasses
      <3> QED BY <3>1, <2>2, <1>1, <1>5
    <2> QED BY <2>1, <2>2
  <1>7. ServerTypeOK'
    <2>1. \A t \in DOMAIN armed' : armed'[t] \in Nat
      BY DEF ServerInv, ServerTypeOK, TimePasses
    <2> QED BY <2>1, <1>3, <1>4, <1>6 DEF ServerInv, ServerTypeOK, TimePasses
  <1>8. LagFollowsQuiet'
    <2> SUFFICES ASSUME NEW c \in DOMAIN conn_map
                 PROVE  /\ \/ conn_map'[c].quiet = Limit * Second
                           \/ conn_map'[c].quiet + Second > conn_map'[c].lag * Second + sub_second'
                        /\ conn_map'[c].lag >= 0 \/ set_back'
      BY <1>4 DEF LagFollowsQuiet
    <2> DEFINE lag == conn_map[c].lag  quiet == conn_map[c].quiet
               lag2 == conn_map'[c].lag  quiet2 == conn_map'[c].quiet
    <2>1. lag \in Int /\ quiet \in Int /\ lag2 \in Int /\ quiet2 \in Int /\ Limit * Second \in Int
      BY <1>2, <1>3, LimitType DEF Connector
    <2>2. lag2 \in {lag, lag + s} /\ quiet2 = IF quiet = Limit * Second THEN quiet ELSE quiet + 1
      BY <1>3
    <2>3. quiet = Limit * Second \/ quiet + Second > lag * Second + sub_second
      BY DEF ServerInv, LagFollowsQuiet
    <2>4. lag >= 0 \/ set_back
      BY DEF ServerInv, LagFollowsQuiet
    <2>5. set_back' = set_back
      BY DEF TimePasses
    <2> HIDE DEF lag, quiet, lag2, quiet2
    <2>6. lag2 * Second <= lag * Second + s * Second
      BY <2>1, <2>2, <1>5, <1>1
    <2>7. quiet2 = Limit * Second \/ quiet2 + Second > lag2 * Second + sub_second'
      <3> DEFINE l == lag * Second  m == lag2 * Second  k == s * Second
      <3>1. l \in Int /\ m \in Int /\ k \in Int /\ sub_second' \in Int /\ sub_second \in Int
        BY <2>1, <1>1, <1>5, <1>6
      <3>2. m <= l + k /\ k + sub_second' = sub_second + 1
        BY <2>6, <1>6
      <3>3. quiet = Limit * Second \/ quiet + Second > l + sub_second
        BY <2>3
      <3>4. Second \in Int /\ quiet \in Int
        BY <1>5, <2>1
      <3> HIDE DEF l, m, k
      <3>5. CASE quiet2 = quiet + 1 /\ quiet + Second > l + sub_second
        <4>1. quiet + 1 + Second > m + sub_second'
          BY <3>1, <3>2, <3>4, <3>5, Ahead
        <4> QED BY <4>1, <3>5 DEF m
      <3> QED BY <3>3, <3>5, <2>2
    <2>8. lag2 >= 0 \/ set_back'
      BY <2>1, <2>2, <2>4, <2>5, <1>1
    <2> QED BY <2>7, <2>8 DEF lag2, quiet2
  <1>9. UNCHANGED <<main, rounds, timer_map, id_cnt, fds, net>>
    BY DEF TimePasses
  <1> QED BY <1>3, <1>4, <1>7, <1>8, <1>9, TimeKeepsOwners DEF ServerInv

(* A clock set back leaves the owners alone. *)
LEMMA ClockSetBackInv == ServerInv /\ ClockSetBack => ServerInv'
  <1> SUFFICES ASSUME ServerInv, ClockSetBack PROVE ServerInv'
    OBVIOUS
  <1>1. \A c \in DOMAIN conn_map :
          /\ conn_map[c] \in Connector /\ conn_map[c].lag >= 0
          /\ \/ conn_map[c].quiet = Limit * Second
             \/ conn_map[c].quiet + Second > conn_map[c].lag * Second + sub_second
    BY DEF ServerInv, ServerTypeOK, LagFollowsQuiet, ClockSetBack
  <1>2. DOMAIN conn_map' = DOMAIN conn_map /\ DOMAIN armed' = DOMAIN armed
    BY DEF ClockSetBack
  <1>3. \A c \in DOMAIN conn_map :
          /\ conn_map'[c] \in Connector /\ conn_map'[c].fd = conn_map[c].fd
          /\ conn_map'[c].heard = conn_map[c].heard
          /\ conn_map'[c].lag = conn_map[c].lag - 1
          /\ conn_map'[c].quiet = conn_map[c].quiet
    BY <1>1, LimitType DEF ClockSetBack, Connector
  <1>4. ServerTypeOK'
    <2>1. \A t \in DOMAIN armed' : armed'[t] \in Nat
      BY ServerAssumption DEF ServerInv, ServerTypeOK, ClockSetBack
    <2> QED BY <2>1, <1>2, <1>3 DEF ServerInv, ServerTypeOK, ClockSetBack
  <1>5. LagFollowsQuiet'
    <2> SUFFICES ASSUME NEW c \in DOMAIN conn_map
                 PROVE  \/ conn_map'[c].quiet = Limit * Second
                        \/ conn_map'[c].quiet + Second > conn_map'[c].lag * Second + sub_second'
      BY <1>2 DEF LagFollowsQuiet, ClockSetBack
    <2> DEFINE lag == conn_map[c].lag  quiet == conn_map[c].quiet
    <2>1. lag \in Int /\ quiet \in Int /\ sub_second \in Int /\ Second \in Nat /\ sub_second' = sub_second
      BY <1>1, ServerAssumption
         DEF Connector, ServerInv, ServerTypeOK, ClockSetBack
    <2>2. conn_map'[c].lag = lag - 1 /\ conn_map'[c].quiet = quiet
      BY <1>3
    <2>3. quiet = Limit * Second \/ quiet + Second > lag * Second + sub_second
      BY <1>1
    <2> HIDE DEF lag, quiet
    <2>4. (lag - 1) * Second <= lag * Second
      BY <2>1
    <2>5. (lag - 1) * Second \in Int /\ lag * Second \in Int
      BY <2>1
    <2> QED BY <2>1, <2>2, <2>3, <2>4, <2>5
  <1>6. UNCHANGED <<main, rounds, timer_map, id_cnt, fds, net>>
    BY DEF ClockSetBack
  <1> QED BY <1>2, <1>3, <1>4, <1>5, <1>6, TimeKeepsOwners DEF ServerInv
-----------------------------------------------------------------------------
(* The start *)

(* The types at the start. *)
LEMMA InitServerTypeOK == ServerInit => ServerTypeOK
  <1> SUFFICES ASSUME ServerInit PROVE ServerTypeOK
    OBVIOUS
  <1> USE DEF ServerInit
  <1>1. 0 \in 0 .. Second - 1 /\ 1 \in Fd
    BY ServerAssumption DEF Fd
  <1>2. at \in {"option", "config", "daemon", "loop", "listen", "tick", "ready", "run", "exit"}
    OBVIOUS
  <1>3. phase \in {"timers", "dispatch", "poll", "accept"}
    OBVIOUS
  <1>4. DOMAIN polled = {} /\ DOMAIN conn_map = {} /\ DOMAIN armed = {} /\ DOMAIN file_tasks = {}
    OBVIOUS
  <1>5. lost \subseteq open /\ open \subseteq Fd /\ epfd \in Fd /\ listen_fd \in {0} \cup Fd
    BY <1>1
  <1>6. arrived \in 0 .. MaxClients /\ backlog \in 0 .. arrived /\ id_cnt \in Nat \ {0}
    BY ServerAssumption
  <1>7. stop \in BOOLEAN /\ stranded \in BOOLEAN /\ set_back \in BOOLEAN
    OBVIOUS
  <1> HIDE DEF ServerInit
  <1>8. ready = {} /\ due = {} /\ timer_map = {} /\ fires = {} /\ sub_second = 0
    BY DEF ServerInit
  <1> QED BY <1>1, <1>2, <1>3, <1>4, <1>5, <1>6, <1>7, <1>8 DEF ServerTypeOK

(* The invariant at the start. *)
LEMMA InitInv == ServerInit => ServerInv
  <1> SUFFICES ASSUME ServerInit PROVE ServerInv
    OBVIOUS
  <1> USE DEF ServerInit
  <1> QED
    BY InitServerTypeOK DEF ServerInv, ConnsAreComplete, DescriptorsHaveOwners,
       NoClientOverlooked, KeepsLoopRules, CidsAreFresh, TimersAreKnown,
       BatchesAreSeparate, OnlyOpenFds, StartIsOrderly, LagFollowsQuiet,
       Starting, Listening

(* main, step by step. *)
LEMMA MainInv == ServerInv /\ Main => ServerInv'
  <1> SUFFICES ASSUME ServerInv, Main PROVE ServerInv'
    OBVIOUS
  <1> USE DEF ServerInv
  <1>1. CASE GetOption
    <2>1. ServerTypeOK'
      BY <1>1 DEF ServerTypeOK, GetOption, Exit
    <2>2. (ConnsAreComplete /\ CidsAreFresh /\ TimersAreKnown)'
      BY <1>1
         DEF ConnsAreComplete, CidsAreFresh, TimersAreKnown, GetOption, Exit
    <2>3. (DescriptorsHaveOwners /\ OnlyOpenFds /\ StartIsOrderly)'
      BY <1>1
         DEF DescriptorsHaveOwners, OnlyOpenFds, StartIsOrderly, Starting,
             Listening, GetOption, Exit
    <2>4. (NoClientOverlooked /\ KeepsLoopRules /\ BatchesAreSeparate)'
      BY <1>1
         DEF NoClientOverlooked, KeepsLoopRules, BatchesAreSeparate, GetOption,
             Exit
    <2>5. LagFollowsQuiet'
      BY <1>1 DEF LagFollowsQuiet, GetOption, Exit
    <2> QED BY <2>1, <2>2, <2>3, <2>4, <2>5
  <1>2. CASE LoadConfig
    <2>1. ServerTypeOK'
      BY <1>2, NewFdIsFree DEF ServerTypeOK, LoadConfig, Exit
    <2>2. (ConnsAreComplete /\ CidsAreFresh /\ TimersAreKnown)'
      BY <1>2
         DEF ConnsAreComplete, CidsAreFresh, TimersAreKnown, LoadConfig, Exit
    <2>3. (DescriptorsHaveOwners /\ OnlyOpenFds /\ StartIsOrderly)'
      BY <1>2
         DEF DescriptorsHaveOwners, OnlyOpenFds, StartIsOrderly, Starting,
             Listening, LoadConfig, Exit
    <2>4. (NoClientOverlooked /\ KeepsLoopRules /\ BatchesAreSeparate)'
      BY <1>2
         DEF NoClientOverlooked, KeepsLoopRules, BatchesAreSeparate,
             LoadConfig, Exit
    <2>5. LagFollowsQuiet'
      BY <1>2 DEF LagFollowsQuiet, LoadConfig, Exit
    <2> QED BY <2>1, <2>2, <2>3, <2>4, <2>5
  <1>3. CASE Daemon
    <2>1. ServerTypeOK'
      BY <1>3 DEF ServerTypeOK, Daemon, Exit
    <2>2. (ConnsAreComplete /\ CidsAreFresh /\ TimersAreKnown)'
      BY <1>3 DEF ConnsAreComplete, CidsAreFresh, TimersAreKnown, Daemon, Exit
    <2>3. (DescriptorsHaveOwners /\ OnlyOpenFds /\ StartIsOrderly)'
      BY <1>3
         DEF DescriptorsHaveOwners, OnlyOpenFds, StartIsOrderly, Starting,
             Listening, BatchesAreSeparate, Daemon, Exit
    <2>4. (NoClientOverlooked /\ KeepsLoopRules /\ BatchesAreSeparate)'
      BY <1>3
         DEF NoClientOverlooked, KeepsLoopRules, BatchesAreSeparate, Daemon,
             Exit
    <2>5. LagFollowsQuiet'
      BY <1>3 DEF LagFollowsQuiet, Daemon, Exit
    <2> QED BY <2>1, <2>2, <2>3, <2>4, <2>5
  <1>4. CASE InitLoop
    <2>1. ServerTypeOK'
      BY <1>4, NewFdIsFree DEF ServerTypeOK, InitLoop, Exit
    <2>2. (ConnsAreComplete /\ CidsAreFresh /\ TimersAreKnown)'
      BY <1>4
         DEF ConnsAreComplete, CidsAreFresh, TimersAreKnown, InitLoop, Exit
    <2>3. (DescriptorsHaveOwners /\ OnlyOpenFds /\ StartIsOrderly)'
      BY <1>4, NewFdIsFree
         DEF DescriptorsHaveOwners, OnlyOpenFds, StartIsOrderly, Starting,
             Listening, ServerTypeOK, InitLoop, Exit
    <2>4. (NoClientOverlooked /\ KeepsLoopRules /\ BatchesAreSeparate)'
      BY <1>4
         DEF NoClientOverlooked, KeepsLoopRules, BatchesAreSeparate, InitLoop,
             Exit
    <2>5. LagFollowsQuiet'
      BY <1>4 DEF LagFollowsQuiet, InitLoop, Exit
    <2> QED BY <2>1, <2>2, <2>3, <2>4, <2>5
  <1>5. CASE StartListen
    <2>1. ServerTypeOK'
      BY <1>5, NewFdIsFree DEF ServerTypeOK, StartListen, Exit, With
    <2>2. (ConnsAreComplete /\ CidsAreFresh /\ TimersAreKnown)'
      BY <1>5
         DEF ConnsAreComplete, CidsAreFresh, TimersAreKnown, StartIsOrderly,
             Starting, Listening, StartListen, Exit, With
    <2>3. (DescriptorsHaveOwners /\ OnlyOpenFds /\ StartIsOrderly)'
      BY <1>5, NewFdIsFree
         DEF DescriptorsHaveOwners, OnlyOpenFds, StartIsOrderly, Starting,
             Listening, ServerTypeOK, StartListen, Exit, With
    <2>4. (NoClientOverlooked /\ KeepsLoopRules /\ BatchesAreSeparate)'
      BY <1>5
         DEF NoClientOverlooked, KeepsLoopRules, BatchesAreSeparate,
             StartIsOrderly, Starting, Listening, StartListen, Exit, With
    <2>5. LagFollowsQuiet'
      BY <1>5 DEF LagFollowsQuiet, StartListen, Exit, With
    <2> QED BY <2>1, <2>2, <2>3, <2>4, <2>5
  <1>6. CASE StartTick
    <2>1. ServerTypeOK'
      BY <1>6, NewFdIsFree, ServerAssumption DEF ServerTypeOK, StartTick, With
    <2>2. (ConnsAreComplete /\ CidsAreFresh /\ TimersAreKnown)'
      BY <1>6
         DEF ConnsAreComplete, CidsAreFresh, TimersAreKnown, StartTick, With
    <2>3. (DescriptorsHaveOwners /\ OnlyOpenFds /\ StartIsOrderly)'
      BY <1>6
         DEF DescriptorsHaveOwners, OnlyOpenFds, StartIsOrderly, Starting,
             Listening, StartTick, With
    <2>4. (NoClientOverlooked /\ KeepsLoopRules /\ BatchesAreSeparate)'
      BY <1>6
         DEF NoClientOverlooked, KeepsLoopRules, BatchesAreSeparate, StartTick,
             With
    <2>5. LagFollowsQuiet'
      BY <1>6 DEF LagFollowsQuiet, StartTick, With
    <2> QED BY <2>1, <2>2, <2>3, <2>4, <2>5
  <1>7. CASE Run
    <2>1. ServerTypeOK'
      BY <1>7 DEF ServerTypeOK, Run
    <2>2. (ConnsAreComplete /\ CidsAreFresh /\ TimersAreKnown)'
      BY <1>7 DEF ConnsAreComplete, CidsAreFresh, TimersAreKnown, Run
    <2>3. (DescriptorsHaveOwners /\ OnlyOpenFds /\ StartIsOrderly)'
      BY <1>7
         DEF DescriptorsHaveOwners, OnlyOpenFds, StartIsOrderly, Starting,
             Listening, Run
    <2>4. (NoClientOverlooked /\ KeepsLoopRules /\ BatchesAreSeparate)'
      BY <1>7 DEF NoClientOverlooked, KeepsLoopRules, BatchesAreSeparate, Run
    <2>5. LagFollowsQuiet'
      BY <1>7 DEF LagFollowsQuiet, Run
    <2> QED BY <2>1, <2>2, <2>3, <2>4, <2>5
  <1> QED BY <1>1, <1>2, <1>3, <1>4, <1>5, <1>6, <1>7 DEF Main

-----------------------------------------------------------------------------
(* The signal, and the clients *)

(* A client that connects is counted before it waits. *)
LEMMA ConnectsTypeOK == ServerInv /\ ClientConnects => ServerTypeOK'
  <1> SUFFICES ASSUME ServerInv, ClientConnects PROVE ServerTypeOK'
    OBVIOUS
  <1>1. arrived' \in 0 .. MaxClients /\ backlog' \in 0 .. arrived'
    BY ServerAssumption DEF ServerInv, ServerTypeOK, ClientConnects
  <1>2. ready' \subseteq Fd
    BY DEF ServerInv, ServerTypeOK, ClientConnects
  <1> QED BY <1>1, <1>2 DEF ServerInv, ServerTypeOK, ClientConnects

(* What comes from outside. *)
LEMMA OutsideInv == ServerInv /\ (TermSignal \/ ClientConnects \/ ClientActs \/ Terminated) => ServerInv'
  <1> SUFFICES ASSUME ServerInv, (TermSignal \/ ClientConnects \/ ClientActs \/ Terminated) PROVE ServerInv'
    OBVIOUS
  <1> USE DEF ServerInv
  <1>1. CASE TermSignal
    <2>1. ServerTypeOK'
      BY <1>1 DEF ServerTypeOK, TermSignal
    <2>2. (ConnsAreComplete /\ CidsAreFresh /\ TimersAreKnown)'
      BY <1>1 DEF ConnsAreComplete, CidsAreFresh, TimersAreKnown, TermSignal
    <2>3. (DescriptorsHaveOwners /\ OnlyOpenFds /\ StartIsOrderly)'
      BY <1>1
         DEF DescriptorsHaveOwners, OnlyOpenFds, StartIsOrderly, Starting,
             Listening, TermSignal
    <2>4. (NoClientOverlooked /\ KeepsLoopRules /\ BatchesAreSeparate)'
      BY <1>1
         DEF NoClientOverlooked, KeepsLoopRules, BatchesAreSeparate, TermSignal
    <2>5. LagFollowsQuiet'
      BY <1>1 DEF LagFollowsQuiet, TermSignal
    <2> QED BY <2>1, <2>2, <2>3, <2>4, <2>5
  <1>2. CASE ClientConnects
    <2>1. ServerTypeOK'
      BY <1>2, ConnectsTypeOK
    <2>2. (ConnsAreComplete /\ CidsAreFresh /\ TimersAreKnown)'
      BY <1>2
         DEF ConnsAreComplete, CidsAreFresh, TimersAreKnown, ServerTypeOK,
             ClientConnects
    <2>3. (DescriptorsHaveOwners /\ OnlyOpenFds /\ StartIsOrderly)'
      BY <1>2
         DEF DescriptorsHaveOwners, OnlyOpenFds, StartIsOrderly, Starting,
             Listening, ClientConnects
    <2>4. (NoClientOverlooked /\ KeepsLoopRules /\ BatchesAreSeparate)'
      BY <1>2
         DEF NoClientOverlooked, KeepsLoopRules, BatchesAreSeparate,
             ClientConnects
    <2>5. LagFollowsQuiet'
      BY <1>2 DEF LagFollowsQuiet, ClientConnects
    <2> QED BY <2>1, <2>2, <2>3, <2>4, <2>5
  <1>3. CASE ClientActs
    <2>1. ServerTypeOK'
      BY <1>3 DEF ServerTypeOK, ClientActs
    <2>2. (ConnsAreComplete /\ CidsAreFresh /\ TimersAreKnown)'
      BY <1>3 DEF ConnsAreComplete, CidsAreFresh, TimersAreKnown, ClientActs
    <2>3. (DescriptorsHaveOwners /\ OnlyOpenFds /\ StartIsOrderly)'
      BY <1>3
         DEF DescriptorsHaveOwners, OnlyOpenFds, StartIsOrderly, Starting,
             Listening, ClientActs
    <2>4. (NoClientOverlooked /\ KeepsLoopRules /\ BatchesAreSeparate)'
      BY <1>3
         DEF NoClientOverlooked, KeepsLoopRules, BatchesAreSeparate, ClientActs
    <2>5. LagFollowsQuiet'
      BY <1>3 DEF LagFollowsQuiet, ClientActs
    <2> QED BY <2>1, <2>2, <2>3, <2>4, <2>5
  <1>4. CASE Terminated
    <2>1. ServerTypeOK'
      BY <1>4 DEF ServerTypeOK, Terminated, serverVars
    <2>2. (ConnsAreComplete /\ CidsAreFresh /\ TimersAreKnown)'
      BY <1>4
         DEF ConnsAreComplete, CidsAreFresh, TimersAreKnown, Terminated,
             serverVars
    <2>3. (DescriptorsHaveOwners /\ OnlyOpenFds /\ StartIsOrderly)'
      BY <1>4
         DEF DescriptorsHaveOwners, OnlyOpenFds, StartIsOrderly, Starting,
             Listening, Terminated, serverVars
    <2>4. (NoClientOverlooked /\ KeepsLoopRules /\ BatchesAreSeparate)'
      BY <1>4
         DEF NoClientOverlooked, KeepsLoopRules, BatchesAreSeparate,
             Terminated, serverVars
    <2>5. LagFollowsQuiet'
      BY <1>4 DEF LagFollowsQuiet, Terminated, serverVars
    <2> QED BY <2>1, <2>2, <2>3, <2>4, <2>5
  <1> QED BY <1>1, <1>2, <1>3, <1>4

-----------------------------------------------------------------------------
(* Accepting *)

(* The cid an accepted client gets is within its bounds. *)
LEMMA AcceptTypeOK == ServerInv /\ OnAccept /\ AcceptClient => ServerTypeOK'
  <1> SUFFICES ASSUME ServerInv, OnAccept, AcceptClient PROVE ServerTypeOK'
    OBVIOUS
  <1> USE DEF ServerInv
  <1>1. id_cnt \in Cids /\ id_cnt + 1 \in Nat \ {0} /\ Timeout \in Nat
    BY ServerAssumption DEF CidsAreFresh, AcceptClient, ServerTypeOK, Cids
  <1>2. NewFd \in Fd
    BY NewFdIsFree DEF AcceptClient
  <1>3. PICK heard \in BOOLEAN :
          /\ SetIOTask(NewFd, id_cnt, heard)
          /\ conn_map' = With(conn_map, id_cnt, NewConnector(NewFd, heard))
    BY DEF AcceptClient
  <1>4. DOMAIN conn_map' \subseteq Cids /\ \A c \in DOMAIN conn_map' : conn_map'[c] \in Connector
    BY <1>1, <1>2, <1>3, NewConnectorType DEF ServerTypeOK, With
  <1>5. DOMAIN armed' \subseteq Cids \cup {TickTimer} /\ \A t \in DOMAIN armed' : armed'[t] \in Nat
    BY <1>1 DEF ServerTypeOK, AcceptClient, With
  <1>6. DOMAIN file_tasks' \subseteq Fd /\ \A fd \in DOMAIN file_tasks' : file_tasks'[fd] \in Cids \cup {AcceptTask}
    BY <1>1, <1>2, <1>3 DEF ServerTypeOK, SetIOTask, With
  <1>7. (lost \subseteq open)' /\ (open \subseteq Fd)'
    BY <1>2 DEF ServerTypeOK, AcceptClient, With
  <1>8. (backlog \in 0 .. arrived)' /\ timer_map' \subseteq Cids
    BY <1>1 DEF ServerTypeOK, AcceptClient, OnAccept
  <1> QED BY <1>1, <1>2, <1>4, <1>5, <1>6, <1>7, <1>8 DEF ServerTypeOK, OnAccept, AcceptClient

(* The new connection is the owner of the new descriptor. *)
LEMMA AcceptOwners ==
  ServerInv /\ OnAccept /\ AcceptClient =>
    (DescriptorsHaveOwners /\ OnlyOpenFds /\ StartIsOrderly)'
  <1> SUFFICES ASSUME ServerInv, OnAccept, AcceptClient PROVE (DescriptorsHaveOwners /\ OnlyOpenFds /\ StartIsOrderly)'
    OBVIOUS
  <1> USE DEF ServerInv
  <1>1. NewFd \in Fd /\ NewFd \notin open
    BY NewFdIsFree DEF AcceptClient
  <1>2. id_cnt \notin DOMAIN conn_map
    BY DEF CidsAreFresh, ServerTypeOK
  <1>3. PICK heard \in BOOLEAN :
          /\ SetIOTask(NewFd, id_cnt, heard)
          /\ conn_map' = With(conn_map, id_cnt, NewConnector(NewFd, heard))
    BY DEF AcceptClient
  <1>4. DescriptorsHaveOwners'
    <2>1. epfd # listen_fd /\ epfd \in open /\ listen_fd \in open /\ at = "run"
       BY DEF OnAccept, DescriptorsHaveOwners
    <2>2. \A c \in DOMAIN conn_map : conn_map[c].fd \in open
       BY DEF OnAccept, DescriptorsHaveOwners
    <2>3. DOMAIN conn_map' = DOMAIN conn_map \cup {id_cnt}
       BY <1>3 DEF With
    <2>4. conn_map'[id_cnt].fd = NewFd
       BY <1>1, <1>3, NewConnectorType DEF With
    <2>5. \A c \in DOMAIN conn_map : conn_map'[c].fd = conn_map[c].fd /\ conn_map[c].fd # NewFd
       BY <1>1, <1>2, <1>3, <2>2 DEF With
    <2>6. open' = open \cup {NewFd} /\ lost' = lost /\ epfd' = epfd /\ listen_fd' = listen_fd /\ lost \subseteq open /\ at' = at
       BY DEF AcceptClient, OnAccept, ServerTypeOK
    <2>7. open \ lost = {epfd, listen_fd} \cup {conn_map[c].fd : c \in DOMAIN conn_map}
       BY <2>1 DEF DescriptorsHaveOwners
    <2>8. {conn_map'[c].fd : c \in DOMAIN conn_map'} = {conn_map[c].fd : c \in DOMAIN conn_map} \cup {NewFd}
       BY <2>3, <2>4, <2>5
    <2>9. (open \ lost = {epfd, listen_fd} \cup {conn_map[c].fd : c \in DOMAIN conn_map})'
       BY <2>6, <2>7, <2>8, <1>1
    <2>10. (\A c \in DOMAIN conn_map : conn_map[c].fd \notin {epfd, listen_fd})'
       BY <2>1, <2>3, <2>4, <2>5, <2>6, <1>1 DEF DescriptorsHaveOwners
    <2>11. (\A c, d \in DOMAIN conn_map : conn_map[c].fd = conn_map[d].fd => c = d)'
       BY <2>1, <2>3, <2>4, <2>5, <2>6 DEF DescriptorsHaveOwners
    <2> QED BY <2>1, <2>6, <2>9, <2>10, <2>11 DEF DescriptorsHaveOwners
  <1>5. /\ DOMAIN file_tasks \subseteq DOMAIN file_tasks'
        /\ DOMAIN file_tasks' \subseteq DOMAIN file_tasks \cup {NewFd}
        /\ \A fd \in DOMAIN file_tasks : file_tasks'[fd] = file_tasks[fd]
    BY <1>3 DEF SetIOTask, With
  <1>6. (OnlyOpenFds /\ StartIsOrderly)'
    BY <1>1, <1>5
       DEF OnAccept, AcceptClient, OnlyOpenFds, StartIsOrderly, Starting,
           Listening, DescriptorsHaveOwners
  <1> QED BY <1>4, <1>6

(* What an accepted client adds to the maps: a connection and its timer,   *)
(* and a task if epoll takes it.                                           *)
LEMMA AcceptConns ==
  ServerInv /\ OnAccept /\ AcceptClient =>
    (/\ ConnsAreComplete /\ CidsAreFresh /\ TimersAreKnown
     /\ NoClientOverlooked /\ KeepsLoopRules /\ BatchesAreSeparate
     /\ LagFollowsQuiet)'
  <1> SUFFICES ASSUME ServerInv, OnAccept, AcceptClient
               PROVE  (/\ ConnsAreComplete /\ CidsAreFresh /\ TimersAreKnown
                       /\ NoClientOverlooked /\ KeepsLoopRules /\ BatchesAreSeparate
                       /\ LagFollowsQuiet)'
    OBVIOUS
  <1> USE DEF ServerInv
  <1>1. /\ NewFd \in Fd /\ NewFd \notin open /\ NewFd \notin DOMAIN file_tasks
        /\ NewFd \notin fires /\ NewFd # listen_fd
    BY NewFdIsFree DEF AcceptClient, OnAccept, OnlyOpenFds, DescriptorsHaveOwners
  <1>2. id_cnt \notin DOMAIN conn_map /\ id_cnt \in Nat \ {0}
    BY DEF CidsAreFresh, ServerTypeOK
  <1>3. PICK heard \in BOOLEAN :
          /\ SetIOTask(NewFd, id_cnt, heard)
          /\ conn_map' = With(conn_map, id_cnt, NewConnector(NewFd, heard))
    BY DEF AcceptClient
  <1>4. /\ DOMAIN conn_map' = DOMAIN conn_map \cup {id_cnt}
        /\ conn_map'[id_cnt] = NewConnector(NewFd, heard)
        /\ \A c \in DOMAIN conn_map : conn_map'[c] = conn_map[c]
    BY <1>2, <1>3 DEF With
  <1>5. /\ conn_map'[id_cnt].fd = NewFd /\ conn_map'[id_cnt].heard = heard
        /\ conn_map'[id_cnt].lag = 0 /\ conn_map'[id_cnt].quiet = 0
    BY <1>1, <1>4, NewConnectorType
  <1>6. /\ DOMAIN file_tasks' = DOMAIN file_tasks \cup (IF heard THEN {NewFd} ELSE {})
        /\ heard => file_tasks'[NewFd] = id_cnt
        /\ \A fd \in DOMAIN file_tasks : file_tasks'[fd] = file_tasks[fd]
        /\ heard \/ CallsFail
    BY <1>1, <1>3 DEF SetIOTask, With
  <1>7. \A c \in DOMAIN conn_map :
          conn_map[c].fd \in open /\ conn_map[c].fd # NewFd
    BY <1>1 DEF OnAccept, DescriptorsHaveOwners
  <1>8. \A c \in DOMAIN conn_map' :
          IF conn_map'[c].heard
          THEN conn_map'[c].fd \in DOMAIN file_tasks' /\ file_tasks'[conn_map'[c].fd] = c
          ELSE CallsFail /\ conn_map'[c].fd \notin DOMAIN file_tasks'
    BY <1>1, <1>4, <1>5, <1>6, <1>7 DEF ConnsAreComplete
  <1>9. \A fd \in DOMAIN file_tasks' \ {listen_fd'} :
          file_tasks'[fd] \in DOMAIN conn_map' /\ conn_map'[file_tasks'[fd]].fd = fd
    BY <1>1, <1>4, <1>5, <1>6 DEF ConnsAreComplete, OnAccept
  <1>10. timer_map' = DOMAIN conn_map' /\ DOMAIN armed' = DOMAIN armed \cup {id_cnt}
    BY <1>4 DEF ConnsAreComplete, AcceptClient, With
  <1>11. (ConnsAreComplete /\ TimersAreKnown)'
    BY <1>8, <1>9, <1>10 DEF ConnsAreComplete, TimersAreKnown, OnAccept, AcceptClient
  <1>12. CidsAreFresh'
    BY <1>2, <1>4 DEF CidsAreFresh, ServerTypeOK, OnAccept, AcceptClient
  <1>13. (NoClientOverlooked /\ KeepsLoopRules /\ BatchesAreSeparate)'
    BY <1>1, <1>6
       DEF NoClientOverlooked, KeepsLoopRules, BatchesAreSeparate, OnAccept, AcceptClient
  <1>14. LagFollowsQuiet'
    <2>1. sub_second' = sub_second /\ set_back' = set_back /\ 0 + Second > 0 * Second + sub_second
      BY ServerAssumption DEF ServerTypeOK, OnAccept
    <2> QED BY <2>1, <1>4, <1>5 DEF LagFollowsQuiet
  <1> QED BY <1>11, <1>12, <1>13, <1>14

(* A turn of the loop in OnAccept. *)
LEMMA AcceptInv == ServerInv /\ OnAccept => ServerInv'
  <1> SUFFICES ASSUME ServerInv, OnAccept PROVE ServerInv'
    OBVIOUS
  <1> USE DEF ServerInv
  <1>1. CASE OnAccept /\ AcceptNoMore
    <2>1. ServerTypeOK'
      BY <1>1, NewFdIsFree DEF ServerTypeOK, OnAccept, AcceptNoMore
    <2>2. (ConnsAreComplete /\ CidsAreFresh /\ TimersAreKnown)'
      BY <1>1, NewConnectorType, NewFdIsFree
         DEF ServerTypeOK, ConnsAreComplete, CidsAreFresh, TimersAreKnown,
             DescriptorsHaveOwners, StartIsOrderly, OnlyOpenFds,
             BatchesAreSeparate, OnAccept, AcceptNoMore
    <2>3. (DescriptorsHaveOwners /\ OnlyOpenFds /\ StartIsOrderly)'
      BY <1>1, NewFdIsFree
         DEF ServerTypeOK, DescriptorsHaveOwners, OnlyOpenFds, StartIsOrderly,
             Starting, Listening, BatchesAreSeparate, OnAccept, AcceptNoMore
    <2>4. (NoClientOverlooked /\ KeepsLoopRules /\ BatchesAreSeparate)'
      BY <1>1, NewFdIsFree
         DEF OnlyOpenFds, NoClientOverlooked, KeepsLoopRules,
             BatchesAreSeparate, ServerTypeOK, DescriptorsHaveOwners,
             StartIsOrderly, OnAccept, AcceptNoMore
    <2>5. LagFollowsQuiet'
      BY <1>1, LimitType, NewConnectorType, NewFdIsFree, ServerAssumption
         DEF LagFollowsQuiet, ServerTypeOK, OnAccept, AcceptNoMore
    <2> QED BY <2>1, <2>2, <2>3, <2>4, <2>5
  <1>2. CASE OnAccept /\ AcceptError
    <2>1. ServerTypeOK'
      BY <1>2 DEF ServerTypeOK, OnAccept, AcceptError, GiveUp
    <2>2. (ConnsAreComplete /\ CidsAreFresh /\ TimersAreKnown)'
      BY <1>2
         DEF ConnsAreComplete, CidsAreFresh, TimersAreKnown, ServerTypeOK,
             OnAccept, AcceptError, GiveUp
    <2>3. (DescriptorsHaveOwners /\ OnlyOpenFds /\ StartIsOrderly)'
      BY <1>2
         DEF DescriptorsHaveOwners, OnlyOpenFds, StartIsOrderly, Starting,
             Listening, OnAccept, AcceptError, GiveUp
    <2>4. (NoClientOverlooked /\ KeepsLoopRules /\ BatchesAreSeparate)'
      BY <1>2
         DEF NoClientOverlooked, KeepsLoopRules, BatchesAreSeparate, OnAccept,
             AcceptError, GiveUp
    <2>5. LagFollowsQuiet'
      BY <1>2 DEF LagFollowsQuiet, OnAccept, AcceptError, GiveUp
    <2> QED BY <2>1, <2>2, <2>3, <2>4, <2>5
  <1>3. CASE OnAccept /\ AcceptUnusable
    <2>1. ServerTypeOK'
      BY <1>3, NewFdIsFree DEF ServerTypeOK, OnAccept, AcceptUnusable, GiveUp
    <2>2. (ConnsAreComplete /\ CidsAreFresh /\ TimersAreKnown)'
      BY <1>3, NewConnectorType, NewFdIsFree
         DEF ServerTypeOK, ConnsAreComplete, CidsAreFresh, TimersAreKnown,
             DescriptorsHaveOwners, StartIsOrderly, OnlyOpenFds,
             BatchesAreSeparate, OnAccept, AcceptUnusable, GiveUp
    <2>3. (DescriptorsHaveOwners /\ OnlyOpenFds /\ StartIsOrderly)'
      BY <1>3, NewFdIsFree
         DEF ServerTypeOK, DescriptorsHaveOwners, OnlyOpenFds, StartIsOrderly,
             Starting, Listening, BatchesAreSeparate, OnAccept, AcceptUnusable,
             GiveUp
    <2>4. (NoClientOverlooked /\ KeepsLoopRules /\ BatchesAreSeparate)'
      BY <1>3, NewFdIsFree
         DEF OnlyOpenFds, NoClientOverlooked, KeepsLoopRules,
             BatchesAreSeparate, ServerTypeOK, DescriptorsHaveOwners,
             StartIsOrderly, OnAccept, AcceptUnusable, GiveUp
    <2>5. LagFollowsQuiet'
      BY <1>3, LimitType, NewConnectorType, NewFdIsFree, ServerAssumption
         DEF LagFollowsQuiet, ServerTypeOK, OnAccept, AcceptUnusable, GiveUp
    <2> QED BY <2>1, <2>2, <2>3, <2>4, <2>5
  <1>4. CASE OnAccept /\ AcceptClient
    BY <1>4, AcceptTypeOK, AcceptOwners, AcceptConns
  <1> QED BY <1>1, <1>2, <1>3, <1>4 DEF OnAccept

-----------------------------------------------------------------------------
(* The rounds *)

(* A connection may be closed while its own event or timer is handled. *)
LEMMA CloseConnInv ==
  ASSUME ServerInv, NEW c \in DOMAIN conn_map, CloseConn(c),
         at = "run", phase \in {"dispatch", "poll"},
         due' \subseteq due \ {c}, fires' \subseteq fires \ {conn_map[c].fd},
         listen_fd \in fires => listen_fd \in fires',
         \A fd \in fires' : fd \in DOMAIN polled =>
           fd \in DOMAIN polled' /\ polled'[fd] = polled[fd],
         DOMAIN polled' \subseteq Fd, \A t \in due : t \in due' \/ t = c,
         UNCHANGED <<main, phase, id_cnt, epfd, listen_fd, lost, backlog,
                     stranded, arrived, time>>
  PROVE  ServerInv'
  <1> USE DEF ServerInv, CloseConn, DelConn, DelTimerTask, Without
  <1> DEFINE fd == conn_map[c].fd
  <1>1. fd \in open /\ fd \notin {epfd, listen_fd} /\ fd \notin lost
    BY DEF DescriptorsHaveOwners
  <1>2. DOMAIN conn_map' = DOMAIN conn_map \ {c}
        /\ \A x \in DOMAIN conn_map' : conn_map'[x] = conn_map[x]
    OBVIOUS
  <1>3. DOMAIN file_tasks' = DOMAIN file_tasks \ {fd}
        /\ \A x \in DOMAIN file_tasks' : file_tasks'[x] = file_tasks[x]
    OBVIOUS
  <1>4. open' = open \ {fd} /\ ready' = ready \ {fd} /\ timer_map' = timer_map \ {c}
    OBVIOUS
  <1>5. DOMAIN armed' = DOMAIN armed \ {c} /\ \A x \in DOMAIN armed' : armed'[x] = armed[x]
    OBVIOUS
  <1>6. \A x \in DOMAIN conn_map' : conn_map[x].fd # fd
    BY <1>2 DEF DescriptorsHaveOwners
  <1> HIDE DEF CloseConn, DelConn, DelTimerTask, Without, fd
  <1>7. ServerTypeOK'
    BY <1>1, <1>2, <1>3, <1>4, <1>5 DEF ServerTypeOK
  <1>8. (ConnsAreComplete /\ CidsAreFresh /\ TimersAreKnown)'
    <2>1. fd = conn_map[c].fd
      BY DEF fd
    <2>2. timer_map' = DOMAIN conn_map' /\ timer_map' \subseteq DOMAIN armed' \cup due'
      BY <1>2, <1>4, <1>5 DEF ConnsAreComplete
    <2>3. \A x \in DOMAIN conn_map' :
            IF conn_map'[x].heard
            THEN conn_map'[x].fd \in DOMAIN file_tasks' /\ file_tasks'[conn_map'[x].fd] = x
            ELSE CallsFail /\ conn_map'[x].fd \notin DOMAIN file_tasks'
      BY <1>2, <1>3, <1>6 DEF ConnsAreComplete
    <2>4. \A f \in DOMAIN file_tasks' \ {listen_fd'} :
            file_tasks'[f] \in DOMAIN conn_map' /\ conn_map'[file_tasks'[f]].fd = f
      BY <1>2, <1>3, <2>1 DEF ConnsAreComplete
    <2> QED BY <2>2, <2>3, <2>4, <1>2, <1>5 DEF ConnsAreComplete, CidsAreFresh, TimersAreKnown
  <1>9. DescriptorsHaveOwners'
    <2>1. {conn_map'[x].fd : x \in DOMAIN conn_map'} = {conn_map[x].fd : x \in DOMAIN conn_map} \ {fd}
      BY <1>2, <1>6 DEF fd
    <2> QED BY <1>1, <1>2, <1>4, <2>1 DEF DescriptorsHaveOwners
  <1>10. (OnlyOpenFds /\ StartIsOrderly)'
    BY <1>1, <1>3, <1>4
       DEF fd, OnlyOpenFds, StartIsOrderly, Starting, Listening
  <1>11. (NoClientOverlooked /\ KeepsLoopRules /\ BatchesAreSeparate)'
    BY <1>1, <1>3, <1>4
       DEF NoClientOverlooked, KeepsLoopRules, BatchesAreSeparate
  <1>12. LagFollowsQuiet'
    BY <1>2 DEF LagFollowsQuiet
  <1> QED BY <1>7, <1>8, <1>9, <1>10, <1>11, <1>12

(* The steps of a round that call nobody. *)
LEMMA RoundInv == ServerInv /\ (CollectTimers \/ WaitEvent \/ EndRound) => ServerInv'
  <1> SUFFICES ASSUME ServerInv, (CollectTimers \/ WaitEvent \/ EndRound) PROVE ServerInv'
    OBVIOUS
  <1> USE DEF ServerInv
  <1>1. CASE CollectTimers
    <2>1. ServerTypeOK'
      BY <1>1 DEF ServerTypeOK, CollectTimers, Without
    <2>2. (ConnsAreComplete /\ CidsAreFresh /\ TimersAreKnown)'
      BY <1>1
         DEF ConnsAreComplete, CidsAreFresh, TimersAreKnown,
             BatchesAreSeparate, CollectTimers, Without
    <2>3. (DescriptorsHaveOwners /\ OnlyOpenFds /\ StartIsOrderly)'
      BY <1>1
         DEF DescriptorsHaveOwners, OnlyOpenFds, StartIsOrderly, Starting,
             Listening, CollectTimers, Without
    <2>4. (NoClientOverlooked /\ KeepsLoopRules /\ BatchesAreSeparate)'
      BY <1>1, ServerAssumption, LimitType, NewConnectorType
         DEF TimersAreKnown, OnlyOpenFds, NoClientOverlooked, KeepsLoopRules,
             BatchesAreSeparate, ServerTypeOK, DescriptorsHaveOwners,
             StartIsOrderly, CollectTimers, Without
    <2>5. LagFollowsQuiet'
      BY <1>1 DEF LagFollowsQuiet, CollectTimers, Without
    <2> QED BY <2>1, <2>2, <2>3, <2>4, <2>5
  <1>2. CASE WaitEvent
    <2>1. ServerTypeOK'
      BY <1>2 DEF ServerTypeOK, WaitEvent
    <2>2. (ConnsAreComplete /\ CidsAreFresh /\ TimersAreKnown)'
      BY <1>2 DEF ConnsAreComplete, CidsAreFresh, TimersAreKnown, WaitEvent
    <2>3. (DescriptorsHaveOwners /\ OnlyOpenFds /\ StartIsOrderly)'
      BY <1>2
         DEF DescriptorsHaveOwners, OnlyOpenFds, StartIsOrderly, Starting,
             Listening, WaitEvent
    <2>4. (NoClientOverlooked /\ KeepsLoopRules /\ BatchesAreSeparate)'
      BY <1>2
         DEF NoClientOverlooked, KeepsLoopRules, BatchesAreSeparate, WaitEvent
    <2>5. LagFollowsQuiet'
      BY <1>2 DEF LagFollowsQuiet, WaitEvent
    <2> QED BY <2>1, <2>2, <2>3, <2>4, <2>5
  <1>3. CASE EndRound
    <2>1. ServerTypeOK'
      BY <1>3 DEF ServerTypeOK, EndRound
    <2>2. (ConnsAreComplete /\ CidsAreFresh /\ TimersAreKnown)'
      BY <1>3 DEF ConnsAreComplete, CidsAreFresh, TimersAreKnown, EndRound
    <2>3. (DescriptorsHaveOwners /\ OnlyOpenFds /\ StartIsOrderly)'
      BY <1>3
         DEF DescriptorsHaveOwners, OnlyOpenFds, StartIsOrderly, Starting,
             Listening, EndRound
    <2>4. (NoClientOverlooked /\ KeepsLoopRules /\ BatchesAreSeparate)'
      BY <1>3
         DEF NoClientOverlooked, KeepsLoopRules, BatchesAreSeparate, EndRound
    <2>5. LagFollowsQuiet'
      BY <1>3 DEF LagFollowsQuiet, EndRound
    <2> QED BY <2>1, <2>2, <2>3, <2>4, <2>5
  <1> QED BY <1>1, <1>2, <1>3

(* A timer of the batch is started again. *)
LEMMA RestartInv ==
  ASSUME ServerInv, phase = "dispatch",
         NEW t \in due, due' = due \ {t},
         NEW n \in Nat, armed' = With(armed, t, n),
         UNCHANGED <<main, phase, fires, polled, conn_map, timer_map, id_cnt, fds, net, time>>
  PROVE  ServerInv'
  <1> USE DEF ServerInv
  <1>1. ServerTypeOK'
    BY DEF ServerTypeOK, With
  <1>2. (ConnsAreComplete /\ CidsAreFresh /\ TimersAreKnown)'
    BY DEF ServerTypeOK, ConnsAreComplete, CidsAreFresh, TimersAreKnown,
           KeepsLoopRules, With
  <1>3. (DescriptorsHaveOwners /\ OnlyOpenFds /\ StartIsOrderly)'
    BY DEF DescriptorsHaveOwners, OnlyOpenFds, StartIsOrderly, Starting,
           Listening, With
  <1>4. (NoClientOverlooked /\ KeepsLoopRules /\ BatchesAreSeparate)'
    BY DEF NoClientOverlooked, KeepsLoopRules, BatchesAreSeparate, With
  <1>5. LagFollowsQuiet'
    BY DEF LagFollowsQuiet, With
  <1> QED BY <1>1, <1>2, <1>3, <1>4, <1>5

(* A timer of the batch is called. *)
LEMMA DispatchTimerInv == ServerInv /\ DispatchTimer => ServerInv'
  <1> SUFFICES ASSUME ServerInv, DispatchTimer PROVE ServerInv'
    OBVIOUS
  <1>1. PICK t \in due :
          /\ due' = due \ {t}
          /\ IF t = TickTimer
             THEN /\ armed' = With(armed, TickTimer, Tick)
                  /\ UNCHANGED <<conn_map, timer_map, file_tasks, open, ready>>
             ELSE OnTimerOut(t)
    BY DEF DispatchTimer
  <1>2. CASE armed' = With(armed, t, Tick)
             /\ UNCHANGED <<conn_map, timer_map, file_tasks, open, ready>>
    BY <1>1, <1>2, RestartInv, ServerAssumption DEF DispatchTimer
  <1>3. CASE armed' = With(armed, t, Timeout)
             /\ UNCHANGED <<conn_map, timer_map, file_tasks, open, ready>>
    BY <1>1, <1>3, RestartInv, ServerAssumption DEF DispatchTimer
  <1>4. CASE t # TickTimer /\ CloseConn(t)
    <2>1. t \in DOMAIN conn_map /\ fires = {}
      BY <1>4 DEF DispatchTimer, ServerInv, KeepsLoopRules, ConnsAreComplete,
                  BatchesAreSeparate
    <2> QED BY <2>1, <1>1, <1>4, CloseConnInv DEF DispatchTimer, ServerInv, ServerTypeOK
  <1>5. CASE t # TickTimer
    <2>1. t \in DOMAIN conn_map
      BY <1>5 DEF ServerInv, KeepsLoopRules, ConnsAreComplete
    <2> QED BY <2>1, <1>1, <1>3, <1>4, <1>5 DEF OnTimerOut
  <1> QED BY <1>1, <1>2, <1>5

(* Handling an event without closing anything. *)
LEMMA EventInv ==
  ASSUME ServerInv, at = "run", phase = "poll",
         NEW fd \in fires, fires' = fires \ {fd}, polled' = Without(polled, {fd}),
         phase' = IF fd = listen_fd THEN "accept" ELSE phase,
         DOMAIN conn_map' = DOMAIN conn_map,
         \A c \in DOMAIN conn_map :
           /\ conn_map'[c].fd = conn_map[c].fd /\ conn_map'[c].heard = conn_map[c].heard
           /\ \/ conn_map'[c] = conn_map[c]
              \/ conn_map'[c] = NewConnector(conn_map[c].fd, conn_map[c].heard),
         UNCHANGED <<main, due, timer_map, armed, id_cnt, fds, net, time>>
  PROVE  ServerInv'
  <1> USE DEF ServerInv
  <1>1. ServerTypeOK'
    <2>1. \A c \in DOMAIN conn_map' : conn_map'[c] \in Connector
      <3> SUFFICES ASSUME NEW c \in DOMAIN conn_map PROVE conn_map'[c] \in Connector
        OBVIOUS
      <3>1. conn_map[c] \in Connector
        BY DEF ServerTypeOK
      <3>2. conn_map[c].fd \in Fd /\ conn_map[c].heard \in BOOLEAN
        BY <3>1 DEF Connector
      <3> QED BY <3>1, <3>2, NewConnectorType
    <2> QED BY <2>1 DEF ServerTypeOK, Without
  <1>2. (ConnsAreComplete /\ CidsAreFresh /\ TimersAreKnown)'
    BY DEF ConnsAreComplete, CidsAreFresh, TimersAreKnown, Without
  <1>3. (DescriptorsHaveOwners /\ OnlyOpenFds /\ StartIsOrderly)'
    BY DEF DescriptorsHaveOwners, OnlyOpenFds, StartIsOrderly, Starting,
           Listening, Without
  <1>4. (NoClientOverlooked /\ KeepsLoopRules /\ BatchesAreSeparate)'
    BY DEF NoClientOverlooked, KeepsLoopRules, BatchesAreSeparate, Without
  <1>5. LagFollowsQuiet'
    <2>1. sub_second' = sub_second /\ set_back' = set_back /\ 0 + Second > 0 * Second + sub_second
      BY ServerAssumption DEF ServerTypeOK
    <2>2. \A c \in DOMAIN conn_map : conn_map[c].fd \in Fd /\ conn_map[c].heard \in BOOLEAN
      BY DEF ServerTypeOK, Connector
    <2> QED BY <2>1, <2>2, NewConnectorType DEF LagFollowsQuiet
  <1> QED BY <1>1, <1>2, <1>3, <1>4, <1>5

(* An event of the batch is handled. *)
LEMMA DispatchIOInv == ServerInv /\ DispatchIO => ServerInv'
  <1> SUFFICES ASSUME ServerInv, DispatchIO PROVE ServerInv'
    OBVIOUS
  <1> DEFINE Task(fd) == file_tasks[fd]
  <1>1. PICK fd \in fires :
          /\ fires' = fires \ {fd}
          /\ polled' = Without(polled, {fd})
          /\ IF fd = listen_fd
             THEN /\ phase' = "accept"
                  /\ UNCHANGED <<conn_map, timer_map, armed, file_tasks, open, ready>>
             ELSE /\ phase' = phase
                  /\ IF fd \in DOMAIN file_tasks /\ Task(fd) \in DOMAIN conn_map
                     THEN ConnEvent(Task(fd))
                     ELSE UNCHANGED <<conn_map, timer_map, armed, file_tasks, open, ready>>
    BY DEF DispatchIO
  <1>2. /\ at = "run" /\ phase = "poll"
        /\ UNCHANGED <<main, due, id_cnt, epfd, listen_fd, lost, backlog,
                       stranded, arrived, time>>
    BY DEF DispatchIO
  <1>3. CASE UNCHANGED <<conn_map, timer_map, armed, file_tasks, open, ready>>
    BY <1>1, <1>2, <1>3, EventInv
  <1>4. CASE fd # listen_fd /\ Task(fd) \in DOMAIN conn_map /\ Do(Task(fd))
             /\ UNCHANGED <<timer_map, armed, file_tasks, open, ready>>
    <2>1. conn_map[Task(fd)].fd \in Fd /\ conn_map[Task(fd)].heard \in BOOLEAN
      BY <1>4 DEF ServerInv, ServerTypeOK, Connector
    <2>2. /\ DOMAIN conn_map' = DOMAIN conn_map
          /\ \A c \in DOMAIN conn_map :
               /\ conn_map'[c].fd = conn_map[c].fd /\ conn_map'[c].heard = conn_map[c].heard
               /\ \/ conn_map'[c] = conn_map[c]
                  \/ conn_map'[c] = NewConnector(conn_map[c].fd, conn_map[c].heard)
      BY <2>1, <1>4, NewConnectorType DEF Do
    <2> QED BY <2>2, <1>1, <1>2, <1>4, EventInv
  <1>5. CASE fd # listen_fd /\ fd \in DOMAIN file_tasks
             /\ Task(fd) \in DOMAIN conn_map /\ CloseConn(Task(fd))
    <2>1. conn_map[Task(fd)].fd = fd
      BY <1>5 DEF ServerInv, ConnsAreComplete
    <2>2. due = {}
      BY <1>2 DEF ServerInv, BatchesAreSeparate
    <2>3. /\ \A f \in fires' : f \in DOMAIN polled =>
               f \in DOMAIN polled' /\ polled'[f] = polled[f]
          /\ DOMAIN polled' \subseteq Fd
      BY <1>1 DEF Without, ServerInv, ServerTypeOK
    <2>4. phase' = phase
      BY <1>1, <1>5
    <2> QED BY <2>1, <2>2, <2>3, <2>4, <1>1, <1>2, <1>5, CloseConnInv
  <1> QED BY <1>1, <1>3, <1>4, <1>5 DEF ConnEvent

-----------------------------------------------------------------------------
(* The theorems *)

(* Every step keeps the invariant. *)
LEMMA NextInv == ServerInv /\ [ServerNext]_serverVars => ServerInv'
  <1> SUFFICES ASSUME ServerInv, [ServerNext]_serverVars PROVE ServerInv'
    OBVIOUS
  <1>1. CASE UNCHANGED serverVars
    BY <1>1, OutsideInv DEF Terminated, ServerInv, serverVars,
      ServerTypeOK, ConnsAreComplete, DescriptorsHaveOwners, NoClientOverlooked, KeepsLoopRules,
      CidsAreFresh, TimersAreKnown, BatchesAreSeparate, OnlyOpenFds, StartIsOrderly,
      LagFollowsQuiet, Starting, Listening
  <1>2. CASE LoopStep
    BY <1>2, RoundInv, AcceptInv, DispatchTimerInv, DispatchIOInv DEF LoopStep
  <1> QED
    BY <1>1, <1>2, MainInv, OutsideInv, TimePassesInv, ClockSetBackInv
       DEF ServerNext

(* So it holds in every state. *)
LEMMA InvariantHolds == ServerSpec => []ServerInv
  BY InitInv, NextInv, PTL DEF ServerSpec

(* Every variable keeps its type: the cids stay below MaxClients + 1       *)
(* because each takes a client off the backlog.                            *)
THEOREM ServerTypeOKHolds == ServerSpec => []ServerTypeOK
  <1>1. ServerInv => ServerTypeOK
    BY DEF ServerInv
  <1> QED BY <1>1, InvariantHolds, PTL

(* However many clients there are and whatever epoll refuses, a connection *)
(* has its timer until it is closed, and its task too if it ever had one:  *)
(* CloseConn leaves nothing behind.  When no call fails each has both.     *)
THEOREM ConnsAreCompleteHolds == ServerSpec => []ConnsAreComplete
  <1>1. ServerInv => ConnsAreComplete
    BY DEF ServerInv
  <1> QED BY <1>1, InvariantHolds, PTL

(* Every open descriptor has exactly one owner, or is one of those OnAccept,*)
(* EventLoop::Init and the configuration lose.                              *)
THEOREM DescriptorsHaveOwnersHolds == ServerSpec => []DescriptorsHaveOwners
  <1>1. ServerInv => DescriptorsHaveOwners
    BY DEF ServerInv
  <1> QED BY <1>1, InvariantHolds, PTL

(* OnAccept's loop takes every client of an edge, or gave up on an error.  *)
THEOREM NoClientOverlookedHolds == ServerSpec => []NoClientOverlooked
  <1>1. ServerInv => NoClientOverlooked
    BY DEF ServerInv
  <1> QED BY <1>1, InvariantHolds, PTL

(* The callbacks of the server never delete a timer that waits in the      *)
(* batch, nor put a task on a descriptor whose event waits for another:    *)
(* what EventLoop needs of the program that uses it.                       *)
THEOREM KeepsLoopRulesHolds == ServerSpec => []KeepsLoopRules
  <1>1. ServerInv => KeepsLoopRules
    BY DEF ServerInv
  <1> QED BY <1>1, InvariantHolds, PTL

(* A step closes a connection in the timers' part of a round only if it    *)
(* has been quiet for all but a second of the timeout.                     *)
LEMMA OnlyQuietTimeOut ==
  ASSUME ServerInv, NEW c \in DOMAIN conn_map, IsTimeOut(conn_map[c])
  PROVE  conn_map[c].quiet > (Limit - 1) * Second \/ (set_back /\ conn_map[c].lag < 0)
  <1> DEFINE lag == conn_map[c].lag  quiet == conn_map[c].quiet
  <1>1. lag \in Int /\ quiet \in Int /\ sub_second \in Nat /\ Second \in Nat \ {0}
        /\ Limit \in Nat
    BY LimitType, ServerAssumption DEF ServerInv, ServerTypeOK, Connector
  <1>2. \/ quiet = Limit * Second
        \/ quiet + Second > lag * Second + sub_second
    BY DEF ServerInv, LagFollowsQuiet
  <1>3. lag >= 0 \/ set_back
    BY DEF ServerInv, LagFollowsQuiet
  <1>4. lag < 0 \/ lag >= Limit
    BY DEF IsTimeOut
  <1> HIDE DEF lag, quiet
  <1>5. (Limit - 1) * Second = Limit * Second - Second
    BY <1>1
  <1>6. lag >= Limit => lag * Second >= Limit * Second
    BY <1>1
  <1>7. ASSUME NEW l \in Int, NEW m \in Int, l >= m,
               quiet = m \/ quiet + Second > l + sub_second
        PROVE  quiet > m - Second
    BY <1>1, <1>7
  <1>8. lag >= Limit => quiet > Limit * Second - Second
    <2>1. lag * Second \in Int /\ Limit * Second \in Int
      BY <1>1
    <2> QED BY <2>1, <1>2, <1>6, <1>7
  <1>9. CASE lag >= Limit
    BY <1>5, <1>8, <1>9 DEF quiet
  <1>10. CASE lag < 0
    BY <1>1, <1>3, <1>10 DEF lag
  <1> QED BY <1>4, <1>9, <1>10

(* The idle timer closes no connection that has been active: the unsigned  *)
(* difference of whole seconds never makes it more than a second early,    *)
(* unless the clock went behind the last activity.                         *)
THEOREM BusyIsKeptHolds == ServerSpec => BusyIsKept
  <1> DEFINE Kept == \A c \in DOMAIN conn_map \ DOMAIN conn_map' :
                       phase = "dispatch" =>
                         conn_map[c].quiet > (Limit - 1) * Second \/ (set_back /\ conn_map[c].lag < 0)
  <1>1. ServerInv /\ [ServerNext]_serverVars => [Kept]_serverVars
    <2> SUFFICES ASSUME ServerInv, ServerNext, phase = "dispatch",
                        NEW c \in DOMAIN conn_map \ DOMAIN conn_map'
                 PROVE  IsTimeOut(conn_map[c])
      BY OnlyQuietTimeOut
    <2>1. CASE DispatchTimer
      <3>1. PICK t \in due : (t = TickTimer /\ UNCHANGED conn_map) \/ OnTimerOut(t)
        BY <2>1 DEF DispatchTimer
      <3> QED BY <3>1 DEF OnTimerOut, CloseConn, DelConn, Without
    <2>2. CASE Main \/ TermSignal \/ ClientConnects \/ ClientActs \/ Terminated
      BY <2>2
         DEF Main, GetOption, LoadConfig, Daemon, InitLoop, StartListen,
             StartTick, Run,
         Exit, TermSignal, ClientConnects, ClientActs, Terminated, serverVars, conns
    <2>3. CASE TimePasses \/ ClockSetBack
      BY <2>3 DEF TimePasses, ClockSetBack
    <2>4. CASE LoopStep
      BY <2>1, <2>4
         DEF LoopStep, CollectTimers, WaitEvent, DispatchIO, OnAccept, EndRound
    <2> QED BY <2>2, <2>3, <2>4 DEF ServerNext
  <1> QED BY <1>1, InvariantHolds, PTL DEF ServerSpec, BusyIsKept

=============================================================================
