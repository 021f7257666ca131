------------------------------ MODULE IOTasks -------------------------------
(***************************************************************************)
(* The IO tasks of src/src/nf_event_iotask.cpp: the registry file_tasks_   *)
(* of EventLoop, keyed by file descriptor, and the kernel's epoll set that *)
(* src/src/nf_epoll.cpp keeps in step with it.  Both have to be changed    *)
(* for a task to come or go, the epoll set first, and the kernel refuses   *)
(* some changes and makes others on its own: closing a descriptor takes it *)
(* out of the set.                                                         *)
(*                                                                         *)
(* This module has the operations; EventLoop says when they happen.        *)
(***************************************************************************)
EXTENDS Integers, FiniteSets

CONSTANTS
  IOTask,     (* the IOTask objects                                        *)
  Fd,         (* the numbers the kernel uses for descriptors               *)
  FdOf        (* the descriptor each task is made for                      *)

ASSUME IOTasksAssumption == FdOf \in [IOTask -> Fd]

VARIABLES
  file_tasks,   (* file_tasks_: from descriptors to tasks                  *)
  io_alive,     (* the IOTask objects that exist                           *)
  open,         (* kernel: the descriptors in use                          *)
  interest      (* kernel: the descriptors in the epoll set of epfd_       *)

iovars == <<file_tasks, io_alive, open, interest>>

(* EventLoop::FindTask *)
FindTask(fd) == fd \in DOMAIN file_tasks

(* SetIOTask: fails on a descriptor that has a task, or if epoll_ctl does. *)
SetIOTask(k) ==
  LET fd == FdOf[k]
  IN  /\ ~ FindTask(fd)
      /\ fd \in open \ interest
      /\ interest' = interest \cup {fd}
      /\ file_tasks' = [f \in DOMAIN file_tasks \cup {fd} |->
                          IF f = fd THEN k ELSE file_tasks[f]]
      /\ UNCHANGED <<io_alive, open>>

(* ResetIOTask: the task given takes the place of the one registered.      *)
ResetIOTask(k) ==
  /\ FindTask(FdOf[k])
  /\ FdOf[k] \in interest
  /\ file_tasks' = [file_tasks EXCEPT ![FdOf[k]] = k]
  /\ UNCHANGED <<io_alive, open, interest>>

(* Fault: epoll is not told. *)
DelIOTaskKeepsInterest(fd) ==
  /\ file_tasks' = [f \in DOMAIN file_tasks \ {fd} |-> file_tasks[f]]
  /\ UNCHANGED interest

(* DelIOTask goes by the number: it does not look at whose task is there.  *)
(* When epoll does not know the descriptor the entry is left as it is.     *)
DelIOTask(fd) ==
  \/ /\ FindTask(fd)
     /\ fd \in interest
     /\ interest' = interest \ {fd}
     /\ file_tasks' = [f \in DOMAIN file_tasks \ {fd} |-> file_tasks[f]]
  \/ /\ ~ (FindTask(fd) /\ fd \in interest)
     /\ UNCHANGED <<interest, file_tasks>>

-----------------------------------------------------------------------------
(* IOTask *)

IOConstruct(k) ==
  /\ k \notin io_alive
  /\ io_alive' = io_alive \cup {k}
  /\ UNCHANGED <<file_tasks, open, interest>>

IOStart(k) == k \in io_alive /\ SetIOTask(k)

IORestart(k) == k \in io_alive /\ ResetIOTask(k)

IOStop(k) ==
  /\ k \in io_alive
  /\ DelIOTask(FdOf[k])
  /\ UNCHANGED <<io_alive, open>>

(* The destructor stops the task and frees it. *)
IODestroy(k) ==
  /\ k \in io_alive
  /\ DelIOTask(FdOf[k])
  /\ io_alive' = io_alive \ {k}
  /\ UNCHANGED open

-----------------------------------------------------------------------------
(* The kernel *)

OpenFd(fd) ==
  /\ fd \notin open
  /\ open' = open \cup {fd}
  /\ UNCHANGED <<file_tasks, io_alive, interest>>

CloseFd(fd) ==
  /\ fd \in open
  /\ open' = open \ {fd}
  /\ interest' = interest \ {fd}
  /\ UNCHANGED <<file_tasks, io_alive>>

=============================================================================
