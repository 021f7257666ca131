------------------------------ MODULE MemCheck ------------------------------
(***************************************************************************)
(* The memory checker of src/src/nf_mem_check.cpp, with the list of        *)
(* src/src/nf_list.h, and the report the signal handler of                 *)
(* src/echo_svr/main.cpp prints from it.                                   *)
(*                                                                         *)
(* There is one thread, but the handler interrupts it between any two      *)
(* assignments, so the list's operations are taken one pointer at a time,  *)
(* in the order the source has them, which the build is taken to keep; and *)
(* another signal interrupts the handler.  The program itself does not     *)
(* move while a handler runs.  What is recorded with an address, its size  *)
(* and place, is left out.                                                 *)
(***************************************************************************)
EXTENDS Integers, Sequences, FiniteSets, SequencesExt, Functions

CONSTANTS
  Ptr,          (* addresses malloc returns to operator new                *)
  Node,         (* addresses malloc returns to Add                         *)
  head_,        (* the address of head_                                    *)
  Signal,       (* the signals the handler is set up for                   *)
  MaxSignals    (* bound: this many are sent in all                        *)

ASSUME MemCheckAssumption ==
  /\ IsFiniteSet(Node) /\ head_ \notin Node /\ Ptr # {}
  /\ MaxSignals \in Nat

VARIABLES
  next, prev,   (* ListHead::next and prev, of the nodes and head_         *)
  info,         (* the address each node records                           *)
  allocated,    (* the nodes malloc has handed out                         *)
  size,         (* size_                                                   *)
  pc, node,     (* the assignment to take next, in Add or Del of node      *)
  held,         (* the addresses the program holds from new                *)
  untracked,    (* of these, the ones Add had no memory to record          *)
  exiting,      (* has ~MemCheck run: "no", "clearing" or "yes"            *)
  pos,          (* the static variable of GetNext                          *)
  handlers,     (* the handlers under way, the innermost first             *)
  sent          (* the number of signals sent so far                       *)

links == <<next, prev>>
list  == <<links, info, allocated, size>>
user  == <<held, untracked, exiting>>
walk  == <<pos, handlers, sent>>
memVars == <<list, pc, node, user, walk>>

Cell == Node \cup {head_}
MaxPrinted == MaxSignals * Cardinality(Node)

(* What the memory of a node that is not allocated holds: nobody reads it. *)
Garbage == CHOOSE p \in Ptr : TRUE

(* The cells reached from head_: the k-th, and head_ once it is reached. *)
Follow(map) ==
  LET at[k \in 0 .. Cardinality(Node)] ==
        IF k = 0 THEN map[head_]
        ELSE IF at[k - 1] = head_ THEN head_ ELSE map[at[k - 1]]
  IN  at

(* The nodes from head_ on, and the addresses they record. *)
ChainOf(map) ==
  LET at == Follow(map)
  IN  [k \in {i \in 1 .. Cardinality(Node) : at[i - 1] # head_} |-> at[k - 1]]
Chain == ChainOf(next)
Recorded == [k \in DOMAIN Chain |-> info[Chain[k]]]

-----------------------------------------------------------------------------
(* Add and Del, one assignment at a time *)

At(l) == pc = l /\ handlers = << >>
Goto(l) == pc' = l

(* operator new(size, file, line): malloc, and Add.  Add may get no memory *)
(* of its own; then the allocation is not recorded.                        *)
New(p) ==
  /\ At("idle") /\ exiting = "no"
  /\ p \notin held
  /\ held' = held \cup {p}
  /\ \/ /\ untracked' = untracked \cup {p}
        /\ UNCHANGED <<list, pc, node>>
     \/ \E n \in Node \ allocated :
          /\ allocated' = allocated \cup {n}
          /\ next' = [next EXCEPT ![n] = n]
          /\ prev' = [prev EXCEPT ![n] = n]
          /\ info' = [info EXCEPT ![n] = p]
          /\ node' = n
          /\ Goto("add_prev")
          /\ UNCHANGED <<size, untracked>>
  /\ UNCHANGED <<exiting, walk>>

(* Faults: head_ is linked before the new node leads on; or the node that  *)
(* was first does not lead back to the new one.                            *)
ListAddHeadFirst ==
  LET first == CHOOSE c \in Cell \ {node} : prev[c] = head_
  IN  \/ /\ At("add_prev") /\ Goto("add_next")
         /\ prev' = [prev EXCEPT ![node] = head_] /\ UNCHANGED next
      \/ /\ At("add_next") /\ Goto("add_back")
         /\ next' = [next EXCEPT ![head_] = node] /\ UNCHANGED prev
      \/ /\ At("add_back") /\ Goto("add_head")
         /\ next' = [next EXCEPT ![node] = first] /\ UNCHANGED prev
      \/ /\ At("add_head") /\ Goto("add_size")
         /\ prev' = [prev EXCEPT ![next[node]] = node] /\ UNCHANGED next

ListAddNotBack ==
  \/ /\ At("add_prev") /\ Goto("add_next")
     /\ prev' = [prev EXCEPT ![node] = head_] /\ UNCHANGED next
  \/ /\ At("add_next") /\ Goto("add_head")
     /\ next' = [next EXCEPT ![node] = next[head_]] /\ UNCHANGED prev
  \/ /\ At("add_head") /\ Goto("add_size")
     /\ next' = [next EXCEPT ![head_] = node] /\ UNCHANGED prev

ListAdd ==
  \/ /\ At("add_prev") /\ Goto("add_next")
     /\ prev' = [prev EXCEPT ![node] = head_] /\ UNCHANGED next
  \/ /\ At("add_next") /\ Goto("add_back")
     /\ next' = [next EXCEPT ![node] = next[head_]] /\ UNCHANGED prev
  \/ /\ At("add_back") /\ Goto("add_head")
     /\ prev' = [prev EXCEPT ![next[node]] = node] /\ UNCHANGED next
  \/ /\ At("add_head") /\ Goto("add_size")
     /\ next' = [next EXCEPT ![head_] = node] /\ UNCHANGED prev

Add ==
  \/ ListAdd /\ UNCHANGED <<info, allocated, size, node, user, walk>>
  \/ /\ At("add_size") /\ Goto("idle")
     /\ size' = size + 1 /\ node' = head_
     /\ UNCHANGED <<links, info, allocated, user, walk>>

(* operator delete: Del looks for the first node with the address, and if  *)
(* there is one takes it out; then the memory is freed.                    *)
Delete(p) ==
  LET found == {k \in DOMAIN Chain : Recorded[k] = p}
  IN  /\ At("idle")
      /\ p \in held
      /\ held' = held \ {p}
      /\ untracked' = untracked \ {p}
      /\ \/ found = {} /\ UNCHANGED <<pc, node>>
         \/ \E first \in found :
              /\ \A k \in found : first <= k
              /\ node' = Chain[first] /\ Goto("del_next")
      /\ UNCHANGED <<list, exiting, walk>>

ListDel ==
  \/ /\ At("del_next") /\ Goto("del_prev")
     /\ next' = [next EXCEPT ![prev[node]] = next[node]] /\ UNCHANGED prev
  \/ /\ At("del_prev") /\ Goto("del_free")
     /\ prev' = [prev EXCEPT ![next[node]] = prev[node]] /\ UNCHANGED next

(* What a freed node holds nobody may look at; it is as at the start here. *)
Free ==
  /\ At("del_free") /\ Goto("del_size")
  /\ allocated' = allocated \ {node}
  /\ next' = [next EXCEPT ![node] = node] /\ prev' = [prev EXCEPT ![node] = node]
  /\ info' = [info EXCEPT ![node] = Garbage]
  /\ node' = head_
  /\ UNCHANGED <<size, user, walk>>

(* Fault: Del returns as soon as it has freed the node. *)
DelNotCounted ==
  /\ At("del_size")
  /\ IF exiting = "clearing" /\ next[head_] # head_
     THEN Goto("del_next") /\ node' = next[head_] /\ UNCHANGED exiting
     ELSE Goto("idle") /\ exiting' = (IF exiting = "clearing" THEN "yes" ELSE exiting)
          /\ UNCHANGED node
  /\ UNCHANGED <<list, held, untracked, walk>>

(* The end of Del, or of a turn of Clear's loop. *)
DelSize ==
  /\ At("del_size")
  /\ size' = size - 1
  /\ IF exiting = "clearing" /\ next[head_] # head_
     THEN Goto("del_next") /\ node' = next[head_] /\ UNCHANGED exiting
     ELSE Goto("idle") /\ exiting' = (IF exiting = "clearing" THEN "yes" ELSE exiting)
          /\ UNCHANGED node
  /\ UNCHANGED <<links, info, allocated, held, untracked, walk>>

Del ==
  \/ ListDel /\ UNCHANGED <<info, allocated, size, node, user, walk>>
  \/ Free
  \/ DelSize

(* ~MemCheck.  What is deleted later, by the server's destructor, finds an *)
(* empty list.                                                             *)
Clear ==
  /\ At("idle") /\ exiting = "no"
  /\ IF next[head_] = head_
     THEN exiting' = "yes" /\ UNCHANGED <<pc, node>>
     ELSE exiting' = "clearing" /\ node' = next[head_] /\ Goto("del_next")
  /\ UNCHANGED <<list, held, untracked, walk>>

-----------------------------------------------------------------------------
(* TermSigHandler *)

(* A handler: what it does next, what it has printed, and (history) has    *)
(* another come since it began to walk.                                    *)
Handler(s) == [sig |-> s, does |-> "reset", printed |-> << >>, disturbed |-> FALSE]
Disturbed(h) == [h EXCEPT !.disturbed = @ \/ h.does # "reset"]

(* A signal does not interrupt its own handler. *)
Interrupt(s) ==
  /\ sent < MaxSignals
  /\ \A i \in DOMAIN handlers : handlers[i].sig # s
  /\ sent' = sent + 1
  /\ handlers' = <<Handler(s)>> \o [i \in DOMAIN handlers |-> Disturbed(handlers[i])]
  /\ UNCHANGED <<list, pc, node, user, pos>>

Does(d) == handlers # << >> /\ Head(handlers).does = d

(* GetNext sets pos, and then looks at it. *)
GetNextReset ==
  /\ Does("reset")
  /\ pos' = next[head_]
  /\ handlers' = [handlers EXCEPT ![1].does = "look"]

GetNextOn ==
  /\ Does("next")
  /\ pos' = next[pos]
  /\ handlers' = [handlers EXCEPT ![1].does = "look"]

(* As each handler that interrupts it makes a walk begin again at most     *)
(* once, no report is longer than MaxPrinted.                              *)
Report ==
  /\ Does("look") /\ pos # head_
  /\ handlers' = [handlers EXCEPT
       ![1].does = "next",
       ![1].printed = IF Len(@) < MaxPrinted THEN Append(@, info[pos]) ELSE @]
  /\ UNCHANGED pos

Return ==
  /\ Does("look") /\ pos = head_
  /\ handlers' = Tail(handlers)
  /\ UNCHANGED pos

(* Fault: the walk goes on from where the last one ended. *)
HandleSkips ==
  /\ \/ Does("reset") /\ pos' = next[pos] /\ handlers' = [handlers EXCEPT ![1].does = "look"]
     \/ GetNextOn \/ Report \/ Return
  /\ UNCHANGED <<list, pc, node, user, sent>>

Handle ==
  /\ GetNextReset \/ GetNextOn \/ Report \/ Return
  /\ UNCHANGED <<list, pc, node, user, sent>>

-----------------------------------------------------------------------------
MemInit ==
  /\ next = [c \in Cell |-> c] /\ prev = [c \in Cell |-> c]
  /\ info = [n \in Node |-> Garbage] /\ allocated = {} /\ size = 0
  /\ pc = "idle" /\ node = head_
  /\ held = {} /\ untracked = {} /\ exiting = "no"
  /\ pos = head_ /\ handlers = << >> /\ sent = 0

MemNext ==
  \/ \E p \in Ptr : New(p) \/ Delete(p)
  \/ Add \/ Del \/ Clear
  \/ \E s \in Signal : Interrupt(s)
  \/ Handle

(* A handler runs on, and nothing in it blocks. *)
MemSpec == MemInit /\ [][MemNext]_memVars
FairMemSpec == MemSpec /\ WF_memVars(Handle)

-----------------------------------------------------------------------------
(* Properties *)

MemTypeOK ==
  /\ next \in [Cell -> Cell] /\ prev \in [Cell -> Cell]
  /\ info \in [Node -> Ptr] /\ allocated \subseteq Node
  /\ size \in 0 .. Cardinality(Node)
  /\ pc \in {"idle", "add_prev", "add_next", "add_back", "add_head", "add_size",
             "del_next", "del_prev", "del_free", "del_size"}
  /\ node \in Cell /\ pos \in Cell
  /\ untracked \subseteq held /\ held \subseteq Ptr
  /\ exiting \in {"no", "clearing", "yes"}
  /\ handlers \in Seq([sig : Signal, does : {"reset", "look", "next"},
                       printed : Seq(Ptr), disturbed : BOOLEAN])
  /\ sent \in 0 .. MaxSignals

(* Wherever a signal interrupts Add, Del or Clear, the list leads from     *)
(* head_ through memory that is not freed back to head_, so that the       *)
(* handler ends and reads nothing it must not; and the position GetNext    *)
(* keeps is on it while anybody uses it.                                   *)
WalkStaysOnList ==
  /\ Follow(next)[Cardinality(Node)] = head_
  /\ Range(Chain) \subseteq allocated
  /\ (\E i \in DOMAIN handlers : handlers[i].does # "reset") =>
       pos \in Range(Chain) \cup {head_}

(* The report of a handler that no other interrupts names each allocation  *)
(* that is recorded, once, the newest first.  One that is interrupted may  *)
(* name some again, or leave some out.                                     *)
ReportIsWhole ==
  [][ Len(handlers') < Len(handlers) /\ ~ handlers[1].disturbed
        => handlers[1].printed = Recorded ]_handlers

(* Every handler ends. *)
HandlersEnd == handlers # << >> ~> handlers = << >>

(* The pointers keep the list AllocLog promises: each allocation is put in *)
(* and taken out by one assignment.                                        *)
Log == INSTANCE AllocLog WITH log <- Recorded
KeepsLog == Log!LogSpec

=============================================================================
