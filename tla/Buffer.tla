------------------------------- MODULE Buffer -------------------------------
(***************************************************************************)
(* Buffer of src/echo_svr/connector.h: an array of which the part from     *)
(* fpos to tpos is in use.  Its owner, src/echo_svr/connector.cpp, moves   *)
(* what is in use to the left, writes at TailPos no more than RemainSize   *)
(* bytes and advances the tail over them; and reads at FrontPos and        *)
(* advances the front.  The two steps of each are taken apart, as a        *)
(* callback that reads comes between them.                                 *)
(***************************************************************************)
EXTENDS Integers, Sequences

CONSTANTS
  Byte,        (* what a byte can be                                       *)
  MaxSize      (* the largest size there is memory for                     *)

ASSUME BufferAssumption == MaxSize \in Nat

VARIABLES
  base,        (* the array, from 0 on                                     *)
  lenth,       (* its length                                               *)
  fpos, tpos   (* where what is in use begins, and where it ends           *)

bufVars == <<base, lenth, fpos, tpos>>

Arrays(size) == [0 .. size - 1 -> Byte]

UsedSize == tpos - fpos
RemainSize == lenth - tpos

-----------------------------------------------------------------------------
(* Resize copies the array, new memory being whatever it is, and forgets   *)
(* what was in use.                                                        *)
Resize(size) ==
  /\ lenth' = size
  /\ \E rest \in Arrays(size) :
       base' = [i \in 0 .. size - 1 |-> IF i < lenth THEN base[i] ELSE rest[i]]
  /\ fpos' = 0 /\ tpos' = 0

FrontAdvancing(step_size) ==
  /\ IF fpos + step_size > tpos THEN UNCHANGED <<fpos, tpos>>
     ELSE IF fpos + step_size = tpos THEN fpos' = 0 /\ tpos' = 0
     ELSE fpos' = fpos + step_size /\ UNCHANGED tpos
  /\ UNCHANGED <<base, lenth>>

(* read or memcpy to TailPos, and TailAdvancing. *)
Fill(s) ==
  /\ Len(s) <= RemainSize
  /\ base' = [i \in DOMAIN base |->
                IF i \in tpos .. tpos + Len(s) - 1 THEN s[i - tpos + 1] ELSE base[i]]
  /\ tpos' = IF tpos + Len(s) > lenth THEN tpos ELSE tpos + Len(s)
  /\ UNCHANGED <<lenth, fpos>>

(* Fault: the end stays where it was. *)
MoveKeepsEnd ==
  /\ fpos # 0
  /\ base' = [i \in DOMAIN base |-> IF i < UsedSize THEN base[fpos + i] ELSE base[i]]
  /\ fpos' = 0
  /\ UNCHANGED <<tpos, lenth>>

MemoryMove2Left ==
  /\ fpos # 0
  /\ base' = [i \in DOMAIN base |-> IF i < UsedSize THEN base[fpos + i] ELSE base[i]]
  /\ tpos' = tpos - fpos
  /\ fpos' = 0
  /\ UNCHANGED lenth

-----------------------------------------------------------------------------
BufInit ==
  /\ lenth \in 0 .. MaxSize
  /\ base \in Arrays(lenth)
  /\ fpos = 0 /\ tpos = 0

(* An advance past the end is tried too; it is ignored. *)
BufNext ==
  \/ \E size \in 0 .. MaxSize : Resize(size)
  \/ \E step_size \in 0 .. MaxSize + 1 : FrontAdvancing(step_size)
  \/ \E n \in 0 .. MaxSize : \E s \in [1 .. n -> Byte] : Fill(s)
  \/ MemoryMove2Left

BufSpec == BufInit /\ [][BufNext]_bufVars

-----------------------------------------------------------------------------
(* Properties *)

(* The positions stay inside the array, in their order, and an empty       *)
(* buffer whose front has moved begins at 0 again, so that nothing is      *)
(* moved for it.                                                           *)
BufTypeOK ==
  /\ lenth \in 0 .. MaxSize
  /\ base \in Arrays(lenth)
  /\ fpos \in 0 .. tpos /\ tpos \in 0 .. lenth
  /\ fpos = tpos => fpos = 0

Contents == [i \in 1 .. UsedSize |-> base[fpos + i - 1]]

(* The positions, the move to the left and the jump back to 0 keep the     *)
(* bytes of a queue, each in its place; and each operation does to the     *)
(* queue what it is there for, moving to the left nothing.                 *)
Queue == INSTANCE ByteQueue WITH queue <- Contents, size <- lenth

OperationsAgree ==
  /\ \A size \in 0 .. MaxSize : Resize(size) => Queue!Renew
  /\ \A step_size \in 0 .. MaxSize + 1 : FrontAdvancing(step_size) =>
       IF step_size <= UsedSize THEN Queue!Take(step_size) ELSE UNCHANGED <<Contents, lenth>>
  /\ \A n \in 0 .. MaxSize : \A s \in [1 .. n -> Byte] : Fill(s) => Queue!Put(s)
  /\ MemoryMove2Left => UNCHANGED <<Contents, lenth>>

KeepsQueue == Queue!QueueSpec /\ [][OperationsAgree]_bufVars

=============================================================================
