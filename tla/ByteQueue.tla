----------------------------- MODULE ByteQueue ------------------------------
(***************************************************************************)
(* What a connection needs of its buffers: bytes are put in at the back    *)
(* and taken at the front, none is lost, and there is room for size of     *)
(* them.  Connector keeps its two buffers in this form.                    *)
(***************************************************************************)
EXTENDS Integers, Sequences

CONSTANTS
  Byte,
  MaxSize      (* the largest size there is memory for *)

VARIABLES queue, size

queueVars == <<queue, size>>

QueueInit == queue = << >> /\ size \in 0 .. MaxSize

Put(s) ==
  /\ Len(queue) + Len(s) <= size
  /\ queue' = queue \o s
  /\ UNCHANGED size

Take(n) ==
  /\ n <= Len(queue)
  /\ queue' = SubSeq(queue, n + 1, Len(queue))
  /\ UNCHANGED size

(* A new size empties it. *)
Renew == queue' = << >> /\ size' \in 0 .. MaxSize

QueueNext ==
  \/ \E n \in 0 .. MaxSize : \E s \in [1 .. n -> Byte] : Put(s)
  \/ \E n \in 0 .. MaxSize : Take(n)
  \/ Renew

QueueSpec == QueueInit /\ [][QueueNext]_queueVars

=============================================================================
