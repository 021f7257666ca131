------------------------------ MODULE AllocLog ------------------------------
(***************************************************************************)
(* What src/src/nf_mem_check.h promises: a list of the allocations in use, *)
(* the newest first, which at every moment is whole.                       *)
(***************************************************************************)
EXTENDS Sequences, SequencesExt

CONSTANT Ptr          (* addresses malloc returns *)

VARIABLE log          (* the allocations recorded *)

Record(p) == log' = <<p>> \o log

(* Of an address that is recorded twice the newest is forgotten. *)
Forget(p) == \E i \in 1 .. Len(log) :
               /\ log[i] = p
               /\ \A j \in 1 .. i - 1 : log[j] # p
               /\ log' = RemoveAt(log, i)

LogInit == log = << >>
LogNext == \E p \in Ptr : Record(p) \/ Forget(p)
LogSpec == LogInit /\ [][LogNext]_log

=============================================================================
