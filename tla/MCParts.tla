------------------------------ MODULE MCParts ------------------------------
(***************************************************************************)
(* The parts of the program that keep their state to themselves, the       *)
(* memory checker, a buffer and the configuration, in one run: a behaviour *)
(* is one of the part chosen at its start, and the others stand still.     *)
(***************************************************************************)
EXTENDS MemCheck, Buffer, Config

CONSTANTS spc, nl, hash, minus, x, y      (* characters *)

VARIABLE part

Parts == {"memory", "buffer", "config"}

PartsInit ==
  /\ part \in Parts
  /\ MemInit
  /\ IF part = "buffer" THEN BufInit
     ELSE lenth = 0 /\ base \in Arrays(0) /\ fpos = 0 /\ tpos = 0
  /\ IF part = "config" THEN ConfInit
     ELSE file = << >> /\ exists = FALSE /\ fp = 0 /\ dict = << >> /\ reading = FALSE

PartsNext ==
  /\ UNCHANGED part
  /\ \/ part = "memory" /\ MemNext  /\ UNCHANGED <<bufVars, confVars>>
     \/ part = "buffer" /\ BufNext  /\ UNCHANGED <<memVars, confVars>>
     \/ part = "config" /\ ConfNext /\ UNCHANGED <<memVars, bufVars>>

PartsSpec ==
  /\ PartsInit /\ [][PartsNext]_<<part, memVars, bufVars, confVars>>
  /\ WF_memVars(Handle)

(* Every variable of the three keeps its type. *)
PartsTypeOK == MemTypeOK /\ BufTypeOK /\ ConfTypeOK

-----------------------------------------------------------------------------
MCLetter == {x, y}

(* The numbers asked for are those named x and y. *)
MCDefault == [name \in {<<x>>, <<y>>} |-> 9]

(* Lines: with and without blanks, numbers, comments; and two longer than  *)
(* MAX_LINE_SIZE, one of them a comment whose end reads as a setting.      *)
Lines ==
  { << >>, <<spc, spc>>, <<x>>, <<x, spc, 1>>, <<spc, x, spc, spc, minus, 3, spc>>,
    <<y, spc, 4, 2, spc, 5>>, <<hash, x, spc, 6>>, <<spc, hash, spc, x>>, <<x, y, spc, 7>>,
    <<hash, spc, y, spc, y, y, y, x, spc, 8>>, <<x, spc, 1, spc, 2, spc, 3, spc, 4>> }

(* Files of up to two of them, with or without the last end. *)
MCFiles ==
  UNION { {l, l \o <<nl>>} \cup {l \o <<nl>> \o m : m \in Lines} : l \in Lines }

=============================================================================
