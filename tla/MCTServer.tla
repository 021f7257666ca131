----------------------------- MODULE MCTServer ------------------------------
(* TServer: all its constants are numbers and truth values. *)
EXTENDS TServer, TLC

=============================================================================
