---------------------------- MODULE MCConnector -----------------------------
(* Connector with a few commands of a few bytes. *)
EXTENDS Connector, TLC
LOCAL INSTANCE SequencesExt

Ends(lens) ==
  [c \in 0 .. Len(lens) |-> FoldSeq(LAMBDA l, sum : l + sum, 0, SubSeq(lens, 1, c))]

FourCmds == Ends(<<3, 2, 4, 2>>)
ShortCmds == Ends(<<1, 1, 2, 1>>)
TooLong == Ends(<<2, 3, 2, 6>>)

=============================================================================
