------------------------------ MODULE MCTreeMT ------------------------------
(* Instance of TreeMT: every array of NNumbers small values. *)
EXTENDS TreeMT

SmallVals == 1 .. 4

=============================================================================
