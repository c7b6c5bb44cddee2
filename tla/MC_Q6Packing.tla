--------------------------- MODULE MC_Q6Packing ---------------------------
(* Heap pages without and with a prune hint, of negative and of positive *)
(* length; tuples of two lengths; lines without a tuple of length 0 and  *)
(* of negative length.                                                   *)
EXTENDS Q6Packing

PruneHint == {-1, 0, 1}
SmallLens == {1, 2}
NoTuple == {-1, 0}
===========================================================================
