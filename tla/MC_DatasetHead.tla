---------------------------- MODULE MC_DatasetHead ----------------------------
(* A small instance of the data store's heads, called by anyone at any time. *)
EXTENDS DatasetHead, TLC
CONSTANTS k1, o1, o2, a, b, c
InterchangeableIds == Permutations(Identities)
===============================================================================
