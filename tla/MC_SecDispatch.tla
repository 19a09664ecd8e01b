--------------------------- MODULE MC_SecDispatch ---------------------------
(* A small instance: two requests of one process, and one of another.        *)
EXTENDS SecDispatch, TLC
CONSTANTS r1, r2, r3, p1, p2
LastElsewhere == [r \in Requests |-> IF r = r3 THEN p2 ELSE p1]
=============================================================================
