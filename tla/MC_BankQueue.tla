----------------------------- MODULE MC_BankQueue -----------------------------
(* A small instance of the bank queue.                                       *)
EXTENDS BankQueue, TLC
CONSTANTS b, w1, w2
\* What was filed first validates; what amends it may not.
Read == [n \in Versions |-> IF n = 1 THEN {"passed"} ELSE {"passed", "failed"}]
\* The quarter may leave the catalog and come back.
Rolling == {{1}, {}}
===============================================================================
