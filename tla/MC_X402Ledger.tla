----------------------------- MODULE MC_X402Ledger -----------------------------
(* A small instance of the ledger called by anyone at any time.              *)
EXTENDS X402Ledger, TLC
CONSTANTS p1, p2, r1, r2, t1, t2, x1, x2
InterchangeableTxs == Permutations(Txs)
===============================================================================
