--------------------------- MODULE MC_CoverageJobs ---------------------------
(* Small instances of the ingestion workers.                                 *)
EXTENDS CoverageJobs, TLC
CONSTANTS s1, s2, old, c1, w1, w2, m1
Interchangeable == Permutations(Workers)
===============================================================================
