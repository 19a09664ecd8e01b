--------------------------- MODULE MC_PreparedData ---------------------------
(* A small instance of refreshing a source and preparing an output.          *)
EXTENDS PreparedData, TLC
CONSTANTS r1, r2, r3, q1, q2, here, there, i1, i2, a, b
\* One process runs the last refresher and preparer, and serves other requests.
LastOnesHere == [w \in Workers |-> IF w \in {r3, q2} THEN here ELSE there]
SourceReadHere == {<<here, Source>>}
Interchangeable == Permutations(Reads) \cup Permutations(Refreshers \ {r3})
\* Revision 3 brings back the content of revision 1.
Reverting == [s \in Stamps |-> IF s % 2 = 1 THEN a ELSE b]

Run(workers) == pc = [w \in Workers |-> IF w \in workers THEN "idle" ELSE "done"]

\* Three refreshers of a source that changes twice, or changes once with time for
\* one lapse.
Sharing == /\ Run(Refreshers) /\ failures = MaxFailures
           /\ \/ now = MaxNow /\ revision = 1
              \/ now = 1 /\ revision = 2

\* Two refreshers that outlive their leases, and one of them gives up.
GivingUp == Run({r1, r2}) /\ now = 0 /\ failures = 1 /\ revision = 1

\* Two refreshers and two preparers, while the source moves.
Preparing == Run({r1, r2, q1, q2}) /\ now = MaxNow /\ failures = MaxFailures /\ revision = 2

MCInit == Init /\ (Sharing \/ GivingUp \/ Preparing)
MCSpec == MCInit /\ [][Next]_vars
===============================================================================
