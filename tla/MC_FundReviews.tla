---------------------------- MODULE MC_FundReviews ----------------------------
(* A small instance of the shared reviews.                                   *)
EXTENDS FundReviews, TLC
CONSTANTS j1, j2, j3, a, b, h1, h2, w1
\* The second report lists a holding less; the third is the first again.
Listed == (a :> {h1, h2}) @@ (b :> {h1})
Reverting == [s \in Stamps |-> IF s % 2 = 1 THEN a ELSE b]
Interchangeable == Permutations(Jobs)

\* Beside a forgotten job only one other exists, its report is short, neither has
\* gaps or is about to be replaced by its worker, no lease sees its end and only one
\* that has just begun another day.
Crowd ==
    Cardinality(Present) > 1 =>
        /\ Cardinality({j \in Present : ~job[j].forgotten}) <= 1
        /\ \A j \in Present : /\ job[j].forgotten \/ job[j].report = b
                              /\ job[j].state # "gaps"
                              /\ job[j].lease \in 1 .. Lease - 1 => job[j].today
        /\ worked < Lease
        /\ \A m \in wire : m.op # "enqueue"
        /\ \A w \in Workers : worker[w].at # "replacing"

\* The last stamp brings the first report back.  A job of that stamp is alone, and
\* what it meets are the calls of its past; it is not followed further.
Returned ==
    \A j \in Present : job[j].checked = MaxStamp =>
        Present = {j} /\ job[j] = Bound(j, MaxStamp)

Small == Crowd /\ Returned
===============================================================================
