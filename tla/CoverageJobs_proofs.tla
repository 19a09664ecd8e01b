------------------------- MODULE CoverageJobs_proofs -------------------------
(* The queue's workers for any jobs, workers, migrators and sizes: types and *)
(* the completeness of the cohort; and, without migrators, valid checkpoints, *)
(* visited shards and progress that loses at most one visit.                 *)
EXTENDS CoverageJobs, FiniteSetTheorems, TLAPS

-------------------------------------------------------------------------------
(* Checkpoints of shards.                                                    *)

\* What is left of the attempts of the issuers that are to be retried.
Spare(retries) ==
    {p \in retries \X (1..MaxIssuerAttempts) : p[2] > p[1].attempts}

\* An issuer is on one list once, and the visits made and left add up.
Sound(cp) ==
    /\ cp.schema \in {1, 2}
    /\ cp.cursor \in 0..ShardSize
    /\ IsFiniteSet(cp.retries) /\ IsFiniteSet(cp.failures)
    /\ \A e \in cp.retries : /\ e.index < cp.cursor
                             /\ e.attempts \in 1..(MaxIssuerAttempts - 1)
                             /\ e.index \notin cp.failures
    /\ \A e, f \in cp.retries : e.index = f.index => e = f
    /\ \A i \in cp.failures : i < cp.cursor
    /\ cp.succeeded + Cardinality(cp.retries) + Cardinality(cp.failures) = cp.cursor
    /\ cp.workCount >= cp.cursor + Cardinality(Redone(cp.retries))
    /\ cp.workCount + Cardinality(Spare(cp.retries)) <= cp.cursor * MaxIssuerAttempts

\* The parts of a checkpoint.
LEMMA CheckpointTypes ==
    ASSUME NEW cp \in Checkpoint
    PROVE  /\ cp.schema \in 0..2 /\ cp.cursor \in Nat /\ cp.succeeded \in Nat
           /\ cp.workCount \in Nat
           /\ cp.retries \in SUBSET [index: Nat, attempts: Nat]
           /\ cp.failures \in SUBSET Nat
BY DEF Checkpoint

\* Sets that share nothing add up.
LEMMA DisjointUnion ==
    ASSUME NEW S, NEW T, IsFiniteSet(S), IsFiniteSet(T), S \cap T = {}
    PROVE  /\ IsFiniteSet(S \cup T)
           /\ Cardinality(S \cup T) = Cardinality(S) + Cardinality(T)
           /\ Cardinality(S) \in Nat /\ Cardinality(T) \in Nat
<1>1. Cardinality(S \cap T) = 0
  BY FS_EmptySet, Zenon
<1>2. Cardinality(S) \in Nat /\ Cardinality(T) \in Nat
  BY FS_CardinalityType
<1>3. /\ IsFiniteSet(S \cup T)
      /\ Cardinality(S \cup T) = Cardinality(S) + Cardinality(T) - Cardinality(S \cap T)
  BY FS_Union
<1> QED
  BY <1>1, <1>2, <1>3

\* Pairs of one entry with the numbers of an interval are as many as these.
Pairs(e, a, b) == {e} \X (a..b)

\* A pair for every number of the interval.
LEMMA PairsOfOne ==
    ASSUME NEW e, NEW a \in Nat, NEW b \in Nat, a <= b + 1
    PROVE  IsFiniteSet(Pairs(e, a, b)) /\ Cardinality(Pairs(e, a, b)) = b + 1 - a
<1> USE DEF Pairs
<1> DEFINE f == [n \in a..b |-> <<e, n>>]
           T == {e} \X (a..b)
<1>1. f \in Bijection(a..b, T)
  <2>1. f \in [a..b -> T]
    OBVIOUS
  <2>2. \A m, n \in a..b : f[m] = f[n] => m = n
    OBVIOUS
  <2>3. \A t \in T : \E n \in a..b : f[n] = t
    OBVIOUS
  <2> QED
    BY <2>1, <2>2, <2>3 DEF Bijection, Injection, IsInjective, Surjection
<1>2. IsFiniteSet(a..b) /\ Cardinality(a..b) = b + 1 - a
  BY FS_Interval
<1>3. ExistsBijection(a..b, T)
  BY <1>1 DEF ExistsBijection
<1> QED
  BY <1>2, <1>3, FS_Bijection

\* The sums over the retry list, entry by entry.
LEMMA SumsOfEmpty ==
    /\ Redone({}) = {} /\ Spare({}) = {}
    /\ IsFiniteSet({}) /\ Cardinality({}) = 0
BY FS_EmptySet DEF Redone, Spare

\* The sums of a list of one entry.
LEMMA SumsOfOne ==
    ASSUME NEW e, e.attempts \in 1..(MaxIssuerAttempts - 1)
    PROVE  /\ IsFiniteSet(Redone({e})) /\ Cardinality(Redone({e})) = e.attempts - 1
           /\ IsFiniteSet(Spare({e}))
           /\ Cardinality(Spare({e})) = MaxIssuerAttempts - e.attempts
<1> DEFINE n == e.attempts
<1>0. MaxIssuerAttempts \in Nat /\ n \in Nat /\ n >= 1 /\ n < MaxIssuerAttempts
  BY CoverageAssumption
<1>1. Redone({e}) = Pairs(e, 2, n)
  BY <1>0 DEF Redone, Pairs
<1>2. Spare({e}) = Pairs(e, n + 1, MaxIssuerAttempts)
  BY <1>0 DEF Spare, Pairs
<1> HIDE DEF n
<1>3. IsFiniteSet(Pairs(e, 2, n)) /\ Cardinality(Pairs(e, 2, n)) = n + 1 - 2
  BY <1>0, PairsOfOne
<1>4. /\ IsFiniteSet(Pairs(e, n + 1, MaxIssuerAttempts))
      /\ Cardinality(Pairs(e, n + 1, MaxIssuerAttempts)) = MaxIssuerAttempts + 1 - (n + 1)
  BY <1>0, PairsOfOne
<1>5. Cardinality(Redone({e})) = n - 1 /\ Cardinality(Spare({e})) = MaxIssuerAttempts - n
  BY <1>0, <1>1, <1>2, <1>3, <1>4
<1> QED
  BY <1>1, <1>2, <1>3, <1>4, <1>5 DEF n

\* Adding an entry.
LEMMA SumsAdd ==
    ASSUME NEW S, NEW e, e \notin S, e.attempts \in 1..(MaxIssuerAttempts - 1),
           IsFiniteSet(Redone(S)), IsFiniteSet(Spare(S))
    PROVE  /\ IsFiniteSet(Redone(S \cup {e})) /\ IsFiniteSet(Spare(S \cup {e}))
           /\ Cardinality(Redone(S \cup {e})) = Cardinality(Redone(S)) + e.attempts - 1
           /\ Cardinality(Spare(S \cup {e}))
                = Cardinality(Spare(S)) + MaxIssuerAttempts - e.attempts
<1>1. Redone(S \cup {e}) = Redone(S) \cup Redone({e}) /\ Redone(S) \cap Redone({e}) = {}
  BY DEF Redone
<1>2. Spare(S \cup {e}) = Spare(S) \cup Spare({e}) /\ Spare(S) \cap Spare({e}) = {}
  BY DEF Spare
<1> DEFINE A == Redone(S)  B == Redone({e})  C == Spare(S)  D == Spare({e})
<1>3. /\ IsFiniteSet(B) /\ Cardinality(B) = e.attempts - 1
      /\ IsFiniteSet(D) /\ Cardinality(D) = MaxIssuerAttempts - e.attempts
  BY SumsOfOne
<1>4. IsFiniteSet(A) /\ IsFiniteSet(C) /\ A \cap B = {} /\ C \cap D = {}
  BY <1>1, <1>2
<1>5. e.attempts \in Nat /\ MaxIssuerAttempts \in Nat
  BY CoverageAssumption
<1> HIDE DEF A, B, C, D
<1>6. /\ IsFiniteSet(A \cup B) /\ Cardinality(A \cup B) = Cardinality(A) + e.attempts - 1
      /\ IsFiniteSet(C \cup D)
      /\ Cardinality(C \cup D) = Cardinality(C) + MaxIssuerAttempts - e.attempts
  <2>1. /\ IsFiniteSet(A \cup B) /\ Cardinality(A \cup B) = Cardinality(A) + Cardinality(B)
        /\ Cardinality(A) \in Nat
    BY <1>3, <1>4, DisjointUnion
  <2>2. /\ IsFiniteSet(C \cup D) /\ Cardinality(C \cup D) = Cardinality(C) + Cardinality(D)
        /\ Cardinality(C) \in Nat
    BY <1>3, <1>4, DisjointUnion
  <2> QED
    BY <1>3, <1>5, <2>1, <2>2
<1> QED
  BY <1>1, <1>2, <1>6 DEF A, B, C, D

\* A finite list has finite sums.
LEMMA SumsFinite ==
    ASSUME NEW S, IsFiniteSet(S)
    PROVE  IsFiniteSet(Redone(S)) /\ IsFiniteSet(Spare(S))
<1>1. IsFiniteSet(2..MaxIssuerAttempts) /\ IsFiniteSet(1..MaxIssuerAttempts)
  BY CoverageAssumption, FS_Interval
<1>2. /\ IsFiniteSet(S \X (2..MaxIssuerAttempts))
      /\ IsFiniteSet(S \X (1..MaxIssuerAttempts))
  BY <1>1, FS_Product
<1>3. /\ Redone(S) \in SUBSET (S \X (2..MaxIssuerAttempts))
      /\ Spare(S) \in SUBSET (S \X (1..MaxIssuerAttempts))
  BY DEF Redone, Spare
<1> QED
  BY <1>2, <1>3, FS_Subset

\* Removing an entry.
LEMMA SumsRemove ==
    ASSUME NEW S, NEW e \in S, e.attempts \in 1..(MaxIssuerAttempts - 1), IsFiniteSet(S)
    PROVE  /\ Cardinality(Redone(S)) = Cardinality(Redone(S \ {e})) + e.attempts - 1
           /\ Cardinality(Spare(S))
                = Cardinality(Spare(S \ {e})) + MaxIssuerAttempts - e.attempts
<1> DEFINE R == S \ {e}
<1>1. IsFiniteSet(R)
  BY FS_RemoveElement
<1>2. S = R \cup {e} /\ e \notin R
  OBVIOUS
<1> HIDE DEF R
<1>3. IsFiniteSet(Redone(R)) /\ IsFiniteSet(Spare(R))
  BY <1>1, SumsFinite
<1>4. /\ Cardinality(Redone(R \cup {e})) = Cardinality(Redone(R)) + e.attempts - 1
      /\ Cardinality(Spare(R \cup {e})) = Cardinality(Spare(R)) + MaxIssuerAttempts - e.attempts
  BY <1>2, <1>3, SumsAdd
<1> QED
  BY <1>2, <1>4 DEF R

\* A sound checkpoint is one that a claim accepts.
LEMMA SoundIsValid ==
    ASSUME NEW cp \in Checkpoint, Sound(cp)
    PROVE  ValidCheckpoint(cp)
<1> DEFINE listed == {e.index : e \in cp.retries}
           index == [e \in cp.retries |-> e.index]
<1>1. /\ cp.schema \in {1, 2} /\ cp.cursor \in Nat /\ cp.cursor \in 0..ShardSize
      /\ cp.workCount \in Nat /\ cp.succeeded \in Nat
      /\ cp.retries \in SUBSET [index: Nat, attempts: Nat] /\ cp.failures \in SUBSET Nat
      /\ IsFiniteSet(cp.retries) /\ IsFiniteSet(cp.failures)
  BY CheckpointTypes DEF Sound
<1>2. index \in Bijection(cp.retries, listed)
  <2>1. index \in [cp.retries -> listed]
    OBVIOUS
  <2>2. \A e, f \in cp.retries : index[e] = index[f] => e = f
    BY DEF Sound
  <2>3. \A i \in listed : \E e \in cp.retries : index[e] = i
    OBVIOUS
  <2> QED
    BY <2>1, <2>2, <2>3 DEF Bijection, Injection, IsInjective, Surjection
<1>3. IsFiniteSet(listed) /\ Cardinality(listed) = Cardinality(cp.retries)
  BY <1>1, <1>2, FS_Bijection DEF ExistsBijection
<1>4. listed \cap cp.failures = {}
  BY DEF Sound
<1>5. listed \cup cp.failures \subseteq 0..(cp.cursor - 1)
  BY <1>1 DEF Sound
<1> HIDE DEF listed
<1>6. Cardinality(listed \cup cp.failures) = Cardinality(cp.retries) + Cardinality(cp.failures)
  <2>1. Cardinality(listed \cup cp.failures) = Cardinality(listed) + Cardinality(cp.failures)
    BY <1>1, <1>3, <1>4, DisjointUnion
  <2> QED
    BY <1>3, <2>1
<1>7. /\ Cardinality(Redone(cp.retries)) \in Nat /\ Cardinality(Spare(cp.retries)) \in Nat
      /\ Cardinality(cp.retries) \in Nat /\ Cardinality(cp.failures) \in Nat
  BY <1>1, SumsFinite, FS_CardinalityType
<1>8. cp.cursor * MaxIssuerAttempts \in Nat
  BY <1>1, CoverageAssumption
<1>9. cp.workCount \in (cp.cursor + Cardinality(Redone(cp.retries)))..(cp.cursor * MaxIssuerAttempts)
  <2> DEFINE top == cp.cursor * MaxIssuerAttempts
             redone == Cardinality(Redone(cp.retries))
             spare == Cardinality(Spare(cp.retries))
  <2>1. cp.workCount >= cp.cursor + redone /\ cp.workCount + spare <= top
    BY DEF Sound
  <2>2. top \in Nat /\ redone \in Nat /\ spare \in Nat
    BY <1>7, <1>8
  <2> HIDE DEF top, redone, spare
  <2>3. cp.workCount \in (cp.cursor + redone)..top
    BY <1>1, <2>1, <2>2
  <2> QED
    BY <2>3 DEF top, redone
<1>10. \A e \in cp.retries : e.attempts \in 1..(MaxIssuerAttempts - 1)
  BY DEF Sound
<1>11. cp.succeeded + (Cardinality(cp.retries) + Cardinality(cp.failures)) = cp.cursor
  BY <1>1, <1>7 DEF Sound
<1> QED
  BY <1>1, <1>5, <1>6, <1>9, <1>10, <1>11 DEF ValidCheckpoint, listed

\* The sums of a list and of the entries other than those of one issuer.
Others(retries, i) == {e \in retries : e.index # i}

\* Between taking an issuer off its list and putting it on another, it is the
\* one that is missing from the sums.
OneMissing(cp, kept, i, attempts, cursor) ==
    /\ cp.cursor <= cursor /\ cursor \in 0..ShardSize /\ i < cursor
    /\ attempts \in 1..MaxIssuerAttempts
    /\ IsFiniteSet(kept)
    /\ i \notin cp.failures
    /\ cp.succeeded + Cardinality(kept) + Cardinality(cp.failures) + 1 = cursor
    /\ cp.workCount + 1 >= cursor + Cardinality(Redone(kept)) + attempts - 1
    /\ cp.workCount + 1 + Cardinality(Spare(kept)) + MaxIssuerAttempts - attempts
          <= cursor * MaxIssuerAttempts

\* The first visit of an issuer moves the cursor over it.
LEMMA FirstVisitTakes ==
    ASSUME NEW cp \in Checkpoint, Sound(cp), cp.cursor < ShardSize
    PROVE  OneMissing(cp, Others(cp.retries, cp.cursor), cp.cursor, 1, cp.cursor + 1)
<1> DEFINE c == cp.cursor
           top == c * MaxIssuerAttempts
           redone == Cardinality(Redone(cp.retries))
           spare == Cardinality(Spare(cp.retries))
           listed == Cardinality(cp.retries)
           failed == Cardinality(cp.failures)
<1>1. /\ c \in Nat /\ cp.workCount \in Nat /\ cp.succeeded \in Nat
      /\ cp.retries \in SUBSET [index: Nat, attempts: Nat] /\ cp.failures \in SUBSET Nat
      /\ MaxIssuerAttempts \in Nat /\ MaxIssuerAttempts >= 1 /\ ShardSize \in Nat
  BY CheckpointTypes, CoverageAssumption
<1>2. Others(cp.retries, c) = cp.retries
  BY <1>1 DEF Sound, Others
<1>3. c \notin cp.failures
  BY <1>1 DEF Sound
<1>4. /\ IsFiniteSet(cp.retries) /\ IsFiniteSet(cp.failures)
      /\ cp.succeeded + listed + failed = c
      /\ cp.workCount >= c + redone
      /\ cp.workCount + spare <= top
  BY DEF Sound
<1>5. redone \in Nat /\ spare \in Nat /\ listed \in Nat /\ failed \in Nat
  BY <1>4, SumsFinite, FS_CardinalityType
<1>6. top \in Nat /\ (c + 1) * MaxIssuerAttempts = top + MaxIssuerAttempts
  BY <1>1
<1> HIDE DEF top, redone, spare, listed, failed
<1>7. /\ cp.succeeded + listed + failed + 1 = c + 1
      /\ cp.workCount + 1 >= c + 1 + redone + 1 - 1
      /\ cp.workCount + 1 + spare + MaxIssuerAttempts - 1 <= (c + 1) * MaxIssuerAttempts
  BY <1>1, <1>4, <1>5, <1>6
<1> QED
  BY <1>1, <1>2, <1>3, <1>4, <1>7 DEF OneMissing, redone, spare, listed, failed

\* A later visit takes the issuer off the retry list.
LEMMA LaterVisitTakes ==
    ASSUME NEW cp \in Checkpoint, Sound(cp), NEW e \in cp.retries
    PROVE  /\ Others(cp.retries, e.index) = cp.retries \ {e}
           /\ OneMissing(cp, Others(cp.retries, e.index), e.index, e.attempts + 1, cp.cursor)
<1> DEFINE c == cp.cursor
           n == e.attempts
           kept == cp.retries \ {e}
           top == c * MaxIssuerAttempts
           redone == Cardinality(Redone(kept))
           spare == Cardinality(Spare(kept))
           listed == Cardinality(kept)
           failed == Cardinality(cp.failures)
<1>1. /\ c \in Nat /\ cp.workCount \in Nat /\ cp.succeeded \in Nat
      /\ MaxIssuerAttempts \in Nat /\ ShardSize \in Nat
      /\ n \in Nat /\ n \in 1..(MaxIssuerAttempts - 1) /\ e.index \in Nat
      /\ e.index < c /\ e.index \notin cp.failures /\ c \in 0..ShardSize
  BY CheckpointTypes, CoverageAssumption DEF Sound
<1>2. Others(cp.retries, e.index) = kept
  BY DEF Sound, Others
<1>3. IsFiniteSet(cp.retries) /\ IsFiniteSet(cp.failures)
  BY DEF Sound
<1>4. IsFiniteSet(kept) /\ Cardinality(cp.retries) = listed + 1
  <2>1. /\ IsFiniteSet(kept) /\ listed = Cardinality(cp.retries) - 1
        /\ Cardinality(cp.retries) \in Nat
    BY <1>3, FS_RemoveElement, FS_CardinalityType
  <2> HIDE DEF kept
  <2> QED
    BY <2>1
<1>5. redone \in Nat /\ spare \in Nat /\ listed \in Nat /\ failed \in Nat
  <2> HIDE DEF kept
  <2> QED
    BY <1>3, <1>4, SumsFinite, FS_CardinalityType
<1>6. /\ Cardinality(Redone(cp.retries)) = redone + n - 1
      /\ Cardinality(Spare(cp.retries)) = spare + MaxIssuerAttempts - n
  BY <1>1, <1>3, SumsRemove
<1>7. /\ cp.succeeded + Cardinality(cp.retries) + failed = c
      /\ cp.workCount >= c + Cardinality(Redone(cp.retries))
      /\ cp.workCount + Cardinality(Spare(cp.retries)) <= top
  BY DEF Sound
<1>8. top \in Nat
  BY <1>1
<1> HIDE DEF top, redone, spare, listed, failed, n, c
<1>9. /\ cp.succeeded + listed + failed + 1 = c
      /\ cp.workCount + 1 >= c + redone + (n + 1) - 1
      /\ cp.workCount + 1 + spare + MaxIssuerAttempts - (n + 1) <= top
      /\ n + 1 \in 1..MaxIssuerAttempts
  BY <1>1, <1>4, <1>5, <1>6, <1>7, <1>8
<1> HIDE DEF kept
<1>10. OneMissing(cp, kept, e.index, n + 1, c)
  BY <1>1, <1>4, <1>9 DEF OneMissing, redone, spare, listed, failed, top, c
<1> QED
  BY <1>2, <1>10 DEF kept, c, n

Outcomes == {"refreshed", "failed", "refused"}

\* What one visit does, whoever was missing.
LEMMA VisitAdds ==
    ASSUME NEW cp \in Checkpoint, Sound(cp), NEW i \in Nat, NEW attempts \in Nat,
           NEW outcome \in Outcomes,
           LET next == IF i = cp.cursor THEN i + 1 ELSE cp.cursor
           IN  OneMissing(cp, Others(cp.retries, i), i, attempts, next)
    PROVE  LET next == AfterVisit(cp, i, attempts, outcome)
           IN  /\ next \in Checkpoint /\ Sound(next)
               /\ next.workCount = cp.workCount + 1
               /\ next.cursor = IF i = cp.cursor THEN i + 1 ELSE cp.cursor
               /\ cp.failures \subseteq next.failures
               /\ Others(cp.retries, i) \subseteq next.retries
               /\ \/ outcome = "refreshed"
                  \/ i \in next.failures
                  \/ \E e \in next.retries : e.index = i
<1> DEFINE next == AfterVisit(cp, i, attempts, outcome)
           kept == Others(cp.retries, i)
           c == IF i = cp.cursor THEN i + 1 ELSE cp.cursor
           entry == [index |-> i, attempts |-> attempts]
           retried == outcome = "failed" /\ attempts < MaxIssuerAttempts
           listed == IF retried THEN kept \cup {entry} ELSE kept
           failed == IF outcome = "refreshed" \/ retried THEN cp.failures
                     ELSE cp.failures \cup {i}
           done == IF outcome = "refreshed" THEN cp.succeeded + 1 ELSE cp.succeeded
<1>1. /\ cp.schema \in 0..2 /\ cp.cursor \in Nat /\ cp.succeeded \in Nat
      /\ cp.workCount \in Nat /\ cp.retries \in SUBSET [index: Nat, attempts: Nat]
      /\ cp.failures \in SUBSET Nat
  BY CheckpointTypes
<1>2. next = [schema |-> cp.schema, cursor |-> c, succeeded |-> done,
              workCount |-> cp.workCount + 1, retries |-> listed, failures |-> failed]
  <2>1. next = [cp EXCEPT !.cursor = c, !.workCount = cp.workCount + 1, !.succeeded = done,
                          !.retries = listed, !.failures = failed]
    BY DEF AfterVisit, Others
  <2>2. cp = [schema |-> cp.schema, cursor |-> cp.cursor, succeeded |-> cp.succeeded,
              workCount |-> cp.workCount, retries |-> cp.retries, failures |-> cp.failures]
    BY DEF Checkpoint
  <2> HIDE DEF next, c, done, listed, failed
  <2> QED
    BY <2>1, <2>2
<1>3. /\ next.schema = cp.schema /\ next.cursor = c /\ next.succeeded = done
      /\ next.workCount = cp.workCount + 1 /\ next.retries = listed /\ next.failures = failed
  BY <1>2
<1>4. /\ c \in Nat /\ done \in Nat /\ entry \in [index: Nat, attempts: Nat]
      /\ entry.index = i /\ entry.attempts = attempts
      /\ kept \subseteq [index: Nat, attempts: Nat] /\ kept \subseteq cp.retries
      /\ \A e \in kept : e.index # i
  BY <1>1 DEF Others
<1>5. listed \in SUBSET [index: Nat, attempts: Nat] /\ failed \in SUBSET Nat
  BY <1>1, <1>4
<1>6. next \in Checkpoint
  BY <1>1, <1>2, <1>4, <1>5 DEF Checkpoint
<1>7. /\ cp.cursor <= c /\ c \in 0..ShardSize /\ i < c
      /\ attempts \in 1..MaxIssuerAttempts /\ IsFiniteSet(kept) /\ i \notin cp.failures
  BY DEF OneMissing
<1>8. /\ cp.succeeded + Cardinality(kept) + Cardinality(cp.failures) + 1 = c
      /\ cp.workCount + 1 >= c + Cardinality(Redone(kept)) + attempts - 1
      /\ cp.workCount + 1 + Cardinality(Spare(kept)) + MaxIssuerAttempts - attempts
            <= c * MaxIssuerAttempts
  BY DEF OneMissing
<1>9. IsFiniteSet(cp.failures)
  BY DEF Sound
<1>10. entry \notin kept /\ MaxIssuerAttempts \in Nat
  BY <1>4, CoverageAssumption
<1> HIDE DEF next, c, kept, entry
<1>11. /\ Cardinality(kept) \in Nat /\ Cardinality(cp.failures) \in Nat
       /\ IsFiniteSet(Redone(kept)) /\ IsFiniteSet(Spare(kept))
       /\ Cardinality(Redone(kept)) \in Nat /\ Cardinality(Spare(kept)) \in Nat
       /\ c * MaxIssuerAttempts \in Nat
  BY <1>4, <1>7, <1>9, <1>10, SumsFinite, FS_CardinalityType
<1>12. /\ IsFiniteSet(kept \cup {entry})
       /\ Cardinality(kept \cup {entry}) = Cardinality(kept) + 1
       /\ IsFiniteSet(cp.failures \cup {i})
       /\ Cardinality(cp.failures \cup {i}) = Cardinality(cp.failures) + 1
  BY <1>7, <1>9, <1>10, FS_AddElement
<1>13. IsFiniteSet(listed) /\ IsFiniteSet(failed)
  BY <1>7, <1>9, <1>12
<1>14. \A e \in listed : /\ e.index < c /\ e.attempts \in 1..(MaxIssuerAttempts - 1)
                         /\ e.index \notin failed
  <2>1. ASSUME NEW e \in kept
        PROVE  /\ e.index < c /\ e.attempts \in 1..(MaxIssuerAttempts - 1)
               /\ e.index \notin failed
    <3>1. /\ e \in cp.retries /\ e.index \in Nat /\ e.index # i
          /\ e.index < cp.cursor /\ e.attempts \in 1..(MaxIssuerAttempts - 1)
          /\ e.index \notin cp.failures
      BY <1>1, <1>4 DEF Sound
    <3> QED
      BY <1>1, <1>4, <1>7, <3>1
  <2>2. CASE retried
    <3>1. entry.attempts \in 1..(MaxIssuerAttempts - 1) /\ i \notin failed
      BY <1>4, <1>7, <1>10, <2>2
    <3> QED
      BY <1>4, <1>7, <2>1, <2>2, <3>1
  <2> QED
    BY <2>1, <2>2
<1>15. \A e, f \in listed : e.index = f.index => e = f
  <2>1. \A e, f \in kept : e.index = f.index => e = f
    BY <1>4 DEF Sound
  <2> QED
    BY <1>4, <2>1
<1>16. \A k \in failed : k < c
  <2>1. \A k \in cp.failures : k < c
    BY <1>1, <1>4, <1>7 DEF Sound
  <2> QED
    BY <1>7, <2>1
<1>17. done + Cardinality(listed) + Cardinality(failed) = c
  BY <1>1, <1>4, <1>8, <1>11, <1>12
<1>18. /\ cp.workCount + 1 >= c + Cardinality(Redone(listed))
       /\ cp.workCount + 1 + Cardinality(Spare(listed)) <= c * MaxIssuerAttempts
  <2> DEFINE top == c * MaxIssuerAttempts
             redone == Cardinality(Redone(kept))
             spare == Cardinality(Spare(kept))
  <2>1. /\ cp.workCount + 1 >= c + redone + attempts - 1
        /\ cp.workCount + 1 + spare + MaxIssuerAttempts - attempts <= top
        /\ redone \in Nat /\ spare \in Nat /\ top \in Nat
    BY <1>8, <1>11
  <2>2. CASE retried
    <3>1. attempts \in 1..(MaxIssuerAttempts - 1)
      BY <1>7, <1>10, <2>2
    <3>2. /\ Cardinality(Redone(kept \cup {entry})) = redone + attempts - 1
          /\ Cardinality(Spare(kept \cup {entry})) = spare + MaxIssuerAttempts - attempts
      BY <1>4, <1>10, <1>11, <3>1, SumsAdd
    <3> HIDE DEF top, redone, spare
    <3>3. /\ cp.workCount + 1 >= c + (redone + attempts - 1)
          /\ cp.workCount + 1 + (spare + MaxIssuerAttempts - attempts) <= top
      BY <1>1, <1>4, <1>7, <1>10, <2>1
    <3> QED
      BY <2>2, <3>2, <3>3 DEF top
  <2>3. CASE ~retried
    <3> HIDE DEF top, redone, spare
    <3>1. cp.workCount + 1 >= c + redone /\ cp.workCount + 1 + spare <= top
      BY <1>1, <1>4, <1>7, <1>10, <2>1
    <3> QED
      BY <2>3, <3>1 DEF top, redone, spare
  <2> QED
    BY <2>2, <2>3
<1>19. cp.schema \in {1, 2}
  BY DEF Sound
<1>20. Sound(next)
  BY <1>3, <1>7, <1>13, <1>14, <1>15, <1>16, <1>17, <1>18, <1>19 DEF Sound
<1>21. \/ outcome = "refreshed" \/ i \in failed \/ \E e \in listed : e.index = i
  BY <1>4
<1>22. cp.failures \subseteq failed /\ kept \subseteq listed
  OBVIOUS
<1> QED
  BY <1>3, <1>6, <1>20, <1>21, <1>22 DEF next, c, kept

\* What a visit does to a sound checkpoint.
LEMMA VisitKeepsSound ==
    ASSUME NEW cp \in Checkpoint, Sound(cp), NEW e \in Due(cp), NEW outcome \in Outcomes
    PROVE  LET next == AfterVisit(cp, e.index, e.attempts + 1, outcome)
           IN  /\ e.index \in Nat
               /\ next \in Checkpoint /\ Sound(next)
               /\ next.workCount = cp.workCount + 1
               /\ next.cursor = IF e.index = cp.cursor THEN e.index + 1 ELSE cp.cursor
               /\ cp.failures \subseteq next.failures
               /\ Others(cp.retries, e.index) \subseteq next.retries
               /\ \/ outcome = "refreshed"
                  \/ e.index \in next.failures
                  \/ \E f \in next.retries : f.index = e.index
<1>1. cp.cursor \in Nat /\ cp.retries \in SUBSET [index: Nat, attempts: Nat]
  BY CheckpointTypes
<1>2. CASE cp.cursor < ShardSize
  <2>1. e.index = cp.cursor /\ e.attempts = 0
    BY <1>2 DEF Due
  <2>2. OneMissing(cp, Others(cp.retries, cp.cursor), cp.cursor, 1, cp.cursor + 1)
    BY <1>2, FirstVisitTakes
  <2>3. /\ e.index \in Nat /\ e.attempts + 1 = 1 /\ e.attempts + 1 \in Nat
        /\ (IF e.index = cp.cursor THEN e.index + 1 ELSE cp.cursor) = cp.cursor + 1
    BY <1>1, <2>1
  <2>4. LET next == IF e.index = cp.cursor THEN e.index + 1 ELSE cp.cursor
        IN  OneMissing(cp, Others(cp.retries, e.index), e.index, e.attempts + 1, next)
    BY <2>1, <2>2, <2>3
  <2> DEFINE tries == e.attempts + 1
  <2> HIDE DEF tries
  <2>5. LET next == AfterVisit(cp, e.index, tries, outcome)
        IN  /\ next \in Checkpoint /\ Sound(next)
            /\ next.workCount = cp.workCount + 1
            /\ next.cursor = IF e.index = cp.cursor THEN e.index + 1 ELSE cp.cursor
            /\ cp.failures \subseteq next.failures
            /\ Others(cp.retries, e.index) \subseteq next.retries
            /\ \/ outcome = "refreshed"
               \/ e.index \in next.failures
               \/ \E f \in next.retries : f.index = e.index
    <3>1. tries \in Nat /\ e.index \in Nat
      BY <2>3 DEF tries
    <3>2. LET next == IF e.index = cp.cursor THEN e.index + 1 ELSE cp.cursor
          IN  OneMissing(cp, Others(cp.retries, e.index), e.index, tries, next)
      BY <2>4 DEF tries
    <3> QED
      BY <3>1, <3>2, VisitAdds
  <2> QED
    BY <2>3, <2>5 DEF tries
<1>3. CASE ~(cp.cursor < ShardSize)
  <2>1. e \in cp.retries
    BY <1>3 DEF Due
  <2>2. e.index \in Nat /\ e.attempts + 1 \in Nat /\ e.index # cp.cursor
    BY <1>1, <2>1 DEF Sound
  <2>3. OneMissing(cp, Others(cp.retries, e.index), e.index, e.attempts + 1, cp.cursor)
    BY <2>1, LaterVisitTakes
  <2> QED
    BY <2>2, <2>3, VisitAdds
<1> QED
  BY <1>2, <1>3

-------------------------------------------------------------------------------
(* Rows of the queue.                                                        *)

RowOK(row) ==
    /\ row \in Row(Checkpoint)
    /\ (row.owner # NoOwner) = (row.state = "running")
    /\ row.live => row.state = "running"

\* A row that is not claimed and not written keeps its checkpoint and what it
\* has ended as; its owner can only go.
Quiet(row, new) ==
    /\ RowOK(new)
    /\ new.checkpoint = row.checkpoint
    /\ new.owner \in {row.owner, NoOwner}
    /\ new.state = "done" => row.state = "done"
    /\ row.state \in Terminal => new = row

\* The parts of a row.
LEMMA RowTypes ==
    ASSUME NEW row, RowOK(row)
    PROVE  /\ row.state \in States /\ row.owner \in Owners \cup {NoOwner}
           /\ row.live \in BOOLEAN /\ row.available \in BOOLEAN
           /\ row.attempts \in 0..MaxAttempts /\ row.checkpoint \in Checkpoint
           /\ row = [state |-> row.state, owner |-> row.owner, live |-> row.live,
                     available |-> row.available, attempts |-> row.attempts,
                     checkpoint |-> row.checkpoint]
BY DEF RowOK, Row

\* What enqueueing, the sweep and time do to a row.
LEMMA QuietRows ==
    ASSUME NEW row, RowOK(row)
    PROVE  /\ Quiet(row, row) /\ Quiet(row, Enqueued(row)) /\ Quiet(row, Swept(row))
           /\ row.live => Quiet(row, [row EXCEPT !.live = FALSE])
           /\ row.state \notin Terminal => Quiet(row, [row EXCEPT !.available = TRUE])
<1> USE RowTypes DEF RowOK, Row, States, Terminal
<1>1. Quiet(row, row)
  BY DEF Quiet
<1>2. Quiet(row, Enqueued(row))
  <2>1. CASE row.state = "absent"
    BY <2>1 DEF Quiet, Enqueued
  <2>2. CASE row.state # "absent"
    BY <1>1, <2>2 DEF Enqueued
  <2> QED
    BY <2>1, <2>2
<1>3. Quiet(row, Swept(row))
  <2>1. CASE Lapsed(row) /\ row.attempts >= MaxAttempts
    BY <2>1 DEF Quiet, Swept, Lapsed
  <2>2. CASE ~(Lapsed(row) /\ row.attempts >= MaxAttempts)
    BY <1>1, <2>2 DEF Swept
  <2> QED
    BY <2>1, <2>2
<1>4. row.live => Quiet(row, [row EXCEPT !.live = FALSE])
  BY DEF Quiet
<1>5. row.state \notin Terminal => Quiet(row, [row EXCEPT !.available = TRUE])
  BY DEF Quiet
<1> QED
  BY <1>1, <1>2, <1>3, <1>4, <1>5

\* A claim keeps the checkpoint and never takes a job that has ended.
LEMMA ClaimedRow ==
    ASSUME NEW row, RowOK(row), Claimable(row), NEW o \in Owners
    PROVE  /\ RowOK(Claimed(row, o)) /\ Claimed(row, o).owner = o
           /\ Claimed(row, o).checkpoint = row.checkpoint
           /\ Claimed(row, o).state = "running" /\ row.state \notin Terminal
<1>1. /\ row.attempts + 1 \in 0..MaxAttempts /\ o # NoOwner
      /\ row.state \notin Terminal
  BY RowTypes, JobsAssumption DEF Claimable, Lapsed, Terminal
<1> QED
  BY <1>1, RowTypes DEF RowOK, Row, States, Claimed

Kinds == {"checkpoint", "yield", "done", "retry", "dead"}

\* A write of the living lease leaves its checkpoint and keeps or drops the owner.
LEMMA WrittenRow ==
    ASSUME NEW row, RowOK(row), NEW o, Holds(row, o), NEW kind \in Kinds, NEW cp \in Checkpoint
    PROVE  LET new == Written(row, kind, cp)
           IN  /\ RowOK(new) /\ new.checkpoint = cp /\ new.owner \in {row.owner, NoOwner}
               /\ new.state = "done" => kind = "done"
               /\ kind # "checkpoint" => new.owner = NoOwner
               /\ row.state \notin Terminal /\ row.owner = o
<1>1. /\ row.state = "running" /\ row.owner = o
      /\ row.attempts \in 0..MaxAttempts /\ row.attempts \in Nat /\ MaxAttempts \in Nat
  BY RowTypes, JobsAssumption DEF Holds
<1>2. CASE kind = "checkpoint"
  <2>1. Written(row, kind, cp) = [row EXCEPT !.checkpoint = cp]
    BY <1>2 DEF Written, Checkpointed
  <2> QED
    BY <1>1, <1>2, <2>1, RowTypes DEF RowOK, Row, States, Terminal
<1>3. CASE kind = "yield"
  <2> DEFINE left == IF row.attempts = 0 THEN 0 ELSE row.attempts - 1
  <2>1. Written(row, kind, cp) = [row EXCEPT !.state = "queued", !.checkpoint = cp,
          !.attempts = left, !.owner = NoOwner, !.live = FALSE, !.available = FALSE]
    BY <1>3 DEF Written, Yielded
  <2>2. left \in 0..MaxAttempts
    BY <1>1
  <2> HIDE DEF left
  <2> QED
    BY <1>1, <2>1, <2>2, RowTypes, ZenonT(60) DEF RowOK, Row, States, Terminal
<1>4. CASE kind \notin {"checkpoint", "yield"}
  <2> DEFINE ending == IF kind = "retry" /\ row.attempts >= MaxAttempts THEN "dead" ELSE kind
  <2>1. Written(row, kind, cp) = [row EXCEPT !.state = ending, !.checkpoint = cp,
          !.owner = NoOwner, !.live = FALSE, !.available = FALSE]
    BY <1>4 DEF Written, Settled
  <2>2. ending \in {"done", "retry", "dead"} /\ (ending = "done" => kind = "done")
    BY <1>4 DEF Kinds
  <2> HIDE DEF ending
  <2> QED
    BY <1>1, <2>1, <2>2, RowTypes, ZenonT(60) DEF RowOK, Row, States, Terminal
<1> QED
  BY <1>2, <1>3, <1>4

-------------------------------------------------------------------------------
(* The invariant.                                                            *)

Everyone == Workers \cup Migrators

\* An invocation has a job exactly while it has an owner.
Formed(x) ==
    IF x.pc \in {"idle", "claim"} THEN x.job = NoJob /\ x.owner = NoOwner
    ELSE x.job \in Jobs /\ x.owner \in Owners

TypesOK ==
    /\ jobs \in [Jobs -> Row(Checkpoint)] /\ \A j \in Jobs : RowOK(jobs[j])
    /\ worker \in [Everyone -> Worker] /\ \A w \in Everyone : Formed(worker[w])
    /\ calls \subseteq Call
    /\ \A c \in calls : c.kind = "checkpoint" => c.from = "wait"
    /\ refreshed \subseteq Jobs \X Nat

\* Owners are not shared, and a call is about the job of its sender.
Owned ==
    /\ \A v, w \in Everyone :
         worker[v].owner = worker[w].owner /\ worker[v].owner # NoOwner => v = w
    /\ \A c \in calls, w \in Everyone :
         c.owner = worker[w].owner => c.job = worker[w].job

\* A cursor never passes a company that was not refreshed; without migrators
\* every checkpoint of a shard is sound and accounts for what it has passed.
Reached(j, n) == \A i \in Companies : i < n => <<j, i>> \in refreshed

Visited(j, cp) ==
    \A i \in Nat : i < cp.cursor =>
      <<j, i>> \in refreshed \/ i \in cp.failures \/ \E e \in cp.retries : e.index = i

Good(j, cp) ==
    /\ j \in CohortJobs => Reached(j, cp.cursor)
    /\ Migrators = {} /\ j \in ShardJobs => Sound(cp) /\ (j \notin Superseded => Visited(j, cp))

Ended(j, cp) ==
    /\ j \in CohortJobs => Reached(j, CohortSize)
    /\ Migrators = {} /\ j \in ShardJobs \ Superseded => Finished(cp)

Evidence ==
    /\ \A j \in Jobs : /\ Good(j, jobs[j].checkpoint)
                       /\ jobs[j].state = "done" => Ended(j, jobs[j].checkpoint)
    /\ \A c \in calls : /\ Good(c.job, c.checkpoint)
                        /\ c.kind = "done" => Ended(c.job, c.checkpoint)
    /\ \A w \in Everyone : worker[w].job \in Jobs =>
                            /\ Good(worker[w].job, worker[w].local)
                            /\ worker[w].job \in CohortJobs => w \in Migrators

\* What is durable, what is under way and what the owner knows are within one
\* visit of each other.
Count(cp) == cp.workCount

CallsNear ==
    /\ \A c, d \in calls : c.owner = d.owner => Count(c.checkpoint) + 1 >= Count(d.checkpoint)
    /\ \A c \in calls : jobs[c.job].owner = c.owner =>
         Count(c.checkpoint) + 1 >= Count(jobs[c.job].checkpoint)

WorkerNear(x) ==
    /\ x.pc = "work" => \A c \in calls : c.owner # x.owner
    /\ x.pc = "wait" => /\ \A c, d \in calls : c.owner = x.owner /\ d.owner = x.owner => c = d
                        /\ \A c \in calls : c.owner = x.owner => c.from = "wait"
    /\ \A c \in calls : c.owner = x.owner =>
         Count(c.checkpoint) \in {Count(x.local), Count(x.local) + 1}
    /\ x.owner # NoOwner /\ jobs[x.job].owner = x.owner =>
         /\ Count(jobs[x.job].checkpoint) \in {Count(x.local), Count(x.local) + 1}
         /\ x.pc \in {"work", "wait"} => Count(jobs[x.job].checkpoint) = Count(x.local)

Progress == CallsNear /\ \A w \in Everyone : WorkerNear(worker[w])

IInv == TypesOK /\ Owned /\ Evidence /\ (Migrators = {} => Progress)

\* The parts of a call and of an invocation.
LEMMA CallTypes ==
    ASSUME NEW c \in Call
    PROVE  /\ c.job \in Jobs /\ c.owner \in Owners /\ c.owner # NoOwner
           /\ c.from \in Waiting /\ c.kind \in Kinds /\ c.checkpoint \in Checkpoint
           /\ Count(c.checkpoint) \in Nat
BY JobsAssumption, CheckpointTypes DEF Call, Kinds, Count

\* The parts of an invocation.
LEMMA WorkerTypes ==
    ASSUME NEW x \in Worker
    PROVE  /\ x.pc \in {"idle", "claim", "work"} \cup Waiting
           /\ x.owner \in Owners \cup {NoOwner} /\ x.job \in Jobs \cup {NoJob}
           /\ x.local \in Checkpoint /\ Count(x.local) \in Nat
           /\ x = [pc |-> x.pc, job |-> x.job, owner |-> x.owner, local |-> x.local]
BY CheckpointTypes DEF Worker, Count

\* The checkpoint of a cohort is a checkpoint.
LEMMA CohortType == ASSUME NEW n \in Nat PROVE Cohort(n) \in Checkpoint /\ Cohort(n).cursor = n
BY DEF Cohort, Checkpoint

\* An invocation that runs nothing, or is about to claim, holds nothing.
LEMMA IdleType ==
    /\ Idle \in Worker /\ Formed(Idle) /\ Idle.pc = "idle"
    /\ [Idle EXCEPT !.pc = "claim"] \in Worker /\ Formed([Idle EXCEPT !.pc = "claim"])
    /\ [Idle EXCEPT !.pc = "claim"].pc = "claim"
BY CohortType DEF Idle, Worker, Formed

\* Evidence grows.
LEMMA EvidenceGrows ==
    ASSUME refreshed \subseteq refreshed', NEW j, NEW cp
    PROVE  /\ Good(j, cp) => Good(j, cp)'
           /\ Ended(j, cp) => Ended(j, cp)'
BY DEF Good, Ended, Reached, Visited

-------------------------------------------------------------------------------
(* The forms of a step.                                                      *)

\* Rows stay quiet, calls are answered or dropped, workers go on or go idle.
LEMMA FadeKeeps ==
    ASSUME IInv, jobs' \in [Jobs -> Row(Checkpoint)],
           \A j \in Jobs : Quiet(jobs[j], jobs'[j]),
           calls' \subseteq calls, refreshed' = refreshed,
           worker' \in [Everyone -> Worker],
           \A w \in Everyone : \/ worker'[w] = worker[w]
                               \/ worker'[w].pc \in {"idle", "claim"} /\ Formed(worker'[w])
    PROVE  IInv'
<1>1. TypesOK'
  BY DEF IInv, TypesOK, Quiet
<1>2. \A w \in Everyone : worker'[w].owner # NoOwner => worker'[w] = worker[w]
  BY DEF Formed
<1>3. Owned'
  <2>1. \A c \in calls' : c.owner # NoOwner
    BY CallTypes DEF IInv, TypesOK
  <2> QED
    BY <1>2, <2>1 DEF IInv, Owned
<1>4. Evidence'
  <2>1. ASSUME NEW j \in Jobs
        PROVE  /\ Good(j, jobs[j].checkpoint)'
               /\ jobs'[j].state = "done" => Ended(j, jobs[j].checkpoint)'
    <3>1. /\ Good(j, jobs[j].checkpoint)
          /\ jobs[j].state = "done" => Ended(j, jobs[j].checkpoint)
          /\ jobs'[j].checkpoint = jobs[j].checkpoint
          /\ jobs'[j].state = "done" => jobs[j].state = "done"
      BY DEF IInv, Evidence, Quiet
    <3> QED
      BY <3>1 DEF Good, Ended, Reached, Visited
  <2>2. ASSUME NEW c \in calls'
        PROVE  /\ Good(c.job, c.checkpoint)'
               /\ c.kind = "done" => Ended(c.job, c.checkpoint)'
    BY EvidenceGrows DEF IInv, Evidence
  <2>3. ASSUME NEW w \in Everyone, worker'[w].job \in Jobs
        PROVE  /\ Good(worker[w].job, worker[w].local)'
               /\ worker'[w].job \in CohortJobs => w \in Migrators
    <3>1. worker'[w] = worker[w]
      BY <2>3, CoverageAssumption DEF Formed
    <3>2. /\ Good(worker[w].job, worker[w].local)
          /\ worker[w].job \in CohortJobs => w \in Migrators
      BY <2>3, <3>1 DEF IInv, Evidence
    <3> QED
      BY <3>1, <3>2 DEF Good, Reached, Visited
  <2> QED
    BY <2>1, <2>2, <2>3 DEF Evidence
<1>5. ASSUME Migrators = {} PROVE Progress'
  <2>1. CallsNear /\ \A w \in Everyone : WorkerNear(worker[w])
    BY <1>5 DEF IInv, Progress
  <2>2. \A c \in calls' : c.job \in Jobs /\ c.owner # NoOwner
    BY CallTypes DEF IInv, TypesOK
  <2>3. CallsNear'
    BY <2>1, <2>2 DEF CallsNear, Quiet
  <2>4. ASSUME NEW w \in Everyone PROVE WorkerNear(worker[w])'
    <3>1. CASE worker'[w] = worker[w]
      <4>1. WorkerNear(worker[w])
        BY <2>1
      <4>2. worker[w].owner # NoOwner => worker[w].job \in Jobs
        BY DEF IInv, TypesOK, Formed
      <4> QED
        BY <3>1, <4>1, <4>2 DEF WorkerNear, Quiet
    <3>2. CASE worker'[w].pc \in {"idle", "claim"} /\ worker'[w].owner = NoOwner
      BY <2>2, <3>2 DEF WorkerNear
    <3> QED
      BY <3>1, <3>2 DEF Formed
  <2> QED
    BY <2>3, <2>4 DEF Progress
<1> QED
  BY <1>1, <1>3, <1>4, <1>5 DEF IInv

\* An invocation that works sends a call about its job and waits.
LEMMA SendKeeps ==
    ASSUME IInv, UNCHANGED jobs, NEW w \in Everyone, worker[w].pc = "work",
           NEW x \in Worker, worker' = [worker EXCEPT ![w] = x],
           x.owner = worker[w].owner, x.job = worker[w].job, x.pc \in Waiting,
           NEW c \in Call, calls' = calls \cup {c},
           c.owner = worker[w].owner, c.job = worker[w].job, c.from = x.pc,
           c.kind = "checkpoint" => c.from = "wait",
           refreshed \subseteq refreshed', refreshed' \subseteq Jobs \X Nat,
           Good(x.job, x.local)', Good(c.job, c.checkpoint)',
           c.kind = "done" => Ended(c.job, c.checkpoint)',
           Migrators = {} => /\ x.pc = "wait" /\ Count(x.local) = Count(worker[w].local)
                             /\ Count(c.checkpoint) \in {Count(x.local), Count(x.local) + 1}
    PROVE  IInv'
<1>1. \A v \in Everyone : worker'[v] = IF v = w THEN x ELSE worker[v]
  BY DEF IInv, TypesOK
<1>2. /\ worker[w].job \in Jobs /\ worker[w].owner \in Owners /\ worker[w].owner # NoOwner
  BY JobsAssumption DEF IInv, TypesOK, Formed
<1>3. TypesOK'
  <2>1. Formed(x)
    BY <1>2 DEF Formed, Waiting
  <2>2. worker' \in [Everyone -> Worker] /\ \A v \in Everyone : Formed(worker'[v])
    BY <1>1, <2>1 DEF IInv, TypesOK
  <2> QED
    BY <2>2 DEF IInv, TypesOK
<1>4. Owned'
  <2>1. \A v \in Everyone : worker'[v].owner = worker[v].owner /\ worker'[v].job = worker[v].job
    BY <1>1
  <2> QED
    BY <1>2, <2>1 DEF IInv, Owned
<1>5. Evidence'
  <2>1. ASSUME NEW j \in Jobs
        PROVE  /\ Good(j, jobs[j].checkpoint)'
               /\ jobs'[j].state = "done" => Ended(j, jobs[j].checkpoint)'
    <3>1. /\ Good(j, jobs[j].checkpoint)
          /\ jobs[j].state = "done" => Ended(j, jobs[j].checkpoint)
      BY DEF IInv, Evidence
    <3> QED
      BY <3>1 DEF Good, Ended, Reached, Visited
  <2>2. ASSUME NEW d \in calls'
        PROVE  /\ Good(d.job, d.checkpoint)'
               /\ d.kind = "done" => Ended(d.job, d.checkpoint)'
    <3>1. CASE d = c
      BY <3>1
    <3>2. CASE d \in calls
      BY <3>2, EvidenceGrows DEF IInv, Evidence
    <3> QED
      BY <3>1, <3>2
  <2>3. ASSUME NEW v \in Everyone, worker'[v].job \in Jobs
        PROVE  /\ Good(worker[v].job, worker[v].local)'
               /\ worker'[v].job \in CohortJobs => v \in Migrators
    <3>1. CASE v = w
      <4>1. worker[w].job \in CohortJobs => w \in Migrators
        BY <1>2 DEF IInv, Evidence
      <4> QED
        BY <1>1, <3>1, <4>1
    <3>2. CASE v # w
      <4>1. /\ Good(worker[v].job, worker[v].local)
            /\ worker[v].job \in CohortJobs => v \in Migrators
        BY <1>1, <2>3, <3>2 DEF IInv, Evidence
      <4> QED
        BY <1>1, <3>2, <4>1 DEF Good, Reached, Visited
    <3> QED
      BY <3>1, <3>2
  <2> QED
    BY <2>1, <2>2, <2>3 DEF Evidence
<1>6. ASSUME Migrators = {} PROVE Progress'
  <2>1. /\ CallsNear /\ WorkerNear(worker[w]) /\ x.pc = "wait" /\ x.owner # NoOwner
        /\ Count(x.local) = Count(worker[w].local)
        /\ Count(c.checkpoint) \in {Count(x.local), Count(x.local) + 1}
        /\ Count(x.local) \in Nat
    BY <1>2, <1>6, WorkerTypes DEF IInv, Progress
  <2>2. c.owner = x.owner /\ \A d \in calls : d.owner # x.owner
    BY <2>1 DEF WorkerNear
  <2>3. CallsNear'
    <3>1. ASSUME NEW d \in calls', NEW e \in calls', d.owner = e.owner
          PROVE  Count(d.checkpoint) + 1 >= Count(e.checkpoint)
      <4>1. d = e \/ (d \in calls /\ e \in calls)
        BY <2>2, <3>1
      <4>2. Count(d.checkpoint) \in Nat
        BY <1>3, CallTypes DEF TypesOK
      <4> QED
        BY <2>1, <3>1, <4>1, <4>2 DEF CallsNear
    <3>2. ASSUME NEW d \in calls', jobs[d.job].owner = d.owner
          PROVE  Count(d.checkpoint) + 1 >= Count(jobs[d.job].checkpoint)
      <4>1. CASE d = c
        <5>1. Count(jobs[c.job].checkpoint) = Count(x.local)
          BY <1>2, <2>1, <3>2, <4>1 DEF WorkerNear
        <5> QED
          BY <2>1, <4>1, <5>1
      <4>2. CASE d \in calls
        BY <2>1, <3>2, <4>2 DEF CallsNear
      <4> QED
        BY <4>1, <4>2
    <3> QED
      BY <3>1, <3>2 DEF CallsNear
  <2>4. ASSUME NEW v \in Everyone PROVE WorkerNear(worker[v])'
    <3>1. CASE v = w
      <4>1. WorkerNear(x)'
        BY <2>1, <2>2 DEF WorkerNear
      <4> QED
        BY <1>1, <3>1, <4>1
    <3>2. CASE v # w
      <4>1. WorkerNear(worker[v]) /\ worker'[v] = worker[v]
        BY <1>1, <1>6, <3>2 DEF IInv, Progress
      <4>2. c.owner # worker[v].owner
        BY <1>2, <3>2 DEF IInv, Owned
      <4> QED
        BY <4>1, <4>2 DEF WorkerNear
    <3> QED
      BY <3>1, <3>2
  <2> QED
    BY <2>3, <2>4 DEF Progress
<1> QED
  BY <1>3, <1>4, <1>5, <1>6 DEF IInv

\* An invocation that waited gives its job back with what it knows.
LEMMA RescueKeeps ==
    ASSUME IInv, UNCHANGED <<jobs, refreshed>>, NEW w \in Everyone, worker[w].pc = "wait",
           NEW pending \in SUBSET calls, Rescue(w, pending)
    PROVE  IInv'
<1>1. /\ worker[w] \in Worker /\ worker[w].job \in Jobs
      /\ worker[w].owner \in Owners /\ worker[w].owner # NoOwner /\ worker[w].local \in Checkpoint
  BY WorkerTypes, JobsAssumption DEF IInv, TypesOK, Formed
<1>2. PICK x \in Worker : /\ x = [worker[w] EXCEPT !.pc = "rescue"]
                          /\ x.pc = "rescue" /\ x.owner = worker[w].owner
                          /\ x.job = worker[w].job /\ x.local = worker[w].local
  <2> DEFINE y == [worker[w] EXCEPT !.pc = "rescue"]
  <2>1. /\ y \in Worker /\ y = [worker[w] EXCEPT !.pc = "rescue"]
        /\ y.pc = "rescue" /\ y.owner = worker[w].owner
        /\ y.job = worker[w].job /\ y.local = worker[w].local
    BY <1>1 DEF Worker, Waiting
  <2> HIDE DEF y
  <2> QED
    BY <2>1
<1>3. PICK c \in Call : /\ c = Request(worker[w], "rescue", "retry", worker[w].local)
                        /\ c.owner = x.owner /\ c.job = x.job /\ c.from = "rescue"
                        /\ c.kind = "retry" /\ c.checkpoint = x.local
  <2> DEFINE d == Request(worker[w], "rescue", "retry", worker[w].local)
  <2>1. /\ d \in Call /\ d = Request(worker[w], "rescue", "retry", worker[w].local)
        /\ d.owner = x.owner /\ d.job = x.job /\ d.from = "rescue"
        /\ d.kind = "retry" /\ d.checkpoint = x.local
    BY <1>1, <1>2 DEF Request, Call, Waiting
  <2> HIDE DEF d
  <2> QED
    BY <2>1
<1>4. calls' = pending \cup {c} /\ worker' = [worker EXCEPT ![w] = x]
  BY <1>2, <1>3 DEF Rescue, Becomes
<1>5. \A v \in Everyone : worker'[v] = IF v = w THEN x ELSE worker[v]
  BY <1>4 DEF IInv, TypesOK
<1>6. TypesOK'
  <2>1. Formed(x)
    BY <1>1, <1>2 DEF Formed
  <2>2. worker' \in [Everyone -> Worker] /\ \A v \in Everyone : Formed(worker'[v])
    BY <1>2, <1>4, <1>5, <2>1 DEF IInv, TypesOK
  <2>3. calls' \subseteq Call /\ \A d \in calls' : d.kind = "checkpoint" => d.from = "wait"
    BY <1>3, <1>4 DEF IInv, TypesOK
  <2> QED
    BY <2>2, <2>3 DEF IInv, TypesOK
<1>7. Owned'
  <2>1. \A v \in Everyone : worker'[v].owner = worker[v].owner /\ worker'[v].job = worker[v].job
    BY <1>2, <1>5
  <2>2. \A d \in calls' : d \in calls \/ (d.owner = worker[w].owner /\ d.job = worker[w].job)
    BY <1>2, <1>3, <1>4
  <2> QED
    BY <1>1, <2>1, <2>2 DEF IInv, Owned
<1>8. Good(worker[w].job, worker[w].local) /\ (worker[w].job \in CohortJobs => w \in Migrators)
  BY <1>1 DEF IInv, Evidence
<1>9. Evidence'
  <2>1. ASSUME NEW j \in Jobs
        PROVE  /\ Good(j, jobs[j].checkpoint)'
               /\ jobs'[j].state = "done" => Ended(j, jobs[j].checkpoint)'
    <3>1. /\ Good(j, jobs[j].checkpoint)
          /\ jobs[j].state = "done" => Ended(j, jobs[j].checkpoint)
      BY DEF IInv, Evidence
    <3> QED
      BY <3>1 DEF Good, Ended, Reached, Visited
  <2>2. ASSUME NEW d \in calls'
        PROVE  /\ Good(d.job, d.checkpoint)'
               /\ d.kind = "done" => Ended(d.job, d.checkpoint)'
    <3>1. /\ Good(d.job, d.checkpoint)
          /\ d.kind = "done" => Ended(d.job, d.checkpoint)
      BY <1>2, <1>3, <1>4, <1>8 DEF IInv, Evidence
    <3> QED
      BY <3>1, EvidenceGrows
  <2>3. ASSUME NEW v \in Everyone, worker'[v].job \in Jobs
        PROVE  /\ Good(worker[v].job, worker[v].local)'
               /\ worker'[v].job \in CohortJobs => v \in Migrators
    <3>1. /\ worker'[v].job = worker[v].job /\ worker'[v].local = worker[v].local
      BY <1>2, <1>5
    <3>2. /\ Good(worker[v].job, worker[v].local)
          /\ worker[v].job \in CohortJobs => v \in Migrators
      BY <2>3, <3>1 DEF IInv, Evidence
    <3> QED
      BY <3>1, <3>2 DEF Good, Reached, Visited
  <2> QED
    BY <2>1, <2>2, <2>3 DEF Evidence
<1>10. ASSUME Migrators = {} PROVE Progress'
  <2>1. /\ CallsNear /\ WorkerNear(worker[w]) /\ Count(x.local) \in Nat
    BY <1>2, <1>10, WorkerTypes DEF IInv, Progress
  <2>2. \A d \in calls : d.owner = x.owner =>
          Count(d.checkpoint) \in {Count(x.local), Count(x.local) + 1}
    BY <1>2, <2>1 DEF WorkerNear
  <2>3. jobs[x.job].owner = x.owner => Count(jobs[x.job].checkpoint) = Count(x.local)
    BY <1>1, <1>2, <2>1 DEF WorkerNear
  <2>4. \A d \in calls' : d \in calls \/ d = c
    BY <1>4
  <2>5. CallsNear'
    <3>1. ASSUME NEW d \in calls', NEW e \in calls', d.owner = e.owner
          PROVE  Count(d.checkpoint) + 1 >= Count(e.checkpoint)
      <4>1. CASE d \in calls /\ e \in calls
        BY <2>1, <3>1, <4>1 DEF CallsNear
      <4>2. CASE d = c \/ e = c
        <5>1. /\ Count(d.checkpoint) \in {Count(x.local), Count(x.local) + 1}
              /\ Count(e.checkpoint) \in {Count(x.local), Count(x.local) + 1}
          BY <1>3, <2>2, <2>4, <3>1, <4>2
        <5> QED
          BY <2>1, <5>1
      <4> QED
        BY <2>4, <4>1, <4>2
    <3>2. ASSUME NEW d \in calls', jobs[d.job].owner = d.owner
          PROVE  Count(d.checkpoint) + 1 >= Count(jobs[d.job].checkpoint)
      <4>1. CASE d = c
        BY <1>3, <2>1, <2>3, <3>2, <4>1
      <4>2. CASE d \in calls
        BY <2>1, <3>2, <4>2 DEF CallsNear
      <4> QED
        BY <2>4, <4>1, <4>2
    <3> QED
      BY <3>1, <3>2 DEF CallsNear
  <2>6. ASSUME NEW v \in Everyone PROVE WorkerNear(worker[v])'
    <3>1. CASE v = w
      <4>1. WorkerNear(x)'
        BY <1>2, <1>3, <2>2, <2>3, <2>4 DEF WorkerNear
      <4> QED
        BY <1>5, <3>1, <4>1
    <3>2. CASE v # w
      <4>1. WorkerNear(worker[v]) /\ worker'[v] = worker[v]
        BY <1>5, <1>10, <3>2 DEF IInv, Progress
      <4>2. c.owner # worker[v].owner
        BY <1>1, <1>2, <1>3, <3>2 DEF IInv, Owned
      <4> QED
        BY <2>4, <4>1, <4>2 DEF WorkerNear
    <3> QED
      BY <3>1, <3>2
  <2> QED
    BY <2>5, <2>6 DEF Progress
<1> QED
  BY <1>6, <1>7, <1>9, <1>10 DEF IInv

\* Nothing bears the owner that a claim draws.
LEMMA FreshOwners ==
    ASSUME Owners \ Remembered # {}, worker \in [Everyone -> Worker]
    PROVE  /\ FreshOwner \in Owners
           /\ \A j \in Jobs : jobs[j].owner # FreshOwner
           /\ \A c \in calls : c.owner # FreshOwner
           /\ \A w \in Everyone : worker[w].owner # FreshOwner
<1>1. FreshOwner \in Owners /\ FreshOwner \notin Remembered
  BY DEF FreshOwner
<1>2. DOMAIN worker = Everyone
  OBVIOUS
<1> QED
  BY <1>1, <1>2 DEF Remembered

\* A claim is granted under a fresh owner, and the invocation works on the job,
\* retires it with one call, or never learns of it.
Granted(w, scope, j, o, x, M) ==
    /\ UNCHANGED refreshed /\ worker[w].pc = "claim"
    /\ scope \in SUBSET Jobs /\ j \in scope
    /\ Owners \ Remembered # {} /\ o = FreshOwner /\ ClaimIn(scope, j, o)
    /\ x \in Worker /\ worker' = [worker EXCEPT ![w] = x]
    /\ M \in SUBSET Call /\ calls' = calls \cup M
    /\ \/ /\ x.pc = "idle" /\ Formed(x) /\ M = {}
       \/ /\ x.pc \in {"work", "retire"} /\ x.owner = o /\ x.job = j
          /\ x.local = jobs[j].checkpoint /\ (j \in CohortJobs => w \in Migrators)
          /\ x.pc = "work" => M = {}
    /\ \A m \in M : /\ m.owner = o /\ m.job = j /\ m.kind # "checkpoint"
                    /\ Good(j, m.checkpoint) /\ (m.kind = "done" => Ended(j, m.checkpoint))
                    /\ Migrators = {} => Count(m.checkpoint) = Count(x.local)
    /\ \A m, n \in M : m = n

\* A claim that is granted, heard or not.
LEMMA ClaimKeeps ==
    ASSUME IInv, NEW w \in Everyone, NEW scope, NEW j, NEW o, NEW x, NEW M,
           Granted(w, scope, j, o, x, M)
    PROVE  IInv'
<1> USE DEF Granted
<1>1. /\ jobs \in [Jobs -> Row(Checkpoint)] /\ \A i \in Jobs : RowOK(jobs[i])
      /\ worker \in [Everyone -> Worker] /\ \A v \in Everyone : Formed(worker[v])
      /\ calls \subseteq Call
  BY DEF IInv, TypesOK
<1>2. /\ o \in Owners /\ o # NoOwner
      /\ \A i \in Jobs : jobs[i].owner # o
      /\ \A c \in calls : c.owner # o
      /\ \A v \in Everyone : worker[v].owner # o
  BY <1>1, FreshOwners, JobsAssumption
<1>3. /\ j \in Jobs /\ Claimable(jobs[j])
      /\ jobs' = [i \in Jobs |-> IF i = j THEN Claimed(jobs[i], o)
                                 ELSE IF i \in scope THEN Swept(jobs[i]) ELSE jobs[i]]
  BY DEF ClaimIn
<1>4. /\ RowOK(jobs'[j]) /\ jobs'[j].owner = o /\ jobs'[j].checkpoint = jobs[j].checkpoint
      /\ jobs'[j].state = "running"
  BY <1>1, <1>2, <1>3, ClaimedRow
<1>5. \A i \in Jobs : i # j => Quiet(jobs[i], jobs'[i])
  <2>1. ASSUME NEW i \in Jobs, i # j PROVE Quiet(jobs[i], jobs'[i])
    <3>1. jobs'[i] = Swept(jobs[i]) \/ jobs'[i] = jobs[i]
      BY <1>3, <2>1
    <3> QED
      BY <1>1, <3>1, QuietRows
  <2> QED
    BY <2>1
<1>6. \A i \in Jobs : /\ RowOK(jobs'[i]) /\ jobs'[i].checkpoint = jobs[i].checkpoint
                      /\ jobs'[i].owner \in {jobs[i].owner, NoOwner, o}
                      /\ jobs'[i].state = "done" => jobs[i].state = "done"
                      /\ jobs'[i].owner = o => i = j
  BY <1>2, <1>4, <1>5 DEF Quiet
<1>7. \A v \in Everyone : worker'[v] = IF v = w THEN x ELSE worker[v]
  BY <1>1
<1>8. Formed(x) /\ x.owner \in {o, NoOwner} /\ (x.owner = NoOwner => x.job = NoJob)
  BY <1>2, <1>3 DEF Formed
<1>9. TypesOK'
  <2>1. jobs' \in [Jobs -> Row(Checkpoint)]
    <3>1. \A i \in Jobs : jobs'[i] \in Row(Checkpoint)
      BY <1>6 DEF RowOK
    <3> QED
      BY <1>3, <3>1
  <2>2. worker' \in [Everyone -> Worker] /\ \A v \in Everyone : Formed(worker'[v])
    BY <1>1, <1>7, <1>8
  <2> QED
    BY <1>6, <2>1, <2>2 DEF IInv, TypesOK
<1>10. \A c \in calls' : c \in calls \/ c \in M
  OBVIOUS
<1>11. Owned'
  <2>1. \A u, v \in Everyone :
          worker'[u].owner = worker'[v].owner /\ worker'[u].owner # NoOwner => u = v
    BY <1>2, <1>7, <1>8 DEF IInv, Owned
  <2>2. ASSUME NEW c \in calls', NEW v \in Everyone, c.owner = worker'[v].owner
        PROVE  c.job = worker'[v].job
    <3>1. CASE c \in calls
      <4>1. c.owner # NoOwner /\ c.owner # o
        BY <1>1, <1>2, <3>1, CallTypes
      <4>2. v # w
        BY <1>7, <1>8, <2>2, <4>1
      <4> QED
        BY <1>7, <2>2, <3>1, <4>2 DEF IInv, Owned
    <3>2. CASE c \in M
      <4>1. c.owner = o /\ c.job = j
        BY <3>2
      <4>2. v = w
        BY <1>2, <1>7, <2>2, <4>1
      <4> QED
        BY <1>2, <1>7, <2>2, <3>2, <4>1, <4>2 DEF Formed
    <3> QED
      BY <1>10, <3>1, <3>2
  <2> QED
    BY <2>1, <2>2 DEF Owned
<1>12. Good(j, jobs[j].checkpoint)
  BY <1>3 DEF IInv, Evidence
<1>13. Evidence'
  <2>1. ASSUME NEW i \in Jobs
        PROVE  /\ Good(i, jobs[i].checkpoint)'
               /\ jobs'[i].state = "done" => Ended(i, jobs[i].checkpoint)'
    <3>1. /\ Good(i, jobs[i].checkpoint)
          /\ jobs[i].state = "done" => Ended(i, jobs[i].checkpoint)
      BY DEF IInv, Evidence
    <3> QED
      BY <1>6, <3>1 DEF Good, Ended, Reached, Visited
  <2>2. ASSUME NEW c \in calls'
        PROVE  /\ Good(c.job, c.checkpoint)'
               /\ c.kind = "done" => Ended(c.job, c.checkpoint)'
    <3>1. /\ Good(c.job, c.checkpoint)
          /\ c.kind = "done" => Ended(c.job, c.checkpoint)
      BY <1>10 DEF IInv, Evidence
    <3> QED
      BY <3>1, EvidenceGrows
  <2>3. ASSUME NEW v \in Everyone, worker'[v].job \in Jobs
        PROVE  /\ Good(worker[v].job, worker[v].local)'
               /\ worker'[v].job \in CohortJobs => v \in Migrators
    <3>1. CASE v = w
      <4>1. x.job \in Jobs
        BY <1>7, <2>3, <3>1
      <4>2. x.job = j /\ x.local = jobs[j].checkpoint /\ (j \in CohortJobs => w \in Migrators)
        BY <4>1, CoverageAssumption DEF Formed
      <4>3. worker'[v].job = j /\ worker'[v].local = jobs[j].checkpoint
        BY <1>7, <3>1, <4>2
      <4> QED
        BY <1>12, <3>1, <4>2, <4>3 DEF Good, Reached, Visited
    <3>2. CASE v # w
      <4>1. /\ Good(worker[v].job, worker[v].local)
            /\ worker[v].job \in CohortJobs => v \in Migrators
        BY <1>7, <2>3, <3>2 DEF IInv, Evidence
      <4> QED
        BY <1>7, <3>2, <4>1 DEF Good, Reached, Visited
    <3> QED
      BY <3>1, <3>2
  <2> QED
    BY <2>1, <2>2, <2>3 DEF Evidence
<1>14. ASSUME Migrators = {} PROVE Progress'
  <2>1. CallsNear /\ \A v \in Everyone : WorkerNear(worker[v])
    BY <1>14 DEF IInv, Progress
  <2>2. \A m \in M : m.owner = o /\ m.job = j /\ Count(m.checkpoint) = Count(x.local)
    BY <1>14
  <2>3. \A c \in calls : c.job \in Jobs /\ c.owner # NoOwner /\ c.owner # o
    BY <1>1, <1>2, CallTypes
  <2>4. M # {} => x.local = jobs[j].checkpoint /\ x.owner = o
    OBVIOUS
  <2>5. Count(x.local) \in Nat
    BY WorkerTypes
  <2>6. CallsNear'
    <3>1. ASSUME NEW c \in calls', NEW d \in calls', c.owner = d.owner
          PROVE  Count(c.checkpoint) + 1 >= Count(d.checkpoint)
      <4>1. CASE c \in calls /\ d \in calls
        BY <2>1, <3>1, <4>1 DEF CallsNear
      <4>2. CASE c \in M /\ d \in M
        BY <2>2, <2>5, <4>2
      <4> QED
        BY <1>10, <2>2, <2>3, <3>1, <4>1, <4>2
    <3>2. ASSUME NEW c \in calls', jobs'[c.job].owner = c.owner
          PROVE  Count(c.checkpoint) + 1 >= Count(jobs'[c.job].checkpoint)
      <4>1. CASE c \in calls
        <5>1. jobs[c.job].owner = c.owner /\ jobs'[c.job].checkpoint = jobs[c.job].checkpoint
          BY <1>6, <2>3, <3>2, <4>1
        <5> QED
          BY <2>1, <4>1, <5>1 DEF CallsNear
      <4>2. CASE c \in M
        <5>1. jobs'[c.job].checkpoint = x.local
          BY <1>4, <2>2, <2>4, <4>2
        <5> QED
          BY <2>2, <2>5, <4>2, <5>1
      <4> QED
        BY <1>10, <4>1, <4>2
    <3> QED
      BY <3>1, <3>2 DEF CallsNear
  <2>7. ASSUME NEW v \in Everyone PROVE WorkerNear(worker[v])'
    <3>1. CASE v = w
      <4>1. CASE x.owner = NoOwner
        <5>1. \A c \in calls' : c.owner # x.owner
          BY <1>2, <1>10, <2>2, <2>3, <4>1
        <5>2. x.pc \notin {"work", "wait"}
          BY <1>2, <4>1
        <5>3. WorkerNear(x)'
          BY <4>1, <5>1, <5>2 DEF WorkerNear
        <5> QED
          BY <1>7, <3>1, <5>3
      <4>2. CASE x.owner = o
        <5>1. /\ x.pc \in {"work", "retire"} /\ x.job = j /\ x.local = jobs[j].checkpoint
              /\ x.pc = "work" => M = {}
          BY <1>2, <4>2 DEF Formed
        <5>2. \A c \in calls' : c.owner = o => c \in M
          BY <1>10, <2>3
        <5>3. Count(jobs'[j].checkpoint) = Count(x.local)
          BY <1>4, <5>1
        <5>4. WorkerNear(x)'
          BY <2>2, <2>5, <4>2, <5>1, <5>2, <5>3 DEF WorkerNear
        <5> QED
          BY <1>7, <3>1, <5>4
      <4> QED
        BY <1>8, <4>1, <4>2
    <3>2. CASE v # w
      <4>1. WorkerNear(worker[v]) /\ worker'[v] = worker[v] /\ worker[v].owner # o
        BY <1>2, <1>7, <2>1, <3>2
      <4>2. \A c \in calls' : c.owner = worker[v].owner => c \in calls
        BY <1>10, <2>2, <4>1
      <4>3. worker[v].owner # NoOwner => worker[v].job \in Jobs
        BY <1>1 DEF Formed
      <4>4. worker[v].owner # NoOwner /\ jobs'[worker[v].job].owner = worker[v].owner =>
              /\ jobs[worker[v].job].owner = worker[v].owner
              /\ jobs'[worker[v].job].checkpoint = jobs[worker[v].job].checkpoint
        BY <1>6, <4>1, <4>3
      <4> QED
        BY <4>1, <4>2, <4>4 DEF WorkerNear
    <3> QED
      BY <3>1, <3>2
  <2> QED
    BY <2>6, <2>7 DEF Progress
<1> QED
  BY <1>9, <1>11, <1>13, <1>14 DEF IInv

\* A call of the living lease is served.  Who waited for it goes on with what it
\* wrote or is done; nobody else knows.
Advances(x, c, y) ==
    /\ x.pc = c.from /\ x.owner = c.owner /\ c.kind = "checkpoint"
    /\ y.pc = "work" /\ y.owner = x.owner /\ y.job = x.job
    /\ y.local \in {x.local, c.checkpoint} /\ (Migrators = {} => y.local = c.checkpoint)

\* A write under the living lease, awaited or late.
LEMMA WriteKeeps ==
    ASSUME IInv, UNCHANGED refreshed, NEW c \in calls, Holds(jobs[c.job], c.owner),
           Write(c.job, c.owner, c.kind, c.checkpoint), calls' = calls \ {c},
           worker' \in [Everyone -> Worker],
           \A w \in Everyone :
             \/ /\ worker'[w] = worker[w]
                /\ worker[w].owner = c.owner => worker[w].pc # c.from
             \/ worker'[w].pc \in {"idle", "claim"} /\ Formed(worker'[w])
             \/ Advances(worker[w], c, worker'[w])
    PROVE  IInv'
<1> DEFINE j == c.job
<1>1. /\ jobs \in [Jobs -> Row(Checkpoint)] /\ \A i \in Jobs : RowOK(jobs[i])
      /\ worker \in [Everyone -> Worker] /\ \A v \in Everyone : Formed(worker[v])
      /\ calls \subseteq Call /\ calls' \subseteq calls
      /\ \A d \in calls : d.kind = "checkpoint" => d.from = "wait"
  BY DEF IInv, TypesOK
<1>2. /\ c \in Call /\ j \in Jobs /\ c.kind \in Kinds /\ c.checkpoint \in Checkpoint
      /\ Count(c.checkpoint) \in Nat
  BY <1>1, CallTypes
<1>3. \A d \in calls : d.owner \in Owners /\ d.owner # NoOwner /\ d.job \in Jobs
  BY <1>1, CallTypes
<1>4. jobs' = [jobs EXCEPT ![j] = Written(jobs[j], c.kind, c.checkpoint)]
  BY DEF Write
<1>5. \A i \in Jobs : jobs'[i] = IF i = j THEN Written(jobs[j], c.kind, c.checkpoint) ELSE jobs[i]
  BY <1>1, <1>4
<1>6. /\ RowOK(jobs'[j]) /\ jobs'[j].checkpoint = c.checkpoint
      /\ jobs'[j].owner \in {c.owner, NoOwner}
      /\ jobs'[j].state = "done" => c.kind = "done"
      /\ c.kind # "checkpoint" => jobs'[j].owner = NoOwner
      /\ jobs[j].owner = c.owner
  BY <1>1, <1>2, <1>5, WrittenRow
<1> HIDE DEF j
<1>7. ASSUME NEW w \in Everyone
      PROVE  \/ worker'[w].owner = worker[w].owner /\ worker'[w].job = worker[w].job
             \/ worker'[w].owner = NoOwner /\ worker'[w].job = NoJob
  BY DEF Formed, Advances
<1>8. TypesOK'
  <2>1. jobs' \in [Jobs -> Row(Checkpoint)] /\ \A i \in Jobs : RowOK(jobs'[i])
    <3>1. \A i \in Jobs : RowOK(jobs'[i])
      BY <1>1, <1>5, <1>6
    <3> QED
      BY <1>1, <1>4, <1>2, <3>1 DEF RowOK
  <2>2. ASSUME NEW w \in Everyone PROVE Formed(worker'[w])
    <3>1. CASE Advances(worker[w], c, worker'[w])
      <4>1. worker[w].owner # NoOwner /\ Formed(worker[w])
        BY <1>1, <1>3, <3>1 DEF Advances
      <4> QED
        BY <3>1, <4>1 DEF Advances, Formed
    <3> QED
      BY <1>1, <3>1
  <2> QED
    BY <1>1, <2>1, <2>2 DEF IInv, TypesOK
<1>9. Owned'
  <2>1. \A v, w \in Everyone :
          worker'[v].owner = worker'[w].owner /\ worker'[v].owner # NoOwner => v = w
    BY <1>7 DEF IInv, Owned
  <2>2. \A d \in calls', w \in Everyone : d.owner = worker'[w].owner => d.job = worker'[w].job
    BY <1>1, <1>3, <1>7 DEF IInv, Owned
  <2> QED
    BY <2>1, <2>2 DEF Owned
<1>10. Good(j, c.checkpoint) /\ (c.kind = "done" => Ended(j, c.checkpoint))
  BY DEF IInv, Evidence, j
<1>11. Evidence'
  <2>1. ASSUME NEW i \in Jobs
        PROVE  /\ Good(i, jobs[i].checkpoint)'
               /\ jobs'[i].state = "done" => Ended(i, jobs[i].checkpoint)'
    <3>1. CASE i = j
      BY <1>6, <1>10, <3>1 DEF Good, Ended, Reached, Visited
    <3>2. CASE i # j
      <4>1. /\ Good(i, jobs[i].checkpoint)
            /\ jobs[i].state = "done" => Ended(i, jobs[i].checkpoint)
        BY DEF IInv, Evidence
      <4> QED
        BY <1>5, <3>2, <4>1 DEF Good, Ended, Reached, Visited
    <3> QED
      BY <3>1, <3>2
  <2>2. ASSUME NEW d \in calls'
        PROVE  /\ Good(d.job, d.checkpoint)'
               /\ d.kind = "done" => Ended(d.job, d.checkpoint)'
    <3>1. /\ Good(d.job, d.checkpoint)
          /\ d.kind = "done" => Ended(d.job, d.checkpoint)
      BY <1>1 DEF IInv, Evidence
    <3> QED
      BY <3>1, EvidenceGrows
  <2>3. ASSUME NEW w \in Everyone, worker'[w].job \in Jobs
        PROVE  /\ Good(worker[w].job, worker[w].local)'
               /\ worker'[w].job \in CohortJobs => w \in Migrators
    <3>1. worker'[w].job = worker[w].job /\ worker'[w].owner = worker[w].owner
      BY <1>7, <2>3, CoverageAssumption
    <3>2. /\ Good(worker[w].job, worker[w].local)
          /\ worker[w].job \in CohortJobs => w \in Migrators
      BY <2>3, <3>1 DEF IInv, Evidence
    <3>3. worker'[w].local = worker[w].local \/ Advances(worker[w], c, worker'[w])
      BY <2>3, CoverageAssumption DEF Formed
    <3>4. worker'[w].local = worker[w].local \/ (worker'[w].local = c.checkpoint /\ worker[w].job = j)
      BY <3>3 DEF Advances, IInv, Owned, j
    <3> QED
      BY <1>10, <3>1, <3>2, <3>4 DEF Good, Reached, Visited
  <2> QED
    BY <2>1, <2>2, <2>3 DEF Evidence
<1>12. ASSUME Migrators = {} PROVE Progress'
  <2>1. CallsNear /\ \A v \in Everyone : WorkerNear(worker[v])
    BY <1>12 DEF IInv, Progress
  <2>2. CallsNear'
    <3>1. ASSUME NEW d \in calls', jobs'[d.job].owner = d.owner
          PROVE  Count(d.checkpoint) + 1 >= Count(jobs'[d.job].checkpoint)
      <4>1. CASE d.job = j
        <5>1. d.owner = c.owner /\ d \in calls
          BY <1>1, <1>3, <1>6, <3>1, <4>1
        <5> QED
          BY <1>6, <2>1, <4>1, <5>1 DEF CallsNear
      <4>2. CASE d.job # j
        BY <1>1, <1>3, <1>5, <2>1, <3>1, <4>2 DEF CallsNear
      <4> QED
        BY <4>1, <4>2
    <3> QED
      BY <1>1, <2>1, <3>1 DEF CallsNear
  <2>3. ASSUME NEW w \in Everyone PROVE WorkerNear(worker[w])'
    <3>1. WorkerNear(worker[w])
      BY <2>1
    <3>2. CASE worker'[w].owner = NoOwner
      <4>1. worker'[w].pc \notin {"work", "wait"}
        BY <1>8, <3>2, JobsAssumption DEF TypesOK, Formed
      <4> QED
        BY <1>1, <1>3, <3>2, <4>1 DEF WorkerNear
    <3>3. CASE Advances(worker[w], c, worker'[w])
      <4>1. c.from = "wait" /\ worker[w].pc = "wait"
        BY <1>1, <3>3 DEF Advances
      <4>2. \A d \in calls' : d.owner # worker[w].owner
        BY <3>1, <3>3, <4>1 DEF Advances, WorkerNear
      <4>3. worker[w].job = j
        BY <3>3 DEF Advances, IInv, Owned, j
      <4>4. worker'[w].local = c.checkpoint
        BY <1>12, <3>3 DEF Advances
      <4> QED
        BY <1>2, <1>6, <3>3, <4>2, <4>3, <4>4 DEF Advances, WorkerNear
    <3>4. CASE worker'[w] = worker[w] /\ worker[w].owner # NoOwner
               /\ (worker[w].owner = c.owner => worker[w].pc # c.from)
      <4>1. worker[w].job \in Jobs
        BY <1>1, <3>4 DEF Formed
      <4>2. CASE worker[w].job = j /\ jobs'[j].owner = worker[w].owner
        <5>1. worker[w].owner = c.owner /\ c.kind = "checkpoint" /\ c.from = "wait"
          BY <1>1, <1>6, <3>4, <4>2
        <5>2. worker[w].pc \notin {"work", "wait"}
          BY <3>1, <3>4, <5>1 DEF WorkerNear
        <5>3. Count(c.checkpoint) \in {Count(worker[w].local), Count(worker[w].local) + 1}
          BY <3>1, <5>1 DEF WorkerNear
        <5> QED
          BY <1>1, <1>6, <3>1, <3>4, <4>2, <5>2, <5>3 DEF WorkerNear
      <4>3. CASE worker[w].job = j /\ jobs'[j].owner # worker[w].owner
        BY <1>1, <3>1, <3>4, <4>3 DEF WorkerNear
      <4>4. CASE worker[w].job # j
        <5>1. jobs'[worker[w].job] = jobs[worker[w].job]
          BY <1>5, <4>1, <4>4
        <5> QED
          BY <1>1, <3>1, <3>4, <5>1 DEF WorkerNear
      <4> QED
        BY <4>2, <4>3, <4>4
    <3> QED
      BY <3>2, <3>3, <3>4 DEF Formed
  <2> QED
    BY <2>2, <2>3 DEF Progress
<1> QED
  BY <1>8, <1>9, <1>11, <1>12 DEF IInv

-------------------------------------------------------------------------------
(* The steps.                                                                *)

\* The jobs are enrolled with the checkpoint of a beginning.
LEMMA InitKeeps == Init => IInv
<1> SUFFICES ASSUME Init PROVE IInv
  OBVIOUS
<1>1. \A j \in Jobs :
        /\ Enrolled(j) \in Checkpoint /\ Enrolled(j).cursor = 0 /\ Enrolled(j).succeeded = 0
        /\ Enrolled(j).workCount = 0 /\ Enrolled(j).retries = {} /\ Enrolled(j).failures = {}
        /\ j \in ShardJobs => Enrolled(j).schema \in {1, 2}
  BY CoverageAssumption DEF Enrolled, Cohort, Checkpoint
<1>2. /\ jobs \in [Jobs -> Row(Checkpoint)]
      /\ \A j \in Jobs : /\ RowOK(jobs[j]) /\ jobs[j].owner = NoOwner /\ jobs[j].state # "done"
                         /\ jobs[j].checkpoint = Enrolled(j)
  <2> DEFINE row(j) == [state |-> IF j \in Superseded THEN "queued" ELSE "absent",
                        owner |-> NoOwner, live |-> FALSE, available |-> TRUE,
                        attempts |-> 0, checkpoint |-> Enrolled(j)]
  <2>1. \A j \in Jobs : /\ row(j) \in Row(Checkpoint) /\ RowOK(row(j))
                        /\ row(j).owner = NoOwner /\ row(j).state # "done"
                        /\ row(j).checkpoint = Enrolled(j)
    <3> SUFFICES ASSUME NEW j \in Jobs
                 PROVE  /\ row(j) \in Row(Checkpoint) /\ RowOK(row(j))
                        /\ row(j).owner = NoOwner /\ row(j).state # "done"
                        /\ row(j).checkpoint = Enrolled(j)
      OBVIOUS
    <3>1. PICK state \in {"queued", "absent"} :
            state = IF j \in Superseded THEN "queued" ELSE "absent"
      OBVIOUS
    <3>2. PICK cp \in Checkpoint : cp = Enrolled(j)
      BY <1>1
    <3>3. row(j) = [state |-> state, owner |-> NoOwner, live |-> FALSE, available |-> TRUE,
                    attempts |-> 0, checkpoint |-> cp]
      BY <3>1, <3>2
    <3>4. 0 \in 0..MaxAttempts
      BY JobsAssumption
    <3> HIDE DEF row
    <3> QED
      BY <3>2, <3>3, <3>4 DEF Row, States, RowOK
  <2>2. jobs = [j \in Jobs |-> row(j)]
    BY DEF Init
  <2> HIDE DEF row
  <2> QED
    BY <2>1, <2>2
<1>3. calls = {} /\ refreshed = {} /\ worker = [w \in Everyone |-> Idle]
  BY DEF Init, Everyone
<1>4. Idle.owner = NoOwner /\ Idle.job = NoJob /\ Idle.pc = "idle" /\ NoJob \notin Jobs
  BY CoverageAssumption DEF Idle
<1>5. \A w \in Everyone : worker[w] = Idle
  BY <1>3
<1>6. TypesOK
  BY <1>2, <1>3, IdleType DEF TypesOK
<1>7. Owned
  BY <1>3, <1>4, <1>5 DEF Owned
<1>8. ASSUME NEW j \in Jobs PROVE Good(j, jobs[j].checkpoint)
  <2>1. jobs[j].checkpoint = Enrolled(j)
    BY <1>2
  <2>2. Reached(j, 0) /\ Visited(j, Enrolled(j))
    BY <1>1, CoverageAssumption DEF Reached, Visited, Companies
  <2>3. j \in ShardJobs => Sound(Enrolled(j))
    <3>1. 0 \in 0..ShardSize /\ 0 * MaxIssuerAttempts = 0
      BY CoverageAssumption
    <3> DEFINE cp == Enrolled(j)
    <3>2. cp.retries = {} /\ cp.failures = {}
      BY <1>1
    <3>3. Redone(cp.retries) = {} /\ Spare(cp.retries) = {}
      BY <3>2, SumsOfEmpty, Zenon
    <3>4. /\ Cardinality(Redone(cp.retries)) = 0 /\ Cardinality(Spare(cp.retries)) = 0
          /\ Cardinality(cp.retries) = 0 /\ Cardinality(cp.failures) = 0
          /\ IsFiniteSet(cp.retries) /\ IsFiniteSet(cp.failures)
      BY <3>2, <3>3, SumsOfEmpty, Zenon
    <3> QED
      BY <1>1, <3>1, <3>2, <3>4 DEF Sound
  <2> QED
    BY <1>1, <2>1, <2>2, <2>3 DEF Good
<1>9. Evidence
  BY <1>2, <1>3, <1>4, <1>5, <1>8 DEF Evidence
<1>10. Progress
  BY <1>3, <1>4, <1>5 DEF Progress, CallsNear, WorkerNear
<1> QED
  BY <1>6, <1>7, <1>9, <1>10 DEF IInv

\* The types that every step starts from.
LEMMA Types ==
    ASSUME IInv
    PROVE  /\ jobs \in [Jobs -> Row(Checkpoint)] /\ \A j \in Jobs : RowOK(jobs[j])
           /\ worker \in [Everyone -> Worker] /\ \A w \in Everyone : Formed(worker[w])
           /\ calls \subseteq Call /\ DOMAIN worker = Everyone
           /\ \A c \in calls : c.kind = "checkpoint" => c.from = "wait"
BY DEF IInv, TypesOK

\* The queue's own steps are quiet.
LEMMA QuietSteps ==
    ASSUME \A j \in Jobs : RowOK(jobs[j]), jobs \in [Jobs -> Row(Checkpoint)],
           \/ \E S \in SUBSET Jobs : Enqueue(S) \/ ClaimNothing(S)
           \/ \E j \in Jobs : LeaseLapses(j) \/ BecomesAvailable(j)
           \/ UNCHANGED jobs
    PROVE  /\ jobs' \in [Jobs -> Row(Checkpoint)]
           /\ \A j \in Jobs : Quiet(jobs[j], jobs'[j])
<1>1. \A i \in Jobs : /\ jobs[i] \in Row(Checkpoint) /\ Quiet(jobs[i], jobs[i])
                      /\ Quiet(jobs[i], Enqueued(jobs[i])) /\ Quiet(jobs[i], Swept(jobs[i]))
  BY QuietRows DEF RowOK
<1>2. \A row, new : Quiet(row, new) => new \in Row(Checkpoint)
  BY DEF Quiet, RowOK
<1>3. ASSUME NEW S \in SUBSET Jobs, Enqueue(S)
      PROVE  /\ jobs' \in [Jobs -> Row(Checkpoint)] /\ \A j \in Jobs : Quiet(jobs[j], jobs'[j])
  <2>1. jobs' = [j \in Jobs |-> IF j \in S THEN Enqueued(jobs[j]) ELSE jobs[j]]
    BY <1>3 DEF Enqueue
  <2>2. \A j \in Jobs : Quiet(jobs[j], jobs'[j])
    BY <1>1, <2>1
  <2> QED
    BY <1>2, <2>1, <2>2
<1>4. ASSUME NEW S \in SUBSET Jobs, ClaimNothing(S)
      PROVE  /\ jobs' \in [Jobs -> Row(Checkpoint)] /\ \A j \in Jobs : Quiet(jobs[j], jobs'[j])
  <2>1. jobs' = [j \in Jobs |-> IF j \in S THEN Swept(jobs[j]) ELSE jobs[j]]
    BY <1>4 DEF ClaimNothing
  <2>2. \A j \in Jobs : Quiet(jobs[j], jobs'[j])
    BY <1>1, <2>1
  <2> QED
    BY <1>2, <2>1, <2>2
<1>5. ASSUME NEW j \in Jobs, LeaseLapses(j) \/ BecomesAvailable(j)
      PROVE  /\ jobs' \in [Jobs -> Row(Checkpoint)] /\ \A i \in Jobs : Quiet(jobs[i], jobs'[i])
  <2>1. PICK new : jobs' = [jobs EXCEPT ![j] = new] /\ Quiet(jobs[j], new)
    <3>1. CASE LeaseLapses(j)
      BY <3>1, QuietRows DEF LeaseLapses
    <3>2. CASE BecomesAvailable(j)
      BY <3>2, QuietRows DEF BecomesAvailable, Terminal
    <3> QED
      BY <1>5, <3>1, <3>2
  <2> QED
    BY <1>1, <1>2, <2>1
<1> QED
  BY <1>1, <1>3, <1>4, <1>5

\* EnqueueJobs, FoundNothing, Killed, an answer nobody needs, and time.
LEMMA GoesIdle ==
    ASSUME IInv, UNCHANGED refreshed, calls' \subseteq calls,
           NEW w \in Everyone, NEW x \in Worker, x.pc \in {"idle", "claim"}, Formed(x),
           worker' = [worker EXCEPT ![w] = x],
           \/ \E S \in SUBSET Jobs : Enqueue(S) \/ ClaimNothing(S)
           \/ UNCHANGED jobs
    PROVE  IInv'
<1>1. /\ jobs' \in [Jobs -> Row(Checkpoint)] /\ \A j \in Jobs : Quiet(jobs[j], jobs'[j])
  BY Types, QuietSteps
<1>2. worker' \in [Everyone -> Worker]
  BY Types
<1>3. \A v \in Everyone : worker'[v] = IF v = w THEN x ELSE worker[v]
  BY Types
<1> QED
  BY <1>1, <1>2, <1>3, FadeKeeps

\* Scopes are jobs, and only a migrator sees those of the cohort.
LEMMA ScopeTypes ==
    ASSUME NEW w \in Everyone
    PROVE  /\ Scope(w) \in SUBSET Jobs /\ Enrols(w) \in SUBSET Jobs
           /\ \A j \in Scope(w) : j \in CohortJobs => w \in Migrators
           /\ w \in Workers => Scope(w) = ShardJobs /\ w \notin Migrators
BY CoverageAssumption DEF Scope, Enrols

\* Enrolling jobs and going on to claim.
LEMMA EnqueueJobsKeeps == ASSUME IInv, NEW w \in Everyone, EnqueueJobs(w) PROVE IInv'
<1>1. PICK x \in Worker : x = [Idle EXCEPT !.pc = "claim"] /\ x.pc = "claim" /\ Formed(x)
  BY IdleType
<1>2. /\ Enqueue(Enrols(w)) /\ worker' = [worker EXCEPT ![w] = x]
      /\ UNCHANGED <<calls, refreshed>>
  BY <1>1 DEF EnqueueJobs, Becomes
<1> QED
  BY <1>1, <1>2, ScopeTypes, GoesIdle

\* A claim that finds no job buries the killed ones.
LEMMA FoundNothingKeeps == ASSUME IInv, NEW w \in Everyone, FoundNothing(w) PROVE IInv'
<1>1. /\ ClaimNothing(Scope(w)) /\ worker' = [worker EXCEPT ![w] = Idle]
      /\ UNCHANGED <<calls, refreshed>>
  BY DEF FoundNothing, Becomes
<1> QED
  BY <1>1, IdleType, ScopeTypes, GoesIdle

\* A killed invocation leaves its calls behind.
LEMMA KilledKeeps == ASSUME IInv, NEW w \in Everyone, Killed(w) PROVE IInv'
<1>1. /\ worker' = [worker EXCEPT ![w] = Idle] /\ UNCHANGED <<jobs, calls, refreshed>>
  BY DEF Killed, Becomes
<1> QED
  BY <1>1, IdleType, GoesIdle

\* Leases lapse and delays end.
LEMMA TimePassesKeeps == ASSUME IInv, NEW j \in Jobs, TimePasses(j) PROVE IInv'
<1>1. /\ jobs' \in [Jobs -> Row(Checkpoint)] /\ \A i \in Jobs : Quiet(jobs[i], jobs'[i])
  BY Types, QuietSteps DEF TimePasses
<1>2. UNCHANGED <<worker, calls, refreshed>>
  BY DEF TimePasses, workVars
<1> QED
  BY <1>1, <1>2, Types, FadeKeeps

\* A worker that waits no longer gives its job back, or stops.
LEMMA TimeoutKeeps == ASSUME IInv, NEW w \in Everyone, Timeout(w) PROVE IInv'
<1>1. UNCHANGED <<jobs, refreshed>>
  BY DEF Timeout
<1>2. CASE worker[w].pc = "wait"
  <2>1. Rescue(w, calls)
    BY <1>2 DEF Timeout
  <2> QED
    BY <1>1, <1>2, <2>1, RescueKeeps
<1>3. CASE worker[w].pc # "wait"
  <2>1. worker' = [worker EXCEPT ![w] = Idle] /\ UNCHANGED calls
    BY <1>3 DEF Timeout, Becomes
  <2> QED
    BY <1>1, <2>1, IdleType, GoesIdle
<1> QED
  BY <1>2, <1>3

\* The reply of a claim is lost.
LEMMA ClaimUnheardKeeps == ASSUME IInv, NEW w \in Everyone, ClaimUnheard(w) PROVE IInv'
<1>1. PICK j \in Scope(w) : ClaimIn(Scope(w), j, FreshOwner)
  BY DEF ClaimUnheard
<1>2. PICK o \in Owners : o = FreshOwner
  BY Types, FreshOwners DEF ClaimUnheard
<1>3. /\ worker[w].pc = "claim" /\ Owners \ Remembered # {}
      /\ worker' = [worker EXCEPT ![w] = Idle] /\ UNCHANGED <<calls, refreshed>>
  BY DEF ClaimUnheard, Becomes
<1>4. ClaimIn(Scope(w), j, o) /\ calls' = calls \cup {}
  BY <1>1, <1>2, <1>3
<1>5. Granted(w, Scope(w), j, o, Idle, {})
  BY <1>2, <1>3, <1>4, IdleType, ScopeTypes DEF Granted
<1> QED
  BY <1>5, ClaimKeeps

\* A coverage worker that claims a sound checkpoint never has to discard it.
LEMMA ClaimKeepsAll == ASSUME IInv, NEW w \in Everyone, Claim(w) PROVE IInv'
<1>0. /\ worker[w].pc = "claim" /\ Owners \ Remembered # {} /\ UNCHANGED refreshed
      /\ Scope(w) \in SUBSET Jobs
  BY ScopeTypes DEF Claim
<1>1. PICK o \in Owners : o = FreshOwner
  BY Types, FreshOwners, <1>0
<1>2. PICK j \in Scope(w) :
        LET cp == jobs[j].checkpoint
            v(pc) == Holding(w, pc, j, o, cp)
        IN  /\ ClaimIn(Scope(w), j, o)
            /\ \/ /\ w \in Migrators \/ (ValidCheckpoint(cp) /\ j \notin Superseded)
                  /\ Becomes(w, v("work"))
                  /\ UNCHANGED calls
               \/ /\ w \in Workers /\ ~ValidCheckpoint(cp)
                  /\ Becomes(w, v("retire"))
                  /\ calls' = calls \cup {Request(v("retire"), "retire", "dead", Cohort(0))}
               \/ /\ w \in Workers /\ ValidCheckpoint(cp) /\ j \in Superseded
                  /\ Becomes(w, v("retire"))
                  /\ calls' = calls \cup {Request(v("retire"), "retire", "done", cp)}
  BY <1>1 DEF Claim
<1>3. /\ j \in Jobs /\ ClaimIn(Scope(w), j, o) /\ (j \in CohortJobs => w \in Migrators)
  BY <1>0, <1>2, ScopeTypes
<1>4. PICK cp \in Checkpoint : cp = jobs[j].checkpoint
  BY <1>3, Types, RowTypes
<1>5. Good(j, cp)
  BY <1>3, <1>4 DEF IInv, Evidence
<1>6. \A pc \in {"work", "retire"} :
        LET x == Holding(w, pc, j, o, cp)
        IN  x \in Worker /\ x.pc = pc /\ x.owner = o /\ x.job = j /\ x.local = cp
  BY <1>1, <1>3, <1>4 DEF Holding, Worker, Waiting
<1>7. CASE /\ worker' = [worker EXCEPT ![w] = Holding(w, "work", j, o, cp)]
           /\ UNCHANGED calls
  <2>1. calls' = calls \cup {} /\ {} \in SUBSET Call
    BY <1>7
  <2>2. PICK x \in Worker : /\ worker' = [worker EXCEPT ![w] = x]
                            /\ x.pc = "work" /\ x.owner = o /\ x.job = j /\ x.local = cp
    BY <1>6, <1>7
  <2>3. PICK M \in SUBSET Call : M = {} /\ calls' = calls \cup M
    BY <2>1
  <2>4. /\ x.pc \in {"work", "retire"} /\ x.owner = o /\ x.job = j
        /\ x.local = jobs[j].checkpoint /\ (j \in CohortJobs => w \in Migrators)
        /\ x.pc = "work" => M = {}
    BY <1>3, <1>4, <2>2, <2>3
  <2>5. Granted(w, Scope(w), j, o, x, M)
    BY <1>0, <1>1, <1>3, <2>2, <2>3, <2>4 DEF Granted
  <2> QED
    BY <2>5, ClaimKeeps
<1>8. ASSUME NEW kind \in {"dead", "done"}, NEW sent \in Checkpoint,
             worker' = [worker EXCEPT ![w] = Holding(w, "retire", j, o, cp)],
             calls' = calls \cup {Request(Holding(w, "retire", j, o, cp), "retire", kind, sent)},
             Good(j, sent), kind = "done" => Ended(j, sent),
             Migrators = {} => Count(sent) = Count(cp)
      PROVE  IInv'
  <2>1. PICK x \in Worker : /\ worker' = [worker EXCEPT ![w] = x]
                            /\ x = Holding(w, "retire", j, o, cp)
                            /\ x.pc = "retire" /\ x.owner = o /\ x.job = j /\ x.local = cp
    BY <1>6, <1>8
  <2>2. PICK c \in Call : /\ calls' = calls \cup {c}
                          /\ c.owner = o /\ c.job = j /\ c.kind = kind /\ c.checkpoint = sent
    <3> DEFINE d == Request(x, "retire", kind, sent)
    <3>1. d \in Call /\ d.owner = o /\ d.job = j /\ d.kind = kind /\ d.checkpoint = sent
      BY <1>1, <1>3, <2>1 DEF Request, Call, Waiting
    <3>2. calls' = calls \cup {d}
      BY <1>8, <2>1
    <3> HIDE DEF d
    <3> QED
      BY <3>1, <3>2
  <2>3. PICK M \in SUBSET Call : M = {c}
    OBVIOUS
  <2>4. calls' = calls \cup M /\ \A m, n \in M : m = n
    BY <2>2, <2>3
  <2>5. \A m \in M : /\ m.owner = o /\ m.job = j /\ m.kind # "checkpoint"
                     /\ Good(j, m.checkpoint) /\ (m.kind = "done" => Ended(j, m.checkpoint))
                     /\ Migrators = {} => Count(m.checkpoint) = Count(x.local)
    BY <1>8, <2>1, <2>2, <2>3
  <2>6. /\ x.pc \in {"work", "retire"} /\ x.owner = o /\ x.job = j
        /\ x.local = jobs[j].checkpoint /\ (j \in CohortJobs => w \in Migrators)
        /\ x.pc = "work" => M = {}
    BY <1>3, <1>4, <2>1
  <2>7. Granted(w, Scope(w), j, o, x, M)
    BY <1>0, <1>1, <1>3, <2>1, <2>4, <2>5, <2>6 DEF Granted
  <2> QED
    BY <2>7, ClaimKeeps
<1>9. CASE /\ w \in Workers /\ ~ValidCheckpoint(cp)
           /\ worker' = [worker EXCEPT ![w] = Holding(w, "retire", j, o, cp)]
           /\ calls' = calls \cup {Request(Holding(w, "retire", j, o, cp), "retire", "dead", Cohort(0))}
  <2>1. j \in ShardJobs /\ j \notin CohortJobs
    BY <1>9, ScopeTypes, CoverageAssumption
  <2>2. Migrators # {}
    BY <1>5, <1>9, <2>1, SoundIsValid DEF Good
  <2>3. Good(j, Cohort(0)) /\ Cohort(0) \in Checkpoint
    BY <2>1, <2>2, CohortType DEF Good
  <2> QED
    BY <1>8, <1>9, <2>2, <2>3
<1>10. CASE /\ w \in Workers /\ j \in Superseded
            /\ worker' = [worker EXCEPT ![w] = Holding(w, "retire", j, o, cp)]
            /\ calls' = calls \cup {Request(Holding(w, "retire", j, o, cp), "retire", "done", cp)}
  <2>1. Ended(j, cp)
    BY <1>10, CoverageAssumption DEF Ended
  <2> QED
    BY <1>5, <1>8, <1>10, <2>1
<1> QED
  BY <1>2, <1>4, <1>7, <1>9, <1>10 DEF Becomes

\* What an invocation that works has and holds.
LEMMA AtWork ==
    ASSUME IInv, NEW w \in Everyone, worker[w].pc = "work"
    PROVE  /\ worker[w] \in Worker /\ worker[w].job \in Jobs
           /\ worker[w].owner \in Owners /\ worker[w].local \in Checkpoint
           /\ Good(worker[w].job, worker[w].local)
           /\ worker[w].job \in CohortJobs => w \in Migrators
           /\ refreshed \subseteq Jobs \X Nat
<1>1. /\ worker[w] \in Worker /\ worker[w].job \in Jobs /\ worker[w].owner \in Owners
      /\ refreshed \subseteq Jobs \X Nat
  BY DEF IInv, TypesOK, Formed
<1> QED
  BY <1>1, WorkerTypes DEF IInv, Evidence

\* A step of an invocation that works and sends one call.
Sends(w, from, kind, cp, own) ==
    /\ UNCHANGED jobs /\ worker[w].pc = "work"
    /\ worker' = [worker EXCEPT ![w] = [worker[w] EXCEPT !.pc = from, !.local = own]]
    /\ calls' = calls \cup {[job |-> worker[w].job, owner |-> worker[w].owner, from |-> from,
                             kind |-> kind, checkpoint |-> cp]}
    /\ refreshed \subseteq refreshed' /\ refreshed' \subseteq Jobs \X Nat

\* The step in the terms of the invocation, as the four kinds of work take it.
LEMMA SendsKeep ==
    ASSUME IInv, NEW w \in Everyone, NEW from \in Waiting, NEW kind \in Kinds,
           NEW cp \in Checkpoint, NEW own \in Checkpoint, Sends(w, from, kind, cp, own),
           kind = "checkpoint" => from = "wait",
           NEW j, j = worker[w].job, Good(j, own)', Good(j, cp)',
           kind = "done" => Ended(j, cp)',
           Migrators = {} => /\ from = "wait" /\ Count(own) = Count(worker[w].local)
                             /\ Count(cp) \in {Count(own), Count(own) + 1}
    PROVE  IInv'
<1>1. worker[w].pc = "work" /\ UNCHANGED jobs
  BY DEF Sends
<1>2. PICK y \in Worker : y = worker[w] /\ y.job \in Jobs /\ y.owner \in Owners
  BY <1>1, AtWork
<1>3. PICK x \in Worker : /\ x = [y EXCEPT !.pc = from, !.local = own]
                          /\ x.pc = from /\ x.owner = y.owner /\ x.job = y.job /\ x.local = own
  <2> DEFINE z == [y EXCEPT !.pc = from, !.local = own]
  <2>1. z \in Worker /\ z.pc = from /\ z.owner = y.owner /\ z.job = y.job /\ z.local = own
    BY <1>2 DEF Worker, Waiting
  <2>2. z = [y EXCEPT !.pc = from, !.local = own]
    OBVIOUS
  <2> HIDE DEF z
  <2> QED
    BY <2>1, <2>2
<1>4. PICK c \in Call :
        /\ c = [job |-> y.job, owner |-> y.owner, from |-> from, kind |-> kind,
                checkpoint |-> cp]
        /\ c.owner = y.owner /\ c.job = y.job /\ c.from = from /\ c.kind = kind
        /\ c.checkpoint = cp
  <2> DEFINE d == [job |-> y.job, owner |-> y.owner, from |-> from, kind |-> kind,
                   checkpoint |-> cp]
  <2>1. /\ d \in Call /\ d.owner = y.owner /\ d.job = y.job /\ d.from = from /\ d.kind = kind
        /\ d.checkpoint = cp
    BY <1>2 DEF Call, Kinds
  <2>2. d = [job |-> y.job, owner |-> y.owner, from |-> from, kind |-> kind,
             checkpoint |-> cp]
    OBVIOUS
  <2> HIDE DEF d
  <2> QED
    BY <2>1, <2>2
<1>5. /\ worker' = [worker EXCEPT ![w] = x] /\ calls' = calls \cup {c}
      /\ refreshed \subseteq refreshed' /\ refreshed' \subseteq Jobs \X Nat
  BY <1>2, <1>3, <1>4 DEF Sends
<1>6. /\ Good(x.job, x.local)' /\ Good(c.job, c.checkpoint)'
      /\ c.kind = "done" => Ended(c.job, c.checkpoint)'
  BY <1>2, <1>3, <1>4 DEF Good, Ended, Reached, Visited
<1>7. Migrators = {} => /\ x.pc = "wait" /\ Count(x.local) = Count(worker[w].local)
                        /\ Count(c.checkpoint) \in {Count(x.local), Count(x.local) + 1}
  BY <1>3, <1>4
<1> QED
  BY <1>1, <1>2, <1>3, <1>4, <1>5, <1>6, <1>7, SendKeeps

\* A step that sends leaves what the invocation knows as it is, or sets it.
LEMMA SendIsSends ==
    ASSUME NEW w, NEW from, NEW kind, NEW cp, Send(w, from, kind, cp), worker[w] \in Worker,
           UNCHANGED jobs, worker[w].pc = "work",
           refreshed \subseteq refreshed', refreshed' \subseteq Jobs \X Nat
    PROVE  Sends(w, from, kind, cp, worker[w].local)
<1>1. [worker[w] EXCEPT !.pc = from] = [worker[w] EXCEPT !.pc = from, !.local = worker[w].local]
  BY DEF Worker
<1> QED
  BY <1>1 DEF Send, Sends, Request, Becomes

\* A visit records itself in the checkpoint, or on a list, or in the refreshed.
LEMMA AfterVisitType ==
    ASSUME NEW cp \in Checkpoint, NEW e \in Due(cp), NEW outcome \in Outcomes
    PROVE  /\ AfterVisit(cp, e.index, e.attempts + 1, outcome) \in Checkpoint
           /\ AfterVisit(cp, e.index, e.attempts + 1, outcome).workCount = cp.workCount + 1
           /\ e.index \in Nat
<1> DEFINE i == e.index
           n == e.attempts + 1
           kept == Others(cp.retries, i)
           retried == outcome = "failed" /\ n < MaxIssuerAttempts
           c == IF i = cp.cursor THEN i + 1 ELSE cp.cursor
           done == IF outcome = "refreshed" THEN cp.succeeded + 1 ELSE cp.succeeded
           listed == IF retried THEN kept \cup {[index |-> i, attempts |-> n]} ELSE kept
           failed == IF outcome = "refreshed" \/ retried THEN cp.failures
                     ELSE cp.failures \cup {i}
<1>1. /\ cp.schema \in 0..2 /\ cp.cursor \in Nat /\ cp.succeeded \in Nat
      /\ cp.workCount \in Nat /\ cp.retries \in SUBSET [index: Nat, attempts: Nat]
      /\ cp.failures \in SUBSET Nat
  BY CheckpointTypes
<1>2. i \in Nat /\ n \in Nat
  <2>1. e \in [index: Nat, attempts: Nat]
    BY <1>1 DEF Due
  <2> QED
    BY <2>1
<1>3. AfterVisit(cp, i, n, outcome) =
        [cp EXCEPT !.cursor = c, !.workCount = cp.workCount + 1, !.succeeded = done,
                   !.retries = listed, !.failures = failed]
  BY DEF AfterVisit, Others
<1>4. kept \in SUBSET [index: Nat, attempts: Nat]
  BY <1>1 DEF Others
<1>5. /\ c \in Nat /\ done \in Nat /\ listed \in SUBSET [index: Nat, attempts: Nat]
      /\ failed \in SUBSET Nat
  <2> HIDE DEF i, n, kept
  <2> QED
    BY <1>1, <1>2, <1>4
<1>6. cp = [schema |-> cp.schema, cursor |-> cp.cursor, succeeded |-> cp.succeeded,
            workCount |-> cp.workCount, retries |-> cp.retries, failures |-> cp.failures]
  BY DEF Checkpoint
<1> HIDE DEF i, n, c, done, listed, failed
<1>7. AfterVisit(cp, i, n, outcome) =
        [schema |-> cp.schema, cursor |-> c, succeeded |-> done,
         workCount |-> cp.workCount + 1, retries |-> listed, failures |-> failed]
  BY <1>3, <1>6
<1>8. /\ AfterVisit(cp, i, n, outcome) \in Checkpoint
      /\ AfterVisit(cp, i, n, outcome).workCount = cp.workCount + 1
  BY <1>1, <1>5, <1>7 DEF Checkpoint
<1> QED
  BY <1>2, <1>8 DEF i, n

\* A visit moves its issuer to a list or into the refreshed, and leaves the
\* others where they are.
LEMMA VisitKeeps == ASSUME IInv, NEW w \in Everyone, Visit(w) PROVE IInv'
<1>1. w \in Workers /\ worker[w].pc = "work" /\ UNCHANGED jobs
  BY DEF Visit
<1>2. PICK j \in Jobs : /\ j = worker[w].job /\ j \in ShardJobs /\ j \notin CohortJobs
                        /\ Good(j, worker[w].local)
  BY <1>1, AtWork, CoverageAssumption
<1>3. PICK cp \in Checkpoint : cp = worker[w].local
  BY <1>1, AtWork
<1>4. PICK e \in Due(cp), outcome \in Outcomes :
        /\ Send(w, "wait", "checkpoint", AfterVisit(cp, e.index, e.attempts + 1, outcome))
        /\ refreshed' = IF outcome = "refreshed" THEN refreshed \cup {<<j, e.index>>}
                        ELSE refreshed
  BY <1>2, <1>3 DEF Visit, Outcomes
<1>5. e.index \in Nat
  BY AfterVisitType
<1>6. PICK next \in Checkpoint : /\ next = AfterVisit(cp, e.index, e.attempts + 1, outcome)
                                 /\ next.workCount = cp.workCount + 1
  BY AfterVisitType
<1>7. refreshed \subseteq refreshed' /\ refreshed' \subseteq Jobs \X Nat
  BY <1>1, <1>4, <1>5, AtWork
<1>8. Sends(w, "wait", "checkpoint", next, cp)
  <2>1. worker[w] \in Worker
    BY <1>1, AtWork
  <2>2. Send(w, "wait", "checkpoint", next)
    BY <1>4, <1>6
  <2>3. Sends(w, "wait", "checkpoint", next, worker[w].local)
    BY <1>1, <1>7, <2>1, <2>2, SendIsSends
  <2> QED
    BY <1>3, <2>3
<1>9. Good(j, cp)'
  BY <1>2, <1>3, <1>7, EvidenceGrows DEF Good, Reached, Visited
<1>10. ASSUME Migrators = {}
       PROVE  Sound(next) /\ (j \notin Superseded => Visited(j, next)')
  <2>1. Sound(cp) /\ (j \notin Superseded => Visited(j, cp))
    BY <1>2, <1>3, <1>10 DEF Good
  <2>2. /\ Sound(next)
        /\ next.cursor = IF e.index = cp.cursor THEN e.index + 1 ELSE cp.cursor
        /\ cp.failures \subseteq next.failures
        /\ Others(cp.retries, e.index) \subseteq next.retries
        /\ \/ outcome = "refreshed"
           \/ e.index \in next.failures
           \/ \E f \in next.retries : f.index = e.index
    BY <1>6, <2>1, VisitKeepsSound
  <2>3. ASSUME j \notin Superseded, NEW i \in Nat, i < next.cursor
        PROVE  <<j, i>> \in refreshed' \/ i \in next.failures \/ \E f \in next.retries : f.index = i
    <3>1. CASE i = e.index
      BY <1>4, <2>2, <3>1
    <3>2. CASE i # e.index
      <4>1. i < cp.cursor
        BY <1>5, <2>2, <2>3, <3>2, CheckpointTypes
      <4>2. <<j, i>> \in refreshed \/ i \in cp.failures \/ \E f \in cp.retries : f.index = i
        BY <2>1, <2>3, <4>1 DEF Visited
      <4> QED
        BY <1>7, <2>2, <3>2, <4>2 DEF Others
    <3> QED
      BY <3>1, <3>2
  <2> QED
    BY <2>2, <2>3 DEF Visited
<1>11. Good(j, next)'
  BY <1>2, <1>10 DEF Good
<1>12. /\ "wait" \in Waiting /\ "checkpoint" \in Kinds
       /\ Count(cp) = Count(worker[w].local) /\ Count(next) = Count(cp) + 1
  BY <1>3, <1>6 DEF Waiting, Kinds, Count
<1> QED
  BY <1>2, <1>8, <1>9, <1>11, <1>12, SendsKeep

\* A worker that stops says what it knows, and that it is done only when it is.
LEMMA StopKeeps == ASSUME IInv, NEW w \in Everyone, Stop(w) PROVE IInv'
<1>1. w \in Workers /\ worker[w].pc = "work" /\ UNCHANGED <<jobs, refreshed>>
  BY DEF Stop
<1>2. PICK j \in Jobs : /\ j = worker[w].job /\ j \in ShardJobs /\ j \notin CohortJobs
                        /\ Good(j, worker[w].local)
  BY <1>1, AtWork, CoverageAssumption
<1>3. PICK cp \in Checkpoint : cp = worker[w].local
  BY <1>1, AtWork
<1>4. PICK kind \in {"done", "yield"} :
        Send(w, "wait", kind, cp) /\ (kind = "done" => Finished(cp))
  BY <1>3 DEF Stop
<1>5. Sends(w, "wait", kind, cp, cp)
  <2>1. worker[w] \in Worker /\ refreshed \subseteq Jobs \X Nat
    BY <1>1, AtWork
  <2>2. Sends(w, "wait", kind, cp, worker[w].local)
    BY <1>1, <1>4, <2>1, SendIsSends
  <2> QED
    BY <1>3, <2>2
<1>6. Good(j, cp)' /\ (kind = "done" => Ended(j, cp)')
  BY <1>1, <1>2, <1>3, <1>4 DEF Good, Ended, Reached, Visited
<1>7. /\ "wait" \in Waiting /\ kind \in Kinds /\ kind # "checkpoint"
      /\ Count(cp) = Count(worker[w].local)
  BY <1>3, <1>4 DEF Waiting, Kinds, Count
<1> QED
  BY <1>2, <1>5, <1>6, <1>7, SendsKeep

\* A batch moves the cursor over what it refreshed, and ends at the last company.
LEMMA BatchKeeps == ASSUME IInv, NEW w \in Everyone, Batch(w) PROVE IInv'
<1>1. w \in Migrators /\ worker[w].pc = "work" /\ UNCHANGED jobs
  BY DEF Batch
<1>2. PICK j \in Jobs : j = worker[w].job /\ Good(j, worker[w].local)
  BY <1>1, AtWork
<1>3. PICK cp \in Checkpoint : cp = worker[w].local /\ cp.cursor \in Nat
  BY <1>1, AtWork, CheckpointTypes
<1>4. PICK next \in cp.cursor..(cp.cursor + BatchSize) :
        LET v == [worker[w] EXCEPT !.local.cursor = next]
        IN  /\ next <= CohortSize
            /\ \E kind \in {"checkpoint", BatchStatus(next)} :
                  calls' = calls \cup {Request(v, "wait", kind, Cohort(next))}
            /\ Becomes(w, [v EXCEPT !.pc = "wait"])
            /\ refreshed' = refreshed \cup
                 {<<v.job, i>> : i \in {i \in Companies :
                                  v.job \in CohortJobs /\ i >= cp.cursor /\ i < next}}
  BY <1>3 DEF Batch
<1>5. next \in Nat /\ BatchSize \in Nat /\ CohortSize \in Nat
  BY <1>3, CoverageAssumption
<1>6. PICK own \in Checkpoint : own = [cp EXCEPT !.cursor = next] /\ own.cursor = next
  <2> DEFINE o == [cp EXCEPT !.cursor = next]
  <2>1. cp = [schema |-> cp.schema, cursor |-> cp.cursor, succeeded |-> cp.succeeded,
              workCount |-> cp.workCount, retries |-> cp.retries, failures |-> cp.failures]
    BY DEF Checkpoint
  <2>2. o = [schema |-> cp.schema, cursor |-> next, succeeded |-> cp.succeeded,
             workCount |-> cp.workCount, retries |-> cp.retries, failures |-> cp.failures]
    BY <2>1
  <2>3. o \in Checkpoint /\ o.cursor = next
    BY <1>5, <2>2, CheckpointTypes DEF Checkpoint
  <2>4. o = [cp EXCEPT !.cursor = next]
    OBVIOUS
  <2> HIDE DEF o
  <2> QED
    BY <2>3, <2>4
<1>7. PICK sent \in Checkpoint : sent = Cohort(next) /\ sent.cursor = next
  BY <1>5, CohortType
<1>8. PICK v : /\ v = [worker[w] EXCEPT !.local.cursor = next]
               /\ v.job = j /\ v.owner = worker[w].owner
               /\ [v EXCEPT !.pc = "wait"] = [worker[w] EXCEPT !.pc = "wait", !.local = own]
  <2> DEFINE u == [worker[w] EXCEPT !.local.cursor = next]
  <2>1. worker[w] = [pc |-> worker[w].pc, job |-> j, owner |-> worker[w].owner, local |-> cp]
    BY <1>1, <1>2, <1>3, AtWork, WorkerTypes
  <2>2. u = [pc |-> worker[w].pc, job |-> j, owner |-> worker[w].owner,
             local |-> [cp EXCEPT !.cursor = next]]
    BY <1>3, <2>1
  <2>3. u = [pc |-> worker[w].pc, job |-> j, owner |-> worker[w].owner, local |-> own]
    BY <1>6, <2>2
  <2>4. /\ u = [worker[w] EXCEPT !.local.cursor = next]
        /\ u.job = j /\ u.owner = worker[w].owner
        /\ [u EXCEPT !.pc = "wait"] = [worker[w] EXCEPT !.pc = "wait", !.local = own]
    BY <2>1, <2>3
  <2> HIDE DEF u
  <2> QED
    BY <2>4
<1>9. PICK kind \in {"checkpoint", BatchStatus(next)} :
        calls' = calls \cup {Request(v, "wait", kind, sent)}
  BY <1>4, <1>7, <1>8
<1>10. kind \in Kinds /\ (kind = "done" => next = CohortSize)
  BY <1>9 DEF BatchStatus, Kinds
<1>11. /\ worker' = [worker EXCEPT ![w] = [worker[w] EXCEPT !.pc = "wait", !.local = own]]
       /\ refreshed' = refreshed \cup
            {<<j, i>> : i \in {i \in Companies : j \in CohortJobs /\ i >= cp.cursor /\ i < next}}
  <2> DEFINE u == [worker[w] EXCEPT !.local.cursor = next]
             Passed(job) == {i \in Companies : job \in CohortJobs /\ i >= cp.cursor /\ i < next}
  <2>1. /\ Becomes(w, [u EXCEPT !.pc = "wait"])
        /\ refreshed' = refreshed \cup {<<u.job, i>> : i \in Passed(u.job)}
    BY <1>4
  <2>2. u = v
    BY <1>8
  <2> HIDE DEF u, Passed
  <2>3. /\ Becomes(w, [v EXCEPT !.pc = "wait"])
        /\ refreshed' = refreshed \cup {<<v.job, i>> : i \in Passed(v.job)}
    BY <2>1, <2>2, Zenon
  <2>4. refreshed' = refreshed \cup {<<j, i>> : i \in Passed(j)}
    BY <1>8, <2>3, Zenon
  <2> QED
    BY <1>8, <2>3, <2>4 DEF Becomes, Passed
<1>12. refreshed \subseteq refreshed' /\ refreshed' \subseteq Jobs \X Nat
  BY <1>1, <1>5, <1>11, AtWork DEF Companies
<1>13. Sends(w, "wait", kind, sent, own)
  BY <1>1, <1>8, <1>9, <1>11, <1>12, <1>2 DEF Sends, Request
<1>14. j \in CohortJobs => Reached(j, next)'
  <2> SUFFICES ASSUME j \in CohortJobs, NEW i \in Companies, i < next
               PROVE  <<j, i>> \in refreshed'
    BY DEF Reached
  <2>1. i \in Nat
    BY CoverageAssumption DEF Companies
  <2>2. CASE i < cp.cursor
    BY <1>2, <1>3, <1>12, <2>2 DEF Good, Reached
  <2>3. CASE i >= cp.cursor
    BY <1>11, <2>3
  <2> QED
    BY <1>3, <2>1, <2>2, <2>3
<1>15. /\ Good(j, own)' /\ Good(j, sent)' /\ (kind = "done" => Ended(j, sent)')
  BY <1>1, <1>6, <1>7, <1>10, <1>14 DEF Good, Ended, Reached
<1>16. "wait" \in Waiting /\ Migrators # {}
  BY <1>1 DEF Waiting
<1> QED
  BY <1>2, <1>10, <1>13, <1>15, <1>16, SendsKeep

\* A cursor that is refused is given back as it was.
LEMMA BadCursorKeeps == ASSUME IInv, NEW w \in Everyone, BadCursor(w) PROVE IInv'
<1>1. w \in Migrators /\ worker[w].pc = "work" /\ UNCHANGED <<jobs, refreshed>>
  BY DEF BadCursor
<1>2. PICK j \in Jobs : j = worker[w].job /\ Good(j, worker[w].local)
  BY <1>1, AtWork
<1>3. PICK cp \in Checkpoint : cp = worker[w].local
  BY <1>1, AtWork
<1>4. Sends(w, "rescue", "retry", cp, cp)
  <2>1. worker[w] \in Worker /\ refreshed \subseteq Jobs \X Nat
    BY <1>1, AtWork
  <2>2. Send(w, "rescue", "retry", worker[w].local)
    BY DEF BadCursor
  <2>3. Sends(w, "rescue", "retry", worker[w].local, worker[w].local)
    BY <1>1, <2>1, <2>2, SendIsSends
  <2> QED
    BY <1>3, <2>3
<1>5. Good(j, cp)'
  BY <1>1, <1>2, <1>3 DEF Good, Reached, Visited
<1>6. "rescue" \in Waiting /\ "retry" \in Kinds /\ Migrators # {}
  BY <1>1 DEF Waiting, Kinds
<1> QED
  BY <1>2, <1>4, <1>5, <1>6, SendsKeep

\* An answer that is awaited: the worker goes on with what it wrote, is done, or
\* learns that its lease is gone and gives the job back.
LEMMA ServeKeeps == ASSUME IInv, NEW w \in Everyone, NEW c \in calls, Serve(w, c) PROVE IInv'
<1>1. /\ Awaits(w, c) /\ Write(c.job, c.owner, c.kind, c.checkpoint) /\ UNCHANGED refreshed
      /\ c.owner \in Owners /\ c.owner # NoOwner /\ c.checkpoint \in Checkpoint
      /\ c.from \in Waiting
  BY Types, CallTypes DEF Serve
<1>2. CASE Holds(jobs[c.job], c.owner)
  <2>1. Acknowledged(w, c) /\ calls' = calls \ {c}
    BY <1>2 DEF Serve
  <2>2. worker[w] \in Worker /\ worker[w].local \in Checkpoint /\ Formed(worker[w])
    BY Types, WorkerTypes
  <2>3. /\ worker[w].pc = c.from /\ worker[w].owner = c.owner
        /\ worker[w].job \in Jobs /\ worker[w].owner \in Owners
    BY <1>1, <2>2 DEF Awaits, Formed, Waiting
  <2>4. PICK y \in Worker : /\ worker' = [worker EXCEPT ![w] = y]
                            /\ \/ y.pc = "idle" /\ Formed(y)
                               \/ Advances(worker[w], c, y)
    <3>1. CASE c.kind # "checkpoint"
      <4>1. worker' = [worker EXCEPT ![w] = Idle]
        BY <2>1, <3>1 DEF Acknowledged, Becomes
      <4> QED
        BY <4>1, IdleType
    <3>2. CASE c.kind = "checkpoint"
      <4> DEFINE known == IF w \in Migrators THEN worker[w].local ELSE c.checkpoint
                 z == [worker[w] EXCEPT !.pc = "work", !.local = known]
      <4>1. /\ known \in Checkpoint /\ known \in {worker[w].local, c.checkpoint}
            /\ Migrators = {} => known = c.checkpoint
        BY <1>1, <2>2
      <4>2. worker' = [worker EXCEPT ![w] = z]
        BY <2>1, <3>2 DEF Acknowledged, Becomes
      <4> HIDE DEF known
      <4>3. /\ z \in Worker /\ z.pc = "work" /\ z.owner = worker[w].owner
            /\ z.job = worker[w].job /\ z.local = known
        BY <2>2, <2>3, <4>1 DEF Worker
      <4> HIDE DEF z
      <4>4. Advances(worker[w], c, z)
        BY <2>3, <3>2, <4>1, <4>3 DEF Advances
      <4> QED
        BY <4>2, <4>3, <4>4
    <3> QED
      BY <3>1, <3>2
  <2>5. \A v \in Everyone : worker'[v] = IF v = w THEN y ELSE worker[v]
    BY <2>4, Types
  <2>6. worker' \in [Everyone -> Worker]
    BY <2>4, Types
  <2>7. ASSUME NEW v \in Everyone
        PROVE  \/ /\ worker'[v] = worker[v]
                  /\ worker[v].owner = c.owner => worker[v].pc # c.from
               \/ worker'[v].pc \in {"idle", "claim"} /\ Formed(worker'[v])
               \/ Advances(worker[v], c, worker'[v])
    <3>1. CASE v = w
      BY <2>4, <2>5, <3>1
    <3>2. CASE v # w
      <4>1. worker[v].owner # c.owner
        BY <1>1, <2>3, <3>2 DEF IInv, Owned
      <4> QED
        BY <2>5, <3>2, <4>1
    <3> QED
      BY <3>1, <3>2
  <2> QED
    BY <1>1, <1>2, <2>1, <2>6, <2>7, WriteKeeps
<1>3. CASE ~Holds(jobs[c.job], c.owner)
  <2>1. UNCHANGED jobs
    BY <1>1, <1>3 DEF Write
  <2>2. CASE c.from = "wait"
    <3>1. Rescue(w, calls \ {c}) /\ worker[w].pc = "wait" /\ calls \ {c} \in SUBSET calls
      BY <1>1, <1>3, <2>2 DEF Serve, Awaits
    <3> QED
      BY <1>1, <2>1, <3>1, RescueKeeps
  <2>3. CASE c.from # "wait"
    <3>1. worker' = [worker EXCEPT ![w] = Idle] /\ calls' \subseteq calls
      BY <1>3, <2>3 DEF Serve, Becomes
    <3> QED
      BY <1>1, <2>1, <3>1, IdleType, GoesIdle
  <2> QED
    BY <2>2, <2>3
<1> QED
  BY <1>2, <1>3

\* A call whose sender gave up is served or refused; nobody learns of it.
LEMMA ServeLateKeeps == ASSUME IInv, NEW c \in calls, ServeLate(c) PROVE IInv'
<1>1. /\ \A w \in Everyone : ~Awaits(w, c)
      /\ Write(c.job, c.owner, c.kind, c.checkpoint)
      /\ calls' = calls \ {c} /\ UNCHANGED <<worker, refreshed>>
  BY Types DEF ServeLate, Late
<1>2. worker' \in [Everyone -> Worker]
  BY <1>1, Types
<1>3. CASE Holds(jobs[c.job], c.owner)
  <2>1. \A w \in Everyone : /\ worker'[w] = worker[w]
                            /\ worker[w].owner = c.owner => worker[w].pc # c.from
    BY <1>1 DEF Awaits
  <2> QED
    BY <1>1, <1>2, <1>3, <2>1, WriteKeeps
<1>4. CASE ~Holds(jobs[c.job], c.owner)
  <2>1. UNCHANGED jobs
    BY <1>1, <1>4 DEF Write
  <2>2. /\ jobs' \in [Jobs -> Row(Checkpoint)] /\ \A j \in Jobs : Quiet(jobs[j], jobs'[j])
    BY <2>1, Types, QuietSteps
  <2> QED
    BY <1>1, <1>2, <2>2, FadeKeeps
<1> QED
  BY <1>3, <1>4

\* Every step keeps the invariant.
LEMMA NextKeeps == ASSUME IInv, [Next]_vars PROVE IInv'
<1>1. ASSUME NEW w \in Everyone, Begins(w) \/ Works(w) \/ Answered(w) \/ Fails(w)
      PROVE  IInv'
  <2>1. CASE EnqueueJobs(w)
    BY <2>1, EnqueueJobsKeeps
  <2>2. CASE Claim(w)
    BY <2>2, ClaimKeepsAll
  <2>3. CASE FoundNothing(w)
    BY <2>3, FoundNothingKeeps
  <2>4. CASE Visit(w)
    BY <2>4, VisitKeeps
  <2>5. CASE Stop(w)
    BY <2>5, StopKeeps
  <2>6. CASE Batch(w)
    BY <2>6, BatchKeeps
  <2>7. CASE BadCursor(w)
    BY <2>7, BadCursorKeeps
  <2>8. CASE Answered(w)
    BY <2>8, ServeKeeps DEF Answered
  <2>9. CASE ClaimUnheard(w)
    BY <2>9, ClaimUnheardKeeps
  <2>10. CASE Timeout(w)
    BY <2>10, TimeoutKeeps
  <2>11. CASE Killed(w)
    BY <2>11, KilledKeeps
  <2> QED
    BY <1>1, <2>1, <2>2, <2>3, <2>4, <2>5, <2>6, <2>7, <2>8, <2>9, <2>10, <2>11
       DEF Begins, Works, Fails
<1>2. ASSUME NEW c \in calls, ServeLate(c) PROVE IInv'
  BY <1>2, ServeLateKeeps
<1>3. ASSUME NEW j \in Jobs, TimePasses(j) PROVE IInv'
  BY <1>3, TimePassesKeeps
<1>4. CASE UNCHANGED vars
  <2>1. UNCHANGED <<jobs, worker, calls, refreshed>>
    BY <1>4 DEF vars
  <2>2. /\ jobs' \in [Jobs -> Row(Checkpoint)] /\ \A j \in Jobs : Quiet(jobs[j], jobs'[j])
    BY <2>1, Types, QuietSteps
  <2> QED
    BY <2>1, <2>2, Types, FadeKeeps
<1> QED
  BY <1>1, <1>2, <1>3, <1>4 DEF Next, Everyone

-------------------------------------------------------------------------------
(* What the invariant says, and the theorems.                                *)

\* A row is left as it is, is claimed with its checkpoint, or is written by a
\* call of its living lease.
LEMMA RowsMove ==
    ASSUME IInv, [Next]_vars, NEW j \in Jobs
    PROVE  \/ Quiet(jobs[j], jobs'[j])
           \/ jobs[j].state \notin Terminal /\ jobs'[j].checkpoint = jobs[j].checkpoint
           \/ /\ jobs[j].state \notin Terminal
              /\ \E c \in calls : /\ c.job = j /\ jobs[j].owner = c.owner
                                  /\ jobs'[j].checkpoint = c.checkpoint
<1>1. \/ \E S \in SUBSET Jobs : Enqueue(S) \/ ClaimNothing(S)
      \/ \E i \in Jobs : LeaseLapses(i) \/ BecomesAvailable(i)
      \/ UNCHANGED jobs
      \/ \E S \in SUBSET Jobs, i \in Jobs, o \in Owners : ClaimIn(S, i, o)
      \/ \E c \in calls : Write(c.job, c.owner, c.kind, c.checkpoint)
  <2>1. CASE UNCHANGED vars
    BY <2>1 DEF vars
  <2>2. ASSUME NEW i \in Jobs, TimePasses(i)
        PROVE  LeaseLapses(i) \/ BecomesAvailable(i)
    BY <2>2 DEF TimePasses
  <2>3. ASSUME NEW c \in calls, ServeLate(c)
        PROVE  Write(c.job, c.owner, c.kind, c.checkpoint)
    BY <2>3 DEF ServeLate
  <2>4. ASSUME NEW w \in Everyone, Answered(w)
        PROVE  \E c \in calls : Write(c.job, c.owner, c.kind, c.checkpoint)
    BY <2>4 DEF Answered, Serve
  <2>5. ASSUME NEW w \in Everyone, EnqueueJobs(w) \/ FoundNothing(w)
        PROVE  \E S \in SUBSET Jobs : Enqueue(S) \/ ClaimNothing(S)
    BY <2>5, ScopeTypes DEF EnqueueJobs, FoundNothing
  <2>6. ASSUME NEW w \in Everyone, Claim(w) \/ ClaimUnheard(w)
        PROVE  \E S \in SUBSET Jobs, i \in Jobs, o \in Owners : ClaimIn(S, i, o)
    <3>1. FreshOwner \in Owners
      BY <2>6, Types, FreshOwners DEF Claim, ClaimUnheard
    <3>2. \E i \in Scope(w) : ClaimIn(Scope(w), i, FreshOwner)
      BY <2>6 DEF Claim, ClaimUnheard
    <3> QED
      BY <3>1, <3>2, ScopeTypes
  <2>7. ASSUME NEW w \in Everyone, Works(w) \/ Timeout(w) \/ Killed(w)
        PROVE  UNCHANGED jobs
    BY <2>7 DEF Works, Visit, Stop, Batch, BadCursor, Timeout, Killed
  <2> QED
    BY <2>1, <2>2, <2>3, <2>4, <2>5, <2>6, <2>7 DEF Next, Begins, Fails, Everyone
<1>2. CASE \/ \E S \in SUBSET Jobs : Enqueue(S) \/ ClaimNothing(S)
           \/ \E i \in Jobs : LeaseLapses(i) \/ BecomesAvailable(i)
           \/ UNCHANGED jobs
  BY <1>2, Types, QuietSteps
<1>3. ASSUME NEW S \in SUBSET Jobs, NEW i \in Jobs, NEW o \in Owners, ClaimIn(S, i, o)
      PROVE  \/ Quiet(jobs[j], jobs'[j])
             \/ jobs[j].state \notin Terminal /\ jobs'[j].checkpoint = jobs[j].checkpoint
  <2>1. /\ Claimable(jobs[i])
        /\ jobs'[j] = IF j = i THEN Claimed(jobs[j], o)
                      ELSE IF j \in S THEN Swept(jobs[j]) ELSE jobs[j]
    BY <1>3 DEF ClaimIn
  <2>2. CASE j = i
    BY <2>1, <2>2, Types, ClaimedRow
  <2>3. CASE j # i
    BY <2>1, <2>3, Types, QuietRows
  <2> QED
    BY <2>2, <2>3
<1>4. ASSUME NEW c \in calls, Write(c.job, c.owner, c.kind, c.checkpoint)
      PROVE  \/ Quiet(jobs[j], jobs'[j])
             \/ /\ jobs[j].state \notin Terminal
                /\ c.job = j /\ jobs[j].owner = c.owner /\ jobs'[j].checkpoint = c.checkpoint
  <2>1. c.kind \in Kinds /\ c.checkpoint \in Checkpoint
    BY Types, CallTypes
  <2>2. CASE c.job = j /\ Holds(jobs[j], c.owner)
    <3>1. jobs'[j] = Written(jobs[j], c.kind, c.checkpoint)
      BY <1>4, <2>2, Types DEF Write
    <3> QED
      BY <2>1, <2>2, <3>1, Types, WrittenRow
  <2>3. CASE ~(c.job = j /\ Holds(jobs[j], c.owner))
    <3>1. jobs'[j] = jobs[j]
      BY <1>4, <2>3, Types DEF Write
    <3> QED
      BY <3>1, Types, QuietRows
  <2> QED
    BY <2>2, <2>3
<1> QED
  BY <1>1, <1>2, <1>3, <1>4

\* What a step may not do to a shard.
LEMMA StepLosesAtMostOne ==
    ASSUME Migrators = {}, IInv, [Next]_vars, NEW j \in ShardJobs
    PROVE  /\ jobs'[j].checkpoint.workCount + 1 >= jobs[j].checkpoint.workCount
           /\ jobs[j].state \in Terminal => jobs'[j] = jobs[j]
<1>1. /\ j \in Jobs /\ jobs[j].checkpoint \in Checkpoint
      /\ jobs[j].checkpoint.workCount \in Nat
  <2>1. j \in Jobs
    BY CoverageAssumption
  <2> QED
    BY <2>1, Types, RowTypes, CheckpointTypes
<1>2. CASE Quiet(jobs[j], jobs'[j])
  BY <1>1, <1>2 DEF Quiet
<1>3. CASE jobs[j].state \notin Terminal /\ jobs'[j].checkpoint = jobs[j].checkpoint
  BY <1>1, <1>3
<1>4. ASSUME jobs[j].state \notin Terminal, NEW c \in calls, c.job = j,
             jobs[j].owner = c.owner, jobs'[j].checkpoint = c.checkpoint
      PROVE  jobs'[j].checkpoint.workCount + 1 >= jobs[j].checkpoint.workCount
  BY <1>4 DEF IInv, Progress, CallsNear, Count
<1> QED
  BY <1>1, <1>2, <1>3, <1>4, RowsMove

\* The inductive invariant: types, owners of one invocation, the evidence behind
\* every checkpoint and, without migrators, progress within one visit.
THEOREM JobsInvariant == Spec => []IInv
<1>1. Init => IInv
  BY InitKeeps
<1>2. IInv /\ [Next]_vars => IInv'
  BY NextKeeps
<1> QED
  BY <1>1, <1>2, PTL DEF Spec

\* Every row, invocation and call has its type, and a row is owned exactly while
\* it runs.
THEOREM JobsTypes == Spec => []TypeOK
<1>1. IInv => TypeOK
  BY DEF IInv, TypesOK, TypeOK, QueueTypeOK, RowOK, Everyone
<1> QED
  BY <1>1, JobsInvariant, PTL

\* A cohort job is done only when every company was refreshed under it, whatever
\* lease lapsed and whichever worker took over.
THEOREM CohortIsComplete == Spec => []CohortComplete
<1>1. IInv => CohortComplete
  <2> SUFFICES ASSUME IInv, NEW j \in CohortJobs, jobs[j].state = "done", NEW i \in Companies
               PROVE  <<j, i>> \in refreshed
    BY DEF CohortComplete
  <2>1. j \in Jobs /\ i < CohortSize
    BY CoverageAssumption DEF Companies
  <2> QED
    BY <2>1 DEF IInv, Evidence, Ended, Reached
<1> QED
  BY <1>1, JobsInvariant, PTL

\* Where only coverage workers claim, no checkpoint is one that a claim refuses.
THEOREM CheckpointsStayValid == Spec => [](Migrators = {} => CheckpointsValid)
<1>1. IInv => (Migrators = {} => CheckpointsValid)
  <2> SUFFICES ASSUME IInv, Migrators = {}, NEW j \in ShardJobs
               PROVE  ValidCheckpoint(jobs[j].checkpoint)
    BY DEF CheckpointsValid
  <2>1. j \in Jobs
    BY CoverageAssumption
  <2>2. Sound(jobs[j].checkpoint) /\ jobs[j].checkpoint \in Checkpoint
    BY <2>1, Types, RowTypes DEF IInv, Evidence, Good
  <2> QED
    BY <2>2, SoundIsValid
<1> QED
  BY <1>1, JobsInvariant, PTL

\* Where only coverage workers claim, a shard that is done has skipped no issuer.
THEOREM ShardIsVisited == Spec => [](Migrators = {} => DoneMeansVisited)
<1>1. IInv => (Migrators = {} => DoneMeansVisited)
  <2> SUFFICES ASSUME IInv, Migrators = {}, NEW j \in ShardJobs \ Superseded,
                      jobs[j].state = "done", NEW i \in Issuers
               PROVE  <<j, i>> \in refreshed \/ i \in jobs[j].checkpoint.failures
    BY DEF DoneMeansVisited
  <2>1. j \in Jobs /\ i \in Nat /\ i < ShardSize
    BY CoverageAssumption DEF Issuers
  <2>2. Finished(jobs[j].checkpoint) /\ Visited(j, jobs[j].checkpoint)
    BY <2>1 DEF IInv, Evidence, Ended, Good
  <2> QED
    BY <2>1, <2>2 DEF Finished, Visited
<1> QED
  BY <1>1, JobsInvariant, PTL

\* Where only coverage workers claim, a write that comes late costs a shard at
\* most one visit, and nothing is written to a job that has ended.
THEOREM OneVisitAtMost == ASSUME Migrators = {} PROVE Spec => LosesAtMostOne
<1>1. IInv /\ [Next]_vars =>
        [\A j \in ShardJobs :
           /\ jobs'[j].checkpoint.workCount + 1 >= jobs[j].checkpoint.workCount
           /\ jobs[j].state \in Terminal => jobs'[j] = jobs[j]]_vars
  BY StepLosesAtMostOne
<1> QED
  BY <1>1, JobsInvariant, PTL DEF Spec, LosesAtMostOne
===============================================================================
