-------------------------- MODULE FundReviews_proofs --------------------------
(* Fund reviews for any jobs, reports, workers and rations: results stay     *)
(* with their report, counters and completion with the results, time with    *)
(* the budget, and verified evidence with the job.                           *)
EXTENDS FundReviews, FiniteSetTheorems, TLAPS

Cur(res) == {h \in Holdings : res[h].cur}
Fin(res) == {h \in Cur(res) : res[h].terminal}
Kept(res) == {h \in Holdings : res[h].kept}

\* A job and its results, row by row: well-formed, ...
Fits(row, res) ==
    /\ row \in Job /\ res \in [Holdings -> Row]
    /\ row.owner = NoOwner <=> row.lease = 0
    /\ row.lease > 0 => row.state = "working"

\* ... of the report that the job is bound to, ...
OfReport(row, res) ==
    /\ IF row.state = "absent" THEN row = Absent /\ res = NoRows
       ELSE row.checked \in Stamps /\ row.report = Content[row.checked]
    /\ \A h \in Holdings :
         /\ res[h].cur => res[h].kept
         /\ res[h].verified => res[h].kept
         /\ res[h].kept => res[h].of = row.report /\ h \in HoldingsOf[row.report]

\* ... counted ...
Counted(row, res) ==
    /\ row.reviewed = Cardinality(Cur(res))
    /\ row.terminal = Cardinality(Fin(res))
    /\ row.bytes = Cardinality(Kept(res))

\* ... and complete only when it was reviewed.
Reviewed(row, res) ==
    row.state \in Completed => Fin(res) = HoldingsOf[row.report] /\ row.shown = Fin(res)

Sound(row, res) ==
    Fits(row, res) /\ OfReport(row, res) /\ Counted(row, res) /\ Reviewed(row, res)

AllSound == \A j \in Jobs : Sound(job[j], rows[j])

\* The rest of a lease that was reserved today is still reserved.
Reserved ==
    /\ budget \in [reserved: 0 .. DayCap, attempts: 0 .. AttemptCap]
    /\ worked \in Nat
    /\ \A j \in Jobs : job[j].lease > 0 /\ job[j].today =>
         worked + job[j].lease <= budget.reserved

StoreInv ==
    /\ job \in [Jobs -> Job] /\ rows \in [Jobs -> [Holdings -> Row]]
    /\ AllSound
    /\ Metered
    /\ Reserved

\* A step lets claims end but begins none and rebinds none.
KeepsClaims ==
    \A j \in Jobs : job'[j].owner # NoOwner =>
        job'[j].owner = job[j].owner /\ job'[j].report = job[j].report

-------------------------------------------------------------------------------
(* One job.                                                                  *)

\* Sets of holdings are finite, and disjoint ones add up.
LEMMA HoldingSets ==
    /\ \A S \in SUBSET Holdings : IsFiniteSet(S) /\ Cardinality(S) \in Nat
    /\ \A S, T \in SUBSET Holdings : S \cap T = {} =>
         Cardinality(S \cup T) = Cardinality(S) + Cardinality(T)
    /\ \A S, T \in SUBSET Holdings :
         S \subseteq T /\ Cardinality(S) = Cardinality(T) => S = T
<1>1. ASSUME NEW S \in SUBSET Holdings PROVE IsFiniteSet(S) /\ Cardinality(S) \in Nat
  BY ReviewAssumption, FS_Subset, FS_CardinalityType
<1>2. ASSUME NEW S \in SUBSET Holdings, NEW T \in SUBSET Holdings, S \cap T = {}
      PROVE  Cardinality(S \cup T) = Cardinality(S) + Cardinality(T)
  <2>1. /\ IsFiniteSet(S) /\ IsFiniteSet(T)
        /\ Cardinality(S) \in Nat /\ Cardinality(T) \in Nat
    BY <1>1
  <2>2. Cardinality(S \cup T) = Cardinality(S) + Cardinality(T) - Cardinality(S \cap T)
    BY <2>1, FS_Union
  <2>3. Cardinality(S \cap T) = 0
    BY <1>2, FS_EmptySet
  <2> QED
    BY <2>1, <2>2, <2>3
<1>3. ASSUME NEW S \in SUBSET Holdings, NEW T \in SUBSET Holdings,
             S \subseteq T, Cardinality(S) = Cardinality(T)
      PROVE  S = T
  <2>1. IsFiniteSet(T)
    BY <1>1
  <2>2. S \in SUBSET T
    BY <1>3
  <2> QED
    BY <2>1, <2>2, <1>3, FS_Subset
<1> QED
  BY <1>1, <1>2, <1>3

\* No job is sound.
LEMMA NoJobSound == Sound(Absent, NoRows)
<1> DEFINE none == NoRows
<1>1. none \in [Holdings -> Row] /\ \A h \in Holdings : none[h] = NoRow
  BY ReviewAssumption DEF NoRows, NoRow, Row, Outcomes
<1>2. Cur(none) = {} /\ Fin(none) = {} /\ Kept(none) = {}
  BY <1>1 DEF Cur, Fin, Kept, NoRow
<1>3. Absent \in Job
  BY ReviewAssumption DEF Absent, Job, States, Completed
<1>4. Fits(Absent, none)
  BY <1>1, <1>3 DEF Fits, Absent
<1>5. OfReport(Absent, none)
  BY <1>1 DEF OfReport, Absent, NoRow
<1>6. Counted(Absent, none)
  BY <1>2, FS_EmptySet DEF Counted, Absent
<1>7. Reviewed(Absent, none)
  BY DEF Reviewed, Absent, Completed
<1> QED
  BY <1>4, <1>5, <1>6, <1>7 DEF Sound

\* A job that was just bound to a report is sound.
LEMMA BoundSound == ASSUME NEW j, NEW s \in Stamps PROVE Sound(Bound(j, s), NoRows)
<1> DEFINE none == NoRows
           row == Bound(j, s)
<1>1. none \in [Holdings -> Row] /\ \A h \in Holdings : none[h] = NoRow
  BY ReviewAssumption DEF NoRows, NoRow, Row, Outcomes
<1>2. Cur(none) = {} /\ Fin(none) = {} /\ Kept(none) = {}
  BY <1>1 DEF Cur, Fin, Kept, NoRow
<1>3. Content[s] \in Reports /\ s \in 0 .. MaxStamp
  BY ReviewAssumption DEF Stamps
<1>4. /\ Absent \in Job /\ Absent.owner = NoOwner /\ Absent.lease = 0
      /\ Absent.reviewed = 0 /\ Absent.terminal = 0 /\ Absent.bytes = 0
  BY ReviewAssumption DEF Absent, Job, States, Completed
<1>5. /\ row \in Job /\ row.state = "queued" /\ row.report = Content[s] /\ row.checked = s
      /\ row.owner = NoOwner /\ row.lease = 0
      /\ row.reviewed = 0 /\ row.terminal = 0 /\ row.bytes = 0
  BY <1>3, <1>4 DEF Bound, Job, States
<1> HIDE DEF row
<1>6. Fits(row, none)
  BY <1>1, <1>5 DEF Fits
<1>7. OfReport(row, none)
  BY <1>1, <1>5 DEF OfReport, NoRow
<1>8. Counted(row, none)
  BY <1>2, <1>5, FS_EmptySet DEF Counted
<1>9. Reviewed(row, none)
  BY <1>5 DEF Reviewed, Completed
<1> QED
  BY <1>6, <1>7, <1>8, <1>9 DEF Sound, row

\* A job may change its state, lease and stamps as long as it stays bound.
LEMMA SameResults ==
    ASSUME NEW row, NEW res, NEW new \in Job, Sound(row, res),
           row.state # "absent", new.state # "absent",
           new.report = row.report, new.checked \in Stamps, Content[new.checked] = row.report,
           new.reviewed = row.reviewed, new.terminal = row.terminal, new.bytes = row.bytes,
           new.owner = NoOwner <=> new.lease = 0,
           new.lease > 0 => new.state = "working",
           new.state \in Completed => row.state \in Completed /\ new.shown = row.shown
    PROVE  Sound(new, res)
<1>1. Fits(new, res)
  BY DEF Sound, Fits
<1>2. OfReport(new, res)
  BY DEF Sound, OfReport
<1>3. Counted(new, res)
  BY DEF Sound, Counted
<1>4. Reviewed(new, res)
  BY DEF Sound, Reviewed
<1> QED
  BY <1>1, <1>2, <1>3, <1>4 DEF Sound

\* A claim keeps the results; the next cycle begins with none of its own.
LEMMA ClaimedSound ==
    ASSUME NEW row, NEW res, NEW o \in Owners, Sound(row, res),
           row.state \in Completed \cup {"queued", "retry", "working"}
    PROVE  Sound(Claimed(row, o),
                 [h \in Holdings |-> IF row.state \in Completed THEN Outdated(res[h])
                                     ELSE [res[h] EXCEPT !.tried = FALSE]])
<1> DEFINE new == Claimed(row, o)
           anew == [h \in Holdings |-> IF row.state \in Completed THEN Outdated(res[h])
                                       ELSE [res[h] EXCEPT !.tried = FALSE]]
<1>1. row \in Job /\ res \in [Holdings -> Row] /\ row.state # "absent"
  BY DEF Sound, Fits, Completed
<1>2. /\ new.state = "working" /\ new.owner = o /\ new.lease = Lease
      /\ new.report = row.report /\ new.checked = row.checked /\ new.bytes = row.bytes
      /\ row.state \in Completed => new.reviewed = 0 /\ new.terminal = 0
      /\ row.state \notin Completed => new.reviewed = row.reviewed /\ new.terminal = row.terminal
  BY <1>1 DEF Claimed, Job
<1>3. new \in Job
  <2>1. /\ o \in Owners \cup {NoOwner} /\ Lease \in 0 .. Lease /\ "working" \in States
    BY ReviewAssumption DEF States
  <2>2. /\ (IF row.state \in Completed THEN 0 ELSE row.reviewed) \in Nat
        /\ (IF row.state \in Completed THEN 0 ELSE row.terminal) \in Nat
    BY <1>1 DEF Job
  <2> QED
    BY <1>1, <2>1, <2>2 DEF Claimed, Job
<1>4. ASSUME NEW h \in Holdings
      PROVE  /\ anew[h] \in Row /\ anew[h].kept = res[h].kept
             /\ row.state \in Completed =>
                  /\ ~anew[h].cur /\ (anew[h].verified => res[h].verified)
                  /\ anew[h].kept => anew[h].of = res[h].of
             /\ row.state \notin Completed =>
                  /\ anew[h].cur = res[h].cur /\ anew[h].terminal = res[h].terminal
                  /\ anew[h].verified = res[h].verified /\ anew[h].of = res[h].of
  <2>1. res[h] \in Row
    BY <1>1
  <2>2. NoRow \in Row
    BY ReviewAssumption DEF NoRow, Row, Outcomes
  <2>3. CASE row.state \in Completed
    <3>1. anew[h] = Outdated(res[h])
      BY <2>3
    <3>2. res[h].kept =>
            Outdated(res[h]) = [NoRow EXCEPT !.kept = TRUE, !.verified = res[h].verified, !.of = res[h].of]
      BY DEF Outdated
    <3>3. ~res[h].kept => Outdated(res[h]) = NoRow
      BY DEF Outdated
    <3> QED
      BY <2>1, <2>2, <2>3, <3>1, <3>2, <3>3, <1>1, ZenonT(60) DEF OfReport, NoRow, Row
  <2>4. CASE row.state \notin Completed
    <3>1. anew[h] = [res[h] EXCEPT !.tried = FALSE]
      BY <2>4
    <3> QED
      BY <2>1, <2>4, <3>1 DEF Row
  <2> QED
    BY <2>3, <2>4
<1>5. anew \in [Holdings -> Row]
  BY <1>4
<1> HIDE DEF new, anew
<1>6. Fits(new, anew)
  BY <1>2, <1>3, <1>5, ReviewAssumption DEF Fits
<1>7. OfReport(new, anew)
  BY <1>1, <1>2, <1>4 DEF Sound, OfReport
<1>8. Counted(new, anew)
  <2>1. Kept(anew) = Kept(res)
    BY <1>4 DEF Kept
  <2>2. row.state \in Completed => Cur(anew) = {} /\ Fin(anew) = {}
    BY <1>4 DEF Cur, Fin
  <2>3. row.state \notin Completed => Cur(anew) = Cur(res) /\ Fin(anew) = Fin(res)
    BY <1>4 DEF Cur, Fin
  <2> QED
    BY <1>2, <2>1, <2>2, <2>3, FS_EmptySet DEF Sound, Counted
<1>9. Reviewed(new, anew)
  BY <1>2 DEF Reviewed, Completed
<1> QED
  BY <1>6, <1>7, <1>8, <1>9 DEF Sound, new, anew

\* What one save makes of the results of its job.
After(m) == [h \in Holdings |-> IF h \in News(m) THEN Saved(rows[m.job][h], m.entries[h], m.of)
                                ELSE rows[m.job][h]]

IsSave(m) == m \in Call /\ m.op = "save"

\* The parts of a save.
LEMMA SaveType ==
    ASSUME NEW m, IsSave(m)
    PROVE  /\ m.job \in Jobs /\ m.owner \in Owners /\ m.of \in Reports
           /\ DOMAIN m.entries \subseteq Holdings
           /\ \A h \in DOMAIN m.entries : m.entries[h] \in Entry
<1>1. m \in [op: {"save"}, job: Jobs, owner: Owners, of: Reports, entries: Entries]
  BY DEF IsSave, Call
<1>2. PICK B \in SUBSET Holdings : m.entries \in [B -> Entry]
  BY <1>1 DEF Entries
<1> QED
  BY <1>1, <1>2

\* A save that is accepted adds its results to those of its own report.
LEMMA StoredSound ==
    ASSUME NEW m, IsSave(m), Sound(job[m.job], rows[m.job]), Accepts(m),
           job \in [Jobs -> Job], rows \in [Jobs -> [Holdings -> Row]],
           m.of = job[m.job].report, DOMAIN m.entries \subseteq HoldingsOf[m.of], Store(m)
    PROVE  /\ Sound(job'[m.job], rows'[m.job])
           /\ job'[m.job].report = job[m.job].report /\ job'[m.job].owner = job[m.job].owner
           /\ job'[m.job].lease = job[m.job].lease /\ job'[m.job].today = job[m.job].today
<1> DEFINE row == job[m.job]
           res == rows[m.job]
           N == News(m)
           first == {h \in N : ~res[h].cur}
           final == {h \in N : After(m)[h].terminal}
           new == job'[m.job]
<1>1. m.job \in Jobs /\ m.of \in Reports /\ N \subseteq Holdings
      /\ N \subseteq DOMAIN m.entries
      /\ \A h \in N : m.entries[h] \in Entry
  BY SaveType DEF News
<1>2. row \in Job /\ res \in [Holdings -> Row]
  BY <1>1, SMTT(60)
<1>3. rows'[m.job] = After(m)
  BY <1>1, ZenonT(60) DEF Store, After
<1>4. new = [row EXCEPT !.reviewed = @ + Cardinality(first), !.terminal = @ + Cardinality(final),
                        !.bytes = @ + Cardinality(Added(m))]
  BY <1>1, <1>2 DEF Store, After
<1>5. first \subseteq Holdings /\ final \subseteq Holdings /\ Added(m) \subseteq Holdings
  BY <1>1 DEF Added
<1>6. Cardinality(first) \in Nat /\ Cardinality(final) \in Nat /\ Cardinality(Added(m)) \in Nat
  BY <1>5, HoldingSets
<1>7. /\ new \in Job
      /\ new.state = row.state /\ new.report = row.report /\ new.checked = row.checked
      /\ new.owner = row.owner /\ new.lease = row.lease /\ new.today = row.today
      /\ new.reviewed = row.reviewed + Cardinality(first)
      /\ new.terminal = row.terminal + Cardinality(final)
      /\ new.bytes = row.bytes + Cardinality(Added(m))
  <2> HIDE DEF row, new
  <2>1. ASSUME NEW a \in Nat, NEW b \in Nat, NEW c \in Nat,
               new = [row EXCEPT !.reviewed = @ + a, !.terminal = @ + b, !.bytes = @ + c]
        PROVE  /\ new \in Job
               /\ new.state = row.state /\ new.report = row.report /\ new.checked = row.checked
               /\ new.owner = row.owner /\ new.lease = row.lease /\ new.today = row.today
               /\ new.reviewed = row.reviewed + a /\ new.terminal = row.terminal + b
               /\ new.bytes = row.bytes + c
    <3>1. row.reviewed + a \in Nat /\ row.terminal + b \in Nat /\ row.bytes + c \in Nat
      BY <1>2 DEF Job
    <3> QED
      BY <1>2, <2>1, <3>1 DEF Job
  <2> HIDE DEF first, final
  <2> QED
    BY <1>4, <1>6, <2>1
\* What was news was not final, and has attempts left.
<1>8. ASSUME NEW h \in N
      PROVE  res[h].cur => ~res[h].terminal /\ res[h].attempts < MaxAttempts
  <2>1. ~Refuses(res[h], m.entries[h]) /\ ~Again(res[h])
    BY <1>1 DEF Accepts, SomeRefused, News
  <2>2. res[h] \in Row /\ MaxAttempts \in Nat
    BY <1>1, <1>2, ReviewAssumption
  <2> QED
    BY <2>1, <2>2 DEF Refuses, Row
<1>9. ASSUME NEW h \in N
      PROVE  /\ After(m)[h] \in Row /\ After(m)[h].kept /\ After(m)[h].cur
             /\ After(m)[h].of = row.report \/ (After(m)[h].of = res[h].of /\ res[h].verified)
  <2>1. After(m)[h] = Saved(res[h], m.entries[h], m.of)
    BY <1>1 DEF After
  <2> DEFINE x == res[h]
             e == m.entries[h]
             attempt == IF x.cur THEN x.attempts + 1 ELSE 1
             preserved == x.verified /\ e.outcome = "failed"
  <2>2. x \in Row /\ e \in Entry
    BY <1>1, <1>2
  <2>3. attempt \in 0 .. MaxAttempts
    BY <1>8, <2>2, ReviewAssumption DEF Row
  <2>4. /\ After(m)[h].kept = TRUE /\ After(m)[h].cur = TRUE /\ After(m)[h].tried = TRUE
        /\ After(m)[h] =
             [kept |-> TRUE, cur |-> TRUE, tried |-> TRUE, attempts |-> attempt,
              terminal |-> (~e.retry \/ attempt >= MaxAttempts), outcome |-> e.outcome,
              verified |-> (preserved \/ e.outcome = "found"),
              of |-> IF preserved THEN x.of ELSE m.of]
    BY <2>1 DEF Saved
  <2>5. (IF preserved THEN x.of ELSE m.of) \in Reports \cup {NoReport}
    BY <1>1, <2>2 DEF Row
  <2>6. (~e.retry \/ attempt >= MaxAttempts) \in BOOLEAN /\ e.outcome \in Outcomes
        /\ (preserved \/ e.outcome = "found") \in BOOLEAN
    BY <2>2 DEF Entry
  <2>7. After(m)[h].of = IF preserved THEN x.of ELSE m.of
    BY <2>4
  <2> HIDE DEF attempt
  <2>8. After(m)[h] \in Row
    BY <2>3, <2>4, <2>5, <2>6 DEF Row
  <2> QED
    BY <2>4, <2>7, <2>8
<1>10. \A h \in Holdings \ N : After(m)[h] = res[h]
  BY DEF After
<1>11. After(m) \in [Holdings -> Row]
  BY <1>2, <1>9, <1>10 DEF After
<1>12. row.lease > 0 /\ row.state = "working"
  BY DEF Accepts, Holds, Sound, Fits
<1> HIDE DEF row, res, new
<1>13. Fits(new, After(m))
  BY <1>7, <1>11 DEF Sound, Fits, row, res
<1>14. OfReport(new, After(m))
  <2>1. new.state # "absent" /\ new.checked \in Stamps /\ new.report = Content[new.checked]
    BY <1>7, <1>12 DEF Sound, OfReport, row
  <2>2. ASSUME NEW h \in Holdings
        PROVE  /\ After(m)[h].cur => After(m)[h].kept
               /\ After(m)[h].verified => After(m)[h].kept
               /\ After(m)[h].kept => After(m)[h].of = new.report /\ h \in HoldingsOf[new.report]
    <3>1. CASE h \in N
      <4>1. h \in HoldingsOf[row.report]
        BY <1>1, <3>1 DEF row
      <4>2. res[h].verified => res[h].of = row.report
        BY DEF Sound, OfReport, row, res
      <4> QED
        BY <1>7, <1>9, <3>1, <4>1, <4>2
    <3>2. CASE h \notin N
      BY <1>7, <1>10, <3>2 DEF Sound, OfReport, row, res
    <3> QED
      BY <3>1, <3>2
  <2> QED
    BY <2>1, <2>2 DEF OfReport
<1>15. Counted(new, After(m))
  <2>1. Cur(After(m)) = Cur(res) \cup first /\ Cur(res) \cap first = {}
    BY <1>1, <1>9, <1>10 DEF Cur
  <2>2. Fin(After(m)) = Fin(res) \cup final /\ Fin(res) \cap final = {}
    BY <1>1, <1>8, <1>9, <1>10 DEF Cur, Fin
  <2>3. Kept(After(m)) = Kept(res) \cup Added(m) /\ Kept(res) \cap Added(m) = {}
    <3>1. Added(m) = {h \in N : ~res[h].kept}
      BY DEF Added, res
    <3> QED
      BY <1>1, <1>9, <1>10, <3>1 DEF Kept
  <2>4. Cur(res) \subseteq Holdings /\ Fin(res) \subseteq Holdings /\ Kept(res) \subseteq Holdings
    BY DEF Cur, Fin, Kept
  <2>5. /\ Cardinality(Cur(After(m))) = Cardinality(Cur(res)) + Cardinality(first)
        /\ Cardinality(Fin(After(m))) = Cardinality(Fin(res)) + Cardinality(final)
        /\ Cardinality(Kept(After(m))) = Cardinality(Kept(res)) + Cardinality(Added(m))
    BY <1>5, <2>1, <2>2, <2>3, <2>4, HoldingSets
  <2>6. Counted(row, res)
    BY DEF Sound, row, res
  <2> QED
    BY <1>7, <2>5, <2>6 DEF Counted
<1>16. Reviewed(new, After(m))
  BY <1>7, <1>12 DEF Reviewed, Completed
<1> QED
  BY <1>3, <1>7, <1>13, <1>14, <1>15, <1>16 DEF Sound, row, new

\* A claim that is given back leaves the job counted, and complete only if it is.
LEMMA ReleasedSound ==
    ASSUME NEW j \in Jobs, Sound(job[j], rows[j]), job[j].lease > 0,
           job \in [Jobs -> Job], Release(j)
    PROVE  Sound(job'[j], rows'[j]) /\ job'[j].owner = NoOwner /\ job'[j].lease = 0
<1> DEFINE row == job[j]
           res == rows[j]
           new == job'[j]
<1>1. row \in Job /\ row.state = "working"
  BY DEF Sound, Fits
<1>2. rows'[j] = res
  BY DEF Release
<1>3. Current(j) = Cur(res) /\ Final(j) = Fin(res)
  BY DEF Current, Final, Cur, Fin
<1>4. Cur(res) \subseteq Holdings /\ Fin(res) \subseteq Holdings
  BY DEF Cur, Fin
<1>5. Cardinality(Cur(res)) \in Nat /\ Cardinality(Fin(res)) \in Nat
  BY <1>4, HoldingSets
<1>6. StateOnRelease(j) \in States \ {"absent", "working"}
  BY DEF StateOnRelease, States, Completed
<1>7. new = [row EXCEPT !.owner = NoOwner, !.lease = 0, !.today = FALSE,
                        !.state = StateOnRelease(j), !.reviewed = Cardinality(Cur(res)),
                        !.terminal = Cardinality(Fin(res)), !.shown = Fin(res)]
  BY <1>3, <1>1 DEF Release, Unleased
<1> HIDE DEF row, res, new
<1>8. /\ new \in Job
      /\ new.state = StateOnRelease(j) /\ new.report = row.report /\ new.checked = row.checked
      /\ new.owner = NoOwner /\ new.lease = 0 /\ new.bytes = row.bytes
      /\ new.reviewed = Cardinality(Cur(res)) /\ new.terminal = Cardinality(Fin(res))
      /\ new.shown = Fin(res)
  <2>1. ASSUME NEW a \in Nat, NEW b \in Nat, NEW s \in States, NEW f \in SUBSET Holdings,
               new = [row EXCEPT !.owner = NoOwner, !.lease = 0, !.today = FALSE, !.state = s,
                                 !.reviewed = a, !.terminal = b, !.shown = f]
        PROVE  /\ new \in Job /\ new.state = s /\ new.report = row.report
               /\ new.checked = row.checked /\ new.owner = NoOwner /\ new.lease = 0
               /\ new.bytes = row.bytes /\ new.reviewed = a /\ new.terminal = b
               /\ new.shown = f
    <3>1. 0 \in 0 .. Lease
      BY ReviewAssumption
    <3> QED
      BY <1>1, <2>1, <3>1 DEF Job
  <2> QED
    BY <1>4, <1>5, <1>6, <1>7, <2>1
<1>9. Fits(new, res)
  BY <1>6, <1>8 DEF Sound, Fits, res
<1>10. OfReport(new, res)
  BY <1>1, <1>6, <1>8 DEF Sound, OfReport, row, res
<1>11. Counted(new, res)
  BY <1>8 DEF Sound, Counted, row, res
<1>12. Reviewed(new, res)
  <2> SUFFICES ASSUME new.state \in Completed PROVE Fin(res) = HoldingsOf[row.report]
    BY <1>8 DEF Reviewed
  <2>1. Cardinality(Fin(res)) = Cardinality(HoldingsOf[row.report])
    BY <1>3, <1>8 DEF StateOnRelease, Total, Completed, row
  <2>2. Fin(res) \subseteq HoldingsOf[row.report]
    BY DEF Sound, OfReport, Cur, Fin, row, res
  <2>3. row.report \in Reports
    BY <1>1, ReviewAssumption DEF Sound, OfReport, row
  <2>4. HoldingsOf[row.report] \subseteq Holdings
    BY <2>3, ReviewAssumption
  <2> QED
    BY <1>4, <2>1, <2>2, <2>4, HoldingSets
<1> QED
  BY <1>2, <1>8, <1>9, <1>10, <1>11, <1>12 DEF Sound, new, res

-------------------------------------------------------------------------------
(* The store.                                                                *)

\* While leases only end, the budget still covers them.
LEMMA LeasesFade ==
    ASSUME StoreInv, job' \in [Jobs -> Job], rows' \in [Jobs -> [Holdings -> Row]],
           \A i \in Jobs : Sound(job'[i], rows'[i]),
           \A i \in Jobs : job'[i].lease > 0 =>
             job'[i].lease = job[i].lease /\ (job'[i].today => job[i].today),
           budget' \in [reserved: 0 .. DayCap, attempts: 0 .. AttemptCap],
           budget'.reserved = budget.reserved, worked' = worked
    PROVE  StoreInv'
<1>1. AllSound'
  BY DEF AllSound
<1>2. Metered'
  BY DEF StoreInv, Metered
<1>3. Reserved'
  <2>1. worked \in Nat /\ \A i \in Jobs : job[i].lease > 0 /\ job[i].today =>
                            worked + job[i].lease <= budget.reserved
    BY DEF StoreInv, Reserved
  <2> QED
    BY <2>1 DEF Reserved
<1> QED
  BY <1>1, <1>2, <1>3 DEF StoreInv

\* A job that is bound anew, and those evicted for it, lose results and claims.
LEMMA BindKeeps ==
    ASSUME StoreInv, NEW j \in Jobs, NEW s \in Stamps, NEW E \in SUBSET Jobs, Bind(j, s, E),
           UNCHANGED <<budget, worked>>
    PROVE  StoreInv' /\ KeepsClaims
<1>1. ASSUME NEW i \in Jobs
      PROVE  /\ Sound(job'[i], rows'[i])
             /\ (job'[i].lease = 0 /\ job'[i].owner = NoOwner) \/ job'[i] = job[i]
  <2>1. CASE i = j
    <3>1. job'[i] = Bound(j, s) /\ rows'[i] = NoRows
      BY <2>1 DEF Bind
    <3>2. Absent.owner = NoOwner /\ Absent.lease = 0 /\ Absent \in Job
      BY NoJobSound DEF Sound, Fits, Absent
    <3>3. Bound(j, s).owner = NoOwner /\ Bound(j, s).lease = 0
      BY <3>2 DEF Bound, Job
    <3> QED
      BY <3>1, <3>3, BoundSound
  <2>2. CASE i # j /\ i \in E
    <3>1. job'[i] = Absent /\ rows'[i] = NoRows
      BY <2>2 DEF Bind
    <3> QED
      BY <3>1, NoJobSound DEF Absent
  <2>3. CASE i # j /\ i \notin E
    BY <2>3 DEF Bind, StoreInv, AllSound
  <2> QED
    BY <2>1, <2>2, <2>3
<1>2. job' \in [Jobs -> Job] /\ rows' \in [Jobs -> [Holdings -> Row]]
  BY <1>1 DEF Bind, Sound, Fits
<1>3. KeepsClaims
  BY <1>1 DEF KeepsClaims
<1>4. budget' \in [reserved: 0 .. DayCap, attempts: 0 .. AttemptCap]
  BY DEF StoreInv, Reserved
<1>5. StoreInv'
  <2> USE <1>1
  <2> QED
    BY <1>2, <1>4, LeasesFade
<1> QED
  BY <1>3, <1>5

\* edgar_fund_review_enqueue.
LEMMA EnqueueKeeps ==
    ASSUME StoreInv, NEW j \in Jobs, NEW s \in Stamps, Enqueue(j, s)
    PROVE  StoreInv' /\ KeepsClaims
<1>1. Forgettable \subseteq Jobs /\ UNCHANGED <<budget, worked>>
  BY DEF Forgettable, Enqueue
<1>2. CASE \E E \in SUBSET Jobs : Bind(j, s, E)
  BY <1>1, <1>2, BindKeeps
<1>3. CASE UNCHANGED <<job, rows>>
  <2>1. \A i \in Jobs : Sound(job'[i], rows'[i]) /\ job'[i] = job[i]
    BY <1>3 DEF StoreInv, AllSound
  <2>2. /\ job' \in [Jobs -> Job] /\ rows' \in [Jobs -> [Holdings -> Row]]
        /\ budget' \in [reserved: 0 .. DayCap, attempts: 0 .. AttemptCap]
    BY <1>1, <1>3 DEF StoreInv, Reserved
  <2>3. StoreInv'
    BY <1>1, <2>1, <2>2, LeasesFade
  <2> QED
    BY <2>1, <2>3 DEF KeepsClaims
<1>4. CASE /\ j \in Present /\ Content[s] = job[j].report
           /\ job' = [job EXCEPT ![j].checked = Most(@, s), ![j].forgotten = FALSE]
           /\ UNCHANGED rows
  <2> DEFINE row == job[j]
             new == job'[j]
  <2>1. row \in Job /\ Sound(row, rows[j]) /\ row.state # "absent"
    BY <1>4 DEF StoreInv, AllSound, Present
  <2>2. row.checked \in Stamps /\ row.report = Content[row.checked]
    BY <2>1 DEF Sound, OfReport
  <2>3. Most(row.checked, s) \in Stamps /\ Content[Most(row.checked, s)] = row.report
        /\ Most(row.checked, s) \in 0 .. MaxStamp
    BY <1>4, <2>2, ReviewAssumption DEF Most, Stamps
  <2>4. new = [row EXCEPT !.checked = Most(@, s), !.forgotten = FALSE]
    BY <1>4 DEF StoreInv
  <2> HIDE DEF row, new
  <2>5. /\ new \in Job /\ new.checked = Most(row.checked, s)
        /\ new.state = row.state /\ new.report = row.report /\ new.owner = row.owner
        /\ new.lease = row.lease /\ new.today = row.today /\ new.reviewed = row.reviewed
        /\ new.terminal = row.terminal /\ new.bytes = row.bytes /\ new.shown = row.shown
    BY <2>1, <2>3, <2>4 DEF Job
  <2>6. Sound(new, rows[j])
    <3>1. row.owner = NoOwner <=> row.lease = 0
      BY <2>1 DEF Sound, Fits
    <3>2. row.lease > 0 => row.state = "working"
      BY <2>1 DEF Sound, Fits
    <3> QED
      BY <2>1, <2>3, <2>5, <3>1, <3>2, SameResults
  <2>7. \A i \in Jobs : i # j => job'[i] = job[i]
    BY <1>4 DEF StoreInv
  <2>8. \A i \in Jobs : Sound(job'[i], rows'[i])
    BY <1>4, <2>6, <2>7 DEF new, StoreInv, AllSound
  <2>9. \A i \in Jobs : /\ job'[i].lease = job[i].lease /\ job'[i].today = job[i].today
                        /\ job'[i].owner = job[i].owner /\ job'[i].report = job[i].report
    BY <2>5, <2>7 DEF row, new
  <2>10. /\ job' \in [Jobs -> Job] /\ rows' \in [Jobs -> [Holdings -> Row]]
         /\ budget' \in [reserved: 0 .. DayCap, attempts: 0 .. AttemptCap]
    BY <1>1, <1>4, <2>5, <2>7 DEF StoreInv, Reserved, new
  <2>11. StoreInv'
    BY <1>1, <2>8, <2>9, <2>10, LeasesFade
  <2> QED
    BY <2>9, <2>11 DEF KeepsClaims
<1> QED
  BY <1>1, <1>2, <1>3, <1>4 DEF Enqueue

\* What a claim's evictions and resumptions leave.
LEMMA ResumedSound ==
    ASSUME StoreInv, NEW E \in Evictions, NEW i \in Jobs
    PROVE  /\ Resumed(E)[i] = Absent \/
                /\ Resumed(E)[i].lease = job[i].lease /\ Resumed(E)[i].today = job[i].today
                /\ Resumed(E)[i].owner = job[i].owner /\ Resumed(E)[i].report = job[i].report
           /\ Sound(Resumed(E)[i], IF i \in E THEN NoRows ELSE rows[i])
<1> DEFINE row == job[i]
           new == Resumed(E)[i]
<1>1. row \in Job /\ Sound(row, rows[i])
  BY DEF StoreInv, AllSound
<1>2. CASE i \in E
  BY <1>2, NoJobSound DEF Resumed
<1>3. CASE i \notin E /\ row.state = "capacity" /\ ~Crowded(E)
  <2>1. new = [row EXCEPT !.state = "queued"]
    BY <1>3 DEF Resumed
  <2> HIDE DEF row, new
  <2>2. /\ new \in Job /\ new.state = "queued" /\ new.checked = row.checked
        /\ new.report = row.report /\ new.owner = row.owner
        /\ new.lease = row.lease /\ new.today = row.today /\ new.reviewed = row.reviewed
        /\ new.terminal = row.terminal /\ new.bytes = row.bytes /\ new.shown = row.shown
    BY <1>1, <2>1 DEF Job, States
  <2>3. row.lease = 0 /\ row.owner = NoOwner
    BY <1>1, <1>3, ReviewAssumption DEF Sound, Fits, Job
  <2>4. row.checked \in Stamps /\ row.report = Content[row.checked]
    BY <1>1, <1>3 DEF Sound, OfReport
  <2>5. Sound(new, rows[i])
    BY <1>1, <1>3, <2>2, <2>3, <2>4, SameResults DEF Completed
  <2> QED
    BY <1>3, <2>2, <2>5 DEF row, new
<1>4. CASE i \notin E /\ ~(row.state = "capacity" /\ ~Crowded(E))
  BY <1>1, <1>4 DEF Resumed
<1> QED
  BY <1>2, <1>3, <1>4

\* A claim is the only one, of the time that the day still had.
LEMMA GrantKeeps ==
    ASSUME StoreInv, NEW j \in Jobs, NEW o \in Owners, Grant(j, o)
    PROVE  /\ StoreInv'
           /\ job'[j].owner = o /\ job'[j].report \in Reports
           /\ \A i \in Jobs : i # j => job'[i].owner = NoOwner
<1>1. PICK E \in Evictions :
        LET kept == Resumed(E) IN
        /\ kept[j].state \in Completed \cup {"queued", "retry", "working"}
        /\ job' = [kept EXCEPT ![j] = Claimed(kept[j], o)]
        /\ rows' = [i \in Jobs |->
                      IF i \in E THEN NoRows
                      ELSE IF i # j THEN rows[i]
                      ELSE [h \in Holdings |->
                              IF kept[j].state \in Completed THEN Outdated(rows[j][h])
                              ELSE [rows[j][h] EXCEPT !.tried = FALSE]]]
  BY DEF Grant
<1> DEFINE kept == Resumed(E)
<1>2. \A i \in Jobs : /\ Sound(kept[i], IF i \in E THEN NoRows ELSE rows[i])
                      /\ kept[i].lease = 0 /\ kept[i].owner = NoOwner
  <2> SUFFICES ASSUME NEW i \in Jobs
               PROVE  /\ Sound(kept[i], IF i \in E THEN NoRows ELSE rows[i])
                      /\ kept[i].lease = 0 /\ kept[i].owner = NoOwner
    OBVIOUS
  <2>1. job[i].lease = 0 /\ job[i].owner = NoOwner
    BY ReviewAssumption DEF Grant, Living, StoreInv, AllSound, Sound, Fits, Job
  <2>2. Absent.lease = 0 /\ Absent.owner = NoOwner
    BY DEF Absent
  <2> QED
    BY <2>1, <2>2, ResumedSound
<1>3. kept = [i \in Jobs |-> kept[i]]
  BY DEF Resumed
<1>4. j \notin E
  <2>1. Absent.state = "absent"
    BY DEF Absent
  <2>2. j \in E => kept[j] = Absent
    BY DEF Resumed
  <2> QED
    BY <1>1, <2>1, <2>2 DEF Completed
<1> HIDE DEF kept
<1>5. job'[j] = Claimed(kept[j], o) /\ \A i \in Jobs : i # j => job'[i] = kept[i]
  BY <1>1, <1>3 DEF kept
<1>6. Sound(job'[j], rows'[j])
  <2>1. Sound(kept[j], rows[j])
    BY <1>2, <1>4
  <2>2. rows'[j] = [h \in Holdings |->
                      IF kept[j].state \in Completed THEN Outdated(rows[j][h])
                      ELSE [rows[j][h] EXCEPT !.tried = FALSE]]
    BY <1>1, <1>4 DEF kept
  <2>3. kept[j].state \in Completed \cup {"queued", "retry", "working"}
    BY <1>1 DEF kept
  <2> QED
    BY <1>5, <2>1, <2>2, <2>3, ClaimedSound
<1>7. \A i \in Jobs : i # j => Sound(job'[i], rows'[i])
  BY <1>1, <1>2, <1>5
<1>8. /\ job'[j].lease = Lease /\ job'[j].owner = o /\ job'[j].state = "working"
  <2>1. kept[j] \in Job
    BY <1>2 DEF Sound, Fits
  <2> QED
    BY <1>5, <2>1 DEF Claimed, Job
<1>9. job'[j].report \in Reports
  BY <1>6, <1>8, ReviewAssumption DEF Sound, OfReport
<1>10. \A i \in Jobs : i # j => job'[i].lease = 0 /\ job'[i].owner = NoOwner
  BY <1>2, <1>5
<1>11. job' \in [Jobs -> Job] /\ rows' \in [Jobs -> [Holdings -> Row]]
  <2>1. \A i \in Jobs : job'[i] \in Job /\ rows'[i] \in [Holdings -> Row]
    BY <1>6, <1>7 DEF Sound, Fits
  <2>2. job' = [i \in Jobs |-> job'[i]]
    BY <1>1, <1>3 DEF kept
  <2> QED
    BY <1>1, <2>1, <2>2
<1>12. /\ budget' \in [reserved: 0 .. DayCap, attempts: 0 .. AttemptCap]
       /\ budget'.reserved = budget.reserved + Lease /\ worked' = worked
       /\ worked \in Nat /\ budget.reserved \in Nat
       /\ worked <= budget.reserved
  <2>1. /\ budget \in [reserved: 0 .. DayCap, attempts: 0 .. AttemptCap]
        /\ budget.reserved + Lease <= DayCap
        /\ budget' = [budget EXCEPT !.reserved = @ + Lease] /\ worked' = worked
        /\ worked \in Nat /\ worked <= budget.reserved
    BY ReviewAssumption DEF Grant, Rationed, StoreInv, Reserved, Metered
  <2> QED
    BY <2>1, ReviewAssumption
<1>13. Metered'
  BY <1>10, <1>12, ReviewAssumption DEF Metered
<1>14. Reserved'
  <2>1. \A i \in Jobs : job'[i].lease > 0 => i = j
    BY <1>10
  <2> QED
    BY <1>8, <1>12, <2>1, ReviewAssumption DEF Reserved
<1>15. AllSound'
  BY <1>6, <1>7 DEF AllSound
<1> QED
  BY <1>8, <1>9, <1>10, <1>11, <1>13, <1>14, <1>15 DEF StoreInv

\* A claim that grants nothing only evicts and resumes.
LEMMA GrantNothingKeeps ==
    ASSUME StoreInv, GrantNothing PROVE StoreInv' /\ KeepsClaims
<1>1. /\ budget' = budget /\ worked' = worked
      /\ budget' \in [reserved: 0 .. DayCap, attempts: 0 .. AttemptCap]
  BY DEF GrantNothing, StoreInv, Reserved
<1>2. CASE UNCHANGED <<job, rows>>
  <2>1. \A i \in Jobs : Sound(job'[i], rows'[i]) /\ job'[i] = job[i]
    BY <1>2 DEF StoreInv, AllSound
  <2>2. job' \in [Jobs -> Job] /\ rows' \in [Jobs -> [Holdings -> Row]]
    BY <1>2 DEF StoreInv
  <2>3. StoreInv'
    BY <1>1, <2>1, <2>2, LeasesFade
  <2> QED
    BY <2>1, <2>3 DEF KeepsClaims
<1>3. ASSUME NEW E \in Evictions, job' = Resumed(E),
             rows' = [i \in Jobs |-> IF i \in E THEN NoRows ELSE rows[i]]
      PROVE  StoreInv' /\ KeepsClaims
  <2>1. \A i \in Jobs :
          /\ Sound(job'[i], rows'[i])
          /\ job'[i] = Absent \/
               /\ job'[i].lease = job[i].lease /\ job'[i].today = job[i].today
               /\ job'[i].owner = job[i].owner /\ job'[i].report = job[i].report
    BY <1>3, ResumedSound
  <2>2. Absent.lease = 0 /\ Absent.owner = NoOwner
    BY DEF Absent
  <2>3. job' \in [Jobs -> Job] /\ rows' \in [Jobs -> [Holdings -> Row]]
    <3>1. job' = [i \in Jobs |-> job'[i]]
      BY <1>3 DEF Resumed
    <3> QED
      BY <1>3, <2>1, <3>1 DEF Sound, Fits
  <2>4. StoreInv'
    BY <1>1, <2>1, <2>2, <2>3, LeasesFade
  <2> QED
    BY <2>1, <2>2, <2>4 DEF KeepsClaims
<1> QED
  BY <1>2, <1>3 DEF GrantNothing

\* What ends with a lease, and what stays.
LEMMA UnleasedType ==
    ASSUME NEW row \in Job
    PROVE  LET new == Unleased(row) IN
           /\ new \in Job /\ new.state = row.state /\ new.report = row.report
           /\ new.checked = row.checked /\ new.owner = NoOwner /\ new.lease = 0
           /\ new.today = FALSE /\ new.reviewed = row.reviewed /\ new.terminal = row.terminal
           /\ new.bytes = row.bytes /\ new.shown = row.shown
<1>1. 0 \in 0 .. Lease
  BY ReviewAssumption
<1> QED
  BY <1>1 DEF Unleased, Job

\* edgar_fund_review_save and its batch.
LEMMA StoreKeeps ==
    ASSUME StoreInv, NEW m, IsSave(m), Accepts(m),
           m.of = job[m.job].report, DOMAIN m.entries \subseteq HoldingsOf[m.of],
           Store(m), UNCHANGED worked
    PROVE  StoreInv' /\ KeepsClaims
<1>1. m.job \in Jobs /\ Sound(job[m.job], rows[m.job])
  BY SaveType DEF StoreInv, AllSound
<1>2. /\ Sound(job'[m.job], rows'[m.job])
      /\ job'[m.job].report = job[m.job].report /\ job'[m.job].owner = job[m.job].owner
      /\ job'[m.job].lease = job[m.job].lease /\ job'[m.job].today = job[m.job].today
  BY <1>1, StoredSound DEF StoreInv
<1>3. \A i \in Jobs : i # m.job => job'[i] = job[i] /\ rows'[i] = rows[i]
  BY DEF Store, StoreInv
<1>4. \A i \in Jobs : Sound(job'[i], rows'[i])
  BY <1>2, <1>3, SMTT(60) DEF StoreInv, AllSound
<1>5. job' \in [Jobs -> Job] /\ rows' \in [Jobs -> [Holdings -> Row]]
  BY <1>4 DEF Store, StoreInv, Sound, Fits
<1>6. /\ budget' \in [reserved: 0 .. DayCap, attempts: 0 .. AttemptCap]
      /\ budget'.reserved = budget.reserved
  <2>1. News(m) \in SUBSET Holdings
    BY SaveType DEF News
  <2>2. Cardinality(News(m)) \in Nat
    BY <2>1, HoldingSets
  <2>3. budget.attempts + Cardinality(News(m)) <= AttemptCap
    BY <2>2, ReviewAssumption DEF Accepts, Exhausts, StoreInv, Reserved
  <2>4. budget' = [budget EXCEPT !.attempts = @ + Cardinality(News(m))]
    BY DEF Store
  <2>5. budget \in [reserved: 0 .. DayCap, attempts: 0 .. AttemptCap] /\ AttemptCap \in Nat
    BY ReviewAssumption DEF StoreInv, Reserved
  <2>6. PICK n \in Nat : n = Cardinality(News(m))
    BY <2>2
  <2>7. budget.attempts + n \in 0 .. AttemptCap /\ budget' = [budget EXCEPT !.attempts = @ + n]
    BY <2>3, <2>4, <2>5, <2>6
  <2> QED
    BY <2>5, <2>7
<1>7. \A i \in Jobs : /\ job'[i].lease = job[i].lease /\ job'[i].today = job[i].today
                      /\ job'[i].owner = job[i].owner /\ job'[i].report = job[i].report
  BY <1>2, <1>3
<1>8. StoreInv'
  BY <1>4, <1>5, <1>6, <1>7, LeasesFade
<1> QED
  BY <1>7, <1>8 DEF KeepsClaims

\* A batch that does not fit ends the claim.
LEMMA PauseKeeps ==
    ASSUME StoreInv, NEW m, IsSave(m), Holds(m.job, m.owner), PauseForCapacity(m), UNCHANGED worked
    PROVE  StoreInv' /\ KeepsClaims
<1> DEFINE row == job[m.job]
           new == job'[m.job]
<1>1. m.job \in Jobs /\ row \in Job /\ Sound(row, rows[m.job])
  BY SaveType DEF StoreInv, AllSound
<1>2. new = [Unleased(row) EXCEPT !.state = "capacity"]
  BY <1>1 DEF PauseForCapacity, StoreInv
<1>3. row.state = "working" /\ row.checked \in Stamps /\ row.report = Content[row.checked]
  BY <1>1 DEF Holds, Sound, Fits, OfReport
<1>4. \A i \in Jobs : i # m.job => job'[i] = job[i]
  BY DEF PauseForCapacity, StoreInv
<1>5. /\ budget' \in [reserved: 0 .. DayCap, attempts: 0 .. AttemptCap]
      /\ budget'.reserved = budget.reserved /\ rows' = rows
  BY DEF PauseForCapacity, StoreInv, Reserved
<1> HIDE DEF row, new
<1>6. /\ new \in Job /\ new.state = "capacity" /\ new.report = row.report
      /\ new.checked = row.checked /\ new.owner = NoOwner /\ new.lease = 0
      /\ new.reviewed = row.reviewed /\ new.terminal = row.terminal
      /\ new.bytes = row.bytes
  <2>1. "capacity" \in States
    BY DEF States
  <2> QED
    BY <1>1, <1>2, <2>1, UnleasedType DEF Job
<1>7. Sound(new, rows[m.job])
  BY <1>1, <1>3, <1>6, SameResults DEF Completed
<1>8. \A i \in Jobs : Sound(job'[i], rows'[i])
  BY <1>4, <1>5, <1>7 DEF StoreInv, AllSound, new
<1>9. job' \in [Jobs -> Job] /\ rows' \in [Jobs -> [Holdings -> Row]]
  BY <1>5, <1>8 DEF PauseForCapacity, StoreInv, Sound, Fits
<1>10. \A i \in Jobs : job'[i] = job[i] \/ (job'[i].lease = 0 /\ job'[i].owner = NoOwner)
  BY <1>4, <1>6 DEF new
<1>11. StoreInv'
  BY <1>5, <1>8, <1>9, <1>10, LeasesFade
<1> QED
  BY <1>10, <1>11 DEF KeepsClaims

\* What has passed of a lease stays reserved.
LEMMA ReleaseKeeps ==
    ASSUME StoreInv, NEW j \in Jobs, job[j].lease > 0, Release(j), UNCHANGED worked
    PROVE  StoreInv' /\ KeepsClaims
<1>1. /\ Sound(job'[j], rows'[j])
      /\ job'[j].owner = NoOwner /\ job'[j].lease = 0
  BY ReleasedSound DEF StoreInv, AllSound
<1>2. \A i \in Jobs : i # j => job'[i] = job[i]
  BY DEF Release, StoreInv
<1>3. \A i \in Jobs : Sound(job'[i], rows'[i])
  BY <1>1, <1>2 DEF StoreInv, AllSound, Release
<1>4. job' \in [Jobs -> Job] /\ rows' \in [Jobs -> [Holdings -> Row]]
  BY <1>3 DEF Release, StoreInv, Sound, Fits
<1>5. \A i \in Jobs : job'[i].lease = 0
  <2>1. \A i \in Jobs : i # j => ~(job[i].lease > 0)
    BY DEF StoreInv, Metered
  <2>2. \A i \in Jobs : job[i].lease \in Nat
    BY ReviewAssumption DEF StoreInv, Job
  <2> QED
    BY <1>1, <1>2, <2>1, <2>2
<1>6. /\ budget' \in [reserved: 0 .. DayCap, attempts: 0 .. AttemptCap]
      /\ worked <= budget'.reserved
  <2> DEFINE r == budget.reserved
             l == job[j].lease
             back == Refund(j)
  <2>1. /\ r \in 0 .. DayCap /\ l \in 0 .. Lease /\ l > 0 /\ worked \in Nat /\ worked <= r
        /\ job[j].today => worked + l <= r
        /\ Lease \in Nat /\ DayCap \in Nat
    BY ReviewAssumption DEF StoreInv, Reserved, Metered, Job
  <2>2. back \in Nat /\ back <= l
    BY <2>1 DEF Refund, Most
  <2>3. budget' = [budget EXCEPT !.reserved = IF job[j].today THEN Most(0, r - back) ELSE r]
    BY DEF Release
  <2>4. budget \in [reserved: 0 .. DayCap, attempts: 0 .. AttemptCap]
    BY DEF StoreInv, Reserved
  <2> HIDE DEF back, r, l
  <2>5. ASSUME NEW v \in 0 .. DayCap, budget' = [budget EXCEPT !.reserved = v]
        PROVE  /\ budget' \in [reserved: 0 .. DayCap, attempts: 0 .. AttemptCap]
               /\ budget'.reserved = v
    BY <2>4, <2>5
  <2>6. CASE job[j].today
    <3>1. Most(0, r - back) \in 0 .. DayCap /\ worked <= Most(0, r - back)
      BY <2>1, <2>2, <2>6 DEF Most
    <3>2. budget' = [budget EXCEPT !.reserved = Most(0, r - back)]
      BY <2>3, <2>6
    <3> QED
      BY <2>5, <3>1, <3>2
  <2>7. CASE ~job[j].today
    <3>1. budget' = [budget EXCEPT !.reserved = r]
      BY <2>3, <2>7
    <3> QED
      BY <2>1, <2>5, <3>1
  <2> QED
    BY <2>6, <2>7
<1>7. Metered'
  BY <1>5, <1>6 DEF Metered
<1>8. Reserved'
  BY <1>5, <1>6 DEF Reserved, StoreInv
<1>9. KeepsClaims
  BY <1>1, <1>2 DEF KeepsClaims
<1> QED
  BY <1>3, <1>4, <1>7, <1>8, <1>9 DEF StoreInv, AllSound

\* A completed job that nobody asks for is unchanged until it is evicted.
LEMMA ForgetKeeps ==
    ASSUME StoreInv, NEW j \in Jobs, Forget(j) PROVE StoreInv' /\ KeepsClaims
<1> DEFINE row == job[j]
           new == job'[j]
<1>1. row \in Job /\ Sound(row, rows[j]) /\ row.state \in Completed
  BY DEF StoreInv, AllSound, Forget
<1>2. new = [row EXCEPT !.forgotten = TRUE]
  BY DEF Forget, StoreInv
<1>3. row.state # "absent" /\ row.checked \in Stamps /\ row.report = Content[row.checked]
      /\ row.lease = 0 /\ row.owner = NoOwner
  BY <1>1, ReviewAssumption DEF Sound, OfReport, Fits, Completed, Job
<1>4. \A i \in Jobs : i # j => job'[i] = job[i]
  BY DEF Forget, StoreInv
<1>5. /\ budget' \in [reserved: 0 .. DayCap, attempts: 0 .. AttemptCap]
      /\ budget'.reserved = budget.reserved /\ rows' = rows /\ worked' = worked
  BY DEF Forget, StoreInv, Reserved
<1> HIDE DEF row, new
<1>6. /\ new \in Job /\ new.state = row.state /\ new.report = row.report
      /\ new.checked = row.checked /\ new.owner = row.owner /\ new.lease = row.lease
      /\ new.today = row.today /\ new.reviewed = row.reviewed /\ new.terminal = row.terminal
      /\ new.bytes = row.bytes /\ new.shown = row.shown
  BY <1>1, <1>2 DEF Job
<1>7. Sound(new, rows[j])
  BY <1>1, <1>3, <1>6, SameResults
<1>8. \A i \in Jobs : Sound(job'[i], rows'[i])
  BY <1>4, <1>5, <1>7 DEF StoreInv, AllSound, new
<1>9. job' \in [Jobs -> Job] /\ rows' \in [Jobs -> [Holdings -> Row]]
  BY <1>5, <1>8 DEF Forget, StoreInv, Sound, Fits
<1>10. \A i \in Jobs : job'[i] = job[i] \/ (job'[i].lease = 0 /\ job'[i].owner = NoOwner)
  BY <1>3, <1>4, <1>6 DEF new
<1>11. StoreInv'
  BY <1>5, <1>8, <1>9, <1>10, LeasesFade
<1> QED
  BY <1>10, <1>11 DEF KeepsClaims

\* A new day owes nothing to the leases of the last.
LEMMA NewDayKeeps == ASSUME StoreInv, NewDay PROVE StoreInv' /\ KeepsClaims
<1>1. ASSUME NEW i \in Jobs
      PROVE  /\ Sound(job'[i], rows'[i]) /\ ~job'[i].today
             /\ job'[i].owner = job[i].owner /\ job'[i].report = job[i].report
             /\ job'[i].lease = job[i].lease
  <2> DEFINE row == job[i]
             new == job'[i]
  <2>1. row \in Job /\ Sound(row, rows[i]) /\ rows' = rows
    BY DEF StoreInv, AllSound, NewDay
  <2>2. new = [row EXCEPT !.today = FALSE]
    BY DEF NewDay
  <2> HIDE DEF row, new
  <2>3. /\ new \in Job /\ new.state = row.state /\ new.report = row.report
        /\ new.checked = row.checked /\ new.owner = row.owner /\ new.lease = row.lease
        /\ new.today = FALSE /\ new.reviewed = row.reviewed /\ new.terminal = row.terminal
        /\ new.bytes = row.bytes /\ new.shown = row.shown
    BY <2>1, <2>2 DEF Job
  <2>4. CASE row.state = "absent"
    <3>1. row = Absent /\ Absent.today = FALSE
      BY <2>1, <2>4 DEF Sound, OfReport, Absent
    <3>2. new = row
      BY <2>1, <2>2, <3>1 DEF Job
    <3> QED
      BY <2>1, <2>3, <3>2 DEF row, new
  <2>5. CASE row.state # "absent"
    <3>1. row.checked \in Stamps /\ row.report = Content[row.checked]
          /\ (row.owner = NoOwner <=> row.lease = 0) /\ (row.lease > 0 => row.state = "working")
      BY <2>1, <2>5 DEF Sound, OfReport, Fits
    <3>2. Sound(new, rows[i])
      BY <2>1, <2>3, <2>5, <3>1, SameResults
    <3> QED
      BY <2>1, <2>3, <3>2 DEF row, new
  <2> QED
    BY <2>4, <2>5
<1>2. job' \in [Jobs -> Job] /\ rows' \in [Jobs -> [Holdings -> Row]]
  BY <1>1 DEF NewDay, StoreInv, Sound, Fits
<1>3. /\ budget' = [reserved |-> 0, attempts |-> 0] /\ worked' = 0
  BY DEF NewDay
<1>4. Reserved'
  BY <1>1, <1>3, ReviewAssumption DEF Reserved
<1>5. Metered'
  BY <1>1, <1>3 DEF StoreInv, Metered
<1> QED
  BY <1>1, <1>2, <1>4, <1>5 DEF StoreInv, AllSound, KeepsClaims

\* Time that passes under a lease was reserved with it.
LEMMA TickKeeps == ASSUME StoreInv, Tick PROVE StoreInv' /\ KeepsClaims
<1>1. ASSUME NEW i \in Jobs
      PROVE  /\ Sound(job'[i], rows'[i])
             /\ job[i].lease > 1 => /\ job'[i].owner = job[i].owner
                                    /\ job'[i].report = job[i].report
                                    /\ job'[i].lease = job[i].lease - 1
                                    /\ job'[i].today = job[i].today
             /\ ~(job[i].lease > 1) => job'[i].owner = NoOwner /\ job'[i].lease = 0
  <2> DEFINE row == job[i]
             new == job'[i]
  <2>1. row \in Job /\ Sound(row, rows[i]) /\ rows' = rows /\ row.lease \in 0 .. Lease /\ Lease \in Nat
    BY ReviewAssumption DEF StoreInv, AllSound, Tick, Job
  <2>2. CASE row.lease > 1
    <3>1. new = [row EXCEPT !.lease = @ - 1]
      BY <2>1, <2>2 DEF Tick
    <3>2. row.state = "working" /\ row.owner # NoOwner
      BY <2>1, <2>2 DEF Sound, Fits
    <3>3. row.checked \in Stamps /\ row.report = Content[row.checked]
      BY <2>1, <3>2 DEF Sound, OfReport
    <3>4. row.lease - 1 \in 0 .. Lease /\ row.lease - 1 > 0
      BY <2>1, <2>2
    <3> HIDE DEF row, new
    <3>5. /\ new \in Job /\ new.state = row.state /\ new.report = row.report
          /\ new.checked = row.checked /\ new.owner = row.owner /\ new.lease = row.lease - 1
          /\ new.today = row.today /\ new.reviewed = row.reviewed /\ new.terminal = row.terminal
          /\ new.bytes = row.bytes /\ new.shown = row.shown
      BY <2>1, <3>1, <3>4 DEF Job
    <3>6. Sound(new, rows[i])
      BY <2>1, <3>2, <3>3, <3>4, <3>5, SameResults
    <3> QED
      BY <2>1, <2>2, <3>5, <3>6 DEF row, new
  <2>3. CASE ~(row.lease > 1)
    <3>1. new = Unleased(row)
      <4>1. job[i].lease <= 1
        BY <2>1, <2>3
      <4> QED
        BY <4>1 DEF Tick
    <3> HIDE DEF row, new
    <3>2. /\ new \in Job /\ new.state = row.state /\ new.report = row.report
          /\ new.checked = row.checked /\ new.owner = NoOwner /\ new.lease = 0
          /\ new.today = FALSE /\ new.reviewed = row.reviewed /\ new.terminal = row.terminal
          /\ new.bytes = row.bytes /\ new.shown = row.shown
      BY <2>1, <3>1, UnleasedType
    <3>3. CASE row.state = "absent"
      <4>1. row = Absent /\ Absent.owner = NoOwner /\ Absent.lease = 0 /\ Absent.today = FALSE
        BY <2>1, <3>3 DEF Sound, OfReport, Absent
      <4>2. new = row
        BY <2>1, <3>1, <4>1 DEF Job, Unleased
      <4> QED
        BY <2>1, <2>3, <3>2, <4>2 DEF row, new
    <3>4. CASE row.state # "absent"
      <4>1. row.checked \in Stamps /\ row.report = Content[row.checked]
        BY <2>1, <3>4 DEF Sound, OfReport
      <4>2. Sound(new, rows[i])
        BY <2>1, <3>2, <3>4, <4>1, SameResults
      <4> QED
        BY <2>1, <2>3, <3>2, <4>2 DEF row, new
    <3> QED
      BY <3>3, <3>4
  <2> QED
    BY <2>2, <2>3
<1>2. job' \in [Jobs -> Job] /\ rows' \in [Jobs -> [Holdings -> Row]]
  BY <1>1 DEF Tick, StoreInv, Sound, Fits
<1>3. /\ \A i \in Jobs : job[i].lease \in Nat
      /\ \A i, k \in Jobs : job[i].lease > 0 /\ job[k].lease > 0 => i = k
      /\ worked \in Nat /\ budget.reserved \in Nat /\ worked <= budget.reserved
      /\ \A i \in Jobs : job[i].lease > 0 /\ job[i].today =>
           worked + job[i].lease <= budget.reserved
  BY ReviewAssumption DEF StoreInv, Metered, Reserved, Job
<1>4. budget' = budget
  BY DEF Tick
<1> DEFINE spent == {i \in Jobs : job[i].lease > 0 /\ job[i].today}
<1>5. /\ worked' \in Nat /\ worked' <= budget.reserved
      /\ \A i \in Jobs : job'[i].lease > 0 /\ job'[i].today =>
           worked' + job'[i].lease <= budget.reserved
  <2>1. worked' = worked + Cardinality(spent)
    BY DEF Tick
  <2>2. CASE spent = {}
    <3>1. Cardinality(spent) = 0
      BY <2>2, FS_EmptySet
    <3>3. worked' = worked
      BY <1>3, <2>1, <3>1
    <3>2. \A i \in Jobs : ~(job'[i].lease > 0 /\ job'[i].today)
      BY <1>1, <1>3, <2>2
    <3> QED
      BY <1>3, <3>3, <3>2
  <2>3. ASSUME NEW k \in spent
        PROVE  /\ worked' \in Nat /\ worked' <= budget.reserved
               /\ \A i \in Jobs : job'[i].lease > 0 /\ job'[i].today =>
                    worked' + job'[i].lease <= budget.reserved
    <3>1. spent = {k}
      BY <1>3
    <3>2. worked' = worked + 1
      BY <2>1, <3>1, FS_Singleton
    <3>3. worked + job[k].lease <= budget.reserved /\ job[k].lease > 0 /\ job[k].lease \in Nat
      BY <1>3
    <3>4. \A i \in Jobs : job'[i].lease > 0 => i = k /\ job'[i].lease = job[k].lease - 1
      BY <1>1, <1>3, <3>3
    <3> QED
      BY <1>3, <3>2, <3>3, <3>4
  <2> QED
    BY <2>2, <2>3
<1>6. Metered'
  <2>1. \A i \in Jobs : job'[i].lease > 0 => job[i].lease > 0
    BY <1>1, <1>3
  <2> QED
    BY <1>3, <1>4, <1>5, <2>1 DEF Metered
<1>7. Reserved'
  BY <1>4, <1>5 DEF Reserved, StoreInv
<1>8. KeepsClaims
  BY <1>1 DEF KeepsClaims
<1> QED
  BY <1>1, <1>2, <1>6, <1>7, <1>8 DEF StoreInv, AllSound

-------------------------------------------------------------------------------
(* Calls and workers.                                                        *)

\* Nobody uses the id of a claim that was not served.
ClaimFresh(m) ==
    /\ \A j \in Jobs : job[j].owner # m.owner
    /\ \A n \in wire : n.op \in {"save", "release"} => n.owner # m.owner
    /\ \A w \in Workers : worker[w].owner = m.owner => worker[w].at = "claiming"

\* A save that its claim still covers is of the job's report.
SaveOfReport(m) ==
    /\ DOMAIN m.entries \subseteq HoldingsOf[m.of]
    /\ job[m.job].owner = m.owner => m.of = job[m.job].report

AtWork == {"checking", "replacing", "reading", "working"}

\* So is a worker that has a claim.
WorksOnReport(x) ==
    /\ x.at = "claiming" => x.todo = {}
    /\ x.at \in AtWork =>
         /\ x.job \in Jobs /\ x.report \in Reports /\ x.owner \in Owners
         /\ job[x.job].owner = x.owner => x.report = job[x.job].report
         /\ \A t \in x.todo : t.holding \in HoldingsOf[x.report]

CallInv ==
    /\ wire \subseteq Call
    /\ worker \in [Workers -> Worker]
    /\ \A m \in wire : m.op = "claim" => ClaimFresh(m)
    /\ \A m \in wire : m.op = "save" => SaveOfReport(m)
    /\ \A w \in Workers : WorksOnReport(worker[w])

IInv == StoreInv /\ CallInv

\* The parts of a call.
LEMMA CallTypes ==
    ASSUME NEW m \in Call
    PROVE  /\ m.op \in {"claim", "enqueue", "save", "release"}
           /\ m.op = "claim" => m.owner \in Owners /\ m = [op |-> "claim", owner |-> m.owner]
           /\ m.op = "enqueue" => m.job \in Jobs /\ m.stamp \in Stamps
           /\ m.op = "save" => m.job \in Jobs /\ m.owner \in Owners /\ m.of \in Reports
           /\ m.op = "release" => m.job \in Jobs /\ m.owner \in Owners
BY DEF Call

\* A worker without a claim.
LEMMA IdleType == Idle \in Worker /\ Idle.todo = {} /\ Idle.owner = NoOwner /\ Idle.at = "idle"
BY DEF Idle, Worker, Places

\* Claims end, calls are served, and workers keep what they work on.
LEMMA CallsFade ==
    ASSUME CallInv, KeepsClaims, wire' \subseteq wire, worker' \in [Workers -> Worker],
           \A w \in Workers :
             /\ worker'[w].at = worker[w].at /\ worker'[w].owner = worker[w].owner
             /\ worker'[w].job = worker[w].job /\ worker'[w].report = worker[w].report
             /\ worker'[w].todo = worker[w].todo
    PROVE  CallInv'
<1>1. wire' \subseteq Call
  BY DEF CallInv
<1>2. ASSUME NEW m \in wire', m.op = "claim" PROVE ClaimFresh(m)'
  <2>1. ClaimFresh(m) /\ m.owner # NoOwner
    BY <1>2, CallTypes, ReviewAssumption DEF CallInv
  <2> QED
    BY <2>1 DEF ClaimFresh, KeepsClaims
<1>3. ASSUME NEW m \in wire', m.op = "save" PROVE SaveOfReport(m)'
  <2>1. SaveOfReport(m) /\ m.owner # NoOwner /\ m.job \in Jobs
    BY <1>3, CallTypes, ReviewAssumption DEF CallInv
  <2> QED
    BY <2>1 DEF SaveOfReport, KeepsClaims
<1>4. ASSUME NEW w \in Workers PROVE WorksOnReport(worker[w])'
  BY ReviewAssumption DEF CallInv, WorksOnReport, KeepsClaims
<1> QED
  BY <1>1, <1>2, <1>3, <1>4 DEF CallInv

\* A worker goes on under the claim that it has, or without one.
LEMMA WorkerGoesOn ==
    ASSUME CallInv, UNCHANGED job, NEW w \in Workers, NEW x \in Worker,
           worker' = [worker EXCEPT ![w] = x],
           x.at # "claiming", WorksOnReport(x),
           x.owner = NoOwner \/ (worker[w].at # "claiming" /\ x.owner = worker[w].owner),
           NEW M \in SUBSET Call, wire' \subseteq wire \cup M,
           \A m \in M : /\ m.op # "claim"
                        /\ m.op \in {"save", "release"} =>
                             worker[w].at # "claiming" /\ m.owner = worker[w].owner
                        /\ m.op = "save" => SaveOfReport(m)
    PROVE  CallInv'
<1>1. wire' \subseteq Call /\ worker' \in [Workers -> Worker]
  BY DEF CallInv
<1>2. \A v \in Workers : worker'[v] = IF v = w THEN x ELSE worker[v]
  BY DEF CallInv
<1>3. ASSUME NEW m \in wire', m.op = "claim" PROVE ClaimFresh(m)'
  <2>1. m \in wire /\ ClaimFresh(m) /\ m.owner # NoOwner
    BY <1>3, CallTypes, ReviewAssumption DEF CallInv
  <2>2. \A n \in wire' : n.op \in {"save", "release"} => n.owner # m.owner
    BY <2>1 DEF ClaimFresh
  <2>3. \A v \in Workers : worker'[v].owner = m.owner => worker'[v].at = "claiming"
    BY <1>2, <2>1 DEF ClaimFresh
  <2> QED
    BY <2>1, <2>2, <2>3 DEF ClaimFresh
<1>4. ASSUME NEW m \in wire', m.op = "save" PROVE SaveOfReport(m)'
  <2>1. SaveOfReport(m)
    BY <1>4 DEF CallInv
  <2> QED
    BY <2>1 DEF SaveOfReport
<1>5. ASSUME NEW v \in Workers PROVE WorksOnReport(worker[v])'
  <2>1. WorksOnReport(worker'[v])
    BY <1>2 DEF CallInv
  <2> QED
    BY <2>1 DEF WorksOnReport
<1> QED
  BY <1>1, <1>3, <1>4, <1>5 DEF CallInv

\* A worker claims under an id that nobody uses.
LEMMA BeginKeeps == ASSUME IInv, NEW w \in Workers, Begin(w) PROVE IInv'
<1> DEFINE o == Fresh
           call == [op |-> "claim", owner |-> o]
           x == [Idle EXCEPT !.at = "claiming", !.owner = o]
<1>1. o \in Unused
  BY DEF Begin, Fresh
<1>2. /\ o \in Owners
      /\ \A j \in Jobs : job[j].owner # o
      /\ \A m \in wire : m.op # "enqueue" => m.owner # o
      /\ \A v \in Workers : worker[v].owner # o
  BY <1>1 DEF Unused, InUse
<1>3. /\ UNCHANGED <<job, rows, budget, worked>>
      /\ wire' = wire \cup {call} \/ wire' = wire
      /\ worker' = [worker EXCEPT ![w] = x]
  BY DEF Begin, Send, Becomes, storeVars
<1> HIDE DEF o
<1>4. x \in Worker /\ x.at = "claiming" /\ x.owner = o /\ x.todo = {}
  BY <1>2, IdleType DEF Worker, Places
<1>5. call \in Call /\ call.op = "claim" /\ call.owner = o
  BY <1>2 DEF Call
<1> HIDE DEF call, x
<1>6. StoreInv'
  BY <1>3 DEF IInv, StoreInv, AllSound, Metered, Reserved
<1>7. \A v \in Workers : worker'[v] = IF v = w THEN x ELSE worker[v]
  BY <1>3 DEF IInv, CallInv
<1>8. wire' \subseteq Call /\ worker' \in [Workers -> Worker]
  BY <1>3, <1>4, <1>5 DEF IInv, CallInv
<1>9. ASSUME NEW m \in wire', m.op = "claim" PROVE ClaimFresh(m)'
  <2>1. CASE m = call
    <3>1. \A n \in wire' : n.op \in {"save", "release"} => n.owner # o
      BY <1>2, <1>3, <1>5
    <3>2. \A v \in Workers : worker'[v].owner = o => worker'[v].at = "claiming"
      BY <1>2, <1>4, <1>7
    <3> QED
      BY <1>2, <1>3, <1>5, <2>1, <3>1, <3>2 DEF ClaimFresh
  <2>2. CASE m \in wire
    <3>1. ClaimFresh(m)
      BY <1>9, <2>2 DEF IInv, CallInv
    <3>2. \A n \in wire' : n.op \in {"save", "release"} => n.owner # m.owner
      BY <1>3, <1>5, <3>1 DEF ClaimFresh
    <3>3. \A v \in Workers : worker'[v].owner = m.owner => worker'[v].at = "claiming"
      BY <1>4, <1>7, <3>1 DEF ClaimFresh
    <3> QED
      BY <1>3, <3>1, <3>2, <3>3 DEF ClaimFresh
  <2> QED
    BY <1>3, <2>1, <2>2
<1>10. ASSUME NEW m \in wire', m.op = "save" PROVE SaveOfReport(m)'
  <2>1. SaveOfReport(m)
    BY <1>3, <1>5, <1>10 DEF IInv, CallInv
  <2> QED
    BY <1>3, <2>1 DEF SaveOfReport
<1>11. ASSUME NEW v \in Workers PROVE WorksOnReport(worker[v])'
  <2>1. WorksOnReport(worker'[v])
    BY <1>4, <1>7 DEF IInv, CallInv, WorksOnReport, AtWork
  <2> QED
    BY <1>3, <2>1 DEF WorksOnReport
<1> QED
  BY <1>6, <1>8, <1>9, <1>10, <1>11 DEF IInv, CallInv

\* A step of a worker leaves the store alone.
LEMMA StoreUnchanged ==
    ASSUME StoreInv, UNCHANGED <<job, rows, budget, worked>> PROVE StoreInv' /\ KeepsClaims
BY DEF StoreInv, AllSound, Metered, Reserved, KeepsClaims

\* ClaimFails, End and Kill.
LEMMA GoesIdle ==
    ASSUME IInv, NEW w \in Workers, worker' = [worker EXCEPT ![w] = Idle],
           UNCHANGED <<storeVars, wire, worked>>
    PROVE  IInv'
<1>1. WorksOnReport(Idle)
  BY IdleType DEF WorksOnReport, AtWork
<1>2. CallInv'
  <2>1. \A m \in {} : FALSE
    OBVIOUS
  <2>2. wire' \subseteq wire \cup {} /\ UNCHANGED job /\ CallInv
    BY DEF storeVars, IInv
  <2>3. Idle.at # "claiming"
    BY IdleType
  <2> QED
    BY <1>1, <2>1, <2>2, <2>3, IdleType, WorkerGoesOn
<1> QED
  BY <1>2, StoreUnchanged DEF IInv, storeVars

\* Another report is only asked for; the worker keeps its own.
LEMMA CheckReportKeeps == ASSUME IInv, NEW w \in Workers, CheckReport(w) PROVE IInv'
<1> DEFINE y == worker[w]
<1>1. y \in Worker /\ y.at = "checking" /\ WorksOnReport(y)
  BY DEF IInv, CallInv, CheckReport
<1>2. y.job \in Jobs
  BY <1>1 DEF WorksOnReport, AtWork
<1>3. UNCHANGED <<job, rows, budget, worked>>
  BY DEF CheckReport, storeVars
<1>4. PICK s \in Stamps :
         \/ worker' = [worker EXCEPT ![w] = [y EXCEPT !.at = "reading"]] /\ UNCHANGED wire
         \/ /\ Send([op |-> "enqueue", job |-> y.job, stamp |-> s])
            /\ worker' = [worker EXCEPT ![w] = [y EXCEPT !.at = "replacing"]]
  BY DEF CheckReport, Becomes
<1> DEFINE call == [op |-> "enqueue", job |-> y.job, stamp |-> s]
<1>5. call \in Call /\ call.op = "enqueue"
  BY <1>2 DEF Call
<1>6. PICK p \in {"reading", "replacing"} : worker' = [worker EXCEPT ![w] = [y EXCEPT !.at = p]]
  BY <1>4
<1>7. wire' \subseteq wire \cup {call}
  BY <1>4 DEF Send
<1> DEFINE x == [y EXCEPT !.at = p]
<1> HIDE DEF y, call
<1>8. /\ x \in Worker /\ x.at = p /\ x.owner = y.owner /\ x.job = y.job
      /\ x.report = y.report /\ x.todo = y.todo
  <2>1. p \in Places
    BY DEF Places
  <2> QED
    BY <1>1, <2>1 DEF Worker
<1> HIDE DEF x
<1>9. WorksOnReport(x) /\ x.at # "claiming"
  BY <1>1, <1>6, <1>8 DEF WorksOnReport, AtWork
<1>10. /\ {call} \in SUBSET Call
       /\ \A m \in {call} : m.op # "claim" /\ m.op \notin {"save", "release"}
  BY <1>5
<1>11. worker' = [worker EXCEPT ![w] = x] /\ worker[w].at # "claiming" /\ x.owner = worker[w].owner
  BY <1>1, <1>6, <1>8 DEF x, y
<1>12. CallInv'
  <2> DEFINE M == {call}
  <2> HIDE DEF M
  <2>1. M \in SUBSET Call /\ wire' \subseteq wire \cup M
        /\ \A m \in M : m.op # "claim" /\ m.op \notin {"save", "release"}
    BY <1>7, <1>10 DEF M
  <2>2. CallInv /\ UNCHANGED job
    BY <1>3 DEF IInv
  <2> QED
    BY <1>8, <1>9, <1>11, <2>1, <2>2, WorkerGoesOn
<1> QED
  BY <1>3, <1>12, StoreUnchanged DEF IInv

\* The work that is read belongs to the claim's report.
LEMMA ReadWorkKeeps == ASSUME IInv, NEW w \in Workers, ReadWork(w) PROVE IInv'
<1> DEFINE y == worker[w]
           pending == IF Holds(y.job, y.owner) THEN Pending(y.job) ELSE {}
<1>1. y \in Worker /\ y.at = "reading" /\ WorksOnReport(y)
  BY DEF IInv, CallInv, ReadWork
<1>2. y.job \in Jobs /\ y.owner \in Owners /\ y.report \in Reports
      /\ (job[y.job].owner = y.owner => y.report = job[y.job].report)
  BY <1>1 DEF WorksOnReport, AtWork
<1>3. UNCHANGED <<job, rows, budget, worked, wire>>
  BY DEF ReadWork, storeVars
<1>4. PICK T \in SUBSET pending :
         worker' = [worker EXCEPT ![w] = [y EXCEPT !.at = "working", !.todo = T]]
  BY DEF ReadWork, Becomes
<1>5. ASSUME NEW t \in pending
      PROVE  t \in [holding: Holdings, tries: Nat] /\ t.holding \in HoldingsOf[y.report]
  <2>1. Holds(y.job, y.owner) /\ t \in Pending(y.job)
    BY <1>5
  <2>2. y.report = job[y.job].report
    BY <1>2, <2>1, SMTT(60) DEF Holds
  <2>3. PICK h \in HoldingsOf[y.report] :
          t = [holding |-> h,
               tries |-> IF rows[y.job][h].cur THEN rows[y.job][h].attempts ELSE 0]
    BY <2>1, <2>2 DEF Pending
  <2>4. h \in Holdings
    BY <1>2, <2>3, ReviewAssumption
  <2>5. rows[y.job][h] \in Row
    BY <1>2, <2>4 DEF IInv, StoreInv
  <2>6. (IF rows[y.job][h].cur THEN rows[y.job][h].attempts ELSE 0) \in Nat
    BY <2>5, ReviewAssumption DEF Row
  <2> QED
    BY <2>3, <2>4, <2>6
<1>6. T \in SUBSET [holding: Holdings, tries: Nat] /\ \A t \in T : t.holding \in HoldingsOf[y.report]
  BY <1>5
<1> DEFINE x == [y EXCEPT !.at = "working", !.todo = T]
<1> HIDE DEF y, pending
<1>7. /\ x \in Worker /\ x.at = "working" /\ x.owner = y.owner /\ x.job = y.job
      /\ x.report = y.report /\ x.todo = T
  <2>1. "working" \in Places
    BY DEF Places
  <2> QED
    BY <1>1, <1>6, <2>1 DEF Worker
<1>8. worker' = [worker EXCEPT ![w] = x] /\ worker[w].at # "claiming" /\ x.owner = worker[w].owner
  BY <1>1, <1>4, <1>7 DEF y
<1> HIDE DEF x
<1>9. WorksOnReport(x) /\ x.at # "claiming"
  BY <1>2, <1>6, <1>7 DEF WorksOnReport, AtWork
<1>10. CallInv'
  <2>1. wire' \subseteq wire \cup {} /\ CallInv /\ UNCHANGED job
    BY <1>3 DEF IInv
  <2> DEFINE M == {}
  <2>2. M \in SUBSET Call /\ wire' \subseteq wire \cup M /\ \A m \in M : FALSE
    BY <2>1
  <2> HIDE DEF M
  <2> QED
    BY <1>7, <1>8, <1>9, <2>1, <2>2, WorkerGoesOn
<1> QED
  BY <1>3, <1>10, StoreUnchanged DEF IInv

\* A save is of the holdings that were read under the claim.
LEMMA SaveKeeps == ASSUME IInv, NEW w \in Workers, Save(w) PROVE IInv'
<1> DEFINE y == worker[w]
<1>1. y \in Worker /\ y.at = "working" /\ WorksOnReport(y)
  BY DEF IInv, CallInv, Save
<1>2. y.job \in Jobs /\ y.owner \in Owners /\ y.report \in Reports
      /\ (job[y.job].owner = y.owner => y.report = job[y.job].report)
      /\ \A t \in y.todo : t.holding \in HoldingsOf[y.report]
  BY <1>1 DEF WorksOnReport, AtWork
<1>3. UNCHANGED <<job, rows, budget, worked>>
  BY DEF Save, storeVars
<1>4. PICK T \in (SUBSET y.todo) \ {{}} :
        LET B == {t.holding : t \in T} IN
        \E found \in [B -> Outcomes] :
          LET last(h) == \E t \in T : t.holding = h /\ t.tries + 1 >= MaxAttempts
              entries == [h \in B |-> [outcome |-> found[h],
                                       retry |-> found[h] = "failed" /\ ~last(h)]]
          IN  /\ Send([op |-> "save", job |-> y.job, owner |-> y.owner,
                       of |-> y.report, entries |-> entries])
              /\ worker' = [worker EXCEPT ![w] = [y EXCEPT !.todo = @ \ T, !.saving = @ \cup {B}]]
  BY DEF Save, Becomes
<1> DEFINE B == {t.holding : t \in T}
<1>5. B \subseteq Holdings /\ B \subseteq HoldingsOf[y.report]
  BY <1>1, <1>2 DEF Worker
<1>6. PICK entries \in [B -> Entry] :
        /\ Send([op |-> "save", job |-> y.job, owner |-> y.owner,
                 of |-> y.report, entries |-> entries])
        /\ worker' = [worker EXCEPT ![w] = [y EXCEPT !.todo = @ \ T, !.saving = @ \cup {B}]]
  <2>1. PICK found \in [B -> Outcomes] :
          LET last(h) == \E t \in T : t.holding = h /\ t.tries + 1 >= MaxAttempts
              entries == [h \in B |-> [outcome |-> found[h],
                                       retry |-> found[h] = "failed" /\ ~last(h)]]
          IN  /\ Send([op |-> "save", job |-> y.job, owner |-> y.owner,
                       of |-> y.report, entries |-> entries])
              /\ worker' = [worker EXCEPT ![w] = [y EXCEPT !.todo = @ \ T, !.saving = @ \cup {B}]]
    BY <1>4
  <2> DEFINE last(h) == \E t \in T : t.holding = h /\ t.tries + 1 >= MaxAttempts
             entries == [h \in B |-> [outcome |-> found[h],
                                      retry |-> found[h] = "failed" /\ ~last(h)]]
  <2>2. entries \in [B -> Entry]
    <3> HIDE DEF last, B
    <3> QED
      BY <2>1 DEF Entry
  <2> QED
    BY <2>1, <2>2
<1> DEFINE call == [op |-> "save", job |-> y.job, owner |-> y.owner,
                    of |-> y.report, entries |-> entries]
<1>7. /\ call.op = "save" /\ call.job = y.job /\ call.owner = y.owner /\ call.of = y.report
      /\ call.entries = entries /\ DOMAIN entries = B
  BY <1>6
<1>8. call \in Call
  <2>1. entries \in Entries
    BY <1>5, <1>6 DEF Entries
  <2> QED
    BY <1>2, <2>1 DEF Call
<1> HIDE DEF B
<1> DEFINE x == [y EXCEPT !.todo = @ \ T, !.saving = @ \cup {B}]
<1>9. wire' \subseteq wire \cup {call} /\ worker' = [worker EXCEPT ![w] = x]
  BY <1>6 DEF Send
<1> HIDE DEF y, call
<1>10. /\ x \in Worker /\ x.at = "working" /\ x.owner = y.owner /\ x.job = y.job
       /\ x.report = y.report /\ x.todo = y.todo \ T
  <2>1. y.todo \ T \in SUBSET [holding: Holdings, tries: Nat]
        /\ y.saving \cup {B} \in SUBSET SUBSET Holdings
    BY <1>1, <1>5 DEF Worker
  <2> QED
    BY <1>1, <2>1 DEF Worker
<1> HIDE DEF x
<1>11. WorksOnReport(x) /\ x.at # "claiming"
  BY <1>2, <1>10 DEF WorksOnReport, AtWork
<1>12. SaveOfReport(call)
  BY <1>2, <1>5, <1>7 DEF SaveOfReport
<1>13. worker[w].at # "claiming" /\ x.owner = worker[w].owner /\ call.owner = worker[w].owner
  BY <1>1, <1>7, <1>10 DEF y
<1>14. CallInv'
  <2> DEFINE M == {call}
  <2>1. M \in SUBSET Call /\ wire' \subseteq wire \cup M
        /\ \A m \in M : /\ m.op # "claim"
                        /\ m.op \in {"save", "release"} =>
                             worker[w].at # "claiming" /\ m.owner = worker[w].owner
                        /\ m.op = "save" => SaveOfReport(m)
    BY <1>7, <1>8, <1>9, <1>12, <1>13
  <2> HIDE DEF M
  <2>2. CallInv /\ UNCHANGED job
    BY <1>3 DEF IInv
  <2> QED
    BY <1>9, <1>10, <1>11, <1>13, <2>1, <2>2, WorkerGoesOn
<1> QED
  BY <1>3, <1>14, StoreUnchanged DEF IInv

\* A failed save only stops further ones.
LEMMA SaveFailsKeeps == ASSUME IInv, NEW w \in Workers, SaveFails(w) PROVE IInv'
<1> DEFINE y == worker[w]
<1>1. y \in Worker
  BY DEF IInv, CallInv
<1>2. UNCHANGED <<job, rows, budget, worked, wire>>
  BY DEF SaveFails, storeVars
<1>3. PICK B \in y.saving :
        worker' = [worker EXCEPT ![w] = [y EXCEPT !.saving = @ \ {B}, !.fenced = TRUE]]
  BY DEF SaveFails, Becomes
<1> DEFINE x == [y EXCEPT !.saving = @ \ {B}, !.fenced = TRUE]
<1>4. /\ x \in Worker /\ x.at = y.at /\ x.owner = y.owner /\ x.job = y.job
      /\ x.report = y.report /\ x.todo = y.todo
  <2> HIDE DEF y
  <2> QED
    BY <1>1 DEF Worker
<1> HIDE DEF x
<1>5. /\ worker' \in [Workers -> Worker]
      /\ \A v \in Workers : worker'[v] = IF v = w THEN x ELSE worker[v]
  BY <1>3, <1>4 DEF IInv, CallInv, x
<1>6. StoreInv' /\ KeepsClaims
  BY <1>2, StoreUnchanged DEF IInv
<1>7. CallInv'
  BY <1>2, <1>4, <1>5, <1>6, CallsFade DEF IInv
<1> QED
  BY <1>6, <1>7 DEF IInv

\* A claim is given back under its own id.
LEMMA GiveBackKeeps == ASSUME IInv, NEW w \in Workers, GiveBack(w) PROVE IInv'
<1> DEFINE y == worker[w]
           call == [op |-> "release", job |-> y.job, owner |-> y.owner]
           x == [Idle EXCEPT !.at = "releasing"]
<1>1. y \in Worker /\ y.at \in AtWork /\ WorksOnReport(y)
  BY DEF IInv, CallInv, GiveBack, AtWork
<1>2. y.job \in Jobs /\ y.owner \in Owners
  BY <1>1 DEF WorksOnReport
<1>3. UNCHANGED <<job, rows, budget, worked>>
  BY DEF GiveBack, storeVars
<1>4. wire' \subseteq wire \cup {call} /\ worker' = [worker EXCEPT ![w] = x]
  BY DEF GiveBack, Send, Becomes
<1>5. call \in Call /\ call.op = "release" /\ call.owner = y.owner
  BY <1>2 DEF Call
<1>6. x \in Worker /\ x.at = "releasing" /\ x.owner = NoOwner
  BY IdleType DEF Worker, Places
<1> HIDE DEF x, call
<1>7. WorksOnReport(x) /\ x.at # "claiming"
  BY <1>6 DEF WorksOnReport, AtWork
<1>8. CallInv'
  <2> DEFINE M == {call}
  <2>1. M \in SUBSET Call /\ wire' \subseteq wire \cup M
        /\ \A m \in M : /\ m.op # "claim"
                        /\ m.op \in {"save", "release"} =>
                             worker[w].at # "claiming" /\ m.owner = worker[w].owner
                        /\ m.op = "save" => SaveOfReport(m)
    BY <1>1, <1>4, <1>5 DEF AtWork
  <2> HIDE DEF M
  <2>2. CallInv /\ UNCHANGED job
    BY <1>3 DEF IInv
  <2> QED
    BY <1>4, <1>6, <1>7, <2>1, <2>2, WorkerGoesOn
<1> QED
  BY <1>3, <1>8, StoreUnchanged DEF IInv

-------------------------------------------------------------------------------
(* Served calls.                                                             *)

\* A claim that is served is of nobody else, and its worker learns the report.
LEMMA GrantedKeeps ==
    ASSUME IInv, NEW m \in wire, m.op = "claim", NEW j \in Jobs, Grant(j, m.owner),
           wire' = wire \ {m},
           \/ UNCHANGED worker
           \/ \E w \in Workers :
                /\ Hears(w, m, "claiming")
                /\ Becomes(w, [worker[w] EXCEPT !.at = "checking", !.job = j,
                                                !.report = job'[j].report])
    PROVE  IInv'
<1> DEFINE o == m.owner
<1>1. m \in Call /\ o \in Owners /\ o # NoOwner /\ m = [op |-> "claim", owner |-> o] /\ ClaimFresh(m)
  BY CallTypes, ReviewAssumption DEF IInv, CallInv
<1>2. /\ StoreInv'
      /\ job'[j].owner = o /\ job'[j].report \in Reports
      /\ \A i \in Jobs : i # j => job'[i].owner = NoOwner
  BY <1>1, GrantKeeps DEF IInv
<1>3. /\ worker' \in [Workers -> Worker]
      /\ \A w \in Workers :
           \/ worker'[w] = worker[w]
           \/ /\ worker[w].at = "claiming" /\ worker[w].owner = o
              /\ worker'[w].at = "checking" /\ worker'[w].owner = o
              /\ worker'[w].job = j /\ worker'[w].report = job'[j].report
              /\ worker'[w].todo = worker[w].todo
  <2>1. CASE UNCHANGED worker
    BY <2>1 DEF IInv, CallInv
  <2>2. ASSUME NEW w \in Workers, Hears(w, m, "claiming"),
               Becomes(w, [worker[w] EXCEPT !.at = "checking", !.job = j,
                                            !.report = job'[j].report])
        PROVE  <1>3
    <3> DEFINE y == worker[w]
               x == [y EXCEPT !.at = "checking", !.job = j, !.report = job'[j].report]
    <3>1. y \in Worker /\ y.at = "claiming" /\ y.owner = o
      BY <2>2 DEF Hears, IInv, CallInv
    <3>2. worker' = [worker EXCEPT ![w] = x]
      BY <2>2 DEF Becomes
    <3> HIDE DEF y
    <3>3. /\ x \in Worker /\ x.at = "checking" /\ x.owner = y.owner /\ x.job = j
          /\ x.report = job'[j].report /\ x.todo = y.todo
      <4>1. "checking" \in Places
        BY DEF Places
      <4> QED
        BY <1>2, <3>1, <4>1 DEF Worker
    <3> HIDE DEF x
    <3>4. \A v \in Workers : worker'[v] = IF v = w THEN x ELSE worker[v]
      BY <3>2 DEF IInv, CallInv
    <3> QED
      BY <3>1, <3>2, <3>3, <3>4 DEF y, IInv, CallInv
  <2> QED
    BY <2>1, <2>2
<1>4. ASSUME NEW n \in wire', n.op = "claim" PROVE ClaimFresh(n)'
  <2>1. n \in wire /\ n # m /\ n \in Call /\ ClaimFresh(n)
    BY <1>4 DEF IInv, CallInv
  <2>2. n.owner \in Owners /\ n = [op |-> "claim", owner |-> n.owner]
    BY <1>4, <2>1, CallTypes
  <2>3. n.owner # o /\ n.owner # NoOwner
    BY <1>1, <2>1, <2>2, ReviewAssumption
  <2>4. \A i \in Jobs : job'[i].owner # n.owner
    BY <1>2, <2>3
  <2>5. \A k \in wire' : k.op \in {"save", "release"} => k.owner # n.owner
    BY <2>1 DEF ClaimFresh
  <2>6. \A w \in Workers : worker'[w].owner = n.owner => worker'[w].at = "claiming"
    BY <1>3, <2>1, <2>3 DEF ClaimFresh
  <2> QED
    BY <2>4, <2>5, <2>6 DEF ClaimFresh
<1>5. ASSUME NEW n \in wire', n.op = "save" PROVE SaveOfReport(n)'
  <2>1. n \in wire /\ n \in Call /\ SaveOfReport(n)
    BY <1>5 DEF IInv, CallInv
  <2>2. n.job \in Jobs /\ n.owner # NoOwner /\ n.owner # o
    BY <1>1, <1>5, <2>1, CallTypes, ReviewAssumption DEF ClaimFresh
  <2>3. job'[n.job].owner # n.owner
    BY <1>2, <2>2
  <2> QED
    BY <2>1, <2>3 DEF SaveOfReport
<1>6. ASSUME NEW w \in Workers PROVE WorksOnReport(worker[w])'
  <2>1. WorksOnReport(worker[w])
    BY DEF IInv, CallInv
  <2>2. CASE worker'[w] = worker[w]
    <3>1. worker[w].at \in AtWork => worker[w].owner # o
      BY <1>1 DEF ClaimFresh, AtWork
    <3>2. worker[w].at \in AtWork =>
            worker[w].job \in Jobs /\ job'[worker[w].job].owner # worker[w].owner
      <4>1. worker[w].at \in AtWork => worker[w].owner # NoOwner /\ worker[w].job \in Jobs
        BY <2>1, ReviewAssumption DEF WorksOnReport
      <4> QED
        BY <1>2, <3>1, <4>1
    <3> QED
      BY <2>1, <2>2, <3>2 DEF WorksOnReport
  <2>3. CASE /\ worker[w].at = "claiming" /\ worker[w].owner = o
             /\ worker'[w].at = "checking" /\ worker'[w].owner = o
             /\ worker'[w].job = j /\ worker'[w].report = job'[j].report
             /\ worker'[w].todo = worker[w].todo
    <3>1. worker[w].todo = {}
      BY <2>1, <2>3 DEF WorksOnReport
    <3> QED
      BY <1>1, <1>2, <2>3, <3>1 DEF WorksOnReport
  <2> QED
    BY <1>3, <2>2, <2>3
<1>7. wire' \subseteq Call
  BY DEF IInv, CallInv
<1> QED
  BY <1>2, <1>3, <1>4, <1>5, <1>6, <1>7 DEF IInv, CallInv

\* Workers that hear nothing, ...
LEMMA Quietly ==
    ASSUME CallInv, UNCHANGED worker
    PROVE  /\ worker' \in [Workers -> Worker]
           /\ \A w \in Workers :
                /\ worker'[w].at = worker[w].at /\ worker'[w].owner = worker[w].owner
                /\ worker'[w].job = worker[w].job /\ worker'[w].report = worker[w].report
                /\ worker'[w].todo = worker[w].todo
BY SMTT(60) DEF CallInv

\* ... or only whether a save succeeded, keep what they work on.
LEMMA HeardQuietly ==
    ASSUME CallInv, NEW m, NEW ok \in BOOLEAN, SaveHeard(m, ok)
    PROVE  /\ worker' \in [Workers -> Worker]
           /\ \A w \in Workers :
                /\ worker'[w].at = worker[w].at /\ worker'[w].owner = worker[w].owner
                /\ worker'[w].job = worker[w].job /\ worker'[w].report = worker[w].report
                /\ worker'[w].todo = worker[w].todo
<1>1. CASE UNCHANGED worker
  BY <1>1, Quietly
<1>2. ASSUME NEW w \in Workers,
             Becomes(w, [worker[w] EXCEPT !.saving = @ \ {DOMAIN m.entries},
                                          !.fenced = @ \/ ~ok])
      PROVE  /\ worker' \in [Workers -> Worker]
             /\ \A v \in Workers :
                  /\ worker'[v].at = worker[v].at /\ worker'[v].owner = worker[v].owner
                  /\ worker'[v].job = worker[v].job /\ worker'[v].report = worker[v].report
                  /\ worker'[v].todo = worker[v].todo
  <2> DEFINE y == worker[w]
             f == y.fenced \/ ~ok
             x == [y EXCEPT !.saving = @ \ {DOMAIN m.entries}, !.fenced = f]
  <2>1. y \in Worker
    BY DEF CallInv
  <2>2. worker' = [worker EXCEPT ![w] = x]
    BY <1>2 DEF Becomes
  <2>3. f \in BOOLEAN
    OBVIOUS
  <2> HIDE DEF y, f
  <2>4. /\ x \in Worker /\ x.at = y.at /\ x.owner = y.owner /\ x.job = y.job
        /\ x.report = y.report /\ x.todo = y.todo
    BY <2>1, <2>3 DEF Worker
  <2> HIDE DEF x
  <2>5. \A v \in Workers : worker'[v] = IF v = w THEN x ELSE worker[v]
    BY <2>2 DEF CallInv
  <2> QED
    BY <2>2, <2>4, <2>5 DEF y, CallInv
<1> QED
  BY <1>1, <1>2 DEF SaveHeard

\* Every call that is served, now or late, keeps the invariant.
LEMMA ServeClaimKeeps ==
    ASSUME IInv, NEW m \in wire, ServeClaim(m) PROVE IInv'
<1>1. CASE GrantNothing /\ UNCHANGED worker
  <2>1. StoreInv' /\ KeepsClaims
    BY <1>1, GrantNothingKeeps DEF IInv
  <2> QED
    BY <1>1, <2>1, Quietly, CallsFade DEF IInv, ServeClaim
<1>2. CASE \E j \in Jobs :
             /\ Grant(j, m.owner)
             /\ \/ UNCHANGED worker
                \/ \E w \in Workers :
                     /\ Hears(w, m, "claiming")
                     /\ Becomes(w, [worker[w] EXCEPT !.at = "checking", !.job = j,
                                                     !.report = job'[j].report])
  BY <1>2, GrantedKeeps DEF ServeClaim
<1> QED
  BY <1>1, <1>2 DEF ServeClaim

LEMMA ServeEnqueueKeeps ==
    ASSUME IInv, NEW m \in wire, ServeEnqueue(m) PROVE IInv'
<1>1. m.job \in Jobs /\ m.stamp \in Stamps
  BY CallTypes DEF IInv, CallInv, ServeEnqueue
<1>2. StoreInv' /\ KeepsClaims
  BY <1>1, EnqueueKeeps DEF IInv, ServeEnqueue
<1> QED
  BY <1>2, Quietly, CallsFade DEF IInv, ServeEnqueue

LEMMA ServeSaveKeeps ==
    ASSUME IInv, NEW m \in wire, ServeSave(m) PROVE IInv'
<1>1. IsSave(m) /\ SaveOfReport(m) /\ wire' \subseteq wire /\ UNCHANGED worked
  BY DEF IInv, CallInv, IsSave, ServeSave
<1>2. StoreInv' /\ KeepsClaims
  <2>1. CASE Accepts(m) /\ Store(m)
    <3>1. m.of = job[m.job].report /\ DOMAIN m.entries \subseteq HoldingsOf[m.of]
      BY <1>1, <2>1 DEF SaveOfReport, Accepts, Holds
    <3> QED
      BY <1>1, <2>1, <3>1, StoreKeeps DEF IInv
  <2>2. CASE Holds(m.job, m.owner) /\ PauseForCapacity(m)
    BY <1>1, <2>2, PauseKeeps DEF IInv
  <2>3. CASE UNCHANGED storeVars
    BY <1>1, <2>3, StoreUnchanged DEF IInv, storeVars
  <2> QED
    BY <2>1, <2>2, <2>3 DEF ServeSave
<1>3. PICK ok \in BOOLEAN : SaveHeard(m, ok)
  BY DEF ServeSave
<1> QED
  BY <1>1, <1>2, <1>3, HeardQuietly, CallsFade DEF IInv

LEMMA ServeReleaseKeeps ==
    ASSUME IInv, NEW m \in wire, ServeRelease(m) PROVE IInv'
<1>1. m.job \in Jobs
  BY CallTypes DEF IInv, CallInv, ServeRelease
<1>2. StoreInv' /\ KeepsClaims
  <2>1. CASE Holds(m.job, m.owner) /\ Release(m.job)
    BY <1>1, <2>1, ReleaseKeeps DEF IInv, Holds, ServeRelease
  <2>2. CASE UNCHANGED storeVars
    BY <2>2, StoreUnchanged DEF IInv, storeVars, ServeRelease
  <2> QED
    BY <2>1, <2>2 DEF ServeRelease
<1> QED
  BY <1>2, Quietly, CallsFade DEF IInv, ServeRelease

-------------------------------------------------------------------------------
(* The invariant.                                                            *)

\* The invariant holds initially, ...
LEMMA InitKeeps == Init => IInv
<1> SUFFICES ASSUME Init PROVE IInv
  OBVIOUS
<1>1. \A j \in Jobs : job[j] = Absent /\ rows[j] = NoRows
  BY DEF Init
<1>2. AllSound
  BY <1>1, NoJobSound DEF AllSound
<1>3. job \in [Jobs -> Job] /\ rows \in [Jobs -> [Holdings -> Row]]
  BY <1>1, NoJobSound DEF Init, Sound, Fits
<1>4. Absent.lease = 0
  BY DEF Absent
<1>5. Metered /\ Reserved
  BY <1>1, <1>4, ReviewAssumption DEF Init, Metered, Reserved
<1>6. WorksOnReport(Idle)
  BY IdleType DEF WorksOnReport, AtWork
<1>7. CallInv
  BY <1>6, IdleType DEF Init, CallInv
<1> QED
  BY <1>2, <1>3, <1>5, <1>7 DEF IInv, StoreInv

\* ... and every step keeps it.
LEMMA NextKeeps == IInv /\ [Next]_vars => IInv'
<1> SUFFICES ASSUME IInv, [Next]_vars PROVE IInv'
  OBVIOUS
<1>1. ASSUME NEW w \in Workers, Begin(w) PROVE IInv'
  BY <1>1, BeginKeeps
<1>2. ASSUME NEW w \in Workers, ClaimFails(w) \/ End(w) \/ Kill(w) PROVE IInv'
  BY <1>2, GoesIdle DEF ClaimFails, End, Kill, Becomes
<1>3. ASSUME NEW w \in Workers, CheckReport(w) PROVE IInv'
  BY <1>3, CheckReportKeeps
<1>4. ASSUME NEW w \in Workers, ReadWork(w) PROVE IInv'
  BY <1>4, ReadWorkKeeps
<1>5. ASSUME NEW w \in Workers, Save(w) PROVE IInv'
  BY <1>5, SaveKeeps
<1>6. ASSUME NEW w \in Workers, SaveFails(w) PROVE IInv'
  BY <1>6, SaveFailsKeeps
<1>7. ASSUME NEW w \in Workers, GiveBack(w) PROVE IInv'
  BY <1>7, GiveBackKeeps
<1>8. ASSUME NEW m \in wire, ServeClaim(m) PROVE IInv'
  BY <1>8, ServeClaimKeeps
<1>9. ASSUME NEW m \in wire, ServeEnqueue(m) PROVE IInv'
  BY <1>9, ServeEnqueueKeeps
<1>10. ASSUME NEW m \in wire, ServeSave(m) PROVE IInv'
  BY <1>10, ServeSaveKeeps
<1>11. ASSUME NEW m \in wire, ServeRelease(m) PROVE IInv'
  BY <1>11, ServeReleaseKeeps
<1>12. ASSUME NEW j \in Jobs, Forget(j) PROVE IInv'
  <2>1. StoreInv' /\ KeepsClaims
    BY <1>12, ForgetKeeps DEF IInv
  <2> QED
    BY <1>12, <2>1, Quietly, CallsFade DEF IInv, Forget
<1>13. ASSUME NEW j \in Jobs, NEW s \in Stamps, RequestReview(j, s) PROVE IInv'
  <2>1. StoreInv' /\ KeepsClaims
    BY <1>13, EnqueueKeeps DEF IInv, RequestReview
  <2> QED
    BY <1>13, <2>1, Quietly, CallsFade DEF IInv, RequestReview
<1>14. CASE Tick
  <2>1. StoreInv' /\ KeepsClaims
    BY <1>14, TickKeeps DEF IInv
  <2> QED
    BY <1>14, <2>1, Quietly, CallsFade DEF IInv, Tick
<1>15. CASE NewDay
  <2>1. StoreInv' /\ KeepsClaims
    BY <1>15, NewDayKeeps DEF IInv
  <2> QED
    BY <1>15, <2>1, Quietly, CallsFade DEF IInv, NewDay
<1>16. CASE UNCHANGED vars
  <2>1. StoreInv' /\ KeepsClaims
    BY <1>16, StoreUnchanged DEF IInv, vars, storeVars
  <2> QED
    BY <1>16, <2>1, Quietly, CallsFade DEF IInv, vars
<1> QED
  BY <1>1, <1>2, <1>3, <1>4, <1>5, <1>6, <1>7, <1>8, <1>9, <1>10, <1>11, <1>12, <1>13,
     <1>14, <1>15, <1>16 DEF Next

\* The inductive invariant of the reviews.
THEOREM ReviewInvariant == Spec => []IInv
BY InitKeeps, NextKeeps, PTL DEF Spec

\* Rows, budget, calls and workers are well-formed.
THEOREM ReviewTypes == Spec => []TypeOK
<1>1. IInv => TypeOK
  <2> SUFFICES ASSUME IInv PROVE TypeOK
    OBVIOUS
  <2>1. \A j \in Jobs : /\ job[j].owner = NoOwner <=> job[j].lease = 0
                        /\ job[j].lease > 0 => job[j].state = "working"
    BY DEF IInv, StoreInv, AllSound, Sound, Fits
  <2> QED
    BY <2>1 DEF IInv, StoreInv, Reserved, CallInv, TypeOK
<1> QED
  BY <1>1, ReviewInvariant, PTL

\* Results are those of the report of the latest stamp that the job was asked with.
THEOREM ResultsAreOfReport == Spec => []ResultsOfReport
<1>1. IInv => ResultsOfReport
  BY DEF IInv, StoreInv, AllSound, Sound, OfReport, ResultsOfReport, Present
<1> QED
  BY <1>1, ReviewInvariant, PTL

\* The counters agree with the results.
THEOREM CountersAgree == Spec => []CountersMatchRows
<1>1. IInv => CountersMatchRows
  <2> SUFFICES ASSUME IInv, NEW j \in Jobs
               PROVE  /\ job[j].reviewed = Cardinality(Current(j))
                      /\ job[j].terminal = Cardinality(Final(j))
                      /\ job[j].bytes = Cardinality({h \in Holdings : rows[j][h].kept})
    BY DEF CountersMatchRows
  <2>1. Current(j) = Cur(rows[j]) /\ Final(j) = Fin(rows[j])
        /\ {h \in Holdings : rows[j][h].kept} = Kept(rows[j])
    BY DEF Current, Final, Cur, Fin, Kept
  <2> QED
    BY <2>1 DEF IInv, StoreInv, AllSound, Sound, Counted
<1> QED
  BY <1>1, ReviewInvariant, PTL

\* A completed job has a final result for every holding of its report.
THEOREM CompletionIsEarned == Spec => []CompleteMeansReviewed
<1>1. IInv => CompleteMeansReviewed
  <2> SUFFICES ASSUME IInv, NEW j \in Jobs, job[j].state \in Completed
               PROVE  Final(j) = HoldingsOf[job[j].report] /\ job[j].shown = Final(j)
    BY DEF CompleteMeansReviewed
  <2>1. Final(j) = Fin(rows[j])
    BY DEF Current, Final, Cur, Fin
  <2> QED
    BY <2>1 DEF IInv, StoreInv, AllSound, Sound, Reviewed
<1> QED
  BY <1>1, ReviewInvariant, PTL

\* Leases are exclusive, and the day's reservation covers the time spent under them.
THEOREM TimeIsMetered == Spec => []Metered
<1>1. IInv => Metered
  BY DEF IInv, StoreInv
<1> QED
  BY <1>1, ReviewInvariant, PTL

-------------------------------------------------------------------------------
(* Evidence.                                                                 *)

\* What EvidenceKept asks of one result: how evidence may go.
Unasked(j) == j \in Forgettable /\ job'[j] = Absent
Replaced(j) == job'[j].report # job[j].report /\ job'[j].checked > job[j].checked
NothingFound(j, h) ==
    \E m \in wire \ wire' :
        /\ m.op = "save" /\ m.job = j /\ Holds(j, m.owner)
        /\ h \in DOMAIN m.entries /\ m.entries[h].outcome = "nothing"
Preserves(j, h) ==
    rows[j][h].verified /\ ~rows'[j][h].verified =>
        Unasked(j) \/ Replaced(j) \/ NothingFound(j, h)

\* What is not there has no evidence.
LEMMA AbsentUnverified ==
    ASSUME StoreInv, NEW j \in Jobs, job[j].state = "absent", NEW h \in Holdings
    PROVE  ~rows[j][h].verified
<1>1. rows[j] = NoRows
  BY DEF StoreInv, AllSound, Sound, OfReport
<1> QED
  BY <1>1 DEF NoRows, NoRow

\* Evidence goes with a report that a newer one replaces, or with a forgotten job
\* that makes room, ...
LEMMA EnqueuePreserves ==
    ASSUME StoreInv, NEW j \in Jobs, NEW s \in Stamps, Enqueue(j, s),
           NEW i \in Jobs, NEW h \in Holdings
    PROVE  Preserves(i, h)
<1>1. CASE UNCHANGED rows
  BY <1>1 DEF Preserves
<1>2. ASSUME NEW E, Bind(j, s, E), i # j, E \subseteq Forgettable PROVE Preserves(i, h)
  <2>1. CASE i \in E
    BY <1>2, <2>1 DEF Bind, Preserves, Unasked
  <2>2. CASE i \notin E
    BY <1>2, <2>2 DEF Bind, Preserves
  <2> QED
    BY <2>1, <2>2
<1>3. CASE i = j /\ j \notin Present
  BY <1>3, AbsentUnverified DEF Present, Preserves
<1>4. CASE /\ i = j /\ Content[s] # job[j].report /\ s > job[j].checked /\ Bind(j, s, {})
  <2>1. job'[j] = Bound(j, s)
    BY <1>4 DEF Bind
  <2>2. job'[j].report = Content[s] /\ job'[j].checked = s
    BY <2>1 DEF Bound, Absent
  <2> QED
    BY <1>4, <2>2 DEF Preserves, Replaced
<1>5. i = j \/ i # j
  OBVIOUS
<1>6. \/ UNCHANGED rows
      \/ Content[s] # job[j].report /\ s > job[j].checked /\ Bind(j, s, {})
      \/ j \notin Present /\ Bind(j, s, {})
      \/ j \notin Present /\ \E e \in Forgettable : Bind(j, s, {e})
  BY DEF Enqueue
<1>7. CASE Bind(j, s, {})
  BY <1>1, <1>2, <1>3, <1>4, <1>6, <1>7
<1>8. ASSUME NEW e \in Forgettable, Bind(j, s, {e}), j \notin Present PROVE Preserves(i, h)
  BY <1>2, <1>3, <1>8
<1> QED
  BY <1>1, <1>6, <1>7, <1>8

\* What a claim deletes.
LEMMA EvictionsForgettable == ASSUME NEW E \in Evictions PROVE E \subseteq Forgettable
BY DEF Evictions

\* ... survives the next cycle, ...
LEMMA GrantPreserves ==
    ASSUME StoreInv, NEW j \in Jobs, NEW o, Grant(j, o), NEW i \in Jobs, NEW h \in Holdings
    PROVE  Preserves(i, h)
<1> DEFINE x == rows[i][h]
<1>1. x \in Row /\ (x.verified => x.kept)
  BY DEF StoreInv, AllSound, Sound, OfReport
<1>2. PICK E \in Evictions :
        LET kept == Resumed(E) IN
        /\ kept[j].state \in Completed \cup {"queued", "retry", "working"}
        /\ job' = [kept EXCEPT ![j] = Claimed(kept[j], o)]
        /\ rows' = [k \in Jobs |->
                      IF k \in E THEN NoRows
                      ELSE IF k # j THEN rows[k]
                      ELSE [g \in Holdings |-> IF kept[j].state \in Completed THEN Outdated(rows[j][g])
                                                ELSE [rows[j][g] EXCEPT !.tried = FALSE]]]
  BY DEF Grant
<1>3. CASE i \in E
  <2>1. Absent.state = "absent"
    BY DEF Absent
  <2>2. Resumed(E)[i] = Absent
    BY <1>3 DEF Resumed
  <2>3. i # j
    BY <1>2, <2>1, <2>2 DEF Completed
  <2>4. job'[i] = Absent
    BY <1>2, <2>2, <2>3 DEF Resumed
  <2> QED
    BY <1>3, <2>4, EvictionsForgettable DEF Preserves, Unasked
<1>4. CASE i \notin E /\ i # j
  BY <1>2, <1>4 DEF Preserves
<1>5. CASE i \notin E /\ i = j
  <2>1. rows'[i][h] = IF Resumed(E)[j].state \in Completed THEN Outdated(x)
                      ELSE [x EXCEPT !.tried = FALSE]
    BY <1>2, <1>5
  <2>2. [x EXCEPT !.tried = FALSE].verified = x.verified
    <3> HIDE DEF x
    <3> QED
      BY <1>1 DEF Row
  <2>3. x.kept => Outdated(x).verified = x.verified
    <3> HIDE DEF x
    <3>1. NoRow \in Row
      BY ReviewAssumption DEF NoRow, Row, Outcomes
    <3>2. x.kept => Outdated(x) = [NoRow EXCEPT !.kept = TRUE, !.verified = x.verified, !.of = x.of]
      BY DEF Outdated
    <3> QED
      BY <3>1, <3>2 DEF Row
  <2> QED
    BY <1>1, <2>1, <2>2, <2>3 DEF Preserves
<1> QED
  BY <1>3, <1>4, <1>5

LEMMA GrantNothingPreserves ==
    ASSUME GrantNothing, NEW j \in Jobs, NEW h \in Holdings PROVE Preserves(j, h)
<1>1. CASE UNCHANGED rows
  BY <1>1 DEF Preserves
<1>2. ASSUME NEW E \in Evictions, job' = Resumed(E),
             rows' = [i \in Jobs |-> IF i \in E THEN NoRows ELSE rows[i]]
      PROVE  Preserves(j, h)
  <2>1. CASE j \in E
    <3>1. job'[j] = Absent
      BY <1>2, <2>1 DEF Resumed
    <3> QED
      BY <2>1, <3>1, EvictionsForgettable DEF Preserves, Unasked
  <2>2. CASE j \notin E
    BY <1>2, <2>2 DEF Preserves
  <2> QED
    BY <2>1, <2>2
<1> QED
  BY <1>1, <1>2 DEF GrantNothing

\* ... and a failed attempt to refresh it; a holder that finds nothing replaces it.
LEMMA StorePreserves ==
    ASSUME StoreInv, NEW m \in wire, wire' = wire \ {m}, IsSave(m), Accepts(m), Store(m),
           NEW i \in Jobs, NEW h \in Holdings
    PROVE  Preserves(i, h)
<1>1. m.job \in Jobs /\ rows' = [rows EXCEPT ![m.job] = After(m)]
  BY SaveType DEF Store, After
<1>2. CASE i # m.job \/ h \notin News(m)
  <2>1. rows'[i][h] = rows[i][h]
    BY <1>1, <1>2 DEF After, StoreInv
  <2> QED
    BY <2>1 DEF Preserves
<1>3. CASE i = m.job /\ h \in News(m)
  <2> DEFINE x == rows[i][h]
             e == m.entries[h]
  <2>1. h \in DOMAIN m.entries /\ e \in Entry
    BY <1>3, SaveType DEF News
  <2>2. rows'[i][h] = Saved(x, e, m.of)
    BY <1>1, <1>3 DEF After, StoreInv
  <2>3. Saved(x, e, m.of).verified = ((x.verified /\ e.outcome = "failed") \/ e.outcome = "found")
    BY DEF Saved
  <2>4. e.outcome \in {"found", "nothing", "failed"}
    BY <2>1 DEF Entry, Outcomes
  <2>5. m \in wire \ wire' /\ m.op = "save" /\ Holds(i, m.owner)
    BY <1>3 DEF IsSave, Accepts
  <2>6. e.outcome = "nothing" => NothingFound(i, h)
    BY <1>3, <2>1, <2>5 DEF NothingFound
  <2>7. (x.verified /\ ~Saved(x, e, m.of).verified) => e.outcome = "nothing"
    <3> HIDE DEF x, e
    <3> QED
      BY <2>3, <2>4
  <2> QED
    BY <2>2, <2>6, <2>7 DEF Preserves
<1> QED
  BY <1>2, <1>3

\* Verified evidence goes only with its job, with its report, or by the word of the
\* holder of the lease (edgar_fund_review_save: "preservedPrevious").
THEOREM EvidenceIsKept == Spec => EvidenceKept
<1>1. ASSUME IInv, [Next]_vars, NEW j \in Jobs, NEW h \in Holdings PROVE Preserves(j, h)
  <2> USE <1>1
  <2>1. CASE UNCHANGED rows
    BY <2>1 DEF Preserves
  <2>2. ASSUME NEW m \in wire, ServeClaim(m) PROVE Preserves(j, h)
    <3>1. CASE GrantNothing
      BY <3>1, GrantNothingPreserves
    <3>2. CASE \E i \in Jobs : Grant(i, m.owner)
      BY <3>2, GrantPreserves DEF IInv
    <3> QED
      BY <2>2, <3>1, <3>2 DEF ServeClaim
  <2>3. ASSUME NEW m \in wire, ServeEnqueue(m) PROVE Preserves(j, h)
    <3>1. m.job \in Jobs /\ m.stamp \in Stamps
      BY <2>3, CallTypes DEF IInv, CallInv, ServeEnqueue
    <3> QED
      BY <2>3, <3>1, EnqueuePreserves DEF ServeEnqueue, IInv
  <2>4. ASSUME NEW m \in wire, ServeSave(m) PROVE Preserves(j, h)
    <3>1. IsSave(m) /\ wire' = wire \ {m}
      BY <2>4 DEF IInv, CallInv, IsSave, ServeSave
    <3>2. (Accepts(m) /\ Store(m)) \/ UNCHANGED rows
      BY <2>4 DEF ServeSave, PauseForCapacity, storeVars
    <3> QED
      BY <2>1, <3>1, <3>2, StorePreserves DEF IInv
  <2>5. ASSUME NEW m \in wire, ServeRelease(m) PROVE UNCHANGED rows
    BY <2>5 DEF ServeRelease, Release, storeVars
  <2>6. ASSUME NEW i \in Jobs, NEW s \in Stamps, RequestReview(i, s) PROVE Preserves(j, h)
    BY <2>6, EnqueuePreserves DEF RequestReview, IInv
  <2>7. ASSUME NEW w \in Workers,
               \/ Begin(w) \/ ClaimFails(w) \/ CheckReport(w) \/ ReadWork(w) \/ Save(w)
               \/ SaveFails(w) \/ GiveBack(w) \/ End(w) \/ Kill(w)
        PROVE  UNCHANGED rows
    BY <2>7 DEF Begin, ClaimFails, CheckReport, ReadWork, Save, SaveFails, GiveBack, End, Kill,
                storeVars
  <2>8. ASSUME (\E i \in Jobs : Forget(i)) \/ Tick \/ NewDay PROVE UNCHANGED rows
    BY <2>8 DEF Forget, Tick, NewDay
  <2> QED
    BY <1>1, <2>1, <2>2, <2>3, <2>4, <2>5, <2>6, <2>7, <2>8 DEF Next, vars
<1>2. IInv /\ [Next]_vars => [\A j \in Jobs, h \in Holdings :
         rows[j][h].verified /\ ~rows'[j][h].verified =>
            \/ j \in Forgettable /\ job'[j] = Absent
            \/ job'[j].report # job[j].report /\ job'[j].checked > job[j].checked
            \/ \E m \in wire \ wire' :
                  /\ m.op = "save" /\ m.job = j /\ Holds(j, m.owner)
                  /\ h \in DOMAIN m.entries /\ m.entries[h].outcome = "nothing"]_vars
  BY <1>1 DEF Preserves, Unasked, Replaced, NothingFound
<1> QED
  BY <1>2, ReviewInvariant, PTL DEF Spec, EvidenceKept
===============================================================================
