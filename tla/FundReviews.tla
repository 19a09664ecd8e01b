------------------------------ MODULE FundReviews ------------------------------
(***************************************************************************)
(* Shared reviews of fund reports.  A job reviews the holdings of one      *)
(* manager's quarter, cycle after cycle, and is bound to one report; a     *)
(* newer report of the quarter replaces it.  Workers take the only lease,  *)
(* save results under it and give it back; time, attempts and storage are  *)
(* rationed.  Their calls may be lost, served late, or served unheard, and *)
(* they may be killed.                                                     *)
(*                                                                         *)
(* An owner is drawn afresh by every claim, and everything that raises the *)
(* generation or the cycle also changes or clears the owner, so it stands  *)
(* for the whole claim.  Whether a result belongs to the job's cycle and   *)
(* generation is a flag of its row.  The lease is the time that is left;   *)
(* a lapsed one is nobody's.                                               *)
(***************************************************************************)
EXTENDS Integers, FiniteSets, FiniteSetsExt

CONSTANTS
    Jobs,
    Reports, NoReport,
    Holdings, HoldingsOf,  \* the holdings that each report lists
    MaxStamp, Content,     \* what the source reports at each of its stamps
    Workers,
    Owners, NoOwner, NoJob,
    Lease,                 \* the time that a claim reserves
    DayCap, AttemptCap,    \* time and attempts of one day
    MaxAttempts,           \* attempts per holding and cycle
    Capacity,              \* results that may be stored
    MaxJobs,
    Concurrency,           \* single saves of one worker at once
    MaxWire                \* bound: calls under way at once; any further call is lost

Stamps == 1 .. MaxStamp

ASSUME ReviewAssumption ==
    /\ NoOwner \notin Owners /\ NoJob \notin Jobs /\ NoReport \notin Reports
    /\ IsFiniteSet(Holdings) /\ HoldingsOf \in [Reports -> SUBSET Holdings]
    /\ \A p \in Reports : HoldingsOf[p] # {}
    /\ MaxStamp \in Nat \ {0} /\ Content \in [Stamps -> Reports]
    /\ Lease \in Nat \ {0} /\ DayCap \in Nat /\ AttemptCap \in Nat
    /\ MaxAttempts \in Nat \ {0} /\ Capacity \in Nat /\ MaxJobs \in Nat
    /\ Concurrency \in Nat \ {0} /\ MaxWire \in Nat

VARIABLES
    job,      \* the rows of the jobs table
    rows,     \* the results of each job
    budget,   \* today's row of the daily budget
    wire,     \* calls under way
    worker,   \* the invocation that each worker runs
    worked    \* history: time spent today under leases that were reserved today

storeVars == <<job, rows, budget>>
vars == <<job, rows, budget, wire, worker, worked>>

Most(a, b) == IF a > b THEN a ELSE b

Completed == {"complete", "gaps"}
States == Completed \cup {"absent", "queued", "working", "retry", "capacity"}
Job == [state: States, report: Reports \cup {NoReport}, checked: 0 .. MaxStamp,
        owner: Owners \cup {NoOwner}, lease: 0 .. Lease,
        today: BOOLEAN,             \* it was reserved today
        reviewed: Nat, terminal: Nat, bytes: Nat,
        forgotten: BOOLEAN,         \* completed, and not asked for in 30 days
        shown: SUBSET Holdings]     \* the publication's reviewed holdings
Absent == [state |-> "absent", report |-> NoReport, checked |-> 0, owner |-> NoOwner,
           lease |-> 0, today |-> FALSE, reviewed |-> 0, terminal |-> 0, bytes |-> 0,
           forgotten |-> FALSE, shown |-> {}]

\* Failed: unavailable or partial.  Found: ready and complete.  Nothing: the rest.
Outcomes == {"found", "nothing", "failed"}
Row == [kept: BOOLEAN, cur: BOOLEAN, tried: BOOLEAN, attempts: 0 .. MaxAttempts,
        terminal: BOOLEAN, outcome: Outcomes,
        verified: BOOLEAN,                 \* its evidence is ready and complete
        of: Reports \cup {NoReport}]       \* history: the report it was found for
NoRow == [kept |-> FALSE, cur |-> FALSE, tried |-> FALSE, attempts |-> 0,
          terminal |-> FALSE, outcome |-> "nothing", verified |-> FALSE, of |-> NoReport]
\* Of a result of an earlier cycle only its evidence matters.
Outdated(row) == IF row.kept THEN [NoRow EXCEPT !.kept = TRUE, !.verified = row.verified, !.of = row.of]
                 ELSE NoRow
NoRows == [h \in Holdings |-> NoRow]

Entry == [outcome: Outcomes, retry: BOOLEAN]
Entries == UNION {[B -> Entry] : B \in SUBSET Holdings}
Call == [op: {"claim"}, owner: Owners]
        \cup [op: {"enqueue"}, job: Jobs, stamp: Stamps]
        \cup [op: {"save"}, job: Jobs, owner: Owners, of: Reports, entries: Entries]
        \cup [op: {"release"}, job: Jobs, owner: Owners]

Places == {"idle", "claiming", "checking", "replacing", "reading", "working", "releasing"}
Worker == [at: Places, owner: Owners \cup {NoOwner}, job: Jobs \cup {NoJob},
           report: Reports \cup {NoReport},
           todo: SUBSET [holding: Holdings, tries: Nat],  \* the work it read
           saving: SUBSET SUBSET Holdings,                \* its saves under way
           fenced: BOOLEAN]
Idle == [at |-> "idle", owner |-> NoOwner, job |-> NoJob, report |-> NoReport,
         todo |-> {}, saving |-> {}, fenced |-> FALSE]

TypeOK ==
    /\ job \in [Jobs -> Job]
    /\ \A j \in Jobs : /\ job[j].owner = NoOwner <=> job[j].lease = 0
                       /\ job[j].lease > 0 => job[j].state = "working"
    /\ rows \in [Jobs -> [Holdings -> Row]]
    /\ budget \in [reserved: 0 .. DayCap, attempts: 0 .. AttemptCap]
    /\ wire \subseteq Call
    /\ worker \in [Workers -> Worker]
    /\ worked \in Nat

Init ==
    /\ job = [j \in Jobs |-> Absent]
    /\ rows = [j \in Jobs |-> NoRows]
    /\ budget = [reserved |-> 0, attempts |-> 0]
    /\ wire = {}
    /\ worker = [w \in Workers |-> Idle]
    /\ worked = 0

-------------------------------------------------------------------------------
(* The store.                                                                *)

Present == {j \in Jobs : job[j].state # "absent"}
Used(S) == MapThenSumSet(LAMBDA j : job[j].bytes, S)
Forgettable == {j \in Jobs : job[j].state \in Completed /\ job[j].forgotten}

\* Mutant: the lease of the report that is replaced lives on.
BoundStillLeased(j, s) ==
    [Absent EXCEPT !.state = "working", !.report = Content[s], !.checked = s,
                   !.owner = job[j].owner, !.lease = job[j].lease]

\* A job bound to the report of a stamp, as inserted or replaced, and published.
Bound(j, s) == [Absent EXCEPT !.state = "queued", !.report = Content[s], !.checked = s]

Bind(j, s, evicted) ==
    /\ job' = [i \in Jobs |-> IF i = j THEN Bound(j, s)
                              ELSE IF i \in evicted THEN Absent ELSE job[i]]
    /\ rows' = [i \in Jobs |-> IF i = j \/ i \in evicted THEN NoRows ELSE rows[i]]

\* edgar_fund_review_enqueue: joined, replaced, refused as stale, inserted (one
\* forgotten job makes room), or refused for lack of room.
Enqueue(j, s) ==
    LET same == Content[s] = job[j].report
        room == Cardinality(Present) < MaxJobs
    IN  /\ \/ /\ j \in Present /\ same
              /\ job' = [job EXCEPT ![j].checked = Most(@, s), ![j].forgotten = FALSE]
              /\ UNCHANGED rows
           \/ j \in Present /\ ~same /\ s > job[j].checked /\ Bind(j, s, {})
           \/ j \in Present /\ ~same /\ s <= job[j].checked /\ UNCHANGED <<job, rows>>
           \/ j \notin Present /\ room /\ Bind(j, s, {})
           \/ /\ j \notin Present /\ ~room
              /\ \E i \in Forgettable : Bind(j, s, {i})
           \/ j \notin Present /\ ~room /\ Forgettable = {} /\ UNCHANGED <<job, rows>>
        /\ UNCHANGED <<budget, worked>>

\* A claim first deletes forgotten jobs while a paused one lacks room.
Crowded(evicted) == Used(Jobs \ evicted) >= Capacity
Evictions ==
    IF \A j \in Jobs : job[j].state # "capacity" THEN {{}}
    ELSE {E \in SUBSET Forgettable :
            /\ Crowded(E) => E = Forgettable
            /\ E # {} => \E e \in E : Crowded(E \ {e})}

Resumed(evicted) ==
    [j \in Jobs |->
       IF j \in evicted THEN Absent
       ELSE IF job[j].state = "capacity" /\ ~Crowded(evicted) THEN [job[j] EXCEPT !.state = "queued"]
       ELSE job[j]]

\* Mutant: the next cycle starts with the counters of the last.
ClaimedCounting(row, o) ==
    [row EXCEPT !.state = "working", !.owner = o, !.lease = Lease, !.today = TRUE,
                !.forgotten = FALSE]

\* A completed job starts its next cycle.
Claimed(row, o) ==
    [row EXCEPT !.state = "working", !.owner = o, !.lease = Lease, !.today = TRUE,
                !.forgotten = FALSE,
                !.reviewed = IF row.state \in Completed THEN 0 ELSE row.reviewed,
                !.terminal = IF row.state \in Completed THEN 0 ELSE row.terminal]

Rationed == budget.reserved + Lease > DayCap \/ budget.attempts >= AttemptCap

\* Mutant: a lease is granted while another lives.
AnyLiving == FALSE

Living == \E j \in Jobs : job[j].lease > 0

\* edgar_fund_review_claim grants j to owner o.  Retries and next cycles come
\* due at some time; the order of the due jobs is left open.  What is resumed now is
\* due later than the clock that the claim has read.
Grant(j, o) ==
    /\ ~Living /\ ~Rationed /\ job[j].state # "capacity"
    /\ \E E \in Evictions :
         LET kept == Resumed(E) IN
         /\ kept[j].state \in Completed \cup {"queued", "retry", "working"}
         /\ job' = [kept EXCEPT ![j] = Claimed(kept[j], o)]
         /\ rows' = [i \in Jobs |->
                       IF i \in E THEN NoRows
                       ELSE IF i # j THEN rows[i]
                       ELSE [h \in Holdings |->
                               IF kept[j].state \in Completed THEN Outdated(rows[j][h])
                               ELSE [rows[j][h] EXCEPT !.tried = FALSE]]]
    /\ budget' = [budget EXCEPT !.reserved = @ + Lease]
    /\ UNCHANGED worked

\* The lease is taken, the day is spent, or nothing is due by the clock that the
\* claim read before it had the lock: not even a job that was queued since.
GrantNothing ==
    /\ \/ (Living \/ Rationed) /\ UNCHANGED <<job, rows>>
       \/ /\ ~Living /\ ~Rationed
          /\ \E E \in Evictions :
               /\ job' = Resumed(E)
               /\ rows' = [i \in Jobs |-> IF i \in E THEN NoRows ELSE rows[i]]
    /\ UNCHANGED <<budget, worked>>

\* The fence of every call under a claim.
Holds(j, o) == job[j].owner = o /\ job[j].lease > 0

\* edgar_fund_review_work: what the claim may try; retries come due at some time.
Pending(j) ==
    LET tries(h) == IF rows[j][h].cur THEN rows[j][h].attempts ELSE 0
        listed == {h \in HoldingsOf[job[j].report] :
                     \/ ~rows[j][h].cur
                     \/ ~rows[j][h].terminal /\ ~rows[j][h].tried}
    IN  {[holding |-> h, tries |-> tries(h)] : h \in listed}

\* Mutant: a failed refresh replaces the evidence.
SavedOver(row, e, report) ==
    LET attempt == IF row.cur THEN row.attempts + 1 ELSE 1
    IN  [kept |-> TRUE, cur |-> TRUE, tried |-> TRUE, attempts |-> attempt,
         terminal |-> ~e.retry \/ attempt >= MaxAttempts, outcome |-> e.outcome,
         verified |-> e.outcome = "found", of |-> report]

\* One more attempt.  Verified evidence outlives a failed one.
Saved(row, e, report) ==
    LET attempt == IF row.cur THEN row.attempts + 1 ELSE 1
        preserved == row.verified /\ e.outcome = "failed"
    IN  [kept |-> TRUE, cur |-> TRUE, tried |-> TRUE, attempts |-> attempt,
         terminal |-> ~e.retry \/ attempt >= MaxAttempts, outcome |-> e.outcome,
         verified |-> preserved \/ e.outcome = "found",
         of |-> IF preserved THEN row.of ELSE report]

\* Already tried under this claim: the same input is acknowledged again.
Again(row) == row.tried /\ row.cur
SameInput(row, e) == row.outcome = e.outcome /\ row.terminal = (~e.retry \/ row.attempts >= MaxAttempts)
Refuses(row, e) ==
    \/ Again(row) /\ ~SameInput(row, e)
    \/ ~Again(row) /\ row.cur /\ (row.terminal \/ row.attempts >= MaxAttempts)

\* edgar_fund_review_save and its batch: all entries or none.
News(m) == {h \in DOMAIN m.entries : ~Again(rows[m.job][h])}
Added(m) == {h \in News(m) : ~rows[m.job][h].kept}
Overflows(m) == Used(Jobs) + Cardinality(Added(m)) > Capacity
Exhausts(m) == budget.attempts + Cardinality(News(m)) > AttemptCap
SomeRefused(m) == \E h \in DOMAIN m.entries : Refuses(rows[m.job][h], m.entries[h])
Accepts(m) == Holds(m.job, m.owner) /\ ~SomeRefused(m) /\ ~Overflows(m) /\ ~Exhausts(m)

\* Mutant: a result of an earlier cycle is not counted as reviewed anew.
StoreUncounted(m) ==
    LET after == [h \in Holdings |-> IF h \in News(m) THEN Saved(rows[m.job][h], m.entries[h], m.of)
                                     ELSE rows[m.job][h]]
    IN  /\ rows' = [rows EXCEPT ![m.job] = after]
        /\ job' = [job EXCEPT ![m.job].reviewed = @ + Cardinality(Added(m)),
                              ![m.job].terminal = @ + Cardinality({h \in News(m) : after[h].terminal}),
                              ![m.job].bytes = @ + Cardinality(Added(m))]
        /\ budget' = [budget EXCEPT !.attempts = @ + Cardinality(News(m))]

Store(m) ==
    LET after == [h \in Holdings |-> IF h \in News(m) THEN Saved(rows[m.job][h], m.entries[h], m.of)
                                     ELSE rows[m.job][h]]
        first == {h \in News(m) : ~rows[m.job][h].cur}
    IN  /\ rows' = [rows EXCEPT ![m.job] = after]
        /\ job' = [job EXCEPT ![m.job].reviewed = @ + Cardinality(first),
                              ![m.job].terminal = @ + Cardinality({h \in News(m) : after[h].terminal}),
                              ![m.job].bytes = @ + Cardinality(Added(m))]
        /\ budget' = [budget EXCEPT !.attempts = @ + Cardinality(News(m))]

Unleased(row) == [row EXCEPT !.owner = NoOwner, !.lease = 0, !.today = FALSE]

\* Mutant: the paused job keeps its lease.
PauseHeld(m) ==
    /\ job' = [job EXCEPT ![m.job].state = "capacity"]
    /\ UNCHANGED <<rows, budget>>

\* A batch that does not fit is undone, and the job waits for room.
PauseForCapacity(m) ==
    /\ job' = [job EXCEPT ![m.job] = [Unleased(@) EXCEPT !.state = "capacity"]]
    /\ UNCHANGED <<rows, budget>>

Current(j) == {h \in Holdings : rows[j][h].cur}
Final(j) == {h \in Current(j) : rows[j][h].terminal}
Total(j) == Cardinality(HoldingsOf[job[j].report])

\* Mutant: complete as soon as every holding was tried.
StateReviewed(j) ==
    IF Cardinality(Current(j)) = Total(j)
    THEN IF \E h \in Current(j) : rows[j][h].outcome = "failed" THEN "gaps" ELSE "complete"
    ELSE IF Cardinality(Current(j)) < Total(j) THEN "queued" ELSE "retry"

StateOnRelease(j) ==
    IF Cardinality(Final(j)) = Total(j)
    THEN IF \E h \in Current(j) : rows[j][h].outcome = "failed" THEN "gaps" ELSE "complete"
    ELSE IF Cardinality(Current(j)) < Total(j) THEN "queued" ELSE "retry"

\* Mutant: the whole reservation is given back.
RefundAll(j) == Lease

\* What is given back to the day that was charged: all but what has passed, and
\* at least one unit is kept.
Refund(j) == Most(0, Lease - Most(1, Lease - job[j].lease))

\* edgar_fund_review_release: counts anew, publishes and refunds.
Release(j) ==
    /\ job' = [job EXCEPT ![j] = [Unleased(@) EXCEPT !.state = StateOnRelease(j),
                                   !.reviewed = Cardinality(Current(j)),
                                   !.terminal = Cardinality(Final(j)), !.shown = Final(j)]]
    /\ budget' = [budget EXCEPT !.reserved = IF job[j].today THEN Most(0, @ - Refund(j)) ELSE @]
    /\ UNCHANGED rows

-------------------------------------------------------------------------------
(* A worker.                                                                 *)

Send(m) ==
    \/ Cardinality(wire) < MaxWire /\ wire' = wire \cup {m}
    \/ UNCHANGED wire

Becomes(w, state) == worker' = [worker EXCEPT ![w] = state]

InUse(o) ==
    \/ \E j \in Jobs : job[j].owner = o
    \/ \E m \in wire : m.op # "enqueue" /\ m.owner = o
    \/ \E w \in Workers : worker[w].owner = o

\* The ids are interchangeable.
Unused == {o \in Owners : ~InUse(o)}
Fresh == CHOOSE o \in Unused : TRUE

Begin(w) ==
    /\ worker[w].at = "idle" /\ Unused # {}
    /\ Send([op |-> "claim", owner |-> Fresh])
    /\ Becomes(w, [Idle EXCEPT !.at = "claiming", !.owner = Fresh])
    /\ UNCHANGED <<storeVars, worked>>

\* The claim failed or timed out: there is nothing to release.
ClaimFails(w) ==
    /\ worker[w].at = "claiming"
    /\ Becomes(w, Idle)
    /\ UNCHANGED <<storeVars, wire, worked>>

\* The report loader answers as of some stamp of the source, older or newer than
\* what the job knows: another report replaces the job's, the same is worked on.
CheckReport(w) ==
    /\ worker[w].at = "checking"
    /\ \E s \in Stamps :
         \/ /\ Content[s] = worker[w].report
            /\ Becomes(w, [worker[w] EXCEPT !.at = "reading"])
            /\ UNCHANGED wire
         \/ /\ Content[s] # worker[w].report
            /\ Send([op |-> "enqueue", job |-> worker[w].job, stamp |-> s])
            /\ Becomes(w, [worker[w] EXCEPT !.at = "replacing"])
    /\ UNCHANGED <<storeVars, worked>>

\* All pending work, or as much as the day has attempts left.
ReadWork(w) ==
    LET pending == IF Holds(worker[w].job, worker[w].owner) THEN Pending(worker[w].job) ELSE {}
        left == AttemptCap - budget.attempts
    IN
    /\ worker[w].at = "reading"
    /\ \E T \in SUBSET pending :
         /\ T = pending \/ Cardinality(T) = left
         /\ Cardinality(T) <= left
         /\ Becomes(w, [worker[w] EXCEPT !.at = "working", !.todo = T])
    /\ UNCHANGED <<storeVars, wire, worked>>

\* A batch alone, or single saves side by side.
MaySave(B, saving) ==
    \/ saving = {}
    \/ Cardinality(saving) < Concurrency /\ \A C \in saving \cup {B} : Cardinality(C) = 1

\* Failures are retried while attempts are left.
Save(w) ==
    /\ worker[w].at = "working" /\ ~worker[w].fenced
    /\ \E T \in (SUBSET worker[w].todo) \ {{}} :
         LET B == {t.holding : t \in T} IN
         \E found \in [B -> Outcomes] :
           LET last(h) == \E t \in T : t.holding = h /\ t.tries + 1 >= MaxAttempts
               entries == [h \in B |-> [outcome |-> found[h],
                                        retry |-> found[h] = "failed" /\ ~last(h)]]
           IN  /\ MaySave(B, worker[w].saving)
               /\ Send([op |-> "save", job |-> worker[w].job, owner |-> worker[w].owner,
                        of |-> worker[w].report, entries |-> entries])
               /\ Becomes(w, [worker[w] EXCEPT !.todo = @ \ T, !.saving = @ \cup {B}])
    /\ UNCHANGED <<storeVars, worked>>

\* A save that failed or timed out may or may not have been stored.
SaveFails(w) ==
    /\ worker[w].at = "working"
    /\ \E B \in worker[w].saving :
         Becomes(w, [worker[w] EXCEPT !.saving = @ \ {B}, !.fenced = TRUE])
    /\ UNCHANGED <<storeVars, wire, worked>>

\* Work done, time or budget spent, or any failure: the claim is given back, but
\* never while a save is awaited.
GiveBack(w) ==
    /\ worker[w].at \in {"checking", "replacing", "reading", "working"}
    /\ worker[w].saving = {}
    /\ Send([op |-> "release", job |-> worker[w].job, owner |-> worker[w].owner])
    /\ Becomes(w, [Idle EXCEPT !.at = "releasing"])
    /\ UNCHANGED <<storeVars, worked>>

\* Whatever came of the release.
End(w) ==
    /\ worker[w].at = "releasing"
    /\ Becomes(w, Idle)
    /\ UNCHANGED <<storeVars, wire, worked>>

Kill(w) ==
    /\ worker[w].at # "idle"
    /\ Becomes(w, Idle)
    /\ UNCHANGED <<storeVars, wire, worked>>

-------------------------------------------------------------------------------
(* The store serves a call; the worker hears of it, or not.                  *)

\* The worker that still waits for the reply of m, at a place.
Hears(w, m, place) == worker[w].at = place /\ worker[w].owner = m.owner

ServeClaim(m) ==
    /\ m.op = "claim"
    /\ \/ \E j \in Jobs :
            /\ Grant(j, m.owner)
            /\ \/ UNCHANGED worker
               \/ \E w \in Workers :
                    /\ Hears(w, m, "claiming")
                    /\ Becomes(w, [worker[w] EXCEPT !.at = "checking", !.job = j,
                                                    !.report = job'[j].report])
       \/ GrantNothing /\ UNCHANGED worker
    /\ wire' = wire \ {m}

ServeEnqueue(m) ==
    /\ m.op = "enqueue"
    /\ Enqueue(m.job, m.stamp)
    /\ wire' = wire \ {m}
    /\ UNCHANGED worker

SaveHeard(m, ok) ==
    \/ UNCHANGED worker
    \/ \E w \in Workers :
         /\ Hears(w, m, "working") /\ DOMAIN m.entries \in worker[w].saving
         /\ Becomes(w, [worker[w] EXCEPT !.saving = @ \ {DOMAIN m.entries},
                                         !.fenced = @ \/ ~ok])

\* Which entry of a batch is refused first depends on their order.
ServeSave(m) ==
    /\ m.op = "save"
    /\ \/ Accepts(m) /\ Store(m) /\ SaveHeard(m, TRUE)
       \/ Holds(m.job, m.owner) /\ Overflows(m) /\ PauseForCapacity(m) /\ SaveHeard(m, FALSE)
       \/ /\ ~Holds(m.job, m.owner) \/ SomeRefused(m) \/ Exhausts(m)
          /\ UNCHANGED storeVars /\ SaveHeard(m, FALSE)
    /\ wire' = wire \ {m}
    /\ UNCHANGED worked

ServeRelease(m) ==
    /\ m.op = "release"
    /\ \/ Holds(m.job, m.owner) /\ Release(m.job)
       \/ ~Holds(m.job, m.owner) /\ UNCHANGED storeVars
    /\ wire' = wire \ {m}
    /\ UNCHANGED <<worker, worked>>

-------------------------------------------------------------------------------
(* Readers and time.                                                         *)

\* A reader asks for a review, with a report that may be outdated by now.
RequestReview(j, s) ==
    /\ Enqueue(j, s)
    /\ UNCHANGED <<wire, worker>>

Forget(j) ==
    /\ job[j].state \in Completed /\ ~job[j].forgotten
    /\ job' = [job EXCEPT ![j].forgotten = TRUE]
    /\ UNCHANGED <<rows, budget, wire, worker, worked>>

Tick ==
    /\ Living
    /\ job' = [j \in Jobs |-> IF job[j].lease <= 1 THEN Unleased(job[j])
                              ELSE [job[j] EXCEPT !.lease = @ - 1]]
    /\ worked' = worked + Cardinality({j \in Jobs : job[j].lease > 0 /\ job[j].today})
    /\ UNCHANGED <<rows, budget, wire, worker>>

\* A new day has a budget of its own.
NewDay ==
    /\ budget' = [reserved |-> 0, attempts |-> 0]
    /\ job' = [j \in Jobs |-> [job[j] EXCEPT !.today = FALSE]]
    /\ worked' = 0
    /\ UNCHANGED <<rows, wire, worker>>

Next ==
    \/ \E w \in Workers :
         \/ Begin(w) \/ ClaimFails(w) \/ CheckReport(w) \/ ReadWork(w) \/ Save(w)
         \/ SaveFails(w) \/ GiveBack(w) \/ End(w) \/ Kill(w)
    \/ \E m \in wire : ServeClaim(m) \/ ServeEnqueue(m) \/ ServeSave(m) \/ ServeRelease(m)
    \/ \E j \in Jobs : Forget(j) \/ \E s \in Stamps : RequestReview(j, s)
    \/ Tick \/ NewDay

Spec == Init /\ [][Next]_vars

-------------------------------------------------------------------------------
(* What the reviews promise.                                                 *)

\* Results are only ever those of the report the job is bound to, and that is
\* the report of the latest stamp it was asked with: "work never migrates", and
\* an outdated request cannot bring an old report back.
ResultsOfReport ==
    \A j \in Present :
        /\ job[j].report = Content[job[j].checked]
        /\ \A h \in Holdings : rows[j][h].kept =>
             rows[j][h].of = job[j].report /\ h \in HoldingsOf[job[j].report]

\* The counters of a job agree with its results through batches, repeated saves,
\* new cycles, replaced reports and evictions.
CountersMatchRows ==
    \A j \in Jobs :
        /\ job[j].reviewed = Cardinality(Current(j))
        /\ job[j].terminal = Cardinality(Final(j))
        /\ job[j].bytes = Cardinality({h \in Holdings : rows[j][h].kept})

\* A job is complete, and its publication says so, only when every holding of
\* its report has a final result of this cycle.
CompleteMeansReviewed ==
    \A j \in Jobs : job[j].state \in Completed =>
        Final(j) = HoldingsOf[job[j].report] /\ job[j].shown = Final(j)

\* One lease lives at a time, and the time spent under leases in a day never
\* exceeds what the day reserved, whatever was refunded.
Metered ==
    /\ \A i, j \in Jobs : job[i].lease > 0 /\ job[j].lease > 0 => i = j
    /\ worked <= budget.reserved

\* "Preserve previous verified evidence when a later refresh fails."  What was
\* verified goes with a job that nobody asks for, with a report that a newer one
\* replaces, or when the holder of the lease reports that nothing is found: not by
\* a failed attempt, the next cycle, a pause, a release, or a call that comes late.
EvidenceKept ==
    [][\A j \in Jobs, h \in Holdings :
         rows[j][h].verified /\ ~rows'[j][h].verified =>
            \/ j \in Forgettable /\ job'[j] = Absent
            \/ job'[j].report # job[j].report /\ job'[j].checked > job[j].checked
            \/ \E m \in wire \ wire' :
                  /\ m.op = "save" /\ m.job = j /\ Holds(j, m.owner)
                  /\ h \in DOMAIN m.entries /\ m.entries[h].outcome = "nothing"]_vars
===============================================================================
