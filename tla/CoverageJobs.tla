----------------------------- MODULE CoverageJobs -----------------------------
(***************************************************************************)
(* The workers of the job queue.  A coverage worker visits the issuers of  *)
(* one shard and records each visit in the checkpoint of its job; a        *)
(* migrator refreshes the companies of the small pilot cohort.             *)
(*                                                                         *)
(* A worker's call to the queue is served some time after it is sent.  A   *)
(* worker may give up on a call (a timeout or a lost reply); the call may  *)
(* still be served later, or never.  A worker may be killed at any moment. *)
(***************************************************************************)
EXTENDS IngestionJobs, FiniteSets

CONSTANTS
    ShardJobs, CohortJobs,
    Superseded,   \* shard jobs of an older, unfrozen universe
    Workers, Migrators, NoJob,
    ShardSize, CohortSize,
    BatchSize,    \* companies of one batch
    MaxIssuerAttempts,
    MaxLate       \* bound on the calls whose sender gave up

ASSUME CoverageAssumption ==
    /\ Jobs = ShardJobs \cup CohortJobs
    /\ ShardJobs \cap CohortJobs = {} /\ Superseded \subseteq ShardJobs
    /\ Workers \cap Migrators = {} /\ NoJob \notin Jobs
    /\ ShardSize \in Nat /\ CohortSize \in Nat /\ BatchSize \in Nat
    /\ MaxIssuerAttempts \in Nat \ {0} /\ MaxLate \in Nat

VARIABLES
    worker,    \* the invocation that each worker runs
    calls,     \* calls to the queue that are not served yet
    refreshed  \* history: the companies refreshed under each job

workVars == <<worker, calls, refreshed>>
vars == <<jobs, worker, calls, refreshed>>

Issuers == 0..(ShardSize - 1)
Companies == 0..(CohortSize - 1)

Checkpoint ==
    [schema: 0..2, cursor: Nat, succeeded: Nat, workCount: Nat,
     retries: SUBSET [index: Nat, attempts: Nat], failures: SUBSET Nat]

\* A cohort checkpoint is a cursor and no more; so is the empty object.
Cohort(cursor) ==
    [schema |-> 0, cursor |-> cursor, succeeded |-> 0, workCount |-> 0,
     retries |-> {}, failures |-> {}]

Enrolled(j) == [Cohort(0) EXCEPT !.schema = CASE j \in CohortJobs -> 0
                                              [] j \in Superseded -> 1
                                              [] OTHER -> 2]

Idle == [pc |-> "idle", job |-> NoJob, owner |-> NoOwner, local |-> Cohort(0)]
Waiting == {"wait", "rescue", "retire"}
Worker == [pc: {"idle", "claim", "work"} \cup Waiting, job: Jobs \cup {NoJob},
           owner: Owners \cup {NoOwner}, local: Checkpoint]
Call == [job: Jobs, owner: Owners, from: Waiting, checkpoint: Checkpoint,
         kind: {"checkpoint", "yield", "done", "retry", "dead"}]

TypeOK ==
    /\ QueueTypeOK(Checkpoint)
    /\ worker \in [Workers \cup Migrators -> Worker]
    /\ calls \in SUBSET Call
    /\ refreshed \in SUBSET (Jobs \X Nat)

Init ==
    /\ jobs = [j \in Jobs |->
                 [state |-> IF j \in Superseded THEN "queued" ELSE "absent",
                  owner |-> NoOwner, live |-> FALSE, available |-> TRUE,
                  attempts |-> 0, checkpoint |-> Enrolled(j)]]
    /\ worker = [w \in Workers \cup Migrators |-> Idle]
    /\ calls = {}
    /\ refreshed = {}

-------------------------------------------------------------------------------
(* Claims.                                                                   *)

Becomes(w, state) == worker' = [worker EXCEPT ![w] = state]

\* A coverage worker claims by the prefix of its keys, a migrator by dataset.
Scope(w) == IF w \in Migrators THEN Jobs ELSE ShardJobs
Enrols(w) == IF w \in Migrators THEN CohortJobs ELSE ShardJobs \ Superseded

EnqueueJobs(w) ==
    /\ worker[w].pc = "idle"
    /\ Enqueue(Enrols(w))
    /\ Becomes(w, [Idle EXCEPT !.pc = "claim"])
    /\ UNCHANGED <<calls, refreshed>>

Remembered == {jobs[j].owner : j \in Jobs} \cup {c.owner : c \in calls}
                \cup {v.owner : v \in {worker[w] : w \in DOMAIN worker}}

\* Every claim draws a random owner.
FreshOwner == CHOOSE o \in Owners : o \notin Remembered

\* The visits beyond the first of the issuers that are to be retried.
Redone(retries) ==
    {p \in retries \X (2..MaxIssuerAttempts) : p[2] <= p[1].attempts}

ValidCheckpoint(cp) ==
    LET listed == {e.index : e \in cp.retries} \cup cp.failures
        entries == Cardinality(cp.retries) + Cardinality(cp.failures)
        extra == Cardinality(Redone(cp.retries))
    IN  /\ cp.schema \in {1, 2}
        /\ cp.cursor \in 0..ShardSize
        /\ listed \subseteq 0..(cp.cursor - 1) /\ Cardinality(listed) = entries
        /\ \A e \in cp.retries : e.attempts \in 1..(MaxIssuerAttempts - 1)
        /\ cp.workCount \in (cp.cursor + extra)..(cp.cursor * MaxIssuerAttempts)
        /\ cp.succeeded + entries = cp.cursor

\* The invocation that holds job j, about to send a call of a kind.
Holding(w, pc, j, o, cp) == [pc |-> pc, job |-> j, owner |-> o, local |-> cp]
Request(v, from, kind, cp) ==
    [job |-> v.job, owner |-> v.owner, from |-> from, kind |-> kind, checkpoint |-> cp]

\* An unreadable checkpoint ends the job, and a superseded universe retires it.
Claim(w) ==
    /\ worker[w].pc = "claim"
    /\ Owners \ Remembered # {}
    /\ \E j \in Scope(w) :
         LET cp == jobs[j].checkpoint
             v(pc) == Holding(w, pc, j, FreshOwner, cp)
         IN  /\ ClaimIn(Scope(w), j, FreshOwner)
             /\ \/ /\ w \in Migrators \/ (ValidCheckpoint(cp) /\ j \notin Superseded)
                   /\ Becomes(w, v("work"))
                   /\ UNCHANGED calls
                \/ /\ w \in Workers /\ ~ValidCheckpoint(cp)
                   /\ Becomes(w, v("retire"))
                   /\ calls' = calls \cup {Request(v("retire"), "retire", "dead", Cohort(0))}
                \/ /\ w \in Workers /\ ValidCheckpoint(cp) /\ j \in Superseded
                   /\ Becomes(w, v("retire"))
                   /\ calls' = calls \cup {Request(v("retire"), "retire", "done", cp)}
    /\ UNCHANGED refreshed

FoundNothing(w) ==
    /\ worker[w].pc = "claim"
    /\ ClaimNothing(Scope(w))
    /\ Becomes(w, Idle)
    /\ UNCHANGED <<calls, refreshed>>

\* The claim is granted and the worker never learns of it.
ClaimUnheard(w) ==
    /\ worker[w].pc = "claim"
    /\ Owners \ Remembered # {}
    /\ \E j \in Scope(w) : ClaimIn(Scope(w), j, FreshOwner)
    /\ Becomes(w, Idle)
    /\ UNCHANGED <<calls, refreshed>>

-------------------------------------------------------------------------------
(* Coverage worker.                                                          *)

Send(w, from, kind, cp) ==
    /\ calls' = calls \cup {Request(worker[w], from, kind, cp)}
    /\ Becomes(w, [worker[w] EXCEPT !.pc = from])

\* Mutant: an issuer that was retried stays on the retry list.
AfterVisitListed(cp, i, attempts, outcome) ==
    LET retried == outcome = "failed" /\ attempts < MaxIssuerAttempts
    IN  [cp EXCEPT
           !.cursor = IF i = cp.cursor THEN i + 1 ELSE cp.cursor,
           !.workCount = cp.workCount + 1,
           !.succeeded = IF outcome = "refreshed" THEN cp.succeeded + 1 ELSE cp.succeeded,
           !.retries = IF retried THEN cp.retries \cup {[index |-> i, attempts |-> attempts]}
                       ELSE cp.retries,
           !.failures = IF outcome = "refreshed" \/ retried THEN cp.failures
                        ELSE cp.failures \cup {i}]

\* The checkpoint after one visit.  A refused issuer asks for a delay that the
\* queue cannot represent, so it is not retried.
AfterVisit(cp, i, attempts, outcome) ==
    LET kept == {e \in cp.retries : e.index # i}
        retried == outcome = "failed" /\ attempts < MaxIssuerAttempts
    IN  [cp EXCEPT
           !.cursor = IF i = cp.cursor THEN i + 1 ELSE cp.cursor,
           !.workCount = cp.workCount + 1,
           !.succeeded = IF outcome = "refreshed" THEN cp.succeeded + 1 ELSE cp.succeeded,
           !.retries = IF retried THEN kept \cup {[index |-> i, attempts |-> attempts]} ELSE kept,
           !.failures = IF outcome = "refreshed" \/ retried THEN cp.failures
                        ELSE cp.failures \cup {i}]

\* Every issuer is tried once before any is retried; which retries are due
\* depends on the time.  Progress is local only once the queue confirms it.
Due(cp) ==
    IF cp.cursor < ShardSize THEN {[index |-> cp.cursor, attempts |-> 0]} ELSE cp.retries

Visit(w) ==
    /\ w \in Workers /\ worker[w].pc = "work"
    /\ \E e \in Due(worker[w].local), outcome \in {"refreshed", "failed", "refused"} :
         /\ Send(w, "wait", "checkpoint",
                 AfterVisit(worker[w].local, e.index, e.attempts + 1, outcome))
         /\ refreshed' = IF outcome = "refreshed"
                         THEN refreshed \cup {<<worker[w].job, e.index>>} ELSE refreshed
    /\ UNCHANGED jobs

\* Mutant: the retry list is forgotten.
FinishedAtCursor(cp) == cp.cursor = ShardSize

Finished(cp) == cp.cursor = ShardSize /\ cp.retries = {}

\* The budget of the invocation is spent, or no retry is due.
Stop(w) ==
    /\ w \in Workers /\ worker[w].pc = "work"
    /\ LET cp == worker[w].local
       IN  Send(w, "wait", IF Finished(cp) THEN "done" ELSE "yield", cp)
    /\ UNCHANGED <<jobs, refreshed>>

-------------------------------------------------------------------------------
(* Migrator.  It trusts the cursor of whatever checkpoint it claimed.        *)

\* Mutant: off by one at the end of the cohort.
BatchStatusEarly(next) == IF next + 1 >= CohortSize THEN "done" ELSE "retry"

BatchStatus(next) == IF next = CohortSize THEN "done" ELSE "retry"

\* Refresh companies until the batch ends, one fails or time runs out; then
\* either save the cursor and go on, or finish.
Batch(w) ==
    /\ w \in Migrators /\ worker[w].pc = "work"
    /\ \E next \in worker[w].local.cursor..(worker[w].local.cursor + BatchSize) :
         LET v == [worker[w] EXCEPT !.local.cursor = next]
         IN  /\ next <= CohortSize
             /\ \E kind \in {"checkpoint", BatchStatus(next)} :
                  /\ kind = "checkpoint" =>
                       next > worker[w].local.cursor /\ next < CohortSize
                  /\ calls' = calls \cup {Request(v, "wait", kind, Cohort(next))}
             /\ Becomes(w, [v EXCEPT !.pc = "wait"])
             /\ refreshed' = refreshed \cup
                  {<<v.job, i>> : i \in {i \in Companies :
                                   /\ v.job \in CohortJobs
                                   /\ i >= worker[w].local.cursor /\ i < next}}
    /\ UNCHANGED jobs

\* A cursor beyond the cohort is refused before any work.
BadCursor(w) ==
    /\ w \in Migrators /\ worker[w].pc = "work"
    /\ worker[w].local.cursor > CohortSize
    /\ Send(w, "rescue", "retry", worker[w].local)
    /\ UNCHANGED <<jobs, refreshed>>

-------------------------------------------------------------------------------
(* Replies, failures and time.                                               *)

Awaits(w, c) == worker[w].pc = c.from /\ worker[w].owner = c.owner

\* After an error the worker gives its job back with what it knows.
Rescue(w, pending) ==
    /\ calls' = pending \cup {Request(worker[w], "rescue", "retry", worker[w].local)}
    /\ Becomes(w, [worker[w] EXCEPT !.pc = "rescue"])

Acknowledged(w, c) ==
    Becomes(w, IF c.kind # "checkpoint" THEN Idle
               ELSE [worker[w] EXCEPT !.pc = "work",
                       !.local = IF w \in Migrators THEN worker[w].local ELSE c.checkpoint])

Serve(w, c) ==
    /\ c \in calls /\ Awaits(w, c)
    /\ Write(c.job, c.owner, c.kind, c.checkpoint)
    /\ \/ /\ Holds(jobs[c.job], c.owner)
          /\ Acknowledged(w, c)
          /\ calls' = calls \ {c}
       \/ /\ ~Holds(jobs[c.job], c.owner) /\ c.from = "wait"
          /\ Rescue(w, calls \ {c})
       \/ /\ ~Holds(jobs[c.job], c.owner) /\ c.from # "wait"
          /\ Becomes(w, Idle)
          /\ calls' = calls \ {c}
    /\ UNCHANGED refreshed

Late == {c \in calls : \A w \in DOMAIN worker : ~Awaits(w, c)}

ServeLate(c) ==
    /\ c \in Late
    /\ Write(c.job, c.owner, c.kind, c.checkpoint)
    /\ calls' = calls \ {c}
    /\ UNCHANGED <<worker, refreshed>>

Timeout(w) ==
    /\ worker[w].pc \in Waiting
    /\ Cardinality(Late) < MaxLate
    /\ IF worker[w].pc = "wait" THEN Rescue(w, calls)
                                ELSE Becomes(w, Idle) /\ UNCHANGED calls
    /\ UNCHANGED <<jobs, refreshed>>

Killed(w) ==
    /\ worker[w].pc \in Waiting => Cardinality(Late) < MaxLate
    /\ worker[w].pc \notin {"idle", "claim"}
    /\ Becomes(w, Idle)
    /\ UNCHANGED <<jobs, calls, refreshed>>

TimePasses(j) == (LeaseLapses(j) \/ BecomesAvailable(j)) /\ UNCHANGED workVars

Begins(w) == EnqueueJobs(w) \/ Claim(w) \/ FoundNothing(w)
Works(w) == Visit(w) \/ Stop(w) \/ Batch(w) \/ BadCursor(w)
Answered(w) == \E c \in calls : Serve(w, c)
Fails(w) == ClaimUnheard(w) \/ Timeout(w) \/ Killed(w)

Next ==
    \/ \E w \in Workers \cup Migrators : Begins(w) \/ Works(w) \/ Answered(w) \/ Fails(w)
    \/ \E c \in calls : ServeLate(c)
    \/ \E j \in Jobs : TimePasses(j)

Spec == Init /\ [][Next]_vars

\* The scheduler starts an invocation every few minutes and each has time for
\* at least one issuer; leases lapse and delays end.
Fairness ==
    /\ \A w \in Workers : /\ WF_vars(Begins(w)) /\ WF_vars(Answered(w))
                          /\ SF_vars(Visit(w)) /\ WF_vars(Stop(w))
    /\ \A j \in Jobs : WF_vars(TimePasses(j))

FairSpec == Spec /\ Fairness

-------------------------------------------------------------------------------
(* Properties.                                                               *)

\* No worker writes a shard checkpoint that the next claim would refuse
\* ("Invalid SEC coverage checkpoint"), whatever was lost, late or redone.
CheckpointsValid == \A j \in ShardJobs : ValidCheckpoint(jobs[j].checkpoint)

\* A shard is done only when each of its issuers was refreshed or is reported as
\* a failure: none is skipped because a claim was lost or a cursor moved.
DoneMeansVisited ==
    \A j \in ShardJobs \ Superseded : jobs[j].state = "done" =>
      \A i \in Issuers : <<j, i>> \in refreshed \/ i \in jobs[j].checkpoint.failures

\* Durable progress loses at most the one visit whose reply was lost ("redoing
\* an issuer is idempotent"), and a finished job is never written again.
LosesAtMostOne ==
    [][\A j \in ShardJobs :
         /\ jobs'[j].checkpoint.workCount + 1 >= jobs[j].checkpoint.workCount
         /\ jobs[j].state \in Terminal => jobs'[j] = jobs[j]]_vars

\* Every shard job ends, finished or dead: no killed worker, lost reply or lapsed
\* lease leaves it stuck.
EveryShardEnds == \A j \in ShardJobs : <>(jobs[j].state \in Terminal)

\* A cohort job is done only when every company was refreshed under it
\* ("Resume the failing company; never silently skip evidence").
CohortComplete ==
    \A j \in CohortJobs : jobs[j].state = "done" =>
      \A i \in Companies : <<j, i>> \in refreshed

\* "Resume the oldest eligible cohort job": a migrator works on cohort jobs.
ResumesCohortJobs == \A w \in Migrators : worker[w].job \in CohortJobs \cup {NoJob}
===============================================================================
