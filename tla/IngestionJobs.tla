----------------------------- MODULE IngestionJobs -----------------------------
(***************************************************************************)
(* The durable job queue of the ingestion workers: the procedures that     *)
(* enqueue, claim, checkpoint, yield and finish a row of the jobs table.   *)
(* Each locks the rows it changes, so each is one step.                    *)
(*                                                                         *)
(* An owner is drawn afresh by every claim; it stands for the generation   *)
(* that rises with it.  Deadlines are abstract: a lease is live until it   *)
(* lapses, and a delayed job becomes available some time later.            *)
(***************************************************************************)
EXTENDS Naturals

CONSTANTS
    Jobs,        \* job keys
    Owners, NoOwner,
    MaxAttempts  \* max_attempts of a row

ASSUME JobsAssumption == NoOwner \notin Owners /\ MaxAttempts \in Nat \ {0}

VARIABLE jobs

States == {"absent", "queued", "running", "retry", "done", "dead"}
Terminal == {"done", "dead"}

Row(Checkpoint) ==
    [state: States, owner: Owners \cup {NoOwner}, live: BOOLEAN,
     available: BOOLEAN, attempts: 0..MaxAttempts, checkpoint: Checkpoint]

\* A row is owned exactly while it runs.
QueueTypeOK(Checkpoint) ==
    /\ jobs \in [Jobs -> Row(Checkpoint)]
    /\ \A j \in Jobs : /\ (jobs[j].owner # NoOwner) = (jobs[j].state = "running")
                       /\ jobs[j].live => jobs[j].state = "running"

-------------------------------------------------------------------------------
(* Rows.                                                                     *)

\* insert .. on conflict do nothing
Enqueued(row) == IF row.state = "absent" THEN [row EXCEPT !.state = "queued"] ELSE row

Lapsed(row) == row.state = "running" /\ ~row.live

Claimable(row) ==
    /\ row.attempts < MaxAttempts
    /\ row.available
    /\ row.state \in {"queued", "retry"} \/ Lapsed(row)

Claimed(row, o) ==
    [row EXCEPT !.state = "running", !.owner = o, !.live = TRUE, !.attempts = row.attempts + 1]

\* Mutant: killed last attempts are left running.
SweptNever(row) == row

\* Every claim first buries the jobs whose last attempt was killed.
Swept(row) ==
    IF Lapsed(row) /\ row.attempts >= MaxAttempts
    THEN [row EXCEPT !.state = "dead", !.owner = NoOwner]
    ELSE row

\* Mutant: a stale claim may write whenever the job runs.
HoldsUnfenced(row, o) == row.state = "running"

\* The fence of every later call: only a live lease may write.
Holds(row, o) == row.state = "running" /\ row.owner = o /\ row.live

Checkpointed(row, cp) == [row EXCEPT !.checkpoint = cp]

\* Mutant: the finished row keeps its owner.
SettledOwned(row, status, cp) ==
    [row EXCEPT !.state = IF status = "retry" /\ row.attempts >= MaxAttempts
                          THEN "dead" ELSE status,
                !.checkpoint = cp, !.live = FALSE, !.available = FALSE]

Settled(row, status, cp) ==
    [row EXCEPT !.state = IF status = "retry" /\ row.attempts >= MaxAttempts
                          THEN "dead" ELSE status,
                !.checkpoint = cp, !.owner = NoOwner, !.live = FALSE,
                !.available = FALSE]

\* A yield gives its attempt back.
Yielded(row, cp) ==
    [row EXCEPT !.state = "queued", !.checkpoint = cp,
                !.attempts = IF row.attempts = 0 THEN 0 ELSE row.attempts - 1,
                !.owner = NoOwner, !.live = FALSE, !.available = FALSE]

Written(row, kind, cp) ==
    CASE kind = "checkpoint" -> Checkpointed(row, cp)
      [] kind = "yield" -> Yielded(row, cp)
      [] OTHER -> Settled(row, kind, cp)

-------------------------------------------------------------------------------
(* Steps of the queue.  A scope is the set of jobs a claim may see.          *)

Enqueue(scope) ==
    jobs' = [j \in Jobs |-> IF j \in scope THEN Enqueued(jobs[j]) ELSE jobs[j]]

ClaimIn(scope, j, o) ==
    /\ j \in scope
    /\ Claimable(jobs[j])
    /\ jobs' = [i \in Jobs |-> IF i = j THEN Claimed(jobs[i], o)
                               ELSE IF i \in scope THEN Swept(jobs[i]) ELSE jobs[i]]

ClaimNothing(scope) ==
    /\ \A j \in scope : ~Claimable(jobs[j])
    /\ jobs' = [i \in Jobs |-> IF i \in scope THEN Swept(jobs[i]) ELSE jobs[i]]

Write(j, o, kind, cp) ==
    jobs' = IF Holds(jobs[j], o) THEN [jobs EXCEPT ![j] = Written(jobs[j], kind, cp)] ELSE jobs

\* Time passes for one row.
LeaseLapses(j) == jobs[j].live /\ jobs' = [jobs EXCEPT ![j].live = FALSE]

BecomesAvailable(j) ==
    /\ ~jobs[j].available
    /\ jobs[j].state \in {"queued", "retry"}
    /\ jobs' = [jobs EXCEPT ![j].available = TRUE]
===============================================================================
