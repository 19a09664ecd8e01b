------------------------------- MODULE BankQueue -------------------------------
(***************************************************************************)
(* The queue that prepares bank Call Reports.  Readers ask for a bank;     *)
(* workers, one at a time under a lease, refresh the directory of filings, *)
(* claim the jobs of single quarters, download what was filed, retain it   *)
(* and publish the validated report.  Their calls may go unheard, be lost  *)
(* or be served late; they may be killed or overrun their lease.           *)
(*                                                                         *)
(* A version stands for the time of a submission and for its bytes, which  *)
(* is what the hash of a report identifies.  Versions only grow.           *)
(***************************************************************************)
EXTENDS Integers, FiniteSets, FiniteSetsExt

CONSTANTS
    Banks, Periods,        \* the later period is the greater number
    Form031,               \* the banks that file form 031
    Windows,               \* which of them the service may list as its latest
    MaxVersion, Verdicts,  \* what parsing and validation, as they evolve, say of a version
    Workers,
    Owners, NoOwner, NoQuarter,
    MaxAttempts,
    MaxTries,              \* times that the client asks the source for one answer
    MaxPending,            \* banks that may be pending when a reader asks
    MaxRefresh,            \* reports that one begin reprocesses
    MaxFaults, MaxWire     \* bounds: faults in all, and late calls at once

Quarters == Banks \X Periods
Versions == 1 .. MaxVersion

ASSUME BankAssumption ==
    /\ Periods \subseteq Nat /\ Form031 \subseteq Banks
    /\ Windows # {} /\ Windows \subseteq SUBSET Periods
    /\ MaxVersion \in Nat \ {0} /\ Verdicts \in [Versions -> SUBSET {"passed", "failed", "unreadable"}]
    /\ NoOwner \notin Owners /\ NoQuarter \notin Quarters
    /\ MaxAttempts \in Nat \ {0} /\ MaxTries \in Nat \ {0} /\ MaxPending \in Nat /\ MaxRefresh \in Nat
    /\ MaxFaults \in Nat /\ MaxWire \in Nat

VARIABLES
    filed,     \* the version of each quarter at the source; 0: not filed
    control,   \* the row that serialises the workers
    retained,  \* the periods of the catalog
    panel,     \* the directory's entry of each quarter
    wanted,    \* the banks that were asked for in the last 30 days
    job, reports,
    worker, wire, faults

storeVars == <<control, retained, panel, wanted, job, reports>>
vars == <<filed, storeVars, worker, wire, faults>>

Pending == {"queued", "retry", "running"}
States == Pending \cup {"absent", "ready", "review", "unavailable"}
Job == [state: States, owner: Owners \cup {NoOwner}, desired: 0 .. MaxVersion,
        attempts: 0 .. MaxAttempts,   \* further ones are not told apart
        due: BOOLEAN]                 \* the attempts and times of settled jobs are not either
Absent == [state |-> "absent", owner |-> NoOwner, desired |-> 0, attempts |-> 0, due |-> TRUE]

\* A stored version: whether it has metrics, the submission it is filed under,
\* and whether an older mapping made it.
Report == [kept: BOOLEAN, metrics: BOOLEAN, passed: BOOLEAN, of: 0 .. MaxVersion, old: BOOLEAN]
NoReport == [kept |-> FALSE, metrics |-> FALSE, passed |-> FALSE, of |-> 0, old |-> FALSE]

Unlisted == -1
Entries == UNION {[Q -> 0 .. MaxVersion] : Q \in SUBSET Quarters}
\* quota: a failure that names the time of the next request.
Transient == {"transient", "quota"}
Failures == Transient \cup {"not_filed", "invalid"}
Call == [op: {"begin", "cooldown", "finish"}, owner: Owners]
        \cup [op: {"periods"}, owner: Owners, list: Windows]
        \cup [op: {"catalog"}, owner: Owners, entries: Entries]
        \cup [op: {"claim"}, owner: Owners, q: Quarters]
        \cup [op: {"retain"}, owner: Owners, q: Quarters, label: 0 .. MaxVersion, version: Versions]
        \cup [op: {"publish"}, owner: Owners, q: Quarters, label: 0 .. MaxVersion, version: Versions,
              passed: BOOLEAN]
        \cup [op: {"error"}, owner: Owners, q: Quarters, failure: Failures]

Places == {"idle", "begun", "listing", "catalog", "preparing", "claimed", "fetching", "limited",
           "retaining", "parsing", "failing", "cooling", "finishing"}
Worker == [at: Places, owner: Owners \cup {NoOwner},
           checked: SUBSET Periods, entries: Entries,
           q: Quarters \cup {NoQuarter}, label: 0 .. MaxVersion, version: 0 .. MaxVersion,
           failure: Failures \cup {"none"},
           tries: 0 .. MaxTries]   \* earlier ones of the request that it makes
NoEntries == [q \in {} |-> 0]
Idle == [at |-> "idle", owner |-> NoOwner, checked |-> {}, entries |-> NoEntries,
         q |-> NoQuarter, label |-> 0, version |-> 0, failure |-> "none", tries |-> 0]

TypeOK ==
    /\ filed \in [Quarters -> 0 .. MaxVersion]
    /\ control \in [owner: Owners \cup {NoOwner}, live: BOOLEAN, cooling: BOOLEAN]
    /\ retained \subseteq Periods
    /\ panel \in [Quarters -> Unlisted .. MaxVersion]
    /\ wanted \subseteq Banks
    /\ job \in [Quarters -> Job]
    /\ \A q \in Quarters : job[q].state = "running" => job[q].owner # NoOwner
    /\ reports \in [Quarters -> [Versions -> Report]]
    /\ worker \in [Workers -> Worker]
    /\ wire \subseteq Call
    /\ faults \in 0 .. MaxFaults

\* The store may hold validated reports that an older mapping made.
Init ==
    /\ filed \in [Quarters -> 0 .. 1]
    /\ control = [owner |-> NoOwner, live |-> FALSE, cooling |-> FALSE]
    /\ retained \in Windows
    /\ wanted \in {{}, Banks}
    /\ \/ /\ panel = [q \in Quarters |-> Unlisted]
          /\ job = [q \in Quarters |-> Absent]
          /\ reports = [q \in Quarters |-> [n \in Versions |-> NoReport]]
       \/ /\ panel = filed
          /\ job = [q \in Quarters |->
                IF filed[q] = 0 THEN [Absent EXCEPT !.state = "unavailable"]
                ELSE [Absent EXCEPT !.state = "ready", !.desired = 1]]
          /\ reports = [q \in Quarters |-> [n \in Versions |->
                IF n = filed[q] THEN [kept |-> TRUE, metrics |-> TRUE, passed |-> TRUE, of |-> n, old |-> TRUE]
                ELSE NoReport]]
    /\ worker = [w \in Workers |-> Idle]
    /\ wire = {}
    /\ faults = 0

-------------------------------------------------------------------------------
(* The store.                                                                *)

Kept(q) == {n \in Versions : reports[q][n].kept}

\* The job that a panel entry asks for.
Asked(q, entry) ==
    [Absent EXCEPT !.state = IF entry > 0 THEN "queued" ELSE "unavailable",
                   !.desired = entry]

Settled(row, state) == [row EXCEPT !.state = state, !.attempts = 0, !.due = TRUE]

PendingBanks == {b \in Banks : \E p \in Periods : job[b, p].state \in Pending}

\* request: a listed bank is wanted; the quarters that have no job get one while
\* there is room.
ServeRequest(b) ==
    LET missing == {q \in Quarters : q[1] = b /\ q[2] \in retained /\ panel[q] # Unlisted
                                     /\ job[q].state = "absent"}
    IN  /\ \E p \in Periods : panel[b, p] # Unlisted
        /\ missing = {} \/ Cardinality(PendingBanks) < MaxPending
        /\ wanted' = wanted \cup {b}
        /\ job' = [q \in Quarters |-> IF q \in missing THEN Asked(q, panel[q]) ELSE job[q]]
        /\ UNCHANGED <<control, retained, panel, reports>>

\* Mutant: begin leaves the jobs of a dead worker to it.
KeepRunning(row) == row

\* Mutant: the owner is taken from the job, its state stays.
OnlyDisowned(row) == [row EXCEPT !.owner = NoOwner]

\* A job that was running goes back to the queue.
Recovered(row) ==
    IF row.state = "running" THEN [row EXCEPT !.state = "retry", !.owner = NoOwner, !.due = TRUE]
    ELSE row

\* Settled jobs whose latest version has metrics of an older mapping.
Outdated ==
    {q \in Quarters :
        /\ q[1] \in Form031 /\ q[2] \in retained
        /\ job[q].state \in {"ready", "review", "unavailable"}
        /\ Kept(q) # {}
        /\ LET latest == reports[q][Max(Kept(q))]
           IN  latest.old /\ latest.metrics /\ job[q].desired = latest.of}

\* begin: the lease is free and no cooldown is on; what was running is retried,
\* and some outdated reports are processed again.
ServeBegin(o) ==
    \/ /\ ~control.live /\ ~control.cooling
       /\ control' = [control EXCEPT !.owner = o, !.live = TRUE]
       /\ \E C \in SUBSET Outdated :
            /\ C = Outdated \/ Cardinality(C) = MaxRefresh
            /\ Cardinality(C) <= MaxRefresh
            /\ job' = [q \in Quarters |->
                  IF q \in C THEN [job[q] EXCEPT !.state = "queued", !.attempts = 0, !.due = TRUE]
                  ELSE Recovered(job[q])]
       /\ UNCHANGED <<retained, panel, wanted, reports>>
    \/ (control.live \/ control.cooling) /\ UNCHANGED storeVars

\* The fence of every other call.
Owns(o) == control.owner = o /\ control.live

\* Mutant: a new submission does not reopen the job.
RelabelOnly(q, entry) == [job[q] EXCEPT !.desired = entry]

\* A new submission, or a first one, starts the job over.
Reopened(q, entry) ==
    [job[q] EXCEPT !.state = Asked(q, entry).state, !.desired = entry, !.attempts = 0, !.due = TRUE]

\* catalog: entries of one period; the jobs of wanted banks follow all its entries.
ServeCatalog(m) ==
    LET periods == {q[2] : q \in DOMAIN m.entries}
        listed == [q \in Quarters |-> IF q \in DOMAIN m.entries THEN m.entries[q] ELSE panel[q]]
        follow == {q \in Quarters : q[2] \in periods /\ q[1] \in wanted /\ listed[q] # Unlisted}
        changed(q) == \/ job[q].desired # listed[q]
                      \/ job[q].state = "unavailable" /\ listed[q] > 0
    IN  /\ periods \subseteq retained
        /\ panel' = listed
        /\ job' = [q \in Quarters |->
              IF q \notin follow THEN job[q]
              ELSE IF job[q].state = "absent" THEN Asked(q, listed[q])
              ELSE IF changed(q) THEN Reopened(q, listed[q]) ELSE job[q]]
        /\ UNCHANGED <<control, retained, wanted, reports>>

\* claim: a due job of the latest retained period.
Claimable == {q \in Quarters : job[q].state \in {"queued", "retry"} /\ job[q].due /\ q[2] \in retained}
ServeClaim(m) ==
    /\ m.q \in Claimable /\ \A q \in Claimable : q[2] <= m.q[2]
    /\ job' = [job EXCEPT ![m.q].state = "running", ![m.q].owner = m.owner,
                          ![m.q].attempts = IF @ < MaxAttempts THEN @ + 1 ELSE @]
    /\ UNCHANGED <<control, retained, panel, wanted, reports>>

Runs(m) == job[m.q].state = "running" /\ job[m.q].owner = m.owner /\ job[m.q].desired = m.label

\* The source is retained before it is parsed; a validated report stays as it is.
Retained(row, label) ==
    IF row.passed THEN row
    ELSE [row EXCEPT !.kept = TRUE, !.of = label, !.old = FALSE]

ServeRetain(m) ==
    /\ Runs(m)
    /\ reports' = [reports EXCEPT ![m.q][m.version] = Retained(@, m.label)]
    /\ UNCHANGED <<control, retained, panel, wanted, job>>

ServePublish(m) ==
    /\ Runs(m)
    /\ reports' = [reports EXCEPT ![m.q][m.version] =
          [kept |-> TRUE, metrics |-> TRUE, passed |-> m.passed, of |-> m.label, old |-> FALSE]]
    /\ job' = [job EXCEPT ![m.q] =
          Settled([@ EXCEPT !.owner = NoOwner], IF m.passed THEN "ready" ELSE "review")]
    /\ UNCHANGED <<control, retained, panel, wanted>>

\* job_error: transient failures are retried while attempts are left.
ServeError(m) ==
    /\ \/ /\ job[m.q].owner = m.owner
          /\ LET row == [job[m.q] EXCEPT !.owner = NoOwner] IN
             job' = [job EXCEPT ![m.q] =
                IF m.failure \in Transient /\ row.attempts < MaxAttempts
                THEN [row EXCEPT !.state = "retry", !.due = FALSE]
                ELSE Settled(row, IF m.failure = "not_filed" THEN "unavailable" ELSE "review")]
       \/ job[m.q].owner # m.owner /\ UNCHANGED job
    /\ UNCHANGED <<control, retained, panel, wanted, reports>>

ServeFinish(o) ==
    /\ control' = [control EXCEPT !.owner = NoOwner, !.live = FALSE]
    /\ job' = [q \in Quarters |->
          IF job[q].owner = o /\ job[q].state = "running"
          THEN [job[q] EXCEPT !.state = "retry", !.owner = NoOwner, !.due = FALSE]
          ELSE job[q]]
    /\ UNCHANGED <<retained, panel, wanted, reports>>

\* What the store does for a call; begin needs no lease.
Accepted(m) ==
    \/ m.op = "begin" /\ ServeBegin(m.owner)
    \/ /\ Owns(m.owner)
       /\ \/ m.op = "periods" /\ retained' = m.list /\ UNCHANGED <<control, panel, wanted, job, reports>>
          \/ m.op = "catalog" /\ ServeCatalog(m)
          \/ m.op = "claim" /\ ServeClaim(m)
          \/ m.op = "retain" /\ ServeRetain(m)
          \/ m.op = "publish" /\ ServePublish(m)
          \/ m.op = "error" /\ ServeError(m)
          \/ m.op = "finish" /\ ServeFinish(m.owner)
          \/ /\ m.op = "cooldown" /\ control' = [control EXCEPT !.cooling = TRUE]
             /\ UNCHANGED <<retained, panel, wanted, job, reports>>

Refused(m) ==
    \/ ~Owns(m.owner)
    \/ m.op \in {"retain", "publish"} /\ ~Runs(m)
    \/ m.op = "catalog" /\ \E q \in DOMAIN m.entries : q[2] \notin retained

-------------------------------------------------------------------------------
(* One run of a worker.                                                      *)

Becomes(w, row) == worker' = [worker EXCEPT ![w] = row]
Fault == faults < MaxFaults /\ faults' = faults + 1

\* A call is served and heard, or it fails: refused, served unheard, or given up
\* while it may still be served.
Calls(w, m, heard, failed) ==
    \/ Accepted(m) /\ Becomes(w, heard) /\ UNCHANGED <<filed, wire, faults>>
    \/ Refused(m) /\ Becomes(w, failed) /\ UNCHANGED <<filed, storeVars, wire, faults>>
    \/ /\ Fault /\ Becomes(w, failed) /\ UNCHANGED filed
       /\ \/ Accepted(m) /\ UNCHANGED wire
          \/ /\ Cardinality(wire) < MaxWire /\ wire' = wire \cup {m}
             /\ UNCHANGED storeVars

\* A step of the worker alone.
Moves(w, row) == Becomes(w, row) /\ UNCHANGED <<filed, storeVars, wire, faults>>
Stumbles(w, row) == Fault /\ Becomes(w, row) /\ UNCHANGED <<filed, storeVars, wire>>

At(w, place) == [worker[w] EXCEPT !.at = place, !.tries = 0]
Failing(w, failure) == [At(w, "failing") EXCEPT !.failure = failure]
\* Between jobs.
Free(w, place) == [Idle EXCEPT !.at = place, !.owner = worker[w].owner]
\* The ids are interchangeable.
InUse(o) ==
    \/ control.owner = o
    \/ \E q \in Quarters : job[q].owner = o
    \/ \E w \in Workers : worker[w].owner = o
    \/ \E m \in wire : m.owner = o
Unused == {o \in Owners : ~InUse(o)}
Fresh == CHOOSE o \in Unused : TRUE

\* Without the lease, or an answer, the run is over.
Begin(w) ==
    /\ worker[w].at = "idle" /\ Unused # {}
    /\ LET m == [op |-> "begin", owner |-> Fresh] IN
       \/ /\ ~control.live /\ ~control.cooling
          /\ Calls(w, m, [Idle EXCEPT !.at = "begun", !.owner = Fresh], Idle)
       \/ /\ Fault /\ Cardinality(wire) < MaxWire /\ wire' = wire \cup {m}
          /\ UNCHANGED <<filed, storeVars, worker>>

\* Without the lease a request is refused; while it cools down the queue makes none.
Waits(w) == Owns(worker[w].owner) /\ control.cooling

\* The scheduled run refreshes the directory first, its periods when they are old.
SavePeriods(w) ==
    /\ worker[w].at = "begun"
    /\ \/ worker[w].tries = 0 /\ Moves(w, At(w, "listing"))
       \/ ~Waits(w) /\ \E W \in Windows :
            Calls(w, [op |-> "periods", owner |-> worker[w].owner, list |-> W],
                  At(w, "listing"), Free(w, "finishing"))
       \/ \E place \in {"cooling", "finishing"} : Stumbles(w, Free(w, place))

\* The source lists what each bank has filed for a period by now.
FetchPanel(w) ==
    /\ worker[w].at = "listing"
    /\ \E p \in retained \ worker[w].checked :
         \/ /\ Owns(worker[w].owner) /\ ~Waits(w)
            /\ Moves(w, [At(w, "catalog") EXCEPT !.checked = @ \cup {p},
                            !.entries = [q \in Banks \X {p} |-> filed[q]]])
         \/ ~Owns(worker[w].owner) /\ Moves(w, Free(w, "finishing"))
         \/ \E place \in {"cooling", "finishing"} : Stumbles(w, Free(w, place))

\* The entries are sent in chunks.
SaveCatalog(w) ==
    /\ worker[w].at = "catalog"
    /\ \E Q \in (SUBSET DOMAIN worker[w].entries) \ {{}} :
         LET rest == DOMAIN worker[w].entries \ Q
             part(R) == [q \in R |-> worker[w].entries[q]]
         IN  Calls(w, [op |-> "catalog", owner |-> worker[w].owner, entries |-> part(Q)],
                   [worker[w] EXCEPT !.entries = part(rest),
                                     !.at = IF rest = {} THEN "listing" ELSE "catalog"],
                   Free(w, "finishing"))

\* The next job, with the submission it wants; none is left, or the call fails.
Claim(w) ==
    /\ worker[w].at \in {"begun", "listing", "preparing"} /\ worker[w].tries = 0
    /\ \/ \E q \in Quarters :
            Calls(w, [op |-> "claim", owner |-> worker[w].owner, q |-> q],
                  [Free(w, "claimed") EXCEPT !.q = q, !.label = job[q].desired],
                  Free(w, "finishing"))
       \/ Claimable = {} /\ Moves(w, Free(w, "finishing"))

\* Mutant: any retained source of the quarter will do.
AnySource(q, label) == Kept(q)

\* The retained sources of a submission.
Saved(q, label) == {n \in Kept(q) : reports[q][n].of = label}

\* The latest retained source of the wanted submission is used again.
ReadSource(w) ==
    LET saved == Saved(worker[w].q, worker[w].label) IN
    /\ worker[w].at = "claimed"
    /\ \/ saved # {} /\ Moves(w, [At(w, "parsing") EXCEPT !.version = Max(saved)])
       \/ saved = {} /\ Moves(w, At(w, "fetching"))
       \/ Stumbles(w, Failing(w, "transient"))

\* The source gives the latest version, which may be newer than what was asked.
\* That it has not what it listed is a fault.  A request that is put off for long, or
\* whose token is out of date, fails with the time of the next.
Fetch(w) ==
    /\ worker[w].at = "fetching"
    /\ \/ Moves(w, Failing(w, "transient"))
       \/ /\ Owns(worker[w].owner)
          /\ Moves(w, Failing(w, "quota"))
       \/ /\ Owns(worker[w].owner) /\ ~Waits(w)
          /\ \/ Moves(w, [At(w, "retaining") EXCEPT !.version = filed[worker[w].q]])
             \/ Moves(w, At(w, "limited"))
             \/ Moves(w, Failing(w, "invalid"))
             \/ Stumbles(w, Failing(w, "not_filed"))

\* The cooldowns that the client asks for: after the limit of the source, and when
\* the source is out of order, before the client tries again.
Asking(w) ==
    \/ worker[w].at \in {"begun", "fetching"}
    \/ worker[w].at = "listing" /\ retained \ worker[w].checked # {}

CoolDown(w) ==
    LET m == [op |-> "cooldown", owner |-> worker[w].owner] IN
    \/ worker[w].at = "limited" /\ Calls(w, m, Failing(w, "quota"), Failing(w, "transient"))
    \/ /\ Asking(w) /\ Owns(worker[w].owner) /\ ~Waits(w)
       /\ worker[w].tries + 1 < MaxTries
       /\ Calls(w, m, [worker[w] EXCEPT !.tries = @ + 1],
                IF worker[w].at = "fetching" THEN Failing(w, "transient") ELSE Free(w, "finishing"))

\* The worker's own cooldown, after what names the time of the next request.
Cool(w) ==
    /\ worker[w].at = "cooling"
    /\ Calls(w, [op |-> "cooldown", owner |-> worker[w].owner],
             Free(w, "finishing"), Free(w, "finishing"))

Retain(w) ==
    /\ worker[w].at = "retaining"
    /\ Calls(w, [op |-> "retain", owner |-> worker[w].owner, q |-> worker[w].q,
                 label |-> worker[w].label, version |-> worker[w].version],
             At(w, "parsing"), Failing(w, "transient"))

Publish(w) ==
    /\ worker[w].at = "parsing"
    /\ \E v \in Verdicts[worker[w].version] :
         \/ v = "unreadable" /\ Moves(w, Failing(w, "invalid"))
         \/ /\ v # "unreadable"
            /\ Calls(w, [op |-> "publish", owner |-> worker[w].owner, q |-> worker[w].q,
                         label |-> worker[w].label, version |-> worker[w].version,
                         passed |-> v = "passed"],
                     Free(w, "preparing"), Failing(w, "transient"))

\* A transient failure ends the run.
ReportError(w) ==
    LET f == worker[w].failure IN
    /\ worker[w].at = "failing"
    /\ Calls(w, [op |-> "error", owner |-> worker[w].owner, q |-> worker[w].q, failure |-> f],
             Free(w, IF f = "quota" THEN "cooling" ELSE IF f \in Transient THEN "finishing" ELSE "preparing"),
             Free(w, "finishing"))

\* Out of time: between jobs always, during the directory only by bad luck.
Leave(w) ==
    \/ worker[w].at = "preparing" /\ Moves(w, Free(w, "finishing"))
    \/ worker[w].at \in {"begun", "listing", "catalog"}
       /\ Stumbles(w, Free(w, "finishing"))

\* The run is over whatever becomes of the call.
Finish(w) ==
    /\ worker[w].at = "finishing"
    /\ Calls(w, [op |-> "finish", owner |-> worker[w].owner], Idle, Idle)

Kill(w) == worker[w].at # "idle" /\ Stumbles(w, Idle)

Step(w) ==
    \/ Begin(w) \/ SavePeriods(w) \/ FetchPanel(w) \/ SaveCatalog(w) \/ Claim(w)
    \/ ReadSource(w) \/ Fetch(w) \/ CoolDown(w) \/ Cool(w) \/ Retain(w)
    \/ Publish(w) \/ ReportError(w) \/ Leave(w) \/ Finish(w)

-------------------------------------------------------------------------------
(* Calls given up, readers, the source and time.                             *)

\* A call that was given up is served after all, or never.
Late(m) ==
    /\ wire' = wire \ {m}
    /\ Accepted(m) \/ UNCHANGED storeVars
    /\ UNCHANGED <<filed, worker, faults>>

Request(b) ==
    /\ ServeRequest(b)
    /\ UNCHANGED <<filed, worker, wire, faults>>

\* Nobody has asked for the bank in 30 days.
Forget(b) ==
    /\ wanted' = wanted \ {b}
    /\ UNCHANGED <<filed, control, retained, panel, job, reports, worker, wire, faults>>

\* A bank files, or files again.
File(q) ==
    /\ filed[q] < MaxVersion
    /\ filed' = [filed EXCEPT ![q] = @ + 1]
    /\ UNCHANGED <<storeVars, worker, wire, faults>>

Due(q) ==
    /\ ~job[q].due
    /\ job' = [job EXCEPT ![q].due = TRUE]
    /\ UNCHANGED <<filed, control, retained, panel, wanted, reports, worker, wire, faults>>

CoolOff ==
    /\ control.cooling
    /\ control' = [control EXCEPT !.cooling = FALSE]
    /\ UNCHANGED <<filed, retained, panel, wanted, job, reports, worker, wire, faults>>

\* The lease outlives the time a run may take: only a stalled worker loses it.
Held == \E w \in Workers : worker[w].owner = control.owner
Lapse ==
    /\ control.live
    /\ control' = [control EXCEPT !.live = FALSE]
    /\ UNCHANGED <<filed, retained, panel, wanted, job, reports, worker, wire>>
Expire == ~Held /\ Lapse /\ UNCHANGED faults
Overrun == Held /\ Lapse /\ Fault

Next ==
    \/ \E w \in Workers : Step(w) \/ Kill(w)
    \/ \E m \in wire : Late(m)
    \/ \E b \in Banks : Request(b) \/ Forget(b)
    \/ \E q \in Quarters : File(q) \/ Due(q)
    \/ CoolOff \/ Expire \/ Overrun

\* Runs are scheduled again and again and take their steps; leases, retry times and
\* cooldowns pass.
Fairness ==
    /\ \A w \in Workers : WF_vars(Step(w))
    /\ \A q \in Quarters : WF_vars(Due(q))
    /\ WF_vars(CoolOff) /\ WF_vars(Expire)

Spec == Init /\ [][Next]_vars /\ Fairness

-------------------------------------------------------------------------------
(* What the queue promises.                                                  *)

\* The version that readers are shown of a quarter: the latest validated one, or
\* the latest.
Shown(q) ==
    LET valid == {n \in Kept(q) : reports[q][n].passed}
    IN  Max(IF valid # {} THEN valid ELSE Kept(q))

\* A quarter is ready only if what readers are shown of it is validated, filed
\* under the latest submission that the directory told the job of, and no older
\* than it: amended filings, late calls and retained sources never leave an older
\* report behind.
ReadyMeansShown ==
    \A q \in Quarters : job[q].state = "ready" =>
        /\ Kept(q) # {} /\ Shown(q) >= job[q].desired
        /\ LET report == reports[q][Shown(q)]
           IN  report.passed /\ report.of = job[q].desired

\* A quarter that was asked for is settled: prepared, left to review or found
\* unavailable, unless the catalog drops its period, whatever happens to workers.
EveryQuarterSettles ==
    \A q \in Quarters :
        job[q].state \in Pending ~> (job[q].state \notin Pending \/ q[2] \notin retained)
===============================================================================
