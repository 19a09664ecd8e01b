--------------------------- MODULE BankQueue_proofs ---------------------------
(***************************************************************************)
(* What holds of the bank queue for every set of banks, periods, workers   *)
(* and owners, every mapping and every bound: its types, and that a ready  *)
(* quarter shows the report of the submission that it wants.               *)
(*                                                                         *)
(* That is not inductive.  QInv adds where versions come from: what a      *)
(* worker holds, or a call under way carries, was filed no earlier than    *)
(* the submission that it is filed under and after whatever is kept of an  *)
(* earlier one.  This lasts because the submission that a job wants never  *)
(* goes back to an earlier one, and it does not go back because only the   *)
(* owner of the lease tells the directory of filings, each of its entries  *)
(* once, and it was asked for under that lease.                            *)
(***************************************************************************)
EXTENDS BankQueue, WellFoundedInduction, TLAPS

USE DEF Versions
-------------------------------------------------------------------------------
(* The invariant.                                                            *)

\* A row: who owns it is at work on it, and what it wants was listed, which was
\* filed.
RowOK(q) ==
    /\ panel[q] <= filed[q]
    /\ job[q].state # "absent" => job[q].desired <= panel[q]
    /\ job[q].state = "absent" => job[q].desired = 0
    /\ job[q].state \notin {"absent", "unavailable"} => job[q].desired > 0
    /\ job[q].owner # NoOwner => job[q].state \in {"queued", "running"}

\* What is kept was filed no earlier than the submission it is filed under, and
\* the versions are in the order of their submissions.
KeptOK(q) ==
    /\ \A n \in Versions : reports[q][n].passed => reports[q][n].kept
    /\ \A n \in Kept(q) :
         /\ reports[q][n].of > 0 /\ reports[q][n].of <= n
         /\ n <= filed[q] /\ reports[q][n].of <= job[q].desired
    /\ \A n, k \in Kept(q) : reports[q][n].of < reports[q][k].of => n < k

\* A submission that the job has wanted.
Wanted(q, label) == 0 < label /\ label <= job[q].desired

\* A version that may be filed under that submission.
Fits(q, label, version) ==
    /\ label <= version /\ version <= filed[q]
    /\ label = job[q].desired =>
          \A n \in Kept(q) : reports[q][n].of < label => n <= version

\* Entries that an owner sends or is about to send.
Current(owner, entries) ==
    \A q \in DOMAIN entries :
        entries[q] <= filed[q] /\ (Owns(owner) => panel[q] <= entries[q])

WithJob == {"claimed", "fetching", "limited", "retaining", "parsing", "failing"}
WorkerOK(w) ==
    /\ worker[w].at = "idle" <=> worker[w].owner = NoOwner
    /\ worker[w].at \in WithJob =>
          worker[w].q # NoQuarter /\ Wanted(worker[w].q, worker[w].label)
    /\ worker[w].at \in {"retaining", "parsing"} =>
          Fits(worker[w].q, worker[w].label, worker[w].version)
    /\ worker[w].at = "failing" => worker[w].failure # "none"
    /\ worker[w].at # "catalog" => DOMAIN worker[w].entries = {}
    /\ Current(worker[w].owner, worker[w].entries)

MessageOK(m) ==
    /\ m.op \in {"retain", "publish"} => Wanted(m.q, m.label) /\ Fits(m.q, m.label, m.version)
    /\ m.op = "catalog" => Current(m.owner, m.entries)

\* The workers and calls of one owner: it has one worker, whose first call is begin
\* and which sends no entries after those that it gave up.
Sessions ==
    /\ \A v, w \in Workers : worker[v].owner = worker[w].owner /\ worker[w].owner # NoOwner => v = w
    /\ \A m \in wire : m.op = "begin" =>
          /\ \A w \in Workers : worker[w].owner # m.owner
          /\ \A c \in wire : c.owner = m.owner => c.op = "begin"
    /\ \A m \in wire : m.op = "catalog" =>
          /\ \A w \in Workers : worker[w].owner = m.owner => worker[w].at = "finishing"
          /\ \A c \in wire : c.owner = m.owner /\ c.op = "catalog" => c = m

QInv ==
    /\ TypeOK
    /\ \A q \in Quarters : RowOK(q) /\ KeptOK(q)
    /\ \A w \in Workers : WorkerOK(w)
    /\ \A m \in wire : MessageOK(m)
    /\ Sessions
    /\ ReadyMeansShown
-------------------------------------------------------------------------------
(* Sets of versions, calls and rows.                                         *)

\* A set of versions that is not empty has a latest one, and Max is it.
LEMMA MaxIsLatest ==
    ASSUME NEW S, S \subseteq Versions, S # {}
    PROVE  Max(S) \in S /\ \A n \in S : n <= Max(S)
<1> DEFINE below == {MaxVersion - n : n \in S}
<1> DEFINE less == {p \in Nat \X Nat : p[1] < p[2]}
<1>1. MaxVersion \in Nat
  BY BankAssumption DEF BankAssumption
<1>2. \A n \in S : n \in 1 .. MaxVersion /\ MaxVersion - n \in Nat
  BY <1>1
<1>3. below \subseteq Nat /\ below # {}
  BY <1>2
<1>4. IsWellFoundedOn(less, Nat)
  BY NatLessThanWellFounded DEF OpToRel
<1>5. PICK least \in below : \A d \in below : <<d, least>> \notin less
  <2> HIDE DEF below, less
  <2> QED
    BY <1>3, <1>4, WFMin
<1>6. \A d \in below : least <= d
  <2> TAKE d \in below
  <2>1. d \in Nat /\ least \in Nat /\ (d < least => <<d, least>> \in less)
    BY <1>3, <1>5
  <2>2. ~ (d < least)
    BY <1>5, <2>1
  <2> QED
    BY <2>1, <2>2
<1>7. PICK n \in S : least = MaxVersion - n
  BY <1>5
<1>8. \A k \in S : k <= n
  <2> TAKE k \in S
  <2>1. least <= MaxVersion - k
    BY <1>6
  <2> QED
    BY <1>1, <1>2, <1>7, <2>1
<1> QED
  BY <1>8 DEF Max

\* What a call carries.
LEMMA CallFields ==
    ASSUME NEW m \in Call
    PROVE  /\ m.owner \in Owners
           /\ m.op \in {"begin", "cooldown", "finish", "periods", "catalog", "claim", "retain",
                        "publish", "error"}
           /\ m.op = "periods" => m.list \in Windows
           /\ m.op = "catalog" => m.entries \in Entries
           /\ m.op \in {"claim", "retain", "publish", "error"} => m.q \in Quarters
           /\ m.op \in {"retain", "publish"} =>
                 m.label \in 0 .. MaxVersion /\ m.version \in Versions
           /\ m.op = "publish" => m.passed \in BOOLEAN
<1>1. CASE m \in [op: {"begin", "cooldown", "finish"}, owner: Owners]
  BY <1>1
<1>2. CASE m \in [op: {"periods"}, owner: Owners, list: Windows]
  BY <1>2
<1>3. CASE m \in [op: {"catalog"}, owner: Owners, entries: Entries]
  BY <1>3
<1>4. CASE m \in [op: {"claim"}, owner: Owners, q: Quarters]
  BY <1>4
<1>5. CASE m \in [op: {"retain"}, owner: Owners, q: Quarters, label: 0 .. MaxVersion,
                 version: Versions]
  BY <1>5
<1>6. CASE m \in [op: {"publish"}, owner: Owners, q: Quarters, label: 0 .. MaxVersion,
                 version: Versions, passed: BOOLEAN]
  BY <1>6
<1>7. CASE m \in [op: {"error"}, owner: Owners, q: Quarters, failure: Failures]
  BY <1>7
<1> QED
  BY <1>1, <1>2, <1>3, <1>4, <1>5, <1>6, <1>7 DEF Call

\* The fields of a row of the queue.
LEMMA JobFields ==
    ASSUME NEW r \in Job
    PROVE  /\ r.state \in States /\ r.owner \in Owners \cup {NoOwner}
           /\ r.desired \in 0 .. MaxVersion /\ r.attempts \in 0 .. MaxAttempts
           /\ r.due \in BOOLEAN
BY DEF Job

\* The row of an entry that nothing was done for yet.
LEMMA AskedRow ==
    ASSUME NEW q, NEW entry \in 0 .. MaxVersion
    PROVE  /\ Asked(q, entry) \in Job
           /\ Asked(q, entry).state = IF entry > 0 THEN "queued" ELSE "unavailable"
           /\ Asked(q, entry).desired = entry /\ Asked(q, entry).owner = NoOwner
<1>1. /\ MaxAttempts \in Nat /\ MaxVersion \in Nat
      /\ Absent \in Job
  BY BankAssumption DEF BankAssumption, Absent, Job, States
<1> DEFINE state == IF entry > 0 THEN "queued" ELSE "unavailable"
<1>2. state \in States
  BY DEF States, Pending
<1> QED
  BY <1>1, <1>2 DEF Asked, Absent, Job
-------------------------------------------------------------------------------
(* Steps of the store.                                                       *)

StoreTyped ==
    /\ filed \in [Quarters -> 0 .. MaxVersion]
    /\ control \in [owner: Owners \cup {NoOwner}, live: BOOLEAN, cooling: BOOLEAN]
    /\ retained \subseteq Periods
    /\ panel \in [Quarters -> Unlisted .. MaxVersion]
    /\ wanted \subseteq Banks
    /\ job \in [Quarters -> Job]
    /\ \A q \in Quarters : job[q].state = "running" => job[q].owner # NoOwner
    /\ reports \in [Quarters -> [Versions -> Report]]

\* The store goes on: it stays sound, no filing and no wish is taken back, and
\* nothing new is kept of a submission before the one that a job wants.
GoesOn ==
    /\ StoreTyped'
    /\ \A q \in Quarters : RowOK(q)' /\ KeptOK(q)'
    /\ ReadyMeansShown'
    /\ \A q \in Quarters : filed[q] <= filed'[q] /\ job[q].desired <= job'[q].desired
    /\ \A q \in Quarters, n \in Versions :
         /\ job'[q].desired = job[q].desired
         /\ reports'[q][n].kept /\ reports'[q][n].of < job[q].desired
         => reports[q][n].kept /\ reports[q][n].of < job[q].desired

\* Nothing that this owner may tell the directory was overtaken.
Quiet(o) == control'.owner = o /\ control'.live => Owns(o) /\ panel' = panel

\* A step of one row that reports nothing.
RowGoesOn(q) ==
    /\ job'[q] \in Job
    /\ job'[q].state = "running" => job'[q].owner # NoOwner
    /\ RowOK(q)'
    /\ job[q].desired <= job'[q].desired
    /\ job'[q].state = "ready" => job[q].state = "ready" /\ job'[q].desired = job[q].desired

\* The fields of the store's rows.
LEMMA StoreFields ==
    ASSUME StoreTyped, NEW q \in Quarters
    PROVE  /\ filed[q] \in 0 .. MaxVersion /\ panel[q] \in Unlisted .. MaxVersion
           /\ MaxVersion \in Nat
           /\ job[q] \in Job /\ job[q].desired \in 0 .. MaxVersion /\ job[q].state \in States
           /\ job[q].owner \in Owners \cup {NoOwner}
           /\ \A n \in Versions : /\ reports[q][n] \in Report
                                  /\ reports[q][n].of \in 0 .. MaxVersion
                                  /\ reports[q][n].kept \in BOOLEAN
                                  /\ reports[q][n].passed \in BOOLEAN
           /\ Kept(q) \subseteq Versions
<1>1. job[q] \in Job /\ \A n \in Versions : reports[q][n] \in Report
  BY DEF StoreTyped
<1>2. MaxVersion \in Nat
  BY BankAssumption DEF BankAssumption
<1> QED
  BY <1>1, <1>2, JobFields DEF StoreTyped, Report, Kept

\* The steps of rows make a step of the store.
LEMMA RowsGoOn ==
    ASSUME QInv, UNCHANGED <<filed, reports>>,
           control' \in [owner: Owners \cup {NoOwner}, live: BOOLEAN, cooling: BOOLEAN],
           retained' \subseteq Periods,
           panel' \in [Quarters -> Unlisted .. MaxVersion],
           wanted' \subseteq Banks,
           job' = [q \in Quarters |-> job'[q]],
           \A q \in Quarters : RowGoesOn(q)
    PROVE  GoesOn
<1>1. StoreTyped
  BY DEF QInv, TypeOK, StoreTyped
<1>2. StoreTyped'
  BY <1>1 DEF StoreTyped, RowGoesOn
<1>3. \A q \in Quarters : Kept(q)' = Kept(q) /\ Shown(q)' = Shown(q)
  BY DEF Kept, Shown
<1>4. ASSUME NEW q \in Quarters PROVE KeptOK(q)'
  <2>1. /\ KeptOK(q) /\ job[q].desired <= job'[q].desired
        /\ job[q].desired \in Nat /\ job'[q].desired \in Nat
        /\ Kept(q) \subseteq Versions /\ \A n \in Versions : reports[q][n].of \in Nat
    BY <1>1, <1>2, StoreFields, JobFields, BankAssumption
    DEF QInv, RowGoesOn, StoreTyped, BankAssumption
  <2> QED
    BY <1>3, <2>1 DEF KeptOK
<1>5. ReadyMeansShown'
  BY <1>3 DEF QInv, ReadyMeansShown, RowGoesOn
<1>6. \A q \in Quarters : filed[q] <= filed'[q]
  BY <1>1, StoreFields
<1> QED
  BY <1>2, <1>4, <1>5, <1>6 DEF GoesOn, RowGoesOn

\* A row that stays goes on.
LEMMA RowStays ==
    ASSUME QInv, NEW q \in Quarters, UNCHANGED filed, job'[q] = job[q],
           panel'[q] \in Int, panel[q] <= panel'[q], panel'[q] <= filed[q]
    PROVE  RowGoesOn(q)
<1>1. StoreTyped /\ RowOK(q)
  BY DEF QInv, TypeOK, StoreTyped
<1>2. /\ job[q] \in Job /\ job[q].desired \in Nat /\ panel[q] \in Int
      /\ (job[q].state = "running" => job[q].owner # NoOwner)
  BY <1>1, StoreFields DEF StoreTyped, Unlisted
<1> QED
  BY <1>1, <1>2 DEF RowGoesOn, RowOK

\* The store as it was goes on.
LEMMA StoreStays ==
    ASSUME QInv, UNCHANGED <<filed, storeVars>>
    PROVE  GoesOn /\ \A o : Quiet(o)
<1>1. \A q \in Quarters : Kept(q)' = Kept(q) /\ Shown(q)' = Shown(q)
  BY DEF storeVars, Kept, Shown
<1>2. StoreTyped /\ \A q \in Quarters : RowOK(q) /\ KeptOK(q)
  BY DEF QInv, TypeOK, StoreTyped
<1>3. StoreTyped' /\ \A q \in Quarters : RowOK(q)' /\ KeptOK(q)'
  BY <1>1, <1>2 DEF storeVars, StoreTyped, RowOK, KeptOK
<1>4. ReadyMeansShown'
  BY <1>1 DEF QInv, ReadyMeansShown, storeVars
<1>5. \A q \in Quarters : filed[q] <= filed'[q] /\ job[q].desired <= job'[q].desired
  BY <1>2, StoreFields DEF storeVars
<1> QED
  BY <1>3, <1>4, <1>5 DEF GoesOn, Quiet, Owns, storeVars

-------------------------------------------------------------------------------
(* What the calls do to the store.                                           *)

\* Recovering the rows of a dead worker and processing outdated reports again.
LEMMA BeginGoesOn ==
    ASSUME QInv, UNCHANGED filed, NEW o \in Owners, ServeBegin(o)
    PROVE  GoesOn /\ \A p : p # o => Quiet(p)
<1>1. CASE UNCHANGED storeVars
  BY <1>1, StoreStays
<1>2. CASE ~ UNCHANGED storeVars
  <2>1. /\ control' = [control EXCEPT !.owner = o, !.live = TRUE]
        /\ UNCHANGED <<retained, panel, wanted, reports>>
    BY <1>2 DEF ServeBegin
  <2>2. PICK C \in SUBSET Outdated :
          job' = [q \in Quarters |->
             IF q \in C THEN [job[q] EXCEPT !.state = "queued", !.attempts = 0, !.due = TRUE]
             ELSE Recovered(job[q])]
    BY <1>2 DEF ServeBegin
  <2>3. StoreTyped /\ \A q \in Quarters : RowOK(q) /\ KeptOK(q)
    BY DEF QInv, TypeOK, StoreTyped
  <2>4. ASSUME NEW q \in Quarters PROVE RowGoesOn(q)
    <3> DEFINE r == job[q]
    <3>1. /\ r \in Job /\ r.desired \in Nat /\ MaxAttempts \in Nat
          /\ panel[q] = panel'[q]
      BY <2>1, <2>3, StoreFields, BankAssumption DEF StoreTyped, BankAssumption
    <3>2. CASE q \in C
      <4>1. /\ r.state \in {"ready", "review", "unavailable"} /\ Kept(q) # {}
            /\ r.desired = reports[q][Max(Kept(q))].of
        BY <2>2, <3>2 DEF Outdated
      <4>2. r.desired > 0
        BY <2>3, <4>1, MaxIsLatest, StoreFields DEF KeptOK
      <4>3. job'[q] = [r EXCEPT !.state = "queued", !.attempts = 0, !.due = TRUE]
        BY <2>2, <3>2
      <4>4. /\ job'[q] \in Job /\ job'[q].state = "queued" /\ job'[q].desired = r.desired
            /\ job'[q].owner = r.owner
        <5>1. "queued" \in States /\ 0 \in 0 .. MaxAttempts
          BY <3>1 DEF States, Pending
        <5> QED
          BY <3>1, <4>3, <5>1 DEF Job
      <4>5. panel[q] <= filed[q] /\ r.desired <= panel[q]
        BY <2>3, <4>1 DEF RowOK
      <4> QED
        BY <3>1, <4>2, <4>4, <4>5 DEF RowGoesOn, RowOK
    <3>3. CASE q \notin C /\ r.state = "running"
      <4>1. job'[q] = [r EXCEPT !.state = "retry", !.owner = NoOwner, !.due = TRUE]
        BY <2>2, <3>3 DEF Recovered
      <4>2. /\ job'[q] \in Job /\ job'[q].state = "retry" /\ job'[q].desired = r.desired
            /\ job'[q].owner = NoOwner
        BY <3>1, <4>1 DEF Job, States, Pending
      <4>3. panel[q] <= filed[q] /\ r.desired <= panel[q] /\ r.desired > 0
        BY <2>3, <3>3 DEF RowOK
      <4> QED
        BY <3>1, <4>2, <4>3 DEF RowGoesOn, RowOK
    <3>4. CASE q \notin C /\ r.state # "running"
      <4>1. job'[q] = r
        BY <2>2, <3>4 DEF Recovered
      <4> QED
        BY <2>1, <2>3, <4>1, RowStays, StoreFields DEF RowOK, Unlisted
    <3> QED
      BY <3>2, <3>3, <3>4
  <2>5. /\ control' \in [owner: Owners \cup {NoOwner}, live: BOOLEAN, cooling: BOOLEAN]
        /\ control'.owner = o
    BY <2>1, <2>3 DEF StoreTyped
  <2>6. job' = [q \in Quarters |-> job'[q]]
    BY <2>2
  <2>7. GoesOn
    BY <2>1, <2>3, <2>4, <2>5, <2>6, RowsGoOn DEF StoreTyped
  <2> QED
    BY <2>5, <2>7 DEF Quiet
<1> QED
  BY <1>1, <1>2

\* One row changes, and nothing else but, perhaps, the lease, the catalog or who
\* is wanted.
LEMMA OneRowGoesOn ==
    ASSUME QInv, UNCHANGED <<filed, reports, panel>>, NEW q \in Quarters, NEW r,
           job' = [job EXCEPT ![q] = r], RowGoesOn(q),
           control' \in [owner: Owners \cup {NoOwner}, live: BOOLEAN, cooling: BOOLEAN],
           retained' \subseteq Periods, wanted' \subseteq Banks
    PROVE  GoesOn
<1>1. StoreTyped /\ \A p \in Quarters : RowOK(p)
  BY DEF QInv, TypeOK, StoreTyped
<1>2. \A p \in Quarters : p # q => job'[p] = job[p]
  BY <1>1 DEF StoreTyped
<1>3. \A p \in Quarters : RowGoesOn(p)
  BY <1>1, <1>2, RowStays, StoreFields DEF RowOK, Unlisted
<1>4. job' = [p \in Quarters |-> job'[p]] /\ panel' \in [Quarters -> Unlisted .. MaxVersion]
  BY <1>1 DEF StoreTyped
<1> QED
  BY <1>3, <1>4, RowsGoOn

\* Whoever claims a row owns it.
LEMMA ClaimGoesOn ==
    ASSUME QInv, UNCHANGED filed, NEW m \in Call, m.op = "claim", ServeClaim(m)
    PROVE  GoesOn /\ \A o : Quiet(o)
<1> DEFINE r == [job[m.q] EXCEPT !.state = "running", !.owner = m.owner,
                                 !.attempts = IF @ < MaxAttempts THEN @ + 1 ELSE @]
<1>1. m.q \in Quarters /\ m.owner \in Owners /\ m.q \in Claimable
  BY CallFields DEF ServeClaim
<1>2. /\ job' = [job EXCEPT ![m.q] = r]
      /\ UNCHANGED <<control, retained, panel, wanted, reports>>
  BY DEF ServeClaim
<1>3. StoreTyped /\ RowOK(m.q) /\ job[m.q] \in Job /\ MaxAttempts \in Nat
  BY <1>1, StoreFields, BankAssumption DEF QInv, TypeOK, StoreTyped, BankAssumption
<1>4. /\ job[m.q].state \in {"queued", "retry"} /\ job[m.q].desired \in Nat
      /\ m.owner # NoOwner
  BY <1>1, <1>3, StoreFields, BankAssumption DEF Claimable, BankAssumption
<1>5. /\ r \in Job /\ r.state = "running" /\ r.owner = m.owner
      /\ r.desired = job[m.q].desired
  <2> DEFINE more == IF job[m.q].attempts < MaxAttempts THEN job[m.q].attempts + 1
                     ELSE job[m.q].attempts
  <2>1. "running" \in States
    BY DEF States, Pending
  <2>2. more \in 0 .. MaxAttempts
    BY <1>3, JobFields
  <2>3. r = [job[m.q] EXCEPT !.state = "running", !.owner = m.owner, !.attempts = more]
    OBVIOUS
  <2> HIDE DEF more, r
  <2> QED
    BY <1>1, <1>3, <2>1, <2>2, <2>3 DEF Job
<1>6. job'[m.q] = r
  BY <1>1, <1>2, <1>3 DEF StoreTyped
<1> HIDE DEF r
<1>7. RowGoesOn(m.q)
  BY <1>2, <1>3, <1>4, <1>5, <1>6 DEF RowGoesOn, RowOK
<1> QED
  BY <1>1, <1>2, <1>3, <1>7, OneRowGoesOn DEF StoreTyped, Quiet, Owns

\* A settled row keeps what it wants.
LEMMA SettledRow ==
    ASSUME NEW r \in Job, NEW state \in States
    PROVE  /\ Settled(r, state) \in Job /\ Settled(r, state).state = state
           /\ Settled(r, state).owner = r.owner /\ Settled(r, state).desired = r.desired
<1>1. 0 \in 0 .. MaxAttempts
  BY BankAssumption DEF BankAssumption
<1> QED
  BY <1>1 DEF Settled, Job

\* What a reported error makes of a row.
LEMMA ErrorGoesOn ==
    ASSUME QInv, UNCHANGED filed, NEW m \in Call, m.op = "error", ServeError(m)
    PROVE  GoesOn /\ \A o : Quiet(o)
<1>1. /\ m.q \in Quarters /\ m.owner \in Owners
      /\ UNCHANGED <<control, retained, panel, wanted, reports>>
  BY CallFields DEF ServeError
<1>2. CASE job[m.q].owner # m.owner
  BY <1>1, <1>2, StoreStays DEF ServeError, storeVars
<1>3. CASE job[m.q].owner = m.owner
  <2> DEFINE row == [job[m.q] EXCEPT !.owner = NoOwner]
  <2> DEFINE r == IF m.failure \in Transient /\ row.attempts < MaxAttempts
                  THEN [row EXCEPT !.state = "retry", !.due = FALSE]
                  ELSE Settled(row, IF m.failure = "not_filed" THEN "unavailable" ELSE "review")
  <2>1. job' = [job EXCEPT ![m.q] = r]
    BY <1>3 DEF ServeError
  <2>2. StoreTyped /\ RowOK(m.q) /\ job[m.q] \in Job /\ m.owner # NoOwner
    BY <1>1, StoreFields, BankAssumption DEF QInv, TypeOK, StoreTyped, BankAssumption
  <2>3. job[m.q].state \in {"queued", "running"} /\ job[m.q].desired \in Nat
    BY <1>1, <1>3, <2>2, StoreFields DEF RowOK
  <2>4. row \in Job /\ row.owner = NoOwner /\ row.desired = job[m.q].desired
    BY <2>2 DEF Job
  <2>5. /\ r \in Job /\ r.owner = NoOwner /\ r.desired = row.desired
        /\ r.state \in {"retry", "unavailable", "review"}
    <3> HIDE DEF row
    <3>1. CASE m.failure \in Transient /\ row.attempts < MaxAttempts
      BY <2>4, <3>1 DEF Job, States, Pending
    <3>2. CASE ~ (m.failure \in Transient /\ row.attempts < MaxAttempts)
      <4>1. "unavailable" \in States /\ "review" \in States
        BY DEF States
      <4> QED
        BY <2>4, <3>2, <4>1, SettledRow
    <3> QED
      BY <3>1, <3>2
  <2>6. job'[m.q] = r
    BY <1>1, <2>1, <2>2 DEF StoreTyped
  <2> HIDE DEF r
  <2>7. RowGoesOn(m.q)
    BY <1>1, <2>2, <2>3, <2>4, <2>5, <2>6 DEF RowGoesOn, RowOK
  <2> QED
    BY <1>1, <2>1, <2>2, <2>7, OneRowGoesOn DEF StoreTyped, Quiet, Owns
<1> QED
  BY <1>2, <1>3

\* The end of a run gives its rows back.
LEMMA FinishGoesOn ==
    ASSUME QInv, UNCHANGED filed, NEW o \in Owners, ServeFinish(o)
    PROVE  GoesOn /\ \A p : Quiet(p)
<1>1. /\ control' = [control EXCEPT !.owner = NoOwner, !.live = FALSE]
      /\ UNCHANGED <<retained, panel, wanted, reports>>
      /\ job' = [q \in Quarters |->
            IF job[q].owner = o /\ job[q].state = "running"
            THEN [job[q] EXCEPT !.state = "retry", !.owner = NoOwner, !.due = FALSE]
            ELSE job[q]]
  BY DEF ServeFinish
<1>2. StoreTyped /\ \A q \in Quarters : RowOK(q)
  BY DEF QInv, TypeOK, StoreTyped
<1>3. ASSUME NEW q \in Quarters PROVE RowGoesOn(q)
  <2>1. job[q] \in Job /\ job[q].desired \in Nat
    BY <1>2, StoreFields
  <2>2. CASE job[q].owner = o /\ job[q].state = "running"
    <3>1. job'[q] = [job[q] EXCEPT !.state = "retry", !.owner = NoOwner, !.due = FALSE]
      BY <1>1, <2>2
    <3>2. /\ job'[q] \in Job /\ job'[q].state = "retry" /\ job'[q].owner = NoOwner
          /\ job'[q].desired = job[q].desired
      BY <2>1, <3>1 DEF Job, States, Pending
    <3>3. panel'[q] <= filed'[q] /\ job[q].desired <= panel'[q] /\ job[q].desired > 0
      BY <1>1, <1>2, <2>2 DEF RowOK
    <3> QED
      BY <2>1, <3>2, <3>3 DEF RowGoesOn, RowOK
  <2>3. CASE ~ (job[q].owner = o /\ job[q].state = "running")
    <3>1. job'[q] = job[q]
      BY <1>1, <2>3
    <3>2. panel'[q] = panel[q]
      BY <1>1
    <3>3. /\ panel'[q] \in Int /\ panel[q] <= panel'[q] /\ panel'[q] <= filed[q]
      BY <1>2, <3>2, StoreFields DEF RowOK, Unlisted
    <3> QED
      BY <3>1, <3>3, RowStays
  <2> QED
    BY <2>2, <2>3
<1>4. /\ control' \in [owner: Owners \cup {NoOwner}, live: BOOLEAN, cooling: BOOLEAN]
      /\ ~control'.live
  BY <1>1, <1>2 DEF StoreTyped
<1>5. job' = [q \in Quarters |-> job'[q]]
  BY <1>1
<1> QED
  BY <1>1, <1>2, <1>3, <1>4, <1>5, RowsGoOn DEF StoreTyped, Quiet

\* The entries of a period reach the directory, and the jobs of wanted banks follow.
LEMMA CatalogGoesOn ==
    ASSUME QInv, UNCHANGED filed, NEW m \in Call, m.op = "catalog", Owns(m.owner),
           Current(m.owner, m.entries), ServeCatalog(m)
    PROVE  /\ GoesOn /\ UNCHANGED control
           /\ \A o : o # m.owner => Quiet(o)
           /\ \A q \in Quarters : q \notin DOMAIN m.entries => panel'[q] = panel[q]
<1> DEFINE periods == {q[2] : q \in DOMAIN m.entries}
           listed == [q \in Quarters |-> IF q \in DOMAIN m.entries THEN m.entries[q] ELSE panel[q]]
           follow == {q \in Quarters : q[2] \in periods /\ q[1] \in wanted /\ listed[q] # Unlisted}
           changed(q) == \/ job[q].desired # listed[q]
                         \/ job[q].state = "unavailable" /\ listed[q] > 0
<1>1. /\ panel' = listed
      /\ job' = [q \in Quarters |->
            IF q \notin follow THEN job[q]
            ELSE IF job[q].state = "absent" THEN Asked(q, listed[q])
            ELSE IF changed(q) THEN Reopened(q, listed[q]) ELSE job[q]]
      /\ UNCHANGED <<control, retained, wanted, reports>>
  BY DEF ServeCatalog
<1>2. StoreTyped /\ \A q \in Quarters : RowOK(q)
  BY DEF QInv, TypeOK, StoreTyped
<1>3. PICK Q \in SUBSET Quarters : m.entries \in [Q -> 0 .. MaxVersion]
  BY CallFields DEF Entries
<1>4. ASSUME NEW q \in Quarters
      PROVE  /\ listed[q] \in Unlisted .. MaxVersion /\ listed[q] \in Int
             /\ panel[q] \in Int /\ filed[q] \in Int
             /\ panel[q] <= listed[q] /\ listed[q] <= filed[q]
             /\ panel'[q] = listed[q] /\ panel'[q] \in Int
  <2>1. /\ filed[q] \in 0 .. MaxVersion /\ panel[q] \in Unlisted .. MaxVersion
        /\ panel[q] <= filed[q]
    BY <1>2, StoreFields DEF RowOK
  <2>2. CASE q \in DOMAIN m.entries
    BY <1>1, <1>3, <2>1, <2>2 DEF Current, Unlisted
  <2>3. CASE q \notin DOMAIN m.entries
    BY <1>1, <2>1, <2>3 DEF Unlisted
  <2> QED
    BY <2>2, <2>3
<1>5. ASSUME NEW q \in Quarters PROVE RowGoesOn(q)
  <2>1. /\ job[q] \in Job /\ job[q].desired \in Nat /\ job[q].desired \in 0 .. MaxVersion
        /\ UNCHANGED filed /\ RowOK(q) /\ MaxVersion \in Nat
    BY <1>2, StoreFields
  <2>2. CASE q \notin follow \/ (job[q].state # "absent" /\ ~changed(q))
    <3>1. job'[q] = job[q]
      BY <1>1, <2>2
    <3> QED
      BY <1>4, <3>1, RowStays
  <2>3. CASE q \in follow /\ job[q].state = "absent"
    <3>1. /\ job'[q] = Asked(q, listed[q]) /\ listed[q] \in 0 .. MaxVersion
          /\ job[q].desired = 0
      BY <1>1, <1>4, <2>1, <2>3 DEF Unlisted, RowOK
    <3> QED
      BY <1>4, <2>1, <3>1, AskedRow DEF RowGoesOn, RowOK
  <2>4. CASE q \in follow /\ job[q].state # "absent" /\ changed(q)
    <3>1. /\ job'[q] = Reopened(q, listed[q]) /\ listed[q] \in 0 .. MaxVersion
      BY <1>1, <1>4, <2>4 DEF Unlisted
    <3>2. job[q].desired <= listed[q] /\ listed[q] > 0
      BY <1>4, <2>1, <2>4, <3>1 DEF RowOK
    <3>3. Reopened(q, listed[q]) = [job[q] EXCEPT !.state = "queued", !.desired = listed[q],
                                                  !.attempts = 0, !.due = TRUE]
      <4>1. PICK d \in 0 .. MaxVersion : d = listed[q]
        BY <3>1
      <4>2. Asked(q, d).state = "queued"
        BY <3>2, <4>1, AskedRow
      <4> HIDE DEF listed, changed
      <4> QED
        BY <4>1, <4>2 DEF Reopened
    <3>4. /\ job'[q] \in Job /\ job'[q].state = "queued" /\ job'[q].desired = listed[q]
          /\ job'[q].owner = job[q].owner
      <4>1. PICK d \in 0 .. MaxVersion : d = listed[q]
        BY <3>1
      <4>2. PICK r \in Job : r = job[q]
        BY <2>1
      <4>3. job'[q] = [r EXCEPT !.state = "queued", !.desired = d, !.attempts = 0, !.due = TRUE]
        BY <3>1, <3>3, <4>1, <4>2
      <4>4. /\ job'[q] \in Job /\ job'[q].state = "queued" /\ job'[q].desired = d
            /\ job'[q].owner = r.owner
        <5>1. "queued" \in States /\ 0 \in 0 .. MaxAttempts
          BY BankAssumption DEF States, Pending, BankAssumption
        <5> QED
          BY <4>3, <5>1 DEF Job
      <4> QED
        BY <4>1, <4>2, <4>4
    <3> QED
      BY <1>4, <2>1, <3>2, <3>4 DEF RowGoesOn, RowOK
  <2> QED
    BY <2>2, <2>3, <2>4
<1>6. panel' \in [Quarters -> Unlisted .. MaxVersion]
  <2> HIDE DEF listed
  <2>1. panel' = [q \in Quarters |-> panel'[q]]
    BY <1>1 DEF listed
  <2> QED
    BY <1>4, <2>1
<1>7. job' = [q \in Quarters |-> job'[q]]
  BY <1>1
<1>8. GoesOn
  BY <1>1, <1>2, <1>5, <1>6, <1>7, RowsGoOn DEF StoreTyped
<1>9. \A q \in Quarters : q \notin DOMAIN m.entries => panel'[q] = panel[q]
  BY <1>1
<1> QED
  BY <1>1, <1>8, <1>9 DEF Quiet, Owns

\* What is written of a version is filed under what its job wants, and follows what
\* is kept of earlier submissions.
LEMMA WriteKeeps ==
    ASSUME StoreTyped, NEW q \in Quarters, KeptOK(q), UNCHANGED filed,
           NEW label, NEW version \in Versions, NEW r \in Report,
           Wanted(q, label), Fits(q, label, version), label = job[q].desired,
           job'[q].desired = label,
           reports' = [reports EXCEPT ![q][version] = r],
           r.kept, r.of = label \/ r = reports[q][version]
    PROVE  /\ KeptOK(q)'
           /\ \A n \in Versions :
                reports'[q][n].kept /\ reports'[q][n].of < label
                => reports[q][n].kept /\ reports[q][n].of < label
<1>1. /\ label \in Nat /\ filed[q] \in Nat /\ version \in Nat /\ filed'[q] = filed[q]
      /\ \A n \in Versions : n \in Nat /\ reports[q][n].of \in Nat
      /\ Kept(q) \subseteq Versions
  BY StoreFields, BankAssumption DEF BankAssumption
<1>2. /\ reports'[q][version] = r
      /\ \A n \in Versions : n # version => reports'[q][n] = reports[q][n]
  BY DEF StoreTyped
<1>3. CASE r = reports[q][version]
  <2>1. \A n \in Versions : reports'[q][n] = reports[q][n]
    BY <1>2, <1>3
  <2>2. Kept(q)' = Kept(q)
    BY <2>1 DEF Kept
  <2> QED
    BY <1>1, <2>1, <2>2 DEF KeptOK
<1>4. CASE r.of = label
  <2>1. \A n \in Kept(q)' : n = version \/ (n # version /\ n \in Kept(q))
    BY <1>2 DEF Kept
  <2>2. \A n \in Kept(q) : reports[q][n].of < label => n <= version
    BY DEF Fits
  <2>3. 0 < label /\ label <= version /\ version <= filed[q]
    BY DEF Wanted, Fits
  <2>4. Kept(q)' \subseteq Versions
    BY DEF Kept
  <2>5. \A n \in Versions : reports'[q][n].passed => reports'[q][n].kept
    BY <1>2 DEF KeptOK
  <2>6. \A n \in Kept(q)' : /\ reports'[q][n].of > 0 /\ reports'[q][n].of <= n
                            /\ n <= filed[q] /\ reports'[q][n].of <= label
    BY <1>1, <1>2, <1>4, <2>1, <2>3 DEF KeptOK
  <2>7. ASSUME NEW n \in Kept(q)', NEW k \in Kept(q)', reports'[q][n].of < reports'[q][k].of
        PROVE  n < k
    <3>1. CASE n = version
      BY <1>1, <1>2, <1>4, <2>4, <2>6, <2>7, <3>1
    <3>2. CASE n # version /\ k = version
      <4>1. n \in Kept(q) /\ reports'[q][n] = reports[q][n]
        BY <1>2, <2>1, <2>4, <3>2
      <4> QED
        BY <1>1, <1>2, <1>4, <2>2, <2>7, <3>2, <4>1
    <3>3. CASE n # version /\ k # version
      <4>1. /\ n \in Kept(q) /\ reports'[q][n] = reports[q][n]
            /\ k \in Kept(q) /\ reports'[q][k] = reports[q][k]
        BY <1>2, <2>1, <2>4, <3>3
      <4> QED
        BY <2>7, <4>1 DEF KeptOK
    <3> QED
      BY <3>1, <3>2, <3>3
  <2> QED
    BY <1>1, <1>2, <1>4, <2>5, <2>6, <2>7 DEF KeptOK
<1> QED
  BY <1>3, <1>4

\* A version that its job writes makes a step of the store, and if the job is ready
\* then it is the version that readers are shown, or a later one of the submission.
LEMMA WriteGoesOn ==
    ASSUME QInv, StoreTyped', UNCHANGED <<filed, panel>>,
           NEW q \in Quarters, NEW label, NEW version \in Versions, NEW r \in Report,
           Wanted(q, label), Fits(q, label, version), label = job[q].desired,
           job[q].state = "running",
           reports' = [reports EXCEPT ![q][version] = r],
           r.kept, r.of = label \/ r = reports[q][version],
           \A p \in Quarters : p # q => job'[p] = job[p],
           RowOK(q)', job'[q].desired = label,
           job'[q].state = "ready" => r.passed /\ r.of = label
    PROVE  GoesOn
<1>1. StoreTyped /\ \A p \in Quarters : RowOK(p) /\ KeptOK(p)
  BY DEF QInv, TypeOK, StoreTyped
<1>2. /\ KeptOK(q)'
      /\ \A n \in Versions : reports'[q][n].kept /\ reports'[q][n].of < label
                             => reports[q][n].kept /\ reports[q][n].of < label
  BY <1>1, WriteKeeps
<1>3. ASSUME NEW p \in Quarters, p # q
      PROVE  /\ job'[p] = job[p] /\ reports'[p] = reports[p]
             /\ Kept(p)' = Kept(p) /\ Shown(p)' = Shown(p)
  <2>1. reports'[p] = reports[p]
    BY <1>1, <1>3 DEF StoreTyped
  <2> QED
    BY <1>3, <2>1 DEF Kept, Shown
<1>4. ASSUME NEW p \in Quarters PROVE RowOK(p)' /\ KeptOK(p)'
  BY <1>1, <1>2, <1>3 DEF RowOK, KeptOK
<1>5. ASSUME NEW p \in Quarters
      PROVE  filed[p] <= filed'[p] /\ job[p].desired <= job'[p].desired
  <2>1. filed[p] \in Nat /\ job[p].desired \in Nat
    BY <1>1, StoreFields
  <2> QED
    BY <1>3, <2>1
<1>6. ASSUME job'[q].state = "ready"
      PROVE  /\ Kept(q)' # {} /\ Shown(q)' >= job'[q].desired
             /\ reports'[q][Shown(q)'].passed /\ reports'[q][Shown(q)'].of = job'[q].desired
  <2> DEFINE valid == {n \in Kept(q)' : reports'[q][n].passed}
  <2>1. reports'[q][version] = r /\ r.passed /\ r.of = label
    BY <1>1, <1>6 DEF StoreTyped
  <2>2. version \in valid /\ valid \subseteq Versions
    BY <2>1 DEF Kept
  <2>3. Shown(q)' = Max(valid)
    BY <2>2 DEF Shown
  <2>4. Max(valid) \in valid /\ version <= Max(valid)
    <3> HIDE DEF valid
    <3> QED
      BY <2>2, MaxIsLatest
  <2> DEFINE last == Max(valid)
  <2>5. /\ last \in Kept(q)' /\ last \in Versions /\ reports'[q][last].passed
        /\ version \in Kept(q)' /\ version <= last
    BY <2>2, <2>4
  <2> HIDE DEF valid, last
  <2>6. /\ label <= version /\ label \in Nat /\ last \in Nat /\ version \in Nat
        /\ reports'[q][last].of \in Nat
    <3>1. label \in Nat /\ MaxVersion \in Nat
      BY <1>1, StoreFields
    <3>2. reports'[q][last] \in Report
      BY <2>5 DEF StoreTyped
    <3> QED
      BY <2>5, <3>1, <3>2 DEF Fits, Report
  <2>7. /\ reports'[q][last].of <= label
        /\ reports'[q][last].of < reports'[q][version].of => last < version
    BY <1>2, <2>5 DEF KeptOK
  <2>8. reports'[q][last].of = label
    BY <2>1, <2>5, <2>6, <2>7
  <2>9. Shown(q)' = last
    BY <2>3 DEF last
  <2> QED
    BY <2>5, <2>6, <2>8, <2>9
<1>7. ReadyMeansShown'
  <2>1. ASSUME NEW p \in Quarters, p # q, job'[p].state = "ready"
        PROVE  /\ Kept(p)' # {} /\ Shown(p)' >= job'[p].desired
               /\ reports'[p][Shown(p)'].passed /\ reports'[p][Shown(p)'].of = job'[p].desired
    BY <1>3, <2>1 DEF QInv, ReadyMeansShown
  <2> QED
    BY <1>6, <2>1 DEF ReadyMeansShown
<1>8. \A p \in Quarters, n \in Versions :
         /\ job'[p].desired = job[p].desired
         /\ reports'[p][n].kept /\ reports'[p][n].of < job[p].desired
         => reports[p][n].kept /\ reports[p][n].of < job[p].desired
  BY <1>2, <1>3
<1> QED
  BY <1>4, <1>5, <1>7, <1>8 DEF GoesOn

\* Retaining a source.
LEMMA RetainGoesOn ==
    ASSUME QInv, UNCHANGED filed, NEW m \in Call, m.op = "retain",
           Wanted(m.q, m.label), Fits(m.q, m.label, m.version), ServeRetain(m)
    PROVE  GoesOn /\ \A o : Quiet(o)
<1>1. /\ m.q \in Quarters /\ m.label \in 0 .. MaxVersion /\ m.version \in Versions
      /\ job[m.q].state = "running" /\ job[m.q].desired = m.label
      /\ UNCHANGED <<control, retained, panel, wanted, job>>
  BY CallFields DEF ServeRetain, Runs
<1>2. StoreTyped /\ RowOK(m.q) /\ KeptOK(m.q) /\ reports[m.q][m.version] \in Report
  BY <1>1 DEF QInv, TypeOK, StoreTyped
<1>3. PICK old \in Report : old = reports[m.q][m.version]
  BY <1>2
<1>4. PICK r : r = Retained(old, m.label)
  OBVIOUS
<1>5. r \in Report /\ r.kept /\ (r.of = m.label \/ r = old)
  <2>1. CASE old.passed
    BY <1>1, <1>2, <1>3, <1>4, <2>1 DEF Retained, KeptOK
  <2>2. CASE ~old.passed
    BY <1>1, <1>3, <1>4, <2>2 DEF Retained, Report
  <2> QED
    BY <2>1, <2>2
<1>6. reports' = [reports EXCEPT ![m.q][m.version] = r]
  BY <1>3, <1>4 DEF ServeRetain
<1>7. reports' \in [Quarters -> [Versions -> Report]]
  BY <1>1, <1>2, <1>5, <1>6 DEF StoreTyped
<1>8. StoreTyped' /\ RowOK(m.q)'
  BY <1>1, <1>2, <1>7 DEF StoreTyped, RowOK
<1>9. GoesOn
  BY <1>1, <1>3, <1>5, <1>6, <1>8, WriteGoesOn
<1> QED
  BY <1>1, <1>9 DEF Quiet, Owns

\* Publishing a report.
LEMMA PublishGoesOn ==
    ASSUME QInv, UNCHANGED filed, NEW m \in Call, m.op = "publish",
           Wanted(m.q, m.label), Fits(m.q, m.label, m.version), ServePublish(m)
    PROVE  GoesOn /\ \A o : Quiet(o)
<1> DEFINE r == [kept |-> TRUE, metrics |-> TRUE, passed |-> m.passed, of |-> m.label,
                 old |-> FALSE]
<1> DEFINE free == [job[m.q] EXCEPT !.owner = NoOwner]
<1> DEFINE state == IF m.passed THEN "ready" ELSE "review"
<1>1. /\ m.q \in Quarters /\ m.label \in 0 .. MaxVersion /\ m.version \in Versions
      /\ m.passed \in BOOLEAN
      /\ job[m.q].state = "running" /\ job[m.q].desired = m.label
      /\ UNCHANGED <<control, retained, panel, wanted>>
      /\ reports' = [reports EXCEPT ![m.q][m.version] = r]
      /\ job' = [job EXCEPT ![m.q] = Settled(free, state)]
  BY CallFields DEF ServePublish, Runs
<1>2. StoreTyped /\ RowOK(m.q) /\ job[m.q] \in Job
  BY <1>1 DEF QInv, TypeOK, StoreTyped
<1>3. r \in Report /\ r.kept /\ r.of = m.label /\ r.passed = m.passed
  BY <1>1 DEF Report
<1>4. free \in Job /\ free.owner = NoOwner /\ free.desired = job[m.q].desired
  BY <1>2 DEF Job
<1>5. state \in {"ready", "review"} /\ state \in States /\ (state = "ready" => m.passed)
  BY DEF States
<1> HIDE DEF r, free, state
<1>6. /\ job'[m.q] \in Job /\ job'[m.q].state = state /\ job'[m.q].owner = NoOwner
      /\ job'[m.q].desired = m.label
  <2>1. job'[m.q] = Settled(free, state)
    BY <1>1, <1>2 DEF StoreTyped
  <2> QED
    BY <1>1, <1>4, <1>5, <2>1, SettledRow
<1>7. \A p \in Quarters : p # m.q => job'[p] = job[p]
  BY <1>1, <1>2 DEF StoreTyped
<1>8. job' \in [Quarters -> Job] /\ reports' \in [Quarters -> [Versions -> Report]]
  <2>1. job' = [job EXCEPT ![m.q] = job'[m.q]]
    BY <1>1, <1>2 DEF StoreTyped
  <2> QED
    BY <1>1, <1>2, <1>3, <1>6, <2>1 DEF StoreTyped
<1>9. StoreTyped'
  BY <1>1, <1>2, <1>5, <1>6, <1>7, <1>8 DEF StoreTyped
<1>10. RowOK(m.q)'
  BY <1>1, <1>2, <1>5, <1>6 DEF RowOK
<1>11. GoesOn
  BY <1>1, <1>3, <1>5, <1>6, <1>7, <1>9, <1>10, WriteGoesOn
<1> QED
  BY <1>1, <1>11 DEF Quiet, Owns

\* What may still be told of the directory under this owner, after a call.
Undisturbed(m) == \A o : m.op \notin {"begin", "catalog"} \/ o # m.owner => Quiet(o)

\* Every call that the store accepts is a step of it.
LEMMA AcceptedGoesOn ==
    ASSUME QInv, UNCHANGED filed, NEW m \in Call, MessageOK(m), Accepted(m)
    PROVE  GoesOn /\ Undisturbed(m)
<1>1. StoreTyped
  BY DEF QInv, TypeOK, StoreTyped
<1>2. CASE m.op = "begin" /\ ServeBegin(m.owner)
  BY <1>2, CallFields, BeginGoesOn DEF Undisturbed
<1>3. CASE /\ m.op = "periods" /\ retained' = m.list
           /\ UNCHANGED <<control, panel, wanted, job, reports>>
  <2>1. retained' \subseteq Periods
    BY <1>3, CallFields, BankAssumption DEF BankAssumption
  <2>2. \A q \in Quarters : RowGoesOn(q)
    BY <1>1, <1>3, RowStays, StoreFields DEF QInv, RowOK, Unlisted
  <2>3. job' = [q \in Quarters |-> job'[q]]
    BY <1>1, <1>3 DEF StoreTyped
  <2>4. GoesOn
    BY <1>1, <1>3, <2>1, <2>2, <2>3, RowsGoOn DEF StoreTyped
  <2> QED
    BY <1>3, <2>4 DEF Undisturbed, Quiet, Owns
<1>4. CASE m.op = "catalog" /\ Owns(m.owner) /\ ServeCatalog(m)
  BY <1>4, CatalogGoesOn DEF MessageOK, Undisturbed
<1>5. CASE m.op = "claim" /\ ServeClaim(m)
  BY <1>5, ClaimGoesOn DEF Undisturbed
<1>6. CASE m.op = "retain" /\ ServeRetain(m)
  BY <1>6, RetainGoesOn DEF MessageOK, Undisturbed
<1>7. CASE m.op = "publish" /\ ServePublish(m)
  BY <1>7, PublishGoesOn DEF MessageOK, Undisturbed
<1>8. CASE m.op = "error" /\ ServeError(m)
  BY <1>8, ErrorGoesOn DEF Undisturbed
<1>9. CASE m.op = "finish" /\ ServeFinish(m.owner)
  BY <1>9, CallFields, FinishGoesOn DEF Undisturbed
<1>10. CASE /\ m.op = "cooldown" /\ control' = [control EXCEPT !.cooling = TRUE]
            /\ UNCHANGED <<retained, panel, wanted, job, reports>>
  <2>1. /\ control' \in [owner: Owners \cup {NoOwner}, live: BOOLEAN, cooling: BOOLEAN]
        /\ control'.owner = control.owner /\ control'.live = control.live
    BY <1>1, <1>10 DEF StoreTyped
  <2>2. \A q \in Quarters : RowGoesOn(q)
    BY <1>1, <1>10, RowStays, StoreFields DEF QInv, RowOK, Unlisted
  <2>3. job' = [q \in Quarters |-> job'[q]]
    BY <1>1, <1>10 DEF StoreTyped
  <2>4. GoesOn
    BY <1>1, <1>10, <2>1, <2>2, <2>3, RowsGoOn DEF StoreTyped
  <2> QED
    BY <1>10, <2>1, <2>4 DEF Undisturbed, Quiet, Owns
<1> QED
  BY <1>2, <1>3, <1>4, <1>5, <1>6, <1>7, <1>8, <1>9, <1>10 DEF Accepted

-------------------------------------------------------------------------------
(* Workers and calls.                                                        *)

\* What was wanted, or fits, goes on doing so.
LEMMA FitsStays ==
    ASSUME QInv, GoesOn, NEW q \in Quarters, NEW label \in 0 .. MaxVersion,
           NEW version \in 0 .. MaxVersion, Wanted(q, label)
    PROVE  Wanted(q, label)' /\ (Fits(q, label, version) => Fits(q, label, version)')
<1>1. /\ job[q].desired \in Nat /\ filed[q] \in Nat /\ MaxVersion \in Nat
      /\ job'[q].desired \in Nat /\ filed'[q] \in Nat
      /\ job[q].desired <= job'[q].desired /\ filed[q] <= filed'[q]
      /\ label \in Nat /\ version \in Nat
  <2>1. StoreTyped /\ StoreTyped'
    BY DEF QInv, TypeOK, StoreTyped, GoesOn
  <2>2. job'[q] \in Job /\ filed'[q] \in 0 .. MaxVersion
    BY <2>1 DEF StoreTyped
  <2> QED
    BY <2>1, <2>2, StoreFields, JobFields DEF GoesOn
<1>2. 0 < label /\ label <= job[q].desired
  BY DEF Wanted
<1>3. label = job'[q].desired => label = job[q].desired
  BY <1>1, <1>2
<1>4. ASSUME Fits(q, label, version) PROVE Fits(q, label, version)'
  <2>1. ASSUME label = job'[q].desired, NEW n \in Kept(q)', reports'[q][n].of < label
        PROVE  n <= version
    <3>1. n \in Versions /\ reports'[q][n].kept
      BY <2>1 DEF Kept
    <3>2. reports[q][n].kept /\ reports[q][n].of < label
      BY <1>3, <2>1, <3>1 DEF GoesOn
    <3> QED
      BY <1>3, <1>4, <2>1, <3>1, <3>2 DEF Fits, Kept
  <2>2. label <= version /\ version <= filed'[q]
    BY <1>1, <1>4 DEF Fits
  <2> QED
    BY <2>1, <2>2 DEF Fits
<1> QED
  BY <1>1, <1>2, <1>4 DEF Wanted

\* Entries stay current as long as nobody else tells the directory.
LEMMA CurrentStays ==
    ASSUME QInv, GoesOn, NEW o, NEW entries \in Entries, Current(o, entries),
           Quiet(o) \/ DOMAIN entries = {}
    PROVE  Current(o, entries)'
<1>1. PICK Q \in SUBSET Quarters : entries \in [Q -> 0 .. MaxVersion]
  BY DEF Entries
<1>2. ASSUME NEW q \in DOMAIN entries
      PROVE  entries[q] <= filed'[q] /\ (Owns(o)' => panel'[q] <= entries[q])
  <2>1. /\ q \in Quarters /\ entries[q] \in Nat /\ MaxVersion \in Nat
    BY <1>1, <1>2, BankAssumption DEF BankAssumption
  <2>2. filed[q] \in Nat /\ filed'[q] \in Nat /\ filed[q] <= filed'[q]
    <3>1. StoreTyped /\ StoreTyped'
      BY DEF QInv, TypeOK, StoreTyped, GoesOn
    <3> QED
      BY <2>1, <3>1 DEF StoreTyped, GoesOn
  <2>3. entries[q] <= filed[q] /\ (Owns(o) => panel[q] <= entries[q])
    BY <1>2 DEF Current
  <2>4. Quiet(o)
    BY <1>2
  <2> QED
    BY <2>1, <2>2, <2>3, <2>4 DEF Quiet, Owns
<1> QED
  BY <1>2 DEF Current

\* A worker that stays where it is stays sound.
LEMMA WorkerStays ==
    ASSUME QInv, GoesOn, NEW w \in Workers, worker'[w] = worker[w],
           Quiet(worker[w].owner) \/ DOMAIN worker[w].entries = {}
    PROVE  WorkerOK(w)'
<1>1. WorkerOK(w) /\ worker[w] \in Worker
  BY DEF QInv, TypeOK
<1>2. PICK r \in Worker : r = worker[w]
  BY <1>1
<1>3. Current(r.owner, r.entries)'
  <2>1. r.entries \in Entries /\ Current(r.owner, r.entries)
    BY <1>1, <1>2 DEF Worker, WorkerOK
  <2> QED
    BY <1>2, <2>1, CurrentStays
<1>4. r.at \in WithJob =>
         /\ r.q \in Quarters /\ r.q # NoQuarter /\ Wanted(r.q, r.label)'
         /\ Fits(r.q, r.label, r.version) => Fits(r.q, r.label, r.version)'
  <2>1. /\ r.q \in Quarters \cup {NoQuarter}
        /\ r.label \in 0 .. MaxVersion /\ r.version \in 0 .. MaxVersion
    BY DEF Worker
  <2> QED
    BY <1>1, <1>2, <2>1, FitsStays DEF WorkerOK
<1> QED
  BY <1>1, <1>2, <1>3, <1>4 DEF WorkerOK, WithJob

\* So does a call under way.
LEMMA MessageStays ==
    ASSUME QInv, GoesOn, NEW m \in Call, MessageOK(m),
           m.op = "catalog" => Quiet(m.owner)
    PROVE  MessageOK(m)'
<1>1. m.op = "catalog" => Current(m.owner, m.entries)'
  BY CallFields, CurrentStays DEF MessageOK
<1>2. m.op \in {"retain", "publish"} =>
         Wanted(m.q, m.label)' /\ Fits(m.q, m.label, m.version)'
  BY CallFields, FitsStays DEF MessageOK
<1> QED
  BY <1>1, <1>2 DEF MessageOK

\* The fields of a worker; who runs has an owner.
LEMMA WorkerFields ==
    ASSUME QInv, NEW w \in Workers
    PROVE  /\ worker[w] \in Worker /\ WorkerOK(w)
           /\ worker[w].at \in Places /\ worker[w].owner \in Owners \cup {NoOwner}
           /\ worker[w].checked \in SUBSET Periods /\ worker[w].entries \in Entries
           /\ worker[w].q \in Quarters \cup {NoQuarter}
           /\ worker[w].label \in 0 .. MaxVersion /\ worker[w].version \in 0 .. MaxVersion
           /\ worker[w].failure \in Failures \cup {"none"}
           /\ worker[w].at # "idle" => worker[w].owner \in Owners /\ worker[w].owner # NoOwner
           /\ worker[w].at \in WithJob => worker[w].q \in Quarters
<1>1. worker[w] \in Worker /\ WorkerOK(w)
  BY DEF QInv, TypeOK
<1> QED
  BY <1>1 DEF Worker, WorkerOK

\* A worker without a job.
LEMMA FreeRow ==
    ASSUME QInv, NEW w \in Workers, NEW place \in Places
    PROVE  /\ Idle \in Worker /\ Idle.owner = NoOwner /\ Idle.at = "idle"
           /\ Idle.entries = NoEntries /\ NoEntries \in Entries /\ DOMAIN NoEntries = {}
           /\ Free(w, place) \in Worker /\ Free(w, place).at = place
           /\ Free(w, place).owner = worker[w].owner /\ Free(w, place).entries = NoEntries
<1>1. NoEntries \in Entries /\ DOMAIN NoEntries = {}
  BY DEF NoEntries, Entries
<1>2. 0 \in 0 .. MaxVersion /\ 0 \in 0 .. MaxTries /\ "idle" \in Places
  BY BankAssumption DEF BankAssumption, Places
<1>3. Idle \in Worker /\ Idle.owner = NoOwner /\ Idle.at = "idle" /\ Idle.entries = NoEntries
  BY <1>1, <1>2 DEF Idle, Worker
<1>4. worker[w].owner \in Owners \cup {NoOwner}
  BY WorkerFields
<1> QED
  BY <1>1, <1>3, <1>4 DEF Free, Worker

\* It is sound.
LEMMA FreeOK ==
    ASSUME QInv, NEW w \in Workers, worker[w].owner # NoOwner,
           NEW place \in Places \ (WithJob \cup {"idle", "catalog"}),
           worker'[w] = Idle \/ worker'[w] = Free(w, place)
    PROVE  WorkerOK(w)'
<1>1. PICK r : r = worker'[w]
  OBVIOUS
<1>2. /\ r.at = "idle" <=> r.owner = NoOwner
      /\ r.at \notin WithJob /\ r.at # "catalog"
      /\ r.entries = NoEntries /\ DOMAIN NoEntries = {}
  BY <1>1, FreeRow DEF WithJob
<1>3. Current(r.owner, r.entries)'
  BY <1>2 DEF Current
<1> QED
  BY <1>1, <1>2, <1>3 DEF WorkerOK, WithJob

\* A worker that goes on with its job.
LEMMA JobRowOK ==
    ASSUME QInv, GoesOn, NEW w \in Workers, worker[w].at \in WithJob,
           NEW r \in Worker, worker'[w] = r, r.at \in WithJob,
           r.owner = worker[w].owner, r.entries = worker[w].entries,
           r.q = worker[w].q, r.label = worker[w].label,
           r.at \in {"retaining", "parsing"} => Fits(r.q, r.label, r.version),
           r.at = "failing" => r.failure # "none"
    PROVE  WorkerOK(w)'
<1>1. /\ worker[w].owner # NoOwner /\ worker[w].q \in Quarters /\ worker[w].q # NoQuarter
      /\ Wanted(worker[w].q, worker[w].label) /\ DOMAIN worker[w].entries = {}
      /\ r.label \in 0 .. MaxVersion /\ r.version \in 0 .. MaxVersion
  BY WorkerFields DEF WorkerOK, WithJob, Worker
<1>2. /\ Wanted(r.q, r.label)'
      /\ Fits(r.q, r.label, r.version) => Fits(r.q, r.label, r.version)'
  BY <1>1, FitsStays
<1>3. Current(r.owner, r.entries)'
  BY <1>1 DEF Current
<1> QED
  BY <1>1, <1>2, <1>3 DEF WorkerOK, WithJob

\* The invariant, put together from its parts after a step.
LEMMA Joined ==
    ASSUME GoesOn, worker' \in [Workers -> Worker], wire' \subseteq Call,
           faults' \in 0 .. MaxFaults,
           \A w \in Workers : WorkerOK(w)', \A m \in wire' : MessageOK(m)', Sessions'
    PROVE  QInv'
BY DEF QInv, TypeOK, GoesOn, StoreTyped

\* A step of a running worker that sends nothing keeps to its session.
LEMMA SessionsKept ==
    ASSUME QInv, NEW w \in Workers, worker[w].at # "idle", wire' \subseteq wire,
           \A v \in Workers : v # w => worker'[v] = worker[v],
           worker'[w].owner \in {worker[w].owner, NoOwner},
           worker[w].at = "finishing" => worker'[w].owner = NoOwner
    PROVE  Sessions'
<1>1. Sessions /\ worker[w].owner \in Owners /\ worker[w].owner # NoOwner /\ wire \subseteq Call
  BY WorkerFields DEF QInv, TypeOK
<1>2. \A m \in wire : m.owner # NoOwner
  BY <1>1, CallFields, BankAssumption DEF BankAssumption
<1>3. \A v, u \in Workers :
         worker'[v].owner = worker'[u].owner /\ worker'[u].owner # NoOwner => v = u
  BY <1>1 DEF Sessions
<1>4. \A m \in wire' : m.op = "begin" =>
          /\ \A v \in Workers : worker'[v].owner # m.owner
          /\ \A c \in wire' : c.owner = m.owner => c.op = "begin"
  BY <1>1, <1>2 DEF Sessions
<1>5. ASSUME NEW m \in wire', m.op = "catalog"
      PROVE  /\ \A v \in Workers : worker'[v].owner = m.owner => worker'[v].at = "finishing"
             /\ \A c \in wire' : c.owner = m.owner /\ c.op = "catalog" => c = m
  BY <1>1, <1>2, <1>5 DEF Sessions
<1> QED
  BY <1>3, <1>4, <1>5 DEF Sessions

\* Nor does one that gives up a call.
LEMMA SessionsSent ==
    ASSUME QInv, NEW w \in Workers, worker[w].at # "idle",
           NEW m \in Call, m.owner = worker[w].owner, m.op # "begin",
           wire' = wire \cup {m},
           \A v \in Workers : v # w => worker'[v] = worker[v],
           worker'[w].owner \in {worker[w].owner, NoOwner},
           m.op = "catalog" => worker'[w].at = "finishing",
           worker[w].at = "finishing" => worker'[w].owner = NoOwner /\ m.op # "catalog"
    PROVE  Sessions'
<1>1. Sessions /\ worker[w].owner \in Owners /\ worker[w].owner # NoOwner /\ wire \subseteq Call
  BY WorkerFields DEF QInv, TypeOK
<1>2. \A c \in wire' : c.owner # NoOwner
  BY <1>1, CallFields, BankAssumption DEF BankAssumption
<1>3. \A v, u \in Workers :
         worker'[v].owner = worker'[u].owner /\ worker'[u].owner # NoOwner => v = u
  BY <1>1 DEF Sessions
<1>4. ASSUME NEW d \in wire', d.op = "begin"
      PROVE  /\ \A v \in Workers : worker'[v].owner # d.owner
             /\ \A c \in wire' : c.owner = d.owner => c.op = "begin"
  <2>1. d \in wire /\ d.owner # worker[w].owner
    BY <1>1, <1>4 DEF Sessions
  <2> QED
    BY <1>1, <1>2, <1>4, <2>1 DEF Sessions
<1>5. ASSUME NEW d \in wire', d.op = "catalog"
      PROVE  /\ \A v \in Workers : worker'[v].owner = d.owner => worker'[v].at = "finishing"
             /\ \A c \in wire' : c.owner = d.owner /\ c.op = "catalog" => c = d
  <2>1. \A c \in wire : c.op = "catalog" /\ c.owner = worker[w].owner
                        => worker[w].at = "finishing"
    BY <1>1 DEF Sessions
  <2>2. CASE d \in wire
    BY <1>1, <1>2, <1>5, <2>1, <2>2 DEF Sessions
  <2>3. CASE d = m
    BY <1>1, <1>2, <1>3, <1>5, <2>1, <2>3 DEF Sessions
  <2> QED
    BY <2>2, <2>3
<1> QED
  BY <1>3, <1>4, <1>5 DEF Sessions

\* A call of a running worker keeps the invariant if it leaves the worker sound.
LEMMA CallsKeep ==
    ASSUME QInv, NEW w \in Workers, worker[w].at # "idle",
           NEW m \in Call, MessageOK(m), m.owner = worker[w].owner, m.op # "begin",
           m.op = "catalog" <=> worker[w].at = "catalog",
           NEW heard \in Worker, NEW failed \in Worker, Calls(w, m, heard, failed),
           heard.owner \in {worker[w].owner, NoOwner}, failed.owner \in {worker[w].owner, NoOwner},
           m.op = "catalog" => failed.at = "finishing",
           worker[w].at = "finishing" => heard.owner = NoOwner /\ failed.owner = NoOwner,
           GoesOn /\ ((worker'[w] = heard /\ Accepted(m)) \/ worker'[w] = failed) => WorkerOK(w)'
    PROVE  QInv'
<1>1. /\ worker \in [Workers -> Worker] /\ wire \subseteq Call /\ faults \in 0 .. MaxFaults
      /\ MaxFaults \in Nat
      /\ \A c \in wire : MessageOK(c)
  BY BankAssumption DEF QInv, TypeOK, BankAssumption
<1>2. \/ Becomes(w, heard) /\ Accepted(m)
      \/ Becomes(w, failed)
  BY DEF Calls
<1>3. /\ worker' \in [Workers -> Worker] /\ \A v \in Workers : v # w => worker'[v] = worker[v]
      /\ (worker'[w] = heard /\ Accepted(m)) \/ worker'[w] = failed
  BY <1>1, <1>2 DEF Becomes
<1>4. /\ UNCHANGED filed /\ faults' \in 0 .. MaxFaults
      /\ wire' = wire \/ (wire' = wire \cup {m} /\ worker'[w] = failed)
      /\ Accepted(m) \/ UNCHANGED storeVars
  BY <1>1, <1>3 DEF Calls, Fault, Becomes
<1>5. GoesOn /\ \A o : m.op # "catalog" \/ o # m.owner => Quiet(o)
  BY <1>4, AcceptedGoesOn, StoreStays DEF Undisturbed
<1>6. \A v \in Workers : v # w => worker[v].owner # worker[w].owner
  <2>1. worker[w].owner # NoOwner
    BY WorkerFields
  <2> QED
    BY <2>1 DEF QInv, Sessions
<1>7. \A v \in Workers : WorkerOK(v)'
  <2> TAKE v \in Workers
  <2>1. CASE v = w
    BY <1>3, <1>5, <2>1
  <2>2. CASE v # w
    BY <1>3, <1>5, <1>6, <2>2, WorkerStays
  <2> QED
    BY <2>1, <2>2
<1>8. \A c \in wire' : MessageOK(c)'
  <2> TAKE c \in wire'
  <2>1. c \in Call /\ MessageOK(c)
    BY <1>1, <1>4
  <2>2. ASSUME c.op = "catalog", ~Quiet(c.owner) PROVE FALSE
    <3>1. m.op = "catalog" /\ c.owner = worker[w].owner
      BY <1>5, <2>2
    <3>2. worker[w].at = "catalog" /\ c \notin wire
      BY <2>2, <3>1 DEF QInv, Sessions
    <3>3. c = m /\ wire' = wire \cup {m} /\ ~ UNCHANGED wire
      BY <1>4, <3>2
    <3>4. UNCHANGED storeVars
      BY <3>3 DEF Calls
    <3> QED
      BY <1>4, <2>2, <3>4, StoreStays
  <2> QED
    BY <1>5, <2>1, <2>2, MessageStays
<1>9. Sessions'
  <2>1. CASE wire' = wire
    BY <1>3, <2>1, SessionsKept
  <2>2. CASE wire' = wire \cup {m} /\ worker'[w] = failed
    BY <1>3, <2>2, SessionsSent
  <2> QED
    BY <1>4, <2>1, <2>2
<1>10. wire' \subseteq Call
  BY <1>1, <1>4
<1> QED
  BY <1>3, <1>4, <1>5, <1>7, <1>8, <1>9, <1>10, Joined

\* So does a step of the worker alone.
LEMMA MovesKeep ==
    ASSUME QInv, NEW w \in Workers, worker[w].at # "idle",
           NEW r \in Worker, Moves(w, r) \/ Stumbles(w, r),
           r.owner \in {worker[w].owner, NoOwner},
           worker[w].at = "finishing" => r.owner = NoOwner,
           GoesOn /\ worker'[w] = r => WorkerOK(w)'
    PROVE  QInv'
<1>1. /\ worker \in [Workers -> Worker] /\ wire \subseteq Call /\ faults \in 0 .. MaxFaults
      /\ MaxFaults \in Nat
      /\ \A c \in wire : MessageOK(c)
  BY BankAssumption DEF QInv, TypeOK, BankAssumption
<1>2. /\ Becomes(w, r) /\ UNCHANGED <<filed, storeVars>> /\ UNCHANGED wire
      /\ faults' \in 0 .. MaxFaults
  BY <1>1 DEF Moves, Stumbles, Fault
<1>3. /\ worker' \in [Workers -> Worker] /\ \A v \in Workers : v # w => worker'[v] = worker[v]
      /\ worker'[w] = r
  BY <1>1, <1>2 DEF Becomes
<1>4. GoesOn /\ \A o : Quiet(o)
  BY <1>2, StoreStays
<1>5. \A v \in Workers : WorkerOK(v)'
  BY <1>3, <1>4, WorkerStays
<1>6. \A c \in wire' : MessageOK(c)'
  BY <1>1, <1>2, <1>4, MessageStays
<1>7. Sessions'
  BY <1>2, <1>3, SessionsKept
<1> QED
  BY <1>1, <1>2, <1>3, <1>4, <1>5, <1>6, <1>7, Joined

\* And a step of the store in which no worker takes part.
LEMMA StoreKeeps ==
    ASSUME QInv, GoesOn, \A o : Quiet(o), UNCHANGED <<worker, wire>>, faults' \in 0 .. MaxFaults
    PROVE  QInv'
<1>1. /\ worker \in [Workers -> Worker] /\ wire \subseteq Call
      /\ \A c \in wire : MessageOK(c)
  BY DEF QInv, TypeOK
<1>2. \A v \in Workers : WorkerOK(v)'
  BY WorkerStays
<1>3. \A c \in wire' : MessageOK(c)'
  BY <1>1, MessageStays
<1>4. Sessions'
  BY DEF QInv, Sessions
<1> QED
  BY <1>1, <1>2, <1>3, <1>4, Joined

\* A call that was given up is served late, or never.
LEMMA LateKeeps == ASSUME QInv, NEW m \in wire, Late(m) PROVE QInv'
<1>1. /\ worker \in [Workers -> Worker] /\ wire \subseteq Call /\ m \in Call
      /\ \A c \in wire : MessageOK(c)
      /\ wire' = wire \ {m} /\ UNCHANGED <<filed, worker, faults>>
      /\ Accepted(m) \/ UNCHANGED storeVars
      /\ Sessions /\ faults \in 0 .. MaxFaults
  BY DEF QInv, TypeOK, Late
<1>2. GoesOn /\ \A o : m.op \notin {"begin", "catalog"} \/ o # m.owner => Quiet(o)
  BY <1>1, AcceptedGoesOn, StoreStays DEF Undisturbed
<1>3. ASSUME NEW v \in Workers PROVE WorkerOK(v)'
  <2>1. m.op = "begin" => worker[v].owner # m.owner
    BY <1>1 DEF Sessions
  <2>2. m.op = "catalog" /\ worker[v].owner = m.owner => DOMAIN worker[v].entries = {}
    BY <1>1, WorkerFields DEF Sessions, WorkerOK
  <2> QED
    BY <1>1, <1>2, <2>1, <2>2, WorkerStays
<1>4. ASSUME NEW c \in wire' PROVE MessageOK(c)'
  <2>1. c \in wire /\ c # m /\ c \in Call /\ MessageOK(c)
    BY <1>1
  <2>2. c.op = "catalog" /\ m.op \in {"begin", "catalog"} => c.owner # m.owner
    BY <1>1, <2>1 DEF Sessions
  <2> QED
    BY <1>2, <2>1, <2>2, MessageStays
<1>5. Sessions'
  BY <1>1 DEF Sessions
<1> QED
  BY <1>1, <1>2, <1>3, <1>4, <1>5, Joined

-------------------------------------------------------------------------------
(* Readers, the source and time.                                             *)

\* What is kept of the rows lets time and readers pass.
LEMMA QuietRows ==
    ASSUME QInv, UNCHANGED <<filed, panel, reports>>,
           control' \in [owner: Owners \cup {NoOwner}, live: BOOLEAN, cooling: BOOLEAN],
           retained' \subseteq Periods, wanted' \subseteq Banks,
           job' = [q \in Quarters |-> job'[q]],
           \A q \in Quarters : RowGoesOn(q),
           control'.live => control'.owner = control.owner /\ control.live,
           UNCHANGED <<worker, wire>>, faults' \in 0 .. MaxFaults
    PROVE  QInv'
<1>1. GoesOn
  <2>1. panel' \in [Quarters -> Unlisted .. MaxVersion]
    BY DEF QInv, TypeOK
  <2> QED
    BY <2>1, RowsGoOn
<1>2. \A o : Quiet(o)
  BY DEF Quiet, Owns
<1> QED
  BY <1>1, <1>2, StoreKeeps

\* Rows that stay.
LEMMA SameRows ==
    ASSUME QInv, UNCHANGED <<filed, panel, job>>
    PROVE  /\ \A q \in Quarters : RowGoesOn(q)
           /\ job' = [q \in Quarters |-> job'[q]]
<1>1. StoreTyped /\ \A q \in Quarters : RowOK(q)
  BY DEF QInv, TypeOK, StoreTyped
<1>2. \A q \in Quarters : panel[q] \in Int /\ panel[q] <= filed[q]
  BY <1>1, StoreFields DEF RowOK, Unlisted
<1> QED
  BY <1>1, <1>2, RowStays DEF StoreTyped

\* A reader asks for a bank.
LEMMA RequestKeeps == ASSUME QInv, NEW b \in Banks, Request(b) PROVE QInv'
<1> DEFINE missing == {q \in Quarters : q[1] = b /\ q[2] \in retained /\ panel[q] # Unlisted
                                        /\ job[q].state = "absent"}
<1>1. /\ job' = [q \in Quarters |-> IF q \in missing THEN Asked(q, panel[q]) ELSE job[q]]
      /\ wanted' = wanted \cup {b}
      /\ UNCHANGED <<control, retained, panel, reports, filed, worker, wire, faults>>
  BY DEF Request, ServeRequest
<1>2. StoreTyped /\ faults \in 0 .. MaxFaults
  BY DEF QInv, TypeOK, StoreTyped
<1>3. ASSUME NEW q \in Quarters PROVE RowGoesOn(q)
  <2>1. /\ panel[q] \in Unlisted .. MaxVersion /\ panel[q] \in Int /\ panel[q] <= filed[q]
        /\ MaxVersion \in Nat /\ job[q].desired \in Nat /\ RowOK(q)
        /\ panel'[q] = panel[q] /\ filed'[q] = filed[q]
    BY <1>1, <1>2, StoreFields DEF QInv, RowOK, Unlisted
  <2>2. CASE q \in missing
    <3>1. job'[q] = Asked(q, panel[q]) /\ job[q].state = "absent" /\ panel[q] # Unlisted
      BY <1>1, <2>2
    <3>2. panel[q] \in 0 .. MaxVersion /\ job[q].desired = 0
      BY <2>1, <3>1 DEF Unlisted, RowOK
    <3> QED
      BY <2>1, <3>1, <3>2, AskedRow DEF RowGoesOn, RowOK
  <2>3. CASE q \notin missing
    <3>1. job'[q] = job[q] /\ UNCHANGED filed
      BY <1>1, <2>3
    <3> QED
      BY <2>1, <3>1, RowStays
  <2> QED
    BY <2>2, <2>3
<1>4. job' = [q \in Quarters |-> job'[q]]
  BY <1>1
<1> QED
  BY <1>1, <1>2, <1>3, <1>4, QuietRows DEF StoreTyped

\* A bank files, or files again.
LEMMA FileKeeps == ASSUME QInv, NEW q \in Quarters, File(q) PROVE QInv'
<1>1. /\ filed[q] < MaxVersion /\ filed' = [filed EXCEPT ![q] = @ + 1]
      /\ UNCHANGED <<storeVars, worker, wire, faults>>
  BY DEF File
<1>2. StoreTyped /\ faults \in 0 .. MaxFaults /\ \A p \in Quarters : RowOK(p) /\ KeptOK(p)
  BY DEF QInv, TypeOK, StoreTyped
<1>3. ASSUME NEW p \in Quarters
      PROVE  filed'[p] \in 0 .. MaxVersion /\ filed[p] <= filed'[p]
  BY <1>1, <1>2, StoreFields DEF StoreTyped
<1>4. filed' \in [Quarters -> 0 .. MaxVersion]
  BY <1>1, <1>2, <1>3 DEF StoreTyped
<1>5. ASSUME NEW p \in Quarters PROVE RowOK(p)' /\ KeptOK(p)'
  <2>1. /\ panel'[p] = panel[p] /\ job'[p] = job[p] /\ reports'[p] = reports[p]
        /\ Kept(p)' = Kept(p) /\ Kept(p) \subseteq Versions
    BY <1>1 DEF storeVars, Kept
  <2>2. /\ panel[p] \in Int /\ filed[p] \in Int /\ filed'[p] \in Int /\ filed[p] <= filed'[p]
        /\ MaxVersion \in Nat
    BY <1>2, <1>3, StoreFields DEF Unlisted
  <2>3. RowOK(p)'
    BY <1>2, <2>1, <2>2 DEF RowOK
  <2>4. KeptOK(p)'
    BY <1>2, <2>1, <2>2 DEF KeptOK
  <2> QED
    BY <2>3, <2>4
<1>6. StoreTyped' /\ ReadyMeansShown'
  <2>1. StoreTyped'
    BY <1>1, <1>2, <1>4 DEF StoreTyped, storeVars
  <2>2. \A p \in Quarters : Kept(p)' = Kept(p) /\ Shown(p)' = Shown(p)
    BY <1>1 DEF storeVars, Kept, Shown
  <2> QED
    BY <1>1, <2>1, <2>2 DEF QInv, ReadyMeansShown, storeVars
<1>7. \A p \in Quarters : job[p].desired <= job'[p].desired
  BY <1>1, <1>2, StoreFields DEF storeVars
<1>8. GoesOn
  BY <1>1, <1>3, <1>5, <1>6, <1>7 DEF GoesOn, storeVars
<1> QED
  BY <1>1, <1>2, <1>8, StoreKeeps DEF Quiet, Owns, storeVars

\* The time to try again comes.
LEMMA DueKeeps == ASSUME QInv, NEW q \in Quarters, Due(q) PROVE QInv'
<1>1. /\ job' = [job EXCEPT ![q].due = TRUE]
      /\ UNCHANGED <<filed, control, retained, panel, wanted, reports, worker, wire, faults>>
  BY DEF Due
<1>2. StoreTyped /\ faults \in 0 .. MaxFaults /\ \A p \in Quarters : RowOK(p)
  BY DEF QInv, TypeOK, StoreTyped
<1>3. ASSUME NEW p \in Quarters PROVE RowGoesOn(p)
  <2>1. /\ job[p] \in Job /\ job[p].desired \in Nat /\ RowOK(p)
        /\ job[p].state = "running" => job[p].owner # NoOwner
    BY <1>2, StoreFields DEF StoreTyped
  <2>2. /\ job'[p] \in Job /\ job'[p].state = job[p].state /\ job'[p].owner = job[p].owner
        /\ job'[p].desired = job[p].desired
    <3>1. job'[p] = IF p = q THEN [job[p] EXCEPT !.due = TRUE] ELSE job[p]
      BY <1>1, <1>2 DEF StoreTyped
    <3> QED
      BY <2>1, <3>1 DEF Job
  <2> QED
    BY <1>1, <2>1, <2>2 DEF RowGoesOn, RowOK
<1>4. job' = [p \in Quarters |-> job'[p]]
  BY <1>1, <1>2 DEF StoreTyped
<1> QED
  BY <1>1, <1>2, <1>3, <1>4, QuietRows DEF StoreTyped

\* Banks are forgotten, cooldowns and leases pass.
LEMMA TimeKeeps ==
    ASSUME QInv, CoolOff \/ Expire \/ Overrun \/ \E b \in Banks : Forget(b)
    PROVE  QInv'
<1>1. /\ StoreTyped /\ faults \in 0 .. MaxFaults /\ MaxFaults \in Nat
  BY BankAssumption DEF QInv, TypeOK, StoreTyped, BankAssumption
<1>2. /\ UNCHANGED <<filed, retained, panel, job, reports, worker, wire>>
      /\ wanted' \subseteq Banks /\ faults' \in 0 .. MaxFaults
      /\ \/ UNCHANGED control
         \/ control' = [control EXCEPT !.cooling = FALSE]
         \/ control' = [control EXCEPT !.live = FALSE]
  BY <1>1 DEF StoreTyped, CoolOff, Expire, Overrun, Lapse, Fault, Forget
<1>3. /\ control' \in [owner: Owners \cup {NoOwner}, live: BOOLEAN, cooling: BOOLEAN]
      /\ control'.live => control'.owner = control.owner /\ control.live
  BY <1>1, <1>2 DEF StoreTyped
<1>4. /\ \A q \in Quarters : RowGoesOn(q)
      /\ job' = [q \in Quarters |-> job'[q]]
  BY <1>2, SameRows
<1>5. retained' \subseteq Periods
  BY <1>1, <1>2 DEF StoreTyped
<1> QED
  BY <1>2, <1>3, <1>4, <1>5, QuietRows

-------------------------------------------------------------------------------
(* What workers do.                                                          *)

\* A run begins under an owner that nobody used.
LEMMA BeginKeeps == ASSUME QInv, NEW w \in Workers, Begin(w) PROVE QInv'
<1>1. PICK o : o = Fresh
  OBVIOUS
<1>2. o \in Owners /\ ~InUse(o)
  BY <1>1 DEF Begin, Fresh, Unused
<1> DEFINE m == [op |-> "begin", owner |-> o]
<1> DEFINE heard == [Idle EXCEPT !.at = "begun", !.owner = o]
<1>3. /\ m \in Call /\ m.op = "begin" /\ m.owner = o /\ MessageOK(m)
  BY <1>2 DEF Call, MessageOK
<1>4. /\ heard \in Worker /\ heard.at = "begun" /\ heard.owner = o /\ heard.entries = NoEntries
      /\ Idle \in Worker /\ Idle.at = "idle" /\ Idle.owner = NoOwner /\ Idle.entries = NoEntries
      /\ DOMAIN NoEntries = {}
  <2>1. "begun" \in Places
    BY DEF Places
  <2> QED
    BY <1>2, <2>1, FreeRow DEF Worker, Idle
<1>5. /\ worker \in [Workers -> Worker] /\ wire \subseteq Call /\ faults \in 0 .. MaxFaults
      /\ MaxFaults \in Nat /\ o # NoOwner
      /\ \A c \in wire : MessageOK(c) /\ c.owner # o
      /\ \A v \in Workers : worker[v].owner # o
      /\ Sessions
  BY <1>2, BankAssumption DEF QInv, TypeOK, BankAssumption, InUse
<1>6. /\ UNCHANGED filed /\ faults' \in 0 .. MaxFaults
      /\ wire' \in {wire, wire \cup {m}}
      /\ Accepted(m) \/ UNCHANGED storeVars
      /\ \/ UNCHANGED worker
         \/ Becomes(w, Idle)
         \/ Becomes(w, heard) /\ UNCHANGED wire
  <2>1. \/ Calls(w, m, heard, Idle)
        \/ /\ Fault /\ wire' = wire \cup {m}
           /\ UNCHANGED <<filed, storeVars, worker>>
    BY <1>1 DEF Begin
  <2> QED
    BY <1>5, <2>1 DEF Calls, Fault
<1> HIDE DEF m, heard
<1>7. GoesOn /\ \A p : p # o => Quiet(p)
  BY <1>3, <1>6, AcceptedGoesOn, StoreStays DEF Undisturbed
<1>8. /\ worker' \in [Workers -> Worker] /\ \A v \in Workers : v # w => worker'[v] = worker[v]
      /\ \/ worker'[w] = worker[w]
         \/ worker'[w] = Idle
         \/ worker'[w] = heard /\ UNCHANGED wire
  BY <1>4, <1>5, <1>6 DEF Becomes
<1>9. ASSUME NEW v \in Workers PROVE WorkerOK(v)'
  <2>1. CASE worker'[v] = worker[v]
    BY <1>5, <1>7, <2>1, WorkerStays
  <2>2. CASE v = w /\ worker'[w] \in {Idle, heard}
    <3>1. PICK r : r = worker'[w]
      OBVIOUS
    <3>2. /\ r.at = "idle" <=> r.owner = NoOwner
          /\ r.at \in {"idle", "begun"} /\ DOMAIN r.entries = {}
      BY <1>4, <1>5, <2>2, <3>1
    <3>3. Current(r.owner, r.entries)'
      BY <3>2 DEF Current
    <3> QED
      BY <2>2, <3>1, <3>2, <3>3 DEF WorkerOK, WithJob
  <2> QED
    BY <1>8, <2>1, <2>2
<1>10. ASSUME NEW c \in wire' PROVE MessageOK(c)'
  <2>1. CASE c \in wire
    BY <1>5, <1>7, <2>1, MessageStays
  <2>2. CASE c = m
    BY <1>3, <2>2 DEF MessageOK
  <2> QED
    BY <1>6, <2>1, <2>2
<1>11. Sessions'
  <2>1. wire' \subseteq wire \cup {m}
    BY <1>6
  <2>2. \A v, u \in Workers :
           worker'[v].owner = worker'[u].owner /\ worker'[u].owner # NoOwner => v = u
    BY <1>4, <1>5, <1>8 DEF Sessions
  <2>3. \A c \in wire : c.owner # NoOwner
    BY <1>5, CallFields, BankAssumption DEF BankAssumption
  <2>4. ASSUME NEW d \in wire', d.op = "begin"
        PROVE  /\ \A v \in Workers : worker'[v].owner # d.owner
               /\ \A c \in wire' : c.owner = d.owner => c.op = "begin"
    <3>1. CASE d \in wire
      BY <1>3, <1>4, <1>5, <1>8, <2>1, <2>3, <2>4, <3>1 DEF Sessions
    <3>2. CASE d \notin wire
      <4>1. d = m /\ ~ UNCHANGED wire
        BY <2>1, <2>4, <3>2
      <4> QED
        BY <1>3, <1>4, <1>5, <1>8, <2>1, <4>1
    <3> QED
      BY <3>1, <3>2
  <2>5. ASSUME NEW d \in wire', d.op = "catalog"
        PROVE  /\ \A v \in Workers : worker'[v].owner = d.owner => worker'[v].at = "finishing"
               /\ \A c \in wire' : c.owner = d.owner /\ c.op = "catalog" => c = d
    <3>1. d \in wire /\ \A c \in wire' : c.op = "catalog" => c \in wire
      BY <1>3, <2>1, <2>5
    <3> QED
      BY <1>4, <1>5, <1>8, <2>3, <2>5, <3>1 DEF Sessions
  <2> QED
    BY <2>2, <2>4, <2>5 DEF Sessions
<1>12. wire' \subseteq Call
  BY <1>3, <1>5, <1>6
<1> QED
  BY <1>6, <1>7, <1>8, <1>9, <1>10, <1>11, <1>12, Joined

\* A worker without a job or entries is sound.
LEMMA LightOK ==
    ASSUME NEW w \in Workers, NEW r, worker'[w] = r, r.owner # NoOwner,
           r.at \notin WithJob \cup {"idle", "catalog"}, DOMAIN r.entries = {}
    PROVE  WorkerOK(w)'
<1>1. Current(r.owner, r.entries)'
  BY DEF Current
<1> QED
  BY <1>1 DEF WorkerOK, WithJob

\* A worker that only changes its place, or stumbles.
LEMMA MovedRow ==
    ASSUME QInv, NEW w \in Workers, NEW place \in Places, NEW f \in Failures
    PROVE  /\ At(w, place) \in Worker /\ At(w, place).at = place
           /\ At(w, place).owner = worker[w].owner /\ At(w, place).entries = worker[w].entries
           /\ At(w, place).q = worker[w].q /\ At(w, place).label = worker[w].label
           /\ At(w, place).version = worker[w].version
           /\ Failing(w, f) \in Worker /\ Failing(w, f).at = "failing"
           /\ Failing(w, f).owner = worker[w].owner /\ Failing(w, f).entries = worker[w].entries
           /\ Failing(w, f).q = worker[w].q /\ Failing(w, f).label = worker[w].label
           /\ Failing(w, f).failure = f
<1>1. worker[w] \in Worker /\ 0 \in 0 .. MaxTries
  BY WorkerFields, BankAssumption DEF BankAssumption
<1>2. /\ At(w, place) \in Worker /\ At(w, place).at = place
      /\ At(w, place).owner = worker[w].owner /\ At(w, place).entries = worker[w].entries
      /\ At(w, place).q = worker[w].q /\ At(w, place).label = worker[w].label
      /\ At(w, place).version = worker[w].version
  BY <1>1 DEF At, Worker
<1>3. "failing" \in Places
  BY DEF Places
<1>4. /\ Failing(w, f) \in Worker /\ Failing(w, f).at = "failing"
      /\ Failing(w, f).owner = worker[w].owner /\ Failing(w, f).entries = worker[w].entries
      /\ Failing(w, f).q = worker[w].q /\ Failing(w, f).label = worker[w].label
      /\ Failing(w, f).failure = f
  BY <1>1, <1>3 DEF Failing, At, Worker
<1> QED
  BY <1>2, <1>4

\* The failures of a job leave its worker sound.
LEMMA FailingOK ==
    ASSUME QInv, GoesOn, NEW w \in Workers, worker[w].at \in WithJob, NEW f \in Failures,
           worker'[w] = Failing(w, f)
    PROVE  WorkerOK(w)'
<1>1. PICK r \in Worker : r = Failing(w, f)
  BY MovedRow DEF Places
<1>2. /\ r.at = "failing" /\ r.owner = worker[w].owner /\ r.entries = worker[w].entries
      /\ r.q = worker[w].q /\ r.label = worker[w].label /\ r.failure = f /\ f # "none"
  BY <1>1, MovedRow DEF Places, Failures, Transient
<1>3. r.at \in WithJob /\ r.at \notin {"retaining", "parsing"}
  BY <1>2 DEF WithJob
<1> QED
  BY <1>1, <1>2, <1>3, JobRowOK

\* The places that a worker may go to without a job.
LEMMA FreePlaces ==
    {"begun", "listing", "preparing", "cooling", "finishing"}
        \subseteq Places \ (WithJob \cup {"idle", "catalog"})
BY DEF Places, WithJob

\* A worker without a job leaves, or moves on.
LEMMA FreeMoves ==
    ASSUME QInv, NEW w \in Workers, worker[w].at # "idle",
           NEW place \in {"begun", "listing", "preparing", "cooling", "finishing"},
           worker[w].at # "finishing",
           Moves(w, Free(w, place)) \/ Stumbles(w, Free(w, place))
    PROVE  QInv'
<1>1. PICK r : r = Free(w, place)
  OBVIOUS
<1>2. r \in Worker /\ r.owner = worker[w].owner /\ worker[w].owner # NoOwner
  BY <1>1, FreeRow, WorkerFields, FreePlaces
<1>3. worker'[w] = r => WorkerOK(w)'
  BY <1>1, <1>2, FreeOK, FreePlaces
<1> QED
  BY <1>1, <1>2, <1>3, MovesKeep

\* A job fails.
LEMMA FailingMoves ==
    ASSUME QInv, NEW w \in Workers, worker[w].at \in WithJob, NEW f \in Failures,
           Moves(w, Failing(w, f)) \/ Stumbles(w, Failing(w, f))
    PROVE  QInv'
<1>1. PICK r : r = Failing(w, f)
  OBVIOUS
<1>2. r \in Worker /\ r.owner = worker[w].owner /\ worker[w].at \notin {"idle", "finishing"}
  BY <1>1, MovedRow DEF Places, WithJob
<1>3. GoesOn /\ worker'[w] = r => WorkerOK(w)'
  BY <1>1, FailingOK
<1> QED
  BY <1>1, <1>2, <1>3, MovesKeep

\* The periods of the catalog.
LEMMA SavePeriodsKeeps == ASSUME QInv, NEW w \in Workers, SavePeriods(w) PROVE QInv'
<1>1. /\ worker[w].at = "begun" /\ worker[w].owner \in Owners /\ worker[w].owner # NoOwner
      /\ DOMAIN worker[w].entries = {}
  BY WorkerFields DEF SavePeriods, WorkerOK
<1>2. PICK r : r = At(w, "listing")
  OBVIOUS
<1>3. r \in Worker /\ r.at = "listing" /\ r.owner = worker[w].owner /\ r.entries = worker[w].entries
  BY <1>2, MovedRow DEF Places, Failures
<1>4. worker'[w] = r => WorkerOK(w)'
  BY <1>1, <1>3, LightOK, FreePlaces
<1>5. CASE Moves(w, At(w, "listing"))
  BY <1>1, <1>2, <1>3, <1>4, <1>5, MovesKeep
<1>7. CASE \E place \in {"cooling", "finishing"} : Stumbles(w, Free(w, place))
  BY <1>1, <1>7, FreeMoves
<1>6. ASSUME NEW W \in Windows,
             Calls(w, [op |-> "periods", owner |-> worker[w].owner, list |-> W],
                   At(w, "listing"), Free(w, "finishing"))
      PROVE  QInv'
  <2>1. PICK m : m = [op |-> "periods", owner |-> worker[w].owner, list |-> W]
    OBVIOUS
  <2>2. m \in Call /\ m.op = "periods" /\ m.owner = worker[w].owner /\ MessageOK(m)
    BY <1>1, <2>1 DEF Call, MessageOK
  <2>3. PICK failed : failed = Free(w, "finishing")
    OBVIOUS
  <2>4. failed \in Worker /\ failed.owner = worker[w].owner
    BY <2>3, FreeRow, FreePlaces
  <2>5. worker'[w] = failed => WorkerOK(w)'
    BY <1>1, <2>3, FreeOK, FreePlaces
  <2>6. Calls(w, m, r, failed)
    BY <1>2, <1>6, <2>1, <2>3
  <2> QED
    BY <1>1, <1>3, <1>4, <2>2, <2>4, <2>5, <2>6, CallsKeep
<1> QED
  BY <1>5, <1>6, <1>7 DEF SavePeriods

\* What the source lists under the lease is current.
LEMMA FetchPanelKeeps == ASSUME QInv, NEW w \in Workers, FetchPanel(w) PROVE QInv'
<1>1. worker[w].at = "listing" /\ worker[w] \in Worker /\ worker[w].owner # NoOwner
  BY WorkerFields DEF FetchPanel
<1>2. CASE \E place \in {"cooling", "finishing"} :
              Moves(w, Free(w, place)) \/ Stumbles(w, Free(w, place))
  BY <1>1, <1>2, FreeMoves
<1>3. ASSUME NEW p \in retained \ worker[w].checked,
             Moves(w, [At(w, "catalog") EXCEPT !.checked = @ \cup {p},
                          !.entries = [q \in Banks \X {p} |-> filed[q]]])
      PROVE  QInv'
  <2> DEFINE listed == [q \in Banks \X {p} |-> filed[q]]
  <2>1. StoreTyped /\ p \in Periods /\ \A q \in Quarters : RowOK(q)
    BY <1>3 DEF QInv, TypeOK, StoreTyped
  <2>2. Banks \X {p} \subseteq Quarters
    BY <2>1 DEF Quarters
  <2>3. listed \in [Banks \X {p} -> 0 .. MaxVersion]
    BY <2>1, <2>2, StoreFields
  <2>4. listed \in Entries
    BY <2>2, <2>3 DEF Entries
  <2>5. PICK r : r = [At(w, "catalog") EXCEPT !.checked = @ \cup {p}, !.entries = listed]
    OBVIOUS
  <2>6. /\ worker[w].checked \cup {p} \in SUBSET Periods /\ "catalog" \in Places
        /\ 0 \in 0 .. MaxTries
    BY <2>1, WorkerFields, BankAssumption DEF Places, BankAssumption
  <2>7. /\ r \in Worker /\ r.at = "catalog" /\ r.owner = worker[w].owner
        /\ r.entries = listed
    <3> HIDE DEF listed
    <3> QED
      BY <1>1, <2>4, <2>5, <2>6 DEF At, Worker
  <2>8. ASSUME GoesOn, worker'[w] = r PROVE WorkerOK(w)'
    <3>1. UNCHANGED <<filed, panel>>
      BY <1>3 DEF Moves, storeVars
    <3>2. \A q \in DOMAIN listed : q \in Quarters /\ listed[q] = filed[q]
      BY <2>2
    <3>3. \A q \in Quarters : /\ filed'[q] = filed[q] /\ panel'[q] = panel[q] /\ filed[q] \in Nat
                              /\ panel[q] <= filed[q]
      BY <2>1, <3>1, StoreFields DEF RowOK
    <3>4. Current(r.owner, r.entries)'
      <4>1. \A q \in DOMAIN r.entries : r.entries[q] <= filed'[q] /\ panel'[q] <= r.entries[q]
        BY <2>7, <3>2, <3>3
      <4> QED
        BY <4>1 DEF Current
    <3> QED
      BY <1>1, <2>7, <2>8, <3>4 DEF WorkerOK, WithJob
  <2> QED
    BY <1>1, <1>3, <2>5, <2>7, <2>8, MovesKeep
<1> QED
  BY <1>2, <1>3 DEF FetchPanel

\* A part of current entries is current.
LEMMA PartCurrent ==
    ASSUME NEW o, NEW entries \in Entries, Current(o, entries),
           NEW Q \in SUBSET DOMAIN entries, NEW e, e = [q \in Q |-> entries[q]]
    PROVE  Current(o, e) /\ e \in Entries /\ DOMAIN e = Q
<1>1. PICK D \in SUBSET Quarters : entries \in [D -> 0 .. MaxVersion]
  BY DEF Entries
<1>2. Q \in SUBSET Quarters /\ e \in [Q -> 0 .. MaxVersion]
  BY <1>1
<1> QED
  BY <1>2 DEF Current, Entries

\* A chunk of the entries is sent; the rest stays current.
LEMMA SaveCatalogKeeps == ASSUME QInv, NEW w \in Workers, SaveCatalog(w) PROVE QInv'
<1>1. /\ worker[w].at = "catalog" /\ worker[w] \in Worker /\ worker[w].owner \in Owners
      /\ worker[w].owner # NoOwner /\ worker[w].entries \in Entries
      /\ Current(worker[w].owner, worker[w].entries)
  BY WorkerFields DEF SaveCatalog, WorkerOK
<1>2. PICK Q \in SUBSET DOMAIN worker[w].entries :
        LET rest == DOMAIN worker[w].entries \ Q
            part(R) == [q \in R |-> worker[w].entries[q]]
        IN  Calls(w, [op |-> "catalog", owner |-> worker[w].owner, entries |-> part(Q)],
                  [worker[w] EXCEPT !.entries = part(rest),
                                    !.at = IF rest = {} THEN "listing" ELSE "catalog"],
                  Free(w, "finishing"))
  BY DEF SaveCatalog
<1>3. PICK rest : rest = DOMAIN worker[w].entries \ Q
  OBVIOUS
<1>4. PICK sent : sent = [q \in Q |-> worker[w].entries[q]]
  OBVIOUS
<1>5. PICK left : left = [q \in rest |-> worker[w].entries[q]]
  OBVIOUS
<1>6. PICK place : place = IF rest = {} THEN "listing" ELSE "catalog"
  OBVIOUS
<1>7. PICK m : m = [op |-> "catalog", owner |-> worker[w].owner, entries |-> sent]
  OBVIOUS
<1>8. PICK heard : heard = [worker[w] EXCEPT !.entries = left, !.at = place]
  OBVIOUS
<1>9. PICK failed : failed = Free(w, "finishing")
  OBVIOUS
<1>10. Calls(w, m, heard, failed)
  BY <1>2, <1>3, <1>4, <1>5, <1>6, <1>7, <1>8, <1>9
<1>11. /\ Current(worker[w].owner, sent) /\ sent \in Entries /\ DOMAIN sent = Q
       /\ Current(worker[w].owner, left) /\ left \in Entries /\ DOMAIN left = rest
  BY <1>1, <1>3, <1>4, <1>5, PartCurrent
<1>12. /\ m \in Call /\ m.op = "catalog" /\ m.owner = worker[w].owner /\ MessageOK(m)
       /\ m.entries = sent
  BY <1>1, <1>7, <1>11 DEF Call, MessageOK
<1>13. place \in Places /\ place \in {"listing", "catalog"} /\ (place # "catalog" => rest = {})
  BY <1>6 DEF Places
<1>14. /\ heard \in Worker /\ heard.at = place /\ heard.owner = worker[w].owner
       /\ heard.entries = left
  BY <1>1, <1>8, <1>11, <1>13 DEF Worker
<1>15. failed \in Worker /\ failed.owner = worker[w].owner /\ failed.at = "finishing"
  BY <1>9, FreeRow, FreePlaces
<1>16. worker'[w] = failed => WorkerOK(w)'
  BY <1>1, <1>9, FreeOK, FreePlaces
<1>17. ASSUME GoesOn, worker'[w] = heard, Accepted(m) PROVE WorkerOK(w)'
  <2>1. UNCHANGED filed
    BY <1>10 DEF Calls
  <2>2. ServeCatalog(m) /\ Owns(m.owner)
    BY <1>12, <1>17 DEF Accepted
  <2>3. /\ UNCHANGED control
        /\ \A q \in Quarters : q \notin Q => panel'[q] = panel[q]
    BY <1>11, <1>12, <2>1, <2>2, CatalogGoesOn DEF MessageOK
  <2>4. \A q \in DOMAIN left : q \in Quarters /\ q \notin Q
    BY <1>3, <1>11 DEF Entries
  <2>5. Current(heard.owner, left)'
    BY <1>11, <1>14, <2>1, <2>3, <2>4 DEF Current, Owns
  <2> QED
    BY <1>1, <1>11, <1>13, <1>14, <1>17, <2>5 DEF WorkerOK, WithJob
<1> QED
  BY <1>1, <1>10, <1>12, <1>14, <1>15, <1>16, <1>17, CallsKeep

\* A call between jobs, after which the run is at another place.
LEMMA FreeCalls ==
    ASSUME QInv, NEW w \in Workers, worker[w].at \notin {"idle", "catalog", "finishing"},
           NEW m \in Call, MessageOK(m), m.owner = worker[w].owner,
           m.op \notin {"begin", "catalog"},
           NEW a \in {"begun", "listing", "preparing", "cooling", "finishing"},
           NEW b \in {"begun", "listing", "preparing", "cooling", "finishing"},
           Calls(w, m, Free(w, a), Free(w, b))
    PROVE  QInv'
<1>1. PICK heard : heard = Free(w, a)
  OBVIOUS
<1>2. PICK failed : failed = Free(w, b)
  OBVIOUS
<1>3. /\ heard \in Worker /\ heard.owner = worker[w].owner
      /\ failed \in Worker /\ failed.owner = worker[w].owner /\ worker[w].owner # NoOwner
  BY <1>1, <1>2, FreeRow, FreePlaces, WorkerFields
<1>4. worker'[w] = heard \/ worker'[w] = failed => WorkerOK(w)'
  BY <1>1, <1>2, <1>3, FreeOK, FreePlaces
<1>5. Calls(w, m, heard, failed)
  BY <1>1, <1>2
<1> QED
  BY <1>3, <1>4, <1>5, CallsKeep

\* A job is claimed with the submission that it wants.
LEMMA ClaimKeeps == ASSUME QInv, NEW w \in Workers, Claim(w) PROVE QInv'
<1>1. /\ worker[w].at \in {"begun", "listing", "preparing"} /\ worker[w].at # "catalog"
      /\ worker[w].owner \in Owners /\ worker[w].owner # NoOwner
      /\ worker[w].at \notin {"idle", "finishing"}
  BY WorkerFields DEF Claim
<1>2. CASE Moves(w, Free(w, "finishing"))
  BY <1>1, <1>2, FreeMoves
<1>3. ASSUME NEW q \in Quarters,
             Calls(w, [op |-> "claim", owner |-> worker[w].owner, q |-> q],
                   [Free(w, "claimed") EXCEPT !.q = q, !.label = job[q].desired],
                   Free(w, "finishing"))
      PROVE  QInv'
  <2>1. StoreTyped /\ RowOK(q) /\ job[q].desired \in 0 .. MaxVersion /\ MaxVersion \in Nat
    BY StoreFields DEF QInv, TypeOK, StoreTyped
  <2>2. PICK label \in 0 .. MaxVersion : label = job[q].desired
    BY <2>1
  <2>3. PICK m : m = [op |-> "claim", owner |-> worker[w].owner, q |-> q]
    OBVIOUS
  <2>4. PICK free : free = Free(w, "claimed")
    OBVIOUS
  <2>5. PICK heard : heard = [free EXCEPT !.q = q, !.label = label]
    OBVIOUS
  <2>6. PICK failed : failed = Free(w, "finishing")
    OBVIOUS
  <2>7. Calls(w, m, heard, failed)
    BY <1>3, <2>2, <2>3, <2>4, <2>5, <2>6
  <2>8. m \in Call /\ m.op = "claim" /\ m.owner = worker[w].owner /\ MessageOK(m) /\ m.q = q
    BY <1>1, <2>3 DEF Call, MessageOK
  <2>9. /\ free \in Worker /\ free.owner = worker[w].owner /\ free.at = "claimed"
        /\ free.entries = NoEntries /\ DOMAIN NoEntries = {}
    BY <2>4, FreeRow DEF Places
  <2>10. /\ heard \in Worker /\ heard.owner = worker[w].owner /\ heard.at = "claimed"
         /\ heard.entries = NoEntries /\ heard.q = q /\ heard.label = label
    BY <2>5, <2>9 DEF Worker
  <2>11. failed \in Worker /\ failed.owner = worker[w].owner
    BY <2>6, FreeRow, FreePlaces
  <2>12. worker'[w] = failed => WorkerOK(w)'
    BY <1>1, <2>6, FreeOK, FreePlaces
  <2>13. ASSUME GoesOn, worker'[w] = heard, Accepted(m) PROVE WorkerOK(w)'
    <3>1. q \in Claimable
      BY <2>8, <2>13 DEF Accepted, ServeClaim
    <3>2. 0 < label /\ label <= job[q].desired
      BY <2>1, <2>2, <3>1 DEF Claimable, RowOK
    <3>3. Wanted(q, label)'
      <4>1. Wanted(q, label)
        BY <3>2 DEF Wanted
      <4>2. 0 \in 0 .. MaxVersion
        BY <2>1
      <4> QED
        BY <2>13, <4>1, <4>2, FitsStays
    <3>4. Current(heard.owner, heard.entries)'
      BY <2>9, <2>10 DEF Current
    <3> QED
      BY <1>1, <2>9, <2>10, <2>13, <3>3, <3>4, BankAssumption DEF WorkerOK, WithJob, BankAssumption
  <2> QED
    BY <1>1, <2>7, <2>8, <2>10, <2>11, <2>12, <2>13, CallsKeep
<1> QED
  BY <1>2, <1>3 DEF Claim

\* The latest retained source of the submission fits it.
LEMMA ReadSourceKeeps == ASSUME QInv, NEW w \in Workers, ReadSource(w) PROVE QInv'
<1> DEFINE saved == Saved(worker[w].q, worker[w].label)
<1>1. /\ worker[w].at = "claimed" /\ worker[w].at \in WithJob /\ worker[w] \in Worker
      /\ worker[w].at \notin {"idle", "finishing"}
      /\ worker[w].q \in Quarters /\ worker[w].label \in 0 .. MaxVersion
  BY WorkerFields DEF ReadSource, WithJob
<1>2. CASE Stumbles(w, Failing(w, "transient"))
  BY <1>1, <1>2, FailingMoves DEF Failures, Transient
<1>3. CASE Moves(w, At(w, "fetching"))
  <2>1. PICK r : r = At(w, "fetching")
    OBVIOUS
  <2>2. /\ r \in Worker /\ r.at = "fetching" /\ r.owner = worker[w].owner
        /\ r.entries = worker[w].entries /\ r.q = worker[w].q /\ r.label = worker[w].label
    BY <2>1, MovedRow DEF Places, Failures
  <2>3. GoesOn /\ worker'[w] = r => WorkerOK(w)'
    BY <1>1, <2>2, JobRowOK DEF WithJob
  <2> QED
    BY <1>1, <1>3, <2>1, <2>2, <2>3, MovesKeep
<1>4. CASE saved # {} /\ Moves(w, [At(w, "parsing") EXCEPT !.version = Max(saved)])
  <2>1. StoreTyped /\ KeptOK(worker[w].q)
    BY <1>1 DEF QInv, TypeOK, StoreTyped
  <2>2. saved \subseteq Versions
    BY DEF Saved, Kept
  <2>3. PICK last \in saved : last = Max(saved)
    <3>1. saved # {}
      BY <1>4
    <3> HIDE DEF saved
    <3>2. Max(saved) \in saved
      BY <2>2, <3>1, MaxIsLatest
    <3> QED
      BY <3>2
  <2>4. /\ last \in Versions /\ last \in Kept(worker[w].q)
        /\ reports[worker[w].q][last].of = worker[w].label
    BY <2>2, <2>3 DEF Saved
  <2> HIDE DEF saved
  <2>5. Fits(worker[w].q, worker[w].label, last)
    <3>1. worker[w].label <= last /\ last <= filed[worker[w].q]
      BY <2>1, <2>4 DEF KeptOK
    <3>2. ASSUME NEW n \in Kept(worker[w].q), reports[worker[w].q][n].of < worker[w].label
          PROVE  n <= last
      <4>1. n < last
        BY <2>1, <2>4, <3>2 DEF KeptOK
      <4>2. n \in Int /\ last \in Int
        BY <2>4 DEF Kept
      <4> QED
        BY <4>1, <4>2
    <3> QED
      BY <3>1, <3>2 DEF Fits
  <2>6. PICK moved : moved = At(w, "parsing")
    OBVIOUS
  <2>7. PICK r : r = [moved EXCEPT !.version = last]
    OBVIOUS
  <2>8. /\ moved \in Worker /\ moved.at = "parsing" /\ moved.owner = worker[w].owner
        /\ moved.entries = worker[w].entries /\ moved.q = worker[w].q
        /\ moved.label = worker[w].label
    BY <2>6, MovedRow DEF Places, Failures
  <2>9. last \in 0 .. MaxVersion
    BY <2>4
  <2>10. /\ r \in Worker /\ r.at = "parsing" /\ r.owner = worker[w].owner
         /\ r.entries = worker[w].entries /\ r.q = worker[w].q /\ r.label = worker[w].label
         /\ r.version = last
    BY <2>7, <2>8, <2>9 DEF Worker
  <2>11. GoesOn /\ worker'[w] = r => WorkerOK(w)'
    BY <1>1, <2>5, <2>10, JobRowOK DEF WithJob
  <2>12. Moves(w, r)
    BY <1>4, <2>3, <2>6, <2>7
  <2> QED
    BY <1>1, <2>10, <2>11, <2>12, MovesKeep
<1> QED
  BY <1>2, <1>3, <1>4 DEF ReadSource

\* A worker takes its job to another place.
LEMMA JobMoves ==
    ASSUME QInv, NEW w \in Workers, worker[w].at \in WithJob,
           NEW place \in WithJob \ {"retaining", "parsing", "failing"}, Moves(w, At(w, place))
    PROVE  QInv'
<1>1. PICK r : r = At(w, place)
  OBVIOUS
<1>2. /\ r \in Worker /\ r.at = place /\ r.owner = worker[w].owner
      /\ r.entries = worker[w].entries /\ r.q = worker[w].q /\ r.label = worker[w].label
  BY <1>1, MovedRow DEF Places, Failures, WithJob
<1>3. GoesOn /\ worker'[w] = r => WorkerOK(w)'
  BY <1>2, JobRowOK
<1> QED
  BY <1>1, <1>2, <1>3, MovesKeep DEF WithJob

\* What the source has by now is at least the submission that is wanted.
LEMMA FetchKeeps == ASSUME QInv, NEW w \in Workers, Fetch(w) PROVE QInv'
<1>1. /\ worker[w].at = "fetching" /\ worker[w].at \in WithJob /\ worker[w] \in Worker
      /\ worker[w].q \in Quarters /\ worker[w].label \in 0 .. MaxVersion
      /\ Wanted(worker[w].q, worker[w].label)
  BY WorkerFields DEF Fetch, WithJob, WorkerOK
<1>2. CASE \E f \in Failures : Moves(w, Failing(w, f)) \/ Stumbles(w, Failing(w, f))
  BY <1>1, <1>2, FailingMoves
<1>3. CASE Moves(w, At(w, "limited"))
  BY <1>1, <1>3, JobMoves DEF WithJob
<1>4. CASE Moves(w, [At(w, "retaining") EXCEPT !.version = filed[worker[w].q]])
  <2>1. StoreTyped /\ RowOK(worker[w].q) /\ KeptOK(worker[w].q)
    BY <1>1 DEF QInv, TypeOK, StoreTyped
  <2>2. PICK version \in 0 .. MaxVersion : version = filed[worker[w].q]
    BY <1>1, <2>1, StoreFields
  <2>3. Fits(worker[w].q, worker[w].label, version)
    <3>1. /\ panel[worker[w].q] \in Int /\ job[worker[w].q].desired \in Nat
          /\ MaxVersion \in Nat /\ worker[w].label \in Nat /\ version \in Nat
      BY <1>1, <2>1, StoreFields DEF Unlisted
    <3>2. 0 < worker[w].label /\ worker[w].label <= job[worker[w].q].desired
      BY <1>1 DEF Wanted
    <3>3. /\ job[worker[w].q].desired <= panel[worker[w].q]
          /\ panel[worker[w].q] <= version
      BY <2>1, <2>2, <3>1, <3>2 DEF RowOK
    <3>4. \A n \in Kept(worker[w].q) : n <= version
      BY <2>1, <2>2 DEF KeptOK
    <3> QED
      BY <2>2, <3>1, <3>2, <3>3, <3>4 DEF Fits
  <2>4. PICK moved : moved = At(w, "retaining")
    OBVIOUS
  <2>5. PICK r : r = [moved EXCEPT !.version = version]
    OBVIOUS
  <2>6. /\ moved \in Worker /\ moved.at = "retaining" /\ moved.owner = worker[w].owner
        /\ moved.entries = worker[w].entries /\ moved.q = worker[w].q
        /\ moved.label = worker[w].label
    BY <2>4, MovedRow DEF Places, Failures
  <2>7. /\ r \in Worker /\ r.at = "retaining" /\ r.owner = worker[w].owner
        /\ r.entries = worker[w].entries /\ r.q = worker[w].q /\ r.label = worker[w].label
        /\ r.version = version
    BY <2>5, <2>6 DEF Worker
  <2>8. GoesOn /\ worker'[w] = r => WorkerOK(w)'
    BY <1>1, <2>3, <2>7, JobRowOK DEF WithJob
  <2>9. Moves(w, r)
    BY <1>4, <2>2, <2>4, <2>5
  <2> QED
    BY <1>1, <2>7, <2>8, <2>9, MovesKeep
<1>5. \A f \in {"transient", "quota", "invalid", "not_filed"} : f \in Failures
  BY DEF Failures, Transient
<1> QED
  BY <1>2, <1>3, <1>4, <1>5 DEF Fetch

\* A call about a job, after which it fails or its worker is elsewhere.
LEMMA JobCalls ==
    ASSUME QInv, NEW w \in Workers, worker[w].at \in WithJob,
           NEW m \in Call, MessageOK(m), m.owner = worker[w].owner,
           m.op \notin {"begin", "catalog"},
           NEW heard \in Worker, heard.owner = worker[w].owner,
           NEW f \in Failures, Calls(w, m, heard, Failing(w, f)),
           GoesOn /\ worker'[w] = heard => WorkerOK(w)'
    PROVE  QInv'
<1>1. PICK failed : failed = Failing(w, f)
  OBVIOUS
<1>2. failed \in Worker /\ failed.owner = worker[w].owner
  BY <1>1, MovedRow DEF Places
<1>3. GoesOn /\ worker'[w] = failed => WorkerOK(w)'
  BY <1>1, FailingOK
<1>4. Calls(w, m, heard, failed)
  BY <1>1
<1> QED
  BY <1>2, <1>3, <1>4, CallsKeep DEF WithJob

\* The same place, for another attempt at the request.
LEMMA TriedRow ==
    ASSUME QInv, NEW w \in Workers, worker[w].tries + 1 < MaxTries,
           NEW r, r = [worker[w] EXCEPT !.tries = @ + 1]
    PROVE  /\ r \in Worker /\ r.at = worker[w].at /\ r.owner = worker[w].owner
           /\ r.entries = worker[w].entries /\ r.q = worker[w].q /\ r.label = worker[w].label
<1>1. worker[w] \in Worker /\ MaxTries \in Nat
  BY WorkerFields, BankAssumption DEF BankAssumption
<1>2. worker[w].tries \in 0 .. MaxTries
  BY <1>1 DEF Worker
<1>3. worker[w].tries + 1 \in 0 .. MaxTries
  BY <1>1, <1>2
<1> QED
  BY <1>1, <1>3 DEF Worker

\* Cooldowns of the client.
LEMMA CoolDownKeeps == ASSUME QInv, NEW w \in Workers, CoolDown(w) PROVE QInv'
<1>1. PICK m : m = [op |-> "cooldown", owner |-> worker[w].owner]
  OBVIOUS
<1>2. worker[w].at \in {"limited", "begun", "listing", "fetching"} /\ worker[w].owner \in Owners
  BY WorkerFields DEF CoolDown, Asking
<1>3. m \in Call /\ m.op = "cooldown" /\ m.owner = worker[w].owner /\ MessageOK(m)
  BY <1>1, <1>2 DEF Call, MessageOK
<1>4. CASE worker[w].at = "limited" /\ Calls(w, m, Failing(w, "quota"), Failing(w, "transient"))
  <2>1. "quota" \in Failures /\ "transient" \in Failures /\ worker[w].at \in WithJob
    BY <1>4 DEF Failures, Transient, WithJob
  <2>2. PICK heard : heard = Failing(w, "quota")
    OBVIOUS
  <2>3. heard \in Worker /\ heard.owner = worker[w].owner
    BY <2>1, <2>2, MovedRow DEF Places
  <2>4. GoesOn /\ worker'[w] = heard => WorkerOK(w)'
    BY <2>1, <2>2, FailingOK
  <2> QED
    BY <1>3, <1>4, <2>1, <2>2, <2>3, <2>4, JobCalls
<1>5. ASSUME worker[w].at \in {"begun", "listing", "fetching"},
             worker[w].tries + 1 < MaxTries,
             NEW failed,
             failed = IF worker[w].at = "fetching" THEN Failing(w, "transient") ELSE Free(w, "finishing"),
             Calls(w, m, [worker[w] EXCEPT !.tries = @ + 1], failed)
      PROVE  QInv'
  <2>1. PICK heard : heard = [worker[w] EXCEPT !.tries = @ + 1]
    OBVIOUS
  <2>2. /\ heard \in Worker /\ heard.at = worker[w].at /\ heard.owner = worker[w].owner
        /\ heard.entries = worker[w].entries /\ heard.q = worker[w].q
        /\ heard.label = worker[w].label
    BY <1>5, <2>1, TriedRow
  <2>3. Calls(w, m, heard, failed)
    BY <1>5, <2>1
  <2>4. CASE worker[w].at = "fetching"
    <3>1. "transient" \in Failures /\ worker[w].at \in WithJob
      BY <2>4 DEF Failures, Transient, WithJob
    <3>2. GoesOn /\ worker'[w] = heard => WorkerOK(w)'
      BY <2>2, <2>4, <3>1, JobRowOK
    <3>3. Calls(w, m, heard, Failing(w, "transient"))
      BY <1>5, <2>3, <2>4
    <3> QED
      BY <1>3, <2>2, <3>1, <3>2, <3>3, JobCalls
  <2>5. CASE worker[w].at \in {"begun", "listing"}
    <3>1. worker[w].owner # NoOwner /\ DOMAIN worker[w].entries = {}
      BY <2>5, WorkerFields DEF WorkerOK
    <3>2. worker'[w] = heard => WorkerOK(w)'
      BY <2>2, <2>5, <3>1, LightOK, FreePlaces
    <3>3. failed = Free(w, "finishing")
      BY <1>5, <2>5
    <3>4. failed \in Worker /\ failed.owner = worker[w].owner
      BY <3>3, FreeRow, FreePlaces
    <3>5. worker'[w] = failed => WorkerOK(w)'
      BY <3>1, <3>3, FreeOK, FreePlaces
    <3>6. worker[w].at \notin {"idle", "catalog", "finishing"} /\ m.op \notin {"begin", "catalog"}
      BY <1>3, <2>5
    <3> QED
      BY <1>3, <2>2, <2>3, <3>2, <3>4, <3>5, <3>6, CallsKeep
  <2> QED
    BY <1>5, <2>4, <2>5
<1> QED
  BY <1>1, <1>4, <1>5 DEF CoolDown, Asking

\* The worker's own cooldown.
LEMMA CoolKeeps == ASSUME QInv, NEW w \in Workers, Cool(w) PROVE QInv'
<1>1. PICK m : m = [op |-> "cooldown", owner |-> worker[w].owner]
  OBVIOUS
<1>2. worker[w].at = "cooling" /\ worker[w].owner \in Owners
  BY WorkerFields DEF Cool
<1>3. m \in Call /\ m.op = "cooldown" /\ m.owner = worker[w].owner /\ MessageOK(m)
  BY <1>1, <1>2 DEF Call, MessageOK
<1>4. Calls(w, m, Free(w, "finishing"), Free(w, "finishing"))
  BY <1>1 DEF Cool
<1> QED
  BY <1>2, <1>3, <1>4, FreeCalls

\* The source is retained.
LEMMA RetainKeeps == ASSUME QInv, NEW w \in Workers, Retain(w) PROVE QInv'
<1>1. /\ worker[w].at = "retaining" /\ worker[w].at \in WithJob /\ worker[w].owner \in Owners
      /\ worker[w].q \in Quarters /\ worker[w].label \in 0 .. MaxVersion
      /\ worker[w].version \in 0 .. MaxVersion
      /\ Wanted(worker[w].q, worker[w].label)
      /\ Fits(worker[w].q, worker[w].label, worker[w].version)
  BY WorkerFields DEF Retain, WithJob, WorkerOK
<1>2. worker[w].version \in Versions
  <2>1. MaxVersion \in Nat
    BY BankAssumption DEF BankAssumption
  <2> QED
    BY <1>1, <2>1 DEF Wanted, Fits
<1>3. PICK m : m = [op |-> "retain", owner |-> worker[w].owner, q |-> worker[w].q,
                    label |-> worker[w].label, version |-> worker[w].version]
  OBVIOUS
<1>4. m \in Call /\ m.op = "retain" /\ m.owner = worker[w].owner /\ MessageOK(m)
  BY <1>1, <1>2, <1>3 DEF Call, MessageOK
<1>5. PICK heard : heard = At(w, "parsing")
  OBVIOUS
<1>6. /\ heard \in Worker /\ heard.at = "parsing" /\ heard.owner = worker[w].owner
      /\ heard.entries = worker[w].entries /\ heard.q = worker[w].q
      /\ heard.label = worker[w].label /\ heard.version = worker[w].version
  BY <1>5, MovedRow DEF Places, Failures
<1>7. GoesOn /\ worker'[w] = heard => WorkerOK(w)'
  BY <1>1, <1>6, JobRowOK DEF WithJob
<1>8. "transient" \in Failures /\ Calls(w, m, heard, Failing(w, "transient"))
  BY <1>3, <1>5 DEF Retain, Failures, Transient
<1> QED
  BY <1>1, <1>4, <1>6, <1>7, <1>8, JobCalls

\* The report is published, or its version is not readable.
LEMMA PublishKeeps == ASSUME QInv, NEW w \in Workers, Publish(w) PROVE QInv'
<1>1. /\ worker[w].at = "parsing" /\ worker[w].at \in WithJob /\ worker[w].owner \in Owners
      /\ worker[w].q \in Quarters /\ worker[w].label \in 0 .. MaxVersion
      /\ worker[w].version \in 0 .. MaxVersion
      /\ Wanted(worker[w].q, worker[w].label)
      /\ Fits(worker[w].q, worker[w].label, worker[w].version)
  BY WorkerFields DEF Publish, WithJob, WorkerOK
<1>2. worker[w].version \in Versions
  <2>1. MaxVersion \in Nat
    BY BankAssumption DEF BankAssumption
  <2> QED
    BY <1>1, <2>1 DEF Wanted, Fits
<1>3. "transient" \in Failures /\ "invalid" \in Failures
  BY DEF Failures, Transient
<1>4. CASE Moves(w, Failing(w, "invalid"))
  BY <1>1, <1>3, <1>4, FailingMoves
<1>5. ASSUME NEW v,
             Calls(w, [op |-> "publish", owner |-> worker[w].owner, q |-> worker[w].q,
                       label |-> worker[w].label, version |-> worker[w].version,
                       passed |-> v = "passed"],
                   Free(w, "preparing"), Failing(w, "transient"))
      PROVE  QInv'
  <2>1. PICK passed \in BOOLEAN : passed = (v = "passed")
    OBVIOUS
  <2>2. PICK m : m = [op |-> "publish", owner |-> worker[w].owner, q |-> worker[w].q,
                      label |-> worker[w].label, version |-> worker[w].version,
                      passed |-> passed]
    OBVIOUS
  <2>3. m \in Call /\ m.op = "publish" /\ m.owner = worker[w].owner /\ MessageOK(m)
    BY <1>1, <1>2, <2>1, <2>2 DEF Call, MessageOK
  <2>4. PICK heard : heard = Free(w, "preparing")
    OBVIOUS
  <2>5. heard \in Worker /\ heard.owner = worker[w].owner /\ worker[w].owner # NoOwner
    BY <1>1, <2>4, FreeRow, FreePlaces, BankAssumption DEF BankAssumption
  <2>6. worker'[w] = heard => WorkerOK(w)'
    BY <2>4, <2>5, FreeOK, FreePlaces
  <2>7. Calls(w, m, heard, Failing(w, "transient"))
    BY <1>5, <2>1, <2>2, <2>4
  <2> QED
    BY <1>1, <1>3, <2>3, <2>5, <2>6, <2>7, JobCalls
<1> QED
  BY <1>4, <1>5 DEF Publish

\* A failure is reported.
LEMMA ReportErrorKeeps == ASSUME QInv, NEW w \in Workers, ReportError(w) PROVE QInv'
<1>1. /\ worker[w].at = "failing" /\ worker[w].at \in WithJob /\ worker[w].owner \in Owners
      /\ worker[w].q \in Quarters /\ worker[w].failure \in Failures
  BY WorkerFields DEF ReportError, WithJob, WorkerOK
<1>2. PICK m : m = [op |-> "error", owner |-> worker[w].owner, q |-> worker[w].q,
                    failure |-> worker[w].failure]
  OBVIOUS
<1>3. m \in Call /\ m.op = "error" /\ m.owner = worker[w].owner /\ MessageOK(m)
  BY <1>1, <1>2 DEF Call, MessageOK
<1>4. PICK place \in {"cooling", "finishing", "preparing"} :
          Calls(w, m, Free(w, place), Free(w, "finishing"))
  BY <1>2 DEF ReportError
<1> QED
  BY <1>1, <1>3, <1>4, FreeCalls

\* A run leaves, ends or dies.
LEMMA EndKeeps == ASSUME QInv, NEW w \in Workers, Leave(w) \/ Finish(w) \/ Kill(w) PROVE QInv'
<1>1. CASE Leave(w)
  BY <1>1, FreeMoves DEF Leave
<1>2. PICK idle : idle = Idle
  OBVIOUS
<1>3. idle \in Worker /\ idle.owner = NoOwner
  BY <1>2, FreeRow DEF Places
<1>4. worker[w].at # "idle" /\ worker'[w] = idle => WorkerOK(w)'
  BY <1>2, FreeOK, FreePlaces, WorkerFields
<1>5. CASE Finish(w)
  <2>1. worker[w].at = "finishing" /\ worker[w].owner \in Owners
    BY <1>5, WorkerFields DEF Finish
  <2>2. PICK m : m = [op |-> "finish", owner |-> worker[w].owner]
    OBVIOUS
  <2>3. m \in Call /\ m.op = "finish" /\ m.owner = worker[w].owner /\ MessageOK(m)
    BY <2>1, <2>2 DEF Call, MessageOK
  <2>4. Calls(w, m, idle, idle)
    BY <1>2, <1>5, <2>2 DEF Finish
  <2> QED
    BY <1>3, <1>4, <2>1, <2>3, <2>4, CallsKeep
<1>6. CASE Kill(w)
  BY <1>2, <1>3, <1>4, <1>6, MovesKeep DEF Kill
<1> QED
  BY <1>1, <1>5, <1>6

-------------------------------------------------------------------------------
(* The theorems.                                                             *)

\* Every step keeps the invariant.
LEMMA NextKeeps == QInv /\ [Next]_vars => QInv'
<1> SUFFICES ASSUME QInv, [Next]_vars PROVE QInv'
  OBVIOUS
<1>1. CASE UNCHANGED vars
  <2>1. GoesOn /\ (\A o : Quiet(o)) /\ UNCHANGED <<worker, wire>> /\ faults' \in 0 .. MaxFaults
    BY <1>1, StoreStays DEF vars, QInv, TypeOK
  <2> QED
    BY <2>1, StoreKeeps
<1>2. ASSUME NEW w \in Workers, Step(w) \/ Kill(w) PROVE QInv'
  BY <1>2, BeginKeeps, SavePeriodsKeeps, FetchPanelKeeps, SaveCatalogKeeps, ClaimKeeps,
     ReadSourceKeeps, FetchKeeps, CoolDownKeeps, CoolKeeps, RetainKeeps, PublishKeeps,
     ReportErrorKeeps, EndKeeps DEF Step
<1>3. ASSUME NEW b \in Banks, Request(b) \/ Forget(b) PROVE QInv'
  BY <1>3, RequestKeeps, TimeKeeps
<1>4. ASSUME NEW q \in Quarters, File(q) \/ Due(q) PROVE QInv'
  BY <1>4, FileKeeps, DueKeeps
<1> QED
  BY <1>1, <1>2, <1>3, <1>4, LateKeeps, TimeKeeps DEF Next

\* The store is empty, or an older mapping filled it with what is filed.
LEMMA InitHolds == Init => QInv
<1> SUFFICES ASSUME Init PROVE QInv
  OBVIOUS
<1>1. /\ MaxVersion \in Nat \ {0} /\ MaxFaults \in Nat /\ MaxAttempts \in Nat
      /\ NoOwner \notin Owners /\ Windows \subseteq SUBSET Periods
  BY BankAssumption DEF BankAssumption
<1>2. /\ filed \in [Quarters -> 0 .. 1]
      /\ control = [owner |-> NoOwner, live |-> FALSE, cooling |-> FALSE]
      /\ retained \in Windows /\ wanted \in {{}, Banks}
      /\ worker = [w \in Workers |-> Idle] /\ wire = {} /\ faults = 0
  BY DEF Init
<1>3. filed \in [Quarters -> 0 .. MaxVersion] /\ \A q \in Quarters : filed[q] \in 0 .. 1
  BY <1>1, <1>2
<1>4. Absent \in Job /\ Absent.state = "absent" /\ Absent.owner = NoOwner /\ Absent.desired = 0
  BY <1>1 DEF Absent, Job, States
<1>5. NoReport \in Report /\ ~NoReport.kept /\ ~NoReport.passed
  BY <1>1 DEF NoReport, Report
<1>6. /\ panel \in [Quarters -> Unlisted .. MaxVersion]
      /\ job \in [Quarters -> Job]
      /\ reports \in [Quarters -> [Versions -> Report]]
      /\ \A q \in Quarters : job[q].state # "running" /\ RowOK(q) /\ KeptOK(q)
      /\ ReadyMeansShown
  <2>1. CASE /\ panel = [q \in Quarters |-> Unlisted]
             /\ job = [q \in Quarters |-> Absent]
             /\ reports = [q \in Quarters |-> [n \in Versions |-> NoReport]]
    <3>1. /\ panel \in [Quarters -> Unlisted .. MaxVersion]
          /\ job \in [Quarters -> Job]
          /\ reports \in [Quarters -> [Versions -> Report]]
      BY <1>1, <1>4, <1>5, <2>1 DEF Unlisted
    <3>2. ASSUME NEW q \in Quarters PROVE job[q].state = "absent" /\ RowOK(q) /\ KeptOK(q)
      <4>1. job[q] = Absent /\ panel[q] = -1 /\ filed[q] \in 0 .. 1
        BY <1>3, <2>1 DEF Unlisted
      <4>2. \A n \in Versions : ~reports[q][n].kept /\ ~reports[q][n].passed
        BY <1>5, <2>1
      <4>3. RowOK(q)
        BY <1>4, <4>1 DEF RowOK
      <4>4. KeptOK(q)
        BY <4>2 DEF KeptOK, Kept
      <4> QED
        BY <1>4, <4>1, <4>3, <4>4
    <3> QED
      BY <3>1, <3>2 DEF ReadyMeansShown
  <2>2. CASE /\ panel = filed
             /\ job = [q \in Quarters |->
                   IF filed[q] = 0 THEN [Absent EXCEPT !.state = "unavailable"]
                   ELSE [Absent EXCEPT !.state = "ready", !.desired = 1]]
             /\ reports = [q \in Quarters |-> [n \in Versions |->
                   IF n = filed[q]
                   THEN [kept |-> TRUE, metrics |-> TRUE, passed |-> TRUE, of |-> n, old |-> TRUE]
                   ELSE NoReport]]
    <3>1. ASSUME NEW q \in Quarters
          PROVE  /\ job[q] \in Job /\ job[q].owner = NoOwner
                 /\ filed[q] = 0 => job[q].state = "unavailable" /\ job[q].desired = 0
                 /\ filed[q] = 1 => job[q].state = "ready" /\ job[q].desired = 1
      <4>1. job[q] = IF filed[q] = 0 THEN [Absent EXCEPT !.state = "unavailable"]
                     ELSE [Absent EXCEPT !.state = "ready", !.desired = 1]
        BY <2>2
      <4>2. "unavailable" \in States /\ "ready" \in States /\ 1 \in 0 .. MaxVersion
        BY <1>1 DEF States
      <4>3. CASE filed[q] = 0
        BY <1>4, <4>1, <4>2, <4>3 DEF Job
      <4>4. CASE filed[q] # 0
        <5>1. PICK row : row = [Absent EXCEPT !.state = "ready", !.desired = 1]
          OBVIOUS
        <5>2. row \in Job /\ row.owner = NoOwner /\ row.state = "ready" /\ row.desired = 1
          BY <1>4, <4>2, <5>1 DEF Job
        <5> QED
          BY <4>1, <4>4, <5>1, <5>2
      <4> QED
        BY <4>3, <4>4
    <3>2. ASSUME NEW q \in Quarters, NEW n \in Versions
          PROVE  /\ reports[q][n] \in Report
                 /\ reports[q][n].kept <=> n = filed[q]
                 /\ reports[q][n].passed <=> n = filed[q]
                 /\ n = filed[q] => reports[q][n].of = n
      <4>1. reports[q][n] =
               IF n = filed[q]
                   THEN [kept |-> TRUE, metrics |-> TRUE, passed |-> TRUE, of |-> n, old |-> TRUE]
               ELSE NoReport
        BY <2>2
      <4>2. n \in 0 .. MaxVersion
        BY <1>1
      <4> QED
        BY <1>5, <4>1, <4>2 DEF Report
    <3>3. /\ panel \in [Quarters -> Unlisted .. MaxVersion]
          /\ job \in [Quarters -> Job]
          /\ reports \in [Quarters -> [Versions -> Report]]
      <4>1. job \in [Quarters -> Job]
        BY <2>2, <3>1
      <4>2. panel \in [Quarters -> Unlisted .. MaxVersion]
        BY <1>1, <1>3, <2>2 DEF Unlisted
      <4>3. reports = [q \in Quarters |-> [n \in Versions |-> reports[q][n]]]
        BY <2>2
      <4> QED
        BY <3>2, <4>1, <4>2, <4>3
    <3>4. ASSUME NEW q \in Quarters PROVE job[q].state # "running" /\ RowOK(q) /\ KeptOK(q)
      <4>1. filed[q] \in {0, 1} /\ panel[q] = filed[q]
        BY <1>3, <2>2
      <4>2. RowOK(q)
        BY <3>1, <4>1 DEF RowOK
      <4>3. KeptOK(q)
        BY <1>1, <3>1, <3>2, <4>1 DEF KeptOK, Kept
      <4> QED
        BY <3>1, <4>1, <4>2, <4>3
    <3>5. ReadyMeansShown
      <4> SUFFICES ASSUME NEW q \in Quarters, job[q].state = "ready"
                   PROVE  /\ Kept(q) # {} /\ Shown(q) >= job[q].desired
                          /\ reports[q][Shown(q)].passed
                          /\ reports[q][Shown(q)].of = job[q].desired
        BY DEF ReadyMeansShown
      <4>1. filed[q] = 1 /\ job[q].desired = 1 /\ 1 \in Versions
        BY <1>1, <1>3, <3>1
      <4> DEFINE valid == {n \in Kept(q) : reports[q][n].passed}
      <4>2. valid = {1} /\ Kept(q) = {1}
        BY <3>2, <4>1 DEF Kept
      <4>3. Shown(q) = Max(valid)
        BY <4>2 DEF Shown
      <4>4. Max(valid) = 1
        <5> HIDE DEF valid
        <5>1. valid \subseteq Versions /\ valid # {}
          BY <4>1, <4>2
        <5> QED
          BY <4>2, <5>1, MaxIsLatest
      <4> HIDE DEF valid
      <4>5. Shown(q) = 1
        BY <4>3, <4>4
      <4>6. reports[q][1].passed /\ reports[q][1].of = 1
        BY <3>2, <4>1
      <4> QED
        BY <4>1, <4>2, <4>5, <4>6
    <3> QED
      BY <3>3, <3>4, <3>5
  <2> QED
    BY <2>1, <2>2 DEF Init
<1>7. ASSUME NEW w \in Workers
      PROVE  worker[w] \in Worker /\ WorkerOK(w) /\ worker[w].owner = NoOwner
  <2>1. worker[w] = Idle
    BY <1>2
  <2>2. NoEntries \in Entries /\ DOMAIN NoEntries = {}
    BY DEF NoEntries, Entries
  <2>3. "idle" \in Places /\ 0 \in 0 .. MaxVersion /\ 0 \in 0 .. MaxTries
    BY <1>1, BankAssumption DEF Places, BankAssumption
  <2>4. /\ worker[w] \in Worker /\ worker[w].owner = NoOwner /\ worker[w].at = "idle"
        /\ DOMAIN worker[w].entries = {}
    BY <2>1, <2>2, <2>3 DEF Idle, Worker
  <2> QED
    BY <2>4 DEF WorkerOK, WithJob, Current
<1>8. TypeOK
  <2>1. control \in [owner: Owners \cup {NoOwner}, live: BOOLEAN, cooling: BOOLEAN]
    BY <1>2
  <2>2. retained \subseteq Periods /\ wanted \subseteq Banks
    BY <1>1, <1>2
  <2>3. worker \in [Workers -> Worker]
    BY <1>2, <1>7
  <2>4. wire \subseteq Call /\ faults \in 0 .. MaxFaults
    BY <1>1, <1>2
  <2> QED
    BY <1>3, <1>6, <2>1, <2>2, <2>3, <2>4 DEF TypeOK
<1>9. Sessions
  BY <1>2, <1>7 DEF Sessions
<1> QED
  BY <1>2, <1>6, <1>7, <1>8, <1>9 DEF QInv

\* Rows, reports, workers and calls under way are sound together in every
\* reachable state.
THEOREM QueueInvariant == Spec => []QInv
<1> QED
  BY InitHolds, NextKeeps, PTL DEF Spec

\* Store, workers and calls keep their types; a running job has an owner.
THEOREM QueueTypes == Spec => []TypeOK
<1>1. QInv => TypeOK
  BY DEF QInv
<1> QED
  BY <1>1, QueueInvariant, PTL

\* A ready quarter shows a validated report of the submission that it wants, no
\* older than that, for any workers, amended filings, late calls and mappings
\* (publish and job_error of the queue, the retained sources of its worker).
THEOREM ReadyIsShown == Spec => []ReadyMeansShown
<1>1. QInv => ReadyMeansShown
  BY DEF QInv
<1> QED
  BY <1>1, QueueInvariant, PTL
===============================================================================
