----------------------------- MODULE PreparedData -----------------------------
(***************************************************************************)
(* Refreshing a source document from its publisher (refreshSecDocument)    *)
(* and preparing an output from it (prepareFinancialCompany), by workers   *)
(* that run in server processes, may fail or be killed at any await, and   *)
(* whose database calls may be lost, or take effect after the worker gave  *)
(* them up.  Readers of one process share database reads that are under    *)
(* way (readVersion); writers fence that registry (versionWrite).          *)
(*                                                                         *)
(* The publisher is external: it moves from revision to revision, and a    *)
(* revision may bring back the content of an earlier one.  The stamp of a  *)
(* head is the revision its freshness metadata stands for; an output takes *)
(* the stamp of the source it was prepared from.                           *)
(***************************************************************************)
EXTENDS DatasetHead, FiniteSets

CONSTANTS
    Source, Output,     \* the two resources
    Refreshers, Preparers,
    Processes, ProcessOf,
    Traffic,            \* which resources other requests read, in which process
    Reads,              \* ids of database reads that may be under way at once
    NoRead,
    Content,            \* the identity of each revision's content
    PendingLimit,       \* most reads a process's registry holds
    MaxFailures         \* bound: failed awaits

Workers == Refreshers \cup Preparers
KeyOf(w) == IF w \in Refreshers THEN Source ELSE Output

ASSUME PreparedAssumption ==
    /\ Source \in Keys /\ Keys \subseteq {Source, Output} /\ Source # Output
    /\ Preparers # {} => Output \in Keys
    /\ Owners = Workers
    /\ Refreshers \cap Preparers = {}
    /\ ProcessOf \in [Workers -> Processes] /\ Traffic \subseteq Processes \X Keys
    /\ NoRead \notin Reads
    /\ Stamps = 1 .. Cardinality(Stamps)
    /\ Content \in [Stamps -> Identities]
    /\ PendingLimit \in Nat /\ MaxFailures \in Nat

VARIABLES
    revision,  \* the publisher's current revision
    pc, gen,   \* each worker's place, and the generation of its claim
    have,      \* the version it found at its own resource
    want,      \* the version it means to write there
    wire,      \* its database calls under way
    reply,     \* the database's reply to the call it awaits
    reads,     \* database reads under way
    pending,   \* each process's registry of reads that may be joined
    waits,     \* the read a worker awaits
    failures   \* failed awaits so far

workVars == <<pc, gen, have, want, wire, reply, failures>>
readVars == <<reads, pending, waits>>
vars == <<headVars, revision, workVars, readVars>>

Phases == {"idle", "beginning", "reserving", "input", "previous", "fetching",
           "storing", "writing", "done"}
Call == [op: {"begin", "reserve", "publish", "revalidate", "release", "mirror"},
         by: Workers, gen: Nat, item: Entry]
Read == [key: Keys \cup {NoVersion}, state: {"free", "sent", "served"}, item: Entry]
FreeRead == [key |-> NoVersion, state |-> "free", item |-> NoEntry]

\* The registry names reads that are under way, each of its own resource.
TypeOK ==
    /\ HeadTypeOK
    /\ revision \in Stamps
    /\ pc \in [Workers -> Phases]
    /\ gen \in [Workers -> Nat]
    /\ have \in [Workers -> Entry] /\ want \in [Workers -> Entry]
    /\ wire \subseteq Call
    /\ reply \in [Workers -> {"none", "yes", "no"}]
    /\ reads \in [Reads -> Read]
    /\ pending \in [Processes -> [Keys -> Reads \cup {NoRead}]]
    /\ waits \in [Workers -> Reads \cup {NoRead}]
    /\ failures \in Nat
    /\ \A p \in Processes, k \in Keys :
         pending[p][k] # NoRead => reads[pending[p][k]].key = k
    /\ \A w \in Workers : waits[w] # NoRead => reads[waits[w]].state # "free"

NothingPending == [k \in Keys |-> NoRead]

\* Some workers never begin, and some of the failures lie in the past.
Init ==
    /\ HeadInit
    /\ revision \in Stamps
    /\ pc \in [Workers -> {"idle", "done"}]
    /\ gen = [w \in Workers |-> 0]
    /\ have = [w \in Workers |-> NoEntry]
    /\ want = [w \in Workers |-> NoEntry]
    /\ wire = {}
    /\ reply = [w \in Workers |-> "none"]
    /\ reads = [i \in Reads |-> FreeRead]
    /\ pending = [p \in Processes |-> NothingPending]
    /\ waits = [w \in Workers |-> NoRead]
    /\ failures \in 0 .. MaxFailures

CallOf(w, op, item) == [op |-> op, by |-> w, gen |-> gen[w], item |-> item]
ClaimOf(m) == [gen |-> m.gen, owner |-> m.by]

-------------------------------------------------------------------------------
(* Shared reads.                                                             *)

\* Mutants: the registry is kept, or only the worker's own resource is forgotten.
KeepReads(w) == UNCHANGED pending
ForgetOwn(w) == pending' = [pending EXCEPT ![ProcessOf[w]][KeyOf(w)] = NoRead]

\* versionWrite: acquiring a lease forgets every read of the process, any other
\* write the reads of its resource.
ForgetAll(w) == pending' = [pending EXCEPT ![ProcessOf[w]] = NothingPending]
Forget(w) == pending' = [pending EXCEPT ![ProcessOf[w]][KeyOf(w)] = NoRead]

Registered(p) == {k \in Keys : pending[p][k] # NoRead}

\* readVersion: a read starts, and is registered if the registry has room.
StartRead(p, k, i) ==
    /\ reads[i].state = "free"
    /\ reads' = [reads EXCEPT ![i] = [key |-> k, state |-> "sent", item |-> NoEntry]]
    /\ pending' = IF Cardinality(Registered(p)) < PendingLimit
                    THEN [pending EXCEPT ![p][k] = i] ELSE pending

\* The worker joins the registered read of k, or starts one.
ReadVersion(w, k) ==
    LET p == ProcessOf[w] IN
    \/ /\ pending[p][k] # NoRead
       /\ waits' = [waits EXCEPT ![w] = pending[p][k]]
       /\ UNCHANGED <<reads, pending>>
    \/ /\ pending[p][k] = NoRead
       /\ \E i \in Reads : StartRead(p, k, i) /\ waits' = [waits EXCEPT ![w] = i]

\* Any other request of the process reads a resource.
OtherReader(p, k, i) ==
    /\ pending[p][k] = NoRead
    /\ StartRead(p, k, i)
    /\ UNCHANGED <<headVars, revision, workVars, waits>>

\* The database answers with the head as it stands.
ServeRead(i) ==
    /\ reads[i].state = "sent"
    /\ reads' = [reads EXCEPT ![i].state = "served",
                              ![i].item = [id |-> heads[reads[i].key].current,
                                           stamp |-> heads[reads[i].key].validated]]
    /\ UNCHANGED <<headVars, revision, workVars, pending, waits>>

\* Mutant: the registry still offers a read that has ended.
FinishReadKept(i) ==
    /\ reads' = [reads EXCEPT ![i] = FreeRead]
    /\ waits' = [w \in Workers |-> IF waits[w] = i THEN NoRead ELSE waits[w]]
    /\ UNCHANGED pending

\* The answer, or a failure, reaches everyone who waits, and the registry
\* forgets the read.
FinishRead(i) ==
    /\ reads' = [reads EXCEPT ![i] = FreeRead]
    /\ pending' = [p \in Processes |->
                     [k \in Keys |-> IF pending[p][k] = i THEN NoRead ELSE pending[p][k]]]
    /\ waits' = [w \in Workers |-> IF waits[w] = i THEN NoRead ELSE waits[w]]
Waiting(i) == {w \in Workers : waits[w] = i}

-------------------------------------------------------------------------------
(* A worker.                                                                 *)

Begin(w) ==
    /\ pc[w] = "idle"
    /\ pc' = [pc EXCEPT ![w] = "beginning"]
    /\ wire' = wire \cup {CallOf(w, "begin", NoEntry)}
    /\ ForgetAll(w)
    /\ UNCHANGED <<headVars, revision, gen, have, want, reply, reads, waits, failures>>

\* The claim, or null while another lease lives.  The mirror is reserved next.
BeginReply(w) ==
    /\ pc[w] = "beginning" /\ reply[w] # "none"
    /\ IF reply[w] = "yes"
         THEN /\ pc' = [pc EXCEPT ![w] = "reserving"]
              /\ wire' = wire \cup {CallOf(w, "reserve", NoEntry)}
         ELSE pc' = [pc EXCEPT ![w] = "done"] /\ UNCHANGED wire
    /\ reply' = [reply EXCEPT ![w] = "none"]
    /\ ForgetAll(w)
    /\ UNCHANGED <<headVars, revision, gen, have, want, reads, waits, failures>>

\* Whether the mirror was reserved, or the call failed, does not matter.  The
\* worker reads its input; a refresher has none but the version it will
\* revalidate.
Reserved(w) ==
    /\ pc[w] = "reserving"
    /\ \/ reply[w] # "none" /\ UNCHANGED failures
       \/ reply[w] = "none" /\ failures < MaxFailures /\ failures' = failures + 1
    /\ reply' = [reply EXCEPT ![w] = "none"]
    /\ pc' = [pc EXCEPT ![w] = IF w \in Preparers THEN "input" ELSE "previous"]
    /\ ReadVersion(w, Source)
    /\ UNCHANGED <<headVars, revision, gen, have, want, wire>>

\* A read is answered.  With its input, a preparer reads the version at its
\* own resource; an input that is missing fails the preparation (ReadFailed).
Answered(i) ==
    /\ reads[i].state = "served"
    /\ \A w \in Waiting(i) : pc[w] = "input" => reads[i].item.id # NoVersion
    /\ pc' = [w \in Workers |->
                IF waits[w] # i THEN pc[w]
                ELSE IF pc[w] = "input" THEN "previous"
                ELSE IF w \in Refreshers THEN "fetching" ELSE "storing"]
    /\ want' = [w \in Workers |->
                  IF waits[w] = i /\ pc[w] = "input" THEN reads[i].item ELSE want[w]]
    /\ have' = [w \in Workers |->
                  IF waits[w] = i /\ pc[w] = "previous" THEN reads[i].item ELSE have[w]]
    /\ FinishRead(i)
    /\ UNCHANGED <<headVars, revision, gen, wire, reply, failures>>

\* A preparer that has its input reads what it prepared before.
ReadPrevious(w) ==
    /\ pc[w] = "previous" /\ waits[w] = NoRead
    /\ ReadVersion(w, Output)
    /\ UNCHANGED <<headVars, revision, workVars>>

\* The publisher's document, asked for with the validators of the version at
\* hand.
Fetch(w) ==
    /\ pc[w] = "fetching"
    /\ want' = [want EXCEPT ![w] = [id |-> Content[revision], stamp |-> revision]]
    /\ pc' = [pc EXCEPT ![w] = "storing"]
    /\ UNCHANGED <<headVars, revision, gen, have, wire, reply, failures, readVars>>

Write(w, op) ==
    /\ pc' = [pc EXCEPT ![w] = "writing"]
    /\ wire' = wire \cup {CallOf(w, op, want[w])}
    /\ Forget(w)
    /\ UNCHANGED <<revision, gen, have, want, reply, reads, waits, failures>>

\* Unchanged content is only revalidated.
StoreUnchanged(w) ==
    /\ pc[w] = "storing"
    /\ want[w].id = have[w].id
    /\ Write(w, "revalidate")
    /\ UNCHANGED headVars

\* New content: the bytes are uploaded and read back, unless the version is
\* already known, before the pointer is published.
Upload(w) ==
    /\ pc[w] = "storing"
    /\ want[w].id # have[w].id
    /\ want[w].id \notin versions[KeyOf(w)] \cup objects[KeyOf(w)]
    /\ PutObject(KeyOf(w), want[w].id)
    /\ UNCHANGED <<revision, workVars, readVars>>

StoreChanged(w) ==
    /\ pc[w] = "storing"
    /\ want[w].id # have[w].id
    /\ want[w].id \in versions[KeyOf(w)] \cup objects[KeyOf(w)]
    /\ Write(w, "publish")
    /\ UNCHANGED headVars

\* Success is mirrored to the cache, a refusal releases the claim; the worker's
\* state ends with it.
WriteReply(w) ==
    /\ pc[w] = "writing" /\ reply[w] # "none"
    /\ pc' = [pc EXCEPT ![w] = "done"]
    /\ wire' = wire \cup {CallOf(w, IF reply[w] = "yes" THEN "mirror" ELSE "release", want[w])}
    /\ reply' = [reply EXCEPT ![w] = "none"]
    /\ have' = [have EXCEPT ![w] = NoEntry]
    /\ want' = [want EXCEPT ![w] = NoEntry]
    /\ Forget(w)
    /\ UNCHANGED <<headVars, revision, gen, reads, waits, failures>>

\* An await fails or times out, the inputs are unusable, the deadline is near or
\* the version at hand was checked just now: the claim, if the worker learnt of
\* one, is released.  A worker that is killed is one whose release is never
\* served.
GiveUp(w) ==
    /\ pc[w] \notin {"idle", "done"}
    /\ failures < MaxFailures /\ failures' = failures + 1
    /\ pc' = [pc EXCEPT ![w] = "done"]
    /\ wire' = IF pc[w] = "beginning" THEN wire
               ELSE wire \cup {CallOf(w, "release", NoEntry)}
    /\ reply' = [reply EXCEPT ![w] = "none"]
    /\ waits' = [waits EXCEPT ![w] = NoRead]
    /\ CASE pc[w] = "beginning" -> ForgetAll(w)
         [] pc[w] = "writing"   -> Forget(w)
         [] OTHER               -> UNCHANGED pending
    /\ UNCHANGED <<headVars, revision, gen, have, want, reads>>

\* A shared read fails for everyone who waits for it.
ReadFailed(i) ==
    /\ reads[i].state # "free"
    /\ failures < MaxFailures /\ failures' = failures + 1
    /\ FinishRead(i)
    /\ pc' = [w \in Workers |-> IF waits[w] = i THEN "done" ELSE pc[w]]
    /\ wire' = wire \cup {CallOf(w, "release", NoEntry) : w \in Waiting(i)}
    /\ UNCHANGED <<headVars, revision, gen, have, want, reply>>

-------------------------------------------------------------------------------
(* The database serves a call; the caller hears of it only while it waits.   *)
(* A call that is never served is a lost one.                                *)

Hears(m) == pc[m.by] = CASE m.op = "begin"   -> "beginning"
                         [] m.op = "reserve" -> "reserving"
                         [] m.op \in {"publish", "revalidate"} -> "writing"
                         [] OTHER -> "none"

Served(m, ok) ==
    /\ wire' = wire \ {m}
    /\ reply' = IF Hears(m) THEN [reply EXCEPT ![m.by] = IF ok THEN "yes" ELSE "no"] ELSE reply
    /\ UNCHANGED <<revision, pc, have, want, failures, readVars>>

\* A begun lease raises the generation, even if its caller is gone.
ServeBegin(m) ==
    /\ m.op = "begin"
    /\ \/ /\ BeginWrite(KeyOf(m.by), m.by)
          /\ gen' = IF Hears(m) THEN [gen EXCEPT ![m.by] = heads'[KeyOf(m.by)].gen] ELSE gen
          /\ Served(m, TRUE)
       \/ /\ Leased(KeyOf(m.by))
          /\ UNCHANGED <<headVars, gen>>
          /\ Served(m, FALSE)

ServePublish(m) ==
    /\ m.op = "publish"
    /\ \/ Publish(KeyOf(m.by), ClaimOf(m), m.item.id, m.item.stamp, TRUE) /\ Served(m, TRUE)
       \/ /\ ~PublishAllowed(KeyOf(m.by), ClaimOf(m), m.item.id)
          /\ UNCHANGED headVars /\ Served(m, FALSE)
    /\ UNCHANGED gen

ServeRevalidate(m) ==
    /\ m.op = "revalidate"
    /\ \/ Revalidate(KeyOf(m.by), ClaimOf(m), m.item.stamp) /\ Served(m, TRUE)
       \/ /\ ~RevalidateAllowed(KeyOf(m.by), ClaimOf(m))
          /\ UNCHANGED headVars /\ Served(m, FALSE)
    /\ UNCHANGED gen

\* Release, reservation and mirror write, whose outcome nobody uses.
ServeQuiet(m) ==
    /\ \/ /\ m.op = "release"
          /\ \/ Release(KeyOf(m.by), ClaimOf(m))
             \/ ~Owns(KeyOf(m.by), ClaimOf(m)) /\ UNCHANGED headVars
       \/ /\ m.op = "reserve"
          /\ \/ Reserve(KeyOf(m.by), ClaimOf(m))
             \/ ~Holds(KeyOf(m.by), ClaimOf(m)) /\ UNCHANGED headVars
       \/ /\ m.op = "mirror"
          /\ \/ PutFenced(KeyOf(m.by), ClaimOf(m), m.item.id, m.item.stamp)
             \/ ~Captured(KeyOf(m.by), ClaimOf(m)) /\ UNCHANGED headVars
    /\ Served(m, TRUE)
    /\ UNCHANGED gen

-------------------------------------------------------------------------------
\* The publisher publishes its next revision (external).
Revise ==
    /\ revision + 1 \in Stamps
    /\ revision' = revision + 1
    /\ UNCHANGED <<headVars, workVars, readVars>>

Tick == HeadTick /\ UNCHANGED <<revision, workVars, readVars>>

Next ==
    \/ \E w \in Workers :
         \/ Begin(w) \/ BeginReply(w) \/ Reserved(w) \/ ReadPrevious(w) \/ Fetch(w)
         \/ StoreUnchanged(w) \/ Upload(w) \/ StoreChanged(w) \/ WriteReply(w)
         \/ GiveUp(w)
    \/ \E i \in Reads : ServeRead(i) \/ Answered(i) \/ ReadFailed(i)
    \/ \E t \in Traffic, i \in Reads : OtherReader(t[1], t[2], i)
    \/ \E m \in wire : ServeBegin(m) \/ ServePublish(m) \/ ServeRevalidate(m)
                         \/ ServeQuiet(m)
    \/ Revise
    \/ Tick

Spec == Init /\ [][Next]_vars

-------------------------------------------------------------------------------
(* What the data pipeline promises.                                          *)

\* A head is never called fresh for content that its stamp does not stand for:
\* an unmodified answer revalidates the very version that was current, and a
\* late or fenced writer changes neither.
FreshnessHonest ==
    \A k \in Keys :
      /\ heads[k].current # NoVersion => heads[k].current = Content[heads[k].validated]
      /\ mirror[k] # NoEntry => mirror[k].id = Content[mirror[k].stamp]

\* A living lease is neither taken over nor moved, and only its own holder ends it,
\* by a call it made under this very claim: a release that was sent after an error and
\* arrives when another worker holds the resource leaves that worker its lease
\* (edgar_begin_write, edgar_release_write).
LeaseOf(k) == [gen |-> heads[k].gen, owner |-> heads[k].owner, until |-> heads[k].lease]
LeaseExclusive ==
    [][\A k \in Keys :
         Leased(k) /\ LeaseOf(k)' # LeaseOf(k) =>
           /\ heads'[k].owner = NoOwner /\ heads'[k].gen = heads[k].gen
           /\ \E m \in wire \ wire' :
                /\ m.op \in {"publish", "revalidate", "release"}
                /\ m.by = heads[k].owner /\ m.gen = heads[k].gen]_vars

\* The abstract pipeline: publisher, source, output and their mirrors.
Promised == INSTANCE Pipeline WITH
    upstream <- revision,
    stage <- [k \in Keys |-> heads[k].validated],
    shown <- [k \in Keys |-> mirror[k].stamp]

\* A paused or superseded worker never takes a resource, or its mirror, back to
\* an older input ("a paused worker must not capture old sources, acquire a
\* newer fence later, and replace newer output"), and an output never claims to
\* be newer than its source.
NeverRegresses == Promised!Spec
===============================================================================
