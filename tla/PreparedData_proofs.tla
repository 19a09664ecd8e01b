-------------------------- MODULE PreparedData_proofs --------------------------
(* Shared reads and fenced writes for any workers, processes, reads, traffic *)
(* and revisions: what a head says of its content is true, and no resource,  *)
(* mirror or output ever goes back.                                          *)
EXTENDS PreparedData, DatasetHead_proofs

-------------------------------------------------------------------------------
(* The invariant.                                                            *)

ItemOf(k) == [id |-> heads[k].current, stamp |-> heads[k].validated]

\* The latest that a resource may have caught up with.
Feed(k) == IF k = Source THEN revision ELSE heads[Source].validated

\* An entry that names content names the content of its stamp.
Honest(e) == e.id # NoVersion => e.stamp \in Stamps /\ e.id = Content[e.stamp]

\* What may be written to k.
Written(k, e) == e.id # NoVersion /\ Honest(e) /\ e.stamp <= Feed(k)

\* The claim of a worker is the one that the head bears.
Own(w) == heads[KeyOf(w)].owner = w /\ heads[KeyOf(w)].gen = gen[w]

\* A claim that was used: its head shows what was written until the next lease.
Spent(k, g, e) == heads[k].gen = g => heads[k].owner = NoOwner /\ e = ItemOf(k)

Typed ==
    /\ IInv
    /\ revision \in Stamps
    /\ pc \in [Workers -> Phases]
    /\ gen \in [Workers -> Nat]
    /\ have \in [Workers -> Entry] /\ want \in [Workers -> Entry]
    /\ wire \subseteq Call
    /\ reply \in [Workers -> {"none", "yes", "no"}]
    /\ reads \in [Reads -> Read]
    /\ pending \in [Processes -> [Keys -> Reads \cup {NoRead}]]
    /\ waits \in [Workers -> Reads \cup {NoRead}]
    /\ failures \in Nat

\* Reads that are registered or awaited are under way, for the resource that the
\* registry or the worker's place says.
Registry ==
    /\ \A i \in Reads : reads[i].state # "free" => reads[i].key \in Keys
    /\ \A p \in Processes, k \in Keys : pending[p][k] # NoRead =>
         reads[pending[p][k]].key = k /\ reads[pending[p][k]].state # "free"

Place(w) ==
    /\ gen[w] <= heads[KeyOf(w)].gen
    /\ reply[w] # "none" => pc[w] \in {"beginning", "reserving", "writing"}
    /\ waits[w] # NoRead =>
         /\ reads[waits[w]].state # "free"
         /\ \/ pc[w] = "input" /\ reads[waits[w]].key = Source
            \/ pc[w] = "previous" /\ reads[waits[w]].key = KeyOf(w)
    /\ pc[w] = "input" => w \in Preparers /\ waits[w] # NoRead
    /\ pc[w] = "previous" /\ w \in Refreshers => waits[w] # NoRead
    /\ pc[w] = "fetching" => w \in Refreshers

HeadsTrue ==
    \A k \in Keys :
      /\ Honest(ItemOf(k)) /\ heads[k].validated <= Feed(k)
      /\ mirror[k].stamp <= heads[k].validated
      /\ mirror[k] # NoEntry => mirror[k].id # NoVersion /\ Honest(mirror[k])

ReadsTrue ==
    \A i \in Reads : reads[i].state = "served" =>
      /\ Honest(reads[i].item)
      /\ reads[i].key = Source => reads[i].item.stamp <= heads[Source].validated

\* Whoever reads under a claim reads what the head shows for as long as the claim
\* lives, and of a source nothing older than what the output stands for.
Fresh(w, r) ==
    /\ r.key = KeyOf(w) => r.item = ItemOf(KeyOf(w))
    /\ r.key = Source => heads[KeyOf(w)].validated <= r.item.stamp

Offered(w) == {waits[w]} \cup {pending[ProcessOf[w]][k] : k \in Keys}

ReadsFresh(w) ==
    pc[w] \in {"reserving", "input", "previous"} /\ Own(w) =>
      \A i \in Reads : i \in Offered(w) /\ reads[i].state = "served" => Fresh(w, reads[i])

\* What a worker means to write, and what it believes to find there.
Means(w) ==
    pc[w] \in {"storing", "writing"} \/ (pc[w] = "previous" /\ w \in Preparers) =>
      /\ Written(KeyOf(w), want[w])
      /\ Own(w) => heads[KeyOf(w)].validated <= want[w].stamp

Believes(w) == pc[w] \in {"fetching", "storing"} /\ Own(w) => have[w] = ItemOf(KeyOf(w))

Settled(w) ==
    pc[w] = "writing" /\ reply[w] = "yes" => Spent(KeyOf(w), gen[w], want[w])

WorkerOK(w) == Place(w) /\ ReadsFresh(w) /\ Means(w) /\ Believes(w) /\ Settled(w)

Held(m) == heads[KeyOf(m.by)].owner = m.by /\ heads[KeyOf(m.by)].gen = m.gen

MessageOK(m) ==
    /\ m.op \in {"publish", "revalidate"} =>
         /\ pc[m.by] \in {"writing", "done"} /\ m.gen = gen[m.by]
         /\ Written(KeyOf(m.by), m.item)
         /\ Held(m) => heads[KeyOf(m.by)].validated <= m.item.stamp
         /\ pc[m.by] = "writing" => m.item = want[m.by]
    /\ m.op = "revalidate" /\ Held(m) => m.item.id = heads[KeyOf(m.by)].current
    /\ m.op = "mirror" =>
         /\ m.gen <= heads[KeyOf(m.by)].gen /\ m.item.id # NoVersion /\ Honest(m.item)
         /\ Spent(KeyOf(m.by), m.gen, m.item)

PInv ==
    /\ Typed /\ Registry /\ HeadsTrue /\ ReadsTrue
    /\ \A w \in Workers : WorkerOK(w)
    /\ \A m \in wire : MessageOK(m)

-------------------------------------------------------------------------------
(* Types and frames.                                                         *)

\* What is used everywhere of the constants.
LEMMA Constants ==
    /\ Source \in Keys /\ Source # Output /\ Workers = Owners
    /\ NoRead \notin Reads /\ Stamps \subseteq Nat
    /\ NoOwner \notin Workers /\ NoVersion \notin Identities
    /\ Content \in [Stamps -> Identities] /\ ProcessOf \in [Workers -> Processes]
    /\ \A w \in Workers : /\ KeyOf(w) \in Keys
                          /\ w \in Refreshers => w \notin Preparers /\ KeyOf(w) = Source
                          /\ w \notin Refreshers => w \in Preparers /\ KeyOf(w) = Output
    /\ \A t \in Traffic : t[1] \in Processes /\ t[2] \in Keys
BY PreparedAssumption, HeadAssumption DEF Workers, KeyOf

\* The parts of a head, an entry, a call and a read.
LEMMA HeadParts ==
    ASSUME Typed, NEW k \in Keys
    PROVE  /\ heads[k] \in HeadRow /\ heads[k].gen \in Nat /\ heads[k].validated \in Nat
           /\ heads[k].current \in Version /\ heads[k].owner \in Owner
           /\ ItemOf(k) \in Entry /\ ItemOf(k).id = heads[k].current
           /\ ItemOf(k).stamp = heads[k].validated
           /\ mirror[k] \in Entry /\ mirror[k].stamp \in Nat
           /\ revision \in Nat /\ Feed(k) \in Nat
BY Constants DEF Typed, IInv, HeadTypeOK, HeadRow, Entry, ItemOf, Feed

\* The fields of an entry.
LEMMA EntryTypes ==
    ASSUME NEW e \in Entry
    PROVE  e.id \in Version /\ e.stamp \in Nat /\ e = [id |-> e.id, stamp |-> e.stamp]
BY DEF Entry

\* The entry of a head without a version.
LEMMA NoEntryType == NoEntry \in Entry /\ NoEntry.id = NoVersion
BY DEF NoEntry, Entry, Version

\* The fields of a call and the claim that it presents.
LEMMA MessageTypes ==
    ASSUME NEW m \in Call
    PROVE  /\ m.by \in Workers /\ m.gen \in Nat /\ m.item \in Entry
           /\ m.op \in {"begin", "reserve", "publish", "revalidate", "release", "mirror"}
           /\ ClaimOf(m) \in [gen: Nat, owner: Owners]
           /\ ClaimOf(m).gen = m.gen /\ ClaimOf(m).owner = m.by
BY Constants DEF Call, ClaimOf

\* What a worker sends is a call.
LEMMA CallTypes ==
    ASSUME Typed, NEW w \in Workers, NEW item \in Entry,
           NEW op \in {"begin", "reserve", "publish", "revalidate", "release", "mirror"}
    PROVE  LET m == CallOf(w, op, item)
           IN  m \in Call /\ m.op = op /\ m.by = w /\ m.gen = gen[w] /\ m.item = item
BY DEF Typed, Call, CallOf

\* The fields of a read.
LEMMA ReadTypes ==
    ASSUME NEW r \in Read
    PROVE  /\ r.key \in Keys \cup {NoVersion} /\ r.state \in {"free", "sent", "served"}
           /\ r.item \in Entry /\ r = [key |-> r.key, state |-> r.state, item |-> r.item]
BY DEF Read

\* What may be written may be written later too: sources only go on.
LEMMA FeedGrows ==
    ASSUME Typed, revision' \in Nat, revision <= revision',
           heads'[Source].validated \in Nat,
           heads[Source].validated <= heads'[Source].validated
    PROVE  \A k \in Keys, e \in Entry : /\ Feed(k) <= Feed(k)'
                                        /\ Written(k, e) => Written(k, e)'
<1>1. /\ heads[Source].validated \in Nat /\ revision \in Nat
  BY HeadParts, Constants
<1>2. \A k : Feed(k) \in Nat /\ Feed(k)' \in Nat /\ Feed(k) <= Feed(k)'
  BY <1>1 DEF Feed
<1>3. \A e \in Entry : e.stamp \in Nat
  BY EntryTypes
<1> QED
  BY <1>2, <1>3 DEF Written, Honest

\* A step that leaves the heads alone leaves what they say alone.
LEMMA HeadsStay ==
    ASSUME Typed, HeadsTrue, UNCHANGED headVars, revision' \in Stamps, revision <= revision'
    PROVE  /\ IInv' /\ HeadsTrue' /\ \A k \in Keys : ItemOf(k)' = ItemOf(k)
           /\ \A k \in Keys, e \in Entry : Written(k, e) => Written(k, e)'
<1>1. UNCHANGED <<now, heads, versions, objects, mirror>>
  BY DEF headVars
<1>2. IInv'
  BY <1>1 DEF Typed, IInv, HeadTypeOK, PointersUsable
<1>3. /\ heads'[Source].validated \in Nat /\ revision' \in Nat
      /\ heads[Source].validated <= heads'[Source].validated
  BY <1>1, HeadParts, Constants
<1>4. \A k \in Keys, e \in Entry : /\ Feed(k) <= Feed(k)'
                                   /\ Written(k, e) => Written(k, e)'
  BY <1>3, FeedGrows
<1>5. \A k \in Keys : Feed(k) \in Nat /\ Feed(k)' \in Nat /\ heads[k].validated \in Nat
  BY <1>1, <1>3, HeadParts DEF Feed
<1>6. HeadsTrue'
  <2>1. ASSUME NEW k \in Keys PROVE heads[k].validated <= Feed(k)'
    <3>1. heads[k].validated <= Feed(k)
      BY DEF HeadsTrue
    <3> QED
      BY <1>4, <1>5, <3>1, NoEntryType
  <2>2. \A k \in Keys : Honest(ItemOf(k)) => Honest(ItemOf(k))'
    BY <1>1 DEF Honest, ItemOf
  <2>3. \A k \in Keys : Honest(mirror[k]) => Honest(mirror[k])'
    BY <1>1 DEF Honest
  <2> QED
    BY <1>1, <2>1, <2>2, <2>3 DEF HeadsTrue
<1> QED
  BY <1>1, <1>2, <1>4, <1>6 DEF ItemOf

\* What a worker offers or awaits is what it was, or less.
ReadsKept(w) ==
    /\ waits[w] # NoRead =>
         reads'[waits[w]].state # "free" /\ reads'[waits[w]].key = reads[waits[w]].key
    /\ \A i \in Reads : i \in Offered(w)' /\ reads'[i].state = "served" =>
         i \in Offered(w) /\ reads'[i] = reads[i]

\* A worker that is not concerned.
LEMMA WorkerStays ==
    ASSUME PInv, UNCHANGED <<headVars, gen>>, revision' \in Stamps, revision <= revision',
           NEW w \in Workers, ReadsKept(w),
           pc'[w] = pc[w], have'[w] = have[w], want'[w] = want[w], reply'[w] = reply[w],
           waits'[w] = waits[w]
    PROVE  WorkerOK(w)'
<1>1. UNCHANGED heads /\ KeyOf(w) \in Keys /\ WorkerOK(w) /\ want[w] \in Entry
  BY Constants DEF headVars, PInv, Typed
<1>2. /\ ItemOf(KeyOf(w))' = ItemOf(KeyOf(w))
      /\ Written(KeyOf(w), want[w]) => Written(KeyOf(w), want[w])'
  BY <1>1, HeadsStay DEF PInv
<1>3. Place(w)'
  BY <1>1 DEF WorkerOK, Place, ReadsKept
<1>4. ReadsFresh(w)'
  BY <1>1, <1>2 DEF WorkerOK, ReadsFresh, ReadsKept, Own, Fresh
<1>5. Means(w)'
  BY <1>1, <1>2 DEF WorkerOK, Means, Own, Written, Feed
<1>6. Believes(w)' /\ Settled(w)'
  BY <1>1, <1>2 DEF WorkerOK, Believes, Settled, Own, Spent
<1> QED
  BY <1>3, <1>4, <1>5, <1>6 DEF WorkerOK

\* A call under way is not concerned by what workers do, unless the one that
\* awaits it means something else.
LEMMA MessageStays ==
    ASSUME PInv, UNCHANGED <<headVars, gen>>, revision' \in Stamps, revision <= revision',
           NEW m \in wire,
           pc[m.by] \in {"writing", "done"} =>
             \/ pc'[m.by] = "done"
             \/ pc'[m.by] = pc[m.by] /\ want'[m.by] = want[m.by]
    PROVE  MessageOK(m)'
<1>1. /\ UNCHANGED heads /\ m \in Call /\ MessageOK(m)
  BY DEF headVars, PInv, Typed
<1>2. m.by \in Workers /\ KeyOf(m.by) \in Keys /\ m.item \in Entry
  BY <1>1, MessageTypes, Constants
<1>3. /\ ItemOf(KeyOf(m.by))' = ItemOf(KeyOf(m.by))
      /\ Written(KeyOf(m.by), m.item) => Written(KeyOf(m.by), m.item)'
  BY <1>2, HeadsStay DEF PInv
<1>4. m.op \in {"publish", "revalidate"} =>
        /\ (pc[m.by] \in {"writing", "done"})' /\ (m.gen = gen[m.by])'
        /\ Written(KeyOf(m.by), m.item)'
        /\ (Held(m) => heads[KeyOf(m.by)].validated <= m.item.stamp)'
        /\ (pc[m.by] = "writing" => m.item = want[m.by])'
  BY <1>1, <1>3 DEF MessageOK, Held
<1>5. /\ (m.op = "revalidate" /\ Held(m) => m.item.id = heads[KeyOf(m.by)].current)'
      /\ (m.op = "mirror" =>
            /\ m.gen <= heads[KeyOf(m.by)].gen /\ m.item.id # NoVersion /\ Honest(m.item)
            /\ Spent(KeyOf(m.by), m.gen, m.item))'
  BY <1>1, <1>3 DEF MessageOK, Held, Honest, Spent
<1> QED
  BY <1>4, <1>5 DEF MessageOK

\* Forgetting registered reads.
LEMMA Forgotten ==
    ASSUME Typed, NEW w \in Workers, ForgetAll(w) \/ Forget(w) \/ UNCHANGED pending
    PROVE  /\ pending' \in [Processes -> [Keys -> Reads \cup {NoRead}]]
           /\ \A p \in Processes, k \in Keys : pending'[p][k] \in {pending[p][k], NoRead}
           /\ ForgetAll(w) => \A k \in Keys : pending'[ProcessOf[w]][k] = NoRead
<1>1. ProcessOf[w] \in Processes /\ KeyOf(w) \in Keys
  BY Constants
<1>2. pending \in [Processes -> [Keys -> Reads \cup {NoRead}]]
  BY DEF Typed
<1>3. NothingPending \in [Keys -> Reads \cup {NoRead}] /\ \A k \in Keys : NothingPending[k] = NoRead
  BY DEF NothingPending
<1>4. CASE ForgetAll(w)
  <2> HIDE DEF NothingPending
  <2>1. pending' = [pending EXCEPT ![ProcessOf[w]] = NothingPending]
    BY <1>4 DEF ForgetAll
  <2> QED
    BY <1>1, <1>2, <1>3, <2>1
<1>5. CASE Forget(w) /\ ~ForgetAll(w)
  <2>1. pending' = [pending EXCEPT ![ProcessOf[w]][KeyOf(w)] = NoRead]
    BY <1>5 DEF Forget
  <2> QED
    BY <1>1, <1>2, <1>5, <2>1
<1>6. CASE UNCHANGED pending /\ ~ForgetAll(w)
  BY <1>2, <1>6
<1> QED
  BY <1>4, <1>5, <1>6

\* One worker moves, forgets reads and sends calls.
Moves(w, M) ==
    /\ UNCHANGED <<headVars, gen, reads>>
    /\ revision' \in Stamps /\ revision <= revision' /\ failures' \in Nat
    /\ pc' \in [Workers -> Phases] /\ waits' \in [Workers -> Reads \cup {NoRead}]
    /\ have' \in [Workers -> Entry] /\ want' \in [Workers -> Entry]
    /\ reply' \in [Workers -> {"none", "yes", "no"}]
    /\ \A v \in Workers : v # w =>
         /\ pc'[v] = pc[v] /\ waits'[v] = waits[v] /\ have'[v] = have[v]
         /\ want'[v] = want[v] /\ reply'[v] = reply[v]
    /\ pending' \in [Processes -> [Keys -> Reads \cup {NoRead}]]
    /\ \A p \in Processes, k \in Keys : pending'[p][k] \in {pending[p][k], NoRead}
    /\ wire' = wire \cup M /\ M \subseteq Call
    /\ pc[w] \in {"writing", "done"} =>
         pc'[w] = "done" \/ (pc'[w] = pc[w] /\ want'[w] = want[w])

\* With fewer reads registered, less is offered.
LEMMA OffersLess ==
    ASSUME NEW w \in Workers, waits'[w] \in {waits[w], NoRead},
           \A p \in Processes, k \in Keys : pending'[p][k] \in {pending[p][k], NoRead}
    PROVE  \A i \in Reads : i \in Offered(w)' => i \in Offered(w)
BY Constants DEF Offered

\* A move keeps the invariant if it keeps that of the worker and of what it sends.
LEMMA MoveKeeps ==
    ASSUME PInv, NEW w \in Workers, NEW M, Moves(w, M), WorkerOK(w)',
           \A m \in M : MessageOK(m)'
    PROVE  PInv'
<1>1. /\ UNCHANGED <<headVars, gen>> /\ UNCHANGED reads /\ UNCHANGED heads
      /\ revision' \in Stamps /\ revision <= revision'
  BY DEF Moves, headVars
<1>2. IInv' /\ HeadsTrue'
  BY <1>1, HeadsStay DEF PInv
<1>3. Typed'
  BY <1>1, <1>2 DEF PInv, Typed, Moves
<1>4. Registry'
  <2>1. ASSUME NEW p \in Processes, NEW k \in Keys, pending'[p][k] # NoRead
        PROVE  reads'[pending'[p][k]].key = k /\ reads'[pending'[p][k]].state # "free"
    BY <1>1, <2>1 DEF PInv, Registry, Moves
  <2> QED
    BY <1>1, <2>1 DEF PInv, Registry
<1>5. ReadsTrue'
  BY <1>1 DEF PInv, ReadsTrue, Honest
<1>6. ASSUME NEW v \in Workers PROVE WorkerOK(v)'
  <2>1. CASE v # w
    <3>1. /\ pc'[v] = pc[v] /\ waits'[v] = waits[v] /\ have'[v] = have[v]
          /\ want'[v] = want[v] /\ reply'[v] = reply[v]
          /\ \A p \in Processes, k \in Keys : pending'[p][k] \in {pending[p][k], NoRead}
      BY <2>1 DEF Moves
    <3>2. \A i \in Reads : i \in Offered(v)' => i \in Offered(v)
      BY <3>1, OffersLess
    <3>3. ReadsKept(v)
      <4>1. waits[v] # NoRead => reads[waits[v]].state # "free"
        BY DEF PInv, WorkerOK, Place
      <4> QED
        BY <1>1, <3>2, <4>1 DEF ReadsKept
    <3> QED
      BY <1>1, <3>1, <3>3, WorkerStays
  <2> QED
    BY <2>1
<1>7. ASSUME NEW m \in wire' PROVE MessageOK(m)'
  <2>1. CASE m \in wire
    <3>1. m.by \in Workers
      BY <2>1, MessageTypes DEF PInv, Typed
    <3>2. pc[m.by] \in {"writing", "done"} =>
             \/ pc'[m.by] = "done"
             \/ pc'[m.by] = pc[m.by] /\ want'[m.by] = want[m.by]
      BY <3>1 DEF Moves
    <3> QED
      BY <1>1, <2>1, <3>2, MessageStays
  <2> QED
    BY <1>7, <2>1 DEF Moves
<1> QED
  BY <1>2, <1>3, <1>4, <1>5, <1>6, <1>7 DEF PInv

-------------------------------------------------------------------------------
(* A worker's own steps.                                                     *)

\* The lease is asked for.
LEMMA BeginMoves == ASSUME PInv, NEW w \in Workers, Begin(w) PROVE PInv'
<1>1. PICK c \in Call : c = CallOf(w, "begin", NoEntry) /\ c.op = "begin"
  BY CallTypes, NoEntryType DEF PInv
<1>2. Moves(w, {c})
  <2>1. ForgetAll(w) /\ revision \in Stamps /\ revision \in Nat
    BY Constants DEF Begin, PInv, Typed
  <2>2. /\ pending' \in [Processes -> [Keys -> Reads \cup {NoRead}]]
        /\ \A p \in Processes, k \in Keys : pending'[p][k] \in {pending[p][k], NoRead}
    BY <2>1, Forgotten DEF PInv
  <2> QED
    BY <1>1, <2>1, <2>2 DEF Begin, Moves, PInv, Typed, Phases
<1>3. WorkerOK(w)'
  <2>1. /\ pc[w] = "idle" /\ pc'[w] = "beginning" /\ waits'[w] = waits[w]
        /\ UNCHANGED <<headVars, gen>> /\ Place(w)
    BY DEF Begin, PInv, Typed, WorkerOK
  <2>2. UNCHANGED heads /\ waits[w] = NoRead
    BY <2>1 DEF headVars, Place
  <2> QED
    BY <2>1, <2>2 DEF WorkerOK, Place, ReadsFresh, Means, Believes, Settled
<1> QED
  BY <1>1, <1>2, <1>3, MoveKeeps DEF MessageOK

\* The claim is known: from now on the process reads what the claim protects.
LEMMA BeginReplyMoves == ASSUME PInv, NEW w \in Workers, BeginReply(w) PROVE PInv'
<1>1. PICK c \in Call : c = CallOf(w, "reserve", NoEntry) /\ c.op = "reserve"
  BY CallTypes, NoEntryType DEF PInv
<1>2. PICK M \in SUBSET {c} : wire' = wire \cup M
  <2>1. wire' = wire \cup {c} \/ wire' = wire \cup {}
    BY <1>1 DEF BeginReply
  <2> QED
    BY <2>1
<1>3. ForgetAll(w) /\ revision \in Stamps /\ revision \in Nat
  BY Constants DEF BeginReply, PInv, Typed
<1>4. /\ pending' \in [Processes -> [Keys -> Reads \cup {NoRead}]]
      /\ \A p \in Processes, k \in Keys : pending'[p][k] \in {pending[p][k], NoRead}
      /\ \A k \in Keys : pending'[ProcessOf[w]][k] = NoRead
  BY <1>3, Forgotten DEF PInv
<1>5. /\ pc[w] = "beginning" /\ pc'[w] \in {"reserving", "done"} /\ reply'[w] = "none"
      /\ UNCHANGED <<headVars, gen, waits>> /\ Place(w)
  BY DEF BeginReply, PInv, Typed, WorkerOK
<1>6. Moves(w, M)
  <2>1. \E place \in Phases : pc' = [pc EXCEPT ![w] = place]
    BY DEF BeginReply, Phases
  <2> QED
    BY <1>2, <1>3, <1>4, <1>5, <2>1 DEF BeginReply, Moves, PInv, Typed
<1>7. WorkerOK(w)'
  <2>1. UNCHANGED heads /\ waits[w] = NoRead /\ waits'[w] = NoRead
    BY <1>5 DEF headVars, Place
  <2>2. \A i \in Reads : i \notin Offered(w)'
    BY <1>4, <2>1, Constants DEF Offered
  <2> QED
    BY <1>5, <2>1, <2>2 DEF WorkerOK, Place, ReadsFresh, Means, Believes, Settled
<1> QED
  BY <1>1, <1>2, <1>6, <1>7, MoveKeeps DEF MessageOK

\* The publisher's document is newer than anything the head may show.
LEMMA FetchMoves == ASSUME PInv, NEW w \in Workers, Fetch(w) PROVE PInv'
<1> DEFINE e == [id |-> Content[revision], stamp |-> revision]
<1>1. /\ e \in Entry /\ e.id # NoVersion /\ e.stamp = revision /\ e.id = Content[e.stamp]
      /\ revision \in Stamps /\ revision \in Nat
  BY Constants DEF PInv, Typed, Entry, Version
<1>2. /\ pc[w] = "fetching" /\ want' = [want EXCEPT ![w] = e]
      /\ pc' = [pc EXCEPT ![w] = "storing"]
      /\ UNCHANGED <<headVars, revision, gen, have, wire, reply, failures, readVars>>
  BY DEF Fetch
<1> HIDE DEF e
<1>3. UNCHANGED <<heads, reads, pending, waits>>
  BY <1>2 DEF headVars, readVars
<1>4. Moves(w, {})
  BY <1>1, <1>2, <1>3 DEF Moves, PInv, Typed, Phases
<1>5. /\ pc'[w] = "storing" /\ want'[w] = e /\ WorkerOK(w)
      /\ KeyOf(w) = Source /\ Source \in Keys
  BY <1>1, <1>2, Constants DEF PInv, Typed, WorkerOK, Place
<1>6. Means(w)'
  <2>1. heads[Source].validated <= revision
    BY <1>5 DEF PInv, HeadsTrue, Feed
  <2>2. Feed(Source)' = revision
    BY <1>2 DEF Feed
  <2> QED
    BY <1>1, <1>3, <1>5, <2>1, <2>2 DEF Means, Written, Honest
<1>7. /\ (pc[w] = "fetching" /\ Own(w) => have[w] = ItemOf(KeyOf(w)))
      /\ ItemOf(KeyOf(w))' = ItemOf(KeyOf(w))
  BY <1>3, <1>5 DEF WorkerOK, Believes, ItemOf
<1>8. Believes(w)'
  BY <1>2, <1>3, <1>7 DEF Believes, Own
<1>9. WorkerOK(w)'
  BY <1>2, <1>3, <1>5, <1>6, <1>8 DEF WorkerOK, Place, ReadsFresh, Settled
<1> QED
  BY <1>4, <1>9, MoveKeeps

\* What is written is what was meant.
LEMMA StoreMoves ==
    ASSUME PInv, NEW w \in Workers, StoreUnchanged(w) \/ StoreChanged(w)
    PROVE  PInv'
<1>1. PICK op \in {"publish", "revalidate"} :
        /\ pc[w] = "storing" /\ Write(w, op) /\ UNCHANGED headVars
        /\ op = "revalidate" => want[w].id = have[w].id
  BY DEF StoreUnchanged, StoreChanged
<1>2. /\ pc' = [pc EXCEPT ![w] = "writing"]
      /\ wire' = wire \cup {CallOf(w, op, want[w])}
      /\ Forget(w)
      /\ UNCHANGED <<revision, gen, have, want, reply, reads, waits, failures>>
  BY <1>1 DEF Write
<1>3. PICK c \in Call : /\ c = CallOf(w, op, want[w]) /\ c.op = op /\ c.by = w
                        /\ c.gen = gen[w] /\ c.item = want[w]
  <2>1. want[w] \in Entry
    BY DEF PInv, Typed
  <2> QED
    BY <2>1, CallTypes DEF PInv
<1>4. revision \in Stamps /\ revision \in Nat /\ UNCHANGED heads
  BY <1>1, Constants DEF PInv, Typed, headVars
<1>5. /\ pending' \in [Processes -> [Keys -> Reads \cup {NoRead}]]
      /\ \A p \in Processes, k \in Keys : pending'[p][k] \in {pending[p][k], NoRead}
  BY <1>2, Forgotten DEF PInv
<1>6. Moves(w, {c})
  BY <1>1, <1>2, <1>3, <1>4, <1>5 DEF Moves, PInv, Typed, Phases
<1>7. pc'[w] = "writing" /\ WorkerOK(w) /\ reply[w] = "none" /\ waits[w] = NoRead
  BY <1>1, <1>2 DEF PInv, Typed, WorkerOK, Place
<1>8. /\ Written(KeyOf(w), want[w])' /\ (Own(w) => heads[KeyOf(w)].validated <= want[w].stamp)
  BY <1>1, <1>2, <1>4, <1>7 DEF WorkerOK, Means, Written, Honest, Feed
<1>9. WorkerOK(w)'
  <2>1. Place(w)'
    BY <1>2, <1>4, <1>7 DEF WorkerOK, Place
  <2> QED
    BY <1>2, <1>4, <1>7, <1>8, <2>1 DEF WorkerOK, ReadsFresh, Means, Believes, Settled, Own
<1>10. MessageOK(c)'
  <2>1. Own(w) => have[w] = ItemOf(KeyOf(w))
    BY <1>1, <1>7 DEF WorkerOK, Believes
  <2>2. op = "revalidate" /\ Own(w) => want[w].id = heads[KeyOf(w)].current
    BY <1>1, <2>1 DEF ItemOf
  <2> QED
    BY <1>2, <1>3, <1>4, <1>7, <1>8, <2>2 DEF MessageOK, Held, Own
<1> QED
  BY <1>6, <1>9, <1>10, MoveKeeps

\* A success is mirrored as it was written.
LEMMA WriteReplyMoves == ASSUME PInv, NEW w \in Workers, WriteReply(w) PROVE PInv'
<1>1. PICK op \in {"mirror", "release"} :
        /\ pc[w] = "writing" /\ (op = "mirror" => reply[w] = "yes")
        /\ pc' = [pc EXCEPT ![w] = "done"]
        /\ wire' = wire \cup {CallOf(w, op, want[w])}
        /\ reply' = [reply EXCEPT ![w] = "none"]
        /\ have' = [have EXCEPT ![w] = NoEntry]
        /\ want' = [want EXCEPT ![w] = NoEntry]
        /\ Forget(w)
        /\ UNCHANGED <<headVars, revision, gen, reads, waits, failures>>
  BY DEF WriteReply
<1>2. PICK c \in Call : /\ c = CallOf(w, op, want[w]) /\ c.op = op /\ c.by = w
                        /\ c.gen = gen[w] /\ c.item = want[w]
  <2>1. want[w] \in Entry
    BY DEF PInv, Typed
  <2> QED
    BY <2>1, CallTypes DEF PInv
<1>3. revision \in Stamps /\ revision \in Nat /\ UNCHANGED heads
  BY <1>1, Constants DEF PInv, Typed, headVars
<1>4. /\ pending' \in [Processes -> [Keys -> Reads \cup {NoRead}]]
      /\ \A p \in Processes, k \in Keys : pending'[p][k] \in {pending[p][k], NoRead}
  BY <1>1, Forgotten DEF PInv
<1>5. Moves(w, {c})
  BY <1>1, <1>2, <1>3, <1>4, NoEntryType DEF Moves, PInv, Typed, Phases
<1>6. pc'[w] = "done" /\ WorkerOK(w) /\ reply'[w] = "none" /\ waits[w] = NoRead
  BY <1>1 DEF PInv, Typed, WorkerOK, Place
<1>7. WorkerOK(w)'
  <2>1. Place(w)'
    BY <1>1, <1>3, <1>6 DEF WorkerOK, Place
  <2> QED
    BY <1>6, <2>1 DEF WorkerOK, ReadsFresh, Means, Believes, Settled
<1>8. MessageOK(c)'
  <2>1. CASE op = "mirror"
    <3>1. /\ gen[w] <= heads[KeyOf(w)].gen /\ want[w].id # NoVersion /\ Honest(want[w])
          /\ Spent(KeyOf(w), gen[w], want[w])
      BY <1>1, <1>6, <2>1 DEF WorkerOK, Place, Means, Written, Settled
    <3> QED
      BY <1>2, <1>3, <2>1, <3>1 DEF MessageOK, Honest, Spent, ItemOf
  <2>2. CASE op = "release"
    BY <1>2, <2>2 DEF MessageOK
  <2> QED
    BY <2>1, <2>2
<1> QED
  BY <1>5, <1>7, <1>8, MoveKeeps

\* Giving up leaves the claim to be released.
LEMMA GiveUpMoves == ASSUME PInv, NEW w \in Workers, GiveUp(w) PROVE PInv'
<1>1. PICK c \in Call : c = CallOf(w, "release", NoEntry) /\ c.op = "release"
  BY CallTypes, NoEntryType DEF PInv
<1>2. PICK M \in SUBSET {c} : wire' = wire \cup M
  <2>1. wire' = wire \cup {c} \/ wire' = wire \cup {}
    BY <1>1 DEF GiveUp
  <2> QED
    BY <2>1
<1>3. /\ ForgetAll(w) \/ Forget(w) \/ UNCHANGED pending
      /\ revision \in Stamps /\ revision \in Nat /\ failures' \in Nat
  BY Constants DEF GiveUp, PInv, Typed
<1>4. /\ pending' \in [Processes -> [Keys -> Reads \cup {NoRead}]]
      /\ \A p \in Processes, k \in Keys : pending'[p][k] \in {pending[p][k], NoRead}
  BY <1>3, Forgotten DEF PInv
<1>5. /\ pc' = [pc EXCEPT ![w] = "done"] /\ reply' = [reply EXCEPT ![w] = "none"]
      /\ waits' = [waits EXCEPT ![w] = NoRead]
      /\ UNCHANGED <<headVars, revision, gen, have, want, reads>>
  BY DEF GiveUp
<1>6. Moves(w, M)
  BY <1>2, <1>3, <1>4, <1>5 DEF Moves, PInv, Typed, Phases
<1>7. /\ pc'[w] = "done" /\ WorkerOK(w) /\ reply'[w] = "none" /\ waits'[w] = NoRead
      /\ UNCHANGED heads
  BY <1>5 DEF PInv, Typed, WorkerOK, headVars
<1>8. WorkerOK(w)'
  BY <1>5, <1>7 DEF WorkerOK, Place, ReadsFresh, Means, Believes, Settled
<1> QED
  BY <1>1, <1>2, <1>6, <1>8, MoveKeeps DEF MessageOK

\* The publisher goes on.
LEMMA ReviseMoves == ASSUME PInv, Revise PROVE PInv'
<1>1. /\ UNCHANGED <<headVars, workVars, readVars>> /\ revision' \in Stamps
      /\ revision \in Nat /\ revision <= revision'
  BY Constants DEF Revise, PInv, Typed
<1>2. UNCHANGED <<pc, gen, have, want, wire, reply, failures, reads, pending, waits>>
  BY <1>1 DEF workVars, readVars
<1>3. IInv' /\ HeadsTrue' /\ UNCHANGED heads
  BY <1>1, HeadsStay DEF PInv, headVars
<1>4. Typed' /\ Registry' /\ ReadsTrue'
  BY <1>1, <1>2, <1>3 DEF PInv, Typed, Registry, ReadsTrue, Honest
<1>5. ASSUME NEW w \in Workers PROVE WorkerOK(w)'
  <2>1. ReadsKept(w)
    BY <1>2 DEF ReadsKept, Offered, PInv, WorkerOK, Place
  <2> QED
    BY <1>1, <1>2, <2>1, WorkerStays
<1>6. ASSUME NEW m \in wire' PROVE MessageOK(m)'
  BY <1>1, <1>2, <1>6, MessageStays
<1> QED
  BY <1>3, <1>4, <1>5, <1>6 DEF PInv

-------------------------------------------------------------------------------
(* Reads.                                                                    *)

\* At most, reads begin; what is registered anew has just begun.
Opened ==
    /\ reads' \in [Reads -> Read]
    /\ pending' \in [Processes -> [Keys -> Reads \cup {NoRead}]]
    /\ \A i \in Reads :
         \/ reads'[i] = reads[i]
         \/ reads[i].state = "free" /\ reads'[i].state = "sent" /\ reads'[i].key \in Keys
    /\ \A p \in Processes, k \in Keys : pending'[p][k] # NoRead =>
         \/ pending'[p][k] = pending[p][k]
         \/ reads'[pending'[p][k]].state = "sent" /\ reads'[pending'[p][k]].key = k

\* Starting a read only opens one: no read under way changes.
LEMMA StartOpens ==
    ASSUME Typed, NEW p \in Processes, NEW k \in Keys, NEW i \in Reads, StartRead(p, k, i)
    PROVE  Opened /\ reads'[i].state = "sent" /\ reads'[i].key = k
<1> DEFINE r == [key |-> k, state |-> "sent", item |-> NoEntry]
<1>1. reads[i].state = "free" /\ reads' = [reads EXCEPT ![i] = r]
  BY DEF StartRead
<1>2. pending' \in {[pending EXCEPT ![p][k] = i], pending}
  BY DEF StartRead
<1>3. r \in Read /\ r.state = "sent" /\ r.key = k
  BY NoEntryType DEF Read
<1> HIDE DEF r
<1>4. /\ reads \in [Reads -> Read]
      /\ pending \in [Processes -> [Keys -> Reads \cup {NoRead}]]
  BY DEF Typed
<1>5. reads' \in [Reads -> Read] /\ reads'[i] = r /\ \A j \in Reads : j # i => reads'[j] = reads[j]
  BY <1>1, <1>3, <1>4
<1>6. /\ pending' \in [Processes -> [Keys -> Reads \cup {NoRead}]]
      /\ \A q \in Processes, l \in Keys : \/ pending'[q][l] = pending[q][l]
                                          \/ l = k /\ pending'[q][l] = i
  BY <1>2, <1>4
<1> QED
  BY <1>1, <1>3, <1>5, <1>6 DEF Opened

\* Reads begin, and some workers that are not writing move on with them.
Reading ==
    /\ Opened /\ UNCHANGED <<headVars, revision, gen, have, want, wire>>
    /\ pc' \in [Workers -> Phases] /\ waits' \in [Workers -> Reads \cup {NoRead}]
    /\ reply' \in [Workers -> {"none", "yes", "no"}] /\ failures' \in Nat
    /\ \A w \in Workers :
         \/ pc'[w] = pc[w] /\ waits'[w] = waits[w] /\ reply'[w] = reply[w]
         \/ pc[w] \notin {"writing", "done"} /\ WorkerOK(w)'

\* A read that is under way stays as it is.
LEMMA OpenedKeeps ==
    ASSUME Registry, Opened
    PROVE  /\ \A i \in Reads : reads[i].state # "free" => reads'[i] = reads[i]
           /\ \A i \in Reads : reads'[i].state = "served" => reads'[i] = reads[i]
           /\ \A p \in Processes, k \in Keys :
                pending'[p][k] \in Reads /\ reads'[pending'[p][k]].state = "served" =>
                  pending'[p][k] = pending[p][k]
           /\ Registry'
<1>1. \A i \in Reads : reads[i].state # "free" => reads'[i] = reads[i]
  BY DEF Opened
<1>2. \A i \in Reads : reads'[i].state = "served" => reads'[i] = reads[i]
  BY DEF Opened
<1>3. \A p \in Processes, k \in Keys :
        pending'[p][k] \in Reads /\ reads'[pending'[p][k]].state = "served" =>
          pending'[p][k] = pending[p][k]
  BY Constants DEF Opened
<1>4. \A i \in Reads : reads'[i].state # "free" => reads'[i].key \in Keys
  BY DEF Opened, Registry
<1>5. ASSUME NEW p \in Processes, NEW k \in Keys, pending'[p][k] # NoRead
      PROVE  reads'[pending'[p][k]].key = k /\ reads'[pending'[p][k]].state # "free"
  <2>1. pending'[p][k] \in Reads
    BY <1>5 DEF Opened
  <2>2. CASE pending'[p][k] = pending[p][k]
    BY <1>1, <1>5, <2>1, <2>2 DEF Registry
  <2>3. CASE reads'[pending'[p][k]].state = "sent" /\ reads'[pending'[p][k]].key = k
    BY <2>3
  <2> QED
    BY <1>5, <2>2, <2>3 DEF Opened
<1> QED
  BY <1>1, <1>2, <1>3, <1>4, <1>5 DEF Registry

\* A step that only moves reads and the workers waiting for them keeps it.
LEMMA ReadingKeeps == ASSUME PInv, Reading PROVE PInv'
<1>1. /\ Opened /\ UNCHANGED <<headVars, revision, gen, have, want, wire>>
      /\ revision \in Stamps /\ revision \in Nat
  BY Constants DEF Reading, PInv, Typed
<1>2. IInv' /\ HeadsTrue' /\ UNCHANGED heads
  BY <1>1, HeadsStay DEF PInv, headVars
<1>3. Typed'
  BY <1>1, <1>2 DEF PInv, Typed, Reading, Opened
<1>4. Registry'
  BY <1>1, OpenedKeeps DEF PInv
<1>5. ReadsTrue'
  BY <1>1, <1>2, OpenedKeeps DEF PInv, ReadsTrue, Honest
<1>6. ASSUME NEW w \in Workers PROVE WorkerOK(w)'
  <2>1. CASE pc'[w] = pc[w] /\ waits'[w] = waits[w] /\ reply'[w] = reply[w]
    <3>1. waits[w] # NoRead => waits[w] \in Reads /\ reads[waits[w]].state # "free"
      BY DEF PInv, Typed, WorkerOK, Place
    <3>2. ASSUME NEW i \in Reads, i \in Offered(w)', reads'[i].state = "served"
          PROVE  i \in Offered(w) /\ reads'[i] = reads[i]
      BY <1>1, <2>1, <3>2, OpenedKeeps, Constants DEF Offered, PInv
    <3>3. ReadsKept(w)
      BY <1>1, <3>1, <3>2, OpenedKeeps DEF ReadsKept, PInv
    <3> QED
      BY <1>1, <2>1, <3>3, WorkerStays
  <2> QED
    BY <2>1 DEF Reading
<1>7. ASSUME NEW m \in wire' PROVE MessageOK(m)'
  <2>1. m \in wire /\ m.by \in Workers
    BY <1>1, <1>7, MessageTypes DEF PInv, Typed
  <2>2. pc[m.by] \in {"writing", "done"} => pc'[m.by] = pc[m.by] /\ want'[m.by] = want[m.by]
    BY <1>1, <2>1 DEF Reading
  <2> QED
    BY <1>1, <2>1, <2>2, MessageStays
<1> QED
  BY <1>2, <1>3, <1>4, <1>5, <1>6, <1>7 DEF PInv

\* A worker that has its claim, or its input, awaits a read of what its place
\* asks for: a registered one, which is fresh, or one that begins.
LEMMA Joins ==
    ASSUME PInv, NEW w \in Workers, NEW k \in Keys, ReadVersion(w, k),
           pc[w] \in {"reserving", "previous"}, UNCHANGED <<headVars, revision, gen, have, want>>,
           reply'[w] = "none",
           \/ k = Source /\ w \in Preparers /\ pc[w] = "reserving" /\ pc'[w] = "input"
           \/ k = KeyOf(w) /\ pc'[w] = "previous" /\ (w \in Preparers => pc[w] = "previous")
    PROVE  Opened /\ waits' \in [Workers -> Reads \cup {NoRead}] /\ WorkerOK(w)'
           /\ \A v \in Workers : v # w => waits'[v] = waits[v]
<1> DEFINE p == ProcessOf[w]
<1>1. p \in Processes
  BY Constants
<1>2. PICK i \in Reads : /\ Opened /\ waits' = [waits EXCEPT ![w] = i]
                         /\ reads'[i].key = k /\ reads'[i].state # "free"
                         /\ reads'[i].state = "served" => i \in Offered(w)
  <2>1. CASE /\ pending[p][k] # NoRead /\ waits' = [waits EXCEPT ![w] = pending[p][k]]
             /\ UNCHANGED <<reads, pending>>
    <3>1. pending[p][k] \in Reads
      BY <1>1, <2>1 DEF PInv, Typed
    <3>2. Opened
      BY <2>1 DEF Opened, PInv, Typed
    <3>3. reads[pending[p][k]].key = k /\ reads[pending[p][k]].state # "free"
      BY <1>1, <2>1 DEF PInv, Registry
    <3> QED
      BY <2>1, <3>1, <3>2, <3>3 DEF Offered
  <2>2. ASSUME NEW i \in Reads, StartRead(p, k, i), waits' = [waits EXCEPT ![w] = i]
        PROVE  /\ Opened /\ waits' = [waits EXCEPT ![w] = i]
               /\ reads'[i].key = k /\ reads'[i].state # "free"
               /\ reads'[i].state = "served" => i \in Offered(w)
    BY <1>1, <2>2, StartOpens DEF PInv
  <2> QED
    BY <2>1, <2>2 DEF ReadVersion
<1>3. /\ waits' \in [Workers -> Reads \cup {NoRead}] /\ waits'[w] = i
      /\ \A v \in Workers : v # w => waits'[v] = waits[v]
  BY <1>2 DEF PInv, Typed
<1>4. WorkerOK(w) /\ UNCHANGED heads /\ KeyOf(w) \in Keys /\ want[w] \in Entry
      /\ revision \in Stamps /\ revision \in Nat
  BY Constants DEF PInv, Typed, headVars
<1>5. Place(w)'
  BY <1>2, <1>3, <1>4, Constants DEF WorkerOK, Place
<1>6. ItemOf(KeyOf(w))' = ItemOf(KeyOf(w)) /\ Own(w)' = Own(w)
      /\ (Written(KeyOf(w), want[w]) => Written(KeyOf(w), want[w])')
  BY <1>4, HeadsStay DEF PInv, Own
<1>7. ReadsFresh(w)'
  <2> SUFFICES ASSUME Own(w), NEW j \in Reads, j \in Offered(w)', reads'[j].state = "served"
               PROVE  Fresh(w, reads[j])' 
    BY <1>6 DEF ReadsFresh
  <2>1. j \in Offered(w)
    BY <1>2, <1>3, OpenedKeeps, Constants DEF Offered, PInv
  <2>2. reads'[j] = reads[j]
    BY <1>2, OpenedKeeps DEF PInv
  <2>3. Fresh(w, reads[j])
    BY <1>4, <2>1, <2>2 DEF WorkerOK, ReadsFresh
  <2> QED
    BY <1>4, <1>6, <2>2, <2>3 DEF Fresh
<1>8. Means(w)' /\ Believes(w)' /\ Settled(w)'
  <2>1. Means(w)'
    BY <1>4, <1>6, Constants DEF WorkerOK, Means
  <2> QED
    BY <2>1 DEF Believes, Settled
<1> QED
  BY <1>2, <1>3, <1>5, <1>7, <1>8 DEF WorkerOK

\* The reply to a reservation.
LEMMA ReservedMoves == ASSUME PInv, NEW w \in Workers, Reserved(w) PROVE PInv'
<1>1. /\ pc[w] = "reserving" /\ reply' = [reply EXCEPT ![w] = "none"]
      /\ pc' = [pc EXCEPT ![w] = IF w \in Preparers THEN "input" ELSE "previous"]
      /\ ReadVersion(w, Source)
      /\ UNCHANGED <<headVars, revision, gen, have, want, wire>>
  BY DEF Reserved
<1>2. failures' \in Nat
  BY DEF Reserved, PInv, Typed
<1>3. /\ pc' \in [Workers -> Phases] /\ reply' \in [Workers -> {"none", "yes", "no"}]
      /\ pc'[w] = IF w \in Preparers THEN "input" ELSE "previous"
      /\ reply'[w] = "none"
      /\ \A v \in Workers : v # w => pc'[v] = pc[v] /\ reply'[v] = reply[v]
  BY <1>1 DEF PInv, Typed, Phases
<1>4. /\ Opened /\ waits' \in [Workers -> Reads \cup {NoRead}] /\ WorkerOK(w)'
      /\ \A v \in Workers : v # w => waits'[v] = waits[v]
  BY <1>1, <1>3, Joins, Constants
<1>5. Reading
  BY <1>1, <1>2, <1>3, <1>4 DEF Reading
<1> QED
  BY <1>5, ReadingKeeps

\* A worker asks for the version before its own.
LEMMA ReadPreviousMoves == ASSUME PInv, NEW w \in Workers, ReadPrevious(w) PROVE PInv'
<1>1. /\ pc[w] = "previous" /\ waits[w] = NoRead /\ ReadVersion(w, Output)
      /\ UNCHANGED <<headVars, revision, pc, gen, have, want, wire, reply, failures>>
  BY DEF ReadPrevious, workVars
<1>2. WorkerOK(w) /\ pc \in [Workers -> Phases]
      /\ reply \in [Workers -> {"none", "yes", "no"}] /\ failures \in Nat
  BY DEF PInv, Typed
<1>3. w \in Preparers /\ KeyOf(w) = Output /\ Output \in Keys /\ reply[w] = "none"
  BY <1>1, <1>2, Constants DEF WorkerOK, Place
<1>4. /\ Opened /\ waits' \in [Workers -> Reads \cup {NoRead}] /\ WorkerOK(w)'
      /\ \A v \in Workers : v # w => waits'[v] = waits[v]
  BY <1>1, <1>3, Joins
<1>5. Reading
  BY <1>1, <1>2, <1>4 DEF Reading
<1> QED
  BY <1>5, ReadingKeeps

\* A reader that is not one of the workers.
LEMMA OtherReaderMoves ==
    ASSUME PInv, NEW p \in Processes, NEW k \in Keys, NEW i \in Reads, OtherReader(p, k, i)
    PROVE  PInv'
<1>1. StartRead(p, k, i) /\ UNCHANGED <<headVars, revision, workVars, waits>>
  BY DEF OtherReader
<1>2. Opened
  BY <1>1, StartOpens DEF PInv
<1>3. Reading
  BY <1>1, <1>2 DEF Reading, workVars, PInv, Typed
<1> QED
  BY <1>3, ReadingKeeps

\* What a read is answered with is what its resource shows, and an output stands
\* for nothing newer than its source.
LEMMA ServeReadMoves == ASSUME PInv, NEW i \in Reads, ServeRead(i) PROVE PInv'
<1> DEFINE k == reads[i].key
           r == [key |-> k, state |-> "served", item |-> ItemOf(k)]
<1>1. /\ reads[i].state = "sent" /\ reads[i] \in Read /\ k \in Keys
      /\ UNCHANGED <<headVars, revision, workVars, pending, waits>>
  BY DEF ServeRead, PInv, Typed, Registry
<1>3. reads' = [reads EXCEPT ![i] = r]
  <2>1. reads' = [reads EXCEPT ![i] = [reads[i] EXCEPT !.state = "served", !.item = ItemOf(k)]]
    BY DEF ServeRead, PInv, Typed, ItemOf
  <2> DEFINE s == [reads[i] EXCEPT !.state = "served", !.item = ItemOf(k)]
  <2>2. s \in Read /\ s.key = k /\ s.state = "served" /\ s.item = ItemOf(k)
    BY <1>1, HeadParts DEF PInv, Read
  <2>3. s = r
    <3> HIDE DEF s
    <3> QED
      BY <2>2, ReadTypes
  <2> QED
    BY <2>1, <2>3
<1>4. r \in Read /\ r.key = k /\ r.state = "served" /\ r.item = ItemOf(k)
  BY <1>1, HeadParts DEF PInv, Read
<1> HIDE DEF r
<1>5. /\ UNCHANGED <<heads, pc, gen, have, want, wire, reply, failures>>
      /\ revision \in Stamps /\ revision \in Nat
  BY <1>1, Constants DEF PInv, Typed, headVars, workVars
<1>6. /\ IInv' /\ HeadsTrue' /\ \A l \in Keys : ItemOf(l)' = ItemOf(l)
      /\ \A l \in Keys, e \in Entry : Written(l, e) => Written(l, e)'
  BY <1>1, <1>5, HeadsStay DEF PInv
<1>7. /\ reads' \in [Reads -> Read] /\ reads'[i] = r
      /\ \A j \in Reads : j # i => reads'[j] = reads[j]
  BY <1>3, <1>4 DEF PInv, Typed
<1>8. Typed'
  BY <1>1, <1>5, <1>6, <1>7 DEF PInv, Typed
<1>9. Registry'
  <2>1. \A j \in Reads : /\ reads'[j].key = reads[j].key
                         /\ (reads'[j].state = "free") = (reads[j].state = "free")
    BY <1>1, <1>4, <1>7
  <2>2. pending \in [Processes -> [Keys -> Reads \cup {NoRead}]]
    BY DEF PInv, Typed
  <2> QED
    BY <1>1, <2>1, <2>2 DEF PInv, Registry
<1>10. ReadsTrue'
  <2>1. Honest(ItemOf(k)) /\ (k = Source => ItemOf(k).stamp = heads[Source].validated)
    BY <1>1 DEF PInv, HeadsTrue, ItemOf
  <2>2. heads[Source].validated \in Nat
    BY HeadParts, Constants DEF PInv
  <2> QED
    BY <1>4, <1>5, <1>7, <2>1, <2>2 DEF PInv, ReadsTrue, Honest
<1>11. ASSUME NEW w \in Workers PROVE WorkerOK(w)'
  <2>1. WorkerOK(w) /\ KeyOf(w) \in Keys /\ want[w] \in Entry /\ waits[w] \in Reads \cup {NoRead}
    BY Constants DEF PInv, Typed
  <2>2. Place(w)'
    BY <1>1, <1>4, <1>5, <1>7, <2>1 DEF WorkerOK, Place
  <2>3. ReadsFresh(w)'
    <3> SUFFICES ASSUME pc[w] \in {"reserving", "input", "previous"}, Own(w),
                        NEW j \in Reads, j \in Offered(w), reads'[j].state = "served"
                 PROVE  Fresh(w, reads[j])'
      BY <1>1, <1>5 DEF ReadsFresh, Offered, Own
    <3>1. CASE j # i
      <4>1. Fresh(w, reads[j])
        BY <1>7, <2>1, <3>1 DEF WorkerOK, ReadsFresh
      <4> QED
        BY <1>5, <1>6, <1>7, <2>1, <3>1, <4>1 DEF Fresh
    <3>2. CASE j = i
      <4>1. k = KeyOf(w) => reads'[j].item = ItemOf(KeyOf(w))'
        BY <1>4, <1>6, <1>7, <2>1, <3>2
      <4>2. heads[KeyOf(w)].validated <= heads[Source].validated
        BY <2>1, HeadParts, Constants DEF PInv, HeadsTrue, Feed
      <4>3. k = Source => heads'[KeyOf(w)].validated <= reads'[j].item.stamp
        BY <1>4, <1>5, <1>7, <3>2, <4>2 DEF ItemOf
      <4> QED
        BY <1>4, <1>7, <3>2, <4>1, <4>3 DEF Fresh
    <3> QED
      BY <3>1, <3>2
  <2>4. Means(w)'
    BY <1>5, <1>6, <2>1 DEF WorkerOK, Means, Own
  <2>5. Believes(w)' /\ Settled(w)'
    BY <1>5, <1>6, <2>1 DEF WorkerOK, Believes, Settled, Own, Spent
  <2> QED
    BY <2>2, <2>3, <2>4, <2>5 DEF WorkerOK
<1>12. ASSUME NEW m \in wire' PROVE MessageOK(m)'
  BY <1>1, <1>5, <1>12, MessageStays
<1> QED
  BY <1>6, <1>8, <1>9, <1>10, <1>11, <1>12 DEF PInv

\* A read that ends is forgotten by the registry and by whoever waits.
LEMMA FinishTypes ==
    ASSUME Typed, Registry, NEW i \in Reads, FinishRead(i)
    PROVE  /\ reads' \in [Reads -> Read] /\ reads'[i].state = "free"
           /\ \A j \in Reads : j # i => reads'[j] = reads[j]
           /\ pending' \in [Processes -> [Keys -> Reads \cup {NoRead}]]
           /\ \A p \in Processes, k \in Keys :
                \/ pending'[p][k] = NoRead
                \/ pending'[p][k] = pending[p][k] /\ pending[p][k] # i
           /\ waits' \in [Workers -> Reads \cup {NoRead}]
           /\ \A w \in Workers : /\ waits[w] = i => waits'[w] = NoRead
                                 /\ waits[w] # i => waits'[w] = waits[w]
           /\ Registry'
<1>1. FreeRead \in Read /\ FreeRead.state = "free"
  BY NoEntryType DEF FreeRead, Read
<1>2. /\ reads \in [Reads -> Read] /\ waits \in [Workers -> Reads \cup {NoRead}]
      /\ pending \in [Processes -> [Keys -> Reads \cup {NoRead}]]
  BY DEF Typed
<1>3. /\ reads' = [reads EXCEPT ![i] = FreeRead]
      /\ pending' = [p \in Processes |->
                       [k \in Keys |-> IF pending[p][k] = i THEN NoRead ELSE pending[p][k]]]
      /\ waits' = [w \in Workers |-> IF waits[w] = i THEN NoRead ELSE waits[w]]
  BY DEF FinishRead
<1>4. /\ reads' \in [Reads -> Read] /\ reads'[i].state = "free"
      /\ \A j \in Reads : j # i => reads'[j] = reads[j]
  BY <1>1, <1>2, <1>3
<1>5. /\ pending' \in [Processes -> [Keys -> Reads \cup {NoRead}]]
      /\ \A p \in Processes, k \in Keys :
           \/ pending'[p][k] = NoRead
           \/ pending'[p][k] = pending[p][k] /\ pending[p][k] # i
  BY <1>2, <1>3
<1>6. /\ waits' \in [Workers -> Reads \cup {NoRead}]
      /\ \A w \in Workers : /\ waits[w] = i => waits'[w] = NoRead
                            /\ waits[w] # i => waits'[w] = waits[w]
  BY <1>2, <1>3
<1>7. Registry'
  <2>1. ASSUME NEW p \in Processes, NEW k \in Keys, pending'[p][k] # NoRead
        PROVE  reads'[pending'[p][k]].key = k /\ reads'[pending'[p][k]].state # "free"
    <3>1. pending'[p][k] = pending[p][k] /\ pending[p][k] # i /\ pending[p][k] \in Reads
      BY <1>2, <1>5, <2>1
    <3> QED
      BY <1>4, <2>1, <3>1 DEF Registry
  <2>2. \A j \in Reads : reads'[j].state # "free" => reads'[j].key \in Keys
    BY <1>4 DEF Registry
  <2> QED
    BY <2>1, <2>2 DEF Registry
<1> QED
  BY <1>4, <1>5, <1>6, <1>7

\* The end of a read, for the types, the registry, and everyone else.
LEMMA FinishKeeps ==
    ASSUME PInv, NEW i \in Reads, FinishRead(i), UNCHANGED <<headVars, revision, gen>>
    PROVE  /\ IInv' /\ HeadsTrue' /\ Registry' /\ ReadsTrue'
           /\ \A w \in Workers, j \in Reads :
                j \in Offered(w)' /\ reads'[j].state = "served" =>
                  j \in Offered(w) /\ reads'[j] = reads[j]
           /\ \A w \in Workers :
                /\ waits[w] # i
                /\ pc'[w] = pc[w] /\ have'[w] = have[w] /\ want'[w] = want[w]
                /\ reply'[w] = reply[w]
                => WorkerOK(w)'
<1>1. revision \in Stamps /\ revision \in Nat /\ UNCHANGED heads
  BY Constants DEF PInv, Typed, headVars
<1>2. IInv' /\ HeadsTrue'
  BY <1>1, HeadsStay DEF PInv
<1>3. Registry'
  BY FinishTypes DEF PInv
<1>4. ReadsTrue'
  <2>1. ASSUME NEW j \in Reads, reads'[j].state = "served" PROVE reads'[j] = reads[j]
    BY <2>1, FinishTypes DEF PInv
  <2> QED
    BY <1>1, <2>1 DEF PInv, ReadsTrue, Honest
<1>5. ASSUME NEW w \in Workers, NEW j \in Reads, j \in Offered(w)', reads'[j].state = "served"
      PROVE  j \in Offered(w) /\ reads'[j] = reads[j]
  <2>1. j # i /\ reads'[j] = reads[j]
    BY <1>5, FinishTypes DEF PInv
  <2>2. j = waits'[w] \/ \E k \in Keys : j = pending'[ProcessOf[w]][k]
    BY <1>5 DEF Offered
  <2>3. waits'[w] = waits[w] \/ waits'[w] = NoRead
    BY FinishTypes DEF PInv
  <2> QED
    BY <2>1, <2>2, <2>3, FinishTypes, Constants DEF Offered, PInv
<1>6. ASSUME NEW w \in Workers, waits[w] # i,
             pc'[w] = pc[w] /\ have'[w] = have[w] /\ want'[w] = want[w] /\ reply'[w] = reply[w]
      PROVE  WorkerOK(w)'
  <2>1. waits'[w] = waits[w]
    BY <1>6, FinishTypes DEF PInv
  <2>2. waits[w] # NoRead =>
          reads'[waits[w]].state # "free" /\ reads'[waits[w]].key = reads[waits[w]].key
    <3>1. waits[w] # NoRead => waits[w] \in Reads /\ reads[waits[w]].state # "free"
      BY DEF PInv, Typed, WorkerOK, Place
    <3> QED
      BY <1>6, <3>1, FinishTypes DEF PInv
  <2>3. ReadsKept(w)
    BY <1>5, <2>2 DEF ReadsKept
  <2> QED
    BY <1>1, <1>6, <2>1, <2>3, WorkerStays
<1> QED
  BY <1>2, <1>3, <1>4, <1>5, <1>6

\* An answer is taken for what its waiters asked for.
LEMMA AnsweredMoves == ASSUME PInv, NEW i \in Reads, Answered(i) PROVE PInv'
<1>1. /\ reads[i].state = "served" /\ FinishRead(i)
      /\ UNCHANGED <<headVars, revision, gen, wire, reply, failures>>
      /\ \A w \in Waiting(i) : pc[w] = "input" => reads[i].item.id # NoVersion
  BY DEF Answered
<1>2. /\ reads[i].item \in Entry /\ UNCHANGED heads /\ Source \in Keys
      /\ revision \in Stamps /\ revision \in Nat
  <2>1. reads[i] \in Read /\ revision \in Stamps
    BY DEF PInv, Typed
  <2> QED
    BY <1>1, <2>1, ReadTypes, Constants DEF headVars
<1>3. \A w \in Workers :
        /\ pc'[w] = IF waits[w] # i THEN pc[w]
                    ELSE IF pc[w] = "input" THEN "previous"
                    ELSE IF w \in Refreshers THEN "fetching" ELSE "storing"
        /\ want'[w] = IF waits[w] = i /\ pc[w] = "input" THEN reads[i].item ELSE want[w]
        /\ have'[w] = IF waits[w] = i /\ pc[w] = "previous" THEN reads[i].item ELSE have[w]
  BY DEF Answered
<1>4. /\ pc' \in [Workers -> Phases] /\ want' \in [Workers -> Entry]
      /\ have' \in [Workers -> Entry]
  BY <1>2 DEF Answered, PInv, Typed, Phases
<1>5. /\ IInv' /\ HeadsTrue' /\ Registry' /\ ReadsTrue'
      /\ \A w \in Workers, j \in Reads :
           j \in Offered(w)' /\ reads'[j].state = "served" =>
             j \in Offered(w) /\ reads'[j] = reads[j]
  BY <1>1, FinishKeeps
<1>6. Typed'
  <2>1. /\ reads' \in [Reads -> Read] /\ waits' \in [Workers -> Reads \cup {NoRead}]
        /\ pending' \in [Processes -> [Keys -> Reads \cup {NoRead}]]
    BY <1>1, FinishTypes DEF PInv
  <2> QED
    BY <1>1, <1>4, <1>5, <2>1 DEF PInv, Typed
<1>7. \A k \in Keys, e \in Entry : Written(k, e) => Written(k, e)'
  BY <1>1, <1>2, HeadsStay DEF PInv
<1>8. ASSUME NEW w \in Workers, waits[w] = i PROVE WorkerOK(w)'
  <2>1. /\ WorkerOK(w) /\ KeyOf(w) \in Keys /\ want[w] \in Entry /\ i # NoRead
        /\ w \in Refreshers => w \notin Preparers /\ KeyOf(w) = Source
        /\ w \notin Refreshers => w \in Preparers /\ KeyOf(w) = Output
    BY Constants DEF PInv, Typed
  <2>2. /\ waits'[w] = NoRead /\ reply[w] = "none" /\ gen[w] <= heads[KeyOf(w)].gen
        /\ \/ pc[w] = "input" /\ reads[i].key = Source /\ w \in Preparers
           \/ pc[w] = "previous" /\ reads[i].key = KeyOf(w)
    <3>1. waits'[w] = NoRead
      BY <1>1, <1>8, FinishTypes DEF PInv
    <3> QED
      BY <1>8, <2>1, <3>1 DEF WorkerOK, Place
  <2>3. Own(w) => Fresh(w, reads[i])
    BY <1>1, <1>8, <2>1, <2>2 DEF WorkerOK, ReadsFresh, Offered
  <2>4. Own(w)' = Own(w) /\ ItemOf(KeyOf(w))' = ItemOf(KeyOf(w))
    BY <1>1, <1>2 DEF Own, ItemOf
  <2>5. CASE pc[w] = "input"
    <3>1. /\ pc'[w] = "previous" /\ want'[w] = reads[i].item /\ reads[i].key = Source
          /\ w \in Preparers /\ w \notin Refreshers /\ KeyOf(w) = Output
      BY <1>3, <1>8, <2>1, <2>2, <2>5
    <3>2. Place(w)'
      BY <1>1, <1>2, <2>2, <3>1 DEF Place
    <3>3. ReadsFresh(w)'
      <4> SUFFICES ASSUME Own(w), NEW j \in Reads, j \in Offered(w)', reads'[j].state = "served"
                   PROVE  Fresh(w, reads[j])'
        BY <2>4 DEF ReadsFresh
      <4>1. Fresh(w, reads[j]) /\ reads'[j] = reads[j]
        BY <1>5, <2>1, <2>5 DEF WorkerOK, ReadsFresh
      <4> QED
        BY <1>2, <2>4, <4>1 DEF Fresh
    <3>4. Means(w)'
      <4>1. /\ reads[i].item.id # NoVersion /\ Honest(reads[i].item)
            /\ reads[i].item.stamp <= heads[Source].validated
        BY <1>1, <1>8, <2>5, <3>1 DEF Waiting, PInv, ReadsTrue
      <4>2. Written(KeyOf(w), reads[i].item)
        BY <3>1, <4>1, Constants DEF Written, Feed
      <4> QED
        BY <1>2, <1>7, <2>1, <2>3, <2>4, <3>1, <4>2 DEF Means, Fresh
    <3> QED
      BY <2>2, <3>1, <3>2, <3>3, <3>4 DEF WorkerOK, Believes, Settled
  <2>6. CASE pc[w] = "previous"
    <3>1. /\ pc'[w] = IF w \in Refreshers THEN "fetching" ELSE "storing"
          /\ have'[w] = reads[i].item /\ want'[w] = want[w] /\ reads[i].key = KeyOf(w)
      BY <1>3, <1>8, <2>2, <2>6
    <3>2. Place(w)'
      BY <1>1, <1>2, <2>2, <3>1 DEF Place
    <3>3. Means(w)'
      BY <1>2, <1>7, <2>1, <2>4, <2>6, <3>1 DEF WorkerOK, Means
    <3>4. Believes(w)'
      BY <2>3, <2>4, <3>1 DEF Believes, Fresh
    <3> QED
      BY <3>1, <3>2, <3>3, <3>4 DEF WorkerOK, ReadsFresh, Settled
  <2> QED
    BY <2>2, <2>5, <2>6
<1>9. ASSUME NEW w \in Workers PROVE WorkerOK(w)'
  <2>1. CASE waits[w] # i
    <3>1. pc'[w] = pc[w] /\ have'[w] = have[w] /\ want'[w] = want[w] /\ reply'[w] = reply[w]
      BY <1>1, <1>3, <2>1
    <3> QED
      BY <1>1, <2>1, <3>1, FinishKeeps
  <2> QED
    BY <1>8, <2>1
<1>10. ASSUME NEW m \in wire' PROVE MessageOK(m)'
  <2>1. m \in wire /\ m.by \in Workers
    BY <1>1, <1>10, MessageTypes DEF PInv, Typed
  <2>2. pc[m.by] \in {"writing", "done"} => waits[m.by] # i
    BY <2>1, Constants DEF PInv, WorkerOK, Place
  <2>3. pc[m.by] \in {"writing", "done"} => pc'[m.by] = pc[m.by] /\ want'[m.by] = want[m.by]
    BY <1>3, <2>1, <2>2
  <2> QED
    BY <1>1, <1>2, <2>1, <2>3, MessageStays
<1> QED
  BY <1>5, <1>6, <1>9, <1>10 DEF PInv

\* A failed read ends whoever waits.
LEMMA ReadFailedMoves == ASSUME PInv, NEW i \in Reads, ReadFailed(i) PROVE PInv'
<1> DEFINE M == {CallOf(w, "release", NoEntry) : w \in Waiting(i)}
<1>1. /\ FinishRead(i) /\ wire' = wire \cup M
      /\ UNCHANGED <<headVars, revision, gen, have, want, reply>>
  BY DEF ReadFailed
<1>2. /\ UNCHANGED heads /\ failures' \in Nat
      /\ revision \in Stamps /\ revision \in Nat
  BY Constants DEF ReadFailed, PInv, Typed, headVars
<1>3. \A w \in Workers : pc'[w] = IF waits[w] = i THEN "done" ELSE pc[w]
  BY DEF ReadFailed
<1>4. M \subseteq Call /\ \A m \in M : m.op = "release"
  <2>1. ASSUME NEW w \in Waiting(i)
        PROVE  /\ CallOf(w, "release", NoEntry) \in Call
               /\ CallOf(w, "release", NoEntry).op = "release"
    BY CallTypes, NoEntryType DEF PInv, Waiting
  <2> QED
    BY <2>1
<1> HIDE DEF M
<1>5. IInv' /\ HeadsTrue' /\ Registry' /\ ReadsTrue'
  BY <1>1, FinishKeeps
<1>6. Typed'
  <2>1. /\ reads' \in [Reads -> Read] /\ waits' \in [Workers -> Reads \cup {NoRead}]
        /\ pending' \in [Processes -> [Keys -> Reads \cup {NoRead}]]
    BY <1>1, FinishTypes DEF PInv
  <2>2. pc' \in [Workers -> Phases]
    BY DEF ReadFailed, PInv, Typed, Phases
  <2> QED
    BY <1>1, <1>2, <1>4, <1>5, <2>1, <2>2 DEF PInv, Typed
<1>7. ASSUME NEW w \in Workers PROVE WorkerOK(w)'
  <2>1. CASE waits[w] # i
    <3>1. pc'[w] = pc[w] /\ have'[w] = have[w] /\ want'[w] = want[w] /\ reply'[w] = reply[w]
      BY <1>1, <1>3, <2>1
    <3> QED
      BY <1>1, <2>1, <3>1, FinishKeeps
  <2>2. CASE waits[w] = i
    <3>1. pc'[w] = "done" /\ waits'[w] = NoRead /\ WorkerOK(w)
      BY <1>1, <1>3, <2>2, FinishTypes DEF PInv
    <3>2. reply[w] = "none"
      BY <2>2, <3>1, Constants DEF WorkerOK, Place
    <3> QED
      BY <1>1, <1>2, <3>1, <3>2
         DEF WorkerOK, Place, ReadsFresh, Means, Believes, Settled
  <2> QED
    BY <2>1, <2>2
<1>8. ASSUME NEW m \in wire' PROVE MessageOK(m)'
  <2>1. CASE m \in wire
    <3>1. m.by \in Workers
      BY <2>1, MessageTypes DEF PInv, Typed
    <3>2. pc[m.by] \in {"writing", "done"} => pc'[m.by] \in {pc[m.by], "done"}
      BY <1>3, <3>1
    <3> QED
      BY <1>1, <1>2, <2>1, <3>2, MessageStays
  <2>2. CASE m \in M
    BY <1>4, <2>2 DEF MessageOK
  <2> QED
    BY <1>1, <1>8, <2>1, <2>2
<1> QED
  BY <1>5, <1>6, <1>7, <1>8 DEF PInv

-------------------------------------------------------------------------------
(* The database serves a call.                                               *)

\* A worker whose claim lives on, if at all, over the same head.
LEMMA WorkerKept ==
    ASSUME PInv, NEW w \in Workers, UNCHANGED <<pc, have, want, reads, pending, waits>>,
           gen'[w] = gen[w], gen[w] <= heads'[KeyOf(w)].gen,
           \A e \in Entry : Written(KeyOf(w), e) => Written(KeyOf(w), e)',
           Own(w)' => Own(w) /\ ItemOf(KeyOf(w))' = ItemOf(KeyOf(w)),
           reply'[w] # "none" => pc[w] \in {"beginning", "reserving", "writing"},
           Settled(w)'
    PROVE  WorkerOK(w)'
<1>1. WorkerOK(w) /\ want[w] \in Entry
  BY DEF PInv, Typed
<1>2. Place(w)'
  BY <1>1 DEF WorkerOK, Place
<1>3. ReadsFresh(w)'
  <2> SUFFICES ASSUME pc[w] \in {"reserving", "input", "previous"}, Own(w)',
                      NEW j \in Reads, j \in Offered(w), reads[j].state = "served"
               PROVE  Fresh(w, reads[j])'
    BY DEF ReadsFresh, Offered
  <2>1. Fresh(w, reads[j]) /\ ItemOf(KeyOf(w))' = ItemOf(KeyOf(w))
    BY <1>1 DEF WorkerOK, ReadsFresh
  <2>2. heads'[KeyOf(w)].validated = heads[KeyOf(w)].validated
    BY <2>1 DEF ItemOf
  <2> QED
    BY <2>1, <2>2 DEF Fresh
<1>4. Means(w)'
  <2>1. Own(w)' => Own(w) /\ heads'[KeyOf(w)].validated = heads[KeyOf(w)].validated
    BY DEF ItemOf
  <2> QED
    BY <1>1, <2>1 DEF WorkerOK, Means
<1>5. Believes(w)'
  BY <1>1 DEF WorkerOK, Believes
<1> QED
  BY <1>2, <1>3, <1>4, <1>5 DEF WorkerOK

\* A call whose claim lives on, if at all, over the same head.
LEMMA MessageKept ==
    ASSUME PInv, NEW m \in wire, UNCHANGED <<pc, want>>,
           pc[m.by] \in {"writing", "done"} => gen'[m.by] = gen[m.by],
           heads[KeyOf(m.by)].gen <= heads'[KeyOf(m.by)].gen,
           heads'[KeyOf(m.by)].gen \in Nat,
           \A e \in Entry : Written(KeyOf(m.by), e) => Written(KeyOf(m.by), e)',
           Held(m)' => Held(m) /\ ItemOf(KeyOf(m.by))' = ItemOf(KeyOf(m.by)),
           Spent(KeyOf(m.by), m.gen, m.item) => Spent(KeyOf(m.by), m.gen, m.item)'
    PROVE  MessageOK(m)'
<1>1. MessageOK(m) /\ m \in Call
  BY DEF PInv, Typed
<1>2. m.by \in Workers /\ KeyOf(m.by) \in Keys /\ m.item \in Entry /\ m.gen \in Nat
  BY <1>1, MessageTypes, Constants
<1>3. heads[KeyOf(m.by)].gen \in Nat
  BY <1>2, HeadParts DEF PInv
<1>4. Held(m)' => /\ heads'[KeyOf(m.by)].validated = heads[KeyOf(m.by)].validated
                  /\ heads'[KeyOf(m.by)].current = heads[KeyOf(m.by)].current
  BY DEF ItemOf
<1>5. m.op \in {"publish", "revalidate"} =>
        /\ (pc[m.by] \in {"writing", "done"})' /\ (m.gen = gen[m.by])'
        /\ Written(KeyOf(m.by), m.item)'
        /\ (Held(m) => heads[KeyOf(m.by)].validated <= m.item.stamp)'
        /\ (pc[m.by] = "writing" => m.item = want[m.by])'
  BY <1>1, <1>2, <1>4 DEF MessageOK
<1>6. (m.op = "revalidate" /\ Held(m) => m.item.id = heads[KeyOf(m.by)].current)'
  BY <1>1, <1>4 DEF MessageOK
<1>7. (m.op = "mirror" =>
         /\ m.gen <= heads[KeyOf(m.by)].gen /\ m.item.id # NoVersion /\ Honest(m.item)
         /\ Spent(KeyOf(m.by), m.gen, m.item))'
  BY <1>1, <1>2, <1>3 DEF MessageOK, Honest
<1> QED
  BY <1>5, <1>6, <1>7 DEF MessageOK

\* A call leaves the wire, and its sender hears of it if it still waits for it.
LEMMA ServedTypes ==
    ASSUME PInv, NEW m \in wire, NEW ok \in BOOLEAN, Served(m, ok)
    PROVE  /\ UNCHANGED <<revision, pc, have, want, failures, reads, pending, waits>>
           /\ m \in Call /\ m.by \in Workers /\ KeyOf(m.by) \in Keys
           /\ wire' \subseteq wire /\ reply' \in [Workers -> {"none", "yes", "no"}]
           /\ \A w \in Workers :
                \/ reply'[w] = reply[w]
                \/ w = m.by /\ Hears(m) /\ reply'[w] = IF ok THEN "yes" ELSE "no"
           /\ Hears(m) => pc[m.by] \in {"beginning", "reserving", "writing"}
           /\ Hears(m) /\ pc[m.by] = "writing" => m.op \in {"publish", "revalidate"}
           /\ Hears(m) /\ pc[m.by] = "beginning" => m.op = "begin"
           /\ Hears(m) /\ m.op = "begin" => pc[m.by] = "beginning"
           /\ \A w \in Workers :
                reply'[w] # "none" => pc[w] \in {"beginning", "reserving", "writing"}
<1>1. m \in Call /\ m.by \in Workers /\ KeyOf(m.by) \in Keys
  BY MessageTypes, Constants DEF PInv, Typed
<1>2. pc[m.by] \in Phases /\ reply \in [Workers -> {"none", "yes", "no"}]
  BY <1>1 DEF PInv, Typed
<1>3. /\ UNCHANGED <<revision, pc, have, want, failures, reads, pending, waits>>
      /\ wire' \subseteq wire
  BY DEF Served, readVars
<1>4. /\ Hears(m) => pc[m.by] \in {"beginning", "reserving", "writing"}
      /\ Hears(m) /\ pc[m.by] = "writing" => m.op \in {"publish", "revalidate"}
      /\ Hears(m) /\ pc[m.by] = "beginning" => m.op = "begin"
      /\ Hears(m) /\ m.op = "begin" => pc[m.by] = "beginning"
  BY <1>2 DEF Hears, Phases
<1> DEFINE answer == IF ok THEN "yes" ELSE "no"
<1>5. answer \in {"none", "yes", "no"}
  OBVIOUS
<1>6. reply' = IF Hears(m) THEN [reply EXCEPT ![m.by] = answer] ELSE reply
  BY DEF Served
<1> HIDE DEF answer
<1>7. /\ reply' \in [Workers -> {"none", "yes", "no"}]
      /\ \A w \in Workers : \/ reply'[w] = reply[w]
                            \/ w = m.by /\ Hears(m) /\ reply'[w] = answer
  <2>1. CASE Hears(m)
    BY <1>1, <1>2, <1>5, <1>6, <2>1
  <2>2. CASE ~Hears(m)
    BY <1>2, <1>6, <2>2
  <2> QED
    BY <2>1, <2>2
<1>8. ASSUME NEW w \in Workers, reply'[w] # "none"
      PROVE  pc[w] \in {"beginning", "reserving", "writing"}
  <2>1. Place(w)
    BY DEF PInv, WorkerOK
  <2> QED
    BY <1>4, <1>7, <1>8, <2>1 DEF Place
<1> QED
  BY <1>1, <1>3, <1>4, <1>7, <1>8 DEF answer

\* What is left to show when a call is served.
LEMMA ServedKeeps ==
    ASSUME PInv, NEW m \in wire, NEW ok \in BOOLEAN, Served(m, ok), IInv', HeadsTrue',
           gen' \in [Workers -> Nat], heads[Source].validated <= heads'[Source].validated,
           \A w \in Workers : WorkerOK(w)', \A c \in wire' : MessageOK(c)'
    PROVE  PInv'
<1>1. /\ UNCHANGED <<revision, pc, have, want, failures, reads, pending, waits>>
      /\ wire' \subseteq wire /\ reply' \in [Workers -> {"none", "yes", "no"}]
  BY ServedTypes
<1>2. Typed' /\ Registry'
  BY <1>1 DEF PInv, Typed, Registry
<1>3. heads[Source].validated \in Nat /\ heads'[Source].validated \in Nat
  <2>1. heads' \in [Keys -> HeadRow] /\ Source \in Keys
    BY Constants DEF IInv, HeadTypeOK
  <2> QED
    BY <2>1, HeadParts DEF PInv, HeadRow
<1>4. ReadsTrue'
  <2> SUFFICES ASSUME NEW i \in Reads, reads[i].state = "served"
               PROVE  /\ Honest(reads[i].item)
                      /\ reads[i].key = Source => reads[i].item.stamp <= heads'[Source].validated
    BY <1>1 DEF ReadsTrue, Honest
  <2>1. reads[i].item.stamp \in Nat
    BY ReadTypes, EntryTypes DEF PInv, Typed
  <2> QED
    BY <1>3, <2>1 DEF PInv, ReadsTrue
<1> QED
  BY <1>2, <1>4 DEF PInv

\* Rows that show what they showed; owners can only go.
HeadsKept ==
    \A k \in Keys : /\ heads'[k].gen = heads[k].gen /\ ItemOf(k)' = ItemOf(k)
                    /\ heads'[k].owner \in {heads[k].owner, NoOwner}

\* Over such rows, everything that is not addressed stays as it was.
LEMMA KeptTrue ==
    ASSUME PInv, HeadsKept, UNCHANGED <<revision, gen>>
    PROVE  /\ \A k \in Keys, e \in Entry : Written(k, e) => Written(k, e)'
           /\ heads'[Source].validated = heads[Source].validated
           /\ \A k \in Keys : Feed(k)' = Feed(k)
           /\ \A w \in Workers, e \in Entry :
                /\ Spent(KeyOf(w), gen[w], e) => Spent(KeyOf(w), gen[w], e)'
                /\ Own(w)' => Own(w)
           /\ \A c \in Call : /\ Held(c)' => Held(c)
                              /\ Spent(KeyOf(c.by), c.gen, c.item)
                                   => Spent(KeyOf(c.by), c.gen, c.item)'
<1>1. /\ Source \in Keys /\ NoOwner \notin Workers
      /\ \A w \in Workers : KeyOf(w) \in Keys
  BY Constants
<1>2. \A k \in Keys : heads'[k].validated = heads[k].validated
  BY DEF HeadsKept, ItemOf
<1>3. \A k \in Keys : Feed(k)' = Feed(k)
  BY <1>1, <1>2 DEF Feed
<1>4. \A k \in Keys, e \in Entry : Written(k, e) => Written(k, e)'
  BY <1>3 DEF Written, Honest
<1>5. ASSUME NEW k \in Keys, NEW g, NEW e, Spent(k, g, e)
      PROVE  heads'[k].gen = g => heads'[k].owner = NoOwner /\ e = ItemOf(k)'
  BY <1>5 DEF HeadsKept, Spent
<1>6. ASSUME NEW w \in Workers, Own(w)' PROVE Own(w)
  BY <1>1, <1>6 DEF Own, HeadsKept
<1>7. ASSUME NEW c \in Call, Held(c)' PROVE Held(c)
  BY <1>1, <1>7, MessageTypes DEF Held, HeadsKept
<1>8. \A w \in Workers, e \in Entry :
        Spent(KeyOf(w), gen[w], e) =>
          (heads'[KeyOf(w)].gen = gen[w] =>
             heads'[KeyOf(w)].owner = NoOwner /\ e = ItemOf(KeyOf(w))')
  BY <1>1, <1>5
<1>9. \A c \in Call :
        Spent(KeyOf(c.by), c.gen, c.item) =>
          (heads'[KeyOf(c.by)].gen = c.gen =>
             heads'[KeyOf(c.by)].owner = NoOwner /\ c.item = ItemOf(KeyOf(c.by))')
  BY <1>1, <1>5, MessageTypes
<1> QED
  BY <1>1, <1>2, <1>3, <1>4, <1>6, <1>7, <1>8, <1>9 DEF Spent

\* A call that leaves what the heads show keeps the invariant: a refused one, a
\* release, a reservation or a mirror write.
LEMMA QuietMoves ==
    ASSUME PInv, NEW m \in wire, NEW ok \in BOOLEAN, Served(m, ok), UNCHANGED gen, HeadsKept,
           IInv', HeadsTrue', ok => m.op \notin {"publish", "revalidate"}
    PROVE  PInv'
<1>1. /\ UNCHANGED <<revision, pc, have, want, failures, reads, pending, waits>>
      /\ wire' \subseteq wire
      /\ \A w \in Workers :
           reply'[w] # "none" => pc[w] \in {"beginning", "reserving", "writing"}
  BY ServedTypes
<1>2. heads[Source].validated \in Nat /\ \A k \in Keys : heads[k].gen \in Nat
  BY HeadParts, Constants DEF PInv
<1>3. ASSUME NEW w \in Workers PROVE WorkerOK(w)'
  <2>1. /\ WorkerOK(w) /\ KeyOf(w) \in Keys /\ heads'[KeyOf(w)].gen = heads[KeyOf(w)].gen
        /\ ItemOf(KeyOf(w))' = ItemOf(KeyOf(w)) /\ want[w] \in Entry
    BY Constants DEF PInv, Typed, HeadsKept
  <2>2. pc[w] = "writing" /\ reply'[w] = "yes" => reply[w] = "yes"
    <3>1. \/ reply'[w] = reply[w]
          \/ w = m.by /\ Hears(m) /\ reply'[w] = IF ok THEN "yes" ELSE "no"
      BY ServedTypes
    <3>2. Hears(m) /\ pc[m.by] = "writing" => m.op \in {"publish", "revalidate"}
      BY ServedTypes
    <3> QED
      BY <3>1, <3>2
  <2>3. Settled(w)'
    BY <1>1, <2>1, <2>2, KeptTrue DEF WorkerOK, Settled
  <2>4. gen[w] <= heads'[KeyOf(w)].gen
    BY <2>1 DEF WorkerOK, Place
  <2> QED
    BY <1>1, <2>1, <2>3, <2>4, KeptTrue, WorkerKept
<1>4. ASSUME NEW c \in wire' PROVE MessageOK(c)'
  <2>1. c \in wire /\ c \in Call
    BY <1>1, <1>4 DEF PInv, Typed
  <2>2. c.by \in Workers /\ KeyOf(c.by) \in Keys
    BY <2>1, MessageTypes, Constants
  <2>3. /\ heads'[KeyOf(c.by)].gen = heads[KeyOf(c.by)].gen /\ heads[KeyOf(c.by)].gen \in Nat
        /\ ItemOf(KeyOf(c.by))' = ItemOf(KeyOf(c.by))
    BY <1>2, <2>2 DEF HeadsKept
  <2> QED
    BY <1>1, <2>1, <2>2, <2>3, KeptTrue, MessageKept
<1>5. gen' \in [Workers -> Nat] /\ heads[Source].validated <= heads'[Source].validated
  BY <1>1, <1>2, KeptTrue DEF PInv, Typed
<1> QED
  BY <1>3, <1>4, <1>5, ServedKeeps

\* Uploads and time change nothing that a worker or a call knows.
LEMMA StoreQuietly ==
    ASSUME PInv, UNCHANGED <<heads, mirror, revision, workVars, readVars>>, IInv'
    PROVE  PInv'
<1>1. UNCHANGED <<pc, gen, have, want, wire, reply, failures, reads, pending, waits>>
  BY DEF workVars, readVars
<1>2. Typed' /\ Registry' /\ ReadsTrue'
  BY <1>1 DEF PInv, Typed, Registry, ReadsTrue, Honest
<1>3. HeadsTrue' /\ HeadsKept
  <2>1. HeadsTrue'
    BY DEF PInv, HeadsTrue, Honest, ItemOf, Feed
  <2> QED
    BY <2>1 DEF HeadsKept, ItemOf
<1>4. ASSUME NEW w \in Workers PROVE WorkerOK(w)'
  <2>1. WorkerOK(w) /\ want[w] \in Entry /\ KeyOf(w) \in Keys
    BY Constants DEF PInv, Typed
  <2>2. Settled(w)' /\ gen[w] <= heads'[KeyOf(w)].gen
    BY <1>1, <1>3, <2>1, KeptTrue DEF WorkerOK, Settled, Place
  <2>3. reply'[w] # "none" => pc[w] \in {"beginning", "reserving", "writing"}
    BY <1>1, <2>1 DEF WorkerOK, Place
  <2> QED
    BY <1>1, <1>3, <2>1, <2>2, <2>3, KeptTrue, WorkerKept DEF HeadsKept
<1>5. ASSUME NEW c \in wire' PROVE MessageOK(c)'
  <2>1. c \in wire /\ c \in Call
    BY <1>1, <1>5 DEF PInv, Typed
  <2>2. c.by \in Workers /\ KeyOf(c.by) \in Keys
    BY <2>1, MessageTypes, Constants
  <2>3. heads[KeyOf(c.by)].gen \in Nat
    BY <2>2, HeadParts DEF PInv
  <2> QED
    BY <1>1, <1>3, <2>1, <2>2, <2>3, KeptTrue, MessageKept DEF HeadsKept
<1> QED
  BY <1>2, <1>3, <1>4, <1>5 DEF PInv

\* A worker has stored what it is about to publish.
LEMMA UploadMoves == ASSUME PInv, NEW w \in Workers, Upload(w) PROVE PInv'
<1>1. /\ PutObject(KeyOf(w), want[w].id) /\ UNCHANGED <<revision, workVars, readVars>>
      /\ pc[w] = "storing" /\ Means(w) /\ KeyOf(w) \in Keys /\ want[w] \in Entry
  BY Constants DEF Upload, PInv, Typed, WorkerOK
<1>2. want[w].id \in Identities
  BY <1>1, EntryTypes DEF Means, Written, Version
<1>3. IInv'
  BY <1>1, <1>2, PutObjectKeeps DEF PInv, Typed
<1> QED
  BY <1>1, <1>3, StoreQuietly DEF PutObject

\* Time passes.
LEMMA TickMoves == ASSUME PInv, Tick PROVE PInv'
<1>1. HeadTick /\ UNCHANGED <<revision, workVars, readVars>>
  BY DEF Tick
<1>2. IInv'
  BY <1>1, TickKeeps DEF PInv, Typed
<1> QED
  BY <1>1, <1>2, StoreQuietly DEF HeadTick

\* A refused call.
LEMMA RefusedMoves ==
    ASSUME PInv, NEW m \in wire, Served(m, FALSE), UNCHANGED <<headVars, gen>>
    PROVE  PInv'
<1>1. UNCHANGED heads /\ UNCHANGED revision /\ revision \in Stamps /\ revision \in Nat
  BY ServedTypes, Constants DEF headVars, PInv, Typed
<1>2. IInv' /\ HeadsTrue' /\ HeadsKept
  BY <1>1, HeadsStay DEF PInv, HeadsKept
<1> QED
  BY <1>2, QuietMoves

\* Rows that show the same content, with the same mirror, stay true.
LEMMA StillTrue ==
    ASSUME PInv, UNCHANGED <<revision, mirror>>, \A k \in Keys : ItemOf(k)' = ItemOf(k)
    PROVE  HeadsTrue'
<1>1. Source \in Keys /\ \A k \in Keys : heads'[k].validated = heads[k].validated
  BY Constants DEF ItemOf
<1>2. \A k \in Keys : Feed(k)' = Feed(k)
  BY <1>1 DEF Feed
<1>3. \A k \in Keys : Honest(ItemOf(k))' = Honest(ItemOf(k))
  BY DEF Honest
<1> QED
  BY <1>1, <1>2, <1>3 DEF PInv, HeadsTrue, Honest

\* Release, reservation and mirror write.  A mirror that is written shows what
\* its generation published.
LEMMA ServeQuietMoves == ASSUME PInv, NEW m \in wire, ServeQuiet(m) PROVE PInv'
<1> DEFINE k == KeyOf(m.by)
<1>1. /\ m \in Call /\ k \in Keys /\ m.item \in Entry /\ Served(m, TRUE) /\ UNCHANGED gen
      /\ ClaimOf(m) \in [gen: Nat, owner: Owners] /\ ClaimOf(m).gen = m.gen
      /\ ClaimOf(m).owner = m.by /\ heads[k] \in HeadRow /\ IInv /\ UNCHANGED revision
      /\ MessageOK(m) /\ heads \in [Keys -> HeadRow] /\ mirror \in [Keys -> Entry]
      /\ revision \in Stamps /\ revision \in Nat
  BY MessageTypes, Constants, ServedTypes
     DEF ServeQuiet, PInv, Typed, IInv, HeadTypeOK
<1>2. m.op \notin {"publish", "revalidate"}
  BY DEF ServeQuiet
<1>3. CASE UNCHANGED headVars
  <2>1. IInv' /\ HeadsTrue' /\ HeadsKept
    BY <1>1, <1>3, HeadsStay DEF PInv, HeadsKept, headVars
  <2> QED
    BY <1>1, <1>2, <2>1, QuietMoves
<1>4. CASE Release(k, ClaimOf(m))
  <2>1. IInv'
    BY <1>1, <1>4, ReleaseKeeps
  <2>2. heads' = [heads EXCEPT ![k] = Released(heads[k])] /\ UNCHANGED mirror
    BY <1>4 DEF Release
  <2>3. /\ Released(heads[k]).gen = heads[k].gen /\ Released(heads[k]).owner = NoOwner
        /\ Released(heads[k]).current = heads[k].current
        /\ Released(heads[k]).validated = heads[k].validated
    BY <1>1 DEF Released, HeadRow
  <2>4. HeadsKept
    BY <1>1, <2>2, <2>3 DEF HeadsKept, ItemOf
  <2>5. HeadsTrue'
    BY <1>1, <2>2, <2>4, StillTrue DEF HeadsKept
  <2> QED
    BY <1>1, <1>2, <2>1, <2>4, <2>5, QuietMoves
<1>5. CASE Reserve(k, ClaimOf(m))
  <2>1. IInv'
    BY <1>1, <1>5, ReserveKeeps
  <2> DEFINE h == WithCapture(heads[k], ClaimOf(m))
  <2>2. heads' = [heads EXCEPT ![k] = h] /\ UNCHANGED mirror
    BY <1>5 DEF Reserve
  <2>3. /\ h.gen = heads[k].gen /\ h.owner = heads[k].owner
        /\ h.current = heads[k].current /\ h.validated = heads[k].validated
    BY <1>1 DEF WithCapture, HeadRow
  <2> HIDE DEF h
  <2>4. HeadsKept
    BY <1>1, <2>2, <2>3 DEF HeadsKept, ItemOf
  <2>5. HeadsTrue'
    BY <1>1, <2>2, <2>4, StillTrue DEF HeadsKept
  <2> QED
    BY <1>1, <1>2, <2>1, <2>4, <2>5, QuietMoves
<1>6. CASE m.op = "mirror" /\ PutFenced(k, ClaimOf(m), m.item.id, m.item.stamp)
  <2>1. /\ UNCHANGED heads /\ heads[k].gen = m.gen
        /\ mirror' = [mirror EXCEPT ![k] = [id |-> m.item.id, stamp |-> m.item.stamp]]
    BY <1>1, <1>6 DEF PutFenced, Captured
  <2>2. m.item = ItemOf(k) /\ m.item.id # NoVersion /\ Honest(m.item)
        /\ m.item.stamp = heads[k].validated
    BY <1>1, <1>6, <2>1 DEF MessageOK, Spent, ItemOf
  <2>3. /\ mirror'[k] = m.item /\ \A j \in Keys : j # k => mirror'[j] = mirror[j]
    BY <1>1, <2>1, EntryTypes
  <2>4. m.item.id \in Identities /\ m.item.stamp \in Stamps
    BY <1>1, <2>2, EntryTypes DEF Honest, Version
  <2>5. IInv'
    BY <1>1, <1>6, <2>4, PutFencedKeeps
  <2>6. HeadsKept
    BY <1>1, <2>1 DEF HeadsKept, ItemOf
  <2>7. HeadsTrue'
    <3>1. \A j \in Keys : Feed(j)' = Feed(j) /\ ItemOf(j)' = ItemOf(j)
      BY <1>1, <2>1 DEF Feed, ItemOf
    <3>2. heads[k].validated \in Nat
      BY <1>1 DEF HeadRow
    <3> QED
      BY <1>1, <2>1, <2>2, <2>3, <3>1, <3>2 DEF PInv, HeadsTrue, Honest
  <2> QED
    BY <1>1, <1>2, <2>5, <2>6, <2>7, QuietMoves
<1> QED
  BY <1>3, <1>4, <1>5, <1>6 DEF ServeQuiet

\* A new lease ends every claim of before: nobody reads, means or mirrors anything
\* under its generation yet.
LEMMA BegunMoves ==
    ASSUME PInv, NEW m \in wire, m.op = "begin", BeginWrite(KeyOf(m.by), m.by), Served(m, TRUE),
           gen' = IF Hears(m) THEN [gen EXCEPT ![m.by] = heads'[KeyOf(m.by)].gen] ELSE gen
    PROVE  PInv'
<1> DEFINE k == KeyOf(m.by)
           h == Begun(heads[k], m.by)
<1>1. /\ m \in Call /\ m.by \in Workers /\ m.by \in Owners /\ k \in Keys
      /\ heads \in [Keys -> HeadRow] /\ heads[k] \in HeadRow /\ heads[k].gen \in Nat
      /\ IInv /\ gen \in [Workers -> Nat]
  BY MessageTypes, Constants, HeadParts DEF PInv, Typed, IInv, HeadTypeOK
<1>2. /\ UNCHANGED <<revision, pc, have, want, failures, reads, pending, waits>>
      /\ wire' \subseteq wire
      /\ Hears(m) => pc[m.by] = "beginning"
      /\ \A w \in Workers :
           reply'[w] # "none" => pc[w] \in {"beginning", "reserving", "writing"}
      /\ \A w \in Workers : reply'[w] = reply[w] \/ (w = m.by /\ Hears(m))
  BY ServedTypes
<1>3. IInv'
  BY <1>1, BeginKeeps
<1>4. heads' = [heads EXCEPT ![k] = h] /\ UNCHANGED mirror
  BY DEF BeginWrite
<1>5. /\ h.gen = heads[k].gen + 1 /\ h.current = heads[k].current
      /\ h.validated = heads[k].validated
  BY <1>1 DEF Begun, HeadRow
<1> HIDE DEF h
<1>6. /\ heads'[k] = h /\ heads'[k].gen = heads[k].gen + 1 /\ heads'[k].gen \in Nat
      /\ \A l \in Keys : l # k => heads'[l] = heads[l]
  BY <1>1, <1>4, <1>5
<1>7. \A l \in Keys : ItemOf(l)' = ItemOf(l) /\ heads'[l].validated = heads[l].validated
  BY <1>5, <1>6 DEF ItemOf
<1>8. HeadsTrue'
  BY <1>2, <1>4, <1>7, StillTrue
<1>9. heads[Source].validated \in Nat /\ heads[Source].validated <= heads'[Source].validated
      /\ \A l \in Keys, e \in Entry : Written(l, e) => Written(l, e)'
  <2>1. /\ Source \in Keys /\ revision \in Nat /\ heads[Source].validated \in Nat
        /\ heads'[Source].validated = heads[Source].validated
    BY <1>7, HeadParts, Constants DEF PInv
  <2> QED
    BY <1>2, <2>1, FeedGrows DEF PInv
<1>10. ASSUME NEW l \in Keys
       PROVE  /\ heads[l].gen \in Nat /\ heads'[l].gen \in Nat
              /\ heads[l].gen <= heads'[l].gen
              /\ l = k => heads[l].gen < heads'[l].gen
  BY <1>1, <1>6, HeadParts DEF PInv
<1>11. /\ gen' \in [Workers -> Nat]
       /\ \A w \in Workers : w # m.by \/ ~Hears(m) => gen'[w] = gen[w]
       /\ Hears(m) => gen'[m.by] = heads'[k].gen
  BY <1>1, <1>6
<1>12. ASSUME NEW w \in Workers PROVE WorkerOK(w)'
  <2>1. WorkerOK(w) /\ KeyOf(w) \in Keys /\ gen[w] \in Nat /\ gen[w] <= heads[KeyOf(w)].gen
    BY Constants DEF PInv, Typed, WorkerOK, Place
  <2>2. gen[w] <= heads'[KeyOf(w)].gen
    BY <1>10, <2>1
  <2>3. CASE w = m.by /\ Hears(m)
    <3>1. /\ pc'[w] = "beginning" /\ gen'[w] = heads'[KeyOf(w)].gen /\ waits'[w] = NoRead
          /\ gen'[w] <= heads'[KeyOf(w)].gen
      BY <1>2, <1>6, <1>11, <2>1, <2>3 DEF WorkerOK, Place
    <3> QED
      BY <3>1 DEF WorkerOK, Place, ReadsFresh, Means, Believes, Settled
  <2>4. CASE ~(w = m.by /\ Hears(m)) /\ KeyOf(w) = k
    <3>1. gen'[w] = gen[w] /\ heads'[KeyOf(w)].gen # gen[w]
      BY <1>10, <1>11, <2>1, <2>4
    <3>2. ~Own(w)' /\ Settled(w)'
      BY <3>1 DEF Own, Settled, Spent
    <3> QED
      BY <1>2, <1>9, <2>1, <2>2, <3>1, <3>2, WorkerKept
  <2>5. CASE KeyOf(w) # k
    <3>1. /\ gen'[w] = gen[w] /\ heads'[KeyOf(w)] = heads[KeyOf(w)] /\ reply'[w] = reply[w]
          /\ ItemOf(KeyOf(w))' = ItemOf(KeyOf(w))
      BY <1>2, <1>6, <1>7, <1>11, <2>1, <2>5
    <3>2. Own(w)' => Own(w)
      BY <3>1 DEF Own
    <3>3. Settled(w)'
      BY <1>2, <2>1, <3>1 DEF WorkerOK, Settled, Spent
    <3> QED
      BY <1>2, <1>9, <2>1, <2>2, <3>1, <3>2, <3>3, WorkerKept
  <2> QED
    BY <2>3, <2>4, <2>5
<1>13. ASSUME NEW c \in wire' PROVE MessageOK(c)'
  <2>1. c \in wire /\ c \in Call /\ MessageOK(c)
    BY <1>2, <1>13 DEF PInv, Typed
  <2>2. c.by \in Workers /\ KeyOf(c.by) \in Keys /\ c.gen \in Nat /\ gen[c.by] \in Nat
    BY <1>1, <2>1, MessageTypes, Constants
  <2>3. pc[c.by] \in {"writing", "done"} => gen'[c.by] = gen[c.by]
    BY <1>2, <1>11, <2>2
  <2>4. gen[c.by] <= heads[KeyOf(c.by)].gen
    BY <2>2 DEF PInv, WorkerOK, Place
  <2>5. CASE KeyOf(c.by) # k
    <3>1. /\ heads'[KeyOf(c.by)] = heads[KeyOf(c.by)]
          /\ ItemOf(KeyOf(c.by))' = ItemOf(KeyOf(c.by))
      BY <1>6, <1>7, <2>2, <2>5
    <3>2. /\ Held(c)' => Held(c)
          /\ Spent(KeyOf(c.by), c.gen, c.item) => Spent(KeyOf(c.by), c.gen, c.item)'
      BY <3>1 DEF Held, Spent
    <3> QED
      BY <1>2, <1>9, <1>10, <2>1, <2>2, <2>3, <3>1, <3>2, MessageKept
  <2>6. CASE KeyOf(c.by) = k /\ c.op \in {"publish", "revalidate", "mirror"}
    <3>1. c.gen <= heads[k].gen
      BY <2>1, <2>4, <2>6 DEF MessageOK
    <3>2. c.gen # heads'[k].gen
      BY <1>1, <1>6, <2>2, <3>1
    <3>3. ~Held(c)' /\ Spent(KeyOf(c.by), c.gen, c.item)'
      BY <2>6, <3>2 DEF Held, Spent
    <3> QED
      BY <1>2, <1>9, <1>10, <2>1, <2>2, <2>3, <3>3, MessageKept
  <2>7. CASE c.op \notin {"publish", "revalidate", "mirror"}
    BY <2>7 DEF MessageOK
  <2> QED
    BY <2>5, <2>6, <2>7
<1> QED
  BY <1>3, <1>8, <1>9, <1>11, <1>12, <1>13, ServedKeeps

\* Begin, granted or refused.
LEMMA ServeBeginMoves == ASSUME PInv, NEW m \in wire, ServeBegin(m) PROVE PInv'
<1>1. CASE UNCHANGED <<headVars, gen>> /\ Served(m, FALSE)
  BY <1>1, RefusedMoves
<1>2. CASE BeginWrite(KeyOf(m.by), m.by) /\ Served(m, TRUE)
           /\ gen' = IF Hears(m) THEN [gen EXCEPT ![m.by] = heads'[KeyOf(m.by)].gen] ELSE gen
  BY <1>2, BegunMoves DEF ServeBegin
<1> QED
  BY <1>1, <1>2 DEF ServeBegin

\* What a publication or a revalidation makes of the rows.
Shows(m) ==
    /\ m.op \in {"publish", "revalidate"} /\ Held(m)
    /\ \A k \in Keys : k # KeyOf(m.by) => heads'[k] = heads[k]
    /\ heads'[KeyOf(m.by)].gen = heads[KeyOf(m.by)].gen
    /\ heads'[KeyOf(m.by)].owner = NoOwner
    /\ ItemOf(KeyOf(m.by))' = m.item
    /\ UNCHANGED mirror

\* The content that is shown is honest, no older than what was shown, and no
\* newer than what it may stand for.
LEMMA ShownTrue ==
    ASSUME PInv, NEW m \in wire, Shows(m), UNCHANGED revision
    PROVE  /\ HeadsTrue'
           /\ \A k \in Keys : heads[k].validated <= heads'[k].validated
           /\ \A k \in Keys, e \in Entry : Written(k, e) => Written(k, e)'
<1> DEFINE k == KeyOf(m.by)
<1>1. /\ m \in Call /\ m.by \in Workers /\ k \in Keys /\ m.item \in Entry /\ MessageOK(m)
      /\ Source \in Keys /\ m.item.stamp \in Nat
  BY MessageTypes, Constants, EntryTypes DEF PInv, Typed
<1>2. \A l \in Keys : heads[l].validated \in Nat /\ mirror[l].stamp \in Nat /\ Feed(l) \in Nat
  BY HeadParts DEF PInv
<1>3. revision \in Nat
  BY Constants DEF PInv, Typed
<1>4. Written(k, m.item) /\ heads[k].validated <= m.item.stamp
  BY <1>1 DEF Shows, MessageOK
<1>5. heads'[k].validated = m.item.stamp /\ Honest(m.item) /\ m.item.stamp <= Feed(k)
  BY <1>4 DEF Shows, ItemOf, Written
<1>6. \A l \in Keys : /\ heads[l].validated <= heads'[l].validated
                      /\ heads'[l].validated \in Nat
                      /\ l # k => ItemOf(l)' = ItemOf(l)
                                  /\ heads'[l].validated = heads[l].validated
  BY <1>1, <1>2, <1>4, <1>5 DEF Shows, ItemOf
<1>7. \A l \in Keys, e \in Entry : Written(l, e) => Written(l, e)'
  BY <1>1, <1>3, <1>6, FeedGrows DEF PInv
<1>8. \A l \in Keys : Feed(l)' \in Nat /\ Feed(l) <= Feed(l)'
  BY <1>1, <1>2, <1>3, <1>6 DEF Feed
<1>9. ASSUME NEW l \in Keys
      PROVE  /\ Honest(ItemOf(l))' /\ heads'[l].validated <= Feed(l)'
             /\ mirror[l].stamp <= heads'[l].validated
  <2>1. /\ Honest(ItemOf(l)) /\ heads[l].validated <= Feed(l)
        /\ mirror[l].stamp <= heads[l].validated
    BY DEF PInv, HeadsTrue
  <2>2. CASE l = k
    <3>1. Feed(k) <= Feed(k)' /\ Feed(k) \in Nat /\ Feed(k)' \in Nat
      BY <1>1, <1>2, <1>8
    <3>2. heads'[l].validated <= Feed(l)'
      BY <1>1, <1>5, <2>2, <3>1
    <3>3. mirror[l].stamp <= heads'[l].validated
      BY <1>2, <1>6, <2>1
    <3>4. Honest(ItemOf(l))'
      BY <1>5, <2>2 DEF Shows, Honest
    <3> QED
      BY <3>2, <3>3, <3>4
  <2>3. CASE l # k
    <3>1. heads'[l].validated = heads[l].validated /\ ItemOf(l)' = ItemOf(l)
      BY <1>6, <2>3
    <3> QED
      BY <1>2, <1>8, <2>1, <3>1 DEF Honest
  <2> QED
    BY <2>2, <2>3
<1>10. HeadsTrue'
  BY <1>9 DEF Shows, PInv, HeadsTrue, Honest
<1> QED
  BY <1>6, <1>7, <1>10

\* The writer's claim ends with its write; whoever else holds one has it of
\* another resource.
LEMMA ShownMoves ==
    ASSUME PInv, NEW m \in wire, Shows(m), Served(m, TRUE), UNCHANGED gen, IInv'
    PROVE  PInv'
<1> DEFINE k == KeyOf(m.by)
<1>1. /\ m \in Call /\ m.by \in Workers /\ k \in Keys /\ MessageOK(m) /\ Source \in Keys
      /\ NoOwner \notin Workers /\ gen \in [Workers -> Nat]
  BY MessageTypes, Constants DEF PInv, Typed
<1>2. /\ UNCHANGED <<revision, pc, have, want, failures, reads, pending, waits>>
      /\ wire' \subseteq wire
      /\ Hears(m) => pc[m.by] \in {"beginning", "reserving", "writing"}
      /\ \A w \in Workers :
           reply'[w] # "none" => pc[w] \in {"beginning", "reserving", "writing"}
      /\ \A w \in Workers : reply'[w] = reply[w] \/ (w = m.by /\ Hears(m))
  BY ServedTypes
<1>3. /\ HeadsTrue' /\ heads[Source].validated <= heads'[Source].validated
      /\ \A l \in Keys, e \in Entry : Written(l, e) => Written(l, e)'
  BY <1>1, <1>2, ShownTrue
<1>4. /\ heads[k].owner = m.by /\ heads[k].gen = m.gen /\ heads'[k].owner = NoOwner
      /\ heads'[k].gen = heads[k].gen /\ ItemOf(k)' = m.item
      /\ \A l \in Keys : l # k => heads'[l] = heads[l] /\ ItemOf(l)' = ItemOf(l)
  BY DEF Shows, Held, ItemOf
<1>5. \A l \in Keys : heads'[l].gen = heads[l].gen /\ heads[l].gen \in Nat
  BY <1>4, HeadParts DEF PInv
<1>6. ASSUME NEW w \in Workers PROVE WorkerOK(w)'
  <2>1. /\ WorkerOK(w) /\ KeyOf(w) \in Keys /\ gen[w] <= heads[KeyOf(w)].gen
        /\ NoOwner # w
    BY <1>1, Constants DEF PInv, WorkerOK, Place
  <2>2. gen[w] <= heads'[KeyOf(w)].gen
    BY <1>5, <2>1
  <2>3. CASE KeyOf(w) = k
    <3>1. ~Own(w)'
      BY <1>4, <2>1, <2>3 DEF Own
    <3>2. Settled(w)'
      <4> SUFFICES ASSUME pc[w] = "writing", reply'[w] = "yes", heads[k].gen = gen[w]
                   PROVE  want[w] = m.item
        BY <1>2, <1>4, <2>3 DEF Settled, Spent
      <4>1. CASE reply[w] = "yes"
        <5>1. heads[k].owner = NoOwner
          BY <2>1, <2>3, <4>1 DEF WorkerOK, Settled, Spent
        <5> QED
          BY <1>1, <1>4, <5>1
      <4>2. CASE w = m.by
        BY <1>1, <4>2 DEF Shows, MessageOK
      <4> QED
        BY <1>2, <4>1, <4>2
    <3> QED
      BY <1>2, <1>3, <2>1, <2>2, <3>1, <3>2, WorkerKept
  <2>4. CASE KeyOf(w) # k
    <3>1. /\ heads'[KeyOf(w)] = heads[KeyOf(w)] /\ reply'[w] = reply[w]
          /\ ItemOf(KeyOf(w))' = ItemOf(KeyOf(w))
      BY <1>2, <1>4, <2>1, <2>4
    <3>2. Own(w)' => Own(w)
      BY <3>1 DEF Own
    <3>3. Settled(w)'
      BY <1>2, <2>1, <3>1 DEF WorkerOK, Settled, Spent
    <3> QED
      BY <1>2, <1>3, <2>1, <2>2, <3>1, <3>2, <3>3, WorkerKept
  <2> QED
    BY <2>3, <2>4
<1>7. ASSUME NEW c \in wire' PROVE MessageOK(c)'
  <2>1. c \in wire /\ c \in Call
    BY <1>2, <1>7 DEF PInv, Typed
  <2>2. c.by \in Workers /\ KeyOf(c.by) \in Keys /\ NoOwner # c.by
    BY <1>1, <2>1, MessageTypes, Constants
  <2>3. CASE KeyOf(c.by) = k
    <3>1. ~Held(c)'
      BY <1>4, <2>2, <2>3 DEF Held
    <3>2. Spent(KeyOf(c.by), c.gen, c.item) => Spent(KeyOf(c.by), c.gen, c.item)'
      BY <1>1, <1>4, <2>3 DEF Spent
    <3> QED
      BY <1>2, <1>3, <1>5, <2>1, <2>2, <3>1, <3>2, MessageKept
  <2>4. CASE KeyOf(c.by) # k
    <3>1. /\ heads'[KeyOf(c.by)] = heads[KeyOf(c.by)]
          /\ ItemOf(KeyOf(c.by))' = ItemOf(KeyOf(c.by))
      BY <1>4, <2>2, <2>4
    <3>2. /\ Held(c)' => Held(c)
          /\ Spent(KeyOf(c.by), c.gen, c.item) => Spent(KeyOf(c.by), c.gen, c.item)'
      BY <3>1 DEF Held, Spent
    <3> QED
      BY <1>2, <1>3, <1>5, <2>1, <2>2, <3>1, <3>2, MessageKept
  <2> QED
    BY <2>3, <2>4
<1>8. gen' \in [Workers -> Nat]
  BY <1>1
<1> QED
  BY <1>3, <1>6, <1>7, <1>8, ServedKeeps

\* A publication that the fence accepts shows what the call says.
LEMMA PublishShows ==
    ASSUME PInv, NEW m \in wire, m.op = "publish",
           Publish(KeyOf(m.by), ClaimOf(m), m.item.id, m.item.stamp, TRUE)
    PROVE  Shows(m) /\ IInv'
<1> DEFINE k == KeyOf(m.by)
           h == PointedAt(heads[k], m.item.id, m.item.stamp, TRUE)
<1>1. /\ m \in Call /\ k \in Keys /\ m.item \in Entry /\ MessageOK(m)
      /\ ClaimOf(m) \in [gen: Nat, owner: Owners] /\ ClaimOf(m).gen = m.gen
      /\ ClaimOf(m).owner = m.by /\ heads[k] \in HeadRow /\ IInv
      /\ heads \in [Keys -> HeadRow]
  BY MessageTypes, Constants DEF PInv, Typed, IInv, HeadTypeOK
<1>2. heads' = [heads EXCEPT ![k] = h] /\ UNCHANGED mirror /\ Held(m)
  BY <1>1 DEF Publish, PublishAllowed, Holds, Held
<1>3. Written(k, m.item) /\ m.item.id # NoVersion
  BY <1>1 DEF MessageOK, Written
<1>4. m.item.id \in Identities /\ m.item.stamp \in Stamps
  BY <1>1, <1>3, EntryTypes DEF Written, Honest, Version
<1>5. IInv'
  BY <1>1, <1>4, PublishKeeps
<1>6. /\ h.gen = heads[k].gen /\ h.owner = NoOwner
      /\ h.current = m.item.id /\ h.validated = m.item.stamp
  BY <1>1 DEF PointedAt, HeadRow
<1> HIDE DEF h
<1>7. heads'[k] = h /\ \A l \in Keys : l # k => heads'[l] = heads[l]
  BY <1>1, <1>2
<1>8. ItemOf(k)' = m.item
  BY <1>1, <1>6, <1>7, EntryTypes DEF ItemOf
<1> QED
  BY <1>2, <1>5, <1>6, <1>7, <1>8 DEF Shows

\* So does a revalidation: its content is what the head shows.
LEMMA RevalidateShows ==
    ASSUME PInv, NEW m \in wire, m.op = "revalidate",
           Revalidate(KeyOf(m.by), ClaimOf(m), m.item.stamp)
    PROVE  Shows(m) /\ IInv'
<1> DEFINE k == KeyOf(m.by)
           h == Revalidated(heads[k], m.item.stamp)
<1>1. /\ m \in Call /\ k \in Keys /\ m.item \in Entry /\ MessageOK(m)
      /\ ClaimOf(m) \in [gen: Nat, owner: Owners] /\ ClaimOf(m).gen = m.gen
      /\ ClaimOf(m).owner = m.by /\ heads[k] \in HeadRow /\ IInv
      /\ heads \in [Keys -> HeadRow]
  BY MessageTypes, Constants DEF PInv, Typed, IInv, HeadTypeOK
<1>2. heads' = [heads EXCEPT ![k] = h] /\ UNCHANGED mirror /\ Held(m)
  BY <1>1 DEF Revalidate, RevalidateAllowed, Holds, Held
<1>3. Written(k, m.item) /\ m.item.id = heads[k].current
  BY <1>1, <1>2 DEF MessageOK
<1>4. m.item.stamp \in Stamps
  BY <1>3 DEF Written, Honest
<1>5. IInv'
  BY <1>1, <1>4, RevalidateKeeps
<1>6. /\ h.gen = heads[k].gen /\ h.owner = NoOwner
      /\ h.current = m.item.id /\ h.validated = m.item.stamp
  BY <1>1, <1>3 DEF Revalidated, HeadRow
<1> HIDE DEF h
<1>7. heads'[k] = h /\ \A l \in Keys : l # k => heads'[l] = heads[l]
  BY <1>1, <1>2
<1>8. ItemOf(k)' = m.item
  BY <1>1, <1>6, <1>7, EntryTypes DEF ItemOf
<1> QED
  BY <1>2, <1>5, <1>6, <1>7, <1>8 DEF Shows

\* Publish, accepted or refused by the fence.
LEMMA ServePublishMoves == ASSUME PInv, NEW m \in wire, ServePublish(m) PROVE PInv'
<1>1. m.op = "publish" /\ UNCHANGED gen
  BY DEF ServePublish
<1>2. CASE UNCHANGED headVars /\ Served(m, FALSE)
  BY <1>1, <1>2, RefusedMoves
<1>3. CASE Publish(KeyOf(m.by), ClaimOf(m), m.item.id, m.item.stamp, TRUE) /\ Served(m, TRUE)
  BY <1>1, <1>3, PublishShows, ShownMoves
<1> QED
  BY <1>2, <1>3 DEF ServePublish

\* Revalidation, accepted or refused by the fence.
LEMMA ServeRevalidateMoves == ASSUME PInv, NEW m \in wire, ServeRevalidate(m) PROVE PInv'
<1>1. m.op = "revalidate" /\ UNCHANGED gen
  BY DEF ServeRevalidate
<1>2. CASE UNCHANGED headVars /\ Served(m, FALSE)
  BY <1>1, <1>2, RefusedMoves
<1>3. CASE Revalidate(KeyOf(m.by), ClaimOf(m), m.item.stamp) /\ Served(m, TRUE)
  BY <1>1, <1>3, RevalidateShows, ShownMoves
<1> QED
  BY <1>2, <1>3 DEF ServeRevalidate

-------------------------------------------------------------------------------
(* The theorems.                                                             *)

\* No head, mirror, read, worker or call says anything yet.
LEMMA InitHolds == Init => PInv
<1> SUFFICES ASSUME Init PROVE PInv
  OBVIOUS
<1>1. IInv
  BY InitKeeps DEF Init
<1>2. /\ heads = [k \in Keys |-> EmptyHead] /\ mirror = [k \in Keys |-> NoEntry]
      /\ reads = [i \in Reads |-> FreeRead]
      /\ pending = [p \in Processes |-> [k \in Keys |-> NoRead]]
      /\ waits = [w \in Workers |-> NoRead] /\ wire = {} /\ revision \in Stamps
      /\ gen = [w \in Workers |-> 0] /\ have = [w \in Workers |-> NoEntry]
      /\ want = [w \in Workers |-> NoEntry] /\ reply = [w \in Workers |-> "none"]
      /\ pc \in [Workers -> {"idle", "done"}] /\ failures \in 0 .. MaxFailures
  BY DEF Init, HeadInit, NothingPending
<1>3. FreeRead \in Read /\ FreeRead.state = "free" /\ NoEntry \in Entry
  BY NoEntryType DEF FreeRead, Read
<1>4. Typed
  <2>1. failures \in Nat /\ pc \in [Workers -> Phases]
    BY <1>2, PreparedAssumption DEF Phases
  <2> QED
    BY <1>1, <1>2, <1>3, <2>1 DEF Typed
<1>5. Registry /\ ReadsTrue
  BY <1>2, <1>3 DEF Registry, ReadsTrue
<1>6. HeadsTrue
  <2>1. /\ \A k \in Keys : /\ heads[k].current = NoVersion /\ heads[k].validated = 0
                           /\ mirror[k] = NoEntry
    BY <1>2 DEF EmptyHead
  <2>2. NoEntry.stamp = 0 /\ \A k \in Keys : Feed(k) \in Nat
    BY <1>4, HeadParts DEF NoEntry
  <2>3. \A k \in Keys : Honest(ItemOf(k))
    BY <2>1 DEF Honest, ItemOf
  <2>4. ASSUME NEW k \in Keys
        PROVE  mirror[k].stamp <= heads[k].validated /\ heads[k].validated <= Feed(k)
    <3>1. heads[k].validated = 0 /\ mirror[k].stamp = 0
      BY <2>1, <2>2
    <3>2. Feed(k) \in Nat
      BY <2>2
    <3> QED
      BY <3>1, <3>2
  <2> QED
    BY <2>1, <2>3, <2>4 DEF HeadsTrue
<1>7. ASSUME NEW w \in Workers PROVE WorkerOK(w)
  <2>1. /\ pc[w] \in {"idle", "done"} /\ gen[w] = 0 /\ reply[w] = "none" /\ waits[w] = NoRead
        /\ heads[KeyOf(w)].gen = 0
    BY <1>2, Constants DEF EmptyHead
  <2> QED
    BY <2>1 DEF WorkerOK, Place, ReadsFresh, Means, Believes, Settled
<1> QED
  BY <1>2, <1>4, <1>5, <1>6, <1>7 DEF PInv

\* Every step keeps the invariant.
LEMMA NextHolds == PInv /\ [Next]_vars => PInv'
<1> SUFFICES ASSUME PInv, [Next]_vars PROVE PInv'
  OBVIOUS
<1>1. ASSUME NEW w \in Workers,
             \/ Begin(w) \/ BeginReply(w) \/ Reserved(w) \/ ReadPrevious(w) \/ Fetch(w)
             \/ StoreUnchanged(w) \/ Upload(w) \/ StoreChanged(w) \/ WriteReply(w)
             \/ GiveUp(w)
      PROVE  PInv'
  BY <1>1, BeginMoves, BeginReplyMoves, ReservedMoves, ReadPreviousMoves, FetchMoves,
     StoreMoves, UploadMoves, WriteReplyMoves, GiveUpMoves
<1>2. ASSUME NEW i \in Reads, ServeRead(i) \/ Answered(i) \/ ReadFailed(i)
      PROVE  PInv'
  BY <1>2, ServeReadMoves, AnsweredMoves, ReadFailedMoves
<1>3. ASSUME NEW t \in Traffic, NEW i \in Reads, OtherReader(t[1], t[2], i)
      PROVE  PInv'
  BY <1>3, OtherReaderMoves, Constants
<1>4. ASSUME NEW m \in wire,
             ServeBegin(m) \/ ServePublish(m) \/ ServeRevalidate(m) \/ ServeQuiet(m)
      PROVE  PInv'
  BY <1>4, ServeBeginMoves, ServePublishMoves, ServeRevalidateMoves, ServeQuietMoves
<1>5. ASSUME UNCHANGED vars PROVE PInv'
  <2>1. UNCHANGED <<headVars, revision, workVars, readVars>>
    BY <1>5 DEF vars
  <2>2. IInv' /\ UNCHANGED <<heads, mirror>>
    BY <2>1 DEF headVars, PInv, Typed, IInv, HeadTypeOK, PointersUsable
  <2> QED
    BY <2>1, <2>2, StoreQuietly
<1> QED
  BY <1>1, <1>2, <1>3, <1>4, <1>5, ReviseMoves, TickMoves DEF Next

\* What heads, mirrors, reads, workers and calls under way know of each other.
THEOREM PreparedInvariant == Spec => []PInv
<1> QED
  BY InitHolds, NextHolds, PTL DEF Spec

\* Heads, workers, calls, reads and registries keep their types, and the registry
\* names reads that are under way, each of its own resource.
THEOREM PreparedTypes == Spec => []TypeOK
<1>1. PInv => TypeOK
  BY DEF PInv, Typed, Registry, WorkerOK, Place, IInv, TypeOK
<1> QED
  BY <1>1, PreparedInvariant, PTL

\* A head, or a mirror, is never called fresh for content that its stamp does not
\* stand for, whatever workers, readers and losses do (publish and revalidate of
\* the store, the 304 of refreshSecDocument).
THEOREM FreshnessIsHonest == Spec => []FreshnessHonest
<1>1. PInv => FreshnessHonest
  BY DEF PInv, HeadsTrue, Honest, ItemOf, FreshnessHonest
<1> QED
  BY <1>1, PreparedInvariant, PTL

-------------------------------------------------------------------------------
(* The store that is used.                                                   *)

\* Every step is one of the store, with claims that some worker was given, or leaves
\* the store alone.
LEMMA StepsUseHeads == PInv /\ [Next]_vars => [HeadStep]_headVars
<1> SUFFICES ASSUME PInv, [Next]_vars PROVE HeadStep \/ UNCHANGED headVars
  OBVIOUS
<1>1. ASSUME NEW w \in Workers,
             \/ Begin(w) \/ BeginReply(w) \/ Reserved(w) \/ ReadPrevious(w) \/ Fetch(w)
             \/ StoreUnchanged(w) \/ StoreChanged(w) \/ WriteReply(w) \/ GiveUp(w)
      PROVE  UNCHANGED headVars
  BY <1>1 DEF Begin, BeginReply, Reserved, ReadPrevious, Fetch, StoreUnchanged, StoreChanged,
              WriteReply, GiveUp
<1>2. ASSUME NEW w \in Workers, Upload(w) PROVE HeadStep
  <2>1. /\ PutObject(KeyOf(w), want[w].id) /\ KeyOf(w) \in Keys
        /\ pc[w] = "storing" /\ Means(w) /\ want[w] \in Entry
    BY <1>2, Constants DEF Upload, PInv, Typed, WorkerOK
  <2>2. want[w].id \in Identities
    BY <2>1, EntryTypes DEF Means, Written, Version
  <2> QED
    BY <2>1, <2>2 DEF HeadStep
<1>3. ASSUME NEW i \in Reads, ServeRead(i) \/ Answered(i) \/ ReadFailed(i)
      PROVE  UNCHANGED headVars
  BY <1>3 DEF ServeRead, Answered, ReadFailed
<1>4. ASSUME NEW t \in Traffic, NEW i \in Reads, OtherReader(t[1], t[2], i)
      PROVE  UNCHANGED headVars
  BY <1>4 DEF OtherReader
<1>5. ASSUME NEW m \in wire,
             ServeBegin(m) \/ ServePublish(m) \/ ServeRevalidate(m) \/ ServeQuiet(m)
      PROVE  HeadStep \/ UNCHANGED headVars
  <2> DEFINE k == KeyOf(m.by)
             c == ClaimOf(m)
  <2>1. /\ m \in Call /\ k \in Keys /\ m.by \in Owners /\ m.item \in Entry /\ MessageOK(m)
        /\ c \in [gen: Nat, owner: Owners] /\ c.gen = m.gen
    BY MessageTypes, Constants DEF PInv, Typed
  <2> HIDE DEF c
  <2>2. CASE BeginWrite(k, m.by)
    BY <2>1, <2>2 DEF HeadStep
  <2>3. CASE Release(k, c) \/ Reserve(k, c)
    BY <2>1, <2>3 DEF HeadStep
  <2>4. ASSUME Written(k, m.item)
        PROVE  m.item.id \in Identities /\ m.item.stamp \in Stamps
    BY <2>1, <2>4, EntryTypes DEF Written, Honest, Version
  <2>5. CASE m.op = "publish" /\ Publish(k, c, m.item.id, m.item.stamp, TRUE)
    BY <2>1, <2>4, <2>5 DEF HeadStep, MessageOK
  <2>6. CASE m.op = "revalidate" /\ Revalidate(k, c, m.item.stamp)
    BY <2>1, <2>4, <2>6 DEF HeadStep, MessageOK
  <2>7. CASE m.op = "mirror" /\ PutFenced(k, c, m.item.id, m.item.stamp)
    <3>1. m.item.id \in Identities /\ m.item.stamp \in Stamps
      BY <2>1, <2>7, EntryTypes DEF MessageOK, Honest, Version
    <3> QED
      BY <2>1, <2>7, <3>1 DEF HeadStep
  <2> QED
    BY <1>5, <2>2, <2>3, <2>5, <2>6, <2>7
       DEF ServeBegin, ServePublish, ServeRevalidate, ServeQuiet, c
<1>6. ASSUME Revise \/ UNCHANGED vars PROVE UNCHANGED headVars
  BY <1>6 DEF Revise, vars
<1>7. ASSUME Tick PROVE HeadStep
  BY <1>7 DEF Tick, HeadStep
<1> QED
  BY <1>1, <1>2, <1>3, <1>4, <1>5, <1>6, <1>7 DEF Next

\* Refreshing and preparing use the store only as any of its callers may: beginning
\* as it begins, each step is one of the store or leaves it alone.
THEOREM PreparedUsesHeads == Spec => HeadInit /\ [][HeadStep]_headVars
<1>1. Init => HeadInit
  BY DEF Init
<1> QED
  BY <1>1, StepsUseHeads, PreparedInvariant, PTL DEF Spec

\* So what the store promises holds while workers share reads, outlive their leases
\* and are heard late: publications are fenced and pointers lead to stored bytes
\* (edgar_publish, edgar_revalidate).
THEOREM PreparedIsFenced == Spec => FencedPublication /\ []PointersUsable
<1>1. PInv /\ [Next]_vars => [Fenced]_headVars
  <2> SUFFICES ASSUME PInv, [Next]_vars PROVE Fenced
    OBVIOUS
  <2>1. IInv /\ [HeadStep]_headVars
    BY StepsUseHeads DEF PInv, Typed
  <2> QED
    BY <2>1, StepIsFenced
<1>2. PInv => PointersUsable
  BY DEF PInv, Typed, IInv
<1> QED
  BY <1>1, <1>2, PreparedInvariant, PTL
     DEF Spec, FencedPublication, Fenced

-------------------------------------------------------------------------------
(* Who ends a lease.                                                         *)

\* A step leaves a living lease as it is, or a call of its holder ends it.
Exclusive ==
    \A k \in Keys :
      Leased(k) /\ LeaseOf(k)' # LeaseOf(k) =>
        /\ heads'[k].owner = NoOwner /\ heads'[k].gen = heads[k].gen
        /\ \E m \in wire \ wire' :
             /\ m.op \in {"publish", "revalidate", "release"}
             /\ m.by = heads[k].owner /\ m.gen = heads[k].gen

\* A call under the claim that a head bears ends its lease and no other.
LEMMA HolderEnds ==
    ASSUME Typed, NEW m \in wire, m.op \in {"publish", "revalidate", "release"},
           wire' = wire \ {m}, NEW k \in Keys,
           heads[k].owner = m.by, heads[k].gen = m.gen,
           NEW h, heads' = [heads EXCEPT ![k] = h],
           h.owner = NoOwner, h.gen = heads[k].gen
    PROVE  Exclusive
<1>1. heads \in [Keys -> HeadRow] /\ m \in wire \ wire'
  BY DEF Typed, IInv, HeadTypeOK
<1>2. heads'[k] = h /\ \A j \in Keys : j # k => heads'[j] = heads[j]
  BY <1>1
<1> QED
  BY <1>1, <1>2 DEF Exclusive, LeaseOf

\* A lease that does not live may change hands; no other lease does.
LEMMA OnlyIdleBegins ==
    ASSUME Typed, NEW k \in Keys, ~Leased(k), NEW h, heads' = [heads EXCEPT ![k] = h]
    PROVE  Exclusive
<1>1. heads \in [Keys -> HeadRow]
  BY DEF Typed, IInv, HeadTypeOK
<1>2. \A j \in Keys : j # k => heads'[j] = heads[j]
  BY <1>1
<1> QED
  BY <1>2 DEF Exclusive, LeaseOf

\* What leaves generation, owner and deadline alone leaves the leases alone.
LEMMA LeasesStay ==
    ASSUME \A k \in Keys : /\ heads'[k].gen = heads[k].gen /\ heads'[k].owner = heads[k].owner
                           /\ heads'[k].lease = heads[k].lease
    PROVE  Exclusive
BY DEF Exclusive, LeaseOf

\* A call that is served begins where no lease lives, or ends the lease it was made
\* under; a reservation keeps the lease.
LEMMA ServedIsExclusive ==
    ASSUME PInv, NEW m \in wire,
           ServeBegin(m) \/ ServePublish(m) \/ ServeRevalidate(m) \/ ServeQuiet(m)
    PROVE  Exclusive
<1> DEFINE k == KeyOf(m.by)
           c == ClaimOf(m)
<1>1. /\ k \in Keys /\ c.gen = m.gen /\ c.owner = m.by /\ Typed
      /\ heads \in [Keys -> HeadRow] /\ heads[k] \in HeadRow
  BY MessageTypes, Constants DEF PInv, Typed, IInv, HeadTypeOK
<1>2. wire' = wire \ {m}
  BY DEF ServeBegin, ServePublish, ServeRevalidate, ServeQuiet, Served
<1>3. CASE UNCHANGED heads
  BY <1>3, LeasesStay
<1>4. CASE BeginWrite(k, m.by)
  BY <1>1, <1>4, OnlyIdleBegins DEF BeginWrite
<1>5. CASE m.op = "publish" /\ Publish(k, c, m.item.id, m.item.stamp, TRUE)
  <2>1. heads[k].owner = m.by /\ heads[k].gen = m.gen
    BY <1>1, <1>5 DEF Publish, PublishAllowed, Holds
  <2>2. PICK h : h = PointedAt(heads[k], m.item.id, m.item.stamp, TRUE)
    OBVIOUS
  <2>3. h.owner = NoOwner /\ h.gen = heads[k].gen
    BY <1>1, <2>2 DEF PointedAt, HeadRow
  <2>4. heads' = [heads EXCEPT ![k] = h]
    BY <1>5, <2>2 DEF Publish
  <2> QED
    BY <1>1, <1>2, <1>5, <2>1, <2>3, <2>4, HolderEnds
<1>6. CASE m.op = "revalidate" /\ Revalidate(k, c, m.item.stamp)
  <2>1. heads[k].owner = m.by /\ heads[k].gen = m.gen
    BY <1>1, <1>6 DEF Revalidate, RevalidateAllowed, Holds
  <2>2. PICK h : h = Revalidated(heads[k], m.item.stamp)
    OBVIOUS
  <2>3. h.owner = NoOwner /\ h.gen = heads[k].gen
    BY <1>1, <2>2 DEF Revalidated, HeadRow
  <2>4. heads' = [heads EXCEPT ![k] = h]
    BY <1>6, <2>2 DEF Revalidate
  <2> QED
    BY <1>1, <1>2, <1>6, <2>1, <2>3, <2>4, HolderEnds
<1>7. CASE m.op = "release" /\ Release(k, c)
  <2>1. heads[k].owner = m.by /\ heads[k].gen = m.gen
    BY <1>1, <1>7 DEF Release, Owns
  <2>2. PICK h : h = Released(heads[k])
    OBVIOUS
  <2>3. h.owner = NoOwner /\ h.gen = heads[k].gen
    BY <1>1, <2>2 DEF Released, HeadRow
  <2>4. heads' = [heads EXCEPT ![k] = h]
    BY <1>7, <2>2 DEF Release
  <2> QED
    BY <1>1, <1>2, <1>7, <2>1, <2>3, <2>4, HolderEnds
<1>8. CASE Reserve(k, c)
  <2>1. PICK h : h = WithCapture(heads[k], c)
    OBVIOUS
  <2>2. /\ h.gen = heads[k].gen /\ h.owner = heads[k].owner /\ h.lease = heads[k].lease
    BY <1>1, <2>1 DEF WithCapture, HeadRow
  <2>3. heads' = [heads EXCEPT ![k] = h]
    BY <1>8, <2>1 DEF Reserve
  <2>4. heads'[k] = h /\ \A j \in Keys : j # k => heads'[j] = heads[j]
    BY <1>1, <2>3
  <2> QED
    BY <2>2, <2>4, LeasesStay
<1>9. CASE PutFenced(k, c, m.item.id, m.item.stamp)
  BY <1>9, LeasesStay DEF PutFenced
<1> QED
  BY <1>3, <1>4, <1>5, <1>6, <1>7, <1>8, <1>9
     DEF ServeBegin, ServePublish, ServeRevalidate, ServeQuiet, headVars

\* Nothing but a call that is served changes a lease.
LEMMA StepIsExclusive == PInv /\ [Next]_vars => Exclusive
<1> SUFFICES ASSUME PInv, [Next]_vars PROVE Exclusive
  OBVIOUS
<1>1. ASSUME NEW w \in Workers,
             \/ Begin(w) \/ BeginReply(w) \/ Reserved(w) \/ ReadPrevious(w) \/ Fetch(w)
             \/ StoreUnchanged(w) \/ Upload(w) \/ StoreChanged(w) \/ WriteReply(w) \/ GiveUp(w)
      PROVE  UNCHANGED heads
  BY <1>1 DEF Begin, BeginReply, Reserved, ReadPrevious, Fetch, StoreUnchanged, Upload, PutObject,
              StoreChanged, WriteReply, GiveUp, headVars
<1>2. ASSUME NEW i \in Reads, ServeRead(i) \/ Answered(i) \/ ReadFailed(i)
      PROVE  UNCHANGED heads
  BY <1>2 DEF ServeRead, Answered, ReadFailed, headVars
<1>3. ASSUME NEW t \in Traffic, NEW i \in Reads, OtherReader(t[1], t[2], i)
      PROVE  UNCHANGED heads
  BY <1>3 DEF OtherReader, headVars
<1>4. ASSUME Revise \/ Tick \/ UNCHANGED vars PROVE UNCHANGED heads
  BY <1>4 DEF Revise, Tick, HeadTick, headVars, vars
<1>5. UNCHANGED heads => Exclusive
  BY LeasesStay
<1> QED
  BY <1>1, <1>2, <1>3, <1>4, <1>5, ServedIsExclusive DEF Next

\* A living lease is not taken over, and nothing but a call of its holder ends it,
\* however late releases of earlier holders arrive (edgar_begin_write,
\* edgar_release_write).
THEOREM OnlyHoldersEndLeases == Spec => LeaseExclusive
<1>1. PInv /\ [Next]_vars => [Exclusive]_vars
  BY StepIsExclusive
<1> QED
  BY <1>1, PreparedInvariant, PTL DEF Spec, LeaseExclusive, Exclusive

-------------------------------------------------------------------------------
(* The pipeline that is promised.                                            *)

\* What the pipeline sees of the rows.
Stage == [k \in Keys |-> heads[k].validated]
ShownStamps == [k \in Keys |-> mirror[k].stamp]

\* A write takes its resource on, to what it may have caught up with.
LEMMA ShowsAdvances ==
    ASSUME PInv, NEW m \in wire, Shows(m), UNCHANGED revision
    PROVE  Promised!Advance(KeyOf(m.by))
<1> DEFINE k == KeyOf(m.by)
           v == m.item.stamp
<1>1. /\ k \in Keys /\ m.item \in Entry /\ MessageOK(m) /\ v \in Nat
  BY MessageTypes, Constants, EntryTypes DEF PInv, Typed
<1>2. /\ heads[k].validated <= v /\ v <= Feed(k)
      /\ heads[k].validated \in Nat /\ Feed(k) \in Nat
  BY <1>1, HeadParts DEF Shows, MessageOK, Written, PInv
<1>3. /\ heads'[k].validated = v
      /\ \A l \in Keys : l # k => heads'[l].validated = heads[l].validated
  BY <1>1 DEF Shows, ItemOf
<1>4. Stage' = [Stage EXCEPT ![k] = v]
  BY <1>1, <1>3 DEF Stage
<1>5. ShownStamps' = ShownStamps
  BY DEF Shows, ShownStamps
<1>6. Stage[k] = heads[k].validated /\ Promised!Feed(k) = Feed(k)
  BY <1>1, Constants DEF Stage, Promised!Feed, Feed
<1>7. v \in Stage[k] .. Promised!Feed(k)
  BY <1>1, <1>2, <1>6
<1> QED
  BY <1>4, <1>5, <1>7 DEF Promised!Advance, Stage, ShownStamps

\* A mirror is taken on to what its resource shows.
LEMMA MirrorShows ==
    ASSUME PInv, NEW m \in wire, m.op = "mirror", UNCHANGED revision,
           PutFenced(KeyOf(m.by), ClaimOf(m), m.item.id, m.item.stamp)
    PROVE  Promised!Show(KeyOf(m.by))
<1> DEFINE k == KeyOf(m.by)
           v == m.item.stamp
<1>1. /\ k \in Keys /\ MessageOK(m) /\ ClaimOf(m).gen = m.gen /\ v \in Nat
      /\ mirror \in [Keys -> Entry]
  BY MessageTypes, Constants, EntryTypes DEF PInv, Typed, IInv, HeadTypeOK
<1>2. /\ UNCHANGED heads /\ heads[k].gen = m.gen
      /\ mirror' = [mirror EXCEPT ![k] = [id |-> m.item.id, stamp |-> v]]
  BY <1>1 DEF PutFenced, Captured
<1>3. v = heads[k].validated
  BY <1>1, <1>2 DEF MessageOK, Spent, ItemOf
<1>4. mirror[k].stamp <= v /\ mirror[k].stamp \in Nat
  BY <1>1, <1>3, HeadParts DEF PInv, HeadsTrue
<1>5. /\ mirror'[k].stamp = v
      /\ \A l \in Keys : l # k => mirror'[l] = mirror[l]
  BY <1>1, <1>2
<1>6. ShownStamps' = [ShownStamps EXCEPT ![k] = v] /\ Stage' = Stage
  BY <1>1, <1>2, <1>5 DEF ShownStamps, Stage
<1>7. v \in ShownStamps[k] .. Stage[k]
  BY <1>1, <1>3, <1>4 DEF ShownStamps, Stage
<1> QED
  BY <1>6, <1>7 DEF Promised!Show, Stage, ShownStamps

\* Every step is one of the pipeline, or changes nothing that it shows.
LEMMA StepsKeepPromise == PInv /\ [Next]_vars => [Promised!Next]_(Promised!pipelineVars)
<1> SUFFICES ASSUME PInv, [Next]_vars
             PROVE  Promised!Next \/ UNCHANGED <<revision, Stage, ShownStamps>>
  BY DEF Promised!pipelineVars, Stage, ShownStamps
<1>1. ASSUME UNCHANGED <<revision, heads, mirror>>
      PROVE  UNCHANGED <<revision, Stage, ShownStamps>>
  BY <1>1 DEF Stage, ShownStamps
<1>2. ASSUME NEW w \in Workers,
             \/ Begin(w) \/ BeginReply(w) \/ Reserved(w) \/ ReadPrevious(w) \/ Fetch(w)
             \/ StoreUnchanged(w) \/ Upload(w) \/ StoreChanged(w) \/ WriteReply(w)
             \/ GiveUp(w)
      PROVE  UNCHANGED <<revision, heads, mirror>>
  BY <1>2 DEF Begin, BeginReply, Reserved, ReadPrevious, Fetch, StoreUnchanged, Upload, PutObject,
              StoreChanged, Write, WriteReply, GiveUp, headVars
<1>3. ASSUME NEW i \in Reads, ServeRead(i) \/ Answered(i) \/ ReadFailed(i)
      PROVE  UNCHANGED <<revision, heads, mirror>>
  BY <1>3 DEF ServeRead, Answered, ReadFailed, headVars
<1>4. ASSUME NEW t \in Traffic, NEW i \in Reads, OtherReader(t[1], t[2], i)
      PROVE  UNCHANGED <<revision, heads, mirror>>
  BY <1>4 DEF OtherReader, headVars
<1>5. ASSUME NEW m \in wire,
             ServeBegin(m) \/ ServePublish(m) \/ ServeRevalidate(m) \/ ServeQuiet(m)
      PROVE  \/ \E k \in Keys : Promised!Advance(k) \/ Promised!Show(k)
             \/ UNCHANGED <<revision, Stage, ShownStamps>>
  <2> DEFINE k == KeyOf(m.by)
  <2>1. k \in Keys /\ UNCHANGED revision
    <3>1. m.by \in Workers
      BY MessageTypes DEF PInv, Typed
    <3> QED
      BY <1>5, <3>1, Constants DEF ServeBegin, ServePublish, ServeRevalidate, ServeQuiet, Served
  <2>2. CASE UNCHANGED headVars
    BY <1>1, <2>1, <2>2 DEF headVars
  <2>3. CASE BeginWrite(k, m.by) \/ Release(k, ClaimOf(m)) \/ Reserve(k, ClaimOf(m))
    <3>1. heads[k] \in HeadRow /\ UNCHANGED mirror /\ heads \in [Keys -> HeadRow]
      BY <2>1, <2>3, HeadParts DEF BeginWrite, Release, Reserve, PInv, Typed, IInv, HeadTypeOK
    <3>2. PICK h : heads' = [heads EXCEPT ![k] = h] /\ h.validated = heads[k].validated
      BY <2>3, <3>1 DEF BeginWrite, Begun, Release, Released, Reserve, WithCapture, HeadRow
    <3>3. Stage' = Stage /\ ShownStamps' = ShownStamps
      BY <2>1, <3>1, <3>2 DEF Stage, ShownStamps
    <3> QED
      BY <2>1, <3>3
  <2>4. CASE m.op = "publish" /\ Publish(k, ClaimOf(m), m.item.id, m.item.stamp, TRUE)
    BY <2>1, <2>4, PublishShows, ShowsAdvances
  <2>5. CASE m.op = "revalidate" /\ Revalidate(k, ClaimOf(m), m.item.stamp)
    BY <2>1, <2>5, RevalidateShows, ShowsAdvances
  <2>6. CASE m.op = "mirror" /\ PutFenced(k, ClaimOf(m), m.item.id, m.item.stamp)
    BY <2>1, <2>6, MirrorShows
  <2> QED
    BY <1>5, <2>2, <2>3, <2>4, <2>5, <2>6
       DEF ServeBegin, ServePublish, ServeRevalidate, ServeQuiet
<1>6. ASSUME Revise PROVE Promised!Revise
  <2>1. revision' = revision + 1 /\ UNCHANGED <<heads, mirror>>
    BY <1>6 DEF Revise, headVars
  <2> QED
    BY <2>1 DEF Promised!Revise
<1>7. ASSUME Tick \/ UNCHANGED vars PROVE UNCHANGED <<revision, heads, mirror>>
  BY <1>7 DEF Tick, HeadTick, vars, headVars
<1> QED
  BY <1>1, <1>2, <1>3, <1>4, <1>5, <1>6, <1>7 DEF Next, Promised!Next

\* A paused or superseded worker never takes a resource, or its mirror, back to an
\* older input, and an output never claims to be newer than its source: refreshing
\* and preparing implement the pipeline ("must not capture old sources, acquire a
\* newer fence later, and replace newer output", prepareFinancialCompany).
THEOREM NeverGoesBack == Spec => NeverRegresses
<1>1. Init => Promised!Init
  <2> SUFFICES ASSUME Init PROVE Promised!Init
    OBVIOUS
  <2>1. revision \in Nat
    BY Constants DEF Init
  <2>2. \A k \in Keys : heads[k].validated = 0 /\ mirror[k].stamp = 0
    BY DEF Init, HeadInit, EmptyHead, NoEntry
  <2> QED
    BY <2>1, <2>2 DEF Promised!Init
<1> QED
  BY <1>1, StepsKeepPromise, PreparedInvariant, PTL DEF Spec, NeverRegresses, Promised!Spec
===============================================================================
