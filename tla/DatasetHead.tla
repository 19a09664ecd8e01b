------------------------------ MODULE DatasetHead ------------------------------
(***************************************************************************)
(* The heads of the staged data store: one row per resource with the       *)
(* writer's lease, a generation that fences stale writers, and pointers to *)
(* immutable versions; the versions and the stored objects behind them;    *)
(* and the cache mirror that is fenced by the same generation.  Each       *)
(* procedure locks its head row, so it is one step.                        *)
(*                                                                         *)
(* A stamp stands for the freshness metadata of a head (revalidated_at and *)
(* expires_at): the caller supplies it.  Time is counted in abstract units. *)
(***************************************************************************)
EXTENDS Naturals

CONSTANTS
    Keys,        \* resources
    Identities,  \* versions, by their identity hash
    Owners,      \* the random owner of each lease
    NoOwner, NoVersion,
    Lease,       \* the life of a lease
    Stamps, MaxGen, MaxNow

ASSUME HeadAssumption ==
    /\ NoOwner \notin Owners /\ NoVersion \notin Identities
    /\ Lease \in Nat /\ Stamps \subseteq Nat /\ MaxGen \in Nat /\ MaxNow \in Nat

VARIABLES
    now,
    heads,
    versions,  \* the immutable rows of each resource
    objects,   \* the stored bytes of each resource
    mirror     \* the cache entry of each resource

headVars == <<now, heads, versions, objects, mirror>>

Version == Identities \cup {NoVersion}
Owner == Owners \cup {NoOwner}
Capture == [gen: Nat, owner: Owner, until: Nat]
HeadRow == [gen: Nat, owner: Owner, lease: Nat,
            current: Version, good: Version, rollback: Version,
            validated: Nat, capture: Capture]
Entry == [id: Version, stamp: Nat]
Claim == [gen: Nat, owner: Owners]

NoCapture == [gen |-> 0, owner |-> NoOwner, until |-> 0]
EmptyHead == [gen |-> 0, owner |-> NoOwner, lease |-> 0, current |-> NoVersion,
              good |-> NoVersion, rollback |-> NoVersion, validated |-> 0,
              capture |-> NoCapture]
NoEntry == [id |-> NoVersion, stamp |-> 0]

\* A row without an owner has no deadline, and no capture is from the future.
HeadTypeOK ==
    /\ now \in Nat
    /\ heads \in [Keys -> HeadRow]
    /\ \A k \in Keys : /\ heads[k].owner = NoOwner => heads[k].lease = 0
                       /\ heads[k].capture.gen <= heads[k].gen
    /\ versions \in [Keys -> SUBSET Identities]
    /\ objects \in [Keys -> SUBSET Identities]
    /\ mirror \in [Keys -> Entry]

HeadInit ==
    /\ now \in 0 .. MaxNow
    /\ heads = [k \in Keys |-> EmptyHead]
    /\ versions = [k \in Keys |-> {}]
    /\ objects = [k \in Keys |-> {}]
    /\ mirror = [k \in Keys |-> NoEntry]

-------------------------------------------------------------------------------
\* edgar_begin_write answers null while another lease lives.
Leased(k) == heads[k].owner # NoOwner /\ heads[k].lease > now

Begun(h, o) == [h EXCEPT !.gen = h.gen + 1, !.owner = o, !.lease = now + Lease]

\* Mutant: a lease that still lives is taken over.
BeginWriteAnyway(k, o) ==
    /\ heads' = [heads EXCEPT ![k] = Begun(heads[k], o)]
    /\ UNCHANGED <<now, versions, objects, mirror>>

BeginWrite(k, o) ==
    /\ ~Leased(k)
    /\ heads' = [heads EXCEPT ![k] = Begun(heads[k], o)]
    /\ UNCHANGED <<now, versions, objects, mirror>>

\* Mutants of the fence: without the deadline, and without the generation.
HoldsLapsed(k, c) == heads[k].gen = c.gen /\ heads[k].owner = c.owner
HoldsOutdated(k, c) == c.gen <= heads[k].gen

\* The fence of edgar_publish and edgar_revalidate.
Holds(k, c) ==
    /\ heads[k].gen = c.gen
    /\ heads[k].owner = c.owner
    /\ heads[k].lease > now

\* putVerifiedObject: the upload is read back and verified.
PutObject(k, id) ==
    /\ objects' = [objects EXCEPT ![k] = @ \cup {id}]
    /\ UNCHANGED <<now, heads, versions, mirror>>

PublishAllowed(k, c, id) == Holds(k, c) /\ id \in versions[k] \cup objects[k]

PointedAt(h, id, stamp, promote) ==
    [h EXCEPT !.current = id,
              !.good = IF promote THEN id ELSE h.good,
              !.rollback = IF h.current # id THEN h.current ELSE h.rollback,
              !.validated = stamp,
              !.owner = NoOwner, !.lease = 0]

\* Mutant: republishing the current version makes it its own rollback.
PublishOverRollback(k, c, id, stamp, promote) ==
    /\ PublishAllowed(k, c, id)
    /\ versions' = [versions EXCEPT ![k] = @ \cup {id}]
    /\ heads' = [heads EXCEPT ![k] = [PointedAt(@, id, stamp, promote)
                                      EXCEPT !.rollback = heads[k].current]]
    /\ UNCHANGED <<now, objects, mirror>>

Publish(k, c, id, stamp, promote) ==
    /\ PublishAllowed(k, c, id)
    /\ versions' = [versions EXCEPT ![k] = @ \cup {id}]
    /\ heads' = [heads EXCEPT ![k] = PointedAt(heads[k], id, stamp, promote)]
    /\ UNCHANGED <<now, objects, mirror>>

RevalidateAllowed(k, c) == Holds(k, c) /\ heads[k].current # NoVersion

Revalidated(h, stamp) == [h EXCEPT !.validated = stamp, !.owner = NoOwner, !.lease = 0]

Revalidate(k, c, stamp) ==
    /\ RevalidateAllowed(k, c)
    /\ heads' = [heads EXCEPT ![k] = Revalidated(heads[k], stamp)]
    /\ UNCHANGED <<now, versions, objects, mirror>>

\* Mutant: any claim of the past may release.
OwnsOutdated(k, c) == c.gen <= heads[k].gen

\* edgar_release_write asks for the claim, not for a lease that still lives.
Owns(k, c) == heads[k].gen = c.gen /\ heads[k].owner = c.owner

\* Mutant: the deadline stays behind.
ReleaseOwnerOnly(k, c) ==
    /\ Owns(k, c)
    /\ heads' = [heads EXCEPT ![k].owner = NoOwner]
    /\ UNCHANGED <<now, versions, objects, mirror>>

Released(h) == [h EXCEPT !.owner = NoOwner, !.lease = 0]

Release(k, c) ==
    /\ Owns(k, c)
    /\ heads' = [heads EXCEPT ![k] = Released(heads[k])]
    /\ UNCHANGED <<now, versions, objects, mirror>>

\* edgar_reserve_cache_generation captures the claim with its original
\* deadline; edgar_cache_put_fenced accepts it until then, or until the next
\* generation begins.
WithCapture(h, c) ==
    [h EXCEPT !.capture = [gen |-> c.gen, owner |-> c.owner, until |-> h.lease]]

Reserve(k, c) ==
    /\ Holds(k, c)
    /\ heads' = [heads EXCEPT ![k] = WithCapture(heads[k], c)]
    /\ UNCHANGED <<now, versions, objects, mirror>>

\* Mutant: any claim of the past may write the mirror.
CapturedOutdated(k, c) == c.gen <= heads[k].gen

Captured(k, c) ==
    /\ heads[k].gen = c.gen
    /\ heads[k].capture.gen = c.gen /\ heads[k].capture.owner = c.owner
    /\ heads[k].capture.until > now

PutFenced(k, c, id, stamp) ==
    /\ Captured(k, c)
    /\ mirror' = [mirror EXCEPT ![k] = [id |-> id, stamp |-> stamp]]
    /\ UNCHANGED <<now, heads, versions, objects>>

HeadTick == now < MaxNow /\ now' = now + 1 /\ UNCHANGED <<heads, versions, objects, mirror>>

-------------------------------------------------------------------------------
(* The store on its own: any caller presents any claim at any time.          *)

HeadNext ==
    \/ \E k \in Keys, o \in Owners : heads[k].gen < MaxGen /\ BeginWrite(k, o)
    \/ \E k \in Keys, id \in Identities : PutObject(k, id)
    \/ \E k \in Keys, c \in [gen: 0 .. MaxGen, owner: Owners] :
         \/ \E id \in Identities, s \in Stamps, promote \in BOOLEAN :
              Publish(k, c, id, s, promote)
         \/ \E s \in Stamps : Revalidate(k, c, s)
         \/ Release(k, c)
         \/ Reserve(k, c)
         \/ \E id \in Identities, s \in Stamps : PutFenced(k, c, id, s)
    \/ HeadTick

HeadSpec == HeadInit /\ [][HeadNext]_headVars

-------------------------------------------------------------------------------
(* Properties of the store, whoever calls it.                                *)

\* A generation publishes or revalidates at most once, and only under its
\* living lease: whatever a step changes of the published row, it ends the
\* lease it was made under (edgar_publish, edgar_revalidate).
Published(h) == [current |-> h.current, good |-> h.good,
                 rollback |-> h.rollback, validated |-> h.validated]
FencedPublication ==
    [][\A k \in Keys :
         Published(heads'[k]) # Published(heads[k]) =>
           /\ Leased(k)
           /\ heads'[k].owner = NoOwner
           /\ heads'[k].gen = heads[k].gen]_headVars

\* A reader that follows any pointer finds a version with its bytes, and the
\* rollback pointer never leads back to the version that is being served
\* (edgar_publish: source_object_missing, snapshot_object_missing, and the
\* "is distinct from" of the rollback pointer).
PointersUsable ==
    \A k \in Keys :
      /\ {heads[k].current, heads[k].good, heads[k].rollback} \ {NoVersion} \subseteq versions[k]
      /\ versions[k] \subseteq objects[k]
      /\ heads[k].rollback # NoVersion => heads[k].rollback # heads[k].current
===============================================================================
