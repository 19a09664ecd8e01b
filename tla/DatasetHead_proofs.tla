-------------------------- MODULE DatasetHead_proofs --------------------------
(* What the heads of the data store keep, for any resources, versions,       *)
(* owners, leases and bounds, whoever calls the procedures and when.         *)
EXTENDS DatasetHead, TLAPS

\* The typed invariant and the pointers' meaning, together inductive.
IInv == HeadTypeOK /\ PointersUsable

-------------------------------------------------------------------------------
(* One lemma per procedure: it keeps the types of the tables and the rows'   *)
(* consistency.                                                              *)

LEMMA InitKeeps == HeadInit => IInv
BY HeadAssumption
   DEF HeadInit, IInv, HeadTypeOK, PointersUsable, EmptyHead, NoCapture, NoEntry,
       HeadRow, Capture, Entry, Owner, Version

\* A new lease: the generation only rises, so no capture is from the future.
LEMMA BeginKeeps ==
    ASSUME IInv, NEW k \in Keys, NEW o \in Owners, BeginWrite(k, o)
    PROVE  IInv'
<1> DEFINE h == Begun(heads[k], o)
<1>1. /\ heads' = [heads EXCEPT ![k] = h]
      /\ UNCHANGED <<now, versions, objects, mirror>>
  BY DEF BeginWrite
<1>2. heads[k] \in HeadRow /\ now + Lease \in Nat /\ o # NoOwner
  BY HeadAssumption DEF IInv, HeadTypeOK
<1>3. heads[k].gen + 1 \in Nat
  BY <1>2 DEF HeadRow
<1>4. h \in HeadRow /\ h.owner # NoOwner
  BY <1>2, <1>3 DEF Begun, HeadRow, Owner
<1>5. /\ h.gen = heads[k].gen + 1 /\ h.capture = heads[k].capture
      /\ h.current = heads[k].current /\ h.good = heads[k].good
      /\ h.rollback = heads[k].rollback
  BY <1>2 DEF Begun, HeadRow
<1> HIDE DEF h
<1>6. HeadTypeOK'
  BY <1>1, <1>2, <1>4, <1>5 DEF IInv, HeadTypeOK, HeadRow, Capture
<1>7. PointersUsable'
  BY <1>1, <1>5 DEF IInv, HeadTypeOK, PointersUsable
<1> QED BY <1>6, <1>7 DEF IInv

LEMMA PutObjectKeeps ==
    ASSUME IInv, NEW k \in Keys, NEW id \in Identities, PutObject(k, id)
    PROVE  IInv'
BY DEF IInv, HeadTypeOK, PointersUsable, PutObject

\* A publication points at bytes that are there, and what it replaces becomes
\* the rollback only if it is another version.
LEMMA PublishKeeps ==
    ASSUME IInv, NEW k \in Keys, NEW c \in [gen: Nat, owner: Owners],
           NEW id \in Identities, NEW s \in Stamps, NEW promote \in BOOLEAN,
           Publish(k, c, id, s, promote)
    PROVE  IInv'
<1> DEFINE h == PointedAt(heads[k], id, s, promote)
<1>1. /\ heads' = [heads EXCEPT ![k] = h]
      /\ versions' = [versions EXCEPT ![k] = @ \cup {id}]
      /\ UNCHANGED <<now, objects, mirror>>
      /\ id \in versions[k] \cup objects[k]
  BY DEF Publish, PublishAllowed
<1>2. heads[k] \in HeadRow
  BY DEF IInv, HeadTypeOK
<1>3. /\ h \in HeadRow
      /\ h.owner = NoOwner /\ h.lease = 0
      /\ h.gen = heads[k].gen /\ h.capture = heads[k].capture
      /\ h.current = id /\ h.good \in {id, heads[k].good}
      /\ h.rollback = IF heads[k].current # id THEN heads[k].current ELSE heads[k].rollback
  BY <1>2, HeadAssumption DEF PointedAt, HeadRow, Owner, Version
<1> HIDE DEF h
<1>4. HeadTypeOK'
  BY <1>1, <1>2, <1>3 DEF IInv, HeadTypeOK, HeadRow, Capture
<1>5. id \in objects[k]
  BY <1>1 DEF IInv, PointersUsable
<1>6. PointersUsable'
  BY <1>1, <1>3, <1>5 DEF IInv, HeadTypeOK, PointersUsable
<1> QED BY <1>4, <1>6 DEF IInv

LEMMA RevalidateKeeps ==
    ASSUME IInv, NEW k \in Keys, NEW c \in [gen: Nat, owner: Owners], NEW s \in Stamps,
           Revalidate(k, c, s)
    PROVE  IInv'
<1> DEFINE h == Revalidated(heads[k], s)
<1>1. heads' = [heads EXCEPT ![k] = h] /\ UNCHANGED <<now, versions, objects, mirror>>
  BY DEF Revalidate
<1>2. heads[k] \in HeadRow
  BY DEF IInv, HeadTypeOK
<1>3. /\ h \in HeadRow
      /\ h.owner = NoOwner /\ h.lease = 0
      /\ h.gen = heads[k].gen /\ h.capture = heads[k].capture
      /\ h.current = heads[k].current /\ h.good = heads[k].good
      /\ h.rollback = heads[k].rollback
  BY <1>2, HeadAssumption DEF Revalidated, HeadRow, Owner
<1> HIDE DEF h
<1>4. HeadTypeOK'
  BY <1>1, <1>2, <1>3 DEF IInv, HeadTypeOK, HeadRow, Capture
<1>5. PointersUsable'
  BY <1>1, <1>3 DEF IInv, HeadTypeOK, PointersUsable
<1> QED BY <1>4, <1>5 DEF IInv

LEMMA ReleaseKeeps ==
    ASSUME IInv, NEW k \in Keys, NEW c \in [gen: Nat, owner: Owners], Release(k, c)
    PROVE  IInv'
<1> DEFINE h == Released(heads[k])
<1>1. heads' = [heads EXCEPT ![k] = h] /\ UNCHANGED <<now, versions, objects, mirror>>
  BY DEF Release
<1>2. heads[k] \in HeadRow
  BY DEF IInv, HeadTypeOK
<1>3. /\ h \in HeadRow
      /\ h.owner = NoOwner /\ h.lease = 0
      /\ h.gen = heads[k].gen /\ h.capture = heads[k].capture
      /\ h.current = heads[k].current /\ h.good = heads[k].good
      /\ h.rollback = heads[k].rollback
  BY <1>2, HeadAssumption DEF Released, HeadRow, Owner
<1> HIDE DEF h
<1>4. HeadTypeOK'
  BY <1>1, <1>2, <1>3 DEF IInv, HeadTypeOK, HeadRow, Capture
<1>5. PointersUsable'
  BY <1>1, <1>3 DEF IInv, HeadTypeOK, PointersUsable
<1> QED BY <1>4, <1>5 DEF IInv

LEMMA ReserveKeeps ==
    ASSUME IInv, NEW k \in Keys, NEW c \in [gen: Nat, owner: Owners], Reserve(k, c)
    PROVE  IInv'
<1> DEFINE p == [gen |-> c.gen, owner |-> c.owner, until |-> heads[k].lease]
           h == WithCapture(heads[k], c)
<1>2. heads[k] \in HeadRow
  BY DEF IInv, HeadTypeOK
<1>1. heads' = [heads EXCEPT ![k] = h] /\ UNCHANGED <<now, versions, objects, mirror>>
  BY DEF Reserve
<1>3. p \in Capture /\ p.gen = heads[k].gen
  BY <1>2 DEF Reserve, Holds, Capture, Owner, HeadRow
<1>4. /\ h \in HeadRow
      /\ h.owner = heads[k].owner /\ h.lease = heads[k].lease
      /\ h.gen = heads[k].gen /\ h.capture = p
      /\ h.current = heads[k].current /\ h.good = heads[k].good
      /\ h.rollback = heads[k].rollback
  BY <1>2, <1>3 DEF WithCapture, HeadRow
<1> HIDE DEF p, h
<1>5. HeadTypeOK'
  BY <1>1, <1>2, <1>3, <1>4 DEF IInv, HeadTypeOK, HeadRow
<1>6. PointersUsable'
  BY <1>1, <1>4 DEF IInv, HeadTypeOK, PointersUsable
<1> QED BY <1>5, <1>6 DEF IInv

LEMMA PutFencedKeeps ==
    ASSUME IInv, NEW k \in Keys, NEW c \in [gen: Nat, owner: Owners],
           NEW id \in Identities, NEW s \in Stamps, PutFenced(k, c, id, s)
    PROVE  IInv'
<1>1. mirror' \in [Keys -> Entry]
  BY HeadAssumption DEF IInv, HeadTypeOK, PutFenced, Entry, Version
<1>2. UNCHANGED <<now, heads, versions, objects>>
  BY DEF PutFenced
<1> QED BY <1>1, <1>2 DEF IInv, HeadTypeOK, PointersUsable

LEMMA TickKeeps == ASSUME IInv, HeadTick PROVE IInv'
BY DEF IInv, HeadTypeOK, PointersUsable, HeadTick

\* A step of the store, with claims of any generation: what callers of the store do,
\* whose generations nothing bounds.
HeadStep ==
    \/ \E k \in Keys, o \in Owners : BeginWrite(k, o)
    \/ \E k \in Keys, id \in Identities : PutObject(k, id)
    \/ \E k \in Keys, c \in [gen: Nat, owner: Owners] :
         \/ \E id \in Identities, s \in Stamps, promote \in BOOLEAN :
              Publish(k, c, id, s, promote)
         \/ \E s \in Stamps : Revalidate(k, c, s)
         \/ Release(k, c)
         \/ Reserve(k, c)
         \/ \E id \in Identities, s \in Stamps : PutFenced(k, c, id, s)
    \/ HeadTick

\* The store's own steps are among them.
LEMMA NextIsStep == HeadNext => HeadStep
<1> DEFINE Some == [gen: 0 .. MaxGen, owner: Owners]
           Claims == [gen: Nat, owner: Owners]
<1>1. \A c \in Some : c \in Claims
  BY HeadAssumption
<1> QED
  BY <1>1, Zenon DEF HeadNext, HeadStep

\* Every step of the store keeps the invariant.
LEMMA StepKeeps == ASSUME IInv, [HeadStep]_headVars PROVE IInv'
<1> DEFINE Claims == [gen: Nat, owner: Owners]
<1>1. ASSUME NEW k \in Keys, NEW o \in Owners, BeginWrite(k, o) PROVE IInv'
  BY <1>1, BeginKeeps
<1>2. ASSUME NEW k \in Keys, NEW id \in Identities, PutObject(k, id) PROVE IInv'
  BY <1>2, PutObjectKeeps
<1>3. ASSUME NEW k \in Keys, NEW c \in Claims, NEW id \in Identities, NEW s \in Stamps,
             NEW promote \in BOOLEAN, Publish(k, c, id, s, promote)
      PROVE  IInv'
  BY <1>3, PublishKeeps
<1>4. ASSUME NEW k \in Keys, NEW c \in Claims, NEW s \in Stamps, Revalidate(k, c, s)
      PROVE  IInv'
  BY <1>4, RevalidateKeeps
<1>5. ASSUME NEW k \in Keys, NEW c \in Claims, Release(k, c) PROVE IInv'
  BY <1>5, ReleaseKeeps
<1>6. ASSUME NEW k \in Keys, NEW c \in Claims, Reserve(k, c) PROVE IInv'
  BY <1>6, ReserveKeeps
<1>7. ASSUME NEW k \in Keys, NEW c \in Claims, NEW id \in Identities, NEW s \in Stamps,
             PutFenced(k, c, id, s)
      PROVE  IInv'
  BY <1>7, PutFencedKeeps
<1>8. CASE UNCHANGED headVars
  BY <1>8 DEF IInv, HeadTypeOK, PointersUsable, headVars
<1> QED BY <1>1, <1>2, <1>3, <1>4, <1>5, <1>6, <1>7, <1>8, TickKeeps DEF HeadStep

-------------------------------------------------------------------------------
(* The theorems.                                                             *)

\* The tables keep their types, and every pointer of a head leads to a version
\* whose bytes are stored, for every number of resources and callers.
THEOREM StoreInvariant == HeadSpec => []IInv
<1>1. HeadInit => IInv
  BY InitKeeps
<1>2. IInv /\ [HeadNext]_headVars => IInv'
  BY StepKeeps, NextIsStep
<1> QED BY <1>1, <1>2, PTL DEF HeadSpec

\* Rows stay well-formed (edgar_dataset_heads and the tables behind it).
THEOREM HeadTypes == HeadSpec => []HeadTypeOK
<1>1. IInv => HeadTypeOK
  BY DEF IInv
<1> QED BY <1>1, StoreInvariant, PTL

\* No pointer dangles and no rollback leads to what is being served
\* (edgar_publish).
THEOREM PointersStayUsable == HeadSpec => []PointersUsable
<1>1. IInv => PointersUsable
  BY DEF IInv
<1> QED BY <1>1, StoreInvariant, PTL

\* A step of the published row is made under a living lease.
Fenced ==
    \A k \in Keys :
      Published(heads'[k]) # Published(heads[k]) =>
        /\ Leased(k)
        /\ heads'[k].owner = NoOwner
        /\ heads'[k].gen = heads[k].gen

\* Only publishing and revalidating touch what is published, and both need the lease.
LEMMA StepIsFenced == ASSUME IInv, [HeadStep]_headVars PROVE Fenced
<1> USE DEF Fenced
<1>1. ASSUME NEW k \in Keys, NEW o \in Owners, BeginWrite(k, o) PROVE Fenced
  BY <1>1 DEF IInv, HeadTypeOK, HeadRow, BeginWrite, Begun, Published
<1>2. ASSUME NEW k \in Keys, NEW c \in [gen: Nat, owner: Owners],
             NEW id \in Identities, NEW s \in Stamps, NEW promote \in BOOLEAN,
             Publish(k, c, id, s, promote)
      PROVE  Fenced
  BY <1>2, HeadAssumption
     DEF IInv, HeadTypeOK, HeadRow, Publish, PointedAt, PublishAllowed, Holds, Leased, Published
<1>3. ASSUME NEW k \in Keys, NEW c \in [gen: Nat, owner: Owners], NEW s \in Stamps,
             Revalidate(k, c, s)
      PROVE  Fenced
  BY <1>3, HeadAssumption
     DEF IInv, HeadTypeOK, HeadRow, Revalidate, Revalidated, RevalidateAllowed, Holds, Leased,
         Published
<1>4. ASSUME NEW k \in Keys, NEW c \in [gen: Nat, owner: Owners], Release(k, c)
      PROVE  Fenced
  BY <1>4 DEF IInv, HeadTypeOK, HeadRow, Release, Released, Published
<1>5. ASSUME NEW k \in Keys, NEW c \in [gen: Nat, owner: Owners], Reserve(k, c)
      PROVE  Fenced
  BY <1>5 DEF IInv, HeadTypeOK, HeadRow, Reserve, WithCapture, Published
<1>6. CASE UNCHANGED heads
  BY <1>6
<1> QED BY <1>1, <1>2, <1>3, <1>4, <1>5, <1>6
       DEF HeadStep, headVars, PutObject, PutFenced, HeadTick

\* A published row changes only under a living lease, which the change ends
\* (edgar_publish, edgar_revalidate).
THEOREM PublicationIsFenced == HeadSpec => FencedPublication
<1>1. IInv /\ [HeadNext]_headVars => [Fenced]_headVars
  BY StepIsFenced, NextIsStep
<1> QED BY <1>1, StoreInvariant, PTL DEF HeadSpec, FencedPublication, Fenced
===============================================================================
