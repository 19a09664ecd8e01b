-------------------------- MODULE SecDispatch_proofs --------------------------
(* The dispatch gate for any requests, processes, queues and delays: permits *)
(* are backed by the lease, starts keep the spacing and the cooldowns, and   *)
(* the turn of a process is handed on exactly once.                          *)
EXTENDS SecDispatch, FiniteSetTheorems, TLAPS

\* A row that may still start a request.
MayStart(x) ==
    /\ \/ x.at = "granted"
       \/ x.at = "asking" /\ x.reply = "granted"
    /\ x.timer > 0

\* Ids are a request's own; while it may still be granted a lease under one,
\* nobody is releasing it, and its permit was asked for at most Life ago.
RowOK(r, x, calls) ==
    /\ x.owner # NoOwner => x.owner[1] = r
    /\ x.at \in {"asking", "pausing", "granted", "holding"} => x.owner # NoOwner
    /\ x.at \in {"asking", "pausing", "granted"} =>
         \A m \in calls : m.op = "release" => m.owner # x.owner
    /\ x.at \in {"asking", "granted"} => x.timer <= Life

RowsOK == \A r \in Requests : RowOK(r, req[r], wire)

\* A permit is given after the spacing and outside a cooldown; a cooldown that
\* comes later is younger than the permit.
PermitInTime ==
    \A r \in Requests : MayStart(req[r]) =>
        /\ since = Spacing
        /\ cooldown > 0 => age + req[r].timer <= Life

\* Until the spacing is over, the lease or the next dispatch time keeps it.
SpacingKept == since < Spacing => lease >= Spacing - since \/ next >= Spacing - since

\* Each of these needs the others to be kept by a step.
IInv ==
    /\ TypeOK
    /\ PermitBacked
    /\ RowsOK
    /\ PermitInTime
    /\ SpacingKept
    /\ cooldown = 0 => age = 0

LEMMA LifeType == Life \in Nat /\ Life > 0 /\ Lease = Life + Margin
BY DispatchAssumption DEF Life

LEMMA InitKeeps == Init => IInv
<1> SUFFICES ASSUME Init PROVE IInv
  OBVIOUS
<1>1. TypeOK
  <2>1. Idle \in Request
    BY DEF Idle, Request, Places
  <2>2. since \in 0 .. Spacing /\ age \in 0 .. Life
    BY DispatchAssumption, LifeType DEF Init
  <2>3. /\ armed \in BOOLEAN /\ handoff \in Nat
        /\ owner \in Owners \cup {NoOwner} /\ lease \in Nat
        /\ owner = NoOwner <=> lease = 0
        /\ next \in Nat /\ cooldown \in Nat
    BY DEF Init
  <2>4. wire \subseteq Call /\ req \in [Requests -> Request]
    BY <2>1 DEF Init
  <2>5. <<>> \in Seq(Requests)
    OBVIOUS
  <2>6. queued \in [Processes -> Seq(Requests)] /\ dispatching \in [Processes -> BOOLEAN]
    BY <2>5 DEF Init
  <2> QED BY <2>2, <2>3, <2>4, <2>6 DEF TypeOK
<1>2. PermitBacked /\ RowsOK /\ PermitInTime
  BY DEF Init, PermitBacked, Permitted, RowsOK, RowOK, PermitInTime, MayStart, Idle
<1>3. SpacingKept /\ age = 0
  <2>1. since = Spacing /\ age = 0
    BY DEF Init
  <2> QED BY <2>1, DispatchAssumption DEF SpacingKept
<1> QED BY <1>1, <1>2, <1>3 DEF IInv

-------------------------------------------------------------------------------
(* Steps of one request, which leave the row of the database alone.          *)

\* Another request is left alone, or it gets the turn.
Woken(s) == req'[s] = req[s] \/ req'[s] = [req[s] EXCEPT !.at = "turn"]

\* What the step of one request may do: new calls concern it alone, and it gets
\* no permit that it did not have.
LEMMA LocalStep ==
    ASSUME IInv, NEW r \in Requests,
           UNCHANGED <<rowVars, history>>,
           req' \in [Requests -> Request],
           queued' \in [Processes -> Seq(Requests)],
           dispatching' \in [Processes -> BOOLEAN],
           wire' \subseteq Call,
           \A m \in wire' \ wire : m.op = "release" => m.owner[1] = r,
           \A s \in Requests \ {r} : Woken(s),
           RowOK(r, req'[r], wire'),
           MayStart(req'[r]) => /\ MayStart(req[r])
                                /\ req'[r].timer = req[r].timer
                                /\ req'[r].owner = req[r].owner
    PROVE  IInv'
<1>1. TypeOK'
  BY DEF IInv, TypeOK, rowVars, history
<1>2. ASSUME NEW s \in Requests, s # r
      PROVE  /\ req'[s].owner = req[s].owner /\ req'[s].timer = req[s].timer
             /\ req'[s].at = req[s].at \/ req'[s].at = "turn"
             /\ req'[s].reply = req[s].reply
  <2> req[s] \in Request
    BY DEF IInv, TypeOK
  <2> QED BY <1>2, SMTT(60) DEF Woken, Request
<1>3. ASSUME NEW s \in Requests
      PROVE  RowOK(s, req'[s], wire')
  <2>1. CASE s = r
    BY <2>1
  <2>2. CASE s # r
    <3>1. RowOK(s, req[s], wire)
      BY DEF IInv, RowsOK
    <3>2. ASSUME NEW m \in wire', m.op = "release",
                 req'[s].at \in {"asking", "pausing", "granted"}
          PROVE  m.owner # req'[s].owner
      <4>1. CASE m \in wire
        BY <1>2, <2>2, <3>1, <3>2, <4>1 DEF RowOK
      <4>2. CASE m \notin wire
        BY <1>2, <2>2, <3>1, <3>2, <4>2 DEF RowOK
      <4> QED BY <4>1, <4>2
    <3> QED BY <1>2, <2>2, <3>1, <3>2 DEF RowOK
  <2> QED BY <2>1, <2>2
<1>4. ASSUME NEW s \in Requests, MayStart(req'[s])
      PROVE  MayStart(req[s]) /\ req'[s].timer = req[s].timer /\ req'[s].owner = req[s].owner
  BY <1>2, <1>4 DEF MayStart
<1>5. PermitBacked'
  BY <1>4 DEF IInv, PermitBacked, Permitted, MayStart, rowVars
<1>6. PermitInTime'
  BY <1>4 DEF IInv, PermitInTime, rowVars, history
<1>7. SpacingKept' /\ (cooldown = 0 => age = 0)'
  BY DEF IInv, SpacingKept, rowVars, history
<1> QED BY <1>1, <1>3, <1>5, <1>6, <1>7 DEF IInv, RowsOK

\* The turn passes on: the next in line is woken, the others are left alone.
LEMMA TurnRows ==
    ASSUME TypeOK, NEW r \in Requests, NEW after \in Request, EndTurn(r, after)
    PROVE  /\ req' \in [Requests -> Request]
           /\ queued' \in [Processes -> Seq(Requests)]
           /\ dispatching' \in [Processes -> BOOLEAN]
           /\ \A s \in Requests \ {r} : Woken(s)
           /\ req'[r] = after \/ req'[r] = [after EXCEPT !.at = "turn"]
<1> DEFINE p == ProcessOf[r]
<1>1. p \in Processes /\ queued[p] \in Seq(Requests)
  BY DispatchAssumption DEF TypeOK
<1>2. CASE queued[p] = <<>>
  BY <1>1, <1>2 DEF EndTurn, TypeOK, Woken
<1>3. CASE queued[p] # <<>>
  <2> DEFINE h == Head(queued[p])
             r1 == [req EXCEPT ![r] = after]
  <2>1. h \in Requests /\ Tail(queued[p]) \in Seq(Requests)
    BY <1>1, <1>3
  <2>2. r1 \in [Requests -> Request] /\ r1[r] = after /\ \A s \in Requests \ {r} : r1[s] = req[s]
    BY DEF TypeOK
  <2>3. /\ req' = [r1 EXCEPT ![h].at = "turn"]
        /\ queued' = [queued EXCEPT ![p] = Tail(queued[p])]
        /\ UNCHANGED dispatching
    BY <1>3 DEF EndTurn
  <2>4. \A x \in Request : [x EXCEPT !.at = "turn"] \in Request
    BY DEF Request, Places, TurnPlaces
  <2> HIDE DEF h, r1
  <2>5. \A s \in Requests : req'[s] = r1[s] \/ req'[s] = [r1[s] EXCEPT !.at = "turn"]
    BY <2>2, <2>3
  <2>6. req' \in [Requests -> Request]
    BY <2>1, <2>2, <2>3, <2>4
  <2>7. queued' \in [Processes -> Seq(Requests)]
    BY <1>1, <2>1, <2>3 DEF TypeOK
  <2> QED BY <2>2, <2>3, <2>5, <2>6, <2>7 DEF TypeOK, Woken
<1> QED BY <1>2, <1>3 DEF EndTurn

LEMMA CallsSent ==
    ASSUME TypeOK, NEW m \in Call, Send(m)
    PROVE  wire' \subseteq Call /\ \A c \in wire' \ wire : c = m
BY DEF Send, TypeOK

\* A row without an id has no claim on anything.
LEMMA Ownerless ==
    ASSUME NEW x, NEW r, NEW calls, x.owner = NoOwner,
           x.at \notin {"asking", "pausing", "granted", "holding"}
    PROVE  RowOK(r, x, calls) /\ ~MayStart(x)
BY DEF RowOK, MayStart

LEMMA TurnStep ==
    ASSUME IInv, NEW r \in Requests, NEW after \in Request,
           after.owner = NoOwner, after.at \in {"idle", "away"},
           EndTurn(r, after), UNCHANGED <<rowVars, wire, history>>
    PROVE  IInv'
<1>1. TypeOK
  BY DEF IInv
<1>2. req'[r] = after \/ req'[r] = [after EXCEPT !.at = "turn"]
  BY <1>1, TurnRows
<1>3. /\ req'[r].owner = NoOwner
      /\ req'[r].at \notin {"asking", "pausing", "granted", "holding"}
  BY <1>2 DEF Request
<1>4. RowOK(r, req'[r], wire') /\ ~MayStart(req'[r])
  BY <1>3, Ownerless
<1>5. wire' \subseteq Call /\ wire' \ wire = {}
  BY <1>1 DEF TypeOK
<1> QED BY <1>1, <1>4, <1>5, TurnRows, LocalStep

\* A step that changes one row, and may send a call of that request.
LEMMA RowStep ==
    ASSUME IInv, NEW r \in Requests, NEW x \in Request,
           req' = [req EXCEPT ![r] = x],
           UNCHANGED <<rowVars, queued, dispatching, history>>,
           wire' \subseteq Call,
           \A m \in wire' \ wire : m.op = "release" => m.owner[1] = r,
           RowOK(r, x, wire'),
           MayStart(x) => MayStart(req[r]) /\ x.timer = req[r].timer /\ x.owner = req[r].owner
    PROVE  IInv'
<1>1. /\ req' \in [Requests -> Request] /\ req'[r] = x
      /\ \A s \in Requests \ {r} : Woken(s)
  BY DEF IInv, TypeOK, Woken
<1>2. /\ queued' \in [Processes -> Seq(Requests)]
      /\ dispatching' \in [Processes -> BOOLEAN]
      /\ UNCHANGED <<rowVars, history>>
  BY DEF IInv, TypeOK
<1> QED BY <1>1, <1>2, LocalStep

LEMMA CloseStep ==
    ASSUME IInv, NEW r \in Requests, req[r].at \in {"asking", "granted"},
           Close(r), UNCHANGED <<rowVars, queued, dispatching, history>>
    PROVE  IInv'
<1> DEFINE m == Release(req[r].owner, 0)
           x == [Idle EXCEPT !.at = "closing"]
<1>1. TypeOK /\ req[r] \in Request /\ RowOK(r, req[r], wire)
  BY DEF IInv, TypeOK, RowsOK
<1>2. m \in Call /\ m.owner[1] = r
  BY <1>1 DEF Release, Call, Request, RowOK
<1>3. x \in Request /\ x.owner = NoOwner /\ x.at = "closing"
  BY DEF Idle, Request, Places, TurnPlaces
<1>4. Send(m) /\ req' = [req EXCEPT ![r] = x]
  BY DEF Close
<1> HIDE DEF m, x
<1>5. wire' \subseteq Call /\ \A c \in wire' \ wire : c = m
  BY <1>1, <1>2, <1>4, CallsSent
<1>6. RowOK(r, x, wire') /\ ~MayStart(x)
  BY <1>3, Ownerless
<1> QED BY <1>2, <1>3, <1>4, <1>5, <1>6, RowStep

\* A fresh id is the request's own, and no call or request knows it.
LEMMA FreshIsUnused ==
    ASSUME NEW r \in Requests, Unused(r) # {}
    PROVE  /\ Fresh(r) \in Owners /\ Fresh(r) # NoOwner /\ Fresh(r)[1] = r
           /\ \A m \in wire : m.owner # Fresh(r)
<1>1. Fresh(r) \in Unused(r)
  BY DEF Fresh
<1> QED BY <1>1, DispatchAssumption DEF Unused, InUse, Owners

LEMMA AskStep ==
    ASSUME IInv, NEW r \in Requests, Ask(r)
    PROVE  IInv'
<1>1. TypeOK /\ req[r] \in Request /\ RowOK(r, req[r], wire)
  BY DEF IInv, TypeOK, RowsOK
<1>2. ASSUME NEW o \in Owners, NEW left \in Nat, o # NoOwner, o[1] = r,
             \A m \in wire : m.op = "release" => m.owner # o,
             Send(Acquire(o)), req' = [req EXCEPT ![r] = Asking(r, o, left)]
      PROVE  IInv'
  <2> DEFINE x == Asking(r, o, left)
  <2>1. x \in Request /\ x.owner = o /\ x.at = "asking" /\ x.timer = Life /\ x.reply = "none"
    BY <1>1, LifeType DEF Asking, Request, Places, TurnPlaces
  <2> HIDE DEF x
  <2>2. Acquire(o) \in Call /\ Acquire(o).op = "acquire"
    BY DEF Acquire, Call
  <2>3. wire' \subseteq Call /\ \A c \in wire' \ wire : c = Acquire(o)
    BY <1>1, <1>2, <2>2, CallsSent
  <2>4. RowOK(r, x, wire')
    BY <1>2, <2>1, <2>2, <2>3, LifeType DEF RowOK
  <2>5. ~MayStart(x)
    BY <2>1 DEF MayStart
  <2>6. req' = [req EXCEPT ![r] = x] /\ UNCHANGED <<rowVars, queued, dispatching, history>>
    BY <1>2 DEF x, Ask
  <2>7. \A m \in wire' \ wire : m.op = "release" => m.owner[1] = r
    BY <2>2, <2>3
  <2> QED BY <2>1, <2>3, <2>4, <2>5, <2>6, <2>7, RowStep
<1>3. CASE req[r].at = "turn" /\ Unused(r) # {} /\ Send(Acquire(Fresh(r)))
           /\ req' = [req EXCEPT ![r] = Asking(r, Fresh(r), GateWait)]
  BY <1>2, <1>3, FreshIsUnused, DispatchAssumption
<1>4. CASE req[r].at = "pausing" /\ Send(Acquire(req[r].owner))
           /\ req' = [req EXCEPT ![r] = Asking(r, req[r].owner, req[r].left)]
  <2>1. req[r].owner \in Owners /\ req[r].left \in Nat /\ req[r].owner # NoOwner
    BY <1>1, <1>4 DEF Request, RowOK
  <2> QED BY <1>1, <1>2, <1>4, <2>1 DEF RowOK
<1> QED BY <1>3, <1>4 DEF Ask

LEMMA EnterStep ==
    ASSUME IInv, NEW r \in Requests, EnterQueue(r)
    PROVE  IInv'
<1> DEFINE p == ProcessOf[r]
           line == Append(queued[p], r)
<1>1. TypeOK /\ p \in Processes /\ queued[p] \in Seq(Requests)
  BY DispatchAssumption DEF IInv, TypeOK
<1>2. line \in Seq(Requests) /\ line # <<>> /\ Head(line) \in Requests /\ Tail(line) \in Seq(Requests)
  BY <1>1
<1>3. Queued \in Request /\ Queued.owner = NoOwner /\ Queued.at = "queued"
  BY DEF Queued, Idle, Request, Places
<1>4. CASE dispatching[p]
  <2>1. /\ queued' = [queued EXCEPT ![p] = line]
        /\ req' = [req EXCEPT ![r] = Queued]
        /\ UNCHANGED <<rowVars, wire, dispatching, history>>
    BY <1>4 DEF EnterQueue
  <2>2. req' \in [Requests -> Request] /\ req'[r] = Queued /\ \A s \in Requests \ {r} : Woken(s)
    BY <1>1, <1>3, <2>1 DEF TypeOK, Woken
  <2>3. RowOK(r, req'[r], wire') /\ ~MayStart(req'[r])
    BY <1>3, <2>2, Ownerless
  <2> HIDE DEF line
  <2>4. /\ queued' \in [Processes -> Seq(Requests)] /\ dispatching' \in [Processes -> BOOLEAN]
        /\ wire' \subseteq Call /\ wire' \ wire = {}
    BY <1>1, <1>2, <2>1 DEF TypeOK
  <2> QED BY <2>1, <2>2, <2>3, <2>4, LocalStep
<1>5. CASE ~dispatching[p]
  <2> DEFINE h == Head(line)
             r1 == [req EXCEPT ![r] = Queued]
  <2>1. /\ queued' = [queued EXCEPT ![p] = Tail(line)]
        /\ req' = [r1 EXCEPT ![h].at = "turn"]
        /\ dispatching' = [dispatching EXCEPT ![p] = TRUE]
        /\ UNCHANGED <<rowVars, wire, history>>
    BY <1>5 DEF EnterQueue
  <2>2. r1 \in [Requests -> Request] /\ r1[r] = Queued /\ \A s \in Requests \ {r} : r1[s] = req[s]
    BY <1>1, <1>3 DEF TypeOK
  <2>3. \A x \in Request : [x EXCEPT !.at = "turn"] \in Request
    BY DEF Request, Places, TurnPlaces
  <2> HIDE DEF line, h, r1
  <2>4. \A s \in Requests : req'[s] = r1[s] \/ req'[s] = [r1[s] EXCEPT !.at = "turn"]
    BY <2>1, <2>2
  <2>5. req' \in [Requests -> Request]
    BY <1>2, <2>1, <2>2, <2>3 DEF h
  <2>6. \A s \in Requests \ {r} : Woken(s)
    BY <2>2, <2>4 DEF Woken
  <2>7. req'[r].owner = NoOwner /\ req'[r].at \in {"queued", "turn"}
    BY <1>3, <2>2, <2>4 DEF Request
  <2>8. RowOK(r, req'[r], wire') /\ ~MayStart(req'[r])
    BY <2>7, Ownerless
  <2>9. /\ queued' \in [Processes -> Seq(Requests)] /\ dispatching' \in [Processes -> BOOLEAN]
        /\ wire' \subseteq Call /\ wire' \ wire = {}
    BY <1>1, <1>2, <2>1 DEF TypeOK
  <2> QED BY <2>1, <2>5, <2>6, <2>8, <2>9, LocalStep
<1> QED BY <1>4, <1>5

LEMMA LeaveStep ==
    ASSUME IInv, NEW r \in Requests, LeaveQueue(r)
    PROVE  IInv'
<1> DEFINE p == ProcessOf[r]
           line == queued[p]
<1>1. TypeOK /\ p \in Processes /\ line \in Seq(Requests)
  BY DispatchAssumption DEF IInv, TypeOK
<1>2. PICK i \in DOMAIN line :
        queued' = [queued EXCEPT ![p] = SubSeq(line, 1, i - 1) \o SubSeq(line, i + 1, Len(line))]
  BY DEF LeaveQueue
<1>3. i \in 1 .. Len(line)
  BY <1>1
<1>4. SubSeq(line, 1, i - 1) \in Seq(Requests) /\ SubSeq(line, i + 1, Len(line)) \in Seq(Requests)
  BY <1>1, <1>3
<1>5. Idle \in Request /\ Idle.owner = NoOwner /\ Idle.at = "idle"
  BY DEF Idle, Request, Places
<1>6. req' = [req EXCEPT ![r] = Idle] /\ UNCHANGED <<rowVars, wire, dispatching, history>>
  BY DEF LeaveQueue
<1>7. SubSeq(line, 1, i - 1) \o SubSeq(line, i + 1, Len(line)) \in Seq(Requests)
  BY <1>4
<1>8. queued' \in [Processes -> Seq(Requests)]
  <2> DEFINE rest == SubSeq(line, 1, i - 1) \o SubSeq(line, i + 1, Len(line))
  <2>1. rest \in Seq(Requests) /\ queued' = [queued EXCEPT ![p] = rest]
    BY <1>2, <1>7
  <2> HIDE DEF rest, line
  <2> QED BY <1>1, <2>1 DEF TypeOK
<1>9. req' \in [Requests -> Request] /\ req'[r] = Idle /\ \A s \in Requests \ {r} : Woken(s)
  BY <1>1, <1>5, <1>6 DEF TypeOK, Woken
<1>10. RowOK(r, req'[r], wire') /\ ~MayStart(req'[r])
  BY <1>5, <1>9, Ownerless
<1>11. dispatching' \in [Processes -> BOOLEAN] /\ wire' \subseteq Call /\ wire' \ wire = {}
  BY <1>1, <1>6 DEF TypeOK
<1> QED BY <1>6, <1>8, <1>9, <1>10, <1>11, LocalStep

\* All the steps of a request but the start itself.
LEMMA StepKeeps ==
    ASSUME IInv, NEW r \in Requests, Step(r), ~Dispatch(r)
    PROVE  IInv'
<1>1. /\ TypeOK /\ req[r] \in Request /\ RowOK(r, req[r], wire)
      /\ wire \subseteq Call /\ wire \ wire = {}
  BY DEF IInv, TypeOK, RowsOK
<1>2. Idle \in Request /\ Idle.owner = NoOwner /\ Idle.at = "idle"
  BY DEF Idle, Request, Places
<1>3. CASE Ask(r)
  BY <1>3, AskStep
<1>4. CASE TakePermit(r)
  <2> DEFINE x == [req[r] EXCEPT !.at = "granted", !.reply = "none", !.left = 0]
  <2>1. /\ x \in Request /\ x.at = "granted" /\ x.owner = req[r].owner /\ x.timer = req[r].timer
    BY <1>1 DEF Request, Places, TurnPlaces
  <2>2. req' = [req EXCEPT ![r] = x] /\ UNCHANGED <<rowVars, wire, queued, dispatching, history>>
    BY <1>4 DEF TakePermit
  <2>3. req[r].at = "asking" /\ req[r].reply = "granted" /\ req[r].timer > 0
    BY <1>4 DEF TakePermit
  <2> HIDE DEF x
  <2>4. RowOK(r, x, wire')
    BY <1>1, <2>1, <2>2, <2>3 DEF RowOK
  <2> QED BY <1>1, <2>1, <2>2, <2>3, <2>4, RowStep DEF MayStart
<1>5. CASE Pause(r)
  <2>1. PICK w \in 1 .. Spacing :
          \/ /\ req' = [req EXCEPT ![r].at = "pausing", ![r].timer = w, ![r].reply = "none"]
             /\ UNCHANGED <<queued, dispatching>>
          \/ EndTurn(r, Idle)
    BY <1>5 DEF Pause
  <2>2. UNCHANGED <<rowVars, wire, history>>
    BY <1>5 DEF Pause
  <2>3. CASE EndTurn(r, Idle)
    BY <1>2, <2>2, <2>3, TurnStep
  <2>4. CASE /\ req' = [req EXCEPT ![r].at = "pausing", ![r].timer = w, ![r].reply = "none"]
             /\ UNCHANGED <<queued, dispatching>>
    <3> DEFINE x == [req[r] EXCEPT !.at = "pausing", !.timer = w, !.reply = "none"]
    <3>0. w \in Nat
      BY <2>1, DispatchAssumption
    <3>1. x \in Request /\ x.at = "pausing" /\ x.owner = req[r].owner
      BY <1>1, <3>0 DEF Request, Places, TurnPlaces
    <3>2. req' = [req EXCEPT ![r] = x]
      BY <2>4
    <3>3. req[r].at = "asking"
      BY <1>5 DEF Pause
    <3> HIDE DEF x
    <3>4. RowOK(r, x, wire')
      BY <1>1, <2>2, <3>1, <3>3 DEF RowOK
    <3>5. ~MayStart(x)
      BY <3>1 DEF MayStart
    <3> QED BY <1>1, <2>2, <2>4, <3>1, <3>2, <3>4, <3>5, RowStep
  <2> QED BY <2>1, <2>3, <2>4
<1>6. CASE GiveUp(r)
  BY <1>2, <1>6, TurnStep DEF GiveUp
<1>7. CASE Uncertain(r)
  BY <1>7, CloseStep DEF Uncertain
<1>8. CASE Discard(r)
  BY <1>8, CloseStep DEF Discard
<1>9. CASE CloseEnds(r)
  BY <1>2, <1>9, TurnStep DEF CloseEnds
<1>10. CASE HoldEnds(r)
  <2>1. PICK c \in {0} \cup Cooldowns :
          /\ Send(Release(req[r].owner, c))
          /\ req' = [req EXCEPT ![r].at = "releasing", ![r].cool = c]
    BY <1>10 DEF HoldEnds
  <2>2. UNCHANGED <<rowVars, queued, dispatching, history>> /\ req[r].at = "holding"
    BY <1>10 DEF HoldEnds
  <2> DEFINE m == Release(req[r].owner, c)
             x == [req[r] EXCEPT !.at = "releasing", !.cool = c]
  <2>3. m \in Call /\ m.owner[1] = r
    BY <1>1, <2>2 DEF Release, Call, Request, RowOK
  <2>4. x \in Request /\ x.at = "releasing" /\ x.owner = req[r].owner
    BY <1>1 DEF Request, Places, TurnPlaces
  <2>5. req' = [req EXCEPT ![r] = x] /\ Send(m)
    BY <2>1
  <2> HIDE DEF m, x
  <2>6. wire' \subseteq Call /\ \A d \in wire' \ wire : d = m
    BY <1>1, <2>3, <2>5, CallsSent
  <2>7. RowOK(r, x, wire') /\ ~MayStart(x)
    BY <1>1, <2>4 DEF RowOK, MayStart
  <2> QED BY <2>2, <2>3, <2>4, <2>5, <2>6, <2>7, RowStep
<1>11. CASE ReleaseEnds(r)
  <2> DEFINE after == IF req[r].cool > 0 /\ req[r].reply = "released" THEN Idle
                      ELSE [Idle EXCEPT !.at = "away", !.cool = req[r].cool]
  <2>1. after \in Request /\ after.owner = NoOwner /\ after.at \in {"idle", "away"}
    BY <1>1, <1>2 DEF Idle, Request, Places
  <2>2. EndTurn(r, after) /\ UNCHANGED <<rowVars, wire, history>>
    BY <1>11 DEF ReleaseEnds
  <2> HIDE DEF after
  <2> QED BY <2>1, <2>2, TurnStep
<1>12. CASE Respond(r)
  <2>1. UNCHANGED <<rowVars, queued, dispatching, history>>
    BY <1>12 DEF Respond
  <2>2. CASE req' = [req EXCEPT ![r] = Idle] /\ UNCHANGED wire
    BY <1>1, <1>2, <2>1, <2>2, Ownerless, RowStep
  <2>3. ASSUME NEW c \in Cooldowns,
               Send([op |-> "publish", owner |-> NoOwner, cool |-> c]),
               req' = [req EXCEPT ![r] = [Idle EXCEPT !.at = "publishing"]]
        PROVE  IInv'
    <3> DEFINE m == [op |-> "publish", owner |-> NoOwner, cool |-> c]
               x == [Idle EXCEPT !.at = "publishing"]
    <3>1. m \in Call /\ m.op = "publish"
      BY DEF Call
    <3>2. x \in Request /\ x.owner = NoOwner /\ x.at = "publishing"
      BY DEF Idle, Request, Places
    <3>3. Send(m) /\ req' = [req EXCEPT ![r] = x]
      BY <2>3
    <3> HIDE DEF m, x
    <3>4. wire' \subseteq Call /\ \A d \in wire' \ wire : d = m
      BY <1>1, <3>1, <3>3, CallsSent
    <3>5. RowOK(r, x, wire') /\ ~MayStart(x)
      BY <3>2, Ownerless
    <3>6. \A d \in wire' \ wire : d.op = "release" => d.owner[1] = r
      BY <3>1, <3>4
    <3> QED BY <2>1, <3>2, <3>3, <3>4, <3>5, <3>6, RowStep
  <2> QED BY <1>12, <2>2, <2>3, DispatchAssumption DEF Respond
<1>13. CASE PublishEnds(r)
  BY <1>1, <1>2, <1>13, Ownerless, RowStep DEF PublishEnds
<1> QED BY <1>3, <1>4, <1>5, <1>6, <1>7, <1>8, <1>9, <1>10, <1>11, <1>12, <1>13 DEF Step

-------------------------------------------------------------------------------
(* Starts, the database, time and crashes.                                   *)

\* Two permits at once would both be backed by the one lease.
LEMMA OnePermit ==
    ASSUME IInv, NEW r \in Requests, NEW s \in Requests, MayStart(req[r]), MayStart(req[s])
    PROVE  r = s
<1>1. req[r] \in Request /\ req[s] \in Request
  BY DEF IInv, TypeOK
<1>2. /\ owner = req[r].owner /\ owner = req[s].owner
      /\ lease >= req[r].timer + Margin
  BY DEF IInv, PermitBacked, Permitted, MayStart
<1>3. owner # NoOwner
  BY <1>1, <1>2, DispatchAssumption DEF MayStart, IInv, RowsOK, RowOK
<1> QED BY <1>2, <1>3 DEF IInv, RowsOK, RowOK

LEMMA StartKeeps ==
    ASSUME IInv, NEW r \in Requests, Dispatch(r)
    PROVE  IInv'
<1> DEFINE x == [req[r] EXCEPT !.at = "holding", !.timer = Spacing]
<1>1. TypeOK /\ req[r] \in Request /\ RowOK(r, req[r], wire) /\ MayStart(req[r])
  BY DEF IInv, TypeOK, RowsOK, Dispatch, Usable, MayStart
<1>2. x \in Request /\ x.at = "holding" /\ x.owner = req[r].owner
  BY <1>1, DispatchAssumption DEF Request, Places, TurnPlaces
<1>3. /\ req' = [req EXCEPT ![r] = x] /\ since' = 0
      /\ UNCHANGED <<rowVars, wire, queued, dispatching, age>>
  BY DEF Dispatch
<1>4. req[r].at = "granted"
  BY DEF Dispatch, Usable
<1> HIDE DEF x
<1>5. TypeOK'
  BY <1>1, <1>2, <1>3, DispatchAssumption DEF TypeOK, rowVars
<1>6. req'[r] = x /\ \A s \in Requests : s # r => req'[s] = req[s]
  BY <1>1, <1>3 DEF TypeOK
<1>7. RowsOK'
  <2>1. RowOK(r, x, wire')
    BY <1>1, <1>2, <1>4 DEF RowOK
  <2> QED BY <1>3, <1>6, <2>1 DEF IInv, RowsOK
<1>8. \A s \in Requests : ~MayStart(req'[s])
  <2>1. ~MayStart(x)
    BY <1>2 DEF MayStart
  <2> QED BY <1>1, <1>6, <2>1, OnePermit
<1>9. PermitBacked' /\ PermitInTime'
  BY <1>8 DEF PermitBacked, Permitted, PermitInTime, MayStart
<1>10. SpacingKept'
  <2>1. lease >= req[r].timer + Margin
    BY <1>1 DEF IInv, PermitBacked, Permitted, MayStart
  <2>2. lease \in Nat /\ req[r].timer \in Nat
    BY <1>1 DEF TypeOK, Request
  <2>3. lease >= Spacing
    BY <2>1, <2>2, DispatchAssumption
  <2> QED BY <1>3, <2>2, <2>3, DispatchAssumption DEF SpacingKept, rowVars
<1>11. (cooldown = 0 => age = 0)'
  BY <1>3 DEF IInv, rowVars
<1> QED BY <1>5, <1>7, <1>9, <1>10, <1>11 DEF IInv

\* A reply changes at most one row, and only what it says.
LEMMA Answered ==
    ASSUME TypeOK, NEW m \in wire, NEW place \in {"asking", "releasing"},
           NEW a \in {"granted", "busy", "cooling", "released"}, Answer(m, place, a)
    PROVE  /\ req' \in [Requests -> Request]
           /\ \A s \in Requests :
                \/ req'[s] = req[s]
                \/ /\ req[s].at = place /\ req[s].owner = m.owner
                   /\ req'[s].at = place /\ req'[s].owner = m.owner
                   /\ req'[s].timer = req[s].timer /\ req'[s].reply = a
<1>1. CASE UNCHANGED req
  BY <1>1 DEF TypeOK
<1>2. ASSUME NEW r \in Requests, req[r].at = place, req[r].owner = m.owner,
             req' = [req EXCEPT ![r].reply = a]
      PROVE  /\ req' \in [Requests -> Request]
             /\ \A s \in Requests :
                  \/ req'[s] = req[s]
                  \/ /\ req[s].at = place /\ req[s].owner = m.owner
                     /\ req'[s].at = place /\ req'[s].owner = m.owner
                     /\ req'[s].timer = req[s].timer /\ req'[s].reply = a
  <2> DEFINE x == [req[r] EXCEPT !.reply = a]
  <2>1. req[r] \in Request
    BY DEF TypeOK
  <2>2. x \in Request /\ x.at = place /\ x.owner = m.owner
        /\ x.timer = req[r].timer /\ x.reply = a
    BY <1>2, <2>1 DEF Request
  <2>3. req' = [req EXCEPT ![r] = x]
    BY <1>2
  <2> HIDE DEF x
  <2> QED BY <1>2, <2>2, <2>3 DEF TypeOK
<1> QED BY <1>1, <1>2 DEF Answer

\* Rows keep what they own when a reply comes and the call is over.
LEMMA AnsweredRows ==
    ASSUME IInv, NEW m \in wire, NEW place \in {"asking", "releasing"},
           NEW a \in {"granted", "busy", "cooling", "released"}, Answer(m, place, a),
           wire' = wire \ {m}
    PROVE  RowsOK'
<1>1. TypeOK
  BY DEF IInv
<1>2. ASSUME NEW s \in Requests PROVE RowOK(s, req'[s], wire')
  <2>1. RowOK(s, req[s], wire)
    BY DEF IInv, RowsOK
  <2>2. /\ req'[s].owner = req[s].owner /\ req'[s].at = req[s].at /\ req'[s].timer = req[s].timer
    BY <1>1, Answered
  <2> QED BY <2>1, <2>2 DEF RowOK
<1> QED BY <1>2 DEF RowsOK

\* The rest of the invariant when permits may only lapse and time stands still.
LEMMA PermitsLapse ==
    ASSUME IInv, UNCHANGED <<armed, handoff, owner, lease, since, age>>,
           \A s \in Requests : MayStart(req'[s]) => req'[s] = req[s],
           cooldown' = cooldown
    PROVE  PermitBacked' /\ PermitInTime'
<1>1. PermitBacked'
  BY DEF IInv, PermitBacked, Permitted, MayStart
<1>2. PermitInTime'
  BY DEF IInv, PermitInTime
<1> QED BY <1>1, <1>2

LEMMA NoneMayStart ==
    ASSUME \A s \in Requests : ~MayStart(req'[s])
    PROVE  PermitBacked' /\ PermitInTime'
BY DEF PermitBacked, Permitted, PermitInTime, MayStart

\* A lease is granted when the last one has ended, so no other permit lives.
LEMMA AcquireKeeps ==
    ASSUME IInv, NEW m \in wire, ServeAcquire(m)
    PROVE  IInv'
<1>1. /\ TypeOK /\ m \in Call /\ m.op = "acquire" /\ wire' = wire \ {m}
      /\ UNCHANGED <<armed, handoff, next, cooldown, queued, dispatching, history>>
  BY DEF IInv, TypeOK, ServeAcquire
<1>2. m.owner \in Owners /\ m.owner # NoOwner
  BY <1>1, DispatchAssumption DEF Call, Owners
<1>3. CASE /\ Open /\ Free /\ owner' = m.owner /\ lease' = Lease
           /\ Answer(m, "asking", "granted")
  <2>1. /\ req' \in [Requests -> Request]
        /\ \A s \in Requests :
             \/ req'[s] = req[s]
             \/ /\ req[s].at = "asking" /\ req'[s].owner = m.owner
                /\ req'[s].timer = req[s].timer
    BY <1>1, <1>3, Answered
  <2>2. \A s \in Requests : ~MayStart(req[s])
    <3> SUFFICES ASSUME NEW s \in Requests, MayStart(req[s]) PROVE FALSE
      OBVIOUS
    <3>1. lease >= req[s].timer + Margin
      BY DEF IInv, PermitBacked, Permitted, MayStart
    <3>2. req[s].timer \in Nat /\ req[s].timer > 0 /\ lease = 0
      BY <1>1, <1>3 DEF TypeOK, Request, MayStart, Free
    <3> QED BY <3>1, <3>2, DispatchAssumption
  <2>3. since = Spacing
    <3>1. since \in 0 .. Spacing /\ lease = 0 /\ next = 0
      BY <1>1, <1>3 DEF TypeOK, Free
    <3> QED BY <3>1, DispatchAssumption DEF IInv, SpacingKept
  <2>4. ASSUME NEW s \in Requests, MayStart(req'[s])
        PROVE  /\ req'[s].owner = m.owner
               /\ req'[s].timer \in Nat /\ req'[s].timer <= Life
    <3>1. req[s].at = "asking" /\ req'[s].owner = m.owner /\ req'[s].timer = req[s].timer
      BY <2>1, <2>2, <2>4
    <3>2. req[s].timer \in Nat /\ req[s].timer <= Life
      BY <1>1, <3>1 DEF IInv, RowsOK, RowOK, TypeOK, Request
    <3> QED BY <3>1, <3>2
  <2>5. PermitBacked'
    <3> SUFFICES ASSUME NEW s \in Requests, MayStart(req'[s])
                 PROVE  /\ armed' /\ handoff' = 0 /\ owner' = req'[s].owner
                        /\ lease' >= req'[s].timer + Margin
      BY DEF PermitBacked, Permitted, MayStart
    <3>1. lease' >= req'[s].timer + Margin
      BY <1>3, <2>4, LifeType, DispatchAssumption
    <3> QED BY <1>1, <1>3, <2>4, <3>1 DEF Open
  <2>6. PermitInTime'
    <3>1. since' = Spacing /\ cooldown' = 0
      BY <1>1, <1>3, <2>3 DEF Open, history
    <3> QED BY <3>1 DEF PermitInTime
  <2>7. SpacingKept' /\ (cooldown = 0 => age = 0)'
    <3>1. since' = since /\ cooldown' = cooldown /\ age' = age
      BY <1>1 DEF history
    <3> QED BY <2>3, <3>1, DispatchAssumption DEF IInv, SpacingKept
  <2>8. TypeOK'
    <3>1. lease' \in Nat /\ lease' # 0
      BY <1>3, LifeType, DispatchAssumption
    <3> QED BY <1>1, <1>2, <1>3, <2>1, <3>1 DEF TypeOK, history
  <2>9. RowsOK'
    BY <1>1, <1>3, AnsweredRows
  <2> QED BY <2>5, <2>6, <2>7, <2>8, <2>9 DEF IInv
<1>4. ASSUME NEW a \in {"busy", "cooling"}, Answer(m, "asking", a), UNCHANGED <<owner, lease>>
      PROVE  IInv'
  <2>1. /\ req' \in [Requests -> Request]
        /\ \A s \in Requests : req'[s] = req[s] \/ (req'[s].at = "asking" /\ req'[s].reply = a)
    BY <1>1, <1>4, Answered
  <2>2. \A s \in Requests : MayStart(req'[s]) => req'[s] = req[s]
    BY <1>4, <2>1 DEF MayStart
  <2>3. PermitBacked' /\ PermitInTime'
    BY <1>1, <1>4, <2>2, PermitsLapse DEF history
  <2>4. TypeOK'
    BY <1>1, <1>4, <2>1 DEF TypeOK, history
  <2>5. RowsOK'
    BY <1>1, <1>4, AnsweredRows
  <2>6. SpacingKept' /\ (cooldown = 0 => age = 0)'
    BY <1>1, <1>4 DEF IInv, SpacingKept, history
  <2> QED BY <2>3, <2>4, <2>5, <2>6 DEF IInv
<1> QED BY <1>3, <1>4 DEF ServeAcquire

\* Nobody who may still start is being released, so a release ends no permit.
LEMMA ReleaseKeeps ==
    ASSUME IInv, NEW m \in wire, ServeRelease(m)
    PROVE  IInv'
<1>1. /\ TypeOK /\ m \in Call /\ m.op = "release" /\ wire' = wire \ {m}
      /\ UNCHANGED <<armed, handoff, queued, dispatching, history>>
  BY DEF IInv, TypeOK, ServeRelease
<1>2. m.owner \in Owners /\ m.cool \in Nat
  <2>1. m.owner \in Owners /\ m.cool \in {0} \cup Cooldowns
    BY <1>1 DEF Call
  <2>2. {0} \cup Cooldowns \subseteq Nat
    BY DispatchAssumption
  <2> QED BY <2>1, <2>2
<1>3. CASE owner = m.owner /\ Freed(m) /\ Answer(m, "releasing", "released")
  <2>1. /\ req' \in [Requests -> Request]
        /\ \A s \in Requests : req'[s] = req[s] \/ req'[s].at = "releasing"
    BY <1>1, <1>3, Answered
  <2>2. \A s \in Requests : ~MayStart(req[s])
    BY <1>1, <1>3 DEF IInv, PermitBacked, Permitted, MayStart, RowsOK, RowOK
  <2>3. PermitBacked' /\ PermitInTime'
    BY <2>1, <2>2, NoneMayStart DEF MayStart
  <2>4. /\ owner' = NoOwner /\ lease' = 0
        /\ next' \in Nat /\ next' >= Spacing
        /\ cooldown' \in Nat /\ cooldown' >= cooldown
    BY <1>1, <1>2, <1>3, DispatchAssumption DEF Freed, Extended, Most, TypeOK
  <2>5. TypeOK'
    BY <1>1, <2>1, <2>4 DEF TypeOK, history
  <2>6. RowsOK'
    BY <1>1, <1>3, AnsweredRows
  <2>7. SpacingKept'
    <3>1. since' \in 0 .. Spacing
      BY <1>1 DEF TypeOK, history
    <3>2. Spacing \in Nat /\ next' \in Nat /\ next' >= Spacing
      BY <2>4, DispatchAssumption
    <3>3. \A n, k \in Nat : \A i \in 0 .. k : n >= k => n >= k - i
      OBVIOUS
    <3> QED BY <3>1, <3>2, <3>3 DEF SpacingKept
  <2>8. (cooldown = 0 => age = 0)'
    <3>1. cooldown \in Nat /\ age' = age
      BY <1>1 DEF TypeOK, history
    <3> QED BY <2>4, <3>1 DEF IInv
  <2> QED BY <2>3, <2>5, <2>6, <2>7, <2>8 DEF IInv
<1>4. CASE UNCHANGED <<owner, lease, next, cooldown, req>>
  <2>1. PermitBacked' /\ PermitInTime'
    BY <1>1, <1>4, PermitsLapse DEF history
  <2>2. TypeOK' /\ SpacingKept' /\ (cooldown = 0 => age = 0)'
    BY <1>1, <1>4 DEF IInv, TypeOK, SpacingKept, history
  <2>3. RowsOK'
    BY <1>1, <1>4 DEF IInv, RowsOK, RowOK
  <2> QED BY <2>1, <2>2, <2>3 DEF IInv
<1> QED BY <1>3, <1>4 DEF ServeRelease

\* A cooldown that begins now is younger than every permit.
LEMMA PublishKeeps ==
    ASSUME IInv, NEW m \in wire, ServePublish(m)
    PROVE  IInv'
<1>1. /\ TypeOK /\ m \in Call /\ m.op = "publish" /\ wire' = wire \ {m}
      /\ cooldown' = Extended(m.cool)
      /\ UNCHANGED <<armed, handoff, owner, lease, next, localVars, history>>
  BY DEF IInv, TypeOK, ServePublish
<1>2. cooldown \in Nat /\ m.cool \in Nat /\ m.cool > 0
  <2>1. cooldown \in Nat /\ m.cool \in Cooldowns
    BY <1>1 DEF TypeOK, Call
  <2>2. \A c \in Cooldowns : c \in Nat /\ c > 0
    BY DispatchAssumption
  <2> QED BY <2>1, <2>2
<1>3. cooldown' \in Nat /\ cooldown' >= cooldown /\ cooldown' > 0
  BY <1>1, <1>2 DEF Extended, Most
<1>4. TypeOK'
  BY <1>1, <1>3 DEF TypeOK, localVars, history
<1>5. PermitBacked' /\ SpacingKept'
  BY <1>1 DEF IInv, PermitBacked, Permitted, SpacingKept, localVars, history
<1>6. RowsOK'
  BY <1>1 DEF IInv, RowsOK, RowOK, localVars
<1>7. PermitInTime'
  <2> SUFFICES ASSUME NEW s \in Requests, MayStart(req[s])
               PROVE  since = Spacing /\ age + req[s].timer <= Life
    BY <1>1 DEF PermitInTime, localVars, history
  <2>1. since = Spacing /\ (cooldown > 0 => age + req[s].timer <= Life)
    BY DEF IInv, PermitInTime
  <2>2. req[s].timer \in Nat /\ req[s].timer <= Life
    BY <1>1 DEF IInv, RowsOK, RowOK, MayStart, TypeOK, Request
  <2>3. cooldown = 0 => age = 0
    BY DEF IInv
  <2> QED BY <1>2, <2>1, <2>2, <2>3
<1>8. (cooldown = 0 => age = 0)'
  BY <1>3
<1> QED BY <1>4, <1>5, <1>6, <1>7, <1>8 DEF IInv

\* Before the gate is armed there is no permit.
LEMMA ArmKeeps ==
    ASSUME IInv, Arm
    PROVE  IInv'
<1>1. \A s \in Requests : ~MayStart(req'[s])
  BY DEF IInv, PermitBacked, Permitted, MayStart, Arm, localVars
<1>2. PermitBacked' /\ PermitInTime'
  BY <1>1, NoneMayStart
<1>3. TypeOK' /\ SpacingKept' /\ (cooldown = 0 => age = 0)'
  BY DispatchAssumption DEF IInv, TypeOK, SpacingKept, Arm, localVars, history
<1>4. RowsOK'
  BY DEF IInv, RowsOK, RowOK, Arm, localVars
<1> QED BY <1>2, <1>3, <1>4 DEF IInv

\* A permit, its lease and the spacing run down together.
LEMMA TickKeeps ==
    ASSUME IInv, Tick
    PROVE  IInv'
<1>1. /\ TypeOK /\ UNCHANGED <<armed, wire, queued, dispatching>>
      /\ handoff' = Down(handoff) /\ lease' = Down(lease)
      /\ owner' = IF lease <= 1 THEN NoOwner ELSE owner
      /\ next' = Down(next) /\ cooldown' = Down(cooldown)
      /\ since' = Least(since + 1, Spacing)
      /\ age' = IF cooldown <= 1 THEN 0 ELSE Least(age + 1, Life)
  BY DEF IInv, Tick
<1>2. /\ handoff \in Nat /\ lease \in Nat /\ next \in Nat /\ cooldown \in Nat
      /\ since \in 0 .. Spacing /\ age \in 0 .. Life
      /\ owner \in Owners \cup {NoOwner} /\ (owner = NoOwner <=> lease = 0)
  BY <1>1 DEF TypeOK
<1>3. \A n \in Nat : Down(n) \in Nat /\ Down(n) <= n /\ Down(n) >= n - 1 /\ (Down(n) > 0 => Down(n) = n - 1)
  BY DEF Down, Most
<1>4. ASSUME NEW s \in Requests
      PROVE  /\ req'[s] \in Request
             /\ req'[s].at = req[s].at /\ req'[s].owner = req[s].owner
             /\ req'[s].reply = req[s].reply
             /\ req[s].timer \in Nat /\ req'[s].timer = Down(req[s].timer)
  <2>1. req[s] \in Request /\ req'[s] = [req[s] EXCEPT !.timer = Down(@), !.left = Down(@)]
    BY <1>1 DEF Tick, TypeOK
  <2>2. req[s].timer \in Nat /\ req[s].left \in Nat
    BY <2>1 DEF Request
  <2>3. Down(req[s].timer) \in Nat /\ Down(req[s].left) \in Nat
    BY <1>3, <2>2
  <2> QED BY <2>1, <2>2, <2>3 DEF Request
<1>5. ASSUME NEW s \in Requests, MayStart(req'[s])
      PROVE  /\ MayStart(req[s]) /\ req[s].timer > 1 /\ req'[s].timer = req[s].timer - 1
             /\ req'[s].owner = req[s].owner
             /\ armed /\ handoff = 0 /\ owner = req[s].owner /\ lease >= req[s].timer + Margin
  <2>1. MayStart(req[s]) /\ req[s].timer > 1 /\ req'[s].timer = req[s].timer - 1
    BY <1>3, <1>4, <1>5 DEF MayStart
  <2> QED BY <1>4, <2>1 DEF IInv, PermitBacked, Permitted, MayStart
<1>6. TypeOK'
  <2>1. req' \in [Requests -> Request]
    BY <1>4 DEF Tick
  <2>2. /\ handoff' \in Nat /\ lease' \in Nat /\ next' \in Nat /\ cooldown' \in Nat
    BY <1>1, <1>2, <1>3
  <2>3. since' \in 0 .. Spacing /\ age' \in 0 .. Life
    BY <1>1, <1>2, LifeType, DispatchAssumption DEF Least
  <2>4. owner' \in Owners \cup {NoOwner} /\ (owner' = NoOwner <=> lease' = 0)
    BY <1>1, <1>2 DEF Down, Most
  <2> QED BY <1>1, <2>1, <2>2, <2>3, <2>4 DEF TypeOK
<1>7. RowsOK'
  <2> SUFFICES ASSUME NEW s \in Requests PROVE RowOK(s, req'[s], wire')
    BY DEF RowsOK
  <2>1. RowOK(s, req[s], wire)
    BY DEF IInv, RowsOK
  <2>2. req[s].timer <= Life => req'[s].timer <= Life
    BY <1>3, <1>4, LifeType
  <2> QED BY <1>1, <1>4, <2>1, <2>2 DEF RowOK
<1>8. PermitBacked'
  <2> SUFFICES ASSUME NEW s \in Requests, MayStart(req'[s])
               PROVE  /\ armed' /\ handoff' = 0 /\ owner' = req'[s].owner
                      /\ lease' >= req'[s].timer + Margin
    BY DEF PermitBacked, Permitted, MayStart
  <2>1. lease > 1 /\ lease' >= req'[s].timer + Margin
    BY <1>1, <1>2, <1>3, <1>4, <1>5, DispatchAssumption
  <2>2. handoff' = 0
    BY <1>1, <1>5 DEF Down, Most
  <2>3. owner' = owner
    BY <1>1, <1>2, <2>1
  <2> QED BY <1>1, <1>5, <2>1, <2>2, <2>3
<1>9. PermitInTime'
  <2> SUFFICES ASSUME NEW s \in Requests, MayStart(req'[s])
               PROVE  since' = Spacing /\ (cooldown' > 0 => age' + req'[s].timer <= Life)
    BY DEF PermitInTime
  <2>1. since = Spacing /\ (cooldown > 0 => age + req[s].timer <= Life)
    BY <1>5 DEF IInv, PermitInTime
  <2>2. since' = Spacing
    BY <1>1, <2>1, DispatchAssumption DEF Least
  <2>3. cooldown' > 0 => age' <= age + 1 /\ cooldown > 0
    BY <1>1, <1>2, LifeType DEF Down, Most, Least
  <2>4. age' \in Nat
    BY <1>6, LifeType DEF TypeOK
  <2> QED BY <1>2, <1>4, <1>5, <2>1, <2>2, <2>3, <2>4, LifeType
<1>10. SpacingKept'
  <2>1. since' < Spacing => since' = since + 1 /\ since < Spacing
    BY <1>1, <1>2, DispatchAssumption DEF Least
  <2>2. lease' >= lease - 1 /\ next' >= next - 1 /\ lease' \in Nat /\ next' \in Nat
    BY <1>1, <1>2, <1>3
  <2> QED BY <1>2, <2>1, <2>2, DispatchAssumption DEF IInv, SpacingKept
<1>11. (cooldown = 0 => age = 0)'
  BY <1>1, <1>2 DEF Down, Most
<1> QED BY <1>6, <1>7, <1>8, <1>9, <1>10, <1>11 DEF IInv

\* A process that dies gives up its permits; its lease lapses by itself.
LEMMA KillKeeps ==
    ASSUME IInv, NEW p \in Processes, Kill(p)
    PROVE  IInv'
<1>1. Idle \in Request /\ Idle.owner = NoOwner /\ Idle.at = "idle"
  BY DEF Idle, Request, Places
<1>2. /\ req' = [r \in Requests |-> IF ProcessOf[r] = p THEN Idle ELSE req[r]]
      /\ queued' = [queued EXCEPT ![p] = <<>>]
      /\ dispatching' = [dispatching EXCEPT ![p] = FALSE]
      /\ UNCHANGED <<rowVars, wire, history>>
  BY DEF Kill
<1>3. <<>> \in Seq(Requests)
  OBVIOUS
<1>4. TypeOK'
  BY <1>1, <1>2, <1>3 DEF IInv, TypeOK, rowVars, history
<1>5. \A s \in Requests : req'[s] = req[s] \/ req'[s] = Idle
  BY <1>2
<1>6. \A s \in Requests : MayStart(req'[s]) => req'[s] = req[s]
  BY <1>1, <1>5 DEF MayStart
<1>7. PermitBacked' /\ PermitInTime'
  BY <1>2, <1>6, PermitsLapse DEF rowVars, history
<1>8. RowsOK'
  BY <1>1, <1>2, <1>5, Ownerless DEF IInv, RowsOK
<1>9. SpacingKept' /\ (cooldown = 0 => age = 0)'
  BY <1>2 DEF IInv, SpacingKept, rowVars, history
<1> QED BY <1>4, <1>7, <1>8, <1>9 DEF IInv

LEMMA NextKeeps == IInv /\ [Next]_vars => IInv'
<1> SUFFICES ASSUME IInv, [Next]_vars PROVE IInv'
  OBVIOUS
<1>1. ASSUME NEW r \in Requests, EnterQueue(r) \/ LeaveQueue(r) \/ Step(r)
      PROVE  IInv'
  BY <1>1, EnterStep, LeaveStep, StepKeeps, StartKeeps
<1>2. CASE Serve
  BY <1>2, AcquireKeeps, ReleaseKeeps, PublishKeeps DEF Serve
<1>3. CASE \E p \in Processes : Kill(p)
  BY <1>3, KillKeeps
<1>4. CASE UNCHANGED vars
  <2>1. UNCHANGED <<rowVars, wire, req, queued, dispatching, since, age>>
    BY <1>4 DEF vars, localVars, history
  <2>2. TypeOK' /\ SpacingKept' /\ (cooldown = 0 => age = 0)'
    BY <2>1 DEF IInv, TypeOK, SpacingKept, rowVars
  <2>3. PermitBacked' /\ PermitInTime'
    BY <2>1, PermitsLapse DEF rowVars
  <2>4. RowsOK'
    BY <2>1 DEF IInv, RowsOK
  <2> QED BY <2>2, <2>3, <2>4 DEF IInv
<1> QED BY <1>1, <1>2, <1>3, <1>4, ArmKeeps, TickKeeps DEF Next

-------------------------------------------------------------------------------
(* The theorems.                                                             *)

\* The parts of the invariant hold together in every reachable state.
THEOREM DispatchInvariant == Spec => []IInv
<1> QED BY InitKeeps, NextKeeps, PTL DEF Spec

\* Row, calls, requests, queues and turns keep their types.
THEOREM DispatchTypes == Spec => []TypeOK
<1>1. IInv => TypeOK
  BY DEF IInv
<1> QED BY <1>1, DispatchInvariant, PTL

\* A request may start only under the living lease, which outlives its permit:
\* for any requests, processes, delays, losses and kills.
THEOREM PermitsAreBacked == Spec => []PermitBacked
<1>1. IInv => PermitBacked
  BY DEF IInv
<1> QED BY <1>1, DispatchInvariant, PTL

\* Every step is a start, a cooldown or a wait of the limiter, or leaves it alone.
LEMMA StepsKeepLimit == IInv /\ [Next]_vars => [Limiter!Next]_(Limiter!limiterVars)
<1> SUFFICES ASSUME IInv, [Next]_vars
             PROVE  Limiter!Next \/ UNCHANGED <<since, cooldown, age>>
  BY DEF Limiter!limiterVars
<1>1. TypeOK
  BY DEF IInv
<1>2. ASSUME NEW r \in Requests, Dispatch(r)
      PROVE  Limiter!Start
  <2>1. MayStart(req[r])
    BY <1>2 DEF Dispatch, Usable, MayStart
  <2>2. /\ since = Spacing /\ (cooldown > 0 => age + req[r].timer <= Life)
        /\ req[r].timer \in Nat /\ req[r].timer > 0 /\ cooldown \in Nat /\ age \in Nat
    BY <1>1, <2>1, LifeType, SMTT(60) DEF IInv, PermitInTime, MayStart, TypeOK, Request
  <2>3. cooldown = 0 \/ age < Life
    BY <2>2, LifeType
  <2> QED BY <1>2, <2>2, <2>3 DEF Limiter!Start, Dispatch, rowVars
<1>3. ASSUME NEW r \in Requests, EnterQueue(r) \/ LeaveQueue(r) \/ (Step(r) /\ ~Dispatch(r))
      PROVE  UNCHANGED <<since, cooldown, age>>
  BY <1>3, Zenon DEF EnterQueue, LeaveQueue, Step, Ask, TakePermit, Pause, GiveUp, Uncertain, Discard,
                     CloseEnds, HoldEnds, ReleaseEnds, Respond, PublishEnds, rowVars, history
<1>4. ASSUME NEW m \in wire, ServeAcquire(m) \/ ServeRelease(m) \/ ServePublish(m)
      PROVE  Limiter!Cool \/ UNCHANGED <<since, cooldown, age>>
  <2>1. m.cool \in {0} \cup Cooldowns /\ cooldown \in Nat
    BY <1>1 DEF TypeOK, Call
  <2>2. CASE ServeAcquire(m)
    BY <2>2 DEF ServeAcquire, history
  <2>3. CASE UNCHANGED <<since, age>> /\ cooldown' = Extended(m.cool)
    <3>1. CASE m.cool = 0
      BY <2>1, <2>3, <3>1 DEF Extended, Most
    <3>2. CASE m.cool \in Cooldowns
      BY <2>3, <3>2 DEF Extended, Most, Limiter!Cool, Limiter!Most
    <3> QED BY <2>1, <3>1, <3>2
  <2>4. CASE ServeRelease(m)
    BY <2>3, <2>4 DEF ServeRelease, Freed, history
  <2>5. CASE ServePublish(m)
    BY <2>3, <2>5 DEF ServePublish, history
  <2> QED BY <1>4, <2>2, <2>4, <2>5
<1>5. ASSUME Tick PROVE Limiter!Tick
  BY <1>5 DEF Tick, Down, Least, Most, Limiter!Tick, Limiter!Least, Limiter!Most
<1>6. ASSUME Arm \/ (\E p \in Processes : Kill(p)) \/ UNCHANGED vars
      PROVE  UNCHANGED <<since, cooldown, age>>
  BY <1>6 DEF Arm, Kill, vars, rowVars, history
<1> QED BY <1>2, <1>3, <1>4, <1>5, <1>6 DEF Next, Serve, Limiter!Next

\* The gate implements the limiter: starts of all processes keep the spacing,
\* cooldowns are never shortened and stop the starts.
THEOREM DispatchKeepsLimit == Spec => KeepsLimit
<1>1. Init => Limiter!Init
  BY DEF Init, Limiter!Init
<1> QED BY <1>1, StepsKeepLimit, DispatchInvariant, PTL DEF Spec, KeepsLimit, Limiter!Spec

-------------------------------------------------------------------------------
(* Turns and queues.                                                         *)

\* A queue holds the members of a set, each once.
Lined(line, S) ==
    /\ \A i, j \in 1 .. Len(line) : line[i] = line[j] => i = j
    /\ S = {line[i] : i \in 1 .. Len(line)}

\* TurnPassedOn for one process, without cardinalities.
TurnOK(p) ==
    /\ dispatching[p] => \E r \in Requests : InTurn(p) = {r}
    /\ ~dispatching[p] => InTurn(p) = {} /\ queued[p] = <<>>
    /\ Lined(queued[p], InQueue(p))

Turns == \A p \in Processes : TurnOK(p)

\* A queue that holds a set, each member once, is as long as the set is large.
LEMMA LinedCounts ==
    ASSUME NEW line \in Seq(Requests), NEW S, Lined(line, S)
    PROVE  Cardinality(S) = Len(line)
<1>1. Len(line) \in Nat /\ DOMAIN line = 1 .. Len(line)
  OBVIOUS
<1>2. IsFiniteSet(1 .. Len(line)) /\ Cardinality(1 .. Len(line)) = Len(line)
  BY <1>1, FS_Interval
<1> DEFINE f == [i \in 1 .. Len(line) |-> line[i]]
<1>3. f \in Bijection(1 .. Len(line), S)
  <2>1. f \in [1 .. Len(line) -> S]
    BY DEF Lined
  <2>2. \A a, b \in 1 .. Len(line) : f[a] = f[b] => a = b
    BY DEF Lined
  <2>3. \A x \in S : \E a \in 1 .. Len(line) : f[a] = x
    BY DEF Lined
  <2> HIDE DEF f
  <2> QED
    BY <2>1, <2>2, <2>3 DEF Bijection, Injection, Surjection, IsInjective
<1> HIDE DEF f
<1> QED
  BY <1>2, <1>3, FS_Bijection DEF ExistsBijection

\* What joins the end of a queue joins the set.
LEMMA LinedAppend ==
    ASSUME NEW line \in Seq(Requests), NEW S, Lined(line, S), NEW r \in Requests, r \notin S
    PROVE  Lined(Append(line, r), S \cup {r})
<1> DEFINE longer == Append(line, r)
<1>1. /\ Len(line) \in Nat /\ Len(longer) = Len(line) + 1
      /\ \A i \in 1 .. Len(line) : longer[i] = line[i] /\ line[i] \in S
      /\ longer[Len(line) + 1] = r
  BY DEF Lined
<1> HIDE DEF longer
<1>2. \A i \in 1 .. Len(longer) : i \in 1 .. Len(line) \/ i = Len(line) + 1
  BY <1>1
<1>3. \A i, j \in 1 .. Len(longer) : longer[i] = longer[j] => i = j
  BY <1>1, <1>2 DEF Lined
<1>4. \A i \in 1 .. Len(longer) : longer[i] \in S \cup {r}
  BY <1>1, <1>2
<1>5. \A x \in S \cup {r} : \E i \in 1 .. Len(longer) : longer[i] = x
  <2>1. \A x \in S : \E i \in 1 .. Len(longer) : longer[i] = x
    BY <1>1 DEF Lined
  <2>2. Len(line) + 1 \in 1 .. Len(longer)
    BY <1>1
  <2> QED
    BY <1>1, <2>1, <2>2
<1>6. S \cup {r} = {longer[i] : i \in 1 .. Len(longer)}
  BY <1>4, <1>5
<1> QED
  BY <1>3, <1>6 DEF Lined, longer

\* What leaves a place of a queue leaves the set.
LEMMA LinedRemove ==
    ASSUME NEW line \in Seq(Requests), NEW S, Lined(line, S), NEW k \in 1 .. Len(line),
           NEW rest \in Seq(Requests), Len(rest) = Len(line) - 1,
           \A i \in 1 .. Len(rest) : rest[i] = IF i < k THEN line[i] ELSE line[i + 1]
    PROVE  Lined(rest, S \ {line[k]})
<1> DEFINE from(i) == IF i < k THEN i ELSE i + 1
<1>1. Len(line) \in Nat /\ k \in Nat
  OBVIOUS
<1>2. \A i \in 1 .. Len(rest) :
        /\ from(i) \in 1 .. Len(line) /\ from(i) # k /\ rest[i] = line[from(i)]
  BY <1>1
<1>3. \A i, j \in 1 .. Len(rest) : from(i) = from(j) => i = j
  BY <1>1
<1>4. \A n \in 1 .. Len(line) : n # k => \E i \in 1 .. Len(rest) : from(i) = n
  <2> SUFFICES ASSUME NEW n \in 1 .. Len(line), n # k
               PROVE  \E i \in 1 .. Len(rest) : from(i) = n
    OBVIOUS
  <2>1. CASE n < k
    <3>1. n \in 1 .. Len(rest) /\ from(n) = n
      BY <1>1, <2>1
    <3> QED
      BY <3>1
  <2>2. CASE n > k
    <3>1. n - 1 \in 1 .. Len(rest) /\ from(n - 1) = n
      BY <1>1, <2>2
    <3> QED
      BY <3>1
  <2> QED
    BY <1>1, <2>1, <2>2
<1> HIDE DEF from
<1>5. \A i, j \in 1 .. Len(rest) : rest[i] = rest[j] => i = j
  BY <1>2, <1>3 DEF Lined
<1>6. \A i \in 1 .. Len(rest) : rest[i] \in S \ {line[k]}
  BY <1>2 DEF Lined
<1>7. ASSUME NEW x \in S \ {line[k]}
      PROVE  \E i \in 1 .. Len(rest) : rest[i] = x
  <2>1. PICK n \in 1 .. Len(line) : line[n] = x
    BY <1>7 DEF Lined
  <2>2. n # k
    BY <1>7, <2>1
  <2> QED
    BY <1>2, <1>4, <2>1, <2>2
<1>8. S \ {line[k]} = {rest[i] : i \in 1 .. Len(rest)}
  <2>1. S \ {line[k]} \subseteq {rest[i] : i \in 1 .. Len(rest)}
    BY <1>7
  <2>2. {rest[i] : i \in 1 .. Len(rest)} \subseteq S \ {line[k]}
    BY <1>6
  <2> QED
    BY <2>1, <2>2
<1> QED
  BY <1>5, <1>8 DEF Lined

LEMMA LinedTail ==
    ASSUME NEW line \in Seq(Requests), NEW S, Lined(line, S), line # <<>>
    PROVE  Head(line) \in S /\ Lined(Tail(line), S \ {Head(line)})
<1>1. /\ Tail(line) \in Seq(Requests) /\ Len(Tail(line)) = Len(line) - 1
      /\ 1 \in 1 .. Len(line) /\ Head(line) = line[1]
      /\ \A i \in 1 .. Len(Tail(line)) : Tail(line)[i] = line[i + 1]
  OBVIOUS
<1>2. \A i \in 1 .. Len(Tail(line)) : Tail(line)[i] = IF i < 1 THEN line[i] ELSE line[i + 1]
  BY <1>1
<1>3. Head(line) \in S
  BY <1>1 DEF Lined
<1> QED
  BY <1>1, <1>2, <1>3, LinedRemove

\* TurnOK is TurnPassedOn.
LEMMA TurnsCount == ASSUME TypeOK, Turns PROVE TurnPassedOn
<1> SUFFICES ASSUME NEW p \in Processes
             PROVE  /\ Cardinality(InTurn(p)) = IF dispatching[p] THEN 1 ELSE 0
                    /\ ~dispatching[p] => queued[p] = <<>>
                    /\ InQueue(p) = {queued[p][i] : i \in DOMAIN queued[p]}
                    /\ Cardinality(InQueue(p)) = Len(queued[p])
  BY DEF TurnPassedOn
<1>1. TurnOK(p) /\ queued[p] \in Seq(Requests)
  BY DEF Turns, TypeOK
<1>2. Cardinality(InTurn(p)) = IF dispatching[p] THEN 1 ELSE 0
  BY <1>1, FS_Singleton, FS_EmptySet DEF TurnOK
<1>3. Cardinality(InQueue(p)) = Len(queued[p])
  BY <1>1, LinedCounts DEF TurnOK
<1>4. DOMAIN queued[p] = 1 .. Len(queued[p])
  BY <1>1
<1> QED
  BY <1>1, <1>2, <1>3, <1>4 DEF TurnOK, Lined

LEMMA InitTurns == Init => Turns
<1> SUFFICES ASSUME Init, NEW p \in Processes PROVE TurnOK(p)
  BY DEF Turns
<1>1. InTurn(p) = {} /\ InQueue(p) = {}
  BY DEF Init, Idle, InTurn, InQueue, TurnPlaces
<1>2. Lined(<<>>, {})
  BY DEF Lined
<1> QED
  BY <1>1, <1>2 DEF Init, TurnOK

\* A step that gives nobody a turn and takes none, nor touches a queue.
LEMMA TurnsStay ==
    ASSUME Turns, UNCHANGED <<queued, dispatching>>,
           \A s \in Requests : /\ req'[s].at \in TurnPlaces <=> req[s].at \in TurnPlaces
                               /\ req'[s].at = "queued" <=> req[s].at = "queued"
    PROVE  Turns'
<1>1. \A p \in Processes : InTurn(p)' = InTurn(p) /\ InQueue(p)' = InQueue(p)
  BY DEF InTurn, InQueue
<1> QED
  BY <1>1 DEF Turns, TurnOK

\* A step of the requests of one process.
LEMMA TurnsElsewhere ==
    ASSUME Turns, NEW p \in Processes, TurnOK(p)',
           \A q \in Processes \ {p} : queued'[q] = queued[q] /\ dispatching'[q] = dispatching[q],
           \A s \in Requests : ProcessOf[s] # p => req'[s] = req[s]
    PROVE  Turns'
<1>1. \A q \in Processes \ {p} : InTurn(q)' = InTurn(q) /\ InQueue(q)' = InQueue(q)
  BY DEF InTurn, InQueue
<1>2. \A q \in Processes \ {p} : TurnOK(q)'
  BY <1>1 DEF Turns, TurnOK
<1> QED
  BY <1>2 DEF Turns

\* A request gives its turn back.
LEMMA TurnHandedOn ==
    ASSUME TypeOK, Turns, NEW r \in Requests, NEW after \in Request, EndTurn(r, after),
           req[r].at \in TurnPlaces, after.at \in {"idle", "away"}
    PROVE  Turns'
<1> DEFINE p == ProcessOf[r]
<1>1. /\ p \in Processes /\ queued[p] \in Seq(Requests) /\ TurnOK(p)
      /\ req \in [Requests -> Request] /\ queued \in [Processes -> Seq(Requests)]
      /\ dispatching \in [Processes -> BOOLEAN]
  BY DispatchAssumption DEF TypeOK, Turns
<1>2. InTurn(p) = {r} /\ dispatching[p]
  <2>1. r \in InTurn(p)
    BY DEF InTurn
  <2> QED
    BY <1>1, <2>1 DEF TurnOK
<1>3. req[r].at # "queued" /\ after.at \notin TurnPlaces /\ after.at # "queued"
  BY DEF TurnPlaces
<1>4. CASE queued[p] = <<>>
  <2>1. /\ req' = [req EXCEPT ![r] = after]
        /\ dispatching' = [dispatching EXCEPT ![p] = FALSE] /\ queued' = queued
    BY <1>4 DEF EndTurn
  <2>2. InTurn(p)' = {} /\ InQueue(p)' = InQueue(p)
    BY <1>1, <1>2, <1>3, <2>1 DEF InTurn, InQueue
  <2>3. ~dispatching'[p]
    BY <1>1, <2>1
  <2>4. TurnOK(p)'
    BY <1>1, <1>4, <2>1, <2>2, <2>3 DEF TurnOK
  <2>5. /\ \A q \in Processes \ {p} : queued'[q] = queued[q] /\ dispatching'[q] = dispatching[q]
        /\ \A s \in Requests : ProcessOf[s] # p => req'[s] = req[s]
    BY <1>1, <2>1
  <2> HIDE DEF p
  <2> QED
    BY <1>1, <2>4, <2>5, TurnsElsewhere
<1>5. CASE queued[p] # <<>>
  <2> DEFINE line == queued[p]
             h == Head(line)
  <2>1. /\ req' = [req EXCEPT ![r] = after, ![h].at = "turn"]
        /\ queued' = [queued EXCEPT ![p] = Tail(line)] /\ dispatching' = dispatching
    BY <1>5 DEF EndTurn
  <2>2. h \in InQueue(p) /\ Lined(Tail(line), InQueue(p) \ {h})
    BY <1>1, <1>5, LinedTail DEF TurnOK
  <2> HIDE DEF h, line
  <2>3. h \in Requests /\ ProcessOf[h] = p /\ req[h].at = "queued" /\ h # r
    BY <1>3, <2>2 DEF InQueue
  <2>4. /\ req'[r] = after /\ req'[h].at = "turn"
        /\ \A s \in Requests \ {r, h} : req'[s] = req[s]
    <3>1. req'[r] = after /\ req'[h] = [req[h] EXCEPT !.at = "turn"]
      BY <1>1, <2>1, <2>3
    <3>2. req[h] \in Request
      BY <1>1, <2>3
    <3> QED
      BY <1>1, <2>1, <2>3, <3>1, <3>2 DEF Request
  <2>5. InTurn(p)' = {h}
    BY <1>2, <1>3, <2>3, <2>4 DEF InTurn, TurnPlaces
  <2>6. InQueue(p)' = InQueue(p) \ {h}
    BY <1>3, <2>3, <2>4 DEF InQueue
  <2>7. queued'[p] = Tail(line) /\ dispatching'[p]
    BY <1>1, <1>2, <2>1
  <2>8. TurnOK(p)'
    BY <2>2, <2>3, <2>5, <2>6, <2>7 DEF TurnOK
  <2>9. /\ \A q \in Processes \ {p} : queued'[q] = queued[q] /\ dispatching'[q] = dispatching[q]
        /\ \A s \in Requests : ProcessOf[s] # p => req'[s] = req[s]
    BY <1>1, <2>1, <2>3, <2>4
  <2> HIDE DEF p
  <2> QED
    BY <1>1, <2>8, <2>9, TurnsElsewhere
<1> QED
  BY <1>4, <1>5

\* A request joins the queue, or has the turn at once.
LEMMA TurnEntered ==
    ASSUME TypeOK, Turns, NEW r \in Requests, EnterQueue(r)
    PROVE  Turns'
<1> DEFINE p == ProcessOf[r]
           line == Append(queued[p], r)
<1>1. /\ p \in Processes /\ queued[p] \in Seq(Requests) /\ TurnOK(p)
      /\ req \in [Requests -> Request] /\ queued \in [Processes -> Seq(Requests)]
      /\ dispatching \in [Processes -> BOOLEAN]
  BY DispatchAssumption DEF TypeOK, Turns
<1>2. req[r].at = "idle" /\ r \notin InTurn(p) /\ r \notin InQueue(p)
  BY DEF EnterQueue, InTurn, InQueue, TurnPlaces
<1>3. Queued \in Request /\ Queued.at = "queued" /\ Queued.at \notin TurnPlaces
  BY DEF Queued, Idle, Request, Places, TurnPlaces
<1>4. CASE dispatching[p]
  <2>1. /\ queued' = [queued EXCEPT ![p] = line]
        /\ req' = [req EXCEPT ![r] = Queued] /\ dispatching' = dispatching
    BY <1>4 DEF EnterQueue
  <2>2. Lined(line, InQueue(p) \cup {r})
    BY <1>1, <1>2, LinedAppend DEF TurnOK
  <2> HIDE DEF line
  <2>3. req'[r] = Queued /\ \A s \in Requests \ {r} : req'[s] = req[s]
    BY <1>1, <2>1
  <2>4. InTurn(p)' = InTurn(p) /\ InQueue(p)' = InQueue(p) \cup {r}
    BY <1>2, <1>3, <2>3 DEF InTurn, InQueue
  <2>5. queued'[p] = line /\ dispatching'[p]
    BY <1>1, <1>4, <2>1
  <2>6. TurnOK(p)'
    BY <1>1, <1>4, <2>2, <2>4, <2>5 DEF TurnOK
  <2>7. /\ \A q \in Processes \ {p} : queued'[q] = queued[q] /\ dispatching'[q] = dispatching[q]
        /\ \A s \in Requests : ProcessOf[s] # p => req'[s] = req[s]
    BY <1>1, <2>1, <2>3
  <2> HIDE DEF p
  <2> QED
    BY <1>1, <2>6, <2>7, TurnsElsewhere
<1>5. CASE ~dispatching[p]
  <2>1. queued[p] = <<>> /\ InTurn(p) = {} /\ Lined(<<>>, InQueue(p))
    BY <1>1, <1>5 DEF TurnOK
  <2>2. Head(line) = r /\ Tail(line) = <<>>
    BY <2>1
  <2>3. /\ queued' = [queued EXCEPT ![p] = <<>>]
        /\ req' = [req EXCEPT ![r] = Queued, ![r].at = "turn"]
        /\ dispatching' = [dispatching EXCEPT ![p] = TRUE]
    BY <1>5, <2>2 DEF EnterQueue
  <2>4. req'[r].at = "turn" /\ \A s \in Requests \ {r} : req'[s] = req[s]
    <3>1. req'[r] = [Queued EXCEPT !.at = "turn"]
      BY <1>1, <2>3
    <3>2. [Queued EXCEPT !.at = "turn"].at = "turn"
      BY DEF Queued, Idle
    <3> QED
      BY <1>1, <2>3, <3>1, <3>2
  <2>5. InTurn(p)' = {r} /\ InQueue(p)' = InQueue(p)
    BY <1>2, <2>1, <2>4 DEF InTurn, InQueue, TurnPlaces
  <2>6. queued'[p] = <<>> /\ dispatching'[p]
    BY <1>1, <2>3
  <2>7. TurnOK(p)'
    BY <2>1, <2>5, <2>6 DEF TurnOK
  <2>8. /\ \A q \in Processes \ {p} : queued'[q] = queued[q] /\ dispatching'[q] = dispatching[q]
        /\ \A s \in Requests : ProcessOf[s] # p => req'[s] = req[s]
    BY <1>1, <2>3, <2>4
  <2> HIDE DEF p
  <2> QED
    BY <1>1, <2>7, <2>8, TurnsElsewhere
<1> QED
  BY <1>4, <1>5

\* A request leaves the queue from any place.
LEMMA TurnLeft ==
    ASSUME TypeOK, Turns, NEW r \in Requests, LeaveQueue(r)
    PROVE  Turns'
<1> DEFINE p == ProcessOf[r]
           line == queued[p]
<1>1. /\ p \in Processes /\ line \in Seq(Requests) /\ TurnOK(p)
      /\ req \in [Requests -> Request] /\ queued \in [Processes -> Seq(Requests)]
  BY DispatchAssumption DEF TypeOK, Turns
<1>2. Idle.at = "idle" /\ Idle.at \notin TurnPlaces
  BY DEF Idle, TurnPlaces
<1>3. PICK i \in 1 .. Len(line) :
        /\ line[i] = r
        /\ queued' = [queued EXCEPT ![p] = SubSeq(line, 1, i - 1) \o SubSeq(line, i + 1, Len(line))]
  <2>1. PICK i \in DOMAIN line :
          /\ line[i] = r
          /\ queued' = [queued EXCEPT ![p] = SubSeq(line, 1, i - 1) \o SubSeq(line, i + 1, Len(line))]
    BY DEF LeaveQueue
  <2>2. i \in 1 .. Len(line)
    BY <1>1
  <2> QED
    BY <2>1, <2>2
<1> DEFINE rest == SubSeq(line, 1, i - 1) \o SubSeq(line, i + 1, Len(line))
<1>4. /\ req' = [req EXCEPT ![r] = Idle] /\ dispatching' = dispatching
      /\ req[r].at = "queued" /\ req[r].at \notin TurnPlaces
  BY DEF LeaveQueue, TurnPlaces
<1>5. /\ rest \in Seq(Requests) /\ Len(rest) = Len(line) - 1
      /\ \A k \in 1 .. Len(rest) : rest[k] = IF k < i THEN line[k] ELSE line[k + 1]
  <2> HIDE DEF line
  <2>1. line \in Seq(Requests) /\ Len(line) \in Nat /\ i \in 1 .. Len(line)
    BY <1>1
  <2>2. /\ SubSeq(line, 1, i - 1) \in Seq(Requests) /\ Len(SubSeq(line, 1, i - 1)) = i - 1
        /\ \A k \in 1 .. (i - 1) : SubSeq(line, 1, i - 1)[k] = line[k]
    BY <2>1
  <2>3. /\ SubSeq(line, i + 1, Len(line)) \in Seq(Requests)
        /\ Len(SubSeq(line, i + 1, Len(line))) = Len(line) - i
        /\ \A k \in 1 .. (Len(line) - i) : SubSeq(line, i + 1, Len(line))[k] = line[i + k]
    BY <2>1
  <2> DEFINE front == SubSeq(line, 1, i - 1)
             back == SubSeq(line, i + 1, Len(line))
  <2> HIDE DEF front, back
  <2>4. /\ rest = front \o back /\ Len(line) \in Nat
        /\ front \in Seq(Requests) /\ Len(front) = i - 1
        /\ back \in Seq(Requests) /\ Len(back) = Len(line) - i
        /\ \A k \in 1 .. (i - 1) : front[k] = line[k]
        /\ \A k \in 1 .. (Len(line) - i) : back[k] = line[i + k]
    BY <2>1, <2>2, <2>3 DEF rest, front, back
  <2> HIDE DEF rest
  <2>5. /\ rest \in Seq(Requests) /\ Len(rest) = Len(line) - 1
        /\ \A k \in 1 .. Len(rest) : rest[k] = IF k <= Len(front) THEN front[k] ELSE back[k - Len(front)]
    BY <2>4
  <2>6. ASSUME NEW k \in 1 .. Len(rest)
        PROVE  rest[k] = IF k < i THEN line[k] ELSE line[k + 1]
    <3>1. CASE k < i
      BY <2>4, <2>5, <3>1
    <3>2. CASE k >= i
      <4>1. k - (i - 1) \in 1 .. (Len(line) - i) /\ i + (k - (i - 1)) = k + 1
        BY <2>4, <2>5, <3>2
      <4>2. rest[k] = back[k - (i - 1)]
        BY <2>4, <2>5, <3>2, SMTT(30)
      <4> QED
        BY <2>4, <3>2, <4>1, <4>2
    <3> QED
      BY <3>1, <3>2
  <2> QED
    BY <2>5, <2>6
<1> HIDE DEF rest
<1>6. Lined(rest, InQueue(p) \ {r})
  <2>1. Lined(line, InQueue(p))
    BY <1>1 DEF TurnOK
  <2> HIDE DEF line
  <2> QED
    BY <1>1, <1>3, <1>5, <2>1, LinedRemove
<1>7. req'[r] = Idle /\ \A s \in Requests \ {r} : req'[s] = req[s]
  BY <1>1, <1>4
<1>8. InTurn(p)' = InTurn(p) /\ InQueue(p)' = InQueue(p) \ {r}
  BY <1>2, <1>4, <1>7 DEF InTurn, InQueue
<1>9. /\ queued'[p] = rest /\ dispatching'[p] = dispatching[p]
      /\ \A q \in Processes \ {p} : queued'[q] = queued[q] /\ dispatching'[q] = dispatching[q]
      /\ \A s \in Requests : ProcessOf[s] # p => req'[s] = req[s]
  BY <1>1, <1>3, <1>4, <1>7 DEF rest
<1>10. dispatching[p]
  BY <1>1, <1>3 DEF TurnOK
<1> HIDE DEF p, line
<1>11. TurnOK(p)'
  BY <1>1, <1>6, <1>8, <1>9, <1>10 DEF TurnOK
<1> QED
  BY <1>1, <1>9, <1>11, TurnsElsewhere

\* A process that is killed has no turn and no queue.
LEMMA TurnKilled ==
    ASSUME TypeOK, Turns, NEW p \in Processes, Kill(p)
    PROVE  Turns'
<1>1. \A s \in Requests : req'[s] = IF ProcessOf[s] = p THEN Idle ELSE req[s]
  BY DEF Kill
<1>2. /\ queued'[p] = <<>> /\ ~dispatching'[p]
      /\ \A q \in Processes \ {p} : queued'[q] = queued[q] /\ dispatching'[q] = dispatching[q]
  BY DEF Kill, TypeOK
<1>3. InTurn(p)' = {} /\ InQueue(p)' = {}
  BY <1>1 DEF InTurn, InQueue, Idle, TurnPlaces
<1>4. TurnOK(p)'
  BY <1>2, <1>3 DEF TurnOK, Lined
<1> QED
  BY <1>1, <1>2, <1>4, TurnsElsewhere

\* The place of a request changes without its turn.
LEMMA TurnKept ==
    ASSUME TypeOK, Turns, NEW r \in Requests, NEW x, req' = [req EXCEPT ![r] = x],
           UNCHANGED <<queued, dispatching>>,
           \/ req[r].at \in TurnPlaces /\ x.at \in TurnPlaces
           \/ req[r].at \in {"away", "publishing"} /\ x.at \in {"idle", "away", "publishing"}
    PROVE  Turns'
<1>1. req'[r] = x /\ \A s \in Requests \ {r} : req'[s] = req[s]
  BY DEF TypeOK
<1>2. \A s \in Requests : /\ req'[s].at \in TurnPlaces <=> req[s].at \in TurnPlaces
                          /\ req'[s].at = "queued" <=> req[s].at = "queued"
  BY <1>1 DEF TurnPlaces
<1> QED
  BY <1>2, TurnsStay

\* What a request does keeps the turns, or hands its turn on.
LEMMA StepKeepsTurns ==
    ASSUME TypeOK, Turns, NEW r \in Requests, Step(r)
    PROVE  Turns'
<1>1. req[r] \in Request /\ Idle \in Request /\ Idle.at = "idle"
  BY DEF TypeOK, Idle, Request, Places
<1>2. CASE Ask(r)
  <2>1. PICK o, left : req' = [req EXCEPT ![r] = Asking(r, o, left)]
    BY <1>2 DEF Ask
  <2>2. Asking(r, o, left).at = "asking"
    BY <1>1 DEF Asking, Request
  <2> QED
    BY <1>2, <2>1, <2>2, TurnKept DEF Ask, TurnPlaces
<1>3. CASE TakePermit(r)
  <2> DEFINE x == [req[r] EXCEPT !.at = "granted", !.reply = "none", !.left = 0]
  <2>1. x.at = "granted" /\ req' = [req EXCEPT ![r] = x]
    BY <1>1, <1>3 DEF TakePermit, Request, TypeOK
  <2> HIDE DEF x
  <2> QED
    BY <1>3, <2>1, TurnKept DEF TakePermit, TurnPlaces
<1>4. CASE Pause(r)
  <2>1. PICK w \in 1 .. Spacing :
          \/ /\ req' = [req EXCEPT ![r].at = "pausing", ![r].timer = w, ![r].reply = "none"]
             /\ UNCHANGED <<queued, dispatching>>
          \/ EndTurn(r, Idle)
    BY <1>4 DEF Pause
  <2>2. CASE EndTurn(r, Idle)
    BY <1>1, <1>4, <2>2, TurnHandedOn DEF Pause, TurnPlaces
  <2>3. CASE /\ req' = [req EXCEPT ![r].at = "pausing", ![r].timer = w, ![r].reply = "none"]
             /\ UNCHANGED <<queued, dispatching>>
    <3> DEFINE x == [req[r] EXCEPT !.at = "pausing", !.timer = w, !.reply = "none"]
    <3>1. x.at = "pausing" /\ req' = [req EXCEPT ![r] = x]
      BY <1>1, <2>3 DEF Request, TypeOK
    <3> HIDE DEF x
    <3> QED
      BY <1>4, <2>3, <3>1, TurnKept DEF Pause, TurnPlaces
  <2> QED
    BY <2>1, <2>2, <2>3
<1>5. CASE GiveUp(r)
  BY <1>1, <1>5, TurnHandedOn DEF GiveUp, TurnPlaces
<1>6. CASE Uncertain(r) \/ Discard(r)
  <2> DEFINE x == [Idle EXCEPT !.at = "closing"]
  <2>1. /\ x.at = "closing" /\ req' = [req EXCEPT ![r] = x]
        /\ UNCHANGED <<queued, dispatching>> /\ req[r].at \in {"asking", "granted"}
    BY <1>6 DEF Uncertain, Discard, Close, Idle
  <2> HIDE DEF x
  <2> QED
    BY <2>1, TurnKept DEF TurnPlaces
<1>7. CASE CloseEnds(r)
  BY <1>1, <1>7, TurnHandedOn DEF CloseEnds, TurnPlaces
<1>8. CASE Dispatch(r)
  <2> DEFINE x == [req[r] EXCEPT !.at = "holding", !.timer = Spacing]
  <2>1. x.at = "holding" /\ req' = [req EXCEPT ![r] = x]
    BY <1>1, <1>8 DEF Dispatch, Request, TypeOK
  <2> HIDE DEF x
  <2> QED
    BY <1>8, <2>1, TurnKept DEF Dispatch, Usable, TurnPlaces
<1>9. CASE HoldEnds(r)
  <2>1. PICK c \in {0} \cup Cooldowns :
          req' = [req EXCEPT ![r].at = "releasing", ![r].cool = c]
    BY <1>9 DEF HoldEnds
  <2> DEFINE x == [req[r] EXCEPT !.at = "releasing", !.cool = c]
  <2>2. x.at = "releasing" /\ req' = [req EXCEPT ![r] = x]
    BY <1>1, <2>1 DEF Request, TypeOK
  <2> HIDE DEF x
  <2> QED
    BY <1>9, <2>2, TurnKept DEF HoldEnds, TurnPlaces
<1>10. CASE ReleaseEnds(r)
  <2> DEFINE away == [Idle EXCEPT !.at = "away", !.cool = req[r].cool]
  <2>1. PICK after \in {Idle, away} : EndTurn(r, after)
    BY <1>10 DEF ReleaseEnds
  <2>2. away \in Request /\ away.at = "away"
    BY <1>1 DEF Idle, Request, Places
  <2> HIDE DEF away
  <2>3. after \in Request /\ after.at \in {"idle", "away"}
    BY <1>1, <2>2
  <2> QED
    BY <1>10, <2>1, <2>3, TurnHandedOn DEF ReleaseEnds, TurnPlaces
<1>11. CASE Respond(r)
  <2>1. PICK x \in {Idle, [Idle EXCEPT !.at = "publishing"]} : req' = [req EXCEPT ![r] = x]
    BY <1>11 DEF Respond
  <2>2. x.at \in {"idle", "publishing"}
    BY DEF Idle
  <2> QED
    BY <1>11, <2>1, <2>2, TurnKept DEF Respond
<1>12. CASE PublishEnds(r)
  BY <1>1, <1>12, TurnKept DEF PublishEnds
<1> QED
  BY <1>2, <1>3, <1>4, <1>5, <1>6, <1>7, <1>8, <1>9, <1>10, <1>11, <1>12 DEF Step

\* Replies and time leave every request in its place.
LEMMA PlacesKeepTurns ==
    ASSUME TypeOK, Turns, UNCHANGED <<queued, dispatching>>,
           \A s \in Requests : req'[s].at = req[s].at
    PROVE  Turns'
BY TurnsStay

LEMMA NextKeepsTurns == TypeOK /\ Turns /\ [Next]_vars => Turns'
<1> SUFFICES ASSUME TypeOK, Turns, [Next]_vars PROVE Turns'
  OBVIOUS
<1>1. ASSUME NEW r \in Requests, EnterQueue(r) \/ LeaveQueue(r) \/ Step(r)
      PROVE  Turns'
  BY <1>1, TurnEntered, TurnLeft, StepKeepsTurns
<1>2. ASSUME NEW m \in wire, ServeAcquire(m) \/ ServeRelease(m) \/ ServePublish(m)
      PROVE  Turns'
  <2>1. \/ UNCHANGED req
        \/ \E s \in Requests : \E a : req' = [req EXCEPT ![s].reply = a]
    BY <1>2 DEF ServeAcquire, ServeRelease, ServePublish, Answer, localVars
  <2>2. UNCHANGED <<queued, dispatching>>
    BY <1>2 DEF ServeAcquire, ServeRelease, ServePublish, localVars
  <2>3. ASSUME NEW s \in Requests, NEW a, req' = [req EXCEPT ![s].reply = a]
        PROVE  \A r \in Requests : req'[r].at = req[r].at
    <3>1. req[s] \in Request /\ req \in [Requests -> Request]
      BY DEF TypeOK
    <3>2. req'[s] = [req[s] EXCEPT !.reply = a] /\ \A r \in Requests \ {s} : req'[r] = req[r]
      BY <2>3, <3>1
    <3>3. req'[s].at = req[s].at
      BY <3>1, <3>2 DEF Request
    <3> QED
      BY <3>2, <3>3
  <2>4. \A s \in Requests : req'[s].at = req[s].at
    BY <2>1, <2>3
  <2> QED
    BY <2>2, <2>4, PlacesKeepTurns
<1>3. CASE Arm \/ UNCHANGED vars
  <2>1. UNCHANGED localVars
    BY <1>3 DEF Arm, vars
  <2> QED
    BY <2>1, PlacesKeepTurns DEF localVars
<1>4. CASE Tick
  <2>1. \A s \in Requests : req'[s].at = req[s].at
    BY <1>4 DEF Tick, TypeOK, Request
  <2> QED
    BY <1>4, <2>1, PlacesKeepTurns DEF Tick
<1>5. ASSUME NEW p \in Processes, Kill(p) PROVE Turns'
  BY <1>5, TurnKilled
<1> QED
  BY <1>1, <1>2, <1>3, <1>4, <1>5 DEF Next, Serve

\* In every process one request has the turn, or nobody waits; the queue holds
\* those that wait, each once.  So no way out of the turn, refusals, timeouts
\* and late replies included, loses it or passes it on twice
\* (createSecDispatchCoordinator: localTurn, advanceQueue, releaseTurn).
THEOREM TurnsArePassedOn == Spec => []TurnPassedOn
<1>1. TypeOK /\ Turns => TurnPassedOn
  BY TurnsCount
<1> QED
  BY <1>1, InitTurns, NextKeepsTurns, DispatchTypes, PTL DEF Spec
===============================================================================
